--------------------------- MODULE SyncLoop_proofs ---------------------------
(***************************************************************************)
(* Proofs about SyncLoop: type correctness, and that no two unresolved     *)
(* issues of the game share a (file, title) when each review response      *)
(* lists a finding at most once.                                           *)
(***************************************************************************)
EXTENDS SyncLoop, TLAPS

USE ConstAssumption

(***************************************************************************)
(* Lemmas about the helpers that change the issues table and the bag of    *)
(* findings still to post.                                                 *)
(***************************************************************************)
LEMMA AddIssueType ==
    ASSUME NEW tbl, NEW D, tbl \in [D -> IssueRec], NEW g \in Finding,
           nextId \in Nat
    PROVE  AddIssue(tbl, g) \in [D \cup {nextId} -> IssueRec]
BY DEF AddIssue, IssueRec, Finding

LEMMA EmptyTables ==
    /\ DOMAIN NoIssues = {} /\ NoIssues \in [DOMAIN NoIssues -> IssueRec]
    /\ DOMAIN EmptyBag = {} /\ EmptyBag \in [DOMAIN EmptyBag -> 1..MaxRepeat]
BY DEF NoIssues, EmptyBag

LEMMA TakeOneType ==
    ASSUME NEW b, NEW D, NEW M \in Nat, b \in [D -> 1..M], NEW g \in D
    PROVE  /\ DOMAIN TakeOne(b, g) \subseteq D
           /\ TakeOne(b, g) \in [DOMAIN TakeOne(b, g) -> 1..M]
           /\ b[g] = 1 => DOMAIN TakeOne(b, g) = D \ {g}
BY DEF TakeOne

(* Every action of the loop and the commands keeps the state well typed.  *)
LEMMA TypeStep == TypeOK /\ [Next]_vars => TypeOK'
<1> SUFFICES ASSUME TypeOK, [Next]_vars PROVE TypeOK'
  OBVIOUS
<1> USE DEF TypeOK
<1>1. CASE \E f \in Files : RemoteEdit(f)
  BY <1>1 DEF RemoteEdit, Versions
<1>2. CASE WaitReady
  BY <1>2 DEF WaitReady, Pcs, LoopPcs
<1>3. CASE SyncbackOk
  BY <1>3 DEF SyncbackOk, Pcs, LoopPcs
<1>4. CASE SyncbackFail
  BY <1>4 DEF SyncbackFail, LoopError, UpdateLastError, ThrottleCount,
              Pcs, LoopPcs
<1>5. CASE DiffOk \/ DiffFail
  BY <1>5 DEF DiffOk, DiffFail, Pcs, LoopPcs
<1>6. CASE NamesOk \/ NamesFail
  <2>1. ASSUME NEW ch \in SUBSET Files, NamesDone(ch) PROVE TypeOK'
    BY <2>1 DEF NamesDone, AfterEmbeds, Pcs, LoopPcs, IssueRec, OpenIds, Resolved
  <2>2. DiffFiles \in SUBSET Files
    BY DEF DiffFiles
  <2>3. QED BY <1>6, <2>1, <2>2 DEF NamesOk, NamesFail
<1>7. CASE EmbedsDone
  BY <1>7 DEF EmbedsDone, AfterEmbeds, Pcs, LoopPcs
<1>8. CASE ReviewOk
  BY <1>8 DEF ReviewOk, Responses, Dedup, Pcs, LoopPcs
<1>9. CASE ReviewFail
  BY <1>9 DEF ReviewFail, UpdateLastError, ThrottleCount, Pcs, LoopPcs
<1>10. CASE SummaryOk \/ PostOk
  <2>1. ASSUME NEW tbl, tbl \in [DOMAIN issues -> IssueRec], PostNext(tbl)
        PROVE  /\ issues' \in [DOMAIN issues' -> IssueRec]
               /\ DOMAIN issues' \subseteq 1..(nextId' - 1)
               /\ nextId' \in Nat \ {0}
               /\ DOMAIN pending' \subseteq Finding
               /\ pending' \in [DOMAIN pending' -> 1..MaxRepeat]
               /\ cur' \in Nat
               /\ pc' \in Pcs
    <3>1. CASE DOMAIN pending = {}
      BY <2>1, <3>1 DEF PostNext, Pcs, LoopPcs
    <3>2. CASE DOMAIN pending # {}
      <4>1. PICK g \in DOMAIN pending :
               /\ issues' = AddIssue(tbl, g)
               /\ cur' = nextId
               /\ nextId' = nextId + 1
               /\ pending' = TakeOne(pending, g)
               /\ pc' = "post"
        BY <2>1, <3>2 DEF PostNext
      <4>2. issues' \in [DOMAIN issues \cup {nextId} -> IssueRec]
        BY <2>1, <4>1, AddIssueType
      <4>3. MaxRepeat \in Nat
        BY DEF MaxRepeat
      <4>4. /\ DOMAIN pending' \subseteq DOMAIN pending
            /\ pending' \in [DOMAIN pending' -> 1..MaxRepeat]
        BY <4>1, <4>3, TakeOneType
      <4>5. DOMAIN issues' \subseteq 1..(nextId' - 1)
        BY <4>1, <4>2
      <4>6. QED BY <4>1, <4>2, <4>4, <4>5 DEF Pcs, LoopPcs
    <3>3. QED BY <3>1, <3>2
  <2>2. [issues EXCEPT ![cur] = WithMessage(@)] \in [DOMAIN issues -> IssueRec]
    BY DEF IssueRec, WithMessage
  <2>3. QED BY <1>10, <2>1, <2>2 DEF SummaryOk, PostOk
<1>11. CASE PostFail \/ GitFail
  BY <1>11 DEF PostFail, GitFail, LoopError, UpdateLastError,
               ThrottleCount, Pcs, LoopPcs
<1>12. CASE AddOk \/ CommitOk
  BY <1>12 DEF AddOk, CommitOk, Pcs, LoopPcs
<1>13. CASE SendErrOk \/ SendErrFail \/ Wake
  BY <1>13 DEF SendErrOk, SendErrFail, Wake, Pcs, LoopPcs
<1>14. CASE OnReady
  BY <1>14 DEF OnReady, StartSyncLoop, Pcs, LoopPcs
<1>15. CASE RemoveGame
  BY <1>15, EmptyTables DEF RemoveGame, StopSyncLoop, Pcs
<1>19. CASE ResetBegin
  <2>1. pending' = EmptyBag /\ pc' \in Pcs /\ changed' = {} /\ cur' = 0
    BY <1>19 DEF ResetBegin, StopSyncLoop, Pcs
  <2>2. /\ wd' \in [Files -> Versions]
        /\ index' \in [Files -> Versions]
        /\ head' \in [Files -> Versions]
    BY <1>19 DEF ResetBegin, Versions
  <2>3. resetting' \in 0..MaxResets /\ repo' \in BOOLEAN
    <3>1. resetting' = resetting + 1 /\ resetting < MaxResets /\ repo' = FALSE
      BY <1>19 DEF ResetBegin
    <3>2. resetting \in 0..MaxResets /\ MaxResets \in Nat
      OBVIOUS
    <3>3. resetting' \in 0..MaxResets
      BY <3>1, <3>2
    <3>4. repo' \in BOOLEAN
      BY <3>1
    <3>5. QED BY <3>3, <3>4
  <2>6. /\ remote' = remote /\ issues' = issues /\ nextId' = nextId
        /\ lastError' = lastError /\ errorCount' = errorCount
        /\ gameExists' = gameExists
    BY <1>19, Zenon DEF ResetBegin
  <2>4. QED BY <2>1, <2>2, <2>3, <2>6, EmptyTables
<1>20. CASE ResetCloneOk
  <2>1. CASE gameExists
    <3>1. pc' \in Pcs
      BY <1>20, <2>1 DEF ResetCloneOk, StartSyncLoop, Pcs, LoopPcs
    <3>2. issues' = NoIssues
      BY <1>20, <2>1 DEF ResetCloneOk
    <3>3. /\ lastError' = NoError /\ errorCount' = 0
          /\ remote' = remote /\ nextId' = nextId /\ changed' = changed
          /\ pending' = pending /\ cur' = cur /\ gameExists' = gameExists
          /\ wd' = remote /\ index' = remote /\ head' = remote
          /\ resetting' = resetting - 1 /\ resetting > 0 /\ repo' = TRUE
      BY <1>20, <2>1 DEF ResetCloneOk
    <3>4. /\ DOMAIN issues' \subseteq 1..(nextId' - 1)
          /\ issues' \in [DOMAIN issues' -> IssueRec]
      BY <3>2, <3>3, EmptyTables
    <3>5. /\ wd' \in [Files -> Versions] /\ index' \in [Files -> Versions]
          /\ head' \in [Files -> Versions]
      BY <3>3 DEF Versions
    <3>6. /\ lastError' \in ErrMsgs \cup {NoError}
          /\ errorCount' \in 0..MaxErrCount
      BY <3>3
    <3>7. /\ remote' \in [Files -> Versions] /\ nextId' \in Nat \ {0}
          /\ changed' \subseteq Files /\ cur' \in Nat
          /\ DOMAIN pending' \subseteq Finding
          /\ pending' \in [DOMAIN pending' -> 1..MaxRepeat]
      BY <3>3 DEF Versions
    <3>8. /\ gameExists' \in BOOLEAN /\ resetting' \in 0..MaxResets
          /\ repo' \in BOOLEAN
      BY <3>3
    <3>9. QED BY <3>1, <3>4, <3>5, <3>6, <3>7, <3>8
  <2>2. CASE ~gameExists
    BY <1>20, <2>2 DEF ResetCloneOk
  <2>3. QED BY <2>1, <2>2
<1>21. CASE ResetCloneFail
  BY <1>21 DEF ResetCloneFail
<1>16. CASE \E j \in DOMAIN issues : MarkFixed(j)
  BY <1>16 DEF MarkFixed, IssueRec, Resolved
<1>22. CASE Deliver
  BY <1>22 DEF Deliver, IssueRec, Shown
<1>17. CASE UNCHANGED vars
  BY <1>17 DEF vars
<1>18. QED
  BY <1>1, <1>2, <1>3, <1>4, <1>5, <1>6, <1>7, <1>8, <1>9, <1>10,
     <1>11, <1>12, <1>13, <1>14, <1>15, <1>16, <1>17, <1>19, <1>20,
     <1>21, <1>22 DEF Next, LoopStep

(* The initial state, a freshly cloned game, is well typed.               *)
LEMMA TypeInit == Init => TypeOK
<1> SUFFICES ASSUME Init PROVE TypeOK
  OBVIOUS
<1>1. remote \in [Files -> Versions]
  BY DEF Init, Versions
<1>2. issues = NoIssues /\ pending = EmptyBag
  BY DEF Init
<1>3. /\ DOMAIN issues \subseteq 1..(nextId - 1)
      /\ issues \in [DOMAIN issues -> IssueRec]
      /\ DOMAIN pending \subseteq Finding
      /\ pending \in [DOMAIN pending -> 1..MaxRepeat]
  BY <1>2, EmptyTables
<1>4. /\ nextId \in Nat \ {0}
      /\ lastError \in ErrMsgs \cup {NoError}
      /\ errorCount \in 0..MaxErrCount
      /\ pc \in Pcs
      /\ changed \subseteq Files
      /\ cur \in Nat
  BY DEF Init, Pcs, LoopPcs
<1>5. QED BY <1>1, <1>3, <1>4 DEF Init, TypeOK

(* Type correctness of every state of the sync loop, its database rows    *)
(* and its git state.                                                      *)
THEOREM TypeCorrect == Spec => []TypeOK
BY TypeInit, TypeStep, PTL DEF Spec

-----------------------------------------------------------------------------
(***************************************************************************)
(* Open rows, their keys and their uniqueness for an arbitrary issues      *)
(* table t, so that lemmas can speak of the table before and after a step. *)
(***************************************************************************)
OpenOf(t) == {j \in DOMAIN t : ~t[j].resolved}

KeysOf(t) == {[file |-> t[j].file, title |-> t[j].title] : j \in OpenOf(t)}

UniqueIn(t) ==
    \A i, j \in OpenOf(t) :
        t[i].file = t[j].file /\ t[i].title = t[j].title => i = j

LEMMA OpenDefs ==
    /\ OpenKeys = KeysOf(issues)
    /\ NoDuplicateOpen <=> UniqueIn(issues)
BY DEF OpenKeys, OpenIds, KeyOf, KeysOf, OpenOf, NoDuplicateOpen, UniqueIn

(* A step that only resolves rows (auto-resolve, Mark Fixed) or sets their *)
(* message id keeps every open key and cannot create a duplicate.          *)
LEMMA ResolveOnly ==
    ASSUME NEW D, NEW t \in [D -> IssueRec], NEW u \in [D -> IssueRec],
           \A j \in D : /\ u[j].file = t[j].file
                        /\ u[j].title = t[j].title
                        /\ ~u[j].resolved => ~t[j].resolved
    PROVE  /\ KeysOf(u) \subseteq KeysOf(t)
           /\ UniqueIn(t) => UniqueIn(u)
<1>1. OpenOf(u) \subseteq OpenOf(t)
  <2> SUFFICES ASSUME NEW j \in OpenOf(u) PROVE j \in OpenOf(t)
    OBVIOUS
  <2>1. j \in D /\ ~u[j].resolved
    BY DEF OpenOf
  <2>2. QED BY <2>1 DEF OpenOf
<1>2. KeysOf(u) \subseteq KeysOf(t)
  <2> SUFFICES ASSUME NEW k \in KeysOf(u) PROVE k \in KeysOf(t)
    OBVIOUS
  <2>1. PICK j \in OpenOf(u) : k = [file |-> u[j].file, title |-> u[j].title]
    BY DEF KeysOf
  <2>2. j \in OpenOf(t) /\ k = [file |-> t[j].file, title |-> t[j].title]
    BY <1>1, <2>1 DEF OpenOf
  <2>3. QED BY <2>2 DEF KeysOf
<1>3. UniqueIn(t) => UniqueIn(u)
  BY <1>1 DEF OpenOf, UniqueIn
<1>4. QED BY <1>2, <1>3

(* add_issue of a finding that is not an open key keeps the open keys      *)
(* unique and adds exactly that key.                                       *)
LEMMA AddFresh ==
    ASSUME NEW t, NEW D, t \in [D -> IssueRec], nextId \notin D,
           NEW g \in Finding, g \notin KeysOf(t), UniqueIn(t)
    PROVE  /\ UniqueIn(AddIssue(t, g))
           /\ KeysOf(AddIssue(t, g)) = KeysOf(t) \cup {g}
<1>1. g = [file |-> g.file, title |-> g.title]
  BY DEF Finding
<1>2. OpenOf(AddIssue(t, g)) = OpenOf(t) \cup {nextId}
  BY DEF OpenOf, AddIssue, IssueRec
<1>3. AddIssue(t, g)[nextId] = [file |-> g.file, title |-> g.title,
                                resolved |-> FALSE, msg |-> FALSE,
                                shown |-> FALSE]
  BY DEF AddIssue
<1>4. \A j \in OpenOf(t) : AddIssue(t, g)[j] = t[j] /\ j # nextId
  BY DEF AddIssue, OpenOf
<1>5. \A j \in OpenOf(t) : [file |-> t[j].file, title |-> t[j].title] # g
  BY DEF KeysOf
<1>6. UniqueIn(AddIssue(t, g))
  <2> DEFINE a == AddIssue(t, g)
  <2> SUFFICES ASSUME NEW i \in OpenOf(a), NEW j \in OpenOf(a),
                      a[i].file = a[j].file, a[i].title = a[j].title
               PROVE  i = j
    BY DEF UniqueIn
  <2>1. CASE i \in OpenOf(t) /\ j \in OpenOf(t)
    BY <2>1, <1>4 DEF UniqueIn
  <2>2. CASE i \in OpenOf(t) /\ j = nextId
    BY <2>2, <1>1, <1>3, <1>4, <1>5
  <2>3. CASE i = nextId /\ j \in OpenOf(t)
    BY <2>3, <1>1, <1>3, <1>4, <1>5
  <2>4. QED BY <1>2, <2>1, <2>2, <2>3
<1>7. KeysOf(AddIssue(t, g)) = KeysOf(t) \cup {g}
  <2> DEFINE a == AddIssue(t, g)
             Key(r) == [file |-> r.file, title |-> r.title]
  <2>1. KeysOf(a) = {Key(a[j]) : j \in OpenOf(a)}
        /\ KeysOf(t) = {Key(t[j]) : j \in OpenOf(t)}
    BY DEF KeysOf
  <2>2. Key(a[nextId]) = g
    BY <1>1, <1>3
  <2>3. \A j \in OpenOf(t) : Key(a[j]) = Key(t[j])
    BY <1>4
  <2>4. KeysOf(a) \subseteq KeysOf(t) \cup {g}
    <3> SUFFICES ASSUME NEW j \in OpenOf(a) PROVE Key(a[j]) \in KeysOf(t) \cup {g}
      BY <2>1
    <3>1. CASE j = nextId
      BY <3>1, <2>2
    <3>2. CASE j \in OpenOf(t)
      BY <3>2, <2>1, <2>3
    <3>3. QED BY <1>2, <3>1, <3>2
  <2>5. KeysOf(t) \cup {g} \subseteq KeysOf(a)
    <3>1. g \in KeysOf(a)
      BY <1>2, <2>1, <2>2
    <3>2. ASSUME NEW j \in OpenOf(t) PROVE Key(t[j]) \in KeysOf(a)
      BY <1>2, <2>1, <2>3
    <3>3. QED BY <2>1, <3>1, <3>2
  <2>6. QED BY <2>4, <2>5
<1>8. QED BY <1>6, <1>7

-----------------------------------------------------------------------------
(***************************************************************************)
(* The inductive invariant behind NoDuplicateOpen: besides the unresolved  *)
(* issues being unique, no finding _post_issues still has to persist is    *)
(* already an unresolved issue.  final_dedup establishes the second part   *)
(* against the table of the moment, and nothing but _post_issues itself    *)
(* adds an unresolved row.                                                 *)
(***************************************************************************)
IInv == TypeOK /\ NoDuplicateOpen /\ PendingFresh

\* The two conjuncts in terms of the table.
Fresh(b, t) == \A g \in DOMAIN b : g \notin KeysOf(t)

LEMMA IInvDefs ==
    /\ NoDuplicateOpen <=> UniqueIn(issues)
    /\ PendingFresh <=> Fresh(pending, issues)
    /\ NoDuplicateOpen' <=> UniqueIn(issues')
    /\ PendingFresh' <=> Fresh(pending', issues')
BY DEF NoDuplicateOpen, PendingFresh, OpenKeys, OpenIds, KeyOf, KeysOf,
       OpenOf, UniqueIn, Fresh

LEMMA EmptyKeys ==
    /\ UniqueIn(NoIssues) /\ KeysOf(NoIssues) = {}
    /\ \A t : Fresh(EmptyBag, t)
BY EmptyTables DEF UniqueIn, KeysOf, OpenOf, Fresh

LEMMA IInvInit == Init => IInv
<1> SUFFICES ASSUME Init PROVE IInv
  OBVIOUS
<1>1. issues = NoIssues /\ pending = EmptyBag
  BY DEF Init
<1>2. QED BY <1>1, TypeInit, IInvDefs, EmptyKeys DEF IInv

LEMMA IInvStep ==
    ASSUME ~OracleMayRepeat
    PROVE  IInv /\ [Next]_vars => IInv'
<1> SUFFICES ASSUME TypeOK, UniqueIn(issues), Fresh(pending, issues),
                    [Next]_vars
             PROVE  UniqueIn(issues') /\ Fresh(pending', issues')
  BY TypeStep, IInvDefs DEF IInv
<1>0. MaxRepeat = 1
  BY DEF MaxRepeat
\* Steps that leave the table and the findings to post alone.
<1>1. CASE issues' = issues /\ pending' = pending
  BY <1>1
<1>2. CASE issues' = issues /\ pending' = EmptyBag
  BY <1>2, EmptyKeys
<1>3. CASE issues' = NoIssues
  BY <1>3, EmptyKeys DEF Fresh
\* Auto-resolve, Mark Fixed: rows are only resolved.
<1>4. CASE /\ pending' = pending
           /\ issues' \in [DOMAIN issues -> IssueRec]
           /\ \A j \in DOMAIN issues :
                 /\ issues'[j].file = issues[j].file
                 /\ issues'[j].title = issues[j].title
                 /\ ~issues'[j].resolved => ~issues[j].resolved
  <2>1. KeysOf(issues') \subseteq KeysOf(issues)
        /\ UniqueIn(issues')
    BY <1>4, ResolveOnly DEF TypeOK
  <2>2. QED BY <1>4, <2>1 DEF Fresh
<1>5. CASE ReviewOk
  <2>1. PICK resp \in Responses : pending' = Dedup(resp)
    BY <1>5 DEF ReviewOk
  <2>2. issues' = issues
    BY <1>5 DEF ReviewOk
  <2>3. DOMAIN pending' \subseteq {h \in DOMAIN resp : h \notin OpenKeys}
    BY <2>1 DEF Dedup
  <2>4. Fresh(pending', issues)
    BY <2>3, OpenDefs DEF Fresh
  <2>5. QED BY <2>2, <2>4
<1>6. ASSUME NEW tbl \in [DOMAIN issues -> IssueRec], PostNext(tbl),
             UniqueIn(tbl), KeysOf(tbl) \subseteq KeysOf(issues)
      PROVE  UniqueIn(issues') /\ Fresh(pending', issues')
  <2>1. CASE DOMAIN pending = {}
    BY <1>6, <2>1 DEF PostNext, Fresh
  <2>2. CASE DOMAIN pending # {}
    <3>1. PICK g \in DOMAIN pending :
             /\ issues' = AddIssue(tbl, g)
             /\ pending' = TakeOne(pending, g)
      BY <1>6, <2>2 DEF PostNext
    <3>2. /\ g \in Finding /\ g \notin KeysOf(tbl)
          /\ nextId \notin DOMAIN issues /\ nextId \in Nat
      BY <1>6, <3>1 DEF Fresh, TypeOK
    <3>3. UniqueIn(issues') /\ KeysOf(issues') = KeysOf(tbl) \cup {g}
      BY <1>6, <3>1, <3>2, AddFresh
    <3>4. DOMAIN pending' = DOMAIN pending \ {g}
      <4>1. pending \in [DOMAIN pending -> 1..1] /\ pending[g] = 1
        BY <1>0 DEF TypeOK
      <4>2. DOMAIN TakeOne(pending, g) = DOMAIN pending \ {g}
        BY <4>1 DEF TakeOne
      <4>3. QED BY <3>1, <4>2
    <3>5. QED BY <1>6, <3>3, <3>4 DEF Fresh
  <2>3. QED BY <2>1, <2>2
<1>7. CASE SummaryOk
  BY <1>7, <1>6 DEF SummaryOk, TypeOK
<1>8. CASE PostOk
  <2> DEFINE tbl == [issues EXCEPT ![cur] = WithMessage(@)]
  <2>1. tbl \in [DOMAIN issues -> IssueRec]
        /\ \A j \in DOMAIN issues : /\ tbl[j].file = issues[j].file
                                    /\ tbl[j].title = issues[j].title
                                    /\ ~tbl[j].resolved => ~issues[j].resolved
    BY DEF TypeOK, WithMessage, IssueRec
  <2> HIDE DEF tbl
  <2>2. UniqueIn(tbl) /\ KeysOf(tbl) \subseteq KeysOf(issues)
    <3>1. issues \in [DOMAIN issues -> IssueRec]
      BY DEF TypeOK
    <3>2. QED BY <2>1, <3>1, ResolveOnly
  <2>3. PostNext(tbl)
    BY <1>8 DEF PostOk, tbl
  <2>4. QED BY <2>1, <2>2, <2>3, <1>6
<1>9. CASE \/ \E f \in Files : RemoteEdit(f)
           \/ WaitReady \/ SyncbackOk \/ SyncbackFail \/ DiffOk \/ DiffFail
           \/ EmbedsDone \/ ReviewFail \/ PostFail \/ AddOk \/ CommitOk
           \/ GitFail \/ SendErrOk \/ SendErrFail \/ Wake \/ OnReady
           \/ ResetCloneFail \/ UNCHANGED vars
  <2>1. issues' = issues /\ pending' = pending
    BY <1>9 DEF RemoteEdit, WaitReady, SyncbackOk, SyncbackFail, DiffOk,
               DiffFail, EmbedsDone, ReviewFail, PostFail, AddOk, CommitOk,
               GitFail, SendErrOk, SendErrFail, Wake, OnReady,
               ResetCloneFail, vars
  <2>2. QED BY <2>1, <1>1
<1>10. CASE ResetBegin
  BY <1>10, <1>2 DEF ResetBegin, StopSyncLoop
<1>11. CASE RemoveGame
  BY <1>11, <1>3 DEF RemoveGame
<1>12. CASE ResetCloneOk
  <2>1. CASE gameExists
    BY <1>12, <2>1, <1>3 DEF ResetCloneOk
  <2>2. CASE ~gameExists
    BY <1>12, <2>2, <1>1 DEF ResetCloneOk
  <2>3. QED BY <2>1, <2>2
<1>13. ASSUME NEW ch, NamesDone(ch)
       PROVE  UniqueIn(issues') /\ Fresh(pending', issues')
  <2>1. /\ pending' = pending
        /\ issues' \in [DOMAIN issues -> IssueRec]
        /\ \A j \in DOMAIN issues :
              /\ issues'[j].file = issues[j].file
              /\ issues'[j].title = issues[j].title
              /\ ~issues'[j].resolved => ~issues[j].resolved
    BY <1>13 DEF NamesDone, Resolved, TypeOK, IssueRec, OpenIds
  <2>2. QED BY <2>1, <1>4
<1>14. CASE \E j \in DOMAIN issues : MarkFixed(j)
  <2>1. PICK j0 \in DOMAIN issues : MarkFixed(j0)
    BY <1>14
  <2>2. /\ pending' = pending
        /\ issues' \in [DOMAIN issues -> IssueRec]
        /\ \A j \in DOMAIN issues :
              /\ issues'[j].file = issues[j].file
              /\ issues'[j].title = issues[j].title
              /\ ~issues'[j].resolved => ~issues[j].resolved
    BY <2>1 DEF MarkFixed, Resolved, TypeOK, IssueRec
  <2>3. QED BY <2>2, <1>4
<1>16. CASE Deliver
  <2>1. /\ pending' = pending
        /\ issues' \in [DOMAIN issues -> IssueRec]
        /\ \A j \in DOMAIN issues :
              /\ issues'[j].file = issues[j].file
              /\ issues'[j].title = issues[j].title
              /\ ~issues'[j].resolved => ~issues[j].resolved
    BY <1>16 DEF Deliver, Shown, TypeOK, IssueRec
  <2>2. QED BY <2>1, <1>4
<1>15. QED
  BY <1>5, <1>7, <1>8, <1>9, <1>10, <1>11, <1>12, <1>13, <1>14, <1>16
  DEF Next, LoopStep, NamesOk, NamesFail

(* With review responses that list each finding at most once, no two      *)
(* unresolved issues of the game ever share a file and a title: the        *)
(* final_dedup of _sync_loop, the auto-resolve, Mark Fixed, remove-game    *)
(* and reset-game together keep the open issues free of duplicates.       *)
THEOREM UniqueOpenIssues ==
    ASSUME ~OracleMayRepeat
    PROVE  Spec => []NoDuplicateOpen
<1>1. Init => IInv
  BY IInvInit
<1>2. IInv /\ [Next]_vars => IInv'
  BY IInvStep
<1>3. IInv => NoDuplicateOpen
  BY DEF IInv
<1>4. QED BY <1>1, <1>2, <1>3, PTL DEF Spec
=============================================================================

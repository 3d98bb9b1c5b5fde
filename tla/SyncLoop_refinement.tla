------------------------- MODULE SyncLoop_refinement -------------------------
(***************************************************************************)
(* Proof that SyncLoop implements the finding lifecycle of spec 3          *)
(* (IssueLifecycle) under the mapping Lifecycle of SyncLoop, when each     *)
(* review response lists a finding at most once.                           *)
(***************************************************************************)
EXTENDS SyncLoop_proofs

\* The refinement mapping of rows, for an arbitrary issues table t.
Abs(t) == [j \in DOMAIN t |-> [file |-> t[j].file, title |-> t[j].title,
                               open |-> ~t[j].resolved, posted |-> t[j].shown]]

(***************************************************************************)
(* The issue whose message _post_issues is sending is unresolved until    *)
(* its message reaches Discord (unless reset-game deleted it meanwhile):  *)
(* only its button resolves it while the loop is in _post_issues.          *)
(***************************************************************************)
CurFresh ==
    pc = "post" /\ cur \in DOMAIN issues /\ ~issues[cur].shown
        => ~issues[cur].resolved

RInv == IInv /\ CurFresh

-----------------------------------------------------------------------------
(* How the mapping commutes with the helpers that change the table.        *)

LEMMA AbsKeys ==
    ASSUME NEW t, NEW D, t \in [D -> IssueRec]
    PROVE  Lifecycle!OpenKeysOf(Abs(t)) = KeysOf(t)
BY DEF Abs, Lifecycle!OpenKeysOf, Lifecycle!OpenIdsOf, KeysOf, OpenOf

LEMMA AbsAdd ==
    ASSUME NEW t, NEW D, t \in [D -> IssueRec], NEW g \in Finding
    PROVE  Abs(AddIssue(t, g)) = Lifecycle!NewRow(Abs(t), nextId, g)
BY DEF Abs, AddIssue, Lifecycle!NewRow, IssueRec

LEMMA AbsPost ==
    ASSUME NEW t, NEW D, t \in [D -> IssueRec], NEW c \in D
    PROVE  Abs([t EXCEPT ![c] = WithMessage(@)]) = Lifecycle!PostRow(Abs(t), c)
BY DEF Abs, WithMessage, Lifecycle!PostRow, IssueRec

LEMMA AbsShown ==
    ASSUME NEW t, NEW D, t \in [D -> IssueRec], NEW c \in D
    PROVE  Abs([t EXCEPT ![c] = Shown(@)]) = Lifecycle!PostRow(Abs(t), c)
BY DEF Abs, Shown, Lifecycle!PostRow, IssueRec

\* Recording the message id of an issue already shown changes no abstract row.
LEMMA AbsPostShown ==
    ASSUME NEW t, NEW D, t \in [D -> IssueRec], NEW c \in D, t[c].shown
    PROVE  Abs([t EXCEPT ![c] = WithMessage(@)]) = Abs(t)
BY DEF Abs, WithMessage, IssueRec

LEMMA AbsClose ==
    ASSUME NEW t, NEW D, t \in [D -> IssueRec], NEW S \in SUBSET D
    PROVE  Abs([j \in D |-> IF j \in S THEN Resolved(t[j]) ELSE t[j]])
               = Lifecycle!CloseRows(Abs(t), S)
BY DEF Abs, Resolved, Lifecycle!CloseRows, IssueRec

LEMMA AbsEmpty ==
    Abs(NoIssues) = [i \in {} |-> [file |-> 0]]
BY EmptyTables DEF Abs

-----------------------------------------------------------------------------
(* The strengthening is inductive.                                          *)

LEMMA CurFreshStep ==
    ASSUME TypeOK, CurFresh, [Next]_vars
    PROVE  CurFresh'
<1>1. ASSUME NEW tbl \in [DOMAIN issues -> IssueRec], PostNext(tbl)
      PROVE  CurFresh'
  <2>1. CASE DOMAIN pending = {}
    BY <1>1, <2>1 DEF PostNext, CurFresh
  <2>2. CASE DOMAIN pending # {}
    <3>1. PICK g \in DOMAIN pending :
             issues' = AddIssue(tbl, g) /\ cur' = nextId
      BY <1>1, <2>2 DEF PostNext
    <3>2. issues'[cur'] = [file |-> g.file, title |-> g.title,
                           resolved |-> FALSE, msg |-> FALSE, shown |-> FALSE]
      BY <3>1 DEF AddIssue
    <3>3. QED BY <3>2 DEF CurFresh
  <2>3. QED BY <2>1, <2>2
<1>2. CASE SummaryOk
  BY <1>2, <1>1 DEF SummaryOk, TypeOK
<1>3. CASE PostOk
  <2>1. [issues EXCEPT ![cur] = WithMessage(@)] \in [DOMAIN issues -> IssueRec]
    BY DEF TypeOK, WithMessage, IssueRec
  <2>2. QED BY <1>3, <2>1, <1>1 DEF PostOk
<1>4. CASE issues' = issues /\ cur' = cur /\ pc' = pc
  BY <1>4 DEF CurFresh
<1>5. CASE pc' # "post"
  BY <1>5 DEF CurFresh
<1>6. CASE issues' = NoIssues
  BY <1>6, EmptyTables DEF CurFresh
<1>7. CASE \E j \in DOMAIN issues : MarkFixed(j)
  <2>1. PICK j \in DOMAIN issues : MarkFixed(j)
    BY <1>7
  <2>2. issues'[j].shown
    BY <2>1 DEF MarkFixed, Resolved, TypeOK
  <2>3. pc' = pc /\ cur' = cur /\ DOMAIN issues' = DOMAIN issues
        /\ \A i \in DOMAIN issues : i # j => issues'[i] = issues[i]
    BY <2>1 DEF MarkFixed
  <2>4. QED BY <2>2, <2>3 DEF CurFresh
<1>13. CASE Deliver
  <2>1. issues'[cur].shown /\ pc' = pc /\ cur' = cur
    BY <1>13 DEF Deliver, Shown
  <2>2. QED BY <2>1 DEF CurFresh
<1>8. CASE \/ WaitReady \/ SyncbackOk \/ SyncbackFail \/ DiffOk \/ DiffFail
           \/ EmbedsDone \/ ReviewOk \/ ReviewFail \/ PostFail \/ AddOk
           \/ CommitOk \/ GitFail \/ SendErrOk \/ SendErrFail \/ Wake
           \/ ResetBegin \/ RemoveGame
  <2>1. pc' # "post"
    BY <1>8 DEF WaitReady, SyncbackOk, SyncbackFail, DiffOk, DiffFail,
               EmbedsDone, AfterEmbeds, ReviewOk, ReviewFail, PostFail,
               LoopError, AddOk, CommitOk, GitFail, SendErrOk, SendErrFail,
               Wake, ResetBegin, RemoveGame, StopSyncLoop
  <2>2. QED BY <2>1, <1>5
<1>9. ASSUME NEW ch, NamesDone(ch) PROVE CurFresh'
  <2>1. pc' # "post"
    BY <1>9 DEF NamesDone, AfterEmbeds
  <2>2. QED BY <2>1, <1>5
<1>10. CASE \/ \E f \in Files : RemoteEdit(f)
            \/ OnReady \/ ResetCloneFail \/ UNCHANGED vars
  <2>1. CASE \E f \in Files : RemoteEdit(f)
    <3>1. issues' = issues /\ cur' = cur /\ pc' = pc
      BY <2>1 DEF RemoteEdit
    <3>2. QED BY <3>1, <1>4
  <2>2. CASE OnReady
    <3>1. pc' # "post"
      BY <2>2 DEF OnReady, StartSyncLoop
    <3>2. QED BY <3>1, <1>5
  <2>3. CASE ResetCloneFail
    <3>1. issues' = issues /\ cur' = cur /\ pc' = pc
      BY <2>3 DEF ResetCloneFail
    <3>2. QED BY <3>1, <1>4
  <2>4. CASE UNCHANGED vars
    <3>1. issues' = issues /\ cur' = cur /\ pc' = pc
      BY <2>4 DEF vars
    <3>2. QED BY <3>1, <1>4
  <2>5. QED BY <1>10, <2>1, <2>2, <2>3, <2>4
<1>11. CASE ResetCloneOk
  <2>1. CASE gameExists
    BY <1>11, <2>1, <1>6 DEF ResetCloneOk
  <2>2. CASE ~gameExists
    BY <1>11, <2>2, <1>4 DEF ResetCloneOk
  <2>3. QED BY <2>1, <2>2
<1>12. QED
  BY <1>2, <1>3, <1>7, <1>8, <1>9, <1>10, <1>11, <1>13
  DEF Next, LoopStep, NamesOk, NamesFail

-----------------------------------------------------------------------------
(* Every step of SyncLoop is a step of the lifecycle or leaves it alone.   *)

LEMMA RefineStep ==
    ASSUME TypeOK, Fresh(pending, issues), CurFresh, [Next]_vars
    PROVE  [Lifecycle!Next]_Lifecycle!vars
<1> DEFINE A == Abs(issues)
<1>0. issues \in [DOMAIN issues -> IssueRec] /\ nextId \in Nat
      /\ DOMAIN pending \subseteq Finding
  BY DEF TypeOK
\* Steps that leave the table and the id counter alone
<1>1. CASE issues' = issues /\ nextId' = nextId
  BY <1>1 DEF Lifecycle!vars
\* remove-game and reset-game: the table is emptied
<1>2. CASE issues' = NoIssues /\ nextId' = nextId
  <2>1. Lifecycle!Clear
    BY <1>2, AbsEmpty DEF Lifecycle!Clear, Abs
  <2>2. QED BY <2>1 DEF Lifecycle!Next
\* add_issue of a finding still to post, after the message of tbl's
\* in-flight issue was recorded (tbl = issues when there was none)
<1>3. ASSUME NEW tbl \in [DOMAIN issues -> IssueRec], PostNext(tbl)
      PROVE  \/ issues' = tbl /\ nextId' = nextId
             \/ \E g \in DOMAIN pending :
                   issues' = AddIssue(tbl, g) /\ nextId' = nextId + 1
  BY <1>3 DEF PostNext
<1>4. ASSUME NEW g \in DOMAIN pending
      PROVE  g \in Finding /\ g \notin Lifecycle!OpenKeysOf(A)
  BY <1>0, AbsKeys DEF Fresh
\* add_issue after a table tbl that maps to the same abstract rows
<1>5. ASSUME NEW tbl \in [DOMAIN issues -> IssueRec], Abs(tbl) = A,
             PostNext(tbl)
      PROVE  [Lifecycle!Next]_Lifecycle!vars
  <2>2. CASE issues' = tbl /\ nextId' = nextId
    <3>1. Abs(issues') = Abs(issues)
      BY <2>2, <1>5
    <3>2. QED BY <3>1, <2>2 DEF Lifecycle!vars, Abs
  <2>3. CASE \E g \in DOMAIN pending :
                issues' = AddIssue(tbl, g) /\ nextId' = nextId + 1
    <3>1. PICK g \in DOMAIN pending :
             issues' = AddIssue(tbl, g) /\ nextId' = nextId + 1
      BY <2>3
    <3>2. g \in Finding /\ g \notin Lifecycle!OpenKeysOf(A)
      BY <1>4
    <3>3. Abs(issues') = Lifecycle!NewRow(A, nextId, g)
      BY <3>1, <3>2, <1>5, AbsAdd
    <3>4. Lifecycle!Create(g)
      BY <3>1, <3>2, <3>3 DEF Lifecycle!Create, Abs
    <3>5. QED BY <3>2, <3>4 DEF Lifecycle!Next, Finding
  <2>4. QED BY <1>3, <1>5, <2>2, <2>3
<1>6. CASE PostOk
  <2> DEFINE tbl == [issues EXCEPT ![cur] = WithMessage(@)]
  <2>1. PostNext(tbl) /\ pc = "post"
    BY <1>6 DEF PostOk
  <2>2. CASE cur \notin DOMAIN issues
    <3>1. tbl = issues
      <4>1. DOMAIN tbl = DOMAIN issues /\ \A j \in DOMAIN issues : tbl[j] = issues[j]
        BY <2>2
      <4>2. QED BY <4>1, <1>0
    <3>2. PostNext(issues)
      BY <2>1, <3>1
    <3>3. QED BY <3>2, <1>0, <1>5
  <2>5. CASE cur \in DOMAIN issues /\ issues[cur].shown
    <3>1. tbl \in [DOMAIN issues -> IssueRec]
      BY <1>0 DEF WithMessage, IssueRec
    <3>2. Abs(tbl) = A
      BY <1>0, <2>5, AbsPostShown
    <3> HIDE DEF tbl
    <3>3. QED BY <2>1, <3>1, <3>2, <1>5
  <2>3. CASE cur \in DOMAIN issues /\ ~issues[cur].shown
    <3>1. ~issues[cur].resolved /\ ~issues[cur].shown
      BY <2>1, <2>3 DEF CurFresh
    <3>2. tbl \in [DOMAIN issues -> IssueRec]
      BY <1>0 DEF WithMessage, IssueRec
    <3>3. Abs(tbl) = Lifecycle!PostRow(A, cur)
      BY <1>0, <2>3, AbsPost
    <3>4. cur \in DOMAIN A /\ cur \in Lifecycle!OpenIdsOf(A) /\ ~A[cur].posted
      BY <2>3, <3>1 DEF Abs, Lifecycle!OpenIdsOf
    <3> HIDE DEF tbl
    <3>5. CASE issues' = tbl /\ nextId' = nextId
      <4>1. Lifecycle!Post(cur)
        BY <3>5, <3>3, <3>4 DEF Lifecycle!Post, Abs
      <4>2. \E j \in DOMAIN Abs(issues) : Lifecycle!Post(j)
        <5>1. cur \in DOMAIN Abs(issues)
          BY <3>4 DEF A
        <5>2. QED BY <5>1, <4>1 DEF Lifecycle!Post
      <4>3. Lifecycle!Next
        BY <4>2, Zenon DEF Lifecycle!Next, Abs
      <4>4. QED BY <4>3
    <3>6. CASE \E g \in DOMAIN pending :
                 issues' = AddIssue(tbl, g) /\ nextId' = nextId + 1
      <4>1. PICK g \in DOMAIN pending :
               issues' = AddIssue(tbl, g) /\ nextId' = nextId + 1
        BY <3>6
      <4>2. g \in Finding /\ g \notin Lifecycle!OpenKeysOf(A)
        BY <1>4
      <4>3. Abs(issues') = Lifecycle!NewRow(Lifecycle!PostRow(A, cur), nextId, g)
        BY <4>1, <4>2, <3>2, <3>3, <1>0, AbsAdd
      <4>4. Lifecycle!PostThenCreate(cur, g)
        BY <4>1, <4>2, <4>3, <3>4 DEF Lifecycle!PostThenCreate, Abs
      <4>5. QED BY <4>2, <4>4, <3>4 DEF Lifecycle!Next, Finding, Abs
    <3>7. QED BY <2>1, <3>2, <3>5, <3>6, <1>3
  <2>4. QED BY <2>2, <2>3, <2>5
<1>7. ASSUME NEW ch \in SUBSET Files, NamesDone(ch)
      PROVE  [Lifecycle!Next]_Lifecycle!vars
  <2> DEFINE hit == {j \in OpenIds : issues[j].file \in ch}
  <2>1. issues' = [j \in DOMAIN issues |->
                     IF j \in hit THEN Resolved(issues[j]) ELSE issues[j]]
        /\ nextId' = nextId
    BY <1>7 DEF NamesDone
  <2>2. hit = {j \in Lifecycle!OpenIdsOf(A) : A[j].file \in ch}
        /\ hit \subseteq DOMAIN issues
    BY DEF OpenIds, Abs, Lifecycle!OpenIdsOf
  <2>3. Abs(issues') = Lifecycle!CloseRows(A, hit)
    BY <2>1, <2>2, <1>0, AbsClose
  <2>4. Lifecycle!AutoResolve(ch)
    BY <2>1, <2>2, <2>3 DEF Lifecycle!AutoResolve, Abs
  <2>5. QED BY <2>4 DEF Lifecycle!Next
<1>8. CASE \E j \in DOMAIN issues : MarkFixed(j)
  <2>1. PICK j \in DOMAIN issues : MarkFixed(j)
    BY <1>8
  <2>2. issues' = [i \in DOMAIN issues |->
                     IF i \in {j} THEN Resolved(issues[i]) ELSE issues[i]]
        /\ nextId' = nextId /\ issues[j].shown
    BY <2>1, <1>0 DEF MarkFixed
  <2>3. Abs(issues') = Lifecycle!CloseRows(A, {j})
    BY <2>2, <1>0, AbsClose
  <2>4. j \in DOMAIN A /\ A[j].posted
    BY <2>2 DEF Abs
  <2>5. Lifecycle!UserResolve(j)
    BY <2>2, <2>3, <2>4 DEF Lifecycle!UserResolve, Abs
  <2>6. QED BY <2>4, <2>5 DEF Lifecycle!Next
<1>9. CASE \/ \E f \in Files : RemoteEdit(f)
           \/ WaitReady \/ SyncbackOk \/ SyncbackFail \/ DiffOk \/ DiffFail
           \/ EmbedsDone \/ ReviewOk \/ ReviewFail \/ PostFail \/ AddOk
           \/ CommitOk \/ GitFail \/ SendErrOk \/ SendErrFail \/ Wake
           \/ OnReady \/ ResetBegin \/ ResetCloneFail \/ UNCHANGED vars
  <2>1. issues' = issues /\ nextId' = nextId
    BY <1>9 DEF RemoteEdit, WaitReady, SyncbackOk, SyncbackFail, DiffOk,
               DiffFail, EmbedsDone, ReviewOk, ReviewFail, PostFail, AddOk,
               CommitOk, GitFail, SendErrOk, SendErrFail, Wake, OnReady,
               ResetBegin, ResetCloneFail, vars
  <2>2. QED BY <2>1, <1>1
<1>10. CASE RemoveGame
  BY <1>10, <1>2 DEF RemoveGame
<1>11. CASE ResetCloneOk
  <2>1. CASE gameExists
    BY <1>11, <2>1, <1>2 DEF ResetCloneOk
  <2>2. CASE ~gameExists
    BY <1>11, <2>2, <1>1 DEF ResetCloneOk
  <2>3. QED BY <2>1, <2>2
<1>12. NamesOk \/ NamesFail => \E ch \in SUBSET Files : NamesDone(ch)
  BY DEF NamesOk, NamesFail, DiffFiles
<1>13. CASE SummaryOk
  BY <1>13, <1>0, <1>5 DEF SummaryOk
\* the message of the in-flight issue reaches Discord
<1>15. CASE Deliver
  <2>1. cur \in DOMAIN issues /\ ~issues[cur].shown /\ ~issues[cur].resolved
        /\ issues' = [issues EXCEPT ![cur] = Shown(@)] /\ nextId' = nextId
    BY <1>15 DEF Deliver, CurFresh
  <2>2. Abs(issues') = Lifecycle!PostRow(A, cur)
    BY <2>1, <1>0, AbsShown
  <2>3. cur \in DOMAIN A /\ cur \in Lifecycle!OpenIdsOf(A) /\ ~A[cur].posted
    BY <2>1 DEF Abs, Lifecycle!OpenIdsOf
  <2>4. Lifecycle!Post(cur)
    BY <2>1, <2>2, <2>3 DEF Lifecycle!Post, Abs
  <2>5. \E j \in DOMAIN Abs(issues) : Lifecycle!Post(j)
    <3>1. cur \in DOMAIN Abs(issues)
      BY <2>3 DEF A
    <3>2. QED BY <3>1, <2>4 DEF Lifecycle!Post
  <2>6. Lifecycle!Next
    BY <2>5, Zenon DEF Lifecycle!Next, Abs
  <2>7. QED BY <2>6
<1>14. QED
  BY <1>13, <1>6, <1>7, <1>8, <1>9, <1>10, <1>11, <1>12, <1>15
  DEF Next, LoopStep

(* With review responses that list each finding at most once, the issues  *)
(* table of a game, as the loop's final_dedup, _post_issues and            *)
(* _auto_resolve, Mark Fixed, remove-game and reset-game change it,        *)
(* follows the finding lifecycle of spec 3 (module IssueLifecycle).        *)
THEOREM IssueLifecycleRefinement ==
    ASSUME ~OracleMayRepeat
    PROVE  Spec => IssueLifecycleRefined
<1>1. Init => RInv
  <2> SUFFICES ASSUME Init PROVE RInv
    OBVIOUS
  <2>1. IInv
    BY IInvInit
  <2>2. CurFresh
    BY DEF Init, CurFresh
  <2>3. QED BY <2>1, <2>2 DEF RInv
<1>2. RInv /\ [Next]_vars => RInv'
  BY IInvStep, CurFreshStep DEF RInv, IInv
<1>3. RInv /\ [Next]_vars => [Lifecycle!Next]_Lifecycle!vars
  BY RefineStep, IInvDefs DEF RInv, IInv
<1>4. Init => Lifecycle!Init
  BY AbsEmpty DEF Init, Lifecycle!Init, Abs
<1>5. QED BY <1>1, <1>2, <1>3, <1>4, PTL
  DEF Spec, IssueLifecycleRefined, Lifecycle!Spec

-----------------------------------------------------------------------------
(***************************************************************************)
(* The history of the issues table.  RowKept(t, u): every row of both t    *)
(* and u keeps its key in u, and its shown message and resolution if t had  *)
(* them.  Each helper that changes the table keeps it.                     *)
(***************************************************************************)
RowKept(t, u) ==
    \A j \in DOMAIN t \cap DOMAIN u :
        /\ u[j].file = t[j].file
        /\ u[j].title = t[j].title
        /\ t[j].shown => u[j].shown
        /\ t[j].resolved => u[j].resolved

LEMMA KeptResolveSet ==
    ASSUME NEW t, NEW D, t \in [D -> IssueRec], NEW S
    PROVE  RowKept(t, [j \in D |-> IF j \in S THEN Resolved(t[j]) ELSE t[j]])
BY DEF RowKept, Resolved, IssueRec

LEMMA KeptExcept ==
    ASSUME NEW t, NEW D, t \in [D -> IssueRec], NEW c
    PROVE  /\ RowKept(t, [t EXCEPT ![c] = Resolved(@)])
           /\ RowKept(t, [t EXCEPT ![c] = WithMessage(@)])
           /\ RowKept(t, [t EXCEPT ![c] = Shown(@)])
           /\ [t EXCEPT ![c] = WithMessage(@)] \in [D -> IssueRec]
BY DEF RowKept, Resolved, WithMessage, Shown, IssueRec

LEMMA KeptAdd ==
    ASSUME NEW t, NEW D, t \in [D -> IssueRec], NEW g, nextId \in Nat,
           D \subseteq 1..(nextId - 1)
    PROVE  /\ RowKept(t, AddIssue(t, g))
           /\ DOMAIN AddIssue(t, g) = D \cup {nextId}
BY DEF RowKept, AddIssue

LEMMA KeptTrans ==
    ASSUME NEW t, NEW u, NEW v, DOMAIN u = DOMAIN t,
           RowKept(t, u), RowKept(u, v)
    PROVE  RowKept(t, v)
BY DEF RowKept

LEMMA KeptEmpty ==
    ASSUME NEW t
    PROVE  RowKept(t, NoIssues) /\ RowKept(t, t)
BY DEF RowKept, NoIssues

\* RowKept, with next not decreasing and new rows at ids of at least
\* nextId, is the history the abstract rows keep.
LEMMA KeptHistory ==
    ASSUME TypeOK, TypeOK', nextId <= nextId', RowKept(issues, issues'),
           \A j \in DOMAIN issues' \ DOMAIN issues : nextId <= j
    PROVE  Lifecycle!HistoryKept
BY DEF Lifecycle!HistoryKept, RowKept, TypeOK, IssueRec

\* A send of _post_issues returning keeps the history of the table tbl it
\* continues from.
LEMMA PostNextKept ==
    ASSUME TypeOK, NEW tbl, tbl \in [DOMAIN issues -> IssueRec],
           RowKept(issues, tbl), PostNext(tbl)
    PROVE  /\ nextId <= nextId'
           /\ RowKept(issues, issues')
           /\ \A j \in DOMAIN issues' \ DOMAIN issues : nextId <= j
<1>1. CASE DOMAIN pending = {}
  BY <1>1 DEF PostNext, TypeOK
<1>2. CASE DOMAIN pending # {}
  <2>1. PICK g \in DOMAIN pending :
           /\ issues' = AddIssue(tbl, g)
           /\ nextId' = nextId + 1
    BY <1>2 DEF PostNext
  <2>2. /\ RowKept(tbl, AddIssue(tbl, g))
        /\ DOMAIN AddIssue(tbl, g) = DOMAIN issues \cup {nextId}
    BY KeptAdd DEF TypeOK
  <2>3. RowKept(issues, issues')
    BY <2>1, <2>2, KeptTrans
  <2>4. QED BY <2>1, <2>2, <2>3 DEF TypeOK
<1>3. QED BY <1>1, <1>2

(* Every step keeps the history of the table, or leaves it and nextId be. *)
LEMMA HistoryStep ==
    TypeOK /\ [Next]_vars => [Lifecycle!HistoryKept]_Lifecycle!vars
<1> SUFFICES ASSUME TypeOK, [Next]_vars
             PROVE  [Lifecycle!HistoryKept]_Lifecycle!vars
  OBVIOUS
<1>0. TypeOK'
  BY TypeStep
<1> DEFINE Kept == /\ nextId <= nextId'
                   /\ RowKept(issues, issues')
                   /\ \A j \in DOMAIN issues' \ DOMAIN issues : nextId <= j
<1>1. Kept => Lifecycle!HistoryKept
  BY <1>0, KeptHistory
<1>2. UNCHANGED <<issues, nextId>> => UNCHANGED Lifecycle!vars
  BY DEF Lifecycle!vars
<1>3. CASE NamesOk \/ NamesFail
  <2>1. PICK ch : NamesDone(ch)
    BY <1>3 DEF NamesOk, NamesFail
  <2>2. PICK S : /\ nextId' = nextId
                 /\ issues' = [j \in DOMAIN issues |->
                                 IF j \in S THEN Resolved(issues[j])
                                             ELSE issues[j]]
    BY <2>1 DEF NamesDone
  <2>3. RowKept(issues, issues')
    <3>1. issues \in [DOMAIN issues -> IssueRec]
      BY DEF TypeOK
    <3>2. QED BY <2>2, <3>1, KeptResolveSet
  <2>5. DOMAIN issues' = DOMAIN issues /\ nextId \in Nat
    BY <2>2 DEF TypeOK
  <2>6. Kept
    BY <2>2, <2>3, <2>5 DEF Kept
  <2>4. QED BY <1>1, <2>6
<1>4. CASE SummaryOk
  <2>1. Kept
    BY <1>4, PostNextKept, KeptEmpty DEF SummaryOk, TypeOK
  <2>2. QED BY <1>1, <2>1
<1>5. CASE PostOk
  <2>1. Kept
    BY <1>5, PostNextKept, KeptExcept DEF PostOk, TypeOK
  <2>2. QED BY <1>1, <2>1
<1>6. CASE RemoveGame \/ ResetCloneOk
  <2>1. /\ issues' \in {issues, NoIssues} /\ nextId' = nextId
    BY <1>6 DEF RemoveGame, ResetCloneOk
  <2>2. Kept
    BY <2>1, KeptEmpty, EmptyTables DEF TypeOK
  <2>3. QED BY <1>1, <2>2
<1>7. CASE \E j \in DOMAIN issues : MarkFixed(j)
  <2>1. PICK j \in DOMAIN issues : MarkFixed(j)
    BY <1>7
  <2>2. issues' = [issues EXCEPT ![j] = Resolved(@)] /\ nextId' = nextId
    BY <2>1 DEF MarkFixed
  <2>4. RowKept(issues, issues')
    <3>1. issues \in [DOMAIN issues -> IssueRec]
      BY DEF TypeOK
    <3>2. QED BY <2>2, <3>1, KeptExcept
  <2>5. DOMAIN issues' = DOMAIN issues /\ nextId \in Nat
    BY <2>2 DEF TypeOK
  <2>6. Kept
    BY <2>2, <2>4, <2>5 DEF Kept
  <2>3. QED BY <1>1, <2>6
<1>8. CASE \/ WaitReady \/ SyncbackOk \/ SyncbackFail \/ DiffOk \/ DiffFail
           \/ EmbedsDone \/ ReviewOk \/ ReviewFail \/ PostFail
  BY <1>8, <1>2 DEF WaitReady, SyncbackOk, SyncbackFail, DiffOk, DiffFail,
                    EmbedsDone, ReviewOk, ReviewFail, PostFail
<1>9. CASE \/ AddOk \/ CommitOk \/ GitFail \/ SendErrOk \/ SendErrFail \/ Wake
  BY <1>9, <1>2 DEF AddOk, CommitOk, GitFail, SendErrOk, SendErrFail, Wake
<1>10. CASE \/ \E f \in Files : RemoteEdit(f)
            \/ OnReady \/ ResetBegin \/ ResetCloneFail \/ UNCHANGED vars
  BY <1>10, <1>2 DEF RemoteEdit, OnReady, ResetBegin, ResetCloneFail, vars
<1>12. CASE Deliver
  <2>1. issues' = [issues EXCEPT ![cur] = Shown(@)] /\ nextId' = nextId
    BY <1>12 DEF Deliver
  <2>2. RowKept(issues, issues')
    <3>1. issues \in [DOMAIN issues -> IssueRec]
      BY DEF TypeOK
    <3>2. QED BY <2>1, <3>1, KeptExcept
  <2>3. DOMAIN issues' = DOMAIN issues /\ nextId \in Nat
    BY <2>1 DEF TypeOK
  <2>4. Kept
    BY <2>1, <2>2, <2>3 DEF Kept
  <2>5. QED BY <1>1, <2>4
<1>11. QED
  BY <1>3, <1>4, <1>5, <1>6, <1>7, <1>8, <1>9, <1>10, <1>12 DEF Next, LoopStep

(* Whatever the review responses (even with a finding listed twice), the  *)
(* loop, Mark Fixed, remove-game and reset-game never change the key of an *)
(* issue, never un-show its message, never reopen it, and give each new   *)
(* issue an id that no issue of the game had before.                       *)
THEOREM FindingHistory == Spec => FindingHistoryKept
<1>1. Spec => []TypeOK
  BY TypeCorrect
<1>2. TypeOK /\ [Next]_vars => [Lifecycle!HistoryKept]_Lifecycle!vars
  BY HistoryStep
<1>3. QED BY <1>1, <1>2, PTL DEF Spec, FindingHistoryKept

=============================================================================

--------------------------- MODULE IssueLifecycle ---------------------------
(***************************************************************************)
(* What the issues table of one game promises (spec 3, "Finding"):         *)
(*   - a finding is created unresolved, with the next id, and only when no  *)
(*     unresolved finding of the game has the same (file, title);          *)
(*   - its message is rendered once, while it is unresolved;               *)
(*   - it is resolved automatically, when its file appears in a diff (all  *)
(*     the unresolved findings of those files together), or by a user     *)
(*     through its posted message;                                         *)
(*   - it is never reopened, and rows disappear only all at once, when the *)
(*     workspace is removed or reset.                                      *)
(* Notifying is one step: rendering the message of the finding just posted *)
(* and creating the next one may happen between the same two awaits.      *)
(***************************************************************************)
EXTENDS Naturals

CONSTANTS Files, Titles

VARIABLES
    rows,   \* id -> [file, title, open, posted (its message is rendered)]
    next    \* the id the next finding gets

vars == <<rows, next>>

RowRec == [file : Files, title : Titles, open : BOOLEAN, posted : BOOLEAN]

OpenIdsOf(r) == {j \in DOMAIN r : r[j].open}

OpenKeysOf(r) == {[file |-> r[j].file, title |-> r[j].title] : j \in OpenIdsOf(r)}

\* Row j of r with its message rendered, and r with rows S closed.
PostRow(r, j) ==
    [i \in DOMAIN r |-> IF i = j
                        THEN [file |-> r[i].file, title |-> r[i].title,
                              open |-> r[i].open, posted |-> TRUE]
                        ELSE r[i]]

CloseRows(r, S) ==
    [i \in DOMAIN r |-> IF i \in S
                        THEN [file |-> r[i].file, title |-> r[i].title,
                              open |-> FALSE, posted |-> r[i].posted]
                        ELSE r[i]]

\* r with finding g added as a new unresolved row with id n
NewRow(r, n, g) ==
    [i \in DOMAIN r \cup {n} |->
        IF i = n THEN [file |-> g.file, title |-> g.title,
                       open |-> TRUE, posted |-> FALSE]
                 ELSE r[i]]

Init ==
    /\ rows = [i \in {} |-> [file |-> 0]]
    /\ next = 1

\* A finding with a key that is not open is recorded.
Create(g) ==
    /\ g \notin OpenKeysOf(rows)
    /\ rows' = NewRow(rows, next, g)
    /\ next' = next + 1

\* The message of open finding j is rendered.
Post(j) ==
    /\ j \in OpenIdsOf(rows)
    /\ ~rows[j].posted
    /\ rows' = PostRow(rows, j)
    /\ UNCHANGED next

\* The same, followed by the next finding being recorded.
PostThenCreate(j, g) ==
    /\ j \in OpenIdsOf(rows)
    /\ ~rows[j].posted
    /\ g \notin OpenKeysOf(rows)
    /\ rows' = NewRow(PostRow(rows, j), next, g)
    /\ next' = next + 1

\* The files F changed: every open finding on one of them is resolved.
AutoResolve(F) ==
    /\ rows' = CloseRows(rows, {j \in OpenIdsOf(rows) : rows[j].file \in F})
    /\ UNCHANGED next

\* A user resolves finding j through its message.
UserResolve(j) ==
    /\ j \in DOMAIN rows
    /\ rows[j].posted
    /\ rows' = CloseRows(rows, {j})
    /\ UNCHANGED next

\* The workspace is removed or reset: all its findings go.
Clear ==
    /\ rows' = [i \in {} |-> [file |-> 0]]
    /\ UNCHANGED next

Next ==
    \/ \E g \in [file : Files, title : Titles] :
          \/ Create(g)
          \/ \E j \in DOMAIN rows : PostThenCreate(j, g)
    \/ \E j \in DOMAIN rows : Post(j) \/ UserResolve(j)
    \/ \E F \in SUBSET Files : AutoResolve(F)
    \/ Clear

Spec == Init /\ [][Next]_vars

-----------------------------------------------------------------------------
(***************************************************************************)
(* What a step never does to the findings recorded so far: a row keeps its *)
(* file and title, a rendered message stays rendered, a resolved         *)
(* finding stays resolved, next never decreases, and a row that appears    *)
(* gets an id of at least next, so (every id given so far being below      *)
(* next) an id once given never names another finding.                     *)
(***************************************************************************)
HistoryKept ==
    /\ next <= next'
    /\ \A j \in DOMAIN rows' \ DOMAIN rows : next <= j
    /\ \A j \in DOMAIN rows \cap DOMAIN rows' :
          /\ rows'[j].file = rows[j].file
          /\ rows'[j].title = rows[j].title
          /\ rows[j].posted => rows'[j].posted
          /\ ~rows[j].open => ~rows'[j].open

=============================================================================

------------------------- MODULE Server_refinement -------------------------
(***************************************************************************)
(* The command surface implements the contract of the games and            *)
(* allowed_servers tables (GamesTable): every Server step that writes the  *)
(* tables is one of the table's operations, and every other step (the     *)
(* awaits of add-game and reset-game, on_ready, a loop ending) leaves the  *)
(* tables as they were.  The invariant IInv of Server_proofs supplies what *)
(* the insert of add-game needs: the key the handler carried across its    *)
(* awaits was supplied by its user in its server (CmdKeysOwned).           *)
(***************************************************************************)
EXTENDS Server_proofs

-----------------------------------------------------------------------------
(* The initial state *)

\* The database a process starts with satisfies the table's contract.
LEMMA TableInit == Init => Table!Init
<1> SUFFICES ASSUME Init PROVE Table!TableOK /\ Table!Consistent
  BY DEF Table!Init
<1>1. IInv
  BY IInvInit
<1>2. Table!TableOK
  BY <1>1 DEF Init, IInv, TypeOK, Table!TableOK, Table!GameRow, Row
<1>3. Table!Consistent
  <2>0. DOMAIN games = 1..Len(InitRows) /\ \A i \in 1..Len(InitRows) : games[i] = InitRows[i]
    BY DEF Init
  <2>1. \A id \in DOMAIN games : games[id].server \in allowed
    BY <2>0, ServerAssumption DEF Init
  <2>2. \A i, j \in DOMAIN games :
           i # j => games[i].server # games[j].server \/ games[i].place # games[j].place
    BY <2>0, ServerAssumption
  <2>3. \A id \in DOMAIN games :
           games[id].key \in given[<<games[id].owner, games[id].server>>]
    BY <1>1 DEF IInv, KeyOwnership
  <2> QED BY <2>1, <2>2, <2>3 DEF Table!Consistent
<1> QED BY <1>2, <1>3

-----------------------------------------------------------------------------
(* The steps *)

\* A step that leaves both tables, the id sequence and the history alone
\* is a stuttering step of the table.
LEMMA TableStutter ==
    ASSUME allowed' = allowed, games' = games, nextId' = nextId, given' = given
    PROVE  UNCHANGED Table!vars
BY DEF Table!vars

LEMMA TableStep == IInv /\ [Next]_vars => [Table!Next]_(Table!vars)
<1> SUFFICES ASSUME IInv, [Next]_vars PROVE [Table!Next]_(Table!vars)
  OBVIOUS
<1>0. TypeOK /\ CmdKeysOwned
  BY DEF IInv
<1>1. ASSUME NEW u \in Users, NEW s \in Servers, ApproveServer(u, s)
      PROVE  Table!Next
  <2>1. Table!Approve(s)
    BY <1>1 DEF ApproveServer, ReplaceCascade, Without, IdsOf,
                Table!Approve, Table!Drop, Table!RowsOf
  <2> QED BY <2>1 DEF Table!Next
<1>2. ASSUME NEW u \in Users, NEW s \in Servers, RevokeServer(u, s)
      PROVE  Table!Next
  <2>1. Table!Revoke(s)
    BY <1>2 DEF RevokeServer, Without, IdsOf, Table!Revoke, Table!Drop, Table!RowsOf
  <2> QED BY <2>1 DEF Table!Next
<1>3. ASSUME NEW u \in Users, NEW s \in Servers, NEW k \in Keys, SetApiKey(u, s, k)
      PROVE  Table!Next
  <2>1. Table!SetKey(u, s, k)
    BY <1>3 DEF SetApiKey, WithKey, Table!SetKey, Table!Rekey
  <2> QED BY <2>1 DEF Table!Next
<1>4. ASSUME NEW u \in Users, NEW s \in Servers, NEW p \in Places, RemoveGame(u, s, p)
      PROVE  Table!Next
  <2>1. PICK id \in GameIds(s, p) :
              /\ loops' = Without(loops, {id})
              /\ games' = Without(games, {id})
    BY <1>4 DEF RemoveGame
  <2>2. id \in DOMAIN games /\ games[id].server \in allowed
    BY <1>4 DEF RemoveGame, GameIds, IdsOf
  <2>3. Table!Remove(id)
    BY <1>4, <2>1, <2>2 DEF RemoveGame, Without, Table!Remove, Table!Drop
  <2> QED BY <2>2, <2>3 DEF Table!Next
<1>5. ASSUME NEW c \in Slots, AddInsert(c)
      PROVE  [Table!Next]_(Table!vars)
  <2> DEFINE s == cmd[c].server
             p == cmd[c].place
             row == [server |-> s, place |-> p, owner |-> cmd[c].user, key |-> cmd[c].key]
  <2>1. CASE s \in allowed /\ GameIds(s, p) = {}
    <3>1. cmd[c].op = "add" /\ cmd[c].phase = "clone"
      BY <1>5 DEF AddInsert
    <3>2. cmd[c].user \in Users /\ s \in Servers /\ p \in Places
      BY <1>0, <3>1, CmdFacts DEF TypeOK
    <3>3. cmd[c].key \in given[<<cmd[c].user, s>>]
      BY <1>0, <3>1 DEF CmdKeysOwned
    <3>4. row \in Table!GameRow
      BY <1>0, <3>2, <3>3 DEF TypeOK, Table!GameRow
    <3>5. /\ games' = Put(games, nextId, row)
          /\ nextId' = nextId + 1
          /\ allowed' = allowed /\ given' = given
      BY <1>5, <2>1 DEF AddInsert
    <3>6. Table!Insert(row)
      BY <2>1, <3>3, <3>5 DEF Put, GameIds, IdsOf, Table!Insert
    <3> QED BY <3>4, <3>6 DEF Table!Next
  <2>2. CASE ~(s \in allowed /\ GameIds(s, p) = {})
    <3>1. allowed' = allowed /\ games' = games /\ nextId' = nextId /\ given' = given
      BY <1>5, <2>2 DEF AddInsert
    <3> QED BY <3>1, TableStutter
  <2> QED BY <2>1, <2>2
<1>6. ASSUME allowed' = allowed, games' = games, nextId' = nextId, given' = given
      PROVE  [Table!Next]_(Table!vars)
  BY <1>6, TableStutter
<1> QED
  <2>1. ASSUME NEW u \in Users, NEW s \in Servers, NEW c \in Slots, NEW p \in Places,
               AddBegin(c, u, s, p) \/ ResetBegin(c, u, s, p)
        PROVE  [Table!Next]_(Table!vars)
    <3>1. allowed' = allowed /\ games' = games /\ nextId' = nextId /\ given' = given
      BY <2>1 DEF AddBegin, ResetBegin
    <3> QED BY <3>1, <1>6
  <2>2. ASSUME NEW c \in Slots,
               \/ AddNoChannel(c) \/ AddNoKey(c) \/ AddClone(c) \/ AddCloneFail(c)
               \/ ResetClone(c) \/ ResetCloneFail(c) \/ ResetRestart(c)
        PROVE  [Table!Next]_(Table!vars)
    <3>1. allowed' = allowed /\ games' = games /\ nextId' = nextId /\ given' = given
      BY <2>2 DEF AddNoChannel, AddNoKey, AddClone, AddCloneFail,
                  ResetClone, ResetCloneFail, ResetRestart
    <3> QED BY <3>1, <1>6
  <2>3. ASSUME OnReady \/ \E id \in Ids : LoopEnds(id)
        PROVE  [Table!Next]_(Table!vars)
    <3>1. allowed' = allowed /\ games' = games /\ nextId' = nextId /\ given' = given
      BY <2>3 DEF OnReady, LoopEnds
    <3> QED BY <3>1, <1>6
  <2>4. CASE UNCHANGED vars
    <3>1. allowed' = allowed /\ games' = games /\ nextId' = nextId /\ given' = given
      BY <2>4 DEF vars
    <3> QED BY <3>1, <1>6
  <2> QED BY <1>1, <1>2, <1>3, <1>4, <1>5, <2>1, <2>2, <2>3, <2>4 DEF Next

-----------------------------------------------------------------------------
(* Theorems *)

\* Whatever the interleaving of the commands across their awaits, the
\* command surface changes the games and allowed_servers tables only by the
\* table's atomic operations: an approve or a revoke with its cascade, a
\* set-api-key of the caller's rows, an insert under a fresh id for an
\* approved server and a free place with a key its owner supplied, and a
\* delete of a game of an approved server.
THEOREM ServerImplementsTable == Spec => GamesTableRefined
<1>1. Spec => []IInv
  BY IInvInit, IInvStep, PTL DEF Spec
<1>2. []IInv /\ [][Next]_vars => [][Table!Next]_(Table!vars)
  BY TableStep, PTL
<1> QED BY TableInit, <1>1, <1>2, PTL DEF Spec, GamesTableRefined, Table!Spec

\* Hence, from GamesTable's own theorem: every game of the running daemon
\* belongs to an approved server, no server monitors a place twice, and
\* every game's key was supplied by its owner in its server.
THEOREM ServerTableConsistent == Spec => [](Table!TableOK /\ Table!Consistent)
BY ServerImplementsTable, Table!TableConsistent DEF GamesTableRefined

=============================================================================

---------------------------- MODULE Server_proofs ----------------------------
(***************************************************************************)
(* TLAPS proofs about the Server model: type correctness, and that a game  *)
(* is only ever given its own owner's key (KeyOwnership).                  *)
(***************************************************************************)
EXTENDS Server, TLAPS

USE ServerAssumption

\* An add-game in flight past its key lookup carries a key its user gave
\* in its server.
CmdKeysOwned ==
    \A c \in Slots :
        cmd[c].op = "add" /\ cmd[c].phase = "clone" =>
            cmd[c].key \in given[<<cmd[c].user, cmd[c].server>>]

IInv == TypeOK /\ KeyOwnership /\ CmdKeysOwned

-----------------------------------------------------------------------------
(* Lemmas about the table operators *)

\* Adding an entry keeps the others and maps its id to the new value.
LEMMA PutFacts ==
    ASSUME NEW f, NEW id, NEW v
    PROVE  /\ DOMAIN Put(f, id, v) = DOMAIN f \cup {id}
           /\ Put(f, id, v)[id] = v
           /\ \A j \in DOMAIN f \ {id} : Put(f, id, v)[j] = f[j]
BY DEF Put

\* The fields of a command record, and Idle is not an add or a reset.
LEMMA CmdFacts ==
    /\ Idle.op = "idle"
    /\ Idle \in Cmd
    /\ \A c \in Cmd : c.op \in {"add", "reset"} =>
          /\ c.phase \in {"defer", "clone"}
          /\ c.user \in Users /\ c.server \in Servers /\ c.place \in Places
          /\ c.id \in 0..MaxId /\ c.key \in Keys \cup {NoKey}
BY DEF Idle, CmdRec, Cmd

\* A command record built from fields of the right sets is in Cmd.
LEMMA CmdRecType ==
    ASSUME NEW op \in {"add", "reset"}, NEW ph \in {"defer", "clone"},
           NEW u \in Users, NEW s \in Servers, NEW p \in Places,
           NEW id \in 0..MaxId, NEW k \in Keys \cup {NoKey}
    PROVE  /\ CmdRec(op, ph, u, s, p, id, k) \in Cmd
           /\ CmdRec(op, ph, u, s, p, id, k).op = op
           /\ CmdRec(op, ph, u, s, p, id, k).phase = ph
           /\ CmdRec(op, ph, u, s, p, id, k).user = u
           /\ CmdRec(op, ph, u, s, p, id, k).server = s
           /\ CmdRec(op, ph, u, s, p, id, k).key = k
BY DEF CmdRec, Cmd

\* Replacing a row's key by a key keeps it a row with the same owner.
LEMMA WithKeyFacts ==
    ASSUME NEW r \in Row, NEW k \in Keys
    PROVE  /\ WithKey(r, k) \in Row
           /\ WithKey(r, k).owner = r.owner
           /\ WithKey(r, k).server = r.server
           /\ WithKey(r, k).key = k
BY DEF WithKey, Row

-----------------------------------------------------------------------------
(* The initial state *)

LEMMA IInvInit == Init => IInv
<1> SUFFICES ASSUME Init PROVE IInv OBVIOUS
<1>0. \A i \in 1..Len(InitRows) : InitRows[i] \in Row
  OBVIOUS
<1>1. InitGiven \in [Users \X Servers -> SUBSET Keys]
  BY <1>0 DEF InitGiven, Row
<1>2. TypeOK
  BY <1>1, CmdFacts DEF Init, TypeOK, Ids
<1>3. KeyOwnership
  <2>1. \A id \in DOMAIN games :
           games[id].key \in given[<<games[id].owner, games[id].server>>]
    <3> SUFFICES ASSUME NEW id \in 1..Len(InitRows)
                 PROVE  InitRows[id].key \in InitGiven[<<InitRows[id].owner, InitRows[id].server>>]
      BY DEF Init
    <3>1. <<InitRows[id].owner, InitRows[id].server>> \in Users \X Servers
      BY <1>0 DEF Row
    <3>2. InitGiven[<<InitRows[id].owner, InitRows[id].server>>]
            = {InitRows[i].key : i \in {i \in 1..Len(InitRows) :
                                         /\ InitRows[i].owner = InitRows[id].owner
                                         /\ InitRows[i].server = InitRows[id].server}}
      BY <3>1 DEF InitGiven
    <3> QED BY <3>2
  <2>2. DOMAIN loops = {}
    BY DEF Init
  <2> QED BY <2>1, <2>2 DEF KeyOwnership
<1>4. CmdKeysOwned
  BY CmdFacts DEF Init, CmdKeysOwned
<1> QED BY <1>2, <1>3, <1>4 DEF IInv

-----------------------------------------------------------------------------
(* The steps *)

\* A step that only drops rows and tasks, and may shrink allowed_servers,
\* keeps the invariant: every remaining entry is an old one.
LEMMA Shrink ==
    ASSUME IInv,
           allowed' \subseteq Servers,
           DOMAIN games' \subseteq DOMAIN games,
           \A id \in DOMAIN games' : games'[id] = games[id],
           DOMAIN loops' \subseteq DOMAIN loops,
           \A id \in DOMAIN loops' : loops'[id] = loops[id],
           nextId' = nextId, cmd' = cmd, given' = given
    PROVE  IInv'
<1>1. TypeOK'
  BY DEF IInv, TypeOK
<1>2. KeyOwnership'
  BY DEF IInv, KeyOwnership
<1>3. CmdKeysOwned'
  BY DEF IInv, CmdKeysOwned
<1> QED BY <1>1, <1>2, <1>3 DEF IInv

\* A step that only changes one command slot keeps the tables' part.
LEMMA SlotOnly ==
    ASSUME IInv, NEW c \in Slots, NEW r \in Cmd,
           cmd' = [cmd EXCEPT ![c] = r],
           r.op = "add" /\ r.phase = "clone" => r.key \in given[<<r.user, r.server>>],
           allowed' = allowed, games' = games, nextId' = nextId,
           loops' = loops, given' = given
    PROVE  IInv'
<1>1. TypeOK'
  BY DEF IInv, TypeOK
<1>2. KeyOwnership'
  BY DEF IInv, KeyOwnership
<1>3. CmdKeysOwned'
  BY DEF IInv, CmdKeysOwned, TypeOK
<1> QED BY <1>1, <1>2, <1>3 DEF IInv

LEMMA IInvStep == IInv /\ [Next]_vars => IInv'
<1> SUFFICES ASSUME IInv, [Next]_vars PROVE IInv'
  OBVIOUS
<1>0. TypeOK /\ KeyOwnership /\ CmdKeysOwned
  BY DEF IInv
<1>1. ASSUME NEW u \in Users, NEW s \in Servers, ApproveServer(u, s) PROVE IInv'
  <2>1. /\ allowed' = allowed \cup {s}
        /\ games' = Without(games, ReplaceCascade(s))
        /\ nextId' = nextId /\ loops' = loops /\ cmd' = cmd /\ given' = given
    BY <1>1 DEF ApproveServer
  <2>2. DOMAIN games' \subseteq DOMAIN games /\ \A id \in DOMAIN games' : games'[id] = games[id]
    BY <2>1 DEF Without
  <2>3. allowed' \subseteq Servers
    BY <2>1, <1>0 DEF TypeOK
  <2> QED BY <2>1, <2>2, <2>3, Shrink
<1>2. ASSUME NEW u \in Users, NEW s \in Servers, RevokeServer(u, s) PROVE IInv'
  <2>1. /\ allowed' = allowed \ {s}
        /\ games' = Without(games, IdsOf(s))
        /\ loops' = Without(loops, IdsOf(s))
        /\ nextId' = nextId /\ cmd' = cmd /\ given' = given
    BY <1>2 DEF RevokeServer
  <2>2. DOMAIN games' \subseteq DOMAIN games /\ \A id \in DOMAIN games' : games'[id] = games[id]
    BY <2>1 DEF Without
  <2>3. DOMAIN loops' \subseteq DOMAIN loops /\ \A id \in DOMAIN loops' : loops'[id] = loops[id]
    BY <2>1 DEF Without
  <2>4. allowed' \subseteq Servers
    BY <2>1, <1>0 DEF TypeOK
  <2> QED BY <2>1, <2>2, <2>3, <2>4, Shrink
<1>3. ASSUME NEW u \in Users, NEW s \in Servers, NEW p \in Places, RemoveGame(u, s, p)
      PROVE IInv'
  <2>1. PICK id \in GameIds(s, p) :
          /\ loops' = Without(loops, {id})
          /\ games' = Without(games, {id})
    BY <1>3 DEF RemoveGame
  <2>2. allowed' = allowed /\ nextId' = nextId /\ cmd' = cmd /\ given' = given
    BY <1>3 DEF RemoveGame
  <2>3. DOMAIN games' \subseteq DOMAIN games /\ \A j \in DOMAIN games' : games'[j] = games[j]
    BY <2>1 DEF Without
  <2>4. DOMAIN loops' \subseteq DOMAIN loops /\ \A j \in DOMAIN loops' : loops'[j] = loops[j]
    BY <2>1 DEF Without
  <2>5. allowed' \subseteq Servers
    BY <2>2, <1>0 DEF TypeOK
  <2> QED BY <2>2, <2>3, <2>4, <2>5, Shrink
<1>4. ASSUME NEW id \in Ids, LoopEnds(id) PROVE IInv'
  <2>1. /\ loops' = Without(loops, {id})
        /\ allowed' = allowed /\ games' = games /\ nextId' = nextId
        /\ cmd' = cmd /\ given' = given
    BY <1>4 DEF LoopEnds
  <2>2. DOMAIN loops' \subseteq DOMAIN loops /\ \A j \in DOMAIN loops' : loops'[j] = loops[j]
    BY <2>1 DEF Without
  <2>3. allowed' \subseteq Servers
    BY <2>1, <1>0 DEF TypeOK
  <2> QED BY <2>1, <2>2, <2>3, Shrink
<1>5. ASSUME NEW u \in Users, NEW s \in Servers, NEW k \in Keys, SetApiKey(u, s, k)
      PROVE IInv'
  <2>1. /\ games' = [id \in DOMAIN games |->
                       IF games[id].server = s /\ games[id].owner = u
                       THEN WithKey(games[id], k) ELSE games[id]]
        /\ given' = [given EXCEPT ![<<u, s>>] = @ \cup {k}]
        /\ allowed' = allowed /\ nextId' = nextId /\ loops' = loops /\ cmd' = cmd
    BY <1>5 DEF SetApiKey
  <2>2. \A us \in Users \X Servers : given[us] \subseteq given'[us]
    BY <2>1, <1>0 DEF TypeOK
  <2>3. given'[<<u, s>>] = given[<<u, s>>] \cup {k}
    BY <2>1, <1>0 DEF TypeOK
  <2>4. TypeOK'
    BY <2>1, <1>0, WithKeyFacts DEF TypeOK
  <2>5. KeyOwnership'
    <3>1. ASSUME NEW id \in DOMAIN games'
          PROVE  games'[id].key \in given'[<<games'[id].owner, games'[id].server>>]
      <4>1. CASE games[id].server = s /\ games[id].owner = u
        BY <4>1, <2>1, <2>3, <1>0, WithKeyFacts DEF TypeOK
      <4>2. CASE ~(games[id].server = s /\ games[id].owner = u)
        BY <4>2, <2>1, <2>2, <1>0 DEF TypeOK, KeyOwnership, Row
      <4> QED BY <4>1, <4>2
    <3>2. ASSUME NEW id \in DOMAIN loops'
          PROVE  loops'[id].key \in given'[<<loops'[id].owner, loops'[id].server>>]
      BY <2>1, <2>2, <1>0 DEF TypeOK, KeyOwnership, Row
    <3> QED BY <3>1, <3>2 DEF KeyOwnership
  <2>6. CmdKeysOwned'
    BY <2>1, <2>2, <1>0, CmdFacts DEF TypeOK, CmdKeysOwned
  <2> QED BY <2>4, <2>5, <2>6 DEF IInv
<1>6. ASSUME NEW c \in Slots, NEW u \in Users, NEW s \in Servers, NEW p \in Places,
             AddBegin(c, u, s, p)
      PROVE IInv'
  <2>1. /\ cmd' = [cmd EXCEPT ![c] = CmdRec("add", "defer", u, s, p, 0, NoKey)]
        /\ allowed' = allowed /\ games' = games /\ nextId' = nextId
        /\ loops' = loops /\ given' = given
    BY <1>6 DEF AddBegin
  <2>2. /\ CmdRec("add", "defer", u, s, p, 0, NoKey) \in Cmd
        /\ CmdRec("add", "defer", u, s, p, 0, NoKey).phase = "defer"
    <3>1. 0 \in 0..MaxId /\ NoKey \in Keys \cup {NoKey}
      OBVIOUS
    <3> QED BY <3>1, CmdRecType
  <2> QED BY <2>1, <2>2, SlotOnly
<1>7. ASSUME NEW c \in Slots,
             \/ AddNoChannel(c) \/ AddNoKey(c) \/ AddCloneFail(c)
             \/ ResetCloneFail(c)
      PROVE IInv'
  <2>1. /\ cmd' = [cmd EXCEPT ![c] = Idle]
        /\ allowed' = allowed /\ games' = games /\ nextId' = nextId
        /\ loops' = loops /\ given' = given
    BY <1>7 DEF AddNoChannel, AddNoKey, AddCloneFail, ResetCloneFail
  <2> QED BY <2>1, CmdFacts, SlotOnly
<1>8. ASSUME NEW c \in Slots, AddClone(c) PROVE IInv'
  <2>1. PICK id \in UserGameIds(c) : cmd' = [cmd EXCEPT ![c] = Cloning(c, games[id].key)]
    BY <1>8 DEF AddClone
  <2>2. allowed' = allowed /\ games' = games /\ nextId' = nextId
        /\ loops' = loops /\ given' = given
    BY <1>8 DEF AddClone
  <2>3. cmd[c].op = "add" /\ cmd[c].phase = "defer"
    BY <1>8 DEF AddClone
  <2>4. /\ id \in DOMAIN games
        /\ games[id].owner = cmd[c].user /\ games[id].server = cmd[c].server
    BY DEF UserGameIds, IdsOf
  <2>5. games[id].key \in given[<<cmd[c].user, cmd[c].server>>] /\ games[id].key \in Keys
    BY <2>4, <1>0 DEF KeyOwnership, TypeOK, Row
  <2>6. cmd[c] \in Cmd
    BY <1>0 DEF TypeOK
  <2>7. /\ Cloning(c, games[id].key) \in Cmd
        /\ Cloning(c, games[id].key).op = "add"
        /\ Cloning(c, games[id].key).user = cmd[c].user
        /\ Cloning(c, games[id].key).server = cmd[c].server
        /\ Cloning(c, games[id].key).key = games[id].key
    BY <2>3, <2>5, <2>6, CmdFacts, CmdRecType DEF Cloning
  <2> QED BY <2>1, <2>2, <2>5, <2>7, SlotOnly
<1>9. ASSUME NEW c \in Slots, ResetClone(c) PROVE IInv'
  <2>1. /\ cmd' = [cmd EXCEPT ![c] = Cloning(c, cmd[c].key)]
        /\ loops' = Without(loops, {cmd[c].id})
        /\ allowed' = allowed /\ games' = games /\ nextId' = nextId /\ given' = given
    BY <1>9 DEF ResetClone
  <2>2. cmd[c].op = "reset" /\ cmd[c] \in Cmd
    BY <1>9, <1>0 DEF ResetClone, TypeOK
  <2>3. Cloning(c, cmd[c].key) \in Cmd /\ Cloning(c, cmd[c].key).op = "reset"
    BY <2>2, CmdFacts, CmdRecType DEF Cloning
  <2>4. DOMAIN loops' \subseteq DOMAIN loops /\ \A j \in DOMAIN loops' : loops'[j] = loops[j]
    BY <2>1 DEF Without
  <2>5. TypeOK'
    BY <2>1, <2>3, <2>4, <1>0 DEF TypeOK
  <2>6. KeyOwnership'
    BY <2>1, <2>4, <1>0 DEF KeyOwnership
  <2>7. CmdKeysOwned'
    BY <2>1, <2>3, <1>0 DEF CmdKeysOwned, TypeOK
  <2> QED BY <2>5, <2>6, <2>7 DEF IInv
<1>10. ASSUME NEW c \in Slots, NEW u \in Users, NEW s \in Servers, NEW p \in Places,
              ResetBegin(c, u, s, p)
       PROVE IInv'
  <2>1. PICK id \in GameIds(s, p) :
           cmd' = [cmd EXCEPT ![c] = CmdRec("reset", "defer", games[id].owner,
                                            s, p, id, games[id].key)]
    BY <1>10 DEF ResetBegin
  <2>2. allowed' = allowed /\ games' = games /\ nextId' = nextId
        /\ loops' = loops /\ given' = given
    BY <1>10 DEF ResetBegin
  <2>3. id \in Ids /\ games[id] \in Row
    BY <1>0 DEF GameIds, IdsOf, TypeOK
  <2>4. /\ CmdRec("reset", "defer", games[id].owner, s, p, id, games[id].key) \in Cmd
        /\ CmdRec("reset", "defer", games[id].owner, s, p, id, games[id].key).op = "reset"
    BY <2>3, CmdRecType DEF Ids, Row
  <2> QED BY <2>1, <2>2, <2>4, SlotOnly
<1>11. ASSUME NEW c \in Slots, AddInsert(c) PROVE IInv'
  <2> DEFINE row == [server |-> cmd[c].server, place |-> cmd[c].place,
                     owner |-> cmd[c].user, key |-> cmd[c].key]
  <2>1. cmd[c].op = "add" /\ cmd[c].phase = "clone" /\ cmd[c] \in Cmd
    BY <1>11, <1>0 DEF AddInsert, TypeOK
  <2>2. cmd[c].key \in given[<<cmd[c].user, cmd[c].server>>]
    BY <2>1, <1>0 DEF CmdKeysOwned
  <2>3. row \in Row /\ row.key \in given[<<row.owner, row.server>>]
    BY <2>1, <2>2, <1>0, CmdFacts DEF TypeOK, Row
  <2>4. cmd' = [cmd EXCEPT ![c] = Idle] /\ allowed' = allowed /\ given' = given
    BY <1>11 DEF AddInsert
  <2>5. CASE cmd[c].server \in allowed /\ GameIds(cmd[c].server, cmd[c].place) = {}
    <3>1. /\ nextId < MaxId
          /\ games' = Put(games, nextId, row)
          /\ nextId' = nextId + 1
          /\ loops' = StartRow(nextId, row)
      BY <1>11, <2>5 DEF AddInsert
    <3>2. /\ DOMAIN games' = DOMAIN games \cup {nextId}
          /\ games'[nextId] = row
          /\ \A j \in DOMAIN games \ {nextId} : games'[j] = games[j]
          /\ DOMAIN loops' \subseteq DOMAIN loops \cup {nextId}
          /\ \A j \in DOMAIN loops' :
                \/ j \in DOMAIN loops /\ loops'[j] = loops[j]
                \/ loops'[j] = row
      BY <3>1 DEF Put, StartRow
    <3>3. TypeOK'
      <4>1. nextId \in 1..MaxId /\ nextId' \in 1..MaxId
        BY <3>1, <1>0 DEF TypeOK
      <4>2. DOMAIN games' \subseteq Ids /\ DOMAIN loops' \subseteq Ids
        BY <3>2, <4>1, <1>0 DEF TypeOK, Ids
      <4>3. \A j \in DOMAIN games' : games'[j] \in Row
        BY <3>2, <2>3, <1>0 DEF TypeOK
      <4>4. \A j \in DOMAIN loops' : loops'[j] \in Row
        BY <3>2, <2>3, <1>0 DEF TypeOK
      <4>5. cmd' \in [Slots -> Cmd]
        BY <2>4, <1>0, CmdFacts DEF TypeOK
      <4> QED BY <4>1, <4>2, <4>3, <4>4, <4>5, <2>4, <1>0 DEF TypeOK
    <3>4. KeyOwnership'
      BY <3>2, <2>3, <2>4, <1>0 DEF KeyOwnership
    <3>5. CmdKeysOwned'
      BY <2>4, <1>0, CmdFacts DEF CmdKeysOwned, TypeOK
    <3> QED BY <3>3, <3>4, <3>5 DEF IInv
  <2>6. CASE ~(cmd[c].server \in allowed /\ GameIds(cmd[c].server, cmd[c].place) = {})
    <3>1. games' = games /\ nextId' = nextId /\ loops' = loops
      BY <1>11, <2>6 DEF AddInsert
    <3> QED BY <3>1, <2>4, CmdFacts, SlotOnly
  <2> QED BY <2>5, <2>6
<1>12. ASSUME NEW c \in Slots, ResetRestart(c) PROVE IInv'
  <2>1. cmd' = [cmd EXCEPT ![c] = Idle]
        /\ allowed' = allowed /\ games' = games /\ nextId' = nextId /\ given' = given
    BY <1>12 DEF ResetRestart
  <2>2. \/ loops' = loops
        \/ \E id \in DOMAIN games : loops' = Start(id)
    BY <1>12 DEF ResetRestart, GameIds, IdsOf
  <2>3. /\ DOMAIN loops' \subseteq Ids
        /\ \A j \in DOMAIN loops' :
              \/ j \in DOMAIN loops /\ loops'[j] = loops[j]
              \/ j \in DOMAIN games /\ loops'[j] = games[j]
    <3>1. CASE loops' = loops
      BY <3>1, <1>0 DEF TypeOK
    <3>2. CASE \E id \in DOMAIN games : loops' = Start(id)
      <4>1. PICK id \in DOMAIN games : loops' = Start(id)
        BY <3>2
      <4>2. CASE id \in DOMAIN loops
        BY <4>1, <4>2, <1>0 DEF Start, StartRow, TypeOK
      <4>3. CASE id \notin DOMAIN loops
        <5>1. loops' = Put(loops, id, games[id])
          BY <4>1, <4>3 DEF Start, StartRow
        <5> QED BY <5>1, <1>0 DEF Put, TypeOK
      <4> QED BY <4>2, <4>3
    <3> QED BY <2>2, <3>1, <3>2
  <2>4. TypeOK'
    BY <2>1, <2>3, <1>0, CmdFacts DEF TypeOK
  <2>5. KeyOwnership'
    BY <2>1, <2>3, <1>0 DEF KeyOwnership
  <2>6. CmdKeysOwned'
    BY <2>1, <1>0, CmdFacts DEF CmdKeysOwned, TypeOK
  <2> QED BY <2>4, <2>5, <2>6 DEF IInv
<1>13. ASSUME OnReady PROVE IInv'
  <2>1. allowed' = allowed /\ games' = games /\ nextId' = nextId
        /\ cmd' = cmd /\ given' = given
    BY <1>13 DEF OnReady
  <2>2. /\ DOMAIN loops' \subseteq Ids
        /\ \A j \in DOMAIN loops' :
              \/ j \in DOMAIN loops /\ loops'[j] = loops[j]
              \/ j \in DOMAIN games /\ loops'[j] = games[j]
    BY <1>13, <1>0 DEF OnReady, TypeOK
  <2>3. TypeOK'
    BY <2>1, <2>2, <1>0 DEF TypeOK
  <2>4. KeyOwnership'
    BY <2>1, <2>2, <1>0 DEF KeyOwnership
  <2>5. CmdKeysOwned'
    BY <2>1, <1>0 DEF CmdKeysOwned
  <2> QED BY <2>3, <2>4, <2>5 DEF IInv
<1>14. CASE UNCHANGED vars
  BY <1>14, <1>0 DEF vars, IInv, TypeOK, KeyOwnership, CmdKeysOwned
<1> QED
  BY <1>1, <1>2, <1>3, <1>4, <1>5, <1>6, <1>7, <1>8, <1>9, <1>10,
     <1>11, <1>12, <1>13, <1>14 DEF Next

-----------------------------------------------------------------------------
(***************************************************************************)
(* Loops run their own rows.  LoopsRunOwnRow is not inductive: add-game's  *)
(* start_sync_loop keeps a live task registered for the new id, so the     *)
(* invariant adds that every id of a row or of a task is below nextId      *)
(* (the AUTOINCREMENT sequence).                                           *)
(***************************************************************************)
IdsIssued == \A id \in DOMAIN games \cup DOMAIN loops : id < nextId

OwnInv == IdsIssued /\ LoopsRunOwnRow

\* Two rows with the same server, place and owner.
SameGame(r, q) == r.server = q.server /\ r.place = q.place /\ r.owner = q.owner

\* A step that keeps nextId, keeps (up to the key) or drops rows, and
\* registers only old tasks or tasks of old rows keeps OwnInv.
LEMMA OwnFrame ==
    ASSUME OwnInv, nextId' = nextId,
           DOMAIN games' \subseteq DOMAIN games,
           \A id \in DOMAIN games' : SameGame(games'[id], games[id]),
           \A id \in DOMAIN loops' :
              \/ id \in DOMAIN loops /\ loops'[id] = loops[id]
              \/ id \in DOMAIN games /\ loops'[id] = games[id]
    PROVE  OwnInv'
<1>1. IdsIssued'
  BY DEF OwnInv, IdsIssued
<1>2. LoopsRunOwnRow'
  BY DEF OwnInv, LoopsRunOwnRow, SameGame
<1> QED BY <1>1, <1>2 DEF OwnInv

\* Without drops entries and keeps the others.
LEMMA WithoutFacts ==
    ASSUME NEW f, NEW D
    PROVE  /\ DOMAIN Without(f, D) \subseteq DOMAIN f
           /\ \A id \in DOMAIN Without(f, D) : Without(f, D)[id] = f[id]
BY DEF Without

LEMMA OwnStep == TypeOK /\ OwnInv /\ [Next]_vars => OwnInv'
<1> SUFFICES ASSUME TypeOK, OwnInv, [Next]_vars PROVE OwnInv'
  OBVIOUS
<1> DEFINE Frame(g, l) ==
      /\ DOMAIN g \subseteq DOMAIN games
      /\ \A id \in DOMAIN g : SameGame(g[id], games[id])
      /\ \A id \in DOMAIN l :
            \/ id \in DOMAIN loops /\ l[id] = loops[id]
            \/ id \in DOMAIN games /\ l[id] = games[id]
<1>0. ASSUME nextId' = nextId, Frame(games', loops') PROVE OwnInv'
  BY <1>0, OwnFrame DEF Frame
<1>1. Frame(games, loops)
  BY DEF Frame, SameGame
<1>2. \A D : Frame(Without(games, D), loops) /\ Frame(games, Without(loops, D))
           /\ Frame(Without(games, D), Without(loops, D))
  BY WithoutFacts DEF Frame, SameGame
<1>3. ASSUME NEW u \in Users, NEW s \in Servers,
             ApproveServer(u, s) \/ RevokeServer(u, s)
      PROVE  OwnInv'
  BY <1>3, <1>2, <1>0 DEF ApproveServer, RevokeServer
<1>4. ASSUME NEW u \in Users, NEW s \in Servers, NEW k \in Keys, SetApiKey(u, s, k)
      PROVE  OwnInv'
  <2>1. Frame(games', loops') /\ nextId' = nextId
    BY <1>4 DEF SetApiKey, Frame, SameGame, WithKey
  <2> QED BY <2>1, <1>0
<1>5. ASSUME NEW u \in Users, NEW s \in Servers, NEW p \in Places, RemoveGame(u, s, p)
      PROVE  OwnInv'
  BY <1>5, <1>2, <1>0 DEF RemoveGame
<1>6. ASSUME NEW c \in Slots,
             \/ \E u \in Users, s \in Servers, p \in Places :
                   AddBegin(c, u, s, p) \/ ResetBegin(c, u, s, p)
             \/ AddNoChannel(c) \/ AddNoKey(c) \/ AddClone(c)
             \/ AddCloneFail(c) \/ ResetCloneFail(c)
      PROVE  OwnInv'
  BY <1>6, <1>1, <1>0 DEF AddBegin, ResetBegin, AddNoChannel, AddNoKey,
                          AddClone, AddCloneFail, ResetCloneFail
<1>7. ASSUME NEW c \in Slots, ResetClone(c) PROVE OwnInv'
  BY <1>7, <1>2, <1>0 DEF ResetClone
<1>8. ASSUME NEW c \in Slots, ResetRestart(c) PROVE OwnInv'
  <2>1. \/ loops' = loops
        \/ \E id \in DOMAIN games : loops' = StartRow(id, games[id])
    BY <1>8 DEF ResetRestart, Start, GameIds, IdsOf
  <2>2. Frame(games', loops') /\ nextId' = nextId
    <3>1. games' = games /\ nextId' = nextId
      BY <1>8 DEF ResetRestart
    <3>2. \A id \in DOMAIN loops' :
              \/ id \in DOMAIN loops /\ loops'[id] = loops[id]
              \/ id \in DOMAIN games /\ loops'[id] = games[id]
      <4>1. CASE loops' = loops
        BY <4>1
      <4>2. CASE \E id \in DOMAIN games : loops' = StartRow(id, games[id])
        <5>1. PICK j \in DOMAIN games : loops' = StartRow(j, games[j])
          BY <4>2
        <5>2. CASE j \in DOMAIN loops
          BY <5>1, <5>2 DEF StartRow
        <5>3. CASE j \notin DOMAIN loops
          BY <5>1, <5>3 DEF StartRow, Put
        <5> QED BY <5>2, <5>3
      <4> QED BY <2>1, <4>1, <4>2
    <3> QED BY <3>1, <3>2 DEF Frame, SameGame
  <2> QED BY <2>2, <1>0
<1>9. ASSUME OnReady PROVE OwnInv'
  <2>1. Frame(games', loops') /\ nextId' = nextId
    BY <1>9 DEF OnReady, Frame, SameGame
  <2> QED BY <2>1, <1>0
<1>10. ASSUME NEW id \in Ids, LoopEnds(id) PROVE OwnInv'
  BY <1>10, <1>2, <1>0 DEF LoopEnds
<1>11. ASSUME NEW c \in Slots, AddInsert(c) PROVE OwnInv'
  <2> DEFINE row == [server |-> cmd[c].server, place |-> cmd[c].place,
                     owner |-> cmd[c].user, key |-> cmd[c].key]
  <2>1. CASE cmd[c].server \in allowed /\ GameIds(cmd[c].server, cmd[c].place) = {}
    <3>1. /\ games' = Put(games, nextId, row)
          /\ nextId' = nextId + 1
          /\ loops' = StartRow(nextId, row)
      BY <1>11, <2>1 DEF AddInsert
    <3>2. nextId \notin DOMAIN games \cup DOMAIN loops /\ nextId \in Nat
      BY DEF OwnInv, IdsIssued, TypeOK
    <3>3. /\ DOMAIN games' = DOMAIN games \cup {nextId}
          /\ DOMAIN loops' = DOMAIN loops \cup {nextId}
          /\ games'[nextId] = row /\ loops'[nextId] = row
          /\ \A j \in DOMAIN games : games'[j] = games[j]
          /\ \A j \in DOMAIN loops : loops'[j] = loops[j]
      BY <3>1, <3>2 DEF Put, StartRow
    <3>4. \A id \in DOMAIN games \cup DOMAIN loops : id \in Nat
      BY DEF TypeOK, Ids
    <3>5. IdsIssued'
      BY <3>1, <3>2, <3>3, <3>4 DEF OwnInv, IdsIssued
    <3>6. LoopsRunOwnRow'
      BY <3>3 DEF OwnInv, LoopsRunOwnRow
    <3> QED BY <3>5, <3>6 DEF OwnInv
  <2>2. CASE ~(cmd[c].server \in allowed /\ GameIds(cmd[c].server, cmd[c].place) = {})
    BY <1>11, <2>2, <1>1, <1>0 DEF AddInsert
  <2> QED BY <2>1, <2>2
<1>12. CASE UNCHANGED vars
  BY <1>12, <1>1, <1>0 DEF vars
<1> QED
  BY <1>3, <1>4, <1>5, <1>6, <1>7, <1>8, <1>9, <1>10, <1>11, <1>12 DEF Next

-----------------------------------------------------------------------------
(* Theorems *)

\* Every reachable state of the command surface is well typed: the games
\* table, the task registry and the commands in flight hold rows and
\* command locals of the right shape, whatever the constants.
THEOREM ServerTypeCorrect == Spec => []TypeOK
<1>1. IInv => TypeOK
  BY DEF IInv
<1> QED BY IInvInit, IInvStep, <1>1, PTL DEF Spec

\* No game row and no running sync loop ever carries a key that its owner
\* did not supply in its server with set-api-key: set-api-key, add-game
\* across its awaits, reset-game, revoke and re-approval never hand one
\* user's Roblox credential to another user's game.
THEOREM KeysStayWithOwners == Spec => []KeyOwnership
<1>1. IInv => KeyOwnership
  BY DEF IInv
<1> QED BY IInvInit, IInvStep, <1>1, PTL DEF Spec

\* Every registered sync task of a game row runs that row's server, place
\* and owner, so remove-game, reset-game and revoke-server, which stop
\* tasks by games.id, stop the loop of the game they act on; ids of the
\* AUTOINCREMENT sequence are never given twice, even to a row added after
\* a re-approval left a task of a deleted row running.
THEOREM LoopsStayWithRows == Spec => []LoopsRunOwnRow
<1>1. Init => OwnInv
  BY DEF Init, OwnInv, IdsIssued, LoopsRunOwnRow
<1>2. Spec => []TypeOK
  BY ServerTypeCorrect
<1>3. TypeOK /\ OwnInv /\ [Next]_vars => OwnInv'
  BY OwnStep
<1> QED BY <1>1, <1>2, <1>3, PTL DEF Spec, OwnInv
=============================================================================

------------------------------ MODULE GamesTable ------------------------------
(***************************************************************************)
(* What the games and allowed_servers tables of db.py promise the bot's    *)
(* commands (spec 3, 4.2-4.5), each change being one atomic statement:     *)
(*   - approving a server that is already approved replaces its row, and  *)
(*     the delete cascades to its games; revoking deletes its games;       *)
(*   - set-api-key, in an approved server, rekeys the caller's own games;  *)
(*   - a game is inserted for an approved server and a place that server   *)
(*     does not monitor yet, with a key its owner supplied in that server, *)
(*     under the next AUTOINCREMENT id;                                    *)
(*   - a game of an approved server is deleted.                            *)
(* Who may approve, revoke or delete is not visible in the tables (an      *)
(* admin may do each), so those guards are not part of the contract.       *)
(* given is a history variable: the keys each user has supplied per       *)
(* server.  The table keeps no per-server game limit: the code does not    *)
(* keep one either (run game_limit_race).                                  *)
(***************************************************************************)
EXTENDS Naturals, TLAPS

CONSTANTS Users, Servers, Places, Keys

VARIABLES
    allowed,   \* allowed_servers
    rows,      \* games: id -> [server, place, owner, key]
    next,      \* the AUTOINCREMENT sequence of games
    given      \* <<user, server>> -> keys that user has supplied

vars == <<allowed, rows, next, given>>

GameRow == [server : Servers, place : Places, owner : Users, key : Keys]

RowsOf(s) == {id \in DOMAIN rows : rows[id].server = s}

\* rows without the ids D
Drop(D) == [id \in DOMAIN rows \ D |-> rows[id]]

Rekey(r, k) == [server |-> r.server, place |-> r.place, owner |-> r.owner, key |-> k]

TableOK ==
    /\ allowed \subseteq Servers
    /\ next \in Nat \ {0}
    /\ DOMAIN rows \subseteq 1..(next - 1)
    /\ rows \in [DOMAIN rows -> GameRow]
    /\ given \in [Users \X Servers -> SUBSET Keys]

(***************************************************************************)
(* The constraints of the schema and of the commands: every game belongs   *)
(* to an approved server (FOREIGN KEY ... ON DELETE CASCADE), a server     *)
(* monitors a place at most once (UNIQUE(discord_server_id, place_id)),    *)
(* and every game's key was supplied by its owner in its server.           *)
(***************************************************************************)
Consistent ==
    /\ \A id \in DOMAIN rows : rows[id].server \in allowed
    /\ \A i, j \in DOMAIN rows :
          i # j => rows[i].server # rows[j].server \/ rows[i].place # rows[j].place
    /\ \A id \in DOMAIN rows : rows[id].key \in given[<<rows[id].owner, rows[id].server>>]

\* Any database the process may start with.
Init == TableOK /\ Consistent

Approve(s) ==
    /\ allowed' = allowed \cup {s}
    /\ rows' = Drop(IF s \in allowed THEN RowsOf(s) ELSE {})
    /\ UNCHANGED <<next, given>>

Revoke(s) ==
    /\ allowed' = allowed \ {s}
    /\ rows' = Drop(RowsOf(s))
    /\ UNCHANGED <<next, given>>

SetKey(u, s, k) ==
    /\ s \in allowed
    /\ rows' = [id \in DOMAIN rows |->
                  IF rows[id].server = s /\ rows[id].owner = u
                  THEN Rekey(rows[id], k) ELSE rows[id]]
    /\ given' = [given EXCEPT ![<<u, s>>] = @ \cup {k}]
    /\ UNCHANGED <<allowed, next>>

Insert(r) ==
    /\ r.server \in allowed
    /\ \A id \in DOMAIN rows : rows[id].server # r.server \/ rows[id].place # r.place
    /\ r.key \in given[<<r.owner, r.server>>]
    /\ rows' = [id \in DOMAIN rows \cup {next} |-> IF id = next THEN r ELSE rows[id]]
    /\ next' = next + 1
    /\ UNCHANGED <<allowed, given>>

Remove(id) ==
    /\ rows[id].server \in allowed
    /\ rows' = Drop({id})
    /\ UNCHANGED <<allowed, next, given>>

Next ==
    \/ \E s \in Servers : Approve(s) \/ Revoke(s)
    \/ \E u \in Users, s \in Servers, k \in Keys : SetKey(u, s, k)
    \/ \E id \in DOMAIN rows : Remove(id)
    \/ \E r \in GameRow : Insert(r)

Spec == Init /\ [][Next]_vars

-----------------------------------------------------------------------------
(* Every step keeps the table well formed and consistent.                   *)
LEMMA TableStep == TableOK /\ Consistent /\ [Next]_vars => TableOK' /\ Consistent'
<1> SUFFICES ASSUME TableOK, Consistent, [Next]_vars
             PROVE  TableOK' /\ Consistent'
  OBVIOUS
<1>1. ASSUME NEW s \in Servers, Approve(s)
      PROVE  TableOK' /\ Consistent'
  BY <1>1 DEF Approve, Drop, RowsOf, TableOK, Consistent
<1>2. ASSUME NEW s \in Servers, Revoke(s)
      PROVE  TableOK' /\ Consistent'
  BY <1>2 DEF Revoke, Drop, RowsOf, TableOK, Consistent
<1>3. ASSUME NEW u \in Users, NEW s \in Servers, NEW k \in Keys, SetKey(u, s, k)
      PROVE  TableOK' /\ Consistent'
  <2>1. TableOK'
    BY <1>3 DEF SetKey, Rekey, TableOK, GameRow
  <2>2. Consistent'
    BY <1>3 DEF SetKey, Rekey, TableOK, Consistent
  <2> QED BY <2>1, <2>2
<1>4. ASSUME NEW id \in DOMAIN rows, Remove(id)
      PROVE  TableOK' /\ Consistent'
  BY <1>4 DEF Remove, Drop, TableOK, Consistent
<1>5. ASSUME NEW r \in GameRow, Insert(r)
      PROVE  TableOK' /\ Consistent'
  <2>1. next \notin DOMAIN rows /\ next \in Nat
    BY DEF TableOK
  <2>2. TableOK'
    BY <1>5, <2>1 DEF Insert, TableOK
  <2>3. Consistent'
    BY <1>5, <2>1 DEF Insert, Consistent
  <2> QED BY <2>2, <2>3
<1>6. CASE UNCHANGED vars
  BY <1>6 DEF vars, TableOK, Consistent
<1> QED BY <1>1, <1>2, <1>3, <1>4, <1>5, <1>6 DEF Next

(* Whatever the order of the commands, every game belongs to an approved   *)
(* server, no server monitors a place twice, and every game's key was      *)
(* supplied by its owner in its server.                                    *)
THEOREM TableConsistent == Spec => [](TableOK /\ Consistent)
BY TableStep, PTL DEF Spec, Init

=============================================================================

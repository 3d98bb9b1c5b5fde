------------------------------- MODULE Server -------------------------------
(***************************************************************************)
(* The command surface of atlas_daemon over all servers and games: the     *)
(* slash commands of bot.py that write the games and allowed_servers       *)
(* tables of db.py and start or stop sync loops through the task registry  *)
(* of daemon.py (_sync_tasks), and the on_ready restart.                   *)
(*                                                                         *)
(* A command handler runs from its invocation to its first await that      *)
(* really suspends (interaction.response.defer, daemon.init_game); each    *)
(* such segment is one action.  The awaits that only send a reply and end  *)
(* the handler are left out: a refused command changes nothing.  Several   *)
(* add-game and reset-game commands may be in flight at once; each holds a *)
(* slot of cmd with the locals it carries across its awaits.               *)
(*                                                                         *)
(* A games row is a record [server, place, owner, key]: owner is added_by  *)
(* and key is api_key_encrypted, a blob standing for the key a user gave.  *)
(* A running loop holds the Game object it was started with (loops[id]).   *)
(* The loop body itself is the SyncLoop module; here a loop only ends.     *)
(***************************************************************************)
EXTENDS Naturals, FiniteSets, Sequences

CONSTANTS
    Users,        \* Discord user ids
    Admins,       \* rows of the admins table (GLOBAL_ADMIN_IDS seeded)
    Servers,      \* Discord server (guild) ids
    Places,       \* Roblox place ids
    Keys,         \* encrypted API key blobs
    NoKey,        \* api_key_encrypted is None
    Slots,        \* add-game / reset-game commands that may be in flight
    MaxGames,     \* config.max_games_per_server
    MaxId,        \* bound on the AUTOINCREMENT id of the games table
    InitAllowed,  \* allowed_servers rows when the process starts
    InitRows      \* games rows when the process starts, in id order

Row == [server : Servers, place : Places, owner : Users, key : Keys]

ASSUME ServerAssumption ==
    /\ Admins \subseteq Users
    /\ NoKey \notin Keys
    /\ MaxGames \in Nat
    /\ MaxId \in Nat
    /\ InitAllowed \subseteq Servers
    /\ InitRows \in Seq(Row)
    /\ Len(InitRows) < MaxId
    \* the initial database satisfies the schema's FOREIGN KEY and UNIQUE
    /\ \A i \in 1..Len(InitRows) : InitRows[i].server \in InitAllowed
    /\ \A i, j \in 1..Len(InitRows) :
          i # j => InitRows[i].server # InitRows[j].server
                   \/ InitRows[i].place # InitRows[j].place

VARIABLES
    allowed,   \* allowed_servers
    games,     \* games table: id -> Row
    nextId,    \* next AUTOINCREMENT id of the games table
    loops,     \* live tasks of _sync_tasks: game id -> the Game it runs on
    cmd,       \* slot -> locals of an add-game / reset-game in flight
    given      \* history: <<user, server>> -> keys that user has supplied

vars == <<allowed, games, nextId, loops, cmd, given>>

Ids == 1..MaxId

\* The locals an add-game / reset-game handler carries across its awaits
CmdRec(op, phase, u, s, p, id, k) ==
    [op |-> op, phase |-> phase, user |-> u, server |-> s, place |-> p,
     id |-> id, key |-> k]

Idle == CmdRec("idle", "none", CHOOSE u \in Users : TRUE,
               CHOOSE s \in Servers : TRUE, CHOOSE p \in Places : TRUE, 0, NoKey)

Cmd == [op : {"add", "reset"}, phase : {"defer", "clone"}, user : Users,
        server : Servers, place : Places, id : 0..MaxId, key : Keys \cup {NoKey}]
       \cup {Idle}

IdsOf(s) == {id \in DOMAIN games : games[id].server = s}

\* db.get_game(server_id, place_id): the ids of the matching row (at most
\* one, by UNIQUE(discord_server_id, place_id))
GameIds(s, p) == {id \in IdsOf(s) : games[id].place = p}

\* db.is_admin
IsAdmin(u) == u \in Admins

\* Drop a set of ids from a table or from the registry
Without(f, D) == [id \in DOMAIN f \ D |-> f[id]]

\* The Game row with its api_key_encrypted replaced
WithKey(r, k) == [server |-> r.server, place |-> r.place, owner |-> r.owner, key |-> k]

\* Add the entry id |-> v to a table or to the registry
Put(f, id, v) == [j \in DOMAIN f \cup {id} |-> IF j = id THEN v ELSE f[j]]

\* The given keys recorded for the rows a process starts with
InitGiven ==
    [us \in Users \X Servers |->
        {InitRows[i].key : i \in {i \in 1..Len(InitRows) :
                                     /\ InitRows[i].owner = us[1]
                                     /\ InitRows[i].server = us[2]}}]

TypeOK ==
    /\ allowed \subseteq Servers
    /\ DOMAIN games \subseteq Ids
    /\ \A id \in DOMAIN games : games[id] \in Row
    /\ nextId \in 1..MaxId
    /\ DOMAIN loops \subseteq Ids
    /\ \A id \in DOMAIN loops : loops[id] \in Row
    /\ cmd \in [Slots -> Cmd]
    /\ given \in [Users \X Servers -> SUBSET Keys]

Init ==
    /\ allowed = InitAllowed
    /\ games = [i \in 1..Len(InitRows) |-> InitRows[i]]
    /\ nextId = Len(InitRows) + 1
    /\ loops = [id \in {} |-> Idle]
    /\ cmd = [c \in Slots |-> Idle]
    /\ given = InitGiven

-----------------------------------------------------------------------------
(* Admin commands *)

\* approve-server: INSERT OR REPLACE INTO allowed_servers.  When the row
\* exists, REPLACE deletes it first, and with foreign_keys=ON the delete
\* cascades to the server's games (and their issues).  No loop is stopped.
ReplaceCascade(s) == IF s \in allowed THEN IdsOf(s) ELSE {}

ApproveServer(u, s) ==
    /\ IsAdmin(u)
    /\ allowed' = allowed \cup {s}
    /\ games' = Without(games, ReplaceCascade(s))
    /\ UNCHANGED <<nextId, loops, cmd, given>>

\* Mutant: the connection without PRAGMA foreign_keys=ON, so deleting the
\* allowed_servers row leaves the server's games
RevokeNoCascade(u, s) ==
    /\ IsAdmin(u)
    /\ loops' = Without(loops, IdsOf(s))
    /\ allowed' = allowed \ {s}
    /\ UNCHANGED <<games, nextId, cmd, given>>

\* revoke-server: stop_all_for_server stops the loops of the rows the
\* database still lists, then the delete cascades to those rows.
RevokeServer(u, s) ==
    /\ IsAdmin(u)
    /\ loops' = Without(loops, IdsOf(s))
    /\ allowed' = allowed \ {s}
    /\ games' = Without(games, IdsOf(s))
    /\ UNCHANGED <<nextId, cmd, given>>

-----------------------------------------------------------------------------
(* Member commands; _check_server / _check_server_async come first *)

\* Mutant: the loop over get_games_for_server without its added_by test
SetApiKeyAllRows(u, s, k) ==
    /\ s \in allowed
    /\ games' = [id \in DOMAIN games |->
                    IF games[id].server = s
                    THEN WithKey(games[id], k) ELSE games[id]]
    /\ given' = [given EXCEPT ![<<u, s>>] = @ \cup {k}]
    /\ UNCHANGED <<allowed, nextId, loops, cmd>>

\* set-api-key: the new blob is written to the user's existing rows of
\* this server; nothing is stored when the user has none.
SetApiKey(u, s, k) ==
    /\ s \in allowed
    /\ games' = [id \in DOMAIN games |->
                    IF games[id].server = s /\ games[id].owner = u
                    THEN WithKey(games[id], k) ELSE games[id]]
    /\ given' = [given EXCEPT ![<<u, s>>] = @ \cup {k}]
    /\ UNCHANGED <<allowed, nextId, loops, cmd>>

\* add-game up to `await interaction.response.defer`: the count and
\* duplicate checks are made here, before the handler first suspends.
AddBegin(c, u, s, p) ==
    /\ cmd[c] = Idle
    /\ s \in allowed
    /\ Cardinality(IdsOf(s)) < MaxGames
    /\ GameIds(s, p) = {}
    /\ cmd' = [cmd EXCEPT ![c] = CmdRec("add", "defer", u, s, p, 0, NoKey)]
    /\ UNCHANGED <<allowed, games, nextId, loops, given>>

\* The user's rows of the command's server (user_games).  The SELECT has
\* no ORDER BY, so user_games[0] is any one of them.
UserGameIds(c) == {id \in IdsOf(cmd[c].server) : games[id].owner = cmd[c].user}

\* The handler's locals once it has taken the key k and awaits init_game
Cloning(c, k) ==
    CmdRec(cmd[c].op, "clone", cmd[c].user, cmd[c].server, cmd[c].place, cmd[c].id, k)

\* add-game after defer: the channel is not a text channel; the handler ends.
AddNoChannel(c) ==
    /\ cmd[c].op = "add" /\ cmd[c].phase = "defer"
    /\ cmd' = [cmd EXCEPT ![c] = Idle]
    /\ UNCHANGED <<allowed, games, nextId, loops, given>>

\* add-game after defer: no row of the user in this server, so no key:
\* "No API key found. Please run /set-api-key first".
AddNoKey(c) ==
    /\ cmd[c].op = "add" /\ cmd[c].phase = "defer"
    /\ UserGameIds(c) = {}
    /\ cmd' = [cmd EXCEPT ![c] = Idle]
    /\ UNCHANGED <<allowed, games, nextId, loops, given>>

\* add-game after defer: the key of user_games[0] is taken, then
\* `await daemon.init_game(...)` clones the place.
AddClone(c) ==
    /\ cmd[c].op = "add" /\ cmd[c].phase = "defer"
    /\ \E id \in UserGameIds(c) :
          cmd' = [cmd EXCEPT ![c] = Cloning(c, games[id].key)]
    /\ UNCHANGED <<allowed, games, nextId, loops, given>>

\* decrypt_api_key or init_game raised: the error is replied, nothing stored.
AddCloneFail(c) ==
    /\ cmd[c].op = "add" /\ cmd[c].phase = "clone"
    /\ cmd' = [cmd EXCEPT ![c] = Idle]
    /\ UNCHANGED <<allowed, games, nextId, loops, given>>

\* Mutant: the games table without AUTOINCREMENT, so that SQLite gives a new
\* row the largest id in the table plus one
AddInsertRowid(c) ==
    LET s == cmd[c].server
        p == cmd[c].place
        row == [server |-> s, place |-> p, owner |-> cmd[c].user, key |-> cmd[c].key]
        rowid == IF DOMAIN games = {} THEN 1
                 ELSE (CHOOSE m \in DOMAIN games : \A j \in DOMAIN games : j <= m) + 1
    IN /\ cmd[c].op = "add" /\ cmd[c].phase = "clone"
       /\ cmd' = [cmd EXCEPT ![c] = Idle]
       /\ IF s \in allowed /\ GameIds(s, p) = {}
          THEN /\ rowid < MaxId
               /\ games' = Put(games, rowid, row)
               /\ nextId' = nextId
               /\ loops' = IF rowid \in DOMAIN loops THEN loops
                            ELSE Put(loops, rowid, row)
          ELSE UNCHANGED <<games, nextId, loops>>
       /\ UNCHANGED <<allowed, given>>

\* start_sync_loop for row r with the given id: a task is created and
\* registered unless a live one is registered for the id.
StartRow(id, r) == IF id \in DOMAIN loops THEN loops ELSE Put(loops, id, r)

\* init_game returned: db.add_game inserts the row (it raises, outside any
\* try, when the server is no longer allowed (FOREIGN KEY) or the place was
\* added meanwhile (UNIQUE)); get_game finds it and start_sync_loop runs.
AddInsert(c) ==
    LET s == cmd[c].server
        p == cmd[c].place
        row == [server |-> s, place |-> p, owner |-> cmd[c].user, key |-> cmd[c].key]
    IN /\ cmd[c].op = "add" /\ cmd[c].phase = "clone"
       /\ cmd' = [cmd EXCEPT ![c] = Idle]
       /\ IF s \in allowed /\ GameIds(s, p) = {}
          THEN /\ nextId < MaxId
               /\ games' = Put(games, nextId, row)
               /\ nextId' = nextId + 1
               /\ loops' = StartRow(nextId, row)
          ELSE UNCHANGED <<games, nextId, loops>>
       /\ UNCHANGED <<allowed, given>>

\* remove-game: the owner or an admin; stop_sync_loop, then the delete.
RemoveGame(u, s, p) ==
    /\ s \in allowed
    /\ \E id \in GameIds(s, p) :
          /\ games[id].owner = u \/ IsAdmin(u)
          /\ loops' = Without(loops, {id})
          /\ games' = Without(games, {id})
    /\ UNCHANGED <<allowed, nextId, cmd, given>>

\* reset-game up to `await interaction.response.defer`; the handler keeps
\* the Game object it read.
ResetBegin(c, u, s, p) ==
    /\ cmd[c] = Idle
    /\ s \in allowed
    /\ \E id \in GameIds(s, p) :
          /\ games[id].owner = u \/ IsAdmin(u)
          /\ cmd' = [cmd EXCEPT ![c] = CmdRec("reset", "defer", games[id].owner,
                                              s, p, id, games[id].key)]
    /\ UNCHANGED <<allowed, games, nextId, loops, given>>

\* reset-game after defer: stop_sync_loop(game.id), rmtree, then
\* `await daemon.init_game(...)` with the key of the Game read before.
ResetClone(c) ==
    /\ cmd[c].op = "reset" /\ cmd[c].phase = "defer"
    /\ loops' = Without(loops, {cmd[c].id})
    /\ cmd' = [cmd EXCEPT ![c] = Cloning(c, cmd[c].key)]
    /\ UNCHANGED <<allowed, games, nextId, given>>

\* init_game raised: the error is replied and the loop is not restarted.
ResetCloneFail(c) ==
    /\ cmd[c].op = "reset" /\ cmd[c].phase = "clone"
    /\ cmd' = [cmd EXCEPT ![c] = Idle]
    /\ UNCHANGED <<allowed, games, nextId, loops, given>>

\* start_sync_loop(get_game(...)) for the row id
Start(id) == StartRow(id, games[id])

\* init_game returned: the issues are deleted, then get_game re-reads the
\* row by (server, place), which may be gone or be a new row, and starts it.
ResetRestart(c) ==
    /\ cmd[c].op = "reset" /\ cmd[c].phase = "clone"
    /\ cmd' = [cmd EXCEPT ![c] = Idle]
    /\ \/ GameIds(cmd[c].server, cmd[c].place) = {} /\ loops' = loops
       \/ \E id \in GameIds(cmd[c].server, cmd[c].place) : loops' = Start(id)
    /\ UNCHANGED <<allowed, games, nextId, given>>

\* on_ready (run at start and after each reconnect): start a loop for every
\* row whose server is allowed.
OnReady ==
    /\ loops' = [id \in DOMAIN loops \cup {j \in DOMAIN games : games[j].server \in allowed} |->
                    IF id \in DOMAIN loops THEN loops[id] ELSE games[id]]
    /\ UNCHANGED <<allowed, games, nextId, cmd, given>>

\* A loop task ends by an exception that escapes its handler (SyncLoop's
\* SendErrFail); its registry entry is then a done task.
LoopEnds(id) ==
    /\ id \in DOMAIN loops
    /\ loops' = Without(loops, {id})
    /\ UNCHANGED <<allowed, games, nextId, cmd, given>>

-----------------------------------------------------------------------------
Next ==
    \/ \E u \in Users, s \in Servers :
          \/ ApproveServer(u, s)
          \/ RevokeServer(u, s)
          \/ \E k \in Keys : SetApiKey(u, s, k)
          \/ \E p \in Places : RemoveGame(u, s, p)
          \/ \E c \in Slots, p \in Places : AddBegin(c, u, s, p) \/ ResetBegin(c, u, s, p)
    \/ \E c \in Slots :
          \/ AddNoChannel(c) \/ AddNoKey(c) \/ AddClone(c)
          \/ AddCloneFail(c) \/ AddInsert(c)
          \/ ResetClone(c) \/ ResetCloneFail(c) \/ ResetRestart(c)
    \/ OnReady
    \/ \E id \in Ids : LoopEnds(id)

Spec == Init /\ [][Next]_vars

-----------------------------------------------------------------------------
(* Properties *)

\* A game is only ever synced with a key its own owner supplied in its
\* server: set-api-key writes only the caller's rows, add-game copies the
\* key of the caller's own first row, and loops run on rows.  A mix-up of
\* owners anywhere along set-api-key, add-game's await or a reset would
\* hand one user's Roblox credential to another user's game.
KeyOwnership ==
    /\ \A id \in DOMAIN games :
          games[id].key \in given[<<games[id].owner, games[id].server>>]
    /\ \A id \in DOMAIN loops :
          loops[id].key \in given[<<loops[id].owner, loops[id].server>>]

\* Spec 8: a server never holds more than max_games_per_server games; the
\* count check of add-game runs before its awaits and the insert after them.
GamesWithinLimit ==
    \A s \in Servers : Cardinality(IdsOf(s)) <= MaxGames

\* Spec 3: a game exists from add-game to remove-game or revoke-server, and
\* the orchestrator runs loops only for games that exist: every live task of
\* _sync_tasks belongs to a games row.
LoopsOnlyForLiveGames ==
    \A id \in DOMAIN loops : id \in DOMAIN games

\* The task registry is keyed by games.id, and remove-game, reset-game and
\* revoke-server stop "the game's loop" by that id: every registered task
\* of a row that exists runs that row's server, place and owner (its key
\* may be older, set-api-key not restarting loops).  It fails if an id
\* once registered can name another row while its task lives.
LoopsRunOwnRow ==
    \A id \in DOMAIN loops \cap DOMAIN games :
        /\ loops[id].server = games[id].server
        /\ loops[id].place = games[id].place
        /\ loops[id].owner = games[id].owner

\* add-game answers "Please run /set-api-key first": a user who has run
\* set-api-key in the server is never refused for want of a key.
SetKeyThenAdd ==
    [][\A c \in Slots :
          AddNoKey(c) => given[<<cmd[c].user, cmd[c].server>>] = {}]_vars

-----------------------------------------------------------------------------
(* The tables seen as their contract (module GamesTable).                  *)
Table == INSTANCE GamesTable WITH rows <- games, next <- nextId

(* The commands, with their awaits and however they overlap, change the    *)
(* games and allowed_servers tables only by the atomic operations of       *)
(* GamesTable: approve (cascading to the games of a re-approved server),  *)
(* revoke with its cascade, set-api-key on the caller's own rows, an       *)
(* insert with a fresh id for an approved server and a free place with a   *)
(* key its owner supplied, and a delete of a game of an approved server.   *)
GamesTableRefined == Table!Spec

=============================================================================

# Formal model of the atlas daemon

This directory holds a TLA+ development for `src/tools/atlas-daemon/atlas_daemon`. That package is a Discord bot. For each monitored Roblox place it does the following:
- keeps a git working copy of the place;
- on a timer, pulls the published place into the working copy (`atlas syncback`);
- diffs it against the last commit and has changed scripts reviewed by a language-model service;
- posts the new findings to a Discord channel as issues that users can mark fixed;
- commits the working copy.

## The system and its parts

| Part | Source | What it does | State |
|------|--------|--------------|-------|
| Sync loop orchestrator | `daemon.py` | `_sync_loop` is one asyncio task per game. It also has `start_sync_loop`/`stop_sync_loop` (the `_sync_tasks` registry), `_auto_resolve`, `_update_resolved_embed`, `_post_issues`, `_send_error` and `_handle_error`. | Task registry; loop-local `changed_files` and findings. |
| State store | `db.py` | SQLite. Tables: `games` (incl. `last_error`, `error_count`), `issues` (AUTOINCREMENT id, `resolved`, `discord_message_id`, cascade on game delete), `allowed_servers` and `admins`. | The database. |
| Sync provider | `atlas_cli.py` | Subprocesses: `atlas clone`/`syncback`, and `git init/add/commit/diff`. `git_diff` and `git_diff_name_only` turn failures into empty results. | Working tree, git index, HEAD. |
| Review pipeline | `review.py` | Filters the diff to `.luau`/`.lua` files, calls the service (single pass or per file), and parses the JSON list of findings. | None (a pure function plus I/O). |
| Commands | `bot.py`, `discord_fmt.py` | The slash commands `add-game`, `remove-game`, `reset-game`, `set-api-key`, `approve/revoke-server`, `status` and `list-games`; `on_ready`; the `Mark Fixed` button of each issue message (a view with `timeout=None` that is never registered with `add_view`, so it does not survive a restart). | Reads and writes the database; starts and stops loops. |
| Credential codec, config | `security.py`, `config.py`, `__main__.py` | Fernet encryption of API keys; option parsing. | The process-wide key. |

These parts interact through the database and the task registry. Everything runs on one asyncio event loop, so the only interleaving is at `await` points. A command handler (remove, reset, Mark Fixed, on_ready) can run between any two awaits of any sync loop. Cancelling a loop raises `CancelledError` at the await where it is suspended. Its `except asyncio.CancelledError` clause then ends the task. `CancelledError` is not an `Exception` in Python 3.9 and later, so none of the `except Exception` handlers catches it.

## Modules

- **`SyncLoop.tla`** models one game: its sync loop, its rows of the database, its git repository and the commands that act on it.
  - `pc` says at which await the task is suspended: `"idle"` means no task is registered, and `"dead"` means the task ended by an exception.
  - Each loop action is one resumption. It runs from the completion of an awaited call to the next await, and it includes every synchronous database call on the way. For example:
    - `NamesDone` is `git diff --name-only` returning, then `_auto_resolve`.
    - `CommitOk` is `git commit` returning, then `update_last_sync`.
  - Every awaited call that can fail has an `…Ok` and a `…Fail` action, and each failure goes where the code sends it:
    - `SyncbackFail`, `PostFail` and `GitFail` go to the `except Exception` handler, `LoopError`. `GitFail` covers `git add` and `git commit` failing, and also `git diff HEAD` and `git diff --name-only` raising `TimeoutError` (from `wait_for`) or `OSError` (from `create_subprocess_exec`), which their wrappers do not catch.
    - `ReviewFail` goes to `_handle_error`, and the iteration goes on.
    - `DiffFail` and `NamesFail` are the `RuntimeError` of a non-zero exit, which the wrappers turn into empty results.
    - `SendErrFail` escapes the handler.
  - A failing syncback may have written any subset of the files.
  - Data is abstracted:
    - a file is a version number, where 0 means absent;
    - a finding is a `(file, title)` record;
    - a review response is a bag of findings, each listed once or, when `OracleMayRepeat`, twice;
    - an error is a model value.
  - `git diff HEAD` is modelled by what git does (`DiffFiles`): it lists the tracked paths whose working-tree content differs from HEAD. A path is tracked when it is in HEAD or in the index.
  - The commands are:
    - `OnReady`;
    - `RemoveGame`, which stops the loop and deletes the row, and the issues with it by cascade;
    - `ResetBegin`, which stops the loop and removes the tree, up to the await of `init_game`;
    - `ResetCloneOk`/`ResetCloneFail`, the end of that await. `resetting` counts resets in flight, because nothing stops two `reset-game` commands from overlapping.
    - `MarkFixed(j)`, which is enabled once the message of issue `j` has reached Discord (`shown`). `IssueButtons` carries the issue id, so the button works even when `channel.send` raised after delivering, or the task was cancelled before `update_issue_message_id` ran.
  - `Deliver` is the message of the in-flight issue reaching Discord while `channel.send` has not yet returned. `PostOk` (the send returns, then `update_issue_message_id`) sets both `shown` and `msg`. `PostFail` after `Deliver` leaves an issue with a button and no message id.
  - `RemoteEdit` is the environment: someone publishes an edit of the place.
- **`IssueLifecycle.tla`** is the abstract specification of one game's issues table, written from spec section 3 ("Finding"). Its state is `rows` (id to file, title, open, posted) and `next`. Its actions:
  - `Create(g)` records a finding whose key is not open;
  - `Post(j)` records the message of an open, unposted finding;
  - `PostThenCreate(j, g)` does both in one step, because `_post_issues` records one message and adds the next finding between the same two awaits;
  - `AutoResolve(F)` resolves every open finding on the files `F`;
  - `UserResolve(j)` resolves a finding that has a message;
  - `Clear` deletes every row.

  `SyncLoop` defines the mapping `Lifecycle == INSTANCE IssueLifecycle WITH rows <- ..., next <- nextId`. It maps each issue row to its key, `~resolved` and `shown` (posted means the message is rendered). `IssueLifecycleRefined == Lifecycle!Spec` is checked as a property.
- **`Server.tla`** models the command surface over all servers and games: `bot.py`'s commands, the `games` and `allowed_servers` tables of `db.py`, and the task registry of `daemon.py`.
  - A handler is split at the awaits that really suspend (`interaction.response.defer`, `daemon.init_game`).
  - Several `add-game`/`reset-game` commands can be in flight at once. Each holds a slot of `cmd` with the locals it carries across its awaits: user, server, place, game id and key.
  - `loops` maps a game id to the `Game` object its task was started with. The loop body is `SyncLoop`; here a loop only ends (`LoopEnds`).
  - SQLite semantics are modelled as the code triggers them:
    - `INSERT OR REPLACE` on an existing `allowed_servers` row deletes it, and the delete cascades to the server's games (`ReplaceCascade`);
    - `db.add_game` raising on a FOREIGN KEY or UNIQUE failure stores nothing (`AddInsert`'s else branch);
    - `user_games[0]` of a SELECT without ORDER BY is any of the user's rows;
    - `games.id` is AUTOINCREMENT: `nextId` only grows, so an id is never given twice.
  - `StartRow(id, r)` is `start_sync_loop`: it registers a task for `r` unless a live one is registered for `id`. add-game (`AddInsert`) and reset-game (`Start`) both go through it.
  - `given` is a history variable: the keys each user has supplied per server, through `set-api-key` or the initial rows.
- **`ReviewFilter.tla`** holds the text functions of `review.py` as operators over line sequences:
  - `split_diff_by_file` is a `FoldLeft` of `SplitStep`;
  - `extract_file_path`;
  - `filter_script_changes`, whose `"\n".join` becomes an empty line between chunks;
  - `ChunkedRequests`, the re-split and re-filter of `_review_chunked`.

  A line is abstracted to what the functions test: a `diff --git` line, a `+++` line with its path, an empty line, or any other line. The module generates every diff of up to `MaxLen` lines. Each diff is checked against a reference definition, `ReviewableSegments`, written from spec 4.4 with positions and `SubSeq`.
- **`GamesTable.tla`** is the contract of the `games` and `allowed_servers` tables of `db.py`, with no commands, awaits or loops. Its state is `allowed`, `rows` (id to server, place, owner and key), `next` (the AUTOINCREMENT sequence) and `given`. Each action is one atomic statement or handler segment:
  - `Approve` is `INSERT OR REPLACE`, cascading to the games of an already approved server;
  - `Revoke` is the delete, with its cascade;
  - `SetKey` is set-api-key's updates of the caller's rows;
  - `Insert` is `db.add_game`: an approved server, a place that server does not monitor yet, a key its owner supplied, and the next id;
  - `Remove` deletes a game of an approved server.

  Who acts is not visible in the tables, so the admin and owner checks stay guards of `Server` only. `Init` is any database that meets the schema (`TableOK /\ Consistent`). `Server` instantiates it as `Table` with `rows <- games` and `next <- nextId`.
- **`MC_SyncLoop.tla`**, **`MC_Server.tla`** and **`MC_ReviewFilter.tla`** hold the TLC instances.
- **`SyncLoop_proofs.tla`**, **`SyncLoop_refinement.tla`**, **`Server_proofs.tla`** and **`Server_refinement.tla`** hold the TLAPS proofs. `GamesTable.tla` holds its own theorem.

## Properties and runs

| Run | cfg | Expect | Checks |
|-----|-----|--------|--------|
| `sync_loop_safety` | `MC_SyncLoop.cfg` | pass, 3.7M states | `TypeOK`, `NoDuplicateOpen` |
| `issue_lifecycle` | `MC_SyncLoop_lifecycle.cfg` | pass, 283k states | `IssueLifecycleRefined` |
| `catch_up` | `MC_SyncLoop_live.cfg` | pass, 124k states | `CatchUp`, `FindingHistoryKept` (responses may repeat a finding) |
| `server_safety` | `MC_Server.cfg` | pass, 70k states | `KeyOwnership`, `LoopsRunOwnRow`, `GamesTableRefined` |
| `review_filter` | `MC_ReviewFilter.cfg` | pass, 19.5k diffs | `ChunksAreReviewableSegments` |
| `dup_batch` | `MC_SyncLoop_dup.cfg` | violation | `NoDuplicateOpen` when a response may repeat a finding |
| `loop_death` | `MC_SyncLoop_death.cfg` | violation | `LoopNeverDies` |
| `untracked_script` | `MC_SyncLoop_untracked.cfg` | violation | `CatchUp` when the script is created after the clone |
| `unposted_issue` | `MC_SyncLoop_unposted.cfg` | violation | `UnpostedOnlyInFlight` |
| `game_limit_race` | `MC_Server_limit.cfg` | violation | `GamesWithinLimit` |
| `reapprove_cascade` | `MC_Server_reapprove.cfg` | violation | `LoopsOnlyForLiveGames` |
| `first_key` | `MC_Server_firstkey.cfg` | violation | `SetKeyThenAdd` (from an empty database) |

The properties:
- **`NoDuplicateOpen`**: no two unresolved issues of the game share file and title. This is what `final_dedup` is for. To break it, some step must add an open row whose key is already open while another row with that key stays open. That takes several steps: auto-resolve, Mark Fixed, reset and failed posts can each change the open set between a review and its posting.
- **`CatchUp`**: if from some point on the loop keeps running on a working repository, then HEAD eventually equals the published place and stays equal.
- **`LoopNeverDies`**: the task never ends by an exception.
- **`IssueLifecycleRefined`**: every step of the loop and of the commands changes the issues table as one step of `IssueLifecycle`, or leaves it alone. This rules out several things:
  - creating a key that is open;
  - reopening an issue;
  - posting twice;
  - resolving through a message that does not exist;
  - an auto-resolve that misses an open issue of a changed file;
  - deleting some rows but not all.

  The run has one script file with three titles, `MaxVer = 3`, `MaxIssues = 4`, two overlapping resets and `MaxErrCount = 1`. Errors play no part in the issues table. Three titles on one file are what an auto-resolve needs to be told apart from a user resolution: for example, two issues with messages and one without, all on the changed file. Titles are opaque, so the run uses symmetry on them (`TitleSymmetry`). This is sound for this safety property because no action or property distinguishes two titles. With a second, non-script file it exceeded its time budget. That file's paths (the no-review branch) are covered by `sync_loop_safety` and `catch_up`. `Deliver` makes it possible to resolve an issue by its button while `channel.send` has not returned. The following `PostOk` then only sets the message id.
- **`FindingHistoryKept`** (action property): no step changes the key of an issue, un-shows its message or reopens it, and a new issue gets an id of at least `nextId`. Since every id given so far is below `nextId` (`TypeOK`), an id never names two findings. This matters because the Mark Fixed view resolves the `issue_db_id` it captured, and its message outlives reset-game, which deletes the rows. The operator is `IssueLifecycle!HistoryKept` under the mapping `Lifecycle`. When responses list each finding once, it follows from `IssueLifecycleRefined`. It is therefore checked in `catch_up`, where `OracleMayRepeat = TRUE` and the refinement does not hold (run `dup_batch`).
- **`UnpostedOnlyInFlight`**: the message of every unresolved issue has reached Discord, except the one `_post_issues` is sending.
- **`KeyOwnership`**: the key of every game row and of every running loop was supplied by the game's owner in the game's server. To break it, a key must cross between users. That could happen through `set-api-key`'s row filter, the key `add-game` picks before its await and stores after it, or the `Game` a reset holds across its await.
- **`LoopsRunOwnRow`**: every registered task of an existing row runs that row's server, place and owner. Its key may be older, because set-api-key restarts no loop. remove-game, reset-game and revoke-server stop tasks by `games.id`, so this is what makes them stop the loop of the game they act on. It fails if an id can name a second row while the first row's task lives. start_sync_loop would then keep the old task for the new row.
- **`GamesTableRefined`**: `Table!Spec`. The commands, however their awaits interleave, change the tables only by `GamesTable`'s operations. In particular, add-game's late insert happens only for an approved server and a free place, and only with a key the caller supplied. The revoke must also delete the server's games.
- **`GamesWithinLimit`**: no server has more than `max_games_per_server` games.
- **`LoopsOnlyForLiveGames`**: every registered task belongs to an existing games row.
- **`SetKeyThenAdd`** (action property): `add-game` refuses for want of a key only a user who never ran `set-api-key` in that server.
- **`ChunksAreReviewableSegments`**: `_review_chunked` sends exactly the reviewable per-file segments of the diff, in order and in full. The only addition is the one empty line that `"\n".join` leaves at the end of every chunk but the last. The generated diffs contain no empty line, because git writes a blank context line as `" \n"` (`GitLines`). An empty line of the input would otherwise be indistinguishable from a join separator.

Bounds and why they are enough:
- `Files = {f_script, f_json}` gives one file that is reviewed and one that is not. This separates `script_files` from `changed_files`.
- `Titles` gives two keys per file in the safety run.
- `MaxVer = 2` allows two edits per file, so a file can change again after being reviewed.
- `MaxIssues = 3` caps the id counter. It allows a batch, a resolution and a re-post.
- `MaxErrCount = 2` covers the "same error again" branch of the throttle.
- Server: one server, two users (one of them an admin), two places (three in the limit run) and two keys. There are two command slots, so two commands overlap, and `MaxGames = 2`. `MaxId = 3` allows one insert beyond the initial row, and 4 in the limit run. The initial database has one row owned by the non-admin user. Without it no game can ever be added (finding `first_key`), and every add-game path would be dead. Two servers took 3.9M states and four minutes without reaching a new kind of step. The cross-server cases (set-api-key, revoke) are per server in the code.
- ReviewFilter: diffs of up to 6 lines over one script path and one other path. This is enough for two script chunks around a non-script chunk, a preamble before the first `diff --git`, and chunks without a `+++` line.
- `MaxResets = 2` in the safety run allows two overlapping resets. The liveness run uses `MaxResets = 1` and one title to stay within its time budget. It still reaches a reset after issues were posted, and a response that lists a finding twice.
- `MaxErrCount` is a model bound on the throttle counter. `UpdateLastError` is disabled at that bound. The code's counter is unbounded, and the throttle reports at counts 1, 4 and every 12th repetition; with the bound of 2 only the first two branches are reached (see Plan).

Fairness:
- The loop task is weakly fair: the event loop resumes a ready task.
- The outcome of a reset is weakly fair: `init_game` returns or raises.
- The successful outcome of each external call (syncback, git, Discord sends) is strongly fair. A service that is repeatedly available is eventually used successfully. Without this, a loop that always fails is a legitimate behaviour, and `CatchUp` could not hold.
- Nothing is assumed of the user commands or of `RemoteEdit`.

Mutants show that each property of the passing runs can fail:
- `DedupSkipped` drops the `final_dedup` filter, and `NoDuplicateOpen` fails.
- `TakeOneNoDrop` leaves a posted finding in the batch, and `TypeOK` fails.
- `AfterEmbedsScriptsOnly` nests git add/commit under `if script_files:`, and `CatchUp` fails.
- `NamesDoneMsgOnly` auto-resolves only issues that already have a message, and `IssueLifecycleRefined` fails.
- `ResetCloneOkRenumber` makes reset-game also clear the issues' `AUTOINCREMENT` sequence (a `DELETE FROM sqlite_sequence`). The first issue after the reset then gets id 1 again, which an old message's button still carries, and `FindingHistoryKept` fails.
- `SetApiKeyAllRows` drops set-api-key's `added_by` test, and `KeyOwnership` fails.
- `AddInsertRowid` is the games table without `AUTOINCREMENT`, so SQLite gives a new row the largest id in the table plus one. TLC finds this trace:
  1. An add-game for p2 takes its key and awaits `init_game`.
  2. on_ready starts the task of row 1 (p1).
  3. A re-approval cascades row 1 away, and the task keeps running.
  4. The insert reuses id 1. `start_sync_loop` keeps the live task, which runs p1, and `LoopsRunOwnRow` fails.
- `RevokeNoCascade` is revoke-server on a connection without `PRAGMA foreign_keys=ON` (`db.py:102`). The server's games stay, and `GamesTableRefined` fails.
- `SplitStepLost` forgets to append the finished chunk, and `ChunksAreReviewableSegments` fails.

## Findings

1. **Duplicates within one response** (`daemon.py:103-106`). `final_dedup` only queries the database, and the rows are inserted later by `_post_issues`. So a response that lists a `(file, title)` twice creates two open issues. See run `dup_batch`.
2. **The loop dies on a failed error report** (`daemon.py:135`). `await _send_error(...)` inside `except Exception` has no handler of its own, so a Discord failure there ends the task. Nothing restarts the loop until the next `on_ready` or a `reset-game` of that game. See run `loop_death`.
3. **New scripts are invisible** (`atlas_cli.py:90`). `git diff HEAD` does not list untracked files. A script created on the place after the clone is never reviewed, and while it is the only change, nothing is committed at all. It is committed only by a later iteration in which a tracked file changes, and even then it is not reviewed, because `git diff` does not show it. See run `untracked_script`.

4. **An issue without a message** (`daemon.py:225`). `_post_issues` adds the row before sending its message. When the send raises before delivery, the issue stays unresolved with no message and no button. `final_dedup` then suppresses the finding in later reviews. The failure skips the commit, so the file stays in `git diff HEAD`, and the next successful iteration's `_auto_resolve` closes the issue. It stays open for good only if the change is reverted on the place before that. If the send raised after delivery, the message and its button exist, and only `discord_message_id` is missing. The spec assumes every persisted finding is notified and does not say what happens when the notification fails. See run `unposted_issue`.
5. **The game limit can be exceeded** (`bot.py:102`). The count check runs before `defer` and `init_game` are awaited, and the insert runs after them. See run `game_limit_race`.
6. **Re-approving a server deletes its games** (`db.py:130`). `INSERT OR REPLACE` deletes the existing `allowed_servers` row, and `ON DELETE CASCADE` deletes the server's games and issues. Their loops keep running, and `revoke-server` can no longer find them. See run `reapprove_cascade`.
7. **No first game can be added** (`bot.py:76`, `bot.py:123-134`). `set-api-key` stores nothing for a user without rows, and `add-game` takes the key from the user's rows. See run `first_key`.

Two further divergences were seen while modelling. No run is kept for them, because each is plain from the code:
- **Running loops keep the old key.** `set-api-key` replies that all games were updated, but each running loop uses the `Game` it was started with (`daemon.py:76`). In `Server` this is the `loops[id].key` of a running game differing from `games[id].key`.
- **`filter_script_changes` is not idempotent** (`review.py:71`), contrary to spec section 8. It joins newline-terminated chunks with `"\n"`, so every pass adds an empty line between kept chunks. This was confirmed by running the function on a two-script diff. The chunked review path is still correct, as run `review_filter` shows.

## What is proved

`SyncLoop_proofs.tla` proves the following with TLAPS, for all values of the constants that satisfy `ConstAssumption`:
- **`TypeCorrect`**: `Spec => []TypeOK`. Its lemmas are `TypeInit` and `TypeStep`, with one case per action, and helper lemmas about `AddIssue`, `TakeOne` and the empty tables.
- **`UniqueOpenIssues`**: under `~OracleMayRepeat`, `Spec => []NoDuplicateOpen`.

`NoDuplicateOpen` is not inductive. `PostOk` adds an open row for a finding chosen from `pending`, and nothing in the invariant says that this finding is not already open. The inductive invariant is `IInv == TypeOK /\ NoDuplicateOpen /\ PendingFresh`, where `PendingFresh` says that no finding still to post is an open key. TLC checked `PendingFresh` as an invariant before the proof. The argument:
- `final_dedup` establishes `PendingFresh` for the new batch.
- Auto-resolve, Mark Fixed and message-id updates only shrink the set of open keys (lemma `ResolveOnly`).
- Adding the next finding `g` keeps the open keys unique, and it adds exactly `g` (lemma `AddFresh`).
- Since `g` is removed from a batch in which it occurred once, the rest of the batch stays fresh.
- Remove and reset empty the table.

`SyncLoop_refinement.tla` proves **`IssueLifecycleRefinement`**: under `~OracleMayRepeat`, `Spec => IssueLifecycleRefined`.
- The initial table maps to the empty abstract table.
- Every step maps to an abstract step or a stutter, given the invariant `RInv == IInv /\ CurFresh`.
- `CurFresh` says that the issue whose message is in flight is unresolved as long as its message has not reached Discord. Only its own button can resolve it while the loop is in `_post_issues`, and the button exists only once the message is shown. It is needed for `Deliver`, and for a `PostOk` without a prior `Deliver`, to map to `Post` or `PostThenCreate`. A `PostOk` after `Deliver` maps to `Create` or to a stutter (lemma `AbsPostShown`).
- `PendingFresh` from `IInv` gives `Create`'s guard.
- The lemmas `AbsAdd`, `AbsPost`, `AbsShown` and `AbsClose` show that the mapping commutes with `add_issue`, `update_issue_message_id` and `resolve_issue`.
- Two overlapping resets can delete the in-flight issue. Then `PostOk`'s message update hits no row, and the step maps to `Create` or to a stutter.

`SyncLoop_refinement.tla` also proves **`FindingHistory`**: `Spec => FindingHistoryKept`, with no assumption on `OracleMayRepeat`. It needs only `TypeOK`.
- `RowKept(t, u)` says that every row of both tables keeps its key in `u`, and keeps its shown message and its resolution if `t` had them.
- Lemmas show that each helper that changes the table keeps `RowKept`: resolving a set of rows, `EXCEPT` with `Resolved`, `WithMessage` or `Shown`, `AddIssue` (whose id `nextId` is above every row by `TypeOK`), and emptying the table. `KeptTrans` composes them for `PostOk`, which updates the message and then adds a row.
- `HistoryStep` has one case per action that touches the table. Every other action leaves `issues` and `nextId` alone, which maps to an abstract stutter.

`Server_proofs.tla` proves **`ServerTypeCorrect`** (`Spec => []TypeOK`) and **`KeysStayWithOwners`** (`Spec => []KeyOwnership`), for all values of the constants that satisfy `ServerAssumption`.
- `KeyOwnership` is not inductive on its own: `AddInsert` stores the key that the command took before its await.
- The inductive invariant adds `CmdKeysOwned`: an add-game in its clone phase carries a key its user supplied in its server. `given` only grows, so the key stays owned.
- There is one case per action.
- Lemmas about `Put`, `Without` and `WithKey` carry the typing and the key facts through the table updates.

`Server_proofs.tla` also proves **`LoopsStayWithRows`** (`Spec => []LoopsRunOwnRow`).
- The property is not inductive. add-game's `start_sync_loop` keeps a live task registered under the new id, if there is one.
- The inductive invariant `OwnInv` adds `IdsIssued`: every id of a row or of a task is below `nextId`. Then the id `AddInsert` uses is free in both tables, and the step registers the new row itself.
- The proof uses `TypeOK` from `ServerTypeCorrect`.
- Every other step only drops rows or tasks, rekeys rows, or registers tasks of existing rows. The lemma `OwnFrame` covers all of those at once.
- The theorem holds for any number of servers. In the one-server runs an add-game after a re-approval cascade is reached only through a command that took its key before the cascade, since the cascade leaves no row to take a key from (finding `first_key`). The `AddInsertRowid` trace is such a run. The proof also covers the cases with several servers, such as a new row of another server added while a task of a cascaded row still runs.

`GamesTable.tla` proves **`TableConsistent`**: `Spec => [](TableOK /\ Consistent)`. Its step lemma `TableStep` has one case per operation. Every game belongs to an approved server, no server monitors a place twice, and every key was supplied by its owner in its server. `Init` assumes exactly the invariant, so the invariant is inductive as it stands.

`Server_refinement.tla` proves **`ServerImplementsTable`**: `Spec => GamesTableRefined`, the property the `server_safety` run checks.
- `TableInit`: the initial database meets the contract. The FOREIGN KEY and UNIQUE facts are conjuncts of `ServerAssumption`, and the keys come from `InitGiven`.
- `TableStep`: under `IInv` from `Server_proofs`, each step is a table step or a stutter:
  - approve maps to `Approve`, revoke to `Revoke`, set-api-key to `SetKey`, and remove-game to `Remove` of the id it found;
  - `AddInsert` maps to `Insert` when the row is stored. Its key is in `given` because of `CmdKeysOwned`, the strengthening that `KeysStayWithOwners` needed. The place is free because `GameIds(s, p) = {}`;
  - every other step leaves `allowed`, `games`, `nextId` and `given` alone.
- **`ServerTableConsistent`** follows from the refinement and `TableConsistent`: the daemon's tables keep the FOREIGN KEY, the UNIQUE constraint and key ownership in every reachable state.

## Only model-checked, and not modelled

Only model-checked:
- `CatchUp` is a liveness property, and TLAPS does not handle liveness under fairness here. It is checked by TLC only.
- The three violations are TLC counterexamples.

Only model-checked, continued:
- `ReviewFilter` uses `FoldLeft` and `SelectInSeq` of the community modules. These are RECURSIVE, so ReviewFilter's correctness against the reference is checked by TLC over all diffs up to 6 lines and is not proved.

Not modelled:
- `parse_issues` (JSON extraction from the service's text) and the token estimate. Their output is covered by the nondeterministic review response.
- `str.splitlines`, which also breaks lines at `\r`, `\x0b`, `\x0c`, `\x1c`-`\x1e`, `\x85`, `\u2028` and `\u2029`. A diff line holding one of these is split in two by `split_diff_by_file`. The model takes git's output as its newline-separated lines.
- The `status` and `list-games` commands and the Copy Context button only read.
- Several games sharing one loop model: `Server` covers the commands across games, and `SyncLoop` covers one game's loop. Their composition is by the registry only (`loops` in Server is `pc` in SyncLoop).
- The subprocess that keeps running after a `wait_for` timeout.
- A process restart: the volatile encryption key, which spec 4.1 accepts when none is configured, and the Mark Fixed buttons, which are not re-registered with `add_view`.
- `ResetBegin` requires the row at the moment it stops the loop. In the code, a remove-game can run during reset-game's `defer`, before `stop_sync_loop` and `rmtree`. remove-game does not touch the tree, so that order ends in the same state as `ResetBegin` followed by `RemoveGame`. Nothing reads the tree of a removed game in between. The model keeps only the second order.
- The authorization that Mark Fixed does not re-check: who presses the button is not part of either model.

## Plan

1. The error throttle: a run with `MaxErrCount >= 12`, and a property on how often a persistent review-service error is reported.
2. Issue lifecycle properties that need history variables: auto-resolve happens only when the file changed (the commit-failure replay), and every committed script change was reviewed (the `--name-only` failure).
3. A process restart in `Server`: loops restarted by `on_ready`, and the buttons lost.

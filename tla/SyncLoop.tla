------------------------------ MODULE SyncLoop ------------------------------
(***************************************************************************)
(* The per-game sync loop of atlas_daemon (daemon.py _sync_loop) for one   *)
(* monitored game, together with the rows of the database it reads and     *)
(* writes (db.py: issues, last_error, error_count), the git repository of  *)
(* the game's working directory (atlas_cli.py), and the user commands of   *)
(* bot.py that stop and restart the loop (remove-game, reset-game, the     *)
(* on_ready restart) or resolve an issue (the "Mark Fixed" button of       *)
(* discord_fmt.py).                                                        *)
(*                                                                         *)
(* The loop is an asyncio task.  Each loop action below is one resumption  *)
(* of the task: it starts when an awaited call completes and runs to the   *)
(* next await.  Between two resumptions any other actor may take a step.   *)
(* Cancelling the task (stop_sync_loop) takes effect at its next           *)
(* resumption and performs no side effect there, so it is modelled as the  *)
(* task ending at once.                                                    *)
(*                                                                         *)
(* Data is abstracted: a file's content is a version number (0 = the file  *)
(* does not exist), a finding is a (file, title) pair, an error is a model *)
(* value standing for its message text.                                    *)
(***************************************************************************)
EXTENDS Naturals, FiniteSets

CONSTANTS
    Files,            \* paths of the game's project
    Reviewable,       \* paths ending in .luau or .lua (REVIEWABLE_EXTENSIONS)
    InitFiles,        \* paths present when the game was cloned
    Titles,           \* finding titles the review service may produce
    ErrMsgs,          \* distinct exception texts a failing step may raise
    NoError,          \* last_error IS NULL
    MaxVer,           \* bound on the number of edits of one remote file
    MaxIssues,        \* bound on the AUTOINCREMENT id of the issues table
    MaxErrCount,      \* bound on error_count
    MaxResets,        \* bound on reset-game commands in flight at once
    OracleMayRepeat   \* whether one review response may list a finding twice

ASSUME ConstAssumption ==
    /\ Reviewable \subseteq Files
    /\ InitFiles \subseteq Files
    /\ NoError \notin ErrMsgs
    /\ MaxVer \in Nat \ {0}
    /\ MaxIssues \in Nat
    /\ MaxErrCount \in Nat \ {0}
    /\ MaxResets \in Nat
    /\ OracleMayRepeat \in BOOLEAN

VARIABLES
    remote,      \* the place as published on Roblox: file -> version
    wd,          \* the game's working directory
    index,       \* the git index of the working directory
    head,        \* the git HEAD commit
    issues,      \* issues table: id -> [file, title, resolved, msg, shown]
    nextId,      \* next AUTOINCREMENT id of the issues table
    lastError,   \* games.last_error
    errorCount,  \* games.error_count
    pc,          \* where the loop task is suspended ("idle": no task)
    changed,     \* _sync_loop local changed_files
    pending,     \* _post_issues: findings still to persist and post (bag)
    cur,         \* _post_issues: id of the issue whose message is in flight
    gameExists,  \* the games row exists
    resetting,   \* reset-game commands between their stop and their re-clone
    repo         \* the working directory holds a git repository with a HEAD

vars == <<remote, wd, index, head, issues, nextId, lastError, errorCount,
          pc, changed, pending, cur, gameExists, resetting, repo>>

Versions == 0..MaxVer

Finding == [file : Files, title : Titles]

(***************************************************************************)
(* An issue row: its key, resolved, msg (discord_message_id is set) and    *)
(* shown, which is not a column: the issue's message, with its Mark Fixed  *)
(* button, has reached Discord.  channel.send may deliver it and still     *)
(* raise, or the task may be cancelled before update_issue_message_id.     *)
(***************************************************************************)
IssueRec == [file : Files, title : Titles, resolved : BOOLEAN, msg : BOOLEAN,
             shown : BOOLEAN]

LoopPcs == {"wait", "syncback", "diff", "names", "embeds", "review",
            "summary", "post", "add", "commit", "senderr", "sleep"}

Pcs == LoopPcs \cup {"idle", "dead"}

(***************************************************************************)
(* git diff HEAD (atlas_cli.git_diff, git_diff_name_only): the paths that  *)
(* differ between HEAD and the working tree, among the paths git tracks    *)
(* (in HEAD or in the index).  Untracked new files are not listed.         *)
(***************************************************************************)
Tracked(f) == head[f] # 0 \/ index[f] # 0

DiffFiles == {f \in Files : Tracked(f) /\ wd[f] # head[f]}

(***************************************************************************)
(* Unresolved issues and their (file, title) keys.                         *)
(***************************************************************************)
OpenIds == {j \in DOMAIN issues : ~issues[j].resolved}

KeyOf(j) == [file |-> issues[j].file, title |-> issues[j].title]

OpenKeys == {KeyOf(j) : j \in OpenIds}

(***************************************************************************)
(* A review response: a bag of findings, each listed once, or up to twice  *)
(* when OracleMayRepeat.                                                   *)
(***************************************************************************)
MaxRepeat == IF OracleMayRepeat THEN 2 ELSE 1

Responses == UNION {[S -> 1..MaxRepeat] : S \in SUBSET Finding}

\* Variant of Dedup for a loop that posts every finding of the response
\* without calling final_dedup.
DedupSkipped(resp) == resp

(***************************************************************************)
(* final_dedup: keep the findings of the response that are not already an *)
(* unresolved issue of the game.                                           *)
(***************************************************************************)
Dedup(resp) == [g \in {h \in DOMAIN resp : h \notin OpenKeys} |-> resp[g]]

(***************************************************************************)
(* db.add_issue for finding g: a new unresolved row, no message id yet.    *)
(***************************************************************************)
AddIssue(tbl, g) ==
    [j \in DOMAIN tbl \cup {nextId} |->
        IF j = nextId
        THEN [file |-> g.file, title |-> g.title, resolved |-> FALSE,
              msg |-> FALSE, shown |-> FALSE]
        ELSE tbl[j]]

\* Variant of TakeOne that lowers the count of g but never drops an
\* exhausted finding from the bag.
TakeOneNoDrop(b, g) == [b EXCEPT ![g] = @ - 1]

\* Take one copy of g out of the bag of findings still to post.
TakeOne(b, g) ==
    IF b[g] = 1 THEN [h \in DOMAIN b \ {g} |-> b[h]]
                ELSE [b EXCEPT ![g] = @ - 1]

\* Issue row r after db.resolve_issue; after channel.send returned and
\* update_issue_message_id; and once its message has reached Discord.
Resolved(r) ==
    [file |-> r.file, title |-> r.title, resolved |-> TRUE, msg |-> r.msg,
     shown |-> r.shown]

WithMessage(r) ==
    [file |-> r.file, title |-> r.title, resolved |-> r.resolved, msg |-> TRUE,
     shown |-> TRUE]

Shown(r) ==
    [file |-> r.file, title |-> r.title, resolved |-> r.resolved, msg |-> r.msg,
     shown |-> TRUE]

NoIssues == [j \in {} |-> [file |-> 0]]

EmptyBag == [g \in {} |-> 1]

TypeOK ==
    /\ remote \in [Files -> Versions]
    /\ wd \in [Files -> Versions]
    /\ index \in [Files -> Versions]
    /\ head \in [Files -> Versions]
    /\ nextId \in Nat \ {0}
    /\ DOMAIN issues \subseteq 1..(nextId - 1)
    /\ issues \in [DOMAIN issues -> IssueRec]
    /\ lastError \in ErrMsgs \cup {NoError}
    /\ errorCount \in 0..MaxErrCount
    /\ pc \in Pcs
    /\ changed \subseteq Files
    /\ DOMAIN pending \subseteq Finding
    /\ pending \in [DOMAIN pending -> 1..MaxRepeat]
    /\ cur \in Nat
    /\ gameExists \in BOOLEAN
    /\ resetting \in 0..MaxResets
    /\ repo \in BOOLEAN

\* No finding still to post is already an unresolved issue of the game.
PendingFresh == \A g \in DOMAIN pending : g \notin OpenKeys

Init ==
    /\ remote = [f \in Files |-> IF f \in InitFiles THEN 1 ELSE 0]
    /\ wd = remote
    /\ index = remote
    /\ head = remote
    /\ issues = NoIssues
    /\ nextId = 1
    /\ lastError = NoError
    /\ errorCount = 0
    /\ pc = "wait"
    /\ changed = {}
    /\ pending = EmptyBag
    /\ cur = 0
    /\ gameExists = TRUE
    /\ resetting = 0
    /\ repo = TRUE

-----------------------------------------------------------------------------
(***************************************************************************)
(* The environment: someone publishes an edit of file f of the place.      *)
(***************************************************************************)
RemoteEdit(f) ==
    /\ remote[f] < MaxVer
    /\ remote' = [remote EXCEPT ![f] = @ + 1]
    /\ UNCHANGED <<wd, index, head, issues, nextId, lastError, errorCount,
                   pc, changed, pending, cur, gameExists, resetting, repo>>

(***************************************************************************)
(* The except-Exception handler of _sync_loop for error e: update_last_error*)
(* then, when it says so, await _send_error; otherwise go to the sleep.    *)
(***************************************************************************)
ThrottleCount(e) == IF lastError = e THEN errorCount + 1 ELSE 1

ShouldReport(e) ==
    IF lastError = e THEN ThrottleCount(e) = 1 \/ ThrottleCount(e) % 12 = 0
                     ELSE TRUE

UpdateLastError(e) ==
    /\ ThrottleCount(e) <= MaxErrCount
    /\ lastError' = e
    /\ errorCount' = ThrottleCount(e)

LoopError ==
    \E e \in ErrMsgs :
        /\ UpdateLastError(e)
        /\ pc' = IF ShouldReport(e) THEN "senderr" ELSE "sleep"

\* Loop variables other than pc keep their values.
LoopLocalsUnchanged == UNCHANGED <<changed, pending, cur>>

\* bot.wait_until_ready() returns; the first iteration decrypts the key and
\* starts atlas syncback.
WaitReady ==
    /\ pc = "wait"
    /\ pc' = "syncback"
    /\ UNCHANGED <<remote, wd, index, head, issues, nextId, lastError,
                   errorCount, changed, pending, cur, gameExists, resetting, repo>>

\* atlas syncback --incremental returns 0: the working directory now holds
\* the published place; the loop awaits git diff HEAD.
SyncbackOk ==
    /\ pc = "syncback"
    /\ wd' = remote
    /\ pc' = "diff"
    /\ UNCHANGED <<remote, index, head, issues, nextId, lastError, errorCount,
                   changed, pending, cur, gameExists, resetting, repo>>

\* atlas syncback exits non-zero or times out after writing some files.
SyncbackFail ==
    /\ pc = "syncback"
    /\ \E w \in [Files -> Versions] :
          /\ \A f \in Files : w[f] \in {wd[f], remote[f]}
          /\ wd' = w
    /\ LoopError
    /\ UNCHANGED <<remote, index, head, issues, nextId, changed, pending, cur,
                   gameExists, resetting, repo>>

\* git diff HEAD returns; an empty diff skips to the sleep.
DiffOk ==
    /\ pc = "diff"
    /\ repo
    /\ pc' = IF DiffFiles = {} THEN "sleep" ELSE "names"
    /\ UNCHANGED <<remote, wd, index, head, issues, nextId, lastError,
                   errorCount, changed, pending, cur, gameExists, resetting, repo>>

\* git diff HEAD exits non-zero: git_diff turns the RuntimeError into "",
\* and the loop goes to the sleep.
DiffFail ==
    /\ pc = "diff"
    /\ pc' = "sleep"
    /\ UNCHANGED <<remote, wd, index, head, issues, nextId, lastError,
                   errorCount, changed, pending, cur, gameExists, resetting, repo>>

\* Variant of AfterEmbeds with git add and git commit nested under
\* "if script_files:", so that an iteration with no script change
\* commits nothing.
AfterEmbedsScriptsOnly(ch) == IF ch \cap Reviewable # {} THEN "review" ELSE "sleep"

\* After the resolved embeds are updated: review when a script changed,
\* otherwise go on to git add.
AfterEmbeds(ch) == IF ch \cap Reviewable # {} THEN "review" ELSE "add"

\* Variant of NamesDone whose auto-resolve only touches issues that
\* already have a Discord message.
NamesDoneMsgOnly(ch) ==
    LET hit == {j \in OpenIds : issues[j].file \in ch /\ issues[j].msg}
    IN  /\ pc = "names"
        /\ changed' = ch
        /\ issues' = [j \in DOMAIN issues |->
                        IF j \in hit THEN Resolved(issues[j])
                                     ELSE issues[j]]
        /\ pc' = IF hit # {} THEN "embeds" ELSE AfterEmbeds(ch)
        /\ UNCHANGED <<remote, wd, index, head, nextId, lastError, errorCount,
                       pending, cur, gameExists, resetting, repo>>

\* git diff HEAD --name-only returns ch (or [] when git fails); _auto_resolve
\* resolves every unresolved issue on a changed file, then the loop awaits
\* _update_resolved_embed for those that have a message.
NamesDone(ch) ==
    LET hit == {j \in OpenIds : issues[j].file \in ch}
    IN  /\ pc = "names"
        /\ changed' = ch
        /\ issues' = [j \in DOMAIN issues |->
                        IF j \in hit THEN Resolved(issues[j])
                                     ELSE issues[j]]
        /\ pc' = IF \E j \in hit : issues[j].msg THEN "embeds"
                                                ELSE AfterEmbeds(ch)
        /\ UNCHANGED <<remote, wd, index, head, nextId, lastError, errorCount,
                       pending, cur, gameExists, resetting, repo>>

NamesOk == NamesDone(DiffFiles)

NamesFail == NamesDone({})

\* The awaits of _update_resolved_embed return (their failures are swallowed).
EmbedsDone ==
    /\ pc = "embeds"
    /\ pc' = AfterEmbeds(changed)
    /\ UNCHANGED <<remote, wd, index, head, issues, nextId, lastError,
                   errorCount, changed, pending, cur, gameExists, resetting, repo>>

\* review_diff returns findings resp; final_dedup keeps the new ones; if any,
\* _post_issues awaits the summary message, unless get_channel finds no
\* text channel, when it returns and drops them; then git add follows.
ReviewOk ==
    /\ pc = "review"
    /\ \E resp \in Responses, channel \in BOOLEAN :
          LET new == Dedup(resp) IN
          /\ nextId + MaxRepeat * Cardinality(DOMAIN resp) <= MaxIssues + 1
          /\ pc' = IF DOMAIN new = {} \/ ~channel THEN "add" ELSE "summary"
          /\ pending' = new
    /\ UNCHANGED <<remote, wd, index, head, issues, nextId, lastError,
                   errorCount, changed, cur, gameExists, resetting, repo>>

\* review_diff raises (single-pass API failure): _handle_error records the
\* error and the iteration goes on with no findings.
ReviewFail ==
    /\ pc = "review"
    /\ \E e \in ErrMsgs : UpdateLastError(e)
    /\ pc' = "add"
    /\ UNCHANGED <<remote, wd, index, head, issues, nextId, changed, pending,
                   cur, gameExists, resetting, repo>>

\* A message send of _post_issues returns; the loop persists the next
\* finding with db.add_issue and awaits its message, or, when none is left,
\* returns from _post_issues and awaits git add.
PostNext(tbl) ==
    IF DOMAIN pending = {}
    THEN /\ issues' = tbl
         /\ pc' = "add"
         /\ UNCHANGED <<pending, nextId, cur>>
    ELSE \E g \in DOMAIN pending :
         /\ issues' = AddIssue(tbl, g)
         /\ cur' = nextId
         /\ nextId' = nextId + 1
         /\ pending' = TakeOne(pending, g)
         /\ pc' = "post"

SummaryOk ==
    /\ pc = "summary"
    /\ PostNext(issues)
    /\ UNCHANGED <<remote, wd, index, head, lastError, errorCount, changed,
                   gameExists, resetting, repo>>

\* The issue message is sent: update_issue_message_id, then the next one.
PostOk ==
    /\ pc = "post"
    /\ PostNext([issues EXCEPT ![cur] = WithMessage(@)])
    /\ UNCHANGED <<remote, wd, index, head, lastError, errorCount, changed,
                   gameExists, resetting, repo>>

\* channel.send raises: the exception leaves _post_issues for the handler.
PostFail ==
    /\ pc \in {"summary", "post"}
    /\ LoopError
    /\ UNCHANGED <<remote, wd, index, head, issues, nextId, changed, pending,
                   cur, gameExists, resetting, repo>>

\* git add . returns; the loop awaits git commit.
AddOk ==
    /\ pc = "add"
    /\ repo
    /\ index' = wd
    /\ pc' = "commit"
    /\ UNCHANGED <<remote, wd, head, issues, nextId, lastError, errorCount,
                   changed, pending, cur, gameExists, resetting, repo>>

\* git commit --allow-empty returns; db.update_last_sync clears the error.
CommitOk ==
    /\ pc = "commit"
    /\ repo
    /\ head' = index
    /\ lastError' = NoError
    /\ errorCount' = 0
    /\ pc' = "sleep"
    /\ UNCHANGED <<remote, wd, index, issues, nextId, changed, pending, cur,
                   gameExists, resetting, repo>>

\* A git subprocess raises out of its wrapper: git add or git commit exits
\* non-zero or times out; git diff HEAD and git diff --name-only catch only
\* RuntimeError (a non-zero exit), so a wait_for TimeoutError or an OSError
\* of create_subprocess_exec reaches the loop's handler.
GitFail ==
    /\ pc \in {"diff", "names", "add", "commit"}
    /\ LoopError
    /\ UNCHANGED <<remote, wd, index, head, issues, nextId, changed, pending,
                   cur, gameExists, resetting, repo>>

\* _send_error returns (or finds no channel): the loop awaits its sleep.
SendErrOk ==
    /\ pc = "senderr"
    /\ pc' = "sleep"
    /\ UNCHANGED <<remote, wd, index, head, issues, nextId, lastError,
                   errorCount, changed, pending, cur, gameExists, resetting, repo>>

\* channel.send raises inside the except handler: nothing catches it and
\* the task ends.
SendErrFail ==
    /\ pc = "senderr"
    /\ pc' = "dead"
    /\ UNCHANGED <<remote, wd, index, head, issues, nextId, lastError,
                   errorCount, changed, pending, cur, gameExists, resetting, repo>>

\* asyncio.sleep(sync_interval) returns: the next iteration starts.
Wake ==
    /\ pc = "sleep"
    /\ pc' = "syncback"
    /\ UNCHANGED <<remote, wd, index, head, issues, nextId, lastError,
                   errorCount, changed, pending, cur, gameExists, resetting, repo>>

-----------------------------------------------------------------------------
(***************************************************************************)
(* Commands.  start_sync_loop creates a task unless a live one is          *)
(* registered; stop_sync_loop pops and cancels it.                         *)
(***************************************************************************)
StartSyncLoop ==
    pc' = IF pc \in {"idle", "dead"} THEN "wait" ELSE pc

StopSyncLoop ==
    /\ pc' = "idle"
    /\ changed' = {}
    /\ pending' = EmptyBag
    /\ cur' = 0

\* on_ready (fired again on every reconnect) starts a loop for the game.
OnReady ==
    /\ gameExists
    /\ pc \in {"idle", "dead"}
    /\ StartSyncLoop
    /\ UNCHANGED <<remote, wd, index, head, issues, nextId, lastError,
                   errorCount, changed, pending, cur, gameExists, resetting, repo>>

\* remove-game: stop_sync_loop, then DELETE the games row (issues cascade).
RemoveGame ==
    /\ gameExists
    /\ StopSyncLoop
    /\ gameExists' = FALSE
    /\ issues' = NoIssues
    /\ UNCHANGED <<remote, wd, index, head, nextId, lastError, errorCount,
                   resetting, repo>>

\* reset-game, up to the await of init_game: stop_sync_loop, rmtree.
ResetBegin ==
    /\ gameExists
    /\ resetting < MaxResets
    /\ StopSyncLoop
    /\ wd' = [f \in Files |-> 0]
    /\ index' = [f \in Files |-> 0]
    /\ head' = [f \in Files |-> 0]
    /\ resetting' = resetting + 1
    /\ repo' = FALSE
    /\ UNCHANGED <<remote, issues, nextId, lastError, errorCount, gameExists>>

\* Variant of ResetCloneOk that also clears the AUTOINCREMENT sequence of
\* the issues table (DELETE FROM sqlite_sequence), so that the game's new
\* issues are numbered from 1 again.
ResetCloneOkRenumber ==
    /\ resetting > 0
    /\ resetting' = resetting - 1
    /\ wd' = remote
    /\ index' = remote
    /\ head' = remote
    /\ repo' = TRUE
    /\ IF gameExists
       THEN /\ issues' = NoIssues
            /\ nextId' = 1
            /\ lastError' = NoError
            /\ errorCount' = 0
            /\ StartSyncLoop
       ELSE UNCHANGED <<issues, nextId, lastError, errorCount, pc>>
    /\ UNCHANGED <<remote, changed, pending, cur, gameExists>>

\* init_game returns: clone, git init, add, commit "Initial sync".  The
\* command then deletes the game's issues, clears its sync fields and, if
\* get_game still finds the row, starts the loop.
ResetCloneOk ==
    /\ resetting > 0
    /\ resetting' = resetting - 1
    /\ wd' = remote
    /\ index' = remote
    /\ head' = remote
    /\ repo' = TRUE
    /\ IF gameExists
       THEN /\ issues' = NoIssues
            /\ lastError' = NoError
            /\ errorCount' = 0
            /\ StartSyncLoop
       ELSE UNCHANGED <<issues, lastError, errorCount, pc>>
    /\ UNCHANGED <<remote, nextId, changed, pending, cur, gameExists>>

\* init_game raises: the command reports it and returns; no loop is started.
ResetCloneFail ==
    /\ resetting > 0
    /\ resetting' = resetting - 1
    /\ wd' \in {wd, remote}
    /\ UNCHANGED <<remote, index, head, issues, nextId, lastError, errorCount,
                   pc, changed, pending, cur, gameExists, repo>>

\* channel.send of _post_issues has delivered the message of issue cur,
\* with its Mark Fixed button, and has not returned yet.
Deliver ==
    /\ pc = "post"
    /\ cur \in DOMAIN issues
    /\ ~issues[cur].shown
    /\ issues' = [issues EXCEPT ![cur] = Shown(@)]
    /\ UNCHANGED <<remote, wd, index, head, nextId, lastError, errorCount,
                   pc, changed, pending, cur, gameExists, resetting, repo>>

\* The "Mark Fixed" button of issue j's message: db.resolve_issue(j).
\* IssueButtons holds the issue id, so whether update_issue_message_id ran
\* does not matter.
MarkFixed(j) ==
    /\ j \in DOMAIN issues
    /\ issues[j].shown
    /\ issues' = [issues EXCEPT ![j] = Resolved(@)]
    /\ UNCHANGED <<remote, wd, index, head, nextId, lastError, errorCount,
                   pc, changed, pending, cur, gameExists, resetting, repo>>

-----------------------------------------------------------------------------
LoopStep ==
    \/ WaitReady
    \/ SyncbackOk \/ SyncbackFail
    \/ DiffOk \/ DiffFail
    \/ NamesOk \/ NamesFail
    \/ EmbedsDone
    \/ ReviewOk \/ ReviewFail
    \/ SummaryOk \/ PostOk \/ PostFail
    \/ AddOk \/ CommitOk \/ GitFail
    \/ SendErrOk \/ SendErrFail
    \/ Wake

Next ==
    \/ LoopStep
    \/ \E f \in Files : RemoteEdit(f)
    \/ OnReady
    \/ RemoveGame
    \/ ResetBegin
    \/ ResetCloneOk \/ ResetCloneFail
    \/ Deliver
    \/ \E j \in DOMAIN issues : MarkFixed(j)

(***************************************************************************)
(* Fairness.  asyncio resumes a task whose await has completed, and every  *)
(* await of the loop is bounded (subprocess timeouts of 600 s, the HTTP    *)
(* clients' timeouts, the sleep), so the loop is weakly fair, as is the    *)
(* reset command's init_game.  The external services are assumed not to    *)
(* fail forever: each successful outcome is strongly fair.                 *)
(***************************************************************************)
Fairness ==
    /\ WF_vars(LoopStep)
    /\ WF_vars(ResetCloneOk \/ ResetCloneFail)
    /\ SF_vars(SyncbackOk) /\ SF_vars(DiffOk) /\ SF_vars(NamesOk)
    /\ SF_vars(SummaryOk) /\ SF_vars(PostOk)
    /\ SF_vars(AddOk) /\ SF_vars(CommitOk)

Spec == Init /\ [][Next]_vars

FairSpec == Spec /\ Fairness

-----------------------------------------------------------------------------
(***************************************************************************)
(* Properties.                                                             *)
(***************************************************************************)

(* The spec's finding invariant (spec section 3), relied on by the dedup   *)
(* of _sync_loop (final_dedup) and by the posting of _post_issues: no two  *)
(* unresolved issues of the game have the same (file, title).              *)
NoDuplicateOpen ==
    \A i, j \in OpenIds : KeyOf(i) = KeyOf(j) => i = j

(* Spec 4.5 step 4 persists and then notifies each surviving finding, and  *)
(* 4.6 resolves a finding by user action through its rendered message: an  *)
(* unresolved issue has reached Discord, with its Mark Fixed button,       *)
(* except the one whose message _post_issues is sending (add_issue, then   *)
(* send, then update_issue_message_id).                                    *)
UnpostedOnlyInFlight ==
    \A j \in OpenIds : issues[j].shown \/ (pc = "post" /\ j = cur)

(* The issues table seen as spec 3 describes it (module IssueLifecycle): *)
(* a row's key, whether it is unresolved, whether its message has been    *)
(* rendered in Discord.                                                    *)
Lifecycle == INSTANCE IssueLifecycle WITH
    rows <- [j \in DOMAIN issues |->
                [file |-> issues[j].file, title |-> issues[j].title,
                 open |-> ~issues[j].resolved, posted |-> issues[j].shown]],
    next <- nextId

(* The loop (final_dedup, _post_issues, _auto_resolve), Mark Fixed,        *)
(* remove-game and reset-game together change the issues table only as    *)
(* the finding lifecycle of spec 3 allows: creation only of keys not open, *)
(* a message only for an open unposted issue, auto-resolution of every     *)
(* open issue of the changed files, user resolution only through a posted  *)
(* message, no reopening, deletion only of the whole table.                *)
IssueLifecycleRefined == Lifecycle!Spec

(* The Mark Fixed button of an issue's message carries the issue id        *)
(* (discord_fmt.IssueButtons) and outlives reset-game, which deletes the   *)
(* rows but not the messages.  Every step of the loop and the commands      *)
(* keeps the history of the issues table: a row keeps its (file, title), a *)
(* message id stays set, a resolved issue is never reopened, and a row      *)
(* that appears gets an id no earlier row had (issues.id AUTOINCREMENT).    *)
FindingHistoryKept == [][Lifecycle!HistoryKept]_Lifecycle!vars

(* The loop is running: a task is registered and has not ended.            *)
Running == pc \in LoopPcs

(* Progress of the sync loop (_sync_loop's iteration as a whole): if the   *)
(* loop keeps running on a working directory that holds a repository, the  *)
(* published place is eventually committed in its git history and stays   *)
(* so.                                                                     *)
CatchUp == <>[](Running /\ repo) => <>[](head = remote)

(* The spec (section 4.5 step 6): no exception terminates the loop, only  *)
(* cancellation does.                                                      *)
LoopNeverDies == pc # "dead"

=============================================================================

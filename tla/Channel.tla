------------------------------- MODULE Channel -------------------------------
(***************************************************************************)
(* How a button of the page gets its answer, and what the account commands *)
(* (guard/login.go, workbuddy_account.sh) do on the way.  The page posts   *)
(* an action; a script clears the action's result file, runs wb2api-ctl    *)
(* into it, copies it to /tmp and into one dbus key, restarts the service  *)
(* when the file says ok, and calls httpd back; then the page polls the    *)
(* file, its copy and the dbus key.                                        *)
(*                                                                         *)
(* Two scripts may run side by side, on one result file too: remove,       *)
(* signin and balance share one.  A restart kills every wb2api-ctl there   *)
(* is, so a command of another script as well.                             *)
(*                                                                         *)
(* Abstractions: a result is the run that made it and whether it is ok; a  *)
(* credential is the run that wrote it.  Why a login or a removal fails is *)
(* left out.  The service is enabled, and its restart is one step (Service *)
(* takes it apart); so are cp, grep and base64.  httpd, the upstream and   *)
(* the firmware are external.                                              *)
(***************************************************************************)
EXTENDS Naturals, FiniteSets

CONSTANTS
    Posts,     \* calls of run() on the page
    Actions,   \* the actions posted, of those FileOf knows
    Accounts,  \* uids
    MaxRuns    \* bound: actions posted

ASSUME ActionsAssumption ==
    Actions \subseteq {"url", "poll", "list", "remove", "signin", "balance", "key"}

VARIABLES
    auths,      \* the credential file of each account
    pool,       \* the credentials the upstream has loaded
    upload,     \* /tmp/upload: the result files
    copies,     \* /tmp: their copies
    lastResult, \* dbus workbuddy_last_result
    script,     \* the script of each post
    page,       \* the page's side of each post
    posted,     \* actions posted so far
    ended,      \* history: runs whose script has ended
    crossed,    \* history: posts that met another one on their result file
    killed,     \* history: posts whose command was killed
    unseen      \* history: a crossed run has not restarted the service

channelVars == <<auths, pool, upload, copies, lastResult, script, page,
                 posted, ended, crossed, killed, unseen>>

FileOf(action) ==
    CASE action = "url" -> "login_url"
      [] action = "poll" -> "login_poll"
      [] action \in {"remove", "signin", "balance"} -> "action"
      [] action = "list" -> "accounts"
      [] action = "key" -> "key"

ResultFiles == {FileOf(a) : a \in Actions}

\* The text of a file: none, one that is no JSON, or the result of a run.
NoText == [run |-> 0, ok |-> FALSE, text |-> "none"]
Half == [run |-> 0, ok |-> FALSE, text |-> "half"]
Result(n, ok) == [run |-> n, ok |-> ok, text |-> "json"]
IsResult(t) == t.text = "json"

NoScript == [at |-> "idle"]
NoPage == [at |-> "idle"]
Quiet(p) == script[p] = NoScript
File(p) == FileOf(page[p].action)

\* An earlier run, number 1, has left its result.
ChannelInit ==
    /\ auths \in [Accounts -> {0, 1}]
    /\ pool = auths
    /\ \E last \in ResultFiles :
          upload = [f \in ResultFiles |-> IF f = last THEN Result(1, TRUE) ELSE NoText]
    /\ copies = upload
    /\ lastResult = Result(1, TRUE)
    /\ script = [p \in Posts |-> NoScript]
    /\ page = [p \in Posts |-> NoPage]
    /\ posted = 1
    /\ ended = {1} /\ crossed = {} /\ killed = {}
    /\ unseen = FALSE

-----------------------------------------------------------------------------
\* The page's side of a post is open until it has shown something.
Waiting(p) == page[p].at \in {"posted", "file", "copy", "dbus"}
SameFile(p, action) ==
    page[p].at # "idle" /\ FileOf(page[p].action) = FileOf(action)
Meets(p, action) ==
    {q \in Posts \ {p} : (Waiting(q) \/ ~Quiet(q)) /\ SameFile(q, action)}

\* run(): POST /_api/, and httpd runs the script.
Post(p, action) ==
    /\ Quiet(p) /\ ~Waiting(p)
    /\ posted < MaxRuns
    /\ posted' = posted + 1
    /\ script' = [script EXCEPT ![p] = [at |-> "clear", out |-> Half, linked |-> FALSE]]
    /\ page' = [page EXCEPT ![p] = [at |-> "posted", action |-> action,
                   run |-> posted + 1, past |-> ended, shown |-> NoText,
                   from |-> "none"]]
    /\ crossed' = IF Meets(p, action) = {} THEN crossed \ {p}
                  ELSE crossed \cup {p} \cup Meets(p, action)
    /\ killed' = killed \ {p}
    /\ UNCHANGED <<auths, pool, upload, copies, lastResult, ended, unseen>>

Goto(p, at) == script' = [script EXCEPT ![p].at = at]

\* Variant of ClearResult: nothing is cleared.
ClearNothing(p) ==
    /\ script[p].at = "clear"
    /\ Goto(p, "open")
    /\ UNCHANGED <<auths, pool, upload, copies, lastResult, page, posted,
                   ended, crossed, killed, unseen>>

\* Variant of ClearResult: the copy in /tmp stays.
ClearUploadOnly(p) ==
    /\ script[p].at = "clear"
    /\ Goto(p, "open")
    /\ upload' = [upload EXCEPT ![File(p)] = NoText]
    /\ lastResult' = NoText
    /\ UNCHANGED <<auths, pool, copies, page, posted, ended, crossed, killed, unseen>>

\* wb_result_clear: rm, and an empty dbus key.  A file another script writes
\* to at that moment has no name any more.
ClearResult(p) ==
    /\ script[p].at = "clear"
    /\ upload' = [upload EXCEPT ![File(p)] = NoText]
    /\ copies' = [copies EXCEPT ![File(p)] = NoText]
    /\ lastResult' = NoText
    /\ script' = [q \in Posts |->
                     IF q = p THEN [script[p] EXCEPT !.at = "open"]
                     ELSE IF ~Quiet(q) /\ File(q) = File(p)
                       THEN [script[q] EXCEPT !.linked = FALSE] ELSE script[q]]
    /\ UNCHANGED <<auths, pool, page, posted, ended, crossed, killed, unseen>>

\* wb_out: cat > file empties it while the command begins.
OpenOut(p) ==
    /\ script[p].at = "open"
    /\ upload' = [upload EXCEPT ![File(p)] = Half]
    /\ script' = [script EXCEPT ![p].at = "command", ![p].linked = TRUE]
    /\ UNCHANGED <<auths, pool, copies, lastResult, page, posted, ended,
                   crossed, killed, unseen>>

CommandEnds(p, ok) ==
    /\ script[p].at = "command"
    /\ script' = [script EXCEPT ![p].at = "done", ![p].out = Result(page[p].run, ok)]
    /\ UNCHANGED <<pool, upload, copies, lastResult, page, posted, ended,
                   crossed, killed, unseen>>

\* login poll: the upstream's tool returns a uid and its tokens, which replace
\* those the account may have had.
LoginPoll(p, a) ==
    /\ CommandEnds(p, TRUE) /\ page[p].action = "poll"
    /\ auths' = [auths EXCEPT ![a] = page[p].run]

\* account remove
AccountRemove(p, a) ==
    /\ CommandEnds(p, TRUE) /\ page[p].action = "remove"
    /\ auths[a] # 0
    /\ auths' = [auths EXCEPT ![a] = 0]

\* login url, account list, account signin, and the other commands
OtherCommand(p) ==
    /\ CommandEnds(p, TRUE) /\ page[p].action \notin {"poll", "remove"}
    /\ UNCHANGED auths

\* Any of them may fail: nobody has logged in, the upstream's tool has run
\* out of time, there is no such file.
CommandFails(p) == CommandEnds(p, FALSE) /\ UNCHANGED auths

\* The command prints its line.  Two scripts that have the same file open
\* write over each other from its beginning.
WriteOut(p) ==
    /\ script[p].at = "done"
    /\ Goto(p, "copy")
    /\ \E text \in IF IsResult(upload[File(p)]) THEN {script[p].out, Half}
                                                ELSE {script[p].out} :
          upload' = IF script[p].linked
                      THEN [upload EXCEPT ![File(p)] = text] ELSE upload
    /\ UNCHANGED <<auths, pool, copies, lastResult, page, posted, ended,
                   crossed, killed, unseen>>

\* cp -f of what the name holds by now
CopyOut(p) ==
    /\ script[p].at = "copy"
    /\ Goto(p, "dbus")
    /\ copies' = IF upload[File(p)] = NoText THEN copies
                 ELSE [copies EXCEPT ![File(p)] = upload[File(p)]]
    /\ UNCHANGED <<auths, pool, upload, lastResult, page, posted, ended,
                   crossed, killed, unseen>>

\* wb_result puts a file of less than 2000 bytes into dbus.
SetDbus(p) ==
    /\ script[p].at = "dbus"
    /\ Goto(p, "check")
    /\ \/ lastResult' = IF upload[File(p)] = NoText THEN lastResult
                                                    ELSE upload[File(p)]
       \/ page[p].action \in {"list", "signin", "key"} /\ UNCHANGED lastResult
    /\ UNCHANGED <<auths, pool, upload, copies, page, posted, ended,
                   crossed, killed, unseen>>

\* Variant of Restarting: a removed account stays in the pool.
RestartingButRemove == {"poll", "signin"}

Restarting == {"poll", "remove", "signin"}

\* grep -q '"ok":true' of the file; what two scripts have written over each
\* other may contain it.
Check(p) ==
    /\ script[p].at = "check"
    /\ \E ok \in IF upload[File(p)] = Half THEN BOOLEAN ELSE {upload[File(p)].ok} :
          LET restart == ok /\ page[p].action \in Restarting IN
          /\ Goto(p, IF restart THEN "restart" ELSE "respond")
          /\ unseen' = (unseen \/ (~restart /\ p \in crossed))
    /\ UNCHANGED <<auths, pool, upload, copies, lastResult, page, posted,
                   ended, crossed, killed>>

\* workbuddy_config.sh restart: the upstream loads what is there, and every
\* command under way has been killed.
Restart(p) ==
    LET hit == {q \in Posts \ {p} : script[q].at \in {"command", "done"}} IN
    /\ script[p].at = "restart"
    /\ pool' = auths
    /\ unseen' = FALSE
    /\ killed' = killed \cup hit
    /\ script' = [q \in Posts |->
                     IF q = p THEN [script[p] EXCEPT !.at = "respond"]
                     ELSE IF q \in hit THEN [script[q] EXCEPT !.at = "done", !.out = Half]
                     ELSE script[q]]
    /\ UNCHANGED <<auths, upload, copies, lastResult, page, posted, ended, crossed>>

\* wb_respond: httpd answers the POST.
Respond(p) ==
    /\ script[p].at = "respond"
    /\ script' = [script EXCEPT ![p] = NoScript]
    /\ page' = IF page[p].at = "posted" THEN [page EXCEPT ![p].at = "file"] ELSE page
    /\ ended' = ended \cup {page[p].run}
    /\ UNCHANGED <<auths, pool, upload, copies, lastResult, posted, crossed,
                   killed, unseen>>

-----------------------------------------------------------------------------
TurnTo(p, at) ==
    /\ page' = [page EXCEPT ![p].at = at]
    /\ UNCHANGED <<auths, pool, upload, copies, lastResult, script, posted,
                   ended, crossed, killed, unseen>>
Show(p, text, from) ==
    /\ page' = [page EXCEPT ![p].at = "shown", ![p].shown = text, ![p].from = from]
    /\ UNCHANGED <<auths, pool, upload, copies, lastResult, script, posted,
                   ended, crossed, killed, unseen>>

\* httpd gives up on a script that takes two minutes: the page polls while it
\* runs.  (The script has long since cleared the result.)
EarlyAnswer(p) ==
    /\ page[p].at = "posted" /\ ~Quiet(p) /\ script[p].at # "clear"
    /\ TurnTo(p, "file")

\* GET /_temp/<name>: 404 is taken for "not yet", what does not parse for a
\* channel that does not work.
ReadFile(p) ==
    /\ page[p].at = "file"
    /\ IF IsResult(upload[File(p)]) THEN Show(p, upload[File(p)], "file")
       ELSE upload[File(p)] = Half /\ TurnTo(p, "copy")

\* GET /tmp/<name>, the same again
ReadCopy(p) ==
    /\ page[p].at = "copy"
    /\ IF IsResult(copies[File(p)]) THEN Show(p, copies[File(p)], "copy")
       ELSE TurnTo(p, IF copies[File(p)] = Half THEN "dbus" ELSE "file")

\* getDbus: the result there may be that of any action.
ReadDbus(p) ==
    /\ page[p].at = "dbus"
    /\ IF IsResult(lastResult) THEN Show(p, lastResult, "dbus") ELSE TurnTo(p, "file")

\* The POST fails, or sixty seconds of polling are over.
GiveUp(p) == Waiting(p) /\ Show(p, NoText, "none")

ScriptRuns(p) ==
    /\ ~Quiet(p)
    /\ \/ ClearResult(p) \/ OpenOut(p) \/ OtherCommand(p) \/ CommandFails(p)
       \/ WriteOut(p) \/ CopyOut(p) \/ SetDbus(p) \/ Check(p) \/ Restart(p)
       \/ Respond(p)
       \/ \E a \in Accounts : LoginPoll(p, a) \/ AccountRemove(p, a)

PagePolls(p) ==
    EarlyAnswer(p) \/ ReadFile(p) \/ ReadCopy(p) \/ ReadDbus(p) \/ GiveUp(p)

ChannelNext ==
    \E p \in Posts :
        \/ \E action \in Actions : Post(p, action)
        \/ ScriptRuns(p)
        \/ PagePolls(p)

ChannelSpec == ChannelInit /\ [][ChannelNext]_channelVars

-----------------------------------------------------------------------------
Showing(p) == page[p].at = "shown" /\ IsResult(page[p].shown)

\* The result the page shows for an action is that of the action, whatever
\* the other buttons do, unless two runs met on one result file or a restart
\* killed the command: an empty file sends the page to the dbus key, where
\* every action leaves its result.
OwnResult ==
    \A p \in Posts \ (crossed \cup killed) :
        Showing(p) => page[p].shown.run = page[p].run

\* What the page finds in a result file or its copy is never old: not the
\* result of a run that had ended when the action was posted, also when runs
\* meet, when a command is killed and when the page polls while the script
\* still runs.  (In the dbus key it may be, where a script puts whatever it
\* finds in its own file; OwnResult says who never comes to look there.)
FreshResult ==
    \A p \in Posts :
        Showing(p) /\ page[p].from # "dbus" => page[p].shown.run \notin page[p].past

\* When no script runs, the upstream works with the credentials on the disk:
\* one that was removed is out of the pool, one that was added is in it.
\* Excepted is a run whose result another run has cleared or written over
\* before it was looked at: the service is not restarted then.
PoolFollows ==
    (\A p \in Posts : Quiet(p)) => pool = auths \/ unseen
=============================================================================

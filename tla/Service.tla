------------------------------- MODULE Service -------------------------------
(***************************************************************************)
(* workbuddy_config.sh: the script that starts, stops and restarts the two *)
(* processes of the service, opens the firewall, and is run by the page,   *)
(* by cron as a watchdog, and at boot.  Nothing keeps two runs of it from  *)
(* overlapping, so a run is modelled command by command.                   *)
(*                                                                         *)
(* Abstractions: the settings of dbus are the few that the script decides  *)
(* on, and ver, which stands for all that `cfg render` puts in config.json *)
(* (Config), BadVer for one it refuses; the upstream's own port does not   *)
(* change. The two `iptables -D` are one step, and so are the signals to   *)
(* both processes. The upstream and the firmware (httpd, cru, pidof,       *)
(* iptables) are external: a process answers SIGTERM in its own time, and  *)
(* ends when its port is taken.                                            *)
(***************************************************************************)
EXTENDS Naturals, Sequences, FiniteSets

CONSTANTS
    Calls,     \* runs of workbuddy_config.sh for the page, or at boot
    CronRun,   \* the run of cron: five minutes apart, one at a time
    Slots,     \* bound: processes at a time
    Ports,
    Vers,      \* settings that can be rendered
    BadVer,    \* settings that cfg render refuses
    Settings,  \* what the page may save
    MaxCalls,  \* bound: calls of the page
    MaxFaults, \* bound: processes that die, and reboots
    MaxCommands, \* bound: short wb2api-ctl commands
    MaxRules   \* bound: equal rules

ASSUME VersAssumption == BadVer \notin Vers
ASSUME CronRunAssumption == CronRun \notin Calls
ASSUME SettingsAssumption ==
    Settings \subseteq [enable : BOOLEAN, watchdog : BOOLEAN, firewall : BOOLEAN,
                        wan : BOOLEAN, port : Ports, ver : Vers \cup {BadVer}]
ASSUME MaxRulesAssumption == MaxRules \in Nat

VARIABLES
    dbus,      \* the settings
    cron,      \* the watchdog is in the table of cru
    config,    \* what config.json was rendered from
    procs,     \* the processes
    rules,     \* how many rules of iptables there are for a port and a scope
    script,    \* each run: the commands left, and WB_LISTEN_PORT
    left,      \* the bounds that are left
    alone,     \* history: the last stop or save, if nothing else came across it
    piled      \* history: there were two equal rules

vars == <<dbus, cron, config, procs, rules, script, left, alone, piled>>

Scripts == Calls \cup {CronRun}

Gone == [name |-> "none"]
Names == {"wb2api", "serve", "command"}
Scopes == {"any", "br0"}

\* pidof knows the name of the binary only: a command is taken for the daemon.
Ctl == {i \in Slots : procs[i].name \in {"serve", "command"}}
Upstream == {i \in Slots : procs[i].name = "wb2api"}

Running(name) == {i \in Slots : procs[i].name = name /\ procs[i].phase = "running"}

-----------------------------------------------------------------------------
StopSteps == <<"term", "kill9", "del_rules">>
StartSteps ==
    <<"enabled", "render", "look_up", "look_ctl", "del_rules_if", "add_rule">>

\* Variant of SubmitSteps: what runs already is left running.
SubmitStepsStart(enable) == (IF enable THEN StartSteps ELSE StopSteps) \o <<"cru">>

\* web_submit after its own render_config
SubmitSteps(enable) ==
    (IF enable THEN StopSteps \o StartSteps ELSE StopSteps) \o <<"cru">>

StepsOf(op) ==
    CASE op = "start" -> StartSteps
      [] op = "stop" -> StopSteps
      [] op = "restart" -> StopSteps \o StartSteps
      [] op = "watchdog" -> <<"watch">> \o StartSteps
      [] op = "web_submit" -> <<"render", "submit">>

NoRun == [todo |-> <<>>]
Idle(s) == script[s] = NoRun
NotAlone == [op |-> "none"]

ServiceTypeOK ==
    /\ dbus \in Settings
    /\ cron \in BOOLEAN
    /\ config \in Vers
    /\ procs \in [Slots -> {Gone} \cup
                     [name : Names, phase : {"starting", "running", "ending"},
                      port : Ports, ver : Vers]]
    /\ rules \in [Ports \X Scopes -> 0..MaxRules]
    /\ DOMAIN script = Scripts
    /\ \A s \in Scripts :
          \/ Idle(s)
          \/ DOMAIN script[s] = {"todo", "port"} /\ script[s].port \in Ports
    /\ alone \in {NotAlone} \cup [op : {"stop", "web_submit"}, port : Ports]
    /\ piled \in BOOLEAN

\* Installed and rendered once, and stopped.
Init ==
    /\ dbus \in {d \in Settings : d.ver \in Vers}
    /\ cron = dbus.watchdog
    /\ config = dbus.ver
    /\ procs = [i \in Slots |-> Gone]
    /\ rules = [r \in Ports \X Scopes |-> 0]
    /\ script = [s \in Scripts |-> NoRun]
    /\ left = [calls |-> MaxCalls, faults |-> MaxFaults, commands |-> MaxCommands]
    /\ alone = NotAlone
    /\ piled = FALSE

-----------------------------------------------------------------------------
\* A run begins and reads the port (workbuddy_env.sh); it is alone if no other
\* one is going on, and the last one no longer is.
Begin(s, op, port) ==
    /\ Idle(s)
    /\ script' = [script EXCEPT ![s] = [todo |-> StepsOf(op), port |-> port]]
    /\ alone' = IF op \in {"stop", "web_submit"} /\ \A t \in Scripts : Idle(t)
                  THEN [op |-> op, port |-> port] ELSE NotAlone

\* The page stores fields in dbus, and httpd runs the script: save and the
\* enable switch call web_submit, the buttons the other three.
PageCalls(s) ==
    /\ left.calls > 0
    /\ left' = [left EXCEPT !.calls = @ - 1]
    /\ \E op \in {"web_submit", "start", "stop", "restart"}, d \in Settings :
          /\ op = "start" => d = [dbus EXCEPT !.enable = TRUE]
          /\ op = "stop" => d = [dbus EXCEPT !.enable = FALSE]
          /\ op = "restart" => d = dbus
          /\ dbus' = d
          /\ Begin(s, op, d.port)
    /\ UNCHANGED <<cron, config, procs, rules, piled>>

\* cru, every five minutes
CronFires ==
    /\ cron
    /\ Begin(CronRun, "watchdog", dbus.port)
    /\ UNCHANGED <<dbus, cron, config, procs, rules, left, piled>>

\* The router loses power and boots: S98workbuddy.sh start.  The rules are
\* gone; whether the table of cru survives is up to the firmware.
Reboot(s) ==
    /\ left.faults > 0
    /\ left' = [left EXCEPT !.faults = @ - 1]
    /\ procs' = [i \in Slots |-> Gone]
    /\ rules' = [r \in Ports \X Scopes |-> 0]
    /\ cron' \in {cron, FALSE}
    /\ script' = [t \in Scripts |->
                     IF t = s THEN [todo |-> StartSteps, port |-> dbus.port] ELSE NoRun]
    /\ alone' = NotAlone
    /\ piled' = FALSE
    /\ UNCHANGED <<dbus, config>>

-----------------------------------------------------------------------------
\* The next command of a run.
At(s, step) == ~Idle(s) /\ Head(script[s].todo) = step
Goto(s, steps) ==
    script' = [script EXCEPT ![s] = IF steps = <<>> THEN NoRun ELSE [@ EXCEPT !.todo = steps]]
Advance(s) == Goto(s, Tail(script[s].todo))

\* start returns early: what comes after start goes on.
Return(s) ==
    LET todo == script[s].todo
        end == CHOOSE i \in DOMAIN todo : todo[i] = "add_rule"
    IN  Goto(s, SubSeq(todo, end + 1, Len(todo)))

Enabled(s) ==
    /\ At(s, "enabled")
    /\ IF dbus.enable THEN Advance(s) ELSE Return(s)
    /\ UNCHANGED <<dbus, cron, config, procs, rules, left, alone, piled>>

\* Settings that are refused leave config.json as it is; the script goes on.
Render(s) ==
    /\ At(s, "render")
    /\ config' = IF dbus.ver \in Vers THEN dbus.ver ELSE config
    /\ Advance(s)
    /\ UNCHANGED <<dbus, cron, procs, rules, left, alone, piled>>

\* Variant of Missing: both processes have to be missing.
MissingBoth == Upstream = {} /\ Ctl = {}

\* What the watchdog looks for.
Missing == Upstream = {} \/ Ctl = {}

Watch(s) ==
    /\ At(s, "watch")
    /\ IF dbus.enable /\ dbus.watchdog /\ Missing THEN Advance(s) ELSE Goto(s, <<>>)
    /\ UNCHANGED <<dbus, cron, config, procs, rules, left, alone, piled>>

Submit(s) ==
    /\ At(s, "submit")
    /\ Goto(s, SubmitSteps(dbus.enable))
    /\ UNCHANGED <<dbus, cron, config, procs, rules, left, alone, piled>>

\* web_submit registers the watchdog, or removes it.
Cru(s) ==
    /\ At(s, "cru")
    /\ cron' = dbus.watchdog
    /\ Advance(s)
    /\ UNCHANGED <<dbus, config, procs, rules, left, alone, piled>>

\* pidof finds no process: one is to be launched, but by a later command.
Look(s) ==
    /\ \/ /\ At(s, "look_up")
          /\ IF Upstream = {} THEN Goto(s, <<"launch_up">> \o Tail(script[s].todo))
                              ELSE Advance(s)
       \/ /\ At(s, "look_ctl")
          /\ IF Ctl = {} THEN Goto(s, <<"launch_ctl">> \o Tail(script[s].todo))
                         ELSE Advance(s)
    /\ UNCHANGED <<dbus, cron, config, procs, rules, left, alone, piled>>

Proc(name, phase, port) == [name |-> name, phase |-> phase, port |-> port, ver |-> config]
Fork(p) ==
    /\ \E i \in Slots : procs[i] = Gone
    /\ LET i == CHOOSE i \in Slots : procs[i] = Gone IN procs' = [procs EXCEPT ![i] = p]

Launch(s) ==
    /\ \/ At(s, "launch_up") /\ Fork(Proc("wb2api", "starting", script[s].port))
       \/ At(s, "launch_ctl") /\ Fork(Proc("serve", "starting", script[s].port))
    /\ Advance(s)
    /\ UNCHANGED <<dbus, cron, config, rules, left, alone, piled>>

\* SIGTERM ends a command, and a process that has not installed its handler;
\* the others take their time.
Term(p) == IF p.phase = "running" /\ p.name # "command"
             THEN [p EXCEPT !.phase = "ending"] ELSE Gone

Terminate(s) ==
    /\ At(s, "term")
    /\ procs' = [i \in Slots |-> IF procs[i] = Gone THEN Gone ELSE Term(procs[i])]
    /\ Advance(s)
    /\ UNCHANGED <<dbus, cron, config, rules, left, alone, piled>>

\* Variant of Killed: SIGTERM has to do.
KilledNot == procs

\* kill -9, a second later, of whatever pidof lists by then
Killed == [i \in Slots |-> Gone]

Kill(s) ==
    /\ At(s, "kill9")
    /\ procs' = Killed
    /\ Advance(s)
    /\ UNCHANGED <<dbus, cron, config, rules, left, alone, piled>>

\* iptables -D of both scopes takes one rule of each away, if there is one.
DelRules(s) ==
    /\ \/ At(s, "del_rules")
       \/ At(s, "del_rules_if") /\ dbus.firewall
    /\ rules' = [r \in DOMAIN rules |->
                    IF r[1] = script[s].port /\ rules[r] > 0 THEN rules[r] - 1
                                                             ELSE rules[r]]
    /\ Advance(s)
    /\ UNCHANGED <<dbus, cron, config, procs, left, alone, piled>>

SkipRules(s) ==
    /\ At(s, "del_rules_if") /\ ~dbus.firewall
    /\ Return(s)
    /\ UNCHANGED <<dbus, cron, config, procs, rules, left, alone, piled>>

Scope == IF dbus.wan THEN "any" ELSE "br0"

AddRule(s) ==
    /\ At(s, "add_rule")
    /\ rules[<<script[s].port, Scope>>] < MaxRules
    /\ rules' = [rules EXCEPT ![<<script[s].port, Scope>>] = @ + 1]
    /\ piled' = (piled \/ \E r \in DOMAIN rules' : rules'[r] > 1)
    /\ Advance(s)
    /\ UNCHANGED <<dbus, cron, config, procs, left, alone>>

ScriptStep(s) ==
    \/ Enabled(s) \/ Render(s) \/ Watch(s) \/ Submit(s) \/ Cru(s) \/ Look(s)
    \/ Launch(s) \/ Terminate(s) \/ Kill(s) \/ DelRules(s) \/ SkipRules(s)
    \/ AddRule(s)

-----------------------------------------------------------------------------
\* A process takes its port, which only one can have; the upstream has read
\* config.json.
Taken(i) ==
    \E j \in Slots \ {i} :
        /\ procs[j].name = procs[i].name
        /\ procs[j].phase # "starting"
        /\ procs[i].name = "wb2api" \/ procs[j].port = procs[i].port

Bind(i) ==
    /\ procs[i].name # "none" /\ procs[i].phase = "starting"
    /\ procs' = [procs EXCEPT ![i] =
                    IF Taken(i) THEN Gone ELSE [@ EXCEPT !.phase = "running", !.ver = config]]
    /\ UNCHANGED <<dbus, cron, config, rules, script, left, alone, piled>>

\* A process has finished ending, or a command its work.
End(i) ==
    /\ procs[i].name # "none"
    /\ procs[i].phase = "ending" \/ procs[i].name = "command"
    /\ procs' = [procs EXCEPT ![i] = Gone]
    /\ UNCHANGED <<dbus, cron, config, rules, script, left, alone, piled>>

\* A process dies by itself.
Die(i) ==
    /\ left.faults > 0
    /\ procs[i].name \in {"wb2api", "serve"} /\ procs[i].phase = "running"
    /\ left' = [left EXCEPT !.faults = @ - 1]
    /\ procs' = [procs EXCEPT ![i] = Gone]
    /\ alone' = NotAlone
    /\ UNCHANGED <<dbus, cron, config, rules, script, piled>>

\* The page asks for the status or changes a key: a wb2api-ctl of its own.
Command ==
    /\ left.commands > 0
    /\ left' = [left EXCEPT !.commands = @ - 1]
    /\ Fork(Proc("command", "running", dbus.port))
    /\ alone' = NotAlone
    /\ UNCHANGED <<dbus, cron, config, rules, script, piled>>

Next ==
    \/ Command \/ CronFires
    \/ \E s \in Calls : PageCalls(s) \/ Reboot(s)
    \/ \E s \in Scripts : ScriptStep(s)
    \/ \E i \in Slots : Bind(i) \/ End(i) \/ Die(i)

\* The shell and the processes go on, and cron fires again and again.
Fairness ==
    /\ WF_vars(CronFires)
    /\ \A s \in Scripts : WF_vars(ScriptStep(s))
    /\ \A i \in Slots : WF_vars(Bind(i)) /\ WF_vars(End(i))

Spec == Init /\ [][Next]_vars
FairSpec == Spec /\ Fairness

-----------------------------------------------------------------------------
\* A run of op that nothing else came across, and that has ended.
Done(op) == alone.op = op /\ \A s \in Scripts : Idle(s)

Rules(port) == {r \in DOMAIN rules : r[1] = port /\ rules[r] > 0}

\* After a stop that was alone no process of the service is left, ending or
\* starting, and the port it knew of is closed, unless runs that overlapped
\* had opened it twice.
StopLeavesNothing ==
    Done("stop") \/ (Done("web_submit") /\ ~dbus.enable) =>
        /\ Upstream \cup Ctl = {}
        /\ piled \/ Rules(alone.port) = {}

\* After a save that was alone, what the page saved is in force: one upstream
\* with the new settings, one daemon on the new port, and the port is open
\* to whom it says.  Settings that do not render keep the last ones that did.
SubmitInForce ==
    Done("web_submit") /\ dbus.enable =>
        /\ Cardinality(Upstream) = 1 /\ Cardinality(Ctl) = 1
        /\ dbus.ver \in Vers => config = dbus.ver
        /\ \A i \in Running("wb2api") : procs[i].ver = config
        /\ \A i \in Ctl : procs[i].name = "serve" /\ procs[i].port = dbus.port
        /\ piled \/ Rules(dbus.port) =
                      IF dbus.firewall THEN {<<dbus.port, Scope>>} ELSE {}
        /\ cron = dbus.watchdog

\* While the service stays enabled and watched it is up again and again,
\* whatever has died, and however runs of the script have overlapped.
Watched == dbus.enable /\ dbus.watchdog /\ cron
Serving == Running("wb2api") # {} /\ Running("serve") # {}
ServiceReturns == <>[]Watched => []<>Serving
=============================================================================

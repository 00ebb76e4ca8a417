----------------------------- MODULE ServiceProofs -----------------------------
(***************************************************************************)
(* Proofs about Service, for any number of calls, ports, settings and      *)
(* processes.  A stop or a save that nothing else comes across is followed *)
(* command by command: what is left to do says what has been reached.      *)
(***************************************************************************)
EXTENDS Service, FiniteSetTheorems, SequenceTheorems, TLAPS

-----------------------------------------------------------------------------
\* The commands that are left to a run that saves the page, or stops.
Saving == <<"render", "submit">>
Submitting == <<"submit">>

OnTerm == <<"term", "kill9", "del_rules", "enabled", "render", "look_up",
            "look_ctl", "del_rules_if", "add_rule", "cru">>
OnKill == <<"kill9", "del_rules", "enabled", "render", "look_up", "look_ctl",
            "del_rules_if", "add_rule", "cru">>
OnDelete == <<"del_rules", "enabled", "render", "look_up", "look_ctl",
              "del_rules_if", "add_rule", "cru">>
OnEnabled == <<"enabled", "render", "look_up", "look_ctl", "del_rules_if",
               "add_rule", "cru">>
OnRender == <<"render", "look_up", "look_ctl", "del_rules_if", "add_rule", "cru">>
OnLookUp == <<"look_up", "look_ctl", "del_rules_if", "add_rule", "cru">>
OnLaunchUp == <<"launch_up", "look_ctl", "del_rules_if", "add_rule", "cru">>
OnLookCtl == <<"look_ctl", "del_rules_if", "add_rule", "cru">>
OnLaunchCtl == <<"launch_ctl", "del_rules_if", "add_rule", "cru">>
OnClear == <<"del_rules_if", "add_rule", "cru">>
OnAdd == <<"add_rule", "cru">>
AtCru == <<"cru">>

OffTerm == <<"term", "kill9", "del_rules", "cru">>
OffKill == <<"kill9", "del_rules", "cru">>
OffDelete == <<"del_rules", "cru">>

StopTerm == <<"term", "kill9", "del_rules">>
StopKill == <<"kill9", "del_rules">>
StopDelete == <<"del_rules">>

-----------------------------------------------------------------------------
\* What the run has reached.  The processes are one of each of these names, on
\* the port of dbus, and the ones that run have read config.json as it is.
Just(N) ==
    /\ \A i \in Slots :
          \/ procs[i] = Gone
          \/ /\ procs[i].name \in N
             /\ procs[i].phase \in {"starting", "running"}
             /\ procs[i].port = dbus.port
             /\ procs[i].phase = "running" => procs[i].ver = config
    /\ \A n \in N : \E i \in Slots : procs[i].name = n
    /\ \A i, j \in Slots :
          procs[i].name = procs[j].name /\ procs[i].name # "none" => i = j

Both == {"wb2api", "serve"}

Rendered == dbus.ver \in Vers => config = dbus.ver

Closed == piled \/ \A r \in DOMAIN rules : r[1] = dbus.port => rules[r] = 0

Opened == piled \/ Rules(dbus.port) =
                      IF dbus.firewall THEN {<<dbus.port, Scope>>} ELSE {}

\* The stop button; a save that disables the service; one that enables it.
StopCourse(todo) ==
    \/ todo \in {StopTerm, StopKill}
    \/ todo = StopDelete /\ Just({})
    \/ todo = <<>> /\ Just({}) /\ Closed

OffCourse(todo) ==
    \/ todo \in {Saving, Submitting, OffTerm, OffKill}
    \/ todo = OffDelete /\ Just({})
    \/ todo = AtCru /\ Just({}) /\ Closed
    \/ todo = <<>> /\ Just({}) /\ Closed

OnCourse(todo) ==
    \/ todo \in {Saving, Submitting, OnTerm, OnKill}
    \/ todo = OnDelete /\ Just({})
    \/ todo \in {OnEnabled, OnRender} /\ Just({}) /\ Closed
    \/ todo \in {OnLookUp, OnLaunchUp} /\ Just({}) /\ Closed /\ Rendered
    \/ todo \in {OnLookCtl, OnLaunchCtl} /\ Just({"wb2api"}) /\ Closed /\ Rendered
    \/ todo = OnClear /\ Just(Both) /\ Closed /\ Rendered
    \/ todo = OnAdd /\ Just(Both) /\ Closed /\ Rendered /\ dbus.firewall
    \/ todo = AtCru /\ Just(Both) /\ Opened /\ Rendered
    \/ todo = <<>> /\ Just(Both) /\ Opened /\ Rendered /\ cron = dbus.watchdog

\* What a run that is alone has reached, by what is left to it.
Course(todo) ==
    \/ alone.op = "stop" /\ StopCourse(todo)
    \/ alone.op = "web_submit" /\ ~dbus.enable /\ OffCourse(todo)
    \/ alone.op = "web_submit" /\ dbus.enable /\ OnCourse(todo)

\* A run that is alone is the only one, and has reached what it should.
OnItsWay ==
    alone # NotAlone =>
        /\ alone.port = dbus.port
        /\ \E s \in Scripts :
              /\ \A t \in Scripts \ {s} : Idle(t)
              /\ ~Idle(s) => script[s].port = dbus.port /\ script[s].todo # <<>>
              /\ Course(script[s].todo)

\* There are two equal rules only if that has been noted.
OneEach == ~piled => \A r \in DOMAIN rules : rules[r] <= 1

SInv == ServiceTypeOK /\ OneEach /\ OnItsWay

-----------------------------------------------------------------------------
\* The command that comes next, and what is left after it.
Follows(todo, step, next) == todo # <<>> /\ Head(todo) = step /\ Tail(todo) = next

\* For every sequence above, what comes next and what is then left.
LEMMA Commands ==
    /\ Follows(Saving, "render", Submitting) /\ Follows(Submitting, "submit", <<>>)
    /\ Follows(StopTerm, "term", StopKill) /\ Follows(StopKill, "kill9", StopDelete)
    /\ Follows(StopDelete, "del_rules", <<>>)
    /\ Follows(OffTerm, "term", OffKill) /\ Follows(OffKill, "kill9", OffDelete)
    /\ Follows(OffDelete, "del_rules", AtCru) /\ Follows(AtCru, "cru", <<>>)
    /\ Follows(OnTerm, "term", OnKill) /\ Follows(OnKill, "kill9", OnDelete)
    /\ Follows(OnDelete, "del_rules", OnEnabled)
    /\ Follows(OnEnabled, "enabled", OnRender) /\ Follows(OnRender, "render", OnLookUp)
    /\ Follows(OnLookUp, "look_up", OnLookCtl) /\ Follows(OnLaunchUp, "launch_up", OnLookCtl)
    /\ Follows(OnLookCtl, "look_ctl", OnClear) /\ Follows(OnLaunchCtl, "launch_ctl", OnClear)
    /\ Follows(OnClear, "del_rules_if", OnAdd) /\ Follows(OnAdd, "add_rule", AtCru)
BY DEF Follows, Saving, Submitting, StopTerm, StopKill, StopDelete, OffTerm, OffKill,
       OffDelete, AtCru, OnTerm, OnKill, OnDelete, OnEnabled, OnRender, OnLookUp,
       OnLaunchUp, OnLookCtl, OnLaunchCtl, OnClear, OnAdd

\* Two sequences put together.
LEMMA Joined ==
    ASSUME NEW S, NEW u \in Seq(S), NEW v \in Seq(S), NEW w \in Seq(S),
           Len(w) = Len(u) + Len(v),
           \A i \in 1..Len(u) : w[i] = u[i],
           \A i \in 1..Len(v) : w[Len(u) + i] = v[i]
    PROVE  u \o v = w
<1> DEFINE z == u \o v
<1>1. /\ z \in Seq(S) /\ Len(z) = Len(u) + Len(v)
      /\ \A i \in 1..(Len(u) + Len(v)) : z[i] = IF i <= Len(u) THEN u[i] ELSE v[i - Len(u)]
  BY ConcatProperties
<1>2. Len(u) \in Nat /\ Len(v) \in Nat
  OBVIOUS
<1> HIDE DEF z
<1>3. ASSUME NEW i \in 1..Len(z) PROVE z[i] = w[i]
  <2>1. CASE i <= Len(u)
    BY <1>1, <1>2, <2>1
  <2>2. CASE i > Len(u)
    <3>1. i - Len(u) \in 1..Len(v) /\ Len(u) + (i - Len(u)) = i /\ ~(i <= Len(u))
      BY <1>1, <1>2, <2>2
    <3>2. z[i] = v[i - Len(u)]
      BY <1>1, <1>2, <3>1
    <3>3. w[Len(u) + (i - Len(u))] = v[i - Len(u)]
      BY <3>1
    <3> QED
      BY <3>1, <3>2, <3>3
  <2> QED
    BY <1>1, <1>2, <2>1, <2>2
<1>4. z = w
  BY <1>1, <1>3, SeqEqual
<1> QED
  BY <1>4 DEF z

\* The commands of a run, as the script puts them together.
CommandNames ==
    {"render", "submit", "term", "kill9", "del_rules", "enabled", "look_up", "launch_up",
     "look_ctl", "launch_ctl", "del_rules_if", "add_rule", "cru"}

\* The sequences above are those.
LEMMA Courses ==
    /\ StepsOf("stop") = StopTerm /\ StepsOf("web_submit") = Saving
    /\ SubmitSteps(TRUE) = OnTerm /\ SubmitSteps(FALSE) = OffTerm
    /\ <<"launch_up">> \o OnLookCtl = OnLaunchUp
    /\ <<"launch_ctl">> \o OnClear = OnLaunchCtl
<1>1. StepsOf("stop") = StopTerm /\ StepsOf("web_submit") = Saving
  BY DEF StepsOf, StopSteps, StopTerm, Saving
<1>3. /\ StopSteps \in Seq(CommandNames) /\ StartSteps \in Seq(CommandNames)
      /\ AtCru \in Seq(CommandNames) /\ OnTerm \in Seq(CommandNames)
      /\ OffTerm \in Seq(CommandNames) /\ OnLookCtl \in Seq(CommandNames)
      /\ OnClear \in Seq(CommandNames)
  BY DEF CommandNames, StopSteps, StartSteps, AtCru, OnTerm, OffTerm, OnLookCtl, OnClear
<1>4. StopSteps \o AtCru = OffTerm
  <2>1. /\ Len(OffTerm) = Len(StopSteps) + Len(AtCru)
        /\ \A i \in 1..Len(StopSteps) : OffTerm[i] = StopSteps[i]
        /\ \A i \in 1..Len(AtCru) : OffTerm[Len(StopSteps) + i] = AtCru[i]
    BY DEF StopSteps, AtCru, OffTerm
  <2> QED
    BY <1>3, <2>1, Joined
<1>5. (StopSteps \o StartSteps) \o AtCru = OnTerm
  <2> DEFINE w == <<"term", "kill9", "del_rules", "enabled", "render", "look_up",
                    "look_ctl", "del_rules_if", "add_rule">>
  <2>1. /\ w \in Seq(CommandNames)
        /\ Len(w) = Len(StopSteps) + Len(StartSteps)
        /\ \A i \in 1..Len(StopSteps) : w[i] = StopSteps[i]
        /\ \A i \in 1..Len(StartSteps) : w[Len(StopSteps) + i] = StartSteps[i]
    BY DEF StopSteps, StartSteps, CommandNames
  <2>2. /\ Len(OnTerm) = Len(w) + Len(AtCru)
        /\ \A i \in 1..Len(w) : OnTerm[i] = w[i]
        /\ \A i \in 1..Len(AtCru) : OnTerm[Len(w) + i] = AtCru[i]
    BY DEF OnTerm, AtCru
  <2> HIDE DEF w
  <2>3. StopSteps \o StartSteps = w
    BY <1>3, <2>1, Joined
  <2>4. w \o AtCru = OnTerm
    BY <1>3, <2>1, <2>2, Joined
  <2> QED
    BY <2>3, <2>4
<1>6. <<"launch_up">> \o OnLookCtl = OnLaunchUp
  <2> DEFINE u == <<"launch_up">>
  <2>1. /\ u \in Seq(CommandNames) /\ OnLaunchUp \in Seq(CommandNames)
        /\ Len(OnLaunchUp) = Len(u) + Len(OnLookCtl)
        /\ \A i \in 1..Len(u) : OnLaunchUp[i] = u[i]
        /\ \A i \in 1..Len(OnLookCtl) : OnLaunchUp[Len(u) + i] = OnLookCtl[i]
    BY DEF OnLaunchUp, OnLookCtl, CommandNames
  <2> HIDE DEF u
  <2>2. u \o OnLookCtl = OnLaunchUp
    BY <1>3, <2>1, Joined
  <2> QED
    BY <2>2 DEF u
<1>7. <<"launch_ctl">> \o OnClear = OnLaunchCtl
  <2> DEFINE u == <<"launch_ctl">>
  <2>1. /\ u \in Seq(CommandNames) /\ OnLaunchCtl \in Seq(CommandNames)
        /\ Len(OnLaunchCtl) = Len(u) + Len(OnClear)
        /\ \A i \in 1..Len(u) : OnLaunchCtl[i] = u[i]
        /\ \A i \in 1..Len(OnClear) : OnLaunchCtl[Len(u) + i] = OnClear[i]
    BY DEF OnLaunchCtl, OnClear, CommandNames
  <2> HIDE DEF u
  <2>2. u \o OnClear = OnLaunchCtl
    BY <1>3, <2>1, Joined
  <2> QED
    BY <2>2 DEF u
<1>8. SubmitSteps(TRUE) = (StopSteps \o StartSteps) \o AtCru
  BY DEF SubmitSteps, AtCru
<1>9. SubmitSteps(FALSE) = StopSteps \o AtCru
  BY DEF SubmitSteps, AtCru
<1> QED
  BY <1>1, <1>4, <1>5, <1>6, <1>7, <1>8, <1>9

\* Without a rule to add, start returns, and what comes after it goes on.
LEMMA Returns ==
    SubSeq(OnClear, (CHOOSE i \in DOMAIN OnClear : OnClear[i] = "add_rule") + 1, Len(OnClear))
        = AtCru
<1> DEFINE e == CHOOSE i \in DOMAIN OnClear : OnClear[i] = "add_rule"
           v == SubSeq(OnClear, 3, 3)
<1>1. /\ e = 2 /\ Len(OnClear) = 3
      /\ OnClear[3] = "cru" /\ \A i \in 3..3 : OnClear[i] \in CommandNames
  BY DEF OnClear, CommandNames
<1>2. v \in Seq(CommandNames) /\ Len(v) = 1 /\ \A i \in 1..1 : v[i] = OnClear[3 + i - 1]
  BY <1>1, SubSeqProperties
<1>3. AtCru \in Seq(CommandNames) /\ Len(AtCru) = 1 /\ AtCru[1] = "cru"
  BY DEF AtCru, CommandNames
<1> HIDE DEF v
<1>4. v = AtCru
  BY <1>1, <1>2, <1>3, SeqEqual
<1> HIDE DEF e
<1>5. SubSeq(OnClear, e + 1, Len(OnClear)) = AtCru
  BY <1>1, <1>4 DEF v
<1> QED
  BY <1>5 DEF e

-----------------------------------------------------------------------------
\* The step of a run is the one its next command says.
LEMMA StepIs ==
    ASSUME NEW s \in Scripts, ScriptStep(s)
    PROVE  /\ ~Idle(s)
           /\ \/ At(s, "enabled") /\ Enabled(s)
              \/ At(s, "render") /\ Render(s)
              \/ At(s, "watch") /\ Watch(s)
              \/ At(s, "submit") /\ Submit(s)
              \/ At(s, "cru") /\ Cru(s)
              \/ At(s, "look_up") /\ Look(s)
              \/ At(s, "look_ctl") /\ Look(s)
              \/ At(s, "launch_up") /\ Launch(s)
              \/ At(s, "launch_ctl") /\ Launch(s)
              \/ At(s, "term") /\ Terminate(s)
              \/ At(s, "kill9") /\ Kill(s)
              \/ At(s, "del_rules") /\ DelRules(s)
              \/ At(s, "del_rules_if") /\ (DelRules(s) \/ SkipRules(s))
              \/ At(s, "add_rule") /\ AddRule(s)
<1>1. \A step : At(s, step) => ~Idle(s)
  BY DEF At
<1>2. /\ Enabled(s) => At(s, "enabled")
      /\ Render(s) => At(s, "render")
      /\ Watch(s) => At(s, "watch")
      /\ Submit(s) => At(s, "submit")
      /\ Cru(s) => At(s, "cru")
      /\ Terminate(s) => At(s, "term")
      /\ Kill(s) => At(s, "kill9")
      /\ AddRule(s) => At(s, "add_rule")
  BY DEF Enabled, Render, Watch, Submit, Cru, Terminate, Kill, AddRule
<1>3. /\ Look(s) => At(s, "look_up") \/ At(s, "look_ctl")
      /\ Launch(s) => At(s, "launch_up") \/ At(s, "launch_ctl")
      /\ DelRules(s) => At(s, "del_rules") \/ At(s, "del_rules_if")
      /\ SkipRules(s) => At(s, "del_rules_if")
  BY DEF Look, Launch, DelRules, SkipRules
<1> QED
  BY <1>1, <1>2, <1>3 DEF ScriptStep

\* What a run has left after it, and what it leaves alone.
LEMMA Goes ==
    ASSUME ServiceTypeOK, NEW s \in Scripts, ~Idle(s), NEW steps, Goto(s, steps)
    PROVE  /\ script'[s].todo = steps
           /\ steps # <<>> => /\ ~Idle(s)' /\ script'[s].port = script[s].port
                              /\ DOMAIN script'[s] = {"todo", "port"}
           /\ steps = <<>> => Idle(s)'
           /\ DOMAIN script' = Scripts
           /\ \A t \in Scripts : t # s => script'[t] = script[t]
<1>1. DOMAIN script = Scripts /\ DOMAIN script[s] = {"todo", "port"}
  BY DEF ServiceTypeOK
<1>2. CASE steps = <<>>
  BY <1>1, <1>2 DEF Goto, NoRun, Idle
<1>3. CASE steps # <<>>
  <2>1. script' = [script EXCEPT ![s] = [script[s] EXCEPT !.todo = steps]]
    BY <1>3 DEF Goto
  <2>2. script'[s] = [script[s] EXCEPT !.todo = steps]
    BY <1>1, <2>1
  <2>3. /\ script'[s].todo = steps /\ script'[s].port = script[s].port
        /\ DOMAIN script'[s] = {"todo", "port"}
    BY <1>1, <2>2
  <2>4. ~Idle(s)'
    BY <1>3, <2>3 DEF Idle, NoRun
  <2> QED
    BY <1>1, <1>3, <2>1, <2>3, <2>4
<1> QED
  BY <1>2, <1>3

\* So a step of a run changes nothing of the other ones.
LEMMA StepGoes ==
    ASSUME ServiceTypeOK, NEW s \in Scripts, ScriptStep(s)
    PROVE  ~Idle(s) /\ \E steps : Goto(s, steps)
BY StepIs DEF Enabled, Render, Watch, Submit, Cru, Look, Launch, Terminate,
              Kill, DelRules, SkipRules, AddRule, Advance, Return

\* The variables a run's step can change keep their types.
LEMMA StepTyped ==
    ASSUME ServiceTypeOK, NEW s \in Scripts, ScriptStep(s) PROVE ServiceTypeOK'
<1>1. PICK steps : Goto(s, steps)
  BY StepGoes
<1>2. ~Idle(s) /\ script[s].port \in Ports
  BY StepGoes DEF ServiceTypeOK
<1>3. /\ DOMAIN script' = Scripts
      /\ \A t \in Scripts :
            \/ Idle(t)'
            \/ DOMAIN script'[t] = {"todo", "port"} /\ script'[t].port \in Ports
  <2>1. \A t \in Scripts : t # s => (Idle(t)' <=> Idle(t))
    BY <1>1, <1>2, Goes DEF Idle
  <2>2. Idle(s)' \/ (DOMAIN script'[s] = {"todo", "port"} /\ script'[s].port \in Ports)
    BY <1>1, <1>2, Goes
  <2>3. \A t \in Scripts : t # s => script'[t] = script[t]
    BY <1>1, <1>2, Goes
  <2>4. DOMAIN script' = Scripts
    BY <1>1, <1>2, Goes
  <2> QED
    BY <2>1, <2>2, <2>3, <2>4 DEF ServiceTypeOK
<1>4. UNCHANGED <<dbus, alone>>
  BY StepIs DEF Enabled, Render, Watch, Submit, Cru, Look, Launch, Terminate,
              Kill, DelRules, SkipRules, AddRule
<1>5. /\ dbus.ver \in Vers \cup {BadVer} /\ dbus.watchdog \in BOOLEAN
      /\ config \in Vers /\ cron \in BOOLEAN
  BY SettingsAssumption DEF ServiceTypeOK
<1>6. cron' \in BOOLEAN /\ config' \in Vers
  BY <1>5, StepIs DEF Enabled, Render, Watch, Submit, Cru, Look, Launch, Terminate,
              Kill, DelRules, SkipRules, AddRule
<1> DEFINE Process == [name : Names, phase : {"starting", "running", "ending"},
                       port : Ports, ver : Vers]
<1>7. procs' \in [Slots -> {Gone} \cup Process]
  <2>1. procs \in [Slots -> {Gone} \cup Process]
    BY DEF ServiceTypeOK
  <2>2. CASE Launch(s)
    <3>1. ASSUME NEW p \in Process, Fork(p) PROVE procs' \in [Slots -> {Gone} \cup Process]
      <4> HIDE DEF Process
      <4> QED
        BY <2>1, <3>1 DEF Fork
    <3>2. \A name \in {"wb2api", "serve"} :
             Proc(name, "starting", script[s].port) \in Process
      BY <1>2, <1>5 DEF Proc, Names
    <3> QED
      BY <2>2, <3>1, <3>2 DEF Launch
  <2>3. CASE Terminate(s)
    <3>1. \A p \in Process : Term(p) \in {Gone} \cup Process
      BY DEF Term
    <3> HIDE DEF Process
    <3> QED
      BY <2>1, <2>3, <3>1 DEF Terminate
  <2>4. CASE Kill(s)
    BY <2>4 DEF Kill, Killed
  <2>5. CASE UNCHANGED procs
    BY <2>1, <2>5
  <2>6. Launch(s) \/ Terminate(s) \/ Kill(s) \/ UNCHANGED procs
    BY DEF ScriptStep, Enabled, Render, Watch, Submit, Cru, Look, DelRules, SkipRules, AddRule
  <2> QED
    BY <2>2, <2>3, <2>4, <2>5, <2>6
<1>8. rules' \in [Ports \X Scopes -> 0..MaxRules] /\ piled' \in BOOLEAN
  <2>1. /\ rules \in [Ports \X Scopes -> 0..MaxRules] /\ piled \in BOOLEAN
        /\ MaxRules \in Nat
    BY MaxRulesAssumption DEF ServiceTypeOK
  <2>2. CASE DelRules(s)
    <3>1. \A n \in 0..MaxRules : n > 0 => n - 1 \in 0..MaxRules
      BY <2>1
    <3> QED
      BY <2>1, <2>2, <3>1 DEF DelRules
  <2>3. CASE AddRule(s)
    <3>1. \A n \in 0..MaxRules : n < MaxRules => n + 1 \in 0..MaxRules
      BY <2>1
    <3>2. rules' \in [Ports \X Scopes -> 0..MaxRules]
      BY <2>1, <2>3, <3>1 DEF AddRule
    <3>3. piled' \in BOOLEAN
      BY <2>3, Zenon DEF AddRule
    <3> QED
      BY <3>2, <3>3
  <2>4. CASE UNCHANGED <<rules, piled>>
    BY <2>1, <2>4
  <2>5. DelRules(s) \/ AddRule(s) \/ UNCHANGED <<rules, piled>>
    BY DEF ScriptStep, Enabled, Render, Watch, Submit, Cru, Look, Launch, Terminate,
           Kill, SkipRules
  <2> QED
    BY <2>2, <2>3, <2>4, <2>5
<1>9. dbus' \in Settings /\ alone' \in {NotAlone} \cup [op : {"stop", "web_submit"}, port : Ports]
  BY <1>4 DEF ServiceTypeOK
<1> QED
  BY <1>3, <1>6, <1>7, <1>8, <1>9 DEF ServiceTypeOK

\* Of a run whose next command is known the step is known, too.
LEMMA Commanded ==
    ASSUME ServiceTypeOK, NEW s \in Scripts, ScriptStep(s),
           NEW step, NEW next, Follows(script[s].todo, step, next)
    PROVE  /\ step = "enabled" => Enabled(s)
           /\ step = "render" => Render(s)
           /\ step = "submit" => Submit(s)
           /\ step = "cru" => Cru(s)
           /\ step \in {"look_up", "look_ctl"} => Look(s)
           /\ step \in {"launch_up", "launch_ctl"} => Launch(s)
           /\ step = "term" => Terminate(s)
           /\ step = "kill9" => Kill(s)
           /\ step = "del_rules" => DelRules(s)
           /\ step = "del_rules_if" => DelRules(s) \/ SkipRules(s)
           /\ step = "add_rule" => AddRule(s)
           /\ \A h : At(s, h) => h = step
           /\ Advance(s) => script'[s].todo = next
<1>1. Head(script[s].todo) = step /\ Tail(script[s].todo) = next
  BY DEF Follows
<1>2. \A h : At(s, h) => h = step
  BY <1>1 DEF At
<1>3. Advance(s) => script'[s].todo = next
  BY <1>1, StepGoes, Goes DEF Advance
<1> QED
  BY <1>2, <1>3, StepIs

-----------------------------------------------------------------------------
\* What has been reached stays, as long as nothing of it changes.
LEMMA JustStays ==
    ASSUME NEW N, Just(N), UNCHANGED <<procs, dbus>>, N = {} \/ config' = config
    PROVE  Just(N)'
BY DEF Just

\* kill -9 leaves no process.
LEMMA KillLeaves == ASSUME NEW s, Kill(s) PROVE Just({})'
BY DEF Kill, Killed, Just, Gone

\* A process more, in a slot that was free.
LEMMA LaunchAdds ==
    ASSUME ServiceTypeOK, NEW N \in SUBSET Both, Just(N), NEW n \in Both \ N,
           Fork(Proc(n, "starting", dbus.port)), UNCHANGED <<dbus, config>>
    PROVE  Just(N \cup {n})'
<1> DEFINE p == Proc(n, "starting", dbus.port)
<1>1. PICK k \in Slots : procs[k] = Gone /\ procs' = [procs EXCEPT ![k] = p]
  <2> DEFINE k == CHOOSE i \in Slots : procs[i] = Gone
  <2>1. k \in Slots /\ procs[k] = Gone /\ procs' = [procs EXCEPT ![k] = p]
    BY DEF Fork
  <2> HIDE DEF k, p
  <2> QED
    BY <2>1
<1>2. p.name = n /\ p.phase = "starting" /\ p.port = dbus.port
  BY DEF Proc
<1>3. /\ procs'[k] = p /\ \A i \in Slots : i # k => procs'[i] = procs[i]
      /\ n # "none" /\ Gone.name = "none"
  BY <1>1 DEF ServiceTypeOK, Both, Gone
<1> HIDE DEF p
<1>4. \A i \in Slots : procs[i].name # n
  BY <1>3 DEF Just
<1>5. /\ \A m \in N \cup {n} : \E i \in Slots : procs'[i].name = m
      /\ \A i, j \in Slots :
            procs'[i].name = procs'[j].name /\ procs'[i].name # "none" => i = j
  <2>1. \A m \in N : \E i \in Slots : i # k /\ procs[i].name = m
    BY <1>1, <1>3 DEF Just, Both
  <2> QED
    BY <1>2, <1>3, <1>4, <2>1 DEF Just
<1>6. \A i \in Slots :
         \/ procs'[i] = Gone
         \/ /\ procs'[i].name \in N \cup {n}
            /\ procs'[i].phase \in {"starting", "running"}
            /\ procs'[i].port = dbus.port
            /\ procs'[i].phase = "running" => procs'[i].ver = config
  BY <1>2, <1>3 DEF Just
<1> QED
  BY <1>5, <1>6 DEF Just

\* With one rule of each at most, iptables -D leaves none for the port.
LEMMA DeleteCloses ==
    ASSUME ServiceTypeOK, OneEach, NEW s \in Scripts, DelRules(s),
           script[s].port = dbus.port
    PROVE  Closed'
<1> SUFFICES ASSUME ~piled', NEW r \in DOMAIN rules', r[1] = dbus'.port
             PROVE  rules'[r] = 0
  BY DEF Closed
<1>1. /\ ~piled /\ dbus' = dbus /\ r \in DOMAIN rules /\ rules[r] \in Nat
      /\ rules'[r] = IF r[1] = script[s].port /\ rules[r] > 0 THEN rules[r] - 1
                                                              ELSE rules[r]
  BY MaxRulesAssumption DEF DelRules, ServiceTypeOK
<1>2. rules[r] <= 1
  BY <1>1 DEF OneEach
<1> QED
  BY <1>1, <1>2

\* The rule that is added is the only one for the port, and there is one of it.
LEMMA AddOpens ==
    ASSUME ServiceTypeOK, OneEach, NEW s \in Scripts, AddRule(s), Closed,
           dbus.firewall, script[s].port = dbus.port
    PROVE  Opened'
<1> DEFINE a == <<dbus.port, Scope>>
<1>1. /\ dbus.port \in Ports /\ Scope \in Scopes /\ dbus' = dbus /\ Scope' = Scope
      /\ rules \in [Ports \X Scopes -> 0..MaxRules] /\ MaxRules \in Nat
  BY SettingsAssumption, MaxRulesAssumption DEF ServiceTypeOK, AddRule, Scope, Scopes
<1>2. a \in DOMAIN rules /\ a[1] = dbus.port
  BY <1>1
<1>3. rules' = [rules EXCEPT ![a] = rules[a] + 1]
  BY DEF AddRule
<1> SUFFICES ASSUME ~piled' PROVE Rules(dbus.port)' = {a}
  BY <1>1 DEF Opened
<1>4. ~piled /\ \A r \in DOMAIN rules : r[1] = dbus.port => rules[r] = 0
  BY DEF AddRule, Closed
<1> HIDE DEF a
<1>5. /\ DOMAIN rules' = DOMAIN rules /\ rules'[a] = 1
      /\ \A r \in DOMAIN rules : r # a => rules'[r] = rules[r]
  BY <1>1, <1>2, <1>3, <1>4
<1>6. \A r \in DOMAIN rules : r[1] = dbus.port => (rules'[r] > 0 <=> r = a)
  BY <1>4, <1>5
<1> QED
  BY <1>1, <1>2, <1>5, <1>6 DEF Rules

\* There is none if the firewall is to be left alone.
LEMMA SkipOpens ==
    ASSUME NEW s, SkipRules(s), Closed PROVE Opened'
<1> SUFFICES ASSUME ~piled' PROVE Rules(dbus.port)' = {}
  BY DEF Opened, SkipRules
<1>1. UNCHANGED <<rules, dbus>> /\ \A r \in DOMAIN rules : r[1] = dbus.port => rules[r] = 0
  BY DEF SkipRules, Closed
<1> QED
  BY <1>1 DEF Rules

\* No step makes a second equal rule unnoticed.
LEMMA StepOneEach ==
    ASSUME ServiceTypeOK, OneEach, NEW s \in Scripts, ScriptStep(s) PROVE OneEach'
<1>1. CASE DelRules(s)
  <2>1. \A r \in DOMAIN rules : rules[r] \in Nat
    BY MaxRulesAssumption DEF ServiceTypeOK
  <2> QED
    BY <1>1, <2>1 DEF DelRules, OneEach
<1>2. CASE AddRule(s)
  <2>1. \A r \in DOMAIN rules' : rules'[r] \in Nat
    BY StepTyped, MaxRulesAssumption DEF ServiceTypeOK
  <2>2. ~piled' => \A r \in DOMAIN rules' : ~(rules'[r] > 1)
    BY <1>2 DEF AddRule
  <2> QED
    BY <2>1, <2>2 DEF OneEach
<1>3. CASE UNCHANGED <<rules, piled>>
  BY <1>3 DEF OneEach
<1>4. DelRules(s) \/ AddRule(s) \/ UNCHANGED <<rules, piled>>
  BY DEF ScriptStep, Enabled, Render, Watch, Submit, Cru, Look, Launch, Terminate,
         Kill, SkipRules
<1> QED
  BY <1>1, <1>2, <1>3, <1>4

-----------------------------------------------------------------------------
\* The stop button: what runs is gone after kill -9, the rules after that.
LEMMA StopGoes ==
    ASSUME ServiceTypeOK, OneEach, NEW s \in Scripts, ScriptStep(s),
           script[s].port = dbus.port, script[s].todo # <<>>,
           StopCourse(script[s].todo)
    PROVE  StopCourse(script[s].todo)'
<1>1. CASE script[s].todo = StopTerm
  <2>0. Follows(script[s].todo, "term", StopKill)
    BY <1>1, Commands
  <2> QED
    BY <2>0, Commanded DEF Terminate, StopCourse
<1>2. CASE script[s].todo = StopKill
  <2>0. Follows(script[s].todo, "kill9", StopDelete)
    BY <1>2, Commands
  <2> QED
    BY <2>0, Commanded, KillLeaves DEF Kill, StopCourse
<1>3. CASE script[s].todo = StopDelete /\ Just({})
  <2>0. Follows(script[s].todo, "del_rules", <<>>)
    BY <1>3, Commands
  <2>1. DelRules(s) /\ Advance(s) /\ script'[s].todo = <<>>
    BY <2>0, Commanded DEF DelRules
  <2>2. Closed'
    BY <2>1, DeleteCloses
  <2>3. Just({})'
    BY <1>3, <2>1, JustStays DEF DelRules
  <2> QED
    BY <2>1, <2>2, <2>3 DEF StopCourse
<1> QED
  BY <1>1, <1>2, <1>3 DEF StopCourse

\* Saving with the service disabled: the same, and then cru.
LEMMA OffGoes ==
    ASSUME ServiceTypeOK, OneEach, NEW s \in Scripts, ScriptStep(s),
           script[s].port = dbus.port, script[s].todo # <<>>,
           ~dbus.enable, OffCourse(script[s].todo)
    PROVE  OffCourse(script[s].todo)'
<1>1. CASE script[s].todo = Saving
  <2>0. Follows(script[s].todo, "render", Submitting)
    BY <1>1, Commands
  <2> QED
    BY <2>0, Commanded DEF Render, OffCourse
<1>2. CASE script[s].todo = Submitting
  <2>0. Follows(script[s].todo, "submit", <<>>)
    BY <1>2, Commands
  <2>1. Submit(s)
    BY <2>0, Commanded
  <2>2. dbus.enable = FALSE
    BY SettingsAssumption DEF ServiceTypeOK
  <2>3. Goto(s, OffTerm)
    BY <2>1, <2>2, Courses DEF Submit
  <2> QED
    BY <2>3, StepGoes, Goes DEF OffCourse
<1>3. CASE script[s].todo = OffTerm
  <2>0. Follows(script[s].todo, "term", OffKill)
    BY <1>3, Commands
  <2> QED
    BY <2>0, Commanded DEF Terminate, OffCourse
<1>4. CASE script[s].todo = OffKill
  <2>0. Follows(script[s].todo, "kill9", OffDelete)
    BY <1>4, Commands
  <2> QED
    BY <2>0, Commanded, KillLeaves DEF Kill, OffCourse
<1>5. CASE script[s].todo = OffDelete /\ Just({})
  <2>0. Follows(script[s].todo, "del_rules", AtCru)
    BY <1>5, Commands
  <2>1. DelRules(s) /\ Advance(s) /\ script'[s].todo = AtCru
    BY <2>0, Commanded DEF DelRules
  <2>2. Closed'
    BY <2>1, DeleteCloses
  <2>3. Just({})'
    BY <1>5, <2>1, JustStays DEF DelRules
  <2> QED
    BY <2>1, <2>2, <2>3 DEF OffCourse
<1>6. CASE script[s].todo = AtCru /\ Just({}) /\ Closed
  <2>0. Follows(script[s].todo, "cru", <<>>)
    BY <1>6, Commands
  <2>1. Cru(s) /\ Advance(s) /\ script'[s].todo = <<>>
    BY <2>0, Commanded DEF Cru
  <2>2. Just({})' /\ Closed'
    BY <1>6, <2>1, JustStays DEF Cru, Closed
  <2> QED
    BY <2>1, <2>2 DEF OffCourse
<1> QED
  BY <1>1, <1>2, <1>3, <1>4, <1>5, <1>6 DEF OffCourse

\* Saving with it enabled: stop, render, launch what is missing, which is
\* everything, open the port, and then cru.
LEMMA OnGoes ==
    ASSUME ServiceTypeOK, OneEach, NEW s \in Scripts, ScriptStep(s),
           script[s].port = dbus.port, script[s].todo # <<>>,
           dbus.enable, OnCourse(script[s].todo)
    PROVE  OnCourse(script[s].todo)'
<1>a. Gone.name = "none"
  BY DEF Gone
<1>1. CASE script[s].todo = Saving
  <2>0. Follows(script[s].todo, "render", Submitting)
    BY <1>1, Commands
  <2> QED
    BY <2>0, Commanded DEF Render, OnCourse
<1>2. CASE script[s].todo = Submitting
  <2>0. Follows(script[s].todo, "submit", <<>>)
    BY <1>2, Commands
  <2>1. Submit(s)
    BY <2>0, Commanded
  <2>2. dbus.enable = TRUE
    BY SettingsAssumption DEF ServiceTypeOK
  <2>3. Goto(s, OnTerm)
    BY <2>1, <2>2, Courses DEF Submit
  <2> QED
    BY <2>3, StepGoes, Goes DEF OnCourse
<1>3. CASE script[s].todo = OnTerm
  <2>0. Follows(script[s].todo, "term", OnKill)
    BY <1>3, Commands
  <2> QED
    BY <2>0, Commanded DEF Terminate, OnCourse
<1>4. CASE script[s].todo = OnKill
  <2>0. Follows(script[s].todo, "kill9", OnDelete)
    BY <1>4, Commands
  <2> QED
    BY <2>0, Commanded, KillLeaves DEF Kill, OnCourse
<1>5. CASE script[s].todo = OnDelete /\ Just({})
  <2>0. Follows(script[s].todo, "del_rules", OnEnabled)
    BY <1>5, Commands
  <2>1. DelRules(s) /\ Advance(s) /\ script'[s].todo = OnEnabled
    BY <2>0, Commanded DEF DelRules
  <2>2. Closed'
    BY <2>1, DeleteCloses
  <2>3. Just({})'
    BY <1>5, <2>1, JustStays DEF DelRules
  <2> QED
    BY <2>1, <2>2, <2>3 DEF OnCourse
<1>6. CASE script[s].todo = OnEnabled /\ Just({}) /\ Closed
  <2>0. Follows(script[s].todo, "enabled", OnRender)
    BY <1>6, Commands
  <2>1. Enabled(s) /\ Advance(s) /\ script'[s].todo = OnRender
    BY <2>0, Commanded DEF Enabled
  <2>2. Just({})' /\ Closed'
    BY <1>6, <2>1, JustStays DEF Enabled, Closed
  <2> QED
    BY <2>1, <2>2 DEF OnCourse
<1>7. CASE script[s].todo = OnRender /\ Just({}) /\ Closed
  <2>0. Follows(script[s].todo, "render", OnLookUp)
    BY <1>7, Commands
  <2>1. Render(s) /\ Advance(s) /\ script'[s].todo = OnLookUp
    BY <2>0, Commanded DEF Render
  <2>2. Just({})' /\ Closed' /\ Rendered'
    BY <1>7, <2>1, JustStays DEF Render, Closed, Rendered
  <2> QED
    BY <2>1, <2>2 DEF OnCourse
<1>8. CASE script[s].todo = OnLookUp /\ Just({}) /\ Closed /\ Rendered
  <2>0. Follows(script[s].todo, "look_up", OnLookCtl)
    BY <1>8, Commands
  <2>a. Upstream = {}
    BY <1>8, <1>a DEF Just, Upstream
  <2>1. Look(s) /\ Upstream = {} /\ ~At(s, "look_ctl")
    BY <2>0, <2>a, Commanded
  <2>2. Goto(s, OnLaunchUp)
    BY <1>8, <2>1, <2>0, Courses DEF Look, Follows
  <2>3. script'[s].todo = OnLaunchUp
    BY <2>2, StepGoes, Goes
  <2>4. Just({})' /\ Closed' /\ Rendered'
    BY <1>8, <2>1, JustStays DEF Look, Closed, Rendered
  <2> QED
    BY <2>3, <2>4 DEF OnCourse
<1>9. CASE script[s].todo = OnLaunchUp /\ Just({}) /\ Closed /\ Rendered
  <2>0. Follows(script[s].todo, "launch_up", OnLookCtl)
    BY <1>9, Commands
  <2>a. Launch(s) /\ ~At(s, "launch_ctl")
    BY <2>0, Commanded
  <2>b. Advance(s)
    BY <2>a DEF Launch
  <2>1. Launch(s) /\ ~At(s, "launch_ctl") /\ script'[s].todo = OnLookCtl
    BY <2>0, <2>a, <2>b, Commanded
  <2>2. Fork(Proc("wb2api", "starting", dbus.port)) /\ UNCHANGED <<dbus, config>>
    BY <2>1 DEF Launch
  <2>3. Just({} \cup {"wb2api"})'
    BY <1>9, <2>2, LaunchAdds DEF Both
  <2>4. Closed' /\ Rendered'
    BY <1>9, <2>1 DEF Launch, Closed, Rendered
  <2>5. Just({"wb2api"})'
    BY <2>3
  <2> QED
    BY <2>1, <2>4, <2>5 DEF OnCourse
<1>10. CASE script[s].todo = OnLookCtl /\ Just({"wb2api"}) /\ Closed /\ Rendered
  <2>0. Follows(script[s].todo, "look_ctl", OnClear)
    BY <1>10, Commands
  <2>a. Ctl = {}
    BY <1>10, <1>a DEF Just, Ctl
  <2>1. Look(s) /\ Ctl = {} /\ ~At(s, "look_up")
    BY <2>0, <2>a, Commanded
  <2>2. Goto(s, OnLaunchCtl)
    BY <1>10, <2>1, <2>0, Courses DEF Look, Follows
  <2>3. script'[s].todo = OnLaunchCtl
    BY <2>2, StepGoes, Goes
  <2>4. Just({"wb2api"})' /\ Closed' /\ Rendered'
    BY <1>10, <2>1, JustStays DEF Look, Closed, Rendered
  <2> QED
    BY <2>3, <2>4 DEF OnCourse
<1>11. CASE script[s].todo = OnLaunchCtl /\ Just({"wb2api"}) /\ Closed /\ Rendered
  <2>0. Follows(script[s].todo, "launch_ctl", OnClear)
    BY <1>11, Commands
  <2>a. Launch(s) /\ ~At(s, "launch_up")
    BY <2>0, Commanded
  <2>b. Advance(s)
    BY <2>a DEF Launch
  <2>1. Launch(s) /\ ~At(s, "launch_up") /\ script'[s].todo = OnClear
    BY <2>0, <2>a, <2>b, Commanded
  <2>2. Fork(Proc("serve", "starting", dbus.port)) /\ UNCHANGED <<dbus, config>>
    BY <2>1 DEF Launch
  <2>3. Just({"wb2api"} \cup {"serve"})'
    BY <1>11, <2>2, LaunchAdds DEF Both
  <2>4. Closed' /\ Rendered'
    BY <1>11, <2>1 DEF Launch, Closed, Rendered
  <2>5. {"wb2api"} \cup {"serve"} = Both
    BY DEF Both
  <2>6. Just(Both)'
    BY <2>3, <2>5
  <2> QED
    BY <2>1, <2>4, <2>6 DEF OnCourse
<1>12. CASE script[s].todo = OnClear /\ Just(Both) /\ Closed /\ Rendered
  <2>0. Follows(script[s].todo, "del_rules_if", OnAdd)
    BY <1>12, Commands
  <2>1. DelRules(s) \/ SkipRules(s)
    BY <2>0, Commanded
  <2>2. Just(Both)' /\ Rendered'
    BY <1>12, <2>1, JustStays DEF DelRules, SkipRules, Rendered
  <2>3. CASE DelRules(s)
    <3>1. ~At(s, "del_rules") /\ Advance(s) /\ script'[s].todo = OnAdd
      BY <2>3, <2>0, Commanded DEF DelRules
    <3>2. dbus'.firewall
      BY <2>3, <3>1 DEF DelRules
    <3>3. Closed'
      BY <2>3, DeleteCloses
    <3> QED
      BY <2>2, <3>1, <3>2, <3>3 DEF OnCourse
  <2>4. CASE SkipRules(s)
    <3>1. Goto(s, AtCru)
      BY <1>12, <2>4, Returns DEF SkipRules, Return
    <3>2. script'[s].todo = AtCru
      BY <3>1, StepGoes, Goes
    <3>3. Opened'
      BY <1>12, <2>4, SkipOpens
    <3> QED
      BY <2>2, <3>2, <3>3 DEF OnCourse
  <2> QED
    BY <2>1, <2>3, <2>4
<1>13. CASE script[s].todo = OnAdd /\ Just(Both) /\ Closed /\ Rendered /\ dbus.firewall
  <2>0. Follows(script[s].todo, "add_rule", AtCru)
    BY <1>13, Commands
  <2>1. AddRule(s) /\ Advance(s) /\ script'[s].todo = AtCru
    BY <2>0, Commanded DEF AddRule
  <2>2. Opened'
    BY <1>13, <2>1, AddOpens
  <2>3. Just(Both)' /\ Rendered'
    BY <1>13, <2>1, JustStays DEF AddRule, Rendered
  <2> QED
    BY <2>1, <2>2, <2>3 DEF OnCourse
<1>14. CASE script[s].todo = AtCru /\ Just(Both) /\ Opened /\ Rendered
  <2>0. Follows(script[s].todo, "cru", <<>>)
    BY <1>14, Commands
  <2>1. Cru(s) /\ Advance(s) /\ script'[s].todo = <<>>
    BY <2>0, Commanded DEF Cru
  <2>2. Just(Both)' /\ Rendered' /\ cron' = dbus'.watchdog
    BY <1>14, <2>1, JustStays DEF Cru, Rendered
  <2>3. Opened'
    BY <1>14, <2>1 DEF Cru, Opened, Rules, Scope
  <2> QED
    BY <2>1, <2>2, <2>3 DEF OnCourse
<1> QED
  BY <1>1, <1>2, <1>3, <1>4, <1>5, <1>6, <1>7, <1>8, <1>9, <1>10, <1>11,
     <1>12, <1>13, <1>14
  DEF OnCourse

-----------------------------------------------------------------------------
\* A process that takes its port, or ends, leaves those that were launched.
LEMMA JustBinds ==
    ASSUME ServiceTypeOK, NEW N \in SUBSET Both, Just(N),
           NEW i \in Slots, Bind(i) \/ End(i)
    PROVE  Just(N)'
<1>0. UNCHANGED <<dbus, config>> /\ procs[i] # Gone
  BY DEF Bind, End, Gone
<1>1. /\ procs[i].name \in N /\ procs[i].phase \in {"starting", "running"}
      /\ procs[i].name # "command" /\ procs[i].name # "none"
  BY <1>0 DEF Just, Both
<1>2. Bind(i)
  BY <1>1 DEF End
<1>3. ~Taken(i)
  BY <1>1 DEF Taken, Just
<1>4. /\ procs[i] \in [name : Names, phase : {"starting", "running", "ending"},
                        port : Ports, ver : Vers]
      /\ procs' = [procs EXCEPT ![i] = [procs[i] EXCEPT !.phase = "running", !.ver = config]]
  BY <1>0, <1>2, <1>3 DEF Bind, ServiceTypeOK
<1>5. /\ procs'[i].name = procs[i].name /\ procs'[i].port = procs[i].port
      /\ procs'[i].ver = config /\ procs'[i].phase = "running"
      /\ \A j \in Slots : j # i => procs'[j] = procs[j]
  BY <1>4 DEF ServiceTypeOK
<1>6. \A j \in Slots : procs'[j].name = procs[j].name
  BY <1>5
<1> QED
  BY <1>0, <1>1, <1>5, <1>6 DEF Just

\* They keep their types.
LEMMA ProcessTyped ==
    ASSUME ServiceTypeOK, NEW i \in Slots, Bind(i) \/ End(i) \/ Die(i)
    PROVE  procs' \in [Slots -> {Gone} \cup
                          [name : Names, phase : {"starting", "running", "ending"},
                           port : Ports, ver : Vers]]
<1> DEFINE Process == [name : Names, phase : {"starting", "running", "ending"},
                       port : Ports, ver : Vers]
<1>1. procs \in [Slots -> {Gone} \cup Process] /\ config \in Vers
  BY DEF ServiceTypeOK
<1> HIDE DEF Process
<1>2. ASSUME NEW q \in {Gone} \cup Process, procs' = [procs EXCEPT ![i] = q]
      PROVE  procs' \in [Slots -> {Gone} \cup Process]
  BY <1>1, <1>2
<1>3. procs[i].name # "none" =>
         [procs[i] EXCEPT !.phase = "running", !.ver = config] \in Process
  <2>1. procs[i].name # "none" => procs[i] \in Process
    BY <1>1 DEF Gone
  <2> QED
    BY <1>1, <2>1 DEF Process
<1>4. CASE Bind(i)
  <2>1. procs[i].name # "none"
    BY <1>4 DEF Bind
  <2>2. procs' = [procs EXCEPT ![i] =
                     IF Taken(i) THEN Gone
                     ELSE [procs[i] EXCEPT !.phase = "running", !.ver = config]]
    BY <1>4 DEF Bind
  <2>3. procs' \in [Slots -> {Gone} \cup Process]
    BY <1>2, <1>3, <2>1, <2>2
  <2> QED
    BY <2>3 DEF Process
<1>5. CASE End(i) \/ Die(i)
  <2>1. procs' = [procs EXCEPT ![i] = Gone]
    BY <1>5 DEF End, Die
  <2>2. procs' \in [Slots -> {Gone} \cup Process]
    BY <1>2, <2>1
  <2> QED
    BY <2>2 DEF Process
<1> QED
  BY <1>4, <1>5

\* The settings the page stores, and the run that begins.
LEMMA BeginTyped ==
    ASSUME ServiceTypeOK, NEW s \in Scripts, NEW op, NEW port \in Ports, Begin(s, op, port)
    PROVE  /\ DOMAIN script' = Scripts
           /\ \A t \in Scripts :
                 \/ Idle(t)'
                 \/ DOMAIN script'[t] = {"todo", "port"} /\ script'[t].port \in Ports
           /\ alone' \in {NotAlone} \cup [op : {"stop", "web_submit"}, port : Ports]
<1>1. /\ DOMAIN script = Scripts
      /\ script' = [script EXCEPT ![s] = [todo |-> StepsOf(op), port |-> port]]
  BY DEF Begin, ServiceTypeOK
<1>2. script'[s] = [todo |-> StepsOf(op), port |-> port]
  BY <1>1
<1>3. \A t \in Scripts : t # s => script'[t] = script[t]
  BY <1>1
<1>4. alone' \in {NotAlone} \cup [op : {"stop", "web_submit"}, port : Ports]
  BY DEF Begin
<1> HIDE DEF StepsOf
<1>5. DOMAIN script'[s] = {"todo", "port"} /\ script'[s].port \in Ports
  BY <1>2
<1> QED
  BY <1>1, <1>3, <1>4, <1>5 DEF ServiceTypeOK, Idle

\* Every step keeps the types.
LEMMA NextTyped == ServiceTypeOK /\ [Next]_vars => ServiceTypeOK'
<1> SUFFICES ASSUME ServiceTypeOK, [Next]_vars PROVE ServiceTypeOK'
  OBVIOUS
<1>0. /\ \A d \in Settings : d.port \in Ports
      /\ MaxRules \in Nat /\ dbus \in Settings
      /\ Calls \subseteq Scripts /\ CronRun \in Scripts
  BY SettingsAssumption, MaxRulesAssumption DEF ServiceTypeOK, Scripts
<1>1. ASSUME NEW s \in Calls, PageCalls(s) PROVE ServiceTypeOK'
  <2>1. PICK op \in {"web_submit", "start", "stop", "restart"}, d \in Settings :
           dbus' = d /\ Begin(s, op, d.port)
    BY <1>1 DEF PageCalls
  <2>2. UNCHANGED <<cron, config, procs, rules, piled>>
    BY <1>1 DEF PageCalls
  <2>3. d.port \in Ports /\ s \in Scripts
    BY <1>0
  <2> QED
    BY <2>1, <2>2, <2>3, BeginTyped DEF ServiceTypeOK
<1>2. CASE CronFires
  <2>1. Begin(CronRun, "watchdog", dbus.port) /\ dbus.port \in Ports
    BY <1>0, <1>2 DEF CronFires
  <2>2. UNCHANGED <<dbus, cron, config, procs, rules, piled>>
    BY <1>2 DEF CronFires
  <2> QED
    BY <1>0, <2>1, <2>2, BeginTyped DEF ServiceTypeOK
<1>3. ASSUME NEW s \in Calls, Reboot(s) PROVE ServiceTypeOK'
  <2>1. /\ cron' \in BOOLEAN /\ alone' = NotAlone /\ piled' \in BOOLEAN
        /\ UNCHANGED <<dbus, config>>
    BY <1>3 DEF Reboot, ServiceTypeOK
  <2>2. /\ procs' \in [Slots -> {Gone}]
        /\ rules' \in [Ports \X Scopes -> 0..MaxRules]
    BY <1>0, <1>3 DEF Reboot
  <2>3. \A t \in Scripts :
           script'[t] = IF t = s THEN [todo |-> StartSteps, port |-> dbus.port] ELSE NoRun
    BY <1>3 DEF Reboot
  <2>4. DOMAIN script' = Scripts
    BY <1>3 DEF Reboot
  <2>5. \A t \in Scripts :
           \/ Idle(t)'
           \/ DOMAIN script'[t] = {"todo", "port"} /\ script'[t].port \in Ports
    BY <1>0, <2>3 DEF Idle
  <2> QED
    BY <2>1, <2>2, <2>4, <2>5 DEF ServiceTypeOK
<1>4. ASSUME NEW s \in Scripts, ScriptStep(s) PROVE ServiceTypeOK'
  BY <1>4, StepTyped
<1>5. ASSUME NEW i \in Slots, Bind(i) \/ End(i) \/ Die(i) PROVE ServiceTypeOK'
  <2>1. UNCHANGED <<dbus, cron, config, rules, script, piled>>
    BY <1>5 DEF Bind, End, Die
  <2>2. alone' \in {alone, NotAlone}
    BY <1>5 DEF Bind, End, Die
  <2> QED
    BY <1>5, <2>1, <2>2, ProcessTyped DEF ServiceTypeOK, Idle
<1>6. CASE Command
  <2> DEFINE Process == [name : Names, phase : {"starting", "running", "ending"},
                         port : Ports, ver : Vers]
             p == Proc("command", "running", dbus.port)
  <2>1. p \in Process
    BY <1>0 DEF Proc, Names, ServiceTypeOK
  <2>2. procs \in [Slots -> {Gone} \cup Process] /\ Fork(p)
    BY <1>6 DEF Command, ServiceTypeOK
  <2>3. procs' \in [Slots -> {Gone} \cup Process]
    <3> HIDE DEF Process, p
    <3> QED
      BY <2>1, <2>2 DEF Fork
  <2>4. UNCHANGED <<dbus, cron, config, rules, script, piled>> /\ alone' = NotAlone
    BY <1>6 DEF Command
  <2> QED
    BY <2>3, <2>4 DEF ServiceTypeOK, Idle
<1>7. CASE UNCHANGED vars
  BY <1>7 DEF vars, ServiceTypeOK, Idle
<1> QED
  BY <1>1, <1>2, <1>3, <1>4, <1>5, <1>6, <1>7 DEF Next

-----------------------------------------------------------------------------
\* A run that begins alone has everything before it.
LEMMA BeginOnItsWay ==
    ASSUME ServiceTypeOK, NEW s \in Scripts,
           NEW op \in {"stop", "web_submit", "start", "restart", "watchdog"},
           dbus' \in Settings, Begin(s, op, dbus'.port)
    PROVE  OnItsWay'
<1> SUFFICES ASSUME alone' # NotAlone PROVE OnItsWay'
  BY DEF OnItsWay
<1>1. /\ op \in {"stop", "web_submit"} /\ \A t \in Scripts : Idle(t)
      /\ alone' = [op |-> op, port |-> dbus'.port]
      /\ script' = [script EXCEPT ![s] = [todo |-> StepsOf(op), port |-> dbus'.port]]
      /\ DOMAIN script = Scripts
  BY DEF Begin, ServiceTypeOK
<1>2. alone'.op = op /\ alone'.port = dbus'.port
  BY <1>1
<1>3. /\ script'[s].todo = StepsOf(op) /\ script'[s].port = dbus'.port
      /\ \A t \in Scripts \ {s} : Idle(t)'
  BY <1>1 DEF Idle
<1>4. StepsOf(op) # <<>> /\ Course(StepsOf(op))'
  <2>1. dbus'.enable \in BOOLEAN
    BY SettingsAssumption
  <2>2. CASE op = "stop"
    <3>1. StepsOf(op) = StopTerm /\ StopTerm # <<>>
      BY <2>2, Courses, Commands DEF Follows
    <3> QED
      BY <1>2, <2>2, <3>1 DEF Course, StopCourse
  <2>3. CASE op = "web_submit"
    <3>1. StepsOf(op) = Saving /\ Saving # <<>>
      BY <2>3, Courses, Commands DEF Follows
    <3> QED
      BY <1>2, <2>1, <2>3, <3>1 DEF Course, OffCourse, OnCourse
  <2> QED
    BY <1>1, <2>2, <2>3
<1>5. Course(script[s].todo)'
  BY <1>3, <1>4
<1> QED
  BY <1>2, <1>3, <1>4, <1>5 DEF OnItsWay

\* A step of the run that is alone keeps it on its way.
LEMMA StepOnItsWay ==
    ASSUME SInv, NEW s \in Scripts, ScriptStep(s) PROVE OnItsWay'
<1>0. ServiceTypeOK /\ OneEach /\ OnItsWay /\ ~Idle(s) /\ ServiceTypeOK'
  BY StepGoes, StepTyped DEF SInv
<1>1. UNCHANGED <<dbus, alone>>
  BY DEF ScriptStep, Enabled, Render, Watch, Submit, Cru, Look, Launch, Terminate,
         Kill, DelRules, SkipRules, AddRule
<1> SUFFICES ASSUME alone # NotAlone PROVE OnItsWay'
  BY <1>1 DEF OnItsWay
<1>2. /\ alone.port = dbus.port
      /\ \A t \in Scripts \ {s} : Idle(t)
      /\ script[s].port = dbus.port /\ script[s].todo # <<>>
      /\ Course(script[s].todo)
  BY <1>0 DEF OnItsWay
<1>3. \A t \in Scripts \ {s} : Idle(t)'
  <2>1. \A t \in Scripts : t # s => script'[t] = script[t]
    BY <1>0, StepGoes, Goes
  <2> QED
    BY <1>2, <2>1 DEF Idle
<1>4. ~Idle(s)' => script'[s].port = script[s].port /\ script'[s].todo # <<>>
  BY <1>0, StepGoes, Goes
<1>5. Course(script[s].todo)'
  <2>1. CASE alone.op = "stop" /\ StopCourse(script[s].todo)
    BY <1>0, <1>1, <1>2, <2>1, StopGoes DEF Course
  <2>2. CASE alone.op = "web_submit" /\ ~dbus.enable /\ OffCourse(script[s].todo)
    BY <1>0, <1>1, <1>2, <2>2, OffGoes DEF Course
  <2>3. CASE alone.op = "web_submit" /\ dbus.enable /\ OnCourse(script[s].todo)
    BY <1>0, <1>1, <1>2, <2>3, OnGoes DEF Course
  <2> QED
    BY <1>2, <2>1, <2>2, <2>3 DEF Course
<1> QED
  BY <1>1, <1>2, <1>3, <1>4, <1>5 DEF OnItsWay

\* So does a process that goes on by itself.
LEMMA ProcessOnItsWay ==
    ASSUME SInv, NEW i \in Slots, Bind(i) \/ End(i) PROVE OnItsWay'
<1>0. ServiceTypeOK /\ OnItsWay
  BY DEF SInv
<1>1. UNCHANGED <<dbus, cron, config, rules, script, alone, piled>>
  BY DEF Bind, End
<1>2. /\ Just({}) => Just({})'
      /\ Just({"wb2api"}) => Just({"wb2api"})'
      /\ Just(Both) => Just(Both)'
  <2>1. {} \in SUBSET Both /\ {"wb2api"} \in SUBSET Both /\ Both \in SUBSET Both
    BY DEF Both
  <2>2. ASSUME NEW N \in SUBSET Both, Just(N) PROVE Just(N)'
    BY <1>0, <2>2, JustBinds
  <2>3. ASSUME Just({}) PROVE Just({})'
    BY <2>1, <2>2, <2>3
  <2>4. ASSUME Just({"wb2api"}) PROVE Just({"wb2api"})'
    BY <2>1, <2>2, <2>4
  <2>5. ASSUME Just(Both) PROVE Just(Both)'
    BY <2>1, <2>2, <2>5
  <2> QED
    BY <2>3, <2>4, <2>5
<1>3. /\ Closed => Closed'
      /\ Rendered => Rendered'
      /\ Opened => Opened'
  BY <1>1 DEF Closed, Rendered, Opened, Rules, Scope
<1>5. ASSUME NEW s \in Scripts PROVE Course(script[s].todo) => Course(script[s].todo)'
  <2>1. StopCourse(script[s].todo) => StopCourse(script[s].todo)'
    BY <1>1, <1>2, <1>3 DEF StopCourse
  <2>2. OffCourse(script[s].todo) => OffCourse(script[s].todo)'
    BY <1>1, <1>2, <1>3 DEF OffCourse
  <2>3. OnCourse(script[s].todo) => OnCourse(script[s].todo)'
    BY <1>1, <1>2, <1>3 DEF OnCourse
  <2> QED
    BY <1>1, <2>1, <2>2, <2>3 DEF Course
<1> QED
  BY <1>0, <1>1, <1>5 DEF OnItsWay, Idle

-----------------------------------------------------------------------------
\* The invariant holds before anything runs.
LEMMA InitSInv == Init => SInv
<1> SUFFICES ASSUME Init PROVE SInv
  OBVIOUS
<1>1. ServiceTypeOK
  <2>1. dbus \in Settings /\ dbus.ver \in Vers /\ dbus.watchdog \in BOOLEAN /\ 0 \in 0..MaxRules
    BY SettingsAssumption, MaxRulesAssumption DEF Init
  <2>2. cron \in BOOLEAN /\ config \in Vers /\ piled \in BOOLEAN /\ alone = NotAlone
    BY <2>1 DEF Init
  <2>3. /\ procs \in [Slots -> {Gone}] /\ rules \in [Ports \X Scopes -> 0..MaxRules]
        /\ DOMAIN script = Scripts /\ \A s \in Scripts : Idle(s)
    BY <2>1 DEF Init, Idle
  <2> QED
    BY <2>1, <2>2, <2>3 DEF ServiceTypeOK
<1>2. OneEach /\ OnItsWay
  BY DEF Init, OneEach, OnItsWay
<1> QED
  BY <1>1, <1>2 DEF SInv

\* Every step preserves it.
LEMMA NextSInv == SInv /\ [Next]_vars => SInv'
<1> SUFFICES ASSUME SInv, [Next]_vars PROVE SInv'
  OBVIOUS
<1>0. /\ ServiceTypeOK /\ OneEach /\ OnItsWay /\ ServiceTypeOK'
      /\ Calls \subseteq Scripts /\ CronRun \in Scripts
  BY NextTyped DEF SInv, Scripts
<1>1. ASSUME NEW s \in Calls, PageCalls(s) PROVE SInv'
  <2>1. PICK op \in {"web_submit", "start", "stop", "restart"} :
           Begin(s, op, dbus'.port)
    BY <1>1 DEF PageCalls
  <2>2. dbus' \in Settings /\ UNCHANGED <<rules, piled>>
    BY <1>1 DEF PageCalls
  <2>3. OnItsWay'
    BY <1>0, <2>1, <2>2, BeginOnItsWay
  <2> QED
    BY <1>0, <2>2, <2>3 DEF SInv, OneEach
<1>2. CASE CronFires
  <2>1. Begin(CronRun, "watchdog", dbus'.port) /\ UNCHANGED <<dbus, rules, piled>>
    BY <1>2 DEF CronFires
  <2>2. alone' = NotAlone
    BY <2>1 DEF Begin
  <2> QED
    BY <1>0, <2>1, <2>2 DEF SInv, OneEach, OnItsWay
<1>3. ASSUME NEW s \in Calls, Reboot(s) PROVE SInv'
  <2>1. alone' = NotAlone /\ OneEach'
    BY <1>3 DEF Reboot, OneEach
  <2> QED
    BY <1>0, <2>1 DEF SInv, OnItsWay
<1>4. ASSUME NEW s \in Scripts, ScriptStep(s) PROVE SInv'
  BY <1>0, <1>4, StepOneEach, StepOnItsWay DEF SInv
<1>5. ASSUME NEW i \in Slots, Bind(i) \/ End(i) PROVE SInv'
  <2>1. OneEach'
    BY <1>0, <1>5 DEF Bind, End, OneEach
  <2> QED
    BY <1>0, <1>5, <2>1, ProcessOnItsWay DEF SInv
<1>6. ASSUME (\E i \in Slots : Die(i)) \/ Command PROVE SInv'
  <2>1. alone' = NotAlone /\ UNCHANGED <<rules, piled>>
    BY <1>6 DEF Die, Command
  <2> QED
    BY <1>0, <2>1 DEF SInv, OneEach, OnItsWay
<1>7. CASE UNCHANGED vars
  <2>1. UNCHANGED <<dbus, cron, config, procs, rules, script, alone, piled>>
    BY <1>7 DEF vars
  <2>2. OneEach'
    BY <1>0, <2>1 DEF OneEach
  <2>5. ASSUME NEW s \in Scripts PROVE Course(script[s].todo) => Course(script[s].todo)'
    BY <2>1 DEF Course, StopCourse, OffCourse, OnCourse, Just, Closed, Rendered, Opened,
                Rules, Scope
  <2>6. OnItsWay'
    BY <1>0, <2>1, <2>5 DEF OnItsWay, Idle
  <2> QED
    BY <1>0, <2>2, <2>6 DEF SInv
<1> QED
  BY <1>1, <1>2, <1>3, <1>4, <1>5, <1>6, <1>7 DEF Next

\* Every reachable state satisfies the inductive invariant.
THEOREM ServiceInductive == Spec => []SInv
BY InitSInv, NextSInv, PTL DEF Spec

\* The variables of workbuddy_config.sh keep their types.
THEOREM TypeCorrect == Spec => []ServiceTypeOK
<1>1. SInv => ServiceTypeOK
  BY DEF SInv
<1> QED
  BY <1>1, ServiceInductive, PTL

\* What a run that was alone has reached when it has ended.
LEMMA Reached ==
    ASSUME SInv, NEW op \in {"stop", "web_submit"}, Done(op)
    PROVE  /\ alone.port = dbus.port
           /\ op = "stop" => Just({}) /\ Closed
           /\ op = "web_submit" /\ ~dbus.enable => Just({}) /\ Closed
           /\ op = "web_submit" /\ dbus.enable =>
                 Just(Both) /\ Opened /\ Rendered /\ cron = dbus.watchdog
<1>1. alone.op = op /\ alone # NotAlone /\ \A s \in Scripts : Idle(s)
  BY DEF Done, NotAlone
<1>2. PICK s \in Scripts : Course(script[s].todo)
  BY <1>1 DEF SInv, OnItsWay
<1>3. Course(<<>>)
  BY <1>1, <1>2 DEF Idle, NoRun
<1>4. StopCourse(<<>>) => Just({}) /\ Closed
  BY Commands DEF StopCourse, Follows
<1>5. OffCourse(<<>>) => Just({}) /\ Closed
  BY Commands DEF OffCourse, Follows
<1>6. OnCourse(<<>>) => Just(Both) /\ Opened /\ Rendered /\ cron = dbus.watchdog
  BY Commands DEF OnCourse, Follows
<1>7. alone.port = dbus.port
  BY <1>1 DEF SInv, OnItsWay
<1> QED
  BY <1>1, <1>3, <1>4, <1>5, <1>6, <1>7 DEF Course

\* The stop button, and a save that disables the service: no process is left,
\* and the port is closed, however many slots, ports and calls there are.
THEOREM StopIsComplete == Spec => []StopLeavesNothing
<1>1. SInv => StopLeavesNothing
  <2> SUFFICES ASSUME SInv, Done("stop") \/ (Done("web_submit") /\ ~dbus.enable)
               PROVE  Upstream \cup Ctl = {} /\ (piled \/ Rules(alone.port) = {})
    BY DEF StopLeavesNothing
  <2>1. alone.port = dbus.port /\ Just({}) /\ Closed
    BY Reached
  <2>2. Upstream \cup Ctl = {}
    BY <2>1 DEF Just, Upstream, Ctl, Gone
  <2>3. ServiceTypeOK
    BY DEF SInv
  <2>4. piled \/ Rules(dbus.port) = {}
    BY <2>1, <2>3 DEF Closed, Rules
  <2> QED
    BY <2>1, <2>2, <2>4
<1> QED
  BY <1>1, ServiceInductive, PTL

\* The save button: when nothing has come across the run, what the page saved
\* is what runs, one process of each, and the port is open to whom it says.
THEOREM SubmitTakesEffect == Spec => []SubmitInForce
<1>1. SInv => SubmitInForce
  <2> SUFFICES ASSUME SInv, Done("web_submit"), dbus.enable
               PROVE  /\ Cardinality(Upstream) = 1 /\ Cardinality(Ctl) = 1
                      /\ dbus.ver \in Vers => config = dbus.ver
                      /\ \A i \in Running("wb2api") : procs[i].ver = config
                      /\ \A i \in Ctl : procs[i].name = "serve" /\ procs[i].port = dbus.port
                      /\ piled \/ Rules(dbus.port) =
                                    IF dbus.firewall THEN {<<dbus.port, Scope>>} ELSE {}
                      /\ cron = dbus.watchdog
    BY DEF SubmitInForce
  <2>1. Just(Both) /\ Opened /\ Rendered /\ cron = dbus.watchdog
    BY Reached
  <2>2. PICK u \in Slots : procs[u].name = "wb2api"
    BY <2>1 DEF Just, Both
  <2>3. PICK c \in Slots : procs[c].name = "serve"
    BY <2>1 DEF Just, Both
  <2>4. Gone.name = "none"
    BY DEF Gone
  <2>5. Upstream = {u}
    BY <2>1, <2>2, <2>4 DEF Just, Upstream
  <2>6. Ctl = {c}
    BY <2>1, <2>3, <2>4 DEF Just, Both, Ctl
  <2>7. Cardinality(Upstream) = 1 /\ Cardinality(Ctl) = 1
    BY <2>5, <2>6, FS_Singleton
  <2>8. \A i \in Running("wb2api") : procs[i].ver = config
    BY <2>1, <2>4 DEF Just, Running, Gone
  <2>9. \A i \in Ctl : procs[i].name = "serve" /\ procs[i].port = dbus.port
    BY <2>1, <2>3, <2>4, <2>6 DEF Just
  <2> QED
    BY <2>1, <2>7, <2>8, <2>9 DEF Rendered, Opened
<1> QED
  BY <1>1, ServiceInductive, PTL
================================================================================

------------------------------- MODULE Config -------------------------------
(***************************************************************************)
(* guard/config.go: `wb2api-ctl cfg render` turns the settings of the page *)
(* into the upstream's config.json.  It checks all of them, reads the file *)
(* that is there, sets its own fields in it, and saves it; fields it does  *)
(* not know stay.  Every start, restart and save of the page runs it, so   *)
(* runs may overlap, and people edit the file by hand.                     *)
(*                                                                         *)
(* Abstractions: of the fifty fields there is one of each kind: the port,  *)
(* a duration, a list of hours, and the window that may be switched off.   *)
(* A number typed by the user is an Int or Bad; a duration is a number and *)
(* a unit.  A JSON value is a number, a leaf (text, a switch, a list) or   *)
(* an object, and objects are at most two deep; the paths set have one or  *)
(* two parts.  The save of one run is one step, as AtomicWrite shows it to *)
(* be, power losses aside, while no other run saves; runs that save at the *)
(* same time share config.json.tmp, and may leave a torn file, in which a  *)
(* mixture that parses is taken for one of its parts.                      *)
(***************************************************************************)
EXTENDS Integers, Sequences, FiniteSets, SequencesExt

CONSTANTS
    Renderers,  \* runs of `cfg render`
    Settings,   \* what the page may have stored in dbus
    Edits,      \* objects a person may have written by hand
    IntMax,     \* the largest int
    Exact,      \* 2^53: up to it, either way, a float64 holds every whole number
    Float(_),   \* the float64 nearest to a number
    Bad,        \* text that is no number, or no duration
    Off         \* the empty text, or 0 for the window

Ports == 1..65535

ASSUME IntMaxAssumption == IntMax \in Nat \ {0}
ASSUME FloatAssumption == Exact \in Nat /\ \A n \in -Exact .. Exact : Float(n) = n
ASSUME RateAssumption ==
    \A s \in Settings :
        /\ s.rate \in {Bad} \cup [n : Int, unit : {"none", "ms", "s", "m", "h", "d"}]
        /\ s.window \in {Bad, Off} \cup [n : Int, unit : {"none", "ms", "s", "m", "h", "d"}]
ASSUME ListenAssumption == \A p \in Ports : [host |-> "127.0.0.1", port |-> p] # Bad
ASSUME EditsAssumption == \A e \in Edits : e.kind = "map"

VARIABLES
    disk,       \* config.json
    run,        \* each run of cfg render
    applied,    \* history: the settings of the last save
    overtaken,  \* history: runs whose copy of the file is out of date
    crowded,    \* runs that save while another does, or has since they began
    mixed       \* what runs that have left the crowd may have put in the .tmp

crowd == <<crowded, mixed>>
configVars == <<disk, run, applied, overtaken, crowd>>

Absent == [kind |-> "absent"]
Broken == [kind |-> "broken"]        \* text that does not parse
Null == [kind |-> "null"]            \* the JSON text null
Leaf(v) == [kind |-> "leaf", val |-> v]
Number(n) == [kind |-> "num", n |-> n]
Object(f) == [kind |-> "map", map |-> f]
NoFields == [n \in {} |-> Absent]

IsObject(node) == node.kind = "map"
Field(node, name) ==
    IF IsObject(node) /\ name \in DOMAIN node.map THEN node.map[name] ELSE Absent

-----------------------------------------------------------------------------
\* An int that has run over its largest value.
Wrap(n) == ((n + IntMax + 1) % (2 * (IntMax + 1))) - (IntMax + 1)

Units == {"ms", "s", "m", "h"}

\* Variant of NormDuration: days are taken for hours.
NormDurationDays(d) ==
    IF d = Bad THEN Bad ELSE [n |-> d.n, unit |-> IF d.unit = "d" THEN "h" ELSE d.unit]

\* A number with a unit must be positive; days become hours; a number without
\* a unit is seconds, whatever its sign.
NormDuration(d) ==
    CASE d = Bad -> Bad
      [] d # Bad /\ d.unit = "none" -> [n |-> d.n, unit |-> "s"]
      [] d # Bad /\ d.unit # "none" /\ d.n <= 0 -> Bad
      [] d # Bad /\ d.unit = "d" /\ d.n > 0 -> [n |-> Wrap(d.n * 24), unit |-> "h"]
      [] d # Bad /\ d.unit \in Units /\ d.n > 0 -> d

\* sort.Ints: every number at the place that as many smaller ones leave to it.
Ascending(S) ==
    [i \in 1..Cardinality(S) |->
        CHOOSE n \in S : Cardinality({m \in S : m < n}) = i - 1]

\* Duplicates go, the rest is sorted; one entry out of range spoils the list.
ParseHours(list) ==
    IF \E i \in DOMAIN list : list[i] = Bad \/ list[i] \notin 0..23
      THEN Bad
      ELSE Ascending(ToSet(list))

\* The window of expiring credit: empty or 0 turns it off.
NormWindow(d) == IF d = Off THEN [n |-> 0, unit |-> "s"] ELSE NormDuration(d)

\* Variant of Valid: the hours are looked at when they are written.
ValidButHours(s) ==
    /\ s.port \in Ports
    /\ NormDuration(s.rate) # Bad
    /\ NormWindow(s.window) # Bad

\* Everything is checked before the file is read.
Valid(s) ==
    /\ s.port \in Ports
    /\ NormDuration(s.rate) # Bad
    /\ NormWindow(s.window) # Bad
    /\ ParseHours(s.hours) # Bad

Accepted == {s \in Settings : Valid(s)}

-----------------------------------------------------------------------------
WithField(node, name, value) ==
    LET old == IF IsObject(node) THEN node.map ELSE NoFields IN
    Object([n \in DOMAIN old \cup {name} |-> IF n = name THEN value ELSE old[n]])

\* Variant of SetPath: the section is made anew.
SetPathAnew(node, path, value) ==
    IF Len(path) = 1
      THEN WithField(node, path[1], value)
      ELSE WithField(node, path[1], WithField(Absent, path[2], value))

\* setPath: what is no object on the way is replaced by one.
SetPath(node, path, value) ==
    IF Len(path) = 1
      THEN WithField(node, path[1], value)
      ELSE WithField(node, path[1], WithField(Field(node, path[1]), path[2], value))

\* getPath
GetPath(node, path) ==
    IF Len(path) = 1 THEN Field(node, path[1])
                     ELSE Field(Field(node, path[1]), path[2])

Owned == {<<"listen">>, <<"cooldown", "soft_rate">>,
          <<"schedule", "checkin_hours">>, <<"pool", "expiring_soon">>}

\* The fields in the order they are set; listen is always on the loopback.
Assignments(s) ==
    << <<<<"listen">>, [host |-> "127.0.0.1", port |-> s.port]>>,
       <<<<"cooldown", "soft_rate">>, NormDuration(s.rate)>>,
       <<<<"schedule", "checkin_hours">>, ParseHours(s.hours)>>,
       <<<<"pool", "expiring_soon">>, NormWindow(s.window)>> >>

Set(node, a) == SetPath(node, a[1], Leaf(a[2]))
Rendered(node, s) ==
    LET a == Assignments(s) IN Set(Set(Set(Set(node, a[1]), a[2]), a[3]), a[4])

-----------------------------------------------------------------------------
\* json.Unmarshal into map[string]any: every number becomes a float64.
AsFloat(node) ==
    IF node.kind = "num" /\ Float(node.n) # node.n THEN Number(Float(node.n)) ELSE node
Each(node) ==
    IF IsObject(node) THEN Object([n \in DOMAIN node.map |-> AsFloat(node.map[n])])
                      ELSE AsFloat(node)
Decoded(node) ==
    IF IsObject(node) THEN Object([n \in DOMAIN node.map |-> Each(node.map[n])])
                      ELSE Object(NoFields)

-----------------------------------------------------------------------------
Idle == [at |-> "idle", result |-> "none"]

ConfigTypeOK ==
    /\ disk.kind \in {"absent", "broken", "null", "map"}
    /\ \A r \in Renderers :
          /\ run[r].at \in {"idle", "loaded", "saving"}
          /\ run[r].at # "idle" => run[r].set \in Settings /\ IsObject(run[r].doc)
          /\ run[r].at = "idle" => run[r].result \in {"none", "ok", "err"}
    /\ applied = Off \/ applied \in Settings
    /\ overtaken \subseteq Renderers /\ crowded \subseteq Renderers
    /\ \A doc \in mixed : IsObject(doc)

ConfigInit ==
    /\ disk \in {Absent, Broken, Null} \cup Edits
    /\ run = [r \in Renderers |-> Idle]
    /\ applied = Off
    /\ overtaken = {} /\ crowded = {} /\ mixed = {}

EndRun(r, result) == run' = [run EXCEPT ![r] = [at |-> "idle", result |-> result]]

\* A setting is refused, by flag.Parse or by the checks after it.
Refuse(r) ==
    /\ run[r].at = "idle"
    /\ Settings # Accepted
    /\ EndRun(r, "err")
    /\ UNCHANGED <<disk, applied, overtaken, crowd>>

\* A file that is not there is an empty object; null leaves a nil map, and
\* setPath panics on it.
Loadable(node) == node = Absent \/ IsObject(node)

Load(r, s) ==
    /\ run[r].at = "idle"
    /\ s \in Accepted /\ Loadable(disk)
    /\ run' = [run EXCEPT ![r] = [at |-> "loaded", set |-> s, doc |-> Decoded(disk)]]
    /\ overtaken' = overtaken \ {r}
    /\ UNCHANGED <<disk, applied, crowd>>

LoadFails(r) ==
    /\ run[r].at = "idle"
    /\ Accepted # {} /\ ~Loadable(disk)
    /\ EndRun(r, "err")
    /\ UNCHANGED <<disk, applied, overtaken, crowd>>

\* The runs that have read the file, and those that save it.
UnderWay == {q \in Renderers : run[q].at # "idle"}
Savers == {q \in Renderers : run[q].at = "saving"}

\* What a run is about to save.
Output(r) == Rendered(run[r].doc, run[r].set)

\* writeJSONFile opens config.json.tmp, which others may have open.
BeginSave(r) ==
    /\ run[r].at = "loaded"
    /\ run' = [run EXCEPT ![r] = [at |-> "saving", set |-> run[r].set, doc |-> run[r].doc]]
    /\ crowded' = IF Savers = {} THEN crowded ELSE crowded \cup Savers \cup {r}
    /\ UNCHANGED <<disk, applied, overtaken, mixed>>

\* The rename of a run that has saved alone.
Save(r) ==
    /\ run[r].at = "saving" /\ r \notin crowded
    /\ disk' = Output(r)
    /\ applied' = run[r].set
    /\ EndRun(r, "ok")
    /\ overtaken' = (overtaken \cup UnderWay) \ {r}
    /\ UNCHANGED crowd

LeaveCrowd(r) ==
    /\ crowded' = crowded \ {r}
    /\ mixed' = IF crowded = {r} THEN {} ELSE mixed \cup {Output(r)}

\* The file gets what the .tmp holds: text cut short or of several runs.
Torn ==
    /\ disk' \in {Broken} \cup mixed \cup {Output(q) : q \in crowded}
    /\ applied' = Off

\* The rename of a run that was not alone ...
SaveCrowded(r) ==
    /\ run[r].at = "saving" /\ r \in crowded
    /\ Torn
    /\ EndRun(r, "ok")
    /\ overtaken' = (overtaken \cup UnderWay) \ {r}
    /\ LeaveCrowd(r)

\* ... and the write of one whose .tmp another has renamed.
Tear(r) ==
    /\ r \in crowded /\ mixed # {}
    /\ Torn
    /\ overtaken' = overtaken \cup UnderWay
    /\ UNCHANGED <<run, crowd>>

\* The run is killed or fails, or another has taken its .tmp away.
SaveFails(r) ==
    /\ run[r].at # "idle"
    /\ EndRun(r, "err")
    /\ overtaken' = overtaken \ {r}
    /\ IF r \in crowded THEN LeaveCrowd(r) ELSE UNCHANGED crowd
    /\ UNCHANGED <<disk, applied>>

\* A person adds fields of his own, or leaves a file that does not parse.
Edit ==
    /\ \/ disk' \in {Broken, Null}
       \/ \E e \in Edits :
             disk' = Object([n \in (IF IsObject(disk) THEN DOMAIN disk.map ELSE {})
                                     \cup DOMAIN e.map |->
                                IF n \in DOMAIN e.map THEN e.map[n] ELSE disk.map[n]])
    /\ overtaken' = overtaken \cup UnderWay
    /\ applied' = Off
    /\ UNCHANGED <<run, crowd>>

ConfigNext ==
    \/ Edit
    \/ \E r \in Renderers :
          \/ Refuse(r) \/ LoadFails(r) \/ \E s \in Settings : Load(r, s)
          \/ BeginSave(r) \/ Save(r) \/ SaveCrowded(r) \/ Tear(r) \/ SaveFails(r)

ConfigSpec == ConfigInit /\ [][ConfigNext]_configVars

-----------------------------------------------------------------------------
Saves(r) == run[r].at = "saving" /\ run'[r].at = "idle" /\ run'[r].result = "ok"

\* The hours of days that are too many for an int run over.
Fits(d) == d.unit = "d" => d.n <= IntMax \div 24

Seconds == [none |-> 1, s |-> 1, m |-> 60, h |-> 3600, d |-> 86400]

\* The duration written is as long as the one typed.
SameLength(written, typed) ==
    IF typed.unit = "ms"
      THEN written = typed
      ELSE /\ written.unit \in {"s", "m", "h"}
           /\ written.n * Seconds[written.unit] = typed.n * Seconds[typed.unit]

\* The file that the last render leaves holds what its user meant, as long as
\* nobody edits it and no other render has saved at the same time: the rate
\* and the window are as long as the ones typed, a window that is switched
\* off is, a list of hours ascends strictly within the day, and the upstream
\* listens on the loopback only.  The lengths are positive.  The code lets
\* through two exceptions: a number typed without a unit may be 0 or less,
\* and days so many that their hours run over become another length.
RenderedAsMeant ==
    applied # Off =>
        LET rate == GetPath(disk, <<"cooldown", "soft_rate">>).val
            hours == GetPath(disk, <<"schedule", "checkin_hours">>).val
            window == GetPath(disk, <<"pool", "expiring_soon">>).val
        IN  /\ Fits(applied.rate) =>
                  /\ SameLength(rate, applied.rate)
                  /\ rate.n > 0 \/ applied.rate.unit = "none"
            /\ applied.window = Off => window.n = 0
            /\ applied.window # Off /\ Fits(applied.window) =>
                  /\ SameLength(window, applied.window)
                  /\ window.n > 0 \/ applied.window.unit = "none"
            /\ \A i, j \in DOMAIN hours : i < j => hours[i] < hours[j]
            /\ ToSet(hours) \subseteq 0..23
            /\ GetPath(disk, <<"listen">>).val.host = "127.0.0.1"

\* A render with a bad setting, the port among them, or over a file that does
\* not parse, reports an error and leaves the file alone; only a file that was
\* broken after the render had read it, by hand or by renders that saved at
\* the same time, is overwritten.
BrokenKept ==
    [][\A r \in Renderers : Saves(r) =>
          /\ run[r].set.port \in Ports
          /\ \A a \in ToSet(Assignments(run[r].set)) : a[2] # Bad
          /\ disk \in {Broken, Null} => r \in overtaken]_configVars

\* The value is what it was, unless it was a number a float64 cannot hold.
SameValue(new, old) ==
    \/ new = old
    \/ old.kind = "num" /\ old.n \notin -Exact .. Exact /\ new = Number(Float(old.n))

\* A render that nothing overtook, and that saved alone, keeps every field
\* that is not its own, at the top and inside the sections it writes to, and
\* sets all of its own; what a person has put in the place of one of its own
\* is lost with all it holds, and a number beyond 2^53 becomes the float64
\* next to it.
UnknownKept ==
    [][\A r \in Renderers \ (overtaken \cup crowded) : Saves(r) =>
          LET before == IF IsObject(disk) THEN disk ELSE Object(NoFields) IN
          /\ \A n \in {m \in DOMAIN before.map : <<m>> \notin Owned} :
                IF IsObject(before.map[n])
                  THEN \A m \in DOMAIN before.map[n].map :
                          <<n, m>> \in Owned
                             \/ SameValue(GetPath(disk', <<n, m>>), before.map[n].map[m])
                  ELSE \/ \E p \in Owned : p[1] = n
                       \/ SameValue(Field(disk', n), before.map[n])
          /\ \A a \in ToSet(Assignments(run[r].set)) :
                GetPath(disk', a[1]) = Leaf(a[2])]_configVars
=============================================================================

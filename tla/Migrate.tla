------------------------------- MODULE Migrate -------------------------------
(***************************************************************************)
(* guard/migrate.go and workbuddy_migrate.sh: the data directory is copied *)
(* file by file to a new place while the daemon goes on writing to the old *)
(* one, then dbus is told the new path and the service is restarted.       *)
(*                                                                         *)
(* Abstractions: two places; the content of a file is the set of updates   *)
(* (usage flushed, keys added, audit lines, renewed credentials) it holds. *)
(* A path is a place and whether it is spelled with a slash at its end,    *)
(* which is all the comparison of paths in cmdMigrate depends on here.     *)
(* That an update replaces or extends a file in one step is what           *)
(* AtomicWrite and AuditLog are about.  Stop and start are one step each   *)
(* here and are taken apart in Service.  When dbus names Astray, which is  *)
(* none of Places, what the service and the commands do there is left out. *)
(***************************************************************************)
EXTENDS Naturals, FiniteSets

CONSTANTS
    Places,       \* directories the data may be in
    Files,        \* files of the data directory
    Needed,       \* those cmdMigrate verifies: keys, guard and config.json
    Appended,     \* those that grow in place: audit files
    Slashes,      \* spellings users type: with a slash at the end or without
    MaxUpdates,   \* bound: updates made
    MaxRuns,      \* bound: migrations started
    MaxLosses     \* bound: power losses

ASSUME FilesAssumption == Needed \subseteq Files /\ Appended \subseteq Files
ASSUME SlashesAssumption == Slashes \subseteq BOOLEAN
ASSUME BoundsAssumption == {MaxUpdates, MaxRuns, MaxLosses} \subseteq Nat

VARIABLES
    fs,        \* the updates in each file of each place
    present,   \* the files that exist
    volatile,  \* files whose content a power loss would take
    conf,      \* workbuddy_data_dir in dbus, as it was typed
    daemon,    \* the place the running service uses; {} when it uses none
    mig,       \* the migration under way
    made,      \* updates made so far
    runs,      \* migrations so far
    losses,    \* power losses so far
    had,       \* history: the updates made to each file
    home,      \* history: the place that was moved to last
    late,      \* history: files updated where a migration no longer looked
    broken,    \* history: files whose copy failed or was lost to the power
    clobbered, \* history: files copied onto themselves or onto the data
    removed    \* history: an old directory was removed

service == <<conf, daemon>>
moved == <<home, late, broken>>
history == <<had, moved, clobbered, removed>>
vars == <<fs, present, volatile, service, mig, made, runs, losses, history>>

Paths == [place : Places, slash : BOOLEAN]
Updates == 1..MaxUpdates

\* The text --delete-old, which the script takes for the directory when the
\* flag stands in front of it.
Astray == [flag |-> "--delete-old"]

Idle == [at |-> "idle"]

\* at: where cmdMigrate and then the script are; left: files to visit; file
\* and buf: the copy under way; failed, late: files that failed, and files
\* updated after they were read.
Migrations ==
    [at : {"walk", "copying", "copied", "removed", "stop", "start"},
     to : Paths, from : Places, deleteOld : BOOLEAN,
     left : SUBSET Files, file : SUBSET Files, buf : SUBSET Updates,
     failed : SUBSET Files, late : SUBSET Files]

TypeOK ==
    /\ fs \in [Places -> [Files -> SUBSET Updates]]
    /\ present \in [Places -> SUBSET Files]
    /\ volatile \in [Places -> SUBSET Files]
    /\ conf \in Paths \cup {Astray}
    /\ daemon \in SUBSET Places /\ Cardinality(daemon) <= 1
    /\ mig = Idle \/ mig \in Migrations
    /\ made \in 0..MaxUpdates /\ runs \in 0..MaxRuns /\ losses \in 0..MaxLosses
    /\ had \in [Files -> SUBSET Updates]
    /\ home \in Places /\ removed \in BOOLEAN
    /\ late \subseteq Files /\ broken \subseteq Files /\ clobbered \subseteq Files

\* The service runs on one place; the other ones hold nothing.
Init ==
    /\ fs = [d \in Places |-> [f \in Files |-> {}]]
    /\ conf \in [place : Places, slash : Slashes]
    /\ present = [d \in Places |-> IF d = conf.place THEN Files ELSE {}]
    /\ volatile = [d \in Places |-> {}]
    /\ daemon = {conf.place}
    /\ mig = Idle
    /\ made = 0 /\ runs = 0 /\ losses = 0
    /\ had = [f \in Files |-> {}]
    /\ home = conf.place /\ removed = FALSE
    /\ late = {} /\ broken = {} /\ clobbered = {}

-----------------------------------------------------------------------------
Migrating == mig # Idle
Copying == Migrating /\ mig.at \in {"walk", "copying", "copied", "removed"}

\* Where the service is started and where the commands of the page work.
Named == IF conf = Astray THEN {} ELSE {conf.place}

\* The migration has read f already, or does not know of it.
ReadAlready(f) ==
    /\ f \notin mig.left
    /\ ~(mig.at = "copying" /\ f \in mig.file /\ f \in Appended)

\* A flush, an audit line, a renewed credential of the running service, or a
\* key command of another script: the file is made when it is not there, in a
\* directory that is made when it is not there.
Update(f, d) ==
    /\ d \in daemon \cup Named
    /\ made < MaxUpdates
    /\ made' = made + 1
    /\ fs' = [fs EXCEPT ![d][f] = @ \cup {made + 1}]
    /\ present' = [present EXCEPT ![d] = @ \cup {f}]
    /\ had' = [had EXCEPT ![f] = @ \cup {made + 1}]
    /\ mig' = IF Copying /\ d = mig.from /\ ReadAlready(f)
                THEN [mig EXCEPT !.late = @ \cup {f}] ELSE mig
    /\ late' = IF d # home THEN late \cup {f} ELSE late
    /\ UNCHANGED <<volatile, service, runs, losses, home, broken, clobbered, removed>>

\* strings.TrimRight(newDir, "/")
Trimmed(p) == [p EXCEPT !.slash = FALSE]

\* newDir == old refuses the directory the data is in, spelled the same way.
Accepts(p) == Trimmed(p) # conf

\* wb2api-ctl migrate passes its checks and makes the new directory; Walk
\* lists the old one.  --delete-old takes effect only in front of the
\* directory: flag.Parse stops at the first argument that is no flag.
StartMigration(p, deleteOld) ==
    /\ ~Migrating /\ conf # Astray
    /\ runs < MaxRuns
    /\ Accepts(p)
    /\ runs' = runs + 1
    /\ mig' = [at |-> "walk", to |-> p, from |-> conf.place,
               deleteOld |-> deleteOld, left |-> present[conf.place],
               file |-> {}, buf |-> {}, failed |-> {}, late |-> {}]
    /\ UNCHANGED <<fs, present, volatile, service, made, losses, history>>

\* copyFile opens the old file and empties the new one.
OpenCopy(f) ==
    /\ mig # Idle /\ mig.at = "walk" /\ f \in mig.left
    /\ fs' = [fs EXCEPT ![mig.to.place][f] = {}]
    /\ present' = [present EXCEPT ![mig.to.place] = @ \cup {f}]
    /\ volatile' = [volatile EXCEPT ![mig.to.place] = @ \cup {f}]
    /\ mig' = [mig EXCEPT !.at = "copying", !.left = @ \ {f}, !.file = {f},
                          !.buf = fs'[mig.from][f]]
    /\ clobbered' = IF mig.to.place \in {home, mig.from}
                      THEN clobbered \cup {f} ELSE clobbered
    /\ UNCHANGED <<service, made, runs, losses, had, moved, removed>>

\* io.Copy: a file that is replaced by a rename is read as it was when it was
\* opened, one that grows is read to its present end.
FinishCopy(f) ==
    /\ mig # Idle /\ mig.at = "copying" /\ f \in mig.file
    /\ fs' = [fs EXCEPT ![mig.to.place][f] =
                 IF f \in Appended THEN fs[mig.from][f] ELSE mig.buf]
    /\ mig' = [mig EXCEPT !.at = "walk", !.file = {}, !.buf = {}]
    /\ UNCHANGED <<present, volatile, service, made, runs, losses, history>>

\* Variant of FailCopy: the failure is not counted.
FailCopyUncounted(f) ==
    /\ mig # Idle /\ mig.at = "copying" /\ f \in mig.file
    /\ mig' = [mig EXCEPT !.at = "walk", !.file = {}, !.buf = {}]
    /\ UNCHANGED <<fs, present, volatile, service, made, runs, losses, history>>

\* The copy stops short: the new file stays empty, the walk goes on.
FailCopy(f) ==
    /\ mig # Idle /\ mig.at = "copying" /\ f \in mig.file
    /\ mig' = [mig EXCEPT !.at = "walk", !.file = {}, !.buf = {},
                          !.failed = @ \cup {f}]
    /\ UNCHANGED <<fs, present, volatile, service, made, runs, losses, history>>

\* copyFile cannot even open the new file: whatever is there stays.
FailOpen(f) ==
    /\ mig # Idle /\ mig.at = "walk" /\ f \in mig.left
    /\ mig' = [mig EXCEPT !.left = @ \ {f}, !.failed = @ \cup {f}]
    /\ UNCHANGED <<fs, present, volatile, service, made, runs, losses, history>>

\* A name Walk has listed, a <path>.tmp of a save for instance, is gone when
\* it comes to it: the whole command fails, and the script goes no further.
WalkFails ==
    /\ mig # Idle /\ mig.at = "walk"
    /\ mig' = Idle
    /\ UNCHANGED <<fs, present, volatile, service, made, runs, losses, history>>

Missing == (Needed \cap present[mig.from]) \ present[mig.to.place]

\* The needed files are looked for by name only.
Verify ==
    /\ mig # Idle /\ mig.at = "walk" /\ mig.left = {}
    /\ mig' = IF Missing = {} THEN [mig EXCEPT !.at = "copied"] ELSE Idle
    /\ UNCHANGED <<fs, present, volatile, service, made, runs, losses, history>>

\* The data is in the new directory from here on, but for what its copies lack.
MoveHome ==
    IF mig.from = home
      THEN /\ home' = mig.to.place
           /\ late' = late \cup mig.late
           /\ broken' = broken \cup mig.failed
      ELSE UNCHANGED moved

\* os.RemoveAll(old), when nothing failed; its error is ignored, and what it
\* could not remove, or had not yet when it was killed, stays.
RemoveOld ==
    /\ mig # Idle /\ mig.at = "copied"
    /\ mig.deleteOld /\ mig.failed = {}
    /\ \E gone \in SUBSET present[mig.from] :
          /\ fs' = [fs EXCEPT ![mig.from] =
                       [f \in Files |-> IF f \in gone THEN {} ELSE @[f]]]
          /\ present' = [present EXCEPT ![mig.from] = @ \ gone]
          /\ volatile' = [volatile EXCEPT ![mig.from] = @ \ gone]
    /\ mig' = [mig EXCEPT !.at = "removed"]
    /\ MoveHome
    /\ removed' = TRUE
    /\ UNCHANGED <<service, made, runs, losses, had, clobbered>>

\* wb2api-ctl is killed, by a restart from another script for instance: the
\* answer is not ok, and the script leaves dbus alone.
Killed ==
    /\ Copying
    /\ mig' = Idle
    /\ UNCHANGED <<fs, present, volatile, service, made, runs, losses, history>>

Answered ==
    /\ mig # Idle /\ mig.at \in {"copied", "removed"}
    /\ mig.at = "copied" => ~(mig.deleteOld /\ mig.failed = {})

\* The script: dbus set workbuddy_data_dir="${TARGET}", its first argument, as
\* it was typed.
NameTarget ==
    IF mig.deleteOld
      THEN conf' = Astray /\ UNCHANGED moved
      ELSE conf' = mig.to /\ MoveHome

\* Variant of SetDataDir: the service is not restarted.
SetDataDirOnly ==
    /\ Answered
    /\ NameTarget
    /\ mig' = Idle
    /\ UNCHANGED <<fs, present, volatile, daemon, made, runs, losses,
                   had, clobbered, removed>>

SetDataDir ==
    /\ Answered
    /\ NameTarget
    /\ mig' = [mig EXCEPT !.at = "stop"]
    /\ UNCHANGED <<fs, present, volatile, daemon, made, runs, losses,
                   had, clobbered, removed>>

\* workbuddy_config.sh restart: the old service ends (its last flush is an
\* Update) ...
StopService ==
    /\ mig # Idle /\ mig.at = "stop"
    /\ daemon' = {}
    /\ mig' = [mig EXCEPT !.at = "start"]
    /\ UNCHANGED <<fs, present, volatile, conf, made, runs, losses, history>>

\* ... and a new one starts where dbus says.
StartService ==
    /\ mig # Idle /\ mig.at = "start"
    /\ daemon' = daemon \cup Named
    /\ mig' = Idle
    /\ UNCHANGED <<fs, present, volatile, conf, made, runs, losses, history>>

-----------------------------------------------------------------------------
\* The kernel writes back what copyFile has left in memory: it never syncs.
WriteBack ==
    /\ \E d \in Places : volatile[d] # {}
    /\ volatile' = [d \in Places |-> {}]
    /\ UNCHANGED <<fs, present, service, mig, made, runs, losses, history>>

\* The router loses power and boots with what dbus says.
PowerLoss ==
    /\ losses < MaxLosses
    /\ losses' = losses + 1
    /\ fs' = [d \in Places |-> [f \in Files |->
                 IF f \in volatile[d] THEN {} ELSE fs[d][f]]]
    /\ volatile' = [d \in Places |-> {}]
    /\ broken' = broken \cup volatile[home]
    /\ daemon' = Named
    /\ mig' = Idle
    /\ UNCHANGED <<present, conf, made, runs, had, home, late, clobbered, removed>>

Copy(f) == OpenCopy(f) \/ FinishCopy(f) \/ FailCopy(f) \/ FailOpen(f)
Script ==
    \/ WalkFails \/ Verify \/ RemoveOld \/ Killed
    \/ SetDataDir \/ StopService \/ StartService

Next ==
    \/ \E f \in Files : Copy(f) \/ \E d \in Places : Update(f, d)
    \/ \E p \in [place : Places, slash : Slashes], deleteOld \in BOOLEAN :
          StartMigration(p, deleteOld)
    \/ Script \/ WriteBack \/ PowerLoss

Spec == Init /\ [][Next]_vars

-----------------------------------------------------------------------------
\* The place that was moved to last holds every update ever made, at every
\* moment of a migration, whether it succeeds, fails or is cut short by a kill
\* or a power loss, and however much of the old directory is removed.  Excused
\* are the files that were updated after they had been copied, or in another
\* place than this one; those whose copy failed (the command still reports ok)
\* or was lost to the power before the kernel had written it; and those that
\* were copied onto themselves or onto the data (MigrationsKeepAll).
NothingLeftBehind ==
    \A f \in Files \ (late \cup broken \cup clobbered) : fs[home][f] = had[f]

\* The same without the last excuse: cmdMigrate says it refuses a directory
\* that is the present one.
MigrationsKeepAll ==
    \A f \in Files \ (late \cup broken) : fs[home][f] = had[f]

\* --delete-old removes no update that is not in another directory: one file
\* that could not be copied keeps the whole old directory.  Excused are files
\* updated after their copy and those copied onto themselves or onto the data.
DeletesOnlyCopied ==
    [][\A d \in Places : \A f \in present[d] \ present'[d] :
          \/ f \in mig.late \cup clobbered
          \/ fs[d][f] \subseteq UNION {fs[e][f] : e \in Places \ {d}}]_vars

\* Outside a migration the service runs where dbus says it does, so that a
\* later key command and the daemon use the same files; and as long as nothing
\* was removed that is where the data was moved to.  The flag in front of the
\* directory, which leaves dbus Astray, is excused.
RunsWhereConfigured ==
    ~Migrating /\ conf # Astray =>
        daemon = {conf.place} /\ (removed \/ conf.place = home)
=============================================================================

---------------------------- MODULE MigrateProofs ----------------------------
(***************************************************************************)
(* Proofs about Migrate, for any places, files, updates and migrations.    *)
(***************************************************************************)
EXTENDS Migrate, FiniteSetTheorems, TLAPS

\* The service runs where dbus says, but for the moments of a migration at
\* which the script has told dbus and not yet restarted it.
Phases ==
    /\ ~Migrating \/ Copying => daemon = Named
    /\ Copying => conf # Astray /\ mig.from = conf.place
    /\ Migrating /\ mig.at = "start" => daemon = {}
    /\ removed \/ conf = Astray \/ conf.place = home
    /\ Migrating /\ mig.at = "removed" => removed /\ mig.deleteOld

WInv == TypeOK /\ Phases

\* A file that is not there holds nothing, and no file holds an update that
\* nobody made.
Contents ==
    \A d \in Places, f \in Files :
       /\ f \notin present[d] => fs[d][f] = {}
       /\ fs[d][f] \subseteq had[f]

\* What a migration has copied so far, in the places it works on.
Copied(f) == f \notin mig.left \cup mig.file \cup mig.failed \cup mig.late

Copies ==
    Migrating /\ mig.at \in {"walk", "copying", "copied"} =>
       /\ mig.at # "copying" => mig.file = {}
       /\ mig.at = "copied" => mig.left = {}
       /\ \A f \in Files :
             /\ Copied(f) => fs[mig.from][f] \subseteq fs[mig.to.place][f]
             /\ f \in mig.file =>
                   /\ mig.file = {f} /\ f \notin mig.left
                   /\ f \in present[mig.to.place] /\ mig.buf \subseteq had[f]
             /\ f \in mig.file \ (Appended \cup mig.late) =>
                   fs[mig.from][f] \subseteq mig.buf

\* A directory that is copied onto itself: whatever was copied is clobbered.
Onto ==
    Migrating /\ mig.at \in {"walk", "copying", "copied"} =>
       \A f \in Files :
          /\ f \in mig.file /\ mig.to.place \in {home, mig.from} => f \in clobbered
          /\ mig.to.place = mig.from /\ Copied(f) => f \in clobbered \/ fs[mig.from][f] = {}

\* The inductive invariant.
MInv == WInv /\ Contents /\ Copies /\ Onto /\ NothingLeftBehind

-----------------------------------------------------------------------------
\* No migration is the one that stands for none.
LEMMA IdleIsNone == Idle \notin Migrations /\ Idle.at = "idle"
BY DEF Idle, Migrations

\* Nor is the directory that dbus gets with the flag.
LEMMA AstrayIsNone == Astray \notin Paths
BY DEF Astray, Paths

\* Where dbus sends the service.
LEMMA NamedPlace ==
    ASSUME conf \in Paths \cup {Astray}
    PROVE  Named = {} \/ (conf \in Paths /\ conf.place \in Places /\ Named = {conf.place})
BY DEF Named, Paths

\* Types and places are right at the start.
LEMMA InitWInv == ASSUME Init PROVE WInv
<1>1. Cardinality({conf.place}) = 1
  BY FS_Singleton
<1>2. TypeOK
  <2>1. conf \in Paths /\ conf.place \in Places /\ home = conf.place
    BY SlashesAssumption DEF Init, Paths
  <2>2. daemon \in SUBSET Places /\ Cardinality(daemon) <= 1
    BY <1>1, <2>1 DEF Init
  <2>3. /\ fs \in [Places -> [Files -> SUBSET Updates]]
        /\ present \in [Places -> SUBSET Files] /\ volatile \in [Places -> SUBSET Files]
        /\ had \in [Files -> SUBSET Updates]
    BY DEF Init
  <2>4. /\ made \in 0..MaxUpdates /\ runs \in 0..MaxRuns /\ losses \in 0..MaxLosses
    BY BoundsAssumption DEF Init
  <2> QED
    BY <2>1, <2>2, <2>3, <2>4 DEF Init, TypeOK
<1>3. Phases
  <2>1. conf \in Paths
    BY SlashesAssumption DEF Init, Paths
  <2>2. conf # Astray
    BY <2>1, AstrayIsNone
  <2> QED
    BY <2>2 DEF Init, Phases, Migrating, Copying, Named
<1> QED
  BY <1>2, <1>3 DEF WInv

\* What each kind of step does to the types of the files.
LEMMA FilesTyped ==
    ASSUME TypeOK, [Next]_vars
    PROVE  /\ fs' \in [Places -> [Files -> SUBSET Updates]]
           /\ present' \in [Places -> SUBSET Files]
           /\ volatile' \in [Places -> SUBSET Files]
           /\ had' \in [Files -> SUBSET Updates]
<1>1. /\ fs \in [Places -> [Files -> SUBSET Updates]]
      /\ present \in [Places -> SUBSET Files] /\ volatile \in [Places -> SUBSET Files]
      /\ had \in [Files -> SUBSET Updates]
  BY DEF TypeOK
<1>2. ASSUME NEW f \in Files, NEW d \in Places, Update(f, d)
      PROVE  /\ fs' \in [Places -> [Files -> SUBSET Updates]]
             /\ present' \in [Places -> SUBSET Files]
             /\ volatile' \in [Places -> SUBSET Files]
             /\ had' \in [Files -> SUBSET Updates]
  <2>1. made + 1 \in Updates
    BY <1>2, BoundsAssumption DEF Update, TypeOK, Updates
  <2>2. had' \in [Files -> SUBSET Updates]
    BY <1>1, <1>2, <2>1 DEF Update
  <2>3. fs[d] \in [Files -> SUBSET Updates] /\ fs[d][f] \cup {made + 1} \in SUBSET Updates
    BY <1>1, <2>1
  <2>4. fs' = [fs EXCEPT ![d] = [fs[d] EXCEPT ![f] = fs[d][f] \cup {made + 1}]]
    BY <1>2 DEF Update
  <2>5. fs' \in [Places -> [Files -> SUBSET Updates]]
    BY <1>1, <2>3, <2>4
  <2> QED
    BY <1>1, <1>2, <2>2, <2>5 DEF Update
<1>3. ASSUME NEW f \in Files, OpenCopy(f) \/ FinishCopy(f)
      PROVE  /\ fs' \in [Places -> [Files -> SUBSET Updates]]
             /\ present' \in [Places -> SUBSET Files]
             /\ volatile' \in [Places -> SUBSET Files]
             /\ had' = had
  <2>1. /\ mig \in Migrations /\ mig.to.place \in Places /\ mig.from \in Places
        /\ mig.buf \in SUBSET Updates
    BY <1>3 DEF OpenCopy, FinishCopy, TypeOK, Migrations, Paths
  <2>2. /\ present' \in [Places -> SUBSET Files] /\ volatile' \in [Places -> SUBSET Files]
        /\ had' = had
    <3>1. CASE OpenCopy(f)
      <4> DEFINE d == mig.to.place
      <4>1. /\ d \in Places /\ present[d] \cup {f} \in SUBSET Files
            /\ volatile[d] \cup {f} \in SUBSET Files
        BY <1>1, <2>1
      <4>2. /\ present' = [present EXCEPT ![d] = present[d] \cup {f}]
            /\ volatile' = [volatile EXCEPT ![d] = volatile[d] \cup {f}]
            /\ had' = had
        BY <3>1 DEF OpenCopy, history
      <4> HIDE DEF d
      <4> QED
        BY <1>1, <4>1, <4>2
    <3>2. CASE FinishCopy(f)
      BY <1>1, <3>2 DEF FinishCopy, history
    <3> QED
      BY <1>3, <3>1, <3>2
  <2>3. PICK u \in SUBSET Updates :
           fs' = [fs EXCEPT ![mig.to.place] = [fs[mig.to.place] EXCEPT ![f] = u]]
    <3>1. CASE OpenCopy(f)
      BY <3>1 DEF OpenCopy
    <3>2. CASE FinishCopy(f)
      <4>1. (IF f \in Appended THEN fs[mig.from][f] ELSE mig.buf) \in SUBSET Updates
        BY <1>1, <2>1
      <4> QED
        BY <3>2, <4>1 DEF FinishCopy
    <3> QED
      BY <1>3, <3>1, <3>2
  <2>4. fs[mig.to.place] \in [Files -> SUBSET Updates]
    BY <1>1, <2>1
  <2>5. fs' \in [Places -> [Files -> SUBSET Updates]]
    BY <1>1, <2>1, <2>3, <2>4
  <2> QED
    BY <2>2, <2>5
<1>4. CASE RemoveOld
  <2>1. mig.from \in Places /\ had' = had
    BY <1>4 DEF RemoveOld, TypeOK, Migrations
  <2>2. PICK gone \in SUBSET present[mig.from] :
           /\ fs' = [fs EXCEPT ![mig.from] =
                        [f \in Files |-> IF f \in gone THEN {} ELSE @[f]]]
           /\ present' = [present EXCEPT ![mig.from] = @ \ gone]
           /\ volatile' = [volatile EXCEPT ![mig.from] = @ \ gone]
    BY <1>4 DEF RemoveOld
  <2> DEFINE left == [f \in Files |-> IF f \in gone THEN {} ELSE fs[mig.from][f]]
  <2>3. left \in [Files -> SUBSET Updates] /\ fs' = [fs EXCEPT ![mig.from] = left]
    BY <1>1, <2>1, <2>2
  <2>4. /\ present[mig.from] \ gone \in SUBSET Files
        /\ volatile[mig.from] \ gone \in SUBSET Files
    BY <1>1, <2>1
  <2> HIDE DEF left
  <2> QED
    BY <1>1, <2>1, <2>2, <2>3, <2>4
<1>5. CASE PowerLoss
  <2>1. fs' \in [Places -> [Files -> SUBSET Updates]]
    BY <1>1, <1>5 DEF PowerLoss
  <2> QED
    BY <1>1, <1>5, <2>1 DEF PowerLoss
<1>6. CASE WriteBack
  BY <1>1, <1>6 DEF WriteBack, history
<1>7. CASE UNCHANGED <<fs, present, volatile, had>>
  BY <1>1, <1>7
<1> QED
  BY <1>1, <1>2, <1>3, <1>4, <1>5, <1>6, <1>7
  DEF Next, Copy, Script, FailCopy, FailOpen, StartMigration, WalkFails, Verify,
      SetDataDir, Killed, StopService, StartService, vars, history

\* The migration itself, the counters and the histories.
LEMMA MigTyped ==
    ASSUME TypeOK, [Next]_vars
    PROVE  /\ mig' = Idle \/ mig' \in Migrations
           /\ made' \in 0..MaxUpdates /\ runs' \in 0..MaxRuns /\ losses' \in 0..MaxLosses
           /\ late' \subseteq Files /\ broken' \subseteq Files /\ clobbered' \subseteq Files
           /\ home' \in Places /\ removed' \in BOOLEAN /\ conf' \in Paths \cup {Astray}
<1>1. /\ mig = Idle \/ mig \in Migrations
      /\ made \in 0..MaxUpdates /\ runs \in 0..MaxRuns /\ losses \in 0..MaxLosses
      /\ late \subseteq Files /\ broken \subseteq Files /\ clobbered \subseteq Files
      /\ home \in Places /\ removed \in BOOLEAN /\ conf \in Paths \cup {Astray}
      /\ fs' \in [Places -> [Files -> SUBSET Updates]]
      /\ present \in [Places -> SUBSET Files] /\ volatile \in [Places -> SUBSET Files]
  BY FilesTyped DEF TypeOK
<1>2. ASSUME NEW f \in Files, NEW d \in Places, Update(f, d)
      PROVE  /\ mig' = Idle \/ mig' \in Migrations
             /\ made' \in 0..MaxUpdates
             /\ late' \subseteq Files
             /\ UNCHANGED <<runs, losses, home, broken, clobbered, removed, conf>>
  <2>1. mig' = mig \/ (Migrating /\ mig' = [mig EXCEPT !.late = @ \cup {f}])
    BY <1>2 DEF Update, Copying
  <2>2. /\ made' \in 0..MaxUpdates
        /\ UNCHANGED <<runs, losses, home, broken, clobbered, removed, conf>>
    BY <1>1, <1>2, BoundsAssumption DEF Update, service
  <2>3. late' = late \/ late' = late \cup {f}
    BY <1>2 DEF Update
  <2>4. CASE Migrating /\ mig' = [mig EXCEPT !.late = @ \cup {f}]
    <3>1. mig \in Migrations
      BY <1>1, <2>4 DEF Migrating
    <3>2. mig.late \cup {f} \in SUBSET Files
      BY <3>1 DEF Migrations
    <3>3. mig' \in Migrations
      BY <2>4, <3>1, <3>2 DEF Migrations
    <3> QED
      BY <1>1, <2>2, <2>3, <3>3
  <2> QED
    BY <1>1, <2>1, <2>2, <2>3, <2>4
<1>3. ASSUME NEW f \in Files, Copy(f)
      PROVE  /\ mig' \in Migrations /\ clobbered' \subseteq Files
             /\ UNCHANGED <<made, runs, losses, home, late, broken, removed, conf>>
  <2>1. /\ mig \in Migrations /\ clobbered' \subseteq Files
        /\ UNCHANGED <<made, runs, losses, home, late, broken, removed, conf>>
    BY <1>1, <1>3 DEF Copy, OpenCopy, FinishCopy, FailCopy, FailOpen, service, moved, history
  <2>2. CASE OpenCopy(f)
    <3> DEFINE b == fs'[mig.from][f]
    <3>1. b \in SUBSET Updates
      BY <1>1, <2>1 DEF Migrations
    <3>2. mig' = [at |-> "copying", to |-> mig.to, from |-> mig.from,
                  deleteOld |-> mig.deleteOld, left |-> mig.left \ {f}, file |-> {f},
                  buf |-> b, failed |-> mig.failed, late |-> mig.late]
      BY <2>1, <2>2 DEF OpenCopy, Migrations
    <3> HIDE DEF b
    <3>3. mig.left \ {f} \in SUBSET Files /\ {f} \in SUBSET Files
      BY <2>1 DEF Migrations
    <3> QED
      BY <2>1, <3>1, <3>2, <3>3 DEF Migrations
  <2>3. CASE FinishCopy(f)
    <3>1. mig' = [mig EXCEPT !.at = "walk", !.file = {}, !.buf = {}]
      BY <2>3 DEF FinishCopy
    <3> QED
      BY <2>1, <3>1 DEF Migrations
  <2>4. CASE FailCopy(f)
    <3>1. mig' = [mig EXCEPT !.at = "walk", !.file = {}, !.buf = {}, !.failed = @ \cup {f}]
      BY <2>4 DEF FailCopy
    <3>2. mig.failed \cup {f} \in SUBSET Files
      BY <2>1 DEF Migrations
    <3> QED
      BY <2>1, <3>1, <3>2 DEF Migrations
  <2>5. CASE FailOpen(f)
    <3>1. mig' = [mig EXCEPT !.left = @ \ {f}, !.failed = @ \cup {f}]
      BY <2>5 DEF FailOpen
    <3>2. mig.failed \cup {f} \in SUBSET Files /\ mig.left \ {f} \in SUBSET Files
      BY <2>1 DEF Migrations
    <3> QED
      BY <2>1, <3>1, <3>2 DEF Migrations
  <2> QED
    BY <1>3, <2>1, <2>2, <2>3, <2>4, <2>5 DEF Copy
<1>4. ASSUME NEW p \in [place : Places, slash : Slashes], NEW x \in BOOLEAN,
             StartMigration(p, x)
      PROVE  /\ mig' \in Migrations /\ runs' \in 0..MaxRuns
             /\ UNCHANGED <<made, losses, home, late, broken, clobbered, removed, conf>>
  <2>1. p \in Paths /\ conf.place \in Places /\ present[conf.place] \in SUBSET Files
    BY <1>1, <1>4, SlashesAssumption DEF StartMigration, Paths
  <2>2. mig' \in Migrations
    BY <1>4, <2>1 DEF StartMigration, Migrations
  <2> QED
    BY <1>1, <1>4, <2>2, BoundsAssumption DEF StartMigration, service, moved, history
<1>5. ASSUME mig \in Migrations, MoveHome
      PROVE  late' \subseteq Files /\ broken' \subseteq Files /\ home' \in Places
  BY <1>1, <1>5 DEF MoveHome, moved, Migrations, Paths
<1>6. CASE WalkFails \/ Verify \/ Killed \/ StopService \/ StartService
  <2>1. /\ mig \in Migrations
        /\ \/ mig' = Idle
           \/ \E a \in {"copied", "start"} : mig' = [mig EXCEPT !.at = a]
    BY <1>1, <1>6 DEF WalkFails, Verify, Killed, Copying, Migrating, StopService, StartService
  <2>2. mig' = Idle \/ mig' \in Migrations
    BY <2>1 DEF Migrations
  <2> QED
    BY <1>1, <1>6, <2>2
    DEF WalkFails, Verify, Killed, StopService, StartService, service, moved, history
<1>7. CASE RemoveOld
  <2>1. /\ mig \in Migrations /\ mig' = [mig EXCEPT !.at = "removed"] /\ MoveHome
        /\ removed' = TRUE /\ UNCHANGED <<conf, made, runs, losses, clobbered>>
    BY <1>1, <1>7 DEF RemoveOld, service
  <2>2. mig' \in Migrations
    BY <2>1 DEF Migrations
  <2> QED
    BY <1>1, <1>5, <2>1, <2>2
<1>8. CASE SetDataDir
  <2>1. /\ mig \in Migrations /\ mig' = [mig EXCEPT !.at = "stop"] /\ NameTarget
        /\ UNCHANGED <<made, runs, losses, clobbered, removed>>
    BY <1>1, <1>8 DEF SetDataDir, Answered
  <2>2. mig' \in Migrations /\ mig.to \in Paths
    BY <2>1 DEF Migrations
  <2>3. /\ conf' \in Paths \cup {Astray}
        /\ late' \subseteq Files /\ broken' \subseteq Files /\ home' \in Places
    BY <1>1, <1>5, <2>1, <2>2 DEF NameTarget, moved
  <2> QED
    BY <1>1, <2>1, <2>2, <2>3
<1>9. CASE PowerLoss
  <2>1. volatile[home] \subseteq Files
    BY <1>1
  <2> QED
    BY <1>1, <1>9, <2>1, BoundsAssumption DEF PowerLoss
<1>10. CASE WriteBack \/ UNCHANGED vars
  BY <1>1, <1>10 DEF WriteBack, vars, service, moved, history
<1> QED
  BY <1>1, <1>2, <1>3, <1>4, <1>6, <1>7, <1>8, <1>9, <1>10 DEF Next, Script

\* Where the service runs.
LEMMA NextPhases ==
    ASSUME WInv, [Next]_vars PROVE Phases'
<1>1. /\ mig = Idle \/ mig \in Migrations
      /\ Phases
  BY DEF WInv, TypeOK
<1>2. ASSUME NEW f \in Files, NEW d \in Places, Update(f, d) PROVE Phases'
  <2>1. /\ UNCHANGED <<conf, daemon, home, removed>> /\ Named' = Named
        /\ mig' = mig \/ (Migrating /\ mig' = [mig EXCEPT !.late = @ \cup {f}])
    BY <1>2 DEF Update, Copying, service, Named
  <2>2. /\ Migrating' <=> Migrating
        /\ Migrating => mig'.at = mig.at /\ mig'.from = mig.from /\ mig'.deleteOld = mig.deleteOld
    BY <1>1, <2>1, IdleIsNone DEF Migrating, Migrations
  <2> QED
    BY <1>1, <2>1, <2>2 DEF Phases, Copying
<1>3. ASSUME NEW f \in Files, Copy(f) PROVE Phases'
  <2>1. /\ UNCHANGED <<conf, daemon, home, removed>> /\ Copying /\ Named' = Named
        /\ mig'.at \in {"walk", "copying"} /\ mig'.from = mig.from
    BY <1>1, <1>3, IdleIsNone DEF Copy, OpenCopy, FinishCopy, FailCopy, FailOpen,
       Copying, Migrating, Migrations, service, moved, history, Named
  <2> QED
    BY <1>1, <2>1 DEF Phases, Copying, Migrating
<1>4. ASSUME NEW p, NEW x, StartMigration(p, x) PROVE Phases'
  <2>1. /\ UNCHANGED <<conf, daemon, home, removed>> /\ Named' = Named
        /\ ~Migrating /\ conf # Astray /\ mig'.at = "walk" /\ mig'.from = conf.place
    BY <1>4 DEF StartMigration, service, moved, history, Named
  <2> QED
    BY <1>1, <2>1 DEF Phases, Copying, Migrating
<1>5. CASE WalkFails \/ Verify \/ Killed
  <2>1. /\ UNCHANGED <<conf, daemon, home, removed>> /\ Copying /\ Named' = Named
        /\ \/ mig' = Idle
           \/ mig'.at = "copied" /\ mig'.from = mig.from
    BY <1>1, <1>5, IdleIsNone DEF WalkFails, Verify, Killed, Copying, Migrating,
       Migrations, service, moved, history, Named
  <2> QED
    BY <1>1, <2>1, IdleIsNone DEF Phases, Copying, Migrating
<1>6. CASE RemoveOld
  <2>1. /\ UNCHANGED <<conf, daemon>> /\ Copying /\ Named' = Named /\ removed' = TRUE
        /\ mig'.at = "removed" /\ mig'.from = mig.from /\ mig'.deleteOld
    BY <1>1, <1>6, IdleIsNone DEF RemoveOld, Copying, Migrating, Migrations, service, Named
  <2> QED
    BY <1>1, <2>1 DEF Phases, Copying, Migrating
<1>7. CASE SetDataDir
  <2>1. /\ Copying /\ removed' = removed /\ mig'.at = "stop" /\ NameTarget
        /\ mig \in Migrations
    BY <1>1, <1>7, IdleIsNone DEF SetDataDir, Answered, Copying, Migrating, Migrations
  <2>2. removed \/ conf' = Astray \/ conf'.place = home'
    <3>1. mig.from = conf.place /\ (removed \/ conf.place = home)
      BY <1>1, <2>1 DEF Phases
    <3> QED
      BY <2>1, <3>1 DEF NameTarget, MoveHome
  <2> QED
    BY <2>1, <2>2, IdleIsNone DEF Phases, Copying, Migrating
<1>8. CASE StopService
  <2>1. /\ UNCHANGED <<conf, home, removed>> /\ daemon' = {} /\ mig'.at = "start"
    BY <1>1, <1>8 DEF StopService, Migrations, moved, history
  <2> QED
    BY <1>1, <2>1, IdleIsNone DEF Phases, Copying, Migrating
<1>9. CASE StartService
  <2>1. /\ UNCHANGED <<conf, home, removed>> /\ mig' = Idle /\ daemon' = Named
        /\ Named' = Named
    BY <1>1, <1>9 DEF StartService, Phases, Migrating, moved, history, Named
  <2> QED
    BY <1>1, <2>1, IdleIsNone DEF Phases, Copying, Migrating
<1>10. CASE PowerLoss
  <2>1. /\ UNCHANGED <<conf, home, removed>> /\ mig' = Idle /\ daemon' = Named
        /\ Named' = Named
    BY <1>10 DEF PowerLoss, Named
  <2> QED
    BY <1>1, <2>1, IdleIsNone DEF Phases, Copying, Migrating
<1>11. CASE WriteBack \/ UNCHANGED vars
  <2>1. UNCHANGED <<conf, daemon, home, removed, mig>> /\ Named' = Named
    BY <1>11 DEF WriteBack, vars, service, moved, history, Named
  <2> QED
    BY <1>1, <2>1 DEF Phases, Copying, Migrating
<1> QED
  BY <1>2, <1>3, <1>4, <1>5, <1>6, <1>7, <1>8, <1>9, <1>10, <1>11 DEF Next, Script

\* Every step keeps the types and the places.
LEMMA NextWInv ==
    ASSUME WInv, [Next]_vars PROVE WInv'
<1>1. /\ mig = Idle \/ mig \in Migrations
      /\ conf' \in Paths \cup {Astray}
      /\ daemon \in SUBSET Places /\ Cardinality(daemon) <= 1
  BY MigTyped DEF WInv, TypeOK
<1>2. Phases'
  BY NextPhases
<1>3. daemon' = daemon \/ daemon' = {} \/ daemon' = Named'
  <2>1. CASE StartService
    BY <1>1, <2>1 DEF StartService, WInv, Phases, Migrating, Named
  <2>2. CASE PowerLoss
    BY <2>2 DEF PowerLoss, Named
  <2>3. CASE ~(StartService \/ PowerLoss)
    <3>1. daemon' = daemon \/ daemon' = {}
      BY <2>3 DEF Next, Script, Copy, OpenCopy, FinishCopy, FailCopy, FailOpen, Update,
         StartMigration, WalkFails, Verify, RemoveOld, Killed, SetDataDir, StopService,
         WriteBack, vars, service
    <3> QED
      BY <3>1
  <2> QED
    BY <2>1, <2>2, <2>3
<1>4. daemon' \in SUBSET Places /\ Cardinality(daemon') <= 1
  <2>1. Named' = {} \/ \E x \in Places : Named' = {x}
    BY <1>1, NamedPlace DEF Named, Paths
  <2>2. \A x : Cardinality({x}) = 1
    BY FS_Singleton
  <2>3. Cardinality({}) = 0
    BY FS_EmptySet
  <2> QED
    BY <1>1, <1>3, <2>1, <2>2, <2>3
<1>5. TypeOK'
  BY <1>1, <1>4, FilesTyped, MigTyped DEF WInv, TypeOK
<1> QED
  BY <1>2, <1>5 DEF WInv

\* The types and the places of daemon and dbus hold in every reachable state,
\* without an assumption about paths.
THEOREM TypesAndPlaces == Spec => []WInv
<1>1. Init => WInv
  BY InitWInv
<1>2. WInv /\ [Next]_vars => WInv'
  BY NextWInv
<1> QED
  BY <1>1, <1>2, PTL DEF Spec

\* The model's variables keep their types.
THEOREM TypeCorrect == Spec => []TypeOK
<1>1. WInv => TypeOK
  BY DEF WInv
<1> QED
  BY <1>1, TypesAndPlaces, PTL

\* However paths are spelled, and whatever fails or is cut short: when no
\* migration is under way and dbus is not astray, the service uses the
\* directory dbus names, and that is where the data was moved to unless an old
\* directory was removed.
THEOREM ServiceFollows == Spec => []RunsWhereConfigured
<1>1. WInv => RunsWhereConfigured
  BY DEF WInv, Phases, RunsWhereConfigured, Named
<1> QED
  BY <1>1, TypesAndPlaces, PTL

-----------------------------------------------------------------------------
\* The invariants of the data at the start.
LEMMA InitData ==
    ASSUME Init
    PROVE  Contents /\ Copies /\ Onto /\ NothingLeftBehind
<1>1. Contents
  BY DEF Init, Contents
<1>2. Copies /\ Onto
  BY DEF Init, Copies, Onto, Migrating
<1>3. NothingLeftBehind
  <2>1. home \in Places
    BY SlashesAssumption DEF Init
  <2> QED
    BY <2>1 DEF Init, NothingLeftBehind
<1> QED
  BY <1>1, <1>2, <1>3

\* Which file of which place each step writes: an update and the two steps of
\* a copy write one, the removal empties a place, a power loss empties files.
LEMMA NextContents ==
    ASSUME MInv, [Next]_vars
    PROVE  Contents'
<1>1. /\ mig = Idle \/ mig \in Migrations
      /\ fs \in [Places -> [Files -> SUBSET Updates]]
      /\ present \in [Places -> SUBSET Files]
      /\ had \in [Files -> SUBSET Updates]
      /\ Contents
  BY DEF MInv, WInv, TypeOK
<1>2. SUFFICES ASSUME NEW e \in Places, NEW g \in Files
               PROVE  /\ g \notin present'[e] => fs'[e][g] = {}
                      /\ fs'[e][g] \subseteq had'[g]
  BY DEF Contents
<1>3. /\ g \notin present[e] => fs[e][g] = {}
      /\ fs[e][g] \subseteq had[g]
  BY <1>1 DEF Contents
<1>4. ASSUME NEW f \in Files, NEW d \in Places, Update(f, d)
      PROVE  /\ g \notin present'[e] => fs'[e][g] = {}
             /\ fs'[e][g] \subseteq had'[g]
  <2>1. /\ fs'[e][g] = IF e = d /\ g = f THEN fs[e][g] \cup {made + 1} ELSE fs[e][g]
        /\ had'[g] = IF g = f THEN had[g] \cup {made + 1} ELSE had[g]
        /\ present'[e] = IF e = d THEN present[e] \cup {f} ELSE present[e]
    BY <1>1, <1>4 DEF Update
  <2> QED
    BY <1>3, <2>1
<1>5. ASSUME NEW f \in Files, OpenCopy(f)
      PROVE  /\ g \notin present'[e] => fs'[e][g] = {}
             /\ fs'[e][g] \subseteq had'[g]
  <2>1. /\ fs'[e][g] = IF e = mig.to.place /\ g = f THEN {} ELSE fs[e][g]
        /\ present[e] \subseteq present'[e] /\ had' = had
    BY <1>1, <1>5 DEF OpenCopy, history
  <2> QED
    BY <1>3, <2>1
<1>6. ASSUME NEW f \in Files, FinishCopy(f)
      PROVE  /\ g \notin present'[e] => fs'[e][g] = {}
             /\ fs'[e][g] \subseteq had'[g]
  <2>1. /\ mig \in Migrations /\ Migrating /\ mig.at = "copying" /\ f \in mig.file
        /\ mig.from \in Places
    BY <1>1, <1>6 DEF FinishCopy, Migrating, Migrations
  <2>2. /\ mig.buf \subseteq had[f] /\ fs[mig.from][f] \subseteq had[f]
        /\ f \in present[mig.to.place]
    BY <1>1, <2>1 DEF MInv, Copies, Contents
  <2>3. /\ fs'[e][g] = IF e = mig.to.place /\ g = f
                         THEN IF f \in Appended THEN fs[mig.from][f] ELSE mig.buf
                         ELSE fs[e][g]
        /\ present' = present /\ had' = had
    BY <1>1, <1>6 DEF FinishCopy, history
  <2> QED
    BY <1>3, <2>2, <2>3
<1>7. CASE RemoveOld
  <2>1. PICK gone \in SUBSET present[mig.from] :
           /\ fs' = [fs EXCEPT ![mig.from] =
                        [f \in Files |-> IF f \in gone THEN {} ELSE @[f]]]
           /\ present' = [present EXCEPT ![mig.from] = @ \ gone]
    BY <1>7 DEF RemoveOld
  <2>2. /\ fs'[e][g] = IF e = mig.from /\ g \in gone THEN {} ELSE fs[e][g]
        /\ present'[e] = IF e = mig.from THEN present[e] \ gone ELSE present[e]
    BY <1>1, <2>1
  <2>3. had' = had
    BY <1>7 DEF RemoveOld
  <2> QED
    BY <1>3, <2>2, <2>3
<1>8. CASE PowerLoss
  <2>1. /\ fs'[e][g] = {} \/ fs'[e][g] = fs[e][g]
        /\ present' = present /\ had' = had
    BY <1>8 DEF PowerLoss
  <2> QED
    BY <1>3, <2>1
<1>9. CASE UNCHANGED <<fs, present, had>>
  BY <1>3, <1>9
<1> QED
  BY <1>4, <1>5, <1>6, <1>7, <1>8, <1>9
  DEF Next, Copy, Script, FailCopy, FailOpen, StartMigration, WalkFails, Verify,
      SetDataDir, Killed, StopService, StartService, WriteBack, vars, history

\* What a migration has copied it keeps in step: a file of the old directory
\* that changes later is counted among the late ones.
LEMMA NextCopies ==
    ASSUME MInv, [Next]_vars
    PROVE  Copies'
<1> DEFINE Working == {"walk", "copying", "copied"}
<1>1. /\ mig = Idle \/ mig \in Migrations
      /\ fs \in [Places -> [Files -> SUBSET Updates]]
      /\ present \in [Places -> SUBSET Files]
      /\ had \in [Files -> SUBSET Updates]
      /\ Contents /\ Copies /\ Phases
  BY DEF MInv, WInv, TypeOK
<1>2. ASSUME NEW f \in Files, NEW d \in Places, Update(f, d)
      PROVE  Copies'
  <2>1. /\ \A e \in Places, g \in Files :
              fs'[e][g] = IF e = d /\ g = f THEN fs[e][g] \cup {made + 1} ELSE fs[e][g]
        /\ \A g \in Files : had[g] \subseteq had'[g]
        /\ \A e \in Places : present[e] \subseteq present'[e]
    BY <1>1, <1>2 DEF Update
  <2>2. CASE ~Migrating
    BY <1>2, <2>2 DEF Update, Copying, Copies, Migrating
  <2>3. CASE Migrating
    <3>1. /\ mig \in Migrations /\ mig.from \in Places /\ mig.to.place \in Places
      BY <1>1, <2>3 DEF Migrating, Migrations, Paths
    <3>2. /\ mig' = [mig EXCEPT !.late = mig'.late]
          /\ mig'.late = IF Copying /\ d = mig.from /\ ReadAlready(f)
                           THEN mig.late \cup {f} ELSE mig.late
      BY <1>2, <3>1 DEF Update, Migrations
    <3>3. /\ mig'.at = mig.at /\ mig'.to = mig.to /\ mig'.from = mig.from
          /\ mig'.left = mig.left /\ mig'.file = mig.file /\ mig'.buf = mig.buf
          /\ mig'.failed = mig.failed
      BY <3>1, <3>2 DEF Migrations
    <3>4. CASE mig.at \notin Working
      BY <1>1, <2>3, <3>3, <3>4 DEF Copies, Migrating
    <3>5. CASE mig.at \in Working
      <4>1. Copying /\ d = mig.from
        BY <1>1, <1>2, <2>3, <3>5 DEF Copying, Phases, Named, Update
      <4>2. \A g \in Files \ {f} : /\ fs'[mig.from][g] = fs[mig.from][g]
                                   /\ fs'[mig.to.place][g] = fs[mig.to.place][g]
        BY <2>1, <3>1
      <4>3. ASSUME NEW g \in Files
            PROVE  /\ Copied(g)' => fs'[mig.from][g] \subseteq fs'[mig.to.place][g]
                   /\ g \in mig.file =>
                         /\ mig.file = {g} /\ g \notin mig.left
                         /\ g \in present'[mig.to.place] /\ mig.buf \subseteq had'[g]
                   /\ g \in mig.file \ (Appended \cup mig'.late) =>
                         fs'[mig.from][g] \subseteq mig.buf
        <5>1. /\ Copied(g) => fs[mig.from][g] \subseteq fs[mig.to.place][g]
              /\ g \in mig.file =>
                    /\ mig.file = {g} /\ g \notin mig.left
                    /\ g \in present[mig.to.place] /\ mig.buf \subseteq had[g]
              /\ g \in mig.file \ (Appended \cup mig.late) =>
                    fs[mig.from][g] \subseteq mig.buf
          BY <1>1, <2>3, <3>5 DEF Copies
        <5>2. Copied(g)' => Copied(g)
          BY <3>2, <3>3 DEF Copied
        <5>3. CASE g # f
          BY <2>1, <3>1, <3>2, <4>2, <5>1, <5>2, <5>3
        <5>4. CASE g = f
          <6>1. ReadAlready(f) => f \in mig'.late
            BY <3>2, <4>1
          <6>2. ~Copied(g)'
            BY <1>1, <2>3, <3>3, <3>5, <5>4, <6>1 DEF Copied, ReadAlready, Copies
          <6>3. g \in mig.file \ (Appended \cup mig'.late) => FALSE
            BY <5>1, <5>4, <6>1 DEF ReadAlready
          <6> QED
            BY <2>1, <3>1, <5>1, <6>2, <6>3
        <5> QED
          BY <5>3, <5>4
      <4>4. /\ mig.at # "copying" => mig.file = {}
            /\ mig.at = "copied" => mig.left = {}
        BY <1>1, <2>3, <3>5 DEF Copies
      <4> QED
        BY <3>3, <3>5, <4>3, <4>4 DEF Copies
    <3> QED
      BY <3>4, <3>5
  <2> QED
    BY <2>2, <2>3
<1>3. ASSUME NEW f \in Files, Copy(f)
      PROVE  Copies'
  <2>1. /\ mig \in Migrations /\ Migrating /\ mig.from \in Places /\ mig.to.place \in Places
        /\ mig.at \in {"walk", "copying"}
    BY <1>1, <1>3 DEF Copy, OpenCopy, FinishCopy, FailCopy, FailOpen, Migrating,
       Migrations, Paths
  <2>2. /\ mig.at # "copying" => mig.file = {}
        /\ \A g \in Files :
              /\ Copied(g) => fs[mig.from][g] \subseteq fs[mig.to.place][g]
              /\ g \in mig.file =>
                    /\ mig.file = {g} /\ g \notin mig.left
                    /\ g \in present[mig.to.place] /\ mig.buf \subseteq had[g]
              /\ g \in mig.file \ (Appended \cup mig.late) =>
                    fs[mig.from][g] \subseteq mig.buf
    BY <1>1, <2>1 DEF Copies
  <2>3. CASE OpenCopy(f)
    <3>1. \A e \in Places, g \in Files :
             fs'[e][g] = IF e = mig.to.place /\ g = f THEN {} ELSE fs[e][g]
      BY <1>1, <2>3 DEF OpenCopy
    <3>2. /\ mig'.at = "copying" /\ mig'.left = mig.left \ {f} /\ mig'.file = {f}
          /\ mig'.buf = fs'[mig.from][f]
          /\ mig'.to = mig.to /\ mig'.from = mig.from
          /\ mig'.failed = mig.failed /\ mig'.late = mig.late
          /\ mig.file = {}
          /\ f \in present'[mig.to.place] /\ had' = had
      BY <1>1, <2>1, <2>2, <2>3 DEF OpenCopy, Migrations
    <3>3. fs'[mig.from][f] \subseteq had[f]
      BY <1>1, <2>1, <3>1 DEF Contents
    <3>4. \A g \in Files : Copied(g)' => Copied(g) /\ g # f
      BY <3>2 DEF Copied
    <3>5. \A g \in Files \ {f} : /\ fs'[mig.from][g] = fs[mig.from][g]
                                 /\ fs'[mig.to.place][g] = fs[mig.to.place][g]
      BY <2>1, <3>1
    <3> QED
      BY <2>2, <3>2, <3>3, <3>4, <3>5 DEF Copies
  <2>4. CASE FinishCopy(f)
    <3>1. \A e \in Places, g \in Files :
             fs'[e][g] = IF e = mig.to.place /\ g = f
                           THEN IF f \in Appended THEN fs[mig.from][f] ELSE mig.buf
                           ELSE fs[e][g]
      BY <1>1, <2>4 DEF FinishCopy
    <3>2. /\ mig'.at = "walk" /\ mig'.left = mig.left /\ mig'.file = {}
          /\ mig'.to = mig.to /\ mig'.from = mig.from
          /\ mig'.failed = mig.failed /\ mig'.late = mig.late
          /\ f \in mig.file
      BY <2>1, <2>4 DEF FinishCopy, Migrations
    <3>3. ASSUME NEW g \in Files, Copied(g)'
          PROVE  fs'[mig.from][g] \subseteq fs'[mig.to.place][g]
      <4> SUFFICES ASSUME mig.to.place # mig.from
                   PROVE  fs'[mig.from][g] \subseteq fs'[mig.to.place][g]
        OBVIOUS
      <4>1. fs'[mig.from][g] = fs[mig.from][g]
        BY <2>1, <3>1
      <4>2. CASE g = f
        <5>1. f \notin mig.late
          BY <3>2, <3>3, <4>2 DEF Copied
        <5>2. f \notin Appended => fs[mig.from][f] \subseteq mig.buf
          BY <2>2, <3>2, <5>1
        <5> QED
          BY <2>1, <3>1, <4>1, <4>2, <5>2
      <4>3. CASE g # f
        <5>1. Copied(g)
          BY <2>2, <3>2, <3>3, <4>3 DEF Copied
        <5> QED
          BY <2>1, <2>2, <3>1, <4>1, <4>3, <5>1
      <4> QED
        BY <4>2, <4>3
    <3> QED
      BY <3>2, <3>3 DEF Copies
  <2>5. CASE FailCopy(f) \/ FailOpen(f)
    <3>1. /\ mig'.at = "walk" /\ mig'.file = {} /\ mig'.to = mig.to /\ mig'.from = mig.from
          /\ mig'.late = mig.late /\ mig'.failed = mig.failed \cup {f}
          /\ mig.left \subseteq mig'.left \cup {f}
          /\ mig.file \subseteq {f}
          /\ fs' = fs
      <4>1. CASE FailCopy(f)
        BY <2>1, <2>2, <4>1 DEF FailCopy, Migrations
      <4>2. CASE FailOpen(f)
        BY <2>1, <2>2, <4>2 DEF FailOpen, Migrations
      <4> QED
        BY <2>5, <4>1, <4>2
    <3>2. \A g \in Files : Copied(g)' => Copied(g)
      BY <3>1 DEF Copied
    <3> QED
      BY <2>2, <3>1, <3>2 DEF Copies
  <2> QED
    BY <1>3, <2>3, <2>4, <2>5 DEF Copy
<1>4. ASSUME NEW p, NEW x, StartMigration(p, x)
      PROVE  Copies'
  <2>1. /\ mig'.at = "walk" /\ mig'.file = {} /\ mig'.from = conf.place /\ mig'.to = p
        /\ mig'.left = present[conf.place] /\ fs' = fs
    BY <1>4 DEF StartMigration
  <2>2. \A g \in Files : Copied(g)' => fs[conf.place][g] = {}
    BY <1>1, <1>4, <2>1 DEF Copied, Contents, Paths, StartMigration, WInv, TypeOK, MInv
  <2> QED
    BY <2>1, <2>2 DEF Copies
<1>5. CASE Verify
  <2>1. CASE mig' = Idle
    BY <2>1, IdleIsNone DEF Copies, Migrating
  <2>2. CASE mig' # Idle
    <3>1. /\ mig \in Migrations /\ mig.at = "walk" /\ mig.left = {}
          /\ mig' = [mig EXCEPT !.at = "copied"]
          /\ UNCHANGED <<fs, present, had>>
      BY <1>1, <1>5, <2>2 DEF Verify, history
    <3>2. /\ mig'.at = "copied" /\ mig'.left = {} /\ mig'.file = mig.file
          /\ mig'.buf = mig.buf /\ mig'.to = mig.to /\ mig'.from = mig.from
          /\ mig'.failed = mig.failed /\ mig'.late = mig.late /\ mig.left = {}
      BY <3>1 DEF Migrations
    <3>3. mig.file = {} /\ \A g \in Files :
                              Copied(g) => fs[mig.from][g] \subseteq fs[mig.to.place][g]
      BY <1>1, <1>5, <3>1 DEF Copies, Verify, Migrating
    <3>4. \A g \in Files : Copied(g)' => Copied(g)
      BY <3>2 DEF Copied
    <3> QED
      BY <3>1, <3>2, <3>3, <3>4 DEF Copies
  <2> QED
    BY <2>1, <2>2
<1>6. CASE RemoveOld \/ SetDataDir \/ StopService
  <2>1. mig'.at \in {"removed", "stop", "start"}
    BY <1>1, <1>6 DEF RemoveOld, SetDataDir, Answered, StopService, Migrations
  <2> QED
    BY <2>1 DEF Copies
<1>7. CASE mig' = Idle
  BY <1>7, IdleIsNone DEF Copies, Migrating
<1>8. CASE UNCHANGED <<fs, present, mig, had>>
  BY <1>1, <1>8 DEF Copies, Migrating, Copied
<1> QED
  BY <1>2, <1>3, <1>4, <1>5, <1>6, <1>7, <1>8
  DEF Next, Script, WalkFails, Killed, StartService, PowerLoss, WriteBack, vars, history

\* Which files a copy onto themselves or onto the data has clobbered.
LEMMA NextOnto ==
    ASSUME MInv, [Next]_vars
    PROVE  Onto'
<1> DEFINE Working == {"walk", "copying", "copied"}
<1>1. /\ mig = Idle \/ mig \in Migrations
      /\ fs \in [Places -> [Files -> SUBSET Updates]]
      /\ Contents /\ Copies /\ Onto /\ Phases
  BY DEF MInv, WInv, TypeOK
<1>2. ASSUME NEW f \in Files, NEW d \in Places, Update(f, d)
      PROVE  Onto'
  <2>1. /\ \A e \in Places, g \in Files :
              fs'[e][g] = IF e = d /\ g = f THEN fs[e][g] \cup {made + 1} ELSE fs[e][g]
        /\ UNCHANGED <<home, clobbered>>
    BY <1>1, <1>2 DEF Update
  <2>2. CASE ~Migrating
    BY <1>2, <2>2 DEF Update, Copying, Onto, Migrating
  <2>3. CASE Migrating /\ mig.at \in Working
    <3>1. mig \in Migrations /\ mig.from \in Places /\ Copying /\ d = mig.from
      BY <1>1, <1>2, <2>3 DEF Migrating, Migrations, Copying, Phases, Named, Update
    <3>2. /\ mig' = [mig EXCEPT !.late = mig'.late]
          /\ mig'.late = IF ReadAlready(f) THEN mig.late \cup {f} ELSE mig.late
      BY <1>2, <3>1 DEF Update, Migrations
    <3>3. /\ mig'.at = mig.at /\ mig'.to = mig.to /\ mig'.from = mig.from
          /\ mig'.left = mig.left /\ mig'.file = mig.file /\ mig'.failed = mig.failed
      BY <3>1, <3>2 DEF Migrations
    <3>4. ASSUME NEW g \in Files, Copied(g)', mig.to.place = mig.from
          PROVE  g \in clobbered \/ fs'[mig.from][g] = {}
      <4>1. Copied(g)
        BY <3>2, <3>3, <3>4 DEF Copied
      <4>2. g # f
        BY <3>2, <3>3, <3>4 DEF Copied, ReadAlready
      <4> QED
        BY <1>1, <2>1, <2>3, <3>1, <3>4, <4>1, <4>2 DEF Onto
    <3> QED
      BY <1>1, <2>1, <2>3, <3>3, <3>4 DEF Onto
  <2>4. CASE Migrating /\ mig.at \notin Working
    <3>1. mig'.at = mig.at
      BY <1>1, <1>2, <2>4 DEF Update, Migrating, Migrations
    <3> QED
      BY <2>4, <3>1 DEF Onto
  <2> QED
    BY <2>2, <2>3, <2>4
<1>3. ASSUME NEW f \in Files, Copy(f)
      PROVE  Onto'
  <2>1. /\ mig \in Migrations /\ Migrating /\ mig.from \in Places
        /\ mig.at \in Working /\ home' = home
    BY <1>1, <1>3 DEF Copy, OpenCopy, FinishCopy, FailCopy, FailOpen, Migrating,
       Migrations, moved, history
  <2>2. \A g \in Files :
           /\ g \in mig.file /\ mig.to.place \in {home, mig.from} => g \in clobbered
           /\ mig.to.place = mig.from /\ Copied(g) =>
                 g \in clobbered \/ fs[mig.from][g] = {}
    BY <1>1, <2>1 DEF Onto
  <2>3. /\ mig.at # "copying" => mig.file = {}
        /\ \A g \in mig.file : mig.file = {g}
    BY <1>1, <2>1 DEF Copies, Migrations
  <2>4. CASE OpenCopy(f)
    <3>1. /\ mig'.at = "copying" /\ mig'.left = mig.left \ {f} /\ mig'.file = {f}
          /\ mig'.to = mig.to /\ mig'.from = mig.from
          /\ mig'.failed = mig.failed /\ mig'.late = mig.late /\ mig.file = {}
      BY <2>1, <2>3, <2>4 DEF OpenCopy, Migrations
    <3>2. clobbered' = IF mig.to.place \in {home, mig.from}
                         THEN clobbered \cup {f} ELSE clobbered
      BY <2>4 DEF OpenCopy
    <3>3. \A g \in Files \ {f} : fs'[mig.from][g] = fs[mig.from][g]
      BY <1>1, <2>1, <2>4 DEF OpenCopy
    <3>4. \A g \in Files : Copied(g)' => Copied(g) /\ g # f
      BY <3>1 DEF Copied
    <3> QED
      BY <2>1, <2>2, <3>1, <3>2, <3>3, <3>4 DEF Onto
  <2>5. CASE FinishCopy(f)
    <3>1. /\ mig'.left = mig.left /\ mig'.file = {} /\ f \in mig.file
          /\ mig'.to = mig.to /\ mig'.from = mig.from
          /\ mig'.failed = mig.failed /\ mig'.late = mig.late /\ clobbered' = clobbered
      BY <2>1, <2>5 DEF FinishCopy, Migrations, history
    <3>2. \A g \in Files \ {f} : fs'[mig.from][g] = fs[mig.from][g]
      BY <1>1, <2>1, <2>5 DEF FinishCopy
    <3>3. \A g \in Files : Copied(g)' => Copied(g) \/ g = f
      BY <2>3, <3>1 DEF Copied
    <3> QED
      BY <2>2, <3>1, <3>2, <3>3 DEF Onto
  <2>6. CASE FailCopy(f) \/ FailOpen(f)
    <3>1. /\ mig'.file = {} /\ mig'.to = mig.to /\ mig'.from = mig.from
          /\ mig'.late = mig.late /\ mig'.failed = mig.failed \cup {f}
          /\ mig.left \subseteq mig'.left \cup {f}
          /\ mig.file \subseteq {f}
          /\ fs' = fs /\ clobbered' = clobbered
      <4>1. CASE FailCopy(f)
        BY <2>1, <2>3, <4>1 DEF FailCopy, Migrations, history
      <4>2. CASE FailOpen(f)
        BY <2>1, <2>3, <4>2 DEF FailOpen, Migrations, history
      <4> QED
        BY <2>6, <4>1, <4>2
    <3>2. \A g \in Files : Copied(g)' => Copied(g)
      BY <3>1 DEF Copied
    <3> QED
      BY <2>2, <3>1, <3>2 DEF Onto
  <2> QED
    BY <1>3, <2>4, <2>5, <2>6 DEF Copy
<1>4. ASSUME NEW p, NEW x, StartMigration(p, x)
      PROVE  Onto'
  <2>1. /\ mig'.file = {} /\ mig'.from = conf.place /\ mig'.left = present[conf.place]
        /\ fs' = fs /\ conf \in Paths
    BY <1>4 DEF StartMigration, MInv, WInv, TypeOK
  <2>2. \A g \in Files : Copied(g)' => fs[conf.place][g] = {}
    BY <1>1, <2>1 DEF Copied, Contents, Paths
  <2> QED
    BY <2>1, <2>2 DEF Onto
<1>5. CASE Verify
  <2>1. CASE mig' = Idle
    BY <2>1, IdleIsNone DEF Onto, Migrating
  <2>2. CASE mig' # Idle
    <3>1. /\ Migrating /\ mig \in Migrations /\ mig.at = "walk"
          /\ mig' = [mig EXCEPT !.at = "copied"]
          /\ UNCHANGED <<fs, home, clobbered>>
      BY <1>1, <1>5, <2>2 DEF Verify, Migrating, moved, history
    <3>2. /\ mig'.file = mig.file /\ mig'.left = mig.left /\ mig'.to = mig.to
          /\ mig'.from = mig.from /\ mig'.failed = mig.failed /\ mig'.late = mig.late
      BY <3>1 DEF Migrations
    <3>3. \A g \in Files : Copied(g)' => Copied(g)
      BY <3>2 DEF Copied
    <3> QED
      BY <1>1, <3>1, <3>2, <3>3 DEF Onto
  <2> QED
    BY <2>1, <2>2
<1>6. CASE RemoveOld \/ SetDataDir \/ StopService
  <2>1. mig'.at \in {"removed", "stop", "start"}
    BY <1>1, <1>6 DEF RemoveOld, SetDataDir, Answered, StopService, Migrations
  <2> QED
    BY <2>1 DEF Onto
<1>7. CASE mig' = Idle
  BY <1>7, IdleIsNone DEF Onto, Migrating
<1>8. CASE UNCHANGED <<fs, mig, home, clobbered>>
  BY <1>1, <1>8 DEF Onto, Migrating, Copied
<1> QED
  BY <1>2, <1>3, <1>4, <1>5, <1>6, <1>7, <1>8
  DEF Next, Script, WalkFails, Killed, StartService, PowerLoss, WriteBack, vars,
      moved, history

\* What is safely in the new directory once every needed file is there: the
\* files that the walk left neither failed nor out of date.
LEMMA CopiedAll ==
    ASSUME MInv, Migrating, mig.at = "copied",
           NEW f \in Files, f \notin mig.failed \cup mig.late
    PROVE  fs[mig.from][f] \subseteq fs[mig.to.place][f]
BY DEF MInv, Copies, Copied

\* Once the walk is over without a failure, the new directory can stand for
\* the old one, file by file, wherever it is.
LEMMA MovedAll ==
    ASSUME MInv, Migrating, mig.at = "copied", mig.from = home,
           NEW g \in Files, g \notin mig.failed \cup mig.late \cup late \cup broken \cup clobbered
    PROVE  fs[mig.to.place][g] = had[g]
<1>1. mig \in Migrations /\ mig.to.place \in Places
  BY DEF MInv, WInv, TypeOK, Migrating, Migrations, Paths
<1>2. fs[mig.from][g] \subseteq fs[mig.to.place][g]
  BY CopiedAll
<1>3. fs[mig.to.place][g] \subseteq had[g]
  BY <1>1 DEF MInv, Contents
<1>4. fs[home][g] = had[g]
  BY DEF MInv, NothingLeftBehind
<1> QED
  BY <1>2, <1>3, <1>4

\* No update is left behind by any step.
LEMMA NextKept ==
    ASSUME MInv, [Next]_vars
    PROVE  NothingLeftBehind'
<1>1. /\ mig = Idle \/ mig \in Migrations
      /\ fs \in [Places -> [Files -> SUBSET Updates]]
      /\ had \in [Files -> SUBSET Updates]
      /\ Contents /\ Copies /\ Onto /\ NothingLeftBehind
      /\ home \in Places
  BY DEF MInv, WInv, TypeOK
<1>2. SUFFICES ASSUME NEW g \in Files, g \notin late' \cup broken' \cup clobbered'
               PROVE  fs'[home'][g] = had'[g]
  BY DEF NothingLeftBehind
<1>3. g \notin late \cup broken \cup clobbered => fs[home][g] = had[g]
  BY <1>1 DEF NothingLeftBehind
<1>4. ASSUME NEW f \in Files, NEW d \in Places, Update(f, d)
      PROVE  fs'[home'][g] = had'[g]
  <2>1. /\ fs'[home][g] = IF home = d /\ g = f THEN fs[home][g] \cup {made + 1} ELSE fs[home][g]
        /\ had'[g] = IF g = f THEN had[g] \cup {made + 1} ELSE had[g]
        /\ UNCHANGED <<home, broken, clobbered>>
        /\ late' = IF d # home THEN late \cup {f} ELSE late
    BY <1>1, <1>4 DEF Update
  <2> QED
    BY <1>2, <1>3, <2>1
<1>5. ASSUME NEW f \in Files, Copy(f)
      PROVE  fs'[home'][g] = had'[g]
  <2>1. UNCHANGED <<had, home, late, broken>>
    BY <1>5 DEF Copy, OpenCopy, FinishCopy, FailCopy, FailOpen, moved, history
  <2>2. clobbered \subseteq clobbered'
    BY <1>5 DEF Copy, OpenCopy, FinishCopy, FailCopy, FailOpen, history
  <2>3. fs'[home][g] = fs[home][g]
    <3>1. CASE OpenCopy(f)
      <4>1. g = f => mig.to.place # home
        BY <1>2, <3>1 DEF OpenCopy
      <4> QED
        BY <1>1, <3>1, <4>1 DEF OpenCopy
    <3>2. CASE FinishCopy(f)
      <4>1. g = f => mig.to.place # home
        BY <1>1, <1>2, <2>2, <3>2 DEF FinishCopy, Onto, Migrating
      <4> QED
        BY <1>1, <3>2, <4>1 DEF FinishCopy
    <3> QED
      BY <1>5, <3>1, <3>2 DEF Copy, FailCopy, FailOpen
  <2> QED
    BY <1>2, <1>3, <2>1, <2>2, <2>3
<1>6. CASE RemoveOld
  <2>1. /\ mig \in Migrations /\ Migrating /\ mig.at = "copied" /\ mig.failed = {}
        /\ mig.from \in Places /\ mig.to.place \in Places
    BY <1>1, <1>6 DEF RemoveOld, Migrating, Migrations, Paths
  <2>2. UNCHANGED <<had, clobbered>> /\ MoveHome
    BY <1>6 DEF RemoveOld
  <2>3. /\ \A e \in Places \ {mig.from} : fs'[e][g] = fs[e][g]
        /\ fs'[mig.from][g] = {} \/ fs'[mig.from][g] = fs[mig.from][g]
    BY <1>1, <1>6, <2>1 DEF RemoveOld
  <2>4. CASE mig.from # home
    BY <1>1, <1>2, <1>3, <2>2, <2>3, <2>4 DEF MoveHome, moved
  <2>5. CASE mig.from = home
    <3>1. /\ home' = mig.to.place
          /\ g \notin mig.failed \cup mig.late \cup late \cup broken \cup clobbered
      BY <1>2, <2>2, <2>5 DEF MoveHome
    <3>2. fs[mig.to.place][g] = had[g]
      BY <2>1, <2>5, <3>1, MovedAll
    <3>3. mig.to.place = mig.from => fs[mig.from][g] = {}
      <4>1. mig.left = {} /\ mig.file = {}
        BY <1>1, <2>1 DEF Copies
      <4>2. Copied(g)
        BY <3>1, <4>1 DEF Copied
      <4> QED
        BY <1>1, <2>1, <3>1, <4>2 DEF Onto
    <3> QED
      BY <2>1, <2>2, <2>3, <3>1, <3>2, <3>3
  <2> QED
    BY <2>4, <2>5
<1>7. CASE SetDataDir
  <2>1. /\ mig \in Migrations /\ Migrating /\ NameTarget
        /\ UNCHANGED <<fs, had, clobbered>>
        /\ mig.at = "removed" => mig.deleteOld
        /\ mig.at # "removed" => mig.at = "copied"
    BY <1>1, <1>7 DEF SetDataDir, Answered, Migrating, MInv, WInv, Phases
  <2> QED
    BY <1>2, <1>3, <2>1, MovedAll DEF NameTarget, MoveHome, moved
<1>8. CASE PowerLoss
  <2>1. /\ UNCHANGED <<had, home, late, clobbered>>
        /\ broken' = broken \cup volatile[home]
        /\ fs'[home][g] = IF g \in volatile[home] THEN {} ELSE fs[home][g]
    BY <1>1, <1>8 DEF PowerLoss
  <2> QED
    BY <1>2, <1>3, <2>1
<1>9. CASE UNCHANGED <<fs, had, home, late, broken, clobbered>>
  BY <1>2, <1>3, <1>9
<1> QED
  BY <1>4, <1>5, <1>6, <1>7, <1>8, <1>9
  DEF Next, Script, StartMigration, WalkFails, Verify, Killed, StopService, StartService,
      WriteBack, vars, moved, history

\* The only step after which a file is not there any more is the removal.
LEMMA OnlyRemoves ==
    ASSUME TypeOK, [Next]_vars, NEW d \in Places, NEW f \in present[d] \ present'[d]
    PROVE  RemoveOld /\ d = mig.from
<1>1. present \in [Places -> SUBSET Files]
  BY DEF TypeOK
<1>2. ASSUME NEW g \in Files, NEW e \in Places, Update(g, e) PROVE FALSE
  BY <1>1, <1>2 DEF Update
<1>3. ASSUME NEW g \in Files, OpenCopy(g) PROVE FALSE
  BY <1>1, <1>3 DEF OpenCopy
<1>4. CASE RemoveOld
  BY <1>1, <1>4 DEF RemoveOld
<1>5. present' # present
  OBVIOUS
<1> QED
  BY <1>2, <1>3, <1>4, <1>5
  DEF Next, Copy, Script, FinishCopy, FailCopy, FailOpen, StartMigration, WalkFails,
      Verify, Killed, SetDataDir, StopService, StartService, WriteBack, PowerLoss, vars

\* No step removes what is not in another directory.
LEMMA StepDeletes ==
    ASSUME MInv, [Next]_vars
    PROVE  \A d \in Places : \A f \in present[d] \ present'[d] :
              \/ f \in mig.late \cup clobbered
              \/ fs[d][f] \subseteq UNION {fs[e][f] : e \in Places \ {d}}
<1>1. SUFFICES ASSUME NEW d \in Places, NEW f \in present[d] \ present'[d],
                      f \notin mig.late \cup clobbered
               PROVE  fs[d][f] \subseteq UNION {fs[e][f] : e \in Places \ {d}}
  OBVIOUS
<1>2. TypeOK /\ Copies /\ Onto
  BY DEF MInv, WInv
<1>3. RemoveOld /\ d = mig.from
  BY <1>2, OnlyRemoves
<1>4. /\ mig \in Migrations /\ Migrating /\ mig.at = "copied" /\ mig.failed = {}
      /\ mig.to.place \in Places /\ f \in Files
  BY <1>2, <1>3 DEF RemoveOld, TypeOK, Migrating, Migrations, Paths
<1>5. CASE mig.to.place = mig.from
  <2>1. mig.left = {} /\ mig.file = {}
    BY <1>2, <1>4 DEF Copies
  <2>2. Copied(f)
    BY <1>1, <1>4, <2>1 DEF Copied
  <2>3. fs[d][f] = {}
    BY <1>1, <1>2, <1>3, <1>4, <1>5, <2>2 DEF Onto
  <2> QED
    BY <2>3
<1>6. CASE mig.to.place # mig.from
  <2>1. fs[d][f] \subseteq fs[mig.to.place][f]
    BY <1>1, <1>3, <1>4, CopiedAll
  <2> QED
    BY <1>3, <1>4, <1>6, <2>1
<1> QED
  BY <1>5, <1>6

\* The whole invariant holds in every reachable state.
LEMMA MInvHolds == Spec => []MInv
<1>1. Init => MInv
  BY InitWInv, InitData DEF MInv
<1>2. MInv /\ [Next]_vars => MInv'
  <2>1. ASSUME MInv, [Next]_vars PROVE MInv'
    <3>1. WInv'
      BY <2>1, NextWInv DEF MInv
    <3>2. Contents'
      BY <2>1, NextContents
    <3>3. Copies'
      BY <2>1, NextCopies
    <3>4. Onto'
      BY <2>1, NextOnto
    <3>5. NothingLeftBehind'
      BY <2>1, NextKept
    <3> QED
      BY <3>1, <3>2, <3>3, <3>4, <3>5 DEF MInv
  <2> QED
    BY <2>1
<1> QED
  BY <1>1, <1>2, PTL DEF Spec

\* The place that was moved to last holds every update that was not excused:
\* however paths are spelled, however many migrations, kills and power losses,
\* whatever part of the old directory is removed, and however they fall between
\* the flushes.
THEOREM NothingIsLeftBehind == Spec => []NothingLeftBehind
<1>1. MInv => NothingLeftBehind
  BY DEF MInv
<1> QED
  BY <1>1, MInvHolds, PTL

\* However paths are spelled, --delete-old removes no update that is in no other
\* directory, but for files updated after their copy and those a migration has
\* copied onto themselves or onto the data.
THEOREM RemovesOnlyCopied == Spec => DeletesOnlyCopied
<1> DEFINE Kept ==
      \A d \in Places : \A f \in present[d] \ present'[d] :
         \/ f \in mig.late \cup clobbered
         \/ fs[d][f] \subseteq UNION {fs[e][f] : e \in Places \ {d}}
<1>1. MInv /\ [Next]_vars => [Kept]_vars
  BY StepDeletes DEF Kept
<1> HIDE DEF Kept
<1>2. Spec => [][Kept]_vars
  BY <1>1, MInvHolds, PTL DEF Spec
<1> QED
  BY <1>2 DEF DeletesOnlyCopied, Kept
=============================================================================

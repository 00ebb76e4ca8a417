--------------------------- MODULE KeyStoreProofs ---------------------------
(***************************************************************************)
(* Proofs about KeyStore, for any keys, commands, inodes and interleaving. *)
(***************************************************************************)
EXTENDS KeyStore, TLAPS

\* What is proved of atomicWrite, for keys.json.
FP == INSTANCE AtomicWriteProofs WITH Docs <- Stores, Size <- StoreSize

\* Adding what the daemon still has to add to store s overcharges nobody.
Covered(s) == \A k \in Keys : s[k].used + delta[k] + taken[k] <= billed[k]

\* A process inside atomicWrite is saving the store it has changed.
SavesItsJob ==
    \A w \in Writers : File!Busy(w) => ~Idle(w) /\ doc[w] = job[w].store

\* Any store that is, or may yet become, the content of keys.json is covered:
\* in an inode, in a save under way, in the memory of a process; and so is
\* the empty store a missing file stands for.
AllCovered ==
    /\ Covered(EmptyStore)
    /\ \A i \in Inodes : inode[i].doc \in Stores => Covered(inode[i].doc)
    /\ \A w \in Writers : ~Idle(w) => Covered(job[w].store)

\* flush is one goroutine: while it holds deltas it is not saving.
FlushesOnce == flushing => Idle(Flusher)

\* The inductive invariant.
KInv == TypeOK /\ FP!IInv /\ SavesItsJob /\ FlushesOnce /\ AllCovered

USE DEF Writers

-----------------------------------------------------------------------------
\* keys.json is changed by steps of atomicWrite and by nothing else.
LEMMA FileSteps ==
    ASSUME TypeOK, [Next]_vars
    PROVE  [File!Next]_(File!vars)
<1>1. UNCHANGED keysFile => UNCHANGED File!vars
  BY DEF keysFile, File!vars, File!names, File!history
<1>2. ASSUME NEW w \in Writers, Save(w) PROVE File!Next
  <2>1. job[w].store \in Stores
    BY <1>2 DEF Save, TypeOK, Idle, Jobs
  <2> QED
    BY <1>2, <2>1 DEF Save, File!Next
<1>3. ASSUME NEW w \in Writers, Gone(w) PROVE [File!Next]_(File!vars)
  BY <1>1, <1>3 DEF Gone, File!Next
<1>4. CASE PowerLoss
  BY <1>4 DEF PowerLoss, File!Next
<1>5. CASE UNCHANGED vars
  BY <1>1, <1>5 DEF vars
<1> QED
  BY <1>1, <1>2, <1>3, <1>4, <1>5
  DEF Next, AddKey, SetKey, DelKey, Bill, Take, Merge, MergeFails, CmdDies, ServeDies

\* The two instances of AtomicWrite are the same specification.
LEMMA SameNext == [File!Next]_(File!vars) <=> [FP!Next]_(FP!vars)
BY DEF File!Next, File!vars, File!names, File!history, File!Step, File!Open,
  File!OpenTmp, File!OpenFails, File!Write, File!WriteFails, File!SyncClose,
  File!SyncCloseFails, File!Chmod, File!RemoveTmp, File!Rename,
  File!RenameFails, File!Kill, File!PowerLoss, File!Return, File!Goto,
  File!Busy, File!Others, File!InUse, File!Empty, File!Longer,
  FP!Next, FP!vars, FP!names, FP!history, FP!Step, FP!Open,
  FP!OpenTmp, FP!OpenFails, FP!Write, FP!WriteFails, FP!SyncClose,
  FP!SyncCloseFails, FP!Chmod, FP!RemoveTmp, FP!Rename,
  FP!RenameFails, FP!Kill, FP!PowerLoss, FP!Return, FP!Goto,
  FP!Busy, FP!Others, FP!InUse, FP!Empty, FP!Longer

\* AtomicWrite's invariant is preserved by the steps of the saves.
LEMMA FileInvariant ==
    ASSUME TypeOK, FP!IInv, [Next]_vars PROVE FP!IInv'
BY FileSteps, SameNext, FP!NextIInv, StoreSizeAssumption, ConstantsAssumption

\* It holds at the start.
LEMMA FileInit == Init => FP!IInv
<1> SUFFICES ASSUME Init PROVE FP!Init
  BY FP!InitIInv, StoreSizeAssumption, ConstantsAssumption
<1>1. PICK s \in Stores :
         inode = [i \in Inodes |->
                     IF i = target THEN FP!WholeDoc(s) ELSE FP!Empty]
  BY InitStoresAssumption
     DEF Init, File!WholeDoc, File!Empty, FP!WholeDoc, FP!Empty
<1>2. inode \in [Inodes -> {FP!Empty} \cup {FP!WholeDoc(d) : d \in Stores}]
  BY <1>1
<1>3. target # NoInode => FP!Whole(inode[target])
  BY <1>1 DEF Init, FP!Whole, FP!WholeDoc
<1>4. \A i \in Inodes \ {target} : inode[i] = FP!Empty
  BY <1>1
<1> QED
  BY <1>2, <1>3, <1>4 DEF Init, FP!Init

\* Content, saved documents and what a process may publish come from the
\* stores processes have planned to save.
LEMMA FileDocuments ==
    ASSUME TypeOK, NEW w \in Writers,
           File!Step(w) \/ File!Kill(w) \/ File!OpenFails(w)
    PROVE  /\ \A i \in Inodes : inode'[i].doc \in {Junk, inode[i].doc, doc[w]}
           /\ \A v \in Writers \ {w} : doc'[v] = doc[v] /\ pc'[v] = pc[v]
           /\ pc'[w] # "idle" => doc'[w] = doc[w] /\ pc[w] # "idle"
BY DEF TypeOK, File!TypeOK, File!Content, File!Step, File!Write, File!WriteFails,
       File!SyncClose, File!SyncCloseFails, File!Chmod, File!RemoveTmp,
       File!Rename, File!RenameFails, File!Kill, File!OpenFails, File!Return,
       File!Goto, File!Empty, File!Busy, File!names

\* Opening empties an inode or makes one, and touches no other writer's save.
LEMMA OpenDocuments ==
    ASSUME TypeOK, NEW w \in Writers, NEW s \in Stores, File!Open(w, s)
    PROVE  /\ \A i \in Inodes : inode'[i].doc \in {Junk, inode[i].doc}
           /\ \A v \in Writers \ {w} : doc'[v] = doc[v] /\ pc'[v] = pc[v]
           /\ doc'[w] = s /\ pc'[w] = "open"
BY DEF TypeOK, File!TypeOK, File!Content, File!Open, File!OpenTmp, File!Goto,
       File!Empty

\* What Save does to the rest of the state.
LEMMA SaveJobs ==
    ASSUME TypeOK, NEW w \in Writers, Save(w)
    PROVE  /\ ~Idle(w)
           /\ UNCHANGED <<usage, billed, issued>>
           /\ \A v \in Writers : job'[v] = job[v] \/ (v = w /\ job'[v] = Junk)
           /\ pc'[w] # "idle" => job' = job
BY DEF Save, TypeOK, Idle

\* The invariant holds at the start.
LEMMA InitKInv == Init => KInv
<1> SUFFICES ASSUME Init PROVE KInv
  OBVIOUS
<1>1. PICK s \in InitStores :
         /\ target = NoInode => s = EmptyStore
         /\ inode = [i \in Inodes |->
                      IF i = target THEN File!WholeDoc(s) ELSE File!Empty]
         /\ issued = {k \in Keys : s[k].status # "absent"}
         /\ billed = [k \in Keys |-> s[k].used]
         /\ promised = [k \in Keys |->
                         IF s[k].status = "absent" THEN "none" ELSE s[k].status]
  BY DEF Init
<1>2. s \in Stores
  BY InitStoresAssumption
<1>3. FP!IInv
  BY FileInit
<1>4. File!TypeOK
  BY <1>3 DEF FP!IInv, FP!TypeOK, File!TypeOK, FP!Content, File!Content,
              FP!Stages, File!Stages
<1>5. TypeOK
  <2>1. \A k \in Keys : s[k].used \in 0 .. MaxBilled /\ s[k].status \in {"absent", "on", "off"}
    BY <1>2 DEF Stores, Entry
  <2>2. billed \in [Keys -> 0 .. MaxBilled]
    BY <1>1, <2>1
  <2>3. promised \in [Keys -> {"none", "on", "off", "gone"}]
    BY <1>1, <2>1
  <2>4. job \in [Writers -> Jobs \cup {Junk}]
    BY DEF Init
  <2>5. delta \in [Keys -> Nat] /\ taken \in [Keys -> Nat]
    BY DEF Init, Zero
  <2> QED
    BY <1>1, <1>4, <2>2, <2>3, <2>4, <2>5 DEF Init, TypeOK
<1>6. SavesItsJob /\ FlushesOnce
  BY DEF Init, SavesItsJob, FlushesOnce, File!Busy
<1>7. AllCovered
  <2>1. Covered(s) /\ Covered(EmptyStore)
    BY <1>1, <1>2, ConstantsAssumption
       DEF Init, Covered, Zero, EmptyStore, NoEntry, Stores, Entry
  <2>2. \A i \in Inodes : inode[i].doc \in {s, Junk}
    BY <1>1 DEF File!WholeDoc, File!Empty
  <2> QED
    BY <2>1, <2>2, ConstantsAssumption DEF Init, AllCovered, Idle
<1> QED
  BY <1>3, <1>5, <1>6, <1>7 DEF KInv

\* The types of keys.json are those of atomicWrite's variables.
LEMMA FileTypes == FP!IInv => File!TypeOK
BY DEF FP!IInv, FP!TypeOK, File!TypeOK, FP!Content, File!Content, FP!Stages,
       File!Stages

\* What loadKeys returns is a store, and a covered one.
LEMMA Loaded ==
    ASSUME KInv, Readable
    PROVE  OnFile \in Stores /\ Covered(OnFile)
<1>1. EmptyStore \in Stores
  BY ConstantsAssumption DEF EmptyStore, NoEntry, Stores, Entry
<1> QED
  BY <1>1 DEF KInv, TypeOK, File!TypeOK, AllCovered, Readable, Missing, OnFile,
              File!Whole

\* Planning to save a covered store keeps the invariant.
LEMMA PlanKInv ==
    ASSUME KInv, FP!IInv', NEW w \in Writers, NEW k \in Keys \cup {Junk},
           NEW s \in Stores, Idle(w), Plan(w, k, s), UNCHANGED keysFile,
           UNCHANGED <<delta, dirty, billed, promised, dropped>>,
           taken' \in [Keys -> Nat], flushing' \in BOOLEAN, issued' \subseteq Keys,
           IF w = Flusher THEN ~flushing' ELSE flushing' = flushing,
           \A x \in Keys : taken'[x] <= taken[x],
           \A x \in Keys : s[x].used + delta[x] + taken'[x] <= billed[x]
    PROVE  KInv'
<1>1. job' \in [Writers -> Jobs \cup {Junk}] /\ raced' \in BOOLEAN
  BY DEF Plan, KInv, TypeOK, Jobs
<1>2. TypeOK'
  BY <1>1, FileTypes DEF KInv, TypeOK, FP!IInv, FP!TypeOK, File!TypeOK,
     FP!Content, File!Content, FP!Stages, File!Stages
<1>3. SavesItsJob'
  BY DEF KInv, SavesItsJob, Plan, keysFile, File!Busy, Idle, TypeOK
<1>8. FlushesOnce'
  BY DEF KInv, FlushesOnce, Plan, Idle, TypeOK
<1>4. ASSUME NEW t \in Stores, Covered(t)
      PROVE  Covered(t)'
  <2> SUFFICES ASSUME NEW x \in Keys
               PROVE  t[x].used + delta'[x] + taken'[x] <= billed'[x]
    BY DEF Covered
  <2>1. /\ t[x].used \in Nat /\ delta[x] \in Nat /\ taken[x] \in Nat
        /\ taken'[x] \in Nat /\ billed[x] \in Nat
    BY DEF KInv, TypeOK, Stores, Entry
  <2> QED
    BY <1>4, <2>1 DEF Covered
<1>5. Covered(s)'
  BY DEF Covered
<1>6. EmptyStore \in Stores
  BY ConstantsAssumption DEF EmptyStore, NoEntry, Stores, Entry
<1>7. AllCovered'
  <2>1. Covered(EmptyStore)'
    BY <1>4, <1>6 DEF KInv, AllCovered
  <2>2. \A i \in Inodes : inode'[i].doc \in Stores => Covered(inode[i].doc)'
    BY <1>4 DEF KInv, AllCovered, keysFile
  <2>3. \A v \in Writers : ~Idle(v)' => Covered(job[v].store)'
    <3> SUFFICES ASSUME NEW v \in Writers, ~Idle(v)' PROVE Covered(job[v].store)'
      OBVIOUS
    <3>1. CASE v = w
      BY <1>5, <3>1 DEF Plan, KInv, TypeOK
    <3>2. CASE v # w
      BY <1>4, <3>2 DEF Plan, KInv, TypeOK, AllCovered, Idle, Jobs
    <3> QED
      BY <3>1, <3>2
  <2> QED
    BY <2>1, <2>2, <2>3 DEF AllCovered
<1> QED
  BY <1>2, <1>3, <1>7, <1>8 DEF KInv

\* A step that plans nothing new and owes nobody more keeps stores covered.
LEMMA StillCovered ==
    ASSUME KInv,
           \A t \in Stores : Covered(t) => Covered(t)',
           \A i \in Inodes : \/ inode'[i].doc \in {Junk, inode[i].doc}
                             \/ \E w \in Writers : ~Idle(w) /\ inode'[i].doc = job[w].store,
           \A w \in Writers : job'[w] \in {Junk, job[w]}
    PROVE  AllCovered'
<1>1. EmptyStore \in Stores
  BY ConstantsAssumption DEF EmptyStore, NoEntry, Stores, Entry
<1>2. Covered(EmptyStore)'
  BY <1>1 DEF KInv, AllCovered
<1>3. \A w \in Writers : ~Idle(w) => job[w].store \in Stores /\ Covered(job[w].store)
  BY DEF KInv, AllCovered, TypeOK, Idle, Jobs
<1>4. ASSUME NEW i \in Inodes, inode'[i].doc \in Stores
      PROVE  Covered(inode[i].doc)'
  <2>1. Covered(inode'[i].doc)
    BY <1>3, <1>4, ConstantsAssumption DEF KInv, AllCovered
  <2> DEFINE t == inode'[i].doc
  <2>2. t \in Stores /\ Covered(t)
    BY <1>4, <2>1
  <2> HIDE DEF t
  <2>3. \A k \in Keys : t[k].used + delta'[k] + taken'[k] <= billed'[k]
    BY <2>2 DEF Covered
  <2> QED
    BY <2>3 DEF Covered, t
<1>5. ASSUME NEW w \in Writers, ~Idle(w)' PROVE Covered(job[w].store)'
  <2> DEFINE t == job[w].store
  <2>1. ~Idle(w) /\ job'[w] = job[w]
    BY <1>5 DEF Idle
  <2>2. t \in Stores /\ Covered(t)
    BY <1>3, <2>1
  <2> HIDE DEF t
  <2>3. \A k \in Keys : t[k].used + delta'[k] + taken'[k] <= billed'[k]
    BY <2>2 DEF Covered
  <2> QED
    BY <2>1, <2>3 DEF Covered, t
<1> QED
  BY <1>2, <1>4, <1>5 DEF AllCovered

\* The commands: AddKey, SetKey and DelKey.
LEMMA CommandsKInv ==
    ASSUME KInv, FP!IInv', NEW c \in Cmds, NEW k \in Keys,
           AddKey(c, k) \/ DelKey(c, k) \/ SetKey(c, k, "on") \/ SetKey(c, k, "off")
    PROVE  KInv'
<1>1. Readable /\ Idle(c) /\ UNCHANGED <<keysFile, usage, billed, promised, dropped>>
  BY DEF AddKey, DelKey, SetKey
<1>2. PICK e \in Entry :
         /\ e.used \in {0, OnFile[k].used}
         /\ Plan(c, k, [OnFile EXCEPT ![k] = e])
  <2>1. CASE AddKey(c, k)
    <3>1. Plan(c, k, [OnFile EXCEPT ![k] = [status |-> "on", used |-> 0]])
      BY <2>1 DEF AddKey
    <3>2. [status |-> "on", used |-> 0] \in Entry
      BY ConstantsAssumption DEF Entry
    <3> QED
      BY <3>1, <3>2
  <2>2. CASE DelKey(c, k)
    <3>1. Plan(c, k, [OnFile EXCEPT ![k] = NoEntry])
      BY <2>2 DEF DelKey
    <3>2. NoEntry \in Entry /\ NoEntry.used = 0
      BY ConstantsAssumption DEF Entry, NoEntry
    <3> QED
      BY <3>1, <3>2
  <2>3. ASSUME NEW st \in {"on", "off"}, SetKey(c, k, st)
        PROVE  \E e \in Entry : /\ e.used \in {0, OnFile[k].used}
                                /\ Plan(c, k, [OnFile EXCEPT ![k] = e])
    <3>1. [OnFile[k] EXCEPT !.status = st] \in Entry
      BY <1>1, Loaded DEF Stores, Entry
    <3>2. Plan(c, k, [OnFile EXCEPT ![k] = [OnFile[k] EXCEPT !.status = st]])
      BY <2>3 DEF SetKey
    <3>3. [OnFile[k] EXCEPT !.status = st].used = OnFile[k].used
      BY <1>1, Loaded DEF Stores, Entry
    <3> QED
      BY <3>1, <3>2, <3>3
  <2> QED
    BY <2>1, <2>2, <2>3
<1> DEFINE s == [OnFile EXCEPT ![k] = e]
<1>3. s \in Stores
  BY <1>1, Loaded DEF Stores
<1>4. ASSUME NEW x \in Keys PROVE s[x].used + delta[x] + taken[x] <= billed[x]
  <2>1. /\ OnFile[x].used + delta[x] + taken[x] <= billed[x]
        /\ 0 + delta[x] + taken[x] <= billed[x]
    BY <1>1, Loaded DEF Covered, KInv, AllCovered, EmptyStore, NoEntry
  <2>2. s[x].used \in {0, OnFile[x].used}
    BY <1>1, <1>2, Loaded DEF Stores
  <2> QED
    BY <2>1, <2>2
<1>5. taken' = taken /\ taken \in [Keys -> Nat] /\ flushing' \in BOOLEAN
  BY <1>1 DEF usage, KInv, TypeOK
<1>6. issued' \subseteq Keys
  BY DEF AddKey, DelKey, SetKey, KInv, TypeOK
<1>7. Plan(c, k, s)
  BY <1>2
<1>8. c # Flusher /\ flushing' = flushing
  BY <1>1, ConstantsAssumption DEF usage
<1>9. \A x \in Keys : taken'[x] <= taken[x]
  BY <1>5
<1>10. \A x \in Keys : s[x].used + delta[x] + taken'[x] <= billed[x]
  BY <1>4, <1>5
<1> HIDE DEF s
<1> QED
  BY <1>1, <1>3, <1>5, <1>6, <1>7, <1>8, <1>9, <1>10, PlanKInv DEF usage

\* noteUsage.
LEMMA BillKInv ==
    ASSUME KInv, FP!IInv', NEW k \in Keys, NEW n \in 0 .. MaxBilled, Bill(k, n)
    PROVE  KInv'
<1>1. /\ delta' \in [Keys -> Nat] /\ billed' \in [Keys -> 0 .. MaxBilled]
      /\ UNCHANGED <<keysFile, taken, flushing, job, issued, promised, raced, dropped>>
      /\ dirty' = TRUE
  BY ConstantsAssumption DEF Bill, KInv, TypeOK
<1>2. TypeOK'
  BY <1>1, FileTypes DEF KInv, TypeOK, keysFile, File!TypeOK
<1>3. SavesItsJob'
  BY <1>1 DEF KInv, SavesItsJob, keysFile, File!Busy, Idle
<1>4. ASSUME NEW t \in Stores, Covered(t) PROVE Covered(t)'
  <2> SUFFICES ASSUME NEW x \in Keys
               PROVE  t[x].used + delta'[x] + taken'[x] <= billed'[x]
    BY DEF Covered
  <2>1. /\ t[x].used \in Nat /\ delta[x] \in Nat /\ taken[x] \in Nat
        /\ billed[x] \in Nat /\ n \in Nat
    BY ConstantsAssumption DEF KInv, TypeOK, Stores, Entry
  <2>2. t[x].used + delta[x] + taken[x] <= billed[x]
    BY <1>4 DEF Covered
  <2>3. \/ delta'[x] = delta[x] /\ billed'[x] = billed[x]
        \/ delta'[x] = delta[x] + n /\ billed'[x] = billed[x] + n
    BY DEF Bill, KInv, TypeOK
  <2> QED
    BY <1>1, <2>1, <2>2, <2>3
<1>5. AllCovered' /\ FlushesOnce'
  BY <1>1, <1>4, StillCovered DEF keysFile, KInv, FlushesOnce, Idle
<1> QED
  BY <1>2, <1>3, <1>5 DEF KInv

\* A step that touches keys.json or the daemon's memory without billing and
\* without planning, and moves or forgets deltas but makes none.
LEMMA QuietKInv ==
    ASSUME KInv, FP!IInv', SavesItsJob',
           delta' \in [Keys -> Nat], taken' \in [Keys -> Nat],
           \A k \in Keys : delta'[k] + taken'[k] <= delta[k] + taken[k],
           flushing' => flushing \/ Idle(Flusher),
           dirty' \in BOOLEAN, flushing' \in BOOLEAN, dropped' \in BOOLEAN,
           promised' \in [Keys -> {"none", "on", "off", "gone"}],
           UNCHANGED <<issued, billed, raced>>,
           \A i \in Inodes : \/ inode'[i].doc \in {Junk, inode[i].doc}
                             \/ \E w \in Writers : ~Idle(w) /\ inode'[i].doc = job[w].store,
           job' \in [Writers -> Jobs \cup {Junk}],
           \A w \in Writers : job'[w] \in {Junk, job[w]}
    PROVE  KInv'
<1>1. TypeOK'
  <2>1. File!TypeOK'
    BY DEF FP!IInv, FP!TypeOK, File!TypeOK, FP!Content, File!Content,
           FP!Stages, File!Stages
  <2> QED
    BY <2>1 DEF KInv, TypeOK
<1>2. ASSUME NEW t \in Stores, Covered(t) PROVE Covered(t)'
  <2> SUFFICES ASSUME NEW x \in Keys
               PROVE  t[x].used + delta'[x] + taken'[x] <= billed'[x]
    BY DEF Covered
  <2>1. /\ t[x].used \in Nat /\ delta[x] \in Nat /\ taken[x] \in Nat
        /\ billed[x] \in Nat /\ delta'[x] \in Nat /\ taken'[x] \in Nat
    BY ConstantsAssumption DEF KInv, TypeOK, Stores, Entry
  <2> QED
    BY <1>2, <2>1 DEF Covered
<1>3. AllCovered'
  BY <1>2, StillCovered
<1>4. FlushesOnce'
  BY DEF KInv, FlushesOnce, Idle
<1> QED
  BY <1>1, <1>3, <1>4 DEF KInv

\* A process that is gone has left only stores that were already planned.
LEMMA GoneJobs ==
    ASSUME KInv, NEW w \in Writers, Gone(w)
    PROVE  /\ \A i \in Inodes : \/ inode'[i].doc \in {Junk, inode[i].doc}
                                \/ \E v \in Writers : ~Idle(v) /\ inode'[i].doc = job[v].store
           /\ job' \in [Writers -> Jobs \cup {Junk}]
           /\ \A v \in Writers : job'[v] \in {Junk, job[v]}
           /\ SavesItsJob'
<1>1. /\ job' \in [Writers -> Jobs \cup {Junk}]
      /\ \A v \in Writers : job'[v] \in {Junk, job[v]}
      /\ \A v \in Writers \ {w} : job'[v] = job[v]
  BY DEF Gone, KInv, TypeOK
<1>2. CASE File!Busy(w)
  <2>1. File!Kill(w) /\ pc'[w] = "idle"
    BY <1>2 DEF Gone, File!Kill, File!Return, File!Goto, KInv, TypeOK, File!TypeOK
  <2>2. ~Idle(w) /\ doc[w] = job[w].store
    BY <1>2 DEF KInv, SavesItsJob
  <2>3. /\ \A i \in Inodes : inode'[i].doc \in {Junk, inode[i].doc, doc[w]}
        /\ \A v \in Writers \ {w} : doc'[v] = doc[v] /\ pc'[v] = pc[v]
    BY <2>1, FileDocuments DEF KInv
  <2>4. SavesItsJob'
    BY <1>1, <2>1, <2>3 DEF KInv, SavesItsJob, File!Busy, Idle
  <2> QED
    BY <1>1, <2>2, <2>3, <2>4
<1>3. CASE ~File!Busy(w)
  <2>1. UNCHANGED keysFile
    BY <1>3 DEF Gone
  <2>2. SavesItsJob'
    BY <1>1, <1>3, <2>1 DEF KInv, SavesItsJob, File!Busy, Idle, keysFile
  <2> QED
    BY <1>1, <2>1, <2>2 DEF keysFile
<1> QED
  BY <1>2, <1>3

\* A step of a save preserves the invariant.
LEMMA SaveKInv ==
    ASSUME KInv, FP!IInv', NEW w \in Writers, Save(w) PROVE KInv'
<1>1. ~Idle(w) /\ job[w].store \in Stores
  BY DEF Save, KInv, TypeOK, Idle, Jobs
<1>2. /\ \A i \in Inodes : inode'[i].doc \in {Junk, inode[i].doc, job[w].store}
      /\ \A v \in Writers \ {w} : doc'[v] = doc[v] /\ pc'[v] = pc[v]
      /\ pc'[w] # "idle" => doc'[w] = job[w].store
  <2>1. CASE File!Open(w, job[w].store)
    BY <1>1, <2>1, OpenDocuments DEF KInv
  <2>2. CASE File!OpenFails(w)
    <3>1. pc[w] = "idle" /\ UNCHANGED <<inode, pc, doc>>
      BY <2>2 DEF File!OpenFails
    <3> QED
      BY <3>1
  <2>3. CASE File!Step(w)
    <3>1. File!Busy(w)
      BY <2>3 DEF File!Step, File!Write, File!WriteFails, File!SyncClose,
                  File!SyncCloseFails, File!Chmod, File!RemoveTmp, File!Rename,
                  File!RenameFails, File!Busy
    <3>2. doc[w] = job[w].store
      BY <3>1 DEF KInv, SavesItsJob
    <3> QED
      BY <2>3, <3>2, FileDocuments DEF KInv
  <2> QED
    BY <2>1, <2>2, <2>3 DEF Save
<1>3. /\ job' \in [Writers -> Jobs \cup {Junk}]
      /\ \A v \in Writers : job'[v] \in {Junk, job[v]}
      /\ \A v \in Writers \ {w} : job'[v] = job[v]
      /\ pc'[w] # "idle" => job' = job
  BY DEF Save, KInv, TypeOK
<1>4. SavesItsJob'
  BY <1>1, <1>2, <1>3 DEF KInv, SavesItsJob, File!Busy, Idle
<1>5. promised' \in [Keys -> {"none", "on", "off", "gone"}]
  <2>1. \A k \in Keys : job[w].store[k].status \in {"absent", "on", "off"}
    BY <1>1 DEF Stores, Entry
  <2> DEFINE x == job[w].subject
             told == IF job[w].store[x].status = "absent"
                       THEN "gone" ELSE job[w].store[x].status
  <2>2. CASE promised' = promised
    BY <2>2 DEF KInv, TypeOK
  <2>3. CASE promised' = [promised EXCEPT ![x] = told]
    <3>1. x \in Keys => told \in {"on", "off", "gone"}
      BY <2>1
    <3> HIDE DEF x, told
    <3> QED
      BY <2>3, <3>1 DEF KInv, TypeOK
  <2> QED
    BY <2>2, <2>3 DEF Save
<1>6. dropped' \in BOOLEAN /\ UNCHANGED <<delta, dirty, taken, flushing, issued, billed, raced>>
  BY DEF Save, usage, KInv, TypeOK
<1>7. /\ delta' \in [Keys -> Nat] /\ taken' \in [Keys -> Nat]
      /\ dirty' \in BOOLEAN /\ flushing' \in BOOLEAN
      /\ \A k \in Keys : delta'[k] + taken'[k] <= delta[k] + taken[k]
  BY <1>6 DEF KInv, TypeOK
<1>8. \A i \in Inodes : \/ inode'[i].doc \in {Junk, inode[i].doc}
                        \/ \E v \in Writers : ~Idle(v) /\ inode'[i].doc = job[v].store
  BY <1>1, <1>2
<1> QED
  BY <1>3, <1>4, <1>5, <1>6, <1>7, <1>8, QuietKInv

\* Every step preserves the invariant.
LEMMA NextKInv == KInv /\ [Next]_vars => KInv'
<1> SUFFICES ASSUME KInv, [Next]_vars PROVE KInv'
  OBVIOUS
<1>0. FP!IInv'
  BY FileInvariant DEF KInv
<1>a. /\ delta \in [Keys -> Nat] /\ taken \in [Keys -> Nat] /\ dropped \in BOOLEAN
      /\ dirty \in BOOLEAN /\ flushing \in BOOLEAN
      /\ promised \in [Keys -> {"none", "on", "off", "gone"}]
      /\ job \in [Writers -> Jobs \cup {Junk}] /\ Zero \in [Keys -> Nat]
  BY DEF KInv, TypeOK, Zero
<1>b. UNCHANGED <<keysFile, job>> =>
         /\ SavesItsJob'
         /\ \A i \in Inodes : inode'[i].doc \in {Junk, inode[i].doc}
         /\ \A w \in Writers : job'[w] \in {Junk, job[w]}
  BY DEF KInv, SavesItsJob, keysFile, File!Busy, Idle
<1>1. ASSUME NEW c \in Cmds, NEW k \in Keys,
             AddKey(c, k) \/ DelKey(c, k) \/ \E st \in {"on", "off"} : SetKey(c, k, st)
      PROVE  KInv'
  BY <1>0, <1>1, CommandsKInv
<1>2. ASSUME NEW k \in Keys, NEW n \in 0 .. MaxBilled, Bill(k, n) PROVE KInv'
  BY <1>0, <1>2, BillKInv
<1>3. CASE Take
  <2>1. \A k \in Keys : delta'[k] + taken'[k] <= delta[k] + taken[k]
    BY <1>3, <1>a DEF Take, Zero
  <2>2. Idle(Flusher)
    BY <1>3 DEF Take
  <2> QED
    BY <1>0, <1>3, <1>a, <1>b, <2>1, <2>2, QuietKInv DEF Take
<1>4. CASE Merge
  <2> DEFINE s == [k \in Keys |->
          IF OnFile[k].status = "absent" THEN OnFile[k]
          ELSE [OnFile[k] EXCEPT !.used = @ + taken[k]]]
  <2>1. OnFile \in Stores /\ Covered(OnFile) /\ Covered(EmptyStore)
    BY <1>4, Loaded DEF Merge, KInv, AllCovered
  <2>2. ASSUME NEW k \in Keys
        PROVE  /\ s[k].used + delta[k] <= billed[k]
               /\ s[k] \in Entry
    <3>1. /\ OnFile[k].used \in Nat /\ taken[k] \in Nat /\ delta[k] \in Nat
          /\ billed[k] \in 0 .. MaxBilled /\ OnFile[k] \in Entry
          /\ OnFile[k].used + delta[k] + taken[k] <= billed[k]
      BY <2>1, ConstantsAssumption DEF Covered, KInv, TypeOK, Stores, Entry
    <3>2. OnFile[k].used + taken[k] \in 0 .. MaxBilled
      BY <3>1, ConstantsAssumption
    <3>3. [OnFile[k] EXCEPT !.used = @ + taken[k]] \in Entry
      BY <3>1, <3>2 DEF Entry
    <3>4. [OnFile[k] EXCEPT !.used = @ + taken[k]].used = OnFile[k].used + taken[k]
      BY <3>1 DEF Entry
    <3> QED
      BY <3>1, <3>3, <3>4
  <2>3. s \in Stores
    BY <2>2 DEF Stores
  <2>4. Plan(Flusher, Junk, s) /\ taken' = Zero /\ flushing' = FALSE
    BY <1>4 DEF Merge
  <2>5. UNCHANGED <<keysFile, delta, dirty, issued, billed, promised, dropped>>
    BY <1>4 DEF Merge
  <2>6. \A k \in Keys : taken'[k] <= taken[k] /\ s[k].used + delta[k] + taken'[k] <= billed[k]
    <3> HIDE DEF s
    <3>1. \A k \in Keys : taken'[k] = 0 /\ taken[k] \in Nat /\ delta[k] \in Nat
      BY <1>a, <2>4 DEF Zero
    <3>2. \A k \in Keys : s[k].used \in Nat /\ billed[k] \in Nat
      BY <2>2, ConstantsAssumption DEF Entry, KInv, TypeOK
    <3> QED
      BY <2>2, <3>1, <3>2
  <2>7. Idle(Flusher)
    BY <1>4 DEF Merge, KInv, FlushesOnce
  <2> HIDE DEF s
  <2> QED
    BY <1>0, <1>a, <2>3, <2>4, <2>5, <2>6, <2>7, PlanKInv DEF KInv, TypeOK
<1>5. CASE MergeFails
  <2>1. \A k \in Keys : delta'[k] + taken'[k] <= delta[k] + taken[k]
    BY <1>5, <1>a DEF MergeFails, Zero
  <2> QED
    BY <1>0, <1>5, <1>a, <1>b, <2>1, QuietKInv DEF MergeFails
<1>6. ASSUME NEW w \in Writers, Save(w) PROVE KInv'
  BY <1>0, <1>6, SaveKInv
<1>7. ASSUME NEW c \in Cmds, CmdDies(c) PROVE KInv'
  <2>1. \A k \in Keys : delta'[k] + taken'[k] <= delta[k] + taken[k]
    BY <1>7, <1>a DEF CmdDies, usage
  <2>2. Gone(c) /\ c \in Writers
    BY <1>7 DEF CmdDies
  <2>3. UNCHANGED <<delta, dirty, taken, flushing, issued, billed, promised, raced, dropped>>
    BY <1>7 DEF CmdDies, usage
  <2> QED
    BY <1>0, <1>a, <2>1, <2>2, <2>3, GoneJobs, QuietKInv
<1>8. ASSUME ForgetUsage
      PROVE  /\ delta' \in [Keys -> Nat] /\ taken' \in [Keys -> Nat]
             /\ \A k \in Keys : delta'[k] + taken'[k] <= delta[k] + taken[k]
             /\ dirty' \in BOOLEAN /\ flushing' = FALSE /\ dropped' \in BOOLEAN
  <2>1. delta' = Zero /\ taken' = Zero /\ \A k \in Keys : Zero[k] = 0
    BY <1>8 DEF ForgetUsage, Zero
  <2>2. \A k \in Keys : delta'[k] + taken'[k] <= delta[k] + taken[k]
    BY <1>a, <2>1
  <2> QED
    BY <1>8, <1>a, <2>1, <2>2 DEF ForgetUsage
<1>9. CASE ServeDies
  <2>1. Gone(Flusher) /\ ForgetUsage /\ UNCHANGED <<issued, billed, promised, raced>>
    BY <1>9 DEF ServeDies
  <2> QED
    BY <1>0, <1>a, <1>8, <2>1, GoneJobs, QuietKInv
<1>10. CASE PowerLoss
  <2>1. ForgetUsage /\ UNCHANGED <<issued, billed, promised, raced>>
    BY <1>10 DEF PowerLoss
  <2>2. /\ \A i \in Inodes : inode'[i].doc \in {Junk, inode[i].doc}
        /\ job' = [w \in Writers |-> Junk]
        /\ \A w \in Writers : ~File!Busy(w)'
    BY <1>10 DEF PowerLoss, File!PowerLoss, File!Empty, File!Busy
  <2>3. SavesItsJob'
    BY <2>2 DEF SavesItsJob
  <2> QED
    BY <1>0, <1>a, <1>8, <2>1, <2>2, <2>3, QuietKInv
<1>11. CASE UNCHANGED vars
  <2>1. UNCHANGED <<keysFile, job>> /\ UNCHANGED <<delta, dirty, taken, flushing,
           issued, billed, promised, raced, dropped>>
    BY <1>11 DEF vars, usage
  <2>2. \A k \in Keys : delta'[k] + taken'[k] <= delta[k] + taken[k]
    BY <1>a, <2>1
  <2> QED
    BY <1>0, <1>a, <1>b, <2>1, <2>2, QuietKInv
<1> QED
  BY <1>1, <1>2, <1>3, <1>4, <1>5, <1>6, <1>7, <1>9, <1>10, <1>11 DEF Next

-----------------------------------------------------------------------------
\* Every reachable state satisfies the inductive invariant.
THEOREM Inductive == Spec => []KInv
BY InitKInv, NextKInv, PTL DEF Spec

\* The variables keep their types; in particular token_used never leaves
\* 0 .. MaxBilled, although flush adds to it without a bound of its own.
THEOREM TypeCorrect == Spec => []TypeOK
<1>1. KInv => TypeOK
  BY DEF KInv
<1> QED
  BY <1>1, Inductive, PTL

\* For any keys, commands and interleaving, through kills and power losses,
\* no token is charged twice.
THEOREM NobodyOverbilled == Spec => []NeverOverbilled
<1>1. KInv => NeverOverbilled
  BY Loaded DEF NeverOverbilled, Covered
<1> QED
  BY <1>1, Inductive, PTL
-----------------------------------------------------------------------------
\* Sequences that have not overlapped run one at a time, and so do the saves.
OneAtATime ==
    ~raced => /\ ~suspect
              /\ \A v, w \in Writers : ~Idle(v) /\ ~Idle(w) => v = w

\* Until then keys.json says of each key what its last command promised, and
\* a key somebody was promised something about has been issued.
PromisesKept ==
    ~raced => \A k \in Keys :
       /\ OnFile[k].status =
             IF promised[k] \in {"none", "gone"} THEN "absent" ELSE promised[k]
       /\ promised[k] # "none" => k \in issued

\* What a command on key k is about to save differs from keys.json in its subject, and
\* there, unless it deletes it or has just made it, in the status alone.
CommandPlans(k, s) ==
    /\ \A x \in Keys \ {k} : s[x] = OnFile[x]
    /\ s[k].status # "absent" =>
          /\ promised[k] # "gone"
          /\ promised[k] # "none" => s[k].used = OnFile[k].used

\* What the flush is about to save differs in the usage alone.
FlushPlans(s) == \A k \in Keys : s[k].status = OnFile[k].status

PlansFresh ==
    ~raced => /\ \A c \in Cmds : ~Idle(c) =>
                    /\ job[c].subject \in issued
                    /\ CommandPlans(job[c].subject, job[c].store)
              /\ ~Idle(Flusher) => FlushPlans(job[Flusher].store)

\* A key that no command has brought about yet has been used by nobody.
Unbilled == \A k \in Keys : promised[k] = "none" => billed[k] = 0

\* Nothing billed to a live key is missing.
Balanced ==
    ~raced /\ ~dropped => \A k \in Keys : promised[k] \in {"on", "off"} =>
       Settled[k].used + delta[k] + taken[k] = billed[k]

\* The flush holds deltas only between taking them and adding them.
HandsEmpty == ~flushing => \A k \in Keys : taken[k] = 0

SerialInv ==
    OneAtATime /\ PromisesKept /\ PlansFresh /\ Unbilled /\ HandsEmpty /\ Balanced

\* What an entry of a store consists of.
LEMMA EntryTyped ==
    ASSUME NEW e \in Entry
    PROVE  e.status \in {"absent", "on", "off"} /\ e.used \in Nat
<1>1. e.used \in 0 .. MaxBilled /\ MaxBilled \in Nat
  BY ConstantsAssumption DEF Entry
<1> QED
  BY <1>1 DEF Entry

\* The serial invariant holds at the start.
LEMMA InitSerial ==
    ASSUME Init PROVE SerialInv
<1>1. PICK s \in InitStores :
         /\ target = NoInode => s = EmptyStore
         /\ inode = [i \in Inodes |->
                      IF i = target THEN File!WholeDoc(s) ELSE File!Empty]
         /\ issued = {k \in Keys : s[k].status # "absent"}
         /\ billed = [k \in Keys |-> s[k].used]
         /\ promised = [k \in Keys |->
                         IF s[k].status = "absent" THEN "none" ELSE s[k].status]
         /\ target \in Inodes \cup {NoInode}
  BY DEF Init
<1>2. s \in Stores /\ \A k \in Keys : s[k].status = "absent" => s[k].used = 0
  BY InitStoresAssumption
<1>3. /\ delta = Zero /\ taken = Zero /\ ~suspect /\ job = [w \in Writers |-> Junk]
  BY DEF Init
<1>4. OnFile = s
  BY <1>1 DEF OnFile, Missing, File!WholeDoc
<1>5. \A w \in Writers : Idle(w)
  BY <1>3 DEF Idle
<1>6. OneAtATime /\ PlansFresh /\ HandsEmpty
  BY <1>3, <1>5 DEF OneAtATime, PlansFresh, HandsEmpty, Zero
<1>7. \A k \in Keys : s[k].status \in {"absent", "on", "off"} /\ s[k].used \in Nat
  <2>1. \A k \in Keys : s[k] \in Entry
    BY <1>2 DEF Stores
  <2> QED
    BY <2>1, EntryTyped
<1>8. PromisesKept
  BY <1>1, <1>4, <1>7 DEF PromisesKept
<1>9. Unbilled
  BY <1>1, <1>2, <1>7 DEF Unbilled
<1>10. Balanced
  BY <1>1, <1>3, <1>4, <1>5, <1>7 DEF Balanced, Settled, Zero
<1> QED
  BY <1>6, <1>8, <1>9, <1>10 DEF SerialInv

\* As long as saves do not overlap the file is there to be read.
LEMMA SerialReadable ==
    ASSUME KInv, OneAtATime, ~raced PROVE Readable
BY DEF KInv, FP!IInv, FP!TargetSafe, FP!Whole, File!Whole, OneAtATime, Readable, Missing

\* The steps of a save made alone leave what <path> says as it was, until the
\* rename puts the saved store in its place.
LEMMA LoneSave ==
    ASSUME KInv, ~suspect, NEW w \in Writers, NEW s \in Stores,
           \A v \in Writers \ {w} : ~File!Busy(v),
           File!Open(w, s) \/ File!OpenFails(w) \/ File!Step(w)
    PROVE  /\ ~suspect'
           /\ \/ OnFile' = OnFile /\ (pc'[w] = "idle" => result'[w] = "err")
              \/ /\ OnFile' = doc[w] /\ pc'[w] = "idle" /\ result'[w] = "ok"
                 /\ File!Busy(w)
<1>1. /\ TypeOK /\ File!TypeOK
      /\ tmp # NoInode => tmp # target
      /\ File!Busy(w) => /\ fd[w] \in Inodes /\ (pc[w] # "failing" => tmp = fd[w])
                         /\ pc[w] = "chmodded" => inode[fd[w]].doc = doc[w]
  <2>1. TypeOK /\ File!TypeOK /\ crowded = {}
    BY DEF KInv, TypeOK, FP!IInv, FP!LoneIsAlone
  <2>2. tmp # NoInode => tmp # target
    BY DEF KInv, FP!IInv, FP!NamesDiffer
  <2>3. ASSUME File!Busy(w)
        PROVE  /\ fd[w] \in Inodes /\ (pc[w] # "failing" => tmp = fd[w])
               /\ pc[w] = "chmodded" => inode[fd[w]].doc = doc[w]
    <3>1. FP!Busy(w) /\ FP!Lone(w)
      BY <2>1, <2>3 DEF FP!Busy, FP!Lone, File!Busy
    <3>2. fd[w] \in Inodes
      BY <3>1 DEF KInv, FP!IInv, FP!Held
    <3>3. /\ pc[w] # "failing" => tmp = fd[w]
          /\ pc[w] = "chmodded" => inode[fd[w]] = FP!WholeDoc(doc[w])
      BY <3>1 DEF KInv, FP!IInv, FP!LoneProgress
    <3> QED
      BY <3>2, <3>3 DEF FP!WholeDoc
  <2> QED
    BY <2>1, <2>2, <2>3
<1>2. ASSUME target' = target, target # NoInode => inode'[target] = inode[target]
      PROVE  OnFile' = OnFile
  BY <1>2 DEF OnFile, Missing
<1>3. CASE File!Open(w, s)
  <2>1. PICK i \in Inodes : File!OpenTmp(w, i) /\ i # target
    BY <1>1, <1>3 DEF File!Open, File!InUse, File!TypeOK
  <2>2. target' = target /\ suspect' = suspect /\ pc'[w] = "open"
    BY <1>1, <1>3 DEF File!Open, File!Others, File!history, File!Goto, File!TypeOK
  <2>3. target # NoInode => inode'[target] = inode[target]
    BY <1>1, <2>1 DEF File!OpenTmp, File!TypeOK
  <2> QED
    BY <1>2, <2>2, <2>3
<1>4. CASE File!OpenFails(w)
  BY <1>1, <1>2, <1>4 DEF File!OpenFails, File!names, File!history, File!TypeOK
<1>5. CASE File!Write(w) \/ File!WriteFails(w)
  <2>1. fd[w] \in Inodes /\ fd[w] # target
    BY <1>1, <1>5, ConstantsAssumption DEF File!Write, File!WriteFails, File!Busy
  <2>2. /\ target' = target /\ suspect' = suspect /\ pc'[w] # "idle"
        /\ \A i \in Inodes \ {fd[w]} : inode'[i] = inode[i]
    BY <1>1, <1>5 DEF File!Write, File!WriteFails, File!names, File!history, File!Goto,
       File!TypeOK
  <2>3. target # NoInode => inode'[target] = inode[target]
    BY <1>1, <2>1, <2>2 DEF File!TypeOK
  <2> QED
    BY <1>2, <2>2, <2>3
<1>6. CASE File!SyncClose(w) \/ File!SyncCloseFails(w) \/ File!Chmod(w)
  <2>1. target' = target /\ suspect' = suspect /\ pc'[w] # "idle" /\ inode' = inode
    BY <1>1, <1>6 DEF File!SyncClose, File!SyncCloseFails, File!Chmod, File!names,
       File!history, File!Goto, File!TypeOK
  <2> QED
    BY <1>2, <2>1
<1>7. CASE File!RemoveTmp(w) \/ File!RenameFails(w)
  <2>1. /\ target' = target /\ suspect' = suspect /\ result'[w] = "err"
        /\ target # NoInode => inode'[target] = inode[target]
    BY <1>1, <1>7 DEF File!RemoveTmp, File!RenameFails, File!Return, File!TypeOK
  <2> QED
    BY <1>2, <2>1
<1>8. CASE File!Rename(w)
  <2>1. /\ tmp # NoInode /\ tmp = fd[w] /\ inode[tmp].doc = doc[w] /\ File!Busy(w)
    BY <1>1, <1>8 DEF File!Rename, File!Busy
  <2>2. /\ target' = tmp /\ inode'[tmp] = inode[tmp] /\ ~suspect'
        /\ pc'[w] = "idle" /\ result'[w] = "ok"
    BY <1>1, <1>8, <2>1 DEF File!Rename, File!Return, File!Goto, File!TypeOK
  <2>3. OnFile' = doc[w]
    BY <2>1, <2>2 DEF OnFile, Missing
  <2> QED
    BY <2>1, <2>2, <2>3
<1> QED
  BY <1>3, <1>4, <1>5, <1>6, <1>7, <1>8 DEF File!Step

\* A process that dies, and a power loss, leave it as it was too.
LEMMA LoneDeath ==
    ASSUME KInv, ~suspect,
           (\E w \in Writers : Gone(w)) \/ File!PowerLoss
    PROVE  OnFile' = OnFile /\ ~suspect'
<1>1. /\ File!TypeOK
      /\ target # NoInode => target \in durable
  BY DEF KInv, TypeOK, FP!IInv, FP!TargetSafe
<1>2. /\ target' = target /\ suspect' = suspect
      /\ target # NoInode => inode'[target] = inode[target]
  <2>1. CASE File!PowerLoss
    <3>1. target' = target /\ suspect' = suspect
      BY <2>1 DEF File!PowerLoss, File!names
    <3>2. PICK lost \in SUBSET (Inodes \ durable) :
             inode' = [i \in Inodes |-> IF i \in lost \/ i \notin {target, tmp}
                                          THEN File!Empty ELSE inode[i]]
      BY <2>1 DEF File!PowerLoss
    <3>3. ASSUME target # NoInode PROVE inode'[target] = inode[target]
      <4>1. target \in Inodes /\ target \notin lost /\ target \in {target, tmp}
        BY <1>1, <3>2, <3>3 DEF File!TypeOK
      <4> QED
        BY <3>2, <4>1
    <3> QED
      BY <3>1, <3>3
  <2>2. ASSUME NEW w \in Writers, Gone(w)
        PROVE  /\ target' = target /\ suspect' = suspect
               /\ target # NoInode => inode'[target] = inode[target]
    <3>1. CASE File!Busy(w)
      <4>1. File!Kill(w)
        BY <2>2, <3>1 DEF Gone
      <4> QED
        BY <1>1, <4>1 DEF File!Kill, File!Return, File!TypeOK
    <3>2. CASE ~File!Busy(w)
      BY <2>2, <3>2 DEF Gone, keysFile
    <3> QED
      BY <3>1, <3>2
  <2> QED
    BY <2>1, <2>2
<1> QED
  BY <1>2 DEF OnFile, Missing

\* A step that plans and promises nothing, and leaves the file as it was.
LEMMA QuietSerial ==
    ASSUME SerialInv, UNCHANGED <<raced, promised, issued>>,
           ~raced => OnFile' = OnFile /\ ~suspect',
           \A w \in Writers : job'[w] \in {Junk, job[w]}
    PROVE  OneAtATime' /\ PromisesKept' /\ PlansFresh'
<1>1. OneAtATime'
  BY DEF SerialInv, OneAtATime, Idle
<1>2. PromisesKept'
  BY DEF SerialInv, PromisesKept
<1>3. PlansFresh'
  <2> SUFFICES ASSUME ~raced' PROVE PlansFresh'
    BY DEF PlansFresh
  <2>1. ASSUME NEW c \in Cmds, ~Idle(c)'
        PROVE  job'[c].subject \in issued' /\ CommandPlans(job[c].subject, job[c].store)'
    <3>1. ~Idle(c) /\ job'[c] = job[c]
      BY <2>1 DEF Idle
    <3> QED
      BY <3>1 DEF SerialInv, PlansFresh, CommandPlans
  <2>2. ASSUME ~Idle(Flusher)'
        PROVE  FlushPlans(job[Flusher].store)'
    <3>1. ~Idle(Flusher) /\ job'[Flusher] = job[Flusher]
      BY <2>2 DEF Idle
    <3> QED
      BY <3>1 DEF SerialInv, PlansFresh, FlushPlans
  <2> QED
    BY <2>1, <2>2 DEF PlansFresh
<1> QED
  BY <1>1, <1>2, <1>3

\* What a reader will find is a store.
LEMMA SettledTyped ==
    ASSUME KInv, OneAtATime, ~raced
    PROVE  \A k \in Keys : Settled[k].used \in Nat
<1>1. OnFile \in Stores
  BY SerialReadable, Loaded
<1>2. Settled \in Stores
  BY <1>1 DEF Settled, KInv, TypeOK, Idle, Jobs
<1>3. \A k \in Keys : Settled[k] \in Entry
  BY <1>2 DEF Stores
<1> QED
  BY <1>3, EntryTyped

\* A step that leaves the accounts as they are, or settles them the same.
LEMMA QuietBalance ==
    ASSUME SerialInv, UNCHANGED <<raced, promised, issued, billed>>,
           ~raced' /\ ~dropped' =>
              /\ ~dropped
              /\ \A k \in Keys :
                    Settled'[k].used + delta'[k] + taken'[k] = Settled[k].used + delta[k] + taken[k]
    PROVE  Unbilled' /\ Balanced'
<1>1. Unbilled'
  BY DEF SerialInv, Unbilled
<1>2. Balanced'
  BY DEF SerialInv, Balanced
<1> QED
  BY <1>1, <1>2

\* noteUsage.
LEMMA BillSerial ==
    ASSUME KInv, SerialInv, NEW k \in Keys, NEW n \in 0 .. MaxBilled, Bill(k, n)
    PROVE  SerialInv'
<1>1. /\ UNCHANGED <<keysFile, taken, flushing, job, issued, promised, raced, dropped>>
      /\ promised[k] # "none" /\ n \in Nat
      /\ \A x \in Keys : \/ delta'[x] = delta[x] /\ billed'[x] = billed[x]
                         \/ delta'[x] = delta[x] + n /\ billed'[x] = billed[x] + n
      /\ \A x \in Keys \ {k} : billed'[x] = billed[x]
  BY ConstantsAssumption DEF Bill, KInv, TypeOK
<1>2. OnFile' = OnFile /\ suspect' = suspect
  BY <1>1 DEF OnFile, Missing, keysFile
<1>3. OneAtATime' /\ PromisesKept' /\ PlansFresh'
  BY <1>1, <1>2, QuietSerial DEF SerialInv, OneAtATime
<1>4. Unbilled'
  BY <1>1 DEF SerialInv, Unbilled
<1>5. HandsEmpty'
  BY <1>1 DEF SerialInv, HandsEmpty
<1>6. Settled' = Settled
  BY <1>1, <1>2 DEF Settled, Idle
<1>7. ASSUME ~raced, NEW x \in Keys PROVE Settled[x].used \in Nat
  BY <1>7, SettledTyped DEF SerialInv
<1>8. Balanced'
  <2> SUFFICES ASSUME ~raced, ~dropped, NEW x \in Keys, promised[x] \in {"on", "off"}
               PROVE  Settled'[x].used + delta'[x] + taken'[x] = billed'[x]
    BY <1>1 DEF Balanced
  <2>1. Settled[x].used + delta[x] + taken[x] = billed[x]
    BY DEF SerialInv, Balanced
  <2>2. /\ Settled[x].used \in Nat /\ delta[x] \in Nat /\ taken[x] \in Nat
        /\ billed[x] \in Nat
    BY <1>7, ConstantsAssumption DEF KInv, TypeOK
  <2> QED
    BY <1>1, <1>6, <2>1, <2>2
<1> QED
  BY <1>3, <1>4, <1>5, <1>8 DEF SerialInv

\* flush takes the deltas.
LEMMA TakeSerial ==
    ASSUME KInv, SerialInv, Take PROVE SerialInv'
<1>1. /\ UNCHANGED <<keysFile, job, issued, billed, promised, raced, dropped>>
      /\ ~flushing /\ flushing' = TRUE
      /\ \A k \in Keys : taken'[k] = delta[k] /\ delta'[k] = 0 /\ taken[k] = 0
  BY DEF Take, Zero, SerialInv, HandsEmpty
<1>2. OnFile' = OnFile /\ suspect' = suspect
  BY <1>1 DEF OnFile, Missing, keysFile
<1>3. OneAtATime' /\ PromisesKept' /\ PlansFresh'
  BY <1>1, <1>2, QuietSerial DEF SerialInv, OneAtATime
<1>4. Settled' = Settled
  BY <1>1, <1>2 DEF Settled, Idle
<1>5. ASSUME ~raced, NEW k \in Keys
      PROVE  Settled'[k].used + delta'[k] + taken'[k] = Settled[k].used + delta[k] + taken[k]
  <2>1. Settled[k].used \in Nat /\ delta[k] \in Nat
    BY <1>5, SettledTyped DEF SerialInv, KInv, TypeOK
  <2> QED
    BY <1>1, <1>4, <2>1
<1>6. Unbilled' /\ Balanced'
  BY <1>1, <1>5, QuietBalance
<1> QED
  BY <1>1, <1>3, <1>6 DEF SerialInv, HandsEmpty

\* The flush, a command or the daemon comes to a bad end; a power loss; nothing.
LEMMA LossSerial ==
    ASSUME KInv, SerialInv, UNCHANGED <<raced, promised, issued, billed>>,
           ~raced => OnFile' = OnFile /\ ~suspect',
           \A w \in Writers : job'[w] \in {Junk, job[w]},
           \/ dropped' = TRUE /\ taken' = Zero
           \/ UNCHANGED <<delta, taken, flushing, dropped>> /\ job'[Flusher] = job[Flusher]
    PROVE  SerialInv'
<1>1. OneAtATime' /\ PromisesKept' /\ PlansFresh'
  BY QuietSerial
<1>2. HandsEmpty'
  BY DEF SerialInv, HandsEmpty, Zero
<1>3. ASSUME ~raced, ~dropped'
      PROVE  /\ ~dropped
             /\ \A k \in Keys :
                   Settled'[k].used + delta'[k] + taken'[k] = Settled[k].used + delta[k] + taken[k]
  BY <1>3 DEF Settled, Idle
<1>4. Unbilled' /\ Balanced'
  BY <1>3, QuietBalance
<1> QED
  BY <1>1, <1>2, <1>4 DEF SerialInv

\* A process that plans a save: nobody else has planned one, or it is a race.
LEMMA PlanSerial ==
    ASSUME KInv, SerialInv, NEW w \in Writers, NEW k, NEW s, Plan(w, k, s),
           UNCHANGED <<keysFile, promised>>, issued \subseteq issued',
           ASSUME ~raced, \A v \in Writers : Idle(v)
           PROVE  /\ w \in Cmds => k \in issued' /\ CommandPlans(k, s)
                  /\ w = Flusher => FlushPlans(s)
    PROVE  OneAtATime' /\ PromisesKept' /\ PlansFresh'
<1>1. OnFile' = OnFile /\ suspect' = suspect
  BY DEF OnFile, Missing, keysFile
<1>2. ~raced' => ~raced /\ \A v \in Writers : Idle(v)
  BY DEF Plan
<1>3. /\ job'[w] = [subject |-> k, store |-> s]
      /\ \A v \in Writers \ {w} : job'[v] = job[v]
  BY DEF Plan, KInv, TypeOK
<1>4. \A v \in Writers \ {w} : Idle(v) => Idle(v)'
  BY <1>3 DEF Idle
<1>5. OneAtATime'
  BY <1>1, <1>2, <1>4 DEF SerialInv, OneAtATime
<1>6. PromisesKept'
  BY <1>1, <1>2 DEF SerialInv, PromisesKept
<1>7. PlansFresh'
  <2> SUFFICES ASSUME ~raced' PROVE PlansFresh'
    BY DEF PlansFresh
  <2>1. /\ w \in Cmds => k \in issued' /\ CommandPlans(k, s)
        /\ w = Flusher => FlushPlans(s)
    BY <1>2
  <2>2. ASSUME NEW c \in Cmds, ~Idle(c)'
        PROVE  job'[c].subject \in issued' /\ CommandPlans(job[c].subject, job[c].store)'
    <3>1. c = w
      BY <1>2, <1>4, <2>2
    <3> QED
      BY <1>1, <1>3, <2>1, <3>1 DEF CommandPlans
  <2>3. ASSUME ~Idle(Flusher)'
        PROVE  FlushPlans(job[Flusher].store)'
    <3>1. Flusher = w
      BY <1>2, <1>4, <2>3
    <3> QED
      BY <1>1, <1>3, <2>1, <3>1 DEF FlushPlans
  <2> QED
    BY <2>2, <2>3 DEF PlansFresh
<1> QED
  BY <1>5, <1>6, <1>7

\* The commands.
LEMMA CommandsSerial ==
    ASSUME KInv, SerialInv, NEW c \in Cmds, NEW k \in Keys,
           AddKey(c, k) \/ DelKey(c, k) \/ SetKey(c, k, "on") \/ SetKey(c, k, "off")
    PROVE  SerialInv'
<1>1. /\ Readable /\ Idle(c) /\ c # Flusher /\ c \in Writers
      /\ UNCHANGED <<keysFile, usage, billed, promised, dropped>>
      /\ issued \subseteq issued'
  BY ConstantsAssumption DEF AddKey, DelKey, SetKey
<1>2. OnFile \in Stores /\ OnFile' = OnFile
  BY <1>1, Loaded DEF OnFile, Missing, keysFile
<1>3. PICK e \in Entry :
         /\ Plan(c, k, [OnFile EXCEPT ![k] = e])
         /\ \/ k \notin issued /\ k \in issued'
            \/ OnFile[k].status # "absent" /\ e.status = "absent"
            \/ OnFile[k].status # "absent" /\ e.used = OnFile[k].used
  <2>1. CASE AddKey(c, k)
    <3>1. /\ Plan(c, k, [OnFile EXCEPT ![k] = [status |-> "on", used |-> 0]])
          /\ k \notin issued /\ k \in issued'
      BY <2>1 DEF AddKey
    <3>2. [status |-> "on", used |-> 0] \in Entry
      BY ConstantsAssumption DEF Entry
    <3> QED
      BY <3>1, <3>2
  <2>2. CASE DelKey(c, k)
    <3>1. Plan(c, k, [OnFile EXCEPT ![k] = NoEntry]) /\ OnFile[k].status # "absent"
      BY <2>2 DEF DelKey
    <3>2. NoEntry \in Entry /\ NoEntry.status = "absent"
      BY ConstantsAssumption DEF Entry, NoEntry
    <3> QED
      BY <3>1, <3>2
  <2>3. ASSUME NEW st \in {"on", "off"}, SetKey(c, k, st)
        PROVE  \E e \in Entry : /\ Plan(c, k, [OnFile EXCEPT ![k] = e])
                                /\ OnFile[k].status # "absent" /\ e.used = OnFile[k].used
    <3>1. [OnFile[k] EXCEPT !.status = st] \in Entry
      BY <1>2 DEF Stores, Entry
    <3>2. /\ Plan(c, k, [OnFile EXCEPT ![k] = [OnFile[k] EXCEPT !.status = st]])
          /\ OnFile[k].status # "absent"
      BY <2>3 DEF SetKey
    <3>3. [OnFile[k] EXCEPT !.status = st].used = OnFile[k].used
      BY <1>2 DEF Stores, Entry
    <3> QED
      BY <3>1, <3>2, <3>3
  <2> QED
    BY <2>1, <2>2, <2>3
<1> DEFINE s == [OnFile EXCEPT ![k] = e]
<1>4. s[k] = e /\ \A x \in Keys \ {k} : s[x] = OnFile[x]
  BY <1>2 DEF Stores
<1>5. Plan(c, k, s)
  BY <1>3
<1> HIDE DEF s
<1>6. ASSUME ~raced PROVE k \in issued' /\ CommandPlans(k, s)
  <2>1. /\ promised[k] # "none" => k \in issued
        /\ OnFile[k].status # "absent" => promised[k] \notin {"none", "gone"}
    BY <1>6 DEF SerialInv, PromisesKept
  <2>2. k \in issued'
    BY <1>1, <1>3, <2>1
  <2>3. s[k].status # "absent" =>
           /\ promised[k] # "gone"
           /\ promised[k] # "none" => s[k].used = OnFile[k].used
    BY <1>3, <1>4, <2>1
  <2> QED
    BY <1>1, <1>2, <1>4, <2>2, <2>3 DEF CommandPlans
<1>7. OneAtATime' /\ PromisesKept' /\ PlansFresh'
  BY <1>1, <1>5, <1>6, PlanSerial
<1>8. Unbilled' /\ HandsEmpty'
  BY <1>1 DEF SerialInv, Unbilled, HandsEmpty, usage
<1>9. Balanced'
  <2>1. job'[Flusher] = job[Flusher]
    BY <1>1, <1>5 DEF Plan, KInv, TypeOK
  <2>2. Settled' = Settled
    BY <1>2, <2>1 DEF Settled, Idle
  <2>3. ~raced' => ~raced
    BY <1>5 DEF Plan
  <2> QED
    BY <1>1, <2>2, <2>3 DEF SerialInv, Balanced, usage
<1> QED
  BY <1>7, <1>8, <1>9 DEF SerialInv

\* The flush adds what it has taken to what the file says.
LEMMA MergeSerial ==
    ASSUME KInv, SerialInv, Merge PROVE SerialInv'
<1> DEFINE s == [k \in Keys |->
          IF OnFile[k].status = "absent" THEN OnFile[k]
          ELSE [OnFile[k] EXCEPT !.used = @ + taken[k]]]
<1>1. /\ Readable /\ Idle(Flusher) /\ Plan(Flusher, Junk, s)
      /\ taken' = Zero /\ flushing' = FALSE
      /\ UNCHANGED <<keysFile, delta, dirty, issued, billed, promised, dropped>>
  BY DEF Merge, KInv, FlushesOnce
<1>2. OnFile \in Stores
  BY <1>1, Loaded
<1>3. ASSUME NEW k \in Keys
      PROVE  /\ s[k].status = OnFile[k].status
             /\ OnFile[k].status # "absent" => s[k].used = OnFile[k].used + taken[k]
  <2>1. OnFile[k] \in Entry
    BY <1>2 DEF Stores
  <2> QED
    BY <2>1 DEF Entry
<1> HIDE DEF s
<1>4. OneAtATime' /\ PromisesKept' /\ PlansFresh'
  BY <1>1, <1>3, ConstantsAssumption, PlanSerial DEF FlushPlans
<1>5. Unbilled' /\ HandsEmpty'
  BY <1>1 DEF SerialInv, Unbilled, HandsEmpty, Zero
<1>6. Balanced'
  <2> SUFFICES ASSUME ~raced', ~dropped', NEW k \in Keys, promised'[k] \in {"on", "off"}
               PROVE  Settled'[k].used + delta'[k] + taken'[k] = billed'[k]
    BY DEF Balanced
  <2>1. ~raced /\ ~dropped /\ promised[k] \in {"on", "off"} /\ delta'[k] = delta[k]
        /\ billed'[k] = billed[k] /\ taken'[k] = 0
    BY <1>1 DEF Plan, Zero
  <2>2. /\ OnFile[k].status # "absent"
        /\ OnFile[k].used + delta[k] + taken[k] = billed[k]
    BY <1>1, <2>1 DEF SerialInv, PromisesKept, Balanced, Settled
  <2>3. job'[Flusher] = [subject |-> Junk, store |-> s]
    BY <1>1 DEF Plan, KInv, TypeOK
  <2>7. s \in Stores
    <3>1. ASSUME NEW x \in Keys PROVE s[x] \in Entry
      <4>1. /\ OnFile[x] \in Entry /\ taken[x] \in Nat /\ delta[x] \in Nat
            /\ billed[x] \in 0 .. MaxBilled
            /\ OnFile[x].used + delta[x] + taken[x] <= billed[x]
        BY <1>1, <1>2, Loaded DEF Stores, Covered, KInv, TypeOK
      <4>2. OnFile[x].used + taken[x] \in 0 .. MaxBilled
        BY <4>1, EntryTyped, ConstantsAssumption
      <4> QED
        BY <4>1, <4>2 DEF s, Entry
    <3> QED
      BY <3>1 DEF s, Stores
  <2>4. ~Idle(Flusher)'
    <3>1. job'[Flusher] # Junk
      BY <2>3, <2>7, ConstantsAssumption DEF Jobs
    <3> QED
      BY <3>1 DEF Idle
  <2>5. Settled' = s
    BY <2>3, <2>4 DEF Settled
  <2>6. OnFile[k].used \in Nat /\ taken[k] \in Nat /\ delta[k] \in Nat
    BY <1>2, EntryTyped DEF Stores, KInv, TypeOK
  <2> QED
    BY <1>3, <2>1, <2>2, <2>5, <2>6
<1> QED
  BY <1>4, <1>5, <1>6 DEF SerialInv

\* What a save that has returned may have promised.
LEMMA SavePromises ==
    ASSUME KInv, NEW w \in Writers, Save(w)
    PROVE  \A x \in Keys : promised'[x] = "none" => promised[x] = "none"
<1> DEFINE k == job[w].subject
           told == IF job[w].store[k].status = "absent"
                     THEN "gone" ELSE job[w].store[k].status
<1>1. k \in Keys => told # "none"
  BY EntryTyped DEF Save, KInv, TypeOK, Idle, Jobs, Stores
<1>2. promised' = promised \/ promised' = [promised EXCEPT ![k] = told]
  BY DEF Save
<1> HIDE DEF k, told
<1> QED
  BY <1>1, <1>2 DEF KInv, TypeOK

\* The rename of a save made alone puts the plan in the file and keeps the
\* promise, if a command made one.
LEMMA PublishSerial ==
    ASSUME KInv, SerialInv, NEW w \in Writers, Save(w), ~raced, ~suspect',
           \A v \in Writers \ {w} : Idle(v),
           OnFile' = job[w].store, pc'[w] = "idle", result'[w] = "ok"
    PROVE  SerialInv'
<1> DEFINE s == job[w].store
           k == job[w].subject
           told == IF s[k].status = "absent" THEN "gone" ELSE s[k].status
<1>1. /\ ~Idle(w) /\ job[w] \in Jobs
      /\ UNCHANGED <<delta, taken, flushing, issued, billed, raced>>
      /\ dropped' = dropped
      /\ \A v \in Writers : Idle(v)'
  BY DEF Save, KInv, TypeOK, Idle, usage
<1>2. s \in Stores /\ Covered(s)
  BY <1>1 DEF Jobs, KInv, AllCovered
<1>3. OneAtATime' /\ PlansFresh' /\ HandsEmpty'
  BY <1>1 DEF OneAtATime, PlansFresh, SerialInv, HandsEmpty
<1>4. Unbilled'
  BY <1>1, SavePromises DEF SerialInv, Unbilled
<1>5. CASE w = Flusher
  <2>1. promised' = promised /\ FlushPlans(s)
    BY <1>1, <1>5, ConstantsAssumption DEF Save, SerialInv, PlansFresh
  <2>2. PromisesKept'
    BY <1>1, <2>1 DEF SerialInv, PromisesKept, FlushPlans
  <2>3. Settled' = Settled
    BY <1>1, <1>5 DEF Settled
  <2>4. Balanced'
    BY <1>1, <2>1, <2>3 DEF SerialInv, Balanced
  <2> QED
    BY <1>3, <1>4, <2>2, <2>4 DEF SerialInv
<1>6. CASE w # Flusher
  <2>1. w \in Cmds /\ k \in issued /\ CommandPlans(k, s)
    BY <1>1, <1>6 DEF SerialInv, PlansFresh
  <2>2. k \in Keys /\ k \in issued
    BY <2>1 DEF KInv, TypeOK
  <2>3. promised' = [promised EXCEPT ![k] = told]
    BY <2>1 DEF Save
  <2>4. Settled = OnFile /\ Settled' = s
    BY <1>1, <1>6 DEF Settled
  <2>5. s[k].status \in {"absent", "on", "off"}
    BY <1>2, <2>2, EntryTyped DEF Stores
  <2> HIDE DEF k, s
  <2>6. /\ promised'[k] = told
        /\ \A x \in Keys \ {k} : promised'[x] = promised[x] /\ s[x] = OnFile[x]
    BY <2>1, <2>2, <2>3 DEF KInv, TypeOK, CommandPlans
  <2>7. PromisesKept'
    <3> SUFFICES ASSUME NEW x \in Keys
                 PROVE  /\ s[x].status = IF promised'[x] \in {"none", "gone"}
                                           THEN "absent" ELSE promised'[x]
                        /\ promised'[x] # "none" => x \in issued
      BY <1>1, <2>4 DEF PromisesKept, s
    <3>1. CASE x = k
      BY <2>2, <2>5, <2>6, <3>1
    <3>2. CASE x # k
      BY <2>6, <3>2 DEF SerialInv, PromisesKept
    <3> QED
      BY <3>1, <3>2
  <2>8. Balanced'
    <3> SUFFICES ASSUME ~dropped, NEW x \in Keys, promised'[x] \in {"on", "off"}
                 PROVE  s[x].used + delta[x] + taken[x] = billed[x]
      BY <1>1, <2>4 DEF Balanced
    <3>1. CASE x # k
      BY <2>4, <2>6, <3>1 DEF SerialInv, Balanced
    <3>2. CASE x = k /\ promised[k] = "none"
      <4>1. /\ s[x].used \in Nat /\ delta[x] \in Nat /\ taken[x] \in Nat
            /\ s[x].used + delta[x] + taken[x] <= billed[x]
        BY <1>2, EntryTyped DEF Stores, Covered, KInv, TypeOK
      <4>2. billed[x] = 0
        BY <3>2 DEF SerialInv, Unbilled
      <4> QED
        BY <4>1, <4>2
    <3>3. CASE x = k /\ promised[k] # "none"
      <4>1. s[k].status # "absent"
        BY <2>6, <3>3
      <4>2. promised[k] \in {"on", "off"} /\ s[k].used = OnFile[k].used
        BY <2>1, <2>2, <3>3, <4>1 DEF CommandPlans, KInv, TypeOK
      <4> QED
        BY <2>4, <3>3, <4>2 DEF SerialInv, Balanced
    <3> QED
      BY <3>1, <3>2, <3>3
  <2> QED
    BY <1>3, <1>4, <2>7, <2>8 DEF SerialInv
<1> QED
  BY <1>5, <1>6

\* A save, step by step, up to the promise it makes.
LEMMA SaveSerial ==
    ASSUME KInv, SerialInv, NEW w \in Writers, Save(w) PROVE SerialInv'
<1> DEFINE s == job[w].store
           k == job[w].subject
<1>1. /\ ~Idle(w) /\ s \in Stores
      /\ UNCHANGED <<delta, taken, flushing, issued, billed, raced>>
      /\ \A v \in Writers : job'[v] \in {Junk, job[v]}
  BY DEF Save, KInv, TypeOK, Idle, Jobs, usage
<1>2. CASE raced
  <2>1. \A x \in Keys : promised'[x] = "none" => promised[x] = "none"
    BY SavePromises
  <2> QED
    BY <1>1, <1>2, <2>1 DEF SerialInv, OneAtATime, PromisesKept, PlansFresh, Unbilled,
       HandsEmpty, Balanced
<1>3. CASE ~raced
  <2>1. /\ ~suspect /\ \A v \in Writers \ {w} : Idle(v)
    BY <1>1, <1>3 DEF SerialInv, OneAtATime
  <2>2. \A v \in Writers \ {w} : ~File!Busy(v)
    BY <2>1 DEF KInv, SavesItsJob
  <2>3. /\ ~suspect'
        /\ \/ OnFile' = OnFile /\ (pc'[w] = "idle" => result'[w] = "err")
           \/ /\ OnFile' = doc[w] /\ pc'[w] = "idle" /\ result'[w] = "ok"
              /\ File!Busy(w)
    BY <1>1, <2>1, <2>2, LoneSave DEF Save
  <2>4. CASE OnFile' = OnFile /\ (pc'[w] = "idle" => result'[w] = "err")
    <3>1. promised' = promised
      BY <2>4 DEF Save
    <3>2. \/ dropped' = dropped /\ job'[Flusher] = job[Flusher]
          \/ w = Flusher /\ dropped' = TRUE
      BY <2>4 DEF Save, KInv, TypeOK
    <3>3. OneAtATime' /\ PromisesKept' /\ PlansFresh'
      BY <1>1, <2>3, <2>4, <3>1, QuietSerial
    <3>4. HandsEmpty'
      BY <1>1 DEF SerialInv, HandsEmpty
    <3>5. Unbilled' /\ Balanced'
      <4>1. ~dropped' => dropped' = dropped /\ Settled' = Settled
        BY <2>4, <3>2 DEF Settled, Idle
      <4> QED
        BY <1>1, <3>1, <4>1, QuietBalance
    <3> QED
      BY <3>3, <3>4, <3>5 DEF SerialInv
  <2>5. CASE OnFile' = s /\ pc'[w] = "idle" /\ result'[w] = "ok"
    BY <1>1, <1>3, <2>1, <2>3, <2>5, PublishSerial
  <2> QED
    BY <2>3, <2>4, <2>5 DEF KInv, SavesItsJob
<1> QED
  BY <1>2, <1>3

\* Every step preserves the serial invariant.
LEMMA NextSerial ==
    ASSUME KInv, SerialInv, [Next]_vars PROVE SerialInv'
<1>1. ASSUME NEW c \in Cmds, NEW k \in Keys,
             AddKey(c, k) \/ DelKey(c, k) \/ \E st \in {"on", "off"} : SetKey(c, k, st)
      PROVE  SerialInv'
  BY <1>1, CommandsSerial
<1>2. ASSUME NEW k \in Keys, NEW n \in 0 .. MaxBilled, Bill(k, n) PROVE SerialInv'
  BY <1>2, BillSerial
<1>3. CASE Take
  BY <1>3, TakeSerial
<1>4. CASE Merge
  BY <1>4, MergeSerial
<1>5. CASE MergeFails
  <2>1. OnFile' = OnFile /\ suspect' = suspect
    BY <1>5 DEF MergeFails, OnFile, Missing, keysFile
  <2>2. ~raced => ~suspect
    BY DEF SerialInv, OneAtATime
  <2>3. /\ UNCHANGED <<raced, promised, issued, billed, job>>
        /\ dropped' = TRUE /\ taken' = Zero
    BY <1>5 DEF MergeFails
  <2> QED
    BY <2>1, <2>2, <2>3, LossSerial
<1>6. ASSUME NEW w \in Writers, Save(w) PROVE SerialInv'
  BY <1>6, SaveSerial
<1>7. ~raced => ~suspect
  BY DEF SerialInv, OneAtATime
<1>8. ASSUME NEW c \in Cmds, CmdDies(c) PROVE SerialInv'
  <2>1. /\ Gone(c) /\ c \in Writers /\ c # Flusher
        /\ UNCHANGED <<raced, promised, issued, billed, delta, taken, flushing, dropped>>
    BY <1>8, ConstantsAssumption DEF CmdDies, usage
  <2>2. \A w \in Writers : job'[w] \in {Junk, job[w]} /\ (w # c => job'[w] = job[w])
    BY <2>1 DEF Gone, KInv, TypeOK
  <2>3. ~raced => OnFile' = OnFile /\ ~suspect'
    BY <1>7, <2>1, LoneDeath
  <2> QED
    BY <2>1, <2>2, <2>3, LossSerial
<1>9. CASE ServeDies \/ PowerLoss
  <2>1. /\ UNCHANGED <<raced, promised, issued, billed>>
        /\ dropped' = TRUE /\ taken' = Zero
        /\ Gone(Flusher) \/ File!PowerLoss
        /\ \A w \in Writers : job'[w] \in {Junk, job[w]}
    BY <1>9 DEF ServeDies, PowerLoss, ForgetUsage, Gone, KInv, TypeOK
  <2>2. ~raced => OnFile' = OnFile /\ ~suspect'
    BY <1>7, <2>1, LoneDeath
  <2> QED
    BY <2>1, <2>2, LossSerial
<1>10. CASE UNCHANGED vars
  <2>1. OnFile' = OnFile /\ suspect' = suspect
    BY <1>10 DEF vars, OnFile, Missing, keysFile
  <2>2. UNCHANGED <<raced, promised, issued, billed, job, delta, taken, flushing, dropped>>
    BY <1>10 DEF vars, usage
  <2> QED
    BY <1>7, <2>1, <2>2, LossSerial
<1> QED
  BY <1>1, <1>2, <1>3, <1>4, <1>5, <1>6, <1>8, <1>9, <1>10 DEF Next

\* The serial invariant holds wherever the first one does.
THEOREM SerialInductive == Spec => [](KInv /\ SerialInv)
<1>1. Init => KInv /\ SerialInv
  BY InitKInv, InitSerial
<1>2. KInv /\ SerialInv /\ [Next]_vars => KInv' /\ SerialInv'
  BY NextKInv, NextSerial
<1> QED
  BY <1>1, <1>2, PTL DEF Spec

\* Commands that ran one at a time stay in effect: a key is on, off or gone in
\* keys.json as its last acknowledged command said, through any flushes,
\* failed saves, kills and power losses in between.
THEOREM AcknowledgedStays == Spec => []CommandsStick
<1>1. KInv /\ SerialInv => CommandsStick
  BY SerialReadable DEF SerialInv, PromisesKept, CommandsStick
<1> QED
  BY <1>1, SerialInductive, PTL

\* And until a flush fails or the daemon dies, no token billed to a live key
\* is lost: keys.json and the daemon's memory add up to it exactly.
THEOREM NothingUnbilled == Spec => []UsageExact
<1>1. KInv /\ SerialInv => UsageExact
  BY SerialReadable DEF SerialInv, Balanced, UsageExact
<1> QED
  BY <1>1, SerialInductive, PTL
-----------------------------------------------------------------------------
(***************************************************************************)
(* Saves as single steps.  Gateway lets a command, and a flush, read,      *)
(* change and save keys.json at once; here that is what the many steps of  *)
(* a save amount to, as long as none has overlapped another.               *)
(***************************************************************************)

\* Store s is what one command makes of file f: key add, del, or enable and
\* disable, of key k.
Edited(f, k, s) ==
    \/ /\ f[k].status = "absent"
       /\ s = [f EXCEPT ![k] = [status |-> "on", used |-> 0]]
    \/ /\ f[k].status # "absent"
       /\ \/ s = [f EXCEPT ![k] = NoEntry]
          \/ \E status \in {"on", "off"} : s = [f EXCEPT ![k].status = status]

\* Store s is what one flush makes of file f.
Charged(f, s) ==
    \E tokens \in [Keys -> Nat] :
       s = [k \in Keys |->
              IF f[k].status = "absent" THEN f[k]
              ELSE [f[k] EXCEPT !.used = @ + tokens[k]]]

\* A process still holds what it has made of the present keys.json: the file
\* has not changed since it was read.
JobsCurrent ==
    ~raced => /\ \A c \in Cmds : ~Idle(c) => Edited(OnFile, job[c].subject, job[c].store)
              /\ ~Idle(Flusher) => Charged(OnFile, job[Flusher].store)

\* A step seen from outside: keys.json and what commands have reported.
SingleStep ==
    \/ UNCHANGED <<OnFile, promised>>
    \/ \E k \in Keys :
          /\ Edited(OnFile, k, OnFile')
          /\ promised' = [promised EXCEPT ![k] =
                IF OnFile'[k].status = "absent" THEN "gone" ELSE OnFile'[k].status]
    \/ Charged(OnFile, OnFile') /\ UNCHANGED promised

\* At the start no process holds anything.
LEMMA InitCurrent ==
    ASSUME Init PROVE JobsCurrent
BY DEF Init, JobsCurrent, Idle

\* A step that plans nothing, and leaves the file as it was.
LEMMA QuietCurrent ==
    ASSUME JobsCurrent, raced' = raced, ~raced => OnFile' = OnFile,
           \A w \in Writers : job'[w] \in {Junk, job[w]}
    PROVE  JobsCurrent'
<1> SUFFICES ASSUME ~raced PROVE JobsCurrent'
  BY DEF JobsCurrent
<1>1. ASSUME NEW c \in Cmds, ~Idle(c)'
      PROVE  Edited(OnFile, job[c].subject, job[c].store)'
  <2>1. ~Idle(c) /\ job'[c] = job[c]
    BY <1>1 DEF Idle
  <2> QED
    BY <2>1 DEF JobsCurrent, Edited
<1>2. ASSUME ~Idle(Flusher)'
      PROVE  Charged(OnFile, job[Flusher].store)'
  <2>1. ~Idle(Flusher) /\ job'[Flusher] = job[Flusher]
    BY <1>2 DEF Idle
  <2>2. Charged(OnFile, job[Flusher].store) /\ OnFile' = OnFile
    BY <2>1 DEF JobsCurrent
  <2> QED
    BY <2>1, <2>2 DEF Charged
<1> QED
  BY <1>1, <1>2 DEF JobsCurrent

\* A step that plans, made while nobody else does.
LEMMA PlanCurrent ==
    ASSUME KInv, NEW w \in Writers, NEW k, NEW s, Plan(w, k, s), UNCHANGED keysFile,
           w \in Cmds => Edited(OnFile, k, s),
           w = Flusher => Charged(OnFile, s)
    PROVE  JobsCurrent'
<1>1. OnFile' = OnFile
  BY DEF OnFile, Missing, keysFile
<1>2. /\ job'[w] = [subject |-> k, store |-> s]
      /\ \A v \in Writers \ {w} : job'[v] = job[v]
  BY DEF Plan, KInv, TypeOK
<1>3. ASSUME ~raced', NEW v \in Writers, ~Idle(v)' PROVE v = w
  BY <1>2, <1>3 DEF Plan, Idle
<1>4. ASSUME ~raced', NEW c \in Cmds, ~Idle(c)'
      PROVE  Edited(OnFile, job[c].subject, job[c].store)'
  <2>1. c = w
    BY <1>3, <1>4
  <2>2. job'[c].subject = k /\ job'[c].store = s /\ Edited(OnFile, k, s)
    BY <1>2, <2>1
  <2> QED
    BY <1>1, <2>2 DEF Edited
<1>5. ASSUME ~raced', ~Idle(Flusher)'
      PROVE  Charged(OnFile, job[Flusher].store)'
  <2>1. Flusher = w
    BY <1>3, <1>5
  <2>2. job'[Flusher].store = s /\ Charged(OnFile, s)
    BY <1>2, <2>1
  <2> QED
    BY <1>1, <2>2 DEF Charged
<1> QED
  BY <1>4, <1>5 DEF JobsCurrent

\* The commands plan what their names say.  (That a key to be added is not
\* in the file yet holds because it has never been issued.)
LEMMA CommandsCurrent ==
    ASSUME KInv, SerialInv, JobsCurrent, NEW c \in Cmds, NEW k \in Keys,
           AddKey(c, k) \/ DelKey(c, k) \/ \E st \in {"on", "off"} : SetKey(c, k, st)
    PROVE  JobsCurrent' /\ UNCHANGED <<OnFile, promised>>
<1>1. UNCHANGED <<keysFile, promised>> /\ c # Flusher /\ c \in Writers
  BY ConstantsAssumption DEF AddKey, DelKey, SetKey
<1>2. OnFile' = OnFile
  BY <1>1 DEF OnFile, Missing, keysFile
<1>3. PICK s : /\ Plan(c, k, s)
               /\ ~raced => Edited(OnFile, k, s)
  <2>1. CASE AddKey(c, k)
    <3>1. ~raced => OnFile[k].status = "absent"
      BY <2>1 DEF AddKey, SerialInv, PromisesKept
    <3> QED
      BY <2>1, <3>1 DEF AddKey, Edited
  <2>2. CASE DelKey(c, k)
    BY <2>2 DEF DelKey, Edited
  <2>3. ASSUME NEW st \in {"on", "off"}, SetKey(c, k, st)
        PROVE  \E s : Plan(c, k, s) /\ Edited(OnFile, k, s)
    BY <2>3 DEF SetKey, Edited
  <2> QED
    BY <2>1, <2>2, <2>3
<1>4. ASSUME raced PROVE JobsCurrent'
  <2>1. raced' = TRUE
    BY <1>3, <1>4 DEF Plan
  <2> QED
    BY <2>1 DEF JobsCurrent
<1>5. ASSUME ~raced PROVE JobsCurrent'
  <2>1. Plan(c, k, s) /\ Edited(OnFile, k, s) /\ UNCHANGED keysFile
    BY <1>1, <1>3, <1>5
  <2> QED
    BY <1>1, <2>1, PlanCurrent
<1> QED
  BY <1>1, <1>2, <1>4, <1>5

\* The flush plans to add the tokens it has taken.
LEMMA MergeCurrent ==
    ASSUME KInv, Merge
    PROVE  JobsCurrent' /\ UNCHANGED <<OnFile, promised>>
<1> DEFINE s == [k \in Keys |->
                   IF OnFile[k].status = "absent" THEN OnFile[k]
                   ELSE [OnFile[k] EXCEPT !.used = @ + taken[k]]]
<1>1. Plan(Flusher, Junk, s) /\ UNCHANGED <<keysFile, promised>>
  BY DEF Merge
<1>2. Charged(OnFile, s)
  BY DEF Charged, KInv, TypeOK
<1>3. OnFile' = OnFile
  BY <1>1 DEF OnFile, Missing, keysFile
<1> HIDE DEF s
<1> QED
  BY <1>1, <1>2, <1>3, PlanCurrent, ConstantsAssumption

\* A save changes nothing that is seen until it publishes, and then it is the
\* one process with a job.
LEMMA SaveCurrent ==
    ASSUME KInv, SerialInv, JobsCurrent, NEW w \in Writers, Save(w)
    PROVE  JobsCurrent' /\ (~raced => SingleStep)
<1>1. /\ ~Idle(w) /\ job[w].store \in Stores /\ raced' = raced
      /\ \A v \in Writers : job'[v] \in {Junk, job[v]}
  BY DEF Save, KInv, TypeOK, Idle, Jobs, usage
<1>2. CASE raced
  BY <1>1, <1>2 DEF JobsCurrent
<1>3. CASE ~raced
  <2>1. ~suspect /\ \A v \in Writers \ {w} : Idle(v)
    BY <1>1, <1>3 DEF SerialInv, OneAtATime
  <2>2. \A v \in Writers \ {w} : ~File!Busy(v)
    BY <2>1 DEF KInv, SavesItsJob
  <2>3. \/ OnFile' = OnFile /\ (pc'[w] = "idle" => result'[w] = "err")
        \/ /\ OnFile' = doc[w] /\ pc'[w] = "idle" /\ result'[w] = "ok"
           /\ File!Busy(w)
    BY <1>1, <2>1, <2>2, LoneSave DEF Save
  <2>4. CASE OnFile' = OnFile /\ (pc'[w] = "idle" => result'[w] = "err")
    <3>1. promised' = promised
      BY <2>4 DEF Save
    <3> QED
      BY <1>1, <2>4, <3>1, QuietCurrent DEF SingleStep
  <2>5. CASE OnFile' = job[w].store /\ pc'[w] = "idle" /\ result'[w] = "ok"
    <3>1. \A v \in Writers : Idle(v)'
      BY <1>1, <2>1, <2>5 DEF Save, Idle, KInv, TypeOK
    <3>2. JobsCurrent'
      BY <3>1 DEF JobsCurrent
    <3>3. CASE w = Flusher
      <4>1. promised' = promised /\ Charged(OnFile, OnFile')
        BY <1>1, <1>3, <2>5, <3>3, ConstantsAssumption DEF Save, JobsCurrent
      <4> QED
        BY <3>2, <4>1 DEF SingleStep
    <3>4. CASE w # Flusher
      <4>1. w \in Cmds /\ Edited(OnFile, job[w].subject, OnFile')
        BY <1>1, <1>3, <2>5, <3>4 DEF JobsCurrent
      <4>2. job[w].subject \in Keys
        BY <1>1, <1>3, <4>1 DEF SerialInv, PlansFresh, KInv, TypeOK
      <4>3. promised' = [promised EXCEPT ![job[w].subject] =
               IF OnFile'[job[w].subject].status = "absent"
                 THEN "gone" ELSE OnFile'[job[w].subject].status]
        BY <2>5, <4>1 DEF Save
      <4> QED
        BY <3>2, <4>1, <4>2, <4>3 DEF SingleStep
    <3> QED
      BY <3>3, <3>4
  <2> QED
    BY <2>3, <2>4, <2>5 DEF KInv, SavesItsJob
<1> QED
  BY <1>2, <1>3

\* Every step keeps the jobs current and is, from outside, a single step.
LEMMA NextCurrent ==
    ASSUME KInv, SerialInv, JobsCurrent, [Next]_vars
    PROVE  JobsCurrent' /\ (~raced => SingleStep)
<1>1. ASSUME NEW c \in Cmds, NEW k \in Keys,
             AddKey(c, k) \/ DelKey(c, k) \/ \E st \in {"on", "off"} : SetKey(c, k, st)
      PROVE  JobsCurrent' /\ SingleStep
  BY <1>1, CommandsCurrent DEF SingleStep
<1>2. CASE Merge
  BY <1>2, MergeCurrent DEF SingleStep
<1>3. ASSUME NEW w \in Writers, Save(w) PROVE JobsCurrent' /\ (~raced => SingleStep)
  BY <1>3, SaveCurrent
<1>4. ASSUME \/ UNCHANGED <<keysFile, job>>
             \/ \E w \in Writers : Gone(w)
             \/ File!PowerLoss /\ job' = [w \in Writers |-> Junk],
             UNCHANGED <<raced, promised>>
      PROVE  JobsCurrent' /\ (~raced => SingleStep)
  <2>1. \A w \in Writers : job'[w] \in {Junk, job[w]}
    BY <1>4 DEF Gone, KInv, TypeOK
  <2>2. ~raced => ~suspect
    BY DEF SerialInv, OneAtATime
  <2>3. UNCHANGED keysFile => OnFile' = OnFile
    BY DEF OnFile, Missing, keysFile
  <2>4. ~raced => OnFile' = OnFile
    BY <1>4, <2>2, <2>3, LoneDeath
  <2> QED
    BY <1>4, <2>1, <2>4, QuietCurrent DEF SingleStep
<1>5. ASSUME \/ \E k \in Keys, n \in 0 .. MaxBilled : Bill(k, n)
             \/ Take \/ MergeFails \/ UNCHANGED vars
      PROVE  JobsCurrent' /\ (~raced => SingleStep)
  BY <1>4, <1>5 DEF Bill, Take, MergeFails, vars
<1>6. ASSUME (\E c \in Cmds : CmdDies(c)) \/ ServeDies \/ PowerLoss
      PROVE  JobsCurrent' /\ (~raced => SingleStep)
  BY <1>4, <1>6 DEF CmdDies, ServeDies, PowerLoss
<1> QED
  BY <1>1, <1>2, <1>3, <1>5, <1>6 DEF Next

\* As long as read-change-save sequences do not overlap, a command or a flush
\* of many system calls, with its failures, kills and power losses, is seen as
\* a single step or not at all: keys.json changes only when a save is
\* published, to what the command, or the flush, makes of the file as it is
\* then, and a command has reported success exactly when that has happened.
THEOREM SavesAreSingleSteps == Spec => [][~raced => SingleStep]_vars
<1>1. Init => KInv /\ SerialInv /\ JobsCurrent
  BY InitKInv, InitSerial, InitCurrent
<1>2. KInv /\ SerialInv /\ JobsCurrent /\ [Next]_vars =>
         KInv' /\ SerialInv' /\ JobsCurrent' /\ (~raced => SingleStep)
  BY NextKInv, NextSerial, NextCurrent
<1>3. KInv /\ SerialInv /\ JobsCurrent /\ [Next]_vars => [~raced => SingleStep]_vars
  BY <1>2
<1> QED
  BY <1>1, <1>2, <1>3, PTL DEF Spec
=============================================================================

--------------------------- MODULE GatewayProofs ---------------------------
(***************************************************************************)
(* Proofs about Gateway, for any requests, keys, slots and quota.          *)
(***************************************************************************)
EXTENDS Gateway, FiniteSetTheorems, TLAPS

\* The types the proofs need.
Shape ==
    /\ at \in [Requests -> Stages]
    /\ who \in [Requests -> Keys]
    /\ DOMAIN snap = Requests
    /\ allowed \in [Requests -> BOOLEAN]

\* A daemon that does not serve has no requests and no flush.
Quiet ==
    ~Serving => /\ \A h \in Requests : at[h] = "idle"
                /\ flusher = "idle"

\* A request in the middle of a reload holds g.mu, and the time recorded is
\* still the one it came for.
Locked == \A h \in Requests : at[h] \in {"loading", "stamping"} => mu = h /\ ~stamped

\* What the daemon has loaded, it has loaded from the file as it is now,
\* unless the time recorded, or about to be, says otherwise or is `missed`.
Loaded ==
    ~missed =>
       /\ daemon = "loaded" => keys = file
       /\ Serving /\ stamped => keys = file
       /\ \A h \in Requests : at[h] = "stamping" /\ statted => keys = file

\* Whatever can still let a request through, the file has allowed since it
\* came in: the file itself, the store in memory, the entry it has looked up.
Vouched ==
    \A h \in Requests \ misled : at[h] # "idle" =>
       /\ Allows(file[who[h]]) => allowed[h]
       /\ at[h] \in {"stamping", "entered", "holding"} /\ Allows(keys[who[h]]) => allowed[h]
       /\ at[h] = "authorized" /\ WithinQuota(snap[h]) => allowed[h]
       /\ at[h] = "forwarding" => allowed[h]

RInv == Shape /\ Quiet /\ Locked /\ Loaded /\ Vouched

-----------------------------------------------------------------------------
\* The reload invariant holds at the start.
LEMMA InitRInv == Init => RInv
BY DEF Init, RInv, Shape, Quiet, Locked, Loaded, Vouched, Serving, Stages

\* The steps that replace keys.json: a shell command, a flush.
LEMMA ReplaceRInv ==
    ASSUME RInv, NEW f, Replace(f),
           UNCHANGED <<keys, mu, daemon, at, who, snap, misled>>,
           Serving \/ UNCHANGED flusher
    PROVE  RInv'
<1>1. /\ file' = f
      /\ allowed' = [h \in Requests |->
                       at[h] # "idle" /\ (allowed[h] \/ Allows(f[who[h]]))]
  BY DEF Replace
<1>2. Shape'
  BY <1>1 DEF RInv, Shape, Allows, Enabled, WithinQuota
<1>3. Quiet' /\ Locked'
  BY DEF RInv, Quiet, Locked, Serving, Replace
<1>4. Loaded'
  <2>1. CASE missed' = (daemon = "loaded") /\ stamped' = FALSE /\ statted' = FALSE
    BY <2>1 DEF Loaded
  <2>2. CASE missed' = (stamped \/ statted \/ daemon = "loaded") /\ UNCHANGED <<stamped, statted>>
    BY <2>2 DEF Loaded
  <2> QED
    BY <2>1, <2>2 DEF Replace
<1>5. Vouched'
  BY <1>1 DEF RInv, Shape, Vouched
<1> QED
  BY <1>2, <1>3, <1>4, <1>5 DEF RInv

\* A handler's step between its neighbours' leaves them as they were.
LEMMA StepRInv ==
    ASSUME RInv, NEW h \in Requests, Serving,
           NEW stage \in Stages, at' = [at EXCEPT ![h] = stage],
           UNCHANGED <<file, keys, stamped, statted, missed, mu, daemon, who>>,
           DOMAIN snap' = Requests,
           \A r \in Requests \ {h} : snap'[r] = snap[r],
           \/ UNCHANGED <<misled, allowed>>
           \/ /\ stage = "idle"
              /\ misled' = misled \ {h} /\ allowed' = [allowed EXCEPT ![h] = FALSE],
           at[h] # "idle" \/ stage = "idle",
           stage \notin {"loading", "stamping"},
           stage \in {"entered", "holding"} => at[h] \in {"entered", "holding"},
           stage = "authorized" =>
              /\ at[h] = "holding"
              /\ snap'[h] = keys[who[h]] /\ Enabled(keys[who[h]]),
           stage = "forwarding" => at[h] = "authorized" /\ WithinQuota(snap[h])
    PROVE  RInv'
<1>1. Shape'
  BY DEF RInv, Shape
<1>2. Quiet' /\ Locked' /\ Loaded'
  BY DEF RInv, Shape, Quiet, Locked, Loaded, Serving
<1>3. ASSUME NEW r \in Requests \ misled', at'[r] # "idle"
      PROVE  /\ Allows(file[who[r]]) => allowed'[r]
             /\ at'[r] \in {"stamping", "entered", "holding"} /\ Allows(keys[who[r]]) => allowed'[r]
             /\ at'[r] = "authorized" /\ WithinQuota(snap'[r]) => allowed'[r]
             /\ at'[r] = "forwarding" => allowed'[r]
  <2>0. r \in Requests \ misled /\ allowed'[r] = allowed[r]
    BY <1>3 DEF RInv, Shape
  <2>1. CASE r # h
    BY <1>3, <2>0, <2>1 DEF RInv, Shape, Vouched
  <2>2. CASE r = h
    BY <1>3, <2>0, <2>2 DEF RInv, Shape, Vouched, Allows
  <2> QED
    BY <2>1, <2>2
<1>4. Vouched'
  BY <1>3 DEF Vouched, Allows, Enabled, WithinQuota
<1> QED
  BY <1>1, <1>2, <1>4 DEF RInv

\* A request that comes in finds the store current, sets out to reload it, or
\* goes on misled.
LEMMA ArriveRInv ==
    ASSUME RInv, NEW h \in Requests, NEW k \in Keys, Arrive(h, k)
    PROVE  RInv'
<1>1. PICK stage \in {"entered", "loading"} :
         /\ at' = [at EXCEPT ![h] = stage]
         /\ stage = "loading" => mu' = h /\ ~stamped
         /\ stage = "entered" => (stamped /\ ~missed) \/ h \in misled'
         /\ misled \subseteq misled'
         /\ stage = "loading" \/ UNCHANGED statted
  BY DEF Arrive, Goto
<1>2. /\ who' = [who EXCEPT ![h] = k]
      /\ allowed' = [allowed EXCEPT ![h] = Allows(file[k])]
      /\ UNCHANGED <<file, keys, stamped, missed, daemon, snap>> /\ Serving /\ at[h] = "idle"
  BY DEF Arrive
<1>3. Shape'
  BY <1>1, <1>2 DEF RInv, Shape, Stages, Allows, Enabled, WithinQuota
<1>4. Quiet' /\ Locked' /\ Loaded'
  <2>1. \A r \in Requests : at[r] \notin {"loading", "stamping"}
    BY NobodyAssumption DEF Arrive, Free, RInv, Locked
  <2> QED
    BY <1>1, <1>2, <2>1 DEF RInv, Shape, Quiet, Locked, Loaded, Serving
<1>5. stage = "entered" /\ h \notin misled' => keys = file
  BY <1>1, <1>2 DEF RInv, Loaded
<1>6. ASSUME NEW r \in Requests \ misled', at'[r] # "idle"
      PROVE  /\ Allows(file[who'[r]]) => allowed'[r]
             /\ at'[r] \in {"stamping", "entered", "holding"} /\ Allows(keys[who'[r]]) => allowed'[r]
             /\ at'[r] = "authorized" /\ WithinQuota(snap[r]) => allowed'[r]
             /\ at'[r] = "forwarding" => allowed'[r]
  <2>0. r \in Requests \ misled
    BY <1>1
  <2>1. CASE r # h
    BY <1>1, <1>2, <1>6, <2>0, <2>1 DEF RInv, Shape, Vouched
  <2>2. CASE r = h
    BY <1>1, <1>2, <1>5, <1>6, <2>2 DEF RInv, Shape
  <2> QED
    BY <2>1, <2>2
<1>7. Vouched'
  BY <1>2, <1>6 DEF Vouched, Allows, Enabled, WithinQuota
<1> QED
  BY <1>3, <1>4, <1>7 DEF RInv

\* The two steps of a reload under g.mu.
LEMMA LoadRInv ==
    ASSUME RInv, NEW h \in Requests, Load(h)
    PROVE  RInv'
<1>1. /\ at' = [at EXCEPT ![h] = "stamping"] /\ keys' = file /\ at[h] = "loading"
      /\ UNCHANGED <<file, stamped, statted, mu, daemon, who, snap, misled, allowed, flusher>>
  BY DEF Load, Goto, usage, history, judged
<1>2. Serving
  BY <1>1 DEF RInv, Quiet
<1>3. Shape' /\ Quiet' /\ Locked' /\ Loaded'
  BY <1>1, <1>2 DEF RInv, Shape, Quiet, Locked, Loaded, Serving, Stages
<1>4. ASSUME NEW r \in Requests \ misled, at'[r] # "idle"
      PROVE  /\ Allows(file[who[r]]) => allowed[r]
             /\ at'[r] = "authorized" /\ WithinQuota(snap[r]) => allowed[r]
             /\ at'[r] = "forwarding" => allowed[r]
  BY <1>1, <1>4 DEF RInv, Shape, Vouched
<1>5. Vouched'
  BY <1>1, <1>4 DEF Vouched, Allows, Enabled, WithinQuota
<1> QED
  BY <1>3, <1>5 DEF RInv

\* A load that fails misleads its own request, and nobody else.
LEMMA LoadFailsRInv ==
    ASSUME RInv, NEW h \in Requests, LoadFails(h)
    PROVE  RInv'
<1>1. /\ at' = [at EXCEPT ![h] = "stamping"] /\ at[h] = "loading"
      /\ missed' = statted /\ misled' = misled \cup {h}
      /\ UNCHANGED <<file, keys, stamped, statted, mu, daemon, who, snap, allowed, flusher>>
  BY DEF LoadFails, Goto, usage, history
<1>2. Serving
  BY <1>1 DEF RInv, Quiet
<1>3. Shape' /\ Quiet' /\ Locked'
  BY <1>1, <1>2 DEF RInv, Shape, Quiet, Locked, Serving, Stages
<1>4. Loaded'
  <2>1. ~stamped /\ daemon # "loaded"
    BY <1>1, <1>2 DEF RInv, Locked, Serving
  <2> QED
    BY <1>1, <2>1 DEF Loaded
<1>5. ASSUME NEW r \in Requests \ misled', at'[r] # "idle"
      PROVE  /\ Allows(file[who[r]]) => allowed[r]
             /\ at'[r] \in {"stamping", "entered", "holding"} /\ Allows(keys[who[r]]) => allowed[r]
             /\ at'[r] = "authorized" /\ WithinQuota(snap[r]) => allowed[r]
             /\ at'[r] = "forwarding" => allowed[r]
  <2>1. r \in Requests \ misled /\ r # h
    BY <1>1
  <2> QED
    BY <1>1, <1>5, <2>1 DEF RInv, Shape, Vouched
<1>6. Vouched'
  BY <1>1, <1>5 DEF Vouched, Allows, Enabled, WithinQuota
<1> QED
  BY <1>3, <1>4, <1>6 DEF RInv

\* Recording the time ends a reload with the store current.
LEMMA StampRInv ==
    ASSUME RInv, NEW h \in Requests, Stamp(h)
    PROVE  RInv'
<1>1. /\ at' = [at EXCEPT ![h] = "entered"] /\ at[h] = "stamping"
      /\ stamped' = statted
      /\ UNCHANGED <<file, keys, missed, daemon, who, snap, misled, allowed, flusher>>
  BY DEF Stamp, Goto, usage, history, judged
<1>2. Serving
  BY <1>1 DEF RInv, Quiet
<1>3. ASSUME NEW r \in Requests, r # h
      PROVE  at[r] \notin {"loading", "stamping"}
  BY <1>1, <1>3 DEF RInv, Locked
<1>4. Shape' /\ Quiet' /\ Locked' /\ Loaded'
  BY <1>1, <1>2, <1>3 DEF RInv, Shape, Quiet, Locked, Loaded, Serving, Stages
<1>5. ASSUME NEW r \in Requests \ misled, at'[r] # "idle"
      PROVE  /\ Allows(file[who[r]]) => allowed[r]
             /\ at'[r] \in {"stamping", "entered", "holding"} /\ Allows(keys[who[r]])
                   => allowed[r]
             /\ at'[r] = "authorized" /\ WithinQuota(snap[r]) => allowed[r]
             /\ at'[r] = "forwarding" => allowed[r]
  BY <1>1, <1>5 DEF RInv, Shape, Vouched
<1>6. Vouched'
  BY <1>1, <1>5 DEF Vouched, Allows, Enabled, WithinQuota
<1> QED
  BY <1>4, <1>6 DEF RInv

\* Every step of a handler preserves the reload invariant.
LEMMA HandleRInv ==
    ASSUME RInv, NEW h \in Requests, Handle(h) PROVE RInv'
<1>1. ASSUME NEW k \in Keys, Arrive(h, k) PROVE RInv'
  BY <1>1, ArriveRInv
<1>2. CASE Load(h) \/ LoadFails(h) \/ Stamp(h)
  BY <1>2, LoadRInv, LoadFailsRInv, StampRInv
<1>3. ASSUME NEW n \in 0 .. MaxUsed, NoteUsage(h, n) PROVE RInv'
  BY <1>3, StepRInv DEF NoteUsage, Goto, RInv, Shape, Quiet, Stages, store, judged
<1>4. CASE Acquire(h) \/ Forward(h)
  BY <1>4, StepRInv
     DEF Acquire, Forward, Goto, RInv, Shape, Quiet, Stages, store, history, judged
<1>5. CASE Authorize(h)
  BY <1>5, StepRInv DEF Authorize, Goto, RInv, Shape, Quiet, Stages, store, history, judged
<1>6. CASE TooMany(h) \/ Refuse(h) \/ BodyFails(h) \/ Deny(h) \/ Audit(h) \/ Abort(h)
  <2>1. at[h] # "idle" /\ at' = [at EXCEPT ![h] = "idle"]
    BY <1>6 DEF TooMany, Refuse, BodyFails, Deny, Audit, Abort, Leave, Goto
  <2>2. /\ UNCHANGED <<file, keys, stamped, statted, missed, mu, daemon, who>>
        /\ misled' = misled \ {h} /\ allowed' = [allowed EXCEPT ![h] = FALSE]
    BY <1>6 DEF TooMany, Refuse, BodyFails, Deny, Audit, Abort, Leave, store, history
  <2>3. DOMAIN snap' = Requests /\ \A r \in Requests \ {h} : snap'[r] = snap[r]
    BY <1>6 DEF TooMany, Refuse, BodyFails, Deny, Audit, Abort, Leave, RInv, Shape
  <2>4. Serving
    BY <2>1 DEF RInv, Quiet
  <2> QED
    BY <2>1, <2>2, <2>3, <2>4, StepRInv DEF Stages
<1> QED
  BY <1>1, <1>2, <1>3, <1>4, <1>5, <1>6 DEF Handle

\* Every step preserves the reload invariant.
LEMMA NextRInv ==
    ASSUME RInv, [Next]_vars PROVE RInv'
<1>1. ASSUME NEW k \in Keys, ShellSaves(k) PROVE RInv'
  <2>1. PICK f : Replace(f)
    BY <1>1 DEF ShellSaves
  <2>2. UNCHANGED <<keys, mu, daemon, at, who, snap, misled, flusher>>
    BY <1>1 DEF ShellSaves, usage
  <2> QED
    BY <2>1, <2>2, ReplaceRInv
<1>2. CASE BootLoad
  BY <1>2 DEF BootLoad, handlers, judged, usage, history, RInv, Shape, Quiet, Locked,
              Loaded, Vouched, Serving
<1>3. CASE BootStamp
  BY <1>3 DEF BootStamp, handlers, judged, usage, history, RInv, Shape, Quiet, Locked,
              Loaded, Vouched, Serving
<1>4. CASE Killed \/ Exit
  <2>1. Halt
    BY <1>4 DEF Killed, Exit
  <2> QED
    BY <2>1 DEF Halt, RInv, Shape, Quiet, Locked, Loaded, Vouched, Serving, Stages
<1>5. CASE Merge
  <2>1. Serving
    BY <1>5 DEF Merge, Flushed, RInv, Quiet
  <2>2. Replace(Added(file)) /\ UNCHANGED <<keys, mu, daemon, at, who, snap, misled>>
    BY <1>5 DEF Merge, Flushed
  <2> QED
    BY <2>1, <2>2, ReplaceRInv DEF Serving
<1>6. CASE UNCHANGED vars \/ Sigterm \/ Tick \/ MergeFails \/ LastFlush
  <2>1. UNCHANGED <<file, keys, stamped, statted, missed, mu, at, who, snap, misled, allowed>>
    BY <1>6 DEF vars, Sigterm, Tick, MergeFails, LastFlush, Flushed, store,
                handlers, judged, usage, history
  <2>2. \/ UNCHANGED <<daemon, flusher>>
        \/ Serving /\ Serving'
    BY <1>6 DEF vars, Sigterm, Tick, MergeFails, LastFlush, Flushed, store,
                handlers, usage, history, Serving, RInv, Quiet
  <2>3. daemon' = "loaded" => daemon = "loaded"
    BY <1>6 DEF vars, Sigterm, Tick, MergeFails, LastFlush, Flushed
  <2> QED
    BY <2>1, <2>2, <2>3 DEF RInv, Shape, Quiet, Locked, Loaded, Vouched,
       Serving, Allows, Enabled, WithinQuota
<1>7. ASSUME NEW h \in Requests, Handle(h) PROVE RInv'
  BY <1>7, HandleRInv
<1> QED
  BY <1>1, <1>2, <1>3, <1>4, <1>5, <1>6, <1>7 DEF Next

-----------------------------------------------------------------------------
\* The reload invariant holds in every reachable state.
THEOREM ReloadInductive == Spec => []RInv
<1>1. Init => RInv
  BY InitRInv
<1>2. RInv /\ [Next]_vars => RInv'
  BY NextRInv
<1> QED
  BY <1>1, <1>2, PTL DEF Spec

\* reloadIfChanged misses a change only where stat, load and stamp cannot see
\* it: saved between the halves of newGuard, under the time of the file before
\* it, or in a file that could not be read; and the next load makes up for it.
THEOREM NothingMissed == Spec => []ReloadMissesNothing
<1>1. RInv => ReloadMissesNothing
  BY DEF RInv, Loaded, ReloadMissesNothing
<1> QED
  BY <1>1, ReloadInductive, PTL

\* A key that was disabled, deleted or used up in keys.json before a request
\* came in does not get that request forwarded, unless one of those changes had
\* slipped by when it came in, or its own stat or load failed.
THEOREM RevokedStayOut == Spec => []NoStaleForward
<1>1. RInv => NoStaleForward
  BY DEF RInv, Vouched, NoStaleForward
<1> QED
  BY <1>1, ReloadInductive, PTL

-----------------------------------------------------------------------------
\* The requests that hold a slot.
Holders == {h \in Requests : at[h] \in Holding}

SInv ==
    /\ at \in [Requests -> Stages]
    /\ SlotsAccounted
    /\ ~Serving => \A h \in Requests : at[h] = "idle"

\* A step that neither takes nor frees a slot.
LEMMA SameSlots ==
    ASSUME SInv, NEW h \in Requests, NEW stage \in Stages,
           at' = [at EXCEPT ![h] = stage], sem' = sem, UNCHANGED daemon, Serving,
           stage \in Holding <=> at[h] \in Holding
    PROVE  SInv'
<1>1. Holders' = Holders
  BY DEF Holders, SInv
<1> QED
  BY <1>1 DEF SInv, SlotsAccounted, Holders, Serving

\* A handler that leaves frees its own slot.
LEMMA SlotFreed ==
    ASSUME SInv, NEW h \in Requests, at[h] \in Holding, Serving,
           at' = [at EXCEPT ![h] = "idle"], sem' = sem - 1, UNCHANGED daemon
    PROVE  SInv'
<1>1. Holders' = Holders \ {h} /\ h \in Holders
  BY DEF Holders, SInv, Holding
<1>2. IsFiniteSet(Holders)
  BY ConstantsAssumption, FS_Subset DEF Holders
<1>3. Cardinality(Holders') = Cardinality(Holders) - 1
  BY <1>1, <1>2, FS_RemoveElement
<1> QED
  BY <1>3 DEF SInv, SlotsAccounted, Holders, Serving, Stages

\* Acquire takes one.
LEMMA SlotTaken ==
    ASSUME SInv, NEW h \in Requests, Acquire(h), Serving PROVE SInv'
<1>1. Holders' = Holders \cup {h} /\ h \notin Holders
  BY DEF Holders, SInv, Holding, Acquire, Goto
<1>2. IsFiniteSet(Holders)
  BY ConstantsAssumption, FS_Subset DEF Holders
<1>3. Cardinality(Holders') = Cardinality(Holders) + 1
  BY <1>1, <1>2, FS_AddElement
<1> QED
  BY <1>3 DEF SInv, SlotsAccounted, Holders, Serving, Stages, Acquire, Goto

\* Every step moves the count with the holders.
LEMMA NextSInv == SInv /\ [Next]_vars => SInv'
<1> SUFFICES ASSUME SInv, [Next]_vars PROVE SInv'
  OBVIOUS
<1>1. ASSUME NEW h \in Requests, Handle(h) PROVE SInv'
  <2>1. Serving /\ UNCHANGED daemon
    BY <1>1 DEF Handle, Arrive, Load, LoadFails, Stamp, Acquire, TooMany, Refuse, Authorize,
       BodyFails, Deny, Forward, NoteUsage, Audit, Abort, SInv
  <2>2. CASE Acquire(h)
    BY <2>1, <2>2, SlotTaken
  <2>3. CASE Refuse(h) \/ BodyFails(h) \/ Deny(h) \/ Audit(h) \/ Abort(h)
    BY <2>1, <2>3, SlotFreed
       DEF Refuse, BodyFails, Deny, Audit, Abort, Leave, Goto, Holding
  <2>4. CASE Load(h) \/ LoadFails(h) \/ Stamp(h) \/ TooMany(h) \/ Authorize(h) \/ Forward(h)
    BY <2>1, <2>4, SameSlots
       DEF Load, LoadFails, Stamp, TooMany, Authorize, Forward, Goto, Holding, Stages
  <2>5. ASSUME NEW k \in Keys, Arrive(h, k) PROVE SInv'
    BY <2>1, <2>5, SameSlots DEF Arrive, Goto, Holding, Stages
  <2>6. ASSUME NEW n \in 0 .. MaxUsed, NoteUsage(h, n) PROVE SInv'
    BY <2>1, <2>6, SameSlots DEF NoteUsage, Goto, Holding, Stages
  <2> QED
    BY <1>1, <2>2, <2>3, <2>4, <2>5, <2>6 DEF Handle
<1>2. CASE Killed \/ Exit
  <2>1. Halt
    BY <1>2 DEF Killed, Exit
  <2>2. Holders' = {}
    BY <2>1 DEF Halt, Holders, Holding
  <2> QED
    BY <2>1, <2>2, FS_EmptySet DEF Halt, SInv, SlotsAccounted, Holders, Stages
<1>3. ASSUME UNCHANGED <<at, sem>>, Serving' \/ (~Serving /\ ~Serving') PROVE SInv'
  BY <1>3 DEF SInv, SlotsAccounted
<1>4. CASE UNCHANGED vars \/ BootLoad \/ BootStamp \/ Sigterm \/ Tick
           \/ Merge \/ MergeFails \/ LastFlush \/ \E k \in Keys : ShellSaves(k)
  BY <1>3, <1>4
     DEF vars, handlers, BootLoad, BootStamp, Sigterm, Tick, Merge, MergeFails,
         Flushed, LastFlush, ShellSaves, Serving
<1> QED
  BY <1>1, <1>2, <1>4 DEF Next

\* g.sem counts exactly the requests inside ServeHTTP that took a slot,
\* whatever way out of it they take.
THEOREM NoSlotLeaks == Spec => []SlotsAccounted
<1>1. Init => SInv
  <2> SUFFICES ASSUME Init PROVE SInv
    OBVIOUS
  <2>1. {h \in Requests : at[h] \in Holding} = {}
    BY DEF Init, Holding
  <2> QED
    BY <2>1, FS_EmptySet DEF Init, SInv, SlotsAccounted, Stages
<1>2. SInv /\ [Next]_vars => SInv'
  BY NextSInv
<1>3. SInv => SlotsAccounted
  BY DEF SInv
<1> QED
  BY <1>1, <1>2, <1>3, PTL DEF Spec
-----------------------------------------------------------------------------
\* The accounts of the usage: nothing is ever in file, flush and memory that
\* was not billed.
Amounts ==
    /\ file \in [Keys -> [status : {"absent", "on", "off"}, used : Nat]]
    /\ delta \in [Keys -> Nat] /\ taken \in [Keys -> Nat]
    /\ billed \in [Keys -> Nat] /\ late \in [Keys -> Nat]
    /\ \A k \in Keys : /\ file[k].used + taken[k] + delta[k] <= billed[k]
                       /\ late[k] <= billed[k]
                       /\ billed[k] <= MaxUsed

\* What the flush goroutine has in hand in each of its states, and what it may
\* have left in g.tokDelta once it has taken its last look.
Phases ==
    /\ flusher \in {"idle", "merging", "final", "exit"}
    /\ flusher \in {"idle", "exit"} => \A k \in Keys : taken[k] = 0
    /\ ~dirty => \A k \in Keys : delta[k] = 0
    /\ flusher \in {"final", "exit"} =>
          daemon = "stopping" /\ \A k \in Keys : delta[k] <= late[k]

UInv == Amounts /\ Phases /\ UsageAddsUp

\* The accounts are even at the start.
LEMMA InitUInv ==
    ASSUME Init PROVE UInv
<1>1. /\ \A k \in Keys : /\ file[k] \in [status : {"absent", "on", "off"}, used : Nat]
                        /\ file[k].used = 0 /\ delta[k] = 0 /\ taken[k] = 0
                        /\ billed[k] = 0 /\ late[k] = 0
      /\ delta \in [Keys -> Nat] /\ taken \in [Keys -> Nat]
      /\ billed \in [Keys -> Nat] /\ late \in [Keys -> Nat]
  BY DEF Init, Zero, NoEntry, NewEntry
<1>2. file \in [Keys -> [status : {"absent", "on", "off"}, used : Nat]]
  BY <1>1 DEF Init
<1>3. Amounts /\ UsageAddsUp
  BY <1>1, <1>2, ConstantsAssumption DEF Amounts, UsageAddsUp
<1>4. Phases
  BY <1>1 DEF Init, Phases
<1> QED
  BY <1>3, <1>4 DEF UInv

\* A step that leaves the accounts and the flush goroutine alone.
LEMMA SameUInv ==
    ASSUME UInv,
           UNCHANGED <<file, delta, dirty, taken, flusher, billed, late, lossy>>,
           flusher \in {"final", "exit"} => daemon' = daemon
    PROVE  UInv'
BY DEF UInv, Amounts, Phases, UsageAddsUp

\* A command changes a key's status, resets a key nobody has been billed for,
\* or deletes one, with what it had used.
LEMMA SaveUInv ==
    ASSUME UInv, NEW k \in Keys, ShellSaves(k) PROVE UInv'
<1>1. /\ UNCHANGED <<delta, dirty, taken, flusher, billed, late, daemon>>
      /\ DOMAIN file = Keys /\ file[k].used \in Nat
  BY DEF ShellSaves, usage, UInv, Amounts
<1>2. ASSUME NEW e \in [status : {"absent", "on", "off"}, used : Nat],
             file' = [file EXCEPT ![k] = e], e.used <= file[k].used,
             lossy' = TRUE \/ (e.used = file[k].used /\ lossy' = lossy)
      PROVE  UInv'
  <2>1. Amounts'
    BY <1>1, <1>2 DEF UInv, Amounts
  <2>2. Phases' /\ UsageAddsUp'
    BY <1>1, <1>2 DEF UInv, Amounts, Phases, UsageAddsUp
  <2> QED
    BY <2>1, <2>2 DEF UInv
<1>3. CASE file[k].status = "absent"
  <2>1. /\ file' = [file EXCEPT ![k] = NewEntry] /\ lossy' = lossy
        /\ billed[k] = 0
    BY <1>3 DEF ShellSaves, Replace
  <2>2. /\ taken[k] \in Nat /\ delta[k] \in Nat /\ file[k].used \in Nat
        /\ file[k].used + taken[k] + delta[k] <= 0
    BY <2>1 DEF UInv, Amounts
  <2>3. file[k].used = 0
    BY <2>2
  <2>4. NewEntry \in [status : {"absent", "on", "off"}, used : Nat] /\ NewEntry.used = 0
    BY DEF NewEntry
  <2>5. NewEntry.used <= file[k].used /\ NewEntry.used = file[k].used
    BY <2>3, <2>4
  <2> QED
    BY <1>2, <2>1, <2>4, <2>5
<1>4. CASE file' = [file EXCEPT ![k] = NoEntry] /\ lossy' = TRUE
  <2>1. /\ NoEntry \in [status : {"absent", "on", "off"}, used : Nat]
        /\ NoEntry.used <= file[k].used
    BY <1>1 DEF NoEntry
  <2>2. lossy' = TRUE \/ (NoEntry.used = file[k].used /\ lossy' = lossy)
    BY <1>4
  <2>3. file' = [file EXCEPT ![k] = NoEntry]
    BY <1>4
  <2> QED
    BY <1>2, <2>1, <2>2, <2>3
<1>5. ASSUME NEW s \in {"on", "off"},
             file' = [file EXCEPT ![k].status = s], lossy' = lossy
      PROVE  UInv'
  <2> DEFINE e == [file[k] EXCEPT !.status = s]
  <2>1. /\ e \in [status : {"absent", "on", "off"}, used : Nat]
        /\ e.used <= file[k].used /\ e.used = file[k].used
    BY DEF UInv, Amounts
  <2>2. file' = [file EXCEPT ![k] = e]
    BY <1>5
  <2> HIDE DEF e
  <2> QED
    BY <1>2, <1>5, <2>1, <2>2
<1> QED
  BY <1>3, <1>4, <1>5 DEF ShellSaves, Replace

\* flush takes the deltas when it has nothing in hand.
LEMMA TakeUInv ==
    ASSUME UInv, Take, flusher = "idle", flusher' \in {"merging", "final"},
           flusher' = "final" => daemon = "stopping",
           UNCHANGED <<file, daemon, billed, late, lossy>>
    PROVE  UInv'
<1>1. \A k \in Keys : taken[k] = 0 /\ taken'[k] = delta[k] /\ delta'[k] = 0
  BY DEF UInv, Phases, Take, Zero
<1>2. taken' \in [Keys -> Nat] /\ delta' \in [Keys -> Nat]
  BY DEF UInv, Amounts, Take, Zero
<1>3. Amounts'
  BY <1>1, <1>2 DEF UInv, Amounts
<1>4. Phases'
  BY <1>1 DEF UInv, Amounts, Phases, Take
<1>5. UsageAddsUp'
  BY <1>1 DEF UInv, Amounts, UsageAddsUp
<1> QED
  BY <1>3, <1>4, <1>5 DEF UInv

\* The flush ends: what it took is in keys.json, or usage is lost.
LEMMA FlushedUInv ==
    ASSUME UInv, Merge \/ MergeFails PROVE UInv'
<1>1. /\ flusher \in {"merging", "final"} /\ taken' = Zero
      /\ flusher' = IF flusher = "final" THEN "exit" ELSE "idle"
      /\ UNCHANGED <<daemon, delta, dirty, billed, late>>
  BY DEF Merge, MergeFails, Flushed
<1>2. \A k \in Keys : taken'[k] = 0
  BY <1>1 DEF Zero
<1>3. taken' \in [Keys -> Nat]
  BY <1>1 DEF Zero
<1>4. Phases'
  BY <1>1, <1>2 DEF UInv, Phases
<1>5. /\ file' \in [Keys -> [status : {"absent", "on", "off"}, used : Nat]]
      /\ \A k \in Keys :
            /\ file'[k].used <= file[k].used + taken[k]
            /\ ~lossy' => ~lossy /\ file'[k].used = file[k].used + taken[k]
  <2>1. CASE Merge
    <3>1. /\ file' = Added(file)
          /\ lossy' = (lossy \/ \E k \in Keys : taken[k] > 0 /\ file[k].status = "absent")
      BY <2>1 DEF Merge, Replace
    <3>2. ASSUME NEW k \in Keys
          PROVE  /\ file'[k] \in [status : {"absent", "on", "off"}, used : Nat]
                 /\ file'[k].used = IF file[k].status = "absent" THEN file[k].used
                                      ELSE file[k].used + taken[k]
      <4>1. file[k] \in [status : {"absent", "on", "off"}, used : Nat] /\ taken[k] \in Nat
        BY DEF UInv, Amounts
      <4>2. file'[k] = IF file[k].status = "absent" THEN file[k]
                         ELSE [file[k] EXCEPT !.used = @ + taken[k]]
        BY <3>1 DEF Added
      <4> QED
        BY <4>1, <4>2
    <3>3. file' \in [Keys -> [status : {"absent", "on", "off"}, used : Nat]]
      BY <3>1, <3>2 DEF Added
    <3>4. ASSUME NEW k \in Keys
          PROVE  /\ file'[k].used <= file[k].used + taken[k]
                 /\ ~lossy' => ~lossy /\ file'[k].used = file[k].used + taken[k]
      <4>1. file[k].used \in Nat /\ taken[k] \in Nat
        BY DEF UInv, Amounts
      <4>2. ~lossy' => ~lossy /\ (taken[k] > 0 => file[k].status # "absent")
        BY <3>1
      <4>3. file'[k].used = IF file[k].status = "absent" THEN file[k].used
                              ELSE file[k].used + taken[k]
        BY <3>2
      <4>4. file'[k].used <= file[k].used + taken[k]
        BY <4>1, <4>3
      <4>5. ASSUME taken[k] > 0 => file[k].status # "absent"
            PROVE  file'[k].used = file[k].used + taken[k]
        BY <4>1, <4>3, <4>5
      <4> QED
        BY <4>2, <4>4, <4>5
    <3> QED
      BY <3>3, <3>4
  <2>2. CASE MergeFails
    <3>1. file' = file /\ lossy' = (lossy \/ taken # Zero)
      BY <2>2 DEF MergeFails
    <3>2. ~lossy' => ~lossy /\ \A k \in Keys : taken[k] = 0
      BY <3>1 DEF Zero
    <3>3. ASSUME NEW k \in Keys
          PROVE  /\ file'[k].used <= file[k].used + taken[k]
                 /\ taken[k] = 0 => file'[k].used = file[k].used + taken[k]
      BY <3>1 DEF UInv, Amounts
    <3>4. file' \in [Keys -> [status : {"absent", "on", "off"}, used : Nat]]
      BY <3>1 DEF UInv, Amounts
    <3> QED
      BY <3>2, <3>3, <3>4
  <2> QED
    BY <2>1, <2>2
<1>6. Amounts'
  BY <1>1, <1>2, <1>3, <1>5 DEF UInv, Amounts
<1>7. UsageAddsUp'
  BY <1>1, <1>2, <1>5 DEF UInv, Amounts, UsageAddsUp
<1> QED
  BY <1>4, <1>6, <1>7 DEF UInv

\* noteUsage bills a key and remembers the same tokens for the next flush.
LEMMA NoteUInv ==
    ASSUME UInv, NEW h \in Requests, who[h] \in Keys, NEW n \in 0 .. MaxUsed,
           NoteUsage(h, n)
    PROVE  UInv'
<1> DEFINE k == who[h]
<1>1. /\ billed[k] + n <= MaxUsed
      /\ delta' = [delta EXCEPT ![k] = @ + n]
      /\ billed' = [billed EXCEPT ![k] = @ + n]
      /\ late' = IF daemon = "stopping" THEN [late EXCEPT ![k] = @ + n] ELSE late
      /\ dirty' = TRUE
      /\ UNCHANGED <<file, daemon, taken, flusher, lossy>>
  BY DEF NoteUsage
<1>2. k \in Keys /\ n \in Nat
  BY ConstantsAssumption
<1> HIDE DEF k
<1>3. delta' \in [Keys -> Nat] /\ billed' \in [Keys -> Nat] /\ late' \in [Keys -> Nat]
  BY <1>1, <1>2 DEF UInv, Amounts
<1>4. ASSUME NEW q \in Keys
      PROVE  /\ delta'[q] = IF q = k THEN delta[q] + n ELSE delta[q]
             /\ billed'[q] = IF q = k THEN billed[q] + n ELSE billed[q]
             /\ late'[q] = IF q = k /\ daemon = "stopping" THEN late[q] + n ELSE late[q]
  BY <1>1 DEF UInv, Amounts
<1>5. Amounts'
  <2>1. ASSUME NEW q \in Keys
        PROVE  /\ file[q].used + taken[q] + delta'[q] <= billed'[q]
               /\ late'[q] <= billed'[q] /\ billed'[q] <= MaxUsed
    BY <1>1, <1>2, <1>4, ConstantsAssumption DEF UInv, Amounts
  <2> QED
    BY <1>1, <1>3, <2>1 DEF UInv, Amounts
<1>6. Phases'
  BY <1>1, <1>2, <1>4 DEF UInv, Amounts, Phases
<1>7. UsageAddsUp'
  BY <1>1, <1>2, <1>4 DEF UInv, Amounts, UsageAddsUp
<1> QED
  BY <1>5, <1>6, <1>7 DEF UInv

\* The process dies with what it had in memory.
LEMMA HaltUInv ==
    ASSUME UInv, Halt PROVE UInv'
<1>1. /\ \A k \in Keys : delta'[k] = 0 /\ taken'[k] = 0 /\ late'[k] = 0
      /\ delta' \in [Keys -> Nat] /\ taken' \in [Keys -> Nat] /\ late' \in [Keys -> Nat]
      /\ flusher' = "idle" /\ UNCHANGED <<file, billed>>
  BY DEF Halt, Zero
<1>2. ~lossy' => ~lossy /\ \A k \in Keys : delta[k] = 0 /\ taken[k] = 0
  BY DEF Halt, Zero
<1>3. Amounts' /\ Phases'
  BY <1>1 DEF UInv, Amounts, Phases
<1>4. UsageAddsUp'
  BY <1>1, <1>2 DEF UInv, Amounts, UsageAddsUp
<1> QED
  BY <1>3, <1>4 DEF UInv

\* Every step keeps the accounts.
LEMMA NextUInv ==
    ASSUME UInv, who \in [Requests -> Keys], [Next]_vars PROVE UInv'
<1>1. ASSUME NEW k \in Keys, ShellSaves(k) PROVE UInv'
  BY <1>1, SaveUInv
<1>2. CASE Killed \/ Exit
  BY <1>2, HaltUInv DEF Killed, Exit
<1>3. CASE Tick
  BY <1>3, TakeUInv DEF Tick, handlers, history
<1>4. CASE Merge \/ MergeFails
  BY <1>4, FlushedUInv
<1>5. CASE LastFlush
  <2>1. /\ daemon = "stopping" /\ flusher = "idle"
        /\ UNCHANGED <<file, daemon, billed, late, lossy>>
    BY <1>5 DEF LastFlush, history
  <2>2. CASE dirty
    BY <1>5, <2>1, <2>2, TakeUInv DEF LastFlush
  <2>3. CASE ~dirty
    <3>1. flusher' = "exit" /\ UNCHANGED <<delta, dirty, taken>>
      BY <1>5, <2>3 DEF LastFlush
    <3> QED
      BY <2>1, <2>3, <3>1 DEF UInv, Amounts, Phases, UsageAddsUp
  <2> QED
    BY <2>2, <2>3
<1>6. CASE UNCHANGED vars \/ BootLoad \/ BootStamp \/ Sigterm
  <2>1. UNCHANGED <<file, delta, dirty, taken, flusher, billed, late, lossy>>
    BY <1>6 DEF vars, BootLoad, BootStamp, Sigterm, handlers, usage, history
  <2>2. daemon = "stopping" => daemon' = daemon
    BY <1>6 DEF vars, BootLoad, BootStamp, Sigterm
  <2> QED
    BY <2>1, <2>2, SameUInv DEF UInv, Phases
<1>7. ASSUME NEW h \in Requests, Handle(h) PROVE UInv'
  <2>1. ASSUME NEW n \in 0 .. MaxUsed, NoteUsage(h, n) PROVE UInv'
    BY <2>1, NoteUInv
  <2>2. CASE ~\E n \in 0 .. MaxUsed : NoteUsage(h, n)
    <3>1. UNCHANGED <<file, daemon, usage, billed, late, lossy>>
      BY <1>7, <2>2 DEF Handle, Arrive, Load, LoadFails, Stamp, Acquire, TooMany, Refuse,
         Authorize, BodyFails, Deny, Forward, Audit, Abort, history
    <3> QED
      BY <3>1, SameUInv DEF usage
  <2> QED
    BY <2>1, <2>2
<1> QED
  BY <1>1, <1>2, <1>3, <1>4, <1>5, <1>6, <1>7 DEF Next

\* The parts of TypeOK that neither the slots nor the accounts say.
Typed ==
    /\ file \in [Keys -> Entry] /\ keys \in [Keys -> Entry]
    /\ mu \in Requests \cup {Nobody}
    /\ daemon \in {"down", "loaded", "up", "stopping"}
    /\ sem \in 0 .. MaxInFlight
    /\ who \in [Requests -> Keys]
    /\ snap \in [Requests -> Entry]

Flags ==
    /\ stamped \in BOOLEAN /\ statted \in BOOLEAN /\ missed \in BOOLEAN
    /\ dirty \in BOOLEAN /\ lossy \in BOOLEAN
    /\ allowed \in [Requests -> BOOLEAN] /\ misled \subseteq Requests

\* Every invariant of this half of the module.
GInv == Typed /\ Flags /\ SInv /\ UInv

\* Accounts that are in order make an entry of the type for every key.
LEMMA Entries ==
    ASSUME UInv PROVE file \in [Keys -> Entry]
<1>1. ASSUME NEW k \in Keys PROVE file[k] \in Entry
  BY ConstantsAssumption DEF UInv, Amounts, Entry
<1> QED
  BY <1>1 DEF UInv, Amounts

\* A request that holds a slot is counted.
LEMMA SlotHeld ==
    ASSUME SInv, NEW h \in Requests, at[h] \in Holding, sem \in 0 .. MaxInFlight
    PROVE  sem - 1 \in 0 .. MaxInFlight
<1>1. IsFiniteSet(Holders) /\ h \in Holders
  BY ConstantsAssumption, FS_Subset DEF Holders
<1>2. Cardinality(Holders) \in Nat /\ Cardinality(Holders \ {h}) = Cardinality(Holders) - 1
  BY <1>1, FS_RemoveElement, FS_CardinalityType
<1>3. Cardinality(Holders \ {h}) \in Nat
  BY <1>1, FS_RemoveElement, FS_CardinalityType
<1>4. sem = Cardinality(Holders)
  BY DEF SInv, SlotsAccounted, Holders
<1> QED
  BY <1>2, <1>3, <1>4, ConstantsAssumption

\* The steps of a handler keep the types.
LEMMA HandleTyped ==
    ASSUME GInv, NEW h \in Requests, Handle(h) PROVE Typed'
<1>1. UNCHANGED <<file, daemon>>
  BY DEF Handle, Arrive, Load, LoadFails, Stamp, Acquire, TooMany, Refuse, Authorize,
         BodyFails, Deny, Forward, NoteUsage, Audit, Abort, history
<1>2. keys' \in [Keys -> Entry] /\ mu' \in Requests \cup {Nobody}
  BY DEF Handle, Arrive, Load, LoadFails, Stamp, Acquire, TooMany, Refuse, Authorize,
         BodyFails, Deny, Forward, NoteUsage, Audit, Abort, store, GInv, Typed
<1>3. who' \in [Requests -> Keys]
  BY DEF Handle, Arrive, Load, LoadFails, Stamp, Acquire, TooMany, Refuse, Authorize,
         BodyFails, Deny, Forward, NoteUsage, Audit, Abort, Leave, GInv, Typed
<1>4. CASE Refuse(h) \/ BodyFails(h) \/ Deny(h) \/ Audit(h) \/ Abort(h)
  <2>1. /\ at[h] \in Holding /\ sem' = sem - 1
        /\ snap' = [snap EXCEPT ![h] = NoEntry]
    BY <1>4 DEF Refuse, BodyFails, Deny, Audit, Abort, Leave, Holding
  <2>2. NoEntry \in Entry
    BY ConstantsAssumption DEF NoEntry, Entry
  <2> QED
    BY <1>1, <1>2, <1>3, <2>1, <2>2, SlotHeld DEF GInv, Typed
<1>5. CASE Authorize(h)
  <2>1. sem' = sem /\ snap' = [snap EXCEPT ![h] = keys[who[h]]]
    BY <1>5 DEF Authorize
  <2> QED
    BY <1>1, <1>2, <1>3, <2>1 DEF GInv, Typed
<1>6. CASE Acquire(h)
  <2>1. sem < MaxInFlight /\ sem' = sem + 1 /\ snap' = snap
    BY <1>6 DEF Acquire
  <2> QED
    BY <1>1, <1>2, <1>3, <2>1, ConstantsAssumption DEF GInv, Typed
<1>7. CASE UNCHANGED <<sem, snap>>
  BY <1>1, <1>2, <1>3, <1>7 DEF GInv, Typed
<1> QED
  BY <1>4, <1>5, <1>6, <1>7 DEF Handle, Arrive, Load, LoadFails, Stamp, TooMany, Forward,
     NoteUsage

\* Every step keeps the types.
LEMMA NextTyped ==
    ASSUME GInv, UInv', [Next]_vars PROVE Typed'
<1>1. file' \in [Keys -> Entry]
  <2>1. ASSUME NEW k \in Keys PROVE file'[k] \in Entry
    BY ConstantsAssumption DEF UInv, Amounts, Entry
  <2> QED
    BY <2>1 DEF UInv, Amounts
<1>2. NoEntry \in Entry
  BY ConstantsAssumption DEF NoEntry, Entry
<1>3. CASE Killed \/ Exit
  <2>1. /\ keys' = [k \in Keys |-> NoEntry] /\ snap' = [h \in Requests |-> NoEntry]
        /\ daemon' = "down" /\ mu' = Nobody /\ sem' = 0 /\ who' = who
    BY <1>3 DEF Killed, Exit, Halt
  <2> QED
    BY <1>1, <1>2, <2>1, ConstantsAssumption DEF GInv, Typed
<1>4. CASE \/ UNCHANGED vars \/ BootLoad \/ BootStamp \/ Sigterm \/ Tick \/ LastFlush
           \/ Merge \/ MergeFails \/ \E k \in Keys : ShellSaves(k)
  <2>1. UNCHANGED <<sem, who, snap, mu>>
    BY <1>4 DEF vars, BootLoad, BootStamp, Sigterm, Tick, LastFlush, Merge, MergeFails,
       Flushed, ShellSaves, store, handlers
  <2>2. /\ keys' \in [Keys -> Entry]
        /\ daemon' \in {"down", "loaded", "up", "stopping"}
    BY <1>4 DEF vars, BootLoad, BootStamp, Sigterm, Tick, LastFlush, Merge, MergeFails,
       Flushed, ShellSaves, store, GInv, Typed
  <2> QED
    BY <1>1, <2>1, <2>2 DEF GInv, Typed
<1>5. ASSUME NEW h \in Requests, Handle(h) PROVE Typed'
  BY <1>5, HandleTyped
<1> QED
  BY <1>3, <1>4, <1>5 DEF Next

\* Every step keeps the types of the flags.
LEMMA NextFlags ==
    ASSUME Flags, [Next]_vars PROVE Flags'
<1>1. ASSUME NEW f, Replace(f)
      PROVE  /\ stamped' \in BOOLEAN /\ statted' \in BOOLEAN /\ missed' \in BOOLEAN
             /\ allowed' \in [Requests -> BOOLEAN]
  <2>1. allowed' \in [Requests -> BOOLEAN]
    BY <1>1 DEF Replace
  <2>2. missed' \in BOOLEAN
    BY <1>1 DEF Replace
  <2> QED
    BY <1>1, <2>1, <2>2 DEF Replace, Flags
<1>2. ASSUME NEW k \in Keys, ShellSaves(k) PROVE Flags'
  <2>1. (\E f : Replace(f)) /\ UNCHANGED <<dirty, misled>> /\ lossy' \in BOOLEAN
    BY <1>2 DEF ShellSaves, usage, Flags
  <2> QED
    BY <1>1, <2>1 DEF Flags
<1>3. CASE Merge \/ MergeFails
  <2>1. UNCHANGED <<dirty, misled>> /\ lossy' \in BOOLEAN
    BY <1>3 DEF Merge, MergeFails, Flushed, Flags
  <2>2. Replace(Added(file)) \/ UNCHANGED <<stamped, statted, missed, allowed>>
    BY <1>3 DEF Merge, MergeFails
  <2> QED
    BY <1>1, <2>1, <2>2 DEF Flags
<1>4. CASE Killed \/ Exit
  BY <1>4 DEF Killed, Exit, Halt, Flags
<1>5. CASE UNCHANGED vars \/ BootLoad \/ BootStamp \/ Sigterm \/ Tick \/ LastFlush
  BY <1>5 DEF vars, BootLoad, BootStamp, Sigterm, Tick, LastFlush, Take, store, usage,
     handlers, judged, history, Flags
<1>6. ASSUME NEW h \in Requests, Handle(h) PROVE Flags'
  <2>1. stamped' \in BOOLEAN /\ statted' \in BOOLEAN /\ missed' \in BOOLEAN
    BY <1>6 DEF Handle, Arrive, Load, LoadFails, Stamp, Acquire, TooMany, Refuse, Authorize,
       BodyFails, Deny, Forward, NoteUsage, Audit, Abort, store, Flags
  <2>2. dirty' \in BOOLEAN /\ lossy' \in BOOLEAN
    BY <1>6 DEF Handle, Arrive, Load, LoadFails, Stamp, Acquire, TooMany, Refuse, Authorize,
       BodyFails, Deny, Forward, NoteUsage, Audit, Abort, usage, history, Flags
  <2>3. allowed' \in [Requests -> BOOLEAN]
    BY <1>6 DEF Handle, Arrive, Load, LoadFails, Stamp, Acquire, TooMany, Refuse, Authorize,
       BodyFails, Deny, Forward, NoteUsage, Audit, Abort, Leave, judged, Flags,
       Allows, Enabled, WithinQuota
  <2>4. misled' \subseteq Requests
    BY <1>6 DEF Handle, Arrive, Load, LoadFails, Stamp, Acquire, TooMany, Refuse, Authorize,
       BodyFails, Deny, Forward, NoteUsage, Audit, Abort, Leave, judged, Flags
  <2> QED
    BY <2>1, <2>2, <2>3, <2>4 DEF Flags
<1> QED
  BY <1>2, <1>3, <1>4, <1>5, <1>6 DEF Next

\* The accounts hold in every reachable state, whatever the clock does.
THEOREM AccountsInductive == Spec => []GInv
<1>1. Init => GInv
  <2> SUFFICES ASSUME Init PROVE GInv
    OBVIOUS
  <2>1. UInv
    BY InitUInv
  <2>2. SInv
    <3>1. {h \in Requests : at[h] \in Holding} = {}
      BY DEF Init, Holding
    <3> QED
      BY <3>1, FS_EmptySet DEF Init, SInv, SlotsAccounted, Stages
  <2>3. NoEntry \in Entry
    BY ConstantsAssumption DEF NoEntry, Entry
  <2>4. keys \in [Keys -> Entry] /\ snap \in [Requests -> Entry]
    BY <2>3 DEF Init
  <2>5. file \in [Keys -> Entry]
    BY <2>1, Entries
  <2>6. Typed
    BY <2>4, <2>5, ConstantsAssumption DEF Init, Typed
  <2>7. Flags
    BY DEF Init, Flags
  <2> QED
    BY <2>1, <2>2, <2>6, <2>7 DEF GInv
<1>2. GInv /\ [Next]_vars => GInv'
  BY NextSInv, NextUInv, NextTyped, NextFlags DEF GInv, Typed
<1> QED
  BY <1>1, <1>2, PTL DEF Spec

\* Every variable of the daemon keeps its type, its bounds included: no key
\* is charged, in the file or in memory, more than was ever billed to it.
THEOREM TypeCorrect == Spec => []TypeOK
<1>1. GInv => TypeOK
  <2> SUFFICES ASSUME GInv PROVE TypeOK
    OBVIOUS
  <2>1. ASSUME NEW k \in Keys
        PROVE  /\ delta[k] \in 0 .. MaxUsed /\ taken[k] \in 0 .. MaxUsed
               /\ billed[k] \in 0 .. MaxUsed /\ late[k] \in 0 .. MaxUsed
    BY ConstantsAssumption DEF GInv, UInv, Amounts
  <2>2. /\ delta \in [Keys -> 0 .. MaxUsed] /\ taken \in [Keys -> 0 .. MaxUsed]
        /\ billed \in [Keys -> 0 .. MaxUsed] /\ late \in [Keys -> 0 .. MaxUsed]
    BY <2>1 DEF GInv, UInv, Amounts
  <2> QED
    BY <2>2 DEF GInv, Typed, Flags, SInv, UInv, Phases, TypeOK
<1> QED
  BY <1>1, AccountsInductive, PTL

\* Until a kill, an exit, a failed save or a deleted key loses usage, the
\* file, the flush under way and the daemon's memory add up to what was
\* billed: a flush charges nothing twice and drops nothing.
THEOREM NothingChargedTwice == Spec => []UsageAddsUp
<1>1. GInv => UsageAddsUp
  BY DEF GInv, UInv
<1> QED
  BY <1>1, AccountsInductive, PTL

\* When the daemon exits of its own accord, nothing noted before SIGTERM is
\* still in its memory.
THEOREM ShutdownFlushes == Spec => CleanExit
<1>1. GInv => (flusher = "exit" => \A k \in Keys : taken[k] = 0 /\ delta[k] <= late[k])
  BY DEF GInv, UInv, Phases
<1> QED
  BY <1>1, AccountsInductive, PTL DEF CleanExit
=============================================================================

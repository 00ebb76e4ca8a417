------------------------------ MODULE Gateway ------------------------------
(***************************************************************************)
(* The serve daemon (guard/proxy.go): the handlers of concurrent requests, *)
(* the hot reload of keys.json, the flush goroutine, start and shutdown,   *)
(* next to the shell commands that change keys.json under its feet.        *)
(*                                                                         *)
(* g.mu guards the fields of guard, but a handler works with a *KeyEntry   *)
(* it has looked up under the lock long after it has let go of it, and     *)
(* keys.json belongs to whoever saves it last.                             *)
(*                                                                         *)
(* Abstractions: saves are atomic here (AtomicWrite and KeyStore say what  *)
(* happens when they overlap).  A modification time is modelled by what    *)
(* the code does with it, a comparison with the time it has recorded:      *)
(* `stamped` says the two are equal now.  The clauses that depend on the   *)
(* request alone (policy, address, expiry, model, body) are choices.       *)
(* OPTIONS, /healthz and the panel's static files never reach this code.   *)
(***************************************************************************)
EXTENDS Naturals, FiniteSets

CONSTANTS
    Requests,       \* connections; each carries one request at a time
    Keys,           \* key ids
    MaxInFlight,    \* maxInFlight, the slots of g.sem
    Quota,          \* token_quota of every key; 0 is no limit
    MaxUsed         \* bound on the tokens billed to one key

ASSUME ConstantsAssumption ==
    /\ MaxInFlight \in Nat \ {0}
    /\ Quota \in Nat /\ MaxUsed \in Nat
    /\ IsFiniteSet(Requests)

Nobody == "nobody"      \* no request holds g.mu across a reload

ASSUME NobodyAssumption == Nobody \notin Requests

Entry == [status : {"absent", "on", "off"}, used : 0 .. MaxUsed]
NoEntry == [status |-> "absent", used |-> 0]
NewEntry == [status |-> "on", used |-> 0]

Stages == {"idle", "loading", "stamping", "entered", "holding", "authorized",
           "forwarding", "noted"}
Holding == {"holding", "authorized", "forwarding", "noted"}

VARIABLES
    file,       \* keys.json
    keys,       \* g.keys
    stamped,    \* g.mtimeKey is the modification time of keys.json
    statted,    \* the mtime a reload under way has read is still the file's
    missed,     \* history: a save or a failed read has slipped past the stamp,
                \* and nothing was loaded since
    mu,         \* the request that holds g.mu across a reload, or Nobody
    daemon,     \* down, loaded (newGuard has read the file), up, stopping
    sem,        \* slots taken in g.sem
    at,         \* where each request is in ServeHTTP
    who,        \* the key each request presents
    snap,       \* the *KeyEntry each request has looked up
    misled,     \* history: requests that could not learn that the file changed
    allowed,    \* history: keys.json has allowed the request since it came in
    delta, dirty, taken,    \* g.tokDelta, g.dirty, flush's tok
    flusher,    \* the flush goroutine: idle, between g.mu and the save, or leaving
    billed,     \* history: tokens noted for each key
    late,       \* history: those noted after SIGTERM
    lossy       \* history: usage was lost to a kill, an exit or a failed save

store == <<keys, stamped, statted, missed, mu>>
usage == <<delta, dirty, taken, flusher>>
judged == <<misled, allowed>>
handlers == <<sem, at, who, snap, judged>>
history == <<billed, late, lossy>>
vars == <<file, store, daemon, handlers, usage, history>>

Zero == [k \in Keys |-> 0]

TypeOK ==
    /\ file \in [Keys -> Entry]
    /\ keys \in [Keys -> Entry]
    /\ stamped \in BOOLEAN /\ statted \in BOOLEAN /\ missed \in BOOLEAN
    /\ mu \in Requests \cup {Nobody}
    /\ daemon \in {"down", "loaded", "up", "stopping"}
    /\ sem \in 0 .. MaxInFlight
    /\ at \in [Requests -> Stages]
    /\ who \in [Requests -> Keys]
    /\ snap \in [Requests -> Entry]
    /\ misled \subseteq Requests
    /\ delta \in [Keys -> 0 .. MaxUsed]
    /\ dirty \in BOOLEAN
    /\ taken \in [Keys -> 0 .. MaxUsed]
    /\ flusher \in {"idle", "merging", "final", "exit"}
    /\ billed \in [Keys -> 0 .. MaxUsed]
    /\ late \in [Keys -> 0 .. MaxUsed]
    /\ lossy \in BOOLEAN
    /\ allowed \in [Requests -> BOOLEAN]

Serving == daemon \in {"up", "stopping"}
Free == mu = Nobody

\* What ServeHTTP checks of the entry it has looked up, at two lines.
Enabled(e) == e.status = "on"
WithinQuota(e) == Quota = 0 \/ e.used < Quota
Allows(e) == Enabled(e) /\ WithinQuota(e)

\* The daemon is not running and nothing has been billed yet.
Init ==
    /\ file \in [Keys -> {NoEntry, NewEntry}]
    /\ keys = [k \in Keys |-> NoEntry]
    /\ stamped = FALSE /\ statted = FALSE /\ missed = FALSE
    /\ mu = Nobody
    /\ daemon = "down"
    /\ sem = 0
    /\ at = [h \in Requests |-> "idle"]
    /\ who \in [Requests -> Keys]
    /\ snap = [h \in Requests |-> NoEntry]
    /\ misled = {}
    /\ delta = Zero /\ dirty = FALSE /\ taken = Zero
    /\ flusher = "idle"
    /\ billed = Zero /\ late = Zero
    /\ lossy = FALSE
    /\ allowed = [h \in Requests |-> FALSE]

-----------------------------------------------------------------------------
\* keys.json is replaced by f, at whatever point the daemon is.  On a coarse
\* clock (jffs2 counts seconds) the new file may get the old one's time, and
\* the stamp of newGuard takes any time for that of what it has read.
Replace(f) ==
    /\ file' = f
    /\ \/ /\ stamped' = FALSE /\ statted' = FALSE
          /\ missed' = (daemon = "loaded")
       \/ /\ missed' = (stamped \/ statted \/ daemon = "loaded")
          /\ UNCHANGED <<stamped, statted>>
    /\ allowed' = [h \in Requests |->
                      at[h] # "idle" /\ (allowed[h] \/ Allows(f[who[h]]))]

\* key add, del, enable, disable, run by the page.
ShellSaves(k) ==
    /\ \/ /\ file[k].status = "absent" /\ billed[k] = 0
          /\ Replace([file EXCEPT ![k] = NewEntry])
          /\ UNCHANGED lossy
       \/ /\ file[k].status # "absent"
          /\ \/ /\ Replace([file EXCEPT ![k] = NoEntry])
                /\ lossy' = TRUE
             \/ \E s \in {"on", "off"} :
                   /\ Replace([file EXCEPT ![k].status = s])
                   /\ UNCHANGED lossy
    /\ UNCHANGED <<keys, mu, daemon, sem, at, who, snap, misled, usage, billed, late>>

-----------------------------------------------------------------------------
\* newGuard reads keys.json ...
BootLoad ==
    /\ daemon = "down"
    /\ daemon' = "loaded"
    /\ keys' = file
    /\ missed' = FALSE
    /\ UNCHANGED <<file, stamped, statted, mu, handlers, usage, history>>

\* ... and stampMtime records its modification time afterwards.
BootStamp ==
    /\ daemon = "loaded"
    /\ daemon' = "up"
    /\ stamped' = TRUE
    /\ UNCHANGED <<file, keys, statted, missed, mu, handlers, usage, history>>

\* The process is gone, its memory with it, its connections reset.
Halt ==
    /\ daemon' = "down"
    /\ keys' = [k \in Keys |-> NoEntry]
    /\ stamped' = FALSE /\ statted' = FALSE /\ missed' = FALSE
    /\ mu' = Nobody
    /\ sem' = 0
    /\ at' = [h \in Requests |-> "idle"]
    /\ snap' = [h \in Requests |-> NoEntry]
    /\ misled' = {}
    /\ allowed' = [h \in Requests |-> FALSE]
    /\ delta' = Zero /\ dirty' = FALSE /\ taken' = Zero
    /\ flusher' = "idle"
    /\ late' = Zero
    /\ lossy' = (lossy \/ delta # Zero \/ taken # Zero)
    /\ UNCHANGED <<file, who, billed>>

\* kill -9: the stop script gives the daemon one second.
Killed == daemon # "down" /\ Halt

\* SIGTERM reaches the flush goroutine; handlers keep running until it exits.
Sigterm ==
    /\ daemon = "up"
    /\ daemon' = "stopping"
    /\ UNCHANGED <<file, store, handlers, usage, history>>

-----------------------------------------------------------------------------
\* Variant of Take: the deltas are copied and not reset.
TakeCopy ==
    /\ taken' = delta
    /\ dirty' = FALSE
    /\ UNCHANGED delta

\* flush, the part under g.mu.
Take ==
    /\ taken' = delta
    /\ delta' = Zero
    /\ dirty' = FALSE

\* The ticker: nothing is saved when nothing was noted.
Tick ==
    /\ Serving /\ flusher = "idle" /\ Free
    /\ dirty
    /\ Take
    /\ flusher' = "merging"
    /\ UNCHANGED <<file, store, daemon, handlers, history>>

Added(f) == [k \in Keys |->
    IF f[k].status = "absent" THEN f[k] ELSE [f[k] EXCEPT !.used = @ + taken[k]]]

\* The flush is over; the last one is followed by os.Exit.
Flushed ==
    /\ flusher \in {"merging", "final"}
    /\ taken' = Zero
    /\ flusher' = IF flusher = "final" THEN "exit" ELSE "idle"
    /\ UNCHANGED <<keys, mu, daemon, sem, at, who, snap, misled, delta, dirty, billed, late>>

\* flush, the part after g.mu: keys.json is read again and saved.
Merge ==
    /\ Flushed
    /\ Replace(Added(file))
    /\ lossy' = (lossy \/ \E k \in Keys : taken[k] > 0 /\ file[k].status = "absent")

\* The read or the save fails, and nobody retries.
MergeFails ==
    /\ Flushed
    /\ lossy' = (lossy \/ taken # Zero)
    /\ UNCHANGED <<file, stamped, statted, missed, allowed>>

\* Variant of LastFlush: os.Exit at once.
ExitAtOnce ==
    /\ daemon = "stopping" /\ flusher = "idle" /\ Free
    /\ flusher' = "exit"
    /\ UNCHANGED <<delta, dirty, taken, file, store, daemon, handlers, history>>

\* The stop case of the select: one last flush, then os.Exit.
LastFlush ==
    /\ daemon = "stopping" /\ flusher = "idle" /\ Free
    /\ IF dirty
         THEN Take /\ flusher' = "final"
         ELSE flusher' = "exit" /\ UNCHANGED <<delta, dirty, taken>>
    /\ UNCHANGED <<file, store, daemon, handlers, history>>

Exit == flusher = "exit" /\ Halt

-----------------------------------------------------------------------------
Goto(h, stage) == at' = [at EXCEPT ![h] = stage]

\* The handler returns or panics; its deferred function frees the slot.
Leave(h) ==
    /\ Goto(h, "idle")
    /\ sem' = sem - 1
    /\ snap' = [snap EXCEPT ![h] = NoEntry]
    /\ misled' = misled \ {h}
    /\ allowed' = [allowed EXCEPT ![h] = FALSE]
    /\ UNCHANGED who

\* A request comes in and takes g.mu in reloadIfChanged: os.Stat.  A time
\* that is the recorded one, and a stat that fails, leave the store alone.
Arrive(h, k) ==
    /\ Serving /\ Free
    /\ at[h] = "idle"
    /\ who' = [who EXCEPT ![h] = k]
    /\ allowed' = [allowed EXCEPT ![h] = Allows(file[k])]
    /\ \/ /\ ~stamped
          /\ Goto(h, "loading") /\ statted' = TRUE /\ mu' = h
          /\ UNCHANGED misled
       \/ /\ Goto(h, "entered")
          /\ misled' = IF stamped /\ ~missed THEN misled ELSE misled \cup {h}
          /\ UNCHANGED <<statted, mu>>
    /\ UNCHANGED <<file, keys, stamped, missed, daemon, sem, snap, usage, history>>

\* loadKeys, still under g.mu.
Load(h) ==
    /\ at[h] = "loading"
    /\ keys' = file
    /\ missed' = FALSE
    /\ Goto(h, "stamping")
    /\ UNCHANGED <<file, stamped, statted, mu, daemon, sem, who, snap, judged, usage,
                   history>>

\* loadKeys fails: the daemon goes on with the keys it has, and the time is
\* recorded all the same.
LoadFails(h) ==
    /\ at[h] = "loading"
    /\ missed' = statted
    /\ misled' = misled \cup {h}
    /\ Goto(h, "stamping")
    /\ UNCHANGED <<file, keys, stamped, statted, mu, daemon, sem, who, snap, allowed,
                   usage, history>>

\* Variant of Stamp: the file is looked at again.
StampAsOfNow(h) ==
    /\ at[h] = "stamping"
    /\ stamped' = TRUE
    /\ statted' = FALSE
    /\ mu' = Nobody
    /\ Goto(h, "entered")
    /\ UNCHANGED <<file, keys, missed, daemon, sem, who, snap, judged, usage, history>>

\* The time os.Stat had seen is recorded, loaded or not, and g.mu released.
Stamp(h) ==
    /\ at[h] = "stamping"
    /\ stamped' = statted
    /\ statted' = FALSE
    /\ mu' = Nobody
    /\ Goto(h, "entered")
    /\ UNCHANGED <<file, keys, missed, daemon, sem, who, snap, judged, usage, history>>

\* Variant of Acquire, without the default case of the select.
AcquireAnyway(h) ==
    /\ at[h] = "entered"
    /\ sem' = sem + 1
    /\ Goto(h, "holding")
    /\ UNCHANGED <<file, store, daemon, who, snap, judged, usage, history>>

\* A slot of g.sem.
Acquire(h) ==
    /\ at[h] = "entered"
    /\ sem < MaxInFlight
    /\ sem' = sem + 1
    /\ Goto(h, "holding")
    /\ UNCHANGED <<file, store, daemon, who, snap, judged, usage, history>>

\* 503, without a record in the audit log.
TooMany(h) ==
    /\ at[h] = "entered"
    /\ sem = MaxInFlight
    /\ Goto(h, "idle")
    /\ misled' = misled \ {h}
    /\ allowed' = [allowed EXCEPT ![h] = FALSE]
    /\ UNCHANGED <<file, store, daemon, sem, who, snap, usage, history>>

\* 401 or 403 by policy, key or address, with its audit record.
Refuse(h) ==
    /\ at[h] = "holding" /\ Free
    /\ Leave(h)
    /\ UNCHANGED <<file, store, daemon, usage, history>>

\* Variant of Authorize, without the test of k.Enabled.
AuthorizeAnyKey(h) ==
    /\ at[h] = "holding" /\ Free
    /\ snap' = [snap EXCEPT ![h] = keys[who[h]]]
    /\ Goto(h, "authorized")
    /\ UNCHANGED <<file, store, daemon, sem, who, judged, usage, history>>

\* findKey returns an enabled entry; the handler keeps the pointer.
Authorize(h) ==
    /\ at[h] = "holding" /\ Free
    /\ Enabled(keys[who[h]])
    /\ snap' = [snap EXCEPT ![h] = keys[who[h]]]
    /\ Goto(h, "authorized")
    /\ UNCHANGED <<file, store, daemon, sem, who, judged, usage, history>>

\* 400 or 413 after reading the body, without an audit record.
BodyFails(h) ==
    /\ at[h] = "authorized"
    /\ Leave(h)
    /\ UNCHANGED <<file, store, daemon, usage, history>>

\* 403 by model or 429 by quota, with its audit record.
Deny(h) ==
    /\ at[h] = "authorized"
    /\ Leave(h)
    /\ UNCHANGED <<file, store, daemon, usage, history>>

\* The body has been read, as slowly as the client cared to send it, and the
\* quota is checked on the entry looked up before that.
Forward(h) ==
    /\ at[h] = "authorized"
    /\ WithinQuota(snap[h])
    /\ Goto(h, "forwarding")
    /\ UNCHANGED <<file, store, daemon, sem, who, snap, judged, usage, history>>

\* Variant of NoteUsage, without g.dirty = true.
NoteQuietly(h, n) ==
    /\ at[h] = "forwarding" /\ Free
    /\ billed[who[h]] + n <= MaxUsed
    /\ delta' = [delta EXCEPT ![who[h]] = @ + n]
    /\ billed' = [billed EXCEPT ![who[h]] = @ + n]
    /\ Goto(h, "noted")
    /\ UNCHANGED <<file, store, daemon, sem, who, snap, judged, dirty, taken, flusher,
                   late, lossy>>

\* The upstream has answered, or could not be reached (502, no tokens), and
\* noteUsage bills the tokens found at the end of the answer.
NoteUsage(h, n) ==
    /\ at[h] = "forwarding" /\ Free
    /\ LET k == who[h] IN
          /\ billed[k] + n <= MaxUsed
          /\ delta' = [delta EXCEPT ![k] = @ + n]
          /\ billed' = [billed EXCEPT ![k] = @ + n]
          /\ late' = IF daemon = "stopping" THEN [late EXCEPT ![k] = @ + n] ELSE late
    /\ dirty' = TRUE
    /\ Goto(h, "noted")
    /\ UNCHANGED <<file, store, daemon, sem, who, snap, judged, taken, flusher, lossy>>

\* appendAudit, and the handler returns.
Audit(h) ==
    /\ at[h] = "noted"
    /\ Leave(h)
    /\ UNCHANGED <<file, store, daemon, usage, history>>

\* Variant of Abort: no deferred function frees the slot.
AbortKeepsSlot(h) ==
    /\ at[h] = "forwarding"
    /\ Goto(h, "idle")
    /\ snap' = [snap EXCEPT ![h] = NoEntry]
    /\ UNCHANGED <<file, store, daemon, sem, who, judged, usage, history>>

\* The client, or the upstream, goes away in the middle of the answer:
\* ReverseProxy panics with ErrAbortHandler, and nothing after
\* g.proxy.ServeHTTP runs.
Abort(h) ==
    /\ at[h] = "forwarding"
    /\ Leave(h)
    /\ UNCHANGED <<file, store, daemon, usage, history>>

Handle(h) ==
    \/ \E k \in Keys : Arrive(h, k)
    \/ Load(h) \/ LoadFails(h) \/ Stamp(h)
    \/ Acquire(h) \/ TooMany(h)
    \/ Refuse(h) \/ Authorize(h)
    \/ BodyFails(h) \/ Deny(h) \/ Forward(h)
    \/ \E n \in 0 .. MaxUsed : NoteUsage(h, n)
    \/ Audit(h) \/ Abort(h)

Next ==
    \/ \E k \in Keys : ShellSaves(k)
    \/ BootLoad \/ BootStamp \/ Killed \/ Sigterm
    \/ Tick \/ Merge \/ MergeFails \/ LastFlush \/ Exit
    \/ \E h \in Requests : Handle(h)

Spec == Init /\ [][Next]_vars

\* The ticker keeps ticking and its flush gets g.mu however often requests
\* take it (sync.Mutex hands itself to a waiter that starves), the flush runs
\* to its end, and a reload under g.mu reads one small file.  Nothing is
\* assumed of clients, of the upstream, or of anyone who starts and stops the
\* daemon.
Fairness ==
    /\ SF_vars(Tick)
    /\ WF_vars(Merge \/ MergeFails)
    /\ \A h \in Requests : WF_vars(Load(h) \/ LoadFails(h) \/ Stamp(h))

FairSpec == Spec /\ Fairness

-----------------------------------------------------------------------------
\* Every slot of g.sem is held by one request inside ServeHTTP and comes back
\* on every way out, refusals, panics and restarts included.
SlotsAccounted == sem = Cardinality({h \in Requests : at[h] \in Holding})

\* What reloadIfChanged takes for current is current, however saves fall
\* between the stat, the load and the stamp of a reload: when the recorded
\* time is the file's, what the daemon has in memory is what the file says.
\* Excepted is the time from a change that slipped by to the next load: a save
\* between the two halves of newGuard, one that got the time of the file
\* before it, one whose file could not be read.
ReloadMissesNothing == Serving /\ stamped /\ ~missed => keys = file

\* A request that comes in after its key was disabled, deleted or found over
\* its quota in keys.json is not forwarded: when it reaches the upstream, the
\* file has allowed it at some moment since it came in.  Excepted are requests
\* that came in while a change had slipped by, or whose own stat or load failed.
NoStaleForward ==
    \A h \in Requests \ misled : at[h] = "forwarding" => allowed[h]

\* A clean shutdown loses only what was noted after SIGTERM.
CleanExit ==
    [][flusher = "exit" /\ flusher' # "exit" =>
          \A k \in Keys : taken[k] = 0 /\ delta[k] <= late[k]]_vars

\* No double charge and no leak inside the daemon: until usage is lost to a
\* kill, an exit, a failed save or a deleted key, file, flush and memory add
\* up to what was billed.
UsageAddsUp ==
    ~lossy => \A k \in Keys : file[k].used + taken[k] + delta[k] = billed[k]

\* Billed tokens reach keys.json, where the quota is checked, however long
\* the requests around them hang.
UsageReachesFile ==
    \A k \in Keys : billed[k] > 0 ~> file[k].used = billed[k] \/ lossy \/ daemon # "up"
=============================================================================

------------------------------ MODULE KeyStore ------------------------------
(***************************************************************************)
(* keys.json and the processes that change it: one short-lived process per *)
(* `wb2api-ctl key add|del|enable|disable` the page runs (guard/keys.go),  *)
(* and the flush of the serve daemon (guard/proxy.go), which adds the      *)
(* tokens it has billed since the last flush.  Each of them reads the      *)
(* file, changes the store in memory and saves it with atomicWrite; no     *)
(* lock spans the read and the save, or even two saves.                    *)
(*                                                                         *)
(* Abstractions: of a key entry the model keeps whether it is there, its   *)
(* enabled bit and token_used; names, limits, hashes and last_used_at are  *)
(* left out.  A command that finds nothing to do (unknown id, unreadable   *)
(* file) exits with an error and changes nothing, so it is no step.        *)
(***************************************************************************)
EXTENDS Naturals

CONSTANTS
    Keys,           \* key ids; randomHex never repeats one
    Cmds,           \* `wb2api-ctl key` processes
    Flusher,        \* the serve daemon's flush goroutine
    StoreSize(_),   \* length of a store's JSON text
    InitStores,     \* stores an earlier run may have left
    MaxBilled,      \* bound on the tokens billed to one key
    Inodes, NoInode, Junk

Entry == [status : {"absent", "on", "off"}, used : 0 .. MaxBilled]
NoEntry == [status |-> "absent", used |-> 0]
Stores == [Keys -> Entry]
EmptyStore == [k \in Keys |-> NoEntry]
Writers == Cmds \cup {Flusher}
Jobs == [subject : Keys \cup {Junk}, store : Stores]

ASSUME StoreSizeAssumption == \A s \in Stores : StoreSize(s) \in Nat \ {0}
ASSUME InitStoresAssumption ==      \* what is not there has used nothing
    InitStores \subseteq
        {s \in Stores : \A k \in Keys : s[k].status = "absent" => s[k].used = 0}
ASSUME ConstantsAssumption ==
    /\ MaxBilled \in Nat
    /\ Flusher \notin Cmds
    /\ NoInode \notin Inodes
    /\ Junk \notin Stores /\ Junk \notin Jobs

VARIABLES
    inode, durable, target, tmp, pc, fd, doc, result, crowded, suspect,
    job,        \* per process: the store it has changed in memory and saves
    delta,      \* g.tokDelta: tokens billed since the last flush
    dirty,      \* g.dirty
    taken,      \* flush's tok: deltas taken out of g, not yet added to a store
    flushing,   \* flush is between taking the deltas and reading the file
    issued,     \* history: ids handed out by key add
    billed,     \* history: tokens billed to each key, ever
    promised,   \* history: what the last acknowledged command on a key said
    raced,      \* history: two read-change-save sequences have overlapped
    dropped     \* history: a flush failed, or the daemon died

keysFile == <<inode, durable, target, tmp, pc, fd, doc, result, crowded, suspect>>
usage == <<delta, dirty, taken, flushing>>
vars == <<keysFile, usage, job, issued, billed, promised, raced, dropped>>

\* keys.json, saved by the commands and the flush through atomicWrite.
File == INSTANCE AtomicWrite WITH Docs <- Stores, Size <- StoreSize

Zero == [k \in Keys |-> 0]
Idle(w) == job[w] = Junk

TypeOK ==
    /\ File!TypeOK
    /\ job \in [Writers -> Jobs \cup {Junk}]
    /\ delta \in [Keys -> Nat]
    /\ dirty \in BOOLEAN
    /\ taken \in [Keys -> Nat]
    /\ flushing \in BOOLEAN
    /\ issued \subseteq Keys
    /\ billed \in [Keys -> 0 .. MaxBilled]
    /\ promised \in [Keys -> {"none", "on", "off", "gone"}]
    /\ raced \in BOOLEAN
    /\ dropped \in BOOLEAN

-----------------------------------------------------------------------------
\* loadKeys: a missing file is an empty store; what does not parse is an
\* error, and nothing may be done with it.
Missing == target = NoInode
Readable == ~Missing => File!Whole(inode[target])
OnFile == IF Missing THEN EmptyStore ELSE inode[target].doc

Init ==
    \E s \in InitStores :
       /\ target \in Inodes \cup {NoInode}
       /\ target = NoInode => s = EmptyStore
       /\ inode = [i \in Inodes |->
                      IF i = target THEN File!WholeDoc(s) ELSE File!Empty]
       /\ tmp \in {NoInode} \cup (Inodes \ {target})
       /\ durable = Inodes
       /\ pc = [w \in Writers |-> "idle"]
       /\ fd = [w \in Writers |-> NoInode]
       /\ doc = [w \in Writers |-> Junk]
       /\ result = [w \in Writers |-> "none"]
       /\ crowded = {}
       /\ suspect = FALSE
       /\ job = [w \in Writers |-> Junk]
       /\ delta = Zero
       /\ dirty = FALSE
       /\ taken = Zero
       /\ flushing = FALSE
       /\ issued = {k \in Keys : s[k].status # "absent"}
       /\ billed = [k \in Keys |-> s[k].used]
       /\ promised = [k \in Keys |->
                         IF s[k].status = "absent" THEN "none" ELSE s[k].status]
       /\ raced = FALSE
       /\ dropped = FALSE

\* w has read the file and is about to save s in its place.
Plan(w, k, s) ==
    /\ job' = [job EXCEPT ![w] = [subject |-> k, store |-> s]]
    /\ raced' = (raced \/ \E v \in Writers : ~Idle(v))

\* key add: an entry with a fresh id is appended.
AddKey(c, k) ==
    /\ Idle(c) /\ Readable
    /\ k \notin issued
    /\ issued' = issued \cup {k}
    /\ Plan(c, k, [OnFile EXCEPT ![k] = [status |-> "on", used |-> 0]])
    /\ UNCHANGED <<keysFile, usage, billed, promised, dropped>>

\* key enable, key disable.
SetKey(c, k, status) ==
    /\ Idle(c) /\ Readable
    /\ OnFile[k].status # "absent"
    /\ Plan(c, k, [OnFile EXCEPT ![k].status = status])
    /\ UNCHANGED <<keysFile, usage, issued, billed, promised, dropped>>

\* key del.
DelKey(c, k) ==
    /\ Idle(c) /\ Readable
    /\ OnFile[k].status # "absent"
    /\ Plan(c, k, [OnFile EXCEPT ![k] = NoEntry])
    /\ UNCHANGED <<keysFile, usage, issued, billed, promised, dropped>>

\* noteUsage: a request made with a key some client holds has ended, maybe
\* long after the key was deleted.
Bill(k, n) ==
    /\ promised[k] # "none"
    /\ billed[k] + n <= MaxBilled
    /\ delta' = [delta EXCEPT ![k] = @ + n]
    /\ dirty' = TRUE
    /\ billed' = [billed EXCEPT ![k] = @ + n]
    /\ UNCHANGED <<keysFile, taken, flushing, job, issued, promised, raced, dropped>>

\* Variant of Take: the deltas are copied and not reset.
TakeCopy ==
    /\ Idle(Flusher) /\ ~flushing
    /\ dirty
    /\ taken' = delta
    /\ flushing' = TRUE
    /\ UNCHANGED <<keysFile, delta, dirty, job, issued, billed, promised, raced, dropped>>

\* flush, under g.mu: the deltas leave the daemon's memory.
Take ==
    /\ Idle(Flusher) /\ ~flushing
    /\ dirty
    /\ taken' = delta
    /\ delta' = Zero
    /\ dirty' = FALSE
    /\ flushing' = TRUE
    /\ UNCHANGED <<keysFile, job, issued, billed, promised, raced, dropped>>

\* Variant of Merge: the deltas replace what the entries say.
MergeReplaces ==
    /\ flushing /\ Readable
    /\ Plan(Flusher, Junk, [k \in Keys |->
          IF OnFile[k].status = "absent" THEN OnFile[k]
          ELSE [OnFile[k] EXCEPT !.used = taken[k]]])
    /\ taken' = Zero
    /\ flushing' = FALSE
    /\ UNCHANGED <<keysFile, delta, dirty, issued, billed, promised, dropped>>

\* Variant of Merge: a delta without an entry gets one.
MergeInserts ==
    /\ flushing /\ Readable
    /\ Plan(Flusher, Junk, [k \in Keys |->
          [status |-> IF taken[k] > 0 THEN "on" ELSE OnFile[k].status,
           used |-> OnFile[k].used + taken[k]]])
    /\ taken' = Zero
    /\ flushing' = FALSE
    /\ UNCHANGED <<keysFile, delta, dirty, issued, billed, promised, dropped>>

\* flush, after g.mu: the deltas are added to the entries still on file.
Merge ==
    /\ flushing /\ Readable
    /\ Plan(Flusher, Junk, [k \in Keys |->
          IF OnFile[k].status = "absent" THEN OnFile[k]
          ELSE [OnFile[k] EXCEPT !.used = @ + taken[k]]])
    /\ taken' = Zero
    /\ flushing' = FALSE
    /\ UNCHANGED <<keysFile, delta, dirty, issued, billed, promised, dropped>>

\* loadKeys fails in flush: the deltas it has taken are gone.
MergeFails ==
    /\ flushing /\ ~Readable
    /\ taken' = Zero
    /\ flushing' = FALSE
    /\ dropped' = TRUE
    /\ UNCHANGED <<keysFile, delta, dirty, job, issued, billed, promised, raced>>

\* saveKeys, step by step; when it returns nil a command reports success.
\* A flush that fails reports to nobody.
Save(w) ==
    /\ ~Idle(w)
    /\ \/ File!Open(w, job[w].store)
       \/ File!OpenFails(w)
       \/ File!Step(w)
    /\ IF pc'[w] # "idle"
         THEN UNCHANGED <<job, promised, dropped>>
         ELSE /\ job' = [job EXCEPT ![w] = Junk]
              /\ promised' = IF w \in Cmds /\ result'[w] = "ok"
                    THEN [promised EXCEPT ![job[w].subject] =
                             IF job[w].store[job[w].subject].status = "absent"
                               THEN "gone"
                               ELSE job[w].store[job[w].subject].status]
                    ELSE promised
              /\ dropped' = (dropped \/ (w = Flusher /\ result'[w] = "err"))
    /\ UNCHANGED <<usage, issued, billed, raced>>

\* Process w is gone, at whatever line it was.
Gone(w) ==
    /\ IF File!Busy(w) THEN File!Kill(w) ELSE UNCHANGED keysFile
    /\ job' = [job EXCEPT ![w] = Junk]

\* A command is killed: the stop script kills every wb2api-ctl there is.
CmdDies(c) ==
    /\ ~Idle(c)
    /\ Gone(c)
    /\ UNCHANGED <<usage, issued, billed, promised, raced, dropped>>

ForgetUsage ==
    /\ delta' = Zero
    /\ dirty' = FALSE
    /\ taken' = Zero
    /\ flushing' = FALSE
    /\ dropped' = TRUE

\* The daemon is killed or exits; the watchdog or the user starts a new one.
ServeDies ==
    /\ dirty \/ flushing \/ ~Idle(Flusher)
    /\ Gone(Flusher)
    /\ ForgetUsage
    /\ UNCHANGED <<issued, billed, promised, raced>>

PowerLoss ==
    /\ File!PowerLoss
    /\ job' = [w \in Writers |-> Junk]
    /\ ForgetUsage
    /\ UNCHANGED <<issued, billed, promised, raced>>

Next ==
    \/ \E c \in Cmds, k \in Keys :
          \/ AddKey(c, k)
          \/ DelKey(c, k)
          \/ \E status \in {"on", "off"} : SetKey(c, k, status)
    \/ \E k \in Keys, n \in 0 .. MaxBilled : Bill(k, n)
    \/ Take \/ Merge \/ MergeFails
    \/ \E w \in Writers : Save(w)
    \/ \E c \in Cmds : CmdDies(c)
    \/ ServeDies \/ PowerLoss

Spec == Init /\ [][Next]_vars

-----------------------------------------------------------------------------
\* No token is ever charged twice: whatever commands, flushes, kills and
\* power losses are interleaved, what keys.json says a key has used, with
\* what the daemon still has to add, is at most what was billed to it.
NeverOverbilled ==
    Readable => \A k \in Keys :
       OnFile[k].used + delta[k] + taken[k] <= billed[k]

\* What the next reader will find once the flush under way is done.
Settled == IF Idle(Flusher) THEN OnFile ELSE job[Flusher].store

\* As long as read-change-save sequences do not overlap and no flush fails,
\* no token is lost either: the entry of a live key and the daemon's memory
\* add up to exactly what was billed.
UsageExact ==
    ~raced /\ ~dropped =>
       /\ Readable
       /\ \A k \in Keys : promised[k] \in {"on", "off"} =>
             Settled[k].used + delta[k] + taken[k] = billed[k]

\* As long as read-change-save sequences do not overlap, every acknowledged
\* command stays in effect until the next one on the same key, through
\* flushes, failed saves, kills and power losses.
CommandsStick ==
    ~raced =>
       /\ Readable
       /\ \A k \in Keys :
             OnFile[k].status =
                IF promised[k] \in {"none", "gone"} THEN "absent" ELSE promised[k]
=============================================================================

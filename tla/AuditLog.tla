------------------------------ MODULE AuditLog ------------------------------
(***************************************************************************)
(* guard/audit.go and the audit part of guard/proxy.go: each answered      *)
(* request appends one line to <data>/audit/audit-<day>.jsonl.  A handler  *)
(* that finds the file over its limit first renames it to                  *)
(* audit-<day>.<unix second>.jsonl.  A goroutine of the daemon (and the    *)
(* command `log clean`) removes the files of old days; `log tail` and      *)
(* `log stat` list the directory and then read file after file.            *)
(*                                                                         *)
(* Nothing locks the directory: handlers, the cleaner and a query run side *)
(* by side, and every system call of theirs is a step of its own.          *)
(*                                                                         *)
(* Abstractions: a file is the sequence of its lines, each of one unit of  *)
(* size; a line is a record, or Torn when its write stopped short.  A      *)
(* descriptor follows its file through a rename, so it is represented by   *)
(* the file's present name, or Gone when the file has none any more.       *)
(* AuditRecord is reduced to an identity and its TS.                       *)
(***************************************************************************)
EXTENDS Integers, Sequences, FiniteSets, Functions, SequencesExt

CONSTANTS
    Handlers,     \* requests being answered, at most g.sem of them
    Cleaners,     \* the gc goroutine, runs of `log clean`
    Readers,      \* runs of `log tail` and `log stat`
    MaxSize,      \* WB_AUDIT_MAX_MB in lines; 0 turns rotation off
    Keep,         \* WB_AUDIT_DAYS
    QueryDays,    \* --days of the query
    DayLength,    \* seconds in a day
    MaxPerSecond, \* lines written within one second
    MaxTime,      \* bound: the clock stops here
    MaxRecords,   \* bound: requests answered
    MaxFaults,    \* bound: failed calls, kills, power losses
    Live,         \* the stamp of audit-<day>.jsonl, which has none
    Gone,         \* the file of a descriptor that has no name any more
    Torn          \* a line whose write stopped short

\* A limit of 1 MB and more is thousands of lines: not written in a second.
ASSUME RateAssumption ==
    /\ MaxSize \in Nat /\ MaxPerSecond \in Nat
    /\ MaxSize > 0 => MaxPerSecond <= MaxSize
ASSUME ClockAssumption ==
    /\ DayLength \in Nat \ {0} /\ MaxTime \in Nat
    /\ Keep \in Nat /\ QueryDays \in Nat \ {0}
ASSUME LiveAssumption == Live \notin 0..MaxTime
ASSUME BoundsAssumption ==
    MaxRecords \in Nat /\ MaxFaults \in Nat /\ IsFiniteSet(Handlers)

VARIABLES
    now,        \* the wall clock, in seconds
    file,       \* the directory: the lines of each name that exists
    pc,         \* where each handler is in appendAudit
    rec,        \* the record each handler appends
    fd,         \* the file each handler has open
    doomed,     \* names each cleaner has still to remove
    query,      \* [at, left, got]: each reader, the names it has still to
                \* read and the records it has collected
    issued,     \* records made so far
    faults,     \* faults so far
    rate,       \* lines written in this second
    written,    \* history: records whose write returned nil
    cut,        \* history: records a power loss has taken
    raced,      \* history: days whose file two handlers rotated at once
    stuck,      \* history: renames that failed
    due,        \* history: records in files when each reader listed
    disturbed   \* history: readers whose listing has gone stale since

work == <<pc, rec, fd>>
history == <<written, cut, raced, stuck, due, disturbed>>
vars == <<now, file, work, doomed, query, issued, faults, rate, history>>

Day(t) == t \div DayLength
Days == 0..Day(MaxTime)
Names == [day : Days, stamp : (0..MaxTime) \cup {Live}]
Records == [id : 1..MaxRecords, ts : 0..MaxTime]
Lines == Records \cup {Torn}

ASSUME OthersAssumption == Gone \notin Names /\ Torn \notin Records

\* auditFile: the day is that of the record, not of the moment it is written.
AuditFile(r) == [day |-> Day(r.ts), stamp |-> Live]

\* The name a file is rotated to: its day and the second of the rename.
Rotated(n) == [n EXCEPT !.stamp = now]

Exists(n) == n \in DOMAIN file
LinesOf(n) == IF Exists(n) THEN file[n] ELSE <<>>

\* Descending order of the names: '.' sorts below digits and letters, so the
\* live file of a day comes first, then its newest copy.
NewerName(m, n) ==
    \/ m.day > n.day
    \/ /\ m.day = n.day
       /\ n.stamp # Live
       /\ m.stamp = Live \/ m.stamp > n.stamp

\* What a json.Decoder yields: the lines before the first torn one.
Readable(lines) ==
    {lines[i] : i \in {j \in DOMAIN lines : \A k \in 1..j : lines[k] # Torn}}
Stored == (UNION {ToSet(file[n]) : n \in DOMAIN file}) \ {Torn}

Inside(h) == pc[h] # "idle"

Queries ==
    [at : {"idle", "reading", "done"}, left : SUBSET Names, got : Seq(Records)]

TypeOK ==
    /\ now \in 0..MaxTime
    /\ DOMAIN file \subseteq Names /\ file \in [DOMAIN file -> Seq(Lines)]
    /\ pc \in [Handlers -> {"idle", "answering", "rotate", "open", "write"}]
    /\ rec \in [Handlers -> Lines]
    /\ \A h \in Handlers : Inside(h) => rec[h] \in Records
    /\ fd \in [Handlers -> Names \cup {Gone}]
    /\ doomed \in [Cleaners -> SUBSET Names]
    /\ query \in [Readers -> Queries]
    /\ due \in [Readers -> SUBSET Records] /\ disturbed \subseteq Readers
    /\ issued \in 0..MaxRecords /\ faults \in 0..MaxFaults
    /\ rate \in 0..MaxPerSecond /\ stuck \in 0..faults
    /\ written \cup cut \subseteq Records
    /\ raced \subseteq Days

NoQuery == [at |-> "idle", left |-> {}, got |-> <<>>]
NoFiles == [n \in {} |-> <<>>]

Init ==
    /\ now = 0
    /\ file = NoFiles
    /\ pc = [h \in Handlers |-> "idle"]
    /\ rec = [h \in Handlers |-> Torn]
    /\ fd = [h \in Handlers |-> Gone]
    /\ doomed = [c \in Cleaners |-> {}]
    /\ query = [q \in Readers |-> NoQuery]
    /\ due = [q \in Readers |-> {}]
    /\ disturbed = {}
    /\ issued = 0 /\ faults = 0 /\ rate = 0 /\ stuck = 0
    /\ written = {} /\ cut = {} /\ raced = {}

-----------------------------------------------------------------------------
Tick ==
    /\ now < MaxTime
    /\ now' = now + 1
    /\ rate' = 0
    /\ UNCHANGED <<file, work, doomed, query, issued, faults, history>>

\* ServeHTTP begins: start, which becomes the record's TS, is taken here; the
\* answer may take any time.
Answer(h) ==
    /\ pc[h] = "idle"
    /\ issued < MaxRecords
    /\ issued' = issued + 1
    /\ pc' = [pc EXCEPT ![h] = "answering"]
    /\ rec' = [rec EXCEPT ![h] = [id |-> issued + 1, ts |-> now]]
    /\ UNCHANGED <<now, file, fd, doomed, query, faults, rate, history>>

\* Variant of Oversize: the test for the limit being set turned round.
OversizeIfUnlimited(n) == MaxSize = 0 /\ Len(LinesOf(n)) > MaxSize

\* os.Stat(p): is the file over its limit?
Oversize(n) == MaxSize > 0 /\ Len(LinesOf(n)) > MaxSize

StatFile(h) ==
    /\ pc[h] = "answering"
    /\ pc' = [pc EXCEPT ![h] =
                 IF Oversize(AuditFile(rec[h])) THEN "rotate" ELSE "open"]
    /\ UNCHANGED <<now, file, rec, fd, doomed, query, issued, faults, rate, history>>

\* os.Rename(from, to) replaces a file that has the name already.
Renamed(from, to) ==
    [n \in (DOMAIN file \ {from}) \cup {to} |->
        IF n = to THEN file[from] ELSE file[n]]

\* A rename takes the descriptors along; those of the file it replaces lose
\* their name.
Follow(from, to) ==
    [h \in Handlers |-> IF fd[h] = from THEN to
                        ELSE IF fd[h] = to THEN Gone ELSE fd[h]]

OthersRotating(h) ==
    {g \in Handlers \ {h} : pc[g] = "rotate" /\ AuditFile(rec[g]) = AuditFile(rec[h])}

\* Variant of Rotate: the file is copied, not renamed.
RotateByCopy(h) ==
    LET p == AuditFile(rec[h]) IN
    /\ pc[h] = "rotate"
    /\ pc' = [pc EXCEPT ![h] = "open"]
    /\ Exists(p)
    /\ file' = [n \in DOMAIN file \cup {Rotated(p)} |->
                   IF n = Rotated(p) THEN file[p] ELSE file[n]]
    /\ disturbed' = Readers
    /\ UNCHANGED <<now, rec, fd, doomed, query, issued, faults, rate,
                   written, cut, raced, stuck, due>>

\* The error of os.Rename is ignored: the file may be gone already, when
\* another handler has been faster, or the file system may refuse.
Rotate(h) ==
    LET p == AuditFile(rec[h]) IN
    /\ pc[h] = "rotate"
    /\ pc' = [pc EXCEPT ![h] = "open"]
    /\ raced' = IF OthersRotating(h) = {} THEN raced ELSE raced \cup {p.day}
    /\ \/ /\ Exists(p)
          /\ file' = Renamed(p, Rotated(p))
          /\ fd' = Follow(p, Rotated(p))
          /\ disturbed' = Readers
          /\ UNCHANGED <<faults, stuck>>
       \/ /\ ~Exists(p)
          /\ UNCHANGED <<file, fd, disturbed, faults, stuck>>
       \/ /\ Exists(p) /\ faults < MaxFaults
          /\ faults' = faults + 1 /\ stuck' = stuck + 1
          /\ UNCHANGED <<file, fd, disturbed>>
    /\ UNCHANGED <<now, rec, doomed, query, issued, rate, written, cut, due>>

\* os.OpenFile(p, O_CREATE|O_APPEND)
OpenFile(h) ==
    LET p == AuditFile(rec[h]) IN
    /\ pc[h] = "open"
    /\ pc' = [pc EXCEPT ![h] = "write"]
    /\ fd' = [fd EXCEPT ![h] = p]
    /\ file' = [n \in DOMAIN file \cup {p} |-> LinesOf(n)]
    /\ UNCHANGED <<now, rec, doomed, query, issued, faults, rate, history>>

\* The handler is through; its descriptor is closed.
Leave(h) ==
    /\ pc' = [pc EXCEPT ![h] = "idle"]
    /\ rec' = [rec EXCEPT ![h] = Torn]
    /\ fd' = [fd EXCEPT ![h] = Gone]

\* os.MkdirAll or os.OpenFile fails: audit() drops the error, and there is no
\* record of the request.
NoRecord(h) ==
    /\ pc[h] \in {"answering", "open"}
    /\ faults < MaxFaults
    /\ faults' = faults + 1
    /\ Leave(h)
    /\ UNCHANGED <<now, file, doomed, query, issued, rate, history>>

AppendLine(n, line) ==
    file' = IF n = Gone THEN file ELSE [file EXCEPT ![n] = Append(@, line)]

\* f.Write of one whole line
WriteLine(h) ==
    /\ pc[h] = "write"
    /\ rate < MaxPerSecond
    /\ rate' = rate + 1
    /\ AppendLine(fd[h], rec[h])
    /\ written' = written \cup {rec[h]}
    /\ Leave(h)
    /\ UNCHANGED <<now, doomed, query, issued, faults, cut, raced, stuck, due, disturbed>>

\* The write stops short (no space left): its error is dropped by audit().
WriteTorn(h) ==
    /\ pc[h] = "write"
    /\ faults < MaxFaults /\ rate < MaxPerSecond
    /\ faults' = faults + 1
    /\ rate' = rate + 1
    /\ AppendLine(fd[h], Torn)
    /\ Leave(h)
    /\ UNCHANGED <<now, doomed, query, issued, history>>

-----------------------------------------------------------------------------
\* Variant of Expired: the name's day compared with the day of the cutoff and
\* not below it.
ExpiredOrLast(n) == n.day <= Day(now) - Keep

\* n[6:14] < cutoff, the day Keep days ago: that day itself stays.
Expired(n) == n.day < Day(now) - Keep

\* Variant of CleanList: only names as appendAudit makes them first.
CleanListLive(c) ==
    /\ doomed[c] = {}
    /\ doomed' = [doomed EXCEPT ![c] =
                     {n \in DOMAIN file : Expired(n) /\ n.stamp = Live}]
    /\ doomed'[c] # {}
    /\ UNCHANGED <<now, file, work, query, issued, faults, rate, history>>

\* cleanAudit, `log clean`: os.ReadDir and the cutoff, once.  A run that
\* finds nothing is invisible.
CleanList(c) ==
    /\ doomed[c] = {}
    /\ doomed' = [doomed EXCEPT ![c] = {n \in DOMAIN file : Expired(n)}]
    /\ doomed'[c] # {}
    /\ UNCHANGED <<now, file, work, query, issued, faults, rate, history>>

\* os.Remove of one of them; one that is gone by now is passed over.
CleanRemove(c, n) ==
    /\ n \in doomed[c]
    /\ doomed' = [doomed EXCEPT ![c] = @ \ {n}]
    /\ file' = [m \in DOMAIN file \ {n} |-> file[m]]
    /\ fd' = [h \in Handlers |-> IF fd[h] = n THEN Gone ELSE fd[h]]
    /\ disturbed' = IF Exists(n) THEN Readers ELSE disturbed
    /\ UNCHANGED <<now, pc, rec, query, issued, faults, rate,
                   written, cut, raced, stuck, due>>

-----------------------------------------------------------------------------
\* day < cutoff, the day QueryDays - 1 days ago
InWindow(day) == day >= Day(now) - (QueryDays - 1)

Listed(q, names) ==
    /\ query[q].at = "idle"
    /\ query' = [query EXCEPT ![q] = [at |-> "reading", left |-> names, got |-> <<>>]]
    /\ due' = [due EXCEPT ![q] = {r \in Stored : InWindow(Day(r.ts))}]
    /\ disturbed' = disturbed \ {q}
    /\ UNCHANGED <<now, file, work, doomed, issued, faults, rate,
                   written, cut, raced, stuck>>

\* Variant of QueryList: the copies made by rotation are not listed.
QueryListLive(q) == Listed(q, {n \in DOMAIN file : n.stamp = Live /\ InWindow(n.day)})

\* auditFiles: os.ReadDir and the window.
QueryList(q) == Listed(q, {n \in DOMAIN file : InWindow(n.day)})

Collect(q, n, lines) ==
    /\ query' = [query EXCEPT ![q].left = @ \ {n}, ![q].got = @ \o lines]
    /\ UNCHANGED <<now, file, work, doomed, issued, faults, rate, history>>

\* The decoder stops after the first k lines: at the end or at a torn one.
ReadsTo(lines, k) ==
    /\ \A i \in 1..k : lines[i] # Torn
    /\ k < Len(lines) => lines[k + 1] = Torn

\* readAuditLines: the next file, newest name first; one that cannot be
\* opened any more is skipped.
QueryRead(q) ==
    /\ query[q].at = "reading"
    /\ \E n \in query[q].left :
          /\ \A m \in query[q].left \ {n} : NewerName(n, m)
          /\ \E k \in 0..Len(LinesOf(n)) :
                /\ ReadsTo(LinesOf(n), k)
                /\ Collect(q, n, SubSeq(LinesOf(n), 1, k))

\* sort.Slice by TS, which is not stable: any order in which TS never goes down.
SortedByTS(recs) ==
    LET ordered(p) == \A i, j \in DOMAIN p : i < j => recs[p[i]].ts <= recs[p[j]].ts
    IN  {[i \in DOMAIN recs |-> recs[p[i]]] :
            p \in {o \in Bijection(DOMAIN recs, DOMAIN recs) : ordered(o)}}

QueryFinish(q) ==
    /\ query[q].at = "reading" /\ query[q].left = {}
    /\ \E sorted \in SortedByTS(query[q].got) :
          query' = [query EXCEPT ![q].at = "done", ![q].got = sorted]
    /\ UNCHANGED <<now, file, work, doomed, issued, faults, rate, history>>

\* The page asks again.
QueryAgain(q) ==
    /\ query[q].at = "done"
    /\ query' = [query EXCEPT ![q] = NoQuery]
    /\ due' = [due EXCEPT ![q] = {}]
    /\ disturbed' = disturbed \ {q}
    /\ UNCHANGED <<now, file, work, doomed, issued, faults, rate,
                   written, cut, raced, stuck>>

-----------------------------------------------------------------------------
AllLeave ==
    /\ pc' = [h \in Handlers |-> "idle"]
    /\ rec' = [h \in Handlers |-> Torn]
    /\ fd' = [h \in Handlers |-> Gone]
    /\ doomed' = [c \in Cleaners |-> {}]

\* The daemon is stopped: its handlers and its cleaner end where they are.
Kill ==
    /\ faults < MaxFaults
    /\ faults' = faults + 1
    /\ AllLeave
    /\ UNCHANGED <<now, file, query, issued, rate, history>>

\* Nothing was synced: a file may lose the end of its lines, and the last
\* one left may be torn.  (One file at a time.)
PowerLoss ==
    /\ faults < MaxFaults
    /\ faults' = faults + 1
    /\ AllLeave
    /\ \E n \in DOMAIN file : \E k \in 0..Len(file[n]), torn \in BOOLEAN :
          LET whole == SubSeq(file[n], 1, k) IN
          /\ torn => k < Len(file[n])
          /\ file' = [file EXCEPT ![n] = IF torn THEN Append(whole, Torn) ELSE whole]
          /\ cut' = cut \cup (ToSet(file[n]) \ (ToSet(whole) \cup {Torn}))
    /\ query' = [q \in Readers |-> NoQuery]
    /\ due' = [q \in Readers |-> {}]
    /\ disturbed' = {}
    /\ UNCHANGED <<now, issued, rate, written, raced, stuck>>

AppendAudit(h) ==
    \/ StatFile(h) \/ Rotate(h) \/ OpenFile(h) \/ NoRecord(h)
    \/ WriteLine(h) \/ WriteTorn(h)
Clean(c) == CleanList(c) \/ \E n \in Names : CleanRemove(c, n)
Query(q) == QueryList(q) \/ QueryRead(q) \/ QueryFinish(q) \/ QueryAgain(q)

Next ==
    \/ Tick \/ Kill \/ PowerLoss
    \/ \E h \in Handlers : Answer(h) \/ AppendAudit(h)
    \/ \E c \in Cleaners : Clean(c)
    \/ \E q \in Readers : Query(q)

Spec == Init /\ [][Next]_vars

\* The ticker of the gc goroutine fires again and again.
FairSpec == Spec /\ \A c \in Cleaners : WF_vars(Clean(c))

-----------------------------------------------------------------------------
\* Every record whose append reported success is in a file as long as its day
\* is within the retention time, whatever handlers, cleaner and stops do at
\* the same time.  What a power loss takes is excepted, and so are the days
\* on which two handlers have found the file over its limit at once: the
\* second rename then replaces the copy the first one made in that second.
KeptWithinRetention ==
    \A r \in written \ cut :
        \/ r \in Stored
        \/ Day(r.ts) < Day(now) - Keep
        \/ Day(r.ts) \in raced

\* A file outgrows the limit by what the handlers that looked at it before
\* it was full still write, one line each, and by one line for every rename
\* that fails.
FilesBounded ==
    MaxSize > 0 =>
        \A n \in DOMAIN file :
            Len(file[n]) <= MaxSize + Cardinality(Handlers) + stuck

\* A query returns every record that was in a file when it listed the
\* directory, unless a rotation or a removal came in between; a torn line
\* hides what follows it in its own file and nothing else.
QueryComplete ==
    \A q \in Readers \ disturbed : query[q].at = "done" =>
        \A r \in due[q] :
            \/ r \in ToSet(query[q].got)
            \/ \E n \in DOMAIN file : r \in ToSet(file[n]) \ Readable(file[n])

\* No record is returned twice, even by a query during which the file was
\* rotated: it lists once, and a name it has listed never comes to hold what
\* it has read already.
QueryOnce ==
    \A q \in Readers : query[q].at = "done" /\ raced = {} => IsInjective(query[q].got)

\* Every file of a day that is past its retention is removed in the end, the
\* rotated copies too.
OldFilesGo == (\E n \in DOMAIN file : Expired(n)) ~> (\A n \in DOMAIN file : ~Expired(n))
=============================================================================

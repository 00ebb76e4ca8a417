-------------------------- MODULE AuditLogProofs --------------------------
(***************************************************************************)
(* The audit directory: no record is lost to rotation or retention, files  *)
(* stay within their limit, and a query misses and repeats nothing, for    *)
(* any handlers, cleaners, queries, limits and times.                      *)
(*                                                                         *)
(* None of the four properties is inductive.  What keeps a record from     *)
(* being lost is that a name rotated to in this second is not there yet,   *)
(* which rests on the rate of lines and on the size a file needs before it *)
(* is rotated (FreshCopies); what keeps a file bounded is a count of the   *)
(* handlers that may still write to it (Room); what keeps a query from     *)
(* repeating is that each record is in one place only (Once, Unwritten),   *)
(* and what keeps it from missing is that files stay where it listed them  *)
(* (Found).                                                                *)
(***************************************************************************)
EXTENDS AuditLog, FiniteSetTheorems, SequenceTheorems, TLAPS

-----------------------------------------------------------------------------
(* The parts of the invariant.                                             *)

\* A record is in a file of its own day.
Filed ==
    \A n \in DOMAIN file : \A i \in DOMAIN file[n] :
        file[n][i] # Torn => Day(file[n][i].ts) = n.day

\* No name bears a second that has not come yet.
Stamped ==
    /\ \A n \in DOMAIN file : n.stamp = Live \/ n.stamp <= now
    /\ \A q \in Readers : \A n \in query[q].left : n.stamp = Live \/ n.stamp <= now

\* What a cleaner means to remove was past its retention, and still is.
DoomedExpired == \A c \in Cleaners : \A n \in doomed[c] : Expired(n)

\* A day that is past its retention at time t, or on which two handlers have
\* rotated at once.
Past(d, t, days) == d < Day(t) - Keep \/ d \in days

\* A handler that has a file open has one of its record's day, under whatever
\* name; it is without one only when the day is excused.
Opened ==
    \A h \in Handlers : pc[h] = "write" =>
        \/ fd[h] \in DOMAIN file /\ fd[h].day = Day(rec[h].ts)
        \/ fd[h] = Gone /\ Past(Day(rec[h].ts), now, raced)

\* The name a rotation in this second would give the file of day d.
CopyOf(d) == [day |-> d, stamp |-> now]
LiveOf(d) == [day |-> d, stamp |-> Live]

\* Once that name is taken, or a query has listed it, the file of the day has
\* got all its lines in this second, so nobody finds it too large.
FreshCopies ==
    \A d \in Days \ raced :
        CopyOf(d) \in DOMAIN file \/ (\E q \in Readers : CopyOf(d) \in query[q].left) =>
           /\ Len(LinesOf(LiveOf(d))) <= rate
           /\ \A h \in Handlers : pc[h] = "rotate" => Day(rec[h].ts) # d

\* The handlers that will write one more line to n.
Pending(n) ==
    {h \in Handlers : \/ pc[h] = "open" /\ AuditFile(rec[h]) = n
                      \/ pc[h] = "write" /\ fd[h] = n}

Room ==
    MaxSize > 0 =>
        \A n \in Names :
            Len(LinesOf(n)) + Cardinality(Pending(n)) <= MaxSize + Cardinality(Handlers) + stuck

\* A record is in one file, once.
Once ==
    \A m, n \in DOMAIN file : \A i \in DOMAIN file[m], j \in DOMAIN file[n] :
        file[m][i] = file[n][j] /\ file[m][i] # Torn => m = n /\ i = j

\* Identities are given out in order.
Numbered ==
    /\ \A n \in DOMAIN file : \A i \in DOMAIN file[n] :
          file[n][i] # Torn => file[n][i].id <= issued
    /\ \A h \in Handlers : Inside(h) => rec[h].id <= issued
    /\ \A q \in Readers : \A i \in DOMAIN query[q].got : query[q].got[i].id <= issued

\* What a handler has still to write is nowhere else.
Unwritten ==
    \A h \in Handlers : Inside(h) =>
        /\ \A n \in DOMAIN file : \A i \in DOMAIN file[n] : file[n][i] # rec[h]
        /\ \A g \in Handlers \ {h} : Inside(g) => rec[g] # rec[h]
        /\ \A q \in Readers : \A i \in DOMAIN query[q].got : query[q].got[i] # rec[h]

\* A query that is not reading has nothing left to read.
Through == \A q \in Readers : query[q].at # "reading" => query[q].left = {}

\* No record a query has yet to read is one it has.
NotTwice ==
    raced = {} =>
        \A q \in Readers :
            /\ IsInjective(query[q].got)
            /\ \A n \in query[q].left \cap DOMAIN file :
                  \A i \in DOMAIN file[n], j \in DOMAIN query[q].got :
                     file[n][i] # query[q].got[j]

Hidden(r, n) == r \in ToSet(file[n]) \ Readable(file[n])

\* A record that is due has been read, is behind a torn line, or is in a file
\* that is still to be read.
Found ==
    \A q \in Readers \ disturbed : \A r \in due[q] :
        \/ r \in ToSet(query[q].got)
        \/ \E n \in DOMAIN file : Hidden(r, n)
        \/ \E n \in query[q].left \cap DOMAIN file : r \in ToSet(file[n])

-----------------------------------------------------------------------------
(* Days, names and sequences.                                              *)

\* Days do not go back.
LEMMA DayIsMonotone ==
    \A s, t \in Nat : /\ Day(s) \in Nat
                      /\ s <= t => Day(s) <= Day(t)
<1> DEFINE c == DayLength
<1>1. c \in Nat /\ c > 0
  BY ClockAssumption
<1>2. \A a \in Nat : (a \div c) \in Nat /\ c * (a \div c) <= a /\ a < c * (a \div c) + c
  BY <1>1
<1>3. ASSUME NEW s \in Nat, NEW t \in Nat, s <= t, (s \div c) > (t \div c) PROVE FALSE
  <2> DEFINE x == s \div c
             y == t \div c
  <2>1. x \in Nat /\ y \in Nat /\ c * x <= s /\ t < c * y + c /\ x >= y + 1
    BY <1>2, <1>3
  <2> HIDE DEF x, y, c
  <2>2. c * x >= c * (y + 1) /\ c * (y + 1) = c * y + c
    BY <1>1, <2>1
  <2> QED
    BY <1>1, <1>3, <2>1, <2>2
<1> QED
  BY <1>2, <1>3 DEF Day

\* The names a record is filed and rotated under.
LEMMA NamesTyped ==
    /\ \A d \in Days : LiveOf(d) \in Names
    /\ now \in 0..MaxTime => \A d \in Days : CopyOf(d) \in Names
    /\ \A d, e : LiveOf(d) = LiveOf(e) => d = e
    /\ now \in 0..MaxTime => \A d \in Days : \A e : CopyOf(d) # LiveOf(e)
    /\ \A r \in Records : Day(r.ts) \in Days /\ AuditFile(r) = LiveOf(Day(r.ts))
    /\ \A n \in Names : n.stamp = Live => n = LiveOf(n.day)
    /\ \A d : Rotated(LiveOf(d)) = CopyOf(d)
<1>1. \A t \in 0..MaxTime : Day(t) \in Days
  BY DayIsMonotone, ClockAssumption DEF Days
<1> QED
  BY <1>1, LiveAssumption DEF LiveOf, CopyOf, Names, Records, AuditFile, Rotated

\* The lines of a file that exists or not.
LEMMA LinesTyped ==
    ASSUME TypeOK, NEW n
    PROVE  /\ LinesOf(n) \in Seq(Lines) /\ Len(LinesOf(n)) \in Nat
           /\ DOMAIN LinesOf(n) = 1..Len(LinesOf(n))
BY DEF TypeOK, LinesOf, Exists

\* A line that is not torn is a record.
LEMMA WholeLines == Lines \ {Torn} = Records
BY OthersAssumption DEF Lines

\* What appending one line changes.
LEMMA OneMore ==
    ASSUME NEW s \in Seq(Lines), NEW x \in Lines
    PROVE  /\ Append(s, x) \in Seq(Lines) /\ Len(Append(s, x)) = Len(s) + 1
           /\ DOMAIN s = 1..Len(s) /\ Len(s) \in Nat
           /\ DOMAIN Append(s, x) = 1..(Len(s) + 1)
           /\ \A i \in 1..Len(s) : Append(s, x)[i] = s[i]
           /\ Append(s, x)[Len(s) + 1] = x
BY AppendProperties

-----------------------------------------------------------------------------
(* Types.                                                                  *)
\* The first state is well typed.
LEMMA InitTypeOK == ASSUME Init PROVE TypeOK
<1>1. /\ file = NoFiles /\ DOMAIN file = {}
  BY DEF Init, NoFiles
<1>2. NoQuery \in Queries
  BY DEF NoQuery, Queries
<1> QED
  BY <1>1, <1>2, ClockAssumption, RateAssumption, BoundsAssumption
  DEF Init, TypeOK, Inside, Lines

\* Beginning a request keeps the types, and so does looking at the file.
LEMMA StepTypeOK ==
    ASSUME TypeOK, NEW h \in Handlers, Answer(h) \/ StatFile(h)
    PROVE  TypeOK'
<1>1. CASE Answer(h)
  <2>1. [id |-> issued + 1, ts |-> now] \in Records
    BY <1>1, BoundsAssumption DEF Answer, TypeOK, Records
  <2> QED
    BY <1>1, <2>1, BoundsAssumption DEF Answer, TypeOK, Inside, Lines, history
<1>2. CASE StatFile(h)
  BY <1>2 DEF StatFile, TypeOK, Inside, history
<1> QED
  BY <1>1, <1>2

\* A rename gives a directory and descriptors of their types.
LEMMA RenameTyped ==
    ASSUME TypeOK, NEW from \in DOMAIN file, NEW to \in Names
    PROVE  /\ DOMAIN Renamed(from, to) \subseteq Names
           /\ Renamed(from, to) \in [DOMAIN Renamed(from, to) -> Seq(Lines)]
           /\ Follow(from, to) \in [Handlers -> Names \cup {Gone}]
BY DEF TypeOK, Renamed, Follow

\* The rest of appendAudit keeps the types.
LEMMA AppendTypeOK ==
    ASSUME TypeOK, NEW h \in Handlers,
           Rotate(h) \/ OpenFile(h) \/ NoRecord(h) \/ WriteLine(h) \/ WriteTorn(h)
    PROVE  TypeOK'
<1>1. CASE Rotate(h)
  <2>1. /\ rec[h] \in Records /\ Day(rec[h].ts) \in Days
        /\ AuditFile(rec[h]) = LiveOf(Day(rec[h].ts))
        /\ Rotated(AuditFile(rec[h])) \in Names /\ AuditFile(rec[h]).day = Day(rec[h].ts)
    BY <1>1, NamesTyped DEF Rotate, TypeOK, Inside, LiveOf
  <2>2. /\ DOMAIN file' \subseteq Names /\ file' \in [DOMAIN file' -> Seq(Lines)]
        /\ fd' \in [Handlers -> Names \cup {Gone}]
    BY <1>1, <2>1, RenameTyped DEF Rotate, TypeOK, Exists
  <2>3. raced' \subseteq Days
    BY <1>1, <2>1 DEF Rotate, TypeOK
  <2>4. disturbed' \subseteq Readers /\ faults' \in 0..MaxFaults /\ stuck' \in 0..faults'
    <3>1. CASE UNCHANGED <<faults, stuck>>
      BY <1>1, <3>1 DEF Rotate, TypeOK
    <3>2. CASE faults < MaxFaults /\ faults' = faults + 1 /\ stuck' = stuck + 1 /\ UNCHANGED disturbed
      BY <3>2, BoundsAssumption DEF TypeOK
    <3> QED
      BY <1>1, <3>1, <3>2 DEF Rotate
  <2> QED
    BY <1>1, <2>1, <2>2, <2>3, <2>4 DEF Rotate, TypeOK, Inside
<1>2. CASE OpenFile(h)
  <2>1. AuditFile(rec[h]) \in Names
    BY <1>2, NamesTyped DEF OpenFile, TypeOK, Inside
  <2>2. DOMAIN file' \subseteq Names /\ file' \in [DOMAIN file' -> Seq(Lines)]
    BY <1>2, <2>1, LinesTyped DEF OpenFile, TypeOK
  <2> QED
    BY <1>2, <2>1, <2>2 DEF OpenFile, TypeOK, Inside, history
<1>3. ASSUME NEW x \in Lines, AppendLine(fd[h], x)
      PROVE  DOMAIN file' \subseteq Names /\ file' \in [DOMAIN file' -> Seq(Lines)]
  BY <1>3, OneMore DEF AppendLine, TypeOK
<1>4. CASE WriteLine(h)
  <2>1. rec[h] \in Records
    BY <1>4 DEF WriteLine, TypeOK, Inside
  <2>2. DOMAIN file' \subseteq Names /\ file' \in [DOMAIN file' -> Seq(Lines)]
    BY <1>3, <1>4, <2>1 DEF WriteLine, Lines
  <2> QED
    BY <1>4, <2>1, <2>2, RateAssumption DEF WriteLine, Leave, TypeOK, Inside, Lines
<1>5. CASE WriteTorn(h)
  <2>2. DOMAIN file' \subseteq Names /\ file' \in [DOMAIN file' -> Seq(Lines)]
    BY <1>3, <1>5 DEF WriteTorn, Lines
  <2> QED
    BY <1>5, <2>2, RateAssumption, BoundsAssumption
    DEF WriteTorn, Leave, TypeOK, Inside, Lines, history
<1>6. CASE NoRecord(h)
  BY <1>6, BoundsAssumption DEF NoRecord, Leave, TypeOK, Inside, Lines, history
<1> QED
  BY <1>1, <1>2, <1>3, <1>4, <1>5, <1>6

\* A cleaner keeps them.
LEMMA CleanTypeOK ==
    ASSUME TypeOK, NEW c \in Cleaners, Clean(c)
    PROVE  TypeOK'
<1>1. CASE CleanList(c)
  <2>1. doomed' \in [Cleaners -> SUBSET Names]
    BY <1>1 DEF CleanList, TypeOK
  <2> QED
    BY <1>1, <2>1 DEF CleanList, TypeOK, Inside, work, history
<1>2. ASSUME NEW n \in Names, CleanRemove(c, n) PROVE TypeOK'
  <2>1. /\ doomed' \in [Cleaners -> SUBSET Names]
        /\ DOMAIN file' \subseteq Names /\ file' \in [DOMAIN file' -> Seq(Lines)]
        /\ fd' \in [Handlers -> Names \cup {Gone}]
        /\ disturbed' \subseteq Readers
    BY <1>2 DEF CleanRemove, TypeOK
  <2> QED
    BY <1>2, <2>1 DEF CleanRemove, TypeOK, Inside
<1> QED
  BY <1>1, <1>2 DEF Clean

\* What a query reads of a file: a first part of it, and only records.
LEMMA ReadsRecords ==
    ASSUME TypeOK, NEW n, NEW k \in Nat, k <= Len(LinesOf(n)), ReadsTo(LinesOf(n), k)
    PROVE  LET part == SubSeq(LinesOf(n), 1, k) IN
           /\ part \in Seq(Records) /\ Len(part) = k /\ DOMAIN part = 1..k
           /\ \A i \in 1..k : part[i] = LinesOf(n)[i]
<1> DEFINE s == LinesOf(n)
           part == SubSeq(s, 1, k)
<1>1. s \in Seq(Lines) /\ Len(s) \in Nat /\ k \in Nat /\ k <= Len(s)
  BY LinesTyped
<1> HIDE DEF s
<1>2. part \in Seq(Lines) /\ Len(part) = k /\ \A i \in 1..k : part[i] = s[i]
  BY <1>1, SubSeqProperties
<1>3. \A i \in 1..k : part[i] \in Records
  BY <1>1, <1>2, WholeLines DEF ReadsTo, s
<1> QED
  BY <1>2, <1>3 DEF s

\* Two sequences in a row.
LEMMA Joined ==
    ASSUME NEW s \in Seq(Records), NEW t \in Seq(Records)
    PROVE  /\ s \o t \in Seq(Records)
           /\ Len(s) \in Nat /\ Len(t) \in Nat /\ DOMAIN (s \o t) = 1..(Len(s) + Len(t))
           /\ DOMAIN s = 1..Len(s) /\ DOMAIN t = 1..Len(t)
           /\ \A i \in 1..Len(s) : (s \o t)[i] = s[i]
           /\ \A i \in 1..Len(t) : (s \o t)[Len(s) + i] = t[i]
           /\ \A i \in 1..(Len(s) + Len(t)) :
                 (s \o t)[i] = IF i <= Len(s) THEN s[i] ELSE t[i - Len(s)]
BY ConcatProperties

\* Sorting keeps the records and says nothing else of them here.
LEMMA Sorting ==
    ASSUME NEW s \in Seq(Records), NEW t \in SortedByTS(s)
    PROVE  /\ t \in Seq(Records) /\ DOMAIN t = DOMAIN s
           /\ \A i \in DOMAIN s : \E j \in DOMAIN s : t[i] = s[j]
           /\ \A i \in DOMAIN s : \E j \in DOMAIN s : t[j] = s[i]
           /\ IsInjective(s) => IsInjective(t)
<1>1. PICK p \in Bijection(DOMAIN s, DOMAIN s) : t = [i \in DOMAIN s |-> s[p[i]]]
  BY DEF SortedByTS
<1>2. /\ p \in [DOMAIN s -> DOMAIN s] /\ \A i, j \in DOMAIN s : p[i] = p[j] => i = j
      /\ \A i \in DOMAIN s : \E j \in DOMAIN s : p[j] = i
  BY DEF Bijection, Injection, Surjection, IsInjective
<1>3. DOMAIN s = 1..Len(s) /\ Len(s) \in Nat /\ \A i \in DOMAIN s : s[i] \in Records
  OBVIOUS
<1>4. t \in Seq(Records)
  BY <1>1, <1>2, <1>3
<1>5. IsInjective(s) => IsInjective(t)
  BY <1>1, <1>2 DEF IsInjective
<1> QED
  BY <1>1, <1>2, <1>4, <1>5

\* What reading one file does to a query.
LEMMA ReadOne ==
    ASSUME TypeOK, NEW q \in Readers, QueryRead(q)
    PROVE  \E n \in query[q].left, k \in Nat :
              /\ k <= Len(LinesOf(n))
              /\ ReadsTo(LinesOf(n), k) /\ query[q].at = "reading"
              /\ \A m \in query[q].left \ {n} : NewerName(n, m)
              /\ query'[q] = [at |-> "reading", left |-> query[q].left \ {n},
                              got |-> query[q].got \o SubSeq(LinesOf(n), 1, k)]
<1> DEFINE Reads(n, k) ==
       /\ k <= Len(LinesOf(n))
       /\ ReadsTo(LinesOf(n), k) /\ query[q].at = "reading"
       /\ \A m \in query[q].left \ {n} : NewerName(n, m)
       /\ query'[q] = [at |-> "reading", left |-> query[q].left \ {n},
                       got |-> query[q].got \o SubSeq(LinesOf(n), 1, k)]
<1>1. query[q] \in Queries /\ query[q].at = "reading"
  BY DEF TypeOK, QueryRead
<1>2. PICK n \in query[q].left :
         /\ \A m \in query[q].left \ {n} : NewerName(n, m)
         /\ \E k \in 0..Len(LinesOf(n)) :
               /\ ReadsTo(LinesOf(n), k)
               /\ Collect(q, n, SubSeq(LinesOf(n), 1, k))
  BY DEF QueryRead
<1>3. PICK k \in 0..Len(LinesOf(n)) :
         ReadsTo(LinesOf(n), k) /\ Collect(q, n, SubSeq(LinesOf(n), 1, k))
  BY <1>2
<1>4. Len(LinesOf(n)) \in Nat
  BY LinesTyped
<1> DEFINE part == SubSeq(LinesOf(n), 1, k)
<1>5. Collect(q, n, part)
  BY <1>3
<1> HIDE DEF part
<1>6. query'[q] = [query[q] EXCEPT !.left = @ \ {n}, !.got = @ \o part]
  BY <1>5 DEF Collect, TypeOK
<1>7. query'[q] = [at |-> "reading", left |-> query[q].left \ {n}, got |-> query[q].got \o part]
  BY <1>1, <1>6 DEF Queries
<1>8. k \in Nat /\ Reads(n, k)
  BY <1>1, <1>2, <1>3, <1>4, <1>7 DEF part
<1> HIDE DEF Reads
<1>9. \E m \in query[q].left, j \in Nat : Reads(m, j)
  BY <1>8
<1> QED
  BY <1>9 DEF Reads

\* What finishing does to it.
LEMMA FinishOne ==
    ASSUME TypeOK, NEW q \in Readers, QueryFinish(q)
    PROVE  /\ query[q].at = "reading" /\ query[q].left = {}
           /\ \E t \in SortedByTS(query[q].got) :
                 query'[q] = [at |-> "done", left |-> {}, got |-> t]
<1>1. query[q] \in Queries
  BY DEF TypeOK
<1>2. PICK t \in SortedByTS(query[q].got) :
         query' = [query EXCEPT ![q].at = "done", ![q].got = t]
  BY DEF QueryFinish
<1>3. query'[q] = [query[q] EXCEPT !.at = "done", !.got = t]
  BY <1>2 DEF TypeOK
<1>4. query[q].left = {} /\ query[q].at = "reading"
  BY DEF QueryFinish
<1>5. query'[q] = [at |-> "done", left |-> {}, got |-> t]
  BY <1>1, <1>3, <1>4 DEF Queries
<1> QED
  BY <1>2, <1>4, <1>5

\* The other queries go on as they were.
LEMMA OneQuery ==
    ASSUME TypeOK, NEW q \in Readers, Query(q)
    PROVE  /\ \A p \in Readers \ {q} : query'[p] = query[p]
           /\ DOMAIN query' = Readers /\ query' = [p \in Readers |-> query'[p]]
BY DEF TypeOK, Query, QueryList, Listed, QueryRead, Collect, QueryFinish, QueryAgain

\* A query keeps them.
LEMMA QueryTypeOK ==
    ASSUME TypeOK, NEW q \in Readers, Query(q)
    PROVE  TypeOK'
<1>1. query[q] \in Queries
  BY DEF TypeOK
<1>2. CASE QueryList(q)
  <2>1. query'[q] \in Queries
    BY <1>2, <1>1 DEF QueryList, Listed, TypeOK, Queries
  <2>2. due' \in [Readers -> SUBSET Records]
    <3>1. Stored \subseteq Records
      <4>1. ASSUME NEW n \in DOMAIN file PROVE ToSet(file[n]) \subseteq Lines
        BY DEF TypeOK, ToSet
      <4> QED
        BY <4>1, WholeLines DEF Stored
    <3> QED
      BY <1>2, <3>1 DEF QueryList, Listed, TypeOK
  <2> QED
    BY <1>2, <2>1, <2>2, OneQuery DEF QueryList, Listed, TypeOK, Inside, work, Query
<1>3. CASE QueryRead(q)
  <2>1. PICK n \in query[q].left, k \in Nat :
           /\ k <= Len(LinesOf(n))
           /\ ReadsTo(LinesOf(n), k)
           /\ query'[q] = [at |-> "reading", left |-> query[q].left \ {n},
                           got |-> query[q].got \o SubSeq(LinesOf(n), 1, k)]
    BY <1>3, ReadOne
  <2>2. SubSeq(LinesOf(n), 1, k) \in Seq(Records)
    BY <2>1, ReadsRecords
  <2>3. query[q].got \in Seq(Records) /\ query[q].left \subseteq Names
    BY <1>1 DEF Queries
  <2>4. query'[q] \in Queries
    BY <2>1, <2>2, <2>3, Joined DEF Queries
  <2> QED
    BY <1>3, <2>4, OneQuery DEF QueryRead, Collect, TypeOK, Inside, work, history, Query
<1>4. CASE QueryFinish(q)
  <2>1. PICK t \in SortedByTS(query[q].got) :
           query'[q] = [at |-> "done", left |-> {}, got |-> t]
    BY <1>4, FinishOne
  <2>2. t \in Seq(Records)
    BY <1>1, Sorting DEF Queries
  <2>3. query'[q] \in Queries
    BY <2>1, <2>2 DEF Queries
  <2> QED
    BY <1>4, <2>3, OneQuery DEF QueryFinish, TypeOK, Inside, work, history, Query
<1>5. CASE QueryAgain(q)
  <2>1. query'[q] \in Queries /\ due' \in [Readers -> SUBSET Records]
    BY <1>5 DEF QueryAgain, TypeOK, NoQuery, Queries
  <2> QED
    BY <1>5, <2>1, OneQuery DEF QueryAgain, TypeOK, Inside, work, Query
<1> QED
  BY <1>2, <1>3, <1>4, <1>5 DEF Query

\* What a power loss leaves of one file: its first k lines, and perhaps a
\* torn one.
Leaves(n, k, s) ==
    /\ k <= Len(file[n])
    /\ file' = [file EXCEPT ![n] = s]
    /\ Len(s) \in k..Len(file[n]) /\ DOMAIN s = 1..Len(s)
    /\ \A i \in 1..k : s[i] = file[n][i]
    /\ \A i \in DOMAIN s : s[i] # Torn => i <= k
    /\ \A i \in DOMAIN file[n] :
          i <= k \/ file[n][i] = Torn \/ file[n][i] \in cut'
                 \/ \E j \in 1..k : file[n][j] = file[n][i]

\* A power loss leaves such a first part of one file.
LEMMA WhatIsLeft ==
    ASSUME TypeOK, PowerLoss
    PROVE  \E n \in DOMAIN file, k \in Nat, s \in Seq(Lines) : Leaves(n, k, s)
<1>1. PICK n \in DOMAIN file, torn \in BOOLEAN : \E k \in 0..Len(file[n]) :
         LET whole == SubSeq(file[n], 1, k) IN
         /\ torn => k < Len(file[n])
         /\ file' = [file EXCEPT ![n] = IF torn THEN Append(whole, Torn) ELSE whole]
         /\ cut' = cut \cup (ToSet(file[n]) \ (ToSet(whole) \cup {Torn}))
  BY DEF PowerLoss
<1>2. PICK k \in 0..Len(file[n]) :
         LET whole == SubSeq(file[n], 1, k) IN
         /\ torn => k < Len(file[n])
         /\ file' = [file EXCEPT ![n] = IF torn THEN Append(whole, Torn) ELSE whole]
         /\ cut' = cut \cup (ToSet(file[n]) \ (ToSet(whole) \cup {Torn}))
  BY <1>1
<1> DEFINE f == file[n]
           w == SubSeq(f, 1, k)
<1>3. f \in Seq(Lines) /\ Len(f) \in Nat /\ k \in Nat /\ k <= Len(f) /\ DOMAIN f = 1..Len(f)
  BY <1>2 DEF TypeOK
<1>4. /\ torn => k < Len(f)
      /\ file' = [file EXCEPT ![n] = IF torn THEN Append(w, Torn) ELSE w]
      /\ cut' = cut \cup (ToSet(f) \ (ToSet(w) \cup {Torn}))
  BY <1>2
<1>5. file[n] = f
  OBVIOUS
<1> HIDE DEF f
<1>6. w \in Seq(Lines) /\ Len(w) = k /\ DOMAIN w = 1..k /\ \A i \in 1..k : w[i] = f[i]
  BY <1>3, SubSeqProperties
<1> HIDE DEF w
<1>7. \A i \in DOMAIN f : i <= k \/ f[i] = Torn \/ f[i] \in cut' \/ \E j \in 1..k : f[j] = f[i]
  BY <1>3, <1>4, <1>6 DEF ToSet
<1>8. Torn \in Lines
  BY DEF Lines
<1>9. CASE torn
  <2>1. /\ Append(w, Torn) \in Seq(Lines) /\ Len(Append(w, Torn)) = k + 1
        /\ DOMAIN Append(w, Torn) = 1..(k + 1)
        /\ \A i \in 1..k : Append(w, Torn)[i] = f[i]
        /\ Append(w, Torn)[k + 1] = Torn
    BY <1>6, <1>8, OneMore
  <2> DEFINE s == Append(w, Torn)
  <2>2. file' = [file EXCEPT ![n] = s] /\ k < Len(f) /\ k <= Len(f)
    BY <1>3, <1>4, <1>9
  <2>3. s \in Seq(Lines) /\ DOMAIN s = 1..Len(s) /\ \A i \in 1..k : s[i] = f[i]
    BY <2>1
  <2> HIDE DEF s
  <2>4. \A i \in DOMAIN s : s[i] # Torn => i <= k
    BY <1>3, <2>1 DEF s
  <2>5. Len(s) \in k..Len(f)
    BY <1>3, <2>1, <2>2 DEF s
  <2>6. Leaves(n, k, s)
    BY <1>5, <1>7, <2>2, <2>3, <2>4, <2>5 DEF Leaves
  <2> QED
    BY <1>3, <2>3, <2>6
<1>10. CASE ~torn
  <2>1. file' = [file EXCEPT ![n] = w] /\ Len(w) \in k..Len(f)
    BY <1>3, <1>4, <1>6, <1>10
  <2>2. \A i \in DOMAIN w : w[i] # Torn => i <= k
    BY <1>3, <1>6
  <2>3. Leaves(n, k, w)
    BY <1>3, <1>5, <1>6, <1>7, <2>1, <2>2 DEF Leaves
  <2> QED
    BY <1>3, <1>6, <2>3
<1> QED
  BY <1>9, <1>10

\* The clock, a kill and a power loss keep the types.
LEMMA EndTypeOK ==
    ASSUME TypeOK, Tick \/ Kill \/ PowerLoss
    PROVE  TypeOK'
<1>1. CASE Tick
  BY <1>1, ClockAssumption, RateAssumption DEF Tick, TypeOK, Inside, work, history
<1>2. AllLeave => /\ pc' \in [Handlers -> {"idle", "answering", "rotate", "open", "write"}]
                  /\ rec' \in [Handlers -> Lines] /\ \A h \in Handlers : ~Inside(h)'
                  /\ fd' \in [Handlers -> Names \cup {Gone}]
                  /\ doomed' \in [Cleaners -> SUBSET Names]
  BY DEF AllLeave, Inside, Lines
<1>3. CASE Kill
  BY <1>2, <1>3, BoundsAssumption DEF Kill, TypeOK, Inside, history
<1>4. CASE PowerLoss
  <2>1. DOMAIN file' \subseteq Names /\ file' \in [DOMAIN file' -> Seq(Lines)]
    BY <1>4, WhatIsLeft DEF TypeOK, Leaves
  <2>2. cut' \subseteq Records
    <3>1. \A n \in DOMAIN file : ToSet(file[n]) \subseteq Lines
      BY DEF TypeOK, ToSet
    <3>2. PICK n \in DOMAIN file : \E x : cut' = cut \cup (ToSet(file[n]) \ (x \cup {Torn}))
      BY <1>4 DEF PowerLoss
    <3> QED
      BY <3>1, <3>2, WholeLines DEF TypeOK
  <2>3. NoQuery \in Queries
    BY DEF NoQuery, Queries
  <2>4. /\ query' \in [Readers -> Queries] /\ due' \in [Readers -> SUBSET Records]
        /\ disturbed' \subseteq Readers
    BY <1>4, <2>3 DEF PowerLoss
  <2>5. /\ faults' \in 0..MaxFaults /\ stuck' \in 0..faults'
        /\ UNCHANGED <<now, issued, rate, written, raced>> /\ AllLeave
    BY <1>4, BoundsAssumption DEF PowerLoss, TypeOK
  <2>6. written' \cup cut' \subseteq Records
    BY <2>2, <2>5 DEF TypeOK
  <2>7. /\ pc' \in [Handlers -> {"idle", "answering", "rotate", "open", "write"}]
        /\ rec' \in [Handlers -> Lines] /\ \A h \in Handlers : ~Inside(h)'
        /\ fd' \in [Handlers -> Names \cup {Gone}]
        /\ doomed' \in [Cleaners -> SUBSET Names]
    BY <1>2, <2>5
  <2>8. /\ now' \in 0..MaxTime /\ issued' \in 0..MaxRecords
        /\ rate' \in 0..MaxPerSecond /\ raced' \subseteq Days
    BY <2>5 DEF TypeOK
  <2> QED
    BY <2>1, <2>4, <2>5, <2>6, <2>7, <2>8 DEF TypeOK, Inside
<1> QED
  BY <1>1, <1>3, <1>4

\* Every step keeps them.
LEMMA NextTypeOK == ASSUME TypeOK, [Next]_vars PROVE TypeOK'
<1>1. CASE UNCHANGED vars
  BY <1>1 DEF vars, work, history, TypeOK, Inside
<1>2. ASSUME NEW h \in Handlers, Answer(h) \/ AppendAudit(h) PROVE TypeOK'
  BY <1>2, StepTypeOK, AppendTypeOK DEF AppendAudit
<1> QED
  BY <1>1, <1>2, EndTypeOK, CleanTypeOK, QueryTypeOK DEF Next

-----------------------------------------------------------------------------
(* What a step does to the directory.                                      *)

\* Time and history go one way.
LEMMA Onwards ==
    ASSUME TypeOK, [Next]_vars
    PROVE  /\ now \in 0..MaxTime /\ now' \in 0..MaxTime /\ now <= now'
           /\ raced \subseteq raced' /\ issued <= issued'
           /\ now' # now => UNCHANGED <<file, pc, rec, fd, doomed, query>>
<1>1. now \in 0..MaxTime /\ now' \in 0..MaxTime /\ issued \in Nat
  BY NextTypeOK DEF TypeOK
<1>2. ASSUME NEW h \in Handlers, Answer(h) \/ AppendAudit(h)
      PROVE  now' = now /\ raced \subseteq raced' /\ issued <= issued'
  BY <1>1, <1>2 DEF Answer, AppendAudit, StatFile, Rotate, OpenFile, NoRecord, WriteLine, WriteTorn, history
<1>3. ASSUME NEW c \in Cleaners, Clean(c) PROVE now' = now /\ raced' = raced /\ issued' = issued
  BY <1>3 DEF Clean, CleanList, CleanRemove, history
<1>4. ASSUME NEW q \in Readers, Query(q) PROVE now' = now /\ raced' = raced /\ issued' = issued
  BY <1>4 DEF Query, QueryList, Listed, QueryRead, Collect, QueryFinish, QueryAgain, history
<1>5. CASE Kill \/ PowerLoss
  BY <1>1, <1>5 DEF Kill, PowerLoss, history
<1>6. CASE Tick
  BY <1>1, <1>6 DEF Tick, history, work
<1>7. CASE UNCHANGED vars
  BY <1>1, <1>7 DEF vars, history
<1> QED
  BY <1>1, <1>2, <1>3, <1>4, <1>5, <1>6, <1>7 DEF Next

\* What is past its retention stays so, and an excused day stays excused.
LEMMA StillExcused ==
    ASSUME TypeOK, [Next]_vars
    PROVE  /\ \A n \in Names : Expired(n) => Expired(n)'
           /\ \A d \in Days : Past(d, now, raced) => Past(d, now', raced')
<1>1. /\ Day(now) \in Nat /\ Day(now') \in Nat /\ Day(now) <= Day(now')
      /\ raced \subseteq raced' /\ Keep \in Nat
  BY Onwards, DayIsMonotone, ClockAssumption
<1>2. \A d \in Days : d < Day(now) - Keep => d < Day(now') - Keep
  BY <1>1, DayIsMonotone, ClockAssumption DEF Days
<1>3. \A n \in Names : n.day \in Days
  BY DEF Names
<1>4. Day(now)' = Day(now')
  BY DEF Day
<1> QED
  BY <1>1, <1>2, <1>3, <1>4 DEF Expired, Past

\* A rotation: h has found p of day d too large.
LEMMA Rotating ==
    ASSUME TypeOK, NEW h \in Handlers, Rotate(h)
    PROVE  LET d == Day(rec[h].ts) IN
           /\ d \in Days /\ pc[h] = "rotate" /\ AuditFile(rec[h]) = LiveOf(d)
           /\ LiveOf(d) \in Names /\ CopyOf(d) \in Names /\ LiveOf(d) # CopyOf(d)
           /\ pc' = [pc EXCEPT ![h] = "open"]
           /\ d \notin raced' => d \notin raced /\ OthersRotating(h) = {}
           /\ UNCHANGED <<now, rec, doomed, query, issued, rate, written, cut, due>>
           /\ \/ /\ LiveOf(d) \in DOMAIN file
                 /\ file' = Renamed(LiveOf(d), CopyOf(d)) /\ fd' = Follow(LiveOf(d), CopyOf(d))
                 /\ disturbed' = Readers /\ stuck' = stuck
              \/ /\ UNCHANGED <<file, fd, disturbed>>
                 /\ (LiveOf(d) \notin DOMAIN file /\ stuck' = stuck) \/ stuck' = stuck + 1
<1> DEFINE d == Day(rec[h].ts)
<1>1. pc[h] = "rotate" /\ rec[h] \in Records
  BY DEF Rotate, TypeOK, Inside
<1>2. /\ d \in Days /\ AuditFile(rec[h]) = LiveOf(d) /\ Rotated(LiveOf(d)) = CopyOf(d)
      /\ LiveOf(d) \in Names /\ CopyOf(d) \in Names /\ LiveOf(d) # CopyOf(d)
      /\ AuditFile(rec[h]).day = d
  BY <1>1, NamesTyped DEF TypeOK, LiveOf
<1> HIDE DEF d
<1>3. d \notin raced' => d \notin raced /\ OthersRotating(h) = {}
  BY <1>2 DEF Rotate
<1>4. /\ pc' = [pc EXCEPT ![h] = "open"]
      /\ UNCHANGED <<now, rec, doomed, query, issued, rate, written, cut, due>>
  BY DEF Rotate
<1>5. \/ /\ LiveOf(d) \in DOMAIN file
         /\ file' = Renamed(LiveOf(d), CopyOf(d)) /\ fd' = Follow(LiveOf(d), CopyOf(d))
         /\ disturbed' = Readers /\ stuck' = stuck
      \/ /\ UNCHANGED <<file, fd, disturbed>>
         /\ (LiveOf(d) \notin DOMAIN file /\ stuck' = stuck) \/ stuck' = stuck + 1
  BY <1>2 DEF Rotate, Exists
<1> QED
  BY <1>1, <1>2, <1>3, <1>4, <1>5 DEF d

\* Opening makes an empty file, or none.
LEMMA Opening ==
    ASSUME TypeOK, NEW h \in Handlers, OpenFile(h)
    PROVE  LET d == Day(rec[h].ts) IN
           /\ d \in Days /\ pc[h] = "open" /\ AuditFile(rec[h]) = LiveOf(d) /\ LiveOf(d) \in Names
           /\ pc' = [pc EXCEPT ![h] = "write"] /\ fd' = [fd EXCEPT ![h] = LiveOf(d)]
           /\ DOMAIN file' = DOMAIN file \cup {LiveOf(d)}
           /\ \A n \in DOMAIN file' : file'[n] = LinesOf(n)
           /\ \A n \in DOMAIN file : file'[n] = file[n]
           /\ \A n : LinesOf(n)' = LinesOf(n)
           /\ UNCHANGED <<now, rec, doomed, query, issued, faults, rate, history>>
<1>1. pc[h] = "open" /\ rec[h] \in Records
  BY DEF OpenFile, TypeOK, Inside
<1>2. /\ Day(rec[h].ts) \in Days /\ AuditFile(rec[h]) = LiveOf(Day(rec[h].ts))
      /\ LiveOf(Day(rec[h].ts)) \in Names
  BY <1>1, NamesTyped
<1>3. file' = [n \in DOMAIN file \cup {LiveOf(Day(rec[h].ts))} |-> LinesOf(n)]
  BY <1>2 DEF OpenFile
<1>4. \A n : LinesOf(n)' = LinesOf(n)
  BY <1>3 DEF LinesOf, Exists
<1> QED
  BY <1>1, <1>2, <1>3, <1>4 DEF OpenFile, LinesOf, Exists

\* Writing adds one line to one file, or to one that has no name.
Adds(n, x) ==
    /\ n \in DOMAIN file /\ DOMAIN file' = DOMAIN file
    /\ \A m \in DOMAIN file \ {n} : file'[m] = file[m]
    /\ DOMAIN file[n] = 1..Len(file[n]) /\ DOMAIN file'[n] = 1..(Len(file[n]) + 1)
    /\ Len(file[n]) \in Nat /\ Len(file'[n]) = Len(file[n]) + 1
    /\ \A i \in 1..Len(file[n]) : file'[n][i] = file[n][i]
    /\ file'[n][Len(file[n]) + 1] = x

\* A write ends the request and adds its line, if the file has a name.
LEMMA Writing ==
    ASSUME TypeOK, NEW h \in Handlers, WriteLine(h) \/ WriteTorn(h)
    PROVE  /\ pc[h] = "write" /\ rec[h] \in Records /\ Day(rec[h].ts) \in Days
           /\ rate' = rate + 1 /\ rate < MaxPerSecond
           /\ pc' = [pc EXCEPT ![h] = "idle"] /\ fd' = [fd EXCEPT ![h] = Gone]
           /\ rec' = [rec EXCEPT ![h] = Torn]
           /\ UNCHANGED <<now, doomed, query, issued, cut, raced, stuck, due, disturbed>>
           /\ WriteLine(h) => /\ written' = written \cup {rec[h]}
                              /\ fd[h] \in DOMAIN file => Adds(fd[h], rec[h])
           /\ WriteTorn(h) => /\ written' = written
                              /\ fd[h] \in DOMAIN file => Adds(fd[h], Torn)
           /\ fd[h] \notin DOMAIN file => file' = file
<1>1. ASSUME NEW x \in Lines, AppendLine(fd[h], x), fd[h] \in DOMAIN file PROVE Adds(fd[h], x)
  <2>1. fd[h] # Gone
    BY <1>1, OthersAssumption DEF TypeOK
  <2>2. file' = [file EXCEPT ![fd[h]] = Append(file[fd[h]], x)] /\ file[fd[h]] \in Seq(Lines)
    BY <1>1, <2>1 DEF AppendLine, TypeOK
  <2> QED
    BY <1>1, <2>2, OneMore DEF Adds
<1>2. ASSUME NEW x \in Lines, AppendLine(fd[h], x), fd[h] \notin DOMAIN file PROVE file' = file
  BY <1>2 DEF AppendLine, TypeOK
<1>3. pc[h] = "write" /\ rec[h] \in Records /\ Torn \in Lines /\ rec[h] \in Lines
  BY DEF WriteLine, WriteTorn, TypeOK, Inside, Lines
<1>4. WriteLine(h) => /\ written' = written \cup {rec[h]} /\ AppendLine(fd[h], rec[h])
  BY DEF WriteLine
<1>5. WriteTorn(h) => written' = written /\ AppendLine(fd[h], Torn)
  BY DEF WriteTorn, history
<1>6. /\ rate' = rate + 1 /\ rate < MaxPerSecond
      /\ pc' = [pc EXCEPT ![h] = "idle"] /\ fd' = [fd EXCEPT ![h] = Gone]
      /\ rec' = [rec EXCEPT ![h] = Torn]
      /\ UNCHANGED <<now, doomed, query, issued, cut, raced, stuck, due, disturbed>>
  BY DEF WriteLine, WriteTorn, Leave, history
<1>7. Day(rec[h].ts) \in Days
  BY <1>3, NamesTyped
<1> QED
  BY <1>1, <1>2, <1>3, <1>4, <1>5, <1>6, <1>7

\* What each step leaves alone: it touches the directory only if it is one of
\* the five that do.
Touches == \/ PowerLoss
           \/ \E h \in Handlers : Rotate(h) \/ OpenFile(h) \/ WriteLine(h) \/ WriteTorn(h)
           \/ \E c \in Cleaners, n \in Names : CleanRemove(c, n)

\* All other steps leave the directory and its history alone.
LEMMA Untouched ==
    ASSUME [Next]_vars, ~Touches PROVE file' = file /\ written' = written /\ cut' = cut
<1>1. ASSUME NEW h \in Handlers, Answer(h) \/ AppendAudit(h) PROVE UNCHANGED <<file, written, cut>>
  BY <1>1 DEF Answer, AppendAudit, StatFile, NoRecord, Touches, history
<1>2. ASSUME NEW c \in Cleaners, Clean(c) PROVE UNCHANGED <<file, written, cut>>
  BY <1>2 DEF Clean, CleanList, Touches, history
<1>3. ASSUME NEW q \in Readers, Query(q) PROVE UNCHANGED <<file, written, cut>>
  BY <1>3 DEF Query, QueryList, Listed, QueryRead, Collect, QueryFinish, QueryAgain, history
<1>4. CASE Tick \/ Kill \/ UNCHANGED vars
  BY <1>4 DEF Tick, Kill, vars, history
<1> QED
  BY <1>1, <1>2, <1>3, <1>4 DEF Next, Touches

\* Every record of the directory was in it before, at the same place of a file
\* of the same day; a rotation only gives that file another name.
Traced(o) ==
    /\ o \in [Names -> Names]
    /\ \A m, n \in Names : o[m] = o[n] => m = n
    /\ \A m \in Names : o[m].day = m.day
    /\ \A m \in DOMAIN file' : \A i \in DOMAIN file'[m] : file'[m][i] # Torn =>
          /\ o[m] \in DOMAIN file /\ i \in DOMAIN file[o[m]]
          /\ file[o[m]][i] = file'[m][i]

\* A step that moves no record to another place is traced.
LEMMA TracedInPlace ==
    ASSUME TypeOK,
           \A m \in DOMAIN file' : \A i \in DOMAIN file'[m] : file'[m][i] # Torn =>
              m \in DOMAIN file /\ i \in DOMAIN file[m] /\ file[m][i] = file'[m][i],
           DOMAIN file' \subseteq Names
    PROVE  \E o : Traced(o)
<1>1. Traced([n \in Names |-> n])
  BY DEF Traced
<1> QED
  BY <1>1

\* Every step that writes no record is traced.
LEMMA Origins ==
    ASSUME TypeOK, [Next]_vars, \A h \in Handlers : ~WriteLine(h)
    PROVE  \E o : Traced(o)
<1>0. DOMAIN file' \subseteq Names
  BY NextTypeOK DEF TypeOK
<1>1. CASE ~Touches
  BY <1>0, <1>1, Untouched, TracedInPlace DEF TypeOK
<1>2. ASSUME NEW h \in Handlers, Rotate(h) PROVE \E o : Traced(o)
  <2> DEFINE p == LiveOf(Day(rec[h].ts))
             t == CopyOf(Day(rec[h].ts))
  <2>1. p \in Names /\ t \in Names /\ p # t /\ p.day = t.day
    BY <1>2, Rotating DEF LiveOf, CopyOf
  <2>2. CASE file' = file
    BY <1>0, <2>2, TracedInPlace DEF TypeOK
  <2>3. CASE p \in DOMAIN file /\ file' = Renamed(p, t)
    <3> HIDE DEF p, t
    <3> DEFINE o == [n \in Names |-> IF n = t THEN p ELSE IF n = p THEN t ELSE n]
    <3>1. o \in [Names -> Names] /\ (\A m, n \in Names : o[m] = o[n] => m = n)
          /\ \A m \in Names : o[m].day = m.day
      BY <2>1
    <3>2. ASSUME NEW m \in DOMAIN file' PROVE o[m] \in DOMAIN file /\ file'[m] = file[o[m]]
      BY <1>0, <2>1, <2>3, <3>2 DEF Renamed
    <3> HIDE DEF o
    <3>3. Traced(o)
      BY <3>1, <3>2 DEF Traced
    <3> QED
      BY <3>3
  <2> QED
    BY <1>2, <2>2, <2>3, Rotating
<1>3. ASSUME NEW h \in Handlers, OpenFile(h) PROVE \E o : Traced(o)
  <2>1. ASSUME NEW m \in DOMAIN file', NEW i \in DOMAIN file'[m]
        PROVE  m \in DOMAIN file /\ i \in DOMAIN file[m] /\ file[m][i] = file'[m][i]
    <3>1. file'[m] = IF m \in DOMAIN file THEN file[m] ELSE << >>
      BY <1>3, <2>1, Opening DEF LinesOf, Exists
    <3>2. DOMAIN << >> = {}
      OBVIOUS
    <3> QED
      BY <2>1, <3>1, <3>2
  <2> QED
    BY <1>0, <2>1, TracedInPlace
<1>4. ASSUME NEW h \in Handlers, WriteTorn(h) PROVE \E o : Traced(o)
  <2>1. CASE fd[h] \in DOMAIN file
    <3>1. Adds(fd[h], Torn)
      BY <1>4, <2>1, Writing
    <3>2. ASSUME NEW m \in DOMAIN file', NEW i \in DOMAIN file'[m], file'[m][i] # Torn
          PROVE  m \in DOMAIN file /\ i \in DOMAIN file[m] /\ file[m][i] = file'[m][i]
      BY <3>1, <3>2 DEF Adds
    <3> QED
      BY <1>0, <3>2, TracedInPlace
  <2>2. CASE fd[h] \notin DOMAIN file
    BY <1>0, <1>4, <2>2, Writing, TracedInPlace DEF TypeOK
  <2> QED
    BY <2>1, <2>2
<1>5. ASSUME NEW c \in Cleaners, NEW n \in Names, CleanRemove(c, n) PROVE \E o : Traced(o)
  <2>1. \A m \in DOMAIN file' : m \in DOMAIN file /\ file'[m] = file[m]
    BY <1>5 DEF CleanRemove
  <2> QED
    BY <1>0, <2>1, TracedInPlace
<1>6. CASE PowerLoss
  <2>1. PICK n \in DOMAIN file, k \in Nat, s \in Seq(Lines) : Leaves(n, k, s)
    BY <1>6, WhatIsLeft
  <2>2. DOMAIN file[n] = 1..Len(file[n]) /\ Len(file[n]) \in Nat
    BY DEF TypeOK
  <2>3. ASSUME NEW m \in DOMAIN file', NEW i \in DOMAIN file'[m], file'[m][i] # Torn
        PROVE  m \in DOMAIN file /\ i \in DOMAIN file[m] /\ file[m][i] = file'[m][i]
    <3>1. CASE m = n
      <4>1. file'[m] = s
        BY <2>1, <3>1 DEF Leaves, TypeOK
      <4>2. i \in 1..Len(s) /\ i <= k /\ Len(s) \in Nat
        BY <2>1, <2>3, <4>1 DEF Leaves
      <4> QED
        BY <2>1, <2>2, <3>1, <4>1, <4>2 DEF Leaves
    <3>2. CASE m # n
      BY <2>1, <3>2 DEF Leaves
    <3> QED
      BY <3>1, <3>2
  <2> QED
    BY <1>0, <2>3, TracedInPlace
<1> QED
  BY <1>1, <1>2, <1>3, <1>4, <1>5, <1>6 DEF Touches

\* What becomes of a query.
LEMMA QueryChanges ==
    ASSUME TypeOK, [Next]_vars, NEW q \in Readers
    PROVE  query'[q] = query[q] \/ Query(q) \/ (PowerLoss /\ query'[q] = NoQuery)
<1>1. ASSUME NEW h \in Handlers, Answer(h) \/ AppendAudit(h) PROVE query' = query
  BY <1>1 DEF Answer, AppendAudit, StatFile, Rotate, OpenFile, NoRecord, WriteLine, WriteTorn
<1>2. ASSUME NEW c \in Cleaners, Clean(c) PROVE query' = query
  BY <1>2 DEF Clean, CleanList, CleanRemove
<1>3. ASSUME NEW p \in Readers, Query(p) PROVE query'[q] = query[q] \/ Query(q)
  BY <1>3, OneQuery
<1>4. CASE PowerLoss
  BY <1>4 DEF PowerLoss
<1>5. CASE Tick \/ Kill \/ UNCHANGED vars
  BY <1>5 DEF Tick, Kill, vars
<1> QED
  BY <1>1, <1>2, <1>3, <1>4, <1>5 DEF Next

\* Listing the directory.
LEMMA ListOne ==
    ASSUME TypeOK, NEW q \in Readers, QueryList(q)
    PROVE  /\ query'[q].at = "reading" /\ query'[q].got = << >>
           /\ query'[q].left = {n \in DOMAIN file : InWindow(n.day)}
           /\ due'[q] = {r \in Stored : InWindow(Day(r.ts))}
BY DEF QueryList, Listed, TypeOK

\* A query changes nothing but itself.
LEMMA QueryAlone ==
    ASSUME TypeOK, NEW q \in Readers, Query(q)
    PROVE  /\ UNCHANGED <<now, file, pc, rec, fd, doomed, issued, rate, stuck, written, cut, raced>>
           /\ \A p \in Readers \ {q} : query'[p] = query[p] /\ due'[p] = due[p]
           /\ ~QueryList(q) /\ ~QueryAgain(q) => due' = due
<1>1. CASE QueryList(q) \/ QueryAgain(q)
  BY <1>1 DEF QueryList, Listed, QueryAgain, work, TypeOK
<1>2. CASE QueryRead(q) \/ QueryFinish(q)
  BY <1>2 DEF QueryRead, Collect, QueryFinish, work, history, TypeOK
<1> QED
  BY <1>1, <1>2 DEF Query

\* A query never comes to read a name it has not listed.
LEMMA LeftAfter ==
    ASSUME TypeOK, [Next]_vars, NEW q \in Readers
    PROVE  query'[q].left \subseteq query[q].left \cup DOMAIN file
<1>1. CASE query'[q] = query[q]
  BY <1>1
<1>2. CASE query'[q] = NoQuery
  BY <1>2 DEF NoQuery
<1>3. CASE QueryList(q)
  BY <1>3, ListOne
<1>4. CASE QueryRead(q)
  <2>1. PICK n \in query[q].left, k \in Nat :
           query'[q] = [at |-> "reading", left |-> query[q].left \ {n},
                        got |-> query[q].got \o SubSeq(LinesOf(n), 1, k)]
    BY <1>4, ReadOne
  <2>2. query'[q].left = query[q].left \ {n}
    BY <2>1
  <2> QED
    BY <2>2
<1>5. CASE QueryFinish(q)
  <2>1. PICK t \in SortedByTS(query[q].got) : query'[q] = [at |-> "done", left |-> {}, got |-> t]
    BY <1>5, FinishOne
  <2> QED
    BY <2>1
<1>6. CASE QueryAgain(q)
  <2>1. query'[q] = NoQuery
    BY <1>6 DEF QueryAgain, TypeOK
  <2> QED
    BY <1>2, <2>1
<1> QED
  BY <1>1, <1>2, <1>3, <1>4, <1>5, <1>6, QueryChanges DEF Query

-----------------------------------------------------------------------------
(* Retention.                                                              *)
\* Records stay in files of their day.
LEMMA KeepsFiled ==
    ASSUME TypeOK, Filed, Opened, [Next]_vars
    PROVE  Filed'
<1>0. DOMAIN file' \subseteq Names
  BY NextTypeOK DEF TypeOK
<1>1. ASSUME NEW h \in Handlers, WriteLine(h) PROVE Filed'
  <2>1. CASE fd[h] \in DOMAIN file
    <3>1. Adds(fd[h], rec[h]) /\ fd[h].day = Day(rec[h].ts)
      BY <1>1, <2>1, Writing, OthersAssumption DEF Opened, TypeOK
    <3>2. ASSUME NEW n \in DOMAIN file', NEW i \in DOMAIN file'[n], file'[n][i] # Torn
          PROVE  Day(file'[n][i].ts) = n.day
      <4>1. CASE n = fd[h] /\ i = Len(file[fd[h]]) + 1
        BY <3>1, <4>1 DEF Adds
      <4>2. CASE ~(n = fd[h] /\ i = Len(file[fd[h]]) + 1)
        <5>1. n \in DOMAIN file /\ i \in DOMAIN file[n] /\ file'[n][i] = file[n][i]
          BY <3>1, <3>2, <4>2 DEF Adds
        <5> QED
          BY <3>2, <5>1 DEF Filed
      <4> QED
        BY <4>1, <4>2
    <3>3. \A t : Day(t)' = Day(t)
      BY DEF Day
    <3> QED
      BY <3>2 DEF Filed, Day
  <2>2. CASE fd[h] \notin DOMAIN file
    BY <1>1, <2>2, Writing DEF Filed, Day
  <2> QED
    BY <2>1, <2>2
<1>2. CASE \A h \in Handlers : ~WriteLine(h)
  <2>1. PICK o : Traced(o)
    BY <1>2, Origins
  <2>2. ASSUME NEW n \in DOMAIN file', NEW i \in DOMAIN file'[n], file'[n][i] # Torn
        PROVE  Day(file'[n][i].ts) = n.day
    BY <1>0, <2>1, <2>2 DEF Traced, Filed
  <2> QED
    BY <2>2 DEF Filed, Day
<1> QED
  BY <1>1, <1>2

\* A new name is a day's own, or the one a rotation gives.
LEMMA NamesAfter ==
    ASSUME TypeOK, [Next]_vars, NEW n \in DOMAIN file'
    PROVE  \/ n \in DOMAIN file \/ n.stamp = Live
           \/ \E h \in Handlers : Rotate(h) /\ n = CopyOf(Day(rec[h].ts))
<1>1. CASE ~Touches
  BY <1>1, Untouched
<1>2. ASSUME NEW h \in Handlers, Rotate(h) PROVE n \in DOMAIN file \/ n = CopyOf(Day(rec[h].ts))
  <2> DEFINE p == LiveOf(Day(rec[h].ts))
             t == CopyOf(Day(rec[h].ts))
  <2>1. file' = file \/ file' = Renamed(p, t)
    BY <1>2, Rotating
  <2> HIDE DEF p, t
  <2>2. n \in DOMAIN file \/ n = t
    BY <2>1 DEF Renamed
  <2> QED
    BY <2>2 DEF t
<1>3. ASSUME NEW h \in Handlers, OpenFile(h) PROVE n \in DOMAIN file \/ n.stamp = Live
  <2>1. DOMAIN file' = DOMAIN file \cup {LiveOf(Day(rec[h].ts))}
    BY <1>3, Opening
  <2>2. LiveOf(Day(rec[h].ts)).stamp = Live
    BY DEF LiveOf
  <2> QED
    BY <2>1, <2>2
<1>4. ASSUME NEW h \in Handlers, WriteLine(h) \/ WriteTorn(h) PROVE n \in DOMAIN file
  BY <1>4, Writing DEF Adds
<1>5. ASSUME NEW c \in Cleaners, NEW m \in Names, CleanRemove(c, m) PROVE n \in DOMAIN file
  BY <1>5 DEF CleanRemove
<1>6. CASE PowerLoss
  BY <1>6, WhatIsLeft DEF Leaves
<1> QED
  BY <1>1, <1>2, <1>3, <1>4, <1>5, <1>6 DEF Touches

\* No step makes a name of the future.
LEMMA KeepsStamped ==
    ASSUME TypeOK, Stamped, [Next]_vars
    PROVE  Stamped'
<1>1. now \in Nat /\ now' \in Nat /\ now <= now'
  BY Onwards
<1>2. \A n \in Names : n.stamp = Live \/ n.stamp \in Nat
  BY DEF Names
<1>3. DOMAIN file' \subseteq Names /\ \A q \in Readers : query'[q].left \subseteq Names
  BY NextTypeOK DEF TypeOK, Queries
<1>4. ASSUME NEW n \in DOMAIN file' PROVE n.stamp = Live \/ n.stamp <= now'
  <2>1. \A d : CopyOf(d).stamp = now
    BY DEF CopyOf
  <2> QED
    BY <1>1, <1>2, <1>3, <2>1, NamesAfter DEF Stamped
<1>5. ASSUME NEW q \in Readers, NEW n \in query'[q].left PROVE n.stamp = Live \/ n.stamp <= now'
  BY <1>1, <1>2, <1>3, LeftAfter DEF Stamped
<1> QED
  BY <1>4, <1>5 DEF Stamped

\* What is to be removed stays past its retention.
LEMMA KeepsDoomed ==
    ASSUME TypeOK, DoomedExpired, [Next]_vars
    PROVE  DoomedExpired'
<1> SUFFICES ASSUME NEW c \in Cleaners, NEW n \in doomed'[c] PROVE Expired(n)'
  BY DEF DoomedExpired
<1>0. n \in Names
  BY NextTypeOK DEF TypeOK
<1>1. CASE n \in doomed[c]
  BY <1>0, <1>1, StillExcused DEF DoomedExpired
<1>2. CASE n \notin doomed[c]
  <2>1. ASSUME NEW h \in Handlers, Answer(h) \/ AppendAudit(h) PROVE FALSE
    BY <1>2, <2>1 DEF Answer, AppendAudit, StatFile, Rotate, OpenFile, NoRecord, WriteLine, WriteTorn
  <2>2. ASSUME NEW b \in Cleaners, Clean(b) PROVE Expired(n)
    <3>1. CASE CleanList(b)
      <4>1. doomed'[c] = IF c = b THEN {m \in DOMAIN file : Expired(m)} ELSE doomed[c]
        BY <3>1 DEF CleanList, TypeOK
      <4> QED
        BY <1>2, <4>1
    <3>2. ASSUME NEW m \in Names, CleanRemove(b, m) PROVE FALSE
      BY <1>2, <3>2 DEF CleanRemove, TypeOK
    <3> QED
      BY <2>2, <3>1, <3>2 DEF Clean
  <2>3. ASSUME NEW q \in Readers, Query(q) PROVE FALSE
    BY <1>2, <2>3, QueryAlone
  <2>4. CASE Tick \/ UNCHANGED vars
    BY <1>2, <2>4 DEF Tick, vars
  <2>5. CASE Kill \/ PowerLoss
    BY <2>5 DEF Kill, PowerLoss, AllLeave
  <2> QED
    BY <1>0, <2>1, <2>2, <2>3, <2>4, <2>5, StillExcused DEF Next
<1> QED
  BY <1>1, <1>2

\* A handler that is about to rotate finds no copy of this second: the day
\* would be one on which two have rotated at once.
LEMMA NoCopyYet ==
    ASSUME TypeOK, FreshCopies, NEW h \in Handlers, Rotate(h),
           Day(rec[h].ts) \notin raced'
    PROVE  /\ CopyOf(Day(rec[h].ts)) \notin DOMAIN file
           /\ \A q \in Readers : CopyOf(Day(rec[h].ts)) \notin query[q].left
BY Rotating DEF FreshCopies

\* A handler keeps the file it has opened, unless its day is excused.
LEMMA KeepsOpened ==
    ASSUME TypeOK, Opened, DoomedExpired, FreshCopies, [Next]_vars
    PROVE  Opened'
<1> SUFFICES ASSUME NEW h \in Handlers, pc'[h] = "write"
             PROVE  \/ fd'[h] \in DOMAIN file' /\ fd'[h].day = Day(rec'[h].ts)
                    \/ fd'[h] = Gone /\ Past(Day(rec'[h].ts), now', raced')
  BY DEF Opened, Day
<1> DEFINE d == Day(rec[h].ts)
<1>0. /\ rec'[h] \in Records /\ Day(rec'[h].ts) \in Days
      /\ pc[h] = "write" => d \in Days
      /\ \A n \in Names : n.day \in Days
  BY NextTypeOK, NamesTyped DEF TypeOK, Inside, Names
<1>1. CASE pc[h] = "write" /\ rec'[h] = rec[h] /\ fd'[h] = fd[h] /\ DOMAIN file \subseteq DOMAIN file'
  BY <1>0, <1>1, StillExcused DEF Opened
<1>2. ASSUME NEW g \in Handlers, Rotate(g)
      PROVE  \/ fd'[h] \in DOMAIN file' /\ fd'[h].day = d
             \/ fd'[h] = Gone /\ Past(d, now', raced')
  <2> DEFINE e == Day(rec[g].ts)
             p == LiveOf(e)
             t == CopyOf(e)
  <2>1. /\ p \in Names /\ t \in Names /\ p # t /\ p.day = e /\ t.day = e /\ g # h
        /\ pc[h] = "write" /\ rec'[h] = rec[h] /\ e \in Days
    BY <1>2, Rotating DEF LiveOf, CopyOf, TypeOK
  <2>2. CASE file' = file /\ fd' = fd
    BY <1>1, <2>1, <2>2
  <2>3. CASE p \in DOMAIN file /\ file' = Renamed(p, t) /\ fd' = Follow(p, t)
    <3>1. e \notin raced' => t \notin DOMAIN file
      BY <1>2, NoCopyYet
    <3> HIDE DEF p, t, e
    <3>2. /\ DOMAIN file' = (DOMAIN file \ {p}) \cup {t}
          /\ fd'[h] = IF fd[h] = p THEN t ELSE IF fd[h] = t THEN Gone ELSE fd[h]
      BY <2>3 DEF Renamed, Follow
    <3>3. CASE fd[h] = p
      <4>1. d = e
        BY <2>1, <3>3, OthersAssumption DEF Opened
      <4> QED
        BY <2>1, <3>2, <3>3, <4>1
    <3>4. CASE fd[h] = t
      <4>1. t \in DOMAIN file /\ d = e
        BY <2>1, <3>4, OthersAssumption DEF Opened
      <4>2. Past(d, now', raced')
        BY <3>1, <4>1 DEF Past
      <4> QED
        BY <2>1, <3>2, <3>4, <4>2
    <3>5. CASE fd[h] # p /\ fd[h] # t
      BY <1>0, <2>1, <3>2, <3>5, StillExcused DEF Opened
    <3> QED
      BY <3>3, <3>4, <3>5
  <2> QED
    BY <1>2, <2>2, <2>3, Rotating
<1>3. ASSUME NEW g \in Handlers, OpenFile(g)
      PROVE  \/ fd'[h] \in DOMAIN file' /\ fd'[h].day = Day(rec'[h].ts)
             \/ fd'[h] = Gone /\ Past(Day(rec'[h].ts), now', raced')
  <2>1. CASE h = g
    <3>1. /\ fd'[h] = LiveOf(d) /\ rec' = rec /\ LiveOf(d) \in DOMAIN file'
      BY <1>3, <2>1, Opening DEF TypeOK
    <3>2. LiveOf(d).day = d
      BY DEF LiveOf
    <3>3. fd'[h] \in DOMAIN file' /\ fd'[h].day = Day(rec'[h].ts)
      BY <3>1, <3>2
    <3> QED
      BY <3>3
  <2>2. CASE h # g
    BY <1>1, <1>3, <2>2, Opening DEF TypeOK
  <2> QED
    BY <2>1, <2>2
<1>4. ASSUME NEW g \in Handlers, WriteLine(g) \/ WriteTorn(g)
      PROVE  pc[h] = "write" /\ rec'[h] = rec[h] /\ fd'[h] = fd[h] /\ DOMAIN file \subseteq DOMAIN file'
  BY <1>4, Writing DEF Adds, TypeOK
<1>5. ASSUME NEW c \in Cleaners, NEW n \in Names, CleanRemove(c, n)
      PROVE  \/ fd'[h] \in DOMAIN file' /\ fd'[h].day = d
             \/ fd'[h] = Gone /\ Past(d, now', raced')
  <2>1. /\ pc[h] = "write" /\ fd'[h] = (IF fd[h] = n THEN Gone ELSE fd[h])
        /\ DOMAIN file' = DOMAIN file \ {n} /\ Expired(n)
    BY <1>5 DEF CleanRemove, DoomedExpired
  <2>2. CASE fd[h] = n
    <3>1. d = n.day
      BY <2>1, <2>2, OthersAssumption DEF Opened
    <3> QED
      BY <1>0, <2>1, <2>2, <3>1, StillExcused DEF Expired, Past
  <2>3. CASE fd[h] # n
    BY <1>0, <2>1, <2>3, StillExcused DEF Opened
  <2> QED
    BY <2>2, <2>3
<1>6. CASE Kill \/ PowerLoss
  BY <1>6 DEF Kill, PowerLoss, AllLeave
<1>7. CASE ~Touches /\ ~Kill
  <2>1. file' = file
    BY <1>7, Untouched
  <2>2. ASSUME NEW g \in Handlers, Answer(g) \/ AppendAudit(g)
        PROVE  pc[h] = "write" /\ rec'[h] = rec[h] /\ fd'[h] = fd[h]
    BY <1>7, <2>2 DEF Answer, AppendAudit, StatFile, NoRecord, Leave, Touches, TypeOK
  <2>3. ASSUME NEW c \in Cleaners, Clean(c) PROVE UNCHANGED <<pc, rec, fd>>
    BY <1>7, <2>3 DEF Clean, CleanList, Touches, work
  <2>4. ASSUME NEW q \in Readers, Query(q) PROVE UNCHANGED <<pc, rec, fd>>
    BY <2>4, QueryAlone
  <2>5. ASSUME Tick \/ UNCHANGED vars PROVE UNCHANGED <<pc, rec, fd>>
    BY <2>5 DEF Tick, vars, work
  <2>6. pc[h] = "write" /\ rec'[h] = rec[h] /\ fd'[h] = fd[h]
    BY <1>7, <2>2, <2>3, <2>4, <2>5 DEF Next, Touches
  <2> QED
    BY <1>1, <2>1, <2>6
<1>8. (\E g \in Handlers : Rotate(g)) \/ (\E c \in Cleaners, n \in Names : CleanRemove(c, n))
      => rec'[h] = rec[h]
  BY DEF Rotate, CleanRemove
<1> QED
  BY <1>1, <1>2, <1>3, <1>4, <1>5, <1>6, <1>7, <1>8 DEF Touches

\* A file grows by a line somebody writes, or under the name it is given.
LEMMA Lengths ==
    ASSUME TypeOK, [Next]_vars, NEW n \in Names
    PROVE  \/ Len(LinesOf(n))' <= Len(LinesOf(n))
           \/ /\ Len(LinesOf(n))' = Len(LinesOf(n)) + 1
              /\ \E h \in Handlers : (WriteLine(h) \/ WriteTorn(h)) /\ fd[h] = n
           \/ \E h \in Handlers : /\ Rotate(h) /\ n = CopyOf(Day(rec[h].ts))
                                  /\ LiveOf(Day(rec[h].ts)) \in DOMAIN file
                                  /\ file' = Renamed(LiveOf(Day(rec[h].ts)), n)
<1>0. /\ Len(LinesOf(n)) \in Nat /\ Len(<< >>) = 0
      /\ n \in DOMAIN file => LinesOf(n) = file[n]
      /\ n \notin DOMAIN file => LinesOf(n) = << >>
      /\ n \in DOMAIN file' => LinesOf(n)' = file'[n]
      /\ n \notin DOMAIN file' => LinesOf(n)' = << >>
  BY LinesTyped DEF LinesOf, Exists
<1>1. CASE n \in DOMAIN file' => n \in DOMAIN file /\ file'[n] = file[n]
  BY <1>0, <1>1
<1>2. CASE ~Touches
  BY <1>1, <1>2, Untouched
<1>3. ASSUME NEW h \in Handlers, Rotate(h)
      PROVE  \/ n \in DOMAIN file' => n \in DOMAIN file /\ file'[n] = file[n]
             \/ /\ n = CopyOf(Day(rec[h].ts)) /\ LiveOf(Day(rec[h].ts)) \in DOMAIN file
                /\ file' = Renamed(LiveOf(Day(rec[h].ts)), n)
  <2> DEFINE p == LiveOf(Day(rec[h].ts))
             t == CopyOf(Day(rec[h].ts))
  <2>1. file' = file \/ (p \in DOMAIN file /\ file' = Renamed(p, t))
    BY <1>3, Rotating
  <2> HIDE DEF p, t
  <2>2. \/ n \in DOMAIN file' => n \in DOMAIN file /\ file'[n] = file[n]
        \/ n = t /\ p \in DOMAIN file /\ file' = Renamed(p, t)
    BY <2>1 DEF Renamed
  <2> QED
    BY <2>2 DEF p, t
<1>4. ASSUME NEW h \in Handlers, OpenFile(h) PROVE LinesOf(n)' = LinesOf(n)
  BY <1>4, Opening
<1>5. ASSUME NEW h \in Handlers, WriteLine(h) \/ WriteTorn(h)
      PROVE  \/ n \in DOMAIN file' => n \in DOMAIN file /\ file'[n] = file[n]
             \/ fd[h] = n /\ Len(LinesOf(n))' = Len(LinesOf(n)) + 1
  BY <1>0, <1>5, Writing DEF Adds
<1>6. ASSUME NEW c \in Cleaners, NEW m \in Names, CleanRemove(c, m)
      PROVE  n \in DOMAIN file' => n \in DOMAIN file /\ file'[n] = file[n]
  BY <1>6 DEF CleanRemove
<1>7. CASE PowerLoss
  <2>1. PICK m \in DOMAIN file, k \in Nat, s \in Seq(Lines) : Leaves(m, k, s)
    BY <1>7, WhatIsLeft
  <2>2. CASE n = m
    <3>1. file'[n] = s /\ n \in DOMAIN file' /\ n \in DOMAIN file /\ Len(s) \in k..Len(file[n])
      BY <2>1, <2>2 DEF Leaves, TypeOK
    <3> QED
      BY <1>0, <3>1
  <2>3. CASE n # m
    BY <1>1, <2>1, <2>3 DEF Leaves
  <2> QED
    BY <2>2, <2>3
<1> QED
  BY <1>0, <1>1, <1>2, <1>3, <1>4, <1>5, <1>6, <1>7 DEF Touches

\* Who comes to rotate, and what writing costs of the second's rate.
LEMMA RotatingAfter ==
    ASSUME TypeOK, [Next]_vars, NEW h \in Handlers, pc'[h] = "rotate"
    PROVE  /\ rec'[h] = rec[h] /\ rec[h] \in Records
           /\ pc[h] = "rotate" \/ (Oversize(AuditFile(rec[h])) /\ file' = file)
<1> DEFINE Stays == pc[h] = "rotate" /\ rec'[h] = rec[h]
           Comes == /\ rec'[h] = rec[h] /\ rec[h] \in Records
                    /\ Oversize(AuditFile(rec[h])) /\ file' = file
<1>1. ASSUME NEW g \in Handlers, Answer(g) \/ AppendAudit(g) PROVE Stays \/ Comes
  <2>1. CASE StatFile(g)
    <3>1. /\ pc[g] = "answering" /\ rec' = rec /\ file' = file
          /\ pc' = [pc EXCEPT ![g] = IF Oversize(AuditFile(rec[g])) THEN "rotate" ELSE "open"]
      BY <2>1 DEF StatFile
    <3>2. CASE h = g
      BY <3>1, <3>2 DEF TypeOK, Inside
    <3>3. CASE h # g
      BY <3>1, <3>3 DEF TypeOK
    <3> QED
      BY <3>2, <3>3
  <2>2. CASE Answer(g)
    BY <2>2 DEF Answer, TypeOK
  <2>3. CASE Rotate(g) \/ OpenFile(g)
    <3>1. rec' = rec /\ (pc' = [pc EXCEPT ![g] = "open"] \/ pc' = [pc EXCEPT ![g] = "write"])
      BY <2>3 DEF Rotate, OpenFile
    <3> QED
      BY <3>1 DEF TypeOK
  <2>4. CASE WriteLine(g) \/ WriteTorn(g)
    <3>1. pc' = [pc EXCEPT ![g] = "idle"] /\ rec' = [rec EXCEPT ![g] = Torn]
      BY <2>4, Writing
    <3> QED
      BY <3>1 DEF TypeOK
  <2>5. CASE NoRecord(g)
    BY <2>5 DEF NoRecord, Leave, TypeOK
  <2> QED
    BY <1>1, <2>1, <2>2, <2>3, <2>4, <2>5 DEF AppendAudit
<1>2. ASSUME NEW c \in Cleaners, Clean(c) PROVE UNCHANGED <<pc, rec>>
  BY <1>2 DEF Clean, CleanList, CleanRemove, work
<1>3. ASSUME NEW q \in Readers, Query(q) PROVE UNCHANGED <<pc, rec>>
  BY <1>3, QueryAlone
<1>4. ASSUME Tick \/ UNCHANGED vars PROVE UNCHANGED <<pc, rec>>
  BY <1>4 DEF Tick, vars, work
<1>5. ~Kill /\ ~PowerLoss
  BY DEF Kill, PowerLoss, AllLeave
<1>6. UNCHANGED <<pc, rec>> => Stays
  OBVIOUS
<1> HIDE DEF Stays, Comes
<1>7. Stays \/ Comes
  BY <1>1, <1>2, <1>3, <1>4, <1>5, <1>6 DEF Next
<1>8. pc[h] = "rotate" => rec[h] \in Records
  BY DEF TypeOK, Inside
<1> QED
  BY <1>7, <1>8 DEF Stays, Comes

\* Each line written is counted in its second.
LEMMA RateAfter ==
    ASSUME TypeOK, [Next]_vars, now' = now
    PROVE  \/ rate' = rate /\ \A h \in Handlers : ~WriteLine(h) /\ ~WriteTorn(h)
           \/ rate' = rate + 1
<1>0. now \in Nat /\ rate \in Nat
  BY DEF TypeOK
<1>1. CASE \E h \in Handlers : WriteLine(h) \/ WriteTorn(h)
  BY <1>1, Writing
<1>2. CASE \A h \in Handlers : ~WriteLine(h) /\ ~WriteTorn(h)
  <2>1. ASSUME NEW h \in Handlers, Answer(h) \/ AppendAudit(h) PROVE rate' = rate
    BY <1>2, <2>1 DEF Answer, AppendAudit, StatFile, Rotate, OpenFile, NoRecord
  <2>2. ASSUME NEW c \in Cleaners, Clean(c) PROVE rate' = rate
    BY <2>2 DEF Clean, CleanList, CleanRemove
  <2>3. ASSUME NEW q \in Readers, Query(q) PROVE rate' = rate
    BY <2>3, QueryAlone
  <2>4. CASE Kill \/ PowerLoss \/ UNCHANGED vars
    BY <1>2, <2>4 DEF Kill, PowerLoss, vars
  <2>5. CASE Tick
    BY <1>0, <2>5 DEF Tick
  <2> QED
    BY <1>2, <2>1, <2>2, <2>3, <2>4, <2>5 DEF Next
<1> QED
  BY <1>1, <1>2

\* A copy of this second comes with a small file of the day, which stays small.
LEMMA KeepsFresh ==
    ASSUME TypeOK, Stamped, FreshCopies, [Next]_vars
    PROVE  FreshCopies'
<1> SUFFICES ASSUME NEW d \in Days, d \notin raced',
                    \/ CopyOf(d)' \in DOMAIN file'
                    \/ \E q \in Readers : CopyOf(d)' \in query'[q].left
             PROVE  /\ Len(LinesOf(LiveOf(d)))' <= rate'
                    /\ \A h \in Handlers : pc'[h] = "rotate" => Day(rec'[h].ts) # d
  BY DEF FreshCopies, Day, Days, LiveOf
<1>0. /\ now \in Nat /\ now' \in 0..MaxTime /\ now <= now' /\ raced \subseteq raced'
      /\ rate \in Nat /\ rate <= MaxPerSecond /\ MaxPerSecond \in Nat /\ MaxSize \in Nat
      /\ Len(LinesOf(LiveOf(d))) \in Nat
      /\ LiveOf(d) \in Names /\ CopyOf(d) \in Names /\ CopyOf(d).stamp # Live
      /\ CopyOf(d)'.stamp = now' /\ CopyOf(d) # LiveOf(d)
      /\ now' = now => CopyOf(d)' = CopyOf(d)
  <2>1. now \in 0..MaxTime /\ now' \in 0..MaxTime /\ now <= now' /\ raced \subseteq raced'
    BY Onwards
  <2>2. LiveOf(d) \in Names /\ CopyOf(d) \in Names /\ CopyOf(d) # LiveOf(d)
    BY <2>1, NamesTyped
  <2>3. CopyOf(d).stamp = now /\ CopyOf(d)'.stamp = now' /\ (now' = now => CopyOf(d)' = CopyOf(d))
    BY DEF CopyOf
  <2> QED
    BY <2>1, <2>2, <2>3, LiveAssumption, RateAssumption, LinesTyped DEF TypeOK
<1>1. ASSUME now' # now PROVE FALSE
  <2>1. CopyOf(d)' \in DOMAIN file \/ \E q \in Readers : CopyOf(d)' \in query[q].left
    BY <1>1, Onwards
  <2>2. CopyOf(d)'.stamp = Live \/ CopyOf(d)'.stamp <= now
    BY <2>1 DEF Stamped
  <2> QED
    BY <1>0, <1>1, <2>2, LiveAssumption
<1>2. ASSUME NEW h \in Handlers, Rotate(h), Day(rec[h].ts) = d
      PROVE  /\ Len(LinesOf(LiveOf(d)))' <= rate'
             /\ \A g \in Handlers : pc'[g] = "rotate" => Day(rec'[g].ts) # d
  <2>1. /\ CopyOf(d) \notin DOMAIN file /\ \A q \in Readers : CopyOf(d) \notin query[q].left
        /\ OthersRotating(h) = {} /\ pc' = [pc EXCEPT ![h] = "open"] /\ rate' = rate
        /\ AuditFile(rec[h]) = LiveOf(d)
        /\ query' = query /\ rec' = rec
    BY <1>2, NoCopyYet, Rotating
  <2>2. file' = Renamed(LiveOf(d), CopyOf(d))
    <3>1. file' # file
      BY <1>0, <1>1, <2>1
    <3> QED
      BY <1>2, <3>1, Rotating
  <2>3. LiveOf(d) \notin DOMAIN file'
    BY <1>0, <2>2 DEF Renamed
  <2>4. Len(LinesOf(LiveOf(d)))' = 0
    <3>1. LiveOf(d)' = LiveOf(d)
      BY DEF LiveOf
    <3>2. LinesOf(LiveOf(d))' = << >>
      BY <2>3, <3>1 DEF LinesOf, Exists
    <3> QED
      BY <3>2
  <2>5. ASSUME NEW g \in Handlers, pc'[g] = "rotate", Day(rec'[g].ts) = d PROVE FALSE
    <3>1. g # h /\ pc[g] = "rotate" /\ Day(rec[g].ts) = d /\ rec[g] \in Records
      BY <2>1, <2>5 DEF TypeOK, Inside
    <3>2. AuditFile(rec[g]) = LiveOf(d)
      BY <3>1, NamesTyped
    <3> QED
      BY <2>1, <3>1, <3>2 DEF OthersRotating
  <2> QED
    BY <1>0, <2>1, <2>4, <2>5
<1>3. CASE \A h \in Handlers : Rotate(h) => Day(rec[h].ts) # d
  <2>0. now' = now /\ d \notin raced
    BY <1>0, <1>1
  <2>1. CopyOf(d) \in DOMAIN file \/ \E q \in Readers : CopyOf(d) \in query[q].left
    <3>1. CASE CopyOf(d) \in DOMAIN file'
      <4>1. \A e : CopyOf(e) = CopyOf(d) => e = d
        BY DEF CopyOf
      <4> QED
        BY <1>0, <1>3, <3>1, <4>1, NamesAfter
    <3>2. CASE \E q \in Readers : CopyOf(d) \in query'[q].left
      BY <3>2, LeftAfter
    <3> QED
      BY <1>0, <2>0, <3>1, <3>2
  <2>2. /\ Len(LinesOf(LiveOf(d))) <= rate
        /\ \A h \in Handlers : pc[h] = "rotate" => Day(rec[h].ts) # d
    BY <2>0, <2>1 DEF FreshCopies
  <2>3. Len(LinesOf(LiveOf(d)))' <= rate'
    <3>1. LiveOf(d)' = LiveOf(d)
      BY DEF LiveOf
    <3>2. \A e : CopyOf(e).stamp = now /\ LiveOf(d).stamp = Live /\ now # Live
      BY <1>0, LiveAssumption DEF CopyOf, LiveOf, TypeOK
    <3> DEFINE n == LiveOf(d)
    <3>3. n \in Names /\ n' = n
      BY <1>0, <3>1
    <3>4. \A h \in Handlers : n # CopyOf(Day(rec[h].ts))
      BY <3>2
    <3> HIDE DEF n
    <3>5. \/ Len(LinesOf(n))' <= Len(LinesOf(n))
          \/ /\ Len(LinesOf(n))' = Len(LinesOf(n)) + 1
             /\ \E h \in Handlers : WriteLine(h) \/ WriteTorn(h)
      BY <3>3, <3>4, Lengths
    <3>6. Len(LinesOf(n))' \in Nat
      <4>1. TypeOK'
        BY NextTypeOK
      <4> QED
        BY <3>3, <4>1 DEF TypeOK, LinesOf, Exists
    <3> QED
      BY <1>0, <2>0, <2>2, <3>5, RateAfter DEF n
  <2>4. ASSUME NEW h \in Handlers, pc'[h] = "rotate", Day(rec'[h].ts) = d PROVE FALSE
    <3>1. rec'[h] = rec[h] /\ rec[h] \in Records /\ Oversize(AuditFile(rec[h]))
      BY <2>2, <2>4, RotatingAfter
    <3>2. AuditFile(rec[h]) = LiveOf(d)
      BY <2>4, <3>1, NamesTyped
    <3> QED
      BY <1>0, <2>2, <3>1, <3>2, RateAssumption DEF Oversize
  <2> QED
    BY <2>3, <2>4
<1> QED
  BY <1>2, <1>3

\* Where the records of the directory are.
LEMMA StoredAt ==
    ASSUME NEW r
    PROVE  /\ r \in Stored <=> r # Torn /\ \E n \in DOMAIN file : \E i \in DOMAIN file[n] : file[n][i] = r
           /\ (r \in Stored)' <=> r # Torn /\ \E n \in DOMAIN file' : \E i \in DOMAIN file'[n] : file'[n][i] = r
BY DEF Stored, ToSet

\* Only a write and a power loss change what was written and cut.
LEMMA WrittenAfter ==
    ASSUME TypeOK, [Next]_vars
    PROVE  /\ cut \subseteq cut'
           /\ \A r \in written' \ written : \E h \in Handlers : WriteLine(h) /\ r = rec[h]
<1>1. CASE ~Touches
  BY <1>1, Untouched
<1>2. ASSUME NEW h \in Handlers, Rotate(h) PROVE UNCHANGED <<written, cut>>
  BY <1>2, Rotating
<1>3. ASSUME NEW h \in Handlers, OpenFile(h) PROVE UNCHANGED <<written, cut>>
  BY <1>3, Opening DEF history
<1>4. ASSUME NEW h \in Handlers, WriteLine(h) PROVE cut' = cut /\ written' = written \cup {rec[h]}
  BY <1>4, Writing
<1>5. ASSUME NEW h \in Handlers, WriteTorn(h) PROVE UNCHANGED <<written, cut>>
  BY <1>5, Writing
<1>6. ASSUME NEW c \in Cleaners, NEW n \in Names, CleanRemove(c, n) PROVE UNCHANGED <<written, cut>>
  BY <1>6 DEF CleanRemove
<1>7. CASE PowerLoss
  <2>1. written' = written /\ cut \subseteq cut'
    BY <1>7 DEF PowerLoss
  <2> QED
    BY <2>1
<1> QED
  BY <1>1, <1>2, <1>3, <1>4, <1>5, <1>6, <1>7 DEF Touches

\* A record that is kept is not lost by any step.
LEMMA StaysSomewhere ==
    ASSUME TypeOK, Filed, DoomedExpired, FreshCopies, [Next]_vars,
           NEW n \in DOMAIN file, NEW i \in DOMAIN file[n], file[n][i] # Torn,
           file[n][i] \notin cut', ~Past(n.day, now', raced')
    PROVE  \E m \in DOMAIN file' : \E j \in DOMAIN file'[m] : file'[m][j] = file[n][i]
<1>0. n \in Names /\ n.day \in Days
  BY DEF TypeOK, Names
<1>1. CASE n \in DOMAIN file' /\ file'[n] = file[n]
  BY <1>1
<1>2. CASE ~Touches
  BY <1>1, <1>2, Untouched
<1>3. ASSUME NEW h \in Handlers, Rotate(h)
      PROVE  \E m \in DOMAIN file' : file'[m] = file[n]
  <2> DEFINE d == Day(rec[h].ts)
             p == LiveOf(d)
             t == CopyOf(d)
  <2>1. file' = file \/ (p \in DOMAIN file /\ file' = Renamed(p, t))
    BY <1>3, Rotating
  <2>2. d \notin raced' => t \notin DOMAIN file
    BY <1>3, NoCopyYet
  <2>3. t.day = d
    BY DEF CopyOf
  <2> HIDE DEF p, t, d
  <2>4. n # t
    BY <2>2, <2>3 DEF Past
  <2> QED
    BY <2>1, <2>4 DEF Renamed
<1>4. ASSUME NEW h \in Handlers, OpenFile(h) PROVE n \in DOMAIN file' /\ file'[n] = file[n]
  BY <1>4, Opening
<1>5. ASSUME NEW h \in Handlers, WriteLine(h) \/ WriteTorn(h)
      PROVE  n \in DOMAIN file' /\ i \in DOMAIN file'[n] /\ file'[n][i] = file[n][i]
  BY <1>5, Writing DEF Adds
<1>6. ASSUME NEW c \in Cleaners, NEW m \in Names, CleanRemove(c, m)
      PROVE  n \in DOMAIN file' /\ file'[n] = file[n]
  <2>1. m \in doomed[c] /\ file' = [x \in DOMAIN file \ {m} |-> file[x]]
    BY <1>6 DEF CleanRemove
  <2>2. n # m
    BY <1>0, <2>1, StillExcused DEF DoomedExpired, Expired, Past
  <2> QED
    BY <2>1, <2>2
<1>7. CASE PowerLoss
  <2>1. PICK m \in DOMAIN file, k \in Nat, s \in Seq(Lines) : Leaves(m, k, s)
    BY <1>7, WhatIsLeft
  <2>2. CASE n # m
    BY <1>1, <2>1, <2>2 DEF Leaves
  <2>3. CASE n = m
    <3>1. /\ n \in DOMAIN file' /\ file'[n] = s /\ DOMAIN s = 1..Len(s) /\ k <= Len(s)
          /\ Len(s) \in Nat /\ \A j \in 1..k : s[j] = file[n][j]
          /\ DOMAIN file[n] = 1..Len(file[n]) /\ Len(file[n]) \in Nat
      BY <2>1, <2>3 DEF Leaves, TypeOK
    <3>2. PICK j \in 1..k : file[n][j] = file[n][i]
      BY <2>1, <2>3, <3>1 DEF Leaves
    <3> QED
      BY <3>1, <3>2
  <2> QED
    BY <2>2, <2>3
<1> QED
  BY <1>1, <1>2, <1>3, <1>4, <1>5, <1>6, <1>7 DEF Touches

\* So no step takes a record before its day is past its retention.
LEMMA KeepsRecords ==
    ASSUME TypeOK, Filed, Opened, DoomedExpired, FreshCopies, KeptWithinRetention, [Next]_vars
    PROVE  KeptWithinRetention'
<1> SUFFICES ASSUME NEW r \in written', r \notin cut', ~Past(Day(r.ts), now', raced')
             PROVE  (r \in Stored)'
  BY DEF KeptWithinRetention, Past, Day
<1>0. r \in Records /\ Day(r.ts) \in Days /\ r # Torn
  BY NextTypeOK, NamesTyped, OthersAssumption DEF TypeOK
<1>1. ~Past(Day(r.ts), now, raced) /\ r \notin cut
  BY <1>0, StillExcused, WrittenAfter
<1>2. CASE r \in written
  <2>1. PICK n \in DOMAIN file : \E i \in DOMAIN file[n] : file[n][i] = r
    BY <1>1, <1>2, StoredAt DEF KeptWithinRetention, Past
  <2>2. PICK i \in DOMAIN file[n] : file[n][i] = r
    BY <2>1
  <2>3. Day(r.ts) = n.day
    BY <1>0, <2>2 DEF Filed
  <2>4. \E m \in DOMAIN file' : \E j \in DOMAIN file'[m] : file'[m][j] = r
    BY <1>0, <2>2, <2>3, StaysSomewhere
  <2> QED
    BY <1>0, <2>4, StoredAt
<1>3. CASE r \notin written
  <2>1. PICK h \in Handlers : WriteLine(h) /\ r = rec[h]
    BY <1>3, WrittenAfter
  <2>2. fd[h] \in DOMAIN file
    BY <1>1, <2>1, Writing DEF Opened
  <2>3. Adds(fd[h], rec[h])
    BY <2>1, <2>2, Writing
  <2>4. \E m \in DOMAIN file' : \E j \in DOMAIN file'[m] : file'[m][j] = r
    <3> DEFINE n == fd[h]
    <3>1. n \in DOMAIN file' /\ Len(file[n]) + 1 \in DOMAIN file'[n] /\ file'[n][Len(file[n]) + 1] = r
      BY <2>1, <2>3 DEF Adds
    <3> QED
      BY <3>1
  <2> QED
    BY <1>0, <2>4, StoredAt
<1> QED
  BY <1>2, <1>3

\* The invariant behind retention.
RInv == TypeOK /\ Filed /\ Stamped /\ DoomedExpired /\ Opened /\ FreshCopies /\ KeptWithinRetention

\* The retention invariant holds at first.
LEMMA InitRInv == ASSUME Init PROVE RInv
<1>1. DOMAIN file = {} /\ \A q \in Readers : query[q].left = {}
  BY DEF Init, NoFiles, NoQuery
<1>2. Filed /\ Stamped /\ FreshCopies
  BY <1>1 DEF Filed, Stamped, FreshCopies
<1>3. DoomedExpired /\ Opened /\ KeptWithinRetention
  BY DEF Init, DoomedExpired, Opened, KeptWithinRetention
<1> QED
  BY <1>2, <1>3, InitTypeOK DEF RInv

\* Every step keeps it.
LEMMA NextRInv == RInv /\ [Next]_vars => RInv'
<1>1. ASSUME TypeOK, Filed, Stamped, DoomedExpired, Opened, FreshCopies, KeptWithinRetention,
             [Next]_vars
      PROVE  TypeOK' /\ Filed' /\ Stamped' /\ DoomedExpired' /\ Opened' /\ FreshCopies'
             /\ KeptWithinRetention'
  BY <1>1, NextTypeOK, KeepsFiled, KeepsStamped, KeepsDoomed, KeepsOpened, KeepsFresh, KeepsRecords
<1> QED
  BY <1>1 DEF RInv

\* The invariant behind retention holds in every reachable state.
THEOREM RetentionInductive == Spec => []RInv
<1>1. Init => RInv
  BY InitRInv
<1> QED
  BY <1>1, NextRInv, PTL DEF Spec

\* Every variable of the directory and of its users keeps its type.
THEOREM TypeCorrect == Spec => []TypeOK
<1>1. RInv => TypeOK
  BY DEF RInv
<1> QED
  BY <1>1, RetentionInductive, PTL

\* Whatever handlers, cleaners, queries and stops do at the same time, a
\* record whose append reported success is in some file until its day is past
\* its retention, unless a power loss has taken it or two handlers have
\* rotated its day's file at once.
THEOREM NothingLostEarly == Spec => []KeptWithinRetention
<1>1. RInv => KeptWithinRetention
  BY DEF RInv
<1> QED
  BY <1>1, RetentionInductive, PTL

-----------------------------------------------------------------------------
(* Size.                                                                   *)
\* The handlers with a line to write to a file are counted.
LEMMA PendingCounted ==
    ASSUME NEW n
    PROVE  /\ Cardinality(Handlers) \in Nat
           /\ IsFiniteSet(Pending(n)) /\ Cardinality(Pending(n)) \in Nat
           /\ Cardinality(Pending(n)) <= Cardinality(Handlers)
           /\ Cardinality(Pending(n))' \in Nat
           /\ Cardinality(Pending(n))' <= Cardinality(Handlers)
<1>1. \A S \in SUBSET Handlers : /\ IsFiniteSet(S) /\ Cardinality(S) \in Nat
                                 /\ Cardinality(S) <= Cardinality(Handlers)
  BY BoundsAssumption, FS_Subset, FS_CardinalityType
<1>2. Pending(n) \in SUBSET Handlers /\ Pending(n)' \in SUBSET Handlers
  BY DEF Pending
<1> QED
  BY <1>1, <1>2, BoundsAssumption, FS_CardinalityType

\* A file is within its bound again when it has become a shorter one, with no
\* more handlers behind it, or was small when they looked.
LEMMA RoomAt ==
    ASSUME TypeOK, TypeOK', Room, MaxSize > 0, NEW n \in Names, stuck <= stuck',
           \/ Len(LinesOf(n))' <= MaxSize
           \/ \E m \in Names : /\ Len(LinesOf(n))' <= Len(LinesOf(m))
                               /\ Pending(n)' \subseteq Pending(m)
    PROVE  Len(LinesOf(n))' + Cardinality(Pending(n))' <= MaxSize + Cardinality(Handlers) + stuck'
<1>1. /\ Len(LinesOf(n))' \in Nat /\ MaxSize \in Nat /\ stuck \in Nat /\ stuck' \in Nat
  BY RateAssumption DEF TypeOK, LinesOf, Exists
<1>2. CASE Len(LinesOf(n))' <= MaxSize
  BY <1>1, <1>2, PendingCounted
<1>3. ASSUME NEW m \in Names, Len(LinesOf(n))' <= Len(LinesOf(m)), Pending(n)' \subseteq Pending(m)
      PROVE  Len(LinesOf(n))' + Cardinality(Pending(n))' <= MaxSize + Cardinality(Handlers) + stuck'
  <2>1. Cardinality(Pending(n)') <= Cardinality(Pending(m))
    BY <1>3, PendingCounted, FS_Subset
  <2>2. Len(LinesOf(m)) + Cardinality(Pending(m)) <= MaxSize + Cardinality(Handlers) + stuck
    BY DEF Room
  <2>3. Len(LinesOf(m)) \in Nat
    BY LinesTyped
  <2> QED
    BY <1>1, <1>3, <2>1, <2>2, <2>3, PendingCounted
<1> QED
  BY <1>2, <1>3

\* A step that leaves the directory alone and adds no writer keeps the room.
LEMMA RoomSame ==
    ASSUME TypeOK, TypeOK', Room, UNCHANGED <<file, stuck>>,
           \A n \in Names : Pending(n)' \subseteq Pending(n)
    PROVE  Room'
<1> SUFFICES ASSUME MaxSize > 0, NEW n \in Names
             PROVE  Len(LinesOf(n))' + Cardinality(Pending(n))' <=
                       MaxSize + Cardinality(Handlers) + stuck'
  BY DEF Room, Names
<1>1. LinesOf(n)' = LinesOf(n)
  BY DEF LinesOf, Exists
<1>2. Len(LinesOf(n))' <= Len(LinesOf(n)) /\ stuck <= stuck' /\ Pending(n)' \subseteq Pending(n)
  BY <1>1, LinesTyped DEF TypeOK
<1> QED
  BY <1>2, RoomAt

\* A rotation moves the writers along with the file; a failed one is counted.
LEMMA RotateRoom ==
    ASSUME TypeOK, TypeOK', Room, NEW h \in Handlers, Rotate(h)
    PROVE  Room'
<1> DEFINE d == Day(rec[h].ts)
           p == LiveOf(d)
           t == CopyOf(d)
<1> SUFFICES ASSUME MaxSize > 0, NEW n \in Names
             PROVE  Len(LinesOf(n))' + Cardinality(Pending(n))' <=
                       MaxSize + Cardinality(Handlers) + stuck'
  BY DEF Room, Names
<1>1. /\ d \in Days /\ pc[h] = "rotate" /\ AuditFile(rec[h]) = p
      /\ p \in Names /\ t \in Names /\ p # t
      /\ pc' = [pc EXCEPT ![h] = "open"] /\ rec' = rec
      /\ \/ p \in DOMAIN file /\ file' = Renamed(p, t) /\ fd' = Follow(p, t) /\ stuck' = stuck
         \/ UNCHANGED <<file, fd>> /\ p \notin DOMAIN file /\ stuck' = stuck
         \/ UNCHANGED <<file, fd>> /\ stuck' = stuck + 1
  BY Rotating
<1>2. \A g \in Handlers : pc[g] = "open" \/ pc'[g] = "open" => AuditFile(rec[g]) # t
  <2>1. ASSUME NEW g \in Handlers, pc[g] = "open" \/ g = h PROVE AuditFile(rec[g]) # t
    <3>1. rec[g] \in Records
      BY <1>1, <2>1 DEF TypeOK, Inside
    <3>2. AuditFile(rec[g]).stamp = Live /\ t.stamp = now /\ now # Live
      BY <3>1, LiveAssumption DEF AuditFile, CopyOf, TypeOK
    <3> QED
      BY <3>2
  <2> QED
    BY <1>1, <2>1 DEF TypeOK
<1>3. MaxSize \in Nat /\ Len(<< >>) = 0 /\ stuck \in Nat
  BY RateAssumption DEF TypeOK
<1>4. \A g \in Handlers : AuditFile(rec[g])' = AuditFile(rec'[g])
  BY DEF AuditFile, Day
<1>5. \A m, x : fd[x] = m /\ m \in Names => m # Gone
  BY OthersAssumption
<1> HIDE DEF p, t, d
<1>6. CASE p \in DOMAIN file /\ file' = Renamed(p, t) /\ fd' = Follow(p, t) /\ stuck' = stuck
  <2>1. CASE n = p
    <3>1. LinesOf(n)' = << >>
      BY <1>1, <1>6, <2>1 DEF LinesOf, Exists, Renamed
    <3> QED
      BY <1>3, <1>6, <3>1, RoomAt
  <2>2. CASE n = t
    <3>1. LinesOf(n)' = LinesOf(p)
      BY <1>6, <2>2 DEF LinesOf, Exists, Renamed
    <3>2. ASSUME NEW g \in Pending(n)' PROVE g \in Pending(p)
      <4>1. g \in Handlers /\ ((pc'[g] = "open" /\ AuditFile(rec[g]) = t) \/ (pc'[g] = "write" /\ fd'[g] = t))
        BY <1>1, <1>4, <2>2, <3>2 DEF Pending
      <4>2. pc'[g] = "write" /\ fd'[g] = t
        BY <1>2, <4>1
      <4>3. pc[g] = "write" /\ fd[g] = p
        BY <1>1, <1>5, <1>6, <4>1, <4>2, OthersAssumption DEF Follow, TypeOK
      <4> QED
        BY <4>1, <4>3 DEF Pending
    <3>3. Len(LinesOf(n))' <= Len(LinesOf(p)) /\ Pending(n)' \subseteq Pending(p)
      BY <3>1, <3>2, LinesTyped
    <3> QED
      BY <1>1, <1>3, <1>6, <3>3, RoomAt
  <2>3. CASE n # p /\ n # t
    <3>1. LinesOf(n)' = LinesOf(n)
      BY <1>6, <2>3 DEF LinesOf, Exists, Renamed
    <3>2. ASSUME NEW g \in Pending(n)' PROVE g \in Pending(n)
      <4>1. g \in Handlers /\ ((pc'[g] = "open" /\ AuditFile(rec[g]) = n) \/ (pc'[g] = "write" /\ fd'[g] = n))
        BY <1>1, <1>4, <3>2 DEF Pending
      <4>2. CASE pc'[g] = "open" /\ AuditFile(rec[g]) = n
        BY <1>1, <2>3, <4>1, <4>2 DEF Pending, TypeOK
      <4>3. CASE pc'[g] = "write" /\ fd'[g] = n
        <5>1. pc[g] = "write" /\ fd[g] = n
          BY <1>1, <1>6, <2>3, <4>1, <4>3, OthersAssumption DEF Follow, TypeOK
        <5> QED
          BY <4>1, <5>1 DEF Pending
      <4> QED
        BY <4>1, <4>2, <4>3
    <3>3. Len(LinesOf(n))' <= Len(LinesOf(n)) /\ Pending(n)' \subseteq Pending(n)
      BY <3>1, <3>2, LinesTyped
    <3> QED
      BY <1>3, <1>6, <3>3, RoomAt
  <2> QED
    BY <2>1, <2>2, <2>3
<1>7. CASE /\ UNCHANGED <<file, fd>>
           /\ (p \notin DOMAIN file /\ stuck' = stuck) \/ stuck' = stuck + 1
  <2>0. LinesOf(n)' = LinesOf(n) /\ Len(LinesOf(n)) \in Nat
    BY <1>7, LinesTyped DEF LinesOf, Exists
  <2>1. ASSUME NEW g \in Pending(n)' PROVE g \in Pending(n) \/ (g = h /\ n = p)
    <3>1. g \in Handlers /\ ((pc'[g] = "open" /\ AuditFile(rec[g]) = n) \/ (pc'[g] = "write" /\ fd[g] = n))
      BY <1>1, <1>4, <1>7, <2>1 DEF Pending
    <3>2. g = h \/ pc'[g] = pc[g]
      BY <1>1, <3>1 DEF TypeOK
    <3>3. g = h => pc'[g] = "open" /\ AuditFile(rec[g]) = p
      BY <1>1 DEF TypeOK
    <3> QED
      BY <3>1, <3>2, <3>3 DEF Pending
  <2>2. CASE n # p
    <3>1. Len(LinesOf(n))' <= Len(LinesOf(n)) /\ Pending(n)' \subseteq Pending(n) /\ stuck <= stuck'
      BY <1>3, <1>7, <2>0, <2>1, <2>2
    <3> QED
      BY <3>1, RoomAt
  <2>3. CASE n = p /\ p \notin DOMAIN file /\ stuck' = stuck
    <3>1. LinesOf(n)' = << >>
      BY <2>0, <2>3 DEF LinesOf, Exists
    <3> QED
      BY <1>3, <2>3, <3>1, RoomAt
  <2>4. CASE stuck' = stuck + 1
    <3>1. Pending(n)' \subseteq Pending(n) \cup {h}
      BY <2>1
    <3>2. /\ IsFiniteSet(Pending(n) \cup {h}) /\ Cardinality(Pending(n) \cup {h}) \in Nat
          /\ Cardinality(Pending(n) \cup {h}) <= Cardinality(Pending(n)) + 1
      <4>1. IsFiniteSet(Pending(n)) /\ Cardinality(Pending(n)) \in Nat
        BY PendingCounted
      <4>2. /\ IsFiniteSet(Pending(n) \cup {h})
            /\ \/ Cardinality(Pending(n) \cup {h}) = Cardinality(Pending(n))
               \/ Cardinality(Pending(n) \cup {h}) = Cardinality(Pending(n)) + 1
        BY <4>1, FS_AddElement
      <4> QED
        BY <4>1, <4>2
    <3>3. Cardinality(Pending(n)') <= Cardinality(Pending(n) \cup {h})
      BY <3>1, <3>2, FS_Subset
    <3>4. Len(LinesOf(n)) + Cardinality(Pending(n)) <= MaxSize + Cardinality(Handlers) + stuck
      BY DEF Room
    <3>5. Len(LinesOf(n))' = Len(LinesOf(n))
      BY <2>0
    <3> QED
      BY <1>3, <2>0, <2>4, <3>2, <3>3, <3>4, <3>5, PendingCounted
  <2> QED
    BY <1>7, <2>2, <2>3, <2>4
<1> QED
  BY <1>1, <1>6, <1>7

\* Opening makes one who was about to open one who is about to write.
LEMMA OpenRoom ==
    ASSUME TypeOK, TypeOK', Room, NEW h \in Handlers, OpenFile(h)
    PROVE  Room'
<1> SUFFICES ASSUME MaxSize > 0, NEW n \in Names
             PROVE  Len(LinesOf(n))' + Cardinality(Pending(n))' <=
                       MaxSize + Cardinality(Handlers) + stuck'
  BY DEF Room, Names
<1>1. /\ pc[h] = "open" /\ AuditFile(rec[h]) = LiveOf(Day(rec[h].ts))
      /\ pc' = [pc EXCEPT ![h] = "write"] /\ fd' = [fd EXCEPT ![h] = LiveOf(Day(rec[h].ts))]
      /\ rec' = rec /\ stuck' = stuck
  BY Opening DEF history
<1>2. LinesOf(n)' = LinesOf(n)
  <2>1. \A m : LinesOf(m)' = LinesOf(m)
    BY Opening
  <2> QED
    BY <2>1
<1>3. ASSUME NEW g \in Pending(n)' PROVE g \in Pending(n)
  <2>1. g \in Handlers /\ ((pc'[g] = "open" /\ AuditFile(rec[g]) = n) \/ (pc'[g] = "write" /\ fd'[g] = n))
    BY <1>1, <1>3 DEF Pending, AuditFile, Day
  <2>2. CASE g = h
    BY <1>1, <2>1, <2>2 DEF Pending, TypeOK
  <2>3. CASE g # h
    BY <1>1, <2>1, <2>3 DEF Pending, TypeOK
  <2> QED
    BY <2>2, <2>3
<1>4. Len(LinesOf(n))' <= Len(LinesOf(n)) /\ Pending(n)' \subseteq Pending(n) /\ stuck <= stuck'
  BY <1>1, <1>2, <1>3, LinesTyped DEF TypeOK
<1> QED
  BY <1>4, RoomAt

\* A line written is one less to be written.
LEMMA WriteRoom ==
    ASSUME TypeOK, TypeOK', Room, NEW h \in Handlers, WriteLine(h) \/ WriteTorn(h)
    PROVE  Room'
<1> SUFFICES ASSUME MaxSize > 0, NEW n \in Names
             PROVE  Len(LinesOf(n))' + Cardinality(Pending(n))' <=
                       MaxSize + Cardinality(Handlers) + stuck'
  BY DEF Room, Names
<1>1. /\ pc[h] = "write" /\ pc' = [pc EXCEPT ![h] = "idle"] /\ fd' = [fd EXCEPT ![h] = Gone]
      /\ rec' = [rec EXCEPT ![h] = Torn] /\ stuck' = stuck
      /\ fd[h] \notin DOMAIN file => file' = file
      /\ fd[h] \in DOMAIN file => \E x : Adds(fd[h], x)
  BY Writing
<1>2. ASSUME NEW g \in Pending(n)' PROVE g \in Pending(n) /\ g # h
  <2>1. g \in Handlers /\ ((pc'[g] = "open" /\ AuditFile(rec'[g]) = n) \/ (pc'[g] = "write" /\ fd'[g] = n))
    BY <1>2 DEF Pending, AuditFile, Day
  <2>2. g # h
    BY <1>1, <2>1 DEF TypeOK
  <2>3. pc'[g] = pc[g] /\ fd'[g] = fd[g] /\ rec'[g] = rec[g]
    BY <1>1, <2>1, <2>2 DEF TypeOK
  <2> QED
    BY <2>1, <2>2, <2>3 DEF Pending
<1>3. /\ stuck \in Nat /\ MaxSize \in Nat /\ Len(LinesOf(n)) \in Nat /\ Len(LinesOf(n))' \in Nat
  BY RateAssumption, LinesTyped DEF TypeOK, LinesOf, Exists
<1>4. CASE fd[h] = n
  <2>1. Len(LinesOf(n))' <= Len(LinesOf(n)) + 1
    BY <1>1, <1>3, <1>4 DEF Adds, LinesOf, Exists
  <2>2. h \in Pending(n)
    BY <1>1, <1>4 DEF Pending
  <2>3. Pending(n)' \subseteq Pending(n) \ {h}
    BY <1>2
  <2>4. /\ Cardinality(Pending(n) \ {h}) = Cardinality(Pending(n)) - 1
        /\ IsFiniteSet(Pending(n) \ {h}) /\ Cardinality(Pending(n) \ {h}) \in Nat
    BY <2>2, PendingCounted, FS_RemoveElement, FS_CardinalityType
  <2>5. Cardinality(Pending(n)') <= Cardinality(Pending(n) \ {h})
    BY <2>3, <2>4, FS_Subset
  <2>6. Len(LinesOf(n)) + Cardinality(Pending(n)) <= MaxSize + Cardinality(Handlers) + stuck
    BY DEF Room
  <2> QED
    BY <1>1, <1>3, <2>1, <2>4, <2>5, <2>6, PendingCounted
<1>5. CASE fd[h] # n
  <2>1. LinesOf(n)' = LinesOf(n)
    BY <1>1, <1>5 DEF Adds, LinesOf, Exists
  <2>2. Len(LinesOf(n))' <= Len(LinesOf(n)) /\ Pending(n)' \subseteq Pending(n) /\ stuck <= stuck'
    BY <1>1, <1>2, <1>3, <2>1
  <2> QED
    BY <2>2, RoomAt
<1> QED
  BY <1>4, <1>5

\* A removal only makes room.
LEMMA CleanRoom ==
    ASSUME TypeOK, TypeOK', Room, NEW c \in Cleaners, NEW m \in Names, CleanRemove(c, m)
    PROVE  Room'
<1> SUFFICES ASSUME MaxSize > 0, NEW n \in Names
             PROVE  Len(LinesOf(n))' + Cardinality(Pending(n))' <=
                       MaxSize + Cardinality(Handlers) + stuck'
  BY DEF Room, Names
<1>1. /\ file' = [x \in DOMAIN file \ {m} |-> file[x]]
      /\ fd' = [h \in Handlers |-> IF fd[h] = m THEN Gone ELSE fd[h]]
      /\ UNCHANGED <<pc, rec, stuck>>
  BY DEF CleanRemove
<1>2. LinesOf(n)' = LinesOf(n) \/ LinesOf(n)' = << >>
  BY <1>1 DEF LinesOf, Exists
<1>3. ASSUME NEW g \in Pending(n)' PROVE g \in Pending(n)
  <2>1. g \in Handlers /\ ((pc[g] = "open" /\ AuditFile(rec[g]) = n) \/ (pc[g] = "write" /\ fd'[g] = n))
    BY <1>1, <1>3 DEF Pending, AuditFile, Day
  <2>2. fd'[g] = n => fd[g] = n
    BY <1>1, <2>1, OthersAssumption
  <2> QED
    BY <2>1, <2>2 DEF Pending
<1>4. Len(LinesOf(n))' <= Len(LinesOf(n)) /\ Pending(n)' \subseteq Pending(n) /\ stuck <= stuck'
  <2>1. Len(LinesOf(n)) \in Nat /\ Len(<< >>) = 0
    BY LinesTyped
  <2> QED
    BY <1>1, <1>2, <1>3, <2>1 DEF TypeOK
<1> QED
  BY <1>4, RoomAt

\* Every step keeps the room.
LEMMA KeepsRoom ==
    ASSUME TypeOK, Room, [Next]_vars
    PROVE  Room'
<1>0. TypeOK'
  BY NextTypeOK
<1>1. ASSUME NEW h \in Handlers, Answer(h) PROVE Room'
  <2>1. UNCHANGED <<file, stuck, fd>> /\ pc[h] = "idle" /\ pc' = [pc EXCEPT ![h] = "answering"]
        /\ rec' = [rec EXCEPT ![h] = [id |-> issued + 1, ts |-> now]]
    BY <1>1 DEF Answer, history
  <2>2. ASSUME NEW n, NEW g \in Pending(n)' PROVE g \in Pending(n)
    <3>1. g \in Handlers /\ ((pc'[g] = "open" /\ AuditFile(rec'[g]) = n) \/ (pc'[g] = "write" /\ fd'[g] = n))
      BY <2>2 DEF Pending, AuditFile, Day
    <3>2. g # h
      BY <2>1, <3>1 DEF TypeOK
    <3> QED
      BY <2>1, <3>1, <3>2 DEF Pending, TypeOK
  <2> QED
    BY <1>0, <2>1, <2>2, RoomSame
<1>2. ASSUME NEW h \in Handlers, StatFile(h) PROVE Room'
  <2> SUFFICES ASSUME MaxSize > 0, NEW n \in Names
               PROVE  Len(LinesOf(n))' + Cardinality(Pending(n))' <=
                         MaxSize + Cardinality(Handlers) + stuck'
    BY DEF Room, Names
  <2>1. /\ UNCHANGED <<file, stuck, fd, rec>>
        /\ pc' = [pc EXCEPT ![h] = IF Oversize(AuditFile(rec[h])) THEN "rotate" ELSE "open"]
    BY <1>2 DEF StatFile, history
  <2>2. LinesOf(n)' = LinesOf(n) /\ Len(LinesOf(n)) \in Nat /\ stuck <= stuck'
    BY <2>1, LinesTyped DEF LinesOf, Exists, TypeOK
  <2>3. CASE n = AuditFile(rec[h]) /\ ~Oversize(n)
    <3>1. Len(LinesOf(n))' <= MaxSize
      BY <2>2, <2>3, RateAssumption DEF Oversize
    <3> QED
      BY <1>0, <2>2, <3>1, RoomAt
  <2>4. CASE ~(n = AuditFile(rec[h]) /\ ~Oversize(n))
    <3>1. ASSUME NEW g \in Pending(n)' PROVE g \in Pending(n)
      <4>1. g \in Handlers /\ ((pc'[g] = "open" /\ AuditFile(rec[g]) = n) \/ (pc'[g] = "write" /\ fd[g] = n))
        BY <2>1, <3>1 DEF Pending, AuditFile, Day
      <4>2. g # h
        BY <2>1, <2>4, <4>1 DEF TypeOK
      <4> QED
        BY <2>1, <4>1, <4>2 DEF Pending, TypeOK
    <3>2. Len(LinesOf(n))' <= Len(LinesOf(n)) /\ Pending(n)' \subseteq Pending(n)
      BY <2>2, <3>1
    <3> QED
      BY <1>0, <2>2, <3>2, RoomAt
  <2> QED
    BY <2>3, <2>4
<1>3. ASSUME NEW c \in Cleaners, CleanList(c) PROVE Room'
  BY <1>0, <1>3, RoomSame DEF CleanList, work, history, Pending, AuditFile, Day
<1>4. ASSUME NEW q \in Readers, Query(q) PROVE Room'
  <2>1. UNCHANGED <<file, pc, rec, fd, stuck>>
    BY <1>4, QueryAlone
  <2> QED
    BY <1>0, <2>1, RoomSame DEF Pending, AuditFile, Day
<1>5. CASE Tick \/ UNCHANGED vars
  <2>1. UNCHANGED <<file, pc, rec, fd, stuck>>
    BY <1>5 DEF Tick, vars, work, history
  <2> QED
    BY <1>0, <2>1, RoomSame DEF Pending, AuditFile, Day
<1>6. CASE Kill \/ PowerLoss
  <2> SUFFICES ASSUME MaxSize > 0, NEW n \in Names
               PROVE  Len(LinesOf(n))' + Cardinality(Pending(n))' <=
                         MaxSize + Cardinality(Handlers) + stuck'
    BY DEF Room, Names
  <2>1. AllLeave /\ stuck' = stuck
    BY <1>6 DEF Kill, PowerLoss, history
  <2>2. Pending(n)' \subseteq Pending(n)
    BY <2>1 DEF AllLeave, Pending
  <2>3. Len(LinesOf(n))' <= Len(LinesOf(n))
    <3>1. \A h \in Handlers : ~Rotate(h) /\ ~WriteLine(h) /\ ~WriteTorn(h)
      <4>1. ASSUME NEW h \in Handlers, Rotate(h) \/ WriteLine(h) \/ WriteTorn(h) PROVE FALSE
        <5>1. rec'[h] = Torn /\ pc'[h] = "idle"
          BY <2>1 DEF AllLeave
        <5>2. CASE Rotate(h)
          BY <5>1, <5>2, Rotating DEF TypeOK
        <5>3. CASE WriteLine(h) \/ WriteTorn(h)
          <6>1. rate' = rate + 1 /\ rate \in Nat
            BY <5>3, Writing DEF TypeOK
          <6>2. rate' = rate
            BY <1>6 DEF Kill, PowerLoss
          <6> QED
            BY <6>1, <6>2
        <5> QED
          BY <4>1, <5>2, <5>3
      <4> QED
        BY <4>1
    <3> QED
      BY <3>1, Lengths
  <2>4. stuck <= stuck'
    BY <2>1 DEF TypeOK
  <2> QED
    BY <1>0, <2>2, <2>3, <2>4, RoomAt
<1>7. ASSUME NEW h \in Handlers, AppendAudit(h) PROVE Room'
  <2>1. CASE NoRecord(h)
    <3>1. /\ file' = file /\ stuck' = stuck /\ rec' = [rec EXCEPT ![h] = Torn]
          /\ pc' = [pc EXCEPT ![h] = "idle"] /\ fd' = [fd EXCEPT ![h] = Gone]
      BY <2>1 DEF NoRecord, Leave, history
    <3>2. SUFFICES ASSUME MaxSize > 0, NEW n \in Names
                   PROVE  Len(LinesOf(n))' + Cardinality(Pending(n))' <=
                             MaxSize + Cardinality(Handlers) + stuck'
      BY DEF Room, Names
    <3>3. ASSUME NEW g \in Pending(n)' PROVE g \in Pending(n)
      <4>1. g \in Handlers /\ ((pc'[g] = "open" /\ AuditFile(rec'[g]) = n) \/ (pc'[g] = "write" /\ fd'[g] = n))
        BY <3>3 DEF Pending, AuditFile, Day
      <4>2. g # h
        BY <3>1, <4>1 DEF TypeOK
      <4>3. pc'[g] = pc[g] /\ fd'[g] = fd[g] /\ rec'[g] = rec[g]
        BY <3>1, <4>1, <4>2 DEF TypeOK
      <4> QED
        BY <4>1, <4>3 DEF Pending
    <3>4. LinesOf(n)' = LinesOf(n)
      BY <3>1 DEF LinesOf, Exists
    <3>5. /\ Len(LinesOf(n))' <= Len(LinesOf(n)) /\ Pending(n)' \subseteq Pending(n)
          /\ stuck <= stuck'
      BY <3>1, <3>3, <3>4, LinesTyped DEF TypeOK
    <3> QED
      BY <1>0, <3>2, <3>5, RoomAt
  <2> QED
    BY <1>0, <1>2, <1>7, <2>1, RotateRoom, OpenRoom, WriteRoom DEF AppendAudit
<1>8. ASSUME NEW c \in Cleaners, Clean(c) PROVE Room'
  BY <1>0, <1>3, <1>8, CleanRoom DEF Clean
<1> QED
  BY <1>1, <1>4, <1>5, <1>6, <1>7, <1>8 DEF Next

\* Within its bound, whatever the limit, the handlers and the faults: a file
\* takes at most one more line of each handler once it is full, and one for
\* each rename that has failed.
THEOREM FilesStayBounded == Spec => []FilesBounded
<1> DEFINE BInv == TypeOK /\ Room
<1>1. Init => BInv
  <2> SUFFICES ASSUME Init PROVE Room
    BY InitTypeOK
  <2>1. ASSUME NEW n \in Names PROVE LinesOf(n) = << >> /\ Pending(n) = {}
    BY DEF Init, NoFiles, LinesOf, Exists, Pending
  <2>2. stuck = 0 /\ Len(<< >>) = 0 /\ Cardinality({}) = 0 /\ MaxSize \in Nat
    BY RateAssumption, FS_EmptySet DEF Init
  <2> QED
    BY <2>1, <2>2, PendingCounted DEF Room
<1>2. BInv /\ [Next]_vars => BInv'
  BY NextTypeOK, KeepsRoom
<1>3. BInv => FilesBounded
  <2> SUFFICES ASSUME BInv, MaxSize > 0, NEW n \in DOMAIN file
               PROVE  Len(file[n]) <= MaxSize + Cardinality(Handlers) + stuck
    BY DEF FilesBounded
  <2>1. n \in Names /\ LinesOf(n) = file[n] /\ Len(file[n]) \in Nat /\ stuck \in Nat /\ MaxSize \in Nat
    BY RateAssumption DEF TypeOK, LinesOf, Exists
  <2>2. Len(LinesOf(n)) + Cardinality(Pending(n)) <= MaxSize + Cardinality(Handlers) + stuck
    BY <2>1 DEF Room
  <2> QED
    BY <2>1, <2>2, PendingCounted
<1> QED
  BY <1>1, <1>2, <1>3, PTL DEF Spec

-----------------------------------------------------------------------------
(* Queries: nothing twice.                                                 *)

\* A record of the directory has been at its place before, unless it has just
\* been written or its file has just been rotated.
LEMMA InPlace ==
    ASSUME TypeOK, [Next]_vars,
           NEW n \in DOMAIN file', NEW i \in DOMAIN file'[n], file'[n][i] # Torn
    PROVE  \/ n \in DOMAIN file /\ i \in DOMAIN file[n] /\ file[n][i] = file'[n][i]
           \/ \E h \in Handlers : WriteLine(h) /\ file'[n][i] = rec[h]
           \/ \E h \in Handlers : /\ Rotate(h) /\ n = CopyOf(Day(rec[h].ts))
                                  /\ LiveOf(Day(rec[h].ts)) \in DOMAIN file
                                  /\ file'[n] = file[LiveOf(Day(rec[h].ts))]
<1> DEFINE Stays == n \in DOMAIN file /\ i \in DOMAIN file[n] /\ file[n][i] = file'[n][i]
           Moved(h) == /\ Rotate(h) /\ n = CopyOf(Day(rec[h].ts))
                       /\ LiveOf(Day(rec[h].ts)) \in DOMAIN file
                       /\ file'[n] = file[LiveOf(Day(rec[h].ts))]
<1>1. CASE ~Touches
  BY <1>1, Untouched
<1>2. ASSUME NEW h \in Handlers, Rotate(h) PROVE Stays \/ Moved(h)
  <2> DEFINE p == LiveOf(Day(rec[h].ts))
             t == CopyOf(Day(rec[h].ts))
  <2>1. file' = file \/ (p \in DOMAIN file /\ file' = Renamed(p, t))
    BY <1>2, Rotating
  <2> HIDE DEF p, t
  <2>2. (n \in DOMAIN file /\ file'[n] = file[n])
        \/ (p \in DOMAIN file /\ n = t /\ file'[n] = file[p])
    BY <2>1 DEF Renamed
  <2> QED
    BY <1>2, <2>2 DEF p, t
<1>3. ASSUME NEW h \in Handlers, OpenFile(h) PROVE Stays
  <2>1. file'[n] = IF n \in DOMAIN file THEN file[n] ELSE << >>
    BY <1>3, Opening DEF LinesOf, Exists
  <2>2. DOMAIN << >> = {}
    OBVIOUS
  <2> QED
    BY <2>1, <2>2
<1>4. ASSUME NEW h \in Handlers, WriteLine(h) \/ WriteTorn(h)
      PROVE  Stays \/ (WriteLine(h) /\ file'[n][i] = rec[h])
  <2>1. CASE fd[h] \notin DOMAIN file
    BY <1>4, <2>1, Writing
  <2>2. CASE WriteLine(h) /\ Adds(fd[h], rec[h])
    BY <2>2 DEF Adds
  <2>3. CASE WriteTorn(h) /\ Adds(fd[h], Torn)
    BY <2>3 DEF Adds
  <2> QED
    BY <1>4, <2>1, <2>2, <2>3, Writing
<1>5. ASSUME NEW c \in Cleaners, NEW m \in Names, CleanRemove(c, m) PROVE Stays
  BY <1>5 DEF CleanRemove
<1>6. CASE PowerLoss
  <2>1. PICK m \in DOMAIN file, k \in Nat, s \in Seq(Lines) : Leaves(m, k, s)
    BY <1>6, WhatIsLeft
  <2>2. DOMAIN file[m] = 1..Len(file[m]) /\ Len(file[m]) \in Nat
    BY DEF TypeOK
  <2>3. CASE n = m
    <3>1. file'[n] = s /\ i \in DOMAIN s /\ s[i] # Torn
      BY <2>1, <2>3 DEF Leaves
    <3>2. i \in 1..Len(s) /\ i <= k /\ Len(s) \in Nat
      BY <2>1, <3>1 DEF Leaves
    <3> QED
      BY <2>1, <2>2, <2>3, <3>1, <3>2 DEF Leaves
  <2>4. CASE n # m
    BY <2>1, <2>4 DEF Leaves
  <2> QED
    BY <2>3, <2>4
<1> QED
  BY <1>1, <1>2, <1>3, <1>4, <1>5, <1>6 DEF Touches

\* So it has been in the directory, or in the hands of the handler that wrote it.
LEMMA RecordsAfter ==
    ASSUME TypeOK, [Next]_vars,
           NEW n \in DOMAIN file', NEW i \in DOMAIN file'[n], file'[n][i] # Torn
    PROVE  \/ \E m \in DOMAIN file : \E j \in DOMAIN file[m] : file[m][j] = file'[n][i]
           \/ \E h \in Handlers : WriteLine(h) /\ file'[n][i] = rec[h]
<1>1. ASSUME NEW m \in DOMAIN file, file'[n] = file[m]
      PROVE  \E j \in DOMAIN file[m] : file[m][j] = file'[n][i]
  BY <1>1
<1> QED
  BY <1>1, InPlace

\* A handler carries its record until it is idle again.
LEMMA CarriedAfter ==
    ASSUME TypeOK, [Next]_vars, NEW h \in Handlers, Inside(h)'
    PROVE  \/ Inside(h) /\ rec'[h] = rec[h] /\ ~WriteLine(h)
           \/ /\ rec'[h].id = issued + 1 /\ issued' = issued + 1
              /\ UNCHANGED <<file, query>>
              /\ \A g \in Handlers \ {h} : pc'[g] = pc[g] /\ rec'[g] = rec[g]
<1> DEFINE Stays == Inside(h) /\ rec'[h] = rec[h] /\ ~WriteLine(h)
           Comes == /\ rec'[h].id = issued + 1 /\ issued' = issued + 1
                    /\ UNCHANGED <<file, query>>
                    /\ \A g \in Handlers \ {h} : pc'[g] = pc[g] /\ rec'[g] = rec[g]
<1>0. ~WriteLine(h)
  BY Writing DEF Inside, TypeOK
<1>1. ASSUME NEW g \in Handlers, Answer(g) PROVE Stays \/ Comes
  <2>1. /\ pc' = [pc EXCEPT ![g] = "answering"] /\ issued' = issued + 1
        /\ rec' = [rec EXCEPT ![g] = [id |-> issued + 1, ts |-> now]]
        /\ UNCHANGED <<file, query>>
    BY <1>1 DEF Answer
  <2>2. CASE g = h
    BY <2>1, <2>2 DEF TypeOK
  <2>3. CASE g # h
    BY <1>0, <2>1, <2>3 DEF TypeOK, Inside
  <2> QED
    BY <2>2, <2>3
<1>2. ASSUME NEW g \in Handlers, StatFile(g) \/ Rotate(g) \/ OpenFile(g) PROVE Stays
  BY <1>0, <1>2 DEF StatFile, Rotate, OpenFile, Inside, TypeOK
<1>3. ASSUME NEW g \in Handlers, WriteLine(g) \/ WriteTorn(g) PROVE Stays
  BY <1>0, <1>3, Writing DEF Inside, TypeOK
<1>9. ASSUME NEW g \in Handlers, NoRecord(g) PROVE Stays
  BY <1>0, <1>9 DEF NoRecord, Leave, Inside, TypeOK
<1>4. CASE UNCHANGED <<pc, rec>>
  BY <1>0, <1>4 DEF Inside
<1>5. ASSUME NEW c \in Cleaners, Clean(c) PROVE UNCHANGED <<pc, rec>>
  BY <1>5 DEF Clean, CleanList, CleanRemove, work
<1>6. ASSUME NEW q \in Readers, Query(q) PROVE UNCHANGED <<pc, rec>>
  BY <1>6, QueryAlone
<1>7. CASE Kill \/ PowerLoss
  BY <1>7 DEF Kill, PowerLoss, AllLeave, Inside
<1>8. CASE Tick \/ UNCHANGED vars
  BY <1>4, <1>8 DEF Tick, vars, work
<1> QED
  BY <1>1, <1>2, <1>3, <1>4, <1>5, <1>6, <1>7, <1>8, <1>9 DEF Next, AppendAudit

\* What a query has, it has had or has read from a file.
LEMMA GotAfter ==
    ASSUME TypeOK, [Next]_vars, NEW q \in Readers, NEW i \in DOMAIN query'[q].got
    PROVE  \/ \E j \in DOMAIN query[q].got : query[q].got[j] = query'[q].got[i]
           \/ \E n \in DOMAIN file : \E j \in DOMAIN file[n] :
                 file[n][j] # Torn /\ file[n][j] = query'[q].got[i]
<1> DEFINE Had(x) == \E j \in DOMAIN query[q].got : query[q].got[j] = x
           Read(x) == \E n \in DOMAIN file : \E j \in DOMAIN file[n] :
                         file[n][j] # Torn /\ file[n][j] = x
<1>0. query[q] \in Queries /\ query[q].got \in Seq(Records) /\ DOMAIN << >> = {}
  BY DEF TypeOK, Queries
<1>1. CASE query'[q] = query[q]
  BY <1>1
<1>2. CASE query'[q].got = << >>
  BY <1>0, <1>2
<1>3. CASE QueryRead(q)
  <2>1. PICK n \in query[q].left, k \in Nat :
           /\ k <= Len(LinesOf(n)) /\ ReadsTo(LinesOf(n), k)
           /\ query'[q] = [at |-> "reading", left |-> query[q].left \ {n},
                           got |-> query[q].got \o SubSeq(LinesOf(n), 1, k)]
    BY <1>3, ReadOne
  <2> DEFINE part == SubSeq(LinesOf(n), 1, k)
             got == query[q].got
  <2>2. /\ part \in Seq(Records) /\ Len(part) = k /\ DOMAIN part = 1..k
        /\ \A j \in 1..k : part[j] = LinesOf(n)[j]
    BY <2>1, ReadsRecords
  <2> HIDE DEF part
  <2>3. query'[q].got = got \o part
    <3>1. query'[q] = [at |-> "reading", left |-> query[q].left \ {n}, got |-> got \o part]
      BY <2>1 DEF part
    <3> QED
      BY <3>1
  <2>4. /\ i \in 1..(Len(got) + Len(part)) /\ Len(got) \in Nat
        /\ (got \o part)[i] = IF i <= Len(got) THEN got[i] ELSE part[i - Len(got)]
        /\ DOMAIN got = 1..Len(got)
    BY <1>0, <2>2, <2>3, Joined
  <2>5. CASE i <= Len(got)
    BY <2>3, <2>4, <2>5
  <2>6. CASE ~(i <= Len(got))
    <3>1. i - Len(got) \in 1..k /\ query'[q].got[i] = part[i - Len(got)]
      BY <2>2, <2>3, <2>4, <2>6
    <3>2. i - Len(got) \in DOMAIN LinesOf(n) /\ LinesOf(n)[i - Len(got)] # Torn
      BY <2>1, <3>1, LinesTyped DEF ReadsTo
    <3>3. n \in DOMAIN file /\ LinesOf(n) = file[n]
      BY <1>0, <3>2 DEF LinesOf, Exists
    <3>4. file[n][i - Len(got)] = query'[q].got[i]
      BY <2>2, <3>1, <3>3
    <3> QED
      BY <3>2, <3>3, <3>4
  <2> QED
    BY <2>5, <2>6
<1>4. CASE QueryFinish(q)
  <2>1. PICK t \in SortedByTS(query[q].got) : query'[q] = [at |-> "done", left |-> {}, got |-> t]
    BY <1>4, FinishOne
  <2>2. query'[q].got = t
    BY <2>1
  <2>3. DOMAIN t = DOMAIN query[q].got
        /\ \A k \in DOMAIN query[q].got : \E j \in DOMAIN query[q].got : t[k] = query[q].got[j]
    BY <1>0, <2>1, Sorting
  <2> QED
    BY <2>2, <2>3
<1>5. CASE QueryList(q)
  BY <1>2, <1>5, ListOne
<1>6. CASE QueryAgain(q) \/ query'[q] = NoQuery
  <2>1. query'[q] = NoQuery
    BY <1>6 DEF QueryAgain, TypeOK
  <2> QED
    BY <1>2, <2>1 DEF NoQuery
<1> QED
  BY <1>1, <1>3, <1>4, <1>5, <1>6, QueryChanges DEF Query

\* Identities stay in order.
LEMMA KeepsNumbered ==
    ASSUME TypeOK, Numbered, [Next]_vars
    PROVE  Numbered'
<1>0. TypeOK' /\ issued \in Nat /\ issued' \in Nat /\ issued <= issued'
  BY NextTypeOK, Onwards DEF TypeOK
<1>1. \A r \in Records : r.id \in Nat
  BY BoundsAssumption DEF Records
<1>2. \A h \in Handlers : Inside(h) => rec[h] \in Records /\ rec[h].id <= issued
  BY DEF TypeOK, Numbered
<1>3. ASSUME NEW n \in DOMAIN file, NEW i \in DOMAIN file[n], file[n][i] # Torn
      PROVE  file[n][i] \in Records /\ file[n][i].id <= issued
  BY <1>3, WholeLines DEF TypeOK, Numbered
<1>4. ASSUME NEW n \in DOMAIN file', NEW i \in DOMAIN file'[n], file'[n][i] # Torn
      PROVE  file'[n][i].id <= issued'
  <2>1. CASE \E m \in DOMAIN file : \E j \in DOMAIN file[m] : file[m][j] = file'[n][i]
    BY <1>0, <1>1, <1>3, <1>4, <2>1
  <2>2. CASE \E h \in Handlers : WriteLine(h) /\ file'[n][i] = rec[h]
    BY <1>0, <1>1, <1>2, <2>2 DEF WriteLine, Inside
  <2> QED
    BY <1>4, <2>1, <2>2, RecordsAfter
<1>5. ASSUME NEW h \in Handlers, Inside(h)' PROVE rec'[h].id <= issued'
  BY <1>0, <1>1, <1>2, <1>5, CarriedAfter
<1>6. ASSUME NEW q \in Readers, NEW i \in DOMAIN query'[q].got PROVE query'[q].got[i].id <= issued'
  <2>1. \A j \in DOMAIN query[q].got :
           query[q].got[j] \in Records /\ query[q].got[j].id <= issued
    BY DEF TypeOK, Queries, Numbered
  <2> QED
    BY <1>0, <1>1, <1>3, <2>1, GotAfter
<1> QED
  BY <1>4, <1>5, <1>6 DEF Numbered

\* A record in the hands of a handler stays nowhere else.
LEMMA KeepsUnwritten ==
    ASSUME TypeOK, Numbered, Unwritten, [Next]_vars
    PROVE  Unwritten'
<1> SUFFICES ASSUME NEW h \in Handlers, Inside(h)'
             PROVE  /\ \A n \in DOMAIN file' : \A i \in DOMAIN file'[n] : file'[n][i] # rec'[h]
                    /\ \A g \in Handlers \ {h} : Inside(g)' => rec'[g] # rec'[h]
                    /\ \A q \in Readers : \A i \in DOMAIN query'[q].got :
                          query'[q].got[i] # rec'[h]
  BY DEF Unwritten
<1>0. /\ rec'[h] \in Records /\ rec'[h] # Torn /\ issued \in Nat
      /\ \A g \in Handlers : Inside(g) => rec[g].id <= issued
      /\ ~(issued + 1 <= issued)
  BY NextTypeOK, OthersAssumption DEF TypeOK, Numbered
<1>1. CASE Inside(h) /\ rec'[h] = rec[h]
  <2>1. ASSUME NEW n \in DOMAIN file', NEW i \in DOMAIN file'[n], file'[n][i] = rec'[h] PROVE FALSE
    <3>1. CASE \E m \in DOMAIN file : \E j \in DOMAIN file[m] : file[m][j] = file'[n][i]
      BY <1>1, <2>1, <3>1 DEF Unwritten
    <3>2. ASSUME NEW g \in Handlers, WriteLine(g), file'[n][i] = rec[g] PROVE FALSE
      <4>1. pc[g] = "write" /\ pc' = [pc EXCEPT ![g] = "idle"]
        BY <3>2, Writing
      <4>2. g # h /\ Inside(g)
        BY <4>1 DEF TypeOK, Inside
      <4> QED
        BY <1>1, <2>1, <3>2, <4>2 DEF Unwritten
    <3> QED
      BY <1>0, <2>1, <3>1, <3>2, RecordsAfter
  <2>2. ASSUME NEW g \in Handlers \ {h}, Inside(g)' PROVE rec'[g] # rec'[h]
    <3>1. CASE Inside(g) /\ rec'[g] = rec[g]
      BY <1>1, <3>1 DEF Unwritten
    <3>2. CASE rec'[g].id = issued + 1
      BY <1>0, <1>1, <3>2
    <3> QED
      BY <2>2, <3>1, <3>2, CarriedAfter
  <2>3. ASSUME NEW q \in Readers, NEW i \in DOMAIN query'[q].got PROVE query'[q].got[i] # rec'[h]
    BY <1>1, GotAfter DEF Unwritten
  <2> QED
    BY <2>1, <2>2, <2>3
<1>2. CASE /\ rec'[h].id = issued + 1 /\ UNCHANGED <<file, query>>
           /\ \A g \in Handlers \ {h} : pc'[g] = pc[g] /\ rec'[g] = rec[g]
  <2>1. \A n \in DOMAIN file' : \A i \in DOMAIN file'[n] : file'[n][i] # rec'[h]
    BY <1>0, <1>2 DEF Numbered
  <2>2. \A g \in Handlers \ {h} : Inside(g)' => rec'[g] # rec'[h]
    BY <1>0, <1>2 DEF Inside
  <2>3. \A q \in Readers : \A i \in DOMAIN query'[q].got : query'[q].got[i] # rec'[h]
    BY <1>0, <1>2 DEF Numbered
  <2> QED
    BY <2>1, <2>2, <2>3
<1> QED
  BY <1>1, <1>2, CarriedAfter

\* A record stays in one place.
LEMMA KeepsOnce ==
    ASSUME TypeOK, Once, Unwritten, [Next]_vars
    PROVE  Once'
<1> SUFFICES ASSUME NEW m \in DOMAIN file', NEW n \in DOMAIN file',
                    NEW i \in DOMAIN file'[m], NEW j \in DOMAIN file'[n],
                    file'[m][i] = file'[n][j], file'[m][i] # Torn
             PROVE  m = n /\ i = j
  BY DEF Once
<1>1. ASSUME NEW h \in Handlers, WriteLine(h) PROVE m = n /\ i = j
  <2>1. Inside(h) /\ (fd[h] \in DOMAIN file => Adds(fd[h], rec[h]))
        /\ (fd[h] \notin DOMAIN file => file' = file)
    BY <1>1, Writing DEF Inside
  <2>2. CASE fd[h] \notin DOMAIN file
    BY <2>1, <2>2 DEF Once
  <2>3. CASE Adds(fd[h], rec[h])
    <3> DEFINE New(x, k) == x = fd[h] /\ k = Len(file[fd[h]]) + 1
    <3>1. \A x \in DOMAIN file' : \A k \in DOMAIN file'[x] :
             \/ New(x, k) /\ file'[x][k] = rec[h]
             \/ /\ ~New(x, k) /\ x \in DOMAIN file /\ k \in DOMAIN file[x]
                /\ file'[x][k] = file[x][k] /\ file[x][k] # rec[h]
      <4> SUFFICES ASSUME NEW x \in DOMAIN file', NEW k \in DOMAIN file'[x]
                   PROVE  \/ New(x, k) /\ file'[x][k] = rec[h]
                          \/ /\ ~New(x, k) /\ x \in DOMAIN file /\ k \in DOMAIN file[x]
                             /\ file'[x][k] = file[x][k] /\ file[x][k] # rec[h]
        OBVIOUS
      <4>1. CASE New(x, k)
        BY <2>3, <4>1 DEF Adds
      <4>2. CASE ~New(x, k)
        <5>1. x \in DOMAIN file /\ k \in DOMAIN file[x] /\ file'[x][k] = file[x][k]
          <6>1. CASE x # fd[h]
            BY <2>3, <6>1 DEF Adds
          <6>2. CASE x = fd[h]
            BY <2>3, <4>2, <6>2 DEF Adds
          <6> QED
            BY <6>1, <6>2
        <5> QED
          BY <2>1, <4>2, <5>1 DEF Unwritten
      <4> QED
        BY <4>1, <4>2
    <3> HIDE DEF New
    <3>2. CASE New(m, i)
      <4>1. file'[m][i] = rec[h]
        BY <3>1, <3>2
      <4>2. New(n, j)
        BY <3>1, <4>1
      <4> QED
        BY <3>2, <4>2 DEF New
    <3>3. CASE ~New(m, i)
      <4>1. file'[m][i] # rec[h] /\ ~New(n, j)
        BY <3>1, <3>3
      <4>2. /\ m \in DOMAIN file /\ i \in DOMAIN file[m] /\ file'[m][i] = file[m][i]
            /\ n \in DOMAIN file /\ j \in DOMAIN file[n] /\ file'[n][j] = file[n][j]
        BY <3>1, <3>3, <4>1
      <4>3. file[m][i] = file[n][j] /\ file[m][i] # Torn
        BY <4>2
      <4> QED
        BY <4>2, <4>3, ZenonT(30) DEF Once
    <3> QED
      BY <3>2, <3>3
  <2> QED
    BY <2>1, <2>2, <2>3
<1>2. CASE \A h \in Handlers : ~WriteLine(h)
  <2>1. PICK o : Traced(o)
    BY <1>2, Origins
  <2>2. m \in Names /\ n \in Names
    BY NextTypeOK DEF TypeOK
  <2>3. /\ o[m] \in DOMAIN file /\ i \in DOMAIN file[o[m]] /\ file[o[m]][i] = file'[m][i]
        /\ o[n] \in DOMAIN file /\ j \in DOMAIN file[o[n]] /\ file[o[n]][j] = file'[n][j]
    BY <2>1 DEF Traced
  <2>4. o[m] = o[n] /\ i = j
    BY <2>3 DEF Once
  <2> QED
    BY <2>1, <2>2, <2>4 DEF Traced
<1> QED
  BY <1>1, <1>2

\* What reading adds is a first part of one file that was left, or nothing.
LEMMA ReadsPart ==
    ASSUME TypeOK, NEW q \in Readers, QueryRead(q)
    PROVE  \E n \in query[q].left, part \in Seq(Records) :
              /\ query'[q].got = query[q].got \o part
              /\ query'[q].left = query[q].left \ {n} /\ query'[q].at = "reading"
              /\ \A i \in DOMAIN part :
                    n \in DOMAIN file /\ i \in DOMAIN file[n] /\ part[i] = file[n][i]
              /\ n \in DOMAIN file => \A r \in Readable(file[n]) : r \in ToSet(part)
<1> DEFINE Good(n, part) ==
       /\ query'[q].got = query[q].got \o part
       /\ query'[q].left = query[q].left \ {n} /\ query'[q].at = "reading"
       /\ \A i \in DOMAIN part :
             n \in DOMAIN file /\ i \in DOMAIN file[n] /\ part[i] = file[n][i]
       /\ n \in DOMAIN file => \A r \in Readable(file[n]) : r \in ToSet(part)
<1>1. PICK n \in query[q].left, k \in Nat :
         /\ k <= Len(LinesOf(n)) /\ ReadsTo(LinesOf(n), k)
         /\ query'[q] = [at |-> "reading", left |-> query[q].left \ {n},
                         got |-> query[q].got \o SubSeq(LinesOf(n), 1, k)]
  BY ReadOne
<1> DEFINE part == SubSeq(LinesOf(n), 1, k)
           s == LinesOf(n)
<1>2. /\ part \in Seq(Records) /\ Len(part) = k /\ DOMAIN part = 1..k
      /\ \A i \in 1..k : part[i] = s[i]
  BY <1>1, ReadsRecords
<1>3. query'[q] = [at |-> "reading", left |-> query[q].left \ {n}, got |-> query[q].got \o part]
  BY <1>1
<1>4. /\ k <= Len(s) /\ Len(s) \in Nat /\ DOMAIN s = 1..Len(s)
      /\ k < Len(s) => s[k + 1] = Torn
  BY <1>1, LinesTyped DEF ReadsTo
<1>5. /\ n \in DOMAIN file => s = file[n]
      /\ n \notin DOMAIN file => s = << >> /\ Len(s) = 0
  BY DEF LinesOf, Exists
<1> HIDE DEF part, s
<1>6. /\ query'[q].got = query[q].got \o part
      /\ query'[q].left = query[q].left \ {n} /\ query'[q].at = "reading"
  BY <1>3
<1>7. ASSUME NEW i \in DOMAIN part
      PROVE  n \in DOMAIN file /\ i \in DOMAIN file[n] /\ part[i] = file[n][i]
  <2>1. i \in 1..k /\ i \in DOMAIN s /\ part[i] = s[i]
    BY <1>2, <1>4
  <2>2. n \in DOMAIN file
    BY <1>4, <1>5, <2>1
  <2> QED
    BY <1>5, <2>1, <2>2
<1>8. ASSUME n \in DOMAIN file, NEW r \in Readable(file[n]) PROVE r \in ToSet(part)
  <2>1. PICK i \in DOMAIN s : r = s[i] /\ \A j \in 1..i : s[j] # Torn
    BY <1>5, <1>8 DEF Readable
  <2>2. i <= k
    BY <1>4, <2>1
  <2> QED
    BY <1>2, <1>4, <2>1, <2>2 DEF ToSet
<1>9. Good(n, part)
  BY <1>6, <1>7, <1>8
<1> HIDE DEF Good
<1>10. \E m \in query[q].left, p \in Seq(Records) : Good(m, p)
  BY <1>2, <1>9
<1> QED
  BY <1>10 DEF Good

\* A query that has not read since has what it had.
LEMMA Reads ==
    ASSUME TypeOK, [Next]_vars, NEW q \in Readers, ~QueryRead(q)
    PROVE  \/ query'[q] = query[q]
           \/ query'[q].got = << >> /\ (query'[q] = NoQuery \/ QueryList(q))
           \/ QueryFinish(q)
<1>1. QueryAgain(q) => query'[q] = NoQuery
  BY DEF QueryAgain, TypeOK
<1>2. NoQuery.got = << >>
  BY DEF NoQuery
<1> QED
  BY <1>1, <1>2, ListOne, QueryChanges DEF Query

\* While no two handlers have rotated a day at once, a listed name that still
\* exists holds what it held, and what has been written to it since.
LEMMA LeftInPlace ==
    ASSUME TypeOK, FreshCopies, [Next]_vars, raced' = {},
           NEW q \in Readers, NEW n \in query[q].left, n \in DOMAIN file',
           NEW i \in DOMAIN file'[n], file'[n][i] # Torn
    PROVE  \/ n \in DOMAIN file /\ i \in DOMAIN file[n] /\ file[n][i] = file'[n][i]
           \/ \E h \in Handlers : Inside(h) /\ file'[n][i] = rec[h]
<1>1. ASSUME NEW h \in Handlers, Rotate(h) PROVE n # CopyOf(Day(rec[h].ts))
  BY <1>1, NoCopyYet
<1> QED
  BY <1>1, InPlace DEF WriteLine, Inside

\* A query keeps apart what it has and what it has still to read.
LEMMA KeepsNotTwice ==
    ASSUME TypeOK, FreshCopies, Once, Unwritten, NotTwice, [Next]_vars
    PROVE  NotTwice'
<1> SUFFICES ASSUME raced' = {}, NEW q \in Readers
             PROVE  /\ IsInjective(query'[q].got)
                    /\ \A n \in query'[q].left \cap DOMAIN file' :
                          \A i \in DOMAIN file'[n], j \in DOMAIN query'[q].got :
                             file'[n][i] # query'[q].got[j]
  BY DEF NotTwice
<1>1. /\ IsInjective(query[q].got)
      /\ \A n \in query[q].left \cap DOMAIN file :
            \A i \in DOMAIN file[n], j \in DOMAIN query[q].got :
               file[n][i] # query[q].got[j]
  BY Onwards DEF NotTwice
<1>2. /\ query[q].got \in Seq(Records) /\ DOMAIN << >> = {}
      /\ \A j \in DOMAIN query[q].got : query[q].got[j] # Torn
  BY OthersAssumption DEF TypeOK, Queries
<1>3. CASE query'[q] = query[q]
  <2>1. ASSUME NEW n \in query[q].left, n \in DOMAIN file', NEW i \in DOMAIN file'[n],
               NEW j \in DOMAIN query[q].got
        PROVE  file'[n][i] # query[q].got[j]
    <3>1. CASE file'[n][i] = Torn
      BY <1>2, <3>1
    <3>2. CASE n \in DOMAIN file /\ i \in DOMAIN file[n] /\ file[n][i] = file'[n][i]
      BY <1>1, <3>2
    <3>3. CASE \E h \in Handlers : Inside(h) /\ file'[n][i] = rec[h]
      BY <3>3 DEF Unwritten
    <3> QED
      BY <2>1, <3>1, <3>2, <3>3, LeftInPlace
  <2> QED
    BY <1>1, <1>3, <2>1
<1>4. CASE query'[q].got = << >>
  BY <1>2, <1>4 DEF IsInjective
<1>5. CASE QueryFinish(q)
  <2>1. PICK t \in SortedByTS(query[q].got) : query'[q] = [at |-> "done", left |-> {}, got |-> t]
    BY <1>5, FinishOne
  <2>2. query'[q].got = t /\ query'[q].left = {}
    BY <2>1
  <2>3. IsInjective(t)
    BY <1>1, <1>2, <2>1, Sorting
  <2> QED
    BY <2>2, <2>3
<1>6. CASE QueryRead(q)
  <2>1. PICK n \in query[q].left, part \in Seq(Records) :
           /\ query'[q].got = query[q].got \o part
           /\ query'[q].left = query[q].left \ {n} /\ query'[q].at = "reading"
           /\ \A i \in DOMAIN part :
                 n \in DOMAIN file /\ i \in DOMAIN file[n] /\ part[i] = file[n][i]
           /\ n \in DOMAIN file => \A r \in Readable(file[n]) : r \in ToSet(part)
    BY <1>6, ReadsPart, Zenon
  <2> DEFINE got == query[q].got
  <2>2. /\ \A i \in DOMAIN part : part[i] # Torn
        /\ DOMAIN part = 1..Len(part) /\ DOMAIN got = 1..Len(got)
        /\ Len(part) \in Nat /\ Len(got) \in Nat
        /\ DOMAIN (got \o part) = 1..(Len(got) + Len(part))
        /\ \A i \in 1..(Len(got) + Len(part)) :
              (got \o part)[i] = IF i <= Len(got) THEN got[i] ELSE part[i - Len(got)]
    BY <1>2, OthersAssumption, Joined
  <2>3. \A i, j \in DOMAIN part : part[i] = part[j] => i = j
    BY <2>1, <2>2 DEF Once
  <2>4. \A i \in DOMAIN part, j \in DOMAIN got : part[i] # got[j]
    BY <1>1, <2>1
  <2>5. \A i, j \in DOMAIN got : got[i] = got[j] => i = j
    BY <1>1 DEF IsInjective
  <2>6. file' = file
    BY <1>6, QueryAlone DEF Query
  <2>7. ASSUME NEW m \in query'[q].left, m \in DOMAIN file, NEW i \in DOMAIN file[m],
               NEW j \in DOMAIN part
        PROVE  file[m][i] # part[j]
    <3>1. m # n /\ n \in DOMAIN file /\ j \in DOMAIN file[n] /\ part[j] = file[n][j]
      BY <2>1, <2>7
    <3> QED
      BY <2>2, <2>7, <3>1 DEF Once
  <2>8. \A m \in query'[q].left \cap DOMAIN file : \A i \in DOMAIN file[m], j \in DOMAIN got :
           file[m][i] # got[j]
    BY <1>1, <2>1
  <2> HIDE DEF got
  <2>9. \A i \in DOMAIN (got \o part) :
           \/ i \in DOMAIN got /\ (got \o part)[i] = got[i] /\ i <= Len(got)
           \/ /\ i - Len(got) \in DOMAIN part /\ (got \o part)[i] = part[i - Len(got)]
              /\ i > Len(got)
    BY <2>2
  <2>10. ASSUME NEW i \in DOMAIN (got \o part), NEW j \in DOMAIN (got \o part),
                (got \o part)[i] = (got \o part)[j]
         PROVE  i = j
    <3>1. CASE i <= Len(got) /\ j <= Len(got)
      BY <2>2, <2>5, <2>9, <2>10, <3>1
    <3>2. CASE i > Len(got) /\ j > Len(got)
      <4>1. i - Len(got) = j - Len(got)
        BY <2>2, <2>3, <2>9, <2>10, <3>2
      <4> QED
        BY <2>2, <4>1
    <3>3. CASE ~(i <= Len(got) <=> j <= Len(got))
      BY <2>2, <2>4, <2>9, <2>10, <3>3
    <3> QED
      BY <2>2, <3>1, <3>2, <3>3
  <2>11. IsInjective(got \o part)
    BY <2>10 DEF IsInjective
  <2>12. \A m \in query'[q].left \cap DOMAIN file : \A i \in DOMAIN file[m] :
            \A j \in DOMAIN (got \o part) : file[m][i] # (got \o part)[j]
    BY <2>7, <2>8, <2>9
  <2> QED
    BY <2>1, <2>6, <2>11, <2>12 DEF got
<1> QED
  BY <1>3, <1>4, <1>5, <1>6, Reads

\* What keeps a query from repeating: where each record is, and where it is not.
PInv == RInv /\ Once /\ Numbered /\ Unwritten /\ NotTwice

\* No query returns a record twice, however handlers rotate and cleaners
\* remove while it reads, unless two handlers have rotated one day's file in
\* the same second.
THEOREM QueriesRepeatNothing == Spec => []QueryOnce
<1>1. Init => PInv
  <2> SUFFICES ASSUME Init PROVE PInv
    OBVIOUS
  <2>1. /\ DOMAIN file = {} /\ \A h \in Handlers : ~Inside(h)
        /\ \A q \in Readers : query[q].left = {} /\ query[q].got = << >>
    BY DEF Init, NoFiles, NoQuery, Inside
  <2>2. DOMAIN << >> = {} /\ IsInjective(<< >>)
    BY DEF IsInjective
  <2>3. Once /\ Numbered /\ Unwritten /\ NotTwice
    BY <2>1, <2>2 DEF Once, Numbered, Unwritten, NotTwice
  <2> QED
    BY <2>3, InitRInv DEF PInv
<1>2. PInv /\ [Next]_vars => PInv'
  <2> SUFFICES ASSUME PInv, [Next]_vars PROVE PInv'
    OBVIOUS
  <2>1. TypeOK /\ FreshCopies
    BY DEF PInv, RInv
  <2>2. RInv'
    BY NextRInv DEF PInv
  <2>3. Once' /\ Numbered' /\ Unwritten' /\ NotTwice'
    BY <2>1, KeepsOnce, KeepsNumbered, KeepsUnwritten, KeepsNotTwice DEF PInv
  <2> QED
    BY <2>2, <2>3 DEF PInv
<1>3. PInv => QueryOnce
  BY DEF PInv, NotTwice, QueryOnce
<1> QED
  BY <1>1, <1>2, <1>3, PTL DEF Spec

-----------------------------------------------------------------------------
(* Queries: nothing missed.                                                *)

\* A file keeps its name and its lines as long as the listings are good.
LEMMA FilesStay ==
    ASSUME TypeOK, [Next]_vars, ~PowerLoss, NEW q \in Readers, q \notin disturbed',
           NEW n \in DOMAIN file
    PROVE  /\ n \in DOMAIN file' /\ DOMAIN file[n] = 1..Len(file[n]) /\ Len(file[n]) \in Nat
           /\ DOMAIN file'[n] \subseteq Nat \ {0}
           /\ \A i \in DOMAIN file[n] : i \in DOMAIN file'[n] /\ file'[n][i] = file[n][i]
<1> DEFINE Same == n \in DOMAIN file' /\ file'[n] = file[n]
<1>0. /\ file[n] \in Seq(Lines) /\ DOMAIN file[n] = 1..Len(file[n]) /\ Len(file[n]) \in Nat
      /\ DOMAIN file[n] \subseteq Nat \ {0}
  BY DEF TypeOK
<1>1. CASE ~Touches
  BY <1>0, <1>1, Untouched
<1>2. ASSUME NEW h \in Handlers, Rotate(h) PROVE Same
  BY <1>2, Rotating
<1>3. ASSUME NEW h \in Handlers, OpenFile(h) PROVE Same
  BY <1>3, Opening
<1>4. ASSUME NEW h \in Handlers, WriteLine(h) \/ WriteTorn(h)
      PROVE  Same \/ \E x : Adds(n, x)
  BY <1>4, Writing DEF Adds
<1>5. ASSUME NEW c \in Cleaners, NEW m \in Names, CleanRemove(c, m) PROVE Same
  BY <1>5 DEF CleanRemove, Exists
<1>6. ASSUME NEW x, Adds(n, x)
      PROVE  /\ n \in DOMAIN file' /\ DOMAIN file'[n] \subseteq Nat \ {0}
             /\ \A i \in DOMAIN file[n] : i \in DOMAIN file'[n] /\ file'[n][i] = file[n][i]
  BY <1>6 DEF Adds
<1>7. Same => /\ n \in DOMAIN file' /\ DOMAIN file'[n] \subseteq Nat \ {0}
              /\ \A i \in DOMAIN file[n] : i \in DOMAIN file'[n] /\ file'[n][i] = file[n][i]
  BY <1>0
<1> QED
  BY <1>0, <1>1, <1>2, <1>3, <1>4, <1>5, <1>6, <1>7 DEF Touches

\* So what is behind a torn line stays behind it.
LEMMA StaysHidden ==
    ASSUME TypeOK, [Next]_vars, ~PowerLoss, NEW q \in Readers, q \notin disturbed',
           NEW n \in DOMAIN file, NEW r, Hidden(r, n)
    PROVE  n \in DOMAIN file' /\ Hidden(r, n)'
<1>1. /\ n \in DOMAIN file' /\ DOMAIN file[n] = 1..Len(file[n]) /\ Len(file[n]) \in Nat
      /\ DOMAIN file'[n] \subseteq Nat \ {0}
      /\ \A i \in DOMAIN file[n] : i \in DOMAIN file'[n] /\ file'[n][i] = file[n][i]
  BY FilesStay
<1>2. PICK i \in DOMAIN file[n] : file[n][i] = r
  BY DEF Hidden, ToSet
<1>3. PICK k \in 1..i : file[n][k] = Torn
  BY <1>2 DEF Hidden, Readable
<1>4. ASSUME NEW j \in DOMAIN file'[n], file'[n][j] = r, \A l \in 1..j : file'[n][l] # Torn
      PROVE  FALSE
  <2>1. k \in DOMAIN file[n] /\ file'[n][k] = Torn /\ k \in Nat /\ i \in Nat /\ k <= i
    BY <1>1, <1>3
  <2>2. j < k
    BY <1>1, <1>3, <1>4, <2>1
  <2>3. j \in DOMAIN file[n] /\ j \in Nat
    BY <1>1, <2>1, <2>2
  <2>4. \A l \in 1..j : l \in DOMAIN file[n] /\ file[n][l] = file'[n][l]
    BY <1>1, <2>3
  <2>5. file[n][j] = r /\ \A l \in 1..j : file[n][l] # Torn
    BY <1>1, <1>4, <2>3, <2>4
  <2> QED
    BY <2>3, <2>5 DEF Hidden, Readable
<1>5. r \in ToSet(file'[n])
  BY <1>1, <1>2 DEF ToSet
<1>6. r \notin Readable(file'[n])
  BY <1>4 DEF Readable
<1> QED
  BY <1>1, <1>5, <1>6 DEF Hidden

\* What is due, and whether the listing is still good, is settled when a
\* query lists the directory.
LEMMA DueAfter ==
    ASSUME TypeOK, [Next]_vars, ~PowerLoss, NEW q \in Readers, ~QueryList(q), ~QueryAgain(q)
    PROVE  due'[q] = due[q] /\ (q \in disturbed => q \in disturbed')
<1>1. ASSUME NEW h \in Handlers, Answer(h) \/ AppendAudit(h)
      PROVE  due' = due /\ (q \in disturbed => q \in disturbed')
  BY <1>1, Rotating, Opening, Writing DEF Answer, AppendAudit, StatFile, NoRecord, history
<1>2. ASSUME NEW c \in Cleaners, Clean(c)
      PROVE  due' = due /\ (q \in disturbed => q \in disturbed')
  BY <1>2 DEF Clean, CleanList, CleanRemove, history
<1>3. ASSUME NEW p \in Readers \ {q}, Query(p)
      PROVE  due'[q] = due[q] /\ (q \in disturbed => q \in disturbed')
  <2>1. due'[q] = due[q]
    BY <1>3, QueryAlone
  <2> QED
    BY <1>3, <2>1 DEF Query, QueryList, Listed, QueryRead, Collect, QueryFinish, QueryAgain, history
<1>4. CASE QueryRead(q) \/ QueryFinish(q)
  BY <1>4 DEF QueryRead, Collect, QueryFinish, history
<1>5. CASE Tick \/ Kill \/ UNCHANGED vars
  BY <1>5 DEF Tick, Kill, vars, history
<1> QED
  BY <1>1, <1>2, <1>3, <1>4, <1>5 DEF Next, Query

\* A query ends with nothing left to read.
LEMMA KeepsThrough ==
    ASSUME TypeOK, Through, [Next]_vars
    PROVE  Through'
<1> SUFFICES ASSUME NEW q \in Readers, query'[q].at # "reading" PROVE query'[q].left = {}
  BY DEF Through
<1>1. CASE query'[q] = query[q]
  BY <1>1 DEF Through
<1>2. CASE query'[q] = NoQuery
  BY <1>2 DEF NoQuery
<1>3. QueryList(q) => query'[q].at = "reading"
  BY ListOne
<1>4. QueryRead(q) => query'[q].at = "reading"
  BY ReadsPart
<1>5. CASE QueryFinish(q)
  <2>1. PICK t \in SortedByTS(query[q].got) : query'[q] = [at |-> "done", left |-> {}, got |-> t]
    BY <1>5, FinishOne
  <2> QED
    BY <2>1
<1>6. QueryAgain(q) => query'[q] = NoQuery
  BY DEF QueryAgain, TypeOK
<1> QED
  BY <1>1, <1>2, <1>3, <1>4, <1>5, <1>6, QueryChanges DEF Query

\* What is due stays to be found while the listing is good.
LEMMA KeepsFound ==
    ASSUME TypeOK, Filed, Found, [Next]_vars
    PROVE  Found'
<1> SUFFICES ASSUME NEW q \in Readers, q \notin disturbed', NEW r \in due'[q]
             PROVE  \/ r \in ToSet(query'[q].got)
                    \/ \E n \in DOMAIN file' : Hidden(r, n)'
                    \/ \E n \in query'[q].left \cap DOMAIN file' : r \in ToSet(file'[n])
  BY DEF Found
<1>1. CASE PowerLoss
  BY <1>1 DEF PowerLoss
<1>2. CASE QueryList(q)
  <2>1. r \in Stored /\ InWindow(Day(r.ts)) /\ query'[q].left = {n \in DOMAIN file : InWindow(n.day)}
        /\ file' = file
    BY <1>2, ListOne, QueryAlone DEF Query
  <2>2. PICK n \in DOMAIN file : \E i \in DOMAIN file[n] : file[n][i] = r
    BY <2>1, StoredAt
  <2>3. r # Torn /\ Day(r.ts) = n.day
    BY <2>1, <2>2, StoredAt DEF Filed
  <2>4. n \in query'[q].left /\ r \in ToSet(file[n])
    BY <2>1, <2>2, <2>3 DEF ToSet
  <2> QED
    BY <2>1, <2>4
<1>3. CASE QueryAgain(q)
  BY <1>3 DEF QueryAgain, TypeOK
<1>4. CASE ~PowerLoss /\ ~QueryList(q) /\ ~QueryAgain(q)
  <2>1. r \in due[q] /\ q \notin disturbed
    BY <1>4, DueAfter
  <2>2. CASE \E n \in DOMAIN file : Hidden(r, n)
    BY <1>4, <2>2, StaysHidden
  <2>3. CASE r \in ToSet(query[q].got)
    <3>1. PICK i \in DOMAIN query[q].got : query[q].got[i] = r
      BY <2>3 DEF ToSet
    <3>2. query[q].got \in Seq(Records)
      BY DEF TypeOK, Queries
    <3>3. CASE QueryRead(q)
      <4>1. PICK part \in Seq(Records) : query'[q].got = query[q].got \o part
        BY <3>3, ReadsPart
      <4>2. i \in DOMAIN (query[q].got \o part) /\ (query[q].got \o part)[i] = r
        BY <3>1, <3>2, Joined
      <4> QED
        BY <4>1, <4>2 DEF ToSet
    <3>4. CASE QueryFinish(q)
      <4>1. PICK t \in SortedByTS(query[q].got) :
               query'[q] = [at |-> "done", left |-> {}, got |-> t]
        BY <3>4, FinishOne
      <4>2. DOMAIN t = DOMAIN query[q].got /\ \E j \in DOMAIN query[q].got : t[j] = query[q].got[i]
        BY <3>1, <3>2, <4>1, Sorting
      <4>3. query'[q].got = t
        BY <4>1
      <4> QED
        BY <3>1, <4>2, <4>3 DEF ToSet
    <3>5. CASE query'[q] = query[q]
      BY <2>3, <3>5
    <3> QED
      BY <1>4, <3>3, <3>4, <3>5, QueryChanges DEF Query
  <2>4. ASSUME NEW n \in query[q].left, n \in DOMAIN file, r \in ToSet(file[n])
        PROVE  \/ r \in ToSet(query'[q].got)
               \/ \E m \in DOMAIN file' : Hidden(r, m)'
               \/ \E m \in query'[q].left \cap DOMAIN file' : r \in ToSet(file'[m])
    <3>1. n \in DOMAIN file' /\ r \in ToSet(file'[n])
      BY <1>4, <2>4, FilesStay DEF ToSet
    <3>2. CASE query'[q] = query[q]
      BY <2>4, <3>1, <3>2
    <3>3. CASE QueryRead(q)
      <4>1. PICK m \in query[q].left, part \in Seq(Records) :
               /\ query'[q].got = query[q].got \o part /\ query'[q].left = query[q].left \ {m}
               /\ m \in DOMAIN file => \A x \in Readable(file[m]) : x \in ToSet(part)
        BY <3>3, ReadsPart
      <4>2. CASE m # n
        BY <2>4, <3>1, <4>1, <4>2
      <4>3. CASE m = n /\ r \notin Readable(file[n])
        BY <1>4, <2>4, <4>3, StaysHidden DEF Hidden
      <4>4. CASE m = n /\ r \in Readable(file[n])
        <5>1. PICK i \in DOMAIN part : part[i] = r
          BY <2>4, <4>1, <4>4 DEF ToSet
        <5>2. query[q].got \in Seq(Records)
          BY DEF TypeOK, Queries
        <5> DEFINE got == query[q].got
        <5> HIDE DEF got
        <5>3. got \in Seq(Records)
          BY <5>2 DEF got
        <5>4. /\ Len(got) \in Nat /\ Len(part) \in Nat /\ DOMAIN part = 1..Len(part)
              /\ DOMAIN (got \o part) = 1..(Len(got) + Len(part))
              /\ \A j \in 1..Len(part) : (got \o part)[Len(got) + j] = part[j]
          BY <5>3, Joined
        <5>5. Len(got) + i \in DOMAIN (got \o part) /\ (got \o part)[Len(got) + i] = r
          BY <5>1, <5>4
        <5>6. query'[q].got = got \o part
          BY <4>1 DEF got
        <5> QED
          BY <5>5, <5>6 DEF ToSet
      <4> QED
        BY <4>2, <4>3, <4>4
    <3>4. CASE QueryFinish(q)
      BY <2>4, <3>4, FinishOne
    <3> QED
      BY <1>4, <3>2, <3>3, <3>4, QueryChanges DEF Query
  <2> QED
    BY <2>1, <2>2, <2>3, <2>4 DEF Found
<1> QED
  BY <1>1, <1>2, <1>3, <1>4

\* What keeps a query from missing: where each record that is due is to be found.
FInv == RInv /\ Through /\ Found

\* A query that ends has returned every record that was in the directory when
\* it listed it, unless a file has been renamed or removed since; a torn line
\* hides what follows it in its own file and nothing else.
THEOREM QueriesMissNothing == Spec => []QueryComplete
<1>1. Init => FInv
  <2> SUFFICES ASSUME Init PROVE FInv
    OBVIOUS
  <2>1. \A q \in Readers : query[q].left = {} /\ due[q] = {}
    BY DEF Init, NoQuery
  <2> QED
    BY <2>1, InitRInv DEF FInv, Through, Found
<1>2. FInv /\ [Next]_vars => FInv'
  <2> SUFFICES ASSUME FInv, [Next]_vars PROVE FInv'
    OBVIOUS
  <2>1. TypeOK /\ Filed
    BY DEF FInv, RInv
  <2>2. RInv'
    BY NextRInv DEF FInv
  <2>3. Through' /\ Found'
    BY <2>1, KeepsThrough, KeepsFound DEF FInv
  <2> QED
    BY <2>2, <2>3 DEF FInv
<1>3. FInv => QueryComplete
  BY DEF FInv, Through, Found, Hidden, QueryComplete
<1> QED
  BY <1>1, <1>2, <1>3, PTL DEF Spec
=============================================================================

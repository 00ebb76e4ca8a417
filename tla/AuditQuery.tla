----------------------------- MODULE AuditQuery -----------------------------
(***************************************************************************)
(* guard/audit.go, cmdLog: what `log tail` and `log stat` make of the      *)
(* records readAuditLines has given them, sorted by time.                  *)
(*                                                                         *)
(* Abstractions: a record is reduced to the fields a filter or a sum looks *)
(* at; a credit is a whole number of tenths, -1 stands for a credit the    *)
(* upstream has not returned.                                              *)
(***************************************************************************)
EXTENDS Integers, Sequences, FiniteSets, Functions

CONSTANTS
    Days, KeyIds, Models,
    NoModel,    \* the request had no model, or was refused before it was read
    Statuses,
    Credits,    \* tenths of a credit; -1: not returned
    Shown,      \* -n
    Anything,   \* a filter that is not set
    MaxRecords  \* bound: records read

ASSUME ShownAssumption == Shown \in Nat
ASSUME CreditsAssumption == Credits \subseteq Int

VARIABLE recs   \* the records, in the order of TS

Record == [day : Days, key : KeyIds, model : Models \cup {NoModel},
           status : Statuses, credit : Credits]

QueryInit == recs = <<>>

\* readAuditLines has one more record.
ReadRecord ==
    /\ Len(recs) < MaxRecords
    /\ \E r \in Record :
          /\ recs # <<>> => recs[Len(recs)].day <= r.day
          /\ recs' = Append(recs, r)

QueryNext == ReadRecord
QuerySpec == QueryInit /\ [][QueryNext]_recs

-----------------------------------------------------------------------------
Filters == [key : KeyIds \cup {Anything}, model : Models \cup {Anything},
            status : Statuses \cup {Anything}, onlyErr : BOOLEAN]

Success(r) == r.status \in 200..299

Matches(r, f) ==
    /\ f.key = Anything \/ r.key = f.key
    /\ f.model = Anything \/ r.model = f.model
    /\ f.status = Anything \/ r.status = f.status
    /\ f.onlyErr => ~Success(r)

\* The records that match, put together one after the other.
Matching(f) ==
    LET filtered[n \in 0..Len(recs)] ==
          IF n = 0 THEN <<>>
          ELSE IF Matches(recs[n], f) THEN Append(filtered[n - 1], recs[n])
                                      ELSE filtered[n - 1]
    IN  filtered[Len(recs)]

\* Variant of LogTail: the oldest ones are shown.
LogTailOldest(f) ==
    LET all == Matching(f)
        n == IF Len(all) > Shown THEN Shown ELSE Len(all)
    IN  [records |-> SubSeq(all, 1, n), total |-> Len(recs),
         count |-> n, limited |-> Len(recs) > Shown]

\* `log tail`: the last -n of those that match.
LogTail(f) ==
    LET all == Matching(f)
        n == IF Len(all) > Shown THEN Shown ELSE Len(all)
    IN  [records |-> SubSeq(all, Len(all) - n + 1, Len(all)), total |-> Len(recs),
         count |-> n, limited |-> Len(recs) > Shown]

-----------------------------------------------------------------------------
Where(P(_)) == {i \in DOMAIN recs : P(recs[i])}
CountBy(field) ==
    [v \in {recs[i][field] : i \in DOMAIN recs} |->
        Cardinality({i \in DOMAIN recs : recs[i][field] = v})]
CreditOf(S) == SumFunctionOnSet([i \in DOMAIN recs |-> recs[i].credit], S)
WholeCreditOf(S) == SumFunctionOnSet([i \in DOMAIN recs |-> recs[i].credit \div 10], S)

Billed == Where(LAMBDA r : r.credit > 0)

\* Variant of LogStat: credits that were not returned are added up as well.
LogStatAll ==
    [total |-> Len(recs), success |-> Cardinality(Where(Success)),
     creditTotal |-> WholeCreditOf(DOMAIN recs),
     byDay |-> CountBy("day"), byKey |-> CountBy("key"),
     byStatus |-> CountBy("status"),
     byModel |-> [m \in DOMAIN CountBy("model") \ {NoModel} |-> CountBy("model")[m]],
     creditByKey |-> [k \in {recs[i].key : i \in DOMAIN recs} |->
                         CreditOf({i \in DOMAIN recs : recs[i].key = k})]]

\* `log stat`: credit_total adds up whole credits, int64(r.Credit) of every
\* record, credit_by_key the credits as they are.
LogStat ==
    [total |-> Len(recs), success |-> Cardinality(Where(Success)),
     creditTotal |-> WholeCreditOf(Billed),
     byDay |-> CountBy("day"), byKey |-> CountBy("key"),
     byStatus |-> CountBy("status"),
     byModel |-> [m \in DOMAIN CountBy("model") \ {NoModel} |-> CountBy("model")[m]],
     creditByKey |-> [k \in {recs[i].key : i \in Billed} |->
                         CreditOf({i \in Billed : recs[i].key = k})]]

-----------------------------------------------------------------------------
\* `log tail` shows the newest records that match: none that matches is newer
\* than the oldest one shown and missing, and an answer that is not marked as
\* limited shows every one.
TailShowsNewest ==
    recs # <<>> => \A f \in Filters :
        LET t == LogTail(f)
            hits == {i \in DOMAIN recs : Matches(recs[i], f)}
        IN  /\ t.count <= Shown
            /\ ~t.limited => t.count = Cardinality(hits)
            /\ \A j \in DOMAIN t.records :
                  \E i \in hits :
                      /\ recs[i] = t.records[j]
                      /\ Cardinality({h \in hits : h > i}) = t.count - j

\* The tables of `log stat` add up: each counts every record once (that of the
\* models leaves out those without one), and the sum of all credits is never
\* above the sums per key, and below them by less than one credit a record.
StatAddsUp ==
    LET sum(f) == SumFunction(f)
        credits == sum(LogStat.creditByKey)
    IN  recs # <<>> =>
        /\ sum(LogStat.byDay) = LogStat.total
        /\ sum(LogStat.byKey) = LogStat.total
        /\ sum(LogStat.byStatus) = LogStat.total
        /\ sum(LogStat.byModel) <= LogStat.total
        /\ LogStat.success <= LogStat.total
        /\ 10 * LogStat.creditTotal <= credits
        /\ credits <= 10 * LogStat.creditTotal + 9 * Cardinality(Billed)
=============================================================================

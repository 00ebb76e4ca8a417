----------------------------- MODULE PartsProofs -----------------------------
(***************************************************************************)
(* Proofs about the parts of a request that Gateway leaves to a choice,    *)
(* Admission, for any lists, addresses, limits and window, and Tail, for a *)
(* ring of any size and answers of any length; about Config, for any       *)
(* settings, files and runs of cfg render; and about AuditQuery, for any   *)
(* records and filters.                                                    *)
(***************************************************************************)
EXTENDS Config, Admission, Tail, AuditQuery, FiniteSetTheorems, SequenceTheorems,
        WellFoundedInduction, TLAPS

-----------------------------------------------------------------------------
(* Admission.                                                              *)

\* A key has noted no more addresses than it may be used from.
PlacesBounded ==
    \A k \in Keys : MaxIPs[k] > 0 =>
        /\ IsFiniteSet(DOMAIN ipSeen[k])
        /\ Cardinality(DOMAIN ipSeen[k]) <= MaxIPs[k]

\* Every address let in within the window is still noted, with the time it was
\* last seen or a later one.
PlacesKept ==
    \A e \in admitted :
        /\ e[3] <= clock /\ clock - e[3] <= Window
        /\ e[2] \in DOMAIN ipSeen[e[1]]
        /\ e[3] <= ipSeen[e[1]][e[2]]

\* A reload holds g.mu, and there are requests only in a daemon that is up.
Locked ==
    /\ \A r \in Requests : req[r].at \in {"loading", "stamping"} => mu = r /\ ~stamped
    /\ daemon # "up" => \A r \in Requests : req[r].at = "idle"

\* The lists are those of guard.json when its time is, or is about to be,
\* recorded, and nothing has slipped past the stamp.
ListsInForce ==
    /\ ~missed /\ Good(guardFile)
    /\ \/ daemon = "loaded" \/ stamped
       \/ statted /\ \E r \in Requests : req[r].at = "stamping"
    => lists = guardFile

\* A request before the lists finds those of guard.json in force, unless it
\* came before the last save, or could not learn of it.
ListsRead ==
    \A r \in Requests \ (outrun \cup misled) :
        req[r].at \in {"stamping", "entered"} /\ Good(guardFile) => lists = guardFile

InForce == Locked /\ ListsInForce /\ ListsRead /\ JudgedByFile

AInv == AdmissionTypeOK /\ PlacesBounded /\ PlacesKept /\ InForce

-----------------------------------------------------------------------------
\* What is left of the addresses of a key when the old ones are dropped.
LEMMA FreshPart ==
    ASSUME PlacesBounded, NEW k \in Keys, MaxIPs[k] > 0
    PROVE  /\ Fresh(k) \subseteq DOMAIN ipSeen[k]
           /\ IsFiniteSet(Fresh(k))
           /\ Cardinality(Fresh(k)) \in Nat
           /\ Cardinality(Fresh(k)) <= MaxIPs[k]
<1>1. Fresh(k) \subseteq DOMAIN ipSeen[k]
  BY DEF Fresh
<1>2. /\ IsFiniteSet(DOMAIN ipSeen[k])
      /\ Cardinality(DOMAIN ipSeen[k]) <= MaxIPs[k]
  BY DEF PlacesBounded
<1>3. /\ IsFiniteSet(Fresh(k))
      /\ Cardinality(Fresh(k)) <= Cardinality(DOMAIN ipSeen[k])
  BY <1>1, <1>2, FS_Subset
<1>4. Cardinality(Fresh(k)) \in Nat /\ Cardinality(DOMAIN ipSeen[k]) \in Nat
  BY <1>2, <1>3, FS_CardinalityType
<1> QED
  BY <1>1, <1>2, <1>3, <1>4, MaxIPsAssumption

\* Whoever was let in within the window is among the fresh addresses.
LEMMA RecentFresh ==
    ASSUME AdmissionTypeOK, PlacesKept, NEW k \in Keys
    PROVE  Recent(k) \subseteq Fresh(k)
<1> SUFFICES ASSUME NEW e \in admitted, e[1] = k
             PROVE  e[2] \in Fresh(k)
  BY DEF Recent
<1>1. e \in Keys \X Sources \X (0..MaxTime)
  BY DEF AdmissionTypeOK
<1>2. /\ clock - e[3] <= Window /\ e[2] \in DOMAIN ipSeen[k]
      /\ e[3] <= ipSeen[k][e[2]]
  BY DEF PlacesKept
<1>3. clock \in Int /\ e[3] \in Int /\ ipSeen[k][e[2]] \in Int
  BY <1>1, <1>2, TimeAssumption DEF AdmissionTypeOK
<1> QED
  BY <1>2, <1>3, TimeAssumption DEF Fresh

-----------------------------------------------------------------------------
\* The invariant holds at the start.
LEMMA InitAInv == AdmissionInit => AInv
<1> SUFFICES ASSUME AdmissionInit PROVE AInv
  OBVIOUS
<1>1. AdmissionTypeOK
  <2>1. NotSeen \in [{} -> 0..MaxTime] /\ {} \in SUBSET Sources
    BY DEF NotSeen
  <2>2. NotSeen \in UNION {[S -> 0..MaxTime] : S \in SUBSET Sources}
    BY <2>1
  <2>3. clock \in 0..MaxTime /\ ipSeen \in [Keys -> UNION {[S -> 0..MaxTime] : S \in SUBSET Sources}]
    BY <2>2, TimeAssumption DEF AdmissionInit
  <2> QED
    BY <2>3 DEF AdmissionInit, AdmissionTypeOK
<1>2. PlacesBounded
  <2> SUFFICES ASSUME NEW k \in Keys, MaxIPs[k] > 0
               PROVE  IsFiniteSet(DOMAIN ipSeen[k]) /\ Cardinality(DOMAIN ipSeen[k]) <= MaxIPs[k]
    BY DEF PlacesBounded
  <2>1. DOMAIN ipSeen[k] = {}
    BY DEF AdmissionInit, NotSeen
  <2> QED
    BY <2>1, FS_EmptySet, MaxIPsAssumption
<1> QED
  BY <1>1, <1>2
     DEF AdmissionInit, AInv, PlacesKept, InForce, Locked, ListsInForce, ListsRead,
         JudgedByFile, Judged, NoRequest

\* Steps that leave the addresses noted alone: the lists and the requests.
LEMMA SamePlaces ==
    ASSUME PlacesBounded, PlacesKept, UNCHANGED <<clock, ipSeen, admitted>>
    PROVE  PlacesBounded' /\ PlacesKept'
BY DEF PlacesBounded, PlacesKept

\* Steps that leave guard.json, the lists and the requests alone.
LEMMA SameLists ==
    ASSUME InForce, UNCHANGED <<guardFile, store, daemon, req, missed, misled, outrun>>
    PROVE  InForce'
BY DEF InForce, Locked, ListsInForce, ListsRead, JudgedByFile, store, Good, Compiles, MatchAny

\* A request that leaves, and one that goes from one check to the next, past
\* the lists, change nothing about the lists.
LEMMA LeaveInForce ==
    ASSUME AdmissionTypeOK, InForce, NEW r \in Requests, Leave(r),
           req[r].at \notin {"loading", "stamping"},
           UNCHANGED <<guardFile, store, daemon, missed>>
    PROVE  InForce'
<1>1. \A s \in Requests \ {r} :
         req'[s] = req[s] /\ (s \in outrun' <=> s \in outrun) /\ (s \in misled' <=> s \in misled)
  BY DEF Leave, AdmissionTypeOK
<1>2. req'[r].at = "idle"
  BY DEF Leave, AdmissionTypeOK, NoRequest
<1>3. UNCHANGED <<guardFile, stamped, statted, lists, mu, daemon, missed>>
  BY DEF store
<1>4. Locked'
  BY <1>1, <1>2, <1>3 DEF InForce, Locked
<1>5. ListsInForce'
  BY <1>1, <1>2, <1>3 DEF InForce, ListsInForce, Good, Compiles
<1>6. ASSUME NEW s \in Requests \ (outrun' \cup misled'), req'[s].at # "idle"
      PROVE  s # r /\ s \in Requests \ (outrun \cup misled) /\ req'[s] = req[s]
  BY <1>1, <1>2, <1>6
<1>7. ListsRead'
  BY <1>3, <1>6 DEF InForce, ListsRead, Good, Compiles
<1>8. JudgedByFile'
  BY <1>3, <1>6 DEF InForce, JudgedByFile, Judged, Good, Compiles, MatchAny
<1> QED
  BY <1>4, <1>5, <1>7, <1>8 DEF InForce

\* Types of the two ways a request moves.
LEMMA ReqType ==
    ASSUME AdmissionTypeOK, NEW r \in Requests
    PROVE  /\ Leave(r) => /\ req' \in [Requests -> {NoRequest} \cup
                                         [at : Stages, key : Keys, from : Sources]]
                          /\ misled' \subseteq Requests /\ outrun' \subseteq Requests
           /\ req[r].at # "idle" => /\ req[r] \in [at : Stages, key : Keys, from : Sources]
                                    /\ req[r].key \in Keys /\ req[r].from \in Sources
           /\ \A stage \in Stages : req[r].at # "idle" /\ Reach(r, stage) =>
                /\ req' \in [Requests -> {NoRequest} \cup [at : Stages, key : Keys, from : Sources]]
                /\ req'[r].at = stage /\ req'[r].key = req[r].key /\ req'[r].from = req[r].from
                /\ \A s \in Requests \ {r} : req'[s] = req[s]
<1>1. Leave(r) => /\ req' \in [Requests -> {NoRequest} \cup
                                  [at : Stages, key : Keys, from : Sources]]
                  /\ misled' \subseteq Requests /\ outrun' \subseteq Requests
  BY DEF AdmissionTypeOK, Leave
<1>2. req[r].at # "idle" => /\ req[r] \in [at : Stages, key : Keys, from : Sources]
                            /\ req[r].key \in Keys /\ req[r].from \in Sources
  BY DEF AdmissionTypeOK, NoRequest
<1>3. ASSUME NEW stage \in Stages, req[r].at # "idle", Reach(r, stage)
      PROVE  /\ req' \in [Requests -> {NoRequest} \cup [at : Stages, key : Keys, from : Sources]]
             /\ req'[r].at = stage /\ req'[r].key = req[r].key /\ req'[r].from = req[r].from
             /\ \A s \in Requests \ {r} : req'[s] = req[s]
  <2>1. [req[r] EXCEPT !.at = stage] \in [at : Stages, key : Keys, from : Sources]
    BY <1>2, <1>3
  <2>2. req' = [req EXCEPT ![r] = [req[r] EXCEPT !.at = stage]]
    BY <1>3 DEF Reach
  <2>3. req'[r] = [req[r] EXCEPT !.at = stage]
    BY <2>2 DEF AdmissionTypeOK
  <2>4. req'[r].at = stage /\ req'[r].key = req[r].key /\ req'[r].from = req[r].from
    BY <1>2, <1>3, <2>3
  <2> QED
    BY <2>1, <2>2, <2>4 DEF AdmissionTypeOK
<1> QED
  BY <1>1, <1>2, <1>3

\* The clock: what is old enough is no longer counted as let in.
LEMMA SecondAInv == AInv /\ Second => AInv'
<1> SUFFICES ASSUME AInv, Second PROVE AInv'
  OBVIOUS
<1>1. AdmissionTypeOK'
  BY TimeAssumption DEF AInv, AdmissionTypeOK, Second, store, Good, Compiles
<1>2. PlacesBounded'
  BY DEF AInv, PlacesBounded, Second
<1>3. PlacesKept'
  BY DEF AInv, AdmissionTypeOK, PlacesKept, Second
<1>4. InForce'
  BY SameLists DEF AInv, Second
<1> QED
  BY <1>1, <1>2, <1>3, <1>4 DEF AInv

\* A save outruns every request that has had its lists, and one that keeps
\* the stamp true is missed.
LEMMA WritePolicyAInv ==
    ASSUME AInv, NEW p \in Policies, WritePolicy(p)
    PROVE  AInv'
<1>1. AdmissionTypeOK'
  BY DEF AInv, AdmissionTypeOK, WritePolicy, places, Good, Compiles
<1>2. PlacesBounded' /\ PlacesKept'
  BY SamePlaces DEF AInv, WritePolicy, places
<1>3. Locked'
  BY DEF AInv, AdmissionTypeOK, InForce, Locked, WritePolicy
<1>4. ListsInForce'
  BY DEF AInv, AdmissionTypeOK, ListsInForce, WritePolicy
<1>5. ListsRead' /\ JudgedByFile'
  BY DEF ListsRead, JudgedByFile, Judged, WritePolicy
<1> QED
  BY <1>1, <1>2, <1>3, <1>4, <1>5 DEF AInv, InForce

\* A request that finds a new time begins a reload; one that finds the old
\* time finds the lists of guard.json in force, or is misled.
LEMMA ArriveAInv ==
    ASSUME AInv, NEW r \in Requests, NEW k \in Keys, NEW a \in Sources, Arrive(r, k, a)
    PROVE  AInv'
<1>1. \A stage \in Stages : [at |-> stage, key |-> k, from |-> a]
                                \in [at : Stages, key : Keys, from : Sources]
  OBVIOUS
<1>2. /\ daemon = "up" /\ mu = Nobody /\ req[r].at = "idle"
      /\ UNCHANGED <<clock, guardFile, stamped, lists, daemon, ipSeen, admitted, missed, outrun>>
  BY DEF Arrive, Free, places
<1>3. \A s \in Requests : req[s].at \notin {"loading", "stamping"}
  BY <1>2, NobodyAssumption DEF AInv, InForce, Locked
<1>4. PlacesBounded' /\ PlacesKept'
  BY <1>2, SamePlaces DEF AInv
<1>5. CASE /\ ~stamped
           /\ req' = [req EXCEPT ![r] = [at |-> "loading", key |-> k, from |-> a]]
           /\ statted' = TRUE /\ mu' = r
           /\ UNCHANGED misled
  <2>1. req'[r].at = "loading" /\ \A s \in Requests \ {r} : req'[s] = req[s]
    BY <1>5 DEF AInv, AdmissionTypeOK
  <2>2. AdmissionTypeOK'
    BY <1>1, <1>2, <1>5 DEF AInv, AdmissionTypeOK, Stages, Good, Compiles
  <2>3. Locked' /\ ListsInForce'
    BY <1>2, <1>3, <1>5, <2>1 DEF AInv, InForce, Locked, ListsInForce
  <2>4. ListsRead'
    BY <1>2, <1>5, <2>1 DEF AInv, InForce, ListsRead, Good, Compiles
  <2>5. JudgedByFile'
    BY <1>2, <1>5, <2>1 DEF AInv, InForce, JudgedByFile, Judged, Good, Compiles, MatchAny
  <2> QED
    BY <1>4, <2>2, <2>3, <2>4, <2>5 DEF AInv, InForce
<1>6. CASE /\ req' = [req EXCEPT ![r] = [at |-> "entered", key |-> k, from |-> a]]
           /\ misled' = IF stamped /\ ~missed THEN misled ELSE misled \cup {r}
           /\ UNCHANGED <<statted, mu>>
  <2>1. req'[r].at = "entered" /\ \A s \in Requests \ {r} : req'[s] = req[s]
    BY <1>6 DEF AInv, AdmissionTypeOK
  <2>2. AdmissionTypeOK'
    BY <1>1, <1>2, <1>6 DEF AInv, AdmissionTypeOK, Stages, Good, Compiles
  <2>3. Locked'
    BY <1>2, <1>3, <1>6, <2>1 DEF AInv, InForce, Locked
  <2>4. ListsInForce'
    BY <1>2, <1>3, <1>6, <2>1 DEF AInv, InForce, ListsInForce, Good, Compiles
  <2>5. ListsRead'
    <3> SUFFICES ASSUME NEW s \in Requests, s \notin outrun' \cup misled', Good(guardFile),
                        req'[s].at \in {"stamping", "entered"}
                 PROVE  lists = guardFile
      BY <1>2 DEF ListsRead, Good, Compiles
    <3>1. CASE s = r
      BY <1>6, <3>1 DEF AInv, InForce, ListsInForce
    <3>2. CASE s # r
      BY <1>2, <1>6, <2>1, <3>2 DEF AInv, InForce, ListsRead
    <3> QED
      BY <3>1, <3>2
  <2>6. JudgedByFile'
    BY <1>2, <1>6, <2>1 DEF AInv, InForce, JudgedByFile, Judged, Good, Compiles, MatchAny
  <2> QED
    BY <1>4, <2>2, <2>3, <2>4, <2>5, <2>6 DEF AInv, InForce
<1> QED
  BY <1>5, <1>6 DEF Arrive

\* A read that succeeds puts the lists of guard.json in force, if they compile.
LEMMA LoadPolicyAInv ==
    ASSUME AInv, NEW r \in Requests, LoadPolicy(r)
    PROVE  AInv'
<1>1. /\ req[r].at = "loading" /\ lists' = Reloaded /\ missed' = FALSE
      /\ UNCHANGED <<clock, guardFile, stamped, statted, mu, daemon, ipSeen, admitted, misled, outrun>>
  BY DEF LoadPolicy, places
<1>2. /\ req' \in [Requests -> {NoRequest} \cup [at : Stages, key : Keys, from : Sources]]
      /\ req'[r].at = "stamping" /\ \A s \in Requests \ {r} : req'[s] = req[s]
  BY <1>1, ReqType DEF AInv, LoadPolicy, Stages
<1>3. /\ Reloaded \in Policies /\ Good(Reloaded)
      /\ Good(guardFile) => Reloaded = guardFile
  BY DEF AInv, AdmissionTypeOK, Reloaded
<1>4. AdmissionTypeOK'
  BY <1>1, <1>2, <1>3 DEF AInv, AdmissionTypeOK, Good, Compiles
<1>5. PlacesBounded' /\ PlacesKept'
  BY <1>1, SamePlaces DEF AInv
<1>6. Locked'
  BY <1>1, <1>2 DEF AInv, InForce, Locked
<1>7. ListsInForce' /\ ListsRead'
  BY <1>1, <1>3 DEF ListsInForce, ListsRead, Good, Compiles
<1>8. JudgedByFile'
  BY <1>1, <1>2 DEF AInv, InForce, JudgedByFile, Judged, Good, Compiles, MatchAny
<1> QED
  BY <1>4, <1>5, <1>6, <1>7, <1>8 DEF AInv, InForce

\* One that fails misleads its own request, and the stamp after it the others.
LEMMA LoadPolicyFailsAInv ==
    ASSUME AInv, NEW r \in Requests, LoadPolicyFails(r)
    PROVE  AInv'
<1>1. /\ req[r].at = "loading" /\ missed' = statted /\ misled' = misled \cup {r}
      /\ UNCHANGED <<clock, guardFile, stamped, statted, lists, mu, daemon, ipSeen, admitted, outrun>>
  BY DEF LoadPolicyFails, places, store
<1>2. /\ req' \in [Requests -> {NoRequest} \cup [at : Stages, key : Keys, from : Sources]]
      /\ req'[r].at = "stamping" /\ \A s \in Requests \ {r} : req'[s] = req[s]
  BY <1>1, ReqType DEF AInv, LoadPolicyFails, Stages
<1>3. ~stamped /\ daemon = "up"
  BY <1>1 DEF AInv, InForce, Locked
<1>4. AdmissionTypeOK'
  BY <1>1, <1>2 DEF AInv, AdmissionTypeOK, Good, Compiles
<1>5. PlacesBounded' /\ PlacesKept'
  BY <1>1, SamePlaces DEF AInv
<1>6. Locked'
  BY <1>1, <1>2 DEF AInv, InForce, Locked
<1>7. ListsInForce'
  BY <1>1, <1>3 DEF AInv, AdmissionTypeOK, ListsInForce
<1>8. ListsRead'
  BY <1>1, <1>2 DEF AInv, InForce, ListsRead, Good, Compiles
<1>9. JudgedByFile'
  BY <1>1, <1>2 DEF AInv, InForce, JudgedByFile, Judged, Good, Compiles, MatchAny
<1> QED
  BY <1>4, <1>5, <1>6, <1>7, <1>8, <1>9 DEF AInv, InForce

\* The time recorded is that of the file only if it still is.
LEMMA StampAInv ==
    ASSUME AInv, NEW r \in Requests, Stamp(r)
    PROVE  AInv'
<1>1. /\ req[r].at = "stamping" /\ stamped' = statted /\ statted' = FALSE /\ mu' = Nobody
      /\ UNCHANGED <<clock, guardFile, lists, daemon, ipSeen, admitted, missed, misled, outrun>>
  BY DEF Stamp, places
<1>2. /\ req' \in [Requests -> {NoRequest} \cup [at : Stages, key : Keys, from : Sources]]
      /\ req'[r].at = "entered" /\ \A s \in Requests \ {r} : req'[s] = req[s]
  BY <1>1, ReqType DEF AInv, Stamp, Stages
<1>3. \A s \in Requests \ {r} : req[s].at \notin {"loading", "stamping"}
  BY <1>1 DEF AInv, InForce, Locked
<1>4. AdmissionTypeOK'
  BY <1>1, <1>2 DEF AInv, AdmissionTypeOK, Good, Compiles
<1>5. PlacesBounded' /\ PlacesKept'
  BY <1>1, SamePlaces DEF AInv
<1>6. Locked'
  BY <1>1, <1>2, <1>3 DEF AInv, InForce, Locked
<1>7. ListsInForce'
  BY <1>1 DEF AInv, InForce, ListsInForce, Good, Compiles
<1>8. ListsRead'
  BY <1>1, <1>2 DEF AInv, InForce, ListsRead, Good, Compiles
<1>9. JudgedByFile'
  BY <1>1, <1>2 DEF AInv, InForce, JudgedByFile, Judged, Good, Compiles, MatchAny
<1> QED
  BY <1>4, <1>5, <1>6, <1>7, <1>8, <1>9 DEF AInv, InForce

\* A request turned away, or refused by the lists, only leaves.
LEMMA TurnedAwayAInv ==
    ASSUME AInv, NEW r \in Requests, TurnedAway(r) \/ RefuseByList(r)
    PROVE  AInv'
<1>1. /\ req[r].at = "entered" /\ Leave(r)
      /\ UNCHANGED <<clock, guardFile, stamped, statted, lists, mu, daemon, ipSeen, admitted, missed>>
  BY DEF TurnedAway, RefuseByList, places, store
<1>2. AdmissionTypeOK'
  BY <1>1, ReqType DEF AInv, AdmissionTypeOK, Good, Compiles
<1>3. PlacesBounded' /\ PlacesKept'
  BY <1>1, SamePlaces DEF AInv
<1>4. InForce'
  BY <1>1, LeaveInForce DEF AInv, store
<1> QED
  BY <1>2, <1>3, <1>4 DEF AInv

\* A request that passes has been judged by the lists in force.
LEMMA PassListsAInv ==
    ASSUME AInv, NEW r \in Requests, PassLists(r)
    PROVE  AInv'
<1>1. /\ req[r].at = "entered" /\ ~Refused(req[r].key, req[r].from)
      /\ UNCHANGED <<clock, guardFile, stamped, statted, lists, mu, daemon, ipSeen, admitted, missed,
                     misled, outrun>>
  BY DEF PassLists, places, store
<1>2. /\ req' \in [Requests -> {NoRequest} \cup [at : Stages, key : Keys, from : Sources]]
      /\ req'[r].at = "listed" /\ req'[r].from = req[r].from
      /\ \A s \in Requests \ {r} : req'[s] = req[s]
  BY <1>1, ReqType DEF AInv, PassLists, Stages
<1>3. AdmissionTypeOK'
  BY <1>1, <1>2 DEF AInv, AdmissionTypeOK, Good, Compiles
<1>4. PlacesBounded' /\ PlacesKept'
  BY <1>1, SamePlaces DEF AInv
<1>5. Locked' /\ ListsInForce'
  BY <1>1, <1>2 DEF AInv, InForce, Locked, ListsInForce, Good, Compiles
<1>6. ListsRead'
  BY <1>1, <1>2 DEF AInv, InForce, ListsRead, Good, Compiles
<1>7. JudgedByFile'
  <2> SUFFICES ASSUME NEW s \in Requests, s \notin outrun \cup misled, req'[s].at \in Judged,
                      req'[s].from # NoAddress, Good(guardFile)
               PROVE  /\ ~MatchAny(guardFile.deny, req'[s].from)
                      /\ guardFile.allow # {} => MatchAny(guardFile.allow, req'[s].from)
    BY <1>1 DEF JudgedByFile, Good, Compiles, MatchAny
  <2>1. CASE s = r
    <3>1. lists = guardFile
      BY <1>1, <2>1 DEF AInv, InForce, ListsRead
    <3> QED
      BY <1>1, <1>2, <2>1, <3>1 DEF Refused, Denied, NotAllowed
  <2>2. CASE s # r
    BY <1>2, <2>2 DEF AInv, InForce, JudgedByFile
  <2> QED
    BY <2>1, <2>2
<1> QED
  BY <1>3, <1>4, <1>5, <1>6, <1>7 DEF AInv, InForce

\* A place is taken: the old addresses go, and there is room for the new one.
LEMMA TakePlaceAInv ==
    ASSUME AInv, NEW r \in Requests, TakePlace(r)
    PROVE  AInv'
<1> DEFINE k == req[r].key
           a == req[r].from
           noted == [b \in Fresh(k) \cup {a} |-> IF b = a THEN clock ELSE ipSeen[k][b]]
<1>1. /\ req[r].at = "listed" /\ k \in Keys /\ a \in Sources /\ MaxIPs[k] \in Nat
      /\ MaxIPs[k] > 0 => HasPlace(k, a)
      /\ UNCHANGED <<clock, guardFile, stamped, statted, lists, mu, daemon, missed, misled, outrun>>
  BY MaxIPsAssumption, ReqType DEF AInv, TakePlace, store
<1>2. /\ req' \in [Requests -> {NoRequest} \cup [at : Stages, key : Keys, from : Sources]]
      /\ req'[r].at = "placed" /\ req'[r].from = a
      /\ \A s \in Requests \ {r} : req'[s] = req[s]
  BY <1>1, ReqType DEF AInv, TakePlace, Stages
<1>3. InForce'
  <2>1. Locked' /\ ListsInForce' /\ ListsRead'
    BY <1>1, <1>2 DEF AInv, InForce, Locked, ListsInForce, ListsRead, Good, Compiles
  <2>2. JudgedByFile'
    BY <1>1, <1>2 DEF AInv, InForce, JudgedByFile, Judged, Good, Compiles, MatchAny
  <2> QED
    BY <2>1, <2>2 DEF InForce
<1>4. CASE MaxIPs[k] = 0
  <2>1. UNCHANGED <<ipSeen, admitted>>
    BY <1>4 DEF TakePlace, places
  <2>2. AdmissionTypeOK'
    BY <1>1, <1>2, <2>1 DEF AInv, AdmissionTypeOK, Good, Compiles
  <2>3. PlacesBounded' /\ PlacesKept'
    BY <1>1, <2>1, SamePlaces DEF AInv
  <2> QED
    BY <1>3, <2>2, <2>3 DEF AInv
<1>5. CASE MaxIPs[k] > 0
  <2>1. /\ ipSeen' = [ipSeen EXCEPT ![k] = noted]
        /\ admitted' = admitted \cup {<<k, a, clock>>}
    BY <1>5 DEF TakePlace
  <2>2. /\ Fresh(k) \subseteq DOMAIN ipSeen[k]
        /\ IsFiniteSet(Fresh(k)) /\ Cardinality(Fresh(k)) \in Nat
        /\ Cardinality(Fresh(k)) <= MaxIPs[k]
    BY <1>1, <1>5, FreshPart DEF AInv
  <2>3. DOMAIN ipSeen[k] \subseteq Sources /\ \A b \in Fresh(k) : ipSeen[k][b] \in 0..MaxTime
    BY <1>1, <2>2 DEF AInv, AdmissionTypeOK
  <2>4. clock \in 0..MaxTime
    BY DEF AInv, AdmissionTypeOK
  <2>5. noted \in [Fresh(k) \cup {a} -> 0..MaxTime] /\ Fresh(k) \cup {a} \in SUBSET Sources
    BY <1>1, <2>2, <2>3, <2>4
  <2>6. noted \in UNION {[S -> 0..MaxTime] : S \in SUBSET Sources}
    BY <2>5
  <2>7. AdmissionTypeOK'
    <3>1. ipSeen' \in [Keys -> UNION {[S -> 0..MaxTime] : S \in SUBSET Sources}]
      BY <2>1, <2>6 DEF AInv, AdmissionTypeOK
    <3>2. admitted' \subseteq Keys \X Sources \X (0..MaxTime)
      BY <1>1, <2>1, <2>4 DEF AInv, AdmissionTypeOK
    <3> QED
      BY <1>1, <1>2, <3>1, <3>2 DEF AInv, AdmissionTypeOK, Good, Compiles
  <2>8. PlacesBounded'
    <3>1. /\ IsFiniteSet(Fresh(k) \cup {a})
          /\ Cardinality(Fresh(k) \cup {a}) <= MaxIPs[k]
      <4>1. CASE a \in Fresh(k)
        <5>1. Fresh(k) \cup {a} = Fresh(k)
          BY <4>1
        <5> QED
          BY <5>1, <2>2
      <4>2. CASE a \notin Fresh(k)
        <5>1. Cardinality(Fresh(k)) < MaxIPs[k]
          BY <1>1, <1>5, <4>2 DEF HasPlace
        <5>2. /\ IsFiniteSet(Fresh(k) \cup {a})
              /\ Cardinality(Fresh(k) \cup {a}) = Cardinality(Fresh(k)) + 1
          BY <2>2, <4>2, FS_AddElement
        <5> QED
          BY <1>1, <2>2, <5>1, <5>2
      <4> QED
        BY <4>1, <4>2
    <3>2. ipSeen'[k] = noted /\ DOMAIN noted = Fresh(k) \cup {a}
      BY <1>1, <2>1 DEF AInv, AdmissionTypeOK
    <3>3. \A l \in Keys \ {k} : ipSeen'[l] = ipSeen[l]
      BY <2>1 DEF AInv, AdmissionTypeOK
    <3> QED
      BY <3>1, <3>2, <3>3 DEF AInv, PlacesBounded
  <2>9. PlacesKept'
    <3> SUFFICES ASSUME NEW e \in admitted'
                 PROVE  /\ e[3] <= clock /\ clock - e[3] <= Window
                        /\ e[2] \in DOMAIN ipSeen'[e[1]]
                        /\ e[3] <= ipSeen'[e[1]][e[2]]
      BY <1>1 DEF PlacesKept
    <3>1. ipSeen'[k] = noted /\ \A l \in Keys \ {k} : ipSeen'[l] = ipSeen[l]
      BY <1>1, <2>1 DEF AInv, AdmissionTypeOK
    <3>2. CASE e = <<k, a, clock>>
      <4>1. ipSeen'[e[1]] = noted /\ e[2] = a /\ e[3] = clock
        BY <3>1, <3>2
      <4>2. noted[a] = clock
        OBVIOUS
      <4>3. clock - clock <= Window /\ clock <= clock
        BY <2>4, TimeAssumption
      <4> QED
        BY <4>1, <4>2, <4>3
    <3>3. CASE e \in admitted
      <4>1. /\ e \in Keys \X Sources \X (0..MaxTime)
            /\ e[3] <= clock /\ clock - e[3] <= Window
            /\ e[2] \in DOMAIN ipSeen[e[1]]
            /\ e[3] <= ipSeen[e[1]][e[2]]
        BY <3>3 DEF AInv, AdmissionTypeOK, PlacesKept
      <4>2. CASE e[1] # k
        BY <3>1, <4>1, <4>2
      <4>3. CASE e[1] = k
        <5>1. e[2] \in Fresh(k)
          BY <1>1, <3>3, <4>3, RecentFresh DEF AInv, Recent
        <5>2. noted[e[2]] = IF e[2] = a THEN clock ELSE ipSeen[k][e[2]]
          BY <5>1
        <5>3. CASE e[2] = a
          BY <3>1, <4>1, <4>3, <5>1, <5>2, <5>3
        <5>4. CASE e[2] # a
          BY <3>1, <4>1, <4>3, <5>1, <5>2, <5>4
        <5> QED
          BY <5>3, <5>4
      <4> QED
        BY <4>2, <4>3
    <3> QED
      BY <2>1, <3>2, <3>3
  <2> QED
    BY <1>3, <2>7, <2>8, <2>9 DEF AInv
<1> QED
  BY <1>1, <1>4, <1>5

\* A refusal drops the old addresses, which are of nobody let in lately.
LEMMA RefusePlaceAInv ==
    ASSUME AInv, NEW r \in Requests, RefusePlace(r)
    PROVE  AInv'
<1> DEFINE k == req[r].key
           kept == [a \in Fresh(k) |-> ipSeen[k][a]]
<1>1. /\ k \in Keys /\ MaxIPs[k] > 0 /\ req[r].at = "listed" /\ Leave(r)
      /\ ipSeen' = [ipSeen EXCEPT ![k] = kept]
      /\ UNCHANGED <<clock, guardFile, stamped, statted, lists, mu, daemon, admitted, missed>>
  BY ReqType DEF AInv, RefusePlace, store
<1>2. /\ Fresh(k) \subseteq DOMAIN ipSeen[k]
      /\ IsFiniteSet(Fresh(k)) /\ Cardinality(Fresh(k)) <= MaxIPs[k]
  BY <1>1, FreshPart DEF AInv
<1>3. /\ ipSeen'[k] = kept /\ DOMAIN kept = Fresh(k)
      /\ \A l \in Keys \ {k} : ipSeen'[l] = ipSeen[l]
  BY <1>1 DEF AInv, AdmissionTypeOK
<1>4. AdmissionTypeOK'
  <2>1. DOMAIN ipSeen[k] \subseteq Sources /\ \A b \in Fresh(k) : ipSeen[k][b] \in 0..MaxTime
    BY <1>1, <1>2 DEF AInv, AdmissionTypeOK
  <2>2. kept \in [Fresh(k) -> 0..MaxTime] /\ Fresh(k) \in SUBSET Sources
    BY <1>2, <2>1
  <2>3. kept \in UNION {[S -> 0..MaxTime] : S \in SUBSET Sources}
    BY <2>2
  <2>4. ipSeen' \in [Keys -> UNION {[S -> 0..MaxTime] : S \in SUBSET Sources}]
    BY <1>1, <2>3 DEF AInv, AdmissionTypeOK
  <2> QED
    BY <1>1, <2>4, ReqType DEF AInv, AdmissionTypeOK, Good, Compiles
<1>5. PlacesBounded'
  BY <1>2, <1>3 DEF AInv, PlacesBounded
<1>6. PlacesKept'
  <2> SUFFICES ASSUME NEW e \in admitted
               PROVE  /\ e[3] <= clock /\ clock - e[3] <= Window
                      /\ e[2] \in DOMAIN ipSeen'[e[1]]
                      /\ e[3] <= ipSeen'[e[1]][e[2]]
    BY <1>1 DEF PlacesKept
  <2>1. /\ e[1] \in Keys /\ e[3] <= clock /\ clock - e[3] <= Window
        /\ e[2] \in DOMAIN ipSeen[e[1]] /\ e[3] <= ipSeen[e[1]][e[2]]
    BY DEF AInv, AdmissionTypeOK, PlacesKept
  <2>2. CASE e[1] # k
    BY <1>3, <2>1, <2>2
  <2>3. CASE e[1] = k
    <3>1. e[2] \in Fresh(k)
      BY <1>1, <2>3, RecentFresh DEF AInv, Recent
    <3>2. kept[e[2]] = ipSeen[k][e[2]]
      BY <3>1
    <3> QED
      BY <1>3, <2>1, <2>3, <3>1, <3>2
  <2> QED
    BY <2>2, <2>3
<1>7. InForce'
  BY <1>1, LeaveInForce DEF AInv, store
<1> QED
  BY <1>4, <1>5, <1>6, <1>7 DEF AInv

\* A request that ends leaves the places as they are.
LEMMA DoneAInv ==
    ASSUME AInv, NEW r \in Requests, Done(r)
    PROVE  AInv'
<1>1. /\ req[r].at = "placed" /\ Leave(r)
      /\ UNCHANGED <<clock, guardFile, stamped, statted, lists, mu, daemon, ipSeen, admitted, missed>>
  BY DEF Done, places, store
<1>2. AdmissionTypeOK'
  BY <1>1, ReqType DEF AInv, AdmissionTypeOK, Good, Compiles
<1>3. PlacesBounded' /\ PlacesKept'
  BY <1>1, SamePlaces DEF AInv
<1>4. InForce'
  BY <1>1, LeaveInForce DEF AInv, store
<1> QED
  BY <1>2, <1>3, <1>4 DEF AInv

\* The daemon forgets the addresses and whom it has let in with them.
LEMMA StopAInv == AInv /\ Stop => AInv'
<1> SUFFICES ASSUME AInv, Stop PROVE AInv'
  OBVIOUS
<1>1. AdmissionTypeOK'
  <2>1. NotSeen \in [{} -> 0..MaxTime] /\ {} \in SUBSET Sources
    BY DEF NotSeen
  <2>2. NotSeen \in UNION {[S -> 0..MaxTime] : S \in SUBSET Sources}
    BY <2>1
  <2> QED
    BY <2>2 DEF AInv, AdmissionTypeOK, Stop, Good, Compiles
<1>2. PlacesBounded'
  <2> SUFFICES ASSUME NEW k \in Keys, MaxIPs[k] > 0
               PROVE  IsFiniteSet(DOMAIN ipSeen'[k]) /\ Cardinality(DOMAIN ipSeen'[k]) <= MaxIPs[k]
    BY DEF PlacesBounded
  <2>1. DOMAIN ipSeen'[k] = {}
    BY DEF Stop, NotSeen
  <2> QED
    BY <2>1, FS_EmptySet, MaxIPsAssumption
<1>3. PlacesKept' /\ \A r \in Requests : req'[r].at = "idle"
  BY DEF PlacesKept, Stop, NoRequest
<1>4. InForce'
  BY <1>3 DEF InForce, Locked, ListsInForce, ListsRead, JudgedByFile, Judged, Stop
<1> QED
  BY <1>1, <1>2, <1>3, <1>4 DEF AInv

\* newGuard reads guard.json and compiles it.
LEMMA BootLoadAInv == AInv /\ BootLoad => AInv'
<1> SUFFICES ASSUME AInv, BootLoad PROVE AInv'
  OBVIOUS
<1>1. AdmissionTypeOK'
  BY DEF AInv, AdmissionTypeOK, BootLoad, places, Good, Compiles
<1>2. PlacesBounded' /\ PlacesKept'
  BY SamePlaces DEF AInv, BootLoad, places
<1>3. Locked' /\ ListsInForce'
  BY DEF AInv, InForce, Locked, ListsInForce, BootLoad
<1>4. ListsRead' /\ JudgedByFile'
  BY DEF AInv, InForce, Locked, ListsRead, JudgedByFile, Judged, BootLoad
<1> QED
  BY <1>1, <1>2, <1>3, <1>4 DEF AInv, InForce

\* It stamps what it has read, or what was saved since, which is missed.
LEMMA BootStampAInv == AInv /\ BootStamp => AInv'
<1> SUFFICES ASSUME AInv, BootStamp PROVE AInv'
  OBVIOUS
<1>1. AdmissionTypeOK'
  BY DEF AInv, AdmissionTypeOK, BootStamp, places, Good, Compiles
<1>2. PlacesBounded' /\ PlacesKept'
  BY SamePlaces DEF AInv, BootStamp, places
<1>3. Locked' /\ ListsInForce'
  BY DEF AInv, InForce, Locked, ListsInForce, BootStamp, Good, Compiles
<1>4. ListsRead' /\ JudgedByFile'
  BY DEF AInv, InForce, Locked, ListsRead, JudgedByFile, Judged, BootStamp
<1> QED
  BY <1>1, <1>2, <1>3, <1>4 DEF AInv, InForce

\* Every step preserves the invariant.
LEMMA NextAInv == AInv /\ [AdmissionNext]_admissionVars => AInv'
<1> SUFFICES ASSUME AInv, [AdmissionNext]_admissionVars PROVE AInv'
  OBVIOUS
<1>1. CASE Second \/ Stop \/ BootLoad \/ BootStamp
  BY <1>1, SecondAInv, StopAInv, BootLoadAInv, BootStampAInv
<1>2. ASSUME NEW p \in Policies, WritePolicy(p) PROVE AInv'
  BY <1>2, WritePolicyAInv
<1>3. ASSUME NEW r \in Requests, NEW k \in Keys, NEW a \in Sources, Arrive(r, k, a)
      PROVE  AInv'
  BY <1>3, ArriveAInv
<1>4. ASSUME NEW r \in Requests, LoadPolicy(r) \/ LoadPolicyFails(r) \/ Stamp(r) PROVE AInv'
  BY <1>4, LoadPolicyAInv, LoadPolicyFailsAInv, StampAInv
<1>5. ASSUME NEW r \in Requests, TurnedAway(r) \/ RefuseByList(r) \/ PassLists(r) PROVE AInv'
  BY <1>5, TurnedAwayAInv, PassListsAInv
<1>6. ASSUME NEW r \in Requests, TakePlace(r) \/ RefusePlace(r) \/ Done(r) PROVE AInv'
  BY <1>6, TakePlaceAInv, RefusePlaceAInv, DoneAInv
<1>7. CASE UNCHANGED admissionVars
  <2>1. AdmissionTypeOK'
    BY <1>7 DEF admissionVars, store, places, AInv, AdmissionTypeOK, Good, Compiles
  <2>2. PlacesBounded' /\ PlacesKept'
    BY <1>7, SamePlaces DEF AInv, admissionVars, places
  <2>3. InForce'
    BY <1>7, SameLists DEF AInv, admissionVars
  <2> QED
    BY <2>1, <2>2, <2>3 DEF AInv
<1> QED
  BY <1>1, <1>2, <1>3, <1>4, <1>5, <1>6, <1>7 DEF AdmissionNext

\* It holds in every reachable state.
LEMMA AlwaysAInv == AdmissionSpec => []AInv
BY InitAInv, NextAInv, PTL DEF AdmissionSpec

-----------------------------------------------------------------------------
\* Every variable of Admission keeps its type; the lists in force compile.
THEOREM TypeCorrect == AdmissionSpec => []AdmissionTypeOK
<1>1. AInv => AdmissionTypeOK
  BY DEF AInv
<1> QED
  BY <1>1, AlwaysAInv, PTL

\* checkIPLimit: within any window no key is used from more addresses than
\* max_ips, whatever the window, the limit and the number of requests.
THEOREM PlacesLimited == AdmissionSpec => []AddressesBounded
<1>1. AInv => AddressesBounded
  <2> SUFFICES ASSUME AInv, NEW k \in Keys, MaxIPs[k] > 0
               PROVE  Cardinality(Recent(k)) <= MaxIPs[k]
    BY DEF AddressesBounded
  <2>1. /\ Recent(k) \subseteq Fresh(k) /\ IsFiniteSet(Fresh(k))
        /\ Cardinality(Fresh(k)) \in Nat /\ Cardinality(Fresh(k)) <= MaxIPs[k]
    BY RecentFresh, FreshPart DEF AInv
  <2>2. IsFiniteSet(Recent(k)) /\ Cardinality(Recent(k)) <= Cardinality(Fresh(k))
    BY <2>1, FS_Subset
  <2>3. Cardinality(Recent(k)) \in Nat
    BY <2>2, FS_CardinalityType
  <2> QED
    BY <2>1, <2>2, <2>3, MaxIPsAssumption
<1> QED
  BY <1>1, AlwaysAInv, PTL

\* An address let in within the window is never refused for want of a place:
\* its place is dropped no earlier than the window ends.
THEOREM NoAddressDisplaced == AdmissionSpec => KnownAddressStays
<1>1. ASSUME AInv, [AdmissionNext]_admissionVars,
             NEW r \in Requests, req[r].at = "listed", daemon' = "up", req'[r].at = "idle"
      PROVE  req[r].from \notin Recent(req[r].key)
  <2>1. /\ r \in DOMAIN req /\ req[r].key \in Keys
        /\ \A s \in Requests \ {r} : \A x : [req EXCEPT ![s] = x][r] = req[r]
    BY <1>1, ReqType DEF AInv, AdmissionTypeOK
  <2>2. RefusePlace(r)
    <3>1. req'[r] # req[r]
      BY <1>1
    <3>2. ~(Second \/ Stop \/ BootLoad \/ BootStamp \/ UNCHANGED admissionVars)
      BY <1>1, <3>1 DEF Second, Stop, BootLoad, BootStamp, admissionVars
    <3>3. ASSUME NEW p \in Policies, WritePolicy(p) PROVE FALSE
      BY <3>1, <3>3 DEF WritePolicy
    <3>4. ASSUME NEW s \in Requests, s # r
          PROVE  /\ ~Leave(s)
                 /\ \A stage \in Stages : req[s].at # "idle" => ~Reach(s, stage)
                 /\ \A k \in Keys, a \in Sources : ~Arrive(s, k, a)
      <4>1. ~Leave(s)
        BY <2>1, <3>1, <3>4 DEF Leave
      <4>2. ASSUME NEW stage \in Stages, req[s].at # "idle", Reach(s, stage) PROVE FALSE
        <5>1. \A t \in Requests \ {s} : req'[t] = req[t]
          BY <1>1, <4>2, ReqType DEF AInv
        <5> QED
          BY <3>1, <3>4, <5>1
      <4>3. ASSUME NEW k \in Keys, NEW a \in Sources, Arrive(s, k, a) PROVE FALSE
        BY <2>1, <3>1, <3>4, <4>3 DEF Arrive
      <4> QED
        BY <4>1, <4>2, <4>3
    <3>5. PICK s \in Requests :
             \/ \E k \in Keys, a \in Sources : Arrive(s, k, a)
             \/ LoadPolicy(s) \/ LoadPolicyFails(s) \/ Stamp(s) \/ TurnedAway(s)
             \/ RefuseByList(s) \/ PassLists(s) \/ TakePlace(s) \/ RefusePlace(s) \/ Done(s)
      BY <1>1, <3>2, <3>3 DEF AdmissionNext
    <3>6. s = r
      BY <3>4, <3>5 DEF Stages, LoadPolicy, LoadPolicyFails, Stamp, TurnedAway, RefuseByList,
                        PassLists, TakePlace, RefusePlace, Done
    <3>7. ~TakePlace(r)
      BY <1>1, ReqType DEF AInv, TakePlace, Stages
    <3> QED
      BY <1>1, <3>5, <3>6, <3>7 DEF Arrive, LoadPolicy, LoadPolicyFails, Stamp, TurnedAway,
                                    RefuseByList, PassLists, Done
  <2>3. req[r].from \notin Fresh(req[r].key)
    BY <2>2 DEF RefusePlace, HasPlace
  <2> QED
    BY <1>1, <2>1, <2>3, RecentFresh DEF AInv
<1>2. AInv /\ [AdmissionNext]_admissionVars =>
        [\A r \in Requests :
            req[r].at = "listed" /\ daemon' = "up" /\ req'[r].at = "idle" =>
                req[r].from \notin Recent(req[r].key)]_admissionVars
  BY <1>1
<1> QED
  BY <1>2, AlwaysAInv, PTL DEF AdmissionSpec, KnownAddressStays

\* reloadIfChanged and newGuard, for any order of saves, reads that fail,
\* reloads and restarts, on a clock of any grain: no request is past lists
\* that guard.json would have refused it by, but for the requests that
\* JudgedByFile names, overtaken by a save or misled about one.
THEOREM ListsObeyed == AdmissionSpec => []JudgedByFile
<1>1. AInv => JudgedByFile
  BY DEF AInv, InForce
<1> QED
  BY <1>1, AlwaysAInv, PTL

-----------------------------------------------------------------------------
(* Tail.                                                                   *)

\* The types the proof needs; what the ring's places hold is said below.
RingType ==
    /\ pos \in 0..(Size - 1)
    /\ full \in BOOLEAN
    /\ DOMAIN buf = 0..(Size - 1)
    /\ stream \in Seq(Bytes)

\* Before the ring is full its first pos places hold the answer so far.
Filling ==
    ~full => /\ pos = Len(stream)
             /\ \A i \in 1..pos : buf[i - 1] = stream[i]

\* Once it is, the places below pos hold the last bytes, and those from pos on
\* the bytes before them.
Turning ==
    full => /\ Len(stream) >= Size
            /\ \A i \in 1..pos : buf[i - 1] = stream[Len(stream) - pos + i]
            /\ \A i \in (pos + 1)..Size : buf[i - 1] = stream[Len(stream) - pos - Size + i]

TInv == RingType /\ Filling /\ Turning

-----------------------------------------------------------------------------
\* A position within the ring, and one that is less than a round past its end.
LEMMA WithinRing == ASSUME NEW a \in 0..(Size - 1) PROVE a % Size = a
BY SizeAssumption

\* The remainder of a position on the second round.
LEMMA OnceRound == ASSUME NEW a \in Size..(2 * Size - 1) PROVE a % Size = a - Size
BY SizeAssumption

\* The invariant holds for an empty ring.
LEMMA InitTInv == TailInit => TInv
<1> SUFFICES ASSUME TailInit PROVE TInv
  OBVIOUS
<1>1. RingType
  <2>1. <<>> \in Seq(Bytes) /\ 0 \in 0..(Size - 1)
    BY SizeAssumption
  <2> QED
    BY <2>1 DEF TailInit, RingType
<1>2. Filling
  <2>1. pos = 0 /\ Len(stream) = 0 /\ 1..pos = {}
    BY DEF TailInit
  <2> QED
    BY <2>1 DEF Filling
<1>3. Turning
  BY DEF TailInit, Turning
<1> QED
  BY <1>1, <1>2, <1>3 DEF TInv

\* One more byte: the place it is written to, and where pos goes.
LEMMA PutPlace ==
    ASSUME TInv, NEW b \in Bytes, Put(b)
    PROVE  /\ DOMAIN buf' = 0..(Size - 1) /\ buf'[pos] = b
           /\ \A i \in 0..(Size - 1) : i # pos => buf'[i] = buf[i]
           /\ pos + 1 < Size => pos' = pos + 1 /\ full' = full
           /\ pos + 1 = Size => pos' = 0 /\ full' = TRUE
<1>1. pos \in 0..(Size - 1) /\ DOMAIN buf = 0..(Size - 1) /\ full \in BOOLEAN
  BY DEF TInv, RingType
<1>2. buf' = [buf EXCEPT ![pos] = b]
  BY DEF Put
<1>3. /\ DOMAIN buf' = 0..(Size - 1) /\ buf'[pos] = b
      /\ \A i \in 0..(Size - 1) : i # pos => buf'[i] = buf[i]
  BY <1>1, <1>2
<1>4. pos + 1 < Size => pos' = pos + 1
  <2>1. pos + 1 < Size => (pos + 1) % Size = pos + 1
    BY <1>1, SizeAssumption, WithinRing
  <2> QED
    BY <2>1 DEF Put
<1>5. pos + 1 = Size => pos' = 0
  <2>1. pos + 1 = Size => (pos + 1) % Size = 0
    BY <1>1, SizeAssumption, OnceRound
  <2> QED
    BY <2>1 DEF Put
<1>6. /\ pos + 1 < Size => full' = full
      /\ pos + 1 = Size => full' = TRUE
  <2>1. full' = (full \/ pos + 1 >= Size)
    BY DEF Put
  <2>2. ASSUME pos + 1 < Size PROVE full' = full
    <3>1. ~(pos + 1 >= Size)
      BY <1>1, <2>2, SizeAssumption
    <3> QED
      BY <1>1, <2>1, <3>1, Zenon
  <2>3. ASSUME pos + 1 = Size PROVE full' = TRUE
    <3>1. pos + 1 >= Size
      BY <1>1, <2>3, SizeAssumption
    <3> QED
      BY <2>1, <3>1, Zenon
  <2> QED
    BY <2>2, <2>3
<1> QED
  BY <1>3, <1>4, <1>5, <1>6

\* Reading one more byte of the answer preserves it.
LEMMA ReadTInv == ASSUME TInv, NEW b \in Bytes, Read(b) PROVE TInv'
<1>1. /\ pos \in 0..(Size - 1) /\ stream \in Seq(Bytes) /\ full \in BOOLEAN
      /\ Len(stream) \in Nat /\ Size \in Nat \ {0}
  BY SizeAssumption DEF TInv, RingType
<1>2. /\ stream' \in Seq(Bytes) /\ Len(stream') = Len(stream) + 1
      /\ stream'[Len(stream) + 1] = b
      /\ \A i \in 1..Len(stream) : stream'[i] = stream[i]
  BY <1>1 DEF Read
<1>3. /\ DOMAIN buf' = 0..(Size - 1) /\ buf'[pos] = b
      /\ \A i \in 0..(Size - 1) : i # pos => buf'[i] = buf[i]
      /\ pos + 1 < Size => pos' = pos + 1 /\ full' = full
      /\ pos + 1 = Size => pos' = 0 /\ full' = TRUE
  BY PutPlace DEF Read
<1>4. pos + 1 < Size \/ pos + 1 = Size
  BY <1>1
<1>5. RingType'
  <2>1. pos' \in 0..(Size - 1) /\ full' \in BOOLEAN
    <3>1. CASE pos + 1 < Size
      <4>1. pos' = pos + 1 /\ full' = full
        BY <1>3, <3>1
      <4> QED
        BY <1>1, <3>1, <4>1
    <3>2. CASE pos + 1 = Size
      <4>1. pos' = 0 /\ full' = TRUE
        BY <1>3, <3>2
      <4> QED
        BY <1>1, <4>1
    <3> QED
      BY <1>4, <3>1, <3>2
  <2> QED
    BY <1>2, <1>3, <2>1 DEF RingType
<1>6. CASE ~full
  <2>1. pos = Len(stream) /\ \A i \in 1..pos : buf[i - 1] = stream[i]
    BY <1>6 DEF TInv, Filling
  <2>2. \A i \in 1..(pos + 1) : buf'[i - 1] = stream'[i]
    BY <1>1, <1>2, <1>3, <2>1
  <2>3. CASE pos + 1 < Size
    BY <1>1, <1>2, <1>3, <1>5, <1>6, <2>1, <2>2, <2>3 DEF TInv, Filling, Turning
  <2>4. CASE pos + 1 = Size
    <3>1. /\ full' = TRUE /\ pos' = 0 /\ Len(stream') = Size
          /\ \A i \in 1..Size : buf'[i - 1] = stream'[i]
      BY <1>2, <1>3, <2>1, <2>2, <2>4
    <3>2. \A i \in 1..Size : Len(stream') - pos' - Size + i = i
      BY <1>1, <3>1
    <3>3. Turning'
      BY <1>1, <3>1, <3>2 DEF Turning
    <3> QED
      BY <1>5, <3>1, <3>3 DEF TInv, Filling
  <2> QED
    BY <1>4, <2>3, <2>4
<1>7. CASE full
  <2>1. /\ Len(stream) >= Size /\ full' = TRUE
        /\ \A i \in 1..pos : buf[i - 1] = stream[Len(stream) - pos + i]
        /\ \A i \in (pos + 1)..Size : buf[i - 1] = stream[Len(stream) - pos - Size + i]
    BY <1>3, <1>4, <1>7 DEF TInv, Turning
  <2>2. \A i \in 1..pos : buf'[i - 1] = stream'[Len(stream) - pos + i]
    <3> SUFFICES ASSUME NEW i \in 1..pos
                 PROVE  buf'[i - 1] = stream'[Len(stream) - pos + i]
      OBVIOUS
    <3>1. i - 1 \in 0..(Size - 1) /\ i - 1 # pos /\ Len(stream) - pos + i \in 1..Len(stream)
      BY <1>1, <2>1
    <3> QED
      BY <1>2, <1>3, <2>1, <3>1
  <2>3. \A i \in (pos + 2)..Size : buf'[i - 1] = stream'[Len(stream) - pos - Size + i]
    <3> SUFFICES ASSUME NEW i \in (pos + 2)..Size
                 PROVE  buf'[i - 1] = stream'[Len(stream) - pos - Size + i]
      OBVIOUS
    <3>1. /\ i - 1 \in 0..(Size - 1) /\ i - 1 # pos /\ i \in (pos + 1)..Size
          /\ Len(stream) - pos - Size + i \in 1..Len(stream)
      BY <1>1, <2>1
    <3> QED
      BY <1>2, <1>3, <2>1, <3>1
  <2>4. CASE pos + 1 < Size
    <3> pos' = pos + 1 /\ Len(stream') - pos' = Len(stream) - pos
      BY <1>1, <1>2, <1>3, <2>4
    <3>1. \A i \in 1..pos' : buf'[i - 1] = stream'[Len(stream') - pos' + i]
      <4> SUFFICES ASSUME NEW i \in 1..(pos + 1)
                   PROVE  buf'[i - 1] = stream'[Len(stream) - pos + i]
        OBVIOUS
      <4>1. CASE i \in 1..pos
        BY <2>2, <4>1
      <4>2. CASE i = pos + 1
        <5>1. i - 1 = pos /\ Len(stream) - pos + i = Len(stream) + 1
          BY <1>1, <4>2
        <5> QED
          BY <1>2, <1>3, <5>1
      <4> QED
        BY <1>1, <4>1, <4>2
    <3>2. \A i \in (pos' + 1)..Size : buf'[i - 1] = stream'[Len(stream') - pos' - Size + i]
      <4> SUFFICES ASSUME NEW i \in (pos + 2)..Size
                   PROVE  buf'[i - 1] = stream'[Len(stream) - pos - Size + i]
        BY <1>1
      <4> QED
        BY <2>3
    <3>3. Turning'
      BY <1>1, <1>2, <2>1, <3>1, <3>2 DEF Turning
    <3> QED
      BY <1>5, <2>1, <3>3 DEF TInv, Filling
  <2>5. CASE pos + 1 = Size
    <3>1. \A i \in 1..Size : buf'[i - 1] = stream'[Len(stream') - Size + i]
      <4> SUFFICES ASSUME NEW i \in 1..Size
                   PROVE  buf'[i - 1] = stream'[Len(stream) + 1 - Size + i]
        BY <1>1, <1>2
      <4>1. CASE i \in 1..pos
        <5>1. Len(stream) - pos + i = Len(stream) + 1 - Size + i
          BY <1>1, <2>5
        <5> QED
          BY <2>2, <4>1, <5>1
      <4>2. CASE i = Size
        <5>1. i - 1 = pos /\ Len(stream) + 1 - Size + i = Len(stream) + 1
          BY <1>1, <2>5, <4>2
        <5> QED
          BY <1>2, <1>3, <5>1
      <4> QED
        BY <1>1, <2>5, <4>1, <4>2
    <3>2. /\ pos' = 0 /\ Len(stream') >= Size
          /\ \A i \in 1..Size : Len(stream') - 0 - Size + i = Len(stream') - Size + i
      BY <1>1, <1>2, <1>3, <2>1, <2>5
    <3>3. Turning'
      BY <1>1, <3>1, <3>2 DEF Turning
    <3> QED
      BY <1>5, <2>1, <3>3 DEF TInv, Filling
  <2> QED
    BY <1>4, <2>4, <2>5
<1> QED
  BY <1>1, <1>6, <1>7

\* Every step preserves the invariant.
LEMMA NextTInv == TInv /\ [TailNext]_tailVars => TInv'
<1> SUFFICES ASSUME TInv, [TailNext]_tailVars PROVE TInv'
  OBVIOUS
<1>1. CASE Finish \/ UNCHANGED tailVars
  <2>1. UNCHANGED <<buf, pos, full, stream>>
    BY <1>1 DEF Finish, tailVars
  <2>2. RingType'
    BY <2>1 DEF TInv, RingType
  <2>3. Filling' /\ Turning'
    BY <2>1 DEF TInv, Filling, Turning
  <2> QED
    BY <2>2, <2>3 DEF TInv
<1>2. ASSUME NEW b \in Bytes, Read(b) PROVE TInv'
  BY <1>2, ReadTInv
<1> QED
  BY <1>1, <1>2 DEF TailNext

-----------------------------------------------------------------------------
\* With the invariant the ring gives back the end of the answer.
LEMMA RingIsTail == ASSUME TInv PROVE RingBytes = LastBytes(stream)
<1>1. /\ pos \in 0..(Size - 1) /\ full \in BOOLEAN
      /\ Len(stream) \in Nat /\ Size \in Nat \ {0}
  BY SizeAssumption DEF TInv, RingType
<1>2. CASE ~full
  <2>1. /\ pos = Len(stream) /\ Len(stream) <= Size
        /\ \A i \in 1..pos : buf[i - 1] = stream[i]
    BY <1>1, <1>2 DEF TInv, Filling
  <2>2. RingBytes = [i \in 1..Len(stream) |-> stream[i]]
    BY <1>2, <2>1 DEF RingBytes
  <2>3. LastBytes(stream) = [i \in 1..Len(stream) |-> stream[Len(stream) - Len(stream) + i]]
    BY <2>1 DEF LastBytes
  <2>4. \A i \in 1..Len(stream) : Len(stream) - Len(stream) + i = i
    BY <1>1
  <2> QED
    BY <2>2, <2>3, <2>4
<1>3. CASE full
  <2>1. /\ Len(stream) >= Size
        /\ \A i \in 1..pos : buf[i - 1] = stream[Len(stream) - pos + i]
        /\ \A i \in (pos + 1)..Size : buf[i - 1] = stream[Len(stream) - pos - Size + i]
    BY <1>3 DEF TInv, Turning
  <2>2. LastBytes(stream) = [i \in 1..Size |-> stream[Len(stream) - Size + i]]
    <3>1. Len(stream) <= Size => Len(stream) = Size
      BY <1>1, <2>1
    <3> QED
      BY <3>1 DEF LastBytes
  <2>3. ASSUME NEW i \in 1..Size
        PROVE  buf[(pos + i - 1) % Size] = stream[Len(stream) - Size + i]
    <3>1. CASE pos + i <= Size
      <4>1. PICK j \in (pos + 1)..Size : j = pos + i
        BY <1>1, <3>1
      <4>2. /\ (pos + i - 1) % Size = j - 1
            /\ Len(stream) - pos - Size + j = Len(stream) - Size + i
        BY <1>1, <3>1, <4>1, WithinRing
      <4>3. buf[j - 1] = stream[Len(stream) - pos - Size + j]
        BY <2>1, <4>1
      <4> QED
        BY <4>2, <4>3
    <3>2. CASE pos + i > Size
      <4>1. PICK j \in 1..pos : j = pos + i - Size
        BY <1>1, <3>2
      <4>2. /\ (pos + i - 1) % Size = j - 1
            /\ Len(stream) - pos + j = Len(stream) - Size + i
        BY <1>1, <3>2, <4>1, OnceRound
      <4>3. buf[j - 1] = stream[Len(stream) - pos + j]
        BY <2>1, <4>1
      <4> QED
        BY <4>2, <4>3
    <3> QED
      BY <1>1, <3>1, <3>2
  <2> QED
    BY <1>3, <2>2, <2>3 DEF RingBytes
<1> QED
  BY <1>1, <1>2, <1>3

\* ring.Write and ring.bytes: what the ring gives back is the end of the
\* answer, for a ring of any size and an answer of any length.
THEOREM RingKeepsTail == TailSpec => []RingHoldsTail
<1>1. TInv => RingHoldsTail
  BY RingIsTail DEF RingHoldsTail
<1> QED
  BY <1>1, InitTInv, NextTInv, PTL DEF TailSpec

-----------------------------------------------------------------------------
\* A set of numbers has a least member.
LEMMA HasLeast == ASSUME NEW S \in SUBSET Nat, S # {} PROVE \E i \in S : \A j \in S : i <= j
<1> DEFINE R == OpToRel(<, Nat)
<1>1. \E i \in S : \A j \in S : <<j, i>> \notin R
  <2>1. IsWellFoundedOn(R, Nat)
    BY NatLessThanWellFounded
  <2> HIDE DEF R
  <2> QED
    BY <2>1, WFMin
<1>2. \A i, j \in Nat : <<j, i>> \notin R => i <= j
  BY DEF OpToRel
<1> HIDE DEF R
<1> QED
  BY <1>1, <1>2

\* A bounded one has a greatest.
LEMMA HasGreatest ==
    ASSUME NEW n \in Nat, NEW S \in SUBSET (1..n), S # {}
    PROVE  \E i \in S : \A j \in S : j <= i
<1> DEFINE T == {n - i : i \in S}
<1>1. T \in SUBSET Nat /\ T # {}
  <2>1. \A i \in S : n - i \in Nat /\ n - i \in T
    OBVIOUS
  <2> QED
    BY <2>1
<1>2. PICK k \in T : \A j \in T : k <= j
  BY <1>1, HasLeast
<1>3. PICK i \in S : k = n - i
  BY <1>2
<1>4. \A j \in S : n - i <= n - j
  BY <1>2, <1>3
<1> QED
  BY <1>4

\* Which they are.
LEMMA LeastIs ==
    ASSUME NEW S \in SUBSET Int, NEW i \in S, \A j \in S : i <= j PROVE Least(S) = i
<1>1. \A k \in S : (\A j \in S : k <= j) => k = i
  OBVIOUS
<1> QED
  BY <1>1 DEF Least
LEMMA GreatestIs ==
    ASSUME NEW S \in SUBSET Int, NEW i \in S, \A j \in S : j <= i PROVE Greatest(S) = i
<1>1. \A k \in S : (\A j \in S : j <= k) => k = i
  OBVIOUS
<1> QED
  BY <1>1 DEF Greatest

\* The end of an answer that is longer than the ring.
Tailed(s, t, d) ==
    /\ s \in Seq(Bytes) /\ t \in Seq(Bytes) /\ d \in Nat /\ Len(s) = Size + d
    /\ t = LastBytes(s) /\ Len(t) = Size
    /\ \A i \in 1..Size : t[i] = s[d + i]

\* Where the end has a marker, the whole has it.
LEMMA MarkersMove ==
    ASSUME NEW s, NEW t, NEW d, Tailed(s, t, d)
    PROVE  /\ \A i \in Markers(t) : i \in 1..Size /\ d + i \in Markers(s)
           /\ \A k \in Markers(s) : k \in 1..Len(s) /\ (k > d => k - d \in Markers(t))
<1> DEFINE m == Len(Marker)
<1>0. /\ Size \in Nat /\ d \in Nat /\ Len(s) = Size + d /\ Len(t) = Size
      /\ m \in Nat /\ m > 0 /\ DOMAIN Marker = 1..m
  <2>1. Marker \in Seq(Bytes) /\ Marker # << >>
    BY MarkerAssumption
  <2> QED
    BY <2>1, SizeAssumption DEF Tailed
<1> HIDE DEF m
<1>1. ASSUME NEW i \in Markers(t) PROVE i \in 1..Size /\ d + i \in Markers(s)
  <2>1. i \in 1..(Size - m + 1) /\ \A j \in 1..m : t[i + j - 1] = Marker[j]
    BY <1>0, <1>1 DEF Markers, m
  <2>2. ASSUME NEW j \in 1..m PROVE s[(d + i) + j - 1] = Marker[j]
    <3>1. i + j - 1 \in 1..Size /\ d + (i + j - 1) = (d + i) + j - 1
      BY <1>0, <2>1
    <3> QED
      BY <2>1, <3>1 DEF Tailed
  <2>3. d + i \in 1..(Len(s) - m + 1) /\ i \in 1..Size
    BY <1>0, <2>1
  <2> QED
    BY <1>0, <2>2, <2>3 DEF Markers, m
<1>2. ASSUME NEW k \in Markers(s) PROVE k \in 1..Len(s) /\ (k > d => k - d \in Markers(t))
  <2>1. k \in 1..(Len(s) - m + 1) /\ \A j \in 1..m : s[k + j - 1] = Marker[j]
    BY <1>0, <1>2 DEF Markers, m
  <2>2. ASSUME k > d, NEW j \in 1..m PROVE t[(k - d) + j - 1] = Marker[j]
    <3>1. (k - d) + j - 1 \in 1..Size /\ d + ((k - d) + j - 1) = k + j - 1
      BY <1>0, <2>1, <2>2
    <3> QED
      BY <2>1, <3>1 DEF Tailed
  <2>3. k \in 1..Len(s) /\ (k > d => k - d \in 1..(Len(t) - m + 1))
    BY <1>0, <2>1
  <2> QED
    BY <1>0, <2>2, <2>3 DEF Markers, m
<1> QED
  BY <1>1, <1>2

\* The end has as many braces between two places as the whole has.
LEMMA CountsMove ==
    ASSUME NEW s, NEW t, NEW d, Tailed(s, t, d), NEW b,
           NEW i \in 1..Size, NEW j \in 1..Size
    PROVE  Count(t, i, j, b) = Count(s, d + i, d + j, b)
<1> DEFINE S == {k \in i..j : t[k] = b}
           T == {k \in (d + i)..(d + j) : s[k] = b}
           f == [k \in S |-> d + k]
<1>0. Size \in Nat /\ d \in Nat /\ \A k \in 1..Size : t[k] = s[d + k]
  BY SizeAssumption DEF Tailed
<1>1. IsFiniteSet(S)
  <2>1. IsFiniteSet(i..j) /\ S \subseteq i..j
    BY FS_Interval
  <2> QED
    BY <2>1, FS_Subset
<1>2. \A k \in S : d + k \in T
  BY <1>0
<1>3. \A k \in T : k - d \in S /\ d + (k - d) = k
  BY <1>0
<1>4. \A k \in S : k \in Int
  OBVIOUS
<1> HIDE DEF S, T
<1>5. f \in Bijection(S, T)
  <2>1. f \in [S -> T] /\ \A k, l \in S : f[k] = f[l] => k = l
    BY <1>0, <1>2, <1>4
  <2>2. \A k \in T : \E l \in S : f[l] = k
    BY <1>3
  <2> HIDE DEF f
  <2> QED
    BY <2>1, <2>2 DEF Bijection, Injection, Surjection, IsInjective
<1>6. Cardinality(T) = Cardinality(S)
  <2> HIDE DEF f
  <2>1. ExistsBijection(S, T)
    BY <1>5 DEF ExistsBijection
  <2> QED
    BY <1>1, <2>1, FS_Bijection
<1> QED
  BY <1>6 DEF Count, S, T

\* So an object that begins within the end is decoded alike.
LEMMA DecodeMoves ==
    ASSUME NEW s, NEW t, NEW d, Tailed(s, t, d), NEW i \in 1..Size
    PROVE  Decode(t, i) = Decode(s, d + i)
<1> DEFINE S == {j \in i..Len(t) : Count(t, i, j, Open) = Count(t, i, j, Close)}
           T == {j \in (d + i)..Len(s) :
                    Count(s, d + i, j, Open) = Count(s, d + i, j, Close)}
<1>0. /\ Size \in Nat /\ d \in Nat /\ Len(s) = Size + d /\ Len(t) = Size
      /\ \A k \in 1..Size : t[k] = s[d + k]
  BY SizeAssumption DEF Tailed
<1>b. ASSUME NEW j \in 1..Size
      PROVE  Count(t, i, j, Open) = Count(t, i, j, Close)
                <=> Count(s, d + i, d + j, Open) = Count(s, d + i, d + j, Close)
  <2>1. Count(t, i, j, Open) = Count(s, d + i, d + j, Open)
    BY CountsMove
  <2>2. Count(t, i, j, Close) = Count(s, d + i, d + j, Close)
    BY CountsMove
  <2> QED
    BY <2>1, <2>2
<1>1. \A j \in S : j \in i..Size /\ d + j \in T
  <2> SUFFICES ASSUME NEW j \in S PROVE j \in i..Size /\ d + j \in T
    OBVIOUS
  <2>1. j \in 1..Size /\ j \in i..Size /\ d + j \in (d + i)..Len(s)
    BY <1>0
  <2>2. Count(s, d + i, d + j, Open) = Count(s, d + i, d + j, Close)
    BY <1>b, <2>1
  <2> QED
    BY <2>1, <2>2
<1>2. \A k \in T : k \in Int /\ k - d \in S /\ d + (k - d) = k
  <2> SUFFICES ASSUME NEW k \in T PROVE k - d \in S
    BY <1>0
  <2>1. k - d \in 1..Size /\ k - d \in i..Len(t) /\ d + (k - d) = k
    BY <1>0
  <2>2. Count(t, i, k - d, Open) = Count(t, i, k - d, Close)
    BY <1>b, <2>1
  <2> QED
    BY <2>1, <2>2
<1>3. Decode(t, i) = IF S = {} THEN NoUsage ELSE SubSeq(t, i, Least(S))
  BY DEF Decode
<1>4. Decode(s, d + i) = IF T = {} THEN NoUsage ELSE SubSeq(s, d + i, Least(T))
  BY DEF Decode
<1> HIDE DEF S, T
<1>5. CASE S = {}
  BY <1>2, <1>3, <1>4, <1>5
<1>6. CASE S # {}
  <2>1. S \in SUBSET Nat /\ T \in SUBSET Int
    BY <1>1, <1>2
  <2>2. PICK e \in S : \A j \in S : e <= j
    BY <1>6, <2>1, HasLeast
  <2>3. e \in i..Size /\ d + e \in T /\ \A k \in T : d + e <= k
    BY <1>0, <1>1, <1>2, <2>2
  <2>4. Least(S) = e /\ Least(T) = d + e
    <3>1. Least(S) = e
      BY <2>1, <2>2, LeastIs
    <3>2. Least(T) = d + e
      BY <2>1, <2>3, LeastIs
    <3> QED
      BY <3>1, <3>2
  <2>5. SubSeq(t, i, e) = SubSeq(s, d + i, d + e)
    <3> DEFINE u == SubSeq(t, i, e)
               v == SubSeq(s, d + i, d + e)
    <3>1. /\ t \in Seq(Bytes) /\ s \in Seq(Bytes)
          /\ e \in i..Len(t) /\ d + i \in 1..Len(s) /\ d + e \in (d + i)..Len(s)
      BY <1>0, <2>3 DEF Tailed
    <3>2. /\ u \in Seq(Bytes) /\ Len(u) = e - i + 1
          /\ \A k \in 1..(e - i + 1) : u[k] = t[i + k - 1]
      <4>1. /\ i \in Int /\ e \in Int /\ i <= e
            /\ \A k \in i..e : t[k] \in Bytes
        BY <1>0, <3>1
      <4> QED
        BY <4>1, SubSeqProperties
    <3>3. /\ v \in Seq(Bytes) /\ Len(v) = (d + e) - (d + i) + 1
          /\ \A k \in 1..((d + e) - (d + i) + 1) : v[k] = s[(d + i) + k - 1]
      BY <1>0, <3>1, SubSeqProperties
    <3>4. (d + e) - (d + i) + 1 = e - i + 1
      BY <1>0, <2>3
    <3>5. ASSUME NEW k \in 1..(e - i + 1) PROVE t[i + k - 1] = s[(d + i) + k - 1]
      <4>1. i + k - 1 \in 1..Size /\ d + (i + k - 1) = (d + i) + k - 1
        BY <1>0, <2>3
      <4> QED
        BY <1>0, <4>1
    <3> HIDE DEF u, v
    <3>6. Len(u) = Len(v) /\ \A k \in 1..Len(u) : u[k] = v[k]
      BY <3>2, <3>3, <3>4, <3>5
    <3>7. u = v
      BY <3>2, <3>3, <3>6, SeqEqual
    <3> QED
      BY <3>7 DEF u, v
  <2>6. T # {}
    BY <2>3
  <2> QED
    BY <1>3, <1>4, <1>6, <2>4, <2>5, <2>6
<1> QED
  BY <1>5, <1>6

\* The last marker of the whole is the last one of the end, when it has one.
LEMMA UsageMoves ==
    ASSUME NEW s, NEW t, NEW d, Tailed(s, t, d), Markers(t) # {}
    PROVE  ExtractUsage(t) = ExtractUsage(s)
<1>0. Size \in Nat /\ d \in Nat /\ Len(s) = Size + d /\ Len(t) = Size
      /\ \A k \in 1..Size : t[k] = s[d + k]
  BY SizeAssumption DEF Tailed
<1>1. PICK g \in Markers(t) : \A i \in Markers(t) : i <= g
  <2>1. \A i \in Markers(t) : i \in 1..Size
    BY MarkersMove
  <2>2. Markers(t) \in SUBSET (1..Size)
    BY <2>1
  <2> QED
    BY <1>0, <2>2, HasGreatest
<1>2. g \in 1..Size /\ d + g \in Markers(s) /\ \A k \in Markers(s) : k \in Int /\ k <= d + g
  <2>1. g \in 1..Size /\ d + g \in Markers(s)
    BY MarkersMove
  <2>2. ASSUME NEW k \in Markers(s) PROVE k \in Int /\ k <= d + g
    <3>1. k \in 1..Len(s) /\ (k > d => k - d \in Markers(t))
      BY MarkersMove
    <3> QED
      BY <1>0, <1>1, <2>1, <3>1
  <2> QED
    BY <2>1, <2>2
<1>3. Greatest(Markers(t)) = g /\ Greatest(Markers(s)) = d + g
  <2>1. \A i \in Markers(t) : i \in Int
    BY MarkersMove
  <2>2. Markers(t) \in SUBSET Int /\ Markers(s) \in SUBSET Int
    BY <1>2, <2>1
  <2>3. Greatest(Markers(t)) = g
    BY <1>1, <2>2, GreatestIs
  <2>4. Greatest(Markers(s)) = d + g
    BY <1>2, <2>2, GreatestIs
  <2> QED
    BY <2>3, <2>4
<1> DEFINE S == {i \in g..Len(t) : t[i] = Open}
           T == {i \in (d + g)..Len(s) : s[i] = Open}
<1>4. \A i \in S : i \in 1..Size /\ d + i \in T
  BY <1>0, <1>2
<1>5. \A k \in T : k \in Int /\ k - d \in S /\ d + (k - d) = k
  BY <1>0, <1>2
<1>6. /\ ExtractUsage(t) = IF S = {} THEN NoUsage ELSE Decode(t, Least(S))
      /\ ExtractUsage(s) = IF T = {} THEN NoUsage ELSE Decode(s, Least(T))
  BY <1>2, <1>3 DEF ExtractUsage
<1> HIDE DEF S, T
<1>7. CASE S = {}
  BY <1>5, <1>6, <1>7
<1>8. CASE S # {}
  <2>1. S \in SUBSET Nat /\ T \in SUBSET Int
    BY <1>4, <1>5
  <2>2. PICK o \in S : \A j \in S : o <= j
    BY <1>8, <2>1, HasLeast
  <2>3. o \in 1..Size /\ d + o \in T /\ \A k \in T : d + o <= k
    BY <1>0, <1>4, <1>5, <2>2
  <2>4. Least(S) = o /\ Least(T) = d + o /\ T # {}
    <3>1. Least(S) = o
      BY <2>1, <2>2, LeastIs
    <3>2. Least(T) = d + o
      BY <2>1, <2>3, LeastIs
    <3> QED
      BY <2>3, <3>1, <3>2
  <2>5. Decode(t, o) = Decode(s, d + o)
    BY <2>3, DecodeMoves
  <2> QED
    BY <1>6, <1>8, <2>4, <2>5
<1> QED
  BY <1>7, <1>8

\* What is found in the end of an answer is what the answer ends with.
LEMMA UsageOfTail ==
    ASSUME NEW s \in Seq(Bytes)
    PROVE  IF \E i \in Markers(s) : i > Len(s) - Size
             THEN ExtractUsage(LastBytes(s)) = ExtractUsage(s)
             ELSE ExtractUsage(LastBytes(s)) = NoUsage
<1>0. Size \in Nat \ {0} /\ Len(s) \in Nat /\ DOMAIN s = 1..Len(s)
  BY SizeAssumption
<1>1. \A i \in Markers(s) : i \in Nat \ {0}
  BY DEF Markers
<1>2. CASE Len(s) <= Size
  <2>1. LastBytes(s) = [i \in 1..Len(s) |-> s[Len(s) - Len(s) + i]]
    BY <1>2 DEF LastBytes
  <2>2. \A i \in 1..Len(s) : Len(s) - Len(s) + i = i
    BY <1>0
  <2>3. LastBytes(s) = s
    <3>1. s = [i \in 1..Len(s) |-> s[i]]
      BY <1>0
    <3> QED
      BY <2>1, <2>2, <3>1
  <2>4. \A i \in Markers(s) : i > Len(s) - Size
    BY <1>0, <1>1, <1>2
  <2>5. Markers(s) = {} => ExtractUsage(s) = NoUsage
    BY DEF ExtractUsage
  <2> QED
    BY <2>3, <2>4, <2>5
<1>3. CASE Len(s) > Size
  <2> DEFINE t == LastBytes(s)
             d == Len(s) - Size
  <2>1. t = [i \in 1..Size |-> s[Len(s) - Size + i]]
    <3>1. ~(Len(s) <= Size)
      BY <1>0, <1>3
    <3> QED
      BY <3>1 DEF LastBytes
  <2>2. t \in Seq(Bytes) /\ Len(t) = Size
    <3>1. \A i \in 1..Size : Len(s) - Size + i \in 1..Len(s)
      BY <1>0, <1>3
    <3>2. \A i \in 1..Size : s[Len(s) - Size + i] \in Bytes
      BY <3>1
    <3> HIDE DEF t
    <3>3. t \in [1..Size -> Bytes]
      BY <2>1, <3>2
    <3> QED
      BY <1>0, <3>3
  <2>3. Tailed(s, t, d)
    BY <1>0, <1>3, <2>1, <2>2 DEF Tailed
  <2>4. Markers(t) # {} <=> \E i \in Markers(s) : i > Len(s) - Size
    <3> HIDE DEF t
    <3>1. ASSUME NEW i \in Markers(t) PROVE d + i \in Markers(s) /\ d + i > d
      BY <1>0, <1>3, <2>3, MarkersMove
    <3>2. ASSUME NEW k \in Markers(s), k > d PROVE k - d \in Markers(t)
      BY <2>3, <3>2, MarkersMove
    <3> QED
      BY <3>1, <3>2
  <2>5. Markers(t) = {} => ExtractUsage(t) = NoUsage
    BY DEF ExtractUsage
  <2>6. Markers(t) # {} => ExtractUsage(t) = ExtractUsage(s)
    <3> HIDE DEF t, d
    <3> QED
      BY <2>3, UsageMoves
  <2> HIDE DEF t
  <2>7. IF \E i \in Markers(s) : i > Len(s) - Size
          THEN ExtractUsage(t) = ExtractUsage(s)
          ELSE ExtractUsage(t) = NoUsage
    BY <2>4, <2>5, <2>6
  <2> QED
    BY <2>7 DEF t
<1> QED
  BY <1>0, <1>2, <1>3

\* proxyAndCapture bills what extractUsage finds in the ring: that is the usage
\* the whole answer ends with, or nothing if its marker is not in the window.
THEOREM BilledIsTheAnswers == TailSpec => []UsageOfAnswer
<1>1. TailInit => UsageOfAnswer
  BY DEF TailInit, UsageOfAnswer
<1>2. TInv /\ UsageOfAnswer /\ [TailNext]_tailVars => UsageOfAnswer'
  <2> SUFFICES ASSUME TInv, UsageOfAnswer, [TailNext]_tailVars, over'
               PROVE  IF \E i \in Markers(stream') : i > Len(stream') - Size
                        THEN usage' = ExtractUsage(stream')
                        ELSE usage' = NoUsage
    BY DEF UsageOfAnswer
  <2>1. CASE Finish
    <3>1. stream' = stream /\ usage' = ExtractUsage(LastBytes(stream))
      BY <2>1, RingIsTail DEF Finish
    <3>2. stream \in Seq(Bytes)
      BY DEF TInv, RingType
    <3>3. IF \E i \in Markers(stream) : i > Len(stream) - Size
            THEN ExtractUsage(LastBytes(stream)) = ExtractUsage(stream)
            ELSE ExtractUsage(LastBytes(stream)) = NoUsage
      BY <3>2, UsageOfTail
    <3> QED
      BY <3>1, <3>3
  <2>2. CASE UNCHANGED tailVars
    <3>1. stream' = stream /\ usage' = usage /\ over
      BY <2>2 DEF tailVars
    <3> QED
      BY <3>1 DEF UsageOfAnswer
  <2>3. ~\E b \in Bytes : Read(b)
    BY DEF Read
  <2> QED
    BY <2>1, <2>2, <2>3 DEF TailNext
<1> QED
  BY <1>1, <1>2, InitTInv, NextTInv, PTL DEF TailSpec

-----------------------------------------------------------------------------
(* Config.                                                                 *)

\* How many numbers of S are smaller than n.
Rank(S, n) == Cardinality({m \in S : m < n})

LEMMA HoursFinite ==
    ASSUME NEW S \in SUBSET (0..23)
    PROVE  IsFiniteSet(S) /\ Cardinality(S) \in Nat
<1>1. IsFiniteSet(0..23)
  BY 0 \in Int, 23 \in Int, FS_Interval
<1>2. IsFiniteSet(S)
  BY <1>1, FS_Subset
<1> QED
  BY <1>2, FS_CardinalityType

\* Ranks are those of a place in the list, and grow with the number.
LEMMA RankGrows ==
    ASSUME NEW S \in SUBSET (0..23), NEW n \in S
    PROVE  /\ IsFiniteSet(S) /\ Cardinality(S) \in Nat
           /\ Rank(S, n) \in 0..(Cardinality(S) - 1)
           /\ \A k \in S : k < n => Rank(S, k) < Rank(S, n)
<1> DEFINE Below(x) == {m \in S : m < x}
<1>1. IsFiniteSet(S) /\ Cardinality(S) \in Nat
  BY HoursFinite
<1>2. \A x \in S : Below(x) \subseteq S /\ x \notin Below(x)
  OBVIOUS
<1>3. \A x \in S : IsFiniteSet(Below(x)) /\ Cardinality(Below(x)) \in Nat
  BY <1>1, <1>2, FS_Subset, FS_CardinalityType
<1>4. Cardinality(Below(n)) < Cardinality(S)
  BY <1>1, <1>2, <1>3, FS_Subset
<1>5. ASSUME NEW k \in S, k < n PROVE Cardinality(Below(k)) < Cardinality(Below(n))
  <2>1. Below(k) \subseteq Below(n) /\ k \in Below(n)
    <3>1. \A x, y, z \in Int : x < y /\ y < z => x < z
      OBVIOUS
    <3>2. S \subseteq Int
      OBVIOUS
    <3> QED
      BY <1>5, <3>1, <3>2
  <2> HIDE DEF Below
  <2>2. Below(k) # Below(n)
    BY <2>1, <1>2
  <2> QED
    BY <2>1, <2>2, <1>3, FS_Subset
<1>6. \A x : Rank(S, x) = Cardinality(Below(x))
  BY DEF Rank
<1> HIDE DEF Below
<1> QED
  BY <1>1, <1>3, <1>4, <1>5, <1>6

\* Every place of the list has its number.
LEMMA EveryRankTaken ==
    ASSUME NEW S \in SUBSET (0..23), NEW i \in 1..Cardinality(S)
    PROVE  \E n \in S : Rank(S, n) = i - 1
<1> SUFFICES ASSUME \A n \in S : Rank(S, n) # i - 1 PROVE FALSE
  OBVIOUS
<1> DEFINE C == Cardinality(S)
           T == (0..(C - 1)) \ {i - 1}
           f == [n \in S |-> Rank(S, n)]
<1>1. IsFiniteSet(S) /\ C \in Nat
  BY HoursFinite
<1>2. IsFiniteSet(0..(C - 1)) /\ Cardinality(0..(C - 1)) = C
  <2> HIDE DEF C
  <2>1. 0 \in Int /\ C - 1 \in Int
    BY <1>1
  <2>2. Cardinality(0..(C - 1)) = IF 0 > C - 1 THEN 0 ELSE C - 1 - 0 + 1
    BY <2>1, FS_Interval
  <2> QED
    BY <1>1, <2>1, <2>2, FS_Interval
<1>3. IsFiniteSet(T) /\ Cardinality(T) = C - 1
  <2>1. i - 1 \in 0..(C - 1)
    BY <1>1
  <2> HIDE DEF C
  <2> QED
    BY <1>2, <2>1, FS_RemoveElement
<1>4. f \in [S -> T]
  BY RankGrows
<1>5. \A x, y \in S : x # y => Rank(S, x) # Rank(S, y)
  BY RankGrows
<1>6. \A x, y \in S : x # y => f[x] # f[y]
  BY <1>5
<1>7. Cardinality(T) < Cardinality(S)
  BY <1>1, <1>3
<1> HIDE DEF T, f, C
<1> QED
  BY <1>1, <1>3, <1>4, <1>6, <1>7, FS_PigeonHole

\* A sorted list ascends strictly, and holds numbers of the set only.
LEMMA AscendingSorted ==
    ASSUME NEW S \in SUBSET (0..23)
    PROVE  /\ DOMAIN Ascending(S) = 1..Cardinality(S)
           /\ Cardinality(S) \in Nat
           /\ \A i \in 1..Cardinality(S) : Ascending(S)[i] \in S
           /\ \A i, j \in 1..Cardinality(S) : i < j => Ascending(S)[i] < Ascending(S)[j]
<1>1. Cardinality(S) \in Nat
  BY HoursFinite
<1>2. \A i \in 1..Cardinality(S) :
         Ascending(S)[i] \in S /\ Rank(S, Ascending(S)[i]) = i - 1
  BY EveryRankTaken DEF Ascending, Rank
<1>3. ASSUME NEW i \in 1..Cardinality(S), NEW j \in 1..Cardinality(S), i < j
      PROVE  Ascending(S)[i] < Ascending(S)[j]
  <2> DEFINE a == Ascending(S)[i]
             b == Ascending(S)[j]
  <2>1. a \in S /\ b \in S /\ Rank(S, a) = i - 1 /\ Rank(S, b) = j - 1
    BY <1>2
  <2> HIDE DEF a, b
  <2>2. a \in Int /\ b \in Int
    BY <2>1
  <2>3. b < a => Rank(S, b) < Rank(S, a)
    BY <2>1, RankGrows
  <2>4. i \in Int /\ j \in Int
    BY <1>1
  <2>5. a # b
    BY <1>3, <2>1, <2>4
  <2>6. ~(b < a)
    BY <1>3, <2>1, <2>3, <2>4
  <2>7. a < b
    BY <2>2, <2>5, <2>6
  <2> QED
    BY <2>7 DEF a, b
<1> QED
  BY <1>1, <1>2, <1>3 DEF Ascending

\* Days short enough are counted in hours without running over.
LEMMA WrapWithin ==
    ASSUME NEW n \in Int, 0 < n, n <= IntMax
    PROVE  Wrap(n) = n
<1> DEFINE M == 2 * (IntMax + 1)
           x == n + IntMax + 1
<1>1. M \in Int /\ x \in Int /\ 0 <= x /\ x < M
  BY IntMaxAssumption
<1>2. \A y, z \in Int : 0 <= y /\ y < z => y % z = y
  OBVIOUS
<1>3. x % M = x
  <2> HIDE DEF x, M
  <2> QED
    BY <1>1, <1>2
<1> QED
  BY <1>3, IntMaxAssumption DEF Wrap

\* A duration that is accepted is as long as the one typed, and positive, with
\* the exceptions named.
LEMMA NormDurationMeant ==
    ASSUME NEW d \in [n : Int, unit : {"none", "ms", "s", "m", "h", "d"}], d # Bad,
           NormDuration(d) # Bad, Fits(d)
    PROVE  /\ SameLength(NormDuration(d), d)
           /\ NormDuration(d).n > 0 \/ d.unit = "none"
<1>1. d.unit # "none" => d.n > 0
  BY DEF NormDuration
<1>2. /\ Seconds["none"] = 1 /\ Seconds["s"] = 1
      /\ Seconds["h"] = 3600 /\ Seconds["d"] = 86400
  BY DEF Seconds
<1>3. CASE d.unit = "none"
  <2>1. NormDuration(d) = [n |-> d.n, unit |-> "s"]
    BY <1>3 DEF NormDuration, Units
  <2> QED
    BY <2>1, <1>2, <1>3 DEF SameLength
<1>4. CASE d.unit \in Units
  <2>1. NormDuration(d) = d
    BY <1>1, <1>4 DEF NormDuration, Units
  <2> QED
    BY <2>1, <1>1, <1>4 DEF Units, SameLength
<1>5. CASE d.unit = "d"
  <2>1. NormDuration(d) = [n |-> Wrap(d.n * 24), unit |-> "h"]
    BY <1>1, <1>5 DEF NormDuration, Units
  <2>2. Wrap(d.n * 24) = 24 * d.n
    <3>1. \A k, m \in Int : k <= m \div 24 => 24 * k <= m
      OBVIOUS
    <3>2. d.n \in Int /\ d.n > 0 /\ 24 * d.n <= IntMax
      BY <1>1, <1>5, <3>1, IntMaxAssumption DEF Fits
    <3>3. Wrap(24 * d.n) = 24 * d.n
      BY <3>2, WrapWithin
    <3> QED
      BY <3>2, <3>3
  <2>3. d.n \in Int /\ d.n > 0
    BY <1>1, <1>5
  <2>4. NormDuration(d).n = 24 * d.n /\ NormDuration(d).unit = "h"
    BY <2>1, <2>2
  <2>5. SameLength(NormDuration(d), d)
    BY <1>2, <1>5, <2>3, <2>4 DEF SameLength
  <2> QED
    BY <2>3, <2>4, <2>5
<1> QED
  BY <1>3, <1>4, <1>5 DEF Units

\* A list of hours that is accepted ascends strictly, within the day.
LEMMA ParseHoursMeant ==
    ASSUME NEW list, ParseHours(list) # Bad
    PROVE  LET hours == ParseHours(list) IN
           /\ \A i, j \in DOMAIN hours : i < j => hours[i] < hours[j]
           /\ ToSet(hours) \subseteq 0..23
<1>1. ToSet(list) \in SUBSET (0..23)
  BY DEF ParseHours, ToSet
<1>2. ParseHours(list) = Ascending(ToSet(list))
  BY DEF ParseHours
<1> QED
  BY <1>1, <1>2, AscendingSorted DEF ToSet

-----------------------------------------------------------------------------
\* Writing a field makes an object that has it, and whose others are as before.
LEMMA WithFieldEffect ==
    ASSUME NEW node, NEW name, NEW value
    PROVE  /\ IsObject(WithField(node, name, value))
           /\ \A n : Field(WithField(node, name, value), n) =
                       IF n = name THEN value ELSE Field(node, n)
BY DEF WithField, Field, IsObject, Object, NoFields

\* setPath on a path of one part, and of two.
LEMMA SetPathSteps ==
    /\ \A node, n, value : SetPath(node, <<n>>, value) = WithField(node, n, value)
    /\ \A node, n, m, value :
          SetPath(node, <<n, m>>, value) =
             WithField(node, n, WithField(Field(node, n), m, value))
    /\ \A node, n : GetPath(node, <<n>>) = Field(node, n)
    /\ \A node, n, m : GetPath(node, <<n, m>>) = Field(Field(node, n), m)
<1>1. \A n, m : /\ Len(<<n>>) = 1 /\ <<n>>[1] = n
                /\ Len(<<n, m>>) = 2 /\ <<n, m>>[1] = n /\ <<n, m>>[2] = m
  OBVIOUS
<1>2. \A node, n, value : SetPath(node, <<n>>, value) = WithField(node, n, value)
  BY <1>1 DEF SetPath
<1>3. \A node, n, m, value :
          SetPath(node, <<n, m>>, value) =
             WithField(node, n, WithField(Field(node, n), m, value))
  BY <1>1 DEF SetPath
<1>4. \A node, n : GetPath(node, <<n>>) = Field(node, n)
  BY <1>1 DEF GetPath
<1>5. \A node, n, m : GetPath(node, <<n, m>>) = Field(Field(node, n), m)
  BY <1>1 DEF GetPath
<1> QED
  BY <1>2, <1>3, <1>4, <1>5

\* What a render makes of each field of the file.
LEMMA RenderedFields ==
    ASSUME NEW node, NEW s
    PROVE  LET doc == Rendered(node, s) IN
           /\ IsObject(doc)
           /\ Field(doc, "listen") = Leaf([host |-> "127.0.0.1", port |-> s.port])
           /\ Field(doc, "cooldown") =
                 WithField(Field(node, "cooldown"), "soft_rate", Leaf(NormDuration(s.rate)))
           /\ Field(doc, "schedule") =
                 WithField(Field(node, "schedule"), "checkin_hours", Leaf(ParseHours(s.hours)))
           /\ Field(doc, "pool") =
                 WithField(Field(node, "pool"), "expiring_soon", Leaf(NormWindow(s.window)))
           /\ \A n : n # "listen" /\ n # "cooldown" /\ n # "schedule" /\ n # "pool" =>
                 Field(doc, n) = Field(node, n)
<1> DEFINE d1 == WithField(node, "listen", Leaf([host |-> "127.0.0.1", port |-> s.port]))
           c == WithField(Field(d1, "cooldown"), "soft_rate", Leaf(NormDuration(s.rate)))
           d2 == WithField(d1, "cooldown", c)
           h == WithField(Field(d2, "schedule"), "checkin_hours", Leaf(ParseHours(s.hours)))
           d3 == WithField(d2, "schedule", h)
           w == WithField(Field(d3, "pool"), "expiring_soon", Leaf(NormWindow(s.window)))
           d4 == WithField(d3, "pool", w)
<1>1. Rendered(node, s) = d4
  <2> DEFINE a == Assignments(s)
  <2>1. /\ a[1] = <<<<"listen">>, [host |-> "127.0.0.1", port |-> s.port]>>
        /\ a[2] = <<<<"cooldown", "soft_rate">>, NormDuration(s.rate)>>
        /\ a[3] = <<<<"schedule", "checkin_hours">>, ParseHours(s.hours)>>
        /\ a[4] = <<<<"pool", "expiring_soon">>, NormWindow(s.window)>>
    BY DEF Assignments
  <2>2. Rendered(node, s) = Set(Set(Set(Set(node, a[1]), a[2]), a[3]), a[4])
    BY DEF Rendered
  <2> HIDE DEF a
  <2>3. /\ \A x : Set(x, a[1]) =
               WithField(x, "listen", Leaf([host |-> "127.0.0.1", port |-> s.port]))
        /\ \A x : Set(x, a[2]) = WithField(x, "cooldown",
               WithField(Field(x, "cooldown"), "soft_rate", Leaf(NormDuration(s.rate))))
        /\ \A x : Set(x, a[3]) = WithField(x, "schedule",
               WithField(Field(x, "schedule"), "checkin_hours", Leaf(ParseHours(s.hours))))
        /\ \A x : Set(x, a[4]) = WithField(x, "pool",
               WithField(Field(x, "pool"), "expiring_soon", Leaf(NormWindow(s.window))))
    <3>1. \A x, p, v : Set(x, <<p, v>>) = SetPath(x, p, Leaf(v))
      BY DEF Set
    <3>2. \A x, v : SetPath(x, <<"listen">>, v) = WithField(x, "listen", v)
      BY SetPathSteps
    <3>3. \A x, v : SetPath(x, <<"cooldown", "soft_rate">>, v) =
                       WithField(x, "cooldown", WithField(Field(x, "cooldown"), "soft_rate", v))
      BY SetPathSteps
    <3>4. \A x, v : SetPath(x, <<"schedule", "checkin_hours">>, v) =
                       WithField(x, "schedule", WithField(Field(x, "schedule"), "checkin_hours", v))
      BY SetPathSteps
    <3>5. \A x, v : SetPath(x, <<"pool", "expiring_soon">>, v) =
                       WithField(x, "pool", WithField(Field(x, "pool"), "expiring_soon", v))
      BY SetPathSteps
    <3> QED
      BY <2>1, <3>1, <3>2, <3>3, <3>4, <3>5
  <2> QED
    BY <2>2, <2>3
<1>2. \A n : Field(d1, n) = IF n = "listen"
                THEN Leaf([host |-> "127.0.0.1", port |-> s.port]) ELSE Field(node, n)
  BY WithFieldEffect
<1>3. c = WithField(Field(node, "cooldown"), "soft_rate", Leaf(NormDuration(s.rate)))
  BY <1>2
<1>4. \A n : Field(d2, n) = IF n = "cooldown" THEN c ELSE Field(d1, n)
  BY WithFieldEffect
<1>5. h = WithField(Field(node, "schedule"), "checkin_hours", Leaf(ParseHours(s.hours)))
  BY <1>2, <1>4
<1>6. \A n : Field(d3, n) = IF n = "schedule" THEN h ELSE Field(d2, n)
  BY WithFieldEffect
<1>7. w = WithField(Field(node, "pool"), "expiring_soon", Leaf(NormWindow(s.window)))
  BY <1>2, <1>4, <1>6
<1>8. IsObject(d4) /\ \A n : Field(d4, n) = IF n = "pool" THEN w ELSE Field(d3, n)
  BY WithFieldEffect
<1> HIDE DEF d1, d2, d3, d4, c, h, w
<1> QED
  BY <1>1, <1>2, <1>3, <1>4, <1>5, <1>6, <1>7, <1>8

\* The four assignments, one by one.
LEMMA TheAssignments ==
    ASSUME NEW s
    PROVE  ToSet(Assignments(s)) =
             {<<<<"listen">>, [host |-> "127.0.0.1", port |-> s.port]>>,
              <<<<"cooldown", "soft_rate">>, NormDuration(s.rate)>>,
              <<<<"schedule", "checkin_hours">>, ParseHours(s.hours)>>,
              <<<<"pool", "expiring_soon">>, NormWindow(s.window)>>}
BY DEF Assignments, ToSet

\* The fields of a render are set in the file.
InPlace(node, s) ==
    /\ GetPath(node, <<"listen">>) = Leaf([host |-> "127.0.0.1", port |-> s.port])
    /\ GetPath(node, <<"cooldown", "soft_rate">>) = Leaf(NormDuration(s.rate))
    /\ GetPath(node, <<"schedule", "checkin_hours">>) = Leaf(ParseHours(s.hours))
    /\ GetPath(node, <<"pool", "expiring_soon">>) = Leaf(NormWindow(s.window))

LEMMA RenderedInPlace ==
    ASSUME NEW node, NEW s
    PROVE  InPlace(Rendered(node, s), s)
<1> DEFINE doc == Rendered(node, s)
<1>1. /\ Field(doc, "listen") = Leaf([host |-> "127.0.0.1", port |-> s.port])
      /\ Field(Field(doc, "cooldown"), "soft_rate") = Leaf(NormDuration(s.rate))
      /\ Field(Field(doc, "schedule"), "checkin_hours") = Leaf(ParseHours(s.hours))
      /\ Field(Field(doc, "pool"), "expiring_soon") = Leaf(NormWindow(s.window))
  BY RenderedFields, WithFieldEffect
<1> HIDE DEF doc
<1>2. InPlace(doc, s)
  <2>1. GetPath(doc, <<"listen">>) = Field(doc, "listen")
    BY SetPathSteps
  <2>2. \A n, m : GetPath(doc, <<n, m>>) = Field(Field(doc, n), m)
    BY SetPathSteps
  <2> QED
    BY <1>1, <2>1, <2>2 DEF InPlace
<1> QED
  BY <1>2 DEF doc

\* Whatever is not a field of a render's own stays, at both levels.
LEMMA RenderedKeeps ==
    ASSUME NEW node, NEW s, IsObject(node),
           NEW n \in DOMAIN node.map, <<n>> \notin Owned
    PROVE  IF IsObject(node.map[n])
             THEN \A m \in DOMAIN node.map[n].map :
                     <<n, m>> \in Owned
                        \/ GetPath(Rendered(node, s), <<n, m>>) = node.map[n].map[m]
             ELSE \/ \E p \in Owned : p[1] = n
                  \/ Field(Rendered(node, s), n) = node.map[n]
<1> DEFINE doc == Rendered(node, s)
<1>1. n # "listen"
  BY DEF Owned
<1>2. Field(node, n) = node.map[n]
  BY DEF Field
<1>5. /\ \A k : k # "listen" /\ k # "cooldown" /\ k # "schedule" /\ k # "pool" =>
            Field(doc, k) = Field(node, k)
      /\ Field(doc, "cooldown") =
            WithField(Field(node, "cooldown"), "soft_rate", Leaf(NormDuration(s.rate)))
      /\ Field(doc, "schedule") =
            WithField(Field(node, "schedule"), "checkin_hours", Leaf(ParseHours(s.hours)))
      /\ Field(doc, "pool") =
            WithField(Field(node, "pool"), "expiring_soon", Leaf(NormWindow(s.window)))
  BY RenderedFields
<1> HIDE DEF doc
<1>3. ASSUME IsObject(node.map[n]), NEW m \in DOMAIN node.map[n].map, <<n, m>> \notin Owned
      PROVE  GetPath(doc, <<n, m>>) = node.map[n].map[m]
  <2>1. Field(node.map[n], m) = node.map[n].map[m]
    BY <1>3 DEF Field
  <2>2. GetPath(doc, <<n, m>>) = Field(Field(doc, n), m)
    BY SetPathSteps
  <2>3. /\ ~(n = "cooldown" /\ m = "soft_rate")
        /\ ~(n = "schedule" /\ m = "checkin_hours")
        /\ ~(n = "pool" /\ m = "expiring_soon")
    BY <1>3 DEF Owned
  <2>4. Field(Field(doc, n), m) = Field(Field(node, n), m)
    <3>1. CASE n = "cooldown"
      BY <2>3, <3>1, <1>5, WithFieldEffect
    <3>2. CASE n = "schedule"
      BY <2>3, <3>2, <1>5, WithFieldEffect
    <3>3. CASE n = "pool"
      BY <2>3, <3>3, <1>5, WithFieldEffect
    <3>4. CASE n # "cooldown" /\ n # "schedule" /\ n # "pool"
      BY <1>1, <1>5, <3>4
    <3> QED
      BY <3>1, <3>2, <3>3, <3>4
  <2> QED
    BY <1>2, <2>1, <2>2, <2>4
<1>4. ASSUME \A p \in Owned : p[1] # n PROVE Field(doc, n) = node.map[n]
  <2>1. n # "cooldown" /\ n # "schedule" /\ n # "pool"
    BY <1>4 DEF Owned
  <2> QED
    BY <1>1, <1>2, <1>5, <2>1
<1> QED
  BY <1>3, <1>4 DEF doc

\* What is read is what the file has, but for numbers a float cannot hold.
FileOf(node) == IF IsObject(node) THEN node ELSE Object(NoFields)

LEMMA AsFloatSame ==
    ASSUME NEW node
    PROVE  /\ SameValue(AsFloat(node), node)
           /\ ~IsObject(node) => ~IsObject(AsFloat(node))
BY FloatAssumption DEF SameValue, AsFloat, IsObject, Number

LEMMA DecodedFields ==
    ASSUME NEW node
    PROVE  LET old == FileOf(node)
               doc == Decoded(node)
           IN  /\ IsObject(doc) /\ DOMAIN doc.map = DOMAIN old.map
               /\ \A n \in DOMAIN old.map :
                     IF IsObject(old.map[n])
                       THEN /\ IsObject(doc.map[n]) /\ DOMAIN doc.map[n].map = DOMAIN old.map[n].map
                            /\ \A m \in DOMAIN old.map[n].map :
                                  SameValue(doc.map[n].map[m], old.map[n].map[m])
                       ELSE ~IsObject(doc.map[n]) /\ SameValue(doc.map[n], old.map[n])
<1>1. CASE ~IsObject(node)
  BY <1>1 DEF FileOf, Decoded, NoFields, Object, IsObject
<1>2. CASE IsObject(node)
  <2>1. /\ FileOf(node) = node
        /\ Decoded(node).kind = "map"
        /\ Decoded(node).map = [n \in DOMAIN node.map |-> Each(node.map[n])]
    BY <1>2 DEF FileOf, Decoded, Object
  <2>2. ASSUME NEW v, IsObject(v)
        PROVE  /\ IsObject(Each(v)) /\ DOMAIN Each(v).map = DOMAIN v.map
               /\ \A m \in DOMAIN v.map : SameValue(Each(v).map[m], v.map[m])
    <3>1. Each(v) = [kind |-> "map", map |-> [m \in DOMAIN v.map |-> AsFloat(v.map[m])]]
      BY <2>2 DEF Each, Object
    <3> QED
      BY <3>1, AsFloatSame DEF IsObject
  <2>3. ASSUME NEW v, ~IsObject(v)
        PROVE  ~IsObject(Each(v)) /\ SameValue(Each(v), v)
    BY <2>3, AsFloatSame DEF Each
  <2>4. IsObject(Decoded(node)) /\ DOMAIN Decoded(node).map = DOMAIN node.map
    BY <2>1 DEF IsObject
  <2>5. \A n \in DOMAIN node.map : Decoded(node).map[n] = Each(node.map[n])
    BY <2>1
  <2> QED
    BY <2>1, <2>2, <2>3, <2>4, <2>5
<1> QED
  BY <1>1, <1>2

-----------------------------------------------------------------------------
\* Every run that has read the file is past all checks.
RunsChecked ==
    /\ run = [r \in Renderers |-> run[r]]
    /\ \A r \in Renderers : run[r].at # "idle" => Valid(run[r].set)

FileForm == disk \in {Absent, Broken, Null} \/ IsObject(disk)

\* A run that nothing overtook holds what the file has.
CopiesCurrent ==
    \A r \in Renderers \ overtaken : run[r].at # "idle" =>
        Loadable(disk) /\ run[r].doc = Decoded(disk)

\* What was saved last had been checked, and is in the file.
AppliedInPlace == applied # Off => Valid(applied) /\ InPlace(disk, applied)

CInv == ConfigTypeOK /\ RunsChecked /\ FileForm /\ CopiesCurrent /\ AppliedInPlace

\* The steps that leave the file alone, but for the note each run leaves.
ConfigRunStep(r) ==
    \/ SaveFails(r) \/ Refuse(r) \/ LoadFails(r) \/ BeginSave(r)
    \/ \E s \in Settings : Load(r, s)

\* What a run notes in such a step: that it failed, or its copy of the file.
NoteOf(r, v) ==
    \/ v.at = "idle" /\ v.result = "err"
    \/ /\ v.at \in {"loaded", "saving"} /\ v.set \in Settings /\ Valid(v.set)
       /\ IsObject(v.doc)
       /\ r \notin overtaken' => Loadable(disk) /\ v.doc = Decoded(disk)

LEMMA ValidMeans ==
    ASSUME NEW s, Valid(s)
    PROVE  /\ s.port \in Ports /\ NormDuration(s.rate) # Bad
           /\ NormWindow(s.window) # Bad /\ ParseHours(s.hours) # Bad
BY DEF Valid

\* What a run saves is an object, and so is what the crowd leaves behind.
LEMMA OutputIsObject == ASSUME NEW r PROVE IsObject(Output(r))
BY RenderedFields DEF Output

LEMMA ConfigInitInv == ConfigInit => CInv
<1> SUFFICES ASSUME ConfigInit PROVE CInv
  OBVIOUS
<1>1. disk.kind \in {"absent", "broken", "null", "map"} /\ FileForm
  BY EditsAssumption DEF ConfigInit, Absent, Broken, Null, FileForm, IsObject
<1>2. \A r \in Renderers : run[r] = Idle
  BY DEF ConfigInit
<1>3. Idle.at = "idle" /\ Idle.result = "none"
  BY DEF Idle
<1>4. ConfigTypeOK
  BY <1>1, <1>2, <1>3 DEF ConfigInit, ConfigTypeOK
<1>5. RunsChecked /\ CopiesCurrent
  BY <1>2, <1>3 DEF ConfigInit, RunsChecked, CopiesCurrent
<1> QED
  BY <1>1, <1>4, <1>5 DEF ConfigInit, CInv, AppliedInPlace

\* A step of one run that leaves the file alone.
LEMMA ConfigRunStepInv ==
    ASSUME CInv, NEW r \in Renderers, ConfigRunStep(r)
    PROVE  CInv'
<1>1. /\ disk' = disk /\ applied' = applied
      /\ overtaken' \subseteq overtaken /\ overtaken \ {r} \subseteq overtaken'
  BY DEF ConfigRunStep, SaveFails, Refuse, Load, LoadFails, BeginSave
<1>2. PICK v : run' = [run EXCEPT ![r] = v] /\ NoteOf(r, v)
  <2>1. CASE SaveFails(r) \/ Refuse(r) \/ LoadFails(r)
    <3> DEFINE v == [at |-> "idle", result |-> "err"]
    <3>1. run' = [run EXCEPT ![r] = v] /\ NoteOf(r, v)
      BY <2>1 DEF SaveFails, Refuse, LoadFails, EndRun, NoteOf
    <3> QED
      BY <3>1
  <2>2. CASE BeginSave(r)
    <3> DEFINE v == [at |-> "saving", set |-> run[r].set, doc |-> run[r].doc]
    <3>1. run[r].at = "loaded" /\ run' = [run EXCEPT ![r] = v] /\ overtaken' = overtaken
      BY <2>2 DEF BeginSave
    <3>2. NoteOf(r, v)
      BY <3>1 DEF NoteOf, CInv, ConfigTypeOK, RunsChecked, CopiesCurrent
    <3> QED
      BY <3>1, <3>2
  <2>3. CASE \E s \in Settings : Load(r, s)
    <3>1. PICK s \in Settings : Load(r, s)
      BY <2>3
    <3> DEFINE v == [at |-> "loaded", set |-> s, doc |-> Decoded(disk)]
    <3>2. run' = [run EXCEPT ![r] = v] /\ Valid(s) /\ Loadable(disk)
      BY <3>1 DEF Load, Accepted
    <3>3. NoteOf(r, v)
      BY <3>2, DecodedFields DEF NoteOf
    <3> QED
      BY <3>2, <3>3
  <2> QED
    BY <2>1, <2>2, <2>3 DEF ConfigRunStep
<1>3. /\ run' = [q \in Renderers |-> run'[q]]
      /\ run'[r] = v /\ \A q \in Renderers \ {r} : run'[q] = run[q]
  BY <1>2 DEF CInv, RunsChecked
<1>4. crowded' \subseteq Renderers /\ \A doc \in mixed' : IsObject(doc)
  <2>1. CASE SaveFails(r)
    BY <2>1, OutputIsObject DEF SaveFails, LeaveCrowd, crowd, CInv, ConfigTypeOK
  <2>2. CASE BeginSave(r)
    BY <2>2 DEF BeginSave, Savers, CInv, ConfigTypeOK
  <2>3. CASE Refuse(r) \/ LoadFails(r) \/ \E s \in Settings : Load(r, s)
    BY <2>3 DEF Refuse, LoadFails, Load, crowd, CInv, ConfigTypeOK
  <2> QED
    BY <2>1, <2>2, <2>3 DEF ConfigRunStep
<1>5. ConfigTypeOK'
  BY <1>1, <1>2, <1>3, <1>4 DEF CInv, ConfigTypeOK, NoteOf
<1>6. RunsChecked'
  BY <1>2, <1>3 DEF CInv, RunsChecked, NoteOf
<1>7. CopiesCurrent'
  BY <1>1, <1>2, <1>3 DEF CInv, CopiesCurrent, NoteOf
<1>8. FileForm' /\ AppliedInPlace'
  BY <1>1 DEF CInv, FileForm, AppliedInPlace, InPlace
<1> QED
  BY <1>5, <1>6, <1>7, <1>8 DEF CInv

\* A run that saves alone puts everything in place, and overtakes all others.
LEMMA SaveInv ==
    ASSUME CInv, NEW r \in Renderers, Save(r)
    PROVE  CInv'
<1>1. /\ run[r].at = "saving" /\ run[r].set \in Settings /\ Valid(run[r].set)
      /\ disk' = Rendered(run[r].doc, run[r].set) /\ applied' = run[r].set
      /\ UNCHANGED <<crowded, mixed>>
  BY DEF Save, Output, crowd, CInv, ConfigTypeOK, RunsChecked
<1>2. IsObject(disk') /\ InPlace(disk', run[r].set)
  BY <1>1, RenderedFields, RenderedInPlace
<1>3. /\ run' = [q \in Renderers |-> run'[q]]
      /\ run'[r] = [at |-> "idle", result |-> "ok"]
      /\ \A q \in Renderers \ {r} : run'[q] = run[q]
  BY DEF Save, EndRun, CInv, RunsChecked
<1>4. /\ overtaken' \subseteq Renderers
      /\ \A q \in Renderers \ {r} : run[q].at # "idle" => q \in overtaken'
  BY DEF Save, UnderWay, CInv, ConfigTypeOK
<1>5. ConfigTypeOK'
  BY <1>1, <1>2, <1>3, <1>4 DEF CInv, ConfigTypeOK, IsObject
<1>6. RunsChecked' /\ CopiesCurrent'
  BY <1>3, <1>4 DEF CInv, RunsChecked, CopiesCurrent
<1>7. FileForm' /\ AppliedInPlace'
  BY <1>1, <1>2 DEF FileForm, AppliedInPlace, IsObject, InPlace
<1> QED
  BY <1>5, <1>6, <1>7 DEF CInv

\* A crowd leaves an object or text that does not parse, and nobody's settings.
LEMMA TornForm ==
    ASSUME CInv, Torn
    PROVE  /\ FileForm' /\ disk'.kind \in {"absent", "broken", "null", "map"}
           /\ applied' = Off
<1>1. disk' = Broken \/ IsObject(disk')
  BY OutputIsObject DEF Torn, CInv, ConfigTypeOK
<1> QED
  BY <1>1 DEF Torn, FileForm, IsObject, Broken

LEMMA SaveCrowdedInv ==
    ASSUME CInv, NEW r \in Renderers, SaveCrowded(r)
    PROVE  CInv'
<1>1. /\ FileForm' /\ disk'.kind \in {"absent", "broken", "null", "map"}
      /\ applied' = Off
  BY TornForm DEF SaveCrowded
<1>2. /\ run' = [q \in Renderers |-> run'[q]]
      /\ run'[r] = [at |-> "idle", result |-> "ok"]
      /\ \A q \in Renderers \ {r} : run'[q] = run[q]
  BY DEF SaveCrowded, EndRun, CInv, RunsChecked
<1>3. /\ overtaken' \subseteq Renderers
      /\ \A q \in Renderers \ {r} : run[q].at # "idle" => q \in overtaken'
  BY DEF SaveCrowded, UnderWay, CInv, ConfigTypeOK
<1>4. crowded' \subseteq Renderers /\ \A doc \in mixed' : IsObject(doc)
  BY OutputIsObject DEF SaveCrowded, LeaveCrowd, CInv, ConfigTypeOK
<1>5. ConfigTypeOK'
  BY <1>1, <1>2, <1>3, <1>4 DEF CInv, ConfigTypeOK
<1>6. RunsChecked' /\ CopiesCurrent' /\ AppliedInPlace'
  BY <1>1, <1>2, <1>3 DEF CInv, RunsChecked, CopiesCurrent, AppliedInPlace
<1> QED
  BY <1>1, <1>5, <1>6 DEF CInv

\* An edit, and a write into a file already published, overtake every run, and
\* nothing counts as applied after them.
LEMMA EditInv ==
    ASSUME CInv, Edit \/ \E r \in Renderers : Tear(r)
    PROVE  CInv'
<1>1. /\ FileForm' /\ disk'.kind \in {"absent", "broken", "null", "map"}
      /\ applied' = Off
  <2>1. CASE Edit /\ disk' \in {Broken, Null}
    BY <2>1 DEF Edit, FileForm, Broken, Null
  <2>2. CASE \E r \in Renderers : Tear(r)
    BY <2>2, TornForm DEF Tear
  <2>3. CASE Edit /\ disk' \notin {Broken, Null}
    <3>1. PICK f : disk' = Object(f)
      BY <2>3 DEF Edit
    <3> QED
      BY <2>3, <3>1 DEF Edit, FileForm, IsObject, Object
  <2> QED
    BY <2>1, <2>2, <2>3
<1>2. /\ run' = run /\ overtaken' \subseteq Renderers
      /\ UNCHANGED <<crowded, mixed>>
      /\ \A q \in Renderers : run[q].at # "idle" => q \in overtaken'
  BY DEF Edit, Tear, UnderWay, crowd, CInv, ConfigTypeOK
<1>3. ConfigTypeOK'
  BY <1>1, <1>2 DEF CInv, ConfigTypeOK
<1>4. RunsChecked' /\ CopiesCurrent' /\ AppliedInPlace'
  BY <1>1, <1>2 DEF CInv, RunsChecked, CopiesCurrent, AppliedInPlace
<1> QED
  BY <1>1, <1>3, <1>4 DEF CInv

LEMMA ConfigSteps == CInv /\ [ConfigNext]_configVars => CInv'
<1> SUFFICES ASSUME CInv, [ConfigNext]_configVars PROVE CInv'
  OBVIOUS
<1>1. CASE Edit \/ \E r \in Renderers : Tear(r)
  BY <1>1, EditInv
<1>2. CASE \E r \in Renderers : Save(r) \/ SaveCrowded(r)
  BY <1>2, SaveInv, SaveCrowdedInv
<1>3. CASE \E r \in Renderers : ConfigRunStep(r)
  BY <1>3, ConfigRunStepInv
<1>4. CASE UNCHANGED configVars
  BY <1>4 DEF CInv, ConfigTypeOK, RunsChecked, FileForm, CopiesCurrent, AppliedInPlace,
              InPlace, configVars, crowd
<1> QED
  BY <1>1, <1>2, <1>3, <1>4 DEF ConfigNext, ConfigRunStep

\* The inductive invariant of the renders: every copy that nothing overtook is
\* the file's, every run past the checks has settings that passed them, and
\* what was saved last is in place.
THEOREM ConfigInductive == ConfigSpec => []CInv
<1>1. ConfigInit => CInv
  BY ConfigInitInv
<1>2. CInv /\ [ConfigNext]_configVars => CInv'
  BY ConfigSteps
<1> QED
  BY <1>1, <1>2, PTL DEF ConfigSpec

\* The file that the last render leaves holds what its user meant, for any
\* settings, any width of int and any number of renders that overlap up to
\* their saves: both durations are as long as the ones typed (cfgRender,
\* normDuration, parseHours).
THEOREM RendersAreMeant == ConfigSpec => []RenderedAsMeant
<1>1. CInv => RenderedAsMeant
  <2> SUFFICES ASSUME CInv, applied # Off PROVE RenderedAsMeant
    BY DEF RenderedAsMeant
  <2> DEFINE Durations == [n : Int, unit : {"none", "ms", "s", "m", "h", "d"}]
  <2>1. applied \in Settings /\ Valid(applied) /\ InPlace(disk, applied)
    BY DEF CInv, ConfigTypeOK, AppliedInPlace
  <2>2. /\ GetPath(disk, <<"cooldown", "soft_rate">>).val = NormDuration(applied.rate)
        /\ GetPath(disk, <<"schedule", "checkin_hours">>).val = ParseHours(applied.hours)
        /\ GetPath(disk, <<"pool", "expiring_soon">>).val = NormWindow(applied.window)
        /\ GetPath(disk, <<"listen">>).val.host = "127.0.0.1"
    BY <2>1 DEF InPlace, Leaf
  <2>3. /\ NormDuration(applied.rate) # Bad /\ ParseHours(applied.hours) # Bad
        /\ NormWindow(applied.window) # Bad
    BY <2>1, ValidMeans
  <2>4. applied.rate # Bad /\ applied.rate \in Durations
    BY <2>1, <2>3, RateAssumption DEF NormDuration
  <2>5. Fits(applied.rate) => /\ SameLength(NormDuration(applied.rate), applied.rate)
                              /\ NormDuration(applied.rate).n > 0 \/ applied.rate.unit = "none"
    BY <2>3, <2>4, NormDurationMeant
  <2>6. applied.window = Off => NormWindow(applied.window).n = 0
    BY DEF NormWindow
  <2>7. ASSUME applied.window # Off, Fits(applied.window)
        PROVE  /\ SameLength(NormWindow(applied.window), applied.window)
               /\ NormWindow(applied.window).n > 0 \/ applied.window.unit = "none"
    <3>1. NormWindow(applied.window) = NormDuration(applied.window)
      BY <2>7 DEF NormWindow
    <3>2. applied.window # Bad /\ applied.window \in Durations
      BY <2>1, <2>3, <2>7, <3>1, RateAssumption DEF NormDuration
    <3> QED
      BY <2>3, <2>7, <3>1, <3>2, NormDurationMeant
  <2> QED
    BY <2>2, <2>3, <2>5, <2>6, <2>7, ParseHoursMeant DEF RenderedAsMeant
<1> QED
  BY <1>1, ConfigInductive, PTL

\* A step that ends a run well is its save.
LEMMA OnlySaveSaves ==
    ASSUME CInv, [ConfigNext]_configVars, NEW r \in Renderers, Saves(r)
    PROVE  Save(r) \/ SaveCrowded(r)
<1>1. run[r].at = "saving" /\ run'[r].at = "idle" /\ run'[r].result = "ok"
  BY DEF Saves
<1>2. run' # run
  BY <1>1
<1>3. PICK q \in Renderers : Save(q) \/ SaveCrowded(q) \/ ConfigRunStep(q)
  BY <1>2 DEF ConfigNext, configVars, Edit, Tear, ConfigRunStep
<1>4. q = r
  BY <1>1, <1>3 DEF Save, SaveCrowded, SaveFails, Refuse, Load, LoadFails, BeginSave, EndRun,
                    ConfigRunStep, CInv, RunsChecked
<1>5. ~ConfigRunStep(r)
  BY <1>1 DEF SaveFails, Refuse, Load, LoadFails, BeginSave, EndRun, ConfigRunStep, CInv,
              RunsChecked
<1> QED
  BY <1>3, <1>4, <1>5

\* A bad setting is never written, and a file that does not parse is only
\* overwritten when it was broken behind the render's back (cfgRender).
THEOREM BrokenFilesAreKept == ConfigSpec => BrokenKept
<1> DEFINE Kept(r) == /\ run[r].set.port \in Ports
                      /\ \A a \in ToSet(Assignments(run[r].set)) : a[2] # Bad
                      /\ disk \in {Broken, Null} => r \in overtaken
<1>1. ASSUME CInv, [ConfigNext]_configVars, NEW r \in Renderers, Saves(r)
      PROVE  Kept(r)
  <2>1. run[r].at = "saving" /\ Valid(run[r].set)
    BY <1>1 DEF Saves, CInv, RunsChecked
  <2>2. /\ run[r].set.port \in Ports
        /\ \A a \in ToSet(Assignments(run[r].set)) : a[2] # Bad
    <3> DEFINE s == run[r].set
    <3>1. /\ s.port \in Ports /\ NormDuration(s.rate) # Bad
          /\ ParseHours(s.hours) # Bad /\ NormWindow(s.window) # Bad
      BY <2>1, ValidMeans
    <3>2. [host |-> "127.0.0.1", port |-> s.port] # Bad
      BY <3>1, ListenAssumption
    <3> HIDE DEF s
    <3>3. \A a \in ToSet(Assignments(s)) : a[2] # Bad
      BY <3>1, <3>2, TheAssignments
    <3>4. s.port \in Ports /\ \A a \in ToSet(Assignments(s)) : a[2] # Bad
      BY <3>1, <3>3
    <3> QED
      BY <3>4 DEF s
  <2>3. disk \in {Broken, Null} => ~Loadable(disk)
    BY DEF Loadable, Broken, Null, Absent, IsObject
  <2>4. r \notin overtaken => Loadable(disk)
    BY <1>1, <2>1 DEF CInv, CopiesCurrent
  <2> QED
    BY <2>2, <2>3, <2>4
<1>2. CInv /\ [ConfigNext]_configVars => [\A r \in Renderers : Saves(r) => Kept(r)]_configVars
  BY <1>1
<1> QED
  BY <1>2, ConfigInductive, PTL DEF ConfigSpec, BrokenKept

\* A render that nothing overtook and that saved alone keeps every field that
\* is not its own and sets all of its own, whatever a person has written and
\* whatever floats can hold (setPath, cfgRender).
THEOREM UnknownFieldsAreKept == ConfigSpec => UnknownKept
<1> DEFINE before == IF IsObject(disk) THEN disk ELSE Object(NoFields)
           Kept(r) ==
             /\ \A n \in {m \in DOMAIN before.map : <<m>> \notin Owned} :
                   IF IsObject(before.map[n])
                     THEN \A m \in DOMAIN before.map[n].map :
                             <<n, m>> \in Owned
                                \/ SameValue(GetPath(disk', <<n, m>>), before.map[n].map[m])
                     ELSE \/ \E p \in Owned : p[1] = n
                          \/ SameValue(Field(disk', n), before.map[n])
             /\ \A a \in ToSet(Assignments(run[r].set)) :
                   GetPath(disk', a[1]) = Leaf(a[2])
<1>1. ASSUME CInv, [ConfigNext]_configVars, NEW r \in Renderers \ (overtaken \cup crowded),
             Saves(r)
      PROVE  Kept(r)
  <2>1. Save(r)
    BY <1>1, OnlySaveSaves DEF SaveCrowded
  <2> DEFINE doc == Decoded(disk)
  <2>2. run[r].doc = doc
    BY <1>1 DEF CInv, CopiesCurrent, Saves
  <2>3. disk' = Rendered(doc, run[r].set)
    BY <2>1, <2>2 DEF Save, Output
  <2>4. before = FileOf(disk)
    BY DEF FileOf
  <2>5. InPlace(disk', run[r].set)
    BY <2>3, RenderedInPlace
  <2>6. \A a \in ToSet(Assignments(run[r].set)) : GetPath(disk', a[1]) = Leaf(a[2])
    BY <2>5, TheAssignments DEF InPlace
  <2>7. /\ IsObject(doc) /\ DOMAIN doc.map = DOMAIN before.map
        /\ \A n \in DOMAIN before.map :
              IF IsObject(before.map[n])
                THEN /\ IsObject(doc.map[n]) /\ DOMAIN doc.map[n].map = DOMAIN before.map[n].map
                     /\ \A m \in DOMAIN before.map[n].map :
                           SameValue(doc.map[n].map[m], before.map[n].map[m])
                ELSE ~IsObject(doc.map[n]) /\ SameValue(doc.map[n], before.map[n])
    BY <2>4, DecodedFields
  <2> HIDE DEF before, doc
  <2>8. \A n \in DOMAIN doc.map : <<n>> \notin Owned =>
          IF IsObject(doc.map[n])
            THEN \A m \in DOMAIN doc.map[n].map :
                    <<n, m>> \in Owned
                       \/ GetPath(disk', <<n, m>>) = doc.map[n].map[m]
            ELSE \/ \E p \in Owned : p[1] = n
                 \/ Field(disk', n) = doc.map[n]
    BY <2>3, <2>7, RenderedKeeps
  <2>9. ASSUME NEW n \in DOMAIN before.map, <<n>> \notin Owned
        PROVE  IF IsObject(before.map[n])
                 THEN \A m \in DOMAIN before.map[n].map :
                         <<n, m>> \in Owned
                            \/ SameValue(GetPath(disk', <<n, m>>), before.map[n].map[m])
                 ELSE \/ \E p \in Owned : p[1] = n
                      \/ SameValue(Field(disk', n), before.map[n])
    <3>1. CASE IsObject(before.map[n])
      <4>1. /\ IsObject(doc.map[n]) /\ DOMAIN doc.map[n].map = DOMAIN before.map[n].map
            /\ \A m \in DOMAIN before.map[n].map :
                  SameValue(doc.map[n].map[m], before.map[n].map[m])
        BY <2>7, <3>1
      <4>2. \A m \in DOMAIN before.map[n].map :
               <<n, m>> \in Owned \/ GetPath(disk', <<n, m>>) = doc.map[n].map[m]
        BY <2>7, <2>8, <2>9, <4>1
      <4> QED
        BY <3>1, <4>1, <4>2
    <3>2. CASE ~IsObject(before.map[n])
      <4>1. ~IsObject(doc.map[n]) /\ SameValue(doc.map[n], before.map[n])
        BY <2>7, <3>2
      <4>2. (\E p \in Owned : p[1] = n) \/ Field(disk', n) = doc.map[n]
        BY <2>7, <2>8, <2>9, <4>1
      <4> QED
        BY <3>2, <4>1, <4>2
    <3> QED
      BY <3>1, <3>2
  <2> QED
    BY <2>6, <2>9
<1>2. CInv /\ [ConfigNext]_configVars =>
        [\A r \in Renderers \ (overtaken \cup crowded) : Saves(r) => Kept(r)]_configVars
  BY <1>1
<1> QED
  BY <1>2, ConfigInductive, PTL DEF ConfigSpec, UnknownKept

-----------------------------------------------------------------------------
(* Sums over finite sets.                                                  *)

\* Among sets that are parts of a finite one, some has no smaller one among
\* them: what is wrong of some part is wrong of one all of whose parts are
\* right.
LEMMA HasMinimal ==
    ASSUME NEW S, IsFiniteSet(S), NEW B \in SUBSET (SUBSET S), B # {}
    PROVE  \E s \in B : /\ IsFiniteSet(s)
                        /\ \A t \in SUBSET s : t # s => t \notin B
<1> DEFINE N == {Cardinality(s) : s \in B}
<1>1. \A s \in B : IsFiniteSet(s) /\ Cardinality(s) \in Nat
  BY FS_Subset, FS_CardinalityType
<1>2. N \in SUBSET Nat /\ N # {}
  BY <1>1
<1>3. PICK n \in N : \A m \in N : n <= m
  <2> HIDE DEF N
  <2> QED
    BY <1>2, HasLeast
<1>4. PICK s \in B : n = Cardinality(s)
  OBVIOUS
<1>5. ASSUME NEW t \in SUBSET s, t # s PROVE t \notin B
  <2>1. Cardinality(t) # Cardinality(s) /\ Cardinality(t) <= Cardinality(s)
    BY <1>1, <1>5, FS_Subset
  <2>2. t \in B => Cardinality(t) \in N
    OBVIOUS
  <2>3. t \in B => Cardinality(t) \in Nat /\ Cardinality(s) \in Nat
    BY <1>1
  <2> QED
    BY <1>3, <1>4, <2>1, <2>2, <2>3
<1> QED
  BY <1>1, <1>4, <1>5

Some(s) == CHOOSE x \in s : TRUE

\* G holds the sum of h over every part of S.
IsSum(G, h, S) ==
    G = [s \in SUBSET S |-> IF s = {} THEN 0 ELSE h[Some(s)] + G[s \ {Some(s)}]]

LEMMA SumStep ==
    ASSUME NEW G, NEW h, NEW S, IsSum(G, h, S), NEW s \in SUBSET S
    PROVE  G[s] = IF s = {} THEN 0 ELSE h[Some(s)] + G[s \ {Some(s)}]
BY DEF IsSum

LEMMA SomeIn == ASSUME NEW s, s # {} PROVE Some(s) \in s
BY DEF Some

\* Two such functions agree where both are defined.
LEMMA SumsAgree ==
    ASSUME NEW S, NEW T, IsFiniteSet(S), S \subseteq T, NEW h,
           NEW F, NEW G, IsSum(F, h, S), IsSum(G, h, T)
    PROVE  \A s \in SUBSET S : F[s] = G[s]
<1> DEFINE B == {s \in SUBSET S : F[s] # G[s]}
<1> SUFFICES B = {}
  OBVIOUS
<1> SUFFICES ASSUME B # {} PROVE FALSE
  OBVIOUS
<1>1. PICK s \in B : \A t \in SUBSET s : t # s => t \notin B
  <2> HIDE DEF B
  <2>1. B \in SUBSET (SUBSET S)
    BY DEF B
  <2> QED
    BY <2>1, HasMinimal
<1>2. s \in SUBSET S /\ s \in SUBSET T /\ F[s] # G[s]
  OBVIOUS
<1>3. F[s] = IF s = {} THEN 0 ELSE h[Some(s)] + F[s \ {Some(s)}]
  BY <1>2, SumStep
<1>4. G[s] = IF s = {} THEN 0 ELSE h[Some(s)] + G[s \ {Some(s)}]
  BY <1>2 DEF IsSum
<1>5. CASE s = {}
  BY <1>2, <1>3, <1>4, <1>5
<1>6. CASE s # {}
  <2>1. Some(s) \in s
    BY <1>6, SomeIn
  <2>2. s \ {Some(s)} \in SUBSET s /\ s \ {Some(s)} # s
    BY <2>1
  <2>3. F[s \ {Some(s)}] = G[s \ {Some(s)}]
    BY <1>1, <1>2, <2>2
  <2> QED
    BY <1>2, <1>3, <1>4, <1>6, <2>1, <2>3
<1> QED
  BY <1>5, <1>6

LEMMA SumsExist ==
    ASSUME NEW S, IsFiniteSet(S), NEW h
    PROVE  \E G : IsSum(G, h, S)
<1> DEFINE B == {s \in SUBSET S : ~\E G : IsSum(G, h, s)}
<1> SUFFICES B = {}
  OBVIOUS
<1> SUFFICES ASSUME B # {} PROVE FALSE
  OBVIOUS
<1>1. PICK s \in B : IsFiniteSet(s) /\ \A t \in SUBSET s : t # s => t \notin B
  <2> HIDE DEF B
  <2>1. B \in SUBSET (SUBSET S)
    BY DEF B
  <2> QED
    BY <2>1, HasMinimal
<1> DEFINE F(t) == CHOOSE G : IsSum(G, h, t)
           Rest(t) == t \ {Some(t)}
           H == [t \in SUBSET s |-> IF t = {} THEN 0 ELSE h[Some(t)] + F(Rest(t))[Rest(t)]]
<1>2. \A t \in SUBSET s : t # s => IsSum(F(t), h, t)
  BY <1>1
<1>3. \A t \in SUBSET s : t # {} => /\ Rest(t) \in SUBSET s /\ Rest(t) # s
                                   /\ Rest(t) \in SUBSET t
  BY SomeIn
<1>4. \A t \in SUBSET s : IsFiniteSet(t)
  BY <1>1, FS_Subset
<1> HIDE DEF F, Rest
<1>5. ASSUME NEW t \in SUBSET s, t # s PROVE H[t] = F(t)[t]
  <2>1. IsSum(F(t), h, t)
    BY <1>2, <1>5
  <2>2. F(t)[t] = IF t = {} THEN 0 ELSE h[Some(t)] + F(t)[Rest(t)]
    BY <2>1, SumStep DEF Rest
  <2>3. ASSUME t # {} PROVE F(t)[Rest(t)] = F(Rest(t))[Rest(t)]
    <3>1. Rest(t) \in SUBSET s /\ Rest(t) # s /\ Rest(t) \in SUBSET t
      BY <1>3, <2>3
    <3>2. IsSum(F(Rest(t)), h, Rest(t)) /\ IsFiniteSet(Rest(t))
      BY <1>2, <1>4, <3>1
    <3> QED
      BY <2>1, <3>1, <3>2, SumsAgree
  <2> QED
    BY <2>2, <2>3
<1>6. IsSum(H, h, s)
  <2>1. ASSUME NEW t \in SUBSET s, t # {} PROVE H[Rest(t)] = F(Rest(t))[Rest(t)]
    BY <1>3, <1>5, <2>1
  <2>2. \A t \in SUBSET s :
           H[t] = IF t = {} THEN 0 ELSE h[Some(t)] + H[t \ {Some(t)}]
    BY <2>1 DEF Rest
  <2>3. H = [t \in SUBSET s |-> H[t]]
    OBVIOUS
  <2> HIDE DEF H
  <2> QED
    BY <2>2, <2>3 DEF IsSum
<1> QED
  BY <1>1, <1>6

Total(h, S) == SumFunctionOnSet(h, S)

\* The sum of the library is that of any such function.
LEMMA SumIsTotal ==
    ASSUME NEW S, NEW T, IsFiniteSet(T), S \subseteq T, NEW h, NEW G, IsSum(G, h, T)
    PROVE  Total(h, S) = G[S]
<1>1. IsFiniteSet(S)
  BY FS_Subset
<1>2. PICK F : IsSum(F, h, S)
  BY <1>1, SumsExist
<1>3. \A E : IsSum(E, h, S) => E[S] = F[S]
  BY <1>1, <1>2, SumsAgree
<1>4. Total(h, S) = (CHOOSE E : IsSum(E, h, S))[S]
  BY DEF Total, SumFunctionOnSet, FoldFunctionOnSet, MapThenFoldSet, IsSum, Some
<1>5. Total(h, S) = F[S]
  BY <1>2, <1>3, <1>4
<1>6. F[S] = G[S]
  BY <1>1, <1>2, SumsAgree
<1> QED
  BY <1>5, <1>6

LEMMA TotalEmpty == ASSUME NEW h PROVE Total(h, {}) = 0
<1>1. IsFiniteSet({})
  BY FS_EmptySet
<1>2. PICK G : IsSum(G, h, {})
  BY <1>1, SumsExist
<1> QED
  BY <1>1, <1>2, SumIsTotal, SumStep

LEMMA TotalSome ==
    ASSUME NEW S, IsFiniteSet(S), S # {}, NEW h
    PROVE  Total(h, S) = h[Some(S)] + Total(h, S \ {Some(S)})
<1>1. PICK G : IsSum(G, h, S)
  BY SumsExist
<1>2. Total(h, S) = G[S] /\ Total(h, S \ {Some(S)}) = G[S \ {Some(S)}]
  BY <1>1, SumIsTotal
<1>3. G[S] = IF S = {} THEN 0 ELSE h[Some(S)] + G[S \ {Some(S)}]
  BY <1>1, SumStep
<1> QED
  BY <1>2, <1>3

\* Only the values on the set count.
LEMMA TotalSame ==
    ASSUME NEW S, IsFiniteSet(S), NEW h, NEW g, \A x \in S : h[x] = g[x]
    PROVE  Total(h, S) = Total(g, S)
<1>1. PICK F : IsSum(F, h, S)
  BY SumsExist
<1>2. IsSum(F, g, S)
  <2>1. \A s \in SUBSET S : s # {} => h[Some(s)] = g[Some(s)]
    BY SomeIn
  <2> QED
    BY <1>1, <2>1 DEF IsSum
<1>3. S \subseteq S
  OBVIOUS
<1> QED
  BY <1>1, <1>2, <1>3, SumIsTotal

LEMMA TotalInt ==
    ASSUME NEW S, IsFiniteSet(S), NEW h, \A x \in S : h[x] \in Int
    PROVE  Total(h, S) \in Int
<1> DEFINE B == {s \in SUBSET S : Total(h, s) \notin Int}
<1> SUFFICES ASSUME B # {} PROVE FALSE
  OBVIOUS
<1>1. PICK s \in B : IsFiniteSet(s) /\ \A t \in SUBSET s : t # s => t \notin B
  <2> HIDE DEF B
  <2>1. B \in SUBSET (SUBSET S)
    BY DEF B
  <2> QED
    BY <2>1, HasMinimal
<1>2. s # {}
  BY TotalEmpty
<1>3. Some(s) \in s /\ Total(h, s) = h[Some(s)] + Total(h, s \ {Some(s)})
  BY <1>1, <1>2, SomeIn, TotalSome
<1>4. Total(h, s \ {Some(s)}) \in Int
  BY <1>1, <1>3
<1> QED
  BY <1>3, <1>4

\* The elements may be added in any order.
LEMMA TotalTake ==
    ASSUME NEW S, IsFiniteSet(S), NEW h, \A x \in S : h[x] \in Int, NEW x \in S
    PROVE  Total(h, S) = h[x] + Total(h, S \ {x})
<1> DEFINE B == {s \in SUBSET S : \E y \in s : Total(h, s) # h[y] + Total(h, s \ {y})}
<1> SUFFICES ASSUME B # {} PROVE FALSE
  OBVIOUS
<1>1. PICK s \in B : IsFiniteSet(s) /\ \A t \in SUBSET s : t # s => t \notin B
  <2> HIDE DEF B
  <2>1. B \in SUBSET (SUBSET S)
    BY DEF B
  <2> QED
    BY <2>1, HasMinimal
<1>2. PICK y \in s : Total(h, s) # h[y] + Total(h, s \ {y})
  OBVIOUS
<1> DEFINE c == Some(s)
           sy == s \ {y}
           sc == s \ {c}
           both == (s \ {y}) \ {c}
<1>3. c \in s /\ Total(h, s) = h[c] + Total(h, sc)
  BY <1>1, SomeIn, TotalSome
<1>4. c # y
  BY <1>2, <1>3
<1>5. Total(h, sc) = h[y] + Total(h, both)
  <2>1. sc \in SUBSET s /\ sc # s /\ y \in sc /\ sc \ {y} = both
    BY <1>3, <1>4
  <2> HIDE DEF sc, both
  <2> QED
    BY <1>1, <2>1
<1>6. Total(h, sy) = h[c] + Total(h, both)
  <2>1. sy \in SUBSET s /\ sy # s /\ c \in sy /\ sy \ {c} = both
    BY <1>3, <1>4
  <2> HIDE DEF sy, both, c
  <2> QED
    BY <1>1, <2>1
<1>7. Total(h, both) \in Int /\ h[c] \in Int /\ h[y] \in Int
  <2>1. both \in SUBSET S /\ c \in S /\ y \in S
    BY <1>3
  <2> HIDE DEF both, c
  <2>2. IsFiniteSet(both) /\ \A z \in both : h[z] \in Int
    BY <2>1, FS_Subset
  <2> QED
    BY <2>1, <2>2, TotalInt
<1> HIDE DEF c, sy, sc, both
<1>8. Total(h, s) = h[y] + Total(h, sy)
  BY <1>3, <1>5, <1>6, <1>7
<1> QED
  BY <1>2, <1>8 DEF sy

LEMMA TotalZero ==
    ASSUME NEW S, IsFiniteSet(S), NEW h, \A x \in S : h[x] = 0
    PROVE  Total(h, S) = 0
<1> DEFINE B == {s \in SUBSET S : Total(h, s) # 0}
<1> SUFFICES ASSUME B # {} PROVE FALSE
  OBVIOUS
<1>1. PICK s \in B : IsFiniteSet(s) /\ \A t \in SUBSET s : t # s => t \notin B
  <2> HIDE DEF B
  <2>1. B \in SUBSET (SUBSET S)
    BY DEF B
  <2> QED
    BY <2>1, HasMinimal
<1>2. s # {}
  BY TotalEmpty
<1>3. Some(s) \in s /\ Total(h, s) = h[Some(s)] + Total(h, s \ {Some(s)})
  BY <1>1, <1>2, SomeIn, TotalSome
<1>4. Total(h, s \ {Some(s)}) = 0
  BY <1>1, <1>3
<1> QED
  BY <1>3, <1>4

\* A set has as many elements as ones add up to.
LEMMA CountIsTotal ==
    ASSUME NEW S, IsFiniteSet(S), NEW h, \A x \in S : h[x] = 1
    PROVE  Cardinality(S) = Total(h, S)
<1> DEFINE B == {s \in SUBSET S : Cardinality(s) # Total(h, s)}
<1> SUFFICES ASSUME B # {} PROVE FALSE
  OBVIOUS
<1>1. PICK s \in B : IsFiniteSet(s) /\ \A t \in SUBSET s : t # s => t \notin B
  <2> HIDE DEF B
  <2>1. B \in SUBSET (SUBSET S)
    BY DEF B
  <2> QED
    BY <2>1, HasMinimal
<1>2. s # {}
  BY TotalEmpty, FS_EmptySet
<1>3. Some(s) \in s /\ Total(h, s) = h[Some(s)] + Total(h, s \ {Some(s)})
  BY <1>1, <1>2, SomeIn, TotalSome
<1>4. Cardinality(s \ {Some(s)}) = Total(h, s \ {Some(s)})
  BY <1>1, <1>3
<1>5. Cardinality(s \ {Some(s)}) = Cardinality(s) - 1 /\ Cardinality(s) \in Nat
  BY <1>1, <1>3, FS_RemoveElement, FS_CardinalityType
<1> QED
  BY <1>3, <1>4, <1>5

\* Whole tenths: what is cut off an element is less than one.
LEMMA CutOff ==
    ASSUME NEW S, IsFiniteSet(S), NEW h, NEW g,
           \A x \in S : h[x] \in Int /\ g[x] = h[x] \div 10
    PROVE  /\ Total(h, S) \in Int /\ Total(g, S) \in Int
           /\ 10 * Total(g, S) <= Total(h, S)
           /\ Total(h, S) <= 10 * Total(g, S) + 9 * Cardinality(S)
<1>0. \A n \in Int : n \div 10 \in Int /\ 10 * (n \div 10) <= n /\ n <= 10 * (n \div 10) + 9
  OBVIOUS
<1>1. \A s \in SUBSET S : /\ IsFiniteSet(s) /\ Cardinality(s) \in Nat
                          /\ Total(h, s) \in Int /\ Total(g, s) \in Int
  BY <1>0, FS_Subset, FS_CardinalityType, TotalInt
<1> DEFINE Cut(s) == /\ 10 * Total(g, s) <= Total(h, s)
                     /\ Total(h, s) <= 10 * Total(g, s) + 9 * Cardinality(s)
           B == {s \in SUBSET S : ~Cut(s)}
<1> SUFFICES ASSUME B # {} PROVE FALSE
  BY <1>1
<1>2. PICK s \in B : IsFiniteSet(s) /\ \A t \in SUBSET s : t # s => t \notin B
  <2> HIDE DEF B
  <2>1. B \in SUBSET (SUBSET S)
    BY DEF B
  <2> QED
    BY <2>1, HasMinimal
<1>3. s # {}
  <2>1. Total(h, {}) = 0 /\ Total(g, {}) = 0 /\ Cardinality({}) = 0
    BY TotalEmpty, FS_EmptySet
  <2>2. Cut({})
    BY <2>1
  <2> HIDE DEF Cut
  <2> QED
    BY <2>2
<1> DEFINE x == Some(s)
           r == s \ {x}
<1>4. x \in s /\ Total(h, s) = h[x] + Total(h, r) /\ Total(g, s) = g[x] + Total(g, r)
  BY <1>2, <1>3, SomeIn, TotalSome
<1>5. r \in SUBSET S /\ Cut(r)
  BY <1>2, <1>4
<1>6. Cardinality(r) = Cardinality(s) - 1
  BY <1>2, <1>4, FS_RemoveElement
<1>7. x \in S /\ h[x] \in Int /\ g[x] = h[x] \div 10 /\ s \in SUBSET S
  BY <1>4
<1> HIDE DEF x, r
<1>8. /\ h[x] \in Int /\ g[x] \in Int /\ 10 * g[x] <= h[x] /\ h[x] <= 10 * g[x] + 9
  BY <1>0, <1>7
<1>9. Cut(s)
  BY <1>1, <1>4, <1>5, <1>6, <1>7, <1>8
<1> QED
  BY <1>9

\* Adding up by groups adds up all.
LEMMA TotalByGroup ==
    ASSUME NEW S, IsFiniteSet(S), NEW h, \A x \in S : h[x] \in Int,
           NEW V, IsFiniteSet(V), NEW g, \A x \in S : g[x] \in V
    PROVE  Total([v \in V |-> Total(h, {x \in S : g[x] = v})], V) = Total(h, S)
<1> DEFINE In(s, v) == {x \in s : g[x] = v}
           Groups(s) == [v \in V |-> Total(h, In(s, v))]
           B == {s \in SUBSET S : Total(Groups(s), V) # Total(h, s)}
<1> SUFFICES ASSUME B # {} PROVE FALSE
  OBVIOUS
<1>1. PICK s \in B : IsFiniteSet(s) /\ \A t \in SUBSET s : t # s => t \notin B
  <2> HIDE DEF B
  <2>1. B \in SUBSET (SUBSET S)
    BY DEF B
  <2> QED
    BY <2>1, HasMinimal
<1>2. s # {}
  <2> SUFFICES ASSUME s = {} PROVE FALSE
    OBVIOUS
  <2>1. \A v \in V : In(s, v) = {}
    OBVIOUS
  <2>2. \A v \in V : Groups(s)[v] = 0
    BY <2>1, TotalEmpty
  <2> HIDE DEF Groups
  <2>3. Total(Groups(s), V) = 0
    BY <2>2, TotalZero
  <2> QED
    BY <2>3, TotalEmpty
<1> DEFINE x == Some(s)
           r == s \ {x}
<1>3. x \in s /\ Total(h, s) = h[x] + Total(h, r)
  BY <1>1, <1>2, SomeIn, TotalSome
<1>4. Total(Groups(r), V) = Total(h, r)
  BY <1>1, <1>3
<1>5. \A t \in SUBSET S, v \in V :
         /\ IsFiniteSet(In(t, v)) /\ In(t, v) \in SUBSET S
         /\ Groups(t)[v] = Total(h, In(t, v)) /\ Groups(t)[v] \in Int
  <2> SUFFICES ASSUME NEW t \in SUBSET S, NEW v \in V
               PROVE  IsFiniteSet(In(t, v)) /\ Total(h, In(t, v)) \in Int
    OBVIOUS
  <2>1. In(t, v) \in SUBSET S
    OBVIOUS
  <2> HIDE DEF In
  <2> QED
    BY <2>1, FS_Subset, TotalInt
<1>6. r \in SUBSET S /\ s \in SUBSET S /\ x \in S /\ g[x] \in V /\ h[x] \in Int
  BY <1>3
<1>7. \A v \in V \ {g[x]} : In(s, v) = In(r, v)
  BY <1>3
<1>8. x \in In(s, g[x]) /\ In(s, g[x]) \ {x} = In(r, g[x])
  BY <1>3
<1> HIDE DEF x, r, In
<1>9. Groups(s)[g[x]] = h[x] + Groups(r)[g[x]]
  <2>1. Total(h, In(s, g[x])) = h[x] + Total(h, In(s, g[x]) \ {x})
    BY <1>5, <1>6, <1>8, TotalTake
  <2> QED
    BY <1>5, <1>6, <1>8, <2>1
<1>10. \A v \in V \ {g[x]} : Groups(s)[v] = Groups(r)[v]
  BY <1>5, <1>6, <1>7
<1> HIDE DEF Groups
<1>11. IsFiniteSet(V \ {g[x]})
  BY FS_Subset
<1>12. Total(Groups(s), V \ {g[x]}) = Total(Groups(r), V \ {g[x]})
  BY <1>10, <1>11, TotalSame
<1>13. \A t \in SUBSET S : Total(Groups(t), V) =
                            Groups(t)[g[x]] + Total(Groups(t), V \ {g[x]})
  <2> SUFFICES ASSUME NEW t \in SUBSET S
               PROVE  Total(Groups(t), V) = Groups(t)[g[x]] + Total(Groups(t), V \ {g[x]})
    OBVIOUS
  <2> DEFINE G == Groups(t)
  <2>1. \A v \in V : G[v] \in Int
    BY <1>5
  <2> HIDE DEF G
  <2>2. Total(G, V) = G[g[x]] + Total(G, V \ {g[x]})
    BY <2>1, <1>6, TotalTake
  <2> QED
    BY <2>2 DEF G
<1>14. Total(Groups(r), V \ {g[x]}) \in Int /\ Groups(r)[g[x]] \in Int
  BY <1>5, <1>6, <1>11, TotalInt
<1>15. Total(Groups(s), V) = h[x] + Total(Groups(r), V)
  <2>1. /\ Total(Groups(s), V) = Groups(s)[g[x]] + Total(Groups(s), V \ {g[x]})
        /\ Total(Groups(r), V) = Groups(r)[g[x]] + Total(Groups(r), V \ {g[x]})
    BY <1>6, <1>13
  <2>2. \A a, b, c \in Int : (a + b) + c = a + (b + c)
    OBVIOUS
  <2>3. Total(Groups(s), V) = (h[x] + Groups(r)[g[x]]) + Total(Groups(r), V \ {g[x]})
    BY <2>1, <1>9, <1>12
  <2> QED
    BY <2>1, <2>2, <2>3, <1>6, <1>14
<1> QED
  BY <1>3, <1>4, <1>15

-----------------------------------------------------------------------------
(* AuditQuery.                                                             *)

RecordsRead == recs \in Seq(Record)

LEMMA Places ==
    ASSUME RecordsRead
    PROVE  /\ DOMAIN recs = 1..Len(recs) /\ Len(recs) \in Nat
           /\ \A i \in DOMAIN recs : recs[i] \in Record
           /\ IsFiniteSet(DOMAIN recs) /\ Cardinality(DOMAIN recs) = Len(recs)
<1>1. /\ DOMAIN recs = 1..Len(recs) /\ Len(recs) \in Nat
      /\ \A i \in DOMAIN recs : recs[i] \in Record
  BY DEF RecordsRead
<1>2. 1 \in Int /\ Len(recs) \in Int
  BY <1>1
<1>3. Cardinality(1..Len(recs)) = IF 1 > Len(recs) THEN 0 ELSE Len(recs) - 1 + 1
  BY <1>2, FS_Interval
<1> QED
  BY <1>1, <1>2, <1>3, FS_Interval

\* The values a function takes on a finite set are finitely many.
LEMMA ValuesFinite ==
    ASSUME NEW S, IsFiniteSet(S), NEW g
    PROVE  IsFiniteSet({g[x] : x \in S})
<1> DEFINE f == [x \in S |-> g[x]]
           V == {g[x] : x \in S}
<1>1. f \in Surjection(S, V)
  BY DEF Surjection
<1> HIDE DEF f
<1> QED
  BY <1>1, FS_Surjection

LEMMA SumIs == ASSUME NEW f PROVE SumFunction(f) = Total(f, DOMAIN f)
BY DEF SumFunction, Total

\* A table of counts counts every record once.
LEMMA CountsAddUp ==
    ASSUME RecordsRead, NEW field
    PROVE  /\ SumFunction(CountBy(field)) = Len(recs)
           /\ IsFiniteSet(DOMAIN CountBy(field))
           /\ \A v \in DOMAIN CountBy(field) : CountBy(field)[v] \in Nat
<1> DEFINE D == DOMAIN recs
           g == [i \in D |-> recs[i][field]]
           one == [i \in D |-> 1]
           V == {g[i] : i \in D}
           In(v) == {i \in D : g[i] = v}
           groups == [v \in V |-> Total(one, In(v))]
<1>1. IsFiniteSet(D) /\ Cardinality(D) = Len(recs)
  BY Places
<1>2. IsFiniteSet(V)
  <2> HIDE DEF D, g
  <2> QED
    BY <1>1, ValuesFinite
<1>3. CountBy(field) = [v \in V |-> Cardinality(In(v))]
  BY DEF CountBy
<1>4. \A v : In(v) \in SUBSET D
  OBVIOUS
<1>5. \A x \in D : one[x] = 1 /\ one[x] \in Int /\ g[x] \in V
  OBVIOUS
<1>6. Total(groups, V) = Total(one, D)
  <2> HIDE DEF D, g, one, V
  <2> QED
    BY <1>1, <1>2, <1>5, TotalByGroup
<1> HIDE DEF D, g, one, V, In
<1>7. \A v : IsFiniteSet(In(v))
  BY <1>1, <1>4, FS_Subset
<1>8. \A v \in V : CountBy(field)[v] = groups[v]
  BY <1>3, <1>4, <1>5, <1>7, CountIsTotal
<1>9. Cardinality(D) = Total(one, D)
  BY <1>1, <1>5, CountIsTotal
<1> HIDE DEF groups
<1>10. Total(CountBy(field), V) = Total(groups, V)
  BY <1>2, <1>8, TotalSame
<1>11. DOMAIN CountBy(field) = V
  BY <1>3
<1>12. \A v \in V : CountBy(field)[v] \in Nat
  BY <1>3, <1>7, FS_CardinalityType
<1> QED
  BY <1>1, <1>2, <1>6, <1>9, <1>10, <1>11, <1>12, SumIs

\* Without the records of one value there is less to count.
LEMMA CountsWithout ==
    ASSUME RecordsRead, NEW field, NEW v
    PROVE  LET c == CountBy(field) IN
           SumFunction([m \in DOMAIN c \ {v} |-> c[m]]) <= Len(recs)
<1> DEFINE c == CountBy(field)
           V == DOMAIN c
           part == [m \in V \ {v} |-> c[m]]
<1>1. /\ SumFunction(c) = Len(recs) /\ Len(recs) \in Nat
      /\ IsFiniteSet(V) /\ \A m \in V : c[m] \in Nat
  BY CountsAddUp, Places
<1> HIDE DEF c
<1>2. IsFiniteSet(V \ {v}) /\ DOMAIN part = V \ {v}
  BY <1>1, FS_Subset
<1>3. Total(part, V \ {v}) = Total(c, V \ {v}) /\ Total(c, V \ {v}) \in Int
  <2>1. \A m \in V \ {v} : part[m] = c[m] /\ c[m] \in Int
    BY <1>1
  <2> HIDE DEF part, V
  <2> QED
    BY <1>2, <2>1, TotalSame, TotalInt
<1>4. Total(c, V) = Len(recs)
  BY <1>1, SumIs
<1>5. CASE v \in V
  <2>1. Total(c, V) = c[v] + Total(c, V \ {v})
    BY <1>1, <1>5, TotalTake
  <2>2. c[v] \in Nat
    BY <1>1, <1>5
  <2>3. Total(part, V \ {v}) <= Len(recs)
    BY <1>1, <1>3, <1>4, <2>1, <2>2
  <2> QED
    BY <1>2, <2>3, SumIs DEF c
<1>6. CASE v \notin V
  <2>1. V \ {v} = V
    BY <1>6
  <2>2. Total(part, V \ {v}) <= Len(recs)
    BY <1>1, <1>3, <1>4, <2>1
  <2> QED
    BY <1>2, <2>2, SumIs DEF c
<1> QED
  BY <1>5, <1>6

\* The credits per key add up to those billed, which the total of whole
\* credits falls short of by less than one credit a record.
LEMMA CreditsAddUp ==
    ASSUME RecordsRead
    PROVE  LET credits == SumFunction(LogStat.creditByKey) IN
           /\ 10 * LogStat.creditTotal <= credits
           /\ credits <= 10 * LogStat.creditTotal + 9 * Cardinality(Billed)
<1> DEFINE D == DOMAIN recs
           h == [i \in D |-> recs[i].credit]
           w == [i \in D |-> recs[i].credit \div 10]
           g == [i \in D |-> recs[i].key]
           V == {g[i] : i \in Billed}
           groups == [v \in V |-> Total(h, {i \in Billed : g[i] = v})]
<1>1. Billed \in SUBSET D
  BY DEF Billed, Where
<1>2. IsFiniteSet(Billed)
  <2>1. IsFiniteSet(D)
    BY Places
  <2> HIDE DEF D
  <2> QED
    BY <1>1, <2>1, FS_Subset
<1>3. \A i \in Billed : /\ h[i] \in Int /\ w[i] = h[i] \div 10 /\ g[i] \in V
                        /\ g[i] = recs[i].key
  BY <1>1, Places, CreditsAssumption DEF Record
<1>4. LogStat.creditTotal = Total(w, Billed)
  BY DEF LogStat, WholeCreditOf, Total
<1>5. LogStat.creditByKey = [k \in {recs[i].key : i \in Billed} |->
                                Total(h, {i \in Billed : recs[i].key = k})]
  BY DEF LogStat, CreditOf, Total
<1> HIDE DEF h, w, g
<1>6. V = {recs[i].key : i \in Billed}
  BY <1>3
<1>7. \A k : {i \in Billed : recs[i].key = k} = {i \in Billed : g[i] = k}
  BY <1>3
<1>8. LogStat.creditByKey = groups /\ DOMAIN groups = V
  <2> DEFINE A(k) == {i \in Billed : recs[i].key = k}
             B(k) == {i \in Billed : g[i] = k}
  <2>1. /\ LogStat.creditByKey = [k \in {recs[i].key : i \in Billed} |-> Total(h, A(k))]
        /\ groups = [k \in V |-> Total(h, B(k))]
    BY <1>5
  <2>2. \A k : A(k) = B(k)
    BY <1>7
  <2> HIDE DEF A, B, groups, V
  <2> QED
    BY <1>6, <2>1, <2>2
<1>9. IsFiniteSet(V)
  BY <1>2, ValuesFinite
<1>10. Total(groups, V) = Total(h, Billed)
  <2> HIDE DEF V
  <2> QED
    BY <1>2, <1>3, <1>9, TotalByGroup
<1>11. /\ 10 * Total(w, Billed) <= Total(h, Billed)
       /\ Total(h, Billed) <= 10 * Total(w, Billed) + 9 * Cardinality(Billed)
  BY <1>2, <1>3, CutOff
<1> HIDE DEF groups, V
<1>12. SumFunction(LogStat.creditByKey) = Total(h, Billed)
  BY <1>8, <1>10, SumIs
<1> QED
  BY <1>4, <1>11, <1>12

\* Whatever the records, the tables of `log stat` add up.
LEMMA StatOfRecords == ASSUME RecordsRead PROVE StatAddsUp
<1> DEFINE S == LogStat
<1>1. /\ S.total = Len(recs) /\ S.byDay = CountBy("day") /\ S.byKey = CountBy("key")
      /\ S.byStatus = CountBy("status") /\ S.success = Cardinality(Where(Success))
      /\ S.byModel = [m \in DOMAIN CountBy("model") \ {NoModel} |-> CountBy("model")[m]]
  BY DEF LogStat
<1>2. /\ SumFunction(S.byDay) = S.total /\ SumFunction(S.byKey) = S.total
      /\ SumFunction(S.byStatus) = S.total
  BY <1>1, CountsAddUp
<1>3. SumFunction(S.byModel) <= S.total
  <2>1. SumFunction([m \in DOMAIN CountBy("model") \ {NoModel} |-> CountBy("model")[m]])
            <= Len(recs)
    BY CountsWithout
  <2> HIDE DEF S
  <2> QED
    BY <1>1, <2>1
<1>4. S.success <= S.total
  <2>1. Where(Success) \in SUBSET (DOMAIN recs)
    BY DEF Where
  <2> QED
    BY <1>1, <2>1, Places, FS_Subset
<1>5. /\ 10 * S.creditTotal <= SumFunction(S.creditByKey)
      /\ SumFunction(S.creditByKey) <= 10 * S.creditTotal + 9 * Cardinality(Billed)
  BY CreditsAddUp
<1> QED
  BY <1>2, <1>3, <1>4, <1>5 DEF StatAddsUp

-----------------------------------------------------------------------------
\* What the loop of `log tail` has kept after each record.
Keeps(F, f, N) ==
    F = [n \in 0..N |->
            IF n = 0 THEN <<>>
            ELSE IF Matches(recs[n], f) THEN Append(F[n - 1], recs[n]) ELSE F[n - 1]]

LEMMA KeepsStep ==
    ASSUME NEW F, NEW f, NEW N \in Nat, Keeps(F, f, N), NEW n \in 0..N
    PROVE  F[n] = IF n = 0 THEN <<>>
                  ELSE IF Matches(recs[n], f) THEN Append(F[n - 1], recs[n]) ELSE F[n - 1]
BY DEF Keeps

\* There is one such account of the loop.
LEMMA KeepsExists ==
    ASSUME NEW f, NEW N \in Nat
    PROVE  \E F : Keeps(F, f, N)
<1> DEFINE B == {n \in Nat : ~\E F : Keeps(F, f, n)}
<1> SUFFICES ASSUME B # {} PROVE FALSE
  OBVIOUS
<1>1. PICK n \in B : \A m \in B : n <= m
  <2>1. B \in SUBSET Nat
    OBVIOUS
  <2> HIDE DEF B
  <2> QED
    BY <2>1, HasLeast
<1>2. n # 0
  <2> DEFINE F == [m \in 0..0 |-> <<>>]
  <2>1. Keeps(F, f, 0)
    BY DEF Keeps
  <2> HIDE DEF F
  <2> QED
    BY <2>1
<1>3. n - 1 \in Nat /\ n \in Nat /\ n - 1 \notin B
  BY <1>1, <1>2
<1>4. PICK G : Keeps(G, f, n - 1)
  BY <1>3
<1> DEFINE F == [m \in 0..n |->
                   IF m = n
                     THEN IF Matches(recs[n], f) THEN Append(G[n - 1], recs[n]) ELSE G[n - 1]
                     ELSE G[m]]
<1>5. \A m \in 0..(n - 1) : F[m] = G[m]
  BY <1>3
<1>6. \A m \in 0..n : F[m] =
         IF m = 0 THEN <<>>
         ELSE IF Matches(recs[m], f) THEN Append(F[m - 1], recs[m]) ELSE F[m - 1]
  <2>1. ASSUME NEW m \in 0..n, m # n
        PROVE  F[m] = IF m = 0 THEN <<>>
               ELSE IF Matches(recs[m], f) THEN Append(F[m - 1], recs[m]) ELSE F[m - 1]
    <3>1. m \in 0..(n - 1) /\ (m # 0 => m - 1 \in 0..(n - 1))
      BY <2>1, <1>3
    <3> HIDE DEF F
    <3> QED
      BY <1>3, <1>4, <1>5, <3>1, KeepsStep
  <2>2. F[n] = IF Matches(recs[n], f) THEN Append(F[n - 1], recs[n]) ELSE F[n - 1]
    <3>1. n - 1 \in 0..(n - 1) /\ n \in 0..n
      BY <1>2, <1>3
    <3> QED
      BY <1>5, <3>1
  <2> HIDE DEF F
  <2> QED
    BY <1>2, <2>1, <2>2
<1>7. Keeps(F, f, n)
  <2>1. F = [m \in 0..n |-> F[m]]
    OBVIOUS
  <2> HIDE DEF F
  <2> QED
    BY <1>6, <2>1 DEF Keeps
<1> QED
  BY <1>7

\* The matches among the first n records, and those of them after the i-th.
Hits(f, n) == {i \in 1..n : Matches(recs[i], f)}
Later(f, n, i) == {h \in Hits(f, n) : h > i}

\* What is kept after n records are the matches among them, in their order.
KeptRight(F, f, n) ==
    /\ F[n] \in Seq(Record)
    /\ Len(F[n]) = Cardinality(Hits(f, n))
    /\ \A j \in 1..Len(F[n]) :
          \E i \in Hits(f, n) : /\ recs[i] = F[n][j]
                                /\ Cardinality(Later(f, n, i)) = Len(F[n]) - j

LEMMA HitsFinite ==
    ASSUME NEW f, NEW n \in Nat
    PROVE  /\ IsFiniteSet(Hits(f, n)) /\ Cardinality(Hits(f, n)) \in Nat
           /\ Cardinality(Hits(f, n)) <= n
           /\ \A i : IsFiniteSet(Later(f, n, i)) /\ Cardinality(Later(f, n, i)) \in Nat
<1>1. IsFiniteSet(1..n) /\ Cardinality(1..n) = n
  <2>1. 1 \in Int /\ n \in Int
    OBVIOUS
  <2>2. Cardinality(1..n) = IF 1 > n THEN 0 ELSE n - 1 + 1
    BY <2>1, FS_Interval
  <2> QED
    BY <2>1, <2>2, FS_Interval
<1>2. Hits(f, n) \in SUBSET (1..n)
  BY DEF Hits
<1>3. \A i : Later(f, n, i) \in SUBSET Hits(f, n)
  BY DEF Later
<1> QED
  BY <1>1, <1>2, <1>3, FS_Subset, FS_CardinalityType

LEMMA KeptMatches ==
    ASSUME RecordsRead, NEW f, NEW F, Keeps(F, f, Len(recs))
    PROVE  \A n \in 0..Len(recs) : KeptRight(F, f, n)
<1>0. Len(recs) \in Nat /\ \A i \in 1..Len(recs) : recs[i] \in Record
  BY Places
<1> DEFINE B == {n \in 0..Len(recs) : ~KeptRight(F, f, n)}
<1> SUFFICES ASSUME B # {} PROVE FALSE
  OBVIOUS
<1>1. PICK n \in B : \A m \in B : n <= m
  <2>1. B \in SUBSET Nat
    BY <1>0
  <2> HIDE DEF B
  <2> QED
    BY <2>1, HasLeast
<1>2. n \in 0..Len(recs) /\ n \in Nat /\ ~KeptRight(F, f, n)
  BY <1>0
<1>3. n # 0
  <2>1. F[0] = <<>>
    BY <1>0, KeepsStep
  <2>2. Hits(f, 0) = {} /\ Cardinality(Hits(f, 0)) = 0
    BY FS_EmptySet DEF Hits
  <2>3. KeptRight(F, f, 0)
    BY <2>1, <2>2 DEF KeptRight
  <2> QED
    BY <1>2, <2>3
<1> DEFINE m == n - 1
<1>4. m \in Nat /\ m \in 0..Len(recs) /\ n = m + 1 /\ n \in 1..Len(recs)
  BY <1>0, <1>2, <1>3
<1>5. KeptRight(F, f, m)
  <2>1. m \notin B
    BY <1>1, <1>4
  <2> QED
    BY <1>4, <2>1
<1>6. F[n] = IF Matches(recs[n], f) THEN Append(F[m], recs[n]) ELSE F[m]
  BY <1>0, <1>2, <1>3, KeepsStep
<1> HIDE DEF m, B
<1>7. CASE ~Matches(recs[n], f)
  <2>1. Hits(f, n) = Hits(f, m)
    BY <1>4, <1>7 DEF Hits
  <2>2. \A i : Later(f, n, i) = Later(f, m, i)
    BY <2>1 DEF Later
  <2>3. F[n] = F[m]
    BY <1>6, <1>7
  <2> QED
    BY <1>2, <1>5, <2>1, <2>2, <2>3 DEF KeptRight
<1>8. CASE Matches(recs[n], f)
  <2>1. Hits(f, n) = Hits(f, m) \cup {n} /\ n \notin Hits(f, m)
    BY <1>4, <1>8 DEF Hits
  <2>2. Cardinality(Hits(f, n)) = Cardinality(Hits(f, m)) + 1
    BY <1>4, <2>1, HitsFinite, FS_AddElement
  <2>3. F[n] = Append(F[m], recs[n]) /\ F[m] \in Seq(Record) /\ recs[n] \in Record
    BY <1>0, <1>4, <1>5, <1>6, <1>8 DEF KeptRight
  <2>4. /\ F[n] \in Seq(Record) /\ Len(F[n]) = Len(F[m]) + 1 /\ Len(F[m]) \in Nat
        /\ F[n][Len(F[m]) + 1] = recs[n]
        /\ \A j \in 1..Len(F[m]) : F[n][j] = F[m][j]
    BY <2>3
  <2>5. ASSUME NEW j \in 1..Len(F[m])
        PROVE  \E i \in Hits(f, n) : /\ recs[i] = F[n][j]
                                      /\ Cardinality(Later(f, n, i)) = Len(F[n]) - j
    <3>1. PICK i \in Hits(f, m) : /\ recs[i] = F[m][j]
                                  /\ Cardinality(Later(f, m, i)) = Len(F[m]) - j
      BY <1>5 DEF KeptRight
    <3>2. Later(f, n, i) = Later(f, m, i) \cup {n} /\ n \notin Later(f, m, i)
      BY <1>4, <2>1, <3>1 DEF Later, Hits
    <3>3. Cardinality(Later(f, n, i)) = Cardinality(Later(f, m, i)) + 1
      BY <1>4, <3>2, HitsFinite, FS_AddElement
    <3>4. i \in Hits(f, n) /\ recs[i] = F[n][j]
      BY <2>1, <2>4, <3>1
    <3>5. Cardinality(Later(f, n, i)) = Len(F[n]) - j
      BY <2>4, <3>1, <3>3
    <3> QED
      BY <3>4, <3>5
  <2>6. n \in Hits(f, n) /\ Cardinality(Later(f, n, n)) = 0
    <3>1. Later(f, n, n) = {}
      BY <1>4 DEF Later, Hits
    <3> QED
      BY <2>1, <3>1, FS_EmptySet
  <2>7. Len(F[n]) = Cardinality(Hits(f, n))
    BY <1>5, <2>2, <2>4 DEF KeptRight
  <2>8. ASSUME NEW j \in 1..Len(F[n])
        PROVE  \E i \in Hits(f, n) : /\ recs[i] = F[n][j]
                                      /\ Cardinality(Later(f, n, i)) = Len(F[n]) - j
    <3>1. CASE j \in 1..Len(F[m])
      BY <2>5, <3>1
    <3>2. CASE j = Len(F[m]) + 1
      BY <2>4, <2>6, <3>2
    <3> QED
      BY <2>4, <3>1, <3>2
  <2> QED
    BY <1>2, <2>4, <2>7, <2>8 DEF KeptRight
<1> QED
  BY <1>7, <1>8

\* What `log tail` has kept when its loop ends.
LEMMA MatchingRight ==
    ASSUME RecordsRead, NEW f
    PROVE  LET all == Matching(f)
               hits == {i \in DOMAIN recs : Matches(recs[i], f)}
           IN  /\ all \in Seq(Record)
               /\ Len(all) = Cardinality(hits) /\ Len(all) <= Len(recs)
               /\ \A j \in 1..Len(all) :
                     \E i \in hits : /\ recs[i] = all[j]
                                     /\ Cardinality({h \in hits : h > i}) = Len(all) - j
<1> DEFINE N == Len(recs)
<1>1. N \in Nat /\ DOMAIN recs = 1..N /\ N \in 0..N
  BY Places
<1>2. PICK G : Keeps(G, f, N)
  BY <1>1, KeepsExists
<1> DEFINE F == CHOOSE G2 : Keeps(G2, f, N)
<1>3. Matching(f) = F[N]
  BY DEF Matching, Keeps
<1>4. Keeps(F, f, N)
  BY <1>2
<1> HIDE DEF F
<1>5. KeptRight(F, f, N)
  BY <1>1, <1>4, KeptMatches
<1>6. {i \in DOMAIN recs : Matches(recs[i], f)} = Hits(f, N)
  BY <1>1 DEF Hits
<1>7. \A i : {h \in Hits(f, N) : h > i} = Later(f, N, i)
  BY DEF Later
<1>8. Cardinality(Hits(f, N)) <= N
  BY <1>1, HitsFinite
<1> QED
  BY <1>3, <1>5, <1>6, <1>7, <1>8 DEF KeptRight

\* Whatever the records, `log tail` shows the newest that match.
LEMMA TailOfRecords == ASSUME RecordsRead PROVE TailShowsNewest
<1> SUFFICES ASSUME NEW f \in Filters
             PROVE  LET t == LogTail(f)
                        hits == {i \in DOMAIN recs : Matches(recs[i], f)}
                    IN  /\ t.count <= Shown
                        /\ ~t.limited => t.count = Cardinality(hits)
                        /\ \A j \in DOMAIN t.records :
                              \E i \in hits :
                                  /\ recs[i] = t.records[j]
                                  /\ Cardinality({h \in hits : h > i}) = t.count - j
  BY DEF TailShowsNewest
<1> DEFINE all == Matching(f)
           L == Len(all)
           n == IF L > Shown THEN Shown ELSE L
           hits == {i \in DOMAIN recs : Matches(recs[i], f)}
           After(i) == {h \in hits : h > i}
           shown == SubSeq(all, L - n + 1, L)
<1>1. /\ LogTail(f).records = shown /\ LogTail(f).count = n
      /\ LogTail(f).limited = (Len(recs) > Shown)
  BY DEF LogTail
<1>2. /\ all \in Seq(Record) /\ L = Cardinality(hits) /\ L <= Len(recs)
      /\ \A j \in 1..L : \E i \in hits : recs[i] = all[j] /\ Cardinality(After(i)) = L - j
  BY MatchingRight
<1> HIDE DEF all, hits, After
<1>3. L \in Nat /\ Shown \in Nat /\ Len(recs) \in Nat /\ n \in Nat /\ n <= L /\ n <= Shown
  BY <1>2, ShownAssumption, Places
<1>4. ~(Len(recs) > Shown) => n = L
  BY <1>2, <1>3
<1> HIDE DEF n
<1>5. /\ DOMAIN shown = 1..n
      /\ \A j \in 1..n : shown[j] = all[L - n + j] /\ L - n + j \in 1..L
  <2>1. \A j \in 1..n : L - n + j \in 1..L
    BY <1>3
  <2>2. L - n + 1 \in 1..(L + 1) /\ L - n \in Int /\ L \in L - n + 1 - 1 .. L
    BY <1>3
  <2>3. /\ shown \in Seq(Record)
        /\ Len(shown) = IF L - n + 1 <= L THEN L - (L - n + 1) + 1 ELSE 0
        /\ \A i \in 1..(L - (L - n + 1) + 1) : shown[i] = all[(L - n + 1) + i - 1]
    BY <1>2, <1>3, <2>2, SubSeqProperties
  <2>4. L - (L - n + 1) + 1 = n /\ (L - n + 1 <= L <=> n > 0)
    BY <1>3
  <2> HIDE DEF shown
  <2>5. Len(shown) = n /\ DOMAIN shown = 1..n
    BY <1>3, <2>3, <2>4
  <2>6. \A j \in 1..n : (L - n + 1) + j - 1 = L - n + j
    BY <1>3
  <2> QED
    BY <2>1, <2>3, <2>4, <2>5, <2>6
<1> HIDE DEF shown, L
<1>6. ASSUME NEW j \in 1..n
      PROVE  \E i \in hits : recs[i] = shown[j] /\ Cardinality(After(i)) = n - j
  <2>1. PICK i \in hits : /\ recs[i] = all[L - n + j]
                          /\ Cardinality(After(i)) = L - (L - n + j)
    BY <1>2, <1>5
  <2>2. L - (L - n + j) = n - j
    BY <1>3
  <2> QED
    BY <1>5, <2>1, <2>2
<1> QED
  BY <1>1, <1>2, <1>3, <1>4, <1>5, <1>6 DEF hits, After

THEOREM RecordsKeepType == QuerySpec => []RecordsRead
<1>1. QueryInit => RecordsRead
  BY DEF QueryInit, RecordsRead
<1>2. RecordsRead /\ [QueryNext]_recs => RecordsRead'
  BY DEF RecordsRead, QueryNext, ReadRecord
<1> QED
  BY <1>1, <1>2, PTL DEF QuerySpec

\* `log tail` shows the newest records that match, for any records and -n.
THEOREM NewestAreShown == QuerySpec => []TailShowsNewest
BY RecordsKeepType, TailOfRecords, PTL

\* The tables of `log stat` add up, for any records.
THEOREM StatsAddUp == QuerySpec => []StatAddsUp
BY RecordsKeepType, StatOfRecords, PTL
=============================================================================

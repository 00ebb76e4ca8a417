------------------------------ MODULE Admission ------------------------------
(***************************************************************************)
(* Who may send a request (guard/proxy.go, guard/ipfilter.go): the global  *)
(* lists of guard.json, reloaded when the file changes, the list of the    *)
(* key, and the number of addresses a key may be used from within the      *)
(* window, which is counted in memory only.                                *)
(*                                                                         *)
(* The steps are those of newGuard and ServeHTTP.  newGuard reads           *)
(* guard.json, and then takes its modification time for that of what it    *)
(* has read.  A request stats the file, reads it and stamps it under one   *)
(* hold of g.mu, then takes a slot, looks at the lists as they are by      *)
(* then, and is counted under g.mu later: other requests, saves and other  *)
(* reloads are between any two of these steps.                             *)
(*                                                                         *)
(* Abstractions: a CIDR is a name with the set of addresses it covers, or  *)
(* text that is none.  Slots, token, expiry, model and quota are choices   *)
(* of the environment; keys.json, reloaded in the same hold of g.mu, is    *)
(* Gateway's.  /healthz, OPTIONS and the panel's page are served before    *)
(* any of these checks and are left out.                                   *)
(***************************************************************************)
EXTENDS Integers, FiniteSets

CONSTANTS
    Requests,   \* requests being admitted
    Keys,
    Addresses,
    NoAddress,  \* RemoteAddr that net.ParseIP does not take
    Nets,       \* texts in the lists
    Covers,     \* the addresses of each text that is a CIDR
    Policies,   \* what guard.json may hold: [allow, deny] sets of Nets
    MaxIPs,     \* max_ips of each key; 0 is no limit
    IPAllow,    \* ip_allow of each key
    Window,     \* 86400 seconds
    MaxTime     \* bound: the clock stops here

ASSUME AddressAssumption == NoAddress \notin Addresses
ASSUME NetsAssumption == DOMAIN Covers \subseteq Nets
ASSUME TimeAssumption == Window \in Nat /\ MaxTime \in Nat
ASSUME MaxIPsAssumption == MaxIPs \in [Keys -> Nat]

Nobody == "nobody"      \* no request holds g.mu across a reload

ASSUME NobodyAssumption == Nobody \notin Requests

VARIABLES
    clock,
    guardFile,  \* guard.json
    stamped,    \* g.mtimePol is the modification time of guard.json
    statted,    \* the mtime a reload under way has read is still the file's
    lists,      \* g.allow and g.deny, compiled
    mu,         \* the request that holds g.mu across a reload, or Nobody
    daemon,     \* down, loaded (newGuard has read the file), up
    ipSeen,     \* for each key the addresses it was used from, and when
    req,        \* each request: where it is, its key and its address
    missed,     \* history: a save or a failed read has slipped past the stamp,
                \* and nothing was loaded since
    misled,     \* history: requests that could not learn that the file changed
    outrun,     \* history: requests that had the lists before the last save
    admitted    \* history: key, address and time of every place of the last window

store == <<stamped, statted, lists, mu>>
places == <<ipSeen, admitted>>
admissionVars == <<clock, guardFile, store, daemon, places, req, missed, misled, outrun>>

Sources == Addresses \cup {NoAddress}

\* compileCIDRs: one text that is no CIDR spoils the list.
Compiles(nets) == nets \subseteq DOMAIN Covers
Good(policy) == Compiles(policy.allow) /\ Compiles(policy.deny)

\* matchAny
MatchAny(nets, a) == \E n \in nets \cap DOMAIN Covers : a \in Covers[n]

NotSeen == [a \in {} |-> 0]
NoRequest == [at |-> "idle"]

Stages == {"loading", "stamping", "entered", "listed", "placed"}
Judged == {"listed", "placed"}

AdmissionTypeOK ==
    /\ clock \in 0..MaxTime
    /\ guardFile \in Policies
    /\ lists \in Policies /\ Good(lists)
    /\ {stamped, statted, missed} \subseteq BOOLEAN
    /\ mu \in Requests \cup {Nobody}
    /\ daemon \in {"down", "loaded", "up"}
    /\ ipSeen \in [Keys -> UNION {[S -> 0..MaxTime] : S \in SUBSET Sources}]
    /\ req \in [Requests -> {NoRequest} \cup [at : Stages, key : Keys, from : Sources]]
    /\ misled \subseteq Requests /\ outrun \subseteq Requests
    /\ admitted \subseteq Keys \X Sources \X (0..MaxTime)

Free == mu = Nobody

AdmissionInit ==
    /\ clock = 0
    /\ guardFile \in {p \in Policies : Good(p)}
    /\ lists = guardFile
    /\ stamped = TRUE /\ statted = FALSE /\ missed = FALSE
    /\ mu = Nobody
    /\ daemon = "up"
    /\ ipSeen = [k \in Keys |-> NotSeen]
    /\ req = [r \in Requests |-> NoRequest]
    /\ misled = {} /\ outrun = {} /\ admitted = {}

-----------------------------------------------------------------------------
Second ==
    /\ clock < MaxTime
    /\ clock' = clock + 1
    /\ admitted' = {e \in admitted : clock' - e[3] <= Window}
    /\ UNCHANGED <<guardFile, store, daemon, ipSeen, req, missed, misled, outrun>>

\* `policy set` saves lists that compile; a person may write others by hand.
\* On a coarse clock (jffs2 counts seconds) the new file may get the old
\* one's time, and newGuard's stamp takes any time for that of what it read.
WritePolicy(p) ==
    /\ guardFile' = p
    /\ \/ /\ stamped' = FALSE /\ statted' = FALSE
          /\ missed' = (daemon = "loaded")
       \/ /\ missed' = (stamped \/ statted \/ daemon = "loaded")
          /\ UNCHANGED <<stamped, statted>>
    /\ outrun' = {r \in Requests : req[r].at \notin {"idle", "loading"}}
    /\ UNCHANGED <<clock, lists, mu, daemon, places, req, misled>>

Reach(r, stage) == req' = [req EXCEPT ![r].at = stage]

\* The handler returns.
Leave(r) ==
    /\ req' = [req EXCEPT ![r] = NoRequest]
    /\ misled' = misled \ {r} /\ outrun' = outrun \ {r}

\* A request comes in and takes g.mu in reloadIfChanged: os.Stat.  A time
\* that is the recorded one, and a stat that fails, leave the lists alone.
Arrive(r, k, a) ==
    /\ daemon = "up" /\ Free
    /\ req[r].at = "idle"
    /\ \/ /\ ~stamped
          /\ req' = [req EXCEPT ![r] = [at |-> "loading", key |-> k, from |-> a]]
          /\ statted' = TRUE /\ mu' = r
          /\ UNCHANGED misled
       \/ /\ req' = [req EXCEPT ![r] = [at |-> "entered", key |-> k, from |-> a]]
          /\ misled' = IF stamped /\ ~missed THEN misled ELSE misled \cup {r}
          /\ UNCHANGED <<statted, mu>>
    /\ UNCHANGED <<clock, guardFile, stamped, lists, daemon, places, missed, outrun>>

\* Variant of Reloaded: recompile is left to the next change of keys.json.
ReloadedLater == lists

\* recompile: lists that do not compile change nothing.
Reloaded == IF Good(guardFile) THEN guardFile ELSE lists

\* loadPolicy and recompile, still under g.mu.
LoadPolicy(r) ==
    /\ req[r].at = "loading"
    /\ lists' = Reloaded
    /\ missed' = FALSE
    /\ Reach(r, "stamping")
    /\ UNCHANGED <<clock, guardFile, stamped, statted, mu, daemon, places, misled, outrun>>

\* loadPolicy fails: the lists stay, and the time is recorded all the same.
LoadPolicyFails(r) ==
    /\ req[r].at = "loading"
    /\ missed' = statted
    /\ misled' = misled \cup {r}
    /\ Reach(r, "stamping")
    /\ UNCHANGED <<clock, guardFile, store, daemon, places, outrun>>

\* The time os.Stat had seen is recorded, loaded or not, and g.mu released.
Stamp(r) ==
    /\ req[r].at = "stamping"
    /\ stamped' = statted /\ statted' = FALSE
    /\ mu' = Nobody
    /\ Reach(r, "entered")
    /\ UNCHANGED <<clock, guardFile, lists, daemon, places, missed, misled, outrun>>

\* 503: no slot is free.
TurnedAway(r) ==
    /\ req[r].at = "entered"
    /\ Leave(r)
    /\ UNCHANGED <<clock, guardFile, store, daemon, places, missed>>

\* The lists in force now, then the key's own, which is passed over when it
\* does not compile.  An address that did not parse is not looked at.
Denied(a) == a # NoAddress /\ MatchAny(lists.deny, a)
NotAllowed(a) == a # NoAddress /\ lists.allow # {} /\ ~MatchAny(lists.allow, a)
KeyRefuses(k, a) ==
    a # NoAddress /\ IPAllow[k] # {} /\ Compiles(IPAllow[k]) /\ ~MatchAny(IPAllow[k], a)
Refused(k, a) == Denied(a) \/ NotAllowed(a) \/ KeyRefuses(k, a)

\* 403 or 401: the request leaves no trace in ipSeen.
RefuseByList(r) ==
    /\ req[r].at = "entered" /\ Free
    /\ Refused(req[r].key, req[r].from)
    /\ Leave(r)
    /\ UNCHANGED <<clock, guardFile, store, daemon, places, missed>>

PassLists(r) ==
    /\ req[r].at = "entered" /\ Free
    /\ ~Refused(req[r].key, req[r].from)
    /\ Reach(r, "listed")
    /\ UNCHANGED <<clock, guardFile, store, daemon, places, missed, misled, outrun>>

\* Variant of Fresh: an address exactly one window old is dropped.
FreshBefore(k) == {a \in DOMAIN ipSeen[k] : clock - ipSeen[k][a] < Window}

\* now - t > 86400 drops an address.
Fresh(k) == {a \in DOMAIN ipSeen[k] : clock - ipSeen[k][a] <= Window}

\* Variant of HasPlace: an address that is known is counted again.
HasPlaceOnce(k, a) == Cardinality(Fresh(k)) < MaxIPs[k]

HasPlace(k, a) == a \in Fresh(k) \/ Cardinality(Fresh(k)) < MaxIPs[k]

\* checkIPLimit, under g.mu: the old addresses go, and this one is noted.
TakePlace(r) ==
    LET k == req[r].key
        a == req[r].from
    IN  /\ req[r].at = "listed" /\ Free
        /\ MaxIPs[k] > 0 => HasPlace(k, a)
        /\ Reach(r, "placed")
        /\ IF MaxIPs[k] > 0
             THEN /\ ipSeen' = [ipSeen EXCEPT ![k] =
                         [b \in Fresh(k) \cup {a} |->
                             IF b = a THEN clock ELSE ipSeen[k][b]]]
                  /\ admitted' = admitted \cup {<<k, a, clock>>}
             ELSE UNCHANGED places
        /\ UNCHANGED <<clock, guardFile, store, daemon, missed, misled, outrun>>

\* All places are taken: 403; the old addresses are gone all the same.
RefusePlace(r) ==
    LET k == req[r].key
    IN  /\ req[r].at = "listed" /\ Free
        /\ MaxIPs[k] > 0 /\ ~HasPlace(k, req[r].from)
        /\ Leave(r)
        /\ ipSeen' = [ipSeen EXCEPT ![k] = [a \in Fresh(k) |-> ipSeen[k][a]]]
        /\ UNCHANGED <<clock, guardFile, store, daemon, admitted, missed>>

\* The request is forwarded, or refused for its body, model or quota: either
\* way its address keeps the place.
Done(r) ==
    /\ req[r].at = "placed"
    /\ Leave(r)
    /\ UNCHANGED <<clock, guardFile, store, daemon, places, missed>>

\* The daemon ends, and with it what it has counted and stamped.
Stop ==
    /\ daemon # "down"
    /\ daemon' = "down"
    /\ stamped' = FALSE /\ statted' = FALSE /\ missed' = FALSE
    /\ mu' = Nobody
    /\ req' = [r \in Requests |-> NoRequest]
    /\ ipSeen' = [k \in Keys |-> NotSeen]
    /\ misled' = {} /\ outrun' = {} /\ admitted' = {}
    /\ UNCHANGED <<clock, guardFile, lists>>

\* newGuard reads guard.json: one that does not compile keeps the daemon down ...
BootLoad ==
    /\ daemon = "down" /\ Good(guardFile)
    /\ daemon' = "loaded"
    /\ lists' = guardFile
    /\ missed' = FALSE
    /\ UNCHANGED <<clock, guardFile, stamped, statted, mu, places, req, misled, outrun>>

\* ... and stampMtime records its modification time afterwards.
BootStamp ==
    /\ daemon = "loaded"
    /\ daemon' = "up"
    /\ stamped' = TRUE
    /\ UNCHANGED <<clock, guardFile, statted, lists, mu, places, req, missed, misled, outrun>>

AdmissionNext ==
    \/ Second \/ Stop \/ BootLoad \/ BootStamp
    \/ \E p \in Policies : WritePolicy(p)
    \/ \E r \in Requests :
          \/ \E k \in Keys, a \in Sources : Arrive(r, k, a)
          \/ LoadPolicy(r) \/ LoadPolicyFails(r) \/ Stamp(r) \/ TurnedAway(r)
          \/ RefuseByList(r) \/ PassLists(r)
          \/ TakePlace(r) \/ RefusePlace(r) \/ Done(r)

AdmissionSpec == AdmissionInit /\ [][AdmissionNext]_admissionVars

-----------------------------------------------------------------------------
\* The addresses a key was let in from within the window that ends now.
Recent(k) == {e[2] : e \in {d \in admitted : d[1] = k}}

\* Within any window no key is used from more addresses than it may be, as
\* long as the daemon is not restarted, also by requests that overlap.
AddressesBounded ==
    \A k \in Keys : MaxIPs[k] > 0 => Cardinality(Recent(k)) <= MaxIPs[k]

\* A client whose address was let in within the window is let in again: no
\* other address takes its place.
KnownAddressStays ==
    [][\A r \in Requests :
          req[r].at = "listed" /\ daemon' = "up" /\ req'[r].at = "idle" =>
              req[r].from \notin Recent(req[r].key)]_admissionVars

\* No request is past the lists that the lists now in guard.json, if they
\* compile, would have refused, also when another request has reloaded them in
\* between, a bad file came and went, or the daemon was restarted.  Except:
\* the file was saved after the request's own os.Stat and read (outrun); or
\* the request could not learn of a change (misled), because its stat or read
\* failed, or because a change has had the old time, came before newGuard's
\* stamp or was stamped without being read, and nobody has reloaded since.
JudgedByFile ==
    \A r \in Requests \ (outrun \cup misled) :
        req[r].at \in Judged /\ req[r].from # NoAddress /\ Good(guardFile) =>
            /\ ~MatchAny(guardFile.deny, req[r].from)
            /\ guardFile.allow # {} => MatchAny(guardFile.allow, req[r].from)
=============================================================================

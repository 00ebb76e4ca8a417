------------------------------- MODULE MCParts -------------------------------
(***************************************************************************)
(* Small instances for TLC of five parts that share no state with each     *)
(* other: Config, Admission, Tail, AuditQuery and Channel.  A behaviour is *)
(* one of any of them; the other four stand still at an initial state.     *)
(***************************************************************************)
EXTENDS Config, Admission, Tail, AuditQuery, Channel, TLC

VARIABLE part

configIdle == UNCHANGED configVars
admissionIdle == UNCHANGED admissionVars
tailIdle == UNCHANGED tailVars
queryIdle == UNCHANGED recs
channelIdle == UNCHANGED channelVars

PartsInit ==
    /\ part \in {"config", "admission", "tail", "query", "channel"}
    /\ ConfigInit /\ AdmissionInit /\ TailInit /\ QueryInit /\ ChannelInit
    /\ part # "config" => disk = Absent
    /\ part # "admission" => guardFile.allow = {}
    /\ upload["action"] # NoText /\ \A a \in Accounts : auths[a] = 1

PartsNext ==
    /\ UNCHANGED part
    /\ \/ /\ part = "config" /\ ConfigNext
          /\ admissionIdle /\ tailIdle /\ queryIdle /\ channelIdle
       \/ /\ part = "admission" /\ AdmissionNext
          /\ configIdle /\ tailIdle /\ queryIdle /\ channelIdle
       \/ /\ part = "tail" /\ TailNext
          /\ configIdle /\ admissionIdle /\ queryIdle /\ channelIdle
       \/ /\ part = "query" /\ QueryNext
          /\ configIdle /\ admissionIdle /\ tailIdle /\ channelIdle
       \/ /\ part = "channel" /\ ChannelNext
          /\ configIdle /\ admissionIdle /\ tailIdle /\ queryIdle

PartsSpec ==
    PartsInit /\ [][PartsNext]_<<part, configVars, admissionVars, tailVars, recs, channelVars>>

\* Runs of cfg render, requests and posts have the same two names, and which is
\* which decides nothing.
MCSymmetry == Permutations(Renderers)

-----------------------------------------------------------------------------
\* Config: an int of seven bits, on which 2 days are the last that fit, and a
\* float that holds whole numbers up to 8, and the even ones after it.
MCFloat(n) == IF n \in -8 .. 8 THEN n ELSE 2 * (n \div 2)

Good1 == [port |-> 7830, rate |-> [n |-> 2, unit |-> "d"],
          hours |-> <<21, 9, 9>>, window |-> Off]

MCSettings ==
    {Good1,
     [port |-> 65535, rate |-> [n |-> 30, unit |-> "d"], hours |-> <<>>,
      window |-> [n |-> 3, unit |-> "ms"]],
     [Good1 EXCEPT !.port = 0],
     [Good1 EXCEPT !.rate = [n |-> 0, unit |-> "m"]],
     [Good1 EXCEPT !.hours = <<9, 24>>],
     [Good1 EXCEPT !.window = Bad]}

\* Fields of another program beside ours, at the top and in a section that was
\* set by hand, a number that a float does not hold and one that it does; a
\* section that is no object, and an object in the place of one of our fields.
MCEdits ==
    {Object([n \in {"theme", "cooldown", "pool", "listen"} |->
                CASE n = "theme" -> Number(9)
                  [] n = "cooldown" -> Object([m \in {"soft_rate", "note"} |->
                         IF m = "note" THEN Number(7) ELSE Leaf(Bad)])
                  [] n = "pool" -> Leaf("none")
                  [] n = "listen" -> Object([m \in {"host"} |-> Leaf("any")])])}

\* Admission: a net for each address, and a text that is none; k1 may be used
\* from one address, k2 from any in its own list.
MCCovers == [n \in {"lan", "host"} |-> IF n = "lan" THEN {"b"} ELSE {"a"}]
MCPolicies ==
    {[allow |-> {"lan"}, deny |-> {}], [allow |-> {}, deny |-> {"lan"}],
     [allow |-> {"junk"}, deny |-> {}]}
MCMaxIPs == [k \in {"k1", "k2"} |-> IF k = "k1" THEN 1 ELSE 0]
MCIPAllow == [k \in {"k1", "k2"} |-> IF k = "k1" THEN {} ELSE {"host"}]

\* Tail: the bytes of an answer, of which the first two begin the usage.
MCMarker == <<"u", "s">>

\* AuditQuery: a credit not returned, one below and one above a whole credit.
MCCredits == {-1, 7, 14}
=============================================================================

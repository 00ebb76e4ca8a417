----------------------------- MODULE MCService -----------------------------
(* Small instances of Service for TLC. *)
EXTENDS Service

\* Enabled and watched; another port, open to the WAN, with other settings;
\* settings that do not render, without firewall and watchdog.
First == [enable |-> TRUE, watchdog |-> TRUE, firewall |-> TRUE, wan |-> FALSE,
          port |-> "p1", ver |-> "v1"]
Second == [First EXCEPT !.wan = TRUE, !.port = "p2", !.ver = "v2"]
Refused == [First EXCEPT !.ver = "bad", !.firewall = FALSE, !.watchdog = FALSE]
MCSettings == {First, Second, Refused, [First EXCEPT !.enable = FALSE]}

\* A behaviour begins with the first port; a save leads to the second.
MCInit == Init /\ dbus.port = "p1"
MCSpec == MCInit /\ [][Next]_vars /\ Fairness
=============================================================================

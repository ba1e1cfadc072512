---------------------------- MODULE MCInventory ----------------------------
(* Instances of Inventory for TLC. *)
EXTENDS Inventory

\* Options of a motherboard with two zones, among them connectors of system and
\* of CPU fans, one that there is not, and speeds at the limits.
MCFanOptions ==
  {[kind |-> "cooling", value |-> v] : v \in {"passive", "active"}}
    \cup {[kind |-> "list", zone |-> "Chassis1", cons |-> l] : l \in {{4}, {5, 6, 9}}}
    \cup {[kind |-> "list", zone |-> "CPU", cons |-> {2, 7}]}
    \cup {[kind |-> "min", zone |-> "CPU", speed |-> s] : s \in {4, 100}}

\* One half (the other is that of J45), old style bytes for both halves and for
\* none, neither half, and two that are no modes but together make "Disabled".
MCBytes ==
  {<<"4", "F">>, <<"0", "3">>, <<"0", "F">>, <<"F", "F">>,
   <<"D", "F">>, <<"F", "D">>}
=============================================================================

----------------------------- MODULE MCBookedPlan -----------------------------
(* Three components with bookings and overrides, or one whose two hand-offs are   *)
(* issued by two re-prices, at once or one after the other.                       *)
EXTENDS BookedPlan, TLC
CONSTANTS c1, c2, c3, q1, q2, p1, p2
MCComponents == {c1, c2, c3}
MCQueries    == {q1, q2}
MCReprices   == {p1, p2}
Booking(q, acknowledged, requests) ==
  [components |-> MCComponents, queries |-> {q},
   bookings |-> acknowledged, overrides |-> requests, reprices |-> 0, handoffs |-> 0]
Opening(c, atOnce, issues) ==
  [components |-> {c}, queries |-> MCQueries,
   bookings |-> 0, overrides |-> 0, reprices |-> atOnce, handoffs |-> issues]
MCSetups == {Booking(q, 2, 1) : q \in MCQueries} \cup {Booking(q, 1, 2) : q \in MCQueries}
              \cup {Opening(c, 2, 2) : c \in MCComponents}
Symmetry == Permutations(MCComponents) \cup Permutations(MCQueries)
              \cup Permutations(MCReprices)
===============================================================================

------------------------------- MODULE PtGate -------------------------------
(***************************************************************************)
(* What a partition promises to the requests that use it: a request that   *)
(* got in works on a registered partition until it leaves, and none of its *)
(* parts is closed meanwhile.  The gate may stay open after some parts     *)
(* were closed: closing the others failed.                                 *)
(***************************************************************************)
CONSTANTS Client, Part

VARIABLES inside, open, closed

Init == inside = {} /\ open = TRUE /\ closed = {}

Enter(c) == open /\ c \notin inside /\ inside' = inside \cup {c} /\ UNCHANGED <<open, closed>>
Leave(c) == c \in inside /\ inside' = inside \ {c} /\ UNCHANGED <<open, closed>>

\* A closed part may be thrown away at any time
Discard == closed' \subseteq closed /\ UNCHANGED <<inside, open>>
\* Parts are closed, and the gate is shut, when nobody is inside
Close == inside = {} /\ closed' \subseteq Part /\ UNCHANGED <<inside, open>>
Shut == open /\ inside = {} /\ open' = FALSE /\ closed' \subseteq Part /\ UNCHANGED inside
Reopen == ~open /\ open' = TRUE /\ closed' = {} /\ UNCHANGED inside

Next == (\E c \in Client : Enter(c) \/ Leave(c)) \/ Discard \/ Close \/ Shut \/ Reopen

Spec == Init /\ [][Next]_<<inside, open, closed>>

=============================================================================

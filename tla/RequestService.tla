--------------------------- MODULE RequestService ---------------------------
(* What the patched adbd promises for a request, without how: an accepted   *)
(* request is served once, in the recovery domain, or it is given up; every *)
(* accepted request is decided one way or the other, whatever the others    *)
(* do; and what was given up is never served afterwards, unless its child   *)
(* was in the recovery domain by then and could not be called back.         *)
CONSTANT Request

VARIABLE state  \* state[x]: "none", "accepted", "placed", "served", "escaped" or "over"

Init == state = [x \in Request |-> "none"]

Move(x, from, to) == state[x] \in from /\ state' = [state EXCEPT ![x] = to]

Accept(x) == Move(x, {"none", "over"}, "accepted")

\* Its child has come to the recovery domain.
Place(x) == Move(x, {"accepted"}, "placed")

Serve(x) == Move(x, {"accepted", "placed"}, "served")

\* It is given up, but its child goes on.
Escape(x) == Move(x, {"placed", "served"}, "escaped")

End(x) == Move(x, {"accepted", "placed", "served", "escaped"}, "over")

Next == \E x \in Request : Accept(x) \/ Place(x) \/ Serve(x) \/ Escape(x) \/ End(x)

Safety == Init /\ [][Next]_state

Undecided(x) == state[x] \in {"accepted", "placed"}

Spec == Safety /\ \A x \in Request : WF_state(Undecided(x) /\ (Place(x) \/ Serve(x) \/ End(x)))
=============================================================================

---------------------------- MODULE ReleaseGate ----------------------------
(* What the build promises, without how: a run opens the gate, and only an  *)
(* image built from qualified sources, then audited, then uploaded, may be  *)
(* released, once, and only when the run asked for it.  A run may be given  *)
(* up at any point.                                                         *)
EXTENDS Naturals

VARIABLES
    phase,      \* "closed", "sources", "built", "audited", "uploaded"
    requested,  \* the current run asked for a release
    current,    \* the id of the current run
    released    \* the runs that released

gvars == <<phase, requested, current, released>>

Init ==
    /\ phase = "closed"
    /\ requested = FALSE
    /\ current = 0
    /\ released = {}

Open ==
    /\ phase = "closed"
    /\ phase' = "sources"
    /\ requested' \in BOOLEAN
    /\ current' = current + 1
    /\ UNCHANGED released

Progress(from, to) ==
    /\ phase = from
    /\ phase' = to
    /\ UNCHANGED <<requested, current, released>>

Build  == Progress("sources", "built")
Audit  == Progress("built", "audited")
Upload == Progress("audited", "uploaded")

Release ==
    /\ phase = "uploaded"
    /\ requested
    /\ released' = released \cup {current}
    /\ phase' = "closed"
    /\ UNCHANGED <<requested, current>>

GiveUp ==
    /\ phase # "closed"
    /\ phase' = "closed"
    /\ UNCHANGED <<requested, current, released>>

Next == Open \/ Build \/ Audit \/ Upload \/ Release \/ GiveUp

Spec == Init /\ [][Next]_gvars
=============================================================================

----------------------------- MODULE AtLeastOnce -----------------------------
(***************************************************************************)
(* What the spool promises (daemon/spool.rs, "at-least-once delivery"): a  *)
(* message that was read from it is delivered, however often the daemon    *)
(* dies before, and perhaps more than once.                                *)
(***************************************************************************)
CONSTANT Messages

VARIABLES
    accepted,   \* messages read from the spool
    delivered   \* messages handed to the daemon's state at least once

vars == <<accepted, delivered>>

Init == accepted = {} /\ delivered = {}

Accept(m) ==
    /\ accepted' = accepted \cup {m}
    /\ UNCHANGED delivered

\* A delivery that was made before changes nothing here.
Deliver(m) ==
    /\ m \in accepted
    /\ delivered' = delivered \cup {m}
    /\ UNCHANGED accepted

Next == \E m \in Messages : Accept(m) \/ Deliver(m)

Spec == Init /\ [][Next]_vars /\ \A m \in Messages : WF_vars(Deliver(m))
===============================================================================

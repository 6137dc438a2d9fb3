----------------------------- MODULE AuditTrail -----------------------------
(***************************************************************************)
(* What every audit log promises its callers (audit.Logger and             *)
(* audit.ChainLogger): one trail that only grows at its end, whoever       *)
(* appends to it, and a call of Log that returns without an error only     *)
(* after its entry is in the trail.                                        *)
(***************************************************************************)
EXTENDS Naturals, Sequences

CONSTANTS Writers     \* what appends to the trail

VARIABLES
    trail,            \* the entries in chain order, each named by its writer
    answered          \* the positions whose Log call returned without an error

vars == <<trail, answered>>

Init ==
    /\ trail = <<>>
    /\ answered = {}

Extend(w) ==
    /\ trail' = Append(trail, w)
    /\ UNCHANGED answered

Answer(n) ==
    /\ n \in 1..Len(trail)
    /\ answered' = answered \cup {n}
    /\ UNCHANGED trail

Next ==
    \/ \E w \in Writers : Extend(w)
    \/ \E n \in 1..Len(trail) : Answer(n)

Spec == Init /\ [][Next]_vars
=============================================================================

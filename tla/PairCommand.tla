---------------------------- MODULE PairCommand ----------------------------
(***************************************************************************)
(* What the dispatch of bimanual setpoints promises: one command at a time, *)
(* which ends only when both arms have been sent it, or in a fault that      *)
(* nothing clears.                                                          *)
(***************************************************************************)
CONSTANT Arms

VARIABLES
    phase,      \* "READY", "SENDING" or "FAULTED"
    reached     \* the arms the command under way has been sent to

vars == <<phase, reached>>

TypeOK ==
    /\ phase \in {"READY", "SENDING", "FAULTED"}
    /\ reached \subseteq Arms

Init ==
    /\ phase = "READY"
    /\ reached = {}

Launch ==
    /\ phase = "READY"
    /\ phase' = "SENDING"
    /\ reached' = {}

\* the last arm may end the command
Reach(a) ==
    /\ phase # "READY"
    /\ reached' = reached \cup {a}
    /\ \/ phase' = phase
       \/ phase = "SENDING" /\ reached' = Arms /\ phase' = "READY"

Fault ==
    /\ phase' = "FAULTED"
    /\ UNCHANGED reached

Next ==
    \/ Launch
    \/ \E a \in Arms : Reach(a)
    \/ Fault

Spec == Init /\ [][Next]_vars
=============================================================================

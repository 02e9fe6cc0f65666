------------------------------- MODULE SetpointPlan -------------------------------
(***************************************************************************)
(* What the V2 executor promises, without queues, clocks, policies or       *)
(* interpolation: a plan is a set of setpoints at distinct ticks; its past  *)
(* is never rewritten; setpoints are reached one by one, earliest first;    *)
(* motion ends in success only when the whole plan has been reached, and    *)
(* every other end asks for a safe stop.  StreamExecutor implements it.     *)
(***************************************************************************)
EXTENDS Integers

VARIABLES
    mode,     \* where the stream is in its life
    plan,     \* setpoints still to be reached, records with tick and pos
    reached,  \* tick of the setpoint motion has reached
    stop      \* a safe stop is required

vars == <<mode, plan, reached, stop>>

Before(p, t) == {s \in p : s.tick < t}

Init ==
    /\ mode = "CLOSED"
    /\ plan = {}
    /\ reached = 0
    /\ stop = FALSE

\* A new stream; one that moves cannot be replaced.
Open ==
    /\ mode # "RUNNING"
    /\ mode' = "PRIMING"
    /\ plan' = {}
    /\ reached' = 0
    /\ stop' = FALSE

\* The plan changes only from some tick on that motion has not reached.
Replan ==
    /\ mode \in {"PRIMING", "RUNNING"}
    /\ \A s, u \in plan' : s.tick = u.tick => s = u
    /\ \E at \in {s.tick : s \in plan'} :
            /\ at > reached
            /\ Before(plan', at) = Before(plan, at)
    /\ UNCHANGED <<mode, reached, stop>>

\* Motion starts before the first setpoint.
Begin ==
    /\ mode = "PRIMING"
    /\ mode' = "RUNNING"
    /\ plan # {}
    /\ \A s \in plan : s.tick > reached'
    /\ UNCHANGED <<plan, stop>>

\* The earliest setpoint is reached; the last one may complete the stream.
Reach ==
    /\ mode = "RUNNING"
    /\ \E s \in plan :
            /\ Before(plan, s.tick) = {}
            /\ plan' = plan \ {s}
            /\ reached' = s.tick
    /\ mode' = "RUNNING" \/ (plan' = {} /\ mode' = "SUCCEEDED")
    /\ stop' = stop

\* Any failure, also one found after success, asks for a safe stop.
Fail ==
    /\ mode \in {"RUNNING", "SUCCEEDED"}
    /\ mode' \in {"HOLD", "ABORTED"}
    /\ stop' = TRUE
    /\ UNCHANGED <<plan, reached>>

Next == Open \/ Replan \/ Begin \/ Reach \/ Fail

Spec == Init /\ [][Next]_vars

=============================================================================

---- MODULE MCStreamExecutor ----
EXTENDS StreamExecutor

MCCaps == [minLead |-> 3, maxLead |-> 9, timeout |-> 9, openTimeout |-> 6,
           lateness |-> 3, tracking |-> 2, maxStep |-> 2]

MCPolicies == {[minLead |-> 3, maxLead |-> 9, timeout |-> 6, lateness |-> 1,
                tracking |-> 1, maxStep |-> 2, minStart |-> 1]}
====

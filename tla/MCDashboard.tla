----------------------------- MODULE MCDashboard -----------------------------
EXTENDS Dashboard

\* One that runs until it is told, one that stops after its frame or in time.
MCOptions == [a \in Apps |-> IF a = "a" THEN [forever |-> TRUE, frames_max |-> 0]
                                       ELSE [forever |-> FALSE, frames_max |-> 1]]
=============================================================================

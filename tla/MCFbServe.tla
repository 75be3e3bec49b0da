------------------------------ MODULE MCFbServe ------------------------------
EXTENDS FbServe

\* Against a limit of 3: short, exactly at the limit, beyond it, with a body.
MCRequests ==
    {[kind |-> "frame", head |-> 2, total |-> 2], [kind |-> "frame", head |-> 2, total |-> 3],
     [kind |-> "frame", head |-> 4, total |-> 4], [kind |-> "health", head |-> 3, total |-> 3],
     [kind |-> "post", head |-> 1, total |-> 2]}
     \cup {[kind |-> k, head |-> 1, total |-> 1] : k \in {"bad", "other"}}
=============================================================================

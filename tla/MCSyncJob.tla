------------------------------ MODULE MCSyncJob ------------------------------
(* Model values and definitions that instantiate SyncJob for TLC.          *)
EXTENDS SyncJob

CONSTANTS e1, e2, a1, a2

MCOwner == [a \in {a1, a2} |-> IF a = a1 THEN e1 ELSE e2]
\* Both apps come from e1's apply file; e2 creates none.
MCOwnerShared == [a \in {a1, a2} |-> e1]
MCPolicyMatched == [e \in {e1, e2} |-> "matched"]
MCPolicyMixed == [e \in {e1, e2} |-> IF e = e1 THEN "matched" ELSE "none"]
=============================================================================

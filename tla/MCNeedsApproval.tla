--------------------------- MODULE MCNeedsApproval ---------------------------
(* Instantiates NeedsApproval for TLC: one plugin, two modules, and        *)
(* permissions that differ only in is_read, arguments or secrets; two app *)
(* names.                                                                  *)
EXTENDS NeedsApproval

CONSTANTS l1, l2, n1, n2

MCPerm(m, r, a, s) == [plugin |-> "exec.in", method |-> m, isRead |-> r, args |-> a, secrets |-> s]

MCPerms == {MCPerm("run", Nil, <<>>, <<>>), MCPerm("run", TRUE, <<>>, <<>>),
            MCPerm("run", FALSE, <<>>, <<>>), MCPerm("run", Nil, <<"ls">>, <<>>),
            MCPerm("run", Nil, <<>>, <<<<"k">>>>)}
=============================================================================

---------------------------- MODULE MCDiscovery ----------------------------
(* An instance of Resolve, and of the Discovery it extends, for TLC: two      *)
(* nodes of one name.  The first has an address without a route, a slow one   *)
(* and a quick one; the second has none.                                      *)
EXTENDS Resolve, TLC

CONSTANTS n1, n2, a, far, slow, name

MCName == [n \in Nodes |-> name]
MCAddr == n1 :> <<far, slow, a>> @@ n2 :> <<>>
=============================================================================

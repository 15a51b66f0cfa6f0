----------------------------- MODULE MCSendFiles -----------------------------
(* Instances of SendFiles for TLC: names that collide. *)
EXTENDS SendFiles, TLC

CONSTANTS p1, p2, p3, f1, f2

Requests == File \X (0..Retries)
(* x, and x_1, which is the first alternative of x.                          *)
Colliding == [u \in Requests |-> IF u[1] = 1 THEN <<p1, p2, p3>> ELSE <<p2, p3>>]
Bytes == [u \in Requests |-> <<f1, f2>>[u[1]]]
=============================================================================

----------------------------- MODULE MCSessions -----------------------------
(* Small instances of UploadSessions.                                        *)
EXTENDS UploadSessions, TLC

CONSTANTS r1, r2, u1, u2, a, p0, p1, f, g

(* The contents f and g differ; where both have a chunk, the two chunks have *)
(* the same length, but for the last one of LensLast.                        *)
LensEqual == [x \in Files |-> <<1>>]
LensLast == [x \in Files |-> IF x = f THEN <<1, 1>> ELSE <<1, 2>>]
LensEmpty == [x \in Files |-> IF x = f THEN <<1>> ELSE <<>>]
LensNone == [x \in Files |-> <<>>]
CandidatesTwo == [n \in Names |-> <<p0, p1>>]
CandidatesOne == [n \in Names |-> <<p0>>]
Symmetric == Permutations(Req)
=============================================================================

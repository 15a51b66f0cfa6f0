------------------------------- MODULE MCRelay -------------------------------
(* An instance of WebRelay: a text or a file of a remote page, to two         *)
(* machines, one of which is listed under its former uuid as well.            *)
EXTENDS WebRelay, TLC

CONSTANTS here, one, two, page, tab, r1, e1, e2, e2old

MCHome == (page :> here) @@ (tab :> one)
MCFrom == r1 :> page
MCHost == (e1 :> one) @@ (e2 :> two) @@ (e2old :> two)
MCMessages == [of : {r1}, whole : BOOLEAN]
=============================================================================

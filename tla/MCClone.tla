------------------------------ MODULE MCClone ------------------------------
(* A disk that is cloned to another. *)
EXTENDS Clone

CONSTANTS d1, d2, b1, b2, c1, c2

OneWay == {<<d1, d2>>}
=============================================================================

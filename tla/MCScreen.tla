------------------------------ MODULE MCScreen ------------------------------
(***************************************************************************)
(* Screen on three by two pixels, with calls that start left of it or      *)
(* above it, on it, and so far right that a sum overflows.                 *)
(***************************************************************************)
EXTENDS Screen

MCCoords == {-1, 1, 7}
MCNear == {-1, 1}
MCLengths == {-1, 1, 2, 7}
=============================================================================

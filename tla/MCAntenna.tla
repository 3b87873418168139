------------------------------ MODULE MCAntenna ------------------------------
(***************************************************************************)
(* Small instances of Antenna for TLC: three duty cycles, and encoder      *)
(* positions on both sides of zero.  Both limits are reached, moves        *)
(* overshoot them, and a fast move of two ticks from the upper limit       *)
(* overflows the int (IntMax = 4).                                         *)
(***************************************************************************)
EXTENDS Antenna

ThreePositions == {-1, 0, 1}
TwoPositions == {0, 1}
=============================================================================

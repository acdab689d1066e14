---------------------------- MODULE Quantisation ----------------------------
(***************************************************************************)
(* Packed floats (ship-swarm/quantisation.h) and the messages made of      *)
(* them (ship-swarm/protocol.cpp).  A float is an integer here, in some    *)
(* unit, and a float that was unpacked is told in units of 1/range of it,  *)
(* so that both are exact.  Rounding of the float arithmetic itself is     *)
(* left out; for the inputs, which are -1, 0 and 1, there is none.         *)
(***************************************************************************)
EXTENDS Integers

Steps(num_bits) == 2^num_bits - 1

Clamp(v, lo, hi) == IF v < lo THEN lo ELSE IF v > hi THEN hi ELSE v

\* Conversion to an integer cuts the fraction off.
PackFloat(v, lo, hi, range) == (range * (Clamp(v, lo, hi) - lo)) \div (hi - lo)

UnpackFloat(c, lo, hi, range) == c * (hi - lo) + lo * range

-----------------------------------------------------------------------------
(* An input: two packed floats of four bits between -1 and 1 in one byte *)

PackInput(v) == PackFloat(v, -1, 1, 15)

SendEntityInput(thr, steer) == PackInput(thr) * 16 + PackInput(steer)

\* Fault: the neutral value is unpacked like any other.
UnpackPlainly(c) == UnpackFloat(c, -1, 1, 15)

\* No c is unpacked to 0, which is packed like the value just below it: that c
\* is taken for 0.
UnpackInput(c) == IF c = PackInput(0) THEN 0 ELSE UnpackFloat(c, -1, 1, 15)

\* In units of 1/15.
DeserializeEntityInput(byte) ==
  <<UnpackInput(byte \div 16), UnpackInput(byte % 16)>>

-----------------------------------------------------------------------------
(* A snapshot: x, y and the angle, within -world..world and -pi..pi *)

SendSnapshot(x, y, ori, world, pi) ==
  [x   |-> PackFloat(x, -world, world, Steps(11)),
   y   |-> PackFloat(y, -world, world, Steps(10)),
   ori |-> PackFloat(ori, -pi, pi, Steps(8))]

\* Each in units of 1/Steps of its bits.
DeserializeSnapshot(m, world, pi) ==
  [x   |-> UnpackFloat(m.x, -world, world, Steps(11)),
   y   |-> UnpackFloat(m.y, -world, world, Steps(10)),
   ori |-> UnpackFloat(m.ori, -pi, pi, Steps(8))]

\* TileVal: where a ship is that has left the world on one side.
TileVal(val, border) ==
  IF val < -border THEN val + 2 * border
  ELSE IF val > border THEN val - 2 * border
  ELSE val
=============================================================================

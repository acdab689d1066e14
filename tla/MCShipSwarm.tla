---------------------------- MODULE MCShipSwarm ----------------------------
(* Two clients over two handles, one ship of the server's; the host has an
   address that is refused, one that does not answer and the server's.  Of the
   snapshots those arrive that tell a client of the server's ship.  The packed
   floats are tried on places about the world. *)
EXTENDS ShipSwarm

CONSTANT e1

MCAddresses == <<Refused, Deaf, Server>>

MCInputs == {<<0, -1>>}

\* The server's ship is 0.
MCSeen == {<<e1, 0>>}

MCLeaving == {e1}

\* A place comes back less than a step below where it was, one outside the
\* world at its edge, and the edge exactly.
ASSUME PlacesComeBack ==
  LET border == 300
      pi == 31
      There(v, hi, steps) == steps * Clamp(v, -hi, hi)
      Near(v, hi, steps, back) ==
        /\ back <= There(v, hi, steps) /\ There(v, hi, steps) - back < 2 * hi
        /\ v \in {-hi, hi} => back = steps * v
  IN \A v \in (-border - 3)..(border + 3) :
       LET back == DeserializeSnapshot(SendSnapshot(v, v, v, border, pi), border, pi)
       IN /\ Near(v, border, Steps(11), back.x)
          /\ Near(v, border, Steps(10), back.y)
          /\ Near(v, pi, Steps(8), back.ori)

\* A ship that is not further out than the world is wide is put back into it,
\* and is moved by nothing or by that width.
ASSUME ShipsStayInTheWorld ==
  \A val \in -90..90 :
    /\ TileVal(val, 30) \in -30..30
    /\ (TileVal(val, 30) - val) \in {-60, 0, 60}
=============================================================================

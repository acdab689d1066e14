------------------------------ MODULE MCDotsGame ------------------------------
(* The dots game with two clients, two ids and two handles, so that one client
   can come back as a new player under the other's old handle, and two datagrams
   in flight to each, so that one can overtake the other. *)
EXTENDS DotsGame, TLC
=============================================================================

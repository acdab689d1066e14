----------------------- MODULE MCServerConnectionHub -----------------------
(* The hub with three endpoints and as many addresses plus one: a freed
   address is reused while the other records are still there. *)
EXTENDS ServerConnectionHub, TLC
=============================================================================

----------------------------- MODULE MCLobbyDots -----------------------------
(* The lobby with two clients and three addresses for their records: each can
   leave and come back, at a fresh address or at the one it had. *)
EXTENDS LobbyDots, TLC
=============================================================================

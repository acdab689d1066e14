----------------------------- MODULE MCMathDuel -----------------------------
(* The math-duel server with four clients, so that two duels can be open at
   once, three duels, so that a client can play again, and two answers.  No
   formula names a client: permuting the clients changes nothing. *)
EXTENDS MathDuel, TLC

MCAnswer == {7, 8}

ClientSymmetry == Permutations(Client)
=============================================================================

---------------------------- MODULE MCEntityEater ----------------------------
(* The game with two players, one AI entity, a clock of one second and two
   bites, so that who is devoured may have points to lose, before the game is
   over or after.  No formula names a player or a handle. *)
EXTENDS EntityEater, TLC

PlayerSymmetry == Permutations(Endpoint) \cup Permutations(Pointer)
=============================================================================

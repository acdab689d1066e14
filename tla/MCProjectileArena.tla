-------------------------- MODULE MCProjectileArena --------------------------
(* Two clients over two handles, so that one may get the other's; two shots,
   which may both hit one player and take all its health and more; and three
   snapshots, so that an older one can arrive after a newer one. *)
EXTENDS ProjectileArena, TLC

PlayerSymmetry == Permutations(Endpoint) \cup Permutations(Pointer)
=============================================================================

---------------------------- MODULE MatchMaking ----------------------------
(***************************************************************************)
(* What the math-duel server promises its players, with no vector, queue   *)
(* or flag in sight: a player waits, two players are matched, a match is   *)
(* decided once, by one of its two players, and both are free again.       *)
(* MathDuel implements it.                                                 *)
(***************************************************************************)
EXTENDS Naturals, Sequences

CONSTANT Player

VARIABLES
  waiting,   \* the players waiting for an opponent, never two
  playing,   \* the matches being played, each the set of its two players
  winners    \* the winners announced so far, oldest first

vars == <<waiting, playing, winners>>

Busy(p) == \E m \in playing : p \in m

Init ==
  /\ waiting = {}
  /\ playing = {}
  /\ winners = <<>>

Wait(p) ==
  /\ waiting = {}
  /\ ~Busy(p)
  /\ waiting' = {p}
  /\ UNCHANGED <<playing, winners>>

Match(p, q) ==
  /\ waiting = {q}
  /\ p # q
  /\ ~Busy(p)
  /\ ~Busy(q)
  /\ waiting' = {}
  /\ playing' = playing \cup {{p, q}}
  /\ UNCHANGED winners

Decide(m, p) ==
  /\ m \in playing
  /\ p \in m
  /\ playing' = playing \ {m}
  /\ winners' = Append(winners, p)
  /\ UNCHANGED waiting

Next ==
  \/ \E p \in Player : Wait(p)
  \/ \E p, q \in Player : Match(p, q)
  \/ \E m \in playing : \E p \in m : Decide(m, p)

Spec == Init /\ [][Next]_vars
============================================================================

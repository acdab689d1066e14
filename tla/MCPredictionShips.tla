------------------------- MODULE MCPredictionShips -------------------------
(* Two clients over two handles.  A moment is 200 ms: the server steps at any
   moment after the last, and ships are drawn one moment in the past.  Of the
   snapshots those arrive that tell the first client of the first ship, which
   is its own or the other's; histories of three, the least that is cut.  The
   correction of a ship that is alone in its client is tried on every history
   of three inputs. *)
EXTENDS PredictionShips

CONSTANT e1

\* The first id handed out is 0.
MCSeen == {<<e1, 0>>}

PointerSymmetry == Permutations(Pointer)

LOCAL Client == INSTANCE Reconciliation WITH
  kPredictionErrorThreshold <- 0,
  InputHistoryLimit <- 100,
  kStateHistoryLimit <- 200

LOCAL Places == {[x |-> 0, vx |-> v] : v \in -1..1} \cup {[x |-> 3, vx |-> 1]}

\* Every correction from a snapshot that is the newest so far is exact.
ASSUME CorrectionsAreExact == Client!CorrectionIsExact(Places, -1..1, 3)

\* Some correction from a snapshot that is not the newest is wrong.
ASSUME OlderSnapshotsMislead == Client!OlderSnapshotMisleads(Places, -1..1, 3)
=============================================================================

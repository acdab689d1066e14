--------------------------- MODULE Reconciliation ---------------------------
(***************************************************************************)
(* How the prediction ships' client corrects its own ship                  *)
(* (raylib-examples/prediction-ships/main.cpp): it keeps what it has       *)
(* pressed, by frame, and replays it from the ship the server tells of.    *)
(* A ship moves along one axis, in steps of one; turning, braking and the  *)
(* edge of the world are left out.  The interpolation, which overwrites    *)
(* the ship between two frames, is in PredictionShips.                     *)
(***************************************************************************)
EXTENDS Integers, Sequences, SequencesExt

CONSTANTS
  kPredictionErrorThreshold,  \* how far off, in steps
  InputHistoryLimit,  \* 100
  kStateHistoryLimit

\* With e.thr set before.
SimulateEntity(e, thr) == [x |-> e.x + e.vx + thr, vx |-> e.vx + thr]

\* A frame number beside an input, or beside the ship after it.
InputCommand(frame, thr) == [frameNumber |-> frame, thr |-> thr]
EntityState(frame, e) == [frameNumber |-> frame, e |-> e]

ClientAt(e) ==
  [e                    |-> e,
   client_frame_counter |-> 0,
   input_history        |-> <<>>,
   state_history        |-> <<>>,
   server_state         |-> EntityState(0, e),
   pending_correction   |-> FALSE]

Distance(a, b) == IF a < b THEN b - a ELSE a - b

\* A snapshot of the own ship.  The inputs are kept in the order of their frames.
OnOwnSnapshot(c, snapshot) ==
  [c EXCEPT
     !.server_state = snapshot,
     !.input_history = SelectSeq(@, LAMBDA i : i.frameNumber > snapshot.frameNumber),
     !.pending_correction =
        @ \/ Distance(c.e.x, snapshot.e.x) > kPredictionErrorThreshold]

CutTo(limit, history) ==
  IF Len(history) > limit THEN Tail(history) ELSE history

\* What was predicted from the snapshot's frame on is moved by how far it was
\* off there; it stays if that frame is not kept.
Moved(history, snapshot) ==
  LET it == SelectInSeq(history, LAMBDA s : s.frameNumber = snapshot.frameNumber)
      dx == snapshot.e.x - history[it].e.x
      dvx == snapshot.e.vx - history[it].e.vx
  IN [i \in DOMAIN history |->
        IF it = 0 \/ i < it THEN history[i]
        ELSE [history[i] EXCEPT !.e = [x |-> @.x + dx, vx |-> @.vx + dvx]]]

Replayed(e, inputs) == FoldLeft(LAMBDA s, i : SimulateEntity(s, i.thr), e, inputs)

\* One fixed step, and the frame counted after it.
SimulateWorld(c, thr) ==
  LET frame == c.client_frame_counter
      inputs == CutTo(InputHistoryLimit,
                      Append(c.input_history, InputCommand(frame, thr)))
      states == IF c.pending_correction THEN Moved(c.state_history, c.server_state)
                                        ELSE c.state_history
      e == IF c.pending_correction THEN Replayed(c.server_state.e, inputs)
                                   ELSE SimulateEntity(c.e, thr)
  IN [c EXCEPT
        !.e = e,
        !.client_frame_counter = frame + 1,
        !.input_history = inputs,
        !.state_history = CutTo(kStateHistoryLimit, Append(states, EntityState(frame, e))),
        !.pending_correction = FALSE]

-----------------------------------------------------------------------------
(* What it is for *)

\* The ship of the server, started at e, after the inputs thr.
ServerShip(e, thr) == FoldLeft(SimulateEntity, e, thr)

\* The server's snapshot of the frame k it has just stepped, k counted from 0.
SnapshotOf(e, thr, k) == EntityState(k, ServerShip(e, SubSeq(thr, 1, k + 1)))

Frames(c, thr) == FoldLeft(SimulateWorld, c, thr)

\* A client that starts at mine, steps thr, then hears of the frames told, in that
\* order, of a server whose ship started at its place, and then steps once more.
Corrected(mine, its, thr, told, last) ==
  SimulateWorld(FoldLeft(LAMBDA c, k : OnOwnSnapshot(c, SnapshotOf(its, thr, k)),
                         Frames(ClientAt(mine), thr), told),
                last)

\* If both count their frames alike and the last snapshot heard of is the newest,
\* and is far enough off, the client's ship is where the server's will be when
\* it has stepped the same inputs, whichever frames are told of; and what was
\* predicted for the snapshot's frame is what the snapshot says.
CorrectionIsExact(Places, Thrusts, n) ==
  \A mine, its \in Places, thr \in [1..n -> Thrusts], last \in Thrusts :
    \A first, k \in 0..(n - 1) :
      LET c == Corrected(mine, its, thr, <<first, k>>, last)
          snapshot == SnapshotOf(its, thr, k)
      IN /\ first <= k
         /\ Distance(Frames(ClientAt(mine), thr).e.x, snapshot.e.x)
              > kPredictionErrorThreshold
         => /\ c.e = ServerShip(its, Append(thr, last))
            /\ EntityState(k, snapshot.e) \in ToSet(c.state_history)

\* Nothing looks whether a snapshot is older than the one before: its ship is
\* taken, but the inputs since have been dropped, and the correction goes wrong.
OlderSnapshotMisleads(Places, Thrusts, n) ==
  \E mine, its \in Places, thr \in [1..n -> Thrusts], last \in Thrusts :
    \E first, k \in 0..(n - 1) :
      /\ first > k
      /\ Corrected(mine, its, thr, <<first, k>>, last).e
           # ServerShip(its, Append(thr, last))
=============================================================================

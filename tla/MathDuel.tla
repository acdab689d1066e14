------------------------------ MODULE MathDuel ------------------------------
(***************************************************************************)
(* The math-duel server (simple-examples/math-duel/server.cpp): one thread *)
(* draining a UDP socket into four globals.  A client is its IPv4 address  *)
(* and port, which is all the code compares.  UDP may lose, repeat, delay  *)
(* and reorder what a client sends, and a client is a person typing, so    *)
(* the server must cope with any datagram of any client at any time: the   *)
(* network needs no variable, a handler is simply enabled in every state.  *)
(***************************************************************************)
EXTENDS Naturals, Sequences

CONSTANTS
  Client,    \* the endpoints (address and port) datagrams come from
  Answer,    \* the integers an answer may be
  MaxDuels   \* bound of the model: duels started in one run of the server

ASSUME MaxDuelsAssumption == MaxDuels \in Nat

VARIABLES
  clients,       \* endpoints heard of, never forgotten
  duel_queue,    \* std::queue<Client> of those waiting for an opponent
  active_duels,  \* every duel ever started, in order
  announced,     \* the "MATH DUEL RESULT" broadcasts, in order
  shown          \* the last duel whose problem was sent to a client, 0: none

vars == <<clients, duel_queue, active_duels, announced, shown>>

Duel == [challenger : Client, opponent : Client, answer : Answer,
         active : BOOLEAN, solved : BOOLEAN]

Result == [duel : 1..MaxDuels, winner : Client]

TypeOK ==
  /\ clients \subseteq Client
  /\ duel_queue \in Seq(Client)
  /\ active_duels \in Seq(Duel)
  /\ Len(active_duels) <= MaxDuels
  /\ announced \in Seq(Result)
  /\ shown \in [Client -> 0..MaxDuels]

Init ==
  /\ clients = {}
  /\ duel_queue = <<>>
  /\ active_duels = <<>>
  /\ announced = <<>>
  /\ shown = [c \in Client |-> 0]

-----------------------------------------------------------------------------
Plays(c, duel) == c = duel.challenger \/ c = duel.opponent

\* The duels IsInDuel does not skip, and those of one client.
Open(duel) == duel.active /\ ~duel.solved
OpenDuels == {i \in DOMAIN active_duels : Open(active_duels[i])}
DuelsOf(c) == {i \in OpenDuels : Plays(c, active_duels[i])}

IsInDuel(c) == DuelsOf(c) # {}

\* The duel IsInDuel points at: the first the scan meets.
CurrentDuel(c) ==
  CHOOSE i \in DuelsOf(c) : \A j \in DuelsOf(c) : i <= j

\* The first packet of an endpoint registers it, before its text is read.
Register(c) == clients' = clients \cup {c}

\* Fault: whoever is popped will do.
AnyOpponent(opponent, c) == opponent \in clients \cup {c}

\* A popped opponent counts if it is registered and is not the caller.
OpponentExists(opponent, c) == opponent \in clients \cup {c} /\ opponent # c

\* Fault: the problem goes to the challenger only.
TellChallengerOnly(challenger, opponent) ==
  \E answer \in Answer :
    /\ Len(active_duels) < MaxDuels
    /\ active_duels' =
         Append(active_duels,
                [challenger |-> challenger, opponent |-> opponent,
                 answer |-> answer, active |-> TRUE, solved |-> FALSE])
    /\ shown' = [shown EXCEPT ![challenger] = Len(active_duels) + 1]

StartMathDuel(challenger, opponent) ==
  \E answer \in Answer :
    /\ Len(active_duels) < MaxDuels
    /\ active_duels' =
         Append(active_duels,
                [challenger |-> challenger, opponent |-> opponent,
                 answer |-> answer, active |-> TRUE, solved |-> FALSE])
    /\ shown' = [shown EXCEPT ![challenger] = Len(active_duels) + 1,
                              ![opponent] = Len(active_duels) + 1]

-----------------------------------------------------------------------------
(* "/mathduel".  Two faults the runs look for come first: the opponent left
   in the queue, and the caller dropped from it. *)

KeepOpponentQueued(c) ==
  /\ Register(c)
  /\ ~IsInDuel(c)
  /\ duel_queue # <<>>
  /\ OpponentExists(Head(duel_queue), c)
  /\ StartMathDuel(c, Head(duel_queue))
  /\ UNCHANGED <<duel_queue, announced>>

DropCaller(c) ==
  /\ Register(c)
  /\ ~IsInDuel(c)
  /\ duel_queue # <<>>
  /\ ~OpponentExists(Head(duel_queue), c)
  /\ duel_queue' = Tail(duel_queue)
  /\ UNCHANGED <<active_duels, announced, shown>>

RefuseMathduel(c) ==
  /\ Register(c)
  /\ IsInDuel(c)
  /\ UNCHANGED <<duel_queue, active_duels, announced, shown>>

WaitForOpponent(c) ==
  /\ Register(c)
  /\ ~IsInDuel(c)
  /\ duel_queue = <<>>
  /\ duel_queue' = Append(duel_queue, c)
  /\ UNCHANGED <<active_duels, announced, shown>>

MeetOpponent(c) ==
  /\ Register(c)
  /\ ~IsInDuel(c)
  /\ duel_queue # <<>>
  /\ OpponentExists(Head(duel_queue), c)
  /\ duel_queue' = Tail(duel_queue)
  /\ StartMathDuel(c, Head(duel_queue))
  /\ UNCHANGED announced

\* The one popped has gone or is the caller itself, who waits instead.
ReplaceInQueue(c) ==
  /\ Register(c)
  /\ ~IsInDuel(c)
  /\ duel_queue # <<>>
  /\ ~OpponentExists(Head(duel_queue), c)
  /\ duel_queue' = Append(Tail(duel_queue), c)
  /\ UNCHANGED <<active_duels, announced, shown>>

Mathduel(c) ==
  \/ RefuseMathduel(c)
  \/ WaitForOpponent(c)
  \/ MeetOpponent(c)
  \/ ReplaceInQueue(c)

-----------------------------------------------------------------------------
(* "/ans <number>" *)

\* Fault: the winner is announced and the duel left open.
LeaveDuelOpen(i) == UNCHANGED active_duels

CloseDuel(i) ==
  active_duels' = [active_duels EXCEPT ![i].solved = TRUE, ![i].active = FALSE]

\* Fault: the duel is numbered from zero.
CountFromZero(c, user_answer) ==
  /\ Register(c)
  /\ IsInDuel(c)
  /\ user_answer = active_duels[CurrentDuel(c)].answer
  /\ announced' = Append(announced, [duel |-> CurrentDuel(c) - 1, winner |-> c])
  /\ CloseDuel(CurrentDuel(c))
  /\ UNCHANGED <<duel_queue, shown>>

AnswerRight(c, user_answer) ==
  /\ Register(c)
  /\ IsInDuel(c)
  /\ user_answer = active_duels[CurrentDuel(c)].answer
  /\ announced' = Append(announced, [duel |-> CurrentDuel(c), winner |-> c])
  /\ CloseDuel(CurrentDuel(c))
  /\ UNCHANGED <<duel_queue, shown>>

AnswerWrong(c, user_answer) ==
  /\ Register(c)
  /\ IsInDuel(c)
  /\ user_answer # active_duels[CurrentDuel(c)].answer
  /\ UNCHANGED <<duel_queue, active_duels, announced, shown>>

AnswerOutsideDuel(c) ==
  /\ Register(c)
  /\ ~IsInDuel(c)
  /\ UNCHANGED <<duel_queue, active_duels, announced, shown>>

Ans(c, user_answer) ==
  \/ AnswerRight(c, user_answer)
  \/ AnswerWrong(c, user_answer)
  \/ AnswerOutsideDuel(c)

\* Chat, "/ans" with no number, "New client!", or anything else.
OtherText(c) ==
  /\ Register(c)
  /\ UNCHANGED <<duel_queue, active_duels, announced, shown>>

-----------------------------------------------------------------------------
HandlePacket(c) ==
  \/ Mathduel(c)
  \/ \E user_answer \in Answer : Ans(c, user_answer)
  \/ OtherText(c)

Next == \E c \in Client : HandlePacket(c)

Spec == Init /\ [][Next]_vars

-----------------------------------------------------------------------------
(* Properties *)

\* The queue never holds two clients, and the one it holds is registered and
\* not playing: whoever sends /mathduel next is given a free opponent, never
\* itself (server.cpp 159-188, whatever /mathduel packets are repeated).
QueuedClientIsFree ==
  /\ Len(duel_queue) <= 1
  /\ \A i \in DOMAIN duel_queue :
       duel_queue[i] \in clients /\ ~IsInDuel(duel_queue[i])

\* Nobody plays two open duels at once, and no duel is against oneself; so
\* the scan of IsInDuel finds THE duel of a client, not one of several, and
\* "/ans", which names no duel, is judged by the only one it can mean.
OneDuelPerClient ==
  /\ \A c \in Client : \A i, j \in DuelsOf(c) : i = j
  /\ \A i \in DOMAIN active_duels :
       active_duels[i].challenger # active_duels[i].opponent

\* Nobody is matched twice: who waits does not play, and who plays plays once.
DuelsAreExclusive == QueuedClientIsFree /\ OneDuelPerClient

\* The race of the two answers has one winner: a duel is announced as won at
\* most once, by one of its players, and is closed exactly when it was
\* announced.
OneWinnerPerDuel ==
  /\ \A r, s \in DOMAIN announced : announced[r].duel = announced[s].duel => r = s
  /\ \A r \in DOMAIN announced :
       /\ announced[r].duel \in DOMAIN active_duels
       /\ Plays(announced[r].winner, active_duels[announced[r].duel])
  /\ \A i \in DOMAIN active_duels :
       Open(active_duels[i]) <=> (\A r \in DOMAIN announced : announced[r].duel # i)

\* A player of an open duel was last sent that duel's problem, not an older
\* one, and is registered, so the result will be broadcast to it.
PlayersSawTheProblem ==
  \A c \in Client : \A i \in DuelsOf(c) : c \in clients /\ shown[c] = i

\* The server implements match making: with the flags and indices forgotten,
\* every packet it handles waits, matches, decides, or changes nothing.
Abstract == INSTANCE MatchMaking WITH
  Player  <- Client,
  waiting <- {duel_queue[i] : i \in DOMAIN duel_queue},
  playing <- {{active_duels[i].challenger, active_duels[i].opponent} :
                i \in OpenDuels},
  winners <- [r \in DOMAIN announced |-> announced[r].winner]

ImplementsMatchMaking == Abstract!Spec
=============================================================================

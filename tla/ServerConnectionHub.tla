------------------------ MODULE ServerConnectionHub ------------------------
(***************************************************************************)
(* The connection hub every raylib server and the bench server run on      *)
(* (common/server_connection_hub.hpp): one thread alternates Poll(), which *)
(* drains the socket one packet at a time, and Update(), which updates     *)
(* every connection and then erases the disconnected ones.                 *)
(*                                                                         *)
(* A client record lives on the heap and is known by its address: the      *)
(* model's Pointer.  A freed address may be handed out again.  Which       *)
(* packets make a ReliableConnection connect or disconnect is the library's*)
(* business; the model takes every outcome the hub is written for.         *)
(***************************************************************************)
CONSTANTS
  Endpoint,  \* what MakeKey tells apart: address family, address, scope, port
  Pointer,   \* addresses a client record may be allocated at
  NoClient   \* nullptr

ASSUME NullAssumption == NoClient \notin Pointer

VARIABLES
  clients_,    \* the records owned by the hub
  clientMap_,  \* the record of each endpoint, or NoClient
  address,     \* the endpoint each record was created for
  state,       \* the ConnectionState of each record's connection
  pc,          \* the loop is in Poll() or in Update()
  toUpdate,    \* the records Update() has still to update
  sessions     \* history: told onConnected_ and not yet onDisconnected_

hub == <<clients_, clientMap_, address, state>>
vars == <<clients_, clientMap_, address, state, pc, toUpdate, sessions>>

TypeOK ==
  /\ clients_ \subseteq Pointer
  /\ clientMap_ \in [Endpoint -> Pointer \cup {NoClient}]
  /\ address \in [Pointer -> Endpoint]
  /\ state \in [Pointer -> {"Disconnected", "Connected"}]
  /\ pc \in {"Poll", "Update"}
  /\ toUpdate \subseteq clients_
  /\ sessions \subseteq Pointer

Init ==
  /\ clients_ = {}
  /\ clientMap_ = [e \in Endpoint |-> NoClient]
  /\ address \in [Pointer -> Endpoint]
  /\ state = [p \in Pointer |-> "Disconnected"]
  /\ pc = "Poll"
  /\ toUpdate = {}
  /\ sessions = {}

FindClient(e) == clientMap_[e]

-----------------------------------------------------------------------------
(* Poll(): one packet of one endpoint *)

\* A record for an endpoint that has none, at any free address, its fresh
\* connection about to be in state s.
CreateClient(e, p, s) ==
  /\ p \in Pointer \ clients_
  /\ clients_' = clients_ \cup {p}
  /\ clientMap_' = [clientMap_ EXCEPT ![e] = p]
  /\ address' = [address EXCEPT ![p] = e]
  /\ state' = [state EXCEPT ![p] = s]

\* Fault: a record is created without looking for one.
AcceptUnlooked(e, p) ==
  /\ pc = "Poll"
  /\ CreateClient(e, p, "Connected")
  /\ sessions' = sessions \cup {p}
  /\ UNCHANGED <<pc, toUpdate>>

\* A connect packet of an unknown endpoint, accepted: onConnected_(p).
PollAcceptNew(e, p) ==
  /\ pc = "Poll"
  /\ FindClient(e) = NoClient
  /\ CreateClient(e, p, "Connected")
  /\ sessions' = sessions \cup {p}
  /\ UNCHANGED <<pc, toUpdate>>

\* The same, not accepted by the connection: the record waits for Update().
PollRejectNew(e, p) ==
  /\ pc = "Poll"
  /\ FindClient(e) = NoClient
  /\ CreateClient(e, p, "Disconnected")
  /\ UNCHANGED <<pc, toUpdate, sessions>>

\* A connect packet for a record whose connection has closed since the last
\* Update(): the same record connects again, onConnected_ with it.
PollAcceptAgain(e, p) ==
  /\ pc = "Poll"
  /\ p = FindClient(e)
  /\ p # NoClient
  /\ state[p] = "Disconnected"
  /\ state' = [state EXCEPT ![p] = "Connected"]
  /\ sessions' = sessions \cup {p}
  /\ UNCHANGED <<clients_, clientMap_, address, pc, toUpdate>>

\* A disconnect packet: onDisconnected_(p).
PollDisconnect(e, p) ==
  /\ pc = "Poll"
  /\ p = FindClient(e)
  /\ p # NoClient
  /\ state[p] = "Connected"
  /\ state' = [state EXCEPT ![p] = "Disconnected"]
  /\ sessions' = sessions \ {p}
  /\ UNCHANGED <<clients_, clientMap_, address, pc, toUpdate>>

\* Receive fails: the socket is drained, and the loop goes on to Update().
PollDone ==
  /\ pc = "Poll"
  /\ pc' = "Update"
  /\ toUpdate' = clients_
  /\ UNCHANGED <<hub, sessions>>

-----------------------------------------------------------------------------
(* Update(): every connection once, then the erasure *)

\* The peer has been silent for too long: onDisconnected_(p), from OnTimeout
\* and possibly a second time from OnDisconnected.
UpdateTimeout(p) ==
  /\ pc = "Update"
  /\ p \in toUpdate
  /\ state[p] = "Connected"
  /\ state' = [state EXCEPT ![p] = "Disconnected"]
  /\ sessions' = sessions \ {p}
  /\ toUpdate' = toUpdate \ {p}
  /\ UNCHANGED <<clients_, clientMap_, address, pc>>

UpdateQuiet(p) ==
  /\ pc = "Update"
  /\ p \in toUpdate
  /\ toUpdate' = toUpdate \ {p}
  /\ UNCHANGED <<hub, pc, sessions>>

Gone == {p \in clients_ : state[p] = "Disconnected"}

\* Fault: the records are freed and the map forgets to.
EraseListOnly ==
  /\ pc = "Update"
  /\ toUpdate = {}
  /\ clients_' = clients_ \ Gone
  /\ pc' = "Poll"
  /\ UNCHANGED <<clientMap_, address, state, toUpdate, sessions>>

\* Fault: nothing is ever erased.
EraseNothing ==
  /\ pc = "Update"
  /\ toUpdate = {}
  /\ pc' = "Poll"
  /\ UNCHANGED <<hub, toUpdate, sessions>>

\* Fault: records are erased while the loop over them is still running.
EraseTooEarly ==
  /\ pc = "Update"
  /\ clients_' = clients_ \ Gone
  /\ clientMap_' = [e \in Endpoint |->
                      IF e \in {address[p] : p \in Gone} THEN NoClient
                                                         ELSE clientMap_[e]]
  /\ pc' = "Poll"
  /\ UNCHANGED <<address, state, toUpdate, sessions>>

UpdateErase ==
  /\ pc = "Update"
  /\ toUpdate = {}
  /\ clients_' = clients_ \ Gone
  /\ clientMap_' = [e \in Endpoint |->
                      IF e \in {address[p] : p \in Gone} THEN NoClient
                                                         ELSE clientMap_[e]]
  /\ pc' = "Poll"
  /\ UNCHANGED <<address, state, toUpdate, sessions>>

-----------------------------------------------------------------------------
Next ==
  \/ \E e \in Endpoint, p \in Pointer :
       \/ PollAcceptNew(e, p)
       \/ PollRejectNew(e, p)
       \/ PollAcceptAgain(e, p)
       \/ PollDisconnect(e, p)
  \/ PollDone
  \/ \E p \in Pointer : UpdateTimeout(p) \/ UpdateQuiet(p)
  \/ UpdateErase

\* The loop runs on: the socket is drained at last, and Update() finishes.
Fairness ==
  /\ WF_vars(PollDone)
  /\ \A p \in Pointer : WF_vars(UpdateTimeout(p) \/ UpdateQuiet(p))
  /\ WF_vars(UpdateErase)

Spec == Init /\ [][Next]_vars
FairSpec == Spec /\ Fairness

-----------------------------------------------------------------------------
(* Properties *)

\* The list that owns the records and the map that finds them agree in every
\* state: what FindClient returns is a live record of that endpoint, every
\* record can be found, and so no endpoint has two.
MapAndListAgree ==
  /\ \A e \in Endpoint :
       clientMap_[e] # NoClient =>
         clientMap_[e] \in clients_ /\ address[clientMap_[e]] = e
  /\ \A p \in clients_ : clientMap_[address[p]] = p

\* What the application has been told is the truth: a Client& it was given
\* and has not been told to drop is a live record with an open connection,
\* and there is no open connection it does not know of.
SessionsAreLive == sessions = {p \in clients_ : state[p] = "Connected"}

\* The three accounts of who is connected, the list, the map and what the
\* application was told, never contradict each other.
AccountsAgree == MapAndListAgree /\ SessionsAreLive

\* The hub implements the registry of sessions its users rely on.
Registry == INSTANCE SessionRegistry WITH
  session <- [e \in Endpoint |->
                IF clientMap_[e] \in sessions THEN clientMap_[e] ELSE NoClient]

ImplementsRegistry == Registry!SessionSpec

\* A record whose connection closed does not linger: it is erased or its
\* endpoint connects again.
ClosedIsReaped ==
  \A p \in Pointer :
    p \in Gone ~> p \notin Gone
=============================================================================

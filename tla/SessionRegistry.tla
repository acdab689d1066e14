-------------------------- MODULE SessionRegistry --------------------------
(***************************************************************************)
(* What the game servers rely on when they keep a Client* between calls:   *)
(* an endpoint has at most one session, a session is one handle from       *)
(* onConnected_ to onDisconnected_, and no two open sessions share a       *)
(* handle.  ServerConnectionHub implements this; the servers are modelled  *)
(* on top of it.                                                           *)
(***************************************************************************)
CONSTANTS
  Endpoint,  \* remote addresses and ports
  Pointer,   \* the handles an application is given
  NoClient   \* nullptr

ASSUME NoClientAssumption == NoClient \notin Pointer

VARIABLE session  \* the handle of each endpoint's open session, or NoClient

SessionTypeOK == session \in [Endpoint -> Pointer \cup {NoClient}]

IsOpen(e) == session[e] # NoClient

OpenHandles == {session[e] : e \in Endpoint} \ {NoClient}

SessionInit == session = [e \in Endpoint |-> NoClient]

\* onConnected_(p): a handle no open session uses.
OpenSession(e, p) ==
  /\ ~IsOpen(e)
  /\ p \in Pointer \ OpenHandles
  /\ session' = [session EXCEPT ![e] = p]

\* onDisconnected_(p), once or more, for a peer that left or timed out.
CloseSession(e) ==
  /\ IsOpen(e)
  /\ session' = [session EXCEPT ![e] = NoClient]

SessionNext ==
  \E e \in Endpoint : CloseSession(e) \/ \E p \in Pointer : OpenSession(e, p)

SessionSpec == SessionInit /\ [][SessionNext]_session
============================================================================

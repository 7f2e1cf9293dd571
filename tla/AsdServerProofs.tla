-------------------------- MODULE AsdServerProofs --------------------------
(***************************************************************************)
(* Proofs about AsdServer, for any number of slots, descriptors and any    *)
(* bounds: the session table, the ownership of the target and the          *)
(* implementation of DebugAccess.                                          *)
(*                                                                         *)
(* TableInv is what session.c and ext_network.c keep together; IInv adds   *)
(* the target and the loop, and is inductive.                              *)
(***************************************************************************)
EXTENDS AsdServer, TLAPS

TableInv ==
    /\ NetTypeOK
    /\ SessionTypeOK
    /\ OneAuthenticated
    /\ SocketsAccounted

LoopTypeOK ==
    /\ encrypted \in BOOLEAN
    /\ pc \in Label
    /\ poll_fds \in [PollIndex -> Fd \cup {NoFd}]
    /\ p_extconn \in Slots \cup {NoSession}
    /\ is_connected \in BOOLEAN
    /\ idle \in 0..(IdleTimeout + 1)

IInv ==
    /\ TableInv
    /\ TargetTypeOK
    /\ LoopTypeOK
    /\ TargetHasOwner
    /\ ReadsFromOwner
    /\ CleanExit

\* accept() returned a descriptor that was closed again at once.
TurnedAway == \E f \in Fd : TlsAcceptFails(f) \/ RefuseNewClient(f)

\* The descriptor of the authenticated client, or NoFd.
Owner == IF HasOwner THEN sockfd[n_authenticated_id] ELSE NoFd

-----------------------------------------------------------------------------
(* The operations of the session table keep TableInv. *)

\* NO_SESSION_AUTHENTICATED is not an index of the table.
LEMMA NoSessionIsNoSlot == NoSession \notin Slots
  BY SessionAssumption DEF NoSession, Slots

\* The linear search returns a slot that holds the descriptor, and at most one.
LEMMA FindFacts ==
    ASSUME NEW fd
    PROVE  /\ session_find(fd) \subseteq Slots
           /\ \A s \in session_find(fd) : sockfd[s] = fd
           /\ \A r, s \in session_find(fd) : r = s
  <1>1. \A r, s \in session_find(fd) : r = s
    <2>1. SUFFICES ASSUME NEW r \in session_find(fd), NEW s \in session_find(fd)
                   PROVE  r = s
      OBVIOUS
    <2>2. /\ r \in Slots /\ s \in Slots
          /\ sockfd[r] = fd /\ sockfd[s] = fd
          /\ ~(r < s) /\ ~(s < r)
      BY DEF session_find
    <2>3. r \in Int /\ s \in Int
      BY <2>2, SessionAssumption DEF Slots
    <2> QED
      BY <2>2, <2>3
  <1> QED
    BY <1>1 DEF session_find

\* Closing any set of slots, with their sockets, keeps the table consistent.
LEMMA CloseSlotsKeepsTable ==
    ASSUME TableInv, NEW S \in SUBSET Slots, session_close_slots(S)
    PROVE  TableInv'
  <1> USE SessionAssumption, ExtNetAssumption
  <1>1. NetTypeOK'
    BY DEF TableInv, NetTypeOK, session_close_slots, extnet_close_clients
  <1>2. SessionTypeOK'
    BY DEF TableInv, SessionTypeOK, session_close_slots, Slots, NoSession
  <1>3. OneAuthenticated'
    <2>1. NoSession \notin Slots
      BY NoSessionIsNoSlot
    <2>2. \A s \in Slots : b_authenticated'[s] <=> s \notin S /\ b_authenticated[s]
      BY DEF session_close_slots
    <2>3. \A s \in Slots : b_authenticated[s] <=> n_authenticated_id = s
      BY DEF TableInv, OneAuthenticated
    <2>4. n_authenticated_id' =
            IF n_authenticated_id \in S THEN NoSession ELSE n_authenticated_id
      BY DEF session_close_slots
    <2>5. \A s \in Slots : b_authenticated'[s] <=> n_authenticated_id' = s
      BY <2>1, <2>2, <2>3, <2>4
    <2>6. HasOwner' => sockfd'[n_authenticated_id'] # NoFd
      BY <2>1, <2>4
         DEF TableInv, OneAuthenticated, SessionTypeOK, session_close_slots, HasOwner
    <2> QED
      BY <2>5, <2>6 DEF OneAuthenticated
  <1>4. SocketsAccounted'
    <2>1. OpenSlots' = OpenSlots \ S
      BY DEF TableInv, SessionTypeOK, session_close_slots, OpenSlots
    <2>2. \A s \in OpenSlots \ S : sockfd'[s] = sockfd[s] /\ s \in Slots
      BY DEF TableInv, SessionTypeOK, session_close_slots, OpenSlots
    <2>3. open' = open \ {sockfd[s] : s \in S}
      BY DEF session_close_slots, extnet_close_clients
    <2>4. \A s \in OpenSlots \ S : sockfd[s] \notin {sockfd[r] : r \in S}
      BY DEF TableInv, SocketsAccounted, OpenSlots, SessionTypeOK
    <2>5. open' = {sockfd'[s] : s \in OpenSlots'}
      BY <2>1, <2>2, <2>3, <2>4 DEF TableInv, SocketsAccounted, OpenSlots
    <2> QED
      BY <2>1, <2>2, <2>5 DEF TableInv, SocketsAccounted
  <1> QED
    BY <1>1, <1>2, <1>3, <1>4 DEF TableInv

\* So does admitting a connection on a descriptor that was not open.
LEMMA OpenKeepsTable ==
    ASSUME TableInv, NEW f \in Fd, extnet_accept_connection(f), session_open(f)
    PROVE  /\ TableInv'
           /\ n_authenticated_id' = n_authenticated_id
           /\ HasOwner => sockfd'[n_authenticated_id] = sockfd[n_authenticated_id]
  <1> USE SessionAssumption, ExtNetAssumption
  <1>1. PICK s \in session_find(NoFd) :
          /\ sockfd' = [sockfd EXCEPT ![s] = f]
          /\ t_auth_tout' = [t_auth_tout EXCEPT ![s] = AuthExpire]
          /\ b_authenticated' = [b_authenticated EXCEPT ![s] = FALSE]
          /\ n_authenticated_id' = n_authenticated_id
    BY DEF session_open
  <1>2. s \in Slots /\ sockfd[s] = NoFd
    BY <1>1, FindFacts
  <1>3. open' = open \cup {f} /\ f \notin open /\ f # NoFd
    BY DEF extnet_accept_connection
  <1>4. NetTypeOK'
    BY DEF TableInv, NetTypeOK, extnet_accept_connection
  <1>5. SessionTypeOK'
    BY <1>1, <1>2 DEF TableInv, SessionTypeOK
  <1>6. n_authenticated_id # s
    BY <1>2 DEF TableInv, OneAuthenticated, HasOwner, NoSession, Slots
  <1>7. OneAuthenticated'
    BY <1>1, <1>2, <1>3, <1>6
       DEF TableInv, OneAuthenticated, SessionTypeOK, HasOwner, NoSession, Slots
  <1>8. SocketsAccounted'
    <2>1. OpenSlots' = OpenSlots \cup {s} /\ s \notin OpenSlots
      BY <1>1, <1>2, <1>3 DEF TableInv, SessionTypeOK, OpenSlots
    <2>2. sockfd'[s] = f /\ \A r \in OpenSlots : sockfd'[r] = sockfd[r]
      BY <1>1, <1>2, <2>1 DEF TableInv, SessionTypeOK, OpenSlots
    <2>3. open' = {sockfd'[r] : r \in OpenSlots'}
      BY <1>3, <2>1, <2>2 DEF TableInv, SocketsAccounted
    <2>4. \A r \in OpenSlots : sockfd[r] # f
      BY <1>3 DEF TableInv, SocketsAccounted
    <2> QED
      BY <2>1, <2>2, <2>3, <2>4 DEF TableInv, SocketsAccounted
  <1> QED
    BY <1>1, <1>4, <1>5, <1>6, <1>7, <1>8
       DEF TableInv, SessionTypeOK, HasOwner, NoSession, Slots

\* So does authenticating an open session when nobody else is.
LEMMA AuthKeepsTable ==
    ASSUME TableInv, NEW f \in Fd, session_auth_complete(f),
           NetTypeOK', open' = open
    PROVE  /\ TableInv'
           /\ n_authenticated_id' \in session_find(f)
           /\ sockfd' = sockfd
  <1> USE SessionAssumption, ExtNetAssumption
  <1>1. PICK s \in session_find(f) :
          /\ n_authenticated_id' = s
          /\ b_authenticated' = [b_authenticated EXCEPT ![s] = TRUE]
          /\ n_authenticated_id = NoSession
          /\ sockfd' = sockfd
          /\ t_auth_tout' = t_auth_tout
    BY DEF session_auth_complete, HasOwner
  <1>2. s \in Slots /\ sockfd[s] = f /\ f # NoFd
    BY <1>1, FindFacts
  <1>3. SessionTypeOK'
    BY <1>1, <1>2 DEF TableInv, SessionTypeOK
  <1>4. \A r \in Slots : ~b_authenticated[r]
    BY <1>1 DEF TableInv, OneAuthenticated, NoSession, Slots
  <1>5. OneAuthenticated'
    BY <1>1, <1>2, <1>4 DEF TableInv, OneAuthenticated, SessionTypeOK, HasOwner
  <1>6. SocketsAccounted'
    BY <1>1 DEF TableInv, SocketsAccounted, OpenSlots
  <1> QED
    BY <1>1, <1>3, <1>5, <1>6 DEF TableInv

\* A step that leaves the slots and the set of open sockets alone.
LEMMA TrafficKeepsTable ==
    ASSUME TableInv, NetTypeOK', t_auth_tout' \in [Slots -> 0..AuthExpire],
           UNCHANGED <<open, sockfd, b_authenticated, n_authenticated_id>>
    PROVE  TableInv'
  BY DEF TableInv, SessionTypeOK, OneAuthenticated, SocketsAccounted, HasOwner,
         OpenSlots

\* Closing slots takes the ownership away exactly if the owner is among them.
LEMMA CloseSlotsOwner ==
    ASSUME TableInv, NEW S \in SUBSET Slots, session_close_slots(S)
    PROVE  /\ n_authenticated_id \in S => ~HasOwner' /\ Owner' = NoFd
           /\ n_authenticated_id \notin S =>
                /\ n_authenticated_id' = n_authenticated_id
                /\ HasOwner' = HasOwner
                /\ Owner' = Owner
  <1>1. CASE n_authenticated_id \in S
    BY <1>1 DEF session_close_slots, HasOwner, Owner
  <1>2. CASE n_authenticated_id \notin S
    <2>1. n_authenticated_id' = n_authenticated_id
      BY <1>2 DEF session_close_slots
    <2>2. HasOwner => sockfd'[n_authenticated_id] = sockfd[n_authenticated_id]
      BY <1>2 DEF TableInv, SessionTypeOK, HasOwner, session_close_slots
    <2> QED
      BY <1>2, <2>1, <2>2 DEF HasOwner, Owner
  <1> QED
    BY <1>1, <1>2

\* A session that is not authenticated is not the owner's, and the expiry
\* spares the owner.
LEMMA UnauthenticatedIsNotOwner ==
    ASSUME TableInv, NEW s \in Slots, ~b_authenticated[s]
    PROVE  s # n_authenticated_id
  BY DEF TableInv, OneAuthenticated

\* Closing the session of an unauthenticated entry leaves the owner alone.
LEMMA CloseUnauthenticated ==
    ASSUME TableInv, NEW fd, \E s \in session_find(fd) : ~Authenticated(s),
           session_close(fd)
    PROVE  /\ TableInv'
           /\ n_authenticated_id' = n_authenticated_id
           /\ HasOwner' = HasOwner
           /\ Owner' = Owner
  <1>1. session_find(fd) \in SUBSET Slots
    BY FindFacts
  <1>2. n_authenticated_id \notin session_find(fd)
    BY <1>1, FindFacts, UnauthenticatedIsNotOwner DEF Authenticated
  <1>3. session_close_slots(session_find(fd))
    BY DEF session_close
  <1> QED
    BY <1>1, <1>2, <1>3, CloseSlotsKeepsTable, CloseSlotsOwner

-----------------------------------------------------------------------------
(* The target side. *)

\* asd_msg_free leaves no instance and no handler, whatever it returns.
LEMMA FreeReleases ==
    ASSUME TargetTypeOK, TargetHasOwner, asd_msg_free
    PROVE  /\ TargetTypeOK'
           /\ ~instance' /\ target' = "null" /\ vprobe' = "null"
           /\ TargetHasOwner'
  <1>1. TargetTypeOK'
    BY DEF TargetTypeOK, asd_msg_free, HandlerState, PinState
  <1>2. ~instance' /\ target' = "null" /\ vprobe' = "null"
    BY DEF TargetHasOwner, asd_msg_free
  <1> QED
    BY <1>1, <1>2 DEF TargetHasOwner

\* close_connection keeps the table and the target in step, also when
\* asd_msg_free fails and the session stays.
LEMMA CloseConnectionKeeps ==
    ASSUME TableInv, TargetTypeOK, TargetHasOwner, is_connected \in BOOLEAN,
           close_connection
    PROVE  /\ TableInv'
           /\ TargetTypeOK'
           /\ TargetHasOwner'
           /\ is_connected' \in BOOLEAN
  <1>1. CASE ~HasOwner
    <2>1. UNCHANGED <<netVars, sessionVars, targetVars, is_connected>>
      BY <1>1 DEF close_connection
    <2>2. UNCHANGED <<open, rx, eof, backlog, sockfd, t_auth_tout,
                      b_authenticated, n_authenticated_id, instance, target,
                      vprobe, handlers_initialized, pins, is_connected>>
      BY <2>1 DEF netVars, sessionVars, targetVars
    <2>3. TableInv'
      BY <2>2, TrafficKeepsTable DEF TableInv, NetTypeOK, SessionTypeOK
    <2> QED
      BY <2>2, <2>3 DEF TargetTypeOK, TargetHasOwner, HasOwner
  <1>2. CASE HasOwner
    <2>1. on_client_disconnect
      BY <1>2 DEF close_connection
    <2>2. \/ session_close_slots(session_find(sockfd[n_authenticated_id]))
          \/ UNCHANGED <<netVars, sessionVars>>
      BY <1>2 DEF close_connection, session_close
    <2>3. TableInv'
      <3>1. CASE session_close_slots(session_find(sockfd[n_authenticated_id]))
        BY <3>1, FindFacts, CloseSlotsKeepsTable
      <3>2. CASE UNCHANGED <<netVars, sessionVars>>
        BY <3>2, TrafficKeepsTable
           DEF TableInv, NetTypeOK, SessionTypeOK, netVars, sessionVars
      <3> QED
        BY <2>2, <3>1, <3>2
    <2> QED
      BY <2>1, <2>3, FreeReleases DEF on_client_disconnect
  <1> QED
    BY <1>1, <1>2

-----------------------------------------------------------------------------
(* The request loop: IInv is inductive. *)

\* The state the daemon starts in, all tables empty, satisfies the invariant.
LEMMA InitInv == Init => IInv
  <1> SUFFICES ASSUME Init PROVE IInv
    OBVIOUS
  <1> USE ExtNetAssumption, SessionAssumption, AsdServerAssumption
  <1>1. NetTypeOK /\ SessionTypeOK
    BY DEF Init, NetInit, SessionInit, NetTypeOK, SessionTypeOK
  <1>2. OneAuthenticated
    BY NoSessionIsNoSlot DEF Init, SessionInit, OneAuthenticated, HasOwner
  <1>3. SocketsAccounted
    BY DEF Init, NetInit, SessionInit, SocketsAccounted, OpenSlots
  <1>4. TargetTypeOK
    BY DEF Init, TargetInit, TargetTypeOK, HandlerState, PinState
  <1>5. LoopTypeOK
    <2>1. poll_fds \in [PollIndex -> Fd \cup {NoFd}]
      BY DEF Init, NothingPolled
    <2>2. idle \in 0..(IdleTimeout + 1)
      BY DEF Init
    <2> QED
      BY <2>1, <2>2 DEF Init, LoopTypeOK, Label
  <1>6. TargetHasOwner /\ ReadsFromOwner /\ CleanExit
    BY DEF Init, TargetInit, TargetHasOwner, ReadsFromOwner, CleanExit
  <1> QED
    BY <1>1, <1>2, <1>3, <1>4, <1>5, <1>6 DEF IInv, TableInv

\* An iteration's entry is a descriptor, never NoFd.
LEMMA EntryIsFd ==
    ASSUME LoopTypeOK, NEW i \in PollIndex, NextEntry(i)
    PROVE  poll_fds[i] \in Fd
  BY DEF LoopTypeOK, NextEntry

\* Marking an entry as served keeps the snapshot well formed.
LEMMA ServedKeepsType ==
    ASSUME LoopTypeOK, NEW i \in PollIndex, Served(i)
    PROVE  poll_fds' \in [PollIndex -> Fd \cup {NoFd}]
  BY DEF LoopTypeOK, Served

\* The steps of the loop's top, which may close the owner's connection, poll
\* or leave the loop.
LEMMA TopKeepsInv ==
    ASSUME IInv, IdleDisconnect \/ PollReturns \/ PollFails
    PROVE  IInv'
  <1> USE ExtNetAssumption, SessionAssumption, AsdServerAssumption
  <1>1. CASE IdleDisconnect
    <2>1. TableInv' /\ TargetTypeOK' /\ TargetHasOwner' /\ is_connected' \in BOOLEAN
      BY <1>1, CloseConnectionKeeps DEF IInv, LoopTypeOK, IdleDisconnect
    <2>2. LoopTypeOK'
      BY <1>1, <2>1 DEF IInv, LoopTypeOK, IdleDisconnect
    <2>3. ReadsFromOwner' /\ CleanExit'
      BY <1>1 DEF IdleDisconnect, ReadsFromOwner, CleanExit
    <2> QED
      BY <2>1, <2>2, <2>3 DEF IInv
  <1>2. CASE PollReturns
    <2>1. TableInv'
      BY <1>2, TrafficKeepsTable
         DEF IInv, TableInv, NetTypeOK, SessionTypeOK, PollReturns, netVars, sessionVars
    <2>2. TargetTypeOK' /\ TargetHasOwner'
      BY <1>2 DEF IInv, PollReturns, asd_msg_get_fds, TargetTypeOK, PinState,
                  TargetHasOwner, HasOwner, sessionVars
    <2>3. \A i \in OpenSlots : sockfd[i] \in Fd \cup {NoFd}
      BY DEF IInv, TableInv, SessionTypeOK, OpenSlots
    <2>4. poll_fds' \in [PollIndex -> Fd \cup {NoFd}]
      BY <1>2, <2>3 DEF PollReturns
    <2>5. pc' \in {"accept", "expire", "pins"}
      BY <1>2 DEF PollReturns
    <2>6. LoopTypeOK'
      BY <1>2, <2>4, <2>5 DEF IInv, LoopTypeOK, PollReturns, Label
    <2>7. ReadsFromOwner' /\ CleanExit'
      BY <2>5 DEF ReadsFromOwner, CleanExit
    <2> QED
      BY <2>1, <2>2, <2>6, <2>7 DEF IInv
  <1>3. CASE PollFails
    <2>1. OpenSlots \in SUBSET Slots /\ session_close_slots(OpenSlots)
      BY <1>3 DEF PollFails, session_close_all, OpenSlots
    <2>2. TableInv'
      BY <2>1, CloseSlotsKeepsTable DEF IInv
    <2>3. TargetTypeOK' /\ TargetHasOwner' /\ ~instance'
      BY <1>3, FreeReleases DEF IInv, PollFails
    <2>4. LoopTypeOK'
      BY <1>3 DEF IInv, LoopTypeOK, PollFails, Label, Stopped
    <2>5. ~HasOwner'
      <3>1. HasOwner => n_authenticated_id \in OpenSlots
        BY DEF IInv, TableInv, SessionTypeOK, OneAuthenticated, HasOwner, OpenSlots
      <3> QED
        BY <2>1, <3>1, CloseSlotsOwner DEF IInv
    <2>6. open' = {}
      BY <2>1 DEF IInv, TableInv, SocketsAccounted, session_close_slots,
                  extnet_close_clients
    <2>7. ReadsFromOwner' /\ CleanExit'
      BY <1>3, <2>3, <2>5, <2>6 DEF PollFails, ReadsFromOwner, CleanExit
    <2> QED
      BY <2>2, <2>3, <2>4, <2>7 DEF IInv
  <1> QED
    BY <1>1, <1>2, <1>3

\* Admitting or refusing a new client, and the expiry that follows.
LEMMA AdmissionKeepsInv ==
    ASSUME IInv,
           \/ AcceptFails \/ TurnedAway
           \/ (\E f \in Fd : OpenNewClient(f)) \/ CloseExpired
    PROVE  IInv'
  <1> USE ExtNetAssumption, SessionAssumption, AsdServerAssumption
  <1>1. CASE AcceptFails \/ TurnedAway
    <2>1. /\ extnet_accept_fails \/ \E f \in Fd : extnet_drop_connection(f)
          /\ pc' = "expire"
          /\ UNCHANGED <<encrypted, sockfd, t_auth_tout, b_authenticated,
                         n_authenticated_id, instance, target, vprobe,
                         handlers_initialized, pins, poll_fds, p_extconn,
                         is_connected, idle>>
      BY <1>1 DEF AcceptFails, TurnedAway, TlsAcceptFails, RefuseNewClient,
                  sessionVars, targetVars
    <2>2. NetTypeOK' /\ open' = open
      BY <2>1 DEF IInv, TableInv, NetTypeOK, extnet_accept_fails, extnet_drop_connection
    <2>3. TableInv'
      BY <2>1, <2>2, TrafficKeepsTable DEF IInv, TableInv, SessionTypeOK
    <2> QED
      BY <2>1, <2>3 DEF IInv, TargetTypeOK, LoopTypeOK, TargetHasOwner, HasOwner,
                        ReadsFromOwner, CleanExit, Label
  <1>2. ASSUME NEW f \in Fd, OpenNewClient(f)
        PROVE  IInv'
    <2>1. TableInv' /\ n_authenticated_id' = n_authenticated_id
      BY <1>2, OpenKeepsTable DEF IInv, OpenNewClient
    <2>2. /\ pc' = "expire"
          /\ UNCHANGED <<encrypted, instance, target, vprobe,
                         handlers_initialized, pins, p_extconn, idle>>
          /\ is_connected' = TRUE
      BY <1>2 DEF OpenNewClient, targetVars
    <2>3. poll_fds' \in [PollIndex -> Fd \cup {NoFd}]
      BY <1>2 DEF OpenNewClient, IInv, LoopTypeOK
    <2> QED
      BY <2>1, <2>2, <2>3 DEF IInv, TargetTypeOK, LoopTypeOK, TargetHasOwner,
                              HasOwner, ReadsFromOwner, CleanExit, Label
  <1>3. CASE CloseExpired
    <2>1. ExpiredSlots \in SUBSET Slots /\ session_close_slots(ExpiredSlots)
      BY <1>3 DEF CloseExpired, session_close_expired_unauth, ExpiredSlots, OpenSlots
    <2>2. n_authenticated_id \notin ExpiredSlots
      BY <2>1, UnauthenticatedIsNotOwner DEF IInv, ExpiredSlots
    <2>3. TableInv' /\ n_authenticated_id' = n_authenticated_id
      BY <2>1, <2>2, CloseSlotsKeepsTable, CloseSlotsOwner DEF IInv
    <2>4. /\ pc' = "clients"
          /\ UNCHANGED <<encrypted, instance, target, vprobe,
                         handlers_initialized, pins, poll_fds, p_extconn,
                         is_connected, idle>>
      BY <1>3 DEF CloseExpired, targetVars
    <2> QED
      BY <2>3, <2>4 DEF IInv, TargetTypeOK, LoopTypeOK, TargetHasOwner, HasOwner,
                        ReadsFromOwner, CleanExit, Label
  <1> QED
    BY <1>1, <1>2, <1>3

\* The steps that dispose of one polled session: it vanished, it is the
\* owner's, or it authenticates or fails to.
LEMMA ServeKeepsInv ==
    ASSUME IInv, NEW i \in PollIndex, ServeEntry(i)
    PROVE  IInv'
  <1> USE ExtNetAssumption, SessionAssumption, AsdServerAssumption
  <1> DEFINE fd == poll_fds[i]
  <1>a. /\ pc = "clients"
        /\ NextEntry(i)
        /\ Served(i)
    BY DEF ServeEntry, Vanished, AlreadyAuthenticated, HandshakeFails,
           HandshakeTooLate, ClientAuthenticated, ClientConnectFails, Unauthenticated
  <1>b. poll_fds' \in [PollIndex -> Fd \cup {NoFd}] /\ fd \in Fd
    BY <1>a, ServedKeepsType, EntryIsFd DEF IInv
  <1>1. CASE Vanished(i)
    <2>1. UNCHANGED <<encrypted, open, rx, eof, backlog, sockfd, t_auth_tout,
                      b_authenticated, n_authenticated_id, instance, target,
                      vprobe, handlers_initialized, pins, pc, p_extconn,
                      is_connected, idle>>
      BY <1>1 DEF Vanished, netVars, sessionVars, targetVars
    <2>2. TableInv'
      BY <2>1, TrafficKeepsTable DEF IInv, TableInv, NetTypeOK, SessionTypeOK
    <2> QED
      BY <1>a, <1>b, <2>1, <2>2
         DEF IInv, TargetTypeOK, LoopTypeOK, TargetHasOwner, HasOwner,
             ReadsFromOwner, CleanExit
  <1>2. CASE AlreadyAuthenticated(i)
    <2>1. UNCHANGED <<encrypted, open, rx, eof, backlog, sockfd, t_auth_tout,
                      b_authenticated, n_authenticated_id, instance, target,
                      vprobe, handlers_initialized, pins, is_connected, idle>>
      BY <1>2 DEF AlreadyAuthenticated, netVars, sessionVars, targetVars
    <2>2. TableInv'
      BY <2>1, TrafficKeepsTable DEF IInv, TableInv, NetTypeOK, SessionTypeOK
    <2>3. PICK s \in session_find(fd) : b_authenticated[s] /\ p_extconn' = s
      BY <1>2 DEF AlreadyAuthenticated, Authenticated
    <2>4. s \in Slots /\ sockfd[s] = fd
      BY FindFacts
    <2>5. s = n_authenticated_id
      BY <2>3, <2>4 DEF IInv, TableInv, OneAuthenticated
    <2>6. sockfd[s] \in open
      BY <1>b, <2>4 DEF IInv, TableInv, SocketsAccounted, OpenSlots
    <2>7. pc' = "read"
      BY <1>2 DEF AlreadyAuthenticated
    <2>8. ReadsFromOwner' /\ CleanExit'
      BY <2>1, <2>3, <2>5, <2>6, <2>7 DEF ReadsFromOwner, CleanExit
    <2>9. LoopTypeOK'
      BY <1>b, <2>1, <2>3, <2>4, <2>7 DEF IInv, LoopTypeOK, Label
    <2> QED
      BY <2>1, <2>2, <2>8, <2>9
         DEF IInv, TargetTypeOK, TargetHasOwner, HasOwner
  <1>3. CASE HandshakeFails(i) \/ HandshakeTooLate(i)
    <2>1. /\ \E s \in session_find(fd) : ~Authenticated(s)
          /\ session_close(fd)
          /\ UNCHANGED <<encrypted, instance, target, vprobe,
                         handlers_initialized, pins, pc, p_extconn,
                         is_connected, idle>>
      BY <1>3 DEF HandshakeFails, HandshakeTooLate, Unauthenticated, targetVars
    <2>2. TableInv' /\ HasOwner' = HasOwner
      BY <2>1, CloseUnauthenticated DEF IInv
    <2> QED
      BY <1>a, <1>b, <2>1, <2>2
         DEF IInv, TargetTypeOK, LoopTypeOK, TargetHasOwner, ReadsFromOwner, CleanExit
  <1>4. CASE ClientAuthenticated(i)
    <2>1. /\ session_auth_complete(fd)
          /\ asd_msg_init
          /\ p_extconn' \in session_find(fd)
          /\ pc' = "read"
          /\ UNCHANGED <<encrypted, is_connected, idle>>
      BY <1>4 DEF ClientAuthenticated
    <2>2. NetTypeOK' /\ open' = open
      <3>1. CASE encrypted
        BY <1>4, <1>b, <3>1 DEF IInv, TableInv, NetTypeOK, ClientAuthenticated, extnet_recv
      <3>2. CASE ~encrypted
        BY <1>4, <3>2 DEF IInv, TableInv, NetTypeOK, ClientAuthenticated, netVars
      <3> QED
        BY <3>1, <3>2
    <2>3. /\ TableInv'
          /\ n_authenticated_id' \in session_find(fd)
          /\ sockfd' = sockfd
      BY <1>b, <2>1, <2>2, AuthKeepsTable DEF IInv
    <2>4. /\ p_extconn' = n_authenticated_id'
          /\ p_extconn' \in Slots
          /\ sockfd[p_extconn'] = fd
      BY <2>1, <2>3, FindFacts
    <2>5. fd \in open
      BY <1>b, <2>4 DEF IInv, TableInv, SocketsAccounted, OpenSlots
    <2>6. ReadsFromOwner' /\ CleanExit'
      BY <2>1, <2>2, <2>3, <2>4, <2>5 DEF ReadsFromOwner, CleanExit
    <2>7. HasOwner'
      BY <2>4, NoSessionIsNoSlot DEF HasOwner
    <2>8. TargetTypeOK' /\ TargetHasOwner'
      BY <2>1, <2>7 DEF IInv, TargetTypeOK, TargetHasOwner, asd_msg_init, HandlerState
    <2>9. LoopTypeOK'
      BY <1>b, <2>1, <2>4 DEF IInv, LoopTypeOK, Label
    <2> QED
      BY <2>3, <2>6, <2>8, <2>9 DEF IInv
  <1>5. CASE ClientConnectFails(i)
    <2>1. /\ \E s \in session_find(fd) : ~Authenticated(s)
          /\ session_close(fd)
          /\ asd_msg_free
          /\ is_connected' = FALSE
          /\ UNCHANGED <<encrypted, pc, p_extconn, idle>>
      BY <1>5 DEF ClientConnectFails, Unauthenticated, on_client_disconnect
    <2>2. TableInv'
      BY <2>1, CloseUnauthenticated DEF IInv
    <2>3. TargetTypeOK' /\ TargetHasOwner'
      BY <2>1, FreeReleases DEF IInv
    <2> QED
      BY <1>a, <1>b, <2>1, <2>2, <2>3 DEF IInv, LoopTypeOK, ReadsFromOwner, CleanExit
  <1> QED
    BY <1>1, <1>2, <1>3, <1>4, <1>5 DEF ServeEntry

\* Reading one message of the owner, with every way it can end.
LEMMA ReadKeepsInv ==
    ASSUME IInv, ProcessMsg \/ ProcessMsgFails \/ ProcessMsgCrashes \/ ClientsDone
    PROVE  IInv'
  <1> USE ExtNetAssumption, SessionAssumption, AsdServerAssumption
  <1>1. CASE ProcessMsg
    <2>1. /\ extnet_recv(sockfd[p_extconn])
          /\ asd_msg_read
          /\ pc = "read" /\ pc' = "clients"
          /\ p_extconn' = NoSession
          /\ UNCHANGED <<encrypted, sockfd, t_auth_tout, b_authenticated,
                         n_authenticated_id, poll_fds, is_connected, idle>>
      BY <1>1 DEF ProcessMsg, sessionVars
    <2>2. sockfd[p_extconn] \in Fd
      BY <2>1 DEF IInv, ReadsFromOwner, TableInv, NetTypeOK
    <2>3. NetTypeOK' /\ open' = open
      BY <2>1, <2>2 DEF IInv, TableInv, NetTypeOK, extnet_recv
    <2>4. TableInv'
      BY <2>1, <2>3, TrafficKeepsTable DEF IInv, TableInv, SessionTypeOK
    <2>5. TargetTypeOK' /\ TargetHasOwner'
      BY <2>1 DEF IInv, TargetTypeOK, TargetHasOwner, HasOwner, asd_msg_read, HandlerState
    <2> QED
      BY <2>1, <2>4, <2>5 DEF IInv, LoopTypeOK, ReadsFromOwner, CleanExit, Label
  <1>2. CASE ProcessMsgFails
    <2>1. /\ session_close_slots(session_find(sockfd[p_extconn]))
          /\ asd_msg_free
          /\ is_connected' = FALSE
          /\ pc' = "clients"
          /\ p_extconn' = NoSession
          /\ UNCHANGED <<encrypted, poll_fds, idle>>
      BY <1>2 DEF ProcessMsgFails, on_client_disconnect, session_close
    <2>2. TableInv'
      BY <2>1, FindFacts, CloseSlotsKeepsTable DEF IInv
    <2>3. TargetTypeOK' /\ TargetHasOwner'
      BY <2>1, FreeReleases DEF IInv
    <2> QED
      BY <2>1, <2>2, <2>3 DEF IInv, LoopTypeOK, ReadsFromOwner, CleanExit, Label
  <1>3. CASE ProcessMsgCrashes \/ ClientsDone
    <2>1. /\ pc' \in {"crash", "pins"}
          /\ idle' \in {0, idle}
          /\ UNCHANGED <<encrypted, open, rx, eof, backlog, sockfd,
                         t_auth_tout, b_authenticated, n_authenticated_id,
                         instance, target, vprobe, handlers_initialized, pins,
                         poll_fds, p_extconn, is_connected>>
      BY <1>3 DEF ProcessMsgCrashes, ClientsDone, netVars, sessionVars, targetVars
    <2>2. TableInv'
      BY <2>1, TrafficKeepsTable DEF IInv, TableInv, NetTypeOK, SessionTypeOK
    <2>3. LoopTypeOK'
      BY <2>1 DEF IInv, LoopTypeOK, Label, Stopped
    <2> QED
      BY <2>1, <2>2, <2>3 DEF IInv, TargetTypeOK, TargetHasOwner, HasOwner,
                              ReadsFromOwner, CleanExit
  <1> QED
    BY <1>1, <1>2, <1>3

\* The pin events, which may take the connection of whoever is authenticated.
LEMMA PinsKeepInv ==
    ASSUME IInv, PinsDone \/ PinsFail \/ PinsSpin
    PROVE  IInv'
  <1>1. CASE PinsDone \/ PinsSpin
    <2>1. /\ pc' \in {"top", "spin"}
          /\ pins' \in {"none", pins}
          /\ UNCHANGED <<encrypted, open, rx, eof, backlog, sockfd,
                         t_auth_tout, b_authenticated, n_authenticated_id,
                         instance, target, vprobe, handlers_initialized,
                         poll_fds, p_extconn, is_connected, idle>>
      BY <1>1 DEF PinsDone, PinsSpin, drop_fds, netVars, sessionVars, targetVars
    <2>2. TableInv'
      BY <2>1, TrafficKeepsTable DEF IInv, TableInv, NetTypeOK, SessionTypeOK
    <2>3. TargetTypeOK'
      BY <2>1 DEF IInv, TargetTypeOK, PinState
    <2> QED
      BY <2>1, <2>2, <2>3 DEF IInv, LoopTypeOK, TargetHasOwner, HasOwner,
                              ReadsFromOwner, CleanExit, Label, Stopped
  <1>2. CASE PinsFail
    <2>1. TableInv' /\ TargetTypeOK' /\ TargetHasOwner' /\ is_connected' \in BOOLEAN
      BY <1>2, CloseConnectionKeeps DEF IInv, LoopTypeOK, PinsFail
    <2>2. pc' = "top" /\ UNCHANGED <<encrypted, poll_fds, p_extconn, idle>>
      BY <1>2 DEF PinsFail
    <2> QED
      BY <2>1, <2>2 DEF IInv, LoopTypeOK, ReadsFromOwner, CleanExit, Label
  <1> QED
    BY <1>1, <1>2

\* What the clients and the clock do at any moment.
LEMMA EnvironmentKeepsInv ==
    ASSUME IInv, Environment \/ Tick
    PROVE  IInv'
  <1> USE ExtNetAssumption, SessionAssumption, AsdServerAssumption
  <1>1. CASE Environment
    <2>1. /\ ClientConnect \/ \E f \in Fd : ClientSend(f) \/ ClientHangUp(f)
          /\ pc # "exit"
          /\ UNCHANGED <<encrypted, sockfd, t_auth_tout, b_authenticated,
                         n_authenticated_id, instance, target, vprobe,
                         handlers_initialized, pins, pc, poll_fds, p_extconn,
                         is_connected, idle>>
      BY <1>1 DEF Environment, sessionVars, targetVars, serverVars
    <2>2. NetTypeOK' /\ open' = open
      BY <2>1 DEF IInv, TableInv, NetTypeOK, ClientConnect, ClientSend, ClientHangUp
    <2>3. TableInv'
      BY <2>1, <2>2, TrafficKeepsTable DEF IInv, TableInv, SessionTypeOK
    <2> QED
      BY <2>1, <2>2, <2>3 DEF IInv, TargetTypeOK, LoopTypeOK, TargetHasOwner,
                              HasOwner, ReadsFromOwner, CleanExit
  <1>2. CASE Tick
    <2>1. /\ SessionTick
          /\ idle' = IF idle > IdleTimeout THEN idle ELSE idle + 1
          /\ pc # "exit"
          /\ UNCHANGED <<encrypted, open, rx, eof, backlog, sockfd,
                         b_authenticated, n_authenticated_id, instance, target,
                         vprobe, handlers_initialized, pins, pc, poll_fds,
                         p_extconn, is_connected>>
      BY <1>2 DEF Tick, Stopped, netVars, targetVars
    <2>2. t_auth_tout' \in [Slots -> 0..AuthExpire]
      BY <2>1 DEF IInv, TableInv, SessionTypeOK, SessionTick
    <2>3. TableInv'
      BY <2>1, <2>2, TrafficKeepsTable DEF IInv, TableInv, NetTypeOK
    <2>4. LoopTypeOK'
      BY <2>1 DEF IInv, LoopTypeOK
    <2> QED
      BY <2>1, <2>3, <2>4 DEF IInv, TargetTypeOK, TargetHasOwner, HasOwner,
                              ReadsFromOwner, CleanExit
  <1> QED
    BY <1>1, <1>2

\* A step that changes nothing.
LEMMA StutterKeepsInv ==
    ASSUME IInv, UNCHANGED vars
    PROVE  IInv'
  <1>1. UNCHANGED <<encrypted, open, rx, eof, backlog, sockfd, t_auth_tout,
                    b_authenticated, n_authenticated_id, instance, target,
                    vprobe, handlers_initialized, pins, pc, poll_fds,
                    p_extconn, is_connected, idle>>
    BY DEF vars, netVars, sessionVars, targetVars, serverVars
  <1>2. TableInv'
    BY <1>1, TrafficKeepsTable DEF IInv, TableInv, NetTypeOK, SessionTypeOK
  <1> QED
    BY <1>1, <1>2 DEF IInv, TargetTypeOK, LoopTypeOK, TargetHasOwner, HasOwner,
                      ReadsFromOwner, CleanExit

\* Every step of the daemon, its clients and the clock preserves IInv.
LEMMA NextKeepsInv == IInv /\ [Next]_vars => IInv'
  <1> SUFFICES ASSUME IInv, [Next]_vars PROVE IInv'
    OBVIOUS
  <1>1. CASE IdleDisconnect \/ PollReturns \/ PollFails
    BY <1>1, TopKeepsInv
  <1>2. CASE \/ AcceptFails \/ TurnedAway
             \/ (\E f \in Fd : OpenNewClient(f)) \/ CloseExpired
    BY <1>2, AdmissionKeepsInv
  <1>3. CASE \E i \in PollIndex : ServeEntry(i)
    BY <1>3, ServeKeepsInv
  <1>4. CASE ProcessMsg \/ ProcessMsgFails \/ ProcessMsgCrashes \/ ClientsDone
    BY <1>4, ReadKeepsInv
  <1>5. CASE PinsDone \/ PinsFail \/ PinsSpin
    BY <1>5, PinsKeepInv
  <1>6. CASE Environment \/ Tick
    BY <1>6, EnvironmentKeepsInv
  <1>7. CASE UNCHANGED vars
    BY <1>7, StutterKeepsInv
  <1> QED
    BY <1>1, <1>2, <1>3, <1>4, <1>5, <1>6, <1>7 DEF Next, ServerStep, AcceptReturns, TurnedAway

\* IInv holds in every reachable state, for every size of the session table.
THEOREM Invariance == Spec => []IInv
  BY InitInv, NextKeepsInv, PTL DEF Spec

-----------------------------------------------------------------------------
(* What follows from it. *)

\* Every variable of the daemon keeps its range.
THEOREM TypeCorrect == Spec => []TypeOK
  <1>1. IInv => TypeOK
    BY DEF IInv, TableInv, LoopTypeOK, TypeOK
  <1> QED
    BY <1>1, Invariance, PTL

\* The authentication flag and index of session.c agree: at most one session
\* is authenticated, and it is open.
THEOREM MutualExclusion == Spec => []OneAuthenticated
  <1>1. IInv => OneAuthenticated
    BY DEF IInv, TableInv
  <1> QED
    BY <1>1, Invariance, PTL

\* No accepted socket is leaked and none is kept after it was closed.
THEOREM NoSocketLeaks == Spec => []SocketsAccounted
  <1>1. IInv => SocketsAccounted
    BY DEF IInv, TableInv
  <1> QED
    BY <1>1, Invariance, PTL

\* The message layer and its handlers exist only for an authenticated client.
THEOREM TargetBelongsToOwner == Spec => []TargetHasOwner
  <1>1. IInv => TargetHasOwner
    BY DEF IInv
  <1> QED
    BY <1>1, Invariance, PTL

\* Whatever was closed, expired or accepted since poll(), asd_msg_read is only
\* ever given the bytes of the session that is authenticated, and its socket is
\* open.
THEOREM OnlyOwnerIsRead == Spec => []ReadsFromOwner
  <1>1. IInv => ReadsFromOwner
    BY DEF IInv
  <1> QED
    BY <1>1, Invariance, PTL

\* A daemon whose loop has ended holds no socket and no target.
THEOREM ExitIsClean == Spec => []CleanExit
  <1>1. IInv => CleanExit
    BY DEF IInv
  <1> QED
    BY <1>1, Invariance, PTL

-----------------------------------------------------------------------------
(* The snapshot of poll() and the table it is applied to.                  *)
(*                                                                         *)
(* PollEntriesFresh alone is not inductive: that accept() cannot give a    *)
(* slot with an entry to another connection rests on the entries being the *)
(* descriptors of their slots up to that point, and on there being none at *)
(* the top of the loop.                                                    *)

PollInv ==
    /\ PollEntriesFresh
    /\ pc \in {"top", "pins"} => poll_fds = NothingPolled
    /\ pc = "accept" => /\ \A i \in Slots : poll_fds[i] \in {sockfd[i], NoFd}
                        /\ poll_fds[MaxSessions] = NoFd

\* An entry that is served or a session that is closed makes nothing stale.
LEMMA ClosingKeepsFresh ==
    ASSUME IInv, PollEntriesFresh,
           \A i \in Slots : sockfd'[i] \in {sockfd[i], NoFd},
           \A i \in PollIndex : poll_fds'[i] \in {poll_fds[i], NoFd}
    PROVE  PollEntriesFresh'
  <1>1. Slots \subseteq PollIndex /\ MaxSessions \in PollIndex
    BY SessionAssumption DEF Slots, PollIndex
  <1>2. \A i \in Slots : poll_fds'[i] # NoFd => poll_fds'[i] = poll_fds[i]
    BY <1>1
  <1>3. poll_fds'[MaxSessions] # NoFd => poll_fds'[MaxSessions] = poll_fds[MaxSessions]
    BY <1>1
  <1>4. ASSUME NEW i \in Slots, poll_fds'[i] # NoFd
        PROVE  sockfd'[i] \in {poll_fds'[i], NoFd}
    BY <1>2, <1>4 DEF PollEntriesFresh
  <1>5. ASSUME poll_fds'[MaxSessions] # NoFd, NEW i \in Slots
        PROVE  poll_fds'[i] # poll_fds'[MaxSessions]
    BY <1>1, <1>2, <1>3, <1>5 DEF PollEntriesFresh
  <1> QED
    BY <1>4, <1>5 DEF PollEntriesFresh

\* Closing slots leaves the others alone.
LEMMA CloseSlotsSockfd ==
    ASSUME NEW S, session_close_slots(S)
    PROVE  \A i \in Slots : sockfd'[i] \in {sockfd[i], NoFd}
  BY DEF session_close_slots

\* poll() fills poll_fds with the descriptors of the table, MaxSessions left
\* out; before that it is empty.
LEMMA TopKeepsFresh ==
    ASSUME IInv, PollInv, IdleDisconnect \/ PollReturns \/ PollFails
    PROVE  PollInv'
  <1>1. CASE IdleDisconnect
    <2>1. /\ pc = "top" /\ pc' = "top" /\ poll_fds' = poll_fds
          /\ \A i \in Slots : sockfd'[i] \in {sockfd[i], NoFd}
      BY <1>1, CloseSlotsSockfd DEF IdleDisconnect, close_connection, session_close, sessionVars
    <2>2. PollEntriesFresh'
      BY <2>1, ClosingKeepsFresh DEF PollInv
    <2> QED
      BY <2>1, <2>2 DEF PollInv
  <1>2. CASE PollReturns
    <2> DEFINE ready == [i \in PollIndex |->
                           IF i \in OpenSlots /\ Readable(sockfd[i]) THEN sockfd[i] ELSE NoFd]
    <2>1. /\ poll_fds' = ready
          /\ sockfd' = sockfd
          /\ pc' \in {"accept", "expire", "pins"}
          /\ pc' = "pins" => ready = NothingPolled
      BY <1>2 DEF PollReturns, sessionVars
    <2>2. Slots \subseteq PollIndex /\ MaxSessions \in PollIndex /\ MaxSessions \notin Slots
      BY SessionAssumption DEF Slots, PollIndex
    <2>3. ready[MaxSessions] = NoFd
      BY <2>2 DEF OpenSlots
    <2>4. \A i \in Slots : ready[i] \in {sockfd[i], NoFd}
      BY <2>2
    <2> HIDE DEF ready
    <2>5. PollEntriesFresh'
      BY <2>1, <2>3, <2>4 DEF PollEntriesFresh
    <2> QED
      BY <2>1, <2>3, <2>4, <2>5 DEF PollInv
  <1>3. CASE PollFails
    <2>1. /\ pc' = "exit" /\ poll_fds' = poll_fds
          /\ \A i \in Slots : sockfd'[i] \in {sockfd[i], NoFd}
      BY <1>3, CloseSlotsSockfd DEF PollFails, session_close_all
    <2>2. PollEntriesFresh'
      BY <2>1, ClosingKeepsFresh DEF PollInv
    <2> QED
      BY <2>1, <2>2 DEF PollInv
  <1> QED
    BY <1>1, <1>2, <1>3

\* A descriptor accept() returns was closed, so no entry is the same; the slot
\* it goes to was free, so it has none.
LEMMA AdmissionKeepsFresh ==
    ASSUME IInv, PollInv,
           \/ AcceptFails \/ TurnedAway
           \/ (\E f \in Fd : OpenNewClient(f)) \/ CloseExpired
    PROVE  PollInv'
  <1>1. CASE AcceptFails \/ TurnedAway \/ CloseExpired
    <2>1. /\ pc' \in {"expire", "clients"} /\ poll_fds' = poll_fds
          /\ \A i \in Slots : sockfd'[i] \in {sockfd[i], NoFd}
      BY <1>1, CloseSlotsSockfd
         DEF AcceptFails, TurnedAway, TlsAcceptFails, RefuseNewClient,
             CloseExpired, session_close_expired_unauth, sessionVars
    <2>2. PollEntriesFresh'
      BY <2>1, ClosingKeepsFresh DEF PollInv
    <2> QED
      BY <2>1, <2>2 DEF PollInv
  <1>2. ASSUME NEW f \in Fd, OpenNewClient(f)
        PROVE  PollInv'
    <2>1. PICK s \in Slots : sockfd[s] = NoFd /\ sockfd' = [sockfd EXCEPT ![s] = f]
      BY <1>2 DEF OpenNewClient, session_open, session_find
    <2>2. /\ pc = "accept" /\ pc' = "expire" /\ f \notin open
          /\ poll_fds' \in {poll_fds, [poll_fds EXCEPT ![MaxSessions] = f]}
      BY <1>2 DEF OpenNewClient, extnet_accept_connection
    <2>3. /\ \A i \in Slots : poll_fds[i] \in {sockfd[i], NoFd}
          /\ poll_fds[MaxSessions] = NoFd
      BY <2>2 DEF PollInv
    <2>4. MaxSessions \in PollIndex /\ MaxSessions \notin Slots /\ Slots \subseteq PollIndex
      BY SessionAssumption DEF Slots, PollIndex
    <2>5. /\ poll_fds \in [PollIndex -> Fd \cup {NoFd}]
          /\ sockfd \in [Slots -> Fd \cup {NoFd}]
      BY DEF IInv, LoopTypeOK, TableInv, SessionTypeOK
    <2>6. \A i \in Slots : poll_fds[i] # NoFd => poll_fds[i] \in open
      <3>1. \A i \in Slots : sockfd[i] # NoFd => sockfd[i] \in open
        BY DEF IInv, TableInv, SocketsAccounted, OpenSlots
      <3> QED
        BY <2>3, <3>1
    <2>7. \A i \in Slots : poll_fds'[i] = poll_fds[i]
      BY <2>2, <2>4, <2>5
    <2>8. ASSUME NEW i \in Slots, poll_fds'[i] # NoFd
          PROVE  sockfd'[i] \in {poll_fds'[i], NoFd}
      <3>1. i # s
        BY <2>1, <2>3, <2>7, <2>8
      <3> QED
        BY <2>1, <2>3, <2>5, <2>7, <2>8, <3>1
    <2>9. ASSUME poll_fds'[MaxSessions] # NoFd, NEW i \in Slots
          PROVE  poll_fds'[i] # poll_fds'[MaxSessions]
      <3>1. poll_fds'[MaxSessions] = f
        BY <2>2, <2>3, <2>4, <2>5, <2>9
      <3>2. f # NoFd
        BY ExtNetAssumption
      <3> QED
        BY <2>2, <2>6, <2>7, <3>1, <3>2
    <2> QED
      BY <2>2, <2>8, <2>9 DEF PollInv, PollEntriesFresh
  <1> QED
    BY <1>1, <1>2

\* Every other step serves entries, closes sessions, or does neither.
LEMMA OthersKeepFresh ==
    ASSUME IInv, PollInv,
           \/ \E i \in PollIndex : ServeEntry(i)
           \/ ProcessMsg \/ ProcessMsgFails \/ ProcessMsgCrashes \/ ClientsDone
           \/ PinsDone \/ PinsFail \/ PinsSpin
           \/ Environment \/ Tick \/ UNCHANGED vars
    PROVE  PollInv'
  <1>1. poll_fds \in [PollIndex -> Fd \cup {NoFd}]
    BY DEF IInv, LoopTypeOK
  <1>2. CASE \E i \in PollIndex : ServeEntry(i)
    <2>1. PICK i \in PollIndex : ServeEntry(i)
      BY <1>2
    <2>2. pc' \in {"clients", "read"} /\ poll_fds' = [poll_fds EXCEPT ![i] = NoFd]
      BY <2>1 DEF ServeEntry, Vanished, AlreadyAuthenticated, HandshakeFails, HandshakeTooLate,
                  ClientAuthenticated, ClientConnectFails, Unauthenticated, Served
    <2>3. \A s \in Slots : sockfd'[s] \in {sockfd[s], NoFd}
      BY <2>1, CloseSlotsSockfd
         DEF ServeEntry, Vanished, AlreadyAuthenticated, HandshakeFails, HandshakeTooLate,
             ClientAuthenticated, ClientConnectFails, session_close, session_auth_complete,
             sessionVars
    <2>4. PollEntriesFresh'
      BY <1>1, <2>2, <2>3, ClosingKeepsFresh DEF PollInv
    <2> QED
      BY <2>2, <2>4 DEF PollInv
  <1>3. CASE \/ ProcessMsg \/ ProcessMsgFails \/ ProcessMsgCrashes \/ ClientsDone
             \/ PinsDone \/ PinsFail \/ PinsSpin
    <2>1. /\ pc' \in {"clients", "crash", "pins", "top", "spin"} /\ poll_fds' = poll_fds
          /\ pc' \in {"pins", "top"} => poll_fds = NothingPolled
      BY <1>3 DEF PollInv, ProcessMsg, ProcessMsgFails, ProcessMsgCrashes, ClientsDone, PinsDone,
                  PinsFail, PinsSpin
    <2>2. \A s \in Slots : sockfd'[s] \in {sockfd[s], NoFd}
      BY <1>3, CloseSlotsSockfd
         DEF ProcessMsg, ProcessMsgFails, ProcessMsgCrashes, ClientsDone, PinsDone, PinsFail,
             PinsSpin, close_connection, session_close, sessionVars
    <2>3. PollEntriesFresh'
      BY <2>1, <2>2, ClosingKeepsFresh DEF PollInv
    <2> QED
      BY <2>1, <2>3 DEF PollInv
  <1>4. CASE Environment \/ Tick \/ UNCHANGED vars
    <2>1. UNCHANGED <<pc, poll_fds, sockfd>>
      BY <1>4 DEF Environment, Tick, vars, sessionVars, serverVars
    <2> QED
      BY <2>1 DEF PollInv, PollEntriesFresh
  <1> QED
    BY <1>2, <1>3, <1>4

\* An entry of poll_fds that was taken before a client was accepted or a
\* session closed is never credited to another connection, for every number of
\* sessions and descriptors.
THEOREM PollIsFresh == Spec => []PollEntriesFresh
  <1>1. Init => PollInv
    <2>1. ASSUME Init PROVE PollEntriesFresh
      <3>1. \A i \in PollIndex : poll_fds[i] = NoFd
        BY <2>1 DEF Init, NothingPolled
      <3>2. MaxSessions \in PollIndex /\ Slots \subseteq PollIndex
        BY SessionAssumption DEF Slots, PollIndex
      <3> QED
        BY <3>1, <3>2 DEF PollEntriesFresh
    <2> QED
      BY <2>1 DEF Init, PollInv
  <1>2. IInv /\ PollInv /\ [Next]_vars => PollInv'
    <2> SUFFICES ASSUME IInv, PollInv, [Next]_vars PROVE PollInv'
      OBVIOUS
    <2> QED
      BY TopKeepsFresh, AdmissionKeepsFresh, OthersKeepFresh DEF Next, ServerStep,
         AcceptReturns, TurnedAway
  <1>3. PollInv => PollEntriesFresh
    BY DEF PollInv
  <1> QED
    BY <1>1, <1>2, <1>3, Invariance, PTL DEF Spec

-----------------------------------------------------------------------------
(***************************************************************************)
(* The daemon implements DebugAccess, and its owner loses the target only  *)
(* for the reasons OwnerKeepsSession names: both follow from a             *)
(* classification of the steps into those that leave the ownership alone,  *)
(* those that let go of the target, the authentication of a client, and    *)
(* the initialisation of the target handler.                               *)
(***************************************************************************)
\* The step changes nothing that DebugAccess can see, and keeps the owner's slot.
Quiet ==
    /\ n_authenticated_id' = n_authenticated_id
    /\ Owner' = Owner
    /\ instance' <=> instance
    /\ target' = "init" <=> target = "init"

\* The step lets go of the target, and perhaps of its owner.
LetGo ==
    /\ ~instance'
    /\ target' = "null"
    /\ Owner' \in {Owner, NoFd}

-----------------------------------------------------------------------------
\* An authenticated client has a descriptor.
LEMMA OwnerHasFd ==
    ASSUME IInv
    PROVE  HasOwner <=> Owner # NoFd
  BY DEF IInv, TableInv, OneAuthenticated, HasOwner, Owner

\* Freeing the message layer, with or without closing some sessions, lets go
\* of the target; when nobody owned it, nothing visible happens.
LEMMA FreeLetsGo ==
    ASSUME IInv, asd_msg_free,
           \/ \E S \in SUBSET Slots : session_close_slots(S)
           \/ UNCHANGED sessionVars
    PROVE  LetGo /\ (~HasOwner => Quiet)
  <1>1. ~instance' /\ target' = "null"
    BY FreeReleases DEF IInv
  <1>2. ~HasOwner => ~instance /\ target # "init"
    BY DEF IInv, TargetHasOwner
  <1>3. ASSUME NEW S \in SUBSET Slots, session_close_slots(S)
        PROVE  /\ Owner' \in {Owner, NoFd}
               /\ ~HasOwner => n_authenticated_id' = n_authenticated_id /\ Owner' = Owner
    <2>1. Owner' \in {Owner, NoFd}
      BY <1>3, CloseSlotsOwner DEF IInv
    <2>2. ~HasOwner => n_authenticated_id \notin S
      BY NoSessionIsNoSlot DEF HasOwner
    <2> QED
      BY <1>3, <2>1, <2>2, CloseSlotsOwner DEF IInv
  <1>4. CASE UNCHANGED sessionVars
    BY <1>1, <1>2, <1>4 DEF LetGo, Quiet, Owner, HasOwner, sessionVars
  <1>5. CASE \E S \in SUBSET Slots : session_close_slots(S)
    BY <1>1, <1>2, <1>3, <1>5 DEF LetGo, Quiet
  <1> QED
    BY <1>4, <1>5

\* close_connection does nothing or lets go.
LEMMA CloseConnectionLetsGo ==
    ASSUME IInv, close_connection
    PROVE  LetGo \/ Quiet
  <1>1. CASE ~HasOwner
    BY <1>1 DEF close_connection, Quiet, Owner, HasOwner, sessionVars, targetVars
  <1>2. CASE HasOwner
    <2>1. /\ asd_msg_free
          /\ \/ session_close_slots(session_find(sockfd[n_authenticated_id]))
             \/ UNCHANGED sessionVars
      BY <1>2 DEF close_connection, on_client_disconnect, session_close
    <2>2. session_find(sockfd[n_authenticated_id]) \in SUBSET Slots
      BY FindFacts
    <2> QED
      BY <2>1, <2>2, FreeLetsGo
  <1> QED
    BY <1>1, <1>2

-----------------------------------------------------------------------------
(* The classification of the steps. *)

\* The steps that may cost the owner the target.
Losing ==
    \/ IdleDisconnect
    \/ PollFails
    \/ ProcessMsgFails
    \/ PinsFail

\* A losing step lets go of the target or does nothing visible.
LEMMA LosingLetsGo ==
    ASSUME IInv, Losing
    PROVE  (LetGo /\ HasOwner) \/ Quiet
  <1>1. CASE IdleDisconnect \/ PinsFail
    <2>1. close_connection
      BY <1>1 DEF IdleDisconnect, PinsFail
    <2>2. CASE HasOwner
      BY <2>1, <2>2, CloseConnectionLetsGo
    <2>3. CASE ~HasOwner
      BY <2>1, <2>3
         DEF close_connection, Quiet, Owner, HasOwner, sessionVars, targetVars
    <2> QED
      BY <2>2, <2>3
  <1>2. CASE PollFails
    <2>1. OpenSlots \in SUBSET Slots /\ session_close_slots(OpenSlots) /\ asd_msg_free
      BY <1>2 DEF PollFails, session_close_all, OpenSlots
    <2> QED
      BY <2>1, FreeLetsGo
  <1>3. CASE ProcessMsgFails
    <2>1. /\ session_find(sockfd[p_extconn]) \in SUBSET Slots
          /\ session_close_slots(session_find(sockfd[p_extconn]))
          /\ asd_msg_free
      BY <1>3, FindFacts DEF ProcessMsgFails, session_close, on_client_disconnect
    <2> QED
      BY <2>1, FreeLetsGo
  <1> QED
    BY <1>1, <1>2, <1>3 DEF Losing

\* The steps of the loop that serve other clients, or nobody.
LEMMA OthersAreQuiet ==
    ASSUME IInv,
           \/ PollReturns \/ AcceptFails \/ TurnedAway
           \/ (\E f \in Fd : OpenNewClient(f))
           \/ CloseExpired
           \/ ProcessMsgCrashes \/ ClientsDone \/ PinsDone \/ PinsSpin
           \/ Environment \/ Tick \/ UNCHANGED vars
    PROVE  Quiet
  <1>1. CASE \/ PollReturns \/ AcceptFails \/ TurnedAway
             \/ ProcessMsgCrashes \/ ClientsDone \/ PinsDone \/ PinsSpin
             \/ Environment \/ Tick \/ UNCHANGED vars
    <2>1. UNCHANGED <<sockfd, n_authenticated_id, instance, target>>
      BY <1>1 DEF PollReturns, AcceptFails, TurnedAway, TlsAcceptFails,
                  RefuseNewClient, ProcessMsgCrashes, ClientsDone, PinsDone, PinsSpin, Environment, Tick, vars,
                  sessionVars, targetVars, asd_msg_get_fds, drop_fds
    <2> QED
      BY <2>1 DEF Quiet, Owner, HasOwner
  <1>2. ASSUME NEW f \in Fd, OpenNewClient(f)
        PROVE  Quiet
    BY <1>2, OpenKeepsTable DEF IInv, OpenNewClient, targetVars, Quiet, Owner, HasOwner
  <1>3. CASE CloseExpired
    <2>1. ExpiredSlots \in SUBSET Slots /\ session_close_slots(ExpiredSlots)
      BY <1>3 DEF CloseExpired, session_close_expired_unauth, ExpiredSlots, OpenSlots
    <2>2. n_authenticated_id \notin ExpiredSlots
      BY <2>1, UnauthenticatedIsNotOwner DEF IInv, ExpiredSlots
    <2> QED
      BY <1>3, <2>1, <2>2, CloseSlotsOwner DEF IInv, CloseExpired, targetVars, Quiet
  <1> QED
    BY <1>1, <1>2, <1>3

\* Serving a polled session: quiet unless it makes the session the owner.
LEMMA ServingIsQuiet ==
    ASSUME IInv, NEW i \in PollIndex, ServeEntry(i)
    PROVE  Quiet \/ ClientAuthenticated(i)
  <1>1. CASE Vanished(i) \/ AlreadyAuthenticated(i)
    BY <1>1 DEF Vanished, AlreadyAuthenticated, sessionVars, targetVars, Quiet,
                Owner, HasOwner
  <1>2. CASE HandshakeFails(i) \/ HandshakeTooLate(i)
    <2>1. /\ \E s \in session_find(poll_fds[i]) : ~Authenticated(s)
          /\ session_close(poll_fds[i])
          /\ UNCHANGED <<instance, target>>
      BY <1>2 DEF HandshakeFails, HandshakeTooLate, Unauthenticated, targetVars
    <2> QED
      BY <2>1, CloseUnauthenticated DEF IInv, Quiet
  <1>3. CASE ClientConnectFails(i)
    <2>1. /\ ~HasOwner
          /\ asd_msg_free
          /\ session_find(poll_fds[i]) \in SUBSET Slots
          /\ session_close_slots(session_find(poll_fds[i]))
      BY <1>3, FindFacts
         DEF ClientConnectFails, Unauthenticated, on_client_disconnect, session_close
    <2> QED
      BY <2>1, FreeLetsGo
  <1> QED
    BY <1>1, <1>2, <1>3 DEF ServeEntry

\* The four kinds of step.
LEMMA StepKinds ==
    ASSUME IInv, [Next]_vars
    PROVE  \/ Quiet
           \/ Losing /\ LetGo /\ HasOwner
           \/ \E i \in PollIndex : ClientAuthenticated(i)
           \/ ProcessMsg
  <1>1. CASE Losing
    BY <1>1, LosingLetsGo
  <1>2. CASE \/ PollReturns \/ AcceptFails \/ TurnedAway
             \/ (\E f \in Fd : OpenNewClient(f))
             \/ CloseExpired
             \/ ProcessMsgCrashes \/ ClientsDone \/ PinsDone \/ PinsSpin
             \/ Environment \/ Tick \/ UNCHANGED vars
    BY <1>2, OthersAreQuiet
  <1>3. CASE \E i \in PollIndex : ServeEntry(i)
    BY <1>3, ServingIsQuiet
  <1> QED
    BY <1>1, <1>2, <1>3 DEF Next, ServerStep, AcceptReturns, TurnedAway, Losing

\* The authentication of a client is the abstract Acquire.
LEMMA AuthenticatedAcquires ==
    ASSUME IInv, NEW i \in PollIndex, ClientAuthenticated(i)
    PROVE  /\ ~HasOwner
           /\ poll_fds[i] \in Fd
           /\ Owner = NoFd /\ ~instance /\ target = "null"
           /\ Owner' = poll_fds[i] /\ instance' = TRUE /\ target' = "made"
  <1>1. ~HasOwner
    BY DEF ClientAuthenticated, session_auth_complete
  <1>2. poll_fds[i] \in Fd
    BY EntryIsFd DEF IInv, ClientAuthenticated, Unauthenticated
  <1>3. Owner = NoFd /\ ~instance /\ target = "null"
    BY <1>1 DEF IInv, TargetHasOwner, Owner
  <1>4. instance' = TRUE /\ target' = "made"
    BY DEF ClientAuthenticated, asd_msg_init
  <1>5. PICK s \in session_find(poll_fds[i]) : n_authenticated_id' = s /\ sockfd' = sockfd
    BY DEF ClientAuthenticated, session_auth_complete
  <1>6. s \in Slots /\ sockfd[s] = poll_fds[i]
    BY FindFacts
  <1>7. Owner' = poll_fds[i]
    BY <1>5, <1>6, NoSessionIsNoSlot DEF Owner, HasOwner
  <1> QED
    BY <1>1, <1>2, <1>3, <1>4, <1>7

\* A message read for the owner is quiet or the abstract Drive.
LEMMA MessageDrives ==
    ASSUME IInv, ProcessMsg
    PROVE  /\ n_authenticated_id' = n_authenticated_id
           /\ Owner' = Owner
           /\ instance' = instance
           /\ \/ target' = target
              \/ HasOwner /\ instance /\ target = "made" /\ target' = "init"
  <1>1. UNCHANGED <<sockfd, n_authenticated_id>> /\ asd_msg_read
    BY DEF ProcessMsg, sessionVars
  <1>2. target = "made" => instance /\ HasOwner
    BY DEF IInv, TargetHasOwner
  <1> QED
    BY <1>1, <1>2 DEF asd_msg_read, Owner, HasOwner

-----------------------------------------------------------------------------
\* The owner's session and handlers are taken from it only by its own message,
\* by the idle timeout, by a pin failure or at exit, never by what another
\* client does or fails to do.
THEOREM OwnerIsKept == Spec => OwnerKeepsSession
  <1> DEFINE Reason ==
        \/ pc = "top" /\ (IdleExpired \/ pc' = "exit")
        \/ pc = "read" /\ p_extconn = n_authenticated_id
        \/ pc = "pins" /\ pins # "none"
  <1> DEFINE Lost == HasOwner /\ (n_authenticated_id' # n_authenticated_id
                                    \/ (instance /\ ~instance'))
  <1>1. ASSUME IInv, [Next]_vars PROVE Lost => Reason
    <2>1. CASE Quiet
      BY <2>1 DEF Quiet
    <2>2. CASE Losing
      BY <1>1, <2>2 DEF Losing, IdleDisconnect, PollFails, ProcessMsgFails, PinsFail,
                        IInv, ReadsFromOwner
    <2>3. ASSUME NEW i \in PollIndex, ClientAuthenticated(i) PROVE ~HasOwner
      BY <1>1, <2>3, AuthenticatedAcquires
    <2>4. CASE ProcessMsg
      BY <1>1, <2>4, MessageDrives
    <2> QED
      BY <1>1, <2>1, <2>2, <2>3, <2>4, StepKinds
  <1>2. IInv /\ [Next]_vars => [Lost => Reason]_vars
    BY <1>1
  <1> QED
    BY <1>2, Invariance, PTL DEF Spec, OwnerKeepsSession

\* The daemon, with all its sockets, slots and timeouts, implements the
\* promise of DebugAccess: one owner at a time, none before the previous one's
\* handlers are gone, hardware driven only while the owner is attached.
THEOREM ImplementsAccess == Spec => AccessRefined
  <1>1. Init => Access!AccessInit
    BY DEF Init, SessionInit, TargetInit, Access!AccessInit, HasOwner
  <1>2. ASSUME IInv, IInv', [Next]_vars
        PROVE  [Access!AccessNext]_(Access!accessVars)
    <2>1. instance \in BOOLEAN /\ instance' \in BOOLEAN
      BY <1>2 DEF IInv, TargetTypeOK
    <2>2. CASE Quiet
      <3>1. Owner' = Owner /\ instance' = instance
        BY <2>1, <2>2 DEF Quiet
      <3>2. (target' = "init") = (target = "init")
        BY <2>2 DEF Quiet
      <3> QED
        BY <3>1, <3>2 DEF Access!accessVars, Owner, HasOwner
    <2>3. CASE LetGo /\ HasOwner
      <3>1. Owner # NoFd /\ Owner' \in {Owner, NoFd}
        BY <1>2, <2>3, OwnerHasFd DEF LetGo
      <3>2. instance' = FALSE /\ (target' = "init") = FALSE
        BY <2>1, <2>3 DEF LetGo
      <3>3. Access!Detach
        BY <3>1, <3>2 DEF Access!Detach, Owner, HasOwner
      <3> QED
        BY <3>3 DEF Access!AccessNext
    <2>4. ASSUME NEW i \in PollIndex, ClientAuthenticated(i)
          PROVE  Access!AccessNext
      <3>1. Access!Acquire(poll_fds[i])
        BY <1>2, <2>4, AuthenticatedAcquires DEF Access!Acquire, Owner, HasOwner
      <3> QED
        BY <1>2, <2>4, <3>1, AuthenticatedAcquires DEF Access!AccessNext
    <2>5. CASE ProcessMsg
      <3>1. CASE target' = target
        BY <1>2, <2>5, <3>1, MessageDrives DEF Access!accessVars, Owner, HasOwner
      <3>2. CASE target' # target
        <4>1. /\ Owner # NoFd /\ Owner' = Owner
              /\ instance /\ instance' = instance
              /\ target = "made" /\ target' = "init"
          BY <1>2, <2>5, <3>2, MessageDrives, OwnerHasFd
        <4>2. Access!Drive
          BY <4>1 DEF Access!Drive, Owner, HasOwner
        <4> QED
          BY <4>2 DEF Access!AccessNext
      <3> QED
        BY <3>1, <3>2
    <2> QED
      BY <1>2, <2>2, <2>3, <2>4, <2>5, StepKinds
  <1>3. IInv /\ IInv' /\ [Next]_vars => [Access!AccessNext]_(Access!accessVars)
    BY <1>2
  <1> QED
    BY <1>1, <1>3, Invariance, PTL DEF Spec, AccessRefined, Access!AccessSpec
=============================================================================

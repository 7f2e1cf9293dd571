----------------------------- MODULE AsdServer -----------------------------
(***************************************************************************)
(* The ASD daemon's request loop (server/asd_main.c): one thread that, for *)
(* ever, checks the idle timeout, polls the listening socket, the pins and *)
(* every session, admits a new client, closes the sessions that took too   *)
(* long to authenticate, serves one message of each readable session and   *)
(* reports the pin events.                                                 *)
(*                                                                         *)
(* An iteration of the loop is split where remote clients, or the clock,   *)
(* can be observed to act in between: at every blocking call.  pc says     *)
(* where the thread is; poll_fds is its snapshot of the readable sessions, *)
(* taken at the top and worked off while the sessions themselves change.   *)
(***************************************************************************)
EXTENDS Session, AsdTarget

CONSTANTS
    Encryption,    \* values of encrypted to start with
    TimeoutEnabled,\* timecfg.is_timeout_enabled
    IdleTimeout,   \* timecfg.idle_timeout, in ticks
    EnableSpp,     \* buscfg.enable_spp, from the command line
    ConnectMayFail \* the target library may refuse the server's interface

ASSUME AsdServerAssumption ==
    /\ Encryption \subseteq BOOLEAN
    /\ TimeoutEnabled \in BOOLEAN
    /\ IdleTimeout \in Nat
    /\ EnableSpp \in BOOLEAN
    /\ ConnectMayFail \in BOOLEAN

VARIABLES
    encrypted,     \* TLS with PAM (default), or TCP without authentication (-u)
    pc,            \* where the thread is in request_processing_loop
    poll_fds,      \* readable sessions not served yet, by slot; the entry
                   \* MaxSessions is the one stuffed in for a new TCP client
    p_extconn,     \* slot whose socket read_data uses; NoSession where no
                   \* read can happen, until it is assigned again
    is_connected,  \* the static flag that arms the idle timeout
    idle           \* ticks since last_activity_time, saturating

serverVars == <<encrypted, pc, poll_fds, p_extconn, is_connected, idle>>
vars == <<netVars, sessionVars, targetVars, serverVars>>

PollIndex == 0..MaxSessions

\* "spin": asd_target_process_all_pin_events never returns;
\* "crash": a NULL handler is dereferenced; "exit": the daemon has stopped.
Stopped == {"exit", "crash", "spin"}
Label == {"top", "accept", "expire", "clients", "read", "pins"} \cup Stopped

NothingPolled == [i \in PollIndex |-> NoFd]

Init ==
    /\ NetInit
    /\ SessionInit
    /\ TargetInit
    /\ encrypted \in Encryption
    /\ pc = "top"
    /\ poll_fds = NothingPolled
    /\ p_extconn = NoSession
    /\ is_connected = FALSE
    /\ idle = 0

-----------------------------------------------------------------------------
(* Helpers shared by several steps. *)

\* on_client_disconnect, whatever status it returns.
on_client_disconnect ==
    /\ is_connected' = FALSE
    /\ asd_msg_free

\* close_connection: without an authenticated client nothing happens; with
\* one, its session is closed only if on_client_disconnect returned ST_OK.
close_connection ==
    \/ /\ ~HasOwner
       /\ UNCHANGED <<netVars, sessionVars, targetVars, is_connected>>
    \/ /\ HasOwner
       /\ on_client_disconnect
       /\ \E ok \in FreeResults :
            IF ok THEN session_close(sockfd[n_authenticated_id])
                  ELSE UNCHANGED <<netVars, sessionVars>>

\* check_idle_timeout, evaluated only while is_connected.
IdleExpired == TimeoutEnabled /\ is_connected /\ idle > IdleTimeout

\* i is the next entry of poll_fds to be served.
NextEntry(i) ==
    /\ poll_fds[i] # NoFd
    /\ \A j \in PollIndex : j < i => poll_fds[j] = NoFd

Served(i) == poll_fds' = [poll_fds EXCEPT ![i] = NoFd]

-----------------------------------------------------------------------------
(* The top of the loop. *)

IdleDisconnect ==
    /\ pc = "top"
    /\ IdleExpired
    /\ close_connection
    /\ idle' = 0
    /\ UNCHANGED <<encrypted, pc, poll_fds, p_extconn>>

\* Mutation: the listening socket is looked at only when no session is
\* readable.
PollReturnsSessionsFirst ==
    LET ready == [i \in PollIndex |->
                    IF i \in OpenSlots /\ Readable(sockfd[i])
                    THEN sockfd[i] ELSE NoFd]
    IN  /\ pc = "top"
        /\ ~IdleExpired
        /\ asd_msg_get_fds
        /\ poll_fds' = ready
        /\ pc' = IF ready # NothingPolled THEN "expire"
                 ELSE IF backlog > 0 THEN "accept" ELSE "pins"
        /\ UNCHANGED <<encrypted, netVars, sessionVars, p_extconn,
                       is_connected, idle>>

\* poll() returns.  With nothing to report the loop goes straight to the pins.
\* A pin event alone is enough to run the session pass.
PollReturns ==
    LET ready == [i \in PollIndex |->
                    IF i \in OpenSlots /\ Readable(sockfd[i])
                    THEN sockfd[i] ELSE NoFd]
    IN  /\ pc = "top"
        /\ ~IdleExpired
        /\ asd_msg_get_fds
        /\ poll_fds' = ready
        /\ \/ backlog > 0 /\ pc' = "accept"
           \/ backlog = 0 /\ ready # NothingPolled /\ pc' = "expire"
           \/ backlog = 0 /\ pins' = "live" /\ pc' = "expire"
           \/ backlog = 0 /\ ready = NothingPolled /\ pc' = "pins"
        /\ UNCHANGED <<encrypted, netVars, sessionVars, p_extconn,
                       is_connected, idle>>

\* poll() returns -1, by a signal for instance: the loop is left and
\* deinit_asd_state closes the sessions, the listening socket and the target.
PollFails ==
    /\ pc = "top"
    /\ ~IdleExpired
    /\ session_close_all
    /\ asd_msg_free
    /\ pc' = "exit"
    /\ UNCHANGED <<encrypted, poll_fds, p_extconn, is_connected, idle>>

-----------------------------------------------------------------------------
(* process_new_client. *)

AcceptFails ==
    /\ pc = "accept"
    /\ extnet_accept_fails
    /\ pc' = "expire"
    /\ UNCHANGED <<encrypted, sessionVars, targetVars, poll_fds, p_extconn,
                   is_connected, idle>>

\* The on_accept hook of the transport failed; that of TCP cannot.
TlsAcceptFails(f) ==
    /\ pc = "accept"
    /\ encrypted
    /\ extnet_drop_connection(f)
    /\ pc' = "expire"
    /\ UNCHANGED <<encrypted, sessionVars, targetVars, poll_fds, p_extconn,
                   is_connected, idle>>

\* session_open found no free slot; the new connection is closed.
RefuseNewClient(f) ==
    /\ pc = "accept"
    /\ session_find(NoFd) = {}
    /\ extnet_drop_connection(f)
    /\ pc' = "expire"
    /\ UNCHANGED <<encrypted, sessionVars, targetVars, poll_fds, p_extconn,
                   is_connected, idle>>

\* Without authentication the new descriptor is stuffed into poll_fds as if
\* it were readable, to be served in this very iteration.
OpenNewClient(f) ==
    /\ pc = "accept"
    /\ extnet_accept_connection(f)
    /\ session_open(f)
    /\ is_connected' = TRUE
    /\ poll_fds' = IF encrypted THEN poll_fds
                   ELSE [poll_fds EXCEPT ![MaxSessions] = f]
    /\ pc' = "expire"
    /\ UNCHANGED <<encrypted, targetVars, p_extconn, idle>>

-----------------------------------------------------------------------------
(* process_all_client_messages: expiry first, then one message of each     *)
(* readable session.                                                       *)

CloseExpired ==
    /\ pc = "expire"
    /\ session_close_expired_unauth
    /\ pc' = "clients"
    /\ UNCHANGED <<encrypted, targetVars, poll_fds, p_extconn, is_connected,
                   idle>>

\* "Session for fd vanished!"
Vanished(i) ==
    /\ pc = "clients"
    /\ NextEntry(i)
    /\ session_find(poll_fds[i]) = {}
    /\ Served(i)
    /\ UNCHANGED <<encrypted, netVars, sessionVars, targetVars, pc, p_extconn,
                   is_connected, idle>>

\* Mutation: any session that is still open is taken as authenticated.
AlreadyConnected(i) ==
    /\ pc = "clients"
    /\ NextEntry(i)
    /\ p_extconn' \in session_find(poll_fds[i])
    /\ Served(i)
    /\ pc' = "read"
    /\ UNCHANGED <<encrypted, netVars, sessionVars, targetVars, is_connected,
                   idle>>

\* The session is authenticated already: on to asd_msg_read.
AlreadyAuthenticated(i) ==
    /\ pc = "clients"
    /\ NextEntry(i)
    /\ \E s \in session_find(poll_fds[i]) :
         /\ Authenticated(s)
         /\ p_extconn' = s
    /\ Served(i)
    /\ pc' = "read"
    /\ UNCHANGED <<encrypted, netVars, sessionVars, targetVars, is_connected,
                   idle>>

\* The session of entry i has yet to authenticate.
Unauthenticated(i) ==
    /\ pc = "clients"
    /\ NextEntry(i)
    /\ \E s \in session_find(poll_fds[i]) : ~Authenticated(s)
    /\ Served(i)

\* auth_client_handshake returned ST_ERR (PAM only: auth_none cannot fail).
HandshakeFails(i) ==
    /\ Unauthenticated(i)
    /\ encrypted
    /\ session_close(poll_fds[i])
    /\ UNCHANGED <<encrypted, targetVars, pc, p_extconn, is_connected, idle>>

\* Mutation: every failed authentication runs on_client_disconnect.
HandshakeTooLateDisconnects(i) ==
    /\ Unauthenticated(i)
    /\ encrypted => rx[poll_fds[i]] > 0
    /\ HasOwner
    /\ on_client_disconnect
    /\ session_close(poll_fds[i])
    /\ UNCHANGED <<encrypted, pc, p_extconn, idle>>

\* The handshake succeeded, but session_auth_complete refuses a second
\* authenticated session.
HandshakeTooLate(i) ==
    /\ Unauthenticated(i)
    /\ encrypted => rx[poll_fds[i]] > 0
    /\ HasOwner
    /\ session_close(poll_fds[i])
    /\ UNCHANGED <<encrypted, targetVars, pc, p_extconn, is_connected, idle>>

\* Authenticated and on_client_connect succeeded: on to asd_msg_read.
ClientAuthenticated(i) ==
    /\ Unauthenticated(i)
    /\ session_auth_complete(poll_fds[i])
    /\ asd_msg_init
    /\ p_extconn' \in session_find(poll_fds[i])
    /\ IF encrypted THEN extnet_recv(poll_fds[i]) ELSE UNCHANGED netVars
    /\ pc' = "read"
    /\ UNCHANGED <<encrypted, is_connected, idle>>

\* Authenticated, but on_client_connect failed: the interface versions do not
\* match, or an instance is left over.  The session is given up again.
ClientConnectFails(i) ==
    /\ Unauthenticated(i)
    /\ encrypted => rx[poll_fds[i]] > 0
    /\ ~HasOwner
    /\ instance \/ ConnectMayFail
    /\ on_client_disconnect
    /\ session_close(poll_fds[i])
    /\ UNCHANGED <<encrypted, pc, p_extconn, idle>>

\* asd_msg_read on the session being served succeeds.
ProcessMsg ==
    /\ pc = "read"
    /\ extnet_recv(sockfd[p_extconn])
    /\ asd_msg_read
    /\ pc' = "clients"
    /\ p_extconn' = NoSession
    /\ UNCHANGED <<encrypted, sessionVars, poll_fds, is_connected, idle>>

\* Mutation: no receive timeout on a TLS socket.
RecvReturnsData == Readable(sockfd[p_extconn])

\* recv() can return: bytes or the end of the stream are there, or, on a TLS
\* socket, the receive timeout set for SSL_accept strikes.
RecvReturns == encrypted \/ Readable(sockfd[p_extconn])

\* asd_msg_read fails: the peer hung up, nothing came in time, or the message
\* could not be processed.  The client is dropped, whatever
\* on_client_disconnect returns.
ProcessMsgFails ==
    /\ pc = "read"
    /\ RecvReturns
    /\ on_client_disconnect
    /\ session_close(sockfd[p_extconn])
    /\ pc' = "clients"
    /\ p_extconn' = NoSession
    /\ UNCHANGED <<encrypted, poll_fds, idle>>

\* A message that is not agent control, on a session whose instance is gone:
\* with i3c_dbg enabled the failures of the NULL handlers are passed over and
\* msg_state.target_handler, NULL too, is dereferenced.
ProcessMsgCrashes ==
    /\ pc = "read"
    /\ rx[sockfd[p_extconn]] > 0
    /\ target = "null"
    /\ ~handlers_initialized
    /\ EnableSpp
    /\ pc' = "crash"
    /\ UNCHANGED <<encrypted, netVars, sessionVars, targetVars, poll_fds,
                   p_extconn, is_connected, idle>>

\* Every entry is served.  This was activity, whoever caused it.
ClientsDone ==
    /\ pc = "clients"
    /\ poll_fds = NothingPolled
    /\ pc' = "pins"
    /\ idle' = IF is_connected THEN 0 ELSE idle
    /\ UNCHANGED <<encrypted, netVars, sessionVars, targetVars, poll_fds,
                   p_extconn, is_connected>>

-----------------------------------------------------------------------------
(* The pins, with the descriptors copied at the top of the iteration. *)

\* Mutation: last_activity_time is updated in every iteration.
PinsDoneActive ==
    /\ pc = "pins"
    /\ pc' = "top"
    /\ drop_fds
    /\ idle' = 0
    /\ UNCHANGED <<encrypted, netVars, sessionVars, poll_fds, p_extconn,
                   is_connected>>

\* No descriptor, no event, or every event reported.
PinsDone ==
    /\ pc = "pins"
    /\ pc' = "top"
    /\ drop_fds
    /\ UNCHANGED <<encrypted, netVars, sessionVars, poll_fds, p_extconn,
                   is_connected, idle>>

\* asd_msg_event failed: XDP was plugged in, the event could not be sent, or
\* the descriptors belong to a target handler that is gone.  Whoever is
\* authenticated now is disconnected.
PinsFail ==
    /\ pc = "pins"
    /\ pins # "none"
    /\ close_connection
    /\ pc' = "top"
    /\ UNCHANGED <<encrypted, poll_fds, p_extconn, idle>>

\* A closed descriptor makes poll() return at once with POLLNVAL, which
\* target_event answers with ST_OK and no event: the cycle never ends.
PinsSpin ==
    /\ pc = "pins"
    /\ pins = "stale"
    /\ target = "init"
    /\ pc' = "spin"
    /\ UNCHANGED <<encrypted, netVars, sessionVars, targetVars, poll_fds,
                   p_extconn, is_connected, idle>>

-----------------------------------------------------------------------------
(* The environment: remote clients and the clock. *)

Environment ==
    /\ pc \notin {"exit", "crash"}
    /\ \/ ClientConnect
       \/ \E f \in Fd : ClientSend(f) \/ ClientHangUp(f)
    /\ UNCHANGED <<sessionVars, targetVars, serverVars>>

Tick ==
    /\ pc \notin Stopped
    /\ SessionTick
    /\ idle' = IF idle > IdleTimeout THEN idle ELSE idle + 1
    /\ UNCHANGED <<encrypted, netVars, targetVars, sockfd, b_authenticated,
                   n_authenticated_id, pc, poll_fds, p_extconn, is_connected>>

\* What becomes of a readable session.
ServeEntry(i) ==
    \/ Vanished(i)
    \/ AlreadyAuthenticated(i)
    \/ HandshakeFails(i)
    \/ HandshakeTooLate(i)
    \/ ClientAuthenticated(i)
    \/ ClientConnectFails(i)

\* accept() returned f.
AcceptReturns(f) ==
    \/ TlsAcceptFails(f)
    \/ RefuseNewClient(f)
    \/ OpenNewClient(f)

\* One step of the daemon's thread that its own code brings about.
ServerStep ==
    \/ IdleDisconnect
    \/ PollReturns
    \/ AcceptFails
    \/ \E f \in Fd : AcceptReturns(f)
    \/ CloseExpired
    \/ \E i \in PollIndex : ServeEntry(i)
    \/ ProcessMsg
    \/ ProcessMsgFails
    \/ ProcessMsgCrashes
    \/ ClientsDone
    \/ PinsDone
    \/ PinsFail
    \/ PinsSpin

Next == ServerStep \/ PollFails \/ Environment \/ Tick

Spec == Init /\ [][Next]_vars

\* The thread keeps running and the clock keeps moving; no client is obliged
\* to do anything.  Strong fairness of the poll says that the clock does not
\* outrun the thread: an idle timeout is at least a minute, and the iteration
\* that follows one polls within microseconds.  Strong fairness of
\* accept() says that the kernel does not refuse it for ever while there are
\* descriptors to give.
FairSpec ==
    /\ Spec
    /\ WF_vars(ServerStep)
    /\ SF_vars(\E f \in Fd : AcceptReturns(f))
    /\ SF_vars(PollReturns)
    /\ WF_vars(Tick)
-----------------------------------------------------------------------------
(* Properties. *)

\* Every variable keeps to its range; in particular an open session slot never
\* holds a deadline or an index outside the table.
TypeOK ==
    /\ NetTypeOK
    /\ SessionTypeOK
    /\ TargetTypeOK
    /\ encrypted \in BOOLEAN
    /\ pc \in Label
    /\ poll_fds \in [PollIndex -> Fd \cup {NoFd}]
    /\ p_extconn \in Slots \cup {NoSession}
    /\ is_connected \in BOOLEAN
    /\ idle \in 0..(IdleTimeout + 1)

\* session.c keeps the authentication twice, in the index and in the flag of
\* the slot: they always name the same, open slot, so at most one session is
\* authenticated whatever closes, expires or authenticates in between.
OneAuthenticated ==
    /\ \A s \in Slots : b_authenticated[s] <=> n_authenticated_id = s
    /\ HasOwner => sockfd[n_authenticated_id] # NoFd

\* The sockets the daemon holds open are exactly those of the session table,
\* each in one slot: accept, refusal, expiry, disconnection and exit neither
\* leak a descriptor nor leave a closed one behind.
SocketsAccounted ==
    /\ open = {sockfd[s] : s \in OpenSlots}
    /\ \A r, s \in OpenSlots : sockfd[r] = sockfd[s] => r = s

\* The target side exists only on behalf of an authenticated client, and no
\* handler outlives its instance: the next client never finds "only one
\* instance allowed" (asd_msg_init) taken by someone who has left.
TargetHasOwner ==
    /\ instance => HasOwner
    /\ ~instance => target = "null" /\ vprobe = "null"
    /\ instance => target # "null" /\ vprobe # "null"

\* asd_msg_read takes bytes only from the authenticated client: the static
\* p_extconn that read_data uses is the owner's slot whenever it is called.
ReadsFromOwner ==
    pc = "read" => /\ p_extconn = n_authenticated_id
                   /\ sockfd[p_extconn] \in open

\* An entry of poll_fds taken before the accept is never credited to another
\* connection that was given the same descriptor since: the slot it came from
\* still holds that descriptor or has been closed, and the entry stuffed in
\* for a new client names no polled session.
PollEntriesFresh ==
    /\ \A i \in Slots :
         poll_fds[i] # NoFd => sockfd[i] \in {poll_fds[i], NoFd}
    /\ poll_fds[MaxSessions] # NoFd =>
         \A i \in Slots : poll_fds[i] # poll_fds[MaxSessions]

\* When the daemon stops, every socket is closed and the target is released.
CleanExit ==
    pc = "exit" => open = {} /\ ~HasOwner /\ ~instance

\* The owner loses its session only by its own message, by the idle timeout,
\* by a pin failure or at exit; no connection, handshake, expiry or hang-up
\* of another client takes it away, nor the target handlers with it.
OwnerKeepsSession ==
    [][HasOwner /\ (n_authenticated_id' # n_authenticated_id
                      \/ (instance /\ ~instance'))
         => \/ pc = "top" /\ (IdleExpired \/ pc' = "exit")
            \/ pc = "read" /\ p_extconn = n_authenticated_id
            \/ pc = "pins" /\ pins # "none"]_vars

\* The daemon implements the abstract promise of module DebugAccess.
Access == INSTANCE DebugAccess WITH
    Client   <- Fd,
    Nobody   <- NoFd,
    owner    <- IF HasOwner THEN sockfd[n_authenticated_id] ELSE NoFd,
    attached <- instance,
    driven   <- target = "init"

AccessRefined == Access!AccessSpec

-----------------------------------------------------------------------------
(* Liveness, under FairSpec. *)

\* The loop always comes back to its top: no client, by staying silent in the
\* middle of anything, keeps the thread (TLS: every read times out).
LoopReturns == []<>(pc \in {"top"} \cup Stopped)

\* A waiting connection is answered, by a session or by a refusal.
ConnectorAnswered == (backlog > 0) ~> (backlog < MaxBacklog \/ pc \in Stopped)

\* A client that has hung up is noticed and its slot, and if it was the owner
\* the target, are freed.
DeadPeerReleased ==
    \A f \in Fd : (f \in eof) ~> (f \notin open \/ pc \in Stopped)

\* When from some moment on nothing is transacted any more (the loop only goes
\* round through its timeouts) and the idle timeout is armed, the target is
\* let go: the handlers are freed and the hardware is released.
QuietReleasesTarget ==
    <>[](pc \in {"top", "pins"}) => <>[](~instance \/ ~is_connected)

\* An unauthenticated session that is out of time is closed if connections
\* keep coming in: each of them runs the expiry.
ExpiredClosedByTraffic ==
    []<>(backlog > 0) =>
        \A s \in Slots :
            (s \in ExpiredSlots) ~> (s \notin ExpiredSlots \/ pc \in Stopped)

-----------------------------------------------------------------------------
(* What the repository says of the daemon, where the code does otherwise.   *)

\* asd_main.c, usage of --idle-timeout: "If no transactions within the idle
\* timeout ASD will end the session."  The step that acts on the timeout
\* leaves no authenticated session behind.
IdleTimeoutEndsSession == [][IdleDisconnect => ~HasOwner']_vars

\* session.c, goals: "Don't allow an unauthenticated connection to hold a
\* session open preventing access for other users."  A new client is turned
\* away only if every slot is authenticated or still within its time.
RefusalJustified ==
    [][(\E f \in Fd : RefuseNewClient(f)) =>
         \A s \in Slots : Authenticated(s) \/ t_auth_tout[s] > 0]_vars

\* asd_target_api.c: "This cycle will check and report all pin events before
\* checking the requests on the network."  The cycle ends.
PinCycleEnds == pc # "spin"

\* asd_msg.c: "i3c_dbg is enabled, continue without JTAG support."  A message
\* that finds no JTAG handler is survived when i3c_dbg is enabled.
SurvivesWithoutJtag == pc # "crash"
=============================================================================

------------------------------ MODULE Session ------------------------------
(***************************************************************************)
(* The session table of the daemon (server/session.c): a fixed array of    *)
(* slots, each holding the socket of one connection, the deadline by which *)
(* it must authenticate and whether it has, plus the index of the one slot *)
(* that is authenticated.                                                  *)
(*                                                                         *)
(* t_auth_tout is kept as the ticks that remain until the deadline, so     *)
(* "t_auth_tout <= time(0)" of the code reads "t_auth_tout[s] = 0" here.   *)
(* b_data_pending is left out: see module MsgRead for what it does.        *)
(***************************************************************************)
EXTENDS ExtNet

CONSTANTS
    MaxSessions, \* MAX_SESSIONS
    AuthExpire   \* SESSION_AUTH_EXPIRE_TIMEOUT, in ticks

ASSUME SessionAssumption ==
    /\ MaxSessions \in Nat \ {0}
    /\ AuthExpire \in Nat \ {0}

Slots == 0..(MaxSessions - 1)

\* NO_SESSION_AUTHENTICATED
NoSession == -1

VARIABLES
    sockfd,             \* sockfd[s]: sessions[s].extconn.sockfd
    t_auth_tout,        \* t_auth_tout[s]: ticks left to authenticate
    b_authenticated,    \* b_authenticated[s]
    n_authenticated_id  \* slot that is authenticated, or NoSession

sessionVars == <<sockfd, t_auth_tout, b_authenticated, n_authenticated_id>>

SessionTypeOK ==
    /\ sockfd \in [Slots -> Fd \cup {NoFd}]
    /\ t_auth_tout \in [Slots -> 0..AuthExpire]
    /\ b_authenticated \in [Slots -> BOOLEAN]
    /\ n_authenticated_id \in Slots \cup {NoSession}

\* session_init
SessionInit ==
    /\ sockfd = [s \in Slots |-> NoFd]
    /\ t_auth_tout = [s \in Slots |-> 0]
    /\ b_authenticated = [s \in Slots |-> FALSE]
    /\ n_authenticated_id = NoSession

\* The slot the linear search for fd stops at, as a set: {} stands for NULL.
session_find(fd) ==
    {s \in Slots : /\ sockfd[s] = fd
                   /\ \A r \in Slots : r < s => sockfd[r] # fd}

Authenticated(s) == b_authenticated[s]

\* session_get_authenticated_conn returns ST_OK (for a non-NULL argument).
HasOwner == n_authenticated_id # NoSession

-----------------------------------------------------------------------------
\* Mutation: an expired slot counts as free although its socket is open.
session_open_evicting(f) ==
    \E s \in {r \in Slots :
                 sockfd[r] = NoFd
                   \/ (~b_authenticated[r] /\ t_auth_tout[r] = 0)} :
        /\ sockfd' = [sockfd EXCEPT ![s] = f]
        /\ t_auth_tout' = [t_auth_tout EXCEPT ![s] = AuthExpire]
        /\ b_authenticated' = [b_authenticated EXCEPT ![s] = FALSE]
        /\ UNCHANGED n_authenticated_id

\* session_open: the first free slot takes the connection; none free, ST_ERR.
session_open(f) ==
    \E s \in session_find(NoFd) :
        /\ sockfd' = [sockfd EXCEPT ![s] = f]
        /\ t_auth_tout' = [t_auth_tout EXCEPT ![s] = AuthExpire]
        /\ b_authenticated' = [b_authenticated EXCEPT ![s] = FALSE]
        /\ UNCHANGED n_authenticated_id

\* session_close_private on every slot of S, with the sockets they hold.
session_close_slots(S) ==
    /\ sockfd' = [s \in Slots |-> IF s \in S THEN NoFd ELSE sockfd[s]]
    /\ t_auth_tout' = [s \in Slots |-> IF s \in S THEN 0 ELSE t_auth_tout[s]]
    /\ b_authenticated' =
         [s \in Slots |-> s \notin S /\ b_authenticated[s]]
    /\ n_authenticated_id' =
         IF n_authenticated_id \in S THEN NoSession ELSE n_authenticated_id
    /\ extnet_close_clients({sockfd[s] : s \in S})

session_close(f) == session_close_slots(session_find(f))

OpenSlots == {s \in Slots : sockfd[s] # NoFd}

\* Mutation: the loop of session_close_all stops one slot early.
session_close_all_but_last ==
    session_close_slots(OpenSlots \ {MaxSessions - 1})

session_close_all == session_close_slots(OpenSlots)

\* Open, not authenticated and out of time.
ExpiredSlots ==
    {s \in OpenSlots : ~b_authenticated[s] /\ t_auth_tout[s] = 0}

\* Mutation: the loop of session_close_expired_unauth starts at slot 1.
session_close_expired_from_1 == session_close_slots(ExpiredSlots \ {0})

session_close_expired_unauth == session_close_slots(ExpiredSlots)

\* Mutation: the check that nobody is authenticated yet is dropped.
session_auth_takeover(f) ==
    /\ \E s \in session_find(f) :
         /\ n_authenticated_id' = s
         /\ b_authenticated' = [b_authenticated EXCEPT ![s] = TRUE]
    /\ UNCHANGED <<sockfd, t_auth_tout>>

\* Mutation: session_init numbers the slots from one.
session_auth_numbered(f) ==
    /\ ~HasOwner
    /\ \E s \in session_find(f) :
         /\ n_authenticated_id' = s + 1
         /\ b_authenticated' = [b_authenticated EXCEPT ![s] = TRUE]
    /\ UNCHANGED <<sockfd, t_auth_tout>>

\* session_auth_complete returning ST_OK; it fails when a slot already holds
\* the authentication.
session_auth_complete(f) ==
    /\ ~HasOwner
    /\ \E s \in session_find(f) :
         /\ n_authenticated_id' = s
         /\ b_authenticated' = [b_authenticated EXCEPT ![s] = TRUE]
    /\ UNCHANGED <<sockfd, t_auth_tout>>

\* A second of wall-clock time, after which every deadline of the table is one
\* second nearer; how long ago one has passed makes no difference to the code.
SessionTick ==
    t_auth_tout' = [s \in Slots |->
                      IF t_auth_tout[s] > 0 THEN t_auth_tout[s] - 1 ELSE 0]
=============================================================================

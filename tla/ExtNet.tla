------------------------------- MODULE ExtNet -------------------------------
(***************************************************************************)
(* The external network of the ASD daemon (server/ext_network.c over       *)
(* server/ext_tcp.c or server/ext_tls.c) together with the remote clients  *)
(* that drive it.                                                          *)
(*                                                                         *)
(* A socket is a descriptor of the set Fd.  What the daemon can observe of *)
(* a socket is whether it is open, how many reads' worth of bytes wait in  *)
(* it, and whether the peer has hung up; the bytes themselves are          *)
(* abstracted away.  Descriptors are re-used: a closed one may be returned *)
(* by a later accept(), exactly as the kernel does.                        *)
(***************************************************************************)
EXTENDS Integers

CONSTANTS
    Fd,          \* descriptors accept() may return
    NoFd,        \* UNUSED_SOCKET_FD
    MaxRx,       \* bound: reads' worth of bytes waiting on one socket
    MaxBacklog   \* bound: connections waiting in the listen queue

ASSUME ExtNetAssumption ==
    /\ NoFd \notin Fd
    /\ MaxRx \in Nat \ {0}
    /\ MaxBacklog \in Nat \ {0}

VARIABLES
    open,        \* descriptors the daemon holds open
    rx,          \* rx[f]: reads' worth of bytes waiting on f
    eof,         \* open descriptors whose peer hung up
    backlog      \* connections completed by the kernel, not yet accepted

netVars == <<open, rx, eof, backlog>>

NetTypeOK ==
    /\ open \subseteq Fd
    /\ rx \in [Fd -> 0..MaxRx]
    /\ eof \subseteq open
    /\ backlog \in 0..MaxBacklog

NetInit ==
    /\ open = {}
    /\ rx = [f \in Fd |-> 0]
    /\ eof = {}
    /\ backlog = 0

\* Mutation: a hang-up is not reported as readable.
ReadableBytes(f) == rx[f] > 0

\* poll() reports POLLIN for f: bytes wait, or recv() would return 0.
Readable(f) == rx[f] > 0 \/ f \in eof

-----------------------------------------------------------------------------
(* Operations of the daemon. *)

\* accept() returned f and the transport's on_accept hook succeeded.
extnet_accept_connection(f) ==
    /\ backlog > 0
    /\ f \notin open
    /\ backlog' = backlog - 1
    /\ open' = open \cup {f}
    /\ UNCHANGED <<rx, eof>>

\* accept() failed: the connection stays in the queue (no descriptor left,
\* EMFILE), or the peer had given it up (ECONNABORTED) and it is gone.
extnet_accept_fails ==
    /\ backlog > 0
    /\ backlog' \in {backlog, backlog - 1}
    /\ UNCHANGED <<open, rx, eof>>

\* Mutation: f, which accept() returned, is not closed again.
extnet_drop_leaking(f) ==
    /\ backlog > 0
    /\ f \notin open
    /\ backlog' = backlog - 1
    /\ open' = open \cup {f}
    /\ UNCHANGED <<rx, eof>>

\* accept() returned f, which extnet_close_client closes again at once:
\* SSL_accept() failed or timed out, or no session could be opened.
extnet_drop_connection(f) ==
    /\ backlog > 0
    /\ f \notin open
    /\ backlog' = backlog - 1
    /\ open' = (open \cup {f}) \ {f}
    /\ UNCHANGED <<rx, eof>>

\* extnet_close_client on every descriptor of F; what was unread is lost.
extnet_close_clients(F) ==
    /\ open' = open \ F
    /\ rx' = [f \in Fd |-> IF f \in F THEN 0 ELSE rx[f]]
    /\ eof' = eof \ F
    /\ UNCHANGED backlog

\* One or more successful reads on f, each of which takes bytes off it.
extnet_recv(f) ==
    /\ rx[f] > 0
    /\ \E n \in 0..(rx[f] - 1) : rx' = [rx EXCEPT ![f] = n]
    /\ UNCHANGED <<open, eof, backlog>>

-----------------------------------------------------------------------------
(* Steps of the remote clients, at any moment. *)

ClientConnect ==
    /\ backlog < MaxBacklog
    /\ backlog' = backlog + 1
    /\ UNCHANGED <<open, rx, eof>>

ClientSend(f) ==
    /\ f \in open \ eof
    /\ rx[f] < MaxRx
    /\ rx' = [rx EXCEPT ![f] = @ + 1]
    /\ UNCHANGED <<open, eof, backlog>>

ClientHangUp(f) ==
    /\ f \in open \ eof
    /\ eof' = eof \cup {f}
    /\ UNCHANGED <<open, rx, backlog>>
=============================================================================

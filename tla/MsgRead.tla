------------------------------ MODULE MsgRead ------------------------------
(***************************************************************************)
(* How the messages of the authenticated client are cut out of its byte    *)
(* stream: asd_msg_read (target/asd_msg.c), the read hooks below it        *)
(* (read_data in server/asd_main.c, exttls_recv, exttcp_recv) and the poll *)
(* that decides when it is called.                                         *)
(*                                                                         *)
(* The client composes messages, a header of HeaderSize bytes followed by  *)
(* as many bytes as the header says, and writes the stream in pieces of    *)
(* its own choosing: TLS records, or TCP segments.  Bytes are known by     *)
(* their position in the stream of the current connection; a header read   *)
(* at any other place than the start of a message would be garbage.  TLS   *)
(* decrypts a record as a whole: the kernel's socket may be empty, and     *)
(* poll() silent, while decrypted bytes are still waiting, and readable    *)
(* while there is no whole record yet.                                     *)
(***************************************************************************)
EXTENDS Integers, Sequences

CONSTANTS
    HeaderSize,       \* sizeof(struct message_header)
    MaxDataSize,      \* MAX_DATA_SIZE
    Sizes,            \* data sizes a client may put in a header
    MaxMsgs,          \* bound: messages composed on one connection
    MaxConns,         \* bound: connections, one after the other
    Transports        \* values of tls to start with

ASSUME MsgReadAssumption ==
    /\ HeaderSize \in Nat \ {0}
    /\ MaxDataSize \in Nat \ {0}
    /\ Sizes \subseteq Nat
    /\ MaxMsgs \in Nat \ {0}
    /\ MaxConns \in Nat \ {0}
    /\ Transports \subseteq BOOLEAN

VARIABLES
    tls,      \* TLS or plain TCP
    sizes,    \* data size of each message composed, oldest first
    sent,     \* bytes of the stream that were written
    part,     \* the beginning of a TLS record has arrived, but not its end
    st,       \* what asd_msg_read works on; see Fresh
    first,    \* asd_msg_read has not been called since the handshake
    waiting,  \* the thread is in recv(), which has nothing to return
    instance, \* of asd_msg.c: FALSE once asd_msg_free has failed
    conns,    \* connections so far
    dropped   \* the client was disconnected

vars == <<tls, sizes, sent, part, st, first, waiting, instance, conns, dropped>>

(* st holds the sockets and the reader:                                    *)
(*   wire    lengths of the pieces in the socket, oldest first             *)
(*   ssl     decrypted bytes not read yet (TLS)                            *)
(*   pos     bytes of the stream taken by the reader                       *)
(*   state, index, size   msg_state.in_msg.read_state, _index, data_size   *)
(*   pending what the last recv() said of b_data_pending                   *)
(*   handled messages passed to asd_msg_on_msg_recv                        *)
(*   ok      result of asd_msg_read                                        *)
(*   waits   a recv() found nothing                                        *)
(*   cut     history: the reader was reset in the middle of a message      *)
Fresh == [wire |-> <<>>, ssl |-> 0, pos |-> 0,
          state |-> "INITIAL", index |-> 0, size |-> 0,
          pending |-> FALSE, handled |-> 0, ok |-> TRUE, waits |-> FALSE, cut |-> FALSE]

Init ==
    /\ tls \in Transports
    /\ sizes = <<>>
    /\ sent = 0
    /\ part = FALSE
    /\ st = Fresh
    /\ first = TRUE
    /\ waiting = FALSE
    /\ instance = TRUE
    /\ conns = 1
    /\ dropped = FALSE

Least(a, b) == IF a < b THEN a ELSE b

\* Where message m starts in a stream of messages with data sizes sz; m may be
\* the next one to come.
StartIn(sz, m) ==
    LET end[i \in 0..Len(sz)] ==
            IF i = 0 THEN 0 ELSE end[i - 1] + HeaderSize + sz[i]
    IN  end[m - 1]

StartOf(m) == StartIn(sizes, m)

Composed == StartOf(Len(sizes) + 1)

-----------------------------------------------------------------------------
(* The read hooks. *)

\* exttls_recv: at most n bytes, of one record only.
exttls_recv(s, n) ==
    LET avail == IF s.ssl > 0 THEN s.ssl ELSE Head(s.wire)
        got   == Least(n, avail)
    IN  [s EXCEPT !.ssl = avail - got,
                  !.wire = IF s.ssl > 0 THEN @ ELSE Tail(@),
                  !.pos = @ + got,
                  !.pending = avail > got]

\* exttcp_recv: what is not taken stays in the socket.
exttcp_recv(s, n) ==
    LET got == Least(n, Head(s.wire))
    IN  [s EXCEPT !.wire = IF got = Head(@) THEN Tail(@)
                           ELSE <<Head(@) - got>> \o Tail(@),
                  !.pos = @ + got,
                  !.pending = FALSE]

\* read_data through the transport; with nothing there the thread waits.  A
\* record of which only a part is there is nothing yet.
read_data(s, n) ==
    IF s.ssl = 0 /\ s.wire = <<>>
    THEN [s EXCEPT !.waits = TRUE]
    ELSE IF tls THEN exttls_recv(s, n) ELSE exttcp_recv(s, n)

-----------------------------------------------------------------------------
(* asd_msg_read. *)

\* asd_msg_on_msg_recv, on a message that is complete; a message that cannot
\* be processed drops the client, which Reconnect stands for.
asd_msg_on_msg_recv(s) ==
    [s EXCEPT !.state = "INITIAL", !.handled = IF s.cut THEN @ ELSE @ + 1]

\* Mutation: a size beyond the buffer is accepted.
get_message_size_unchecked(s, stray) ==
    LET m == s.handled + 1
    IN  IF s.cut THEN stray
        ELSE IF s.pos = StartOf(m) + HeaderSize THEN sizes[m] ELSE -1

\* get_message_size of the header whose last byte is at s.pos: the size the
\* client put there, or -1 if it is too large.  Bytes that are no header, after
\* a reset, say anything (stray); otherwise what does not end where a header
\* ends is modelled as too large.
get_message_size(s, stray) ==
    LET m == s.handled + 1
    IN  IF s.cut THEN stray
        ELSE IF s.pos = StartOf(m) + HeaderSize /\ sizes[m] <= MaxDataSize
        THEN sizes[m] ELSE -1

\* case READ_STATE_INITIAL
read_initial(s) == [s EXCEPT !.state = "HEADER", !.index = 0, !.size = 0]

\* Mutation: a message without data waits for data too.
header_complete_waits(s, stray) ==
    LET data_size == get_message_size(s, stray)
    IN  IF data_size = -1
        THEN [s EXCEPT !.state = "INITIAL", !.index = 0, !.ok = FALSE]
        ELSE [s EXCEPT !.state = "BUFFER", !.index = 0, !.size = data_size]

\* The header is complete.
header_complete(s, stray) ==
    LET data_size == get_message_size(s, stray)
    IN  IF data_size = -1
        THEN [s EXCEPT !.state = "INITIAL", !.index = 0, !.ok = FALSE]
        ELSE IF data_size > 0
        THEN [s EXCEPT !.state = "BUFFER", !.index = 0, !.size = data_size]
        ELSE asd_msg_on_msg_recv(s)

\* case READ_STATE_HEADER
read_header(s, stray) ==
    LET r == read_data(s, HeaderSize - s.index)
        index == s.index + (r.pos - s.pos)
    IN  IF index = HeaderSize THEN header_complete(r, stray)
        ELSE [r EXCEPT !.index = index]

\* case READ_STATE_BUFFER
read_buffer(s) ==
    LET r == read_data(s, s.size - s.index)
        index == s.index + (r.pos - s.pos)
    IN  IF index = s.size THEN asd_msg_on_msg_recv(r)
        ELSE [r EXCEPT !.index = index]

\* Mutation: the data is read at once, whether or not it is there.
asd_msg_read_eager(s, stray) ==
    IF s.state = "BUFFER" THEN read_buffer(s)
    ELSE LET h == read_header(IF s.state = "INITIAL" THEN read_initial(s) ELSE s, stray)
         IN  IF h.ok /\ h.state = "BUFFER" THEN read_buffer(h) ELSE h

\* The data is read in the same call only if it is known to be there.  A call
\* that waits in recv() goes on, once there is something, as another call of it
\* would.
asd_msg_read(s, stray) ==
    IF s.state = "BUFFER" THEN read_buffer(s)
    ELSE LET h == read_header(IF s.state = "INITIAL" THEN read_initial(s) ELSE s, stray)
         IN  IF h.ok /\ h.state = "BUFFER" /\ h.pending THEN read_buffer(h)
             ELSE h

-----------------------------------------------------------------------------
(* Actions. *)

\* asd_msg_read, up to where it returns or waits; if it fails the client is
\* dropped.
Read ==
    /\ \E stray \in -1..MaxDataSize :
         LET r == asd_msg_read(st, stray)
         IN  /\ st' = [r EXCEPT !.waits = FALSE]
             /\ waiting' = r.waits
             /\ dropped' = ~r.ok
    /\ first' = FALSE
    /\ UNCHANGED <<tls, sizes, sent, part, instance, conns>>

\* One iteration of the request loop: poll() reports the socket as readable
\* and the client gets one call of asd_msg_read.  The first call follows the
\* handshake, whether there is more to read or not.  b_data_pending is stored
\* in the session, but the loop only looks at POLLIN.
Serve ==
    /\ ~dropped
    /\ ~waiting
    /\ first \/ st.wire # <<>> \/ part
    /\ Read

\* What recv() has waited for has come.
RecvReturns ==
    /\ waiting
    /\ st.wire # <<>>
    /\ Read

\* SO_RCVTIMEO, which exttls_on_accept has set: nothing was read, and the
\* client is dropped.
RecvTimesOut ==
    /\ waiting
    /\ tls
    /\ waiting' = FALSE
    /\ dropped' = TRUE
    /\ UNCHANGED <<tls, sizes, sent, part, st, first, instance, conns>>

\* The client composes another message.
Compose(size) ==
    /\ ~dropped
    /\ Len(sizes) < MaxMsgs
    /\ sizes' = Append(sizes, size)
    /\ UNCHANGED <<tls, sent, part, st, first, waiting, instance, conns, dropped>>

\* The beginning of the client's next record arrives.
WritePart ==
    /\ ~dropped
    /\ tls
    /\ ~part
    /\ sent < Composed
    /\ part' = TRUE
    /\ UNCHANGED <<tls, sizes, sent, st, first, waiting, instance, conns, dropped>>

\* The client writes the next n bytes of its stream as one piece, which is
\* there to its end.
Write(n) ==
    /\ ~dropped
    /\ sent + n <= Composed
    /\ sent' = sent + n
    /\ part' = FALSE
    /\ st' = [st EXCEPT !.wire = Append(@, n)]
    /\ UNCHANGED <<tls, sizes, first, waiting, instance, conns, dropped>>

\* A pin event has failed, and close_connection calls asd_msg_free, which fails
\* in turn: the session stays, and with it the stream, but the reader starts on
\* a header wherever it stands.  Without an instance asd_msg_free does nothing.
FreeFails ==
    /\ ~dropped
    /\ ~waiting
    /\ ~first
    /\ instance
    /\ instance' = FALSE
    /\ st' = [st EXCEPT !.state = "HEADER", !.index = 0, !.size = 0,
                        !.cut = st.pos # StartOf(st.handled + 1)]
    /\ UNCHANGED <<tls, sizes, sent, part, first, waiting, conns, dropped>>

\* Mutation: what the last client left of a message is kept.
ReconnectDirty ==
    /\ conns < MaxConns
    /\ conns' = conns + 1
    /\ sizes' = <<>>
    /\ sent' = 0
    /\ st' = [Fresh EXCEPT !.state = st.state, !.index = st.index,
                           !.size = st.size]
    /\ part' = FALSE
    /\ first' = TRUE
    /\ waiting' = FALSE
    /\ instance' = TRUE
    /\ dropped' = FALSE
    /\ UNCHANGED tls

\* The client goes, or was dropped, and another one is authenticated:
\* asd_msg_free and asd_msg_init start the reader afresh, and the socket is a
\* new one.
Reconnect ==
    /\ conns < MaxConns
    /\ conns' = conns + 1
    /\ sizes' = <<>>
    /\ sent' = 0
    /\ part' = FALSE
    /\ st' = Fresh
    /\ first' = TRUE
    /\ waiting' = FALSE
    /\ instance' = TRUE
    /\ dropped' = FALSE
    /\ UNCHANGED tls

Next ==
    \/ Serve
    \/ RecvReturns
    \/ RecvTimesOut
    \/ \E size \in Sizes : Compose(size)
    \/ WritePart
    \/ \E n \in 1..(Composed - sent) : Write(n)
    \/ FreeFails
    \/ Reconnect

Spec == Init /\ [][Next]_vars

-----------------------------------------------------------------------------
(* Properties. *)

\* Every field of the reader keeps to its range: while something is read into
\* it, no index reaches the end of the header or of the data buffer.  (Between
\* messages read_index is left over from the last one.)
TypeOK ==
    /\ st.state \in {"INITIAL", "HEADER", "BUFFER"}
    /\ st.index \in Nat
    /\ st.state = "HEADER" => st.index < HeaderSize
    /\ st.state = "BUFFER" => st.index < MaxDataSize
    /\ st.size \in 0..MaxDataSize
    /\ st.handled \in 0..Len(sizes)
    /\ waiting \in BOOLEAN /\ dropped \in BOOLEAN

\* The reader never loses the frame: between two calls it stands in message
\* handled + 1, as far in as its state and index say, however the stream was
\* cut into pieces, wherever recv() had to wait, and however often a client was
\* replaced by another.  Only a failing asd_msg_free in the middle of a message
\* loses it, since the session goes on.
Framed ==
    LET start == StartOf(st.handled + 1)
    IN  ~dropped /\ ~st.cut =>
          CASE st.state = "INITIAL" -> st.pos = start
            [] st.state = "HEADER" -> st.pos = start + st.index
            [] st.state = "BUFFER" ->
                 /\ st.pos = start + HeaderSize + st.index
                 /\ st.size = sizes[st.handled + 1]
                 /\ st.index < st.size

\* asd_msg_read waits in recv(), and holds up every other client and the pins,
\* in its first recv() only, never after it has taken bytes: a message that is
\* there in part does not make it wait for the rest.  And that recv() waits
\* only in the call that follows the handshake, or for the rest of a TLS record
\* whose beginning poll() has reported.
WaitsAtStart ==
    [][waiting' =>
         /\ st'.pos = st.pos
         /\ waiting \/ (st.wire = <<>> /\ (first \/ part))]_vars

\* Message m was written to the last byte.
Written(m) == Len(sizes) >= m /\ sent >= StartOf(m + 1)

\* Nothing is readable: poll() is silent and the daemon will not call
\* asd_msg_read before the client writes again.
PollSilent == ~dropped /\ ~first /\ ~waiting /\ st.wire = <<>> /\ ~part

\* When poll() falls silent every message that was written completely has been
\* handled; only over TLS may one be left, decrypted together with the end of
\* the message before it.  (A reader that was reset in the middle of a message
\* handles none.)
HandledOrBuffered ==
    PollSilent /\ ~st.cut =>
        \A m \in 1..Len(sizes) :
            Written(m) => st.handled >= m \/ (tls /\ st.ssl > 0)

-----------------------------------------------------------------------------
(* What the repository says of the reader, where the code does otherwise.   *)

\* asd_msg.h, NUM_IN_FLIGHT_BUFFERS_TO_USE: a client may have that many
\* messages on their way without waiting for an answer.  None of them is left
\* behind when the daemon goes back to sleep.
AllHandled ==
    PollSilent /\ ~st.cut => \A m \in 1..Len(sizes) : Written(m) => st.handled >= m
=============================================================================

--------------------------- MODULE MsgReadProofs ---------------------------
(***************************************************************************)
(* Proofs about MsgRead, for headers and buffers of any size, messages of  *)
(* any lengths, and streams that are cut into pieces in any way: the       *)
(* reader keeps the frame unless it is reset within a message, waits only  *)
(* at the start of a call, and leaves no message behind but in the TLS     *)
(* layer.                                                                  *)
(*                                                                         *)
(* What is not read yet has to be accounted for: the reader's position,    *)
(* the decrypted bytes and the pieces in the socket add up to what was     *)
(* written (Cuts), and what was written ends where messages end.           *)
(***************************************************************************)
EXTENDS MsgRead, FiniteRecursion

-----------------------------------------------------------------------------
(* Where messages start. *)

\* The recursive function in StartIn exists, so it is what its equation says.
LEMMA StartRecursion ==
    ASSUME NEW sz \in Seq(Nat)
    PROVE  /\ StartIn(sz, 1) = 0
           /\ \A m \in 1..Len(sz) : StartIn(sz, m + 1) = StartIn(sz, m) + HeaderSize + sz[m]
  <1> DEFINE Def(g) == [i \in 0..Len(sz) |-> IF i = 0 THEN 0 ELSE g[i - 1] + HeaderSize + sz[i]]
             end == CHOOSE g : g = Def(g)
             h == [i \in 1..Len(sz) |-> [v \in Nat |-> v + HeaderSize + sz[i]]]
  <1>1. \A m : StartIn(sz, m) = end[m - 1]
    BY DEF StartIn
  <1>2. Len(sz) \in Nat /\ HeaderSize \in Nat /\ \A i \in 1..Len(sz) : sz[i] \in Nat
    BY MsgReadAssumption
  <1>3. h \in [1..Len(sz) -> [Nat -> Nat]] /\ 0 \in Nat
    BY <1>2
  <1>4. \E g : g = Def(g)
    <2>1. RecursTo(Len(sz), Nat, 0, h)
      <3> HIDE DEF h
      <3> QED
        BY <1>2, <1>3, NumberRecursion
    <2>2. PICK g \in [0..Len(sz) -> Nat] :
            \A i \in 0..Len(sz) : g[i] = IF i = 0 THEN 0 ELSE h[i][g[i - 1]]
      <3> HIDE DEF h
      <3> QED
        BY <2>1 DEF RecursTo
    <2>3. ASSUME NEW i \in 0..Len(sz), i # 0
          PROVE  h[i][g[i - 1]] = g[i - 1] + HeaderSize + sz[i]
      <3>1. i \in 1..Len(sz) /\ i - 1 \in 0..Len(sz) /\ g[i - 1] \in Nat
        BY <1>2, <2>3
      <3> QED
        BY <3>1
    <2>4. g = Def(g)
      <3> HIDE DEF h
      <3> QED
        BY <2>2, <2>3
    <2> QED
      BY <2>4
  <1>5. end = Def(end)
    <2> HIDE DEF Def
    <2> QED
      BY <1>4
  <1> HIDE DEF end
  <1>6. end[0] = 0 /\ \A m \in 1..Len(sz) : end[m] = end[m - 1] + HeaderSize + sz[m]
    <2>1. \A i \in 0..Len(sz) : Def(end)[i] = IF i = 0 THEN 0 ELSE end[i - 1] + HeaderSize + sz[i]
      OBVIOUS
    <2> HIDE DEF Def
    <2>2. \A i \in 0..Len(sz) : end[i] = IF i = 0 THEN 0 ELSE end[i - 1] + HeaderSize + sz[i]
      BY <1>5, <2>1
    <2>3. 0 \in 0..Len(sz) /\ \A m \in 1..Len(sz) : m \in 0..Len(sz) /\ m # 0
      BY <1>2
    <2> QED
      BY <2>2, <2>3
  <1> HIDE DEF Def
  <1>7. StartIn(sz, 1) = 0
    BY <1>1, <1>6
  <1>8. ASSUME NEW m \in 1..Len(sz)
        PROVE  StartIn(sz, m + 1) = StartIn(sz, m) + HeaderSize + sz[m]
    <2>1. m + 1 - 1 = m
      BY <1>2
    <2>2. StartIn(sz, m + 1) = end[m] /\ StartIn(sz, m) = end[m - 1]
      BY <1>1, <2>1
    <2> QED
      BY <1>6, <2>2
  <1> QED
    BY <1>7, <1>8

\* With no message composed the next one starts at 0.
LEMMA StartOfNone == <<>> \in Seq(Nat) /\ Len(<<>>) = 0 /\ StartIn(<<>>, 1) = 0
  <1> DEFINE none == <<>>
  <1>1. none \in Seq(Nat) /\ Len(none) = 0
    OBVIOUS
  <1> HIDE DEF none
  <1>2. StartIn(none, 1) = 0
    BY <1>1, StartRecursion
  <1> QED
    BY <1>1, <1>2 DEF none

\* Messages start at positions of the stream, one after the other.
LEMMA StartsIncrease ==
    ASSUME NEW sz \in Seq(Nat)
    PROVE  /\ \A m \in 1..(Len(sz) + 1) : StartIn(sz, m) \in Nat
           /\ \A l, m \in 1..(Len(sz) + 1) : l < m => StartIn(sz, l) < StartIn(sz, m)
  <1>0. Len(sz) \in Nat /\ HeaderSize \in Nat \ {0} /\ \A i \in 1..Len(sz) : sz[i] \in Nat
    BY MsgReadAssumption
  <1> DEFINE M == 1..(Len(sz) + 1)
             T == {m \in Nat : m \in M =>
                     /\ StartIn(sz, m) \in Nat
                     /\ \A l \in M : l < m => StartIn(sz, l) \in Nat /\ StartIn(sz, l) < StartIn(sz, m)}
  <1>1. 0 \in T
    OBVIOUS
  <1>2. ASSUME NEW m \in Nat, m \in T
        PROVE  m + 1 \in T
    <2>1. SUFFICES ASSUME m + 1 \in M
                   PROVE  /\ StartIn(sz, m + 1) \in Nat
                          /\ \A l \in M : l < m + 1 =>
                               StartIn(sz, l) \in Nat /\ StartIn(sz, l) < StartIn(sz, m + 1)
      OBVIOUS
    <2>2. CASE m = 0
      BY <2>2, StartRecursion
    <2>3. CASE m # 0
      <3>1. m \in M /\ m \in 1..Len(sz)
        BY <1>0, <2>1, <2>3
      <3>2. /\ StartIn(sz, m) \in Nat
            /\ \A l \in M : l < m => StartIn(sz, l) \in Nat /\ StartIn(sz, l) < StartIn(sz, m)
        BY <1>2, <3>1
      <3>3. StartIn(sz, m + 1) = StartIn(sz, m) + HeaderSize + sz[m] /\ sz[m] \in Nat
        BY <1>0, <3>1, StartRecursion
      <3>4. StartIn(sz, m + 1) \in Nat /\ StartIn(sz, m) < StartIn(sz, m + 1)
        BY <1>0, <3>2, <3>3
      <3>5. ASSUME NEW l \in M, l < m + 1
            PROVE  StartIn(sz, l) \in Nat /\ StartIn(sz, l) < StartIn(sz, m + 1)
        <4>1. l = m \/ l < m
          BY <1>0, <3>5
        <4> QED
          BY <3>2, <3>4, <4>1
      <3> QED
        BY <3>4, <3>5
    <2> QED
      BY <2>2, <2>3
  <1> HIDE DEF T
  <1>3. Nat \subseteq T
    BY <1>1, <1>2, NumberInduction
  <1>4. M \subseteq T
    BY <1>0, <1>3
  <1> QED
    BY <1>4 DEF T

\* Composing a message moves none of those before it.
LEMMA StartsStay ==
    ASSUME NEW sz \in Seq(Nat), NEW n \in Nat
    PROVE  \A m \in 1..(Len(sz) + 1) : StartIn(Append(sz, n), m) = StartIn(sz, m)
  <1> DEFINE new == Append(sz, n)
  <1>1. new \in Seq(Nat) /\ Len(new) = Len(sz) + 1 /\ \A m \in 1..Len(sz) : new[m] = sz[m]
    OBVIOUS
  <1>2. Len(sz) \in Nat
    OBVIOUS
  <1> HIDE DEF new
  <1> DEFINE T == {m \in Nat : m \in 1..(Len(sz) + 1) => StartIn(new, m) = StartIn(sz, m)}
  <1>3. 0 \in T
    BY <1>2
  <1>4. ASSUME NEW m \in Nat, m \in T
        PROVE  m + 1 \in T
    <2>1. SUFFICES ASSUME m + 1 \in 1..(Len(sz) + 1)
                   PROVE  StartIn(new, m + 1) = StartIn(sz, m + 1)
      OBVIOUS
    <2>2. CASE m = 0
      BY <1>1, <2>2, StartRecursion
    <2>3. CASE m # 0
      <3>1. m \in 1..Len(sz) /\ m \in 1..Len(new) /\ m \in 1..(Len(sz) + 1)
        BY <1>1, <1>2, <2>1, <2>3
      <3>2. StartIn(new, m) = StartIn(sz, m)
        BY <1>4, <3>1
      <3>3. StartIn(new, m + 1) = StartIn(new, m) + HeaderSize + new[m]
        BY <1>1, <3>1, StartRecursion
      <3>4. StartIn(sz, m + 1) = StartIn(sz, m) + HeaderSize + sz[m]
        BY <3>1, StartRecursion
      <3> QED
        BY <1>1, <3>1, <3>2, <3>3, <3>4
    <2> QED
      BY <2>2, <2>3
  <1> HIDE DEF T
  <1>5. Nat \subseteq T
    BY <1>3, <1>4, NumberInduction
  <1>6. \A m \in 1..(Len(sz) + 1) : StartIn(new, m) = StartIn(sz, m)
    BY <1>2, <1>5 DEF T
  <1> QED
    BY <1>6 DEF new

-----------------------------------------------------------------------------
(* The pieces in the socket. *)

Pieces == Seq(Nat \ {0})

\* The pieces of w reach from position "from" of the stream to position "to".
Cuts(w, from, to) ==
    \E b \in [0..Len(w) -> Nat] :
        /\ b[0] = from
        /\ b[Len(w)] = to
        /\ \A i \in 1..Len(w) : b[i] = b[i - 1] + w[i]

\* No piece reaches nowhere.
LEMMA CutsOfNone ==
    ASSUME NEW from \in Nat
    PROVE  Cuts(<<>>, from, from)
  <1> DEFINE b == [i \in 0..0 |-> from]
  <1>1. Len(<<>>) = 0 /\ b \in [0..0 -> Nat] /\ b[0] = from
    OBVIOUS
  <1> HIDE DEF b
  <1> QED
    BY <1>1 DEF Cuts

\* Pieces reach forward.
LEMMA CutsForward ==
    ASSUME NEW w \in Pieces, NEW from \in Nat, NEW to \in Nat, Cuts(w, from, to)
    PROVE  /\ from <= to
           /\ w = <<>> => from = to
  <1>1. PICK b \in [0..Len(w) -> Nat] :
          /\ b[0] = from
          /\ b[Len(w)] = to
          /\ \A i \in 1..Len(w) : b[i] = b[i - 1] + w[i]
    BY DEF Cuts
  <1>2. Len(w) \in Nat /\ \A i \in 1..Len(w) : w[i] \in Nat
    BY DEF Pieces
  <1> DEFINE T == {i \in Nat : i \in 0..Len(w) => from <= b[i]}
  <1>3. 0 \in T
    BY <1>1, <1>2
  <1>4. ASSUME NEW i \in Nat, i \in T
        PROVE  i + 1 \in T
    <2>1. SUFFICES ASSUME i + 1 \in 0..Len(w)
                   PROVE  from <= b[i + 1]
      OBVIOUS
    <2>2. i \in 0..Len(w) /\ i + 1 \in 1..Len(w) /\ i + 1 - 1 = i
      BY <1>2, <2>1
    <2> DEFINE j == i + 1
    <2>3. j - 1 = i /\ j \in 1..Len(w)
      BY <2>2
    <2> HIDE DEF j
    <2>4. b[j] = b[j - 1] + w[j]
      BY <1>1, <2>3
    <2>5. b[i] \in Nat /\ w[j] \in Nat
      BY <1>2, <2>2, <2>3
    <2>6. from <= b[i]
      BY <1>4, <2>2
    <2>7. from <= b[j]
      BY <2>3, <2>4, <2>5, <2>6
    <2> QED
      BY <2>7 DEF j
  <1> HIDE DEF T
  <1>5. Nat \subseteq T
    BY <1>3, <1>4, NumberInduction
  <1>6. from <= b[Len(w)]
    BY <1>2, <1>5 DEF T
  <1>7. w = <<>> => Len(w) = 0
    OBVIOUS
  <1> QED
    BY <1>1, <1>6, <1>7

\* A piece that is written reaches further.
LEMMA CutsAppend ==
    ASSUME NEW w \in Pieces, NEW from, NEW to, Cuts(w, from, to), NEW n \in Nat \ {0}
    PROVE  Append(w, n) \in Pieces /\ Cuts(Append(w, n), from, to + n)
  <1>1. PICK b \in [0..Len(w) -> Nat] :
          /\ b[0] = from
          /\ b[Len(w)] = to
          /\ \A i \in 1..Len(w) : b[i] = b[i - 1] + w[i]
    BY DEF Cuts
  <1> DEFINE v == Append(w, n)
             c == [i \in 0..Len(v) |-> IF i <= Len(w) THEN b[i] ELSE to + n]
  <1>2. /\ Len(w) \in Nat /\ v \in Pieces /\ Len(v) = Len(w) + 1
        /\ \A i \in 1..Len(w) : v[i] = w[i]
        /\ v[Len(w) + 1] = n
    BY DEF Pieces
  <1>3. to \in Nat
    BY <1>1, <1>2
  <1> HIDE DEF v
  <1>4. c \in [0..Len(v) -> Nat] /\ c[0] = from /\ c[Len(v)] = to + n
    BY <1>1, <1>2, <1>3
  <1>5. ASSUME NEW i \in 1..Len(v)
        PROVE  c[i] = c[i - 1] + v[i]
    <2>1. CASE i \in 1..Len(w)
      BY <1>1, <1>2, <2>1
    <2>2. CASE i \notin 1..Len(w)
      <3>1. i = Len(w) + 1 /\ i - 1 = Len(w)
        BY <1>2, <2>2
      <3> QED
        BY <1>1, <1>2, <3>1
    <2> QED
      BY <2>1, <2>2
  <1> HIDE DEF c
  <1>6. Cuts(v, from, to + n)
    BY <1>4, <1>5 DEF Cuts
  <1> QED
    BY <1>2, <1>6 DEF v

\* The first piece is taken.
LEMMA CutsTail ==
    ASSUME NEW w \in Pieces, w # <<>>, NEW from, NEW to, Cuts(w, from, to)
    PROVE  /\ Head(w) \in Nat \ {0}
           /\ Tail(w) \in Pieces
           /\ Cuts(Tail(w), from + Head(w), to)
  <1>1. PICK b \in [0..Len(w) -> Nat] :
          /\ b[0] = from
          /\ b[Len(w)] = to
          /\ \A i \in 1..Len(w) : b[i] = b[i - 1] + w[i]
    BY DEF Cuts
  <1> DEFINE v == Tail(w)
             c == [i \in 0..Len(v) |-> b[i + 1]]
  <1>2. /\ Len(w) \in Nat \ {0} /\ v \in Pieces /\ Len(v) = Len(w) - 1
        /\ \A i \in 1..Len(v) : v[i] = w[i + 1]
        /\ Head(w) = w[1] /\ w[1] \in Nat \ {0}
    BY DEF Pieces
  <1> HIDE DEF v
  <1>3. c \in [0..Len(v) -> Nat] /\ c[0] = from + Head(w) /\ c[Len(v)] = to
    BY <1>1, <1>2
  <1>4. ASSUME NEW i \in 1..Len(v)
        PROVE  c[i] = c[i - 1] + v[i]
    <2> DEFINE j == i + 1
    <2>1. /\ j \in 1..Len(w) /\ j - 1 = i /\ i \in 0..Len(v)
          /\ i - 1 \in 0..Len(v) /\ (i - 1) + 1 = i
      BY <1>2
    <2>2. c[i] = b[j] /\ c[i - 1] = b[i] /\ v[i] = w[j]
      BY <1>2, <2>1
    <2> HIDE DEF j, c
    <2>3. b[j] = b[j - 1] + w[j]
      BY <1>1, <2>1
    <2> QED
      BY <2>1, <2>2, <2>3
  <1> HIDE DEF c
  <1>5. Cuts(v, from + Head(w), to)
    BY <1>3, <1>4 DEF Cuts
  <1> QED
    BY <1>2, <1>5 DEF v

\* A part of the first piece is taken.
LEMMA CutsSplit ==
    ASSUME NEW w \in Pieces, w # <<>>, NEW from \in Nat, NEW to, Cuts(w, from, to),
           NEW n \in Nat, n < Head(w)
    PROVE  /\ <<Head(w) - n>> \o Tail(w) \in Pieces
           /\ Cuts(<<Head(w) - n>> \o Tail(w), from + n, to)
  <1>1. PICK b \in [0..Len(w) -> Nat] :
          /\ b[0] = from
          /\ b[Len(w)] = to
          /\ \A i \in 1..Len(w) : b[i] = b[i - 1] + w[i]
    BY DEF Cuts
  <1> DEFINE v == <<Head(w) - n>> \o Tail(w)
             c == [i \in 0..Len(v) |-> IF i = 0 THEN from + n ELSE b[i]]
  <1>2. /\ Len(w) \in Nat \ {0} /\ Tail(w) \in Pieces /\ Len(Tail(w)) = Len(w) - 1
        /\ \A i \in 1..(Len(w) - 1) : Tail(w)[i] = w[i + 1]
        /\ Head(w) = w[1] /\ w[1] \in Nat \ {0}
    BY DEF Pieces
  <1>3. <<Head(w) - n>> \in Pieces
    BY <1>2 DEF Pieces
  <1>4. v \in Pieces /\ Len(v) = Len(w) /\ v[1] = Head(w) - n
    BY <1>2, <1>3 DEF Pieces
  <1>5. \A i \in 2..Len(v) : v[i] = w[i]
    BY <1>2, <1>3, <1>4 DEF Pieces
  <1> HIDE DEF v
  <1>6. c \in [0..Len(v) -> Nat] /\ c[0] = from + n /\ c[Len(v)] = to
    BY <1>1, <1>2, <1>4
  <1>7. ASSUME NEW i \in 1..Len(v)
        PROVE  c[i] = c[i - 1] + v[i]
    <2>1. CASE i = 1
      <3>1. b[1] = from + Head(w)
        BY <1>1, <1>2
      <3> QED
        BY <1>2, <1>4, <2>1, <3>1
    <2>2. CASE i # 1
      <3>1. i \in 2..Len(v) /\ i \in 1..Len(w) /\ i - 1 \in 0..Len(v) /\ i - 1 # 0
        BY <1>2, <1>4, <2>2
      <3> QED
        BY <1>1, <1>5, <3>1
    <2> QED
      BY <2>1, <2>2
  <1> HIDE DEF c
  <1>8. Cuts(v, from + n, to)
    BY <1>6, <1>7 DEF Cuts
  <1> QED
    BY <1>4, <1>8 DEF v

-----------------------------------------------------------------------------
(* The inductive invariant. *)

Reader == [wire : Pieces, ssl : Nat, pos : Nat,
           state : {"INITIAL", "HEADER", "BUFFER"}, index : Nat, size : 0..MaxDataSize,
           pending : BOOLEAN, handled : Nat, ok : BOOLEAN, waits : BOOLEAN, cut : BOOLEAN]

\* What was written are messages, the last of them perhaps in part.
Stream ==
    /\ tls \in BOOLEAN
    /\ sizes \in Seq(Nat)
    /\ sent \in Nat
    /\ sent <= Composed

\* What was written and not read is in the socket or, over TLS, decrypted.
Flowing(s) ==
    /\ s \in Reader
    /\ s.ok = TRUE
    /\ s.waits = FALSE
    /\ tls = FALSE => s.ssl = 0
    /\ Cuts(s.wire, s.pos + s.ssl, sent)

\* The reader stands where its state says.
InFrame(s) ==
    LET start == StartOf(s.handled + 1)
    IN  /\ s.cut = FALSE
        /\ s.handled \in 0..Len(sizes)
        /\ s.state = "INITIAL" => s.pos = start
        /\ s.state = "HEADER" => s.pos = start + s.index /\ s.index < HeaderSize
        /\ s.state = "BUFFER" =>
              /\ s.handled < Len(sizes)
              /\ s.pos = start + HeaderSize + s.index
              /\ s.size = sizes[s.handled + 1]
              /\ s.index < s.size

\* A reader that was reset in the middle of a message still keeps to what it
\* takes for a header and for data.
Loose(s) ==
    /\ s.cut = TRUE
    /\ s.handled \in 0..Len(sizes)
    /\ s.state = "HEADER" => s.index < HeaderSize
    /\ s.state = "BUFFER" => s.index < s.size

Reading(s) == Flowing(s) /\ (InFrame(s) \/ Loose(s))

\* What is left of the reader once the client was given up.
Left(s) ==
    /\ s \in Reader
    /\ s.waits = FALSE
    /\ s.handled \in 0..Len(sizes)
    /\ s.state = "HEADER" => s.index < HeaderSize
    /\ s.state = "BUFFER" => s.index < s.size

\* What asd_msg_read returns.
Sound(s) == Reading(s) \/ (s.ok = FALSE /\ Left(s))

IInv ==
    /\ Stream
    /\ part \in BOOLEAN /\ first \in BOOLEAN /\ waiting \in BOOLEAN /\ instance \in BOOLEAN
    /\ \/ dropped = FALSE /\ Reading(st)
       \/ dropped = TRUE /\ waiting = FALSE /\ Left(st)

-----------------------------------------------------------------------------
(* The read hooks. *)

\* What a read of at most n bytes makes of s.
TookFrom(r, s, n) ==
    /\ Flowing(r)
    /\ r.pos > s.pos /\ r.pos <= s.pos + n /\ r.pos <= sent
    /\ r.state = s.state /\ r.index = s.index /\ r.size = s.size /\ r.handled = s.handled
    /\ r.cut = s.cut
    /\ r.pending = TRUE => r.ssl > 0

\* exttls_recv takes bytes of the record that is decrypted, or decrypts one.
LEMMA TlsTakes ==
    ASSUME Stream, tls = TRUE, NEW s, Flowing(s), NEW n \in Nat \ {0},
           s.ssl > 0 \/ s.wire # <<>>
    PROVE  TookFrom(exttls_recv(s, n), s, n)
  <1> DEFINE avail == IF s.ssl > 0 THEN s.ssl ELSE Head(s.wire)
             got == Least(n, avail)
             left == IF s.ssl > 0 THEN s.wire ELSE Tail(s.wire)
             r == exttls_recv(s, n)
  <1>1. /\ s \in Reader /\ s.ok = TRUE /\ s.waits = FALSE /\ s.wire \in Pieces
        /\ s.ssl \in Nat /\ s.pos \in Nat /\ sent \in Nat
        /\ Cuts(s.wire, s.pos + s.ssl, sent)
    BY DEF Flowing, Reader, Stream
  <1>2. avail \in Nat \ {0} /\ left \in Pieces /\ Cuts(left, s.pos + avail, sent)
    <2>1. CASE s.ssl > 0
      BY <1>1, <2>1
    <2>2. CASE ~(s.ssl > 0)
      <3>1. s.ssl = 0 /\ s.wire # <<>> /\ s.pos + s.ssl = s.pos
        BY <1>1, <2>2
      <3>2. Cuts(s.wire, s.pos, sent)
        BY <1>1, <3>1
      <3>3. /\ Head(s.wire) \in Nat \ {0} /\ Tail(s.wire) \in Pieces
            /\ Cuts(Tail(s.wire), s.pos + Head(s.wire), sent)
        BY <1>1, <3>1, <3>2, CutsTail
      <3> QED
        BY <2>2, <3>3
    <2> QED
      BY <2>1, <2>2
  <1>3. r = [s EXCEPT !.ssl = avail - got, !.wire = left,
                      !.pos = s.pos + got, !.pending = avail > got]
    BY <1>1 DEF exttls_recv, Reader
  <1> HIDE DEF r, avail, left
  <1>4. got \in Nat \ {0} /\ got <= n /\ got <= avail
    BY <1>2 DEF Least
  <1> HIDE DEF got
  <1>5. /\ r.ssl = avail - got /\ r.wire = left /\ r.pos = s.pos + got
        /\ r.pending = (avail > got)
        /\ r.state = s.state /\ r.index = s.index /\ r.size = s.size
        /\ r.handled = s.handled /\ r.ok = s.ok /\ r.waits = s.waits /\ r.cut = s.cut
    BY <1>1, <1>3 DEF Reader
  <1>6. avail - got \in Nat /\ s.pos + got \in Nat /\ (avail > got) \in BOOLEAN
    BY <1>1, <1>2, <1>4
  <1>7. r \in Reader
    BY <1>1, <1>2, <1>3, <1>6 DEF Reader
  <1>8. s.pos + got + (avail - got) = s.pos + avail
    BY <1>1, <1>2, <1>4
  <1>9. Cuts(r.wire, r.pos + r.ssl, sent)
    BY <1>2, <1>5, <1>8
  <1>10. Flowing(r)
    BY <1>1, <1>5, <1>7, <1>9 DEF Flowing
  <1>11. s.pos + avail <= sent
    BY <1>1, <1>2, CutsForward
  <1>12. r.pos > s.pos /\ r.pos <= s.pos + n /\ r.pos <= sent
    BY <1>1, <1>2, <1>4, <1>5, <1>11
  <1>13. ASSUME r.pending = TRUE
         PROVE  r.ssl > 0
    <2>1. avail > got
      BY <1>5, <1>13, Zenon
    <2>2. avail - got > 0
      BY <1>2, <1>4, <2>1
    <2> QED
      BY <1>5, <2>2
  <1>14. TookFrom(r, s, n)
    BY <1>5, <1>10, <1>12, <1>13 DEF TookFrom
  <1> QED
    BY <1>14 DEF r

\* exttcp_recv takes the first piece or a part of it.
LEMMA TcpTakes ==
    ASSUME Stream, tls = FALSE, NEW s, Flowing(s), NEW n \in Nat \ {0}, s.wire # <<>>
    PROVE  TookFrom(exttcp_recv(s, n), s, n)
  <1> DEFINE front == Head(s.wire)
             got == Least(n, front)
             left == IF got = front THEN Tail(s.wire) ELSE <<front - got>> \o Tail(s.wire)
             r == exttcp_recv(s, n)
  <1>1. /\ s \in Reader /\ s.ok = TRUE /\ s.waits = FALSE /\ s.wire \in Pieces
        /\ s.ssl = 0 /\ s.pos \in Nat /\ sent \in Nat /\ s.pos + s.ssl = s.pos
        /\ Cuts(s.wire, s.pos + s.ssl, sent)
    BY DEF Flowing, Reader, Stream
  <1>2. Cuts(s.wire, s.pos, sent)
    BY <1>1
  <1>3. /\ front \in Nat \ {0} /\ Tail(s.wire) \in Pieces
        /\ Cuts(Tail(s.wire), s.pos + front, sent)
    BY <1>1, <1>2, CutsTail
  <1>4. got \in Nat \ {0} /\ got <= n /\ got <= front
    BY <1>3 DEF Least
  <1>5. r = [s EXCEPT !.wire = left, !.pos = s.pos + got, !.pending = FALSE]
    BY <1>1 DEF exttcp_recv, Reader
  <1> HIDE DEF got, r
  <1>6. left \in Pieces /\ Cuts(left, s.pos + got, sent)
    <2>1. CASE got = front
      BY <1>3, <2>1
    <2>2. CASE got # front
      <3>1. got \in Nat /\ got < Head(s.wire)
        BY <1>3, <1>4, <2>2
      <3>2. /\ <<Head(s.wire) - got>> \o Tail(s.wire) \in Pieces
            /\ Cuts(<<Head(s.wire) - got>> \o Tail(s.wire), s.pos + got, sent)
        BY <1>1, <1>2, <3>1, CutsSplit
      <3> QED
        BY <2>2, <3>2
    <2> QED
      BY <2>1, <2>2
  <1> HIDE DEF left, front
  <1>7. /\ r.ssl = s.ssl /\ r.wire = left /\ r.pos = s.pos + got /\ r.pending = FALSE
        /\ r.state = s.state /\ r.index = s.index /\ r.size = s.size
        /\ r.handled = s.handled /\ r.ok = s.ok /\ r.waits = s.waits /\ r.cut = s.cut
    BY <1>1, <1>5 DEF Reader
  <1>8. s.pos + got \in Nat /\ s.pos + got + 0 = s.pos + got
    BY <1>1, <1>4
  <1>9. r \in Reader
    BY <1>1, <1>5, <1>6, <1>8 DEF Reader
  <1>10. Flowing(r)
    BY <1>1, <1>6, <1>7, <1>8, <1>9 DEF Flowing
  <1>11. s.pos + got <= sent
    BY <1>1, <1>6, <1>8, CutsForward
  <1>12. r.pos > s.pos /\ r.pos <= s.pos + n /\ r.pos <= sent
    BY <1>1, <1>4, <1>7, <1>11
  <1>13. TookFrom(r, s, n)
    BY <1>7, <1>10, <1>12 DEF TookFrom
  <1> QED
    BY <1>13 DEF r

\* read_data never waits where there is something to read.
LEMMA ReadTakes ==
    ASSUME Stream, NEW s, Flowing(s), NEW n \in Nat \ {0}, s.ssl > 0 \/ s.wire # <<>>
    PROVE  TookFrom(read_data(s, n), s, n)
  <1>1. ~(s.ssl = 0 /\ s.wire = <<>>)
    OBVIOUS
  <1>2. CASE tls = TRUE
    BY <1>1, <1>2, TlsTakes DEF read_data
  <1>3. CASE tls = FALSE
    <2>1. s.wire # <<>>
      BY <1>1, <1>3 DEF Flowing
    <2> QED
      BY <1>1, <1>3, <2>1, TcpTakes DEF read_data
  <1> QED
    BY <1>2, <1>3 DEF Stream

-----------------------------------------------------------------------------
(* asd_msg_read. *)

\* Where the messages start, of what is composed now.
LEMMA Starts ==
    ASSUME Stream
    PROVE  /\ Len(sizes) \in Nat
           /\ \A m \in 1..Len(sizes) : sizes[m] \in Nat
           /\ Composed = StartOf(Len(sizes) + 1)
           /\ \A m \in 1..(Len(sizes) + 1) : StartOf(m) \in Nat
           /\ \A l, m \in 1..(Len(sizes) + 1) : l < m => StartOf(l) < StartOf(m)
           /\ \A m \in 1..Len(sizes) : StartOf(m + 1) = StartOf(m) + HeaderSize + sizes[m]
  <1>1. sizes \in Seq(Nat)
    BY DEF Stream
  <1>2. Len(sizes) \in Nat /\ \A m \in 1..Len(sizes) : sizes[m] \in Nat
    BY <1>1
  <1> QED
    BY <1>1, <1>2, StartRecursion, StartsIncrease DEF StartOf, Composed

\* A message of which something was written is one that was composed.
LEMMA WrittenIsComposed ==
    ASSUME Stream, NEW h \in 0..Len(sizes), NEW p \in Nat, p > StartOf(h + 1), p <= sent
    PROVE  h < Len(sizes) /\ h + 1 \in 1..Len(sizes)
  <1>1. Len(sizes) \in Nat /\ Composed = StartOf(Len(sizes) + 1) /\ Composed \in Nat
    BY Starts
  <1>2. sent \in Nat /\ sent <= Composed
    BY DEF Stream
  <1>3. h + 1 \in 1..(Len(sizes) + 1) /\ StartOf(h + 1) \in Nat
    BY <1>1, Starts
  <1>4. h # Len(sizes)
    BY <1>1, <1>2, <1>3
  <1> QED
    BY <1>1, <1>4

\* asd_msg_on_msg_recv at the end of a message leaves the reader in front of
\* the next one.
LEMMA OnMsgRecv ==
    ASSUME Stream, NEW s, Flowing(s), s.cut = FALSE, s.handled + 1 \in 1..Len(sizes),
           s.pos = StartOf(s.handled + 2)
    PROVE  Flowing(asd_msg_on_msg_recv(s)) /\ InFrame(asd_msg_on_msg_recv(s))
  <1> DEFINE r == asd_msg_on_msg_recv(s)
  <1>1. s \in Reader /\ s.handled \in Nat /\ Len(sizes) \in Nat
    BY Starts DEF Flowing, Reader
  <1> DEFINE k == s.handled + 1
  <1>a. r = [s EXCEPT !.state = "INITIAL", !.handled = k] /\ k \in Nat
    BY <1>1 DEF asd_msg_on_msg_recv, Reader
  <1> HIDE DEF r, k
  <1>b. /\ r \in Reader /\ r.ok = s.ok /\ r.waits = s.waits /\ r.ssl = s.ssl
        /\ r.wire = s.wire /\ r.pos = s.pos /\ r.handled = k
        /\ r.state = "INITIAL" /\ r.cut = FALSE
    BY <1>1, <1>a DEF Reader
  <1>2. /\ r \in Reader /\ r.ok = s.ok /\ r.waits = s.waits /\ r.ssl = s.ssl
        /\ r.wire = s.wire /\ r.pos = s.pos /\ r.handled = s.handled + 1
        /\ r.state = "INITIAL" /\ r.cut = FALSE
    BY <1>b DEF k
  <1>3. Flowing(r)
    BY <1>2 DEF Flowing
  <1>4. r.handled \in 0..Len(sizes) /\ r.handled + 1 = s.handled + 2
    BY <1>1, <1>2
  <1>5. InFrame(r)
    BY <1>2, <1>4 DEF InFrame
  <1> QED
    BY <1>3, <1>5 DEF r

\* A reader that is i of n bytes into a part that starts at b, and takes the
\* bytes up to q, is no further than the end of it.
LEMMA Advance ==
    ASSUME NEW b \in Nat, NEW i \in Nat, NEW n \in Nat, NEW p \in Nat, NEW q \in Nat,
           p = b + i, q > p, q <= p + (n - i)
    PROVE  i + (q - p) \in Nat /\ i + (q - p) <= n /\ q = b + (i + (q - p))
  OBVIOUS

\* A read that ends in the header, or at its end.
LEMMA ReadHeader ==
    ASSUME Stream, NEW s, Flowing(s), InFrame(s), s.state = "HEADER",
           s.ssl > 0 \/ s.wire # <<>>, NEW stray
    PROVE  LET h == read_header(s, stray)
           IN  /\ (Flowing(h) /\ InFrame(h)) \/ (h.ok = FALSE /\ Left(h))
               /\ h.ok = TRUE /\ h.pending = TRUE => h.ssl > 0
  <1> DEFINE r == read_data(s, HeaderSize - s.index)
             index == s.index + (r.pos - s.pos)
             h == read_header(s, stray)
             start == StartOf(s.handled + 1)
  <1>1. /\ s \in Reader /\ s.index \in Nat /\ s.index < HeaderSize /\ s.pos \in Nat /\ s.cut = FALSE
        /\ s.handled \in 0..Len(sizes) /\ s.pos = start + s.index /\ HeaderSize \in Nat \ {0}
    BY MsgReadAssumption DEF Flowing, Reader, InFrame
  <1>2. TookFrom(r, s, HeaderSize - s.index)
    <2>1. HeaderSize - s.index \in Nat \ {0}
      BY <1>1
    <2> QED
      BY <2>1, ReadTakes
  <1>3. h = IF index = HeaderSize THEN header_complete(r, stray) ELSE [r EXCEPT !.index = index]
    BY DEF read_header
  <1> HIDE DEF r, h
  <1>4. /\ Flowing(r) /\ r \in Reader /\ r.pos \in Nat
        /\ r.pos > s.pos /\ r.pos <= s.pos + (HeaderSize - s.index) /\ r.pos <= sent
        /\ r.state = "HEADER" /\ r.handled = s.handled /\ r.cut = FALSE
        /\ r.pending = TRUE => r.ssl > 0
    BY <1>1, <1>2 DEF TookFrom, Flowing, Reader
  <1>5. start \in Nat /\ Len(sizes) \in Nat
    <2>1. s.handled + 1 \in 1..(Len(sizes) + 1)
      BY <1>1, Starts
    <2> QED
      BY <2>1, Starts
  <1> HIDE DEF start
  <1>6. index \in Nat /\ index <= HeaderSize /\ r.pos = start + index
    <2> DEFINE i == s.index
               p == s.pos
               q == r.pos
    <2>1. /\ i \in Nat /\ p \in Nat /\ q \in Nat /\ HeaderSize \in Nat
          /\ p = start + i /\ q > p /\ q <= p + (HeaderSize - i)
      BY <1>1, <1>4
    <2> HIDE DEF i, p, q
    <2>2. i + (q - p) \in Nat /\ i + (q - p) <= HeaderSize /\ q = start + (i + (q - p))
      BY <1>5, <2>1, Advance
    <2> QED
      BY <2>2 DEF i, p, q
  <1>7. s.handled < Len(sizes) /\ s.handled + 1 \in 1..Len(sizes)
    <2>1. r.pos > start
      BY <1>1, <1>4, <1>5
    <2> QED
      BY <1>1, <1>4, <2>1, WrittenIsComposed DEF start
  <1> HIDE DEF index
  <1>8. CASE index # HeaderSize
    <2>1. h = [r EXCEPT !.index = index]
      BY <1>3, <1>8
    <2>2. /\ h \in Reader /\ h.cut = r.cut /\ h.ok = r.ok /\ h.waits = r.waits /\ h.ssl = r.ssl
          /\ h.wire = r.wire /\ h.pos = r.pos /\ h.handled = s.handled
          /\ h.state = "HEADER" /\ h.index = index /\ h.pending = r.pending
      BY <1>4, <1>6, <2>1 DEF Reader
    <2>3. Flowing(h)
      BY <1>4, <2>2 DEF Flowing
    <2>4. InFrame(h)
      BY <1>1, <1>4, <1>6, <1>8, <2>2 DEF InFrame, start
    <2> QED
      BY <1>4, <2>2, <2>3, <2>4 DEF h
  <1>9. CASE index = HeaderSize
    <2> DEFINE m == s.handled + 1
               data_size == get_message_size(r, stray)
    <2>1. sizes[m] \in Nat /\ StartOf(m + 1) = start + HeaderSize + sizes[m]
      BY <1>7, Starts DEF start
    <2>2. data_size = IF sizes[m] <= MaxDataSize THEN sizes[m] ELSE -1
      BY <1>4, <1>6, <1>9 DEF get_message_size, start
    <2>3. h = IF data_size = -1 THEN [r EXCEPT !.state = "INITIAL", !.index = 0, !.ok = FALSE]
              ELSE IF data_size > 0
              THEN [r EXCEPT !.state = "BUFFER", !.index = 0, !.size = data_size]
              ELSE asd_msg_on_msg_recv(r)
      BY <1>3, <1>9 DEF header_complete
    <2> HIDE DEF data_size
    <2>4. CASE data_size = -1
      <3>1. h = [r EXCEPT !.state = "INITIAL", !.index = 0, !.ok = FALSE]
        BY <2>3, <2>4
      <3>2. /\ h \in Reader /\ h.ok = FALSE /\ h.waits = r.waits /\ h.state = "INITIAL"
            /\ h.handled = s.handled
        BY <1>4, <3>1 DEF Reader
      <3>3. r.waits = FALSE
        BY <1>4 DEF Flowing
      <3>4. Left(h)
        BY <1>1, <3>2, <3>3 DEF Left
      <3> QED
        BY <3>2, <3>4 DEF h
    <2>5. CASE data_size # -1 /\ data_size > 0
      <3>1. h = [r EXCEPT !.state = "BUFFER", !.index = 0, !.size = data_size]
        BY <2>3, <2>5
      <3>2. data_size \in 0..MaxDataSize /\ data_size = sizes[m]
        BY <2>1, <2>2, <2>5, MsgReadAssumption
      <3>3. /\ h \in Reader /\ h.cut = r.cut /\ h.ok = r.ok /\ h.waits = r.waits /\ h.ssl = r.ssl
            /\ h.wire = r.wire /\ h.pos = r.pos /\ h.handled = s.handled
            /\ h.state = "BUFFER" /\ h.index = 0 /\ h.size = data_size
            /\ h.pending = r.pending
        BY <1>4, <3>1, <3>2 DEF Reader
      <3>4. Flowing(h)
        BY <1>4, <3>3 DEF Flowing
      <3>5. h.pos = start + HeaderSize + 0
        BY <1>1, <1>5, <1>6, <1>9, <3>3
      <3>6. InFrame(h)
        BY <1>1, <1>4, <1>7, <2>5, <3>2, <3>3, <3>5 DEF InFrame, start
      <3> QED
        BY <1>4, <3>3, <3>4, <3>6 DEF h
    <2>6. CASE data_size # -1 /\ ~(data_size > 0)
      <3>1. h = asd_msg_on_msg_recv(r)
        BY <2>3, <2>6
      <3>2. sizes[m] = 0
        BY <2>1, <2>2, <2>6
      <3>3. m + 1 = r.handled + 2 /\ r.handled + 1 = m
        BY <1>1, <1>4
      <3>4. r.pos = StartOf(m + 1)
        BY <1>1, <1>5, <1>6, <1>9, <2>1, <3>2
      <3>5. Flowing(h) /\ InFrame(h)
        BY <1>4, <1>7, <3>1, <3>3, <3>4, OnMsgRecv
      <3>6. h.ssl = r.ssl /\ h.pending = r.pending
        BY <1>4, <3>1 DEF asd_msg_on_msg_recv, Reader
      <3> QED
        BY <1>4, <3>5, <3>6 DEF h
    <2> QED
      BY <2>4, <2>5, <2>6
  <1> QED
    BY <1>8, <1>9

\* A read that ends in the data, or at its end.
LEMMA ReadBuffer ==
    ASSUME Stream, NEW s, Flowing(s), InFrame(s), s.state = "BUFFER",
           s.ssl > 0 \/ s.wire # <<>>
    PROVE  Flowing(read_buffer(s)) /\ InFrame(read_buffer(s))
  <1> DEFINE r == read_data(s, s.size - s.index)
             index == s.index + (r.pos - s.pos)
             h == read_buffer(s)
             m == s.handled + 1
             start == StartOf(m)
  <1>1. /\ s \in Reader /\ s.index \in Nat /\ s.size \in Nat /\ s.index < s.size /\ s.pos \in Nat
        /\ s.cut = FALSE
        /\ s.handled \in 0..Len(sizes) /\ s.handled < Len(sizes) /\ s.size = sizes[m]
        /\ s.pos = start + HeaderSize + s.index /\ HeaderSize \in Nat \ {0}
    BY MsgReadAssumption DEF Flowing, Reader, InFrame
  <1>2. TookFrom(r, s, s.size - s.index)
    <2>1. s.size - s.index \in Nat \ {0}
      BY <1>1
    <2> QED
      BY <2>1, ReadTakes
  <1>3. h = IF index = s.size THEN asd_msg_on_msg_recv(r) ELSE [r EXCEPT !.index = index]
    BY DEF read_buffer
  <1> HIDE DEF r, h
  <1>4. /\ Flowing(r) /\ r \in Reader /\ r.pos \in Nat
        /\ r.pos > s.pos /\ r.pos <= s.pos + (s.size - s.index)
        /\ r.state = "BUFFER" /\ r.handled = s.handled /\ r.size = s.size /\ r.cut = FALSE
    BY <1>1, <1>2 DEF TookFrom, Flowing, Reader
  <1>5. Len(sizes) \in Nat /\ m \in 1..Len(sizes) /\ m \in 1..(Len(sizes) + 1)
    BY <1>1, Starts
  <1>6. start \in Nat /\ StartOf(m + 1) = start + HeaderSize + sizes[m]
    BY <1>5, Starts
  <1> HIDE DEF start
  <1>7. index \in Nat /\ index <= s.size /\ r.pos = start + HeaderSize + index
    <2> DEFINE b == start + HeaderSize
               i == s.index
               n == s.size
               p == s.pos
               q == r.pos
    <2>1. b \in Nat /\ p = b + i
      BY <1>1, <1>6
    <2>2. /\ i \in Nat /\ n \in Nat /\ p \in Nat /\ q \in Nat
          /\ q > p /\ q <= p + (n - i)
      BY <1>1, <1>4
    <2> HIDE DEF b, i, n, p, q
    <2>3. i + (q - p) \in Nat /\ i + (q - p) <= n /\ q = b + (i + (q - p))
      BY <2>1, <2>2, Advance
    <2> QED
      BY <2>3 DEF b, i, n, p, q
  <1> HIDE DEF index
  <1>8. CASE index # s.size
    <2>1. h = [r EXCEPT !.index = index]
      BY <1>3, <1>8
    <2>2. /\ h \in Reader /\ h.cut = r.cut /\ h.ok = r.ok /\ h.waits = r.waits /\ h.ssl = r.ssl
          /\ h.wire = r.wire /\ h.pos = r.pos /\ h.handled = s.handled
          /\ h.state = "BUFFER" /\ h.index = index /\ h.size = s.size
      BY <1>4, <1>7, <2>1 DEF Reader
    <2>3. Flowing(h)
      BY <1>4, <2>2 DEF Flowing
    <2>4. InFrame(h)
      BY <1>1, <1>4, <1>7, <1>8, <2>2 DEF InFrame, start
    <2> QED
      BY <2>3, <2>4 DEF h
  <1>9. CASE index = s.size
    <2>1. h = asd_msg_on_msg_recv(r)
      BY <1>3, <1>9
    <2>2. m + 1 = r.handled + 2 /\ r.handled + 1 = m
      BY <1>1, <1>4
    <2>3. r.pos = StartOf(m + 1)
      BY <1>1, <1>6, <1>7, <1>9
    <2>4. Flowing(h) /\ InFrame(h)
      BY <1>4, <1>5, <2>1, <2>2, <2>3, OnMsgRecv
    <2> QED
      BY <2>4 DEF h
  <1> QED
    BY <1>8, <1>9

\* A reader that starts on a header is where it was.
LEMMA StartHeader ==
    ASSUME NEW s, Reading(s), s.state # "BUFFER"
    PROVE  LET g == IF s.state = "INITIAL" THEN read_initial(s) ELSE s
           IN  /\ Flowing(g) /\ g.state = "HEADER" /\ g.index < HeaderSize
               /\ g.wire = s.wire /\ g.ssl = s.ssl /\ g.pos = s.pos
               /\ InFrame(s) => InFrame(g)
               /\ Loose(s) => Loose(g)
  <1> DEFINE g == IF s.state = "INITIAL" THEN read_initial(s) ELSE s
  <1>1. s \in Reader /\ Flowing(s)
    BY DEF Reading, Flowing
  <1>2. CASE s.state = "INITIAL"
    <2>1. g = [s EXCEPT !.state = "HEADER", !.index = 0, !.size = 0]
      BY <1>2 DEF read_initial
    <2>2. 0 \in 0..MaxDataSize /\ 0 < HeaderSize
      BY MsgReadAssumption
    <2> HIDE DEF g
    <2>3. /\ g \in Reader /\ g.ok = s.ok /\ g.waits = s.waits /\ g.ssl = s.ssl /\ g.cut = s.cut
          /\ g.wire = s.wire /\ g.pos = s.pos /\ g.handled = s.handled
          /\ g.state = "HEADER" /\ g.index = 0
      BY <1>1, <2>1, <2>2 DEF Reader
    <2>4. Flowing(g)
      BY <1>1, <2>3 DEF Flowing
    <2>5. ASSUME InFrame(s)
          PROVE  InFrame(g)
      <3>1. /\ s.cut = FALSE /\ s.handled \in 0..Len(sizes) /\ s.pos = StartOf(s.handled + 1)
            /\ s.pos \in Nat
        BY <1>1, <1>2, <2>5 DEF InFrame, Reader
      <3>2. g.pos = StartOf(g.handled + 1) + g.index
        BY <2>3, <3>1
      <3> QED
        BY <2>2, <2>3, <3>1, <3>2 DEF InFrame
    <2>6. Loose(s) => Loose(g)
      BY <2>2, <2>3 DEF Loose
    <2> QED
      BY <2>2, <2>3, <2>4, <2>5, <2>6 DEF g
  <1>3. CASE s.state # "INITIAL"
    <2>1. g = s /\ s.state = "HEADER"
      BY <1>1, <1>3 DEF Reader
    <2>2. s.index < HeaderSize
      BY <2>1 DEF Reading, InFrame, Loose
    <2> QED
      BY <1>1, <2>1, <2>2
  <1> QED
    BY <1>2, <1>3

\* One call of asd_msg_read with something to read: the reader stays in the
\* frame, or gives the client up for a size that is too large.
LEMMA MsgReadFramed ==
    ASSUME Stream, NEW s, Flowing(s), InFrame(s), s.ssl > 0 \/ s.wire # <<>>, NEW stray
    PROVE  Sound(asd_msg_read(s, stray))
  <1>1. CASE s.state = "BUFFER"
    BY <1>1, ReadBuffer DEF asd_msg_read, Sound, Reading
  <1>2. CASE s.state # "BUFFER"
    <2> DEFINE g == IF s.state = "INITIAL" THEN read_initial(s) ELSE s
               h == read_header(g, stray)
    <2>1. Flowing(g) /\ InFrame(g) /\ g.state = "HEADER" /\ (g.ssl > 0 \/ g.wire # <<>>)
      BY <1>2, StartHeader DEF Reading
    <2>2. asd_msg_read(s, stray) = IF h.ok /\ h.state = "BUFFER" /\ h.pending THEN read_buffer(h) ELSE h
      BY <1>2 DEF asd_msg_read
    <2> HIDE DEF g
    <2>3. /\ (Flowing(h) /\ InFrame(h)) \/ (h.ok = FALSE /\ Left(h))
          /\ h.ok = TRUE /\ h.pending = TRUE => h.ssl > 0
      BY <2>1, ReadHeader
    <2> HIDE DEF h
    <2>5. CASE h.ok /\ h.state = "BUFFER" /\ h.pending
      <3>1. Flowing(h) /\ InFrame(h)
        BY <2>3, <2>5
      <3>2. h.ok = TRUE /\ h.pending = TRUE
        BY <2>5, <3>1 DEF Flowing, Reader
      <3>3. Flowing(read_buffer(h)) /\ InFrame(read_buffer(h))
        BY <2>3, <2>5, <3>1, <3>2, ReadBuffer
      <3> QED
        BY <2>2, <2>5, <3>3 DEF Sound, Reading
    <2>6. CASE ~(h.ok /\ h.state = "BUFFER" /\ h.pending)
      BY <2>2, <2>3, <2>6 DEF Sound, Reading
    <2> QED
      BY <2>5, <2>6
  <1> QED
    BY <1>1, <1>2

-----------------------------------------------------------------------------
(* asd_msg_read after a reset in the middle of a message. *)

\* What the reader takes for a message ends.
LEMMA LooseRecv ==
    ASSUME NEW s, Flowing(s), Loose(s)
    PROVE  LET r == asd_msg_on_msg_recv(s)
           IN  Flowing(r) /\ Loose(r) /\ r.ssl = s.ssl /\ r.pending = s.pending
  <1> DEFINE r == asd_msg_on_msg_recv(s)
  <1>1. s \in Reader /\ s.cut = TRUE
    BY DEF Flowing, Loose
  <1>2. r = [s EXCEPT !.state = "INITIAL", !.handled = s.handled]
    BY <1>1 DEF asd_msg_on_msg_recv, Reader
  <1> HIDE DEF r
  <1>3. /\ r \in Reader /\ r.ok = s.ok /\ r.waits = s.waits /\ r.ssl = s.ssl /\ r.cut = TRUE
        /\ r.wire = s.wire /\ r.pos = s.pos /\ r.handled = s.handled
        /\ r.state = "INITIAL" /\ r.pending = s.pending
    BY <1>1, <1>2 DEF Reader
  <1>4. Flowing(r) /\ Loose(r)
    BY <1>3 DEF Flowing, Loose
  <1> QED
    BY <1>3, <1>4 DEF r

\* Bytes are taken for a header.
LEMMA LooseHeader ==
    ASSUME Stream, NEW s, Flowing(s), Loose(s), s.state = "HEADER",
           s.ssl > 0 \/ s.wire # <<>>, NEW stray \in -1..MaxDataSize
    PROVE  LET h == read_header(s, stray)
           IN  /\ (Flowing(h) /\ Loose(h)) \/ (h.ok = FALSE /\ Left(h))
               /\ h.ok = TRUE /\ h.pending = TRUE => h.ssl > 0
  <1> DEFINE r == read_data(s, HeaderSize - s.index)
             index == s.index + (r.pos - s.pos)
             h == read_header(s, stray)
  <1>1. /\ s \in Reader /\ s.index \in Nat /\ s.index < HeaderSize /\ s.pos \in Nat
        /\ s.cut = TRUE /\ s.handled \in 0..Len(sizes) /\ HeaderSize \in Nat \ {0}
        /\ MaxDataSize \in Nat
    BY MsgReadAssumption DEF Flowing, Reader, Loose
  <1>2. TookFrom(r, s, HeaderSize - s.index)
    <2>1. HeaderSize - s.index \in Nat \ {0}
      BY <1>1
    <2> QED
      BY <2>1, ReadTakes
  <1>3. h = IF index = HeaderSize THEN header_complete(r, stray) ELSE [r EXCEPT !.index = index]
    BY DEF read_header
  <1> HIDE DEF r, h
  <1>4. /\ Flowing(r) /\ r \in Reader /\ r.pos \in Nat
        /\ r.pos > s.pos /\ r.pos <= s.pos + (HeaderSize - s.index)
        /\ r.state = "HEADER" /\ r.index = s.index /\ r.handled = s.handled /\ r.cut = TRUE
        /\ r.pending = TRUE => r.ssl > 0
    BY <1>1, <1>2 DEF TookFrom, Flowing, Reader
  <1>5. index \in Nat /\ index <= HeaderSize
    BY <1>1, <1>4
  <1>6. Loose(r)
    BY <1>1, <1>4 DEF Loose
  <1> HIDE DEF index
  <1>7. CASE index # HeaderSize
    <2>1. h = [r EXCEPT !.index = index] /\ index < HeaderSize
      BY <1>1, <1>3, <1>5, <1>7
    <2>2. /\ h \in Reader /\ h.ok = r.ok /\ h.waits = r.waits /\ h.ssl = r.ssl /\ h.cut = TRUE
          /\ h.wire = r.wire /\ h.pos = r.pos /\ h.handled = s.handled
          /\ h.state = "HEADER" /\ h.index = index /\ h.pending = r.pending
      BY <1>4, <1>5, <2>1 DEF Reader
    <2>3. Flowing(h) /\ Loose(h)
      BY <1>1, <1>4, <2>1, <2>2 DEF Flowing, Loose
    <2> QED
      BY <1>4, <2>2, <2>3 DEF h
  <1>8. CASE index = HeaderSize
    <2>1. h = IF stray = -1 THEN [r EXCEPT !.state = "INITIAL", !.index = 0, !.ok = FALSE]
              ELSE IF stray > 0 THEN [r EXCEPT !.state = "BUFFER", !.index = 0, !.size = stray]
              ELSE asd_msg_on_msg_recv(r)
      BY <1>3, <1>4, <1>8 DEF header_complete, get_message_size
    <2>2. CASE stray = -1
      <3>1. h = [r EXCEPT !.state = "INITIAL", !.index = 0, !.ok = FALSE]
        BY <2>1, <2>2
      <3>2. /\ h \in Reader /\ h.ok = FALSE /\ h.waits = r.waits /\ h.state = "INITIAL"
            /\ h.handled = s.handled
        BY <1>4, <3>1 DEF Reader
      <3>3. Left(h)
        BY <1>1, <1>4, <3>2 DEF Left, Flowing
      <3> QED
        BY <3>2, <3>3 DEF h
    <2>3. CASE stray # -1 /\ stray > 0
      <3>1. h = [r EXCEPT !.state = "BUFFER", !.index = 0, !.size = stray] /\ stray \in 0..MaxDataSize
        BY <1>1, <2>1, <2>3
      <3>2. /\ h \in Reader /\ h.ok = r.ok /\ h.waits = r.waits /\ h.ssl = r.ssl /\ h.cut = TRUE
            /\ h.wire = r.wire /\ h.pos = r.pos /\ h.handled = s.handled
            /\ h.state = "BUFFER" /\ h.index = 0 /\ h.size = stray /\ h.pending = r.pending
        BY <1>4, <3>1 DEF Reader
      <3>3. Flowing(h) /\ Loose(h)
        BY <1>1, <1>4, <2>3, <3>2 DEF Flowing, Loose
      <3> QED
        BY <1>4, <3>2, <3>3 DEF h
    <2>4. CASE stray # -1 /\ ~(stray > 0)
      <3>1. h = asd_msg_on_msg_recv(r)
        BY <2>1, <2>4
      <3> QED
        BY <1>4, <1>6, <3>1, LooseRecv DEF h
    <2> QED
      BY <2>2, <2>3, <2>4
  <1> QED
    BY <1>7, <1>8

\* Bytes are taken for data.
LEMMA LooseBuffer ==
    ASSUME Stream, NEW s, Flowing(s), Loose(s), s.state = "BUFFER",
           s.ssl > 0 \/ s.wire # <<>>
    PROVE  Flowing(read_buffer(s)) /\ Loose(read_buffer(s))
  <1> DEFINE r == read_data(s, s.size - s.index)
             index == s.index + (r.pos - s.pos)
             h == read_buffer(s)
  <1>1. /\ s \in Reader /\ s.index \in Nat /\ s.size \in Nat /\ s.index < s.size /\ s.pos \in Nat
        /\ s.cut = TRUE /\ s.handled \in 0..Len(sizes)
    BY DEF Flowing, Reader, Loose
  <1>2. TookFrom(r, s, s.size - s.index)
    <2>1. s.size - s.index \in Nat \ {0}
      BY <1>1
    <2> QED
      BY <2>1, ReadTakes
  <1>3. h = IF index = s.size THEN asd_msg_on_msg_recv(r) ELSE [r EXCEPT !.index = index]
    BY DEF read_buffer
  <1> HIDE DEF r, h
  <1>4. /\ Flowing(r) /\ r \in Reader /\ r.pos \in Nat
        /\ r.pos > s.pos /\ r.pos <= s.pos + (s.size - s.index)
        /\ r.state = "BUFFER" /\ r.index = s.index /\ r.handled = s.handled /\ r.size = s.size
        /\ r.cut = TRUE
    BY <1>1, <1>2 DEF TookFrom, Flowing, Reader
  <1>5. index \in Nat /\ index <= s.size
    BY <1>1, <1>4
  <1>6. Loose(r)
    BY <1>1, <1>4 DEF Loose
  <1> HIDE DEF index
  <1>7. CASE index # s.size
    <2>1. h = [r EXCEPT !.index = index] /\ index < s.size
      BY <1>1, <1>3, <1>5, <1>7
    <2>2. /\ h \in Reader /\ h.ok = r.ok /\ h.waits = r.waits /\ h.ssl = r.ssl /\ h.cut = TRUE
          /\ h.wire = r.wire /\ h.pos = r.pos /\ h.handled = s.handled
          /\ h.state = "BUFFER" /\ h.index = index /\ h.size = s.size
      BY <1>4, <1>5, <2>1 DEF Reader
    <2> QED
      BY <1>1, <1>4, <2>1, <2>2 DEF Flowing, Loose, h
  <1>8. CASE index = s.size
    <2>1. h = asd_msg_on_msg_recv(r)
      BY <1>3, <1>8
    <2> QED
      BY <1>4, <1>6, <2>1, LooseRecv DEF h
  <1> QED
    BY <1>7, <1>8

\* One call of asd_msg_read on bytes that are no messages.
LEMMA MsgReadLoose ==
    ASSUME Stream, NEW s, Flowing(s), Loose(s), s.ssl > 0 \/ s.wire # <<>>,
           NEW stray \in -1..MaxDataSize
    PROVE  Sound(asd_msg_read(s, stray))
  <1>1. CASE s.state = "BUFFER"
    BY <1>1, LooseBuffer DEF asd_msg_read, Sound, Reading
  <1>2. CASE s.state # "BUFFER"
    <2> DEFINE g == IF s.state = "INITIAL" THEN read_initial(s) ELSE s
               h == read_header(g, stray)
    <2>1. Flowing(g) /\ Loose(g) /\ g.state = "HEADER" /\ (g.ssl > 0 \/ g.wire # <<>>)
      BY <1>2, StartHeader DEF Reading
    <2>2. asd_msg_read(s, stray) = IF h.ok /\ h.state = "BUFFER" /\ h.pending THEN read_buffer(h) ELSE h
      BY <1>2 DEF asd_msg_read
    <2> HIDE DEF g
    <2>3. /\ (Flowing(h) /\ Loose(h)) \/ (h.ok = FALSE /\ Left(h))
          /\ h.ok = TRUE /\ h.pending = TRUE => h.ssl > 0
      BY <2>1, LooseHeader
    <2> HIDE DEF h
    <2>5. CASE h.ok /\ h.state = "BUFFER" /\ h.pending
      <3>1. Flowing(h) /\ Loose(h)
        BY <2>3, <2>5
      <3>2. h.ok = TRUE /\ h.pending = TRUE
        BY <2>5, <3>1 DEF Flowing, Reader
      <3>3. Flowing(read_buffer(h)) /\ Loose(read_buffer(h))
        BY <2>3, <2>5, <3>1, <3>2, LooseBuffer
      <3> QED
        BY <2>2, <2>5, <3>3 DEF Sound, Reading
    <2>6. CASE ~(h.ok /\ h.state = "BUFFER" /\ h.pending)
      BY <2>2, <2>3, <2>6 DEF Sound, Reading
    <2> QED
      BY <2>5, <2>6
  <1> QED
    BY <1>1, <1>2

-----------------------------------------------------------------------------
(* asd_msg_read with nothing to read. *)

\* It waits in its first recv(), where the reader stands where it stood.
LEMMA MsgReadWaits ==
    ASSUME NEW s, Reading(s), s.ssl = 0, s.wire = <<>>, NEW stray
    PROVE  LET r == asd_msg_read(s, stray)
           IN  /\ r.waits = TRUE /\ r.ok = TRUE
               /\ Reading([r EXCEPT !.waits = FALSE])
               /\ [r EXCEPT !.waits = FALSE].pos = s.pos
  <1>1. s \in Reader /\ s.ok = TRUE /\ s.waits = FALSE /\ s.index \in Nat /\ s.pos \in Nat
    BY DEF Reading, Flowing, Reader
  <1>2. CASE s.state = "BUFFER"
    <2> DEFINE r == [s EXCEPT !.waits = TRUE]
    <2>1. s.index < s.size /\ s.size \in Nat
      BY <1>1, <1>2 DEF Reading, InFrame, Loose, Reader
    <2>2. read_data(s, s.size - s.index) = r /\ r.pos = s.pos
      BY <1>1 DEF read_data, Reader
    <2>3. s.index + (r.pos - s.pos) = s.index
      BY <1>1, <2>2
    <2>a. read_buffer(s) = LET index == s.index + (r.pos - s.pos)
                           IN  IF index = s.size THEN asd_msg_on_msg_recv(r)
                               ELSE [r EXCEPT !.index = index]
      <3> HIDE DEF r
      <3> QED
        BY <2>2 DEF read_buffer
    <2>4. read_buffer(s) = [r EXCEPT !.index = s.index]
      <3> HIDE DEF r
      <3> QED
        BY <1>1, <2>1, <2>3, <2>a
    <2>5. [r EXCEPT !.index = s.index] = r
      BY <1>1 DEF Reader
    <2>6. asd_msg_read(s, stray) = r
      BY <1>2, <2>4, <2>5 DEF asd_msg_read
    <2>7. r.waits = TRUE /\ r.ok = TRUE /\ [r EXCEPT !.waits = FALSE] = s
      BY <1>1 DEF Reader
    <2> HIDE DEF r
    <2> QED
      BY <2>6, <2>7
  <1>3. CASE s.state # "BUFFER"
    <2> DEFINE g == IF s.state = "INITIAL" THEN read_initial(s) ELSE s
               r == [g EXCEPT !.waits = TRUE]
    <2>1. /\ Flowing(g) /\ g.state = "HEADER" /\ g.index < HeaderSize
          /\ g.wire = <<>> /\ g.ssl = 0 /\ g.pos = s.pos /\ Reading(g)
      BY <1>3, StartHeader DEF Reading
    <2>2. /\ asd_msg_read(s, stray) =
               LET h == read_header(g, stray)
               IN  IF h.ok /\ h.state = "BUFFER" /\ h.pending THEN read_buffer(h) ELSE h
      BY <1>3 DEF asd_msg_read
    <2> HIDE DEF g
    <2>3. /\ g \in Reader /\ g.ok = TRUE /\ g.waits = FALSE /\ g.index \in Nat /\ g.pos \in Nat
          /\ HeaderSize \in Nat
      BY <2>1, MsgReadAssumption DEF Flowing, Reader
    <2>4. read_data(g, HeaderSize - g.index) = r /\ r.pos = g.pos
      BY <2>1, <2>3 DEF read_data, Reader
    <2>5. g.index + (r.pos - g.pos) = g.index
      BY <2>3, <2>4
    <2>a. read_header(g, stray) = LET index == g.index + (r.pos - g.pos)
                                  IN  IF index = HeaderSize THEN header_complete(r, stray)
                                      ELSE [r EXCEPT !.index = index]
      <3> HIDE DEF r
      <3> QED
        BY <2>4 DEF read_header
    <2>6. read_header(g, stray) = [r EXCEPT !.index = g.index]
      <3> HIDE DEF r
      <3> QED
        BY <2>1, <2>3, <2>5, <2>a
    <2>7. [r EXCEPT !.index = g.index] = r
      BY <2>3 DEF Reader
    <2>8. r.waits = TRUE /\ r.ok = TRUE /\ r.state = "HEADER" /\ [r EXCEPT !.waits = FALSE] = g
      BY <2>1, <2>3 DEF Reader
    <2> HIDE DEF r
    <2>9. asd_msg_read(s, stray) = r
      BY <2>2, <2>6, <2>7, <2>8
    <2> QED
      BY <2>1, <2>8, <2>9
  <1> QED
    BY <1>2, <1>3

-----------------------------------------------------------------------------
(* The steps. *)

\* A reader that has just started is in front of the first message.
LEMMA FreshReads ==
    ASSUME sizes = <<>>, sent = 0, tls \in BOOLEAN
    PROVE  Stream /\ Reading(Fresh)
  <1>1. sizes \in Seq(Nat) /\ Len(sizes) = 0 /\ StartOf(1) = 0 /\ Composed = 0
    <2>1. 0 + 1 = 1
      OBVIOUS
    <2> QED
      BY <2>1, StartOfNone DEF StartOf, Composed
  <1>2. Stream
    BY <1>1 DEF Stream
  <1>3. 0 \in 0..MaxDataSize /\ <<>> \in Pieces
    BY MsgReadAssumption DEF Pieces
  <1>4. Fresh \in Reader
    BY <1>3 DEF Fresh, Reader
  <1>5. Cuts(Fresh.wire, Fresh.pos + Fresh.ssl, sent)
    BY CutsOfNone DEF Fresh
  <1>6. Flowing(Fresh)
    BY <1>4, <1>5 DEF Fresh, Flowing
  <1>7. InFrame(Fresh)
    BY <1>1 DEF Fresh, InFrame
  <1> QED
    BY <1>2, <1>6, <1>7 DEF Reading

\* The daemon starts with nothing to read.
LEMMA InitInv ==
    ASSUME Init
    PROVE  IInv
  <1>1. tls \in BOOLEAN
    BY MsgReadAssumption DEF Init
  <1> QED
    BY <1>1, FreshReads DEF Init, IInv

\* Whether there is something to read decides whether asd_msg_read waits.
LEMMA ReadInv ==
    ASSUME IInv, Read, dropped = FALSE
    PROVE  /\ IInv'
           /\ waiting' = TRUE => st.ssl = 0 /\ st.wire = <<>> /\ st'.pos = st.pos
  <1>1. /\ Stream /\ Reading(st) /\ first' = FALSE
        /\ UNCHANGED <<tls, sizes, sent, part, instance>>
    BY DEF IInv, Read
  <1>2. PICK stray \in -1..MaxDataSize :
          LET r == asd_msg_read(st, stray)
          IN  st' = [r EXCEPT !.waits = FALSE] /\ waiting' = r.waits /\ dropped' = ~r.ok
    BY DEF Read
  <1> DEFINE r == asd_msg_read(st, stray)
  <1>3. /\ Stream' /\ part' \in BOOLEAN /\ first' \in BOOLEAN /\ instance' \in BOOLEAN
    BY <1>1 DEF IInv, Stream, Composed, StartOf
  <1>4. ASSUME Reading(st')
        PROVE  Reading(st)'
    BY <1>1, <1>4 DEF Reading, Flowing, InFrame, Loose, StartOf
  <1>5. CASE st.ssl = 0 /\ st.wire = <<>>
    <2>1. r.waits = TRUE /\ r.ok = TRUE /\ Reading([r EXCEPT !.waits = FALSE])
          /\ [r EXCEPT !.waits = FALSE].pos = st.pos
      BY <1>1, <1>5, MsgReadWaits
    <2> HIDE DEF r
    <2>2. waiting' = TRUE /\ dropped' = FALSE /\ Reading(st') /\ st'.pos = st.pos
      BY <1>2, <2>1 DEF r
    <2> QED
      BY <1>3, <1>4, <1>5, <2>2 DEF IInv
  <1>6. CASE ~(st.ssl = 0 /\ st.wire = <<>>)
    <2>1. st.ssl > 0 \/ st.wire # <<>>
      BY <1>1, <1>6 DEF Reading, Flowing, Reader
    <2>2. Sound(r)
      BY <1>1, <2>1, MsgReadFramed, MsgReadLoose DEF Reading
    <2> HIDE DEF r
    <2>3. r \in Reader /\ r.waits = FALSE
      BY <2>2 DEF Sound, Reading, Left, Flowing
    <2>4. [r EXCEPT !.waits = FALSE] = r
      BY <2>3 DEF Reader
    <2>5. st' = r /\ waiting' = FALSE /\ dropped' = ~r.ok
      BY <1>2, <2>3, <2>4 DEF r
    <2>6. CASE Reading(r)
      <3>1. dropped' = FALSE /\ Reading(st')
        BY <2>5, <2>6 DEF Reading, Flowing
      <3> QED
        BY <1>3, <1>4, <2>5, <3>1 DEF IInv
    <2>7. CASE r.ok = FALSE /\ Left(r)
      <3>1. dropped' = TRUE /\ Left(st')
        BY <2>5, <2>7
      <3>2. Left(st)'
        BY <1>1, <3>1 DEF Left
      <3> QED
        BY <1>3, <2>5, <3>1, <3>2 DEF IInv
    <2> QED
      BY <2>2, <2>6, <2>7 DEF Sound
  <1> QED
    BY <1>5, <1>6

\* The receive timeout ends a wait.
LEMMA TimeoutInv ==
    ASSUME IInv, RecvTimesOut
    PROVE  IInv'
  <1>1. /\ Reading(st) /\ Stream /\ waiting' = FALSE /\ dropped' = TRUE
        /\ UNCHANGED <<tls, sizes, sent, part, st, first, instance>>
    BY DEF IInv, RecvTimesOut
  <1>2. Left(st)
    BY <1>1 DEF Reading, Left, Flowing, InFrame, Loose
  <1>3. Left(st)'
    BY <1>1, <1>2 DEF Left
  <1>4. Stream'
    BY <1>1 DEF Stream, Composed, StartOf
  <1> QED
    BY <1>1, <1>3, <1>4 DEF IInv

\* A message is composed.
LEMMA ComposeInv ==
    ASSUME IInv, NEW size \in Sizes, Compose(size)
    PROVE  IInv'
  <1>1. /\ Stream /\ Reading(st) /\ Flowing(st) /\ dropped = FALSE
        /\ sizes' = Append(sizes, size)
        /\ UNCHANGED <<tls, sent, part, st, first, waiting, instance, dropped>>
    BY DEF IInv, Reading, Compose
  <1>2. size \in Nat /\ sizes \in Seq(Nat) /\ sent \in Nat /\ sent <= Composed
    BY <1>1, MsgReadAssumption DEF Stream
  <1>3. /\ sizes' \in Seq(Nat) /\ Len(sizes') = Len(sizes) + 1 /\ Len(sizes) \in Nat
        /\ \A m \in 1..Len(sizes) : sizes'[m] = sizes[m]
    BY <1>1, <1>2
  <1>4. \A m \in 1..(Len(sizes) + 1) : StartIn(sizes', m) = StartIn(sizes, m)
    BY <1>1, <1>2, StartsStay
  <1>5. sent <= Composed'
    <2> DEFINE a == StartIn(sizes', Len(sizes) + 1)
               z == StartIn(sizes', Len(sizes') + 1)
    <2>1. a \in Nat /\ z \in Nat /\ a < z
      BY <1>3, StartsIncrease
    <2>2. Composed = a /\ Composed' = z
      BY <1>3, <1>4 DEF Composed, StartOf
    <2> HIDE DEF a, z
    <2> QED
      BY <1>2, <2>1, <2>2
  <1>6. Stream'
    BY <1>1, <1>2, <1>3, <1>5 DEF Stream
  <1>7. Flowing(st)'
    BY <1>1 DEF Flowing
  <1>8. ASSUME InFrame(st)
        PROVE  InFrame(st)'
    <2>1. st.handled \in 0..Len(sizes) /\ st.handled + 1 \in 1..(Len(sizes) + 1)
      BY <1>3, <1>8 DEF InFrame
    <2>2. StartOf(st.handled + 1)' = StartOf(st.handled + 1)
      BY <1>1, <1>4, <2>1 DEF StartOf
    <2>3. st.handled \in 0..Len(sizes')
      BY <1>3, <2>1
    <2>4. st.handled < Len(sizes) =>
            sizes'[st.handled + 1] = sizes[st.handled + 1] /\ st.handled < Len(sizes')
      BY <1>3, <2>1
    <2> QED
      BY <1>1, <1>8, <2>1, <2>2, <2>3, <2>4 DEF InFrame
  <1>9. Loose(st) => Loose(st)'
    <2>1. ASSUME NEW h \in 0..Len(sizes) PROVE h \in 0..Len(sizes')
      BY <1>3
    <2> QED
      BY <1>1, <2>1 DEF Loose
  <1> QED
    BY <1>1, <1>6, <1>7, <1>8, <1>9 DEF IInv, Reading

\* The beginning of a record arrives.
LEMMA WritePartInv ==
    ASSUME IInv, WritePart
    PROVE  IInv'
  <1>1. part' = TRUE /\ UNCHANGED <<tls, sizes, sent, st, first, waiting, instance, dropped>>
    BY DEF WritePart
  <1> QED
    BY <1>1 DEF IInv, Stream, Composed, StartOf, Reading, Flowing, InFrame, Loose, Left

\* A piece is written.
LEMMA WriteInv ==
    ASSUME IInv, NEW n \in 1..(Composed - sent), Write(n)
    PROVE  IInv'
  <1>1. /\ Stream /\ Reading(st) /\ dropped = FALSE
        /\ sent + n <= Composed /\ sent' = sent + n /\ part' = FALSE
        /\ st' = [st EXCEPT !.wire = Append(@, n)]
        /\ UNCHANGED <<tls, sizes, first, waiting, instance, dropped>>
    BY DEF IInv, Write
  <1>2. sent \in Nat /\ n \in Nat \ {0}
    BY <1>1, Starts DEF Stream
  <1>3. Stream'
    BY <1>1, <1>2 DEF Stream, Composed, StartOf
  <1>4. /\ st \in Reader /\ st.wire \in Pieces /\ Cuts(st.wire, st.pos + st.ssl, sent)
        /\ st.ok = TRUE /\ st.waits = FALSE /\ (tls = FALSE => st.ssl = 0)
    BY <1>1 DEF Reading, Flowing, Reader
  <1> DEFINE w == Append(st.wire, n)
  <1>5. w \in Pieces /\ Cuts(w, st.pos + st.ssl, sent + n)
    BY <1>2, <1>4, CutsAppend
  <1>6. st' = [st EXCEPT !.wire = w]
    BY <1>1, <1>4 DEF Reader
  <1> HIDE DEF w
  <1>7. /\ st' \in Reader /\ st'.ok = st.ok /\ st'.waits = st.waits /\ st'.ssl = st.ssl
        /\ st'.wire = w /\ st'.pos = st.pos /\ st'.handled = st.handled /\ st'.cut = st.cut
        /\ st'.state = st.state /\ st'.index = st.index /\ st'.size = st.size
    BY <1>4, <1>5, <1>6 DEF Reader
  <1>8. Flowing(st)'
    BY <1>1, <1>4, <1>5, <1>7 DEF Flowing
  <1>9. InFrame(st) => InFrame(st)'
    BY <1>1, <1>7 DEF InFrame, StartOf
  <1>10. Loose(st) => Loose(st)'
    BY <1>1, <1>7 DEF Loose
  <1> QED
    BY <1>1, <1>3, <1>8, <1>9, <1>10 DEF IInv, Reading

\* The reader is reset, between two messages or within one.
LEMMA FreeFailsInv ==
    ASSUME IInv, FreeFails
    PROVE  IInv'
  <1> DEFINE cut == st.pos # StartOf(st.handled + 1)
  <1>1. /\ Stream /\ Reading(st) /\ dropped = FALSE /\ instance' = FALSE
        /\ st' = [st EXCEPT !.state = "HEADER", !.index = 0, !.size = 0, !.cut = cut]
        /\ UNCHANGED <<tls, sizes, sent, part, first, waiting, dropped>>
    BY DEF IInv, FreeFails
  <1>2. 0 \in 0..MaxDataSize /\ 0 < HeaderSize /\ cut \in BOOLEAN
    BY MsgReadAssumption
  <1>3. /\ st \in Reader /\ Flowing(st) /\ st.handled \in 0..Len(sizes) /\ st.pos \in Nat
    BY <1>1 DEF Reading, Flowing, InFrame, Loose, Reader
  <1>4. cut = FALSE => st.pos = StartOf(st.handled + 1)
    OBVIOUS
  <1> HIDE DEF cut
  <1>5. /\ st' \in Reader /\ st'.ok = st.ok /\ st'.waits = st.waits /\ st'.ssl = st.ssl
        /\ st'.wire = st.wire /\ st'.pos = st.pos /\ st'.handled = st.handled
        /\ st'.state = "HEADER" /\ st'.index = 0 /\ st'.cut = cut
    BY <1>1, <1>2, <1>3 DEF Reader
  <1>6. Flowing(st)'
    BY <1>1, <1>3, <1>5 DEF Flowing
  <1>7. CASE cut = TRUE
    <2>1. Loose(st)'
      BY <1>1, <1>2, <1>3, <1>5, <1>7 DEF Loose
    <2>2. Stream'
      BY <1>1 DEF Stream, Composed, StartOf
    <2> QED
      BY <1>1, <1>6, <2>1, <2>2 DEF IInv, Reading
  <1>8. CASE cut = FALSE
    <2>1. st'.pos = StartOf(st'.handled + 1) + st'.index
      BY <1>3, <1>4, <1>5, <1>8
    <2>2. InFrame(st)'
      BY <1>1, <1>2, <1>3, <1>5, <1>8, <2>1 DEF InFrame, StartOf
    <2>3. Stream'
      BY <1>1 DEF Stream, Composed, StartOf
    <2> QED
      BY <1>1, <1>6, <2>2, <2>3 DEF IInv, Reading
  <1> QED
    BY <1>2, <1>7, <1>8

\* Another client is authenticated.
LEMMA ReconnectInv ==
    ASSUME IInv, Reconnect
    PROVE  IInv'
  <1>1. /\ waiting' = FALSE /\ dropped' = FALSE /\ sizes' = <<>> /\ sent' = 0 /\ part' = FALSE
        /\ st' = Fresh /\ first' = TRUE /\ instance' = TRUE /\ tls' = tls /\ tls \in BOOLEAN
    BY DEF IInv, Stream, Reconnect
  <1>2. (sizes = <<>> /\ sent = 0 /\ tls \in BOOLEAN => Stream /\ Reading(Fresh))'
    BY FreshReads, PTL
  <1>3. Stream' /\ Reading(st)'
    BY <1>1, <1>2
  <1> QED
    BY <1>1, <1>3 DEF IInv

\* Every step keeps the invariant.
LEMMA NextInv ==
    ASSUME IInv, [Next]_vars
    PROVE  IInv'
  <1>1. CASE Serve
    BY <1>1, ReadInv DEF Serve, IInv
  <1>2. CASE RecvReturns
    BY <1>2, ReadInv DEF RecvReturns, IInv
  <1>3. CASE RecvTimesOut
    BY <1>3, TimeoutInv
  <1>4. ASSUME NEW size \in Sizes, Compose(size) PROVE IInv'
    BY <1>4, ComposeInv
  <1>5. CASE WritePart
    BY <1>5, WritePartInv
  <1>6. ASSUME NEW n \in 1..(Composed - sent), Write(n) PROVE IInv'
    BY <1>6, WriteInv
  <1>7. CASE FreeFails
    BY <1>7, FreeFailsInv
  <1>8. CASE Reconnect
    BY <1>8, ReconnectInv
  <1>9. CASE UNCHANGED vars
    BY <1>9 DEF vars, IInv, Stream, Composed, StartOf, Reading, Flowing, InFrame, Loose, Left
  <1> QED
    BY <1>1, <1>2, <1>3, <1>4, <1>5, <1>6, <1>7, <1>8, <1>9 DEF Next

\* The reader, the socket and the stream agree, whatever the client writes and
\* however it cuts it into pieces.
THEOREM Invariance == Spec => []IInv
  <1>1. Init => IInv
    BY InitInv
  <1>2. IInv /\ [Next]_vars => IInv'
    BY NextInv
  <1> QED
    BY <1>1, <1>2, PTL DEF Spec

-----------------------------------------------------------------------------
(* The properties. *)

\* The ranges of the reader's fields (msg_state.in_msg): while a header or data
\* is read no index reaches the end of what it indexes.
THEOREM TypeCorrect == Spec => []TypeOK
  <1>1. IInv => TypeOK
    <2> SUFFICES ASSUME IInv PROVE TypeOK
      OBVIOUS
    <2>1. waiting \in BOOLEAN /\ dropped \in BOOLEAN
      BY DEF IInv
    <2>2. Left(st)
      BY DEF IInv, Reading, Left, Flowing, InFrame, Loose
    <2>3. /\ st.state \in {"INITIAL", "HEADER", "BUFFER"} /\ st.index \in Nat
          /\ st.size \in 0..MaxDataSize
      BY <2>2 DEF Left, Reader
    <2>4. st.index < st.size => st.index < MaxDataSize
      BY <2>3, MsgReadAssumption
    <2> QED
      BY <2>1, <2>2, <2>3, <2>4 DEF TypeOK, Left
  <1> QED
    BY <1>1, Invariance, PTL

\* The reader of asd_msg_read never loses the frame, unless a failing
\* asd_msg_free resets it in the middle of a message.
THEOREM FrameIsKept == Spec => []Framed
  <1>1. IInv => Framed
    <2> SUFFICES ASSUME IInv, ~dropped, ~st.cut PROVE Framed
      BY DEF Framed
    <2>1. Flowing(st) /\ InFrame(st)
      BY DEF IInv, Reading, Loose
    <2>2. st.state \in {"INITIAL", "HEADER", "BUFFER"}
      BY <2>1 DEF Flowing, Reader
    <2> QED
      BY <2>1, <2>2 DEF Framed, InFrame
  <1> QED
    BY <1>1, Invariance, PTL

\* asd_msg_read waits in its first recv() only, and that one only right after
\* the handshake, or for the rest of a TLS record.
THEOREM WaitsOnlyAtStart == Spec => WaitsAtStart
  <1>1. IInv /\ [Next]_vars =>
          [waiting' => /\ st'.pos = st.pos
                       /\ waiting \/ (st.wire = <<>> /\ (first \/ part))]_vars
    <2> SUFFICES ASSUME IInv, Next, waiting'
                 PROVE  /\ st'.pos = st.pos
                        /\ waiting \/ (st.wire = <<>> /\ (first \/ part))
      OBVIOUS
    <2>1. waiting' = TRUE
      BY NextInv DEF IInv
    <2>2. CASE Serve
      <3>1. dropped = FALSE
        BY <2>2 DEF Serve, IInv
      <3>2. st.wire = <<>> /\ st'.pos = st.pos
        BY <2>1, <2>2, <3>1, ReadInv DEF Serve
      <3> QED
        BY <2>2, <3>2 DEF Serve
    <2>3. CASE RecvReturns
      <3>1. dropped = FALSE /\ st.wire # <<>>
        BY <2>3 DEF RecvReturns, IInv
      <3> QED
        BY <2>1, <2>3, <3>1, ReadInv DEF RecvReturns
    <2>4. CASE RecvTimesOut \/ Reconnect
      BY <2>1, <2>4 DEF RecvTimesOut, Reconnect
    <2>5. ASSUME NEW size \in Sizes, Compose(size)
          PROVE  waiting /\ st'.pos = st.pos
      BY <2>1, <2>5 DEF Compose
    <2>6. CASE WritePart \/ FreeFails
      BY <2>1, <2>6 DEF WritePart, FreeFails
    <2>7. ASSUME NEW n \in 1..(Composed - sent), Write(n)
          PROVE  waiting /\ st'.pos = st.pos
      <3>1. st \in Reader
        BY <2>7 DEF Write, IInv, Reading, Flowing
      <3> QED
        BY <2>1, <2>7, <3>1 DEF Write, Reader
    <2> QED
      BY <2>2, <2>3, <2>4, <2>5, <2>6, <2>7 DEF Next
  <1> QED
    BY <1>1, Invariance, PTL DEF Spec, WaitsAtStart

\* When poll() falls silent a message that was written completely was handled,
\* or is decrypted in the TLS layer.
THEOREM NoneLeftBehind == Spec => []HandledOrBuffered
  <1>1. IInv => HandledOrBuffered
    <2>1. SUFFICES ASSUME IInv, PollSilent, ~st.cut, NEW m \in 1..Len(sizes), Written(m), ~(st.handled >= m)
                   PROVE  tls /\ st.ssl > 0
      BY DEF HandledOrBuffered
    <2> DEFINE h == st.handled
               p == st.pos
               start == StartOf(h + 1)
               next == StartOf(h + 2)
    <2>2. Stream /\ Flowing(st) /\ InFrame(st)
      BY <2>1 DEF IInv, Reading, Loose, PollSilent
    <2>3. /\ h \in 0..Len(sizes) /\ Len(sizes) \in Nat /\ p \in Nat /\ st.ssl \in Nat
          /\ sent \in Nat /\ st.state \in {"INITIAL", "HEADER", "BUFFER"} /\ st.index \in Nat
          /\ HeaderSize \in Nat \ {0}
      BY <2>2, Starts, MsgReadAssumption DEF InFrame, Flowing, Reader, Stream
    <2>4. h + 1 \in 1..Len(sizes) /\ h + 2 = h + 1 + 1
      BY <2>1, <2>3
    <2>5. start \in Nat /\ sizes[h + 1] \in Nat /\ next = start + HeaderSize + sizes[h + 1]
      <3> DEFINE k == h + 1
      <3>1. k \in 1..Len(sizes) /\ k \in 1..(Len(sizes) + 1) /\ h + 2 = k + 1
        BY <2>3, <2>4
      <3> HIDE DEF k, h
      <3>2. StartOf(k) \in Nat /\ sizes[k] \in Nat /\ StartOf(k + 1) = StartOf(k) + HeaderSize + sizes[k]
        BY <2>2, <3>1, Starts
      <3> QED
        BY <3>1, <3>2 DEF k
    <2>6. p < next
      <3> HIDE DEF start, next, h, p
      <3>1. CASE st.state = "INITIAL"
        <4>1. p = start
          BY <2>2, <3>1 DEF InFrame, start, h, p
        <4> QED
          BY <2>3, <2>5, <4>1
      <3>2. CASE st.state = "HEADER"
        <4>1. p = start + st.index /\ st.index < HeaderSize
          BY <2>2, <3>2 DEF InFrame, start, h, p
        <4> QED
          BY <2>3, <2>5, <4>1
      <3>3. CASE st.state = "BUFFER"
        <4>1. p = start + HeaderSize + st.index /\ st.index < sizes[h + 1]
          BY <2>2, <3>3 DEF InFrame, start, h, p
        <4> QED
          BY <2>3, <2>5, <4>1
      <3> QED
        BY <2>3, <3>1, <3>2, <3>3
    <2>7. next <= sent
      <3>1. /\ m + 1 \in 1..(Len(sizes) + 1) /\ h + 2 \in 1..(Len(sizes) + 1)
            /\ h + 2 = m + 1 \/ h + 2 < m + 1
        BY <2>1, <2>3, <2>4
      <3>2. next \in Nat /\ StartOf(m + 1) \in Nat /\ (next = StartOf(m + 1) \/ next < StartOf(m + 1))
        BY <2>2, <3>1, Starts
      <3>3. sent >= StartOf(m + 1)
        BY <2>1 DEF Written
      <3> HIDE DEF next
      <3> QED
        BY <2>3, <3>2, <3>3
    <2>8. p + st.ssl = sent
      <3>1. st.wire = <<>> /\ st.wire \in Pieces /\ Cuts(st.wire, p + st.ssl, sent)
        BY <2>1, <2>2 DEF PollSilent, Flowing, Reader
      <3>2. p + st.ssl \in Nat
        BY <2>3
      <3> HIDE DEF p
      <3> QED
        BY <2>3, <3>1, <3>2, CutsForward
    <2>9. st.ssl > 0
      <3>1. next \in Nat
        BY <2>3, <2>5
      <3> HIDE DEF next, p
      <3> QED
        BY <2>3, <2>6, <2>7, <2>8, <3>1
    <2>10. tls
      BY <2>2, <2>9 DEF Flowing, Stream
    <2> QED
      BY <2>9, <2>10
  <1> QED
    BY <1>1, Invariance, PTL
=============================================================================

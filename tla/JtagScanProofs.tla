--------------------------- MODULE JtagScanProofs ---------------------------
(***************************************************************************)
(* Proofs about JtagScan, for every set of packets of bytes, every number  *)
(* of scan chains and every size of the response.                          *)
(*                                                                         *)
(* The look-ahead, the skipped waits and the boundaries of commands are    *)
(* recursive functions over a packet; they are shown to exist, and what    *)
(* they find is stated by Determined, Skipped and StartsRecursion.  The    *)
(* invariant adds to types what a scan in progress implies for the TAP,    *)
(* the wire and the rest of the packet (ScanInv), and that the commands    *)
(* executed so far are those that start before the next one, unless that   *)
(* one is cut short and the message will be refused (Accounted).           *)
(***************************************************************************)
EXTENDS JtagScan, FiniteRecursion

-----------------------------------------------------------------------------
(* Commands and packets. *)

Byte == 0..255

\* A command has a number of operands, and is answered with a number of bytes.
LEMMA CommandSizes ==
    ASSUME NEW cmd \in Byte
    PROVE  /\ Operands(cmd) \in Nat
           /\ ResponseSize(cmd) \in Nat
           /\ LookOperands(cmd) \in Nat
           /\ LookOperands(cmd) # 0 => Operands(cmd) = LookOperands(cmd)
  <1>1. num_of_bits(cmd) \in Nat
    BY DEF Byte, num_of_bits
  <1>2. num_of_bytes(cmd) \in Nat
    BY <1>1 DEF num_of_bytes
  <1>3. Operands(cmd) \in Nat
    BY <1>2 DEF Operands
  <1>4. ResponseSize(cmd) \in Nat
    BY <1>2 DEF ResponseSize
  <1>5. LookOperands(cmd) \in Nat
    BY DEF LookOperands
  <1>6. LookOperands(cmd) # 0 => Operands(cmd) = LookOperands(cmd)
    <2>1. CASE cmd \in {4, 5}
      <3>1. /\ cmd \in {4, 5} /\ cmd # 25 /\ cmd \notin 0..17 \ {4, 5}
            /\ cmd \notin WRITE_SCAN \cup READ_WRITE_SCAN
            /\ cmd \notin {0, 1, 2, 3} \cup WAIT_CYCLES
        BY <2>1 DEF WRITE_SCAN, READ_WRITE_SCAN, WAIT_CYCLES
      <3>2. Operands(cmd) = 2
        BY <3>1 DEF Operands
      <3>3. LookOperands(cmd) = 2
        BY <3>1 DEF LookOperands
      <3> QED
        BY <3>2, <3>3
    <2>2. CASE cmd \in {0, 1, 2, 3, 16, 17}
      <3>1. /\ cmd \notin {4, 5} /\ cmd # 25 /\ cmd \in 0..17 \ {4, 5}
            /\ cmd \notin WRITE_SCAN \cup READ_WRITE_SCAN
            /\ cmd \in {0, 1, 2, 3} \cup WAIT_CYCLES
        BY <2>2 DEF WRITE_SCAN, READ_WRITE_SCAN, WAIT_CYCLES
      <3>2. Operands(cmd) = 1
        BY <3>1 DEF Operands
      <3>3. LookOperands(cmd) = 1
        BY <3>1 DEF LookOperands
      <3> QED
        BY <3>2, <3>3
    <2>3. CASE cmd \notin {4, 5} /\ cmd \notin {0, 1, 2, 3, 16, 17}
      BY <2>3 DEF LookOperands, WAIT_CYCLES
    <2> QED
      BY <2>1, <2>2, <2>3
  <1> QED
    BY <1>3, <1>4, <1>5, <1>6

\* The command that starts after u bytes of p ends after so many.
EndOf(p, u) == u + 1 + Operands(p[u + 1])

\* The bytes of a packet are commands or operands of known sizes.
LEMMA PacketBytes ==
    ASSUME NEW p \in Seq(Byte), NEW u \in 0..(Len(p) - 1)
    PROVE  /\ Len(p) \in Nat
           /\ u + 1 \in 1..Len(p)
           /\ p[u + 1] \in Byte
           /\ Operands(p[u + 1]) \in Nat
           /\ EndOf(p, u) \in Nat /\ u < EndOf(p, u)
  <1>1. Len(p) \in Nat /\ u + 1 \in 1..Len(p)
    OBVIOUS
  <1>2. p[u + 1] \in Byte
    BY <1>1
  <1>3. Operands(p[u + 1]) \in Nat
    BY <1>2, CommandSizes
  <1> QED
    BY <1>1, <1>2, <1>3 DEF EndOf

\* The recursive function in StartsFrom exists, so it is what its equation
\* says.
LEMMA StartsRecursion ==
    ASSUME NEW p \in Seq(Byte)
    PROVE  /\ StartsFrom(p, Len(p)) = {}
           /\ \A u \in 0..(Len(p) - 1) :
                /\ EndOf(p, u) <= Len(p) => StartsFrom(p, u) = {u} \cup StartsFrom(p, EndOf(p, u))
                /\ EndOf(p, u) > Len(p) => StartsFrom(p, u) = {u}
  <1> DEFINE Def(g) == [v \in 0..Len(p) |->
                          IF v = Len(p) THEN {}
                          ELSE {v} \cup (IF v + 1 + Operands(p[v + 1]) > Len(p) THEN {}
                                         ELSE g[v + 1 + Operands(p[v + 1])])]
             start == CHOOSE g : g = Def(g)
             n == Len(p)
             D == {v \in 0..(n - 1) : EndOf(p, v) <= n}
             V == SUBSET (0..(n - 1))
             final == [v \in 0..n |-> IF v = n THEN {} ELSE {v}]
             j == [v \in D |-> EndOf(p, v)]
             h == [v \in 0..n |-> [s \in V |-> IF v = n THEN {} ELSE {v} \cup s]]
  <1>1. \A u : StartsFrom(p, u) = start[u]
    BY DEF StartsFrom
  <1>2. n \in Nat /\ \A u \in 0..(n - 1) : EndOf(p, u) \in Nat /\ u < EndOf(p, u)
    BY PacketBytes
  <1>3. \E g : g = Def(g)
    <2>1. D \in SUBSET (0..n) /\ \A x \in D : j[x] \in 0..n /\ x < j[x]
      BY <1>2
    <2>2. final \in [0..n -> V]
      <3>1. \A v \in 0..n : v # n => v \in 0..(n - 1)
        BY <1>2
      <3> QED
        BY <3>1
    <2>3. h \in [0..n -> [V -> V]]
      <3>1. \A v \in 0..n : v # n => v \in 0..(n - 1)
        BY <1>2
      <3> QED
        BY <3>1
    <2>4. Jumps(0..n, V, D, final, j, h)
      <3> HIDE DEF D, V, final, j, h, n
      <3> QED
        BY <1>2, <2>1, <2>2, <2>3, JumpRecursion
    <2>5. PICK g \in [0..n -> V] :
            \A v \in 0..n : g[v] = IF v \in D THEN h[v][g[j[v]]] ELSE final[v]
      <3> HIDE DEF D, V, final, j, h, n
      <3> QED
        BY <2>4 DEF Jumps
    <2>6. ASSUME NEW v \in 0..n
          PROVE  g[v] = Def(g)[v]
      <3>1. CASE v \in D
        <4>1. v # n /\ j[v] = EndOf(p, v) /\ ~(EndOf(p, v) > n) /\ j[v] \in 0..n
          BY <1>2, <2>1, <3>1
        <4>2. h[v][g[j[v]]] = {v} \cup g[EndOf(p, v)]
          <5> HIDE DEF j, V
          <5> QED
            BY <4>1
        <4>3. g[v] = {v} \cup g[EndOf(p, v)]
          BY <2>5, <3>1, <4>2
        <4> QED
          BY <4>1, <4>3 DEF EndOf
      <3>2. CASE v \notin D /\ v # n
        <4>1. EndOf(p, v) > n
          BY <1>2, <3>2
        <4>2. g[v] = {v}
          BY <2>5, <3>2
        <4> QED
          BY <3>2, <4>1, <4>2 DEF EndOf
      <3>3. CASE v = n
        <4>1. v \notin D
          BY <1>2, <3>3
        <4>2. g[v] = {}
          BY <2>5, <3>3, <4>1
        <4> QED
          BY <3>3, <4>2
      <3> QED
        BY <3>1, <3>2, <3>3
    <2>7. g = Def(g)
      <3>1. g = [v \in 0..n |-> g[v]] /\ Def(g) = [v \in 0..n |-> Def(g)[v]]
        OBVIOUS
      <3> HIDE DEF Def
      <3> QED
        BY <2>6, <3>1
    <2> QED
      BY <2>7
  <1>4. start = Def(start)
    <2> HIDE DEF Def
    <2> QED
      BY <1>3
  <1> HIDE DEF start
  <1>5. \A v \in 0..n : Def(start)[v] =
                          IF v = n THEN {}
                          ELSE {v} \cup (IF EndOf(p, v) > n THEN {} ELSE start[EndOf(p, v)])
    BY DEF EndOf
  <1> HIDE DEF Def
  <1>6. \A v \in 0..n : start[v] =
                          IF v = n THEN {}
                          ELSE {v} \cup (IF EndOf(p, v) > n THEN {} ELSE start[EndOf(p, v)])
    BY <1>4, <1>5
  <1>7. n \in 0..n /\ \A u \in 0..(n - 1) : u \in 0..n /\ u # n
    BY <1>2
  <1>8. start[n] = {}
    BY <1>6, <1>7
  <1>9. ASSUME NEW u \in 0..(n - 1)
        PROVE  /\ EndOf(p, u) <= n => start[u] = {u} \cup start[EndOf(p, u)]
               /\ EndOf(p, u) > n => start[u] = {u}
    <2>1. u \in 0..n /\ u # n /\ EndOf(p, u) \in Nat
      BY <1>2, <1>7
    <2>2. start[u] = {u} \cup (IF EndOf(p, u) > n THEN {} ELSE start[EndOf(p, u)])
      BY <1>6, <2>1
    <2>3. EndOf(p, u) > n <=> ~(EndOf(p, u) <= n)
      BY <1>2, <2>1
    <2> HIDE DEF n
    <2>4. CASE EndOf(p, u) > n
      BY <2>2, <2>3, <2>4
    <2>5. CASE ~(EndOf(p, u) > n)
      BY <2>2, <2>3, <2>5
    <2> QED
      BY <2>4, <2>5
  <1> QED
    BY <1>1, <1>8, <1>9

\* The command that starts after u bytes of p is cut short by its end.
CutShort(p, u) == u \in 0..(Len(p) - 1) /\ EndOf(p, u) > Len(p)

-----------------------------------------------------------------------------
(* The look-ahead of determine_shift_end_state. *)

\* What the loop of hardware mode finds, begun after start bytes: if it has no
\* second command, there is no byte left or it stopped in one that is cut short.
Peeked(p, start, look) ==
    /\ look.at \in 0..Len(p)
    /\ look.ptr \in 0..Len(p)
    /\ start <= look.at
    /\ start = Len(p) => look.at = Len(p)
    /\ look.ptr = 0 /\ start # Len(p) => CutShort(p, look.at - 1)

\* The recursive function in PeekSecond exists and finds that.
LEMMA PeekFinds ==
    ASSUME packet \in Seq(Byte), NEW u \in 0..Len(packet)
    PROVE  Peeked(packet, u, PeekSecond(u))
  <1> DEFINE L == Len(packet)
             o(v) == LookOperands(packet[v + 1])
             Def(g) == [v \in 0..L |->
                          IF v = L THEN [at |-> v, ptr |-> 0]
                          ELSE IF o(v) = 0 THEN [at |-> v + 1, ptr |-> v + 1]
                          ELSE IF v + 1 + o(v) > L THEN [at |-> v + 1, ptr |-> 0]
                          ELSE IF v + 1 + o(v) = L THEN [at |-> L, ptr |-> v + 2]
                          ELSE g[v + 1 + o(v)]]
             peek == CHOOSE g : g = Def(g)
             D == {v \in 0..(L - 1) : o(v) # 0 /\ v + 1 + o(v) < L}
             V == [at : 0..L, ptr : 0..L]
             final == [v \in 0..L |->
                          IF v = L THEN [at |-> v, ptr |-> 0]
                          ELSE IF o(v) = 0 THEN [at |-> v + 1, ptr |-> v + 1]
                          ELSE IF v + 1 + o(v) > L THEN [at |-> v + 1, ptr |-> 0]
                          ELSE IF v + 1 + o(v) = L THEN [at |-> L, ptr |-> v + 2]
                          ELSE [at |-> 0, ptr |-> 0]]
             j == [v \in D |-> v + 1 + o(v)]
             h == [v \in 0..L |-> [w \in V |-> w]]
  <1>1. PeekSecond(u) = peek[u]
    BY DEF PeekSecond
  <1>2. L \in Nat
    OBVIOUS
  <1>3. ASSUME NEW v \in 0..(L - 1)
        PROVE  /\ packet[v + 1] \in Byte /\ o(v) \in Nat
               /\ o(v) # 0 => EndOf(packet, v) = v + 1 + o(v)
    <2>1. packet[v + 1] \in Byte
      BY <1>2, PacketBytes
    <2> QED
      BY <2>1, CommandSizes DEF EndOf
  <1> HIDE DEF o
  <1>4. \E g : g = Def(g)
    <2>1. D \in SUBSET (0..L) /\ \A x \in D : j[x] \in 0..L /\ x < j[x]
      BY <1>2, <1>3
    <2>2. final \in [0..L -> V]
      <3>1. ASSUME NEW v \in 0..L
            PROVE  final[v] \in V
        <4>1. CASE v = L
          BY <1>2, <4>1
        <4>2. CASE v # L
          <5>1. v \in 0..(L - 1) /\ o(v) \in Nat
            BY <1>2, <1>3, <4>2
          <5>2. v + 1 \in 0..L /\ (o(v) # 0 /\ v + 1 + o(v) = L => v + 2 \in 0..L)
            BY <1>2, <5>1
          <5> QED
            BY <1>2, <4>2, <5>1, <5>2
        <4> QED
          BY <4>1, <4>2
      <3> QED
        BY <3>1
    <2>3. h \in [0..L -> [V -> V]]
      OBVIOUS
    <2>4. Jumps(0..L, V, D, final, j, h)
      <3> HIDE DEF D, V, final, j, h, L
      <3> QED
        BY <1>2, <2>1, <2>2, <2>3, JumpRecursion
    <2>5. PICK g \in [0..L -> V] :
            \A v \in 0..L : g[v] = IF v \in D THEN h[v][g[j[v]]] ELSE final[v]
      <3> HIDE DEF D, V, final, j, h, L
      <3> QED
        BY <2>4 DEF Jumps
    <2>6. ASSUME NEW v \in 0..L
          PROVE  g[v] = Def(g)[v]
      <3>1. CASE v \in D
        <4>1. v # L /\ o(v) # 0 /\ ~(v + 1 + o(v) > L) /\ v + 1 + o(v) # L
          BY <1>2, <1>3, <3>1
        <4>2. j[v] = v + 1 + o(v) /\ j[v] \in 0..L
          BY <2>1, <3>1
        <4>3. h[v][g[j[v]]] = g[j[v]]
          <5> HIDE DEF j, V
          <5> QED
            BY <4>2
        <4>4. g[v] = g[v + 1 + o(v)]
          BY <2>5, <3>1, <4>2, <4>3
        <4> QED
          BY <4>1, <4>4
      <3>2. CASE v \notin D
        <4>1. g[v] = final[v]
          BY <2>5, <3>2
        <4>2. v = L \/ o(v) = 0 \/ v + 1 + o(v) > L \/ v + 1 + o(v) = L
          BY <1>2, <1>3, <3>2
        <4>3. Def(g)[v] = final[v]
          <5> HIDE DEF D
          <5> QED
            BY <4>2
        <4> QED
          BY <4>1, <4>3
      <3> QED
        BY <3>1, <3>2
    <2>7. g = Def(g)
      <3>1. g = [v \in 0..L |-> g[v]] /\ Def(g) = [v \in 0..L |-> Def(g)[v]]
        OBVIOUS
      <3> HIDE DEF Def
      <3> QED
        BY <2>6, <3>1
    <2> QED
      BY <2>7
  <1>5. peek = Def(peek)
    <2> HIDE DEF Def
    <2> QED
      BY <1>4
  <1> HIDE DEF peek
  <1> DEFINE T == {v \in 0..L : Peeked(packet, v, peek[v])}
  <1>6. ASSUME NEW v \in 0..L, \A y \in 0..L : y > v => y \in T
        PROVE  v \in T
    <2>1. CASE v = L
      <3>1. Def(peek)[v] = [at |-> v, ptr |-> 0]
        BY <2>1
      <3> HIDE DEF Def
      <3>2. peek[v] = [at |-> v, ptr |-> 0]
        BY <1>5, <3>1
      <3> QED
        BY <1>2, <2>1, <3>2 DEF Peeked
    <2>2. CASE v # L /\ o(v) = 0
      <3>1. Def(peek)[v] = [at |-> v + 1, ptr |-> v + 1]
        BY <2>2
      <3> HIDE DEF Def
      <3>2. peek[v] = [at |-> v + 1, ptr |-> v + 1]
        BY <1>5, <3>1
      <3> QED
        BY <1>2, <2>2, <3>2 DEF Peeked
    <2>3. CASE v # L /\ o(v) # 0 /\ v + 1 + o(v) > L
      <3>1. Def(peek)[v] = [at |-> v + 1, ptr |-> 0]
        BY <2>3
      <3> HIDE DEF Def
      <3>2. peek[v] = [at |-> v + 1, ptr |-> 0]
        BY <1>5, <3>1
      <3>3. v \in 0..(L - 1) /\ v + 1 - 1 = v
        BY <1>2, <2>3
      <3>4. CutShort(packet, v)
        BY <1>3, <2>3, <3>3 DEF CutShort
      <3> QED
        BY <1>2, <2>3, <3>2, <3>3, <3>4 DEF Peeked
    <2>4. CASE v # L /\ o(v) # 0 /\ ~(v + 1 + o(v) > L) /\ v + 1 + o(v) = L
      <3>1. Def(peek)[v] = [at |-> L, ptr |-> v + 2]
        BY <2>4
      <3> HIDE DEF Def
      <3>2. peek[v] = [at |-> L, ptr |-> v + 2]
        BY <1>5, <3>1
      <3>3. v \in 0..(L - 1) /\ o(v) \in Nat
        BY <1>2, <1>3, <2>4
      <3> QED
        BY <1>2, <2>4, <3>2, <3>3 DEF Peeked
    <2>5. CASE v # L /\ o(v) # 0 /\ ~(v + 1 + o(v) > L) /\ v + 1 + o(v) # L
      <3> DEFINE y == v + 1 + o(v)
      <3>1. Def(peek)[v] = peek[y]
        BY <2>5
      <3> HIDE DEF Def
      <3>2. peek[v] = peek[y]
        BY <1>5, <3>1
      <3>3. v \in 0..(L - 1) /\ o(v) \in Nat
        BY <1>2, <1>3, <2>5
      <3>4. y \in 0..L /\ y > v /\ y # L
        BY <1>2, <2>5, <3>3
      <3> HIDE DEF y
      <3>5. Peeked(packet, y, peek[v])
        BY <1>6, <3>2, <3>4
      <3> QED
        BY <1>2, <2>5, <3>4, <3>5 DEF Peeked
    <2> QED
      BY <2>1, <2>2, <2>3, <2>4, <2>5
  <1> HIDE DEF T
  <1>7. 0..L \subseteq T
    <2> HIDE DEF L
    <2> QED
      BY <1>2, <1>6, DownwardInduction
  <1> QED
    BY <1>1, <1>7 DEF T

\* What determine_shift_end_state finds for a scan whose operands end at u, if
\* it finds no error.  The bytes peeked are given back, or the next command is
\* cut short.  A scan that does not end goes on with a scan, with a command that
\* asks for the state the TAP is in, or in the next message.
Determined(u, look) ==
    /\ look.end \in TapState
    /\ look.used \in 0..Len(packet)
    /\ look.used = u \/ CutShort(packet, look.used)
    /\ look.end = Tap /\ Tap \in Shift /\ look.used < Len(packet) =>
         CutShort(packet, look.used) \/ packet[look.used + 1] \in SCAN \cup {32 + Tap}

\* The low bits of a TAP_STATE command are the state.
LEMMA TapNumbers ==
    ASSUME NEW cmd \in TAP_STATE
    PROVE  cmd % 16 \in TapState /\ cmd = 32 + (cmd % 16)
  <1>1. cmd \in Int /\ 32 <= cmd /\ cmd <= 47
    BY DEF TAP_STATE
  <1>2. cmd % 16 = cmd - 32
    BY <1>1
  <1> QED
    BY <1>1, <1>2 DEF TapState

\* It finds that.
LEMMA DetermineFinds ==
    ASSUME packet \in Seq(Byte), hardware_mode \in BOOLEAN, Tap \in TapState,
           NEW scans \in SUBSET SCAN, NEW u \in 0..Len(packet),
           determine_shift_end_state(scans, u).ok
    PROVE  Determined(u, determine_shift_end_state(scans, u))
  <1> DEFINE next == packet[u + 1]
             look == PeekSecond(u + 1)
             d == determine_shift_end_state(scans, u)
  <1>1. Len(packet) \in Nat
    OBVIOUS
  <1>2. CASE u = Len(packet)
    <2>1. d = [ok |-> TRUE, end |-> Tap, used |-> u]
      BY <1>1, <1>2 DEF determine_shift_end_state
    <2> HIDE DEF d
    <2>2. Determined(u, d)
      BY <1>1, <1>2, <2>1 DEF Determined
    <2> QED
      BY <2>2 DEF d
  <1>3. CASE u < Len(packet) /\ next \in TAP_STATE
    <2> DEFINE second == packet[look.ptr]
               end == IF hardware_mode /\ look.ptr # 0 /\ second \in TAP_STATE
                      THEN TwoTapStates(next % 16, second % 16) ELSE next % 16
               given == IF hardware_mode /\ look.ptr = 0 THEN look.at - 1 ELSE u
    <2>1. d = [ok |-> TRUE, end |-> end, used |-> given]
      BY <1>1, <1>3 DEF determine_shift_end_state
    <2>2. u \in 0..(Len(packet) - 1) /\ u + 1 \in 0..Len(packet)
      BY <1>1, <1>3
    <2>3. Peeked(packet, u + 1, look)
      BY <2>2, PeekFinds
    <2>4. next % 16 \in TapState /\ next = 32 + (next % 16)
      <3> HIDE DEF next
      <3> QED
        BY <1>3, TapNumbers
    <2>5. end \in TapState /\ (end \in Shift => end = next % 16)
      <3>1. CASE hardware_mode /\ look.ptr # 0 /\ second \in TAP_STATE
        <4>1. second % 16 \in TapState
          <5> HIDE DEF second
          <5> QED
            BY <3>1, TapNumbers
        <4>2. end = TwoTapStates(next % 16, second % 16)
          BY <3>1
        <4> HIDE DEF end, next, look, second
        <4> QED
          BY <2>4, <4>1, <4>2 DEF TwoTapStates, Stable, Shift, rti, pau_dr, pau_ir, shf_dr,
             shf_ir, TapState
      <3>2. CASE ~(hardware_mode /\ look.ptr # 0 /\ second \in TAP_STATE)
        BY <2>4, <3>2
      <3> QED
        BY <3>1, <3>2
    <2>6. given \in 0..Len(packet) /\ (given = u \/ CutShort(packet, given))
      <3>1. CASE hardware_mode /\ look.ptr = 0
        <4>1. given = look.at - 1
          BY <3>1
        <4> HIDE DEF given, look
        <4> QED
          BY <1>1, <2>2, <2>3, <3>1, <4>1 DEF Peeked
      <3>2. CASE ~(hardware_mode /\ look.ptr = 0)
        BY <3>2
      <3> QED
        BY <3>1, <3>2
    <2> HIDE DEF d, end, given
    <2>7. d.end = end /\ d.used = given
      BY <2>1
    <2>8. ASSUME end = Tap, Tap \in Shift, given = u
          PROVE  packet[given + 1] = 32 + Tap
      BY <2>4, <2>5, <2>8
    <2>9. Determined(u, d)
      BY <2>5, <2>6, <2>7, <2>8 DEF Determined
    <2> QED
      BY <2>9 DEF d
  <1>4. CASE u # Len(packet) /\ ~(u < Len(packet) /\ next \in TAP_STATE)
    <2> DEFINE good == next \in scans
    <2>0. good \in BOOLEAN
      OBVIOUS
    <2>1. d = [ok |-> good, end |-> Tap, used |-> u]
      BY <1>4 DEF determine_shift_end_state
    <2> HIDE DEF good, d
    <2>2. good
      <3>1. d.ok = good
        BY <2>1
      <3> QED
        BY <3>1 DEF d
    <2>3. next \in SCAN
      BY <2>2 DEF good
    <2>4. Determined(u, d)
      BY <1>1, <2>1, <2>3 DEF Determined
    <2> QED
      BY <2>4 DEF d
  <1> QED
    BY <1>2, <1>3, <1>4

-----------------------------------------------------------------------------
(* The waits that are skipped after a reset. *)

\* Every second byte from a up to b.
Seconds(a, b) == {q \in a..(b - 1) : (q - a) % 2 = 0}

\* The first of them, and the others.
LEMMA SecondsStep ==
    ASSUME NEW a \in Nat, NEW b \in Nat, a + 2 <= b
    PROVE  Seconds(a, b) = {a} \cup Seconds(a + 2, b)
  <1>1. ASSUME NEW q \in Seconds(a, b), q # a
        PROVE  q \in Seconds(a + 2, b)
    <2>1. q - a \in Nat /\ (q - a) % 2 = 0 /\ q - a # 0
      BY <1>1 DEF Seconds
    <2>2. q - a >= 2 /\ (q - a - 2) % 2 = 0
      BY <2>1
    <2>3. q \in (a + 2)..(b - 1) /\ q - (a + 2) = q - a - 2
      BY <1>1, <2>2 DEF Seconds
    <2> QED
      BY <2>2, <2>3 DEF Seconds
  <1>2. ASSUME NEW q \in Seconds(a + 2, b)
        PROVE  q \in Seconds(a, b)
    <2> DEFINE k == q - (a + 2)
    <2>1. k \in Nat /\ k % 2 = 0 /\ q - a = k + 2
      BY <1>2 DEF Seconds
    <2> HIDE DEF k
    <2>2. (k + 2) % 2 = 0
      BY <2>1
    <2>3. q \in a..(b - 1)
      BY <1>2 DEF Seconds
    <2> QED
      BY <2>1, <2>2, <2>3 DEF Seconds
  <1>3. a \in Seconds(a, b)
    BY DEF Seconds
  <1> QED
    BY <1>1, <1>2, <1>3

\* The commands skipped from a up to b are all that start there.
Skipped(p, a, b) ==
    /\ b \in a..Len(p)
    /\ \A q \in Seconds(a, b) : p[q + 1] = 16
    /\ StartsFrom(p, a) = Seconds(a, b) \cup StartsFrom(p, b)

\* The recursive function in SkipWaits exists and skips those.
LEMMA SkipFinds ==
    ASSUME packet \in Seq(Byte), NEW u \in 0..Len(packet), SkipWaits(u) # -1
    PROVE  Skipped(packet, u, SkipWaits(u))
  <1> DEFINE L == Len(packet)
             Def(g) == [v \in 0..L |->
                          IF v = L THEN v
                          ELSE IF v + 2 > L THEN -1
                          ELSE IF packet[v + 1] # 16 THEN v
                          ELSE g[v + 2]]
             skip == CHOOSE g : g = Def(g)
             D == {v \in 0..(L - 1) : ~(v + 2 > L) /\ packet[v + 1] = 16}
             V == -1..L
             final == [v \in 0..L |-> IF v = L THEN v ELSE IF v + 2 > L THEN -1 ELSE v]
             j == [v \in D |-> v + 2]
             h == [v \in 0..L |-> [w \in V |-> w]]
  <1>1. SkipWaits(u) = skip[u]
    BY DEF SkipWaits
  <1>2. L \in Nat
    OBVIOUS
  <1>3. \E g : g = Def(g)
    <2>1. D \in SUBSET (0..L) /\ \A x \in D : j[x] \in 0..L /\ x < j[x]
      BY <1>2
    <2>2. final \in [0..L -> V]
      BY <1>2
    <2>3. h \in [0..L -> [V -> V]]
      OBVIOUS
    <2>4. Jumps(0..L, V, D, final, j, h)
      <3> HIDE DEF D, V, final, j, h, L
      <3> QED
        BY <1>2, <2>1, <2>2, <2>3, JumpRecursion
    <2>5. PICK g \in [0..L -> V] :
            \A v \in 0..L : g[v] = IF v \in D THEN h[v][g[j[v]]] ELSE final[v]
      <3> HIDE DEF D, V, final, j, h, L
      <3> QED
        BY <2>4 DEF Jumps
    <2>6. ASSUME NEW v \in 0..L
          PROVE  g[v] = Def(g)[v]
      <3>1. CASE v \in D
        <4>1. v # L /\ ~(v + 2 > L) /\ packet[v + 1] = 16
          BY <1>2, <3>1
        <4>2. j[v] = v + 2 /\ j[v] \in 0..L
          BY <2>1, <3>1
        <4>3. h[v][g[j[v]]] = g[j[v]]
          <5> HIDE DEF j, V
          <5> QED
            BY <4>2
        <4>4. g[v] = g[v + 2]
          BY <2>5, <3>1, <4>2, <4>3
        <4> QED
          BY <4>1, <4>4
      <3>2. CASE v \notin D
        <4>1. g[v] = final[v]
          BY <2>5, <3>2
        <4>2. v = L \/ v + 2 > L \/ packet[v + 1] # 16
          BY <1>2, <3>2
        <4>3. Def(g)[v] = final[v]
          <5> HIDE DEF D
          <5> QED
            BY <4>2
        <4> QED
          BY <4>1, <4>3
      <3> QED
        BY <3>1, <3>2
    <2>7. g = Def(g)
      <3>1. g = [v \in 0..L |-> g[v]] /\ Def(g) = [v \in 0..L |-> Def(g)[v]]
        OBVIOUS
      <3> HIDE DEF Def
      <3> QED
        BY <2>6, <3>1
    <2> QED
      BY <2>7
  <1>4. skip = Def(skip)
    <2> HIDE DEF Def
    <2> QED
      BY <1>3
  <1> HIDE DEF skip
  <1>5. \A v \in 0..L : Def(skip)[v] = IF v = L THEN v
                                       ELSE IF v + 2 > L THEN -1
                                       ELSE IF packet[v + 1] # 16 THEN v
                                       ELSE skip[v + 2]
    OBVIOUS
  <1> HIDE DEF Def
  <1>6. \A v \in 0..L : skip[v] = IF v = L THEN v
                                  ELSE IF v + 2 > L THEN -1
                                  ELSE IF packet[v + 1] # 16 THEN v
                                  ELSE skip[v + 2]
    BY <1>4, <1>5
  <1> DEFINE T == {v \in 0..L : skip[v] # -1 => Skipped(packet, v, skip[v])}
  <1>7. ASSUME NEW v \in 0..L, \A y \in 0..L : y > v => y \in T
        PROVE  v \in T
    <2>0. SUFFICES ASSUME skip[v] # -1
                   PROVE  Skipped(packet, v, skip[v])
      OBVIOUS
    <2>1. CASE skip[v] = v
      <3>1. Seconds(v, v) = {}
        BY DEF Seconds
      <3> QED
        BY <1>2, <2>1, <3>1 DEF Skipped
    <2>2. CASE v # L /\ ~(v + 2 > L) /\ packet[v + 1] = 16
      <3>1. skip[v] = skip[v + 2] /\ v + 2 \in 0..L /\ v + 2 > v /\ v \in 0..(L - 1)
        BY <1>2, <1>6, <2>2
      <3> DEFINE r == skip[v]
      <3>2. Skipped(packet, v + 2, r)
        BY <1>7, <2>0, <3>1
      <3>3. Operands(packet[v + 1]) = 1
        <4>1. 16 \notin {4, 5} /\ 16 # 25 /\ 16 \in 0..17 \ {4, 5}
              /\ 16 \notin WRITE_SCAN \cup READ_WRITE_SCAN
          BY DEF WRITE_SCAN, READ_WRITE_SCAN
        <4> QED
          BY <2>2, <4>1 DEF Operands
      <3>4. EndOf(packet, v) = v + 2
        BY <1>2, <3>3 DEF EndOf
      <3>5. StartsFrom(packet, v) = {v} \cup StartsFrom(packet, v + 2)
        BY <1>2, <3>1, <3>4, StartsRecursion
      <3> HIDE DEF r
      <3>6. r \in (v + 2)..L /\ r \in v..L
        BY <1>2, <3>2 DEF Skipped
      <3>7. Seconds(v, r) = {v} \cup Seconds(v + 2, r)
        BY <1>2, <3>6, SecondsStep
      <3>8. Skipped(packet, v, r)
        BY <2>2, <3>2, <3>5, <3>6, <3>7 DEF Skipped
      <3> QED
        BY <3>8 DEF r
    <2>3. skip[v] = v \/ (v # L /\ ~(v + 2 > L) /\ packet[v + 1] = 16)
      BY <1>6, <2>0
    <2> QED
      BY <2>1, <2>2, <2>3
  <1> HIDE DEF T
  <1>8. 0..L \subseteq T
    <2> HIDE DEF L
    <2> QED
      BY <1>2, <1>7, DownwardInduction
  <1> QED
    BY <1>1, <1>8 DEF T

-----------------------------------------------------------------------------
(* The invariant. *)

Piece == {"pre", "data", "post"}

\* TypeOK in three parts: the message, the handler, and the wire with the
\* history.
MsgOK ==
    /\ packet \in Packets \cup {<<>>}
    /\ used \in 0..Len(packet)
    /\ response_cnt \in 0..MaxDataSize
    /\ executed \subseteq 0..(Len(packet) - 1)

ChainRecord == [tap : TapState, scan : {"Done", "Run"}, padding : [Kinds -> [Sides -> Nat]]]

HandlerOK ==
    /\ hardware_mode \in BOOLEAN /\ initialized \in BOOLEAN /\ sw_mode \in BOOLEAN
    /\ chains \in [Chain -> ChainRecord]
    /\ active \in Chain

WireOK ==
    /\ hw \in [Chain -> TapState \cup {Lost}]
    /\ line \in [Chain -> Seq(Piece)]
    /\ finished \in Seq(Piece)
    /\ lapsed \in BOOLEAN /\ faulted \in BOOLEAN

\* The prefix, if there is one, and data.
Begun(padding) == (IF padding["pre"] > 0 THEN <<"pre">> ELSE <<>>) \o <<"data">>

\* Only the active chain is in the middle of a scan.  Its TAP is in Shift, and
\* the prefix and data have been driven, unless nobody knows where it is.  What
\* comes next in the packet is a scan, the one TAP_STATE command that is a lapse,
\* or a command that is cut short.
Running ==
    LET c == chains[active]
    IN  /\ c.tap \in Shift
        /\ \/ hw[active] = Lost /\ line[active] = <<>>
           \/ hw[active] = c.tap /\ line[active] = Begun(c.padding[Kind])
        /\ used < Len(packet) =>
             CutShort(packet, used) \/ packet[used + 1] \in SCAN \cup {32 + c.tap}

ScanInv ==
    ~lapsed /\ ~faulted =>
        /\ \A c \in Chain : chains[c].scan = "Done" => line[c] = <<>>
        /\ \A c \in Chain : c # active => chains[c].scan = "Done"
        /\ chains[active].scan = "Run" => Running

\* The commands executed are those that start before the next one, and the
\* response answers them; or the next command is cut short, and the message will
\* not be answered.
Accounted ==
    packet # <<>> =>
        \/ CutShort(packet, used)
        \/ /\ executed \subseteq 0..(used - 1)
           /\ Starts(packet) = executed \cup StartsFrom(packet, used)
           /\ response_cnt = SumFunctionOnSet(ResponseTo(packet), executed)

IInv == MsgOK /\ HandlerOK /\ WireOK /\ TapTracked /\ ScanInv /\ Accounted

\* The parts of the type invariant are all of it.
LEMMA TypeParts == TypeOK <=> MsgOK /\ HandlerOK /\ WireOK
  BY DEF TypeOK, MsgOK, HandlerOK, WireOK, ChainRecord, Piece

-----------------------------------------------------------------------------
(* The message. *)

\* Packets are sequences of bytes.
LEMMA PacketType ==
    ASSUME MsgOK
    PROVE  packet \in Seq(Byte) /\ Len(packet) \in Nat /\ used \in Nat
  <1>1. packet \in Seq(Byte)
    <2>1. <<>> \in Seq(Byte)
      OBVIOUS
    <2> QED
      BY <2>1, JtagScanAssumption DEF MsgOK, Byte
  <1> QED
    BY <1>1 DEF MsgOK

\* What the next command is.
LEMMA NextCommand ==
    ASSUME MsgOK, Cmd \in Byte
    PROVE  /\ packet # <<>>
           /\ used \in 0..(Len(packet) - 1)
           /\ used < Len(packet)
           /\ Cmd = packet[used + 1]
           /\ Operands(Cmd) \in Nat /\ ResponseSize(Cmd) \in Nat
           /\ After = EndOf(packet, used)
           /\ After \in Nat /\ used < After
           /\ Complete <=> ~CutShort(packet, used)
           /\ Complete => After \in 0..Len(packet)
  <1>1. used < Len(packet) /\ Cmd = packet[used + 1]
    BY DEF Cmd, Byte
  <1>2. packet \in Seq(Byte) /\ Len(packet) \in Nat /\ used \in Nat
    BY PacketType
  <1>3. used \in 0..(Len(packet) - 1) /\ packet # <<>>
    BY <1>1, <1>2
  <1>4. Operands(Cmd) \in Nat /\ ResponseSize(Cmd) \in Nat
    BY CommandSizes
  <1>5. After = EndOf(packet, used) /\ After \in Nat /\ used < After
    <2> HIDE DEF Cmd
    <2> QED
      BY <1>1, <1>2, <1>4 DEF After, EndOf
  <1>6. Complete <=> After <= Len(packet)
    BY DEF Complete, After
  <1>7. (Complete <=> ~CutShort(packet, used)) /\ (Complete => After \in 0..Len(packet))
    BY <1>2, <1>3, <1>5, <1>6 DEF CutShort
  <1> QED
    BY <1>1, <1>3, <1>4, <1>5, <1>7

\* A command that is executed is accounted for.
LEMMA ProceedAccounts ==
    ASSUME MsgOK, Accounted, Cmd \in Byte, Complete,
           NEW u, u \in 0..Len(packet), u = After \/ CutShort(packet, u),
           response_cnt + ResponseSize(Cmd) <= MaxDataSize,
           Proceed(u, ResponseSize(Cmd))
    PROVE  MsgOK' /\ Accounted'
  <1> DEFINE bytes == ResponseSize(Cmd)
             f == ResponseTo(packet)
             n == Len(packet)
  <1>1. /\ packet # <<>> /\ used \in 0..(n - 1) /\ Cmd = packet[used + 1]
        /\ bytes \in Nat /\ After = EndOf(packet, used) /\ used < After
        /\ ~CutShort(packet, used) /\ After \in 0..n
    BY NextCommand
  <1>2. packet \in Seq(Byte) /\ n \in Nat
    BY PacketType
  <1>3. /\ packet' = packet /\ used' = u /\ response_cnt' = response_cnt + bytes
        /\ executed' = executed \cup {used}
    BY DEF Proceed
  <1>4. MsgOK'
    BY <1>1, <1>2, <1>3 DEF MsgOK
  <1>5. CASE CutShort(packet, u)
    BY <1>3, <1>4, <1>5 DEF Accounted
  <1>6. CASE u = After
    <2>1. /\ executed \subseteq 0..(used - 1)
          /\ Starts(packet) = executed \cup StartsFrom(packet, used)
          /\ response_cnt = SumFunctionOnSet(f, executed)
      BY <1>1 DEF Accounted
    <2>2. executed' \subseteq 0..(u - 1)
      BY <1>1, <1>3, <1>6, <2>1
    <2>3. StartsFrom(packet, used) = {used} \cup StartsFrom(packet, u)
      <3>1. EndOf(packet, used) <= n
        BY <1>1, <1>2
      <3> QED
        BY <1>1, <1>2, <1>6, <3>1, StartsRecursion
    <2>4. Starts(packet) = executed' \cup StartsFrom(packet, u)
      BY <1>3, <2>1, <2>3
    <2>5. IsFiniteSet(executed) /\ used \notin executed
      <3>1. IsFiniteSet(0..(used - 1))
        BY <1>1, FS_Interval
      <3>2. IsFiniteSet(executed)
        BY <2>1, <3>1, FS_Subset
      <3> QED
        BY <1>1, <2>1, <3>2
    <2>6. \A t \in 0..(n - 1) : f[t] = ResponseSize(packet[t + 1]) /\ f[t] \in Nat
      <3>1. \A t \in 0..(n - 1) : packet[t + 1] \in Byte
        BY <1>2, PacketBytes
      <3>2. \A t \in 0..(n - 1) : ResponseSize(packet[t + 1]) \in Nat
        BY <3>1, CommandSizes
      <3> QED
        BY <3>2 DEF ResponseTo
    <2> HIDE DEF f
    <2>7. f[used] = bytes /\ f[used] \in Nat /\ \A t \in executed : f[t] \in Nat
      BY <1>1, <1>2, <2>1, <2>6 DEF MsgOK
    <2>8. SumFunctionOnSet(f, executed \cup {used}) = SumFunctionOnSet(f, executed) + f[used]
      BY <2>5, <2>7, SumAdd
    <2>9. response_cnt' = SumFunctionOnSet(f, executed')
      BY <1>3, <2>1, <2>7, <2>8
    <2> QED
      BY <1>3, <1>4, <2>2, <2>4, <2>9 DEF Accounted, f
  <1> QED
    BY <1>4, <1>5, <1>6

\* So is a message that ends.
LEMMA RefuseAccounts ==
    ASSUME Refuse
    PROVE  MsgOK' /\ Accounted'
  <1>1. packet' = <<>> /\ used' = 0 /\ response_cnt' = 0 /\ executed' = {}
    BY DEF Refuse
  <1>2. Len(packet') = 0 /\ 0 \in 0..MaxDataSize
    BY <1>1, JtagScanAssumption
  <1> QED
    BY <1>1, <1>2 DEF MsgOK, Accounted

-----------------------------------------------------------------------------
(* Actions that leave the chains and the wire alone. *)

\* The commands are bytes.
LEMMA CommandsAreBytes ==
    /\ CONFIG \cup PADDING \cup READ_STATUS \cup WAIT_CYCLES \subseteq Byte
    /\ SCAN \subseteq Byte
    /\ TAP_STATE \cup {TAP_RESET, WRITE_PINS} \subseteq Byte
  BY DEF CONFIG, PADDING, READ_STATUS, WAIT_CYCLES, SCAN, WRITE_SCAN, READ_SCAN, READ_WRITE_SCAN,
     TAP_STATE, TAP_RESET, WRITE_PINS, Byte

\* Only scans and READ_STATUS commands are answered with bytes of their own.
LEMMA NoResponse ==
    ASSUME NEW cmd \in CONFIG \cup PADDING \cup WAIT_CYCLES \cup TAP_STATE \cup {TAP_RESET, WRITE_PINS}
    PROVE  ResponseSize(cmd) = 0
  <1>1. cmd \notin READ_STATUS /\ cmd \notin READ_SCAN \cup READ_WRITE_SCAN
    BY DEF CONFIG, PADDING, READ_STATUS, WAIT_CYCLES, READ_SCAN, READ_WRITE_SCAN,
       TAP_STATE, TAP_RESET, WRITE_PINS
  <1> QED
    BY <1>1 DEF ResponseSize

\* A READ_STATUS command is answered with two.
LEMMA StatusResponse ==
    ASSUME NEW cmd \in READ_STATUS
    PROVE  ResponseSize(cmd) = 2
  <1>1. cmd \notin READ_SCAN \cup READ_WRITE_SCAN
    BY DEF READ_STATUS, READ_SCAN, READ_WRITE_SCAN
  <1> QED
    BY <1>1 DEF ResponseSize

\* Commands that are neither scans nor TAP_STATE commands do not come in the
\* middle of a scan.
LEMMA NotInScan ==
    ASSUME NEW cmd \in CONFIG \cup PADDING \cup READ_STATUS \cup WAIT_CYCLES \cup {TAP_RESET, WRITE_PINS}
    PROVE  cmd \notin SCAN /\ \A s \in TapState : cmd # 32 + s
  BY DEF CONFIG, PADDING, READ_STATUS, WAIT_CYCLES, SCAN, WRITE_SCAN, READ_SCAN, READ_WRITE_SCAN,
     TAP_RESET, WRITE_PINS, TapState

\* As long as no rule is broken a complete one finds no scan running.
LEMMA NoneRunning ==
    ASSUME MsgOK, HandlerOK, ScanInv, ~lapsed, ~faulted, Complete,
           Cmd \in CONFIG \cup PADDING \cup READ_STATUS \cup WAIT_CYCLES \cup {TAP_RESET, WRITE_PINS}
    PROVE  \A c \in Chain : chains[c].scan = "Done" /\ line[c] = <<>>
  <1>1. Cmd \in Byte
    BY CommandsAreBytes
  <1>2. used < Len(packet) /\ Cmd = packet[used + 1] /\ ~CutShort(packet, used)
    BY <1>1, NextCommand
  <1>3. chains[active].scan \in {"Done", "Run"} /\ chains[active].tap \in TapState
    BY DEF HandlerOK, ChainRecord
  <1>4. chains[active].scan # "Run"
    <2>1. Cmd \notin SCAN /\ \A s \in TapState : Cmd # 32 + s
      BY NotInScan
    <2> QED
      BY <1>2, <1>3, <2>1 DEF ScanInv, Running
  <1> QED
    BY <1>3, <1>4 DEF ScanInv

\* The chains, the wire and the history stay.
Still == UNCHANGED <<chains, active, hw, line, historyVars>> /\ finished' = <<>>

\* A message may end, or go on when no scan is running, without a change to
\* them.
LEMMA StillInv ==
    ASSUME IInv, Still, UNCHANGED <<initialized, sw_mode>>, hardware_mode' \in BOOLEAN,
           MsgOK', Accounted',
           \/ ~(used' < Len(packet'))
           \/ ~lapsed /\ ~faulted => chains[active].scan = "Done"
    PROVE  IInv'
  <1>1. HandlerOK' /\ WireOK'
    BY DEF IInv, HandlerOK, WireOK, Still, historyVars
  <1>2. TapTracked'
    BY DEF IInv, TapTracked, Still, historyVars
  <1>3. ScanInv'
    <2> USE DEF Still, historyVars
    <2>1. SUFFICES ASSUME ~lapsed, ~faulted
                   PROVE  ScanInv'
      BY DEF ScanInv
    <2>2. /\ \A c \in Chain : chains[c].scan = "Done" => line[c] = <<>>
          /\ \A c \in Chain : c # active => chains[c].scan = "Done"
          /\ chains[active].scan = "Run" => Running
      BY <2>1 DEF IInv, ScanInv
    <2>3. chains[active].scan = "Run" => Running'
      BY <2>1, <2>2 DEF Running, Kind, Tap
    <2> QED
      BY <2>2, <2>3 DEF ScanInv
  <1> QED
    BY <1>1, <1>2, <1>3 DEF IInv

\* Between two messages nothing is accounted for.
LEMMA BetweenMessages ==
    ASSUME IInv, packet = <<>>, UNCHANGED msgVars
    PROVE  /\ MsgOK' /\ Accounted'
           /\ ~(used' < Len(packet'))
  <1>1. packet' = <<>> /\ UNCHANGED <<used, response_cnt, executed>>
    BY DEF msgVars
  <1>2. Len(packet') = 0 /\ used \in 0..Len(packet) /\ Len(packet) = 0
    BY <1>1 DEF IInv, MsgOK
  <1> QED
    BY <1>1, <1>2 DEF IInv, MsgOK, Accounted

\* New settings wait for the next JTAG_initialize.
LEMMA AgentConfigInv ==
    ASSUME IInv, NEW mode \in BOOLEAN, AgentConfig(mode)
    PROVE  IInv'
  <1>1. MsgOK' /\ Accounted' /\ ~(used' < Len(packet'))
    BY BetweenMessages DEF AgentConfig
  <1>2. Still /\ UNCHANGED <<initialized, sw_mode>> /\ hardware_mode' \in BOOLEAN
    BY DEF AgentConfig, Still
  <1> QED
    BY <1>1, <1>2, StillInv

\* The action ends the message and changes nothing else.
LEMMA RefuseInv ==
    ASSUME IInv, Refuse, NoShift, UNCHANGED <<handlerVars, historyVars>>
    PROVE  IInv'
  <1>1. MsgOK' /\ Accounted'
    BY RefuseAccounts
  <1>2. Still /\ UNCHANGED <<initialized, sw_mode>> /\ hardware_mode' \in BOOLEAN
    BY DEF NoShift, Still, handlerVars, IInv, HandlerOK
  <1>3. ~(used' < Len(packet'))
    <2>1. packet' = <<>> /\ used' = 0
      BY DEF Refuse
    <2> QED
      BY <2>1
  <1> QED
    BY <1>1, <1>2, <1>3, StillInv

\* The action executes a command and changes neither chains nor wire.
LEMMA ProceedInv ==
    ASSUME IInv, Complete, Cmd \in CONFIG \cup READ_STATUS,
           response_cnt + ResponseSize(Cmd) <= MaxDataSize,
           Proceed(After, ResponseSize(Cmd)), NoShift, UNCHANGED <<handlerVars, historyVars>>
    PROVE  IInv'
  <1>1. Cmd \in Byte /\ MsgOK /\ Accounted /\ HandlerOK /\ ScanInv
    BY CommandsAreBytes DEF IInv
  <1>2. After \in 0..Len(packet)
    BY <1>1, NextCommand
  <1>3. MsgOK' /\ Accounted'
    BY <1>1, <1>2, ProceedAccounts
  <1>4. Still /\ UNCHANGED <<initialized, sw_mode>> /\ hardware_mode' \in BOOLEAN
    BY DEF NoShift, Still, handlerVars, IInv, HandlerOK
  <1>5. ~lapsed /\ ~faulted => chains[active].scan = "Done"
    <2>1. active \in Chain
      BY DEF IInv, HandlerOK
    <2> QED
      BY <1>1, <2>1, NoneRunning
  <1> QED
    BY <1>3, <1>4, <1>5, StillInv

\* A command that is refused ends its message.
LEMMA BadCommandInv ==
    ASSUME IInv, BadCommand
    PROVE  IInv'
  BY RefuseInv DEF BadCommand

\* So does a scan that is refused before it reaches the driver.
LEMMA ScanRefusedInv ==
    ASSUME IInv, ScanRefused
    PROVE  IInv'
  BY RefuseInv DEF ScanRefused

\* So does the answer.
LEMMA AnswerInv ==
    ASSUME IInv, Answer
    PROVE  IInv'
  BY RefuseInv DEF Answer

\* A command that touches no scan chain comes between scans.
LEMMA OtherCommandInv ==
    ASSUME IInv, OtherCommand
    PROVE  IInv'
  <1>1. ResponseSize(Cmd) = 0
    BY NoResponse DEF OtherCommand
  <1>2. response_cnt + ResponseSize(Cmd) <= MaxDataSize
    BY <1>1, JtagScanAssumption DEF IInv, MsgOK
  <1>3. Proceed(After, ResponseSize(Cmd))
    BY <1>1 DEF OtherCommand
  <1> QED
    BY <1>2, <1>3, ProceedInv DEF OtherCommand

\* So does a READ_STATUS command, and its two bytes fit or end the message.
LEMMA ReadStatusInv ==
    ASSUME IInv, ReadStatus
    PROVE  IInv'
  <1>1. ResponseSize(Cmd) = 2
    BY StatusResponse DEF ReadStatus
  <1>2. CASE Fits(2)
    <2>1. response_cnt + ResponseSize(Cmd) <= MaxDataSize
      BY <1>1, <1>2 DEF Fits
    <2>2. Proceed(After, ResponseSize(Cmd))
      BY <1>1, <1>2 DEF ReadStatus
    <2> QED
      BY <2>1, <2>2, ProceedInv DEF ReadStatus
  <1>3. CASE ~Fits(2)
    BY <1>3, RefuseInv DEF ReadStatus
  <1> QED
    BY <1>2, <1>3

\* A message that does not go on with the scan that is running is a lapse.
LEMMA ReceiveInv ==
    ASSUME IInv, NEW p \in Packets, Receive(p)
    PROVE  IInv'
  <1>1. /\ packet' = p /\ used' = 0 /\ response_cnt' = 0 /\ executed' = {}
        /\ lapsed' = (lapsed \/ ~check_shift_state_bundle_start(p))
        /\ UNCHANGED <<handlerVars, hw, line, faulted>> /\ finished' = <<>>
    BY DEF Receive
  <1>2. p \in Seq(Byte) /\ Len(p) \in Nat /\ 0 \in 0..MaxDataSize
    BY JtagScanAssumption DEF Byte
  <1>3. MsgOK'
    BY <1>1, <1>2 DEF MsgOK
  <1>4. Accounted'
    <2>1. Starts(p) = {} \cup StartsFrom(p, 0)
      BY DEF Starts
    <2>2. SumFunctionOnSet(ResponseTo(p), {}) = 0
      BY SumOfNone
    <2> QED
      BY <1>1, <2>1, <2>2 DEF Accounted
  <1>5. HandlerOK' /\ WireOK'
    <2>1. check_shift_state_bundle_start(p) \in BOOLEAN
      BY DEF check_shift_state_bundle_start
    <2> QED
      BY <1>1, <2>1 DEF IInv, HandlerOK, WireOK, handlerVars
  <1>6. TapTracked'
    BY <1>1 DEF IInv, TapTracked, handlerVars
  <1>7. ScanInv'
    <2>1. SUFFICES ASSUME ~lapsed', ~faulted'
                   PROVE  ScanInv'
      BY DEF ScanInv
    <2>2. ~lapsed /\ ~faulted /\ check_shift_state_bundle_start(p)
      BY <1>1, <2>1
    <2>3. /\ \A c \in Chain : chains[c].scan = "Done" => line[c] = <<>>
          /\ \A c \in Chain : c # active => chains[c].scan = "Done"
          /\ chains[active].scan = "Run" => Running
      BY <2>2 DEF IInv, ScanInv
    <2>4. ASSUME chains[active].scan = "Run"
          PROVE  Running'
      <3>1. chains[active].tap \in Shift /\ p[1] \in SCAN
        BY <2>2, <2>3, <2>4 DEF Running, check_shift_state_bundle_start, Tap
      <3>2. packet'[used' + 1] \in SCAN
        BY <1>1, <3>1
      <3> QED
        BY <1>1, <2>3, <2>4, <3>2 DEF Running, Kind, Tap, handlerVars
    <2> QED
      BY <1>1, <2>3, <2>4 DEF ScanInv, handlerVars
  <1> QED
    BY <1>3, <1>4, <1>5, <1>6, <1>7 DEF IInv

\* The state after Init or JTAG_initialize: no chain is in a scan.
LEMMA InitInv == Init => IInv
  <1>1. SUFFICES ASSUME Init PROVE IInv
    OBVIOUS
  <1>2. 0 \in Chain /\ 0 \in TapState /\ 0 \in 0..MaxDataSize
    BY JtagScanAssumption DEF Chain, TapState
  <1>3. FreshChain \in ChainRecord
    BY <1>2 DEF FreshChain, ChainRecord, tlr
  <1>4. MsgOK /\ Accounted
    <2>1. packet = <<>> /\ used = 0 /\ response_cnt = 0 /\ executed = {} /\ Len(<<>>) = 0
      BY <1>1 DEF Init
    <2> QED
      BY <1>2, <2>1 DEF MsgOK, Accounted
  <1>5. HandlerOK
    BY <1>1, <1>2, <1>3 DEF Init, HandlerOK
  <1>6. WireOK
    BY <1>1, <1>2 DEF Init, WireOK, tlr
  <1>7. \A c \in Chain : FreshChain.tap = tlr /\ FreshChain.scan = "Done"
    BY DEF FreshChain
  <1>8. TapTracked /\ ScanInv
    BY <1>1, <1>2, <1>7 DEF Init, TapTracked, ScanInv
  <1> QED
    BY <1>4, <1>5, <1>6, <1>8 DEF IInv

\* The handler made afresh has no scan running and knows the TAP of the first
\* chain.
LEMMA InitializeInv ==
    ASSUME IInv, JTAG_initialize
    PROVE  IInv'
  <1>1. MsgOK' /\ Accounted'
    BY BetweenMessages DEF JTAG_initialize
  <1>2. 0 \in Chain /\ 0 \in TapState
    BY JtagScanAssumption DEF Chain, TapState
  <1>3. FreshChain \in ChainRecord /\ FreshChain.tap = tlr /\ FreshChain.scan = "Done"
    BY <1>2 DEF FreshChain, ChainRecord, tlr
  <1>4. HandlerOK'
    BY <1>2, <1>3 DEF JTAG_initialize, IInv, HandlerOK
  <1>5. WireOK'
    BY <1>2 DEF JTAG_initialize, WireOK, tlr
  <1>6. TapTracked'
    BY <1>3 DEF JTAG_initialize, TapTracked
  <1>7. ScanInv'
    BY <1>2, <1>3 DEF JTAG_initialize, ScanInv
  <1> QED
    BY <1>1, <1>4, <1>5, <1>6, <1>7 DEF IInv

-----------------------------------------------------------------------------
(* Commands between scans. *)

\* A step after which no scan is running keeps the invariant.
LEMMA QuietInv ==
    ASSUME MsgOK', Accounted', HandlerOK', WireOK', TapTracked',
           ~lapsed' /\ ~faulted' => \A c \in Chain : chains'[c].scan = "Done" /\ line'[c] = <<>>
    PROVE  IInv'
  <1>1. ScanInv'
    <2>1. active' \in Chain
      BY DEF HandlerOK
    <2> QED
      BY <2>1 DEF ScanInv
  <1> QED
    BY <1>1 DEF IInv

\* The command is executed, and answered with nothing.
LEMMA ProceedSilently ==
    ASSUME IInv, Complete, Proceed(After, 0),
           Cmd \in CONFIG \cup PADDING \cup WAIT_CYCLES \cup TAP_STATE \cup {TAP_RESET, WRITE_PINS}
    PROVE  MsgOK' /\ Accounted'
  <1>1. Cmd \in Byte /\ MsgOK /\ Accounted
    BY CommandsAreBytes DEF IInv
  <1>2. After \in 0..Len(packet)
    BY <1>1, NextCommand
  <1>3. ResponseSize(Cmd) = 0
    BY NoResponse
  <1>4. response_cnt + ResponseSize(Cmd) <= MaxDataSize
    BY <1>1, <1>3, JtagScanAssumption DEF MsgOK
  <1>5. Proceed(After, ResponseSize(Cmd))
    BY <1>3
  <1> QED
    BY <1>1, <1>2, <1>4, <1>5, ProceedAccounts

\* What no scan running means for a command of IInv.
LEMMA Rest ==
    ASSUME IInv, Complete,
           Cmd \in CONFIG \cup PADDING \cup READ_STATUS \cup WAIT_CYCLES \cup {TAP_RESET, WRITE_PINS}
    PROVE  ~lapsed /\ ~faulted => \A c \in Chain : chains[c].scan = "Done" /\ line[c] = <<>>
  BY NoneRunning DEF IInv

\* The operands of a padding command are there.
LEMMA PaddingValue ==
    ASSUME IInv, Complete, Cmd \in PADDING
    PROVE  Data \in Nat /\ (Cmd \notin {2, 3} => packet[used + 3] \in Nat)
  <1>1. MsgOK /\ Cmd \in Byte
    BY CommandsAreBytes DEF IInv
  <1>2. packet \in Seq(Byte) /\ Len(packet) \in Nat /\ used \in Nat /\ After \in 0..Len(packet)
    BY <1>1, PacketType, NextCommand
  <1>3. Cmd \in {2, 3} => Operands(Cmd) = 1
    <2>1. Cmd \in {2, 3} => /\ Cmd \notin {4, 5} /\ Cmd # 25 /\ Cmd \in 0..17 \ {4, 5}
                            /\ Cmd \notin WRITE_SCAN \cup READ_WRITE_SCAN
      BY DEF WRITE_SCAN, READ_WRITE_SCAN
    <2> HIDE DEF Cmd
    <2> QED
      BY <2>1 DEF Operands
  <1>4. Cmd \notin {2, 3} => Operands(Cmd) = 2
    <2>1. Cmd \notin {2, 3} => /\ Cmd \in {4, 5} /\ Cmd # 25 /\ Cmd \notin 0..17 \ {4, 5}
                               /\ Cmd \notin WRITE_SCAN \cup READ_WRITE_SCAN
      BY DEF WRITE_SCAN, READ_WRITE_SCAN, PADDING
    <2> HIDE DEF Cmd
    <2> QED
      BY <2>1 DEF Operands
  <1>5. used + 2 \in 1..Len(packet) /\ (Cmd \notin {2, 3} => used + 3 \in 1..Len(packet))
    <2> HIDE DEF Cmd
    <2> QED
      BY <1>2, <1>3, <1>4 DEF After
  <1>6. \A i \in 1..Len(packet) : packet[i] \in Nat
    <2>1. \A i \in 1..Len(packet) : packet[i] \in Byte
      BY <1>2
    <2>2. Byte \subseteq Nat
      BY DEF Byte
    <2> QED
      BY <2>1, <2>2
  <1> QED
    BY <1>5, <1>6 DEF Data

\* The padding of a chain is never changed in the middle of its scan.
LEMMA SetPaddingInv ==
    ASSUME IInv, SetPadding
    PROVE  IInv'
  <1> DEFINE kind == IF Cmd \in {2, 3} THEN "dr" ELSE "ir"
             side == IF Cmd \in {2, 4} THEN "post" ELSE "pre"
             value == IF kind = "dr" THEN Data ELSE Data + 256 * packet[used + 3]
  <1>1. /\ Cmd \in PADDING /\ Complete
        /\ IF ValidPadding(kind, value) THEN Proceed(After, 0) ELSE Refuse
        /\ JTAG_set_padding(kind, side, value)
        /\ NoShift
        /\ UNCHANGED <<hardware_mode, initialized, sw_mode, active, historyVars>>
    BY DEF SetPadding
  <1>2. kind \in Kinds /\ side \in Sides /\ value \in Nat
    <2>1. kind \in Kinds /\ side \in Sides
      BY DEF Kinds, Sides
    <2>2. Data \in Nat /\ (kind # "dr" => packet[used + 3] \in Nat)
      BY <1>1, PaddingValue
    <2> HIDE DEF kind
    <2> QED
      BY <2>1, <2>2
  <1> HIDE DEF kind, side, value
  <1>3. CASE ~ValidPadding(kind, value)
    <2>1. Refuse /\ UNCHANGED <<handlerVars, historyVars>>
      BY <1>1, <1>3 DEF JTAG_set_padding, handlerVars
    <2> QED
      BY <1>1, <2>1, RefuseInv
  <1>4. CASE ValidPadding(kind, value)
    <2>1. Proceed(After, 0) /\ chains' = [chains EXCEPT ![active].padding[kind][side] = value]
      BY <1>1, <1>4 DEF JTAG_set_padding
    <2>2. MsgOK' /\ Accounted'
      BY <1>1, <2>1, ProceedSilently
    <2>3. active \in Chain /\ chains \in [Chain -> ChainRecord]
      BY DEF IInv, HandlerOK
    <2>4. /\ chains' \in [Chain -> ChainRecord]
          /\ \A c \in Chain : chains'[c].tap = chains[c].tap /\ chains'[c].scan = chains[c].scan
      <3> DEFINE new == [chains[active] EXCEPT !.padding[kind][side] = value]
      <3>1. chains[active] \in ChainRecord
        BY <2>3
      <3>2. new \in ChainRecord /\ new.tap = chains[active].tap /\ new.scan = chains[active].scan
        BY <1>2, <3>1 DEF ChainRecord
      <3>3. chains' = [chains EXCEPT ![active] = new]
        BY <2>1, <2>3
      <3> HIDE DEF new
      <3> QED
        BY <2>3, <3>2, <3>3
    <2>5. HandlerOK' /\ WireOK' /\ UNCHANGED <<active, sw_mode, hw, line, lapsed, faulted>>
      BY <1>1, <2>4 DEF IInv, HandlerOK, WireOK, NoShift, historyVars
    <2>6. TapTracked'
      BY <2>4, <2>5 DEF IInv, TapTracked
    <2>7. ~lapsed /\ ~faulted => \A c \in Chain : chains[c].scan = "Done" /\ line[c] = <<>>
      BY <1>1, Rest
    <2> QED
      BY <2>2, <2>4, <2>5, <2>6, <2>7, QuietInv
  <1> QED
    BY <1>3, <1>4

\* The multiplexer moved behind the handler's back is a lapse.
LEMMA WriteMuxPinInv ==
    ASSUME IInv, WriteMuxPin
    PROVE  IInv'
  <1>1. MsgOK' /\ Accounted'
    BY ProceedSilently DEF WriteMuxPin
  <1>2. HandlerOK' /\ lapsed'
    BY DEF WriteMuxPin, IInv, HandlerOK, handlerVars
  <1>3. WireOK'
    BY DEF WriteMuxPin, IInv, WireOK, Lost
  <1> QED
    BY <1>1, <1>2, <1>3, QuietInv DEF TapTracked

\* The chain is never changed in the middle of a scan.
LEMMA SelectChainInv ==
    ASSUME IInv, SelectChain
    PROVE  IInv'
  <1> DEFINE chain == Data % 16
  <1>1. /\ Cmd = WRITE_PINS /\ Complete /\ NoShift
        /\ UNCHANGED <<hardware_mode, initialized, sw_mode, historyVars>>
        /\ IF chain \in Chain
           THEN asd_write_set_active_chain_event(chain) /\ Proceed(After, 0)
           ELSE Refuse /\ UNCHANGED <<active, chains>>
    BY DEF SelectChain
  <1> HIDE DEF chain
  <1>2. CASE chain \notin Chain
    BY <1>1, <1>2, RefuseInv DEF handlerVars
  <1>3. CASE chain \in Chain
    <2>1. active' = chain /\ UNCHANGED chains
      BY <1>1, <1>3 DEF asd_write_set_active_chain_event
    <2>2. MsgOK' /\ Accounted'
      BY <1>1, <1>3, ProceedSilently
    <2>3. HandlerOK' /\ WireOK' /\ TapTracked'
      BY <1>1, <1>3, <2>1 DEF IInv, HandlerOK, WireOK, TapTracked, NoShift, historyVars
    <2>4. ~lapsed /\ ~faulted => \A c \in Chain : chains[c].scan = "Done" /\ line[c] = <<>>
      BY <1>1, Rest
    <2> QED
      BY <1>1, <2>1, <2>2, <2>3, <2>4, QuietInv DEF NoShift, historyVars
  <1> QED
    BY <1>2, <1>3

\* A clock with TMS low leaves a TAP at rest where it is.
LEMMA ClockRests ==
    /\ \A s \in TapState \cup {Lost} : Clock(s) \in TapState \cup {Lost}
    /\ \A s \in Stable \cup {Lost} : Clock(s) = s
  <1>1. ASSUME NEW s \in TapState \cup {Lost}
        PROVE  Clock(s) \in TapState \cup {Lost}
    BY DEF Clock, TapState, Lost, tlr, rti, shf_dr, shf_ir, pau_dr, pau_ir
  <1>2. Clock(rti) = rti /\ Clock(pau_dr) = pau_dr /\ Clock(pau_ir) = pau_ir /\ Clock(Lost) = Lost
    BY DEF Clock, Lost, tlr, rti, shf_dr, shf_ir, pau_dr, pau_ir
  <1> QED
    BY <1>1, <1>2 DEF Stable

\* Clocks while the TAP is not at rest are a lapse.
LEMMA WaitCyclesInv ==
    ASSUME IInv, WaitCycles
    PROVE  IInv'
  <1> DEFINE n == IF Data = 0 THEN 256 ELSE Data
             new == Clocks(hw[active], n)
  <1>1. /\ Cmd \in WAIT_CYCLES /\ Complete /\ Proceed(After, 0)
        /\ hw' = [hw EXCEPT ![active] = new]
        /\ lapsed' = (lapsed \/ Tap \notin Stable)
        /\ finished' = <<>>
        /\ UNCHANGED <<handlerVars, line, faulted>>
    BY DEF WaitCycles, JTAG_wait_cycles
  <1>2. MsgOK' /\ Accounted'
    BY <1>1, ProceedSilently
  <1>3. active \in Chain /\ hw \in [Chain -> TapState \cup {Lost}]
    BY DEF IInv, HandlerOK, WireOK
  <1>4. new \in TapState \cup {Lost} /\ (hw[active] \in Stable \cup {Lost} => new = hw[active])
    BY <1>3, ClockRests DEF Clocks
  <1> HIDE DEF n, new
  <1>5. HandlerOK'
    BY <1>1 DEF IInv, HandlerOK, handlerVars
  <1>6. WireOK'
    <2>1. (Tap \notin Stable) \in BOOLEAN
      OBVIOUS
    <2> QED
      BY <1>1, <1>3, <1>4, <2>1 DEF IInv, WireOK
  <1>7. TapTracked'
    <2>1. SUFFICES ASSUME sw_mode', ~lapsed', NEW c \in Chain
                   PROVE  hw'[c] = chains'[c].tap \/ (c # 0 /\ hw'[c] = Lost)
      BY DEF TapTracked
    <2>2. sw_mode /\ ~lapsed /\ Tap \in Stable
      BY <1>1, <2>1 DEF handlerVars
    <2>3. \A e \in Chain : hw[e] = chains[e].tap \/ (e # 0 /\ hw[e] = Lost)
      BY <2>2 DEF IInv, TapTracked
    <2>4. hw' = hw
      BY <1>1, <1>3, <1>4, <2>2, <2>3 DEF Tap
    <2> QED
      BY <1>1, <2>3, <2>4 DEF handlerVars
  <1>8. ~lapsed /\ ~faulted => \A c \in Chain : chains[c].scan = "Done" /\ line[c] = <<>>
    BY <1>1, Rest
  <1> QED
    BY <1>1, <1>2, <1>5, <1>6, <1>7, <1>8, QuietInv DEF handlerVars

\* The waits skipped after a reset are accounted for, and add nothing to the
\* response.
LEMMA WritePinInv ==
    ASSUME IInv, WritePin
    PROVE  IInv'
  <1> DEFINE pin == Data % 128
             next == IF pin = 2 /\ Data >= 128 THEN SkipWaits(After) ELSE After
             good == pin \in {1, 2, 3, 4, 5} /\ next # -1
  <1>1. /\ Cmd = WRITE_PINS /\ Complete /\ NoShift
        /\ UNCHANGED <<handlerVars, historyVars>>
        /\ IF good
           THEN /\ used' = next
                /\ executed' = executed \cup Seconds(used, next)
                /\ UNCHANGED <<packet, response_cnt>>
           ELSE Refuse
    BY DEF WritePin, Seconds
  <1>2. CASE ~good
    BY <1>1, <1>2, RefuseInv
  <1>3. CASE good
    <2> DEFINE n == Len(packet)
               f == ResponseTo(packet)
               Z == Seconds(used, next)
    <2>1. MsgOK /\ Accounted /\ Cmd \in Byte /\ packet \in Seq(Byte) /\ n \in Nat /\ used \in Nat
      BY <1>1, CommandsAreBytes, PacketType DEF IInv
    <2>2. /\ packet # <<>> /\ used \in 0..(n - 1) /\ Cmd = packet[used + 1]
          /\ After = EndOf(packet, used) /\ After \in 0..n /\ ~CutShort(packet, used)
      BY <1>1, <2>1, NextCommand
    <2>3. After = used + 2
      <3>1. 7 \notin {4, 5} /\ 7 # 25 /\ 7 \in 0..17 \ {4, 5} /\ 7 \notin WRITE_SCAN \cup READ_WRITE_SCAN
        BY DEF WRITE_SCAN, READ_WRITE_SCAN
      <3>2. Operands(7) = 1
        BY <3>1 DEF Operands
      <3>3. After = used + 1 + Operands(7)
        BY <1>1 DEF After, WRITE_PINS
      <3> QED
        BY <2>1, <3>2, <3>3
    <2>4. Skipped(packet, After, next)
      <3>1. CASE pin = 2 /\ Data >= 128
        <4>1. next = SkipWaits(After) /\ SkipWaits(After) # -1
          BY <1>3, <3>1
        <4> HIDE DEF next
        <4> QED
          BY <2>1, <2>2, <4>1, SkipFinds
      <3>2. CASE ~(pin = 2 /\ Data >= 128)
        <4>1. next = After
          BY <3>2
        <4> HIDE DEF next
        <4>2. Seconds(After, After) = {}
          BY <2>2 DEF Seconds
        <4> QED
          BY <2>1, <2>2, <4>1, <4>2 DEF Skipped
      <3> QED
        BY <3>1, <3>2
    <2> HIDE DEF pin, good, next
    <2>5. next \in (used + 2)..n /\ next \in Nat
      BY <2>1, <2>2, <2>3, <2>4 DEF Skipped
    <2>6. Z = {used} \cup Seconds(After, next)
      BY <2>1, <2>3, <2>5, SecondsStep
    <2>7. Z \subseteq 0..(next - 1)
      BY <2>1, <2>5 DEF Seconds
    <2>8. MsgOK'
      <3>1. executed' \subseteq 0..(n - 1)
        <4>1. executed' = executed \cup Z
          BY <1>1, <1>3
        <4>2. 0..(next - 1) \subseteq 0..(n - 1)
          BY <2>1, <2>5
        <4> HIDE DEF Z
        <4> QED
          BY <2>1, <2>7, <4>1, <4>2 DEF MsgOK
      <3>2. next \in 0..n
        BY <2>1, <2>5
      <3> HIDE DEF Z, n
      <3> QED
        BY <1>1, <1>3, <2>1, <3>1, <3>2 DEF MsgOK, n
    <2>9. Accounted'
      <3>1. /\ executed \subseteq 0..(used - 1)
            /\ Starts(packet) = executed \cup StartsFrom(packet, used)
            /\ response_cnt = SumFunctionOnSet(f, executed)
        BY <2>1, <2>2 DEF Accounted
      <3>2. executed' \subseteq 0..(next - 1)
        <4>1. executed' = executed \cup Z
          BY <1>1, <1>3
        <4>2. 0..(used - 1) \subseteq 0..(next - 1)
          BY <2>1, <2>5
        <4> HIDE DEF Z
        <4> QED
          BY <2>7, <3>1, <4>1, <4>2
      <3>3. StartsFrom(packet, used) = {used} \cup StartsFrom(packet, After)
        <4>1. EndOf(packet, used) <= n
          BY <2>1, <2>2
        <4> QED
          BY <2>1, <2>2, <4>1, StartsRecursion
      <3>4. StartsFrom(packet, After) = Seconds(After, next) \cup StartsFrom(packet, next)
        BY <2>4 DEF Skipped
      <3>5. Starts(packet) = executed' \cup StartsFrom(packet, next)
        BY <1>1, <1>3, <2>6, <3>1, <3>3, <3>4
      <3>6. \A t \in 0..(n - 1) : f[t] = ResponseSize(packet[t + 1]) /\ f[t] \in Nat
        <4>1. \A t \in 0..(n - 1) : packet[t + 1] \in Byte
          BY <2>1, PacketBytes
        <4>2. \A t \in 0..(n - 1) : ResponseSize(packet[t + 1]) \in Nat
          BY <4>1, CommandSizes
        <4> QED
          BY <4>2 DEF ResponseTo
      <3>7. ResponseSize(7) = 0 /\ ResponseSize(16) = 0
        <4>1. 7 \in {TAP_RESET, WRITE_PINS} /\ 16 \in WAIT_CYCLES
          BY DEF WRITE_PINS, WAIT_CYCLES
        <4> QED
          BY <4>1, NoResponse
      <3>8. \A t \in Z : f[t] = 0
        <4>1. ASSUME NEW t \in Z
              PROVE  f[t] = 0
          <5>1. t \in 0..(n - 1)
            BY <2>1, <2>5, <2>7
          <5>2. packet[t + 1] = 7 \/ packet[t + 1] = 16
            BY <1>1, <2>2, <2>4, <2>6 DEF Skipped, WRITE_PINS
          <5> HIDE DEF f
          <5> QED
            BY <3>6, <3>7, <5>1, <5>2
        <4> QED
          BY <4>1
      <3>9. IsFiniteSet(executed) /\ IsFiniteSet(Z)
        <4>1. used - 1 \in Int /\ next - 1 \in Int /\ 0 \in Int
          BY <2>1, <2>5
        <4>2. IsFiniteSet(0..(used - 1)) /\ IsFiniteSet(0..(next - 1))
          BY <4>1, FS_Interval
        <4> HIDE DEF Z
        <4> QED
          BY <2>7, <3>1, <4>2, FS_Subset
      <3>10. \A t \in executed : f[t] \in Nat
        BY <2>1, <3>6 DEF MsgOK
      <3> HIDE DEF f, Z
      <3>11. SumFunctionOnSet(f, executed \cup Z) = SumFunctionOnSet(f, executed)
        BY <3>8, <3>9, <3>10, SumAddNothing
      <3>12. response_cnt' = SumFunctionOnSet(f, executed') /\ packet' = packet /\ used' = next
        BY <1>1, <1>3, <3>1, <3>11 DEF Z
      <3> QED
        BY <3>2, <3>5, <3>12 DEF Accounted, f
    <2>10. Still /\ UNCHANGED <<initialized, sw_mode>> /\ hardware_mode' \in BOOLEAN
      BY <1>1 DEF NoShift, Still, handlerVars, IInv, HandlerOK
    <2>11. ~lapsed /\ ~faulted => chains[active].scan = "Done"
      <3>1. active \in Chain
        BY DEF IInv, HandlerOK
      <3> QED
        BY <1>1, <3>1, Rest
    <2> QED
      BY <2>8, <2>9, <2>10, <2>11, StillInv
  <1> QED
    BY <1>2, <1>3

-----------------------------------------------------------------------------
(* TAP_RESET and TAP_STATE commands. *)

\* The state such a command asks for.
Asked == IF Cmd = TAP_RESET THEN tlr ELSE Cmd % 16

\* It is one, and the command has no operands.
LEMMA AskedState ==
    ASSUME MsgOK, Cmd \in TAP_STATE \cup {TAP_RESET}
    PROVE  /\ Cmd \in Byte /\ Complete
           /\ Asked \in TapState
           /\ Cmd \notin SCAN
           /\ \A t \in TapState : Cmd = 32 + t => Asked = t
  <1>1. Cmd \in Byte
    BY CommandsAreBytes
  <1>2. Operands(Cmd) = 0
    <2>1. /\ Cmd \notin {4, 5} /\ Cmd # 25 /\ Cmd \notin 0..17 \ {4, 5}
          /\ Cmd \notin WRITE_SCAN \cup READ_WRITE_SCAN
      BY DEF WRITE_SCAN, READ_WRITE_SCAN, TAP_STATE, TAP_RESET
    <2> HIDE DEF Cmd
    <2> QED
      BY <2>1 DEF Operands
  <1>3. Complete
    <2>1. used < Len(packet) /\ Len(packet) \in Nat /\ used \in Nat
      BY <1>1, NextCommand, PacketType
    <2> QED
      BY <1>2, <2>1 DEF Complete
  <1>4. Cmd \notin SCAN
    BY DEF SCAN, WRITE_SCAN, READ_SCAN, READ_WRITE_SCAN, TAP_STATE, TAP_RESET
  <1>5. CASE Cmd = TAP_RESET
    <2>1. Asked = tlr
      BY <1>5 DEF Asked
    <2>2. \A t \in TapState : Cmd # 32 + t
      BY <1>5 DEF TAP_RESET, TapState
    <2> QED
      BY <1>1, <1>3, <1>4, <2>1, <2>2 DEF tlr, TapState
  <1>6. CASE Cmd # TAP_RESET
    <2>1. Cmd \in TAP_STATE /\ Asked = Cmd % 16
      BY <1>6 DEF Asked
    <2>2. Cmd % 16 \in TapState /\ Cmd = 32 + (Cmd % 16)
      BY <2>1, TapNumbers
    <2>3. \A t \in TapState : Cmd = 32 + t => Asked = t
      <3> DEFINE a == Cmd % 16
      <3>1. a \in TapState /\ Asked = a /\ Cmd = 32 + a
        BY <2>1, <2>2
      <3> HIDE DEF a, Cmd
      <3> QED
        BY <3>1 DEF TapState
    <2> QED
      BY <1>1, <1>3, <1>4, <2>1, <2>2, <2>3
  <1> QED
    BY <1>5, <1>6

\* As long as no rule is broken it finds no scan running.
LEMMA TapFindsRest ==
    ASSUME IInv, TapCommand, ~lapsed', ~faulted'
    PROVE  \A c \in Chain : chains[c].scan = "Done" /\ line[c] = <<>>
  <1>1. /\ Cmd \in TAP_STATE \cup {TAP_RESET}
        /\ lapsed' = (lapsed \/ (Asked \in Shift /\ Asked = Tap /\ chains[active].scan = "Run"))
    BY DEF TapCommand, Asked
  <1>2. ~faulted
    BY DEF TapCommand, SetTapState
  <1>3. ~lapsed /\ ~(Asked \in Shift /\ Asked = Tap /\ chains[active].scan = "Run")
    BY <1>1
  <1>4. /\ Cmd \in Byte /\ Complete /\ Cmd \notin SCAN
        /\ \A t \in TapState : Cmd = 32 + t => Asked = t
    BY <1>1, AskedState DEF IInv
  <1>5. used < Len(packet) /\ Cmd = packet[used + 1] /\ ~CutShort(packet, used)
    BY <1>4, NextCommand DEF IInv
  <1>6. /\ chains[active].scan = "Run" => Running
        /\ \A c \in Chain : chains[c].scan = "Done" => line[c] = <<>>
        /\ \A c \in Chain : c # active => chains[c].scan = "Done"
    BY <1>2, <1>3 DEF IInv, ScanInv
  <1>7. chains[active].scan \in {"Done", "Run"} /\ Tap \in TapState
    BY DEF IInv, HandlerOK, ChainRecord, Tap
  <1>8. chains[active].scan # "Run"
    <2>1. SUFFICES ASSUME Running PROVE ~(Asked \notin Shift \/ Asked # Tap)
      BY <1>3, <1>6
    <2>2. Tap \in Shift /\ Cmd = 32 + Tap
      BY <1>4, <1>5, <2>1 DEF Running, Tap
    <2> QED
      BY <1>4, <1>7, <2>2
  <1> QED
    BY <1>6, <1>7, <1>8

\* The handler records the state only when the TAP is in it, except in hardware
\* mode.
LEMMA TapCommandInv ==
    ASSUME IInv, TapCommand
    PROVE  IInv'
  <1> DEFINE s == Asked
  <1>1. /\ Cmd \in TAP_STATE \cup {TAP_RESET}
        /\ \E ok \in BOOLEAN : SetTapState(s, ok) /\ IF ok THEN Proceed(After, 0) ELSE Refuse
        /\ lapsed' = (lapsed \/ (s \in Shift /\ s = Tap /\ chains[active].scan = "Run"))
        /\ UNCHANGED <<hardware_mode, initialized, sw_mode, active>>
    BY DEF TapCommand, Asked
  <1>2. PICK ok \in BOOLEAN : SetTapState(s, ok) /\ IF ok THEN Proceed(After, 0) ELSE Refuse
    BY <1>1
  <1>3. Complete /\ s \in TapState
    BY <1>1, AskedState DEF IInv
  <1> HIDE DEF s
  <1> DEFINE asked == sw_mode \/ s = tlr
             moves == asked /\ ok /\ s # hw[active] /\ (s = tlr \/ hw[active] # Lost)
  <1>4. /\ chains' = IF ok THEN [chains EXCEPT ![active].tap = s] ELSE chains
        /\ hw' = IF moves THEN [hw EXCEPT ![active] = s] ELSE hw
        /\ line' = IF ~ok THEN [c \in Chain |-> <<>>]
                   ELSE IF moves THEN [line EXCEPT ![active] = <<>>] ELSE line
        /\ finished' = IF moves THEN line[active] ELSE <<>>
        /\ faulted' = (faulted \/ ~ok)
    BY <1>2 DEF SetTapState
  <1>5. /\ active \in Chain /\ chains \in [Chain -> ChainRecord]
        /\ hw \in [Chain -> TapState \cup {Lost}] /\ line \in [Chain -> Seq(Piece)]
        /\ lapsed \in BOOLEAN /\ faulted \in BOOLEAN /\ sw_mode \in BOOLEAN
    BY DEF IInv, HandlerOK, WireOK
  <1>6. MsgOK' /\ Accounted'
    <2>1. CASE ok
      BY <1>1, <1>2, <1>3, <2>1, ProceedSilently
    <2>2. CASE ~ok
      BY <1>2, <2>2, RefuseAccounts
    <2> QED
      BY <2>1, <2>2
  <1>7. /\ chains' \in [Chain -> ChainRecord]
        /\ \A c \in Chain : chains'[c].scan = chains[c].scan
        /\ \A c \in Chain : chains'[c].tap = IF ok /\ c = active THEN s ELSE chains[c].tap
    <2> DEFINE new == [chains[active] EXCEPT !.tap = s]
    <2>1. chains[active] \in ChainRecord
      BY <1>5
    <2>2. new \in ChainRecord /\ new.tap = s /\ new.scan = chains[active].scan
      BY <1>3, <2>1 DEF ChainRecord
    <2>3. chains' = IF ok THEN [chains EXCEPT ![active] = new] ELSE chains
      BY <1>4, <1>5
    <2> HIDE DEF new
    <2> QED
      BY <1>5, <2>2, <2>3
  <1>8. HandlerOK'
    BY <1>1, <1>7 DEF IInv, HandlerOK
  <1>9. WireOK'
    <2>1. hw' \in [Chain -> TapState \cup {Lost}]
      BY <1>3, <1>4, <1>5
    <2>2. <<>> \in Seq(Piece)
      OBVIOUS
    <2>3. line' \in [Chain -> Seq(Piece)] /\ finished' \in Seq(Piece)
      BY <1>4, <1>5, <2>2
    <2>4. lapsed' \in BOOLEAN /\ faulted' \in BOOLEAN
      BY <1>1, <1>4, <1>5
    <2> QED
      BY <2>1, <2>3, <2>4 DEF WireOK
  <1>10. TapTracked'
    <2>1. SUFFICES ASSUME sw_mode', ~lapsed', NEW c \in Chain
                   PROVE  hw'[c] = chains'[c].tap \/ (c # 0 /\ hw'[c] = Lost)
      BY DEF TapTracked
    <2>2. sw_mode /\ ~lapsed
      BY <1>1, <2>1
    <2>3. \A e \in Chain : hw[e] = chains[e].tap \/ (e # 0 /\ hw[e] = Lost)
      BY <2>2 DEF IInv, TapTracked
    <2>4. CASE c = active /\ moves
      BY <1>4, <1>5, <1>7, <2>4
    <2>5. CASE c = active /\ ~moves /\ ok
      <3>1. hw'[c] = hw[c] /\ chains'[c].tap = s
        BY <1>4, <1>7, <2>5
      <3>2. s = hw[c] \/ hw[c] = Lost
        BY <2>2, <2>5
      <3>3. c # 0 \/ hw[c] # Lost
        <4>1. chains[c].tap \in TapState
          BY <1>5 DEF ChainRecord
        <4>2. chains[c].tap # Lost
          BY <4>1 DEF TapState, Lost
        <4> QED
          BY <2>3, <4>2
      <3> QED
        BY <3>1, <3>2, <3>3
    <2>6. CASE c # active \/ ~ok
      <3>1. hw'[c] = hw[c] /\ chains'[c].tap = chains[c].tap
        BY <1>4, <1>5, <1>7, <2>6
      <3> QED
        BY <2>3, <3>1
    <2> QED
      BY <2>4, <2>5, <2>6
  <1>11. ASSUME ~lapsed', ~faulted', NEW c \in Chain
         PROVE  chains'[c].scan = "Done" /\ line'[c] = <<>>
    <2>1. chains[c].scan = "Done" /\ line[c] = <<>> /\ ok
      BY <1>4, <1>11, TapFindsRest
    <2> HIDE DEF moves
    <2> QED
      BY <1>4, <1>5, <1>7, <2>1
  <1> QED
    BY <1>6, <1>8, <1>9, <1>10, <1>11, QuietInv

-----------------------------------------------------------------------------
(* Scans. *)

\* The postfix, if there is one and the scan ends.
Ended(padding, ends) == IF ends /\ padding["post"] > 0 THEN <<"post">> ELSE <<>>

\* Two pieces put together.
LEMMA TwoPieces ==
    ASSUME NEW a \in Piece, NEW b \in Piece
    PROVE  <<a>> \o <<b>> = <<a, b>>
  <1> DEFINE x == <<a>>
             y == <<b>>
             z == <<a, b>>
  <1>1. /\ x \in Seq(Piece) /\ y \in Seq(Piece) /\ z \in Seq(Piece)
        /\ Len(x) = 1 /\ x[1] = a /\ Len(y) = 1 /\ y[1] = b
        /\ Len(z) = 2 /\ z[1] = a /\ z[2] = b
    OBVIOUS
  <1> HIDE DEF x, y, z
  <1>2. /\ x \o y \in Seq(Piece)
        /\ Len(x \o y) = Len(x) + Len(y)
        /\ \A i \in 1..(Len(x) + Len(y)) :
             (x \o y)[i] = IF i <= Len(x) THEN x[i] ELSE y[i - Len(x)]
    BY <1>1, ConcatProperties
  <1> DEFINE w == x \o y
  <1>3. w \in Seq(Piece) /\ Len(w) = 2
    BY <1>1, <1>2
  <1>4. \A i \in 1..2 : w[i] = IF i <= 1 THEN x[i] ELSE y[i - 1]
    BY <1>1, <1>2
  <1> HIDE DEF w
  <1>5. w[1] = x[1] /\ w[2] = y[1]
    BY <1>4
  <1>6. w = z
    BY <1>1, <1>3, <1>5, SeqEqual
  <1> QED
    BY <1>6 DEF w, x, y, z

\* The pieces are sequences of pieces.
LEMMA PieceTypes ==
    ASSUME NEW padding, NEW ends
    PROVE  /\ Begun(padding) \in Seq(Piece)
           /\ Ended(padding, ends) \in Seq(Piece)
           /\ Begun(padding) # <<>>
           /\ Begun(padding)[Len(Begun(padding))] = "data"
           /\ <<"data">> \o Ended(padding, ends) \in Seq(Piece)
           /\ (<<"data">> \o Ended(padding, ends))[1] = "data"
           /\ Tail(<<"data">> \o Ended(padding, ends)) = Ended(padding, ends)
           /\ Begun(padding) \o Ended(padding, ends) # <<>>
  <1>1. Begun(padding) = <<"pre", "data">> \/ Begun(padding) = <<"data">>
    <2>1. <<"pre">> \o <<"data">> = <<"pre", "data">>
      BY TwoPieces DEF Piece
    <2>2. <<>> \o <<"data">> = <<"data">>
      OBVIOUS
    <2> QED
      BY <2>1, <2>2 DEF Begun
  <1>2. Ended(padding, ends) = <<"post">> \/ Ended(padding, ends) = <<>>
    BY DEF Ended
  <1>3. /\ <<"pre", "data">> \in Seq(Piece) /\ <<"data">> \in Seq(Piece)
        /\ <<"post">> \in Seq(Piece) /\ <<>> \in Seq(Piece)
    BY DEF Piece
  <1>4. <<"data">> \o <<"post">> = <<"data", "post">> /\ <<"data">> \o <<>> = <<"data">>
    BY <1>3, TwoPieces, ConcatEmptySeq DEF Piece
  <1>5. Begun(padding) \in Seq(Piece) /\ Ended(padding, ends) \in Seq(Piece)
    BY <1>1, <1>2, <1>3
  <1>6. Begun(padding) # <<>> /\ Begun(padding)[Len(Begun(padding))] = "data"
    BY <1>1
  <1>7. /\ <<"data">> \o Ended(padding, ends) \in Seq(Piece)
        /\ (<<"data">> \o Ended(padding, ends))[1] = "data"
        /\ Tail(<<"data">> \o Ended(padding, ends)) = Ended(padding, ends)
    <2>1. CASE Ended(padding, ends) = <<"post">>
      <3>1. <<"data">> \o Ended(padding, ends) = <<"data", "post">>
        BY <1>4, <2>1
      <3>2. <<"data", "post">> \in Seq(Piece)
        BY DEF Piece
      <3>3. Tail(<<"data", "post">>) = <<"post">> /\ <<"data", "post">>[1] = "data"
        OBVIOUS
      <3> QED
        BY <2>1, <3>1, <3>2, <3>3
    <2>2. CASE Ended(padding, ends) = <<>>
      <3>1. <<"data">> \o Ended(padding, ends) = <<"data">>
        BY <1>4, <2>2
      <3>2. Tail(<<"data">>) = <<>>
        OBVIOUS
      <3> QED
        BY <1>3, <2>2, <3>1, <3>2
    <2> QED
      BY <1>2, <2>1, <2>2
  <1>8. Begun(padding) \o Ended(padding, ends) # <<>>
    <2> DEFINE b == Begun(padding)
               e == Ended(padding, ends)
    <2>1. b \in Seq(Piece) /\ e \in Seq(Piece) /\ Len(b) # 0
      BY <1>5, <1>6
    <2> HIDE DEF b, e
    <2>2. Len(b \o e) = Len(b) + Len(e) /\ Len(b) \in Nat /\ Len(e) \in Nat
      BY <2>1
    <2>3. Len(b \o e) # 0
      BY <2>1, <2>2
    <2>4. b \o e # <<>>
      BY <2>3
    <2> QED
      BY <2>4 DEF b, e
  <1> QED
    BY <1>5, <1>6, <1>7, <1>8

\* What a call of JTAG_shift drives.
LEMMA SegmentsAre ==
    ASSUME NEW end, chains[active].scan \in {"Done", "Run"}
    PROVE  LET padding == chains[active].padding[Kind]
               ended == Ended(padding, end # Tap)
           IN  /\ chains[active].scan = "Done" => Segments(end) = Begun(padding) \o ended
               /\ chains[active].scan = "Run" => Segments(end) = <<"data">> \o ended
  <1> DEFINE padding == chains[active].padding[Kind]
             ended == Ended(padding, end # Tap)
  <1>1. CASE chains[active].scan = "Done"
    <2>1. Segments(end) = (IF padding["pre"] > 0 THEN <<"pre">> ELSE <<>>) \o <<"data">> \o ended
      BY <1>1 DEF Segments, Ended
    <2> HIDE DEF padding, ended
    <2>2. Segments(end) = Begun(padding) \o ended
      BY <2>1 DEF Begun
    <2> QED
      BY <1>1, <2>2 DEF padding, ended
  <1>2. CASE chains[active].scan = "Run"
    <2>1. Segments(end) = <<>> \o <<"data">> \o ended
      BY <1>2 DEF Segments, Ended
    <2>2. <<>> \o <<"data">> = <<"data">>
      OBVIOUS
    <2> HIDE DEF padding, ended
    <2>3. Segments(end) = <<"data">> \o ended
      BY <2>1, <2>2
    <2> QED
      BY <1>2, <2>3 DEF padding, ended
  <1> QED
    BY <1>1, <1>2

\* As long as no rule is broken and no call failed, a scan has driven its
\* prefix, data and, if it ends, its postfix.
LEMMA DrivenIs ==
    ASSUME IInv, NEW end, ~lapsed, ~faulted, hw[active] # Lost
    PROVE  LET padding == chains[active].padding[Kind]
           IN  Driven(Segments(end)) = Begun(padding) \o Ended(padding, end # Tap)
  <1> DEFINE padding == chains[active].padding[Kind]
             b == Begun(padding)
             e == Ended(padding, end # Tap)
             from == IF hw[active] = Tap THEN line[active] ELSE <<>>
  <1>1. chains[active].scan \in {"Done", "Run"} /\ active \in Chain
    BY DEF IInv, HandlerOK, ChainRecord
  <1>2. /\ chains[active].scan = "Done" => Segments(end) = b \o e
        /\ chains[active].scan = "Run" => Segments(end) = <<"data">> \o e
    BY <1>1, SegmentsAre
  <1>3. Driven(Segments(end)) = Merge(from, Segments(end))
    BY DEF Driven
  <1>4. /\ b \in Seq(Piece) /\ e \in Seq(Piece)
        /\ b # <<>> /\ b[Len(b)] = "data"
        /\ (<<"data">> \o e)[1] = "data" /\ Tail(<<"data">> \o e) = e
    BY PieceTypes
  <1>5. CASE chains[active].scan = "Done"
    <2>1. line[active] = <<>>
      BY <1>1, <1>5 DEF IInv, ScanInv
    <2>2. from = <<>>
      BY <2>1
    <2> HIDE DEF padding, b, e, from
    <2>3. Driven(Segments(end)) = Merge(<<>>, b \o e)
      BY <1>2, <1>3, <1>5, <2>2
    <2>4. Merge(<<>>, b \o e) = <<>> \o (b \o e)
      BY DEF Merge
    <2>5. b \o e \in Seq(Piece)
      BY <1>4
    <2>6. <<>> \o (b \o e) = b \o e
      BY <2>5
    <2>7. Driven(Segments(end)) = b \o e
      BY <2>3, <2>4, <2>6
    <2> QED
      BY <2>7 DEF b, e, padding
  <1>6. CASE chains[active].scan = "Run"
    <2>1. Running
      BY <1>6 DEF IInv, ScanInv
    <2>2. from = b
      BY <2>1 DEF Running, Tap
    <2> HIDE DEF padding, b, e, from
    <2>3. Driven(Segments(end)) = Merge(b, <<"data">> \o e)
      BY <1>2, <1>3, <1>6, <2>2
    <2>4. Merge(b, <<"data">> \o e) = b \o e
      BY <1>4 DEF Merge
    <2>5. Driven(Segments(end)) = b \o e
      BY <2>3, <2>4
    <2> QED
      BY <2>5 DEF b, e, padding
  <1> QED
    BY <1>1, <1>5, <1>6

\* What is driven is made of pieces, whatever happened.
LEMMA DrivenType ==
    ASSUME HandlerOK, WireOK, NEW end
    PROVE  Driven(Segments(end)) \in Seq(Piece)
  <1> DEFINE padding == chains[active].padding[Kind]
             b == Begun(padding)
             e == Ended(padding, end # Tap)
             from == IF hw[active] = Tap THEN line[active] ELSE <<>>
             segments == Segments(end)
  <1>1. chains[active].scan \in {"Done", "Run"} /\ active \in Chain
    BY DEF HandlerOK, ChainRecord
  <1>2. segments = b \o e \/ segments = <<"data">> \o e
    BY <1>1, SegmentsAre
  <1>3. b \in Seq(Piece) /\ e \in Seq(Piece) /\ <<"data">> \o e \in Seq(Piece)
        /\ b \o e # <<>> /\ (<<"data">> \o e)[1] = "data"
    BY PieceTypes
  <1>4. from \in Seq(Piece)
    <2>1. line[active] \in Seq(Piece) /\ <<>> \in Seq(Piece)
      BY <1>1 DEF WireOK
    <2> QED
      BY <2>1
  <1>5. Driven(segments) = Merge(from, segments)
    BY DEF Driven
  <1> HIDE DEF padding, b, e, from, segments
  <1>6. segments \in Seq(Piece) /\ segments # <<>>
    <2>1. b \o e \in Seq(Piece)
      BY <1>3
    <2>2. <<"data">> \o e # <<>>
      <3>1. Len(<<"data">> \o e) = 1 + Len(e) /\ Len(e) \in Nat
        BY <1>3
      <3>2. Len(<<"data">> \o e) # 0
        BY <3>1
      <3> QED
        BY <3>2
    <2> QED
      BY <1>2, <1>3, <2>1, <2>2
  <1>7. from \o segments \in Seq(Piece) /\ from \o Tail(segments) \in Seq(Piece)
    <2>1. Tail(segments) \in Seq(Piece)
      BY <1>6
    <2> QED
      BY <1>4, <1>6, <2>1
  <1>8. Merge(from, segments) \in Seq(Piece)
    BY <1>7 DEF Merge
  <1> QED
    BY <1>5, <1>8 DEF segments

\* The scans that may follow a scan are scans.
LEMMA KindsAreScans ==
    ASSUME NEW cmd \in SCAN
    PROVE  KindOfScan(cmd) \in SUBSET SCAN
  <1>1. cmd \in WRITE_SCAN \/ cmd \in READ_SCAN \/ cmd \in READ_WRITE_SCAN
    BY DEF SCAN
  <1>2. WRITE_SCAN \subseteq SCAN /\ READ_SCAN \subseteq SCAN /\ READ_WRITE_SCAN \subseteq SCAN
    BY DEF SCAN
  <1> QED
    BY <1>1, <1>2 DEF KindOfScan

\* JTAG_shift succeeds: if the scan does not end the handler is in the middle of
\* it, otherwise the chain is at rest.
LEMMA ShiftDoneInv ==
    ASSUME IInv, NEW look, Determined(After, look), ShiftDone(look.end),
           used' = look.used, packet' = packet,
           MsgOK', Accounted', UNCHANGED <<hardware_mode, initialized, sw_mode, active>>
    PROVE  IInv'
  <1> DEFINE end == look.end
             driven == IF hw[active] = Lost \/ faulted THEN <<>> ELSE Driven(Segments(end))
             state == IF end = Tap THEN "Run" ELSE "Done"
             pad == chains[active].padding[Kind]
  <1>1. /\ Tap \in Shift
        /\ chains' = [chains EXCEPT ![active].tap = end, ![active].scan = state]
        /\ hw' = [hw EXCEPT ![active] = IF @ = Lost THEN Lost ELSE end]
        /\ line' = [line EXCEPT ![active] = IF end = Tap THEN driven ELSE <<>>]
        /\ finished' = IF end = Tap THEN <<>> ELSE driven
        /\ lapsed' = lapsed /\ faulted' = faulted
    BY DEF ShiftDone, historyVars
  <1>2. end \in TapState
    BY DEF Determined
  <1>3. driven \in Seq(Piece)
    <2>1. Driven(Segments(end)) \in Seq(Piece)
      BY DrivenType DEF IInv
    <2>2. <<>> \in Seq(Piece)
      OBVIOUS
    <2> QED
      BY <2>1, <2>2
  <1>4. /\ active \in Chain /\ chains \in [Chain -> ChainRecord]
        /\ hw \in [Chain -> TapState \cup {Lost}] /\ line \in [Chain -> Seq(Piece)]
    BY DEF IInv, HandlerOK, WireOK
  <1> HIDE DEF driven
  <1>5. /\ chains' \in [Chain -> ChainRecord]
        /\ chains'[active].tap = end /\ chains'[active].scan = state
        /\ chains'[active].padding = chains[active].padding
        /\ \A c \in Chain : c # active => chains'[c] = chains[c]
    <2> DEFINE new == [chains[active] EXCEPT !.tap = end, !.scan = state]
    <2>1. chains[active] \in ChainRecord /\ state \in {"Done", "Run"}
      BY <1>4
    <2> HIDE DEF end, state
    <2>2. /\ new \in ChainRecord /\ new.tap = end /\ new.scan = state
          /\ new.padding = chains[active].padding
      BY <1>2, <2>1 DEF ChainRecord
    <2>3. chains' = [chains EXCEPT ![active] = new]
      BY <1>1, <1>4
    <2> HIDE DEF new
    <2> QED
      BY <1>4, <2>2, <2>3
  <1> HIDE DEF end
  <1>6. HandlerOK'
    BY <1>5 DEF IInv, HandlerOK
  <1>7. WireOK'
    <2>1. <<>> \in Seq(Piece)
      OBVIOUS
    <2>2. hw' \in [Chain -> TapState \cup {Lost}]
      BY <1>1, <1>2, <1>4
    <2>3. line' \in [Chain -> Seq(Piece)] /\ finished' \in Seq(Piece)
      BY <1>1, <1>3, <1>4, <2>1
    <2> QED
      BY <1>1, <2>2, <2>3 DEF IInv, WireOK
  <1>8. TapTracked'
    <2>1. SUFFICES ASSUME sw_mode', ~lapsed', NEW c \in Chain
                   PROVE  hw'[c] = chains'[c].tap \/ (c # 0 /\ hw'[c] = Lost)
      BY DEF TapTracked
    <2>2. \A e \in Chain : hw[e] = chains[e].tap \/ (e # 0 /\ hw[e] = Lost)
      BY <1>1, <2>1 DEF IInv, TapTracked
    <2>3. CASE c # active
      BY <1>1, <1>4, <1>5, <2>2, <2>3
    <2>4. CASE c = active
      <3>1. hw'[c] = IF hw[c] = Lost THEN Lost ELSE end
        BY <1>1, <1>4, <2>4
      <3>2. c # 0 \/ hw[c] # Lost
        <4>1. chains[c].tap \in TapState
          BY <1>4 DEF ChainRecord
        <4>2. chains[c].tap # Lost
          BY <4>1 DEF TapState, Lost
        <4> QED
          BY <2>2, <4>2
      <3> QED
        BY <1>5, <2>4, <3>1, <3>2
    <2> QED
      BY <2>3, <2>4
  <1>9. ScanInv'
    <2>1. SUFFICES ASSUME ~lapsed, ~faulted
                   PROVE  ScanInv'
      BY <1>1 DEF ScanInv
    <2>2. /\ \A c \in Chain : chains[c].scan = "Done" => line[c] = <<>>
          /\ \A c \in Chain : c # active => chains[c].scan = "Done"
      BY <2>1 DEF IInv, ScanInv
    <2>3. \A c \in Chain : c # active => chains'[c].scan = "Done" /\ line'[c] = <<>>
      BY <1>1, <1>4, <1>5, <2>2
    <2>4. CASE end # Tap
      <3>1. chains'[active].scan = "Done" /\ line'[active] = <<>>
        BY <1>1, <1>4, <1>5, <2>4
      <3> QED
        BY <2>3, <3>1 DEF ScanInv
    <2>5. CASE end = Tap
      <3>1. chains'[active].scan = "Run" /\ chains'[active].tap = Tap /\ line'[active] = driven
        BY <1>1, <1>4, <1>5, <2>5
      <3>2. Tap' = Tap /\ Kind' = Kind
        BY <3>1 DEF Tap, Kind
      <3>3. \/ hw'[active] = Lost /\ line'[active] = <<>>
            \/ hw'[active] = Tap /\ line'[active] = Begun(pad)
        <4>1. CASE hw[active] = Lost
          <5>1. driven = <<>> /\ hw'[active] = Lost
            BY <1>1, <1>4, <4>1 DEF driven
          <5> QED
            BY <3>1, <5>1
        <4>2. CASE hw[active] # Lost
          <5>1. driven = Driven(Segments(end)) /\ hw'[active] = Tap
            BY <1>1, <1>4, <2>1, <2>5, <4>2 DEF driven
          <5>2. Driven(Segments(end)) = Begun(pad) \o Ended(pad, end # Tap)
            BY <2>1, <4>2, DrivenIs
          <5>3. Ended(pad, end # Tap) = <<>>
            BY <2>5 DEF Ended
          <5>4. Begun(pad) \in Seq(Piece)
            BY PieceTypes
          <5>5. Begun(pad) \o <<>> = Begun(pad)
            <6> DEFINE b == Begun(pad)
            <6> HIDE DEF b
            <6>1. b \in Seq(Piece)
              BY <5>4 DEF b
            <6>2. b \o <<>> = b
              BY <6>1, ConcatEmptySeq
            <6> QED
              BY <6>2 DEF b
          <5>6. line'[active] = Begun(pad)
            <6> HIDE DEF pad
            <6> QED
              BY <3>1, <5>1, <5>2, <5>3, <5>5
          <5> QED
            BY <5>1, <5>6
        <4> QED
          BY <4>1, <4>2
      <3>4. used' < Len(packet') =>
              CutShort(packet', used') \/ packet'[used' + 1] \in SCAN \cup {32 + Tap}
        BY <1>1, <2>5 DEF Determined, end
      <3>5. chains'[active].padding[Kind] = pad
        BY <1>5
      <3>6. Running'
        <4> HIDE DEF pad
        <4>1. \/ hw'[active'] = Lost /\ line'[active'] = <<>>
              \/ hw'[active'] = chains'[active'].tap /\ line'[active'] = Begun(chains'[active'].padding[Kind'])
          BY <3>1, <3>2, <3>3, <3>5
        <4>2. chains'[active'].tap \in Shift
          BY <1>1, <3>1
        <4>3. used' < Len(packet') =>
                CutShort(packet', used') \/ packet'[used' + 1] \in SCAN \cup {32 + chains'[active'].tap}
          BY <3>1, <3>4
        <4> QED
          BY <4>1, <4>2, <4>3 DEF Running
      <3> QED
        BY <2>3, <3>1, <3>6 DEF ScanInv
    <2> QED
      BY <2>4, <2>5
  <1> QED
    BY <1>6, <1>7, <1>8, <1>9 DEF IInv

\* JTAG_shift fails: the TAP and what the handler knows of it stay.
LEMMA ShiftFailsInv ==
    ASSUME IInv, NEW end, NEW n, ShiftFails(end, n), Refuse,
           UNCHANGED <<hardware_mode, initialized, sw_mode, active>>
    PROVE  IInv'
  <1>1. PICK state \in {"Done", "Run"} : chains' = [chains EXCEPT ![active].scan = state]
    BY DEF ShiftFails
  <1>2. /\ line' = [c \in Chain |-> <<>>] /\ finished' = <<>> /\ faulted' = TRUE
        /\ UNCHANGED <<hw, lapsed>>
    BY DEF ShiftFails
  <1>3. active \in Chain /\ chains \in [Chain -> ChainRecord]
    BY DEF IInv, HandlerOK
  <1>4. chains' \in [Chain -> ChainRecord] /\ \A c \in Chain : chains'[c].tap = chains[c].tap
    <2> DEFINE new == [chains[active] EXCEPT !.scan = state]
    <2>1. chains[active] \in ChainRecord
      BY <1>3
    <2>2. new \in ChainRecord /\ new.tap = chains[active].tap
      BY <2>1 DEF ChainRecord
    <2>3. chains' = [chains EXCEPT ![active] = new]
      BY <1>1, <1>3
    <2> HIDE DEF new
    <2> QED
      BY <1>3, <2>2, <2>3
  <1>5. HandlerOK'
    BY <1>4 DEF IInv, HandlerOK
  <1>6. WireOK'
    BY <1>2 DEF IInv, WireOK
  <1>7. TapTracked'
    BY <1>2, <1>4 DEF IInv, TapTracked
  <1>8. MsgOK' /\ Accounted'
    BY RefuseAccounts
  <1> QED
    BY <1>2, <1>5, <1>6, <1>7, <1>8, QuietInv

\* What a scan that reaches the driver has found.
LEMMA ScanLooks ==
    ASSUME IInv, Cmd \in SCAN, Complete, determine_shift_end_state(KindOfScan(Cmd), After).ok
    PROVE  Determined(After, determine_shift_end_state(KindOfScan(Cmd), After))
  <1>1. MsgOK /\ Cmd \in Byte /\ hardware_mode \in BOOLEAN
    BY CommandsAreBytes DEF IInv, HandlerOK
  <1>2. packet \in Seq(Byte) /\ After \in 0..Len(packet)
    BY <1>1, PacketType, NextCommand
  <1>3. Tap \in TapState
    BY DEF IInv, HandlerOK, ChainRecord, Tap
  <1>4. KindOfScan(Cmd) \in SUBSET SCAN
    BY KindsAreScans
  <1> QED
    BY <1>1, <1>2, <1>3, <1>4, DetermineFinds

\* A scan either reaches the driver and succeeds, or ends its message.
LEMMA ScanStepInv ==
    ASSUME IInv, Scan
    PROVE  IInv'
  <1> DEFINE look == determine_shift_end_state(KindOfScan(Cmd), After)
  <1>1. /\ Cmd \in SCAN /\ Complete /\ Fits(ResponseSize(Cmd)) /\ look.ok
        /\ \/ ShiftDone(look.end) /\ Proceed(look.used, ResponseSize(Cmd))
           \/ (\E n \in 0..2 : ShiftFails(look.end, n)) /\ Refuse
        /\ UNCHANGED <<hardware_mode, initialized, sw_mode, active>>
    BY DEF Scan
  <1>2. Determined(After, look)
    BY <1>1, ScanLooks
  <1> HIDE DEF look
  <1>3. CASE ShiftDone(look.end) /\ Proceed(look.used, ResponseSize(Cmd))
    <2>1. look.used \in 0..Len(packet) /\ (look.used = After \/ CutShort(packet, look.used))
      BY <1>2 DEF Determined
    <2>2. MsgOK /\ Accounted /\ Cmd \in Byte
      BY <1>1, CommandsAreBytes DEF IInv
    <2>3. response_cnt + ResponseSize(Cmd) <= MaxDataSize
      BY <1>1 DEF Fits
    <2>4. MsgOK' /\ Accounted'
      BY <1>1, <1>3, <2>1, <2>2, <2>3, ProceedAccounts
    <2>5. used' = look.used /\ packet' = packet
      BY <1>3 DEF Proceed
    <2> QED
      BY <1>1, <1>2, <1>3, <2>4, <2>5, ShiftDoneInv
  <1>4. CASE (\E n \in 0..2 : ShiftFails(look.end, n)) /\ Refuse
    BY <1>1, <1>4, ShiftFailsInv
  <1> QED
    BY <1>1, <1>3, <1>4

-----------------------------------------------------------------------------
(* Theorems. *)

\* A step that changes nothing keeps the invariant.
LEMMA StutterInv ==
    ASSUME IInv, UNCHANGED vars
    PROVE  IInv'
  <1>1. /\ UNCHANGED <<packet, used, response_cnt, executed>>
        /\ UNCHANGED <<hardware_mode, initialized, sw_mode, chains, active>>
        /\ UNCHANGED <<hw, line, finished, lapsed, faulted>>
    BY DEF vars, msgVars, handlerVars, hwVars, historyVars
  <1>2. MsgOK' /\ Accounted'
    BY <1>1 DEF IInv, MsgOK, Accounted
  <1>3. HandlerOK' /\ WireOK' /\ TapTracked'
    BY <1>1 DEF IInv, HandlerOK, WireOK, TapTracked
  <1>4. Running' <=> Running
    BY <1>1 DEF Running, Kind, Tap
  <1>5. ScanInv'
    BY <1>1, <1>4 DEF IInv, ScanInv
  <1> QED
    BY <1>2, <1>3, <1>5 DEF IInv

\* Every step keeps the invariant.
LEMMA StepInv ==
    ASSUME IInv, [Next]_vars
    PROVE  IInv'
  <1>1. CASE \E mode \in BOOLEAN : AgentConfig(mode)
    BY <1>1, AgentConfigInv
  <1>2. CASE JTAG_initialize
    BY <1>2, InitializeInv
  <1>3. CASE \E p \in Packets : Receive(p)
    BY <1>3, ReceiveInv
  <1>4. CASE BadCommand
    BY <1>4, BadCommandInv
  <1>5. CASE OtherCommand
    BY <1>5, OtherCommandInv
  <1>6. CASE SetPadding
    BY <1>6, SetPaddingInv
  <1>7. CASE WritePin
    BY <1>7, WritePinInv
  <1>8. CASE WriteMuxPin
    BY <1>8, WriteMuxPinInv
  <1>9. CASE SelectChain
    BY <1>9, SelectChainInv
  <1>10. CASE ReadStatus
    BY <1>10, ReadStatusInv
  <1>11. CASE WaitCycles
    BY <1>11, WaitCyclesInv
  <1>12. CASE TapCommand
    BY <1>12, TapCommandInv
  <1>13. CASE ScanRefused
    BY <1>13, ScanRefusedInv
  <1>14. CASE Scan
    BY <1>14, ScanStepInv
  <1>15. CASE Answer
    BY <1>15, AnswerInv
  <1>16. CASE UNCHANGED vars
    BY <1>16, StutterInv
  <1> QED
    BY <1>1, <1>2, <1>3, <1>4, <1>5, <1>6, <1>7, <1>8, <1>9, <1>10, <1>11, <1>12, <1>13, <1>14,
       <1>15, <1>16 DEF Next

\* The invariant holds in every state, whatever the packets are.
THEOREM Invariance == Spec => []IInv
  <1>1. Init => IInv
    BY InitInv
  <1>2. IInv /\ [Next]_vars => IInv'
    BY StepInv
  <1> QED
    BY <1>1, <1>2, PTL DEF Spec

\* Every variable keeps to its range: whatever a packet holds, process_jtag_message
\* reads none of it past its end, the look-ahead of determine_shift_end_state and
\* the skipped waits included, and writes no response longer than MAX_DATA_SIZE.
THEOREM TypeCorrect == Spec => []TypeOK
  <1>1. IInv => TypeOK
    BY TypeParts DEF IInv
  <1> QED
    BY <1>1, Invariance, PTL

\* In software mode the handler knows the state of the TAP it works on, driver
\* failures included, as long as the client waits only where the TAP rests.
THEOREM TapIsTracked == Spec => []TapTracked
  <1>1. IInv => TapTracked
    BY DEF IInv
  <1> QED
    BY <1>1, Invariance, PTL

\* What a finished scan has driven.
WholeScan ==
    LET padding == chains[active].padding[Kind]
    IN  finished' = (IF padding["pre"] > 0 THEN <<"pre">> ELSE <<>>)
                      \o <<"data">>
                      \o (IF padding["post"] > 0 THEN <<"post">> ELSE <<>>)

\* A scan that ends was driven as a whole.
LEMMA ScanIsWhole ==
    ASSUME IInv, Scan, finished' # <<>>, ~lapsed', ~faulted'
    PROVE  WholeScan
  <1> DEFINE end == determine_shift_end_state(KindOfScan(Cmd), After).end
             driven == IF hw[active] = Lost \/ faulted THEN <<>> ELSE Driven(Segments(end))
             pad == chains[active].padding[Kind]
  <1>1. ShiftDone(end)
    BY DEF Scan, ShiftFails
  <1>2. /\ finished' = IF end = Tap THEN <<>> ELSE driven
        /\ lapsed' = lapsed /\ faulted' = faulted
    BY <1>1 DEF ShiftDone, historyVars
  <1> HIDE DEF end
  <1>3. end # Tap /\ finished' = driven /\ driven # <<>>
    BY <1>2
  <1>4. hw[active] # Lost /\ driven = Driven(Segments(end))
    BY <1>3
  <1>5. Driven(Segments(end)) = Begun(pad) \o Ended(pad, end # Tap)
    BY <1>2, <1>4, DrivenIs
  <1>6. Ended(pad, end # Tap) = IF pad["post"] > 0 THEN <<"post">> ELSE <<>>
    BY <1>3 DEF Ended
  <1> HIDE DEF driven
  <1>7. finished' = Begun(pad) \o Ended(pad, end # Tap)
    BY <1>3, <1>4, <1>5
  <1> QED
    BY <1>6, <1>7 DEF WholeScan, Begun

\* Every scan drives the prefix of its chain once, its data, and the postfix
\* once, in this order, however the client splits it into commands and messages
\* and whatever determine_shift_end_state has to look over to find its end.
THEOREM ScansArePadded == Spec => PaddedScan
  <1>1. ASSUME IInv, Next, finished' # <<>>, ~lapsed', ~faulted'
        PROVE  WholeScan
    <2>1. CASE \E mode \in BOOLEAN : AgentConfig(mode)
      BY <1>1, <2>1 DEF AgentConfig
    <2>2. CASE JTAG_initialize
      BY <1>1, <2>2 DEF JTAG_initialize
    <2>3. CASE \E p \in Packets : Receive(p)
      BY <1>1, <2>3 DEF Receive
    <2>4. CASE BadCommand \/ OtherCommand \/ SetPadding \/ WritePin \/ SelectChain \/ ReadStatus
               \/ ScanRefused \/ Answer
      <3>1. NoShift
        BY <2>4 DEF BadCommand, OtherCommand, SetPadding, WritePin, SelectChain, ReadStatus,
           ScanRefused, Answer
      <3> QED
        BY <1>1, <3>1 DEF NoShift
    <2>5. CASE WriteMuxPin \/ WaitCycles
      BY <1>1, <2>5 DEF WriteMuxPin, WaitCycles
    <2>6. CASE TapCommand
      <3>1. \A c \in Chain : line[c] = <<>>
        BY <1>1, <2>6, TapFindsRest
      <3>2. line[active] = <<>>
        BY <1>1, <3>1 DEF IInv, HandlerOK
      <3>3. finished' = <<>>
        BY <2>6, <3>2 DEF TapCommand, SetTapState
      <3> QED
        BY <1>1, <3>3
    <2>7. CASE Scan
      BY <1>1, <2>7, ScanIsWhole
    <2> QED
      BY <1>1, <2>1, <2>2, <2>3, <2>4, <2>5, <2>6, <2>7 DEF Next
  <1>2. IInv /\ [Next]_vars =>
          [finished' # <<>> /\ ~lapsed' /\ ~faulted' =>
             LET padding == chains[active].padding[Kind]
             IN  finished' = (IF padding["pre"] > 0 THEN <<"pre">> ELSE <<>>)
                               \o <<"data">>
                               \o (IF padding["post"] > 0 THEN <<"post">> ELSE <<>>)]_vars
    BY <1>1 DEF WholeScan
  <1> QED
    BY <1>2, Invariance, PTL DEF Spec, PaddedScan

\* A message that is answered had each of its commands executed, in whatever way
\* they were looked at before, and its response is as long as they add up to.
THEOREM AnswersAreFull == Spec => AnswerComplete
  <1>1. ASSUME IInv, Answer
        PROVE  /\ executed = Starts(packet)
               /\ response_cnt = SumFunctionOnSet(ResponseTo(packet), Starts(packet))
    <2>1. packet # <<>> /\ used = Len(packet)
      BY <1>1 DEF Answer
    <2>2. packet \in Seq(Byte) /\ Len(packet) \in Nat
      BY <1>1, PacketType DEF IInv
    <2>3. ~CutShort(packet, used)
      BY <2>1, <2>2 DEF CutShort
    <2>4. StartsFrom(packet, used) = {}
      BY <2>1, <2>2, StartsRecursion
    <2>5. /\ Starts(packet) = executed \cup StartsFrom(packet, used)
          /\ response_cnt = SumFunctionOnSet(ResponseTo(packet), executed)
      BY <1>1, <2>1, <2>3 DEF IInv, Accounted
    <2>6. Starts(packet) = executed
      BY <2>4, <2>5
    <2> QED
      BY <2>5, <2>6
  <1>2. IInv /\ [Next]_vars =>
          [Answer => /\ executed = Starts(packet)
                     /\ response_cnt =
                          SumFunctionOnSet(ResponseTo(packet), Starts(packet))]_vars
    BY <1>1
  <1> QED
    BY <1>2, Invariance, PTL DEF Spec, AnswerComplete
=============================================================================

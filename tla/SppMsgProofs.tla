---------------------------- MODULE SppMsgProofs ----------------------------
(***************************************************************************)
(* Proofs about SppMsg, for any number of devices, any events that fit a   *)
(* message, buffers of any size and messages of any commands.              *)
(***************************************************************************)
EXTENDS SppMsg, FiniteRecursion

Event == [id : Nat, dev : Devices, kind : Kinds, size : Nat]

-----------------------------------------------------------------------------
(* Streams. *)

\* The event is one Stream looks for.
Matches(e, d, auto) == e.id > 0 /\ e.dev = d /\ check_spp_auto_cmd_event(e) = auto

\* What Stream makes of another event.
Chosen(s, e, d, auto) == IF Matches(e, d, auto) THEN Append(s, e) ELSE s

\* g[i] is what Stream makes of the first i events.
Sifts(g, events, d, auto) ==
    /\ g \in [0..Len(events) -> Seq(Event)]
    /\ g[0] = <<>>
    /\ \A i \in 1..Len(events) : g[i] = Chosen(g[i - 1], events[i], d, auto)

\* A stream of events is one again.
LEMMA ChosenType ==
    ASSUME NEW s \in Seq(Event), NEW e \in Event, NEW d, NEW auto
    PROVE  Chosen(s, e, d, auto) \in Seq(Event)
  BY DEF Chosen

\* The steps of a stream, as functions.
Steps(events, d, auto) ==
    [i \in 1..Len(events) |-> [s \in Seq(Event) |-> Chosen(s, events[i], d, auto)]]

\* They map streams to streams.
LEMMA StepsType ==
    ASSUME NEW events \in Seq(Event), NEW d, NEW auto
    PROVE  /\ Steps(events, d, auto) \in [1..Len(events) -> [Seq(Event) -> Seq(Event)]]
           /\ \A i \in 1..Len(events) : \A s \in Seq(Event) :
                Steps(events, d, auto)[i][s] = Chosen(s, events[i], d, auto)
  <1>1. \A i \in 1..Len(events) : events[i] \in Event
    OBVIOUS
  <1>2. \A i \in 1..Len(events) : \A s \in Seq(Event) : Chosen(s, events[i], d, auto) \in Seq(Event)
    BY <1>1, ChosenType
  <1> QED
    BY <1>2 DEF Steps

\* Every sequence of events can be sifted.
LEMMA SiftsExist ==
    ASSUME NEW events \in Seq(Event), NEW d, NEW auto
    PROVE  \E g : Sifts(g, events, d, auto)
  <1> DEFINE n == Len(events)
             h == Steps(events, d, auto)
             V == Seq(Event)
  <1>1. n \in Nat /\ <<>> \in V /\ h \in [1..n -> [V -> V]]
    BY StepsType
  <1>2. RecursTo(n, V, <<>>, h)
    <2> HIDE DEF n, h, V
    <2> QED
      BY <1>1, NumberRecursion
  <1>3. PICK g \in [0..n -> V] : \A i \in 0..n : g[i] = IF i = 0 THEN <<>> ELSE h[i][g[i - 1]]
    <2> HIDE DEF n, h, V
    <2> QED
      BY <1>2 DEF RecursTo
  <1>4. ASSUME NEW i \in 1..n
        PROVE  g[i] = Chosen(g[i - 1], events[i], d, auto)
    <2>1. i \in 0..n /\ i # 0 /\ i - 1 \in 0..n
      BY <1>1
    <2>2. g[i - 1] \in V
      BY <2>1
    <2>3. g[i] = h[i][g[i - 1]]
      <3> HIDE DEF h, n, V
      <3> QED
        BY <1>3, <2>1
    <2> QED
      BY <2>2, <2>3, StepsType
  <1>5. g[0] = <<>>
    BY <1>1, <1>3
  <1>6. Sifts(g, events, d, auto)
    BY <1>4, <1>5 DEF Sifts
  <1> QED
    BY <1>6

\* Stream is where sifting ends.
LEMMA StreamIsSifted ==
    ASSUME NEW events \in Seq(Event), NEW d, NEW auto, NEW g, Sifts(g, events, d, auto)
    PROVE  Stream(events, d, auto) = g[Len(events)] /\ g[Len(events)] \in Seq(Event)
  <1> DEFINE n == Len(events)
             D == 1..n
             V == Seq(Event)
             h == Steps(events, d, auto)
             Def(f) == [s \in SUBSET D |->
                          IF s = {} THEN <<>>
                          ELSE Chosen(f[s \ {Greatest(s)}], events[Greatest(s)], d, auto)]
             iter == CHOOSE f : f = Def(f)
  <1>0. n \in Nat /\ DOMAIN events = D /\ <<>> \in V /\ h \in [D -> [V -> V]]
    BY StepsType
  <1>1. Stream(events, d, auto) = iter[D]
    BY <1>0 DEF Stream, FoldLeft, MapThenFoldSet, Max, Greatest, Chosen, Matches
  <1>2. \A i \in D : \A s \in V : h[i][s] = Chosen(s, events[i], d, auto)
    BY StepsType
  <1>3. \A s \in SUBSET D : s # {} => Greatest(s) \in s /\ Greatest(s) \in D
    BY <1>0, GreatestNumber
  <1> HIDE DEF h
  <1>4. \E f : f = Def(f)
    <2>1. FoldExists(n, V, <<>>, h)
      <3> HIDE DEF n, V
      <3> QED
        BY <1>0, FoldRecursion
    <2>2. PICK f \in [SUBSET D -> V] :
            \A s \in SUBSET D :
               f[s] = IF s = {} THEN <<>> ELSE h[Greatest(s)][f[s \ {Greatest(s)}]]
      <3> HIDE DEF n, V
      <3> QED
        BY <2>1 DEF FoldExists
    <2>3. ASSUME NEW s \in SUBSET D, s # {}
          PROVE  h[Greatest(s)][f[s \ {Greatest(s)}]]
                   = Chosen(f[s \ {Greatest(s)}], events[Greatest(s)], d, auto)
      <3>1. Greatest(s) \in D /\ f[s \ {Greatest(s)}] \in V
        BY <1>3, <2>3
      <3> HIDE DEF D, V
      <3> QED
        BY <1>2, <3>1
    <2>4. f = Def(f)
      <3> HIDE DEF D, V
      <3> QED
        BY <2>2, <2>3
    <2> QED
      BY <2>4
  <1>5. iter = Def(iter)
    <2> HIDE DEF Def
    <2> QED
      BY <1>4
  <1> HIDE DEF iter
  <1>6. IsFold(iter, n, V, <<>>, h)
    <2>1. \A s \in SUBSET D : Def(iter)[s] = IF s = {} THEN <<>>
              ELSE Chosen(iter[s \ {Greatest(s)}], events[Greatest(s)], d, auto)
      OBVIOUS
    <2> HIDE DEF Def
    <2>2. iter[{}] = <<>>
      BY <1>5, <2>1
    <2>3. ASSUME NEW s \in SUBSET D, s # {}, iter[s \ {Greatest(s)}] \in V
          PROVE  iter[s] = h[Greatest(s)][iter[s \ {Greatest(s)}]]
      <3>1. iter[s] = Chosen(iter[s \ {Greatest(s)}], events[Greatest(s)], d, auto)
        BY <1>5, <2>1, <2>3
      <3>2. h[Greatest(s)][iter[s \ {Greatest(s)}]]
              = Chosen(iter[s \ {Greatest(s)}], events[Greatest(s)], d, auto)
        BY <1>2, <1>3, <2>3
      <3> QED
        BY <3>1, <3>2
    <2> HIDE DEF n, V
    <2> QED
      BY <2>2, <2>3 DEF IsFold
  <1> HIDE DEF Def
  <1>7. IsRun(g, n, V, <<>>, h)
    <2>1. g \in [0..n -> V] /\ g[0] = <<>>
      BY DEF Sifts
    <2>2. ASSUME NEW i \in 1..n
          PROVE  g[i] = h[i][g[i - 1]]
      <3>1. g[i - 1] \in V
        BY <1>0, <2>1
      <3>2. h[i][g[i - 1]] = Chosen(g[i - 1], events[i], d, auto)
        BY <1>2, <3>1
      <3>3. g[i] = Chosen(g[i - 1], events[i], d, auto)
        BY DEF Sifts
      <3> QED
        BY <3>2, <3>3
    <2> HIDE DEF n, V
    <2> QED
      BY <2>1, <2>2 DEF IsRun
  <1>8. iter[1..n] = g[n]
    <2> HIDE DEF n, V
    <2> QED
      BY <1>0, <1>6, <1>7, FoldIsRun
  <1>9. g[n] \in V
    BY <1>0 DEF Sifts
  <1> QED
    BY <1>1, <1>8, <1>9

\* The stream of no events, and of one more.
LEMMA StreamAppend ==
    ASSUME NEW d, NEW auto
    PROVE  /\ Stream(<<>>, d, auto) = <<>>
           /\ \A s \in Seq(Event) :
                /\ Stream(s, d, auto) \in Seq(Event)
                /\ \A e \in Event : Stream(Append(s, e), d, auto) = Chosen(Stream(s, d, auto), e, d, auto)
  <1>1. Stream(<<>>, d, auto) = <<>>
    <2> DEFINE none == <<>>
    <2>1. none \in Seq(Event) /\ Len(none) = 0
      OBVIOUS
    <2> HIDE DEF none
    <2>2. PICK g : Sifts(g, none, d, auto)
      BY <2>1, SiftsExist
    <2>3. Stream(none, d, auto) = g[Len(none)]
      BY <2>1, <2>2, StreamIsSifted
    <2>4. g[0] = <<>>
      BY <2>2 DEF Sifts
    <2> QED
      BY <2>1, <2>3, <2>4 DEF none
  <1>2. ASSUME NEW s \in Seq(Event)
        PROVE  /\ Stream(s, d, auto) \in Seq(Event)
               /\ \A e \in Event : Stream(Append(s, e), d, auto) = Chosen(Stream(s, d, auto), e, d, auto)
    <2>1. PICK g : Sifts(g, s, d, auto)
      BY SiftsExist
    <2>2. Stream(s, d, auto) = g[Len(s)] /\ g[Len(s)] \in Seq(Event)
      BY <2>1, StreamIsSifted
    <2>3. ASSUME NEW e \in Event
          PROVE  Stream(Append(s, e), d, auto) = Chosen(g[Len(s)], e, d, auto)
      <3> DEFINE t == Append(s, e)
                 end == Chosen(g[Len(s)], e, d, auto)
                 k == [i \in 0..Len(t) |-> IF i <= Len(s) THEN g[i] ELSE end]
      <3>1. /\ t \in Seq(Event) /\ Len(t) = Len(s) + 1 /\ Len(s) \in Nat
            /\ \A i \in 1..Len(s) : t[i] = s[i]
            /\ t[Len(s) + 1] = e
        OBVIOUS
      <3>2. /\ g \in [0..Len(s) -> Seq(Event)] /\ g[0] = <<>>
            /\ \A i \in 1..Len(s) : g[i] = Chosen(g[i - 1], s[i], d, auto)
        BY <2>1 DEF Sifts
      <3>3. end \in Seq(Event)
        BY <2>2, ChosenType
      <3> HIDE DEF t, end
      <3>4. k \in [0..Len(t) -> Seq(Event)] /\ k[0] = <<>> /\ k[Len(t)] = end
        BY <3>1, <3>2, <3>3
      <3>5. ASSUME NEW i \in 1..Len(t)
            PROVE  k[i] = Chosen(k[i - 1], t[i], d, auto)
        <4>1. CASE i \in 1..Len(s)
          <5>1. k[i] = g[i] /\ k[i - 1] = g[i - 1] /\ t[i] = s[i]
            BY <3>1, <4>1
          <5> QED
            BY <3>2, <4>1, <5>1
        <4>2. CASE i \notin 1..Len(s)
          <5>1. i = Len(t) /\ i = Len(s) + 1 /\ i - 1 = Len(s) /\ i - 1 \in 0..Len(t)
            BY <3>1, <4>2
          <5>2. k[i - 1] = g[Len(s)] /\ t[i] = e
            BY <3>1, <5>1
          <5> QED
            BY <3>4, <5>1, <5>2 DEF end
        <4> QED
          BY <4>1, <4>2
      <3> HIDE DEF k
      <3>6. Sifts(k, t, d, auto)
        BY <3>4, <3>5 DEF Sifts
      <3>7. Stream(t, d, auto) = end
        BY <3>1, <3>4, <3>6, StreamIsSifted
      <3> QED
        BY <3>7 DEF t, end
    <2> QED
      BY <2>2, <2>3
  <1> QED
    BY <1>1, <1>2

\* Sequences of events put together.
LEMMA Joined ==
    ASSUME NEW s \in Seq(Event), NEW t \in Seq(Event), NEW u \in Seq(Event), NEW e \in Event
    PROVE  /\ s \o t \in Seq(Event) /\ Append(s, e) \in Seq(Event)
           /\ s \o <<>> = s /\ <<>> \o s = s
           /\ s \o Append(t, e) = Append(s \o t, e)
           /\ (s \o t) \o u = s \o (t \o u)
           /\ Append(<<>>, e) = <<e>> /\ <<>> \in Seq(Event)
  <1>1. s \o t \in Seq(Event) /\ s \o <<>> = s /\ <<>> \o s = s
    BY ConcatProperties, ConcatEmptySeq
  <1>2. (s \o t) \o u = s \o (t \o u)
    BY ConcatAssociative
  <1>3. s \o Append(t, e) = Append(s \o t, e)
    OBVIOUS
  <1> QED
    BY <1>1, <1>2, <1>3

\* The stream of two sequences is that of the first followed by that of the
\* second.
LEMMA StreamConcat ==
    ASSUME NEW s \in Seq(Event), NEW d, NEW auto
    PROVE  \A t \in Seq(Event) : Stream(s \o t, d, auto) = Stream(s, d, auto) \o Stream(t, d, auto)
  <1> DEFINE T == {t \in Seq(Event) : Stream(s \o t, d, auto) = Stream(s, d, auto) \o Stream(t, d, auto)}
  <1>0. Stream(s, d, auto) \in Seq(Event) /\ Stream(<<>>, d, auto) = <<>> /\ <<>> \in Seq(Event)
    BY StreamAppend, EmptySeq
  <1>1. <<>> \in T
    <2>1. s \o <<>> = s /\ Stream(s, d, auto) \o <<>> = Stream(s, d, auto)
      BY <1>0, ConcatEmptySeq
    <2> QED
      BY <1>0, <2>1
  <1>2. ASSUME NEW t \in Seq(Event), NEW e \in Event, t \in T
        PROVE  Append(t, e) \in T
    <2> DEFINE u == s \o t
               v == Append(t, e)
               a == Stream(s, d, auto)
               b == Stream(t, d, auto)
               c == Stream(u, d, auto)
    <2>1. u \in Seq(Event) /\ v \in Seq(Event) /\ s \o v = Append(u, e)
      BY Joined
    <2>2. c = a \o b
      BY <1>2
    <2> HIDE DEF u
    <2>3. Stream(v, d, auto) = Chosen(b, e, d, auto) /\ b \in Seq(Event)
      BY StreamAppend
    <2>4. Stream(Append(u, e), d, auto) = Chosen(c, e, d, auto)
      BY <2>1, StreamAppend
    <2> HIDE DEF v, a, b, c
    <2>5. a \in Seq(Event)
      BY <1>0 DEF a
    <2>6. a \o Append(b, e) = Append(a \o b, e)
      BY <2>3, <2>5, Joined
    <2>7. Chosen(c, e, d, auto) = a \o Chosen(b, e, d, auto)
      BY <2>2, <2>6 DEF Chosen
    <2>8. Stream(s \o v, d, auto) = a \o Stream(v, d, auto)
      BY <2>1, <2>3, <2>4, <2>7
    <2> QED
      BY <2>1, <2>8 DEF a, v
  <1> HIDE DEF T
  <1>3. Seq(Event) \subseteq T
    BY <1>1, <1>2, SequenceInduction
  <1> QED
    BY <1>3 DEF T

\* A stream of other events is empty.
LEMMA StreamOfOthers ==
    ASSUME NEW d, NEW auto, NEW s \in Seq(Event), \A i \in 1..Len(s) : ~Matches(s[i], d, auto)
    PROVE  Stream(s, d, auto) = <<>>
  <1>1. PICK g : Sifts(g, s, d, auto)
    BY SiftsExist
  <1>2. Stream(s, d, auto) = g[Len(s)] /\ Len(s) \in Nat
    BY <1>1, StreamIsSifted
  <1> DEFINE T == {i \in Nat : i \in 0..Len(s) => g[i] = <<>>}
  <1>3. 0 \in T
    BY <1>1 DEF Sifts
  <1>4. ASSUME NEW i \in Nat, i \in T
        PROVE  i + 1 \in T
    <2>1. SUFFICES ASSUME i + 1 \in 0..Len(s)
                   PROVE  g[i + 1] = <<>>
      OBVIOUS
    <2> DEFINE j == i + 1
    <2>2. j \in 1..Len(s) /\ j - 1 = i /\ i \in 0..Len(s)
      BY <1>2, <2>1
    <2>3. g[i] = <<>>
      BY <1>4, <2>2
    <2> HIDE DEF j
    <2>4. g[j] = Chosen(g[j - 1], s[j], d, auto)
      BY <1>1, <2>2 DEF Sifts
    <2>5. g[j] = <<>>
      BY <2>2, <2>3, <2>4 DEF Chosen
    <2> QED
      BY <2>5 DEF j
  <1> HIDE DEF T
  <1>5. Nat \subseteq T
    BY <1>3, <1>4, NumberInduction
  <1> QED
    BY <1>2, <1>5 DEF T

-----------------------------------------------------------------------------
(* The inductive invariant. *)

Spp == [thr : [Devices -> BOOLEAN], auto : [Devices -> 0..255], bulk : BOOLEAN,
        count : Nat, packed : Seq(Event)]
Msg == [cmds : Nat, kind : {"none", "send", "cmd", "xfer", "plain", "bad"}, addr : Nat, last : BOOLEAN,
        cnt : Nat, bulkaddr : Devices, answers : Nat]
Wait == [addr : Devices, what : {"none", "thr", "auto"}, ready : SUBSET Devices, keep : BOOLEAN,
         stale : Kinds, then : {"none", "send", "tail", "settle"}]
Log == [msgs : Nat, read : Seq(Event), sent : Seq(Event), over : BOOLEAN, again : BOOLEAN]

\* The events device d may have raised.
Raised(d) == {e \in Event : e.dev = d /\ e.size + 2 <= MaxDataSize}

\* The client has what was read, but for the packed events.
Kept(s, l) ==
    \A d \in Devices, auto \in BOOLEAN :
      Stream(l.sent \o s.packed, d, auto) = Stream(l.read, d, auto)

\* The bulk response holds nothing but what may be packed, and nothing when
\* it is closed or was never asked for.
Packs(s, on) ==
    /\ \A i \in 1..Len(s.packed) : check_spp_auto_cmd_event(s.packed[i]) = TRUE
    /\ s.count = 0 => s.packed = <<>>
    /\ on = FALSE => s.packed = <<>>
    /\ Len(s.packed) <= IbiMaxCount

\* Outside bulk mode it is closed, until a second SPP_BULK; it fits a message
\* until something overran.
Sound(s, l, on, p) ==
    /\ s \in Spp /\ l \in Log
    /\ Packs(s, on)
    /\ l.over = FALSE => s.count <= MaxDataSize
    /\ l.again = FALSE => s.bulk = TRUE \/ s.count = 0
    /\ p = TRUE /\ l.over = FALSE /\ l.again = FALSE => Kept(s, l)

\* In the middle of a message it was answered if it is in bulk mode.
Halfway(s, m, l, p) ==
    p = TRUE /\ l.over = FALSE /\ l.again = FALSE => m.answers = IF s.bulk = TRUE THEN 1 ELSE 0

\* process_spp_message may go on at c.
May(s, m, c) ==
    /\ c \in {"tail", "settle"} => s.bulk = TRUE
    /\ c = "send" => m.addr \in Devices

\* Where process_message is.
At(s, m, l, w, c, p) ==
    /\ m \in Msg /\ w \in Wait
    /\ c \in {"down", "idle", "cmd", "send", "wait", "tail", "settle"}
    /\ c = "wait" => w.what # "none" /\ w.then \in {"send", "tail", "settle"} /\ May(s, m, w.then)
    /\ c # "wait" => w = NoWait /\ May(s, m, c)
    /\ c \notin {"idle", "down"} => Halfway(s, m, l, p)
    /\ c \in {"idle", "down"} /\ l.again = FALSE => s.bulk = FALSE
    /\ c = "idle" /\ p = TRUE /\ m.cmds > 0 /\ l.over = FALSE /\ l.again = FALSE => m.answers = 1
    /\ c = "down" => m = NoMsg

\* The devices and their events.
Outside ==
    /\ open \subseteq Devices
    /\ enable \in BOOLEAN /\ peer \in BOOLEAN
    /\ raised \in 0..MaxEvents
    /\ ibis \in [Devices -> Seq(Event)]
    /\ \A d \in Devices : ibis[d] \in Seq(Raised(d))

IInv ==
    /\ Outside
    /\ Sound(spp, log, enable, peer)
    /\ At(spp, msg, log, wait, pc, peer)
    /\ wait.ready \subseteq {d \in Polled : ibis[d] # <<>>}

\* A step within process_spp_message that keeps the invariant.
Moves ==
    /\ Sound(spp', log', enable, peer)
    /\ At(spp', msg', log', wait', pc', peer)
    /\ wait'.ready = {}

\* What the constants are.
LEMMA Constants ==
    /\ Devices \subseteq Nat /\ 0 \in Devices
    /\ \A d \in Devices : d + 1 \in Nat
    /\ MaxDataSize \in Nat /\ IbiMaxCount \in Nat /\ IbiMaxCount > 0 /\ MaxEvents \in Nat /\ MaxMsgs \in Nat
    /\ RxLen \in Nat /\ OpcodeLen \in Nat /\ EventBuffer \in Nat /\ EventBuffer + 2 <= MaxDataSize
    /\ MaxDevices \in Nat /\ 2 <= MaxDataSize
    /\ NoMsg \in Msg /\ NoWait \in Wait /\ NoLog \in Log
  <1>1. /\ MaxDevices \in Nat /\ MaxDevices # 0
        /\ MaxDataSize \in Nat /\ IbiMaxCount \in Nat /\ IbiMaxCount > 0 /\ MaxEvents \in Nat /\ MaxMsgs \in Nat
        /\ RxLen \in Nat /\ OpcodeLen \in Nat /\ EventBuffer \in Nat
    BY SppAssumption
  <1>2. EventBuffer + 2 <= MaxDataSize
    BY EventsFit
  <1>3. Devices \subseteq Nat /\ 0 \in Devices
    BY <1>1 DEF Devices
  <1>4. NoMsg \in Msg
    BY <1>3 DEF NoMsg, Msg
  <1>5. NoWait \in Wait
    BY <1>3 DEF NoWait, Wait, Kinds
  <1>6. NoLog \in Log
    <2>1. <<>> \in Seq(Event)
      BY EmptySeq
    <2> QED
      BY <2>1 DEF NoLog, Log
  <1> QED
    BY <1>1, <1>2, <1>3, <1>4, <1>5, <1>6

\* Process_spp_message goes on.
LEMMA GoToMoves ==
    ASSUME NEW s, NEW m \in Msg, NEW l, NEW c \in {"cmd", "send", "tail", "settle"},
           Sound(s, l, enable, peer), Halfway(s, m, l, peer), May(s, m, c),
           GoTo(s, m, l, c)
    PROVE  Moves
  <1>1. spp' = s /\ msg' = m /\ pc' = c /\ wait' = NoWait /\ log' = l
    BY DEF GoTo
  <1>2. NoWait \in Wait /\ NoWait.ready = {}
    BY Constants DEF NoWait
  <1>3. At(s, m, l, NoWait, c, peer)
    BY <1>2 DEF At
  <1> QED
    BY <1>1, <1>2, <1>3 DEF Moves

\* It waits, or goes on.
LEMMA AwaitMoves ==
    ASSUME NEW s, NEW m \in Msg, NEW l, NEW what \in {"thr", "auto"}, NEW d \in Devices,
           NEW c \in {"send", "tail", "settle"},
           Sound(s, l, enable, peer), Halfway(s, m, l, peer), May(s, m, c),
           Await(s, m, l, what, d, c)
    PROVE  Moves
  <1> DEFINE w == [NoWait EXCEPT !.addr = d, !.what = what, !.then = c]
  <1>1. CASE GoTo(s, m, l, c)
    BY <1>1, GoToMoves
  <1>2. CASE pc' = "wait" /\ wait' = w /\ spp' = s /\ msg' = m /\ log' = l
    <2>1. NoWait \in Wait /\ NoWait.ready = {}
      BY Constants DEF NoWait
    <2>2. w \in Wait /\ w.ready = {} /\ w.what # "none" /\ w.then = c
      BY <2>1 DEF Wait, NoWait
    <2> HIDE DEF w
    <2>3. At(s, m, l, w, "wait", peer)
      BY <2>2 DEF At
    <2> QED
      BY <1>2, <2>2, <2>3 DEF Moves
  <1> QED
    BY <1>1, <1>2 DEF Await

\* It returns: the message was answered, here or before.
LEMMA ReturnMoves ==
    ASSUME NEW s, NEW m \in Msg, NEW l, NEW ok \in BOOLEAN,
           Sound(s, l, enable, peer), l.again = FALSE => s.bulk = FALSE,
           peer = TRUE /\ l.over = FALSE /\ l.again = FALSE =>
             m.answers = IF ok = TRUE THEN 1 ELSE 0,
           peer \in BOOLEAN,
           Return(s, m, l, ok)
    PROVE  Moves
  <1> DEFINE n == m.answers + (IF ~ok /\ peer THEN 1 ELSE 0)
             r == [NoMsg EXCEPT !.cmds = 1, !.answers = n]
  <1>1. spp' = s /\ msg' = r /\ pc' = "idle" /\ wait' = NoWait /\ log' = l
    BY DEF Return
  <1>2. m.answers \in Nat
    BY DEF Msg
  <1>3. n \in Nat
    BY <1>2
  <1>4. peer = TRUE /\ l.over = FALSE /\ l.again = FALSE => n = 1
    BY <1>2
  <1> HIDE DEF n
  <1>5. r \in Msg /\ r.answers = n
    BY <1>3, Constants DEF Msg, NoMsg
  <1>6. NoWait \in Wait /\ NoWait.ready = {}
    BY Constants DEF NoWait
  <1> HIDE DEF r
  <1>7. At(s, r, l, NoWait, "idle", peer)
    BY <1>4, <1>5, <1>6 DEF At, May
  <1> QED
    BY <1>1, <1>6, <1>7 DEF Moves

\* The loop over the commands is left.
LEMMA EndLoopMoves ==
    ASSUME NEW s, NEW m \in Msg, NEW l, NEW ok \in BOOLEAN,
           Sound(s, l, enable, peer), Halfway(s, m, l, peer), peer \in BOOLEAN,
           EndLoop(s, m, l, ok)
    PROVE  Moves
  <1>0. s \in Spp /\ s.bulk \in BOOLEAN /\ m.bulkaddr \in Devices /\ m.answers \in Nat /\ m.cnt \in Nat
    BY DEF Sound, Spp, Msg
  <1>1. CASE s.bulk = TRUE
    <2> DEFINE r == [NoMsg EXCEPT !.cmds = 1, !.bulkaddr = m.bulkaddr, !.answers = m.answers]
    <2>1. Await(s, r, l, "thr", m.bulkaddr, "tail")
      BY <1>1 DEF EndLoop
    <2>2. r \in Msg /\ r.answers = m.answers
      BY <1>0, Constants DEF Msg, NoMsg
    <2> HIDE DEF r
    <2>3. Halfway(s, r, l, peer) /\ May(s, r, "tail")
      BY <1>1, <2>2 DEF Halfway, May
    <2> QED
      BY <1>0, <2>1, <2>2, <2>3, AwaitMoves
  <1>2. CASE s.bulk = FALSE
    <2> DEFINE sent == ok /\ send_response(m.cnt)
               n == m.answers + (IF sent THEN 1 ELSE 0)
               r == [m EXCEPT !.answers = n]
    <2>1. Return(s, r, l, sent)
      BY <1>2 DEF EndLoop
    <2>2. sent \in BOOLEAN
      BY DEF send_response
    <2> HIDE DEF sent
    <2>3. n \in Nat
      BY <1>0
    <2>4. r \in Msg /\ r.answers = n
      BY <2>3 DEF Msg
    <2>5. peer = TRUE /\ l.over = FALSE /\ l.again = FALSE => r.answers = IF sent = TRUE THEN 1 ELSE 0
      BY <1>0, <1>2, <2>2, <2>4 DEF Halfway
    <2> HIDE DEF r
    <2> QED
      BY <1>2, <2>1, <2>2, <2>4, <2>5, ReturnMoves
  <1> QED
    BY <1>0, <1>1, <1>2

\* What was written past the end does not hurt but for what is no longer
\* promised.
LEMMA SoundOver ==
    ASSUME NEW s, NEW l, NEW o \in BOOLEAN, NEW on, NEW p, Sound(s, l, on, p), l.over = TRUE => o = TRUE
    PROVE  /\ Sound(s, [l EXCEPT !.over = o], on, p)
           /\ [l EXCEPT !.over = o].over = o
           /\ [l EXCEPT !.over = o].again = l.again
  <1> DEFINE k == [l EXCEPT !.over = o]
  <1>1. l \in Log /\ l.over \in BOOLEAN
    BY DEF Sound, Log
  <1>2. k \in Log /\ k.over = o /\ k.again = l.again /\ k.read = l.read /\ k.sent = l.sent
    BY <1>1 DEF Log
  <1> HIDE DEF k
  <1>3. k.over = FALSE => l.over = FALSE
    BY <1>1, <1>2
  <1>4. Kept(s, l) => Kept(s, k)
    BY <1>2 DEF Kept
  <1>5. Sound(s, k, on, p)
    BY <1>2, <1>3, <1>4 DEF Sound
  <1> QED
    BY <1>2, <1>5 DEF k

\* A command is done.
LEMMA AnsweredMoves ==
    ASSUME NEW s, NEW m \in Msg, NEW n \in Nat, NEW top \in Nat, NEW ok \in BOOLEAN,
           Sound(s, log, enable, peer), Halfway(s, m, log, peer), peer \in BOOLEAN,
           Answered(s, m, n, top, ok)
    PROVE  Moves
  <1> DEFINE done == [m EXCEPT !.cnt = @ + n]
             o == log.over \/ m.cnt + top > MaxDataSize
             l == [log EXCEPT !.over = o]
             r == [done EXCEPT !.kind = "none", !.addr = 0]
  <1>1. m.cnt \in Nat /\ m.last \in BOOLEAN /\ log \in Log
    BY DEF Msg, Sound
  <1>2. done \in Msg /\ done.answers = m.answers
    BY <1>1 DEF Msg
  <1>3. r \in Msg /\ r.answers = m.answers
    BY <1>1, <1>2 DEF Msg
  <1>4. o \in BOOLEAN /\ (log.over = TRUE => o = TRUE)
    BY <1>1 DEF Log
  <1>5. (m.last \/ ~ok) => EndLoop(s, done, l, ok)
    BY DEF Answered
  <1>6. ~(m.last \/ ~ok) => GoTo(s, r, l, "cmd")
    BY DEF Answered
  <1> HIDE DEF done, o, r
  <1>7. Sound(s, l, enable, peer) /\ l.over = o /\ l.again = log.again
    BY <1>4, SoundOver
  <1> HIDE DEF l
  <1>8. log.over \in BOOLEAN
    BY <1>1 DEF Log
  <1>9. l.over = FALSE => log.over = FALSE
    BY <1>4, <1>7, <1>8
  <1>10. Halfway(s, done, l, peer) /\ Halfway(s, r, l, peer) /\ May(s, r, "cmd")
    BY <1>2, <1>3, <1>7, <1>9 DEF Halfway, May
  <1>11. CASE m.last \/ ~ok
    BY <1>2, <1>5, <1>7, <1>10, <1>11, EndLoopMoves
  <1>12. CASE ~(m.last \/ ~ok)
    BY <1>3, <1>6, <1>7, <1>10, <1>12, GoToMoves
  <1> QED
    BY <1>11, <1>12

-----------------------------------------------------------------------------
(* Events that are read. *)

\* p is what comes of event e when s and l are the handler and the log.
Passes(p, s, l, e) ==
    /\ p.spp \in Spp /\ p.log \in Log
    /\ p.ok \in BOOLEAN
    /\ Packs(p.spp, enable)
    /\ p.spp.bulk = s.bulk
    /\ p.log.again = l.again /\ p.log.read = l.read
    /\ p.log.over = FALSE => l.over = FALSE
    /\ p.log.over = FALSE /\ s.count <= MaxDataSize => p.spp.count <= MaxDataSize
    /\ s.count = 0 => p.spp.count = 0
    /\ peer = TRUE /\ s.count <= MaxDataSize =>
         /\ p.ok = TRUE
         /\ \A d \in Devices, auto \in BOOLEAN :
              Stream(p.log.sent \o p.spp.packed, d, auto)
                = Chosen(Stream(l.sent \o s.packed, d, auto), e, d, auto)

\* An event that goes into the response comes last.
LEMMA PackPasses ==
    ASSUME NEW s \in Spp, NEW l \in Log, NEW e \in Event, Packs(s, enable), peer \in BOOLEAN,
           enable = TRUE, check_spp_auto_cmd_event(e) = TRUE, s.count > 0
    PROVE  Passes(Pack(s, l, e), s, l, e)
  <1> DEFINE p == Pack(s, l, e)
             full == Full(s, e)
             ok == send_response(s.count)
             sent == IF full /\ ok THEN l.sent \o s.packed ELSE l.sent
             kept == IF full THEN <<>> ELSE s.packed
             packed == Append(kept, e)
             count == (IF full THEN 2 ELSE s.count) + 2 + e.size
             over == l.over \/ count > MaxDataSize
  <1>1. /\ s.count \in Nat /\ s.packed \in Seq(Event) /\ e.size \in Nat
        /\ l.sent \in Seq(Event) /\ l.over \in BOOLEAN
    BY DEF Spp, Log, Event
  <1>2. full \in BOOLEAN /\ ok \in BOOLEAN
    BY DEF Full, send_response
  <1>3. /\ p.spp = [s EXCEPT !.count = count, !.packed = packed]
        /\ p.log = [l EXCEPT !.sent = sent, !.over = over]
        /\ p.ok = IF full THEN ok ELSE TRUE
    <2>1. CASE full
      <3>1. Saved(Restarted(s), e) = [s EXCEPT !.count = count, !.packed = packed]
        BY <2>1 DEF Saved, Restarted, Spp
      <3>2. send_bulk_bpk_event(s, l) = [spp |-> s, log |-> [l EXCEPT !.sent = sent], ok |-> ok]
        BY <2>1 DEF send_bulk_bpk_event, State, Log
      <3>3. Saved(Restarted(s), e).count = count
        BY <2>1 DEF Saved, Restarted, Spp
      <3> DEFINE u == Saved(Restarted(s), e)
                 v == send_bulk_bpk_event(s, l)
                 k == [l EXCEPT !.sent = sent]
      <3>4. p = State(u, [v.log EXCEPT !.over = @ \/ u.count > MaxDataSize], v.ok)
        BY <2>1 DEF Pack
      <3>5. v.log = k /\ v.ok = ok
        BY <3>2
      <3>6. k \in [msgs : Nat, read : Seq(Event), sent : {sent}, over : BOOLEAN, again : BOOLEAN]
            /\ k.over = l.over
        BY DEF Log
      <3>7. [k EXCEPT !.over = over] = [l EXCEPT !.sent = sent, !.over = over]
        BY DEF Log
      <3> HIDE DEF u, v, k, ok, p, sent, count, packed, full
      <3>8. p = State(u, [k EXCEPT !.over = over], ok)
        BY <3>3, <3>4, <3>5, <3>6 DEF u
      <3>9. p.spp = u /\ p.log = [k EXCEPT !.over = over] /\ p.ok = ok
        BY <3>8 DEF State
      <3> QED
        BY <2>1, <3>1, <3>7, <3>9 DEF u
    <2>2. CASE ~full
      <3>1. Saved(s, e) = [s EXCEPT !.count = count, !.packed = packed] /\ Saved(s, e).count = count
        BY <2>2 DEF Saved, Spp
      <3> QED
        BY <2>2, <3>1 DEF Pack, State, Log
    <2> QED
      BY <2>1, <2>2
  <1> HIDE DEF p
  <1>4. kept \in Seq(Event) /\ sent \in Seq(Event)
    <2>1. <<>> \in Seq(Event) /\ l.sent \o s.packed \in Seq(Event)
      BY <1>1, EmptySeq, ConcatProperties
    <2> QED
      BY <1>1, <2>1
  <1>5. packed \in Seq(Event) /\ Len(packed) = Len(kept) + 1 /\ Len(kept) \in Nat
        /\ \A i \in 1..Len(packed) : packed[i] = IF i <= Len(kept) THEN kept[i] ELSE e
    BY <1>4
  <1>6. count \in Nat /\ count > 0
    BY <1>1
  <1>7. over \in BOOLEAN /\ (over = FALSE => l.over = FALSE /\ count <= MaxDataSize)
    BY <1>1, <1>6, Constants
  <1>8. ~full => Len(s.packed) # IbiMaxCount
    BY DEF Full
  <1>9. Len(kept) < IbiMaxCount
    BY <1>1, <1>8, Constants DEF Packs
  <1>10. \A i \in 1..Len(kept) : check_spp_auto_cmd_event(kept[i]) = TRUE
    BY DEF Packs
  <1>11. peer = TRUE /\ s.count <= MaxDataSize => ok = TRUE
    BY DEF send_response
  <1>12. ok = TRUE => sent \o kept = l.sent \o s.packed
    <2>1. (l.sent \o s.packed) \o <<>> = l.sent \o s.packed
      BY <1>1, ConcatProperties, ConcatEmptySeq
    <2> QED
      BY <2>1
  <1> HIDE DEF full, ok, sent, kept, count, over
  <1>13. sent \o packed = Append(sent \o kept, e)
    BY <1>4, Joined
  <1> HIDE DEF packed
  <1>14. /\ p.spp \in Spp /\ p.spp.bulk = s.bulk /\ p.spp.count = count /\ p.spp.packed = packed
    BY <1>3, <1>5, <1>6 DEF Spp
  <1>15. /\ p.log \in Log /\ p.log.again = l.again /\ p.log.read = l.read /\ p.log.over = over /\ p.log.sent = sent
    BY <1>3, <1>4, <1>7 DEF Log
  <1>16. p.ok \in BOOLEAN /\ (ok = TRUE => p.ok = TRUE)
    BY <1>2, <1>3
  <1>17. \A i \in 1..Len(packed) : check_spp_auto_cmd_event(packed[i]) = TRUE
    BY <1>5, <1>10
  <1>18. Packs(p.spp, enable)
    BY <1>5, <1>6, <1>9, <1>14, <1>17, Constants DEF Packs
  <1>19. ASSUME ok = TRUE, NEW d \in Devices, NEW auto \in BOOLEAN
         PROVE  Stream(p.log.sent \o p.spp.packed, d, auto)
                  = Chosen(Stream(l.sent \o s.packed, d, auto), e, d, auto)
    <2> DEFINE u == l.sent \o s.packed
    <2>1. u \in Seq(Event)
      BY <1>1, ConcatProperties
    <2>2. sent \o packed = Append(u, e)
      BY <1>12, <1>13, <1>19
    <2> HIDE DEF u
    <2>3. Stream(Append(u, e), d, auto) = Chosen(Stream(u, d, auto), e, d, auto)
      BY <2>1, StreamAppend
    <2> QED
      BY <1>14, <1>15, <2>2, <2>3 DEF u
  <1>20. p.log.over = FALSE => l.over = FALSE /\ p.spp.count <= MaxDataSize
    BY <1>7, <1>14, <1>15
  <1>21. s.count # 0
    BY <1>1
  <1>22. Passes(p, s, l, e)
    BY <1>11, <1>14, <1>15, <1>16, <1>18, <1>19, <1>20, <1>21 DEF Passes
  <1> QED
    BY <1>22 DEF p

\* An event that is sent at once overtakes nothing of its stream.
LEMMA SentPasses ==
    ASSUME NEW s \in Spp, NEW l \in Log, NEW e \in Event, Packs(s, enable), peer \in BOOLEAN,
           e.size + 2 <= MaxDataSize, enable \in BOOLEAN,
           ~(enable /\ check_spp_auto_cmd_event(e) /\ s.count > 0)
    PROVE  Passes(send_bpk_event(s, l, e), s, l, e)
  <1> DEFINE p == send_bpk_event(s, l, e)
             ok == send_response(e.size + 2)
             sent == IF ok THEN Append(l.sent, e) ELSE l.sent
  <1>1. /\ s.count \in Nat /\ s.packed \in Seq(Event) /\ l.sent \in Seq(Event)
    BY DEF Spp, Log
  <1>2. ok \in BOOLEAN /\ (peer = TRUE => ok = TRUE)
    BY DEF send_response
  <1>3. p.spp = s /\ p.log = [l EXCEPT !.sent = sent] /\ p.ok = ok
    BY DEF send_bpk_event, State, Log
  <1>4. sent \in Seq(Event)
    BY <1>1
  <1>5. check_spp_auto_cmd_event(e) \in BOOLEAN
    BY DEF check_spp_auto_cmd_event
  <1>6. s.packed = <<>> \/ check_spp_auto_cmd_event(e) = FALSE
    <2>1. CASE enable = FALSE
      BY <2>1 DEF Packs
    <2>2. CASE ~(s.count > 0)
      BY <1>1, <2>2 DEF Packs
    <2> QED
      BY <1>5, <2>1, <2>2
  <1>7. ASSUME peer = TRUE, NEW d \in Devices, NEW auto \in BOOLEAN
        PROVE  Stream(sent \o s.packed, d, auto)
                 = Chosen(Stream(l.sent \o s.packed, d, auto), e, d, auto)
    <2> DEFINE a == Stream(l.sent, d, auto)
               b == Stream(s.packed, d, auto)
               v == Append(l.sent, e)
    <2>1. sent = v /\ v \in Seq(Event)
      BY <1>1, <1>2, <1>7
    <2>2. Stream(v, d, auto) = Chosen(a, e, d, auto) /\ a \in Seq(Event) /\ b \in Seq(Event)
      BY <1>1, StreamAppend
    <2> HIDE DEF v
    <2>3. Stream(v \o s.packed, d, auto) = Stream(v, d, auto) \o b
      BY <1>1, <2>1, StreamConcat
    <2>4. Stream(l.sent \o s.packed, d, auto) = a \o b
      BY <1>1, StreamConcat
    <2>5. b = <<>> \/ ~Matches(e, d, auto)
      <3>1. CASE s.packed = <<>>
        BY <3>1, StreamAppend
      <3>2. CASE check_spp_auto_cmd_event(e) = FALSE /\ auto = TRUE
        BY <3>2 DEF Matches
      <3>3. CASE auto = FALSE
        <4>1. \A i \in 1..Len(s.packed) : ~Matches(s.packed[i], d, auto)
          BY <3>3 DEF Packs, Matches
        <4> QED
          BY <1>1, <4>1, StreamOfOthers
      <3> QED
        BY <1>6, <3>1, <3>2, <3>3
    <2> HIDE DEF a, b
    <2>6. Chosen(a, e, d, auto) \in Seq(Event) /\ Chosen(a \o b, e, d, auto) = Chosen(a, e, d, auto) \o b
      <3>1. a \o <<>> = a
        BY <2>2, ConcatEmptySeq
      <3>2. Chosen(a, e, d, auto) \in Seq(Event)
        BY <2>2, ChosenType
      <3>3. Chosen(a, e, d, auto) \o <<>> = Chosen(a, e, d, auto)
        BY <3>2, ConcatEmptySeq
      <3>4. CASE b = <<>>
        BY <3>1, <3>2, <3>3, <3>4
      <3>5. CASE ~Matches(e, d, auto)
        BY <3>2, <3>5 DEF Chosen
      <3> QED
        BY <2>5, <3>4, <3>5
    <2> QED
      BY <2>1, <2>2, <2>3, <2>4, <2>6
  <1> HIDE DEF p, ok, sent
  <1>8. /\ p.log \in Log /\ p.log.again = l.again /\ p.log.read = l.read /\ p.log.over = l.over /\ p.log.sent = sent
    BY <1>3, <1>4 DEF Log
  <1>9. Passes(p, s, l, e)
    BY <1>2, <1>3, <1>7, <1>8 DEF Passes
  <1> QED
    BY <1>9 DEF p

\* Whatever becomes of an event, the order of its stream is kept.
LEMMA EventPasses ==
    ASSUME NEW s \in Spp, NEW l \in Log, NEW e \in Event, Packs(s, enable), peer \in BOOLEAN,
           e.size + 2 <= MaxDataSize, enable \in BOOLEAN
    PROVE  Passes(send_bpk_event(s, l, e), s, l, e)
  <1>0. check_spp_auto_cmd_event(e) \in BOOLEAN
    BY DEF check_spp_auto_cmd_event
  <1>1. CASE enable /\ check_spp_auto_cmd_event(e) /\ s.count > 0
    <2>1. send_bpk_event(s, l, e) = Pack(s, l, e)
      BY <1>1 DEF send_bpk_event
    <2>2. enable = TRUE /\ check_spp_auto_cmd_event(e) = TRUE /\ s.count > 0
      BY <1>0, <1>1
    <2>3. Passes(Pack(s, l, e), s, l, e)
      BY <2>2, PackPasses
    <2> QED
      BY <2>1, <2>3
  <1>2. CASE ~(enable /\ check_spp_auto_cmd_event(e) /\ s.count > 0)
    BY <1>2, SentPasses
  <1> QED
    BY <1>1, <1>2

\* What reading an event changes in the handler.
LEMMA HandlerType ==
    ASSUME NEW s \in Spp, NEW e \in Event
    PROVE  LET t == i3c_ibi_handler(s, e)
           IN  t \in Spp /\ t.bulk = s.bulk /\ t.count = s.count /\ t.packed = s.packed
  <1> DEFINE t == i3c_ibi_handler(s, e)
             thr == [s.thr EXCEPT ![e.dev] = FALSE]
             auto == [s.auto EXCEPT ![e.dev] = @ - 1]
  <1>1. e.dev \in Devices /\ s.thr \in [Devices -> BOOLEAN] /\ s.auto \in [Devices -> 0..255]
    BY DEF Event, Spp
  <1>2. CASE e.kind = "shake"
    <2>1. t = [s EXCEPT !.thr = thr]
      BY <1>2 DEF i3c_ibi_handler, Spp
    <2>2. thr \in [Devices -> BOOLEAN]
      BY <1>1
    <2> HIDE DEF thr, t
    <2>3. t \in Spp /\ t.bulk = s.bulk /\ t.count = s.count /\ t.packed = s.packed
      BY <2>1, <2>2 DEF Spp
    <2> QED
      BY <2>3 DEF t
  <1>3. CASE e.kind = "data" /\ s.bulk /\ s.auto[e.dev] > 0
    <2>1. t = [s EXCEPT !.auto = auto]
      BY <1>3 DEF i3c_ibi_handler, Spp
    <2>2. s.auto[e.dev] \in 0..255
      BY <1>1
    <2>3. s.auto[e.dev] - 1 \in 0..255
      BY <1>3, <2>2
    <2>4. auto \in [Devices -> 0..255]
      BY <1>1, <2>3
    <2> HIDE DEF auto, t
    <2>5. t \in Spp /\ t.bulk = s.bulk /\ t.count = s.count /\ t.packed = s.packed
      BY <2>1, <2>4 DEF Spp
    <2> QED
      BY <2>5 DEF t
  <1>4. CASE e.kind # "shake" /\ ~(e.kind = "data" /\ s.bulk /\ s.auto[e.dev] > 0)
    <2>1. t = s
      BY <1>4 DEF i3c_ibi_handler
    <2> QED
      BY <2>1
  <1> QED
    BY <1>2, <1>3, <1>4

\* r is what reading device d may give.
Read(r, d) ==
    /\ r.e \in Event /\ r.e.dev = d /\ r.e.size + 2 <= MaxDataSize
    /\ r.fault \in BOOLEAN
    /\ r.fault = TRUE => r.e.id = 0 /\ raised < MaxEvents

\* Every reading of a device that has an event is such a one.
LEMMA ReadsType ==
    ASSUME Outside, NEW d \in Devices, ibis[d] # <<>>, NEW stale \in Kinds, NEW r \in Reads(d, stale)
    PROVE  Read(r, d)
  <1>1. CASE r = [e |-> Head(ibis[d]), fault |-> FALSE]
    <2>1. ibis[d] \in Seq(Raised(d))
      BY DEF Outside
    <2>2. Head(ibis[d]) \in Raised(d)
      BY <2>1
    <2>3. r.e = Head(ibis[d]) /\ r.fault = FALSE
      BY <1>1
    <2> QED
      BY <2>2, <2>3 DEF Raised, Read
  <1>2. CASE /\ r = [e |-> [id |-> 0, dev |-> d, kind |-> stale, size |-> EventBuffer], fault |-> TRUE]
             /\ raised < MaxEvents
    BY <1>2, Constants DEF Read, Event
  <1> QED
    BY <1>1, <1>2 DEF Reads

\* Reading takes the event away.
LEMMA ConsumedOutside ==
    ASSUME Outside, NEW d \in Devices, NEW r, Read(r, d), ibis[d] # <<>>, Consumed(r),
           UNCHANGED <<open, enable, peer>>
    PROVE  Outside' /\ \A c \in Devices : c # d => ibis'[c] = ibis[c]
  <1>1. CASE r.fault = TRUE
    <2>1. ibis' = ibis /\ raised' = raised + 1 /\ raised < MaxEvents
      BY <1>1 DEF Consumed, Read
    <2>2. raised' \in 0..MaxEvents
      BY <2>1, Constants DEF Outside
    <2> QED
      BY <2>1, <2>2 DEF Outside
  <1>2. CASE r.fault = FALSE
    <2>1. raised' = raised /\ ibis' = [ibis EXCEPT ![d] = Tail(@)]
      BY <1>2 DEF Consumed, Read
    <2>2. ibis \in [Devices -> Seq(Event)] /\ ibis[d] \in Seq(Raised(d)) /\ ibis[d] \in Seq(Event)
      BY DEF Outside
    <2>3. Tail(ibis[d]) \in Seq(Raised(d)) /\ Tail(ibis[d]) \in Seq(Event)
      BY <2>2, HeadTailProperties
    <2>4. ibis' \in [Devices -> Seq(Event)] /\ ibis'[d] = Tail(ibis[d]) /\ \A c \in Devices : c # d => ibis'[c] = ibis[c]
      BY <2>1, <2>2, <2>3
    <2>5. \A c \in Devices : ibis'[c] \in Seq(Raised(c))
      BY <2>3, <2>4 DEF Outside
    <2> QED
      BY <2>1, <2>4, <2>5 DEF Outside
  <1> QED
    BY <1>1, <1>2 DEF Read

\* An event that is read is sent or packed, and no promise about the events is
\* broken.
LEMMA PassedSound ==
    ASSUME Outside, Sound(spp, log, enable, peer), NEW d \in Devices, NEW r, Read(r, d)
    PROVE  LET p == Passed(r)
           IN  /\ Sound(p.spp, p.log, enable, peer)
               /\ p.spp.bulk = spp.bulk /\ p.log.again = log.again
               /\ p.log.over = FALSE => log.over = FALSE
               /\ p.ok \in BOOLEAN
               /\ peer = TRUE /\ p.log.over = FALSE => p.ok = TRUE
  <1> DEFINE p == Passed(r)
             e == r.e
             s == IF r.fault THEN spp ELSE i3c_ibi_handler(spp, e)
             l == IF r.fault THEN log ELSE [log EXCEPT !.read = Append(@, e)]
  <1>0. /\ e \in Event /\ e.size + 2 <= MaxDataSize /\ r.fault \in BOOLEAN /\ (r.fault = TRUE => e.id = 0)
        /\ peer \in BOOLEAN /\ enable \in BOOLEAN
    BY DEF Read, Outside
  <1>1. spp \in Spp /\ log \in Log /\ Packs(spp, enable) /\ log.read \in Seq(Event) /\ log.over \in BOOLEAN
    BY DEF Sound, Log
  <1>2. s \in Spp /\ s.bulk = spp.bulk /\ s.count = spp.count /\ s.packed = spp.packed
    BY <1>0, <1>1, HandlerType
  <1>3. l \in Log /\ l.again = log.again /\ l.over = log.over /\ l.sent = log.sent
    <2>1. Append(log.read, e) \in Seq(Event)
      BY <1>0, <1>1
    <2> QED
      BY <1>0, <1>1, <2>1 DEF Log
  <1>4. ASSUME NEW c \in Devices, NEW auto \in BOOLEAN
        PROVE  Stream(l.read, c, auto) = Chosen(Stream(log.read, c, auto), e, c, auto)
    <2>1. CASE r.fault = TRUE
      <3>1. ~Matches(e, c, auto)
        BY <1>0, <2>1 DEF Matches
      <3> QED
        BY <2>1, <3>1 DEF Chosen
    <2>2. CASE r.fault = FALSE
      <3>1. l.read = Append(log.read, e)
        BY <1>1, <2>2 DEF Log
      <3> HIDE DEF l, e
      <3>2. Stream(Append(log.read, e), c, auto) = Chosen(Stream(log.read, c, auto), e, c, auto)
        BY <1>0, <1>1, StreamAppend
      <3> QED
        BY <3>1, <3>2
    <2> QED
      BY <1>0, <2>1, <2>2
  <1>5. p = send_bpk_event(s, l, e)
    BY DEF Passed
  <1> HIDE DEF s, l
  <1>6. Packs(s, enable)
    BY <1>1, <1>2 DEF Packs
  <1> HIDE DEF p, e
  <1>7. Passes(p, s, l, e)
    BY <1>0, <1>2, <1>3, <1>5, <1>6, EventPasses
  <1>8. /\ p.spp \in Spp /\ p.log \in Log /\ p.ok \in BOOLEAN /\ Packs(p.spp, enable)
        /\ p.spp.bulk = spp.bulk /\ p.log.again = log.again /\ p.log.read = l.read
        /\ p.log.over = FALSE => log.over = FALSE
        /\ p.log.over = FALSE /\ spp.count <= MaxDataSize => p.spp.count <= MaxDataSize
        /\ spp.count = 0 => p.spp.count = 0
        /\ peer = TRUE /\ spp.count <= MaxDataSize =>
             /\ p.ok = TRUE
             /\ \A c \in Devices, auto \in BOOLEAN :
                  Stream(p.log.sent \o p.spp.packed, c, auto)
                    = Chosen(Stream(log.sent \o spp.packed, c, auto), e, c, auto)
    BY <1>2, <1>3, <1>7 DEF Passes
  <1>9. log.over = FALSE => spp.count <= MaxDataSize
    BY DEF Sound
  <1>10. ASSUME peer = TRUE, p.log.over = FALSE, p.log.again = FALSE
         PROVE  Kept(p.spp, p.log)
    <2>1. Kept(spp, log) /\ spp.count <= MaxDataSize
      BY <1>8, <1>9, <1>10 DEF Sound
    <2>2. ASSUME NEW c \in Devices, NEW auto \in BOOLEAN
          PROVE  Stream(p.log.sent \o p.spp.packed, c, auto) = Stream(p.log.read, c, auto)
      <3>1. Stream(log.sent \o spp.packed, c, auto) = Stream(log.read, c, auto)
        BY <2>1 DEF Kept
      <3>2. Stream(p.log.sent \o p.spp.packed, c, auto)
              = Chosen(Stream(log.sent \o spp.packed, c, auto), e, c, auto)
        BY <1>8, <1>10, <2>1
      <3> QED
        BY <1>4, <1>8, <3>1, <3>2
    <2> QED
      BY <2>2 DEF Kept
  <1>11. log.again = FALSE => spp.bulk = TRUE \/ spp.count = 0
    BY DEF Sound
  <1>12. Sound(p.spp, p.log, enable, peer)
    BY <1>8, <1>9, <1>10, <1>11 DEF Sound
  <1>13. peer = TRUE /\ p.log.over = FALSE => p.ok = TRUE
    BY <1>8, <1>9
  <1> QED
    BY <1>8, <1>12, <1>13 DEF p

-----------------------------------------------------------------------------
(* Every step keeps the invariant. *)

\* A step within process_spp_message, ...
LEMMA MovesTo ==
    ASSUME Outside', Moves, UNCHANGED <<enable, peer>>
    PROVE  IInv'
  <1>1. Sound(spp', log', enable', peer') /\ At(spp', msg', log', wait', pc', peer') /\ wait'.ready = {}
    BY DEF Moves
  <1>2. Sound(spp, log, enable, peer)' /\ At(spp, msg, log, wait, pc, peer)'
    BY <1>1
  <1> QED
    BY <1>1, <1>2 DEF IInv

\* ... which leaves the devices and their events alone.
LEMMA MovesKeep ==
    ASSUME IInv, Moves, UNCHANGED <<open, enable, peer, ibis, raised>>
    PROVE  IInv'
  <1>1. Outside'
    BY DEF IInv, Outside
  <1> QED
    BY <1>1, MovesTo

\* The handler may change what no promise is about.
LEMMA SoundSame ==
    ASSUME NEW s, NEW t \in Spp, NEW l, NEW on, NEW p, Sound(s, l, on, p),
           t.bulk = s.bulk, t.count = s.count, t.packed = s.packed
    PROVE  Sound(t, l, on, p)
  <1>1. Packs(t, on)
    BY DEF Sound, Packs
  <1>2. Kept(s, l) => Kept(t, l)
    BY DEF Kept
  <1> QED
    BY <1>1, <1>2 DEF Sound

\* The first states.
LEMMA InitIInv == Init => IInv
  <1> SUFFICES ASSUME Init PROVE IInv
    OBVIOUS
  <1>1. <<>> \in Seq(Event) /\ \A d \in Devices : <<>> \in Seq(Raised(d))
    BY EmptySeq
  <1>2. Outside
    <2>1. ibis \in [Devices -> Seq(Event)] /\ \A d \in Devices : ibis[d] = <<>>
      BY <1>1 DEF Init
    <2>2. raised \in 0..MaxEvents
      BY Constants DEF Init
    <2>3. open \subseteq Devices /\ enable \in BOOLEAN /\ peer \in BOOLEAN
      BY DEF Init
    <2> QED
      BY <1>1, <2>1, <2>2, <2>3 DEF Outside
  <1>3. spp \in Spp /\ spp.count = 0 /\ spp.packed = <<>> /\ spp.bulk = FALSE
    BY <1>1 DEF Init, Spp
  <1>4. log \in Log /\ log.sent = <<>> /\ log.read = <<>>
    BY Constants DEF Init, NoLog
  <1>5. Kept(spp, log)
    <2>1. <<>> \o <<>> = <<>>
      BY <1>1, ConcatEmptySeq
    <2> QED
      BY <1>3, <1>4, <2>1 DEF Kept
  <1>6. Packs(spp, enable)
    <2>1. Len(<<>>) = 0
      OBVIOUS
    <2> QED
      BY <1>3, <2>1, Constants DEF Packs
  <1>7. Sound(spp, log, enable, peer)
    BY <1>3, <1>4, <1>5, <1>6, Constants DEF Sound
  <1>8. At(spp, msg, log, wait, pc, peer)
    BY <1>3, Constants DEF Init, At, May
  <1>9. wait.ready = {}
    BY DEF Init, NoWait
  <1> QED
    BY <1>2, <1>7, <1>8, <1>9 DEF IInv

\* What the actions of process_spp_message start from.
LEMMA Within ==
    ASSUME IInv, pc \in {"cmd", "send", "tail", "settle", "wait"}
    PROVE  /\ Sound(spp, log, enable, peer) /\ Halfway(spp, msg, log, peer)
           /\ msg \in Msg /\ peer \in BOOLEAN /\ enable \in BOOLEAN /\ spp \in Spp /\ log \in Log
           /\ pc # "wait" => May(spp, msg, pc)
           /\ pc = "wait" => May(spp, msg, wait.then) /\ wait.then \in {"send", "tail", "settle"} /\ wait \in Wait
  BY DEF IInv, At, Outside, Sound

\* A command is taken.
LEMMA TakenType ==
    ASSUME IInv, pc = "cmd", NEW kind \in {"send", "cmd", "xfer", "plain", "bad"}, NEW d \in 0..MaxDevices,
           NEW last \in BOOLEAN
    PROVE  LET m == Taken(kind, d, last)
           IN  m \in Msg /\ m.answers = msg.answers /\ m.addr = d /\ Halfway(spp, m, log, peer)
  <1> DEFINE m == Taken(kind, d, last)
             n == msg.cmds + 1
             ba == IF spp.bulk /\ kind # "plain" /\ d \in Devices THEN d ELSE msg.bulkaddr
  <1>1. msg \in Msg /\ Halfway(spp, msg, log, peer)
    BY Within
  <1>2. n \in Nat /\ ba \in Devices /\ d \in Nat
    BY <1>1, Constants DEF Msg
  <1>3. m = [msg EXCEPT !.cmds = n, !.kind = kind, !.addr = d, !.last = last, !.bulkaddr = ba]
    BY DEF Taken
  <1> HIDE DEF m, n, ba
  <1>4. m \in Msg /\ m.answers = msg.answers /\ m.addr = d
    BY <1>1, <1>2, <1>3 DEF Msg
  <1>5. Halfway(spp, m, log, peer)
    BY <1>1, <1>4 DEF Halfway
  <1> QED
    BY <1>4, <1>5 DEF m

\* The response is full.
LEMMA FullResponseKeeps == ASSUME IInv, FullResponse PROVE IInv'
  <1>1. pc = "cmd" /\ EndLoop(spp, msg, log, FALSE)
    BY DEF FullResponse
  <1>2. Moves
    BY <1>1, Within, EndLoopMoves
  <1> QED
    BY <1>2, MovesKeep DEF FullResponse

\* A send is begun.
LEMMA SelectKeeps ==
    ASSUME IInv, NEW kind \in {"send", "cmd", "xfer"}, NEW d \in Devices, NEW last \in BOOLEAN,
           Select(kind, d, last)
    PROVE  IInv'
  <1> DEFINE m == Taken(kind, d, last)
  <1>1. pc = "cmd" /\ d \in 0..MaxDevices
    BY Constants DEF Select, Ready, Devices
  <1>2. m \in Msg /\ m.addr = d /\ Halfway(spp, m, log, peer)
    BY <1>1, TakenType
  <1>3. /\ d \in open => Await(spp, m, log, "thr", d, "send")
        /\ d \notin open => EndLoop(spp, m, log, FALSE)
    BY DEF Select
  <1>4. Sound(spp, log, enable, peer) /\ peer \in BOOLEAN
    BY <1>1, Within
  <1> HIDE DEF m
  <1>5. May(spp, m, "send")
    BY <1>2 DEF May
  <1>6. ASSUME d \in open PROVE Moves
    BY <1>2, <1>3, <1>4, <1>5, <1>6, AwaitMoves
  <1>7. ASSUME d \notin open PROVE Moves
    BY <1>2, <1>3, <1>4, <1>7, EndLoopMoves
  <1>8. Moves
    BY <1>6, <1>7
  <1> QED
    BY <1>8, MovesKeep DEF Select

\* SPP_RECEIVE.
LEMMA ReceiveKeeps ==
    ASSUME IInv, NEW d \in Devices, NEW last \in BOOLEAN, Receive(d, last)
    PROVE  IInv'
  <1> DEFINE m == Taken("plain", d, last)
  <1>1. pc = "cmd" /\ d \in 0..MaxDevices
    BY Constants DEF Receive, Ready, Devices
  <1>2. m \in Msg /\ Halfway(spp, m, log, peer)
    BY <1>1, TakenType
  <1>3. /\ d \in open => \E n \in 0..RxLen : Answered(spp, m, 4 + n, 4 + RxLen, TRUE)
        /\ d \notin open => EndLoop(spp, m, log, FALSE)
    BY DEF Receive
  <1>4. Sound(spp, log, enable, peer) /\ peer \in BOOLEAN
    BY <1>1, Within
  <1> HIDE DEF m
  <1>6. ASSUME d \in open PROVE Moves
    <2>1. PICK n \in 0..RxLen : Answered(spp, m, 4 + n, 4 + RxLen, TRUE)
      BY <1>3, <1>6
    <2> DEFINE a == 4 + n
               b == 4 + RxLen
    <2>2. a \in Nat /\ b \in Nat
      BY Constants
    <2>3. Answered(spp, m, a, b, TRUE)
      BY <2>1
    <2> HIDE DEF a, b
    <2> QED
      BY <1>2, <1>4, <2>2, <2>3, AnsweredMoves
  <1>7. ASSUME d \notin open PROVE Moves
    BY <1>2, <1>3, <1>4, <1>7, EndLoopMoves
  <1>8. Moves
    BY <1>6, <1>7
  <1> QED
    BY <1>8, MovesKeep DEF Receive

\* A command that does nothing.
LEMMA IdleCommandKeeps ==
    ASSUME IInv, NEW n \in {0, 2}, NEW last \in BOOLEAN, IdleCommand(n, last)
    PROVE  IInv'
  <1> DEFINE m == Taken("plain", 0, last)
  <1>1. pc = "cmd" /\ 0 \in 0..MaxDevices /\ n \in Nat
    BY Constants DEF IdleCommand, Ready
  <1>2. m \in Msg /\ Halfway(spp, m, log, peer)
    BY <1>1, TakenType
  <1>3. Answered(spp, m, n, n, TRUE)
    BY DEF IdleCommand
  <1> HIDE DEF m
  <1>4. Moves
    BY <1>1, <1>2, <1>3, Within, AnsweredMoves
  <1> QED
    BY <1>4, MovesKeep DEF IdleCommand

\* A command that is not one.
LEMMA BadCommandKeeps ==
    ASSUME IInv, NEW d \in 0..MaxDevices, BadCommand(d)
    PROVE  IInv'
  <1> DEFINE m == Taken("bad", d, TRUE)
  <1>1. pc = "cmd"
    BY DEF BadCommand, Ready
  <1>2. m \in Msg /\ Halfway(spp, m, log, peer)
    BY <1>1, TakenType
  <1>3. EndLoop(spp, m, log, FALSE)
    BY DEF BadCommand
  <1> HIDE DEF m
  <1>4. Moves
    BY <1>1, <1>2, <1>3, Within, EndLoopMoves
  <1> QED
    BY <1>4, MovesKeep DEF BadCommand

\* The transfer of a send.
LEMMA TransferKeeps == ASSUME IInv, Transfer PROVE IInv'
  <1>1. pc = "send"
    BY DEF Transfer
  <1>2. /\ Sound(spp, log, enable, peer) /\ Halfway(spp, msg, log, peer)
        /\ msg \in Msg /\ peer \in BOOLEAN /\ spp \in Spp /\ msg.addr \in Devices
    BY <1>1, Within DEF May
  <1>3. PICK ok \in BOOLEAN :
         \/ msg.kind = "send" /\ \E empty \in BOOLEAN : spp_send(ok, empty)
         \/ msg.kind = "cmd" /\ Answered(spp, msg, 5, 5, ok)
         \/ msg.kind = "xfer" /\ spp_send_receive_cmd(ok)
    BY DEF Transfer
  <1>4. ASSUME NEW empty \in BOOLEAN, spp_send(ok, empty)
        PROVE  Moves
    <2> DEFINE d == msg.addr
               n == IF spp.bulk THEN (spp.auto[d] + 1) % 256 ELSE spp.auto[d]
               thr == [spp.thr EXCEPT ![d] = TRUE]
               auto == [spp.auto EXCEPT ![d] = n]
               t == [spp EXCEPT !.thr = thr, !.auto = auto]
               s == IF empty THEN spp ELSE t
               fine == ok /\ ~empty
    <2>1. [spp EXCEPT !.thr[d] = TRUE, !.auto[d] = IF spp.bulk THEN (@ + 1) % 256 ELSE @] = t
      BY <1>2 DEF Spp
    <2>2. Answered(s, msg, 4, 4, fine)
      BY <1>4, <2>1 DEF spp_send
    <2>3. spp.auto[d] \in 0..255 /\ spp.auto \in [Devices -> 0..255] /\ spp.thr \in [Devices -> BOOLEAN]
      BY <1>2 DEF Spp
    <2> HIDE DEF d
    <2>4. n \in 0..255
      BY <2>3
    <2>5. thr \in [Devices -> BOOLEAN] /\ auto \in [Devices -> 0..255]
      BY <2>3, <2>4
    <2> HIDE DEF n, thr, auto
    <2>6. t \in Spp /\ t.bulk = spp.bulk /\ t.count = spp.count /\ t.packed = spp.packed
      BY <1>2, <2>5 DEF Spp
    <2> HIDE DEF t
    <2>7. s \in Spp /\ s.bulk = spp.bulk /\ s.count = spp.count /\ s.packed = spp.packed
      BY <1>2, <2>6
    <2>8. fine \in BOOLEAN
      OBVIOUS
    <2> HIDE DEF s, fine
    <2>9. Sound(s, log, enable, peer)
      BY <1>2, <2>7, SoundSame
    <2>10. Halfway(s, msg, log, peer)
      BY <1>2, <2>7 DEF Halfway
    <2>11. 4 \in Nat
      OBVIOUS
    <2> QED
      BY <1>2, <2>2, <2>8, <2>9, <2>10, <2>11, AnsweredMoves
  <1>5. ASSUME Answered(spp, msg, 5, 5, ok) PROVE Moves
    <2>1. 5 \in Nat
      OBVIOUS
    <2> QED
      BY <1>2, <1>5, <2>1, AnsweredMoves
  <1>6. ASSUME NEW n \in 0..MaxDataSize, NEW written \in {0, OpcodeLen},
               Answered(spp, msg, IF ok THEN 7 + n ELSE 7, 7 + written, ok)
        PROVE  Moves
    <2> DEFINE a == IF ok THEN 7 + n ELSE 7
               b == 7 + written
    <2>1. a \in Nat /\ b \in Nat
      BY Constants
    <2>2. Answered(spp, msg, a, b, ok)
      BY <1>6
    <2> HIDE DEF a, b
    <2> QED
      BY <1>2, <2>1, <2>2, AnsweredMoves
  <1>7. ASSUME EndLoop(spp, msg, log, FALSE) PROVE Moves
    BY <1>2, <1>7, EndLoopMoves
  <1>8. ASSUME spp_send_receive_cmd(ok) PROVE Moves
    BY <1>6, <1>7, <1>8 DEF spp_send_receive_cmd
  <1>9. Moves
    BY <1>3, <1>4, <1>5, <1>8
  <1> QED
    BY <1>9, MovesKeep DEF Transfer

\* The end of a bulk message: the data is waited for.
LEMMA TailWaitKeeps == ASSUME IInv, TailWait PROVE IInv'
  <1>1. pc = "tail" /\ Await(spp, msg, log, "auto", msg.bulkaddr, "settle")
    BY DEF TailWait
  <1>2. /\ Sound(spp, log, enable, peer) /\ Halfway(spp, msg, log, peer)
        /\ msg \in Msg /\ msg.bulkaddr \in Devices
    BY <1>1, Within DEF Msg
  <1>3. May(spp, msg, "settle")
    BY <1>1, Within DEF May
  <1>4. Moves
    BY <1>1, <1>2, <1>3, AwaitMoves
  <1> QED
    BY <1>4, MovesKeep DEF TailWait

\* SPP_BULK.
LEMMA BulkKeeps ==
    ASSUME IInv, NEW last \in BOOLEAN, Bulk(last)
    PROVE  IInv'
  <1> DEFINE k == Taken("plain", 0, last)
             n == k.cnt + 2
             m == [k EXCEPT !.cnt = n]
             packed == [i \in DOMAIN spp.packed |-> [spp.packed[i] EXCEPT !.id = 0]]
             s == [spp EXCEPT !.packed = packed]
             over == log.over \/ m.cnt > MaxDataSize
             again == log.again \/ spp.bulk
             l == [log EXCEPT !.over = over, !.again = again]
             a == [m EXCEPT !.answers = @ + 1]
             c == [a EXCEPT !.kind = "none"]
             b == [Restarted(s) EXCEPT !.bulk = TRUE]
  <1>1. pc = "cmd" /\ 0 \in 0..MaxDevices
    BY Constants DEF Bulk, Ready
  <1>2. k \in Msg /\ k.answers = msg.answers
    BY <1>1, TakenType
  <1>3. /\ send_response(m.cnt) /\ last => EndLoop(b, a, l, TRUE)
        /\ send_response(m.cnt) /\ ~last => GoTo(b, c, l, "cmd")
        /\ ~send_response(m.cnt) => Return(s, m, l, FALSE)
    BY DEF Bulk
  <1>4. /\ Sound(spp, log, enable, peer) /\ Halfway(spp, msg, log, peer)
        /\ msg \in Msg /\ peer \in BOOLEAN /\ enable \in BOOLEAN /\ spp \in Spp /\ log \in Log
    BY <1>1, Within
  <1>5. /\ spp.packed \in Seq(Event) /\ spp.bulk \in BOOLEAN /\ spp.count \in Nat
        /\ log.over \in BOOLEAN /\ log.again \in BOOLEAN /\ log.sent \in Seq(Event)
    BY <1>4 DEF Spp, Log
  <1>6. packed \in Seq(Event) /\ Len(packed) = Len(spp.packed)
        /\ \A i \in 1..Len(packed) : packed[i].kind = spp.packed[i].kind
    <2> DEFINE q == spp.packed
               z(i) == [q[i] EXCEPT !.id = 0]
    <2>1. q \in Seq(Event) /\ Len(q) \in Nat /\ DOMAIN q = 1..Len(q)
      BY <1>5
    <2>2. \A i \in 1..Len(q) : z(i) \in Event /\ z(i).kind = q[i].kind
      <3>1. \A i \in 1..Len(q) : q[i] \in Event
        BY <2>1
      <3> QED
        BY <3>1 DEF Event
    <2>3. packed = [i \in 1..Len(q) |-> z(i)]
      BY <2>1
    <2> HIDE DEF q, z, packed
    <2>4. packed \in [1..Len(q) -> Event]
      BY <2>2, <2>3
    <2>5. packed \in Seq(Event) /\ Len(packed) = Len(q)
      BY <2>1, <2>4, SeqDef, LenProperties
    <2> QED
      BY <2>2, <2>3, <2>5 DEF q
  <1>7. n \in Nat
    BY <1>2 DEF Msg
  <1> HIDE DEF k, packed
  <1>8. m \in Msg /\ m.answers = msg.answers /\ m.cnt = n
    <2> HIDE DEF n
    <2> QED
      BY <1>2, <1>7 DEF Msg
  <1> HIDE DEF n, m
  <1>9. over \in BOOLEAN /\ again \in BOOLEAN /\ (over = FALSE => log.over = FALSE)
        /\ (again = FALSE => log.again = FALSE /\ spp.bulk = FALSE)
    BY <1>5
  <1> HIDE DEF over, again
  <1>10. l \in Log /\ l.over = over /\ l.again = again /\ l.sent = log.sent /\ l.read = log.read
    BY <1>4, <1>9 DEF Log
  <1> HIDE DEF l
  <1>11. s \in Spp /\ s.bulk = spp.bulk /\ s.count = spp.count /\ s.packed = packed
    BY <1>4, <1>6 DEF Spp
  <1>12. <<>> \in Seq(Event) /\ Len(<<>>) = 0
    BY EmptySeq
  <1>13. b \in Spp /\ b.bulk = TRUE /\ b.count = 2 /\ b.packed = <<>>
    BY <1>11, <1>12 DEF Spp, Restarted
  <1> HIDE DEF s, b
  <1>14. again = FALSE => spp.count = 0 /\ spp.packed = <<>> /\ packed = <<>>
    <2>1. again = FALSE => spp.count = 0 /\ spp.packed = <<>>
      BY <1>4, <1>9 DEF Sound, Packs
    <2>2. spp.packed = <<>> => packed = <<>>
      BY <1>6, <1>12, EmptySeq
    <2> QED
      BY <2>1, <2>2
  <1>15. peer = TRUE /\ over = FALSE /\ again = FALSE => Kept(s, l) /\ Kept(b, l)
    <2>1. peer = TRUE /\ over = FALSE /\ again = FALSE => Kept(spp, log)
      BY <1>4, <1>9 DEF Sound
    <2> QED
      BY <1>10, <1>11, <1>13, <1>14, <2>1 DEF Kept
  <1>16. Packs(s, enable)
    <2>1. /\ \A i \in 1..Len(spp.packed) : check_spp_auto_cmd_event(spp.packed[i]) = TRUE
          /\ spp.count = 0 => spp.packed = <<>>
          /\ enable = FALSE => spp.packed = <<>>
          /\ Len(spp.packed) <= IbiMaxCount
      BY <1>4 DEF Sound, Packs
    <2>2. spp.packed = <<>> => packed = <<>>
      BY <1>6, <1>12, EmptySeq
    <2>3. \A i \in 1..Len(packed) : check_spp_auto_cmd_event(packed[i]) = TRUE
      BY <1>6, <2>1 DEF check_spp_auto_cmd_event
    <2> QED
      BY <1>6, <1>11, <2>1, <2>2, <2>3 DEF Packs
  <1>17. Packs(b, enable)
    BY <1>12, <1>13, Constants DEF Packs
  <1>18. log.over = FALSE => spp.count <= MaxDataSize
    BY <1>4 DEF Sound
  <1>19. Sound(s, l, enable, peer)
    BY <1>9, <1>10, <1>11, <1>14, <1>15, <1>16, <1>18 DEF Sound
  <1>20. Sound(b, l, enable, peer)
    BY <1>9, <1>10, <1>13, <1>14, <1>15, <1>17, Constants DEF Sound
  <1>21. peer = TRUE /\ over = FALSE /\ again = FALSE => msg.answers = 0
    BY <1>4, <1>9 DEF Halfway
  <1>22. ASSUME ~send_response(m.cnt) PROVE Moves
    <2>1. Return(s, m, l, FALSE)
      BY <1>3, <1>22
    <2>2. l.again = FALSE => s.bulk = FALSE
      BY <1>9, <1>10, <1>11
    <2>3. peer = TRUE /\ l.over = FALSE /\ l.again = FALSE => m.answers = IF FALSE = TRUE THEN 1 ELSE 0
      BY <1>8, <1>10, <1>21
    <2> QED
      BY <1>4, <1>8, <1>19, <2>1, <2>2, <2>3, ReturnMoves
  <1>23. a \in Msg /\ a.answers = m.answers + 1 /\ c \in Msg /\ c.answers = m.answers + 1
    <2> DEFINE x == m.answers + 1
    <2>1. x \in Nat
      BY <1>8 DEF Msg
    <2>2. a = [m EXCEPT !.answers = x]
      OBVIOUS
    <2> HIDE DEF x, a
    <2>3. a \in Msg /\ a.answers = x
      BY <1>8, <2>1, <2>2 DEF Msg
    <2>4. c \in Msg /\ c.answers = x
      BY <2>3 DEF Msg
    <2> QED
      BY <2>3, <2>4 DEF x
  <1> HIDE DEF c
  <1> HIDE DEF a
  <1>24. Halfway(b, a, l, peer) /\ Halfway(b, c, l, peer)
    BY <1>8, <1>10, <1>13, <1>21, <1>23 DEF Halfway
  <1>25. ASSUME send_response(m.cnt), last = TRUE PROVE Moves
    BY <1>3, <1>4, <1>20, <1>23, <1>24, <1>25, EndLoopMoves
  <1>26. ASSUME send_response(m.cnt), last = FALSE PROVE Moves
    <2>1. May(b, c, "cmd")
      BY DEF May
    <2> QED
      BY <1>3, <1>20, <1>23, <1>24, <1>26, <2>1, GoToMoves
  <1>27. Moves
    BY <1>22, <1>25, <1>26
  <1> QED
    BY <1>27, MovesKeep DEF Bulk

\* The bulk response is sent and closed.
LEMMA SettleKeeps == ASSUME IInv, Settle PROVE IInv'
  <1> DEFINE r == send_bulk_bpk_event(spp, log)
             ok == send_response(spp.count)
             sent == IF ok THEN log.sent \o spp.packed ELSE log.sent
             l == [log EXCEPT !.sent = sent]
             s == Closed(spp)
  <1>1. pc = "settle"
    BY DEF Settle
  <1>2. /\ Sound(spp, log, enable, peer) /\ Halfway(spp, msg, log, peer)
        /\ msg \in Msg /\ peer \in BOOLEAN /\ spp \in Spp /\ log \in Log /\ spp.bulk = TRUE
    BY <1>1, Within DEF May
  <1>3. Return(s, msg, l, ok)
    BY DEF Settle, send_bulk_bpk_event, State
  <1>4. spp.packed \in Seq(Event) /\ log.sent \in Seq(Event) /\ log.sent \o spp.packed \in Seq(Event)
    BY <1>2, ConcatProperties DEF Spp, Log
  <1>5. sent \in Seq(Event)
    BY <1>4
  <1>6. ok \in BOOLEAN /\ (peer = TRUE /\ log.over = FALSE => ok = TRUE)
    BY <1>2 DEF Sound, send_response
  <1>7. ok = TRUE => sent \o <<>> = log.sent \o spp.packed
    BY <1>4, ConcatEmptySeq
  <1> HIDE DEF sent, ok
  <1>8. l \in Log /\ l.sent = sent /\ l.over = log.over /\ l.again = log.again /\ l.read = log.read
    BY <1>2, <1>5 DEF Log
  <1>9. <<>> \in Seq(Event) /\ Len(<<>>) = 0
    BY EmptySeq
  <1>10. s \in Spp /\ s.bulk = FALSE /\ s.count = 0 /\ s.packed = <<>>
    BY <1>2, <1>9 DEF Closed, Spp
  <1> HIDE DEF l, s
  <1>11. peer = TRUE /\ l.over = FALSE /\ l.again = FALSE => Kept(s, l)
    <2>1. peer = TRUE /\ l.over = FALSE /\ l.again = FALSE => Kept(spp, log) /\ ok = TRUE
      BY <1>2, <1>6, <1>8 DEF Sound
    <2> QED
      BY <1>7, <1>8, <1>10, <2>1 DEF Kept
  <1>12. Packs(s, enable)
    BY <1>9, <1>10, Constants DEF Packs
  <1>13. Sound(s, l, enable, peer)
    BY <1>8, <1>10, <1>11, <1>12, Constants DEF Sound
  <1>14. peer = TRUE /\ l.over = FALSE /\ l.again = FALSE => msg.answers = IF ok = TRUE THEN 1 ELSE 0
    BY <1>2, <1>6, <1>8 DEF Halfway
  <1>15. Moves
    BY <1>2, <1>3, <1>6, <1>10, <1>13, <1>14, ReturnMoves
  <1> QED
    BY <1>15, MovesKeep DEF Settle

\* The wait: devices are ready, ...
LEMMA PollKeeps == ASSUME IInv, Poll PROVE IInv'
  <1> DEFINE ready == {d \in Polled : ibis[d] # <<>>}
  <1>1. /\ pc = "wait" /\ wait' = [wait EXCEPT !.ready = ready]
        /\ UNCHANGED <<open, enable, peer, ibis, raised, spp, pc, msg, log>>
    BY DEF Poll
  <1>2. wait \in Wait /\ At(spp, msg, log, wait, pc, peer) /\ open \subseteq Devices
    BY DEF IInv, At, Outside
  <1>3. ready \subseteq Devices
    BY <1>2 DEF Polled
  <1>4. Outside'
    BY <1>1 DEF IInv, Outside
  <1>5. Sound(spp, log, enable, peer)'
    BY <1>1 DEF IInv
  <1>6. ready' = ready
    BY <1>1 DEF Polled
  <1> HIDE DEF ready
  <1>7. wait' \in Wait /\ wait'.ready = ready /\ wait'.what = wait.what /\ wait'.then = wait.then
    BY <1>1, <1>2, <1>3 DEF Wait
  <1>8. At(spp, msg, log, wait, pc, peer)'
    BY <1>1, <1>2, <1>7 DEF At
  <1>9. wait'.ready \subseteq {d \in Polled : ibis[d] # <<>>}'
    BY <1>6, <1>7 DEF ready
  <1> QED
    BY <1>4, <1>5, <1>8, <1>9 DEF IInv

\* ... none is any more, ...
LEMMA TimesOutKeeps == ASSUME IInv, TimesOut PROVE IInv'
  <1>1. pc = "wait" /\ GoTo(spp, msg, log, wait.then)
    BY DEF TimesOut
  <1>2. /\ Sound(spp, log, enable, peer) /\ Halfway(spp, msg, log, peer) /\ msg \in Msg
        /\ May(spp, msg, wait.then) /\ wait.then \in {"cmd", "send", "tail", "settle"}
    BY <1>1, Within
  <1>3. Moves
    BY <1>1, <1>2, GoToMoves
  <1> QED
    BY <1>3, MovesKeep DEF TimesOut

\* ... poll() fails, ...
LEMMA PollFailsKeeps == ASSUME IInv, PollFails PROVE IInv'
  <1>1. pc = "wait" /\ GoTo(spp, msg, log, wait.then)
    BY DEF PollFails
  <1>2. /\ Sound(spp, log, enable, peer) /\ Halfway(spp, msg, log, peer) /\ msg \in Msg
        /\ May(spp, msg, wait.then) /\ wait.then \in {"cmd", "send", "tail", "settle"}
    BY <1>1, Within
  <1>3. Moves
    BY <1>1, <1>2, GoToMoves
  <1> QED
    BY <1>3, MovesKeep DEF PollFails

\* The first of the devices that are ready.
LEMMA FirstReady ==
    ASSUME IInv, wait.ready # {}
    PROVE  /\ Min(wait.ready) \in wait.ready /\ Min(wait.ready) \in Devices
           /\ ibis[Min(wait.ready)] # <<>>
  <1>1. wait.ready \subseteq {d \in Polled : ibis[d] # <<>>} /\ wait.ready \subseteq Devices
    BY DEF IInv, Polled, Outside
  <1>2. wait.ready \subseteq Nat
    BY <1>1, Constants
  <1>3. PICK n \in wait.ready : \A m \in wait.ready : n <= m
    BY <1>2, LeastNumber
  <1>4. Min(wait.ready) \in wait.ready
    BY <1>3 DEF Min
  <1> QED
    BY <1>1, <1>4

\* ... and one of them is read.
LEMMA CheckKeeps ==
    ASSUME IInv, asd_msg_check_spp_ibi
    PROVE  /\ IInv'
           /\ wait.keep = TRUE /\ peer = TRUE /\ log'.over = FALSE => pc' = "wait"
  <1> DEFINE d == Min(wait.ready)
  <1>1. pc = "wait" /\ wait.ready # {} /\ UNCHANGED <<open, enable, peer>>
    BY DEF asd_msg_check_spp_ibi
  <1>2. /\ Sound(spp, log, enable, peer) /\ Halfway(spp, msg, log, peer) /\ msg \in Msg
        /\ May(spp, msg, wait.then) /\ wait.then \in {"cmd", "send", "tail", "settle"} /\ wait \in Wait
        /\ peer \in BOOLEAN
    BY <1>1, Within
  <1>3. d \in wait.ready /\ d \in Devices /\ ibis[d] # <<>> /\ Outside /\ wait.stale \in Kinds /\ wait.keep \in BOOLEAN
    BY <1>1, <1>2, FirstReady DEF IInv, Wait
  <1>4. PICK r \in Reads(d, wait.stale) :
          /\ Consumed(r)
          /\ IF ~Passed(r).ok \/ (Settled(Passed(r).spp) /\ ~Keeps(r.e))
             THEN GoTo(Passed(r).spp, msg, Passed(r).log, wait.then)
             ELSE /\ wait' = [wait EXCEPT !.ready = @ \ {d}, !.keep = Keeps(r.e), !.stale = r.e.kind]
                  /\ spp' = Passed(r).spp
                  /\ log' = Passed(r).log
                  /\ UNCHANGED <<pc, msg>>
    BY DEF asd_msg_check_spp_ibi
  <1> DEFINE p == Passed(r)
  <1> HIDE DEF d
  <1>5. Read(r, d)
    BY <1>3, ReadsType
  <1>6. Outside' /\ \A c \in Devices : c # d => ibis'[c] = ibis[c]
    BY <1>1, <1>3, <1>4, <1>5, ConsumedOutside
  <1>7. /\ Sound(p.spp, p.log, enable, peer)
        /\ p.spp.bulk = spp.bulk /\ p.log.again = log.again
        /\ p.log.over = FALSE => log.over = FALSE
        /\ p.ok \in BOOLEAN
        /\ peer = TRUE /\ p.log.over = FALSE => p.ok = TRUE
    BY <1>2, <1>3, <1>5, PassedSound
  <1>8. Keeps(r.e) \in BOOLEAN /\ (wait.keep = TRUE => Keeps(r.e) = TRUE)
    BY <1>3 DEF Keeps, check_spp_prdy_event
  <1>9. \/ GoTo(p.spp, msg, p.log, wait.then) /\ (p.ok = FALSE \/ Keeps(r.e) = FALSE)
        \/ /\ wait' = [wait EXCEPT !.ready = @ \ {d}, !.keep = Keeps(r.e), !.stale = r.e.kind]
           /\ spp' = p.spp
           /\ log' = p.log
           /\ UNCHANGED <<pc, msg>>
    BY <1>4, <1>7, <1>8
  <1> HIDE DEF p
  <1>10. Halfway(p.spp, msg, p.log, peer) /\ May(p.spp, msg, wait.then)
    BY <1>2, <1>7 DEF Halfway, May
  <1>11. CASE GoTo(p.spp, msg, p.log, wait.then) /\ (p.ok = FALSE \/ Keeps(r.e) = FALSE)
    <2>1. Moves
      BY <1>2, <1>7, <1>10, <1>11, GoToMoves
    <2>2. IInv'
      BY <1>1, <1>6, <2>1, MovesTo
    <2>3. log' = p.log
      BY <1>11 DEF GoTo
    <2>4. ~(wait.keep = TRUE /\ peer = TRUE /\ log'.over = FALSE)
      BY <1>7, <1>8, <1>11, <2>3
    <2> QED
      BY <2>2, <2>4
  <1>12. CASE /\ wait' = [wait EXCEPT !.ready = @ \ {d}, !.keep = Keeps(r.e), !.stale = r.e.kind]
              /\ spp' = p.spp
              /\ log' = p.log
              /\ UNCHANGED <<pc, msg>>
    <2> DEFINE ready == wait.ready \ {d}
               k == Keeps(r.e)
               q == r.e.kind
    <2>1. ready \subseteq Devices /\ q \in Kinds
      BY <1>2, <1>5 DEF Wait, Read, Event
    <2> HIDE DEF ready, k, q
    <2>2. k \in BOOLEAN /\ wait' = [wait EXCEPT !.ready = ready, !.keep = k, !.stale = q]
      BY <1>8, <1>12 DEF k, ready, q
    <2>3. wait' \in Wait /\ wait'.ready = ready /\ wait'.what = wait.what /\ wait'.then = wait.then
      BY <1>2, <2>1, <2>2 DEF Wait
    <2>4. wait.what # "none" /\ wait.then \in {"send", "tail", "settle"}
      BY <1>1 DEF IInv, At
    <2>5. At(p.spp, msg, p.log, wait', "wait", peer)
      BY <1>2, <1>10, <2>3, <2>4 DEF At
    <2>6. At(spp, msg, log, wait, pc, peer)'
      BY <1>1, <1>12, <2>5
    <2>7. Sound(spp, log, enable, peer)'
      BY <1>1, <1>7, <1>12
    <2>8. wait'.ready \subseteq {c \in Polled : ibis[c] # <<>>}'
      <3>1. wait.ready \subseteq {c \in Polled : ibis[c] # <<>>}
        BY DEF IInv
      <3>2. Polled' = Polled
        BY <1>1 DEF Polled
      <3>3. \A c \in ready : c \in Polled /\ ibis[c] # <<>> /\ c # d /\ c \in Devices
        BY <2>1, <3>1 DEF ready
      <3>4. \A c \in ready : c \in Polled' /\ ibis'[c] # <<>>
        BY <1>6, <3>2, <3>3
      <3> QED
        BY <2>3, <3>4
    <2> QED
      BY <1>1, <1>6, <1>12, <2>6, <2>7, <2>8 DEF IInv
  <1> QED
    BY <1>9, <1>11, <1>12

\* A message arrives.
LEMMA MessageKeeps == ASSUME IInv, process_spp_message PROVE IInv'
  <1> DEFINE s == [spp EXCEPT !.bulk = FALSE]
             n == log.msgs + 1
             l == [log EXCEPT !.msgs = n]
  <1>1. pc = "idle" /\ GoTo(s, NoMsg, l, "cmd")
    BY DEF process_spp_message
  <1>2. /\ Sound(spp, log, enable, peer) /\ spp \in Spp /\ log \in Log
        /\ log.again = FALSE => spp.bulk = FALSE
    BY <1>1 DEF IInv, At, Sound
  <1>3. n \in Nat
    BY <1>2 DEF Log
  <1> HIDE DEF n
  <1>4. l \in Log /\ l.over = log.over /\ l.again = log.again /\ l.sent = log.sent /\ l.read = log.read
    BY <1>2, <1>3 DEF Log
  <1>5. s \in Spp /\ s.bulk = FALSE /\ s.count = spp.count /\ s.packed = spp.packed
    BY <1>2 DEF Spp
  <1> HIDE DEF s, l
  <1>6. Packs(s, enable) /\ (Kept(spp, log) => Kept(s, l))
    BY <1>2, <1>4, <1>5 DEF Sound, Packs, Kept
  <1>7. log.again = FALSE => spp.count = 0
    BY <1>2 DEF Sound
  <1>8. Sound(s, l, enable, peer)
    BY <1>2, <1>4, <1>5, <1>6, <1>7 DEF Sound
  <1>9. NoMsg \in Msg /\ NoMsg.answers = 0
    BY Constants DEF NoMsg
  <1>10. Halfway(s, NoMsg, l, peer) /\ May(s, NoMsg, "cmd")
    BY <1>5, <1>9 DEF Halfway, May
  <1>11. Moves
    BY <1>1, <1>8, <1>9, <1>10, GoToMoves
  <1> QED
    BY <1>11, MovesKeep DEF process_spp_message

\* An event between messages.
LEMMA EventKeeps == ASSUME IInv, NEW d \in Devices, asd_msg_event(d) PROVE IInv'
  <1>1. pc = "idle" /\ ibis[d] # <<>> /\ UNCHANGED <<open, enable, peer, pc, msg, wait>>
    BY DEF asd_msg_event
  <1>2. Outside /\ Sound(spp, log, enable, peer) /\ At(spp, msg, log, wait, pc, peer)
    BY DEF IInv
  <1>3. PICK r \in Reads(d, "other") : Consumed(r) /\ spp' = Passed(r).spp /\ log' = Passed(r).log
    BY DEF asd_msg_event
  <1>4. "other" \in Kinds
    BY DEF Kinds
  <1>5. Read(r, d)
    BY <1>1, <1>2, <1>4, ReadsType
  <1>6. Outside'
    BY <1>1, <1>2, <1>3, <1>5, ConsumedOutside
  <1> DEFINE p == Passed(r)
  <1>7. /\ Sound(p.spp, p.log, enable, peer)
        /\ p.spp.bulk = spp.bulk /\ p.log.again = log.again
        /\ p.log.over = FALSE => log.over = FALSE
    BY <1>2, <1>5, PassedSound
  <1>8. spp' = p.spp /\ log' = p.log
    BY <1>3
  <1> HIDE DEF p
  <1>9. wait = NoWait /\ NoWait.ready = {}
    BY <1>1, <1>2 DEF At, NoWait
  <1>10. At(p.spp, msg, p.log, wait, "idle", peer)
    BY <1>1, <1>2, <1>7 DEF At, May
  <1>11. Moves
    BY <1>1, <1>7, <1>8, <1>9, <1>10 DEF Moves
  <1> QED
    BY <1>1, <1>6, <1>11, MovesTo

\* Bulk responses are asked for.
LEMMA EnableKeeps == ASSUME IInv, EnableBulk PROVE IInv'
  <1>1. enable' = TRUE /\ UNCHANGED <<open, peer, ibis, raised, spp, pc, msg, wait, log>>
    BY DEF EnableBulk
  <1>2. Outside'
    BY <1>1 DEF IInv, Outside
  <1>3. Sound(spp, log, TRUE, peer)
    BY DEF IInv, Sound, Packs
  <1>4. Sound(spp, log, enable, peer)' /\ At(spp, msg, log, wait, pc, peer)'
    BY <1>1, <1>3 DEF IInv
  <1>5. wait'.ready \subseteq {d \in Polled : ibis[d] # <<>>}'
    BY <1>1 DEF IInv, Polled
  <1> QED
    BY <1>2, <1>4, <1>5 DEF IInv

\* The devices are mapped.
LEMMA MapKeeps == ASSUME IInv, spp_bus_get_device_map PROVE IInv'
  <1>1. pc \in {"down", "idle"} /\ open' = {} /\ UNCHANGED <<enable, peer, ibis, raised, spp, pc, msg, wait, log>>
    BY DEF spp_bus_get_device_map
  <1>2. Outside'
    BY <1>1 DEF IInv, Outside
  <1>3. wait.ready = {}
    BY <1>1 DEF IInv, At, NoWait
  <1>4. Moves
    BY <1>1, <1>3 DEF IInv, Moves
  <1> QED
    BY <1>1, <1>2, <1>4, MovesTo

\* The handler starts.
LEMMA StartKeeps == ASSUME IInv, spp_initialize PROVE IInv'
  <1> DEFINE thr == [d \in Devices |-> FALSE]
             auto == [d \in Devices |-> 0]
             s == [spp EXCEPT !.thr = thr, !.auto = auto, !.bulk = FALSE]
  <1>1. /\ pc = "down" /\ open' \in SUBSET Devices /\ pc' = "idle" /\ spp' = s
        /\ UNCHANGED <<enable, peer, ibis, raised, msg, wait, log>>
    BY DEF spp_initialize, NewHandler
  <1>2. /\ Sound(spp, log, enable, peer) /\ spp \in Spp /\ log \in Log
        /\ log.again = FALSE => spp.bulk = FALSE
        /\ msg = NoMsg /\ wait = NoWait
    BY <1>1 DEF IInv, At, Sound
  <1>3. thr \in [Devices -> BOOLEAN] /\ auto \in [Devices -> 0..255]
    OBVIOUS
  <1> HIDE DEF thr, auto
  <1>4. s \in Spp /\ s.bulk = FALSE /\ s.count = spp.count /\ s.packed = spp.packed
    BY <1>2, <1>3 DEF Spp
  <1> HIDE DEF s
  <1>5. Packs(s, enable) /\ (Kept(spp, log) => Kept(s, log))
    BY <1>2, <1>4 DEF Sound, Packs, Kept
  <1>6. log.again = FALSE => spp.count = 0
    BY <1>2 DEF Sound
  <1>7. Sound(s, log, enable, peer)
    BY <1>2, <1>4, <1>5, <1>6 DEF Sound
  <1>8. NoMsg \in Msg /\ NoMsg.cmds = 0 /\ NoWait \in Wait /\ NoWait.ready = {}
    BY Constants DEF NoMsg, NoWait
  <1>9. At(s, NoMsg, log, NoWait, "idle", peer)
    BY <1>4, <1>8 DEF At, May
  <1>10. Moves
    BY <1>1, <1>2, <1>7, <1>8, <1>9 DEF Moves
  <1>11. Outside'
    BY <1>1 DEF IInv, Outside
  <1> QED
    BY <1>1, <1>10, <1>11, MovesTo

\* The client's connection breaks, ...
LEMMA LeavesKeeps == ASSUME IInv, PeerLeaves PROVE IInv'
  <1>1. peer' = FALSE /\ UNCHANGED <<open, enable, ibis, raised, spp, pc, msg, wait, log>>
    BY DEF PeerLeaves
  <1>2. Outside'
    BY <1>1 DEF IInv, Outside
  <1>3. Sound(spp, log, enable, FALSE) /\ At(spp, msg, log, wait, pc, FALSE)
    BY DEF IInv, Sound, At, Halfway
  <1>4. Sound(spp, log, enable, peer)' /\ At(spp, msg, log, wait, pc, peer)'
    BY <1>1, <1>3
  <1>5. wait'.ready \subseteq {d \in Polled : ibis[d] # <<>>}'
    BY <1>1 DEF IInv, Polled
  <1> QED
    BY <1>2, <1>4, <1>5 DEF IInv

\* ... and another one comes.
LEMMA FreeKeeps == ASSUME IInv, asd_msg_free PROVE IInv'
  <1> DEFINE l == [log EXCEPT !.read = <<>>, !.sent = <<>>]
             none == [d \in Devices |-> <<>>]
  <1>1. /\ pc \in {"idle", "down"} /\ open' = {} /\ peer' = TRUE /\ pc' = "down" /\ msg' = NoMsg /\ log' = l
        /\ ibis' \in {ibis, none} /\ UNCHANGED <<enable, raised, spp, wait>>
    BY DEF asd_msg_free
  <1>2. /\ Sound(spp, log, enable, peer) /\ spp \in Spp /\ log \in Log
        /\ log.again = FALSE => spp.bulk = FALSE
        /\ wait = NoWait
    BY <1>1 DEF IInv, At, Sound
  <1>3. <<>> \in Seq(Event) /\ \A d \in Devices : <<>> \in Seq(Raised(d))
    BY EmptySeq
  <1>4. l \in Log /\ l.over = log.over /\ l.again = log.again /\ l.sent = <<>> /\ l.read = <<>>
    BY <1>2, <1>3 DEF Log
  <1> HIDE DEF l
  <1>5. log.again = FALSE => spp.count = 0 /\ spp.packed = <<>>
    BY <1>2 DEF Sound, Packs
  <1>6. spp.packed = <<>> => Kept(spp, l)
    <2>1. <<>> \o <<>> = <<>>
      BY <1>3, ConcatEmptySeq
    <2> QED
      BY <1>4, <2>1 DEF Kept
  <1>7. Sound(spp, l, enable, TRUE)
    BY <1>2, <1>4, <1>5, <1>6 DEF Sound
  <1>8. NoMsg \in Msg /\ NoWait \in Wait /\ NoWait.ready = {}
    BY Constants DEF NoWait
  <1>9. At(spp, NoMsg, l, NoWait, "down", TRUE)
    BY <1>2, <1>4, <1>8 DEF At, May
  <1>10. Sound(spp, log, enable, peer)' /\ At(spp, msg, log, wait, pc, peer)' /\ wait'.ready = {}
    BY <1>1, <1>2, <1>7, <1>8, <1>9
  <1>11. none \in [Devices -> Seq(Event)] /\ \A d \in Devices : none[d] \in Seq(Raised(d))
    BY <1>3
  <1> HIDE DEF none
  <1>12. Outside'
    BY <1>1, <1>11 DEF IInv, Outside
  <1> QED
    BY <1>10, <1>12 DEF IInv

\* A device raises an event.
LEMMA RaiseKeeps == ASSUME IInv, NEW d \in Devices, NEW i \in Ibis, Raise(d, i) PROVE IInv'
  <1> DEFINE n == raised + 1
             e == [id |-> n, dev |-> d, kind |-> i.kind, size |-> i.size]
             q == Append(ibis[d], e)
  <1>1. /\ wait.ready = {} /\ raised < MaxEvents /\ raised' = n
        /\ ibis' = [ibis EXCEPT ![d] = q]
        /\ UNCHANGED <<open, enable, peer, spp, pc, msg, wait, log>>
    BY DEF Raise
  <1>2. Outside /\ ibis \in [Devices -> Seq(Event)] /\ ibis[d] \in Seq(Event) /\ ibis[d] \in Seq(Raised(d))
    BY DEF IInv, Outside
  <1>3. n \in Nat /\ n \in 0..MaxEvents
    BY <1>1, <1>2, Constants DEF Outside
  <1>4. i \in [kind : Kinds, size : Nat] /\ i.size + 2 <= MaxDataSize
    BY SppAssumption, EventsFit
  <1> HIDE DEF n
  <1>5. e \in Raised(d) /\ e \in Event
    BY <1>3, <1>4 DEF Raised, Event
  <1> HIDE DEF e
  <1>6. q \in Seq(Event) /\ q \in Seq(Raised(d))
    BY <1>2, <1>5
  <1> HIDE DEF q
  <1>7. ibis' \in [Devices -> Seq(Event)] /\ \A c \in Devices : ibis'[c] = IF c = d THEN q ELSE ibis[c]
    BY <1>1, <1>2, <1>6
  <1>8. \A c \in Devices : ibis'[c] \in Seq(Raised(c))
    BY <1>2, <1>6, <1>7 DEF Outside
  <1>9. Outside'
    BY <1>1, <1>2, <1>3, <1>7, <1>8 DEF Outside
  <1>10. Sound(spp, log, enable, peer)' /\ At(spp, msg, log, wait, pc, peer)' /\ wait'.ready = {}
    BY <1>1 DEF IInv
  <1> QED
    BY <1>9, <1>10 DEF IInv

\* A step that changes nothing.
LEMMA StutterKeeps == ASSUME IInv, UNCHANGED vars PROVE IInv'
  <1>1. UNCHANGED <<open, enable, peer, ibis, raised, spp, pc, msg, wait, log>>
    BY DEF vars
  <1> QED
    BY <1>1 DEF IInv, Outside, Polled

\* A step of the loop over the commands, and of what follows it.
LEMMA CommandKeeps == ASSUME IInv, Command PROVE IInv'
  <1>1. \A last \in Lasts : last \in BOOLEAN
    BY DEF Lasts
  <1>2. ASSUME NEW last \in Lasts,
               \/ \E kind \in {"send", "cmd", "xfer"}, d \in Devices : Select(kind, d, last)
               \/ \E d \in Devices : Receive(d, last)
               \/ \E n \in {0, 2} : IdleCommand(n, last)
               \/ Bulk(last)
        PROVE  IInv'
    BY <1>1, <1>2, SelectKeeps, ReceiveKeeps, IdleCommandKeeps, BulkKeeps
  <1>3. ASSUME NEW d \in 0..MaxDevices, BadCommand(d) PROVE IInv'
    BY <1>3, BadCommandKeeps
  <1> QED
    BY <1>2, <1>3, FullResponseKeeps, TransferKeeps, TailWaitKeeps, SettleKeeps DEF Command

\* Every step keeps the invariant.
LEMMA NextKeeps == ASSUME IInv, [Next]_vars PROVE IInv'
  <1>1. CASE Waiting
    BY <1>1, PollKeeps, TimesOutKeeps, CheckKeeps DEF Waiting
  <1>2. ASSUME NEW d \in Devices, asd_msg_event(d) PROVE IInv'
    BY <1>2, EventKeeps
  <1>3. ASSUME NEW d \in Devices, NEW i \in Ibis, Raise(d, i) PROVE IInv'
    BY <1>3, RaiseKeeps
  <1> QED
    BY <1>1, <1>2, <1>3, CommandKeeps, MessageKeeps, EnableKeeps, MapKeeps, StartKeeps, LeavesKeeps,
       FreeKeeps, StutterKeeps, PollFailsKeeps DEF Next

-----------------------------------------------------------------------------
(* What holds of the SPP messages. *)

\* The invariant, whatever the devices raise and the client sends.
THEOREM Invariance == Spec => []IInv
  <1>1. Init => IInv
    BY InitIInv
  <1>2. IInv /\ [Next]_vars => IInv'
    BY NextKeeps
  <1> QED
    BY <1>1, <1>2, PTL DEF Spec

\* The handler's counters keep their width, the bulk response never holds more
\* events than it has room for, and the wait only reads devices that are open
\* and have an event.
THEOREM TypeCorrect == Spec => []TypeOK
  <1>1. ASSUME IInv PROVE TypeOK
    <2>1. /\ open \subseteq Devices /\ enable \in BOOLEAN /\ peer \in BOOLEAN /\ raised \in 0..MaxEvents
      BY <1>1 DEF IInv, Outside
    <2>2. spp.thr \in [Devices -> BOOLEAN] /\ spp.auto \in [Devices -> 0..255] /\ Len(spp.packed) <= IbiMaxCount
      BY <1>1 DEF IInv, Sound, Spp, Packs
    <2>3. /\ pc \in {"down", "idle", "cmd", "send", "wait", "tail", "settle"}
          /\ wait.ready \subseteq {d \in Polled : ibis[d] # <<>>}
      BY <1>1 DEF IInv, At
    <2>4. (pc = "wait" <=> wait.what # "none") /\ (wait.keep => pc = "wait")
      BY <1>1 DEF IInv, At, NoWait
    <2> QED
      BY <2>1, <2>2, <2>3, <2>4 DEF TypeOK
  <1> QED
    BY <1>1, Invariance, PTL

\* send_bpk_event and send_bulk_bpk_event: of every device, what was read is
\* with the client or in the bulk response, once and in order.
THEOREM NoEventIsLost == Spec => []EventsKept
  <1>1. ASSUME IInv PROVE EventsKept
    <2> SUFFICES ASSUME peer, ~log.over, ~log.again PROVE Kept(spp, log)
      BY DEF EventsKept, Kept
    <2>1. log.over \in BOOLEAN /\ log.again \in BOOLEAN /\ peer \in BOOLEAN
      BY <1>1 DEF IInv, Sound, Log, Outside
    <2> QED
      BY <1>1, <2>1 DEF IInv, Sound
  <1> QED
    BY <1>1, Invariance, PTL

\* process_spp_message: it never leaves a bulk response open behind.
THEOREM NoneLeftOpen == Spec => []BulkClosed
  <1>1. ASSUME IInv PROVE BulkClosed
    <2>1. log.again \in BOOLEAN
      BY <1>1 DEF IInv, Sound, Log
    <2> QED
      BY <1>1, <2>1 DEF BulkClosed, IInv, Sound, At, Packs
  <1> QED
    BY <1>1, Invariance, PTL

\* process_spp_message: a message gets one answer, be it in bulk mode or not,
\* and whether its commands fail or not.
THEOREM OneAnswer == Spec => []AnsweredOnce
  <1>1. ASSUME IInv PROVE AnsweredOnce
    <2>1. log.over \in BOOLEAN /\ log.again \in BOOLEAN /\ peer \in BOOLEAN
      BY <1>1 DEF IInv, Sound, Log, Outside
    <2> QED
      BY <1>1, <2>1 DEF AnsweredOnce, IInv, At
  <1> QED
    BY <1>1, Invariance, PTL

\* asd_msg_check_spp_ibi: after a PRDY nothing but the end of the events, or
\* poll() failing, ends the wait.
THEOREM PrdyIsFollowed == Spec => PrdyTrailRead
  <1> DEFINE A == wait.keep /\ pc' # "wait" /\ peer /\ ~log'.over =>
                    (\A d \in Polled : ibis[d] = <<>>) \/ PollFails
  <1>1. ASSUME IInv, [Next]_vars PROVE [A]_vars
    <2> SUFFICES ASSUME wait.keep, pc' # "wait", peer, ~log'.over, Next, ~PollFails
                 PROVE  \A d \in Polled : ibis[d] = <<>>
      BY <1>1
    <2>1. IInv'
      BY <1>1, NextKeeps
    <2>2. wait.keep \in BOOLEAN /\ peer \in BOOLEAN /\ log'.over \in BOOLEAN
      BY <1>1, <2>1 DEF IInv, At, Wait, Outside, Sound, Log
    <2>3. wait.keep = TRUE /\ peer = TRUE /\ log'.over = FALSE
      BY <2>2
    <2>4. pc = "wait"
      BY <1>1, <2>3 DEF IInv, At, NoWait
    <2>5. CASE asd_msg_check_spp_ibi
      BY <1>1, <2>3, <2>5, CheckKeeps
    <2>6. CASE TimesOut
      BY <2>6 DEF TimesOut
    <2>7. CASE Poll
      BY <2>4, <2>7 DEF Poll
    <2>8. ~Command
      BY <2>4 DEF Command, FullResponse, Select, Receive, IdleCommand, Bulk, BadCommand,
         Transfer, TailWait, Settle, Ready
    <2>9. CASE \E d \in Devices, i \in Ibis : Raise(d, i)
      BY <2>4, <2>9 DEF Raise
    <2>10. CASE PeerLeaves
      BY <2>4, <2>10 DEF PeerLeaves
    <2> QED
      BY <2>4, <2>5, <2>6, <2>7, <2>8, <2>9, <2>10 DEF Next, Waiting, process_spp_message,
         asd_msg_event,
         EnableBulk, spp_bus_get_device_map, spp_initialize, asd_msg_free
  <1>2. Spec => [][A]_vars
    BY <1>1, Invariance, PTL DEF Spec
  <1> QED
    BY <1>2 DEF PrdyTrailRead
=============================================================================

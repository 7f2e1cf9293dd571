---------------------------- MODULE BusMsgProofs ----------------------------
(***************************************************************************)
(* Proofs about BusMsg, for any buses, tables, lengths of transfers and    *)
(* messages of any commands.                                               *)
(***************************************************************************)
EXTENDS BusMsg, FiniteRecursion

-----------------------------------------------------------------------------
(* Tables. *)

\* The bus is in the table.
Typed(b) == bus_type(b) \in {"i2c", "i3c"}

\* Any table.
LEMMA Types ==
    ASSUME table \in Tables
    PROVE  /\ \A b : bus_type(b) \in {"i2c", "i3c", "none"}
           /\ bus_type(NoBus) = "none"
           /\ \A b : Typed(b) => b \in Buses /\ table[b] = bus_type(b) /\ Enabled(bus_type(b))
           /\ \A b \in Buses : bus_type(b) = table[b]
  <1>1. table \in [Buses -> {"i2c", "i3c", "none"}] /\ NoBus \notin Buses
    BY BusMsgAssumption
  <1>2. \A b : bus_type(b) \in {"i2c", "i3c", "none"}
    BY <1>1 DEF bus_type
  <1>3. \A b : b \notin Buses => bus_type(b) = "none"
    BY DEF bus_type
  <1>4. \A b \in Buses : bus_type(b) = table[b]
    BY DEF bus_type
  <1>5. \A b : Typed(b) => b \in Buses
    BY <1>3 DEF Typed
  <1>6. \A b : Typed(b) => Enabled(bus_type(b))
    BY <1>4, <1>5 DEF Enabled
  <1> QED
    BY <1>1, <1>2, <1>3, <1>4, <1>5, <1>6

-----------------------------------------------------------------------------
(* What the handlers have open and locked. *)

Devs ==
    [conf : Buses, dflt : Buses, held : SUBSET Buses, token : BOOLEAN, moved : BOOLEAN,
     i2c : Handle, i3c : Handle]

\* A lock is held through an open descriptor of a bus of the handler's type,
\* and every lock is held through one of the two; the I3C handler locks
\* nothing before it owns the buses, and while the client has not moved between
\* buses, one of them I3C, what the handler has open then is the default bus.
Dev(d) ==
    /\ d \in Devs
    /\ d.i2c.locked = TRUE => d.i2c.open = TRUE /\ d.i2c.bus \in d.held
    /\ d.i3c.locked = TRUE => d.i3c.open = TRUE /\ d.i3c.bus \in d.held /\ d.token = TRUE
    /\ d.i2c.open = TRUE => bus_type(d.i2c.bus) = "i2c"
    /\ d.i3c.open = TRUE => bus_type(d.i3c.bus) = "i3c"
    /\ \A b \in d.held : \/ b = d.i2c.bus /\ d.i2c.locked = TRUE
                         \/ b = d.i3c.bus /\ d.i3c.locked = TRUE
    /\ other \cap d.held = {}
    /\ d.moved = FALSE /\ d.token = TRUE => d.i3c.open = TRUE /\ d.i3c.bus = d.dflt

\* Bus b is the default bus, or another one that takes no move.
Together(d, b) ==
    d.moved = FALSE => b = d.dflt \/ (bus_type(b) # "i3c" /\ bus_type(d.dflt) # "i3c")

\* The handlers' state, field by field.
Fields(d, dflt, held, token, moved, i2c, i3c) ==
    /\ d \in Devs /\ d.dflt = dflt /\ d.held = held /\ d.token = token /\ d.moved = moved
    /\ d.i2c = i2c /\ d.i3c = i3c
Has(h, bus, opened, locked) == h \in Handle /\ h.bus = bus /\ h.open = opened /\ h.locked = locked

\* The fields of the handlers' state.
LEMMA DevFields ==
    ASSUME NEW d \in Devs
    PROVE  /\ d.dflt \in Buses /\ d.held \in SUBSET Buses /\ d.token \in BOOLEAN
           /\ d.conf \in Buses /\ d.moved \in BOOLEAN
           /\ d.i2c \in Handle /\ d.i3c \in Handle
           /\ d.i2c.bus \in Buses \cup {NoBus} /\ d.i3c.bus \in Buses \cup {NoBus}
           /\ d.i2c.open \in BOOLEAN /\ d.i3c.open \in BOOLEAN
           /\ d.i2c.locked \in BOOLEAN /\ d.i3c.locked \in BOOLEAN
           /\ d["i2c"] = d.i2c /\ d["i3c"] = d.i3c
  BY DEF Devs, Handle

\* A handler is given another state.
LEMMA DevChanged ==
    ASSUME NEW d \in Devs, NEW held \in SUBSET Buses, NEW x \in Handle
    PROVE  /\ Fields([d EXCEPT !["i2c"] = x, !.held = held], d.dflt, held, d.token, d.moved, x, d.i3c)
           /\ Fields([d EXCEPT !["i3c"] = x, !.held = held], d.dflt, held, d.token, d.moved, d.i2c, x)
           /\ Fields([d EXCEPT !.i2c = x], d.dflt, d.held, d.token, d.moved, x, d.i3c)
           /\ Fields([d EXCEPT !.i3c = x], d.dflt, d.held, d.token, d.moved, d.i2c, x)
  BY DEF Devs, Fields

\* What is held without the lock of handler h.
Less(d, h) == IF d[h].locked THEN d.held \ {d[h].bus} ELSE d.held

\* A descriptor is closed.
LEMMA ClosedFields ==
    ASSUME NEW d \in Devs
    PROVE  /\ \E x : /\ Has(x, d.i2c.bus, FALSE, FALSE)
                     /\ Fields(Closed(d, "i2c"), d.dflt, Less(d, "i2c"), d.token, d.moved, x, d.i3c)
           /\ \E x : /\ Has(x, d.i3c.bus, FALSE, FALSE)
                     /\ Fields(Closed(d, "i3c"), d.dflt, Less(d, "i3c"), d.token, d.moved, d.i2c, x)
  <1> DEFINE z(h) == [[d[h] EXCEPT !.open = FALSE] EXCEPT !.locked = FALSE]
  <1>1. ASSUME NEW h \in {"i2c", "i3c"}
        PROVE  Closed(d, h) = [d EXCEPT ![h] = z(h), !.held = Less(d, h)] /\ Less(d, h) \in SUBSET Buses
    BY DEF Closed, Less, Devs, Handle
  <1>2. Has(z("i2c"), d.i2c.bus, FALSE, FALSE)
    BY DevFields DEF Has, Handle
  <1>3. Has(z("i3c"), d.i3c.bus, FALSE, FALSE)
    BY DevFields DEF Has, Handle
  <1>4. z("i2c") \in Handle /\ z("i3c") \in Handle
    BY <1>2, <1>3 DEF Has
  <1> HIDE DEF z
  <1>5. Fields(Closed(d, "i2c"), d.dflt, Less(d, "i2c"), d.token, d.moved, z("i2c"), d.i3c)
    BY <1>1, <1>4, DevChanged
  <1>6. Fields(Closed(d, "i3c"), d.dflt, Less(d, "i3c"), d.token, d.moved, d.i2c, z("i3c"))
    BY <1>1, <1>4, DevChanged
  <1> QED
    BY <1>2, <1>3, <1>5, <1>6

\* A lock is given back, ...
LEMMA UnlockedFields ==
    ASSUME NEW d \in Devs
    PROVE  /\ \E x : /\ Has(x, d.i2c.bus, d.i2c.open, FALSE)
                     /\ Fields(Unlocked(d, "i2c"), d.dflt, Less(d, "i2c"), d.token, d.moved, x, d.i3c)
           /\ \E x : /\ Has(x, d.i3c.bus, d.i3c.open, FALSE)
                     /\ Fields(Unlocked(d, "i3c"), d.dflt, Less(d, "i3c"), d.token, d.moved, d.i2c, x)
  <1> DEFINE z(h) == [d[h] EXCEPT !.locked = FALSE]
  <1>1. ASSUME NEW h \in {"i2c", "i3c"}
        PROVE  Unlocked(d, h) = [d EXCEPT ![h] = z(h), !.held = Less(d, h)] /\ Less(d, h) \in SUBSET Buses
    BY DEF Unlocked, Less, Devs, Handle
  <1>2. Has(z("i2c"), d.i2c.bus, d.i2c.open, FALSE)
    BY DevFields DEF Has, Handle
  <1>3. Has(z("i3c"), d.i3c.bus, d.i3c.open, FALSE)
    BY DevFields DEF Has, Handle
  <1>4. z("i2c") \in Handle /\ z("i3c") \in Handle
    BY <1>2, <1>3 DEF Has
  <1> HIDE DEF z
  <1>5. Fields(Unlocked(d, "i2c"), d.dflt, Less(d, "i2c"), d.token, d.moved, z("i2c"), d.i3c)
    BY <1>1, <1>4, DevChanged
  <1>6. Fields(Unlocked(d, "i3c"), d.dflt, Less(d, "i3c"), d.token, d.moved, d.i2c, z("i3c"))
    BY <1>1, <1>4, DevChanged
  <1> QED
    BY <1>2, <1>3, <1>5, <1>6

\* ... or taken.
LEMMA LockedFields ==
    ASSUME NEW d \in Devs
    PROVE  /\ d.i2c.bus \in Buses =>
                \E x : /\ Has(x, d.i2c.bus, d.i2c.open, TRUE)
                       /\ Fields(Locked(d, "i2c"), d.dflt, d.held \cup {d.i2c.bus}, d.token, d.moved, x, d.i3c)
           /\ d.i3c.bus \in Buses =>
                \E x : /\ Has(x, d.i3c.bus, d.i3c.open, TRUE)
                       /\ Fields(Locked(d, "i3c"), d.dflt, d.held \cup {d.i3c.bus}, d.token, d.moved, d.i2c, x)
  <1> DEFINE z(h) == [d[h] EXCEPT !.locked = TRUE]
             more(h) == d.held \cup {d[h].bus}
  <1>1. ASSUME NEW h \in {"i2c", "i3c"}
        PROVE  Locked(d, h) = [d EXCEPT ![h] = z(h), !.held = more(h)]
    BY DEF Locked, Devs, Handle
  <1>2. Has(z("i2c"), d.i2c.bus, d.i2c.open, TRUE)
    BY DevFields DEF Has, Handle
  <1>3. Has(z("i3c"), d.i3c.bus, d.i3c.open, TRUE)
    BY DevFields DEF Has, Handle
  <1>4. z("i2c") \in Handle /\ z("i3c") \in Handle
    BY <1>2, <1>3 DEF Has
  <1>5. more("i2c") = d.held \cup {d.i2c.bus} /\ more("i3c") = d.held \cup {d.i3c.bus}
    BY DevFields
  <1>6. /\ d.i2c.bus \in Buses => more("i2c") \in SUBSET Buses
        /\ d.i3c.bus \in Buses => more("i3c") \in SUBSET Buses
    BY DevFields
  <1> HIDE DEF z, more
  <1>7. d.i2c.bus \in Buses => Fields(Locked(d, "i2c"), d.dflt, more("i2c"), d.token, d.moved, z("i2c"), d.i3c)
    BY <1>1, <1>4, <1>6, DevChanged
  <1>8. d.i3c.bus \in Buses => Fields(Locked(d, "i3c"), d.dflt, more("i3c"), d.token, d.moved, d.i2c, z("i3c"))
    BY <1>1, <1>4, <1>6, DevChanged
  <1> QED
    BY <1>2, <1>3, <1>5, <1>7, <1>8

\* Whatever the handler that lets go of its lock, the other one keeps its own.
LEMMA OtherKeeps ==
    ASSUME NEW d, Dev(d)
    PROVE  /\ Less(d, "i2c") \subseteq d.held /\ Less(d, "i3c") \subseteq d.held
           /\ d.i3c.locked = TRUE => d.i3c.bus \in Less(d, "i2c")
           /\ d.i2c.locked = TRUE => d.i2c.bus \in Less(d, "i3c")
           /\ \A b \in Less(d, "i2c") : b = d.i3c.bus /\ d.i3c.locked = TRUE
           /\ \A b \in Less(d, "i3c") : b = d.i2c.bus /\ d.i2c.locked = TRUE
  <1>1. d \in Devs
    BY DEF Dev
  <1>2. /\ Less(d, "i2c") = IF d.i2c.locked = TRUE THEN d.held \ {d.i2c.bus} ELSE d.held
        /\ Less(d, "i3c") = IF d.i3c.locked = TRUE THEN d.held \ {d.i3c.bus} ELSE d.held
    BY <1>1, DevFields DEF Less
  <1>3. d.i3c.locked = TRUE /\ d.i2c.locked = TRUE => d.i3c.bus # d.i2c.bus
    BY DEF Dev
  <1> QED
    BY <1>2, <1>3 DEF Dev

\* i2c_close_driver
LEMMA I2cCloseKeeps ==
    ASSUME NEW d, Dev(d)
    PROVE  LET e == i2c_close_driver(d)
           IN  /\ Dev(e) /\ e.dflt = d.dflt /\ e.moved = d.moved /\ e.token = d.token /\ e.i3c = d.i3c
               /\ e.i2c.bus = d.i2c.bus /\ e.i2c.open = FALSE /\ e.i2c.locked = FALSE
  <1> DEFINE e == i2c_close_driver(d)
  <1>1. d \in Devs
    BY DEF Dev
  <1>2. PICK x : Has(x, d.i2c.bus, FALSE, FALSE) /\ Fields(e, d.dflt, Less(d, "i2c"), d.token, d.moved, x, d.i3c)
    BY <1>1, ClosedFields DEF i2c_close_driver
  <1> HIDE DEF e
  <1>3. Dev(e)
    BY <1>2, OtherKeeps DEF Dev, Has, Fields
  <1> QED
    BY <1>2, <1>3 DEF e, Has, Fields

\* i3c_close_device_drivers.  (Only after a move is it called while the handler
\* owns the buses.)
LEMMA I3cCloseKeeps ==
    ASSUME NEW d, Dev(d), d.moved = FALSE => d.token = FALSE
    PROVE  LET e == i3c_close_device_drivers(d)
           IN  /\ Dev(e) /\ e.dflt = d.dflt /\ e.moved = d.moved /\ e.token = d.token /\ e.i2c = d.i2c
               /\ e.i3c.bus = d.i3c.bus /\ e.i3c.open = FALSE /\ e.i3c.locked = FALSE
  <1> DEFINE e == i3c_close_device_drivers(d)
  <1>1. d \in Devs
    BY DEF Dev
  <1>2. PICK x : Has(x, d.i3c.bus, FALSE, FALSE) /\ Fields(e, d.dflt, Less(d, "i3c"), d.token, d.moved, d.i2c, x)
    BY <1>1, ClosedFields DEF i3c_close_device_drivers
  <1> HIDE DEF e
  <1>3. Dev(e)
    BY <1>2, OtherKeeps DEF Dev, Has, Fields
  <1> QED
    BY <1>2, <1>3 DEF e, Has, Fields

\* The lock of a bus is given back.
LEMMA UnlockedKeeps ==
    ASSUME NEW d, Dev(d)
    PROVE  /\ LET e == Unlocked(d, "i2c")
              IN  Dev(e) /\ e.dflt = d.dflt /\ e.moved = d.moved /\ e.i2c.locked = FALSE
           /\ LET e == Unlocked(d, "i3c")
              IN  Dev(e) /\ e.dflt = d.dflt /\ e.moved = d.moved /\ e.i2c = d.i2c
  <1>1. d \in Devs
    BY DEF Dev
  <1> DEFINE e == Unlocked(d, "i2c")
             f == Unlocked(d, "i3c")
  <1>2. PICK x : Has(x, d.i2c.bus, d.i2c.open, FALSE) /\ Fields(e, d.dflt, Less(d, "i2c"), d.token, d.moved, x, d.i3c)
    BY <1>1, UnlockedFields
  <1>3. PICK y : Has(y, d.i3c.bus, d.i3c.open, FALSE) /\ Fields(f, d.dflt, Less(d, "i3c"), d.token, d.moved, d.i2c, y)
    BY <1>1, UnlockedFields
  <1> HIDE DEF e, f
  <1>4. Dev(e)
    BY <1>2, OtherKeeps DEF Dev, Has, Fields
  <1>5. Dev(f)
    BY <1>3, OtherKeeps DEF Dev, Has, Fields
  <1> QED
    BY <1>2, <1>3, <1>4, <1>5 DEF e, f, Has, Fields

\* The lock of a bus nobody else has is taken.
LEMMA LockedKeeps ==
    ASSUME NEW d, Dev(d), table \in Tables
    PROVE  /\ d.i2c.open = TRUE /\ (d.i2c.locked = TRUE \/ d.i2c.bus \notin (other \cup d.held)) =>
                LET e == Locked(d, "i2c")
                IN  /\ Dev(e) /\ e.dflt = d.dflt /\ e.moved = d.moved /\ e.i3c = d.i3c
                    /\ e.i2c.bus = d.i2c.bus /\ e.i2c.open = TRUE /\ e.i2c.locked = TRUE
           /\ d.i3c.open = TRUE /\ (d.i3c.locked = TRUE \/ d.i3c.bus \notin (other \cup d.held)) /\ d.token = TRUE =>
                LET e == Locked(d, "i3c")
                IN  /\ Dev(e) /\ e.dflt = d.dflt /\ e.moved = d.moved /\ e.i2c = d.i2c
                    /\ e.i3c.bus = d.i3c.bus /\ e.i3c.open = TRUE /\ e.i3c.locked = TRUE
  <1>1. d \in Devs
    BY DEF Dev
  <1>2. /\ d.i2c.open = TRUE => d.i2c.bus \in Buses
        /\ d.i3c.open = TRUE => d.i3c.bus \in Buses
    BY Types DEF Dev, Typed
  <1> DEFINE e == Locked(d, "i2c")
             f == Locked(d, "i3c")
  <1>3. ASSUME d.i2c.open = TRUE, d.i2c.locked = TRUE \/ d.i2c.bus \notin (other \cup d.held)
        PROVE  /\ Dev(e) /\ e.dflt = d.dflt /\ e.moved = d.moved /\ e.i3c = d.i3c
               /\ e.i2c.bus = d.i2c.bus /\ e.i2c.open = TRUE /\ e.i2c.locked = TRUE
    <2>1. PICK x : /\ Has(x, d.i2c.bus, d.i2c.open, TRUE)
                   /\ Fields(e, d.dflt, d.held \cup {d.i2c.bus}, d.token, d.moved, x, d.i3c)
      BY <1>1, <1>2, <1>3, LockedFields
    <2> HIDE DEF e
    <2>2. other \cap (d.held \cup {d.i2c.bus}) = {}
      BY <1>3 DEF Dev
    <2>3. Dev(e)
      BY <1>3, <2>1, <2>2 DEF Dev, Has, Fields
    <2> QED
      BY <1>3, <2>1, <2>3 DEF Has, Fields
  <1>4. ASSUME d.i3c.open = TRUE, d.i3c.locked = TRUE \/ d.i3c.bus \notin (other \cup d.held), d.token = TRUE
        PROVE  /\ Dev(f) /\ f.dflt = d.dflt /\ f.moved = d.moved /\ f.i2c = d.i2c
               /\ f.i3c.bus = d.i3c.bus /\ f.i3c.open = TRUE /\ f.i3c.locked = TRUE
    <2>1. PICK x : /\ Has(x, d.i3c.bus, d.i3c.open, TRUE)
                   /\ Fields(f, d.dflt, d.held \cup {d.i3c.bus}, d.token, d.moved, d.i2c, x)
      BY <1>1, <1>2, <1>4, LockedFields
    <2> HIDE DEF f
    <2>2. other \cap (d.held \cup {d.i3c.bus}) = {}
      BY <1>4 DEF Dev
    <2>3. Dev(f)
      BY <1>4, <2>1, <2>2 DEF Dev, Has, Fields
    <2> QED
      BY <1>4, <2>1, <2>3 DEF Has, Fields
  <1> QED
    BY <1>3, <1>4

\* i2c_open_driver, of a bus of the right type and with nothing locked.
LEMMA I2cOpenKeeps ==
    ASSUME NEW d, Dev(d), NEW b \in Buses, bus_type(b) = "i2c", d.i2c.locked = FALSE,
           NEW r \in i2c_open_driver(d, b)
    PROVE  /\ Dev(r.dev) /\ r.dev.dflt = d.dflt /\ r.dev.moved = d.moved /\ r.dev.i3c = d.i3c /\ r.dev.token = d.token
           /\ r.dev.i2c.bus = b /\ r.dev.i2c.locked = FALSE /\ r.dev.i2c.open = r.ok /\ r.ok \in BOOLEAN
  <1>1. PICK ok \in Ok : r = Result([d EXCEPT !.i2c = [bus |-> b, open |-> ok, locked |-> FALSE]], ok)
    BY DEF i2c_open_driver
  <1> DEFINE h == [bus |-> b, open |-> ok, locked |-> FALSE]
             e == [d EXCEPT !.i2c = h]
  <1>2. ok \in BOOLEAN /\ r.dev = e /\ r.ok = ok
    BY <1>1 DEF Ok, Result
  <1>3. h \in Handle /\ h.bus = b /\ h.open = ok /\ h.locked = FALSE
    BY <1>2 DEF Handle
  <1>4. d \in Devs
    BY DEF Dev
  <1> HIDE DEF h
  <1>5. Fields(e, d.dflt, d.held, d.token, d.moved, h, d.i3c)
    BY <1>3, <1>4, DevChanged, DevFields
  <1> HIDE DEF e
  <1>6. Dev(e)
    BY <1>3, <1>5 DEF Dev, Fields
  <1> QED
    BY <1>2, <1>3, <1>5, <1>6 DEF Fields

\* i3c_open_device_drivers, likewise.
LEMMA I3cOpenKeeps ==
    ASSUME NEW d, Dev(d), NEW b \in Buses, bus_type(b) = "i3c", d.i3c.locked = FALSE,
           d.moved = FALSE => d.token = FALSE,
           NEW r \in i3c_open_device_drivers(d, b)
    PROVE  /\ Dev(r.dev) /\ r.dev.dflt = d.dflt /\ r.dev.moved = d.moved /\ r.dev.i2c = d.i2c /\ r.dev.token = d.token
           /\ r.ok \in BOOLEAN /\ r.dev.i3c.locked = FALSE
           /\ r.ok = TRUE => r.dev.i3c.open = TRUE /\ r.dev.i3c.bus = b
  <1>0. d \in Devs
    BY DEF Dev
  <1>1. CASE r = Result(d, FALSE)
    BY <1>1 DEF Result
  <1>2. CASE \E ok \in Ok : r = Result([d EXCEPT !.i3c = [bus |-> b, open |-> ok, locked |-> FALSE]], ok)
    <2>1. PICK ok \in Ok : r = Result([d EXCEPT !.i3c = [bus |-> b, open |-> ok, locked |-> FALSE]], ok)
      BY <1>2
    <2> DEFINE h == [bus |-> b, open |-> ok, locked |-> FALSE]
               e == [d EXCEPT !.i3c = h]
    <2>2. ok \in BOOLEAN /\ r.dev = e /\ r.ok = ok
      BY <2>1 DEF Ok, Result
    <2>3. h \in Handle /\ h.bus = b /\ h.open = ok /\ h.locked = FALSE
      BY <2>2 DEF Handle
    <2> HIDE DEF h
    <2>4. Fields(e, d.dflt, d.held, d.token, d.moved, d.i2c, h)
      BY <1>0, <2>3, DevChanged, DevFields
    <2> HIDE DEF e
    <2>5. Dev(e)
      BY <2>3, <2>4 DEF Dev, Fields
    <2> QED
      BY <2>2, <2>3, <2>4, <2>5 DEF Fields
  <1> QED
    BY <1>1, <1>2 DEF i3c_open_device_drivers

\* The default bus stays, and the client has not moved since.
Kept(e, d) == e.dflt = d.dflt /\ e.moved = d.moved

\* flock_open may go on to lock bus b.
Asked(d, b) ==
    /\ Typed(b)
    /\ bus_type(b) = "i2c" => d.i2c.bus = b
    /\ bus_type(b) = "i3c" => d.token = TRUE
    /\ bus_type(b) = "i3c" /\ d.moved = FALSE => d.i3c.bus = b /\ d.i3c.open = TRUE

\* i2c_bus_flock up to the lock.
LEMMA I2cFlockKeeps ==
    ASSUME NEW d, Dev(d), table \in Tables, NEW b, bus_type(b) = "i2c", NEW r \in i2c_flock_open(d, b)
    PROVE  /\ Dev(r.dev) /\ Kept(r.dev, d) /\ r.ok \in BOOLEAN
           /\ r.ok = TRUE => Asked(r.dev, b)
           /\ r.ok = FALSE => r.dev.i2c.locked = FALSE
           /\ d.i2c.locked = FALSE => r.dev.i2c.locked = FALSE
  <1>0. b \in Buses /\ Typed(b)
    BY Types DEF Typed
  <1>1. CASE b # d.i2c.bus
    <2> DEFINE e == i2c_close_driver(d)
    <2>1. r \in i2c_open_driver(e, b)
      BY <1>1 DEF i2c_flock_open
    <2>2. Dev(e) /\ e.dflt = d.dflt /\ e.moved = d.moved /\ e.i2c.locked = FALSE
      BY I2cCloseKeeps
    <2> HIDE DEF e
    <2>3. Dev(r.dev) /\ r.dev.dflt = e.dflt /\ r.dev.moved = e.moved /\ r.dev.i2c.bus = b /\ r.dev.i2c.locked = FALSE /\ r.ok \in BOOLEAN
      BY <1>0, <2>1, <2>2, I2cOpenKeeps
    <2> QED
      BY <1>0, <2>2, <2>3 DEF Asked, Kept
  <1>2. CASE b = d.i2c.bus
    <2>1. r = Result(d, TRUE)
      BY <1>2 DEF i2c_flock_open
    <2>2. r.dev = d /\ r.ok = TRUE
      BY <2>1 DEF Result
    <2> QED
      BY <1>0, <1>2, <2>2 DEF Asked, Kept
  <1> QED
    BY <1>1, <1>2

\* i3c_bus_flock up to the lock.
LEMMA I3cFlockKeeps ==
    ASSUME NEW d, Dev(d), table \in Tables, NEW b, Together(d, b), bus_type(b) = "i3c", NEW r \in i3c_flock_open(d, b)
    PROVE  /\ Dev(r.dev) /\ Kept(r.dev, d) /\ r.ok \in BOOLEAN
           /\ r.ok = TRUE => Asked(r.dev, b)
           /\ r.dev.i2c = d.i2c
  <1>0. b \in Buses /\ Typed(b)
    BY Types DEF Typed
  <1> DEFINE opened == {Result([o.dev EXCEPT !.token = o.ok], o.ok) : o \in i3c_open_device_drivers(d, b)}
             owned == IF d.token THEN {Result(d, TRUE)}
                      ELSE opened \cup (IF MayFail THEN {Result(d, FALSE)} ELSE {})
  <1>1. d.token \in BOOLEAN
    BY DevFields DEF Dev
  <1>2. PICK q \in owned : \/ q.ok /\ \E ok \in Ok : r = Result(q.dev, ok)
                           \/ ~q.ok /\ r = q
    <2>1. i3c_flock_open(d, b) = Then(owned, LAMBDA e : {Result(e, ok) : ok \in Ok})
      BY DEF i3c_flock_open
    <2> HIDE DEF owned
    <2> QED
      BY <2>1 DEF Then
  <1>3. Dev(q.dev) /\ q.dev.dflt = d.dflt /\ q.dev.moved = d.moved /\ q.dev.i2c = d.i2c /\ q.ok \in BOOLEAN
        /\ (q.ok = TRUE => q.dev.token = TRUE)
    <2>1. CASE q = Result(d, TRUE) /\ d.token = TRUE
      BY <2>1 DEF Result
    <2>2. CASE q = Result(d, FALSE)
      BY <2>2 DEF Result
    <2>3. CASE q \in opened /\ d.token = FALSE
      <3>1. PICK o \in i3c_open_device_drivers(d, b) : q = Result([o.dev EXCEPT !.token = o.ok], o.ok)
        BY <2>3
      <3>2. d.i3c.locked = FALSE
        BY <2>3, DevFields DEF Dev
      <3>3. /\ Dev(o.dev) /\ o.dev.dflt = d.dflt /\ o.dev.moved = d.moved /\ o.dev.i2c = d.i2c /\ o.dev.token = d.token
            /\ o.ok \in BOOLEAN /\ o.dev.i3c.locked = FALSE
            /\ o.ok = TRUE => o.dev.i3c.open = TRUE /\ o.dev.i3c.bus = b
        BY <1>0, <2>3, <3>2, I3cOpenKeeps
      <3> DEFINE x == o.dev
                 y == o.ok
                 e == [x EXCEPT !.token = y]
      <3>4. q.dev = e /\ q.ok = y
        BY <3>1 DEF Result
      <3>5. x \in Devs /\ y \in BOOLEAN
        BY <3>3 DEF Dev
      <3> HIDE DEF x, y
      <3>6. Fields(e, x.dflt, x.held, y, x.moved, x.i2c, x.i3c)
        BY <3>5 DEF Fields, Devs
      <3> HIDE DEF e
      <3>7. Dev(e)
        BY <3>3, <3>6, bus_type(b) = "i3c" DEF Dev, Fields, Together, x, y
      <3> QED
        BY <3>3, <3>4, <3>6, <3>7 DEF Fields, x, y
    <2> QED
      BY <1>1, <2>1, <2>2, <2>3
  <1> HIDE DEF owned
  <1>4. r.dev = q.dev /\ r.ok \in BOOLEAN /\ (r.ok = TRUE => q.ok = TRUE)
    <2>1. CASE q.ok = TRUE
      <3>1. PICK ok \in Ok : r = Result(q.dev, ok)
        BY <1>2, <2>1
      <3>2. ok \in BOOLEAN
        BY DEF Ok
      <3> QED
        BY <2>1, <3>1, <3>2 DEF Result
    <2>2. CASE q.ok = FALSE
      BY <1>2, <2>2
    <2> QED
      BY <1>3, <2>1, <2>2
  <1>5. ASSUME r.ok = TRUE
        PROVE  Asked(r.dev, b)
    <2>1. r.dev.token = TRUE
      BY <1>3, <1>4, <1>5
    <2>2. r.dev.moved = FALSE => r.dev.i3c.open = TRUE /\ r.dev.i3c.bus = r.dev.dflt
      BY <1>3, <1>4, <2>1 DEF Dev
    <2>3. r.dev.moved = FALSE => r.dev.dflt = b
      BY <1>3, <1>4 DEF Together
    <2> QED
      BY <1>0, <2>1, <2>2, <2>3 DEF Asked
  <1> QED
    BY <1>3, <1>4, <1>5 DEF Kept

\* dev_flock up to the lock.
LEMMA FlockKeeps ==
    ASSUME NEW d, Dev(d), table \in Tables, NEW b, Together(d, b), NEW r \in flock_open(d, b)
    PROVE  /\ Dev(r.dev) /\ Kept(r.dev, d) /\ r.ok \in BOOLEAN
           /\ r.ok = TRUE => Asked(r.dev, b)
           /\ bus_type(b) = "i2c" /\ r.ok = FALSE => r.dev.i2c.locked = FALSE
           /\ d.i2c.locked = FALSE => r.dev.i2c.locked = FALSE
  <1>1. CASE bus_type(b) = "i2c"
    <2>1. r \in i2c_flock_open(d, b)
      BY <1>1 DEF flock_open
    <2> QED
      BY <1>1, <2>1, I2cFlockKeeps
  <1>2. CASE bus_type(b) = "i3c"
    <2>1. r \in i3c_flock_open(d, b)
      BY <1>2 DEF flock_open
    <2> QED
      BY <1>2, <2>1, I3cFlockKeeps
  <1>3. CASE bus_type(b) \notin {"i2c", "i3c"}
    <2>1. r = Result(d, FALSE)
      BY <1>3 DEF flock_open
    <2>2. r.dev = d /\ r.ok = FALSE
      BY <2>1 DEF Result
    <2> QED
      BY <1>3, <2>2 DEF Kept
  <1> QED
    BY <1>1, <1>2, <1>3

\* dev_flock with LOCK_UN.
LEMMA UnlockKeeps ==
    ASSUME NEW d, Dev(d), table \in Tables, NEW b, Together(d, b), NEW r \in dev_unlock(d, b)
    PROVE  /\ Dev(r.dev) /\ Kept(r.dev, d)
           /\ bus_type(b) = "i2c" => r.dev.i2c.locked = FALSE
  <1>1. PICK q \in flock_open(d, b) :
          \/ q.ok /\ r = Result(Unlocked(q.dev, bus_type(b)), bus_type(b) = "i3c" \/ q.dev.i2c.open)
          \/ ~q.ok /\ r = q
    BY DEF dev_unlock, Then
  <1>2. /\ Dev(q.dev) /\ Kept(q.dev, d) /\ q.ok \in BOOLEAN
        /\ q.ok = TRUE => Asked(q.dev, b)
        /\ bus_type(b) = "i2c" /\ q.ok = FALSE => q.dev.i2c.locked = FALSE
    BY FlockKeeps
  <1>3. CASE q.ok = FALSE
    BY <1>1, <1>2, <1>3
  <1>4. CASE q.ok = TRUE
    <2>1. bus_type(b) \in {"i2c", "i3c"}
      BY <1>2, <1>4 DEF Asked, Typed
    <2>2. r.dev = Unlocked(q.dev, bus_type(b))
      BY <1>1, <1>4 DEF Result
    <2> DEFINE x == q.dev
               y == Unlocked(x, "i2c")
               z == Unlocked(x, "i3c")
    <2>3. Dev(x) /\ x.dflt = d.dflt /\ x.moved = d.moved
      BY <1>2 DEF Kept
    <2> HIDE DEF x
    <2>4. Dev(y) /\ y.dflt = x.dflt /\ y.moved = x.moved /\ y.i2c.locked = FALSE /\ Dev(z) /\ z.dflt = x.dflt /\ z.moved = x.moved
      BY <2>3, UnlockedKeeps
    <2>5. (r.dev = y /\ bus_type(b) = "i2c") \/ (r.dev = z /\ bus_type(b) = "i3c")
      BY <2>1, <2>2 DEF x
    <2> HIDE DEF y, z
    <2> QED
      BY <2>3, <2>4, <2>5 DEF Kept
  <1> QED
    BY <1>2, <1>3, <1>4

\* The handler of bus b has it open and locked.
Owns(d, b) ==
    \/ bus_type(b) = "i2c" /\ d.i2c.bus = b /\ d.i2c.open = TRUE /\ d.i2c.locked = TRUE
    \/ bus_type(b) = "i3c" /\ d.i3c.bus = b /\ d.i3c.open = TRUE /\ d.i3c.locked = TRUE

\* flock(LOCK_EX) returns.
LEMMA ExclusiveKeeps ==
    ASSUME NEW d, Dev(d), table \in Tables, NEW b, Asked(d, b), NEW r \in flock_exclusive(d, b)
    PROVE  /\ Dev(r.dev) /\ Kept(r.dev, d) /\ r.ok \in BOOLEAN
           /\ r.ok = FALSE => r.dev = d
           /\ r.ok = TRUE /\ d.moved = FALSE => Owns(r.dev, b)
  <1>1. d \in Devs /\ d["i2c"] = d.i2c /\ d["i3c"] = d.i3c /\ d.i2c.open \in BOOLEAN /\ d.i3c.open \in BOOLEAN
        /\ d.i2c.locked \in BOOLEAN /\ d.i3c.locked \in BOOLEAN
    BY DevFields DEF Dev
  <1>2. CASE bus_type(b) = "i2c"
    <2>1. CASE d.i2c.open = FALSE
      <3>1. r = Result(d, FALSE)
        BY <1>1, <1>2, <2>1 DEF flock_exclusive
      <3> QED
        BY <3>1 DEF Result, Kept
    <2>2. CASE d.i2c.open = TRUE
      <3>1. (d.i2c.locked = TRUE \/ d.i2c.bus \notin (other \cup d.held)) /\ r = Result(Locked(d, "i2c"), TRUE)
        BY <1>1, <1>2, <2>2 DEF flock_exclusive
      <3>2. r.dev = Locked(d, "i2c") /\ r.ok = TRUE
        BY <3>1 DEF Result
      <3> DEFINE x == Locked(d, "i2c")
      <3>4. Dev(x) /\ x.dflt = d.dflt /\ x.moved = d.moved /\ x.i2c.bus = d.i2c.bus /\ x.i2c.open = TRUE /\ x.i2c.locked = TRUE
        BY <2>2, <3>1, LockedKeeps
      <3> HIDE DEF x
      <3>5. r.dev = x
        BY <3>2 DEF x
      <3> QED
        BY <1>2, <3>2, <3>4, <3>5 DEF Owns, Asked, Kept
    <2> QED
      BY <1>1, <2>1, <2>2
  <1>3. CASE bus_type(b) = "i3c"
    <2>1. CASE d.i3c.open = FALSE
      <3>1. r = Result(d, TRUE)
        BY <1>1, <1>3, <2>1 DEF flock_exclusive
      <3>2. d.moved # FALSE
        BY <1>3, <2>1 DEF Asked
      <3> QED
        BY <3>1, <3>2 DEF Result, Kept
    <2>2. CASE d.i3c.open = TRUE
      <3>1. (d.i3c.locked = TRUE \/ d.i3c.bus \notin (other \cup d.held)) /\ r = Result(Locked(d, "i3c"), TRUE)
        BY <1>1, <1>3, <2>2 DEF flock_exclusive
      <3>2. r.dev = Locked(d, "i3c") /\ r.ok = TRUE
        BY <3>1 DEF Result
      <3>3. d.token = TRUE
        BY <1>3 DEF Asked
      <3> DEFINE x == Locked(d, "i3c")
      <3>4. Dev(x) /\ x.dflt = d.dflt /\ x.moved = d.moved /\ x.i3c.bus = d.i3c.bus /\ x.i3c.open = TRUE /\ x.i3c.locked = TRUE
        BY <2>2, <3>1, <3>3, LockedKeeps
      <3> HIDE DEF x
      <3>5. r.dev = x
        BY <3>2 DEF x
      <3> QED
        BY <1>3, <3>2, <3>4, <3>5 DEF Owns, Asked, Kept
    <2> QED
      BY <1>1, <2>1, <2>2
  <1> QED
    BY <1>2, <1>3 DEF Asked, Typed

\* Another bus becomes the default one.
LEMMA DefaultKeeps ==
    ASSUME NEW d, Dev(d), NEW b \in Buses, d.moved = FALSE => d.token = FALSE \/ b = d.dflt
    PROVE  LET e == [d EXCEPT !.dflt = b] IN Dev(e) /\ e.dflt = b /\ e.moved = d.moved
  <1> DEFINE e == [d EXCEPT !.dflt = b]
  <1>1. d \in Devs
    BY DEF Dev
  <1>2. Fields(e, b, d.held, d.token, d.moved, d.i2c, d.i3c)
    BY <1>1 DEF Fields, Devs
  <1> HIDE DEF e
  <1>3. Dev(e)
    BY <1>2 DEF Dev, Fields
  <1> QED
    BY <1>2, <1>3 DEF Fields, e

\* What a bus select leaves behind, whether it fails or not.
SelectedWell(d, b, r) ==
    /\ Dev(r.dev) /\ r.ok \in BOOLEAN /\ r.dev.moved = d.moved
    /\ Typed(d.dflt) => Typed(r.dev.dflt)
    /\ Owns(d, b) => r.dev = d

\* i2c_bus_select
LEMMA I2cSelectKeeps ==
    ASSUME NEW d, Dev(d), table \in Tables, NEW b, Together(d, b), bus_type(b) = "i2c", NEW r \in i2c_bus_select(d, b)
    PROVE  SelectedWell(d, b, r)
  <1>0. b \in Buses /\ Typed(b) /\ table[b] = "i2c" /\ Enabled("i2c")
    BY Types DEF Typed
  <1>1. CASE b = d.i2c.bus
    <2>1. r = Result(d, TRUE)
      BY <1>0, <1>1 DEF i2c_bus_select
    <2>2. r.dev = d /\ r.ok = TRUE
      BY <2>1 DEF Result
    <2> QED
      BY <2>2 DEF SelectedWell
  <1>2. CASE b # d.i2c.bus
    <2> DEFINE e == i2c_close_driver(d)
               S == i2c_open_driver(e, b)
    <2>1. r \in Then(S, LAMBDA x : {Result([x EXCEPT !.dflt = b], TRUE)})
      BY <1>0, <1>2 DEF i2c_bus_select
    <2>2. Dev(e) /\ e.dflt = d.dflt /\ e.moved = d.moved /\ e.token = d.token /\ e.i2c.locked = FALSE
      BY I2cCloseKeeps
    <2> HIDE DEF e
    <2>3. ASSUME NEW q \in S
          PROVE  /\ Dev(q.dev) /\ q.dev.dflt = d.dflt /\ q.dev.moved = d.moved /\ q.ok \in BOOLEAN
                 /\ q.dev.token = d.token
      BY <1>0, <2>2, I2cOpenKeeps
    <2> HIDE DEF S
    <2>4. PICK q \in S : \/ q.ok /\ r = Result([q.dev EXCEPT !.dflt = b], TRUE)
                         \/ ~q.ok /\ r = q
      BY <2>1 DEF Then
    <2>5. ~Owns(d, b)
      BY <1>2, bus_type(b) = "i2c" DEF Owns
    <2>6. CASE q.ok = FALSE
      BY <2>3, <2>4, <2>5, <2>6 DEF SelectedWell
    <2>7. CASE q.ok = TRUE
      <3> DEFINE x == q.dev
                 y == [x EXCEPT !.dflt = b]
      <3>1. Dev(x) /\ x.moved = d.moved /\ (x.moved = FALSE => x.token = FALSE)
        <4>1. ASSUME d.moved = FALSE, d.token = TRUE
              PROVE  FALSE
          <5>1. bus_type(d.dflt) = "i3c"
            BY <4>1 DEF Dev
          <5> QED
            BY <4>1, <5>1, bus_type(b) = "i2c" DEF Together
        <4>2. d.token \in BOOLEAN
          BY DevFields DEF Dev
        <4> QED
          BY <2>3, <4>1, <4>2
      <3>2. r.dev = y /\ r.ok = TRUE
        BY <2>4, <2>7 DEF Result
      <3> HIDE DEF x
      <3>3. Dev(y) /\ y.dflt = b /\ y.moved = d.moved
        BY <1>0, <3>1, DefaultKeeps
      <3> HIDE DEF y
      <3> QED
        BY <1>0, <2>5, <3>2, <3>3 DEF SelectedWell
    <2> QED
      BY <2>3, <2>6, <2>7
  <1> QED
    BY <1>1, <1>2

\* It locks nothing.
LEMMA I2cSelectFree ==
    ASSUME NEW d, Dev(d), table \in Tables, NEW b, Together(d, b), bus_type(b) = "i2c", d.i2c.locked = FALSE,
           NEW r \in i2c_bus_select(d, b)
    PROVE  r.dev.i2c.locked = FALSE
  <1>0. b \in Buses /\ Typed(b) /\ table[b] = "i2c" /\ Enabled("i2c")
    BY Types DEF Typed
  <1>1. CASE b = d.i2c.bus
    <2>1. r = Result(d, TRUE)
      BY <1>0, <1>1 DEF i2c_bus_select
    <2> QED
      BY <2>1 DEF Result
  <1>2. CASE b # d.i2c.bus
    <2> DEFINE e == i2c_close_driver(d)
               S == i2c_open_driver(e, b)
    <2>1. r \in Then(S, LAMBDA x : {Result([x EXCEPT !.dflt = b], TRUE)})
      BY <1>0, <1>2 DEF i2c_bus_select
    <2>2. Dev(e) /\ e.dflt = d.dflt /\ e.moved = d.moved /\ e.i2c.locked = FALSE
      BY I2cCloseKeeps
    <2> HIDE DEF e
    <2>3. ASSUME NEW q \in S
          PROVE  Dev(q.dev) /\ q.dev.i2c.locked = FALSE /\ q.ok \in BOOLEAN
      BY <1>0, <2>2, I2cOpenKeeps
    <2> HIDE DEF S
    <2>4. PICK q \in S : \/ q.ok /\ r = Result([q.dev EXCEPT !.dflt = b], TRUE)
                         \/ ~q.ok /\ r = q
      BY <2>1 DEF Then
    <2>5. CASE q.ok = FALSE
      BY <2>3, <2>4, <2>5
    <2>6. CASE q.ok = TRUE
      <3> DEFINE x == q.dev
                 y == [x EXCEPT !.dflt = b]
      <3>1. x \in Devs /\ x.i2c.locked = FALSE
        BY <2>3 DEF Dev
      <3>2. r.dev = y
        BY <2>4, <2>6 DEF Result
      <3> HIDE DEF x
      <3>3. y.i2c = x.i2c
        BY <3>1 DEF Devs
      <3> QED
        BY <3>1, <3>2, <3>3
    <2> QED
      BY <2>3, <2>5, <2>6
  <1> QED
    BY <1>1, <1>2

\* i3c_bus_select
LEMMA I3cSelectKeeps ==
    ASSUME NEW d, Dev(d), table \in Tables, NEW b, Together(d, b), bus_type(b) = "i3c", NEW r \in i3c_bus_select(d, b)
    PROVE  SelectedWell(d, b, r)
  <1>0. b \in Buses /\ Typed(b) /\ table[b] = "i3c" /\ Enabled("i3c")
    BY Types DEF Typed
  <1>1. d.i3c.open \in BOOLEAN /\ d.token \in BOOLEAN /\ d.i3c.locked \in BOOLEAN
    BY DevFields DEF Dev
  <1>2. CASE b = d.i3c.bus /\ d.i3c.open = TRUE
    <2>1. r = Result(d, TRUE)
      BY <1>0, <1>2 DEF i3c_bus_select
    <2>2. r.dev = d /\ r.ok = TRUE
      BY <2>1 DEF Result
    <2> QED
      BY <2>2 DEF SelectedWell
  <1>3. CASE b = d.i3c.bus /\ d.i3c.open = FALSE
    <2>1. r \in i3c_open_device_drivers(d, b)
      BY <1>0, <1>3 DEF i3c_bus_select
    <2>2. d.i3c.locked = FALSE /\ (d.moved = FALSE => d.token = FALSE)
      BY <1>1, <1>3 DEF Dev
    <2>3. Dev(r.dev) /\ r.dev.dflt = d.dflt /\ r.dev.moved = d.moved /\ r.ok \in BOOLEAN
      BY <1>0, <2>1, <2>2, I3cOpenKeeps
    <2>4. ~Owns(d, b)
      BY <1>3, bus_type(b) = "i3c" DEF Owns
    <2> QED
      BY <2>3, <2>4 DEF SelectedWell
  <1>4. CASE b # d.i3c.bus
    <2> DEFINE e == i3c_close_device_drivers(d)
               S == i3c_open_device_drivers(e, b)
    <2>1. r \in Then(S, LAMBDA x : {Result([x EXCEPT !.dflt = b], TRUE)})
      BY <1>0, <1>4 DEF i3c_bus_select
    <2>2. d.moved = FALSE => d.token = FALSE
      <3> SUFFICES ASSUME d.moved = FALSE, d.token = TRUE
                   PROVE  FALSE
        BY <1>1
      <3>1. d.i3c.bus = d.dflt
        BY DEF Dev
      <3>2. b = d.dflt
        BY bus_type(b) = "i3c" DEF Together
      <3> QED
        BY <1>4, <3>1, <3>2
    <2>3. Dev(e) /\ e.dflt = d.dflt /\ e.moved = d.moved /\ e.token = d.token /\ e.i3c.locked = FALSE
      BY <2>2, I3cCloseKeeps
    <2> HIDE DEF e
    <2>4. ASSUME NEW q \in S
          PROVE  /\ Dev(q.dev) /\ q.dev.dflt = d.dflt /\ q.dev.moved = d.moved /\ q.ok \in BOOLEAN
                 /\ q.dev.token = d.token
      <3>1. e.moved = FALSE => e.token = FALSE
        BY <2>2, <2>3
      <3>2. q.dev.moved = e.moved
        BY <1>0, <2>3, <3>1, I3cOpenKeeps
      <3>3. q.dev.token = e.token
        BY <1>0, <2>3, <3>1, I3cOpenKeeps
      <3>4. Dev(q.dev) /\ q.dev.dflt = e.dflt /\ q.ok \in BOOLEAN
        BY <1>0, <2>3, <3>1, I3cOpenKeeps
      <3> QED
        BY <2>3, <3>2, <3>3, <3>4
    <2> HIDE DEF S
    <2>5. PICK q \in S : \/ q.ok /\ r = Result([q.dev EXCEPT !.dflt = b], TRUE)
                         \/ ~q.ok /\ r = q
      BY <2>1 DEF Then
    <2>6. ~Owns(d, b)
      BY <1>4, bus_type(b) = "i3c" DEF Owns
    <2>7. CASE q.ok = FALSE
      BY <2>4, <2>5, <2>6, <2>7 DEF SelectedWell
    <2>8. CASE q.ok = TRUE
      <3> DEFINE x == q.dev
                 y == [x EXCEPT !.dflt = b]
      <3>1. Dev(x) /\ x.moved = d.moved /\ (x.moved = FALSE => x.token = FALSE)
        BY <2>2, <2>4
      <3>2. r.dev = y /\ r.ok = TRUE
        BY <2>5, <2>8 DEF Result
      <3> HIDE DEF x
      <3>3. Dev(y) /\ y.dflt = b /\ y.moved = d.moved
        BY <1>0, <3>1, DefaultKeeps
      <3> HIDE DEF y
      <3> QED
        BY <1>0, <2>6, <3>2, <3>3 DEF SelectedWell
    <2> QED
      BY <2>4, <2>7, <2>8
  <1> QED
    BY <1>1, <1>2, <1>3, <1>4

\* A bus select keeps the lock of a bus that is open and locked.
LEMMA SelectKeeps ==
    ASSUME NEW d, Dev(d), table \in Tables, NEW b, Together(d, b), NEW r \in handler_bus_select(d, b)
    PROVE  SelectedWell(d, b, r)
  <1>1. CASE bus_type(b) = "i2c"
    <2>1. r \in i2c_bus_select(d, b)
      BY <1>1 DEF handler_bus_select
    <2> QED
      BY <1>1, <2>1, I2cSelectKeeps
  <1>2. CASE bus_type(b) = "i3c"
    <2>1. r \in i3c_bus_select(d, b)
      BY <1>2 DEF handler_bus_select
    <2> QED
      BY <1>2, <2>1, I3cSelectKeeps
  <1>3. CASE bus_type(b) \notin {"i2c", "i3c"}
    <2>1. r = Result(d, FALSE)
      BY <1>3 DEF handler_bus_select
    <2>2. r.dev = d /\ r.ok = FALSE
      BY <2>1 DEF Result
    <2> QED
      BY <2>2 DEF SelectedWell
  <1> QED
    BY <1>1, <1>2, <1>3

\* Another bus is about to be selected.
LEMMA MovingKeeps ==
    ASSUME NEW d, Dev(d), NEW b
    PROVE  LET e == Moving(d, b)
           IN  /\ Dev(e) /\ e.dflt = d.dflt /\ Together(e, b)
               /\ e.moved = FALSE => d.moved = FALSE
  <1> DEFINE m == d.moved \/ bus_type(d.dflt) = "i3c" \/ bus_type(b) = "i3c"
             e == [d EXCEPT !.moved = m]
  <1>1. d \in Devs /\ d.moved \in BOOLEAN
    BY DevFields DEF Dev
  <1>2. /\ m \in BOOLEAN
        /\ m = FALSE => d.moved = FALSE /\ bus_type(d.dflt) # "i3c" /\ bus_type(b) # "i3c"
    BY <1>1
  <1> HIDE DEF m
  <1>3. Fields(e, d.dflt, d.held, d.token, m, d.i2c, d.i3c)
    BY <1>1, <1>2 DEF Fields, Devs
  <1>4. e = Moving(d, b)
    BY DEF Moving, m
  <1> HIDE DEF e
  <1>5. Dev(e)
    BY <1>2, <1>3 DEF Dev, Fields
  <1>6. Together(e, b)
    BY <1>2, <1>3 DEF Together, Fields
  <1> QED
    BY <1>2, <1>3, <1>4, <1>5, <1>6 DEF Fields

-----------------------------------------------------------------------------
(* The message in progress. *)

Op == [id : Nat, read : BOOLEAN, len : Lens]
Reqs ==
    [cmds : 0..MaxCmds, last : BOOLEAN, ops : Nat, queued : Seq(Op), resp : Seq(Nat),
     cnt : 0..MaxDataSize, sent : Seq(Nat), want : Buses \cup {NoBus}, refused : BOOLEAN,
     back : BOOLEAN, end : {"none", "ok", "err"},
     flush : [on : Buses \cup {NoBus}, want : Buses \cup {NoBus}, held : BOOLEAN]]

\* One transfer is answered; the response fits its buffer.
LEMMA AnswerDone ==
    ASSUME NEW r \in Reqs, NEW m \in Op
    PROVE  LET a == Answer(r, m)
           IN  /\ a \in Reqs
               /\ a.cmds = r.cmds /\ a.last = r.last /\ a.ops = r.ops /\ a.queued = r.queued
               /\ a.want = r.want /\ a.refused = r.refused /\ a.back = r.back /\ a.end = r.end
               /\ a.flush = r.flush
               /\ \/ a.sent = r.sent /\ a.resp = Append(r.resp, m.id)
                  \/ a.sent = r.sent \o r.resp /\ a.resp = <<m.id>>
  <1> DEFINE full == m.len + r.cnt + 2 > MaxDataSize
             s == IF full THEN r.sent \o r.resp ELSE r.sent
             p == IF full THEN <<m.id>> ELSE Append(r.resp, m.id)
             c == (IF full THEN 0 ELSE r.cnt) + 2 + (IF m.read THEN m.len ELSE 0)
             a == Answer(r, m)
  <1>1. a = [r EXCEPT !.sent = s, !.resp = p, !.cnt = c]
    BY DEF Answer
  <1>2. /\ m.len \in Nat /\ m.len + 2 <= MaxDataSize /\ m.id \in Nat /\ m.read \in BOOLEAN
        /\ r.cnt \in 0..MaxDataSize /\ r.resp \in Seq(Nat) /\ r.sent \in Seq(Nat) /\ MaxDataSize \in Nat
    BY BusMsgAssumption DEF Op, Reqs
  <1>3. c \in 0..MaxDataSize
    <2> DEFINE l == m.len
               k == r.cnt
               x == IF m.read THEN m.len ELSE 0
    <2>1. l \in Nat /\ l + 2 <= MaxDataSize /\ k \in Nat /\ k <= MaxDataSize /\ x \in Nat /\ x <= l /\ MaxDataSize \in Nat
      BY <1>2
    <2>2. c = (IF l + k + 2 > MaxDataSize THEN 0 ELSE k) + 2 + x
      OBVIOUS
    <2> HIDE DEF c, l, k, x
    <2> QED
      BY <2>1, <2>2
  <1>4. s \in Seq(Nat) /\ p \in Seq(Nat)
    BY <1>2
  <1>5. \/ s = r.sent /\ p = Append(r.resp, m.id)
        \/ s = r.sent \o r.resp /\ p = <<m.id>>
    OBVIOUS
  <1> HIDE DEF s, p, c, a
  <1>6. /\ a \in Reqs
        /\ a.cmds = r.cmds /\ a.last = r.last /\ a.ops = r.ops /\ a.queued = r.queued
        /\ a.want = r.want /\ a.refused = r.refused /\ a.back = r.back /\ a.end = r.end
        /\ a.flush = r.flush /\ a.sent = s /\ a.resp = p
    BY <1>1, <1>3, <1>4 DEF Reqs
  <1> QED
    BY <1>5, <1>6 DEF a

\* The rounds of build_responses, as functions.
Rounds(ms) == [i \in 1..Len(ms) |-> [r \in Reqs |-> Answer(r, ms[i])]]

\* g takes them one after the other.
Builds(g, ms, base) ==
    /\ g \in [0..Len(ms) -> Reqs]
    /\ g[0] = base
    /\ \A i \in 1..Len(ms) : g[i] = Answer(g[i - 1], ms[i])

\* A round maps a message to a message.
LEMMA RoundsType ==
    ASSUME NEW ms \in Seq(Op)
    PROVE  /\ Rounds(ms) \in [1..Len(ms) -> [Reqs -> Reqs]]
           /\ \A i \in 1..Len(ms) : \A r \in Reqs : Rounds(ms)[i][r] = Answer(r, ms[i])
  <1>1. \A i \in 1..Len(ms) : ms[i] \in Op
    OBVIOUS
  <1>2. \A i \in 1..Len(ms) : \A r \in Reqs : Answer(r, ms[i]) \in Reqs
    BY <1>1, AnswerDone
  <1> QED
    BY <1>2 DEF Rounds

\* The rounds can be taken.
LEMMA BuildsExist ==
    ASSUME NEW ms \in Seq(Op), NEW base \in Reqs
    PROVE  \E g : Builds(g, ms, base)
  <1> DEFINE n == Len(ms)
             h == Rounds(ms)
  <1>1. n \in Nat /\ h \in [1..n -> [Reqs -> Reqs]]
    BY RoundsType
  <1>2. RecursTo(n, Reqs, base, h)
    <2> HIDE DEF n, h
    <2> QED
      BY <1>1, NumberRecursion
  <1>3. PICK g \in [0..n -> Reqs] : \A i \in 0..n : g[i] = IF i = 0 THEN base ELSE h[i][g[i - 1]]
    <2> HIDE DEF n, h
    <2> QED
      BY <1>2 DEF RecursTo
  <1>4. ASSUME NEW i \in 1..n
        PROVE  g[i] = Answer(g[i - 1], ms[i])
    <2>1. i \in 0..n /\ i # 0 /\ i - 1 \in 0..n
      BY <1>1
    <2>2. g[i - 1] \in Reqs
      BY <2>1
    <2>3. g[i] = h[i][g[i - 1]]
      <3> HIDE DEF h, n
      <3> QED
        BY <1>3, <2>1
    <2> QED
      BY <2>2, <2>3, RoundsType
  <1>5. g[0] = base
    BY <1>1, <1>3
  <1> QED
    BY <1>4, <1>5 DEF Builds

\* build_responses takes them.
LEMMA BuildIsRun ==
    ASSUME NEW r \in Reqs, NEW g, Builds(g, r.queued, [r EXCEPT !.queued = <<>>])
    PROVE  build_responses(r) = g[Len(r.queued)]
  <1> DEFINE ms == r.queued
             base == [r EXCEPT !.queued = <<>>]
             n == Len(ms)
             D == 1..n
             h == Rounds(ms)
             Def(f) == [s \in SUBSET D |->
                          IF s = {} THEN base ELSE Answer(f[s \ {Greatest(s)}], ms[Greatest(s)])]
             iter == CHOOSE f : f = Def(f)
  <1>0. ms \in Seq(Op) /\ n \in Nat /\ DOMAIN ms = D /\ base \in Reqs
    <2>1. ms \in Seq(Op)
      BY DEF Reqs
    <2>2. base \in Reqs
      <3> DEFINE x == <<>>
      <3>1. x \in Seq(Op)
        OBVIOUS
      <3> HIDE DEF x
      <3>2. [r EXCEPT !.queued = x] \in Reqs
        BY <3>1 DEF Reqs
      <3> QED
        BY <3>2 DEF x
    <2> HIDE DEF ms, base
    <2> QED
      BY <2>1, <2>2
  <1>1. build_responses(r) = iter[D]
    BY <1>0 DEF build_responses, FoldLeft, MapThenFoldSet, Max, Greatest
  <1>2. h \in [D -> [Reqs -> Reqs]] /\ \A i \in D : \A x \in Reqs : h[i][x] = Answer(x, ms[i])
    BY <1>0, RoundsType
  <1>3. \A s \in SUBSET D : s # {} => Greatest(s) \in s /\ Greatest(s) \in D
    BY <1>0, GreatestNumber
  <1>4. Builds(g, ms, base)
    OBVIOUS
  <1> HIDE DEF h, base, ms
  <1>5. \E f : f = Def(f)
    <2>1. FoldExists(n, Reqs, base, h)
      <3> HIDE DEF n
      <3> QED
        BY <1>0, <1>2, FoldRecursion
    <2>2. PICK f \in [SUBSET D -> Reqs] :
            \A s \in SUBSET D :
               f[s] = IF s = {} THEN base ELSE h[Greatest(s)][f[s \ {Greatest(s)}]]
      <3> HIDE DEF n
      <3> QED
        BY <2>1 DEF FoldExists
    <2>3. ASSUME NEW s \in SUBSET D, s # {}
          PROVE  h[Greatest(s)][f[s \ {Greatest(s)}]] = Answer(f[s \ {Greatest(s)}], ms[Greatest(s)])
      <3>1. Greatest(s) \in D /\ f[s \ {Greatest(s)}] \in Reqs
        BY <1>3, <2>3
      <3> HIDE DEF D
      <3> QED
        BY <1>2, <3>1
    <2>4. f = Def(f)
      <3> HIDE DEF D
      <3> QED
        BY <2>2, <2>3
    <2> QED
      BY <2>4
  <1>6. iter = Def(iter)
    <2> HIDE DEF Def
    <2> QED
      BY <1>5
  <1> HIDE DEF iter
  <1>7. IsFold(iter, n, Reqs, base, h)
    <2>1. \A s \in SUBSET D : Def(iter)[s] = IF s = {} THEN base
              ELSE Answer(iter[s \ {Greatest(s)}], ms[Greatest(s)])
      OBVIOUS
    <2> HIDE DEF Def
    <2>2. iter[{}] = base
      BY <1>6, <2>1
    <2>3. ASSUME NEW s \in SUBSET D, s # {}, iter[s \ {Greatest(s)}] \in Reqs
          PROVE  iter[s] = h[Greatest(s)][iter[s \ {Greatest(s)}]]
      <3>1. iter[s] = Answer(iter[s \ {Greatest(s)}], ms[Greatest(s)])
        BY <1>6, <2>1, <2>3
      <3>2. h[Greatest(s)][iter[s \ {Greatest(s)}]] = Answer(iter[s \ {Greatest(s)}], ms[Greatest(s)])
        BY <1>2, <1>3, <2>3
      <3> QED
        BY <3>1, <3>2
    <2> HIDE DEF n
    <2> QED
      BY <2>2, <2>3 DEF IsFold
  <1> HIDE DEF Def
  <1>8. IsRun(g, n, Reqs, base, h)
    <2>1. g \in [0..n -> Reqs] /\ g[0] = base
      BY <1>4 DEF Builds
    <2>2. ASSUME NEW i \in 1..n
          PROVE  g[i] = h[i][g[i - 1]]
      <3>1. g[i - 1] \in Reqs
        BY <1>0, <2>1
      <3>2. h[i][g[i - 1]] = Answer(g[i - 1], ms[i])
        BY <1>2, <3>1
      <3>3. g[i] = Answer(g[i - 1], ms[i])
        BY <1>4 DEF Builds
      <3> QED
        BY <3>2, <3>3
    <2> HIDE DEF n
    <2> QED
      BY <2>1, <2>2 DEF IsRun
  <1>9. iter[1..n] = g[n]
    <2> HIDE DEF n
    <2> QED
      BY <1>0, <1>7, <1>8, FoldIsRun
  <1> QED
    BY <1>1, <1>9 DEF ms

\* What a flush leaves alone.
Alike(r, s) ==
    /\ s.cmds = r.cmds /\ s.last = r.last /\ s.ops = r.ops /\ s.want = r.want
    /\ s.refused = r.refused /\ s.back = r.back /\ s.end = r.end

\* Numbers that go on counting.
Counts(S, P, n) ==
    /\ Len(S) + Len(P) = n
    /\ \A i \in 1..Len(S) : S[i] = i
    /\ \A i \in 1..Len(P) : P[i] = Len(S) + i

\* The next number is put at their end, ...
LEMMA CountsNext ==
    ASSUME NEW S \in Seq(Nat), NEW P \in Seq(Nat), NEW n \in Nat, Counts(S, P, n)
    PROVE  Counts(S, Append(P, n + 1), n + 1)
  <1> DEFINE Q == Append(P, n + 1)
             s == Len(S)
             p == Len(P)
  <1>1. Len(Q) = p + 1 /\ (\A i \in 1..p : Q[i] = P[i]) /\ Q[p + 1] = n + 1
    OBVIOUS
  <1>2. s \in Nat /\ p \in Nat /\ s + p = n /\ \A i \in 1..p : P[i] = s + i
    BY DEF Counts
  <1> HIDE DEF Q, s, p
  <1>3. \A i \in 1..(p + 1) : Q[i] = s + i
    <2> SUFFICES ASSUME NEW i \in 1..(p + 1)
                 PROVE  Q[i] = s + i
      OBVIOUS
    <2>1. CASE i \in 1..p
      BY <1>1, <1>2, <2>1
    <2>2. CASE i = p + 1
      <3>1. Q[i] = n + 1
        BY <1>1, <2>2
      <3>2. s + i = n + 1
        BY <1>2, <2>2
      <3> QED
        BY <3>1, <3>2
    <2> QED
      BY <1>2, <2>1, <2>2
  <1>4. s + Len(Q) = n + 1
    BY <1>1, <1>2
  <1> QED
    BY <1>1, <1>3, <1>4 DEF Counts, Q, s

\* ... and two runs of them are put together.
LEMMA CountsJoined ==
    ASSUME NEW S \in Seq(Nat), NEW P \in Seq(Nat), NEW n \in Nat, Counts(S, P, n)
    PROVE  /\ Len(S \o P) = n
           /\ \A i \in 1..n : (S \o P)[i] = i
  <1> DEFINE Q == S \o P
             s == Len(S)
             p == Len(P)
  <1>1. /\ Len(Q) = s + p
        /\ \A i \in 1..s : Q[i] = S[i]
        /\ \A i \in 1..(s + p) : i > s => Q[i] = P[i - s]
    OBVIOUS
  <1>2. /\ s \in Nat /\ p \in Nat /\ s + p = n
        /\ \A i \in 1..s : S[i] = i
        /\ \A i \in 1..p : P[i] = s + i
    BY DEF Counts
  <1> HIDE DEF Q, s, p
  <1>3. \A i \in 1..n : Q[i] = i
    <2> SUFFICES ASSUME NEW i \in 1..n
                 PROVE  Q[i] = i
      OBVIOUS
    <2>1. CASE i \in 1..s
      BY <1>1, <1>2, <2>1
    <2>2. CASE i > s
      <3> DEFINE j == i - s
      <3>1. j \in 1..p /\ s + j = i /\ i \in 1..(s + p)
        BY <1>2, <2>2
      <3>2. Q[i] = P[j]
        BY <1>1, <2>2, <3>1
      <3> HIDE DEF j
      <3>3. P[j] = s + j
        BY <1>2, <3>1
      <3> QED
        BY <3>1, <3>2, <3>3
    <2> QED
      BY <1>2, <2>1, <2>2
  <1> QED
    BY <1>1, <1>2, <1>3 DEF Q

\* One answer more, in this response or in the next.
LEMMA CountsAnswered ==
    ASSUME NEW r \in Reqs, NEW n \in Nat, Counts(r.sent, r.resp, n), NEW m \in Op, m.id = n + 1
    PROVE  Counts(Answer(r, m).sent, Answer(r, m).resp, n + 1)
  <1> DEFINE a == Answer(r, m)
             S == r.sent
             P == r.resp
  <1>1. \/ a.sent = S /\ a.resp = Append(P, n + 1)
        \/ a.sent = S \o P /\ a.resp = <<n + 1>>
    <2>1. \/ a.sent = S /\ a.resp = Append(P, m.id)
          \/ a.sent = S \o P /\ a.resp = <<m.id>>
      <3> HIDE DEF a
      <3> QED
        BY AnswerDone DEF a
    <2> HIDE DEF a, S, P
    <2> QED
      BY <2>1
  <1>2. S \in Seq(Nat) /\ P \in Seq(Nat) /\ Counts(S, P, n)
    BY DEF Reqs
  <1> HIDE DEF a, S, P
  <1>3. CASE a.sent = S /\ a.resp = Append(P, n + 1)
    BY <1>2, <1>3, CountsNext DEF a
  <1>4. CASE a.sent = S \o P /\ a.resp = <<n + 1>>
    <2>1. Len(a.sent) = n /\ \A i \in 1..n : a.sent[i] = i
      BY <1>2, <1>4, CountsJoined
    <2> DEFINE T == a.sent
               Q == a.resp
    <2>2. Len(Q) = 1 /\ Q[1] = n + 1
      BY <1>4
    <2>3. Len(T) = n /\ \A i \in 1..n : T[i] = i
      BY <2>1
    <2> HIDE DEF T, Q
    <2>4. Counts(T, Q, n + 1)
      BY <2>2, <2>3 DEF Counts
    <2> QED
      BY <2>4 DEF T, Q, a
  <1> QED
    BY <1>1, <1>3, <1>4

\* Each transfer of the message has been answered in a response that is sent,
\* is answered in the one being built, or is queued, in this order.
Accounted(r) ==
    LET n == r.ops - Len(r.queued)
    IN  /\ n \in Nat
        /\ Counts(r.sent, r.resp, n)
        /\ \A i \in 1..Len(r.queued) : r.queued[i].id = n + i

\* What build_responses has done after k rounds.
Built(r, s, k) ==
    /\ s.queued = <<>> /\ Alike(r, s)
    /\ Accounted(r) => Counts(s.sent, s.resp, r.ops - Len(r.queued) + k)

\* build_responses answers what is queued.
LEMMA BuildDone ==
    ASSUME NEW r \in Reqs
    PROVE  build_responses(r) \in Reqs /\ Built(r, build_responses(r), Len(r.queued))
  <1> DEFINE ms == r.queued
             base == [r EXCEPT !.queued = <<>>]
             n == Len(ms)
             c == r.ops - n
  <1>1. ms \in Seq(Op) /\ n \in Nat /\ c \in Int
    <2>1. ms \in Seq(Op) /\ r.ops \in Nat
      BY DEF Reqs
    <2> HIDE DEF ms
    <2> QED
      BY <2>1
  <1>2. base \in Reqs /\ base.sent = r.sent /\ base.resp = r.resp /\ base.queued = <<>> /\ Alike(r, base)
    <2> DEFINE x == <<>>
    <2>1. x \in Seq(Op)
      OBVIOUS
    <2> HIDE DEF x
    <2>2. [r EXCEPT !.queued = x] \in Reqs
      BY <2>1 DEF Reqs
    <2>3. base \in Reqs
      BY <2>2 DEF x
    <2> QED
      BY <2>3 DEF Alike, Reqs
  <1>3. PICK g : Builds(g, ms, base)
    <2> HIDE DEF ms, base
    <2> QED
      BY <1>1, <1>2, BuildsExist
  <1>4. build_responses(r) = g[n]
    BY <1>3, BuildIsRun
  <1>5. /\ \A k \in 0..n : g[k] \in Reqs
        /\ g[0] = base
        /\ \A i \in 1..n : g[i] = Answer(g[i - 1], ms[i])
    BY <1>3 DEF Builds
  <1> HIDE DEF base
  <1>6. Built(r, g[0], 0)
    <2>1. c + 0 = c
      BY <1>1
    <2>2. Accounted(r) => Counts(r.sent, r.resp, c)
      BY DEF Accounted
    <2> QED
      BY <1>2, <1>5, <2>1, <2>2 DEF Built
  <1> DEFINE T == {k \in Nat : k \in 0..n => Built(r, g[k], k)}
  <1>7. 0 \in T
    BY <1>6
  <1>8. ASSUME NEW k \in Nat, k \in T
        PROVE  k + 1 \in T
    <2>1. SUFFICES ASSUME k + 1 \in 0..n
                   PROVE  Built(r, g[k + 1], k + 1)
      OBVIOUS
    <2> DEFINE x == g[k]
               m == ms[k + 1]
               a == Answer(x, m)
               j == c + k
    <2>2. k \in 0..n /\ k + 1 \in 1..n /\ (k + 1) - 1 = k
      BY <1>1, <2>1
    <2>3. x \in Reqs /\ Built(r, x, k) /\ m \in Op
      BY <1>1, <1>5, <1>8, <2>2
    <2>4. g[k + 1] = a
      <3>1. g[k + 1] = Answer(g[(k + 1) - 1], ms[k + 1])
        <4> HIDE DEF ms, n
        <4> QED
          BY <1>5, <2>2
      <3> QED
        BY <2>2, <3>1
    <2>5. Accounted(r) => c \in Nat /\ m.id = c + (k + 1)
      BY <2>2 DEF Accounted
    <2>6. Built(r, x, k) => x.queued = <<>> /\ Alike(r, x) /\ (Accounted(r) => Counts(x.sent, x.resp, j))
      BY DEF Built
    <2> HIDE DEF x, m, c
    <2>7. Accounted(r) => j \in Nat /\ j + 1 = c + (k + 1) /\ m.id = j + 1
      BY <2>5
    <2> HIDE DEF j
    <2>8. a \in Reqs /\ Alike(x, a) /\ a.queued = x.queued
      BY <2>3, AnswerDone DEF Alike
    <2>9. Accounted(r) => Counts(a.sent, a.resp, j + 1)
      BY <2>3, <2>6, <2>7, CountsAnswered
    <2> HIDE DEF a
    <2>10. Alike(r, a)
      BY <2>3, <2>6, <2>8 DEF Alike
    <2>11. Accounted(r) => Counts(a.sent, a.resp, c + (k + 1))
      BY <2>7, <2>9
    <2>12. Built(r, a, k + 1)
      BY <2>3, <2>6, <2>8, <2>10, <2>11 DEF Built, c
    <2> QED
      BY <2>4, <2>12
  <1> HIDE DEF T
  <1>9. Nat \subseteq T
    BY <1>7, <1>8, NumberInduction
  <1>10. n \in T /\ n \in 0..n
    BY <1>1, <1>9
  <1>11. Built(r, g[n], n)
    BY <1>10 DEF T
  <1> QED
    BY <1>4, <1>5, <1>10, <1>11

-----------------------------------------------------------------------------
(* The invariant. *)

\* A message that may have more commands is below their bound.
Req(r) == r \in Reqs /\ (r.last = FALSE => r.cmds < MaxCmds)

\* The last flush, if no select failed, none went back to the default bus and
\* the client has not moved.
Flushed(d, r) ==
    d.moved = FALSE /\ r.flush.on # NoBus /\ r.refused = FALSE /\ r.back = FALSE =>
      r.flush.held = TRUE /\ r.flush.on = r.flush.want

\* A message is processed.
Work(d, r) ==
    /\ Dev(d) /\ Typed(d.dflt)
    /\ Req(r) /\ Flushed(d, r) /\ r.end = "none"
    /\ r.refused = FALSE => Accounted(r)

\* The bus is locked, and transfers go to its handler.
Ready(d, b) == Owns(d, b) /\ bus_type(b) = bus_type(d.dflt)

\* That is so of the bus the client selected last.
Owned(d, r) == d.moved = FALSE /\ r.refused = FALSE /\ r.back = FALSE => Ready(d, r.want)

\* No I2C bus is locked, unless the unlock is left to the I3C handler.
Free(d) == bus_type(d.dflt) # "i3c" => d.i2c.locked = FALSE

Busy == {"lock", "loop", "relock"}

IInv ==
    /\ table \in Tables /\ other \subseteq Buses
    /\ pc \in {"down", "idle"} \cup Busy /\ sel \in Buses \cup {NoBus}
    /\ Dev(dev) /\ Req(req) /\ Flushed(dev, req) /\ AnswersComplete
    /\ pc = "down" => dev.moved = FALSE
    /\ pc \in Busy => Work(dev, req)
    /\ pc \in {"lock", "relock"} => Asked(dev, sel)
    /\ pc \in {"lock", "loop"} => req.last = FALSE
    /\ pc = "lock" => req.want = sel /\ sel = dev.dflt
    /\ pc = "relock" => Together(dev, sel)
    /\ pc = "loop" => Owned(dev, req)
    /\ pc # "loop" => Free(dev)

\* The flush of a message in progress, to the bus the client selected last.
LEMMA FlushKeeps ==
    ASSUME NEW d, NEW r, table \in Tables, Work(d, r), Owned(d, r)
    PROVE  LET f == Flush(d, r)
           IN  Work(d, f) /\ Owned(d, f) /\ f.queued = <<>> /\ f.last = r.last
  <1> DEFINE q == build_responses(r)
             b == WorkedOn(d)
             z == [on |-> b, want |-> r.want, held |-> b \in d.held]
             f == Flush(d, r)
  <1>1. r \in Reqs /\ Dev(d) /\ d \in Devs /\ Typed(d.dflt) /\ r.end = "none" /\ (r.refused = FALSE => Accounted(r))
        /\ (r.last = FALSE => r.cmds < MaxCmds)
    BY DEF Work, Req, Dev
  <1>2. q \in Reqs /\ Built(r, q, Len(r.queued))
    BY <1>1, BuildDone
  <1>3. q.queued = <<>> /\ Alike(r, q)
    BY <1>2 DEF Built
  <1>4. b \in Buses \cup {NoBus}
    BY <1>1, DevFields DEF WorkedOn
  <1>5. r.want \in Buses \cup {NoBus}
    BY <1>1 DEF Reqs
  <1>6. ASSUME d.moved = FALSE, r.refused = FALSE, r.back = FALSE, b # NoBus
        PROVE  b = r.want /\ b \in d.held
    <2> DEFINE w == r.want
    <2>1. Owns(d, w) /\ bus_type(d.dflt) = bus_type(w)
      BY <1>6 DEF Owned, Ready
    <2> HIDE DEF w
    <2>2. b = w
      BY <1>1, <2>1, DevFields DEF WorkedOn, Owns
    <2>3. w \in d.held
      BY <1>1, <2>1 DEF Owns, Dev
    <2> QED
      BY <2>2, <2>3 DEF w
  <1>7. /\ z \in [on : Buses \cup {NoBus}, want : Buses \cup {NoBus}, held : BOOLEAN]
        /\ z.on = b /\ z.want = r.want /\ (b \in d.held => z.held = TRUE)
    <2> DEFINE t == b \in d.held
               w == r.want
    <2>1. t \in BOOLEAN /\ (b \in d.held => t = TRUE)
      OBVIOUS
    <2>2. w \in Buses \cup {NoBus} /\ z = [on |-> b, want |-> w, held |-> t]
      BY <1>5
    <2> HIDE DEF t, w, b, z
    <2>3. /\ z \in [on : Buses \cup {NoBus}, want : Buses \cup {NoBus}, held : BOOLEAN]
          /\ z.on = b /\ z.want = w /\ z.held = t
      BY <1>4, <2>1, <2>2
    <2> QED
      BY <2>1, <2>3 DEF w
  <1>8. f = [q EXCEPT !.flush = z]
    BY DEF Flush
  <1> HIDE DEF q, z, f, b
  <1>9. /\ f \in Reqs /\ Alike(q, f) /\ f.queued = q.queued /\ f.flush = z
        /\ f.sent = q.sent /\ f.resp = q.resp
    BY <1>2, <1>7, <1>8 DEF Alike, Reqs
  <1>10. Alike(r, f) /\ f.queued = <<>>
    BY <1>3, <1>9 DEF Alike
  <1>11. Req(f)
    BY <1>1, <1>9, <1>10 DEF Req, Alike
  <1>12. Flushed(d, f)
    BY <1>6, <1>7, <1>9, <1>10 DEF Flushed, Alike
  <1>13. Accounted(r) => Accounted(f)
    <2> SUFFICES ASSUME Accounted(r)
                 PROVE  Accounted(f)
      OBVIOUS
    <2> DEFINE m == Len(r.queued)
               k == r.ops
    <2>1. Counts(q.sent, q.resp, k - m + m)
      BY <1>2 DEF Built
    <2>2. k \in Nat /\ m \in Nat
      <3>1. r.queued \in Seq(Op) /\ r.ops \in Nat
        BY <1>1 DEF Reqs
      <3> QED
        BY <3>1
    <2> HIDE DEF m, k
    <2>3. k - m + m = k /\ k - 0 = k
      BY <2>2
    <2>4. Counts(f.sent, f.resp, k)
      BY <1>9, <2>1, <2>3
    <2>5. Len(f.queued) = 0 /\ f.ops = k
      BY <1>10 DEF Alike, k
    <2> QED
      BY <2>2, <2>3, <2>4, <2>5 DEF Accounted
  <1>14. Work(d, f)
    BY <1>1, <1>10, <1>11, <1>12, <1>13 DEF Work, Alike
  <1>15. Owned(d, f)
    BY <1>10 DEF Owned, Alike
  <1> QED
    BY <1>10, <1>14, <1>15 DEF f, Alike

\* The table and the other programs' locks stay as they are.
Still == table \in Tables /\ other \subseteq Buses /\ UNCHANGED <<table, other>>

\* What the invariant says of the next state, while they do.
LEMMA Unmoved ==
    ASSUME Still
    PROVE  /\ Dev(dev)' <=> Dev(dev')
           /\ Flushed(dev, req)' <=> Flushed(dev', req')
           /\ Req(req)' <=> Req(req')
           /\ Work(dev, req)' <=> Work(dev', req')
           /\ Asked(dev, sel)' <=> Asked(dev', sel')
           /\ Owned(dev, req)' <=> Owned(dev', req')
           /\ Together(dev, sel)' <=> Together(dev', sel')
           /\ Free(dev)' <=> Free(dev')
  <1>0. table' = table /\ other' = other
    BY DEF Still
  <1>1. \A b : bus_type(b)' = bus_type(b)
    BY <1>0 DEF bus_type
  <1>2. Together(dev, sel)' <=> Together(dev', sel')
    BY <1>0 DEF Together, bus_type
  <1>3. Dev(dev)' <=> Dev(dev')
    BY <1>0 DEF Dev, bus_type
  <1>4. Flushed(dev, req)' <=> Flushed(dev', req')
    BY DEF Flushed
  <1>5. Req(req)' <=> Req(req')
    BY DEF Req
  <1>6. Typed(dev.dflt)' <=> Typed(dev'.dflt)
    BY <1>0 DEF Typed, bus_type
  <1>7. Work(dev, req)' <=> Work(dev', req')
    BY <1>3, <1>4, <1>5, <1>6 DEF Work
  <1>8. Asked(dev, sel)' <=> Asked(dev', sel')
    BY <1>0 DEF Asked, Typed, bus_type
  <1>9. Owned(dev, req)' <=> Owned(dev', req')
    BY <1>0 DEF Owned, Ready, Owns, bus_type
  <1>10. Free(dev)' <=> Free(dev')
    BY <1>0 DEF Free, bus_type
  <1> QED
    BY <1>2, <1>3, <1>4, <1>5, <1>7, <1>8, <1>9, <1>10

\* The loop goes on.
LEMMA GoOnDone ==
    ASSUME Still, NEW d, NEW r, Work(d, r), Owned(d, r), r.last = FALSE, GoOn(d, r)
    PROVE  IInv'
  <1>1. dev' = d /\ req' = r /\ pc' = "loop" /\ sel' = NoBus
    BY DEF GoOn
  <1>2. Work(dev, req)' /\ Owned(dev, req)' /\ Dev(dev)' /\ Req(req)' /\ Flushed(dev, req)'
    BY <1>1, Unmoved DEF Work
  <1>3. AnswersComplete'
    BY <1>1 DEF AnswersComplete, Work
  <1>4. (table \in Tables)' /\ (other \subseteq Buses)'
    BY DEF Still
  <1> QED
    BY <1>1, <1>2, <1>3, <1>4 DEF IInv, Busy

\* The message ends.
LEMMA FinishDone ==
    ASSUME Still, NEW d, NEW r, Work(d, r), NEW ok \in BOOLEAN,
           ok = TRUE /\ r.refused = FALSE => r.queued = <<>>, Finish(d, r, ok)
    PROVE  IInv'
  <1> DEFINE e == IF ok THEN "ok" ELSE "err"
             s == IF ok THEN r.sent \o r.resp ELSE r.sent
             f == [r EXCEPT !.end = e, !.sent = s]
  <1>1. PICK u \in dev_unlock(d, d.dflt) : dev' = u.dev
    BY DEF Finish
  <1>2. req' = f /\ pc' = "idle" /\ sel' = NoBus
    BY DEF Finish
  <1>3. table \in Tables /\ Dev(d) /\ Typed(d.dflt) /\ Req(r) /\ r \in Reqs /\ Flushed(d, r)
    BY DEF Work, Req, Still
  <1>4. /\ Dev(u.dev) /\ u.dev.dflt = d.dflt /\ u.dev.moved = d.moved
        /\ bus_type(d.dflt) = "i2c" => u.dev.i2c.locked = FALSE
    <2>1. Together(d, d.dflt)
      BY DEF Together
    <2>2. Dev(u.dev) /\ Kept(u.dev, d) /\ (bus_type(d.dflt) = "i2c" => u.dev.i2c.locked = FALSE)
      BY <1>3, <2>1, UnlockKeeps
    <2> QED
      BY <2>2 DEF Kept
  <1>5. Free(u.dev)
    BY <1>3, <1>4, Types DEF Free, Typed
  <1>6. r.sent \in Seq(Nat) /\ r.resp \in Seq(Nat)
    BY <1>3 DEF Reqs
  <1>7. e \in {"none", "ok", "err"} /\ s \in Seq(Nat) /\ (ok = FALSE => e = "err")
    BY <1>6
  <1>8. ok = TRUE => s = r.sent \o r.resp
    OBVIOUS
  <1> HIDE DEF e, s
  <1>9. f \in Reqs /\ Alike([r EXCEPT !.end = e], f) /\ f.flush = r.flush /\ f.sent = s
    BY <1>3, <1>7 DEF Reqs, Alike
  <1>10. f.last = r.last /\ f.cmds = r.cmds /\ f.ops = r.ops /\ f.refused = r.refused /\ f.back = r.back /\ f.end = e
    BY <1>3, <1>7 DEF Reqs
  <1> HIDE DEF f
  <1>11. Req(f) /\ Flushed(u.dev, f)
    BY <1>3, <1>4, <1>9, <1>10 DEF Req, Flushed
  <1>12. ASSUME ok = TRUE, r.refused = FALSE
         PROVE  s = [i \in 1..r.ops |-> i]
    <2> DEFINE S == r.sent
               P == r.resp
               n == r.ops
    <2>1. Accounted(r) /\ Len(r.queued) = 0 /\ n \in Nat
      BY <1>3, <1>12 DEF Work, Reqs
    <2>2. n - 0 = n
      BY <2>1
    <2>3. Counts(S, P, n)
      BY <2>1, <2>2 DEF Accounted
    <2>4. s = S \o P /\ S \in Seq(Nat) /\ P \in Seq(Nat)
      BY <1>6, <1>8, <1>12
    <2> HIDE DEF S, P, n
    <2>5. Len(s) = n /\ \A i \in 1..n : s[i] = i
      BY <2>1, <2>3, <2>4, CountsJoined
    <2>6. s \in Seq(Nat)
      BY <1>7
    <2>7. s = [i \in 1..n |-> i]
      BY <2>1, <2>5, <2>6
    <2> QED
      BY <2>7 DEF n
  <1>13. AnswersComplete'
    <2> SUFFICES ASSUME e = "ok", r.refused = FALSE
                 PROVE  f.sent = [i \in 1..f.ops |-> i]
      <3>1. r.refused \in BOOLEAN
        BY <1>3 DEF Reqs
      <3> QED
        BY <1>2, <1>10, <3>1 DEF AnswersComplete
    <2>1. ok = TRUE
      BY <1>7
    <2> QED
      BY <1>9, <1>10, <1>12, <2>1
  <1>14. Dev(dev)' /\ Req(req)' /\ Flushed(dev, req)' /\ Free(dev)'
    BY <1>1, <1>2, <1>4, <1>5, <1>11, Unmoved
  <1>15. (table \in Tables)' /\ (other \subseteq Buses)'
    BY DEF Still
  <1> QED
    BY <1>2, <1>13, <1>14, <1>15 DEF IInv, Busy

\* An iteration of the loop ends well.
LEMMA IteratedDone ==
    ASSUME Still, NEW d, NEW r, Work(d, r), Owned(d, r), NEW stop \in BOOLEAN, Iterated(d, r, stop)
    PROVE  IInv'
  <1> DEFINE f == IF r.queued # <<>> /\ (r.last \/ stop) THEN Flush(d, r) ELSE r
  <1>1. IF r.last THEN Finish(d, f, TRUE) ELSE GoOn(d, f)
    BY DEF Iterated
  <1>2. r.last \in BOOLEAN /\ table \in Tables
    BY DEF Work, Req, Reqs, Still
  <1>3. /\ Work(d, f) /\ Owned(d, f) /\ f.last = r.last
        /\ r.last = TRUE => f.queued = <<>>
    <2>1. CASE f = Flush(d, r)
      BY <1>2, <2>1, FlushKeeps
    <2>2. CASE f = r /\ ~(r.queued # <<>> /\ (r.last \/ stop))
      BY <2>2
    <2> QED
      BY <2>1, <2>2
  <1> HIDE DEF f
  <1>4. CASE r.last = TRUE
    BY <1>1, <1>3, <1>4, FinishDone
  <1>5. CASE r.last = FALSE
    BY <1>1, <1>3, <1>5, GoOnDone
  <1> QED
    BY <1>2, <1>4, <1>5

\* A bus select failed.
LEMMA RefusedDone ==
    ASSUME Still, NEW d, NEW r, Work(d, r), SelectRefused(d, r)
    PROVE  IInv'
  <1> DEFINE s == r.sent \o r.resp
             f == [r EXCEPT !.sent = s, !.refused = TRUE]
  <1>1. IF r.last THEN Finish(d, f, TRUE) ELSE GoOn(d, f)
    BY DEF SelectRefused
  <1>2. r \in Reqs /\ r.last \in BOOLEAN /\ (r.last = FALSE => r.cmds < MaxCmds) /\ r.end = "none"
        /\ Dev(d) /\ Typed(d.dflt)
    BY DEF Work, Req, Reqs
  <1>3. r.sent \in Seq(Nat) /\ r.resp \in Seq(Nat)
    BY <1>2 DEF Reqs
  <1>4. s \in Seq(Nat)
    BY <1>3
  <1> HIDE DEF s
  <1>5. f \in Reqs /\ f.refused = TRUE /\ f.last = r.last /\ f.cmds = r.cmds /\ f.end = r.end
    BY <1>2, <1>4 DEF Reqs
  <1> HIDE DEF f
  <1>6. Work(d, f) /\ Owned(d, f)
    BY <1>2, <1>5 DEF Work, Owned, Req, Flushed
  <1>7. CASE r.last = TRUE
    BY <1>1, <1>5, <1>6, <1>7, FinishDone
  <1>8. CASE r.last = FALSE
    BY <1>1, <1>5, <1>6, <1>8, GoOnDone
  <1> QED
    BY <1>2, <1>7, <1>8

\* The second half of a bus select.
LEMMA SelectedDone ==
    ASSUME Still, NEW d, NEW r, Work(d, r), NEW b \in Buses,
           d.moved = FALSE /\ r.refused = FALSE /\ r.back = FALSE => Ready(d, b), Together(d, b),
           Selected(d, r, b)
    PROVE  IInv'
  <1> DEFINE w == [r EXCEPT !.want = b]
  <1>1. PICK q \in handler_bus_select(d, b) :
          IF q.ok THEN Iterated(q.dev, w, FALSE) ELSE SelectRefused(q.dev, r)
    BY DEF Selected
  <1>2. Dev(d) /\ Typed(d.dflt) /\ table \in Tables /\ r \in Reqs /\ r.end = "none"
    BY DEF Work, Still, Req
  <1> DEFINE e == q.dev
  <1>3. Dev(e) /\ Typed(e.dflt) /\ q.ok \in BOOLEAN /\ e.moved = d.moved /\ (Owns(d, b) => e = d)
    BY <1>2, SelectKeeps DEF SelectedWell
  <1> HIDE DEF e
  <1>4. CASE q.ok = FALSE
    <2>1. Work(e, r)
      BY <1>3 DEF Work, Flushed
    <2>2. SelectRefused(e, r)
      BY <1>1, <1>4 DEF e
    <2> QED
      BY <2>1, <2>2, RefusedDone
  <1>5. CASE q.ok = TRUE
    <2>1. /\ w \in Reqs /\ w.last = r.last /\ w.cmds = r.cmds /\ w.end = r.end /\ w.refused = r.refused
          /\ w.back = r.back /\ w.flush = r.flush /\ w.want = b
          /\ w.sent = r.sent /\ w.resp = r.resp /\ w.queued = r.queued /\ w.ops = r.ops
      BY <1>2 DEF Reqs
    <2>2. Iterated(e, w, FALSE)
      BY <1>1, <1>5 DEF e
    <2> HIDE DEF w
    <2>3. Accounted(r) => Accounted(w)
      BY <2>1 DEF Accounted
    <2>4. Req(w) /\ Flushed(e, w)
      BY <1>3, <2>1 DEF Work, Req, Flushed
    <2>5. Work(e, w)
      BY <1>2, <1>3, <2>1, <2>3, <2>4 DEF Work
    <2>6. Owned(e, w)
      BY <1>3, <2>1 DEF Owned, Ready
    <2> QED
      BY <2>2, <2>5, <2>6, IteratedDone
  <1> QED
    BY <1>3, <1>4, <1>5

-----------------------------------------------------------------------------
(* The commands of a message. *)

\* A command is taken off the message.
LEMMA TakenKeeps ==
    ASSUME IInv, pc = "loop", NEW last \in Lasts
    PROVE  LET t == Taken(last)
           IN  /\ Work(dev, t) /\ Owned(dev, t) /\ t \in Reqs /\ t.last = last /\ last \in BOOLEAN
               /\ t.ops = req.ops /\ t.queued = req.queued /\ t.want = req.want /\ t.back = req.back
               /\ t.refused = req.refused
  <1> DEFINE c == req.cmds + 1
             t == Taken(last)
  <1>1. /\ Work(dev, req) /\ Owned(dev, req) /\ req \in Reqs /\ req.last = FALSE /\ req.cmds < MaxCmds
        /\ Flushed(dev, req) /\ Dev(dev) /\ Typed(dev.dflt) /\ req.end = "none"
        /\ (req.refused = FALSE => Accounted(req))
    BY DEF IInv, Busy, Work, Req
  <1>2. c \in 0..MaxCmds /\ last \in BOOLEAN /\ (last = FALSE => c < MaxCmds)
    <2>1. req.cmds \in Nat /\ req.cmds < MaxCmds /\ MaxCmds \in Nat
      BY <1>1, BusMsgAssumption DEF Reqs
    <2>2. c \in 0..MaxCmds
      BY <2>1
    <2>3. last \in IF c < MaxCmds THEN BOOLEAN ELSE {TRUE}
      BY DEF Lasts
    <2> HIDE DEF c
    <2>4. last \in BOOLEAN /\ (last = FALSE => c < MaxCmds)
      BY <2>3
    <2> QED
      BY <2>2, <2>4
  <1>3. t = [req EXCEPT !.cmds = c, !.last = last]
    BY DEF Taken
  <1> HIDE DEF c, t
  <1>4. /\ t \in Reqs /\ t.cmds = c /\ t.last = last
        /\ t.end = req.end /\ t.refused = req.refused
        /\ t.back = req.back /\ t.flush = req.flush /\ t.want = req.want
        /\ t.sent = req.sent /\ t.resp = req.resp /\ t.queued = req.queued /\ t.ops = req.ops
    BY <1>1, <1>2, <1>3 DEF Reqs
  <1>5. Accounted(req) => Accounted(t)
    BY <1>4 DEF Accounted
  <1>6. Req(t) /\ Flushed(dev, t)
    BY <1>1, <1>2, <1>4 DEF Req, Flushed
  <1>7. Work(dev, t)
    BY <1>1, <1>4, <1>5, <1>6 DEF Work
  <1>8. Owned(dev, t)
    BY <1>1, <1>4 DEF Owned
  <1> QED
    BY <1>2, <1>4, <1>7, <1>8 DEF t

\* A read or write is queued, and flushed at the end of the message or at a
\* stop.
LEMMA TransferDone ==
    ASSUME IInv, NEW read \in BOOLEAN, NEW len \in Lens, NEW stop \in BOOLEAN, NEW last \in Lasts,
           Transfer(read, len, stop, last)
    PROVE  IInv'
  <1> DEFINE id == req.ops + 1
             m == [id |-> id, read |-> read, len |-> len]
             t == Taken(last)
             q == Append(t.queued, m)
             r == [t EXCEPT !.ops = id, !.queued = q]
  <1>1. pc = "loop" /\ Iterated(dev, r, stop) /\ UNCHANGED <<table, other>>
    BY DEF Transfer
  <1>2. Still
    BY <1>1 DEF Still, IInv
  <1>3. Work(dev, t) /\ Owned(dev, t) /\ t \in Reqs /\ t.ops = req.ops
    BY <1>1, TakenKeeps
  <1> HIDE DEF t
  <1>4. t.ops \in Nat /\ t.queued \in Seq(Op)
    BY <1>3 DEF Reqs
  <1>5. id \in Nat /\ id = t.ops + 1
    BY <1>3, <1>4
  <1> HIDE DEF id
  <1>6. m \in Op /\ m.id = id
    BY <1>5 DEF Op
  <1> DEFINE Q == t.queued
             n == Len(Q)
  <1>7. q \in Seq(Op) /\ n \in Nat /\ Len(q) = n + 1 /\ (\A i \in 1..n : q[i] = Q[i]) /\ q[n + 1] = m
    <2> HIDE DEF m
    <2>1. Q \in Seq(Op) /\ m \in Op /\ q = Append(Q, m)
      BY <1>4, <1>6
    <2> HIDE DEF Q, q
    <2> QED
      BY <2>1
  <1> HIDE DEF q
  <1>8. /\ r \in Reqs /\ r.ops = id /\ r.queued = q
        /\ r.cmds = t.cmds /\ r.last = t.last /\ r.end = t.end /\ r.refused = t.refused
        /\ r.back = t.back /\ r.flush = t.flush /\ r.want = t.want
        /\ r.sent = t.sent /\ r.resp = t.resp
    BY <1>3, <1>5, <1>7 DEF Reqs
  <1> HIDE DEF r
  <1>9. Accounted(t) => Accounted(r)
    <2> SUFFICES ASSUME Accounted(t)
                 PROVE  Accounted(r)
      OBVIOUS
    <2> DEFINE k == t.ops - n
    <2>1. k \in Nat /\ Counts(t.sent, t.resp, k) /\ \A i \in 1..n : Q[i].id = k + i
      BY DEF Accounted
    <2>2. id - (n + 1) = k /\ id = k + (n + 1)
      BY <1>4, <1>5, <1>7
    <2> HIDE DEF k, n, Q, m
    <2>3. \A i \in 1..(n + 1) : q[i].id = k + i
      <3> SUFFICES ASSUME NEW i \in 1..(n + 1)
                   PROVE  q[i].id = k + i
        OBVIOUS
      <3>1. CASE i \in 1..n
        BY <1>7, <2>1, <3>1
      <3>2. CASE i = n + 1
        BY <1>6, <1>7, <2>2, <3>2
      <3> QED
        BY <1>7, <3>1, <3>2
    <2> QED
      BY <1>7, <1>8, <2>1, <2>2, <2>3 DEF Accounted
  <1>10. Req(r) /\ Flushed(dev, r)
    BY <1>3, <1>8 DEF Work, Req, Flushed
  <1>11. Work(dev, r)
    BY <1>3, <1>8, <1>9, <1>10 DEF Work
  <1>12. Owned(dev, r)
    BY <1>3, <1>8 DEF Owned
  <1> QED
    BY <1>1, <1>2, <1>11, <1>12, IteratedDone

\* The clock is set, or the message is given up.
LEMMA SclkDone ==
    ASSUME IInv, NEW last \in Lasts, SetSclk(last) \/ BadCommand(last)
    PROVE  IInv'
  <1> DEFINE t == Taken(last)
  <1>1. pc = "loop" /\ UNCHANGED <<table, other>> /\ (Iterated(dev, t, FALSE) \/ Finish(dev, t, FALSE))
    BY DEF SetSclk, BadCommand
  <1>2. Still
    BY <1>1 DEF Still, IInv
  <1>3. Work(dev, t) /\ Owned(dev, t)
    BY <1>1, TakenKeeps
  <1> HIDE DEF t
  <1>4. CASE Iterated(dev, t, FALSE)
    BY <1>2, <1>3, <1>4, IteratedDone
  <1>5. CASE Finish(dev, t, FALSE)
    BY <1>2, <1>3, <1>5, FinishDone
  <1> QED
    BY <1>1, <1>4, <1>5

\* The default bus is selected.
LEMMA SelectDefaultDone ==
    ASSUME IInv, NEW last \in Lasts, SelectDefault(last)
    PROVE  IInv'
  <1> DEFINE t == Taken(last)
             z == t.back \/ req.want # dev.dflt
             r == [t EXCEPT !.back = z]
             b == dev.dflt
  <1>1. pc = "loop" /\ Selected(dev, r, b) /\ UNCHANGED <<table, other>>
    BY DEF SelectDefault
  <1>2. Still
    BY <1>1 DEF Still, IInv
  <1>3. Work(dev, t) /\ Owned(dev, t) /\ t \in Reqs /\ t.want = req.want
    BY <1>1, TakenKeeps
  <1>4. b \in Buses
    BY <1>3, DevFields DEF Work, Dev
  <1> HIDE DEF t
  <1>5. t.back \in BOOLEAN
    BY <1>3 DEF Reqs
  <1>6. z \in BOOLEAN /\ (z = FALSE => t.back = FALSE /\ t.want = b)
    BY <1>3, <1>5
  <1> HIDE DEF z, b
  <1>7. /\ r \in Reqs /\ r.back = z /\ r.ops = t.ops /\ r.queued = t.queued
        /\ r.cmds = t.cmds /\ r.last = t.last /\ r.end = t.end /\ r.refused = t.refused
        /\ r.flush = t.flush /\ r.want = t.want
        /\ r.sent = t.sent /\ r.resp = t.resp
    BY <1>3, <1>6 DEF Reqs
  <1> HIDE DEF r
  <1>8. Accounted(t) => Accounted(r)
    BY <1>7 DEF Accounted
  <1>9. Req(r) /\ Flushed(dev, r)
    BY <1>3, <1>6, <1>7 DEF Work, Req, Flushed
  <1>10. Work(dev, r)
    BY <1>3, <1>7, <1>8, <1>9 DEF Work
  <1>11. /\ dev.moved = FALSE /\ r.refused = FALSE /\ r.back = FALSE => Ready(dev, b)
         /\ Together(dev, b)
    BY <1>3, <1>6, <1>7 DEF Owned, Together, b
  <1> QED
    BY <1>1, <1>2, <1>4, <1>10, <1>11, SelectedDone

\* A bus select without a bus.
LEMMA CutShortDone ==
    ASSUME IInv, SelectCutShort
    PROVE  IInv'
  <1>1. pc = "loop" /\ SelectRefused(dev, Taken(TRUE)) /\ UNCHANGED <<table, other>> /\ TRUE \in Lasts
    BY DEF SelectCutShort, Lasts
  <1>2. Still
    BY <1>1 DEF Still, IInv
  <1>3. Work(dev, Taken(TRUE))
    BY <1>1, TakenKeeps
  <1> QED
    BY <1>1, <1>2, <1>3, RefusedDone

\* Another bus is selected, up to the wait for its lock.
LEMMA SelectOtherDone ==
    ASSUME IInv, NEW b \in Buses, NEW last \in Lasts, SelectOther(b, last)
    PROVE  IInv'
  <1> DEFINE t == Taken(last)
  <1>1. pc = "loop" /\ UNCHANGED <<table, other>>
    BY DEF SelectOther
  <1> DEFINE v == Moving(dev, b)
  <1>2. PICK u \in dev_unlock(v, dev.dflt) : \E r \in flock_open(u.dev, b) :
          IF r.ok THEN dev' = r.dev /\ req' = t /\ pc' = "relock" /\ sel' = b
          ELSE SelectRefused(r.dev, t)
    BY DEF SelectOther
  <1> DEFINE x == u.dev
  <1>3. PICK q \in flock_open(x, b) :
          IF q.ok THEN dev' = q.dev /\ req' = t /\ pc' = "relock" /\ sel' = b
          ELSE SelectRefused(q.dev, t)
    BY <1>2
  <1>4. Still /\ table \in Tables
    BY <1>1 DEF Still, IInv
  <1>5. Work(dev, t)
    BY <1>1, TakenKeeps
  <1> HIDE DEF t
  <1>6. Dev(dev) /\ Typed(dev.dflt)
    BY <1>5 DEF Work
  <1>7. Dev(v) /\ v.dflt = dev.dflt /\ Together(v, b) /\ (v.moved = FALSE => dev.moved = FALSE)
    BY <1>6, MovingKeeps
  <1> HIDE DEF v
  <1>8. /\ Dev(x) /\ x.dflt = dev.dflt /\ x.moved = v.moved
        /\ bus_type(dev.dflt) = "i2c" => x.i2c.locked = FALSE
    BY <1>4, <1>7, UnlockKeeps DEF Together, Kept
  <1>9. bus_type(dev.dflt) # "i3c" => x.i2c.locked = FALSE
    BY <1>6, <1>8 DEF Typed
  <1> HIDE DEF x
  <1>10. Together(x, b)
    BY <1>7, <1>8 DEF Together
  <1> DEFINE y == q.dev
  <1>11. /\ Dev(y) /\ y.dflt = x.dflt /\ y.moved = x.moved /\ q.ok \in BOOLEAN
         /\ q.ok = TRUE => Asked(y, b)
         /\ x.i2c.locked = FALSE => y.i2c.locked = FALSE
    BY <1>4, <1>8, <1>10, FlockKeeps DEF Kept
  <1> HIDE DEF y
  <1>12. Work(y, t) /\ Together(y, b)
    BY <1>5, <1>6, <1>7, <1>8, <1>10, <1>11 DEF Work, Flushed, Together
  <1>13. CASE q.ok = FALSE
    <2>1. SelectRefused(y, t)
      BY <1>3, <1>13 DEF y
    <2> QED
      BY <1>4, <1>12, <2>1, RefusedDone
  <1>14. CASE q.ok = TRUE
    <2>1. dev' = y /\ req' = t /\ pc' = "relock" /\ sel' = b
      BY <1>3, <1>14 DEF y
    <2>2. /\ Work(dev, req)' /\ Asked(dev, sel)' /\ Free(dev)' /\ Dev(dev)' /\ Req(req)' /\ Flushed(dev, req)'
          /\ Together(dev, sel)'
      BY <1>4, <1>8, <1>9, <1>11, <1>12, <1>14, <2>1, Unmoved DEF Free, Work
    <2>3. AnswersComplete'
      BY <1>12, <2>1 DEF AnswersComplete, Work
    <2>4. (table \in Tables)' /\ (other \subseteq Buses)'
      BY <1>4 DEF Still
    <2> QED
      BY <2>1, <2>2, <2>3, <2>4 DEF IInv, Busy
  <1> QED
    BY <1>11, <1>13, <1>14

\* The lock of the other bus is obtained or refused.
LEMMA RelockDoneDone ==
    ASSUME IInv, RelockDone
    PROVE  IInv'
  <1>1. pc = "relock" /\ UNCHANGED <<table, other>>
    BY DEF RelockDone
  <1>2. PICK q \in flock_exclusive(dev, sel) :
          IF q.ok THEN Selected(q.dev, req, sel) ELSE SelectRefused(q.dev, req)
    BY DEF RelockDone
  <1>3. Still /\ table \in Tables
    BY <1>1 DEF Still, IInv
  <1>4. Work(dev, req) /\ Asked(dev, sel) /\ Dev(dev) /\ Typed(dev.dflt) /\ Together(dev, sel)
    BY <1>1 DEF IInv, Busy, Work
  <1>5. sel \in Buses
    BY <1>3, <1>4, Types DEF Asked
  <1> DEFINE y == q.dev
  <1>6. /\ Dev(y) /\ y.dflt = dev.dflt /\ y.moved = dev.moved /\ q.ok \in BOOLEAN
        /\ q.ok = TRUE /\ dev.moved = FALSE => Owns(y, sel)
    <2>1. Dev(y) /\ Kept(y, dev) /\ q.ok \in BOOLEAN /\ (q.ok = TRUE /\ dev.moved = FALSE => Owns(y, sel))
      BY <1>3, <1>4, ExclusiveKeeps
    <2> QED
      BY <2>1 DEF Kept
  <1> HIDE DEF y
  <1>7. Work(y, req) /\ Together(y, sel)
    BY <1>4, <1>6 DEF Work, Flushed, Together
  <1>8. CASE q.ok = FALSE
    <2>1. SelectRefused(y, req)
      BY <1>2, <1>8 DEF y
    <2> QED
      BY <1>3, <1>7, <2>1, RefusedDone
  <1>9. CASE q.ok = TRUE
    <2>1. Selected(y, req, sel)
      BY <1>2, <1>9 DEF y
    <2>2. y.moved = FALSE => Ready(y, sel)
      BY <1>3, <1>4, <1>6, <1>7, <1>9, Types DEF Ready, Together, Asked, Typed
    <2> QED
      BY <1>3, <1>5, <1>7, <2>1, <2>2, SelectedDone
  <1> QED
    BY <1>6, <1>8, <1>9

-----------------------------------------------------------------------------
(* The rest of the actions. *)

\* Handlers that hold nothing.
LEMMA EmptyDev ==
    ASSUME NEW d, NEW b, NEW x, NEW y, NEW h, NEW k, Fields(d, b, {}, FALSE, FALSE, h, k),
           Has(h, x, FALSE, FALSE), Has(k, y, FALSE, FALSE)
    PROVE  Dev(d) /\ d.i2c.locked = FALSE /\ d.dflt = b /\ d.moved = FALSE
  BY DEF Dev, Fields, Has

\* Handlers that were just made.
LEMMA NoDevKeeps ==
    ASSUME NEW b \in Buses, NEW g \in Buses \cup {NoBus}
    PROVE  /\ LET d == [NoDev(b) EXCEPT !.i2c.bus = g]
              IN  Dev(d) /\ d.i2c.locked = FALSE /\ d.dflt = b /\ d.moved = FALSE
           /\ Dev(NoDev(b)) /\ NoDev(b).i2c.locked = FALSE /\ NoDev(b).moved = FALSE
  <1> DEFINE h == [bus |-> NoBus, open |-> FALSE, locked |-> FALSE]
             k == [h EXCEPT !.bus = g]
             D == NoDev(b)
             E == [D EXCEPT !.i2c.bus = g]
  <1>1. Has(h, NoBus, FALSE, FALSE)
    BY DEF Has, Handle
  <1>2. D = [conf |-> b, dflt |-> b, held |-> {}, token |-> FALSE, moved |-> FALSE, i2c |-> h, i3c |-> h]
    BY DEF NoDev
  <1> HIDE DEF h, D
  <1>3. Has(k, g, FALSE, FALSE)
    BY <1>1 DEF Has, Handle
  <1>4. Fields(D, b, {}, FALSE, FALSE, h, h)
    BY <1>1, <1>2 DEF Fields, Devs, Has
  <1>5. D \in Devs /\ D.i2c = h
    BY <1>4 DEF Fields
  <1>6. E = [D EXCEPT !.i2c = k]
    BY <1>5 DEF Devs
  <1>7. k \in Handle
    BY <1>3 DEF Has
  <1> HIDE DEF k, E
  <1>8. Fields(E, b, {}, FALSE, FALSE, k, h)
    <2>1. Fields(E, D.dflt, D.held, D.token, D.moved, k, D.i3c)
      BY <1>5, <1>6, <1>7, DevChanged, DevFields
    <2> QED
      BY <1>4, <2>1 DEF Fields
  <1>9. Dev(D) /\ D.i2c.locked = FALSE /\ D.moved = FALSE
    BY <1>1, <1>4, EmptyDev
  <1>10. Dev(E) /\ E.i2c.locked = FALSE /\ E.dflt = b /\ E.moved = FALSE
    BY <1>1, <1>3, <1>8, EmptyDev
  <1> QED
    BY <1>9, <1>10 DEF D, E

\* The handlers are made.
LEMMA InitializeDone ==
    ASSUME IInv, Initialize
    PROVE  IInv'
  <1> DEFINE made(g) == [NoDev(dev.conf) EXCEPT !.i2c.bus = g]
  <1>1. /\ pc = "down" /\ pc' = "idle" /\ UNCHANGED <<table, other, sel, req>>
    BY DEF Initialize
  <1>2. PICK g \in Buses \cup {NoBus} :
          \E r \in IF Enabled("i2c") THEN i2c_bus_select(made(g), made(g).dflt) ELSE {Result(made(g), TRUE)} :
            r.ok /\ dev' = r.dev
    BY DEF Initialize
  <1> DEFINE d == made(g)
             b == d.dflt
  <1>3. PICK r \in IF Enabled("i2c") THEN i2c_bus_select(d, b) ELSE {Result(d, TRUE)} : r.ok /\ dev' = r.dev
    BY <1>2
  <1>4. table \in Tables /\ Still
    BY <1>1 DEF IInv, Still
  <1>5. dev.conf \in Buses
    BY DevFields DEF IInv, Dev
  <1>6. Dev(d) /\ d.i2c.locked = FALSE /\ d.dflt = dev.conf /\ d.moved = FALSE
    BY <1>4, <1>5, NoDevKeeps
  <1>7. b \in Buses /\ Together(d, b)
    BY <1>5, <1>6 DEF Together
  <1> HIDE DEF d, b
  <1>8. Dev(r.dev) /\ Free(r.dev) /\ r.dev.moved = FALSE
    <2>1. CASE ~Enabled("i2c")
      <3>1. r.dev = d
        BY <1>3, <2>1 DEF Result
      <3> QED
        BY <1>6, <3>1 DEF Free
    <2>2. CASE Enabled("i2c") /\ bus_type(b) # "i2c"
      <3>1. table[b] # "i2c" /\ r \in i2c_bus_select(d, b)
        BY <1>3, <1>4, <1>7, <2>2, Types
      <3>2. r = Result(d, TRUE) \/ r = Result(d, FALSE)
        BY <2>2, <3>1 DEF i2c_bus_select
      <3>3. r.dev = d
        BY <3>2 DEF Result
      <3> QED
        BY <1>6, <3>3 DEF Free
    <2>3. CASE Enabled("i2c") /\ bus_type(b) = "i2c"
      <3>1. r \in i2c_bus_select(d, b)
        BY <1>3, <2>3
      <3> QED
        BY <1>4, <1>7, <1>6, <2>3, <3>1, I2cSelectKeeps, I2cSelectFree DEF SelectedWell, Free
    <2> QED
      BY <2>1, <2>2, <2>3
  <1>9. Dev(dev)' /\ Free(dev)' /\ Req(req)' /\ Flushed(dev, req)'
    <2>1. Req(req') /\ Flushed(dev', req')
      BY <1>1 DEF IInv, Flushed
    <2> QED
      BY <1>3, <1>4, <1>8, <2>1, Unmoved
  <1>10. AnswersComplete'
    BY <1>1 DEF IInv, AnswersComplete
  <1>11. (table \in Tables)' /\ (other \subseteq Buses)'
    BY <1>4 DEF Still
  <1> QED
    BY <1>1, <1>9, <1>10, <1>11 DEF IInv, Busy

\* No message.
LEMMA NoReqKeeps ==
    NoReq \in Reqs /\ Req(NoReq) /\ (\A d : Flushed(d, NoReq)) /\ NoReq.end = "none"
  <1> DEFINE z == [on |-> NoBus, want |-> NoBus, held |-> FALSE]
  <1>1. <<>> \in Seq(Op) /\ <<>> \in Seq(Nat)
    OBVIOUS
  <1>2. 0 \in 0..MaxCmds /\ 0 \in 0..MaxDataSize /\ 0 < MaxCmds
    BY BusMsgAssumption
  <1>3. z \in [on : Buses \cup {NoBus}, want : Buses \cup {NoBus}, held : BOOLEAN] /\ z.on = NoBus
    OBVIOUS
  <1>4. /\ NoReq = [cmds |-> 0, last |-> FALSE, ops |-> 0, queued |-> <<>>, resp |-> <<>>,
                    cnt |-> 0, sent |-> <<>>, want |-> NoBus, refused |-> FALSE, back |-> FALSE,
                    end |-> "none", flush |-> z]
    BY DEF NoReq
  <1> HIDE DEF z
  <1>5. NoReq.flush = z /\ NoReq.cmds = 0 /\ NoReq.end = "none"
    BY <1>4
  <1>6. NoReq \in Reqs
    BY <1>1, <1>2, <1>3, <1>4 DEF Reqs
  <1> QED
    BY <1>2, <1>3, <1>5, <1>6 DEF Req, Flushed

\* The handlers are freed, and hold nothing any more.
LEMMA DeinitializeDone ==
    ASSUME IInv, Deinitialize
    PROVE  IInv'
  <1> DEFINE e == i2c_close_driver(dev)
             b == dev.conf
             H == i3c_close_device_drivers(e).held
             N == NoDev(b)
  <1>1. /\ pc = "idle" /\ pc' = "down" /\ UNCHANGED <<table, other, sel>> /\ req' = NoReq
        /\ dev' = [N EXCEPT !.held = H]
    BY DEF Deinitialize
  <1>2. table \in Tables /\ Still /\ Dev(dev)
    BY <1>1 DEF IInv, Still
  <1>3. b \in Buses
    BY <1>2, DevFields DEF Dev
  <1>4. Dev(e) /\ e.i2c.locked = FALSE
    BY <1>2, I2cCloseKeeps
  <1>5. H = {}
    <2> HIDE DEF e
    <2>1. e \in Devs
      BY <1>4 DEF Dev
    <2>2. H = Less(e, "i3c")
      BY <2>1, ClosedFields DEF i3c_close_device_drivers, Fields
    <2>3. Less(e, "i3c") = {}
      BY <1>4, OtherKeeps
    <2> QED
      BY <2>2, <2>3
  <1>6. N.held = {} /\ Dev(N) /\ N.i2c.locked = FALSE /\ N.moved = FALSE
    <2>1. N.held = {}
      BY DEF NoDev
    <2> QED
      BY <1>2, <1>3, <2>1, NoDevKeeps
  <1> HIDE DEF H, N
  <1>7. dev' = N
    <2>1. N \in Devs
      BY <1>6 DEF Dev
    <2> QED
      BY <1>1, <1>5, <1>6, <2>1 DEF Devs
  <1>8. Dev(dev)' /\ Free(dev)' /\ Req(req)' /\ Flushed(dev, req)' /\ dev'.moved = FALSE
    BY <1>1, <1>2, <1>6, <1>7, NoReqKeeps, Unmoved DEF Free
  <1>9. AnswersComplete'
    BY <1>1, NoReqKeeps DEF AnswersComplete
  <1>10. (table \in Tables)' /\ (other \subseteq Buses)' /\ (sel \in Buses \cup {NoBus})'
    BY <1>1, <1>2 DEF Still, IInv
  <1> QED
    BY <1>1, <1>8, <1>9, <1>10 DEF IInv, Busy

\* A message that was just begun.
LEMMA BegunKeeps ==
    ASSUME NEW b \in Buses, NEW e \in {"none", "err"}
    PROVE  LET r == [NoReq EXCEPT !.want = b, !.end = e]
           IN  /\ Req(r) /\ (\A d : Flushed(d, r)) /\ Accounted(r) /\ r.end = e /\ r.want = b /\ r.last = FALSE
  <1> DEFINE r == [NoReq EXCEPT !.want = b, !.end = e]
             N == NoReq
  <1>1. N \in Reqs /\ Req(N) /\ \A d : Flushed(d, N)
    BY NoReqKeeps
  <1>2. N.last = FALSE /\ N.ops = 0 /\ N.queued = <<>> /\ N.sent = <<>> /\ N.resp = <<>>
    BY DEF NoReq
  <1>3. r = [N EXCEPT !.want = b, !.end = e]
    OBVIOUS
  <1> HIDE DEF r, N
  <1>4. /\ r \in Reqs /\ r.want = b /\ r.end = e /\ r.ops = N.ops /\ r.queued = N.queued
        /\ r.cmds = N.cmds /\ r.last = N.last /\ r.refused = N.refused /\ r.back = N.back
        /\ r.flush = N.flush /\ r.sent = N.sent /\ r.resp = N.resp
    BY <1>1, <1>3 DEF Reqs
  <1>5. Req(r) /\ \A d : Flushed(d, r)
    BY <1>1, <1>4 DEF Req, Flushed
  <1>6. Accounted(r)
    <2> DEFINE z == <<>>
    <2>1. Len(z) = 0 /\ 0 - 0 = 0 /\ 0 + 0 = 0 /\ 1..0 = {}
      OBVIOUS
    <2>2. r.ops = 0 /\ r.queued = z /\ r.sent = z /\ r.resp = z
      BY <1>2, <1>4
    <2> HIDE DEF z
    <2>3. Counts(z, z, 0)
      BY <2>1 DEF Counts
    <2> QED
      BY <2>1, <2>2, <2>3 DEF Accounted
  <1> QED
    BY <1>2, <1>4, <1>5, <1>6 DEF r

\* A message arrives.
LEMMA ProcessDone ==
    ASSUME IInv, process_message
    PROVE  IInv'
  <1> DEFINE b == dev.dflt
  <1>1. pc = "idle" /\ UNCHANGED <<table, other>>
    BY DEF process_message
  <1>2. PICK q \in flock_open(dev, b) :
          /\ dev' = q.dev
          /\ pc' = IF q.ok THEN "lock" ELSE "idle"
          /\ sel' = IF q.ok THEN b ELSE NoBus
          /\ req' = [NoReq EXCEPT !.want = b, !.end = IF q.ok THEN "none" ELSE "err"]
    BY DEF process_message
  <1>3. table \in Tables /\ Still /\ Dev(dev) /\ Free(dev)
    BY <1>1 DEF IInv, Still
  <1>4. b \in Buses
    BY <1>3, DevFields DEF Dev
  <1> DEFINE y == q.dev
             e == IF q.ok THEN "none" ELSE "err"
  <1>5. /\ Dev(y) /\ y.dflt = b /\ q.ok \in BOOLEAN
        /\ q.ok = TRUE => Asked(y, b)
        /\ dev.i2c.locked = FALSE => y.i2c.locked = FALSE
    BY <1>3, FlockKeeps DEF Together, Kept
  <1>6. Free(y)
    BY <1>3, <1>5 DEF Free
  <1>7. e \in {"none", "err"} /\ dev' = y /\ req' = [NoReq EXCEPT !.want = b, !.end = e]
    BY <1>2
  <1>8. e # "ok"
    OBVIOUS
  <1>9. q.ok = TRUE => e = "none" /\ pc' = "lock" /\ sel' = b
    BY <1>2
  <1>10. q.ok = FALSE => pc' = "idle" /\ sel' = NoBus
    BY <1>2
  <1> HIDE DEF y, e, b
  <1>11. Req(req') /\ Flushed(dev', req') /\ Accounted(req') /\ req'.end = e /\ req'.want = b /\ req'.last = FALSE
    BY <1>4, <1>7, BegunKeeps
  <1>12. Dev(dev)' /\ Free(dev)' /\ Req(req)' /\ Flushed(dev, req)'
    BY <1>3, <1>5, <1>6, <1>7, <1>11, Unmoved
  <1>13. AnswersComplete'
    BY <1>8, <1>11 DEF AnswersComplete
  <1>14. (table \in Tables)' /\ (other \subseteq Buses)'
    BY <1>3 DEF Still
  <1>15. CASE q.ok = FALSE
    BY <1>10, <1>12, <1>13, <1>14, <1>15 DEF IInv, Busy
  <1>16. CASE q.ok = TRUE
    <2>1. pc' = "lock" /\ sel' = b /\ Asked(dev', sel') /\ Typed(b) /\ dev'.dflt = b
      BY <1>5, <1>7, <1>9, <1>16 DEF Asked
    <2>2. Work(dev', req')
      BY <1>5, <1>7, <1>9, <1>11, <1>16, <2>1 DEF Work
    <2>3. Work(dev, req)' /\ Asked(dev, sel)'
      BY <1>3, <2>1, <2>2, Unmoved
    <2> QED
      BY <1>4, <1>11, <1>12, <1>13, <1>14, <2>1, <2>3 DEF IInv, Busy
  <1> QED
    BY <1>5, <1>15, <1>16

\* A message ends before its first command.
LEMMA GivenUp ==
    ASSUME NEW d, NEW r, Req(r), Flushed(d, r)
    PROVE  LET f == [r EXCEPT !.end = "err"] IN Req(f) /\ Flushed(d, f) /\ f.end = "err"
  <1> DEFINE f == [r EXCEPT !.end = "err"]
  <1>1. r \in Reqs
    BY DEF Req
  <1>2. /\ f \in Reqs /\ f.end = "err" /\ f.cmds = r.cmds /\ f.last = r.last
        /\ f.refused = r.refused /\ f.back = r.back /\ f.flush = r.flush
    BY <1>1 DEF Reqs
  <1> HIDE DEF f
  <1> QED
    BY <1>2 DEF Req, Flushed, f

\* The lock of the default bus is obtained or refused.
LEMMA FlockDoneDone ==
    ASSUME IInv, FlockDone
    PROVE  IInv'
  <1>1. pc = "lock" /\ UNCHANGED <<table, other>> /\ sel' = NoBus
    BY DEF FlockDone
  <1>2. PICK q \in flock_exclusive(dev, sel) :
          /\ dev' = q.dev
          /\ pc' = IF q.ok THEN "loop" ELSE "idle"
          /\ req' = [req EXCEPT !.end = IF q.ok THEN @ ELSE "err"]
    BY DEF FlockDone
  <1>3. Still /\ table \in Tables
    BY <1>1 DEF Still, IInv
  <1>4. /\ Work(dev, req) /\ Asked(dev, sel) /\ Dev(dev) /\ Typed(dev.dflt) /\ Free(dev)
        /\ Req(req) /\ Flushed(dev, req) /\ req \in Reqs /\ req.end = "none"
        /\ req.last = FALSE /\ req.want = sel /\ sel = dev.dflt
    BY <1>1 DEF IInv, Busy, Work, Req
  <1> DEFINE y == q.dev
  <1>5. /\ Dev(y) /\ y.dflt = dev.dflt /\ y.moved = dev.moved /\ q.ok \in BOOLEAN /\ (q.ok = FALSE => y = dev)
        /\ (q.ok = TRUE /\ dev.moved = FALSE => Owns(y, sel))
    <2>1. /\ Dev(y) /\ Kept(y, dev) /\ q.ok \in BOOLEAN /\ (q.ok = FALSE => y = dev)
          /\ (q.ok = TRUE /\ dev.moved = FALSE => Owns(y, sel))
      BY <1>3, <1>4, ExclusiveKeeps
    <2> QED
      BY <2>1 DEF Kept
  <1>6. dev' = y
    BY <1>2
  <1> HIDE DEF y
  <1>7. (table \in Tables)' /\ (other \subseteq Buses)'
    BY <1>3 DEF Still
  <1>8. CASE q.ok = FALSE
    <2>1. pc' = "idle" /\ req' = [req EXCEPT !.end = "err"]
      BY <1>2, <1>8
    <2>2. Req(req') /\ Flushed(dev', req') /\ req'.end = "err"
      BY <1>4, <1>5, <1>6, <1>8, <2>1, GivenUp
    <2>3. Dev(dev)' /\ Req(req)' /\ Flushed(dev, req)' /\ Free(dev)'
      BY <1>3, <1>4, <1>5, <1>6, <1>8, <2>2, Unmoved
    <2>4. AnswersComplete'
      BY <2>2 DEF AnswersComplete
    <2> QED
      BY <1>1, <1>7, <2>1, <2>3, <2>4 DEF IInv, Busy
  <1>9. CASE q.ok = TRUE
    <2>1. pc' = "loop" /\ req' = req
      <3>1. req' = [req EXCEPT !.end = req.end]
        BY <1>2, <1>9
      <3>2. [req EXCEPT !.end = req.end] = req
        BY <1>4 DEF Reqs
      <3> QED
        BY <1>2, <1>9, <3>1, <3>2
    <2>2. Work(y, req) /\ Owned(y, req)
      BY <1>4, <1>5, <1>9 DEF Work, Owned, Ready, Flushed
    <2>3. GoOn(y, req)
      BY <1>1, <1>6, <2>1 DEF GoOn
    <2> QED
      BY <1>3, <1>4, <2>2, <2>3, GoOnDone
  <1> QED
    BY <1>5, <1>8, <1>9

\* A signal ends the wait for a lock.
LEMMA InterruptedDone ==
    ASSUME IInv, Interrupted
    PROVE  IInv'
  <1> DEFINE d == IF bus_type(sel) = "i3c" THEN Unlocked(dev, "i3c") ELSE dev
  <1>1. pc \in {"lock", "relock"} /\ UNCHANGED <<table, other>>
    BY DEF Interrupted
  <1>2. IF pc = "relock" THEN SelectRefused(d, req)
        ELSE dev' = d /\ pc' = "idle" /\ req' = [req EXCEPT !.end = "err"] /\ sel' = NoBus
    BY DEF Interrupted
  <1>3. Still /\ table \in Tables
    BY <1>1 DEF Still, IInv
  <1>4. Work(dev, req) /\ Dev(dev) /\ Typed(dev.dflt) /\ Free(dev) /\ Req(req) /\ Flushed(dev, req)
    BY <1>1 DEF IInv, Busy, Work
  <1>5. Dev(d) /\ d.dflt = dev.dflt /\ d.moved = dev.moved /\ d.i2c = dev.i2c
    <2> DEFINE x == Unlocked(dev, "i3c")
    <2>1. Dev(x) /\ x.dflt = dev.dflt /\ x.moved = dev.moved /\ x.i2c = dev.i2c
      BY <1>4, UnlockedKeeps
    <2> HIDE DEF x
    <2>2. d = x \/ d = dev
      BY DEF x
    <2> HIDE DEF d
    <2> QED
      BY <1>4, <2>1, <2>2
  <1> HIDE DEF d
  <1>6. Free(d) /\ Work(d, req)
    BY <1>4, <1>5 DEF Free, Work, Flushed
  <1>7. CASE pc = "relock"
    BY <1>2, <1>3, <1>6, <1>7, RefusedDone
  <1>8. CASE pc = "lock"
    <2>1. dev' = d /\ pc' = "idle" /\ req' = [req EXCEPT !.end = "err"] /\ sel' = NoBus
      BY <1>2, <1>8
    <2>2. Req(req') /\ Flushed(dev', req') /\ req'.end = "err"
      BY <1>6, <2>1, GivenUp DEF Work
    <2>3. Dev(dev)' /\ Req(req)' /\ Flushed(dev, req)' /\ Free(dev)'
      BY <1>3, <1>5, <1>6, <2>1, <2>2, Unmoved
    <2>4. AnswersComplete'
      BY <2>2 DEF AnswersComplete
    <2>5. (table \in Tables)' /\ (other \subseteq Buses)'
      BY <1>3 DEF Still
    <2> QED
      BY <2>1, <2>3, <2>4, <2>5 DEF IInv, Busy
  <1> QED
    BY <1>1, <1>7, <1>8

\* Another program takes a lock nobody has, or drops its own.
LEMMA OtherDone ==
    ASSUME IInv, NEW b \in Buses, OtherLocks(b) \/ OtherUnlocks(b)
    PROVE  IInv'
  <1>1. UNCHANGED <<table, dev, pc, sel, req>>
    BY DEF OtherLocks, OtherUnlocks
  <1>2. other' \subseteq Buses /\ other' \cap dev.held = {}
    <2>1. other \subseteq Buses /\ other \cap dev.held = {}
      BY DEF IInv, Dev
    <2>2. CASE OtherLocks(b)
      BY <2>1, <2>2 DEF OtherLocks
    <2>3. CASE OtherUnlocks(b)
      BY <2>1, <2>3 DEF OtherUnlocks
    <2> QED
      BY <2>2, <2>3
  <1>3. \A x : bus_type(x)' = bus_type(x)
    BY <1>1 DEF bus_type
  <1>4. Together(dev, sel)' = Together(dev, sel)
    BY <1>1 DEF Together, bus_type
  <1>5. Dev(dev) => Dev(dev)'
    BY <1>1, <1>2 DEF Dev, bus_type
  <1>6. Flushed(dev, req)' = Flushed(dev, req) /\ Req(req)' = Req(req) /\ AnswersComplete' = AnswersComplete
    BY <1>1 DEF Flushed, Req, AnswersComplete
  <1>7. Typed(dev.dflt)' = Typed(dev.dflt) /\ Accounted(req)' = Accounted(req)
    BY <1>1 DEF Typed, bus_type, Accounted
  <1>8. Work(dev, req) => Work(dev, req)'
    BY <1>1, <1>5, <1>6, <1>7 DEF Work
  <1>9. Asked(dev, sel)' = Asked(dev, sel)
    BY <1>1 DEF Asked, Typed, bus_type
  <1>10. Owned(dev, req)' = Owned(dev, req)
    BY <1>1 DEF Owned, Ready, Owns, bus_type
  <1>11. Free(dev)' = Free(dev)
    BY <1>1 DEF Free, bus_type
  <1> QED
    BY <1>1, <1>2, <1>4, <1>5, <1>6, <1>8, <1>9, <1>10, <1>11 DEF IInv

\* Initially nothing is open.
LEMMA InitDone == Init => IInv
  <1> SUFFICES ASSUME Init
               PROVE  IInv
    OBVIOUS
  <1>1. PICK b \in Buses : dev = NoDev(b)
    BY DEF Init
  <1>2. table \in Tables /\ other \subseteq Buses /\ pc = "down" /\ sel = NoBus /\ req = NoReq
    BY DEF Init
  <1>3. Dev(dev) /\ Free(dev) /\ dev.moved = FALSE
    BY <1>1, NoDevKeeps DEF Free
  <1>4. Req(req) /\ Flushed(dev, req) /\ AnswersComplete
    BY <1>2, NoReqKeeps DEF AnswersComplete
  <1> QED
    BY <1>2, <1>3, <1>4 DEF IInv, Busy

\* Every step keeps the invariant.
LEMMA NextDone == IInv /\ [Next]_vars => IInv'
  <1> SUFFICES ASSUME IInv, [Next]_vars
               PROVE  IInv'
    OBVIOUS
  <1>1. CASE UNCHANGED vars
    <2>1. UNCHANGED <<table, dev, other, pc, sel, req>>
      BY <1>1 DEF vars
    <2>2. Still
      BY <2>1 DEF Still, IInv
    <2>3. AnswersComplete'
      BY <2>1 DEF IInv, AnswersComplete
    <2> QED
      BY <2>1, <2>2, <2>3, Unmoved DEF IInv
  <1>2. CASE Initialize
    BY <1>2, InitializeDone
  <1>3. CASE Deinitialize
    BY <1>3, DeinitializeDone
  <1>4. CASE process_message
    BY <1>4, ProcessDone
  <1>5. CASE FlockDone
    BY <1>5, FlockDoneDone
  <1>6. CASE Interrupted
    BY <1>6, InterruptedDone
  <1>7. CASE Command
    <2>1. CASE SelectCutShort
      BY <2>1, CutShortDone
    <2>2. ASSUME NEW last \in Lasts, NEW read \in BOOLEAN, NEW len \in Lens, NEW stop \in BOOLEAN,
                 Transfer(read, len, stop, last)
          PROVE  IInv'
      BY <2>2, TransferDone
    <2>3. ASSUME NEW last \in Lasts, SetSclk(last) \/ BadCommand(last)
          PROVE  IInv'
      BY <2>3, SclkDone
    <2>4. ASSUME NEW last \in Lasts, SelectDefault(last)
          PROVE  IInv'
      BY <2>4, SelectDefaultDone
    <2>5. ASSUME NEW last \in Lasts, NEW b \in Buses, SelectOther(b, last)
          PROVE  IInv'
      BY <2>5, SelectOtherDone
    <2> QED
      BY <1>7, <2>1, <2>2, <2>3, <2>4, <2>5 DEF Command
  <1>8. CASE RelockDone
    BY <1>8, RelockDoneDone
  <1>9. CASE \E b \in Buses : OtherLocks(b) \/ OtherUnlocks(b)
    BY <1>9, OtherDone
  <1> QED
    BY <1>1, <1>2, <1>3, <1>4, <1>5, <1>6, <1>7, <1>8, <1>9 DEF Next

-----------------------------------------------------------------------------
(* Theorems. *)

\* The invariant holds, whatever the table.
THEOREM Invariance == Spec => []IInv
  <1>1. Init => IInv
    BY InitDone
  <1>2. IInv /\ [Next]_vars => IInv'
    BY NextDone
  <1> QED
    BY <1>1, <1>2, PTL DEF Spec

\* TypeOK for any buses and lengths: the response never outgrows its buffer
\* (build_responses), and a lock is held through an open descriptor of the
\* bus it is for, whatever closes, opens and selects came before.
THEOREM TypeCorrect == Spec => []TypeOK
  <1>1. IInv => TypeOK
    <2> SUFFICES ASSUME IInv
                 PROVE  TypeOK
      OBVIOUS
    <2>1. /\ table \in Tables /\ other \subseteq Buses /\ Dev(dev) /\ Req(req)
          /\ pc \in {"down", "idle", "lock", "loop", "relock"} /\ sel \in Buses \cup {NoBus}
      BY DEF IInv, Busy
    <2>2. dev \in [conf : Buses, dflt : Buses, held : SUBSET Buses, token : BOOLEAN, moved : BOOLEAN,
                   i2c : Handle, i3c : Handle]
      BY <2>1 DEF Dev, Devs
    <2>3. dev \in Devs /\ other \cap dev.held = {}
      BY <2>1 DEF Dev
    <2>4. ASSUME NEW h \in {"i2c", "i3c"}, dev[h].locked
          PROVE  dev[h].open /\ dev[h].bus \in dev.held
      <3>1. CASE h = "i2c"
        BY <2>1, <2>3, <2>4, <3>1, DevFields DEF Dev
      <3>2. CASE h = "i3c"
        BY <2>1, <2>3, <2>4, <3>2, DevFields DEF Dev
      <3> QED
        BY <3>1, <3>2
    <2>5. req.cnt \in 0..MaxDataSize /\ req.cmds \in 0..MaxCmds
      BY <2>1 DEF Req, Reqs
    <2>6. other \subseteq Buses \ dev.held
      BY <2>1, <2>3
    <2> QED
      BY <2>1, <2>2, <2>4, <2>5, <2>6 DEF TypeOK
  <1> QED
    BY <1>1, Invariance, PTL

\* AnswersComplete for any buses, tables and lengths: a message processed to
\* its end without a refused select is answered transfer by transfer, over as
\* many responses as it takes (process_i2c_messages, build_responses).
THEOREM AnswersAreComplete == Spec => []AnswersComplete
  <1>1. IInv => AnswersComplete
    BY DEF IInv
  <1> QED
    BY <1>1, Invariance, PTL

\* HoldsNothingOutside for any table, of both kinds too: outside the loop over
\* the commands no lock of an I2C bus is held, on every way out of
\* process_message, do_bus_select_command and dev_flock, as long as the default
\* bus is not an I3C bus.
THEOREM LocksAreDropped == Spec => []HoldsNothingOutside
  <1>1. IInv => HoldsNothingOutside
    <2> SUFFICES ASSUME IInv, pc # "loop", bus_type(dev.dflt) # "i3c", NEW b \in dev.held
                 PROVE  table[b] = "i3c"
      BY DEF HoldsNothingOutside
    <2>1. table \in Tables /\ Dev(dev) /\ dev.i2c.locked = FALSE
      BY DEF IInv, Free
    <2>2. b \in Buses
      BY <2>1, DevFields DEF Dev
    <2>3. bus_type(b) = table[b]
      BY <2>1, <2>2, Types
    <2>4. b = dev.i3c.bus /\ dev.i3c.locked = TRUE
      BY <2>1 DEF Dev
    <2> QED
      BY <2>1, <2>3, <2>4 DEF Dev
  <1> QED
    BY <1>1, Invariance, PTL

\* TransfersLocked for any table: what is queued goes to the bus that was
\* selected last, under its lock, if no select of the message failed and none
\* went back to the default bus (do_bus_select_command, do_read_write), until
\* the client selects another bus from or to I3C.
THEOREM TransfersAreLocked == Spec => []TransfersLocked
  <1>1. IInv => TransfersLocked
    <2> SUFFICES ASSUME IInv, req.flush.on # NoBus, ~req.refused, ~req.back, ~dev.moved
                 PROVE  req.flush.held /\ req.flush.on = req.flush.want
      BY DEF TransfersLocked
    <2>1. Req(req) /\ Flushed(dev, req) /\ dev \in Devs
      BY DEF IInv, Dev
    <2>2. req.refused = FALSE /\ req.back = FALSE /\ dev.moved = FALSE
      BY <2>1, DevFields DEF Req, Reqs
    <2> QED
      BY <2>1, <2>2 DEF Flushed
  <1> QED
    BY <1>1, Invariance, PTL
=============================================================================

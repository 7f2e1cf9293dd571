------------------------------ MODULE AuthPam ------------------------------
(***************************************************************************)
(* The PAM handshake of the daemon (server/auth_pam.c) and its lockout: a  *)
(* ring of the last MaxAttempts invalid attempts decides when attempts are *)
(* too frequent, and t_lockout refuses everybody for a while.              *)
(*                                                                         *)
(* Passwords are abstracted to what PAM would say of them.  The session    *)
(* table is reduced to whether a session is authenticated (busy).  The     *)
(* variables recent and guesses are history: they count, per second of the *)
(* last Period, the invalid attempts tracked and the wrong passwords that  *)
(* were really compared since the last success, and influence nothing.     *)
(***************************************************************************)
EXTENDS Integers, FiniteSets, Functions

CONSTANTS
    MaxAttempts,  \* INVALID_AUTH_MAX_ATTEMPTS
    Period,       \* INVALID_AUTH_PERIOD_NSECS
    Lockout,      \* INVALID_AUTH_LOCKOUT_NSECS
    MaxTime,      \* bound: the clock stops here
    MaxPerTick    \* bound: invalid attempts counted within one second

ASSUME AuthPamAssumption ==
    /\ MaxAttempts \in Nat \ {0}
    /\ Period \in Nat \ {0}
    /\ Lockout \in Nat \ {0}
    /\ MaxTime \in Nat /\ MaxTime > Period
    /\ MaxPerTick \in Nat \ {0}

\* Both are 60 seconds in auth_pam.h: when a lockout ends, the attempts that
\* led to it are out of the period.
ASSUME LockoutAssumption == Lockout >= Period

VARIABLES
    now,          \* time(0), which starts later than Period
    ats_attempts, \* the ring of auth_track_attempt; 0 is "none"
    t_lockout,    \* attempts before this moment are refused
    busy,         \* the session table holds an authenticated session
    reply,        \* result_code last sent, by whichever handshake
    recent,       \* history: tracked invalid attempts, by second
    guesses       \* history: wrong passwords compared, by second

vars == <<now, ats_attempts, t_lockout, busy, reply, recent, guesses>>

Start == Period + 1
Times == Start..MaxTime
Ring == 0..(MaxAttempts - 1)

\* What recv() and PAM make of a client's request.
Request == {"closed", "pending", "badversion", "wrong", "right", "syserr"}

Replies == {"NONE", "SUCCESS", "SYSERR", "BUSY", "FAILURE"}

Init ==
    /\ now = Start
    /\ ats_attempts = [i \in Ring |-> 0]
    /\ t_lockout = 0
    /\ busy = FALSE
    /\ reply = "NONE"
    /\ recent = [t \in Times |-> 0]
    /\ guesses = [t \in Times |-> 0]

-----------------------------------------------------------------------------
\* Mutation: the attempt replaces the newest entry instead of the oldest.
Newest(ring) ==
    CHOOSE i \in Ring : \A j \in Ring : ring[j] <= ring[i]

\* n_oldest_index: the first of the entries that are smallest.
Oldest(ring) ==
    CHOOSE i \in Ring :
        \A j \in Ring : ring[i] <= ring[j] /\ (j < i => ring[i] < ring[j])

\* n_invalid_in_period, this attempt included.
InvalidInPeriod(ring, t) ==
    1 + Cardinality({i \in Ring : ring[i] > t - Period})

\* Mutation: the attempt that reaches the maximum already locks out.
TooOftenEarly(ring, t) == InvalidInPeriod(ring, t) >= MaxAttempts

\* Mutation: one attempt more is let through.
TooOftenLate(ring, t) == InvalidInPeriod(ring, t) > MaxAttempts + 1

TooOften(ring, t) == InvalidInPeriod(ring, t) > MaxAttempts

\* auth_track_attempt: the ring it leaves ...
Tracked(ring, t, ret) ==
    CASE ret = "OK" -> [i \in Ring |-> 0]
      [] ret \in {"UNAUTHORIZED", "INVALIDDATA"} ->
           [ring EXCEPT ![Oldest(ring)] = t]
      [] OTHER -> ring

\* ... and the code it returns.
auth_track_attempt(ring, t, ret) ==
    IF ret \in {"UNAUTHORIZED", "INVALIDDATA"} /\ TooOften(ring, t)
    THEN "LOCKOUT" ELSE ret

\* authenticate_client before the attempt is tracked.
Verdict(request) ==
    CASE request = "badversion" -> "INVALIDDATA"
      [] request = "wrong" -> "UNAUTHORIZED"
      [] request = "syserr" -> "SYSERR"
      [] request = "right" -> "OK"

\* session_get_authenticated_conn: a NULL connection is never answered ST_OK,
\* whoever is authenticated.
session_get_authenticated_conn(conn) ==
    IF busy /\ conn # "NULL" THEN "ST_OK" ELSE "ST_ERR"

-----------------------------------------------------------------------------
Counted(tally) ==
    [tally EXCEPT ![now] = @ + 1]

\* Mutation: a lockout is prolonged from its end, not from now.
RespondCumulative(ret) ==
    /\ reply' = IF ret = "OK" THEN "SUCCESS" ELSE "FAILURE"
    /\ t_lockout' = IF ret = "LOCKOUT" THEN t_lockout + now + Lockout
                    ELSE t_lockout
    /\ UNCHANGED busy

\* The switch at the end of authpam_client_handshake.  The response to a valid
\* password may fail to be sent, which makes it a system error; after a
\* success the caller tries to authenticate the session.
Respond(ret) ==
    \/ /\ ret = "OK"
       /\ reply' = IF session_get_authenticated_conn("NULL") # "ST_OK"
                   THEN "SUCCESS" ELSE "BUSY"
       /\ busy' \in {busy, TRUE}
       /\ UNCHANGED t_lockout
    \/ /\ ret = "OK"
       /\ UNCHANGED <<reply, busy, t_lockout>>
    \/ /\ ret = "SYSERR"
       /\ reply' = "SYSERR"
       /\ UNCHANGED <<busy, t_lockout>>
    \/ /\ ret = "LOCKOUT"
       /\ reply' = "FAILURE"
       /\ t_lockout' = now + Lockout
       /\ UNCHANGED busy
    \/ /\ ret \in {"UNAUTHORIZED", "INVALIDDATA"}
       /\ reply' = "FAILURE"
       /\ UNCHANGED <<busy, t_lockout>>

\* recv() failed, or more data is pending than a request may have: refused
\* without being tracked.
Malformed(request) ==
    /\ \/ request = "closed"
       \/ request = "pending" /\ now >= t_lockout
    /\ Respond("INVALIDDATA")
    /\ UNCHANGED <<now, ats_attempts, recent, guesses>>

\* Mutation: a request that comes during the lockout is compared all the same.
LockedOutCompares(request) ==
    /\ request # "closed"
    /\ now < t_lockout
    /\ recent[now] < MaxPerTick
    /\ ats_attempts' = Tracked(ats_attempts, now, "UNAUTHORIZED")
    /\ recent' = Counted(recent)
    /\ guesses' = IF request = "wrong" THEN Counted(guesses) ELSE guesses
    /\ Respond("LOCKOUT")
    /\ UNCHANGED now

\* During the lockout a random password is validated instead; PAM refuses it
\* or fails.  Every such attempt starts the lockout afresh.
LockedOut(request) ==
    /\ request # "closed"
    /\ now < t_lockout
    /\ \E ret \in {"UNAUTHORIZED", "SYSERR"} :
         /\ recent[now] < MaxPerTick
         /\ ats_attempts' = Tracked(ats_attempts, now, ret)
         /\ recent' = IF ret = "UNAUTHORIZED" THEN Counted(recent) ELSE recent
    /\ Respond("LOCKOUT")
    /\ UNCHANGED <<now, guesses>>

\* Outside the lockout the request itself is validated.
Authenticate(request) ==
    LET ret == Verdict(request)
    IN  /\ request \notin {"closed", "pending"}
        /\ now >= t_lockout
        /\ recent[now] < MaxPerTick
        /\ ats_attempts' = Tracked(ats_attempts, now, ret)
        /\ recent' = CASE ret = "OK" -> [t \in Times |-> 0]
                       [] ret = "SYSERR" -> recent
                       [] OTHER -> Counted(recent)
        /\ guesses' = CASE ret = "OK" -> [t \in Times |-> 0]
                        [] ret = "UNAUTHORIZED" -> Counted(guesses)
                        [] OTHER -> guesses
        /\ Respond(auth_track_attempt(ats_attempts, now, ret))
        /\ UNCHANGED now

authpam_client_handshake(request) ==
    Malformed(request) \/ LockedOut(request) \/ Authenticate(request)

\* The authenticated session is closed.
SessionEnds ==
    /\ busy
    /\ busy' = FALSE
    /\ UNCHANGED <<now, ats_attempts, t_lockout, reply, recent, guesses>>

\* A second passes; what is older than Period is dropped from the history.
Tick ==
    /\ now < MaxTime
    /\ now' = now + 1
    /\ recent' = [t \in Times |-> IF t > now' - Period THEN recent[t] ELSE 0]
    /\ guesses' = [t \in Times |-> IF t > now' - Period THEN guesses[t] ELSE 0]
    /\ UNCHANGED <<ats_attempts, t_lockout, busy, reply>>

Next ==
    \/ \E request \in Request : authpam_client_handshake(request)
    \/ SessionEnds
    \/ Tick

Spec == Init /\ [][Next]_vars

-----------------------------------------------------------------------------
(* Properties. *)

Total(tally) == SumFunctionOnSet(tally, Times)

\* Every variable keeps to its range.
TypeOK ==
    /\ now \in Times
    /\ ats_attempts \in [Ring -> 0..MaxTime]
    /\ t_lockout \in 0..(MaxTime + Lockout)
    /\ busy \in BOOLEAN
    /\ reply \in Replies

\* A ring of MaxAttempts time stamps is enough to measure the window: however
\* the attempts fall, it holds as many stamps of the last Period seconds as
\* there were invalid attempts in them, up to its size.
RingIsWindow ==
    LET inRing == Cardinality({i \in Ring : ats_attempts[i] > now - Period})
        inPeriod == Total(recent)
    IN  inRing = IF inPeriod < MaxAttempts THEN inPeriod ELSE MaxAttempts

\* No more than MaxAttempts + 1 wrong passwords are compared in any Period
\* without a valid one in between, lockouts and their expiry included.
GuessBound == Total(guesses) <= MaxAttempts + 1

\* A lockout that is not the prolongation of another starts only when more
\* than MaxAttempts invalid attempts were made within Period.
FreshLockoutJustified ==
    [][now >= t_lockout /\ t_lockout' # t_lockout
         => Total(recent') > MaxAttempts]_vars

-----------------------------------------------------------------------------
(* What the repository says of the handshake, where the code does otherwise.*)

\* auth_pam.h: AUTH_HANDSHAKE_BUSY means "session already in progress".  A
\* client is not told SUCCESS while a session is in progress.
BusyReported ==
    [][busy /\ Authenticate("right") => reply' # "SUCCESS"]_vars
=============================================================================

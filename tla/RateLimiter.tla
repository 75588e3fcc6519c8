------------------------------ MODULE RateLimiter ------------------------------
(***************************************************************************)
(* SlidingWindowLimiter of the gateway's api/security.py, which throttles  *)
(* sign-ins by address, and its like in claim-ingest-worker.  A thread     *)
(* reads the clock before it takes the lock, so hits may enter the deque   *)
(* out of order and a little late.                                         *)
(***************************************************************************)
EXTENDS Integers, Sequences, FiniteSets, SequencesExt

CONSTANTS
  Keys,         \* the keys: client addresses
  HitThreads,   \* the threads that call allow
  limit,
  window_s,
  MaxHitKeys,   \* 10_000: from there on idle keys are looked for
  HitDelay,     \* how long a thread may be held up between the clock and the lock
  MaxHitTime    \* bound of the model: the clock

ASSUME LimiterAssumption ==
  limit \in Nat /\ window_s \in Nat /\ HitDelay \in 0..window_s

VARIABLES
  monotonic, \* time.monotonic()
  hits,      \* _hits: the deque of each key it holds
  calls,     \* what each thread is about to do
  allowed    \* history: when the hits of each key since its last reset were let through

lvars == <<monotonic, hits, calls, allowed>>

NoCall == [key |-> "none"]

LInit ==
  /\ monotonic = 0
  /\ hits = <<>>
  /\ calls = [c \in HitThreads |-> NoCall]
  /\ allowed = [k \in Keys |-> <<>>]

Reads(c, k) ==
  /\ calls[c] = NoCall
  /\ calls' = [calls EXCEPT ![c] = [key |-> k, now |-> monotonic]]
  /\ UNCHANGED <<monotonic, hits, allowed>>

\* Mutant: a hit as old as the window is forgotten.
Expired_early(t, time) == time - t >= window_s
Expired(t, time) == time - t > window_s

\* The hits from the first one that has not expired.
Recent(k, time) ==
  LET deque == IF k \in DOMAIN hits THEN hits[k] ELSE <<>>
      kept  == {i \in DOMAIN deque : ~Expired(deque[i], time)}
  IN  IF kept = {} THEN <<>>
      ELSE SubSeq(deque, CHOOSE i \in kept : \A j \in kept : i <= j, Len(deque))

With(table, k, deque) == [j \in DOMAIN table \cup {k} |-> IF j = k THEN deque ELSE table[j]]
Without(table, dropped) == [j \in DOMAIN table \ dropped |-> table[j]]

\* Keys without a hit, once there are too many keys.
Silent(table) ==
  IF Cardinality(DOMAIN table) > MaxHitKeys THEN {k \in DOMAIN table : table[k] = <<>>} ELSE {}

Allow(c) ==
  /\ calls[c] # NoCall
  /\ LET k      == calls[c].key
         recent == Recent(k, calls[c].now)
         table  == With(hits, k, Append(recent, calls[c].now))
     IN  IF Len(recent) >= limit
           THEN hits' = With(hits, k, recent) /\ UNCHANGED allowed
           ELSE /\ hits' = Without(table, Silent(table))
                /\ allowed' = [allowed EXCEPT ![k] = Append(@, monotonic)]
  /\ calls' = [calls EXCEPT ![c] = NoCall]
  /\ UNCHANGED monotonic

\* After a sign-in that succeeds.
Reset(k) ==
  /\ hits' = Without(hits, {k})
  /\ allowed' = [allowed EXCEPT ![k] = <<>>]
  /\ UNCHANGED <<monotonic, calls>>

\* The clock, while no thread has been held up for longer than HitDelay.
Elapses ==
  /\ monotonic < MaxHitTime
  /\ \A c \in HitThreads : calls[c] # NoCall => monotonic - calls[c].now < HitDelay
  /\ monotonic' = monotonic + 1
  /\ UNCHANGED <<hits, calls, allowed>>

LNext ==
  \/ \E c \in HitThreads, k \in Keys : Reads(c, k)
  \/ \E c \in HitThreads : Allow(c)
  \/ \E k \in Keys : Reset(k)
  \/ Elapses

LSpec == LInit /\ [][LNext]_lvars

-----------------------------------------------------------------------------
\* At most `limit` hits of a key pass in any window, less the time a thread was
\* held up, whatever order the threads get the lock in: a hit that enters the
\* deque behind a later one is not forgotten early.
AtMostLimitPerWindow ==
  \A k \in Keys : \A i \in DOMAIN allowed[k] :
    Cardinality({j \in i .. Len(allowed[k]) : allowed[k][j] - allowed[k][i] <= window_s - HitDelay})
      <= limit
=============================================================================

------------------------------ MODULE Ratelimit ------------------------------
(***************************************************************************)
(* ___ratelimit() of shims/lib/ratelimit.c: callers on several CPUs share  *)
(* one ratelimit_state. Whoever gets the trylock opens windows and reports *)
(* misses; the others take what is left of the burst without the lock. A   *)
(* step ends at each access that another CPU can see.                      *)
(*                                                                         *)
(* The primitives are the kernel's, by their contract: the target replaces *)
(* the atomics by plain accesses, the trylock by one that always succeeds  *)
(* and jiffies by a constant, which for its single caller is the same. The *)
(* case of one CPU is the target as built; with more of them the module is *)
(* about the logic of ratelimit.c on the kernel's primitives.              *)
(***************************************************************************)
EXTENDS Integers, FiniteSets

CONSTANTS
  CPU,
  Intervals, Bursts,   \* values the owner stores in the state
  Wrap,                \* jiffies counts modulo Wrap
  MaxCalls, MaxSets    \* bounds: calls started, changes by the owner

RatelimitAssumption ==
  /\ Wrap \in Nat \ {0} /\ Wrap = 2 * (Wrap \div 2) /\ MaxCalls \in Nat /\ MaxSets \in Nat
  /\ IsFiniteSet(CPU) /\ CPU # {} /\ "free" \notin CPU
  /\ \A i \in Intervals : i \in Int /\ 2 * i < Wrap
  /\ \A b \in Bursts : b \in Nat

VARIABLES
  interval, burst, inited, begin, rs_n_left, missed,   \* struct ratelimit_state
  onRelease,           \* RATELIMIT_MSG_ON_RELEASE
  lock,                \* the CPU that holds rs->lock; "free"
  jiffies,
  pc, int, brst, ret,  \* per call: position, the values read, the result
  calls, sets,         \* calls started, changes made
  age, quota, granted, \* ghosts: time since begin, last fill, grants since then
  refused, reported    \* ghosts: calls that returned 0, misses reported

shared == <<interval, burst, inited, begin, rs_n_left, missed, onRelease>>
local == <<pc, int, brst, ret>>
ghosts == <<age, quota, granted, refused, reported>>
vars == <<shared, lock, jiffies, local, calls, sets, ghosts>>

\* ratelimit_state_init()
Init ==
  /\ interval \in Intervals /\ burst \in Bursts /\ onRelease \in BOOLEAN
  /\ inited = FALSE /\ begin = 0 /\ rs_n_left = 0 /\ missed = 0 /\ lock = "free"
  /\ jiffies \in {0, Wrap - 1}
  /\ pc = [c \in CPU |-> "idle"] /\ int = [c \in CPU |-> 0] /\ brst = [c \in CPU |-> 0]
  /\ ret = [c \in CPU |-> FALSE]
  /\ calls = 0 /\ sets = 0 /\ age = 0 /\ quota = 0 /\ granted = 0 /\ refused = 0 /\ reported = 0

-----------------------------------------------------------------------------
(* The kernel's primitives *)

\* The timer interrupt; the ghost age stops where it no longer matters.
Tick ==
  /\ jiffies' = (jiffies + 1) % Wrap
  /\ age' = IF age < Wrap THEN age + 1 ELSE age
  /\ UNCHANGED <<shared, lock, local, calls, sets, quota, granted, refused, reported>>

raw_spin_trylock_irqsave(c) == lock = "free" /\ lock' = c
TrylockFails == lock # "free" /\ UNCHANGED lock
raw_spin_unlock_irqrestore == lock' = "free"

\* atomic_dec_return(): the decrement and the value it returns are one step.
atomic_dec_return == rs_n_left' = rs_n_left - 1

\* atomic_xchg_relaxed(missed, 0): the value that is reported is the value that is cleared.
atomic_xchg_relaxed == missed' = 0 /\ reported' = reported + missed
-----------------------------------------------------------------------------
\* The owner of the state changes its limits, one field at a time.
SetLimits ==
  /\ sets < MaxSets /\ sets' = sets + 1
  /\ \/ interval' \in Intervals /\ UNCHANGED burst
     \/ burst' \in Bursts /\ UNCHANGED interval
  /\ UNCHANGED <<inited, begin, rs_n_left, missed, onRelease, lock, jiffies, local, calls, ghosts>>

GoTo(c, p) == pc' = [pc EXCEPT ![c] = p]

Enter(c) ==
  /\ pc[c] = "idle" /\ calls < MaxCalls
  /\ calls' = calls + 1 /\ GoTo(c, "burst")
  /\ int' = [int EXCEPT ![c] = interval] /\ ret' = [ret EXCEPT ![c] = FALSE]
  /\ UNCHANGED <<shared, lock, jiffies, brst, sets, ghosts>>

ReadBurst(c) ==
  /\ pc[c] = "burst"
  /\ brst' = [brst EXCEPT ![c] = burst]
  /\ GoTo(c, IF int[c] <= 0 \/ burst <= 0 THEN "off" ELSE "trylock")
  /\ UNCHANGED <<shared, lock, jiffies, int, ret, calls, sets, ghosts>>

\* No limit, or no burst: the state must be set up again before it is used.
Off(c) ==
  /\ pc[c] = "off"
  /\ ret' = [ret EXCEPT ![c] = int[c] = 0 \/ brst[c] > 0]
  /\ IF inited /\ ~(int[c] = 0 /\ brst[c] = 0)
     THEN \/ raw_spin_trylock_irqsave(c) /\ GoTo(c, "clear")
          \/ TrylockFails /\ GoTo(c, "return")
     ELSE GoTo(c, "return") /\ UNCHANGED lock
  /\ UNCHANGED <<shared, jiffies, int, brst, calls, sets, ghosts>>

Clear(c) ==
  /\ pc[c] = "clear" /\ GoTo(c, "return")
  /\ inited' = FALSE /\ raw_spin_unlock_irqrestore
  /\ UNCHANGED <<interval, burst, begin, rs_n_left, missed, onRelease, jiffies, int, brst, ret,
                 calls, sets, ghosts>>

TryLock(c) ==
  /\ pc[c] = "trylock"
  /\ \/ raw_spin_trylock_irqsave(c) /\ GoTo(c, IF inited THEN "expired" ELSE "first")
     \/ TrylockFails /\ GoTo(c, IF inited THEN "left" ELSE "return")
  /\ UNCHANGED <<shared, jiffies, int, brst, ret, calls, sets, ghosts>>

\* Under the lock: begin and the flag first, the burst after them.
First(c) ==
  /\ pc[c] = "first" /\ GoTo(c, "fill")
  /\ begin' = jiffies /\ inited' = TRUE /\ age' = 0
  /\ UNCHANGED <<interval, burst, rs_n_left, missed, onRelease, lock, jiffies, int, brst, ret,
                 calls, sets, quota, granted, refused, reported>>

Refill == rs_n_left' = burst /\ quota' = burst /\ granted' = 0

Fill(c) ==
  /\ pc[c] = "fill" /\ GoTo(c, "expired")
  /\ Refill
  /\ UNCHANGED <<interval, burst, inited, begin, missed, onRelease, lock, jiffies, int, brst, ret,
                 calls, sets, age, refused, reported>>

\* (long)(t - jiffies) < 0
time_is_before_jiffies(t) == (t - jiffies) % Wrap >= Wrap \div 2

Expired(c) ==
  /\ pc[c] = "expired"
  /\ IF time_is_before_jiffies(begin + int[c])
     THEN /\ Refill /\ begin' = jiffies /\ age' = 0
          /\ GoTo(c, IF onRelease THEN "left" ELSE "report")
     ELSE GoTo(c, "left") /\ UNCHANGED <<rs_n_left, quota, granted, begin, age>>
  /\ UNCHANGED <<interval, burst, inited, missed, onRelease, lock, jiffies, int, brst, ret,
                 calls, sets, refused, reported>>

Report(c) ==
  /\ pc[c] = "report" /\ GoTo(c, "left")
  /\ atomic_xchg_relaxed
  /\ UNCHANGED <<interval, burst, inited, begin, rs_n_left, onRelease, lock, jiffies, int, brst, ret,
                 calls, sets, age, quota, granted, refused>>

\* unlock_ret and nolock_ret: only the caller that got the lock lets it go.
Unlock(c) == IF lock = c THEN raw_spin_unlock_irqrestore ELSE UNCHANGED lock

\* atomic_read() > 0
Left(c) ==
  /\ pc[c] = "left"
  /\ IF rs_n_left > 0 THEN GoTo(c, "dec") /\ UNCHANGED lock
                      ELSE GoTo(c, "return") /\ Unlock(c)
  /\ UNCHANGED <<shared, jiffies, int, brst, ret, calls, sets, ghosts>>

\* Having seen the counter positive is enough.
GrantSeen(left) == TRUE

\* atomic_dec_return() >= 0
Grant(left) == left >= 0

Dec(c) ==
  /\ pc[c] = "dec" /\ GoTo(c, "return") /\ Unlock(c)
  /\ atomic_dec_return
  /\ ret' = [ret EXCEPT ![c] = Grant(rs_n_left')]
  /\ granted' = IF ret'[c] THEN granted + 1 ELSE granted
  /\ UNCHANGED <<interval, burst, inited, begin, missed, onRelease, jiffies, int, brst, calls, sets,
                 age, quota, refused, reported>>

Return(c) ==
  /\ pc[c] = "return" /\ GoTo(c, "idle")
  /\ missed' = IF ret[c] THEN missed ELSE missed + 1
  /\ refused' = IF ret[c] THEN refused ELSE refused + 1
  /\ UNCHANGED <<interval, burst, inited, begin, rs_n_left, onRelease, lock, jiffies, int, brst, ret,
                 calls, sets, age, quota, granted, reported>>

Next ==
  \/ Tick \/ SetLimits
  \/ \E c \in CPU : \/ Enter(c) \/ ReadBurst(c) \/ Off(c) \/ Clear(c) \/ TryLock(c) \/ First(c) \/ Fill(c)
                    \/ Expired(c) \/ Report(c) \/ Left(c) \/ Dec(c) \/ Return(c)

Spec == Init /\ [][Next]_vars
-----------------------------------------------------------------------------
(* However the callers interleave, the calls granted between two fills of the    *)
(* counter are at most the burst it was filled with.                             *)
BurstBound == granted <= quota

(* The counter falls below zero by at most one for each caller that saw it       *)
(* positive too late, so it cannot run down to where it wraps.                   *)
LeftBounded == rs_n_left >= 1 - Cardinality(CPU)

(* No refused call is lost or counted twice: it is in the counter, or has been   *)
(* reported.                                                                     *)
MissesExact == missed + reported = refused

(* After the state is set up, the burst is renewed only once a caller's interval *)
(* has passed since the window began, also across a wrap of jiffies.             *)
WindowsApart ==
  [][\A c \in CPU : pc[c] = "expired" /\ begin' # begin => age > int[c]]_vars
=============================================================================

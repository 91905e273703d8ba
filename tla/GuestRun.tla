------------------------------- MODULE GuestRun -------------------------------
(***************************************************************************)
(* tools/uml-run.sh boots the guest, whose init runs tools/bpf_runner on   *)
(* every object in one process. What comes back is the file of printed     *)
(* lines and the status the init script wrote, if the guest lived to write *)
(* it: the process can be killed for memory and the guest can die.         *)
(***************************************************************************)
EXTENDS Integers, Sequences, FiniteSets

CONSTANTS
  NObjects, iters, MaxReport,   \* the command line
  NCorners,                     \* N_CORNERS
  Entries,                      \* INPUT_MAP_ENTRIES
  MayDie, MayFail               \* bounds: iterations in which test_run fails, the program does

GuestAssumption ==
  /\ {NObjects, iters, MaxReport} \subseteq Nat
  /\ {NCorners, Entries} \subseteq Nat \ {0}
  /\ MayDie \cup MayFail \subseteq 0..iters - 1

Object == 1..NObjects
Case == 0..iters - 1

\* What an object does: it loads or not, test_run fails in the iteration dies (none if
\* it is iters), and the program returns non-zero in those of bad.
Behaviour == [loads : BOOLEAN, dies : MayDie \cup {iters}, bad : SUBSET MayFail]

VARIABLES
  does,       \* the objects
  phase,      \* start, run, dead, done
  i, iter,    \* main()'s object and run_object()'s iteration; iter = -1 before it loads
  rng_state,  \* numbers drawn since the seed was set
  cases, failures,
  swept,      \* ghost: corner pairs the object was run with
  any_fail, any_infra,
  out,        \* the lines that were flushed
  rc,         \* the status file; -1 if there is none, -2 if it is empty
  exit        \* of uml-run.sh; -1 while it runs

vars == <<does, phase, i, iter, rng_state, cases, failures, swept, any_fail, any_infra, out, rc, exit>>
object == <<iter, rng_state, cases, failures, swept>>
worst == <<any_fail, any_infra>>

Init ==
  /\ does \in [Object -> Behaviour] /\ phase = "start" /\ i = 1
  /\ iter = -1 /\ rng_state = 0 /\ cases = <<>> /\ failures = 0 /\ swept = {}
  /\ any_fail = FALSE /\ any_infra = FALSE /\ out = <<>> /\ rc = -1 /\ exit = -1

\* [ -x ${UML_BIN} ], and the guest boots.
Launch(kernel) ==
  /\ phase = "start"
  /\ IF kernel THEN phase' = "run" /\ UNCHANGED exit ELSE phase' = "done" /\ exit' = 3
  /\ UNCHANGED <<does, i, object, worst, out, rc>>

\* rng_state = seed
Seed == 0

\* run_object() returns: its line is flushed, main() notes the result.
FinishWith(line, result) ==
  /\ out' = Append(out, line)
  /\ any_fail' = (any_fail \/ result = 1) /\ any_infra' = (any_infra \/ result = 2)
  /\ i' = i + 1 /\ iter' = -1
  /\ UNCHANGED <<does, phase, rng_state, cases, failures, swept, rc, exit>>

Load ==
  /\ phase = "run" /\ i <= NObjects /\ iter = -1
  /\ IF does[i].loads
     THEN /\ iter' = 0 /\ rng_state' = Seed /\ cases' = <<>> /\ failures' = 0 /\ swept' = {}
          /\ UNCHANGED <<does, phase, i, worst, out, rc, exit>>
     ELSE FinishWith([file |-> i, loaded |-> FALSE, error |-> TRUE, failures |-> 0, cases |-> <<>>], 2)

\* Keys 0 and 3 get the first corner, 1 and 2 the second.
CornerPair(n) == <<n % NCorners, (n \div NCorners) % NCorners>>

\* seed_case(): corners first, then Entries draws for each case.
IsCorner(n) == n < NCorners * NCorners
seed_case(n, state) ==
  IF IsCorner(n) THEN [corner |-> CornerPair(n), draw |-> 0]
                 ELSE [corner |-> <<>>, draw |-> state]

RunCase ==
  /\ phase = "run" /\ iter \in Case /\ iter # does[i].dies
  /\ rng_state' = IF IsCorner(iter) THEN rng_state ELSE rng_state + Entries
  /\ swept' = IF IsCorner(iter) THEN swept \cup {CornerPair(iter)} ELSE swept
  /\ IF iter \in does[i].bad
     THEN /\ failures' = failures + 1
          /\ cases' = IF Len(cases) < MaxReport
                      THEN Append(cases, [iter |-> iter, seeds |-> seed_case(iter, rng_state)])
                      ELSE cases
     ELSE UNCHANGED <<failures, cases>>
  /\ iter' = iter + 1
  /\ UNCHANGED <<does, phase, i, worst, out, rc, exit>>

\* The line already says loaded and holds the cases found so far.
CaseFails ==
  /\ phase = "run" /\ iter \in Case /\ iter = does[i].dies
  /\ FinishWith([file |-> i, loaded |-> TRUE, error |-> TRUE, failures |-> 0, cases |-> cases], 2)

Finish ==
  /\ phase = "run" /\ iter = iters
  /\ FinishWith([file |-> i, loaded |-> TRUE, error |-> FALSE, failures |-> failures, cases |-> cases],
                IF failures # 0 THEN 1 ELSE 0)

\* The status of the last kind of trouble that was looked for.
StatusInfraOnly(fail, infra) == IF infra THEN 2 ELSE 0

Status(fail, infra) == IF fail THEN 1 ELSE IF infra THEN 2 ELSE 0

\* main() returns; the init script writes the status and halts the guest.
MainReturns ==
  /\ phase = "run" /\ i > NObjects
  /\ rc' = IF NObjects = 0 THEN 2 ELSE Status(any_fail, any_infra)
  /\ phase' = "dead"
  /\ UNCHANGED <<does, i, object, worst, out, exit>>

\* The guest is out of memory and kills the runner; what it had not flushed is lost.
OomKill ==
  /\ phase = "run" /\ rc' = 137 /\ phase' = "dead"
  /\ UNCHANGED <<does, i, object, worst, out, exit>>

\* The guest is gone before the init script opens the status file, or writes it.
GuestDies(file) ==
  /\ phase = "run" /\ phase' = "dead" /\ rc' = file
  /\ UNCHANGED <<does, i, object, worst, out, exit>>

\* exit $(cat ${RC} || echo 3); the shell answers an empty argument with 2.
StatusOrThree == IF rc = -1 THEN 3 ELSE IF rc = -2 THEN 2 ELSE rc

Collect ==
  /\ phase = "dead" /\ phase' = "done"
  /\ exit' = StatusOrThree
  /\ UNCHANGED <<does, i, object, worst, out, rc>>

Done == phase = "done" /\ UNCHANGED vars

Next ==
  \/ \E kernel \in BOOLEAN : Launch(kernel)
  \/ Load \/ RunCase \/ CaseFails \/ Finish \/ MainReturns
  \/ OomKill \/ (\E file \in {-1, -2} : GuestDies(file)) \/ Collect \/ Done

Spec == Init /\ [][Next]_vars
-----------------------------------------------------------------------------
(* Exit status 0 means what the header of bpf_runner.c says: every object was    *)
(* loaded and ran all its iterations without a failure, however the guest ended. *)
ZeroMeansClean ==
  exit = 0 => \A o \in Object : does[o].loads /\ does[o].dies = iters /\ does[o].bad = {}

\* The object runs all its iterations and fails in one of them.
RunsAndFails(o) == does[o].loads /\ does[o].dies = iters /\ does[o].bad # {}

(* A property failure is not hidden by objects that cannot be loaded or run,     *)
(* before it or after it: if main() returned, the status is 1 exactly when some  *)
(* object that ran all its iterations failed. Of an object whose run breaks off  *)
(* nothing is said: its failures are dropped, although the header of             *)
(* bpf_runner.c promises 1 "if any object had a property failure".               *)
FailureWins ==
  (exit # -1 /\ rc \in 0..2) => (exit = 1 <=> \E o \in Object : RunsAndFails(o))

(* The seeds reported for a case depend on the case only, not on the objects run *)
(* before it, so the same case can be reproduced with the object alone.          *)
SeedsReproducible ==
  \A n \in 1..Len(out) : \A k \in 1..Len(out[n].cases) :
    LET c == out[n].cases[k]
    IN ~IsCorner(c.iter) => c.seeds.draw = Entries * (c.iter - NCorners * NCorners)

(* After the corner phase every pair of corner values has been tried.            *)
CornersSwept ==
  iter >= NCorners * NCorners => swept = (0..NCorners - 1) \X (0..NCorners - 1)
=============================================================================

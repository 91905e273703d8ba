----------------------------- MODULE ToolsProofs -----------------------------
(***************************************************************************)
(* The CI job and the tools around the pipeline, for every number of refs, *)
(* pins, harnesses, differential targets, objects and iterations, and for  *)
(* every list of copied functions and files of well-formed items.          *)
(***************************************************************************)
EXTENDS MCTools, FiniteSetTheorems, SequenceTheorems, WellFoundedInduction, TLAPS

-----------------------------------------------------------------------------
(* The order of the steps of bpf-verify.yml *)

LEMMA StepOrderFacts ==
  /\ DOMAIN StepOrder = 1 .. 18
  /\ StepOrder[1] = "checkout" /\ StepOrder[2] = "free" /\ StepOrder[3] = "cache"
  /\ StepOrder[4] = "libs" /\ StepOrder[5] = "deps" /\ StepOrder[6] = "pin"
  /\ StepOrder[7] = "build" /\ StepOrder[8] = "verify" /\ StepOrder[9] = "artifacts"
  /\ StepOrder[10] = "drift" /\ StepOrder[11] = "runner" /\ StepOrder[12] = "clang"
  /\ StepOrder[13] = "pipeline" /\ StepOrder[14] = "gate" /\ StepOrder[15] = "fuzz"
  /\ StepOrder[16] = "diff" /\ StepOrder[17] = "report" /\ StepOrder[18] = "uploads"
  BY DEF StepOrder

LEMMA StepOrderOnce == \A m, n \in 1 .. 18 : StepOrder[m] = StepOrder[n] => m = n
<1>1. \A n \in 1 .. 18 : n = 1 \/ n = 2 \/ n = 3 \/ n = 4 \/ n = 5 \/ n = 6 \/ n = 7 \/ n = 8
                         \/ n = 9 \/ n = 10 \/ n = 11 \/ n = 12 \/ n = 13 \/ n = 14 \/ n = 15
                         \/ n = 16 \/ n = 17 \/ n = 18
  OBVIOUS
<1>. QED
  BY <1>1, StepOrderFacts

\* The step after the n-th is the first later one that is not skipped.
LEMMA FollowingIs ==
  ASSUME NEW n \in 1 .. 18, NEW m \in 1 .. 18, NEW hit \in BOOLEAN,
         m > n, ~ (hit /\ StepOrder[m] \in MissOnly),
         \A k \in 1 .. 18 : n < k /\ k < m => hit /\ StepOrder[k] \in MissOnly
  PROVE  Following(StepOrder[n], hit) = StepOrder[m]
<1>. DEFINE at == CHOOSE k \in DOMAIN StepOrder : StepOrder[k] = StepOrder[n]
            later == {k \in DOMAIN StepOrder : k > at /\ ~ (hit /\ StepOrder[k] \in MissOnly)}
            first == CHOOSE k \in later : \A l \in later : k <= l
<1>1. at = n
  BY StepOrderOnce, StepOrderFacts
<1>. HIDE DEF at
<1>2. m \in later /\ \A l \in later : m <= l
  BY <1>1, StepOrderFacts
<1>a. later \subseteq 1 .. 18
  BY StepOrderFacts
<1>. HIDE DEF later
<1>3. first \in later /\ \A l \in later : first <= l
  BY <1>2, Zenon
<1>. HIDE DEF first
<1>4. first = m
  BY <1>2, <1>3, <1>a
<1>. QED
  BY <1>4 DEF Following, at, later, first

LEMMA FollowingTable ==
  /\ \A hit \in BOOLEAN :
       /\ Following("checkout", hit) = "free" /\ Following("free", hit) = "cache"
       /\ Following("cache", hit) = "libs" /\ Following("verify", hit) = "artifacts"
       /\ Following("artifacts", hit) = "drift" /\ Following("drift", hit) = "runner"
       /\ Following("runner", hit) = "clang" /\ Following("clang", hit) = "pipeline"
       /\ Following("pipeline", hit) = "gate" /\ Following("gate", hit) = "fuzz"
       /\ Following("fuzz", hit) = "diff" /\ Following("diff", hit) = "report"
  /\ Following("libs", TRUE) = "verify" /\ Following("libs", FALSE) = "deps"
  /\ Following("deps", FALSE) = "pin" /\ Following("pin", FALSE) = "build"
  /\ Following("build", FALSE) = "verify"
<1>1. /\ 1 \in 1 .. 18 /\ 2 \in 1 .. 18 /\ 3 \in 1 .. 18 /\ 4 \in 1 .. 18 /\ 5 \in 1 .. 18
      /\ 6 \in 1 .. 18 /\ 7 \in 1 .. 18 /\ 8 \in 1 .. 18 /\ 9 \in 1 .. 18 /\ 10 \in 1 .. 18
      /\ 11 \in 1 .. 18 /\ 12 \in 1 .. 18 /\ 13 \in 1 .. 18 /\ 14 \in 1 .. 18 /\ 15 \in 1 .. 18
      /\ 16 \in 1 .. 18 /\ 17 \in 1 .. 18 /\ 18 \in 1 .. 18
  OBVIOUS
<1>2. ASSUME NEW n \in 1 .. 17, NEW hit \in BOOLEAN, StepOrder[n + 1] \notin MissOnly \/ hit = FALSE
      PROVE  Following(StepOrder[n], hit) = StepOrder[n + 1]
  <2>1. n \in 1 .. 18 /\ n + 1 \in 1 .. 18 /\ n + 1 > n
        /\ \A k \in 1 .. 18 : ~ (n < k /\ k < n + 1)
    OBVIOUS
  <2>2. ~ (hit /\ StepOrder[n + 1] \in MissOnly)
    BY <1>2
  <2>. QED
    BY <2>1, <2>2, FollowingIs
<1>3. ASSUME NEW hit \in BOOLEAN
      PROVE  /\ Following("checkout", hit) = "free" /\ Following("free", hit) = "cache"
             /\ Following("cache", hit) = "libs" /\ Following("verify", hit) = "artifacts"
             /\ Following("artifacts", hit) = "drift" /\ Following("drift", hit) = "runner"
             /\ Following("runner", hit) = "clang" /\ Following("clang", hit) = "pipeline"
             /\ Following("pipeline", hit) = "gate" /\ Following("gate", hit) = "fuzz"
             /\ Following("fuzz", hit) = "diff" /\ Following("diff", hit) = "report"
  <2>1. \A n \in {1, 2, 3, 8, 9, 10, 11, 12, 13, 14, 15, 16} :
          n \in 1 .. 17 /\ StepOrder[n + 1] \notin MissOnly
    BY StepOrderFacts DEF MissOnly
  <2>2. \A n \in {1, 2, 3, 8, 9, 10, 11, 12, 13, 14, 15, 16} : Following(StepOrder[n], hit) = StepOrder[n + 1]
    BY <2>1, <1>2
  <2>. QED
    BY <2>2, StepOrderFacts
<1>4. ASSUME NEW n \in 4 .. 7 PROVE Following(StepOrder[n], FALSE) = StepOrder[n + 1]
  <2>1. n \in 1 .. 17 /\ FALSE \in BOOLEAN
    OBVIOUS
  <2>. QED
    BY <2>1, <1>2
<1>5. Following(StepOrder[4], TRUE) = StepOrder[8]
  <2>1. 8 > 4 /\ StepOrder[8] \notin MissOnly
    BY StepOrderFacts DEF MissOnly
  <2>2. \A k \in 1 .. 18 : 4 < k /\ k < 8 => StepOrder[k] \in MissOnly
    <3>1. \A k \in 1 .. 18 : 4 < k /\ k < 8 => k \in {5, 6, 7}
      OBVIOUS
    <3>. QED
      BY <3>1, StepOrderFacts DEF MissOnly
  <2>. QED
    BY <2>1, <2>2, <1>1, FollowingIs
<1>6. /\ Following("libs", TRUE) = "verify" /\ Following("libs", FALSE) = "deps"
      /\ Following("deps", FALSE) = "pin" /\ Following("pin", FALSE) = "build"
      /\ Following("build", FALSE) = "verify"
  <2>1. /\ Following(StepOrder[4], FALSE) = StepOrder[4 + 1]
        /\ Following(StepOrder[5], FALSE) = StepOrder[5 + 1]
        /\ Following(StepOrder[6], FALSE) = StepOrder[6 + 1]
        /\ Following(StepOrder[7], FALSE) = StepOrder[7 + 1]
    <3>1. 4 \in 4 .. 7 /\ 5 \in 4 .. 7 /\ 6 \in 4 .. 7 /\ 7 \in 4 .. 7
      OBVIOUS
    <3>. QED
      BY <3>1, <1>4, Zenon
  <2>2. 4 + 1 = 5 /\ 5 + 1 = 6 /\ 6 + 1 = 7 /\ 7 + 1 = 8
    OBVIOUS
  <2>. QED
    BY <2>1, <2>2, <1>5, StepOrderFacts
<1>. QED
  BY <1>3, <1>6
-----------------------------------------------------------------------------
(* The invariant of the CI job *)

Ends == {"report", "uploads", "post", "done"}
Built == {"verify", "artifacts", "drift", "runner"}
AfterRunner == {"clang", "pipeline", "gate", "fuzz", "diff"}
BeforeFuzz ==
  {"checkout", "free", "cache", "libs", "deps", "pin", "build", "clang", "pipeline", "gate"} \cup Built
Required == {"drift", "runner", "pipeline", "gate", "fuzz", "diff"}
Places == StepName \cup {"post", "done"}

JobType ==
  [at : Places, ok : BOOLEAN, pin : Pin \cup {"none"}, hit : BOOLEAN, tree : SUBSET Artifact,
   treePin : Pin \cup {"none"}, next : 1 .. Cardinality(Harness) + 1, fail : BOOLEAN,
   dirty : SUBSET Harness, passed : SUBSET StepName, reported : BOOLEAN]

CacheType == [Pin -> [pin : Pin \cup {"none"}, paths : SUBSET CachedPaths]]

\* What a run knows of the kernel tree it works in.
TreeOK(j) ==
  /\ j.at \notin {"checkout"} \cup Ends => j.pin \in Pin
  /\ j.at \in {"checkout", "free", "cache", "deps", "pin", "build"} => j.hit = FALSE
  /\ j.hit = TRUE => j.treePin = j.pin /\ CachedPaths \subseteq j.tree
  /\ j.at \in {"build"} \cup Built => j.treePin = j.pin
  /\ j.at \in Built => /\ Essential \subseteq j.tree
                       /\ "selftests-output" \in j.tree => "bpftool-output" \in j.tree
  /\ j.at \in {"checkout", "free", "cache", "libs", "deps", "pin", "build"} \cup Built =>
       "runner" \notin j.passed
  /\ "runner" \in j.passed => j.pin \in Pin /\ j.treePin = j.pin /\ CachedPaths \subseteq j.tree

\* What a run that is still good has behind it.
ProgressOK(j) ==
  /\ j.at \notin Ends => j.ok = TRUE
  /\ j.at \in {"runner"} \cup AfterRunner => "drift" \in j.passed
  /\ j.at \in AfterRunner => "runner" \in j.passed
  /\ j.at \in {"gate", "fuzz", "diff"} => "pipeline" \in j.passed
  /\ j.at \in {"fuzz", "diff"} => "gate" \in j.passed
  /\ j.at = "diff" => "fuzz" \in j.passed
  /\ j.at \in Ends /\ j.ok = TRUE => Required \subseteq j.passed
  /\ j.at \in BeforeFuzz => j.next = 1 /\ j.dirty = {} /\ j.fail = FALSE
  /\ j.at = "fuzz" /\ j.fail = FALSE => j.dirty = {}
  /\ j.at = "diff" \/ (j.at \in Ends /\ j.ok = TRUE) =>
       j.dirty = {} /\ j.next = Cardinality(Harness) + 1

CacheOK == \A k \in Pin : cache[k] # NoEntry => cache[k].pin = k /\ CachedPaths \subseteq cache[k].paths

JobsInv ==
  /\ head \in [Ref -> Pin] /\ pushes \in 0 .. MaxPushes /\ waiting \subseteq Ref
  /\ cache \in CacheType /\ job \in [Ref -> JobType]
  /\ CacheOK
  /\ \A r \in Ref : TreeOK(job[r]) /\ ProgressOK(job[r])

LEMMA HarnessCount ==
  Cardinality(Harness) \in Nat /\ Harness = 1 .. Cardinality(Harness)
  BY CiAssumption, FS_CardinalityType

LEMMA StepNames ==
  StepName = {"checkout", "free", "cache", "libs", "deps", "pin", "build", "verify", "artifacts",
              "drift", "runner", "clang", "pipeline", "gate", "fuzz", "diff", "report", "uploads"}
<1>1. \A n \in 1 .. 18 : n = 1 \/ n = 2 \/ n = 3 \/ n = 4 \/ n = 5 \/ n = 6 \/ n = 7 \/ n = 8
                         \/ n = 9 \/ n = 10 \/ n = 11 \/ n = 12 \/ n = 13 \/ n = 14 \/ n = 15
                         \/ n = 16 \/ n = 17 \/ n = 18
  OBVIOUS
<1>. QED
  BY <1>1, StepOrderFacts DEF StepName

\* The fields of a run after a step that succeeded, and after one that failed.
LEMMA SucceedFields ==
  ASSUME JobsInv, NEW r \in Ref, NEW j \in JobType, NEW s \in StepName, NEW t \in StepName,
         Following(s, j.hit) = t, Succeed(r, s, j)
  PROVE  /\ job' \in [Ref -> JobType] /\ \A q \in Ref : q # r => job'[q] = job[q]
         /\ job'[r].at = t /\ job'[r].passed = j.passed \cup {s}
         /\ job'[r].ok = j.ok /\ job'[r].pin = j.pin /\ job'[r].hit = j.hit
         /\ job'[r].tree = j.tree /\ job'[r].treePin = j.treePin /\ job'[r].next = j.next
         /\ job'[r].fail = j.fail /\ job'[r].dirty = j.dirty
<1>. DEFINE k == [j EXCEPT !.at = t, !.passed = @ \cup {s}]
<1>1. job \in [Ref -> JobType]
  BY DEF JobsInv
<1>2. job' = [job EXCEPT ![r] = k]
  BY DEF Succeed
<1>3. k \in JobType
  BY DEF JobType, Places
<1>4. /\ k.at = t /\ k.passed = j.passed \cup {s} /\ k.ok = j.ok /\ k.pin = j.pin
      /\ k.hit = j.hit /\ k.tree = j.tree /\ k.treePin = j.treePin /\ k.next = j.next
      /\ k.fail = j.fail /\ k.dirty = j.dirty
  BY DEF JobType
<1>. HIDE DEF k
<1>. QED
  BY <1>1, <1>2, <1>3, <1>4

LEMMA FailedFields ==
  ASSUME JobsInv, NEW r \in Ref, Failed(r)
  PROVE  /\ job' \in [Ref -> JobType] /\ \A q \in Ref : q # r => job'[q] = job[q]
         /\ job'[r].at = "report" /\ job'[r].ok = FALSE
         /\ TreeOK(job'[r]) /\ ProgressOK(job'[r])
<1>. DEFINE j == job[r]
            k == [j EXCEPT !.ok = FALSE, !.at = "report"]
<1>1. job \in [Ref -> JobType] /\ j \in JobType
  BY DEF JobsInv
<1>2. job' = [job EXCEPT ![r] = k]
  BY <1>1 DEF Failed
<1>3. k \in JobType
  BY <1>1, StepNames, ZenonT(60) DEF JobType, Places
<1>4. /\ k.at = "report" /\ k.passed = j.passed /\ k.ok = FALSE /\ k.pin = j.pin
      /\ k.hit = j.hit /\ k.tree = j.tree /\ k.treePin = j.treePin
  BY <1>1 DEF JobType
<1>5. TreeOK(j)
  BY DEF JobsInv
<1>. HIDE DEF k, j
<1>6. TreeOK(k) /\ ProgressOK(k)
  BY <1>4, <1>5 DEF TreeOK, ProgressOK, Ends, Built, AfterRunner, BeforeFuzz
<1>. QED
  BY <1>1, <1>2, <1>3, <1>4, <1>6

\* One run moved and nothing else did.
LEMMA OneRunMoves ==
  ASSUME JobsInv, NEW r \in Ref, UNCHANGED <<head, pushes, waiting, cache>>,
         job' \in [Ref -> JobType], \A q \in Ref : q # r => job'[q] = job[q],
         TreeOK(job'[r]), ProgressOK(job'[r])
  PROVE  JobsInv'
<1>1. \A q \in Ref : TreeOK(job'[q]) /\ ProgressOK(job'[q])
  BY DEF JobsInv
<1>2. CacheOK'
  BY DEF JobsInv, CacheOK
<1>. QED
  BY <1>1, <1>2 DEF JobsInv

LEMMA PlainKeeps ==
  ASSUME JobsInv, NEW r \in Ref, NEW s \in Plain, NEW okay \in BOOLEAN, PlainStep(r, s, okay)
  PROVE  JobsInv'
<1>1. /\ job[r].at = s /\ UNCHANGED <<head, pushes, waiting, cache>>
      /\ Succeed(r, s, job[r]) \/ Failed(r)
  BY DEF PlainStep, At
<1>2. /\ job[r] \in JobType /\ TreeOK(job[r]) /\ ProgressOK(job[r])
      /\ job[r].hit = TRUE \/ job[r].hit = FALSE
  <2>1. job[r] \in JobType /\ TreeOK(job[r]) /\ ProgressOK(job[r])
    BY DEF JobsInv
  <2>2. job[r].hit \in BOOLEAN
    BY <2>1 DEF JobType
  <2>. QED
    BY <2>1, <2>2
<1>3. CASE Failed(r)
  BY <1>1, <1>3, FailedFields, OneRunMoves
<1>4. CASE Succeed(r, s, job[r])
  <2>. USE DEF TreeOK, ProgressOK, Ends, Built, AfterRunner, BeforeFuzz, Required
  <2>1. ASSUME NEW t \in StepName, Following(s, job[r].hit) = t,
               TreeOK(job'[r]), ProgressOK(job'[r])
        PROVE  JobsInv'
    <3>. USE <2>1
    <3>1. s \in StepName
      BY StepNames DEF Plain
    <3>. QED
      BY <3>1, <1>1, <1>2, <1>4, SucceedFields, OneRunMoves
  <2>2. ASSUME NEW t \in StepName, Following(s, job[r].hit) = t
        PROVE  /\ job'[r].at = t /\ job'[r].passed = job[r].passed \cup {s}
               /\ job'[r].ok = job[r].ok /\ job'[r].pin = job[r].pin /\ job'[r].hit = job[r].hit
               /\ job'[r].tree = job[r].tree /\ job'[r].treePin = job[r].treePin
               /\ job'[r].next = job[r].next /\ job'[r].fail = job[r].fail
               /\ job'[r].dirty = job[r].dirty
    <3>1. s \in StepName
      BY StepNames DEF Plain
    <3>. QED
      BY <3>1, <2>2, <1>2, <1>4, SucceedFields
  <2>3. {"cache", "verify", "artifacts", "deps", "pin", "drift", "runner", "pipeline", "gate", "fuzz", "report"}
          \subseteq StepName
    BY StepNames
  <2>4. CASE s = "libs" /\ job[r].hit = TRUE
    <3>1. Following(s, job[r].hit) = "verify"
      BY <2>4, FollowingTable
    <3>2. TreeOK(job'[r]) /\ ProgressOK(job'[r])
      BY <3>1, <2>2, <2>3, <2>4, <1>1, <1>2 DEF CachedPaths
    <3>. QED
      BY <3>1, <3>2, <2>1, <2>3
  <2>5. CASE s = "libs" /\ job[r].hit = FALSE
    <3>1. Following(s, job[r].hit) = "deps"
      BY <2>5, FollowingTable
    <3>2. TreeOK(job'[r]) /\ ProgressOK(job'[r])
      BY <3>1, <2>2, <2>3, <2>5, <1>1, <1>2
    <3>. QED
      BY <3>1, <3>2, <2>1, <2>3
  <2>6. CASE s = "deps"
    <3>1. Following(s, job[r].hit) = "pin"
      BY <2>6, <1>1, <1>2, FollowingTable
    <3>2. TreeOK(job'[r]) /\ ProgressOK(job'[r])
      BY <3>1, <2>2, <2>3, <2>6, <1>1, <1>2
    <3>. QED
      BY <3>1, <3>2, <2>1, <2>3
  <2>7. CASE s = "artifacts"
    <3>1. Following(s, job[r].hit) = "drift"
      BY <2>7, <1>2, FollowingTable
    <3>2. TreeOK(job'[r]) /\ ProgressOK(job'[r])
      BY <3>1, <2>2, <2>3, <2>7, <1>1, <1>2
    <3>. QED
      BY <3>1, <3>2, <2>1, <2>3
  <2>8. CASE s = "drift"
    <3>1. Following(s, job[r].hit) = "runner"
      BY <2>8, <1>2, FollowingTable
    <3>2. TreeOK(job'[r]) /\ ProgressOK(job'[r])
      BY <3>1, <2>2, <2>3, <2>8, <1>1, <1>2
    <3>. QED
      BY <3>1, <3>2, <2>1, <2>3
  <2>9. CASE s = "clang"
    <3>1. Following(s, job[r].hit) = "pipeline"
      BY <2>9, <1>2, FollowingTable
    <3>2. TreeOK(job'[r]) /\ ProgressOK(job'[r])
      BY <3>1, <2>2, <2>3, <2>9, <1>1, <1>2
    <3>. QED
      BY <3>1, <3>2, <2>1, <2>3
  <2>10. CASE s = "pipeline"
    <3>1. Following(s, job[r].hit) = "gate"
      BY <2>10, <1>2, FollowingTable
    <3>2. TreeOK(job'[r]) /\ ProgressOK(job'[r])
      BY <3>1, <2>2, <2>3, <2>10, <1>1, <1>2
    <3>. QED
      BY <3>1, <3>2, <2>1, <2>3
  <2>11. CASE s = "gate"
    <3>1. Following(s, job[r].hit) = "fuzz"
      BY <2>11, <1>2, FollowingTable
    <3>2. TreeOK(job'[r]) /\ ProgressOK(job'[r])
      BY <3>1, <2>2, <2>3, <2>11, <1>1, <1>2
    <3>. QED
      BY <3>1, <3>2, <2>1, <2>3
  <2>12. CASE s = "diff"
    <3>1. Following(s, job[r].hit) = "report"
      BY <2>12, <1>2, FollowingTable
    <3>2. TreeOK(job'[r]) /\ ProgressOK(job'[r])
      BY <3>1, <2>2, <2>3, <2>12, <1>1, <1>2
    <3>. QED
      BY <3>1, <3>2, <2>1, <2>3
  <2>13. CASE s = "free"
    <3>1. Following(s, job[r].hit) = "cache"
      BY <2>13, <1>2, FollowingTable
    <3>2. TreeOK(job'[r]) /\ ProgressOK(job'[r])
      BY <3>1, <2>2, <2>3, <2>13, <1>1, <1>2
    <3>. QED
      BY <3>1, <3>2, <2>1, <2>3
  <2>14. CASE s = "verify"
    <3>1. Following(s, job[r].hit) = "artifacts"
      BY <2>14, <1>2, FollowingTable
    <3>2. TreeOK(job'[r]) /\ ProgressOK(job'[r])
      BY <3>1, <2>2, <2>3, <2>14, <1>1, <1>2
    <3>. QED
      BY <3>1, <3>2, <2>1, <2>3
  <2>. QED
    BY <2>4, <2>5, <2>6, <2>7, <2>8, <2>9, <2>10, <2>11, <2>12, <2>13, <2>14, <1>2 DEF Plain
<1>. QED
  BY <1>1, <1>3, <1>4

\* The other steps that may succeed: j is the run with the step's own changes.
LEMMA SucceedKeeps ==
  ASSUME JobsInv, NEW r \in Ref, UNCHANGED <<head, pushes, waiting, cache>>,
         NEW j \in JobType, NEW s \in StepName, NEW t \in StepName,
         Following(s, j.hit) = t, Succeed(r, s, j),
         \A k \in JobType :
           /\ k.at = t /\ k.passed = j.passed \cup {s} /\ k.ok = j.ok /\ k.pin = j.pin
           /\ k.hit = j.hit /\ k.tree = j.tree /\ k.treePin = j.treePin /\ k.next = j.next
           /\ k.fail = j.fail /\ k.dirty = j.dirty
           => TreeOK(k) /\ ProgressOK(k)
  PROVE  JobsInv'
<1>1. /\ job' \in [Ref -> JobType] /\ \A q \in Ref : q # r => job'[q] = job[q]
      /\ job'[r].at = t /\ job'[r].passed = j.passed \cup {s}
      /\ job'[r].ok = j.ok /\ job'[r].pin = j.pin /\ job'[r].hit = j.hit
      /\ job'[r].tree = j.tree /\ job'[r].treePin = j.treePin /\ job'[r].next = j.next
      /\ job'[r].fail = j.fail /\ job'[r].dirty = j.dirty
  BY SucceedFields
<1>2. job'[r] \in JobType
  BY <1>1
<1>3. TreeOK(job'[r]) /\ ProgressOK(job'[r])
  BY <1>1, <1>2
<1>. QED
  BY <1>1, <1>3, OneRunMoves

LEMMA CheckoutKeeps ==
  ASSUME JobsInv, NEW r \in Ref, NEW okay \in BOOLEAN, Checkout(r, okay)
  PROVE  JobsInv'
<1>. DEFINE j == [job[r] EXCEPT !.pin = head[r]]
<1>1. /\ job[r].at = "checkout" /\ UNCHANGED <<head, pushes, waiting, cache>>
      /\ Succeed(r, "checkout", j) \/ Failed(r)
  BY DEF Checkout, At
<1>2. CASE Failed(r)
  BY <1>1, <1>2, FailedFields, OneRunMoves
<1>3. CASE Succeed(r, "checkout", j)
  <2>1. job[r] \in JobType /\ TreeOK(job[r]) /\ ProgressOK(job[r]) /\ head[r] \in Pin
    BY DEF JobsInv
  <2>2. /\ j \in JobType /\ j.pin \in Pin /\ j.at = "checkout" /\ j.passed = job[r].passed
        /\ j.ok = job[r].ok /\ j.hit = job[r].hit /\ j.tree = job[r].tree
        /\ j.next = job[r].next /\ j.fail = job[r].fail /\ j.dirty = job[r].dirty
    BY <2>1, <1>1 DEF JobType
  <2>. HIDE DEF j
  <2>3. j.hit \in BOOLEAN
    BY <2>2 DEF JobType
  <2>4. Following("checkout", j.hit) = "free" /\ "checkout" \in StepName /\ "free" \in StepName
    BY <2>3, FollowingTable, StepNames
  <2>5. ASSUME NEW k \in JobType, k.at = "free", k.passed = j.passed \cup {"checkout"},
               k.ok = j.ok, k.pin = j.pin, k.hit = j.hit, k.tree = j.tree,
               k.treePin = j.treePin, k.next = j.next, k.fail = j.fail, k.dirty = j.dirty
        PROVE  TreeOK(k) /\ ProgressOK(k)
    BY <2>5, <2>1, <2>2, <1>1 DEF TreeOK, ProgressOK, Ends, Built, AfterRunner, BeforeFuzz, Required
  <2>. QED
    BY <2>2, <2>4, <2>5, <1>1, <1>3, SucceedKeeps
<1>. QED
  BY <1>1, <1>2, <1>3

LEMMA RestoreKeeps ==
  ASSUME JobsInv, NEW r \in Ref, RestoreCache(r)
  PROVE  JobsInv'
<1>. DEFINE e == cache[job[r].pin]
            j == IF e = NoEntry THEN job[r]
                 ELSE [job[r] EXCEPT !.hit = TRUE, !.tree = e.paths, !.treePin = e.pin]
<1>1. /\ job[r].at = "cache" /\ UNCHANGED <<head, pushes, waiting, cache>>
      /\ Succeed(r, "cache", j)
  BY DEF RestoreCache, At, Key
<1>2. job[r] \in JobType /\ TreeOK(job[r]) /\ ProgressOK(job[r])
  BY DEF JobsInv
<1>3. job[r].pin \in Pin
  BY <1>1, <1>2 DEF TreeOK, Ends
<1>4. e.pin \in Pin \cup {"none"} /\ e.paths \subseteq CachedPaths
  BY <1>3 DEF JobsInv, CacheType
<1>5. e # NoEntry => e.pin = job[r].pin /\ CachedPaths \subseteq e.paths
  BY <1>3 DEF JobsInv, CacheOK
<1>. HIDE DEF e
<1>6. CachedPaths \subseteq Artifact
  BY DEF CachedPaths, Artifact
<1>7. /\ j \in JobType /\ j.pin = job[r].pin /\ j.at = "cache" /\ j.passed = job[r].passed
      /\ j.ok = job[r].ok /\ j.next = job[r].next /\ j.fail = job[r].fail /\ j.dirty = job[r].dirty
      /\ j.hit = TRUE \/ j.hit = FALSE
      /\ j.hit = TRUE => j.treePin = j.pin /\ CachedPaths \subseteq j.tree
  <2>1. CASE e = NoEntry
    <3>1. j = job[r]
      BY <2>1
    <3>2. job[r].hit = FALSE
      BY <1>1, <1>2 DEF TreeOK
    <3>. HIDE DEF j
    <3>. QED
      BY <3>1, <3>2, <1>1, <1>2
  <2>2. CASE e # NoEntry
    <3>1. j = [job[r] EXCEPT !.hit = TRUE, !.tree = e.paths, !.treePin = e.pin]
      BY <2>2
    <3>. HIDE DEF j
    <3>2. /\ j.pin = job[r].pin /\ j.at = job[r].at /\ j.passed = job[r].passed
          /\ j.ok = job[r].ok /\ j.next = job[r].next /\ j.fail = job[r].fail
          /\ j.dirty = job[r].dirty /\ j.hit = TRUE /\ j.tree = e.paths /\ j.treePin = e.pin
      BY <3>1, <1>2 DEF JobType
    <3>3. j \in JobType
      BY <3>1, <1>2, <1>4, <1>6 DEF JobType
    <3>. QED
      BY <3>2, <3>3, <2>2, <1>1, <1>5
  <2>. QED
    BY <2>1, <2>2
<1>. HIDE DEF j
<1>8. Following("cache", j.hit) = "libs" /\ "cache" \in StepName /\ "libs" \in StepName
  BY <1>7, FollowingTable, StepNames
<1>9. ASSUME NEW k \in JobType, k.at = "libs", k.passed = j.passed \cup {"cache"},
             k.ok = j.ok, k.pin = j.pin, k.hit = j.hit, k.tree = j.tree,
             k.treePin = j.treePin, k.next = j.next, k.fail = j.fail, k.dirty = j.dirty
      PROVE  TreeOK(k) /\ ProgressOK(k)
  BY <1>9, <1>1, <1>2, <1>3, <1>7 DEF TreeOK, ProgressOK, Ends, Built, AfterRunner, BeforeFuzz, Required
<1>. QED
  BY <1>1, <1>7, <1>8, <1>9, SucceedKeeps

LEMMA PinKeeps ==
  ASSUME JobsInv, NEW r \in Ref, NEW okay \in BOOLEAN, PinKernel(r, okay)
  PROVE  JobsInv'
<1>. DEFINE j == [job[r] EXCEPT !.tree = {"Kconfig"}, !.treePin = job[r].pin]
<1>1. /\ job[r].at = "pin" /\ UNCHANGED <<head, pushes, waiting, cache>>
      /\ Succeed(r, "pin", j) \/ Failed(r)
  BY DEF PinKernel, At
<1>2. CASE Failed(r)
  BY <1>1, <1>2, FailedFields, OneRunMoves
<1>3. CASE Succeed(r, "pin", j)
  <2>1. job[r] \in JobType /\ TreeOK(job[r]) /\ ProgressOK(job[r])
    BY DEF JobsInv
  <2>2. {"Kconfig"} \subseteq Artifact
    BY DEF Artifact, Essential
  <2>3. /\ j \in JobType /\ j.pin = job[r].pin /\ j.at = "pin" /\ j.passed = job[r].passed
        /\ j.ok = job[r].ok /\ j.hit = job[r].hit /\ j.treePin = job[r].pin
        /\ j.next = job[r].next /\ j.fail = job[r].fail /\ j.dirty = job[r].dirty
    BY <2>1, <2>2, <1>1 DEF JobType
  <2>. HIDE DEF j
  <2>4. j.hit = FALSE
    BY <2>1, <2>3, <1>1 DEF TreeOK
  <2>5. Following("pin", j.hit) = "build" /\ "pin" \in StepName /\ "build" \in StepName
    BY <2>4, FollowingTable, StepNames
  <2>6. ASSUME NEW k \in JobType, k.at = "build", k.passed = j.passed \cup {"pin"},
               k.ok = j.ok, k.pin = j.pin, k.hit = j.hit, k.tree = j.tree,
               k.treePin = j.treePin, k.next = j.next, k.fail = j.fail, k.dirty = j.dirty
        PROVE  TreeOK(k) /\ ProgressOK(k)
    BY <2>6, <2>1, <2>3, <2>4, <1>1
    DEF TreeOK, ProgressOK, Ends, Built, AfterRunner, BeforeFuzz, Required
  <2>. QED
    BY <2>3, <2>5, <2>6, <1>1, <1>3, SucceedKeeps
<1>. QED
  BY <1>1, <1>2, <1>3

LEMMA BuildKeeps ==
  ASSUME JobsInv, NEW r \in Ref, NEW made \in BuildResult, Build(r, made)
  PROVE  JobsInv'
<1>. DEFINE j == [job[r] EXCEPT !.tree = made]
<1>1. /\ job[r].at = "build" /\ UNCHANGED <<head, pushes, waiting, cache>>
      /\ (Essential \subseteq made /\ Succeed(r, "build", j)) \/ Failed(r)
  BY DEF Build, At
<1>2. CASE Failed(r)
  BY <1>1, <1>2, FailedFields, OneRunMoves
<1>3. CASE Essential \subseteq made /\ Succeed(r, "build", j)
  <2>1. job[r] \in JobType /\ TreeOK(job[r]) /\ ProgressOK(job[r])
    BY DEF JobsInv
  <2>2. made \subseteq Artifact /\ ("selftests-output" \in made => "bpftool-output" \in made)
    BY DEF BuildResult
  <2>3. /\ j \in JobType /\ j.pin = job[r].pin /\ j.at = "build" /\ j.passed = job[r].passed
        /\ j.ok = job[r].ok /\ j.hit = job[r].hit /\ j.treePin = job[r].treePin /\ j.tree = made
        /\ j.next = job[r].next /\ j.fail = job[r].fail /\ j.dirty = job[r].dirty
    BY <2>1, <2>2, <1>1 DEF JobType
  <2>. HIDE DEF j
  <2>4. j.hit = FALSE
    BY <2>1, <2>3, <1>1 DEF TreeOK
  <2>5. Following("build", j.hit) = "verify" /\ "build" \in StepName /\ "verify" \in StepName
    BY <2>4, FollowingTable, StepNames
  <2>6. ASSUME NEW k \in JobType, k.at = "verify", k.passed = j.passed \cup {"build"},
               k.ok = j.ok, k.pin = j.pin, k.hit = j.hit, k.tree = j.tree,
               k.treePin = j.treePin, k.next = j.next, k.fail = j.fail, k.dirty = j.dirty
        PROVE  TreeOK(k) /\ ProgressOK(k)
    BY <2>6, <2>1, <2>2, <2>3, <2>4, <1>1, <1>3
    DEF TreeOK, ProgressOK, Ends, Built, AfterRunner, BeforeFuzz, Required
  <2>. QED
    BY <2>3, <2>5, <2>6, <1>1, <1>3, SucceedKeeps
<1>. QED
  BY <1>1, <1>2, <1>3

LEMMA RunnerKeeps ==
  ASSUME JobsInv, NEW r \in Ref, BuildRunner(r)
  PROVE  JobsInv'
<1>. DEFINE j == job[r]
<1>1. /\ j.at = "runner" /\ UNCHANGED <<head, pushes, waiting, cache>>
      /\ \/ j.tree \cap {"bpftool-output", "selftests-output"} # {} /\ Succeed(r, "runner", j)
         \/ Failed(r)
  BY DEF BuildRunner, At
<1>2. CASE Failed(r)
  BY <1>1, <1>2, FailedFields, OneRunMoves
<1>3. CASE j.tree \cap {"bpftool-output", "selftests-output"} # {} /\ Succeed(r, "runner", j)
  <2>1. j \in JobType /\ TreeOK(j) /\ ProgressOK(j)
    BY DEF JobsInv
  <2>2. j.hit \in BOOLEAN
    BY <2>1 DEF JobType
  <2>. HIDE DEF j
  <2>3. CachedPaths \subseteq j.tree
    BY <2>1, <1>1, <1>3 DEF TreeOK, Built, CachedPaths
  <2>4. Following("runner", j.hit) = "clang" /\ "runner" \in StepName /\ "clang" \in StepName
    BY <2>2, FollowingTable, StepNames
  <2>5. ASSUME NEW k \in JobType, k.at = "clang", k.passed = j.passed \cup {"runner"},
               k.ok = j.ok, k.pin = j.pin, k.hit = j.hit, k.tree = j.tree,
               k.treePin = j.treePin, k.next = j.next, k.fail = j.fail, k.dirty = j.dirty
        PROVE  TreeOK(k) /\ ProgressOK(k)
    BY <2>5, <2>1, <2>3, <1>1
    DEF TreeOK, ProgressOK, Ends, Built, AfterRunner, BeforeFuzz, Required
  <2>. QED
    BY <2>1, <2>4, <2>5, <1>1, <1>3, SucceedKeeps
<1>. QED
  BY <1>1, <1>2, <1>3

LEMMA FuzzExitKeeps ==
  ASSUME JobsInv, NEW r \in Ref, FuzzExit(r)
  PROVE  JobsInv'
<1>. DEFINE j == job[r]
<1>1. /\ j.at = "fuzz" /\ j.next \notin Harness /\ UNCHANGED <<head, pushes, waiting, cache>>
      /\ \/ j.fail # TRUE /\ Succeed(r, "fuzz", j)
         \/ Failed(r)
  BY DEF FuzzExit, At
<1>2. CASE Failed(r)
  BY <1>1, <1>2, FailedFields, OneRunMoves
<1>3. CASE j.fail # TRUE /\ Succeed(r, "fuzz", j)
  <2>1. j \in JobType /\ TreeOK(j) /\ ProgressOK(j)
    BY DEF JobsInv
  <2>2. j.hit \in BOOLEAN /\ j.fail \in BOOLEAN /\ j.next \in 1 .. Cardinality(Harness) + 1
    BY <2>1 DEF JobType
  <2>. HIDE DEF j
  <2>3. j.next = Cardinality(Harness) + 1
    BY <2>2, <1>1, HarnessCount
  <2>4. j.fail = FALSE
    BY <2>2, <1>3, Zenon
  <2>5. Following("fuzz", j.hit) = "diff" /\ "fuzz" \in StepName /\ "diff" \in StepName
    BY <2>2, FollowingTable, StepNames
  <2>6. ASSUME NEW k \in JobType, k.at = "diff", k.passed = j.passed \cup {"fuzz"},
               k.ok = j.ok, k.pin = j.pin, k.hit = j.hit, k.tree = j.tree,
               k.treePin = j.treePin, k.next = j.next, k.fail = j.fail, k.dirty = j.dirty
        PROVE  TreeOK(k) /\ ProgressOK(k)
    BY <2>6, <2>1, <2>3, <2>4, <1>1
    DEF TreeOK, ProgressOK, Ends, Built, AfterRunner, BeforeFuzz, Required
  <2>. QED
    BY <2>1, <2>5, <2>6, <1>1, <1>3, SucceedKeeps
<1>. QED
  BY <1>1, <1>2, <1>3

LEMMA FuzzHarnessKeeps ==
  ASSUME JobsInv, NEW r \in Ref, NEW clean \in BOOLEAN, FuzzHarness(r, clean)
  PROVE  JobsInv'
<1>. DEFINE j == job[r]
            f == HarnessFail(r, clean)
            d == IF clean THEN j.dirty ELSE j.dirty \cup {j.next}
            k == [j EXCEPT !.next = @ + 1, !.fail = f, !.dirty = d]
<1>1. job \in [Ref -> JobType] /\ j \in JobType /\ TreeOK(j) /\ ProgressOK(j)
  BY DEF JobsInv
<1>2. /\ j.at = "fuzz" /\ j.next \in Harness /\ UNCHANGED <<head, pushes, waiting, cache>>
      /\ job' = [job EXCEPT ![r] = k]
  BY <1>1 DEF FuzzHarness, At, JobType
<1>3. j.fail \in BOOLEAN /\ j.dirty \subseteq Harness /\ j.next + 1 \in 1 .. Cardinality(Harness) + 1
  BY <1>1, <1>2, HarnessCount DEF JobType
<1>4. f \in BOOLEAN /\ (f = FALSE => j.fail = FALSE /\ clean = TRUE)
  BY <1>3 DEF HarnessFail
<1>5. d \subseteq Harness /\ (clean = TRUE => d = j.dirty)
  BY <1>2, <1>3
<1>. HIDE DEF f, d
<1>6. /\ k \in JobType /\ k.at = "fuzz" /\ k.passed = j.passed /\ k.ok = j.ok /\ k.pin = j.pin
      /\ k.hit = j.hit /\ k.tree = j.tree /\ k.treePin = j.treePin /\ k.fail = f /\ k.dirty = d
  BY <1>1, <1>2, <1>3, <1>4, <1>5 DEF JobType
<1>. HIDE DEF k, j
<1>7. TreeOK(k)
  BY <1>1, <1>2, <1>6 DEF TreeOK, Ends, Built
<1>8. ProgressOK(k)
  BY <1>1, <1>2, <1>4, <1>5, <1>6 DEF ProgressOK, Ends, Built, AfterRunner, BeforeFuzz, Required
<1>9. job' \in [Ref -> JobType] /\ job'[r] = k /\ \A q \in Ref : q # r => job'[q] = job[q]
  BY <1>1, <1>2, <1>6
<1>. QED
  BY <1>2, <1>7, <1>8, <1>9, OneRunMoves

LEMMA ReportKeeps ==
  ASSUME JobsInv, NEW r \in Ref, NEW there \in BOOLEAN, NEW ok0 \in BOOLEAN, Report(r, there, ok0)
  PROVE  JobsInv'
<1>. DEFINE j == job[r]
            k == [j EXCEPT !.at = "uploads", !.ok = @ /\ there /\ ok0, !.reported = there]
<1>1. job \in [Ref -> JobType] /\ j \in JobType /\ TreeOK(j) /\ ProgressOK(j)
  BY DEF JobsInv
<1>2. /\ j.at = "report" /\ UNCHANGED <<head, pushes, waiting, cache>>
      /\ job' = [job EXCEPT ![r] = k]
  BY <1>1 DEF Report, At, JobType
<1>3. j.ok \in BOOLEAN /\ "uploads" \in Places
  BY <1>1, StepNames DEF JobType, Places
<1>4. /\ k \in JobType /\ k.at = "uploads" /\ k.passed = j.passed /\ k.pin = j.pin
      /\ k.hit = j.hit /\ k.tree = j.tree /\ k.treePin = j.treePin /\ k.fail = j.fail
      /\ k.dirty = j.dirty /\ k.next = j.next /\ (k.ok = TRUE => j.ok = TRUE)
  BY <1>1, <1>3 DEF JobType
<1>. HIDE DEF k, j
<1>5. TreeOK(k)
  BY <1>1, <1>2, <1>4 DEF TreeOK, Ends, Built
<1>6. ProgressOK(k)
  BY <1>1, <1>2, <1>4 DEF ProgressOK, Ends, Built, AfterRunner, BeforeFuzz, Required
<1>7. job' \in [Ref -> JobType] /\ job'[r] = k /\ \A q \in Ref : q # r => job'[q] = job[q]
  BY <1>1, <1>2, <1>4
<1>. QED
  BY <1>2, <1>5, <1>6, <1>7, OneRunMoves

LEMMA UploadKeeps ==
  ASSUME JobsInv, NEW r \in Ref, NEW sent \in BOOLEAN, Upload(r, sent)
  PROVE  JobsInv'
<1>. DEFINE j == job[r]
            k == [j EXCEPT !.at = "post", !.ok = @ /\ sent]
<1>1. job \in [Ref -> JobType] /\ j \in JobType /\ TreeOK(j) /\ ProgressOK(j)
  BY DEF JobsInv
<1>2. /\ j.at = "uploads" /\ UNCHANGED <<head, pushes, waiting, cache>>
      /\ job' = [job EXCEPT ![r] = k]
  BY <1>1 DEF Upload, At, JobType
<1>3. j.ok \in BOOLEAN /\ "post" \in Places
  BY <1>1 DEF JobType, Places
<1>4. /\ k \in JobType /\ k.at = "post" /\ k.passed = j.passed /\ k.pin = j.pin
      /\ k.hit = j.hit /\ k.tree = j.tree /\ k.treePin = j.treePin /\ k.fail = j.fail
      /\ k.dirty = j.dirty /\ k.next = j.next /\ (k.ok = TRUE => j.ok = TRUE)
  BY <1>1, <1>3 DEF JobType
<1>. HIDE DEF k, j
<1>5. TreeOK(k)
  BY <1>1, <1>2, <1>4 DEF TreeOK, Ends, Built
<1>6. ProgressOK(k)
  BY <1>1, <1>2, <1>4 DEF ProgressOK, Ends, Built, AfterRunner, BeforeFuzz, Required
<1>7. job' \in [Ref -> JobType] /\ job'[r] = k /\ \A q \in Ref : q # r => job'[q] = job[q]
  BY <1>1, <1>2, <1>4
<1>. QED
  BY <1>2, <1>5, <1>6, <1>7, OneRunMoves

LEMMA IdleFields ==
  /\ Idle \in JobType /\ Idle.at = "done" /\ Idle.ok = FALSE /\ Idle.hit = FALSE
  /\ Idle.passed = {} /\ Idle.tree = {} /\ Idle.next = 1 /\ Idle.dirty = {} /\ Idle.fail = FALSE
<1>1. "done" \in Places
  BY DEF Places
<1>. QED
  BY <1>1, HarnessCount DEF Idle, JobType

LEMMA StartKeeps ==
  ASSUME JobsInv, NEW r \in Ref, Start(r)
  PROVE  JobsInv'
<1>. DEFINE k == [Idle EXCEPT !.at = "checkout", !.ok = TRUE, !.reported = FALSE]
<1>1. /\ waiting' = waiting \ {r} /\ UNCHANGED <<head, pushes, cache>>
      /\ job' = [job EXCEPT ![r] = k]
  BY DEF Start
<1>2. "checkout" \in Places
  BY StepNames DEF Places
<1>3. /\ k \in JobType /\ k.at = "checkout" /\ k.passed = {} /\ k.hit = FALSE /\ k.tree = {}
      /\ k.ok = TRUE /\ k.next = 1 /\ k.dirty = {} /\ k.fail = FALSE
  BY <1>2, IdleFields DEF JobType
<1>. HIDE DEF k
<1>4. TreeOK(k) /\ ProgressOK(k)
  BY <1>3 DEF TreeOK, ProgressOK, Ends, Built, AfterRunner, BeforeFuzz, Required
<1>5. \A q \in Ref : TreeOK(job'[q]) /\ ProgressOK(job'[q])
  BY <1>1, <1>4 DEF JobsInv
<1>6. CacheOK'
  BY <1>1 DEF JobsInv, CacheOK
<1>. QED
  BY <1>1, <1>3, <1>5, <1>6 DEF JobsInv

LEMMA CancelledFields ==
  ASSUME JobsInv, NEW r \in Ref, Cancelled(r)
  PROVE  /\ job' \in [Ref -> JobType] /\ \A q \in Ref : q # r => job'[q] = job[q]
         /\ TreeOK(job'[r]) /\ ProgressOK(job'[r])
<1>. DEFINE j == job[r]
            k == [j EXCEPT !.ok = FALSE]
<1>1. job \in [Ref -> JobType] /\ j \in JobType /\ TreeOK(j) /\ ProgressOK(j)
  BY DEF JobsInv
<1>2. CASE Failed(r)
  BY <1>2, FailedFields
<1>3. CASE j.at \in Always /\ job' = [job EXCEPT ![r] = k]
  <2>1. k \in JobType
    BY <1>1, Zenon DEF JobType
  <2>2. /\ k.at = j.at /\ k.passed = j.passed /\ k.ok = FALSE /\ k.pin = j.pin /\ k.hit = j.hit
        /\ k.tree = j.tree /\ k.treePin = j.treePin
    BY <1>1 DEF JobType
  <2>. HIDE DEF k, j
  <2>3. TreeOK(k) /\ ProgressOK(k)
    BY <2>2, <1>1, <1>3 DEF TreeOK, ProgressOK, Ends, Built, AfterRunner, BeforeFuzz, Always
  <2>. QED
    BY <2>1, <2>3, <1>1, <1>3
<1>. QED
  BY <1>1, <1>2, <1>3 DEF Cancelled

LEMMA JobLimitKeeps ==
  ASSUME JobsInv, NEW r \in Ref, JobLimit(r)
  PROVE  JobsInv'
<1>1. Cancelled(r) /\ UNCHANGED <<head, pushes, waiting, cache>>
  BY DEF JobLimit
<1>. QED
  BY <1>1, CancelledFields, OneRunMoves

LEMMA PushKeeps ==
  ASSUME JobsInv, NEW r \in Ref, NEW p \in Pin, Push(r, p)
  PROVE  JobsInv'
<1>1. /\ pushes < MaxPushes /\ pushes' = pushes + 1 /\ head' = [head EXCEPT ![r] = p]
      /\ waiting' = waiting \cup {r} /\ cache' = cache
      /\ job' = job \/ Cancelled(r)
  BY DEF Push
<1>2. /\ job' \in [Ref -> JobType] /\ \A q \in Ref : TreeOK(job'[q]) /\ ProgressOK(job'[q])
  <2>1. CASE job' = job
    BY <2>1 DEF JobsInv
  <2>2. CASE Cancelled(r)
    <3>1. /\ job' \in [Ref -> JobType] /\ \A q \in Ref : q # r => job'[q] = job[q]
          /\ TreeOK(job'[r]) /\ ProgressOK(job'[r])
      BY <2>2, CancelledFields
    <3>. QED
      BY <3>1 DEF JobsInv
  <2>. QED
    BY <1>1, <2>1, <2>2
<1>3. CacheOK'
  BY <1>1 DEF JobsInv, CacheOK
<1>4. pushes' \in 0 .. MaxPushes
  BY <1>1, CiAssumption DEF JobsInv
<1>. QED
  BY <1>1, <1>2, <1>3, <1>4 DEF JobsInv

LEMMA PostKeeps ==
  ASSUME JobsInv, NEW r \in Ref, Post(r)
  PROVE  JobsInv'
<1>. DEFINE j == job[r]
            k == [j EXCEPT !.at = "done"]
            e == [pin |-> j.treePin, paths |-> j.tree \cap CachedPaths]
<1>1. job \in [Ref -> JobType] /\ j \in JobType /\ TreeOK(j) /\ ProgressOK(j) /\ cache \in CacheType
  BY DEF JobsInv
<1>2. /\ j.at = "post" /\ UNCHANGED <<head, pushes, waiting>>
      /\ job' = [job EXCEPT ![r] = k]
      /\ \/ cache' = cache
         \/ j.ok = TRUE /\ cache' = [cache EXCEPT ![j.pin] = e]
  <2>1. j.ok \in BOOLEAN
    BY <1>1 DEF JobType
  <2>. QED
    BY <1>1, <2>1 DEF Post, At, JobType, MaySave, Key
<1>3. "done" \in Places
  BY DEF Places
<1>4. /\ k \in JobType /\ k.at = "done" /\ k.passed = j.passed /\ k.pin = j.pin
      /\ k.hit = j.hit /\ k.tree = j.tree /\ k.treePin = j.treePin /\ k.fail = j.fail
      /\ k.dirty = j.dirty /\ k.next = j.next /\ k.ok = j.ok
  BY <1>1, <1>3 DEF JobType
<1>a. e.pin = j.treePin /\ e.paths = j.tree \cap CachedPaths
      /\ e \in [pin : Pin \cup {"none"}, paths : SUBSET CachedPaths]
  BY <1>1 DEF JobType
<1>. HIDE DEF k, j, e
<1>5. TreeOK(k)
  BY <1>1, <1>2, <1>4 DEF TreeOK, Ends, Built
<1>6. ProgressOK(k)
  BY <1>1, <1>2, <1>4 DEF ProgressOK, Ends, Built, AfterRunner, BeforeFuzz, Required
<1>7. job' \in [Ref -> JobType] /\ job'[r] = k /\ \A q \in Ref : q # r => job'[q] = job[q]
  BY <1>1, <1>2, <1>4
<1>8. cache' \in CacheType /\ CacheOK'
  <2>1. CASE cache' = cache
    BY <2>1, <1>1 DEF JobsInv, CacheOK
  <2>2. CASE j.ok = TRUE /\ cache' = [cache EXCEPT ![j.pin] = e]
    <3>1. "runner" \in j.passed
      BY <1>1, <1>2, <2>2 DEF ProgressOK, Ends, Required
    <3>2. j.pin \in Pin /\ j.treePin = j.pin /\ CachedPaths \subseteq j.tree
      BY <1>1, <3>1 DEF TreeOK
    <3>3. cache' \in CacheType
      BY <2>2, <1>1, <1>a DEF CacheType
    <3>4. ASSUME NEW q \in Pin, cache'[q] # NoEntry
          PROVE  cache'[q].pin = q /\ CachedPaths \subseteq cache'[q].paths
      <4>1. CASE q = j.pin
        BY <4>1, <2>2, <3>2, <1>1, <1>a DEF CacheType
      <4>2. CASE q # j.pin
        BY <4>2, <3>4, <2>2, <3>2, <1>1 DEF CacheType, JobsInv, CacheOK
      <4>. QED
        BY <4>1, <4>2
    <3>. QED
      BY <3>3, <3>4 DEF CacheOK
  <2>. QED
    BY <1>2, <2>1, <2>2
<1>9. \A q \in Ref : TreeOK(job'[q]) /\ ProgressOK(job'[q])
  BY <1>5, <1>6, <1>7 DEF JobsInv
<1>. QED
  BY <1>2, <1>7, <1>8, <1>9 DEF JobsInv

LEMMA JobsStepKeeps ==
  ASSUME JobsInv, Next
  PROVE  JobsInv'
<1>1. PICK r \in Ref : WorkStep(r) \/ ServerStep(r) \/ \E p \in Pin : Push(r, p)
  BY DEF Next
<1>2. CASE \E p \in Pin : Push(r, p)
  BY <1>2, PushKeeps
<1>3. CASE WorkStep(r)
  <2>1. CASE RestoreCache(r) \/ BuildRunner(r) \/ FuzzExit(r)
    BY <2>1, RestoreKeeps, RunnerKeeps, FuzzExitKeeps
  <2>2. CASE \E made \in BuildResult : Build(r, made)
    BY <2>2, BuildKeeps
  <2>3. ASSUME NEW b \in BOOLEAN,
               \/ Checkout(r, b) \/ PinKernel(r, b) \/ FuzzHarness(r, b)
               \/ \E s \in Plain : PlainStep(r, s, b)
        PROVE  JobsInv'
    BY <2>3, CheckoutKeeps, PinKeeps, FuzzHarnessKeeps, PlainKeeps
  <2>. QED
    BY <1>3, <2>1, <2>2, <2>3 DEF WorkStep
<1>4. CASE ServerStep(r)
  <2>1. CASE Start(r) \/ JobLimit(r) \/ Post(r)
    BY <2>1, StartKeeps, JobLimitKeeps, PostKeeps
  <2>2. ASSUME NEW b \in BOOLEAN, Upload(r, b) \/ \E there \in BOOLEAN : Report(r, there, b)
        PROVE  JobsInv'
    BY <2>2, UploadKeeps, ReportKeeps
  <2>. QED
    BY <1>4, <2>1, <2>2 DEF ServerStep
<1>. QED
  BY <1>1, <1>2, <1>3, <1>4

LEMMA JobsInitially ==
  ASSUME Init
  PROVE  JobsInv
<1>1. TreeOK(Idle) /\ ProgressOK(Idle)
  BY IdleFields DEF TreeOK, ProgressOK, Ends, Built, AfterRunner, BeforeFuzz
<1>2. job = [r \in Ref |-> Idle] /\ cache = [k \in Pin |-> NoEntry]
  BY DEF Init
<1>3. job \in [Ref -> JobType] /\ \A r \in Ref : TreeOK(job[r]) /\ ProgressOK(job[r])
  BY <1>1, <1>2, IdleFields
<1>4. NoEntry \in [pin : Pin \cup {"none"}, paths : SUBSET CachedPaths]
  BY DEF NoEntry
<1>5. cache \in CacheType /\ CacheOK
  BY <1>2, <1>4 DEF CacheType, CacheOK
<1>6. head \in [Ref -> Pin] /\ pushes \in 0 .. MaxPushes /\ waiting \subseteq Ref
  BY CiAssumption DEF Init
<1>. QED
  BY <1>3, <1>5, <1>6 DEF JobsInv

\* The invariant says what JobsSound asks.
LEMMA JobsInvSound ==
  ASSUME JobsInv
  PROVE  JobsSound
<1>1. TypeOK
  <2>1. \A k \in Pin : cache[k].pin \in Pin \cup {"none"} /\ cache[k].paths \subseteq CachedPaths
    BY DEF JobsInv, CacheType
  <2>2. ASSUME NEW r \in Ref
        PROVE  /\ job[r].at \in StepName \cup {"post", "done"}
               /\ {job[r].ok, job[r].hit, job[r].fail, job[r].reported} \subseteq BOOLEAN
               /\ {job[r].pin, job[r].treePin} \subseteq Pin \cup {"none"}
               /\ job[r].tree \subseteq Artifact /\ job[r].passed \subseteq StepName
               /\ job[r].next \in 1..(Cardinality(Harness) + 1) /\ job[r].dirty \subseteq Harness
    <3>1. job[r] \in JobType
      BY DEF JobsInv
    <3>. QED
      BY <3>1 DEF JobType, Places
  <2>. QED
    BY <2>1, <2>2 DEF JobsInv, TypeOK
<1>2. PinnedKernelUsed
  BY DEF JobsInv, TreeOK, PinnedKernelUsed
<1>3. HitCanBuildRunner
  <2>1. \A r \in Ref : job[r].hit = TRUE => CachedPaths \subseteq job[r].tree
    BY DEF JobsInv, TreeOK
  <2>2. \A r \in Ref : job[r].hit \in BOOLEAN
    BY DEF JobsInv, JobType
  <2>. QED
    BY <2>1, <2>2 DEF HitCanBuildRunner, CachedPaths
<1>4. GreenMeansAll
  <2>1. \A r \in Ref : job[r].ok \in BOOLEAN
    BY DEF JobsInv, JobType
  <2>. QED
    BY <2>1 DEF JobsInv, ProgressOK, GreenMeansAll, At, Ends, Required
<1>. QED
  BY <1>1, <1>2, <1>3, <1>4 DEF JobsSound

(* bpf-verify.yml, for every set of refs, pins and harnesses: a job uses the     *)
(* kernel its checkout pins, a cache hit can build the runner, and a green job   *)
(* has every required step and every harness behind it, whichever jobs, pushes   *)
(* and cancellations came before it.                                             *)
THEOREM JobsAreSound == PartsSpec => []JobsSound
<1>1. PartsInit => JobsInv
  BY JobsInitially DEF PartsInit
<1>2. JobsInv /\ [PartsNext]_allVars => JobsInv'
  <2>. SUFFICES ASSUME JobsInv, [PartsNext]_allVars PROVE JobsInv'
    OBVIOUS
  <2>1. CASE Next
    BY <2>1, JobsStepKeeps
  <2>2. CASE UNCHANGED vars
    BY <2>2 DEF vars, JobsInv, CacheOK, CacheType
  <2>. QED
    BY <2>1, <2>2 DEF PartsNext, allVars
<1>3. JobsInv => JobsSound
  BY JobsInvSound
<1>. QED
  BY <1>1, <1>2, <1>3, PTL DEF PartsSpec
-----------------------------------------------------------------------------
(* The differential leg *)

\* diff_all.sh has settled the targets before dpos. A disk that still has room had
\* room for every word written so far.
DiffInv ==
  /\ dpos \in 1 .. Len(Kit) + 1 /\ disk \in Nat /\ natLen \in Nat /\ bpfLen \in Nat
  /\ stage \in {"start", "native", "run", "emit", "compare"}
  /\ diverge \in [Diff!Directory -> 0 .. Iters] /\ compared \in [Diff!Directory -> Nat]
  /\ passed \cap failed = {}
  /\ passed \cup failed = {t \in Diff!Target : t < dpos}
  /\ dpos \in Diff!Directory /\ stage # "start" => dpos \in Diff!Target
  /\ disk > 0 => /\ stage \in {"emit", "compare"} => natLen = Iters
                 /\ stage = "compare" => bpfLen = Iters
  /\ Diff!PassedAgree

LEMMA KitFacts ==
  /\ Diff!Directory = 1 .. Len(Kit) /\ Len(Kit) \in Nat /\ Iters \in Nat \ {0}
  /\ MaxDisk \in Nat
<1>1. Diff!DiffAssumption
  BY PartsAssumption
<1>2. Kit \in Seq({"complete", "no flags", "no compute.h"}) /\ Iters \in Nat \ {0} /\ MaxDisk \in Nat
  BY <1>1 DEF Diff!DiffAssumption
<1>3. ASSUME NEW S, Kit \in Seq(S) PROVE DOMAIN Kit = 1 .. Len(Kit) /\ Len(Kit) \in Nat
  BY <1>3
<1>. QED
  BY <1>2, <1>3 DEF Diff!Directory

\* diff.sh has ended for directory dpos, with a verdict if it is a target.
LEMMA AdvanceKeeps ==
  ASSUME DiffInv, dpos \in Diff!Directory, Diff!Advance, disk' \in Nat, disk' <= disk,
         diverge' = diverge, NEW words \in Nat,
         compared' = compared \/ compared' = [compared EXCEPT ![dpos] = words],
         \/ passed' = passed /\ failed' = failed /\ dpos \notin Diff!Target
         \/ passed' = passed /\ failed' = failed \cup {dpos} /\ dpos \in Diff!Target
         \/ /\ passed' = passed \cup {dpos} /\ failed' = failed /\ dpos \in Diff!Target
            /\ compared' = [compared EXCEPT ![dpos] = words]
            /\ diverge[dpos] >= words /\ (words < Iters => disk' = 0)
  PROVE  DiffInv'
<1>. USE KitFacts
<1>1. /\ dpos' = dpos + 1 /\ stage' = "start" /\ natLen' = 0 /\ bpfLen' = 0
  BY DEF Diff!Advance
<1>2. dpos' \in 1 .. Len(Kit) + 1
  BY <1>1
<1>3. {t \in Diff!Target : t < dpos'} = {t \in Diff!Target : t < dpos} \cup ({dpos} \cap Diff!Target)
  <2>1. \A t \in Diff!Target : t < dpos + 1 <=> t < dpos \/ t = dpos
    <3>1. Diff!Target \subseteq 1 .. Len(Kit) /\ dpos \in 1 .. Len(Kit)
      BY DEF Diff!Target
    <3>. QED
      BY <3>1
  <2>. QED
    BY <1>1, <2>1
<1>4. dpos \notin passed \cup failed
  BY DEF DiffInv
<1>5. passed' \cap failed' = {} /\ passed' \cup failed' = {t \in Diff!Target : t < dpos'}
  BY <1>3, <1>4 DEF DiffInv
<1>6. compared' \in [Diff!Directory -> Nat]
  BY DEF DiffInv
<1>7. Diff!PassedAgree'
  <2>. SUFFICES ASSUME NEW t \in passed'
                PROVE  diverge[t] >= compared'[t] /\ (compared'[t] < Iters => disk' = 0)
    BY DEF Diff!PassedAgree
  <2>1. CASE t \in passed
    <3>a. t \in Diff!Directory /\ t # dpos
      BY <2>1, <1>4 DEF DiffInv, Diff!Target
    <3>1. compared'[t] = compared[t]
      BY <3>a DEF DiffInv
    <3>2. diverge[t] >= compared[t] /\ (compared[t] < Iters => disk = 0)
      BY <2>1 DEF DiffInv, Diff!PassedAgree
    <3>3. disk = 0 => disk' = 0
      BY DEF DiffInv
    <3>. QED
      BY <3>1, <3>2, <3>3
  <2>2. CASE t \notin passed
    <3>1. /\ t = dpos /\ diverge[dpos] >= words /\ (words < Iters => disk' = 0)
          /\ compared' = [compared EXCEPT ![dpos] = words]
      BY <2>2
    <3>2. compared'[t] = words
      BY <3>1 DEF DiffInv
    <3>. QED
      BY <3>1, <3>2
  <2>. QED
    BY <2>1, <2>2
<1>. QED
  BY <1>1, <1>2, <1>5, <1>6, <1>7 DEF DiffInv

LEMMA DiffStepKeeps ==
  ASSUME DiffInv, Diff!DiffNext
  PROVE  DiffInv'
<1>. USE KitFacts
<1>1. ASSUME dpos \in Diff!Directory, dpos \in Diff!Target, Diff!Fail, disk' \in Nat, disk' <= disk,
             NEW words \in Nat, compared' = compared \/ compared' = [compared EXCEPT ![dpos] = words]
      PROVE  DiffInv'
  BY <1>1, AdvanceKeeps DEF Diff!Fail
<1>2. dpos \in Diff!Directory => (dpos \in Diff!Target <=> Kit[dpos] # "no compute.h")
  BY DEF Diff!Target
<1>3. disk \in Nat /\ disk <= disk /\ 0 \in Nat
  BY DEF DiffInv
<1>4. CASE Diff!SkipDirectory
  BY <1>4, <1>2, <1>3, AdvanceKeeps DEF Diff!SkipDirectory, Diff!At
<1>5. CASE Diff!NoFlags
  BY <1>5, <1>1, <1>2, <1>3 DEF Diff!NoFlags, Diff!At
<1>6. ASSUME NEW s, dpos \in Diff!Directory, dpos \in Diff!Target, s \in {"native", "run"},
             Diff!GoTo(s), disk > 0, disk' = disk - 1, UNCHANGED <<natLen, bpfLen>>
      PROVE  DiffInv'
  BY <1>6 DEF DiffInv, Diff!GoTo, Diff!PassedAgree
<1>7. ASSUME NEW b \in BOOLEAN, Diff!BuildBpf(b)
      PROVE  DiffInv'
  BY <1>7, <1>1, <1>2, <1>3, <1>6 DEF Diff!BuildBpf, Diff!At
<1>8. ASSUME NEW b \in BOOLEAN, Diff!BuildNative(b)
      PROVE  DiffInv'
  <2>1. dpos \in Diff!Directory /\ stage = "native" /\ dpos \in Diff!Target
    BY <1>8 DEF Diff!BuildNative, Diff!At, DiffInv
  <2>. QED
    BY <2>1, <1>8, <1>1, <1>3, <1>6 DEF Diff!BuildNative
<1>9. ASSUME NEW done \in 0 .. Iters, Diff!RunNative(done)
      PROVE  DiffInv'
  <2>1. dpos \in Diff!Directory /\ stage = "run" /\ dpos \in Diff!Target
    BY <1>9 DEF Diff!RunNative, Diff!At, DiffInv
  <2>2. CASE done < Iters
    <3>1. Diff!Fail /\ disk' \in Nat /\ disk' <= disk /\ compared' = compared
      BY <2>2, <1>9, <1>3 DEF Diff!RunNative, Diff!Least
    <3>. QED
      BY <3>1, <2>1, <1>1, <1>3
  <2>3. CASE ~ (done < Iters)
    <3>1. /\ natLen' = IF Iters < disk THEN Iters ELSE disk
          /\ disk' = disk - natLen' /\ bpfLen' = bpfLen /\ stage' = "emit"
          /\ UNCHANGED <<dpos, diverge, compared, passed, failed>>
      BY <2>3, <1>9 DEF Diff!RunNative, Diff!GoTo, Diff!Least
    <3>2. natLen' \in Nat /\ disk' \in Nat /\ disk' <= disk /\ (disk' > 0 => natLen' = Iters /\ disk > 0)
      BY <3>1 DEF DiffInv
    <3>. QED
      BY <2>1, <3>1, <3>2 DEF DiffInv, Diff!PassedAgree
  <2>. QED
    BY <2>2, <2>3
<1>10. ASSUME NEW done \in 0 .. Iters, Diff!Emit(done)
       PROVE  DiffInv'
  <2>1. dpos \in Diff!Directory /\ stage = "emit" /\ dpos \in Diff!Target
    BY <1>10 DEF Diff!Emit, Diff!At, DiffInv
  <2>2. CASE done < Iters
    <3>1. Diff!Fail /\ disk' \in Nat /\ disk' <= disk /\ compared' = compared
      BY <2>2, <1>10, <1>3 DEF Diff!Emit, Diff!Least
    <3>. QED
      BY <3>1, <2>1, <1>1, <1>3
  <2>3. CASE ~ (done < Iters)
    <3>1. /\ bpfLen' = IF Iters < disk THEN Iters ELSE disk
          /\ disk' = disk - bpfLen' /\ natLen' = natLen /\ stage' = "compare"
          /\ UNCHANGED <<dpos, diverge, compared, passed, failed>>
      BY <2>3, <1>10 DEF Diff!Emit, Diff!GoTo, Diff!Least
    <3>2. bpfLen' \in Nat /\ disk' \in Nat /\ disk' <= disk /\ (disk' > 0 => bpfLen' = Iters /\ disk > 0)
      BY <3>1 DEF DiffInv
    <3>. QED
      BY <2>1, <3>1, <3>2 DEF DiffInv, Diff!PassedAgree
  <2>. QED
    BY <2>2, <2>3
<1>11. CASE Diff!Compare
  <2>1. /\ dpos \in Diff!Directory /\ stage = "compare" /\ dpos \in Diff!Target /\ disk' = disk
        /\ compared' = [compared EXCEPT ![dpos] = Diff!Compared]
    BY <1>11 DEF Diff!Compare, Diff!At, DiffInv
  <2>2. Diff!Compared \in Nat /\ (Diff!Compared < Iters => disk = 0)
    BY <2>1 DEF DiffInv, Diff!Compared, Diff!Least
  <2>3. CASE Diff!Agree
    <3>1. passed' = passed \cup {dpos} /\ Diff!Advance /\ diverge' = diverge /\ failed' = failed
      BY <1>11, <2>3 DEF Diff!Compare
    <3>2. diverge[dpos] >= Diff!Compared
      BY <2>3 DEF Diff!Agree
    <3>. QED
      BY <2>1, <2>2, <3>1, <3>2, <1>3, AdvanceKeeps
  <2>4. CASE ~ Diff!Agree
    BY <2>1, <2>2, <2>4, <1>11, <1>1, <1>3 DEF Diff!Compare
  <2>. QED
    BY <2>3, <2>4
<1>. QED
  BY <1>4, <1>5, <1>7, <1>8, <1>9, <1>10, <1>11 DEF Diff!DiffNext

(* diff_all.sh, for every list of directories, iteration count and disk: at the  *)
(* end every target is in exactly one list, and a target that passed has builds  *)
(* that agree on every iteration compared, all that were asked for unless the    *)
(* disk is full.                                                                 *)
THEOREM LegIsSound == PartsSpec => []LegSound
<1>1. PartsInit => DiffInv
  <2>. SUFFICES ASSUME PartsInit PROVE DiffInv
    OBVIOUS
  <2>1. /\ dpos = 1 /\ stage = "start" /\ disk \in Nat /\ natLen = 0 /\ bpfLen = 0
        /\ diverge \in [Diff!Directory -> 0 .. Iters] /\ compared \in [Diff!Directory -> Nat]
        /\ passed = {} /\ failed = {}
    BY KitFacts DEF PartsInit, Diff!DiffInit, DiffRests, Diff!Directory
  <2>2. {t \in Diff!Target : t < 1} = {}
    <3>1. Diff!Target \subseteq 1 .. Len(Kit)
      BY KitFacts DEF Diff!Target
    <3>2. \A t \in Diff!Target : ~ (t < 1)
      BY <3>1, KitFacts
    <3>. QED
      BY <3>2
  <2>. QED
    BY <2>1, <2>2, KitFacts DEF DiffInv, Diff!PassedAgree
<1>2. DiffInv /\ [PartsNext]_allVars => DiffInv'
  <2>. SUFFICES ASSUME DiffInv, [PartsNext]_allVars PROVE DiffInv'
    OBVIOUS
  <2>1. CASE Diff!DiffNext
    BY <2>1, DiffStepKeeps
  <2>2. CASE UNCHANGED diffVars
    BY <2>2 DEF diffVars, DiffInv, Diff!PassedAgree
  <2>. QED
    BY <2>1, <2>2 DEF PartsNext, allVars
<1>3. DiffInv => LegSound
  <2>. SUFFICES ASSUME DiffInv PROVE Diff!EveryTargetTried /\ Diff!PassedAgree
    BY DEF LegSound
  <2>1. Diff!EveryTargetTried
    <3>1. Diff!Target \subseteq 1 .. Len(Kit)
      BY KitFacts DEF Diff!Target
    <3>2. ASSUME Diff!DiffDone PROVE {t \in Diff!Target : t < dpos} = Diff!Target
      <4>1. dpos = Len(Kit) + 1
        BY <3>2, KitFacts DEF Diff!DiffDone, DiffInv
      <4>2. \A t \in Diff!Target : t < dpos
        BY <4>1, <3>1, KitFacts
      <4>. QED
        BY <4>2
    <3>. QED
      BY <3>2 DEF DiffInv, Diff!EveryTargetTried
  <2>2. Diff!PassedAgree
    BY DEF DiffInv
  <2>. QED
    BY <2>1, <2>2
<1>. QED
  BY <1>1, <1>2, <1>3, PTL DEF PartsSpec
-----------------------------------------------------------------------------
(* setup.sh *)

\* The steps from uml-veristat on, and those that follow the kernel tree.
Late == {"uml", "build", "runner", "link", "complete"}
WithTree == {"headers", "write"} \cup Late
Running == {"submodules", "clang", "apt-get", "kernel", "extract", "clone"} \cup WithTree

SetupType ==
  /\ modules \in BOOLEAN /\ module \in BOOLEAN
  /\ step \in {"stopped"} \cup Running
  /\ clang \in {"none", "partial", "whole"}
  /\ ksrc \in {"none", "early", "late", "pinned", "tip"}
  /\ uml \in {"none", "partial", "linux", "built"}
  /\ headers \in Seq({"partial", "whole"}) /\ before.headers \in Seq({"partial", "whole"})

\* What is on the machine is whole, or the run found it cut short; a run may be at
\* the piece that is not.
ClangInv ==
  /\ step \in Running /\ clang = "partial" => step = "apt-get" \/ before.clang = "partial"
  /\ step \in Running \ {"submodules", "clang"} => clang # "none"
  /\ step = "apt-get" => clang = "partial"

TreeInv ==
  /\ step \in WithTree /\ ksrc = "late" => before.ksrc = "late"
  /\ step \in {"submodules", "clang", "apt-get", "kernel"} => ksrc = before.ksrc
  /\ step \in {"extract", "clone"} => ksrc \in {"none", "early", "late"}
  /\ step \in WithTree => Script!KernelPresent

HeadersInv ==
  /\ Len(headers) <= Script!NHeaders
  /\ step = "write" => Len(headers) > 0 /\ headers[Len(headers)] = "partial"
  /\ step \in Late => Len(headers) = Script!NHeaders
  /\ step \in Running =>
       \A n \in 1 .. Len(headers) :
         \/ headers[n] = "whole" \/ (step = "write" /\ n = Len(headers))
         \/ n <= Len(before.headers) /\ before.headers[n] = "partial"

RunnerInv ==
  /\ step = "link" => uml = "built" /\ runner = "partial"
  /\ step = "complete" /\ uml = "built" => runner = "built"

SetupInv == SetupType /\ ClangInv /\ TreeInv /\ HeadersInv /\ RunnerInv

\* What a step of the script may not undo.
Kept ==
  /\ clang = "whole" => clang' = "whole"
  /\ ksrc \in {"pinned", "tip"} => ksrc' = ksrc
  /\ \A n \in 1 .. Len(headers) :
       n <= Len(headers') /\ (headers[n] = "whole" => headers'[n] = "whole")
  /\ uml = "built" => uml' = "built"
  /\ runner = "built" /\ runner' # "built" => step' = "link"

\* A step that leaves the headers alone.
LEMMA HeadersLeft ==
  ASSUME SetupType, HeadersInv, UNCHANGED <<headers, before>>,
         \/ step' = "stopped"
         \/ step \in Running \ {"write"} /\ step' # "write" /\ (step' \in Late => step \in Late)
  PROVE  /\ HeadersInv' /\ headers' \in Seq({"partial", "whole"})
         /\ before'.headers \in Seq({"partial", "whole"})
         /\ \A n \in 1 .. Len(headers) :
              n <= Len(headers') /\ (headers[n] = "whole" => headers'[n] = "whole")
<1>1. headers' = headers /\ before' = before
  OBVIOUS
<1>2. Len(headers) \in Nat
  BY DEF SetupType
<1>3. HeadersInv'
  <2>1. CASE step' = "stopped"
    BY <1>1, <2>1 DEF HeadersInv, Running, WithTree, Late
  <2>2. CASE step \in Running \ {"write"} /\ step' # "write" /\ (step' \in Late => step \in Late)
    BY <1>1, <2>2 DEF HeadersInv
  <2>. QED
    BY <2>1, <2>2
<1>. QED
  BY <1>1, <1>2, <1>3 DEF SetupType

LEMMA RunKeeps ==
  ASSUME SetupInv, Script!Run
  PROVE  SetupInv' /\ Kept
<1>. USE DEF SetupInv, SetupType, Late, WithTree, Running
<1>1. /\ step' = "submodules" /\ step \in {"stopped", "complete"}
      /\ before' = [clang |-> clang, ksrc |-> ksrc, headers |-> headers]
      /\ UNCHANGED <<modules, module, clang, ksrc, headers, uml, runner>>
  BY DEF Script!Run, Script!disk, Script!Found
<1>2. before'.clang = clang /\ before'.ksrc = ksrc /\ before'.headers = headers
  BY <1>1
<1>3. SetupType' /\ ClangInv' /\ TreeInv' /\ RunnerInv'
  BY <1>1, <1>2 DEF ClangInv, TreeInv, RunnerInv
<1>4. Len(headers) \in Nat /\ \A n \in 1 .. Len(headers) : headers[n] \in {"partial", "whole"}
  BY ElementOfSeq
<1>5. HeadersInv'
  BY <1>1, <1>2, <1>4 DEF HeadersInv
<1>6. Kept
  BY <1>1, <1>4 DEF Kept
<1>. QED
  BY <1>3, <1>5, <1>6

LEMMA InterruptKeeps ==
  ASSUME SetupInv, Script!Interrupt
  PROVE  SetupInv' /\ Kept
<1>. USE DEF Late, WithTree, Running
<1>1. UNCHANGED <<headers, before>>
  BY DEF Script!Interrupt, Script!Fails, Script!GoOn, Script!disk
<1>2. \/ step' = "stopped"
      \/ step \in Running \ {"write"} /\ step' # "write" /\ (step' \in Late => step \in Late)
  BY SMTT(30) DEF Script!Interrupt, Script!Fails, Script!GoOn, Script!disk, SetupInv,
      HeadersInv, SetupType
<1>3. /\ HeadersInv' /\ headers' \in Seq({"partial", "whole"})
      /\ before'.headers \in Seq({"partial", "whole"})
      /\ \A n \in 1 .. Len(headers) :
           n <= Len(headers') /\ (headers[n] = "whole" => headers'[n] = "whole")
  BY <1>1, <1>2, HeadersLeft DEF SetupInv
<1>4. modules' \in BOOLEAN /\ module' \in BOOLEAN
  BY Zenon DEF Script!Interrupt, Script!Fails, Script!GoOn, Script!disk, SetupInv, SetupType
<1>5. SetupType'
  <2>1. /\ step' \in {"stopped"} \cup Running /\ clang' \in {"none", "partial", "whole"}
        /\ ksrc' \in {"none", "early", "late", "pinned", "tip"}
        /\ uml' \in {"none", "partial", "linux", "built"}
    BY SMTT(30) DEF Script!Interrupt, Script!Fails, Script!GoOn, Script!disk, SetupInv,
        SetupType
  <2>. QED
    BY <2>1, <1>3, <1>4 DEF SetupType
<1>6. ClangInv'
  BY <1>1, SMTT(30) DEF Script!Interrupt, Script!Fails, Script!GoOn, Script!disk, SetupInv,
      SetupType, ClangInv
<1>7. TreeInv'
  BY <1>1, SMTT(30) DEF Script!Interrupt, Script!Fails, Script!GoOn, Script!disk, SetupInv,
      SetupType, TreeInv, Script!KernelPresent
<1>8. RunnerInv'
  BY <1>1, SMTT(30) DEF Script!Interrupt, Script!Fails, Script!GoOn, Script!disk, SetupInv,
      SetupType, RunnerInv
<1>9. Kept
  <2>1. /\ clang = "whole" => clang' = "whole"
        /\ ksrc \in {"pinned", "tip"} => ksrc' = ksrc
        /\ uml = "built" => uml' = "built"
        /\ runner = "built" /\ runner' # "built" => step' = "link"
    BY SMTT(30) DEF Script!Interrupt, Script!Fails, Script!GoOn, Script!disk, SetupInv,
        SetupType, ClangInv, TreeInv, RunnerInv
  <2>. QED
    BY <2>1, <1>3 DEF Kept
<1>. QED
  BY <1>3, <1>5, <1>6, <1>7, <1>8, <1>9 DEF SetupInv

LEMMA SubmodulesKeeps ==
  ASSUME SetupInv, NEW okay \in BOOLEAN, Script!Submodules(okay)
  PROVE  SetupInv' /\ Kept
<1>. USE DEF Late, WithTree, Running
<1>1. UNCHANGED <<headers, before>>
  BY DEF Script!Submodules, Script!Fails, Script!GoOn, Script!disk
<1>2. \/ step' = "stopped"
      \/ step \in Running \ {"write"} /\ step' # "write" /\ (step' \in Late => step \in Late)
  BY SMTT(30) DEF Script!Submodules, Script!Fails, Script!GoOn, Script!disk, SetupInv,
      HeadersInv, SetupType
<1>3. /\ HeadersInv' /\ headers' \in Seq({"partial", "whole"})
      /\ before'.headers \in Seq({"partial", "whole"})
      /\ \A n \in 1 .. Len(headers) :
           n <= Len(headers') /\ (headers[n] = "whole" => headers'[n] = "whole")
  BY <1>1, <1>2, HeadersLeft DEF SetupInv
<1>4. modules' \in BOOLEAN /\ module' \in BOOLEAN
  BY Zenon DEF Script!Submodules, Script!Fails, Script!GoOn, Script!disk, SetupInv, SetupType
<1>5. SetupType'
  <2>1. /\ step' \in {"stopped"} \cup Running /\ clang' \in {"none", "partial", "whole"}
        /\ ksrc' \in {"none", "early", "late", "pinned", "tip"}
        /\ uml' \in {"none", "partial", "linux", "built"}
    BY SMTT(30) DEF Script!Submodules, Script!Fails, Script!GoOn, Script!disk, SetupInv,
        SetupType
  <2>. QED
    BY <2>1, <1>3, <1>4 DEF SetupType
<1>6. ClangInv'
  BY <1>1, SMTT(30) DEF Script!Submodules, Script!Fails, Script!GoOn, Script!disk, SetupInv,
      SetupType, ClangInv
<1>7. TreeInv'
  BY <1>1, SMTT(30) DEF Script!Submodules, Script!Fails, Script!GoOn, Script!disk, SetupInv,
      SetupType, TreeInv, Script!KernelPresent
<1>8. RunnerInv'
  BY <1>1, SMTT(30) DEF Script!Submodules, Script!Fails, Script!GoOn, Script!disk, SetupInv,
      SetupType, RunnerInv
<1>9. Kept
  <2>1. /\ clang = "whole" => clang' = "whole"
        /\ ksrc \in {"pinned", "tip"} => ksrc' = ksrc
        /\ uml = "built" => uml' = "built"
        /\ runner = "built" /\ runner' # "built" => step' = "link"
    BY SMTT(30) DEF Script!Submodules, Script!Fails, Script!GoOn, Script!disk, SetupInv,
        SetupType, ClangInv, TreeInv, RunnerInv
  <2>. QED
    BY <2>1, <1>3 DEF Kept
<1>. QED
  BY <1>3, <1>5, <1>6, <1>7, <1>8, <1>9 DEF SetupInv

LEMMA InstallClangKeeps ==
  ASSUME SetupInv, NEW okay \in BOOLEAN, Script!InstallClang(okay)
  PROVE  SetupInv' /\ Kept
<1>. USE DEF Late, WithTree, Running
<1>1. UNCHANGED <<headers, before>>
  BY DEF Script!InstallClang, Script!Fails, Script!GoOn, Script!disk
<1>2. \/ step' = "stopped"
      \/ step \in Running \ {"write"} /\ step' # "write" /\ (step' \in Late => step \in Late)
  BY SMTT(30) DEF Script!InstallClang, Script!Fails, Script!GoOn, Script!disk, SetupInv,
      HeadersInv, SetupType
<1>3. /\ HeadersInv' /\ headers' \in Seq({"partial", "whole"})
      /\ before'.headers \in Seq({"partial", "whole"})
      /\ \A n \in 1 .. Len(headers) :
           n <= Len(headers') /\ (headers[n] = "whole" => headers'[n] = "whole")
  BY <1>1, <1>2, HeadersLeft DEF SetupInv
<1>4. modules' \in BOOLEAN /\ module' \in BOOLEAN
  BY Zenon DEF Script!InstallClang, Script!Fails, Script!GoOn, Script!disk, SetupInv, SetupType
<1>5. SetupType'
  <2>1. /\ step' \in {"stopped"} \cup Running /\ clang' \in {"none", "partial", "whole"}
        /\ ksrc' \in {"none", "early", "late", "pinned", "tip"}
        /\ uml' \in {"none", "partial", "linux", "built"}
    BY SMTT(30) DEF Script!InstallClang, Script!Fails, Script!GoOn, Script!disk, SetupInv,
        SetupType
  <2>. QED
    BY <2>1, <1>3, <1>4 DEF SetupType
<1>6. ClangInv'
  BY <1>1, SMTT(30) DEF Script!InstallClang, Script!Fails, Script!GoOn, Script!disk, SetupInv,
      SetupType, ClangInv
<1>7. TreeInv'
  BY <1>1, SMTT(30) DEF Script!InstallClang, Script!Fails, Script!GoOn, Script!disk, SetupInv,
      SetupType, TreeInv, Script!KernelPresent
<1>8. RunnerInv'
  BY <1>1, SMTT(30) DEF Script!InstallClang, Script!Fails, Script!GoOn, Script!disk, SetupInv,
      SetupType, RunnerInv
<1>9. Kept
  <2>1. /\ clang = "whole" => clang' = "whole"
        /\ ksrc \in {"pinned", "tip"} => ksrc' = ksrc
        /\ uml = "built" => uml' = "built"
        /\ runner = "built" /\ runner' # "built" => step' = "link"
    BY SMTT(30) DEF Script!InstallClang, Script!Fails, Script!GoOn, Script!disk, SetupInv,
        SetupType, ClangInv, TreeInv, RunnerInv
  <2>. QED
    BY <2>1, <1>3 DEF Kept
<1>. QED
  BY <1>3, <1>5, <1>6, <1>7, <1>8, <1>9 DEF SetupInv

LEMMA FetchKeeps ==
  ASSUME SetupInv, NEW okay \in BOOLEAN, Script!Fetch(okay)
  PROVE  SetupInv' /\ Kept
<1>. USE DEF Late, WithTree, Running
<1>1. UNCHANGED <<headers, before>>
  BY DEF Script!Fetch, Script!Fails, Script!GoOn, Script!disk, Script!KernelPresent
<1>2. \/ step' = "stopped"
      \/ step \in Running \ {"write"} /\ step' # "write" /\ (step' \in Late => step \in Late)
  BY SMTT(30) DEF Script!Fetch, Script!Fails, Script!GoOn, Script!disk, Script!KernelPresent,
      SetupInv, HeadersInv, SetupType
<1>3. /\ HeadersInv' /\ headers' \in Seq({"partial", "whole"})
      /\ before'.headers \in Seq({"partial", "whole"})
      /\ \A n \in 1 .. Len(headers) :
           n <= Len(headers') /\ (headers[n] = "whole" => headers'[n] = "whole")
  BY <1>1, <1>2, HeadersLeft DEF SetupInv
<1>4. modules' \in BOOLEAN /\ module' \in BOOLEAN
  BY Zenon DEF Script!Fetch, Script!Fails, Script!GoOn, Script!disk, Script!KernelPresent,
      SetupInv, SetupType
<1>5. SetupType'
  <2>1. /\ step' \in {"stopped"} \cup Running /\ clang' \in {"none", "partial", "whole"}
        /\ ksrc' \in {"none", "early", "late", "pinned", "tip"}
        /\ uml' \in {"none", "partial", "linux", "built"}
    BY SMTT(30) DEF Script!Fetch, Script!Fails, Script!GoOn, Script!disk, Script!KernelPresent,
        SetupInv, SetupType
  <2>. QED
    BY <2>1, <1>3, <1>4 DEF SetupType
<1>6. ClangInv'
  BY <1>1, SMTT(30) DEF Script!Fetch, Script!Fails, Script!GoOn, Script!disk,
      Script!KernelPresent, SetupInv, SetupType, ClangInv
<1>7. TreeInv'
  BY <1>1, SMTT(30) DEF Script!Fetch, Script!Fails, Script!GoOn, Script!disk,
      Script!KernelPresent, SetupInv, SetupType, TreeInv, Script!KernelPresent
<1>8. RunnerInv'
  BY <1>1, SMTT(30) DEF Script!Fetch, Script!Fails, Script!GoOn, Script!disk,
      Script!KernelPresent, SetupInv, SetupType, RunnerInv
<1>9. Kept
  <2>1. /\ clang = "whole" => clang' = "whole"
        /\ ksrc \in {"pinned", "tip"} => ksrc' = ksrc
        /\ uml = "built" => uml' = "built"
        /\ runner = "built" /\ runner' # "built" => step' = "link"
    BY SMTT(30) DEF Script!Fetch, Script!Fails, Script!GoOn, Script!disk, Script!KernelPresent,
        SetupInv, SetupType, ClangInv, TreeInv, RunnerInv
  <2>. QED
    BY <2>1, <1>3 DEF Kept
<1>. QED
  BY <1>3, <1>5, <1>6, <1>7, <1>8, <1>9 DEF SetupInv

LEMMA ExtractKeeps ==
  ASSUME SetupInv, NEW okay \in BOOLEAN, Script!Extract(okay)
  PROVE  SetupInv' /\ Kept
<1>. USE DEF Late, WithTree, Running
<1>1. UNCHANGED <<headers, before>>
  BY DEF Script!Extract, Script!Fails, Script!GoOn, Script!disk
<1>2. \/ step' = "stopped"
      \/ step \in Running \ {"write"} /\ step' # "write" /\ (step' \in Late => step \in Late)
  BY SMTT(30) DEF Script!Extract, Script!Fails, Script!GoOn, Script!disk, SetupInv, HeadersInv,
      SetupType
<1>3. /\ HeadersInv' /\ headers' \in Seq({"partial", "whole"})
      /\ before'.headers \in Seq({"partial", "whole"})
      /\ \A n \in 1 .. Len(headers) :
           n <= Len(headers') /\ (headers[n] = "whole" => headers'[n] = "whole")
  BY <1>1, <1>2, HeadersLeft DEF SetupInv
<1>4. modules' \in BOOLEAN /\ module' \in BOOLEAN
  BY Zenon DEF Script!Extract, Script!Fails, Script!GoOn, Script!disk, SetupInv, SetupType
<1>5. SetupType'
  <2>1. /\ step' \in {"stopped"} \cup Running /\ clang' \in {"none", "partial", "whole"}
        /\ ksrc' \in {"none", "early", "late", "pinned", "tip"}
        /\ uml' \in {"none", "partial", "linux", "built"}
    BY SMTT(30) DEF Script!Extract, Script!Fails, Script!GoOn, Script!disk, SetupInv, SetupType
  <2>. QED
    BY <2>1, <1>3, <1>4 DEF SetupType
<1>6. ClangInv'
  BY <1>1, SMTT(30) DEF Script!Extract, Script!Fails, Script!GoOn, Script!disk, SetupInv,
      SetupType, ClangInv
<1>7. TreeInv'
  BY <1>1, SMTT(30) DEF Script!Extract, Script!Fails, Script!GoOn, Script!disk, SetupInv,
      SetupType, TreeInv, Script!KernelPresent
<1>8. RunnerInv'
  BY <1>1, SMTT(30) DEF Script!Extract, Script!Fails, Script!GoOn, Script!disk, SetupInv,
      SetupType, RunnerInv
<1>9. Kept
  <2>1. /\ clang = "whole" => clang' = "whole"
        /\ ksrc \in {"pinned", "tip"} => ksrc' = ksrc
        /\ uml = "built" => uml' = "built"
        /\ runner = "built" /\ runner' # "built" => step' = "link"
    BY SMTT(30) DEF Script!Extract, Script!Fails, Script!GoOn, Script!disk, SetupInv,
        SetupType, ClangInv, TreeInv, RunnerInv
  <2>. QED
    BY <2>1, <1>3 DEF Kept
<1>. QED
  BY <1>3, <1>5, <1>6, <1>7, <1>8, <1>9 DEF SetupInv

LEMMA CloneKeeps ==
  ASSUME SetupInv, NEW okay \in BOOLEAN, Script!Clone(okay)
  PROVE  SetupInv' /\ Kept
<1>. USE DEF Late, WithTree, Running
<1>1. UNCHANGED <<headers, before>>
  BY DEF Script!Clone, Script!Fails, Script!GoOn, Script!disk
<1>2. \/ step' = "stopped"
      \/ step \in Running \ {"write"} /\ step' # "write" /\ (step' \in Late => step \in Late)
  BY SMTT(30) DEF Script!Clone, Script!Fails, Script!GoOn, Script!disk, SetupInv, HeadersInv,
      SetupType
<1>3. /\ HeadersInv' /\ headers' \in Seq({"partial", "whole"})
      /\ before'.headers \in Seq({"partial", "whole"})
      /\ \A n \in 1 .. Len(headers) :
           n <= Len(headers') /\ (headers[n] = "whole" => headers'[n] = "whole")
  BY <1>1, <1>2, HeadersLeft DEF SetupInv
<1>4. modules' \in BOOLEAN /\ module' \in BOOLEAN
  BY Zenon DEF Script!Clone, Script!Fails, Script!GoOn, Script!disk, SetupInv, SetupType
<1>5. SetupType'
  <2>1. /\ step' \in {"stopped"} \cup Running /\ clang' \in {"none", "partial", "whole"}
        /\ ksrc' \in {"none", "early", "late", "pinned", "tip"}
        /\ uml' \in {"none", "partial", "linux", "built"}
    BY SMTT(30) DEF Script!Clone, Script!Fails, Script!GoOn, Script!disk, SetupInv, SetupType
  <2>. QED
    BY <2>1, <1>3, <1>4 DEF SetupType
<1>6. ClangInv'
  BY <1>1, SMTT(30) DEF Script!Clone, Script!Fails, Script!GoOn, Script!disk, SetupInv,
      SetupType, ClangInv
<1>7. TreeInv'
  BY <1>1, SMTT(30) DEF Script!Clone, Script!Fails, Script!GoOn, Script!disk, SetupInv,
      SetupType, TreeInv, Script!KernelPresent
<1>8. RunnerInv'
  BY <1>1, SMTT(30) DEF Script!Clone, Script!Fails, Script!GoOn, Script!disk, SetupInv,
      SetupType, RunnerInv
<1>9. Kept
  <2>1. /\ clang = "whole" => clang' = "whole"
        /\ ksrc \in {"pinned", "tip"} => ksrc' = ksrc
        /\ uml = "built" => uml' = "built"
        /\ runner = "built" /\ runner' # "built" => step' = "link"
    BY SMTT(30) DEF Script!Clone, Script!Fails, Script!GoOn, Script!disk, SetupInv, SetupType,
        ClangInv, TreeInv, RunnerInv
  <2>. QED
    BY <2>1, <1>3 DEF Kept
<1>. QED
  BY <1>3, <1>5, <1>6, <1>7, <1>8, <1>9 DEF SetupInv

LEMMA UmlKeeps ==
  ASSUME SetupInv, NEW okay \in BOOLEAN, Script!Uml(okay)
  PROVE  SetupInv' /\ Kept
<1>. USE DEF Late, WithTree, Running
<1>1. UNCHANGED <<headers, before>>
  BY DEF Script!Uml, Script!Fails, Script!GoOn, Script!disk, Script!Warn
<1>2. \/ step' = "stopped"
      \/ step \in Running \ {"write"} /\ step' # "write" /\ (step' \in Late => step \in Late)
  BY SMTT(30) DEF Script!Uml, Script!Fails, Script!GoOn, Script!disk, Script!Warn, SetupInv,
      HeadersInv, SetupType
<1>3. /\ HeadersInv' /\ headers' \in Seq({"partial", "whole"})
      /\ before'.headers \in Seq({"partial", "whole"})
      /\ \A n \in 1 .. Len(headers) :
           n <= Len(headers') /\ (headers[n] = "whole" => headers'[n] = "whole")
  BY <1>1, <1>2, HeadersLeft DEF SetupInv
<1>4. modules' \in BOOLEAN /\ module' \in BOOLEAN
  BY Zenon DEF Script!Uml, Script!Fails, Script!GoOn, Script!disk, Script!Warn, SetupInv,
      SetupType
<1>5. SetupType'
  <2>1. /\ step' \in {"stopped"} \cup Running /\ clang' \in {"none", "partial", "whole"}
        /\ ksrc' \in {"none", "early", "late", "pinned", "tip"}
        /\ uml' \in {"none", "partial", "linux", "built"}
    BY SMTT(30) DEF Script!Uml, Script!Fails, Script!GoOn, Script!disk, Script!Warn, SetupInv,
        SetupType
  <2>. QED
    BY <2>1, <1>3, <1>4 DEF SetupType
<1>6. ClangInv'
  BY <1>1, SMTT(30) DEF Script!Uml, Script!Fails, Script!GoOn, Script!disk, Script!Warn,
      SetupInv, SetupType, ClangInv
<1>7. TreeInv'
  BY <1>1, SMTT(30) DEF Script!Uml, Script!Fails, Script!GoOn, Script!disk, Script!Warn,
      SetupInv, SetupType, TreeInv, Script!KernelPresent
<1>8. RunnerInv'
  BY <1>1, SMTT(30) DEF Script!Uml, Script!Fails, Script!GoOn, Script!disk, Script!Warn,
      SetupInv, SetupType, RunnerInv
<1>9. Kept
  <2>1. /\ clang = "whole" => clang' = "whole"
        /\ ksrc \in {"pinned", "tip"} => ksrc' = ksrc
        /\ uml = "built" => uml' = "built"
        /\ runner = "built" /\ runner' # "built" => step' = "link"
    BY SMTT(30) DEF Script!Uml, Script!Fails, Script!GoOn, Script!disk, Script!Warn, SetupInv,
        SetupType, ClangInv, TreeInv, RunnerInv
  <2>. QED
    BY <2>1, <1>3 DEF Kept
<1>. QED
  BY <1>3, <1>5, <1>6, <1>7, <1>8, <1>9 DEF SetupInv

LEMMA BuildUmlKeeps ==
  ASSUME SetupInv, NEW okay \in BOOLEAN, Script!BuildUml(okay)
  PROVE  SetupInv' /\ Kept
<1>. USE DEF Late, WithTree, Running
<1>1. UNCHANGED <<headers, before>>
  BY DEF Script!BuildUml, Script!Fails, Script!GoOn, Script!disk
<1>2. \/ step' = "stopped"
      \/ step \in Running \ {"write"} /\ step' # "write" /\ (step' \in Late => step \in Late)
  BY SMTT(30) DEF Script!BuildUml, Script!Fails, Script!GoOn, Script!disk, SetupInv,
      HeadersInv, SetupType
<1>3. /\ HeadersInv' /\ headers' \in Seq({"partial", "whole"})
      /\ before'.headers \in Seq({"partial", "whole"})
      /\ \A n \in 1 .. Len(headers) :
           n <= Len(headers') /\ (headers[n] = "whole" => headers'[n] = "whole")
  BY <1>1, <1>2, HeadersLeft DEF SetupInv
<1>4. modules' \in BOOLEAN /\ module' \in BOOLEAN
  BY Zenon DEF Script!BuildUml, Script!Fails, Script!GoOn, Script!disk, SetupInv, SetupType
<1>5. SetupType'
  <2>1. /\ step' \in {"stopped"} \cup Running /\ clang' \in {"none", "partial", "whole"}
        /\ ksrc' \in {"none", "early", "late", "pinned", "tip"}
        /\ uml' \in {"none", "partial", "linux", "built"}
    BY SMTT(30) DEF Script!BuildUml, Script!Fails, Script!GoOn, Script!disk, SetupInv, SetupType
  <2>. QED
    BY <2>1, <1>3, <1>4 DEF SetupType
<1>6. ClangInv'
  BY <1>1, SMTT(30) DEF Script!BuildUml, Script!Fails, Script!GoOn, Script!disk, SetupInv,
      SetupType, ClangInv
<1>7. TreeInv'
  BY <1>1, SMTT(30) DEF Script!BuildUml, Script!Fails, Script!GoOn, Script!disk, SetupInv,
      SetupType, TreeInv, Script!KernelPresent
<1>8. RunnerInv'
  BY <1>1, SMTT(30) DEF Script!BuildUml, Script!Fails, Script!GoOn, Script!disk, SetupInv,
      SetupType, RunnerInv
<1>9. Kept
  <2>1. /\ clang = "whole" => clang' = "whole"
        /\ ksrc \in {"pinned", "tip"} => ksrc' = ksrc
        /\ uml = "built" => uml' = "built"
        /\ runner = "built" /\ runner' # "built" => step' = "link"
    BY SMTT(30) DEF Script!BuildUml, Script!Fails, Script!GoOn, Script!disk, SetupInv,
        SetupType, ClangInv, TreeInv, RunnerInv
  <2>. QED
    BY <2>1, <1>3 DEF Kept
<1>. QED
  BY <1>3, <1>5, <1>6, <1>7, <1>8, <1>9 DEF SetupInv

LEMMA RunnerStepKeeps ==
  ASSUME SetupInv, NEW okay \in BOOLEAN, Script!Runner(okay)
  PROVE  SetupInv' /\ Kept
<1>. USE DEF Late, WithTree, Running
<1>1. UNCHANGED <<headers, before>>
  BY DEF Script!Runner, Script!Fails, Script!GoOn, Script!disk, Script!Warn
<1>2. \/ step' = "stopped"
      \/ step \in Running \ {"write"} /\ step' # "write" /\ (step' \in Late => step \in Late)
  BY SMTT(30) DEF Script!Runner, Script!Fails, Script!GoOn, Script!disk, Script!Warn, SetupInv,
      HeadersInv, SetupType
<1>3. /\ HeadersInv' /\ headers' \in Seq({"partial", "whole"})
      /\ before'.headers \in Seq({"partial", "whole"})
      /\ \A n \in 1 .. Len(headers) :
           n <= Len(headers') /\ (headers[n] = "whole" => headers'[n] = "whole")
  BY <1>1, <1>2, HeadersLeft DEF SetupInv
<1>4. modules' \in BOOLEAN /\ module' \in BOOLEAN
  BY Zenon DEF Script!Runner, Script!Fails, Script!GoOn, Script!disk, Script!Warn, SetupInv,
      SetupType
<1>5. SetupType'
  <2>1. /\ step' \in {"stopped"} \cup Running /\ clang' \in {"none", "partial", "whole"}
        /\ ksrc' \in {"none", "early", "late", "pinned", "tip"}
        /\ uml' \in {"none", "partial", "linux", "built"}
    BY SMTT(30) DEF Script!Runner, Script!Fails, Script!GoOn, Script!disk, Script!Warn,
        SetupInv, SetupType
  <2>. QED
    BY <2>1, <1>3, <1>4 DEF SetupType
<1>6. ClangInv'
  BY <1>1, SMTT(30) DEF Script!Runner, Script!Fails, Script!GoOn, Script!disk, Script!Warn,
      SetupInv, SetupType, ClangInv
<1>7. TreeInv'
  BY <1>1, SMTT(30) DEF Script!Runner, Script!Fails, Script!GoOn, Script!disk, Script!Warn,
      SetupInv, SetupType, TreeInv, Script!KernelPresent
<1>8. RunnerInv'
  BY <1>1, SMTT(30) DEF Script!Runner, Script!Fails, Script!GoOn, Script!disk, Script!Warn,
      SetupInv, SetupType, RunnerInv
<1>9. Kept
  <2>1. /\ clang = "whole" => clang' = "whole"
        /\ ksrc \in {"pinned", "tip"} => ksrc' = ksrc
        /\ uml = "built" => uml' = "built"
        /\ runner = "built" /\ runner' # "built" => step' = "link"
    BY SMTT(30) DEF Script!Runner, Script!Fails, Script!GoOn, Script!disk, Script!Warn,
        SetupInv, SetupType, ClangInv, TreeInv, RunnerInv
  <2>. QED
    BY <2>1, <1>3 DEF Kept
<1>. QED
  BY <1>3, <1>5, <1>6, <1>7, <1>8, <1>9 DEF SetupInv

LEMMA LinkKeeps ==
  ASSUME SetupInv, NEW okay \in BOOLEAN, Script!Link(okay)
  PROVE  SetupInv' /\ Kept
<1>. USE DEF Late, WithTree, Running
<1>1. UNCHANGED <<headers, before>>
  BY DEF Script!Link, Script!Fails, Script!GoOn, Script!disk, Script!Warn
<1>2. \/ step' = "stopped"
      \/ step \in Running \ {"write"} /\ step' # "write" /\ (step' \in Late => step \in Late)
  BY SMTT(30) DEF Script!Link, Script!Fails, Script!GoOn, Script!disk, Script!Warn, SetupInv,
      HeadersInv, SetupType
<1>3. /\ HeadersInv' /\ headers' \in Seq({"partial", "whole"})
      /\ before'.headers \in Seq({"partial", "whole"})
      /\ \A n \in 1 .. Len(headers) :
           n <= Len(headers') /\ (headers[n] = "whole" => headers'[n] = "whole")
  BY <1>1, <1>2, HeadersLeft DEF SetupInv
<1>4. modules' \in BOOLEAN /\ module' \in BOOLEAN
  BY Zenon DEF Script!Link, Script!Fails, Script!GoOn, Script!disk, Script!Warn, SetupInv,
      SetupType
<1>5. SetupType'
  <2>1. /\ step' \in {"stopped"} \cup Running /\ clang' \in {"none", "partial", "whole"}
        /\ ksrc' \in {"none", "early", "late", "pinned", "tip"}
        /\ uml' \in {"none", "partial", "linux", "built"}
    BY SMTT(30) DEF Script!Link, Script!Fails, Script!GoOn, Script!disk, Script!Warn, SetupInv,
        SetupType
  <2>. QED
    BY <2>1, <1>3, <1>4 DEF SetupType
<1>6. ClangInv'
  BY <1>1, SMTT(30) DEF Script!Link, Script!Fails, Script!GoOn, Script!disk, Script!Warn,
      SetupInv, SetupType, ClangInv
<1>7. TreeInv'
  BY <1>1, SMTT(30) DEF Script!Link, Script!Fails, Script!GoOn, Script!disk, Script!Warn,
      SetupInv, SetupType, TreeInv, Script!KernelPresent
<1>8. RunnerInv'
  BY <1>1, SMTT(30) DEF Script!Link, Script!Fails, Script!GoOn, Script!disk, Script!Warn,
      SetupInv, SetupType, RunnerInv
<1>9. Kept
  <2>1. /\ clang = "whole" => clang' = "whole"
        /\ ksrc \in {"pinned", "tip"} => ksrc' = ksrc
        /\ uml = "built" => uml' = "built"
        /\ runner = "built" /\ runner' # "built" => step' = "link"
    BY SMTT(30) DEF Script!Link, Script!Fails, Script!GoOn, Script!disk, Script!Warn, SetupInv,
        SetupType, ClangInv, TreeInv, RunnerInv
  <2>. QED
    BY <2>1, <1>3 DEF Kept
<1>. QED
  BY <1>3, <1>5, <1>6, <1>7, <1>8, <1>9 DEF SetupInv

LEMMA OpenHeaderKeeps ==
  ASSUME SetupInv, NEW okay \in BOOLEAN, Script!OpenHeader(okay)
  PROVE  SetupInv' /\ Kept
<1>. USE DEF Late, WithTree, Running
<1>1. CASE Len(headers) < Script!NHeaders /\ headers' = Append(headers, "partial")
           /\ Script!GoOn("write") /\ UNCHANGED <<module, clang, ksrc, uml, runner>>
  <2>1. /\ step = "headers" /\ step' = "write" /\ headers' = Append(headers, "partial")
        /\ UNCHANGED <<modules, before, module, clang, ksrc, uml, runner>>
    BY <1>1 DEF Script!OpenHeader, Script!GoOn
  <2>2. headers \in Seq({"partial", "whole"}) /\ Len(headers) \in Nat /\ "partial" \in {"partial", "whole"}
    BY DEF SetupInv, SetupType
  <2>3. /\ headers' \in Seq({"partial", "whole"}) /\ Len(headers') = Len(headers) + 1
        /\ \A n \in 1 .. Len(headers) : headers'[n] = headers[n]
        /\ headers'[Len(headers) + 1] = "partial"
    BY <2>1, <2>2, AppendProperties
  <2>4. Len(headers') <= Script!NHeaders
    BY <1>1, <2>2, <2>3 DEF Script!NHeaders
  <2>5. HeadersInv'
    <3>1. \A n \in 1 .. Len(headers') : n = Len(headers') \/ n \in 1 .. Len(headers)
      BY <2>2, <2>3
    <3>2. \A n \in 1 .. Len(headers) :
            \/ headers[n] = "whole"
            \/ n <= Len(before.headers) /\ before.headers[n] = "partial"
      BY <2>1 DEF SetupInv, HeadersInv
    <3>. QED
      BY <2>1, <2>2, <2>3, <2>4, <3>1, <3>2 DEF HeadersInv
  <2>6. SetupType' /\ ClangInv' /\ TreeInv' /\ RunnerInv'
    BY <2>1, <2>3 DEF SetupInv, SetupType, ClangInv, TreeInv, RunnerInv, Script!KernelPresent
  <2>7. Kept
    BY <2>1, <2>2, <2>3 DEF Kept
  <2>. QED
    BY <2>5, <2>6, <2>7 DEF SetupInv
<1>2. CASE step = "headers" /\ UNCHANGED <<modules, before, module, clang, ksrc, headers, uml, runner>>
           /\ (step' = "stopped" \/ (step' = "uml" /\ Len(headers) = Script!NHeaders))
  <2>1. headers' \in Seq({"partial", "whole"}) /\ Len(headers) \in Nat
    BY <1>2 DEF SetupInv, SetupType
  <2>2. HeadersInv'
    BY <1>2 DEF SetupInv, HeadersInv
  <2>3. SetupType' /\ ClangInv' /\ TreeInv' /\ RunnerInv'
    BY <1>2, <2>1 DEF SetupInv, SetupType, ClangInv, TreeInv, RunnerInv, Script!KernelPresent
  <2>4. Kept
    BY <1>2, <2>1 DEF Kept
  <2>. QED
    BY <2>2, <2>3, <2>4 DEF SetupInv
<1>. QED
  BY <1>1, <1>2 DEF Script!OpenHeader, Script!GoOn, Script!Fails, Script!disk

LEMMA WriteHeaderKeeps ==
  ASSUME SetupInv, NEW okay \in BOOLEAN, Script!WriteHeader(okay)
  PROVE  SetupInv' /\ Kept
<1>. USE DEF Late, WithTree, Running
<1>1. /\ step = "write" /\ UNCHANGED <<modules, before, module, clang, ksrc, uml, runner>>
      /\ \/ step' = "stopped" /\ headers' = headers
         \/ step' = "headers" /\ headers' = [headers EXCEPT ![Len(headers)] = "whole"]
  BY DEF Script!WriteHeader, Script!GoOn, Script!Fails, Script!disk
<1>2. headers \in Seq({"partial", "whole"}) /\ Len(headers) \in Nat /\ Len(headers) \in 1 .. Len(headers)
  BY <1>1 DEF SetupInv, SetupType, HeadersInv
<1>3. ASSUME step' = "headers", headers' = [headers EXCEPT ![Len(headers)] = "whole"]
      PROVE  /\ headers' \in Seq({"partial", "whole"}) /\ Len(headers') = Len(headers)
             /\ headers'[Len(headers)] = "whole"
             /\ \A n \in 1 .. Len(headers) : n # Len(headers) => headers'[n] = headers[n]
  <2>1. "whole" \in {"partial", "whole"}
    OBVIOUS
  <2>. QED
    BY <1>2, <1>3, <2>1, ExceptSeq
<1>4. headers' \in Seq({"partial", "whole"})
  BY <1>1, <1>2, <1>3
<1>5. HeadersInv'
  <2>1. CASE step' = "stopped" /\ headers' = headers
    BY <2>1 DEF SetupInv, HeadersInv
  <2>2. CASE step' = "headers" /\ headers' = [headers EXCEPT ![Len(headers)] = "whole"]
    <3>1. \A n \in 1 .. Len(headers) :
            \/ headers[n] = "whole" \/ n = Len(headers)
            \/ n <= Len(before.headers) /\ before.headers[n] = "partial"
      BY <1>1 DEF SetupInv, HeadersInv
    <3>. QED
      BY <2>2, <1>1, <1>3, <3>1 DEF SetupInv, HeadersInv
  <2>. QED
    BY <1>1, <2>1, <2>2
<1>6. SetupType' /\ ClangInv' /\ TreeInv' /\ RunnerInv'
  BY <1>1, <1>4 DEF SetupInv, SetupType, ClangInv, TreeInv, RunnerInv, Script!KernelPresent
<1>7. Kept
  BY <1>1, <1>2, <1>3 DEF Kept
<1>. QED
  BY <1>5, <1>6, <1>7 DEF SetupInv

LEMMA SetupStepKeeps ==
  ASSUME SetupInv, Script!Next
  PROVE  SetupInv' /\ Kept
<1>1. CASE Script!Work
  BY <1>1, SubmodulesKeeps, InstallClangKeeps, FetchKeeps, ExtractKeeps, CloneKeeps,
     OpenHeaderKeeps, WriteHeaderKeeps, UmlKeeps, BuildUmlKeeps, RunnerStepKeeps, LinkKeeps
  DEF Script!Work
<1>. QED
  BY <1>1, RunKeeps, InterruptKeeps DEF Script!Next

(* setup.sh, for any number of runs, failures and interruptions: a run that says *)
(* "Setup complete!", the first or a later one, leaves whole whatever it did not *)
(* find cut short, and no step undoes what an earlier run has finished, but for  *)
(* the runner while it is linked anew.                                           *)
THEOREM SetupIsSound == PartsSpec => SetupSound
<1>1. PartsInit => SetupInv
  <2>. SUFFICES ASSUME PartsInit PROVE SetupInv
    OBVIOUS
  <2>1. /\ step = "stopped" /\ clang = "none" /\ ksrc = "none" /\ headers = <<>> /\ uml = "none"
        /\ before = [clang |-> clang, ksrc |-> ksrc, headers |-> headers]
    BY DEF PartsInit, Script!Init, Script!Found
  <2>2. modules \in BOOLEAN /\ module \in BOOLEAN
    BY Zenon DEF PartsInit, Script!Init
  <2>3. headers \in Seq({"partial", "whole"}) /\ Len(headers) = 0 /\ before.headers = headers
    BY <2>1
  <2>4. SetupType /\ ClangInv /\ TreeInv /\ RunnerInv
    BY <2>1, <2>2, <2>3
    DEF SetupType, ClangInv, TreeInv, RunnerInv, Running, WithTree, Late
  <2>5. HeadersInv
    BY <2>1, <2>3 DEF HeadersInv, Running, WithTree, Late, Script!NHeaders
  <2>. QED
    BY <2>4, <2>5 DEF SetupInv
<1>2. SetupInv /\ [PartsNext]_allVars => SetupInv' /\ [Kept]_(Script!vars)
  <2>. SUFFICES ASSUME SetupInv, [PartsNext]_allVars PROVE SetupInv' /\ [Kept]_(Script!vars)
    OBVIOUS
  <2>1. CASE Script!Next
    BY <2>1, SetupStepKeeps
  <2>2. CASE UNCHANGED setupVars
    BY <2>2 DEF setupVars, Script!vars, SetupInv, SetupType, ClangInv, TreeInv, HeadersInv,
        RunnerInv,
                Script!KernelPresent
  <2>. QED
    BY <2>1, <2>2 DEF PartsNext, allVars
<1>3. SetupInv => (part = "setup" => Script!CompleteButForTorn)
  <2>. SUFFICES ASSUME SetupInv, step = "complete" PROVE Script!CompleteButForTorn
    BY DEF Script!CompleteButForTorn
  <2>1. /\ clang = "whole" \/ (clang = "partial" /\ before.clang = "partial")
        /\ ksrc \in {"pinned", "tip"} \/ (ksrc = "late" /\ before.ksrc = "late")
        /\ uml = "built" => runner = "built"
    BY DEF SetupInv, SetupType, ClangInv, TreeInv, RunnerInv, Running, WithTree, Late,
        Script!KernelPresent
  <2>2. /\ Len(headers) = Script!NHeaders
        /\ \A n \in 1 .. Script!NHeaders :
             \/ headers[n] = "whole"
             \/ n <= Len(before.headers) /\ before.headers[n] = "partial"
    BY DEF SetupInv, HeadersInv, Running, WithTree, Late
  <2>. QED
    BY <2>1, <2>2 DEF Script!CompleteButForTorn
<1>4. [Kept]_(Script!vars) <=>
        [ /\ clang = "whole" => clang' = "whole"
          /\ ksrc \in {"pinned", "tip"} => ksrc' = ksrc
          /\ \A n \in 1 .. Len(headers) :
               n <= Len(headers') /\ (headers[n] = "whole" => headers'[n] = "whole")
          /\ uml = "built" => uml' = "built"
          /\ runner = "built" /\ runner' # "built" => step' = "link" ]_(Script!vars)
  BY DEF Kept
<1>. QED
  BY <1>1, <1>2, <1>3, <1>4, PTL DEF PartsSpec, SetupSound, Script!NothingUndone
-----------------------------------------------------------------------------
(* The tracking workflow *)

\* Without a file there are no results, and no claim is made before the summary.
TrackInv ==
  /\ tstep \in {"done", "checkout", "cache", "build", "pipeline", "write", "summarize", "upload",
                "post"}
  /\ ok \in BOOLEAN /\ file \in {"none", "torn", "whole"} /\ noDrift \in BOOLEAN
  /\ tstep \in {"checkout", "cache", "build", "pipeline"} =>
       results = Track!NoResults /\ file = "none"
  /\ file = "none" => results = Track!NoResults
  /\ tstep = "write" \/ file = "whole" => results \in [Tracked -> Track!Entry]
  /\ tstep \notin {"upload", "post", "done"} => noDrift = FALSE
  /\ noDrift = TRUE => results \in [Tracked -> {"success", "no verdict"}]
  /\ tstep \in {"upload", "post", "done"} /\ ok = TRUE /\ results # Track!NoResults =>
       compile_fail \cup verify_fail = Track!Failing

LEMMA TrackStepKeeps ==
  ASSUME TrackInv, Track!Next
  PROVE  TrackInv'
<1>. USE DEF TrackInv, Track!Fails, Track!summary, Track!Failing
<1>1. CASE Track!Start
  BY <1>1 DEF Track!Start
<1>2. ASSUME NEW b \in BOOLEAN, Track!Cancel(b)
      PROVE  TrackInv'
  BY <1>2 DEF Track!Cancel
<1>3. CASE Track!RestoreCache
  BY <1>3 DEF Track!RestoreCache
<1>4. CASE Track!Summarize
  <2>1. /\ tstep = "summarize" /\ tstep' = "upload" /\ results' = results /\ file' = file
        /\ noDrift = FALSE
    BY <1>4 DEF Track!Summarize
  <2>2. ok' \in BOOLEAN /\ (ok' = TRUE => checked /\ file # "torn")
    BY <1>4 DEF Track!Summarize
  <2>3. CASE checked /\ file = "whole"
    <3>1. /\ compile_fail' = Track!CompileFail(results) /\ verify_fail' = Track!VerifyFail(results)
          /\ noDrift' = (Track!CompileFail(results) = {} /\ Track!VerifyFail(results) = {})
      BY <1>4, <2>3 DEF Track!Summarize, Track!Say
    <3>2. results \in [Tracked -> Track!Entry]
      BY <2>3
    <3>3. compile_fail' \cup verify_fail' = Track!Failing
      BY <3>1 DEF Track!CompileFail, Track!VerifyFail
    <3>4. ASSUME noDrift' = TRUE PROVE results \in [Tracked -> {"success", "no verdict"}]
      BY <3>1, <3>2, <3>4 DEF Track!CompileFail, Track!VerifyFail, Track!Entry
    <3>5. noDrift' \in BOOLEAN
      BY <3>1
    <3>6. Track!Failing' = Track!Failing
      BY <2>1
    <3>. HIDE DEF Track!Failing
    <3>. QED
      BY <2>1, <2>2, <3>2, <3>3, <3>4, <3>5, <3>6
  <2>4. CASE ~ (checked /\ file = "whole")
    <3>1. noDrift' = noDrift
      BY <1>4, <2>4 DEF Track!Summarize
    <3>. QED
      BY <2>1, <2>2, <2>4, <3>1
  <2>. QED
    BY <2>3, <2>4
<1>5. CASE Track!Post
  BY <1>5 DEF Track!Post
<1>6. ASSUME NEW b \in BOOLEAN, Track!Build(b)
      PROVE  TrackInv'
  BY <1>6 DEF Track!Build
<1>7. ASSUME NEW res \in [Tracked -> Track!Entry] \cup {Track!NoResults}, Track!RunPipeline(res)
      PROVE  TrackInv'
  BY <1>7 DEF Track!RunPipeline
<1>8. ASSUME NEW b \in BOOLEAN, Track!Checkout(b)
      PROVE  TrackInv'
  BY <1>8 DEF Track!Checkout
<1>9. ASSUME NEW b \in BOOLEAN, Track!WriteResults(b)
      PROVE  TrackInv'
  BY <1>9 DEF Track!WriteResults
<1>10. ASSUME NEW b \in BOOLEAN, Track!Upload(b)
       PROVE  TrackInv'
  BY <1>10 DEF Track!Upload
<1>. QED
  BY <1>1, <1>2, <1>3, <1>4, <1>5, <1>6, <1>7, <1>8, <1>9, <1>10 DEF Track!Next

(* bpf-verify-tracking.yml, for every set of targets, cancelled anywhere and     *)
(* with any fate of results.json: "No drift" is said only where every target     *)
(* compiled and none was rejected, and a green run that had results names every  *)
(* target that fails.                                                            *)
THEOREM TrackingIsSound == PartsSpec => []TrackingReports
<1>1. PartsInit => TrackInv
  <2>1. PartsInit => Track!Init
    BY DEF PartsInit
  <2>2. Track!Init => TrackInv
    BY DEF Track!Init, TrackInv
  <2>. QED
    BY <2>1, <2>2
<1>2. TrackInv /\ [PartsNext]_allVars => TrackInv'
  <2>. SUFFICES ASSUME TrackInv, [PartsNext]_allVars PROVE TrackInv'
    OBVIOUS
  <2>1. CASE Track!Next
    BY <2>1, TrackStepKeeps
  <2>2. CASE UNCHANGED trackVars
    BY <2>2 DEF trackVars, TrackInv, Track!Failing
  <2>. QED
    BY <2>1, <2>2 DEF PartsNext, allVars
<1>3. TrackInv => TrackingReports
  <2>. SUFFICES ASSUME TrackInv PROVE Track!ClaimBacked /\ Track!GreenNamesFailures
    BY DEF TrackingReports
  <2>1. Track!ClaimBacked
    BY DEF TrackInv, Track!ClaimBacked
  <2>2. Track!GreenNamesFailures
    BY DEF TrackInv, Track!GreenNamesFailures
  <2>. QED
    BY <2>1, <2>2
<1>. QED
  BY <1>1, <1>2, <1>3, PTL DEF PartsSpec
-----------------------------------------------------------------------------
(* bpf_runner and uml-run.sh *)

\* Writing a number in base N.
LEMMA DivModUnique ==
  ASSUME NEW N \in Nat \ {0}, NEW a \in 0 .. N - 1, NEW b \in Nat
  PROVE  (b * N + a) % N = a /\ (b * N + a) \div N = b
<1>. DEFINE n == b * N + a
            q == n \div N
            r == n % N
<1>1. n \in Int
  OBVIOUS
<1>2. q \in Int /\ r \in 0 .. N - 1 /\ n = N * q + r
  <2>. HIDE DEF n
  <2>. QED
    BY <1>1
<1>. HIDE DEF q, r
<1>3. N * q + r = N * b + a
  BY <1>2
<1>4. ASSUME q < b PROVE FALSE
  <2>1. q + 1 <= b
    BY <1>2, <1>4
  <2>2. N * (q + 1) <= N * b
    BY <1>2, <2>1
  <2>3. N * (q + 1) = N * q + N
    BY <1>2
  <2>. QED
    BY <1>2, <1>3, <2>2, <2>3
<1>5. ASSUME b < q PROVE FALSE
  <2>1. b + 1 <= q
    BY <1>2, <1>5
  <2>2. N * (b + 1) <= N * q
    BY <1>2, <2>1
  <2>3. N * (b + 1) = N * b + N
    OBVIOUS
  <2>. QED
    BY <1>2, <1>3, <2>2, <2>3
<1>6. q = b
  BY <1>2, <1>4, <1>5
<1>7. r = a
  BY <1>2, <1>3, <1>6
<1>. QED
  BY <1>6, <1>7 DEF q, r

Corners == NCorners * NCorners

\* The numbers drawn before case n, if only its own object draws.
Drawn(n) == IF n < Corners THEN 0 ELSE Entries * (n - Corners)

\* The lines that runs from the seed can print.
OwnCase == {[iter |-> n, seeds |-> Guest!seed_case(n, Drawn(n))] : n \in Guest!Case}
Line == [file : Nat, loaded : BOOLEAN, error : BOOLEAN, failures : Nat, cases : Seq(OwnCase)]

Clean(o) == does[o].loads = TRUE /\ does[o].dies = iters /\ does[o].bad = {}

GuestType ==
  /\ does \in [Guest!Object -> Guest!Behaviour] /\ phase \in {"start", "run", "dead", "done"}
  /\ i \in 1 .. NObjects + 1 /\ iter \in -1 .. iters /\ rng_state \in Nat /\ failures \in Nat
  /\ cases \in Seq(OwnCase) /\ out \in Seq(Line)
  /\ any_fail \in BOOLEAN /\ any_infra \in BOOLEAN
  /\ rc \in {-1, -2, 0, 1, 2, 137}

\* Inside run_object().
ObjectInv ==
  iter # -1 =>
    /\ i <= NObjects /\ does[i].loads = TRUE /\ iter <= does[i].dies
    /\ failures = 0 => \A n \in does[i].bad : n >= iter
    /\ failures # 0 => does[i].bad # {}
    /\ rng_state = Drawn(iter)
    /\ swept = {Guest!CornerPair(n) : n \in 0 .. (IF iter < Corners THEN iter ELSE Corners) - 1}

\* main()'s two flags.
FlagsInv ==
  /\ Len(out) = i - 1
  /\ any_fail = TRUE <=> \E o \in 1 .. i - 1 : Guest!RunsAndFails(o)
  /\ any_fail = FALSE /\ any_infra = FALSE => \A o \in 1 .. i - 1 : Clean(o)

\* The status on its way out of the guest.
StatusInv ==
  /\ phase \in {"start", "run"} => rc = -1
  /\ phase # "done" => exit = -1
  /\ phase = "done" => exit = Guest!StatusOrThree
  /\ rc \in 0 .. 2 => /\ i = NObjects + 1
                      /\ rc = IF NObjects = 0 THEN 2 ELSE Guest!Status(any_fail, any_infra)

GuestInv == GuestType /\ ObjectInv /\ FlagsInv /\ StatusInv

LEMMA GuestFacts ==
  /\ NObjects \in Nat /\ iters \in Nat /\ MaxReport \in Nat
  /\ NCorners \in Nat \ {0} /\ Entries \in Nat \ {0} /\ Corners \in Nat \ {0}
  /\ MayDie \subseteq 0 .. iters - 1 /\ MayFail \subseteq 0 .. iters - 1
  /\ Guest!Object = 1 .. NObjects /\ Guest!Case = 0 .. iters - 1
<1>1. Guest!GuestAssumption
  BY PartsAssumption
<1>2. /\ NObjects \in Nat /\ iters \in Nat /\ MaxReport \in Nat
      /\ NCorners \in Nat \ {0} /\ Entries \in Nat \ {0}
      /\ MayDie \subseteq 0 .. iters - 1 /\ MayFail \subseteq 0 .. iters - 1
  BY <1>1 DEF Guest!GuestAssumption
<1>3. NCorners * NCorners \in Nat \ {0}
  BY <1>2
<1>. QED
  BY <1>2, <1>3 DEF Corners, Guest!Object, Guest!Case

LEMMA BehaviourFacts ==
  ASSUME GuestType, NEW o \in 1 .. NObjects
  PROVE  /\ does[o].loads \in BOOLEAN /\ does[o].dies \in 0 .. iters
         /\ does[o].bad \subseteq 0 .. iters - 1
<1>1. does[o] \in Guest!Behaviour
  BY GuestFacts DEF GuestType
<1>2. does[o].loads \in BOOLEAN /\ does[o].dies \in MayDie \cup {iters} /\ does[o].bad \subseteq MayFail
  BY <1>1 DEF Guest!Behaviour
<1>3. MayDie \cup {iters} \subseteq 0 .. iters
  BY GuestFacts
<1>4. MayFail \subseteq 0 .. iters - 1
  BY GuestFacts
<1>. QED
  BY <1>2, <1>3, <1>4, Zenon

LEMMA DrawnFacts ==
  ASSUME NEW n \in Nat
  PROVE  /\ Drawn(n) \in Nat /\ Drawn(0) = 0
         /\ n < Corners => Drawn(n + 1) = Drawn(n)
         /\ ~ (n < Corners) => Drawn(n + 1) = Drawn(n) + Entries
<1>. USE GuestFacts
<1>1. Drawn(0) = 0
  BY DEF Drawn
<1>2. Entries * 0 = 0
  OBVIOUS
<1>3. ASSUME n < Corners PROVE Drawn(n) = 0 /\ Drawn(n + 1) = 0
  <2>1. CASE n + 1 < Corners
    BY <1>3, <2>1 DEF Drawn
  <2>2. CASE ~ (n + 1 < Corners)
    <3>1. n + 1 - Corners = 0
      BY <1>3, <2>2
    <3>. QED
      BY <1>2, <1>3, <2>2, <3>1 DEF Drawn
  <2>. QED
    BY <2>1, <2>2
<1>4. ASSUME ~ (n < Corners)
      PROVE  Drawn(n) \in Nat /\ Drawn(n + 1) = Drawn(n) + Entries
  <2>1. PICK d \in Nat : d = n - Corners
    BY <1>4
  <2>2. Entries * (d + 1) = Entries * d + Entries /\ Entries * d \in Nat
    BY <2>1
  <2>3. n + 1 - Corners = d + 1 /\ ~ (n + 1 < Corners)
    BY <1>4, <2>1
  <2>. QED
    BY <1>4, <2>1, <2>2, <2>3 DEF Drawn
<1>. QED
  BY <1>1, <1>3, <1>4

\* Every pair of corners has a case among the first Corners.
LEMMA AllCorners ==
  {Guest!CornerPair(n) : n \in 0 .. Corners - 1} = (0 .. NCorners - 1) \X (0 .. NCorners - 1)
<1>. USE GuestFacts
<1>1. ASSUME NEW n \in 0 .. Corners - 1
      PROVE  Guest!CornerPair(n) \in (0 .. NCorners - 1) \X (0 .. NCorners - 1)
  <2>1. n % NCorners \in 0 .. NCorners - 1 /\ n \div NCorners \in Int
    OBVIOUS
  <2>2. (n \div NCorners) % NCorners \in 0 .. NCorners - 1
    BY <2>1
  <2>. QED
    BY <2>1, <2>2 DEF Guest!CornerPair
<1>2. ASSUME NEW a \in 0 .. NCorners - 1, NEW b \in 0 .. NCorners - 1
      PROVE  \E n \in 0 .. Corners - 1 : Guest!CornerPair(n) = <<a, b>>
  <2>. DEFINE n == b * NCorners + a
  <2>1. n % NCorners = a /\ n \div NCorners = b
    BY DivModUnique
  <2>2. b % NCorners = b
    <3>1. (0 * NCorners + b) % NCorners = b
      BY DivModUnique
    <3>2. 0 * NCorners + b = b
      OBVIOUS
    <3>. QED
      BY <3>1, <3>2
  <2>3. n \in 0 .. Corners - 1
    <3>1. (b + 1) * NCorners <= NCorners * NCorners
      OBVIOUS
    <3>2. (b + 1) * NCorners = b * NCorners + NCorners /\ b * NCorners \in Nat
      OBVIOUS
    <3>3. b * NCorners + a <= NCorners * NCorners - 1
      BY <3>1, <3>2
    <3>4. n \in Nat
      BY <3>2
    <3>. QED
      BY <3>3, <3>4 DEF Corners
  <2>4. Guest!CornerPair(n) = <<a, b>>
    BY <2>1, <2>2 DEF Guest!CornerPair
  <2>. QED
    BY <2>3, <2>4
<1>3. ASSUME NEW x \in (0 .. NCorners - 1) \X (0 .. NCorners - 1)
      PROVE  x \in {Guest!CornerPair(n) : n \in 0 .. Corners - 1}
  <2>1. PICK a \in 0 .. NCorners - 1, b \in 0 .. NCorners - 1 : x = <<a, b>>
    OBVIOUS
  <2>. QED
    BY <2>1, <1>2
<1>. QED
  BY <1>1, <1>3

\* run_object() returns with a line and a result that agree.
LEMMA FinishKeeps ==
  ASSUME GuestInv, phase = "run", i <= NObjects, NEW line \in Line, NEW result \in 0 .. 2,
         Guest!FinishWith(line, result),
         result = 1 <=> Guest!RunsAndFails(i),
         result = 0 => Clean(i)
  PROVE  GuestInv'
<1>. USE GuestFacts
<1>1. /\ out' = Append(out, line) /\ any_fail' = (any_fail \/ result = 1)
      /\ any_infra' = (any_infra \/ result = 2) /\ i' = i + 1 /\ iter' = -1
      /\ UNCHANGED <<does, phase, rng_state, cases, failures, swept, rc, exit>>
  BY DEF Guest!FinishWith
<1>2. out \in Seq(Line) /\ Len(out) = i - 1 /\ i \in 1 .. NObjects + 1
  BY DEF GuestInv, GuestType, FlagsInv
<1>3. /\ out' \in Seq(Line) /\ Len(out') = i /\ out'[i] = line
      /\ \A n \in 1 .. i - 1 : out'[n] = out[n]
  BY <1>1, <1>2
<1>4. any_fail' \in BOOLEAN /\ any_infra' \in BOOLEAN
  BY <1>1, Zenon
<1>5. GuestType'
  <2>1. i' \in 1 .. NObjects + 1 /\ iter' \in -1 .. iters
    BY <1>1, <1>2
  <2>. QED
    BY <1>1, <1>3, <1>4, <2>1 DEF GuestInv, GuestType
<1>6. ObjectInv'
  BY <1>1 DEF ObjectInv
<1>7. FlagsInv'
  <2>1. Len(out') = i' - 1
    BY <1>1, <1>2, <1>3
  <2>2. any_fail' = TRUE <=> any_fail = TRUE \/ result = 1
    BY <1>1 DEF GuestInv, GuestType
  <2>3. (\E o \in 1 .. i' - 1 : Guest!RunsAndFails(o)')
        <=> (\E o \in 1 .. i - 1 : Guest!RunsAndFails(o)) \/ Guest!RunsAndFails(i)
    <3>1. /\ \A o \in 1 .. i : o = i \/ o \in 1 .. i - 1
          /\ i \in 1 .. i /\ \A o \in 1 .. i - 1 : o \in 1 .. i
      BY <1>2
    <3>2. 1 .. i' - 1 = 1 .. i
      BY <1>1, <1>2
    <3>3. \A o : Guest!RunsAndFails(o)' <=> Guest!RunsAndFails(o)
      BY <1>1 DEF Guest!RunsAndFails
    <3>. QED
      BY <3>1, <3>2, <3>3, Zenon
  <2>4. any_fail = TRUE <=> \E o \in 1 .. i - 1 : Guest!RunsAndFails(o)
    BY DEF GuestInv, FlagsInv
  <2>5. ASSUME any_fail' = FALSE, any_infra' = FALSE
        PROVE  \A o \in 1 .. i' - 1 : Clean(o)'
    <3>a. result = 0 \/ result = 1 \/ result = 2
      OBVIOUS
    <3>b. any_fail \in BOOLEAN /\ any_infra \in BOOLEAN
      BY DEF GuestInv, GuestType
    <3>1. any_fail = FALSE /\ any_infra = FALSE /\ result = 0
      BY <1>1, <2>5, <3>a, <3>b
    <3>2. \A o \in 1 .. i - 1 : Clean(o)
      BY <3>1 DEF GuestInv, FlagsInv
    <3>3. \A o \in 1 .. i' - 1 : o = i \/ o \in 1 .. i - 1
      BY <1>1, <1>2
    <3>. QED
      BY <1>1, <3>1, <3>2, <3>3 DEF Clean
  <2>6. any_fail' = TRUE <=> \E o \in 1 .. i' - 1 : Guest!RunsAndFails(o)'
    BY <2>2, <2>3, <2>4
  <2>. QED
    BY <2>1, <2>5, <2>6 DEF FlagsInv
<1>8. StatusInv'
  BY <1>1 DEF GuestInv, StatusInv, Guest!StatusOrThree
<1>. QED
  BY <1>5, <1>6, <1>7, <1>8 DEF GuestInv

LEMMA LoadKeeps ==
  ASSUME GuestInv, Guest!Load
  PROVE  GuestInv'
<1>. USE GuestFacts
<1>1. phase = "run" /\ i \in 1 .. NObjects /\ iter = -1
  BY DEF Guest!Load, GuestInv, GuestType
<1>2. /\ does[i].loads \in BOOLEAN /\ does[i].dies \in 0 .. iters
      /\ does[i].bad \subseteq 0 .. iters - 1
  BY <1>1, BehaviourFacts DEF GuestInv
<1>3. CASE does[i].loads = TRUE
  <2>1. /\ iter' = 0 /\ rng_state' = 0 /\ cases' = <<>> /\ failures' = 0 /\ swept' = {}
        /\ UNCHANGED <<does, phase, i, any_fail, any_infra, out, rc, exit>>
    BY <1>3 DEF Guest!Load, Guest!Seed, Guest!worst
  <2>2. GuestType'
    BY <2>1 DEF GuestInv, GuestType
  <2>3. ObjectInv'
    <3>1. 0 .. (IF 0 < Corners THEN 0 ELSE Corners) - 1 = {}
      OBVIOUS
    <3>2. swept' = {Guest!CornerPair(n) : n \in 0 .. (IF 0 < Corners THEN 0 ELSE Corners) - 1}
      BY <2>1, <3>1
    <3>3. rng_state' = Drawn(0)
      BY <2>1, DrawnFacts
    <3>4. 0 <= does[i].dies /\ \A n \in does[i].bad : n >= 0
      BY <1>2
    <3>. QED
      BY <1>1, <1>3, <2>1, <3>2, <3>3, <3>4 DEF ObjectInv
  <2>4. FlagsInv' /\ StatusInv'
    BY <2>1 DEF GuestInv, FlagsInv, StatusInv, Clean, Guest!RunsAndFails,
       Guest!StatusOrThree
  <2>. QED
    BY <2>2, <2>3, <2>4 DEF GuestInv
<1>4. CASE does[i].loads = FALSE
  <2>. DEFINE line == [file |-> i, loaded |-> FALSE, error |-> TRUE, failures |-> 0, cases |-> <<>>]
  <2>1. Guest!FinishWith(line, 2)
    BY <1>4 DEF Guest!Load
  <2>2. line \in Line /\ ~ Guest!RunsAndFails(i)
    BY <1>1, <1>4 DEF Line, Guest!RunsAndFails
  <2>. HIDE DEF line
  <2>. QED
    BY <1>1, <2>1, <2>2, FinishKeeps
<1>. QED
  BY <1>2, <1>3, <1>4

LEMMA CaseFailsKeeps ==
  ASSUME GuestInv, Guest!CaseFails
  PROVE  GuestInv'
<1>. DEFINE line == [file |-> i, loaded |-> TRUE, error |-> TRUE, failures |-> 0, cases |-> cases]
<1>1. phase = "run" /\ iter \in Guest!Case /\ iter = does[i].dies /\ Guest!FinishWith(line, 2)
  BY DEF Guest!CaseFails
<1>2. i \in 1 .. NObjects
  BY <1>1, GuestFacts DEF GuestInv, GuestType, ObjectInv
<1>3. line \in Line
  BY <1>2, GuestFacts DEF Line, GuestInv, GuestType
<1>4. ~ Guest!RunsAndFails(i)
  BY <1>1, GuestFacts DEF Guest!RunsAndFails
<1>. HIDE DEF line
<1>. QED
  BY <1>1, <1>2, <1>3, <1>4, GuestFacts, FinishKeeps

LEMMA GuestFinishKeeps ==
  ASSUME GuestInv, Guest!Finish
  PROVE  GuestInv'
<1>. DEFINE line == [file |-> i, loaded |-> TRUE, error |-> FALSE, failures |-> failures, cases |-> cases]
            result == IF failures # 0 THEN 1 ELSE 0
<1>1. phase = "run" /\ iter = iters /\ Guest!FinishWith(line, result)
  BY DEF Guest!Finish
<1>2. i \in 1 .. NObjects /\ failures \in Nat
  BY <1>1, GuestFacts DEF GuestInv, GuestType, ObjectInv
<1>3. line \in Line /\ line.failures = failures
  BY <1>2, GuestFacts DEF Line, GuestInv, GuestType
<1>4. result \in 0 .. 2 /\ (result = 1 <=> failures # 0) /\ (result = 0 => failures = 0)
  BY <1>2
<1>5. (failures = 0 => Clean(i)) /\ (failures # 0 <=> Guest!RunsAndFails(i))
  <2>1. does[i].dies \in 0 .. iters /\ does[i].bad \subseteq 0 .. iters - 1
    BY <1>2, BehaviourFacts DEF GuestInv
  <2>2. /\ does[i].loads = TRUE /\ iters <= does[i].dies
        /\ failures = 0 => \A n \in does[i].bad : n >= iters
        /\ failures # 0 => does[i].bad # {}
    BY <1>1, GuestFacts DEF GuestInv, ObjectInv
  <2>3. does[i].dies = iters
    BY <2>1, <2>2, GuestFacts
  <2>4. failures = 0 => does[i].bad = {}
    BY <2>1, <2>2, GuestFacts
  <2>. QED
    BY <2>2, <2>3, <2>4 DEF Clean, Guest!RunsAndFails
<1>. HIDE DEF line, result
<1>. QED
  BY <1>1, <1>2, <1>3, <1>4, <1>5, GuestFacts, FinishKeeps

LEMMA RunCaseKeeps ==
  ASSUME GuestInv, Guest!RunCase
  PROVE  GuestInv'
<1>. USE GuestFacts
<1>1. /\ phase = "run" /\ iter \in 0 .. iters - 1 /\ iter # does[i].dies
      /\ rng_state' = IF iter < Corners THEN rng_state ELSE rng_state + Entries
      /\ swept' = IF iter < Corners THEN swept \cup {Guest!CornerPair(iter)} ELSE swept
      /\ iter' = iter + 1
      /\ UNCHANGED <<does, phase, i, any_fail, any_infra, out, rc, exit>>
  BY DEF Guest!RunCase, Guest!IsCorner, Corners, Guest!worst
<1>2. /\ i \in 1 .. NObjects /\ does[i].loads = TRUE /\ iter <= does[i].dies
      /\ failures = 0 => \A n \in does[i].bad : n >= iter
      /\ failures # 0 => does[i].bad # {}
      /\ rng_state = Drawn(iter)
      /\ swept = {Guest!CornerPair(n) : n \in 0 .. (IF iter < Corners THEN iter ELSE Corners) - 1}
  <2>1. iter # -1 /\ i \in 1 .. NObjects + 1
    BY <1>1 DEF GuestInv, GuestType
  <2>2. i <= NObjects
    BY <2>1 DEF GuestInv, ObjectInv
  <2>3. i \in 1 .. NObjects
    BY <2>1, <2>2
  <2>. QED
    BY <2>1, <2>3 DEF GuestInv, ObjectInv
<1>3. does[i].dies \in 0 .. iters /\ does[i].bad \subseteq 0 .. iters - 1
  BY <1>2, BehaviourFacts DEF GuestInv
<1>4. rng_state' = Drawn(iter + 1) /\ rng_state' \in Nat
  <2>1. iter \in Nat /\ iter + 1 \in Nat
    BY <1>1
  <2>2. /\ iter < Corners => Drawn(iter + 1) = Drawn(iter)
        /\ ~ (iter < Corners) => Drawn(iter + 1) = Drawn(iter) + Entries
        /\ Drawn(iter + 1) \in Nat
    BY <2>1, DrawnFacts
  <2>. QED
    BY <1>1, <1>2, <2>2
<1>5. swept' = {Guest!CornerPair(n) : n \in 0 .. (IF iter + 1 < Corners THEN iter + 1 ELSE Corners) - 1}
  <2>1. CASE iter < Corners
    <3>1. 0 .. (IF iter + 1 < Corners THEN iter + 1 ELSE Corners) - 1 = (0 .. iter - 1) \cup {iter}
      BY <1>1, <2>1
    <3>2. 0 .. (IF iter < Corners THEN iter ELSE Corners) - 1 = 0 .. iter - 1
      BY <2>1
    <3>3. swept' = {Guest!CornerPair(n) : n \in 0 .. iter - 1} \cup {Guest!CornerPair(iter)}
      BY <1>1, <1>2, <2>1, <3>2
    <3>. QED
      BY <3>1, <3>3
  <2>2. CASE ~ (iter < Corners)
    <3>1. swept' = swept
      BY <1>1, <2>2
    <3>2. ~ (iter + 1 < Corners)
      BY <1>1, <2>2
    <3>. QED
      BY <1>2, <2>2, <3>1, <3>2
  <2>. QED
    BY <2>1, <2>2
<1>6. /\ failures' \in Nat /\ cases' \in Seq(OwnCase)
      /\ failures' = 0 => failures = 0 /\ iter \notin does[i].bad
      /\ failures' # 0 => failures # 0 \/ iter \in does[i].bad
  <2>. DEFINE c == [iter |-> iter, seeds |-> Guest!seed_case(iter, rng_state)]
  <2>1. c \in OwnCase
    BY <1>1, <1>2 DEF OwnCase
  <2>2. cases \in Seq(OwnCase) /\ failures \in Nat
    BY DEF GuestInv, GuestType
  <2>. HIDE DEF c
  <2>3. Append(cases, c) \in Seq(OwnCase)
    BY <2>1, <2>2
  <2>4. \/ iter \in does[i].bad /\ failures' = failures + 1 /\ cases' \in {cases, Append(cases, c)}
        \/ iter \notin does[i].bad /\ failures' = failures /\ cases' = cases
    BY DEF Guest!RunCase, c
  <2>5. /\ failures' \in Nat /\ (failures' = 0 => failures = 0 /\ iter \notin does[i].bad)
        /\ failures' # 0 => failures # 0 \/ iter \in does[i].bad
    BY <2>2, <2>4
  <2>6. cases' = cases \/ cases' = Append(cases, c)
    BY <2>4
  <2>. QED
    BY <2>2, <2>3, <2>5, <2>6
<1>7. GuestType'
  <2>1. iter' \in -1 .. iters
    BY <1>1
  <2>. QED
    BY <1>1, <1>4, <1>6, <2>1 DEF GuestInv, GuestType
<1>8. ObjectInv'
  <2>1. i <= NObjects /\ iter + 1 <= does[i].dies
    BY <1>1, <1>2, <1>3
  <2>2. /\ failures' = 0 => \A n \in does[i].bad : n >= iter + 1
        /\ failures' # 0 => does[i].bad # {}
    BY <1>1, <1>2, <1>3, <1>6
  <2>. QED
    BY <1>1, <1>2, <1>4, <1>5, <2>1, <2>2 DEF ObjectInv
<1>9. FlagsInv' /\ StatusInv'
  BY <1>1 DEF GuestInv, FlagsInv, StatusInv, Clean, Guest!RunsAndFails,
       Guest!StatusOrThree
<1>. QED
  BY <1>7, <1>8, <1>9 DEF GuestInv

LEMMA GuestStepKeeps ==
  ASSUME GuestInv, Guest!Next
  PROVE  GuestInv'
<1>. USE GuestFacts
<1>1. ASSUME NEW boots \in BOOLEAN, Guest!Launch(boots)
      PROVE  GuestInv'
  <2>1. /\ UNCHANGED <<does, i, iter, rng_state, cases, failures, swept, any_fail, any_infra, out, rc>>
        /\ phase = "start"
        /\ \/ phase' = "run" /\ exit' = exit
           \/ phase' = "done" /\ exit' = 3
    BY <1>1 DEF Guest!Launch, Guest!object, Guest!worst
  <2>2. GuestType' /\ ObjectInv' /\ FlagsInv'
    BY <2>1 DEF GuestInv, GuestType, ObjectInv, FlagsInv, Clean, Guest!RunsAndFails
  <2>3. StatusInv'
    BY <2>1 DEF GuestInv, StatusInv, Guest!StatusOrThree
  <2>. QED
    BY <2>2, <2>3 DEF GuestInv
<1>2. ASSUME phase = "run", phase' = "dead", rc' \in {-1, -2, 137},
             UNCHANGED <<does, i, Guest!object, Guest!worst, out, exit>>
      PROVE  GuestInv'
  <2>1. UNCHANGED <<does, i, iter, rng_state, cases, failures, swept, any_fail, any_infra, out, exit>>
    BY <1>2 DEF Guest!object, Guest!worst
  <2>2. GuestType' /\ ObjectInv' /\ FlagsInv'
    BY <1>2, <2>1, SMTT(60) DEF GuestInv, GuestType, ObjectInv, FlagsInv, Clean, Guest!RunsAndFails
  <2>3. StatusInv'
    BY <1>2, <2>1 DEF GuestInv, StatusInv
  <2>. QED
    BY <2>2, <2>3 DEF GuestInv
<1>3. CASE Guest!OomKill
  BY <1>2, <1>3 DEF Guest!OomKill
<1>4. ASSUME NEW left \in {-1, -2}, Guest!GuestDies(left)
      PROVE  GuestInv'
  BY <1>2, <1>4 DEF Guest!GuestDies
<1>5. CASE Guest!MainReturns
  <2>1. /\ UNCHANGED <<does, i, iter, rng_state, cases, failures, swept, any_fail, any_infra, out, exit>>
        /\ phase = "run" /\ phase' = "dead" /\ i > NObjects
        /\ rc' = IF NObjects = 0 THEN 2 ELSE Guest!Status(any_fail, any_infra)
    BY <1>5 DEF Guest!MainReturns, Guest!object, Guest!worst
  <2>2. rc' \in {0, 1, 2}
    BY <2>1 DEF Guest!Status
  <2>3. GuestType' /\ ObjectInv' /\ FlagsInv'
    BY <2>1, <2>2 DEF GuestInv, GuestType, ObjectInv, FlagsInv, Clean, Guest!RunsAndFails
  <2>4. i = NObjects + 1
    BY <2>1 DEF GuestInv, GuestType
  <2>5. StatusInv'
    BY <2>1, <2>4 DEF GuestInv, StatusInv, Guest!Status
  <2>. QED
    BY <2>3, <2>5 DEF GuestInv
<1>6. CASE Guest!Collect
  <2>1. /\ UNCHANGED <<does, i, iter, rng_state, cases, failures, swept, any_fail, any_infra, out, rc>>
        /\ phase = "dead" /\ phase' = "done" /\ exit' = Guest!StatusOrThree
    BY <1>6 DEF Guest!Collect, Guest!object, Guest!worst
  <2>2. GuestType' /\ ObjectInv' /\ FlagsInv'
    BY <2>1 DEF GuestInv, GuestType, ObjectInv, FlagsInv, Clean, Guest!RunsAndFails
  <2>3. StatusInv'
    BY <2>1 DEF GuestInv, StatusInv, Guest!StatusOrThree, Guest!Status
  <2>. QED
    BY <2>2, <2>3 DEF GuestInv
<1>7. CASE Guest!Done
  BY <1>7 DEF Guest!Done, Guest!vars, GuestInv, GuestType, ObjectInv, FlagsInv, Clean, Guest!RunsAndFails, StatusInv,
              Guest!StatusOrThree, Guest!Status
<1>. QED
  BY <1>1, <1>3, <1>4, <1>5, <1>6, <1>7, LoadKeeps, RunCaseKeeps, CaseFailsKeeps, GuestFinishKeeps
  DEF Guest!Next

LEMMA GuestInitially ==
  ASSUME Guest!Init \/ GuestRests
  PROVE  GuestInv
<1>. USE GuestFacts
<1>1. /\ phase = "start" /\ i = 1 /\ iter = -1 /\ rng_state = 0 /\ cases = <<>> /\ failures = 0
      /\ swept = {} /\ out = <<>> /\ rc = -1 /\ exit = -1
  BY DEF Guest!Init, GuestRests
<1>2. any_fail = FALSE /\ any_infra = FALSE
  BY DEF Guest!Init, GuestRests
<1>3. does \in [Guest!Object -> Guest!Behaviour]
  <2>1. CASE Guest!Init
    BY <2>1 DEF Guest!Init
  <2>2. CASE GuestRests
    <3>1. [loads |-> TRUE, dies |-> iters, bad |-> {}] \in Guest!Behaviour
      BY DEF Guest!Behaviour
    <3>. QED
      BY <2>2, <3>1 DEF GuestRests
  <2>. QED
    BY <2>1, <2>2
<1>4. GuestType
  <2>1. any_fail \in BOOLEAN /\ any_infra \in BOOLEAN
    BY <1>2, Zenon
  <2>2. 1 \in 1 .. NObjects + 1 /\ -1 \in -1 .. iters
    OBVIOUS
  <2>. QED
    BY <1>1, <1>3, <2>1, <2>2 DEF GuestType
<1>5. ObjectInv /\ FlagsInv /\ StatusInv
  BY <1>1, <1>2 DEF ObjectInv, FlagsInv, StatusInv
<1>. QED
  BY <1>4, <1>5 DEF GuestInv

LEMMA GuestInvTruthful ==
  ASSUME GuestInv
  PROVE  /\ Guest!ZeroMeansClean /\ Guest!FailureWins
         /\ Guest!SeedsReproducible /\ Guest!CornersSwept
<1>. USE GuestFacts
<1>1. exit # -1 => exit = Guest!StatusOrThree
  BY DEF GuestInv, StatusInv
<1>2. Guest!ZeroMeansClean
  <2>. SUFFICES ASSUME exit = 0
                PROVE  \A o \in 1 .. NObjects : does[o].loads /\ does[o].dies = iters /\ does[o].bad = {}
    BY DEF Guest!ZeroMeansClean
  <2>1. rc = 0
    BY <1>1 DEF Guest!StatusOrThree
  <2>2. i = NObjects + 1 /\ Guest!Status(any_fail, any_infra) = 0
    BY <2>1 DEF GuestInv, StatusInv
  <2>3. any_fail = FALSE /\ any_infra = FALSE
    BY <2>2 DEF Guest!Status, GuestInv, GuestType
  <2>4. \A o \in 1 .. i - 1 : Clean(o)
    BY <2>3 DEF GuestInv, FlagsInv
  <2>5. 1 .. i - 1 = 1 .. NObjects
    BY <2>2
  <2>. QED
    BY <2>4, <2>5 DEF Clean
<1>3. Guest!FailureWins
  <2>. SUFFICES ASSUME exit # -1, rc \in 0 .. 2
                PROVE  exit = 1 <=> \E o \in 1 .. NObjects : Guest!RunsAndFails(o)
    BY DEF Guest!FailureWins
  <2>1. exit = rc
    BY <1>1 DEF Guest!StatusOrThree
  <2>2. i = NObjects + 1 /\ rc = IF NObjects = 0 THEN 2 ELSE Guest!Status(any_fail, any_infra)
    BY DEF GuestInv, StatusInv
  <2>3. any_fail = TRUE <=> \E o \in 1 .. NObjects : Guest!RunsAndFails(o)
    <3>1. 1 .. i - 1 = 1 .. NObjects
      BY <2>2
    <3>. QED
      BY <3>1 DEF GuestInv, FlagsInv
  <2>4. CASE NObjects = 0
    BY <2>1, <2>2, <2>4
  <2>5. CASE NObjects # 0
    <3>1. rc = 1 <=> any_fail = TRUE
      BY <2>2, <2>5 DEF Guest!Status, GuestInv, GuestType
    <3>. QED
      BY <2>1, <2>3, <3>1
  <2>. QED
    BY <2>4, <2>5
<1>4. Guest!SeedsReproducible
  <2>. SUFFICES ASSUME NEW n \in 1 .. Len(out), NEW k \in 1 .. Len(out[n].cases),
                       ~ Guest!IsCorner(out[n].cases[k].iter)
                PROVE  out[n].cases[k].seeds.draw
                         = Entries * (out[n].cases[k].iter - NCorners * NCorners)
    BY DEF Guest!SeedsReproducible
  <2>1. out \in Seq(Line)
    BY DEF GuestInv, GuestType
  <2>2. out[n] \in Line
    BY <2>1
  <2>3. out[n].cases \in Seq(OwnCase)
    BY <2>2 DEF Line
  <2>4. out[n].cases[k] \in OwnCase
    BY <2>3
  <2>5. PICK m \in Guest!Case :
          out[n].cases[k] = [iter |-> m, seeds |-> Guest!seed_case(m, Drawn(m))]
    BY <2>4 DEF OwnCase
  <2>6. out[n].cases[k].iter = m /\ out[n].cases[k].seeds = Guest!seed_case(m, Drawn(m))
    BY <2>5
  <2>7. ~ (m < Corners) /\ Guest!seed_case(m, Drawn(m)) = [corner |-> <<>>, draw |-> Drawn(m)]
    BY <2>6 DEF Guest!seed_case, Guest!IsCorner, Corners
  <2>8. out[n].cases[k].seeds.draw = Drawn(m)
    BY <2>6, <2>7
  <2>. QED
    BY <2>6, <2>7, <2>8 DEF Drawn, Corners
<1>5. Guest!CornersSwept
  <2>. SUFFICES ASSUME iter >= Corners
                PROVE  swept = (0 .. NCorners - 1) \X (0 .. NCorners - 1)
    BY DEF Guest!CornersSwept, Corners
  <2>1. iter # -1 /\ ~ (iter < Corners)
    BY DEF GuestInv, GuestType
  <2>2. swept = {Guest!CornerPair(n) : n \in 0 .. (IF iter < Corners THEN iter ELSE Corners) - 1}
    BY <2>1 DEF GuestInv, ObjectInv
  <2>3. swept = {Guest!CornerPair(n) : n \in 0 .. Corners - 1}
    BY <2>1, <2>2
  <2>. QED
    BY <2>3, AllCorners
<1>. QED
  BY <1>2, <1>3, <1>4, <1>5

(* uml-run.sh and bpf_runner.c, for any objects, iterations and corner values:   *)
(* status 0 means that every object ran clean to the end, the status is 1        *)
(* exactly when an object that ran to the end failed, whichever objects could    *)
(* not run, the seeds of a case depend on the case     *)
(* only, and the corner phase covers every pair.                                 *)
THEOREM GuestIsTruthful == PartsSpec => []GuestTruthful
<1>1. PartsInit => GuestInv
  BY GuestInitially DEF PartsInit
<1>2. GuestInv /\ [PartsNext]_allVars => GuestInv'
  <2>. SUFFICES ASSUME GuestInv, [PartsNext]_allVars PROVE GuestInv'
    OBVIOUS
  <2>1. CASE Guest!Next
    BY <2>1, GuestStepKeeps
  <2>2. CASE UNCHANGED guestVars
    BY <2>2 DEF guestVars, GuestInv, GuestType, ObjectInv, FlagsInv, Clean, Guest!RunsAndFails, StatusInv,
                Guest!StatusOrThree, Guest!Status
  <2>. QED
    BY <2>1, <2>2 DEF PartsNext, allVars
<1>3. GuestInv => GuestTruthful
  BY GuestInvTruthful DEF GuestTruthful
<1>. QED
  BY <1>1, <1>2, <1>3, PTL DEF PartsSpec
-----------------------------------------------------------------------------
(* Numbers *)

Less == OpToRel(<, Nat)

LEMMA LessIsLess == \A x, y \in Nat : <<x, y>> \in Less <=> x < y
  BY DEF Less, OpToRel

\* Every nonempty set of naturals has a least element.
LEMMA LeastNatural ==
  ASSUME NEW T, T \subseteq Nat, T # {}
  PROVE  \E x \in T : \A y \in T : x <= y
<1>1. IsWellFoundedOn(Less, Nat)
  BY NatLessThanWellFounded DEF Less
<1>2. PICK x \in T : \A y \in T : ~(<<y, x>> \in Less)
  BY <1>1, WFMin
<1>3. ASSUME NEW y \in T  PROVE  x <= y
  <2>1. x \in Nat /\ y \in Nat
    OBVIOUS
  <2>2. ~(y < x)
    BY <2>1, <1>2, LessIsLess
  <2>. QED
    BY <2>1, <2>2
<1>. QED
  BY <1>3
-----------------------------------------------------------------------------
(* check_shim_drift.py: the searches *)

LEMMA CheckCounts == \A S : Check!Cardinality(S) = Cardinality(S)
  BY DEF Check!Cardinality, Cardinality

\* A file holds tokens t from offset o on.
Lies(S, o, t) ==
  /\ S \in Seq(STRING) /\ t \in Seq(STRING) /\ o \in Nat /\ o + Len(t) <= Len(S)
  /\ \A m \in 1..Len(t) : S[o + m] = t[m]

LEMMA CountIs ==
  ASSUME NEW s, NEW p \in Int, NEW k \in Int, NEW x
  PROVE  Check!Count(s, p, k, x) \in Nat
<1>. DEFINE C == {n \in p..k : s[n] = x}
<1>1. IsFiniteSet(p..k)
  BY FS_Interval, Zenon
<1>2. IsFiniteSet(C)
  BY <1>1, FS_Subset
<1>3. Check!Count(s, p, k, x) = Cardinality(C)
  BY CheckCounts DEF Check!Count
<1>. HIDE DEF C
<1>. QED
  BY <1>2, <1>3, FS_CardinalityType

\* Counting tokens in a part of a file.
LEMMA CountShifts ==
  ASSUME NEW S, NEW o, NEW t, Lies(S, o, t), NEW p \in 1..Len(t), NEW k \in 1..Len(t), NEW x
  PROVE  Check!Count(S, o + p, o + k, x) = Check!Count(t, p, k, x)
<1>. DEFINE P == {n \in p..k : t[n] = x}
            B == {n \in (o + p)..(o + k) : S[n] = x}
            f == [n \in P |-> o + n]
<1>0. o \in Nat /\ Len(t) \in Nat /\ \A n \in 1..Len(t) : S[o + n] = t[n]
  BY DEF Lies
<1>1. IsFiniteSet(P)
  <2>1. p \in Int /\ k \in Int
    OBVIOUS
  <2>2. IsFiniteSet(p..k)
    BY <2>1, FS_Interval, Zenon
  <2>. QED
    BY <2>2, FS_Subset
<1>2. \A n \in P : n \in Int /\ o + n \in B
  <2>. TAKE n \in P
  <2>1. n \in p..k /\ t[n] = x /\ n \in 1..Len(t)
    BY <1>0
  <2>2. S[o + n] = x
    BY <1>0, <2>1
  <2>. QED
    BY <1>0, <2>1, <2>2
<1>3. \A b \in B : \E n \in P : f[n] = b
  <2>. TAKE b \in B
  <2>. DEFINE n == b - o
  <2>1. n \in p..k /\ n \in 1..Len(t) /\ o + n = b /\ S[b] = x
    BY <1>0
  <2>2. t[n] = x
    BY <1>0, <2>1
  <2>3. n \in P
    BY <2>1, <2>2
  <2>. QED
    BY <2>1, <2>3
<1>4. f \in Bijection(P, B)
  <2>. HIDE DEF P, B
  <2>1. f \in [P -> B]
    BY <1>2
  <2>2. \A x1, y \in P : f[x1] = f[y] => x1 = y
    BY <1>0, <1>2
  <2>. HIDE DEF f
  <2>. QED
    BY <2>1, <2>2, <1>3 DEF Bijection, Injection, Surjection, IsInjective
<1>5. Cardinality(B) = Cardinality(P)
  <2>. HIDE DEF P, B, f
  <2>. QED
    BY <1>1, <1>4, FS_Bijection DEF ExistsBijection
<1>. QED
  BY <1>5, CheckCounts DEF Check!Count

\* Brackets that match in a part of a file match in the file.
LEMMA PairShifts ==
  ASSUME NEW S, NEW o, NEW t, Lies(S, o, t), NEW p \in 1..Len(t), NEW k \in 1..Len(t), NEW a, NEW b,
         Check!Pair(t, p, k, a, b)
  PROVE  Check!Pair(S, o + p, o + k, a, b)
<1>0. o \in Nat /\ Len(t) \in Nat /\ p < k /\ S[o + p] = t[p] /\ S[o + k] = t[k]
  BY DEF Lies, Check!Pair
<1>1. t[p] = a /\ t[k] = b /\ Check!Count(t, p, k, a) = Check!Count(t, p, k, b)
  BY DEF Check!Pair
<1>2. \A l \in p..k - 1 : Check!Count(t, p, l, a) > Check!Count(t, p, l, b)
  BY DEF Check!Pair
<1>3. Check!Count(S, o + p, o + k, a) = Check!Count(S, o + p, o + k, b)
  BY <1>1, CountShifts
<1>4. ASSUME NEW l \in (o + p)..(o + k) - 1
      PROVE  Check!Count(S, o + p, l, a) > Check!Count(S, o + p, l, b)
  <2>1. PICK n \in p..k - 1 : l = o + n
    <3>1. l - o \in p..k - 1 /\ l = o + (l - o)
      BY <1>0
    <3>. QED
      BY <3>1
  <2>2. n \in 1..Len(t)
    BY <1>0
  <2>3. /\ Check!Count(S, o + p, o + n, a) = Check!Count(t, p, n, a)
        /\ Check!Count(S, o + p, o + n, b) = Check!Count(t, p, n, b)
    BY <2>2, CountShifts
  <2>. QED
    BY <1>2, <2>1, <2>3
<1>. QED
  BY <1>0, <1>1, <1>3, <1>4 DEF Check!Pair

\* The search for the closing bracket finds the matching one.
LEMMA PairCloses ==
  ASSUME NEW s \in Seq(STRING), NEW p \in 1..Len(s), NEW k \in 1..Len(s), NEW a, NEW b, Check!Pair(s, p, k, a, b)
  PROVE  Check!Closes(s, p, a, b) = k
<1>. DEFINE ends == {l \in p..Len(s) : s[l] = b /\ Check!Count(s, p, l, a) = Check!Count(s, p, l, b)}
<1>0. Len(s) \in Nat /\ p < k
  BY DEF Check!Pair
<1>1. k \in ends
  BY <1>0 DEF Check!Pair
<1>2. ASSUME NEW l \in ends  PROVE  k <= l
  <2>1. l \in Int /\ l >= p /\ Check!Count(s, p, l, a) = Check!Count(s, p, l, b)
    BY <1>0
  <2>2. l < k => Check!Count(s, p, l, a) > Check!Count(s, p, l, b)
    BY <1>0, <2>1 DEF Check!Pair
  <2>3. Check!Count(s, p, l, a) \in Nat /\ Check!Count(s, p, l, b) \in Nat
    BY <2>1, CountIs
  <2>. QED
    BY <2>1, <2>2, <2>3
<1>3. ends \subseteq Int
  BY <1>0
<1>4. Check!Closes(s, p, a, b) = CHOOSE l \in ends : \A n \in ends : l <= n
  BY <1>1 DEF Check!Closes
<1>. HIDE DEF ends
<1>. DEFINE c == CHOOSE l \in ends : \A n \in ends : l <= n
<1>5. c \in ends /\ \A n \in ends : c <= n
  BY <1>1, <1>2
<1>. HIDE DEF c
<1>6. c = k
  <2>1. c <= k /\ k <= c /\ c \in Int /\ k \in Int
    BY <1>1, <1>2, <1>3, <1>5
  <2>. QED
    BY <2>1
<1>. QED
  BY <1>4, <1>6 DEF c

\* The search for the first token that is not white space.
LEMMA BlankEnds ==
  ASSUME NEW s \in Seq(STRING), NEW p \in 1..Len(s), NEW j \in p..Len(s), s[j] # "blank",
         \A k \in p..j - 1 : s[k] = "blank"
  PROVE  Check!AfterBlank(s, p) = j
<1>. DEFINE Is(l) == (\A k \in p..l - 1 : s[k] = "blank") /\ (l = Len(s) + 1 \/ s[l] # "blank")
<1>0. Len(s) \in Nat
  OBVIOUS
<1>1. j \in p..Len(s) + 1 /\ Is(j)
  BY <1>0
<1>2. ASSUME NEW l \in p..Len(s) + 1, Is(l)  PROVE  l = j
  <2>1. ASSUME l < j  PROVE  FALSE
    <3>1. l \in p..j - 1 /\ l # Len(s) + 1
      BY <1>0, <2>1
    <3>. QED
      BY <1>2, <3>1
  <2>2. ASSUME j < l  PROVE  FALSE
    <3>1. j \in p..l - 1
      BY <1>0, <2>2
    <3>. QED
      BY <1>2, <3>1
  <2>. QED
    BY <1>0, <2>1, <2>2
<1>3. Check!AfterBlank(s, p) = CHOOSE l \in p..Len(s) + 1 : Is(l)
  BY DEF Check!AfterBlank
<1>. HIDE DEF Is
<1>. QED
  BY <1>1, <1>2, <1>3

\* A recursive function over a bounded range: the values of a loop whose turns differ.
LoopRun(n, W, a, f, g) == g \in [0..n -> W] /\ g[0] = a /\ \A k \in 1..n : g[k] = f[k][g[k - 1]]

LEMMA LoopHas ==
  ASSUME NEW n \in Nat, NEW W, NEW a \in W, NEW f \in [1..n -> [W -> W]]
  PROVE  \E g : LoopRun(n, W, a, f, g)
<1>. DEFINE Has(k) == \E g \in [0..k -> W] : g[0] = a /\ \A j \in 1..k : g[j] = f[j][g[j - 1]]
            T == {k \in 0..n : ~Has(k)}
<1>. SUFFICES ASSUME T # {}  PROVE  FALSE
  <2>1. n \in 0..n
    OBVIOUS
  <2>2. Has(n) => \E g : LoopRun(n, W, a, f, g)
    BY DEF LoopRun
  <2>. HIDE DEF Has
  <2>. QED
    BY <2>1, <2>2
<1>1. PICK k \in T : \A y \in T : k <= y
  <2>1. T \subseteq Nat
    OBVIOUS
  <2>. HIDE DEF T
  <2>. QED
    BY <2>1, LeastNatural
<1>2. k \in Nat /\ k <= n /\ ~Has(k)
  OBVIOUS
<1>3. CASE k = 0
  <2>. DEFINE g == [j \in 0..0 |-> a]
  <2>1. g \in [0..k -> W] /\ g[0] = a /\ \A j \in 1..k : g[j] = f[j][g[j - 1]]
    BY <1>3
  <2>. QED
    BY <1>2, <2>1
<1>4. CASE k # 0
  <2>1. k - 1 \in 0..n /\ k - 1 \notin T
    <3>. HIDE DEF T
    <3>. QED
      BY <1>1, <1>2, <1>4
  <2>2. Has(k - 1)
    BY <2>1
  <2>3. PICK h \in [0..(k - 1) -> W] : h[0] = a /\ \A j \in 1..(k - 1) : h[j] = f[j][h[j - 1]]
    BY <2>2
  <2>. DEFINE g == [j \in 0..k |-> IF j = k THEN f[k][h[k - 1]] ELSE h[j]]
  <2>4. \A j \in 0..k : j # k => j \in 0..(k - 1)
    BY <1>2
  <2>5. f[k][h[k - 1]] \in W
    <3>1. h[k - 1] \in W /\ k \in 1..n
      BY <1>2, <1>4
    <3>2. f[k] \in [W -> W]
      BY <3>1
    <3>. QED
      BY <3>1, <3>2
  <2>6. g \in [0..k -> W]
    BY <2>4, <2>5
  <2>7. g[0] = a
    BY <1>2, <1>4, <2>3
  <2>8. \A j \in 1..k : g[j] = f[j][g[j - 1]]
    <3>. TAKE j \in 1..k
    <3>1. j - 1 \in 0..k /\ j - 1 # k /\ j \in 0..k
      BY <1>2
    <3>2. g[j - 1] = h[j - 1]
      BY <3>1
    <3>3. CASE j = k
      BY <3>2, <3>3
    <3>4. CASE j # k
      <4>1. j \in 1..(k - 1)
        BY <1>2, <3>4
      <4>. QED
        BY <2>3, <3>1, <3>2, <3>4, <4>1
    <3>. QED
      BY <3>3, <3>4
  <2>. QED
    <3>. HIDE DEF g
    <3>. QED
      BY <1>2, <2>6, <2>7, <2>8
<1>. QED
  BY <1>3, <1>4

\* The tokens of the first n items of a file.
Joins(src, f) == [n \in 0..Len(src) |-> IF n = 0 THEN <<>> ELSE f[n - 1] \o src[n].tokens]

Joined(src, g) ==
  /\ g \in [0..Len(src) -> Seq(STRING)] /\ g[0] = <<>> /\ Check!Tokens(src) = g[Len(src)]
  /\ \A n \in 1..Len(src) : g[n] = g[n - 1] \o src[n].tokens

LEMMA TokensChosen == \A src : Check!Tokens(src) = (CHOOSE f : f = Joins(src, f))[Len(src)]
  BY DEF Check!Tokens, Joins

LEMMA ItemTokens ==
  ASSUME NEW src \in Seq(Check!Item), NEW n \in 1..Len(src)
  PROVE  src[n] \in Check!Item /\ src[n].tokens \in Seq(STRING) /\ Len(src[n].tokens) \in Nat
<1>1. src[n] \in Check!Item
  OBVIOUS
<1>2. src[n].tokens \in Seq(STRING)
  BY <1>1 DEF Check!Item
<1>. QED
  BY <1>1, <1>2

LEMMA TokensJoin ==
  ASSUME NEW src \in Seq(Check!Item)
  PROVE  \E g : Joined(src, g)
<1>. DEFINE e == Len(src)
            W == Seq(STRING)
            F == [n \in 1..e |-> [s \in W |-> s \o src[n].tokens]]
            none == <<>>
<1>0. e \in Nat
  OBVIOUS
<1>1. F \in [1..e -> [W -> W]]
  <2>1. \A n \in 1..e, s \in W : s \o src[n].tokens \in W
    BY ItemTokens, ConcatProperties
  <2>. QED
    BY <2>1
<1>2. none \in W
  OBVIOUS
<1>3. PICK g \in [0..e -> W] : g[0] = none /\ \A n \in 1..e : g[n] = F[n][g[n - 1]]
  <2>. HIDE DEF e, W, F, none
  <2>1. \E g : LoopRun(e, W, none, F, g)
    BY <1>0, <1>1, <1>2, LoopHas
  <2>. QED
    BY <2>1, Zenon DEF LoopRun
<1>4. \A n \in 1..e : n - 1 \in 0..e /\ g[n - 1] \in W
  BY <1>0
<1>5. \A n \in 1..e : g[n] = g[n - 1] \o src[n].tokens
  <2>. HIDE DEF W
  <2>. QED
    BY <1>3, <1>4
<1>6. g = Joins(src, g)
  <2>1. g = [n \in 0..e |-> g[n]]
    OBVIOUS
  <2>2. \A n \in 0..e : g[n] = IF n = 0 THEN <<>> ELSE g[n - 1] \o src[n].tokens
    <3>. TAKE n \in 0..e
    <3>1. CASE n = 0
      BY <1>3, <3>1
    <3>2. CASE n # 0
      <4>1. n \in 1..e
        BY <1>0, <3>2
      <4>. QED
        BY <1>5, <3>2, <4>1, Zenon
    <3>. QED
      BY <3>1, <3>2
  <2>. HIDE DEF W, F
  <2>. QED
    BY <2>1, <2>2 DEF Joins
<1>. DEFINE h == CHOOSE f : f = Joins(src, f)
<1>7. h = Joins(src, h)
  BY <1>6
<1>. HIDE DEF h
<1>8. h = [n \in 0..e |-> IF n = 0 THEN <<>> ELSE h[n - 1] \o src[n].tokens]
  BY <1>7 DEF Joins
<1>9. h[0] = <<>> /\ \A n \in 1..e : h[n] = h[n - 1] \o src[n].tokens
  <2>1. \A n \in 1..e : n \in 0..e /\ n # 0
    BY <1>0
  <2>2. 0 \in 0..e
    BY <1>0
  <2>. HIDE DEF e
  <2>. QED
    BY <1>8, <2>1, <2>2
<1>10. \A n \in 0..e : h[n] \in W
  <2>. DEFINE T == {n \in 0..e : h[n] \notin W}
  <2>. SUFFICES ASSUME T # {}  PROVE  FALSE
    OBVIOUS
  <2>1. PICK n \in T : \A y \in T : n <= y
    <3>1. T \subseteq Nat
      BY <1>0
    <3>. HIDE DEF T
    <3>. QED
      BY <3>1, LeastNatural
  <2>2. n \in 0..e /\ h[n] \notin W
    OBVIOUS
  <2>3. n # 0
    BY <1>2, <1>9, <2>2
  <2>4. n \in 1..e /\ n - 1 \in 0..e
    BY <1>0, <2>2, <2>3
  <2>5. n - 1 \notin T
    <3>. HIDE DEF T
    <3>. QED
      BY <1>0, <2>1, <2>2
  <2>6. h[n - 1] \in W
    BY <2>4, <2>5
  <2>7. h[n - 1] \o src[n].tokens \in W
    BY <2>4, <2>6, ItemTokens, ConcatProperties
  <2>. QED
    BY <1>9, <2>2, <2>4, <2>7
<1>11. h \in [0..e -> W]
  <2>. HIDE DEF W
  <2>. QED
    BY <1>8, <1>10
<1>12. Check!Tokens(src) = h[e]
  BY TokensChosen DEF h
<1>. QED
  BY <1>9, <1>11, <1>12 DEF Joined

\* u is s followed by t.
Adds(s, t, u) ==
  /\ Len(s) \in Nat /\ Len(t) \in Nat /\ Len(u) = Len(s) + Len(t)
  /\ \A c \in 1..Len(s) : u[c] = s[c]
  /\ \A m \in 1..Len(t) : u[Len(s) + m] = t[m]

\* An item is added behind the ones before it.
LEMMA JoinStep ==
  ASSUME NEW src \in Seq(Check!Item), NEW g, Joined(src, g), NEW n \in 1..Len(src)
  PROVE  Adds(g[n - 1], src[n].tokens, g[n])
<1>. DEFINE s == g[n - 1]
            t == src[n].tokens
            u == g[n]
<1>1. n - 1 \in 0..Len(src) /\ n \in 0..Len(src)
  OBVIOUS
<1>2. s \in Seq(STRING) /\ t \in Seq(STRING) /\ u = s \o t
  BY <1>1, ItemTokens DEF Joined
<1>. HIDE DEF s, t, u
<1>3. Len(s) \in Nat /\ Len(t) \in Nat /\ Len(u) = Len(s) + Len(t)
  BY <1>2
<1>4. \A c \in 1..Len(s) : u[c] = s[c]
  BY <1>2, <1>3
<1>5. \A m \in 1..Len(t) : u[Len(s) + m] = t[m]
  BY <1>2, <1>3
<1>6. Adds(s, t, u)
  BY <1>3, <1>4, <1>5 DEF Adds
<1>. QED
  BY <1>6 DEF s, t, u

\* What is joined stays.
Extends(s, u) == Len(s) <= Len(u) /\ \A c \in 1..Len(s) : u[c] = s[c]

LEMMA AddsExtends ==
  ASSUME NEW s, NEW t, NEW u, Adds(s, t, u)
  PROVE  Extends(s, u)
<1>1. Len(s) \in Nat /\ Len(t) \in Nat /\ Len(u) = Len(s) + Len(t)
  BY DEF Adds
<1>2. Len(s) <= Len(u)
  BY <1>1
<1>. QED
  BY <1>2 DEF Adds, Extends

LEMMA JoinGrows ==
  ASSUME NEW src \in Seq(Check!Item), NEW g, Joined(src, g), NEW n \in 0..Len(src)
  PROVE  \A l \in n..Len(src) : Extends(g[n], g[l])
<1>. DEFINE T == {l \in n..Len(src) : ~Extends(g[n], g[l])}
<1>0. Len(src) \in Nat /\ \A l \in 0..Len(src) : Len(g[l]) \in Nat
  BY DEF Joined
<1>. SUFFICES ASSUME T # {}  PROVE  FALSE
  OBVIOUS
<1>1. PICK l \in T : \A y \in T : l <= y
  <2>1. T \subseteq Nat
    BY <1>0
  <2>. HIDE DEF T
  <2>. QED
    BY <2>1, LeastNatural
<1>2. l \in n..Len(src) /\ ~Extends(g[n], g[l])
  OBVIOUS
<1>3. l # n
  BY <1>0, <1>2 DEF Extends
<1>4. l \in 1..Len(src) /\ l - 1 \in n..Len(src) /\ l - 1 \in 0..Len(src)
  BY <1>0, <1>2, <1>3
<1>5. l - 1 \notin T
  <2>. HIDE DEF T
  <2>. QED
    BY <1>0, <1>1, <1>4
<1>6. Extends(g[n], g[l - 1])
  BY <1>4, <1>5
<1>7. Extends(g[l - 1], g[l])
  BY <1>4, JoinStep, AddsExtends
<1>8. Len(g[n]) \in Nat /\ Len(g[l - 1]) \in Nat /\ Len(g[l]) \in Nat
  BY <1>0, <1>2, <1>4
<1>9. Extends(g[n], g[l])
  <2>1. Len(g[n]) <= Len(g[l])
    BY <1>6, <1>7, <1>8 DEF Extends
  <2>2. ASSUME NEW c \in 1..Len(g[n])  PROVE  g[l][c] = g[n][c]
    <3>1. c \in 1..Len(g[l - 1])
      BY <1>6, <1>8 DEF Extends
    <3>. QED
      BY <1>6, <1>7, <3>1 DEF Extends
  <2>. QED
    BY <2>1, <2>2 DEF Extends
<1>. QED
  BY <1>2, <1>9

\* Every item lies in the file behind the ones before it.
LEMMA ItemLies ==
  ASSUME NEW src \in Seq(Check!Item), NEW g, Joined(src, g), NEW n \in 1..Len(src)
  PROVE  Lies(Check!Tokens(src), Len(g[n - 1]), src[n].tokens)
<1>. DEFINE S == Check!Tokens(src)
            o == Len(g[n - 1])
            t == src[n].tokens
<1>1. S \in Seq(STRING) /\ t \in Seq(STRING) /\ S = g[Len(src)] /\ Len(src) \in 0..Len(src)
  BY ItemTokens DEF Joined
<1>2. n \in 0..Len(src) /\ Adds(g[n - 1], t, g[n])
  BY JoinStep
<1>3. Extends(g[n], S)
  <2>1. Len(src) \in n..Len(src)
    BY <1>2
  <2>. QED
    BY <1>1, <1>2, <2>1, JoinGrows
<1>. HIDE DEF S, o, t
<1>4. Len(S) \in Nat /\ o \in Nat /\ Len(t) \in Nat /\ Len(g[n]) = o + Len(t)
  BY <1>1, <1>2 DEF Adds, o
<1>5. o + Len(t) <= Len(S)
  BY <1>3, <1>4 DEF Extends
<1>6. ASSUME NEW m \in 1..Len(t)  PROVE  S[o + m] = t[m]
  <2>1. o + m \in 1..Len(g[n])
    BY <1>4
  <2>2. g[n][o + m] = t[m]
    BY <1>2 DEF Adds, o
  <2>. QED
    BY <1>3, <2>1, <2>2 DEF Extends
<1>7. Lies(S, o, t)
  BY <1>1, <1>4, <1>5, <1>6 DEF Lies
<1>. QED
  BY <1>7 DEF S, o, t

\* Every place in the file is one in an item.
InItem(src, g, c, n) == n \in 1..Len(src) /\ \E m \in 1..Len(src[n].tokens) : c = Len(g[n - 1]) + m

LEMMA PlaceInItem ==
  ASSUME NEW src \in Seq(Check!Item), NEW g, Joined(src, g), NEW c \in 1..Len(Check!Tokens(src))
  PROVE  \E n : InItem(src, g, c, n)
<1>. DEFINE T == {l \in 0..Len(src) : c <= Len(g[l])}
<1>0. /\ Len(src) \in Nat /\ \A l \in 0..Len(src) : Len(g[l]) \in Nat
      /\ Check!Tokens(src) = g[Len(src)] /\ Len(g[0]) = 0
  BY DEF Joined
<1>1. T # {} /\ T \subseteq Nat /\ c \in Nat \ {0}
  BY <1>0
<1>2. PICK l \in T : \A y \in T : l <= y
  <2>. HIDE DEF T
  <2>. QED
    BY <1>1, LeastNatural
<1>3. l \in 0..Len(src) /\ c <= Len(g[l])
  OBVIOUS
<1>4. l # 0
  BY <1>0, <1>1, <1>3
<1>5. l \in 1..Len(src) /\ l - 1 \in 0..Len(src)
  BY <1>0, <1>3, <1>4
<1>6. l - 1 \notin T
  <2>. HIDE DEF T
  <2>. QED
    BY <1>0, <1>2, <1>5
<1>7. ~(c <= Len(g[l - 1]))
  BY <1>5, <1>6
<1>8. Len(g[l - 1]) \in Nat /\ Len(src[l].tokens) \in Nat /\ Len(g[l]) = Len(g[l - 1]) + Len(src[l].tokens)
  <2>1. Adds(g[l - 1], src[l].tokens, g[l])
    BY <1>5, JoinStep
  <2>. QED
    BY <2>1 DEF Adds
<1>. DEFINE o == Len(g[l - 1])
            k == Len(src[l].tokens)
            e == Len(g[l])
<1>. HIDE DEF o, k, e
<1>9. c - o \in 1..k /\ c = o + (c - o)
  <2>1. o \in Nat /\ k \in Nat /\ e = o + k /\ c <= e /\ ~(c <= o) /\ c \in Nat
    BY <1>1, <1>3, <1>7, <1>8 DEF o, k, e
  <2>. QED
    BY ONLY <2>1
<1>. QED
  BY <1>5, <1>9 DEF InItem, o, k
-----------------------------------------------------------------------------
(* extract_function() *)

\* The token that follows one in a part of a file follows it in the file.
LEMMA NextToken ==
  ASSUME NEW S, NEW o, NEW t, Lies(S, o, t), NEW p \in 1..Len(t), NEW j \in 1..Len(t), Check!Follows(t, p, j)
  PROVE  Check!AfterBlank(S, o + p + 1) = o + j /\ S[o + j] = t[j]
<1>0. o \in Nat /\ Len(t) \in Nat /\ Len(S) \in Nat /\ o + Len(t) <= Len(S) /\ S \in Seq(STRING)
  BY DEF Lies
<1>1. p < j /\ t[j] # "blank" /\ \A k \in p + 1..j - 1 : t[k] = "blank"
  BY DEF Check!Follows
<1>2. o + p + 1 \in 1..Len(S) /\ o + j \in (o + p + 1)..Len(S)
  BY <1>0, <1>1
<1>3. S[o + j] = t[j]
  BY DEF Lies
<1>4. ASSUME NEW k \in (o + p + 1)..(o + j) - 1  PROVE  S[k] = "blank"
  <2>. DEFINE l == k - o
  <2>1. l \in p + 1..j - 1 /\ l \in 1..Len(t) /\ o + l = k
    BY <1>0, <1>1
  <2>2. t[l] = "blank"
    BY <1>1, <2>1
  <2>. HIDE DEF l
  <2>. QED
    BY <2>1, <2>2 DEF Lies
<1>5. Check!AfterBlank(S, o + p + 1) = o + j
  BY <1>0, <1>1, <1>2, <1>3, <1>4, BlankEnds
<1>. QED
  BY <1>3, <1>5

\* The search for a bracket's end stays in the part that holds both.
LEMMA PartCloses ==
  ASSUME NEW S, NEW o, NEW t, Lies(S, o, t), NEW p \in 1..Len(t), NEW k \in 1..Len(t), NEW a, NEW b,
         Check!Pair(t, p, k, a, b)
  PROVE  Check!Closes(S, o + p, a, b) = o + k
<1>1. Check!Pair(S, o + p, o + k, a, b)
  BY PairShifts
<1>2. S \in Seq(STRING) /\ o + p \in 1..Len(S) /\ o + k \in 1..Len(S)
  BY DEF Lies
<1>. QED
  BY <1>1, <1>2, PairCloses

\* What Defined tests, with the places named.
LEMMA DefinedMeans ==
  ASSUME NEW s, NEW c, NEW name, NEW a, NEW p, NEW j, s[c] = name,
         Check!AfterBlank(s, c + 1) = a, a <= Len(s), s[a] = "(",
         Check!Closes(s, a, "(", ")") = p, Check!AfterBlank(s, p + 1) = j, ~(p > Len(s)), j <= Len(s)
  PROVE  Check!Defined(s, c, name) <=> s[j] = "{" /\ Check!Closes(s, j, "{", "}") <= Len(s)
  BY DEF Check!Defined

\* Where the e tokens of a definition behind o have their argument list, from the a-th on,
\* and their end.
Ending(S, o, a, e) ==
  \E p, j \in 1..Len(S) : /\ Check!AfterBlank(S, o + 2) = o + a
                          /\ Check!Closes(S, o + a, "(", ")") = p
                          /\ Check!AfterBlank(S, p + 1) = j
                          /\ Check!Closes(S, j, "{", "}") = o + e

\* The argument list of a definition begins at its a-th token.
Opens(it, a) == a \in 2..Len(it.tokens) /\ Check!Follows(it.tokens, 1, a)

HeadJudged(S, o, it, fn, m) ==
  /\ Check!Defined(S, o + m, fn) <=> m = 1 /\ Check!Defines(it, fn)
  /\ m = 1 /\ Check!Defines(it, fn) => \E a : Opens(it, a) /\ Ending(S, o, a, Len(it.tokens))

\* A name has one token behind it.
LEMMA OneFollows ==
  ASSUME NEW s, NEW p \in Int, NEW j \in Int, NEW k \in Int, Check!Follows(s, p, j), Check!Follows(s, p, k)
  PROVE  j = k
<1>1. ~(j < k) /\ ~(k < j)
  BY DEF Check!Follows
<1>. QED
  BY <1>1

\* A name at place m of an item is the head of a definition exactly if the item defines it
\* and begins there; the definition then ends with the item.
LEMMA HeadOfItem ==
  ASSUME NEW S, NEW o, NEW it, Lies(S, o, it.tokens), NEW names, Check!WellFormed(it, names), NEW fn \in names,
         NEW m \in 1..Len(it.tokens), S[o + m] = fn
  PROVE  HeadJudged(S, o, it, fn, m)
<1>. DEFINE t == it.tokens
            e == Len(t)
<1>0. /\ o \in Nat /\ e \in Nat /\ Len(S) \in Nat /\ o + e <= Len(S) /\ S \in Seq(STRING)
      /\ \A k \in 1..e : S[o + k] = t[k]
  BY DEF Lies
<1>1. t[m] = fn /\ m \in 1..e
  BY <1>0
<1>2. PICK a \in m + 1..Len(t) :
        /\ Check!Follows(t, m, a)
        /\ t[a] = "(" => \E p \in a + 1..Len(t) : Check!Applied(it, m, a, p)
  BY <1>1 DEF Check!WellFormed
<1>3. a \in 1..e /\ a \in Int /\ o + a <= Len(S)
  BY <1>0, <1>1
<1>4. Check!AfterBlank(S, o + m + 1) = o + a /\ S[o + a] = t[a]
  BY <1>1, <1>2, <1>3, NextToken
<1>5. CASE t[a] # "("
  <2>1. ~Check!Defined(S, o + m, fn)
    BY <1>4, <1>5 DEF Check!Defined
  <2>2. ASSUME m = 1, Check!Defines(it, fn)  PROVE  FALSE
    <3>1. PICK q \in 2..Len(t) : Check!Follows(t, 1, q) /\ t[q] = "("
      BY <2>2 DEF Check!WellFormed, Check!Defines
    <3>2. q = a
      BY <1>2, <1>3, <2>2, <3>1, OneFollows
    <3>. QED
      BY <1>5, <3>1, <3>2
  <2>. QED
    BY <2>1, <2>2 DEF HeadJudged
<1>6. CASE t[a] = "("
  <2>1. PICK p \in a + 1..Len(t) : Check!Applied(it, m, a, p)
    BY <1>2, <1>6
  <2>2. PICK j \in p + 1..Len(t) :
          /\ Check!Follows(t, p, j)
          /\ IF m = 1 /\ Check!Defines(it, t[m]) THEN t[j] = "{" /\ Check!Pair(t, j, e, "{", "}")
             ELSE t[j] # "{"
    BY <2>1 DEF Check!Applied
  <2>3. Check!Pair(t, a, p, "(", ")")
    BY <2>1 DEF Check!Applied
  <2>4. Lies(S, o, t)
    OBVIOUS
  <2>. HIDE DEF t, e
  <2>5. /\ p \in 1..e /\ j \in 1..e /\ o + p \in 1..Len(S) /\ o + j \in 1..Len(S) /\ e \in 1..e
        /\ o + e \in 1..Len(S) /\ o + a \in 1..Len(S)
    <3>1. p \in a + 1..e /\ j \in p + 1..e
      BY DEF e
    <3>. QED
      BY ONLY <1>0, <1>1, <1>3, <3>1
  <2>6. Check!Closes(S, o + a, "(", ")") = o + p
    BY <1>3, <2>3, <2>4, <2>5, PartCloses DEF e
  <2>7. Check!AfterBlank(S, o + p + 1) = o + j /\ S[o + j] = t[j]
    <3>1. Check!Follows(t, p, j)
      BY <2>2, Zenon
    <3>2. p \in 1..Len(t) /\ j \in 1..Len(t)
      BY <2>5 DEF e
    <3>. QED
      BY ONLY <2>4, <3>1, <3>2, NextToken, SMTT(30)
  <2>8. Check!Defined(S, o + m, fn) <=> S[o + j] = "{" /\ Check!Closes(S, o + j, "{", "}") <= Len(S)
    <3>1. ~(o + p > Len(S)) /\ o + j <= Len(S)
      BY <1>0, <2>5
    <3>. QED
      BY <1>3, <1>4, <1>6, <2>6, <2>7, <3>1, DefinedMeans
  <2>9. CASE m = 1 /\ Check!Defines(it, fn)
    <3>1. t[j] = "{" /\ Check!Pair(t, j, e, "{", "}")
      BY <1>1, <2>2, <2>9
    <3>2. Check!Closes(S, o + j, "{", "}") = o + e
      <4>1. j \in 1..Len(t) /\ e \in 1..Len(t)
        BY <2>5 DEF e
      <4>2. Check!Pair(t, j, e, "{", "}")
        BY <3>1, Zenon
      <4>3. PICK l, r : l = "{" /\ r = "}"
        OBVIOUS
      <4>4. Check!Pair(t, j, e, l, r)
        BY ONLY <4>2, <4>3, Zenon
      <4>5. Check!Closes(S, o + j, l, r) = o + e
        BY ONLY <2>4, <4>1, <4>4, PartCloses, SMTT(30)
      <4>. QED
        BY ONLY <4>3, <4>5, Zenon
    <3>3. o + m + 1 = o + 2 /\ o + e <= Len(S) /\ a \in 2..e
      BY <1>0, <1>1, <2>9 DEF e
    <3>4. Check!Defined(S, o + m, fn)
      BY <2>7, <2>8, <3>1, <3>2, <3>3
    <3>5. Opens(it, a)
      BY <1>2, <2>9, <3>3 DEF Opens, e, t
    <3>6. Ending(S, o, a, e)
      BY <1>4, <2>5, <2>6, <2>7, <3>2, <3>3 DEF Ending
    <3>. QED
      BY <2>9, <3>4, <3>5, <3>6 DEF HeadJudged, e, t
  <2>10. CASE ~(m = 1 /\ Check!Defines(it, fn))
    <3>1. t[j] # "{"
      BY <1>1, <2>2, <2>10
    <3>. QED
      BY <2>7, <2>8, <2>10, <3>1 DEF HeadJudged
  <2>. QED
    BY <2>9, <2>10
<1>. QED
  BY <1>5, <1>6

\* The least element of a set of numbers.
Least(T, x) == x \in T /\ \A y \in T : x <= y

LEMMA LeastIsChosen ==
  ASSUME NEW T, T \subseteq Nat, NEW x, Least(T, x)
  PROVE  x = CHOOSE y \in T : \A z \in T : y <= z
<1>. DEFINE c == CHOOSE y \in T : \A z \in T : y <= z
<1>1. c \in T /\ \A z \in T : c <= z
  BY DEF Least
<1>. HIDE DEF c
<1>2. c <= x /\ x <= c /\ x \in Nat /\ c \in Nat
  BY <1>1 DEF Least
<1>3. x = c
  BY <1>2
<1>. QED
  BY <1>3 DEF c

\* The places where extract_function sees a definition.
Heads(s, name) == {m \in 1..Len(s) : Check!Defined(s, m, name)}

\* What extract_function returns, with the places named.
Spans(s, c, a, p, j, k) ==
  /\ c \in Nat /\ Len(s) \in Nat
  /\ Check!AfterBlank(s, c + 1) = a
  /\ Check!Closes(s, a, "(", ")") = p /\ Check!AfterBlank(s, p + 1) = j /\ Check!Closes(s, j, "{", "}") = k
  /\ ~(p > Len(s)) /\ ~(j > Len(s)) /\ ~(k > Len(s))

LEMMA ExtractMeans ==
  ASSUME NEW s, NEW name, NEW c, Least(Heads(s, name), c), NEW a, NEW p, NEW j, NEW k, Spans(s, c, a, p, j, k)
  PROVE  Check!extract_function(s, name) = <<name>> \o SubSeq(s, a, k)
<1>. DEFINE defs == {m \in 1..Len(s) : Check!Defined(s, m, name)}
            d == CHOOSE m \in defs : \A n \in defs : m <= n
<1>1. defs # {} /\ d = c
  <2>1. Least(defs, c)
    BY Zenon DEF Heads
  <2>2. defs \subseteq Nat
    <3>1. defs \subseteq 1..Len(s)
      BY Zenon
    <3>2. \A l \in Nat : 1..l \subseteq Nat
      BY ONLY TRUE
    <3>. HIDE DEF defs
    <3>. QED
      BY <3>1, <3>2, Zenon DEF Spans
  <2>. HIDE DEF defs
  <2>. QED
    BY <2>1, <2>2, LeastIsChosen DEF Least
<1>2. Check!extract_function(s, name) =
        LET a1 == Check!AfterBlank(s, d + 1)
            i1 == Check!Closes(s, a1, "(", ")")
            j1 == IF i1 > Len(s) THEN i1 ELSE Check!AfterBlank(s, i1 + 1)
            k1 == IF j1 > Len(s) THEN Len(s) ELSE Check!Closes(s, j1, "{", "}")
        IN  <<name>> \o SubSeq(s, a1, IF k1 > Len(s) THEN Len(s) ELSE k1)
  BY <1>1, Zenon DEF Check!extract_function
<1>. HIDE DEF d
<1>. QED
  BY <1>1, <1>2 DEF Spans

\* The part of a file that an item is from its a-th token on.
LEMMA PartIs ==
  ASSUME NEW S, NEW o, NEW t, Lies(S, o, t), NEW a \in 1..Len(t)
  PROVE  SubSeq(S, o + a, o + Len(t)) = SubSeq(t, a, Len(t))
<1>. DEFINE e == Len(t)
            lo == o + a
            hi == o + e
            u == SubSeq(S, lo, hi)
            v == SubSeq(t, a, e)
<1>0. /\ S \in Seq(STRING) /\ t \in Seq(STRING) /\ o \in Nat /\ o + e <= Len(S) /\ e \in Nat /\ Len(S) \in Nat
      /\ \A m \in 1..e : S[o + m] = t[m]
  BY DEF Lies
<1>1. lo \in Int /\ hi \in Int /\ lo <= hi /\ a <= e /\ hi - lo + 1 = e - a + 1 /\ e - a + 1 \in Nat
  BY <1>0
<1>2. (\A m \in lo..hi : S[m] \in STRING) /\ (\A m \in a..e : t[m] \in STRING)
  BY <1>0
<1>3. \A m \in 1..e - a + 1 : a + m - 1 \in 1..e /\ lo + m - 1 = o + (a + m - 1)
  BY <1>0
<1>4. u = SubSeq(S, lo, hi) /\ v = SubSeq(t, a, e) /\ a \in Int /\ e \in Int
  BY <1>0
<1>. HIDE DEF u, v, lo, hi, e
<1>5. u \in Seq(STRING) /\ Len(u) = hi - lo + 1 /\ \A m \in 1..hi - lo + 1 : u[m] = S[lo + m - 1]
  BY <1>1, <1>2, <1>4, SubSeqProperties
<1>6. v \in Seq(STRING) /\ Len(v) = e - a + 1 /\ \A m \in 1..e - a + 1 : v[m] = t[a + m - 1]
  BY <1>1, <1>2, <1>4, SubSeqProperties
<1>7. u = v
  <2>1. Len(u) = Len(v) /\ \A m \in 1..Len(u) : u[m] = v[m]
    BY <1>0, <1>1, <1>3, <1>5, <1>6
  <2>. QED
    BY <1>5, <1>6, <2>1, SeqEqual
<1>. QED
  BY <1>7 DEF u, v, lo, hi, e

\* The text of a definition whose argument list begins at a.
LEMMA TextIs ==
  ASSUME NEW it, it.tokens \in Seq(STRING), NEW a, Opens(it, a)
  PROVE  /\ Check!Text(it) = <<it.tokens[1]>> \o SubSeq(it.tokens, a, Len(it.tokens))
         /\ Check!Text(it) # <<>>
<1>. DEFINE t == it.tokens
            v == SubSeq(t, a, Len(t))
<1>1. /\ t \in Seq(STRING) /\ Len(t) \in Nat /\ a \in 2..Len(t) /\ a \in 1..Len(t) /\ 2 \in 1..Len(t)
      /\ t[a] # "blank" /\ \A k \in 2..a - 1 : t[k] = "blank"
  <2>1. \A k \in 2..a - 1 : k \in 1 + 1..a - 1
    OBVIOUS
  <2>. QED
    BY <2>1 DEF Opens, Check!Follows
<1>2. Check!AfterBlank(t, 2) = a
  <2>. HIDE DEF t
  <2>. QED
    BY ONLY <1>1, BlankEnds
<1>3. Check!Text(it) = <<t[1]>> \o v
  BY <1>2 DEF Check!Text
<1>4. v \in Seq(STRING) /\ <<t[1]>> \in Seq(STRING) /\ Len(<<t[1]>>) = 1
  <2>1. v \in Seq(STRING)
    <3>1. \A k \in a..Len(t) : t[k] \in STRING
      BY <1>1
    <3>2. a \in Int /\ Len(t) \in Int
      BY <1>1
    <3>. HIDE DEF t
    <3>. QED
      BY <3>1, <3>2, SubSeqProperties
  <2>. HIDE DEF v
  <2>. QED
    BY <1>1, <2>1
<1>. HIDE DEF v
<1>5. <<t[1]>> \o v # <<>>
  BY <1>4
<1>. QED
  BY <1>3, <1>5 DEF v

\* A definition of fn is an item that begins with the name.
LEMMA DefinitionHead ==
  ASSUME NEW src, NEW names, Check!IsFile(src, names), NEW fn \in names, NEW g, Joined(src, g),
         NEW n \in Check!Definitions(src, fn)
  PROVE  /\ n \in 1..Len(src) /\ Len(g[n - 1]) \in Nat /\ Len(src[n].tokens) \in Nat \ {0}
         /\ Lies(Check!Tokens(src), Len(g[n - 1]), src[n].tokens)
         /\ Check!WellFormed(src[n], names) /\ Check!Defines(src[n], fn)
         /\ Check!Tokens(src)[Len(g[n - 1]) + 1] = fn
<1>1. src \in Seq(Check!Item) /\ n \in 1..Len(src) /\ Check!WellFormed(src[n], names) /\ Check!Defines(src[n], fn)
  BY DEF Check!IsFile, Check!Definitions
<1>2. Lies(Check!Tokens(src), Len(g[n - 1]), src[n].tokens)
  BY <1>1, ItemLies
<1>3. Len(src[n].tokens) \in Nat /\ Len(g[n - 1]) \in Nat
  BY <1>2 DEF Lies
<1>4. Len(src[n].tokens) > 0 /\ src[n].tokens[1] = fn
  BY <1>1 DEF Check!WellFormed, Check!Defines
<1>5. 1 \in 1..Len(src[n].tokens)
  BY <1>3, <1>4
<1>6. Check!Tokens(src)[Len(g[n - 1]) + 1] = fn
  BY <1>2, <1>4, <1>5 DEF Lies
<1>. QED
  BY <1>1, <1>2, <1>3, <1>4, <1>6

LEMMA DefinitionFound ==
  ASSUME NEW src, NEW names, Check!IsFile(src, names), NEW fn \in names, NEW g, Joined(src, g),
         NEW n \in Check!Definitions(src, fn)
  PROVE  /\ Len(g[n - 1]) + 1 \in Heads(Check!Tokens(src), fn)
         /\ \E a : Opens(src[n], a) /\ Ending(Check!Tokens(src), Len(g[n - 1]), a, Len(src[n].tokens))
<1>. DEFINE S == Check!Tokens(src)
            o == Len(g[n - 1])
            it == src[n]
<1>1. /\ Lies(S, o, it.tokens) /\ Check!WellFormed(it, names) /\ Check!Defines(it, fn) /\ S[o + 1] = fn
      /\ o \in Nat /\ Len(it.tokens) \in Nat \ {0}
  BY DefinitionHead
<1>. HIDE DEF S, o, it
<1>2. 1 \in 1..Len(it.tokens) /\ Len(S) \in Nat /\ o + 1 \in 1..Len(S)
  BY <1>1 DEF Lies
<1>3. Check!Defined(S, o + 1, fn) /\ \E a : Opens(it, a) /\ Ending(S, o, a, Len(it.tokens))
  <2>. DEFINE m == 1
  <2>1. m \in 1..Len(it.tokens) /\ S[o + m] = fn /\ m = 1
    BY <1>1, <1>2
  <2>. HIDE DEF m
  <2>2. HeadJudged(S, o, it, fn, m)
    BY <1>1, <2>1, HeadOfItem, Zenon
  <2>. QED
    BY <1>1, <2>1, <2>2 DEF HeadJudged
<1>. QED
  BY <1>2, <1>3 DEF Heads, S, o, it

\* Nothing else is taken for a definition.
LEMMA FoundDefinition ==
  ASSUME NEW src, NEW names, Check!IsFile(src, names), NEW fn \in names, NEW g, Joined(src, g),
         NEW c \in Heads(Check!Tokens(src), fn)
  PROVE  \E n \in Check!Definitions(src, fn) : c = Len(g[n - 1]) + 1
<1>1. src \in Seq(Check!Item) /\ c \in 1..Len(Check!Tokens(src)) /\ Check!Defined(Check!Tokens(src), c, fn)
  BY DEF Check!IsFile, Heads
<1>2. PICK n : InItem(src, g, c, n)
  BY <1>1, PlaceInItem
<1>3. PICK m \in 1..Len(src[n].tokens) : c = Len(g[n - 1]) + m
  BY <1>2 DEF InItem
<1>. DEFINE S == Check!Tokens(src)
            o == Len(g[n - 1])
            it == src[n]
<1>4. n \in 1..Len(src) /\ Check!WellFormed(it, names) /\ Lies(S, o, it.tokens)
  BY <1>1, <1>2, ItemLies DEF InItem, Check!IsFile
<1>5. S[o + m] = fn /\ m \in 1..Len(it.tokens)
  BY <1>1, <1>3 DEF Check!Defined
<1>8. Check!Defined(S, o + m, fn)
  BY <1>1, <1>3
<1>. HIDE DEF S, o, it
<1>6. HeadJudged(S, o, it, fn, m)
  BY <1>4, <1>5, HeadOfItem, Zenon
<1>7. m = 1 /\ Check!Defines(it, fn)
  BY <1>8, <1>6, Zenon DEF HeadJudged
<1>. QED
  BY <1>3, <1>4, <1>7 DEF Check!Definitions, o, it

\* Later definitions begin later.
LEMMA DefinitionsInOrder ==
  ASSUME NEW src \in Seq(Check!Item), NEW g, Joined(src, g), NEW n \in 1..Len(src), NEW l \in 1..Len(src), n <= l
  PROVE  Len(g[n - 1]) <= Len(g[l - 1])
<1>1. n - 1 \in 0..Len(src) /\ l - 1 \in (n - 1)..Len(src)
  OBVIOUS
<1>2. Extends(g[n - 1], g[l - 1])
  BY <1>1, JoinGrows
<1>. QED
  BY <1>2 DEF Extends

\* extract_function returns the tokens of the first definition, and none if there is none.
LEMMA ExtractFinds ==
  ASSUME NEW src, NEW names, Check!IsFile(src, names), NEW fn \in names
  PROVE  /\ Check!extract_function(Check!Tokens(src), fn) =
              IF Check!Definitions(src, fn) = {} THEN <<>> ELSE Check!Text(Check!FirstOf(src, fn))
         /\ Check!Definitions(src, fn) # {} =>
              /\ Check!Text(Check!FirstOf(src, fn)) # <<>> /\ Check!Defines(Check!FirstOf(src, fn), fn)
              /\ \E n \in 1..Len(src) : Check!FirstOf(src, fn) = src[n]
<1>. DEFINE S == Check!Tokens(src)
            D == Check!Definitions(src, fn)
            defs == Heads(S, fn)
<1>0. src \in Seq(Check!Item) /\ Len(src) \in Nat
  BY DEF Check!IsFile
<1>1. PICK g : Joined(src, g)
  BY <1>0, TokensJoin
<1>2. \A n \in D : Len(g[n - 1]) + 1 \in defs
  BY <1>1, DefinitionFound
<1>3. \A c \in defs : \E n \in D : c = Len(g[n - 1]) + 1
  BY <1>1, FoundDefinition
<1>4. CASE D = {}
  <2>1. defs = {}
    BY <1>3, <1>4
  <2>2. Check!extract_function(S, fn) = <<>>
    BY <2>1, Zenon DEF Check!extract_function, Heads
  <2>. QED
    BY <1>4, <2>2
<1>5. CASE D # {}
  <2>. DEFINE f == CHOOSE n \in D : \A l \in D : n <= l
              o == Len(g[f - 1])
              it == src[f]
  <2>1. D \subseteq 1..Len(src) /\ D \subseteq Nat
    BY <1>0 DEF Check!Definitions
  <2>2. f \in D /\ \A l \in D : f <= l
    <3>. HIDE DEF D
    <3>. QED
      BY <1>5, <2>1, LeastNatural
  <2>3. Check!FirstOf(src, fn) = it
    BY DEF Check!FirstOf
  <2>. HIDE DEF f
  <2>4. /\ f \in 1..Len(src) /\ o \in Nat /\ Len(it.tokens) \in Nat \ {0} /\ Lies(S, o, it.tokens)
        /\ Check!Defines(it, fn)
    BY <1>1, <2>2, DefinitionHead
  <2>5. PICK a : Opens(it, a) /\ Ending(S, o, a, Len(it.tokens))
    BY <1>1, <2>2, DefinitionFound
  <2>6. Least(defs, o + 1)
    <3>1. o + 1 \in defs
      BY <1>2, <2>2
    <3>2. ASSUME NEW c \in defs  PROVE  o + 1 <= c
      <4>. HIDE DEF defs
      <4>1. PICK n \in D : c = Len(g[n - 1]) + 1
        BY <1>3
      <4>2. f <= n /\ n \in 1..Len(src)
        BY <2>1, <2>2
      <4>3. o <= Len(g[n - 1])
        BY <1>0, <1>1, <2>4, <4>2, DefinitionsInOrder
      <4>4. Len(g[n - 1]) \in Nat
        BY <1>1, <4>1, DefinitionHead
      <4>. DEFINE b == Len(g[n - 1])
      <4>. HIDE DEF b, o
      <4>5. b \in Nat /\ o \in Nat /\ o <= b /\ c = b + 1
        BY <2>4, <4>1, <4>3, <4>4 DEF b
      <4>. QED
        BY ONLY <4>5
    <3>. HIDE DEF defs
    <3>. QED
      BY <3>1, <3>2 DEF Least
  <2>. HIDE DEF o, it, D
  <2>7. PICK p, j \in 1..Len(S) : /\ Check!AfterBlank(S, o + 2) = o + a
                                  /\ Check!Closes(S, o + a, "(", ")") = p
                                  /\ Check!AfterBlank(S, p + 1) = j
                                  /\ Check!Closes(S, j, "{", "}") = o + Len(it.tokens)
    BY <2>5 DEF Ending
  <2>. DEFINE e == Len(it.tokens)
  <2>8. Len(S) \in Nat /\ o + e <= Len(S) /\ e \in Nat \ {0} /\ o \in Nat
    BY <2>4 DEF Lies
  <2>9. o + 1 \in Nat /\ o + 1 + 1 = o + 2 /\ ~(p > Len(S)) /\ ~(j > Len(S)) /\ ~(o + e > Len(S))
    <3>. HIDE DEF e, S
    <3>. QED
      BY ONLY <2>8, p \in 1..Len(S), j \in 1..Len(S)
  <2>10. Check!extract_function(S, fn) = <<fn>> \o SubSeq(S, o + a, o + e)
    <3>1. Check!AfterBlank(S, o + 1 + 1) = o + a
      BY <2>7, <2>9
    <3>. DEFINE c == o + 1
                b == o + a
                k == o + e
    <3>2. Least(Heads(S, fn), c) /\ Spans(S, c, b, p, j, k)
      BY <2>6, <2>7, <2>8, <2>9, <3>1 DEF Spans
    <3>. HIDE DEF S, c, b, k
    <3>3. Check!extract_function(S, fn) = <<fn>> \o SubSeq(S, b, k)
      BY ONLY <3>2, ExtractMeans, Zenon
    <3>. QED
      BY <3>3 DEF b, c, k
  <2>11. SubSeq(S, o + a, o + e) = SubSeq(it.tokens, a, e)
    <3>1. a \in 1..Len(it.tokens)
      BY <2>5, <2>8 DEF Opens
    <3>. QED
      BY <2>4, <3>1, PartIs
  <2>12. it.tokens \in Seq(STRING) /\ it.tokens[1] = fn
    <3>1. 1 \in 1..Len(it.tokens) /\ S[o + 1] = fn
      <4>1. S[o + 1] = fn
        BY <1>1, <2>2, DefinitionHead DEF o, D
      <4>. QED
        BY <2>8, <4>1
    <3>. QED
      BY <2>4, <3>1 DEF Lies
  <2>13. Check!Text(it) = <<fn>> \o SubSeq(it.tokens, a, e) /\ Check!Text(it) # <<>>
    BY <2>5, <2>12, TextIs
  <2>. QED
    BY <1>5, <2>3, <2>4, <2>10, <2>11, <2>13 DEF D, it
<1>. QED
  BY <1>4, <1>5

\* The n-th copy is defined in both files, and an exact one has the kernel's body.
Good(n) ==
  LET pair == SHIM_COPIES[n]
  IN  /\ Check!Definitions(shim, pair.shim) # {} /\ Check!Definitions(kernel, pair.kernel) # {}
      /\ pair.exact => Check!FirstOf(shim, pair.shim).body = Check!FirstOf(kernel, pair.kernel).body

ShimNames == {SHIM_COPIES[n].shim : n \in 1..Len(SHIM_COPIES)}
KernelNames == {SHIM_COPIES[n].kernel : n \in 1..Len(SHIM_COPIES)}

LEMMA DriftFacts ==
  /\ Len(SHIM_COPIES) \in Nat \ {0}
  /\ \A n \in 1..Len(SHIM_COPIES) : SHIM_COPIES[n].shim \in ShimNames /\ SHIM_COPIES[n].kernel \in KernelNames
  /\ \A src \in ShimFiles : Check!IsFile(src, ShimNames)
  /\ \A src \in KernelFiles \ {NoFile} : Check!IsFile(src, KernelNames)
<1>1. SHIM_COPIES \in Seq([shim : STRING, kernel : STRING, exact : BOOLEAN]) /\ SHIM_COPIES # <<>>
  BY PartsAssumption DEF Check!DriftAssumption
<1>2. Len(SHIM_COPIES) \in Nat \ {0}
  BY <1>1
<1>3. /\ \A src \in ShimFiles : Check!IsFile(src, ShimNames)
      /\ \A src \in KernelFiles \ {NoFile} : Check!IsFile(src, KernelNames)
  BY PartsAssumption, Zenon DEF Check!DriftAssumption, ShimNames, KernelNames
<1>. QED
  BY <1>2, <1>3 DEF ShimNames, KernelNames

\* For an exact copy, the bodies of two definitions agree as normalize says.
LEMMA BodiesAgree ==
  ASSUME NEW n \in 1..Len(SHIM_COPIES), SHIM_COPIES[n].exact,
         NEW f \in ShimFiles, NEW l \in 1..Len(f), Check!Defines(f[l], SHIM_COPIES[n].shim),
         NEW k \in KernelFiles \ {NoFile}, NEW q \in 1..Len(k), Check!Defines(k[q], SHIM_COPIES[n].kernel)
  PROVE  Check!SameBody(f[l], k[q], SHIM_COPIES[n])
<1>1. f[l] \in Check!ItemsOf(ShimFiles) /\ k[q] \in Check!ItemsOf(KernelFiles \ {NoFile})
  BY DEF Check!ItemsOf
<1>. QED
  BY <1>1, PartsAssumption, Zenon DEF Check!DriftAssumption

\* Judge() reports an error exactly for a copy that is not good.
LEMMA JudgeExact ==
  ASSUME shim \in ShimFiles, kernel \in KernelFiles, kernel # NoFile, NEW n \in 1..Len(SHIM_COPIES)
  PROVE  Check!Judge(SHIM_COPIES[n], Check!extract_function(Check!Tokens(shim), SHIM_COPIES[n].shim),
                     Check!extract_function(Check!Tokens(kernel), SHIM_COPIES[n].kernel)) = "error" <=> ~Good(n)
<1>. DEFINE pair == SHIM_COPIES[n]
            a == Check!extract_function(Check!Tokens(shim), pair.shim)
            b == Check!extract_function(Check!Tokens(kernel), pair.kernel)
            x == Check!FirstOf(shim, pair.shim)
            y == Check!FirstOf(kernel, pair.kernel)
<1>1. /\ Check!IsFile(shim, ShimNames) /\ Check!IsFile(kernel, KernelNames)
      /\ pair.shim \in ShimNames /\ pair.kernel \in KernelNames
  BY DriftFacts
<1>2. /\ a = IF Check!Definitions(shim, pair.shim) = {} THEN <<>> ELSE Check!Text(x)
      /\ Check!Definitions(shim, pair.shim) # {} =>
           /\ Check!Text(x) # <<>> /\ Check!Defines(x, pair.shim) /\ \E l \in 1..Len(shim) : x = shim[l]
  BY <1>1, ExtractFinds
<1>3. /\ b = IF Check!Definitions(kernel, pair.kernel) = {} THEN <<>> ELSE Check!Text(y)
      /\ Check!Definitions(kernel, pair.kernel) # {} =>
           /\ Check!Text(y) # <<>> /\ Check!Defines(y, pair.kernel) /\ \E l \in 1..Len(kernel) : y = kernel[l]
  BY <1>1, ExtractFinds
<1>4. Good(n) <=> /\ Check!Definitions(shim, pair.shim) # {} /\ Check!Definitions(kernel, pair.kernel) # {}
                  /\ pair.exact => x.body = y.body
  BY DEF Good
<1>5. CASE Check!Definitions(shim, pair.shim) = {} \/ Check!Definitions(kernel, pair.kernel) = {}
  <2>1. a = <<>> \/ b = <<>>
    BY <1>2, <1>3, <1>5
  <2>. HIDE DEF a, b, pair
  <2>2. Check!Judge(pair, a, b) = "error"
    BY <2>1 DEF Check!Judge
  <2>. QED
    BY <1>4, <1>5, <2>2 DEF a, b, pair
<1>6. CASE Check!Definitions(shim, pair.shim) # {} /\ Check!Definitions(kernel, pair.kernel) # {}
  <2>1. a = Check!Text(x) /\ b = Check!Text(y) /\ a # <<>> /\ b # <<>>
    BY <1>2, <1>3, <1>6
  <2>2. pair.exact => Check!SameBody(x, y, pair)
    <3>1. PICK l \in 1..Len(shim) : x = shim[l]
      BY <1>2, <1>6
    <3>2. PICK q \in 1..Len(kernel) : y = kernel[q]
      BY <1>3, <1>6
    <3>3. Check!Defines(shim[l], pair.shim) /\ Check!Defines(kernel[q], pair.kernel)
      BY <1>2, <1>3, <1>6, <3>1, <3>2
    <3>4. pair.exact => Check!SameBody(shim[l], kernel[q], pair)
      BY <3>3, BodiesAgree
    <3>. QED
      BY <3>1, <3>2, <3>4
  <2>3. Check!Judge(pair, a, b) = "error" <=>
          pair.exact /\ Check!normalize(a, pair.shim, pair.kernel) # Check!normalize(b, pair.kernel, pair.kernel)
    <3>. HIDE DEF a, b, pair
    <3>. QED
      BY <2>1, Zenon DEF Check!Judge
  <2>. HIDE DEF a, b, x, y, pair
  <2>4. pair.exact =>
          (x.body = y.body <=>
             Check!normalize(a, pair.shim, pair.kernel) = Check!normalize(b, pair.kernel, pair.kernel))
    BY <2>1, <2>2, Zenon DEF Check!SameBody
  <2>5. Check!Judge(pair, a, b) = "error" <=> ~Good(n)
    BY <1>4, <1>6, <2>3, <2>4, Zenon
  <2>. QED
    BY <2>5 DEF a, b, pair
<1>. QED
  BY <1>5, <1>6

\* The errors counted so far are about the copies looked at so far.
DriftInv ==
  /\ shim \in ShimFiles /\ kernel \in KernelFiles
  /\ next \in 1..Len(SHIM_COPIES) + 1 /\ errors \in Nat
  /\ tree /\ kernel # NoFile => (errors = 0 <=> \A n \in 1..next - 1 : Good(n))
  /\ tree /\ kernel = NoFile /\ next > 1 => errors > 0
  /\ dexit # Check!Running /\ tree => next > Len(SHIM_COPIES) /\ (dexit = 0 <=> errors = 0)

LEMMA DriftStepKeeps ==
  ASSUME DriftInv, Check!Next
  PROVE  DriftInv'
<1>. DEFINE e == Len(SHIM_COPIES)
<1>0. /\ shim \in ShimFiles /\ kernel \in KernelFiles /\ next \in 1..e + 1 /\ errors \in Nat /\ e \in Nat \ {0}
      /\ tree /\ kernel # NoFile => (errors = 0 <=> \A n \in 1..next - 1 : Good(n))
      /\ tree /\ kernel = NoFile /\ next > 1 => errors > 0
      /\ dexit # Check!Running /\ tree => next > e /\ (dexit = 0 <=> errors = 0)
  BY DriftFacts DEF DriftInv
<1>1. CASE Check!NoTree
  <2>1. tree' = tree /\ shim' = shim /\ kernel' = kernel /\ next' = next /\ errors' = errors /\ ~tree
    BY <1>1 DEF Check!NoTree
  <2>. QED
    BY <1>0, <2>1 DEF DriftInv
<1>2. CASE Check!NoCounterpart
  <2>1. /\ tree' = tree /\ shim' = shim /\ kernel' = kernel /\ dexit' = dexit /\ dexit = Check!Running
        /\ kernel = NoFile /\ errors' = errors + 1 /\ next' = e + 1
    BY <1>2 DEF Check!NoCounterpart
  <2>2. errors' > 0 /\ errors' \in Nat /\ next' \in 1..e + 1
    BY <1>0, <2>1
  <2>3. Check!Running' = Check!Running
    BY DEF Check!Running
  <2>. QED
    BY <1>0, <2>1, <2>2, <2>3 DEF DriftInv
<1>3. CASE Check!ComparePair
  <2>. DEFINE v == Check!Judge(SHIM_COPIES[next], Check!extract_function(Check!Tokens(shim), SHIM_COPIES[next].shim),
                               Check!extract_function(Check!Tokens(kernel), SHIM_COPIES[next].kernel))
  <2>1. /\ tree' = tree /\ shim' = shim /\ kernel' = kernel /\ dexit' = dexit /\ dexit = Check!Running
        /\ tree /\ kernel # NoFile /\ next <= e /\ next' = next + 1
        /\ errors' = IF v = "error" THEN errors + 1 ELSE errors
    BY <1>3, Zenon DEF Check!ComparePair
  <2>2. next \in 1..e /\ next' \in 1..e + 1 /\ 1..next' - 1 = (1..next - 1) \cup {next}
    BY <1>0, <2>1
  <2>3. v = "error" <=> ~Good(next)
    BY <1>0, <2>1, <2>2, JudgeExact
  <2>4. errors' \in Nat /\ (errors' = 0 <=> errors = 0 /\ v # "error")
    <3>. HIDE DEF v
    <3>. QED
      BY <1>0, <2>1
  <2>5. \A n : Good(n)' <=> Good(n)
    BY <2>1 DEF Good
  <2>6. errors' = 0 <=> \A n \in 1..next' - 1 : Good(n)
    <3>. HIDE DEF v
    <3>1. errors = 0 <=> \A n \in 1..next - 1 : Good(n)
      BY <1>0, <2>1
    <3>. QED
      BY <2>2, <2>3, <2>4, <3>1, Zenon
  <2>7. Check!Running' = Check!Running
    BY DEF Check!Running
  <2>8. errors' = 0 <=> \A n \in 1..next' - 1 : Good(n)'
    BY <2>5, <2>6, Zenon
  <2>. HIDE DEF v
  <2>. QED
    BY <1>0, <2>1, <2>2, <2>4, <2>7, <2>8 DEF DriftInv
<1>4. CASE Check!Report
  <2>1. /\ tree' = tree /\ shim' = shim /\ kernel' = kernel /\ next' = next /\ errors' = errors
        /\ next > e /\ dexit' = IF errors # 0 THEN 1 ELSE 0
    BY <1>4 DEF Check!Report
  <2>2. dexit' = 0 <=> errors = 0
    BY <2>1
  <2>3. \A n : Good(n)' <=> Good(n)
    BY <2>1 DEF Good
  <2>. QED
    BY <1>0, <2>1, <2>2, <2>3 DEF DriftInv
<1>5. CASE Check!Done
  <2>1. UNCHANGED driftVars
    BY <1>5 DEF Check!Done, Check!vars, driftVars
  <2>. QED
    BY <2>1 DEF driftVars, DriftInv, Good, Check!Running
<1>. QED
  BY <1>1, <1>2, <1>3, <1>4, <1>5 DEF Check!Next

(* check_shim_drift.py, for every list of copies and all files of well-formed C  *)
(* items: extract_function() returns the whole of the first definition of each   *)
(* copied function and nothing where there is only a prototype or a call, and    *)
(* with a kernel tree the script exits with 0 exactly if every copy is defined   *)
(* in both files and the exact copies have the kernel's body.                    *)
THEOREM DriftIsFound == PartsSpec => []DriftFound
<1>. DEFINE Inv == part = "drift" => DriftInv
<1>1. PartsInit => Inv
  <2>. SUFFICES ASSUME PartsInit, part = "drift"  PROVE  DriftInv
    OBVIOUS
  <2>1. Check!Init
    BY DEF PartsInit
  <2>2. Len(SHIM_COPIES) \in Nat
    BY DriftFacts
  <2>3. shim \in ShimFiles /\ kernel \in KernelFiles /\ next = 1 /\ errors = 0 /\ dexit = Check!Running
    BY <2>1 DEF Check!Init
  <2>4. 1..next - 1 = {} /\ next \in 1..Len(SHIM_COPIES) + 1 /\ ~(next > 1)
    BY <2>2, <2>3
  <2>. QED
    BY <2>3, <2>4 DEF DriftInv
<1>2. Inv /\ [PartsNext]_allVars => Inv'
  <2>. SUFFICES ASSUME Inv, [PartsNext]_allVars, part' = "drift"  PROVE  DriftInv'
    OBVIOUS
  <2>1. part = "drift" /\ DriftInv
    BY DEF PartsNext, allVars
  <2>2. CASE Check!Next
    BY <2>1, <2>2, DriftStepKeeps
  <2>3. CASE UNCHANGED driftVars
    BY <2>1, <2>3 DEF driftVars, DriftInv, Good, Check!Running
  <2>. QED
    BY <2>1, <2>2, <2>3 DEF PartsNext, allVars
<1>3. Inv => DriftFound
  <2>. SUFFICES ASSUME part = "drift", DriftInv  PROVE  Check!FindsDefinition /\ Check!StatusExact
    BY DEF DriftFound
  <2>1. Check!FindsDefinition
    <3>. SUFFICES ASSUME NEW n \in 1..next - 1
                  PROVE  LET fn == SHIM_COPIES[n].shim
                         IN  Check!extract_function(Check!Tokens(shim), fn) =
                               IF Check!Definitions(shim, fn) = {} THEN <<>> ELSE Check!Text(Check!FirstOf(shim, fn))
      BY DEF Check!FindsDefinition
    <3>1. n \in 1..Len(SHIM_COPIES)
      BY DriftFacts DEF DriftInv
    <3>2. Check!IsFile(shim, ShimNames) /\ SHIM_COPIES[n].shim \in ShimNames
      BY <3>1, DriftFacts DEF DriftInv
    <3>. QED
      BY <3>2, ExtractFinds
  <2>2. Check!StatusExact
    <3>. SUFFICES ASSUME dexit # Check!Running, tree
                  PROVE  dexit = 0 <=> kernel # NoFile /\ \A n \in 1..Len(SHIM_COPIES) : Good(n)
      BY Zenon DEF Check!StatusExact, Good
    <3>1. Len(SHIM_COPIES) \in Nat \ {0}
      BY DriftFacts
    <3>2. next > 1 /\ next - 1 = Len(SHIM_COPIES) /\ (dexit = 0 <=> errors = 0)
      BY <3>1 DEF DriftInv
    <3>3. CASE kernel = NoFile
      BY <3>2, <3>3 DEF DriftInv
    <3>4. CASE kernel # NoFile
      BY <3>2, <3>4 DEF DriftInv
    <3>. QED
      BY <3>3, <3>4
  <2>. QED
    BY <2>1, <2>2
<1>4. QED
  BY <1>1, <1>2, <1>3, PTL DEF PartsSpec
=============================================================================

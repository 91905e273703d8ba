--------------------------- MODULE PipelineProofs ---------------------------
(***************************************************************************)
(* For every Order, configuration and batch size: the pipeline's state is  *)
(* well typed, run_veristat() submits every compiled object exactly once,  *)
(* a green job has verified its baseline, a fuzz failure makes it red, and *)
(* an updated baseline has documented verdicts only.                       *)
(***************************************************************************)
EXTENDS Pipeline, TLAPS

LEMMA NoRowType == NoRow \in Rows
  BY DEF NoRow, Rows

LEMMA EmptyRunType ==
  ASSUME NEW mode \in Modes, NEW S \in SUBSET Target, NEW tools \in Tools,
         EmptyRun(mode, S, tools)
  PROVE  /\ next' \in Nat \ {0}
         /\ opts' \in [mode : Modes, targets : SUBSET Target, tools : Tools]
         /\ compiledOk' \in Seq(Target)
         /\ compiledFail' \in SUBSET Target
         /\ ran' \in BOOLEAN /\ rc' \in {0, 1} /\ openFailed' \in BOOLEAN
         /\ rows' \in [Target -> Rows]
         /\ tries' \in [Target -> Nat]
         /\ seen' \in [Target -> Rows]
         /\ lines' \in [Target -> Lines]
         /\ execResults' \in [Target -> Executions]
         /\ fuzz' \in [Target -> Fuzz]
<1>1. /\ next' = 1 /\ ran' = FALSE /\ rc' = 0 /\ openFailed' = FALSE
      /\ compiledOk' = <<>> /\ compiledFail' = {}
  BY DEF EmptyRun
<1>2. opts' \in [mode : Modes, targets : SUBSET Target, tools : Tools]
  BY DEF EmptyRun
<1>3. rows' \in [Target -> Rows] /\ seen' \in [Target -> Rows]
  BY NoRowType DEF EmptyRun
<1>4. /\ tries' \in [Target -> Nat] /\ lines' \in [Target -> Lines]
      /\ execResults' \in [Target -> Executions] /\ fuzz' \in [Target -> Fuzz]
  BY DEF EmptyRun, Lines, Executions, Fuzz
<1>5. compiledOk' \in Seq(Target)
  BY <1>1
<1>6. ran' \in BOOLEAN /\ openFailed' \in BOOLEAN
  BY <1>1, Zenon
<1>. QED
  BY <1>1, <1>2, <1>3, <1>4, <1>5, <1>6

LEMMA NoResultsType == NoResults \in Results
  BY InsnsAssumption DEF NoResults, Results, NoEntry, Entry, Verdicts, Executions

LEMMA NoBaselineType == NoBaseline \in Baseline
  BY InsnsAssumption DEF NoBaseline, Baseline, BaselineEntry, Verdicts

LEMMA InitType == Init => TypeOK
<1>. SUFFICES ASSUME Init PROVE TypeOK
  OBVIOUS
<1>1. opts \in [mode : Modes, targets : SUBSET Target, tools : Tools]
  BY DEF Init, Modes, Tools
<1>2. rows \in [Target -> Rows] /\ seen \in [Target -> Rows]
  BY NoRowType DEF Init
<1>3. /\ tries \in [Target -> Nat] /\ lines \in [Target -> Lines]
      /\ execResults \in [Target -> Executions] /\ fuzz \in [Target -> Fuzz]
  BY DEF Init, Lines, Executions, Fuzz
<1>4. compiledOk \in Seq(Target) /\ run \in 0..MaxRuns
  BY PipelineAssumption DEF Init
<1>5. ran \in BOOLEAN /\ openFailed \in BOOLEAN /\ ci \in BOOLEAN
  BY Zenon DEF Init
<1>. QED
  BY <1>1, <1>2, <1>3, <1>4, <1>5, NoResultsType, NoBaselineType
  DEF Init, TypeOK

LEMMA ResultEntryType ==
  ASSUME TypeOK, NEW t \in Target, NEW logs
  PROVE  ResultEntry(t, logs) \in Entry
<1>1. /\ rows[t].verdict \in Verdicts /\ rows[t].insns \in Insns
      /\ execResults[t] \in Executions /\ Cfg[t].expect \in BOOLEAN
  BY InsnsAssumption, PipelineAssumption DEF TypeOK, Rows, NoRow, Verdicts, CfgType
<1>2. NoEntry \in Entry /\ [NoEntry EXCEPT !.compiled = "no"] \in Entry
  BY InsnsAssumption DEF NoEntry, Entry, Verdicts, Executions
<1>. QED
  BY <1>1, <1>2 DEF ResultEntry, Entry, TypeOK

LEMMA StartType ==
  ASSUME TypeOK, NEW mode \in Modes, NEW words, NEW present \in SUBSET Target,
         NEW dirsOk \in BOOLEAN, NEW tools \in Tools,
         Start(mode, words, present, dirsOk, tools),
         ci' \in BOOLEAN, job' \in {"none", "running"}, results' \in Results
  PROVE  TypeOK'
<1>1. PICK S \in SUBSET Target : EmptyRun(mode, S, tools)
  BY DEF Start
<1>2. pc' \in {"compile", "done"} /\ exit' \in {0, 1}
  BY DEF Start, Exit
<1>3. run' \in 0..MaxRuns
  BY PipelineAssumption DEF Start, TypeOK
<1>4. baseline' \in Baseline
  BY DEF Start, TypeOK
<1>. QED
  BY <1>1, <1>2, <1>3, <1>4, EmptyRunType DEF TypeOK

LEMMA NextType == TypeOK /\ [Next]_vars => TypeOK'
<1>. SUFFICES ASSUME TypeOK, [Next]_vars PROVE TypeOK'
  OBVIOUS
<1>. USE DEF jobVars, compileVars, verifyVars, execVars, fileVars
<1>1. ASSUME NEW mode \in Modes, NEW words \in SuiteArgs, NEW present \in SUBSET Target,
             NEW dirsOk \in BOOLEAN, NEW tools \in Tools,
             DevStart(mode, words, present, dirsOk, tools)
      PROVE  TypeOK'
  <2>1. results' \in Results
    BY <1>1 DEF DevStart, TypeOK
  <2>. QED
    BY <1>1, <2>1, StartType DEF DevStart
<1>2. ASSUME NEW present \in SUBSET Target, NEW dirsOk \in BOOLEAN, NEW tools \in Tools,
             CiStart(present, dirsOk, tools)
      PROVE  TypeOK'
  BY <1>2, StartType, NoResultsType DEF CiStart, Modes
<1>3. ASSUME NEW t \in Target,
             CompileSkip(t) \/ CompileOk(t) \/ CompileFail(t) \/ CompileTimeout(t)
      PROVE  TypeOK'
  <2>1. CASE CompileSkip(t)
    BY <2>1 DEF TypeOK, CompileSkip
  <2>2. CASE CompileOk(t)
    BY <2>2 DEF TypeOK, CompileOk
  <2>3. CASE CompileFail(t)
    BY <2>3 DEF TypeOK, CompileFail
  <2>4. CASE CompileTimeout(t)
    BY <2>4 DEF TypeOK, CompileTimeout, Exit
  <2>. QED
    BY <1>3, <2>1, <2>2, <2>3, <2>4
<1>4. CASE CompileEnd
  <2>1. ran' \in BOOLEAN
    BY <1>4 DEF TypeOK, CompileEnd, Tools
  <2>2. next' \in Nat \ {0} /\ exit' \in {0, 1}
        /\ pc' \in {"done", "verify", "execute"}
    BY <1>4 DEF TypeOK, CompileEnd, Exit
  <2>. QED
    BY <1>4, <2>1, <2>2 DEF TypeOK, CompileEnd
<1>5. ASSUME NEW answer \in [Batch(next) -> Rows], NEW status \in {0, 1},
             NEW unopened \in BOOLEAN, BatchAnswered(answer, status, unopened)
      PROVE  TypeOK'
  <2>1. rows' \in [Target -> Rows] /\ seen' \in [Target -> Rows]
    BY <1>5 DEF TypeOK, BatchAnswered
  <2>2. tries' \in [Target -> Nat] /\ next' \in Nat \ {0}
    BY <1>5, PipelineAssumption DEF TypeOK, BatchAnswered, Submitted
  <2>3. rc' \in {0, 1} /\ openFailed' \in BOOLEAN
    BY <1>5 DEF TypeOK, BatchAnswered
  <2>. QED
    BY <1>5, <2>1, <2>2, <2>3 DEF TypeOK, BatchAnswered
<1>6. CASE BatchTimeout
  <2>1. tries' \in [Target -> Nat] /\ next' \in Nat \ {0}
    BY <1>6, PipelineAssumption DEF TypeOK, BatchTimeout, Submitted
  <2>. QED
    BY <1>6, <2>1 DEF TypeOK, BatchTimeout
<1>7. CASE VeristatVanishes
  <2>1. rows' \in [Target -> Rows]
    BY <1>7, NoRowType DEF VeristatVanishes
  <2>2. ran' \in BOOLEAN /\ openFailed' \in BOOLEAN
    BY <1>7, Zenon DEF VeristatVanishes
  <2>. QED
    BY <1>7, <2>1, <2>2 DEF TypeOK, VeristatVanishes
<1>8. CASE VerifyEnd
  BY <1>8 DEF TypeOK, VerifyEnd
<1>9. ASSUME NEW t \in Target, RunSkip(t)
      PROVE  TypeOK'
  BY <1>9 DEF TypeOK, RunSkip
<1>10. ASSUME NEW t \in Target, NEW line \in Lines, NEW shown \in Fuzz,
              RunObject(t, line, shown)
       PROVE  TypeOK'
  BY <1>10 DEF TypeOK, RunObject
<1>11. CASE RunEnd
  <2>1. \A t \in Target : ParseLine(lines[t]) \in Executions
    BY DEF TypeOK, ParseLine, Lines, Executions
  <2>2. execResults' \in [Target -> Executions]
    BY <1>11, <2>1 DEF RunEnd, Executions
  <2>. QED
    BY <1>11, <2>2 DEF TypeOK, RunEnd
<1>12. CASE RunTimeout
  <2>1. execResults' \in [Target -> Executions] /\ lines' \in [Target -> Lines]
    BY <1>12 DEF RunTimeout, Executions, Lines
  <2>. QED
    BY <1>12, <2>1 DEF TypeOK, RunTimeout
<1>13. ASSUME NEW logs, Record(logs)
       PROVE  TypeOK'
  <2>1. results' \in Results
    BY <1>13, ResultEntryType DEF Record, Results, TypeOK
  <2>. QED
    BY <1>13, <2>1 DEF TypeOK, Record, Exit
<1>14. CASE CiGate
  BY <1>14 DEF TypeOK, CiGate
<1>15. CASE UpdateBaseline
  <2>1. baseline' \in Baseline
    BY <1>15 DEF UpdateBaseline, UpdatedBaseline, TypeOK, Results, Entry, Baseline,
                 BaselineEntry
  <2>. QED
    BY <1>15, <2>1 DEF TypeOK, UpdateBaseline
<1>16. CASE UNCHANGED vars
  BY <1>16 DEF TypeOK, vars
<1>. QED
  BY <1>1, <1>2, <1>3, <1>4, <1>5, <1>6, <1>7, <1>8, <1>9, <1>10, <1>11, <1>12, <1>13,
     <1>14, <1>15, <1>16 DEF Next, Step

\* Type correctness of the pipeline's state, for every ORDER file, target
\* configuration and batch size (pipeline.py, main()).
THEOREM TypeCorrect == Spec => []TypeOK
  BY InitType, NextType, PTL DEF Spec
-----------------------------------------------------------------------------
LEMMA SubmissionInit == Init => SubmissionInv
  BY DEF Init, SubmissionInv, EachObjectSubmittedOnce

\* Steps that leave the compiled objects and their submissions alone.
LEMMA SubmissionStutter ==
  ASSUME SubmissionInv, UNCHANGED <<compiledOk, tries, ran>>,
         \/ UNCHANGED <<pc, next>>
         \/ pc' \in {"record", "done"}
         \/ pc = "execute" /\ pc' = "execute"
  PROVE  SubmissionInv'
  BY DEF SubmissionInv, EachObjectSubmittedOnce, Compiled

LEMMA SubmissionStart ==
  ASSUME NEW mode, NEW words, NEW present, NEW dirsOk, NEW tools,
         Start(mode, words, present, dirsOk, tools)
  PROVE  SubmissionInv'
<1>1. compiledOk' = <<>> /\ tries' = [t \in Target |-> 0] /\ ran' = FALSE
  BY DEF Start, EmptyRun
<1>2. pc' \in {"compile", "done"}
  BY DEF Start, Exit
<1>. QED
  BY <1>1, <1>2 DEF SubmissionInv, EachObjectSubmittedOnce

\* A batch is the objects from next on, BatchSize of them or all that are left.
LEMMA BatchSubmits ==
  ASSUME TypeOK, SubmissionInv, Verifying, tries' = Submitted, next' = next + BatchSize,
         UNCHANGED <<pc, compiledOk>>
  PROVE  SubmissionInv'
<1>1. ASSUME NEW t \in Target
      PROVE  tries'[t] = IF \E i \in DOMAIN compiledOk : i < next' /\ compiledOk[i] = t
                         THEN 1 ELSE 0
  <2>. DEFINE Before(n) == \E i \in DOMAIN compiledOk : i < n /\ compiledOk[i] = t
  <2>1. tries[t] = (IF Before(next) THEN 1 ELSE 0)
    BY DEF SubmissionInv, Verifying
  <2>2. tries'[t] = IF t \in Batch(next) THEN tries[t] + 1 ELSE tries[t]
    BY DEF Submitted
  <2>3. t \in Batch(next) => ~Before(next) /\ Before(next + BatchSize)
    BY PipelineAssumption DEF Batch, SubmissionInv, TypeOK
  <2>4. t \notin Batch(next) => (Before(next + BatchSize) <=> Before(next))
    <3>1. ASSUME NEW i \in DOMAIN compiledOk, i < next + BatchSize, compiledOk[i] = t,
                 t \notin Batch(next)
          PROVE  i < next
      BY <3>1, PipelineAssumption DEF Batch, TypeOK
    <3>2. \A i \in DOMAIN compiledOk : i < next => i < next + BatchSize
      BY PipelineAssumption DEF TypeOK
    <3>. QED
      BY <3>1, <3>2
  <2>. QED
    BY <2>1, <2>2, <2>3, <2>4
<1>. QED
  BY <1>1 DEF SubmissionInv, EachObjectSubmittedOnce, Verifying

LEMMA SubmissionNext == TypeOK /\ SubmissionInv /\ [Next]_vars => SubmissionInv'
<1>. SUFFICES ASSUME TypeOK, SubmissionInv, [Next]_vars PROVE SubmissionInv'
  OBVIOUS
<1>. USE DEF jobVars, compileVars, verifyVars, execVars, fileVars
<1>1. ASSUME NEW mode, NEW words, NEW present, NEW dirsOk, NEW tools,
             DevStart(mode, words, present, dirsOk, tools)
      PROVE  SubmissionInv'
  BY <1>1, SubmissionStart DEF DevStart
<1>2. ASSUME NEW present, NEW dirsOk, NEW tools, CiStart(present, dirsOk, tools)
      PROVE  SubmissionInv'
  BY <1>2, SubmissionStart DEF CiStart
<1>3. ASSUME NEW t \in Target, CompileSkip(t) \/ CompileFail(t)
      PROVE  SubmissionInv'
  <2>1. /\ pc = "compile" /\ next' = next + 1 /\ next \in Nat
        /\ UNCHANGED <<pc, compiledOk, tries, ran>>
    BY <1>3 DEF CompileSkip, CompileFail, Compiling, TypeOK
  <2>2. Order \in Seq(Target)
    BY PipelineAssumption
  <2>. QED
    BY <2>1, <2>2 DEF SubmissionInv, EachObjectSubmittedOnce
<1>4. ASSUME NEW t \in Target, CompileOk(t)
      PROVE  SubmissionInv'
  <2>1. /\ pc = "compile" /\ next' = next + 1 /\ next \in DOMAIN Order /\ t = Order[next]
        /\ compiledOk' = Append(compiledOk, t)
        /\ UNCHANGED <<pc, tries, ran>>
    BY <1>4 DEF CompileOk, Compiling
  <2>2. \A i \in DOMAIN compiledOk : compiledOk[i] # t
    BY <2>1, PipelineAssumption DEF SubmissionInv
  <2>3. /\ DOMAIN compiledOk' = 1..(Len(compiledOk) + 1)
        /\ DOMAIN compiledOk = 1..Len(compiledOk)
        /\ \A i \in DOMAIN compiledOk : compiledOk'[i] = compiledOk[i]
        /\ compiledOk'[Len(compiledOk) + 1] = t
    BY <2>1 DEF TypeOK
  <2>4. \A i, j \in DOMAIN compiledOk' : compiledOk'[i] = compiledOk'[j] => i = j
    BY <2>2, <2>3 DEF SubmissionInv, TypeOK
  <2>5. \A i \in DOMAIN compiledOk' :
           \E k \in DOMAIN Order : k < next' /\ Order[k] = compiledOk'[i]
    <3>1. ASSUME NEW i \in DOMAIN compiledOk'
          PROVE  \E k \in DOMAIN Order : k < next' /\ Order[k] = compiledOk'[i]
      <4>1. CASE i \in DOMAIN compiledOk
        <5>1. PICK k \in DOMAIN Order : k < next /\ Order[k] = compiledOk[i]
          BY <2>1, <4>1 DEF SubmissionInv
        <5>. QED
          BY <5>1, <4>1, <2>1, <2>3, PipelineAssumption
      <4>2. CASE i = Len(compiledOk) + 1
        BY <4>2, <2>1, <2>3, PipelineAssumption
      <4>. QED
        BY <4>1, <4>2, <2>3, <3>1 DEF TypeOK
    <3>. QED
      BY <3>1
  <2>. QED
    BY <2>1, <2>4, <2>5 DEF SubmissionInv, EachObjectSubmittedOnce
<1>5. ASSUME NEW t \in Target, CompileTimeout(t)
      PROVE  SubmissionInv'
  BY <1>5, SubmissionStutter DEF CompileTimeout, Exit
<1>6. CASE CompileEnd
  <2>1. UNCHANGED <<compiledOk, tries>> /\ pc = "compile" /\ ~ran
    BY <1>6 DEF CompileEnd, SubmissionInv
  <2>2. CASE pc' = "done" /\ UNCHANGED ran
    BY <2>1, <2>2, SubmissionStutter
  <2>3. CASE pc' = "verify" /\ next' = 1
    BY <2>1, <2>3 DEF SubmissionInv, EachObjectSubmittedOnce, TypeOK
  <2>4. CASE pc' = "execute" /\ ran' = FALSE
    BY <2>1, <2>4 DEF SubmissionInv, EachObjectSubmittedOnce
  <2>. QED
    BY <1>6, <2>2, <2>3, <2>4 DEF CompileEnd, Exit, TypeOK, Tools
<1>7. ASSUME NEW answer, NEW status, NEW unopened, BatchAnswered(answer, status, unopened)
      PROVE  SubmissionInv'
  BY <1>7, BatchSubmits DEF BatchAnswered
<1>8. CASE BatchTimeout
  BY <1>8, BatchSubmits DEF BatchTimeout
<1>9. CASE VeristatVanishes
  BY <1>9 DEF VeristatVanishes, SubmissionInv, EachObjectSubmittedOnce
<1>10. CASE VerifyEnd
  <2>1. /\ pc = "verify" /\ pc' = "execute" /\ next > Len(compiledOk)
        /\ UNCHANGED <<compiledOk, tries, ran>>
    BY <1>10 DEF VerifyEnd
  <2>2. \A i \in DOMAIN compiledOk : i < next
    BY <2>1 DEF TypeOK
  <2>. QED
    BY <2>1, <2>2 DEF SubmissionInv, EachObjectSubmittedOnce, Compiled
<1>11. ASSUME NEW t \in Target, RunSkip(t)
       PROVE  SubmissionInv'
  BY <1>11, SubmissionStutter DEF RunSkip, Running
<1>12. ASSUME NEW t, NEW line, NEW shown, RunObject(t, line, shown)
       PROVE  SubmissionInv'
  BY <1>12, SubmissionStutter DEF RunObject, Running
<1>13. CASE RunEnd \/ RunTimeout
  BY <1>13, SubmissionStutter DEF RunEnd, RunTimeout
<1>14. ASSUME NEW logs, Record(logs)
       PROVE  SubmissionInv'
  BY <1>14, SubmissionStutter DEF Record, Exit
<1>15. CASE CiGate \/ UpdateBaseline \/ UNCHANGED vars
  BY <1>15, SubmissionStutter DEF CiGate, UpdateBaseline, vars
<1>. QED
  BY <1>1, <1>2, <1>3, <1>4, <1>5, <1>6, <1>7, <1>8, <1>9, <1>10, <1>11, <1>12, <1>13,
     <1>14, <1>15 DEF Next, Step

\* run_veristat()'s batches cover every compiled object once, for every number
\* of objects and every positive BPF_VERISTAT_BATCH.
THEOREM BatchesCoverOnce == Spec => []EachObjectSubmittedOnce
<1>1. SubmissionInv => EachObjectSubmittedOnce
  BY DEF SubmissionInv
<1>. QED
  BY <1>1, TypeCorrect, SubmissionInit, SubmissionNext, PTL DEF Spec
-----------------------------------------------------------------------------
\* The parts of RecordInv: what is known of the rows, and of the file.
RowsInv ==
  /\ pc \in {"compile", "verify"} =>
       \A t \in Target : tries[t] = 0 => rows[t] = NoRow /\ seen[t] = NoRow
  /\ ran => \A t \in Target : rows[t] = seen[t]

FileInv ==
  /\ job = "running" /\ pc # "done" => ~results.exists
  /\ job = "running" /\ pc = "done" /\ results.exists =>
       /\ results.ran = ran
       /\ \A t \in Target : \E logs \in SUBSET Target : results.targets[t] = ResultEntry(t, logs)

LEMMA RowsInit == Init => RowsInv
  BY DEF Init, RowsInv

LEMMA RowsStutter ==
  ASSUME RowsInv, UNCHANGED <<tries, rows, seen, ran>>,
         pc' \in {"compile", "verify"} => pc \in {"compile", "verify"}
  PROVE  RowsInv'
  BY DEF RowsInv

LEMMA RowsNext == TypeOK /\ SubmissionInv /\ RowsInv /\ [Next]_vars => RowsInv'
<1>. SUFFICES ASSUME TypeOK, SubmissionInv, RowsInv, [Next]_vars PROVE RowsInv'
  OBVIOUS
<1>. USE DEF jobVars, compileVars, verifyVars, execVars, fileVars
<1>1. ASSUME NEW mode, NEW words, NEW present, NEW dirsOk, NEW tools,
             Start(mode, words, present, dirsOk, tools)
      PROVE  RowsInv'
  BY <1>1 DEF Start, EmptyRun, RowsInv
<1>2. ASSUME NEW t \in Target,
             CompileSkip(t) \/ CompileOk(t) \/ CompileFail(t) \/ CompileTimeout(t)
      PROVE  RowsInv'
  BY <1>2, RowsStutter DEF CompileSkip, CompileOk, CompileFail, CompileTimeout, Exit
<1>3. CASE CompileEnd
  BY <1>3 DEF CompileEnd, RowsInv, SubmissionInv
<1>4. ASSUME NEW answer \in [Batch(next) -> Rows], NEW status, NEW unopened,
             BatchAnswered(answer, status, unopened)
      PROVE  RowsInv'
  <2>1. ASSUME NEW t \in Target, t \in Batch(next)
        PROVE  rows[t] = NoRow
    <3>1. tries[t] = 0
      BY <1>4, <2>1, PipelineAssumption
      DEF Batch, SubmissionInv, BatchAnswered, Verifying, TypeOK
    <3>. QED
      BY <1>4, <3>1 DEF RowsInv, BatchAnswered, Verifying
  <2>2. ASSUME NEW t \in Target
        PROVE  /\ t \in Batch(next) => rows'[t] = answer[t] /\ seen'[t] = answer[t]
               /\ t \notin Batch(next) => rows'[t] = rows[t] /\ seen'[t] = seen[t]
               /\ tries'[t] = IF t \in Batch(next) THEN tries[t] + 1 ELSE tries[t]
    BY <1>4, <2>1 DEF BatchAnswered, Submitted
  <2>3. \A t \in Target : tries[t] \in Nat
    BY DEF TypeOK
  <2>4. ran' => \A t \in Target : rows'[t] = seen'[t]
    BY <1>4, <2>2 DEF RowsInv, BatchAnswered
  <2>5. \A t \in Target : tries'[t] = 0 => rows'[t] = NoRow /\ seen'[t] = NoRow
    BY <1>4, <2>2, <2>3 DEF RowsInv, BatchAnswered, Verifying
  <2>. QED
    BY <2>4, <2>5 DEF RowsInv
<1>5. CASE BatchTimeout
  <2>1. \A t \in Target : tries'[t] = 0 => tries[t] = 0
    BY <1>5 DEF BatchTimeout, Submitted, TypeOK
  <2>. QED
    BY <1>5, <2>1 DEF BatchTimeout, RowsInv
<1>6. CASE VeristatVanishes
  BY <1>6 DEF VeristatVanishes, RowsInv
<1>7. CASE VerifyEnd \/ RunEnd \/ RunTimeout
  BY <1>7, RowsStutter DEF VerifyEnd, RunEnd, RunTimeout
<1>8. ASSUME NEW t, NEW line, NEW shown, RunSkip(t) \/ RunObject(t, line, shown)
      PROVE  RowsInv'
  BY <1>8, RowsStutter DEF RunSkip, RunObject
<1>9. ASSUME NEW logs, Record(logs)
      PROVE  RowsInv'
  BY <1>9, RowsStutter DEF Record, Exit
<1>10. CASE CiGate \/ UpdateBaseline \/ UNCHANGED vars
  BY <1>10, RowsStutter DEF CiGate, UpdateBaseline, vars
<1>. QED
  BY <1>1, <1>2, <1>3, <1>4, <1>5, <1>6, <1>7, <1>8, <1>9, <1>10
  DEF Next, Step, DevStart, CiStart

LEMMA FileInit == Init => FileInv
  BY DEF Init, FileInv

\* Nothing the recorded entries depend on moves once the process is done.
LEMMA FileDone ==
  ASSUME FileInv, pc = "done", pc' = "done",
         UNCHANGED <<results, ran, compiledOk, compiledFail, rows, execResults>>,
         job' = "running" => job = "running"
  PROVE  FileInv'
  BY DEF FileInv, ResultEntry

LEMMA FileStep ==
  ASSUME FileInv, pc # "done", UNCHANGED <<results, job>>
  PROVE  FileInv'
  BY DEF FileInv

LEMMA FileNext == FileInv /\ [Next]_vars => FileInv'
<1>. SUFFICES ASSUME FileInv, [Next]_vars PROVE FileInv'
  OBVIOUS
<1>. USE DEF jobVars, compileVars, verifyVars, execVars, fileVars
<1>1. ASSUME NEW mode, NEW words, NEW present, NEW dirsOk, NEW tools,
             DevStart(mode, words, present, dirsOk, tools)
      PROVE  FileInv'
  BY <1>1 DEF DevStart, FileInv
<1>2. ASSUME NEW present, NEW dirsOk, NEW tools, CiStart(present, dirsOk, tools)
      PROVE  FileInv'
  BY <1>2 DEF CiStart, FileInv, NoResults
<1>3. ASSUME NEW t \in Target,
             CompileSkip(t) \/ CompileOk(t) \/ CompileFail(t) \/ CompileTimeout(t)
      PROVE  FileInv'
  BY <1>3, FileStep DEF CompileSkip, CompileOk, CompileFail, CompileTimeout, Compiling
<1>4. CASE CompileEnd \/ VeristatVanishes \/ VerifyEnd \/ RunEnd \/ RunTimeout \/ BatchTimeout
  BY <1>4, FileStep
  DEF CompileEnd, VeristatVanishes, VerifyEnd, RunEnd, RunTimeout, BatchTimeout, Verifying
<1>5. ASSUME NEW answer, NEW status, NEW unopened, BatchAnswered(answer, status, unopened)
      PROVE  FileInv'
  BY <1>5, FileStep DEF BatchAnswered, Verifying
<1>6. ASSUME NEW t, NEW line, NEW shown, RunSkip(t) \/ RunObject(t, line, shown)
      PROVE  FileInv'
  BY <1>6, FileStep DEF RunSkip, RunObject, Running
<1>7. ASSUME NEW logs \in SUBSET {t \in Target : Cfg[t].expect}, Record(logs)
      PROVE  FileInv'
  <2>1. \A t \in Target : ResultEntry(t, logs)' = ResultEntry(t, logs)
    BY <1>7 DEF Record, ResultEntry
  <2>2. results'.ran = ran' /\ pc' = "done"
    BY <1>7 DEF Record, Exit
  <2>3. \A t \in Target : results'.targets[t] = ResultEntry(t, logs)'
    BY <1>7, <2>1 DEF Record
  <2>4. logs \in SUBSET Target
    OBVIOUS
  <2>. QED
    BY <2>2, <2>3, <2>4 DEF FileInv
<1>8. CASE CiGate
  BY <1>8, FileDone DEF CiGate
<1>9. CASE UpdateBaseline
  BY <1>9, FileDone DEF UpdateBaseline
<1>10. CASE UNCHANGED vars
  BY <1>10 DEF vars, FileInv, ResultEntry
<1>. QED
  BY <1>1, <1>2, <1>3, <1>4, <1>5, <1>6, <1>7, <1>8, <1>9, <1>10 DEF Next, Step

\* The gate's decision is sound for what the file says, and the file says what
\* the verifier said.
LEMMA GreenStep ==
  ASSUME TypeOK, RowsInv, FileInv, [Next]_vars,
         job = "running", job' = "green", ran, baseline.exists,
         NEW t \in Target, baseline.targets[t].listed
  PROVE  HoldsUp(t, baseline.targets[t])
<1>1. /\ pc = "done" /\ results.exists
      /\ ~AbsoluteErrors(results) /\ ~ComparisonErrors(results, baseline)
  <2>1. CiGate
    BY DEF Next, Step, DevStart, CiStart, CompileSkip, CompileOk, CompileFail, CompileTimeout,
           CompileEnd, BatchAnswered, BatchTimeout, VeristatVanishes, VerifyEnd, RunSkip,
           RunObject, RunEnd, RunTimeout, Record, UpdateBaseline, vars, jobVars
  <2>. QED
    BY <2>1 DEF CiGate, GateExit
<1>2. results.ran = ran
  BY <1>1 DEF FileInv
<1>3. PICK logs \in SUBSET Target : results.targets[t] = ResultEntry(t, logs)
  BY <1>1 DEF FileInv
<1>. DEFINE e == results.targets[t]
<1>4. ~VerdictError(e, ran)
  BY <1>1, <1>2 DEF AbsoluteErrors
<1>5. ~ComparisonError(e, baseline.targets[t])
  BY <1>1, <1>2 DEF ComparisonErrors, Compared
<1>6. e.compiled \notin {"absent", "no"}
  BY <1>4, <1>5 DEF ComparisonError, VerdictError
<1>7. Compiled(t)
  BY <1>3, <1>6 DEF ResultEntry, Compiled, NoEntry
<1>8. /\ e.compiled = "yes" /\ e.verdict = seen[t].verdict /\ e.insns = seen[t].insns
      /\ e.expect = Cfg[t].expect
      /\ e.matched => seen[t].verdict = "failure"
  <2>1. e = [compiled |-> "yes", verdict |-> rows[t].verdict, insns |-> rows[t].insns,
             expect |-> Cfg[t].expect,
             matched |-> Cfg[t].expect /\ ran /\ rows[t].verdict = "failure" /\ t \in logs,
             execution |-> execResults[t]]
    BY <1>3, <1>7 DEF ResultEntry, Compiled
  <2>2. rows[t] = seen[t]
    BY DEF RowsInv
  <2>3. e.compiled = "yes" /\ e.verdict = rows[t].verdict /\ e.insns = rows[t].insns
    BY <2>1
  <2>4. e.expect = Cfg[t].expect
    BY <2>1
  <2>5. e.matched = (Cfg[t].expect /\ ran /\ rows[t].verdict = "failure" /\ t \in logs)
    BY <2>1
  <2>. QED
    BY <2>2, <2>3, <2>4, <2>5
<1>9. seen[t].verdict = IF Cfg[t].expect THEN "failure" ELSE "success"
  BY <1>4, <1>8 DEF VerdictError
<1>10. seen[t].verdict = "success" => ~Collapsed(seen[t], baseline.targets[t])
  BY <1>5, <1>8 DEF ComparisonError, Collapsed
<1>. QED
  BY <1>7, <1>9, <1>10 DEF HoldsUp

\* A green CI job that ran veristat has seen every target of the baseline get
\* its documented verdict, uncollapsed, in this very run.
THEOREM GreenIsSound == Spec => GreenMeansVerified
<1>1. TypeOK /\ RowsInv /\ FileInv /\ [Next]_vars => GreenOnlyIfVerified
  BY GreenStep DEF GreenOnlyIfVerified
<1>2. Spec => []SubmissionInv
  BY TypeCorrect, SubmissionInit, SubmissionNext, PTL DEF Spec
<1>3. Spec => []RowsInv
  BY TypeCorrect, <1>2, RowsInit, RowsNext, PTL DEF Spec
<1>4. Spec => []FileInv
  BY FileInit, FileNext, PTL DEF Spec
<1>. QED
  BY <1>1, <1>3, <1>4, TypeCorrect, PTL DEF Spec, GreenMeansVerified
-----------------------------------------------------------------------------
\* What a line of the runner's output is still good for: it is there only for an
\* object that was to be executed, and from RunEnd on it has been parsed.
LinesInv ==
  /\ pc \in {"compile", "verify"} => \A t \in Target : lines[t] = "none"
  /\ pc = "execute" => \A t \in Target :
       lines[t] # "none" => opts.tools.runner /\ Executes(t) /\ Compiled(t)
  /\ pc \in {"record", "done"} => \A t \in Target :
       lines[t] = "loadedFailures" => execResults[t] = "failed" /\ Compiled(t)

LEMMA LinesInit == Init => LinesInv
  BY DEF Init, LinesInv

LEMMA LinesStart ==
  ASSUME NEW mode, NEW words, NEW present, NEW dirsOk, NEW tools,
         Start(mode, words, present, dirsOk, tools)
  PROVE  LinesInv'
<1>1. lines' = [t \in Target |-> "none"]
  BY DEF Start, EmptyRun
<1>2. pc' \in {"compile", "done"}
  BY DEF Start, Exit
<1>. QED
  BY <1>1, <1>2 DEF LinesInv

LEMMA LinesNext == TypeOK /\ LinesInv /\ [Next]_vars => LinesInv'
<1>. SUFFICES ASSUME TypeOK, LinesInv, [Next]_vars PROVE LinesInv'
  OBVIOUS
<1>. USE DEF jobVars, compileVars, verifyVars, execVars, fileVars
<1>1. ASSUME NEW mode, NEW words, NEW present, NEW dirsOk, NEW tools,
             DevStart(mode, words, present, dirsOk, tools)
      PROVE  LinesInv'
  BY <1>1, LinesStart DEF DevStart
<1>2. ASSUME NEW present, NEW dirsOk, NEW tools, CiStart(present, dirsOk, tools)
      PROVE  LinesInv'
  BY <1>2, LinesStart DEF CiStart
<1>3. ASSUME NEW t \in Target,
             CompileSkip(t) \/ CompileOk(t) \/ CompileFail(t) \/ CompileTimeout(t)
      PROVE  LinesInv'
  BY <1>3 DEF CompileSkip, CompileOk, CompileFail, CompileTimeout, Compiling, Exit, LinesInv
<1>4. CASE CompileEnd
  BY <1>4 DEF CompileEnd, Exit, LinesInv
<1>5. ASSUME NEW answer, NEW status, NEW unopened, BatchAnswered(answer, status, unopened)
      PROVE  LinesInv'
  BY <1>5 DEF BatchAnswered, Verifying, LinesInv
<1>6. CASE BatchTimeout \/ VeristatVanishes \/ VerifyEnd
  BY <1>6 DEF BatchTimeout, VeristatVanishes, VerifyEnd, Verifying, LinesInv
<1>7. ASSUME NEW t \in Target, RunSkip(t)
      PROVE  LinesInv'
  BY <1>7 DEF RunSkip, Running, LinesInv, Executes, Compiled
<1>8. ASSUME NEW t \in Target, NEW line \in Lines, NEW shown, RunObject(t, line, shown)
      PROVE  LinesInv'
  <2>1. /\ pc = "execute" /\ opts.tools.runner /\ Executes(t)
        /\ lines' = [lines EXCEPT ![t] = line]
        /\ UNCHANGED <<pc, opts, rows, compiledOk>>
    BY <1>8 DEF RunObject, Running
  <2>2. Compiled(t)
    BY <1>8 DEF RunObject, Running, Compiled
  <2>3. \A u \in Target : u # t => lines'[u] = lines[u]
    BY <2>1 DEF TypeOK
  <2>. QED
    BY <2>1, <2>2, <2>3 DEF LinesInv, Executes, Compiled
<1>9. CASE RunEnd
  <2>1. /\ pc = "execute" /\ pc' = "record" /\ UNCHANGED <<lines, compiledOk>>
        /\ execResults' = [t \in Target |->
                            IF opts.tools.runner /\ Executes(t) /\ Compiled(t)
                            THEN ParseLine(lines[t]) ELSE "absent"]
    BY <1>9 DEF RunEnd, Compiled
  <2>2. ParseLine("loadedFailures") = "failed"
    BY DEF ParseLine
  <2>. QED
    BY <2>1, <2>2 DEF LinesInv, Compiled
<1>10. CASE RunTimeout
  BY <1>10 DEF RunTimeout, LinesInv
<1>11. ASSUME NEW logs, Record(logs)
       PROVE  LinesInv'
  BY <1>11 DEF Record, Exit, LinesInv, Compiled
<1>12. CASE CiGate \/ UpdateBaseline \/ UNCHANGED vars
  BY <1>12 DEF CiGate, UpdateBaseline, vars, LinesInv, Executes, Compiled
<1>. QED
  BY <1>1, <1>2, <1>3, <1>4, <1>5, <1>6, <1>7, <1>8, <1>9, <1>10, <1>11, <1>12 DEF Next, Step

\* A property failure of the fuzz leg whose line reached run_execution() is in
\* results.json when check_results.py decides, so the CI job is not green: no batch
\* split, dead guest or earlier results file lets one through.
THEOREM FuzzFailureIsRed == Spec => FuzzFailureMeansRed
<1>1. ASSUME TypeOK, LinesInv, FileInv, [Next]_vars, job = "running", job' = "green",
             NEW t \in Target, lines[t] = "loadedFailures"
      PROVE  FALSE
  <2>1. CiGate
    BY <1>1 DEF Next, Step, DevStart, CiStart, CompileSkip, CompileOk, CompileFail, CompileTimeout,
           CompileEnd, BatchAnswered, BatchTimeout, VeristatVanishes, VerifyEnd, RunSkip,
           RunObject, RunEnd, RunTimeout, Record, UpdateBaseline, vars, jobVars
  <2>2. pc = "done" /\ results.exists /\ ~AbsoluteErrors(results)
    BY <1>1, <2>1 DEF CiGate, GateExit
  <2>3. execResults[t] = "failed" /\ Compiled(t)
    BY <1>1, <2>2 DEF LinesInv
  <2>4. PICK logs \in SUBSET Target : results.targets[t] = ResultEntry(t, logs)
    BY <1>1, <2>2 DEF FileInv
  <2>5. results.targets[t].execution = "failed"
    BY <2>3, <2>4 DEF ResultEntry, Compiled
  <2>. QED
    BY <2>2, <2>5 DEF AbsoluteErrors, ExecutionError
<1>2. TypeOK /\ LinesInv /\ FileInv /\ [Next]_vars =>
        (job = "running" /\ job' = "green" => \A t \in Target : lines[t] # "loadedFailures")
  BY <1>1
<1>3. Spec => []LinesInv
  BY TypeCorrect, LinesInit, LinesNext, PTL DEF Spec
<1>4. Spec => []FileInv
  BY FileInit, FileNext, PTL DEF Spec
<1>. QED
  BY <1>2, <1>3, <1>4, TypeCorrect, PTL DEF Spec, FuzzFailureMeansRed

\* What the execution leg knows of each object: a line of a loaded object comes from an
\* object that ran, and once the leg is over exactly the objects asked for have a result.
ExecInv ==
  /\ pc = "execute" => \A t \in Target :
       lines[t] \in {"loadedCut", "loadedClean", "loadedFailures"} => fuzz[t] # "none"
  /\ pc = "record" => \A t \in Target :
       /\ execResults[t] # "absent" <=> opts.tools.runner /\ Executes(t) /\ Compiled(t)
       /\ execResults[t] \in {"ok", "failed"} => fuzz[t] # "none"

LEMMA ParsedLines ==
  ASSUME NEW l \in Lines
  PROVE  /\ ParseLine(l) # "absent"
         /\ ParseLine(l) \in {"ok", "failed"} =>
              l \in {"loadedCut", "loadedClean", "loadedFailures"}
  BY DEF ParseLine, Lines

LEMMA ExecNext == TypeOK /\ LinesInv /\ ExecInv /\ [Next]_vars => ExecInv'
<1>. SUFFICES ASSUME TypeOK, LinesInv, ExecInv, [Next]_vars PROVE ExecInv'
  OBVIOUS
<1>. USE DEF jobVars, compileVars, verifyVars, execVars, fileVars
<1>1. ASSUME NEW mode, NEW words, NEW present, NEW dirsOk, NEW tools,
             Start(mode, words, present, dirsOk, tools)
      PROVE  ExecInv'
  BY <1>1 DEF Start, Exit, ExecInv
<1>2. ASSUME pc \in {"compile", "verify"}, UNCHANGED lines, pc' # "record"
      PROVE  ExecInv'
  BY <1>2 DEF LinesInv, ExecInv
<1>3. ASSUME NEW t \in Target,
             CompileSkip(t) \/ CompileOk(t) \/ CompileFail(t) \/ CompileTimeout(t)
      PROVE  ExecInv'
  BY <1>2, <1>3 DEF CompileSkip, CompileOk, CompileFail, CompileTimeout, Compiling, Exit
<1>4. CASE CompileEnd
  BY <1>2, <1>4 DEF CompileEnd, Exit
<1>5. ASSUME NEW answer, NEW status, NEW unopened, BatchAnswered(answer, status, unopened)
      PROVE  ExecInv'
  BY <1>2, <1>5 DEF BatchAnswered, Verifying
<1>6. CASE BatchTimeout \/ VeristatVanishes \/ VerifyEnd
  BY <1>2, <1>6 DEF BatchTimeout, VeristatVanishes, VerifyEnd, Verifying
<1>7. ASSUME NEW t \in Target, RunSkip(t)
      PROVE  ExecInv'
  BY <1>7 DEF RunSkip, Running, ExecInv
<1>8. ASSUME NEW t \in Target, NEW line \in Lines, NEW shown, RunObject(t, line, shown)
      PROVE  ExecInv'
  <2>1. /\ pc = "execute" /\ pc' = pc
        /\ lines' = [lines EXCEPT ![t] = line] /\ fuzz' = [fuzz EXCEPT ![t] = shown]
        /\ line # "notLoaded" => shown # "none"
    BY <1>8 DEF RunObject, Running
  <2>. QED
    BY <2>1 DEF TypeOK, ExecInv
<1>9. CASE RunEnd
  <2>1. /\ pc = "execute" /\ pc' = "record" /\ UNCHANGED <<opts, rows, compiledOk, fuzz>>
        /\ execResults' = [t \in Target |->
                            IF opts.tools.runner /\ Executes(t) /\ Compiled(t)
                            THEN ParseLine(lines[t]) ELSE "absent"]
    BY <1>9 DEF RunEnd, Compiled
  <2>2. \A t \in Target : (Executes(t) <=> Executes(t)') /\ (Compiled(t) <=> Compiled(t)')
    BY <2>1 DEF Executes, Compiled
  <2>3. \A t \in Target : lines[t] \in Lines
    BY DEF TypeOK
  <2>. QED
    BY <2>1, <2>2, <2>3, ParsedLines DEF ExecInv
<1>10. CASE RunTimeout
  <2>1. /\ pc' = "record" /\ opts.tools.runner /\ UNCHANGED <<opts, rows, compiledOk>>
        /\ execResults' = [t \in Target |->
                            IF Executes(t) /\ Compiled(t) THEN "skipped" ELSE "absent"]
    BY <1>10 DEF RunTimeout, Compiled
  <2>2. \A t \in Target : (Executes(t) <=> Executes(t)') /\ (Compiled(t) <=> Compiled(t)')
    BY <2>1 DEF Executes, Compiled
  <2>. QED
    BY <2>1, <2>2 DEF ExecInv
<1>11. ASSUME NEW logs, Record(logs)
       PROVE  ExecInv'
  BY <1>11 DEF Record, Exit, ExecInv
<1>12. CASE CiGate \/ UpdateBaseline \/ UNCHANGED vars
  BY <1>12 DEF CiGate, UpdateBaseline, vars, ExecInv, Executes, Compiled
<1>. QED
  BY <1>1, <1>3, <1>4, <1>5, <1>6, <1>7, <1>8, <1>9, <1>10, <1>11, <1>12
     DEF Next, Step, DevStart, CiStart

\* results.json has an execution result for exactly the objects that run_execution() was
\* asked to run, for every ORDER and configuration: a guest that dies, a runner that times
\* out and an object that does not load lose none, and none is called executed unloaded.
THEOREM AskedAreAccounted == Spec => AskedIsAccounted
<1>. DEFINE Accounted ==
       results' # results =>
         \A t \in Target : LET e == results'.targets[t] IN
           /\ e.execution # "absent" <=>
                opts.tools.runner /\ Cfg[t].execute /\ e.verdict = "success"
           /\ e.execution \in {"ok", "failed"} => fuzz[t] # "none"
<1>1. ASSUME TypeOK, ExecInv, [Next]_vars
      PROVE  Accounted
  <2>1. CASE results' = results
    BY <2>1
  <2>2. CASE results' = NoResults
    BY <2>2 DEF NoResults, NoEntry
  <2>3. ASSUME NEW logs, Record(logs)
        PROVE  Accounted
    <3>. SUFFICES ASSUME NEW t \in Target
                  PROVE  /\ results'.targets[t].execution # "absent" <=>
                              /\ opts.tools.runner /\ Cfg[t].execute
                              /\ results'.targets[t].verdict = "success"
                         /\ results'.targets[t].execution \in {"ok", "failed"} => fuzz[t] # "none"
      OBVIOUS
    <3>1. results'.targets[t] = ResultEntry(t, logs) /\ pc = "record"
      BY <2>3 DEF Record
    <3>2. /\ execResults[t] # "absent" <=> opts.tools.runner /\ Executes(t) /\ Compiled(t)
          /\ execResults[t] \in {"ok", "failed"} => fuzz[t] # "none"
      BY <3>1, <1>1 DEF ExecInv
    <3>3. CASE Compiled(t)
      <4>1. /\ ResultEntry(t, logs).execution = execResults[t]
            /\ ResultEntry(t, logs).verdict = rows[t].verdict
        BY <3>3 DEF ResultEntry, Compiled
      <4>. QED
        BY <3>1, <3>2, <3>3, <4>1 DEF Executes
    <3>4. CASE ~Compiled(t)
      <4>1. ResultEntry(t, logs).execution = "absent" /\ ResultEntry(t, logs).verdict = "none"
        BY <3>4 DEF ResultEntry, Compiled, NoEntry
      <4>. QED
        BY <3>1, <4>1
    <3>. QED
      BY <3>3, <3>4
  <2>4. results' = results \/ results' = NoResults
        \/ \E logs \in SUBSET {t \in Target : Cfg[t].expect} : Record(logs)
    BY <1>1 DEF Next, Step, DevStart, CiStart, CompileSkip, CompileOk, CompileFail, CompileTimeout,
           CompileEnd, BatchAnswered, BatchTimeout, VeristatVanishes, VerifyEnd, RunSkip,
           RunObject, RunEnd, RunTimeout, CiGate, UpdateBaseline, vars, fileVars
  <2>. QED
    BY <2>1, <2>2, <2>3, <2>4
<1>2. Init => ExecInv
  BY DEF Init, ExecInv
<1>3. Spec => []LinesInv
  BY TypeCorrect, LinesInit, LinesNext, PTL DEF Spec
<1>4. Spec => []ExecInv
  BY <1>2, <1>3, ExecNext, TypeCorrect, PTL DEF Spec
<1>. HIDE DEF Accounted
<1>5. Spec => [][Accounted]_vars
  BY <1>1, <1>4, TypeCorrect, PTL DEF Spec
<1>. QED
  BY <1>5 DEF AskedIsAccounted, Accounted

\* Whichever run wrote it, an entry of results.json documents the target's own
\* expectation, and a matched diagnostic belongs to a rejection.
EntriesInv ==
  \A t \in Target : results.targets[t].compiled = "yes" =>
    /\ results.targets[t].expect = Cfg[t].expect
    /\ results.targets[t].matched => results.targets[t].verdict = "failure"

LEMMA EntriesNext == EntriesInv /\ [Next]_vars => EntriesInv'
<1>. SUFFICES ASSUME EntriesInv, [Next]_vars PROVE EntriesInv'
  OBVIOUS
<1>1. CASE results' = results
  BY <1>1 DEF EntriesInv
<1>2. CASE results' = NoResults
  BY <1>2 DEF EntriesInv, NoResults, NoEntry
<1>3. ASSUME NEW logs, Record(logs)
      PROVE  EntriesInv'
  <2>. SUFFICES ASSUME NEW t \in Target, results'.targets[t].compiled = "yes"
                PROVE  /\ results'.targets[t].expect = Cfg[t].expect
                       /\ results'.targets[t].matched => results'.targets[t].verdict = "failure"
    BY DEF EntriesInv
  <2>1. results'.targets[t] = ResultEntry(t, logs)
    BY <1>3 DEF Record
  <2>2. Compiled(t)
    BY <2>1 DEF ResultEntry, NoEntry, Compiled
  <2>3. ResultEntry(t, logs) =
          [compiled |-> "yes", verdict |-> rows[t].verdict, insns |-> rows[t].insns,
           expect |-> Cfg[t].expect,
           matched |-> Cfg[t].expect /\ ran /\ rows[t].verdict = "failure" /\ t \in logs,
           execution |-> execResults[t]]
    BY <2>2 DEF ResultEntry, Compiled
  <2>4. ResultEntry(t, logs).expect = Cfg[t].expect /\ ResultEntry(t, logs).verdict = rows[t].verdict
    BY <2>3
  <2>5. ResultEntry(t, logs).matched
          = (Cfg[t].expect /\ ran /\ rows[t].verdict = "failure" /\ t \in logs)
    BY <2>3
  <2>. QED
    BY <2>1, <2>4, <2>5
<1>4. results' = results \/ results' = NoResults
      \/ \E logs \in SUBSET {t \in Target : Cfg[t].expect} : Record(logs)
  BY DEF Next, Step, DevStart, CiStart, CompileSkip, CompileOk, CompileFail, CompileTimeout,
         CompileEnd, BatchAnswered, BatchTimeout, VeristatVanishes, VerifyEnd, RunSkip,
         RunObject, RunEnd, RunTimeout, CiGate, UpdateBaseline, vars, fileVars
<1>. QED
  BY <1>1, <1>2, <1>3, <1>4

\* check_results.py --update-baseline on a file of a run in which veristat ran writes
\* the documented verdict of every target it lists, whatever runs came before.
THEOREM BaselineIsSound == Spec => RegressionNeverAdopted
<1>1. ASSUME TypeOK, EntriesInv, [Next]_vars, baseline' # baseline, results.ran,
             NEW t \in Target, baseline'.targets[t].listed
      PROVE  baseline'.targets[t].verdict = IF Cfg[t].expect THEN "failure" ELSE "success"
  <2>1. UpdateBaseline
    BY <1>1 DEF Next, Step, DevStart, CiStart, Start, CompileSkip, CompileOk, CompileFail,
           CompileTimeout, CompileEnd, BatchAnswered, BatchTimeout, VeristatVanishes, VerifyEnd,
           RunSkip, RunObject, RunEnd, RunTimeout, Record, CiGate, vars, fileVars
  <2>. DEFINE e == results.targets[t]
  <2>2. baseline'.targets[t].listed = (e.compiled # "absent") /\ baseline'.targets[t].verdict = e.verdict
    BY <2>1 DEF UpdateBaseline, UpdatedBaseline
  <2>3. ~VerdictError(e, results.ran)
    BY <2>1 DEF UpdateBaseline, AbsoluteErrors
  <2>4. e.compiled \in {"absent", "no", "yes"}
    BY <1>1 DEF TypeOK, Results, Entry
  <2>5. e.compiled = "yes"
    BY <2>2, <2>3, <2>4, <1>1 DEF VerdictError
  <2>6. e.expect = Cfg[t].expect /\ (e.matched => e.verdict = "failure")
    BY <2>5, <1>1 DEF EntriesInv
  <2>. QED
    BY <2>2, <2>3, <2>5, <2>6, <1>1 DEF VerdictError
<1>2. TypeOK /\ EntriesInv /\ [Next]_vars =>
        (baseline' # baseline /\ results.ran =>
           \A t \in Target : baseline'.targets[t].listed =>
             baseline'.targets[t].verdict = IF Cfg[t].expect THEN "failure" ELSE "success")
  BY <1>1
<1>3. Init => EntriesInv
  BY DEF Init, EntriesInv, NoResults, NoEntry
<1>4. Spec => []EntriesInv
  BY <1>3, EntriesNext, PTL DEF Spec
<1>. QED
  BY <1>2, <1>4, TypeCorrect, PTL DEF Spec, RegressionNeverAdopted
=============================================================================

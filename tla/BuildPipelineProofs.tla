------------------------ MODULE BuildPipelineProofs ------------------------
(* What the workflow delivers was built from completely patched sources at  *)
(* the qualified commits, is what its audit read, and is described truly by *)
(* its metadata, for any patch tools that keep the discipline of Patcher in *)
(* any stages that run all of them; and the workflow implements ReleaseGate.*)
EXTENDS BuildPipeline, PatcherProofs

Steps == Ended \cup {"prepare", "sync", "pin", "patch", "tool", "clang", "tree", "build",
                     "kernel", "seal", "audit", "package", "upload", "publish"}

\* The stages and their tools.
LEMMA StageFacts ==
    /\ Len(Stage) \in Nat \ {0} /\ DOMAIN Stage = 1..Len(Stage)
    /\ \A i \in DOMAIN Stage :
          /\ Stage[i].need \subseteq Project
          /\ Len(Stage[i].run) \in Nat \ {0} /\ DOMAIN Stage[i].run = 1..Len(Stage[i].run)
          /\ \A j \in DOMAIN Stage[i].run : Stage[i].run[j] \in Patch
<1> DEFINE S == [need : SUBSET Project, run : Seq(Patch) \ {<<>>}]
<1>1. Stage \in Seq(S) /\ Stage # <<>>
  BY PipelineAssumption
<1>2. Len(Stage) \in Nat /\ DOMAIN Stage = 1..Len(Stage) /\ \A i \in DOMAIN Stage : Stage[i] \in S
  BY ONLY <1>1, SeqFacts
<1>3. Len(Stage) # 0
  BY <1>1
<1>4. ASSUME NEW i \in DOMAIN Stage
      PROVE  /\ Stage[i].need \subseteq Project
             /\ Len(Stage[i].run) \in Nat \ {0} /\ DOMAIN Stage[i].run = 1..Len(Stage[i].run)
             /\ \A j \in DOMAIN Stage[i].run : Stage[i].run[j] \in Patch
  <2>1. Stage[i].need \in SUBSET Project /\ Stage[i].run \in Seq(Patch) /\ Stage[i].run # <<>>
    BY <1>2
  <2>2. /\ Len(Stage[i].run) \in Nat /\ DOMAIN Stage[i].run = 1..Len(Stage[i].run)
        /\ \A j \in DOMAIN Stage[i].run : Stage[i].run[j] \in Patch
    BY ONLY <2>1, SeqFacts
  <2>3. Len(Stage[i].run) # 0
    BY <2>1
  <2> QED
    BY <2>1, <2>2, <2>3
<1> QED
  BY <1>2, <1>3, <1>4

\* A tool that is run is one of the tools, and its stage and place exist.
LEMMA CurrentFacts ==
    ASSUME TypeOK
    PROVE  /\ stage \in Nat /\ stage \in DOMAIN Stage /\ next \in Nat /\ next >= 1
           /\ Len(Stage[stage].run) \in Nat
           /\ next <= Len(Stage[stage].run) => next \in DOMAIN Stage[stage].run /\ Current \in Patch
  BY StageFacts DEF TypeOK, Current

-----------------------------------------------------------------------------
(* The workflow takes only steps of the patchers.                           *)

\* A workspace as it was fetched is fetched again without a difference.
LEMMA PristineFetch ==
    ASSUME Pristine, tool = Idle, shape' \in Shapes, UNCHANGED <<edits, kept, tool, at, result, report>>
    PROVE  Fetch
  BY DEF Pristine, Fetch

LEMMA PinKeeps == ASSUME Pristine, PinRecovery PROVE UNCHANGED pvars
<1>1. edits' = edits
  BY DEF Pristine, PinRecovery, NoEdits
<1>2. kept' = kept
  BY PatchAssumption DEF Pristine, PinRecovery
<1> QED
  BY <1>1, <1>2 DEF PinRecovery, pvars

\* The steps that touch neither the sources nor the tool.
Apart ==
    \/ Dispatch \/ SyncGivesUp \/ ToolReturns \/ AssertStage
    \/ InstallClang \/ DeviceTree \/ Build \/ PatchKernel \/ Seal \/ Audit
    \/ Package \/ Upload \/ Publish \/ Abort \/ UNCHANGED vars

LEMMA ApartKeeps == Apart => UNCHANGED pvars
  BY Zenon DEF Apart, Dispatch, SyncGivesUp, ToolReturns, AssertStage, InstallClang,
       DeviceTree, Build, PatchKernel, Seal, Audit, Package, Upload, Publish, Abort, vars, pvars

LEMMA IsPatcherStep == BInv /\ [Next]_vars => [PNext]_pvars
<1> SUFFICES ASSUME BInv, [Next]_vars PROVE [PNext]_pvars
  OBVIOUS
<1>1. tool # Idle => step = "tool"
  BY DEF BInv, RunnerInv
<1>2. step \in {"sync", "pin"} => Pristine
  BY DEF BInv, RunnerInv
<1>3. CASE Apart
  BY <1>3, ApartKeeps
<1>4. CASE PrepareRunner
  <2>1. tool = Idle /\ shape \in Shapes
    BY <1>1, <1>4 DEF PrepareRunner, BInv, TypeOK, PTypeOK
  <2>2. Fetch
    BY <1>4, <2>1 DEF PrepareRunner, Wiped, Fetch
  <2> QED
    BY <2>2 DEF PNext
<1>5. CASE SyncSucceeds \/ SyncAttemptFails
  <2>1. tool = Idle /\ Pristine
    BY <1>1, <1>2, <1>5 DEF SyncSucceeds, SyncAttemptFails
  <2>2. shape' \in Shapes /\ UNCHANGED <<edits, kept, tool, at, result, report>>
    BY <1>5 DEF SyncSucceeds, SyncAttemptFails, PartlySynced
  <2>3. Fetch
    BY <2>1, <2>2, PristineFetch
  <2> QED
    BY <2>3 DEF PNext
<1>6. CASE PinRecovery
  <2>1. Pristine
    BY <1>2, <1>6 DEF PinRecovery
  <2> QED
    BY <1>6, <2>1, PinKeeps
<1>7. CASE RunTool
  <2>1. CASE CommitsQualified
    <3>1. Current \in Patch
      BY <1>7, CurrentFacts DEF RunTool, BInv
    <3>2. Invoke(Current)
      BY <1>7, <2>1 DEF RunTool
    <3> QED
      BY <3>1, <3>2 DEF PNext
  <2>2. CASE ~CommitsQualified
    BY <1>7, <2>2 DEF RunTool
  <2> QED
    BY <2>1, <2>2
<1>8. CASE ToolRuns \/ ToolInterrupted
  BY <1>8 DEF ToolRuns, ToolInterrupted, PNext
<1> QED
  BY <1>3, <1>4, <1>5, <1>6, <1>7, <1>8 DEF Next, JobStep, Fault, Apart

LEMMA PatcherKept == BInv /\ [Next]_vars => PInv'
  BY IsPatcherStep, NextInv DEF BInv

-----------------------------------------------------------------------------
(* Types.                                                                   *)

\* What a step does to the position in the workflow.
LEMMA PositionStep ==
    ASSUME BInv, [Next]_vars
    PROVE  /\ step' \in Steps
           /\ \/ UNCHANGED <<stage, next>>
              \/ stage' = 1 /\ next' = 1
              \/ step = "tool" /\ stage' = stage /\ next' = next + 1
              \/ stage # Len(Stage) /\ stage' = stage + 1 /\ next' = 1
<1> USE DEF Goto, Fail, wvars, bvars, Steps, Ended
<1>0. step \in Steps
  BY DEF BInv, TypeOK
<1>1. CASE Dispatch \/ PrepareRunner \/ SyncSucceeds \/ SyncAttemptFails \/ SyncGivesUp \/ PinRecovery
  BY <1>1 DEF Dispatch, PrepareRunner, SyncSucceeds, SyncAttemptFails, SyncGivesUp, PinRecovery
<1>2. CASE RunTool \/ ToolRuns \/ ToolInterrupted \/ ToolReturns
  BY <1>0, <1>2 DEF RunTool, ToolRuns, ToolInterrupted, ToolReturns
<1>3. CASE AssertStage
  BY <1>3 DEF AssertStage
<1>4. CASE InstallClang \/ DeviceTree \/ Build \/ PatchKernel \/ Seal \/ Audit
  BY <1>4 DEF InstallClang, DeviceTree, Build, PatchKernel, Seal, Audit
<1>5. CASE Package \/ Upload \/ Publish \/ Abort
  BY <1>5 DEF Package, Upload, Publish, Abort
<1>6. CASE UNCHANGED vars
  BY <1>0, <1>6 DEF vars
<1> QED
  BY <1>1, <1>2, <1>3, <1>4, <1>5, <1>6 DEF Next, JobStep, Fault

LEMMA CountersStep ==
    ASSUME BInv, [Next]_vars
    PROVE  attempt' \in 0..MaxAttempt /\ run' \in 0..MaxRun
<1> USE DEF Goto, Fail, wvars, bvars
<1>0. attempt \in 0..MaxAttempt /\ run \in 0..MaxRun /\ MaxAttempt \in Nat /\ MaxRun \in Nat
  BY PipelineAssumption DEF BInv, TypeOK
<1>1. CASE Dispatch \/ PrepareRunner \/ SyncSucceeds \/ SyncAttemptFails \/ SyncGivesUp \/ PinRecovery
  BY <1>0, <1>1 DEF Dispatch, PrepareRunner, SyncSucceeds, SyncAttemptFails, SyncGivesUp, PinRecovery
<1>2. CASE RunTool \/ ToolRuns \/ ToolInterrupted \/ ToolReturns \/ AssertStage
  BY <1>0, <1>2 DEF RunTool, ToolRuns, ToolInterrupted, ToolReturns, AssertStage
<1>3. CASE InstallClang \/ DeviceTree \/ Build \/ PatchKernel \/ Seal \/ Audit
  BY <1>0, <1>3 DEF InstallClang, DeviceTree, Build, PatchKernel, Seal, Audit
<1>4. CASE Package \/ Upload \/ Publish \/ Abort
  BY <1>0, <1>4 DEF Package, Upload, Publish, Abort
<1>5. CASE UNCHANGED vars
  BY <1>0, <1>5 DEF vars
<1> QED
  BY <1>1, <1>2, <1>3, <1>4, <1>5 DEF Next, JobStep, Fault

LEMMA PublishStep == BInv /\ [Next]_vars => publish' \in BOOLEAN
<1> SUFFICES ASSUME BInv, [Next]_vars PROVE publish' \in BOOLEAN
  OBVIOUS
<1>1. publish \in BOOLEAN
  BY DEF BInv, TypeOK
<1>2. CASE Dispatch
  BY <1>2 DEF Dispatch
<1>3. CASE ~Dispatch
  <2>1. UNCHANGED publish
    BY Zenon, <1>3 DEF Next, JobStep, Fault, PrepareRunner, SyncSucceeds, SyncAttemptFails, SyncGivesUp,
         PinRecovery, RunTool, ToolRuns, ToolInterrupted, ToolReturns, AssertStage, InstallClang,
         DeviceTree, Build, PatchKernel, Seal, Audit, Package, Upload, Publish, Abort,
         Goto, Fail, wvars, bvars, vars
  <2> QED
    BY Zenon, <1>1, <2>1
<1> QED
  BY <1>2, <1>3

\* GITHUB_ENV holds commits.
LEMMA CapturedStep ==
    ASSUME BInv, [Next]_vars
    PROVE  captured' \in [Project -> Commit \cup {"unset"}]
<1>0. captured \in [Project -> Commit \cup {"unset"}] /\ head \in [Project -> Commit]
  BY DEF BInv, TypeOK
<1>1. CASE Dispatch
  BY <1>1 DEF Dispatch, NoCommits
<1>2. CASE RunTool
  <2>1. captured' \in {Captured, captured}
    BY <1>2 DEF RunTool
  <2>2. Captured \in [Project -> Commit \cup {"unset"}]
    BY <1>0 DEF Captured
  <2> QED
    BY <1>0, <2>1, <2>2
<1>3. CASE ~(Dispatch \/ RunTool)
  <2>1. UNCHANGED captured
    BY Zenon, <1>3 DEF Next, JobStep, Fault, PrepareRunner, SyncSucceeds, SyncAttemptFails, SyncGivesUp,
         PinRecovery, ToolRuns, ToolInterrupted, ToolReturns, AssertStage, InstallClang,
         DeviceTree, Build, PatchKernel, Seal, Audit, Package, Upload, Publish, Abort,
         wvars, bvars, vars
  <2> QED
    BY <1>0, <2>1
<1> QED
  BY <1>1, <1>2, <1>3

\* The checkouts move in four steps only.
LEMMA HeadStep ==
    ASSUME BInv, [Next]_vars
    PROVE  /\ head' \in [Project -> Commit]
           /\ \/ UNCHANGED head
              \/ SyncSucceeds \/ SyncAttemptFails
              \/ PinRecovery /\ head' = [head EXCEPT !["recovery"] = "expected"]
              \/ InstallClang /\ head' = [head EXCEPT !["clang"] = "expected"]
<1>0. head \in [Project -> Commit] /\ "recovery" \in Project /\ "clang" \in Project /\ "expected" \in Commit
  BY PipelineAssumption DEF BInv, TypeOK, Commit
<1>1. CASE SyncSucceeds
  <2>1. head' \in Heads
    BY <1>1 DEF SyncSucceeds
  <2> QED
    BY <1>1, <2>1, PipelineAssumption
<1>5. CASE SyncAttemptFails
  BY <1>5 DEF SyncAttemptFails, PartlySynced
<1>2. CASE PinRecovery
  <2>1. head' = [head EXCEPT !["recovery"] = "expected"]
    BY <1>2 DEF PinRecovery
  <2> QED
    BY <1>0, <1>2, <2>1
<1>3. CASE InstallClang
  <2>1. head' = [head EXCEPT !["clang"] = "expected"]
    BY <1>3 DEF InstallClang
  <2> QED
    BY <1>0, <1>3, <2>1
<1>4. CASE ~(SyncSucceeds \/ SyncAttemptFails \/ PinRecovery \/ InstallClang)
  <2>1. UNCHANGED head
    BY Zenon, <1>4 DEF Next, JobStep, Fault, Dispatch, PrepareRunner, SyncGivesUp,
         RunTool, ToolRuns, ToolInterrupted, ToolReturns, AssertStage,
         DeviceTree, Build, PatchKernel, Seal, Audit, Package, Upload, Publish, Abort,
         Goto, Fail, wvars, bvars, vars
  <2> QED
    BY <1>0, <2>1
<1> QED
  BY <1>1, <1>2, <1>3, <1>4, <1>5

LEMMA TypeKept == BInv /\ [Next]_vars => TypeOK'
<1> SUFFICES ASSUME BInv, [Next]_vars PROVE TypeOK'
  OBVIOUS
<1>1. PTypeOK'
  BY PatcherKept DEF PInv
<1>2. stage' \in DOMAIN Stage /\ next' \in 1..(Len(Stage[stage'].run) + 1)
  <2>1. stage \in DOMAIN Stage /\ next \in 1..(Len(Stage[stage].run) + 1)
    BY DEF BInv, TypeOK
  <2>2. step = "tool" => next <= Len(Stage[stage].run)
    BY DEF BInv, RunnerInv
  <2> QED
    BY <2>1, <2>2, StageFacts, PositionStep
<1>3. attempt' \in 0..MaxAttempt /\ run' \in 0..MaxRun
  BY CountersStep
<1>4. publish' \in BOOLEAN
  BY PublishStep
<1>5. head' \in [Project -> Commit]
  BY HeadStep
<1>6. step' \in Steps
  BY PositionStep
<1>7. captured' \in [Project -> Commit \cup {"unset"}]
  BY CapturedStep
<1> QED
  BY Zenon, <1>1, <1>2, <1>3, <1>4, <1>5, <1>6, <1>7 DEF TypeOK, Steps

-----------------------------------------------------------------------------
(* The tools and the sources.                                               *)

\* A step of the running tool: its edits are added to the others, nothing is cut
\* short, and its exit is booked under its own name.
LEMMA ToolStepFacts ==
    ASSUME BInv, ToolStep
    PROVE  /\ tool \in Patch /\ tool' \in {tool, Idle} /\ kept' = kept
           /\ \A h \in Hunk : edits'[h] >= edits[h]
<1>0. tool \in Patch
  BY DEF BInv, PInv, PTypeOK, ToolStep, Check, Write, Verify, Report, Finish, AtStep
<1>1. \A h \in Hunk : edits[h] \in Nat
  BY DEF BInv, PInv, PTypeOK
<1>2. CASE Write
  <2>1. edits' = [h \in Hunk |-> Edited(tool, Step.on, h)] /\ UNCHANGED <<kept, tool>>
    BY <1>2 DEF Write, Advance
  <2>2. ASSUME NEW h \in Hunk PROVE edits'[h] >= edits[h]
    BY <1>1, <2>1 DEF Edited
  <2> QED
    BY <1>0, <2>1, <2>2
<1>3. CASE ~Write
  <2>1. UNCHANGED <<edits, kept>> /\ tool' \in {tool, Idle}
    BY <1>3 DEF ToolStep, Check, Verify, Report, Finish, Advance, Exit
  <2> QED
    BY <1>0, <1>1, <2>1
<1> QED
  BY <1>2, <1>3

\* An interruption ends the tool, and its result says so.
LEMMA ToolFaultFacts ==
    ASSUME BInv, ToolFault
    PROVE  /\ tool \in Patch /\ tool' = Idle /\ result'[tool] = "interrupted"
<1>1. tool # Idle /\ Exit("interrupted")
  BY DEF ToolFault, CutShort, Kill, AtStep
<1> QED
  BY <1>1 DEF BInv, PInv, PTypeOK, Exit

LEMMA RunnerKept == BInv /\ [Next]_vars => RunnerInv'
<1> SUFFICES ASSUME BInv, [Next]_vars PROVE RunnerInv'
  OBVIOUS
<1> USE DEF Goto, Fail
<1>0. RunnerInv
  BY DEF BInv
<1>1. CASE PrepareRunner
  <2>1. step = "prepare" /\ Wiped /\ step' = "sync" /\ stage' = 1 /\ next' = 1 /\ tool' = tool
    BY <1>1 DEF PrepareRunner
  <2>2. Pristine'
    BY <2>1 DEF Wiped, Pristine
  <2> QED
    BY <1>0, <2>1, <2>2 DEF RunnerInv
<1>2. CASE SyncSucceeds \/ SyncAttemptFails
  <2>1. /\ step = "sync" /\ step' \in {"sync", "pin"}
        /\ UNCHANGED <<stage, next, tool, edits, kept, result, report>>
    BY <1>2 DEF SyncSucceeds, SyncAttemptFails, PartlySynced, pvars
  <2>2. Pristine'
    BY <1>0, <2>1 DEF RunnerInv, Pristine
  <2> QED
    BY <1>0, <2>1, <2>2 DEF RunnerInv
<1>3. CASE RunTool
  <2>1. CASE CommitsQualified
    <3>1. /\ next <= Len(Stage[stage].run) /\ tool' = Current
          /\ step' = "tool" /\ UNCHANGED <<stage, next>>
      BY <1>3, <2>1 DEF RunTool, Invoke, wvars
    <3> QED
      BY <3>1 DEF RunnerInv, Current
  <2>2. CASE ~CommitsQualified
    <3>1. step = "patch" /\ step' = "failed" /\ tool' = tool
      BY <1>3, <2>2 DEF RunTool, pvars
    <3> QED
      BY <1>0, <3>1 DEF RunnerInv
  <2> QED
    BY <2>1, <2>2
<1>4. CASE ToolRuns \/ ToolInterrupted
  <2>1. step = "tool" /\ UNCHANGED <<step, stage, next>> /\ tool' \in {tool, Idle}
    BY <1>4, ToolStepFacts, ToolFaultFacts DEF ToolRuns, ToolInterrupted, bvars
  <2> QED
    BY <1>0, <2>1 DEF RunnerInv, Current
<1>5. CASE ToolReturns \/ Abort
  <2>1. tool' = Idle /\ step' \in {"patch", "failed"}
    BY <1>5 DEF ToolReturns, Abort, pvars
  <2> QED
    BY <2>1 DEF RunnerInv
<1>6. CASE \/ Dispatch \/ SyncGivesUp \/ PinRecovery \/ AssertStage \/ InstallClang \/ DeviceTree
           \/ Build \/ PatchKernel \/ Seal \/ Audit \/ Package \/ Upload \/ Publish
  <2>1. tool' = tool /\ step # "tool" /\ step' \notin {"tool", "sync", "pin"}
    BY <1>6 DEF Dispatch, SyncGivesUp, PinRecovery, AssertStage, InstallClang, DeviceTree,
                Build, PatchKernel, Seal, Audit, Package, Upload, Publish, pvars, Ended
  <2> QED
    BY <1>0, <2>1 DEF RunnerInv
<1>7. CASE UNCHANGED vars
  BY <1>0, <1>7 DEF vars, pvars, bvars, RunnerInv, Pristine, Current
<1> QED
  BY <1>1, <1>2, <1>3, <1>4, <1>5, <1>6, <1>7 DEF Next, JobStep, Fault

\* While nothing is cut short and edits are only added, what was asserted of the
\* stages stays so.
LEMMA SourcesStay ==
    ASSUME BInv, TypeOK', Undisturbed, kept' = kept,
           \A h \in Hunk : edits'[h] >= edits[h],
           \A i \in DOMAIN Stage : Passed(i)' =>
               Passed(i) \/ \A j \in DOMAIN Stage[i].run : Asserted(Stage[i].run[j])
    PROVE  SourcesInv'
<1> SUFFICES /\ \A f \in File : Whole(f)'
             /\ \A i \in DOMAIN Stage : Passed(i)' =>
                   \A j \in DOMAIN Stage[i].run : Asserted(Stage[i].run[j])'
  BY DEF SourcesInv
<1>1. \A f \in File : Whole(f)'
  BY DEF BInv, SourcesInv, Whole
<1>2. ASSUME NEW i \in DOMAIN Stage, Passed(i)', NEW j \in DOMAIN Stage[i].run
      PROVE  Asserted(Stage[i].run[j])'
  <2> DEFINE p == Stage[i].run[j]
  <2>1. p \in Patch
    BY StageFacts
  <2>2. Asserted(p)
    BY <1>2 DEF BInv, SourcesInv
  <2>3. \A h \in Hunk : edits[h] \in Nat /\ edits'[h] \in Nat
    BY DEF BInv, TypeOK, PTypeOK
  <2>4. \A h \in Hunk : edits[h] > 0 => edits'[h] > 0
    BY <2>3
  <2> QED
    BY <2>2, <2>4 DEF Asserted
<1> QED
  BY <1>1, <1>2

\* The same for a step that only reads them.
LEMMA SourcesRead ==
    ASSUME BInv, TypeOK', Undisturbed, UNCHANGED <<edits, kept>>,
           \A i \in DOMAIN Stage : Passed(i)' =>
               Passed(i) \/ \A j \in DOMAIN Stage[i].run : Asserted(Stage[i].run[j])
    PROVE  SourcesInv'
<1>1. \A h \in Hunk : edits'[h] >= edits[h]
  BY DEF BInv, TypeOK, PTypeOK
<1> QED
  BY <1>1, SourcesStay

LEMMA SourcesKept == BInv /\ [Next]_vars => SourcesInv'
<1> SUFFICES ASSUME BInv, [Next]_vars PROVE SourcesInv'
  OBVIOUS
<1> USE DEF Goto, Fail
<1>0. TypeOK' /\ stage \in DOMAIN Stage /\ DOMAIN Stage = 1..Len(Stage)
  BY TypeKept, StageFacts DEF BInv, TypeOK
<1>1. CASE \/ Dispatch \/ PrepareRunner \/ SyncSucceeds \/ SyncAttemptFails \/ SyncGivesUp \/ Publish \/ Abort
  <2>1. step' \notin {"patch", "tool"} \cup Building
    BY <1>1 DEF Dispatch, PrepareRunner, SyncSucceeds, SyncAttemptFails, SyncGivesUp, Publish, Abort, Building
  <2> QED
    BY <2>1 DEF SourcesInv, Undisturbed
<1>2. CASE PinRecovery
  <2>1. step = "pin" /\ step' = "patch" /\ stage' = stage
    BY <1>2 DEF PinRecovery
  <2>2. Pristine /\ stage = 1 /\ UNCHANGED kept
    BY <1>2, <2>1, PinKeeps DEF BInv, RunnerInv, pvars
  <2>3. \A f \in File : Whole(f)'
    BY <2>2 DEF Pristine, Whole
  <2>4. \A i \in DOMAIN Stage : ~Passed(i)'
    BY <1>0, <2>1, <2>2 DEF Passed, Building
  <2> QED
    BY <2>3, <2>4 DEF SourcesInv
<1>3. CASE RunTool
  <2>1. CASE CommitsQualified
    <3>1. step = "patch" /\ step' = "tool" /\ UNCHANGED <<edits, kept, stage>>
      BY <1>3, <2>1 DEF RunTool, Invoke, wvars
    <3>2. Undisturbed /\ \A i \in DOMAIN Stage : Passed(i)' => Passed(i)
      BY <3>1 DEF Undisturbed, Passed, Building
    <3> QED
      BY <1>0, <3>1, <3>2, SourcesRead
  <2>2. CASE ~CommitsQualified
    <3>1. step' = "failed"
      BY <1>3, <2>2 DEF RunTool
    <3> QED
      BY <3>1 DEF SourcesInv, Undisturbed, Building
  <2> QED
    BY <2>1, <2>2
<1>4. CASE ToolRuns
  <2>1. step = "tool" /\ ToolStep /\ UNCHANGED <<step, stage>>
    BY <1>4 DEF ToolRuns, bvars
  <2>2. tool # Idle
    BY <2>1, ToolStepFacts, PatchAssumption
  <2>3. Undisturbed /\ \A i \in DOMAIN Stage : Passed(i)' => Passed(i)
    BY <2>1, <2>2 DEF Undisturbed, Passed
  <2> QED
    BY <1>0, <2>1, <2>3, ToolStepFacts, SourcesStay
<1>5. CASE ToolInterrupted
  <2>1. step = "tool" /\ ToolFault /\ UNCHANGED <<step, stage, next>>
    BY <1>5 DEF ToolInterrupted, bvars
  <2>2. tool = Current /\ tool' = Idle /\ result'[Current] = "interrupted" /\ Current' = Current
    BY <2>1, ToolFaultFacts, PatchAssumption DEF BInv, RunnerInv, Current
  <2> QED
    BY <2>1, <2>2 DEF SourcesInv, Undisturbed, Building
<1>6. CASE ToolReturns
  <2>1. step = "tool" /\ UNCHANGED <<edits, kept, stage>>
    BY <1>6 DEF ToolReturns, pvars
  <2>2. CASE result[Current] = "ok"
    <3>1. step' = "patch"
      BY <1>6, <2>2 DEF ToolReturns
    <3>2. Undisturbed /\ \A i \in DOMAIN Stage : Passed(i)' => Passed(i)
      BY <2>1, <2>2, <3>1 DEF Undisturbed, Passed, Building
    <3> QED
      BY <1>0, <2>1, <3>2, SourcesRead
  <2>3. CASE result[Current] # "ok"
    <3>1. step' = "failed"
      BY <1>6, <2>3 DEF ToolReturns
    <3> QED
      BY <3>1 DEF SourcesInv, Undisturbed, Building
  <2> QED
    BY <2>2, <2>3
<1>7. CASE AssertStage
  <2>1. step = "patch" /\ Undisturbed /\ UNCHANGED <<edits, kept>>
    BY <1>7 DEF AssertStage, pvars, Undisturbed
  <2>2. CASE \A i \in DOMAIN Stage[stage].run : Asserted(Stage[stage].run[i])
    <3>1. \/ stage = Len(Stage) /\ step' = "clang"
          \/ stage' = stage + 1 /\ step' = "patch"
      BY <1>7, <2>2 DEF AssertStage
    <3>2. \A i \in DOMAIN Stage : Passed(i)' => Passed(i) \/ i = stage
      BY <1>0, <3>1 DEF Passed, Building
    <3> QED
      BY <1>0, <2>1, <2>2, <3>2, SourcesRead
  <2>3. CASE ~\A i \in DOMAIN Stage[stage].run : Asserted(Stage[stage].run[i])
    <3>1. step' = "failed"
      BY <1>7, <2>3 DEF AssertStage
    <3> QED
      BY <3>1 DEF SourcesInv, Undisturbed, Building
  <2> QED
    BY <2>2, <2>3
<1>8. CASE InstallClang \/ DeviceTree \/ Build \/ PatchKernel \/ Seal \/ Audit \/ Package \/ Upload
  <2>1. step \in Building /\ UNCHANGED <<edits, kept>>
    BY <1>8 DEF InstallClang, DeviceTree, Build, PatchKernel, Seal, Audit, Package, Upload, pvars, Building
  <2>2. Undisturbed /\ \A i \in DOMAIN Stage : Passed(i)
    BY <2>1 DEF Undisturbed, Passed
  <2> QED
    BY <1>0, <2>1, <2>2, SourcesRead
<1>9. CASE UNCHANGED vars
  BY <1>9 DEF vars, pvars, bvars, BInv, SourcesInv, Undisturbed, Passed, Asserted, Current, Whole
<1> QED
  BY <1>1, <1>2, <1>3, <1>4, <1>5, <1>6, <1>7, <1>8, <1>9 DEF Next, JobStep, Fault

-----------------------------------------------------------------------------
(* The commits.                                                             *)

\* The stages whose commits have been checked.
Checked(i) == Passed(i) \/ (i = stage /\ (next > 1 \/ step = "tool"))

\* What was checked stays so while nothing but clang is replaced.
HeadsStay ==
    /\ step \in {"patch", "tool"} \cup Building
    /\ step' \in {"patch", "tool"} \cup Building
    /\ \A p \in Project : head'[p] = head[p] \/ (p = "clang" /\ head'[p] = "expected")
    /\ UNCHANGED manifest
    /\ \A p \in Project : captured'[p] \in {captured[p], head[p]}
    /\ \A i \in DOMAIN Stage : Checked(i)' =>
           Checked(i) \/ \A p \in Stage[i].need : head[p] = "expected" /\ captured'[p] = head[p]

LEMMA HeadsStayKept == BInv /\ HeadsStay => HeadsInv'
<1> SUFFICES ASSUME BInv, HeadsStay PROVE HeadsInv'
  OBVIOUS
<1>1. \A i \in DOMAIN Stage : Stage[i].need \subseteq Project
  BY StageFacts
<1>2. "recovery" \in Project /\ "recovery" # "clang"
  BY PipelineAssumption
<1>3. head'["recovery"] = "expected"
  BY <1>2 DEF HeadsStay, BInv, HeadsInv
<1>4. ASSUME NEW i \in DOMAIN Stage, Checked(i)', NEW p \in Stage[i].need
      PROVE  head'[p] = "expected" /\ captured'[p] = head'[p]
  <2>1. head[p] = "expected" /\ captured'[p] = head[p]
    <3>1. CASE Checked(i)
      <4>1. head[p] = "expected" /\ captured[p] = head[p]
        BY <1>4, <3>1 DEF HeadsStay, BInv, HeadsInv, Checked
      <4> QED
        BY <1>1, <4>1 DEF HeadsStay
    <3>2. CASE ~Checked(i)
      BY <1>4, <3>2 DEF HeadsStay
    <3> QED
      BY <3>1, <3>2
  <2> QED
    BY <1>1, <2>1 DEF HeadsStay
<1>5. \A p \in Project \ {"recovery", "clang"} : manifest'[p] = head'[p]
  BY DEF HeadsStay, BInv, HeadsInv
<1> QED
  BY <1>3, <1>4, <1>5 DEF HeadsInv, Checked

LEMMA HeadsKept == BInv /\ [Next]_vars => HeadsInv'
<1> SUFFICES ASSUME BInv, [Next]_vars PROVE HeadsInv'
  OBVIOUS
<1> USE DEF Goto, Fail
<1>0. stage \in DOMAIN Stage /\ stage \in Nat /\ DOMAIN Stage = 1..Len(Stage) /\ next \in Nat
  BY CurrentFacts, StageFacts DEF BInv
<1>1. CASE \/ Dispatch \/ PrepareRunner \/ SyncAttemptFails \/ SyncGivesUp \/ Publish \/ Abort
  <2>1. step' \notin {"pin", "patch", "tool"} \cup Building
    BY <1>1 DEF Dispatch, PrepareRunner, SyncAttemptFails, SyncGivesUp, Publish, Abort, Building
  <2> QED
    BY <2>1 DEF HeadsInv
<1>2. CASE SyncSucceeds
  <2>1. step' = "pin" /\ manifest' = head'
    BY <1>2 DEF SyncSucceeds
  <2> QED
    BY <2>1 DEF HeadsInv, Building
<1>3. CASE PinRecovery
  <2>1. step = "pin" /\ step' = "patch" /\ UNCHANGED <<stage, next, manifest>> /\ head' = [head EXCEPT !["recovery"] = "expected"]
    BY <1>3 DEF PinRecovery
  <2>2. head \in [Project -> Commit] /\ "recovery" \in Project
    BY PipelineAssumption DEF BInv, TypeOK
  <2>3. stage = 1 /\ next = 1
    BY <2>1 DEF BInv, RunnerInv
  <2>4. head'["recovery"] = "expected" /\ \A p \in Project \ {"recovery"} : head'[p] = head[p]
    BY <2>1, <2>2
  <2>5. \A i \in DOMAIN Stage : ~Checked(i)'
    BY <1>0, <2>1, <2>3 DEF Checked, Passed, Building
  <2>6. \A p \in Project \ {"recovery", "clang"} : manifest'[p] = head'[p]
    BY <2>1, <2>4 DEF BInv, HeadsInv
  <2> QED
    BY <2>4, <2>5, <2>6 DEF HeadsInv, Checked
<1>4. CASE RunTool
  <2>1. CASE CommitsQualified
    <3>1. /\ step = "patch" /\ step' = "tool" /\ UNCHANGED <<stage, next, head, manifest>>
          /\ captured' = IF next = 1 THEN Captured ELSE captured
      BY <1>4, <2>1 DEF RunTool
    <3>2. \A i \in DOMAIN Stage : Checked(i)' => Checked(i) \/ (i = stage /\ next = 1)
      BY <1>0, <3>1, CurrentFacts DEF Checked, Passed, Building, BInv
    <3>3. \A p \in Project : captured'[p] \in {captured[p], head[p]}
      BY <3>1 DEF Captured
    <3>4. next = 1 => \A p \in Stage[stage].need : head[p] = "expected" /\ captured'[p] = head[p]
      BY <1>0, <2>1, <3>1, StageFacts DEF Captured, CommitsQualified
    <3> QED
      BY <3>1, <3>2, <3>3, <3>4, HeadsStayKept DEF HeadsStay
  <2>2. CASE ~CommitsQualified
    <3>1. step' = "failed"
      BY <1>4, <2>2 DEF RunTool
    <3> QED
      BY <3>1 DEF HeadsInv, Building
  <2> QED
    BY <2>1, <2>2
<1>5. CASE ToolRuns \/ ToolInterrupted
  <2>1. step = "tool" /\ UNCHANGED <<step, stage, next, head, captured, manifest>>
    BY <1>5 DEF ToolRuns, ToolInterrupted, bvars
  <2> QED
    BY <2>1, HeadsStayKept DEF HeadsStay, Checked, Passed
<1>6. CASE ToolReturns
  <2>1. step = "tool" /\ step' \in {"patch", "failed"} /\ UNCHANGED <<stage, head, captured, manifest>>
    BY <1>6 DEF ToolReturns
  <2>2. CASE step' = "failed"
    BY <2>2 DEF HeadsInv, Building
  <2>3. CASE step' = "patch"
    <3>1. \A i \in DOMAIN Stage : Checked(i)' => Checked(i)
      BY <2>1, <2>3 DEF Checked, Passed, Building
    <3> QED
      BY <2>1, <2>3, <3>1, HeadsStayKept DEF HeadsStay
  <2> QED
    BY <2>1, <2>2, <2>3
<1>7. CASE AssertStage
  <2>1. step = "patch" /\ next > Len(Stage[stage].run) /\ UNCHANGED <<head, captured, manifest>>
    BY <1>7 DEF AssertStage
  <2>2. Checked(stage)
    BY <1>0, <2>1, StageFacts DEF Checked
  <2>3. \/ step' = "failed"
        \/ stage = Len(Stage) /\ step' = "clang" /\ UNCHANGED <<stage, next>>
        \/ stage' = stage + 1 /\ next' = 1 /\ step' = "patch"
    BY <1>7 DEF AssertStage
  <2>4. CASE step' = "failed"
    BY <2>4 DEF HeadsInv, Building
  <2>5. CASE step' # "failed"
    <3>1. \A i \in DOMAIN Stage : Checked(i)' => i < stage \/ i = stage
      BY <1>0, <2>3, <2>5 DEF Checked, Passed, Building
    <3>2. \A i \in DOMAIN Stage : Checked(i)' => Checked(i)
      BY <2>2, <3>1 DEF Checked, Passed
    <3>3. step' \in {"patch", "tool"} \cup Building
      BY <2>3, <2>5 DEF Building
    <3> QED
      BY <2>1, <3>2, <3>3, HeadsStayKept DEF HeadsStay
  <2> QED
    BY <2>4, <2>5
<1>8. CASE InstallClang \/ DeviceTree \/ Build \/ PatchKernel \/ Seal \/ Audit \/ Package \/ Upload
  <2>1. step \in Building /\ step' \in Building \cup {"failed"} /\ UNCHANGED <<captured, manifest>>
    BY <1>8 DEF InstallClang, DeviceTree, Build, PatchKernel, Seal, Audit, Package, Upload, wvars, Building
  <2>2. \A p \in Project : head'[p] = head[p] \/ (p = "clang" /\ head'[p] = "expected")
    BY <1>8, HeadStep DEF BInv, TypeOK, InstallClang, DeviceTree, Build, PatchKernel, Seal, Audit, Package, Upload, wvars
  <2>3. \A i \in DOMAIN Stage : Checked(i)
    BY <2>1 DEF Checked, Passed
  <2>4. CASE step' = "failed"
    BY <2>4 DEF HeadsInv, Building
  <2> QED
    BY <2>1, <2>2, <2>3, <2>4, HeadsStayKept DEF HeadsStay
<1>9. CASE UNCHANGED vars
  BY <1>9 DEF vars, bvars, BInv, HeadsInv, Passed
<1> QED
  BY <1>1, <1>2, <1>3, <1>4, <1>5, <1>6, <1>7, <1>8, <1>9 DEF Next, JobStep, Fault

\* From the last patch step on every named project is at its qualified commit,
\* and every edit is in its file once.
LEMMA WhenBuilding ==
    ASSUME BInv, step \in Building
    PROVE  Complete /\ (\A p \in Named : head[p] = "expected") /\ \A p \in Named : Metadata[p] = head[p]
<1>1. \A p \in {"core", "bionic"} : head[p] = "expected" /\ captured[p] = head[p]
  BY PipelineAssumption DEF BInv, HeadsInv, Passed
<1>2. head["recovery"] = "expected"
  BY DEF BInv, HeadsInv
<1>3. \A f \in File : Whole(f)
  BY DEF BInv, SourcesInv, Undisturbed
<1>4. ASSUME NEW h \in Hunk PROVE edits[h] = 1
  <2>1. /\ h.of \in Patch /\ h.in \in File /\ h.in \in Target(h.of)
        /\ h.at \in Nat /\ End[h.in] \in Nat /\ h.at < End[h.in]
    BY PlaceFacts
  <2>2. Asserted(h.of)
    BY <2>1, PipelineAssumption DEF BInv, SourcesInv, Undisturbed, Passed
  <2>3. PICK g \in Hunk : g.of = h.of /\ g.in = h.in /\ edits[g] > 0
    BY <2>1, <2>2 DEF Asserted
  <2>4. h.at <= kept[h.in]
    BY <1>3, <2>1 DEF Whole
  <2>5. edits[h] > 0
    BY <2>3, <2>4 DEF BInv, PInv, UptoInv
  <2>6. ~(edits[h] > 1)
    BY <1>3, <2>1 DEF BInv, PInv, AppliedAtMostOnce, Noticed
  <2>7. edits[h] \in Nat
    BY DEF BInv, PInv, PTypeOK
  <2> QED
    BY <2>5, <2>6, <2>7
<1>5. \A p \in Named : head[p] = "expected"
  BY <1>1, <1>2 DEF Named
<1>6. \A p \in Named : Metadata[p] = head[p]
  BY <1>1, <1>2 DEF Metadata, Named
<1> QED
  BY <1>3, <1>4, <1>5, <1>6 DEF Complete

-----------------------------------------------------------------------------
(* The image.                                                               *)

\* Sealing and patching keep whose image it is and what it was built from.
LEMMA ImageFields ==
    ASSUME image \in Image
    PROVE  /\ [image EXCEPT !.kernel = "patched"] \in Image
           /\ [image EXCEPT !.kernel = "patched"].kernel = "patched"
           /\ [image EXCEPT !.sealed = TRUE] \in Image
           /\ [image EXCEPT !.sealed = TRUE].sealed
           /\ [image EXCEPT !.sealed = TRUE].kernel = image.kernel
           /\ \A i \in {[image EXCEPT !.kernel = "patched"], [image EXCEPT !.sealed = TRUE]} :
                 i.run = image.run /\ i.complete = image.complete /\ i.head = image.head
  BY DEF Image

LEMMA ImageKept == BInv /\ [Next]_vars => ImageInv'
<1> SUFFICES ASSUME BInv, [Next]_vars PROVE ImageInv'
  OBVIOUS
<1> USE DEF Goto, Fail
<1>0. /\ ImageInv /\ run \in Nat /\ head \in [Project -> Commit]
      /\ (image = None \/ (image \in Image /\ image.run <= run))
      /\ (image \in Image => image.run \in Nat)
  BY DEF BInv, TypeOK, ImageInv, Image
<1>1. CASE Dispatch
  <2>1. run' = run + 1 /\ step' = "prepare" /\ UNCHANGED image
    BY <1>1 DEF Dispatch, wvars
  <2> QED
    BY <1>0, <2>1 DEF ImageInv, Imaged
<1>2. CASE PrepareRunner
  <2>1. image' = None /\ step' = "sync"
    BY <1>2 DEF PrepareRunner, Wiped
  <2> QED
    BY <2>1 DEF ImageInv, Imaged
<1>3. CASE \/ SyncSucceeds \/ SyncAttemptFails \/ SyncGivesUp \/ PinRecovery \/ RunTool \/ ToolRuns
           \/ ToolInterrupted \/ ToolReturns \/ AssertStage \/ InstallClang \/ DeviceTree
  <2>1. /\ step \in {"sync", "pin", "patch", "tool", "clang", "tree"} /\ UNCHANGED <<run, image>>
        /\ step' \in {"sync", "pin", "patch", "tool", "clang", "tree", "build", "failed"}
    BY <1>3 DEF SyncSucceeds, SyncAttemptFails, SyncGivesUp, PinRecovery, RunTool, ToolRuns, ToolInterrupted,
                ToolReturns, AssertStage, InstallClang, DeviceTree, wvars, bvars
  <2>2. image = None
    BY <2>1 DEF BInv, ImageInv
  <2> QED
    BY <2>1, <2>2 DEF ImageInv, Imaged
<1>4. CASE Build
  <2>1. /\ step = "build" /\ step' = "kernel" /\ UNCHANGED <<run, head>>
        /\ image' = [run |-> run, complete |-> Complete, head |-> head, kernel |-> "stock", sealed |-> FALSE]
    BY <1>4 DEF Build
  <2>2. Complete
    BY <2>1, WhenBuilding DEF Building
  <2>3. Complete = TRUE
    BY Zenon, <2>2 DEF Complete
  <2>4. image' \in Image /\ image'.run = run /\ image'.complete /\ image'.head = head
    <3>1. image' = [run |-> run, complete |-> TRUE, head |-> head, kernel |-> "stock", sealed |-> FALSE]
      BY Zenon, <2>1, <2>3
    <3> QED
      BY <1>0, <3>1 DEF Image
  <2>5. image'.run <= run' /\ image'.head = head' /\ image'.run = run'
    BY <1>0, <2>1, <2>4
  <2>6. step' = "kernel"
    BY <2>1
  <2> QED
    BY Zenon, <2>4, <2>5, <2>6 DEF ImageInv, Imaged
<1>5. CASE PatchKernel
  <2>1. image \in Image /\ image.run = run /\ image.complete /\ image.head = head
    BY <1>0, <1>5 DEF PatchKernel, ImageInv, Imaged
  <2>2. KernelPatched(image.kernel) = "patched"
    BY <2>1 DEF KernelPatched, Image
  <2>3. image' = [image EXCEPT !.kernel = "patched"] /\ step' = "seal" /\ UNCHANGED <<run, head>>
    BY Zenon, <1>5, <2>2 DEF PatchKernel
  <2>4. image' \in Image /\ image'.run = run /\ image'.complete /\ image'.head = head /\ image'.kernel = "patched"
    BY <2>1, <2>3, ImageFields
  <2> QED
    BY <1>0, <2>3, <2>4 DEF ImageInv, Imaged
<1>6. CASE Seal
  <2>1. /\ image \in Image /\ image.run = run /\ image.complete /\ image.head = head
        /\ image.kernel = "patched"
    BY <1>0, <1>6 DEF Seal, ImageInv, Imaged
  <2>2. image' = [image EXCEPT !.sealed = TRUE] /\ step' = "audit" /\ UNCHANGED <<run, head>>
    BY <1>6 DEF Seal
  <2>3. /\ image' \in Image /\ image'.run = run /\ image'.complete /\ image'.head = head
        /\ image'.kernel = "patched" /\ image'.sealed
    BY <2>1, <2>2, ImageFields
  <2> QED
    BY <1>0, <2>2, <2>3 DEF ImageInv, Imaged
<1>7. CASE Audit \/ Package \/ Upload \/ Publish
  <2>1. /\ step \in {"audit", "package", "upload", "publish"} /\ UNCHANGED <<run, image, head>>
        /\ step' \in {"package", "upload", "publish", "done", "failed"}
    BY <1>7 DEF Audit, Package, Upload, Publish, wvars
  <2> QED
    BY <1>0, <2>1 DEF ImageInv, Imaged
<1>8. CASE Abort
  <2>1. step' = "failed" /\ UNCHANGED <<run, image>>
    BY <1>8 DEF Abort, wvars
  <2> QED
    BY <1>0, <2>1 DEF ImageInv, Imaged
<1>9. CASE UNCHANGED vars
  BY <1>0, <1>9 DEF vars, bvars, ImageInv
<1> QED
  BY <1>1, <1>2, <1>3, <1>4, <1>5, <1>6, <1>7, <1>8, <1>9 DEF Next, JobStep, Fault

-----------------------------------------------------------------------------
(* Delivery.                                                                *)

\* A bundle that keeps every promise.
Sound(b) ==
    /\ b.image.complete /\ \A p \in Named : b.image.head[p] = "expected"
    /\ b.audit = b.image /\ b.pack.tar = b.image /\ b.pack.sums = b.image
    /\ b.image.run = b.run /\ b.image.kernel = "patched" /\ b.image.sealed
    /\ \A p \in Named : b.pack.head[p] = b.image.head[p]
    /\ \A p \in Project \ {"recovery", "clang"} : b.pack.manifest[p] = b.image.head[p]

Promised == DeliveredIsComplete /\ DeliveredIsAudited /\ MetadataIsTruthful

LEMMA SoundBundles == Promised <=> \A b \in Bundles : Sound(b)
  BY Zenon DEF Promised, DeliveredIsComplete, DeliveredIsAudited, MetadataIsTruthful, Sound

\* What is uploaded or published is sound.
LEMMA BundleIsSound ==
    ASSUME BInv, step \in {"upload", "publish"}
    PROVE  Sound(Bundle) /\ Bundle.run = run
<1>1. /\ image.complete /\ image.run = run /\ image.head = head /\ image.kernel = "patched" /\ image.sealed
      /\ audited = image
      /\ pack = [tar |-> image, sums |-> image, head |-> Metadata, manifest |-> manifest]
  BY DEF BInv, ImageInv, DeliveryInv, Imaged
<1>2. /\ \A p \in Named : head[p] = "expected" /\ Metadata[p] = head[p]
      /\ \A p \in Project \ {"recovery", "clang"} : manifest[p] = head[p]
  BY WhenBuilding DEF BInv, HeadsInv, Building
<1>3. Bundle.run = run /\ Bundle.image = image /\ Bundle.pack = pack /\ Bundle.audit = audited
  BY DEF Bundle
<1>4. pack.tar = image /\ pack.sums = image /\ pack.head = Metadata /\ pack.manifest = manifest
  BY <1>1
<1> HIDE DEF Bundle
<1> QED
  BY <1>1, <1>2, <1>3, <1>4 DEF Sound

LEMMA PromiseKept == BInv /\ [Next]_vars => Promised'
<1> SUFFICES ASSUME BInv, [Next]_vars PROVE Promised'
  OBVIOUS
<1>1. \A b \in Bundles : Sound(b)
  BY SoundBundles DEF BInv, Promised
<1>2. Bundles' \subseteq Bundles \cup (IF step \in {"upload", "publish"} THEN {Bundle} ELSE {})
  <2>1. CASE Upload
    BY <2>1 DEF Upload, Bundles
  <2>2. CASE Publish
    BY <2>2 DEF Publish, Bundles
  <2>3. CASE ~Upload /\ ~Publish
    <3>1. UNCHANGED <<artifacts, releases>>
      BY Zenon, <2>3 DEF Next, JobStep, Fault, Dispatch, PrepareRunner, SyncSucceeds, SyncAttemptFails, SyncGivesUp,
           PinRecovery, RunTool, ToolRuns, ToolInterrupted, ToolReturns, AssertStage, InstallClang,
           DeviceTree, Build, PatchKernel, Seal, Audit, Package, Abort, Goto, Fail, wvars, bvars, vars
    <3> QED
      BY <3>1 DEF Bundles
  <2> QED
    BY <2>1, <2>2, <2>3
<1>3. \A b \in Bundles' : Sound(b)
  BY <1>1, <1>2, BundleIsSound
<1> QED
  BY Zenon, <1>3 DEF Sound, Promised, DeliveredIsComplete, DeliveredIsAudited, MetadataIsTruthful

\* The run is in the audited state of its workspace only from the audit on, and
\* in the artifacts only from the upload on.
AuditPlace ==
    /\ step \notin Ended \cup {"prepare", "package", "upload", "publish"} => audited = None
    /\ step \in {"package", "upload", "publish"} => audited = image
    /\ step \in {"upload", "publish"} =>
        pack = [tar |-> image, sums |-> image, head |-> Metadata, manifest |-> manifest]

ArtifactPlace ==
    /\ \A b \in artifacts : b.run \in 0..run
    /\ step \notin Ended => (step = "publish" <=> \E b \in artifacts : b.run = run)

LEMMA AuditKept == BInv /\ [Next]_vars => AuditPlace'
<1> SUFFICES ASSUME BInv, [Next]_vars PROVE AuditPlace'
  OBVIOUS
<1> USE DEF Goto, Fail, Ended
<1>0. AuditPlace
  BY DEF BInv, DeliveryInv, AuditPlace
<1>1. CASE Dispatch \/ SyncGivesUp \/ Publish \/ Abort
  <2>1. step' \in {"prepare", "done", "failed"}
    BY <1>1 DEF Dispatch, SyncGivesUp, Publish, Abort
  <2> QED
    BY <2>1 DEF AuditPlace
<1>2. CASE PrepareRunner
  <2>1. step' = "sync" /\ audited' = None
    BY <1>2 DEF PrepareRunner, Wiped
  <2> QED
    BY <2>1 DEF AuditPlace
<1>3. CASE \/ SyncSucceeds \/ SyncAttemptFails \/ PinRecovery \/ RunTool \/ ToolRuns \/ ToolInterrupted
           \/ ToolReturns \/ AssertStage \/ InstallClang \/ DeviceTree \/ Build \/ PatchKernel \/ Seal
  <2>1. step \in {"sync", "pin", "patch", "tool", "clang", "tree", "build", "kernel", "seal"}
    BY <1>3 DEF SyncSucceeds, SyncAttemptFails, PinRecovery, RunTool, ToolRuns, ToolInterrupted,
                ToolReturns, AssertStage, InstallClang, DeviceTree, Build, PatchKernel, Seal
  <2>2. UNCHANGED audited
    BY Zenon, <1>3 DEF SyncSucceeds, SyncAttemptFails, PinRecovery, RunTool, ToolRuns, ToolInterrupted,
                ToolReturns, AssertStage, InstallClang, DeviceTree, Build, PatchKernel, Seal, wvars, bvars
  <2>3. step' \in {"sync", "pin", "patch", "tool", "clang", "tree", "build", "kernel", "seal", "audit", "failed"}
    BY <1>3, <2>1 DEF SyncSucceeds, SyncAttemptFails, PinRecovery, RunTool, ToolRuns, ToolInterrupted,
                ToolReturns, AssertStage, InstallClang, DeviceTree, Build, PatchKernel, Seal, bvars
  <2> QED
    BY <1>0, <2>1, <2>2, <2>3 DEF AuditPlace
<1>4. CASE Audit
  <2>1. \/ step' = "package" /\ audited' = image /\ image' = image
        \/ step' = "failed"
    BY Zenon, <1>4 DEF Audit
  <2> QED
    BY <2>1 DEF AuditPlace
<1>5. CASE Package
  <2>1. step = "package" /\ step' = "upload" /\ UNCHANGED <<image, audited, captured, manifest>>
    BY <1>5 DEF Package
  <2>2. pack' = [tar |-> image, sums |-> image, head |-> Metadata, manifest |-> manifest] /\ Metadata' = Metadata
    BY <1>5, <2>1 DEF Package, Metadata
  <2> QED
    BY <1>0, <2>1, <2>2 DEF AuditPlace
<1>6. CASE Upload
  <2>1. step = "upload" /\ step' = "publish" /\ UNCHANGED <<image, audited, pack, captured, manifest>>
    BY <1>6 DEF Upload, wvars
  <2>2. Metadata' = Metadata
    BY <2>1 DEF Metadata
  <2> QED
    BY <1>0, <2>1, <2>2 DEF AuditPlace
<1>7. CASE UNCHANGED vars
  BY <1>0, <1>7 DEF vars, bvars, AuditPlace, Metadata
<1> QED
  BY <1>1, <1>2, <1>3, <1>4, <1>5, <1>6, <1>7 DEF Next, JobStep, Fault

LEMMA ArtifactKept == BInv /\ [Next]_vars => ArtifactPlace'
<1> SUFFICES ASSUME BInv, [Next]_vars PROVE ArtifactPlace'
  OBVIOUS
<1> USE DEF Goto, Fail, Ended
<1>0. ArtifactPlace /\ run \in Nat
  BY DEF BInv, TypeOK, DeliveryInv, ArtifactPlace
<1>1. CASE Dispatch
  <2>1. run' = run + 1 /\ step' = "prepare" /\ UNCHANGED artifacts
    BY <1>1 DEF Dispatch
  <2>2. \A b \in artifacts : b.run \in 0..run
    BY <1>0 DEF ArtifactPlace
  <2> QED
    BY <1>0, <2>1, <2>2 DEF ArtifactPlace
<1>2. CASE Upload
  <2>1. step = "upload" /\ step' = "publish" /\ artifacts' = artifacts \cup {Bundle} /\ run' = run /\ Bundle.run = run
    BY <1>2, BundleIsSound DEF Upload
  <2> HIDE DEF Bundle
  <2> QED
    BY <1>0, <2>1 DEF ArtifactPlace
<1>3. CASE Publish
  <2>1. step' = "done" /\ UNCHANGED <<artifacts, run>>
    BY <1>3 DEF Publish
  <2> QED
    BY <1>0, <2>1 DEF ArtifactPlace
<1>4. CASE UNCHANGED vars
  BY <1>0, <1>4 DEF vars, bvars, ArtifactPlace
<1>5. CASE ~(Dispatch \/ Upload \/ Publish \/ UNCHANGED vars)
  <2>1. UNCHANGED <<artifacts, run>>
    BY Zenon, <1>5 DEF Next, JobStep, Fault, PrepareRunner, SyncSucceeds, SyncAttemptFails, SyncGivesUp,
         PinRecovery, RunTool, ToolRuns, ToolInterrupted, ToolReturns, AssertStage, InstallClang,
         DeviceTree, Build, PatchKernel, Seal, Audit, Package, Abort, bvars
  <2>2. step' = "failed" \/ (step \notin {"idle", "done", "failed", "publish"} /\ step' # "publish")
    BY <1>5 DEF Next, JobStep, Fault, PrepareRunner, SyncSucceeds, SyncAttemptFails, SyncGivesUp,
         PinRecovery, RunTool, ToolRuns, ToolInterrupted, ToolReturns, AssertStage, InstallClang,
         DeviceTree, Build, PatchKernel, Seal, Audit, Package, Abort, bvars
  <2> QED
    BY <1>0, <2>1, <2>2 DEF ArtifactPlace
<1> QED
  BY <1>1, <1>2, <1>3, <1>4, <1>5

-----------------------------------------------------------------------------
LEMMA BuildInit == Init => BInv
<1> SUFFICES ASSUME Init PROVE BInv
  OBVIOUS
<1> USE DEF Init
<1>1. PInv
  BY InitInv
<1>2. TypeOK
  <2>1. stage \in DOMAIN Stage /\ next \in 1..(Len(Stage[stage].run) + 1)
    BY StageFacts
  <2>2. attempt \in 0..MaxAttempt /\ run \in 0..MaxRun
    BY PipelineAssumption
  <2>3. head \in [Project -> Commit]
    BY DEF Commit
  <2>4. publish \in BOOLEAN
    BY Zenon
  <2>5. step \in Steps
    BY DEF Steps, Ended
  <2>6. captured \in [Project -> Commit \cup {"unset"}]
    BY DEF NoCommits
  <2> QED
    BY Zenon, <1>1, <2>1, <2>2, <2>3, <2>4, <2>5, <2>6 DEF TypeOK, PInv, Steps
<1>3. RunnerInv /\ SourcesInv /\ HeadsInv
  BY DEF PInit, RunnerInv, SourcesInv, HeadsInv, Undisturbed, Building
<1>4. ImageInv /\ DeliveryInv
  BY DEF ImageInv, DeliveryInv, Imaged, Ended
<1>5. DeliveredIsComplete /\ DeliveredIsAudited /\ MetadataIsTruthful
  BY DEF Bundles, DeliveredIsComplete, DeliveredIsAudited, MetadataIsTruthful
<1> QED
  BY Zenon, <1>1, <1>2, <1>3, <1>4, <1>5 DEF BInv

LEMMA BuildStep == BInv /\ [Next]_vars => BInv'
<1> SUFFICES ASSUME BInv, [Next]_vars PROVE BInv'
  OBVIOUS
<1>1. DeliveryInv'
  BY Zenon, AuditKept, ArtifactKept DEF AuditPlace, ArtifactPlace, DeliveryInv
<1>2. DeliveredIsComplete' /\ DeliveredIsAudited' /\ MetadataIsTruthful'
  BY PromiseKept DEF Promised
<1> QED
  BY <1>1, <1>2, TypeKept, PatcherKept, RunnerKept, SourcesKept, HeadsKept, ImageKept DEF BInv

(* Through any number of dispatches, failed, cancelled and interrupted ones *)
(* among them, the workflow keeps its steps, its sources, its image and     *)
(* what it has delivered consistent with each other.                        *)
THEOREM WorkflowInvariance == Spec => []BInv
  BY BuildInit, BuildStep, PTL DEF Spec

(* The state of the workflow stays well typed.                              *)
THEOREM WorkflowTypeCorrect == Spec => []TypeOK
  BY WorkflowInvariance, PTL DEF BInv

(* Every artifact and every release was built from files that hold every    *)
(* edit of every tool exactly once and whole, at the qualified commits.     *)
THEOREM DeliversComplete == Spec => []DeliveredIsComplete
  BY WorkflowInvariance, PTL DEF BInv

(* The image, the tar and the checksums that are delivered are those of the *)
(* image that the audit of the same run accepted.                           *)
THEOREM DeliversAudited == Spec => []DeliveredIsAudited
  BY WorkflowInvariance, PTL DEF BInv

(* build-metadata.txt, whose commits were captured long before the image    *)
(* was built, and the archived manifest name what it was built from.        *)
THEOREM MetadataTrue == Spec => []MetadataIsTruthful
  BY WorkflowInvariance, PTL DEF BInv

(* The workflow only takes steps that Patcher has: what is proved about any *)
(* sequence of runs of the tools holds inside it.                           *)
THEOREM WorkflowRunsTools == Spec => PInit /\ [][PNext]_pvars
<1>1. Init => PInit
  BY DEF Init
<1> QED
  BY <1>1, IsPatcherStep, WorkflowInvariance, PTL DEF Spec

-----------------------------------------------------------------------------
(* The steps of ReleaseGate.                                                *)

\* The phase of the gate by the step of the workflow.
PhaseByStep ==
    /\ step \in Ended => Phase = "closed"
    /\ step \in {"prepare", "sync", "pin", "patch", "tool", "clang", "tree", "build"} => Phase = "sources"
    /\ step \in {"kernel", "seal", "audit"} => Phase = "built"
    /\ step \in {"package", "upload"} => Phase = "audited"
    /\ step = "publish" => Phase = "uploaded"

LEMMA ImageIsSome == ASSUME NEW i \in Image PROVE i # None
<1>1. "run" \in DOMAIN i
  BY DEF Image
<1>2. "run" \notin DOMAIN None
  BY DEF None
<1> QED
  BY <1>1, <1>2

LEMMA PhaseFacts == BInv => PhaseByStep
<1> SUFFICES ASSUME BInv PROVE PhaseByStep
  OBVIOUS
<1> USE DEF Ended
<1>1. ASSUME step \in Ended PROVE Phase = "closed"
  BY <1>1 DEF Phase
<1>2. ASSUME step \in {"prepare", "sync", "pin", "patch", "tool", "clang", "tree", "build"}
      PROVE  Phase = "sources"
  <2>1. image = None \/ image.run < run
    BY <1>2 DEF BInv, ImageInv
  <2>2. image.run < run => image.run # run
    <3>1. image \in Image => image.run \in Nat
      BY DEF Image
    <3>2. image = None \/ image \in Image
      BY DEF BInv, ImageInv
    <3>3. run \in Nat
      BY DEF BInv, TypeOK
    <3> QED
      BY <2>1, <3>1, <3>2, <3>3
  <2>3. ~Qualified
    BY <2>1, <2>2 DEF Qualified
  <2> QED
    BY <1>2, <2>3 DEF Phase
<1>3. ASSUME step \in Imaged PROVE Qualified
  <2>1. image \in Image /\ image.run = run /\ image.complete /\ image.head = head
    BY <1>3 DEF BInv, ImageInv
  <2>2. \A p \in Named : head[p] = "expected"
    BY <1>3, WhenBuilding DEF Imaged, Building
  <2> QED
    BY <2>1, <2>2, ImageIsSome DEF Qualified
<1>4. ASSUME step \in {"kernel", "seal", "audit"} PROVE Phase = "built"
  <2>1. Qualified /\ audited = None
    BY <1>3, <1>4 DEF Imaged, BInv, DeliveryInv
  <2> QED
    BY <1>4, <2>1 DEF Phase
<1>5. ASSUME step \in {"package", "upload", "publish"}
      PROVE  Qualified /\ audited # None /\ (step = "publish" <=> \E b \in artifacts : b.run = run)
  <2>1. Qualified /\ audited = image /\ image # None
    BY <1>3, <1>5 DEF Imaged, BInv, DeliveryInv, Qualified
  <2> QED
    BY <1>5, <2>1 DEF BInv, DeliveryInv
<1>6. ASSUME step \in {"package", "upload"} PROVE Phase = "audited"
  BY <1>5, <1>6 DEF Phase
<1>7. ASSUME step = "publish" PROVE Phase = "uploaded"
  BY <1>5, <1>7 DEF Phase
<1> QED
  BY <1>1, <1>2, <1>4, <1>6, <1>7 DEF PhaseByStep

LEMMA PhaseFactsNext == BInv' => PhaseByStep'
  BY PhaseFacts, PTL

\* What a step does to what the gate sees.
GateKept == UNCHANGED <<publish, run, releases>>

LEMMA GateStep ==
    ASSUME BInv, BInv', [Next]_vars
    PROVE  [Gate!Next]_(Gate!gvars)
<1> DEFINE Sources == {"prepare", "sync", "pin", "patch", "tool", "clang", "tree", "build"}
<1>0. PhaseByStep /\ PhaseByStep'
  BY PhaseFacts, PhaseFactsNext
<1> USE DEF Goto, Fail, Ended
<1>1. CASE Dispatch
  <2>1. /\ step \in Ended /\ step' = "prepare" /\ run' = run + 1 /\ publish' \in BOOLEAN
        /\ UNCHANGED releases
    BY <1>1 DEF Dispatch
  <2>2. Phase = "closed" /\ Phase' = "sources"
    BY <1>0, <2>1 DEF PhaseByStep
  <2> QED
    BY <2>1, <2>2 DEF Gate!Next, Gate!Open
<1>2. CASE Publish
  <2>1. step = "publish" /\ step' = "done" /\ UNCHANGED <<run, publish>>
    BY <1>2 DEF Publish
  <2>2. Phase = "uploaded" /\ Phase' = "closed"
    BY <1>0, <2>1 DEF PhaseByStep
  <2>3. CASE publish
    <3>1. releases' = releases \cup {Bundle} /\ Bundle.run = run
      BY <1>2, <2>1, <2>3, BundleIsSound DEF Publish
    <3>2. {b.run : b \in releases'} = {b.run : b \in releases} \cup {run}
      BY <3>1
    <3> QED
      BY <2>1, <2>2, <2>3, <3>2 DEF Gate!Next, Gate!Release
  <2>4. CASE ~publish
    <3>1. UNCHANGED releases
      BY <1>2, <2>4 DEF Publish
    <3> QED
      BY <2>1, <2>2, <3>1 DEF Gate!Next, Gate!GiveUp
  <2> QED
    BY <2>3, <2>4
<1>3. CASE ~Dispatch /\ ~Publish
  <2>1. GateKept
    BY Zenon, <1>3 DEF GateKept, Next, JobStep, Fault, PrepareRunner, SyncSucceeds, SyncAttemptFails, SyncGivesUp,
         PinRecovery, RunTool, ToolRuns, ToolInterrupted, ToolReturns, AssertStage, InstallClang,
         DeviceTree, Build, PatchKernel, Seal, Audit, Package, Upload, Abort, bvars, vars
  <2>2. \/ step' = "failed" /\ step \notin Ended
        \/ step \in Sources /\ step' \in Sources
        \/ step = "build" /\ step' = "kernel"
        \/ step \in {"kernel", "seal"} /\ step' \in {"seal", "audit"}
        \/ step = "audit" /\ step' = "package"
        \/ step = "package" /\ step' = "upload"
        \/ step = "upload" /\ step' = "publish"
        \/ step' = step
    BY <1>3 DEF Next, JobStep, Fault, PrepareRunner, SyncSucceeds, SyncAttemptFails, SyncGivesUp,
         PinRecovery, RunTool, ToolRuns, ToolInterrupted, ToolReturns, AssertStage, InstallClang,
         DeviceTree, Build, PatchKernel, Seal, Audit, Package, Upload, Abort, bvars, vars
  <2>3. step \in Steps
    BY DEF BInv, TypeOK, Steps
  <2>4. \/ Phase # "closed" /\ Phase' = "closed"
        \/ Phase' = Phase
        \/ Phase = "sources" /\ Phase' = "built"
        \/ Phase = "built" /\ Phase' = "audited"
        \/ Phase = "audited" /\ Phase' = "uploaded"
    BY <1>0, <2>2, <2>3 DEF PhaseByStep, Steps
  <2> QED
    BY <2>1, <2>4 DEF GateKept, Gate!Next, Gate!gvars, Gate!GiveUp, Gate!Build, Gate!Audit, Gate!Upload, Gate!Progress
<1> QED
  BY <1>1, <1>2, <1>3

(* The workflow implements the release gate: an image is released only      *)
(* after it was built from qualified sources, audited and uploaded in the   *)
(* same run, once, and only on request.                                     *)
THEOREM WorkflowImplementsGate == Spec => ImplementsGate
<1>1. Init => Gate!Init
  BY DEF Init, Phase, Ended, Gate!Init
<1> QED
  BY <1>1, GateStep, WorkflowInvariance, PTL DEF Spec, ImplementsGate, Gate!Spec

-----------------------------------------------------------------------------
(* How far a run has come.                                                  *)

\* The steps of the workflow in their order; from every one of them a run may end.
LEMMA AfterFacts ==
    /\ After("prepare", "sync") /\ After("sync", "pin") /\ After("pin", "patch")
    /\ After("patch", "clang") /\ After("clang", "tree") /\ After("tree", "build")
    /\ After("build", "kernel") /\ After("kernel", "seal") /\ After("seal", "audit")
    /\ After("audit", "package") /\ After("package", "upload") /\ After("upload", "publish")
    /\ \A s, t : s \notin Ended /\ t \in Ended => After(s, t)
<1>1. DOMAIN Order = 1..13
  BY DEF Order
<1>2. /\ Order[1] = "prepare" /\ Order[2] = "sync" /\ Order[3] = "pin" /\ Order[4] = "patch"
      /\ Order[5] = "clang" /\ Order[6] = "tree" /\ Order[7] = "build" /\ Order[8] = "kernel"
      /\ Order[9] = "seal" /\ Order[10] = "audit" /\ Order[11] = "package" /\ Order[12] = "upload"
      /\ Order[13] = "publish"
  BY DEF Order
<1>3. /\ After(Order[1], Order[2]) /\ After(Order[2], Order[3]) /\ After(Order[3], Order[4])
      /\ After(Order[4], Order[5]) /\ After(Order[5], Order[6]) /\ After(Order[6], Order[7])
      /\ After(Order[7], Order[8]) /\ After(Order[8], Order[9]) /\ After(Order[9], Order[10])
      /\ After(Order[10], Order[11]) /\ After(Order[11], Order[12]) /\ After(Order[12], Order[13])
  BY <1>1, <1>2 DEF After
<1>4. \A s, t : s \notin Ended /\ t \in Ended => After(s, t)
  BY DEF After
<1> QED
  BY <1>2, <1>3, <1>4

\* A running tool exits or advances.
LEMMA ToolStepAdvances ==
    ASSUME BInv, ToolStep
    PROVE  tool # Idle /\ (tool' = Idle \/ (tool' = tool /\ at' = at + 1))
  BY DEF ToolStep, Check, Write, Verify, Report, Finish, AtStep, Advance, Exit

LEMMA OnwardKept == BInv /\ [Next]_vars => [OnwardStep]_vars
<1> SUFFICES ASSUME BInv, Next PROVE OnwardStep
  OBVIOUS
<1> USE DEF Goto, Fail
<1>1. CASE Dispatch
  BY <1>1 DEF Dispatch, OnwardStep
<1>2. CASE PrepareRunner \/ SyncSucceeds \/ SyncGivesUp \/ PinRecovery
  <2>1. \/ step = "prepare" /\ step' = "sync"
        \/ step = "sync" /\ step' \in {"pin", "failed"}
        \/ step = "pin" /\ step' = "patch"
    BY <1>2 DEF PrepareRunner, SyncSucceeds, SyncGivesUp, PinRecovery
  <2> QED
    BY <2>1, AfterFacts DEF OnwardStep, Ended
<1>3. CASE SyncAttemptFails
  BY <1>3 DEF SyncAttemptFails, OnwardStep
<1>4. CASE RunTool
  <2>1. /\ step = "patch" /\ step' \in {"tool", "failed"}
        /\ UNCHANGED <<stage, next>>
    BY <1>4 DEF RunTool, wvars
  <2> QED
    BY <2>1, AfterFacts DEF OnwardStep, Ended
<1>5. CASE ToolRuns
  <2>1. step = "tool" /\ ToolStep /\ UNCHANGED <<step, stage, next>>
    BY <1>5 DEF ToolRuns, bvars
  <2> QED
    BY <2>1, ToolStepAdvances DEF OnwardStep, ToolAdvances
<1>6. CASE ToolInterrupted
  <2>1. step = "tool" /\ ToolFault /\ UNCHANGED <<step, stage, next>>
    BY <1>6 DEF ToolInterrupted, bvars
  <2>2. tool # Idle /\ tool' = Idle
    BY <2>1 DEF ToolFault, CutShort, Kill, AtStep, Exit
  <2> QED
    BY <2>1, <2>2 DEF OnwardStep, ToolAdvances
<1>7. CASE ToolReturns
  <2>1. /\ step = "tool" /\ stage' = stage
        /\ step' = "failed" \/ (step' = "patch" /\ next' = next + 1)
    BY <1>7 DEF ToolReturns
  <2> QED
    BY <2>1, AfterFacts DEF OnwardStep, Ended
<1>8. CASE AssertStage
  <2>1. /\ step = "patch"
        /\ step' \in {"clang", "failed"} \/ (step' = "patch" /\ stage' = stage + 1)
    BY <1>8 DEF AssertStage
  <2> QED
    BY <2>1, AfterFacts DEF OnwardStep, Ended
<1>9. CASE InstallClang \/ DeviceTree \/ Build \/ PatchKernel \/ Seal \/ Audit
  <2>1. \/ step = "clang" /\ step' = "tree"
        \/ step = "tree" /\ step' = "build"
        \/ step = "build" /\ step' = "kernel"
        \/ step = "kernel" /\ step' \in {"seal", "failed"}
        \/ step = "seal" /\ step' = "audit"
        \/ step = "audit" /\ step' \in {"package", "failed"}
    BY <1>9 DEF InstallClang, DeviceTree, Build, PatchKernel, Seal, Audit
  <2> QED
    BY <2>1, AfterFacts DEF OnwardStep, Ended
<1>10. CASE Package \/ Upload \/ Publish \/ Abort
  <2>1. \/ step = "package" /\ step' = "upload"
        \/ step = "upload" /\ step' = "publish"
        \/ step \notin Ended /\ step' \in {"done", "failed"}
    BY <1>10 DEF Package, Upload, Publish, Abort, Ended
  <2> QED
    BY <2>1, AfterFacts DEF OnwardStep, Ended
<1> QED
  BY <1>1, <1>2, <1>3, <1>4, <1>5, <1>6, <1>7, <1>8, <1>9, <1>10 DEF Next, JobStep, Fault

(* A run only moves forward, so that none goes on for ever: there are       *)
(* finitely many workflow steps, sync attempts, stages, tools and steps of  *)
(* a tool, and only a dispatch begins again.                                *)
THEOREM RunsAdvance == Spec => RunAdvances
  BY OnwardKept, WorkflowInvariance, PTL DEF Spec, RunAdvances
=============================================================================

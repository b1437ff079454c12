--------------------------- MODULE BuildPipeline ---------------------------
(* The workflow TWRP-3.3-J720F.yml: fetch the donor sources, pin the        *)
(* recovery, run every patch tool in order and assert its result, build,    *)
(* patch the kernel in the image, seal it, audit it, package, upload and,   *)
(* when asked, publish.  Every script step runs under "set -e": the first   *)
(* command that fails ends the run.  Runs may fail or be cancelled at any   *)
(* point and are dispatched again.                                          *)
EXTENDS Patcher

CONSTANTS
    Stage,          \* the patch steps in order, records [need, run]
    Project,        \* source projects: "core", "bionic", "recovery", "clang"
    Heads,          \* the commits a manifest sync may resolve, [Project -> Commit]
    RecoveryFiles,  \* the files below bootable/recovery
    MaxAttempt,     \* repo sync attempts (3)
    MaxRun          \* bound on the dispatches explored

Commit == {"expected", "moved"}

ASSUME PipelineAssumption ==
    /\ Stage \in Seq([need : SUBSET Project, run : Seq(Patch) \ {<<>>}]) \ {<<>>}
    /\ \A p \in Patch : \E i \in DOMAIN Stage : \E j \in DOMAIN Stage[i].run : Stage[i].run[j] = p
    /\ {"core", "bionic", "recovery", "clang"} \subseteq Project
    /\ \E i \in DOMAIN Stage : {"core", "bionic"} \subseteq Stage[i].need
    /\ Heads \subseteq [Project -> Commit]
    /\ MaxAttempt \in Nat \ {0}
    /\ MaxRun \in Nat \ {0}

VARIABLES
    step,       \* the workflow step the runner is in
    stage,      \* index of the patch step
    next,       \* index of the next tool within it
    attempt,    \* repo sync attempts so far
    run,        \* how many runs were dispatched; the id of the current one
    publish,    \* the PUBLISH_RELEASE input of the current run
    head,       \* the commit each project is checked out at
    captured,   \* the commits a patch step has put in GITHUB_ENV
    manifest,   \* what resolved-manifest.xml says, or None
    image,      \* recovery.img, or None
    audited,    \* the image the audit accepted, or None
    pack,       \* recovery.tar, SHA256SUMS.txt and build-metadata.txt, or None
    artifacts,  \* what the runs uploaded
    releases    \* what the runs published

wvars == <<stage, next, attempt, head, captured, manifest, image, audited, pack>>
bvars == <<step, stage, next, attempt, run, publish, head, captured, manifest, image, audited, pack,
           artifacts, releases>>
vars == <<pvars, bvars>>

None == [none |-> TRUE]

Ended == {"idle", "done", "failed"}

Complete == (\A h \in Hunk : edits[h] = 1) /\ (\A f \in File : Whole(f))

NoCommits == [p \in Project |-> "unset"]

Init ==
    /\ PInit
    /\ step = "idle"
    /\ stage = 1 /\ next = 1 /\ attempt = 0
    /\ run = 0 /\ publish = FALSE
    /\ head = [p \in Project |-> "moved"]
    /\ captured = NoCommits
    /\ manifest = None /\ image = None /\ audited = None /\ pack = None
    /\ artifacts = {} /\ releases = {}

-----------------------------------------------------------------------------
(* The steps before the sources: checkout, disk space, host tools, repo.    *)

Goto(s) == step' = s /\ UNCHANGED <<run, publish, artifacts, releases>>

Fail == Goto("failed")

\* The environment file of a job is its own.
Dispatch ==
    /\ step \in Ended
    /\ run < MaxRun
    /\ run' = run + 1
    /\ publish' \in BOOLEAN
    /\ captured' = NoCommits
    /\ step' = "prepare"
    /\ UNCHANGED <<pvars, stage, next, attempt, head, manifest, image, audited, pack, artifacts, releases>>

\* rm -rf workspace: patched sources, reports, image and packages of an earlier
\* run are gone before the sync begins.
Wiped ==
    /\ edits' = NoEdits
    /\ kept' = End
    /\ result' = [p \in Patch |-> "none"]
    /\ report' = {}
    /\ manifest' = None /\ image' = None /\ audited' = None /\ pack' = None

PrepareRunner ==
    /\ step = "prepare"
    /\ Wiped
    /\ attempt' = 0 /\ stage' = 1 /\ next' = 1
    /\ Goto("sync")
    /\ UNCHANGED <<shape, tool, at, head, captured>>

SyncSucceeds ==
    /\ step = "sync"
    /\ attempt < MaxAttempt
    /\ shape' \in Shapes
    /\ head' \in Heads
    /\ manifest' = head'
    /\ Goto("pin")
    /\ UNCHANGED <<edits, kept, tool, at, result, report, stage, next, attempt, captured, image, audited, pack>>

\* An attempt that fails has fetched some of the projects.
PartlySynced ==
    /\ shape' \in Shapes
    /\ head' \in [Project -> Commit]
    /\ UNCHANGED <<edits, kept, tool, at, result, report>>

\* Mutant: the loop does not count to its end.
SyncAttemptFailsForever ==
    /\ step = "sync"
    /\ attempt' = attempt + 1
    /\ PartlySynced
    /\ Goto("sync")
    /\ UNCHANGED <<stage, next, captured, manifest, image, audited, pack>>

SyncAttemptFails ==
    /\ step = "sync"
    /\ attempt < MaxAttempt
    /\ attempt' = attempt + 1
    /\ PartlySynced
    /\ Goto("sync")
    /\ UNCHANGED <<stage, next, captured, manifest, image, audited, pack>>

\* Mutant: after the last attempt the loop starts again.
SyncStartsOver ==
    /\ step = "sync"
    /\ attempt = MaxAttempt
    /\ attempt' = 0
    /\ Goto("sync")
    /\ UNCHANGED <<pvars, stage, next, head, captured, manifest, image, audited, pack>>

SyncGivesUp ==
    /\ step = "sync"
    /\ attempt = MaxAttempt
    /\ Fail
    /\ UNCHANGED <<pvars, wvars>>

\* bootable/recovery of the manifest is replaced by the pinned commit.
PinRecovery ==
    /\ step = "pin"
    /\ head' = [head EXCEPT !["recovery"] = "expected"]
    /\ edits' = [h \in Hunk |-> IF h.in \in RecoveryFiles THEN 0 ELSE edits[h]]
    /\ kept' = [f \in File |-> IF f \in RecoveryFiles THEN End[f] ELSE kept[f]]
    /\ Goto("patch")
    /\ UNCHANGED <<shape, tool, at, result, report, stage, next, attempt, captured, manifest,
                   image, audited, pack>>

-----------------------------------------------------------------------------
(* The patch steps.                                                         *)

Current == Stage[stage].run[next]

\* Mutant: one repository at its qualified commit is enough.
CommitsAnyQualified == Stage[stage].need = {} \/ \E p \in Stage[stage].need : head[p] = "expected"

\* The critical repositories must be at the qualified commits.
CommitsQualified == \A p \in Stage[stage].need : head[p] = "expected"

\* They go into GITHUB_ENV, core before the test and bionic after it.
Captured ==
    [p \in Project |-> IF p \in Stage[stage].need /\ (p = "core" \/ CommitsQualified)
                       THEN head[p] ELSE captured[p]]

RunTool ==
    /\ step = "patch"
    /\ next <= Len(Stage[stage].run)
    /\ captured' = IF next = 1 THEN Captured ELSE captured
    /\ IF CommitsQualified
       THEN Invoke(Current) /\ Goto("tool")
       ELSE Fail /\ UNCHANGED pvars
    /\ UNCHANGED <<stage, next, attempt, head, manifest, image, audited, pack>>

ToolRuns == step = "tool" /\ ToolStep /\ UNCHANGED bvars

ToolInterrupted == step = "tool" /\ ToolFault /\ UNCHANGED bvars

\* set -e: a non-zero exit status ends the run.
ToolReturns ==
    /\ step = "tool"
    /\ tool = Idle
    /\ IF result[Current] = "ok"
       THEN next' = next + 1 /\ Goto("patch")
       ELSE Fail /\ UNCHANGED next
    /\ UNCHANGED <<pvars, stage, attempt, head, captured, manifest, image, audited, pack>>

\* The greps and --verify-only runs at the end of a step: the new text is there.
\* The two "! grep" lines of the exclude_app step assert nothing: a pipeline
\* inverted by "!" never makes bash exit under "set -e".
Asserted(p) == \A f \in Target(p) : \E h \in Hunk : h.of = p /\ h.in = f /\ edits[h] > 0

AssertStage ==
    /\ step = "patch"
    /\ next > Len(Stage[stage].run)
    /\ IF \A i \in DOMAIN Stage[stage].run : Asserted(Stage[stage].run[i])
       THEN IF stage = Len(Stage)
            THEN Goto("clang") /\ UNCHANGED <<stage, next>>
            ELSE Goto("patch") /\ stage' = stage + 1 /\ next' = 1
       ELSE Fail /\ UNCHANGED <<stage, next>>
    /\ UNCHANGED <<pvars, attempt, head, captured, manifest, image, audited, pack>>

-----------------------------------------------------------------------------
(* From the sources to the image.                                           *)

\* Mutant: clang comes with another sync of the projects.
InstallClangBySync ==
    /\ step = "clang"
    /\ \E h \in Heads : head' = [h EXCEPT !["recovery"] = "expected", !["clang"] = "expected"]
    /\ Goto("tree")
    /\ UNCHANGED <<pvars, stage, next, attempt, captured, manifest, image, audited, pack>>

InstallClang ==
    /\ step = "clang"
    /\ head' = [head EXCEPT !["clang"] = "expected"]
    /\ Goto("tree")
    /\ UNCHANGED <<pvars, stage, next, attempt, captured, manifest, image, audited, pack>>

\* Clone, then validate: prebuilt/kernel must have the stock checksum.
DeviceTree ==
    /\ step = "tree"
    /\ Goto("build")
    /\ UNCHANGED <<pvars, wvars>>

Build ==
    /\ step = "build"
    /\ image' = [run |-> run, complete |-> Complete, head |-> head, kernel |-> "stock", sealed |-> FALSE]
    /\ Goto("kernel")
    /\ UNCHANGED <<pvars, stage, next, attempt, head, captured, manifest, audited, pack>>

\* patch_j720f_recovery_kernel_defex.py (KernelPatch has its steps): three known
\* hashes, all others refused.
KernelPatched(kernel) ==
    IF kernel \in {"stock", "adb_only", "patched"} THEN "patched" ELSE "unknown"

PatchKernel ==
    /\ step = "kernel"
    /\ IF KernelPatched(image.kernel) = "patched"
       THEN image' = [image EXCEPT !.kernel = "patched"] /\ Goto("seal")
       ELSE Fail /\ UNCHANGED image
    /\ UNCHANGED <<pvars, stage, next, attempt, head, captured, manifest, audited, pack>>

\* Mutant: the image is packaged without the audit.
SealUnaudited ==
    /\ step = "seal"
    /\ image' = [image EXCEPT !.sealed = TRUE]
    /\ Goto("package")
    /\ UNCHANGED <<pvars, stage, next, attempt, head, captured, manifest, audited, pack>>

Seal ==
    /\ step = "seal"
    /\ image' = [image EXCEPT !.sealed = TRUE]
    /\ Goto("audit")
    /\ UNCHANGED <<pvars, stage, next, attempt, head, captured, manifest, audited, pack>>

\* audit_recovery.py of the device tree: expects the patched kernel and the trailer.
AuditAccepts == image.kernel = "patched" /\ image.sealed

\* The audit, the provenance copies and the size limit are one script.
Audit ==
    /\ step = "audit"
    /\ IF AuditAccepts
       THEN audited' = image /\ Goto("package")
       ELSE Fail /\ UNCHANGED audited
    /\ UNCHANGED <<pvars, stage, next, attempt, head, captured, manifest, image, pack>>

-----------------------------------------------------------------------------
(* Delivery.                                                                *)

\* What build-metadata.txt names: the recovery commit is the pinned one by its
\* constant, the others are what the patch step has captured.
Named == {"core", "bionic", "recovery"}
Metadata == [p \in Named |-> IF p = "recovery" THEN "expected" ELSE captured[p]]

Package ==
    /\ step = "package"
    /\ pack' = [tar |-> image, sums |-> image, head |-> Metadata, manifest |-> manifest]
    /\ Goto("upload")
    /\ UNCHANGED <<pvars, stage, next, attempt, head, captured, manifest, image, audited>>

Bundle == [run |-> run, image |-> image, pack |-> pack, audit |-> audited]

Upload ==
    /\ step = "upload"
    /\ artifacts' = artifacts \cup {Bundle}
    /\ step' = "publish"
    /\ UNCHANGED <<pvars, wvars, run, publish, releases>>

\* Mutant: the PUBLISH_RELEASE input is ignored.
PublishAlways ==
    /\ step = "publish"
    /\ releases' = releases \cup {Bundle}
    /\ step' = "done"
    /\ UNCHANGED <<pvars, wvars, run, publish, artifacts>>

\* The release step has no status function in its "if": it needs success as well.
Publish ==
    /\ step = "publish"
    /\ releases' = IF publish THEN releases \cup {Bundle} ELSE releases
    /\ step' = "done"
    /\ UNCHANGED <<pvars, wvars, run, publish, artifacts>>

-----------------------------------------------------------------------------
\* Any command may fail for a reason outside the model, or the run is cancelled.
Abort ==
    /\ step \notin Ended
    /\ tool = Idle
    /\ Fail
    /\ UNCHANGED <<pvars, wvars>>

JobStep ==
    \/ PrepareRunner \/ SyncSucceeds \/ SyncAttemptFails \/ SyncGivesUp \/ PinRecovery
    \/ RunTool \/ ToolRuns \/ ToolReturns \/ AssertStage
    \/ InstallClang \/ DeviceTree \/ Build \/ PatchKernel \/ Seal \/ Audit
    \/ Package \/ Upload \/ Publish

Fault == ToolInterrupted \/ Abort

Next == Dispatch \/ JobStep \/ Fault

Spec == Init /\ [][Next]_vars /\ WF_vars(JobStep)

-----------------------------------------------------------------------------
Bundles == artifacts \cup releases

TypeOK ==
    /\ PTypeOK
    /\ step \in Ended \cup {"prepare", "sync", "pin", "patch", "tool", "clang", "tree", "build",
                            "kernel", "seal", "audit", "package", "upload", "publish"}
    /\ stage \in DOMAIN Stage
    /\ next \in 1..(Len(Stage[stage].run) + 1)
    /\ attempt \in 0..MaxAttempt
    /\ run \in 0..MaxRun
    /\ publish \in BOOLEAN
    /\ head \in [Project -> Commit]
    /\ captured \in [Project -> Commit \cup {"unset"}]

(* Whatever leaves the runner was built from sources in which every hunk of *)
(* every patch is present exactly once and no file was cut short, at the    *)
(* qualified commits, also when an earlier run on the same workspace was    *)
(* interrupted in the middle of a write.                                    *)
DeliveredIsComplete ==
    \A b \in Bundles :
        /\ b.image.complete
        /\ \A p \in Named : b.image.head[p] = "expected"

(* Delivered files are the audited image and nothing else: the image, the   *)
(* tar and the checksums agree with what the audit of the same run read.    *)
DeliveredIsAudited ==
    \A b \in Bundles :
        /\ b.audit = b.image /\ b.pack.tar = b.image /\ b.pack.sums = b.image
        /\ b.image.run = b.run
        /\ b.image.kernel = "patched" /\ b.image.sealed

(* build-metadata.txt names the commits the image was built from, although  *)
(* they were captured before the patches, the toolchain and the build; and  *)
(* so does the archived manifest, resolved before recovery and clang were   *)
(* replaced, for every other project.                                       *)
MetadataIsTruthful ==
    \A b \in Bundles :
        /\ \A p \in Named : b.pack.head[p] = b.image.head[p]
        /\ \A p \in Project \ {"recovery", "clang"} : b.pack.manifest[p] = b.image.head[p]

(* A dispatched run ends: the sync retries are bounded and every tool exits.*)
RunsEnd == (step \notin Ended) ~> (step \in Ended)

(* No image is built while portrait.xml still routes to the app check page, *)
(* as the two negated greps of the exclude_app step mean to ensure.         *)
AppcheckRejected ==
    step \in {"kernel", "seal", "audit", "package", "upload", "publish"} =>
        shape["exclude_app"]["portrait.xml"] # "extra"

\* The abstract gate this workflow implements.
Qualified ==
    /\ image # None
    /\ image.run = run /\ image.complete
    /\ \A p \in Named : image.head[p] = "expected"

Phase ==
    IF step \in Ended THEN "closed"
    ELSE IF ~Qualified THEN "sources"
    ELSE IF audited = None THEN "built"
    ELSE IF \E b \in artifacts : b.run = run THEN "uploaded"
    ELSE "audited"

Gate == INSTANCE ReleaseGate WITH
            phase <- Phase, requested <- publish, current <- run,
            released <- {b.run : b \in releases}

ImplementsGate == Gate!Spec

-----------------------------------------------------------------------------
(* The inductive invariant behind them.                                     *)

Building == {"clang", "tree", "build", "kernel", "seal", "audit", "package", "upload", "publish"}
Imaged   == {"kernel", "seal", "audit", "package", "upload", "publish"}

Pristine ==
    /\ edits = NoEdits /\ kept = End
    /\ result = [p \in Patch |-> "none"] /\ report = {}

\* Only the patch steps run tools, one at a time, and only on fetched sources.
RunnerInv ==
    /\ tool # Idle => step = "tool"
    /\ step = "tool" => next <= Len(Stage[stage].run) /\ tool \in {Idle, Current}
    /\ step \in {"sync", "pin"} => Pristine /\ stage = 1 /\ next = 1

\* No tool has been interrupted in this run.
Undisturbed ==
    \/ step \in {"patch"} \cup Building
    \/ step = "tool" /\ (tool # Idle \/ result[Current] = "ok")

Passed(i) == i < stage \/ step \in Building

\* What earlier stages asserted is still so: later tools only add their edits.
SourcesInv ==
    Undisturbed =>
        /\ \A f \in File : Whole(f)
        /\ \A i \in DOMAIN Stage : Passed(i) => \A j \in DOMAIN Stage[i].run : Asserted(Stage[i].run[j])

\* A commit that was captured and checked is not moved any more, and the manifest
\* is outdated for the two projects only that are replaced after the sync.
HeadsInv ==
    /\ step \in {"patch", "tool"} \cup Building =>
        /\ head["recovery"] = "expected"
        /\ \A i \in DOMAIN Stage : Passed(i) \/ (i = stage /\ (next > 1 \/ step = "tool")) =>
               \A p \in Stage[i].need : head[p] = "expected" /\ captured[p] = head[p]
    /\ step \in {"pin", "patch", "tool"} \cup Building =>
        \A p \in Project \ {"recovery", "clang"} : manifest[p] = head[p]

Image == [run : Nat, complete : BOOLEAN, head : [Project -> Commit],
          kernel : {"stock", "patched"}, sealed : BOOLEAN]

\* An image of an earlier run lies about until the workspace is wiped, and is
\* never taken for one of this run.
ImageInv ==
    /\ image = None \/ (image \in Image /\ image.run <= run)
    /\ step = "prepare" => image = None \/ image.run < run
    /\ step \in {"sync", "pin", "patch", "tool", "clang", "tree", "build"} => image = None
    /\ step \in Imaged =>
        /\ image \in Image /\ image.run = run /\ image.complete /\ image.head = head
        /\ step # "kernel" => image.kernel = "patched"
        /\ step \notin {"kernel", "seal"} => image.sealed

DeliveryInv ==
    /\ step \notin Ended \cup {"prepare", "package", "upload", "publish"} => audited = None
    /\ step \in {"package", "upload", "publish"} => audited = image
    /\ step \in {"upload", "publish"} =>
        pack = [tar |-> image, sums |-> image, head |-> Metadata, manifest |-> manifest]
    /\ \A b \in artifacts : b.run \in 0..run
    /\ step \notin Ended => (step = "publish" <=> \E b \in artifacts : b.run = run)

BInv ==
    /\ TypeOK /\ PInv /\ RunnerInv /\ SourcesInv /\ HeadsInv /\ ImageInv /\ DeliveryInv
    /\ DeliveredIsComplete /\ DeliveredIsAudited /\ MetadataIsTruthful

-----------------------------------------------------------------------------
(* How far a run has come.                                                  *)

Order == <<"prepare", "sync", "pin", "patch", "clang", "tree", "build", "kernel", "seal", "audit",
           "package", "upload", "publish">>

\* Step t comes after step s; the tools belong to the patch step.
After(s, t) ==
    \/ s \notin Ended /\ t \in Ended
    \/ \E i, j \in DOMAIN Order : /\ Order[i] = IF s = "tool" THEN "patch" ELSE s
                                  /\ Order[j] = t
                                  /\ i < j

\* The running tool exits or goes on to its next step.
ToolAdvances ==
    /\ step = "tool" /\ step' = "tool" /\ tool # Idle
    /\ tool' = Idle \/ (tool' = tool /\ at' = at + 1)

OnwardStep ==
    \/ step \in Ended /\ step' = "prepare" /\ run' = run + 1
    \/ After(step, step')
    \/ step = "sync" /\ step' = "sync" /\ attempt' = attempt + 1
    \/ /\ step \in {"patch", "tool"} /\ step' \in {"patch", "tool"}
       /\ \/ stage' = stage + 1
          \/ stage' = stage /\ next' = next + 1
          \/ stage' = stage /\ next' = next /\ step = "patch" /\ step' = "tool"
          \/ stage' = stage /\ next' = next /\ ToolAdvances

(* A run only moves forward: to a later step of the workflow, or, where it  *)
(* stays, to its next sync attempt, patch stage, tool or step of a tool, all*)
(* of which TypeOK bounds.  Only a dispatch begins again.                   *)
RunAdvances == [][OnwardStep]_vars
=============================================================================

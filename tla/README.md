# A TLA+ model of the J720F recovery builder

This directory models the build tooling in this repository and the native code
its patch tools compile into the recovery. TLC checks the models on small
instances; TLAPS proves the safety results about the tools, the workflow and most
of the native code for every value of the constants, and the steps of both
refinements. The definitions are translated from the code, and PROJECT.json maps
each one to its lines.

## The system

| Part | State it keeps | Operations | What is hard about it |
| --- | --- | --- | --- |
| Patch tools (`tools/patch_*.py`, fifteen source patchers) | the text of one or two upstream files, a JSON report | read, check markers and anchors, write, verify, report | nothing is atomic: refusal after a first write, a torn write, a kill between two writes, reruns in any order |
| Workflow (`.github/workflows/TWRP-3.3-J720F.yml`) | the workspace, the checkouts, manifest, image, audit, package, artifacts, releases | sync with retries, pin, patch, build, patch the kernel, seal, audit, package, upload, publish | mutable upstreams, interrupted runs, assertions that must stop the run, evidence that must describe what was built |
| adbd handoff (inserted by `recovery_shell`, `pty_exec_transition`, `sync_worker`) | per thread: a pending exec context; per child: its domain and the sockets it inherited | start, arm, fork, clear, close, wait; child setup, exec, serve | concurrent threads and children, every call may fail, a child runs before its parent has finished |
| MTP send and receive (inserted by `mtp_send_userspace`, `mtp_receive_userspace`) | buffer, offsets, what is left of the object | read and write in chunks | short reads and writes, files that change, packet, buffer and 32-bit boundaries |
| RTC build floor (inserted by `rtc_build_floor`) | the system clock, rtc0, a checked flag | compare, choose, set, persist, verify | others set the clock meanwhile, failures after partial success, reboots |
| Kernel patch (`recovery_kernel_defex`) | the kernel inside the image, a report | recognise, patch, re-verify, rewrite, report | the image is rewritten in place and the tool run again on what a torn write left |
| USB transport at run time (inserted by `force_ffs`, `ffs_selector`, `sideload_rebind`) | two properties, init's queue of events, sysfs attributes, the UDC | choose a transport, publish, request, replay the gate, select | init, adbd, minadbd and the recovery act concurrently on properties whose events are handled later |
| storage.xml guard (inserted by `storage_xml_guard`) | a buffer and a document | load, decide, parse, probe, clean up | a parser that may not return, a document that may not exist |
| MTP date and parent fixes, ORS paths, app exclusion | none | stateless code | only their tools are modelled |
| `ldcheck`, `libneeds` | none | print | developer helpers, not modelled |

The workflow calls the tools in a fixed order; a tool communicates with the
workflow through its exit status, the edited files and its report. The
tools on `shell_service.cpp` build on each other, and so do the three that edit
`MtpServer.cpp` at different places. Of the inserted native parts the shell and
sync handlers live in one daemon, whose threads they fork from; the forced
transport (adbd and minadbd), the selector (init) and the rebind requests (the
recovery) meet in the properties and the USB gadget, and are one model.

What makes each part correct:

* a patch is in its files once or not at all as far as anybody may rely on it,
  and whoever relies on an exit status or a report is right;
* what leaves the runner is built from completely patched, qualified sources, is
  what was audited, and is described truthfully;
* everything that serves an adb request does so in the recovery domain, the
  daemon stays in its own, and sessions end for the host as well;
* an object counts as transferred only when it was, and the protocol stream
  stays in step;
* the clock reaches the build time and what is logged as repaired stays so;
* an adb daemon that is started comes onto USB, also in the middle of the
  hand-over to and from a sideload;
* only a known kernel is changed, only where it is meant to be, and a report
  stays true;
* a storage.xml that is not XML stops neither the recovery nor its probe.

## Modules

| Module | Models | Correspondence |
| --- | --- | --- |
| `Patcher` | any set of patch tools | `Program[p]` is the sequence of checks, writes, verification and report of a tool; `edits[h]` counts a hunk in its file; `shape` is what the upstream text looks like to each tool; `kept` is where a torn file ends. `Check`, `Write`, `Verify`, `Report`, `Finish` are the tool's steps, `CutShort` and `Kill` its interruptions, `Fetch` a fresh checkout |
| `SourcePatches` | the fifteen tools | the values of Patcher's constants: programs, the hunks, markers and anchors of each file in text order (`Layout`), the one prerequisite, and the order in the workflow |
| `BuildPipeline` | the workflow, on top of `Patcher` | `step` is the workflow step; each action is one step; `RunTool`/`ToolRuns`/`ToolReturns` run Patcher's actions inside it; `Abort` is any command failing for a reason outside the model |
| `ReleaseGate` | what the workflow promises, abstractly | implemented by `BuildPipeline` under the mapping at its end (`Phase`, `Qualified`) |
| `ExecHandoff` | raw, PTY and sync requests in adbd | `pc[x]` is the line of the handler, `pending[t]` the exec context of a thread, `proc[x]` the forked child |
| `RequestService` | what adbd promises for a request, abstractly | implemented by `ExecHandoff` under the mapping at its end (`Progress`) |
| `UsbTransport` | the start-up of adbd and minadbd, `apply_from_adb`, `write_file` of init with the selector, the ADB gate | `adbd` and `minadbd` are where the daemons are in their start-up, `recovery` the line of `apply_from_adb`, `queue` the property events init has not handled, `gate` the next command of its current action |
| `KernelPatch` | `patch_j720f_recovery_kernel_defex.py` | `image` is the file, `blob` what the tool has in memory, `given` the file as it was put there; one action per read, decision, write and report |
| `StorageXmlGuard` | `Decrypt_Adopted` with the guard | `place` is the place in the function, `start` is `xml_start` |
| `MtpSend`, `MtpReceive` | `j720fSendFileInUserspace`, `j720fReceiveFileInUserspace` | one action per system call and outcome |
| `RtcBuildFloor` | the block in `Fixup_Time_On_Boot` | `pc` is the place in the block; `Tick`, `OtherSetsClock`, `Reboot` are the rest of the world |
| `<Module>Proofs` | theorems about `<Module>`: `Patcher`, `BuildPipeline`, `ExecHandoff`, `UsbTransport`, `KernelPatch`, `MtpSend`, `MtpReceive`; `TwrpProofs` for the two insertions into TWRP's own start, `RtcBuildFloor` and `StorageXmlGuard` | the inductive invariant of each is at the end of the module it is about |
| `MC*` | instances for TLC | |

Operators named in comments as mutants are deliberately wrong variants of the
definition that follows them; they are used to check that a property can fail.

### How a source file is abstracted

A tool only ever asks of a text whether its marker is there and whether its
anchors occur the right number of times. A file is therefore the row of places
where the tools touch it, in text order (`SourcePatches!Layout`, read off the
anchors and replacements of the tools): a place has the hunk that is inserted
there, the anchor that is looked for, and the marker if the hunk contains it. An
anchor with a hunk of the same tool on its place is replaced and serves as a sign
of the edit; another one survives. The state is a count per hunk and, for a torn
text, the last place that is left (`kept`).

`Path.write_text` truncates and then writes, so an interrupted write leaves a
prefix of the new text that ends before, between or after any two places
(`CutShort`). A hunk that is cut in its middle counts as missing. Where
it already shows its marker, the code refuses because of it and the model because
an anchor behind it is cut off; the one marker with no anchor behind it is that of
Android.mk, which is complete only at the end of its hunk. The hunks are as fine as
a tool's checks can tell: the block of Android.mk is a hunk before the anchor and one behind it, the latter
with the marker, because the marker is the whole block.

What upstream can bring is enumerated per tool and file:
`pinned` (as the tool expects), `drifted` (an anchor count is wrong), `odd` (the
edit succeeds and the check after it fails), `split` (anchors counted right but
not replaced, only possible in recovery.te), `extra` (the removed text is used
once more elsewhere, in portrait.xml). The files of the recovery come from
a pinned commit; an unpinned shape there stands for a changed pin. Not listed are
the includes of `unistd.h` that two tools add where they are missing, and anchors
that another anchor of the same tool always follows.

### What kill() does

The handlers send SIGKILL to their child when they cannot clear the exec context
and do not look at the result. In `ExecHandoff` (`Kill`) the signal reaches every child in
the domain of adbd, but the child need not be gone at once (`Dies`). A child in the recovery domain
may be out of adbd's reach: then nothing happens and it goes on, although its
request was refused. `RequestService` says what is left of the promise: a request
is `placed` once its child is in the recovery domain, and only a placed or served
one can become `escaped` when it is refused. A refused child that lives outside the
recovery domain, or gets there after the refusal, has no counterpart.

### What is assumed of init

The rc files are in the device tree; the workflow checks their order and triggers
before it builds, and `UsbTransport` takes them from these checks: the gate writes
`enable`, the alias, `functions`, the UDC and `enable` again, on
`rebind_req=adb && ffs.ready=1`, with adbd started on boot and functionfs mounted by
an action of its own. Assumed beyond that: the request is consumed when the gate
begins (it is called one-shot), it is raised once at boot, and
`j720f.usb.transport` is set before a daemon reads it. An event is evaluated as
init of Android 7.1 does: its own property with the value it was raised with,
all others with their current value, one command at a time.

## Runs

| Run | Configuration | Question | Result |
| --- | --- | --- | --- |
| `tools` | PatcherTools | ten tools in six groups: two files each with one shared, verify after write, a prerequisite on one file, write before check, self-recognition, interleaved places; every tear | holds |
| `twice` | PatcherTwice | does a tool always see that it was applied before? | violated |
| `policy_report` | PatcherReport | does the report say what was removed? | violated |
| `pipeline` | BuildPipeline | whole workflow, all tools, partial syncs, captured commits, two dispatches | holds |
| `appcheck` | BuildAppcheck | do the negated greps reject? | violated |
| `handoff` | ExecHandoff | shell and two sync sessions, every failure, a kill out of reach; implements `RequestService` | holds |
| `send`, `receive` | MtpSend, MtpReceive | object transfer around every boundary, in pieces, with a next transaction behind it | holds |
| `usb` | UsbTransport | does every started daemon come onto USB, with one replay per request? | holds |
| `kernel` | KernelPatch | known, experimental, foreign and cut images, torn writes, reruns | holds |
| `storage` | StorageXmlGuard | every short storage.xml | holds |
| `rtc` | RtcBuildFloor | floor, persistence, reboot | holds |

The violated ones are disagreements between the code and what the repository
says of it:

* `NeverAppliedTwice`: exclude_app looks for its block as a whole. An Android.mk
  torn just before the `endif` has the anchor and not the marker; the next
  invocation wraps the block again and exits 0. It is the one tool of which no
  sign comes before its anchors; `AppliedAtMostOnce` is the statement that all the
  others see it in any prefix, and this one in a whole file. In the workflow an
  interrupted tool ends the run, and the next run wipes the workspace.
* `ReportedMeansRemoved`: recovery_data_policy.py counts two rules one by one and
  removes them joined; where they are not adjacent it removes nothing and reports
  both as removed. The workflow's own grep stops such a build, the tool does not.
* `AppcheckRejected`: `! grep` never fails a step under `set -e`.

rtc_build_floor.py:16 says that the clock is moved "forward (never backward)". The
block sets it to the whole second that it read before (lines 44-51), so a clock that
another component has moved past the build loses its fraction of a second, and what it
was moved by in between; `rtc` checks that the floor is reached all the same, and
no property says more.

The archived manifest is resolved before bootable/recovery and the clang prebuilt
are replaced, so it names other commits of these two than were built (the comment
at the step claims more, the repository's README tells the reader to combine it
with the pins); `MetadataIsTruthful` covers the other projects.

`ComesOnline` and `ReplayedOnce` have one exception that is worth knowing
(`stale`): when a request is raised while init has an event of an earlier round in
its queue, for instance because a sideload is entered just when adbd has become
ready, that event can consume the request, and the daemon it was meant for finds
none. It takes a hand-over within the handling of one event, and it rests on how
the device tree consumes the request.

### Bounds

* `tools`: ten tools in six groups (`MCGroups`), one group per behaviour
  (`group`), since tools of different groups share no file; chosen so that every discipline that occurs
  among the fifteen meets itself and the others; at most one file is
  not pinned. Invocations, interruptions and fetches are unbounded; a hunk that a
  tool does not notice is added at most twice (`MaxTimes = 2`, enough to show a
  double application). The theorems cover all tools and all combinations of shapes.
* `pipeline`: all fifteen tools in workflow order, two runs on one workspace
  (`MaxRun = 2`: what an earlier run leaves behind can matter to a later one; a
  third adds no new residue, since every run begins by wiping), three sync attempts as in the
  code, each of which may leave any mix of old and new commits, one unpinned hunk per discipline or one moved project.
* `handoff`: one command at a time, because the main thread handles one to its
  end before it accepts the next request, and two sync sessions, the least that
  can hold each other's sockets; one has a descriptor above the loop that closes
  them (`Beyond`). Names are reused for ever.
* `send`: buffer 4, header 1, packet 2 and field limit 7 for 16384, 12, 512 and
  2^32 - 1; the relations between them that the code relies on are assumed by
  name (`SendAssumption`). Lengths reach over three buffers and past the limit of
  the field. `receive`: buffer 3, lengths over three buffers, on either side of the
  announced one, with nothing or more than a buffer of the next transaction behind it.
* `usb`: four unhandled events of init (`MaxQueue`), more than one hand-over
  raises (stopped, request, ready); sideloads without end; both kinds of kernel and
  of transport property.
* `kernel`: every combination of the corrections and experiments, one foreign
  place in the stock and the final kernel, cuts before, in and after the kernel.
* `storage`: texts of up to three characters out of blank, "<" and another, two
  partitions: a guard decides on the first character that is not a blank.
* `rtc`: half seconds up to 13 (`MaxTime`) around a build time of 4 s and the
  verification's slack of 2 s. Times stop at the bound, which only removes
  behaviours.

Runs that end (a transfer, a call of the guard, a bounded number of dispatches) are checked without
deadlock detection; `handoff`, `usb`, `kernel`, `rtc` and the Patcher runs are checked with it.

### Fairness

* `BuildPipeline`: weak fairness of `JobStep`: a runner executes the next command;
  a command that hangs is cancelled by the runner (`Abort`), which is not assumed.
  Dispatches and faults are not fair.
* `ExecHandoff`: weak fairness of each handler and of each child up to the point
  where it serves: threads and processes are scheduled. Nothing makes a shell or
  the host of a sync session finish, and the properties do not ask for it.
* `MtpSend`: the helper's steps; reads of files and writes to the gadget return.
  A call that returns EINTR is repeated, which is a stutter.
* `MtpReceive`: reads return when there is something to read and writes return.
  A host that announces more than it sends blocks the read or has its next
  transaction read in its place; `Returns` and `StopsInTime` say so.
* `UsbTransport`: init goes on with its commands, mounts functionfs and reaps
  children, the daemons and the recovery are scheduled. When a sideload begins and
  when its child ends is up to the user and the host.
* `StorageXmlGuard`: the function runs; a parser in its error path need not leave it.
* `Patcher`, `KernelPatch` and `RtcBuildFloor` have only safety properties.

## What is proved

`PatcherProofs` proves, for every set of tools, files, programs and upstream
shapes that satisfy `PatchAssumption` and `DisciplineAssumption`:

| Theorem | States |
| --- | --- |
| `Invariance` | `PSpec => []PInv` |
| `TypeCorrect` | `[]PTypeOK` |
| `NeverTwice` | `[]AppliedAtMostOnce` |
| `SuccessIsApplied` | `[]SuccessMeansApplied` |
| `ReportIsApplied` | `[]ReportMeansApplied` |
| `Prerequisites` | `[]PrerequisitesFirst` |
| `OneRunWritesAll` | `NoMixedRuns` |

`DisciplineAssumption` is what the tools have in common and what a new tool must
keep: a file is checked before it is written, it is written once, a marker or a
replaced anchor betrays an earlier application, and the report comes after all
writes. It says nothing of where the signs are in the text: that decides what a
torn file still shows (`Noticed`), and the exception in `AppliedAtMostOnce` and
`NoMixedRuns` is exactly the text that shows nothing. TLC evaluates it on the
table of `SourcePatches` in the Patcher and pipeline runs.

The properties are not inductive by themselves. That an edit is not applied twice
needs to know, while a tool is between its check and its write, that the file is
still as it was when it was checked; that success means applied needs what was
written so far; and the report of an earlier run must survive a rerun that was
interrupted after it had torn a file. `PInv` adds:

* `RunningInv`: the running tool has not exited;
* `UptoInv`: an edit is in a file as far as the file goes, or not at all. This is
  what makes any prefix harmless but for the one kind above: all anchors of a tool
  are in the text, so its hunks would be, and a sign before an anchor would show;
* `ProgressInv`: what it has checked and not yet written is as it was checked
  (`Open`), what it has written has its edit;
* `OrderInv`: a later file of a tool has its edit only if the earlier ones were
  written, so a torn run leaves a prefix.

`PrerequisitesFirst` is true of the PTY edit although its first hunk is before the
marker it builds on: a tear between them cuts off the marker, and such a file is
accepted by no tool again.

The proof has one lemma per action; the theorem `Invariance` puts them together.

`TwrpProofs` proves, for every build time, slack and bound on the times
(`RtcAssumption`) the first four, and for every file and any number of partitions
(`StorageAssumption`) the others:

| Theorem | States |
| --- | --- |
| `FloorInvariance` | `Spec => []RInv` |
| `TypeCorrect` | `[]TypeOK` |
| `FloorHolds` | `[]FloorReached` |
| `RepairSurvivesReboot` | `NextBootKeepsFloor` |
| `GuardInvariance` | `GuardSpec => []GInv` |
| `GuardTypeCorrect` | `[]GuardTypeOK` |
| `AlwaysLeavesClean` | `[]LeavesClean` |
| `ParserSeesTags` | `[]ParsesTagsOnly` |
| `GuardedCallEnds` | `[](StepsLeft \in Nat)` and `ComesToItsEnd` |

The block compares rtc0 with the build, not the clock, so `FloorReached` for the
outcome `recent` needs to know that the clock is not behind rtc0 when the block
starts (`AheadInv`); the other outcomes need what the target and the clock have
reached on the way (`TargetInv`, `SetInv`), that the block runs once a boot
(`OnceInv`), and what rtc0 holds once the result is logged (`PersistedInv`).
`RInv` is their conjunction with `TypeOK` and `FloorReached`. It rests on time
and other components moving the clock forward only.

For the guard, `GInv` follows the file's buffer (`BufferInv`) and the document
(`DocumentInv`) through the function, and knows of the loop that only blanks lie
behind `xml_start` (`BlanksInv`): where it stops, the character decides for the
whole text. `ParsesTagsOnly` then says that the guard is exact in both directions:
the parser, whose error path does not end, is given the files that begin with a tag
after their blanks and no others, so no file it could have read is passed over
either. That the buffer is null before the load was missing from the first
version of `BufferInv`, which held in every reachable state and was not inductive.

`BuildPipelineProofs` proves, for any tools that keep the discipline, any stages
that run all of them and check the commits of core and bionic once
(`PipelineAssumption`), any number of sync attempts and of dispatches:

| Theorem | States |
| --- | --- |
| `WorkflowInvariance` | `Spec => []BInv` |
| `WorkflowTypeCorrect` | `[]TypeOK` |
| `DeliversComplete` | `[]DeliveredIsComplete` |
| `DeliversAudited` | `[]DeliveredIsAudited` |
| `MetadataTrue` | `[]MetadataIsTruthful` |
| `WorkflowRunsTools` | the workflow takes only steps of `Patcher` |
| `WorkflowImplementsGate` | `ImplementsGate` |
| `RunsAdvance` | `RunAdvances` |

A bundle is right only if everything before it was, so the invariant follows a run
from the wipe on. `RunnerInv`: only the patch steps run tools, on sources as they
were fetched; with it each step of the workflow is one of `Patcher` (wipe and sync
are a `Fetch`, the pin of a fetched tree changes nothing), and `PInv` is inherited
from `PatcherProofs`. `SourcesInv`: as long as no tool was interrupted in this
run, every file is whole and what a stage asserted stays true, because later
tools only add edits; an interrupted tool does not exit 0 and ends the run.
`HeadsInv`: commits that were checked are not moved, what was captured is what is
checked out, and the manifest is outdated for recovery and clang only. At the build, `WhenBuilding` puts them together:
an edit is there (asserted) and not twice (`AppliedAtMostOnce`). `ImageInv` and
`DeliveryInv` carry that through kernel patch, seal, audit and package; an image of
an earlier run lies about only until the wipe. For the gate, the phase is a
function of the step (`PhaseByStep`), and the proof goes through the steps.

`ExecHandoffProofs` proves, for any commands and any number of concurrent sync
sessions, wherever their sockets are (`HandoffAssumption`):

| Theorem | States |
| --- | --- |
| `HandoffInvariance` | `Spec => []HInv` |
| `TypeCorrect` | `[]TypeOK` |
| `AlwaysInRecovery` | `[]ServedInRecovery` |
| `TransitionIsScoped` | `[]NoStrayTransition` |
| `KeepsServicePromise` | `Service!Safety`: `ImplementsService` without its fairness |
| `SocketInvariance` | `Spec => []SocketInv` |
| `EndedIsReleased` | `[]HeldByStartingOnly` |
| `RequestsAdvance` | `[](\A x \in Session : StepsLeft(x) \in Nat)` and `NearerToEnd` |

That a child serves in the recovery domain is decided before it exists: its thread
must have the context armed when it forks (`ArmedForFork`), and no other request
of that thread may clear it in between (`OneCommand`, and a session has its own
thread). `ChildDomain` then follows the child from the fork to the exec.
`ArmedBySwitching` is `NoStrayTransition` with the owner known to be a request
that arms at all (`RawNeverArms`); `ChildPlace` says that a child exists from the
fork on and survives a refusal only past its exec, which by `ChildDomain` is in the
recovery domain: the kill reaches every other one. The refinement needs both.

`SyncReleased` needs that a session's sockets are let go of. `SocketInv` says who
can hold them: the daemon from the request to its close, the session's own child
until it exits, and, because a fork copies what is open, the child of any other
request up to its exec, where close-on-exec or the close loop take effect. So an
ended session is released but for such a child, or one that was killed before its
exec and is not gone yet (`HeldByStartingOnly`), and that child gets to its exec or exits.

`UsbTransportProofs` proves, for every bound on the queue of at least two:

| Theorem | States |
| --- | --- |
| `HandOverInvariance` | `Spec => []UInv` |
| `TypeCorrect` | `[]TypeOK` |
| `OneReplay` | `[]ReplayedOnce` |
| `RequestIsFresh` | `[]RequestFindsNotReady` |

`OneAnswer` orders the queue: a request's event has nothing before it that could
match, and an answer leaves neither the request nor its event behind. `HandOver`
says that at most one daemon is alive, `NotReadyMeanwhile` that nobody sets
ffs.ready between its reset and the start of the next daemon.

`KernelPatchProofs` proves, for any set of images and with or without a report:

| Theorem | States |
| --- | --- |
| `PatchInvariance` | `Spec => []KInv` |
| `TypeCorrect` | `[]TypeOK` |
| `OnlyKnownKernels` | `[]PatchedSafely` |
| `ReportStaysTrue` | `[]ReportIsTrue` |

`RunInv` ties what the tool has in memory to the file: until the write the file is
as it was read, and what will be written differs from it in the kernel only. A
status of 0 needs to know where the tool ended (`StatusInv`).

`MtpSendProofs` and `MtpReceiveProofs` prove, for every buffer, header, packet and
field limit in the relations the code relies on (`SendAssumption`), every buffer
of the receiver (`ReceiveAssumption`), and whatever the file and the host do:

| Theorem | States |
| --- | --- |
| `SendInvariance` | `Spec => []SInv` |
| `TypeCorrect` | `[]TypeOK` |
| `SuccessWhole` | `[]SuccessIsWhole` |
| `EndVisible` | `[]EndIsVisible` |
| `NoShortBeforeEnd` | `NoPrematureShort` |
| `ReceiveInvariance` | `Spec => []RInv` |
| `TypeCorrect` | `[]TypeOK` |
| `NothingIsLost` | `[]NothingLost` |
| `SuccessWhole` | `[]SuccessIsWhole` |
| `NothingBeyond` | `StopsInTime` |
| `SendingEnds`, `ReceivingEnds` | `[](StepsLeft \in Nat)` and `NearerToEnd`, of each |
| `ReceivingNeverWaits` | `[]NeverWaits`, for a host that sends what it announced or ends with a short packet |

For the sender `SendingInv` relates file offset, rest and what the host has: more
is only sent after full buffers, and the buffer is filled as far as the rest
allows. Proving `EndIsVisible` showed a condition the instance had hidden: with
packets of one byte there is no short packet, so `SendAssumption` asks for
`Packet > 1` (it is 512 in the code). For the receiver `AnnouncedInv` accounts for
an announced object with the buffer in between, and `ShortInv` for one that ends
with the first buffer that is not full: nothing but the helper's own test of that buffer keeps it
from the bytes of the next transaction, which a further read would take.

Every inductive invariant was checked by TLC on the instance of its run before it
was proved. A proof has one lemma per action, or per group of actions that touch
the same things; in `BuildPipelineProofs`, where most of the twenty-one actions
leave most of the parts alone, it has one lemma per part of the invariant with the
actions as its cases.

### The safety half of termination

A liveness property has a part that is safety: nothing ever goes back. For the
calls of the two MTP helpers and of the guarded function, and for the requests of adbd,
this is stated with a measure,
`StepsLeft`, an upper bound on the steps still to come, and proved: it is a natural
number in every reachable state and falls with every step (`ComesToItsEnd`,
`NearerToEnd`). What else can happen in between leaves it alone: a change of the file that
is sent, the steps of other requests. For a run of the workflow, `RunAdvances` names the order:
a later step of the workflow or, within one, the next sync attempt, stage, tool or
step of a tool. `NeverWaits` adds for the reception that it does not ask for data
that will not come; without its hypothesis this is false, since the code has no
timeout.

With these, `Returns` and `RunsEnd` need only that a step is taken
while one is possible. The measures were checked by TLC before they were proved.

### Only model-checked

Every invariant and every action property that a run expects to hold is stated by a
theorem. What is left to TLC is liveness, which is out of the prover's reach:

* `Returns` (of the transmission, the reception and the guard), `RunsEnd` and
  `SyncReleased`: that a possible step is taken (fairness), and that one is possible
  until the end (`ENABLED`). Their safety halves are proved, see above.
* `ComesOnline`: init, adbd and the recovery wait for each other here, and there is no
  measure that falls with every step, as sideloads go on without end.
* The fairness of `RequestService` in `ImplementsService`.

## Not modelled, and why

* The wording of edits, and whether the edited C++ compiles: text.
* The content checks of the device tree and of the compiled image (yml 546-779,
  826-934): several hundred greps whose only effect is to end the run.
* `finalize_samsung_recovery.py`, `audit_recovery.py`: in the device tree; the
  audit is taken to accept exactly a patched kernel with the trailer. The build always
  puts the stock kernel there, so the refusals of kernel patch and audit are reached
  through `Abort` only; `KernelPatch` has those of the tool.
* The gadget driver: whether an empty packet follows a container of 4 GiB and more
  that fills its last packet, and who consumes an empty packet after an object of
  known length.
* The start of adbd that `apply_from_adb` calls for is modelled for a daemon that is off
  and for one that is running; the code of the child and of the wait is upstream's (external).
* Locks and descriptor numbers inside adb; whether its caller reaps a PTY child
  that was killed because the exec context could not be cleared.
* The MTP composition of the device tree (`rebind_req=mtp`), a daemon that fails
  on its own, and failures of gate commands other than the writes to `functions`.
* The run time of the stateless insertions: MTP date fields, the root handle, the
  ORS paths, the excluded app. They keep nothing between two calls.
* Re-running the jobs of one run: a dispatch has a new id.

## Plan

In order of importance; what is done is marked.

1. (done) `Patcher`, `SourcePatches`: the tools and their failures; proofs.
2. (done) `BuildPipeline` on top of it; `ReleaseGate` as its promise.
3. (done) `ExecHandoff`.
4. (done) `MtpSend`, `MtpReceive`, `RtcBuildFloor`.
5. (done) `UsbTransport`: forced transport, selector and sideload rebind as one
   protocol between init, the daemons and the recovery.
6. (done) `StorageXmlGuard`, `KernelPatch`.
7. (done) `RequestService`, implemented by `ExecHandoff`.
8. (done) Proofs of the safety properties of every module with runs, and of the
   step refinements of `ReleaseGate` and `RequestService`.
9. (done) The safety half of termination; who holds the sockets of an ended session.
10. Re-running the jobs of one run (`gh release create` on an existing tag).

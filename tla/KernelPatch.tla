---------------------------- MODULE KernelPatch ----------------------------
(* patch_j720f_recovery_kernel_defex.py: the kernel inside recovery.img is   *)
(* brought to the one final state from the stock one or from the one of an   *)
(* earlier validation image; every other kernel is refused.  The image is    *)
(* rewritten in place, the tool may be killed or the disk fill at any point, *)
(* it may be run again on what it left, and images come and go.              *)
(*                                                                           *)
(* A kernel is abstracted to what is at the audited offsets and to the rest  *)
(* of it; a hash is taken to identify a kernel.  An image that was cut short *)
(* ends before one of its parts, which follow each other in the file.        *)
EXTENDS Naturals, Sequences

\* The parts of an image in file order: its header, the kernel with the generic
\* DEFEX selector, the adbd credential block, the other adb-root block, the
\* touch self-test at boot, the manual one, and what comes after the kernel.
Part == <<"header", "selector", "cred", "other_root", "touch", "manual", "ramdisk">>

Site == {"selector", "cred", "other_root", "touch", "manual"}

KernelEnd == 6
Whole == Len(Part)

\* "patched": the final bytes of a site the tool patches, an obsolete experiment
\* at the two others; "foreign": anything else, there or anywhere in that part.
Bytes == {"stock", "patched", "foreign"}

CONSTANTS
    Images,     \* the images the tool may be given
    Reporting   \* whether --report is given

Kernel == [Site -> Bytes]
Image == [header : {"expected", "other"}, kernel : Kernel, length : 0..Whole]
NoReport == [none |-> TRUE]

ASSUME KernelAssumption == Images \subseteq Image /\ Reporting \subseteq BOOLEAN

Stock   == [s \in Site |-> "stock"]
AdbOnly == [Stock EXCEPT !["cred"] = "patched"]
Final   == [AdbOnly EXCEPT !["touch"] = "patched"]

VARIABLES
    image,      \* the file
    blob,       \* what the running tool has read and edited
    pc,         \* where it is, or "idle"
    before,     \* the kernel it recognised
    status,     \* how the last run on this file ended
    report,     \* the report file
    given,      \* the file as it was put there
    torn,       \* a write of it was interrupted
    current     \* the report was written after the file was put there

vars == <<image, blob, pc, before, status, report, given, torn, current>>

TypeOK ==
    /\ image \in Image /\ blob \in Image /\ given \in Image
    /\ pc \in {"idle", "recognise", "check", "write", "report"}
    /\ before \in Kernel
    /\ status \in {"none", "running", "ok", "refused", "interrupted"}
    /\ report = NoReport \/ report \in [before : {Stock, AdbOnly, Final}, after : Image]
    /\ torn \in BOOLEAN /\ current \in BOOLEAN

Init ==
    /\ image \in Images /\ blob = image /\ given = image
    /\ pc = "idle" /\ before = Stock /\ status = "none"
    /\ report = NoReport /\ torn = FALSE /\ current = FALSE

-----------------------------------------------------------------------------
\* kernel_bounds: the header is there and as expected, the kernel is not cut.
Bounded(b) == b.header = "expected" /\ b.length >= KernelEnd

\* validate_target: the experiments absent, the two sites as wanted.
Validated(kernel, cred, touch) ==
    /\ kernel["selector"] = "stock" /\ kernel["other_root"] = "stock"
    /\ kernel["cred"] = cred /\ kernel["touch"] = touch /\ kernel["manual"] = "stock"

Leave(how) == pc' = "idle" /\ status' = how

\* The file is read; the header and the bounds of the kernel are checked.
Read ==
    /\ pc = "idle"
    /\ blob' = image
    /\ IF Bounded(image)
       THEN pc' = "recognise" /\ status' = "running"
       ELSE Leave("refused")
    /\ UNCHANGED <<image, before, report, given, torn, current>>

\* Mutant: the two instructions decide, not the hash of the whole kernel.
RecogniseBySites ==
    /\ pc = "recognise"
    /\ before' = blob.kernel
    /\ IF blob.kernel["cred"] = "patched" /\ blob.kernel["touch"] = "patched"
       THEN pc' = "report" /\ UNCHANGED <<blob, status>>
       ELSE IF blob.kernel \in {Stock, AdbOnly}
       THEN pc' = "check" /\ blob' = [blob EXCEPT !.kernel["cred"] = "patched", !.kernel["touch"] = "patched"]
            /\ UNCHANGED status
       ELSE Leave("refused") /\ UNCHANGED blob
    /\ UNCHANGED <<image, report, given, torn, current>>

\* Mutant: the first correction is made in the file itself.
RecogniseInFile ==
    /\ pc = "recognise"
    /\ before' = blob.kernel
    /\ IF blob.kernel \in {Stock, AdbOnly}
       THEN /\ pc' = "check"
            /\ image' = [image EXCEPT !.kernel["cred"] = "patched"]
            /\ blob' = [blob EXCEPT !.kernel["cred"] = "patched", !.kernel["touch"] = "patched"]
            /\ UNCHANGED status
       ELSE IF blob.kernel = Final
       THEN pc' = "report" /\ UNCHANGED <<image, blob, status>>
       ELSE Leave("refused") /\ UNCHANGED <<image, blob>>
    /\ UNCHANGED <<report, given, torn, current>>

\* The three known hashes, each with the bytes that belong to it.
Recognise ==
    /\ pc = "recognise"
    /\ before' = blob.kernel
    /\ \/ /\ blob.kernel = Final /\ Validated(blob.kernel, "patched", "patched")
          /\ pc' = "report"
          /\ UNCHANGED <<blob, status>>
       \/ /\ \/ blob.kernel = Stock /\ Validated(blob.kernel, "stock", "stock")
             \/ blob.kernel = AdbOnly /\ Validated(blob.kernel, "patched", "stock")
          /\ pc' = "check"
          /\ blob' = [blob EXCEPT !.kernel["cred"] = "patched", !.kernel["touch"] = "patched"]
          /\ UNCHANGED status
       \/ /\ blob.kernel \notin {Stock, AdbOnly, Final}
          /\ Leave("refused")
          /\ UNCHANGED blob
    /\ UNCHANGED <<image, report, given, torn, current>>

\* The edited kernel is validated and hashed before anything is written; where a
\* hash identifies a kernel, this never refuses.
Check ==
    /\ pc = "check"
    /\ Validated(blob.kernel, "patched", "patched") /\ blob.kernel = Final
    /\ pc' = "write"
    /\ UNCHANGED <<image, blob, before, status, report, given, torn, current>>

Write ==
    /\ pc = "write"
    /\ image' = blob
    /\ pc' = "report"
    /\ UNCHANGED <<blob, before, status, report, given, torn, current>>

\* write_bytes truncates and then writes: a prefix of the new image remains.
WriteTorn ==
    /\ pc = "write"
    /\ \E n \in 0..(blob.length - 1) : image' = [blob EXCEPT !.length = n]
    /\ torn' = TRUE
    /\ Leave("interrupted")
    /\ UNCHANGED <<blob, before, report, given, current>>

\* Mutant: the report describes the image in memory as it was read.
ReportFromRead ==
    /\ pc = "report"
    /\ \E wanted \in Reporting :
          IF wanted
          THEN report' = [before |-> before, after |-> [blob EXCEPT !.kernel = before]] /\ current' = TRUE
          ELSE UNCHANGED <<report, current>>
    /\ Leave("ok")
    /\ UNCHANGED <<image, blob, before, given, torn>>

\* The image is read again and reported as it is in the file.
Report ==
    /\ pc = "report"
    /\ \E wanted \in Reporting :
          IF wanted
          THEN report' = [before |-> before, after |-> image] /\ current' = TRUE
          ELSE UNCHANGED <<report, current>>
    /\ Leave("ok")
    /\ UNCHANGED <<image, blob, before, given, torn>>

Kill ==
    /\ pc # "idle"
    /\ Leave("interrupted")
    /\ UNCHANGED <<image, blob, before, report, given, torn, current>>

\* The build, or an operator, puts an image there; an old report stays.
Place ==
    /\ pc = "idle"
    /\ image' \in Images
    /\ given' = image'
    /\ status' = "none" /\ torn' = FALSE /\ current' = FALSE
    /\ blob' = image' /\ before' = Stock
    /\ UNCHANGED <<pc, report>>

Tool == Read \/ Recognise \/ Check \/ Write \/ Report

Next == Tool \/ WriteTorn \/ Kill \/ Place

Spec == Init /\ [][Next]_vars

-----------------------------------------------------------------------------
(* The file is the one that was put there, or one with a known kernel that   *)
(* was brought to the final one and differs at the two proven sites only,    *)
(* also while runs are interrupted and repeated; only a torn write can have  *)
(* cut it short, and a run exits 0 on no cut or unfinished kernel.           *)
PatchedSafely ==
    /\ \/ image = given
       \/ /\ given.kernel \in {Stock, AdbOnly} /\ image.kernel = Final
          /\ image.header = given.header
          /\ image.length = given.length \/ torn
    /\ status = "ok" => image.kernel = Final /\ image.length >= KernelEnd

(* The report written for an image goes on describing the file, through     *)
(* every later run on it, however that run ends.                            *)
ReportIsTrue == current => report.after = image /\ report.after.kernel = Final

-----------------------------------------------------------------------------
(* The inductive invariant behind them.                                     *)

Known == {Stock, AdbOnly, Final}

\* Until it writes, a running tool finds the file as it read it; from its
\* recognition on it holds the final kernel, in memory and then in the file.
RunInv ==
    /\ pc # "idle" => blob.header = image.header /\ Bounded(image)
    /\ pc = "recognise" => blob = image
    /\ pc \in {"check", "write"} =>
          /\ image.kernel \in {Stock, AdbOnly} /\ before = image.kernel
          /\ blob = [image EXCEPT !.kernel = Final]
    /\ pc = "report" => image.kernel = Final /\ before \in Known

\* A tool that ends, or never began, has left a status; 0 means it came to the end.
StatusInv ==
    /\ pc = "idle" => status # "running"
    /\ pc # "idle" => status = "running"

KInv == TypeOK /\ RunInv /\ StatusInv /\ PatchedSafely /\ ReportIsTrue
=============================================================================

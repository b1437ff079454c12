------------------------- MODULE KernelPatchProofs -------------------------
(* Whatever images come and whenever the tool is killed or its write torn:  *)
(* the file is the given one or its known kernel brought to the final one,  *)
(* and a report stays true of it.  For every set of images.                 *)
EXTENDS KernelPatch, TLAPS

USE KernelAssumption

\* The three known kernels are kernels, and told apart by their sites.
LEMMA KnownFacts ==
    /\ Stock \in Kernel /\ AdbOnly \in Kernel /\ Final \in Kernel
    /\ Final # Stock /\ Final # AdbOnly
<1>1. "cred" \in Site /\ "touch" \in Site
  BY DEF Site
<1>2. Stock \in Kernel /\ Stock["cred"] = "stock" /\ Stock["touch"] = "stock"
  BY <1>1 DEF Stock, Kernel, Bytes
<1>3. AdbOnly \in Kernel /\ AdbOnly["touch"] = "stock"
  BY <1>1, <1>2 DEF AdbOnly, Kernel, Bytes
<1>4. Final \in Kernel /\ Final["touch"] = "patched"
  BY <1>1, <1>3 DEF Final, Kernel, Bytes
<1> QED
  BY <1>2, <1>3, <1>4

\* Both corrections turn either of the earlier kernels into the final one.
LEMMA EditFacts ==
    ASSUME NEW b \in Image, b.kernel \in {Stock, AdbOnly}
    PROVE  [b EXCEPT !.kernel["cred"] = "patched", !.kernel["touch"] = "patched"] = [b EXCEPT !.kernel = Final]
<1>1. [Stock EXCEPT !["cred"] = "patched", !["touch"] = "patched"] = Final
  BY DEF Stock, AdbOnly, Final, Site
<1>2. [AdbOnly EXCEPT !["cred"] = "patched", !["touch"] = "patched"] = Final
  BY DEF Stock, AdbOnly, Final, Site
<1> QED
  BY <1>1, <1>2 DEF Image

LEMMA ImageFacts ==
    ASSUME NEW b \in Image
    PROVE  /\ b.kernel \in Kernel
           /\ b.length \in 0..Whole /\ Whole = 7
           /\ [b EXCEPT !.kernel = Final] \in Image
           /\ [b EXCEPT !.kernel = Final].kernel = Final
           /\ [b EXCEPT !.kernel = Final].header = b.header
           /\ [b EXCEPT !.kernel = Final].length = b.length
           /\ \A n \in 0..(b.length - 1) : [b EXCEPT !.length = n] \in Image
  BY KnownFacts DEF Image, Whole, Part

-----------------------------------------------------------------------------
LEMMA InitInv == Init => KInv
<1> SUFFICES ASSUME Init PROVE KInv
  OBVIOUS
<1>1. TypeOK
  BY KnownFacts DEF Init, TypeOK
<1>2. RunInv /\ StatusInv /\ PatchedSafely /\ ReportIsTrue
  BY DEF Init, RunInv, StatusInv, PatchedSafely, ReportIsTrue
<1> QED
  BY <1>1, <1>2 DEF KInv

\* The file is read; an image without a whole kernel is refused.
LEMMA ReadInv == KInv /\ Read => KInv'
<1> SUFFICES ASSUME KInv, Read PROVE KInv'
  OBVIOUS
<1> USE DEF KInv, Read, Leave
<1>1. TypeOK'
  BY DEF TypeOK
<1>2. RunInv' /\ StatusInv'
  BY DEF RunInv, StatusInv, Bounded
<1>3. PatchedSafely' /\ ReportIsTrue'
  BY DEF PatchedSafely, ReportIsTrue
<1> QED
  BY <1>1, <1>2, <1>3

LEMMA RecogniseInv == KInv /\ Recognise => KInv'
<1> SUFFICES ASSUME KInv, Recognise PROVE KInv'
  OBVIOUS
<1>0. /\ pc = "recognise" /\ blob = image /\ Bounded(image) /\ before' = blob.kernel
      /\ blob \in Image /\ blob.kernel \in Kernel /\ status = "running"
      /\ UNCHANGED <<image, report, given, torn, current>>
  BY ImageFacts DEF KInv, TypeOK, RunInv, StatusInv, Recognise
<1>1. \/ blob.kernel = Final /\ pc' = "report" /\ blob' = blob /\ status' = status
      \/ /\ blob.kernel \in {Stock, AdbOnly} /\ pc' = "check" /\ status' = status
         /\ blob' = [blob EXCEPT !.kernel = Final]
      \/ pc' = "idle" /\ status' = "refused" /\ blob' = blob
  BY <1>0, EditFacts DEF Recognise, Leave
<1>2. TypeOK'
  BY <1>0, <1>1, ImageFacts DEF KInv, TypeOK
<1>3. RunInv' /\ StatusInv'
  BY <1>0, <1>1, ImageFacts DEF RunInv, StatusInv, Bounded, Known
<1>4. PatchedSafely' /\ ReportIsTrue'
  BY <1>0, <1>1 DEF KInv, PatchedSafely, ReportIsTrue
<1> QED
  BY <1>2, <1>3, <1>4 DEF KInv

LEMMA CheckInv == KInv /\ Check => KInv'
<1> SUFFICES ASSUME KInv, Check PROVE KInv'
  OBVIOUS
<1> USE DEF KInv, Check
<1>1. TypeOK' /\ StatusInv'
  BY DEF TypeOK, StatusInv
<1>2. RunInv'
  BY DEF RunInv, Bounded
<1>3. PatchedSafely' /\ ReportIsTrue'
  BY DEF PatchedSafely, ReportIsTrue
<1> QED
  BY <1>1, <1>2, <1>3

\* What is true when the file is about to be changed: nobody has changed it yet,
\* and no report speaks of it.
LEMMA BeforeWrite ==
    ASSUME KInv, pc = "write"
    PROVE  /\ image \in Image /\ image.kernel \in {Stock, AdbOnly} /\ Bounded(image)
           /\ blob = [image EXCEPT !.kernel = Final] /\ blob \in Image /\ before = image.kernel
           /\ given = image /\ ~current /\ status = "running"
<1>1. /\ image \in Image /\ image.kernel \in {Stock, AdbOnly} /\ Bounded(image)
      /\ blob = [image EXCEPT !.kernel = Final] /\ blob \in Image /\ before = image.kernel
      /\ status = "running"
  BY DEF KInv, TypeOK, RunInv, StatusInv
<1>2. image.kernel # Final
  BY <1>1, KnownFacts
<1> QED
  BY <1>1, <1>2 DEF KInv, PatchedSafely, ReportIsTrue

LEMMA WriteInv == KInv /\ Write => KInv'
<1> SUFFICES ASSUME KInv, Write PROVE KInv'
  OBVIOUS
<1>0. pc = "write" /\ image' = blob /\ pc' = "report" /\ UNCHANGED <<blob, before, status, report, given, torn, current>>
  BY DEF Write
<1>1. /\ image'.kernel = Final /\ image'.header = image.header /\ image'.length = image.length
      /\ image' \in Image
  BY <1>0, BeforeWrite, ImageFacts
<1>2. TypeOK' /\ StatusInv'
  BY <1>0, <1>1 DEF KInv, TypeOK, StatusInv
<1>3. RunInv'
  BY <1>0, <1>1, BeforeWrite DEF RunInv, Bounded, Known
<1>4. PatchedSafely' /\ ReportIsTrue'
  BY <1>0, <1>1, BeforeWrite DEF PatchedSafely, ReportIsTrue
<1> QED
  BY <1>2, <1>3, <1>4 DEF KInv

LEMMA WriteTornInv == KInv /\ WriteTorn => KInv'
<1> SUFFICES ASSUME KInv, WriteTorn PROVE KInv'
  OBVIOUS
<1>0. /\ pc = "write" /\ torn' = TRUE /\ pc' = "idle" /\ status' = "interrupted"
      /\ UNCHANGED <<blob, before, report, given, current>>
  BY DEF WriteTorn, Leave
<1>1. PICK n \in 0..(blob.length - 1) : image' = [blob EXCEPT !.length = n]
  BY DEF WriteTorn
<1>2. image' \in Image /\ image'.kernel = Final /\ image'.header = image.header
  BY <1>0, <1>1, BeforeWrite, ImageFacts DEF Image
<1>3. TypeOK'
  BY <1>0, <1>2 DEF KInv, TypeOK
<1>4. RunInv' /\ StatusInv'
  BY <1>0 DEF RunInv, StatusInv
<1>5. PatchedSafely' /\ ReportIsTrue'
  BY <1>0, <1>2, BeforeWrite DEF PatchedSafely, ReportIsTrue
<1> QED
  BY <1>3, <1>4, <1>5 DEF KInv

LEMMA ReportInv == KInv /\ Report => KInv'
<1> SUFFICES ASSUME KInv, Report PROVE KInv'
  OBVIOUS
<1>0. /\ pc = "report" /\ pc' = "idle" /\ status' = "ok"
      /\ UNCHANGED <<image, blob, before, given, torn>>
      /\ image \in Image /\ image.kernel = Final /\ Bounded(image) /\ before \in Known
  BY DEF Report, Leave, KInv, TypeOK, RunInv
<1>1. \/ report' = [before |-> before, after |-> image] /\ current' = TRUE
      \/ UNCHANGED <<report, current>>
  BY Zenon DEF Report
<1>2. TypeOK'
  <2>1. report' = NoReport \/ report' \in [before : {Stock, AdbOnly, Final}, after : Image]
    BY <1>0, <1>1 DEF KInv, TypeOK, Known
  <2>2. current' \in BOOLEAN
    BY Zenon, <1>1 DEF KInv, TypeOK
  <2> QED
    BY <1>0, <2>1, <2>2 DEF KInv, TypeOK
<1>3. RunInv' /\ StatusInv'
  BY <1>0 DEF RunInv, StatusInv
<1>4. PatchedSafely' /\ ReportIsTrue'
  BY <1>0, <1>1 DEF KInv, PatchedSafely, ReportIsTrue, Bounded
<1> QED
  BY <1>2, <1>3, <1>4 DEF KInv

LEMMA WorldInv == KInv /\ (Kill \/ Place \/ UNCHANGED vars) => KInv'
<1> SUFFICES ASSUME KInv, Kill \/ Place \/ UNCHANGED vars PROVE KInv'
  OBVIOUS
<1>1. CASE Kill
  BY <1>1 DEF Kill, Leave, KInv, TypeOK, RunInv, StatusInv, PatchedSafely, ReportIsTrue
<1>2. CASE Place
  <2>1. /\ image' \in Image /\ given' = image' /\ blob' = image' /\ before' = Stock
        /\ torn' = FALSE /\ current' = FALSE
        /\ pc = "idle" /\ pc' = "idle" /\ status' = "none" /\ report' = report
    BY <1>2 DEF Place
  <2>2. TypeOK'
    BY <2>1, KnownFacts DEF KInv, TypeOK
  <2>3. RunInv' /\ StatusInv'
    BY <2>1 DEF RunInv, StatusInv
  <2>4. PatchedSafely' /\ ReportIsTrue'
    BY <2>1 DEF PatchedSafely, ReportIsTrue
  <2> QED
    BY <2>2, <2>3, <2>4 DEF KInv
<1>3. CASE UNCHANGED vars
  BY <1>3 DEF vars, KInv, TypeOK, RunInv, StatusInv, PatchedSafely, ReportIsTrue, Bounded
<1> QED
  BY <1>1, <1>2, <1>3

-----------------------------------------------------------------------------
(* The invariant of the kernel patch.                                       *)
THEOREM PatchInvariance == Spec => []KInv
<1>1. KInv /\ [Next]_vars => KInv'
  BY ReadInv, RecogniseInv, CheckInv, WriteInv, ReportInv, WriteTornInv, WorldInv DEF Next, Tool
<1> QED
  BY InitInv, <1>1, PTL DEF Spec

(* Type correctness of the tool and its file.                               *)
THEOREM TypeCorrect == Spec => []TypeOK
<1>1. KInv => TypeOK
  BY DEF KInv
<1> QED
  BY PatchInvariance, <1>1, PTL

(* Only a known kernel is changed, only into the final one, and no run      *)
(* exits 0 on anything else.                                                *)
THEOREM OnlyKnownKernels == Spec => []PatchedSafely
<1>1. KInv => PatchedSafely
  BY DEF KInv
<1> QED
  BY PatchInvariance, <1>1, PTL

(* A report describes the file until another image is put in its place.     *)
THEOREM ReportStaysTrue == Spec => []ReportIsTrue
<1>1. KInv => ReportIsTrue
  BY DEF KInv
<1> QED
  BY PatchInvariance, <1>1, PTL
=============================================================================

--------------------------- MODULE MCKernelPatch ---------------------------
(* KernelPatch on the three known kernels, each of the two corrections and  *)
(* each obsolete experiment alone and together, foreign bytes at any one    *)
(* audited place, an image of something else, and images cut short.         *)
EXTENDS KernelPatch, FiniteSets

OneForeign == {[k EXCEPT ![s] = "foreign"] : k \in {Stock, Final}, s \in Site}
Mixed == [Site -> {"stock", "patched"}]

MCImages ==
    [header : {"expected"}, kernel : Mixed \cup OneForeign, length : {Whole}]
    \cup [header : {"expected", "other"}, kernel : {Stock, AdbOnly, Final}, length : {0, KernelEnd - 1, KernelEnd, Whole}]
=============================================================================

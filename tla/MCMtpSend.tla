----------------------------- MODULE MCMtpSend -----------------------------
(* MtpSend with a buffer of two packets and files from nothing to several   *)
(* buffers, on both sides of every boundary: the first buffer, full buffers,*)
(* and the largest value of the length field.                               *)
EXTENDS MtpSend

MCLengths == -1..13
MCSizes == {0, 3, 8, 13}
=============================================================================

---------------------------- MODULE MCMtpReceive ---------------------------
(* MtpReceive with objects of up to three buffers, shorter than, equal to   *)
(* and longer than what the host announced, with and without bytes of the   *)
(* next transaction behind them.                                            *)
EXTENDS MtpReceive

MCLengths == 0..9
MCHostSizes == 0..10
MCFollowing == {0, 4}
=============================================================================

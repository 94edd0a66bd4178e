---------------------------- MODULE MCCallRcuOld ----------------------------
(* Model-checking instance of CallRcuOld: the per-CPU array for the worker *)
(* model values of the .cfg.                                              *)
EXTENDS CallRcuOld, TLC

CONSTANTS w0, w1

OneCpu == (0 :> w1)      \* create_all on a one-CPU host
=============================================================================

------------------------------- MODULE MCQsbr -------------------------------
(* Model-checking instance of Qsbr: counter widths for the two builds.     *)
(* On 32-bit, rcu_gp_ctr is a parity bit above RCU_GP_ONLINE, two bits.    *)
(* On 64-bit, three bits do not wrap within MaxGp = 2 grace periods, as    *)
(* 64 bits do not in practice.                                             *)
EXTENDS Qsbr, TLC

BuildWidths   == ("32" :> 2) @@ ("64" :> 3)
BuildAttempts == ("32" :> 1) @@ ("64" :> 2)
=============================================================================

------------------------------ MODULE MC_JobPod ------------------------------
(* Index 0, which the scripts skip, and one or two real indices.  RetryFlag *)
(* is TRUE in the run that passes, so that both sides of the retry logic    *)
(* are reached.                                                             *)
EXTENDS JobPod
=============================================================================

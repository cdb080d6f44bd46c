---- MODULE MCRetryQueue ----
(* RetryQueue for TLC: the jobs, workers and bounds are given by the cfg files. *)
EXTENDS RetryQueue
====

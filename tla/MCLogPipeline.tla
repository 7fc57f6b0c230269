--------------------------- MODULE MCLogPipeline ---------------------------
(* LogPipeline for TLC: the configured labels try to set "level" themselves,
   and the application attaches values under the keys the pipeline uses. *)
EXTENDS LogPipeline

CONSTANT Configured

MCKey == {"msg", "trace_id", "user"}
MCLabels == [level |-> Configured, service |-> Service]

GoroutineSymmetry == Permutations(Goroutine)
=============================================================================

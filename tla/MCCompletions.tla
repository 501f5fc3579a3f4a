---------------------------- MODULE MCCompletions ---------------------------
(* Small instances of Completions for TLC.                                 *)
EXTENDS Completions, TLC

CONSTANTS c1, c2

(* A call may end with any result, whichever way the process waits.         *)
AnyOutcome == [h \in {"event", "python"} |-> {"ok", "err"}]
=============================================================================

------------------------------ MODULE OneResult -----------------------------
(***************************************************************************)
(* What the asynchronous interface promises of a call, whoever waits: its  *)
(* result is handed over at most once, never after the caller gave the     *)
(* call up, and what the work opened is closed at most once, never while   *)
(* the caller may still be given it.                                       *)
(***************************************************************************)
CONSTANT Calls

VARIABLES outcome,   (* of each call, as its caller sees it                  *)
          handle     (* the stream or socket its work opens                  *)

oneResultVars == <<outcome, handle>>

Init == /\ outcome = [c \in Calls |-> "unused"]
        /\ handle = [c \in Calls |-> "none"]

Begin(c) ==
  /\ outcome[c] = "unused"
  /\ outcome' = [outcome EXCEPT ![c] = "running"]
  /\ UNCHANGED handle

(* The work may still open what nobody waits for any more.                  *)
Opens(c) ==
  /\ outcome[c] \in {"running", "abandoned"} /\ handle[c] = "none"
  /\ handle' = [handle EXCEPT ![c] = "open"]
  /\ UNCHANGED outcome

Deliver(c) ==
  /\ outcome[c] = "running" /\ handle[c] # "closed"
  /\ outcome' = [outcome EXCEPT ![c] = "delivered"]
  /\ UNCHANGED handle

Closing(c) == handle[c] = "open" /\ handle' = [handle EXCEPT ![c] = "closed"]

(* Whoever gives a call up may close what it opened in the same step.       *)
Abandon(c) ==
  /\ outcome[c] = "running"
  /\ outcome' = [outcome EXCEPT ![c] = "abandoned"]
  /\ Closing(c) \/ UNCHANGED handle

Closes(c) ==
  /\ outcome[c] \in {"delivered", "abandoned"}
  /\ Closing(c)
  /\ UNCHANGED outcome

Next == \E c \in Calls : Begin(c) \/ Opens(c) \/ Deliver(c) \/ Abandon(c) \/ Closes(c)

Spec == Init /\ [][Next]_oneResultVars
=============================================================================

--------------------------- MODULE SuspendOutcome ---------------------------
(***************************************************************************)
(* What the suspend coordinator promises its requesters: a launch decides  *)
(* the outcome of its suspend once, and every answer given is that outcome *)
(* (the comment on SuspendCoordinator in launch/suspend.go).               *)
(***************************************************************************)
CONSTANTS Clients, Outcome

VARIABLES outcome, answer

Init ==
  /\ outcome = "none"
  /\ answer = [c \in Clients |-> "none"]

Decide ==
  /\ outcome = "none"
  /\ outcome' \in Outcome
  /\ UNCHANGED answer

Answer(c) ==
  /\ outcome # "none"
  /\ answer[c] = "none"
  /\ answer' = [answer EXCEPT ![c] = outcome]
  /\ UNCHANGED outcome

Next == Decide \/ \E c \in Clients : Answer(c)

Spec == Init /\ [][Next]_<<outcome, answer>>
=============================================================================

--------------------------- MODULE SingleExecution ---------------------------
(***************************************************************************)
(* What the execution of approved proposals promises: one transaction at a *)
(* time, another only when that one can no longer succeed, none after one  *)
(* has succeeded, and a report only of what has succeeded.                 *)
(***************************************************************************)
CONSTANT Proposals

VARIABLES
  chain,    \* what the network holds for a proposal
  reported  \* whether the proposal is reported as executed

Init ==
  /\ chain = [p \in Proposals |-> "nothing"]
  /\ reported = [p \in Proposals |-> FALSE]

Launch(p) ==
  /\ chain[p] = "nothing"
  /\ chain' = [chain EXCEPT ![p] = "pending"]
  /\ UNCHANGED reported

Resolve(p) ==
  /\ chain[p] = "pending"
  /\ \E outcome \in {"nothing", "executed"} : chain' = [chain EXCEPT ![p] = outcome]
  /\ UNCHANGED reported

Report(p) ==
  /\ chain[p] = "executed"
  /\ reported' = [reported EXCEPT ![p] = TRUE]
  /\ UNCHANGED chain

(* Operators are asked to look again. *)
Doubt(doubted) ==
  /\ reported' = [p \in Proposals |-> reported[p] /\ p \notin doubted]
  /\ UNCHANGED chain

Next ==
  \/ \E p \in Proposals : Launch(p) \/ Resolve(p) \/ Report(p)
  \/ \E doubted \in SUBSET Proposals : Doubt(doubted)

Spec == Init /\ [][Next]_<<chain, reported>>
=============================================================================

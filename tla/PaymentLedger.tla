---------------------------- MODULE PaymentLedger ----------------------------
(***************************************************************************)
(* What the payment machinery promises, and nothing about how: a payment   *)
(* authorises exactly one transition, it is spent exactly when that        *)
(* transition is applied, and both happen in one step that is never undone. *)
(***************************************************************************)
EXTENDS Sequences

CONSTANTS
  Mandates,   \* the transitions some payment was made for
  PaidBy(_),  \* the payment of a mandate
  Opening     \* the mandates applied before the history starts

VARIABLES
  spent,  \* the payments used up
  log     \* the mandates applied, in order

Init ==
  /\ log = Opening
  /\ spent = {PaidBy(Opening[i]) : i \in DOMAIN Opening}

Apply(mandate) ==
  /\ PaidBy(mandate) \notin spent
  /\ spent' = spent \cup {PaidBy(mandate)}
  /\ log' = Append(log, mandate)

Next == log' # log /\ \E mandate \in Mandates : Apply(mandate)

Spec == Init /\ [][Next]_<<spent, log>>
=============================================================================

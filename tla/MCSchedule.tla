----------------------------- MODULE MCSchedule -----------------------------
(***************************************************************************)
(* Small worlds for the calendar.  One account, alice, owns every          *)
(* proposal; g1 and g2 are the hashes of the creations that are confirmed  *)
(* before the model starts, h1 and h2 those of submits.                    *)
(***************************************************************************)
EXTENDS AdminEdits

CONSTANTS
  alice, usdc,      \* an account, an asset contract
  h1, h2, g1, g2,   \* hashes
  p1, p2, pg1, pg2, \* payments
  a                 \* a content

MCProposedBy == [p \in Proposals |-> alice]
MCTitleOf    == [c \in Contents |-> c]
MCTextOf     == [c \in Contents |-> c]
MCPaymentOf  == [h \in Hashes |-> CASE h = h1 -> p1 [] h = h2 -> p2 [] h = g1 -> pg1 [] h = g2 -> pg2]

(* Proposal 1 is general, the others are about one asset. *)
OthersAsset == [p \in Proposals |-> IF p = 1 THEN NULL ELSE usdc]
NoAssets    == [p \in Proposals |-> NULL]

(* Payments verify elsewhere; all that is asked of these is the creations'. *)
Creation(asset) == [successful |-> TRUE,
                    operations |-> {[from |-> alice, amount |-> "CREATE_OR_UPDATE_COST"]},
                    memo       |-> <<"CREATE", alice, asset, a>>]
GeneralCreations == [p \in Payments |-> Creation(FALSE)]

(* The second is that of a proposal about the asset. *)
Creations == [p \in Payments |-> Creation(p = pg2)]

First  == [action |-> "TO_CREATE", proposal |-> 1, hash |-> g1, content |-> a, window |-> NULL]
Second == [First EXCEPT !.proposal = 2, !.hash = g2]

BothGenesis == <<First, Second>>
NoRearm     == {}

(* A manager queues a proposal for the second week, or adds one to it. *)
WeekTwo == {[status |-> "QUEUED", window |-> 2]}
NoEdits == {}
=============================================================================

----------------------------- MODULE MCPromotion -----------------------------
(***************************************************************************)
(* Small worlds for Promotion.  One account, alice, owns every proposal.   *)
(* h1 and h1f name one fee-bumped payment, h2 another; g1 and g2 are the   *)
(* hashes of the creations that are confirmed before the model starts.     *)
(***************************************************************************)
EXTENDS Promotion

CONSTANTS
  alice, usdc,         \* an account, an asset contract
  h1, h1f, h2, g1, g2, \* hashes
  p1, p2, pg1, pg2,    \* payments
  a, b,                \* contents
  x, y                 \* texts

(* Identities *)
MCProposedBy == [p \in Proposals |-> alice]
NoAssets     == [p \in Proposals |-> NULL]
OneAsset     == [p \in Proposals |-> usdc]
SecondAsset  == [p \in Proposals |-> IF p = 2 THEN usdc ELSE NULL]
MCTitleOf    == [c \in Contents |-> c]
OwnText      == [c \in Contents |-> IF c = a THEN x ELSE y]

MCPaymentOf ==
  [h \in Hashes |-> CASE h \in {h1, h1f} -> p1 [] h = h2 -> p2 [] h = g1 -> pg1 [] h = g2 -> pg2]

(* Payments *)
Burnt(cost, memo) ==
  [successful |-> TRUE, operations |-> {[from |-> alice, amount |-> cost]}, memo |-> memo]

Creation(asset, content) == Burnt("CREATE_OR_UPDATE_COST", <<"CREATE", alice, asset, content>>)
Update(p, content)       == Burnt("CREATE_OR_UPDATE_COST", <<"UPDATE", p, content>>)
Submit(p, window)        == Burnt("SUBMIT_COST", <<"SUBMIT", p, window>>)
AnyUseOf(text)           == Burnt("CREATE_OR_UPDATE_COST", LegacyMemo(text))

World(first, second, asset) ==
  [p \in Payments |-> CASE p = p1 -> first
                        [] p = p2 -> second
                        [] p \in {pg1, pg2} -> Creation(asset, a)]

(* Two updates of proposal 1. *)
UpdateWorld == World(Update(1, b), Update(1, a), FALSE)

(* A legacy payment that fits a creation and an update of the same text. *)
CreationWorld == World(AnyUseOf(y), Update(1, b), FALSE)

(* A submit of proposal 1 and a creation about the same asset. *)
SweepWorld == World(Submit(1, 1), Creation(TRUE, a), TRUE)

First == [action |-> "TO_CREATE", proposal |-> 1, hash |-> g1, content |-> a, window |-> NULL]

OneGenesis == <<First>>

NoRearm     == {}
RearmUpdate == {<<"TO_UPDATE", FALSE>>}
=============================================================================

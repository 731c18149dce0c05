------------------------------ MODULE MCOnchain ------------------------------
(* Instances of OnchainExecution for TLC. *)
EXTENDS OnchainExecution, TLC

CONSTANTS w1, w2, wbtc, close, clear, low

OneToken == [p \in Proposals |-> wbtc]

(* A close vote misses the quorum. *)
Landslide == {clear} \X Supply
Won       == Tally \X Supply

(* Both index, finalize and send; polls and the ends of votes follow one   *)
(* another.                                                                *)
OnePoller == w1 :> {"results", "finish", "send", "poll"} @@ w2 :> {"results", "send", "retry"}

(* Polls that overlap: while one waits for its answer, the worker beside   *)
(* it polls, retries and sends.                                            *)
TwoPollers == w1 :> {"send", "finish", "retry", "poll"} @@ w2 :> {"poll"}

(* A poll, a retry and a send never wait for each other's worker. *)
Shared == w1 :> {"send", "poll", "finish"} @@ w2 :> {"send", "retry"}

(* Two workers that take whatever comes. *)
Pool == w1 :> Kinds @@ w2 :> Kinds
=============================================================================

-------------------------- MODULE MCEscrowChainLive --------------------------
(***************************************************************************)
(* A listener that opens at the chain's head, with blocks of which one     *)
(* funds the escrow and one redeems, and a confirmation to wait for.  The  *)
(* chain may turn three times: away from a branch, back to it, and away    *)
(* again, so that rows which were brought back are reversed once more.     *)
(***************************************************************************)
EXTENDS EscrowChain, TLC

CONSTANTS ann, fund, redeem

MCCalls ==
       fund   :> <<[kind |-> "deposit", tx |-> 1, sender |-> ann, recipient |-> "",
                    amount |-> 1, claimable |-> 0]>>
    @@ redeem :> <<[kind |-> "redeem", tx |-> 1, sender |-> ann, recipient |-> "orch",
                    amount |-> 1, claimable |-> 0]>>
MCMined == <<fund>>
MCSenders == <<ann>>
=============================================================================

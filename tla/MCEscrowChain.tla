---------------------------- MODULE MCEscrowChain ----------------------------
(***************************************************************************)
(* Two followed signers, one configured twice, and one that is not.  The   *)
(* escrow is funded before the listener starts.  A block that follows      *)
(* redeems tickets of all three, two of ann's in one transaction: more     *)
(* than her deposit, more than what is left the second time, and one that  *)
(* pays nothing; or it withdraws ann's escrow and funds it anew.  The      *)
(* chain may turn twice, and so come back to a branch it had left.         *)
(***************************************************************************)
EXTENDS EscrowChain, TLC

CONSTANTS ann, bob, eve, refund, redeem

Fund(kind, s, n) ==
    [kind |-> kind, tx |-> 1, sender |-> s, recipient |-> "", amount |-> n, claimable |-> 0]
Redeem(tx, s, recipient, n, claimable) ==
    [kind |-> "redeem", tx |-> tx, sender |-> s, recipient |-> recipient, amount |-> n,
     claimable |-> claimable]

MCCalls ==
       refund :> <<Fund("withdraw", ann, 0), Fund("deposit", ann, 2), Fund("deposit", eve, 2),
                   Fund("reserve", ann, 2), Fund("deposit", bob, 1)>>
    @@ redeem :> <<Redeem(2, ann, "orch", 3, 2), Redeem(2, ann, "orch", 1, 0),
                   Redeem(3, eve, "orch", 1, 0), Redeem(4, bob, "other", 1, 0)>>
MCMined == <<refund>>
MCSenders == <<ann, bob, ann>>
=============================================================================

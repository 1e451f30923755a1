----------------------------- MODULE MCStaking -----------------------------
(***************************************************************************)
(* Two validators, one of which has another delegator, over six blocks.    *)
(* All their stake is bonded, so that what is undelegated or slashed       *)
(* matters for who is in the validator set.                                *)
(***************************************************************************)
EXTENDS Staking

MCValidators == 1 .. 2
MCDelegators == 1 .. 3
MCStakes == <<4, 2, 3>>
MCSelfDelegations == <<4, 2>>
MCDelegations == {<<3, 1, 2>>}
=============================================================================

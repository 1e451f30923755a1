------------------------------- MODULE Grants -------------------------------
(***************************************************************************)
(* x/feegrant and x/authz in one application: MsgExec routes the messages  *)
(* of x/feegrant, too, and the two modules prune at either end of a block. *)
(***************************************************************************)
EXTENDS FeeGrant, Authz

VARIABLE feeBefore      \* the fee allowances when the running MsgExec began, or NoExec

vars == <<time, feeState, authzState, feeBefore>>

Init ==
    /\ time = 1 /\ FeeInit /\ AuthzInit
    /\ feeBefore = NoExec

\* MsgGrantAllowance and MsgRevokeAllowance.
FeeMessages ==
    {[type |-> "allow", signer |-> p[1], pair |-> p, allowance |-> a] :
        p \in Pairs, a \in Allowances}
    \cup {[type |-> "disallow", signer |-> p[1], pair |-> p] : p \in Pairs}

HandleFee ==
    /\ exec # NoExec /\ exec.msg # NoMsg
    /\ Handled
    /\ \/ exec.msg.type = "allow" /\ GrantAllowance(exec.msg.pair, exec.msg.allowance)
       \/ exec.msg.type = "disallow" /\ RevokeAllowance(exec.msg.pair)
    /\ UNCHANGED <<grants, items, sent, feeBefore>>

StartExec ==
    /\ \E x \in Accounts : MsgExec(x)
    /\ feeBefore' = feeState
    /\ UNCHANGED feeState

RevertExec ==
    /\ FailExec
    /\ grant' = feeBefore[1] /\ queue' = feeBefore[2]
    /\ given' = feeBefore[3] /\ spent' = feeBefore[4]
    /\ feeBefore' = NoExec

Next ==
    \/ exec = NoExec /\ FeeTx /\ UNCHANGED <<authzState, feeBefore>>
    \/ /\ AuthzTx
       /\ feeBefore' = IF exec' = NoExec THEN NoExec ELSE feeBefore
       /\ UNCHANGED feeState
    \/ \E m \in FeeMessages : Authorize(m) /\ UNCHANGED <<feeState, feeBefore>>
    \/ HandleFee \/ StartExec \/ RevertExec
    \/ EndBlock /\ BeginBlock /\ UNCHANGED feeBefore

Spec == Init /\ [][Next]_vars

----------------------------------------------------------------------------
\* What was paid or sent under a grant, however its transactions ended, and what
\* is left of it make up the limit it was given, in both modules.
WithinLimits == SentWithinLimit /\ FeesWithinLimit

\* A block removes every grant that has expired; of the authorizations, which are
\* pruned at its beginning, only those.
PrunesExpired == PrunesExactly /\ ExpiredPruned
=============================================================================

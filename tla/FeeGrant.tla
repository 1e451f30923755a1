------------------------------ MODULE FeeGrant ------------------------------
(***************************************************************************)
(* x/feegrant: allowances from which a grantee's fees are paid, and the    *)
(* queue by which EndBlock prunes them.  The ante handler calls            *)
(* UseGrantedFees; when it, or a message, fails, nothing it wrote is kept, *)
(* so that only the calls that succeed are steps here.                     *)
(***************************************************************************)
EXTENDS GrantTypes

CONSTANTS
    Denoms,
    Allowances,   \* that a granter may give
    Fees,         \* that a transaction may pay
    MsgTypes,     \* of a transaction's messages
    MaxTime

Coins == [Denoms -> Nat]
Exps == 1 .. MaxTime

\* An AllowedMsgAllowance has the messages that it allows in msgs, the others
\* have all of them.
BasicAllowance ==
    [limit : Coins \cup {NoLimit}, exp : Exps \cup {Never}, msgs : SUBSET MsgTypes,
     periodic : {FALSE}]
PeriodicAllowance ==
    [limit : Coins \cup {NoLimit}, exp : Exps \cup {Never}, msgs : SUBSET MsgTypes,
     periodic : {TRUE}, period : Nat, reset : Nat, periodLimit : Coins, canSpend : Coins]
FeeAllowance == BasicAllowance \cup PeriodicAllowance

\* ValidateBasic: limits are positive.
ASSUME AllowancesAssumption ==
    /\ Allowances \subseteq FeeAllowance
    /\ \A a \in Allowances : a.limit # NoLimit => \E d \in Denoms : a.limit[d] > 0
    /\ NoLimit \notin [Denoms -> Int] /\ Never \notin Nat /\ NoGrant \notin FeeAllowance
ASSUME FeesAssumption == Fees \subseteq Coins

VARIABLES
    grant,     \* the allowance of each pair
    queue,     \* the pairs to prune, with the time
    given,     \* the allowance as it was granted, for the properties
    spent      \* the fees paid from it since, for the properties

feeState == <<grant, queue, given, spent>>

Zero == [d \in Denoms |-> 0]
Plus(c, f) == [d \in Denoms |-> c[d] + f[d]]
Minus(c, f) == [d \in Denoms |-> c[d] - f[d]]
AnyNegative(c) == \E d \in Denoms : c[d] < 0
Covers(c, f) == ~ AnyNegative(Minus(c, f))
Expired(exp) == exp # Never /\ exp < time

FeeInit ==
    /\ time = 1
    /\ grant = [p \in Pairs |-> NoGrant] /\ queue = {}
    /\ given = grant /\ spent = [p \in Pairs |-> Zero]

----------------------------------------------------------------------------
\* Mutant: a pair that is in the queue is not put in again.
GrantAllowanceOnce(p, a) ==
    /\ grant[p] = NoGrant
    /\ ~ Expired(a.exp)
    /\ grant' = [grant EXCEPT ![p] = a]
    /\ queue' = IF a.exp = Never \/ (\E q \in queue : q[2] = p) THEN queue
                ELSE queue \cup {<<a.exp, p>>}
    /\ given' = [given EXCEPT ![p] = a] /\ spent' = [spent EXCEPT ![p] = Zero]
    /\ UNCHANGED time

GrantAllowance(p, a) ==
    /\ grant[p] = NoGrant
    /\ ~ Expired(a.exp)
    /\ grant' = [grant EXCEPT ![p] = a]
    /\ queue' = IF a.exp = Never THEN queue ELSE queue \cup {<<a.exp, p>>}
    /\ given' = [given EXCEPT ![p] = a] /\ spent' = [spent EXCEPT ![p] = Zero]
    /\ UNCHANGED time

\* The queue keeps its entry.
RevokeAllowance(p) ==
    /\ grant[p] # NoGrant
    /\ grant' = [grant EXCEPT ![p] = NoGrant]
    /\ UNCHANGED <<time, queue, given, spent>>

----------------------------------------------------------------------------
\* Mutant: the time of the next reset is left as it is.
TryResetPeriodForgets(a) ==
    IF time < a.reset THEN a
    ELSE [a EXCEPT !.canSpend = IF a.limit # NoLimit /\ ~ Covers(a.limit, a.periodLimit)
                                THEN a.limit ELSE a.periodLimit]

\* tryResetPeriod: SpendLimit takes the place of PeriodSpendLimit when it does
\* not cover it in some denomination.
TryResetPeriod(a) ==
    IF time < a.reset THEN a
    ELSE [a EXCEPT !.canSpend = IF a.limit # NoLimit /\ ~ Covers(a.limit, a.periodLimit)
                                THEN a.limit ELSE a.periodLimit,
                   !.reset = IF time > a.reset + a.period THEN time + a.period
                             ELSE a.reset + a.period]

\* The allowance after a fee, by Accept of either kind.
Charged(a, fee) ==
    LET b == IF a.periodic THEN [TryResetPeriod(a) EXCEPT !.canSpend = Minus(@, fee)] ELSE a
    IN  [b EXCEPT !.limit = IF @ = NoLimit THEN @ ELSE Minus(@, fee)]

\* Accept agrees: the messages are allowed, the allowance has not expired and
\* covers the fee.
Accepts(a, fee, types) ==
    /\ types \subseteq a.msgs
    /\ ~ Expired(a.exp)
    /\ LET b == Charged(a, fee)
       IN  /\ b.periodic => ~ AnyNegative(b.canSpend)
           /\ b.limit # NoLimit => ~ AnyNegative(b.limit)

\* The allowance is saved, or revoked when nothing is left of it.
UseGrantedFees(p, fee, types) ==
    /\ grant[p] # NoGrant /\ Accepts(grant[p], fee, types)
    /\ LET b == Charged(grant[p], fee)
       IN  grant' = [grant EXCEPT ![p] = IF b.limit = Zero THEN NoGrant ELSE b]
    /\ spent' = IF grant[p].limit = NoLimit /\ ~ grant[p].periodic THEN spent
                ELSE [spent EXCEPT ![p] = Plus(@, fee)]
    /\ UNCHANGED <<time, queue, given>>

----------------------------------------------------------------------------
\* What the iterator of RemoveExpiredAllowances ranges over.  Its end is the key
\* of this time and a zero byte, before all keys of this time that name a pair.
Due == {q \in queue : q[1] < time}

\* RemoveExpiredAllowances of EndBlock, and the time of the next block.
EndBlock ==
    /\ queue' = queue \ Due
    /\ grant' = [p \in Pairs |-> IF \E q \in Due : q[2] = p THEN NoGrant ELSE grant[p]]
    /\ time < MaxTime /\ time' \in time + 1 .. MaxTime
    /\ UNCHANGED <<given, spent>>

FeeTx ==
    \/ \E p \in Pairs, a \in Allowances : GrantAllowance(p, a)
    \/ \E p \in Pairs : RevokeAllowance(p)
    \/ \E p \in Pairs, fee \in Fees, types \in SUBSET MsgTypes : UseGrantedFees(p, fee, types)

----------------------------------------------------------------------------
\* Whatever was paid from an allowance, and how often it was topped up, never
\* exceeds the SpendLimit it was granted with, and is missing from what is left.
FeesWithinLimit ==
    \A p \in Pairs : grant[p] # NoGrant /\ grant[p].limit # NoLimit =>
        Plus(grant[p].limit, spent[p]) = given[p].limit

\* A periodic allowance pays at most PeriodSpendLimit for every Period since its
\* first PeriodReset, over what it could spend before.  README: "period_spend_limit
\* specifies the maximum number of coins that can be spent in the period."  It does
\* not hold of a SpendLimit in several denominations, all of which tryResetPeriod
\* takes when one of them is short.
PeriodRate ==
    \A p \in Pairs : grant[p] # NoGrant /\ grant[p].periodic /\ grant[p].period > 0 =>
        LET a == given[p]
            periods == IF time < a.reset THEN 0 ELSE 1 + (time - a.reset) \div a.period
        IN  a.limit = NoLimit \/ (\E d \in Denoms : Denoms = {d}) =>
              \A d \in Denoms :
                spent[p][d] <= a.canSpend[d] + periods * a.periodLimit[d]

\* EndBlock leaves no allowance that had expired before its block.
ExpiredPruned ==
    [][EndBlock => \A p \in Pairs :
          grant'[p] # NoGrant => ~ Expired(grant[p].exp)]_<<time, feeState>>

\* EndBlock removes an allowance only when it has expired.  keeper.go:
\* "RemoveExpiredAllowances iterates grantsByExpiryQueue and deletes the expired
\* grants."
PrunesExpiredOnly ==
    [][EndBlock => \A p \in Pairs :
          grant[p] # NoGrant /\ grant'[p] = NoGrant =>
              Expired(grant[p].exp)]_<<time, feeState>>
=============================================================================

--------------------------- MODULE StakingKeeper ---------------------------
(***************************************************************************)
(* The operations of x/staking/keeper on its store.  They call each other  *)
(* within one block or message, so each is an operator from a store to the *)
(* store it leaves; a message that returns an error leaves none, and the   *)
(* Can... operators state when it does not.  A panic is recorded.          *)
(*                                                                         *)
(* A block's time is its height.  The operator account of validator v is   *)
(* delegator v, and its consensus key is v's own.                          *)
(***************************************************************************)
EXTENDS StakeDec, SequencesExt

CONSTANTS
    Validators,          \* numbers, in the order of their addresses
    Delegators,
    MaxEntries, UnbondingTime, PowerReduction,
    Nil

\* Shorter than two blocks, and validators would unbond while they still sign.
ASSUME StakingAssumption ==
    /\ Validators \subseteq Delegators /\ Delegators \subseteq Nat \ {0}
    /\ {MaxEntries, PowerReduction} \subseteq Nat \ {0}
    /\ UnbondingTime \in Nat \ {0, 1}

\* The pools' module accounts.
BondedPool == 0
NotBondedPool == -1

Pairs == Delegators \X Validators
Triplets == Delegators \X Validators \X Validators

-----------------------------------------------------------------------------
(* Coins, and the index of the validators by power.                        *)

Panics(s, when, why) == IF when /\ s.panic = Nil THEN [s EXCEPT !.panic = why] ELSE s

Sent(s, from, to, amt) ==
    IF from = to THEN s ELSE
    Panics([s EXCEPT !.coins[from] = @ - amt, !.coins[to] = @ + amt],
           s.coins[from] < amt, "insufficient funds")
Burned(s, pool, amt) ==
    Panics([s EXCEPT !.coins[pool] = @ - amt], s.coins[pool] < amt, "insufficient funds")

\* Mutant: what unbonds is taken for bonded.
PoolOfBonding(val) == IF val.status # "Unbonded" THEN BondedPool ELSE NotBondedPool

PoolOf(val) == IF val.status = "Bonded" THEN BondedPool ELSE NotBondedPool

Power(val) == val.tokens \div PowerReduction
PowerKey(val, v) == <<Power(val), v>>

DeleteValidatorByPowerIndex(s, v) ==
    [s EXCEPT !.powerIndex = @ \ {PowerKey(s.validators[v], v)}]
SetValidatorByPowerIndex(s, v) ==
    IF s.validators[v].jailed THEN s
    ELSE [s EXCEPT !.powerIndex = @ \cup {PowerKey(s.validators[v], v)}]

\* A validator's record is replaced, and so is its place in the index.
SetValidator(s, v, val) ==
    SetValidatorByPowerIndex(
        [DeleteValidatorByPowerIndex(s, v) EXCEPT !.validators[v] = val], v)

\* Mutant: the validator stays in the index.
JailValidatorIndexed(s, v) ==
    Panics([s EXCEPT !.validators[v].jailed = TRUE], s.validators[v].jailed, "already jailed")

JailValidator(s, v) ==
    Panics(DeleteValidatorByPowerIndex([s EXCEPT !.validators[v].jailed = TRUE], v),
           s.validators[v].jailed, "already jailed")
UnjailValidator(s, v) ==
    Panics(SetValidatorByPowerIndex([s EXCEPT !.validators[v].jailed = FALSE], v),
           ~s.validators[v].jailed, "already unjailed")

RemoveValidator(s, v) ==
    Panics([DeleteValidatorByPowerIndex(s, v) EXCEPT !.validators[v] = Nil],
           s.validators[v].status # "Unbonded" \/ s.validators[v].tokens > 0, "cannot remove")

-----------------------------------------------------------------------------
(* Delegate and Unbond.                                                    *)

CanDelegate(s, v) == s.validators[v] # Nil /\ ~InvalidExRate(s.validators[v])

\* The tokens come from an account, or from the pool of what they were.
Delegate(s, d, v, amt, from) ==
    LET val == s.validators[v]
        shares == IssuedShares(val, amt)
    IN  [SetValidator(Sent(s, from, PoolOf(val), amt), v,
                      [val EXCEPT !.tokens = @ + amt, !.shares = @ + shares])
            EXCEPT !.delegations[<<d, v>>] = @ + shares]

CreateValidator(s, v, amt) ==
    LET val == [status |-> "Unbonded", jailed |-> FALSE, tokens |-> 0, shares |-> 0,
                minSelfDelegation |-> 1, unbondingTime |-> 0, unbondingHeight |-> 0,
                hasId |-> FALSE, onHold |-> 0]
    IN  Delegate([s EXCEPT !.validators[v] = val, !.powerIndex = @ \cup {PowerKey(val, v)}],
                 v, v, amt, v)

UnbondedAmount(s, v, shares) == IssuedTokens(s.validators[v], shares)

\* The tokens stay in their pool: the caller moves or burns UnbondedAmount.
Unbond(s, d, v, shares) ==
    LET val == s.validators[v]
        kept == s.delegations[<<d, v>>] - shares
        leaves == d = v /\ ~val.jailed
                     /\ TruncateInt(TokensFromShares(val, kept)) < val.minSelfDelegation
        jailed == IF leaves THEN JailValidator(s, v) ELSE s
        taken == Panics(SetValidator([jailed EXCEPT !.delegations[<<d, v>>] = kept], v,
                            [jailed.validators[v] EXCEPT !.shares = @ - shares,
                                 !.tokens = @ - UnbondedAmount(s, v, shares)]),
                        UnbondedAmount(s, v, shares) > val.tokens, "more tokens than available")
    IN  IF val.shares = shares /\ val.status = "Unbonded" THEN RemoveValidator(taken, v)
        ELSE taken

\* ValidateUnbondAmount: the shares that amt tokens are.
CanUnbondAmount(s, d, v, amt) ==
    /\ s.validators[v] # Nil /\ s.validators[v].tokens > 0
    /\ s.delegations[<<d, v>>] > 0
    /\ SharesFromTokens(s.validators[v], amt) <= s.delegations[<<d, v>>]

-----------------------------------------------------------------------------
(* Entries of unbonding delegations and redelegations.                     *)

\* Mutant: the time has to have passed.
MaturedAfter(e, now) == e.completionTime < now /\ e.onHold = 0

Matured(e, now) == e.completionTime <= now /\ e.onHold = 0

UnbondingEntry(creation, completion, amt) ==
    [creationHeight |-> creation, completionTime |-> completion,
     initialBalance |-> amt, balance |-> amt, sharesDst |-> 0, onHold |-> 0]

\* AddEntry: two of the same block are one.
WithEntry(entries, e) ==
    LET i == SelectInSeq(entries, LAMBDA x : x.creationHeight = e.creationHeight
                                             /\ x.completionTime = e.completionTime)
    IN  IF i = 0 THEN Append(entries, e)
        ELSE [entries EXCEPT ![i].balance = @ + e.balance,
                             ![i].initialBalance = @ + e.balance]

Undelegate(s, now, d, v, shares) ==
    LET amt == UnbondedAmount(s, v, shares)
        completion == now + UnbondingTime
    IN  [Sent(Unbond(s, d, v, shares), PoolOf(s.validators[v]), NotBondedPool, amt)
            EXCEPT !.ubds[<<d, v>>] = WithEntry(@, UnbondingEntry(now, completion, amt)),
                   !.ubdQueue = @ \cup {<<completion, <<d, v>>>>}]

HasReceivingRedelegation(s, d, v) == \E w \in Validators : s.reds[<<d, w, v>>] # <<>>

\* A source validator that Unbond has removed counts as a bonded one.
BeginInfo(s, now, v) ==
    IF s.validators[v] = Nil \/ s.validators[v].status = "Bonded"
    THEN <<now, now + UnbondingTime>>
    ELSE <<s.validators[v].unbondingHeight, s.validators[v].unbondingTime>>

BeginRedelegation(s, now, d, v, w, shares) ==
    LET amt == UnbondedAmount(s, v, shares)
        moved == Delegate(Unbond(s, d, v, shares), d, w, amt, PoolOf(s.validators[v]))
        info == BeginInfo(moved, now, v)
        entry == [UnbondingEntry(info[1], info[2], amt) EXCEPT
                     !.sharesDst = IssuedShares(s.validators[w], amt)]
    IN  IF moved.validators[v] # Nil /\ moved.validators[v].status = "Unbonded" THEN moved
        ELSE [moved EXCEPT !.reds[<<d, v, w>>] = Append(@, entry),
                           !.redQueue = @ \cup {<<info[2], <<d, v, w>>>>}]

\* The i-th entry is delegated back, as far as amt goes.
CancelUnbonding(s, d, v, i, amt) ==
    [Delegate(s, d, v, amt, NotBondedPool) EXCEPT !.ubds[<<d, v>>] =
        IF @[i].balance = amt THEN RemoveAt(@, i)
        ELSE [@ EXCEPT ![i].balance = @ - amt, ![i].initialBalance = @ - amt]]

\* CompleteUnbonding: the entries that have matured are paid out.
CompleteUnbonding(s, now, pair) ==
    LET mature == SelectSeq(s.ubds[pair], LAMBDA e : Matured(e, now))
        amt == FoldSeq(LAMBDA e, sum : sum + e.balance, 0, mature)
    IN  [Sent(s, NotBondedPool, pair[1], amt) EXCEPT
            !.ubds[pair] = SelectSeq(@, LAMBDA e : ~Matured(e, now))]

CompleteRedelegation(s, now, triplet) ==
    [s EXCEPT !.reds[triplet] = SelectSeq(@, LAMBDA e : ~Matured(e, now))]

-----------------------------------------------------------------------------
(* Slash.                                                                  *)

\* The stake contributed to the infraction, and can still be slashed.
Slashable(e, now, infractionHeight) ==
    e.creationHeight >= infractionHeight /\ ~Matured(e, now)
SlashAmount(e, slashFactor) == TruncateInt(slashFactor * e.initialBalance)


TotalSlashAmount(entries, now, infractionHeight, slashFactor) ==
    FoldSeq(LAMBDA e, sum : IF Slashable(e, now, infractionHeight)
                            THEN sum + SlashAmount(e, slashFactor) ELSE sum, 0, entries)

\* No more than the entry has left.
SlashUnbondingDelegation(s, now, pair, infractionHeight, slashFactor) ==
    LET entries == s.ubds[pair]
        slashed == [i \in DOMAIN entries |->
                       IF Slashable(entries[i], now, infractionHeight)
                       THEN Min({SlashAmount(entries[i], slashFactor), entries[i].balance})
                       ELSE 0]
    IN  [Burned(s, NotBondedPool, SumFunction(slashed)) EXCEPT
            !.ubds[pair] = [i \in DOMAIN @ |-> [@[i] EXCEPT !.balance = @ - slashed[i]]]]

\* What was redelegated is unbonded from the destination, as far as it is there.
SlashRedelegation(s, now, triplet, infractionHeight, slashFactor) ==
    LET d == triplet[1]
        w == triplet[3]
        slashOne(acc, e) ==
            LET shares == Min({Mul(slashFactor, e.sharesDst), acc.s.delegations[<<d, w>>]})
                unbonded == Unbond(acc.s, d, w, shares)
            IN  IF ~Slashable(e, now, infractionHeight) \/ shares = 0 \/ acc.s.panic # Nil
                THEN acc
                ELSE [s |-> Panics(unbonded, unbonded.validators[w] = Nil,
                                   "destination validator not found"),
                      burned |-> acc.burned + UnbondedAmount(acc.s, w, shares)]
        acc == FoldLeft(slashOne, [s |-> s, burned |-> 0], s.reds[triplet])
    IN  IF acc.burned = 0 \/ acc.s.panic # Nil THEN acc.s
        ELSE Burned(acc.s, PoolOf(s.validators[w]), acc.burned)

\* infractionHeight is below now.
Slash(s, now, v, infractionHeight, power, slashFactor) ==
    LET slashAmount == TruncateInt(Mul(Dec(power * PowerReduction), slashFactor))
        pairs == {p \in Pairs : p[2] = v}
        triplets == {t \in Triplets : t[2] = v}
        total(entries) == TotalSlashAmount(entries, now, infractionHeight, slashFactor)
        slashed ==
            FoldSet(LAMBDA t, x : SlashRedelegation(x, now, t, infractionHeight, slashFactor),
                FoldSet(LAMBDA p, x : SlashUnbondingDelegation(x, now, p, infractionHeight, slashFactor),
                    s, pairs), triplets)
        remaining == slashAmount - MapThenSumSet(LAMBDA p : total(s.ubds[p]), pairs)
                                 - MapThenSumSet(LAMBDA t : total(s.reds[t]), triplets)
        val == s.validators[v]    \* as it was read in the beginning
        tokensToBurn == Max({0, Min({remaining, val.tokens})})
    IN  IF s.validators[v] = Nil THEN s
        ELSE Panics(Burned(SetValidator(slashed, v, [val EXCEPT !.tokens = @ - tokensToBurn]),
                           PoolOf(val), tokensToBurn),
                    s.validators[v].status = "Unbonded", "slashing an unbonded validator")

-----------------------------------------------------------------------------
(* The end of a block.                                                     *)

\* What the power index gives, highest power first, the lower address first.
BondedSet(s) ==
    LET above(k) == {j \in s.powerIndex : j[1] > k[1] \/ (j[1] = k[1] /\ j[2] < k[2])}
    IN  {k[2] : k \in {k \in s.powerIndex : k[1] > 0 /\ Cardinality(above(k)) < s.maxValidators}}

\* A validator that is bonded leaves the queue of those that unbond.
BondValidator(s, v) ==
    [SetValidator(s, v, [s.validators[v] EXCEPT !.status = "Bonded"]) EXCEPT
        !.valQueue = @ \ {<<s.validators[v].unbondingTime, s.validators[v].unbondingHeight, v>>}]

BeginUnbondingValidator(s, now, v) ==
    Panics([SetValidator(s, v, [s.validators[v] EXCEPT !.status = "Unbonding",
                !.unbondingTime = now + UnbondingTime, !.unbondingHeight = now, !.hasId = TRUE])
               EXCEPT !.valQueue = @ \cup {<<now + UnbondingTime, now, v>>}],
           s.validators[v].status # "Bonded", "bad state transition")

Bonding(s) == {v \in BondedSet(s) : s.validators[v].status # "Bonded"}
NoLongerBonded(s) == DOMAIN s.lastPowers \ BondedSet(s)

ApplyValidatorSetUpdates(s, now) ==
    LET tokens(S) == MapThenSumSet(LAMBDA v : s.validators[v].tokens, S)
        toBonded == tokens(Bonding(s)) - tokens(NoLongerBonded(s))
        updated == FoldSet(LAMBDA v, x : BeginUnbondingValidator(x, now, v),
                           FoldSet(LAMBDA v, x : BondValidator(x, v), s, Bonding(s)),
                           NoLongerBonded(s))
        moved == IF toBonded >= 0 THEN Sent(updated, NotBondedPool, BondedPool, toBonded)
                 ELSE Sent(updated, BondedPool, NotBondedPool, -toBonded)
    IN  Panics([moved EXCEPT !.lastPowers = [v \in BondedSet(s) |-> Power(s.validators[v])]],
               \E v \in BondedSet(s) : s.validators[v].jailed, "jailed validator in the power index")

UnbondMatureValidator(s, v) ==
    LET val == s.validators[v]
        unbonded == [s EXCEPT !.validators[v].status = "Unbonded", !.validators[v].hasId = FALSE]
        kept == IF val.shares = 0 THEN RemoveValidator(unbonded, v) ELSE unbonded
    IN  IF val = Nil THEN Panics(s, TRUE, "validator in the queue not found")
        ELSE IF val.status # "Unbonding" THEN Panics(s, TRUE, "status was not unbonding")
        ELSE IF val.onHold > 0 THEN s
        ELSE [kept EXCEPT !.valQueue = @ \ {<<val.unbondingTime, val.unbondingHeight, v>>}]

UnbondAllMatureValidators(s, now) ==
    FoldSet(LAMBDA q, x : UnbondMatureValidator(x, q[3]), s, {q \in s.valQueue : q[1] <= now})

Mature(queue, now) == {q[2] : q \in {q \in queue : q[1] <= now}}
Immature(queue, now) == {q \in queue : q[1] > now}

BlockValidatorUpdates(s, now) ==
    LET unbonded == UnbondAllMatureValidators(ApplyValidatorSetUpdates(s, now), now)
        paid == FoldSet(LAMBDA p, x : CompleteUnbonding(x, now, p), unbonded,
                        Mature(unbonded.ubdQueue, now))
        completed == FoldSet(LAMBDA t, x : CompleteRedelegation(x, now, t), paid,
                             Mature(paid.redQueue, now))
    IN  [completed EXCEPT !.ubdQueue = Immature(@, now), !.redQueue = Immature(@, now)]
=============================================================================

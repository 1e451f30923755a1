------------------------------ MODULE Staking ------------------------------
(***************************************************************************)
(* The validator set and its stake: x/staking with the two modules that    *)
(* punish validators, x/slashing and x/evidence.  A block begins with the  *)
(* votes of the previous commit and the evidence that CometBFT has found;  *)
(* then come messages, and at its end the validator set is updated and     *)
(* what has matured is completed.                                          *)
(***************************************************************************)
EXTENDS StakingKeeper

CONSTANTS
    Amounts,                         \* of the messages
    Stakes,                          \* what delegators have at genesis
    SelfDelegations, Delegations,    \* of the genesis validators, and other ones
    MaxValidators,                   \* the values the parameter may get
    SignedBlocksWindow, MinSignedPerWindow, DowntimeJailDuration,
    SlashFractionDowntime, SlashFractionDoubleSign,
    MaxAge,                          \* of evidence, in blocks
    MaxHeight, MaxMsgs, MaxFaults, MaxInputs    \* bounds

VARIABLES
    store,
    infos,       \* x/slashing: the signing info and the missed blocks of validators
    sets,        \* CometBFT's validators and powers, of the next height backwards
    height, begun,
    msgs, faults    \* how many there were

counts == <<msgs, faults>>
vars == <<store, infos, sets, height, begun, counts>>

\* DoubleSignJailEndTime
Forever == MaxHeight + 1

-----------------------------------------------------------------------------
(* x/slashing.                                                             *)

\* AfterValidatorBonded
BondedInfo(info, now) ==
    IF info # Nil THEN [info EXCEPT !.startHeight = now]
    ELSE [startHeight |-> now, indexOffset |-> 0, missedBlocks |-> {},
          missedBlocksCounter |-> 0, jailedUntil |-> 0, tombstoned |-> FALSE]

\* The offset is only used modulo the window.
Signed(info, absent) ==
    LET index == info.indexOffset
        previous == index \in info.missedBlocks
    IN  [info EXCEPT
            !.indexOffset = (@ + 1) % SignedBlocksWindow,
            !.missedBlocks = IF absent THEN @ \cup {index} ELSE @ \ {index},
            !.missedBlocksCounter = IF absent /\ ~previous THEN @ + 1
                                    ELSE IF ~absent /\ previous THEN @ - 1 ELSE @]

Down(info, now) ==
    /\ now > info.startHeight + SignedBlocksWindow
    /\ info.missedBlocksCounter > SignedBlocksWindow - MinSignedPerWindow

\* st is the pair of the store and the signing infos.
HandleValidatorSignature(st, now, v, power, absent) ==
    LET val == st.store.validators[v]
        info == Signed(st.infos[v], absent)
    IN  IF val # Nil /\ val.jailed THEN st
        ELSE IF st.infos[v] = Nil THEN [st EXCEPT !.store = Panics(@, TRUE, "no signing info")]
        ELSE IF ~Down(info, now) \/ val = Nil THEN [st EXCEPT !.infos[v] = info]
        ELSE [store |-> JailValidator(Slash(st.store, now, v, now - 2, power,
                                            SlashFractionDowntime), v),
              infos |-> [st.infos EXCEPT ![v] =
                            [info EXCEPT !.jailedUntil = now + DowntimeJailDuration,
                                         !.missedBlocksCounter = 0, !.indexOffset = 0,
                                         !.missedBlocks = {}]]]

-----------------------------------------------------------------------------
(* x/evidence.                                                             *)

\* Mutant: a validator is jailed again.
HandleEquivocationEvidenceJailing(st, now, v, infractionHeight, power) ==
    LET val == st.store.validators[v]
        slashed == Slash(st.store, now, v, infractionHeight - 1, power, SlashFractionDoubleSign)
    IN  IF val = Nil \/ val.status = "Unbonded" THEN st
        ELSE IF now - infractionHeight > MaxAge THEN st
        ELSE IF st.infos[v].tombstoned THEN st
        ELSE [store |-> JailValidator(slashed, v),
              infos |-> [st.infos EXCEPT ![v].jailedUntil = Forever, ![v].tombstoned = TRUE]]

HandleEquivocationEvidence(st, now, v, infractionHeight, power) ==
    LET val == st.store.validators[v]
        slashed == Slash(st.store, now, v, infractionHeight - 1, power, SlashFractionDoubleSign)
    IN  IF val = Nil \/ val.status = "Unbonded" THEN st
        ELSE IF now - infractionHeight > MaxAge THEN st
        ELSE IF st.infos[v] = Nil THEN [st EXCEPT !.store = Panics(@, TRUE, "no signing info")]
        ELSE IF st.infos[v].tombstoned THEN st
        ELSE [store |-> IF val.jailed THEN slashed ELSE JailValidator(slashed, v),
              infos |-> [st.infos EXCEPT ![v].jailedUntil = Forever, ![v].tombstoned = TRUE]]

-----------------------------------------------------------------------------
Running == store.panic = Nil

\* The height before this one was signed by sets[3].
BeginBlock(absent, equivocations) ==
    LET voters == DOMAIN sets[3]
        voted == FoldSet(LAMBDA v, st : HandleValidatorSignature(st, height, v, sets[3][v], v \in absent),
                         [store |-> store, infos |-> infos], voters)
        handled == FoldSet(LAMBDA e, st : HandleEquivocationEvidence(st, height, e[1], height - e[2],
                                                                     sets[2 + e[2]][e[1]]),
                           voted, equivocations)
    IN  /\ Running /\ ~begun
        /\ absent \subseteq voters
        /\ faults' = faults + Cardinality(absent) + Cardinality(equivocations)
        /\ faults' <= MaxFaults /\ msgs + faults' <= MaxInputs
        /\ \A e \in equivocations : e[1] \in DOMAIN sets[2 + e[2]]
        /\ store' = handled.store /\ infos' = handled.infos
        /\ begun' = TRUE
        /\ UNCHANGED <<sets, height, msgs>>

EndBlock ==
    LET updated == BlockValidatorUpdates(store, height)
    IN  /\ Running /\ begun /\ height < MaxHeight
        /\ store' = updated
        /\ infos' = [v \in Validators |-> IF v \in Bonding(store) THEN BondedInfo(infos[v], height)
                                          ELSE infos[v]]
        /\ sets' = <<updated.lastPowers>> \o SubSeq(sets, 1, Len(sets) - 1)
        /\ height' = height + 1 /\ begun' = FALSE
        /\ UNCHANGED counts

-----------------------------------------------------------------------------
(* Messages.  One that panics is an error.                                 *)

Executes(s) ==
    /\ Running /\ begun /\ msgs < MaxMsgs /\ msgs + faults < MaxInputs
    /\ s.panic = Nil /\ store' = s
    /\ msgs' = msgs + 1
    /\ UNCHANGED <<infos, sets, height, begun, faults>>

\* The shares that MsgUndelegate and MsgBeginRedelegate ask for.
SharesOf(v, amt) == SharesFromTokens(store.validators[v], amt)

MsgDelegate(d, v, amt) ==
    /\ CanDelegate(store, v) /\ store.coins[d] >= amt
    /\ Executes(Delegate(store, d, v, amt, d))

MsgUndelegate(d, v, amt) ==
    /\ CanUnbondAmount(store, d, v, amt)
    /\ Len(store.ubds[<<d, v>>]) < MaxEntries
    /\ Executes(Undelegate(store, height, d, v, SharesOf(v, amt)))

MsgBeginRedelegate(d, v, w, amt) ==
    /\ v # w /\ CanUnbondAmount(store, d, v, amt)
    /\ CanDelegate(store, w)
    /\ ~HasReceivingRedelegation(store, d, v)
    /\ Len(store.reds[<<d, v, w>>]) < MaxEntries
    /\ UnbondedAmount(store, v, SharesOf(v, amt)) > 0
    /\ Executes(BeginRedelegation(store, height, d, v, w, SharesOf(v, amt)))

\* The first entry of the height that the message gives.
MsgCancelUnbondingDelegation(d, v, i, amt) ==
    LET entries == store.ubds[<<d, v>>]
    IN  /\ CanDelegate(store, v) /\ ~store.validators[v].jailed
        /\ i \in DOMAIN entries
        /\ \A j \in 1 .. i - 1 : entries[j].creationHeight # entries[i].creationHeight
        /\ entries[i].balance >= amt /\ entries[i].completionTime >= height
        /\ Executes(CancelUnbonding(store, d, v, i, amt))

MsgCreateValidator(v, amt) ==
    /\ store.validators[v] = Nil /\ store.coins[v] >= amt
    /\ Executes(CreateValidator(store, v, amt))

MsgEditValidator(v, min) ==
    /\ store.validators[v] # Nil
    /\ store.validators[v].minSelfDelegation < min /\ min <= store.validators[v].tokens
    /\ Executes([store EXCEPT !.validators[v].minSelfDelegation = min])

MsgUpdateParams(max) ==
    /\ max # store.maxValidators
    /\ Executes([store EXCEPT !.maxValidators = max])

MsgUnjail(v) ==
    LET val == store.validators[v]
    IN  /\ val # Nil /\ store.delegations[<<v, v>>] > 0
        /\ TruncateInt(TokensFromShares(val, store.delegations[<<v, v>>])) >= val.minSelfDelegation
        /\ val.jailed
        /\ infos[v] # Nil => ~infos[v].tombstoned /\ height >= infos[v].jailedUntil
        /\ Executes(UnjailValidator(store, v))

-----------------------------------------------------------------------------
(* Holds of other modules on what unbonds.                                 *)

PutUnbondingOnHold ==
    \/ \E p \in Pairs : \E i \in DOMAIN store.ubds[p] :
          Executes([store EXCEPT !.ubds[p][i].onHold = @ + 1])
    \/ \E t \in Triplets : \E i \in DOMAIN store.reds[t] :
          Executes([store EXCEPT !.reds[t][i].onHold = @ + 1])
    \/ \E v \in Validators :
          /\ store.validators[v] # Nil /\ store.validators[v].hasId
          /\ Executes([store EXCEPT !.validators[v].onHold = @ + 1])

\* An entry that has matured in the meantime is completed at once.
UnbondingCanComplete ==
    \/ \E p \in Pairs : \E i \in DOMAIN store.ubds[p] :
          LET s == [store EXCEPT !.ubds[p][i].onHold = @ - 1]
          IN  /\ store.ubds[p][i].onHold > 0
              /\ Executes(IF ~Matured(s.ubds[p][i], height) THEN s
                          ELSE [Sent(s, NotBondedPool, p[1], s.ubds[p][i].balance) EXCEPT
                                   !.ubds[p] = RemoveAt(@, i)])
    \/ \E t \in Triplets : \E i \in DOMAIN store.reds[t] :
          LET s == [store EXCEPT !.reds[t][i].onHold = @ - 1]
          IN  /\ store.reds[t][i].onHold > 0
              /\ Executes(IF ~Matured(s.reds[t][i], height) THEN s
                          ELSE [s EXCEPT !.reds[t] = RemoveAt(@, i)])
    \/ \E v \in Validators :
          /\ store.validators[v] # Nil /\ store.validators[v].hasId
          /\ store.validators[v].onHold > 0
          /\ Executes([store EXCEPT !.validators[v].onHold = @ - 1])

-----------------------------------------------------------------------------
Genesis ==
    LET empty == [validators |-> [v \in Validators |-> Nil], powerIndex |-> {}, lastPowers |-> <<>>,
                  valQueue |-> {}, delegations |-> [p \in Pairs |-> 0],
                  ubds |-> [p \in Pairs |-> <<>>], ubdQueue |-> {},
                  reds |-> [t \in Triplets |-> <<>>], redQueue |-> {},
                  coins |-> [a \in Delegators \cup {BondedPool, NotBondedPool} |->
                                IF a \in Delegators THEN Stakes[a] ELSE 0],
                  maxValidators |-> Min(MaxValidators), panic |-> Nil]
        created == FoldSet(LAMBDA v, s : CreateValidator(s, v, SelfDelegations[v]), empty, Validators)
    IN  FoldSet(LAMBDA g, s : Delegate(s, g[1], g[2], g[3], g[1]), created, Delegations)

Init ==
    /\ store = ApplyValidatorSetUpdates(Genesis, 0)
    /\ infos = [v \in Validators |-> IF v \in DOMAIN store.lastPowers THEN BondedInfo(Nil, 0) ELSE Nil]
    /\ sets = <<store.lastPowers, store.lastPowers>> \o [a \in 1 .. MaxAge |-> <<>>]
    /\ height = 1 /\ begun = FALSE
    /\ msgs = 0 /\ faults = 0

Next ==
    \/ \E absent \in SUBSET Validators, equivocations \in SUBSET (Validators \X (1 .. MaxAge)) :
          BeginBlock(absent, equivocations)
    \/ EndBlock
    \/ \E v \in Validators, amt \in Amounts :
          \/ \E d \in Delegators : MsgDelegate(d, v, amt) \/ MsgUndelegate(d, v, amt)
          \/ \E d \in Delegators, w \in Validators : MsgBeginRedelegate(d, v, w, amt)
          \/ \E d \in Delegators, i \in 1 .. MaxEntries : MsgCancelUnbondingDelegation(d, v, i, amt)
          \/ MsgCreateValidator(v, amt) \/ MsgEditValidator(v, amt)
    \/ \E max \in MaxValidators : MsgUpdateParams(max)
    \/ \E v \in Validators : MsgUnjail(v)
    \/ PutUnbondingOnHold
    \/ UnbondingCanComplete

Spec == Init /\ [][Next]_vars

-----------------------------------------------------------------------------
There == {v \in Validators : store.validators[v] # Nil}
InStatus(S) == {v \in There : store.validators[v].status \in S}
Tokens(S) == MapThenSumSet(LAMBDA v : store.validators[v].tokens, S)
BalanceOf(entries) == FoldSeq(LAMBDA e, sum : sum + e.balance, 0, entries)

(***************************************************************************)
(* The module accounts hold what the records say (the invariants           *)
(* ModuleAccountInvariants and DelegatorSharesInvariant of x/staking): the *)
(* bonded pool the tokens of the bonded validators, the other pool those   *)
(* of the others and of all unbonding delegations, and the shares of a     *)
(* validator are those of its delegators, whatever was slashed, rounded,   *)
(* redelegated, cancelled or bonded again on the way.                      *)
(***************************************************************************)
StakeAddsUp ==
    Running =>
        /\ store.coins[BondedPool] = Tokens(InStatus({"Bonded"}))
        /\ store.coins[NotBondedPool] = Tokens(InStatus({"Unbonding", "Unbonded"}))
               + MapThenSumSet(LAMBDA p : BalanceOf(store.ubds[p]), Pairs)
        /\ \A v \in Validators :
              MapThenSumSet(LAMBDA d : store.delegations[<<d, v>>], Delegators)
                  = IF v \in There THEN store.validators[v].shares ELSE 0

(***************************************************************************)
(* The power index holds just the validators that are not jailed, each     *)
(* under the power that its record has, and after every EndBlock the       *)
(* validators that CometBFT was told of are the bonded ones, with the      *)
(* power they have.                                                        *)
(***************************************************************************)
ValidatorSetExact ==
    Running =>
        /\ store.powerIndex = {PowerKey(store.validators[v], v) :
                                   v \in {v \in There : ~store.validators[v].jailed}}
        /\ DOMAIN store.lastPowers = InStatus({"Bonded"})
        /\ ~begun => store.lastPowers = [v \in BondedSet(store) |-> Power(store.validators[v])]

(***************************************************************************)
(* What unbonds is completed in time: every entry without a hold is in its *)
(* queue at the time when it completes, or BlockValidatorUpdates has       *)
(* completed it by then, and the queue of validators has just those that   *)
(* unbond, through jailing, rebonding, cancelling and holds.               *)
(***************************************************************************)
QueuesCover ==
    LET covered(e, id, queue) ==
            e.onHold > 0 \/ (<<e.completionTime, id>> \in queue /\ (begun \/ e.completionTime >= height))
    IN  Running =>
            /\ \A p \in Pairs : \A e \in ToSet(store.ubds[p]) : covered(e, p, store.ubdQueue)
            /\ \A t \in Triplets : \A e \in ToSet(store.reds[t]) : covered(e, t, store.redQueue)
            /\ store.valQueue =
                  {<<store.validators[v].unbondingTime, store.validators[v].unbondingHeight, v>> :
                       v \in InStatus({"Unbonding"})}

(***************************************************************************)
(* The begin and the end of a block reach none of the panics of x/staking  *)
(* (jailing twice, transitions between states, slashing of an unbonded     *)
(* validator, a queue or an index that is wrong, a pool that is too small) *)
(* nor a missing signing info, but one: SlashRedelegation does not find    *)
(* the destination if its own Unbond has just removed it.                  *)
(***************************************************************************)
NoOtherPanic == store.panic \in {Nil, "destination validator not found"}

Supply == SumFunction(store.coins)

=============================================================================

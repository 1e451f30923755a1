-------------------------------- MODULE Gov ---------------------------------
(***************************************************************************)
(* x/gov: proposals, their deposits and votes, the two queues by which     *)
(* EndBlocker drops and tallies them, and the coins that the module holds. *)
(* A message that fails leaves no trace, so that only the calls that       *)
(* succeed are steps.  EndBlocker walks each queue over an iterator that   *)
(* sees the queue as it was at the start of the walk; one entry is a step, *)
(* between which nothing else runs.  The stakes do not change here.        *)
(***************************************************************************)
EXTENDS Integers, FiniteSets, FiniteSetsExt, Functions

CONSTANTS
    Accounts,
    Validators,      \* accounts with a bonded validator
    Stake,           \* the shares of each account in each validator
    Tokens,          \* of each validator
    ParamSets,       \* the parameters, by name
    Submissions,     \* proposer, expedited, content ("fails" or the parameters it sets), deposit
    Ballots, Parts,  \* votes, in parts of each option
    Amounts, Balance,
    MaxId, MaxTime, LastSubmit,
    NoProposal, NoTime, NoDeposit, NoVote

Ids == 1 .. MaxId
Options == {"yes", "no", "abstain", "veto"}
Shares == [w \in Validators |-> SumFunction([a \in Accounts |-> Stake[<<a, w>>]])]

\* A share's tokens, which Dec has to 18 decimals, are whole here.
ASSUME StakeAssumption ==
    /\ IsFiniteSet(Accounts) /\ Validators \subseteq Accounts
    /\ Stake \in [Accounts \X Validators -> Nat] /\ Tokens \in [Validators -> Nat]
    /\ \A w \in Validators : Shares[w] > 0 /\ Tokens[w] % Shares[w] = 0

\* The weights of a vote add up to one.
ValidVote(b) ==
    b \in [Options -> 0 .. Parts] /\ SumFunction(b) = Parts

\* ValidateBasic, with the ratios in hundredths.
ValidParams(p) ==
    /\ p.minDeposit > 0 /\ p.expeditedMinDeposit > p.minDeposit
    /\ p.depositPeriod > 0 /\ p.expeditedVotingPeriod > 0
    /\ p.votingPeriod > p.expeditedVotingPeriod
    /\ p.initialRatio \in 0 .. 100 /\ p.cancelRatio \in 0 .. 100 /\ p.quorum \in 0 .. 100
    /\ p.vetoThreshold \in 1 .. 100 /\ p.threshold \in 1 .. 100
    /\ p.expeditedThreshold > p.threshold

Contents == {s[3] : s \in Submissions}

ASSUME InputAssumption ==
    /\ \A b \in Ballots : ValidVote(b)
    /\ \A n \in DOMAIN ParamSets :
          /\ ValidParams(ParamSets[n])
          /\ ParamSets[n].depositPeriod \in Nat /\ ParamSets[n].votingPeriod \in Nat
          /\ ParamSets[n].expeditedVotingPeriod \in Nat
    /\ Submissions \subseteq Accounts \X BOOLEAN \X Contents \X Nat
    /\ Amounts \subseteq Nat /\ Balance \in Nat /\ Parts \in Nat
    /\ MaxId \in Nat /\ MaxTime \in Nat

Proposal ==
    [status : {"deposit", "voting", "passed", "failed", "rejected"}, expedited : BOOLEAN,
     proposer : Accounts, content : Contents, total : Int, depositEnd : Int,
     votingStart : Int \cup {NoTime}, votingEnd : Int \cup {NoTime}]

\* What stands for nothing is told apart from what there is.
ASSUME NoneAssumption ==
    /\ NoTime \notin Int /\ NoDeposit \notin Int
    /\ NoProposal \notin Proposal /\ NoVote \notin Ballots

VARIABLES
    time,
    params,          \* the name of the current parameters
    nextId,
    proposals,
    inactive,        \* InactiveProposalsQueue
    active,          \* ActiveProposalsQueue
    voting,          \* VotingPeriodProposals
    deposits, votes,
    bank,            \* the balance of each account
    module,          \* the balance of the module
    burned,
    walk             \* what EndBlocker is at: the queue and the entries ahead

stores == <<nextId, proposals, inactive, active, voting, deposits, votes, bank, module, burned>>
vars == <<time, params, stores, walk>>

Params == ParamSets[params]
Idle == [queue |-> "none", ahead |-> {}]

Init ==
    /\ time = 1 /\ params \in DOMAIN ParamSets /\ nextId = 1
    /\ proposals = [id \in Ids |-> NoProposal]
    /\ inactive = {} /\ active = {} /\ voting = {}
    /\ deposits = [k \in Ids \X Accounts |-> NoDeposit]
    /\ votes = [k \in Ids \X Accounts |-> NoVote]
    /\ bank = [a \in Accounts |-> Balance] /\ module = 0 /\ burned = 0
    /\ walk = Idle

----------------------------------------------------------------------------
Live(p) == p # NoProposal /\ p.status \in {"deposit", "voting"}
Deposited(id, a) == IF deposits[<<id, a>>] = NoDeposit THEN 0 ELSE deposits[<<id, a>>]
Total(id) == SumFunction([a \in Accounts |-> Deposited(id, a)])
MinDeposit(expedited) == IF expedited THEN Params.expeditedMinDeposit ELSE Params.minDeposit

\* RoundInt: a number of hundredths, the half to the even number.
RoundInt(n) ==
    LET q == n \div 100
        r == n % 100
    IN  IF r < 50 \/ (r = 50 /\ q % 2 = 0) THEN q ELSE q + 1

\* validateInitialDeposit; no coins are never as many as some, be they zero.
InitialDepositSuffices(amount, expedited) ==
    Params.initialRatio # 0 =>
        /\ amount > 0
        /\ amount >= RoundInt(MinDeposit(expedited) * Params.initialRatio)

WithoutDeposits(id) == [k \in Ids \X Accounts |-> IF k[1] = id THEN NoDeposit ELSE deposits[k]]
WithoutVotes(id) == [k \in Ids \X Accounts |-> IF k[1] = id THEN NoVote ELSE votes[k]]

\* SetProposal keeps the index of the proposals in their voting period.
SetProposal(id, p) ==
    /\ voting' = IF p.status = "voting" THEN voting \cup {id} ELSE voting \ {id}
    /\ proposals' = [proposals EXCEPT ![id] = p]

\* Mutant: the entry of the voting period stays.
DeleteProposalQueued(id) ==
    /\ inactive' = inactive \ {<<proposals[id].depositEnd, id>>}
    /\ UNCHANGED active
    /\ voting' = voting \ {id}
    /\ proposals' = [proposals EXCEPT ![id] = NoProposal]

DeleteProposal(id) ==
    LET p == proposals[id]
    IN  /\ inactive' = inactive \ {<<p.depositEnd, id>>}
        /\ active' = active \ {<<p.votingEnd, id>>}
        /\ voting' = IF p.votingEnd = NoTime THEN voting ELSE voting \ {id}
        /\ proposals' = [proposals EXCEPT ![id] = NoProposal]

RefundAndDeleteDeposits(id) ==
    /\ bank' = [a \in Accounts |-> bank[a] + Deposited(id, a)]
    /\ module' = module - Total(id)
    /\ deposits' = WithoutDeposits(id)
    /\ UNCHANGED burned

DeleteAndBurnDeposits(id) ==
    /\ burned' = burned + Total(id)
    /\ module' = module - Total(id)
    /\ deposits' = WithoutDeposits(id)
    /\ UNCHANGED bank

\* The parts of the deposits that a cancellation costs, rounded down for each
\* depositor, are burned or go to an account.
ChargeDeposit(id) ==
    LET charge(a) == (Deposited(id, a) * Params.cancelRatio) \div 100
        charges == SumFunction([a \in Accounts |-> charge(a)])
        dest == Params.cancelDest
    IN  /\ bank' = [a \in Accounts |-> bank[a] + Deposited(id, a) - charge(a)
                                       + IF a = dest THEN charges ELSE 0]
        /\ burned' = IF dest \in Accounts THEN burned ELSE burned + charges
        /\ module' = module - Total(id)
        /\ deposits' = WithoutDeposits(id)

\* AddDeposit on proposal p, which is stored already or, by SubmitProposal, in
\* this step; its voting period begins when the deposits suffice.
AddDeposit(id, p, a, amount) ==
    LET q == [p EXCEPT !.total = @ + amount]
        begins == q.status = "deposit" /\ q.total >= MinDeposit(q.expedited)
        period == IF q.expedited THEN Params.expeditedVotingPeriod ELSE Params.votingPeriod
        r == [q EXCEPT !.status = "voting", !.votingStart = time, !.votingEnd = time + period]
    IN  /\ Live(p) /\ amount <= bank[a]
        /\ bank' = [bank EXCEPT ![a] = @ - amount] /\ module' = module + amount
        /\ SetProposal(id, IF begins THEN r ELSE q)
        /\ inactive' = IF begins THEN inactive \ {<<p.depositEnd, id>>}
                       ELSE IF id = nextId THEN inactive \cup {<<p.depositEnd, id>>} ELSE inactive
        /\ active' = IF begins THEN active \cup {<<r.votingEnd, id>>} ELSE active
        /\ deposits' = [deposits EXCEPT ![<<id, a>>] = Deposited(id, a) + amount]

----------------------------------------------------------------------------
SubmitProposal(a, expedited, content, amount) ==
    LET p == [status |-> "deposit", expedited |-> expedited, proposer |-> a,
              content |-> content, total |-> 0, depositEnd |-> time + Params.depositPeriod,
              votingStart |-> NoTime, votingEnd |-> NoTime]
    IN  /\ walk = Idle /\ nextId \in Ids /\ time <= LastSubmit
        /\ InitialDepositSuffices(amount, expedited)
        /\ AddDeposit(nextId, p, a, amount)
        /\ nextId' = nextId + 1
        /\ UNCHANGED <<time, params, votes, burned, walk>>

Deposit(id, a, amount) ==
    /\ walk = Idle /\ proposals[id] # NoProposal /\ amount > 0
    /\ AddDeposit(id, proposals[id], a, amount)
    /\ UNCHANGED <<time, params, nextId, votes, burned, walk>>

\* The end of the voting period is not looked at.
Vote(id, a, ballot) ==
    /\ walk = Idle /\ id \in voting
    /\ votes' = [votes EXCEPT ![<<id, a>>] = ballot]
    /\ UNCHANGED <<time, params, nextId, proposals, inactive, active, voting, deposits,
                   bank, module, burned, walk>>

\* deleteVotes does nothing yet.
CancelProposal(id, a) ==
    LET p == proposals[id]
    IN  /\ walk = Idle /\ Live(p) /\ p.proposer = a
        /\ p.votingEnd # NoTime => p.votingEnd >= time
        /\ ChargeDeposit(id)
        /\ DeleteProposal(id)
        /\ UNCHANGED <<time, params, nextId, votes, walk>>

----------------------------------------------------------------------------
Voters(id) == {a \in Accounts : votes[<<id, a>>] # NoVote}
Power(shares, w) == shares * (Tokens[w] \div Shares[w])

\* Mutant: the validator's own stake is not deducted.
DeductedOthers(id, w) == SumFunction([a \in Voters(id) \ {w} |-> Stake[<<a, w>>]])

Deducted(id, w) == SumFunction([a \in Voters(id) |-> Stake[<<a, w>>]])

\* Tally's two passes, for the parts that a ballot gives by f: the stakes of the
\* voters, then what is left to the validators that vote.
TallyOf(id, f) ==
    SumFunction([v \in Voters(id) \X Validators |-> Power(Stake[v], v[2]) * f[votes[<<id, v[1]>>]]])
    + SumFunction([w \in Validators \cap Voters(id) |->
                      Power(Shares[w] - Deducted(id, w), w) * f[votes[<<id, w>>]]])

Result(id, o) == TallyOf(id, [b \in Ballots |-> b[o]])
TotalVotingPower(id) == TallyOf(id, [b \in Ballots |-> Parts])
TotalBonded == SumFunction(Tokens)

\* What Tally returns of a proposal: whether it passes and its deposits burn.
Tally(id) ==
    LET total == TotalVotingPower(id)
        rest == total - Result(id, "abstain")
        threshold == IF proposals[id].expedited THEN Params.expeditedThreshold ELSE Params.threshold
        fails(burn) == [passes |-> FALSE, burn |-> burn]
    IN  IF TotalBonded = 0 THEN fails(FALSE)
        ELSE IF 100 * total < Params.quorum * TotalBonded * Parts THEN fails(Params.burnVoteQuorum)
        ELSE IF rest = 0 THEN fails(FALSE)
        ELSE IF 100 * Result(id, "veto") > Params.vetoThreshold * total THEN fails(Params.burnVoteVeto)
        ELSE IF 100 * Result(id, "yes") > threshold * rest THEN [passes |-> TRUE, burn |-> FALSE]
        ELSE fails(FALSE)

----------------------------------------------------------------------------
Due(queue) == {e \in queue : e[1] <= time}

\* The entry that the iterator is at.
AtEntry(e) ==
    /\ e \in walk.ahead
    /\ \A f \in walk.ahead : e[1] < f[1] \/ (e[1] = f[1] /\ e[2] <= f[2])

Passed(queue, e) == walk' = [queue |-> queue, ahead |-> walk.ahead \ {e}]

\* EndBlocker begins with the proposals that got no voting period in time.
EndBlocker ==
    /\ walk = Idle
    /\ walk' = [queue |-> "inactive", ahead |-> Due(inactive)]
    /\ UNCHANGED <<time, params, stores>>

DropInactive(e) ==
    LET id == e[2]
    IN  /\ walk.queue = "inactive" /\ AtEntry(e) /\ proposals[id] # NoProposal
        /\ DeleteProposal(id)
        /\ IF Params.burnPrevote THEN DeleteAndBurnDeposits(id) ELSE RefundAndDeleteDeposits(id)
        /\ Passed("inactive", e)
        /\ UNCHANGED <<time, params, nextId, votes>>

WalkActive ==
    /\ walk.queue = "inactive" /\ walk.ahead = {}
    /\ walk' = [queue |-> "active", ahead |-> Due(active)]
    /\ UNCHANGED <<time, params, stores>>

\* Mutant: the deposits of every proposal that is tallied are settled.
SettleAll(id, tally) ==
    IF tally.burn THEN DeleteAndBurnDeposits(id) ELSE RefundAndDeleteDeposits(id)

\* The deposits stay when an expedited proposal goes on as a regular one.
SettleDeposits(id, tally) ==
    IF proposals[id].expedited /\ ~ tally.passes THEN UNCHANGED <<bank, module, deposits, burned>>
    ELSE IF tally.burn THEN DeleteAndBurnDeposits(id)
    ELSE RefundAndDeleteDeposits(id)

\* Mutant: a proposal stays expedited.
ConvertedExpedited(p, end) == [p EXCEPT !.votingEnd = end]

\* An expedited proposal that fails becomes a regular one.
Converted(p, end) == [p EXCEPT !.expedited = FALSE, !.votingEnd = end]

\* The messages of a proposal that passes are handled in a branch that is written
\* when all succeed; the period of a regular vote is that of the new parameters.
TallyActive(e) ==
    LET id == e[2]
        p == proposals[id]
        tally == Tally(id)
        regularEnd == p.votingStart + Params.votingPeriod
        left == active \ {<<p.votingEnd, id>>}
    IN  /\ walk.queue = "active" /\ AtEntry(e) /\ p # NoProposal
        /\ SettleDeposits(id, tally)
        /\ votes' = WithoutVotes(id)
        /\ IF tally.passes
           THEN /\ params' = IF p.content \in DOMAIN ParamSets THEN p.content ELSE params
                /\ SetProposal(id, [p EXCEPT !.status = IF p.content = "fails" THEN "failed" ELSE "passed"])
                /\ active' = left
           ELSE /\ UNCHANGED params
                /\ IF p.expedited
                   THEN /\ SetProposal(id, Converted(p, regularEnd))
                        /\ active' = left \cup {<<regularEnd, id>>}
                   ELSE /\ SetProposal(id, [p EXCEPT !.status = "rejected"])
                        /\ active' = left
        /\ Passed("active", e)
        /\ UNCHANGED <<time, nextId, inactive>>

\* The last block may be repeated.
NextBlock ==
    /\ walk.queue = "active" /\ walk.ahead = {}
    /\ walk' = Idle
    /\ time' \in {Min({time + d, MaxTime}) : d \in 1 .. 2}
    /\ UNCHANGED <<params, stores>>

Blocks ==
    \/ EndBlocker \/ WalkActive \/ NextBlock
    \/ \E e \in walk.ahead : DropInactive(e) \/ TallyActive(e)

Txs ==
    \/ \E s \in Submissions : SubmitProposal(s[1], s[2], s[3], s[4])
    \/ \E id \in Ids, a \in Accounts :
          \/ \E amount \in Amounts : Deposit(id, a, amount)
          \/ \E ballot \in Ballots : Vote(id, a, ballot)
          \/ CancelProposal(id, a)

Next == Txs \/ Blocks

\* Blocks keep being made.
Spec == Init /\ [][Next]_vars /\ WF_vars(Blocks)

----------------------------------------------------------------------------
\* The module holds the deposits, those of proposals that are still open only,
\* and no coin gets lost or made; a proposal's TotalDeposit is what it was given.
\* invariants.go: "checks that the module account coins reflects the sum of deposit
\* amounts held on store".
DepositsBacked ==
    /\ module = SumFunction([id \in Ids |-> Total(id)])
    /\ module + burned + SumFunction(bank) = Balance * Cardinality(Accounts)
    /\ \A id \in Ids : IF Live(proposals[id]) THEN Total(id) = proposals[id].total
                        ELSE \A a \in Accounts : deposits[<<id, a>>] = NoDeposit

\* An open proposal is in exactly the queue of its period, at its end, and in the
\* index by which votes are let in; no other is in any, so that EndBlocker finds
\* the proposal of each entry.
QueuesMatch ==
    /\ inactive = {<<proposals[id].depositEnd, id>> :
          id \in {i \in Ids : Live(proposals[i]) /\ proposals[i].status = "deposit"}}
    /\ active = {<<proposals[id].votingEnd, id>> : id \in voting}
    /\ voting = {id \in Ids : Live(proposals[id]) /\ proposals[id].status = "voting"}

\* README: "If a delegator does not vote, it will inherit its validator vote."  Each
\* stake counts once, by its owner's ballot if there is one.
TallyInherits ==
    LET ballot(id, s) == IF s[1] \in Voters(id) THEN votes[<<id, s[1]>>] ELSE votes[<<id, s[2]>>]
        counted(id) == {s \in Accounts \X Validators : s[1] \in Voters(id) \/ s[2] \in Voters(id)}
    IN  walk.queue = "active" =>
          \A e \in walk.ahead, o \in Options : LET id == e[2] IN
            Result(id, o) =
              SumFunction([s \in counted(id) |-> Power(Stake[s], s[2]) * ballot(id, s)[o]])

\* A proposal is dropped, cancelled or decided in the end, an expedited one that
\* fails, too, whatever another proposal makes of the parameters (EndBlocker).
ProposalsEnd == \A id \in Ids : Live(proposals[id]) ~> ~ Live(proposals[id])
=============================================================================

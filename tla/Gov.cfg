SPECIFICATION Spec
CONSTANTS
    val = val
    del = del
    Accounts = {val, del}
    Validators = {val}
    Stake <- MCStake
    Tokens <- MCTokens
    ParamSets <- MCParams
    Submissions <- MCSubmissions
    Ballots <- MCBallots
    Parts = 2
    Amounts = {2}
    Balance = 3
    MaxId = 2
    MaxTime = 6
    LastSubmit = 1
    NoProposal = NoProposal
    NoTime = NoTime
    NoDeposit = NoDeposit
    NoVote = NoVote
INVARIANTS DepositsBacked QueuesMatch TallyInherits
PROPERTY ProposalsEnd

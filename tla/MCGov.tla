-------------------------------- MODULE MCGov -------------------------------
\* Bounds for TLC: a validator and a delegator, and parameters that differ in the
\* periods and in what happens to the deposits.
EXTENDS Gov

CONSTANTS val, del

MCStake == [k \in Accounts \X Validators |-> IF k[1] = k[2] THEN 1 ELSE 2]
MCTokens == [w \in Validators |-> 3]
vote(yes, abstain, veto) ==
    [o \in Options |-> CASE o = "yes" -> yes [] o = "abstain" -> abstain
                       [] o = "veto" -> veto [] OTHER -> 0]
MCBallots == {vote(2, 0, 0), vote(0, 1, 1)}
MCSubmissions ==
    {<<del, FALSE, "fails", 1>>, <<val, TRUE, "q", 3>>}
MCParams ==
    [n \in {"p", "q"} |->
       [minDeposit |-> 2, expeditedMinDeposit |-> 3,
        depositPeriod |-> 1, votingPeriod |-> IF n = "p" THEN 2 ELSE 3,
        expeditedVotingPeriod |-> 1, initialRatio |-> IF n = "p" THEN 25 ELSE 0,
        cancelRatio |-> 50, cancelDest |-> IF n = "p" THEN "none" ELSE val,
        quorum |-> 50, threshold |-> 50, expeditedThreshold |-> 67, vetoThreshold |-> 33,
        burnPrevote |-> n = "q", burnVoteQuorum |-> n = "p", burnVoteVeto |-> TRUE]]
=============================================================================

------------------------------ MODULE MCGrants ------------------------------
\* Bounds for TLC: a basic and a periodic allowance, limited in total, that
\* expire one after the other.
EXTENDS Grants

CONSTANTS alice, bob, atom

coin(n) == [x \in Denoms |-> n]

basic(limit, exp, msgs) == [limit |-> limit, exp |-> exp, msgs |-> msgs, periodic |-> FALSE]
periodic(limit, exp, msgs, period, periodLimit, canSpend, reset) ==
    [limit |-> limit, exp |-> exp, msgs |-> msgs, periodic |-> TRUE, period |-> period,
     periodLimit |-> periodLimit, canSpend |-> canSpend, reset |-> reset]

MCPairs == {<<alice, bob>>}
MCAllowances ==
    { basic(coin(2), 2, {"send"}),
      periodic(coin(4), 3, MsgTypes, 1, coin(2), coin(0), 2) }
MCFees == {coin(n) : n \in 0 .. 2}
MCExps == {2, 3, Never}
=============================================================================

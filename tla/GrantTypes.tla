----------------------------- MODULE GrantTypes -----------------------------
\* What fee allowances and authorizations share: who grants to whom, and the
\* time of the current block.
EXTENDS Integers, Sequences, FiniteSets

CONSTANTS
    Pairs,                    \* of a granter and a grantee
    NoLimit, Never, NoGrant

VARIABLE time
=============================================================================

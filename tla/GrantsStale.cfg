SPECIFICATION Spec
CONSTANTS
    alice = alice
    bob = bob
    atom = atom
    Pairs <- MCPairs
    Denoms = {atom}
    Allowances <- MCAllowances
    Fees <- MCFees
    MsgTypes = {"send"}
    Types = {"send", "revoke"}
    Limits = {2}
    Amounts = {1, 2}
    AuthExps <- MCExps
    NoLimit = NoLimit
    Never = Never
    NoGrant = NoGrant
    NoItem = NoItem
    NoExec = NoExec
    NoMsg = NoMsg
    MaxMsgs = 2
    MaxTime = 4
PROPERTY PrunesExpiredOnly
CHECK_DEADLOCK FALSE

------------------------------- MODULE Authz --------------------------------
(***************************************************************************)
(* x/authz: grants by which an account lets another one sign messages of a *)
(* type for it, the queue by which BeginBlock prunes them, and MsgExec,    *)
(* which handles messages one after the other and takes all of them back   *)
(* when one fails.  Nothing else runs in between.                          *)
(***************************************************************************)
EXTENDS GrantTypes

CONSTANTS
    Types,        \* of messages; "send" has a SendAuthorization, the others a generic one
    Limits,       \* of a SendAuthorization
    Amounts,      \* of a send
    AuthExps,     \* expirations, Never among them
    NoItem, NoExec, NoMsg,
    MaxMsgs       \* of one MsgExec

VARIABLES
    grants,    \* the grant of each pair and type
    items,     \* the queue: the types that expire, for each time and pair
    exec,      \* the MsgExec that is running
    sent       \* the amount sent under each grant, for the properties

authzState == <<grants, items, exec, sent>>

Accounts == {p[1] : p \in Pairs} \cup {p[2] : p \in Pairs}
Keys == Pairs \X Types
Times == AuthExps \ {Never}
LimitsOf(t) == IF t = "send" THEN Limits ELSE {NoLimit}

ASSUME AuthzAssumption ==
    /\ AuthExps \ {Never} \subseteq Nat
    /\ Limits \subseteq Nat \ {0} /\ Amounts \subseteq Nat
    /\ NoLimit \notin Nat /\ Never \notin Nat
    /\ NoGrant \notin [exp : AuthExps, limit : Nat \cup {NoLimit}, given : Nat \cup {NoLimit}]
    /\ NoItem \notin Seq(Types)

AuthzInit ==
    /\ grants = [k \in Keys |-> NoGrant]
    /\ items = [q \in Times \X Pairs |-> NoItem]
    /\ exec = NoExec /\ sent = [k \in Keys |-> 0]

----------------------------------------------------------------------------
\* The type is replaced by the last one, which is cut off.
SwapRemove(s, t) ==
    IF \E i \in DOMAIN s : s[i] = t
    THEN LET i == CHOOSE j \in DOMAIN s : s[j] = t /\ \A h \in 1 .. j - 1 : s[h] # t
         IN  SubSeq([s EXCEPT ![i] = s[Len(s)]], 1, Len(s) - 1)
    ELSE s

removeFromGrantQueue(its, k, e) ==
    [its EXCEPT ![<<e, k[1]>>] = SwapRemove(@, k[2])]

insertIntoGrantQueue(its, k, e) ==
    [its EXCEPT ![<<e, k[1]>>] = IF @ = NoItem THEN <<k[2]>> ELSE Append(@, k[2])]

\* removeFromGrantQueue finds the item, if one is asked for.
Queued(k, e) == e # Never => items[<<e, k[1]>>] # NoItem

\* Mutant: an entry of the old time stays.
SaveGrantKeepsOld(k, exp, limit) ==
    LET old == IF grants[k] = NoGrant THEN Never ELSE grants[k].exp
    IN  /\ exp # Never => exp > time
        /\ items' = IF exp = Never \/ exp = old THEN items
                    ELSE insertIntoGrantQueue(items, k, exp)
        /\ grants' = [grants EXCEPT ![k] = [exp |-> exp, limit |-> limit, given |-> limit]]
        /\ sent' = [sent EXCEPT ![k] = 0]

\* SaveGrant: the queue follows when the expiration changes.
SaveGrant(k, exp, limit) ==
    LET old == IF grants[k] = NoGrant THEN Never ELSE grants[k].exp
        left == IF old = Never \/ exp = old THEN items
                ELSE removeFromGrantQueue(items, k, old)
    IN  /\ exp # Never => exp > time
        /\ exp # old => Queued(k, old)
        /\ items' = IF exp = Never \/ exp = old THEN left
                    ELSE insertIntoGrantQueue(left, k, exp)
        /\ grants' = [grants EXCEPT ![k] = [exp |-> exp, limit |-> limit, given |-> limit]]
        /\ sent' = [sent EXCEPT ![k] = 0]

DeleteGrant(k) ==
    /\ grants[k] # NoGrant /\ Queued(k, grants[k].exp)
    /\ items' = IF grants[k].exp = Never THEN items
                ELSE removeFromGrantQueue(items, k, grants[k].exp)
    /\ grants' = [grants EXCEPT ![k] = NoGrant]

\* Mutant: the authorization is left as it was.
UpdateNot(k, amount) == UNCHANGED <<grants, items>>

\* update: the expiration stays.
Update(k, amount) ==
    /\ grants' = [grants EXCEPT ![k].limit = @ - amount]
    /\ UNCHANGED items

----------------------------------------------------------------------------
\* A message: its type and its signer; amount for a send; for a Grant or a
\* Revoke the grant it is about.
Messages ==
    [type : {"send"}, signer : Accounts, amount : Amounts]
    \cup
    {[type |-> "revoke", signer |-> k[1][1], key |-> k] : k \in Keys}
    \cup
    {[type |-> "grant", signer |-> g[1][1][1], key |-> g[1], exp |-> g[2], limit |-> g[3]] :
        g \in {h \in Keys \X AuthExps \X (Limits \cup {NoLimit}) : h[3] \in LimitsOf(h[1][2])}}

\* The grant that DispatchActions looks for.
KeyOf(m, grantee) == <<<<m.signer, grantee>>, m.type>>

MsgGrant(k, exp, limit) ==
    /\ exec = NoExec /\ limit \in LimitsOf(k[2])
    /\ SaveGrant(k, exp, limit)
    /\ UNCHANGED <<time, exec>>

MsgRevoke(k) ==
    /\ exec = NoExec /\ DeleteGrant(k)
    /\ UNCHANGED <<time, exec, sent>>

MsgExec(grantee) ==
    /\ exec = NoExec
    /\ exec' = [grantee |-> grantee, msg |-> NoMsg, handled |-> 0,
                before |-> <<grants, items, sent>>]
    /\ UNCHANGED <<time, grants, items, sent>>

\* One turn of DispatchActions, up to the message's handler.
Authorize(m) ==
    LET k == KeyOf(m, exec.grantee)
    IN  /\ exec # NoExec /\ exec.msg = NoMsg /\ exec.handled < MaxMsgs
        /\ exec' = [exec EXCEPT !.msg = m]
        /\ IF m.signer = exec.grantee THEN UNCHANGED <<grants, items, sent>>
           ELSE /\ k \in Keys /\ grants[k] # NoGrant
                /\ grants[k].exp # Never => grants[k].exp >= time
                /\ IF grants[k].limit = NoLimit THEN UNCHANGED <<grants, items, sent>>
                   ELSE /\ m.amount <= grants[k].limit
                        /\ sent' = [sent EXCEPT ![k] = @ + m.amount]
                        /\ IF m.amount = grants[k].limit THEN DeleteGrant(k)
                           ELSE Update(k, m.amount)
        /\ UNCHANGED time

Handled == exec' = [exec EXCEPT !.msg = NoMsg, !.handled = @ + 1]

\* The handlers of this module's own messages; those of others are in the
\* modules that compose.
Handle ==
    /\ exec # NoExec /\ exec.msg # NoMsg
    /\ Handled
    /\ \/ exec.msg.type = "send" /\ UNCHANGED <<grants, items, sent>>
       \/ exec.msg.type = "revoke" /\ DeleteGrant(exec.msg.key) /\ UNCHANGED sent
       \/ /\ exec.msg.type = "grant"
          /\ SaveGrant(exec.msg.key, exec.msg.exp, exec.msg.limit)
    /\ UNCHANGED time

EndExec ==
    /\ exec # NoExec /\ exec.msg = NoMsg /\ exec.handled > 0
    /\ exec' = NoExec
    /\ UNCHANGED <<time, grants, items, sent>>

\* A message is refused or its handler fails: the transaction leaves no trace.
FailExec ==
    /\ exec # NoExec
    /\ grants' = exec.before[1] /\ items' = exec.before[2] /\ sent' = exec.before[3]
    /\ exec' = NoExec
    /\ UNCHANGED time

\* The types that an item lists.
Listed(item) == IF item = NoItem THEN {} ELSE {item[i] : i \in DOMAIN item}

\* What the iterator of DequeueAndDeleteExpiredGrants ranges over.  Its end is the
\* key of this time and a zero byte, before all keys of this time.
DueItems(t) == {q \in DOMAIN items : q[1] < t /\ items[q] # NoItem}

\* BeginBlock of the next block.
BeginBlock ==
    /\ exec = NoExec
    /\ time' > time
    /\ items' = [q \in DOMAIN items |-> IF q \in DueItems(time') THEN NoItem ELSE items[q]]
    /\ grants' = [k \in Keys |->
                    IF \E q \in DueItems(time') : q[2] = k[1] /\ k[2] \in Listed(items[q])
                    THEN NoGrant ELSE grants[k]]
    /\ UNCHANGED <<exec, sent>>

AuthzTx ==
    \/ \E k \in Keys, exp \in AuthExps, limit \in Limits \cup {NoLimit} : MsgGrant(k, exp, limit)
    \/ \E k \in Keys : MsgRevoke(k)
    \/ \E m \in Messages : Authorize(m)
    \/ Handle \/ EndExec

----------------------------------------------------------------------------
QueueMatches(gs, its) ==
    \A q \in Times \X Pairs :
        /\ Listed(its[q]) =
             {t \in Types : gs[<<q[2], t>>] # NoGrant /\ gs[<<q[2], t>>].exp = q[1]}
        /\ its[q] # NoItem =>
             \A i, j \in DOMAIN its[q] : its[q][i] = its[q][j] => i = j

\* The queue names every grant that expires, once, at its expiration, and nothing
\* else: a grant can always be revoked, and is pruned when it has expired.
QueueExact == QueueMatches(grants, items)

\* What was sent under a SendAuthorization, however its MsgExecs ended, and what is
\* left of it make up the limit it was given.
SentWithinLimit ==
    \A k \in Keys : grants[k] # NoGrant /\ grants[k].limit # NoLimit =>
        grants[k].limit + sent[k] = grants[k].given

\* BeginBlock removes exactly the grants that have expired.
PrunesExactly ==
    [][BeginBlock => \A k \in Keys : grants[k] # NoGrant =>
          (grants'[k] = NoGrant <=> grants[k].exp # Never /\ grants[k].exp < time')
      ]_<<time, authzState>>
=============================================================================

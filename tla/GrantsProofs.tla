---------------------------- MODULE GrantsProofs ----------------------------
(***************************************************************************)
(* x/authz and x/feegrant in one application, for any accounts, message    *)
(* types, denominations, allowances, expirations and lengths of a MsgExec. *)
(* Three inductive invariants, each of the stores and of the copy that a   *)
(* failing MsgExec returns to: the queue of x/authz matches its grants;    *)
(* what was sent under a grant and what is left make up its limit; and the *)
(* same of the allowances, with the number of resets of a period and the   *)
(* queue of x/feegrant.                                                    *)
(***************************************************************************)
EXTENDS Grants, TLAPS

LimitOf(k) == IF k[2] = "send" THEN Nat \cup {NoLimit} ELSE {NoLimit}
GrantOf(k) == [exp : AuthExps, limit : LimitOf(k), given : LimitOf(k)]
Once(s) == \A i, j \in DOMAIN s : s[i] = s[j] => i = j

AnyGrant ==
    [exp : AuthExps, limit : Nat \cup {NoLimit}, given : Nat \cup {NoLimit}] \cup {NoGrant}

GrantsOK(gs) ==
    gs \in [Keys -> AnyGrant] /\ \A k \in Keys : gs[k] # NoGrant => gs[k] \in GrantOf(k)

ItemsOK(its) ==
    /\ its \in [Times \X Pairs -> Seq(Types) \cup {NoItem}]
    /\ \A q \in Times \X Pairs : its[q] # NoItem => Once(its[q])

Expiring(gs, q) ==
    {t \in Types : gs[<<q[2], t>>] # NoGrant /\ gs[<<q[2], t>>].exp = q[1]}

\* The stores of x/authz: their types, and that the queue matches.
Consistent(gs, its) ==
    /\ GrantsOK(gs)
    /\ ItemsOK(its)
    /\ \A q \in Times \X Pairs : Listed(its[q]) = Expiring(gs, q)

\* The running MsgExec has a message that the application knows, and returns to
\* consistent stores when it fails.
ExecOK ==
    exec # NoExec =>
        /\ exec = [grantee |-> exec.grantee, msg |-> exec.msg, handled |-> exec.handled,
                   before |-> exec.before]
        /\ exec.msg \in Messages \cup FeeMessages \cup {NoMsg}
        /\ Consistent(exec.before[1], exec.before[2])

IInv == Consistent(grants, items) /\ ExecOK

----------------------------------------------------------------------------
\* The messages that MsgExec handles, by their type.
LEMMA MessageTypes ==
    ASSUME NEW m \in Messages \cup FeeMessages
    PROVE  /\ m.type = "send" => m.amount \in Nat
           /\ m.type = "revoke" => m.key \in Keys
           /\ m.type = "grant" => /\ m.key \in Keys /\ m.exp \in AuthExps
                                  /\ m.limit \in LimitsOf(m.key[2])
           /\ m.type = "allow" => m.pair \in Pairs /\ m.allowance \in Allowances
           /\ m.type = "disallow" => m.pair \in Pairs
<1>1. CASE m \in [type : {"send"}, signer : Accounts, amount : Amounts]
  BY <1>1, AuthzAssumption
<1>2. CASE m \in {[type |-> "revoke", signer |-> k[1][1], key |-> k] : k \in Keys}
  BY <1>2
<1>3. CASE m \in {[type |-> "grant", signer |-> g[1][1][1], key |-> g[1], exp |-> g[2], limit |-> g[3]] :
              g \in {h \in Keys \X AuthExps \X (Limits \cup {NoLimit}) : h[3] \in LimitsOf(h[1][2])}}
  <2>1. PICK g \in {h \in Keys \X AuthExps \X (Limits \cup {NoLimit}) : h[3] \in LimitsOf(h[1][2])} :
          m = [type |-> "grant", signer |-> g[1][1][1], key |-> g[1], exp |-> g[2], limit |-> g[3]]
    BY <1>3
  <2>2. g[1] \in Keys /\ g[2] \in AuthExps /\ g[3] \in LimitsOf(g[1][2])
    OBVIOUS
  <2> QED
    BY <2>1, <2>2
<1>4. CASE m \in FeeMessages
  BY <1>4 DEF FeeMessages
<1> QED
  BY <1>1, <1>2, <1>3, <1>4, ZenonT(30) DEF Messages

\* removeFromGrantQueue's loop removes the type, and only it.
LEMMA SwapRemoveLists ==
    ASSUME NEW s \in Seq(Types), Once(s), NEW t \in Types
    PROVE  /\ SwapRemove(s, t) \in Seq(Types) /\ Once(SwapRemove(s, t))
           /\ Listed(SwapRemove(s, t)) = Listed(s) \ {t}
<1>0. \A r \in Seq(Types) : Listed(r) = {r[i] : i \in DOMAIN r}
  BY AuthzAssumption DEF Listed
<1>1. CASE ~ \E i \in DOMAIN s : s[i] = t
  BY <1>0, <1>1 DEF SwapRemove
<1>2. CASE \E i \in DOMAIN s : s[i] = t
  <2> DEFINE P(j) == j \in DOMAIN s /\ s[j] = t /\ \A h \in 1 .. j - 1 : s[h] # t
             i == CHOOSE j \in DOMAIN s : s[j] = t /\ \A h \in 1 .. j - 1 : s[h] # t
             r == SwapRemove(s, t)
             n == Len(s)
  <2>1. PICK j \in DOMAIN s : s[j] = t
    BY <1>2
  <2>2. P(j)
    BY <2>1 DEF Once
  <2>3. i \in DOMAIN s /\ s[i] = t
    BY <2>2
  <2> HIDE DEF i, P
  <2>4. r = SubSeq([s EXCEPT ![i] = s[n]], 1, n - 1)
    BY <1>2 DEF SwapRemove, i
  <2>5. n \in Nat /\ n > 0 /\ DOMAIN s = 1 .. n /\ s \in [1 .. n -> Types]
    BY <2>3
  <2>6. [s EXCEPT ![i] = s[n]] \in Seq(Types) /\ Len([s EXCEPT ![i] = s[n]]) = n
    BY <2>3, <2>5
  <2>7. /\ r \in Seq(Types) /\ DOMAIN r = 1 .. n - 1
        /\ \A h \in 1 .. n - 1 : r[h] = IF h = i THEN s[n] ELSE s[h]
    BY <2>4, <2>5, <2>6, <2>3
  <2> HIDE DEF r, n
  <2>8. Once(r)
    BY <2>3, <2>5, <2>7 DEF Once
  <2>9. {r[h] : h \in DOMAIN r} = {s[h] : h \in DOMAIN s} \ {t}
    <3>1. ASSUME NEW h \in 1 .. n - 1 PROVE \E g \in 1 .. n : r[h] = s[g] /\ s[g] # t
      BY <2>3, <2>5, <2>7 DEF Once
    <3>2. ASSUME NEW g \in 1 .. n, s[g] # t PROVE \E h \in 1 .. n - 1 : r[h] = s[g]
      <4>1. CASE g = n
        BY <2>3, <2>5, <2>7, <3>2, <4>1
      <4>2. CASE g # n
        BY <2>3, <2>5, <2>7, <3>2, <4>2
      <4> QED
        BY <4>1, <4>2
    <3>3. DOMAIN s = 1 .. n /\ DOMAIN r = 1 .. n - 1
      BY <2>5, <2>7
    <3>4. \A h \in DOMAIN r : r[h] # t /\ \E g \in DOMAIN s : r[h] = s[g]
      BY <3>1, <3>3, ZenonT(30)
    <3>5. \A g \in DOMAIN s : s[g] # t => \E h \in DOMAIN r : r[h] = s[g]
      BY <3>2, <3>3, ZenonT(30)
    <3>6. \A x : x \in {r[h] : h \in DOMAIN r} <=> x \in {s[h] : h \in DOMAIN s} \ {t}
      <4> TAKE x
      <4>1. x \in {r[h] : h \in DOMAIN r} <=> \E h \in DOMAIN r : x = r[h]
        BY Zenon
      <4>2. x \in {s[h] : h \in DOMAIN s} <=> \E h \in DOMAIN s : x = s[h]
        BY Zenon
      <4> QED
        BY <3>4, <3>5, <4>1, <4>2, SMTT(30)
    <3> QED
      BY <3>6, Zenon
  <2> QED
    BY <1>0, <2>7, <2>8, <2>9, ZenonT(30) DEF r
<1> QED
  BY <1>1, <1>2

\* insertIntoGrantQueue adds the type to those that are listed.
LEMMA AppendLists ==
    ASSUME NEW s \in Seq(Types) \cup {NoItem}, NEW t \in Types, t \notin Listed(s),
           s # NoItem => Once(s)
    PROVE  LET r == IF s = NoItem THEN <<t>> ELSE Append(s, t)
           IN  r \in Seq(Types) /\ Once(r) /\ Listed(r) = Listed(s) \cup {t}
<1>0. \A r \in Seq(Types) : Listed(r) = {r[i] : i \in DOMAIN r}
  BY AuthzAssumption DEF Listed
<1>1. CASE s = NoItem
  <2> DEFINE r == <<t>>
  <2>1. r \in Seq(Types) /\ DOMAIN r = {1} /\ r[1] = t
    OBVIOUS
  <2> HIDE DEF r
  <2>2. Listed(s) = {}
    BY <1>1 DEF Listed
  <2>3. Once(r) /\ {r[i] : i \in DOMAIN r} = {t}
    BY <2>1 DEF Once
  <2> QED
    BY <1>0, <1>1, <2>1, <2>2, <2>3, ZenonT(30) DEF r
<1>2. CASE s # NoItem
  <2> DEFINE r == Append(s, t)
             n == Len(s)
  <2>1. s \in Seq(Types) /\ n \in Nat /\ DOMAIN s = 1 .. n
    BY <1>2
  <2>2. /\ r \in Seq(Types) /\ DOMAIN r = 1 .. n + 1 /\ r[n + 1] = t
        /\ \A i \in 1 .. n : r[i] = s[i]
    BY <2>1
  <2>3. \A i \in 1 .. n : s[i] # t
    BY <1>0, <2>1
  <2> HIDE DEF r, n
  <2>4. Once(r)
    BY <1>2, <2>1, <2>2, <2>3 DEF Once
  <2>5. {r[i] : i \in 1 .. n + 1} = {s[i] : i \in 1 .. n} \cup {t}
    <3>1. \A i \in 1 .. n + 1 : i \in 1 .. n \/ i = n + 1
      BY <2>1
    <3>2. n + 1 \in 1 .. n + 1 /\ \A i \in 1 .. n : i \in 1 .. n + 1
      BY <2>1
    <3> QED
      BY <2>2, <3>1, <3>2
  <2> QED
    BY <1>0, <1>2, <2>1, <2>2, <2>4, <2>5, ZenonT(30) DEF r
<1> QED
  BY <1>1, <1>2
\* removeFromGrantQueue changes one item.
LEMMA RemoveItem ==
    ASSUME NEW its, ItemsOK(its), NEW k \in Keys, NEW e \in Times,
           its[<<e, k[1]>>] # NoItem
    PROVE  LET r == removeFromGrantQueue(its, k, e)
           IN  /\ ItemsOK(r)
               /\ \A q \in Times \X Pairs : q # <<e, k[1]>> => r[q] = its[q]
               /\ Listed(r[<<e, k[1]>>]) = Listed(its[<<e, k[1]>>]) \ {k[2]}
<1> DEFINE q0 == <<e, k[1]>>
           s == its[q0]
           r == removeFromGrantQueue(its, k, e)
<1>1. q0 \in Times \X Pairs /\ k[2] \in Types
  BY DEF Keys
<1>2. s \in Seq(Types) /\ Once(s)
  BY <1>1 DEF ItemsOK
<1>3. /\ SwapRemove(s, k[2]) \in Seq(Types) /\ Once(SwapRemove(s, k[2]))
      /\ Listed(SwapRemove(s, k[2])) = Listed(s) \ {k[2]}
  BY <1>1, <1>2, SwapRemoveLists, ZenonT(30)
<1>4. r = [its EXCEPT ![q0] = SwapRemove(s, k[2])]
  BY DEF removeFromGrantQueue
<1> HIDE DEF q0, r
<1>5. r[q0] = SwapRemove(s, k[2]) /\ \A q \in Times \X Pairs : q # q0 => r[q] = its[q]
  BY <1>1, <1>4 DEF ItemsOK
<1>6. r \in [Times \X Pairs -> Seq(Types) \cup {NoItem}]
  BY <1>1, <1>3, <1>4 DEF ItemsOK
<1>7. ItemsOK(r)
  BY <1>3, <1>5, <1>6 DEF ItemsOK
<1> QED
  BY <1>3, <1>5, <1>7 DEF q0, r

\* insertIntoGrantQueue changes one item.
LEMMA InsertItem ==
    ASSUME NEW its, ItemsOK(its), NEW k \in Keys, NEW e \in Times,
           k[2] \notin Listed(its[<<e, k[1]>>])
    PROVE  LET r == insertIntoGrantQueue(its, k, e)
           IN  /\ ItemsOK(r)
               /\ \A q \in Times \X Pairs : q # <<e, k[1]>> => r[q] = its[q]
               /\ Listed(r[<<e, k[1]>>]) = Listed(its[<<e, k[1]>>]) \cup {k[2]}
<1> DEFINE q0 == <<e, k[1]>>
           s == its[q0]
           new == IF s = NoItem THEN <<k[2]>> ELSE Append(s, k[2])
           r == insertIntoGrantQueue(its, k, e)
<1>1. q0 \in Times \X Pairs /\ k[2] \in Types
  BY DEF Keys
<1>2. s \in Seq(Types) \cup {NoItem} /\ (s # NoItem => Once(s))
  BY <1>1 DEF ItemsOK
<1>3. new \in Seq(Types) /\ Once(new) /\ Listed(new) = Listed(s) \cup {k[2]}
  BY <1>1, <1>2, AppendLists
<1>4. r = [its EXCEPT ![q0] = new]
  BY DEF insertIntoGrantQueue
<1> HIDE DEF q0, r, new
<1>5. r[q0] = new /\ \A q \in Times \X Pairs : q # q0 => r[q] = its[q]
  BY <1>1, <1>4 DEF ItemsOK
<1>6. r \in [Times \X Pairs -> Seq(Types) \cup {NoItem}]
  BY <1>1, <1>3, <1>4 DEF ItemsOK
<1>7. ItemsOK(r)
  BY <1>3, <1>5, <1>6 DEF ItemsOK
<1> QED
  BY <1>3, <1>5, <1>7 DEF q0, r
\* What one grant contributes to the queue.
LEMMA ExpiringOne ==
    ASSUME GrantsOK(grants), NEW k \in Keys, grants' = [grants EXCEPT ![k] = grants'[k]],
           NEW q \in Times \X Pairs
    PROVE  \A t \in Types : t \in Expiring(grants', q) <=>
             IF q[2] = k[1] /\ t = k[2] THEN grants'[k] # NoGrant /\ grants'[k].exp = q[1]
             ELSE t \in Expiring(grants, q)
<1> TAKE t \in Types
<1>1. k = <<k[1], k[2]>> /\ <<q[2], t>> \in Keys
  BY DEF Keys
<1>2. <<q[2], t>> = k <=> q[2] = k[1] /\ t = k[2]
  BY <1>1
<1>3. <<q[2], t>> # k => grants'[<<q[2], t>>] = grants[<<q[2], t>>]
  BY <1>1 DEF GrantsOK
<1> QED
  BY <1>2, <1>3 DEF Expiring

\* A grant that expires is listed at its expiration: it can be taken from the
\* queue.
LEMMA ListedAtExpiration ==
    ASSUME NEW gs, NEW its, Consistent(gs, its), NEW k \in Keys,
           gs[k] # NoGrant, gs[k].exp # Never
    PROVE  /\ gs[k].exp \in Times /\ <<gs[k].exp, k[1]>> \in Times \X Pairs
           /\ k[2] \in Listed(its[<<gs[k].exp, k[1]>>])
           /\ its[<<gs[k].exp, k[1]>>] # NoItem
<1>1. gs[k].exp \in AuthExps
  BY DEF Consistent, GrantsOK, GrantOf
<1>2. gs[k].exp \in Times /\ <<gs[k].exp, k[1]>> \in Times \X Pairs
  BY <1>1 DEF Times, Keys
<1>3. k = <<k[1], k[2]>> /\ k[2] \in Types
  BY DEF Keys
<1>4. k[2] \in Expiring(gs, <<gs[k].exp, k[1]>>)
  BY <1>3 DEF Expiring
<1>5. k[2] \in Listed(its[<<gs[k].exp, k[1]>>])
  BY <1>2, <1>4 DEF Consistent
<1> QED
  BY <1>2, <1>5 DEF Listed

\* Writing one grant keeps the types.
LEMMA PutGrant ==
    ASSUME NEW gs, GrantsOK(gs), NEW k \in Keys, NEW v \in GrantOf(k) \cup {NoGrant}
    PROVE  GrantsOK([gs EXCEPT ![k] = v])
<1> DEFINE new == [gs EXCEPT ![k] = v]
<1>1. v \in AnyGrant
  BY DEF AnyGrant, GrantOf, LimitOf
<1>2. new \in [Keys -> AnyGrant] /\ \A j \in Keys : new[j] = IF j = k THEN v ELSE gs[j]
  BY <1>1 DEF GrantsOK
<1> HIDE DEF new
<1> QED
  BY <1>2 DEF GrantsOK, new

LEMMA ExpiringTypes == ASSUME NEW gs, NEW q PROVE Expiring(gs, q) \subseteq Types
  BY DEF Expiring

\* An item of another time, or of another pair, does not list the grant.
LEMMA ListedOnce ==
    ASSUME NEW gs, NEW its, Consistent(gs, its), NEW k \in Keys, NEW q \in Times \X Pairs,
           gs[k] = NoGrant \/ gs[k].exp # q[1], q[2] = k[1]
    PROVE  k[2] \notin Expiring(gs, q)
<1>1. k = <<q[2], k[2]>>
  BY DEF Keys
<1> QED
  BY <1>1 DEF Expiring

LEMMA DeleteConsistent ==
    ASSUME Consistent(grants, items), NEW k \in Keys, DeleteGrant(k)
    PROVE  Consistent(grants', items')
<1> DEFINE e == grants[k].exp
<1>1. GrantsOK(grants) /\ grants' = [grants EXCEPT ![k] = NoGrant] /\ grants[k] # NoGrant
  BY DEF Consistent, DeleteGrant
<1>2. GrantsOK(grants') /\ grants'[k] = NoGrant
  BY <1>1, PutGrant DEF GrantsOK
<1>3. ASSUME NEW q \in Times \X Pairs
      PROVE  Expiring(grants', q) =
               IF q[2] # k[1] THEN Expiring(grants, q) ELSE Expiring(grants, q) \ {k[2]}
  <2>1. ASSUME NEW t \in Types
        PROVE  t \in Expiring(grants', q) <=>
                 ~ (q[2] = k[1] /\ t = k[2]) /\ t \in Expiring(grants, q)
    BY <1>1, <1>2, <1>3, ExpiringOne, ZenonT(30)
  <2> QED
    BY <2>1, ExpiringTypes, ZenonT(30)
<1>4. CASE e = Never
  <2>1. items' = items
    BY <1>4 DEF DeleteGrant
  <2>2. ASSUME NEW q \in Times \X Pairs PROVE Expiring(grants', q) = Expiring(grants, q)
    <3>1. q[1] # Never
      BY DEF Times
    <3>2. q[2] = k[1] => k[2] \notin Expiring(grants, q)
      BY <1>4, <3>1, ListedOnce
    <3> QED
      BY <1>3, <3>2
  <2> QED
    BY <1>2, <2>1, <2>2 DEF Consistent
<1>5. CASE e # Never
  <2>1. items' = removeFromGrantQueue(items, k, e)
    BY <1>5 DEF DeleteGrant
  <2>2. /\ e \in Times /\ <<e, k[1]>> \in Times \X Pairs /\ items[<<e, k[1]>>] # NoItem
    BY <1>1, <1>5, ListedAtExpiration
  <2>3. /\ ItemsOK(items')
        /\ \A q \in Times \X Pairs : q # <<e, k[1]>> => items'[q] = items[q]
        /\ Listed(items'[<<e, k[1]>>]) = Listed(items[<<e, k[1]>>]) \ {k[2]}
    BY <2>1, <2>2, RemoveItem DEF Consistent
  <2>4. ASSUME NEW q \in Times \X Pairs PROVE Listed(items'[q]) = Expiring(grants', q)
    <3>1. CASE q = <<e, k[1]>>
      BY <1>3, <2>2, <2>3, <3>1, SMTT(30) DEF Consistent
    <3>2. CASE q # <<e, k[1]>>
      <4>1. q[2] = k[1] => q[1] # e
        BY <3>2
      <4>2. Expiring(grants', q) = Expiring(grants, q)
        BY <1>3, <4>1, ListedOnce
      <4> QED
        BY <2>3, <3>2, <4>2 DEF Consistent
    <3> QED
      BY <3>1, <3>2
  <2> QED
    BY <1>2, <2>3, <2>4 DEF Consistent
<1> QED
  BY <1>4, <1>5

LEMMA SaveConsistent ==
    ASSUME Consistent(grants, items), NEW k \in Keys, NEW exp \in AuthExps,
           NEW limit \in LimitsOf(k[2]), SaveGrant(k, exp, limit)
    PROVE  Consistent(grants', items')
<1> DEFINE v == [exp |-> exp, limit |-> limit, given |-> limit]
           old == IF grants[k] = NoGrant THEN Never ELSE grants[k].exp
           left == IF old = Never \/ exp = old THEN items
                   ELSE removeFromGrantQueue(items, k, old)
<1>1. GrantsOK(grants) /\ grants' = [grants EXCEPT ![k] = v]
  BY DEF Consistent, SaveGrant
<1>2. v \in GrantOf(k) /\ v # NoGrant /\ v.exp = exp
  <2>1. limit \in LimitOf(k) /\ limit \in Nat \cup {NoLimit}
    BY AuthzAssumption DEF LimitsOf, LimitOf
  <2> QED
    BY <2>1, AuthzAssumption DEF GrantOf
<1>3. GrantsOK(grants') /\ grants'[k] = v
  BY <1>1, <1>2, PutGrant DEF GrantsOK
<1>4. items' = IF exp = Never \/ exp = old THEN left ELSE insertIntoGrantQueue(left, k, exp)
  BY ZenonT(30) DEF SaveGrant
<1> HIDE DEF v
<1>5. ASSUME NEW q \in Times \X Pairs
      PROVE  Expiring(grants', q) =
               IF q[2] # k[1] THEN Expiring(grants, q)
               ELSE IF exp = q[1] THEN Expiring(grants, q) \cup {k[2]}
               ELSE Expiring(grants, q) \ {k[2]}
  <2>1. ASSUME NEW t \in Types
        PROVE  t \in Expiring(grants', q) <=>
                 IF q[2] = k[1] /\ t = k[2] THEN exp = q[1] ELSE t \in Expiring(grants, q)
    BY <1>1, <1>2, <1>3, ExpiringOne, ZenonT(30)
  <2>2. k[2] \in Types
    BY DEF Keys
  <2> QED
    BY <2>1, <2>2, ExpiringTypes, ZenonT(30)
<1> HIDE DEF left
\* Once the old time is out of the queue, the grant is listed at most at exp.
<1>6. /\ ItemsOK(left)
      /\ \A q \in Times \X Pairs :
            Listed(left[q]) = IF q[2] = k[1] /\ q[1] # exp THEN Expiring(grants, q) \ {k[2]}
                              ELSE Expiring(grants, q)
  <2>1. CASE old = Never \/ exp = old
    <3>1. left = items
      BY <2>1 DEF left
    <3>2. ASSUME NEW q \in Times \X Pairs, q[2] = k[1], q[1] # exp
          PROVE  k[2] \notin Expiring(grants, q)
      <4>1. grants[k] = NoGrant \/ grants[k].exp # q[1]
        BY <2>1, <3>2 DEF Times
      <4> QED
        BY <3>2, <4>1, ListedOnce, ZenonT(30)
    <3> QED
      BY <3>1, <3>2 DEF Consistent
  <2>2. CASE ~ (old = Never \/ exp = old)
    <3>1. left = removeFromGrantQueue(items, k, old) /\ grants[k] # NoGrant /\ grants[k].exp = old
      BY <2>2 DEF left
    <3>2. /\ old \in Times /\ <<old, k[1]>> \in Times \X Pairs /\ items[<<old, k[1]>>] # NoItem
      BY <2>2, <3>1, ListedAtExpiration, ZenonT(30)
    <3> HIDE DEF old
    <3>3. /\ ItemsOK(left)
          /\ \A q \in Times \X Pairs : q # <<old, k[1]>> => left[q] = items[q]
          /\ Listed(left[<<old, k[1]>>]) = Listed(items[<<old, k[1]>>]) \ {k[2]}
      BY <3>1, <3>2, RemoveItem DEF Consistent
    <3>4. ASSUME NEW q \in Times \X Pairs, q # <<old, k[1]>>, q[2] = k[1]
          PROVE  k[2] \notin Expiring(grants, q)
      <4>1. grants[k].exp # q[1]
        BY <3>1, <3>4
      <4> QED
        BY <3>4, <4>1, ListedOnce
    <3>5. ASSUME NEW q \in Times \X Pairs
          PROVE  Listed(left[q]) = IF q[2] = k[1] /\ q[1] # exp THEN Expiring(grants, q) \ {k[2]}
                                   ELSE Expiring(grants, q)
      <4>1. CASE q = <<old, k[1]>>
        BY <2>2, <3>2, <3>3, <4>1, SMTT(30) DEF Consistent
      <4>2. CASE q # <<old, k[1]>>
        BY <3>3, <3>4, <4>2, SMTT(30) DEF Consistent
      <4> QED
        BY <4>1, <4>2
    <3> QED
      BY <3>3, <3>5
  <2> QED
    BY <2>1, <2>2
<1>7. CASE exp = Never
  <2>1. \A q \in Times \X Pairs : q[1] # exp
    BY <1>7 DEF Times
  <2>2. \A q \in Times \X Pairs : Listed(items'[q]) = Expiring(grants', q)
    BY <1>4, <1>5, <1>6, <1>7, <2>1, ZenonT(30)
  <2> QED
    BY <1>3, <1>4, <1>6, <1>7, <2>2 DEF Consistent
<1>8. CASE exp # Never /\ exp = old
  <2>1. grants[k] # NoGrant /\ grants[k].exp = exp
    BY <1>8
  <2> HIDE DEF old
  <2>2. ASSUME NEW q \in Times \X Pairs, q[2] = k[1], q[1] = exp
        PROVE  k[2] \in Expiring(grants, q)
    <3>1. q = <<grants[k].exp, k[1]>>
      BY <2>1, <2>2
    <3> QED
      BY <1>8, <2>1, <3>1, ListedAtExpiration DEF Consistent
  <2>3. ASSUME NEW q \in Times \X Pairs PROVE Listed(items'[q]) = Expiring(grants', q)
    <3>1. items' = left
      BY <1>4, <1>8
    <3>2. CASE q[2] = k[1] /\ q[1] = exp
      <4>1. Expiring(grants', q) = Expiring(grants, q) \cup {k[2]}
        BY <1>5, <3>2
      <4>2. Expiring(grants', q) = Expiring(grants, q)
        BY <2>2, <3>2, <4>1
      <4> QED
        BY <1>6, <3>1, <3>2, <4>2, ZenonT(30)
    <3>3. CASE ~ (q[2] = k[1] /\ q[1] = exp)
      BY <1>5, <1>6, <3>1, <3>3, ZenonT(30)
    <3> QED
      BY <3>2, <3>3
  <2> QED
    BY <1>3, <1>4, <1>6, <1>8, <2>3 DEF Consistent
<1>9. CASE exp # Never /\ exp # old
  <2>1. exp \in Times /\ <<exp, k[1]>> \in Times \X Pairs
    BY <1>9 DEF Times, Keys
  <2>2. grants[k] = NoGrant \/ grants[k].exp # exp
    BY <1>9
  <2> HIDE DEF old
  <2>3. k[2] \notin Expiring(grants, <<exp, k[1]>>)
    BY <2>1, <2>2, ListedOnce
  <2>4. k[2] \notin Listed(left[<<exp, k[1]>>])
    BY <1>6, <2>1, <2>3
  <2>5. items' = insertIntoGrantQueue(left, k, exp)
    BY <1>4, <1>9
  <2>6. /\ ItemsOK(items')
        /\ \A q \in Times \X Pairs : q # <<exp, k[1]>> => items'[q] = left[q]
        /\ Listed(items'[<<exp, k[1]>>]) = Listed(left[<<exp, k[1]>>]) \cup {k[2]}
    BY <1>6, <2>1, <2>4, <2>5, InsertItem
  <2>7. ASSUME NEW q \in Times \X Pairs PROVE Listed(items'[q]) = Expiring(grants', q)
    <3>1. CASE q = <<exp, k[1]>>
      BY <1>5, <1>6, <2>1, <2>6, <3>1, ZenonT(30)
    <3>2. CASE q # <<exp, k[1]>>
      <4>1. q[2] = k[1] => q[1] # exp
        BY <3>2
      <4> QED
        BY <1>5, <1>6, <2>6, <3>2, <4>1, ZenonT(30)
    <3> QED
      BY <3>1, <3>2
  <2> QED
    BY <1>3, <2>6, <2>7 DEF Consistent
<1> QED
  BY <1>7, <1>8, <1>9

LEMMA UpdateConsistent ==
    ASSUME Consistent(grants, items), NEW k \in Keys, NEW amount \in Nat, Update(k, amount),
           grants[k] # NoGrant, grants[k].limit # NoLimit, amount <= grants[k].limit
    PROVE  Consistent(grants', items')
<1> DEFINE v == [grants[k] EXCEPT !.limit = @ - amount]
<1>1. GrantsOK(grants) /\ grants[k] \in GrantOf(k) /\ grants' = [grants EXCEPT ![k] = v]
  BY DEF Consistent, GrantsOK, Update
<1>2. v \in GrantOf(k) /\ v.exp = grants[k].exp
  BY <1>1 DEF GrantOf, LimitOf
<1>3. v # NoGrant
  BY <1>2, AuthzAssumption, ZenonT(30) DEF GrantOf, LimitOf
<1> HIDE DEF v
<1>4. GrantsOK(grants') /\ grants'[k] = v
  BY <1>1, <1>2, PutGrant DEF GrantsOK
<1>5. ASSUME NEW q \in Times \X Pairs PROVE Expiring(grants', q) = Expiring(grants, q)
  <2>1. ASSUME NEW t \in Types PROVE t \in Expiring(grants', q) <=> t \in Expiring(grants, q)
    <3>1. q[2] = k[1] /\ t = k[2] => <<q[2], t>> = k
      BY DEF Keys
    <3>2. q[2] = k[1] /\ t = k[2] => (t \in Expiring(grants, q) <=> grants[k].exp = q[1])
      BY <3>1 DEF Expiring
    <3> QED
      BY <1>1, <1>2, <1>3, <1>4, <3>2, ExpiringOne, ZenonT(30)
  <2>2. Expiring(grants', q) \subseteq Types /\ Expiring(grants, q) \subseteq Types
    BY ExpiringTypes
  <2> QED
    BY <2>1, <2>2
<1> QED
  BY <1>4, <1>5, ZenonT(30) DEF Consistent, Update

\* BeginBlock's effect on one grant.
LEMMA BeginPrunes ==
    ASSUME Consistent(grants, items), BeginBlock, NEW k \in Keys
    PROVE  grants'[k] = IF grants[k] # NoGrant /\ grants[k].exp # Never /\ grants[k].exp < time'
                        THEN NoGrant ELSE grants[k]
<1> DEFINE hit == \E q \in DueItems(time') : q[2] = k[1] /\ k[2] \in Listed(items[q])
<1>1. grants'[k] = IF hit THEN NoGrant ELSE grants[k]
  BY DEF BeginBlock
<1>2. DueItems(time') = {q \in Times \X Pairs : q[1] < time' /\ items[q] # NoItem}
  BY DEF DueItems, Consistent, ItemsOK
<1>3. ASSUME hit PROVE grants[k] # NoGrant /\ grants[k].exp # Never /\ grants[k].exp < time'
  <2>1. PICK q \in Times \X Pairs : q[1] < time' /\ q[2] = k[1] /\ k[2] \in Listed(items[q])
    BY <1>2, <1>3
  <2>2. k[2] \in Expiring(grants, q) /\ k = <<q[2], k[2]>>
    BY <2>1 DEF Consistent, Keys
  <2> QED
    BY <2>1, <2>2 DEF Expiring, Times
<1>4. ASSUME grants[k] # NoGrant, grants[k].exp # Never, grants[k].exp < time' PROVE hit
  BY <1>2, <1>4, ListedAtExpiration, ZenonT(30)
<1> QED
  BY <1>1, <1>3, <1>4

LEMMA BeginConsistent ==
    ASSUME Consistent(grants, items), BeginBlock
    PROVE  Consistent(grants', items')
<1>1. GrantsOK(grants')
  <2>1. grants' = [k \in Keys |-> grants'[k]]
    BY DEF BeginBlock
  <2>2. \A k \in Keys : grants'[k] \in {NoGrant, grants[k]}
    BY BeginPrunes
  <2> QED
    BY <2>1, <2>2 DEF Consistent, GrantsOK, AnyGrant
<1>2. DueItems(time') = {q \in Times \X Pairs : q[1] < time' /\ items[q] # NoItem}
  BY DEF DueItems, Consistent, ItemsOK
<1>3. items' = [q \in Times \X Pairs |-> IF q[1] < time' /\ items[q] # NoItem THEN NoItem ELSE items[q]]
  BY <1>2 DEF BeginBlock, Consistent, ItemsOK
<1>4. ItemsOK(items')
  BY <1>3 DEF Consistent, ItemsOK
<1>5. ASSUME NEW q \in Times \X Pairs PROVE Listed(items'[q]) = Expiring(grants', q)
  <2>1. \A t \in Types : <<q[2], t>> \in Keys
    BY DEF Keys
  <2>2. q[1] # Never
    BY DEF Times
  <2>3. CASE q[1] < time'
    <3>1. Listed(items'[q]) = {}
      BY <1>3, <2>3 DEF Listed
    <3>2. ASSUME NEW t \in Types PROVE t \notin Expiring(grants', q)
      BY <2>1, <2>2, <2>3, BeginPrunes DEF Expiring
    <3> QED
      BY <3>1, <3>2, ExpiringTypes
  <2>4. CASE ~ (q[1] < time')
    <3>1. items'[q] = items[q]
      BY <1>3, <2>4
    <3>2. ASSUME NEW t \in Types PROVE t \in Expiring(grants', q) <=> t \in Expiring(grants, q)
      BY <2>1, <2>2, <2>4, BeginPrunes DEF Expiring
    <3>3. Expiring(grants', q) = Expiring(grants, q)
      BY <3>2, ExpiringTypes
    <3> QED
      BY <3>1, <3>3 DEF Consistent
  <2> QED
    BY <2>3, <2>4
<1> QED
  BY <1>1, <1>4, <1>5 DEF Consistent
----------------------------------------------------------------------------
\* DispatchActions keeps the stores consistent up to the message's handler.
LEMMA AuthorizeConsistent ==
    ASSUME Consistent(grants, items), NEW m \in Messages \cup FeeMessages, Authorize(m)
    PROVE  Consistent(grants', items')
<1> DEFINE k == KeyOf(m, exec.grantee)
<1>1. CASE UNCHANGED <<grants, items>>
  BY <1>1
<1>2. CASE ~ UNCHANGED <<grants, items>>
  <2>1. /\ k \in Keys /\ grants[k] # NoGrant /\ grants[k].limit # NoLimit
        /\ m.amount <= grants[k].limit
        /\ DeleteGrant(k) \/ Update(k, m.amount)
    BY <1>2 DEF Authorize
  <2>2. k[2] = m.type
    BY DEF KeyOf
  <2>3. m.type = "send"
    BY <2>1, <2>2, ZenonT(30) DEF Consistent, GrantsOK, GrantOf, LimitOf
  <2>4. m.amount \in Nat
    BY <2>3, MessageTypes, ZenonT(30)
  <2> HIDE DEF k
  <2> QED
    BY <2>1, <2>4, DeleteConsistent, UpdateConsistent, ZenonT(30)
<1> QED
  BY <1>1, <1>2
LEMMA InitInvariant == Init => IInv
<1> SUFFICES ASSUME Init PROVE IInv
  OBVIOUS
<1>1. GrantsOK(grants) /\ ItemsOK(items) /\ ExecOK
  BY DEF Init, AuthzInit, GrantsOK, AnyGrant, ItemsOK, ExecOK
<1>2. ASSUME NEW q \in Times \X Pairs PROVE Listed(items[q]) = Expiring(grants, q)
  <2>1. \A t \in Types : <<q[2], t>> \in Keys
    BY DEF Keys
  <2>2. Expiring(grants, q) = {}
    BY <2>1 DEF Init, AuthzInit, Expiring
  <2> QED
    BY <2>2 DEF Init, AuthzInit, Listed
<1> QED
  BY <1>1, <1>2, ZenonT(30) DEF IInv, Consistent

\* The fields that a step of a MsgExec changes leave what it returns to alone.
LEMMA ExecStep ==
    ASSUME ExecOK, exec # NoExec, NEW m \in Messages \cup FeeMessages \cup {NoMsg}, NEW n,
           exec' = [exec EXCEPT !.msg = m, !.handled = n]
    PROVE  ExecOK'
<1> DEFINE old == exec.before
<1>1. exec' = [grantee |-> exec.grantee, msg |-> m, handled |-> n, before |-> old]
  BY ZenonT(30) DEF ExecOK
<1>2. exec'.grantee = exec.grantee /\ exec'.msg = m /\ exec'.handled = n /\ exec'.before = old
  BY <1>1
<1>3. Consistent(old[1], old[2])
  BY DEF ExecOK
<1> HIDE DEF old
<1>4. Consistent(exec'.before[1], exec'.before[2])
  BY <1>2, <1>3
<1> QED
  BY <1>1, <1>2, <1>4, ZenonT(30) DEF ExecOK

LEMMA NextInvariant == IInv /\ [Next]_vars => IInv'
<1> SUFFICES ASSUME IInv, [Next]_vars PROVE IInv'
  OBVIOUS
<1>0. Consistent(grants, items) /\ ExecOK
  BY DEF IInv
<1>1. ASSUME UNCHANGED <<grants, items, exec>> PROVE IInv'
  BY <1>1 DEF IInv, ExecOK
<1>2. ASSUME NEW k \in Keys, NEW exp \in AuthExps, NEW limit \in Limits \cup {NoLimit},
             MsgGrant(k, exp, limit)
      PROVE  IInv'
  <2>1. Consistent(grants', items') /\ exec = NoExec /\ exec' = exec
    BY <1>0, <1>2, SaveConsistent DEF MsgGrant
  <2> QED
    BY <2>1 DEF IInv, ExecOK
<1>3. ASSUME NEW k \in Keys, MsgRevoke(k) PROVE IInv'
  <2>1. Consistent(grants', items') /\ exec = NoExec /\ exec' = exec
    BY <1>0, <1>3, DeleteConsistent DEF MsgRevoke
  <2> QED
    BY <2>1 DEF IInv, ExecOK
<1>4. ASSUME NEW m \in Messages \cup FeeMessages, Authorize(m) PROVE IInv'
  <2>1. Consistent(grants', items')
    BY <1>0, <1>4, AuthorizeConsistent
  <2>2. exec # NoExec /\ exec' = [exec EXCEPT !.msg = m, !.handled = exec.handled]
    BY <1>0, <1>4, ZenonT(30) DEF Authorize, ExecOK
  <2>3. ExecOK'
    BY <1>0, <2>2, ExecStep, ZenonT(30)
  <2> QED
    BY <2>1, <2>3 DEF IInv
<1>5. ASSUME Handled, exec # NoExec PROVE ExecOK'
  <2>1. exec' = [exec EXCEPT !.msg = NoMsg, !.handled = exec.handled + 1]
    BY <1>5 DEF Handled
  <2> QED
    BY <1>0, <1>5, <2>1, ExecStep, ZenonT(30)
<1>6. CASE Handle
  <2>1. exec # NoExec /\ exec.msg \in Messages \cup FeeMessages /\ Handled
    BY <1>0, <1>6 DEF Handle, ExecOK
  <2> DEFINE m == exec.msg
  <2>2. ASSUME UNCHANGED <<grants, items>> PROVE Consistent(grants', items')
    BY <1>0, <2>2
  <2>3. ASSUME m.type = "revoke", DeleteGrant(m.key) PROVE Consistent(grants', items')
    BY <1>0, <2>1, <2>3, MessageTypes, DeleteConsistent
  <2>4. ASSUME m.type = "grant", SaveGrant(m.key, m.exp, m.limit)
        PROVE  Consistent(grants', items')
    BY <1>0, <2>1, <2>4, MessageTypes, SaveConsistent
  <2>5. Consistent(grants', items')
    BY <1>0, <1>6, <2>2, <2>3, <2>4, ZenonT(30) DEF Handle
  <2> QED
    BY <1>5, <2>1, <2>5 DEF IInv
<1>7. CASE EndExec
  BY <1>0, <1>7, ZenonT(30) DEF EndExec, IInv, ExecOK
<1>8. CASE HandleFee
  BY <1>0, <1>5, <1>8 DEF HandleFee, IInv
<1>9. CASE StartExec
  <2>1. PICK x \in Accounts : MsgExec(x)
    BY <1>9 DEF StartExec
  <2>2. /\ exec' = [grantee |-> x, msg |-> NoMsg, handled |-> 0, before |-> <<grants, items, sent>>]
        /\ grants' = grants /\ items' = items
    BY <2>1 DEF MsgExec
  <2>3. /\ exec'.grantee = x /\ exec'.msg = NoMsg /\ exec'.handled = 0
        /\ exec'.before = <<grants, items, sent>>
        /\ exec'.before[1] = grants /\ exec'.before[2] = items
    BY <2>2
  <2> QED
    BY <1>0, <2>2, <2>3, ZenonT(30) DEF IInv, ExecOK
<1>10. CASE RevertExec
  BY <1>0, <1>10, ZenonT(30) DEF RevertExec, FailExec, IInv, ExecOK
<1>11. CASE EndBlock /\ BeginBlock
  <2>1. Consistent(grants', items') /\ exec = NoExec /\ exec' = exec
    BY <1>0, <1>11, BeginConsistent, ZenonT(30) DEF BeginBlock
  <2> QED
    BY <2>1 DEF IInv, ExecOK
<1>12. CASE AuthzTx
  BY <1>2, <1>3, <1>4, <1>6, <1>7, <1>12 DEF AuthzTx
<1>13. CASE UNCHANGED vars \/ UNCHANGED authzState
  BY <1>1, <1>13 DEF vars, authzState
<1> QED
  BY <1>4, <1>8, <1>9, <1>10, <1>11, <1>12, <1>13 DEF Next

\* In every application of the two modules the queue of expirations lists each
\* grant once, at its expiration, whatever messages a MsgExec handles and however
\* it ends: removeFromGrantQueue of SaveGrant and DeleteGrant always finds it.
THEOREM QueueIsExact == Spec => []QueueExact
<1>1. IInv => QueueExact
  BY ZenonT(30) DEF IInv, Consistent, ItemsOK, Expiring, Once, QueueExact, QueueMatches
<1> QED
  BY <1>1, InitInvariant, NextInvariant, PTL DEF Spec

\* DequeueAndDeleteExpiredGrants removes exactly the grants whose expiration is
\* before the block.
THEOREM PrunesExactlyExpired == Spec => PrunesExactly
<1>1. IInv /\ [Next]_vars =>
        [BeginBlock => \A k \in Keys : grants[k] # NoGrant =>
           (grants'[k] = NoGrant <=> grants[k].exp # Never /\ grants[k].exp < time')
        ]_<<time, authzState>>
  BY BeginPrunes DEF IInv
<1> QED
  BY <1>1, InitInvariant, NextInvariant, PTL DEF Spec, PrunesExactly
----------------------------------------------------------------------------
\* What was sent and what is left.
SentOK(gs, sn) ==
    /\ sn \in [Keys -> Nat]
    /\ \A k \in Keys : gs[k] # NoGrant /\ gs[k].limit # NoLimit =>
         gs[k].limit + sn[k] = gs[k].given

SentInv == SentOK(grants, sent) /\ (exec # NoExec => SentOK(exec.before[1], exec.before[3]))

\* There is no send authorization in the beginning.
LEMMA SentStart == Init => SentInv
  BY DEF Init, AuthzInit, SentInv, SentOK

\* Deleting a grant keeps what is left of the limits of the others, and so
\* do the other operations of x/authz below.
LEMMA DeleteSent ==
    ASSUME NEW k \in Keys, GrantsOK(grants), SentOK(grants, sent), DeleteGrant(k),
           sent' \in [Keys -> Nat], \A j \in Keys \ {k} : sent'[j] = sent[j]
    PROVE  SentOK(grants', sent')
<1>1. \A j \in Keys : grants'[j] = IF j = k THEN NoGrant ELSE grants[j]
  BY DEF DeleteGrant, GrantsOK
<1> QED
  BY <1>1 DEF SentOK

LEMMA SaveSent ==
    ASSUME NEW k \in Keys, NEW exp \in AuthExps, NEW limit \in LimitsOf(k[2]),
           GrantsOK(grants), SentOK(grants, sent), SaveGrant(k, exp, limit)
    PROVE  SentOK(grants', sent')
<1> DEFINE v == [exp |-> exp, limit |-> limit, given |-> limit]
<1>1. grants' = [grants EXCEPT ![k] = v] /\ sent' = [sent EXCEPT ![k] = 0]
  BY ZenonT(30) DEF SaveGrant
<1>2. v.limit = limit /\ v.given = limit /\ limit \in Nat \cup {NoLimit}
  BY AuthzAssumption DEF LimitsOf
<1> HIDE DEF v
<1>3. sent' \in [Keys -> Nat] /\ sent'[k] = 0 /\ \A j \in Keys \ {k} : sent'[j] = sent[j]
  BY <1>1 DEF SentOK
<1>4. grants'[k] = v /\ \A j \in Keys \ {k} : grants'[j] = grants[j]
  BY <1>1 DEF GrantsOK
<1> QED
  BY <1>2, <1>3, <1>4 DEF SentOK

LEMMA UpdateSent ==
    ASSUME NEW k \in Keys, NEW amount \in Nat, GrantsOK(grants), SentOK(grants, sent),
           grants[k] # NoGrant, grants[k].limit # NoLimit, Update(k, amount),
           sent' = [sent EXCEPT ![k] = @ + amount]
    PROVE  SentOK(grants', sent')
<1> DEFINE v == [grants[k] EXCEPT !.limit = @ - amount]
<1>1. grants' = [grants EXCEPT ![k] = v] /\ grants[k] \in GrantOf(k)
  BY DEF Update, GrantsOK
<1>2. /\ v.limit = grants[k].limit - amount /\ v.given = grants[k].given
      /\ grants[k].limit \in Nat /\ grants[k].given \in Nat \cup {NoLimit}
  BY <1>1 DEF GrantOf, LimitOf
<1>3. grants[k].limit + sent[k] = grants[k].given
  BY DEF SentOK
<1> HIDE DEF v
<1>4. /\ sent' \in [Keys -> Nat] /\ sent[k] \in Nat /\ sent'[k] = sent[k] + amount
      /\ \A j \in Keys \ {k} : sent'[j] = sent[j]
  BY DEF SentOK
<1>5. grants'[k] = v /\ \A j \in Keys \ {k} : grants'[j] = grants[j]
  BY <1>1 DEF GrantsOK
<1>6. v.limit + sent'[k] = v.given
  BY <1>2, <1>3, <1>4
<1> QED
  BY <1>4, <1>5, <1>6, ZenonT(30) DEF SentOK

LEMMA AuthorizeSent ==
    ASSUME GrantsOK(grants), SentOK(grants, sent), NEW m \in Messages \cup FeeMessages,
           Authorize(m)
    PROVE  SentOK(grants', sent')
<1> DEFINE k == KeyOf(m, exec.grantee)
<1>1. CASE UNCHANGED <<grants, items, sent>>
  BY <1>1, ZenonT(30) DEF SentOK
<1>2. CASE ~ UNCHANGED <<grants, items, sent>>
  <2>1. /\ k \in Keys /\ grants[k] # NoGrant /\ grants[k].limit # NoLimit
        /\ sent' = [sent EXCEPT ![k] = @ + m.amount]
        /\ DeleteGrant(k) \/ Update(k, m.amount)
    BY <1>2 DEF Authorize
  <2>2. k[2] = m.type
    BY DEF KeyOf
  <2>3. m.type = "send"
    BY <2>1, <2>2 DEF GrantsOK, GrantOf, LimitOf
  <2>4. m.amount \in Nat
    BY <2>3, MessageTypes
  <2> HIDE DEF k
  <2>5. sent' \in [Keys -> Nat] /\ \A j \in Keys \ {k} : sent'[j] = sent[j]
    BY <2>1, <2>4 DEF SentOK
  <2> QED
    BY <2>1, <2>4, <2>5, DeleteSent, UpdateSent, ZenonT(30)
<1> QED
  BY <1>1, <1>2

\* Every step keeps the limits of the send authorizations.
LEMMA SentStep == IInv /\ SentInv /\ [Next]_vars => SentInv'
<1> SUFFICES ASSUME IInv, SentInv, [Next]_vars PROVE SentInv'
  OBVIOUS
<1>0. GrantsOK(grants) /\ ExecOK /\ SentOK(grants, sent)
  BY DEF IInv, Consistent, SentInv
<1>1. ASSUME UNCHANGED <<grants, sent, exec>> PROVE SentInv'
  BY <1>1, ZenonT(30) DEF SentInv, SentOK
<1>2. ASSUME SentOK(grants', sent'), exec' # NoExec => exec # NoExec /\ exec'.before = exec.before
      PROVE  SentInv'
  <2>1. exec' # NoExec => SentOK(exec'.before[1], exec'.before[3])
    BY <1>2, ZenonT(30) DEF SentInv
  <2> QED
    BY <1>2, <2>1, ZenonT(30) DEF SentInv, SentOK
<1>3. ASSUME NEW k \in Keys, NEW exp \in AuthExps, NEW limit \in Limits \cup {NoLimit},
             MsgGrant(k, exp, limit)
      PROVE  SentInv'
  BY <1>0, <1>2, <1>3, SaveSent DEF MsgGrant
<1>4. ASSUME NEW k \in Keys, MsgRevoke(k) PROVE SentInv'
  <2>1. SentOK(grants', sent')
    BY <1>0, <1>4, DeleteSent, ZenonT(30) DEF MsgRevoke, SentOK
  <2> QED
    BY <1>2, <1>4, <2>1 DEF MsgRevoke
<1>5. ASSUME NEW m \in Messages \cup FeeMessages, Authorize(m) PROVE SentInv'
  <2>1. SentOK(grants', sent')
    BY <1>0, <1>5, AuthorizeSent
  <2>2. exec # NoExec /\ exec'.before = exec.before
    BY <1>0, <1>5, ZenonT(30) DEF Authorize, ExecOK
  <2> QED
    BY <1>2, <2>1, <2>2
<1>6. ASSUME Handled, exec # NoExec PROVE exec'.before = exec.before
  BY <1>0, <1>6, ZenonT(30) DEF Handled, ExecOK
<1>7. CASE Handle
  <2> DEFINE m == exec.msg
  <2>1. exec # NoExec /\ m \in Messages \cup FeeMessages /\ Handled
    BY <1>0, <1>7 DEF Handle, ExecOK
  <2>2. ASSUME UNCHANGED <<grants, items, sent>> PROVE SentOK(grants', sent')
    BY <1>0, <2>2 DEF SentOK
  <2>3. ASSUME m.type = "revoke", DeleteGrant(m.key), UNCHANGED sent PROVE SentOK(grants', sent')
    <3>1. m.key \in Keys /\ sent' \in [Keys -> Nat]
      BY <1>0, <2>1, <2>3, MessageTypes, ZenonT(30) DEF SentOK
    <3> QED
      BY <1>0, <2>3, <3>1, DeleteSent
  <2>4. ASSUME m.type = "grant", SaveGrant(m.key, m.exp, m.limit) PROVE SentOK(grants', sent')
    BY <1>0, <2>1, <2>4, MessageTypes, SaveSent, ZenonT(30)
  <2>5. SentOK(grants', sent')
    BY <1>7, <2>2, <2>3, <2>4 DEF Handle
  <2> QED
    BY <1>2, <1>6, <2>1, <2>5
<1>8. CASE EndExec
  BY <1>0, <1>2, <1>8 DEF EndExec
<1>9. CASE HandleFee
  <2>1. exec # NoExec /\ Handled /\ UNCHANGED <<grants, sent>>
    BY <1>9 DEF HandleFee
  <2> QED
    BY <1>0, <1>2, <1>6, <2>1
<1>10. CASE StartExec
  <2>1. PICK x \in Accounts : MsgExec(x)
    BY <1>10 DEF StartExec
  <2>2. /\ exec' = [grantee |-> x, msg |-> NoMsg, handled |-> 0, before |-> <<grants, items, sent>>]
        /\ grants' = grants /\ sent' = sent
    BY <2>1 DEF MsgExec
  <2>3. exec'.before[1] = grants /\ exec'.before[3] = sent
    BY <2>2
  <2> QED
    BY <1>0, <2>2, <2>3, ZenonT(30) DEF SentInv
<1>11. CASE RevertExec
  BY <1>11 DEF RevertExec, FailExec, SentInv
<1>12. CASE BeginBlock
  <2>1. \A k \in Keys : grants'[k] \in {NoGrant, grants[k]}
    BY <1>12 DEF BeginBlock
  <2>2. SentOK(grants', sent')
    BY <1>0, <1>12, <2>1, ZenonT(30) DEF BeginBlock, SentOK
  <2> QED
    BY <1>2, <1>12, <2>2 DEF BeginBlock
<1>13. CASE AuthzTx
  BY <1>3, <1>4, <1>5, <1>7, <1>8, <1>13 DEF AuthzTx
<1>14. CASE UNCHANGED vars \/ UNCHANGED authzState
  BY <1>1, <1>14 DEF vars, authzState
<1> QED
  BY <1>5, <1>9, <1>10, <1>11, <1>12, <1>13, <1>14 DEF Next
----------------------------------------------------------------------------
\* PeriodRate speaks of this allowance.
Rated(gv) == gv.limit = NoLimit \/ \E d \in Denoms : Denoms = {d}

\* After n resets, the last of which was due by now, no more is or was there to
\* spend than n times PeriodSpendLimit.
ResetTimes(t, a, gv, sp, n) ==
    /\ a.reset >= gv.reset + n * gv.period
    /\ n > 0 => t >= gv.reset + (n - 1) * gv.period
    /\ Rated(gv) => \A d \in Denoms :
         sp[d] + a.canSpend[d] <= gv.canSpend[d] + n * gv.periodLimit[d]

\* An allowance a that was given as gv, from which sp was spent.
Spending(t, a, gv, sp) ==
    /\ a.periodic = gv.periodic
    /\ a.limit = NoLimit <=> gv.limit = NoLimit
    /\ a.limit # NoLimit => Plus(a.limit, sp) = gv.limit
    /\ a.periodic => /\ a.period = gv.period /\ a.periodLimit = gv.periodLimit
                     /\ \E n \in Nat : ResetTimes(t, a, gv, sp, n)

\* The stores of x/feegrant: the allowances and the queue, which may name more.
FeeOK(t, g, q, gv, sp) ==
    /\ g \in [Pairs -> FeeAllowance \cup {NoGrant}]
    /\ gv \in [Pairs -> FeeAllowance \cup {NoGrant}]
    /\ sp \in [Pairs -> Coins]
    /\ \A p \in Pairs : g[p] # NoGrant =>
         /\ gv[p] # NoGrant /\ Spending(t, g[p], gv[p], sp[p])
         /\ g[p].exp # Never => <<g[p].exp, p>> \in q

FeeInv ==
    /\ time \in Nat
    /\ FeeOK(time, grant, queue, given, spent)
    /\ exec # NoExec => FeeOK(time, feeBefore[1], feeBefore[2], feeBefore[3], feeBefore[4])

\* There is no allowance in the beginning.
LEMMA FeeStart == Init => FeeInv
<1> SUFFICES ASSUME Init PROVE FeeInv
  OBVIOUS
<1>1. /\ time \in Nat /\ exec = NoExec
      /\ grant = [p \in Pairs |-> NoGrant] /\ given = [p \in Pairs |-> NoGrant]
      /\ spent = [p \in Pairs |-> Zero]
  BY DEF Init, FeeInit, AuthzInit
<1>2. Zero \in Coins
  BY DEF Zero, Coins
<1>3. FeeOK(time, grant, queue, given, spent)
  BY <1>1, <1>2 DEF FeeOK
<1> QED
  BY <1>1, <1>3, ZenonT(30) DEF FeeInv

\* The fields of an allowance.
LEMMA AllowanceFields ==
    ASSUME NEW a \in FeeAllowance
    PROVE  /\ a.limit \in Coins \cup {NoLimit} /\ a.exp \in Exps \cup {Never}
           /\ a.msgs \in SUBSET MsgTypes /\ a.periodic \in BOOLEAN
           /\ a.periodic => /\ a \in PeriodicAllowance /\ a.period \in Nat /\ a.reset \in Nat
                            /\ a.periodLimit \in Coins /\ a.canSpend \in Coins
           /\ ~ a.periodic => a \in BasicAllowance
  BY ZenonT(30) DEF FeeAllowance, BasicAllowance, PeriodicAllowance

\* tryResetPeriod writes two fields.
LEMMA TryResetFields ==
    ASSUME NEW a \in PeriodicAllowance, time \in Nat
    PROVE  LET b == TryResetPeriod(a)
           IN  /\ b \in PeriodicAllowance
               /\ b.limit = a.limit /\ b.exp = a.exp /\ b.msgs = a.msgs
               /\ b.period = a.period /\ b.periodLimit = a.periodLimit
<1> DEFINE c == IF a.limit # NoLimit /\ ~ Covers(a.limit, a.periodLimit) THEN a.limit ELSE a.periodLimit
           r == IF time > a.reset + a.period THEN time + a.period ELSE a.reset + a.period
<1>1. c \in Coins /\ r \in Nat
  BY DEF PeriodicAllowance
<1>2. TryResetPeriod(a) = IF time < a.reset THEN a ELSE [a EXCEPT !.canSpend = c, !.reset = r]
  BY DEF TryResetPeriod
<1> HIDE DEF c, r
<1> QED
  BY <1>1, <1>2, ZenonT(30) DEF PeriodicAllowance

\* Accept takes the fee from the limit and from what the period has left.
LEMMA ChargedFields ==
    ASSUME NEW a \in FeeAllowance, time \in Nat, NEW fee \in Coins, NEW types,
           Accepts(a, fee, types)
    PROVE  LET b == Charged(a, fee)
               c == TryResetPeriod(a)
           IN  /\ b \in FeeAllowance /\ b.exp = a.exp /\ b.periodic = a.periodic
               /\ b.limit = IF a.limit = NoLimit THEN NoLimit ELSE Minus(a.limit, fee)
               /\ a.periodic => /\ b.period = a.period /\ b.periodLimit = a.periodLimit
                                /\ b.reset = c.reset /\ b.canSpend = Minus(c.canSpend, fee)
<1> DEFINE b == Charged(a, fee)
           c == TryResetPeriod(a)
           k == IF a.periodic THEN [c EXCEPT !.canSpend = Minus(@, fee)] ELSE a
           l == IF a.limit = NoLimit THEN NoLimit ELSE Minus(a.limit, fee)
<1>1. \A x \in Coins : Minus(x, fee) \in [Denoms -> Int]
  BY DEF Minus, Coins
<1>2. \A x \in Coins : ~ AnyNegative(Minus(x, fee)) => Minus(x, fee) \in Coins
  BY <1>1 DEF AnyNegative, Coins
<1>3. b = [k EXCEPT !.limit = IF @ = NoLimit THEN @ ELSE Minus(@, fee)]
  BY SMTT(30) DEF Charged
<1>4. CASE a.periodic
  <2>1. a \in PeriodicAllowance
    BY <1>4, AllowanceFields
  <2>2. /\ c \in PeriodicAllowance /\ c.limit = a.limit /\ c.exp = a.exp /\ c.msgs = a.msgs
        /\ c.period = a.period /\ c.periodLimit = a.periodLimit
    BY <2>1, TryResetFields
  <2> HIDE DEF c
  <2>3. b = [c EXCEPT !.canSpend = Minus(c.canSpend, fee), !.limit = l]
    BY <1>3, <1>4, <2>2, ZenonT(30) DEF PeriodicAllowance
  <2> HIDE DEF b, k
  <2>4. /\ b.canSpend = Minus(c.canSpend, fee) /\ b.limit = l /\ b.periodic = TRUE
        /\ b.exp = a.exp /\ b.msgs = a.msgs /\ b.reset = c.reset
        /\ b.period = a.period /\ b.periodLimit = a.periodLimit
    BY <2>2, <2>3, ZenonT(30) DEF PeriodicAllowance
  <2>5. /\ ~ AnyNegative(b.canSpend) /\ (b.limit # NoLimit => ~ AnyNegative(b.limit))
    BY <2>4, ZenonT(30) DEF Accepts, b
  <2>6. c.canSpend \in Coins /\ (a.limit # NoLimit => a.limit \in Coins)
    BY <2>2, ZenonT(30) DEF PeriodicAllowance
  <2>7. Minus(c.canSpend, fee) \in Coins
    BY <1>2, <2>4, <2>5, <2>6, ZenonT(30)
  <2>8. l \in Coins \cup {NoLimit}
    BY <1>2, <2>4, <2>5, <2>6, ZenonT(30)
  <2> HIDE DEF l
  <2>9. b \in PeriodicAllowance
    BY <2>2, <2>3, <2>7, <2>8, ZenonT(30) DEF PeriodicAllowance
  <2> QED
    BY <1>4, <2>4, <2>9, ZenonT(30) DEF FeeAllowance, b, c, l
<1>5. CASE ~ a.periodic
  <2>1. a \in BasicAllowance
    BY <1>5, AllowanceFields, ZenonT(30)
  <2>2. b = [a EXCEPT !.limit = l]
    BY <1>3, <1>5, <2>1 DEF BasicAllowance
  <2> HIDE DEF b, k
  <2>3. b.limit = l /\ b.periodic = FALSE /\ b.exp = a.exp
    BY <2>1, <2>2, ZenonT(30) DEF BasicAllowance
  <2>4. b.limit # NoLimit => ~ AnyNegative(b.limit)
    BY ZenonT(30) DEF Accepts, b
  <2>5. l \in Coins \cup {NoLimit}
    BY <1>2, <2>1, <2>3, <2>4, ZenonT(30) DEF BasicAllowance
  <2> HIDE DEF l
  <2>6. b \in BasicAllowance
    BY <2>1, <2>2, <2>5, ZenonT(30) DEF BasicAllowance
  <2> QED
    BY <1>5, <2>1, <2>3, <2>6, ZenonT(30) DEF FeeAllowance, BasicAllowance, b, l
<1> QED
  BY <1>4, <1>5, AllowanceFields, ZenonT(30)

\* What a reset makes available is at most PeriodSpendLimit.
LEMMA ResetBounded ==
    ASSUME NEW a \in PeriodicAllowance, time \in Nat, ~ (time < a.reset),
           a.limit = NoLimit \/ \E d \in Denoms : Denoms = {d}
    PROVE  /\ TryResetPeriod(a).reset >= a.reset + a.period
           /\ \A d \in Denoms : TryResetPeriod(a).canSpend[d] <= a.periodLimit[d]
<1> DEFINE c == IF a.limit # NoLimit /\ ~ Covers(a.limit, a.periodLimit) THEN a.limit ELSE a.periodLimit
           r == IF time > a.reset + a.period THEN time + a.period ELSE a.reset + a.period
           b == TryResetPeriod(a)
<1>1. a.periodLimit \in [Denoms -> Nat] /\ a.period \in Nat /\ a.reset \in Nat
  BY DEF PeriodicAllowance, Coins
<1>2. b = [a EXCEPT !.canSpend = c, !.reset = r]
  BY DEF TryResetPeriod
<1>3. ASSUME NEW d \in Denoms PROVE c[d] <= a.periodLimit[d]
  <2>1. CASE a.limit # NoLimit /\ ~ Covers(a.limit, a.periodLimit)
    <3>1. PICK e \in Denoms : Minus(a.limit, a.periodLimit)[e] < 0
      BY <2>1 DEF Covers, AnyNegative
    <3>2. e = d
      BY <2>1
    <3>3. a.limit \in [Denoms -> Nat]
      BY <2>1 DEF PeriodicAllowance, Coins
    <3>4. a.limit[d] - a.periodLimit[d] < 0
      BY <3>1, <3>2 DEF Minus
    <3> QED
      BY <1>1, <2>1, <3>3, <3>4
  <2>2. CASE ~ (a.limit # NoLimit /\ ~ Covers(a.limit, a.periodLimit))
    <3>1. c = a.periodLimit
      BY <2>2
    <3> QED
      BY <1>1, <3>1
  <2> QED
    BY <2>1, <2>2, ZenonT(30)
<1>4. r >= a.reset + a.period
  BY <1>1
<1> HIDE DEF c, r, b
<1>5. b.canSpend = c /\ b.reset = r
  BY <1>2 DEF PeriodicAllowance
<1> QED
  BY <1>3, <1>4, <1>5 DEF b

\* A period's reset is not before the one that it was.
LEMMA ResetLater ==
    ASSUME NEW a \in PeriodicAllowance, time \in Nat, ~ (time < a.reset)
    PROVE  TryResetPeriod(a).reset >= a.reset + a.period
<1> DEFINE c == IF a.limit # NoLimit /\ ~ Covers(a.limit, a.periodLimit) THEN a.limit ELSE a.periodLimit
           r == IF time > a.reset + a.period THEN time + a.period ELSE a.reset + a.period
           b == TryResetPeriod(a)
<1>1. a.period \in Nat /\ a.reset \in Nat
  BY DEF PeriodicAllowance
<1>2. b = [a EXCEPT !.canSpend = c, !.reset = r]
  BY DEF TryResetPeriod
<1>3. r >= a.reset + a.period
  BY <1>1
<1> HIDE DEF c, r, b
<1>4. b.reset = r
  BY <1>2 DEF PeriodicAllowance
<1> QED
  BY <1>3, <1>4 DEF b

\* One more period.
LEMMA OneMore == \A n, p \in Nat : (n + 1) * p = n * p + p /\ (n + 1) - 1 = n /\ n * p \in Nat
  OBVIOUS

\* A fee leaves an allowance within its period's limits.
LEMMA ResetTimesStep ==
    ASSUME NEW a \in PeriodicAllowance, NEW gv \in PeriodicAllowance, NEW sp \in Coins,
           NEW fee \in Coins, time \in Nat, NEW b,
           a.period = gv.period, a.periodLimit = gv.periodLimit,
           a.limit = NoLimit <=> gv.limit = NoLimit,
           b.reset = TryResetPeriod(a).reset,
           b.canSpend = Minus(TryResetPeriod(a).canSpend, fee),
           NEW n \in Nat, ResetTimes(time, a, gv, sp, n)
    PROVE  \E m \in Nat : ResetTimes(time, b, gv, Plus(sp, fee), m)
<1> DEFINE c == TryResetPeriod(a)
<1>1. /\ c \in PeriodicAllowance /\ c.canSpend \in [Denoms -> Nat] /\ c.reset \in Nat
      /\ a.canSpend \in [Denoms -> Nat] /\ a.reset \in Nat
      /\ gv.canSpend \in [Denoms -> Nat] /\ gv.periodLimit \in [Denoms -> Nat]
      /\ gv.reset \in Nat /\ gv.period \in Nat /\ sp \in [Denoms -> Nat] /\ fee \in [Denoms -> Nat]
  <2>1. c \in PeriodicAllowance
    BY TryResetFields, ZenonT(30)
  <2> HIDE DEF c
  <2> QED
    BY <2>1, ZenonT(30) DEF PeriodicAllowance, Coins
<1>2. \A d \in Denoms : Plus(sp, fee)[d] + b.canSpend[d] = sp[d] + c.canSpend[d]
  <2> HIDE DEF c
  <2>1. \A d \in Denoms : Plus(sp, fee)[d] = sp[d] + fee[d] /\ b.canSpend[d] = c.canSpend[d] - fee[d]
    BY ZenonT(30) DEF Plus, Minus, c
  <2> QED
    BY <1>1, <2>1
<1>3. CASE time < a.reset
  <2>1. c = a
    BY <1>3, SMTT(30) DEF TryResetPeriod
  <2>2. ResetTimes(time, b, gv, Plus(sp, fee), n)
    BY <1>2, <2>1, ZenonT(30) DEF ResetTimes
  <2> QED
    BY <2>2, ZenonT(30)
<1>4. CASE ~ (time < a.reset)
  <2> HIDE DEF c
  <2>1. c.reset >= a.reset + gv.period
    BY <1>4, ResetLater DEF c
  <2>2. a.reset >= gv.reset + n * gv.period
    BY ZenonT(30) DEF ResetTimes
  <2>3. (n + 1) * gv.period = n * gv.period + gv.period /\ (n + 1) - 1 = n /\ n * gv.period \in Nat
    BY <1>1, OneMore, ZenonT(30)
  <2>4. b.reset >= gv.reset + (n + 1) * gv.period
    BY <1>1, <2>1, <2>2, <2>3 DEF c
  <2>5. time >= gv.reset + ((n + 1) - 1) * gv.period
    BY <1>1, <1>4, <2>2, <2>3, SMTT(30)
  <2>6. ASSUME Rated(gv), NEW d \in Denoms
        PROVE  Plus(sp, fee)[d] + b.canSpend[d] <= gv.canSpend[d] + (n + 1) * gv.periodLimit[d]
    <3>1. c.canSpend[d] <= gv.periodLimit[d]
      BY <1>4, <2>6, ResetBounded, ZenonT(30) DEF Rated, c
    <3>2. sp[d] + a.canSpend[d] <= gv.canSpend[d] + n * gv.periodLimit[d]
      BY <2>6, ZenonT(30) DEF ResetTimes
    <3>3. /\ (n + 1) * gv.periodLimit[d] = n * gv.periodLimit[d] + gv.periodLimit[d]
          /\ n * gv.periodLimit[d] \in Nat
      BY <1>1, OneMore, ZenonT(30)
    <3>4. sp[d] + c.canSpend[d] <= gv.canSpend[d] + (n + 1) * gv.periodLimit[d]
      <4>1. /\ sp[d] \in Nat /\ c.canSpend[d] \in Nat /\ a.canSpend[d] \in Nat
            /\ gv.canSpend[d] \in Nat /\ gv.periodLimit[d] \in Nat
        BY <1>1, ZenonT(30)
      <4> QED
        BY <3>1, <3>2, <3>3, <4>1, SMTT(30)
    <3> QED
      BY <1>2, <3>4, ZenonT(30)
  <2>7. ResetTimes(time, b, gv, Plus(sp, fee), n + 1)
    BY <2>4, <2>5, <2>6, ZenonT(30) DEF ResetTimes
  <2> QED
    BY <2>7
<1> QED
  BY <1>3, <1>4, ZenonT(30)

\* UseGrantedFees, for one allowance.
LEMMA SpendingStep ==
    ASSUME NEW a \in FeeAllowance, NEW gv \in FeeAllowance, NEW sp \in Coins,
           NEW fee \in Coins, NEW types, time \in Nat, Accepts(a, fee, types),
           Spending(time, a, gv, sp)
    PROVE  LET s == IF a.limit = NoLimit /\ ~ a.periodic THEN sp ELSE Plus(sp, fee)
           IN  Spending(time, Charged(a, fee), gv, s) /\ s \in Coins
<1> DEFINE b == Charged(a, fee)
           s == IF a.limit = NoLimit /\ ~ a.periodic THEN sp ELSE Plus(sp, fee)
<1>1. /\ b \in FeeAllowance /\ b.periodic = a.periodic
      /\ b.limit = IF a.limit = NoLimit THEN NoLimit ELSE Minus(a.limit, fee)
      /\ a.periodic => /\ b.period = a.period /\ b.periodLimit = a.periodLimit
                       /\ b.reset = TryResetPeriod(a).reset
                       /\ b.canSpend = Minus(TryResetPeriod(a).canSpend, fee)
  BY ChargedFields, ZenonT(30)
<1> HIDE DEF b
<1>2. s \in Coins
  BY DEF Coins, Plus
<1>3. a.limit \in Coins \cup {NoLimit} /\ gv.limit \in Coins \cup {NoLimit}
  BY AllowanceFields, ZenonT(30)
<1>4. b.limit = NoLimit <=> gv.limit = NoLimit
  <2>1. a.limit # NoLimit => b.limit \in [Denoms -> Int]
    BY <1>1, <1>3 DEF Minus, Coins
  <2> QED
    BY <1>1, <2>1, AllowancesAssumption, ZenonT(30) DEF Spending
<1>5. b.limit # NoLimit => Plus(b.limit, s) = gv.limit
  <2> SUFFICES ASSUME b.limit # NoLimit PROVE Plus(b.limit, s) = gv.limit
    BY ZenonT(30)
  <2>1. /\ a.limit # NoLimit /\ a.limit \in Coins /\ b.limit = Minus(a.limit, fee)
        /\ s = Plus(sp, fee)
    BY <1>1, <1>3, ZenonT(30)
  <2>2. gv.limit = Plus(a.limit, sp)
    BY <2>1, ZenonT(30) DEF Spending
  <2>3. Plus(Minus(a.limit, fee), Plus(sp, fee)) = Plus(a.limit, sp)
    BY <2>1, SMTT(30) DEF Plus, Minus, Coins
  <2> QED
    BY <2>1, <2>2, <2>3, ZenonT(30)
<1>6. ASSUME b.periodic
      PROVE  /\ b.period = gv.period /\ b.periodLimit = gv.periodLimit
             /\ \E m \in Nat : ResetTimes(time, b, gv, s, m)
  <2>1. a.periodic /\ gv.periodic /\ a.period = gv.period /\ a.periodLimit = gv.periodLimit
    BY <1>1, <1>6, ZenonT(30) DEF Spending
  <2>2. PICK n \in Nat : ResetTimes(time, a, gv, sp, n)
    BY <2>1 DEF Spending
  <2>3. a \in PeriodicAllowance /\ gv \in PeriodicAllowance
    BY <2>1, AllowanceFields, ZenonT(30)
  <2>4. a.limit = NoLimit <=> gv.limit = NoLimit
    BY SMTT(30) DEF Spending
  <2>5. \E m \in Nat : ResetTimes(time, b, gv, Plus(sp, fee), m)
    BY <1>1, <2>1, <2>2, <2>3, <2>4, ResetTimesStep, ZenonT(30)
  <2> QED
    BY <1>1, <2>1, <2>5, ZenonT(30)
<1> QED
  BY <1>1, <1>2, <1>4, <1>5, <1>6, ZenonT(30) DEF Spending, b

\* Granting an allowance, and below using one, keeps the invariant of the
\* allowances.
LEMMA GrantFee ==
    ASSUME time \in Nat, FeeOK(time, grant, queue, given, spent), NEW p \in Pairs,
           NEW a \in Allowances, GrantAllowance(p, a)
    PROVE  FeeOK(time', grant', queue', given', spent')
<1>1. /\ grant' = [grant EXCEPT ![p] = a] /\ given' = [given EXCEPT ![p] = a]
      /\ spent' = [spent EXCEPT ![p] = Zero] /\ time' = time
      /\ queue' = IF a.exp = Never THEN queue ELSE queue \cup {<<a.exp, p>>}
  BY DEF GrantAllowance
<1>2. a \in FeeAllowance /\ a # NoGrant /\ Zero \in Coins
  BY AllowancesAssumption, ZenonT(30) DEF Zero, Coins
<1>3. /\ grant' \in [Pairs -> FeeAllowance \cup {NoGrant}]
      /\ given' \in [Pairs -> FeeAllowance \cup {NoGrant}] /\ spent' \in [Pairs -> Coins]
      /\ \A q \in Pairs : /\ grant'[q] = IF q = p THEN a ELSE grant[q]
                          /\ given'[q] = IF q = p THEN a ELSE given[q]
                          /\ spent'[q] = IF q = p THEN Zero ELSE spent[q]
  BY <1>1, <1>2, ZenonT(30) DEF FeeOK
<1>4. Spending(time, a, a, Zero)
  <2>1. /\ a.limit \in Coins \cup {NoLimit} /\ a.periodic \in BOOLEAN
        /\ a.periodic => /\ a.period \in Nat /\ a.reset \in Nat
                         /\ a.periodLimit \in Coins /\ a.canSpend \in Coins
    BY <1>2, AllowanceFields, ZenonT(30)
  <2>2. a.limit # NoLimit => Plus(a.limit, Zero) = a.limit
    BY <2>1 DEF Plus, Zero, Coins
  <2>3. a.periodic => ResetTimes(time, a, a, Zero, 0)
    BY <2>1 DEF ResetTimes, Zero, Coins
  <2> QED
    BY <2>2, <2>3 DEF Spending
<1> QED
  BY <1>1, <1>2, <1>3, <1>4, ZenonT(30) DEF FeeOK

\* Allowances that go leave the others as they are.
LEMMA DropFee ==
    ASSUME FeeOK(time, grant, queue, given, spent),
           grant' \in [Pairs -> FeeAllowance \cup {NoGrant}],
           \A p \in Pairs : grant'[p] # NoGrant =>
              grant'[p] = grant[p] /\ (grant[p].exp # Never => <<grant[p].exp, p>> \in queue'),
           given' = given, spent' = spent, time' = time
    PROVE  FeeOK(time', grant', queue', given', spent')
  BY ZenonT(30) DEF FeeOK

LEMMA UseFee ==
    ASSUME time \in Nat, FeeOK(time, grant, queue, given, spent), NEW p \in Pairs,
           NEW fee \in Fees, NEW types \in SUBSET MsgTypes, UseGrantedFees(p, fee, types)
    PROVE  FeeOK(time', grant', queue', given', spent')
<1> DEFINE a == grant[p]
           b == Charged(a, fee)
           c == IF b.limit = Zero THEN NoGrant ELSE b
           s == IF a.limit = NoLimit /\ ~ a.periodic THEN spent[p] ELSE Plus(spent[p], fee)
<1>1. /\ a # NoGrant /\ Accepts(a, fee, types) /\ grant' = [grant EXCEPT ![p] = c]
      /\ time' = time /\ queue' = queue /\ given' = given
  BY ZenonT(30) DEF UseGrantedFees
<1>2. /\ a \in FeeAllowance /\ given[p] \in FeeAllowance /\ given[p] # NoGrant
      /\ spent[p] \in Coins /\ Spending(time, a, given[p], spent[p])
      /\ a.exp # Never => <<a.exp, p>> \in queue
  BY <1>1, ZenonT(30) DEF FeeOK
<1>3. fee \in Coins
  BY FeesAssumption
<1>4. Spending(time, b, given[p], s) /\ s \in Coins
  BY <1>1, <1>2, <1>3, SpendingStep, ZenonT(30)
<1>5. b \in FeeAllowance /\ b.exp = a.exp
  BY <1>1, <1>2, <1>3, ChargedFields, ZenonT(30)
<1>6. spent' = [spent EXCEPT ![p] = s]
  BY ZenonT(30) DEF UseGrantedFees, FeeOK
<1> HIDE DEF a, b, s
<1>7. /\ grant' \in [Pairs -> FeeAllowance \cup {NoGrant}] /\ spent' \in [Pairs -> Coins]
      /\ \A q \in Pairs : /\ grant'[q] = IF q = p THEN c ELSE grant[q]
                          /\ spent'[q] = IF q = p THEN s ELSE spent[q]
  BY <1>1, <1>4, <1>5, <1>6, ZenonT(30) DEF FeeOK
<1>8. c # NoGrant => c = b
  OBVIOUS
<1> HIDE DEF c
<1> QED
  BY <1>1, <1>2, <1>4, <1>5, <1>7, <1>8, ZenonT(30) DEF FeeOK

\* RemoveExpiredAllowances and the next block.
LEMMA EndBlockFee ==
    ASSUME time \in Nat, FeeOK(time, grant, queue, given, spent), EndBlock
    PROVE  FeeOK(time', grant', queue', given', spent') /\ time' \in Nat
<1>1. time' \in Nat /\ time' >= time /\ given' = given /\ spent' = spent
  BY DEF EndBlock
<1>2. grant' \in [Pairs -> FeeAllowance \cup {NoGrant}]
  BY DEF EndBlock, FeeOK
<1>3. ASSUME NEW p \in Pairs, grant'[p] # NoGrant
      PROVE  grant'[p] = grant[p] /\ (grant[p].exp # Never => <<grant[p].exp, p>> \in queue')
  <2>1. grant'[p] = grant[p] /\ ~ \E q \in Due : q[2] = p
    BY <1>3, ZenonT(30) DEF EndBlock
  <2>2. grant[p].exp # Never => <<grant[p].exp, p>> \in queue /\ <<grant[p].exp, p>> \notin Due
    BY <1>3, <2>1, ZenonT(30) DEF FeeOK
  <2> QED
    BY <2>1, <2>2, ZenonT(30) DEF EndBlock
<1>4. ASSUME NEW a \in FeeAllowance, NEW gv \in FeeAllowance, NEW sp, Spending(time, a, gv, sp)
      PROVE  Spending(time', a, gv, sp)
  <2>1. ASSUME NEW n \in Nat, a.periodic, ResetTimes(time, a, gv, sp, n)
        PROVE  ResetTimes(time', a, gv, sp, n)
    <3>1. gv \in PeriodicAllowance
      BY <1>4, <2>1, AllowanceFields, ZenonT(30) DEF Spending
    <3>2. gv.reset \in Nat /\ gv.period \in Nat
      BY <3>1 DEF PeriodicAllowance
    <3>3. (n - 1) * gv.period \in Int
      BY <3>2
    <3> QED
      BY <1>1, <2>1, <3>2, <3>3, SMTT(30) DEF ResetTimes
  <2> QED
    BY <1>4, <2>1, ZenonT(30) DEF Spending
<1>5. ASSUME NEW p \in Pairs, grant'[p] # NoGrant
      PROVE  given[p] # NoGrant /\ Spending(time', grant'[p], given[p], spent[p])
  <2>1. /\ grant'[p] = grant[p] /\ grant[p] \in FeeAllowance /\ given[p] \in FeeAllowance
        /\ given[p] # NoGrant /\ Spending(time, grant[p], given[p], spent[p])
    BY <1>3, <1>5, ZenonT(30) DEF FeeOK
  <2> QED
    BY <1>4, <2>1, ZenonT(30)
<1> QED
  BY <1>1, <1>2, <1>3, <1>5, ZenonT(30) DEF FeeOK

\* Every step keeps the invariant of the allowances.
LEMMA FeeStep == IInv /\ FeeInv /\ [Next]_vars => FeeInv'
<1> SUFFICES ASSUME IInv, FeeInv, [Next]_vars PROVE FeeInv'
  OBVIOUS
<1> DEFINE OK == FeeOK(time', grant', queue', given', spent')
<1>0. time \in Nat /\ FeeOK(time, grant, queue, given, spent) /\ ExecOK
  BY DEF FeeInv, IInv
<1>1. ASSUME UNCHANGED <<time, feeState>> PROVE OK
  BY <1>0, <1>1 DEF feeState
<1>2. ASSUME OK, time' \in Nat, exec' # NoExec => exec # NoExec /\ UNCHANGED <<time, feeBefore>>
      PROVE  FeeInv'
  BY <1>2 DEF FeeInv
<1>3. ASSUME NEW p \in Pairs, RevokeAllowance(p) PROVE OK
  <2>1. grant' \in [Pairs -> FeeAllowance \cup {NoGrant}]
    BY <1>0, <1>3 DEF RevokeAllowance, FeeOK
  <2>2. \A q \in Pairs : grant'[q] # NoGrant =>
          grant'[q] = grant[q] /\ (grant[q].exp # Never => <<grant[q].exp, q>> \in queue')
    BY <1>0, <1>3 DEF RevokeAllowance, FeeOK
  <2> QED
    BY <1>0, <1>3, <2>1, <2>2, DropFee, ZenonT(30) DEF RevokeAllowance
<1>4. CASE exec = NoExec /\ FeeTx /\ UNCHANGED <<authzState, feeBefore>>
  <2>1. OK
    BY <1>0, <1>3, <1>4, GrantFee, UseFee, ZenonT(30) DEF FeeTx
  <2>2. time' = time
    BY <1>4, ZenonT(30) DEF FeeTx, GrantAllowance, RevokeAllowance, UseGrantedFees
  <2> QED
    BY <1>0, <1>2, <1>4, <2>1, <2>2 DEF authzState
<1>5. CASE /\ AuthzTx /\ feeBefore' = IF exec' = NoExec THEN NoExec ELSE feeBefore
           /\ UNCHANGED feeState
  <2>1. time' = time
    BY <1>5 DEF AuthzTx, MsgGrant, MsgRevoke, Authorize, Handle, EndExec
  <2>2. exec' # NoExec => exec # NoExec
    BY <1>5 DEF AuthzTx, MsgGrant, MsgRevoke, Authorize, Handle, EndExec
  <2> QED
    BY <1>0, <1>1, <1>2, <1>5, <2>1, <2>2
<1>6. ASSUME NEW m \in FeeMessages, Authorize(m), UNCHANGED <<feeState, feeBefore>> PROVE FeeInv'
  BY <1>0, <1>1, <1>2, <1>6 DEF Authorize
<1>7. CASE HandleFee
  <2> DEFINE m == exec.msg
  <2>1. exec # NoExec /\ m \in Messages \cup FeeMessages
    BY <1>0, <1>7, ZenonT(30) DEF HandleFee, ExecOK
  <2>2. ASSUME m.type = "allow", GrantAllowance(m.pair, m.allowance) PROVE OK
    <3>1. m.pair \in Pairs /\ m.allowance \in Allowances
      BY <2>1, <2>2, MessageTypes, ZenonT(30)
    <3> QED
      BY <1>0, <2>2, <3>1, GrantFee, ZenonT(30)
  <2>3. ASSUME m.type = "disallow", RevokeAllowance(m.pair) PROVE OK
    <3>1. m.pair \in Pairs
      BY <2>1, <2>3, MessageTypes, ZenonT(30)
    <3> QED
      BY <1>3, <2>3, <3>1, ZenonT(30)
  <2>4. OK
    BY <1>7, <2>2, <2>3, ZenonT(30) DEF HandleFee
  <2>5. time' = time /\ feeBefore' = feeBefore
    BY <1>7, ZenonT(30) DEF HandleFee, GrantAllowance, RevokeAllowance
  <2> QED
    BY <1>0, <1>2, <2>1, <2>4, <2>5
<1>8. CASE StartExec
  <2>1. /\ feeBefore'[1] = grant /\ feeBefore'[2] = queue
        /\ feeBefore'[3] = given /\ feeBefore'[4] = spent /\ UNCHANGED <<time, feeState>>
    BY <1>8, ZenonT(30) DEF StartExec, MsgExec, feeState
  <2> QED
    BY <1>0, <1>1, <2>1, ZenonT(30) DEF FeeInv
<1>9. CASE RevertExec
  BY <1>9, ZenonT(30) DEF RevertExec, FailExec, FeeInv
<1>10. CASE EndBlock /\ BeginBlock
  BY <1>0, <1>2, <1>10, EndBlockFee, ZenonT(30) DEF BeginBlock
<1>11. CASE UNCHANGED vars
  BY <1>0, <1>1, <1>2, <1>11 DEF vars, authzState
<1> QED
  BY <1>4, <1>5, <1>6, <1>7, <1>8, <1>9, <1>10, <1>11, ZenonT(30) DEF Next

\* In x/authz and in x/feegrant, whatever a MsgExec handles and however it ends,
\* what was sent or paid under a grant and what is left of it make up its limit:
\* Accept of SendAuthorization and of the allowances never lets more through.
THEOREM LimitsKept == Spec => []WithinLimits
<1>1. SentInv /\ FeeInv => WithinLimits
  BY ZenonT(30) DEF SentInv, SentOK, FeeInv, FeeOK, Spending, WithinLimits, SentWithinLimit,
     FeesWithinLimit
<1> QED
  BY <1>1, InitInvariant, NextInvariant, SentStart, SentStep, FeeStart, FeeStep, PTL DEF Spec

\* Of n resets the last was due by now: no more than the periods that began.
LEMMA ResetsCounted ==
    ASSUME NEW n \in Nat, NEW t \in Nat, NEW r \in Nat, NEW p \in Nat, p > 0,
           n > 0 => t >= r + (n - 1) * p
    PROVE  LET periods == IF t < r THEN 0 ELSE 1 + (t - r) \div p
           IN  periods \in Nat /\ n <= periods
<1>1. CASE n = 0
  BY <1>1
<1>2. CASE n > 0
  <2> DEFINE k == n - 1
             x == t - r
  <2>1. k \in Nat /\ k * p \in Nat /\ x \in Int /\ x >= k * p
    BY <1>2
  <2>2. ~ (t < r) /\ x \in Nat
    BY <2>1
  <2>3. x \div p \in Nat /\ x < (x \div p + 1) * p
    BY <2>2
  <2>4. ASSUME x \div p < k PROVE FALSE
    <3>1. x \div p + 1 <= k
      BY <2>1, <2>3, <2>4
    <3>2. \A a, b \in Nat : a <= b => a * p <= b * p
      OBVIOUS
    <3>3. (x \div p + 1) * p <= k * p
      BY <2>1, <2>3, <3>1, <3>2
    <3> QED
      BY <2>1, <2>2, <2>3, <3>3
  <2>5. k <= x \div p
    BY <2>1, <2>3, <2>4
  <2> QED
    BY <2>2, <2>3, <2>5
<1> QED
  BY <1>1, <1>2

\* For every period and whenever transactions come, several in a block or none for
\* many periods: tryResetPeriod never makes more than PeriodSpendLimit available
\* for a period, but for a SpendLimit in several denominations.
THEOREM PeriodRateKept == Spec => []PeriodRate
<1>1. ASSUME FeeInv, NEW p \in Pairs, grant[p] # NoGrant, grant[p].periodic,
             grant[p].period > 0, Rated(given[p]), NEW d \in Denoms
      PROVE  spent[p][d] <= given[p].canSpend[d] +
               (IF time < given[p].reset THEN 0 ELSE 1 + (time - given[p].reset) \div given[p].period)
                 * given[p].periodLimit[d]
  <2> DEFINE a == grant[p]
             gv == given[p]
             sp == spent[p]
             periods == IF time < gv.reset THEN 0 ELSE 1 + (time - gv.reset) \div gv.period
  <2>1. /\ time \in Nat /\ a \in FeeAllowance /\ gv \in FeeAllowance /\ sp \in Coins
        /\ Spending(time, a, gv, sp)
    BY <1>1, ZenonT(30) DEF FeeInv, FeeOK
  <2> HIDE DEF a, gv, sp
  <2>2. gv.periodic /\ a.periodic /\ a.period = gv.period /\ gv.period > 0
    BY <1>1, <2>1, ZenonT(30) DEF Spending, a
  <2>3. PICK n \in Nat : ResetTimes(time, a, gv, sp, n)
    BY <2>1, <2>2, ZenonT(30) DEF Spending
  <2>4. /\ gv.reset \in Nat /\ gv.period \in Nat /\ gv.periodLimit \in [Denoms -> Nat]
        /\ gv.canSpend \in [Denoms -> Nat] /\ a.canSpend \in [Denoms -> Nat]
    BY <2>1, <2>2, AllowanceFields, ZenonT(30) DEF Coins
  <2>5. periods \in Nat /\ n <= periods
    BY <2>1, <2>2, <2>3, <2>4, ResetsCounted, ZenonT(30) DEF ResetTimes
  <2> HIDE DEF periods
  <2>6. sp[d] + a.canSpend[d] <= gv.canSpend[d] + n * gv.periodLimit[d]
    BY <1>1, <2>3, ZenonT(30) DEF ResetTimes, gv
  <2>7. /\ sp[d] \in Nat /\ a.canSpend[d] \in Nat /\ gv.canSpend[d] \in Nat
        /\ gv.periodLimit[d] \in Nat
    BY <2>1, <2>4, ZenonT(30) DEF Coins
  <2>8. \A k \in Nat : n * k <= periods * k /\ n * k \in Nat /\ periods * k \in Nat
    BY <2>5
  <2>9. n * gv.periodLimit[d] <= periods * gv.periodLimit[d]
    BY <2>7, <2>8
  <2>10. sp[d] <= gv.canSpend[d] + periods * gv.periodLimit[d]
    BY <2>6, <2>7, <2>8, <2>9, SMTT(30)
  <2> QED
    BY <2>10, ZenonT(30) DEF sp, gv, periods
<1>2. FeeInv => PeriodRate
  BY <1>1, ZenonT(30) DEF PeriodRate, Rated
<1> QED
  BY <1>2, InitInvariant, NextInvariant, FeeStart, FeeStep, PTL DEF Spec

\* BeginBlock of x/authz removes exactly the grants that have expired, and EndBlock
\* of x/feegrant leaves no allowance that has, also after it was revoked and granted
\* again: every allowance that expires is in the queue at its own expiration.
THEOREM ExpiredArePruned == Spec => PrunesExpired
<1>1. ASSUME FeeInv, EndBlock, NEW p \in Pairs, grant'[p] # NoGrant
      PROVE  ~ Expired(grant[p].exp)
  <2>1. grant'[p] = grant[p] /\ ~ \E q \in Due : q[2] = p
    BY <1>1, ZenonT(30) DEF EndBlock
  <2>2. grant[p].exp # Never => <<grant[p].exp, p>> \in queue
    BY <1>1, <2>1, ZenonT(30) DEF FeeInv, FeeOK
  <2> QED
    BY <2>1, <2>2 DEF Expired, Due
<1>2. FeeInv => [EndBlock => \A p \in Pairs : grant'[p] # NoGrant => ~ Expired(grant[p].exp)
                ]_<<time, feeState>>
  BY <1>1, ZenonT(30)
<1>3. Spec => ExpiredPruned
  BY <1>2, InitInvariant, NextInvariant, FeeStart, FeeStep, PTL DEF Spec, ExpiredPruned
<1> QED
  BY <1>3, PrunesExactlyExpired, PTL DEF PrunesExpired
=============================================================================

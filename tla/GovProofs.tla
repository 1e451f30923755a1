------------------------------ MODULE GovProofs ------------------------------
(***************************************************************************)
(* x/gov, for any accounts, stakes, parameters, proposals and votes: the   *)
(* queues match the proposals, so that EndBlocker finds the proposal of    *)
(* every entry that it walks over; the coins of the module are the         *)
(* deposits; and the tally counts every stake once.                        *)
(***************************************************************************)
EXTENDS Gov, FoldProofs, TLAPS

Open(p, status) == p # NoProposal /\ p.status = status

\* The entry of proposal p in a queue.
Entry(p, status, end, id) == IF Open(p, status) THEN {<<end, id>>} ELSE {}

Others(queue, id) == {e \in queue : e[2] # id}

Shape ==
    /\ proposals \in [Ids -> Proposal \cup {NoProposal}]
    /\ params \in DOMAIN ParamSets /\ time \in Int /\ nextId \in Int
    /\ voting \subseteq Ids
    /\ \A id \in Ids : Open(proposals[id], "voting") =>
          proposals[id].votingStart \in Int /\ proposals[id].votingEnd \in Int

\* No proposal has a number that SubmitProposal is still to give.
Fresh == \A id \in Ids : id >= nextId => proposals[id] = NoProposal

\* What is ahead of the iterator is in the queue still.
Walking ==
    /\ walk.queue \in {"none", "inactive", "active"}
    /\ walk.queue = "none" => walk.ahead = {}
    /\ walk.queue = "inactive" => walk.ahead \subseteq inactive
    /\ walk.queue = "active" => walk.ahead \subseteq active

IInv == Shape /\ Fresh /\ QueuesMatch /\ Walking

-----------------------------------------------------------------------------
\* The entries, one proposal at a time.
LEMMA Entries ==
    ASSUME QueuesMatch, Shape
    PROVE  /\ \A e : e \in inactive <=>
                 \E id \in Ids : Open(proposals[id], "deposit") /\ e = <<proposals[id].depositEnd, id>>
           /\ \A e : e \in active <=>
                 \E id \in Ids : Open(proposals[id], "voting") /\ e = <<proposals[id].votingEnd, id>>
           /\ \A id : id \in voting <=> id \in Ids /\ Open(proposals[id], "voting")
BY ZenonT(30) DEF QueuesMatch, Open, Live

\* A step that sets one proposal, and its entries with it, keeps the queues.
LEMMA OneProposal ==
    ASSUME IInv, NEW id \in Ids, NEW p, proposals' = [proposals EXCEPT ![id] = p],
           inactive' = Others(inactive, id) \cup Entry(p, "deposit", p.depositEnd, id),
           active' = Others(active, id) \cup Entry(p, "voting", p.votingEnd, id),
           voting' = (voting \ {id}) \cup (IF Open(p, "voting") THEN {id} ELSE {})
    PROVE  QueuesMatch'
<1>1. /\ proposals'[id] = p
      /\ \A i \in Ids : i # id => proposals'[i] = proposals[i]
    BY DEF IInv, Shape
<1>2. ASSUME NEW e
      PROVE  e \in inactive' <=> \E i \in Ids : Open(proposals'[i], "deposit")
                                                /\ e = <<proposals'[i].depositEnd, i>>
    BY <1>1, Entries DEF Others, Entry, IInv
<1>3. ASSUME NEW e
      PROVE  e \in active' <=> \E i \in Ids : Open(proposals'[i], "voting")
                                              /\ e = <<proposals'[i].votingEnd, i>>
    BY <1>1, Entries DEF Others, Entry, IInv
<1>4. ASSUME NEW i
      PROVE  i \in voting' <=> i \in Ids /\ Open(proposals'[i], "voting")
    BY <1>1, Entries DEF IInv
<1> QED BY <1>2, <1>3, <1>4 DEF QueuesMatch, Open, Live

\* The entries of one proposal, and those of the others.
LEMMA OwnEntries ==
    ASSUME IInv, NEW id \in Ids
    PROVE  /\ Others(inactive, id) = inactive \ {<<proposals[id].depositEnd, id>>}
           /\ Others(active, id) = active \ {<<proposals[id].votingEnd, id>>}
           /\ ~ Open(proposals[id], "deposit") => Others(inactive, id) = inactive
           /\ ~ Open(proposals[id], "voting") => Others(active, id) = active /\ id \notin voting
BY Entries DEF Others, IInv

\* What the inputs and the parameters are.
LEMMA Periods ==
    ASSUME params \in DOMAIN ParamSets
    PROVE  /\ Params.depositPeriod \in Int /\ Params.votingPeriod \in Int
           /\ Params.expeditedVotingPeriod \in Int
<1>1. /\ ParamSets[params].depositPeriod \in Nat /\ ParamSets[params].votingPeriod \in Nat
      /\ ParamSets[params].expeditedVotingPeriod \in Nat
    BY InputAssumption, ZenonT(30)
<1> QED BY <1>1 DEF Params

\* The inputs are integers.
LEMMA Bounds == Amounts \subseteq Int /\ MaxTime \in Int
<1>1. Amounts \subseteq Nat /\ MaxTime \in Nat
    BY InputAssumption, ZenonT(30)
<1> QED BY <1>1

\* The queues are empty in the beginning.
LEMMA InitIInv == Init => IInv
<1> SUFFICES ASSUME Init PROVE IInv
    OBVIOUS
<1>1. Shape /\ Fresh /\ Walking
    BY DEF Init, Shape, Fresh, Walking, Idle, Open
<1>2. QueuesMatch
    BY DEF Init, QueuesMatch, Live
<1> QED BY <1>1, <1>2 DEF IInv

\* A step that sets one proposal leaves the rest of the invariant to show of it.
LEMMA OneShape ==
    ASSUME IInv, NEW id \in Ids, NEW p \in Proposal \cup {NoProposal},
           proposals' = [proposals EXCEPT ![id] = p], UNCHANGED time,
           params' \in DOMAIN ParamSets, voting' \subseteq voting \cup {id},
           nextId' \in {nextId, nextId + 1}, p # NoProposal => id < nextId',
           Open(p, "voting") => p.votingStart \in Int /\ p.votingEnd \in Int
    PROVE  Shape' /\ Fresh'
<1>1. /\ proposals'[id] = p
      /\ \A i \in Ids : i # id => proposals'[i] = proposals[i]
      /\ proposals' \in [Ids -> Proposal \cup {NoProposal}]
    BY DEF IInv, Shape
<1>2. \A i \in Ids : Open(proposals'[i], "voting") =>
          proposals'[i].votingStart \in Int /\ proposals'[i].votingEnd \in Int
    BY <1>1 DEF IInv, Shape
<1>3. Shape'
    BY <1>1, <1>2 DEF IInv, Shape, Open
<1>4. ASSUME NEW i \in Ids, i >= nextId' PROVE proposals'[i] = NoProposal
    BY <1>1, <1>4 DEF IInv, Shape, Fresh, Ids
<1> QED BY <1>3, <1>4 DEF Fresh

\* A proposal that is deleted leaves the queues.
LEMMA DeleteQueues ==
    ASSUME IInv, NEW id \in Ids, proposals[id] # NoProposal, DeleteProposal(id),
           UNCHANGED <<time, params, nextId>>
    PROVE  Shape' /\ Fresh' /\ QueuesMatch'
<1>1. /\ proposals' = [proposals EXCEPT ![id] = NoProposal]
      /\ inactive' = Others(inactive, id) /\ active' = Others(active, id)
    BY OwnEntries DEF DeleteProposal
<1>2. voting' = voting \ {id}
    BY OwnEntries, NoneAssumption, ZenonT(30) DEF DeleteProposal, IInv, Shape
<1>3. ~ Open(NoProposal, "deposit") /\ ~ Open(NoProposal, "voting")
    BY DEF Open
<1>4. QueuesMatch'
    BY <1>1, <1>2, <1>3, OneProposal, ZenonT(30) DEF Entry
<1>5. Shape' /\ Fresh'
    BY <1>1, <1>2, <1>3, OneShape, ZenonT(30) DEF IInv, Shape
<1> QED BY <1>4, <1>5

\* SubmitProposal's p is new, Deposit's is the one that is stored.
LEMMA DepositQueues ==
    ASSUME IInv, NEW id \in Ids, NEW p \in Proposal, NEW a, NEW amount \in Int,
           AddDeposit(id, p, a, amount), UNCHANGED <<time, params>>,
           \/ id = nextId /\ nextId' = nextId + 1 /\ p.status = "deposit"
           \/ proposals[id] = p /\ nextId' = nextId
    PROVE  Shape' /\ Fresh' /\ QueuesMatch'
<1> DEFINE q == [p EXCEPT !.total = @ + amount]
           begins == q.status = "deposit" /\ q.total >= MinDeposit(q.expedited)
           period == IF q.expedited THEN Params.expeditedVotingPeriod ELSE Params.votingPeriod
           r == [q EXCEPT !.status = "voting", !.votingStart = time, !.votingEnd = time + period]
           new == IF begins THEN r ELSE q
<1>1. /\ q \in Proposal /\ q.status = p.status /\ q.depositEnd = p.depositEnd
      /\ q.votingStart = p.votingStart /\ q.votingEnd = p.votingEnd
    BY DEF Proposal
<1>2. period \in Int
    BY <1>1, Periods DEF IInv, Shape
<1>3. /\ r \in Proposal /\ r.status = "voting"
      /\ r.votingStart \in Int /\ r.votingEnd \in Int
    <2>1. time \in Int /\ time + period \in Int
        BY <1>2 DEF IInv, Shape
    <2> HIDE DEF q, period
    <2> QED BY <1>1, <2>1, ZenonT(30) DEF Proposal
<1>4. /\ SetProposal(id, new)
      /\ inactive' = IF begins THEN inactive \ {<<p.depositEnd, id>>}
                     ELSE IF id = nextId THEN inactive \cup {<<p.depositEnd, id>>} ELSE inactive
      /\ active' = IF begins THEN active \cup {<<r.votingEnd, id>>} ELSE active
    BY DEF AddDeposit
<1>5. p.status \in {"deposit", "voting"}
    BY ZenonT(30) DEF AddDeposit, Live
<1> HIDE DEF q, r, period
<1>6. new \in Proposal /\ new # NoProposal /\ q # NoProposal /\ r # NoProposal /\ p # NoProposal
    BY <1>1, <1>3, NoneAssumption
<1>7. CASE id = nextId /\ nextId' = nextId + 1 /\ p.status = "deposit"
    <2>1. proposals[id] = NoProposal
        BY <1>7 DEF IInv, Fresh, Shape
    <2>2. Others(inactive, id) = inactive /\ Others(active, id) = active /\ id \notin voting
          /\ <<p.depositEnd, id>> \notin inactive
        BY <2>1, OwnEntries, Entries DEF Open, IInv
    <2>3. QueuesMatch'
        BY <1>1, <1>3, <1>4, <1>6, <1>7, <2>2, OneProposal, ZenonT(30) DEF SetProposal, Entry, Open
    <2>4. id < nextId'
        BY <1>7 DEF IInv, Shape
    <2>5. Shape' /\ Fresh'
        <3>1. /\ proposals' = [proposals EXCEPT ![id] = new] /\ voting' \subseteq voting \cup {id}
            BY <1>4 DEF SetProposal
        <3>2. Open(new, "voting") => new.votingStart \in Int /\ new.votingEnd \in Int
            BY <1>1, <1>3, <1>7 DEF Open
        <3>3. params' \in DOMAIN ParamSets
            BY DEF IInv, Shape
        <3> HIDE DEF new
        <3> QED BY <1>6, <1>7, <2>4, <3>1, <3>2, <3>3, OneShape, ZenonT(30)
    <2> QED BY <2>3, <2>5
<1>8. CASE proposals[id] = p /\ nextId' = nextId
    <2>1. id < nextId
        BY <1>6, <1>8 DEF IInv, Fresh, Shape, Ids
    <2>2. /\ begins => Others(active, id) = active /\ Others(inactive, id) = inactive \ {<<p.depositEnd, id>>}
          /\ p.status = "deposit" => Others(active, id) = active /\ id \notin voting
          /\ p.status = "voting" => Others(inactive, id) = inactive
        BY <1>1, <1>8, OwnEntries, ZenonT(30) DEF Open
    <2>3. /\ p.status = "deposit" => inactive = Others(inactive, id) \cup {<<p.depositEnd, id>>}
          /\ p.status = "voting" => active = Others(active, id) \cup {<<p.votingEnd, id>>}
        BY <1>6, <1>8, OwnEntries, Entries, ZenonT(30) DEF IInv, Open
    <2>4. QueuesMatch'
        <3>1. id # nextId /\ (p.status = "voting" => id \in voting)
            BY <1>6, <1>8, <2>1, Entries, SMTT(30) DEF IInv, Shape, Ids, Open
        <3>2. CASE begins
            BY <1>1, <1>3, <1>4, <1>6, <2>2, <3>2, OneProposal, ZenonT(30) DEF SetProposal,
               Entry, Open
        <3>3. CASE ~ begins /\ p.status = "deposit"
            <4>1. /\ proposals' = [proposals EXCEPT ![id] = q] /\ voting' = voting \ {id}
                  /\ inactive' = inactive /\ active' = active
                BY <1>1, <1>4, <3>1, <3>3, ZenonT(30) DEF SetProposal
            <4> QED BY <1>1, <1>6, <2>2, <2>3, <3>3, <4>1, OneProposal, ZenonT(30) DEF Entry, Open
        <3>4. CASE ~ begins /\ p.status = "voting"
            <4>1. /\ proposals' = [proposals EXCEPT ![id] = q] /\ voting' = voting \cup {id}
                  /\ inactive' = inactive /\ active' = active
                BY <1>1, <1>4, <3>1, <3>4, ZenonT(30) DEF SetProposal
            <4> QED BY <1>1, <1>6, <2>2, <2>3, <3>4, <4>1, OneProposal, ZenonT(30) DEF Entry, Open
        <3> QED BY <1>5, <3>2, <3>3, <3>4
    <2>5. Shape' /\ Fresh'
        <3>1. /\ proposals' = [proposals EXCEPT ![id] = new] /\ voting' \subseteq voting \cup {id}
            BY <1>4 DEF SetProposal
        <3>2. Open(new, "voting") => new.votingStart \in Int /\ new.votingEnd \in Int
            <4>1. p.status = "voting" => p.votingStart \in Int /\ p.votingEnd \in Int
                BY <1>6, <1>8, ZenonT(30) DEF Open, IInv, Shape
            <4> QED BY <1>1, <1>3, <4>1, ZenonT(30) DEF Open
        <3>3. params' \in DOMAIN ParamSets
            BY DEF IInv, Shape
        <3> HIDE DEF new
        <3> QED BY <1>6, <1>8, <2>1, <3>1, <3>2, <3>3, OneShape, ZenonT(30)
    <2> QED BY <2>4, <2>5
<1> QED BY <1>7, <1>8

-----------------------------------------------------------------------------
\* Submitting keeps the queues in step, and so do the actions that follow.
LEMMA SubmitIInv ==
    ASSUME IInv, NEW s \in Submissions, SubmitProposal(s[1], s[2], s[3], s[4])
    PROVE  IInv'
<1> DEFINE p == [status |-> "deposit", expedited |-> s[2], proposer |-> s[1],
                 content |-> s[3], total |-> 0, depositEnd |-> time + Params.depositPeriod,
                 votingStart |-> NoTime, votingEnd |-> NoTime]
<1>1. s[1] \in Accounts /\ s[2] \in BOOLEAN /\ s[3] \in Contents /\ s[4] \in Int
    <2>1. s \in Accounts \X BOOLEAN \X Contents \X Nat
        BY InputAssumption, ZenonT(30)
    <2> QED BY <2>1
<1>2. time + Params.depositPeriod \in Int
    BY Periods DEF IInv, Shape
<1>3. p \in Proposal /\ p.status = "deposit"
    BY <1>1, <1>2 DEF Proposal
<1>4. /\ AddDeposit(nextId, p, s[1], s[4]) /\ nextId' = nextId + 1 /\ nextId \in Ids
      /\ walk' = Idle /\ UNCHANGED <<time, params>>
    BY DEF SubmitProposal
<1> HIDE DEF p
<1>5. Shape' /\ Fresh' /\ QueuesMatch'
    BY <1>1, <1>3, <1>4, DepositQueues, ZenonT(30)
<1>6. Walking'
    BY <1>4 DEF Idle, Walking
<1> QED BY <1>5, <1>6 DEF IInv

\* A deposit may move the proposal to the queue of active ones.
LEMMA DepositIInv ==
    ASSUME IInv, NEW id \in Ids, NEW a \in Accounts, NEW amount \in Amounts, Deposit(id, a, amount)
    PROVE  IInv'
<1>1. /\ AddDeposit(id, proposals[id], a, amount) /\ nextId' = nextId
      /\ walk' = Idle /\ UNCHANGED <<time, params>>
    BY DEF Deposit
<1>2. proposals[id] \in Proposal /\ amount \in Int
    BY Bounds DEF Deposit, IInv, Shape
<1>3. Shape' /\ Fresh' /\ QueuesMatch'
    BY <1>1, <1>2, DepositQueues, ZenonT(30)
<1>4. Walking'
    BY <1>1 DEF Idle, Walking
<1> QED BY <1>3, <1>4 DEF IInv

\* A cancelled proposal leaves both queues.
LEMMA CancelIInv ==
    ASSUME IInv, NEW id \in Ids, NEW a, CancelProposal(id, a)
    PROVE  IInv'
<1>1. /\ DeleteProposal(id) /\ proposals[id] # NoProposal
      /\ walk' = Idle /\ UNCHANGED <<time, params, nextId>>
    BY DEF CancelProposal, Live
<1>2. Shape' /\ Fresh' /\ QueuesMatch'
    BY <1>1, DeleteQueues
<1>3. Walking'
    BY <1>1 DEF Idle, Walking
<1> QED BY <1>2, <1>3 DEF IInv

\* What the iterator is at is an entry of a proposal of that period.
LEMMA AtProposal ==
    ASSUME IInv, NEW e \in walk.ahead
    PROVE  /\ e[2] \in Ids /\ proposals[e[2]] \in Proposal
           /\ walk.queue = "inactive" => e = <<proposals[e[2]].depositEnd, e[2]>>
           /\ walk.queue = "active" => /\ e = <<proposals[e[2]].votingEnd, e[2]>>
                                       /\ Open(proposals[e[2]], "voting")
<1>1. CASE walk.queue = "inactive"
    <2>1. PICK id \in Ids : Open(proposals[id], "deposit") /\ e = <<proposals[id].depositEnd, id>>
        BY <1>1, Entries, ZenonT(30) DEF IInv, Walking
    <2> QED BY <1>1, <2>1 DEF Open, IInv, Shape
<1>2. CASE walk.queue = "active"
    <2>1. PICK id \in Ids : Open(proposals[id], "voting") /\ e = <<proposals[id].votingEnd, id>>
        BY <1>2, Entries DEF IInv, Walking
    <2> QED BY <1>2, <2>1, ZenonT(30) DEF Open, IInv, Shape
<1> QED BY <1>1, <1>2, ZenonT(30) DEF IInv, Walking

\* EndBlocker drops a proposal whose deposit period is over.
LEMMA DropIInv ==
    ASSUME IInv, NEW e \in walk.ahead, DropInactive(e)
    PROVE  IInv'
<1>1. /\ walk.queue = "inactive" /\ DeleteProposal(e[2]) /\ proposals[e[2]] # NoProposal
      /\ walk' = [queue |-> "inactive", ahead |-> walk.ahead \ {e}]
      /\ UNCHANGED <<time, params, nextId>>
    BY ZenonT(30) DEF DropInactive, Passed
<1>2. e[2] \in Ids /\ e = <<proposals[e[2]].depositEnd, e[2]>>
    BY <1>1, AtProposal, ZenonT(30)
<1>3. Shape' /\ Fresh' /\ QueuesMatch'
    BY <1>1, <1>2, DeleteQueues, ZenonT(30)
<1>4. inactive' = inactive \ {e}
    BY <1>1, <1>2, ZenonT(30) DEF DeleteProposal
<1>5. Walking'
    BY <1>1, <1>4, ZenonT(30) DEF IInv, Walking
<1> QED BY <1>3, <1>5 DEF IInv

\* EndBlocker ends a vote, converts an expedited proposal or executes a proposal.
LEMMA TallyIInv ==
    ASSUME IInv, NEW e \in walk.ahead, TallyActive(e)
    PROVE  IInv'
<1> DEFINE id == e[2]
           p == proposals[id]
           regularEnd == p.votingStart + Params.votingPeriod
           left == active \ {<<p.votingEnd, id>>}
           decided(status) == [p EXCEPT !.status = status]
           regular == Converted(p, regularEnd)
<1>1. /\ walk.queue = "active" /\ walk' = [queue |-> "active", ahead |-> walk.ahead \ {e}]
      /\ UNCHANGED <<time, nextId, inactive>>
    BY ZenonT(30) DEF TallyActive, Passed
<1>2. /\ id \in Ids /\ p \in Proposal /\ p.status = "voting" /\ p # NoProposal
      /\ e = <<p.votingEnd, id>> /\ p.votingStart \in Int
    BY <1>1, AtProposal, ZenonT(30) DEF Open, IInv, Shape
<1>3. /\ left = Others(active, id) /\ inactive = Others(inactive, id) /\ left = active \ {e}
      /\ id < nextId
    BY <1>2, OwnEntries DEF Open, IInv, Shape, Fresh, Ids
<1>4. \/ /\ params' \in DOMAIN ParamSets /\ active' = left
         /\ \E status \in {"passed", "failed", "rejected"} : SetProposal(id, decided(status))
      \/ /\ UNCHANGED params /\ active' = left \cup {<<regularEnd, id>>}
         /\ SetProposal(id, regular)
    <2>1. CASE Tally(id).passes
        <3>1. /\ params' = IF p.content \in DOMAIN ParamSets THEN p.content ELSE params
              /\ SetProposal(id, [p EXCEPT !.status = IF p.content = "fails" THEN "failed" ELSE "passed"])
              /\ active' = left
            BY <2>1, ZenonT(30) DEF TallyActive
        <3> QED BY <3>1, ZenonT(30) DEF IInv, Shape
    <2>2. CASE ~ Tally(id).passes /\ p.expedited
        BY <2>2, ZenonT(30) DEF TallyActive
    <2>3. CASE ~ Tally(id).passes /\ ~ p.expedited
        BY <2>3, ZenonT(30) DEF TallyActive, IInv, Shape
    <2> QED BY <2>1, <2>2, <2>3, ZenonT(30)
<1>5. QueuesMatch' /\ Shape' /\ Fresh'
    <2>1. ASSUME NEW status \in {"passed", "failed", "rejected"}, SetProposal(id, decided(status)),
                 params' \in DOMAIN ParamSets, active' = left
          PROVE  QueuesMatch' /\ Shape' /\ Fresh'
        <3> DEFINE new == decided(status)
        <3>1. new \in Proposal /\ new.status = status
            BY <1>2 DEF Proposal
        <3>2. new # NoProposal /\ ~ Open(new, "voting") /\ ~ Open(new, "deposit")
            BY <3>1, NoneAssumption DEF Open
        <3>3. proposals' = [proposals EXCEPT ![id] = new] /\ voting' = voting \ {id}
            BY <2>1, <3>1 DEF SetProposal
        <3> HIDE DEF new, left, id, p
        <3>4. QueuesMatch'
            BY <1>1, <1>2, <1>3, <2>1, <3>2, <3>3, OneProposal, ZenonT(30) DEF Entry
        <3> QED BY <1>1, <1>2, <1>3, <2>1, <3>1, <3>2, <3>3, <3>4, OneShape, ZenonT(30)
    <2>2. ASSUME SetProposal(id, regular), UNCHANGED params, active' = left \cup {<<regularEnd, id>>}
          PROVE  QueuesMatch' /\ Shape' /\ Fresh'
        <3>1. regularEnd \in Int
            BY <1>2, Periods DEF IInv, Shape
        <3> HIDE DEF regularEnd
        <3>2. /\ regular \in Proposal /\ regular.status = "voting" /\ regular.votingEnd = regularEnd
              /\ regular.votingStart = p.votingStart
            BY <1>2, <3>1, ZenonT(30) DEF Proposal, Converted
        <3>3. regular # NoProposal /\ Open(regular, "voting") /\ ~ Open(regular, "deposit")
            BY <3>2, NoneAssumption, ZenonT(30) DEF Open
        <3>4. proposals' = [proposals EXCEPT ![id] = regular] /\ voting' = voting \cup {id}
            BY <2>2, <3>2, ZenonT(30) DEF SetProposal
        <3>5. params' \in DOMAIN ParamSets
            BY <2>2, ZenonT(30) DEF IInv, Shape
        <3> HIDE DEF regular, left, id, p
        <3>6. QueuesMatch'
            BY <1>1, <1>2, <1>3, <2>2, <3>2, <3>3, <3>4, OneProposal, ZenonT(30) DEF Entry
        <3> QED BY <1>1, <1>2, <1>3, <3>1, <3>2, <3>3, <3>4, <3>5, <3>6, OneShape, ZenonT(30)
    <2> QED BY <1>4, <2>1, <2>2, ZenonT(30)
<1>6. Walking'
    BY <1>1, <1>3, <1>4, ZenonT(30) DEF IInv, Walking
<1> QED BY <1>5, <1>6 DEF IInv

\* Steps that leave the proposals and their queues alone.
LEMMA StillIInv ==
    ASSUME IInv, UNCHANGED <<params, nextId, proposals, inactive, active, voting>>,
           time' \in Int, Walking'
    PROVE  IInv'
BY ZenonT(30) DEF IInv, Shape, Fresh, QueuesMatch, Open

\* Every step keeps the invariant of the queues.
LEMMA NextIInv ==
    ASSUME IInv, [Next]_vars
    PROVE  IInv'
<1>1. ASSUME NEW s \in Submissions, SubmitProposal(s[1], s[2], s[3], s[4]) PROVE IInv'
    BY <1>1, SubmitIInv
<1>2. ASSUME NEW id \in Ids, NEW a \in Accounts, NEW amount \in Amounts, Deposit(id, a, amount)
      PROVE  IInv'
    BY <1>2, DepositIInv
<1>3. ASSUME NEW id \in Ids, NEW a \in Accounts, NEW ballot \in Ballots, Vote(id, a, ballot)
      PROVE  IInv'
    BY <1>3, StillIInv, ZenonT(30) DEF Vote, IInv, Shape, Walking
<1>4. ASSUME NEW id \in Ids, NEW a \in Accounts, CancelProposal(id, a) PROVE IInv'
    BY <1>4, CancelIInv
<1>5. ASSUME NEW e \in walk.ahead, DropInactive(e) PROVE IInv'
    BY <1>5, DropIInv
<1>6. ASSUME NEW e \in walk.ahead, TallyActive(e) PROVE IInv'
    BY <1>6, TallyIInv
<1>7. CASE EndBlocker
    <2>1. Walking'
        BY <1>7, ZenonT(30) DEF EndBlocker, Walking, Due, stores
    <2> QED BY <1>7, <2>1, StillIInv, ZenonT(30) DEF EndBlocker, stores, IInv, Shape
<1>8. CASE WalkActive
    <2>1. Walking'
        BY <1>8, ZenonT(30) DEF WalkActive, Walking, Due, stores
    <2> QED BY <1>8, <2>1, StillIInv, ZenonT(30) DEF WalkActive, stores, IInv, Shape
<1>9. CASE NextBlock
    <2>1. Walking'
        BY <1>9, ZenonT(30) DEF NextBlock, Walking, Idle
    <2>2. time' \in Int
        <3>1. PICK d \in 1 .. 2 : time' = Min({time + d, MaxTime})
            BY <1>9 DEF NextBlock
        <3>2. time + d \in Int /\ MaxTime \in Int
            BY Bounds DEF IInv, Shape
        <3>3. \E x \in {time + d, MaxTime} : \A y \in {time + d, MaxTime} : x <= y
            BY <3>2
        <3>4. Min({time + d, MaxTime}) \in {time + d, MaxTime}
            BY <3>3 DEF Min
        <3> QED BY <3>1, <3>2, <3>4
    <2> QED BY <1>9, <2>1, <2>2, StillIInv, ZenonT(30) DEF NextBlock, stores
<1>10. CASE UNCHANGED vars
    BY <1>10, StillIInv, ZenonT(30) DEF vars, stores, IInv, Shape, Walking
<1> QED BY <1>1, <1>2, <1>3, <1>4, <1>5, <1>6, <1>7, <1>8, <1>9, <1>10, ZenonT(30) DEF Next,
           Txs, Blocks

(***************************************************************************)
(* For any number of proposals, accounts, votes and changes of the         *)
(* parameters: a proposal in its deposit or voting period is in exactly    *)
(* the queue of that period, at the end of the period, and no other is in  *)
(* any (SetProposal, DeleteProposal, AddDeposit, EndBlocker).              *)
(***************************************************************************)
THEOREM QueuesAlwaysMatch == Spec => []QueuesMatch
<1>1. Init => IInv
    BY InitIInv
<1>2. IInv /\ [Next]_vars => IInv'
    BY NextIInv
<1>3. IInv => QueuesMatch
    BY DEF IInv
<1> QED BY <1>1, <1>2, <1>3, PTL DEF Spec

\* EndBlocker's iterator over a queue comes to no entry whose proposal is gone,
\* although the walk deletes entries and adds others.
EntriesFound ==
    \A e \in walk.ahead : e[2] \in Ids /\ proposals[e[2]] # NoProposal

(***************************************************************************)
(* The Get of a queue's entry in EndBlocker, whose error would halt the    *)
(* chain, always finds the proposal.                                       *)
(***************************************************************************)
THEOREM EndBlockerFinds == Spec => []EntriesFound
<1>1. Init => IInv
    BY InitIInv
<1>2. IInv /\ [Next]_vars => IInv'
    BY NextIInv
<1>3. IInv => EntriesFound
    BY AtProposal, NoneAssumption, ZenonT(30) DEF EntriesFound
<1> QED BY <1>1, <1>2, <1>3, PTL DEF Spec
-----------------------------------------------------------------------------
(* The coins.                                                              *)

CoinShape ==
    /\ deposits \in [Ids \X Accounts -> Int \cup {NoDeposit}]
    /\ bank \in [Accounts -> Int] /\ module \in Int /\ burned \in Int

CoinInv == CoinShape /\ DepositsBacked

DepositsOf(id) == [a \in Accounts |-> Deposited(id, a)]
Totals == [id \in Ids |-> Total(id)]

\* There are finitely many accounts and proposals, so that there are sums over them.
LEMMA Finite == IsFiniteSet(Accounts) /\ IsFiniteSet(Ids)
<1>0. MaxId \in Nat
    BY InputAssumption, ZenonT(30)
<1>1. MaxId \in Int /\ 1 \in Int
    BY <1>0
<1>2. IsFiniteSet(Ids)
    BY <1>1, FS_Interval DEF Ids
<1> QED BY <1>2, StakeAssumption, ZenonT(30)

\* The sums are those of numbers.
SumsAreInt ==
    /\ \A id \in Ids : /\ IsIntOn(DepositsOf(id), Accounts) /\ Total(id) \in Int
                       /\ Total(id) = SumFunctionOnSet(DepositsOf(id), Accounts)
    /\ IsIntOn(Totals, Ids) /\ IsIntOn(bank, Accounts)
    /\ SumFunction(Totals) = SumFunctionOnSet(Totals, Ids)
    /\ SumFunction(Totals) \in Int
    /\ SumFunction(bank) = SumFunctionOnSet(bank, Accounts)
    /\ SumFunction(bank) \in Int

\* The sums of coins are numbers.
LEMMA Sums == CoinShape => SumsAreInt
<1> SUFFICES ASSUME CoinShape PROVE SumsAreInt
    OBVIOUS
<1>1. ASSUME NEW id \in Ids
      PROVE  /\ IsIntOn(DepositsOf(id), Accounts) /\ Total(id) \in Int
             /\ Total(id) = SumFunctionOnSet(DepositsOf(id), Accounts)
    <2>1. IsIntOn(DepositsOf(id), Accounts)
        <3>1. ASSUME NEW a \in Accounts PROVE Deposited(id, a) \in Int
            BY DEF CoinShape, Deposited
        <3> QED BY <3>1 DEF DepositsOf, IsIntOn
    <2>2. Total(id) = SumFunctionOnSet(DepositsOf(id), Accounts)
        <3>1. DOMAIN DepositsOf(id) = Accounts /\ Total(id) = SumFunction(DepositsOf(id))
            BY DEF DepositsOf, Total
        <3> QED BY <3>1, SumAll
    <2>3. SumFunctionOnSet(DepositsOf(id), Accounts) \in Int
        BY <2>1, Finite, SumInt
    <2> QED BY <2>1, <2>2, <2>3
<1>2. IsIntOn(Totals, Ids) /\ DOMAIN Totals = Ids
    BY <1>1, ZenonT(30) DEF Totals, IsIntOn
<1>3. IsIntOn(bank, Accounts) /\ DOMAIN bank = Accounts
    BY DEF CoinShape, IsIntOn
<1>4. SumFunction(Totals) = SumFunctionOnSet(Totals, Ids) /\ SumFunction(Totals) \in Int
    BY <1>2, SumAll, SumInt, Finite
<1>5. SumFunction(bank) = SumFunctionOnSet(bank, Accounts) /\ SumFunction(bank) \in Int
    BY <1>3, SumAll, SumInt, Finite
<1> QED BY <1>1, <1>2, <1>3, <1>4, <1>5, ZenonT(30) DEF SumsAreInt

\* A step that changes the deposits of one proposal.
LEMMA OneTotal ==
    ASSUME CoinShape, CoinShape', NEW id \in Ids,
           \A i \in Ids, a \in Accounts : i # id => deposits'[<<i, a>>] = deposits[<<i, a>>]
    PROVE  /\ \A i \in Ids : i # id => Total(i)' = Total(i)
           /\ SumFunction(Totals') = SumFunction(Totals) - Total(id) + Total(id)'
<1>0. SumsAreInt /\ SumsAreInt'
    <2>1. (CoinShape => SumsAreInt)'
        BY Sums, PTL
    <2> QED BY <2>1, Sums
<1>1. ASSUME NEW i \in Ids, i # id PROVE Total(i)' = Total(i)
    <2>1. \A a \in Accounts : Deposited(i, a)' = Deposited(i, a)
        BY <1>1, ZenonT(30) DEF Deposited
    <2> QED BY <2>1, ZenonT(30) DEF Total
<1>2. /\ IsIntOn(Totals, Ids) /\ Totals'[id] \in Int
      /\ \A i \in Ids \ {id} : Totals'[i] = Totals[i]
      /\ Totals[id] = Total(id) /\ Totals'[id] = Total(id)'
    BY <1>0, <1>1, ZenonT(30) DEF Totals, SumsAreInt
<1>3. SumFunctionOnSet(Totals', Ids) = SumFunctionOnSet(Totals, Ids) - Totals[id] + Totals'[id]
    BY <1>2, Finite, SumUpdate
<1> QED BY <1>0, <1>1, <1>2, <1>3, ZenonT(30) DEF SumsAreInt
\* The deposits of a proposal are settled: they are deleted, and what they came to
\* has left the module for the accounts or was burned.
Settled(id) ==
    /\ module' = SumFunction(Totals')
    /\ module' + burned' + SumFunction(bank') = module + burned + SumFunction(bank)
    /\ \A i \in Ids : i # id => Total(i)' = Total(i)
    /\ \A i \in Ids, a \in Accounts :
          deposits'[<<i, a>>] = IF i = id THEN NoDeposit ELSE deposits[<<i, a>>]

\* The deposits that are deleted come to nothing any more.
LEMMA Deleted ==
    ASSUME CoinInv, NEW id \in Ids, deposits' = WithoutDeposits(id),
           bank' \in [Accounts -> Int], burned' \in Int, module' = module - Total(id)
    PROVE  /\ CoinShape'
           /\ module' = SumFunction(Totals')
           /\ \A i \in Ids : i # id => Total(i)' = Total(i)
           /\ \A i \in Ids, a \in Accounts :
                 deposits'[<<i, a>>] = IF i = id THEN NoDeposit ELSE deposits[<<i, a>>]
<1>0. CoinShape /\ SumsAreInt
    BY Sums DEF CoinInv
<1>1. module' \in Int
    BY <1>0 DEF SumsAreInt, CoinShape
<1>2. /\ deposits' \in [Ids \X Accounts -> Int \cup {NoDeposit}]
      /\ \A i \in Ids, a \in Accounts :
            deposits'[<<i, a>>] = IF i = id THEN NoDeposit ELSE deposits[<<i, a>>]
    BY <1>0 DEF WithoutDeposits, CoinShape
<1>3. CoinShape'
    BY <1>1, <1>2, ZenonT(30) DEF CoinShape
<1>4. Total(id)' = 0
    <2>1. \A a \in Accounts : DepositsOf(id)'[a] = 0
        BY <1>2, ZenonT(30) DEF DepositsOf, Deposited
    <2>2. SumFunctionOnSet(DepositsOf(id)', Accounts) = 0
        BY <2>1, Finite, SumZero, ZenonT(30)
    <2>3. (CoinShape => SumsAreInt)'
        BY Sums, PTL
    <2> QED BY <1>3, <2>2, <2>3, ZenonT(30) DEF SumsAreInt
<1>5. /\ \A i \in Ids : i # id => Total(i)' = Total(i)
      /\ SumFunction(Totals') = SumFunction(Totals) - Total(id) + Total(id)'
    BY <1>0, <1>2, <1>3, OneTotal, ZenonT(30)
<1>6. module = SumFunction(Totals)
    BY ZenonT(30) DEF CoinInv, DepositsBacked, Totals
<1>7. module' = SumFunction(Totals')
    BY <1>0, <1>4, <1>5, <1>6 DEF SumsAreInt
<1> QED BY <1>2, <1>3, <1>5, <1>7, ZenonT(30)

\* RefundAndDeleteDeposits.
LEMMA RefundCoins ==
    ASSUME CoinInv, NEW id \in Ids, RefundAndDeleteDeposits(id)
    PROVE  CoinShape' /\ Settled(id)
<1>0. CoinShape /\ SumsAreInt
    BY Sums DEF CoinInv
<1>1. /\ \A a \in Accounts : bank'[a] = bank[a] + DepositsOf(id)[a]
      /\ bank' \in [Accounts -> Int]
      /\ IsIntOn(DepositsOf(id), Accounts) /\ IsIntOn(bank, Accounts)
    <2>1. bank' = [a \in Accounts |-> bank[a] + Deposited(id, a)]
        BY DEF RefundAndDeleteDeposits
    <2>2. \A a \in Accounts : DepositsOf(id)[a] = Deposited(id, a) /\ DepositsOf(id)[a] \in Int
        BY <1>0, ZenonT(30) DEF DepositsOf, SumsAreInt, IsIntOn
    <2>3. \A a \in Accounts : bank[a] \in Int
        BY <1>0 DEF CoinShape
    <2> QED BY <1>0, <2>1, <2>2, <2>3 DEF SumsAreInt
<1>2. SumFunctionOnSet(bank', Accounts)
         = SumFunctionOnSet(bank, Accounts) + SumFunctionOnSet(DepositsOf(id), Accounts)
    BY <1>1, Finite, SumPlus
<1>3. SumFunction(bank') = SumFunction(bank) + Total(id)
    BY <1>0, <1>1, <1>2, SumAll, ZenonT(30) DEF SumsAreInt
<1>4. /\ deposits' = WithoutDeposits(id) /\ burned' \in Int /\ burned' = burned
      /\ module' = module - Total(id)
    BY <1>0 DEF RefundAndDeleteDeposits, CoinShape
<1>5. /\ CoinShape'
      /\ module' = SumFunction(Totals')
      /\ \A i \in Ids : i # id => Total(i)' = Total(i)
      /\ \A i \in Ids, a \in Accounts :
            deposits'[<<i, a>>] = IF i = id THEN NoDeposit ELSE deposits[<<i, a>>]
    BY <1>1, <1>4, Deleted, ZenonT(30)
<1>6. module' + burned' + SumFunction(bank') = module + burned + SumFunction(bank)
    BY <1>0, <1>3, <1>4 DEF SumsAreInt, CoinShape
<1> QED BY <1>5, <1>6, ZenonT(30) DEF Settled

\* DeleteAndBurnDeposits.
LEMMA BurnCoins ==
    ASSUME CoinInv, NEW id \in Ids, DeleteAndBurnDeposits(id)
    PROVE  CoinShape' /\ Settled(id)
<1>0. CoinShape /\ SumsAreInt
    BY Sums DEF CoinInv
<1>1. /\ deposits' = WithoutDeposits(id) /\ bank' = bank /\ bank' \in [Accounts -> Int]
      /\ module' = module - Total(id) /\ burned' = burned + Total(id) /\ burned' \in Int
    BY <1>0 DEF DeleteAndBurnDeposits, CoinShape, SumsAreInt
<1>2. /\ CoinShape'
      /\ module' = SumFunction(Totals')
      /\ \A i \in Ids : i # id => Total(i)' = Total(i)
      /\ \A i \in Ids, a \in Accounts :
            deposits'[<<i, a>>] = IF i = id THEN NoDeposit ELSE deposits[<<i, a>>]
    BY <1>1, Deleted, ZenonT(30)
<1>3. module' + burned' + SumFunction(bank') = module + burned + SumFunction(bank)
    BY <1>0, <1>1 DEF SumsAreInt, CoinShape
<1> QED BY <1>2, <1>3 DEF Settled

\* ChargeDeposit: what is kept of each deposit goes to one account or is burned.
LEMMA ChargeCoins ==
    ASSUME CoinInv, params \in DOMAIN ParamSets, NEW id \in Ids, ChargeDeposit(id)
    PROVE  CoinShape' /\ Settled(id)
<1> DEFINE charge == [a \in Accounts |-> (Deposited(id, a) * Params.cancelRatio) \div 100]
           charges == SumFunction(charge)
           dest == Params.cancelDest
           none == [a \in Accounts |-> 0]
           sent == [a \in Accounts |-> IF a = dest THEN charges ELSE 0]
           given == [a \in Accounts |-> bank[a] + DepositsOf(id)[a]]
           left == [a \in Accounts |-> given[a] - charge[a]]
<1>0. CoinShape /\ SumsAreInt
    BY Sums DEF CoinInv
<1>1. Params.cancelRatio \in Int
    <2>1. ValidParams(ParamSets[params])
        BY InputAssumption, ZenonT(30)
    <2>2. ParamSets[params].cancelRatio \in 0 .. 100
        BY <2>1, ZenonT(30) DEF ValidParams
    <2> QED BY <2>2 DEF Params
<1>2. ASSUME NEW a \in Accounts
      PROVE  /\ bank[a] \in Int /\ DepositsOf(id)[a] \in Int /\ charge[a] \in Int
             /\ DepositsOf(id)[a] = Deposited(id, a)
    <2>1. bank[a] \in Int
        BY <1>0 DEF CoinShape
    <2>2. DepositsOf(id)[a] = Deposited(id, a) /\ DepositsOf(id)[a] \in Int
        BY <1>0, ZenonT(30) DEF DepositsOf, SumsAreInt, IsIntOn
    <2>3. charge[a] = (Deposited(id, a) * Params.cancelRatio) \div 100
        OBVIOUS
    <2>4. ASSUME NEW d \in Int, NEW c \in Int PROVE (d * c) \div 100 \in Int
        OBVIOUS
    <2>5. charge[a] \in Int
        <3> HIDE DEF charge
        <3> QED BY <1>1, <2>2, <2>3, <2>4, ZenonT(30)
    <2> QED BY <2>1, <2>2, <2>5, ZenonT(30)
<1>3. IsIntOn(charge, Accounts)
    BY <1>2, ZenonT(30) DEF IsIntOn
<1>4. charges = SumFunctionOnSet(charge, Accounts) /\ charges \in Int
    BY <1>3, SumAll, SumInt, Finite
<1>5. /\ burned' = IF dest \in Accounts THEN burned ELSE burned + charges
      /\ module' = module - Total(id) /\ deposits' = WithoutDeposits(id)
      /\ bank' = [a \in Accounts |-> bank[a] + Deposited(id, a) - charge[a]
                                     + IF a = dest THEN charges ELSE 0]
    BY ZenonT(30) DEF ChargeDeposit
<1> HIDE DEF charge, charges, dest
<1>6. IsIntOn(given, Accounts) /\ IsIntOn(left, Accounts) /\ IsIntOn(sent, Accounts)
    BY <1>2, <1>4, SMTT(30) DEF IsIntOn
<1>7. bank' \in [Accounts -> Int] /\ \A a \in Accounts : bank'[a] = left[a] + sent[a]
    BY <1>2, <1>4, <1>5
<1>8. SumFunctionOnSet(sent, Accounts) = IF dest \in Accounts THEN charges ELSE 0
    <2>1. SumFunctionOnSet(none, Accounts) = 0 /\ IsIntOn(none, Accounts)
        BY Finite, SumZero DEF IsIntOn
    <2>2. CASE dest \in Accounts
        <3>1. /\ sent[dest] = charges /\ none[dest] = 0
              /\ \A a \in Accounts \ {dest} : sent[a] = none[a]
            BY <2>2, ZenonT(30)
        <3>2. SumFunctionOnSet(sent, Accounts) =
                  SumFunctionOnSet(none, Accounts) - none[dest] + sent[dest]
            <4> HIDE DEF none, sent
            <4> QED BY <1>4, <2>1, <2>2, <3>1, Finite, SumUpdate
        <3> QED BY <1>4, <2>1, <2>2, <3>1, <3>2
    <2>3. CASE dest \notin Accounts
        <3>1. \A a \in Accounts : sent[a] = 0
            BY <2>3, ZenonT(30)
        <3> QED BY <2>3, <3>1, Finite, SumZero, ZenonT(30)
    <2> QED BY <2>2, <2>3, ZenonT(30)
<1> DEFINE s(f) == SumFunctionOnSet(f, Accounts)
<1>9. s(bank') = s(left) + s(sent)
    <2> HIDE DEF left, sent
    <2> QED BY <1>6, <1>7, Finite, SumPlus
<1>10. s(left) = s(given) - s(charge)
    <2>1. \A a \in Accounts : left[a] = given[a] - charge[a]
        BY ZenonT(30)
    <2> HIDE DEF left, given
    <2> QED BY <1>3, <1>6, <2>1, Finite, SumMinus, ZenonT(30)
<1>11. s(given) = s(bank) + s(DepositsOf(id))
    <2>1. \A a \in Accounts : given[a] = bank[a] + DepositsOf(id)[a]
        BY ZenonT(30)
    <2> HIDE DEF given
    <2> QED BY <1>0, <2>1, Finite, SumPlus, ZenonT(30) DEF SumsAreInt
<1>12. s(bank') \in Int /\ s(bank') = SumFunction(bank')
    BY <1>7, Finite, SumInt, SumAll, ZenonT(30) DEF IsIntOn
<1>13. /\ s(DepositsOf(id)) = Total(id) /\ Total(id) \in Int
       /\ s(bank) = SumFunction(bank) /\ s(bank) \in Int
    BY <1>0, ZenonT(30) DEF SumsAreInt
<1> HIDE DEF s
<1>14. burned' \in Int /\ burned \in Int /\ module \in Int
    BY <1>0, <1>4, <1>5 DEF CoinShape
<1>15. module' + burned' + SumFunction(bank') = module + burned + SumFunction(bank)
    <2>1. s(sent) = IF dest \in Accounts THEN charges ELSE 0
        BY <1>8 DEF s
    <2>2. s(charge) = charges
        BY <1>4, ZenonT(30) DEF s
    <2> HIDE DEF left, sent, given, none
    <2> QED BY <1>4, <1>5, <1>9, <1>10, <1>11, <1>12, <1>13, <1>14, <2>1, <2>2, SMTT(30)
<1>16. /\ CoinShape'
       /\ module' = SumFunction(Totals')
       /\ \A i \in Ids : i # id => Total(i)' = Total(i)
       /\ \A i \in Ids, a \in Accounts :
             deposits'[<<i, a>>] = IF i = id THEN NoDeposit ELSE deposits[<<i, a>>]
    BY <1>5, <1>7, <1>14, Deleted, ZenonT(30)
<1> QED BY <1>15, <1>16, ZenonT(30) DEF Settled

\* A proposal whose deposits are settled is not open any more.
LEMMA SettledInv ==
    ASSUME CoinInv, NEW id \in Ids, CoinShape', Settled(id), ~Live(proposals'[id]),
           \A i \in Ids : i # id => proposals'[i] = proposals[i]
    PROVE  CoinInv'
<1>1. ASSUME NEW i \in Ids
      PROVE  IF Live(proposals'[i]) THEN Total(i)' = proposals'[i].total
             ELSE \A a \in Accounts : deposits'[<<i, a>>] = NoDeposit
    <2>1. CASE i = id
        BY <2>1, ZenonT(30) DEF Settled
    <2>2. CASE i # id
        BY <2>2 DEF Settled, CoinInv, DepositsBacked
    <2> QED BY <2>1, <2>2, ZenonT(30)
<1>2. module' + burned' + SumFunction(bank') = Balance * Cardinality(Accounts)
    BY ZenonT(30) DEF Settled, CoinInv, DepositsBacked
<1>3. module' = SumFunction([i \in Ids |-> Total(i)'])
    BY ZenonT(30) DEF Settled, Totals
<1> QED BY <1>1, <1>2, <1>3, ZenonT(30) DEF CoinInv, DepositsBacked, Live
\* AddDeposit: the amount goes from the account to the module, to the account's
\* deposit and to the proposal's TotalDeposit.
LEMMA AddCoins ==
    ASSUME IInv, CoinInv, NEW id \in Ids, NEW p \in Proposal, NEW a \in Accounts,
           NEW amount \in Int, AddDeposit(id, p, a, amount), UNCHANGED burned,
           \/ id = nextId /\ p.total = 0
           \/ proposals[id] = p
    PROVE  CoinInv'
<1>0. CoinShape /\ SumsAreInt
    BY Sums, ZenonT(30) DEF CoinInv
<1>1. /\ bank' = [bank EXCEPT ![a] = @ - amount] /\ module' = module + amount
      /\ deposits' = [deposits EXCEPT ![<<id, a>>] = Deposited(id, a) + amount]
      /\ Live(p) /\ burned' = burned
    BY ZenonT(30) DEF AddDeposit
<1>2. DepositsOf(id)[a] = Deposited(id, a) /\ Deposited(id, a) \in Int
    BY <1>0, ZenonT(30) DEF DepositsOf, SumsAreInt, IsIntOn
<1>3. /\ CoinShape' /\ bank'[a] = bank[a] - amount /\ bank[a] \in Int
      /\ \A b \in Accounts \ {a} : bank'[b] = bank[b]
      /\ deposits'[<<id, a>>] = Deposited(id, a) + amount
      /\ \A i \in Ids, b \in Accounts : <<i, b>> # <<id, a>> => deposits'[<<i, b>>] = deposits[<<i, b>>]
    <2>1. bank[a] \in Int /\ module' \in Int
        BY <1>0, <1>1 DEF CoinShape
    <2>2. /\ bank' \in [Accounts -> Int] /\ bank'[a] = bank[a] - amount
          /\ \A b \in Accounts \ {a} : bank'[b] = bank[b]
        BY <1>0, <1>1, <2>1, SMTT(30) DEF CoinShape
    <2>3. /\ deposits' \in [Ids \X Accounts -> Int \cup {NoDeposit}]
          /\ deposits'[<<id, a>>] = Deposited(id, a) + amount
          /\ \A i \in Ids, b \in Accounts : <<i, b>> # <<id, a>> => deposits'[<<i, b>>] = deposits[<<i, b>>]
        BY <1>0, <1>1, <1>2, SMTT(30) DEF CoinShape
    <2> QED BY <1>0, <1>1, <2>1, <2>2, <2>3, ZenonT(30) DEF CoinShape
<1>4. SumsAreInt'
    <2>1. (CoinShape => SumsAreInt)'
        BY Sums, PTL
    <2> QED BY <1>3, <2>1, ZenonT(30)
<1>5. Total(id)' = Total(id) + amount
    <2>1. DepositsOf(id)'[a] = DepositsOf(id)[a] + amount
        BY <1>2, <1>3, NoneAssumption, SMTT(30) DEF DepositsOf, Deposited
    <2>2. \A b \in Accounts \ {a} : DepositsOf(id)'[b] = DepositsOf(id)[b]
        BY <1>3, ZenonT(30) DEF DepositsOf, Deposited
    <2>3. IsIntOn(DepositsOf(id), Accounts) /\ IsIntOn(DepositsOf(id)', Accounts)
        BY <1>0, <1>4, ZenonT(30) DEF SumsAreInt
    <2>4. SumFunctionOnSet(DepositsOf(id)', Accounts) =
              SumFunctionOnSet(DepositsOf(id), Accounts) - DepositsOf(id)[a] + DepositsOf(id)'[a]
        <3>1. DepositsOf(id)'[a] \in Int
            BY <2>3, ZenonT(30) DEF IsIntOn
        <3> QED BY <2>2, <2>3, <3>1, Finite, SumUpdate
    <2>5. /\ Total(id) \in Int /\ Total(id) = SumFunctionOnSet(DepositsOf(id), Accounts)
          /\ Total(id)' = SumFunctionOnSet(DepositsOf(id)', Accounts)
        BY <1>0, <1>4, ZenonT(30) DEF SumsAreInt
    <2> QED BY <1>2, <2>1, <2>4, <2>5, SMTT(30)
<1>6. SumFunction(bank') = SumFunction(bank) - amount
    <2>1. SumFunctionOnSet(bank', Accounts) = SumFunctionOnSet(bank, Accounts) - bank[a] + bank'[a]
        <3>1. IsIntOn(bank, Accounts) /\ bank'[a] \in Int
            BY <1>0, <1>3 DEF SumsAreInt
        <3> QED BY <1>3, <3>1, Finite, SumUpdate, SMTT(30)
    <2> QED BY <1>0, <1>3, <1>4, <2>1, SMTT(30) DEF SumsAreInt
<1>7. /\ \A i \in Ids : i # id => Total(i)' = Total(i)
      /\ SumFunction(Totals') = SumFunction(Totals) - Total(id) + Total(id)'
    BY <1>0, <1>3, OneTotal, ZenonT(30)
<1>8. module' = SumFunction(Totals')
    <2>1. module = SumFunction(Totals)
        BY ZenonT(30) DEF CoinInv, DepositsBacked, Totals
    <2> QED BY <1>0, <1>1, <1>5, <1>7, <2>1, SMTT(30) DEF SumsAreInt
<1>9. module' + burned' + SumFunction(bank') = Balance * Cardinality(Accounts)
    <2>1. module + burned + SumFunction(bank) = Balance * Cardinality(Accounts)
        BY ZenonT(30) DEF CoinInv, DepositsBacked
    <2>2. module' + burned' + SumFunction(bank') = module + burned + SumFunction(bank)
        BY <1>0, <1>1, <1>6, SMTT(30) DEF SumsAreInt, CoinShape
    <2> QED BY <2>1, <2>2, ZenonT(30)
<1>10. p.total \in Int /\ Total(id) = p.total
    <2>1. p.total \in Int
        BY ZenonT(30) DEF Proposal
    <2>2. CASE proposals[id] = p
        BY <1>1, <2>1, <2>2, ZenonT(30) DEF CoinInv, DepositsBacked
    <2>3. CASE id = nextId /\ p.total = 0
        <3>1. ~ Live(proposals[id])
            BY <2>3, SMTT(30) DEF IInv, Fresh, Shape, Live
        <3>2. \A b \in Accounts : DepositsOf(id)[b] = 0
            BY <3>1, ZenonT(30) DEF CoinInv, DepositsBacked, DepositsOf, Deposited
        <3>3. SumFunctionOnSet(DepositsOf(id), Accounts) = 0
            BY <3>2, Finite, SumZero, ZenonT(30)
        <3> QED BY <1>0, <2>1, <2>3, <3>3, ZenonT(30) DEF SumsAreInt
    <2> QED BY <2>2, <2>3, ZenonT(30)
<1>11. /\ Live(proposals'[id]) /\ proposals'[id].total = p.total + amount
       /\ \A i \in Ids : i # id => proposals'[i] = proposals[i]
    <2> DEFINE q == [p EXCEPT !.total = @ + amount]
               begins == q.status = "deposit" /\ q.total >= MinDeposit(q.expedited)
               period == IF q.expedited THEN Params.expeditedVotingPeriod ELSE Params.votingPeriod
               r == [q EXCEPT !.status = "voting", !.votingStart = time, !.votingEnd = time + period]
               new == IF begins THEN r ELSE q
    <2>1. proposals' = [proposals EXCEPT ![id] = new]
        BY ZenonT(30) DEF AddDeposit, SetProposal
    <2>2. q \in Proposal /\ q.total = p.total + amount /\ q.status = p.status
        BY <1>10 DEF Proposal
    <2>3. q # NoProposal /\ q.status \in {"deposit", "voting"}
        BY <1>1, <2>2, NoneAssumption, ZenonT(30) DEF Live
    <2> HIDE DEF q, period
    <2>4. r.total = q.total /\ r.status = "voting"
        BY <2>2, ZenonT(30) DEF Proposal
    <2>5. r # NoProposal
        <3>1. period \in Int /\ time \in Int
            BY <2>2, Periods, ZenonT(30) DEF IInv, Shape, period
        <3>2. time + period \in Int
            BY <3>1
        <3>3. r \in Proposal
            BY <2>2, <3>1, <3>2, ZenonT(30) DEF Proposal
        <3> QED BY <3>3, NoneAssumption
    <2>6. Live(new) /\ new.total = p.total + amount
        BY <2>2, <2>3, <2>4, <2>5, SMTT(30) DEF Live
    <2> HIDE DEF new
    <2> QED BY <2>1, <2>6, ZenonT(30) DEF IInv, Shape
<1>12. ASSUME NEW i \in Ids
       PROVE  IF Live(proposals'[i]) THEN Total(i)' = proposals'[i].total
              ELSE \A b \in Accounts : deposits'[<<i, b>>] = NoDeposit
    <2>1. CASE i = id
        BY <1>5, <1>10, <1>11, <2>1, ZenonT(30)
    <2>2. CASE i # id
        <3>1. \A b \in Accounts : deposits'[<<i, b>>] = deposits[<<i, b>>]
            BY <1>3, <2>2, ZenonT(30)
        <3> QED BY <1>7, <1>11, <2>2, <3>1, ZenonT(30) DEF CoinInv, DepositsBacked
    <2> QED BY <2>1, <2>2, ZenonT(30)
<1>13. module' = SumFunction([i \in Ids |-> Total(i)'])
    BY <1>8, ZenonT(30) DEF Totals
<1> QED BY <1>3, <1>9, <1>12, <1>13, ZenonT(30) DEF CoinInv, DepositsBacked, Live

\* No deposit is there in the beginning.
LEMMA InitCoins == Init => CoinInv
<1> SUFFICES ASSUME Init PROVE CoinInv
    OBVIOUS
<1>1. Balance \in Int
    <2>1. Balance \in Nat
        BY InputAssumption, ZenonT(30)
    <2> QED BY <2>1
<1>2. CoinShape
    BY <1>1 DEF Init, CoinShape
<1>3. SumsAreInt
    BY <1>2, Sums, ZenonT(30)
<1>4. SumFunction(bank) = Balance * Cardinality(Accounts)
    <2>1. \A a \in Accounts : bank[a] = Balance
        BY ZenonT(30) DEF Init
    <2> QED BY <1>1, <1>3, <2>1, Finite, SumConst, ZenonT(30) DEF SumsAreInt
<1>5. ASSUME NEW id \in Ids PROVE Total(id) = 0
    <2>1. \A a \in Accounts : DepositsOf(id)[a] = 0
        BY ZenonT(30) DEF Init, DepositsOf, Deposited
    <2>2. SumFunctionOnSet(DepositsOf(id), Accounts) = 0
        BY <2>1, Finite, SumZero, ZenonT(30)
    <2> QED BY <1>3, <2>2, ZenonT(30) DEF SumsAreInt
<1>6. SumFunction(Totals) = 0
    <2>1. \A id \in Ids : Totals[id] = 0
        BY <1>5, ZenonT(30) DEF Totals
    <2>2. SumFunctionOnSet(Totals, Ids) = 0
        BY <2>1, Finite, SumZero, ZenonT(30)
    <2> QED BY <1>3, <2>2, ZenonT(30) DEF SumsAreInt
<1>7. module + burned + SumFunction(bank) = Balance * Cardinality(Accounts)
    <2>1. module = 0 /\ burned = 0
        BY ZenonT(30) DEF Init
    <2>2. SumFunction(bank) \in Int
        BY <1>3, ZenonT(30) DEF SumsAreInt
    <2> DEFINE all == SumFunction(bank)
    <2>3. all = Balance * Cardinality(Accounts) /\ all \in Int
        BY <1>4, <2>2, ZenonT(30)
    <2> HIDE DEF all
    <2>4. module + burned + all = all
        BY ONLY <2>1, <2>3
    <2> QED BY <2>3, <2>4, ZenonT(30) DEF all
<1>8. module = SumFunction([id \in Ids |-> Total(id)])
    BY <1>6, ZenonT(30) DEF Init, Totals
<1>9. \A id \in Ids : ~ Live(proposals[id]) /\ \A a \in Accounts : deposits[<<id, a>>] = NoDeposit
    BY ZenonT(30) DEF Init, Live
<1> QED BY <1>2, <1>7, <1>8, <1>9, ZenonT(30) DEF CoinInv, DepositsBacked

\* Steps that move no coins.
LEMMA StillCoins ==
    ASSUME CoinInv, UNCHANGED <<proposals, deposits, bank, module, burned>>
    PROVE  CoinInv'
<1>1. \A i \in Ids : Total(i)' = Total(i)
    BY ZenonT(30) DEF Total, Deposited
<1>2. [i \in Ids |-> Total(i)'] = [i \in Ids |-> Total(i)]
    BY <1>1, ZenonT(30)
<1>3. SumFunction(bank') = SumFunction(bank)
    BY ZenonT(30)
<1>4. CoinShape'
    BY ZenonT(30) DEF CoinInv, CoinShape
<1> QED BY <1>1, <1>2, <1>3, <1>4, ZenonT(30) DEF CoinInv, DepositsBacked, Live

\* The deposits of a proposal that was voted on are refunded or burned.
LEMMA TallyCoins ==
    ASSUME IInv, CoinInv, NEW e \in walk.ahead, TallyActive(e)
    PROVE  CoinInv'
<1> DEFINE id == e[2]
           p == proposals[id]
           tally == Tally(id)
           regular == Converted(p, p.votingStart + Params.votingPeriod)
           decided(status) == [p EXCEPT !.status = status]
<1>1. walk.queue = "active" /\ SettleDeposits(id, tally)
    BY ZenonT(30) DEF TallyActive
<1>2. id \in Ids /\ p \in Proposal /\ p.status = "voting" /\ p # NoProposal
    BY <1>1, AtProposal, ZenonT(30) DEF Open, IInv, Shape
<1>3. CASE p.expedited /\ ~ tally.passes
    <2>1. UNCHANGED <<bank, module, deposits, burned>>
        BY <1>1, <1>3, ZenonT(30) DEF SettleDeposits
    <2>2. proposals' = [proposals EXCEPT ![id] = regular]
        BY <1>3, ZenonT(30) DEF TallyActive, SetProposal
    <2>3. regular.total = p.total /\ regular.status = "voting"
        BY <1>2, ZenonT(30) DEF Converted, Proposal
    <2>4. regular # NoProposal
        <3>1. p.votingStart \in Int
            BY <1>2, ZenonT(30) DEF IInv, Shape, Open
        <3>2. p.votingStart + Params.votingPeriod \in Int
            BY <3>1, Periods DEF IInv, Shape
        <3>3. regular \in Proposal
            BY <1>2, <3>2, ZenonT(30) DEF Proposal, Converted
        <3> QED BY <3>3, NoneAssumption, ZenonT(30)
    <2> HIDE DEF regular
    <2>5. ASSUME NEW i \in Ids
          PROVE  /\ Live(proposals'[i]) <=> Live(proposals[i])
                 /\ Live(proposals[i]) => proposals'[i].total = proposals[i].total
        BY <1>2, <2>2, <2>3, <2>4, ZenonT(30) DEF IInv, Shape, Live
    <2>6. \A i \in Ids : Total(i)' = Total(i)
        BY <2>1, ZenonT(30) DEF Total, Deposited
    <2>7. [i \in Ids |-> Total(i)'] = [i \in Ids |-> Total(i)]
        BY <2>6, ZenonT(30)
    <2>8. SumFunction(bank') = SumFunction(bank) /\ CoinShape'
        BY <2>1, ZenonT(30) DEF CoinInv, CoinShape
    <2>9. ASSUME NEW i \in Ids
          PROVE  IF Live(proposals'[i]) THEN Total(i)' = proposals'[i].total
                 ELSE \A a \in Accounts : deposits'[<<i, a>>] = NoDeposit
        BY <2>1, <2>5, <2>6, ZenonT(30) DEF CoinInv, DepositsBacked
    <2> HIDE DEF id, p, tally
    <2> QED BY <2>1, <2>7, <2>8, <2>9, ZenonT(30) DEF CoinInv, DepositsBacked, Live
<1>4. CASE ~ (p.expedited /\ ~ tally.passes)
    <2>1. RefundAndDeleteDeposits(id) \/ DeleteAndBurnDeposits(id)
        <3>1. IF p.expedited /\ ~ tally.passes THEN UNCHANGED <<bank, module, deposits, burned>>
              ELSE IF tally.burn THEN DeleteAndBurnDeposits(id) ELSE RefundAndDeleteDeposits(id)
            BY <1>1, ZenonT(30) DEF SettleDeposits
        <3> HIDE DEF id, p, tally
        <3> QED BY <1>4, <3>1, ZenonT(30)
    <2>2. CoinShape' /\ Settled(id)
        BY <1>2, <2>1, RefundCoins, BurnCoins, ZenonT(30)
    <2>3. \E status \in {"passed", "failed", "rejected"} : proposals' = [proposals EXCEPT ![id] = decided(status)]
        <3>1. CASE tally.passes
            <4>1. SetProposal(id, [p EXCEPT !.status = IF p.content = "fails" THEN "failed" ELSE "passed"])
                BY <3>1 DEF TallyActive
            <4> QED BY <4>1, ZenonT(30) DEF SetProposal
        <3>2. CASE ~ tally.passes
            BY <1>4, <3>2, ZenonT(30) DEF TallyActive, SetProposal
        <3> QED BY <3>1, <3>2
    <2>4. PICK status \in {"passed", "failed", "rejected"} : proposals' = [proposals EXCEPT ![id] = decided(status)]
        BY <2>3, ZenonT(30)
    <2>5. decided(status).status = status
        BY <1>2 DEF Proposal
    <2>6. ~ Live(decided(status))
        BY <2>5, SMTT(30) DEF Live
    <2> HIDE DEF decided, id, p, tally
    <2>7. ~ Live(proposals'[id]) /\ \A i \in Ids : i # id => proposals'[i] = proposals[i]
        BY <1>2, <2>4, <2>6, ZenonT(30) DEF IInv, Shape
    <2> QED BY <1>2, <2>2, <2>7, SettledInv, ZenonT(30)
<1> QED BY <1>3, <1>4, ZenonT(30)

\* Every step keeps the deposits backed.
LEMMA NextCoins ==
    ASSUME IInv, CoinInv, [Next]_vars
    PROVE  CoinInv'
<1>0. ASSUME NEW id \in Ids, DeleteProposal(id), CoinShape', Settled(id) PROVE CoinInv'
    <2>1. ~ Live(proposals'[id]) /\ \A i \in Ids : i # id => proposals'[i] = proposals[i]
        BY <1>0, ZenonT(30) DEF IInv, Shape, DeleteProposal, Live
    <2> QED BY <1>0, <2>1, SettledInv, ZenonT(30)
<1>1. ASSUME NEW s \in Submissions, SubmitProposal(s[1], s[2], s[3], s[4]) PROVE CoinInv'
    <2> DEFINE p == [status |-> "deposit", expedited |-> s[2], proposer |-> s[1],
                     content |-> s[3], total |-> 0, depositEnd |-> time + Params.depositPeriod,
                     votingStart |-> NoTime, votingEnd |-> NoTime]
    <2>1. s[1] \in Accounts /\ s[2] \in BOOLEAN /\ s[3] \in Contents /\ s[4] \in Int
        <3>1. s \in Accounts \X BOOLEAN \X Contents \X Nat
            BY InputAssumption, ZenonT(30)
        <3> QED BY <3>1
    <2>2. time + Params.depositPeriod \in Int
        BY Periods, SMTT(30) DEF IInv, Shape
    <2>3. p \in Proposal /\ p.total = 0
        BY <2>1, <2>2, SMTT(30) DEF Proposal
    <2>4. AddDeposit(nextId, p, s[1], s[4]) /\ nextId \in Ids /\ UNCHANGED burned
        BY <1>1, ZenonT(30) DEF SubmitProposal
    <2> HIDE DEF p
    <2> QED BY <2>1, <2>3, <2>4, AddCoins, ZenonT(30)
<1>2. ASSUME NEW id \in Ids, NEW a \in Accounts, NEW amount \in Amounts, Deposit(id, a, amount)
      PROVE  CoinInv'
    <2>1. AddDeposit(id, proposals[id], a, amount) /\ UNCHANGED burned
        BY <1>2, ZenonT(30) DEF Deposit
    <2>2. proposals[id] \in Proposal /\ amount \in Int
        BY <1>2, Bounds, ZenonT(30) DEF Deposit, IInv, Shape
    <2> QED BY <2>1, <2>2, AddCoins, ZenonT(30)
<1>3. ASSUME NEW id \in Ids, NEW a \in Accounts, NEW ballot \in Ballots, Vote(id, a, ballot)
      PROVE  CoinInv'
    BY <1>3, StillCoins, ZenonT(30) DEF Vote
<1>4. ASSUME NEW id \in Ids, NEW a \in Accounts, CancelProposal(id, a) PROVE CoinInv'
    <2>1. ChargeDeposit(id) /\ DeleteProposal(id) /\ params \in DOMAIN ParamSets
        BY <1>4, ZenonT(30) DEF CancelProposal, IInv, Shape
    <2> QED BY <1>0, <2>1, ChargeCoins, ZenonT(30)
<1>5. ASSUME NEW e \in walk.ahead, DropInactive(e) PROVE CoinInv'
    <2>1. e[2] \in Ids
        BY <1>5, AtProposal, ZenonT(30)
    <2>2. /\ DeleteProposal(e[2])
          /\ RefundAndDeleteDeposits(e[2]) \/ DeleteAndBurnDeposits(e[2])
        BY <1>5, ZenonT(30) DEF DropInactive
    <2>3. CoinShape' /\ Settled(e[2])
        BY <2>1, <2>2, RefundCoins, BurnCoins, ZenonT(30)
    <2> QED BY <1>0, <2>1, <2>2, <2>3, ZenonT(30)
<1>6. ASSUME NEW e \in walk.ahead, TallyActive(e) PROVE CoinInv'
    BY <1>6, TallyCoins, ZenonT(30)
<1>7. CASE EndBlocker \/ WalkActive \/ NextBlock \/ UNCHANGED vars
    BY <1>7, StillCoins, ZenonT(30) DEF EndBlocker, WalkActive, NextBlock, vars, stores
<1> QED BY <1>1, <1>2, <1>3, <1>4, <1>5, <1>6, <1>7, ZenonT(30) DEF Next, Txs, Blocks

(***************************************************************************)
(* For any accounts, balances, parameters and number of proposals: the     *)
(* module's account holds exactly the deposits in the store, no coin gets  *)
(* lost or made, TotalDeposit of an open proposal is what its depositors   *)
(* gave, and a closed one has no deposit left (AddDeposit,                 *)
(* RefundAndDeleteDeposits, DeleteAndBurnDeposits, ChargeDeposit,          *)
(* EndBlocker).                                                            *)
(***************************************************************************)
THEOREM DepositsAlwaysBacked == Spec => []DepositsBacked
<1>1. Init => IInv /\ CoinInv
    BY InitIInv, InitCoins
<1>2. IInv /\ CoinInv /\ [Next]_vars => IInv' /\ CoinInv'
    BY NextIInv, NextCoins
<1>3. CoinInv => DepositsBacked
    BY DEF CoinInv
<1> QED BY <1>1, <1>2, <1>3, PTL DEF Spec
-----------------------------------------------------------------------------
(* The tally.                                                              *)

Rate(w) == Tokens[w] \div Shares[w]

\* The stakes and powers are numbers.
LEMMA Rates ==
    /\ IsFiniteSet(Accounts) /\ Validators \subseteq Accounts /\ IsFiniteSet(Validators)
    /\ \A a \in Accounts, w \in Validators : Stake[<<a, w>>] \in Int
    /\ \A w \in Validators :
          /\ Rate(w) \in Int
          /\ Shares[w] = SumFunctionOnSet([a \in Accounts |-> Stake[<<a, w>>]], Accounts)
<1>1. /\ IsFiniteSet(Accounts) /\ Validators \subseteq Accounts
      /\ Stake \in [Accounts \X Validators -> Nat] /\ Tokens \in [Validators -> Nat]
      /\ \A w \in Validators : Shares[w] > 0
    BY StakeAssumption, ZenonT(30)
<1>2. IsFiniteSet(Validators)
    BY <1>1, FS_Subset
<1>3. \A a \in Accounts, w \in Validators : Stake[<<a, w>>] \in Int
    BY <1>1
<1>4. ASSUME NEW w \in Validators
      PROVE  /\ Shares[w] = SumFunctionOnSet([a \in Accounts |-> Stake[<<a, w>>]], Accounts)
             /\ Shares[w] \in Int
    <2> DEFINE s == [a \in Accounts |-> Stake[<<a, w>>]]
    <2>1. IsIntOn(s, Accounts) /\ DOMAIN s = Accounts
        BY <1>3 DEF IsIntOn
    <2>2. Shares[w] = SumFunction(s)
        BY ZenonT(30) DEF Shares
    <2> HIDE DEF s
    <2>3. Shares[w] = SumFunctionOnSet(s, Accounts) /\ SumFunctionOnSet(s, Accounts) \in Int
        BY <1>1, <2>1, <2>2, SumAll, SumInt, ZenonT(30)
    <2> QED BY <2>3, ZenonT(30) DEF s
<1>5. ASSUME NEW w \in Validators PROVE Rate(w) \in Int
    <2>1. Tokens[w] \in Int /\ Shares[w] \in Int /\ Shares[w] > 0
        <3>1. Shares[w] > 0
            BY <1>1, ZenonT(30)
        <3>2. Tokens[w] \in Int
            BY <1>1
        <3>3. Shares[w] \in Int
            BY <1>4, ZenonT(30)
        <3> QED BY <3>1, <3>2, <3>3, ZenonT(30)
    <2>2. ASSUME NEW t \in Int, NEW d \in Int, d > 0 PROVE t \div d \in Int
        BY <2>2
    <2> QED BY <2>1, <2>2, ZenonT(30) DEF Rate
<1> QED BY <1>1, <1>2, <1>3, <1>4, <1>5, ZenonT(30)

\* What is left of a validator's shares are the stakes of those that do not vote.
LEMMA LeftToValidator ==
    ASSUME NEW V \in SUBSET Accounts, NEW w \in Validators
    PROVE  LET left == Shares[w] - SumFunction([a \in V |-> Stake[<<a, w>>]])
           IN  /\ left \in Int
               /\ \A k \in Int : \A row : (\A a \in Accounts \ V : row[a] = Stake[<<a, w>>] * k)
                     => SumFunctionOnSet(row, Accounts \ V) = left * k
<1> DEFINE R == Accounts \ V
           st == [a \in Accounts |-> Stake[<<a, w>>]]
           sv == [a \in V |-> Stake[<<a, w>>]]
<1>1. IsFiniteSet(V) /\ IsFiniteSet(R)
    BY Rates, FS_Subset, ZenonT(30)
<1>2. /\ IsIntOn(st, V) /\ IsIntOn(st, R) /\ IsIntOn(st, V \cup R)
      /\ V \cup R = Accounts /\ V \cap R = {}
      /\ DOMAIN sv = V /\ \A a \in V : sv[a] = st[a]
    BY Rates, ZenonT(30) DEF IsIntOn
<1>3. Shares[w] = SumFunctionOnSet(st, Accounts)
    BY Rates, ZenonT(30)
<1>4. \A a \in R : st[a] = Stake[<<a, w>>]
    BY ZenonT(30)
<1> HIDE DEF st, sv, R
<1>5. SumFunction(sv) = SumFunctionOnSet(st, V)
    BY <1>1, <1>2, SumAll, SumSame, SMTT(30)
<1>6. SumFunctionOnSet(st, V \cup R) = SumFunctionOnSet(st, V) + SumFunctionOnSet(st, R)
    BY <1>1, <1>2, SumUnion, ZenonT(30)
<1>7. SumFunctionOnSet(st, V) \in Int /\ SumFunctionOnSet(st, R) \in Int
    BY <1>1, <1>2, SumInt, ZenonT(30)
<1>8. Shares[w] = SumFunctionOnSet(st, V) + SumFunctionOnSet(st, R)
    BY <1>2, <1>3, <1>6, ZenonT(30)
<1>9. Shares[w] - SumFunction(sv) = SumFunctionOnSet(st, R)
    BY ONLY <1>5, <1>7, <1>8, SMTT(30)
<1>10. ASSUME NEW k \in Int, NEW row, \A a \in R : row[a] = Stake[<<a, w>>] * k
       PROVE  SumFunctionOnSet(row, R) = SumFunctionOnSet(st, R) * k
    <2>1. \A a \in R : row[a] = st[a] * k
        BY <1>4, <1>10, ZenonT(30)
    <2> QED BY <1>1, <1>2, <2>1, SumScale, SMTT(30)
<1> QED BY <1>7, <1>9, <1>10, ZenonT(30) DEF R, sv

FirstPass(V, part) == [v \in V \X Validators |-> Power(Stake[v], v[2]) * part[v[1]]]
SecondPass(V, part) ==
    [w \in Validators \cap V |->
        Power(Shares[w] - SumFunction([a \in V |-> Stake[<<a, w>>]]), w) * part[w]]
EachOnce(V, part) ==
    [s \in {s \in Accounts \X Validators : s[1] \in V \/ s[2] \in V} |->
        Power(Stake[s], s[2]) * part[IF s[1] \in V THEN s[1] ELSE s[2]]]

\* For any set of voters and any part that each gives to an option: the stakes of
\* the voters and what Tally leaves to the validators that vote are the stakes of
\* all that vote or whose validator votes.
LEMMA TwoPasses ==
    ASSUME NEW V \in SUBSET Accounts, NEW part, \A a \in V : part[a] \in Int,
           NEW first, first = FirstPass(V, part), NEW second, second = SecondPass(V, part),
           NEW all, all = EachOnce(V, part)
    PROVE  SumFunction(all) = SumFunction(first) + SumFunction(second)
<1> DEFINE A == V \X Validators
           R == Accounts \ V
           W == Validators \cap V
           B == R \X W
<1>1. /\ IsFiniteSet(V) /\ IsFiniteSet(R) /\ IsFiniteSet(W) /\ IsFiniteSet(A) /\ IsFiniteSet(B)
      /\ W \subseteq Validators
    <2>1. IsFiniteSet(V) /\ IsFiniteSet(R) /\ IsFiniteSet(W)
        BY Rates, FS_Subset, ZenonT(30)
    <2> QED BY <2>1, Rates, FS_Product, ZenonT(30)
<1>2. DOMAIN all = A \cup B /\ A \cap B = {} /\ DOMAIN first = A /\ DOMAIN second = W
    <2>1. ASSUME NEW a \in Accounts, NEW w \in Validators
          PROVE  a \in V \/ w \in V <=> <<a, w>> \in A \cup B
        BY ZenonT(30)
    <2>2. A \cup B \subseteq Accounts \X Validators
        BY ZenonT(30)
    <2>3. {s \in Accounts \X Validators : s[1] \in V \/ s[2] \in V} = A \cup B
        <3> HIDE DEF A, B
        <3> QED BY <2>1, <2>2, SMTT(30)
    <2> QED BY <2>3, ZenonT(30) DEF FirstPass, SecondPass, EachOnce
<1>3. ASSUME NEW a \in V, NEW w \in Validators
      PROVE  /\ all[<<a, w>>] = (Stake[<<a, w>>] * Rate(w)) * part[a]
             /\ first[<<a, w>>] = (Stake[<<a, w>>] * Rate(w)) * part[a]
             /\ all[<<a, w>>] \in Int
    <2>1. /\ all[<<a, w>>] = (Stake[<<a, w>>] * Rate(w)) * part[a]
          /\ first[<<a, w>>] = (Stake[<<a, w>>] * Rate(w)) * part[a]
        BY Rates, ZenonT(30) DEF Power, Rate, FirstPass, EachOnce
    <2>2. Stake[<<a, w>>] \in Int /\ Rate(w) \in Int /\ part[a] \in Int
        BY Rates, ZenonT(30)
    <2> QED BY ONLY <2>1, <2>2, SMTT(30)
<1>4. \A a \in R, w \in W : /\ all[<<a, w>>] = Stake[<<a, w>>] * (Rate(w) * part[w])
                             /\ all[<<a, w>>] \in Int
    <2> SUFFICES ASSUME NEW a \in R, NEW w \in W
                 PROVE  /\ all[<<a, w>>] = Stake[<<a, w>>] * (Rate(w) * part[w])
                        /\ all[<<a, w>>] \in Int
        BY ZenonT(30)
    <2>1. all[<<a, w>>] = (Stake[<<a, w>>] * Rate(w)) * part[w]
        BY Rates, ZenonT(30) DEF Power, Rate, FirstPass, EachOnce
    <2>2. Stake[<<a, w>>] \in Int /\ Rate(w) \in Int /\ part[w] \in Int
        BY Rates, ZenonT(30)
    <2>3. ASSUME NEW x \in Int, NEW y \in Int, NEW z \in Int
          PROVE  (x * y) * z = x * (y * z) /\ (x * y) * z \in Int
        OBVIOUS
    <2> QED BY <2>1, <2>2, <2>3
<1>5. IsIntOn(all, A) /\ IsIntOn(all, B) /\ IsIntOn(all, A \cup B)
    <2>1. \A a \in V, w \in Validators : all[<<a, w>>] \in Int
        BY <1>3, ZenonT(30)
    <2>2. \A a \in R, w \in W : all[<<a, w>>] \in Int
        BY <1>4, ZenonT(30)
    <2>3. \A s \in A : all[s] \in Int
        BY ONLY <2>1
    <2>4. \A s \in B : all[s] \in Int
        BY ONLY <2>2, SMTT(30)
    <2> QED BY <2>3, <2>4, ZenonT(30) DEF IsIntOn
<1>6. SumFunctionOnSet(all, A) = SumFunctionOnSet(first, A)
    <2>1. \A a \in V, w \in Validators : first[<<a, w>>] = all[<<a, w>>]
        BY <1>3, ZenonT(30)
    <2>2. \A s \in A : first[s] = all[s]
        BY ONLY <2>1
    <2> HIDE DEF A
    <2> QED BY ONLY <1>1, <1>5, <2>2, SumSame, ZenonT(30)
<1>7. \A a \in R, w \in W : all[<<a, w>>] = Stake[<<a, w>>] * (Rate(w) * part[w])
    BY ONLY <1>4, ZenonT(30)
<1>8. SumFunctionOnSet(all, B) = SumFunctionOnSet(second, W)
    <2> DEFINE rows == [w \in W |-> [a \in R |-> all[<<a, w>>]]]
    <2>1. ASSUME NEW w \in W PROVE second[w] = SumFunctionOnSet(rows[w], R)
        <3>1. \A a \in R : rows[w][a] = Stake[<<a, w>>] * (Rate(w) * part[w])
            <4>1. \A a \in R : rows[w][a] = all[<<a, w>>]
                BY ZenonT(30)
            <4> HIDE DEF rows
            <4> QED BY ONLY <1>7, <2>1, <4>1, ZenonT(30)
        <3>2. Rate(w) \in Int /\ part[w] \in Int /\ w \in Validators
            BY Rates, ZenonT(30)
        <3>3. Rate(w) * part[w] \in Int
            BY <3>2
        <3>4. SumFunctionOnSet(rows[w], R)
                  = (Shares[w] - SumFunction([a \in V |-> Stake[<<a, w>>]])) * (Rate(w) * part[w])
            <4> HIDE DEF rows
            <4> QED BY <3>1, <3>2, <3>3, LeftToValidator, ZenonT(30)
        <3>5. second[w] = ((Shares[w] - SumFunction([a \in V |-> Stake[<<a, w>>]])) * Rate(w)) * part[w]
            BY ZenonT(30) DEF Power, Rate, SecondPass
        <3>6. Shares[w] - SumFunction([a \in V |-> Stake[<<a, w>>]]) \in Int
            BY <3>2, LeftToValidator, ZenonT(30)
        <3>7. ASSUME NEW x \in Int, NEW y \in Int, NEW z \in Int PROVE (x * y) * z = x * (y * z)
            OBVIOUS
        <3> HIDE DEF rows
        <3> QED BY <3>2, <3>4, <3>5, <3>6, <3>7, ZenonT(30)
    <2>2. \A a \in R, w \in W : rows[w][a] = all[<<a, w>>]
        BY ZenonT(30)
    <2> HIDE DEF R, W, rows
    <2>3. IsFiniteSet(R) /\ IsFiniteSet(W) /\ IsIntOn(all, R \X W)
        BY <1>1, <1>5, ZenonT(30)
    <2>4. \A w \in W : second[w] = SumFunctionOnSet(rows[w], R)
        BY <2>1, ZenonT(30)
    <2>5. SumFunctionOnSet(all, R \X W) = SumFunctionOnSet(second, W)
        BY ONLY <2>2, <2>3, <2>4, SumProduct, SMTT(30)
    <2> QED BY <2>5, ZenonT(30)
<1>9. SumFunctionOnSet(all, A \cup B) = SumFunctionOnSet(all, A) + SumFunctionOnSet(all, B)
    <2> HIDE DEF A, B
    <2> QED BY <1>1, <1>2, <1>5, SumUnion, ZenonT(30)
<1>10. /\ SumFunction(all) = SumFunctionOnSet(all, A \cup B)
      /\ SumFunction(first) = SumFunctionOnSet(first, A)
      /\ SumFunction(second) = SumFunctionOnSet(second, W)
    BY <1>2, SumAll, ZenonT(30)
<1> QED BY <1>6, <1>8, <1>9, <1>10, ZenonT(30)

\* The same, of the passes themselves.
LEMMA PassesSum ==
    ASSUME NEW V \in SUBSET Accounts, NEW part, \A a \in V : part[a] \in Int
    PROVE  SumFunction(EachOnce(V, part)) =
               SumFunction(FirstPass(V, part)) + SumFunction(SecondPass(V, part))
<1> DEFINE one == FirstPass(V, part)
           two == SecondPass(V, part)
           each == EachOnce(V, part)
<1> HIDE DEF one, two, each
<1>1. one = FirstPass(V, part) /\ two = SecondPass(V, part) /\ each = EachOnce(V, part)
    BY ONLY TRUE, ZenonT(30) DEF one, two, each
<1>2. SumFunction(each) = SumFunction(one) + SumFunction(two)
    BY <1>1, TwoPasses, SMTT(30)
<1> QED BY ONLY <1>1, <1>2, ZenonT(30)

VoteShape == votes \in [Ids \X Accounts -> Ballots \cup {NoVote}]

\* Every step keeps the shape of the votes.
LEMMA NextVotes ==
    ASSUME VoteShape, [Next]_vars
    PROVE  VoteShape'
<1>1. ASSUME NEW id \in Ids, NEW a \in Accounts, NEW ballot \in Ballots, Vote(id, a, ballot)
      PROVE  VoteShape'
    BY <1>1, ZenonT(30) DEF Vote, VoteShape
<1>2. ASSUME NEW e, TallyActive(e) PROVE VoteShape'
    BY <1>2, ZenonT(30) DEF TallyActive, WithoutVotes, VoteShape
<1>3. CASE UNCHANGED votes
    BY <1>3, SMTT(30) DEF VoteShape
<1>4. \/ \E id \in Ids, a \in Accounts, ballot \in Ballots : Vote(id, a, ballot)
      \/ \E e \in walk.ahead : TallyActive(e)
      \/ UNCHANGED votes
    BY ZenonT(30) DEF Next, Txs, Blocks, SubmitProposal, Deposit, CancelProposal, EndBlocker,
       DropInactive,
           WalkActive, NextBlock, vars, stores
<1> QED BY <1>1, <1>2, <1>3, <1>4, ZenonT(30)

\* The votes on a proposal, one option of them.
LEMMA OneOption ==
    ASSUME VoteShape, NEW id \in Ids, NEW o \in Options
    PROVE  Result(id, o) =
             SumFunction([s \in {s \in Accounts \X Validators : s[1] \in Voters(id) \/ s[2] \in Voters(id)} |->
                Power(Stake[s], s[2]) *
                (IF s[1] \in Voters(id) THEN votes[<<id, s[1]>>] ELSE votes[<<id, s[2]>>])[o]])
<1> DEFINE V == Voters(id)
           f == [b \in Ballots |-> b[o]]
           part == [a \in V |-> votes[<<id, a>>][o]]
           counted == {s \in Accounts \X Validators : s[1] \in V \/ s[2] \in V}
           left(w) == Shares[w] - SumFunction([a \in V |-> Stake[<<a, w>>]])
           first == [v \in V \X Validators |-> Power(Stake[v], v[2]) * part[v[1]]]
           second == [w \in Validators \cap V |-> Power(left(w), w) * part[w]]
           all == [s \in counted |-> Power(Stake[s], s[2]) * part[IF s[1] \in V THEN s[1] ELSE s[2]]]
<1>1. V \in SUBSET Accounts
    BY ZenonT(30) DEF Voters
<1>2. ASSUME NEW a \in V PROVE votes[<<id, a>>] \in Ballots
    BY ZenonT(30) DEF Voters, VoteShape
<1>3. ASSUME NEW a \in V
      PROVE  part[a] \in Int /\ part[a] = votes[<<id, a>>][o] /\ f[votes[<<id, a>>]] = part[a]
    <2>1. ValidVote(votes[<<id, a>>])
        BY <1>2, InputAssumption, ZenonT(30)
    <2>2. votes[<<id, a>>] \in [Options -> 0 .. Parts]
        BY <2>1, ZenonT(30) DEF ValidVote
    <2>3. votes[<<id, a>>][o] \in Int
        BY ONLY o \in Options, InputAssumption, <2>2, SMTT(30)
    <2>4. f[votes[<<id, a>>]] = votes[<<id, a>>][o]
        BY <1>2, ZenonT(30)
    <2> QED BY <2>3, <2>4, ZenonT(30)
<1>4. Result(id, o) = SumFunction(first) + SumFunction(second)
    <2> DEFINE first0 == [v \in V \X Validators |-> Power(Stake[v], v[2]) * f[votes[<<id, v[1]>>]]]
               second0 == [w \in Validators \cap V |->
                              Power(Shares[w] - Deducted(id, w), w) * f[votes[<<id, w>>]]]
    <2>1. Result(id, o) = SumFunction(first0) + SumFunction(second0)
        BY ZenonT(30) DEF Result, TallyOf
    <2>2. first0 = first
        <3> HIDE DEF V, part, f
        <3>1. \A v \in V \X Validators : f[votes[<<id, v[1]>>]] = part[v[1]]
            BY <1>3, ZenonT(30)
        <3> QED BY <3>1, ZenonT(30)
    <2>3. second0 = second
        <3>1. \A w \in Validators : Deducted(id, w) = SumFunction([a \in V |-> Stake[<<a, w>>]])
            BY ZenonT(30) DEF Deducted
        <3> HIDE DEF V, part, f
        <3>2. \A w \in Validators \cap V : f[votes[<<id, w>>]] = part[w]
            BY <1>3, ZenonT(30)
        <3> QED BY <3>1, <3>2, ZenonT(30)
    <2> HIDE DEF first, second, first0, second0
    <2> QED BY <2>1, <2>2, <2>3, ZenonT(30)
<1>5. all = [s \in counted |-> Power(Stake[s], s[2]) *
                (IF s[1] \in V THEN votes[<<id, s[1]>>] ELSE votes[<<id, s[2]>>])[o]]
    <2> HIDE DEF V, part
    <2>1. \A s \in counted : part[IF s[1] \in V THEN s[1] ELSE s[2]] =
              (IF s[1] \in V THEN votes[<<id, s[1]>>] ELSE votes[<<id, s[2]>>])[o]
        BY <1>3, ZenonT(30)
    <2> QED BY <2>1, ZenonT(30)
<1>6. SumFunction(all) = SumFunction(first) + SumFunction(second)
    <2> HIDE DEF V, part
    <2>1. \A a \in V : part[a] \in Int
        BY <1>3, ZenonT(30)
    <2>2. first = FirstPass(V, part) /\ second = SecondPass(V, part) /\ all = EachOnce(V, part)
        BY ZenonT(30) DEF FirstPass, SecondPass, EachOnce
    <2> HIDE DEF first, second, all
    <2> QED BY ONLY <1>1, <2>1, <2>2, PassesSum, ZenonT(30)
<1> HIDE DEF first, second, all
<1> QED BY <1>4, <1>5, <1>6, ZenonT(30)

(***************************************************************************)
(* For any stakes, validators and weighted votes: Tally's two passes count *)
(* each stake once, by the ballot of its owner, or else by that of its     *)
(* validator (Tally).                                                      *)
(***************************************************************************)
THEOREM TallyAlwaysInherits == Spec => []TallyInherits
<1>1. Init => IInv /\ VoteShape
    BY InitIInv, ZenonT(30) DEF Init, VoteShape
<1>2. IInv /\ VoteShape /\ [Next]_vars => IInv' /\ VoteShape'
    BY NextIInv, NextVotes, ZenonT(30)
<1>3. IInv /\ VoteShape => TallyInherits
    <2> SUFFICES ASSUME IInv, VoteShape, NEW e \in walk.ahead PROVE e[2] \in Ids
        BY OneOption, ZenonT(30) DEF TallyInherits
    <2> QED BY AtProposal, ZenonT(30)
<1> QED BY <1>1, <1>2, <1>3, PTL DEF Spec
=============================================================================

-------------------------- MODULE GovernanceProofs --------------------------
(***************************************************************************)
(* Proofs about Governance for every set of accounts, parameters, proposed *)
(* changes and bounds.  What a parameter change rests on is a chain of     *)
(* facts about the proposal behind it (it was governable when submitted,   *)
(* valid when executed, and voted on after its voting start); IInv is the  *)
(* part of that chain which has to be remembered between the steps.  How a *)
(* proposal is decided needs the sums of its tally, over the one vote that *)
(* is ever counted.                                                        *)
(***************************************************************************)
EXTENDS Governance, FoldTheorems, SequenceTheorems, WellFoundedInduction

(* No proposal is ever stored in its voting status, and a passed one was   *)
(* voted on after its voting start, with a positive timelock.              *)
PassedInTime ==
  \A id \in DOMAIN proposals :
    /\ proposals[id].status # "voting"
    /\ proposals[id].status = "passed" =>
         proposals[id].executionTime > proposals[id].votingStart + 1

IInv == TypeOK /\ ParamsStayValid /\ PassedInTime

(* The timelock and the voting period in force are positive.               *)
LEMMA DurationsArePositive ==
  ASSUME ParamsStayValid
  PROVE  /\ params["timelock_period"] \in Nat /\ params["timelock_period"] > 0
         /\ params["voting_period"] \in Nat
<1>1. "timelock_period" \in DurationKeys /\ "voting_period" \in DurationKeys
  BY DEF DurationKeys
<1>2. "timelock_period" \notin TextKeys /\ "voting_period" \notin TextKeys
  BY DEF TextKeys
<1>3. Acceptable("timelock_period", params["timelock_period"])
      /\ Acceptable("voting_period", params["voting_period"])
  BY <1>1 DEF ParamsStayValid, Governable
<1>. QED  BY <1>1, <1>2, <1>3 DEF Acceptable

(* Every nonempty set of positions of a list has a last one.               *)
LEMMA LastPosition ==
  ASSUME NEW n \in Nat, NEW H \in SUBSET (1..n), H # {}
  PROVE  \E i \in H : \A j \in H : j <= i
<1>. DEFINE T == {n - i : i \in H}
            R == OpToRel(<, Nat)
<1>1. T \subseteq Nat /\ T # {}
  <2>1. \A i \in H : n - i \in Nat
    OBVIOUS
  <2>2. PICK i \in H : TRUE
    OBVIOUS
  <2>3. n - i \in T
    BY <2>2
  <2>. QED  BY <2>1, <2>3
<1>2. IsWellFoundedOn(R, Nat)
  BY NatLessThanWellFounded
<1>. HIDE DEF R
<1>3. PICK t \in T : \A u \in T : ~(<<u, t>> \in R)
  BY <1>1, <1>2, WFMin
<1>4. \A u \in T : ~(u < t)
  BY <1>1, <1>3 DEF R, OpToRel
<1>5. PICK i \in H : t = n - i
  BY <1>3
<1>6. \A j \in H : ~(n - j < n - i)
  BY <1>4, <1>5
<1>. QED  BY <1>6

(* ApplyParameterChange of all the changes of a proposal: a parameter      *)
(* keeps its value or takes one that the proposal lists for it.            *)
LEMMA AppliedChanges ==
  ASSUME NEW changes \in Seq(Changes), NEW key \in Keys
  PROVE  \/ Applied(changes)[key] = params[key]
         \/ \E i \in DOMAIN changes :
              changes[i] = [key |-> key, value |-> Applied(changes)[key]]
<1>. DEFINE hits == {i \in DOMAIN changes : changes[i].key = key}
            last == CHOOSE i \in hits : \A j \in hits : j <= i
<1>1. CASE hits = {}
  BY <1>1 DEF Applied
<1>2. CASE hits # {}
  <2>1. hits \subseteq 1..Len(changes) /\ Len(changes) \in Nat
    OBVIOUS
  <2>. HIDE DEF hits
  <2>2. last \in hits
    BY <1>2, <2>1, LastPosition
  <2>. HIDE DEF last
  <2>3. last \in DOMAIN changes /\ changes[last].key = key /\ changes[last] \in Changes
    BY <2>2 DEF hits
  <2>4. Applied(changes)[key] = changes[last].value
    BY <1>2 DEF Applied, hits, last
  <2>5. changes[last] = [key |-> key, value |-> Applied(changes)[key]]
    BY <2>3, <2>4 DEF Changes
  <2>. QED  BY <2>3, <2>5
<1>. QED  BY <1>1, <1>2

(* A decision is a well-formed proposal, passed with a positive timelock   *)
(* after the present, or rejected.                                         *)
LEMMA DecidedType ==
  ASSUME ParamsStayValid, now \in Nat, NEW p \in Proposal, NEW tally
  PROVE  LET d == Decided(p, tally) IN
         /\ d \in Proposal
         /\ d.status \in {"passed", "rejected"}
         /\ d.status = "passed" => d.executionTime > now
         /\ d.changes = p.changes /\ d.votingStart = p.votingStart
<1>1. params["timelock_period"] \in Nat /\ params["timelock_period"] > 0
  BY DurationsArePositive
<1>2. CASE IsProposalPassed(tally)
  <2>. DEFINE t == now + params["timelock_period"]
              d == [p EXCEPT !.status = "passed", !.executionTime = t]
  <2>1. t \in Nat /\ t > now
    BY <1>1
  <2>2. Decided(p, tally) = d
    BY <1>2 DEF Decided
  <2>. HIDE DEF t
  <2>3. /\ d \in Proposal /\ d.status = "passed" /\ d.executionTime = t
        /\ d.changes = p.changes /\ d.votingStart = p.votingStart
    BY <2>1 DEF Proposal, Statuses
  <2>. HIDE DEF d
  <2>. QED  BY <2>1, <2>2, <2>3
<1>3. CASE ~IsProposalPassed(tally)
  BY <1>3 DEF Decided, Proposal, Statuses
<1>. QED  BY <1>2, <1>3

LEMMA InitEstablishes == Init => IInv
<1>. SUFFICES ASSUME Init PROVE IInv
  OBVIOUS
<1>1. << >> \in Seq(Proposal) /\ Len(<< >>) = 0 /\ DOMAIN << >> = {}
  OBVIOUS
<1>2. TypeOK
  BY <1>1, GovernanceConstants DEF Init, TypeOK
<1>3. ParamsStayValid
  BY GovernanceConstants DEF Init, ParamsStayValid
<1>4. PassedInTime
  BY <1>1 DEF Init, PassedInTime
<1>. QED  BY <1>2, <1>3, <1>4 DEF IInv

-----------------------------------------------------------------------------
LEMMA SubmitProposalKeeps ==
  ASSUME IInv, NEW deposit \in Deposits, NEW changes \in ChangeLists,
         SubmitProposal(deposit, changes)
  PROVE  IInv' /\ params' = params /\ DecisionsAreFinalStep
<1>. DEFINE new == [status        |-> "submitted",
                    changes       |-> changes,
                    votingStart   |-> now + VotingDelay,
                    votingEnd     |-> now + params["voting_period"],
                    timelock      |-> params["timelock_period"],
                    executionTime |-> 0]
            last == Len(proposals) + 1
<1>1. /\ proposals \in Seq(Proposal) /\ now \in Nat
      /\ proposals' = Append(proposals, new) /\ UNCHANGED <<votes, params, balances, now>>
  BY DEF IInv, TypeOK, SubmitProposal
<1>2. new \in Proposal
  BY <1>1, DurationsArePositive, GovernanceConstants DEF Proposal, Statuses, IInv
<1>. HIDE DEF new
<1>3. /\ proposals' \in Seq(Proposal) /\ Len(proposals') = last
      /\ DOMAIN proposals' = (DOMAIN proposals) \union {last}
      /\ proposals'[last] = new
      /\ \A id \in DOMAIN proposals : proposals'[id] = proposals[id]
  BY <1>1, <1>2
<1>4. TypeOK'
  <2>1. Len(proposals') <= MaxProposals /\ Len(proposals') > Len(proposals)
    BY <1>1, <1>3, GovernanceConstants DEF SubmitProposal
  <2>2. \A id \in 1..MaxProposals : id > Len(proposals') => votes'[id] = {}
    BY <1>1, <2>1, <1>3 DEF IInv, TypeOK
  <2>. QED  BY <1>1, <1>3, <2>1, <2>2 DEF IInv, TypeOK
<1>5. ParamsStayValid'
  BY <1>1 DEF IInv, ParamsStayValid
<1>6. PassedInTime'
  <2>1. new.status = "submitted"
    BY DEF new
  <2>. QED  BY <1>3, <2>1 DEF IInv, PassedInTime
<1>7. DecisionsAreFinalStep
  BY <1>1, <1>3 DEF DecisionsAreFinalStep
<1>. QED  BY <1>1, <1>4, <1>5, <1>6, <1>7 DEF IInv

LEMMA VoteKeeps ==
  ASSUME IInv, NEW id \in DOMAIN proposals, NEW voter \in Accounts,
         NEW option \in Options, Vote(voter, id, option)
  PROVE  IInv' /\ params' = params /\ DecisionsAreFinalStep
<1>. DEFINE p == proposals[id]
            power == balances[voter]
            new == [voter |-> voter, option |-> option, power |-> power]
            cast == votes[id] \union {new}
            d == Decided(p, TallyOf(cast))
<1>1. /\ proposals \in Seq(Proposal) /\ p \in Proposal /\ now \in Nat
      /\ id \in 1..Len(proposals) /\ Len(proposals) <= MaxProposals
      /\ id \in 1..MaxProposals
  BY GovernanceConstants DEF IInv, TypeOK
<1>2. p.status = "submitted" /\ now > p.votingStart
  BY DEF Vote, VotingOpen, IInv, PassedInTime
<1>3. /\ proposals' = [proposals EXCEPT ![id] = d]
      /\ votes' = [votes EXCEPT ![id] = cast]
      /\ params' = params /\ balances' = balances /\ now' = now
  BY DEF Vote
<1>4. new \in VoteRecord
  BY DEF VoteRecord, IInv, TypeOK
<1>5. /\ d \in Proposal /\ d.status \in {"passed", "rejected"}
      /\ d.status = "passed" => d.executionTime > now
      /\ d.changes = p.changes /\ d.votingStart = p.votingStart
  BY <1>1, DecidedType DEF IInv
<1>. HIDE DEF d, new
<1>6. /\ proposals' \in Seq(Proposal) /\ Len(proposals') = Len(proposals)
      /\ DOMAIN proposals' = DOMAIN proposals /\ proposals'[id] = d
      /\ \A i \in DOMAIN proposals : i # id => proposals'[i] = proposals[i]
  BY <1>1, <1>3, <1>5
<1>7. TypeOK'
  <2>1. votes' \in [1..MaxProposals -> SUBSET VoteRecord]
    BY <1>1, <1>3, <1>4 DEF IInv, TypeOK
  <2>2. \A i \in 1..MaxProposals : i > Len(proposals') => votes'[i] = {}
    BY <1>1, <1>3, <1>6 DEF IInv, TypeOK
  <2>. QED  BY <1>1, <1>3, <1>6, <2>1, <2>2 DEF IInv, TypeOK
<1>8. ParamsStayValid'
  BY <1>3 DEF IInv, ParamsStayValid
<1>9. PassedInTime'
  <2>1. d.status = "passed" => d.executionTime > d.votingStart + 1
    BY <1>1, <1>2, <1>5 DEF Proposal
  <2>. QED  BY <1>5, <1>6, <2>1 DEF IInv, PassedInTime
<1>10. DecisionsAreFinalStep
  BY <1>1, <1>2, <1>3, <1>5, <1>6 DEF DecisionsAreFinalStep, IInv, TypeOK
<1>. QED  BY <1>3, <1>7, <1>8, <1>9, <1>10 DEF IInv

LEMMA ExecuteProposalKeeps ==
  ASSUME IInv, NEW id \in DOMAIN proposals, ExecuteProposal(id)
  PROVE  IInv' /\ ParamsChangeStep /\ DecisionsAreFinalStep
<1>. DEFINE p == proposals[id]
            e == [p EXCEPT !.status = "executed"]
<1>1. /\ proposals \in Seq(Proposal) /\ p \in Proposal /\ now \in Nat
      /\ p.changes \in Seq(Changes) /\ params \in [Keys -> Values]
  <2>1. proposals \in Seq(Proposal) /\ now \in Nat /\ params \in [Keys -> Values]
    BY DEF IInv, TypeOK
  <2>2. p \in Proposal
    BY <2>1
  <2>. QED  BY <2>1, <2>2 DEF Proposal
<1>2. p.status = "passed" /\ now >= p.executionTime /\ p.executionTime > p.votingStart + 1
  BY DEF ExecuteProposal, CanExecuteProposal, IInv, PassedInTime
<1>3. /\ proposals' = [proposals EXCEPT ![id] = e]
      /\ params' = Applied(p.changes)
      /\ votes' = votes /\ balances' = balances /\ now' = now
  BY DEF ExecuteProposal
<1>4. /\ e \in Proposal /\ e.status = "executed" /\ e.changes = p.changes
      /\ e.executionTime = p.executionTime
  BY <1>1 DEF Proposal, Statuses
<1>. HIDE DEF e
<1>5. /\ proposals' \in Seq(Proposal) /\ Len(proposals') = Len(proposals)
      /\ DOMAIN proposals' = DOMAIN proposals /\ proposals'[id] = e
      /\ \A i \in DOMAIN proposals : i # id => proposals'[i] = proposals[i]
  BY <1>1, <1>3, <1>4
<1>6. \A key \in Keys :
        \/ params'[key] = params[key]
        \/ \E i \in DOMAIN p.changes :
             p.changes[i] = [key |-> key, value |-> params'[key]]
  BY <1>1, <1>3, AppliedChanges
<1>7. \A i \in DOMAIN p.changes :
        /\ p.changes[i] \in Changes /\ p.changes[i].key \in Governable
        /\ Acceptable(p.changes[i].key, p.changes[i].value)
  BY <1>1 DEF ExecuteProposal, ValidateParameterChanges
<1>8. TypeOK'
  <2>1. ASSUME NEW key \in Keys PROVE params'[key] \in Values
    <3>1. CASE params'[key] = params[key]
      BY <1>1, <3>1
    <3>2. ASSUME NEW i \in DOMAIN p.changes,
                 p.changes[i] = [key |-> key, value |-> params'[key]]
          PROVE  params'[key] \in Values
      <4>1. p.changes[i].value = params'[key]
        BY <3>2
      <4>. QED  BY <1>7, <4>1 DEF Changes
    <3>. QED  BY <1>6, <3>1, <3>2
  <2>2. params' = [key \in Keys |-> params'[key]]
    BY <1>3 DEF Applied
  <2>3. params' \in [Keys -> Values]
    BY <2>1, <2>2
  <2>. QED  BY <1>1, <1>3, <1>5, <2>3 DEF IInv, TypeOK
<1>9. ParamsStayValid'
  <2>1. Governable \subseteq Keys
    BY DEF Keys
  <2>. SUFFICES ASSUME NEW key \in Governable PROVE Acceptable(key, params'[key])
    BY DEF ParamsStayValid
  <2>2. CASE params'[key] = params[key]
    BY <2>2 DEF IInv, ParamsStayValid
  <2>3. ASSUME NEW i \in DOMAIN p.changes,
               p.changes[i] = [key |-> key, value |-> params'[key]]
        PROVE  Acceptable(key, params'[key])
    <3>1. p.changes[i].key = key /\ p.changes[i].value = params'[key]
      BY <2>3
    <3>. QED  BY <1>7, <3>1
  <2>. QED  BY <1>6, <2>1, <2>2, <2>3
<1>10. PassedInTime'
  BY <1>4, <1>5 DEF IInv, PassedInTime
<1>11. DecisionsAreFinalStep
  BY <1>2, <1>3, <1>4, <1>5 DEF DecisionsAreFinalStep
<1>12. ParamsChangeStep
  <2>1. now > p.votingStart + 1
    BY <1>1, <1>2 DEF Proposal
  <2>2. \A key \in Keys : params'[key] # params[key] =>
          /\ key \notin Constitutional
          /\ \E i \in DOMAIN p.changes :
               p.changes[i] = [key |-> key, value |-> params'[key]]
    <3>. SUFFICES ASSUME NEW key \in Keys, params'[key] # params[key]
                  PROVE  /\ key \notin Constitutional
                         /\ \E i \in DOMAIN p.changes :
                              p.changes[i] = [key |-> key, value |-> params'[key]]
      OBVIOUS
    <3>1. PICK i \in DOMAIN p.changes :
            p.changes[i] = [key |-> key, value |-> params'[key]]
      BY <1>6
    <3>2. p.changes[i].key = key
      BY <3>1
    <3>3. key \in Governable
      BY <1>7, <3>2
    <3>4. Governable \intersect Constitutional = {}
      BY DEF Governable, Constitutional, DurationKeys, DecimalKeys, NumberKeys, TextKeys
    <3>. QED  BY <3>1, <3>3, <3>4
  <2>3. proposals'[id].status = "executed"
    BY <1>4, <1>5
  <2>. QED  BY <1>2, <2>1, <2>2, <2>3 DEF ParamsChangeStep
<1>. QED  BY <1>8, <1>9, <1>10, <1>11, <1>12 DEF IInv

(* Transfers and new blocks leave proposals, votes and parameters alone.   *)
LEMMA OthersKeep ==
  ASSUME IInv, UNCHANGED <<proposals, votes, params>>,
         balances' \in [Accounts -> Nat], now' \in Nat
  PROVE  IInv' /\ DecisionsAreFinalStep
<1>1. TypeOK'
  BY DEF IInv, TypeOK
<1>2. ParamsStayValid' /\ PassedInTime'
  BY DEF IInv, ParamsStayValid, PassedInTime
<1>3. DecisionsAreFinalStep
  BY DEF DecisionsAreFinalStep
<1>. QED  BY <1>1, <1>2, <1>3 DEF IInv

LEMMA EveryStep ==
  IInv /\ [Next]_vars => IInv' /\ [ParamsChangeStep]_vars /\ [DecisionsAreFinalStep]_vars
<1>. SUFFICES ASSUME IInv, [Next]_vars
              PROVE  IInv' /\ [ParamsChangeStep]_vars /\ [DecisionsAreFinalStep]_vars
  OBVIOUS
<1>0. params' = params => ParamsChangeStep
  BY DEF ParamsChangeStep
<1>1. ASSUME NEW deposit \in Deposits, NEW changes \in ChangeLists,
             SubmitProposal(deposit, changes)
      PROVE  IInv' /\ ParamsChangeStep /\ DecisionsAreFinalStep
  BY <1>0, <1>1, SubmitProposalKeeps
<1>2. ASSUME NEW id \in DOMAIN proposals, NEW voter \in Accounts,
             NEW option \in Options, Vote(voter, id, option)
      PROVE  IInv' /\ ParamsChangeStep /\ DecisionsAreFinalStep
  BY <1>0, <1>2, VoteKeeps
<1>3. ASSUME NEW id \in DOMAIN proposals, ExecuteProposal(id)
      PROVE  IInv' /\ ParamsChangeStep /\ DecisionsAreFinalStep
  BY <1>3, ExecuteProposalKeeps
<1>4. ASSUME NEW from \in Accounts, NEW to \in Accounts, Transfer(from, to)
      PROVE  IInv' /\ ParamsChangeStep /\ DecisionsAreFinalStep
  <2>1. balances' \in [Accounts -> Nat] /\ now' \in Nat
    BY <1>4 DEF Transfer, IInv, TypeOK
  <2>. QED  BY <1>0, <1>4, <2>1, OthersKeep DEF Transfer
<1>5. ASSUME NEW step \in TimeSteps, NextBlock(step)
      PROVE  IInv' /\ ParamsChangeStep /\ DecisionsAreFinalStep
  <2>1. balances' \in [Accounts -> Nat] /\ now' \in Nat
    BY <1>5, GovernanceConstants DEF NextBlock, IInv, TypeOK
  <2>. QED  BY <1>0, <1>5, <2>1, OthersKeep DEF NextBlock
<1>6. CASE UNCHANGED vars
  <2>1. IInv'
    BY <1>6, OthersKeep DEF vars, IInv, TypeOK
  <2>. QED  BY <1>6, <2>1
<1>. QED  BY <1>1, <1>2, <1>3, <1>4, <1>5, <1>6 DEF Next

LEMMA IInvHolds == Spec => []IInv
<1>1. IInv /\ [Next]_vars => IInv'
  BY EveryStep
<1>. QED  BY <1>1, InitEstablishes, PTL DEF Spec

-----------------------------------------------------------------------------
(* Stored proposals, votes and parameters keep their types.                *)
THEOREM TypeCorrect == Spec => []TypeOK
BY IInvHolds, PTL DEF IInv

(* No sequence of executed proposals leaves a governable parameter with a  *)
(* value its module does not accept (ExecuteProposal).                     *)
THEOREM ParamsAlwaysValid == Spec => []ParamsStayValid
BY IInvHolds, PTL DEF IInv

(* A parameter changes only by executing a passed proposal that announced  *)
(* the change, after its timelock, and no constitutional one ever does.    *)
THEOREM OnlyProposalsChangeParams == Spec => ParamsChangeOnlyByProposal
<1>1. IInv /\ [Next]_vars => [ParamsChangeStep]_vars
  BY EveryStep
<1>. QED  BY <1>1, IInvHolds, PTL DEF Spec, ParamsChangeOnlyByProposal

(* No later message touches the votes, the contents or the timelock of a   *)
(* decided proposal; a passed one is executed at most once.                *)
THEOREM DecisionsStayFinal == Spec => DecisionsAreFinal
<1>1. IInv /\ [Next]_vars => [DecisionsAreFinalStep]_vars
  BY EveryStep
<1>. QED  BY <1>1, IInvHolds, PTL DEF Spec, DecisionsAreFinal
-----------------------------------------------------------------------------
(* The votes of one option, as a sum of FoldTheorems.                      *)
LEMMA VotesAreSums ==
  ASSUME NEW cast, IsFiniteSet(cast), \A v \in cast : v.power \in Nat, NEW option
  PROVE  VotesFor(cast, option) =
           SumFunctionOnSet([v \in cast |-> v.power], {v \in cast : v.option = option})
<1>. DEFINE f == [v \in cast |-> v.power]
            S == {v \in cast : v.option = option}
            Counts(g) == g = [s \in SUBSET S |->
                                IF s = {} THEN 0
                                ELSE (CHOOSE x \in s : TRUE).power
                                       + g[s \ {CHOOSE x \in s : TRUE}]]
            count == CHOOSE g : Counts(g)
<1>1. VotesFor(cast, option) = count[S]
  BY Zenon DEF VotesFor, MapThenSumSet, MapThenFoldSet
<1>2. Summable(f, S)
  BY FS_Subset DEF Summable
<1>3. ASSUME NEW g PROVE Counts(g) <=> Sums(g, f, S)
  <2>1. ASSUME NEW s \in SUBSET S, s # {}
        PROVE  f[CHOOSE x \in s : TRUE] = (CHOOSE x \in s : TRUE).power
    BY <2>1
  <2>2. [s \in SUBSET S |-> IF s = {} THEN 0
                            ELSE (CHOOSE x \in s : TRUE).power
                                   + g[s \ {CHOOSE x \in s : TRUE}]]
        = [s \in SUBSET S |-> IF s = {} THEN 0
                              ELSE f[CHOOSE x \in s : TRUE]
                                     + g[s \ {CHOOSE x \in s : TRUE}]]
    <3>. HIDE DEF f, S
    <3>. QED  BY <2>1
  <2>. QED  BY <2>2 DEF Sums
<1>4. \E g : Counts(g)
  <2>1. \E g \in [SUBSET S -> Int] : Sums(g, f, S)
    BY <1>2, SumsExist
  <2>. HIDE DEF Counts
  <2>. QED  BY <1>3, <2>1
<1>5. Counts(count)
  <2>. HIDE DEF Counts
  <2>. QED  BY <1>4, Zenon
<1>6. Sums(count, f, S)
  BY <1>3, <1>5
<1>. HIDE DEF count, f, S
<1>7. SumFunctionOnSet(f, S) = count[S]
  BY <1>2, <1>6, SumsAreSums
<1>. QED  BY <1>1, <1>7 DEF f, S

(* The tally of no vote, and of one.                                       *)
LEMMA VotesOfNone == ASSUME NEW option PROVE VotesFor({}, option) = 0
<1>1. {v \in {} : v.option = option} = {}
  OBVIOUS
<1>. QED  BY <1>1, VotesAreSums, SumEmpty, FS_EmptySet

LEMMA VotesOfOne ==
  ASSUME NEW v, v.power \in Nat, NEW option
  PROVE  VotesFor({v}, option) = IF option = v.option THEN v.power ELSE 0
<1>. DEFINE f == [w \in {v} |-> w.power]
<1>1. IsFiniteSet({v})
  BY FS_Singleton
<1>2. VotesFor({v}, option) = SumFunctionOnSet(f, {w \in {v} : w.option = option})
  BY <1>1, VotesAreSums
<1>3. CASE option = v.option
  <2>1. {w \in {v} : w.option = option} = {v} /\ {v} \ {v} = {} /\ f[v] = v.power
    BY <1>3
  <2>2. Summable(f, {v})
    BY <1>1 DEF Summable
  <2>3. SumFunctionOnSet(f, {v}) = f[v] + SumFunctionOnSet(f, {v} \ {v})
    BY <2>2, SumRemove
  <2>. HIDE DEF f
  <2>. QED  BY <1>2, <1>3, <2>1, <2>3, SumEmpty
<1>4. CASE option # v.option
  <2>1. {w \in {v} : w.option = option} = {}
    BY <1>4
  <2>. QED  BY <1>2, <1>4, <2>1, SumEmpty
<1>. QED  BY <1>3, <1>4

LEMMA TallyOfOne ==
  ASSUME NEW v, v.power \in Nat
  PROVE  TallyOf({v}) = [o \in {"yes", "no", "abstain"} |->
                           IF o = v.option THEN v.power ELSE 0]
BY VotesOfOne DEF TallyOf

(* A tally that no vote reached yet is the tally of no vote.               *)
Untouched ==
  /\ tallies = [id \in 1..MaxProposals |-> tallies[id]]
  /\ \A id \in 1..MaxProposals : id > Len(proposals) => tallies[id] = TallyOf({})

VotingInv == OneVoteDecides /\ Untouched

(* OneVoteDecides of one proposal.                                         *)
DecidedByOne(status, cast, tally) ==
  IF status = "submitted"
  THEN cast = {} /\ tally = TallyOf({})
  ELSE \E v \in cast :
         /\ cast = {v}
         /\ tally = [o \in {"yes", "no", "abstain"} |->
                       IF o = v.option THEN v.power ELSE 0]

LEMMA InitEstablishesVoting == Init => VotingInv
<1>. SUFFICES ASSUME Init PROVE VotingInv
  OBVIOUS
<1>1. DOMAIN proposals = {}
  BY DEF Init
<1>. QED  BY <1>1 DEF Init, VotingInv, OneVoteDecides, Untouched

LEMMA SubmitProposalKeepsVoting ==
  ASSUME IInv, VotingInv, NEW deposit \in Deposits, NEW changes \in ChangeLists,
         SubmitProposal(deposit, changes)
  PROVE  VotingInv' /\ OnlyAQuorumHolderPassesStep
<1>. DEFINE last == Len(proposals) + 1
<1>1. /\ proposals \in Seq(Proposal) /\ Len(proposals) \in Nat
      /\ Len(proposals') = last /\ last \in 1..MaxProposals
      /\ DOMAIN proposals' = (DOMAIN proposals) \union {last}
      /\ \A id \in DOMAIN proposals : proposals'[id] = proposals[id]
      /\ proposals'[last].status = "submitted"
  BY GovernanceConstants DEF SubmitProposal, IInv, TypeOK
<1>2. votes' = votes /\ tallies' = tallies
  BY DEF SubmitProposal
<1>3. votes[last] = {} /\ tallies[last] = TallyOf({})
  BY <1>1 DEF IInv, TypeOK, VotingInv, Untouched
<1>4. OneVoteDecides'
  BY <1>1, <1>2, <1>3 DEF VotingInv, OneVoteDecides
<1>5. Untouched'
  BY <1>1, <1>2 DEF VotingInv, Untouched
<1>. QED  BY <1>1, <1>4, <1>5 DEF VotingInv, OnlyAQuorumHolderPassesStep

(* Vote: the proposal has no vote yet, so the tally is the voter's power   *)
(* for its option, which alone reaches the quorum if the proposal passes.  *)
LEMMA VoteKeepsVoting ==
  ASSUME IInv, VotingInv, NEW id \in DOMAIN proposals, NEW voter \in Accounts,
         NEW option \in Options, Vote(voter, id, option)
  PROVE  VotingInv' /\ OnlyAQuorumHolderPassesStep
<1>. DEFINE p == proposals[id]
            new == [voter |-> voter, option |-> option, power |-> balances[voter]]
            tally == TallyOf({new})
            d == Decided(p, tally)
<1>1. /\ proposals \in Seq(Proposal) /\ p \in Proposal /\ now \in Nat
      /\ id \in 1..Len(proposals) /\ id \in 1..MaxProposals
      /\ p.status = "submitted" /\ votes[id] = {} /\ balances[voter] \in Nat
  BY GovernanceConstants
     DEF Vote, VotingOpen, IInv, TypeOK, PassedInTime, VotingInv, OneVoteDecides
<1>2. new.power \in Nat /\ new.power = balances[voter] /\ new.option = option
      /\ new.voter = voter
  BY <1>1
<1>. HIDE DEF new
<1>3. tally = [o \in {"yes", "no", "abstain"} |->
                IF o = new.option THEN new.power ELSE 0]
  BY <1>2, TallyOfOne
<1>4. /\ votes' = [votes EXCEPT ![id] = {new}]
      /\ tallies' = [tallies EXCEPT ![id] = tally]
      /\ proposals' = [proposals EXCEPT ![id] = d]
  <2>1. votes[id] \union {new} = {new}
    BY <1>1
  <2>. QED  BY <2>1 DEF Vote, new
<1>5. d \in Proposal /\ d.status \in {"passed", "rejected"}
  BY <1>1, DecidedType DEF IInv
<1>6. d.status = "passed" => IsProposalPassed(tally)
  BY <1>1 DEF Decided, Proposal
<1>. HIDE DEF tally, d
<1>7. /\ DOMAIN proposals' = DOMAIN proposals /\ Len(proposals') = Len(proposals)
      /\ proposals'[id] = d
      /\ \A i \in DOMAIN proposals : i # id => proposals'[i] = proposals[i]
  BY <1>1, <1>4, <1>5
<1>8. /\ votes'[id] = {new} /\ tallies'[id] = tally
      /\ \A i \in 1..MaxProposals : i # id => votes'[i] = votes[i] /\ tallies'[i] = tallies[i]
      /\ tallies' = [i \in 1..MaxProposals |-> tallies'[i]]
  BY <1>1, <1>4 DEF IInv, TypeOK, VotingInv, Untouched
<1>9. DOMAIN proposals \subseteq 1..MaxProposals
  BY <1>1, GovernanceConstants DEF IInv, TypeOK
<1>10. OneVoteDecides'
  <2>1. \A i \in DOMAIN proposals : DecidedByOne(proposals[i].status, votes[i], tallies[i])
    BY DEF VotingInv, OneVoteDecides, DecidedByOne
  <2>2. DecidedByOne(proposals'[id].status, votes'[id], tallies'[id])
    <3>1. new \in votes'[id] /\ votes'[id] = {new}
      BY <1>8
    <3>2. proposals'[id].status # "submitted"
      BY <1>5, <1>7
    <3>. QED  BY <1>3, <1>8, <3>1, <3>2 DEF DecidedByOne
  <2>3. \A i \in DOMAIN proposals' :
          DecidedByOne(proposals'[i].status, votes'[i], tallies'[i])
    BY <1>7, <1>8, <1>9, <2>1, <2>2
  <2>. QED  BY <2>3 DEF OneVoteDecides, DecidedByOne
<1>11. Untouched'
  BY <1>1, <1>7, <1>8 DEF VotingInv, Untouched
<1>12. OnlyAQuorumHolderPassesStep
  <2>. SUFFICES ASSUME d.status = "passed"
                PROVE  /\ new.option = "yes" /\ new.power > 0
                       /\ new.power >= (Supply * params["quorum"]) \div 100
    BY <1>2, <1>7, <1>8 DEF OnlyAQuorumHolderPassesStep
  <2>. DEFINE total == tally.yes + tally.no + tally.abstain
              quorum == (Supply * params["quorum"]) \div 100
  <2>1. total >= quorum /\ tally.yes > tally.no
    BY <1>6 DEF IsProposalPassed
  <2>2. /\ tally.yes = IF new.option = "yes" THEN new.power ELSE 0
        /\ tally.no = IF new.option = "no" THEN new.power ELSE 0
        /\ tally.abstain = IF new.option = "abstain" THEN new.power ELSE 0
    BY <1>3
  <2>3. new.option = "yes" /\ new.power > 0
    BY <1>2, <2>1, <2>2
  <2>4. total = new.power
    BY <1>2, <2>2, <2>3
  <2>. QED  BY <2>1, <2>3, <2>4
<1>. QED  BY <1>10, <1>11, <1>12 DEF VotingInv

LEMMA ExecuteProposalKeepsVoting ==
  ASSUME IInv, VotingInv, NEW id \in DOMAIN proposals, ExecuteProposal(id)
  PROVE  VotingInv' /\ OnlyAQuorumHolderPassesStep
<1>1. proposals \in Seq(Proposal) /\ proposals[id].status = "passed"
  BY DEF ExecuteProposal, CanExecuteProposal, IInv, TypeOK
<1>2. /\ DOMAIN proposals' = DOMAIN proposals /\ Len(proposals') = Len(proposals)
      /\ \A i \in DOMAIN proposals : \/ proposals'[i] = proposals[i]
                                    \/ /\ i = id /\ proposals'[i].status = "executed"
  BY <1>1 DEF ExecuteProposal, Proposal
<1>3. votes' = votes /\ tallies' = tallies
  BY DEF ExecuteProposal
<1>4. OneVoteDecides'
  BY <1>1, <1>2, <1>3 DEF VotingInv, OneVoteDecides
<1>5. Untouched'
  BY <1>2, <1>3 DEF VotingInv, Untouched
<1>. QED  BY <1>2, <1>4, <1>5 DEF VotingInv, OnlyAQuorumHolderPassesStep

LEMMA VotingStep ==
  IInv /\ VotingInv /\ [Next]_vars => VotingInv' /\ [OnlyAQuorumHolderPassesStep]_vars
<1>. SUFFICES ASSUME IInv, VotingInv, [Next]_vars
              PROVE  VotingInv' /\ OnlyAQuorumHolderPassesStep
  OBVIOUS
<1>1. ASSUME UNCHANGED <<proposals, tallies, votes>>
      PROVE  VotingInv' /\ OnlyAQuorumHolderPassesStep
  BY <1>1 DEF VotingInv, OneVoteDecides, Untouched, OnlyAQuorumHolderPassesStep
<1>. QED  BY <1>1, SubmitProposalKeepsVoting, VoteKeepsVoting, ExecuteProposalKeepsVoting
          DEF Next, Transfer, NextBlock, vars

LEMMA VotingInvHolds == Spec => []VotingInv
<1>1. VotingInv /\ IInv /\ [Next]_vars => VotingInv'
  BY VotingStep
<1>. QED  BY <1>1, InitEstablishesVoting, IInvHolds, PTL DEF Spec

(* The first vote that is tallied closes the voting: a decided proposal    *)
(* has one vote, and its tally is that vote's power (Vote, TallyVotes).    *)
(* This is what VotingLastsItsPeriod fails on, in every instance.          *)
THEOREM OneVoteAlwaysDecides == Spec => []OneVoteDecides
BY VotingInvHolds, PTL DEF VotingInv

(* A proposal passes only by a yes vote of an account that holds the whole *)
(* quorum at that moment, whatever the accounts and the supply.            *)
THEOREM OnlyQuorumHoldersPass == Spec => OnlyAQuorumHolderPasses
<1>1. VotingInv /\ IInv /\ [Next]_vars => [OnlyAQuorumHolderPassesStep]_vars
  BY VotingStep
<1>. QED  BY <1>1, VotingInvHolds, IInvHolds, PTL DEF Spec, OnlyAQuorumHolderPasses

-----------------------------------------------------------------------------
(* No WRT is counted twice: a transfer moves WRT but makes none, so no     *)
(* account ever holds more than the supply, and a tally is the power of    *)
(* one vote.                                                               *)
PowersWithinSupply ==
  /\ SumFunctionOnSet(balances, Accounts) <= Supply
  /\ \A id \in DOMAIN proposals : \A v \in votes[id] : v.power <= Supply

LEMMA TransferKeepsTheSum ==
  ASSUME TypeOK, NEW from \in Accounts, NEW to \in Accounts, Transfer(from, to)
  PROVE  SumFunctionOnSet(balances', Accounts) = SumFunctionOnSet(balances, Accounts)
<1>. DEFINE taken == [balances EXCEPT ![from] = 0]
<1>1. /\ balances \in [Accounts -> Nat] /\ from # to /\ IsFiniteSet(Accounts)
      /\ balances' = [balances EXCEPT ![from] = 0, ![to] = @ + balances[from]]
  BY GovernanceConstants DEF TypeOK, Transfer
<1>2. /\ taken \in [Accounts -> Nat] /\ taken[from] = 0 /\ taken[to] = balances[to]
      /\ \A a \in Accounts \ {from} : taken[a] = balances[a]
  BY <1>1
<1>3. /\ balances' \in [Accounts -> Nat] /\ balances'[to] = balances[to] + balances[from]
      /\ \A a \in Accounts \ {to} : balances'[a] = taken[a]
  BY <1>1
<1>4. Summable(balances, Accounts) /\ Summable(taken, Accounts) /\ Summable(balances', Accounts)
  BY <1>1, <1>2, <1>3 DEF Summable
<1>. HIDE DEF taken
<1>5. SumFunctionOnSet(taken, Accounts)
        = SumFunctionOnSet(balances, Accounts) + taken[from] - balances[from]
  BY <1>2, <1>4, SumUpdate
<1>6. SumFunctionOnSet(balances', Accounts)
        = SumFunctionOnSet(taken, Accounts) + balances'[to] - taken[to]
  BY <1>3, <1>4, SumUpdate
<1>7. /\ SumFunctionOnSet(taken, Accounts) \in Int
      /\ SumFunctionOnSet(balances, Accounts) \in Int
  BY <1>4, SumType
<1>8. balances[from] \in Nat /\ balances[to] \in Nat
  BY <1>1
<1>. QED  BY <1>2, <1>3, <1>5, <1>6, <1>7, <1>8

LEMMA PowersStayWithinSupply ==
  IInv /\ PowersWithinSupply /\ [Next]_vars => PowersWithinSupply'
<1>. SUFFICES ASSUME IInv, PowersWithinSupply, [Next]_vars PROVE PowersWithinSupply'
  OBVIOUS
<1>1. TypeOK
  BY DEF IInv
<1>2. ASSUME NEW deposit \in Deposits, NEW changes \in ChangeLists,
             SubmitProposal(deposit, changes)
      PROVE  PowersWithinSupply'
  <2>1. /\ DOMAIN proposals' = (DOMAIN proposals) \union {Len(proposals) + 1}
        /\ votes' = votes /\ balances' = balances
        /\ Len(proposals) + 1 \in 1..MaxProposals
    BY <1>1, <1>2, GovernanceConstants DEF SubmitProposal, TypeOK
  <2>2. votes[Len(proposals) + 1] = {}
    BY <1>1, <2>1 DEF TypeOK
  <2>. QED  BY <2>1, <2>2 DEF PowersWithinSupply
<1>3. ASSUME NEW id \in DOMAIN proposals, NEW voter \in Accounts,
             NEW option \in Options, Vote(voter, id, option)
      PROVE  PowersWithinSupply'
  <2>1. /\ id \in 1..MaxProposals /\ DOMAIN proposals \subseteq 1..MaxProposals
        /\ votes \in [1..MaxProposals -> SUBSET VoteRecord]
        /\ balances \in [Accounts -> Nat] /\ IsFiniteSet(Accounts)
    BY <1>1, GovernanceConstants DEF TypeOK
  <2>2. balances[voter] <= Supply
    <3>1. balances[voter] <= SumFunctionOnSet(balances, Accounts)
      BY <2>1, SumMember
    <3>2. SumFunctionOnSet(balances, Accounts) \in Nat
      BY <2>1, SumNat
    <3>. QED  BY <2>1, <3>1, <3>2, GovernanceConstants DEF PowersWithinSupply
  <2>3. /\ DOMAIN proposals' = DOMAIN proposals /\ balances' = balances
        /\ votes' = [votes EXCEPT ![id] = votes[id] \union
                       {[voter |-> voter, option |-> option, power |-> balances[voter]]}]
    BY <1>1, <1>3 DEF Vote, TypeOK
  <2>4. ASSUME NEW i \in DOMAIN proposals, NEW v \in votes'[i] PROVE v.power <= Supply
    <3>1. \/ v \in votes[i]
          \/ v = [voter |-> voter, option |-> option, power |-> balances[voter]]
      BY <2>1, <2>3
    <3>. QED  BY <2>2, <3>1 DEF PowersWithinSupply
  <2>. QED  BY <2>3, <2>4 DEF PowersWithinSupply
<1>4. ASSUME UNCHANGED votes, DOMAIN proposals' = DOMAIN proposals, UNCHANGED balances
      PROVE  PowersWithinSupply'
  BY <1>4 DEF PowersWithinSupply
<1>5. ASSUME NEW id \in DOMAIN proposals, ExecuteProposal(id) PROVE PowersWithinSupply'
  BY <1>1, <1>4, <1>5 DEF ExecuteProposal, TypeOK
<1>6. ASSUME NEW from \in Accounts, NEW to \in Accounts, Transfer(from, to)
      PROVE  PowersWithinSupply'
  <2>1. SumFunctionOnSet(balances', Accounts) = SumFunctionOnSet(balances, Accounts)
    BY <1>1, <1>6, TransferKeepsTheSum
  <2>. QED  BY <1>6, <2>1 DEF PowersWithinSupply, Transfer
<1>7. ASSUME NEW step \in TimeSteps, NextBlock(step) PROVE PowersWithinSupply'
  BY <1>4, <1>7 DEF NextBlock
<1>8. CASE UNCHANGED vars
  BY <1>4, <1>8 DEF vars
<1>. QED  BY <1>2, <1>3, <1>5, <1>6, <1>7, <1>8 DEF Next

(* In every instance, no vote of a proposal counts WRT that another vote   *)
(* has counted: its tally stays within the supply (Vote, TallyVotes).      *)
THEOREM NoWRTCountsTwice == Spec => []TalliesWithinSupply
<1>1. Init => PowersWithinSupply
  BY GovernanceConstants DEF Init, PowersWithinSupply
<1>2. IInv /\ VotingInv /\ PowersWithinSupply => TalliesWithinSupply
  <2>. SUFFICES ASSUME IInv, VotingInv, PowersWithinSupply, NEW id \in DOMAIN proposals
                PROVE  tallies[id].yes + tallies[id].no + tallies[id].abstain <= Supply
    BY DEF TalliesWithinSupply
  <2>1. CASE proposals[id].status = "submitted"
    <3>1. tallies[id] = TallyOf({})
      BY <2>1 DEF VotingInv, OneVoteDecides
    <3>2. tallies[id].yes = 0 /\ tallies[id].no = 0 /\ tallies[id].abstain = 0
      BY <3>1, VotesOfNone DEF TallyOf
    <3>. QED  BY <3>2, GovernanceConstants
  <2>2. CASE proposals[id].status # "submitted"
    <3>1. PICK v \in votes[id] :
            tallies[id] = [o \in {"yes", "no", "abstain"} |->
                             IF o = v.option THEN v.power ELSE 0]
      BY <2>2 DEF VotingInv, OneVoteDecides
    <3>2. v.power \in Nat /\ v.power <= Supply
      <4>1. id \in 1..MaxProposals
        BY GovernanceConstants DEF IInv, TypeOK
      <4>2. v \in VoteRecord
        BY <4>1 DEF IInv, TypeOK
      <4>. QED  BY <4>2 DEF VoteRecord, PowersWithinSupply
    <3>3. /\ tallies[id].yes = IF v.option = "yes" THEN v.power ELSE 0
          /\ tallies[id].no = IF v.option = "no" THEN v.power ELSE 0
          /\ tallies[id].abstain = IF v.option = "abstain" THEN v.power ELSE 0
      BY <3>1
    <3>. QED  BY <3>2, <3>3, GovernanceConstants
  <2>. QED  BY <2>1, <2>2
<1>. QED  BY <1>1, <1>2, PowersStayWithinSupply, VotingInvHolds, IInvHolds, PTL DEF Spec
=============================================================================

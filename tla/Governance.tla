----------------------------- MODULE Governance -----------------------------
(***************************************************************************)
(* x/governance: proposals that change operational parameters of the       *)
(* chain, decided by votes weighted with the voters' WRT, and executed     *)
(* after a timelock.  A failing message is rolled back, so it is no step.  *)
(*                                                                         *)
(* Data abstraction.  Times are in hours.  A proposal is known by its      *)
(* position in the sequence of proposals, which the stored counter counts. *)
(* The tally fields of a stored proposal are a variable of their own.      *)
(* Quorum and threshold are percentages.  A value that does not parse as   *)
(* its parameter's type is Malformed; parameters stored as text take any   *)
(* value.  A quorum that parses as not-a-number is left out.  The WRT      *)
(* supply is fixed: no proposal is tallied twice, so a changing supply     *)
(* adds nothing.                                                           *)
(***************************************************************************)
EXTENDS Integers, Sequences, FiniteSets, FiniteSetsExt, Functions

CONSTANTS
  Accounts,        \* addresses that submit, vote and hold WRT
  Malformed,       \* a new value that does not parse
  MaxUint32,       \* the largest number of 32 bits
  ChangeLists,     \* the lists of parameter changes that are proposed
  Deposits,        \* the deposits that are offered
  InitialParams,
  InitialBalances, \* uwrt of each account at genesis
  Supply,          \* total uwrt, TotalWRTSupply or the bank's
  VotingDelay,     \* from submission to the start of voting (1 in the code)
  TimeSteps,       \* hours from one block to the next
  MaxProposals,    \* bound: proposals of the model
  MaxTime          \* bound: the last block time of the model

(* The governable parameters of all modules by the kind of their values.   *)
DurationKeys == {"voting_period", "timelock_period", "inactivity_period",
                 "deactivation_period", "base_block_time"}

DecimalKeys == {"quorum", "threshold"}

NumberKeys == {"min_deposit", "max_open_orders", "high_activity_threshold",
               "low_activity_threshold"}

TextKeys == {"activity_coefficient", "min_lzn_amount", "max_lzn_amount",
             "min_ant_amount", "max_ant_amount", "trading_fee_rate"}

Governable == DurationKeys \union DecimalKeys \union NumberKeys \union TextKeys

Constitutional ==
  {"wrt_total_supply", "wrt_halving_interval", "wrt_base_reward",
   "lzn_total_supply", "lzn_denom", "ident_zkp_requirement",
   "ident_role_choice", "lizenz_max_validator_share"}

Keys == Governable \union Constitutional

Values == Nat \union {Malformed}

Changes == [key : Keys, value : Values]

(* Which values the handlers take for a governable parameter; the last     *)
(* conjunct is the type check of x/anteil's parameter store.               *)
Acceptable(key, value) ==
  \/ key \in TextKeys
  \/ /\ value \in Nat
     /\ key \in DurationKeys => value > 0
     /\ key \in DecimalKeys => value <= 100
     /\ key = "max_open_orders" => value \in 1..MaxUint32

ASSUME GovernanceConstants ==
  /\ Malformed \notin Nat
  /\ MaxUint32 \in Nat
  /\ ChangeLists \subseteq Seq(Changes)
  /\ Deposits \subseteq Nat
  /\ InitialParams \in [Keys -> Values]
  /\ \A key \in Governable : Acceptable(key, InitialParams[key])
  /\ IsFiniteSet(Accounts)
  /\ InitialBalances \in [Accounts -> Nat]
  /\ Supply \in Nat
  /\ SumFunctionOnSet(InitialBalances, Accounts) <= Supply
  /\ VotingDelay \in Nat
  /\ TimeSteps \subseteq Nat
  /\ MaxProposals \in Nat /\ MaxTime \in Nat

VARIABLES
  proposals,  \* sequence of the stored proposals
  tallies,    \* id -> yes, no and abstain votes of the proposal
  votes,      \* id -> set of the stored votes
  params,     \* governable and constitutional parameters of all modules
  balances,   \* account -> uwrt
  now         \* block time

vars == <<proposals, tallies, votes, params, balances, now>>

Statuses == {"submitted", "voting", "passed", "executed", "rejected"}

Options == {"yes", "no", "abstain", "unspecified"}

Proposal == [status : Statuses, changes : Seq(Changes), votingStart : Nat,
             votingEnd : Nat, timelock : Nat, executionTime : Nat]

VoteRecord == [voter : Accounts, option : Options, power : Nat]

-----------------------------------------------------------------------------
VotesFor(cast, option) ==
  MapThenSumSet(LAMBDA v : v.power, {v \in cast : v.option = option})

TallyOf(cast) == [yes     |-> VotesFor(cast, "yes"),
                  no      |-> VotesFor(cast, "no"),
                  abstain |-> VotesFor(cast, "abstain")]

(* Mutant: the quorum is not checked.                                      *)
IsProposalPassedWithoutQuorum(tally) ==
  LET total == tally.yes + tally.no + tally.abstain IN
  /\ tally.yes > (total * params["threshold"]) \div 100
  /\ tally.yes > tally.no

IsProposalPassed(tally) ==
  LET total == tally.yes + tally.no + tally.abstain IN
  /\ total >= (Supply * params["quorum"]) \div 100
  /\ tally.yes > (total * params["threshold"]) \div 100
  /\ tally.yes > tally.no

(* TallyVotes closes the voting: every tally passes or rejects.            *)
Decided(p, tally) ==
  IF IsProposalPassed(tally)
  THEN [p EXCEPT !.status = "passed",
                 !.executionTime = now + params["timelock_period"]]
  ELSE [p EXCEPT !.status = "rejected"]

(* Mutant: a decided proposal can still be voted on.                       *)
VotingOpenAlways(p) == p.status # "executed" /\ now > p.votingStart

VotingOpen(p) ==
  \/ p.status = "voting"
  \/ p.status = "submitted" /\ now > p.votingStart

(* Mutant: the timelock is not compared with the block time.               *)
CanExecuteAtOnce(p) == p.status = "passed"

CanExecuteProposal(p) == p.status = "passed" /\ now >= p.executionTime

(* Mutant: the values are applied without validation.                      *)
ValidateNothing(changes) == \A i \in DOMAIN changes : changes[i].key \in Governable

ValidateParameterChanges(changes) ==
  \A i \in DOMAIN changes :
    changes[i].key \in Governable /\ Acceptable(changes[i].key, changes[i].value)

(* ApplyParameterChange of each change in turn: the last one of a key wins.*)
Applied(changes) ==
  [key \in Keys |->
     LET hits == {i \in DOMAIN changes : changes[i].key = key} IN
     IF hits = {} THEN params[key]
     ELSE changes[CHOOSE i \in hits : \A j \in hits : j <= i].value]

-----------------------------------------------------------------------------
Init ==
  /\ proposals = << >>
  /\ tallies = [id \in 1..MaxProposals |-> TallyOf({})]
  /\ votes = [id \in 1..MaxProposals |-> {}]
  /\ params = InitialParams
  /\ balances = InitialBalances
  /\ now = 0

(* Mutant: the voting start lies before the submission.                    *)
SubmitProposalBackdated(deposit, changes) ==
  /\ Len(proposals) < MaxProposals
  /\ deposit >= params["min_deposit"]
  /\ \A i \in DOMAIN changes : changes[i].key \in Governable
  /\ proposals' = Append(proposals,
       [status        |-> "submitted",
        changes       |-> changes,
        votingStart   |-> now - VotingDelay,
        votingEnd     |-> now + params["voting_period"],
        timelock      |-> params["timelock_period"],
        executionTime |-> 0])
  /\ UNCHANGED <<tallies, votes, params, balances, now>>

(* The deposit is compared with the minimum, and never collected.          *)
SubmitProposal(deposit, changes) ==
  /\ Len(proposals) < MaxProposals
  /\ deposit >= params["min_deposit"]
  /\ \A i \in DOMAIN changes : changes[i].key \in Governable
  /\ proposals' = Append(proposals,
       [status        |-> "submitted",
        changes       |-> changes,
        votingStart   |-> now + VotingDelay,
        votingEnd     |-> now + params["voting_period"],
        timelock      |-> params["timelock_period"],
        executionTime |-> 0])
  /\ UNCHANGED <<tallies, votes, params, balances, now>>

Vote(voter, id, option) ==
  LET power == balances[voter]
      cast  == votes[id] \union {[voter |-> voter, option |-> option, power |-> power]}
  IN
  /\ VotingOpen(proposals[id])
  /\ \A v \in votes[id] : v.voter # voter
  /\ votes' = [votes EXCEPT ![id] = cast]
  /\ tallies' = [tallies EXCEPT ![id] = TallyOf(cast)]
  /\ proposals' = [proposals EXCEPT ![id] = Decided(@, TallyOf(cast))]
  /\ UNCHANGED <<params, balances, now>>

ExecuteProposal(id) ==
  /\ CanExecuteProposal(proposals[id])
  /\ ValidateParameterChanges(proposals[id].changes)
  /\ params' = Applied(proposals[id].changes)
  /\ proposals' = [proposals EXCEPT ![id].status = "executed"]
  /\ UNCHANGED <<tallies, votes, balances, now>>

(* WRT changes hands in x/bank.                                            *)
Transfer(from, to) ==
  /\ from # to
  /\ balances' = [balances EXCEPT ![from] = 0, ![to] = @ + balances[from]]
  /\ UNCHANGED <<proposals, tallies, votes, params, now>>

NextBlock(step) ==
  /\ now + step <= MaxTime
  /\ now' = now + step
  /\ UNCHANGED <<proposals, tallies, votes, params, balances>>

Next ==
  \/ \E deposit \in Deposits, changes \in ChangeLists : SubmitProposal(deposit, changes)
  \/ \E id \in DOMAIN proposals :
       \/ \E voter \in Accounts, option \in Options : Vote(voter, id, option)
       \/ ExecuteProposal(id)
  \/ \E from, to \in Accounts : Transfer(from, to)
  \/ \E step \in TimeSteps : NextBlock(step)

Spec == Init /\ [][Next]_vars

-----------------------------------------------------------------------------
(* Stored proposals, votes and parameters have their types, and no vote of *)
(* the store belongs to a proposal that was never submitted.               *)
TypeOK ==
  /\ proposals \in Seq(Proposal)
  /\ Len(proposals) <= MaxProposals
  /\ votes \in [1..MaxProposals -> SUBSET VoteRecord]
  /\ \A id \in 1..MaxProposals : id > Len(proposals) => votes[id] = {}
  /\ params \in [Keys -> Values]
  /\ balances \in [Accounts -> Nat]
  /\ now \in Nat

(* Whatever is executed, every governable parameter keeps a value its      *)
(* module accepts: no later change of a list slips past the validation of  *)
(* the earlier ones, no timelock becomes zero, no quorum exceeds the       *)
(* supply.  (A quorum of the whole supply is accepted.)                    *)
ParamsStayValid == \A key \in Governable : Acceptable(key, params[key])

(* No WRT is counted twice: the votes of a proposal never add up to more   *)
(* than the supply, although WRT voted with can be transferred and its new *)
(* holder can vote, and nothing is locked by a vote.                       *)
TalliesWithinSupply ==
  \A id \in DOMAIN proposals :
    tallies[id].yes + tallies[id].no + tallies[id].abstain <= Supply

ParamsChangeStep ==
  params' # params =>
    \E id \in DOMAIN proposals :
      /\ proposals[id].status = "passed" /\ proposals'[id].status = "executed"
      /\ now >= proposals[id].executionTime
      /\ now > proposals[id].votingStart + 1
      /\ \A key \in Keys : params'[key] # params[key] =>
           /\ key \notin Constitutional
           /\ \E i \in DOMAIN proposals[id].changes :
                proposals[id].changes[i] = [key |-> key, value |-> params'[key]]

(* Nothing but the execution of a passed proposal changes a parameter, it  *)
(* changes only what the proposal announced, never the constitution, and   *)
(* not before the timelock after a vote cast in its voting time is over.   *)
ParamsChangeOnlyByProposal == [][ParamsChangeStep]_vars

DecisionsAreFinalStep ==
  \A id \in DOMAIN proposals :
    /\ proposals'[id].changes = proposals[id].changes
    /\ proposals[id].status \in {"passed", "rejected", "executed"} =>
         /\ votes'[id] = votes[id]
         /\ proposals'[id].executionTime = proposals[id].executionTime
         /\ \/ proposals'[id].status = proposals[id].status
            \/ proposals[id].status = "passed" /\ proposals'[id].status = "executed"

(* What a proposal changes is fixed when it is submitted, and once it is   *)
(* decided no vote is added, its timelock does not move, and it can only   *)
(* be executed, once.                                                      *)
DecisionsAreFinal == [][DecisionsAreFinalStep]_vars

-----------------------------------------------------------------------------
(* "Duration of voting period": no proposal is decided before its voting   *)
(* period is over, so that all holders of WRT can have their say.          *)
VotingLastsItsPeriod ==
  [][\A id \in DOMAIN proposals :
       proposals[id].status = "submitted" /\ proposals'[id].status # "submitted"
         => now >= proposals[id].votingEnd]_vars

-----------------------------------------------------------------------------
(* What the property above comes up against, of every instance.            *)

(* A proposal is decided by one vote: the first vote tallied passes or     *)
(* rejects it, so a decided proposal has one vote, whose power is all      *)
(* there is in the tally, and an undecided one has none.                   *)
OneVoteDecides ==
  \A id \in DOMAIN proposals :
    IF proposals[id].status = "submitted"
    THEN votes[id] = {} /\ tallies[id] = TallyOf({})
    ELSE \E v \in votes[id] :
           /\ votes[id] = {v}
           /\ tallies[id] = [o \in {"yes", "no", "abstain"} |->
                               IF o = v.option THEN v.power ELSE 0]

OnlyAQuorumHolderPassesStep ==
  \A id \in DOMAIN proposals :
    proposals[id].status = "submitted" /\ proposals'[id].status = "passed" =>
      \E v \in votes'[id] :
        /\ v.option = "yes"
        /\ v.power > 0
        /\ balances[v.voter] >= (Supply * params["quorum"]) \div 100

(* A proposal passes only if one account holds the whole quorum and votes  *)
(* yes with it: the votes of several holders are never added up.           *)
OnlyAQuorumHolderPasses == [][OnlyAQuorumHolderPassesStep]_vars
=============================================================================

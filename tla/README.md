# A TLA+ verification of the Volnix protocol

Volnix is a Cosmos SDK chain written in Go. Its economy has three tokens: WRT
(the currency, whose holders govern), LZN (a validator's license) and ANT (the
right to create a block, accrued by citizens and bought by validators). This
directory models the parts of the program that carry this logic as TLA+
modules, checks them with TLC on small instances, and proves their main
properties with TLAPS for every value of the constants.

Paths below are relative to the root of the repository.

## 1. Inventory

A node executes blocks one after the other, and the transactions of a block one
after the other: inside the state machine nothing runs concurrently. What makes
it hard is the *order* of messages and block handlers, state that is read in
one message and used in a later one, several keepers writing the same record,
and errors that are logged and passed over. A message that fails is rolled back
(the SDK discards its writes), a block handler that logs an error is not, and a
block handler that returns one stops the node.

| Component | State | Operations | Talks to | What makes it correct |
|---|---|---|---|---|
| **Blind auction** (`x/consensus`) | one auction per height: phase, commits, reveals, winner; bid history per validator | CommitBid, RevealBid (messages); CreateBlindAuction, TransitionAuctionPhase, SelectAuctionWinner, CleanupOldAuctions (EndBlocker) | reads and burns ANT in `x/anteil` | bids sealed until bidding ends; a ticket is what was committed; one ticket each; only the winner pays |
| **Governance** (`x/governance`) | proposals, votes, counter, parameters | SubmitProposal, Vote (with tally), ExecuteProposal | reads WRT in `x/bank`; writes the parameters of `lizenz`, `anteil`, `consensus` | only a passed proposal changes a parameter, after its timelock, never the constitution; decisions are final; parameters stay usable |
| **Block creation** (`x/consensus`) | validators, weights, block creators, halving heights, block times and their average, consensus state | SelectBlockCreator, SetValidatorWeight, UpdateConsensusState, ProcessHalving (messages); BeginBlocker, EndBlocker; InitGenesis, ExportGenesis | LZN and MOA in `x/lizenz`; mint and send in `x/bank` | halvings keep to their interval; the average is that of recent blocks; a block pays at most its reward; a validator record is not lost |
| **Licenses** (`x/lizenz`) | activated and deactivating licenses, MOA status | ActivateLZN, DeactivateLZN; UpdateLizenzActivity, SetMOAStatus, TransferLizenz, UpdateLizenz (keeper); BeginBlocker | locks LZN in `x/bank`; registers validators in `x/consensus`; resets ANT in `x/anteil` | coins are locked behind licenses; its own coins go back to whom they came from; the BeginBlocker never fails |
| **Identity** (`x/ident`) | verified accounts, index of identity hashes, used proofs, providers | VerifyIdentity, MigrateRole, ChangeRole, RegisterVerificationProvider; BeginBlocker, EndBlocker | burns ANT in `x/anteil` | a hash is one account's; the index agrees with the accounts; roles keep to their limit |
| **ANT market** (`x/anteil`) | orders, trades, positions, time of the last distribution | PlaceOrder, CancelOrder; matching (EndBlocker); daily accrual (BeginBlocker); burn | recipients from `x/ident` | orders account for trades; no order that could trade is left; nobody trades beyond his price; accrual keeps to its rate |
| **Standalone node** (`cmd/volnixd-standalone`) | genesis and signer files, databases, balances and sequences in memory | init, start, stop, FinalizeBlock, MsgSend, queries | CometBFT | a round decides once; memory is what the blocks say; a node catches up |
| Block handlers (`app/app.go`) | - | BeginBlocker: upgrade, ident, anteil, consensus; EndBlocker: ident, anteil, consensus. The BeginBlocker of `x/lizenz` is not called | all keepers | the order in which the modules see a block |
| Integration layer, upgrade manager, rate limiter, snapshots, servers, REST gateway, frontends, generated code | | | | not modelled, see section 5 |

### Hard behaviours

`PROJECT.json` lists every hazard at its line. The ones this development is
built around:

* commits, phase changes and reveals for *any* height arrive in any order, while
  the EndBlocker looks at one auction only, through a copy it read before it
  changed the stored one;
* a balance is checked when a bid is revealed and used when the lottery is
  drawn; another auction or the market spends it in between;
* a vote is tallied with the parameters of the moment, which another proposal
  may have changed since; a list of changes is applied one entry at a time;
* the halving runs from three places; rewards are divided in integers that may
  wrap, rounded, penalised, topped up, and paid by a bank that may refuse or
  panic; the store of validators is read by a prefix that the weights share, and such a
  reading is exported and imported again;
* the 33 % limit of a license depends on what the others hold, so a license
  that was within it may later be refused when it is written back; a license is
  deactivated, activated and idle again while the record of its first
  deactivation stands, which the BeginBlocker would fail on;
* an identity's hash is released and claimed by another address while the
  account that lost it still carries it;
* orders are matched pair by pair and each trade writes four records; prices and
  amounts are strings of which "NaN" is a number; balances are decimals for one
  part of the code and whole numbers for the others;
* a node that starts deletes its databases, and the locks of its validator with
  them, and keeps the file of its signer, which it resets where the genesis file
  cannot be read; its application keeps balances where a failed transaction is
  not rolled back.

## 2. Modules

| Module | What it is |
|---|---|
| `BlindAuction` | the auction as the keeper of `x/consensus` implements it, every exported operation an action |
| `SealedBidAuction` | what such an auction promises, without hashes, phases or balances |
| `BlindAuctionRefinement` | the refinement mapping from the first to the second |
| `AuctionNode` | the auction as a node runs it: messages, and the EndBlocker |
| `Governance` | proposals, votes, execution, parameters |
| `LicenseStore` | licenses and what their keeper writes in `x/bank`, `x/consensus` and `x/anteil` |
| `Lizenz` | extends `LicenseStore`: activity, idleness, deactivation and the BeginBlocker of `x/lizenz` |
| `Consensus` | extends `LicenseStore`: the blockers and messages of `x/consensus`, and a new chain from an export |
| `Ident` | accounts and the index of identity hashes |
| `AntMarket` | orders, matching, accrual and burn |
| `Standalone` | a network of standalone nodes |
| `BlindAuctionProofs` | the theorems about `BlindAuction`, `AuctionNode` and the refinement |
| `GovernanceProofs`, `ConsensusProofs`, `LizenzProofs`, `IdentProofs`, `AntMarketProofs`, `StandaloneProofs` | the theorems about the module they are named for |
| `FoldTheorems` | lemmas about sums over sets, folds over sequences, and least and last elements, which those proofs share |
| `MC*` | model values and constants for TLC |

A definition whose comment starts with "Mutant" is a wrong version of the
definition after it, with one plausible mistake. No specification uses them; a
run repeated with the mistake in place must violate a property, which shows that
the property has teeth.

### BlindAuction and AuctionNode

* `auctions` is the store of `BlindAuction` records by height; a height without
  a record is the record with phase `none`. Commits are a set, since the code
  only searches them by validator; reveals are a sequence, each entry a ticket
  of the lottery.
* `ant` is the balance of each validator's position in `x/anteil` as the keeper
  sees it through `extractAntBalance` and `ParseUint`: a missing position and one
  that does not parse are the same `NoBalance`.
* `history` is the bid history, of which only the block times matter; `bids` has
  the times of all bids, those the history has forgotten too, and is there for
  `RapidBidsBounded` only.
* `height` and `now` are the block header.

`CommitBid`, `RevealBid`, `CreateBlindAuction`, `TransitionAuctionPhase`,
`SelectAuctionWinner`, `CleanupOldAuctions` are the keeper's methods with all
their guards; `UpdateUserPosition` stands for everything `x/anteil` does to a
balance meanwhile; `NextBlock` is the next header. A SHA-256 hash is the pair it
was computed from; `Junk` is a hash of the right length nobody can open, which
`CommitBid` accepts. `rand.Uint64() % totalBid` is any ticket: every revealed bid
is positive. The fallback after the lottery loop of `SelectAuctionWinner` does
the same as the loop for the first reveal. The sums are of uint64 and may wrap,
which changes the odds but not who can be drawn.

`AuctionNode` extends `BlindAuction`. `NodeNext` has the two messages, the market, and
`EndBlocker`, which is the auction part of the EndBlocker of `x/consensus`
together with the step to the next block: the outcome for the auction of the
current height, computed from the copy read at the start, then the creation of
the next auction, then the cleanup. The rest of the EndBlocker does not touch
the variables.

### Governance

* `proposals` is a sequence: the stored counter gives ids 1, 2, ... and nothing
  deletes a proposal. The four tally fields are the variable `tallies`.
* `votes` is the store of votes per proposal; `balances` the WRT that
  `GetWRTBalance` reads.
* `params` maps all 17 governable and the 8 constitutional parameters of all
  modules to values.

`Vote` is the whole handler: the status test, the double-vote test, the stored
vote, the tally over all votes and the decision. `ExecuteProposal` validates and
applies the list; the code alternates validation and application entry by entry,
and since a failure rolls the message back, validating all first is the same.
`Acceptable` joins the checks of `ValidateParameterChange`, of the appliers, and
the one type check of a parameter store that bites (`max_open_orders`). Times
are hours, quorum and threshold percentages (the code multiplies floats and
truncates, the model uses integer division).

### LicenseStore, Lizenz and Consensus

`licenses` is the activated amount per validator, 0 without a license (the
minimum is positive). `bank` holds the LZN of the accounts and of the module
account; a transfer without cover changes nothing, and the keeper logs it and
goes on. `registered` and `weights` are the two stores of `x/consensus` that
activation writes, `positions` the ANT it resets. `LicenseStore` has these
operations of the keeper whole; `Lizenz` and `Consensus` make actions of them
and add what each module needs, so that licenses mean the same in both. They
are not one specification: the application never calls the BeginBlocker of
`x/lizenz`, so on a node the deactivations of `Lizenz` do not meet the blocks of
`Consensus`. `Lizenz` is the keeper with its BeginBlocker, as its module and its
tests use it.

In `Lizenz` the clock appears as ages, `idle` of a license's last activity and
`deactivating` of a deactivation record. They are compared with periods only,
so they stop at `MaxAge`. The code stamps records with the node's clock and
compares them with the block's; the model takes the two for one.
`BeginBlock` is one block: all idle licenses move to deactivation and their
coins back, then the records past their time are dropped. The order of
`CheckInactiveLizenz` matters only to a module account that does not cover all
of them, and is any order.

In `Consensus` a block is `BeginBlocker`, messages, `EndBlocker`; both blockers
are the whole handlers in the order of their calls, the auction excepted, which
shares no variable with them. Block times are kept as distances to the block
before. `payout` is what the last block paid, counted and left in the module
account: balances are its sums, and no decision of the module reads them.
`Distributions` is a set because the remainder goes to whichever compliant
validator the iteration over a Go map meets first; `Candidates` and `Weighted`
follow the key prefix `validator` that `validator_weight` begins with. `Restart`
is a new chain whose genesis is the export of this one. The bank may refuse to
mint or to send (`"not minted"`, `"not sent"`), and it may panic: `MintCoins` does
for a module account without the permission, and `app.go:383` gives that of
`x/consensus` none. `EndBlockerPanics` is that block, after which the chain is
`halted`. On the node as it is every block with a license ends so; what
`RewardsWithinSchedule` says is of blocks under a bank that does pay.

### Ident

`accounts` and `owners` are the two stores; an account that loses its role
keeps its hash, while the index forgets it. A hash is a value of `Identities`,
the first characters of a proof, or the pair of addresses of a migration.
`MigrateRole` executes the migration it stores in the same message, so
BeginBlocker never finds a pending one. Guests (role, not the absence of an
account) exist only by deactivation. `halted` is history: whether the chain ever
stood still for longer than a period.

### AntMarket

`ExecuteTrade` is one pass of the matching loop with everything it writes, and
`EndBlocker` the end of the loop with the rest of the handler, which changes
nothing: no code creates an auction, and market-making orders lack the hash an
order must have. `written` says how a position was written, because
`ParseUint` reads a decimal as an error, which is 0. An order's identifier is
made of its owner and the second, which `OwnerOf` gives. `placed` is history.

`PlaceOrder` asks of a price and an amount only that they are not empty.
`ParseFloat` reads most strings as an error, which counts as 0, but also reads
negative numbers and NaN; `Prices` and `Amounts` are therefore any integers and
`NaN`. `AtLeast` and `Minus` are the comparison and subtraction of floats:
nothing is at least NaN, and nothing less NaN is a number. `Sorted` is what
`sort.Slice` makes of prices some of which compare with nothing: up to twelve
orders it sorts by insertion, which moves no order past NaN, so an order behind a
NaN price does not come first until that order is gone. A trade of two NaN amounts fills
neither order; when the same two meet again, `SetTrade` refuses the second
trade, and the matching of the block ends with everything else written
(`phase` is `matched`).

### Standalone

`genesis` says whether a node's `genesis.json` is absent, readable, or there and
not readable. `signed` is `priv_validator_state.json`, the height and round
signed last: CometBFT's `FilePV` refuses what does not come after them, so a
node may sign a later round of a height it has signed. `InitializeFiles` has the
three ways through `initializeFiles`: a readable genesis file returns before the
reset of the signer, a new one resets a signer that has signed nothing, and one
that cannot be read is kept, but the function goes on to the reset. `reset` is
history, the nodes to which that happened.

`Start` deletes the databases of the application and of CometBFT, so the node is
at height 0 and its memory is `NewStandaloneApp`. It leaves `cs.wal`. Its
messages of the height it ends in bring back the round and the lock of a node
that was never past height 1; once the file has the end of a height (`ended`) it
is refused, and the node starts in round 0 without a lock.

The consensus of CometBFT is external. `VoteNil`, `Decide` and `MoveOn` are its
rounds: a quorum of nodes on the same chain and round, none of them locked on
another block, signs a block and decides it; a node that has seen a quorum vote in
a round without a decision goes to the next. A prevote and the precommit after it
are one vote, so nodes lock on a block only when a quorum decides it: locks that
bind a part of the nodes to a block not yet decided are left out. `MoveOn` is
taken in more cases than CometBFT has, since votes that were lost may be nil or
for the block. `Learn` is a node that gets the votes of the quorum it is in, and
`Fetch` one that takes a block from a peer. `Quorums` is a parameter whose only
assumption is that two of them intersect.

`RunTx` is BaseApp's: the first failing message ends a transaction, and the
store's writes are discarded, which the balances are not. A transfer whose
result does not fit `math.Int` panics before it writes; `MaxInt` is the largest
that fits. `Sending` is a function, so that TLC computes a transaction once
where it would otherwise repeat it in each of its uses.

The package does not compile at this commit, since `NewMonitoringServer`
(`main.go:1093`) is defined nowhere in it; the model is of the code as written.

## 3. Runs

| Run | Shows | Instance and why it is enough |
|---|---|---|
| `auction` | `TypeOK`, `RevealsMatchCommits`, `BlindThenAwarded`, `RapidBidsBounded`, `OnlyWinnersPay`, `ImplementsSealedBid` | two heights, two validators, two bids, junk commitments, a balance that covers either bid but not both and may become unreadable, three blocks so that an auction is cleaned up and entered again; the limit of rapid bids is 1 and so is the history, which forgets a bid with every new one; reveals in two auctions inside and outside the window |
| `node` | `SealedUntilItsBlockEnds`, `LateCommitmentsNeverOpen`, `TimelyCommitmentsOpen` | three blocks: each auction is seen before, in and after its block, and messages name past, current and future heights |
| `governance` | `TypeOK`, `ParamsStayValid`, `TalliesWithinSupply`, `ParamsChangeOnlyByProposal`, `DecisionsAreFinal` | two proposals, two accounts, one of which holds the quorum until it transfers; lists that shorten the timelock, raise the quorum, fail at their last entry, overflow 32 bits (`MaxUint32` is 3), touch the constitution; five hours, so that a proposal can be submitted, voted on, wait and be executed while another is open |
| `consensus` | `TypeOK`, `HalvingsMatchRewards`, `AverageIsRecent`, `RewardsWithinSchedule`, `ActiveStaysActive` | three blocks and one new chain; a halving at the second block, a window of three block times, distances 1 and 4; a reward of 7 and shares in integers below 16, so they wrap; one validator without coins, compliance that halves a reward, sends that fail, mints that panic, weights given to a validator without a license |
| `lizenz` | `TypeOK`, `FundedLicensesAreLocked`, `BlockersNeverFail` | three validators, amounts of which some break the minimum, the maximum or the 33 % limit; ages up to 6 in steps of 2, with the record of a deactivation ending exactly one step before the license activated in its place can be idle |
| `ident` | `TypeOK`, `RolesWithinLimit`, `OwnersCarryTheirHash`, `HashesStayExclusive` | three addresses, three proofs of which two share an identity, a limit of 2, blocks closer and further apart than either period; no bound on the number of steps |
| `ant_market` | `TypeOK`, `OrdersAccountForTrades`, `BookUncrossed`, `OnlyNaNStopsMatching`, `TradesWithinLimits`, `AccrualWithinSchedule` | three orders of two users, of which the second has two with the first one's between them; prices 1, 2 and NaN, amounts -1, 2 and NaN, so that an order fills in part and meets a second, or never fills; three blocks, the second a distance before the distribution is due and the third at it, a limit below the rate |
| `standalone` | `TypeOK`, `RoundsDecideOnce`, `MemoryIsReplayed`, `TotalIsKept`, `CatchesUp` | two nodes of which one alone is a quorum and the other, whose genesis file may become unreadable, lags; two blocks, with a transaction that fails half way, one without messages, one that panics, on credit or at a sum too large, and a transfer; one height of two rounds, a simulation on each node between starts, any number of restarts. More heights are what the proofs are for |
| `node_settles` | violates `EndBlockerSettlesReveals` | as `node` |
| `lizenz_unlocks` | violates `UnlocksOnlyWhatWasLocked` | as `lizenz`, with a validator that has no coins, and the keeper's operations that no message calls |
| `governance_decides` | violates `VotingLastsItsPeriod` | as `governance` |
| `standalone_forks` | violates `HistoryIsKept` | four nodes of equal power, of which three are a quorum, two empty blocks, one height of four rounds |

The bounds are `Heights`, `LastBlock`, `MaxProposals`, `MaxTime`, `MaxRestarts`,
`MaxAge`, `LastTime`, `MaxHeight`, `MaxRound` and `MaxSimulations`; the other
constants are parameters of the program with small values. `MaxAge` loses nothing,
ages past it being past every period. Validators and addresses are symmetric in
the runs that declare it: no property names one. Deadlock is checked where the
model has no bound that stops it (`lizenz`, `ident`, `standalone`).

### Fairness

`Standalone!FairSpec` assumes weak fairness of `Fetch` and `FinalizeBlock` of
each node: the reactors of a running node run. Nothing makes a node start, keep
running, or a block be decided; `CatchesUp` speaks of nodes that do stay up. No
other module states liveness: the one that would need it, `Lizenz`, has a
BeginBlocker that no node calls.

### What the violations say

* **No auction is ever won** (`EndBlockerSettlesReveals`). The EndBlocker looks
  only at the auction of the block it ends. It opens that auction, but its
  second test still sees the copy read before; the next EndBlocker looks at the
  next auction. Reveals can be sent for ever and the lottery is never drawn.
* **Unlocked without a lock** (`UnlocksOnlyWhatWasLocked`). A lock the bank
  refuses does not stop an activation, and the deactivation pays the amount out
  of what others locked. `FundedLicensesAreLocked` is the positive statement,
  for accounts that can pay.
* **The first vote decides** (`VotingLastsItsPeriod`). `Vote` tallies after every
  vote, and the tally sets the status at once: the first vote, cast at any time
  after the voting start, passes or rejects the proposal, and every other holder
  of WRT is refused. `OneVoteDecides` and `OnlyAQuorumHolderPasses` say what this
  comes to in every instance and are theorems, not claims of the runs:
  `TestTallyVotes` (`x/governance/keeper/keeper_test.go:225`) sums three votes, the
  comment at `msg_server.go:114` and `docs/volnix_protocol.md` give the vote to
  all holders, and no sequence of messages reaches such a state.
* **A restart forgets a decision** (`HistoryIsKept`). Three of four validators
  decide a block in round 0. They are restarted one by one; block and locks are
  gone, and what the signer keeps forbids them round 0 only. The fourth votes for
  no block, the round is lost, and in the next one they decide another block at
  the same height. What does hold is `RoundsDecideOnce`: within one round the
  signer is enough, unless a start met a genesis file it could not read.

### Observations the models show without a run

Disagreements with what the repository says which one look at an action shows:

* A vote counts at any time after the voting start: the end of the voting is
  stored and never read, although the comment at
  `x/governance/keeper/msg_server.go:132` says "Check if proposal is in voting
  period" (`Vote`). An account without WRT may cast it. The timelock stored with
  a proposal is never read. A quorum of the whole supply is acceptable, after
  which nearly no proposal can pass (`Acceptable`, `ParamsStayValid`).
* A winner whose balance has been spent does not pay, and the auction completes
  all the same (`Burned`); the comment at `x/consensus/keeper/keeper.go:1323` says
  "Burn ANT from winner". On a node no auction completes, so none is deleted.
* A history limit below the limit of rapid bids, which both validations accept,
  switches the latter off (`RecentBids`); `keeper.go:1122` says "Prevent too many
  rapid bids (configurable limit)". `RapidBidsBounded` has the assumption.
* On a node the first license to reward makes the EndBlocker panic
  (`EndBlockerPanics`), on every retry too; the comment at
  `x/consensus/keeper/keeper.go:826` says "Don't fail the block if reward
  distribution fails", but an error is what it means.
* The application calls the BeginBlockers of `x/ident`, `x/anteil` and
  `x/consensus` (`app/app.go:534-542`) and never that of `x/lizenz`: on a node no
  idle license leaves and no deactivation ends, where
  `docs/volnix_protocol.md:46` says that the LZN of a validator inactive for six
  months "принудительно размораживаются".
* A license over the 33 % limit cannot be written back: its activity is not
  recorded, so the keeper ends it as if idle, and its rewards are paid but not
  counted (`MayUpdate`, `Counted`).
* EndBlocker stamps every account in every block (`Refreshed`), so an account is
  idle only if the whole chain was, and a silent holder keeps its role;
  `docs/volnix_protocol.md:45` says that a citizen without a signed transaction
  for a year "автоматически лишается статуса". The limit on roles is compared
  with all holders of a role, where its name speaks of an address.
* A migration does not ask whether its source is active or was migrated before
  (`MigrateRole`): an account is copied to any number of addresses that are all
  active, which with the default limit of one holder the limit prevents;
  `x/ident/keeper/security_enhancements.go:203` quotes "один человек — одна
  верифицированная роль".
* A trade stores its quantity as the buyer's whole balance and the negative of
  it as the seller's (`PositionsAfter`); `x/anteil/keeper/economic_engine.go:189`
  says "Update buyer position (increase ANT)".
* An open order with the price NaN that comes first ends the matching of every
  block, other orders that cross notwithstanding (`First`, `Matching`);
  `economic_engine.go:102` says "No more matches possible".
* Standalone nodes that are all restarted past their first height sign nothing
  any more, and so does a validator alone: they are back at height 1, which
  their signers refuse, with no peer to fetch from. The comment at
  `main.go:1679` says "Always reset priv_validator_state.json to allow block
  creation", which the early return at `main.go:1607` prevents on every start
  but the first; a reset on each would decide a round twice (the mutant
  `SignedAfterInitReset`). `/app/simulate` changes balances, so
  `MemoryIsReplayed` excludes nodes that served it, and it does not see that
  failed transactions keep their effects, since both sides execute them alike.
* A validator without a license but with a weight takes part in the choice of
  block creators, once for its record and once for its weight (`Candidates`).
* A new chain from an export has no licenses while the bank still holds the
  coins locked behind them (`Restart`).
* The record of a deactivation stays a `DeactivationPeriod` longer than the end
  it states, which is a day after its start whatever the parameter (`Completed`).

## 4. Theorems

TLAPS checks each for all values of the constants that meet the named
assumptions of the modules (`AuctionConstants`, `NodeConstants`,
`NoBidConstant`, `GovernanceConstants`, `LicenseConstants`, `LizenzConstants`,
`ConsensusConstants`, `IdentConstants`, `NoAccountIsNone`, `MarketConstants`,
`NoOrderIsNone`, `NodesAssumption`, `LedgerAssumption`). These say that the
constants have the types the code gives them, that the sets that are summed
over are finite (addresses have 20 bytes), that marks such as `NoBid` are not
values, and that two quorums intersect; TLC evaluates them in every run.

Every invariant and action property of the passing runs is the property of a
theorem, the refinement included; `OneVoteAlwaysDecides` and
`OnlyQuorumHoldersPass` say in general what the run `governance_decides` finds.

| Module | Invariants (type invariants included) | Action properties and others |
|---|---|---|
| `BlindAuctionProofs` | `TypeCorrect`, `TicketsAreCommitments`, `AuctionIsBlind`, `RapidBidsStayBounded`, `BidsStaySealed`, `NoAuctionIsEverWon` | `OnlyWinnersEverPay`, `LateCommitmentsAreDead`, `TimelyCommitmentsAreOpened`; refinement: `BlindAuctionIsSealedBid` |
| `GovernanceProofs` | `TypeCorrect`, `ParamsAlwaysValid`, `NoWRTCountsTwice`, `OneVoteAlwaysDecides` | `OnlyProposalsChangeParams`, `DecisionsStayFinal`, `OnlyQuorumHoldersPass` |
| `ConsensusProofs` | `TypeCorrect`, `HalvingsMatch`, `RewardsAlwaysWithinSchedule`, `AverageAlwaysRecent` | `RecordsStay` |
| `LizenzProofs` | `TypeCorrect`, `BlocksGoOn`, `LicensesStayLocked` | |
| `IdentProofs` | `TypeCorrect`, `OwnersCarry`, `HashesExclusive`, `WithinLimit` | |
| `AntMarketProofs` | `TypeCorrect`, `TradesStayWithinLimits`, `BookStaysUncrossed`, `OrdersAlwaysAccount`, `MatchingFailsOnNaNOnly`, `AccrualAlwaysWithinSchedule` | |
| `StandaloneProofs` | `TypeCorrect`, `RoundsAlwaysDecideOnce`, `MemoryAlwaysReplayed`, `TotalAlwaysKept` | |

**Sums and folds.** Sums over functions and sets, and folds over sequences, are
recursive functions on the subsets of a finite set, each defined by a choice.
`FoldTheorems` shows from the definitions that the function exists
(`SetRecursion`) and that two sums with the same terms are the same
(`SumsAgree`), and from that the laws the other modules cite: a sum without one
of its elements (`SumRemove`), of a changed function (`SumUpdate`), of two
functions added (`SumAdd`), split in two sets (`SumSplit`), bounds, and a fold over
one element more (`FoldedAppend`). Induction is first-order: the predicate is a
set `P` of subsets, and `SubsetInduction` follows from the well-foundedness of
`\subset` on a finite set.

**Blind auction.** The invariant is `TypeOK /\ RevealsMatchCommits /\
BlindThenAwarded`, which is inductive: the second needs the third, because a
cleanup or a new commitment in a phase that had reveals would break the link of
tickets to commitments, and `TypeOK` needs the balance test of `Burned` to keep
balances natural. `BlindAuctionProofs` states the invariant for one auction
(`Good`), proves that each method takes a good auction to a good one, and lifts
it to the store. From it follow `TypeCorrect`, `TicketsAreCommitments`,
`AuctionIsBlind` and `OnlyWinnersEverPay` (the price is the bid in the winner's
own commitment, which needs the invariant). `RapidBidsStayBounded` is about
all bids ever made, `bids`, of which the history holds the last ones
(`KeepsTheLast`). Bids come in the order of time, so while the recent bids of a
history do not fill it, what it has forgotten is older still and not recent:
the test of `ValidateAuctionBid`, which counts the history, counts all recent
bids. Without `BidHistoryLimit >= RapidBidLimit` the test may pass over a history that
is full of recent bids, and the property fails.

**Refinement.** `BlindAuctionIsSealedBid`: each keeper call maps, at every
height, to a step of `SealedBidAuction` or to a stutter. It uses the same
invariant: the mapping chooses "the" commit and "the" reveal of a validator,
which are unique by `RevealsMatchCommits`.

**Node.** The EndBlocker is a composition of the keeper's methods, so the
invariant above is preserved; `NodeInv` adds `SealedUntilItsBlockEnds` and that
nothing is awarded. The last is needed because the cleanup deletes complete
auctions: that a commitment made in time stays openable (`TimelyCommitmentsAreOpened`)
holds *because* no auction completes, and `NoAuctionIsEverWon` is a theorem.
`BidsStaySealed` and `LateCommitmentsAreDead` come from the same invariant.

**Governance.** The invariant adds to `TypeOK` and `ParamsStayValid` that no
stored proposal has the voting status and that a passed one was decided after
its voting start with a positive timelock. `ParamsAlwaysValid` is mutually
dependent with it: the timelock is positive because executed changes were
validated. That a list of changes leaves each parameter at its old value or at a
listed one (`AppliedChanges`) needs the last position of a set of positions,
from the well-foundedness of `<`. From the invariant follow
`OnlyProposalsChangeParams` and `DecisionsStayFinal`. A second invariant,
`VotingInv`, says of a proposal that is submitted that it has no vote and the
tally of none, and of any other that it has one vote and that vote's tally; a
tally that nobody reached yet is the tally of no vote. The sums of `TallyOf` are
then sums over one vote, and a proposal that passes has the whole quorum in it
(`OneVoteAlwaysDecides`, `OnlyQuorumHoldersPass`). `NoWRTCountsTwice` adds that a
vote weighs what its voter holds, and the holdings add up to the supply.

**Consensus.** `HalvingsMatch`: the invariant says that the next halving is one
interval after the last, which is a multiple of the interval not above the
height, and that the next one lies above it. It is inductive because a halving
is at most one interval late when the code looks, which it does in every block;
that the multiple is the one the reward counts (`\div`) is the lemma
`GridIsTheInterval`. `RecordsStay` needs that an import prefers a record to a weight.

`RewardsAlwaysWithinSchedule`: the share of a license, times the sum of the
licenses, is at most the reward times the license: wrapping, division and
penalty only lower it (`ShareBound`). Summed over the validators that sum
cancels, and the remainder is given to one of them (`DistributionBound`). A send
that fails moves an amount to what stays in the module account
(`PayoutBound`). The invariant `Scheduled` adds that `payout` is empty
inside a block, so what a block pays is compared with its own reward and never
with an earlier one. `AverageAlwaysRecent`: a mean rounded down lies between the
least and the greatest of its terms (`MeanIsBetween`); the invariant `Timed` adds
that the first block of a chain has no distance to measure, and that a block has
a positive height, so that a new chain does not average over the old one.

**Lizenz.** `BlocksGoOn`: the BeginBlocker never fails. The invariant relates the
two ages of a validator that has both a license and a deactivation record: the
record is at least as old as the license's last activity, because the license
was activated after it, and not older than the time it is kept for. With
`PeriodsFit`, a license old enough to be idle would have a record old enough to
be gone. The
default parameters (a day, a day, seven days) fit as long as no two blocks are
more than five days apart.

`LicensesStayLocked`: the invariant `Covered` says that, if every account was funded
for the largest license, each account holds its funds less its license and the
module account the sum of the licenses. It makes its own assumption come true
(no lock is refused, no unlock finds the module account short). A block that
unlocks several licenses is a fold over an enumeration of them; the proof
follows it by `SubsetInduction` over the set of positions done, with the module
account holding what the licenses not yet reached ask for (`UnlockedSoFar`).

**Ident.** One invariant (`Settled`) gives `TypeCorrect`, `OwnersCarry` and
`HashesExclusive`: to the properties themselves it adds that between two blocks
every account has just been refreshed, so that a role is lost, and a hash
released, only by a block that comes a whole period after the last. `WithinLimit`
is a separate invariant on cardinalities, from `HoldersGrowByOne`: a step adds one
holder at most, and only below the limit.

**ANT market.** The invariant `Booked` holds the order properties together with
two facts of the matching: of two orders that have traded with each other one is
no longer open, or both have the amount NaN, so that no other pair meets again and
is refused as stored already (`MatchingFailsOnNaNOnly`); and a trade's price is a
number between the limits of its orders, which stay as placed. The book is
uncrossed after a block because the matching ends when the first buyer and the
first seller do not meet; that these have the best prices uses that the order of a
book of numbers is total on a finite set (`AheadIsTotal`, `NoMatchNoCross`), and
that no error has ended the matching before. For `OrdersAlwaysAccount` a new trade
adds its amount to the sums of its two orders (`TotalOfOneMore`).
`AccrualAlwaysWithinSchedule` has the invariant `Accounted`: there is a number `k`
of distributions such that `k` periods and the time since the last one have
passed, and nobody holds more than `k` rewards or the limit; trades and burns only
lower what a whole balance reads.

**Standalone.** `RoundsAlwaysDecideOnce`: the invariant `Passed` says that, as
long as no signer was reset under a genesis file, every signer of a decided block
has reached its height and round (`SignersReached`), and that a node without a
genesis file has signed nothing (`FreshSigners`), so that the reset after creating
the file resets nothing. Two quorums intersect, and a node in both would have
signed a height and round it had reached. `MemoryAlwaysReplayed`: a start empties
the chain and the memory together, a stored block goes to the end of the chain,
and executing the next one is replaying one block more (`FoldedAppend`).
`TotalAlwaysKept`: a transfer changes the sum at two addresses by opposite
amounts, and a transaction and a block are folds of transfers, wherever they stop.

**Model-checked only.** Liveness under fairness (`CatchesUp`) is out of the
prover's reach, and so are the
four runs that violate their property. Folds are proved about through what
one step of them adds; what is not available is induction with an operator as
predicate, and `RECURSIVE` operators, which no module here uses.

## 5. Not modelled

* **Infinite amounts, rounding.** `ParseFloat` also reads "Inf", and an infinite
  amount less an infinite one is NaN; amounts are written back with six decimals.
  The integers and NaN of `AntMarket` have neither. Books of more than twelve
  orders a side, which `sort.Slice` sorts otherwise, are in the model as if they
  were smaller.
* **Upgrade manager.** Nothing schedules a plan or registers a handler outside
  tests; the block handler looks into an empty map.
* **Rate limiter.** CometBFT serialises the calls of `CheckTx`, and SDK messages
  have no `GetSigners`, so the exchange of locks is not reached; what is left is
  the token bucket of a library.
* **Snapshots.** `ApplySnapshotChunk` passes a chunk's bytes in hex as its hash, so
  every chunk is refused; the import behind it only logs.
* **Auctions, staking, liquidity and market making of `x/anteil`.** No code creates
  an auction there, those messages answer without writing anything, and the orders of
  the market maker are refused. The keeper's own `executeTrade` has no caller.
* **Integration layer.** Health records and events in memory without a reader.
* **Replication.** The models execute a block once. That two nodes execute it
  alike is not stated: `math/rand` in the lottery and the iteration over maps
  appear as choices.
* **One module of all modules.** The handlers of the application call the
  modules one after the other, and what one reads of another is a choice of that
  module here (`Market`, `Join`, the leaving recipients of `AntMarket`).
  Composing them would multiply the states and add no shared variable.
* **Servers, configuration, encoding, REST gateway, frontends, command lines,
  generated code.** I/O and translation without a state machine; they are the
  larger part of the repository's lines.

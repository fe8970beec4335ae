----------------------------- MODULE Standalone -----------------------------
(***************************************************************************)
(* The standalone node (cmd/volnixd-standalone/main.go): what a restart    *)
(* keeps and what it deletes, the blocks of a network of such nodes, and   *)
(* the balances and sequences the application keeps in memory only.        *)
(*                                                                         *)
(* CometBFT is external.  It is modelled by what the program changes under *)
(* it: the signer, whose state file forbids to go back in height and round *)
(* (FilePV), the round a node is in and the block it is locked on, which   *)
(* it has in memory and in cs.wal, and the blocks it stores.  A prevote    *)
(* and the precommit after it are one vote.                                *)
(***************************************************************************)
EXTENDS Integers, Sequences, FiniteSets, SequencesExt

CONSTANTS
    Nodes,           \* validators that share one genesis file
    Quorums,         \* sets of nodes holding over two thirds of the power
    Unreliable,      \* nodes whose genesis.json may become unreadable, and
                     \* readable again, while it stays writable
    Accounts,        \* addresses, of 20 bytes each
    GenesisAccount,  \* the address NewStandaloneApp funds
    GenesisBalance,  \* what it is given
    MaxInt,          \* the largest number of math.Int
    Blocks,          \* blocks that may be proposed: CheckTx accepts any
                     \* transaction, the undecodable ones included
    MaxHeight,       \* bound on the height of the chain
    MaxRound,        \* bound on the rounds of a height
    MaxSimulations,  \* bound on the simulations a node serves between starts
    None

Messages == [kind : {"send", "repeated", "unknown"},
             from : Accounts, to : Accounts, amount : Nat]

ASSUME NodesAssumption ==
    /\ Quorums \subseteq SUBSET Nodes
    /\ \A P, Q \in Quorums : P \cap Q # {}
    /\ MaxHeight \in Nat /\ MaxRound \in Nat /\ MaxSimulations \in Nat

ASSUME LedgerAssumption ==
    /\ IsFiniteSet(Accounts)
    /\ MaxInt \in Nat
    /\ GenesisAccount \in Accounts /\ GenesisBalance \in 0 .. MaxInt
    /\ Blocks \subseteq Seq(Seq(Messages))

VARIABLES
    genesis,    \* each node's genesis.json
    signed,     \* height and round in each node's priv_validator_state.json
    ended,      \* the nodes whose cs.wal holds the end of a height
    up,         \* the nodes that are running
    round,      \* the round each node is in, of the height after its chain
    lock,       \* the block each node is locked on
    chain,      \* the blocks in each node's blockstore.db
    height,     \* height each node's application has committed
    memory,     \* accountBalances and accountSequences of each application
    simulated,  \* simulations each node has served since it started
    history,    \* what was decided: chain, round and signers
    reset       \* the nodes whose signer was reset under a genesis file

disk == <<genesis, signed, ended, reset>>
consensus == <<round, lock, chain>>
ledger == <<height, memory, simulated>>

vars == <<disk, up, consensus, ledger, history>>

NewStandaloneApp ==
    [balances  |-> [a \in Accounts |->
                        IF a = GenesisAccount THEN GenesisBalance ELSE 0],
     sequences |-> [a \in Accounts |-> 0]]

Ints == -MaxInt .. MaxInt

Apps == [balances : [Accounts -> Ints], sequences : [Accounts -> Nat]]

(***************************************************************************)
(* Both balances are read before either is written, so a transfer to       *)
(* oneself ends with the credited balance.  A sender short of funds goes   *)
(* below zero.                                                             *)
(***************************************************************************)
\* Mutant of Moved: a sender short of funds keeps what it has.
MovedOnCredit(balances, m) ==
    LET given == balances[m.to] + m.amount
    IN  IF balances[m.from] < m.amount
        THEN [balances EXCEPT ![m.to] = given]
        ELSE [balances EXCEPT ![m.from] = @ - m.amount, ![m.to] = given]

Moved(balances, m) ==
    LET given == balances[m.to] + m.amount
    IN  [balances EXCEPT ![m.from] = @ - m.amount, ![m.to] = given]

\* math.Int panics on a number that is too large, before a balance is written.
Overflows(balances, m) ==
    {balances[m.from] - m.amount, balances[m.to] + m.amount} \ Ints # {}

Paid(balances, m) == IF Overflows(balances, m) THEN balances ELSE Moved(balances, m)

(***************************************************************************)
(* One message of a transaction.  A "repeated" message moves its amount    *)
(* twice, in two coins of one denomination: NewCoins panics after the      *)
(* balances were written and before the sequence is.  An "unknown" message *)
(* is one of the bank's that is not implemented.  BaseApp discards the     *)
(* writes of a failed transaction to its stores, and these are not in one. *)
(***************************************************************************)
BalancesAfter(balances, m) ==
    CASE m.kind = "send"     -> Paid(balances, m)
      [] m.kind = "repeated" -> Paid(Paid(balances, m), m)
      [] m.kind = "unknown"  -> balances

\* A transaction that runs, and whether a message of it has failed.
Running == [app : Apps, failed : BOOLEAN]

Sending(m) == [run \in Running |->
    LET passes == m.kind = "send" /\ ~Overflows(run.app.balances, m)
    IN  IF run.failed
        THEN run
        ELSE [app    |-> [balances  |-> BalancesAfter(run.app.balances, m),
                          sequences |-> IF passes
                                        THEN [run.app.sequences EXCEPT
                                                 ![m.from] = @ + 1]
                                        ELSE run.app.sequences],
              failed |-> ~passes]]

Send(run, m) == Sending(m)[run]

\* A transaction without messages, which is also what the decoder makes of
\* bytes it cannot read, fails before any handler runs.
Run(app, tx) == FoldLeft(Send, [app |-> app, failed |-> tx = <<>>], tx)

RunTx(app, tx) == Run(app, tx).app

Executed(app, block) == FoldLeft(RunTx, app, block)

Failed(app, block, i) == Run(Executed(app, SubSeq(block, 1, i - 1)), block[i]).failed

\* Mutant of TxResults: only transactions that passed get a result.
TxResultsOfPassed(app, block) ==
    SelectSeq([i \in DOMAIN block |-> Failed(app, block, i)], LAMBDA failed : ~failed)

\* One result per transaction: a missing one is filled in.
TxResults(app, block) == [i \in DOMAIN block |-> Failed(app, block, i)]

(***************************************************************************)
(* initializeFiles: a genesis file that can be read is kept, and so is one *)
(* that is read-only, and the early return keeps priv_validator_state.json *)
(* with it.  One that cannot be read is kept too, but the function goes on *)
(* to the reset, as it does when it creates the file.                      *)
(***************************************************************************)
\* Mutant of SignedAfterInit: the reset is reached on every start.
SignedAfterInitReset(n) == <<0, 0>>

SignedAfterInit(n) == IF genesis[n] = "readable" THEN signed[n] ELSE <<0, 0>>

InitializeFiles(n) ==
    /\ genesis' = [genesis EXCEPT ![n] = IF @ = "absent" THEN "readable" ELSE @]
    /\ signed'  = [signed EXCEPT ![n] = SignedAfterInit(n)]
    /\ reset'   = IF genesis[n] = "unreadable" THEN reset \cup {n} ELSE reset
    /\ UNCHANGED ended

\* Mutants of what Start makes of a node's databases and of its memory.
HeightAfterStartKept(n) == height[n]
AppAfterStartKept(n) == memory[n]

\* Start deletes the application's database with those of CometBFT.
HeightAfterStart(n) == 0
ChainAfterStart(n) == <<>>
AppAfterStart(n) == NewStandaloneApp

(***************************************************************************)
(* It leaves cs.wal, from which CometBFT takes up the height it was in.    *)
(* Without blocks that is height 1, and once the file holds the end of     *)
(* that height it is refused, and the node starts with nothing.            *)
(***************************************************************************)
RoundAfterStart(n) == IF n \in ended THEN 0 ELSE round[n]
LockAfterStart(n) == IF n \in ended THEN None ELSE lock[n]

-----------------------------------------------------------------------------

Heights == 0 .. MaxHeight
Rounds == 0 .. MaxRound
Chains == {c \in Seq(Blocks) : Len(c) <= MaxHeight}

TypeOK ==
    /\ genesis \in [Nodes -> {"absent", "readable", "unreadable"}]
    /\ up \subseteq {n \in Nodes : genesis[n] # "absent"}
    /\ signed \in [Nodes -> Heights \X Rounds]
    /\ ended \subseteq Nodes /\ reset \subseteq Nodes
    /\ round \in [Nodes -> Rounds]
    /\ lock \in [Nodes -> Blocks \cup {None}]
    /\ chain \in [Nodes -> Chains]
    /\ height \in [Nodes -> Heights]
    /\ \A n \in Nodes : height[n] <= Len(chain[n])
    /\ memory \in [Nodes -> Apps]
    /\ simulated \in [Nodes -> 0 .. MaxSimulations]
    /\ history \subseteq [chain : Chains, round : Rounds, by : Quorums]

Init ==
    /\ genesis   = [n \in Nodes |-> "absent"]
    /\ signed    = [n \in Nodes |-> <<0, 0>>]
    /\ ended     = {}
    /\ reset     = {}
    /\ up        = {}
    /\ round     = [n \in Nodes |-> 0]
    /\ lock      = [n \in Nodes |-> None]
    /\ chain     = [n \in Nodes |-> <<>>]
    /\ height    = [n \in Nodes |-> 0]
    /\ memory    = [n \in Nodes |-> NewStandaloneApp]
    /\ simulated = [n \in Nodes |-> 0]
    /\ history   = {}

\* Someone changes the permissions of a genesis file.
ChangeAccess(n) ==
    /\ n \in Unreliable
    /\ genesis[n] # "absent"
    /\ genesis' = [genesis EXCEPT ![n] = IF @ = "readable" THEN "unreadable" ELSE "readable"]
    /\ UNCHANGED <<signed, ended, reset, up, consensus, ledger, history>>

\* volnixd-standalone init
InitCommand(n) ==
    /\ n \notin up
    /\ InitializeFiles(n)
    /\ UNCHANGED <<up, consensus, ledger, history>>

\* volnixd-standalone start, refused where init was never run, and after
\* initializeFiles where the genesis file cannot be read.
Start(n) ==
    /\ n \notin up
    /\ genesis[n] = "readable"
    /\ InitializeFiles(n)
    /\ up'        = up \cup {n}
    /\ round'     = [round EXCEPT ![n] = RoundAfterStart(n)]
    /\ lock'      = [lock EXCEPT ![n] = LockAfterStart(n)]
    /\ chain'     = [chain EXCEPT ![n] = ChainAfterStart(n)]
    /\ height'    = [height EXCEPT ![n] = HeightAfterStart(n)]
    /\ memory'    = [memory EXCEPT ![n] = AppAfterStart(n)]
    /\ simulated' = [simulated EXCEPT ![n] = 0]
    /\ UNCHANGED history

StartWithoutGenesis(n) ==
    /\ n \notin up
    /\ genesis[n] = "unreadable"
    /\ InitializeFiles(n)
    /\ UNCHANGED <<up, consensus, ledger, history>>

\* Stop, or a crash.
Stop(n) ==
    /\ n \in up
    /\ up' = up \ {n}
    /\ UNCHANGED <<disk, consensus, ledger, history>>

-----------------------------------------------------------------------------
\* The height a node takes part in.
Current(n) == Len(chain[n]) + 1

Before(vote, h, r) == vote[1] < h \/ (vote[1] = h /\ vote[2] < r)

\* CheckHRS of the private validator: it signs nothing at a height and
\* round that are not above those it signed last.
Willing(n) ==
    /\ n \in up
    /\ Current(n) <= MaxHeight
    /\ Before(signed[n], Current(n), round[n])

\* A node votes for no block in a round; in the last one of the model it
\* waits for a proposal.
VoteNil(n) ==
    /\ Willing(n)
    /\ round[n] < MaxRound
    /\ signed' = [signed EXCEPT ![n] = <<Current(n), round[n]>>]
    /\ UNCHANGED <<genesis, ended, reset, up, consensus, ledger, history>>

(***************************************************************************)
(* A quorum votes for one block on its chain, in one round: the block is   *)
(* decided.  The nodes are locked on it until they have all those votes.   *)
(***************************************************************************)
Decide(Q, proposer, block) ==
    LET c == chain[proposer]
        r == round[proposer]
    IN  /\ \A n \in Q : /\ Willing(n) /\ chain[n] = c /\ round[n] = r
                         /\ lock[n] \in {None, block}
        /\ signed'  = [n \in Nodes |-> IF n \in Q THEN <<Len(c) + 1, r>> ELSE signed[n]]
        /\ lock'    = [n \in Nodes |-> IF n \in Q THEN block ELSE lock[n]]
        /\ history' = history \cup {[chain |-> Append(c, block), round |-> r, by |-> Q]}
        /\ UNCHANGED <<genesis, ended, reset, up, round, chain, ledger>>

(***************************************************************************)
(* A node that has seen votes of a quorum in a round, its own or a later   *)
(* one, and not all for one block, goes on to the round after it.          *)
(***************************************************************************)
MoveOn(n, Q, r) ==
    /\ n \in up
    /\ r \in round[n] .. MaxRound - 1
    /\ \A m \in Q : signed[m] = <<Current(n), r>>
    /\ ~\E d \in history : Len(d.chain) = Current(n) /\ d.round = r /\ Q \subseteq d.by
    /\ round' = [round EXCEPT ![n] = r + 1]
    /\ UNCHANGED <<disk, up, lock, chain, ledger, history>>

\* A node stores its next block, and enters the height after it.
Store(n, block) ==
    /\ chain' = [chain EXCEPT ![n] = Append(@, block)]
    /\ round' = [round EXCEPT ![n] = 0]
    /\ lock'  = [lock EXCEPT ![n] = None]
    /\ ended' = ended \cup {n}
    /\ UNCHANGED <<genesis, signed, reset, up, ledger, history>>

\* A node that voted for a decided block has all the votes for it.
Learn(n) ==
    /\ n \in up
    /\ \E d \in history : n \in d.by /\ d.chain = Append(chain[n], lock[n])
    /\ Store(n, lock[n])

\* A node fetches its next block from a running peer that holds it.
Fetch(n) ==
    /\ n \in up
    /\ \E m \in up : /\ IsStrictPrefix(chain[n], chain[m])
                     /\ Store(n, chain[m][Current(n)])

-----------------------------------------------------------------------------
\* CometBFT stops a node whose application answers with too few results.
FinalizeBlock(n) ==
    LET block == chain[n][height[n] + 1]
    IN  /\ n \in up
        /\ height[n] < Len(chain[n])
        /\ Len(TxResults(memory[n], block)) = Len(block)
        /\ memory' = [memory EXCEPT ![n] = Executed(@, block)]
        /\ height' = [height EXCEPT ![n] = @ + 1]
        /\ UNCHANGED <<disk, up, consensus, simulated, history>>

(***************************************************************************)
(* Query hands the paths it does not answer itself to BaseApp, and         *)
(* /app/simulate runs the handlers, which write to the same memory.        *)
(***************************************************************************)
Simulate(n, tx) ==
    /\ n \in up
    /\ simulated[n] < MaxSimulations
    /\ memory'    = [memory EXCEPT ![n] = RunTx(@, tx)]
    /\ simulated' = [simulated EXCEPT ![n] = @ + 1]
    /\ UNCHANGED <<disk, up, consensus, height, history>>

Next ==
    \/ \E n \in Nodes : \/ ChangeAccess(n) \/ InitCommand(n)
                        \/ Start(n) \/ StartWithoutGenesis(n) \/ Stop(n)
                        \/ VoteNil(n) \/ Learn(n) \/ Fetch(n) \/ FinalizeBlock(n)
    \/ \E n \in Nodes, Q \in Quorums, r \in Rounds : MoveOn(n, Q, r)
    \/ \E Q \in Quorums, block \in Blocks : \E p \in Q : Decide(Q, p, block)
    \/ \E n \in Nodes, block \in Blocks :
           \E i \in DOMAIN block : Simulate(n, block[i])

Spec == Init /\ [][Next]_vars

\* CometBFT's reactors go on fetching and applying while the node runs.
FairSpec ==
    /\ Spec
    /\ \A n \in Nodes : WF_vars(Fetch(n)) /\ WF_vars(FinalizeBlock(n))

-----------------------------------------------------------------------------
(***************************************************************************)
(* Whatever is restarted, with every database deleted, a height and round  *)
(* are decided once, as long as no initialization meets a genesis file it  *)
(* cannot read: priv_validator_state.json is what is left of the votes,    *)
(* and the early returns of initializeFiles keep it.                       *)
(***************************************************************************)
RoundsDecideOnce ==
    reset = {} =>
        \A d, e \in history :
            Len(d.chain) = Len(e.chain) /\ d.round = e.round => d = e

(***************************************************************************)
(* "Real Blockchain Consensus", "Persistent Storage": what was decided is  *)
(* not decided again otherwise.                                            *)
(***************************************************************************)
HistoryIsKept ==
    \A d, e \in history :
        IsPrefix(d.chain, e.chain) \/ IsPrefix(e.chain, d.chain)

(***************************************************************************)
(* The balances and sequences of a running node that served no simulation  *)
(* are those a replay of its committed blocks gives, whatever was restarted *)
(* and fetched again in between and whichever transactions failed halfway. *)
(***************************************************************************)
MemoryIsReplayed ==
    \A n \in up :
        simulated[n] = 0 =>
            memory[n] = FoldLeft(Executed, NewStandaloneApp,
                                 SubSeq(chain[n], 1, height[n]))

(***************************************************************************)
(* Transfers between different accounts keep the total, on credit, in      *)
(* failed transactions and where a sum is too large: what one account owes *)
(* another one holds.                                                      *)
(***************************************************************************)
ToOneself(tx) == \E i \in DOMAIN tx : tx[i].from = tx[i].to

TotalIsKept ==
    (\A block \in Blocks : \A i \in DOMAIN block : ~ToOneself(block[i])) =>
        \A n \in up :
            FoldFunction(+, 0, memory[n].balances) = GenesisBalance

(***************************************************************************)
(* A node that keeps running next to a peer that keeps running on the same *)
(* chain commits every block the peer holds, after any number of restarts: *)
(* no block, failed and undecodable transactions included, stops           *)
(* FinalizeBlock.                                                          *)
(***************************************************************************)
OnOneChain(n, m) == IsPrefix(chain[n], chain[m]) \/ IsPrefix(chain[m], chain[n])

CatchesUp ==
    \A n, m \in Nodes :
        <>[](n \in up /\ m \in up /\ OnOneChain(n, m)) =>
            <>[](height[n] >= Len(chain[m]))
=============================================================================

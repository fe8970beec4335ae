-------------------------- MODULE StandaloneProofs --------------------------
(***************************************************************************)
(* What a restart of standalone nodes keeps: their private validators, so  *)
(* that no height and round is decided twice, and nothing of the memory of *)
(* the application, which is always what a replay of its blocks gives.     *)
(*                                                                         *)
(* A decision leaves every signer of a quorum at its height and round or   *)
(* past it, and a start that meets no unreadable genesis file leaves the   *)
(* signers alone.  A second decision there would need a quorum of signers  *)
(* that have not come so far, and two quorums share a node.                *)
(***************************************************************************)
EXTENDS Standalone, FoldTheorems, SequenceTheorems

(***************************************************************************)
(* The three folds of the ledger.  Each stays within any set that its      *)
(* operator does not leave; A is such a set of applications and M the      *)
(* messages that are sent to them.                                         *)
(***************************************************************************)
Runs(A) == [app : A, failed : BOOLEAN]

Closed(A, M) == \A run \in Runs(A), m \in M : Send(run, m) \in Runs(A)

LEMMA RunTxCloses ==
    ASSUME NEW A, NEW M, Closed(A, M), NEW app \in A, NEW tx \in Seq(M)
    PROVE  RunTx(app, tx) \in A
<1> DEFINE F == [run \in Runs(A) |-> [m \in M |-> Send(run, m)]]
           base == [app |-> app, failed |-> tx = <<>>]
           It(g) == g = [t \in SUBSET (DOMAIN tx) |->
                           IF t = {} THEN base
                           ELSE Send(g[t \ {Max(t)}], tx[Max(t)])]
           iter == CHOOSE g : It(g)
<1>1. RunTx(app, tx) = iter[DOMAIN tx].app
    BY Zenon DEF RunTx, Run, FoldLeft, MapThenFoldSet
<1>2. base \in Runs(A)
    BY DEF Runs
<1> HIDE DEF base
<1>3. Foldable(Runs(A), M, F, base)
    BY <1>2 DEF Foldable, Closed
<1>4. \A run \in Runs(A), m \in M : F[run][m] = Send(run, m)
    OBVIOUS
<1> HIDE DEF F
<1>5. PICK g \in [SUBSET (DOMAIN tx) -> Runs(A)] : IsFold(g, Runs(A), F, base, tx)
    BY <1>3, FoldExists
<1>6. It(g)
    <2>1. ASSUME NEW t \in SUBSET (DOMAIN tx)
          PROVE  g[t] = IF t = {} THEN base ELSE Send(g[t \ {Max(t)}], tx[Max(t)])
        <3>1. CASE t = {}
            BY <1>5, <3>1 DEF IsFold
        <3>2. CASE t # {}
            <4>1. tx[Max(t)] \in M /\ t \ {Max(t)} \in SUBSET (DOMAIN tx)
                BY <3>2, LastIndex
            <4>2. g[t \ {Max(t)}] \in Runs(A)
                BY <4>1
            <4> QED BY <1>4, <1>5, <3>2, <4>1, <4>2 DEF IsFold
        <3> QED BY <3>1, <3>2
    <2> QED BY <2>1
<1>7. It(iter)
    <2> HIDE DEF It
    <2> QED BY <1>6, Zenon
<1> HIDE DEF iter
<1>8. IsFold(iter, Runs(A), F, base, tx)
    <2>1. ASSUME NEW t \in SUBSET (DOMAIN tx)
          PROVE  IF t = {} THEN iter[t] = base
                 ELSE iter[t \ {Max(t)}] \in Runs(A)
                        => iter[t] = F[iter[t \ {Max(t)}]][tx[Max(t)]]
        <3>1. iter[t] = IF t = {} THEN base
                        ELSE Send(iter[t \ {Max(t)}], tx[Max(t)])
            BY <1>7
        <3>2. t # {} => tx[Max(t)] \in M
            BY LastIndex
        <3> QED BY <1>4, <3>1, <3>2
    <2> QED BY <2>1 DEF IsFold
<1>9. iter[DOMAIN tx] \in Runs(A)
    BY <1>3, <1>8, FoldIsFolded
<1> QED BY <1>1, <1>9 DEF Runs
LEMMA ExecutedCloses ==
    ASSUME NEW A, NEW M, Closed(A, M), NEW app \in A, NEW block \in Seq(Seq(M))
    PROVE  Executed(app, block) \in A
<1> DEFINE F == [b \in A |-> [tx \in Seq(M) |-> RunTx(b, tx)]]
           It(g) == g = [t \in SUBSET (DOMAIN block) |->
                           IF t = {} THEN app
                           ELSE RunTx(g[t \ {Max(t)}], block[Max(t)])]
           iter == CHOOSE g : It(g)
<1>1. Executed(app, block) = iter[DOMAIN block]
    BY Zenon DEF Executed, FoldLeft, MapThenFoldSet
<1>2. Foldable(A, Seq(M), F, app)
    <2>1. \A b \in A, tx \in Seq(M) : RunTx(b, tx) \in A
        BY RunTxCloses
    <2> QED BY <2>1 DEF Foldable
<1>3. \A b \in A, tx \in Seq(M) : F[b][tx] = RunTx(b, tx)
    OBVIOUS
<1> HIDE DEF F
<1>4. PICK g \in [SUBSET (DOMAIN block) -> A] : IsFold(g, A, F, app, block)
    BY <1>2, FoldExists
<1>5. It(g)
    <2>1. ASSUME NEW t \in SUBSET (DOMAIN block)
          PROVE  g[t] = IF t = {} THEN app
                        ELSE RunTx(g[t \ {Max(t)}], block[Max(t)])
        <3>1. CASE t = {}
            BY <1>4, <3>1 DEF IsFold
        <3>2. CASE t # {}
            <4>1. block[Max(t)] \in Seq(M) /\ t \ {Max(t)} \in SUBSET (DOMAIN block)
                BY <3>2, LastIndex
            <4>2. g[t \ {Max(t)}] \in A
                BY <4>1
            <4> QED BY <1>3, <1>4, <3>2, <4>1, <4>2 DEF IsFold
        <3> QED BY <3>1, <3>2
    <2> QED BY <2>1
<1>6. It(iter)
    <2> HIDE DEF It
    <2> QED BY <1>5, Zenon
<1> HIDE DEF iter
<1>7. IsFold(iter, A, F, app, block)
    <2>1. ASSUME NEW t \in SUBSET (DOMAIN block)
          PROVE  IF t = {} THEN iter[t] = app
                 ELSE iter[t \ {Max(t)}] \in A
                        => iter[t] = F[iter[t \ {Max(t)}]][block[Max(t)]]
        <3>1. iter[t] = IF t = {} THEN app
                        ELSE RunTx(iter[t \ {Max(t)}], block[Max(t)])
            BY <1>6
        <3>2. t # {} => block[Max(t)] \in Seq(M)
            BY LastIndex
        <3> QED BY <1>3, <3>1, <3>2
    <2> QED BY <2>1 DEF IsFold
<1> QED BY <1>1, <1>2, <1>7, FoldIsFolded

(***************************************************************************)
(* A replay of blocks, as a fold of FoldTheorems: of no block it is a new  *)
(* application, and a block more is executed on the replay before it.      *)
(***************************************************************************)
Replayed(s) == FoldLeft(Executed, NewStandaloneApp, s)

\* A transfer that overflows changes nothing: balances stay within Ints.
LEMMA PaidType ==
    ASSUME NEW balances \in [Accounts -> Ints], NEW m \in Messages
    PROVE  Paid(balances, m) \in [Accounts -> Ints]
<1>1. m.from \in Accounts /\ m.to \in Accounts
    BY DEF Messages
<1>2. CASE Overflows(balances, m)
    BY <1>2 DEF Paid
<1>3. CASE ~Overflows(balances, m)
    <2>1. balances[m.from] - m.amount \in Ints /\ balances[m.to] + m.amount \in Ints
        BY <1>3 DEF Overflows
    <2>2. Moved(balances, m) \in [Accounts -> Ints]
        BY <1>1, <2>1 DEF Moved
    <2> QED BY <1>3, <2>2 DEF Paid
<1> QED BY <1>2, <1>3

\* What a message does to a transaction that runs.
LEMMA SendOf ==
    ASSUME NEW run \in Running, NEW m \in Messages
    PROVE  Send(run, m) =
               LET passes == m.kind = "send" /\ ~Overflows(run.app.balances, m)
               IN  IF run.failed
                   THEN run
                   ELSE [app    |-> [balances  |-> BalancesAfter(run.app.balances, m),
                                     sequences |-> IF passes
                                                   THEN [run.app.sequences EXCEPT
                                                            ![m.from] = @ + 1]
                                                   ELSE run.app.sequences],
                         failed |-> ~passes]
    BY DEF Send, Sending

LEMMA MessagesClose == Closed(Apps, Messages)
<1> SUFFICES ASSUME NEW run \in Runs(Apps), NEW m \in Messages
             PROVE  Send(run, m) \in Runs(Apps)
    BY DEF Closed
<1>1. /\ run.app.balances \in [Accounts -> Ints] /\ run.app.sequences \in [Accounts -> Nat]
      /\ m.from \in Accounts
    BY DEF Runs, Apps, Messages
<1>2. BalancesAfter(run.app.balances, m) \in [Accounts -> Ints]
    <2>1. m.kind \in {"send", "repeated", "unknown"}
        BY DEF Messages
    <2> QED BY <1>1, <2>1, PaidType DEF BalancesAfter
<1>3. [run.app.sequences EXCEPT ![m.from] = @ + 1] \in [Accounts -> Nat]
    BY <1>1
<1>4. run \in Running
    BY DEF Runs, Running
<1>5. CASE run.failed
    <2>1. Send(run, m) = run
        BY <1>4, <1>5, SendOf
    <2> QED BY <2>1
<1>6. CASE ~run.failed
    <2>1. PICK failed \in BOOLEAN, sequences \in [Accounts -> Nat] :
              Send(run, m) =
                  [app    |-> [balances  |-> BalancesAfter(run.app.balances, m),
                               sequences |-> sequences],
                   failed |-> failed]
        BY <1>1, <1>3, <1>4, <1>6, SendOf
    <2> QED BY <1>2, <2>1 DEF Runs, Apps
<1> QED BY <1>5, <1>6

LEMMA NewAppType == NewStandaloneApp \in Apps
    BY LedgerAssumption DEF NewStandaloneApp, Apps, Ints

LEMMA ExecutedType ==
    ASSUME NEW app \in Apps, NEW block \in Blocks
    PROVE  Executed(app, block) \in Apps
    BY MessagesClose, ExecutedCloses, LedgerAssumption

LEMMA ReplayIsFolded ==
    LET F == [app \in Apps |-> [block \in Blocks |-> Executed(app, block)]]
    IN  /\ Foldable(Apps, Blocks, F, NewStandaloneApp)
        /\ \A s \in Seq(Blocks) : Replayed(s) = Folded(Apps, F, NewStandaloneApp, s)
<1> DEFINE F == [app \in Apps |-> [block \in Blocks |-> Executed(app, block)]]
<1>1. Foldable(Apps, Blocks, F, NewStandaloneApp)
    BY ExecutedType, NewAppType DEF Foldable
<1>2. \A app \in Apps, block \in Blocks : F[app][block] = Executed(app, block)
    OBVIOUS
<1> HIDE DEF F
<1>3. ASSUME NEW s \in Seq(Blocks)
      PROVE  Replayed(s) = Folded(Apps, F, NewStandaloneApp, s)
    <2> DEFINE It(g) == g = [t \in SUBSET (DOMAIN s) |->
                               IF t = {} THEN NewStandaloneApp
                               ELSE Executed(g[t \ {Max(t)}], s[Max(t)])]
               iter == CHOOSE g : It(g)
    <2>1. Replayed(s) = iter[DOMAIN s]
        BY Zenon DEF Replayed, FoldLeft, MapThenFoldSet
    <2>2. PICK g \in [SUBSET (DOMAIN s) -> Apps] :
              IsFold(g, Apps, F, NewStandaloneApp, s)
        BY <1>1, FoldExists
    <2>3. It(g)
        <3>1. ASSUME NEW t \in SUBSET (DOMAIN s)
              PROVE  g[t] = IF t = {} THEN NewStandaloneApp
                            ELSE Executed(g[t \ {Max(t)}], s[Max(t)])
            <4>1. CASE t = {}
                BY <2>2, <4>1 DEF IsFold
            <4>2. CASE t # {}
                <5>1. s[Max(t)] \in Blocks /\ t \ {Max(t)} \in SUBSET (DOMAIN s)
                    BY <4>2, LastIndex
                <5>2. g[t \ {Max(t)}] \in Apps
                    BY <5>1
                <5> QED BY <1>2, <2>2, <4>2, <5>1, <5>2 DEF IsFold
            <4> QED BY <4>1, <4>2
        <3> QED BY <3>1
    <2>4. It(iter)
        <3> HIDE DEF It
        <3> QED BY <2>3, Zenon
    <2> HIDE DEF iter
    <2>5. IsFold(iter, Apps, F, NewStandaloneApp, s)
        <3>1. ASSUME NEW t \in SUBSET (DOMAIN s)
              PROVE  IF t = {} THEN iter[t] = NewStandaloneApp
                     ELSE iter[t \ {Max(t)}] \in Apps
                            => iter[t] = F[iter[t \ {Max(t)}]][s[Max(t)]]
            <4>1. iter[t] = IF t = {} THEN NewStandaloneApp
                            ELSE Executed(iter[t \ {Max(t)}], s[Max(t)])
                BY <2>4
            <4>2. t # {} => s[Max(t)] \in Blocks
                BY LastIndex
            <4> QED BY <1>2, <4>1, <4>2
        <3> QED BY <3>1 DEF IsFold
    <2> QED BY <1>1, <2>1, <2>5, FoldIsFolded
<1> QED BY <1>1, <1>3 DEF F

LEMMA ReplayOfNone == Replayed(<<>>) = NewStandaloneApp
<1> DEFINE F == [app \in Apps |-> [block \in Blocks |-> Executed(app, block)]]
<1>1. /\ Foldable(Apps, Blocks, F, NewStandaloneApp)
      /\ Replayed(<<>>) = Folded(Apps, F, NewStandaloneApp, <<>>)
    <2>1. <<>> \in Seq(Blocks)
        OBVIOUS
    <2> QED BY <2>1, ReplayIsFolded
<1> HIDE DEF F
<1> QED BY <1>1, FoldedEmpty

LEMMA ReplayOfOneMore ==
    ASSUME NEW s \in Seq(Blocks), NEW block \in Blocks
    PROVE  /\ Replayed(s) \in Apps
           /\ Replayed(Append(s, block)) = Executed(Replayed(s), block)
<1> DEFINE F == [app \in Apps |-> [b \in Blocks |-> Executed(app, b)]]
<1>0. Append(s, block) \in Seq(Blocks)
    OBVIOUS
<1>1. /\ Foldable(Apps, Blocks, F, NewStandaloneApp)
      /\ Replayed(s) = Folded(Apps, F, NewStandaloneApp, s)
      /\ Replayed(Append(s, block)) = Folded(Apps, F, NewStandaloneApp, Append(s, block))
    BY <1>0, ReplayIsFolded
<1>2. \A app \in Apps : F[app][block] = Executed(app, block)
    OBVIOUS
<1> HIDE DEF F
<1>3. Folded(Apps, F, NewStandaloneApp, s) \in Apps
    BY <1>1, FoldedType
<1>4. Folded(Apps, F, NewStandaloneApp, Append(s, block))
        = F[Folded(Apps, F, NewStandaloneApp, s)][block]
    BY <1>1, FoldedAppend
<1> QED BY <1>1, <1>2, <1>3, <1>4

-----------------------------------------------------------------------------
(***************************************************************************)
(* The types, in three parts: the files and processes, the consensus of    *)
(* the nodes, and their applications.                                      *)
(***************************************************************************)
FilesOK ==
    /\ genesis \in [Nodes -> {"absent", "readable", "unreadable"}]
    /\ up \subseteq {n \in Nodes : genesis[n] # "absent"}
    /\ signed \in [Nodes -> Heights \X Rounds]
    /\ ended \subseteq Nodes /\ reset \subseteq Nodes

BlocksOK ==
    /\ round \in [Nodes -> Rounds]
    /\ lock \in [Nodes -> Blocks \cup {None}]
    /\ chain \in [Nodes -> Chains]
    /\ height \in [Nodes -> Heights]
    /\ \A n \in Nodes : height[n] <= Len(chain[n])

AppsOK ==
    /\ memory \in [Nodes -> Apps]
    /\ simulated \in [Nodes -> 0 .. MaxSimulations]

HistoryOK == history \subseteq [chain : Chains, round : Rounds, by : Quorums]

LEMMA TypeParts == TypeOK <=> FilesOK /\ BlocksOK /\ AppsOK /\ HistoryOK
    BY DEF TypeOK, FilesOK, BlocksOK, AppsOK, HistoryOK

LEMMA Bounds ==
    /\ MaxHeight \in Nat /\ MaxRound \in Nat /\ MaxSimulations \in Nat
    /\ 0 \in Heights /\ 0 \in Rounds /\ <<>> \in Chains
    /\ \A Q \in Quorums : Q \subseteq Nodes
    /\ \A c \in Chains : c \in Seq(Blocks) /\ Len(c) \in Heights
<1>1. MaxHeight \in Nat /\ MaxRound \in Nat /\ MaxSimulations \in Nat
    BY NodesAssumption
<1> QED BY <1>1, NodesAssumption DEF Heights, Rounds, Chains

LEMMA InitTypeOK == Init => TypeOK
<1> SUFFICES ASSUME Init PROVE TypeOK
    OBVIOUS
<1>1. FilesOK
    BY Bounds DEF Init, FilesOK
<1>2. BlocksOK
    BY Bounds DEF Init, BlocksOK, Heights
<1>3. AppsOK
    BY Bounds, NewAppType DEF Init, AppsOK
<1>4. HistoryOK
    BY DEF Init, HistoryOK
<1> QED BY <1>1, <1>2, <1>3, <1>4, TypeParts

LEMMA InitializeKeepsFiles ==
    ASSUME FilesOK, NEW n \in Nodes, InitializeFiles(n), up' \subseteq up \cup {n}
    PROVE  FilesOK'
<1>1. SignedAfterInit(n) \in Heights \X Rounds
    BY Bounds DEF SignedAfterInit, FilesOK
<1>2. signed' \in [Nodes -> Heights \X Rounds]
    BY <1>1 DEF InitializeFiles, FilesOK
<1>3. genesis' \in [Nodes -> {"absent", "readable", "unreadable"}]
    BY DEF InitializeFiles, FilesOK
<1>4. genesis'[n] # "absent" /\ \A m \in Nodes \ {n} : genesis'[m] = genesis[m]
    BY DEF InitializeFiles, FilesOK
<1>5. up' \subseteq {m \in Nodes : genesis'[m] # "absent"}
    BY <1>4 DEF FilesOK
<1>6. ended' \subseteq Nodes /\ reset' \subseteq Nodes
    BY DEF InitializeFiles, FilesOK
<1> QED BY <1>2, <1>3, <1>5, <1>6 DEF FilesOK

\* The next block goes to the end of a chain that has room for it.
LEMMA StoreKeepsBlocks ==
    ASSUME BlocksOK, NEW n \in Nodes, NEW block \in Blocks,
           Len(chain[n]) + 1 <= MaxHeight, Store(n, block)
    PROVE  BlocksOK'
<1>1. chain[n] \in Seq(Blocks) /\ Len(chain[n]) \in Nat
    BY DEF BlocksOK, Chains
<1>2. Append(chain[n], block) \in Chains /\ Len(Append(chain[n], block)) = Len(chain[n]) + 1
    BY <1>1, Bounds DEF Chains
<1>3. chain' \in [Nodes -> Chains] /\ chain'[n] = Append(chain[n], block)
      /\ \A m \in Nodes \ {n} : chain'[m] = chain[m]
    BY <1>2 DEF Store, BlocksOK
<1>4. round' \in [Nodes -> Rounds] /\ lock' \in [Nodes -> Blocks \cup {None}]
    BY Bounds DEF Store, BlocksOK
<1>5. height' = height
    BY DEF Store, ledger
<1>6. \A m \in Nodes : height'[m] <= Len(chain'[m])
    <2>1. ASSUME NEW m \in Nodes PROVE height'[m] <= Len(chain'[m])
        <3>1. height[m] \in Nat /\ height[m] <= Len(chain[m])
            BY Bounds DEF BlocksOK, Heights
        <3>2. CASE m = n
            BY <1>1, <1>2, <1>3, <1>5, <3>1, <3>2
        <3>3. CASE m # n
            BY <1>3, <1>5, <3>1, <3>3
        <3> QED BY <3>2, <3>3
    <2> QED BY <2>1
<1> QED BY <1>3, <1>4, <1>5, <1>6 DEF BlocksOK

\* What a node learns or fetches is a block that fits on its chain.
LEMMA LearnStores ==
    ASSUME BlocksOK, HistoryOK, NEW n \in Nodes, Learn(n)
    PROVE  /\ lock[n] \in Blocks /\ Len(chain[n]) + 1 <= MaxHeight
           /\ Store(n, lock[n])
<1>1. PICK d \in history : d.chain = Append(chain[n], lock[n])
    BY DEF Learn
<1>2. d.chain \in Chains /\ chain[n] \in Seq(Blocks)
    BY DEF HistoryOK, BlocksOK, Chains
<1> DEFINE c == chain[n]
           x == lock[n]
<1>3. c \in Seq(Blocks) /\ Append(c, x) \in Seq(Blocks) /\ Len(Append(c, x)) <= MaxHeight
    BY <1>1, <1>2 DEF Chains
<1>4. Store(n, x)
    BY DEF Learn
<1> HIDE DEF c, x
<1>5. Len(c) \in Nat /\ Len(Append(c, x)) = Len(c) + 1 /\ Append(c, x)[Len(c) + 1] = x
    BY <1>3
<1>6. x \in Blocks
    BY <1>3, <1>5
<1> QED BY <1>3, <1>4, <1>5, <1>6 DEF c, x

LEMMA FetchStores ==
    ASSUME BlocksOK, FilesOK, NEW n \in Nodes, Fetch(n)
    PROVE  \E block \in Blocks : Len(chain[n]) + 1 <= MaxHeight /\ Store(n, block)
<1>1. PICK m \in up : /\ IsStrictPrefix(chain[n], chain[m])
                       /\ Store(n, chain[m][Current(n)])
    BY DEF Fetch
<1>2. m \in Nodes
    BY DEF FilesOK
<1> DEFINE c == chain[n]
           e == chain[m]
<1>3. /\ c \in Seq(Blocks) /\ e \in Seq(Blocks) /\ Len(c) \in Nat /\ Len(e) \in Nat
      /\ Len(e) <= MaxHeight
    BY <1>2, Bounds DEF BlocksOK, Chains
<1>4. Len(c) <= Len(e) /\ SubSeq(c, 1, Len(c)) = SubSeq(e, 1, Len(c)) /\ c # e
    BY <1>1 DEF IsStrictPrefix, IsPrefix
<1>5. Store(n, e[Len(c) + 1])
    BY <1>1 DEF Current
<1> HIDE DEF c, e
<1>6. SubSeq(c, 1, Len(c)) = c /\ SubSeq(e, 1, Len(e)) = e
    BY <1>3
<1>7. Len(c) # Len(e)
    BY <1>3, <1>4, <1>6
<1>8. Len(c) + 1 \in 1 .. Len(e)
    BY <1>3, <1>4, <1>7
<1>9. e[Len(c) + 1] \in Blocks
    BY <1>3, <1>8
<1>10. Len(c) + 1 <= MaxHeight
    BY <1>3, <1>8, Bounds
<1> QED BY <1>5, <1>9, <1>10 DEF c

\* Only the height and round of the signers of Q change.
LEMMA VoteInRange ==
    ASSUME FilesOK, BlocksOK, NEW n \in Nodes, Willing(n)
    PROVE  <<Current(n), round[n]>> \in Heights \X Rounds
<1>1. Len(chain[n]) \in Heights /\ round[n] \in Rounds
    BY Bounds DEF BlocksOK
<1> QED BY <1>1, Bounds DEF Willing, Current, Heights

LEMMA StepTypeOK == TypeOK /\ [Next]_vars => TypeOK'
<1> SUFFICES ASSUME FilesOK, BlocksOK, AppsOK, HistoryOK, [Next]_vars
             PROVE  FilesOK' /\ BlocksOK' /\ AppsOK' /\ HistoryOK'
    BY DEF TypeOK, FilesOK, BlocksOK, AppsOK, HistoryOK
<1> USE DEF disk, consensus, ledger
<1>1. ASSUME NEW n \in Nodes, ChangeAccess(n)
      PROVE  FilesOK' /\ BlocksOK' /\ AppsOK' /\ HistoryOK'
    <2>1. UNCHANGED <<signed, ended, reset, up, consensus, ledger, history>>
        BY <1>1 DEF ChangeAccess
    <2>2. genesis' \in [Nodes -> {"absent", "readable", "unreadable"}]
          /\ \A m \in Nodes : genesis[m] # "absent" => genesis'[m] # "absent"
        BY <1>1 DEF ChangeAccess, FilesOK
    <2>3. FilesOK'
        BY <2>1, <2>2 DEF FilesOK
    <2>4. BlocksOK' /\ AppsOK' /\ HistoryOK'
        BY <2>1 DEF BlocksOK, AppsOK, HistoryOK
    <2> QED BY <2>3, <2>4
<1>2. ASSUME NEW n \in Nodes, InitCommand(n) \/ StartWithoutGenesis(n)
      PROVE  FilesOK' /\ BlocksOK' /\ AppsOK' /\ HistoryOK'
    <2>1. InitializeFiles(n) /\ UNCHANGED <<up, consensus, ledger, history>>
        BY <1>2 DEF InitCommand, StartWithoutGenesis
    <2>2. FilesOK'
        BY <2>1, InitializeKeepsFiles
    <2>3. BlocksOK' /\ AppsOK' /\ HistoryOK'
        BY <2>1 DEF BlocksOK, AppsOK, HistoryOK
    <2> QED BY <2>2, <2>3
<1>3. ASSUME NEW n \in Nodes, Start(n)
      PROVE  FilesOK' /\ BlocksOK' /\ AppsOK' /\ HistoryOK'
    <2>1. FilesOK'
        BY <1>3, InitializeKeepsFiles DEF Start
    <2>2. /\ round' = [round EXCEPT ![n] = RoundAfterStart(n)]
          /\ lock' = [lock EXCEPT ![n] = LockAfterStart(n)]
          /\ chain' = [chain EXCEPT ![n] = <<>>] /\ height' = [height EXCEPT ![n] = 0]
        BY <1>3 DEF Start, ChainAfterStart, HeightAfterStart
    <2>3. RoundAfterStart(n) \in Rounds /\ LockAfterStart(n) \in Blocks \cup {None}
        BY Bounds DEF RoundAfterStart, LockAfterStart, BlocksOK
    <2>4. /\ round' \in [Nodes -> Rounds] /\ lock' \in [Nodes -> Blocks \cup {None}]
          /\ chain' \in [Nodes -> Chains] /\ height' \in [Nodes -> Heights]
        BY <2>2, <2>3, Bounds DEF BlocksOK
    <2>5. \A m \in Nodes : height'[m] <= Len(chain'[m])
        <3>1. Len(<<>>) = 0
            OBVIOUS
        <3> QED BY <2>2, <3>1 DEF BlocksOK
    <2>6. BlocksOK'
        BY <2>4, <2>5 DEF BlocksOK
    <2>7. AppsOK'
        BY <1>3, NewAppType, Bounds DEF Start, AppAfterStart, AppsOK
    <2>8. HistoryOK'
        BY <1>3 DEF Start, HistoryOK
    <2> QED BY <2>1, <2>6, <2>7, <2>8
<1>4. ASSUME NEW n \in Nodes, Stop(n)
      PROVE  FilesOK' /\ BlocksOK' /\ AppsOK' /\ HistoryOK'
    <2>1. FilesOK'
        BY <1>4 DEF Stop, FilesOK
    <2>2. BlocksOK' /\ AppsOK' /\ HistoryOK'
        BY <1>4 DEF Stop, BlocksOK, AppsOK, HistoryOK
    <2> QED BY <2>1, <2>2
<1>5. ASSUME NEW n \in Nodes, VoteNil(n)
      PROVE  FilesOK' /\ BlocksOK' /\ AppsOK' /\ HistoryOK'
    <2>1. <<Current(n), round[n]>> \in Heights \X Rounds
        BY <1>5, VoteInRange DEF VoteNil
    <2>2. FilesOK'
        BY <1>5, <2>1 DEF VoteNil, FilesOK
    <2>3. BlocksOK' /\ AppsOK' /\ HistoryOK'
        BY <1>5 DEF VoteNil, BlocksOK, AppsOK, HistoryOK
    <2> QED BY <2>2, <2>3
<1>6. ASSUME NEW n \in Nodes, NEW Q \in Quorums, NEW r \in Rounds, MoveOn(n, Q, r)
      PROVE  FilesOK' /\ BlocksOK' /\ AppsOK' /\ HistoryOK'
    <2>1. r + 1 \in Rounds
        BY <1>6, Bounds DEF MoveOn, Rounds
    <2>2. BlocksOK'
        BY <1>6, <2>1 DEF MoveOn, BlocksOK
    <2>3. FilesOK' /\ AppsOK' /\ HistoryOK'
        BY <1>6 DEF MoveOn, FilesOK, AppsOK, HistoryOK
    <2> QED BY <2>2, <2>3
<1>7. ASSUME NEW n \in Nodes, Learn(n) \/ Fetch(n)
      PROVE  FilesOK' /\ BlocksOK' /\ AppsOK' /\ HistoryOK'
    <2>1. PICK block \in Blocks : Len(chain[n]) + 1 <= MaxHeight /\ Store(n, block)
        BY <1>7, LearnStores, FetchStores
    <2>2. BlocksOK'
        BY <2>1, StoreKeepsBlocks
    <2>3. FilesOK'
        BY <2>1 DEF Store, FilesOK
    <2>4. AppsOK' /\ HistoryOK'
        BY <2>1 DEF Store, AppsOK, HistoryOK
    <2> QED BY <2>2, <2>3, <2>4
<1>8. ASSUME NEW n \in Nodes, FinalizeBlock(n)
      PROVE  FilesOK' /\ BlocksOK' /\ AppsOK' /\ HistoryOK'
    <2> DEFINE block == chain[n][height[n] + 1]
    <2>1. /\ height[n] < Len(chain[n]) /\ memory' = [memory EXCEPT ![n] = Executed(@, block)]
          /\ height' = [height EXCEPT ![n] = @ + 1]
          /\ UNCHANGED <<disk, up, consensus, simulated, history>>
        BY <1>8 DEF FinalizeBlock
    <2>2. /\ chain[n] \in Seq(Blocks) /\ Len(chain[n]) \in Nat /\ height[n] \in Nat
          /\ Len(chain[n]) <= MaxHeight
        BY Bounds DEF BlocksOK, Chains, Heights
    <2>3. height[n] + 1 \in 1 .. Len(chain[n]) /\ height[n] + 1 \in Heights
        BY <2>1, <2>2, Bounds DEF Heights
    <2>4. block \in Blocks
        BY <2>2, <2>3
    <2> HIDE DEF block
    <2>5. Executed(memory[n], block) \in Apps
        BY <2>4, ExecutedType DEF AppsOK
    <2>6. AppsOK'
        BY <2>1, <2>5 DEF AppsOK
    <2>7. height' \in [Nodes -> Heights] /\ \A m \in Nodes : height'[m] <= Len(chain[m])
        BY <2>1, <2>2, <2>3 DEF BlocksOK
    <2>8. BlocksOK'
        BY <2>1, <2>7 DEF BlocksOK
    <2>9. FilesOK' /\ HistoryOK'
        BY <2>1 DEF FilesOK, HistoryOK
    <2> QED BY <2>6, <2>8, <2>9
<1>9. ASSUME NEW Q \in Quorums, NEW block \in Blocks, NEW p \in Q, Decide(Q, p, block)
      PROVE  FilesOK' /\ BlocksOK' /\ AppsOK' /\ HistoryOK'
    <2> DEFINE c == chain[p]
               r == round[p]
               d == [chain |-> Append(c, block), round |-> r, by |-> Q]
    <2>1. /\ Willing(p) /\ history' = history \cup {d}
          /\ signed' = [n \in Nodes |-> IF n \in Q THEN <<Len(c) + 1, r>> ELSE signed[n]]
          /\ lock' = [n \in Nodes |-> IF n \in Q THEN block ELSE lock[n]]
          /\ UNCHANGED <<genesis, ended, reset, up, round, chain, ledger>>
        BY <1>9 DEF Decide
    <2>2. p \in Nodes
        BY Bounds
    <2>3. <<Len(c) + 1, r>> \in Heights \X Rounds
        BY <2>1, <2>2, VoteInRange DEF Current
    <2>4. c \in Seq(Blocks) /\ Len(c) \in Nat
        BY <2>2, Bounds DEF BlocksOK, Chains
    <2>5. Append(c, block) \in Chains
        BY <2>3, <2>4 DEF Chains, Heights
    <2> HIDE DEF c, r
    <2>6. HistoryOK'
        <3>1. d \in [chain : Chains, round : Rounds, by : Quorums]
            BY <2>3, <2>5
        <3> HIDE DEF d
        <3> QED BY <2>1, <3>1 DEF HistoryOK
    <2>7. FilesOK'
        BY <2>1, <2>3 DEF FilesOK
    <2>8. lock' \in [Nodes -> Blocks \cup {None}]
        BY <2>1 DEF BlocksOK
    <2>9. BlocksOK'
        BY <2>1, <2>8 DEF BlocksOK
    <2>10. AppsOK'
        BY <2>1 DEF AppsOK
    <2> QED BY <2>6, <2>7, <2>9, <2>10
<1>10. ASSUME NEW n \in Nodes, NEW block \in Blocks, NEW i \in DOMAIN block,
              Simulate(n, block[i])
       PROVE  FilesOK' /\ BlocksOK' /\ AppsOK' /\ HistoryOK'
    <2>1. block[i] \in Seq(Messages)
        BY LedgerAssumption
    <2>2. RunTx(memory[n], block[i]) \in Apps
        BY <2>1, MessagesClose, RunTxCloses DEF AppsOK
    <2>3. simulated[n] + 1 \in 0 .. MaxSimulations
        BY <1>10, Bounds DEF Simulate, AppsOK
    <2>4. AppsOK'
        BY <1>10, <2>2, <2>3 DEF Simulate, AppsOK
    <2>5. FilesOK' /\ BlocksOK' /\ HistoryOK'
        BY <1>10 DEF Simulate, FilesOK, BlocksOK, HistoryOK
    <2> QED BY <2>4, <2>5
<1>11. CASE UNCHANGED vars
    BY <1>11 DEF vars, FilesOK, BlocksOK, AppsOK, HistoryOK
<1> QED
    BY <1>1, <1>2, <1>3, <1>4, <1>5, <1>6, <1>7, <1>8, <1>9, <1>10, <1>11 DEF Next

(***************************************************************************)
(* Files, chains and memory keep their types, and no application is ahead  *)
(* of what its node stores.                                                *)
(***************************************************************************)
THEOREM TypeCorrect == Spec => []TypeOK
    BY InitTypeOK, StepTypeOK, PTL DEF Spec

-----------------------------------------------------------------------------
(***************************************************************************)
(* What keeps a second decision away: as long as nothing was reset under a *)
(* genesis file, the signers of a decision are at its height and round or  *)
(* past it.  A node without a genesis file has never signed.               *)
(***************************************************************************)
Reached(n, d) == ~Before(signed[n], Len(d.chain), d.round)

SignersReached == reset = {} => \A d \in history : \A n \in d.by : Reached(n, d)

FreshSigners == \A n \in Nodes : genesis[n] = "absent" => signed[n] = <<0, 0>>

Passed == SignersReached /\ FreshSigners /\ RoundsDecideOnce

LEMMA InitPassed == Init => Passed
    BY DEF Init, Passed, SignersReached, FreshSigners, RoundsDecideOnce

\* Initializations that reset something else than a new file are recorded.
LEMMA InitializeKeepsSigners ==
    ASSUME TypeOK, FreshSigners, NEW n \in Nodes, InitializeFiles(n)
    PROVE  /\ reset' = {} => reset = {} /\ signed' = signed
           /\ FreshSigners'
<1>1. /\ genesis \in [Nodes -> {"absent", "readable", "unreadable"}]
      /\ signed \in [Nodes -> Heights \X Rounds]
    BY DEF TypeOK
<1>2. /\ genesis' = [genesis EXCEPT ![n] = IF @ = "absent" THEN "readable" ELSE @]
      /\ signed' = [signed EXCEPT ![n] = SignedAfterInit(n)]
      /\ reset' = IF genesis[n] = "unreadable" THEN reset \cup {n} ELSE reset
    BY DEF InitializeFiles
<1>3. ASSUME reset' = {} PROVE reset = {} /\ signed' = signed
    <2>1. genesis[n] # "unreadable" /\ reset = {}
        BY <1>2, <1>3
    <2>2. SignedAfterInit(n) = signed[n]
        BY <1>1, <2>1 DEF SignedAfterInit, FreshSigners
    <2> QED BY <1>1, <1>2, <2>1, <2>2
<1>4. FreshSigners'
    BY <1>1, <1>2 DEF FreshSigners
<1> QED BY <1>3, <1>4

\* A private validator only goes on, in height and round.
LEMMA SignersGoOn ==
    ASSUME TypeOK, NEW d \in history, NEW n \in Nodes, Reached(n, d),
           NEW h \in Nat, NEW r \in Nat, Before(signed[n], h, r)
    PROVE  ~Before(<<h, r>>, Len(d.chain), d.round)
<1>1. signed[n] \in Nat \X Nat /\ d.round \in Nat /\ Len(d.chain) \in Nat
    BY Bounds DEF TypeOK, Heights, Rounds
<1> QED BY <1>1 DEF Reached, Before

LEMMA StepPassed == TypeOK /\ Passed /\ [Next]_vars => Passed'
<1> SUFFICES ASSUME TypeOK, Passed, [Next]_vars PROVE Passed'
    OBVIOUS
<1> USE DEF disk, consensus, ledger
<1>0. /\ up \subseteq {n \in Nodes : genesis[n] # "absent"}
      /\ signed \in [Nodes -> Heights \X Rounds]
      /\ history \subseteq [chain : Chains, round : Rounds, by : Quorums]
      /\ round \in [Nodes -> Rounds] /\ chain \in [Nodes -> Chains]
    BY DEF TypeOK
<1>1. ASSUME NEW n \in Nodes, InitCommand(n) \/ Start(n) \/ StartWithoutGenesis(n)
      PROVE  Passed'
    <2>1. InitializeFiles(n) /\ history' = history
        BY <1>1 DEF InitCommand, Start, StartWithoutGenesis
    <2>2. (reset' = {} => reset = {} /\ signed' = signed) /\ FreshSigners'
        BY <2>1, InitializeKeepsSigners DEF Passed
    <2>3. SignersReached'
        BY <2>1, <2>2 DEF Passed, SignersReached, Reached
    <2>4. RoundsDecideOnce'
        BY <2>1, <2>2 DEF Passed, RoundsDecideOnce
    <2> QED BY <2>2, <2>3, <2>4 DEF Passed
<1>2. ASSUME NEW n \in Nodes, ChangeAccess(n) PROVE Passed'
    <2>1. /\ UNCHANGED <<signed, reset, history>>
          /\ \A m \in Nodes : genesis'[m] = "absent" => genesis[m] = "absent"
        BY <1>2 DEF ChangeAccess, TypeOK
    <2> QED BY <2>1 DEF Passed, SignersReached, Reached, FreshSigners, RoundsDecideOnce
<1>3. ASSUME NEW n \in Nodes, VoteNil(n) PROVE Passed'
    <2> DEFINE h == Current(n)
               r == round[n]
    <2>1. /\ UNCHANGED <<genesis, reset, history>>
          /\ signed' = [signed EXCEPT ![n] = <<h, r>>]
          /\ n \in up /\ Before(signed[n], h, r)
        BY <1>3 DEF VoteNil, Willing
    <2>2. h \in Nat /\ r \in Nat
        BY <1>0, Bounds DEF Current, Rounds, Heights
    <2> HIDE DEF h, r
    <2>3. FreshSigners'
        BY <1>0, <2>1 DEF Passed, FreshSigners
    <2>4. SignersReached'
        <3>1. SUFFICES ASSUME reset = {}, NEW d \in history, NEW m \in d.by
                       PROVE  Reached(m, d)'
            BY <2>1 DEF SignersReached
        <3>2. Reached(m, d) /\ m \in Nodes
            BY <1>0, <3>1, Bounds DEF Passed, SignersReached
        <3>3. CASE m = n
            <4>1. ~Before(<<h, r>>, Len(d.chain), d.round)
                BY <2>1, <2>2, <3>2, <3>3, SignersGoOn
            <4>2. signed'[m] = <<h, r>>
                BY <1>0, <2>1, <3>2, <3>3
            <4> QED BY <4>1, <4>2 DEF Reached
        <3>4. CASE m # n
            <4>1. signed'[m] = signed[m]
                BY <1>0, <2>1, <3>2, <3>4
            <4> QED BY <3>2, <4>1 DEF Reached
        <3> QED BY <3>3, <3>4
    <2>5. RoundsDecideOnce'
        BY <2>1 DEF Passed, RoundsDecideOnce
    <2> QED BY <2>3, <2>4, <2>5 DEF Passed
<1>4. ASSUME NEW Q \in Quorums, NEW block \in Blocks, NEW p \in Q, Decide(Q, p, block)
      PROVE  Passed'
    <2> DEFINE c == chain[p]
               h == Len(chain[p]) + 1
               r == round[p]
               x == [chain |-> Append(c, block), round |-> r, by |-> Q]
    <2>1. /\ UNCHANGED <<genesis, reset>> /\ history' = history \cup {x}
          /\ signed' = [n \in Nodes |-> IF n \in Q THEN <<h, r>> ELSE signed[n]]
        BY <1>4 DEF Decide
    <2>2. \A n \in Q : n \in up /\ Before(signed[n], h, r)
        BY <1>4 DEF Decide, Willing, Current
    <2>3. p \in Nodes /\ Q \subseteq Nodes
        BY Bounds
    <2>4. c \in Seq(Blocks) /\ h \in Nat /\ r \in Nat
        BY <1>0, <2>3, Bounds DEF Chains, Rounds, Heights
    <2>5. Len(x.chain) = h /\ x.round = r /\ x.by = Q
        BY <2>4
    <2> HIDE DEF h, r, x
    <2>6. FreshSigners'
        BY <1>0, <2>1, <2>2 DEF Passed, FreshSigners
    <2>7. ASSUME reset = {}, NEW d \in history, NEW m \in d.by
          PROVE  Reached(m, d) /\ m \in Nodes
        BY <1>0, <2>7, Bounds DEF Passed, SignersReached
    <2>8. SignersReached'
        <3>1. SUFFICES ASSUME reset = {}, NEW d \in history', NEW m \in d.by
                       PROVE  Reached(m, d)'
            BY <2>1 DEF SignersReached
        <3>2. CASE d = x
            <4>1. signed'[m] = <<h, r>>
                BY <2>1, <2>3, <2>5, <3>2
            <4> QED BY <2>4, <2>5, <3>2, <4>1 DEF Reached, Before
        <3>3. CASE d \in history
            <4>1. Reached(m, d) /\ m \in Nodes
                BY <2>7, <3>1, <3>3
            <4>2. CASE m \in Q
                <5>1. ~Before(<<h, r>>, Len(d.chain), d.round)
                    BY <2>2, <2>4, <3>3, <4>1, <4>2, SignersGoOn
                <5>2. signed'[m] = <<h, r>>
                    BY <2>1, <4>1, <4>2
                <5> QED BY <5>1, <5>2 DEF Reached
            <4>3. CASE m \notin Q
                <5>1. signed'[m] = signed[m]
                    BY <2>1, <4>1, <4>3
                <5> QED BY <4>1, <5>1 DEF Reached
            <4> QED BY <4>2, <4>3
        <3> QED BY <2>1, <3>2, <3>3
    <2>9. ASSUME reset = {}, NEW d \in history
          PROVE  ~(Len(d.chain) = h /\ d.round = r)
        <3>1. d.by \in Quorums
            BY <1>0
        <3>2. PICK m \in d.by \cap Q : TRUE
            BY <3>1, NodesAssumption
        <3>3. Reached(m, d) /\ Before(signed[m], h, r)
            BY <2>2, <2>7, <2>9, <3>2
        <3> QED BY <3>3 DEF Reached
    <2>10. RoundsDecideOnce'
        BY <2>1, <2>5, <2>9 DEF Passed, RoundsDecideOnce
    <2> QED BY <2>6, <2>8, <2>10 DEF Passed
<1>5. CASE UNCHANGED <<genesis, signed, reset, history>>
    BY <1>5 DEF Passed, SignersReached, Reached, FreshSigners, RoundsDecideOnce
<1>6. ASSUME NEW n \in Nodes, Learn(n) \/ Fetch(n)
      PROVE  UNCHANGED <<genesis, signed, reset, history>>
    BY <1>6 DEF Learn, Fetch, Store
<1>7. ASSUME NEW n \in Nodes, Stop(n) \/ FinalizeBlock(n)
      PROVE  UNCHANGED <<genesis, signed, reset, history>>
    BY <1>7 DEF Stop, FinalizeBlock
<1>8. ASSUME NEW n \in Nodes, NEW Q \in Quorums, NEW r \in Rounds, MoveOn(n, Q, r)
      PROVE  UNCHANGED <<genesis, signed, reset, history>>
    BY <1>8 DEF MoveOn
<1>9. ASSUME NEW n \in Nodes, NEW block \in Blocks, NEW i \in DOMAIN block,
             Simulate(n, block[i])
      PROVE  UNCHANGED <<genesis, signed, reset, history>>
    BY <1>9 DEF Simulate
<1>10. CASE UNCHANGED vars
    BY <1>5, <1>10 DEF vars
<1> QED
    BY <1>1, <1>2, <1>3, <1>4, <1>5, <1>6, <1>7, <1>8, <1>9, <1>10 DEF Next

(***************************************************************************)
(* No height and round is decided twice, in any network whose quorums      *)
(* intersect, whatever is restarted with its databases deleted, as long as *)
(* no initialization met a genesis file that it could not read.            *)
(***************************************************************************)
THEOREM RoundsAlwaysDecideOnce == Spec => []RoundsDecideOnce
<1>1. Passed => RoundsDecideOnce
    BY DEF Passed
<1> QED BY <1>1, InitPassed, StepPassed, TypeCorrect, PTL DEF Spec

\* A prefix that is one longer.
LEMMA PrefixGrows ==
    ASSUME NEW S, NEW s \in Seq(S), NEW k \in Nat, k + 1 \in 1 .. Len(s)
    PROVE  /\ SubSeq(s, 1, k) \in Seq(S) /\ s[k + 1] \in S
           /\ SubSeq(s, 1, k + 1) = Append(SubSeq(s, 1, k), s[k + 1])
<1> DEFINE p == SubSeq(s, 1, k)
           q == SubSeq(s, 1, k + 1)
           r == Append(p, s[k + 1])
<1>1. \A i \in 1 .. (k + 1) : s[i] \in S
    OBVIOUS
<1>2. p \in Seq(S) /\ Len(p) = k /\ \A i \in 1 .. k : p[i] = s[i]
    BY <1>1
<1>3. q \in Seq(S) /\ Len(q) = k + 1 /\ \A i \in 1 .. (k + 1) : q[i] = s[i]
    BY <1>1
<1>4. s[k + 1] \in S
    BY <1>1
<1> HIDE DEF p, q
<1>5. /\ r \in Seq(S) /\ Len(r) = k + 1 /\ r[k + 1] = s[k + 1]
      /\ \A i \in 1 .. k : r[i] = s[i]
    BY <1>2, <1>4
<1> HIDE DEF r
<1>6. \A i \in 1 .. (k + 1) : q[i] = r[i]
    BY <1>3, <1>5
<1>7. q = r
    BY <1>3, <1>5, <1>6, SeqEqual
<1> QED BY <1>2, <1>4, <1>7 DEF p, q, r

LEMMA StepReplayed == TypeOK /\ MemoryIsReplayed /\ [Next]_vars => MemoryIsReplayed'
<1> SUFFICES ASSUME TypeOK, MemoryIsReplayed, [Next]_vars PROVE MemoryIsReplayed'
    OBVIOUS
<1> USE DEF disk, consensus, ledger
<1> DEFINE Same(n) == simulated[n] = 0 =>
                          memory[n] = Replayed(SubSeq(chain[n], 1, height[n]))
<1>0. /\ \A n \in up : Same(n)
      /\ up \subseteq Nodes
      /\ \A n \in Nodes : /\ chain[n] \in Seq(Blocks) /\ Len(chain[n]) \in Nat
                           /\ height[n] \in Nat /\ height[n] <= Len(chain[n])
      /\ memory \in [Nodes -> Apps] /\ simulated \in [Nodes -> Nat]
      /\ height \in [Nodes -> Heights] /\ chain \in [Nodes -> Chains]
    BY Bounds DEF MemoryIsReplayed, Replayed, TypeOK, Heights, Chains
<1> SUFFICES ASSUME NEW n \in up' PROVE Same(n)'
    BY DEF MemoryIsReplayed, Replayed
<1>1. ASSUME UNCHANGED <<simulated, memory, height>>, n \in up,
             SubSeq(chain'[n], 1, height[n]) = SubSeq(chain[n], 1, height[n])
      PROVE  Same(n)'
    BY <1>0, <1>1
<1>2. CASE UNCHANGED <<simulated, memory, height, chain>> /\ n \in up
    BY <1>1, <1>2
<1>3. ASSUME NEW m \in Nodes, Start(m) PROVE Same(n)'
    <2>1. /\ up' = up \cup {m} /\ height' = [height EXCEPT ![m] = 0]
          /\ memory' = [memory EXCEPT ![m] = NewStandaloneApp]
          /\ simulated' = [simulated EXCEPT ![m] = 0]
          /\ chain' = [chain EXCEPT ![m] = <<>>]
        BY <1>3 DEF Start, HeightAfterStart, AppAfterStart, ChainAfterStart
    <2>2. CASE n = m
        <3>1. memory'[n] = NewStandaloneApp /\ height'[n] = 0 /\ chain'[n] = <<>>
            BY <1>0, <2>1, <2>2
        <3>2. SubSeq(<<>>, 1, 0) = <<>>
            OBVIOUS
        <3> QED BY <3>1, <3>2, ReplayOfNone
    <2>3. CASE n # m
        BY <1>0, <2>1, <2>3
    <2> QED BY <2>2, <2>3
<1>4. ASSUME NEW m \in Nodes, FinalizeBlock(m) PROVE Same(n)'
    <2> DEFINE k == height[m]
               block == chain[m][k + 1]
               before == SubSeq(chain[m], 1, k)
    <2>1. /\ UNCHANGED <<up, simulated, chain>> /\ k < Len(chain[m])
          /\ memory' = [memory EXCEPT ![m] = Executed(@, block)]
          /\ height' = [height EXCEPT ![m] = @ + 1]
        BY <1>4 DEF FinalizeBlock
    <2>2. CASE n = m
        <3>1. k \in Nat /\ k + 1 \in 1 .. Len(chain[m]) /\ n \in Nodes
            BY <1>0, <2>1
        <3>2. before \in Seq(Blocks) /\ block \in Blocks
              /\ SubSeq(chain[m], 1, k + 1) = Append(before, block)
            BY <1>0, <3>1, PrefixGrows
        <3>3. memory'[n] = Executed(memory[n], block) /\ height'[n] = k + 1
            BY <1>0, <2>1, <2>2, <3>1
        <3> HIDE DEF before, block
        <3>4. Replayed(Append(before, block)) = Executed(Replayed(before), block)
            BY <3>2, ReplayOfOneMore
        <3>5. simulated[n] = 0 => memory[n] = Replayed(before)
            BY <1>0, <2>1, <2>2 DEF before
        <3> QED BY <2>1, <2>2, <3>2, <3>3, <3>4, <3>5
    <2>3. CASE n # m
        BY <1>0, <2>1, <2>3
    <2> QED BY <2>2, <2>3
<1>5. ASSUME NEW m \in Nodes, Learn(m) \/ Fetch(m) PROVE Same(n)'
    <2>1. PICK block \in Blocks : Store(m, block)
        BY <1>5, LearnStores, FetchStores, TypeParts
    <2>2. UNCHANGED <<simulated, memory, height, up>>
        BY <2>1 DEF Store
    <2>3. chain' = [chain EXCEPT ![m] = Append(@, block)]
        BY <2>1 DEF Store
    <2>4. SubSeq(chain'[n], 1, height[n]) = SubSeq(chain[n], 1, height[n])
        <3>1. CASE n = m
            <4> DEFINE c == chain[n]
                       k == height[n]
            <4>1. c \in Seq(Blocks) /\ k \in Nat /\ k <= Len(c) /\ chain'[n] = Append(c, block)
                BY <1>0, <2>2, <2>3, <3>1
            <4> HIDE DEF c, k
            <4>2. SubSeq(Append(c, block), 1, k) = SubSeq(c, 1, k)
                BY <4>1
            <4> QED BY <4>1, <4>2 DEF c, k
        <3>2. CASE n # m
            BY <1>0, <2>2, <2>3, <3>2
        <3> QED BY <3>1, <3>2
    <2> QED BY <1>1, <2>2, <2>4
<1>6. ASSUME NEW m \in Nodes, NEW tx, Simulate(m, tx) PROVE Same(n)'
    <2>1. /\ UNCHANGED <<up, height, chain>>
          /\ memory' = [memory EXCEPT ![m] = RunTx(@, tx)]
          /\ simulated' = [simulated EXCEPT ![m] = @ + 1]
        BY <1>6 DEF Simulate
    <2>2. CASE n = m
        <3>1. simulated'[n] # 0
            BY <1>0, <2>1, <2>2
        <3> QED BY <3>1
    <2>3. CASE n # m
        BY <1>0, <2>1, <2>3
    <2> QED BY <2>2, <2>3
<1>7. ASSUME NEW m \in Nodes,
             ChangeAccess(m) \/ InitCommand(m) \/ StartWithoutGenesis(m) \/ VoteNil(m)
      PROVE  Same(n)'
    BY <1>2, <1>7 DEF ChangeAccess, InitCommand, StartWithoutGenesis, VoteNil
<1>8. ASSUME NEW m \in Nodes, Stop(m) PROVE Same(n)'
    BY <1>2, <1>8 DEF Stop
<1>9. ASSUME NEW m \in Nodes, NEW Q \in Quorums, NEW r \in Rounds, MoveOn(m, Q, r)
      PROVE  Same(n)'
    BY <1>2, <1>9 DEF MoveOn
<1>10. ASSUME NEW Q \in Quorums, NEW block \in Blocks, NEW p \in Q, Decide(Q, p, block)
       PROVE  Same(n)'
    BY <1>2, <1>10 DEF Decide
<1>11. CASE UNCHANGED vars
    BY <1>2, <1>11 DEF vars
<1> QED BY <1>3, <1>4, <1>5, <1>6, <1>7, <1>8, <1>9, <1>10, <1>11 DEF Next

(***************************************************************************)
(* The memory of a running node without simulations is what a replay of    *)
(* its committed blocks gives, through restarts, failed transactions and   *)
(* blocks that are fetched again (FinalizeBlock, Start, Commit).           *)
(***************************************************************************)
THEOREM MemoryAlwaysReplayed == Spec => []MemoryIsReplayed
<1>1. Init => MemoryIsReplayed
    BY DEF Init, MemoryIsReplayed
<1> QED BY <1>1, StepReplayed, TypeCorrect, PTL DEF Spec

-----------------------------------------------------------------------------
(***************************************************************************)
(* The total of the balances, as a sum of FoldTheorems.                    *)
(***************************************************************************)
Total(balances) == SumFunctionOnSet(balances, Accounts)

Balanced == {app \in Apps : Total(app.balances) = GenesisBalance}

Others == {m \in Messages : m.from # m.to}

LEMMA TotalIsFolded ==
    ASSUME NEW balances \in [Accounts -> Int]
    PROVE  FoldFunction(+, 0, balances) = Total(balances)
<1>1. DOMAIN balances = Accounts
    OBVIOUS
<1>2. FoldFunction(+, 0, balances) = SumFunctionOnSet(balances, DOMAIN balances)
    BY Zenon DEF FoldFunction, SumFunctionOnSet
<1> QED BY <1>1, <1>2 DEF Total

LEMMA NewAppIsBalanced == NewStandaloneApp \in Balanced
<1> DEFINE zero == [a \in Accounts |-> 0]
           f == NewStandaloneApp.balances
<1>1. f = [a \in Accounts |-> IF a = GenesisAccount THEN GenesisBalance ELSE 0]
    BY DEF NewStandaloneApp
<1>2. /\ Summable(f, Accounts) /\ Summable(zero, Accounts) /\ GenesisAccount \in Accounts
      /\ \A a \in Accounts \ {GenesisAccount} : f[a] = zero[a]
      /\ f[GenesisAccount] = GenesisBalance /\ zero[GenesisAccount] = 0
    BY <1>1, LedgerAssumption DEF Summable
<1>3. SumFunctionOnSet(zero, Accounts) = 0
    BY SumZero, LedgerAssumption
<1> HIDE DEF zero, f
<1>4. SumFunctionOnSet(f, Accounts)
        = SumFunctionOnSet(zero, Accounts) + f[GenesisAccount] - zero[GenesisAccount]
    BY <1>2, SumUpdate
<1>5. SumFunctionOnSet(f, Accounts) = GenesisBalance
    BY <1>2, <1>3, <1>4, LedgerAssumption
<1> QED BY <1>5, NewAppType DEF Balanced, Total, f

\* Both balances are written: what the sender loses the receiver gets.
LEMMA MovedKeepsTotal ==
    ASSUME NEW balances \in [Accounts -> Int], NEW m \in Others
    PROVE  Total(Moved(balances, m)) = Total(balances)
<1> DEFINE taken == [balances EXCEPT ![m.from] = @ - m.amount]
           moved == Moved(balances, m)
<1>1. m.from \in Accounts /\ m.to \in Accounts /\ m.amount \in Nat /\ m.from # m.to
    BY DEF Others, Messages
<1>2. /\ taken \in [Accounts -> Int] /\ taken[m.from] = balances[m.from] - m.amount
      /\ \A a \in Accounts \ {m.from} : taken[a] = balances[a]
    BY <1>1
<1>3. /\ moved \in [Accounts -> Int] /\ moved[m.to] = taken[m.to] + m.amount
      /\ \A a \in Accounts \ {m.to} : moved[a] = taken[a]
    BY <1>1 DEF Moved
<1> HIDE DEF taken, moved
<1>4. Summable(balances, Accounts) /\ Summable(taken, Accounts) /\ Summable(moved, Accounts)
    BY <1>2, <1>3, LedgerAssumption DEF Summable
<1>5. Total(taken) = Total(balances) + taken[m.from] - balances[m.from]
    BY <1>1, <1>2, <1>4, SumUpdate DEF Total
<1>6. Total(moved) = Total(taken) + moved[m.to] - taken[m.to]
    BY <1>1, <1>3, <1>4, SumUpdate DEF Total
<1>7. Total(balances) \in Int /\ Total(taken) \in Int
    BY <1>4, SumType DEF Total
<1> QED BY <1>1, <1>2, <1>3, <1>5, <1>6, <1>7 DEF moved

LEMMA PaidKeepsTotal ==
    ASSUME NEW balances \in [Accounts -> Ints], NEW m \in Others
    PROVE  /\ Paid(balances, m) \in [Accounts -> Ints]
           /\ Total(Paid(balances, m)) = Total(balances)
<1>1. balances \in [Accounts -> Int] /\ m \in Messages
    BY LedgerAssumption DEF Ints, Others
<1> QED BY <1>1, PaidType, MovedKeepsTotal DEF Paid

LEMMA BalancedCloses == Closed(Balanced, Others)
<1> SUFFICES ASSUME NEW run \in Runs(Balanced), NEW m \in Others
             PROVE  Send(run, m) \in Runs(Balanced)
    BY DEF Closed
<1> DEFINE next == Send(run, m)
           b == run.app.balances
<1>1. run \in Runs(Apps) /\ m \in Messages /\ Total(b) = GenesisBalance
    BY DEF Runs, Balanced, Others
<1>2. next \in Runs(Apps)
    BY <1>1, MessagesClose DEF Closed
<1>3. b \in [Accounts -> Ints]
    BY <1>1 DEF Runs, Apps
<1>4. next.app.balances = b \/ next.app.balances = BalancesAfter(b, m)
    <2>1. run \in Running
        BY <1>1 DEF Runs, Running
    <2> QED BY <1>1, <2>1, SendOf
<1> HIDE DEF next, b
<1>5. BalancesAfter(b, m) \in {b, Paid(b, m), Paid(Paid(b, m), m)}
    <2>1. m.kind \in {"send", "repeated", "unknown"}
        BY <1>1 DEF Messages
    <2> QED BY <2>1 DEF BalancesAfter
<1>6. Total(next.app.balances) = GenesisBalance
    BY <1>1, <1>3, <1>4, <1>5, PaidKeepsTotal
<1> QED BY <1>2, <1>6 DEF Runs, Balanced, next

\* Every transaction of the blocks moves coins between two accounts.
ToOthers == \A block \in Blocks : \A i \in DOMAIN block : ~ToOneself(block[i])

LEMMA BlocksOfOthers == ToOthers => Blocks \subseteq Seq(Seq(Others))
<1> SUFFICES ASSUME ToOthers, NEW block \in Blocks PROVE block \in Seq(Seq(Others))
    OBVIOUS
<1>1. block \in Seq(Seq(Messages))
    BY LedgerAssumption
<1>2. ASSUME NEW i \in DOMAIN block PROVE block[i] \in Seq(Others)
    <2>1. block[i] \in Seq(Messages) /\ ~ToOneself(block[i])
        BY <1>1 DEF ToOthers
    <2>2. \A j \in DOMAIN block[i] : block[i][j] \in Others
        BY <2>1 DEF ToOneself, Others
    <2>3. block[i] = [j \in 1 .. Len(block[i]) |-> block[i][j]] /\ Len(block[i]) \in Nat
          /\ DOMAIN block[i] = 1 .. Len(block[i])
        BY <2>1
    <2> QED BY <2>2, <2>3, IsASeq
<1>3. block = [j \in 1 .. Len(block) |-> block[j]] /\ Len(block) \in Nat
      /\ DOMAIN block = 1 .. Len(block)
    BY <1>1
<1> QED BY <1>2, <1>3, IsASeq

AllBalanced == ToOthers => \A n \in Nodes : memory[n] \in Balanced

LEMMA StepBalanced == TypeOK /\ AllBalanced /\ [Next]_vars => AllBalanced'
<1> SUFFICES ASSUME TypeOK, AllBalanced, [Next]_vars, ToOthers, NEW n \in Nodes
             PROVE  memory'[n] \in Balanced
    BY DEF AllBalanced
<1> USE DEF disk, consensus, ledger
<1>1. memory \in [Nodes -> Apps] /\ memory[n] \in Balanced
    BY DEF TypeOK, AllBalanced
<1>2. Blocks \subseteq Seq(Seq(Others))
    BY BlocksOfOthers
<1>3. ASSUME NEW m \in Nodes, Start(m) PROVE memory'[n] \in Balanced
    BY <1>1, <1>3, NewAppIsBalanced DEF Start, AppAfterStart
<1>4. ASSUME NEW m \in Nodes, FinalizeBlock(m) PROVE memory'[n] \in Balanced
    <2>1. /\ chain[m] \in Seq(Blocks) /\ Len(chain[m]) \in Nat /\ height[m] \in Nat
          /\ height[m] < Len(chain[m])
        BY <1>4, Bounds DEF FinalizeBlock, TypeOK, Heights, Chains
    <2>2. chain[m][height[m] + 1] \in Seq(Seq(Others))
        BY <1>2, <2>1
    <2>3. Executed(memory[n], chain[m][height[m] + 1]) \in Balanced
        BY <1>1, <2>2, BalancedCloses, ExecutedCloses
    <2> QED BY <1>1, <1>4, <2>3 DEF FinalizeBlock
<1>5. ASSUME NEW m \in Nodes, NEW block \in Blocks, NEW i \in DOMAIN block,
             Simulate(m, block[i])
      PROVE  memory'[n] \in Balanced
    <2>1. block[i] \in Seq(Others)
        BY <1>2
    <2>2. RunTx(memory[n], block[i]) \in Balanced
        BY <1>1, <2>1, BalancedCloses, RunTxCloses
    <2> QED BY <1>1, <1>5, <2>2 DEF Simulate
<1>6. CASE memory' = memory
    BY <1>1, <1>6
<1>7. ASSUME NEW m \in Nodes, \/ ChangeAccess(m) \/ InitCommand(m) \/ StartWithoutGenesis(m)
                              \/ Stop(m) \/ VoteNil(m)
      PROVE  memory' = memory
    BY <1>7 DEF ChangeAccess, InitCommand, StartWithoutGenesis, Stop, VoteNil
<1>8. ASSUME NEW m \in Nodes, Learn(m) \/ Fetch(m) PROVE memory' = memory
    BY <1>8 DEF Learn, Fetch, Store
<1>9. ASSUME NEW m \in Nodes, NEW Q \in Quorums, NEW r \in Rounds, MoveOn(m, Q, r)
      PROVE  memory' = memory
    BY <1>9 DEF MoveOn
<1>10. ASSUME NEW Q \in Quorums, NEW block \in Blocks, NEW p \in Q, Decide(Q, p, block)
       PROVE  memory' = memory
    BY <1>10 DEF Decide
<1>11. CASE UNCHANGED vars
    BY <1>6, <1>11 DEF vars
<1> QED BY <1>3, <1>4, <1>5, <1>6, <1>7, <1>8, <1>9, <1>10, <1>11 DEF Next

(***************************************************************************)
(* If no transfer is to oneself, the balances of every application add up  *)
(* to the genesis balance, whatever fails halfway and whoever goes below   *)
(* zero (Send, Executed, Simulate).                                        *)
(***************************************************************************)
THEOREM TotalAlwaysKept == Spec => []TotalIsKept
<1>1. Init => AllBalanced
    BY NewAppIsBalanced DEF Init, AllBalanced
<1>2. AllBalanced /\ TypeOK /\ [Next]_vars => AllBalanced'
    BY StepBalanced
<1>3. AllBalanced /\ TypeOK => TotalIsKept
    <2> SUFFICES ASSUME AllBalanced, TypeOK, ToOthers, NEW n \in up
                 PROVE  FoldFunction(+, 0, memory[n].balances) = GenesisBalance
        BY DEF TotalIsKept, ToOthers
    <2>1. n \in Nodes
        BY DEF TypeOK
    <2>2. memory[n] \in Balanced
        BY <2>1 DEF AllBalanced
    <2>3. memory[n].balances \in [Accounts -> Int]
        BY <2>2, LedgerAssumption DEF Balanced, Apps, Ints
    <2> QED BY <2>2, <2>3, TotalIsFolded DEF Balanced
<1> QED BY <1>1, <1>2, <1>3, TypeCorrect, PTL DEF Spec
=============================================================================

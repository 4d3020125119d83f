-------------------------- MODULE ReorgRepairProofs --------------------------
(***************************************************************************)
(* Proofs about ReorgRepair, for every value of the constants: when a scan *)
(* speaks for all the stored blocks, and what a rollback then deletes.     *)
(***************************************************************************)
EXTENDS ReorgRepair, IndexerProofs

-----------------------------------------------------------------------------
(* The verdicts of a scan of the stored rows *)

\* No reorg, as far as the scan sees: the highest row agrees, or there is none.
LEMMA NoReorgOfRows ==
  ASSUME depth \in Nat \ {0}, NEW h \in Rows,
         ClassifyFork(LocalHashes, seen, depth) = NoReorg
  PROVE  \E m \in Rows : h <= m /\ seen[m] = blockHash[m]
<1>1. /\ IsFiniteSet(Rows) /\ Rows \subseteq Nat /\ DOMAIN RowHashes = Rows
      /\ IsFiniteSet(DOMAIN LocalHashes) /\ DOMAIN LocalHashes \subseteq Rows
      /\ DOMAIN LocalHashes \subseteq Nat
  BY RowsFinite
<1>2. PICK top \in Rows : \A k \in Rows : k <= top
  BY <1>1, MaxOf
<1>3. {k \in Rows : k > top} = {}
  <2>1. ASSUME NEW k \in Rows PROVE ~ (k > top)
    <3>1. k \in Nat /\ top \in Nat /\ k <= top
      BY <1>1, <1>2
    <3>2. QED
      BY <3>1
  <2>2. QED
    BY <2>1
<1>4. top \in DOMAIN LocalHashes
  <2>1. Cardinality({k \in DOMAIN RowHashes : k > top}) = 0 /\ 0 < ScanCap
    BY <1>1, <1>3, FS_EmptySet, ConstantsAssumption
  <2>2. top \in Window(RowHashes, ScanCap)
    BY <1>1, <2>1 DEF Window
  <2>3. QED
    BY <2>2 DEF LocalHashes
<1>5. top \in Window(LocalHashes, depth)
  <2>1. {k \in DOMAIN LocalHashes : k > top} = {}
    BY <1>1, <1>3
  <2>2. QED
    BY <1>4, <2>1, FS_EmptySet DEF Window
<1>6. \A k \in DOMAIN LocalHashes : k < top + 1
  BY <1>1, <1>2
<1>7. PICK m \in DOMAIN LocalHashes :
        top <= m /\ seen[m] = LocalHashes[m] /\ seen[m] # NoHash
  BY <1>1, <1>2, <1>4, <1>5, <1>6, ScanEnds
<1>8. LocalHashes[m] = blockHash[m]
  BY <1>7 DEF LocalHashes
<1>9. QED
  BY <1>1, <1>2, <1>7, <1>8

\* A fork: every row the scan may read below it is under one that agrees.
LEMMA AgreesBelowFork ==
  ASSUME depth \in Nat, NEW f \in Nat,
         ClassifyFork(LocalHashes, seen, depth) = Fork(f),
         NEW h \in DOMAIN LocalHashes, h < f
  PROVE  \E m \in Rows : h <= m /\ seen[m] = blockHash[m]
<1>1. /\ DOMAIN LocalHashes \subseteq Rows /\ DOMAIN LocalHashes \subseteq Nat
      /\ IsFiniteSet(DOMAIN LocalHashes)
  BY RowsFinite
<1>2. PICK m \in DOMAIN LocalHashes :
        h <= m /\ seen[m] = LocalHashes[m] /\ seen[m] # NoHash
  BY <1>1, ScanEnds
<1>3. LocalHashes[m] = blockHash[m]
  BY <1>2 DEF LocalHashes
<1>4. QED
  BY <1>1, <1>2, <1>3

\* A fork is at a row the scan may read.
LEMMA ForkIsRead ==
  ASSUME depth \in Nat, NEW f,
         ClassifyFork(LocalHashes, seen, depth) = Fork(f)
  PROVE  f \in DOMAIN LocalHashes
<1>1. DOMAIN LocalHashes \subseteq Nat /\ IsFiniteSet(DOMAIN LocalHashes)
  BY RowsFinite
<1>2. f \in Window(LocalHashes, depth)
  BY <1>1, ForkMismatch
<1>3. QED
  BY <1>2 DEF Window

\* A row the scan may read and all rows above it.
LEMMA RowsAboveAreRead ==
  ASSUME NEW f \in DOMAIN LocalHashes, NEW h \in Rows, f <= h
  PROVE  h \in DOMAIN LocalHashes
<1>1. /\ IsFiniteSet(DOMAIN RowHashes) /\ DOMAIN RowHashes \subseteq Nat
      /\ DOMAIN RowHashes = Rows /\ ScanCap \in Nat
  BY RowsFinite, ConstantsAssumption
<1>2. f \in Window(RowHashes, ScanCap)
  BY DEF LocalHashes
<1>3. h \in Window(RowHashes, ScanCap)
  BY <1>1, <1>2, WindowUp
<1>4. QED
  BY <1>3 DEF LocalHashes

-----------------------------------------------------------------------------
(* What the history says *)

\* How the trust of a step depends on what the step does.
LEMMA WatchRules ==
  ASSUME trust \in TrustLevels, Watch
  PROVE  /\ trust' \in TrustLevels
         /\ trust' # "blind" => trust # "blind" /\ (FetchesBlock => trust = "sure")
         /\ trust' = "sure" => /\ ~ Reorg
                               /\ \/ trust = "sure"
                                  \/ trust = "checking" /\ FindsNoReorg
         /\ trust' = "checking" => \/ trust = "checking" /\ ~ Reorg
                                   \/ BeginsScan
<1>1. CASE trust = "sure"
  BY <1>1 DEF Watch, TrustLevels
<1>2. CASE trust = "unsure"
  BY <1>2 DEF Watch, TrustLevels
<1>3. CASE trust = "checking"
  BY <1>3 DEF Watch, TrustLevels
<1>4. CASE trust = "blind"
  BY <1>4 DEF Watch, TrustLevels
<1>5. QED
  BY <1>1, <1>2, <1>3, <1>4 DEF TrustLevels

\* On a chain that kept still, one row that agrees speaks for all below it.
LEMMA ScanSpeaksForAll ==
  ASSUME IndInv, TrustInv, trust = "checking", FindsNoReorg, NEW h \in Heights
  PROVE  Held(h) \subseteq {chain[h]}
<1>1. /\ depth \in Nat \ {0} /\ Linked /\ pc = "scan"
      /\ \A k \in Heights : seen[k] \in {NoHash, chain[k]}
      /\ ClassifyFork(LocalHashes, seen, depth) = NoReorg
  BY DEF IndInv, TypeOK, TrustInv, FindsNoReorg, NoFork
<1>2. \A k \in Heights : task[k].block = NoHash
  BY <1>1 DEF IndInv, RangeOK, TrustInv
<1>3. CASE h \notin Rows
  BY <1>2, <1>3 DEF Held, Rows
<1>4. CASE h \in Rows
  <2>1. PICK m \in Rows : h <= m /\ seen[m] = blockHash[m]
    BY <1>1, <1>4, NoReorgOfRows
  <2>2. /\ m \in Heights /\ blockHash[m] = chain[m] /\ chain[m] \in Held(m)
        /\ Held(m) = {blockHash[m]}
    BY <1>1, <1>2, <2>1 DEF Rows, Held
  <2>3. h = m \/ h < m
    BY <2>1, RowsFinite DEF Rows
  <2>4. QED
    BY <1>1, <2>2, <2>3 DEF Linked
<1>5. QED
  BY <1>3, <1>4

\* What most steps do: the chain stays, and nothing is held that was not.
HeldFrame ==
  /\ UNCHANGED chainVars
  /\ depth' \in Nat /\ depth' >= 1
  /\ \A h \in Heights :
       /\ seen'[h] \in {seen[h], NoHash, chain[h]}
       /\ blockHash'[h] \in {blockHash[h], NoHash, task[h].block}
       /\ task'[h].block \in {task[h].block, NoHash}
       /\ task'[h].stage = "idle" => task'[h].block = NoHash

\* A scan begins with nothing seen.
LEMMA BeginsWithNothing ==
  ASSUME BeginsScan, NEW h \in Heights PROVE seen'[h] = NoHash
BY DEF BeginsScan, BeginScan, Start, Wake, RollbackFork, NothingSeen

\* Such steps keep the invariant.
LEMMA FrameKeepsTrust ==
  ASSUME IndInv, TrustInv, Watch, HeldFrame
  PROVE  TrustInv'
<1>1. chain' = chain /\ head' = head
  BY DEF HeldFrame, chainVars
<1>2. \A h \in Heights : Held(h)' \subseteq Held(h)
  BY DEF HeldFrame, Held
<1>3. NewestOnChain'
  BY <1>1, <1>2 DEF TrustInv, NewestOnChain
<1>4. trust' # "blind" => Linked'
  BY <1>1, <1>2, WatchRules DEF TrustInv, Linked
<1>5. trust' = "sure" => \A h \in Heights : Held(h)' \subseteq {chain'[h]}
  <2>1. trust' = "sure" => \A h \in Heights : Held(h) \subseteq {chain[h]}
    BY WatchRules, ScanSpeaksForAll DEF TrustInv
  <2>2. QED
    BY <1>1, <1>2, <2>1
<1>6. trust' \in {"sure", "checking"} =>
        \A h \in Heights : seen'[h] \in {NoHash, chain'[h]}
  BY <1>1, WatchRules, BeginsWithNothing DEF TrustInv, HeldFrame
<1>7. QED
  BY <1>3, <1>4, <1>5, <1>6, WatchRules DEF TrustInv, HeldFrame

-----------------------------------------------------------------------------
(* The steps that hold nothing new *)

\* A scan that widens does not begin to compare less.
LEMMA WiderDepth ==
  ASSUME IndInv, TrustInv, WidenScan
  PROVE  depth' \in Nat /\ depth' >= 1
<1> DEFINE max == Cardinality(DOMAIN LocalHashes)
<1>1. depth \in Nat /\ depth >= 1
  BY DEF IndInv, TypeOK, TrustInv
<1>2. /\ ClassifyFork(LocalHashes, seen, depth) = NeedDeeper
      /\ depth' = NextScanDepth(depth, max)
  BY DEF WidenScan
<1>3. IsFiniteSet(DOMAIN LocalHashes) /\ DOMAIN LocalHashes \subseteq Nat /\ max \in Nat
  BY RowsFinite, FS_CardinalityType
<1>4. Window(LocalHashes, depth) # DOMAIN LocalHashes
  BY <1>1, <1>2, NeedDeeperMismatch
<1>5. depth < max
  BY <1>1, <1>3, <1>4, WindowFull
<1> HIDE DEF max
<1>6. QED
  BY <1>1, <1>2, <1>3, <1>5 DEF NextScanDepth

\* A step of the scan sees the chain as it is.
LEMMA ScanFrame ==
  ASSUME IndInv, TrustInv,
         Start \/ Wake \/ FetchChainHash \/ ScanRpcFails \/ NoFork \/ WidenScan
  PROVE  HeldFrame
<1>1. UNCHANGED <<chainVars, rowVars, task>>
  BY DEF Start, Wake, FetchChainHash, ScanRpcFails, NoFork, WidenScan
<1>2. \A h \in Heights : seen'[h] \in {seen[h], NoHash, chain[h]}
  <2>1. CASE UNCHANGED seen
    BY <2>1
  <2>2. CASE seen' = NothingSeen
    BY <2>2 DEF NothingSeen
  <2>3. CASE \E h \in Unseen : seen' = [seen EXCEPT ![h] = chain[h]]
    BY <2>3 DEF IndInv, TypeOK
  <2>4. QED
    BY <2>1, <2>2, <2>3 DEF Start, Wake, FetchChainHash, ScanRpcFails, NoFork,
       WidenScan, BeginScan, EndScan
<1>3. depth' \in Nat /\ depth' >= 1
  <2>1. CASE WidenScan
    BY <2>1, WiderDepth
  <2>2. depth \in Nat /\ depth >= 1
    BY DEF IndInv, TypeOK, TrustInv
  <2>3. QED
    BY <2>1, <2>2 DEF Start, Wake, FetchChainHash, ScanRpcFails, NoFork,
       BeginScan, EndScan
<1>4. QED
  BY <1>1, <1>2, <1>3 DEF HeldFrame, rowVars, TrustInv

\* A rollback lets go of what it deletes.
LEMMA RollbackFrame ==
  ASSUME IndInv, TrustInv, RollbackFork
  PROVE  HeldFrame
<1>1. /\ UNCHANGED <<chainVars, task>> /\ seen' = NothingSeen /\ depth' = 1
      /\ \E f \in Heights : RollbackFromBlock(f)
  BY DEF RollbackFork, BeginScan
<1>2. \A h \in Heights : blockHash'[h] \in {blockHash[h], NoHash}
  BY <1>1 DEF RollbackFromBlock, Cleared
<1>3. QED
  BY <1>1, <1>2 DEF HeldFrame, NothingSeen, TrustInv

\* Chunks begin and end, and processes, without anything that they hold.
LEMMA ProcessFrame ==
  ASSUME IndInv, TrustInv,
         \/ FetchHead \/ StartRange \/ StartChunk \/ SaveCheckpoint \/ EndCycle
         \/ Crash \/ CtrlC \/ \E h \in Heights : BlockNotFound(h)
  PROVE  HeldFrame
<1>1. /\ UNCHANGED <<chainVars, rowVars>>
      /\ \/ UNCHANGED scanVars
         \/ seen' = NothingSeen /\ depth' = 1
  BY DEF FetchHead, StartRange, StartChunk, SaveCheckpoint, EndCycle, Crash, CtrlC,
     BlockNotFound, Exit
<1>2. \A h \in Heights : /\ task'[h].block \in {task[h].block, NoHash}
                         /\ task'[h].stage = "idle" => task'[h].block = NoHash
  <2>1. CASE UNCHANGED task
    BY <2>1 DEF TrustInv
  <2>2. CASE task' = NoTasks
    BY <2>2 DEF NoTasks, Idle
  <2>3. CASE StartChunk
    BY <2>3 DEF StartChunk, Idle
  <2>4. QED
    BY <2>1, <2>2, <2>3 DEF FetchHead, StartRange, SaveCheckpoint, EndCycle, Crash,
       CtrlC, BlockNotFound, Exit
<1>3. depth \in Nat /\ depth >= 1
  BY DEF IndInv, TypeOK, TrustInv
<1>4. QED
  BY <1>1, <1>2, <1>3 DEF HeldFrame, rowVars, scanVars, NothingSeen

\* A task that fetches no block stores at most the one it has.
LEMMA TaskHolds ==
  ASSUME IndInv, TrustInv, NEW h \in Heights, TaskStep(h) \/ TraceFails(h),
         ~ FetchBlock(h)
  PROVE  HeldFrame
<1>1. task \in [Heights -> Tasks] /\ depth \in Nat /\ depth >= 1
  BY DEF IndInv, TypeOK, TrustInv
<1>2. UNCHANGED <<chainVars, scanVars>>
  BY DEF TaskStep, TaskFrame, AcquirePermit, FetchReceipts, InsertBlock,
     InsertTransactions, InsertEvents, InsertTraceLogs, TraceFails,
     InsertFailedTransactions
<1>3. /\ \A k \in Heights \ {h} : task'[k] = task[k]
      /\ task'[h].block = task[h].block
      /\ task'[h].stage # "idle"
  <2>1. CASE FetchReceipts(h)
    BY <1>1, <2>1 DEF FetchReceipts, Joined, Tasks
  <2>2. CASE ~ FetchReceipts(h)
    BY <1>1, <2>2 DEF TaskStep, AcquirePermit, InsertBlock, InsertTransactions,
       InsertEvents, InsertTraceLogs, TraceFails, InsertFailedTransactions, Finish, Tasks
  <2>3. QED
    BY <2>1, <2>2
<1>4. \A k \in Heights : blockHash'[k] \in {blockHash[k], task[k].block}
  <2>1. CASE InsertBlock(h)
    BY <2>1 DEF InsertBlock, IndInv, TypeOK
  <2>2. CASE ~ InsertBlock(h)
    BY <2>2 DEF TaskStep, AcquirePermit, FetchReceipts, InsertTransactions,
       InsertEvents, InsertTraceLogs, TraceFails, InsertFailedTransactions, rowVars
  <2>3. QED
    BY <2>1, <2>2
<1>5. QED
  BY <1>1, <1>2, <1>3, <1>4 DEF HeldFrame, scanVars, TrustInv

-----------------------------------------------------------------------------
(* The steps that do *)

\* A block is fetched: it is the chain's, and so is, if the trust stays, all that
\* is held already.
LEMMA FetchKeepsTrust ==
  ASSUME IndInv, TrustInv, Watch, NEW h \in Heights, FetchBlock(h)
  PROVE  TrustInv'
<1>1. /\ task \in [Heights -> Tasks] /\ head \in Heights
      /\ chain \in [Heights -> Hashes]
  BY DEF IndInv, TypeOK
<1>2. /\ UNCHANGED <<chain, head, seen, depth, blockHash>> /\ h <= head
      /\ task[h].stage = "fetch" /\ task[h].block = NoHash
      /\ task' = [task EXCEPT ![h] = Joined([@ EXCEPT !.block = chain[h]])]
  BY DEF FetchBlock, TaskFrame, chainVars, scanVars, rowVars
<1>3. /\ \A k \in Heights \ {h} : task'[k] = task[k]
      /\ task'[h].block = chain[h] /\ task'[h].stage # "idle"
  BY <1>1, <1>2 DEF Joined, Tasks
<1>4. \A k \in Heights : Held(k)' \subseteq Held(k) \cup {chain[k]}
  BY <1>2, <1>3 DEF Held
<1>5. NewestOnChain'
  <2>1. \A k \in Heights : h <= k /\ k <= head => chain[h] <= chain[k]
    BY DEF TrustInv, NewestOnChain
  <2>2. ASSUME NEW k \in Heights, NEW b \in Held(k)'
        PROVE  b <= chain[head] /\ (b = chain[head] => b = chain[k])
    <3>1. CASE b \in Held(k)
      BY <3>1 DEF TrustInv, NewestOnChain
    <3>2. CASE b \notin Held(k)
      <4>1. k = h /\ b = chain[h]
        BY <1>2, <1>3, <2>2, <3>2 DEF Held
      <4>2. head <= head /\ h <= head
        BY <1>1, <1>2 DEF Heights
      <4>3. QED
        BY <1>1, <2>1, <4>1, <4>2
    <3>3. QED
      BY <3>1, <3>2
  <2>3. QED
    BY <1>2, <2>2 DEF TrustInv, NewestOnChain
<1>6. FetchesBlock
  BY DEF FetchesBlock
<1>7. trust' # "blind" => \A k \in Heights : Held(k)' \subseteq {chain'[k]}
  BY <1>2, <1>4, <1>6, WatchRules DEF TrustInv
<1>8. trust' # "blind" => Linked'
  BY <1>7 DEF Linked
<1>9. trust' \in {"sure", "checking"} =>
        \A k \in Heights : seen'[k] \in {NoHash, chain'[k]}
  BY <1>2, <1>6, WatchRules DEF TrustInv
<1>10. QED
  BY <1>2, <1>3, <1>5, <1>7, <1>8, <1>9, WatchRules DEF TrustInv

\* A block more on the chain is one that nobody holds.
LEMMA ExtendKeepsTrust ==
  ASSUME IndInv, TrustInv, Watch, Extend
  PROVE  TrustInv'
<1>1. /\ head \in Nat /\ head + 1 \in Heights /\ chain \in [Heights -> Hashes]
      /\ Heights \subseteq Nat /\ head \in Heights
      /\ chain[head] \in Branches
  BY ConstantsAssumption DEF IndInv, TypeOK, ChainOK, Extend, Heights
<1>2. /\ head' = head + 1 /\ UNCHANGED <<seen, depth, blockHash, task>>
      /\ chain' = [chain EXCEPT ![head + 1] = chain[head]]
  BY DEF Extend, scanVars, rowVars
<1>3. /\ chain'[head + 1] = chain[head] /\ chain[head + 1] = NoHash
      /\ \A k \in Heights \ {head + 1} : chain'[k] = chain[k]
  BY <1>1, <1>2 DEF TrustInv, NewestOnChain
<1>4. \A k \in Heights : Held(k)' = Held(k)
  BY <1>2 DEF Held
<1>5. Held(head + 1) \subseteq Int /\ chain[head] \notin Held(head + 1)
  <2>1. ASSUME chain[head] \in Held(head + 1) PROVE FALSE
    <3>1. chain[head] = chain[head + 1]
      BY <1>1, <2>1 DEF TrustInv, NewestOnChain
    <3>2. QED
      BY <1>1, <1>3, <3>1 DEF Branches, NoHash
  <2>2. QED
    BY <1>1, <2>1 DEF Held, IndInv, TypeOK, Tasks, Hashes, Branches, NoHash
<1>6. NewestOnChain'
  <2>1. ASSUME NEW h \in Heights, NEW k \in Heights, h <= k, k <= head + 1
        PROVE  chain'[h] <= chain'[k]
    <3>1. h \in Nat /\ k \in Nat
      BY <1>1
    <3>2. CASE k = head + 1 /\ h # head + 1
      <4>1. h <= head /\ head <= head
        BY <1>1, <2>1, <3>1, <3>2
      <4>2. chain[h] <= chain[head]
        BY <1>1, <4>1 DEF TrustInv, NewestOnChain
      <4>3. QED
        BY <1>3, <3>2, <4>2
    <3>3. CASE k = head + 1 /\ h = head + 1
      BY <1>1, <1>3, <3>3 DEF Branches
    <3>4. CASE k # head + 1
      <4>1. h # head + 1 /\ k <= head
        BY <1>1, <2>1, <3>1, <3>4
      <4>2. QED
        BY <1>3, <2>1, <3>4, <4>1 DEF TrustInv, NewestOnChain
    <3>5. QED
      BY <3>2, <3>3, <3>4
  <2>2. ASSUME NEW h \in Heights, head + 1 < h PROVE chain'[h] = NoHash
    <3>1. head < h /\ h # head + 1
      BY <1>1, <2>2
    <3>2. QED
      BY <1>3, <3>1 DEF TrustInv, NewestOnChain
  <2>3. ASSUME NEW h \in Heights, NEW b \in Held(h)
        PROVE  /\ b <= chain'[head + 1]
               /\ b = chain'[head + 1] => b = chain'[h]
    BY <1>1, <1>3, <1>5 DEF TrustInv, NewestOnChain
  <2>4. QED
    BY <1>2, <1>4, <2>1, <2>2, <2>3 DEF NewestOnChain
<1>7. trust' # "blind" => Linked'
  <2>1. ASSUME Linked, NEW h \in Heights, NEW k \in Heights, k < h,
               chain'[h] \in Held(h)
        PROVE  Held(k) \subseteq {chain'[k]}
    <3>1. h # head + 1 /\ chain[h] \in Held(h)
      BY <1>3, <1>5, <2>1
    <3>2. ~ (head < h)
      BY <3>1 DEF TrustInv, NewestOnChain, Held
    <3>3. k # head + 1
      BY <1>1, <2>1, <3>2
    <3>4. QED
      BY <1>3, <2>1, <3>1, <3>3 DEF Linked
  <2>2. trust' # "blind" => Linked
    BY WatchRules DEF TrustInv
  <2>3. QED
    BY <1>4, <2>1, <2>2 DEF Linked
<1>8. trust' = "sure" => \A h \in Heights : Held(h)' \subseteq {chain'[h]}
  <2>1. trust' = "sure" => \A h \in Heights : Held(h) \subseteq {chain[h]}
    BY WatchRules, ScanSpeaksForAll DEF TrustInv
  <2>2. NoHash \notin Held(head + 1)
    BY DEF Held
  <2>3. QED
    BY <1>3, <1>4, <2>1, <2>2
<1>9. trust' \in {"sure", "checking"} =>
        \A h \in Heights : seen'[h] \in {NoHash, chain'[h]}
  BY <1>2, <1>3, WatchRules, BeginsWithNothing DEF TrustInv
<1>10. QED
  BY <1>2, <1>6, <1>7, <1>8, <1>9, WatchRules DEF TrustInv

\* A reorg replaces the blocks from the fork on, and of the new ones none is held.
LEMMA ReorgKeepsTrust ==
  ASSUME IndInv, TrustInv, Watch, Reorg
  PROVE  TrustInv'
<1>1. /\ head \in Heights /\ chain \in [Heights -> Hashes] /\ chain[head] \in Branches
      /\ Heights \subseteq Nat
  BY DEF IndInv, TypeOK, ChainOK, Heights
<1>2. UNCHANGED <<seen, depth, blockHash, task>>
  BY DEF Reorg, scanVars, rowVars
<1>3. PICK fork \in 1..head : \E newHead \in fork..head :
        /\ head' = newHead
        /\ chain' = [h \in Heights |->
                       IF h < fork THEN chain[h]
                       ELSE IF h <= newHead THEN chain[head] + 1 ELSE NoHash]
  BY DEF Reorg
<1>4. /\ fork \in Nat /\ head' \in Heights /\ fork <= head' /\ head' <= head
      /\ \A h \in Heights : h < fork => chain'[h] = chain[h]
      /\ \A h \in Heights : fork <= h /\ h <= head' => chain'[h] = chain[head] + 1
      /\ \A h \in Heights : head' < h => chain'[h] = NoHash
  <2>1. PICK newHead \in fork..head :
          /\ head' = newHead
          /\ chain' = [h \in Heights |->
                         IF h < fork THEN chain[h]
                         ELSE IF h <= newHead THEN chain[head] + 1 ELSE NoHash]
    BY <1>3
  <2>2. /\ fork \in Nat /\ newHead \in Nat /\ newHead \in Heights
        /\ fork <= newHead /\ newHead <= head
    BY <1>1, ConstantsAssumption DEF Heights
  <2>3. \A h \in Heights : /\ h < fork => chain'[h] = chain[h]
                           /\ fork <= h /\ h <= newHead => chain'[h] = chain[head] + 1
                           /\ newHead < h => chain'[h] = NoHash
    BY <1>1, <2>1, <2>2
  <2>4. QED
    BY <2>1, <2>2, <2>3
<1>5. chain'[head'] = chain[head] + 1 /\ chain[head] \in Nat
  BY <1>1, <1>4 DEF Heights, Branches
<1>6. \A h \in Heights : /\ Held(h)' = Held(h)
                         /\ \A b \in Held(h) : b \in Nat /\ b <= chain[head]
  <2>1. \A h \in Heights : Held(h) \subseteq Nat
    BY DEF Held, IndInv, TypeOK, Tasks, Hashes, Branches, NoHash
  <2>2. QED
    BY <1>2, <2>1 DEF Held, TrustInv, NewestOnChain
<1>7. NewestOnChain'
  <2>1. ASSUME NEW h \in Heights, NEW k \in Heights, h <= k, k <= head'
        PROVE  chain'[h] <= chain'[k]
    <3>1. h \in Nat /\ k \in Nat /\ k <= head
      BY <1>1, <1>4, <2>1
    <3>2. chain[h] <= chain[k] /\ chain[h] \in Nat
      BY <1>1, <2>1, <3>1 DEF TrustInv, NewestOnChain, Hashes, Branches, NoHash
    <3>3. chain[h] <= chain[head]
      BY <1>1, <2>1, <3>1 DEF TrustInv, NewestOnChain
    <3>4. CASE h < fork /\ k < fork
      BY <1>4, <3>2, <3>4
    <3>5. CASE h < fork /\ fork <= k
      BY <1>4, <1>5, <2>1, <3>2, <3>3, <3>5
    <3>6. CASE fork <= h
      <4>1. fork <= k /\ h <= head'
        BY <1>1, <1>4, <2>1, <3>1, <3>6
      <4>2. QED
        BY <1>4, <1>5, <2>1, <3>6, <4>1
    <3>7. QED
      BY <1>4, <3>1, <3>4, <3>5, <3>6
  <2>2. ASSUME NEW h \in Heights, NEW b \in Held(h)
        PROVE  b <= chain'[head'] /\ b # chain'[head']
    BY <1>5, <1>6
  <2>3. QED
    BY <1>4, <1>6, <2>1, <2>2 DEF NewestOnChain
<1>8. trust' # "blind" => Linked'
  <2>1. ASSUME Linked, NEW h \in Heights, NEW k \in Heights, k < h,
               chain'[h] \in Held(h)
        PROVE  Held(k) \subseteq {chain'[k]}
    <3>1. ~ (head' < h)
      BY <1>4, <2>1 DEF Held
    <3>2. ~ (fork <= h)
      BY <1>1, <1>4, <1>5, <1>6, <2>1, <3>1
    <3>3. h < fork /\ k < fork
      BY <1>1, <1>4, <2>1, <3>2
    <3>4. QED
      BY <1>4, <2>1, <3>3 DEF Linked
  <2>2. trust' # "blind" => Linked
    BY WatchRules DEF TrustInv
  <2>3. QED
    BY <1>6, <2>1, <2>2 DEF Linked
<1>9. trust' # "sure"
  BY WatchRules DEF TrustInv
<1>10. trust' = "checking" => \A h \in Heights : seen'[h] \in {NoHash, chain'[h]}
  BY WatchRules, BeginsWithNothing DEF TrustInv
<1>11. QED
  BY <1>2, <1>7, <1>8, <1>9, <1>10, WatchRules DEF TrustInv

-----------------------------------------------------------------------------
(* Theorems *)

\* At the start every stored block is the chain's.
LEMMA InitTrustInv == RepairInit => TrustInv
<1> SUFFICES ASSUME RepairInit PROVE TrustInv
  OBVIOUS
<1> USE ConstantsAssumption
<1>1. /\ trust = "sure" /\ depth = 1 /\ seen = NothingSeen /\ task = NoTasks
      /\ chain = [h \in Heights |-> IF h <= Backfill THEN 1 ELSE NoHash]
      /\ head = Backfill
  BY DEF RepairInit, Init
<1>2. PICK b \in 0..Backfill :
        blockHash = [h \in Heights |-> IF h \in 1..b THEN 1 ELSE NoHash]
  BY DEF RepairInit, Init
<1>3. \A h \in Heights : task[h].block = NoHash /\ seen[h] = NoHash
  BY <1>1 DEF NoTasks, Idle, NothingSeen
<1>4. \A h \in Heights : Held(h) \subseteq {chain[h]} /\ Held(h) \subseteq {1}
  BY <1>1, <1>2, <1>3 DEF Held, Heights
<1>5. head \in Heights /\ chain[head] = 1
  BY <1>1 DEF Heights
<1>6. NewestOnChain
  BY <1>1, <1>4, <1>5 DEF NewestOnChain, Heights, NoHash
<1>7. Linked
  BY <1>4 DEF Linked
<1>8. QED
  BY <1>1, <1>3, <1>4, <1>6, <1>7 DEF TrustInv, TrustLevels

\* Every step keeps the invariant.
LEMMA StepKeepsRepairInv == RepairInv /\ [RepairNext]_repairVars => RepairInv'
<1> SUFFICES ASSUME IndInv, TrustInv, [RepairNext]_repairVars
             PROVE  IndInv' /\ TrustInv'
  BY AlwaysAStepNext DEF RepairInv
<1>1. IndInv'
  BY StepKeepsIndInv DEF RepairNext, repairVars
<1>2. CASE UNCHANGED repairVars
  <2>1. UNCHANGED <<trust, chain, head, seen, depth, blockHash, task>>
    BY <1>2 DEF repairVars, vars, chainVars, scanVars, rowVars
  <2>2. \A h : Held(h)' = Held(h)
    BY <2>1 DEF Held
  <2>3. NewestOnChain' /\ Linked' = Linked
    BY <2>1, <2>2 DEF TrustInv, NewestOnChain, Linked
  <2>4. QED
    BY <1>1, <2>1, <2>2, <2>3 DEF TrustInv
<1>3. CASE Next /\ Watch
  <2>1. CASE Extend
    BY <1>1, <1>3, <2>1, ExtendKeepsTrust
  <2>2. CASE Reorg
    BY <1>1, <1>3, <2>2, ReorgKeepsTrust
  <2>3. CASE \E h \in Heights : FetchBlock(h)
    BY <1>1, <1>3, <2>3, FetchKeepsTrust
  <2>4. CASE Start \/ Wake \/ FetchChainHash \/ ScanRpcFails \/ NoFork \/ WidenScan
    BY <1>1, <1>3, <2>4, ScanFrame, FrameKeepsTrust
  <2>5. CASE RollbackFork
    BY <1>1, <1>3, <2>5, RollbackFrame, FrameKeepsTrust
  <2>6. CASE \/ FetchHead \/ StartRange \/ StartChunk \/ SaveCheckpoint \/ EndCycle
             \/ Crash \/ CtrlC \/ \E h \in Heights : BlockNotFound(h)
    BY <1>1, <1>3, <2>6, ProcessFrame, FrameKeepsTrust
  <2>7. CASE \E h \in Heights : (TaskStep(h) \/ TraceFails(h)) /\ ~ FetchBlock(h)
    BY <1>1, <1>3, <2>7, TaskHolds, FrameKeepsTrust
  <2>8. QED
    BY <1>3, <2>1, <2>2, <2>3, <2>4, <2>5, <2>6, <2>7 DEF Next, Process, Environment
<1>4. QED
  BY <1>2, <1>3 DEF RepairNext

(***************************************************************************)
(* The watcher only watches: what it sees are runs of the follow loop, so  *)
(* what holds of every step of WorkerPool::follow holds of them.           *)
(***************************************************************************)
THEOREM WatchedLoop == RepairSpec => Init /\ [][Next]_vars
<1>1. [RepairNext]_repairVars => [Next]_vars
  BY DEF RepairNext, repairVars
<1>2. QED
  BY <1>1, PTL DEF RepairSpec, RepairInit

(***************************************************************************)
(* The stored blocks stay linked as long as no block is fetched between a  *)
(* reorg and the scan that answers it (worker.rs:136-175, 246-305).        *)
(***************************************************************************)
THEOREM TrustInvariance == RepairSpec => []RepairInv
<1>1. RepairInit => RepairInv
  BY InitIndInv, InitTrustInv, AlwaysAStep DEF RepairInit, RepairInv
<1>2. QED
  BY <1>1, StepKeepsRepairInv, PTL DEF RepairSpec

(***************************************************************************)
(* A scan that finds no reorg speaks for every stored block, for every     *)
(* scan cap, batch size and number of reorgs (worker.rs:246-305).          *)
(***************************************************************************)
THEOREM NoReorgSpeaksForAll == RepairSpec => []NoReorgMeansNone
<1>1. RepairInv => NoReorgMeansNone
  BY DEF RepairInv, TrustInv, NoReorgMeansNone, Agrees, Rows, Held
<1>2. QED
  BY <1>1, TrustInvariance, PTL

(***************************************************************************)
(* A rollback after a scan that met a chain that kept still deletes the    *)
(* stored blocks the chain has replaced, all that the scan may read and no *)
(* other: "the exact minimum common ancestor", for every depth of a reorg  *)
(* up to the scan cap (worker.rs:144-158, 246-305).                        *)
(***************************************************************************)
THEOREM RollbackIsExact == RepairSpec => RollbackExact
<1> DEFINE deleted == {h \in Rows : blockHash'[h] = NoHash}
           Exact == trust \in {"sure", "checking"} /\ deleted # {} =>
                      deleted = {h \in DOMAIN LocalHashes : ~ Agrees(h)}
<1>1. RepairInv /\ [RepairNext]_repairVars => Exact
  <2> SUFFICES ASSUME IndInv, TrustInv, [RepairNext]_repairVars,
                      trust \in {"sure", "checking"}, deleted # {}
               PROVE  deleted = {h \in DOMAIN LocalHashes : ~ Agrees(h)}
    BY DEF RepairInv
  <2>1. [Next]_vars
    BY DEF RepairNext, repairVars
  <2>2. PICK gone \in Rows : blockHash'[gone] = NoHash
    OBVIOUS
  <2>3. gone \in Heights /\ blockHash[gone] # NoHash
    BY DEF Rows
  <2>4. PICK f \in Rows :
          /\ ClassifyFork(LocalHashes, seen, depth) = Fork(f)
          /\ \A k \in Heights : blockHash'[k] = IF k >= f THEN NoHash ELSE blockHash[k]
    BY <2>1, <2>2, <2>3, RowGoesByRollback
  <2>5. /\ depth \in Nat /\ Linked
        /\ \A h \in Heights : seen[h] \in {NoHash, chain[h]}
    BY DEF IndInv, TypeOK, TrustInv
  <2>6. /\ Rows \subseteq Heights /\ Rows \subseteq Nat
        /\ DOMAIN LocalHashes \subseteq Rows
    BY RowsFinite
  <2>7. deleted = {h \in Rows : h >= f}
    BY <2>4, <2>6 DEF Rows
  <2>8. ASSUME NEW h \in Rows, h >= f
        PROVE  h \in DOMAIN LocalHashes /\ ~ Agrees(h)
    <3>1. seen[h] \notin {NoHash, blockHash[h]} /\ f <= h
      BY <2>4, <2>5, <2>6, <2>8, ForkOfRows
    <3>2. ~ Agrees(h)
      BY <2>5, <2>6, <3>1 DEF Agrees
    <3>3. f \in DOMAIN LocalHashes
      BY <2>4, <2>5, ForkIsRead
    <3>4. QED
      BY <3>1, <3>2, <3>3, RowsAboveAreRead
  <2>9. ASSUME NEW h \in DOMAIN LocalHashes, h < f
        PROVE  Agrees(h)
    <3>1. PICK m \in Rows : h <= m /\ seen[m] = blockHash[m]
      BY <2>4, <2>5, <2>6, <2>9, AgreesBelowFork
    <3>2. m \in Heights /\ blockHash[m] # NoHash /\ chain[m] = blockHash[m]
      BY <2>5, <3>1 DEF Rows
    <3>3. chain[m] \in Held(m) /\ h \in Heights /\ blockHash[h] \in Held(h)
      BY <2>6, <3>2 DEF Held, Rows
    <3>4. h = m \/ h < m
      <4>1. h \in Nat /\ m \in Nat
        BY <2>6
      <4>2. QED
        BY <3>1, <4>1
    <3>5. QED
      BY <2>5, <3>2, <3>3, <3>4 DEF Linked, Agrees
  <2>10. ASSUME NEW h \in DOMAIN LocalHashes
         PROVE  h \in Rows /\ (h >= f \/ h < f)
    <3>1. h \in Rows /\ h \in Nat /\ f \in Nat
      BY <2>6
    <3>2. QED
      BY <3>1
  <2>11. QED
    BY <2>7, <2>8, <2>9, <2>10
<1>2. QED
  BY <1>1, TrustInvariance, PTL DEF RepairSpec, RollbackExact

=============================================================================

------------------------ MODULE BlockLifecycleProofs ------------------------
(***************************************************************************)
(* The block lifecycle, for every chain, every block and every schedule of *)
(* crashes: the two stores never decohere, the downcalls repeated after a  *)
(* restart say again what the lost ones said, the kernel and cosmos agree  *)
(* on the inbound queues, and the whole implements SwingsetChain.          *)
(*                                                                         *)
(* The argument has four parts.  The inbound actions of a block are run by *)
(* a deterministic relation from one state of a run to the next (Leads),   *)
(* so that a block has one end whenever it is started from the same state  *)
(* (OneEnd); BlockInv says that an execution under way is on that path and *)
(* that a block already decided ends where it ended the first time.  The   *)
(* sends that the swing-store saved are, in order, what took the cosmos    *)
(* state from one block to the next (Split), which is why a replay of them *)
(* rebuilds it.  StoryInv relates the cosmos state to the history of the   *)
(* kernel, and OnwardInv says that the block under way only extends it.    *)
(***************************************************************************)
EXTENDS BlockLifecycleProperties, FiniteSetTheorems, FunctionTheorems,
        SequenceTheorems, WellFoundedInduction, TLAPS

StoreFields == {"height", "beginHeight", "sends", "kernel"}
HostFields == {"savedHeight", "savedBeginHeight", "sends", "runThisBlock",
               "pendingExport", "fresh", "decohered"}

Labels == QueueName \cup {"down", "begin", "deliver", "end", "leftover", "forced",
  "timer", "cleanup", "finish", "commit", "cosmosCommit", "panic"}

(* The block is being executed, or was committed by the swing-store before *)
(* the process was restarted. *)
Executing ==
  /\ host.savedHeight = height /\ store.height = height
  /\ host.savedBeginHeight = BlockHeight /\ work.beginHeight = BlockHeight
Replaying ==
  /\ host.savedHeight = BlockHeight /\ store.height = BlockHeight
  /\ host.savedBeginHeight = BlockHeight /\ work.beginHeight = BlockHeight

ExecutionPhases ==
  QueueName \cup {"leftover", "forced", "timer", "cleanup", "finish"}

(* What the saved heights are in each phase of the lifecycle. *)
HeightsByPhase ==
  /\ pc = "down" => work.beginHeight = store.beginHeight
  /\ pc = "begin" =>
       /\ host.savedHeight = store.height /\ host.savedBeginHeight = store.height
       /\ work.beginHeight = store.beginHeight
  /\ pc \in {"deliver", "end"} => Executing \/ Replaying
  /\ pc \in ExecutionPhases => Executing
  /\ pc = "commit" =>
       /\ host.savedHeight = BlockHeight /\ host.savedBeginHeight = BlockHeight
       /\ work.beginHeight = BlockHeight
  /\ pc = "cosmosCommit" =>
       /\ host.savedHeight = BlockHeight /\ host.savedBeginHeight = BlockHeight
       /\ store.height = BlockHeight /\ work.beginHeight = BlockHeight

HeightInv ==
  /\ height \in Nat
  /\ DOMAIN store = StoreFields /\ DOMAIN work = StoreFields
  /\ DOMAIN host = HostFields
  /\ pc \in Labels
  /\ StoresInStep
  /\ HeightsByPhase

-----------------------------------------------------------------------------
(* A block height is positive and differs from the height before it. *)
LEMMA BlockHeightAdvances ==
  ASSUME height \in Nat
  PROVE  BlockHeight \in Nat /\ BlockHeight # 0 /\ BlockHeight # height
BY HeightAssumption DEF BlockHeight, NextHeight

(* blockNeedsExecution tells the two cases of a restart apart. *)
LEMMA NeedsExecutionDecides ==
  ASSUME height \in Nat
  PROVE  /\ NeedsExecution(height, BlockHeight)
         /\ ~AlreadyExecuted(height, BlockHeight)
         /\ AlreadyExecuted(BlockHeight, BlockHeight)
BY BlockHeightAdvances DEF NeedsExecution, AlreadyExecuted, BlockHeight, NextHeight

(* A node starts with both stores empty. *)
LEMMA HeightInvInit == Init => HeightInv
BY DEF Init, HeightInv, HeightsByPhase, StoresInStep, Labels, StoreFields,
       HostFields, Stopped, BlockHeight, ExecutionPhases, QueueName
-----------------------------------------------------------------------------
(* Steps that touch neither the heights nor the lifecycle's bookkeeping    *)
(* keep what the current phase knows of them. *)
SameHeights ==
  /\ height' = height
  /\ store' = store
  /\ DOMAIN work' = DOMAIN work /\ work'.beginHeight = work.beginHeight
  /\ DOMAIN host' = DOMAIN host /\ host'.savedHeight = host.savedHeight
  /\ host'.savedBeginHeight = host.savedBeginHeight
  /\ host'.decohered = host.decohered

(* Within the phases of END_BLOCK the heights stay and the invariant with  *)
(* them, whichever phase comes next. *)
LEMMA ExecutionKeepsHeights ==
  ASSUME HeightInv, SameHeights, pc \in ExecutionPhases, pc' \in ExecutionPhases
  PROVE  HeightInv'
BY DEF HeightInv, SameHeights, HeightsByPhase, StoresInStep, Executing, Replaying,
       ExecutionPhases, QueueName, Labels, BlockHeight, NextHeight

(* AG_COSMOS_INIT finds the swing-store at the height of cosmos or one     *)
(* block ahead, and neither is a reset. *)
LEMMA LaunchKeepsHeights == ASSUME HeightInv, Launch PROVE HeightInv'
<1> DEFINE began == IF store.beginHeight = 0 THEN store.height ELSE store.beginHeight
<1>1. began = store.height
  BY DEF HeightInv, StoresInStep
<1>2. NeedsExecution(store.height, BlockHeight) \/ AlreadyExecuted(store.height, BlockHeight)
  BY NeedsExecutionDecides DEF HeightInv, StoresInStep
<1>3. /\ height' = height /\ store' = store /\ pc' = "begin" /\ pc = "down"
      /\ DOMAIN work' = DOMAIN work /\ work'.beginHeight = work.beginHeight
      /\ DOMAIN host' = HostFields /\ host'.savedHeight = store.height
      /\ host'.savedBeginHeight = began /\ host'.decohered = "no"
  BY <1>2 DEF Launch, GoTo, Stopped, HostFields, HeightInv, StoreFields
<1> HIDE DEF began
<1> QED
  BY <1>1, <1>3 DEF HeightInv, HeightsByPhase, StoresInStep, ExecutionPhases,
     QueueName, Labels, BlockHeight, NextHeight

(* The export data may be flushed in any phase. *)
LEMMA FlushKeepsHeights == ASSUME HeightInv, FlushExport PROVE HeightInv'
<1>1. SameHeights /\ pc' = pc
  BY DEF FlushExport, Become, SameHeights, HeightInv, StoreFields, HostFields
<1> QED
  BY <1>1 DEF HeightInv, SameHeights, HeightsByPhase, StoresInStep, Executing,
     Replaying, ExecutionPhases, QueueName, Labels, BlockHeight, NextHeight

(* BEGIN_BLOCK either starts a new block or recognises a committed one. *)
LEMMA BeginKeepsHeights == ASSUME HeightInv, BeginBlock PROVE HeightInv'
<1> USE DEF BeginBlock, GoTo
<1>1. CASE store.height = BlockHeight
  <2>1. AlreadyExecuted(host.savedHeight, BlockHeight)
    BY <1>1, NeedsExecutionDecides DEF HeightInv, HeightsByPhase
  <2> QED
    BY <1>1, <2>1 DEF HeightInv, HeightsByPhase, StoresInStep, Executing, Replaying,
       ExecutionPhases, QueueName, Labels, BlockHeight, NextHeight
<1>2. CASE store.height = height
  <2>1. /\ NeedsExecution(host.savedHeight, BlockHeight)
        /\ ~AlreadyExecuted(host.savedHeight, BlockHeight)
        /\ host.savedBeginHeight # BlockHeight
    BY <1>2, NeedsExecutionDecides, BlockHeightAdvances DEF HeightInv, HeightsByPhase
  <2>2. /\ host' = [host EXCEPT !.savedBeginHeight = BlockHeight]
        /\ work' = [work EXCEPT !.beginHeight = BlockHeight]
        /\ pc' = "deliver"
    BY <2>1
  <2> QED
    BY <1>2, <2>2 DEF HeightInv, HeightsByPhase, StoresInStep, Executing, Replaying,
       StoreFields, HostFields, ExecutionPhases, QueueName, Labels, BlockHeight, NextHeight
<1> QED
  BY <1>1, <1>2 DEF HeightInv, StoresInStep

(* A replayed END_BLOCK goes on to COMMIT_BLOCK or decoheres for another   *)
(* reason than the heights. *)
LEMMA ReplayKeepsHeights == ASSUME HeightInv, EndBlockReplay PROVE HeightInv'
<1>1. Replaying
  BY NeedsExecutionDecides DEF EndBlockReplay, HeightInv, HeightsByPhase, Executing
<1>2. PICK same \in BOOLEAN :
        /\ same => pc' = "commit" /\ host' = host
        /\ ~same => pc' = "panic" /\ host' = [host EXCEPT !.decohered = "replay"]
  BY DEF EndBlockReplay, Decohere, GoTo
<1>3. UNCHANGED <<height, store, work>>
  BY DEF EndBlockReplay
<1> QED
  BY <1>1, <1>2, <1>3 DEF HeightInv, HeightsByPhase, StoresInStep, Replaying,
     HostFields, ExecutionPhases, QueueName, Labels, BlockHeight, NextHeight

(* END_BLOCK of a block to execute finds the height BEGIN_BLOCK saved. *)
LEMMA EndKeepsHeights == ASSUME HeightInv, EndBlockStart PROVE HeightInv'
<1>1. Executing
  BY NeedsExecutionDecides DEF EndBlockStart, HeightInv, HeightsByPhase, Replaying
<1>2. /\ NeedsExecution(host.savedHeight, BlockHeight)
      /\ BlockHeight = host.savedBeginHeight
  BY <1>1, NeedsExecutionDecides DEF HeightInv, Executing
<1>3. PICK sends : host' = [host EXCEPT !.sends = sends]
  BY <1>2 DEF EndBlockStart
<1>4. pc' = "leftover" /\ UNCHANGED <<height, store, work>>
  BY <1>2 DEF EndBlockStart, GoTo
<1> QED
  BY <1>1, <1>3, <1>4 DEF HeightInv, HeightsByPhase, StoresInStep, Executing,
     HostFields, ExecutionPhases, QueueName, Labels, BlockHeight, NextHeight

(* The phases of processBlockActions leave the heights alone. *)
LEMMA PhasesKeepHeights ==
  ASSUME HeightInv,
         \/ RunLeftover \/ RunForced \/ RunTimer \/ RunCleanup
         \/ \E q \in QueueName : ProcessAction(q) \/ QueueDone(q)
  PROVE  HeightInv'
<1> USE DEF HeightInv, StoreFields, HostFields, SameHeights, ExecutionPhases, QueueName, GoTo
<1>1. CASE RunLeftover
  <2>1. SameHeights BY <1>1 DEF RunLeftover, Become
  <2>2. pc \in ExecutionPhases /\ pc' \in ExecutionPhases BY <1>1 DEF RunLeftover
  <2> QED BY <2>1, <2>2, ExecutionKeepsHeights
<1>2. CASE RunForced
  <2>1. SameHeights BY <1>2 DEF RunForced
  <2>2. pc \in ExecutionPhases /\ pc' \in ExecutionPhases BY <1>2 DEF RunForced
  <2> QED BY <2>1, <2>2, ExecutionKeepsHeights
<1>3. CASE RunTimer
  <2>1. SameHeights BY <1>3 DEF RunTimer, Become
  <2>2. pc \in ExecutionPhases /\ pc' \in ExecutionPhases BY <1>3 DEF RunTimer
  <2> QED BY <2>1, <2>2, ExecutionKeepsHeights
<1>4. CASE RunCleanup
  <2>1. SameHeights BY <1>4 DEF RunCleanup
  <2>2. pc \in ExecutionPhases /\ pc' \in ExecutionPhases BY <1>4 DEF RunCleanup
  <2> QED BY <2>1, <2>2, ExecutionKeepsHeights
<1>5. ASSUME NEW q \in QueueName, ProcessAction(q) PROVE HeightInv'
  <2>1. SameHeights BY <1>5 DEF ProcessAction, Become
  <2>2. pc \in ExecutionPhases /\ pc' \in ExecutionPhases BY <1>5 DEF ProcessAction
  <2> QED BY <2>1, <2>2, ExecutionKeepsHeights
<1>6. ASSUME NEW q \in QueueName, QueueDone(q) PROVE HeightInv'
  <2>1. SameHeights BY <1>6 DEF QueueDone
  <2>2. pc \in ExecutionPhases /\ pc' \in ExecutionPhases BY <1>6 DEF QueueDone, AfterQueue
  <2> QED BY <2>1, <2>2, ExecutionKeepsHeights
<1> QED
  BY <1>1, <1>2, <1>3, <1>4, <1>5, <1>6

(* The two commits, in their order, keep the stores in step. *)
LEMMA CommitKeepsHeights ==
  ASSUME HeightInv, EndBlockFinish \/ CommitBlock \/ CosmosCommit
  PROVE  HeightInv'
<1> USE DEF HeightInv, HeightsByPhase, StoresInStep, GoTo, StoreFields, HostFields,
        ExecutionPhases, QueueName, Labels, Executing, Replaying
<1>1. CASE EndBlockFinish
  BY <1>1 DEF EndBlockFinish, BlockHeight, NextHeight
<1>2. CASE CommitBlock
  <2>1. CASE BlockHeight = host.savedHeight /\ host.runThisBlock = <<>>
    <3>1. /\ pc = "commit" /\ pc' = "cosmosCommit" /\ height' = height
          /\ DOMAIN store' = StoreFields /\ work' = store'
          /\ store'.height = host.savedHeight /\ store'.beginHeight = work.beginHeight
          /\ DOMAIN host' = HostFields /\ host'.savedHeight = host.savedHeight
          /\ host'.savedBeginHeight = host.savedBeginHeight
          /\ host'.decohered = host.decohered
      BY <1>2, <2>1 DEF CommitBlock
    <3>2. /\ host.savedHeight = BlockHeight /\ host.savedBeginHeight = BlockHeight
          /\ work.beginHeight = BlockHeight /\ BlockHeight' = BlockHeight
      BY <3>1 DEF BlockHeight, NextHeight
    <3>3. HeightsByPhase' /\ StoresInStep'
      BY <3>1, <3>2
    <3> QED BY <3>1, <3>3
  <2>2. CASE ~(BlockHeight = host.savedHeight /\ host.runThisBlock = <<>>)
    BY <1>2, <2>2 DEF CommitBlock, BlockHeight, NextHeight
  <2> QED BY <2>1, <2>2
<1>3. CASE CosmosCommit
  <2>1. height' = BlockHeight /\ BlockHeight \in Nat
    BY <1>3, BlockHeightAdvances DEF CosmosCommit
  <2> QED
    BY <1>3, <2>1 DEF CosmosCommit
<1> QED
  BY <1>1, <1>2, <1>3

(* A crash, an upgrade halt and the transactions of a block. *)
LEMMA CrashKeepsHeights ==
  ASSUME HeightInv, Crash \/ HaltForUpgrade \/ DeliverTxs \/ AtTip
  PROVE  HeightInv'
<1> USE DEF HeightInv, HeightsByPhase, StoresInStep, GoTo, StoreFields, HostFields,
        ExecutionPhases, QueueName, Labels, Executing, Replaying, Stopped,
        BlockHeight, NextHeight
<1>1. CASE Crash BY <1>1 DEF Crash
<1>2. CASE HaltForUpgrade BY <1>2 DEF HaltForUpgrade
<1>3. CASE DeliverTxs BY <1>3 DEF DeliverTxs
<1>4. CASE AtTip BY <1>4 DEF AtTip, vars
<1> QED BY <1>1, <1>2, <1>3, <1>4

-----------------------------------------------------------------------------
(* The invariant is inductive. *)
LEMMA HeightInvInductive == ASSUME HeightInv, [Next]_vars PROVE HeightInv'
<1>1. CASE Step
  BY <1>1, LaunchKeepsHeights, FlushKeepsHeights, BeginKeepsHeights,
     ReplayKeepsHeights, EndKeepsHeights, PhasesKeepHeights, CommitKeepsHeights,
     CrashKeepsHeights DEF Step
<1>2. CASE Crash \/ AtTip
  BY <1>2, CrashKeepsHeights
<1>3. CASE UNCHANGED vars
  BY <1>3 DEF vars, HeightInv, HeightsByPhase, StoresInStep, Executing, Replaying,
     ExecutionPhases, Labels, BlockHeight, NextHeight
<1> QED
  BY <1>1, <1>2, <1>3 DEF Next

(* Whenever the node crashes, at whichever height the chain starts and     *)
(* whatever the limits are: the swing-store is at the height of cosmos or  *)
(* one block ahead, and blockNeedsExecution, BEGIN_BLOCK and END_BLOCK     *)
(* never find the heights inconsistent. *)
THEOREM StoresStayInStep == Spec => []StoresInStep
<1>1. HeightInv => StoresInStep
  BY DEF HeightInv
<1>2. HeightInv /\ [Next]_vars => HeightInv'
  BY HeightInvInductive
<1> QED
  BY HeightInvInit, <1>1, <1>2, PTL DEF Spec

-----------------------------------------------------------------------------
(* One block is a deterministic function of the committed stores and of    *)
(* its transactions.  Here the block is followed apart from downcalls and  *)
(* from the time at which export data is flushed.                          *)

TxIds == UNION {Txs[q] : q \in QueueName}
Pushable(q) == [kind : {q}, id : TxIds]
ActionSet ==
  [kind : QueueName, id : TxIds]
    \cup [kind : {"core", "events", "bootstrap", "timer"}, id : Nat]
CrankSet == [action : ActionSet, crank : Nat]

CosmosState ==
  {c \in [pushed : [QueueName -> Seq(ActionSet)], head : [QueueName -> Nat],
          out : Seq(CrankSet), exported : SUBSET CrankSet] :
     \A q \in QueueName : c.pushed[q] \in Seq(Pushable(q)) /\ c.head[q] <= Len(c.pushed[q])}

KernelState ==
  [given : Seq(ActionSet), runQueue : Seq(CrankSet), woken : SUBSET Wakeups, dead : Nat]

(* A block under way: the exported data includes what is not flushed yet,  *)
(* and "run" is what is left of the forced actions.                        *)
RunState ==
  [pc : ExecutionPhases, deliver : CosmosState, kernel : KernelState, beans : Nat,
   neverStop : BOOLEAN, run : Seq(ActionSet)]

Should(x) == x.neverStop \/ x.beans < BlockComputeLimit

(* Forced actions go before all others, in a block without a limit. *)
BlockState ==
  {x \in RunState :
     /\ x.pc \notin {"cleanup", "finish"} => Should(x)
     /\ x.pc = "forced" => x.run # <<>>
     /\ x.run # <<>> => x.neverStop
     /\ x.pc \notin {"leftover", "forced"} => x.run = <<>>}

Taken(x) ==
  IF x.neverStop \/ Len(x.kernel.runQueue) < BlockComputeLimit - x.beans
  THEN Len(x.kernel.runQueue)
  ELSE BlockComputeLimit - x.beans
Run(x) ==
  LET n == Taken(x)
      ran == SubSeq(x.kernel.runQueue, 1, n)
  IN [x EXCEPT !.kernel.runQueue = SubSeq(@, n + 1, Len(@)), !.beans = @ + n,
               !.deliver.out = @ \o ran, !.deliver.exported = @ \cup ToSet(ran)]

At(x, label) == [x EXCEPT !.pc = label]
Ask(x, action) == [x EXCEPT !.kernel = PerformAction(@, action)]
Take(x, q) ==
  LET i == x.deliver.head[q] + 1
  IN Ask([x EXCEPT !.deliver.head[q] = i], x.deliver.pushed[q][i])

DueOf(x, h) == {w \in Wakeups \ x.kernel.woken : w <= h}
TimerCranks(due) == [i \in 1..Len(due) |-> [action |-> Action("timer", due[i]), crank |-> 1]]
Poll(x, h) ==
  [x EXCEPT !.kernel.woken = @ \cup DueOf(x, h),
            !.kernel.runQueue = @ \o TimerCranks(InOrder(DueOf(x, h)))]

Forget(x) ==
  [x EXCEPT !.kernel.dead = IF x.beans # 0 THEN @
                            ELSE IF @ < CleanupBudget THEN 0 ELSE @ - CleanupBudget]

(* The phase that follows, and what it leads to. *)
Phase(x, h) ==
  CASE x.pc = "leftover" ->
         LET y == Run(x)
         IN At(y, IF ~Should(y) THEN "finish" ELSE IF x.run # <<>> THEN "forced" ELSE "priority")
    [] x.pc = "forced" ->
         LET y == Run(Ask(x, Head(x.run)))
         IN [At(y, IF Should(y) /\ Len(x.run) > 1 THEN "forced" ELSE "finish")
               EXCEPT !.run = Tail(@)]
    [] x.pc \in QueueName ->
         IF x.deliver.head[x.pc] < Len(x.deliver.pushed[x.pc])
         THEN LET y == Run(Take(x, x.pc))
              IN At(y, IF Should(y) THEN x.pc
                       ELSE IF x.pc = "priority" THEN "finish" ELSE "cleanup")
         ELSE At(x, AfterQueue(x.pc))
    [] x.pc = "timer" ->
         LET y == Run(Poll(x, h))
         IN At(y, IF Should(y) THEN "inbound" ELSE "finish")
    [] x.pc = "cleanup" -> At(Forget(x), "finish")
    [] x.pc = "finish" -> x

(* A sequence is cut in two. *)
LEMMA Cut ==
  ASSUME NEW S, NEW s \in Seq(S), NEW n \in 0..Len(s)
  PROVE  LET front == SubSeq(s, 1, n)
             back == SubSeq(s, n + 1, Len(s))
         IN /\ front \in Seq(S) /\ Len(front) = n
            /\ \A i \in 1..n : front[i] = s[i]
            /\ back \in Seq(S) /\ Len(back) = Len(s) - n
            /\ \A i \in 1..Len(s) - n : back[i] = s[n + i]
            /\ front \o back = s
            /\ ToSet(front) \subseteq S
<1> DEFINE front == SubSeq(s, 1, n)
           back == SubSeq(s, n + 1, Len(s))
<1>1. Len(s) \in Nat /\ n \in Nat /\ n <= Len(s) /\ \A i \in 1..Len(s) : s[i] \in S
  OBVIOUS
<1>2. /\ front \in Seq(S) /\ Len(front) = n
      /\ \A i \in 1..n : front[i] = s[i]
  BY <1>1, SubSeqProperties
<1>3. /\ back \in Seq(S) /\ Len(back) = Len(s) - n
      /\ \A i \in 1..Len(s) - n : back[i] = s[n + i]
  <2>1. \A i \in n + 1..Len(s) : s[i] \in S
    BY <1>1
  <2>2. n + 1 \in Int /\ Len(s) \in Int
    BY <1>1
  <2>3. /\ back \in Seq(S)
        /\ Len(back) = IF n + 1 <= Len(s) THEN Len(s) - (n + 1) + 1 ELSE 0
        /\ \A i \in 1..Len(s) - (n + 1) + 1 : back[i] = s[n + 1 + i - 1]
    BY <2>1, <2>2, SubSeqProperties
  <2> HIDE DEF back
  <2> QED
    BY <1>1, <2>3
<1> HIDE DEF front, back
<1>4. front \o back = s
  <2>1. /\ front \o back \in Seq(S) /\ Len(front \o back) = Len(front) + Len(back)
        /\ \A i \in 1..Len(front) + Len(back) : (front \o back)[i] =
             IF i <= Len(front) THEN front[i] ELSE back[i - Len(front)]
    BY <1>2, <1>3, ConcatProperties
  <2>2. Len(front \o back) = Len(s)
    BY <1>1, <1>2, <1>3, <2>1
  <2>3. \A i \in 1..Len(s) : (front \o back)[i] = s[i]
    <3>1. ASSUME NEW i \in 1..Len(s)
          PROVE  (front \o back)[i] = s[i]
      <4>1. CASE i <= n
        BY <1>1, <1>2, <1>3, <2>1, <4>1
      <4>2. CASE i > n
        <5>1. i - n \in 1..Len(s) - n /\ n + (i - n) = i
          BY <1>1, <4>2
        <5>2. back[i - n] = s[n + (i - n)]
          BY <1>3, <5>1
        <5> QED
          BY <1>1, <1>2, <1>3, <2>1, <4>2, <5>1, <5>2
      <4>3. i <= n \/ i > n
        BY <1>1
      <4> QED
        BY <4>1, <4>2, <4>3
    <3> QED
      BY <3>1
  <2> QED
    BY <2>1, <2>2, <2>3, SeqEqual
<1>5. ToSet(front) \subseteq S
  BY <1>2 DEF ToSet
<1> QED
  BY <1>2, <1>3, <1>4, <1>5 DEF front, back

LEMMA PolicyType ==
  /\ BlockComputeLimit \in Nat /\ BlockComputeLimit # 0
  /\ CleanupBudget \in Nat /\ DeadVatWork \in Nat
BY PolicyAssumption

(* The cranks that run are the first of the run-queue. *)
Ran(x, y, n) ==
  LET ran == SubSeq(x.kernel.runQueue, 1, n)
  IN /\ n \in 0..Len(x.kernel.runQueue)
     /\ x.neverStop => n = Len(x.kernel.runQueue)
     /\ ran \in Seq(CrankSet)
     /\ y.kernel = [x.kernel EXCEPT !.runQueue =
                      SubSeq(x.kernel.runQueue, n + 1, Len(x.kernel.runQueue))]
     /\ y.deliver = [x.deliver EXCEPT !.out = @ \o ran, !.exported = @ \cup ToSet(ran)]
     /\ y.pc = x.pc /\ y.neverStop = x.neverStop /\ y.run = x.run

LEMMA RunRuns ==
  ASSUME NEW x \in RunState, Should(x)
  PROVE  Run(x) \in RunState /\ Ran(x, Run(x), Taken(x))
<1> DEFINE q == x.kernel.runQueue
           n == Taken(x)
           ran == SubSeq(q, 1, n)
           rest == SubSeq(q, n + 1, Len(q))
           kl == [x.kernel EXCEPT !.runQueue = rest]
           c == [x.deliver EXCEPT !.out = @ \o ran, !.exported = @ \cup ToSet(ran)]
           y == [x EXCEPT !.kernel = kl, !.beans = @ + n, !.deliver = c]
<1>1. q \in Seq(CrankSet) /\ Len(q) \in Nat /\ x.beans \in Nat
  BY DEF RunState, KernelState
<1>2. n \in 0..Len(q) /\ (x.neverStop => n = Len(q))
  BY <1>1, PolicyType DEF Should, Taken
<1>3. Run(x) = y
  BY DEF Run, RunState
<1> HIDE DEF q, n
<1>4. ran \in Seq(CrankSet) /\ rest \in Seq(CrankSet) /\ ToSet(ran) \subseteq CrankSet
  BY <1>1, <1>2, Cut
<1> HIDE DEF ran, rest
<1>5. kl \in KernelState
  BY <1>4 DEF RunState, KernelState
<1>6. c \in CosmosState
  <2>1. x.deliver.out \o ran \in Seq(CrankSet)
    BY <1>4, ConcatProperties DEF RunState, CosmosState
  <2> QED
    BY <1>4, <2>1 DEF RunState, CosmosState
<1> HIDE DEF kl, c
<1>7. y \in RunState
  <2>1. x.beans + n \in Nat
    BY <1>1, <1>2
  <2> QED
    BY <1>5, <1>6, <2>1 DEF RunState
<1>8. /\ y.kernel = kl /\ y.deliver = c /\ y.pc = x.pc /\ y.neverStop = x.neverStop
      /\ y.run = x.run
  BY DEF RunState
<1> HIDE DEF y
<1> QED
  BY <1>2, <1>3, <1>4, <1>7, <1>8 DEF Ran, kl, c, q, n, ran, rest

LEMMA SmallestMember ==
  ASSUME NEW T \in SUBSET Nat, T # {}
  PROVE  \E m \in T : \A n \in T : m <= n
<1> DEFINE R == StrictSubsetOrdering(Nat)
           S == FiniteSubsetsOf(Nat)
           U == {1..n : n \in T}
<1>1. IsWellFoundedOn(R, S)
  BY FS_StrictSubsetOrderingWellFounded
<1>2. U \subseteq S /\ U # {}
  <2>1. ASSUME NEW n \in T
        PROVE  1..n \in S
    <3>1. IsFiniteSet(1..n)
      BY FS_Interval
    <3>2. 1..n \in SUBSET Nat
      OBVIOUS
    <3> QED
      BY <3>1, <3>2 DEF FiniteSubsetsOf
  <2> HIDE DEF S
  <2> QED
    BY <2>1
<1>3. PICK x \in U : \A y \in U : <<y, x>> \notin R
  <2> HIDE DEF R, S, U
  <2> QED
    BY <1>1, <1>2, WFMin
<1>4. PICK m \in T : x = 1..m
  OBVIOUS
<1>5. ASSUME NEW n \in T, n < m
      PROVE  FALSE
  <2>1. 1..n \in U /\ 1..n \subseteq 1..m /\ m \in 1..m /\ m \notin 1..n
    BY <1>5
  <2>2. 1..n \in SUBSET Nat /\ 1..m \in SUBSET Nat
    OBVIOUS
  <2>3. <<1..n, 1..m>> \in R
    BY <2>1, <2>2 DEF StrictSubsetOrdering
  <2> QED
    BY <1>3, <1>4, <2>1, <2>3
<1> QED
  BY <1>5

(* Due wakeups are polled in the order of their times, each once. *)
Increasing(s) == \A i, j \in DOMAIN s : i < j => s[i] < s[j]

LEMMA OrderExists ==
  ASSUME NEW S \in SUBSET Nat, IsFiniteSet(S)
  PROVE  \E s \in [1..Cardinality(S) -> S] : Increasing(s)
<1> DEFINE Ordered(T) == \E s \in [1..Cardinality(T) -> T] : Increasing(s)
           Bad == {n \in Nat : \E T \in SUBSET Nat : IsFiniteSet(T) /\ Cardinality(T) = n
                                                     /\ ~Ordered(T)}
<1>1. SUFFICES Bad = {}
  <2>1. Cardinality(S) \in Nat
    BY FS_CardinalityType
  <2> QED
    BY <1>1, <2>1
<1>2. SUFFICES ASSUME Bad # {}
               PROVE  FALSE
  OBVIOUS
<1>3. PICK n \in Bad : \A m \in Bad : n <= m
  <2>1. Bad \in SUBSET Nat
    OBVIOUS
  <2> HIDE DEF Bad
  <2> QED
    BY <1>2, <2>1, SmallestMember
<1>4. PICK T \in SUBSET Nat : IsFiniteSet(T) /\ Cardinality(T) = n /\ ~Ordered(T)
  BY <1>3
<1>5. n \in Nat
  BY <1>3
<1>6. T # {}
  <2>1. SUFFICES ASSUME T = {}
                 PROVE  FALSE
    OBVIOUS
  <2>2. Cardinality(T) = 0
    BY <2>1, FS_EmptySet
  <2> DEFINE s == [i \in 1..0 |-> 0]
  <2>3. s \in [1..0 -> T] /\ Increasing(s)
    BY <2>1 DEF Increasing
  <2> HIDE DEF s
  <2>4. Ordered(T)
    BY <2>2, <2>3
  <2> QED
    BY <1>4, <2>4
<1>7. PICK m \in T : \A t \in T : m <= t
  BY <1>6, SmallestMember
<1> DEFINE U == T \ {m}
<1>8. /\ U \in SUBSET Nat /\ IsFiniteSet(U) /\ Cardinality(U) = n - 1
  BY <1>4, <1>7, FS_RemoveElement
<1>9. n - 1 \in Nat
  BY <1>8, FS_CardinalityType
<1>10. n - 1 \notin Bad
  BY <1>3, <1>5, <1>9
<1>11. Ordered(U)
  BY <1>8, <1>9, <1>10
<1>12. PICK s \in [1..n - 1 -> U] : Increasing(s)
  BY <1>8, <1>11
<1> DEFINE t == [i \in 1..n |-> IF i = 1 THEN m ELSE s[i - 1]]
<1> HIDE DEF Ordered, Bad
<1>13. ASSUME NEW i \in 1..n, i # 1
       PROVE  i - 1 \in 1..n - 1 /\ s[i - 1] \in T /\ m < s[i - 1]
  <2>1. i - 1 \in 1..n - 1
    BY <1>5, <1>13
  <2>2. s[i - 1] \in U
    BY <1>12, <2>1
  <2>3. s[i - 1] \in T /\ s[i - 1] # m /\ s[i - 1] \in Nat /\ m \in Nat
    BY <1>7, <2>2
  <2>4. m <= s[i - 1]
    BY <1>7, <2>3
  <2> QED
    BY <2>1, <2>3, <2>4
<1>14. t \in [1..n -> T]
  BY <1>7, <1>13
<1>15. ASSUME NEW i \in 1..n, NEW j \in 1..n, i < j
       PROVE  t[i] < t[j]
  <2>1. j # 1 /\ t[j] = s[j - 1]
    BY <1>5, <1>15
  <2>2. CASE i = 1
    BY <1>13, <2>1, <2>2
  <2>3. CASE i # 1
    <3>1. /\ i - 1 \in DOMAIN s /\ j - 1 \in DOMAIN s /\ i - 1 < j - 1
          /\ t[i] = s[i - 1]
      BY <1>5, <1>12, <1>13, <1>15, <2>1, <2>3
    <3> QED
      BY <1>12, <2>1, <3>1 DEF Increasing
  <2> QED
    BY <2>2, <2>3
<1>16. Increasing(t)
  <2>1. DOMAIN t = 1..n
    OBVIOUS
  <2> HIDE DEF t
  <2> QED
    BY <1>15, <2>1 DEF Increasing
<1>17. Ordered(T)
  <2> HIDE DEF t
  <2> QED
    BY <1>4, <1>14, <1>16 DEF Ordered
<1> QED
  BY <1>4, <1>17

LEMMA InOrderOrders ==
  ASSUME NEW S \in SUBSET Nat, IsFiniteSet(S)
  PROVE  /\ InOrder(S) \in Seq(S) /\ Len(InOrder(S)) = Cardinality(S)
         /\ ToSet(InOrder(S)) = S /\ IsInjective(InOrder(S))
<1> DEFINE n == Cardinality(S)
           s == InOrder(S)
<1>1. n \in Nat
  BY FS_CardinalityType
<1>2. s \in [1..n -> S] /\ Increasing(s)
  BY OrderExists DEF InOrder, Increasing
<1> HIDE DEF s
<1>3. s \in Seq(S) /\ Len(s) = n /\ DOMAIN s = 1..n
  BY <1>1, <1>2
<1>4. \A i, j \in 1..n : s[i] = s[j] => i = j
  <2>1. SUFFICES ASSUME NEW i \in 1..n, NEW j \in 1..n, s[i] = s[j], i # j
                 PROVE  FALSE
    OBVIOUS
  <2>2. s[i] \in Nat /\ s[j] \in Nat
    BY <1>2
  <2>3. i < j \/ j < i
    BY <1>1, <2>1
  <2>4. s[i] < s[j] \/ s[j] < s[i]
    BY <1>2, <1>3, <2>3 DEF Increasing
  <2> QED
    BY <2>1, <2>2, <2>4
<1>5. s \in Injection(1..n, S)
  BY <1>2, <1>4, Fun_IsInj
<1>6. Cardinality(1..n) = Cardinality(S)
  BY <1>1, FS_Interval
<1>7. s \in Surjection(1..n, S)
  BY <1>5, <1>6, FS_Injection
<1>8. \A w \in S : \E i \in 1..n : s[i] = w
  BY <1>7 DEF Surjection
<1>9. ToSet(s) = S
  BY <1>2, <1>3, <1>8 DEF ToSet
<1>10. IsInjective(s)
  BY <1>3, <1>4 DEF IsInjective
<1> QED
  BY <1>3, <1>9, <1>10 DEF s

LEMMA CrankSeqIs ==
  ASSUME NEW a \in ActionSet
  PROVE  /\ CranksOf(a) \in Nat /\ CrankSeq(a) \in Seq(CrankSet)
         /\ Len(CrankSeq(a)) = CranksOf(a)
         /\ \A i \in 1..CranksOf(a) : CrankSeq(a)[i] = [action |-> a, crank |-> i]
<1>1. CranksOf(a) \in Nat
  BY CranksAssumption DEF CranksOf, ActionSet, TxIds, QueueName
<1>2. \A i \in 1..CranksOf(a) : [action |-> a, crank |-> i] \in CrankSet
  BY <1>1 DEF CrankSet
<1> QED
  BY <1>1, <1>2 DEF CrankSeq

(* The kernel gets an action and the cranks it takes. *)
Asked(x, y, a) ==
  /\ y.kernel.given = Append(x.kernel.given, a)
  /\ y.kernel.runQueue = x.kernel.runQueue \o CrankSeq(a)
  /\ y.kernel.woken = x.kernel.woken
  /\ y.deliver = x.deliver /\ y.pc = x.pc /\ y.beans = x.beans
  /\ y.neverStop = x.neverStop /\ y.run = x.run

LEMMA AskAsks ==
  ASSUME NEW x \in RunState, NEW a \in ActionSet
  PROVE  Ask(x, a) \in RunState /\ Asked(x, Ask(x, a), a)
<1> DEFINE queue == x.kernel.runQueue \o CrankSeq(a)
           given == Append(x.kernel.given, a)
           kl == [x.kernel EXCEPT !.given = given, !.runQueue = queue]
           y == [x EXCEPT !.kernel = kl]
<1>1. queue \in Seq(CrankSet) /\ given \in Seq(ActionSet)
  BY CrankSeqIs, ConcatProperties DEF RunState, KernelState
<1>2. y = Ask(x, a)
  BY DEF Ask, PerformAction, RunState, KernelState
<1> HIDE DEF queue, given
<1>3. /\ kl \in KernelState /\ kl.given = given /\ kl.runQueue = queue
      /\ kl.woken = x.kernel.woken
  BY <1>1 DEF RunState, KernelState
<1> HIDE DEF kl
<1>4. /\ y \in RunState /\ y.kernel = kl /\ y.deliver = x.deliver /\ y.pc = x.pc
      /\ y.beans = x.beans /\ y.neverStop = x.neverStop /\ y.run = x.run
  BY <1>3 DEF RunState
<1> HIDE DEF y
<1> QED
  BY <1>2, <1>3, <1>4 DEF Asked, queue, given

(* The next action of a queue is taken off it. *)
LEMMA TakeTakes ==
  ASSUME NEW x \in RunState, NEW q \in QueueName,
         x.deliver.head[q] < Len(x.deliver.pushed[q]),
         NEW a, a = x.deliver.pushed[q][x.deliver.head[q] + 1],
         NEW c, c = [x.deliver EXCEPT !.head[q] = @ + 1]
  PROVE  /\ a \in Pushable(q) /\ a \in ActionSet /\ c \in CosmosState
         /\ Take(x, q) \in RunState
         /\ Asked([x EXCEPT !.deliver = c], Take(x, q), a)
<1> DEFINE i == x.deliver.head[q] + 1
           y == [x EXCEPT !.deliver = c]
<1>1. /\ x.deliver \in CosmosState /\ i \in Nat /\ i \in 1..Len(x.deliver.pushed[q])
      /\ x.deliver.pushed[q] \in Seq(Pushable(q))
  BY DEF RunState, CosmosState
<1>2. a \in Pushable(q)
  BY <1>1, ElementOfSeq
<1>3. a \in ActionSet
  BY <1>2 DEF Pushable, ActionSet
<1>4. c \in CosmosState
  <2> DEFINE head == [x.deliver.head EXCEPT ![q] = i]
  <2>1. c = [x.deliver EXCEPT !.head = head]
    BY DEF RunState, CosmosState
  <2>2. head \in [QueueName -> Nat] /\ \A r \in QueueName : head[r] <= Len(x.deliver.pushed[r])
    BY <1>1 DEF CosmosState
  <2> HIDE DEF head
  <2> QED
    BY <1>1, <2>1, <2>2 DEF CosmosState
<1>5. Take(x, q) = Ask(y, a)
  BY DEF Take, RunState, CosmosState
<1>6. y \in RunState
  BY <1>4 DEF RunState
<1> HIDE DEF y
<1>7. Ask(y, a) \in RunState /\ Asked(y, Ask(y, a), a)
  BY <1>3, <1>6, AskAsks
<1> QED
  BY <1>2, <1>3, <1>4, <1>5, <1>7 DEF y

LEMMA TimerCranksAre ==
  ASSUME NEW S \in SUBSET Nat, IsFiniteSet(S), NEW t, t = TimerCranks(InOrder(S))
  PROVE  /\ t \in Seq(CrankSet) /\ Len(t) = Len(InOrder(S)) /\ Len(t) \in Nat
         /\ \A i \in 1..Len(t) :
              t[i] = [action |-> Action("timer", InOrder(S)[i]), crank |-> 1]
<1>1. InOrder(S) \in Seq(Nat)
  BY InOrderOrders, SeqMonotonic
<1>2. \A i \in 1..Len(InOrder(S)) :
        [action |-> Action("timer", InOrder(S)[i]), crank |-> 1] \in CrankSet
  BY <1>1 DEF CrankSet, ActionSet, Action
<1> QED
  BY <1>1, <1>2 DEF TimerCranks

Polled(x, y, h) ==
  /\ y.kernel.given = x.kernel.given
  /\ y.kernel.woken = x.kernel.woken \cup DueOf(x, h)
  /\ y.kernel.runQueue = x.kernel.runQueue \o TimerCranks(InOrder(DueOf(x, h)))
  /\ y.deliver = x.deliver /\ y.pc = x.pc /\ y.beans = x.beans
  /\ y.neverStop = x.neverStop /\ y.run = x.run

LEMMA DueAreTimes ==
  ASSUME NEW x, NEW h
  PROVE  DueOf(x, h) \in SUBSET Nat /\ IsFiniteSet(DueOf(x, h)) /\ DueOf(x, h) \subseteq Wakeups
<1>1. DueOf(x, h) \in SUBSET Wakeups
  BY DEF DueOf
<1> QED
  BY <1>1, WakeupsAssumption, FS_Subset

LEMMA PollPolls ==
  ASSUME NEW x \in RunState, NEW h
  PROVE  Poll(x, h) \in RunState /\ Polled(x, Poll(x, h), h)
<1> DEFINE due == DueOf(x, h)
           t == TimerCranks(InOrder(due))
           queue == x.kernel.runQueue \o t
           woken == x.kernel.woken \cup due
           kl == [x.kernel EXCEPT !.woken = woken, !.runQueue = queue]
           y == [x EXCEPT !.kernel = kl]
<1>1. due \subseteq Wakeups /\ due \in SUBSET Nat /\ IsFiniteSet(due)
  BY DueAreTimes
<1>2. y = Poll(x, h)
  BY DEF Poll, RunState, KernelState
<1> HIDE DEF due
<1>3. t \in Seq(CrankSet)
  BY <1>1, TimerCranksAre
<1> HIDE DEF t
<1>4. queue \in Seq(CrankSet) /\ woken \in SUBSET Wakeups
  BY <1>1, <1>3, ConcatProperties DEF RunState, KernelState
<1> HIDE DEF queue, woken
<1>5. /\ kl \in KernelState /\ kl.given = x.kernel.given /\ kl.runQueue = queue
      /\ kl.woken = woken
  BY <1>4 DEF RunState, KernelState
<1> HIDE DEF kl
<1>6. /\ y \in RunState /\ y.kernel = kl /\ y.deliver = x.deliver /\ y.pc = x.pc
      /\ y.beans = x.beans /\ y.neverStop = x.neverStop /\ y.run = x.run
  BY <1>5 DEF RunState
<1> HIDE DEF y
<1> QED
  BY <1>2, <1>5, <1>6 DEF Polled, queue, woken, t, due

LEMMA AtType ==
  ASSUME NEW x \in RunState, NEW label \in ExecutionPhases
  PROVE  /\ At(x, label) \in RunState /\ At(x, label).pc = label
         /\ At(x, label).deliver = x.deliver /\ At(x, label).kernel = x.kernel
         /\ At(x, label).beans = x.beans /\ At(x, label).neverStop = x.neverStop
         /\ At(x, label).run = x.run
BY DEF At, RunState

LEMMA HeadTailOf ==
  ASSUME NEW x \in RunState, x.run # <<>>
  PROVE  /\ Head(x.run) \in ActionSet /\ Tail(x.run) \in Seq(ActionSet)
         /\ Len(x.run) \in Nat /\ (Len(x.run) > 1 <=> Tail(x.run) # <<>>)
<1>1. x.run \in Seq(ActionSet)
  BY DEF RunState
<1>2. /\ Head(x.run) \in ActionSet /\ Tail(x.run) \in Seq(ActionSet)
      /\ Len(Tail(x.run)) = Len(x.run) - 1
  BY <1>1, HeadTailProperties
<1>3. Len(x.run) \in Nat /\ Len(x.run) # 0
  BY <1>1, EmptySeq, LenProperties
<1>4. Tail(x.run) # <<>> <=> Len(Tail(x.run)) # 0
  BY <1>2, EmptySeq, LenProperties
<1> DEFINE n == Len(x.run)
           m == Len(Tail(x.run))
<1>5. n \in Nat /\ n # 0 /\ m = n - 1
  BY <1>2, <1>3
<1> HIDE DEF n, m
<1>6. n > 1 <=> m # 0
  BY <1>5
<1> QED
  BY <1>2, <1>3, <1>4, <1>6 DEF n, m

LEMMA LeftoverPhase ==
  ASSUME NEW x \in BlockState, NEW h, x.pc = "leftover"
  PROVE  /\ Phase(x, h) \in BlockState /\ Ran(x, At(Phase(x, h), x.pc), Taken(x))
         /\ Phase(x, h).pc = "finish" => x.run = <<>>
<1> DEFINE y == Run(x)
           label == IF ~Should(y) THEN "finish" ELSE IF x.run # <<>> THEN "forced" ELSE "priority"
<1>1. y \in RunState /\ Ran(x, y, Taken(x))
  BY RunRuns DEF BlockState
<1>2. Phase(x, h) = At(y, label)
  BY DEF Phase, QueueName
<1>3. label \in ExecutionPhases
  BY DEF ExecutionPhases, QueueName
<1>4. y.neverStop = x.neverStop /\ y.run = x.run /\ y.pc = x.pc
  BY <1>1 DEF Ran
<1>5. x.run # <<>> => Should(y)
  BY <1>4 DEF Should, BlockState
<1> HIDE DEF y
<1>6. At(At(y, label), x.pc) = y
  BY <1>1, <1>4 DEF At, RunState
<1>7. At(y, label) \in BlockState
  BY <1>1, <1>3, <1>4, <1>5, AtType DEF BlockState, Should, QueueName
<1> QED
  BY <1>1, <1>2, <1>3, <1>4, <1>5, <1>6, <1>7, AtType

LEMMA ForcedPhase ==
  ASSUME NEW x \in BlockState, NEW h, x.pc = "forced"
  PROVE  /\ Phase(x, h) \in BlockState
         /\ \E z \in RunState, y \in RunState :
              /\ Asked(x, z, Head(x.run)) /\ Ran(z, y, Taken(z)) /\ x.neverStop
              /\ Phase(x, h).deliver = y.deliver /\ Phase(x, h).kernel = y.kernel
              /\ Phase(x, h).run = Tail(x.run)
<1> DEFINE z == Ask(x, Head(x.run))
           y == Run(z)
           label == IF Should(y) /\ Len(x.run) > 1 THEN "forced" ELSE "finish"
           next == [At(y, label) EXCEPT !.run = Tail(@)]
<1>1. x \in RunState /\ x.run # <<>> /\ x.neverStop
  BY DEF BlockState
<1>2. Head(x.run) \in ActionSet /\ Tail(x.run) \in Seq(ActionSet)
      /\ (Len(x.run) > 1 <=> Tail(x.run) # <<>>)
  BY <1>1, HeadTailOf
<1>3. z \in RunState /\ Asked(x, z, Head(x.run))
  BY <1>1, <1>2, AskAsks
<1>4. Phase(x, h) = next
  BY DEF Phase, QueueName
<1> HIDE DEF z
<1>5. z.neverStop /\ z.run = x.run /\ Should(z)
  BY <1>1, <1>3 DEF Asked, Should
<1>6. y \in RunState /\ Ran(z, y, Taken(z))
  BY <1>3, <1>5, RunRuns
<1> HIDE DEF y
<1>7. y.neverStop /\ y.run = x.run /\ Should(y)
  BY <1>5, <1>6 DEF Ran, Should
<1>8. label \in ExecutionPhases /\ (label = "forced" <=> Len(x.run) > 1)
      /\ label \in {"forced", "finish"}
  BY <1>7 DEF ExecutionPhases
<1> HIDE DEF label
<1>9. /\ next \in RunState /\ next.pc = label /\ next.run = Tail(x.run)
      /\ next.deliver = y.deliver /\ next.kernel = y.kernel /\ next.neverStop = y.neverStop
  BY <1>2, <1>6, <1>7, <1>8 DEF At, RunState
<1> HIDE DEF next
<1>10. next \in BlockState
  BY <1>2, <1>7, <1>8, <1>9 DEF BlockState, Should
<1> QED
  BY <1>1, <1>3, <1>4, <1>6, <1>9, <1>10

\* The next state of x, if y was run and the block goes on at label.
LEMMA AfterRun ==
  ASSUME NEW y \in RunState, y.run = <<>>, NEW label \in ExecutionPhases,
         label \notin {"leftover", "forced"},
         label \notin {"cleanup", "finish"} => Should(y)
  PROVE  At(y, label) \in BlockState
BY AtType DEF BlockState, Should

LEMMA QueuePhase ==
  ASSUME NEW x \in BlockState, NEW h, x.pc \in QueueName,
         x.deliver.head[x.pc] < Len(x.deliver.pushed[x.pc])
  PROVE  /\ Phase(x, h) \in BlockState /\ Phase(x, h).run = <<>>
         /\ \E y \in RunState, z \in RunState,
               a \in Pushable(x.pc), c \in CosmosState :
              /\ a = x.deliver.pushed[x.pc][x.deliver.head[x.pc] + 1]
              /\ c = [x.deliver EXCEPT !.head[x.pc] = @ + 1]
              /\ Asked([x EXCEPT !.deliver = c], z, a) /\ Ran(z, y, Taken(z))
              /\ Phase(x, h).deliver = y.deliver /\ Phase(x, h).kernel = y.kernel
<1> DEFINE q == x.pc
           a == x.deliver.pushed[q][x.deliver.head[q] + 1]
           c == [x.deliver EXCEPT !.head[q] = @ + 1]
           z == Take(x, q)
           y == Run(z)
           label == IF Should(y) THEN q ELSE IF q = "priority" THEN "finish" ELSE "cleanup"
<1>1. x \in RunState /\ Should(x) /\ x.run = <<>>
  BY DEF BlockState, QueueName
<1>2. /\ a \in Pushable(q) /\ c \in CosmosState /\ z \in RunState
      /\ Asked([x EXCEPT !.deliver = c], z, a)
  BY <1>1, TakeTakes
<1>3. Phase(x, h) = At(y, label)
  BY DEF Phase, QueueName
<1> HIDE DEF z, c
<1>4. z.neverStop = x.neverStop /\ z.beans = x.beans /\ z.run = <<>>
  BY <1>1, <1>2 DEF Asked, RunState
<1>5. Should(z)
  BY <1>1, <1>4 DEF Should
<1>6. y \in RunState /\ Ran(z, y, Taken(z)) /\ y.run = <<>>
  BY <1>2, <1>4, <1>5, RunRuns DEF Ran
<1> HIDE DEF y
<1>7. label \in ExecutionPhases /\ label \notin {"leftover", "forced"}
      /\ (label \notin {"cleanup", "finish"} => Should(y))
  BY DEF ExecutionPhases, QueueName
<1> HIDE DEF label
<1>8. At(y, label) \in BlockState
  BY <1>6, <1>7, AfterRun
<1>9. At(y, label).run = <<>> /\ At(y, label).deliver = y.deliver
      /\ At(y, label).kernel = y.kernel
  BY <1>6, <1>7, AtType
<1> QED
  BY <1>2, <1>3, <1>6, <1>8, <1>9 DEF c

LEMMA TimerPhase ==
  ASSUME NEW x \in BlockState, NEW h, x.pc = "timer"
  PROVE  /\ Phase(x, h) \in BlockState /\ Phase(x, h).run = <<>>
         /\ \E z \in RunState, y \in RunState :
              /\ Polled(x, z, h) /\ Ran(z, y, Taken(z))
              /\ Phase(x, h).deliver = y.deliver /\ Phase(x, h).kernel = y.kernel
<1> DEFINE z == Poll(x, h)
           y == Run(z)
           label == IF Should(y) THEN "inbound" ELSE "finish"
<1>1. x \in RunState /\ Should(x) /\ x.run = <<>>
  BY DEF BlockState
<1>2. z \in RunState /\ Polled(x, z, h)
  BY <1>1, PollPolls
<1>3. Phase(x, h) = At(y, label)
  BY DEF Phase, QueueName
<1> HIDE DEF z
<1>4. z.neverStop = x.neverStop /\ z.beans = x.beans /\ z.run = <<>>
  BY <1>1, <1>2 DEF Polled
<1>5. Should(z)
  BY <1>1, <1>4 DEF Should
<1>6. y \in RunState /\ Ran(z, y, Taken(z)) /\ y.run = <<>>
  BY <1>2, <1>4, <1>5, RunRuns DEF Ran
<1> HIDE DEF y
<1>7. label \in ExecutionPhases /\ label \notin {"leftover", "forced"}
      /\ (label \notin {"cleanup", "finish"} => Should(y))
  BY DEF ExecutionPhases, QueueName
<1> HIDE DEF label
<1>8. At(y, label) \in BlockState
  BY <1>6, <1>7, AfterRun
<1>9. At(y, label).run = <<>> /\ At(y, label).deliver = y.deliver
      /\ At(y, label).kernel = y.kernel
  BY <1>6, <1>7, AtType
<1> QED
  BY <1>2, <1>3, <1>6, <1>8, <1>9

\* The other phases change neither the chain nor the run-queue.
LEMMA OtherPhase ==
  ASSUME NEW x \in BlockState, NEW h,
         \/ x.pc \in QueueName /\ x.deliver.head[x.pc] >= Len(x.deliver.pushed[x.pc])
         \/ x.pc \in {"cleanup", "finish"}
  PROVE  /\ Phase(x, h) \in BlockState /\ Phase(x, h).run = <<>>
         /\ Phase(x, h).deliver = x.deliver
         /\ Phase(x, h).kernel.given = x.kernel.given
         /\ Phase(x, h).kernel.runQueue = x.kernel.runQueue
         /\ Phase(x, h).kernel.woken = x.kernel.woken
<1>1. x \in RunState /\ x.run = <<>>
  BY DEF BlockState, QueueName
<1>2. CASE x.pc \in QueueName /\ x.deliver.head[x.pc] >= Len(x.deliver.pushed[x.pc])
  <2> DEFINE label == AfterQueue(x.pc)
  <2>1. ~(x.deliver.head[x.pc] < Len(x.deliver.pushed[x.pc]))
    BY <1>1, <1>2 DEF RunState, CosmosState
  <2>2. Phase(x, h) = At(x, label)
    BY <1>2, <2>1 DEF Phase, QueueName
  <2>3. label \in {"timer", "cleanup"} /\ label \in ExecutionPhases /\ Should(x)
    BY <1>2 DEF AfterQueue, ExecutionPhases, QueueName, BlockState
  <2> HIDE DEF label
  <2>4. At(x, label) \in BlockState
    BY <1>1, <2>3, AfterRun
  <2> QED
    BY <1>1, <2>2, <2>3, <2>4, AtType
<1>3. CASE x.pc = "cleanup"
  <2> DEFINE dead == IF x.beans # 0 THEN x.kernel.dead
                     ELSE IF x.kernel.dead < CleanupBudget THEN 0
                     ELSE x.kernel.dead - CleanupBudget
             kl == [x.kernel EXCEPT !.dead = dead]
             y == [x EXCEPT !.kernel = kl]
  <2>1. y = Forget(x)
    BY <1>1 DEF Forget, RunState, KernelState
  <2>2. dead \in Nat
    BY <1>1, PolicyType DEF RunState, KernelState
  <2> HIDE DEF dead
  <2>3. /\ kl \in KernelState /\ kl.given = x.kernel.given
        /\ kl.runQueue = x.kernel.runQueue /\ kl.woken = x.kernel.woken
    BY <1>1, <2>2 DEF RunState, KernelState
  <2> HIDE DEF kl
  <2>4. y \in RunState /\ y.kernel = kl /\ y.deliver = x.deliver /\ y.run = <<>>
    BY <1>1, <2>3 DEF RunState
  <2> HIDE DEF y
  <2>5. Phase(x, h) = At(y, "finish")
    BY <1>3, <2>1 DEF Phase, QueueName
  <2>6. "finish" \in ExecutionPhases
    BY DEF ExecutionPhases
  <2>7. At(y, "finish") \in BlockState
    BY <2>4, <2>6, AfterRun
  <2> QED
    BY <2>3, <2>4, <2>5, <2>6, <2>7, AtType
<1>4. CASE x.pc = "finish"
  BY <1>1, <1>4 DEF Phase, QueueName
<1> QED
  BY <1>2, <1>3, <1>4

LEMMA PhaseType ==
  ASSUME NEW x \in BlockState, NEW h
  PROVE  Phase(x, h) \in BlockState
<1>1. x.pc \in ExecutionPhases
  BY DEF BlockState, RunState
<1>2. CASE x.pc \in QueueName
  <2>1. x.deliver.head[x.pc] \in Nat /\ Len(x.deliver.pushed[x.pc]) \in Nat
    BY <1>2 DEF BlockState, RunState, CosmosState
  <2> QED
    BY <1>2, <2>1, QueuePhase, OtherPhase
<1> QED
  BY <1>1, <1>2, LeftoverPhase, ForcedPhase, TimerPhase, OtherPhase DEF ExecutionPhases

-----------------------------------------------------------------------------
(* The state of the node, and the block that it holds.                     *)

(* The cosmos state of a downcall; the queues may not be those of cosmos.   *)
CosmosRecord ==
  [pushed : [QueueName -> Seq(ActionSet)], head : [QueueName -> Nat],
   out : Seq(CrankSet), exported : SUBSET CrankSet]
SendSet ==
  [op : {"size", "take", "out", "export"},
   arg : QueueName \cup [q : QueueName, i : Nat] \cup CrankSet \cup SUBSET CrankSet,
   ret : Nat \cup SUBSET ActionSet, at : Nat]
HostState ==
  [savedHeight : Nat, savedBeginHeight : Nat, sends : Seq(SendSet),
   runThisBlock : Seq(ActionSet), pendingExport : SUBSET CrankSet, fresh : BOOLEAN,
   decohered : {"no", "reset", "began", "ended", "replay"}]
StoreState == [height : Nat, beginHeight : Nat, sends : Seq(SendSet), kernel : KernelState]
PolicyState == [beans : Nat, neverStop : BOOLEAN]
WorkState ==
  [deliver : CosmosState, sends : Seq(SendSet), kernel : KernelState, beans : Nat,
   pendingExport : SUBSET CrankSet]

(* What the transactions of a block push on the queues. *)
Queues == {p \in [QueueName -> Seq(ActionSet)] : \A q \in QueueName : p[q] \in Seq(Pushable(q))}
With(p, b) == [q \in QueueName |-> p[q] \o b[q]]
Distinct(p) == \A q \in QueueName : IsInjective(p[q])

Typed ==
  /\ cosmos \in CosmosState /\ deliver \in CosmosState
  /\ store \in StoreState /\ work \in StoreState
  /\ host \in HostState /\ policy \in PolicyState
  /\ txs \in Seq(Queues) /\ Len(txs) <= 1
  /\ final \in [DOMAIN final -> CosmosState] /\ DOMAIN final \subseteq Nat

(* The block state in a state of the node: data that is not flushed yet is *)
(* exported as well. *)
Abs(w, label, run) ==
  [pc |-> label, deliver |-> [w.deliver EXCEPT !.exported = @ \cup w.pendingExport],
   kernel |-> w.kernel, beans |-> w.beans, neverStop |-> policy.neverStop, run |-> run]
Here == Abs(Now, pc, host.runThisBlock)

LEMMA CosmosStateIs ==
  ASSUME NEW c
  PROVE  c \in CosmosState <=>
           /\ c \in CosmosRecord
           /\ \A q \in QueueName : c.pushed[q] \in Seq(Pushable(q)) /\ c.head[q] <= Len(c.pushed[q])
BY DEF CosmosState, CosmosRecord

LEMMA NowType ==
  ASSUME Typed
  PROVE  Now \in WorkState
BY DEF Typed, Now, WorkState, HostState, StoreState, PolicyState

LEMMA AbsType ==
  ASSUME Typed, NEW w \in WorkState, NEW label \in ExecutionPhases, NEW run \in Seq(ActionSet)
  PROVE  Abs(w, label, run) \in RunState
<1> DEFINE c == [w.deliver EXCEPT !.exported = @ \cup w.pendingExport]
<1>1. c \in CosmosState
  BY DEF WorkState, CosmosState
<1> HIDE DEF c
<1>2. policy.neverStop \in BOOLEAN
  BY DEF Typed, PolicyState
<1>3. Abs(w, label, run) =
        [pc |-> label, deliver |-> c, kernel |-> w.kernel, beans |-> w.beans,
         neverStop |-> policy.neverStop, run |-> run]
  BY DEF Abs, c
<1> QED
  BY <1>1, <1>2, <1>3 DEF RunState, WorkState

(* What the cranks that ran sent. *)
Outs(w, n) ==
  LET ran == SubSeq(w.kernel.runQueue, 1, n)
      before(i) == [w.deliver EXCEPT !.out = @ \o SubSeq(ran, 1, i - 1)]
  IN [i \in 1..n |-> Record(before(i), Send("out", ran[i]))]

LEMMA RunSwingsetIs ==
  ASSUME NEW w \in WorkState
  PROVE  RunSwingset(w) =
           [deliver |-> [w.deliver EXCEPT !.out = @ \o SubSeq(w.kernel.runQueue, 1, RunLength(w))],
            sends |-> w.sends \o Outs(w, RunLength(w)),
            kernel |-> [w.kernel EXCEPT !.runQueue =
                          SubSeq(@, RunLength(w) + 1, Len(@))],
            beans |-> w.beans + RunLength(w),
            pendingExport |-> w.pendingExport \cup
                                ToSet(SubSeq(w.kernel.runQueue, 1, RunLength(w)))]
<1> DEFINE n == RunLength(w)
           ran == SubSeq(w.kernel.runQueue, 1, n)
           rest == SubSeq(w.kernel.runQueue, n + 1, Len(w.kernel.runQueue))
           outs == Outs(w, n)
<1>1. RunSwingset(w) =
        [w EXCEPT !.kernel.runQueue = rest, !.beans = @ + n,
                  !.pendingExport = @ \cup ToSet(ran), !.deliver.out = @ \o ran,
                  !.sends = @ \o outs]
  BY DEF RunSwingset, Outs
<1>2. w.deliver = [w.deliver EXCEPT !.out = @] /\ DOMAIN w.kernel = {"given", "runQueue", "woken", "dead"}
  BY DEF WorkState, CosmosState, KernelState
<1> HIDE DEF n, ran, outs
<1>3. RunSwingset(w) =
        [deliver |-> [w.deliver EXCEPT !.out = @ \o ran], sends |-> w.sends \o outs,
         kernel |-> [w.kernel EXCEPT !.runQueue = rest], beans |-> w.beans + n,
         pendingExport |-> w.pendingExport \cup ToSet(ran)]
  BY <1>1 DEF WorkState
<1> HIDE DEF rest
<1>4. [w.kernel EXCEPT !.runQueue = rest] =
        [w.kernel EXCEPT !.runQueue = SubSeq(@, n + 1, Len(@))]
  BY <1>2 DEF rest
<1> QED
  BY <1>3, <1>4 DEF n, ran, outs

(* runSwingset is the run of the block. *)
LEMMA RunIsRun ==
  ASSUME Typed, NEW w \in WorkState, NEW label \in ExecutionPhases,
         NEW run \in Seq(ActionSet), NEW x, x = Abs(w, label, run)
  PROVE  /\ RunLength(w) = Taken(x) /\ ShouldRun(w) = Should(x)
         /\ Abs(RunSwingset(w), label, run) = Run(x)
<1>1. RunLength(w) = Taken(x) /\ ShouldRun(w) = Should(x)
  BY DEF RunLength, Taken, ShouldRun, Should, Abs
<1> DEFINE n == RunLength(w)
           ran == SubSeq(w.kernel.runQueue, 1, n)
           kl == [w.kernel EXCEPT !.runQueue = SubSeq(@, n + 1, Len(@))]
           out == w.deliver.out \o ran
           ex == (w.deliver.exported \cup w.pendingExport) \cup ToSet(ran)
           c == [w.deliver EXCEPT !.out = out, !.exported = ex]
           d == [w.deliver EXCEPT !.out = @ \o ran]
<1>2. x \in RunState
  BY AbsType
<1>3. Abs(RunSwingset(w), label, run) =
        [pc |-> label,
         deliver |-> [d EXCEPT !.exported = @ \cup (w.pendingExport \cup ToSet(ran))],
         kernel |-> kl, beans |-> w.beans + n, neverStop |-> policy.neverStop, run |-> run]
  <2> DEFINE s == RunSwingset(w)
  <2>1. s = [deliver |-> d, sends |-> w.sends \o Outs(w, n), kernel |-> kl,
             beans |-> w.beans + n, pendingExport |-> w.pendingExport \cup ToSet(ran)]
    BY RunSwingsetIs
  <2> HIDE DEF s, d, kl, n, ran
  <2>2. /\ s.deliver = d /\ s.kernel = kl /\ s.beans = w.beans + n
        /\ s.pendingExport = w.pendingExport \cup ToSet(ran)
    BY <2>1
  <2>3. Abs(s, label, run) =
          [pc |-> label, deliver |-> [d EXCEPT !.exported = @ \cup (w.pendingExport \cup ToSet(ran))],
           kernel |-> kl, beans |-> w.beans + n, neverStop |-> policy.neverStop, run |-> run]
    BY <2>2 DEF Abs
  <2> QED
    BY <2>3 DEF s
<1> HIDE DEF n, ran
<1>4. [d EXCEPT !.exported = @ \cup (w.pendingExport \cup ToSet(ran))] = c
  <2>1. d.exported \cup (w.pendingExport \cup ToSet(ran)) = ex
    BY DEF WorkState, CosmosState
  <2> QED
    BY <2>1 DEF WorkState, CosmosState
<1> HIDE DEF d
<1>5. Run(x) = [x EXCEPT !.kernel = kl, !.beans = @ + n, !.deliver = c]
  <2>1. n = Taken(x) /\ x.kernel = w.kernel
        /\ x.deliver = [w.deliver EXCEPT !.exported = @ \cup w.pendingExport]
    BY <1>1 DEF n, Abs
  <2>2. ran = SubSeq(x.kernel.runQueue, 1, n)
    BY <2>1 DEF ran
  <2>3. Run(x) = [x EXCEPT !.kernel.runQueue = SubSeq(@, n + 1, Len(@)), !.beans = @ + n,
               !.deliver.out = @ \o ran, !.deliver.exported = @ \cup ToSet(ran)]
    BY <2>1, <2>2 DEF Run
  <2>4. [x.deliver EXCEPT !.out = @ \o ran, !.exported = @ \cup ToSet(ran)] = c
    <3>1. x.deliver.out = w.deliver.out /\ x.deliver.exported = w.deliver.exported \cup w.pendingExport
      BY <2>1 DEF WorkState, CosmosState
    <3> QED
      BY <2>1, <3>1 DEF WorkState, CosmosState
  <2>5. [x.kernel EXCEPT !.runQueue = SubSeq(@, n + 1, Len(@))] = kl
    BY <2>1
  <2> HIDE DEF c, kl
  <2> QED
    BY <1>2, <2>3, <2>4, <2>5 DEF RunState
<1> HIDE DEF c, kl
<1> QED
  BY <1>1, <1>3, <1>4, <1>5 DEF Abs

-----------------------------------------------------------------------------
(* Downcalls, and what it takes to make them again.                        *)

(* From c, the downcalls s return what they returned and lead to d. *)
Does(c, r, d) == d = Effect(c, r) /\ r.ret = Return(c, r)
TraceOf(f, s) ==
  f \in [0..Len(s) -> CosmosRecord] /\ \A i \in 1..Len(s) : Does(f[i - 1], s[i], f[i])
Trace(c, s, d) == \E f : TraceOf(f, s) /\ f[0] = c /\ f[Len(s)] = d

LEMMA TraceNone == ASSUME NEW c \in CosmosRecord PROVE Trace(c, <<>>, c)
<1> DEFINE f == [i \in 0..0 |-> c]
<1>1. f \in [0..0 -> CosmosRecord] /\ f[0] = c /\ Len(<<>>) = 0 /\ 1..0 = {}
  OBVIOUS
<1> HIDE DEF f
<1>2. TraceOf(f, <<>>)
  BY <1>1 DEF TraceOf
<1> QED
  BY <1>1, <1>2 DEF Trace

LEMMA TraceOne ==
  ASSUME NEW c \in CosmosRecord, NEW r \in SendSet, NEW d \in CosmosRecord, Does(c, r, d)
  PROVE  <<r>> \in Seq(SendSet) /\ Trace(c, <<r>>, d)
<1> DEFINE f == [i \in 0..1 |-> IF i = 0 THEN c ELSE d]
           s == <<r>>
<1>1. s \in Seq(SendSet) /\ Len(s) = 1 /\ s[1] = r
  OBVIOUS
<1> HIDE DEF s
<1>2. f \in [0..1 -> CosmosRecord] /\ f[0] = c /\ f[1] = d
  OBVIOUS
<1> HIDE DEF f
<1>3. \A i \in 1..1 : Does(f[i - 1], s[i], f[i])
  <2>1. 1 - 1 = 0 /\ \A i \in 1..1 : i = 1
    OBVIOUS
  <2> QED
    BY <1>1, <1>2, <2>1
<1>4. TraceOf(f, s)
  BY <1>1, <1>2, <1>3 DEF TraceOf
<1> QED
  BY <1>1, <1>2, <1>4 DEF Trace, s

LEMMA TraceConcat ==
  ASSUME NEW s \in Seq(SendSet), NEW t \in Seq(SendSet), NEW c, NEW d, NEW e,
         Trace(c, s, d), Trace(d, t, e)
  PROVE  Trace(c, s \o t, e)
<1>1. PICK f : TraceOf(f, s) /\ f[0] = c /\ f[Len(s)] = d
  BY DEF Trace
<1>2. PICK g : TraceOf(g, t) /\ g[0] = d /\ g[Len(t)] = e
  BY DEF Trace
<1> DEFINE m == Len(s)
           n == Len(t)
           u == s \o t
           k == [i \in 0..m + n |-> IF i <= m THEN f[i] ELSE g[i - m]]
<1>3. m \in Nat /\ n \in Nat
  BY LenProperties
<1>4. /\ u \in Seq(SendSet) /\ Len(u) = m + n
      /\ \A i \in 1..m + n : u[i] = IF i <= m THEN s[i] ELSE t[i - m]
  BY ConcatProperties
<1>5. /\ f \in [0..m -> CosmosRecord] /\ g \in [0..n -> CosmosRecord]
      /\ \A i \in 1..m : Does(f[i - 1], s[i], f[i])
      /\ \A i \in 1..n : Does(g[i - 1], t[i], g[i])
      /\ f[0] = c /\ f[m] = d /\ g[0] = d /\ g[n] = e
  BY <1>1, <1>2 DEF TraceOf
<1> HIDE DEF m, n, u
<1>6. k \in [0..m + n -> CosmosRecord]
  <2>1. ASSUME NEW i \in 0..m + n
        PROVE  (IF i <= m THEN f[i] ELSE g[i - m]) \in CosmosRecord
    <3>1. CASE i <= m
      BY <1>3, <1>5, <3>1
    <3>2. CASE ~(i <= m)
      <4>1. i - m \in 0..n
        BY <1>3, <3>2
      <4> QED
        BY <1>5, <3>2, <4>1
    <3> QED
      BY <3>1, <3>2
  <2> QED
    BY <2>1
<1>7. \A i \in 0..m : k[i] = f[i]
  BY <1>3
<1>8. \A i \in 0..n : k[m + i] = g[i]
  <2>1. ASSUME NEW i \in 0..n
        PROVE  k[m + i] = g[i]
    <3>1. CASE i = 0
      BY <1>3, <1>5, <3>1
    <3>2. CASE i # 0
      <4>1. m + i \in 0..m + n /\ ~(m + i <= m) /\ (m + i) - m = i
        BY <1>3, <3>2
      <4> QED
        BY <4>1
    <3> QED
      BY <3>1, <3>2
  <2> QED
    BY <2>1
<1> HIDE DEF k
<1>9. ASSUME NEW i \in 1..m + n
      PROVE  Does(k[i - 1], u[i], k[i])
  <2>1. CASE i <= m
    <3>1. i \in 1..m /\ i \in 0..m /\ i - 1 \in 0..m
      BY <1>3, <2>1
    <3> QED
      BY <1>4, <1>5, <1>7, <2>1, <3>1
  <2>2. CASE ~(i <= m)
    <3> DEFINE j == i - m
    <3>1. /\ j \in 1..n /\ j \in 0..n /\ j - 1 \in 0..n
          /\ m + j = i /\ m + (j - 1) = i - 1
      BY <1>3, <2>2
    <3> HIDE DEF j
    <3>2. k[i] = g[j] /\ k[i - 1] = g[j - 1]
      BY <1>8, <3>1
    <3>3. u[i] = t[j]
      BY <1>4, <2>2 DEF j
    <3> QED
      BY <1>5, <3>1, <3>2, <3>3
  <2> QED
    BY <2>1, <2>2
<1>10. TraceOf(k, u)
  BY <1>4, <1>6, <1>9 DEF TraceOf
<1>11. k[0] = c /\ k[m + n] = e
  <2>1. 0 \in 0..m /\ n \in 0..n
    BY <1>3
  <2> QED
    BY <1>5, <1>7, <1>8, <2>1
<1>12. Trace(c, u, e)
  BY <1>4, <1>10, <1>11 DEF Trace
<1> QED
  BY <1>12 DEF u

LEMMA SameDowncall ==
  ASSUME NEW c, NEW op, NEW arg, NEW ret, NEW at, NEW r,
         r = [op |-> op, arg |-> arg, ret |-> ret, at |-> at]
  PROVE  /\ Effect(c, r) = Effect(c, Send(op, arg))
         /\ Return(c, r) = Return(c, Send(op, arg))
<1>1. r.op = op /\ r.arg = arg /\ Send(op, arg).op = op /\ Send(op, arg).arg = arg
  BY DEF Send
<1> QED
  BY <1>1 DEF Effect, Return

(* replayChainSends makes the saved downcalls with the results they had. *)
LEMMA ReplayTraced ==
  ASSUME NEW s \in Seq(SendSet), NEW c, NEW d, Trace(c, s, d)
  PROVE  Replay(c, s) = [deliver |-> d, same |-> TRUE]
<1>1. PICK f : TraceOf(f, s) /\ f[0] = c /\ f[Len(s)] = d
  BY DEF Trace
<1> DEFINE n == Len(s)
           Def(a) == [i \in 0..n |->
             IF i = 0 THEN [deliver |-> c, same |-> TRUE]
             ELSE LET before == a[i - 1]
                  IN IF ~before.same THEN before
                     ELSE [deliver |-> Effect(before.deliver, s[i]),
                           same |-> Return(before.deliver, s[i]) = s[i].ret]]
           g == [i \in 0..n |-> [deliver |-> f[i], same |-> TRUE]]
           after == CHOOSE a : a = Def(a)
<1>2. n \in Nat /\ Replay(c, s) = after[n]
  BY LenProperties DEF Replay
<1>3. f[0] = c /\ \A i \in 1..n : Does(f[i - 1], s[i], f[i])
  BY <1>1 DEF TraceOf
<1> HIDE DEF n
<1>4. ASSUME NEW i \in 0..n
      PROVE  Def(g)[i] = g[i]
  <2>1. CASE i = 0
    BY <1>3, <2>1
  <2>2. CASE i # 0
    <3>1. i \in 1..n /\ i - 1 \in 0..n
      BY <1>2, <2>2
    <3>2. g[i - 1] = [deliver |-> f[i - 1], same |-> TRUE]
      BY <3>1
    <3>3. f[i] = Effect(f[i - 1], s[i]) /\ s[i].ret = Return(f[i - 1], s[i])
      BY <1>3, <3>1 DEF Does
    <3>4. Def(g)[i] = [deliver |-> Effect(f[i - 1], s[i]),
                       same |-> Return(f[i - 1], s[i]) = s[i].ret]
      BY <2>2, <3>2
    <3> QED
      BY <3>3, <3>4
  <2> QED
    BY <2>1, <2>2
<1>5. g = Def(g)
  BY <1>4
<1>6. after = Def(after)
  BY <1>5
<1> HIDE DEF after, g
<1>7. \A i \in 0..n : after[i] = g[i]
  <2> DEFINE Bad == {i \in 0..n : after[i] # g[i]}
  <2>1. SUFFICES ASSUME Bad # {} PROVE FALSE
    OBVIOUS
  <2>2. PICK i \in Bad : \A j \in Bad : i <= j
    <3>1. Bad \in SUBSET Nat
      BY <1>2
    <3> HIDE DEF Bad
    <3> QED
      BY <2>1, <3>1, SmallestMember
  <2>3. after[i] = Def(after)[i] /\ g[i] = Def(g)[i]
    BY <1>5, <1>6
  <2>4. CASE i = 0
    BY <1>2, <2>2, <2>3, <2>4
  <2>5. CASE i # 0
    <3>1. i - 1 \in 0..n /\ ~(i <= i - 1)
      BY <1>2, <2>2, <2>5
    <3>2. after[i - 1] = g[i - 1]
      BY <2>2, <3>1
    <3>3. Def(after)[i] = Def(g)[i]
      BY <3>2
    <3> QED
      BY <2>2, <2>3, <3>3
  <2> QED
    BY <2>4, <2>5
<1>8. g[n] = [deliver |-> f[n], same |-> TRUE]
  BY <1>2 DEF g
<1> QED
  BY <1>1, <1>2, <1>7, <1>8 DEF n

(* The saved downcalls: those of an earlier block that were loaded at a    *)
(* restart, then those of block h, which led from c to d.                  *)
SplitAt(p, o, s, h, c, d) ==
  /\ p \in Seq(SendSet) /\ o \in Seq(SendSet) /\ s = p \o o
  /\ \A i \in 1..Len(p) : p[i].at < h
  /\ \A i \in 1..Len(o) : o[i].at = h
  /\ Trace(c, o, d)
Split(s, h, c, d) == \E p, o : SplitAt(p, o, s, h, c, d)

LEMMA SplitMore ==
  ASSUME NEW s \in Seq(SendSet), NEW h, NEW c, NEW d, NEW e, Split(s, h, c, d),
         NEW t \in Seq(SendSet), \A i \in 1..Len(t) : t[i].at = h, Trace(d, t, e)
  PROVE  Split(s \o t, h, c, e)
<1>1. PICK p, o : SplitAt(p, o, s, h, c, d)
  BY DEF Split
<1>2. /\ p \in Seq(SendSet) /\ o \in Seq(SendSet) /\ s = p \o o
      /\ \A i \in 1..Len(p) : p[i].at < h
      /\ \A i \in 1..Len(o) : o[i].at = h
      /\ Trace(c, o, d)
  BY <1>1 DEF SplitAt
<1> DEFINE u == o \o t
<1>3. s \o t = p \o u
  BY <1>2, ConcatAssociative
<1>4. /\ u \in Seq(SendSet) /\ Len(u) = Len(o) + Len(t)
      /\ \A i \in 1..Len(o) + Len(t) : u[i] = IF i <= Len(o) THEN o[i] ELSE t[i - Len(o)]
  BY <1>2, ConcatProperties
<1>5. Trace(c, u, e)
  BY <1>2, TraceConcat
<1>6. Len(o) \in Nat /\ Len(t) \in Nat
  BY <1>2, LenProperties
<1> DEFINE m == Len(o)
           n == Len(t)
<1> HIDE DEF u, m, n
<1>7. ASSUME NEW i \in 1..Len(u)
      PROVE  u[i].at = h
  <2>1. m \in Nat /\ n \in Nat /\ i \in 1..m + n
    BY <1>4, <1>6 DEF m, n
  <2>2. CASE i <= m
    <3>1. i \in 1..m /\ u[i] = o[i]
      BY <1>4, <2>1, <2>2 DEF m, n
    <3> QED
      BY <1>2, <3>1 DEF m
  <2>3. CASE ~(i <= m)
    <3>1. i - m \in 1..n /\ u[i] = t[i - m]
      BY <1>4, <2>1, <2>3 DEF m, n
    <3> QED
      BY <3>1 DEF n
  <2> QED
    BY <2>2, <2>3
<1>8. SplitAt(p, u, s \o t, h, c, e)
  BY <1>2, <1>3, <1>4, <1>5, <1>7 DEF SplitAt
<1> QED
  BY <1>8 DEF Split

\* One more downcall.
LEMMA SplitOne ==
  ASSUME NEW s \in Seq(SendSet), NEW h, NEW c, NEW d \in CosmosRecord, NEW e \in CosmosRecord,
         Split(s, h, c, d), NEW r \in SendSet, r.at = h, Does(d, r, e)
  PROVE  Append(s, r) \in Seq(SendSet) /\ Split(Append(s, r), h, c, e)
<1> DEFINE t == <<r>>
<1>1. t \in Seq(SendSet) /\ Trace(d, t, e)
  BY TraceOne
<1>2. Len(t) = 1 /\ t[1] = r /\ \A i \in 1..1 : i = 1
  OBVIOUS
<1>3. Append(s, r) = s \o t
  BY AppendIsConcat
<1> HIDE DEF t
<1>4. \A i \in 1..Len(t) : t[i].at = h
  BY <1>2
<1>5. s \o t \in Seq(SendSet) /\ Split(s \o t, h, c, e)
  BY <1>1, <1>4, SplitMore, ConcatProperties
<1> QED
  BY <1>3, <1>5

\* When nothing is carried over, the saved downcalls are those of the block.
LEMMA SplitWhole ==
  ASSUME NEW s \in Seq(SendSet), NEW h \in Nat, NEW c, NEW d, Split(s, h, c, d),
         \A i \in 1..Len(s) : s[i].at = h
  PROVE  Trace(c, s, d)
<1>1. PICK p, o : SplitAt(p, o, s, h, c, d)
  BY DEF Split
<1>2. /\ p \in Seq(SendSet) /\ o \in Seq(SendSet) /\ s = p \o o
      /\ \A i \in 1..Len(p) : p[i].at < h
      /\ Trace(c, o, d)
  BY <1>1 DEF SplitAt
<1>3. p = <<>>
  <2>1. SUFFICES ASSUME p # <<>> PROVE FALSE
    OBVIOUS
  <2>2. Len(p) \in Nat /\ Len(p) # 0 /\ Len(o) \in Nat
    BY <1>2, <2>1, EmptySeq, LenProperties
  <2>3. Len(s) = Len(p) + Len(o) /\ s[1] = p[1]
    <3>1. 1 \in 1..Len(p) + Len(o) /\ 1 <= Len(p)
      BY <2>2
    <3> QED
      BY <1>2, <3>1, ConcatProperties
  <2>4. 1 \in 1..Len(p) /\ 1 \in 1..Len(s)
    BY <2>2, <2>3
  <2>5. p[1].at < h /\ p[1].at = h
    BY <1>2, <2>3, <2>4
  <2> QED
    BY <2>5
<1>4. s = o
  BY <1>2, <1>3, ConcatEmptySeq
<1> QED
  BY <1>2, <1>4

\* Before the transactions of the block no downcall looks at a queue.
Early(s, h) == \A i \in 1..Len(s) : s[i].at = h => s[i].op \in {"out", "export"}

LEMMA EarlyDowncalls ==
  ASSUME NEW c \in CosmosRecord, NEW d \in CosmosRecord, NEW r,
         r.op \in {"out", "export"}, Does(c, r, d),
         NEW p \in [QueueName -> Seq(ActionSet)]
  PROVE  Does([c EXCEPT !.pushed = p], r, [d EXCEPT !.pushed = p])
<1> DEFINE x == [c EXCEPT !.pushed = p]
<1>1. CASE r.op = "out"
  <2>1. d = [c EXCEPT !.out = Append(@, r.arg)]
    BY <1>1 DEF Does, Effect
  <2>2. Effect(x, r) = [x EXCEPT !.out = Append(@, r.arg)]
    BY <1>1 DEF Effect
  <2>3. [d EXCEPT !.pushed = p] = [x EXCEPT !.out = Append(@, r.arg)]
    BY <2>1 DEF CosmosRecord
  <2>4. Return(x, r) = Return(c, r)
    BY <1>1 DEF Return, CosmosRecord
  <2> QED
    BY <2>2, <2>3, <2>4 DEF Does
<1>2. CASE r.op = "export"
  <2>1. d = [c EXCEPT !.exported = @ \cup r.arg]
    BY <1>2 DEF Does, Effect
  <2>2. Effect(x, r) = [x EXCEPT !.exported = @ \cup r.arg]
    BY <1>2 DEF Effect
  <2>3. [d EXCEPT !.pushed = p] = [x EXCEPT !.exported = @ \cup r.arg]
    BY <2>1 DEF CosmosRecord
  <2>4. Return(x, r) = Return(c, r)
    BY <1>2 DEF Return
  <2> QED
    BY <2>2, <2>3, <2>4 DEF Does
<1> QED
  BY <1>1, <1>2

(* They can be made again after the transactions as well. *)
LEMMA SplitPush ==
  ASSUME NEW s, NEW h, NEW c, NEW d, Split(s, h, c, d), Early(s, h),
         NEW p \in [QueueName -> Seq(ActionSet)]
  PROVE  Split(s, h, [c EXCEPT !.pushed = p], [d EXCEPT !.pushed = p])
<1>1. PICK a, o : SplitAt(a, o, s, h, c, d)
  BY DEF Split
<1>2. /\ a \in Seq(SendSet) /\ o \in Seq(SendSet) /\ s = a \o o
      /\ \A i \in 1..Len(o) : o[i].at = h
      /\ Trace(c, o, d)
  BY <1>1 DEF SplitAt
<1>3. \A i \in 1..Len(o) : o[i].op \in {"out", "export"}
  <2>1. ASSUME NEW i \in 1..Len(o)
        PROVE  o[i].op \in {"out", "export"}
    <3> DEFINE m == Len(a)
               n == Len(o)
    <3>1. m \in Nat /\ n \in Nat
      BY <1>2, LenProperties
    <3>2. /\ Len(s) = m + n
          /\ \A j \in 1..m + n : s[j] = IF j <= m THEN a[j] ELSE o[j - m]
      BY <1>2, ConcatProperties
    <3>3. i \in 1..n
      OBVIOUS
    <3> HIDE DEF m, n
    <3>4. m + i \in 1..m + n /\ ~(m + i <= m) /\ (m + i) - m = i
      BY <3>1, <3>3
    <3>5. s[m + i] = o[i] /\ m + i \in 1..Len(s)
      BY <3>2, <3>4
    <3> QED
      BY <1>2, <3>5 DEF Early
  <2> QED
    BY <2>1
<1>4. PICK f : TraceOf(f, o) /\ f[0] = c /\ f[Len(o)] = d
  BY <1>2 DEF Trace
<1> DEFINE n == Len(o)
           g == [i \in 0..n |-> [f[i] EXCEPT !.pushed = p]]
<1>5. n \in Nat /\ f \in [0..n -> CosmosRecord] /\ \A i \in 1..n : Does(f[i - 1], o[i], f[i])
  BY <1>2, <1>4, LenProperties DEF TraceOf
<1> HIDE DEF n
<1>6. g \in [0..n -> CosmosRecord]
  <2>1. ASSUME NEW i \in 0..n
        PROVE  [f[i] EXCEPT !.pushed = p] \in CosmosRecord
    <3>1. f[i] \in CosmosRecord
      BY <1>5
    <3> QED
      BY <3>1 DEF CosmosRecord
  <2> QED
    BY <2>1
<1>7. ASSUME NEW i \in 1..n
      PROVE  Does(g[i - 1], o[i], g[i])
  <2>1. i \in 0..n /\ i - 1 \in 0..n
    BY <1>5
  <2>2. f[i - 1] \in CosmosRecord /\ f[i] \in CosmosRecord
    BY <1>5, <2>1
  <2>3. o[i].op \in {"out", "export"} /\ Does(f[i - 1], o[i], f[i])
    BY <1>3, <1>5 DEF n
  <2>4. Does([f[i - 1] EXCEPT !.pushed = p], o[i], [f[i] EXCEPT !.pushed = p])
    BY <2>2, <2>3, EarlyDowncalls
  <2> QED
    BY <2>1, <2>4
<1>8. g[0] = [c EXCEPT !.pushed = p] /\ g[n] = [d EXCEPT !.pushed = p]
  <2>1. 0 \in 0..n /\ n \in 0..n
    BY <1>5
  <2> QED
    BY <1>4, <2>1 DEF n
<1> HIDE DEF g
<1>9. TraceOf(g, o)
  BY <1>6, <1>7 DEF TraceOf, n
<1>10. Trace([c EXCEPT !.pushed = p], o, [d EXCEPT !.pushed = p])
  BY <1>8, <1>9 DEF Trace, n
<1>11. SplitAt(a, o, s, h, [c EXCEPT !.pushed = p], [d EXCEPT !.pushed = p])
  BY <1>1, <1>10 DEF SplitAt
<1> QED
  BY <1>11 DEF Split

LEMMA AppendToConcat ==
  ASSUME NEW S, NEW s \in Seq(S), NEW t \in Seq(S), NEW e \in S
  PROVE  Append(s \o t, e) = s \o (t \o <<e>>)
<1> DEFINE u == <<e>>
<1>1. u \in Seq(S) /\ s \o t \in Seq(S)
  BY ConcatProperties
<1>2. Append(s \o t, e) = (s \o t) \o u
  BY <1>1, AppendIsConcat
<1> HIDE DEF u
<1>3. (s \o t) \o u = s \o (t \o u)
  BY <1>1, ConcatAssociative
<1> QED
  BY <1>2, <1>3 DEF u

(* The downcalls of the cranks that run. *)
LEMMA OutsTraced ==
  ASSUME BlockHeight \in Nat, NEW w \in WorkState, NEW n \in 0..Len(w.kernel.runQueue),
         NEW t, t = Outs(w, n),
         NEW e, e = [w.deliver EXCEPT !.out = @ \o SubSeq(w.kernel.runQueue, 1, n)]
  PROVE  /\ t \in Seq(SendSet) /\ Trace(w.deliver, t, e) /\ e \in CosmosState
         /\ \A i \in 1..Len(t) : t[i].at = BlockHeight /\ t[i].op = "out"
<1> DEFINE q == w.kernel.runQueue
           ran == SubSeq(q, 1, n)
           out == w.deliver.out
           f == [i \in 0..n |-> [w.deliver EXCEPT !.out = @ \o SubSeq(ran, 1, i)]]
<1>1. /\ q \in Seq(CrankSet) /\ out \in Seq(CrankSet) /\ w.deliver \in CosmosRecord
      /\ n \in Nat /\ n \in 0..Len(q)
  BY DEF WorkState, KernelState, CosmosState, CosmosRecord
<1>2. ran \in Seq(CrankSet) /\ Len(ran) = n
  BY <1>1, Cut
<1>3. t = [i \in 1..n |-> Record([w.deliver EXCEPT !.out = @ \o SubSeq(ran, 1, i - 1)],
                                 Send("out", ran[i]))]
  BY DEF Outs
<1>4. f[n] = e
  <2>1. n \in 0..n /\ SubSeq(ran, 1, n) = ran
    BY <1>1, <1>2, SubSeqFull
  <2>2. f[n] = [w.deliver EXCEPT !.out = @ \o SubSeq(ran, 1, n)]
    BY <2>1
  <2> HIDE DEF f
  <2> QED
    BY <2>1, <2>2
<1>5. e \in CosmosState
  <2>1. out \o ran \in Seq(CrankSet)
    BY <1>1, <1>2, ConcatProperties
  <2> QED
    BY <2>1 DEF WorkState, CosmosState
<1> HIDE DEF q, ran
<1>6. ASSUME NEW i \in 0..n
      PROVE  /\ SubSeq(ran, 1, i) \in Seq(CrankSet) /\ out \o SubSeq(ran, 1, i) \in Seq(CrankSet)
             /\ f[i] = [w.deliver EXCEPT !.out = out \o SubSeq(ran, 1, i)]
             /\ f[i] \in CosmosRecord
  <2>1. SubSeq(ran, 1, i) \in Seq(CrankSet)
    BY <1>2, Cut
  <2>2. out \o SubSeq(ran, 1, i) \in Seq(CrankSet)
    BY <1>1, <2>1, ConcatProperties
  <2>3. f[i] = [w.deliver EXCEPT !.out = out \o SubSeq(ran, 1, i)]
    OBVIOUS
  <2> QED
    BY <1>1, <2>1, <2>2, <2>3 DEF CosmosRecord
<1>7. f \in [0..n -> CosmosRecord]
  BY <1>6
<1>8. \A i \in 1..n : ran[i] \in CrankSet
  BY <1>2, ElementOfSeq
<1>9. ASSUME NEW i \in 1..n
      PROVE  /\ t[i] = [op |-> "out", arg |-> ran[i], ret |-> Return(f[i - 1], Send("out", ran[i])),
                        at |-> BlockHeight]
             /\ t[i] \in SendSet /\ Does(f[i - 1], t[i], f[i])
  <2>1. i - 1 \in 0..n /\ i \in 0..n
    BY <1>1
  <2> DEFINE c == f[i - 1]
             a == SubSeq(ran, 1, i - 1)
  <2>2. t[i] = Record(c, Send("out", ran[i]))
    BY <1>3, <2>1
  <2>3. t[i] = [op |-> "out", arg |-> ran[i], ret |-> Return(c, Send("out", ran[i])),
                at |-> BlockHeight]
    BY <2>2 DEF Record, Send
  <2>4. c \in CosmosRecord /\ c = [w.deliver EXCEPT !.out = out \o a] /\ a \in Seq(CrankSet)
    BY <1>6, <2>1
  <2>5. Return(c, Send("out", ran[i])) \in Nat
    <3>1. Send("out", ran[i]).op = "out"
      BY DEF Send
    <3> HIDE DEF c
    <3>2. c \in CosmosRecord
      BY <2>4
    <3>3. c.out \in Seq(CrankSet)
      BY <3>2 DEF CosmosRecord
    <3>4. Len(c.out) \in Nat
      BY <3>3, LenProperties
    <3> QED
      BY <3>1, <3>4 DEF Return
  <2>6. t[i] \in SendSet
    <3>1. ran[i] \in CrankSet
      BY <1>8
    <3> HIDE DEF c
    <3> QED
      BY <2>3, <2>5, <3>1 DEF SendSet
  <2>7. t[i].ret = Return(c, t[i]) /\ Effect(c, t[i]) = [c EXCEPT !.out = Append(@, ran[i])]
    <3>1. Return(c, t[i]) = Return(c, Send("out", ran[i]))
      BY <2>3, SameDowncall
    <3>2. Effect(c, t[i]) = [c EXCEPT !.out = Append(@, ran[i])]
      BY <2>3 DEF Effect
    <3> QED
      BY <2>3, <3>1, <3>2
  <2>8. SubSeq(ran, 1, i) = a \o <<ran[i]>>
    <3>1. i \in 1..Len(ran) /\ 1 \in 1..Len(ran) /\ i \in 1..i
      BY <1>1, <1>2
    <3> QED
      BY <1>2, <3>1, SubSeqRecursiveSecond
  <2>9. Append(out \o a, ran[i]) = out \o SubSeq(ran, 1, i)
    <3>1. ran[i] \in CrankSet /\ a \in Seq(CrankSet) /\ out \in Seq(CrankSet)
      BY <1>1, <1>8, <2>4
    <3> HIDE DEF out, a, c, f
    <3>2. Append(out \o a, ran[i]) = out \o (a \o <<ran[i]>>)
      BY <3>1, AppendToConcat
    <3> QED
      BY <2>8, <3>2
  <2>10. f[i] = [w.deliver EXCEPT !.out = out \o SubSeq(ran, 1, i)]
    BY <1>6, <2>1
  <2> HIDE DEF f
  <2>11. f[i] = [c EXCEPT !.out = Append(@, ran[i])]
    <3>1. c.out = out \o a
      BY <2>4 DEF WorkState, CosmosState
    <3> HIDE DEF c, a
    <3> QED
      BY <2>4, <2>9, <2>10, <3>1
  <2>12. Does(c, t[i], f[i])
    BY <2>7, <2>11 DEF Does
  <2> QED
    BY <2>3, <2>6, <2>12
<1> HIDE DEF f
<1>10. t \in Seq(SendSet) /\ Len(t) = n
  <2>1. t \in [1..n -> SendSet]
    <3>1. DOMAIN t = 1..n /\ t = [i \in DOMAIN t |-> t[i]]
      BY <1>3
    <3> QED
      BY <1>9, <3>1
  <2>2. t \in Seq(SendSet)
    BY <1>1, <2>1, SeqDef
  <2>3. Len(t) \in Nat /\ 1..Len(t) = 1..n
    BY <2>1, <2>2, LenProperties
  <2> QED
    BY <1>1, <2>2, <2>3
<1>11. f[0] = w.deliver
  <2>1. 0 \in 0..n /\ SubSeq(ran, 1, 0) = <<>>
    BY <1>1, SubSeqEmpty
  <2>2. out \o <<>> = out
    BY <1>1, ConcatEmptySeq
  <2>3. f[0] = [w.deliver EXCEPT !.out = out]
    BY <1>6, <2>1, <2>2
  <2> QED
    BY <2>3 DEF WorkState, CosmosState
<1>12. TraceOf(f, t)
  BY <1>7, <1>9, <1>10 DEF TraceOf
<1>13. Trace(w.deliver, t, e)
  BY <1>4, <1>10, <1>11, <1>12 DEF Trace
<1>14. \A i \in 1..Len(t) : t[i].at = BlockHeight /\ t[i].op = "out"
  BY <1>9, <1>10
<1> QED
  BY <1>5, <1>10, <1>13, <1>14

(* The kernel's cranks keep the saved downcalls in step with cosmos.       *)
LEMMA RunSwingsetTraced ==
  ASSUME Typed, BlockHeight \in Nat, NEW w \in WorkState, ShouldRun(w),
         NEW c, Split(w.sends, BlockHeight, c, w.deliver),
         NEW s, s = RunSwingset(w)
  PROVE  /\ s \in WorkState /\ Split(s.sends, BlockHeight, c, s.deliver)
         /\ s.deliver.pushed = w.deliver.pushed
<1> DEFINE n == RunLength(w)
           x == Abs(w, "leftover", <<>>)
           ran == SubSeq(w.kernel.runQueue, 1, n)
           rest == SubSeq(w.kernel.runQueue, n + 1, Len(w.kernel.runQueue))
           t == Outs(w, n)
           e == [w.deliver EXCEPT !.out = @ \o ran]
           kl == [w.kernel EXCEPT !.runQueue = rest]
<1>1. "leftover" \in ExecutionPhases /\ <<>> \in Seq(ActionSet)
  BY DEF ExecutionPhases
<1>2. x \in RunState /\ n = Taken(x) /\ Should(x)
  <2>1. x \in RunState
    BY <1>1, AbsType
  <2>2. RunLength(w) = Taken(x) /\ ShouldRun(w) = Should(x)
    BY DEF RunLength, Taken, ShouldRun, Should, Abs
  <2> QED
    BY <2>1, <2>2
<1>3. n \in 0..Len(w.kernel.runQueue)
  <2>1. Ran(x, Run(x), Taken(x))
    BY <1>2, RunRuns
  <2>2. x.kernel = w.kernel
    BY DEF Abs
  <2> HIDE DEF x, n
  <2> QED
    BY <1>2, <2>1, <2>2 DEF Ran
<1>4. s = [deliver |-> e, sends |-> w.sends \o t, kernel |-> kl, beans |-> w.beans + n,
           pendingExport |-> w.pendingExport \cup ToSet(ran)]
  <2>1. kl = [w.kernel EXCEPT !.runQueue = SubSeq(@, n + 1, Len(@))]
    BY DEF WorkState, KernelState
  <2> HIDE DEF kl
  <2> QED
    BY <2>1, RunSwingsetIs
<1> HIDE DEF x, n
<1>5. /\ t \in Seq(SendSet) /\ Trace(w.deliver, t, e) /\ e \in CosmosState
      /\ \A i \in 1..Len(t) : t[i].at = BlockHeight
  BY <1>3, OutsTraced
<1>6. ran \in Seq(CrankSet) /\ rest \in Seq(CrankSet) /\ ToSet(ran) \subseteq CrankSet
  <2>1. w.kernel.runQueue \in Seq(CrankSet)
    BY DEF WorkState, KernelState
  <2> QED
    BY <1>3, <2>1, Cut
<1>7. kl \in KernelState
  BY <1>6 DEF WorkState, KernelState
<1>8. e.pushed = w.deliver.pushed
  BY DEF WorkState, CosmosState
<1>9. w.sends \in Seq(SendSet) /\ w.sends \o t \in Seq(SendSet)
  BY <1>5, ConcatProperties DEF WorkState
<1>10. Split(w.sends \o t, BlockHeight, c, e)
  BY <1>5, <1>9, SplitMore
<1>11. w.beans + n \in Nat /\ w.pendingExport \cup ToSet(ran) \subseteq CrankSet
  BY <1>3, <1>6 DEF WorkState
<1> HIDE DEF e, t, kl, ran
<1> QED
  BY <1>4, <1>5, <1>7, <1>8, <1>9, <1>10, <1>11 DEF WorkState

-----------------------------------------------------------------------------
(* From phase to phase a block leads to one end only.                      *)

Closed(S, h) == \A y \in S : Phase(y, h) \in S
Leads(x, y, h) == \A S \in SUBSET BlockState : x \in S /\ Closed(S, h) => y \in S

LEMMA LeadsMore ==
  ASSUME NEW x, NEW y, NEW h, Leads(x, y, h)
  PROVE  Leads(x, Phase(y, h), h)
BY DEF Leads, Closed

LEMMA LeadsType ==
  ASSUME NEW x \in BlockState, NEW y, NEW h, Leads(x, y, h)
  PROVE  y \in BlockState
<1>1. Closed(BlockState, h)
  BY PhaseType DEF Closed
<1> QED
  BY <1>1 DEF Leads

LEMMA OneEnd ==
  ASSUME NEW x \in BlockState, NEW y, NEW z, NEW h, Leads(x, y, h), Leads(x, z, h),
         y.pc = "finish", z.pc = "finish"
  PROVE  y = z
<1> DEFINE S == {u \in BlockState : Leads(u, y, h)}
<1>1. y \in BlockState /\ z \in BlockState
  BY LeadsType
<1>2. ASSUME NEW v \in BlockState, v.pc = "finish"
      PROVE  Phase(v, h) = v
  BY <1>2 DEF Phase, QueueName
<1>3. Closed(S, h)
  <2>1. ASSUME NEW u \in S
        PROVE  Phase(u, h) \in S
    <3>1. Phase(u, h) \in BlockState
      BY PhaseType
    <3>2. CASE u = y
      BY <1>1, <1>2, <3>2
    <3>3. CASE u # y
      <4>1. ASSUME NEW T \in SUBSET BlockState, Phase(u, h) \in T, Closed(T, h)
            PROVE  y \in T
        <5>1. T \cup {u} \in SUBSET BlockState /\ u \in T \cup {u}
          OBVIOUS
        <5>2. Closed(T \cup {u}, h)
          BY <4>1 DEF Closed
        <5>3. y \in T \cup {u}
          BY <5>1, <5>2 DEF Leads
        <5> QED
          BY <3>3, <5>3
      <4>2. Leads(Phase(u, h), y, h)
        BY <4>1 DEF Leads
      <4> QED
        BY <3>1, <4>2
    <3> QED
      BY <3>2, <3>3
  <2> HIDE DEF S
  <2> QED
    BY <2>1 DEF Closed
<1>4. z \in S
  <2>1. S \in SUBSET BlockState /\ x \in S
    OBVIOUS
  <2> HIDE DEF S
  <2> QED
    BY <1>3, <2>1 DEF Leads
<1>5. Leads(z, y, h)
  BY <1>4
<1>6. Closed({z}, h) /\ {z} \in SUBSET BlockState
  BY <1>1, <1>2 DEF Closed
<1>7. y \in {z}
  BY <1>5, <1>6 DEF Leads
<1> QED
  BY <1>7

-----------------------------------------------------------------------------
(* What a block starts from.  The bootstrap goes before the first one.     *)

Boot == [action |-> Action("bootstrap", 0), crank |-> 1]
OpenCosmos(c, h) ==
  IF h = FirstHeight THEN [c EXCEPT !.out = Append(@, Boot), !.exported = @ \cup {Boot}] ELSE c
OpenKernel(k, h) ==
  IF h = FirstHeight THEN [k EXCEPT !.given = Append(@, Boot.action)] ELSE k
Start(h, c, k, p) ==
  [pc |-> "leftover", deliver |-> [OpenCosmos(c, h) EXCEPT !.pushed = p],
   kernel |-> OpenKernel(k, h), beans |-> 0, neverStop |-> Forced(h) # <<>>,
   run |-> Forced(h)]

Decision == With(cosmos.pushed, txs[1])
BlockStart == Start(BlockHeight, cosmos, store.kernel, Decision)
Base == [cosmos EXCEPT !.pushed = Decision]

LEMMA BootIs == Boot \in CrankSet /\ Boot.action \in ActionSet
<1>1. Boot.action = [kind |-> "bootstrap", id |-> 0] /\ Boot.crank = 1
      /\ Boot = [action |-> Boot.action, crank |-> 1]
  BY DEF Boot, Action
<1>2. Boot.action \in ActionSet
  BY <1>1 DEF ActionSet
<1> QED
  BY <1>1, <1>2 DEF CrankSet

LEMMA ForcedType ==
  ASSUME NEW h \in Nat
  PROVE  Forced(h) \in Seq(ActionSet)
<1>1. Action("core", h) \in ActionSet /\ Action("events", h) \in ActionSet
  BY DEF Action, ActionSet
<1> QED
  BY <1>1 DEF Forced

LEMMA WithType ==
  ASSUME NEW p \in Queues, NEW b \in Queues
  PROVE  /\ With(p, b) \in Queues
         /\ \A q \in QueueName : Len(With(p, b)[q]) = Len(p[q]) + Len(b[q])
<1>1. ASSUME NEW q \in QueueName
      PROVE  /\ p[q] \o b[q] \in Seq(Pushable(q)) /\ p[q] \o b[q] \in Seq(ActionSet)
             /\ With(p, b)[q] = p[q] \o b[q]
             /\ Len(With(p, b)[q]) = Len(p[q]) + Len(b[q])
  <2>1. p[q] \in Seq(Pushable(q)) /\ b[q] \in Seq(Pushable(q))
    BY DEF Queues
  <2>2. p[q] \in Seq(ActionSet) /\ b[q] \in Seq(ActionSet)
    BY DEF Queues
  <2>3. With(p, b)[q] = p[q] \o b[q]
    BY DEF With
  <2> QED
    BY <2>1, <2>2, <2>3, ConcatProperties
<1>2. With(p, b) \in [QueueName -> Seq(ActionSet)]
  BY <1>1 DEF With
<1> QED
  BY <1>1, <1>2 DEF Queues

LEMMA PushedType ==
  ASSUME NEW c \in CosmosState, NEW p \in Queues,
         \A q \in QueueName : Len(c.pushed[q]) <= Len(p[q])
  PROVE  c.pushed \in Queues /\ [c EXCEPT !.pushed = p] \in CosmosState
<1>1. c.pushed \in Queues
  BY DEF CosmosState, Queues
<1>2. \A q \in QueueName : /\ c.head[q] \in Nat /\ Len(c.pushed[q]) \in Nat
                           /\ Len(p[q]) \in Nat /\ c.head[q] <= Len(c.pushed[q])
  BY DEF CosmosState, Queues
<1>3. \A q \in QueueName : c.head[q] <= Len(p[q])
  BY <1>2
<1> DEFINE d == [c EXCEPT !.pushed = p]
<1>4. d.pushed = p /\ d.head = c.head
  BY DEF CosmosState
<1>5. d \in [pushed : [QueueName -> Seq(ActionSet)], head : [QueueName -> Nat],
             out : Seq(CrankSet), exported : SUBSET CrankSet]
  BY DEF CosmosState, Queues
<1> HIDE DEF d
<1>6. d \in CosmosState
  BY <1>3, <1>4, <1>5 DEF CosmosState, Queues
<1> QED
  BY <1>1, <1>6 DEF d

LEMMA OpenType ==
  ASSUME NEW c \in CosmosState, NEW k \in KernelState, NEW h
  PROVE  /\ OpenCosmos(c, h) \in CosmosState /\ OpenCosmos(c, h).pushed = c.pushed
         /\ OpenKernel(k, h) \in KernelState
<1>1. CASE h = FirstHeight
  <2> DEFINE out == Append(c.out, Boot)
             ex == c.exported \cup {Boot}
             given == Append(k.given, Boot.action)
  <2>1. OpenCosmos(c, h) = [c EXCEPT !.out = out, !.exported = ex]
        /\ OpenKernel(k, h) = [k EXCEPT !.given = given]
    BY <1>1 DEF OpenCosmos, OpenKernel
  <2>2. out \in Seq(CrankSet) /\ ex \in SUBSET CrankSet /\ given \in Seq(ActionSet)
    BY BootIs, AppendProperties DEF CosmosState, KernelState
  <2> HIDE DEF out, ex, given
  <2> QED
    BY <2>1, <2>2 DEF CosmosState, KernelState
<1>2. CASE h # FirstHeight
  BY <1>2 DEF OpenCosmos, OpenKernel
<1> QED
  BY <1>1, <1>2

LEMMA StartType ==
  ASSUME NEW h \in Nat, NEW c \in CosmosState, NEW k \in KernelState, NEW p \in Queues,
         \A q \in QueueName : Len(c.pushed[q]) <= Len(p[q])
  PROVE  Start(h, c, k, p) \in BlockState
<1> DEFINE d == [OpenCosmos(c, h) EXCEPT !.pushed = p]
           x == Start(h, c, k, p)
<1>1. d \in CosmosState /\ OpenKernel(k, h) \in KernelState
  <2>1. OpenCosmos(c, h) \in CosmosState /\ OpenCosmos(c, h).pushed = c.pushed
        /\ OpenKernel(k, h) \in KernelState
    BY OpenType
  <2> QED
    BY <2>1, PushedType
<1>2. x = [pc |-> "leftover", deliver |-> d, kernel |-> OpenKernel(k, h), beans |-> 0,
           neverStop |-> Forced(h) # <<>>, run |-> Forced(h)]
  BY DEF Start
<1>3. Forced(h) \in Seq(ActionSet) /\ "leftover" \in ExecutionPhases
  BY ForcedType DEF ExecutionPhases
<1> HIDE DEF d, x
<1>4. x \in RunState
  BY <1>1, <1>2, <1>3 DEF RunState
<1>5. Should(x)
  <2>1. x.beans = 0 /\ 0 < BlockComputeLimit
    BY <1>2, PolicyType
  <2> QED
    BY <2>1 DEF Should
<1>6. /\ x.pc = "leftover" /\ x.run = Forced(h)
      /\ x.neverStop <=> Forced(h) # <<>>
  BY <1>2
<1>7. x \in BlockState
  BY <1>4, <1>5, <1>6 DEF BlockState
<1> QED
  BY <1>7 DEF x

-----------------------------------------------------------------------------
(* The invariant of a block, whatever crashes and restarts it takes.       *)

(* The block is executed, or it was committed by the swing-store before    *)
(* the process was restarted and is replayed. *)
Running == pc \in {"begin", "deliver", "end"} \cup ExecutionPhases /\ store.height = height
Repeating == pc \in {"begin", "deliver", "end"} /\ store.height = BlockHeight

DownInv == pc = "down" => deliver = cosmos /\ work = store /\ host = Stopped

(* What the block starts from is there before END_BLOCK. *)
LoadedInv ==
  /\ [deliver EXCEPT !.exported = @ \cup host.pendingExport] =
       [OpenCosmos(cosmos, BlockHeight) EXCEPT !.pushed = deliver.pushed]
  /\ work.kernel = OpenKernel(store.kernel, BlockHeight)
  /\ pc = "begin" => host.runThisBlock = IF host.fresh THEN Forced(BlockHeight) ELSE <<>>
  /\ pc # "begin" => host.runThisBlock = Forced(BlockHeight)
  /\ ~host.fresh => BlockHeight # FirstHeight

RunningInv ==
  /\ Split(host.sends, BlockHeight, [cosmos EXCEPT !.pushed = deliver.pushed], deliver)
  /\ pc \in {"begin", "deliver"} =>
       deliver.pushed = cosmos.pushed /\ Early(host.sends, BlockHeight)
  /\ pc \notin {"begin", "deliver"} => txs # <<>> /\ deliver.pushed = Decision
  /\ pc \in {"begin", "deliver", "end"} => LoadedInv
  /\ pc \in ExecutionPhases => Here \in BlockState /\ Leads(BlockStart, Here, BlockHeight)

RepeatInv ==
  /\ deliver = IF pc = "end" THEN Base ELSE cosmos
  /\ work.kernel = store.kernel /\ host.sends = store.sends
  /\ host.pendingExport = {} /\ host.runThisBlock = <<>>

CommitInv ==
  /\ pc \in {"commit", "cosmosCommit"} =>
       /\ BlockHeight \in DOMAIN final /\ deliver = final[BlockHeight]
       /\ host.pendingExport = {} /\ host.runThisBlock = <<>>
  /\ pc = "commit" =>
       /\ Split(host.sends, BlockHeight, Base, deliver)
       /\ store.height = BlockHeight => work.kernel = store.kernel
  /\ pc = "cosmosCommit" => host.sends = <<>> /\ work = store

(* Only the block that is executed after a restart carries downcalls over. *)
CarriedInv ==
  store.height = BlockHeight /\ pc # "cosmosCommit" =>
    \A i \in 1..Len(store.sends) : store.sends[i].at = BlockHeight

(* What was decided on before the last crash. *)
DecidedInv ==
  /\ \A h \in DOMAIN final : h <= BlockHeight
  /\ height # 0 => FirstHeight <= height /\ height \in DOMAIN final /\ cosmos = final[height]
  /\ \A i \in 1..Len(store.sends) : store.sends[i].at <= store.height
  /\ BlockHeight \in DOMAIN final => txs # <<>>
  /\ BlockHeight \in DOMAIN final /\ store.height = height =>
       \E z : /\ Leads(BlockStart, z, BlockHeight) /\ z.pc = "finish"
              /\ z.deliver = final[BlockHeight]
  /\ store.height = BlockHeight =>
       BlockHeight \in DOMAIN final /\ Split(store.sends, BlockHeight, Base, final[BlockHeight])

BlockInv ==
  /\ HeightInv /\ Typed
  /\ pc # "panic"
  /\ DownInv
  /\ Running => RunningInv
  /\ Repeating => RepeatInv
  /\ CommitInv /\ CarriedInv /\ DecidedInv

LEMMA BlockHeightStays ==
  ASSUME height' = height
  PROVE  BlockHeight' = BlockHeight
BY DEF BlockHeight

\* A step of END_BLOCK becomes s, and leaves run of the forced actions.
Became(s, run) ==
  /\ deliver' = s.deliver
  /\ work' = [work EXCEPT !.kernel = s.kernel]
  /\ host' = [host EXCEPT !.sends = s.sends, !.pendingExport = s.pendingExport,
                          !.runThisBlock = run]
  /\ policy' = [policy EXCEPT !.beans = s.beans]

LEMMA BecomeIs ==
  ASSUME Typed, NEW s, Become(s)
  PROVE  Became(s, host.runThisBlock)
BY DEF Become, Became, Typed, HostState

LEMMA BecameTyped ==
  ASSUME Typed, NEW s \in WorkState, NEW run \in Seq(ActionSet), Became(s, run),
         UNCHANGED <<cosmos, store, txs, final>>
  PROVE  /\ Typed' /\ host'.runThisBlock = run /\ host'.sends = s.sends
         /\ Here' = Abs(s, pc', run)
<1>1. host' \in HostState /\ host'.sends = s.sends /\ host'.runThisBlock = run
      /\ host'.pendingExport = s.pendingExport
  BY DEF Typed, Became, WorkState, HostState
<1>2. work' \in StoreState /\ work'.kernel = s.kernel
  BY DEF Typed, Became, WorkState, StoreState
<1>3. /\ policy' \in PolicyState /\ policy'.beans = s.beans
      /\ policy'.neverStop = policy.neverStop
  BY DEF Typed, Became, WorkState, PolicyState
<1>4. deliver' \in CosmosState /\ deliver' = s.deliver
  BY DEF Became, WorkState
<1>5. Typed'
  BY <1>1, <1>2, <1>3, <1>4 DEF Typed
<1>6. Here' = Abs(s, pc', run)
  BY <1>1, <1>2, <1>3, <1>4 DEF Here, Abs, Now
<1> QED
  BY <1>1, <1>5, <1>6

\* What is known in the phases of END_BLOCK.
LEMMA InExecution ==
  ASSUME BlockInv, pc \in ExecutionPhases
  PROVE  /\ Typed /\ height \in Nat /\ BlockHeight \in Nat /\ store.height = height
         /\ RunningInv /\ Here \in BlockState /\ Now \in WorkState
         /\ host.runThisBlock \in Seq(ActionSet) /\ host.runThisBlock = Here.run
         /\ Here.pc = pc /\ ShouldRun(Now) = Should(Here)
<1>1. HeightInv /\ Typed
  BY DEF BlockInv
<1>2. store.height = height /\ height \in Nat
  BY <1>1 DEF HeightInv, HeightsByPhase, Executing
<1>3. Running
  BY <1>2 DEF Running
<1>4. RunningInv
  BY <1>3 DEF BlockInv
<1>5. Here \in BlockState
  BY <1>4 DEF RunningInv
<1>6. host.runThisBlock \in Seq(ActionSet)
  BY <1>1 DEF Typed, HostState
<1>7. /\ Here.pc = pc /\ ShouldRun(Now) = Should(Here) /\ Here.run = host.runThisBlock
  BY DEF Here, Abs, ShouldRun, Should
<1> QED
  BY <1>1, <1>2, <1>4, <1>5, <1>6, <1>7, NowType, BlockHeightAdvances

(* One step of END_BLOCK, which flushes export data or is the next phase.  *)
LEMMA BlockStep ==
  ASSUME BlockInv, HeightInv', UNCHANGED <<height, cosmos, store, txs, final>>,
         pc \in ExecutionPhases, pc' \in ExecutionPhases,
         NEW s \in WorkState, NEW run \in Seq(ActionSet), Became(s, run),
         Split(s.sends, BlockHeight, [cosmos EXCEPT !.pushed = deliver.pushed], s.deliver),
         s.deliver.pushed = deliver.pushed,
         Abs(s, pc', run) = Here \/ Abs(s, pc', run) = Phase(Here, BlockHeight)
  PROVE  BlockInv'
<1>1. /\ Typed /\ height \in Nat /\ BlockHeight \in Nat /\ store.height = height
      /\ RunningInv /\ Here \in BlockState
  BY InExecution
<1>2. Typed' /\ host'.sends = s.sends /\ deliver' = s.deliver /\ Here' = Abs(s, pc', run)
  BY <1>1, BecameTyped DEF Became
<1>3. BlockHeight' = BlockHeight /\ BlockHeight # height
  BY <1>1, BlockHeightStays, BlockHeightAdvances
<1>4. Leads(BlockStart, Here, BlockHeight) /\ txs # <<>> /\ deliver.pushed = Decision
  BY <1>1 DEF RunningInv, ExecutionPhases, QueueName
<1>5. Here' \in BlockState /\ Leads(BlockStart, Here', BlockHeight)
  BY <1>1, <1>2, <1>4, PhaseType, LeadsMore
<1>6. BlockStart' = BlockStart /\ Decision' = Decision /\ Base' = Base
  BY <1>3 DEF BlockStart, Decision, Base
<1>7. pc' \notin {"begin", "deliver", "end", "down", "commit", "cosmosCommit", "panic"}
  BY DEF ExecutionPhases, QueueName
<1>8. RunningInv'
  BY <1>2, <1>3, <1>4, <1>5, <1>6, <1>7 DEF RunningInv
<1>9. ~Repeating' /\ CommitInv' /\ CarriedInv' /\ DownInv'
  BY <1>1, <1>3, <1>7 DEF Repeating, CommitInv, CarriedInv, DownInv
<1>10. DecidedInv'
  BY <1>3, <1>6 DEF BlockInv, DecidedInv
<1> QED
  BY <1>2, <1>7, <1>8, <1>9, <1>10 DEF BlockInv

Left(x, run) == [x EXCEPT !.run = run]

LEMMA AbsAt ==
  ASSUME NEW s, NEW l, NEW m, NEW run, NEW r
  PROVE  /\ Abs(s, m, run) = At(Abs(s, l, run), m)
         /\ Abs(s, m, r) = Left(At(Abs(s, l, run), m), r)
         /\ ShouldRun(s) = Should(Abs(s, l, run))
<1> DEFINE c == [s.deliver EXCEPT !.exported = @ \cup s.pendingExport]
           R(x, y) == [pc |-> x, deliver |-> c, kernel |-> s.kernel, beans |-> s.beans,
                       neverStop |-> policy.neverStop, run |-> y]
<1>1. \A x, y : Abs(s, x, y) = R(x, y)
  BY DEF Abs
<1> HIDE DEF c
<1>2. R(m, run) = [R(l, run) EXCEPT !.pc = m] /\ R(m, r) = [R(m, run) EXCEPT !.run = r]
  OBVIOUS
<1> HIDE DEF R
<1>3. Abs(s, m, run) = At(Abs(s, l, run), m)
  BY <1>1, <1>2 DEF At
<1>4. Abs(s, m, r) = Left(At(Abs(s, l, run), m), r)
  BY <1>3, <1>1, <1>2 DEF Left
<1>5. ShouldRun(s) = Should(Abs(s, l, run))
  BY DEF Abs, ShouldRun, Should
<1> QED
  BY <1>3, <1>4, <1>5

LEMMA ActionsAreSteps ==
  ASSUME BlockInv, Step
  PROVE  HeightInv'
<1>1. HeightInv /\ [Next]_vars
  BY DEF BlockInv, Next
<1> QED
  BY <1>1, HeightInvInductive

LEMMA LeftoverKeepsBlock == ASSUME BlockInv, RunLeftover PROVE BlockInv'
<1> DEFINE s == RunSwingset(Now)
           c == [cosmos EXCEPT !.pushed = deliver.pushed]
           run == host.runThisBlock
<1>1. pc = "leftover" /\ pc \in ExecutionPhases
  BY DEF RunLeftover, ExecutionPhases
<1>2. /\ Typed /\ BlockHeight \in Nat /\ RunningInv /\ Here \in BlockState /\ Now \in WorkState
      /\ run \in Seq(ActionSet) /\ run = Here.run /\ Here.pc = pc /\ ShouldRun(Now) = Should(Here)
  BY <1>1, InExecution
<1> DEFINE label == IF ~ShouldRun(s) THEN "finish"
                    ELSE IF run # <<>> THEN "forced" ELSE "priority"
<1>3. Become(s) /\ pc' = label /\ UNCHANGED <<height, cosmos, store, txs, final>>
  <2> HIDE DEF s
  <2>1. RunLeftover => Become(s) /\ GoTo(label)
    BY DEF RunLeftover, s
  <2> QED
    BY <2>1 DEF RunLeftover, GoTo
<1>4. Split(Now.sends, BlockHeight, c, Now.deliver) /\ Now.deliver = deliver
  BY <1>2 DEF RunningInv, Now
<1>5. ShouldRun(Now)
  BY <1>1, <1>2 DEF BlockState
<1>6. /\ s \in WorkState /\ Split(s.sends, BlockHeight, c, s.deliver)
      /\ s.deliver.pushed = deliver.pushed
  BY <1>2, <1>4, <1>5, RunSwingsetTraced
<1>7. Abs(s, pc, run) = Run(Here)
  BY <1>1, <1>2, RunIsRun DEF Here
<1>8. pc' \in ExecutionPhases
  BY <1>3 DEF ExecutionPhases, QueueName
<1> HIDE DEF s
<1>9. Abs(s, pc', run) = At(Run(Here), pc') /\ ShouldRun(s) = Should(Run(Here))
  BY <1>7, AbsAt
<1>10. Phase(Here, BlockHeight) = At(Run(Here), pc')
  BY <1>1, <1>2, <1>3, <1>9 DEF Phase, QueueName
<1>11. Became(s, run)
  BY <1>2, <1>3, BecomeIs
<1> QED
  BY <1>1, <1>2, <1>3, <1>6, <1>8, <1>9, <1>10, <1>11, BlockStep, ActionsAreSteps DEF Step

\* An action is handed to the kernel.
LEMMA PerformIs ==
  ASSUME Typed, NEW w \in WorkState, NEW a \in ActionSet, NEW l, NEW run,
         NEW z, z = [w EXCEPT !.kernel = PerformAction(@, a)]
  PROVE  /\ z \in WorkState /\ z.deliver = w.deliver /\ z.sends = w.sends /\ z.beans = w.beans
         /\ Abs(z, l, run) = Ask(Abs(w, l, run), a)
<1> DEFINE given == Append(w.kernel.given, a)
           queue == w.kernel.runQueue \o CrankSeq(a)
           kl == [w.kernel EXCEPT !.given = given, !.runQueue = queue]
<1>1. PerformAction(w.kernel, a) = kl
  BY DEF PerformAction, WorkState, KernelState
<1>2. given \in Seq(ActionSet) /\ queue \in Seq(CrankSet)
  BY CrankSeqIs, ConcatProperties, AppendProperties DEF WorkState, KernelState
<1> HIDE DEF given, queue
<1>3. kl \in KernelState
  BY <1>2 DEF WorkState, KernelState
<1> HIDE DEF kl
<1>4. z = [w EXCEPT !.kernel = kl]
  BY <1>1
<1>5. z \in WorkState /\ z.kernel = kl /\ z.deliver = w.deliver /\ z.sends = w.sends
      /\ z.beans = w.beans /\ z.pendingExport = w.pendingExport
  BY <1>3, <1>4 DEF WorkState
<1>6. Abs(z, l, run) = [Abs(w, l, run) EXCEPT !.kernel = kl]
  <2> DEFINE c == [w.deliver EXCEPT !.exported = @ \cup w.pendingExport]
  <2>1. /\ Abs(z, l, run) = [pc |-> l, deliver |-> c, kernel |-> kl, beans |-> w.beans,
                             neverStop |-> policy.neverStop, run |-> run]
        /\ Abs(w, l, run) = [pc |-> l, deliver |-> c, kernel |-> w.kernel, beans |-> w.beans,
                             neverStop |-> policy.neverStop, run |-> run]
    BY <1>5 DEF Abs
  <2> HIDE DEF c
  <2> QED
    BY <2>1
<1>7. Ask(Abs(w, l, run), a) = [Abs(w, l, run) EXCEPT !.kernel = kl]
  BY <1>1 DEF Ask, Abs
<1> QED
  BY <1>5, <1>6, <1>7

LEMMA ForcedKeepsBlock == ASSUME BlockInv, RunForced PROVE BlockInv'
<1> DEFINE run == host.runThisBlock
           a == Head(run)
           z == [Now EXCEPT !.kernel = PerformAction(@, a)]
           s == RunSwingset(z)
           c == [cosmos EXCEPT !.pushed = deliver.pushed]
           label == IF ShouldRun(s) /\ Len(run) > 1 THEN "forced" ELSE "finish"
<1>1. pc = "forced" /\ pc \in ExecutionPhases /\ run # <<>>
  BY DEF RunForced, ExecutionPhases
<1>2. /\ Typed /\ BlockHeight \in Nat /\ RunningInv /\ Here \in BlockState /\ Now \in WorkState
      /\ run \in Seq(ActionSet) /\ run = Here.run /\ Here.pc = pc /\ ShouldRun(Now) = Should(Here)
  BY <1>1, InExecution
<1>3. /\ pc' = label /\ UNCHANGED <<height, cosmos, store, txs, final>>
      /\ deliver' = s.deliver
      /\ work' = [work EXCEPT !.kernel = s.kernel]
      /\ host' = [host EXCEPT !.sends = s.sends, !.pendingExport = s.pendingExport,
                              !.runThisBlock = Tail(@)]
      /\ policy' = [policy EXCEPT !.beans = s.beans]
  BY DEF RunForced, GoTo
<1>4. a \in ActionSet /\ Tail(run) \in Seq(ActionSet)
  BY <1>1, <1>2, HeadTailOf DEF BlockState
<1>5. /\ z \in WorkState /\ z.deliver = Now.deliver /\ z.sends = Now.sends /\ z.beans = Now.beans
      /\ Abs(z, pc, run) = Ask(Here, a)
  BY <1>2, <1>4, PerformIs DEF Here
<1> HIDE DEF z, a
<1>6. Split(z.sends, BlockHeight, c, z.deliver) /\ z.deliver = deliver
  BY <1>2, <1>5 DEF RunningInv, Now
<1>7. ShouldRun(z)
  BY <1>1, <1>2, <1>5 DEF BlockState, ShouldRun
<1>8. /\ s \in WorkState /\ Split(s.sends, BlockHeight, c, s.deliver)
      /\ s.deliver.pushed = deliver.pushed
  BY <1>2, <1>5, <1>6, <1>7, RunSwingsetTraced
<1>9. Abs(s, pc, run) = Run(Ask(Here, a))
  BY <1>1, <1>2, <1>5, RunIsRun
<1>10. pc' \in ExecutionPhases
  BY <1>3 DEF ExecutionPhases
<1> HIDE DEF s
<1>11. /\ Abs(s, pc', Tail(run)) = Left(At(Run(Ask(Here, a)), pc'), Tail(run))
       /\ ShouldRun(s) = Should(Run(Ask(Here, a)))
  BY <1>9, AbsAt
<1>12. Phase(Here, BlockHeight) = Abs(s, pc', Tail(run))
  <2> DEFINE y == Run(Ask(Here, a))
  <2>1. At(y, pc').run = run
    BY <1>9 DEF At, Abs
  <2>2. Phase(Here, BlockHeight) = [At(y, pc') EXCEPT !.run = Tail(@)]
    BY <1>1, <1>2, <1>3, <1>11 DEF Phase, QueueName, a
  <2> HIDE DEF y
  <2> QED
    BY <1>11, <2>1, <2>2 DEF y, Left
<1>13. Became(s, Tail(run))
  BY <1>2, <1>3 DEF Became, Typed, HostState
<1> HIDE DEF label
<1> QED
  BY <1>1, <1>2, <1>3, <1>4, <1>8, <1>10, <1>12, <1>13, BlockStep, ActionsAreSteps DEF Step

LEMMA TimerKeepsBlock == ASSUME BlockInv, RunTimer PROVE BlockInv'
<1> DEFINE run == host.runThisBlock
           due == InOrder(Due)
           cranks == TimerCranks(due)
           polled == [work.kernel EXCEPT !.woken = @ \cup Due, !.runQueue = @ \o cranks]
           z == [Now EXCEPT !.kernel = polled]
           s == RunSwingset(z)
           c == [cosmos EXCEPT !.pushed = deliver.pushed]
           label == IF ShouldRun(s) THEN "inbound" ELSE "finish"
<1>1. pc = "timer" /\ pc \in ExecutionPhases
  BY DEF RunTimer, ExecutionPhases
<1>2. /\ Typed /\ BlockHeight \in Nat /\ RunningInv /\ Here \in BlockState /\ Now \in WorkState
      /\ run \in Seq(ActionSet) /\ run = Here.run /\ Here.pc = pc /\ ShouldRun(Now) = Should(Here)
  BY <1>1, InExecution
<1>3. Become(s) /\ pc' = label /\ UNCHANGED <<height, cosmos, store, txs, final>>
  <2>1. RunTimer => Become(s) /\ GoTo(label)
    BY DEF RunTimer, TimerCranks
  <2> HIDE DEF s
  <2> QED
    BY <2>1 DEF RunTimer, GoTo
<1>4. Here.kernel = work.kernel /\ Due = DueOf(Here, BlockHeight)
  BY DEF Here, Abs, Now, Due, DueOf
<1>5. polled = Poll(Here, BlockHeight).kernel
  <2>1. Here \in RunState
    BY <1>2 DEF BlockState
  <2> QED
    BY <1>4, <2>1 DEF Poll, RunState, KernelState
<1>6. Poll(Here, BlockHeight) \in RunState
  BY <1>2, PollPolls DEF BlockState
<1>7. polled \in KernelState
  BY <1>5, <1>6 DEF RunState
<1>8. Poll(Here, BlockHeight) = [Here EXCEPT !.kernel = polled]
  <2>1. Here \in RunState
    BY <1>2 DEF BlockState
  <2> QED
    BY <1>4, <2>1 DEF Poll, RunState, KernelState
<1> HIDE DEF polled
<1>9. /\ z \in WorkState /\ z.deliver = Now.deliver /\ z.sends = Now.sends /\ z.beans = Now.beans
      /\ z.kernel = polled /\ z.pendingExport = Now.pendingExport
  BY <1>2, <1>7 DEF WorkState
<1> HIDE DEF z
<1>10. Abs(z, pc, run) = Poll(Here, BlockHeight)
  <2> DEFINE d == [Now.deliver EXCEPT !.exported = @ \cup Now.pendingExport]
  <2>1. /\ Abs(z, pc, run) = [pc |-> pc, deliver |-> d, kernel |-> polled, beans |-> Now.beans,
                              neverStop |-> policy.neverStop, run |-> run]
        /\ Here = [pc |-> pc, deliver |-> d, kernel |-> Now.kernel, beans |-> Now.beans,
                   neverStop |-> policy.neverStop, run |-> run]
    BY <1>9 DEF Abs, Here
  <2> HIDE DEF d
  <2> QED
    BY <1>8, <2>1
<1>11. Split(z.sends, BlockHeight, c, z.deliver) /\ z.deliver = deliver
  BY <1>2, <1>9 DEF RunningInv, Now
<1>12. ShouldRun(z)
  BY <1>1, <1>2, <1>9 DEF BlockState, ShouldRun
<1>13. /\ s \in WorkState /\ Split(s.sends, BlockHeight, c, s.deliver)
       /\ s.deliver.pushed = deliver.pushed
  BY <1>2, <1>9, <1>11, <1>12, RunSwingsetTraced
<1>14. Abs(s, pc, run) = Run(Poll(Here, BlockHeight))
  BY <1>1, <1>2, <1>9, <1>10, RunIsRun
<1>15. pc' \in ExecutionPhases
  BY <1>3 DEF ExecutionPhases, QueueName
<1> HIDE DEF s
<1>16. /\ Abs(s, pc', run) = At(Run(Poll(Here, BlockHeight)), pc')
       /\ ShouldRun(s) = Should(Run(Poll(Here, BlockHeight)))
  BY <1>14, AbsAt
<1>17. Phase(Here, BlockHeight) = At(Run(Poll(Here, BlockHeight)), pc')
  BY <1>1, <1>2, <1>3, <1>16 DEF Phase, QueueName
<1>18. Became(s, run)
  BY <1>2, <1>3, BecomeIs
<1> HIDE DEF label
<1> QED
  BY <1>1, <1>2, <1>3, <1>13, <1>15, <1>16, <1>17, <1>18, BlockStep, ActionsAreSteps DEF Step

\* A downcall that looks at a queue.
LEMMA TakeTraced ==
  ASSUME Typed, BlockHeight \in Nat, NEW c, NEW q \in QueueName,
         Split(Now.sends, BlockHeight, c, Now.deliver),
         deliver.head[q] < Len(deliver.pushed[q]),
         NEW i, i = deliver.head[q] + 1,
         NEW y, y = ChainSend(Now, Send("take", [q |-> q, i |-> i]))
  PROVE  /\ y \in WorkState /\ Split(y.sends, BlockHeight, c, y.deliver)
         /\ y.deliver = [deliver EXCEPT !.head[q] = i]
         /\ y.beans = Now.beans /\ y.kernel = Now.kernel
         /\ y.pendingExport = Now.pendingExport
<1> DEFINE send == Send("take", [q |-> q, i |-> i])
           d == [deliver EXCEPT !.head[q] = i]
           r == Record(deliver, send)
           sends == Append(host.sends, r)
<1>1. Now \in WorkState /\ Now.deliver = deliver /\ Now.sends = host.sends
  BY NowType DEF Now
<1>2. deliver \in CosmosState /\ deliver \in CosmosRecord /\ host.sends \in Seq(SendSet)
  BY CosmosStateIs DEF Typed, HostState
<1>3. i \in Nat /\ i <= Len(deliver.pushed[q])
  BY <1>2 DEF CosmosState
<1>4. Effect(deliver, send) = d
  BY DEF Effect, Send
<1>5. y = [Now EXCEPT !.deliver = d, !.sends = sends]
  BY <1>1, <1>4 DEF ChainSend
<1>6. d \in CosmosState
  <2> DEFINE head == [deliver.head EXCEPT ![q] = i]
  <2>1. d = [deliver EXCEPT !.head = head]
    OBVIOUS
  <2>2. head \in [QueueName -> Nat] /\ \A p \in QueueName : head[p] <= Len(deliver.pushed[p])
    BY <1>2, <1>3 DEF CosmosState
  <2> HIDE DEF head
  <2> QED
    BY <1>2, <2>1, <2>2 DEF CosmosState
<1>7. Return(deliver, send) \in SUBSET ActionSet
  <2>1. Return(deliver, send) =
          {deliver.pushed[q][j] : j \in {i} \cap (deliver.head[q] + 1)..Len(deliver.pushed[q])}
    BY DEF Return, Send
  <2>2. \A j \in {i} \cap (deliver.head[q] + 1)..Len(deliver.pushed[q]) :
          deliver.pushed[q][j] \in ActionSet
    BY <1>2, <1>3 DEF CosmosState
  <2> QED
    BY <2>1, <2>2
<1>8. r = [op |-> "take", arg |-> [q |-> q, i |-> i], ret |-> Return(deliver, send),
           at |-> BlockHeight]
  BY DEF Record, Send
<1>9. r \in SendSet
  BY <1>3, <1>7, <1>8 DEF SendSet
<1>10. Does(deliver, r, d) /\ r.at = BlockHeight
  BY <1>4, <1>8, SameDowncall DEF Does
<1>11. d \in CosmosRecord
  BY <1>6, CosmosStateIs
<1> HIDE DEF d, r, send
<1>12. sends \in Seq(SendSet) /\ Split(sends, BlockHeight, c, d)
  BY <1>1, <1>2, <1>9, <1>10, <1>11, SplitOne
<1> HIDE DEF sends
<1>13. /\ y \in WorkState /\ y.deliver = d /\ y.sends = sends /\ y.kernel = Now.kernel
       /\ y.beans = Now.beans /\ y.pendingExport = Now.pendingExport
  BY <1>1, <1>5, <1>6, <1>12 DEF WorkState
<1> QED
  BY <1>12, <1>13 DEF d

LEMMA ProcessKeepsBlock ==
  ASSUME BlockInv, NEW q \in QueueName, ProcessAction(q)
  PROVE  BlockInv'
<1> DEFINE run == host.runThisBlock
           i == deliver.head[q] + 1
           a == deliver.pushed[q][i]
           y == ChainSend(Now, Send("take", [q |-> q, i |-> i]))
           z == [y EXCEPT !.kernel = PerformAction(@, a)]
           s == RunSwingset(z)
           c == [cosmos EXCEPT !.pushed = deliver.pushed]
           label == IF ShouldRun(s) THEN q ELSE IF q = "priority" THEN "finish" ELSE "cleanup"
<1>1. pc = q /\ pc \in ExecutionPhases
  BY DEF ProcessAction, ExecutionPhases
<1>2. /\ Typed /\ BlockHeight \in Nat /\ RunningInv /\ Here \in BlockState /\ Now \in WorkState
      /\ run \in Seq(ActionSet) /\ run = Here.run /\ Here.pc = pc /\ ShouldRun(Now) = Should(Here)
  BY <1>1, InExecution
<1>3. Become(s) /\ pc' = label /\ UNCHANGED <<height, cosmos, store, txs, final>>
      /\ deliver.head[q] < Len(deliver.pushed[q])
  <2>1. ProcessAction(q) => Become(s) /\ GoTo(label)
    BY DEF ProcessAction
  <2> HIDE DEF s
  <2> QED
    BY <2>1 DEF ProcessAction, GoTo
<1>4. Split(Now.sends, BlockHeight, c, Now.deliver) /\ Now.deliver = deliver
  BY <1>2 DEF RunningInv, Now
<1>5. /\ y \in WorkState /\ Split(y.sends, BlockHeight, c, y.deliver)
      /\ y.deliver = [deliver EXCEPT !.head[q] = i]
      /\ y.beans = Now.beans /\ y.kernel = Now.kernel
      /\ y.pendingExport = Now.pendingExport
  BY <1>2, <1>3, <1>4, TakeTraced
<1> HIDE DEF y
<1> DEFINE x == [Here EXCEPT !.deliver.head[q] = i]
<1>6. /\ Here \in RunState /\ Here.deliver.head = deliver.head
      /\ Here.deliver.pushed = deliver.pushed
  BY <1>2 DEF BlockState, Here, Abs, Now, Typed, CosmosState
<1>7. a \in ActionSet /\ Take(Here, q) = Ask(x, a)
  <2>1. a \in ActionSet
    BY <1>3, <1>6, TakeTakes
  <2> QED
    BY <1>6, <2>1 DEF Take
<1>8. Abs(y, pc, run) = x
  <2> DEFINE d == [deliver EXCEPT !.exported = @ \cup Now.pendingExport]
             head == [deliver.head EXCEPT ![q] = i]
             d2 == [d EXCEPT !.head = head]
             R(u) == [pc |-> pc, deliver |-> u, kernel |-> Now.kernel, beans |-> Now.beans,
                      neverStop |-> policy.neverStop, run |-> run]
  <2>1. Here = R(d)
    BY <1>4 DEF Here, Abs
  <2>2. [y.deliver EXCEPT !.exported = @ \cup y.pendingExport] = d2
    BY <1>2, <1>5 DEF Typed, CosmosState
  <2>3. Abs(y, pc, run) = R(d2)
    BY <1>5, <2>2 DEF Abs
  <2>4. x = [Here EXCEPT !.deliver = d2]
    <3>1. [Here.deliver EXCEPT !.head[q] = i] = d2
      <4>1. Here.deliver = d
        BY <2>1
      <4>2. d \in CosmosState /\ d.head = deliver.head
        BY <1>6, <4>1 DEF RunState
      <4> HIDE DEF d
      <4> QED
        BY <4>1, <4>2 DEF CosmosState
    <3> HIDE DEF d2
    <3> QED
      BY <1>6, <3>1 DEF RunState
  <2> HIDE DEF d, d2
  <2> QED
    BY <2>1, <2>3, <2>4
<1> HIDE DEF x, a
<1>9. /\ z \in WorkState /\ z.deliver = y.deliver /\ z.sends = y.sends /\ z.beans = y.beans
      /\ Abs(z, pc, run) = Ask(x, a)
  BY <1>2, <1>5, <1>7, <1>8, PerformIs
<1> HIDE DEF z
<1>10. Split(z.sends, BlockHeight, c, z.deliver) /\ z.deliver.pushed = deliver.pushed
  BY <1>2, <1>5, <1>9 DEF Typed, CosmosState
<1>11. ShouldRun(z)
  BY <1>1, <1>2, <1>5, <1>9 DEF BlockState, ShouldRun, QueueName
<1>12. /\ s \in WorkState /\ Split(s.sends, BlockHeight, c, s.deliver)
       /\ s.deliver.pushed = deliver.pushed
  BY <1>2, <1>9, <1>10, <1>11, RunSwingsetTraced
<1>13. Abs(s, pc, run) = Run(Take(Here, q))
  BY <1>1, <1>2, <1>7, <1>9, RunIsRun
<1>14. pc' \in ExecutionPhases
  BY <1>3 DEF ExecutionPhases, QueueName
<1> HIDE DEF s
<1>15. /\ Abs(s, pc', run) = At(Run(Take(Here, q)), pc')
       /\ ShouldRun(s) = Should(Run(Take(Here, q)))
  BY <1>13, AbsAt
<1>16. Phase(Here, BlockHeight) = At(Run(Take(Here, q)), pc')
  BY <1>1, <1>2, <1>3, <1>6, <1>15 DEF Phase, QueueName
<1>17. Became(s, run)
  BY <1>2, <1>3, BecomeIs
<1> HIDE DEF label
<1> QED
  BY <1>1, <1>2, <1>3, <1>12, <1>14, <1>15, <1>16, <1>17, BlockStep, ActionsAreSteps DEF Step

LEMMA QueueDoneKeepsBlock ==
  ASSUME BlockInv, NEW q \in QueueName, QueueDone(q)
  PROVE  BlockInv'
<1> DEFINE run == host.runThisBlock
           c == [cosmos EXCEPT !.pushed = deliver.pushed]
<1>1. pc = q /\ pc \in ExecutionPhases /\ pc' = AfterQueue(q)
  BY DEF QueueDone, ExecutionPhases, GoTo
<1>2. /\ Typed /\ BlockHeight \in Nat /\ RunningInv /\ Here \in BlockState /\ Now \in WorkState
      /\ run \in Seq(ActionSet) /\ run = Here.run /\ Here.pc = pc
  BY <1>1, InExecution
<1>3. Split(Now.sends, BlockHeight, c, Now.deliver) /\ Now.deliver = deliver
  BY <1>2 DEF RunningInv, Now
<1>4. Became(Now, run) /\ UNCHANGED <<height, cosmos, store, txs, final>>
  BY <1>2 DEF QueueDone, Became, Now, Typed, HostState, StoreState, PolicyState
<1>5. pc' \in ExecutionPhases
  BY <1>1 DEF AfterQueue, ExecutionPhases
<1>6. Abs(Now, pc', run) = At(Here, pc')
  BY AbsAt DEF Here
<1>7. ~(Here.deliver.head[q] < Len(Here.deliver.pushed[q]))
  <2>1. Here.deliver.head = deliver.head /\ Here.deliver.pushed = deliver.pushed
    BY <1>2 DEF Here, Abs, Now, Typed, CosmosState
  <2>2. deliver.head[q] = Len(deliver.pushed[q]) /\ Len(deliver.pushed[q]) \in Nat
    BY <1>2 DEF QueueDone, Typed, CosmosState
  <2> QED
    BY <2>1, <2>2
<1>8. Phase(Here, BlockHeight) = At(Here, pc')
  BY <1>1, <1>2, <1>7 DEF Phase, QueueName
<1> QED
  BY <1>1, <1>2, <1>3, <1>4, <1>5, <1>6, <1>8, BlockStep, ActionsAreSteps DEF Step

LEMMA CleanupKeepsBlock == ASSUME BlockInv, RunCleanup PROVE BlockInv'
<1> DEFINE run == host.runThisBlock
           c == [cosmos EXCEPT !.pushed = deliver.pushed]
           dead == IF policy.beans # 0 THEN work.kernel.dead
                   ELSE IF work.kernel.dead < CleanupBudget THEN 0
                   ELSE work.kernel.dead - CleanupBudget
           kl == [work.kernel EXCEPT !.dead = dead]
           s == [Now EXCEPT !.kernel = kl]
<1>1. pc = "cleanup" /\ pc \in ExecutionPhases /\ pc' = "finish" /\ pc' \in ExecutionPhases
  BY DEF RunCleanup, ExecutionPhases, GoTo
<1>2. /\ Typed /\ BlockHeight \in Nat /\ RunningInv /\ Here \in BlockState /\ Now \in WorkState
      /\ run \in Seq(ActionSet) /\ run = Here.run /\ Here.pc = pc
  BY <1>1, InExecution
<1>3. work' = [work EXCEPT !.kernel = kl]
  BY <1>2 DEF RunCleanup, Typed, StoreState
<1>4. dead \in Nat
  <2>1. work.kernel.dead \in Nat
    BY <1>2 DEF Typed, StoreState, KernelState
  <2> QED
    BY <2>1, PolicyType
<1>5. Forget(Here) = [Here EXCEPT !.kernel = kl]
  <2>1. Here.kernel = work.kernel /\ Here.beans = policy.beans /\ Here \in RunState
    BY <1>2 DEF Here, Abs, Now, BlockState
  <2> QED
    BY <2>1 DEF Forget, RunState, KernelState
<1> HIDE DEF dead
<1>6. kl \in KernelState
  BY <1>2, <1>4 DEF Typed, StoreState, KernelState
<1> HIDE DEF kl
<1>7. /\ s \in WorkState /\ s.deliver = deliver /\ s.sends = host.sends /\ s.kernel = kl
      /\ s.beans = policy.beans /\ s.pendingExport = host.pendingExport
  BY <1>2, <1>6 DEF WorkState, Now
<1> HIDE DEF s
<1>8. Split(s.sends, BlockHeight, c, s.deliver)
  BY <1>2, <1>7 DEF RunningInv
<1>9. Became(s, run) /\ UNCHANGED <<height, cosmos, store, txs, final>>
  BY <1>2, <1>3, <1>7 DEF RunCleanup, Became, Typed, HostState, PolicyState
<1>10. Abs(s, pc, run) = [Here EXCEPT !.kernel = kl]
  <2> DEFINE d == [deliver EXCEPT !.exported = @ \cup host.pendingExport]
  <2>1. /\ Abs(s, pc, run) = [pc |-> pc, deliver |-> d, kernel |-> kl, beans |-> policy.beans,
                              neverStop |-> policy.neverStop, run |-> run]
        /\ Here = [pc |-> pc, deliver |-> d, kernel |-> work.kernel, beans |-> policy.beans,
                   neverStop |-> policy.neverStop, run |-> run]
    BY <1>7 DEF Abs, Here, Now
  <2> HIDE DEF d
  <2> QED
    BY <2>1
<1>11. Abs(s, pc', run) = At(Abs(s, pc, run), pc')
  BY AbsAt
<1>12. Phase(Here, BlockHeight) = Abs(s, pc', run)
  BY <1>1, <1>2, <1>5, <1>10, <1>11 DEF Phase, QueueName
<1> QED
  BY <1>1, <1>2, <1>7, <1>8, <1>9, <1>12, BlockStep, ActionsAreSteps DEF Step

\* Export data is flushed.
Flushed(s, c) ==
  /\ s \in WorkState /\ Split(s.sends, BlockHeight, c, s.deliver)
  /\ s.deliver = [deliver EXCEPT !.exported = @ \cup host.pendingExport]
  /\ s.pendingExport = {} /\ s.kernel = work.kernel /\ s.beans = policy.beans
  /\ s.deliver.pushed = deliver.pushed
  /\ \E r \in SendSet : s.sends = Append(host.sends, r) /\ r.op = "export"
  /\ \A l, run : Abs(s, l, run) = Abs(Now, l, run)

LEMMA FlushTraced ==
  ASSUME Typed, BlockHeight \in Nat, NEW c,
         Split(Now.sends, BlockHeight, c, Now.deliver),
         NEW y, y = ChainSend(Now, Send("export", host.pendingExport)),
         NEW s, s = [y EXCEPT !.pendingExport = {}]
  PROVE  Flushed(s, c)
<1> DEFINE send == Send("export", host.pendingExport)
           ex == deliver.exported \cup host.pendingExport
           d == [deliver EXCEPT !.exported = ex]
           r == Record(deliver, send)
           sends == Append(host.sends, r)
<1>1. Now \in WorkState /\ Now.deliver = deliver /\ Now.sends = host.sends
      /\ Now.pendingExport = host.pendingExport /\ Now.beans = policy.beans
      /\ Now.kernel = work.kernel
  BY NowType DEF Now
<1>2. deliver \in CosmosState /\ deliver \in CosmosRecord /\ host.sends \in Seq(SendSet)
      /\ host.pendingExport \subseteq CrankSet
  BY CosmosStateIs DEF Typed, HostState
<1>3. Effect(deliver, send) = d
  BY DEF Effect, Send
<1>4. y = [Now EXCEPT !.deliver = d, !.sends = sends]
  BY <1>1, <1>3 DEF ChainSend
<1>5. d \in CosmosState /\ d.pushed = deliver.pushed
  BY <1>2 DEF CosmosState
<1>6. r = [op |-> "export", arg |-> host.pendingExport, ret |-> 0, at |-> BlockHeight]
      /\ Return(deliver, send) = 0
  BY DEF Record, Send, Return
<1>7. r \in SendSet /\ r.op = "export"
  BY <1>2, <1>6 DEF SendSet
<1>8. Does(deliver, r, d) /\ r.at = BlockHeight
  BY <1>3, <1>6, SameDowncall DEF Does
<1>9. d \in CosmosRecord
  BY <1>5, CosmosStateIs
<1>10. d = [deliver EXCEPT !.exported = @ \cup host.pendingExport]
  OBVIOUS
<1>11. [d EXCEPT !.exported = @ \cup {}] = d
  BY <1>2 DEF CosmosState
<1> HIDE DEF d, r, send
<1>12. sends \in Seq(SendSet) /\ Split(sends, BlockHeight, c, d)
  BY <1>1, <1>2, <1>7, <1>8, <1>9, SplitOne
<1>13. /\ s \in WorkState /\ s.deliver = d /\ s.sends = sends /\ s.kernel = work.kernel
       /\ s.beans = policy.beans /\ s.pendingExport = {}
  <2> HIDE DEF sends
  <2> QED
    BY <1>1, <1>4, <1>5, <1>12 DEF WorkState
<1>14. ASSUME NEW l, NEW run
       PROVE  Abs(s, l, run) = Abs(Now, l, run)
  <2>1. [s.deliver EXCEPT !.exported = @ \cup s.pendingExport] = d
    BY <1>11, <1>13
  <2> QED
    BY <1>1, <1>10, <1>13, <2>1 DEF Abs
<1> QED
  BY <1>5, <1>7, <1>10, <1>12, <1>13, <1>14 DEF Flushed

\* What is known before END_BLOCK of a block that is executed.
LEMMA InRunning ==
  ASSUME BlockInv, pc \in {"begin", "deliver", "end"}, store.height = height
  PROVE  /\ Typed /\ height \in Nat /\ BlockHeight \in Nat /\ BlockHeight # height
         /\ Running /\ RunningInv /\ LoadedInv /\ Now \in WorkState
<1>1. HeightInv /\ Typed
  BY DEF BlockInv
<1>2. Running
  BY DEF Running
<1>3. RunningInv
  BY <1>2 DEF BlockInv
<1>4. height \in Nat
  BY <1>1 DEF HeightInv
<1> QED
  BY <1>1, <1>2, <1>3, <1>4, NowType, BlockHeightAdvances DEF RunningInv

\* A step before END_BLOCK of a block that is executed.
LEMMA LoadedStep ==
  ASSUME BlockInv, HeightInv', Typed', UNCHANGED <<height, cosmos, store, final>>,
         store.height = height, pc' \in {"begin", "deliver", "end"},
         txs' = txs \/ txs = <<>>, RunningInv'
  PROVE  BlockInv'
<1>1. height \in Nat /\ HeightInv
  BY DEF BlockInv, HeightInv
<1>2. BlockHeight' = BlockHeight /\ BlockHeight # height /\ BlockHeight \in Nat
  BY <1>1, BlockHeightStays, BlockHeightAdvances
<1>3. ~Repeating' /\ CommitInv' /\ CarriedInv' /\ DownInv' /\ pc' # "panic"
  BY <1>2 DEF Repeating, CommitInv, CarriedInv, DownInv
<1>4. DecidedInv
  BY DEF BlockInv
<1>5. DecidedInv'
  <2>1. CASE txs' = txs
    <3>1. BlockStart' = BlockStart /\ Base' = Base
      BY <1>2, <2>1 DEF BlockStart, Decision, Base
    <3> QED
      BY <1>2, <1>4, <2>1, <3>1 DEF DecidedInv
  <2>2. CASE txs = <<>>
    <3>1. BlockHeight \notin DOMAIN final
      BY <1>4, <2>2 DEF DecidedInv
    <3> QED
      BY <1>2, <1>4, <3>1 DEF DecidedInv
  <2> QED
    BY <2>1, <2>2
<1> QED
  BY <1>3, <1>5 DEF BlockInv

LEMMA FlushKeepsBlock == ASSUME BlockInv, FlushExport PROVE BlockInv'
<1> DEFINE y == ChainSend(Now, Send("export", host.pendingExport))
           s == [y EXCEPT !.pendingExport = {}]
           c == [cosmos EXCEPT !.pushed = deliver.pushed]
           run == host.runThisBlock
<1>1. /\ host.pendingExport # {} /\ Become(s)
      /\ UNCHANGED <<height, cosmos, store, pc, txs, final>>
  BY DEF FlushExport
<1>2. y = ChainSend(Now, Send("export", host.pendingExport)) /\ s = [y EXCEPT !.pendingExport = {}]
  OBVIOUS
<1> HIDE DEF y, s
<1>3. HeightInv /\ Typed /\ pc # "panic" /\ DownInv /\ CommitInv /\ (Repeating => RepeatInv)
  BY DEF BlockInv
<1>4. pc \notin {"down", "commit", "cosmosCommit", "panic"} /\ ~Repeating
  BY <1>1, <1>3 DEF DownInv, CommitInv, RepeatInv, Stopped
<1>5. pc \in ExecutionPhases \/ pc \in {"begin", "deliver", "end"}
  BY <1>3, <1>4 DEF HeightInv, Labels, ExecutionPhases, QueueName
<1>6. Now.sends = host.sends /\ Now.deliver = deliver /\ run \in Seq(ActionSet)
  BY <1>3 DEF Now, Typed, HostState
<1>7. Became(s, run)
  BY <1>1, <1>3, BecomeIs
<1>8. CASE pc \in ExecutionPhases
  <2>1. RunningInv /\ BlockHeight \in Nat
    BY <1>8, InExecution
  <2>2. Split(Now.sends, BlockHeight, c, Now.deliver)
    BY <1>6, <2>1 DEF RunningInv
  <2>3. Flushed(s, c)
    BY <1>2, <1>3, <2>1, <2>2, FlushTraced
  <2>4. /\ s \in WorkState /\ Split(s.sends, BlockHeight, c, s.deliver)
        /\ s.deliver.pushed = deliver.pushed
        /\ Abs(s, pc, run) = Abs(Now, pc, run)
    BY <2>3 DEF Flushed
  <2>5. Abs(s, pc', run) = Here
    BY <1>1, <2>4 DEF Here
  <2> QED
    BY <1>1, <1>6, <1>7, <1>8, <2>4, <2>5, BlockStep, ActionsAreSteps DEF Step
<1>9. CASE pc \in {"begin", "deliver", "end"}
  <2>1. store.height = height
    BY <1>3, <1>4, <1>9 DEF HeightInv, StoresInStep, Repeating
  <2>2. /\ BlockHeight \in Nat /\ RunningInv /\ LoadedInv
    BY <1>9, <2>1, InRunning
  <2>3. Split(Now.sends, BlockHeight, c, Now.deliver)
    BY <1>6, <2>2 DEF RunningInv
  <2>4. Flushed(s, c)
    BY <1>2, <1>3, <2>2, <2>3, FlushTraced
  <2>5. /\ s \in WorkState /\ Split(s.sends, BlockHeight, c, s.deliver)
        /\ s.deliver = [deliver EXCEPT !.exported = @ \cup host.pendingExport]
        /\ s.pendingExport = {} /\ s.kernel = work.kernel
        /\ s.deliver.pushed = deliver.pushed
    BY <2>4 DEF Flushed
  <2>6. PICK r \in SendSet : s.sends = Append(host.sends, r) /\ r.op = "export"
    BY <2>4 DEF Flushed
  <2>7. Typed' /\ host'.runThisBlock = run /\ host'.sends = s.sends
    BY <1>1, <1>3, <1>6, <1>7, <2>5, BecameTyped
  <2>8. BlockHeight' = BlockHeight /\ Decision' = Decision
    BY <1>1, BlockHeightStays DEF Decision
  <2>9. deliver' = s.deliver /\ host'.fresh = host.fresh /\ host'.pendingExport = {}
    BY <1>3, <1>7, <2>5 DEF Became, Typed, HostState
  <2>10. work'.kernel = work.kernel
    BY <1>3, <1>7, <2>5 DEF Became, Typed, StoreState
  <2>11. [deliver' EXCEPT !.exported = @ \cup host'.pendingExport] =
           [deliver EXCEPT !.exported = @ \cup host.pendingExport]
    BY <1>3, <2>5, <2>9 DEF Typed, CosmosState
  <2>12. LoadedInv'
    BY <1>1, <2>2, <2>5, <2>7, <2>8, <2>9, <2>10, <2>11 DEF LoadedInv
  <2>13. pc \in {"begin", "deliver"} => Early(host'.sends, BlockHeight)
    <3>1. SUFFICES ASSUME pc \in {"begin", "deliver"}, NEW i \in 1..Len(host'.sends),
                          host'.sends[i].at = BlockHeight
                   PROVE  host'.sends[i].op \in {"out", "export"}
      BY DEF Early
    <3>2. Early(host.sends, BlockHeight) /\ host.sends \in Seq(SendSet)
      BY <1>3, <2>2, <3>1 DEF RunningInv, Typed, HostState
    <3> DEFINE n == Len(host.sends)
    <3>3. /\ n \in Nat /\ Len(host'.sends) = n + 1
          /\ host'.sends[n + 1] = r
          /\ \A j \in 1..n : host'.sends[j] = host.sends[j]
      BY <2>6, <2>7, <3>2, AppendProperties
    <3> HIDE DEF n
    <3>4. CASE i = n + 1
      BY <2>6, <3>3, <3>4
    <3>5. CASE i # n + 1
      <4>1. i \in 1..n
        BY <3>1, <3>3, <3>5
      <4>2. host'.sends[i] = host.sends[i]
        BY <3>3, <4>1
      <4> QED
        BY <3>1, <3>2, <4>1, <4>2 DEF Early, n
    <3> QED
      BY <3>4, <3>5
  <2>14. pc' \in {"begin", "deliver", "end"} /\ pc' \notin ExecutionPhases
    BY <1>1, <1>9 DEF ExecutionPhases, QueueName
  <2>15. RunningInv'
    BY <1>1, <2>2, <2>5, <2>7, <2>8, <2>9, <2>12, <2>13, <2>14 DEF RunningInv
  <2> QED
    BY <1>1, <2>1, <2>7, <2>14, <2>15, LoadedStep, ActionsAreSteps DEF Step
<1> QED
  BY <1>5, <1>8, <1>9

\* A step that leaves the node down, with what is committed.
LEMMA StopKeepsBlock ==
  ASSUME BlockInv, HeightInv', UNCHANGED <<height, cosmos, store, txs, final>>,
         deliver' = cosmos, work' = store, host' = Stopped, pc' = "down",
         policy' \in PolicyState,
         pc = "cosmosCommit" => CarriedOver = {}
  PROVE  BlockInv'
<1>1. HeightInv /\ Typed /\ height \in Nat
  BY DEF BlockInv, HeightInv
<1>2. BlockHeight' = BlockHeight
  BY BlockHeightStays
<1>3. Stopped \in HostState
  BY EmptySeq DEF Stopped, HostState
<1>4. Typed'
  BY <1>1, <1>3 DEF Typed
<1>5. ~Running' /\ ~Repeating' /\ CommitInv' /\ DownInv' /\ pc' # "panic"
  BY DEF Running, Repeating, CommitInv, DownInv, ExecutionPhases, QueueName
<1>6. CarriedInv'
  <2>1. CASE pc = "cosmosCommit"
    <3>1. \A i \in DOMAIN store.sends : store.sends[i].at = store.height
      BY <2>1 DEF CarriedOver
    <3>2. DOMAIN store.sends = 1..Len(store.sends)
      BY <1>1, LenProperties DEF Typed, StoreState
    <3> QED
      BY <1>2, <3>1, <3>2 DEF CarriedInv
  <2>2. CASE pc # "cosmosCommit"
    BY <1>2, <2>2 DEF BlockInv, CarriedInv
  <2> QED
    BY <2>1, <2>2
<1>7. BlockStart' = BlockStart /\ Base' = Base
  BY <1>2 DEF BlockStart, Decision, Base
<1>8. DecidedInv'
  BY <1>2, <1>7 DEF BlockInv, DecidedInv
<1> QED
  BY <1>4, <1>5, <1>6, <1>8 DEF BlockInv

LEMMA CrashKeepsBlock ==
  ASSUME BlockInv, ~CrashAfterRelaunch, Crash \/ HaltForUpgrade
  PROVE  BlockInv'
<1>1. HeightInv'
  <2>1. HeightInv /\ [Next]_vars
    BY DEF BlockInv, Next, Step
  <2> QED
    BY <2>1, HeightInvInductive
<1>2. Unused \in PolicyState /\ policy \in PolicyState
  BY DEF Unused, PolicyState, BlockInv, Typed
<1>3. pc = "cosmosCommit" => CarriedOver = {}
  BY DEF Crash, HaltForUpgrade
<1> QED
  BY <1>1, <1>2, <1>3, StopKeepsBlock DEF Crash, HaltForUpgrade, GoTo

\* AG_COSMOS_INIT, of a block to execute and of one to replay.
LEMMA LaunchKeepsBlock == ASSUME BlockInv, Launch PROVE BlockInv'
<1> DEFINE start == [deliver |-> deliver, sends |-> store.sends, kernel |-> work.kernel,
                     beans |-> 0, pendingExport |-> {}]
           booted == IF BlockHeight = FirstHeight THEN Bootstrap(start) ELSE start
           began == IF store.beginHeight = 0 THEN store.height ELSE store.beginHeight
           loaded == [Stopped EXCEPT !.savedHeight = store.height, !.savedBeginHeight = began,
                                     !.sends = store.sends, !.fresh = TRUE]
<1>1. /\ HeightInv /\ Typed /\ height \in Nat /\ BlockHeight \in Nat /\ BlockHeight # height
      /\ pc = "down" /\ deliver = cosmos /\ work = store /\ DecidedInv /\ CarriedInv
  BY BlockHeightAdvances DEF Launch, BlockInv, DownInv, HeightInv
<1>2. HeightInv' /\ UNCHANGED <<height, cosmos, store, policy, txs, final>>
  BY ActionsAreSteps DEF Launch, Step
<1>3. BlockHeight' = BlockHeight
  BY <1>2, BlockHeightStays
<1>4. loaded \in HostState /\ loaded.sends = store.sends /\ loaded.fresh
      /\ loaded.pendingExport = {} /\ loaded.runThisBlock = <<>>
  BY <1>1, EmptySeq DEF Stopped, HostState, Typed, StoreState
<1>5. CASE store.height = height
  <2>1. NeedsExecution(store.height, BlockHeight)
    BY <1>1, <1>5, NeedsExecutionDecides
  <2>2. /\ deliver' = booted.deliver
        /\ work' = [work EXCEPT !.kernel = booted.kernel]
        /\ host' = [loaded EXCEPT !.sends = booted.sends,
                                  !.pendingExport = booted.pendingExport,
                                  !.runThisBlock = Forced(BlockHeight)]
        /\ pc' = "begin"
    BY <2>1 DEF Launch, GoTo
  <2> HIDE DEF loaded
  <2>3. store.sends \in Seq(SendSet) /\ cosmos \in CosmosState /\ cosmos \in CosmosRecord
        /\ store.kernel \in KernelState /\ Forced(BlockHeight) \in Seq(ActionSet)
    BY <1>1, CosmosStateIs, ForcedType DEF Typed, StoreState
  <2>4. ASSUME NEW i \in 1..Len(store.sends)
         PROVE  store.sends[i].at \in Nat /\ store.sends[i].at < BlockHeight
    <3>1. height < BlockHeight
      BY <1>1, HeightAssumption DEF BlockHeight, NextHeight
    <3>2. store.sends[i].at <= height
      BY <1>1, <1>5 DEF DecidedInv
    <3>3. store.sends[i] \in SendSet
      BY <2>3, ElementOfSeq
    <3>4. store.sends[i].at \in Nat
      BY <3>3 DEF SendSet
    <3> QED
      BY <1>1, <3>1, <3>2, <3>4
  <2>5. Split(store.sends, BlockHeight, cosmos, cosmos)
    <3>1. \A i \in 1..Len(store.sends) : store.sends[i].at < BlockHeight
      BY <2>4
    <3>2. Trace(cosmos, <<>>, cosmos) /\ store.sends \o <<>> = store.sends
          /\ <<>> \in Seq(SendSet) /\ 1..Len(<<>>) = {}
      BY <2>3, TraceNone, ConcatEmptySeq
    <3>3. SplitAt(store.sends, <<>>, store.sends, BlockHeight, cosmos, cosmos)
      BY <2>3, <3>1, <3>2 DEF SplitAt
    <3> QED
      BY <3>3 DEF Split
  <2>6. Early(store.sends, BlockHeight)
    <3>1. \A i \in 1..Len(store.sends) : store.sends[i].at # BlockHeight
      BY <1>1, <2>4
    <3> QED
      BY <3>1 DEF Early
  <2>7. /\ booted \in WorkState /\ Split(booted.sends, BlockHeight, cosmos, booted.deliver)
        /\ Early(booted.sends, BlockHeight) /\ booted.deliver.pushed = cosmos.pushed
        /\ [booted.deliver EXCEPT !.exported = @ \cup booted.pendingExport] =
             OpenCosmos(cosmos, BlockHeight)
        /\ booted.kernel = OpenKernel(store.kernel, BlockHeight)
    <3>1. CASE BlockHeight # FirstHeight
      <4>1. booted = start
        BY <3>1
      <4>2. [cosmos EXCEPT !.exported = @ \cup {}] = cosmos
        BY <2>3 DEF CosmosState
      <4> QED
        BY <1>1, <2>3, <2>5, <2>6, <3>1, <4>1, <4>2 DEF WorkState, OpenCosmos, OpenKernel
    <3>2. CASE BlockHeight = FirstHeight
      <4> DEFINE send == Send("out", Boot)
                 d == [cosmos EXCEPT !.out = Append(@, Boot)]
                 r == Record(cosmos, send)
                 sends == Append(store.sends, r)
                 kl == [store.kernel EXCEPT !.given = Append(@, Boot.action)]
      <4>1. booted = [deliver |-> d, sends |-> sends, kernel |-> kl, beans |-> 0,
                      pendingExport |-> {Boot}]
        <5> DEFINE asked == [start EXCEPT !.kernel.given = Append(@, Boot.action),
                                          !.pendingExport = @ \cup {Boot}]
        <5>1. booted = ChainSend(asked, send)
          BY <3>2 DEF Bootstrap, Boot
        <5>2. asked = [deliver |-> cosmos, sends |-> store.sends, kernel |-> kl, beans |-> 0,
                       pendingExport |-> {Boot}]
          <6>1. start = [deliver |-> cosmos, sends |-> store.sends, kernel |-> store.kernel,
                         beans |-> 0, pendingExport |-> {}]
            BY <1>1
          <6>2. {} \cup {Boot} = {Boot}
            OBVIOUS
          <6> HIDE DEF start
          <6>3. start.kernel = store.kernel /\ start.pendingExport = {}
            BY <6>1
          <6>4. [start.kernel EXCEPT !.given = Append(@, Boot.action)] = kl
            BY <6>3
          <6>5. asked = [start EXCEPT !.kernel = kl, !.pendingExport = {Boot}]
            BY <6>1, <6>2, <6>3, <6>4
          <6> HIDE DEF asked, kl
          <6> QED
            BY <6>1, <6>5
        <5>3. Effect(cosmos, send) = d
          BY DEF Effect, Send
        <5> HIDE DEF asked, send, d, kl, booted
        <5>4. asked.deliver = cosmos /\ asked.sends = store.sends
          BY <5>2
        <5>5. ChainSend(asked, send) = [asked EXCEPT !.deliver = d, !.sends = sends]
          BY <5>3, <5>4 DEF ChainSend
        <5> QED
          BY <5>1, <5>2, <5>5
      <4>2. d \in CosmosState /\ d \in CosmosRecord /\ d.pushed = cosmos.pushed
        <5>1. Append(cosmos.out, Boot) \in Seq(CrankSet)
          BY <2>3, BootIs, AppendProperties DEF CosmosState
        <5>2. d \in CosmosState /\ d.pushed = cosmos.pushed
          BY <2>3, <5>1 DEF CosmosState
        <5> QED
          BY <5>2, CosmosStateIs
      <4>3. kl \in KernelState /\ kl = OpenKernel(store.kernel, BlockHeight)
        BY <2>3, <3>2, OpenType DEF OpenKernel
      <4>4. [d EXCEPT !.exported = @ \cup {Boot}] = OpenCosmos(cosmos, BlockHeight)
        BY <2>3, <3>2 DEF OpenCosmos, CosmosState
      <4>5. r = [op |-> "out", arg |-> Boot, ret |-> Return(cosmos, send), at |-> BlockHeight]
        BY DEF Record, Send
      <4>6. Return(cosmos, send) \in Nat
        <5>1. Len(cosmos.out) \in Nat
          BY <2>3, LenProperties DEF CosmosState
        <5>2. send.op = "out"
          BY DEF Send
        <5> HIDE DEF send
        <5> QED
          BY <5>1, <5>2 DEF Return
      <4>7. Does(cosmos, r, d)
        <5>1. Effect(cosmos, r) = d
          BY <4>5 DEF Effect
        <5>2. Return(cosmos, r) = Return(cosmos, send)
          BY <4>5, SameDowncall
        <5> QED
          BY <4>5, <5>1, <5>2 DEF Does
      <4> HIDE DEF d, kl, send, r
      <4>8. r \in SendSet /\ r.at = BlockHeight /\ r.op = "out"
        BY <1>1, <4>5, <4>6, BootIs DEF SendSet
      <4>9. sends \in Seq(SendSet) /\ Split(sends, BlockHeight, cosmos, d)
        BY <2>3, <2>5, <4>2, <4>7, <4>8, SplitOne
      <4>10. Early(sends, BlockHeight)
        <5> DEFINE n == Len(store.sends)
        <5>1. /\ n \in Nat /\ Len(sends) = n + 1 /\ sends[n + 1] = r
              /\ \A j \in 1..n : sends[j] = store.sends[j]
          BY <2>3, <4>8, AppendProperties
        <5> HIDE DEF n, sends
        <5>2. ASSUME NEW i \in 1..Len(sends), sends[i].at = BlockHeight
              PROVE  sends[i].op \in {"out", "export"}
          <6>1. CASE i = n + 1
            BY <4>8, <5>1, <6>1
          <6>2. CASE i # n + 1
            <7>1. i \in 1..n
              BY <5>1, <5>2, <6>2
            <7> QED
              BY <2>6, <5>1, <5>2, <7>1 DEF Early, n
          <6> QED
            BY <6>1, <6>2
        <5> QED
          BY <5>2 DEF Early
      <4>11. {Boot} \subseteq CrankSet
        BY BootIs
      <4> HIDE DEF sends, booted
      <4> QED
        BY <4>1, <4>2, <4>3, <4>4, <4>9, <4>10, <4>11 DEF WorkState
    <3> QED
      BY <3>1, <3>2
  <2> HIDE DEF booted
  <2>8. /\ host' \in HostState /\ host'.sends = booted.sends
        /\ host'.pendingExport = booted.pendingExport /\ host'.fresh
        /\ host'.runThisBlock = Forced(BlockHeight)
    BY <1>4, <2>2, <2>3, <2>7 DEF HostState, WorkState
  <2>9. work' \in StoreState /\ work'.kernel = booted.kernel
    BY <1>1, <2>2, <2>7 DEF Typed, StoreState, WorkState
  <2>10. Typed'
    BY <1>1, <1>2, <2>2, <2>7, <2>8, <2>9 DEF Typed, WorkState
  <2>11. /\ [deliver' EXCEPT !.exported = @ \cup host'.pendingExport] =
              [OpenCosmos(cosmos, BlockHeight) EXCEPT !.pushed = deliver'.pushed]
    <3>1. OpenCosmos(cosmos, BlockHeight) \in CosmosState
          /\ OpenCosmos(cosmos, BlockHeight).pushed = cosmos.pushed
      BY <2>3, OpenType
    <3>2. [OpenCosmos(cosmos, BlockHeight) EXCEPT !.pushed = cosmos.pushed] =
            OpenCosmos(cosmos, BlockHeight)
      BY <3>1 DEF CosmosState
    <3> QED
      BY <2>2, <2>7, <2>8, <3>2
  <2>12. LoadedInv'
    BY <1>2, <1>3, <2>2, <2>7, <2>8, <2>9, <2>11 DEF LoadedInv
  <2>13. [cosmos EXCEPT !.pushed = deliver'.pushed] = cosmos
    BY <2>2, <2>3, <2>7 DEF CosmosState
  <2>14. RunningInv'
    BY <1>2, <1>3, <2>2, <2>7, <2>8, <2>12, <2>13 DEF RunningInv, ExecutionPhases, QueueName
  <2> QED
    BY <1>2, <1>5, <2>2, <2>10, <2>14, LoadedStep
<1>6. CASE store.height # height
  <2>1. store.height = BlockHeight
    BY <1>1, <1>6 DEF HeightInv, StoresInStep
  <2>2. /\ ~NeedsExecution(store.height, BlockHeight)
        /\ AlreadyExecuted(store.height, BlockHeight)
    <3>1. BlockHeight # 0 /\ BlockHeight # BlockHeight + 1
      BY <1>1, BlockHeightAdvances
    <3> QED
      BY <2>1, <3>1 DEF NeedsExecution, AlreadyExecuted
  <2>3. host' = loaded /\ pc' = "begin" /\ UNCHANGED <<deliver, work>>
    BY <2>2 DEF Launch, GoTo
  <2> HIDE DEF loaded
  <2>4. Typed'
    BY <1>1, <1>2, <1>4, <2>3 DEF Typed
  <2>5. ~Running' /\ DownInv' /\ CommitInv' /\ pc' # "panic"
    BY <1>2, <1>3, <1>6, <2>3 DEF Running, DownInv, CommitInv
  <2>6. RepeatInv'
    BY <1>1, <1>2, <1>4, <2>3 DEF RepeatInv
  <2>7. CarriedInv'
    BY <1>1, <1>2, <1>3, <2>3 DEF CarriedInv
  <2>8. BlockStart' = BlockStart /\ Base' = Base
    BY <1>2, <1>3 DEF BlockStart, Decision, Base
  <2>9. DecidedInv'
    BY <1>1, <1>2, <1>3, <2>8 DEF DecidedInv
  <2> QED
    BY <1>2, <2>4, <2>5, <2>6, <2>7, <2>9 DEF BlockInv
<1> QED
  BY <1>5, <1>6

LEMMA BeginKeepsBlock == ASSUME BlockInv, BeginBlock PROVE BlockInv'
<1>1. /\ HeightInv /\ Typed /\ height \in Nat /\ BlockHeight \in Nat /\ BlockHeight # height
      /\ pc = "begin" /\ DecidedInv /\ CarriedInv
  BY BlockHeightAdvances DEF BeginBlock, BlockInv, HeightInv
<1>2. HeightInv' /\ UNCHANGED <<height, cosmos, deliver, store, policy, txs, final>>
  BY ActionsAreSteps DEF BeginBlock, Step
<1>3. BlockHeight' = BlockHeight
  BY <1>2, BlockHeightStays
<1>4. host.savedHeight = store.height /\ host.savedBeginHeight = store.height
  BY <1>1 DEF HeightInv, HeightsByPhase
<1>5. CASE store.height = height
  <2>1. /\ NeedsExecution(host.savedHeight, BlockHeight)
        /\ ~AlreadyExecuted(host.savedHeight, BlockHeight)
        /\ host.savedBeginHeight # BlockHeight
    BY <1>1, <1>4, <1>5, NeedsExecutionDecides
  <2>2. /\ host' = [host EXCEPT !.savedBeginHeight = BlockHeight]
        /\ work' = [work EXCEPT !.beginHeight = BlockHeight]
        /\ pc' = "deliver"
    BY <2>1 DEF BeginBlock, GoTo
  <2>3. RunningInv /\ LoadedInv
    BY <1>1, <1>5, InRunning
  <2>4. /\ host' \in HostState /\ host'.sends = host.sends
        /\ host'.pendingExport = host.pendingExport /\ host'.fresh = host.fresh
        /\ host'.runThisBlock = host.runThisBlock
    BY <1>1, <2>2 DEF Typed, HostState
  <2>5. work' \in StoreState /\ work'.kernel = work.kernel
    BY <1>1, <2>2 DEF Typed, StoreState
  <2>6. Typed'
    BY <1>1, <1>2, <2>4, <2>5 DEF Typed
  <2>7. host.runThisBlock = Forced(BlockHeight)
    <3>1. CASE host.fresh
      BY <1>1, <2>3, <3>1 DEF LoadedInv
    <3>2. CASE ~host.fresh
      BY <1>1, <2>3, <3>2 DEF LoadedInv, BeginBlock, Forced
    <3> QED
      BY <3>1, <3>2
  <2>8. LoadedInv'
    BY <1>2, <1>3, <2>2, <2>3, <2>4, <2>5, <2>7 DEF LoadedInv
  <2>9. RunningInv'
    BY <1>1, <1>2, <1>3, <2>2, <2>3, <2>4, <2>8 DEF RunningInv, ExecutionPhases, QueueName
  <2> QED
    BY <1>2, <1>5, <2>2, <2>6, <2>9, LoadedStep
<1>6. CASE store.height # height
  <2>1. store.height = BlockHeight
    BY <1>1, <1>6 DEF HeightInv, StoresInStep
  <2>2. AlreadyExecuted(host.savedHeight, BlockHeight)
    BY <1>1, <1>4, <2>1, NeedsExecutionDecides
  <2>3. pc' = "deliver" /\ UNCHANGED <<host, work>>
    BY <2>2 DEF BeginBlock, GoTo
  <2>4. Typed'
    BY <1>1, <1>2, <2>3 DEF Typed
  <2>5. ~Running' /\ DownInv' /\ CommitInv' /\ pc' # "panic"
    BY <1>2, <1>3, <1>6, <2>3 DEF Running, DownInv, CommitInv
  <2>6. RepeatInv
    BY <1>1, <2>1 DEF BlockInv, Repeating
  <2>7. RepeatInv'
    BY <1>1, <1>2, <2>3, <2>6 DEF RepeatInv
  <2>8. CarriedInv'
    BY <1>1, <1>2, <1>3, <2>3 DEF CarriedInv
  <2>9. BlockStart' = BlockStart /\ Base' = Base
    BY <1>2, <1>3 DEF BlockStart, Decision, Base
  <2>10. DecidedInv'
    BY <1>1, <1>2, <1>3, <2>9 DEF DecidedInv
  <2> QED
    BY <1>2, <2>4, <2>5, <2>7, <2>8, <2>10 DEF BlockInv
<1> QED
  BY <1>5, <1>6

\* Transactions push actions that are on no queue yet, each once.
New(b) ==
  \A q \in QueueName :
    /\ IsInjective(b[q])
    /\ \A i \in DOMAIN b[q], j \in DOMAIN deliver.pushed[q] : b[q][i] # deliver.pushed[q][j]

LEMMA BlocksAre ==
  ASSUME Typed, NEW b \in Blocks
  PROVE  b \in Queues /\ New(b)
<1>1. ASSUME NEW q \in QueueName, NEW s \in Batches(q)
      PROVE  /\ s \in Seq(Pushable(q)) /\ s \in Seq(ActionSet) /\ IsInjective(s)
             /\ \A i \in DOMAIN s, j \in DOMAIN deliver.pushed[q] : s[i] # deliver.pushed[q][j]
  <2>1. PICK T \in SUBSET Unpushed(q) : IsFiniteSet(T) /\ s \in SetToSeqs(T)
    BY <1>1 DEF Batches
  <2> DEFINE n == Cardinality(T)
  <2>2. n \in Nat
    BY <2>1, FS_CardinalityType
  <2>3. s \in [1..n -> T] /\ \A i, j \in 1..n : i # j => s[i] # s[j]
    BY <2>1 DEF SetToSeqs
  <2>4. ASSUME NEW t \in T
        PROVE  /\ t \in Pushable(q) /\ t \in ActionSet
               /\ \A j \in DOMAIN deliver.pushed[q] : t # deliver.pushed[q][j]
    <3>1. PICK id \in Txs[q] : t = [kind |-> q, id |-> id]
      BY <2>1, <2>4 DEF Unpushed, Action
    <3>2. t \in Pushable(q)
      BY <3>1 DEF Pushable, TxIds
    <3>3. t \in ActionSet
      BY <3>2 DEF Pushable, ActionSet
    <3>4. t \notin Pushed
      BY <2>1, <2>4 DEF Unpushed
    <3> QED
      BY <3>2, <3>3, <3>4 DEF Pushed, ToSet
  <2> HIDE DEF n
  <2>5. DOMAIN s = 1..n /\ \A i \in 1..n : s[i] \in T
    BY <2>3
  <2>6. s \in [1..n -> Pushable(q)] /\ s \in [1..n -> ActionSet]
    BY <2>3, <2>4
  <2>7. s \in Seq(Pushable(q)) /\ s \in Seq(ActionSet)
    BY <2>2, <2>6, SeqDef
  <2>8. IsInjective(s)
    BY <2>3, <2>5 DEF IsInjective
  <2> QED
    BY <2>4, <2>5, <2>7, <2>8
<1>2. PICK x \in Batches("priority") \X Batches("inbound") :
        b = [q \in QueueName |-> IF q = "priority" THEN x[1] ELSE x[2]]
  BY DEF Blocks
<1>3. \A q \in QueueName : b[q] \in Batches(q)
  BY <1>2 DEF QueueName
<1>4. b \in [QueueName -> Seq(ActionSet)] /\ \A q \in QueueName : b[q] \in Seq(Pushable(q))
  <2>1. b = [q \in QueueName |-> b[q]]
    BY <1>2
  <2>2. \A q \in QueueName : b[q] \in Seq(Pushable(q)) /\ b[q] \in Seq(ActionSet)
    BY <1>1, <1>3
  <2> QED
    BY <2>1, <2>2
<1>5. New(b)
  BY <1>1, <1>3 DEF New
<1> QED
  BY <1>4, <1>5 DEF Queues

LEMMA PartOfSum == \A m, n \in Nat : m <= m + n
OBVIOUS

LEMMA DecisionType ==
  ASSUME Typed, txs # <<>>
  PROVE  /\ txs[1] \in Queues /\ txs = <<txs[1]>> /\ Decision \in Queues
         /\ Base \in CosmosState
         /\ \A q \in QueueName : Len(cosmos.pushed[q]) <= Len(Decision[q])
<1>1. txs \in Seq(Queues) /\ Len(txs) \in Nat /\ Len(txs) # 0 /\ Len(txs) <= 1
  BY EmptySeq, LenProperties DEF Typed
<1>2. Len(txs) = 1 /\ 1 \in 1..Len(txs)
  <2> DEFINE n == Len(txs)
  <2>1. n \in Nat /\ n # 0 /\ n <= 1
    BY <1>1
  <2> HIDE DEF n
  <2>2. n = 1 /\ 1 \in 1..n
    BY <2>1
  <2> QED
    BY <2>2 DEF n
<1>3. txs[1] \in Queues
  BY <1>1, <1>2, ElementOfSeq
<1>4. txs = <<txs[1]>>
  <2> DEFINE t == <<txs[1]>>
  <2>1. t \in Seq(Queues) /\ Len(t) = 1 /\ t[1] = txs[1]
    BY <1>3
  <2> HIDE DEF t
  <2>2. \A i \in 1..Len(txs) : txs[i] = t[i]
    BY <1>2, <2>1
  <2>3. txs = t
    BY <1>1, <1>2, <2>1, <2>2, SeqEqual
  <2> QED
    BY <2>3 DEF t
<1>5. cosmos \in CosmosState /\ cosmos.pushed \in Queues
  BY DEF Typed, CosmosState, Queues
<1>6. Decision \in Queues /\ \A q \in QueueName : Len(Decision[q]) = Len(cosmos.pushed[q]) + Len(txs[1][q])
  BY <1>3, <1>5, WithType DEF Decision
<1>7. \A q \in QueueName : Len(cosmos.pushed[q]) \in Nat /\ Len(txs[1][q]) \in Nat
  BY <1>3, <1>5 DEF Queues
<1>8. \A q \in QueueName : Len(cosmos.pushed[q]) <= Len(Decision[q])
  BY <1>6, <1>7, PartOfSum
<1>9. Base \in CosmosState
  BY <1>5, <1>6, <1>8, PushedType DEF Base
<1> QED
  BY <1>3, <1>4, <1>6, <1>8, <1>9

LEMMA DeliverKeepsBlock == ASSUME BlockInv, DeliverTxs PROVE BlockInv'
<1>1. /\ HeightInv /\ Typed /\ height \in Nat /\ BlockHeight \in Nat /\ BlockHeight # height
      /\ pc = "deliver" /\ DecidedInv /\ CarriedInv
  BY BlockHeightAdvances DEF DeliverTxs, BlockInv, HeightInv
<1>2. HeightInv' /\ UNCHANGED <<height, cosmos, store, work, host, policy, final>> /\ pc' = "end"
  BY ActionsAreSteps DEF DeliverTxs, Step, GoTo
<1>3. BlockHeight' = BlockHeight
  BY <1>2, BlockHeightStays
<1>4. PICK b \in IF txs = <<>> THEN Blocks ELSE {txs[1]} :
        /\ txs' = <<b>>
        /\ deliver' = [deliver EXCEPT !.pushed = [q \in QueueName |-> @[q] \o b[q]]]
  BY DEF DeliverTxs
<1>5. b \in Queues
  <2>1. CASE txs = <<>>
    BY <1>1, <1>4, <2>1, BlocksAre
  <2>2. CASE txs # <<>>
    BY <1>1, <1>4, <2>2, DecisionType
  <2> QED
    BY <2>1, <2>2
<1>6. txs' = txs \/ txs = <<>>
  BY <1>1, <1>4, DecisionType
<1>7. txs' \in Seq(Queues) /\ Len(txs') = 1 /\ txs'[1] = b /\ txs' # <<>>
  BY <1>4, <1>5
<1> DEFINE p == With(cosmos.pushed, b)
<1>8. store.height \in {height, BlockHeight}
  BY <1>1 DEF HeightInv, StoresInStep
<1>9. deliver.pushed = cosmos.pushed
  <2>1. CASE store.height = height
    BY <1>1, <2>1, InRunning DEF RunningInv
  <2>2. CASE store.height # height
    <3>1. RepeatInv
      BY <1>1, <1>8, <2>2 DEF BlockInv, Repeating
    <3> QED
      BY <1>1, <3>1 DEF RepeatInv
  <2> QED
    BY <2>1, <2>2
<1>10. deliver' = [deliver EXCEPT !.pushed = p] /\ Decision' = p
  BY <1>2, <1>4, <1>7, <1>9 DEF With, Decision
<1>11. p \in Queues /\ \A q \in QueueName : Len(cosmos.pushed[q]) <= Len(p[q])
  <2>1. cosmos.pushed \in Queues
    BY <1>1 DEF Typed, CosmosState, Queues
  <2>2. p \in Queues /\ \A q \in QueueName : Len(p[q]) = Len(cosmos.pushed[q]) + Len(b[q])
    BY <1>5, <2>1, WithType
  <2>3. \A q \in QueueName : Len(cosmos.pushed[q]) \in Nat /\ Len(b[q]) \in Nat
    BY <1>5, <2>1 DEF Queues
  <2> HIDE DEF p
  <2> QED
    BY <2>2, <2>3, PartOfSum
<1> HIDE DEF p
<1>12. deliver' \in CosmosState /\ deliver'.pushed = p
  <2>1. deliver \in CosmosState
    BY <1>1 DEF Typed
  <2>2. deliver' \in CosmosState
    BY <1>9, <1>10, <1>11, <2>1, PushedType
  <2> QED
    BY <1>10, <2>1, <2>2 DEF CosmosState
<1>13. Typed'
  BY <1>1, <1>2, <1>7, <1>12 DEF Typed
<1>14. CASE store.height = height
  <2>1. RunningInv /\ LoadedInv
    BY <1>1, <1>14, InRunning
  <2> DEFINE c == [cosmos EXCEPT !.pushed = deliver.pushed]
  <2>2. Split(host.sends, BlockHeight, c, deliver) /\ Early(host.sends, BlockHeight)
        /\ p \in [QueueName -> Seq(ActionSet)]
    BY <1>1, <1>11, <2>1 DEF RunningInv, Queues
  <2>3. Split(host.sends, BlockHeight, [c EXCEPT !.pushed = p], [deliver EXCEPT !.pushed = p])
    <3> HIDE DEF c
    <3> QED
      BY <2>2, SplitPush
  <2>4. [c EXCEPT !.pushed = p] = [cosmos EXCEPT !.pushed = p]
    BY <1>1 DEF Typed, CosmosState
  <2>5. Split(host.sends, BlockHeight, [cosmos EXCEPT !.pushed = p], deliver')
    BY <1>10, <2>3, <2>4
  <2> DEFINE o == OpenCosmos(cosmos, BlockHeight)
             d == [deliver EXCEPT !.exported = @ \cup host.pendingExport]
  <2>6. [deliver' EXCEPT !.exported = @ \cup host.pendingExport] = [o EXCEPT !.pushed = p]
    <3>1. d = [o EXCEPT !.pushed = deliver.pushed]
      BY <2>1 DEF LoadedInv
    <3>2. o \in CosmosState
      BY <1>1, OpenType DEF Typed, StoreState
    <3>3. [deliver' EXCEPT !.exported = @ \cup host.pendingExport] = [d EXCEPT !.pushed = p]
      BY <1>1, <1>10 DEF Typed, CosmosState
    <3> HIDE DEF o, d
    <3>4. [d EXCEPT !.pushed = p] = [o EXCEPT !.pushed = p]
      BY <3>1, <3>2 DEF CosmosState
    <3> QED
      BY <3>3, <3>4
  <2>7. LoadedInv'
    BY <1>1, <1>2, <1>3, <1>12, <2>1, <2>6 DEF LoadedInv
  <2>8. RunningInv'
    BY <1>2, <1>3, <1>7, <1>10, <1>12, <2>5, <2>7 DEF RunningInv, ExecutionPhases, QueueName
  <2> QED
    BY <1>2, <1>6, <1>13, <1>14, <2>8, LoadedStep
<1>15. CASE store.height # height
  <2>1. store.height = BlockHeight
    BY <1>8, <1>15
  <2>2. RepeatInv
    BY <1>1, <2>1 DEF BlockInv, Repeating
  <2>3. txs # <<>> /\ txs' = txs
    BY <1>1, <1>6, <2>1 DEF DecidedInv
  <2>4. BlockStart' = BlockStart /\ Base' = Base /\ Decision' = Decision
    BY <1>2, <1>3, <2>3 DEF BlockStart, Decision, Base
  <2>5. deliver' = Base
    BY <1>1, <1>10, <2>2, <2>4 DEF RepeatInv, Base
  <2>6. RepeatInv'
    BY <1>2, <2>2, <2>4, <2>5 DEF RepeatInv
  <2>7. ~Running' /\ DownInv' /\ CommitInv' /\ pc' # "panic"
    BY <1>2, <1>3, <1>15 DEF Running, DownInv, CommitInv
  <2>8. CarriedInv'
    BY <1>1, <1>2, <1>3 DEF CarriedInv
  <2>9. DecidedInv'
    BY <1>1, <1>2, <1>3, <2>3, <2>4 DEF DecidedInv
  <2> QED
    BY <1>2, <1>13, <2>6, <2>7, <2>8, <2>9 DEF BlockInv
<1> QED
  BY <1>14, <1>15

\* The lengths of the queues are read.
LEMMA SizeTraced ==
  ASSUME BlockHeight \in Nat, NEW c, NEW q \in QueueName, NEW w \in WorkState,
         Split(w.sends, BlockHeight, c, w.deliver),
         NEW y, y = ChainSend(w, Send("size", q))
  PROVE  /\ y \in WorkState /\ Split(y.sends, BlockHeight, c, y.deliver)
         /\ y.deliver = w.deliver /\ y.kernel = w.kernel
         /\ y.pendingExport = w.pendingExport
<1> DEFINE send == Send("size", q)
           r == Record(w.deliver, send)
           sends == Append(w.sends, r)
<1>1. w.deliver \in CosmosState /\ w.deliver \in CosmosRecord /\ w.sends \in Seq(SendSet)
  BY CosmosStateIs DEF WorkState
<1>2. Effect(w.deliver, send) = w.deliver
  BY DEF Effect, Send
<1>3. y = [w EXCEPT !.deliver = w.deliver, !.sends = sends]
  BY <1>2 DEF ChainSend
<1>4. Return(w.deliver, send) = Len(w.deliver.pushed[q]) - w.deliver.head[q]
  BY DEF Return, Send
<1>5. Return(w.deliver, send) \in Nat
  <2> DEFINE m == Len(w.deliver.pushed[q])
             n == w.deliver.head[q]
  <2>1. m \in Nat /\ n \in Nat /\ n <= m
    BY <1>1 DEF CosmosState
  <2> HIDE DEF m, n
  <2>2. m - n \in Nat
    BY <2>1
  <2> QED
    BY <1>4, <2>2 DEF m, n
<1>6. r = [op |-> "size", arg |-> q, ret |-> Return(w.deliver, send), at |-> BlockHeight]
  BY DEF Record, Send
<1> HIDE DEF send
<1>7. r \in SendSet /\ r.at = BlockHeight
  BY <1>5, <1>6 DEF SendSet
<1>8. Does(w.deliver, r, w.deliver)
  <2>1. /\ Effect(w.deliver, r) = Effect(w.deliver, send)
        /\ Return(w.deliver, r) = Return(w.deliver, send)
    BY <1>6, SameDowncall DEF send
  <2> QED
    BY <1>2, <1>6, <2>1 DEF Does
<1> HIDE DEF r
<1>9. sends \in Seq(SendSet) /\ Split(sends, BlockHeight, c, w.deliver)
  BY <1>1, <1>7, <1>8, SplitOne
<1> HIDE DEF sends
<1> QED
  BY <1>3, <1>9 DEF WorkState

LEMMA EndStartKeepsBlock == ASSUME BlockInv, EndBlockStart PROVE BlockInv'
<1>1. /\ HeightInv /\ Typed /\ height \in Nat /\ BlockHeight \in Nat /\ BlockHeight # height
      /\ pc = "end" /\ DecidedInv /\ CarriedInv
  BY BlockHeightAdvances DEF EndBlockStart, BlockInv, HeightInv
<1>2. HeightInv' /\ UNCHANGED <<height, cosmos, store, work, txs, final>>
  BY ActionsAreSteps DEF EndBlockStart, Step
<1>3. BlockHeight' = BlockHeight
  BY <1>2, BlockHeightStays
<1>4. Executing
  BY <1>1, NeedsExecutionDecides DEF EndBlockStart, HeightInv, HeightsByPhase, Replaying
<1>5. /\ NeedsExecution(host.savedHeight, BlockHeight)
      /\ BlockHeight = host.savedBeginHeight /\ store.height = height
  BY <1>1, <1>4, NeedsExecutionDecides DEF Executing
<1> DEFINE y == ChainSend(Now, Send("size", "priority"))
           s == ChainSend(y, Send("size", "inbound"))
           c == [cosmos EXCEPT !.pushed = deliver.pushed]
           run == host.runThisBlock
<1>6. /\ deliver' = s.deliver /\ host' = [host EXCEPT !.sends = s.sends]
      /\ policy' = [beans |-> 0, neverStop |-> run # <<>>] /\ pc' = "leftover"
  BY <1>5 DEF EndBlockStart, GoTo
<1>7. RunningInv /\ LoadedInv /\ Now \in WorkState
  BY <1>1, <1>5, InRunning
<1>8. Split(Now.sends, BlockHeight, c, Now.deliver) /\ Now.deliver = deliver
      /\ Now.pendingExport = host.pendingExport
  BY <1>7 DEF RunningInv, Now
<1>9. s = ChainSend(y, Send("size", "inbound"))
  OBVIOUS
<1>10. /\ y \in WorkState /\ Split(y.sends, BlockHeight, c, y.deliver)
       /\ y.deliver = deliver
  BY <1>1, <1>7, <1>8, SizeTraced DEF QueueName
<1> HIDE DEF y, s
<1>11. /\ s \in WorkState /\ Split(s.sends, BlockHeight, c, s.deliver)
       /\ s.deliver = deliver
  <2> HIDE DEF c
  <2>1. "inbound" \in QueueName /\ BlockHeight \in Nat
    BY <1>1 DEF QueueName
  <2>2. /\ s \in WorkState /\ Split(s.sends, BlockHeight, c, s.deliver)
        /\ s.deliver = y.deliver
    BY <2>1, <1>9, <1>10, SizeTraced
  <2> QED
    BY <1>10, <2>2
<1>12. /\ host' \in HostState /\ host'.sends = s.sends /\ host'.runThisBlock = run
       /\ host'.pendingExport = host.pendingExport
  BY <1>1, <1>6, <1>11 DEF Typed, HostState, WorkState
<1>13. policy' \in PolicyState /\ policy'.beans = 0 /\ policy'.neverStop = (run # <<>>)
  BY <1>6 DEF PolicyState
<1>14. Typed'
  BY <1>1, <1>2, <1>6, <1>11, <1>12, <1>13 DEF Typed, WorkState
<1>15. txs # <<>> /\ deliver.pushed = Decision /\ run = Forced(BlockHeight)
  BY <1>1, <1>7 DEF RunningInv, LoadedInv
<1>16. Here' = BlockStart
  <2>1. [deliver EXCEPT !.exported = @ \cup host.pendingExport] =
          [OpenCosmos(cosmos, BlockHeight) EXCEPT !.pushed = Decision]
    BY <1>7, <1>15 DEF LoadedInv
  <2>2. work.kernel = OpenKernel(store.kernel, BlockHeight)
    BY <1>7 DEF LoadedInv
  <2>3. Here' = [pc |-> "leftover", deliver |-> [deliver EXCEPT !.exported = @ \cup host.pendingExport],
                 kernel |-> work.kernel, beans |-> 0, neverStop |-> run # <<>>, run |-> run]
    BY <1>2, <1>6, <1>11, <1>12, <1>13 DEF Here, Abs, Now
  <2> QED
    BY <1>15, <2>1, <2>2, <2>3 DEF BlockStart, Start
<1>17. BlockStart' = BlockStart /\ Decision' = Decision /\ Base' = Base
  BY <1>2, <1>3 DEF BlockStart, Decision, Base
<1>18. BlockStart \in BlockState
  BY <1>1, <1>15, DecisionType, StartType DEF BlockStart, Typed, StoreState
<1>19. Leads(BlockStart, BlockStart, BlockHeight)
  BY DEF Leads
<1>20. pc' \in ExecutionPhases /\ pc' \notin {"begin", "deliver", "end", "down", "commit", "cosmosCommit", "panic"}
  BY <1>6 DEF ExecutionPhases
<1>21. RunningInv'
  BY <1>2, <1>3, <1>6, <1>11, <1>12, <1>15, <1>16, <1>17, <1>18, <1>19, <1>20 DEF RunningInv
<1>22. ~Repeating' /\ CommitInv' /\ CarriedInv' /\ DownInv'
  BY <1>1, <1>2, <1>3, <1>5, <1>20 DEF Repeating, CommitInv, CarriedInv, DownInv
<1>23. DecidedInv'
  BY <1>1, <1>2, <1>3, <1>17 DEF DecidedInv
<1> QED
  BY <1>2, <1>14, <1>20, <1>21, <1>22, <1>23 DEF BlockInv

(* A replayed END_BLOCK leads to what the validators agreed on.            *)
LEMMA ReplayKeepsBlock == ASSUME BlockInv, EndBlockReplay PROVE BlockInv'
<1>1. /\ HeightInv /\ Typed /\ height \in Nat /\ BlockHeight \in Nat /\ BlockHeight # height
      /\ pc = "end" /\ DecidedInv /\ CarriedInv
  BY BlockHeightAdvances DEF EndBlockReplay, BlockInv, HeightInv
<1>2. HeightInv' /\ UNCHANGED <<height, cosmos, store, work, policy, txs, final>>
  BY ActionsAreSteps DEF EndBlockReplay, Step
<1>3. BlockHeight' = BlockHeight
  BY <1>2, BlockHeightStays
<1>4. Replaying
  BY <1>1, NeedsExecutionDecides DEF EndBlockReplay, HeightInv, HeightsByPhase, Executing
<1>5. store.height = BlockHeight
  BY <1>4 DEF Replaying
<1>6. RepeatInv
  BY <1>1, <1>5 DEF BlockInv, Repeating
<1>7. /\ deliver = Base /\ host.sends = store.sends /\ store.sends \in Seq(SendSet)
      /\ work.kernel = store.kernel /\ host.pendingExport = {} /\ host.runThisBlock = <<>>
  BY <1>1, <1>6 DEF RepeatInv, Typed, StoreState
<1>8. /\ BlockHeight \in DOMAIN final
      /\ Split(store.sends, BlockHeight, Base, final[BlockHeight])
      /\ \A i \in 1..Len(store.sends) : store.sends[i].at = BlockHeight
  BY <1>1, <1>5 DEF DecidedInv, CarriedInv
<1>9. Trace(Base, store.sends, final[BlockHeight])
  BY <1>1, <1>7, <1>8, SplitWhole
<1>10. Replay(deliver, host.sends) = [deliver |-> final[BlockHeight], same |-> TRUE]
  BY <1>7, <1>9, ReplayTraced
<1>11. deliver' = final[BlockHeight] /\ pc' = "commit" /\ host' = host
  BY <1>10 DEF EndBlockReplay, GoTo
<1>12. Typed'
  BY <1>1, <1>2, <1>8, <1>11 DEF Typed
<1>13. BlockStart' = BlockStart /\ Base' = Base
  BY <1>2, <1>3 DEF BlockStart, Decision, Base
<1>14. CommitInv'
  BY <1>2, <1>3, <1>5, <1>7, <1>8, <1>11, <1>13 DEF CommitInv
<1>15. ~Running' /\ ~Repeating' /\ DownInv' /\ CarriedInv'
  BY <1>1, <1>2, <1>3, <1>11 DEF Running, Repeating, DownInv, CarriedInv, ExecutionPhases, QueueName
<1>16. DecidedInv'
  BY <1>1, <1>2, <1>3, <1>13 DEF DecidedInv
<1> QED
  BY <1>2, <1>11, <1>12, <1>14, <1>15, <1>16 DEF BlockInv

(* The first execution of a block decides, and every later one agrees.     *)
Decides ==
  /\ DOMAIN final' = DOMAIN final \cup {BlockHeight} /\ final'[BlockHeight] = deliver
  /\ \A h \in DOMAIN final : h # BlockHeight => final'[h] = final[h]
  /\ final' \in [DOMAIN final' -> CosmosState]

LEMMA FinishDecides ==
  ASSUME BlockInv, EndBlockFinish
  PROVE  /\ store.height = height /\ txs # <<>> /\ deliver.pushed = Decision
         /\ BlockStart \in BlockState /\ Here \in BlockState
         /\ Leads(BlockStart, Here, BlockHeight)
         /\ Here.pc = "finish" /\ Here.deliver = deliver /\ Here.kernel = work.kernel
         /\ host.runThisBlock = <<>> /\ Here.run = <<>>
         /\ Split(host.sends, BlockHeight, Base, deliver)
         /\ Decides
<1>1. /\ pc = "finish" /\ pc \in ExecutionPhases /\ pc' = "commit" /\ host.pendingExport = {}
      /\ UNCHANGED <<height, cosmos, deliver, store, work, txs>>
  BY DEF EndBlockFinish, ExecutionPhases, GoTo
<1>2. /\ Typed /\ height \in Nat /\ BlockHeight \in Nat /\ BlockHeight # height
      /\ store.height = height /\ RunningInv /\ Here \in BlockState
      /\ host.runThisBlock = Here.run /\ Here.pc = pc /\ DecidedInv
  BY <1>1, InExecution, BlockHeightAdvances DEF BlockInv
<1>3. /\ Split(host.sends, BlockHeight, [cosmos EXCEPT !.pushed = deliver.pushed], deliver)
      /\ txs # <<>> /\ deliver.pushed = Decision
      /\ Leads(BlockStart, Here, BlockHeight)
  BY <1>1, <1>2 DEF RunningInv
<1>4. Here.deliver = deliver
  <2>1. Here.deliver = [deliver EXCEPT !.exported = @ \cup host.pendingExport]
    BY DEF Here, Abs, Now
  <2> QED
    BY <1>1, <1>2, <2>1 DEF Typed, CosmosState
<1>5. host.runThisBlock = <<>> /\ Here.run = <<>> /\ Here.kernel = work.kernel
  BY <1>1, <1>2 DEF BlockState, Here, Abs, Now
<1>6. BlockStart \in BlockState
  BY <1>2, <1>3, DecisionType, StartType DEF BlockStart, Typed, StoreState
<1>7. BlockHeight \in DOMAIN final => deliver = final[BlockHeight]
  <2>1. SUFFICES ASSUME BlockHeight \in DOMAIN final
                 PROVE  deliver = final[BlockHeight]
    OBVIOUS
  <2>2. PICK z : Leads(BlockStart, z, BlockHeight) /\ z.pc = "finish"
                 /\ z.deliver = final[BlockHeight]
    BY <1>2, <2>1 DEF DecidedInv
  <2>3. Here = z
    BY <1>1, <1>2, <1>3, <1>6, <2>2, OneEnd
  <2> QED
    BY <1>4, <2>2, <2>3
<1>8. Decides
  <2>1. deliver \in CosmosState /\ final \in [DOMAIN final -> CosmosState]
    BY <1>2 DEF Typed
  <2>2. CASE BlockHeight \in DOMAIN final
    BY <1>7, <2>1, <2>2 DEF EndBlockFinish, Decided, Decides
  <2>3. CASE BlockHeight \notin DOMAIN final
    <3>1. final' = [h \in DOMAIN final \cup {BlockHeight} |->
                      IF h = BlockHeight THEN deliver ELSE final[h]]
      BY <2>3 DEF EndBlockFinish, Decided
    <3> QED
      BY <2>1, <3>1 DEF Decides
  <2> QED
    BY <2>2, <2>3
<1> QED
  BY <1>1, <1>2, <1>3, <1>4, <1>5, <1>6, <1>8 DEF Base

LEMMA FinishKeepsBlock == ASSUME BlockInv, EndBlockFinish PROVE BlockInv'
<1>1. /\ pc = "finish" /\ pc' = "commit" /\ host.pendingExport = {}
      /\ UNCHANGED <<height, cosmos, deliver, store, work, txs>>
      /\ HeightInv /\ Typed /\ DecidedInv
  BY DEF EndBlockFinish, GoTo, BlockInv
<1>2. /\ height \in Nat /\ BlockHeight \in Nat /\ BlockHeight # height
      /\ Typed /\ DecidedInv /\ store.height = height
  BY <1>1, FinishDecides, BlockHeightAdvances DEF HeightInv
<1>3. /\ txs # <<>> /\ deliver.pushed = Decision
      /\ Leads(BlockStart, Here, BlockHeight)
      /\ Split(host.sends, BlockHeight, Base, deliver)
  BY FinishDecides
<1>4. Here.deliver = deliver /\ Here.pc = "finish"
  BY FinishDecides
<1>5. host.runThisBlock = <<>>
  BY FinishDecides
<1>6. /\ DOMAIN final' = DOMAIN final \cup {BlockHeight} /\ final'[BlockHeight] = deliver
      /\ \A h \in DOMAIN final : h # BlockHeight => final'[h] = final[h]
      /\ final' \in [DOMAIN final' -> CosmosState]
  BY FinishDecides DEF Decides
<1>7. host' = [host EXCEPT !.savedHeight = BlockHeight] /\ policy' = Unused
  BY DEF EndBlockFinish
<1>8. /\ host' \in HostState /\ host'.sends = host.sends
       /\ host'.pendingExport = {} /\ host'.runThisBlock = <<>>
  BY <1>1, <1>2, <1>5, <1>7 DEF Typed, HostState
<1>9. Typed'
  <2>1. policy' \in PolicyState
    BY <1>7 DEF Unused, PolicyState
  <2>2. DOMAIN final' \subseteq Nat
    BY <1>2, <1>6 DEF Typed
  <2> QED
    BY <1>1, <1>2, <1>6, <1>8, <2>1, <2>2 DEF Typed
<1>10. /\ BlockHeight' = BlockHeight /\ BlockStart' = BlockStart /\ Base' = Base
  BY <1>1, BlockHeightStays DEF BlockStart, Decision, Base
<1>11. CommitInv'
  BY <1>1, <1>2, <1>3, <1>6, <1>8, <1>10 DEF CommitInv
<1>12. ~Running' /\ ~Repeating' /\ CarriedInv' /\ DownInv'
  BY <1>1, <1>2, <1>10 DEF Running, Repeating, CarriedInv, DownInv, ExecutionPhases, QueueName
<1>13. DecidedInv'
  <2>1. Leads(BlockStart, Here, BlockHeight) /\ Here.pc = "finish"
        /\ Here.deliver = final'[BlockHeight]
    BY <1>1, <1>2, <1>3, <1>4, <1>6
  <2>2. \A h \in DOMAIN final' : h <= BlockHeight
    BY <1>2, <1>6 DEF DecidedInv
  <2>3. height # 0 => FirstHeight <= height /\ height \in DOMAIN final' /\ cosmos = final'[height]
    BY <1>2, <1>6 DEF DecidedInv
  <2>4. \A i \in 1..Len(store.sends) : store.sends[i].at <= store.height
    BY <1>2 DEF DecidedInv
  <2> QED
    BY <1>1, <1>2, <1>3, <1>10, <2>1, <2>2, <2>3, <2>4 DEF DecidedInv
<1>14. HeightInv'
  BY ActionsAreSteps DEF Step
<1> QED
  BY <1>1, <1>9, <1>11, <1>12, <1>13, <1>14 DEF BlockInv

\* The saved downcalls are of the block or of an earlier one.
LEMMA SplitTimes ==
  ASSUME NEW s, NEW h \in Nat, NEW c, NEW d, Split(s, h, c, d)
  PROVE  s \in Seq(SendSet) /\ \A i \in 1..Len(s) : s[i].at <= h
<1>1. PICK p, o : SplitAt(p, o, s, h, c, d)
  BY DEF Split
<1>2. /\ p \in Seq(SendSet) /\ o \in Seq(SendSet) /\ s = p \o o
      /\ \A i \in 1..Len(p) : p[i].at < h
      /\ \A i \in 1..Len(o) : o[i].at = h
  BY <1>1 DEF SplitAt
<1> DEFINE m == Len(p)
           n == Len(o)
<1>3. /\ s \in Seq(SendSet) /\ Len(s) = m + n
      /\ \A i \in 1..m + n : s[i] = IF i <= m THEN p[i] ELSE o[i - m]
  BY <1>2, ConcatProperties
<1>4. m \in Nat /\ n \in Nat
  BY <1>2, LenProperties
<1>5. /\ \A i \in 1..m : p[i] \in SendSet /\ p[i].at < h
      /\ \A i \in 1..n : o[i].at = h
  BY <1>2, ElementOfSeq
<1> HIDE DEF m, n
<1>6. ASSUME NEW i \in 1..Len(s)
      PROVE  s[i].at <= h
  <2>1. CASE i <= m
    <3>1. i \in 1..m /\ s[i] = p[i]
      BY <1>3, <1>4, <2>1
    <3>2. p[i].at \in Nat
      BY <1>5, <3>1 DEF SendSet
    <3> QED
      BY <1>5, <3>1, <3>2
  <2>2. CASE ~(i <= m)
    <3>1. i - m \in 1..n /\ s[i] = o[i - m]
      BY <1>3, <1>4, <2>2
    <3> QED
      BY <1>5, <3>1
  <2> QED
    BY <2>1, <2>2
<1> QED
  BY <1>3, <1>6

(* The swing-store commits the block and its downcalls.                    *)
LEMMA CommitKeepsBlock == ASSUME BlockInv, CommitBlock PROVE BlockInv'
<1>1. /\ HeightInv /\ Typed /\ height \in Nat /\ BlockHeight \in Nat /\ BlockHeight # height
      /\ pc = "commit" /\ DecidedInv /\ CommitInv
  BY BlockHeightAdvances DEF CommitBlock, BlockInv, HeightInv
<1>2. host.savedHeight = BlockHeight
  BY <1>1 DEF HeightInv, HeightsByPhase
<1>3. /\ BlockHeight \in DOMAIN final /\ deliver = final[BlockHeight]
      /\ host.pendingExport = {} /\ host.runThisBlock = <<>>
      /\ Split(host.sends, BlockHeight, Base, deliver)
  BY <1>1 DEF CommitInv
<1>4. /\ store' = [work EXCEPT !.height = BlockHeight, !.sends = host.sends]
      /\ work' = store' /\ host' = [host EXCEPT !.sends = <<>>] /\ pc' = "cosmosCommit"
      /\ UNCHANGED <<height, cosmos, deliver, policy, txs, final>>
  BY <1>2, <1>3 DEF CommitBlock, GoTo
<1>5. /\ store' \in StoreState /\ store'.height = BlockHeight /\ store'.sends = host.sends
      /\ host' \in HostState /\ host'.sends = <<>>
      /\ host'.pendingExport = {} /\ host'.runThisBlock = <<>>
  <2>1. <<>> \in Seq(SendSet)
    BY EmptySeq
  <2> QED
    BY <1>1, <1>3, <1>4, <2>1 DEF Typed, StoreState, HostState
<1>6. Typed'
  BY <1>1, <1>4, <1>5 DEF Typed
<1>7. BlockHeight' = BlockHeight /\ Base' = Base
  BY <1>4, BlockHeightStays DEF Base, Decision
<1>8. ~Running' /\ ~Repeating' /\ DownInv' /\ CommitInv' /\ CarriedInv'
  BY <1>3, <1>4, <1>5, <1>7
  DEF Running, Repeating, DownInv, CommitInv, CarriedInv, ExecutionPhases, QueueName
<1>9. DecidedInv'
  <2>1. \A i \in 1..Len(store'.sends) : store'.sends[i].at <= store'.height
    BY <1>1, <1>3, <1>5, SplitTimes
  <2>2. Split(store'.sends, BlockHeight, Base, final[BlockHeight])
    BY <1>3, <1>5
  <2> QED
    BY <1>1, <1>3, <1>4, <1>5, <1>7, <2>1, <2>2 DEF DecidedInv
<1>10. HeightInv'
  BY ActionsAreSteps DEF Step
<1> QED
  BY <1>4, <1>6, <1>8, <1>9, <1>10 DEF BlockInv

(* Then cosmos does, and the next block may begin.                         *)
LEMMA CosmosCommitKeepsBlock == ASSUME BlockInv, CosmosCommit PROVE BlockInv'
<1>1. /\ HeightInv /\ Typed /\ height \in Nat /\ BlockHeight \in Nat /\ BlockHeight # height
      /\ pc = "cosmosCommit" /\ DecidedInv /\ CommitInv
  BY BlockHeightAdvances DEF CosmosCommit, BlockInv, HeightInv
<1>2. store.height = BlockHeight
  BY <1>1 DEF HeightInv, HeightsByPhase
<1>3. /\ BlockHeight \in DOMAIN final /\ deliver = final[BlockHeight]
      /\ host.pendingExport = {} /\ host.runThisBlock = <<>>
      /\ host.sends = <<>> /\ work = store
  BY <1>1 DEF CommitInv
<1>4. /\ height' = BlockHeight /\ cosmos' = deliver /\ txs' = <<>> /\ pc' = "begin"
      /\ host' = [host EXCEPT !.fresh = FALSE]
      /\ UNCHANGED <<deliver, store, work, policy, final>>
  BY DEF CosmosCommit, GoTo
<1>5. /\ BlockHeight' \in Nat /\ BlockHeight < BlockHeight' /\ BlockHeight' # FirstHeight
      /\ BlockHeight # 0 /\ FirstHeight <= BlockHeight
  <2>1. BlockHeight # 0 /\ BlockHeight' = BlockHeight + 1
    BY <1>1, <1>4, BlockHeightAdvances DEF BlockHeight, NextHeight
  <2>2. FirstHeight \in Nat /\ FirstHeight <= BlockHeight
    BY <1>1, HeightAssumption DEF BlockHeight, NextHeight, DecidedInv
  <2> QED
    BY <1>1, <2>1, <2>2
<1>6. host' \in HostState /\ host'.sends = <<>> /\ host'.runThisBlock = <<>>
      /\ host'.pendingExport = {} /\ host'.fresh = FALSE
  BY <1>1, <1>3, <1>4 DEF Typed, HostState
<1>7. Typed'
  <2>1. <<>> \in Seq(Queues) /\ Len(<<>>) <= 1
    BY EmptySeq
  <2> QED
    BY <1>1, <1>4, <1>6, <2>1 DEF Typed
<1>8. \A h \in DOMAIN final : h < BlockHeight'
  <2>1. \A h \in DOMAIN final : h \in Nat /\ h <= BlockHeight
    BY <1>1 DEF DecidedInv, Typed
  <2> QED
    BY <1>1, <1>5, <2>1
<1>9. BlockHeight' \notin DOMAIN final
  BY <1>5, <1>8
<1>10. [cosmos' EXCEPT !.pushed = deliver'.pushed] = deliver
       /\ [deliver' EXCEPT !.exported = @ \cup host'.pendingExport] = deliver
  BY <1>1, <1>4, <1>6 DEF Typed, CosmosState
<1>11. LoadedInv'
  <2>1. OpenCosmos(cosmos', BlockHeight') = deliver
        /\ OpenKernel(store'.kernel, BlockHeight') = work'.kernel
    BY <1>3, <1>4, <1>5 DEF OpenCosmos, OpenKernel
  <2>2. [deliver EXCEPT !.pushed = deliver'.pushed] = deliver
    BY <1>4, <1>10
  <2> QED
    BY <1>4, <1>5, <1>6, <1>10, <2>1, <2>2 DEF LoadedInv
<1>12. RunningInv'
  <2>1. Split(<<>>, BlockHeight', deliver, deliver)
    <3>1. Trace(deliver, <<>>, deliver)
      BY <1>1, TraceNone, CosmosStateIs DEF Typed
    <3>2. <<>> \in Seq(SendSet) /\ Len(<<>>) = 0 /\ <<>> = <<>> \o <<>> /\ 1..0 = {}
      BY EmptySeq
    <3>3. SplitAt(<<>>, <<>>, <<>>, BlockHeight', deliver, deliver)
      BY <3>1, <3>2 DEF SplitAt
    <3> QED
      BY <3>3 DEF Split
  <2>2. Early(<<>>, BlockHeight')
    BY DEF Early
  <2>3. pc' \notin ExecutionPhases
    BY <1>4 DEF ExecutionPhases, QueueName
  <2> QED
    BY <1>4, <1>6, <1>10, <1>11, <2>1, <2>2, <2>3 DEF RunningInv
<1>13. ~Repeating' /\ DownInv' /\ CommitInv' /\ CarriedInv' /\ pc' # "panic"
  BY <1>2, <1>4, <1>5, <1>1 DEF Repeating, DownInv, CommitInv, CarriedInv
<1>14. DecidedInv'
  <2>1. \A i \in 1..Len(store.sends) : store.sends[i].at <= store.height
    BY <1>1 DEF DecidedInv
  <2>2. \A h \in DOMAIN final : h <= BlockHeight'
    <3>1. \A h \in DOMAIN final : h \in Nat
      BY <1>1 DEF Typed
    <3> QED
      BY <1>5, <1>8, <3>1
  <2>3. store'.height # BlockHeight'
    BY <1>1, <1>2, <1>4, <1>5
  <2> QED
    BY <1>2, <1>3, <1>4, <1>5, <1>9, <2>1, <2>2, <2>3 DEF DecidedInv
<1>15. HeightInv'
  BY ActionsAreSteps DEF Step
<1> QED
  BY <1>7, <1>12, <1>13, <1>14, <1>15 DEF BlockInv

(* A node starts with an empty chain.                                      *)
LEMMA BlockInvInit == Init => BlockInv
<1> SUFFICES ASSUME Init PROVE BlockInv
  OBVIOUS
<1>1. HeightInv
  BY HeightInvInit
<1> DEFINE none == [q \in QueueName |-> 0]
           kern == [given |-> <<>>, runQueue |-> <<>>, woken |-> {}, dead |-> DeadVatWork]
<1>2. /\ height = 0 /\ pc = "down" /\ txs = <<>> /\ final = <<>> /\ host = Stopped
      /\ deliver = cosmos /\ work = store /\ policy = Unused
      /\ cosmos = [pushed |-> NoTxs, head |-> none, out |-> <<>>, exported |-> {}]
      /\ store = [height |-> 0, beginHeight |-> 0, sends |-> <<>>, kernel |-> kern]
  BY DEF Init
<1>3. /\ \A S : <<>> \in Seq(S)
      /\ Len(<<>>) = 0 /\ DOMAIN <<>> = {}
  BY EmptySeq
<1>4. cosmos \in CosmosState
  <2>1. NoTxs \in [QueueName -> Seq(ActionSet)] /\ none \in [QueueName -> Nat]
        /\ \A q \in QueueName : NoTxs[q] = <<>> /\ none[q] = 0
    BY <1>3 DEF NoTxs
  <2> HIDE DEF none
  <2>2. cosmos.pushed = NoTxs /\ cosmos.head = none
    BY <1>2
  <2>3. cosmos \in CosmosRecord
    BY <1>2, <1>3, <2>1 DEF CosmosRecord
  <2>4. \A q \in QueueName : cosmos.pushed[q] \in Seq(Pushable(q))
                             /\ cosmos.head[q] <= Len(cosmos.pushed[q])
    BY <1>3, <2>1, <2>2
  <2> QED
    BY <2>3, <2>4, CosmosStateIs
<1>5. store \in StoreState
  <2>1. kern \in KernelState
    BY <1>3, PolicyAssumption DEF KernelState
  <2> HIDE DEF kern
  <2> QED
    BY <1>2, <1>3, <2>1 DEF StoreState
<1>6. host \in HostState /\ policy \in PolicyState
  BY <1>2, <1>3 DEF Stopped, HostState, Unused, PolicyState
<1>7. Typed
  BY <1>2, <1>3, <1>4, <1>5, <1>6 DEF Typed
<1>8. BlockHeight \in Nat /\ BlockHeight # 0
  BY <1>2, BlockHeightAdvances
<1>9. ~Running /\ ~Repeating /\ DownInv /\ CommitInv
  BY <1>2 DEF Running, Repeating, DownInv, CommitInv, ExecutionPhases, QueueName
<1>10. CarriedInv /\ DecidedInv
  BY <1>2, <1>3, <1>8 DEF CarriedInv, DecidedInv
<1> QED
  BY <1>1, <1>2, <1>7, <1>9, <1>10 DEF BlockInv

\* The bound is reached, or nothing happens.
LEMMA StutterKeepsBlock == ASSUME BlockInv, UNCHANGED vars PROVE BlockInv'
<1>1. /\ height' = height /\ cosmos' = cosmos /\ deliver' = deliver /\ store' = store
      /\ work' = work /\ host' = host /\ policy' = policy /\ pc' = pc /\ txs' = txs
      /\ final' = final
  BY DEF vars
<1>2. HeightInv'
  BY HeightInvInductive DEF BlockInv
<1>3. /\ BlockHeight' = BlockHeight /\ BlockStart' = BlockStart /\ Base' = Base
      /\ Decision' = Decision
  BY <1>1, BlockHeightStays DEF BlockStart, Decision, Base
<1>4. Typed' /\ pc' # "panic" /\ DownInv'
  BY <1>1 DEF BlockInv, Typed, DownInv
<1>5. Here' = Here
  BY <1>1 DEF Here, Abs, Now
<1>6. Running => RunningInv'
  <2>1. LoadedInv => LoadedInv'
    BY <1>1, <1>3 DEF LoadedInv
  <2> QED
    BY <1>1, <1>3, <1>5, <2>1 DEF BlockInv, RunningInv
<1>7. Repeating => RepeatInv'
  BY <1>1, <1>3 DEF BlockInv, RepeatInv
<1>8. Running' = Running /\ Repeating' = Repeating
  BY <1>1, <1>3 DEF Running, Repeating
<1>9. CommitInv' /\ CarriedInv' /\ DecidedInv'
  BY <1>1, <1>3 DEF BlockInv, CommitInv, CarriedInv, DecidedInv
<1> QED
  BY <1>2, <1>4, <1>6, <1>7, <1>8, <1>9 DEF BlockInv

(* No step of a node that does not crash between the two commits of a      *)
(* block whose downcalls include earlier ones disturbs its block. *)
LEMMA BlockInvInductive ==
  ASSUME BlockInv, [Next]_vars, ~CrashAfterRelaunch
  PROVE  BlockInv'
<1>1. CASE Launch
  BY <1>1, LaunchKeepsBlock
<1>2. CASE FlushExport
  BY <1>2, FlushKeepsBlock
<1>3. CASE BeginBlock
  BY <1>3, BeginKeepsBlock
<1>4. CASE HaltForUpgrade \/ Crash
  BY <1>4, CrashKeepsBlock
<1>5. CASE DeliverTxs
  BY <1>5, DeliverKeepsBlock
<1>6. CASE EndBlockReplay
  BY <1>6, ReplayKeepsBlock
<1>7. CASE EndBlockStart
  BY <1>7, EndStartKeepsBlock
<1>8. CASE RunLeftover
  BY <1>8, LeftoverKeepsBlock
<1>9. CASE RunForced
  BY <1>9, ForcedKeepsBlock
<1>10. CASE RunTimer
  BY <1>10, TimerKeepsBlock
<1>11. CASE RunCleanup
  BY <1>11, CleanupKeepsBlock
<1>12. CASE \E q \in QueueName : ProcessAction(q)
  BY <1>12, ProcessKeepsBlock
<1>13. CASE \E q \in QueueName : QueueDone(q)
  BY <1>13, QueueDoneKeepsBlock
<1>14. CASE EndBlockFinish
  BY <1>14, FinishKeepsBlock
<1>15. CASE CommitBlock
  BY <1>15, CommitKeepsBlock
<1>16. CASE CosmosCommit
  BY <1>16, CosmosCommitKeepsBlock
<1>17. CASE AtTip \/ UNCHANGED vars
  BY <1>17, StutterKeepsBlock DEF AtTip
<1> QED
  BY <1>1, <1>2, <1>3, <1>4, <1>5, <1>6, <1>7, <1>8, <1>9, <1>10, <1>11, <1>12, <1>13,
     <1>14, <1>15, <1>16, <1>17 DEF Next, Step

(* No crash makes the node reach another state than the validators agreed  *)
(* on (commitBlock and replayChainSends of launch-chain.js), as long as it *)
(* does not crash between the two commits of the first block it executes   *)
(* after a restart, which would replay the downcalls of two blocks.        *)
THEOREM AppHashAlwaysAgrees ==
  ASSUME ~CrashAfterRelaunch
  PROVE  Spec => []AppHashAgrees
<1>1. Init => BlockInv
  BY BlockInvInit
<1>2. BlockInv /\ [Next]_vars => BlockInv'
  BY BlockInvInductive
<1>3. BlockInv => AppHashAgrees
  BY DEF BlockInv, CommitInv, DecidedInv, AppHashAgrees
<1> QED
  BY <1>1, <1>2, <1>3, PTL DEF Spec

-----------------------------------------------------------------------------
(* What a block does to the chain and to the kernel.                       *)

LEMMA SetOfConcat ==
  ASSUME NEW S, NEW s \in Seq(S), NEW t \in Seq(S)
  PROVE  s \o t \in Seq(S) /\ ToSet(s \o t) = ToSet(s) \cup ToSet(t)
<1> DEFINE m == Len(s)
           n == Len(t)
           u == s \o t
<1>1. /\ u \in Seq(S) /\ Len(u) = m + n /\ m \in Nat /\ n \in Nat
      /\ \A i \in 1..m + n : u[i] = IF i <= m THEN s[i] ELSE t[i - m]
  BY ConcatProperties, LenProperties
<1>2. DOMAIN s = 1..m /\ DOMAIN t = 1..n /\ DOMAIN u = 1..m + n
  BY <1>1, LenProperties
<1> HIDE DEF m, n, u
<1>3. \A i \in 1..m : i \in 1..m + n /\ u[i] = s[i]
  BY <1>1
<1>4. \A i \in 1..n : m + i \in 1..m + n /\ u[m + i] = t[i]
  <2>1. SUFFICES ASSUME NEW i \in 1..n
                 PROVE  m + i \in 1..m + n /\ u[m + i] = t[i]
    OBVIOUS
  <2>2. m + i \in 1..m + n /\ ~(m + i <= m) /\ (m + i) - m = i
    BY <1>1
  <2> QED
    BY <1>1, <2>2
<1>5. \A i \in 1..m + n : (i \in 1..m /\ u[i] = s[i]) \/ (i - m \in 1..n /\ u[i] = t[i - m])
  BY <1>1
<1>6. ToSet(u) = ToSet(s) \cup ToSet(t)
  BY <1>2, <1>3, <1>4, <1>5 DEF ToSet
<1> QED
  BY <1>1, <1>6 DEF u

(* Two sequences have nothing in common, and nothing twice. *)
Apart(s, t) == IsInjective(s) /\ IsInjective(t) /\ ToSet(s) \cap ToSet(t) = {}

LEMMA InjectiveConcat ==
  ASSUME NEW S, NEW s \in Seq(S), NEW t \in Seq(S)
  PROVE  IsInjective(s \o t) <=> Apart(s, t)
<1> DEFINE m == Len(s)
           n == Len(t)
           u == s \o t
<1>1. /\ Len(u) = m + n /\ m \in Nat /\ n \in Nat
      /\ \A i \in 1..m + n : u[i] = IF i <= m THEN s[i] ELSE t[i - m]
  BY ConcatProperties, LenProperties
<1>2. DOMAIN s = 1..m /\ DOMAIN t = 1..n /\ DOMAIN u = 1..m + n
  BY <1>1, ConcatProperties, LenProperties
<1> HIDE DEF m, n, u
<1>3. \A i \in 1..m : i \in 1..m + n /\ u[i] = s[i]
  BY <1>1
<1>4. \A i \in 1..n : m + i \in 1..m + n /\ u[m + i] = t[i]
  <2>1. SUFFICES ASSUME NEW i \in 1..n
                 PROVE  m + i \in 1..m + n /\ u[m + i] = t[i]
    OBVIOUS
  <2>2. m + i \in 1..m + n /\ ~(m + i <= m) /\ (m + i) - m = i
    BY <1>1
  <2> QED
    BY <1>1, <2>2
<1>5. ASSUME IsInjective(u) PROVE Apart(s, t)
  <2>1. \A i, j \in 1..m + n : u[i] = u[j] => i = j
    BY <1>2, <1>5 DEF IsInjective
  <2>2. IsInjective(s)
    BY <1>2, <1>3, <2>1 DEF IsInjective
  <2>3. \A i, j \in 1..n : t[i] = t[j] => i = j
    <3>1. \A i, j \in 1..n : m + i = m + j => i = j
      BY <1>1
    <3> QED
      BY <1>4, <2>1, <3>1
  <2>4. \A i \in 1..m, j \in 1..n : s[i] # t[j]
    <3>1. \A i \in 1..m, j \in 1..n : i # m + j
      BY <1>1
    <3> QED
      BY <1>3, <1>4, <2>1, <3>1
  <2> QED
    BY <1>2, <2>2, <2>3, <2>4 DEF Apart, IsInjective, ToSet
<1>6. ASSUME Apart(s, t) PROVE IsInjective(u)
  <2>1. /\ \A i, j \in 1..m : s[i] = s[j] => i = j
        /\ \A i, j \in 1..n : t[i] = t[j] => i = j
        /\ \A i \in 1..m, j \in 1..n : s[i] # t[j]
    BY <1>2, <1>6 DEF Apart, IsInjective, ToSet
  <2>2. SUFFICES ASSUME NEW i \in 1..m + n, NEW j \in 1..m + n, u[i] = u[j]
                 PROVE  i = j
    BY <1>2 DEF IsInjective
  <2>3. \A k \in 1..m + n : (k \in 1..m /\ u[k] = s[k]) \/ (k - m \in 1..n /\ u[k] = t[k - m])
    BY <1>1
  <2>4. CASE i \in 1..m /\ u[i] = s[i]
    BY <2>1, <2>2, <2>3, <2>4
  <2>5. CASE i - m \in 1..n /\ u[i] = t[i - m]
    <3>1. j - m \in 1..n /\ u[j] = t[j - m]
      BY <2>1, <2>2, <2>3, <2>5
    <3>2. i - m = j - m
      BY <2>1, <2>2, <2>5, <3>1
    <3> QED
      BY <1>1, <3>2
  <2> QED
    BY <2>3, <2>4, <2>5
<1> QED
  BY <1>5, <1>6 DEF u

(* One sequence continues another.                                         *)
Continues(s, t) == \E u \in Seq(CrankSet) : t = s \o u

(* What the cranks that run do to the chain. *)
Sent(x, y) ==
  /\ y.deliver.out \o y.kernel.runQueue = x.deliver.out \o x.kernel.runQueue
  /\ Continues(x.deliver.out, y.deliver.out)
  /\ ToSet(x.deliver.out) \subseteq ToSet(y.deliver.out)
  /\ x.neverStop => ToSet(x.kernel.runQueue) \subseteq ToSet(y.deliver.out)
  /\ x.deliver.exported = ToSet(x.deliver.out) => y.deliver.exported = ToSet(y.deliver.out)
  /\ y.deliver.pushed = x.deliver.pushed /\ y.deliver.head = x.deliver.head
  /\ y.kernel.given = x.kernel.given /\ y.kernel.woken = x.kernel.woken

LEMMA RanSent ==
  ASSUME NEW x \in RunState, NEW y, NEW n, Ran(x, y, n)
  PROVE  Sent(x, y)
<1> DEFINE q == x.kernel.runQueue
           ran == SubSeq(q, 1, n)
           rest == SubSeq(q, n + 1, Len(q))
           out == x.deliver.out
           sent == out \o ran
           ex == x.deliver.exported \cup ToSet(ran)
<1>1. q \in Seq(CrankSet) /\ out \in Seq(CrankSet) /\ n \in 0..Len(q)
      /\ (x.neverStop => n = Len(q))
  BY DEF Ran, RunState, KernelState, CosmosState
<1>2. y.kernel = [x.kernel EXCEPT !.runQueue = rest]
      /\ y.deliver = [x.deliver EXCEPT !.out = sent, !.exported = ex]
  BY DEF Ran
<1>3. ran \in Seq(CrankSet) /\ rest \in Seq(CrankSet) /\ ran \o rest = q
  BY <1>1, Cut
<1>4. x.neverStop => ran = q
  <2>1. SubSeq(q, 1, Len(q)) = q
    BY <1>1, SubSeqFull
  <2> QED
    BY <1>1, <2>1
<1> HIDE DEF ran, rest
<1>5. /\ sent \in Seq(CrankSet) /\ ToSet(sent) = ToSet(out) \cup ToSet(ran)
      /\ sent \o rest = out \o q
  <2>1. sent \in Seq(CrankSet) /\ ToSet(sent) = ToSet(out) \cup ToSet(ran)
    BY <1>1, <1>3, SetOfConcat
  <2>2. (out \o ran) \o rest = out \o (ran \o rest)
    <3>1. out \in Seq(CrankSet) /\ ran \in Seq(CrankSet) /\ rest \in Seq(CrankSet)
      BY <1>1, <1>3
    <3> HIDE DEF out
    <3> QED
      BY <3>1, ConcatAssociative
  <2> QED
    BY <1>3, <2>1, <2>2
<1> HIDE DEF sent, ex
<1>6. /\ y.kernel.runQueue = rest /\ y.deliver.out = sent /\ y.deliver.exported = ex
      /\ y.deliver.pushed = x.deliver.pushed /\ y.deliver.head = x.deliver.head
      /\ y.kernel.given = x.kernel.given /\ y.kernel.woken = x.kernel.woken
  BY <1>2 DEF RunState, KernelState, CosmosState
<1>7. Continues(out, sent)
  BY <1>3 DEF Continues, sent
<1> QED
  BY <1>4, <1>5, <1>6, <1>7 DEF Sent, ex

(* A forced action waits for its turn, or all of its cranks have run.      *)
Done(a, out) == ToSet(CrankSeq(a)) \subseteq ToSet(out)
ForcedKept(x, h) == \A a \in ToSet(Forced(h)) : a \in ToSet(x.run) \/ Done(a, x.deliver.out)

LEMMA DoneMore ==
  ASSUME NEW a, NEW s, NEW t, Done(a, s), ToSet(s) \subseteq ToSet(t)
  PROVE  Done(a, t)
BY DEF Done

LEMMA HeadOrTail ==
  ASSUME NEW S, NEW s \in Seq(S), s # <<>>, NEW a \in ToSet(s)
  PROVE  a = Head(s) \/ a \in ToSet(Tail(s))
<1> DEFINE n == Len(s)
<1>1. /\ n \in Nat /\ n # 0 /\ Head(s) = s[1] /\ Tail(s) \in Seq(S) /\ Len(Tail(s)) = n - 1
      /\ DOMAIN s = 1..n /\ \A i \in 1..n - 1 : Tail(s)[i] = s[i + 1]
  BY HeadTailProperties, EmptySeq, LenProperties
<1>2. DOMAIN Tail(s) = 1..n - 1
  BY <1>1, LenProperties
<1> HIDE DEF n
<1>3. PICK i \in 1..n : s[i] = a
  BY <1>1 DEF ToSet
<1>4. i # 1 => i - 1 \in 1..n - 1 /\ (i - 1) + 1 = i
  BY <1>1
<1> QED
  BY <1>1, <1>2, <1>3, <1>4 DEF ToSet

LEMMA ForcedPhaseKept ==
  ASSUME NEW x \in BlockState, NEW h, ForcedKept(x, h)
  PROVE  ForcedKept(Phase(x, h), h)
<1> DEFINE w == Phase(x, h)
<1>1. x \in RunState /\ x.pc \in ExecutionPhases
  BY DEF BlockState, RunState
<1>2. ASSUME w.run = x.run \/ (x.run = <<>> /\ w.run = <<>>),
             ToSet(x.deliver.out) \subseteq ToSet(w.deliver.out)
      PROVE  ForcedKept(w, h)
  <2>1. w.run = x.run
    BY <1>2
  <2> HIDE DEF w
  <2> QED
    BY <1>2, <2>1, DoneMore DEF ForcedKept
<1>3. CASE x.pc = "leftover"
  <2> DEFINE y == At(w, x.pc)
  <2>1. Ran(x, y, Taken(x)) /\ w \in BlockState
    BY <1>3, LeftoverPhase
  <2>2. y.deliver = w.deliver /\ y.run = w.run
    BY <2>1, AtType, <1>1 DEF BlockState
  <2> HIDE DEF y, w
  <2>3. Sent(x, y) /\ y.run = x.run
    BY <1>1, <2>1, RanSent DEF Ran
  <2> QED
    BY <1>2, <2>2, <2>3 DEF Sent, w
<1>4. CASE x.pc = "forced"
  <2>1. PICK z \in RunState, y \in RunState :
              /\ Asked(x, z, Head(x.run)) /\ Ran(z, y, Taken(z)) /\ x.neverStop
              /\ w.deliver = y.deliver /\ w.kernel = y.kernel
              /\ w.run = Tail(x.run)
    BY <1>4, ForcedPhase
  <2> HIDE DEF w
  <2>2. x.run # <<>> /\ x.run \in Seq(ActionSet) /\ Head(x.run) \in ActionSet
    BY <1>1, <1>4, HeadTailOf DEF BlockState, RunState
  <2>3. Sent(z, y)
    BY <2>1, RanSent
  <2>4. z.neverStop /\ z.deliver = x.deliver
        /\ z.kernel.runQueue = x.kernel.runQueue \o CrankSeq(Head(x.run))
    BY <2>1 DEF Asked
  <2>5. Done(Head(x.run), y.deliver.out)
    <3>1. CrankSeq(Head(x.run)) \in Seq(CrankSet) /\ x.kernel.runQueue \in Seq(CrankSet)
      BY <1>1, <2>2, CrankSeqIs DEF RunState, KernelState
    <3>2. ToSet(CrankSeq(Head(x.run))) \subseteq ToSet(z.kernel.runQueue)
      BY <2>4, <3>1, SetOfConcat
    <3> QED
      BY <2>3, <2>4, <3>2 DEF Sent, Done
  <2>6. ToSet(x.deliver.out) \subseteq ToSet(y.deliver.out)
    BY <2>3, <2>4 DEF Sent
  <2>7. ASSUME NEW a \in ToSet(Forced(h))
        PROVE  a \in ToSet(w.run) \/ Done(a, w.deliver.out)
    <3>1. CASE a \in ToSet(x.run)
      BY <2>1, <2>2, <2>5, <3>1, HeadOrTail
    <3>2. CASE Done(a, x.deliver.out)
      BY <2>1, <2>6, <3>2, DoneMore
    <3> QED
      BY <3>1, <3>2 DEF ForcedKept
  <2> QED
    BY <2>7 DEF ForcedKept, w
<1>5. CASE x.pc \in QueueName /\ x.deliver.head[x.pc] < Len(x.deliver.pushed[x.pc])
  <2>1. x.run = <<>> /\ w.run = <<>>
    BY <1>5, QueuePhase DEF BlockState, QueueName
  <2>2. PICK y \in RunState, z \in RunState, a \in Pushable(x.pc), c \in CosmosState :
              /\ c = [x.deliver EXCEPT !.head[x.pc] = @ + 1]
              /\ Asked([x EXCEPT !.deliver = c], z, a) /\ Ran(z, y, Taken(z))
              /\ w.deliver = y.deliver /\ w.kernel = y.kernel
    BY <1>5, QueuePhase
  <2>3. Sent(z, y)
    BY <2>2, RanSent
  <2>4. z.deliver.out = x.deliver.out
    BY <1>1, <2>2 DEF Asked, RunState, CosmosState
  <2> QED
    BY <1>2, <2>1, <2>2, <2>3, <2>4 DEF Sent
<1>6. CASE x.pc = "timer"
  <2>1. x.run = <<>> /\ w.run = <<>>
    BY <1>6, TimerPhase DEF BlockState
  <2>2. PICK z \in RunState, y \in RunState :
              /\ Polled(x, z, h) /\ Ran(z, y, Taken(z))
              /\ w.deliver = y.deliver /\ w.kernel = y.kernel
    BY <1>6, TimerPhase
  <2>3. Sent(z, y)
    BY <2>2, RanSent
  <2> QED
    BY <1>2, <2>1, <2>2, <2>3 DEF Sent, Polled
<1>7. CASE \/ x.pc \in QueueName /\ x.deliver.head[x.pc] >= Len(x.deliver.pushed[x.pc])
           \/ x.pc \in {"cleanup", "finish"}
  <2>1. x.run = <<>> /\ w.run = <<>> /\ w.deliver = x.deliver
    BY <1>7, OtherPhase DEF BlockState, QueueName
  <2> QED
    BY <1>2, <2>1
<1>8. x.pc \in QueueName =>
        x.deliver.head[x.pc] \in Nat /\ Len(x.deliver.pushed[x.pc]) \in Nat
  BY <1>1 DEF RunState, CosmosState
<1> QED
  BY <1>1, <1>3, <1>4, <1>5, <1>6, <1>7, <1>8 DEF ExecutionPhases

(* The forced actions of every block that was decided on are done.         *)
ForcedInv == \A h \in DOMAIN final : \A a \in ToSet(Forced(h)) : Done(a, final[h].out)

LEMMA ForcedInvInductive ==
  ASSUME BlockInv, ForcedInv, [Next]_vars
  PROVE  ForcedInv'
<1>1. CASE final' = final
  BY <1>1 DEF ForcedInv
<1>2. CASE EndBlockFinish
  <2> DEFINE S == {x \in BlockState : ForcedKept(x, BlockHeight)}
  <2>1. Closed(S, BlockHeight)
    <3>1. ASSUME NEW x \in S
          PROVE  Phase(x, BlockHeight) \in S
      BY PhaseType, ForcedPhaseKept
    <3> HIDE DEF S
    <3> QED
      BY <3>1 DEF Closed
  <2>2. BlockStart \in S
    <3>1. BlockStart.run = Forced(BlockHeight)
      BY DEF BlockStart, Start
    <3>2. ForcedKept(BlockStart, BlockHeight)
      BY <3>1 DEF ForcedKept
    <3> QED
      BY <1>2, <3>2, FinishDecides
  <2>3. S \in SUBSET BlockState
    OBVIOUS
  <2>4. Here \in S
    <3> HIDE DEF S
    <3> QED
      BY <1>2, <2>1, <2>2, <2>3, FinishDecides DEF Leads
  <2>5. Here.run = <<>> /\ Here.deliver = deliver /\ Decides
    BY <1>2, FinishDecides
  <2>6. \A a \in ToSet(Forced(BlockHeight)) : Done(a, deliver.out)
    <3>1. ToSet(<<>>) = {}
      BY DEF ToSet
    <3> QED
      BY <2>4, <2>5, <3>1 DEF ForcedKept
  <2> HIDE DEF S
  <2> QED
    BY <2>5, <2>6 DEF Decides, ForcedInv
<1> QED
  BY <1>1, <1>2
  DEF Next, Step, vars, Launch, FlushExport, BeginBlock, HaltForUpgrade, DeliverTxs,
      EndBlockReplay, EndBlockStart, RunLeftover, RunForced, RunTimer, RunCleanup,
      ProcessAction, QueueDone, CommitBlock, CosmosCommit, Crash, AtTip

(* The actions of a bootstrap or an upgrade run in their own block, to     *)
(* completion (runThisBlock of launch-chain.js), however full the run-     *)
(* queue and however small the limit. *)
THEOREM ForcedAlwaysRunInTheirBlock ==
  ASSUME ~CrashAfterRelaunch
  PROVE  Spec => []ForcedRunInTheirBlock
<1>1. Init => BlockInv /\ ForcedInv
  BY BlockInvInit DEF Init, ForcedInv
<1>2. BlockInv /\ ForcedInv /\ [Next]_vars => (BlockInv /\ ForcedInv)'
  BY BlockInvInductive, ForcedInvInductive
<1>3. BlockInv /\ ForcedInv => ForcedRunInTheirBlock
  <2>1. SUFFICES ASSUME ForcedInv, NEW h \in DOMAIN final, NEW i \in DOMAIN Forced(h)
                 PROVE  ToSet(CrankSeq(Forced(h)[i])) \subseteq ToSet(final[h].out)
    BY DEF ForcedRunInTheirBlock
  <2>2. Forced(h)[i] \in ToSet(Forced(h))
    BY <2>1 DEF ToSet
  <2> QED
    BY <2>1, <2>2 DEF ForcedInv, Done
<1> QED
  BY <1>1, <1>2, <1>3, PTL DEF Spec

-----------------------------------------------------------------------------
(* The kernel and the chain tell one story.                                *)

LEMMA GivenOfIs ==
  ASSUME NEW k \in KernelState, NEW q
  PROVE  /\ \A i \in 0..Len(k.given) : GivenOf(k, q, i) \in Nat
         /\ \A i \in 0..Len(k.given), j \in 0..Len(k.given) :
              i <= j => GivenOf(k, q, i) <= GivenOf(k, q, j)
         /\ \A i \in 1..Len(k.given) : k.given[i].kind = q => GivenOf(k, q, i) # 0
<1> DEFINE G(i) == {j \in 1..i : k.given[j].kind = q}
<1>1. Len(k.given) \in Nat
  BY LenProperties DEF KernelState
<1>2. ASSUME NEW i \in 0..Len(k.given)
      PROVE  IsFiniteSet(G(i)) /\ Cardinality(G(i)) \in Nat /\ GivenOf(k, q, i) = Cardinality(G(i))
  <2>1. IsFiniteSet(1..i) /\ G(i) \subseteq 1..i
    BY <1>1, FS_Interval
  <2>2. IsFiniteSet(G(i))
    BY <2>1, FS_Subset
  <2> QED
    BY <2>2, FS_CardinalityType DEF GivenOf
<1>3. ASSUME NEW i \in 0..Len(k.given), NEW j \in 0..Len(k.given), i <= j
      PROVE  Cardinality(G(i)) <= Cardinality(G(j))
  <2>1. G(i) \subseteq G(j)
    BY <1>1, <1>3
  <2>2. IsFiniteSet(G(j))
    BY <1>2
  <2> HIDE DEF G
  <2> QED
    BY <2>1, <2>2, FS_Subset
<1>4. ASSUME NEW i \in 1..Len(k.given), k.given[i].kind = q
      PROVE  Cardinality(G(i)) # 0
  <2>1. i \in G(i) /\ i \in 0..Len(k.given)
    BY <1>1, <1>4
  <2>2. IsFiniteSet(G(i))
    BY <1>2, <2>1
  <2> HIDE DEF G
  <2> QED
    BY <2>1, <2>2, FS_EmptySet
<1>5. \A i \in 1..Len(k.given) : i \in 0..Len(k.given)
  BY <1>1
<1> HIDE DEF G
<1> QED
  BY <1>2, <1>3, <1>4, <1>5

LEMMA GivenOfMore ==
  ASSUME NEW k \in KernelState, NEW l \in KernelState, NEW a \in ActionSet, NEW q,
         l.given = Append(k.given, a)
  PROVE  /\ \A i \in 0..Len(k.given) : GivenOf(l, q, i) = GivenOf(k, q, i)
         /\ GivenOf(l, q, Len(l.given)) =
              GivenOf(k, q, Len(k.given)) + (IF a.kind = q THEN 1 ELSE 0)
<1> DEFINE n == Len(k.given)
           G == {j \in 1..n : k.given[j].kind = q}
           H == {j \in 1..n + 1 : l.given[j].kind = q}
<1>1. /\ n \in Nat /\ Len(l.given) = n + 1
      /\ \A j \in 1..n : l.given[j] = k.given[j]
      /\ l.given[n + 1] = a
  BY AppendProperties, LenProperties DEF KernelState
<1> HIDE DEF n
<1>2. ASSUME NEW i \in 0..n
      PROVE  GivenOf(l, q, i) = GivenOf(k, q, i)
  <2>1. \A j \in 1..i : l.given[j] = k.given[j]
    BY <1>1
  <2>2. {j \in 1..i : l.given[j].kind = q} = {j \in 1..i : k.given[j].kind = q}
    BY <2>1
  <2> QED
    BY <2>2 DEF GivenOf
<1>3. H = IF a.kind = q THEN G \cup {n + 1} ELSE G
  <2>1. \A j \in 1..n + 1 : j \in 1..n \/ j = n + 1
    BY <1>1
  <2>2. n + 1 \in 1..n + 1 /\ \A j \in 1..n : j \in 1..n + 1
    BY <1>1
  <2> QED
    BY <1>1, <2>1, <2>2
<1>4. IsFiniteSet(G) /\ n + 1 \notin G
  <2>1. IsFiniteSet(1..n)
    BY <1>1, FS_Interval
  <2>2. G \subseteq 1..n /\ n + 1 \notin 1..n
    BY <1>1
  <2> QED
    BY <2>1, <2>2, FS_Subset
<1>5. Cardinality(G) \in Nat /\ Cardinality(G) + 0 = Cardinality(G)
  BY <1>4, FS_CardinalityType
<1>6. GivenOf(k, q, n) = Cardinality(G) /\ GivenOf(l, q, n + 1) = Cardinality(H)
  BY DEF GivenOf
<1> HIDE DEF G, H
<1>7. Cardinality(H) = Cardinality(G) + (IF a.kind = q THEN 1 ELSE 0)
  BY <1>3, <1>4, <1>5, FS_AddElement
<1> QED
  BY <1>1, <1>2, <1>6, <1>7 DEF n

(* The story of a chain and a kernel, up to height h. *)
Given(c, k) ==
  /\ \A q \in QueueName : c.head[q] = GivenOf(k, q, Len(k.given))
  /\ \A i \in 1..Len(k.given) : \A q \in QueueName :
       k.given[i].kind = q => k.given[i] = c.pushed[q][GivenOf(k, q, i)]
Sequel(c, k) == c.out \o k.runQueue
CranksTold(c, k) ==
  /\ ToSet(Sequel(c, k)) = CausedCranks(k)
  /\ IsInjective(Sequel(c, k))
  /\ c.exported = ToSet(c.out)
Own(k, h) ==
  /\ \A i \in 1..Len(k.given) :
       /\ k.given[i].kind # "timer"
       /\ k.given[i].kind \in {"core", "events"} => k.given[i].id <= h
  /\ h = 0 => k.given = <<>>
Told(c, k, h) == Given(c, k) /\ CranksTold(c, k) /\ Own(k, h) /\ Distinct(c.pushed)

\* The cranks of an action that the kernel gets are new.
LEMMA CausedMore ==
  ASSUME NEW k \in KernelState, NEW l \in KernelState, NEW a \in ActionSet,
         l.given = Append(k.given, a), l.woken = k.woken
  PROVE  CausedCranks(l) = CausedCranks(k) \cup ToSet(CrankSeq(a))
<1> DEFINE n == Len(k.given)
           K == UNION {ToSet(CrankSeq(k.given[i])) : i \in DOMAIN k.given}
           L == UNION {ToSet(CrankSeq(l.given[i])) : i \in DOMAIN l.given}
<1>1. /\ n \in Nat /\ Len(l.given) = n + 1 /\ DOMAIN k.given = 1..n /\ DOMAIN l.given = 1..n + 1
      /\ \A j \in 1..n : l.given[j] = k.given[j]
      /\ l.given[n + 1] = a
  BY AppendProperties, LenProperties DEF KernelState
<1> HIDE DEF n
<1>2. L = K \cup ToSet(CrankSeq(a))
  <2>1. \A j \in 1..n + 1 : j \in 1..n \/ j = n + 1
    BY <1>1
  <2>2. n + 1 \in 1..n + 1 /\ \A j \in 1..n : j \in 1..n + 1
    BY <1>1
  <2> HIDE DEF n
  <2>3. \A e : e \in L <=> \E j \in 1..n + 1 : e \in ToSet(CrankSeq(l.given[j]))
    BY <1>1
  <2>4. \A e : e \in K <=> \E j \in 1..n : e \in ToSet(CrankSeq(k.given[j]))
    BY <1>1
  <2> HIDE DEF K, L
  <2>5. \A e : e \in L <=> e \in K \/ e \in ToSet(CrankSeq(a))
    BY <1>1, <2>1, <2>2, <2>3, <2>4
  <2> QED
    BY <2>5
<1> HIDE DEF K, L
<1> DEFINE W == {[action |-> Action("timer", w), crank |-> 1] : w \in k.woken}
<1>3. CausedCranks(k) = K \cup W
  BY DEF CausedCranks, K
<1>4. CausedCranks(l) = L \cup W
  BY DEF CausedCranks, L
<1> HIDE DEF W
<1> QED
  BY <1>2, <1>3, <1>4

LEMMA CranksAreNew ==
  ASSUME NEW k \in KernelState, NEW a \in ActionSet, a.kind # "timer",
         a \notin ToSet(k.given)
  PROVE  /\ IsInjective(CrankSeq(a))
         /\ CausedCranks(k) \cap ToSet(CrankSeq(a)) = {}
<1>1. /\ CrankSeq(a) \in Seq(CrankSet) /\ CranksOf(a) \in Nat
      /\ DOMAIN CrankSeq(a) = 1..CranksOf(a)
      /\ \A i \in 1..CranksOf(a) : CrankSeq(a)[i] = [action |-> a, crank |-> i]
  BY CrankSeqIs, LenProperties
<1>2. IsInjective(CrankSeq(a))
  BY <1>1 DEF IsInjective
<1>3. \A e \in ToSet(CrankSeq(a)) : e.action = a
  BY <1>1 DEF ToSet
<1>4. ASSUME NEW i \in DOMAIN k.given, NEW e \in ToSet(CrankSeq(k.given[i]))
      PROVE  e.action # a
  <2> DEFINE b == k.given[i]
  <2>1. b \in ActionSet /\ b # a
    BY DEF KernelState, ToSet
  <2> HIDE DEF b
  <2>2. /\ DOMAIN CrankSeq(b) = 1..CranksOf(b)
        /\ \A j \in 1..CranksOf(b) : CrankSeq(b)[j] = [action |-> b, crank |-> j]
    BY <2>1, CrankSeqIs, LenProperties
  <2>3. \A f \in ToSet(CrankSeq(b)) : f.action = b
    BY <2>2 DEF ToSet
  <2>4. e \in ToSet(CrankSeq(b))
    BY <1>4 DEF b
  <2> QED
    BY <2>1, <2>3, <2>4
<1>5. \A w \in k.woken : [action |-> Action("timer", w), crank |-> 1].action # a
  BY DEF Action
<1>6. \A e \in CausedCranks(k) : e.action # a
  <2>1. SUFFICES ASSUME NEW e \in CausedCranks(k)
                 PROVE  e.action # a
    OBVIOUS
  <2>2. \/ \E i \in DOMAIN k.given : e \in ToSet(CrankSeq(k.given[i]))
        \/ \E w \in k.woken : e = [action |-> Action("timer", w), crank |-> 1]
    BY <2>1 DEF CausedCranks
  <2> QED
    BY <1>4, <1>5, <2>2
<1> QED
  BY <1>2, <1>3, <1>6

LEMMA SetOfAppend ==
  ASSUME NEW S, NEW s \in Seq(S), NEW a \in S
  PROVE  ToSet(Append(s, a)) = ToSet(s) \cup {a}
<1> DEFINE n == Len(s)
           t == Append(s, a)
<1>1. /\ n \in Nat /\ Len(t) = n + 1 /\ t \in Seq(S) /\ DOMAIN s = 1..n
      /\ \A i \in 1..n : t[i] = s[i]
      /\ t[n + 1] = a
  BY AppendProperties, LenProperties
<1>2. DOMAIN t = 1..n + 1
  BY <1>1, LenProperties
<1> HIDE DEF n, t
<1>3. n + 1 \in 1..n + 1 /\ \A i \in 1..n : i \in 1..n + 1
  BY <1>1
<1>4. \A i \in 1..n + 1 : i \in 1..n \/ i = n + 1
  BY <1>1
<1>5. ToSet(t) = ToSet(s) \cup {a}
  BY <1>1, <1>2, <1>3, <1>4 DEF ToSet
<1> QED
  BY <1>5 DEF t

\* An action that the kernel may be given next.
Fits(a, c, k, h) ==
  /\ a.kind # "timer" /\ (a.kind \in {"core", "events"} => a.id <= h)
  /\ a \notin ToSet(k.given)
  /\ a.kind \in QueueName => a = c.pushed[a.kind][c.head[a.kind] + 1]

LEMMA ToldAsk ==
  ASSUME NEW h \in Nat, h # 0, NEW c \in CosmosState, NEW k \in KernelState, Told(c, k, h),
         NEW d \in CosmosState, NEW l \in KernelState, NEW a \in ActionSet, Fits(a, c, k, h),
         l.given = Append(k.given, a), l.runQueue = k.runQueue \o CrankSeq(a),
         l.woken = k.woken,
         d.pushed = c.pushed, d.out = c.out, d.exported = c.exported,
         \A q \in QueueName : d.head[q] = c.head[q] + (IF a.kind = q THEN 1 ELSE 0)
  PROVE  Told(d, l, h)
<1> DEFINE n == Len(k.given)
<1>1. /\ n \in Nat /\ Len(l.given) = n + 1
      /\ \A j \in 1..n : l.given[j] = k.given[j]
      /\ l.given[n + 1] = a
  BY AppendProperties, LenProperties DEF KernelState
<1>2. ASSUME NEW q
      PROVE  /\ \A i \in 0..n : GivenOf(l, q, i) = GivenOf(k, q, i)
             /\ GivenOf(l, q, n + 1) = GivenOf(k, q, n) + (IF a.kind = q THEN 1 ELSE 0)
  BY <1>1, GivenOfMore
<1>3. /\ \A q \in QueueName : c.head[q] = GivenOf(k, q, n)
      /\ \A i \in 1..n : \A q \in QueueName :
           k.given[i].kind = q => k.given[i] = c.pushed[q][GivenOf(k, q, i)]
  BY DEF Told, Given
<1>4. \A i \in 1..n : k.given[i].kind # "timer"
        /\ (k.given[i].kind \in {"core", "events"} => k.given[i].id <= h)
  BY DEF Told, Own
<1> HIDE DEF n
<1>5. \A i \in 1..n + 1 : i \in 1..n \/ i = n + 1
  BY <1>1
<1>6. Given(d, l)
  <2>1. \A q \in QueueName : d.head[q] = GivenOf(l, q, n + 1)
    BY <1>2, <1>3
  <2>2. ASSUME NEW i \in 1..n + 1, NEW q \in QueueName, l.given[i].kind = q
        PROVE  l.given[i] = d.pushed[q][GivenOf(l, q, i)]
    <3>1. CASE i \in 1..n
      <4>1. i \in 0..n
        BY <1>1, <3>1
      <4>2. GivenOf(l, q, i) = GivenOf(k, q, i)
        BY <1>2, <4>1
      <4>3. l.given[i] = k.given[i] /\ k.given[i].kind = q
        BY <1>1, <2>2, <3>1
      <4>4. k.given[i] = c.pushed[q][GivenOf(k, q, i)]
        BY <1>3, <2>2, <3>1, <4>3
      <4> QED
        BY <4>2, <4>3, <4>4
    <3>2. CASE i = n + 1
      <4>1. a.kind = q /\ a = c.pushed[q][c.head[q] + 1]
        BY <1>1, <2>2, <3>2 DEF Fits
      <4>2. GivenOf(l, q, n + 1) = c.head[q] + 1
        BY <1>2, <1>3, <4>1
      <4> QED
        BY <1>1, <3>2, <4>1, <4>2
    <3> QED
      BY <1>5, <3>1, <3>2
  <2> QED
    BY <1>1, <2>1, <2>2 DEF Given
<1>7. CranksTold(d, l)
  <2> DEFINE s == Sequel(c, k)
             t == CrankSeq(a)
  <2>1. s \in Seq(CrankSet) /\ t \in Seq(CrankSet) /\ c.out \in Seq(CrankSet)
        /\ k.runQueue \in Seq(CrankSet)
    BY CrankSeqIs, ConcatProperties DEF Sequel, CosmosState, KernelState
  <2>2. Sequel(d, l) = s \o t
    <3> DEFINE out == c.out
               queue == k.runQueue
    <3>1. s = out \o queue /\ Sequel(d, l) = out \o (queue \o t)
      BY DEF Sequel
    <3>2. out \in Seq(CrankSet) /\ queue \in Seq(CrankSet) /\ t \in Seq(CrankSet)
      BY <2>1
    <3> HIDE DEF s, t, out, queue
    <3>3. (out \o queue) \o t = out \o (queue \o t)
      BY <3>2, ConcatAssociative
    <3> QED
      BY <3>1, <3>3
  <2>3. ToSet(s) = CausedCranks(k) /\ IsInjective(s) /\ c.exported = ToSet(c.out)
    BY DEF Told, CranksTold
  <2>4. CausedCranks(l) = CausedCranks(k) \cup ToSet(t)
    BY CausedMore
  <2>5. IsInjective(t) /\ CausedCranks(k) \cap ToSet(t) = {}
    BY CranksAreNew DEF Fits
  <2> HIDE DEF s, t
  <2>6. Apart(s, t)
    BY <2>3, <2>5 DEF Apart
  <2>7. ToSet(s \o t) = CausedCranks(l) /\ IsInjective(s \o t)
    BY <2>1, <2>3, <2>4, <2>6, SetOfConcat, InjectiveConcat
  <2> QED
    BY <2>2, <2>3, <2>7 DEF CranksTold
<1>8. Own(l, h)
  BY <1>1, <1>4, <1>5 DEF Own, Fits
<1> QED
  BY <1>6, <1>7, <1>8 DEF Told

\* Nothing is given and nothing taken.
LEMMA SameGiven ==
  ASSUME NEW c, NEW k, NEW d, NEW l, NEW h, Told(c, k, h), l.given = k.given,
         d.pushed = c.pushed, d.head = c.head
  PROVE  Given(d, l) /\ Own(l, h) /\ Distinct(d.pushed)
<1>1. \A q, i : GivenOf(l, q, i) = GivenOf(k, q, i)
  BY DEF GivenOf
<1> QED
  BY <1>1 DEF Told, Given, Own

LEMMA ToldSent ==
  ASSUME NEW x, NEW y, NEW h, Told(x.deliver, x.kernel, h), Sent(x, y)
  PROVE  Told(y.deliver, y.kernel, h)
<1>1. Given(y.deliver, y.kernel) /\ Own(y.kernel, h) /\ Distinct(y.deliver.pushed)
  BY SameGiven DEF Sent
<1>2. CausedCranks(y.kernel) = CausedCranks(x.kernel)
  BY DEF Sent, CausedCranks
<1>3. Sequel(y.deliver, y.kernel) = Sequel(x.deliver, x.kernel)
  BY DEF Sent, Sequel
<1>4. CranksTold(y.deliver, y.kernel)
  BY <1>2, <1>3 DEF Told, CranksTold, Sent
<1> QED
  BY <1>1, <1>4 DEF Told

(* The wakeups of a poll are new. *)
LEMMA ToldPoll ==
  ASSUME NEW h, NEW x \in RunState, Told(x.deliver, x.kernel, h), NEW y \in RunState,
         Polled(x, y, h)
  PROVE  Told(y.deliver, y.kernel, h)
<1> DEFINE due == DueOf(x, h)
           t == TimerCranks(InOrder(due))
           k == x.kernel
           l == y.kernel
           s == Sequel(x.deliver, k)
           Timer(w) == [action |-> Action("timer", w), crank |-> 1]
<1>1. /\ l.given = k.given /\ l.woken = k.woken \cup due /\ l.runQueue = k.runQueue \o t
      /\ y.deliver = x.deliver
  BY DEF Polled
<1>2. due \in SUBSET Nat /\ IsFiniteSet(due) /\ due \cap k.woken = {}
  BY DueAreTimes DEF DueOf
<1>3. Given(y.deliver, l) /\ Own(l, h) /\ Distinct(y.deliver.pushed)
  BY <1>1, SameGiven
<1> HIDE DEF due
<1>4. /\ t \in Seq(CrankSet) /\ Len(t) = Len(InOrder(due)) /\ Len(t) \in Nat
      /\ \A i \in 1..Len(t) : t[i] = Timer(InOrder(due)[i])
      /\ InOrder(due) \in Seq(due) /\ ToSet(InOrder(due)) = due /\ IsInjective(InOrder(due))
  BY <1>2, TimerCranksAre, InOrderOrders
<1>5. \A v, w : Timer(v) = Timer(w) => v = w
  <2>1. \A v : Timer(v).action.id = v
    BY DEF Action
  <2> QED
    BY <2>1
<1> HIDE DEF Timer
<1>6. DOMAIN t = 1..Len(t) /\ DOMAIN InOrder(due) = 1..Len(t)
  BY <1>4, LenProperties
<1> HIDE DEF t
<1>7. ToSet(t) = {Timer(w) : w \in due} /\ IsInjective(t)
  <2>1. ToSet(t) = {Timer(w) : w \in due}
    BY <1>4, <1>6 DEF ToSet
  <2> QED
    BY <1>4, <1>5, <1>6, <2>1 DEF IsInjective
<1>8. CausedCranks(l) = CausedCranks(k) \cup {Timer(w) : w \in due}
  <2> DEFINE K == UNION {ToSet(CrankSeq(k.given[i])) : i \in DOMAIN k.given}
  <2>1. CausedCranks(k) = K \cup {Timer(w) : w \in k.woken}
    BY DEF CausedCranks, Timer
  <2>2. CausedCranks(l) = K \cup {Timer(w) : w \in k.woken \cup due}
    BY <1>1 DEF CausedCranks, Timer
  <2> HIDE DEF K
  <2> QED
    BY <2>1, <2>2
<1>9. CausedCranks(k) \cap ToSet(t) = {}
  <2>1. SUFFICES ASSUME NEW w \in due, Timer(w) \in CausedCranks(k)
                 PROVE  FALSE
    BY <1>7
  <2>2. \/ \E i \in DOMAIN k.given : Timer(w) \in ToSet(CrankSeq(k.given[i]))
        \/ \E v \in k.woken : Timer(w) = Timer(v)
    BY <2>1 DEF CausedCranks, Timer
  <2>3. CASE \E v \in k.woken : Timer(w) = Timer(v)
    BY <1>2, <1>5, <2>3
  <2>4. CASE \E i \in DOMAIN k.given : Timer(w) \in ToSet(CrankSeq(k.given[i]))
    <3>1. PICK i \in DOMAIN k.given : Timer(w) \in ToSet(CrankSeq(k.given[i]))
      BY <2>4
    <3> DEFINE b == k.given[i]
    <3>2. b \in ActionSet /\ b.kind # "timer"
      <4>1. k.given \in Seq(ActionSet) /\ DOMAIN k.given = 1..Len(k.given)
        BY LenProperties DEF RunState, KernelState
      <4> QED
        BY <3>1, <4>1 DEF Told, Own
    <3> HIDE DEF b
    <3>3. /\ DOMAIN CrankSeq(b) = 1..CranksOf(b)
          /\ \A j \in 1..CranksOf(b) : CrankSeq(b)[j] = [action |-> b, crank |-> j]
      BY <3>2, CrankSeqIs, LenProperties
    <3>4. \A e \in ToSet(CrankSeq(b)) : e.action = b
      BY <3>3 DEF ToSet
    <3>5. Timer(w).action = b
      BY <3>1, <3>4 DEF b
    <3>6. Timer(w).action.kind = "timer"
      BY DEF Timer, Action
    <3> QED
      BY <3>2, <3>5, <3>6
  <2> QED
    BY <2>2, <2>3, <2>4
<1>10. CranksTold(y.deliver, l)
  <2>1. s \in Seq(CrankSet) /\ x.deliver.out \in Seq(CrankSet) /\ k.runQueue \in Seq(CrankSet)
    BY ConcatProperties DEF Sequel, RunState, CosmosState, KernelState
  <2>2. Sequel(y.deliver, l) = s \o t
    <3> DEFINE out == x.deliver.out
               queue == k.runQueue
    <3>1. s = out \o queue /\ Sequel(y.deliver, l) = out \o (queue \o t)
      BY <1>1 DEF Sequel
    <3>2. out \in Seq(CrankSet) /\ queue \in Seq(CrankSet)
      BY <2>1
    <3> HIDE DEF s, out, queue
    <3>3. (out \o queue) \o t = out \o (queue \o t)
      BY <1>4, <3>2, ConcatAssociative
    <3> QED
      BY <3>1, <3>3
  <2>3. ToSet(s) = CausedCranks(k) /\ IsInjective(s)
        /\ x.deliver.exported = ToSet(x.deliver.out)
    BY DEF Told, CranksTold
  <2> HIDE DEF s, k, l
  <2>4. Apart(s, t)
    BY <1>7, <1>9, <2>3 DEF Apart
  <2>5. ToSet(s \o t) = CausedCranks(l) /\ IsInjective(s \o t)
    BY <1>4, <1>7, <1>8, <2>1, <2>3, <2>4, SetOfConcat, InjectiveConcat
  <2> QED
    BY <1>1, <2>2, <2>3, <2>5 DEF CranksTold
<1> QED
  BY <1>3, <1>10 DEF Told

\* The action that is next in a queue was not given to the kernel yet.
LEMMA QueuedFits ==
  ASSUME NEW h, NEW c \in CosmosState, NEW k \in KernelState, Told(c, k, h),
         NEW q \in QueueName, c.head[q] < Len(c.pushed[q]),
         NEW a \in Pushable(q), a = c.pushed[q][c.head[q] + 1]
  PROVE  Fits(a, c, k, h)
<1>1. a.kind = q /\ a.kind \notin {"timer", "core", "events"}
  BY DEF Pushable, QueueName
<1>2. c.head[q] \in Nat /\ Len(c.pushed[q]) \in Nat /\ c.pushed[q] \in Seq(Pushable(q))
      /\ IsInjective(c.pushed[q]) /\ c.head[q] = GivenOf(k, q, Len(k.given))
  BY DEF CosmosState, Told, Distinct, Given
<1>3. Len(k.given) \in Nat /\ DOMAIN k.given = 1..Len(k.given)
      /\ DOMAIN c.pushed[q] = 1..Len(c.pushed[q])
  BY <1>2, LenProperties DEF KernelState
<1>4. ASSUME a \in ToSet(k.given) PROVE FALSE
  <2>1. PICK i \in 1..Len(k.given) : k.given[i] = a
    BY <1>3, <1>4 DEF ToSet
  <2> DEFINE m == GivenOf(k, q, i)
             n == c.head[q]
  <2>2. i \in 0..Len(k.given) /\ Len(k.given) \in 0..Len(k.given) /\ i <= Len(k.given)
    BY <1>3, <2>1
  <2>3. m \in Nat /\ m # 0 /\ m <= n
    <3>1. m \in Nat /\ m <= GivenOf(k, q, Len(k.given))
      BY <2>2, GivenOfIs
    <3>2. m # 0
      BY <1>1, <2>1, GivenOfIs
    <3> QED
      BY <1>2, <3>1, <3>2
  <2>4. a = c.pushed[q][m]
    BY <1>1, <2>1 DEF Told, Given
  <2> HIDE DEF m
  <2>5. m \in DOMAIN c.pushed[q] /\ n + 1 \in DOMAIN c.pushed[q] /\ m # n + 1
    BY <1>2, <1>3, <2>3
  <2> QED
    BY <1>2, <2>4, <2>5 DEF IsInjective
<1> QED
  BY <1>1, <1>4 DEF Fits

(* The forced actions that are left are still to come. *)
Forthcoming(run, k, h) ==
  /\ IsInjective(run) /\ ToSet(run) \cap ToSet(k.given) = {}
  /\ \A a \in ToSet(run) : a.kind \in {"core", "events"} /\ a.id <= h
Story(x, h) == Told(x.deliver, x.kernel, h) /\ Forthcoming(x.run, x.kernel, h)

LEMMA HeadApart ==
  ASSUME NEW S, NEW s \in Seq(S), s # <<>>, IsInjective(s)
  PROVE  /\ Head(s) \in ToSet(s) /\ IsInjective(Tail(s))
         /\ Head(s) \notin ToSet(Tail(s)) /\ ToSet(Tail(s)) \subseteq ToSet(s)
<1> DEFINE n == Len(s)
           t == Tail(s)
<1>1. /\ n \in Nat /\ n # 0 /\ Head(s) = s[1] /\ t \in Seq(S) /\ Len(t) = n - 1
      /\ DOMAIN s = 1..n /\ \A i \in 1..n - 1 : t[i] = s[i + 1]
  BY HeadTailProperties, EmptySeq, LenProperties
<1>2. DOMAIN t = 1..n - 1
  BY <1>1, LenProperties
<1> HIDE DEF n, t
<1>3. 1 \in 1..n /\ \A i \in 1..n - 1 : i + 1 \in 1..n /\ i + 1 # 1
  BY <1>1
<1>4. \A i, j \in 1..n : s[i] = s[j] => i = j
  BY <1>1 DEF IsInjective
<1>5. \A i, j \in 1..n - 1 : t[i] = t[j] => i = j
  <2>1. SUFFICES ASSUME NEW i \in 1..n - 1, NEW j \in 1..n - 1, t[i] = t[j]
                 PROVE  i = j
    OBVIOUS
  <2>2. i + 1 = j + 1
    BY <1>1, <1>3, <1>4, <2>1
  <2> QED
    BY <1>1, <2>2
<1>6. \A i \in 1..n - 1 : s[1] # t[i]
  BY <1>1, <1>3, <1>4
<1>7. Head(s) \in ToSet(s) /\ Head(s) \notin ToSet(t) /\ ToSet(t) \subseteq ToSet(s)
  BY <1>1, <1>2, <1>3, <1>6 DEF ToSet
<1> QED
  BY <1>2, <1>5, <1>7 DEF IsInjective, t

LEMMA NothingForthcoming ==
  ASSUME NEW k, NEW h
  PROVE  Forthcoming(<<>>, k, h)
BY DEF Forthcoming, IsInjective, ToSet

(* Every phase continues the story. *)
LEMMA StoryContinues ==
  ASSUME NEW h \in Nat, h # 0, NEW x \in BlockState, Story(x, h)
  PROVE  Story(Phase(x, h), h)
<1> DEFINE w == Phase(x, h)
<1>1. x \in RunState /\ x.pc \in ExecutionPhases
  BY DEF BlockState, RunState
<1>2. x.deliver \in CosmosState /\ x.kernel \in KernelState
      /\ Told(x.deliver, x.kernel, h) /\ Forthcoming(x.run, x.kernel, h)
  BY <1>1 DEF RunState, Story
<1>3. CASE x.pc = "leftover"
  <2> DEFINE y == At(w, x.pc)
  <2>1. Ran(x, y, Taken(x)) /\ w \in BlockState
    BY <1>3, LeftoverPhase
  <2>2. y.deliver = w.deliver /\ y.run = w.run /\ y.kernel = w.kernel
    BY <1>1, <2>1, AtType DEF BlockState
  <2> HIDE DEF y, w
  <2>3. Sent(x, y) /\ y.run = x.run
    BY <1>1, <2>1, RanSent DEF Ran
  <2>4. Told(y.deliver, y.kernel, h)
    BY <1>2, <2>3, ToldSent
  <2>5. y.kernel.given = x.kernel.given
    BY <2>3 DEF Sent
  <2>6. Forthcoming(w.run, w.kernel, h)
    BY <1>2, <2>2, <2>3, <2>5 DEF Forthcoming
  <2> QED
    BY <2>2, <2>4, <2>6 DEF Story, w
<1>4. CASE x.pc = "forced"
  <2>1. PICK z \in RunState, y \in RunState :
              /\ Asked(x, z, Head(x.run)) /\ Ran(z, y, Taken(z)) /\ x.neverStop
              /\ w.deliver = y.deliver /\ w.kernel = y.kernel
              /\ w.run = Tail(x.run)
    BY <1>4, ForcedPhase
  <2> HIDE DEF w
  <2> DEFINE a == Head(x.run)
  <2>2. x.run # <<>> /\ x.run \in Seq(ActionSet) /\ a \in ActionSet
    BY <1>1, <1>4, HeadTailOf DEF BlockState, RunState
  <2>3. /\ a \in ToSet(x.run) /\ IsInjective(Tail(x.run)) /\ a \notin ToSet(Tail(x.run))
        /\ ToSet(Tail(x.run)) \subseteq ToSet(x.run)
    BY <1>2, <2>2, HeadApart DEF Forthcoming
  <2>4. a.kind \in {"core", "events"} /\ a.id <= h /\ a \notin ToSet(x.kernel.given)
    BY <1>2, <2>3 DEF Forthcoming
  <2>5. Asked(x, z, a) /\ z.deliver \in CosmosState /\ z.kernel \in KernelState
    BY <2>1 DEF RunState
  <2> HIDE DEF a
  <2>6. Fits(a, x.deliver, x.kernel, h)
    BY <2>4 DEF Fits, QueueName
  <2>7. \A q \in QueueName :
          z.deliver.head[q] = x.deliver.head[q] + (IF a.kind = q THEN 1 ELSE 0)
    <3>1. \A q \in QueueName : x.deliver.head[q] \in Nat /\ a.kind # q
      BY <1>2, <2>4 DEF CosmosState, QueueName
    <3> QED
      BY <2>5, <3>1 DEF Asked
  <2>8. Told(z.deliver, z.kernel, h)
    BY <1>2, <2>2, <2>5, <2>6, <2>7, ToldAsk DEF Asked
  <2>9. Sent(z, y)
    BY <2>1, RanSent
  <2>10. Told(y.deliver, y.kernel, h)
    BY <2>8, <2>9, ToldSent
  <2>11. ToSet(y.kernel.given) = ToSet(x.kernel.given) \cup {a}
    <3>1. y.kernel.given = Append(x.kernel.given, a) /\ x.kernel.given \in Seq(ActionSet)
      BY <1>2, <2>5, <2>9 DEF Asked, Sent, KernelState
    <3> QED
      BY <2>2, <3>1, SetOfAppend
  <2>12. Forthcoming(w.run, w.kernel, h)
    BY <1>2, <2>1, <2>3, <2>11 DEF Forthcoming
  <2> QED
    BY <2>1, <2>10, <2>12 DEF Story, w
<1>5. CASE x.pc \in QueueName /\ x.deliver.head[x.pc] < Len(x.deliver.pushed[x.pc])
  <2>1. w.run = <<>>
    BY <1>5, QueuePhase
  <2>2. PICK y \in RunState, z \in RunState, a \in Pushable(x.pc), c \in CosmosState :
              /\ a = x.deliver.pushed[x.pc][x.deliver.head[x.pc] + 1]
              /\ c = [x.deliver EXCEPT !.head[x.pc] = @ + 1]
              /\ Asked([x EXCEPT !.deliver = c], z, a) /\ Ran(z, y, Taken(z))
              /\ w.deliver = y.deliver /\ w.kernel = y.kernel
    BY <1>5, QueuePhase
  <2> HIDE DEF w
  <2>3. Fits(a, x.deliver, x.kernel, h)
    BY <1>2, <1>5, <2>2, QueuedFits
  <2>4. a \in ActionSet /\ a.kind = x.pc
    BY <1>5, <2>2 DEF Pushable, ActionSet
  <2>5. /\ z.deliver = c /\ z.kernel.given = Append(x.kernel.given, a)
        /\ z.kernel.runQueue = x.kernel.runQueue \o CrankSeq(a)
        /\ z.kernel.woken = x.kernel.woken /\ z.kernel \in KernelState
    BY <1>1, <2>2 DEF Asked, RunState
  <2>6. /\ c.pushed = x.deliver.pushed /\ c.out = x.deliver.out
        /\ c.exported = x.deliver.exported
        /\ c.head = [x.deliver.head EXCEPT ![x.pc] = @ + 1]
    BY <1>2, <2>2 DEF CosmosState
  <2>7. Told(z.deliver, z.kernel, h)
    <3>1. \A q \in QueueName : c.head[q] = x.deliver.head[q] + (IF a.kind = q THEN 1 ELSE 0)
      <4>1. \A q \in QueueName : x.deliver.head[q] \in Nat /\ q \in DOMAIN x.deliver.head
        BY <1>2 DEF CosmosState
      <4> QED
        BY <1>5, <2>4, <2>6, <4>1
    <3>2. /\ a \in ActionSet /\ z.kernel \in KernelState /\ c \in CosmosState
          /\ z.kernel.given = Append(x.kernel.given, a)
          /\ z.kernel.runQueue = x.kernel.runQueue \o CrankSeq(a)
          /\ z.kernel.woken = x.kernel.woken /\ z.deliver = c
      BY <2>2, <2>4, <2>5
    <3>3. /\ c.pushed = x.deliver.pushed /\ c.out = x.deliver.out
          /\ c.exported = x.deliver.exported
          /\ Told(x.deliver, x.kernel, h) /\ Fits(a, x.deliver, x.kernel, h)
          /\ x.deliver \in CosmosState /\ x.kernel \in KernelState
      BY <1>2, <2>3, <2>6
    <3>4. Told(c, z.kernel, h)
      BY <3>1, <3>2, <3>3, ToldAsk
    <3> QED
      BY <3>2, <3>4
  <2>8. Told(y.deliver, y.kernel, h)
    BY <2>2, <2>7, RanSent, ToldSent
  <2> QED
    BY <2>1, <2>2, <2>8, NothingForthcoming DEF Story, w
<1>6. CASE x.pc = "timer"
  <2>1. w.run = <<>>
    BY <1>6, TimerPhase
  <2>2. PICK z \in RunState, y \in RunState :
              /\ Polled(x, z, h) /\ Ran(z, y, Taken(z))
              /\ w.deliver = y.deliver /\ w.kernel = y.kernel
    BY <1>6, TimerPhase
  <2> HIDE DEF w
  <2>3. Told(z.deliver, z.kernel, h)
    BY <1>1, <1>2, <2>2, ToldPoll
  <2>4. Told(y.deliver, y.kernel, h)
    BY <2>2, <2>3, RanSent, ToldSent
  <2> QED
    BY <2>1, <2>2, <2>4, NothingForthcoming DEF Story, w
<1>7. CASE \/ x.pc \in QueueName /\ x.deliver.head[x.pc] >= Len(x.deliver.pushed[x.pc])
           \/ x.pc \in {"cleanup", "finish"}
  <2>1. /\ w.run = <<>> /\ w.deliver = x.deliver
        /\ w.kernel.given = x.kernel.given /\ w.kernel.runQueue = x.kernel.runQueue
        /\ w.kernel.woken = x.kernel.woken
    BY <1>7, OtherPhase
  <2> HIDE DEF w
  <2>2. Given(w.deliver, w.kernel) /\ Own(w.kernel, h) /\ Distinct(w.deliver.pushed)
    BY <1>2, <2>1, SameGiven
  <2>3. CausedCranks(w.kernel) = CausedCranks(x.kernel)
        /\ Sequel(w.deliver, w.kernel) = Sequel(x.deliver, x.kernel)
    BY <2>1 DEF CausedCranks, Sequel
  <2>4. CranksTold(w.deliver, w.kernel)
    BY <1>2, <2>1, <2>3 DEF CranksTold, Told
  <2> QED
    BY <2>1, <2>2, <2>4, NothingForthcoming DEF Story, Told, w
<1>8. x.pc \in QueueName =>
        x.deliver.head[x.pc] \in Nat /\ Len(x.deliver.pushed[x.pc]) \in Nat
  BY <1>1 DEF RunState, CosmosState
<1> QED
  BY <1>1, <1>3, <1>4, <1>5, <1>6, <1>7, <1>8 DEF ExecutionPhases

(* The transactions of a block push new actions behind the queues. *)
LEMMA ToldPushed ==
  ASSUME NEW g \in Nat, NEW h \in Nat, g < h, NEW c \in CosmosState, NEW k \in KernelState,
         Told(c, k, g), NEW b \in Queues, NEW p, p = With(c.pushed, b), Distinct(p),
         NEW d, d = [c EXCEPT !.pushed = p]
  PROVE  Told(d, k, h)
<1>1. /\ d.pushed = p /\ d.head = c.head /\ d.out = c.out /\ d.exported = c.exported
  BY DEF CosmosState
<1>2. ASSUME NEW i \in 1..Len(k.given), NEW q \in QueueName, k.given[i].kind = q
      PROVE  k.given[i] = p[q][GivenOf(k, q, i)]
  <2> DEFINE m == GivenOf(k, q, i)
             s == c.pushed[q]
  <2>1. k.given[i] = s[m] /\ c.head[q] = GivenOf(k, q, Len(k.given))
    BY <1>2 DEF Told, Given
  <2>2. s \in Seq(ActionSet) /\ b[q] \in Seq(ActionSet) /\ c.head[q] <= Len(s)
        /\ Len(k.given) \in Nat
    BY LenProperties DEF CosmosState, Queues, KernelState
  <2>3. i \in 0..Len(k.given) /\ Len(k.given) \in 0..Len(k.given) /\ i <= Len(k.given)
    BY <1>2, <2>2
  <2>4. m \in Nat /\ m # 0 /\ m <= GivenOf(k, q, Len(k.given))
        /\ GivenOf(k, q, Len(k.given)) \in Nat
    BY <1>2, <2>3, GivenOfIs
  <2> HIDE DEF m, s
  <2>5. m \in 1..Len(s) /\ Len(s) \in Nat /\ Len(b[q]) \in Nat
    BY <2>1, <2>2, <2>4, LenProperties
  <2>6. m \in 1..Len(s) + Len(b[q]) /\ m <= Len(s)
    BY <2>5
  <2>7. (s \o b[q])[m] = s[m]
    BY <2>2, <2>6, ConcatProperties
  <2>8. p[q] = s \o b[q]
    BY DEF With, s
  <2> QED
    BY <2>1, <2>7, <2>8 DEF m
<1>3. Given(d, k)
  BY <1>1, <1>2 DEF Told, Given
<1>4. CranksTold(d, k)
  BY <1>1 DEF Told, CranksTold, Sequel
<1>5. Own(k, h)
  <2>1. ASSUME NEW i \in 1..Len(k.given)
        PROVE  /\ k.given[i].kind # "timer"
               /\ k.given[i].kind \in {"core", "events"} => k.given[i].id <= h
    <3>1. k.given[i] \in ActionSet
      BY ElementOfSeq DEF KernelState
    <3>2. k.given[i].kind \in {"core", "events"} => k.given[i].id \in Nat
      BY <3>1 DEF ActionSet, QueueName
    <3>3. /\ k.given[i].kind # "timer"
          /\ k.given[i].kind \in {"core", "events"} => k.given[i].id <= g
      BY DEF Told, Own
    <3> QED
      BY <3>2, <3>3
  <2> QED
    BY <2>1 DEF Own
<1> QED
  BY <1>1, <1>3, <1>4, <1>5 DEF Told

(* The bootstrap is the first thing that the kernel is given. *)
LEMMA ToldBoot ==
  ASSUME NEW h \in Nat, h # 0, NEW c \in CosmosState, NEW k \in KernelState, Told(c, k, h),
         k.given = <<>>, NEW d, NEW l \in KernelState,
         d.pushed = c.pushed, d.head = c.head, d.out = Append(c.out, Boot),
         d.exported = c.exported \cup {Boot},
         l.given = Append(k.given, Boot.action), l.runQueue = k.runQueue, l.woken = k.woken
  PROVE  Told(d, l, h)
<1> DEFINE a == Boot.action
           t == CrankSeq(a)
           queue == k.runQueue \o t
           given == Append(k.given, a)
           m == [k EXCEPT !.given = given, !.runQueue = queue]
           out == c.out
           rest == k.runQueue
<1>1. a \in ActionSet /\ a.kind = "bootstrap" /\ Boot \in CrankSet
      /\ Boot = [action |-> a, crank |-> 1]
  BY BootIs DEF Boot, Action
<1>2. t = <<Boot>>
  <2>1. CranksOf(a) = 1
    BY <1>1 DEF CranksOf, QueueName
  <2>2. t = [i \in 1..1 |-> [action |-> a, crank |-> i]]
    BY <2>1 DEF CrankSeq
  <2> HIDE DEF t, a
  <2>3. t = [i \in 1..1 |-> Boot]
    BY <1>1, <2>2
  <2> QED
    BY <2>3
<1> HIDE DEF a
<1>3. /\ t \in Seq(CrankSet) /\ queue \in Seq(CrankSet) /\ given \in Seq(ActionSet)
      /\ out \in Seq(CrankSet) /\ rest \in Seq(CrankSet)
  BY <1>1, CrankSeqIs, ConcatProperties, AppendProperties DEF KernelState, CosmosState
<1>4. m \in KernelState /\ m.given = given /\ m.runQueue = queue /\ m.woken = k.woken
  <2> HIDE DEF given, queue
  <2> QED
    BY <1>3 DEF KernelState
<1> HIDE DEF m, t
<1>5. Fits(a, c, k, h)
  BY <1>1 DEF Fits, QueueName, ToSet
<1>6. \A q \in QueueName : c.head[q] = c.head[q] + (IF a.kind = q THEN 1 ELSE 0)
  BY <1>1 DEF CosmosState, QueueName
<1>7. Told(c, m, h)
  BY <1>1, <1>4, <1>5, <1>6, ToldAsk DEF t
<1>8. Given(d, l) /\ Own(l, h) /\ Distinct(d.pushed)
  BY <1>4, <1>7, SameGiven DEF a
<1>9. CausedCranks(l) = CausedCranks(m)
  BY <1>4 DEF CausedCranks, a
<1>10. Sequel(c, m) = out \o (rest \o t) /\ Sequel(d, l) = (out \o t) \o rest
  <2>1. Sequel(c, m) = out \o (rest \o t)
    BY <1>4 DEF Sequel
  <2>2. Append(out, Boot) = out \o t
    <3> HIDE DEF out
    <3> QED
      BY <1>1, <1>2, <1>3, AppendIsConcat
  <2>3. Sequel(d, l) = Append(out, Boot) \o rest
    BY DEF Sequel
  <2> HIDE DEF out, rest
  <2> QED
    BY <2>1, <2>2, <2>3
<1>11. /\ ToSet(Sequel(c, m)) = CausedCranks(m) /\ IsInjective(Sequel(c, m))
       /\ c.exported = ToSet(c.out)
  BY <1>7 DEF Told, CranksTold
<1> HIDE DEF out, rest
<1>12. /\ ToSet(Sequel(c, m)) = ToSet(out) \cup (ToSet(rest) \cup ToSet(t))
       /\ ToSet(Sequel(d, l)) = (ToSet(out) \cup ToSet(t)) \cup ToSet(rest)
       /\ rest \o t \in Seq(CrankSet) /\ out \o t \in Seq(CrankSet)
       /\ ToSet(rest \o t) = ToSet(rest) \cup ToSet(t)
       /\ ToSet(out \o t) = ToSet(out) \cup ToSet(t)
  <2> DEFINE u == rest \o t
             v == out \o t
  <2>1. u \in Seq(CrankSet) /\ ToSet(u) = ToSet(rest) \cup ToSet(t)
    BY <1>3, SetOfConcat
  <2>2. v \in Seq(CrankSet) /\ ToSet(v) = ToSet(out) \cup ToSet(t)
    BY <1>3, SetOfConcat
  <2>3. Sequel(c, m) = out \o u /\ Sequel(d, l) = v \o rest
    BY <1>10
  <2> HIDE DEF u, v
  <2>4. ToSet(out \o u) = ToSet(out) \cup ToSet(u)
    BY <1>3, <2>1, SetOfConcat
  <2>5. ToSet(v \o rest) = ToSet(v) \cup ToSet(rest)
    BY <1>3, <2>2, SetOfConcat
  <2>6. /\ ToSet(Sequel(c, m)) = ToSet(out) \cup (ToSet(rest) \cup ToSet(t))
        /\ ToSet(Sequel(d, l)) = (ToSet(out) \cup ToSet(t)) \cup ToSet(rest)
    BY <2>1, <2>2, <2>3, <2>4, <2>5
  <2> QED
    BY <2>1, <2>2, <2>6 DEF u, v
<1>13. IsInjective(Sequel(d, l))
  <2>1. Apart(out, rest \o t) /\ Apart(rest, t)
    <3> DEFINE u == rest \o t
    <3>1. u \in Seq(CrankSet) /\ IsInjective(out \o u)
      BY <1>10, <1>11, <1>12
    <3>2. IsInjective(u) => Apart(rest, t)
      BY <1>3, InjectiveConcat
    <3> HIDE DEF u
    <3>3. Apart(out, u)
      BY <1>3, <3>1, InjectiveConcat
    <3>4. IsInjective(u)
      BY <3>3 DEF Apart
    <3> QED
      BY <3>2, <3>3, <3>4 DEF u
  <2>2. Apart(out, t)
    BY <1>12, <2>1 DEF Apart
  <2>3. Apart(out \o t, rest)
    BY <1>3, <1>12, <2>1, <2>2, InjectiveConcat DEF Apart
  <2> QED
    BY <1>3, <1>10, <1>12, <2>3, InjectiveConcat
<1>14. d.exported = ToSet(d.out)
  BY <1>1, <1>3, <1>11, SetOfAppend DEF out
<1>15. CranksTold(d, l)
  BY <1>9, <1>11, <1>12, <1>13, <1>14 DEF CranksTold
<1> QED
  BY <1>8, <1>15 DEF Told

LEMMA ForcedForthcoming ==
  ASSUME NEW g \in Nat, NEW h \in Nat, g < h, NEW k \in KernelState, Own(k, g)
  PROVE  Forthcoming(Forced(h), OpenKernel(k, h), h)
<1> DEFINE core == Action("core", h)
           events == Action("events", h)
<1>1. /\ core.kind = "core" /\ events.kind = "events" /\ core.id = h /\ events.id = h
      /\ Boot.action.kind = "bootstrap" /\ Boot.action \in ActionSet
  BY BootIs DEF Action, Boot
<1> HIDE DEF core, events
<1>2. IsInjective(<<core>>) /\ ToSet(<<core>>) = {core}
  BY DEF IsInjective, ToSet
<1>3. IsInjective(<<events, core>>) /\ ToSet(<<events, core>>) = {events, core}
  BY <1>1 DEF IsInjective, ToSet
<1>4. IsInjective(<<>>) /\ ToSet(<<>>) = {}
  BY DEF IsInjective, ToSet
<1>5. IsInjective(Forced(h)) /\ ToSet(Forced(h)) \subseteq {events, core}
  BY <1>2, <1>3, <1>4 DEF Forced, core, events
<1>6. ASSUME NEW a \in ToSet(k.given)
      PROVE  a # core /\ a # events
  <2>1. PICK i \in 1..Len(k.given) : k.given[i] = a
    BY LenProperties DEF ToSet, KernelState
  <2>2. a.kind \in {"core", "events"} => a.id <= g
    BY <2>1 DEF Own
  <2>3. ~(h <= g)
    OBVIOUS
  <2> QED
    BY <1>1, <2>2, <2>3
<1>7. ToSet(OpenKernel(k, h).given) \subseteq ToSet(k.given) \cup {Boot.action}
  <2>1. CASE h = FirstHeight
    <3>1. OpenKernel(k, h).given = Append(k.given, Boot.action)
      BY <2>1 DEF OpenKernel, KernelState
    <3> QED
      BY <1>1, <3>1, SetOfAppend DEF KernelState
  <2>2. CASE h # FirstHeight
    BY <2>2 DEF OpenKernel
  <2> QED
    BY <2>1, <2>2
<1>8. Boot.action # core /\ Boot.action # events
  BY <1>1
<1>9. \A a \in ToSet(Forced(h)) : a.kind \in {"core", "events"} /\ a.id <= h
  BY <1>1, <1>5
<1> QED
  BY <1>5, <1>6, <1>7, <1>8, <1>9 DEF Forthcoming

(* A block takes the story up where the one before it left it. *)
LEMMA StoryStarts ==
  ASSUME NEW g \in Nat, NEW h \in Nat, g < h, h = FirstHeight => g = 0,
         NEW c \in CosmosState, NEW k \in KernelState,
         Told(c, k, g), NEW b \in Queues, NEW p, p = With(c.pushed, b), Distinct(p)
  PROVE  Story(Start(h, c, k, p), h)
<1> DEFINE d == [c EXCEPT !.pushed = p]
           e == [OpenCosmos(c, h) EXCEPT !.pushed = p]
           l == OpenKernel(k, h)
           x == Start(h, c, k, p)
<1>1. c.pushed \in Queues
  BY DEF CosmosState, Queues
<1>2. p \in Queues /\ \A q \in QueueName : Len(c.pushed[q]) <= Len(p[q])
  <2>1. /\ p \in Queues
        /\ \A q \in QueueName : Len(p[q]) = Len(c.pushed[q]) + Len(b[q])
    BY <1>1, WithType
  <2>2. \A q \in QueueName : Len(c.pushed[q]) \in Nat /\ Len(b[q]) \in Nat
    BY <1>1, LenProperties DEF Queues
  <2> QED
    BY <2>1, <2>2, PartOfSum
<1>3. d \in CosmosState
  BY <1>2, PushedType
<1>4. Told(d, k, h)
  BY ToldPushed
<1>5. l \in KernelState /\ OpenCosmos(c, h) \in CosmosState
  BY OpenType
<1>6. Told(e, l, h)
  <2>1. CASE h = FirstHeight
    <3>1. k.given = <<>>
      BY <2>1 DEF Told, Own
    <3>2. /\ l.given = Append(k.given, Boot.action) /\ l.runQueue = k.runQueue
          /\ l.woken = k.woken
      BY <2>1 DEF OpenKernel, KernelState
    <3>3. /\ e.pushed = p /\ e.head = c.head /\ e.out = Append(c.out, Boot)
          /\ e.exported = c.exported \cup {Boot}
      BY <2>1 DEF OpenCosmos, CosmosState
    <3>4. d.pushed = p /\ d.head = c.head /\ d.out = c.out /\ d.exported = c.exported
      BY DEF CosmosState
    <3>5. h # 0
      OBVIOUS
    <3> HIDE DEF d, e, l
    <3> QED
      BY <1>3, <1>4, <1>5, <3>1, <3>2, <3>3, <3>4, <3>5, ToldBoot
  <2>2. CASE h # FirstHeight
    BY <1>4, <2>2 DEF OpenCosmos, OpenKernel
  <2> QED
    BY <2>1, <2>2
<1>7. Forthcoming(Forced(h), l, h)
  BY ForcedForthcoming DEF Told
<1>8. x.deliver = e /\ x.kernel = l /\ x.run = Forced(h)
  BY DEF Start
<1> HIDE DEF x, e, l
<1> QED
  BY <1>6, <1>7, <1>8 DEF Story, x

(* The story is told at every commit, and for the block that comes next.   *)
StoryInv ==
  /\ Told(Agreed, store.kernel, store.height)
  /\ txs # <<>> => Distinct(Decision)
  /\ pc = "commit" => Told(deliver, work.kernel, BlockHeight)

LEMMA AgreedIs ==
  ASSUME BlockInv
  PROVE  /\ store.height = height => Agreed = cosmos
         /\ store.height = BlockHeight =>
              BlockHeight \in DOMAIN final /\ Agreed = final[BlockHeight]
         /\ store.height # 0 => store.height \in DOMAIN final
         /\ store.height \in {height, BlockHeight} /\ height \in Nat /\ BlockHeight \in Nat
         /\ BlockHeight # 0 /\ BlockHeight # height /\ Typed
<1>1. HeightInv /\ DecidedInv /\ Typed
  BY DEF BlockInv
<1>2. height \in Nat /\ store.height \in {height, BlockHeight}
  BY <1>1 DEF HeightInv, StoresInStep
<1>3. BlockHeight \in Nat /\ BlockHeight # 0 /\ BlockHeight # height
  BY <1>2, BlockHeightAdvances
<1>4. store.height = height => Agreed = cosmos
  BY <1>1 DEF DecidedInv, Agreed
<1>5. store.height = BlockHeight => BlockHeight \in DOMAIN final /\ Agreed = final[BlockHeight]
  BY <1>1, <1>3 DEF DecidedInv, Agreed
<1>6. store.height # 0 => store.height \in DOMAIN final
  BY <1>1, <1>2, <1>5 DEF DecidedInv
<1> QED
  BY <1>1, <1>2, <1>3, <1>4, <1>5, <1>6

LEMMA StoryInit == Init => StoryInv
<1> SUFFICES ASSUME Init PROVE StoryInv
  OBVIOUS
<1> DEFINE none == [q \in QueueName |-> 0]
           k == store.kernel
<1>1. /\ cosmos = [pushed |-> NoTxs, head |-> none, out |-> <<>>, exported |-> {}]
      /\ k = [given |-> <<>>, runQueue |-> <<>>, woken |-> {}, dead |-> DeadVatWork]
      /\ store.height = 0 /\ txs = <<>> /\ pc = "down" /\ Agreed = cosmos
  BY DEF Init, Agreed
<1>2. /\ k.given = <<>> /\ k.runQueue = <<>> /\ k.woken = {} /\ cosmos.out = <<>>
      /\ cosmos.exported = {} /\ cosmos.pushed = NoTxs /\ cosmos.head = none
  BY <1>1
<1> HIDE DEF k
<1>3. Given(cosmos, k)
  <2>1. \A q \in QueueName : GivenOf(k, q, 0) = 0
    <3>1. \A q \in QueueName : {j \in 1..0 : k.given[j].kind = q} = {}
      OBVIOUS
    <3> QED
      BY <3>1, FS_EmptySet DEF GivenOf
  <2>2. Len(k.given) = 0 /\ \A q \in QueueName : cosmos.head[q] = 0
    BY <1>2
  <2> QED
    BY <2>1, <2>2 DEF Given
<1>4. CranksTold(cosmos, k)
  <2>1. Sequel(cosmos, k) = <<>>
    BY <1>2 DEF Sequel
  <2>2. CausedCranks(k) = {}
    BY <1>2 DEF CausedCranks
  <2>3. ToSet(<<>>) = {} /\ IsInjective(<<>>)
    BY DEF ToSet, IsInjective
  <2> QED
    BY <1>2, <2>1, <2>2, <2>3 DEF CranksTold
<1>5. Own(k, 0)
  BY <1>2 DEF Own
<1>6. Distinct(cosmos.pushed)
  BY <1>2 DEF Distinct, NoTxs, IsInjective
<1> QED
  BY <1>1, <1>3, <1>4, <1>5, <1>6 DEF StoryInv, Told, k

\* What the transactions push is new.
LEMMA DeliverTells ==
  ASSUME BlockInv, StoryInv, DeliverTxs
  PROVE  txs' # <<>> /\ Distinct(Decision')
<1>1. PICK b \in (IF txs = <<>> THEN Blocks ELSE {txs[1]}) : txs' = <<b>>
  BY DEF DeliverTxs
<1>2. /\ pc = "deliver" /\ cosmos' = cosmos /\ Typed
  BY DEF DeliverTxs, BlockInv
<1>3. txs' # <<>> /\ Decision' = With(cosmos.pushed, b)
  BY <1>1, <1>2 DEF Decision
<1>4. CASE txs # <<>>
  <2>1. Decision' = Decision
    BY <1>1, <1>2, <1>3, <1>4 DEF Decision
  <2> QED
    BY <1>3, <1>4, <2>1 DEF StoryInv
<1>5. CASE txs = <<>>
  <2>1. store.height = height /\ Agreed = cosmos
    BY <1>5, AgreedIs DEF BlockInv, DecidedInv
  <2>2. deliver.pushed = cosmos.pushed
    BY <1>2, <2>1 DEF BlockInv, Running, RunningInv
  <2>3. Distinct(cosmos.pushed)
    BY <2>1 DEF StoryInv, Told
  <2>4. b \in Queues /\ New(b)
    BY <1>1, <1>2, <1>5, BlocksAre
  <2>5. ASSUME NEW q \in QueueName
        PROVE  IsInjective(With(cosmos.pushed, b)[q])
    <3> DEFINE s == cosmos.pushed[q]
               t == b[q]
    <3>1. s \in Seq(ActionSet) /\ t \in Seq(ActionSet)
      BY <1>2, <2>4 DEF Typed, CosmosState, Queues
    <3>2. IsInjective(s) /\ IsInjective(t)
      BY <2>3, <2>4 DEF Distinct, New
    <3>3. \A i \in DOMAIN t, j \in DOMAIN s : t[i] # s[j]
      BY <2>2, <2>4 DEF New
    <3>4. Apart(s, t)
      BY <3>2, <3>3 DEF Apart, ToSet
    <3>5. With(cosmos.pushed, b)[q] = s \o t
      BY DEF With
    <3> HIDE DEF s, t
    <3> QED
      BY <3>1, <3>4, <3>5, InjectiveConcat
  <2> QED
    BY <1>3, <2>5 DEF Distinct
<1> QED
  BY <1>4, <1>5

(* The block that was decided on continues the story of the one before. *)
LEMMA FinishTells ==
  ASSUME BlockInv, StoryInv, EndBlockFinish
  PROVE  Told(deliver, work.kernel, BlockHeight)
<1> DEFINE S == {x \in BlockState : Story(x, BlockHeight)}
<1>1. /\ store.height = height /\ txs # <<>> /\ BlockStart \in BlockState
      /\ Leads(BlockStart, Here, BlockHeight) /\ Here.deliver = deliver
      /\ Here.kernel = work.kernel
  BY FinishDecides
<1>2. /\ Agreed = cosmos /\ height \in Nat /\ BlockHeight \in Nat /\ BlockHeight # 0 /\ Typed
  BY <1>1, AgreedIs
<1>3. height < BlockHeight /\ (BlockHeight = FirstHeight => height = 0)
  <2>1. height # 0 => FirstHeight <= height
    BY DEF BlockInv, DecidedInv
  <2>2. FirstHeight \in Nat /\ FirstHeight # 0
    BY HeightAssumption
  <2> QED
    BY <1>2, <2>1, <2>2 DEF BlockHeight, NextHeight
<1>4. Closed(S, BlockHeight)
  <2>1. ASSUME NEW x \in S
        PROVE  Phase(x, BlockHeight) \in S
    BY <1>2, PhaseType, StoryContinues
  <2> HIDE DEF S
  <2> QED
    BY <2>1 DEF Closed
<1>5. Story(BlockStart, BlockHeight)
  <2>1. /\ Told(cosmos, store.kernel, height) /\ Distinct(Decision)
        /\ cosmos \in CosmosState /\ store.kernel \in KernelState
    BY <1>1, <1>2 DEF StoryInv, Typed, StoreState
  <2>2. txs[1] \in Queues /\ Decision = With(cosmos.pushed, txs[1])
    BY <1>1, <1>2, DecisionType DEF Decision
  <2> QED
    BY <1>2, <1>3, <2>1, <2>2, StoryStarts DEF BlockStart
<1>6. S \in SUBSET BlockState /\ BlockStart \in S
  BY <1>1, <1>5
<1>7. Here \in S
  <2> HIDE DEF S
  <2> QED
    BY <1>1, <1>4, <1>6 DEF Leads
<1> QED
  BY <1>1, <1>7 DEF Story

LEMMA StoryInvInductive ==
  ASSUME BlockInv, BlockInv', StoryInv, [Next]_vars
  PROVE  StoryInv'
<1>1. /\ store.height \in {height, BlockHeight} /\ height \in Nat /\ BlockHeight \in Nat
      /\ store.height # 0 => store.height \in DOMAIN final
      /\ BlockHeight # 0 /\ BlockHeight # height /\ Typed
  BY AgreedIs
<1>2. ASSUME UNCHANGED <<height, cosmos, store, txs, final>>, pc' # "commit"
      PROVE  StoryInv'
  <2>1. Agreed' = Agreed /\ Decision' = Decision
    BY <1>2 DEF Agreed, Decision
  <2> QED
    BY <1>2, <2>1 DEF StoryInv
<1>3. CASE UNCHANGED vars
  <2>1. /\ height' = height /\ cosmos' = cosmos /\ deliver' = deliver /\ store' = store
        /\ work' = work /\ pc' = pc /\ txs' = txs /\ final' = final
    BY <1>3 DEF vars
  <2>2. Agreed' = Agreed /\ Decision' = Decision /\ BlockHeight' = BlockHeight
    BY <2>1 DEF Agreed, Decision, BlockHeight
  <2> QED
    BY <2>1, <2>2 DEF StoryInv
<1>4. CASE Launch \/ BeginBlock \/ HaltForUpgrade \/ EndBlockStart \/ Crash
  BY <1>2, <1>4 DEF Launch, BeginBlock, HaltForUpgrade, EndBlockStart, Crash, GoTo, Decohere
<1>5. CASE FlushExport
  <2>1. pc # "commit"
    BY <1>5 DEF FlushExport, BlockInv, CommitInv
  <2> QED
    BY <1>2, <1>5, <2>1 DEF FlushExport
<1>6. CASE \/ RunLeftover \/ RunForced \/ RunTimer \/ RunCleanup
           \/ \E q \in QueueName : ProcessAction(q) \/ QueueDone(q)
  BY <1>2, <1>6 DEF RunLeftover, RunForced, RunTimer, RunCleanup, ProcessAction, QueueDone,
                    AfterQueue, QueueName, GoTo
<1>7. CASE DeliverTxs
  <2>1. UNCHANGED <<height, cosmos, store, final>> /\ pc' = "end"
    BY <1>7 DEF DeliverTxs, GoTo
  <2>2. Agreed' = Agreed
    BY <2>1 DEF Agreed
  <2>3. Distinct(Decision')
    BY <1>7, DeliverTells
  <2> QED
    BY <2>1, <2>2, <2>3 DEF StoryInv
<1>8. CASE EndBlockReplay
  <2>1. /\ UNCHANGED <<height, cosmos, store, work, txs, final>>
        /\ pc = "end" /\ AlreadyExecuted(host.savedHeight, BlockHeight)
    BY <1>8 DEF EndBlockReplay
  <2>2. Agreed' = Agreed /\ Decision' = Decision /\ BlockHeight' = BlockHeight
    BY <2>1 DEF Agreed, Decision, BlockHeight
  <2>3. store.height = BlockHeight
    BY <1>1, <2>1, NeedsExecutionDecides
    DEF BlockInv, HeightInv, HeightsByPhase, Executing, Replaying
  <2>4. Agreed = final[BlockHeight]
    BY <2>3, AgreedIs
  <2>5. pc' = "commit" => deliver' = final[BlockHeight] /\ work'.kernel = store.kernel
    BY <2>1, <2>2, <2>3 DEF BlockInv, CommitInv
  <2> QED
    BY <2>1, <2>2, <2>3, <2>4, <2>5 DEF StoryInv
<1>9. CASE EndBlockFinish
  <2>1. UNCHANGED <<height, cosmos, deliver, store, work, txs>>
    BY <1>9 DEF EndBlockFinish
  <2>2. Decision' = Decision /\ BlockHeight' = BlockHeight
    BY <2>1 DEF Decision, BlockHeight
  <2>3. store.height = height /\ Decides
    BY <1>9, FinishDecides
  <2>4. Agreed' = Agreed
    BY <1>1, <2>1, <2>3 DEF Agreed, Decides
  <2>5. Told(deliver, work.kernel, BlockHeight)
    BY <1>9, FinishTells
  <2> QED
    BY <2>1, <2>2, <2>4, <2>5 DEF StoryInv
<1>10. CASE CommitBlock
  <2>1. pc = "commit" /\ UNCHANGED <<height, cosmos, deliver, txs, final>>
    BY <1>10 DEF CommitBlock
  <2>2. Decision' = Decision /\ BlockHeight' = BlockHeight
    BY <2>1 DEF Decision, BlockHeight
  <2>3. host.savedHeight = BlockHeight /\ host.runThisBlock = <<>>
        /\ BlockHeight \in DOMAIN final /\ deliver = final[BlockHeight]
    BY <2>1 DEF BlockInv, HeightInv, HeightsByPhase, CommitInv
  <2>4. store' = [work EXCEPT !.height = host.savedHeight, !.sends = host.sends]
        /\ pc' = "cosmosCommit"
    BY <1>10, <2>3 DEF CommitBlock, GoTo
  <2>5. store'.height = BlockHeight /\ store'.kernel = work.kernel
    BY <1>1, <2>3, <2>4 DEF Typed, StoreState
  <2>6. Agreed' = deliver
    BY <1>1, <2>1, <2>3, <2>5 DEF Agreed
  <2> QED
    BY <2>1, <2>2, <2>4, <2>5, <2>6 DEF StoryInv
<1>11. CASE CosmosCommit
  <2>1. UNCHANGED <<store, final>> /\ txs' = <<>> /\ pc' = "begin" /\ pc = "cosmosCommit"
    BY <1>11 DEF CosmosCommit, GoTo
  <2>2. store.height # 0
    BY <1>1, <2>1 DEF BlockInv, HeightInv, HeightsByPhase
  <2>3. Agreed' = Agreed
    BY <2>1, <2>2 DEF Agreed
  <2> QED
    BY <2>1, <2>3 DEF StoryInv
<1>12. CASE AtTip
  BY <1>3, <1>12 DEF AtTip
<1> QED
  BY <1>3, <1>4, <1>5, <1>6, <1>7, <1>8, <1>9, <1>10, <1>11, <1>12 DEF Next, Step

(* The kernel and the chain tell one story at every commit: every action   *)
(* taken off a queue was given to the kernel once and in order, and every  *)
(* crank has sent what it sends or is still to run (processActions and     *)
(* saveOutsideState of launch-chain.js). *)
THEOREM KernelStaysInStep ==
  ASSUME ~CrashAfterRelaunch
  PROVE  Spec => []KernelInStep
<1>1. Init => BlockInv /\ StoryInv
  BY BlockInvInit, StoryInit
<1>2. BlockInv /\ StoryInv /\ [Next]_vars => (BlockInv /\ StoryInv)'
  BY BlockInvInductive, StoryInvInductive
<1>3. BlockInv /\ StoryInv => KernelInStep
  <2> SUFFICES ASSUME BlockInv, StoryInv PROVE KernelInStep
    OBVIOUS
  <2>1. DOMAIN store.kernel.given = 1..Len(store.kernel.given)
    BY AgreedIs, LenProperties DEF Typed, StoreState, KernelState
  <2>2. Given(Agreed, store.kernel) /\ CranksTold(Agreed, store.kernel)
    BY DEF StoryInv, Told
  <2> QED
    BY <2>1, <2>2 DEF KernelInStep, Given, CranksTold, Sequel
<1> QED
  BY <1>1, <1>2, <1>3, PTL DEF Spec

-----------------------------------------------------------------------------
(* One block is one step of SwingsetChain.                                 *)

LEMMA PrefixOfConcat ==
  ASSUME NEW S, NEW s \in Seq(S), NEW t \in Seq(S)
  PROVE  IsPrefix(s, s \o t)
<1> DEFINE m == Len(s)
           n == Len(t)
           u == s \o t
<1>1. /\ u \in Seq(S) /\ Len(u) = m + n /\ m \in Nat /\ n \in Nat
      /\ \A i \in 1..m + n : u[i] = IF i <= m THEN s[i] ELSE t[i - m]
  BY ConcatProperties, LenProperties
<1>2. SubSeq(s, 1, m) = s
  BY SubSeqFull
<1> HIDE DEF u, n
<1>3. m <= Len(u) /\ m \in 0..Len(u)
  <2> HIDE DEF m
  <2> QED
    BY <1>1
<1>4. SubSeq(u, 1, m) \in Seq(S) /\ Len(SubSeq(u, 1, m)) = m
      /\ \A i \in 1..m : SubSeq(u, 1, m)[i] = u[i]
  BY <1>1, <1>3, Cut
<1>5. \A i \in 1..m : u[i] = s[i]
  <2> HIDE DEF m
  <2>1. \A i \in 1..m : i \in 1..m + n /\ i <= m
    BY <1>1
  <2> QED
    BY <1>1, <2>1
<1>6. SubSeq(u, 1, m) = s
  <2> DEFINE v == SubSeq(u, 1, m)
  <2>1. v \in Seq(S) /\ Len(v) = Len(s) /\ \A i \in 1..Len(s) : v[i] = s[i]
    BY <1>4, <1>5
  <2> HIDE DEF v
  <2>2. v = s
    BY <2>1, SeqEqual
  <2> QED
    BY <2>2 DEF v
<1> QED
  BY <1>2, <1>3, <1>6 DEF IsPrefix, u

LEMMA ContinuesSelf == ASSUME NEW s \in Seq(CrankSet) PROVE Continues(s, s)
<1>1. <<>> \in Seq(CrankSet) /\ s = s \o <<>>
  BY EmptySeq, ConcatEmptySeq
<1> QED
  BY <1>1 DEF Continues

LEMMA ContinuesMore ==
  ASSUME NEW s \in Seq(CrankSet), NEW t, NEW u, Continues(s, t), Continues(t, u)
  PROVE  Continues(s, u)
<1>1. PICK v \in Seq(CrankSet) : t = s \o v
  BY DEF Continues
<1>2. PICK w \in Seq(CrankSet) : u = t \o w
  BY DEF Continues
<1>3. v \o w \in Seq(CrankSet) /\ u = s \o (v \o w)
  BY <1>1, <1>2, ConcatProperties, ConcatAssociative
<1> QED
  BY <1>3 DEF Continues

(* A block takes the chain onward from c to d. *)
Onward(c, d) ==
  /\ Continues(c.out, d.out)
  /\ \A q \in QueueName : c.head[q] <= d.head[q]

LEMMA OnwardMore ==
  ASSUME NEW c \in CosmosState, NEW d \in CosmosState, NEW e \in CosmosState,
         Onward(c, d), Onward(d, e)
  PROVE  Onward(c, e)
<1>1. Continues(c.out, e.out)
  BY ContinuesMore DEF Onward, CosmosState
<1>2. \A q \in QueueName : c.head[q] \in Nat /\ d.head[q] \in Nat /\ e.head[q] \in Nat
  BY DEF CosmosState
<1>3. \A q \in QueueName : c.head[q] <= d.head[q] /\ d.head[q] <= e.head[q]
  BY DEF Onward
<1>4. \A q \in QueueName : c.head[q] <= e.head[q]
  BY <1>2, <1>3
<1> QED
  BY <1>1, <1>4 DEF Onward

LEMMA SentOnward ==
  ASSUME NEW x \in RunState, NEW y \in RunState, Sent(x, y)
  PROVE  Onward(x.deliver, y.deliver)
<1>1. \A q \in QueueName : x.deliver.head[q] \in Nat
  BY DEF RunState, CosmosState
<1> QED
  BY <1>1 DEF Sent, Onward

LEMMA PhaseOnward ==
  ASSUME NEW x \in BlockState, NEW h
  PROVE  Onward(x.deliver, Phase(x, h).deliver)
<1> DEFINE w == Phase(x, h)
<1>1. x \in RunState /\ x.pc \in ExecutionPhases
  BY DEF BlockState, RunState
<1>2. x.deliver \in CosmosState /\ x.deliver.out \in Seq(CrankSet)
      /\ \A q \in QueueName : x.deliver.head[q] \in Nat
  BY <1>1 DEF RunState, CosmosState
<1>3. CASE x.pc = "leftover"
  <2> DEFINE y == At(w, x.pc)
  <2>1. Ran(x, y, Taken(x)) /\ w \in BlockState
    BY <1>3, LeftoverPhase
  <2>2. y.deliver = w.deliver /\ y \in RunState
    BY <1>1, <2>1, AtType DEF BlockState
  <2> HIDE DEF y, w
  <2> QED
    BY <1>1, <2>1, <2>2, RanSent, SentOnward DEF w
<1>4. CASE x.pc = "forced"
  <2>1. PICK z \in RunState, y \in RunState :
              /\ Asked(x, z, Head(x.run)) /\ Ran(z, y, Taken(z)) /\ x.neverStop
              /\ w.deliver = y.deliver /\ w.kernel = y.kernel
              /\ w.run = Tail(x.run)
    BY <1>4, ForcedPhase
  <2> HIDE DEF w
  <2>2. z.deliver = x.deliver
    BY <2>1 DEF Asked
  <2> QED
    BY <2>1, <2>2, RanSent, SentOnward DEF w
<1>5. CASE x.pc \in QueueName /\ x.deliver.head[x.pc] < Len(x.deliver.pushed[x.pc])
  <2>1. PICK y \in RunState, z \in RunState, a \in Pushable(x.pc), c \in CosmosState :
              /\ a = x.deliver.pushed[x.pc][x.deliver.head[x.pc] + 1]
              /\ c = [x.deliver EXCEPT !.head[x.pc] = @ + 1]
              /\ Asked([x EXCEPT !.deliver = c], z, a) /\ Ran(z, y, Taken(z))
              /\ w.deliver = y.deliver /\ w.kernel = y.kernel
    BY <1>5, QueuePhase
  <2> HIDE DEF w
  <2>2. z.deliver = c /\ c.out = x.deliver.out
        /\ c.head = [x.deliver.head EXCEPT ![x.pc] = @ + 1]
    BY <1>1, <1>2, <2>1 DEF Asked, RunState, CosmosState
  <2>3. \A q \in QueueName : x.deliver.head[q] <= c.head[q]
    <3>1. DOMAIN x.deliver.head = QueueName
      BY <1>2 DEF CosmosState
    <3> QED
      BY <1>2, <1>5, <2>2, <3>1
  <2>4. Onward(x.deliver, c)
    BY <1>2, <2>2, <2>3, ContinuesSelf DEF Onward
  <2>5. Onward(z.deliver, y.deliver)
    BY <2>1, RanSent, SentOnward
  <2>6. y.deliver \in CosmosState
    BY <2>1 DEF RunState
  <2> QED
    BY <1>2, <2>1, <2>2, <2>4, <2>5, <2>6, OnwardMore DEF w
<1>6. CASE x.pc = "timer"
  <2>1. PICK z \in RunState, y \in RunState :
              /\ Polled(x, z, h) /\ Ran(z, y, Taken(z))
              /\ w.deliver = y.deliver /\ w.kernel = y.kernel
    BY <1>6, TimerPhase
  <2> HIDE DEF w
  <2>2. z.deliver = x.deliver
    BY <2>1 DEF Polled
  <2> QED
    BY <2>1, <2>2, RanSent, SentOnward DEF w
<1>7. CASE \/ x.pc \in QueueName /\ x.deliver.head[x.pc] >= Len(x.deliver.pushed[x.pc])
           \/ x.pc \in {"cleanup", "finish"}
  <2>1. w.deliver = x.deliver
    BY <1>7, OtherPhase
  <2> HIDE DEF w
  <2>2. Onward(x.deliver, x.deliver)
    BY <1>2, ContinuesSelf DEF Onward
  <2> QED
    BY <2>1, <2>2 DEF w
<1>8. x.pc \in QueueName =>
        x.deliver.head[x.pc] \in Nat /\ Len(x.deliver.pushed[x.pc]) \in Nat
  BY <1>1 DEF RunState, CosmosState
<1> QED
  BY <1>1, <1>3, <1>4, <1>5, <1>6, <1>7, <1>8 DEF ExecutionPhases

(* The block that is about to be committed takes the chain onward. *)
OnwardInv ==
  pc = "commit" /\ store.height = height =>
    txs # <<>> /\ deliver.pushed = Decision /\ Onward(cosmos, deliver)

LEMMA FinishOnward ==
  ASSUME BlockInv, EndBlockFinish
  PROVE  Onward(cosmos, deliver)
<1> DEFINE S == {x \in BlockState : Onward(cosmos, x.deliver)}
<1>1. /\ store.height = height /\ txs # <<>> /\ BlockStart \in BlockState
      /\ Leads(BlockStart, Here, BlockHeight) /\ Here.deliver = deliver
  BY FinishDecides
<1>2. cosmos \in CosmosState /\ cosmos.out \in Seq(CrankSet)
      /\ \A q \in QueueName : cosmos.head[q] \in Nat
  BY DEF BlockInv, Typed, CosmosState
<1>3. Closed(S, BlockHeight)
  <2>1. ASSUME NEW x \in S
        PROVE  Phase(x, BlockHeight) \in S
    <3>1. Phase(x, BlockHeight) \in BlockState /\ Onward(x.deliver, Phase(x, BlockHeight).deliver)
      BY PhaseType, PhaseOnward
    <3>2. x.deliver \in CosmosState /\ Phase(x, BlockHeight).deliver \in CosmosState
      BY <3>1 DEF BlockState, RunState
    <3> QED
      BY <1>2, <3>1, <3>2, OnwardMore
  <2> HIDE DEF S
  <2> QED
    BY <2>1 DEF Closed
<1>4. Onward(cosmos, BlockStart.deliver)
  <2> DEFINE c == OpenCosmos(cosmos, BlockHeight)
  <2>1. BlockStart.deliver = [c EXCEPT !.pushed = Decision] /\ c \in CosmosState
    <3>1. store.kernel \in KernelState
      BY DEF BlockInv, Typed, StoreState
    <3> QED
      BY <1>2, <3>1, OpenType DEF BlockStart, Start
  <2>2. BlockStart.deliver.out = c.out /\ BlockStart.deliver.head = c.head
    BY <2>1 DEF CosmosState
  <2>3. Continues(cosmos.out, c.out) /\ c.head = cosmos.head
    <3>1. CASE BlockHeight = FirstHeight
      <4>1. c.out = Append(cosmos.out, Boot) /\ c.head = cosmos.head
        BY <1>2, <3>1 DEF OpenCosmos, CosmosState
      <4>2. <<Boot>> \in Seq(CrankSet) /\ Append(cosmos.out, Boot) = cosmos.out \o <<Boot>>
        BY <1>2, BootIs, AppendIsConcat
      <4> QED
        BY <4>1, <4>2 DEF Continues
    <3>2. CASE BlockHeight # FirstHeight
      BY <1>2, <3>2, ContinuesSelf DEF OpenCosmos
    <3> QED
      BY <3>1, <3>2
  <2> QED
    BY <1>2, <2>2, <2>3 DEF Onward
<1>5. S \in SUBSET BlockState /\ BlockStart \in S
  BY <1>1, <1>4
<1>6. Here \in S
  <2> HIDE DEF S
  <2> QED
    BY <1>1, <1>3, <1>5 DEF Leads
<1> QED
  BY <1>1, <1>6

LEMMA OnwardInvInductive ==
  ASSUME BlockInv, BlockInv', OnwardInv, [Next]_vars
  PROVE  OnwardInv'
<1>1. CASE EndBlockFinish
  <2>1. UNCHANGED <<height, cosmos, deliver, store, work, txs>>
    BY <1>1 DEF EndBlockFinish
  <2>2. Decision' = Decision /\ txs # <<>> /\ deliver.pushed = Decision
    BY <1>1, <2>1, FinishDecides DEF Decision
  <2>3. Onward(cosmos, deliver)
    BY <1>1, FinishOnward
  <2> QED
    BY <2>1, <2>2, <2>3 DEF OnwardInv
<1>2. CASE EndBlockReplay
  <2>1. UNCHANGED <<height, store>> /\ pc = "end" /\ AlreadyExecuted(host.savedHeight, BlockHeight)
    BY <1>2 DEF EndBlockReplay
  <2>2. store.height = BlockHeight /\ BlockHeight # height
    BY <2>1, AgreedIs, NeedsExecutionDecides
    DEF BlockInv, HeightInv, HeightsByPhase, Executing, Replaying
  <2> QED
    BY <2>1, <2>2 DEF OnwardInv
<1>3. CASE UNCHANGED vars \/ AtTip
  <2>1. /\ height' = height /\ cosmos' = cosmos /\ deliver' = deliver /\ store' = store
        /\ pc' = pc /\ txs' = txs
    BY <1>3 DEF vars, AtTip
  <2>2. Decision' = Decision
    BY <2>1 DEF Decision
  <2> QED
    BY <2>1, <2>2 DEF OnwardInv
<1>4. CASE FlushExport
  <2>1. pc # "commit" /\ pc' = pc
    BY <1>4 DEF FlushExport, BlockInv, CommitInv
  <2> QED
    BY <2>1 DEF OnwardInv
<1>5. ASSUME pc' # "commit" PROVE OnwardInv'
  BY <1>5 DEF OnwardInv
<1>6. CASE \/ Launch \/ BeginBlock \/ HaltForUpgrade \/ DeliverTxs \/ EndBlockStart
           \/ CommitBlock \/ CosmosCommit \/ Crash
  BY <1>5, <1>6
  DEF Launch, BeginBlock, HaltForUpgrade, DeliverTxs, EndBlockStart, CommitBlock, CosmosCommit,
      Crash, GoTo, Decohere
<1>7. CASE \/ RunLeftover \/ RunForced \/ RunTimer \/ RunCleanup
           \/ \E q \in QueueName : ProcessAction(q) \/ QueueDone(q)
  BY <1>5, <1>7 DEF RunLeftover, RunForced, RunTimer, RunCleanup, ProcessAction, QueueDone,
                    AfterQueue, QueueName, GoTo
<1> QED
  BY <1>1, <1>2, <1>3, <1>4, <1>6, <1>7 DEF Next, Step

\* No crank sends for a queued action that was not taken off its queue.
LEMMA ToldIsCaused ==
  ASSUME NEW c \in CosmosState, NEW k \in KernelState, NEW h, Told(c, k, h),
         NEW i \in DOMAIN c.out
  PROVE  Chain!Caused(c.out[i], c.pushed, c.head)
<1> DEFINE e == c.out[i]
<1>1. e \in CausedCranks(k)
  <2>1. c.out \in Seq(CrankSet) /\ k.runQueue \in Seq(CrankSet)
    BY DEF CosmosState, KernelState
  <2>2. ToSet(c.out) \subseteq ToSet(Sequel(c, k))
    BY <2>1, SetOfConcat DEF Sequel
  <2>3. e \in ToSet(c.out)
    BY DEF ToSet
  <2> HIDE DEF e
  <2> QED
    BY <2>2, <2>3 DEF Told, CranksTold
<1> HIDE DEF e
<1>2. \/ \E j \in DOMAIN k.given : e \in ToSet(CrankSeq(k.given[j]))
      \/ \E w \in k.woken : e = [action |-> Action("timer", w), crank |-> 1]
  BY <1>1 DEF CausedCranks
<1>3. CASE \E w \in k.woken : e = [action |-> Action("timer", w), crank |-> 1]
  <2>1. e.action.kind = "timer"
    BY <1>3 DEF Action
  <2> QED
    BY <2>1 DEF Chain!Caused, QueueName, e
<1>4. CASE \E j \in DOMAIN k.given : e \in ToSet(CrankSeq(k.given[j]))
  <2>1. PICK j \in DOMAIN k.given : e \in ToSet(CrankSeq(k.given[j]))
    BY <1>4
  <2> DEFINE b == k.given[j]
  <2>2. b \in ActionSet /\ j \in 1..Len(k.given) /\ Len(k.given) \in Nat
    BY LenProperties, ElementOfSeq DEF KernelState
  <2> HIDE DEF b
  <2>3. /\ DOMAIN CrankSeq(b) = 1..CranksOf(b)
        /\ \A n \in 1..CranksOf(b) : CrankSeq(b)[n] = [action |-> b, crank |-> n]
    BY <2>2, CrankSeqIs, LenProperties
  <2>4. \A f \in ToSet(CrankSeq(b)) : f.action = b
    BY <2>3 DEF ToSet
  <2>5. e.action = b
    BY <2>1, <2>4 DEF b
  <2>6. ASSUME NEW q \in QueueName, b.kind = q
        PROVE  b \in Chain!Given(c.pushed, c.head)
    <3> DEFINE m == GivenOf(k, q, j)
    <3>1. b = c.pushed[q][m] /\ c.head[q] = GivenOf(k, q, Len(k.given))
      BY <2>2, <2>6 DEF Told, Given, b
    <3>2. j \in 0..Len(k.given) /\ Len(k.given) \in 0..Len(k.given) /\ j <= Len(k.given)
      BY <2>2
    <3>3. m \in Nat /\ m # 0 /\ m <= c.head[q]
      BY <2>2, <2>6, <3>1, <3>2, GivenOfIs DEF b
    <3>4. c.head[q] \in Nat
      BY DEF CosmosState
    <3> HIDE DEF m
    <3>5. m \in 1..c.head[q]
      BY <3>3, <3>4
    <3> QED
      BY <3>1, <3>5 DEF Chain!Given
  <2> QED
    BY <2>5, <2>6 DEF Chain!Caused, e
<1> QED
  BY <1>2, <1>3, <1>4

LEMMA InitRefines == Init => Chain!Init
BY DEF Init, Chain!Init, Agreed, NoTxs

(* The commit of the swing-store is a block of the chain. *)
LEMMA CommitIsBlock ==
  ASSUME BlockInv, StoryInv, OnwardInv, StoryInv', CommitBlock, store.height = height
  PROVE  Chain!Block
<1>1. pc = "commit" /\ UNCHANGED <<height, cosmos, deliver, txs, final>>
  BY DEF CommitBlock
<1>2. /\ height \in Nat /\ BlockHeight \in Nat /\ BlockHeight # 0 /\ BlockHeight # height
      /\ Typed /\ Agreed = cosmos
  BY AgreedIs
<1>3. host.savedHeight = BlockHeight /\ host.runThisBlock = <<>>
      /\ BlockHeight \in DOMAIN final /\ deliver = final[BlockHeight]
  BY <1>1 DEF BlockInv, HeightInv, HeightsByPhase, CommitInv
<1>4. store' = [work EXCEPT !.height = host.savedHeight, !.sends = host.sends]
  BY <1>3 DEF CommitBlock
<1>5. store'.height = BlockHeight /\ store'.kernel = work.kernel
  BY <1>2, <1>3, <1>4 DEF Typed, StoreState
<1>6. Agreed' = deliver
  BY <1>1, <1>2, <1>3, <1>5 DEF Agreed
<1>7. deliver.pushed = Decision /\ Onward(cosmos, deliver) /\ txs # <<>>
  BY <1>1 DEF OnwardInv
<1>8. Told(deliver, work.kernel, BlockHeight)
  BY <1>1 DEF StoryInv
<1>9. deliver \in CosmosState /\ cosmos \in CosmosState /\ work.kernel \in KernelState
      /\ deliver.out \in Seq(CrankSet) /\ cosmos.out \in Seq(CrankSet)
      /\ work.kernel.runQueue \in Seq(CrankSet)
  BY <1>2 DEF Typed, StoreState, CosmosState, KernelState
<1>10. store'.height = NextHeight(store.height)
  BY <1>5 DEF BlockHeight
<1>11. ASSUME NEW q \in QueueName
       PROVE  /\ IsPrefix(cosmos.pushed[q], deliver.pushed[q])
              /\ cosmos.head[q] <= deliver.head[q]
              /\ deliver.head[q] <= Len(deliver.pushed[q])
  <2>1. txs[1] \in Queues
    BY <1>2, <1>7, DecisionType
  <2>2. cosmos.pushed[q] \in Seq(ActionSet) /\ txs[1][q] \in Seq(ActionSet)
    BY <1>9, <2>1 DEF CosmosState, Queues
  <2>3. deliver.pushed[q] = cosmos.pushed[q] \o txs[1][q]
    BY <1>7 DEF Decision, With
  <2> QED
    BY <1>7, <1>9, <2>2, <2>3, PrefixOfConcat DEF Onward, CosmosState
<1>12. IsPrefix(cosmos.out, deliver.out)
  <2>1. PICK u \in Seq(CrankSet) : deliver.out = cosmos.out \o u
    BY <1>7 DEF Onward, Continues
  <2> QED
    BY <1>9, <2>1, PrefixOfConcat
<1>13. IsInjective(deliver.out)
  <2>1. IsInjective(deliver.out \o work.kernel.runQueue)
    BY <1>8 DEF Told, CranksTold, Sequel
  <2>2. Apart(deliver.out, work.kernel.runQueue)
    BY <1>9, <2>1, InjectiveConcat
  <2> QED
    BY <2>2 DEF Apart
<1>14. \A i \in DOMAIN deliver.out : Chain!Caused(deliver.out[i], deliver.pushed, deliver.head)
  BY <1>8, <1>9, ToldIsCaused
<1>15. /\ Agreed.pushed = cosmos.pushed /\ Agreed.head = cosmos.head /\ Agreed.out = cosmos.out
       /\ Agreed'.pushed = deliver.pushed /\ Agreed'.head = deliver.head
       /\ Agreed'.out = deliver.out
  BY <1>2, <1>6
<1> HIDE DEF Agreed
<1>16. \A q \in QueueName :
         /\ IsPrefix(Agreed.pushed[q], Agreed'.pushed[q])
         /\ Agreed.head[q] <= Agreed'.head[q]
         /\ Agreed'.head[q] <= Len(Agreed'.pushed[q])
  BY <1>11, <1>15
<1>17. IsPrefix(Agreed.out, Agreed'.out) /\ IsInjective(Agreed'.out)
  BY <1>12, <1>13, <1>15
<1>18. \A i \in DOMAIN Agreed'.out :
         Chain!Caused(Agreed'.out[i], Agreed'.pushed, Agreed'.head)
  BY <1>14, <1>15
<1>19. /\ \A s, t : IsPrefix(s, t) => Chain!IsPrefix(s, t)
       /\ \A f : IsInjective(f) => Chain!IsInjective(f)
  BY DEF IsPrefix, Chain!IsPrefix, IsInjective, Chain!IsInjective
<1> QED
  BY <1>10, <1>16, <1>17, <1>18, <1>19 DEF Chain!Block

LEMMA NextRefines ==
  ASSUME BlockInv, BlockInv', StoryInv, StoryInv', OnwardInv, [Next]_vars
  PROVE  [Chain!Next]_<<store.height, Agreed.pushed, Agreed.head, Agreed.out>>
<1>1. /\ store.height \in {height, BlockHeight} /\ height \in Nat /\ BlockHeight \in Nat
      /\ store.height # 0 => store.height \in DOMAIN final
      /\ BlockHeight # 0 /\ BlockHeight # height /\ Typed
  BY AgreedIs
<1>2. ASSUME UNCHANGED <<cosmos, store, final>>
      PROVE  Agreed' = Agreed /\ store'.height = store.height
  BY <1>2 DEF Agreed
<1>3. CASE CommitBlock /\ store.height = height
  BY <1>3, CommitIsBlock DEF Chain!Next
<1>4. CASE CommitBlock /\ store.height # height
  <2>1. pc = "commit" /\ UNCHANGED <<height, cosmos, deliver, txs, final>>
    BY <1>4 DEF CommitBlock
  <2>2. host.savedHeight = BlockHeight /\ host.runThisBlock = <<>>
    BY <2>1 DEF BlockInv, HeightInv, HeightsByPhase, CommitInv
  <2>3. store' = [work EXCEPT !.height = host.savedHeight, !.sends = host.sends]
    BY <1>4, <2>2 DEF CommitBlock
  <2>4. store'.height = BlockHeight /\ store.height = BlockHeight
    BY <1>1, <1>4, <2>2, <2>3 DEF Typed, StoreState
  <2>5. Agreed' = Agreed
    BY <2>1, <2>4 DEF Agreed
  <2> QED
    BY <2>4, <2>5
<1>5. CASE CosmosCommit
  <2>1. UNCHANGED <<store, final>> /\ pc = "cosmosCommit"
    BY <1>5 DEF CosmosCommit
  <2>2. store.height # 0
    BY <1>1, <2>1 DEF BlockInv, HeightInv, HeightsByPhase
  <2>3. Agreed' = Agreed
    BY <2>1, <2>2 DEF Agreed
  <2> QED
    BY <2>1, <2>3
<1>6. CASE EndBlockFinish
  <2>1. UNCHANGED <<height, cosmos, store>>
    BY <1>6 DEF EndBlockFinish
  <2>2. store.height = height /\ Decides
    BY <1>6, FinishDecides
  <2>3. Agreed' = Agreed
    BY <1>1, <2>1, <2>2 DEF Agreed, Decides
  <2> QED
    BY <2>1, <2>3
<1>7. CASE UNCHANGED <<cosmos, store, final>>
  BY <1>2, <1>7
<1>8. CommitBlock \/ CosmosCommit \/ EndBlockFinish \/ UNCHANGED <<cosmos, store, final>>
  BY DEF Next, Step, vars, Launch, FlushExport, BeginBlock, HaltForUpgrade, DeliverTxs,
      EndBlockReplay, EndBlockStart, RunLeftover, RunForced, RunTimer, RunCleanup,
      ProcessAction, QueueDone, Crash, AtTip
<1> QED
  BY <1>3, <1>4, <1>5, <1>6, <1>7, <1>8

(* A node that restarts, replays and executes blocks again looks like one  *)
(* that runs every block exactly once: launch-chain.js with two stores and *)
(* crashes implements SwingsetChain. *)
THEOREM LifecycleImplementsChain ==
  ASSUME ~CrashAfterRelaunch
  PROVE  Spec => RefinesChain
<1>1. Init => BlockInv /\ StoryInv /\ OnwardInv
  BY BlockInvInit, StoryInit DEF Init, OnwardInv
<1>2. BlockInv /\ StoryInv /\ OnwardInv /\ [Next]_vars => (BlockInv /\ StoryInv /\ OnwardInv)'
  BY BlockInvInductive, StoryInvInductive, OnwardInvInductive
<1>3. ASSUME BlockInv /\ StoryInv /\ OnwardInv, (BlockInv /\ StoryInv /\ OnwardInv)',
             [Next]_vars
      PROVE  [Chain!Next]_<<store.height, Agreed.pushed, Agreed.head, Agreed.out>>
  <2>1. BlockInv' /\ StoryInv'
    BY <1>3
  <2> QED
    BY <1>3, <2>1, NextRefines
<1> QED
  BY <1>1, <1>2, <1>3, InitRefines, PTL DEF Spec, RefinesChain, Chain!Spec, Chain!chainVars
=============================================================================

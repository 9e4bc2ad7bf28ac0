--------------------------- MODULE BlockLifecycle ---------------------------
(***************************************************************************)
(* One validator node of a cosmic-swingset chain.  CometBFT and the cosmos *)
(* app drive the JavaScript host (launch-chain.js, chain-main.js) through  *)
(* AG_COSMOS_INIT, BEGIN_BLOCK, END_BLOCK, COMMIT_BLOCK and                *)
(* AFTER_COMMIT_BLOCK.  The kernel lives in the swing-store and the chain  *)
(* in the cosmos store; the two commit one after the other, and the node   *)
(* may crash at any point, losing whatever is not committed.               *)
(***************************************************************************)
EXTENDS Naturals, Sequences, FiniteSets, TLC, SequencesExt

CONSTANTS
  Txs,               \* the actions transactions can push, one set per queue
  Cranks,            \* per action, how many cranks the kernel needs for it
  Nonced,            \* actions whose cranks make a downcall that returns a nonce
  Wakeups,           \* block times for which a timer wakeup is scheduled
  DeadVatWork,       \* units of cleanup that terminated vats still need
  BlockComputeLimit, \* beans per block; here every crank costs one bean
  CleanupBudget,     \* units of cleanup allowed per block
  UpgradeHeights,    \* heights at which the chain halts for a software upgrade
  FirstHeight,       \* the first block of the chain
  MaxHeight,         \* bound: the last block
  MaxTxs,            \* bound: transactions in a block
  MaxCrashes,        \* bound: crashes
  CrashAfterRelaunch \* whether a node may crash between the two commits of
                     \* the first block it executes after a restart

QueueName == {"priority", "inbound"}

ASSUME QueueAssumption == Txs \in [QueueName -> SUBSET UNION {Txs[q] : q \in QueueName}]
ASSUME CranksAssumption ==
  Cranks \in [UNION {Txs[q] : q \in QueueName} -> Nat]
ASSUME PolicyAssumption ==
  BlockComputeLimit \in Nat \ {0} /\ CleanupBudget \in Nat /\ DeadVatWork \in Nat
ASSUME WakeupsAssumption == Wakeups \subseteq Nat /\ IsFiniteSet(Wakeups)
ASSUME HeightAssumption ==
  /\ FirstHeight \in Nat \ {0} /\ MaxHeight \in Nat /\ FirstHeight <= MaxHeight
  /\ UpgradeHeights \subseteq Nat \ {FirstHeight}
ASSUME BoundsAssumption ==
  MaxTxs \in Nat /\ MaxCrashes \in Nat /\ CrashAfterRelaunch \in BOOLEAN

VARIABLES
  height,   \* the last block cosmos has committed
  cosmos,   \* the committed cosmos store
  deliver,  \* the uncommitted state of the block cosmos is processing
  store,    \* the committed swing-store
  work,     \* the uncommitted swing-store
  host,     \* what the JavaScript process holds in memory
  policy,   \* the run policy of the END_BLOCK under way
  pc,       \* where the node is in the lifecycle
  txs,      \* the transactions of the block CometBFT has decided on
  final,    \* per height, the state the validators agreed on (the app hash)
  crashes

vars == <<height, cosmos, deliver, store, work, host, policy, pc, txs, final, crashes>>

NextHeight(h) == IF h = 0 THEN FirstHeight ELSE h + 1
BlockHeight == NextHeight(height)

NoTxs == [q \in QueueName |-> <<>>]
Stopped ==
  [savedHeight |-> 0, savedBeginHeight |-> 0, sends |-> <<>>, runThisBlock |-> <<>>,
   pendingExport |-> {}, fresh |-> FALSE, decohered |-> "no"]
Unused == [beans |-> 0, neverStop |-> FALSE]

Init ==
  /\ height = 0
  /\ cosmos = [pushed |-> NoTxs, head |-> [q \in QueueName |-> 0],
               out |-> <<>>, exported |-> {}]
  /\ deliver = cosmos
  /\ store = [height |-> 0, beginHeight |-> 0, sends |-> <<>>,
              kernel |-> [given |-> <<>>, runQueue |-> <<>>, woken |-> {},
                          dead |-> DeadVatWork]]
  /\ work = store
  /\ host = Stopped
  /\ policy = Unused
  /\ pc = "down"
  /\ txs = <<>>
  /\ final = <<>>
  /\ crashes = 0

-----------------------------------------------------------------------------
(* Downcalls to cosmos, and their record in savedChainSends *)

(* What a downcall does to the cosmos state, and what it returns.  Queue   *)
(* entries are addressed by index, a balance update carries a nonce, and   *)
(* export data goes to a store of its own. *)
Effect(c, send) ==
  CASE send.op = "size" -> c
    [] send.op = "take" -> [c EXCEPT !.head[send.arg.q] = send.arg.i]
    [] send.op = "out" -> [c EXCEPT !.out = Append(@, send.arg)]
    [] send.op = "export" -> [c EXCEPT !.exported = @ \cup send.arg]

Return(c, send) ==
  CASE send.op = "size" -> Len(c.pushed[send.arg]) - c.head[send.arg]
    [] send.op = "take" ->
         {c.pushed[send.arg.q][i] : i \in {send.arg.i} \cap
            (c.head[send.arg.q] + 1)..Len(c.pushed[send.arg.q])}
    [] send.op = "out" ->
         IF send.arg.action.id \in Nonced THEN Len(c.out) + 1 ELSE 0
    [] send.op = "export" -> 0

(* chainSend: perform the downcall and remember it with what it returned.  *)
(* "at" is a history field: the height at which the downcall was made.     *)
Send(op, arg) == [op |-> op, arg |-> arg]
Record(c, send) ==
  [op |-> send.op, arg |-> send.arg, ret |-> Return(c, send), at |-> BlockHeight]
ChainSend(s, send) ==
  [s EXCEPT !.deliver = Effect(@, send),
            !.sends = Append(@, Record(s.deliver, send))]

(* replayChainSends: make every saved downcall again and insist that it    *)
(* returns what it returned the first time. *)
Replay(c, sends) ==
  LET after[i \in 0..Len(sends)] ==
        IF i = 0 THEN [deliver |-> c, same |-> TRUE]
        ELSE LET before == after[i - 1]
             IN IF ~before.same THEN before
                ELSE [deliver |-> Effect(before.deliver, sends[i]),
                      same |-> Return(before.deliver, sends[i]) = sends[i].ret]
  IN after[Len(sends)]

-----------------------------------------------------------------------------
(* The kernel, as the host sees it *)

Action(kind, id) == [kind |-> kind, id |-> id]
CranksOf(action) ==
  IF action.kind \in QueueName THEN Cranks[action.id] ELSE 1
CrankSeq(action) ==
  [i \in 1..CranksOf(action) |-> [action |-> action, crank |-> i]]

(* performAction, and the work it leaves on the kernel's run-queue. *)
PerformAction(kern, action) ==
  [kern EXCEPT !.given = Append(@, action), !.runQueue = @ \o CrankSeq(action)]

(* The state one END_BLOCK step works on. *)
Now == [deliver |-> deliver, sends |-> host.sends, kernel |-> work.kernel,
        beans |-> policy.beans, pendingExport |-> host.pendingExport]

(* runSwingset: cranks run until the run-queue is empty or the policy says *)
(* stop.  A crank calls out to cosmos and leaves export data to be flushed.*)
ShouldRun(s) == policy.neverStop \/ s.beans < BlockComputeLimit
RunLength(s) ==
  IF policy.neverStop \/ Len(s.kernel.runQueue) < BlockComputeLimit - s.beans
  THEN Len(s.kernel.runQueue)
  ELSE BlockComputeLimit - s.beans
\* Mutant: the cranks beyond the limit are forgotten.
RunSwingsetDroppingRest(s) ==
  LET n == RunLength(s)
      ran == SubSeq(s.kernel.runQueue, 1, n)
      before(i) == [s.deliver EXCEPT !.out = @ \o SubSeq(ran, 1, i - 1)]
  IN [s EXCEPT !.kernel.runQueue = <<>>, !.beans = @ + n,
               !.pendingExport = @ \cup ToSet(ran),
               !.deliver.out = @ \o ran,
               !.sends = @ \o [i \in 1..n |-> Record(before(i), Send("out", ran[i]))]]
RunSwingset(s) ==
  LET n == RunLength(s)
      ran == SubSeq(s.kernel.runQueue, 1, n)
      rest == SubSeq(s.kernel.runQueue, n + 1, Len(s.kernel.runQueue))
      before(i) == [s.deliver EXCEPT !.out = @ \o SubSeq(ran, 1, i - 1)]
  IN [s EXCEPT !.kernel.runQueue = rest, !.beans = @ + n,
               !.pendingExport = @ \cup ToSet(ran),
               !.deliver.out = @ \o ran,
               !.sends = @ \o [i \in 1..n |-> Record(before(i), Send("out", ran[i]))]]

Become(s) ==
  /\ deliver' = s.deliver
  /\ work' = [work EXCEPT !.kernel = s.kernel]
  /\ host' = [host EXCEPT !.sends = s.sends, !.pendingExport = s.pendingExport]
  /\ policy' = [policy EXCEPT !.beans = s.beans]

GoTo(label) == pc' = label
Decohere(why) == host' = [host EXCEPT !.decohered = why] /\ GoTo("panic")

-----------------------------------------------------------------------------
(* Launch and AG_COSMOS_INIT *)

\* Mutant: a block the swing-store has already committed is executed again.
NeedsExecutionAgain(saved, h) == saved = 0 \/ h = saved + 1 \/ h = saved

\* Mutant: a chain that does not start at height 1 is not expected.
NeedsExecutionNext(saved, h) == h = saved + 1

(* blockNeedsExecution, against the height the swing-store has saved. *)
NeedsExecution(saved, h) == saved = 0 \/ h = saved + 1

AlreadyExecuted(saved, h) == saved # 0 /\ h = saved

(* What has to run in this block, whatever it costs: the core proposals of *)
(* the bootstrap or of an upgrade, after the kernel's upgrade events.      *)
Forced(h) ==
  IF h = FirstHeight THEN <<Action("core", h)>>
  ELSE IF h \in UpgradeHeights THEN <<Action("events", h), Action("core", h)>>
  ELSE <<>>

(* doBootstrap runs the bootstrap to completion, before the first block. *)
Bootstrap(s) ==
  LET boot == [action |-> Action("bootstrap", 0), crank |-> 1]
      asked == [s EXCEPT !.kernel.given = Append(@, boot.action),
                         !.pendingExport = @ \cup {boot}]
  IN ChainSend(asked, Send("out", boot))

(* AG_COSMOS_INIT comes once per process.  launch() has loaded the saved   *)
(* heights and the downcalls of the last committed block. *)
Launch ==
  /\ pc = "down"
  /\ height < MaxHeight
  /\ LET saved == store.height
         began == IF store.beginHeight = 0 THEN saved ELSE store.beginHeight
         loaded == [Stopped EXCEPT !.savedHeight = saved, !.savedBeginHeight = began,
                                   !.sends = store.sends, !.fresh = TRUE]
         start == [deliver |-> deliver, sends |-> store.sends, kernel |-> work.kernel,
                   beans |-> 0, pendingExport |-> {}]
         booted == IF BlockHeight = FirstHeight THEN Bootstrap(start) ELSE start
     IN IF NeedsExecution(saved, BlockHeight)
        THEN /\ deliver' = booted.deliver
             /\ work' = [work EXCEPT !.kernel = booted.kernel]
             /\ host' = [loaded EXCEPT !.sends = booted.sends,
                                       !.pendingExport = booted.pendingExport,
                                       !.runThisBlock = Forced(BlockHeight)]
             /\ GoTo("begin")
        ELSE /\ IF AlreadyExecuted(saved, BlockHeight)
                THEN host' = loaded /\ GoTo("begin")
                ELSE host' = [loaded EXCEPT !.decohered = "reset"] /\ GoTo("panic")
             /\ UNCHANGED <<deliver, work>>
  /\ UNCHANGED <<height, cosmos, store, policy, txs, final, crashes>>

(* The export callback is asynchronous: its downcall is made some time     *)
(* after the crank that produced the data. *)
FlushExport ==
  /\ host.pendingExport # {}
  /\ LET s == ChainSend(Now, Send("export", host.pendingExport))
     IN Become([s EXCEPT !.pendingExport = {}])
  /\ UNCHANGED <<height, cosmos, store, pc, txs, final, crashes>>

-----------------------------------------------------------------------------
(* BEGIN_BLOCK, the transactions, END_BLOCK *)

BeginBlock ==
  /\ pc = "begin"
  /\ height < MaxHeight
  /\ BlockHeight \in UpgradeHeights => host.fresh
  /\ host.pendingExport = {}
  /\ IF AlreadyExecuted(host.savedHeight, BlockHeight)
     THEN GoTo("deliver") /\ UNCHANGED <<host, work>>
     ELSE IF ~NeedsExecution(host.savedHeight, BlockHeight)
     THEN Decohere("reset") /\ UNCHANGED work
     ELSE IF host.savedBeginHeight = BlockHeight
     THEN Decohere("began") /\ UNCHANGED work
     ELSE /\ host' = [host EXCEPT !.savedBeginHeight = BlockHeight]
          /\ work' = [work EXCEPT !.beginHeight = BlockHeight]
          /\ GoTo("deliver")
  /\ UNCHANGED <<height, cosmos, deliver, store, policy, txs, final, crashes>>

(* An upgrade height stops a node that runs the old software. *)
HaltForUpgrade ==
  /\ pc = "begin"
  /\ height < MaxHeight
  /\ BlockHeight \in UpgradeHeights /\ ~host.fresh
  /\ host' = Stopped
  /\ deliver' = cosmos
  /\ work' = store
  /\ GoTo("down")
  /\ UNCHANGED <<height, cosmos, store, policy, txs, final, crashes>>

(* The block's transactions push actions on the queues.  CometBFT decides  *)
(* on them once: a block that is executed again has the same ones. *)
Pushed == UNION {ToSet(deliver.pushed[q]) : q \in QueueName}
Unpushed(q) == {Action(q, id) : id \in Txs[q]} \ Pushed
Batches(q) ==
  UNION {SetToSeqs(T) : T \in {T \in SUBSET Unpushed(q) :
                                  IsFiniteSet(T) /\ Cardinality(T) <= MaxTxs}}
Blocks ==
  {[q \in QueueName |-> IF q = "priority" THEN b[1] ELSE b[2]] :
     b \in {b \in Batches("priority") \X Batches("inbound") :
              Len(b[1]) + Len(b[2]) <= MaxTxs}}

DeliverTxs ==
  /\ pc = "deliver"
  /\ \E b \in IF txs = <<>> THEN Blocks ELSE {txs[1]} :
       /\ txs' = <<b>>
       /\ deliver' = [deliver EXCEPT !.pushed = [q \in QueueName |-> @[q] \o b[q]]]
  /\ GoTo("end")
  /\ UNCHANGED <<height, cosmos, store, work, host, policy, final, crashes>>

(* END_BLOCK of a block the swing-store has already committed: nothing is  *)
(* executed, the saved downcalls are made again. *)
EndBlockReplay ==
  /\ pc = "end"
  /\ AlreadyExecuted(host.savedHeight, BlockHeight)
  /\ LET r == Replay(deliver, host.sends)
     IN IF r.same
        THEN deliver' = r.deliver /\ GoTo("commit") /\ UNCHANGED host
        ELSE Decohere("replay") /\ UNCHANGED deliver
  /\ UNCHANGED <<height, cosmos, store, work, policy, txs, final, crashes>>

\* Mutant: the block limit also applies to the forced actions.
EndBlockStartLimited ==
  /\ pc = "end"
  /\ ~AlreadyExecuted(host.savedHeight, BlockHeight)
  /\ LET s == ChainSend(ChainSend(Now, Send("size", "priority")), Send("size", "inbound"))
     IN deliver' = s.deliver /\ host' = [host EXCEPT !.sends = s.sends]
  /\ policy' = [beans |-> 0, neverStop |-> FALSE]
  /\ GoTo("leftover")
  /\ UNCHANGED <<height, cosmos, store, work, txs, final, crashes>>

(* END_BLOCK of a block to execute: endBlock reads the queue lengths and   *)
(* makes the run policy.  Forced work switches the block limit off. *)
EndBlockStart ==
  /\ pc = "end"
  /\ ~AlreadyExecuted(host.savedHeight, BlockHeight)
  /\ IF ~NeedsExecution(host.savedHeight, BlockHeight)
     THEN Decohere("reset") /\ UNCHANGED <<deliver, policy>>
     ELSE IF BlockHeight # host.savedBeginHeight
     THEN Decohere("ended") /\ UNCHANGED <<deliver, policy>>
     ELSE /\ LET s == ChainSend(ChainSend(Now, Send("size", "priority")), Send("size", "inbound"))
             IN deliver' = s.deliver /\ host' = [host EXCEPT !.sends = s.sends]
          /\ policy' = [beans |-> 0, neverStop |-> host.runThisBlock # <<>>]
          /\ GoTo("leftover")
  /\ UNCHANGED <<height, cosmos, store, work, txs, final, crashes>>

(* The phases of processBlockActions, and where each goes from here. *)
RunLeftover ==
  /\ pc = "leftover"
  /\ LET s == RunSwingset(Now)
     IN /\ Become(s)
        /\ GoTo(IF ~ShouldRun(s) THEN "finish"
                ELSE IF host.runThisBlock # <<>> THEN "forced" ELSE "priority")
  /\ UNCHANGED <<height, cosmos, store, txs, final, crashes>>

RunForced ==
  /\ pc = "forced"
  /\ host.runThisBlock # <<>>
  /\ LET s == RunSwingset([Now EXCEPT !.kernel = PerformAction(@, Head(host.runThisBlock))])
     IN /\ deliver' = s.deliver
        /\ work' = [work EXCEPT !.kernel = s.kernel]
        /\ host' = [host EXCEPT !.sends = s.sends, !.pendingExport = s.pendingExport,
                                !.runThisBlock = Tail(@)]
        /\ policy' = [policy EXCEPT !.beans = s.beans]
        /\ GoTo(IF ShouldRun(s) /\ Len(host.runThisBlock) > 1 THEN "forced" ELSE "finish")
  /\ UNCHANGED <<height, cosmos, store, txs, final, crashes>>

(* processActions: take the next action of the queue, hand it to the       *)
(* kernel and run.  An action beyond the limit stays on the queue. *)
AfterQueue(q) == IF q = "priority" THEN "timer" ELSE "cleanup"
ProcessAction(q) ==
  /\ pc = q
  /\ deliver.head[q] < Len(deliver.pushed[q])
  /\ LET i == deliver.head[q] + 1
         taken == ChainSend(Now, Send("take", [q |-> q, i |-> i]))
         s == RunSwingset([taken EXCEPT !.kernel = PerformAction(@, deliver.pushed[q][i])])
     IN /\ Become(s)
        /\ GoTo(IF ShouldRun(s) THEN q
                ELSE IF q = "priority" THEN "finish" ELSE "cleanup")
  /\ UNCHANGED <<height, cosmos, store, txs, final, crashes>>

QueueDone(q) ==
  /\ pc = q
  /\ deliver.head[q] = Len(deliver.pushed[q])
  /\ GoTo(AfterQueue(q))
  /\ UNCHANGED <<height, cosmos, deliver, store, work, host, policy, txs, final, crashes>>

(* timer.poll wakes every timer that is due, also one whose block had no   *)
(* budget left to poll it.  The block's time is its height here. *)
Due == {w \in Wakeups \ work.kernel.woken : w <= BlockHeight}
\* The timer map keeps its schedule sorted by time.
InOrder(S) ==
  CHOOSE s \in [1..Cardinality(S) -> S] : \A i, j \in DOMAIN s : i < j => s[i] < s[j]
RunTimer ==
  /\ pc = "timer"
  /\ LET due == InOrder(Due)
         cranks == [i \in 1..Len(due) |->
                      [action |-> Action("timer", due[i]), crank |-> 1]]
         polled == [work.kernel EXCEPT !.woken = @ \cup Due,
                                       !.runQueue = @ \o cranks]
         s == RunSwingset([Now EXCEPT !.kernel = polled])
     IN Become(s) /\ GoTo(IF ShouldRun(s) THEN "inbound" ELSE "finish")
  /\ UNCHANGED <<height, cosmos, store, txs, final, crashes>>

(* Cleanup of terminated vats, only in a block that did no other work. *)
RunCleanup ==
  /\ pc = "cleanup"
  /\ work' = [work EXCEPT !.kernel.dead =
       IF policy.beans # 0 THEN @
       ELSE IF @ < CleanupBudget THEN 0 ELSE @ - CleanupBudget]
  /\ GoTo("finish")
  /\ UNCHANGED <<height, cosmos, deliver, store, host, policy, txs, final, crashes>>

(* What the first execution of a block leads to is what the chain agrees on. *)
Decided ==
  IF BlockHeight \in DOMAIN final THEN final
  ELSE [h \in DOMAIN final \cup {BlockHeight} |->
          IF h = BlockHeight THEN deliver ELSE final[h]]

\* Mutant: END_BLOCK does not wait for the export data.
EndBlockFinishEarly ==
  /\ pc = "finish"
  /\ host' = [host EXCEPT !.savedHeight = BlockHeight]
  /\ final' = Decided
  /\ policy' = Unused
  /\ GoTo("commit")
  /\ UNCHANGED <<height, cosmos, deliver, store, work, txs, crashes>>

(* The end of END_BLOCK waits for the export data to be flushed.  The      *)
(* state is then the one the validators vote on. *)
EndBlockFinish ==
  /\ pc = "finish"
  /\ host.pendingExport = {}
  /\ host' = [host EXCEPT !.savedHeight = BlockHeight]
  /\ final' = Decided
  /\ policy' = Unused
  /\ GoTo("commit")
  /\ UNCHANGED <<height, cosmos, deliver, store, work, txs, crashes>>

-----------------------------------------------------------------------------
(* Commit *)

\* Mutant: the swing-store commits without the downcalls of the block.
CommitWithoutSends ==
  /\ pc = "commit"
  /\ store' = [work EXCEPT !.height = host.savedHeight, !.sends = <<>>]
  /\ work' = store'
  /\ host' = [host EXCEPT !.sends = <<>>]
  /\ GoTo("cosmosCommit")
  /\ UNCHANGED <<height, cosmos, deliver, policy, txs, final, crashes>>

(* COMMIT_BLOCK: saveOutsideState stores the height and the downcalls, and *)
(* the swing-store commits; a wrong height or unfinished work is an error. *)
CommitBlock ==
  /\ pc = "commit"
  /\ IF BlockHeight = host.savedHeight /\ host.runThisBlock = <<>>
     THEN /\ store' = [work EXCEPT !.height = host.savedHeight, !.sends = host.sends]
          /\ work' = store'
          /\ host' = [host EXCEPT !.sends = <<>>]
          /\ GoTo("cosmosCommit")
     ELSE GoTo("panic") /\ UNCHANGED <<store, work, host>>
  /\ UNCHANGED <<height, cosmos, deliver, policy, txs, final, crashes>>

(* CommitWithoutSnapshot of the cosmos app, then AFTER_COMMIT_BLOCK. *)
CosmosCommit ==
  /\ pc = "cosmosCommit"
  /\ height' = BlockHeight
  /\ cosmos' = deliver
  /\ txs' = <<>>
  /\ host' = [host EXCEPT !.fresh = FALSE]
  /\ GoTo("begin")
  /\ UNCHANGED <<deliver, store, work, policy, final, crashes>>

-----------------------------------------------------------------------------
(* Crashes *)

(* The downcalls of an earlier block that are still among the saved ones.  *)
CarriedOver == {i \in DOMAIN store.sends : store.sends[i].at # store.height}

(* Everything that is not committed is gone, the process's memory too.  A  *)
(* host that threw takes the node down as well: the cosmos side panics.    *)
Crash ==
  /\ pc # "down"
  /\ crashes < MaxCrashes \/ pc = "panic"
  /\ (pc = "cosmosCommit" /\ CarriedOver # {}) => CrashAfterRelaunch
  /\ crashes' = IF pc = "panic" THEN crashes ELSE crashes + 1
  /\ host' = Stopped
  /\ deliver' = cosmos
  /\ work' = store
  /\ policy' = Unused
  /\ GoTo("down")
  /\ UNCHANGED <<height, cosmos, store, txs, final>>

(* The bound MaxHeight is reached: nothing more happens. *)
AtTip ==
  /\ height = MaxHeight
  /\ pc \in {"begin", "down"}
  /\ UNCHANGED vars

Step ==
  \/ Launch \/ FlushExport
  \/ BeginBlock \/ HaltForUpgrade \/ DeliverTxs
  \/ EndBlockReplay \/ EndBlockStart
  \/ RunLeftover \/ RunForced \/ RunTimer \/ RunCleanup
  \/ \E q \in QueueName : ProcessAction(q) \/ QueueDone(q)
  \/ EndBlockFinish
  \/ CommitBlock \/ CosmosCommit

Next == Step \/ Crash \/ AtTip

(* The operator restarts a node that is down and CometBFT keeps proposing: *)
(* the lifecycle never stops while it can go on.  Crashes are not fair.    *)
Fairness == WF_vars(Step)

Spec == Init /\ [][Next]_vars
FairSpec == Spec /\ Fairness
=============================================================================

---------------------- MODULE BlockLifecycleProperties ----------------------
(***************************************************************************)
(* What must hold of a node of the chain, whenever it crashes.             *)
(***************************************************************************)
EXTENDS BlockLifecycle

(* The state the chain has agreed on at the swing-store's height: once the *)
(* swing-store has committed a block, the node must end up there. *)
Agreed == IF store.height = 0 THEN cosmos ELSE final[store.height]

(* The two stores never drift: the swing-store is at the height of the     *)
(* cosmos store or one block ahead of it (launch-chain.js commits first),  *)
(* so that a restart can always be answered by blockNeedsExecution.        *)
StoresInStep ==
  /\ store.height \in {height, BlockHeight}
  /\ store.beginHeight = store.height
  /\ host.decohered \notin {"reset", "began", "ended"}

(* No crash makes the node reach another state than the validators agreed  *)
(* on: a block that is executed again after a crash, or replayed from the  *)
(* saved downcalls, leaves cosmos exactly as the first execution did, the  *)
(* asynchronous export data included. *)
AppHashAgrees ==
  /\ height # 0 => cosmos = final[height]
  /\ pc \in {"commit", "cosmosCommit"} =>
       deliver = final[BlockHeight]

(* How many of the first i actions given to the kernel are of queue q.      *)
GivenOf(kern, q, i) == Cardinality({j \in 1..i : kern.given[j].kind = q})

CausedCranks(kern) ==
  (UNION {ToSet(CrankSeq(kern.given[i])) : i \in DOMAIN kern.given})
  \cup {[action |-> Action("timer", w), crank |-> 1] : w \in kern.woken}

(* The kernel and the chain tell one story at every commit: the kernel was *)
(* given exactly the actions taken off the queues, in order, and every     *)
(* crank they and the wakeups call for has either sent its downcall and    *)
(* its export data or waits on the run-queue, never both and never twice.  *)
KernelInStep ==
  LET kern == store.kernel IN
  /\ \A q \in QueueName : Agreed.head[q] = GivenOf(kern, q, Len(kern.given))
  /\ \A i \in DOMAIN kern.given : \A q \in QueueName :
       kern.given[i].kind = q => kern.given[i] = Agreed.pushed[q][GivenOf(kern, q, i)]
  /\ ToSet(Agreed.out \o kern.runQueue) = CausedCranks(kern)
  /\ IsInjective(Agreed.out \o kern.runQueue)
  /\ Agreed.exported = ToSet(Agreed.out)

(* The forced actions of a bootstrap or an upgrade run in their own block, *)
(* to completion, however full the run-queue and however small the limit:  *)
(* "hangover" into another block is what runThisBlock must rule out. *)
ForcedRunInTheirBlock ==
  \A h \in DOMAIN final : \A i \in DOMAIN Forced(h) :
    ToSet(CrankSeq(Forced(h)[i])) \subseteq ToSet(final[h].out)

(* A replayed END_BLOCK makes exactly the downcalls of the block that is   *)
(* replayed, none of an earlier one. *)
ReplaysOneBlock ==
  pc = "end" /\ AlreadyExecuted(host.savedHeight, BlockHeight) =>
    \A i \in DOMAIN host.sends : host.sends[i].at = BlockHeight

(* One block of the chain, whatever crashes, re-executions and replays it  *)
(* took, is one step of SwingsetChain, taken when the swing-store commits. *)
Chain == INSTANCE SwingsetChain WITH
  height <- store.height, pushed <- Agreed.pushed, head <- Agreed.head,
  out <- Agreed.out
RefinesChain == Chain!Spec

(* A node that crashes finitely often catches up with the chain. *)
ReachesTip == <>(height = MaxHeight)
=============================================================================

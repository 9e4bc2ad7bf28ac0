---------------------------- MODULE SwingsetChain ----------------------------
(***************************************************************************)
(* What the block lifecycle promises the rest of the chain: one block      *)
(* after another becomes final, and each takes the kernel forward once.    *)
(* There is one state here, not a cosmos store beside a swing-store, and   *)
(* there are no crashes: an implementation that restarts, replays or       *)
(* re-executes a block must look as if it had run the block exactly once.  *)
(***************************************************************************)
EXTENDS Naturals, Sequences, SequencesExt

CONSTANTS QueueName,    \* the inbound queues kept in cosmos
          NextHeight(_) \* the height that follows a height

VARIABLES height,   \* the last final block
          pushed,   \* per queue, every action ever pushed on it
          head,     \* per queue, how many of them the kernel has been given
          out       \* what the kernel's cranks sent to cosmos, in order

chainVars == <<height, pushed, head, out>>

Init ==
  /\ height = 0
  /\ pushed = [q \in QueueName |-> <<>>]
  /\ head = [q \in QueueName |-> 0]
  /\ out = <<>>

(* The actions of a queue that the kernel has been given. *)
Given(p, h) == UNION {{p[q][i] : i \in 1..h[q]} : q \in QueueName}

(* A crank on behalf of a queued action may only come after the action was *)
(* taken off its queue; cranks of forced actions and timers have no queue. *)
Caused(crank, p, h) ==
  crank.action.kind \in QueueName => crank.action \in Given(p, h)

(* One block: the queues grow at the tail and shrink at the head, and the  *)
(* cranks that ran are appended, none of them twice and none uncaused.     *)
Block ==
  /\ height' = NextHeight(height)
  /\ \A q \in QueueName :
       /\ IsPrefix(pushed[q], pushed'[q])
       /\ head[q] <= head'[q]
       /\ head'[q] <= Len(pushed'[q])
  /\ IsPrefix(out, out')
  /\ IsInjective(out')
  /\ \A i \in DOMAIN out' : Caused(out'[i], pushed', head')

Next == Block

Spec == Init /\ [][Next]_chainVars
=============================================================================

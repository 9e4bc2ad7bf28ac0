------------------------------- MODULE Mailbox -------------------------------
(***************************************************************************)
(* Messages between the comms vats of two machines, the chain and a solo   *)
(* node: vat-vattp.js numbers, acknowledges and deduplicates them, the     *)
(* mailbox device (mailbox.js) keeps the outbox and the acknowledgement,   *)
(* and the host of the solo node (start.js, outbound.js and                *)
(* chain-cosmos-sdk.js of packages/solo) saves its state, follows the      *)
(* mailbox of the chain and sends transactions to it, which may be lost or *)
(* overtaken.  The solo node may crash and restart from what it saved.     *)
(***************************************************************************)
EXTENDS Naturals, Sequences, FiniteSets

CONSTANTS
  Bodies,      \* bound: per machine, what its first, second, ... message may say
  TornSaves,   \* whether the solo node may die between the two writes of a save
  MaxTxs,      \* bound: transactions on their way
  MaxCrashes   \* bound: crashes

ASSUME TornSavesAssumption == TornSaves \in BOOLEAN

Solo == "solo"
Chain == "chain"
Machines == {Solo, Chain}
Other(m) == IF m = Solo THEN Chain ELSE Solo
MaxSends(m) == Len(Bodies[m])
AllBodies == UNION UNION {{Bodies[m][n] : n \in DOMAIN Bodies[m]} : m \in Machines}

ASSUME BodiesAssumption == Bodies \in [Machines -> Seq(SUBSET AllBodies)]
ASSUME BoundsAssumption == MaxTxs \in Nat /\ MaxCrashes \in Nat

VARIABLES
  vattp,    \* per machine: its kernel, as far as vattp and comms go
  box,      \* per machine: the mailbox state kept by the host
  disk,     \* per machine: both, as saved last
  phase,    \* of the solo node: "ready", "running", "written", "saved"
  relay,    \* of the solo node: what it sent and has to send to the chain
  txs,      \* transactions on their way to the chain
  published, \* history: the mailboxes of the chain's blocks
  crashes

vars == <<vattp, box, disk, phase, relay, txs, published, crashes>>

-----------------------------------------------------------------------------
(* vattp and the mailbox device.  Messages are a function from numbers to  *)
(* bodies, as the Map of an outbox. *)

None == [n \in {} |-> n]
Without(messages, numbers) == [n \in DOMAIN messages \ numbers |-> messages[n]]
Newer(messages, number) == [n \in {n \in DOMAIN messages : n > number} |-> messages[n]]
Larger(a, b) == IF a < b THEN b ELSE a
Smaller(a, b) == IF a < b THEN a ELSE b
Highest(numbers) == CHOOSE n \in numbers : \A m \in numbers : m <= n

(* By number: exportMailbox sorts them. *)
InOrder(messages) ==
  LET numbers == DOMAIN messages
      Nth(i) == CHOOSE n \in numbers : Cardinality({m \in numbers : m <= n}) = i
  IN [i \in 1..Cardinality(numbers) |-> messages[Nth(i)]]

(* transmit *)
NextNumber(v) == v.added + 1

Transmitted(v, body) == [v EXCEPT !.added = NextNumber(v), !.sent = Append(@, body)]
Added(b, number, body) ==
  [b EXCEPT !.outbox = [n \in DOMAIN @ \cup {number} |-> IF n = number THEN body ELSE @[n]]]

\* Mutants: one that forgets what it delivered, one that skips a message.
FreshOfAll(v, messages) == messages
FreshOfLater(v, messages) == Newer(messages, v.delivered + 1)

(* deliverMessages: only what is newer than what was delivered. *)
Fresh(v, messages) == Newer(messages, v.delivered)

(* got is the history of what comms received. *)
DeliverMessages(v, messages) ==
  IF DOMAIN messages = {} THEN v
  ELSE [v EXCEPT !.delivered = Highest(DOMAIN messages), !.got = @ \o InOrder(messages)]
AckInbound(b, messages) ==
  IF DOMAIN messages = {} THEN b ELSE [b EXCEPT !.ack = Highest(DOMAIN messages)]

(* deliverAck *)
Acked(v, ack) == Larger(v.removed, Smaller(v.added, ack))
DeliverAck(v, ack) == [v EXCEPT !.removed = Acked(v, ack)]
Removed(b, v, ack) == [b EXCEPT !.outbox = Without(@, v.removed + 1 .. Acked(v, ack))]

(* inboundCallback: messages, if there are any, and then the ack. *)
Inbound(queue, messages, ack) ==
  LET deliver == [type |-> "messages", messages |-> messages, ack |-> 0]
      acknowledge == [type |-> "ack", messages |-> None, ack |-> ack]
  IN IF DOMAIN messages = {} THEN Append(queue, acknowledge)
     ELSE queue \o <<deliver, acknowledge>>

-----------------------------------------------------------------------------
(* The relay of the solo node *)

NoRelay == [pool |-> None, highestSent |-> 0, ack |-> 0, sending |-> FALSE]

(* deliver of outbound.js: what this process has not sent yet joins the    *)
(* pool, in which the older of two messages with one number stays.         *)
Outbound(r, b) ==
  LET new == Newer(b.outbox, r.highestSent)
      pool == [n \in DOMAIN r.pool \cup DOMAIN new |->
                 IF n \in DOMAIN r.pool THEN r.pool[n] ELSE new[n]]
  IN [r EXCEPT !.pool = pool, !.ack = Larger(@, b.ack),
               !.highestSent = IF DOMAIN new = {} THEN @ ELSE Highest(DOMAIN new),
               !.sending = @ \/ DOMAIN new # {}]

-----------------------------------------------------------------------------
(* Machines at work *)

NewVattp == [added |-> 0, removed |-> 0, delivered |-> 0, queue |-> <<>>,
             sent |-> <<>>, got |-> <<>>]
NewBox == [outbox |-> None, ack |-> 0]

Init ==
  /\ vattp = [m \in Machines |-> NewVattp]
  /\ box = [m \in Machines |-> NewBox]
  /\ disk = [m \in Machines |-> [vattp |-> NewVattp, box |-> NewBox]]
  /\ phase = "ready"
  /\ relay = NoRelay
  /\ txs = {}
  /\ published = {NewBox}
  /\ crashes = 0

(* Comms sends a body: on an input from outside, or in the course of a run. *)
Transmit(m, body) ==
  /\ m = Solo => phase \in {"ready", "running"}
  /\ vattp' = [vattp EXCEPT ![m] = Transmitted(@, body)]
  /\ box' = [box EXCEPT ![m] = Added(@, NextNumber(vattp[m]), body)]
  /\ phase' = IF m = Solo THEN "running" ELSE phase
  /\ UNCHANGED <<disk, relay, txs, published, crashes>>

(* The next delivery to vattp. *)
Process(m) ==
  /\ vattp[m].queue # <<>>
  /\ m = Solo => phase = "running"
  /\ LET d == Head(vattp[m].queue)
         v == [vattp[m] EXCEPT !.queue = Tail(@)]
         fresh == Fresh(v, d.messages)
     IN IF d.type = "messages"
        THEN /\ vattp' = [vattp EXCEPT ![m] = DeliverMessages(v, fresh)]
             /\ box' = [box EXCEPT ![m] = AckInbound(@, fresh)]
        ELSE /\ vattp' = [vattp EXCEPT ![m] = DeliverAck(v, d.ack)]
             /\ box' = [box EXCEPT ![m] = Removed(@, v, d.ack)]
  /\ UNCHANGED <<disk, phase, relay, txs, published, crashes>>

-----------------------------------------------------------------------------
(* The solo node *)

(* recurseEachMailboxUpdate: one of the mailboxes of the chain, not always *)
(* the newest: another server may lag behind. *)
ReadMailbox(b) ==
  /\ phase = "ready"
  /\ phase' = "running"
  /\ vattp' = [vattp EXCEPT ![Solo].queue = Inbound(@, b.outbox, b.ack)]
  /\ relay' = [relay EXCEPT !.pool = Newer(@, b.ack)]
  /\ UNCHANGED <<box, disk, txs, published, crashes>>

(* saveState: the file of the mailbox, *)
SaveMailbox ==
  /\ phase = "running" /\ vattp[Solo].queue = <<>>
  /\ phase' = "written"
  /\ disk' = [disk EXCEPT ![Solo].box = box[Solo]]
  /\ UNCHANGED <<vattp, box, relay, txs, published, crashes>>

(* and the kernel's database. *)
SaveKernel ==
  /\ phase = "written"
  /\ phase' = "saved"
  /\ disk' = [disk EXCEPT ![Solo].vattp = vattp[Solo]]
  /\ UNCHANGED <<vattp, box, relay, txs, published, crashes>>

\* Mutant: before the save.
DeliverOutboundEarly ==
  /\ phase \in {"running", "saved"}
  /\ phase' = IF phase = "saved" THEN "ready" ELSE phase
  /\ relay' = Outbound(relay, box[Solo])
  /\ UNCHANGED <<vattp, box, disk, txs, published, crashes>>

(* deliverOutbound *)
DeliverOutbound ==
  /\ phase = "saved"
  /\ phase' = "ready"
  /\ relay' = Outbound(relay, box[Solo])
  /\ UNCHANGED <<vattp, box, disk, txs, published, crashes>>

(* sendFromMessagePool: the whole pool goes into a transaction. *)
SendFromMessagePool ==
  /\ relay.sending /\ Cardinality(txs) < MaxTxs
  /\ relay' = [relay EXCEPT !.sending = FALSE]
  /\ txs' = txs \cup {[messages |-> relay.pool, ack |-> relay.ack]}
  /\ UNCHANGED <<vattp, box, disk, phase, published, crashes>>

\* Mutant: a failed transaction is not tried again.
RetryNever(r) == r

(* failedSend *)
Retry(r) == [r EXCEPT !.sending = TRUE]

LoseTransaction(tx) ==
  /\ txs' = txs \ {tx}
  /\ relay' = Retry(relay)
  /\ UNCHANGED <<vattp, box, disk, phase, published, crashes>>

(* What lives in the process is lost; the next one starts from the disk    *)
(* and delivers the outbox it finds there. *)
Restarted == Outbound(NoRelay, disk[Solo].box)
Crash ==
  /\ crashes < MaxCrashes
  /\ phase = "written" => TornSaves
  /\ vattp' = [vattp EXCEPT ![Solo] = disk[Solo].vattp]
  /\ box' = [box EXCEPT ![Solo] = disk[Solo].box]
  /\ phase' = "ready"
  /\ relay' = Restarted
  /\ crashes' = crashes + 1
  /\ UNCHANGED <<disk, txs, published>>

-----------------------------------------------------------------------------
(* The chain *)

(* DELIVER_INBOUND, once the transaction is in a block. *)
IncludeTransaction(tx) ==
  /\ vattp[Chain].queue = <<>>
  /\ txs' = txs \ {tx}
  /\ vattp' = [vattp EXCEPT ![Chain].queue = Inbound(@, tx.messages, tx.ack)]
  /\ UNCHANGED <<box, disk, phase, relay, published, crashes>>

(* The end of a block saves the mailbox with the rest of the state.  A     *)
(* node that crashes executes the block again: the chain loses nothing.    *)
CommitBlock ==
  /\ disk' = [disk EXCEPT ![Chain] = [vattp |-> vattp[Chain], box |-> box[Chain]]]
  /\ published' = published \cup {box[Chain]}
  /\ disk' # disk
  /\ UNCHANGED <<vattp, box, phase, relay, txs, crashes>>

SoloStep == Process(Solo) \/ SaveMailbox \/ SaveKernel \/ DeliverOutbound

Next ==
  \/ \E m \in Machines : /\ vattp[m].added < MaxSends(m)
                        /\ \E body \in Bodies[m][vattp[m].added + 1] : Transmit(m, body)
  \/ SoloStep \/ SendFromMessagePool
  \/ \E b \in published : ReadMailbox(b)
  \/ \E tx \in txs : LoseTransaction(tx) \/ IncludeTransaction(tx)
  \/ Process(Chain) \/ CommitBlock
  \/ Crash

Spec == Init /\ [][Next]_vars

(* Both machines go on, transactions that are tried again and again get    *)
(* into a block, and the solo node keeps hearing of the newest mailbox.    *)
Fairness ==
  /\ WF_vars(SoloStep) /\ WF_vars(SendFromMessagePool)
  /\ WF_vars(Process(Chain)) /\ WF_vars(CommitBlock)
  /\ SF_vars(\E tx \in txs : IncludeTransaction(tx))
  /\ SF_vars(ReadMailbox(disk[Chain].box))

FairSpec == Spec /\ Fairness
=============================================================================

-------------------------- MODULE MailboxProperties --------------------------
(***************************************************************************)
(* What must hold of the messages between the chain and a solo node.       *)
(***************************************************************************)
EXTENDS Mailbox

Begins(s, t) == Len(s) <= Len(t) /\ \A i \in 1..Len(s) : s[i] = t[i]

(* What comms has received on one machine is what the other one has sent,  *)
(* in order, without a gap and once, and the sender will not forget it in  *)
(* a crash: whatever was lost, retried, read late or read twice.           *)
ReceivedIsSent ==
  \A m \in Machines : Begins(vattp[m].got, disk[Other(m)].vattp.sent)

(* No message is on its way to the chain before the kernel that sent it is *)
(* saved, so that no crash can unsend it: packages/SwingSet/docs/          *)
(* host-app.md:17, "Output messages (in fact all communication with the    *)
(* outside world) must be embargoed until all consequences of an inbound   *)
(* delivery have been durably committed". *)
OutputIsEmbargoed ==
  LET sent == disk[Solo].vattp.sent
  IN \A tx \in txs : \A n \in DOMAIN tx.messages :
       n <= Len(sent) /\ tx.messages[n] = sent[n]

(* A message that was sent for good is still in the saved outbox of its    *)
(* sender until the receiver has it for good: no acknowledgement leaves    *)
(* before what it acknowledges is saved, and no crash loses both copies.   *)
NothingIsLost ==
  \A m \in Machines :
    LET sent == disk[m].vattp.sent
        have == Len(disk[Other(m)].vattp.got)
    IN \A n \in have + 1 .. Len(sent) :
         n \in DOMAIN disk[m].box.outbox /\ disk[m].box.outbox[n] = sent[n]

(* Mailboxes, pools, transactions, blocks and crashes together are two     *)
(* reliable channels of what the machines have saved. *)
ReliableChannel ==
  INSTANCE Channel WITH Bodies <- AllBodies,
                        sent <- [m \in Machines |-> disk[m].vattp.sent],
                        got <- [m \in Machines |-> disk[m].vattp.got]
RefinesChannel == ReliableChannel!Spec

(* Every message that was sent for good arrives. *)
EverySendArrives ==
  \A m \in Machines : \A n \in 1..MaxSends(m) :
    n <= Len(disk[m].vattp.sent) ~> n <= Len(disk[Other(m)].vattp.got)
=============================================================================

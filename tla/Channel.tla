------------------------------- MODULE Channel -------------------------------
(***************************************************************************)
(* What the mailboxes of two machines promise to their comms vats: a       *)
(* reliable channel in each direction.  What is received is what was sent, *)
(* in order, once, and neither is ever taken back.                         *)
(***************************************************************************)
EXTENDS Naturals, Sequences

CONSTANTS Machines, Bodies

VARIABLES
  sent,  \* per machine, the bodies it has sent for good
  got    \* per machine, the bodies it has received for good

Begins(s, t) == Len(s) <= Len(t) /\ \A i \in 1..Len(s) : s[i] = t[i]

Init ==
  /\ sent = [m \in Machines |-> <<>>]
  /\ got = [m \in Machines |-> <<>>]

(* A machine makes a piece of work durable, in which it sent and received  *)
(* any number of messages.                                                 *)
Work(m) ==
  /\ sent' \in [Machines -> Seq(Bodies)] /\ got' \in [Machines -> Seq(Bodies)]
  /\ Begins(sent[m], sent'[m]) /\ Begins(got[m], got'[m])
  /\ \A n \in Machines \ {m} :
       sent'[n] = sent[n] /\ got'[n] = got[n] /\ Begins(got'[m], sent[n])

Spec == Init /\ [][\E m \in Machines : Work(m)]_<<sent, got>>
=============================================================================

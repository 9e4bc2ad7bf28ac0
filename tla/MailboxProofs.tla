---------------------------- MODULE MailboxProofs ----------------------------
(***************************************************************************)
(* The mailboxes are reliable channels: for any number of messages,        *)
(* transactions and crashes, provided that no process dies between the two *)
(* writes of a save.                                                       *)
(***************************************************************************)
EXTENDS MailboxProperties, FiniteSetTheorems, SequenceTheorems, TLAPS

Messages == UNION {[S -> AllBodies] : S \in SUBSET (Nat \ {0})}
Delivery == [type : {"messages", "ack"}, messages : Messages, ack : Nat]
Vattp == [added : Nat, removed : Nat, delivered : Nat, queue : Seq(Delivery),
          sent : Seq(AllBodies), got : Seq(AllBodies)]
Box == [outbox : Messages, ack : Nat]
Transaction == [messages : Messages, ack : Nat]
Relay == [pool : Messages, highestSent : Nat, ack : Nat, sending : BOOLEAN]

TypeInv ==
  /\ vattp \in [Machines -> Vattp]
  /\ box \in [Machines -> Box]
  /\ disk \in [Machines -> [vattp : Vattp, box : Box]]
  /\ phase \in {"ready", "running", "written", "saved"}
  /\ relay \in Relay
  /\ txs \in SUBSET Transaction
  /\ published \in SUBSET Box

(* The numbers of vattp count what was sent and received, *)
Counted(v) ==
  v.added = Len(v.sent) /\ v.delivered = Len(v.got) /\ v.removed <= v.added

(* and its mailbox keeps what is not removed. *)
Kept(v, b) ==
  /\ DOMAIN b.outbox = v.removed + 1 .. v.added
  /\ \A n \in DOMAIN b.outbox : b.outbox[n] = v.sent[n]
  /\ b.ack = v.delivered

(* Messages without a gap, from at most what the receiver has. *)
IsBatch(messages, have, sent) ==
  \E lo \in 0..have, hi \in Nat :
    /\ DOMAIN messages = lo + 1 .. hi
    /\ \A n \in lo + 1 .. hi : n <= Len(sent) /\ messages[n] = sent[n]

Sent(m) == disk[m].vattp.sent
Has(m) == disk[m].vattp.delivered

-----------------------------------------------------------------------------
(* Batches *)

LEMMA BeginsTransitive ==
  ASSUME NEW S, NEW r \in Seq(S), NEW s \in Seq(S), NEW t \in Seq(S),
         Begins(r, s), Begins(s, t)
  PROVE  Begins(r, t)
BY DEF Begins

LEMMA BeginsReflexive ==
  ASSUME NEW S, NEW s \in Seq(S)
  PROVE  Begins(s, s)
BY DEF Begins

LEMMA BatchStays ==
  ASSUME NEW S, NEW s \in Seq(S), NEW t \in Seq(S), Begins(s, t),
         NEW have \in Nat, NEW more \in Nat, have <= more,
         NEW messages, IsBatch(messages, have, s)
  PROVE  IsBatch(messages, more, t)
BY SMTT(30) DEF Begins, IsBatch

LEMMA NoneIsBatch ==
  ASSUME NEW s, NEW have \in Nat
  PROVE  None \in Messages /\ IsBatch(None, have, s)
<1>1. None \in [{} -> AllBodies]
  BY DEF None
<1>2. None \in Messages
  <2>1. {} \in SUBSET (Nat \ {0})
    OBVIOUS
  <2> QED BY <1>1, <2>1 DEF Messages
<1>3. DOMAIN None = 0 + 1 .. 0 /\ 0 \in 0..have
  BY DEF None
<1>4. \A n \in 0 + 1 .. 0 : n <= Len(s) /\ None[n] = s[n]
  OBVIOUS
<1> QED BY <1>2, <1>3, <1>4 DEF IsBatch

LEMMA NewerIsBatch ==
  ASSUME NEW messages \in Messages, NEW have \in Nat, NEW s,
         IsBatch(messages, have, s), NEW a \in 0..have
  PROVE  Newer(messages, a) \in Messages /\ IsBatch(Newer(messages, a), have, s)
<1>1. PICK lo \in 0..have, hi \in Nat :
        /\ DOMAIN messages = lo + 1 .. hi
        /\ \A n \in lo + 1 .. hi : n <= Len(s) /\ messages[n] = s[n]
  BY DEF IsBatch
<1> DEFINE from == Larger(lo, a)
<1>2. from \in 0..have
  BY <1>1 DEF Larger
<1>3. DOMAIN Newer(messages, a) = from + 1 .. hi
  BY <1>1 DEF Newer, Larger
<1>4. \A n \in from + 1 .. hi : Newer(messages, a)[n] = messages[n] /\ n \in lo + 1 .. hi
  BY <1>1, <1>3 DEF Newer, Larger
<1>5. Newer(messages, a) \in Messages
  <2>1. PICK S \in SUBSET (Nat \ {0}) : messages \in [S -> AllBodies]
    BY DEF Messages
  <2>2. Newer(messages, a) \in [{n \in S : n > a} -> AllBodies]
    BY <2>1 DEF Newer
  <2> QED BY <2>2 DEF Messages
<1> QED BY <1>1, <1>2, <1>3, <1>4, <1>5 DEF IsBatch

(* exportMailbox gives the messages in the order of their numbers. *)
LEMMA InOrderOfInterval ==
  ASSUME NEW lo \in Nat, NEW hi \in Nat, lo <= hi,
         NEW messages, DOMAIN messages = lo + 1 .. hi
  PROVE  InOrder(messages) = [i \in 1 .. hi - lo |-> messages[lo + i]]
<1> DEFINE numbers == DOMAIN messages
           Upto(n) == {m \in numbers : m <= n}
           Nth(i) == CHOOSE n \in numbers : Cardinality(Upto(n)) = i
<1>1. Cardinality(numbers) = hi - lo
  <2>1. lo + 1 \in Int /\ hi \in Int
    OBVIOUS
  <2>2. Cardinality(lo + 1 .. hi) = IF lo + 1 > hi THEN 0 ELSE hi - (lo + 1) + 1
    BY <2>1, FS_Interval
  <2> QED BY <2>2
<1>2. \A n \in numbers : Cardinality(Upto(n)) = n - lo
  <2> SUFFICES ASSUME NEW n \in numbers PROVE Cardinality(Upto(n)) = n - lo
    OBVIOUS
  <2>1. Upto(n) = lo + 1 .. n
    OBVIOUS
  <2>2. lo + 1 \in Int /\ n \in Int /\ lo + 1 <= n
    OBVIOUS
  <2>3. Cardinality(lo + 1 .. n) = IF lo + 1 > n THEN 0 ELSE n - (lo + 1) + 1
    BY <2>2, FS_Interval
  <2> HIDE DEF Upto
  <2>4. Cardinality(Upto(n)) = Cardinality(lo + 1 .. n)
    BY <2>1
  <2> QED BY <2>2, <2>3, <2>4
<1>3. \A i \in 1 .. hi - lo : Nth(i) = lo + i
  <2> SUFFICES ASSUME NEW i \in 1 .. hi - lo PROVE Nth(i) = lo + i
    OBVIOUS
  <2> HIDE DEF Upto
  <2>1. lo + i \in numbers
    OBVIOUS
  <2>2. Cardinality(Upto(lo + i)) = i
    BY <1>2, <2>1
  <2>3. \A n \in numbers : Cardinality(Upto(n)) = i => n = lo + i
    BY <1>2
  <2> QED BY <2>1, <2>2, <2>3
<1>4. InOrder(messages) = [i \in 1 .. Cardinality(numbers) |-> messages[Nth(i)]]
  BY DEF InOrder
<1> HIDE DEF Nth, numbers
<1> QED BY <1>1, <1>3, <1>4

-----------------------------------------------------------------------------
(* vattp and the mailbox device *)

LEMMA MessagesAreFunctions ==
  ASSUME NEW messages \in Messages
  PROVE  /\ messages \in [DOMAIN messages -> AllBodies]
         /\ DOMAIN messages \in SUBSET (Nat \ {0})
BY DEF Messages

LEMMA FunctionsAreMessages ==
  ASSUME NEW S \in SUBSET (Nat \ {0}), NEW f \in [S -> AllBodies]
  PROVE  f \in Messages
BY DEF Messages

LEMMA TransmitKeeps ==
  ASSUME NEW v \in Vattp, NEW b \in Box, Counted(v), Kept(v, b),
         NEW body \in AllBodies
  PROVE  LET w == Transmitted(v, body)
             c == Added(b, NextNumber(v), body)
         IN /\ w \in Vattp /\ c \in Box /\ Counted(w) /\ Kept(w, c)
            /\ Begins(v.sent, w.sent) /\ w.got = v.got /\ w.queue = v.queue
            /\ w.removed = v.removed /\ w.delivered = v.delivered
<1> DEFINE w == Transmitted(v, body)
           c == Added(b, NextNumber(v), body)
<1>1. /\ w \in Vattp /\ w.sent = Append(v.sent, body) /\ w.added = v.added + 1
      /\ w.got = v.got /\ w.queue = v.queue
      /\ w.removed = v.removed /\ w.delivered = v.delivered
  <2>1. v.sent \in Seq(AllBodies) /\ v.added \in Nat
    BY DEF Vattp
  <2>2. Append(v.sent, body) \in Seq(AllBodies) /\ v.added + 1 \in Nat
    BY <2>1
  <2> DEFINE sent == Append(v.sent, body)
  <2> HIDE DEF sent
  <2>3. w = [v EXCEPT !.added = v.added + 1, !.sent = sent]
    BY DEF Transmitted, NextNumber, sent
  <2>4. sent \in Seq(AllBodies)
    BY <2>2 DEF sent
  <2>5. /\ w \in Vattp /\ w.sent = sent /\ w.added = v.added + 1
        /\ w.got = v.got /\ w.queue = v.queue
        /\ w.removed = v.removed /\ w.delivered = v.delivered
    BY <2>2, <2>3, <2>4 DEF Vattp
  <2> QED BY <2>5 DEF sent
<1>2. /\ Len(w.sent) = v.added + 1 /\ w.sent[v.added + 1] = body
      /\ \A n \in 1..v.added : w.sent[n] = v.sent[n]
  BY <1>1 DEF Vattp, Counted
<1>3. Counted(w) /\ Begins(v.sent, w.sent)
  BY <1>1, <1>2 DEF Counted, Begins, Vattp
<1>4. /\ c.ack = b.ack
      /\ c.outbox = [n \in DOMAIN b.outbox \cup {v.added + 1} |->
                       IF n = v.added + 1 THEN body ELSE b.outbox[n]]
  BY DEF Added, NextNumber, Box
<1>5. DOMAIN c.outbox = v.removed + 1 .. v.added + 1
  BY <1>4 DEF Kept, Counted, Vattp
<1>6. Kept(w, c)
  BY <1>1, <1>2, <1>4, <1>5 DEF Kept, Counted, Vattp
<1>7. c \in Box
  <2>1. b.outbox \in [DOMAIN b.outbox -> AllBodies]
    BY MessagesAreFunctions DEF Box
  <2>2. c.outbox \in [v.removed + 1 .. v.added + 1 -> AllBodies]
    BY <1>4, <1>5, <2>1
  <2>3. v.removed + 1 .. v.added + 1 \in SUBSET (Nat \ {0})
    BY DEF Vattp
  <2>4. c.outbox \in Messages
    BY <2>2, <2>3, FunctionsAreMessages
  <2> QED BY <2>4 DEF Added, Box
<1> HIDE DEF w, c
<1>8. /\ w \in Vattp /\ c \in Box /\ Counted(w) /\ Kept(w, c)
      /\ Begins(v.sent, w.sent) /\ w.got = v.got /\ w.queue = v.queue
      /\ w.removed = v.removed /\ w.delivered = v.delivered
  BY <1>1, <1>3, <1>6, <1>7
<1> QED BY <1>8 DEF w, c

(* What vattp takes of a batch starts where it stopped. *)
LEMMA FreshIsNext ==
  ASSUME NEW v \in Vattp, NEW s, NEW have \in 0..v.delivered,
         NEW messages \in Messages, IsBatch(messages, have, s),
         DOMAIN Fresh(v, messages) # {}
  PROVE  \E hi \in Nat :
           /\ v.delivered < hi
           /\ DOMAIN Fresh(v, messages) = v.delivered + 1 .. hi
           /\ \A n \in v.delivered + 1 .. hi :
                n <= Len(s) /\ Fresh(v, messages)[n] = s[n]
<1>1. PICK lo \in 0..have, hi \in Nat :
        /\ DOMAIN messages = lo + 1 .. hi
        /\ \A n \in lo + 1 .. hi : n <= Len(s) /\ messages[n] = s[n]
  BY DEF IsBatch
<1>2. v.delivered \in Nat /\ lo <= v.delivered
  BY <1>1 DEF Vattp
<1>3. DOMAIN Fresh(v, messages) = v.delivered + 1 .. hi
  BY <1>1, <1>2 DEF Fresh, Newer
<1>4. \A n \in v.delivered + 1 .. hi : Fresh(v, messages)[n] = messages[n]
  BY <1>1, <1>2, <1>3 DEF Fresh, Newer
<1> QED BY <1>1, <1>2, <1>3, <1>4

LEMMA HighestOfInterval ==
  ASSUME NEW lo \in Nat, NEW hi \in Nat, lo < hi
  PROVE  Highest(lo + 1 .. hi) = hi
<1>1. hi \in lo + 1 .. hi /\ \A m \in lo + 1 .. hi : m <= hi
  OBVIOUS
<1>2. \A n \in lo + 1 .. hi : (\A m \in lo + 1 .. hi : m <= n) => n = hi
  OBVIOUS
<1> QED BY <1>1, <1>2 DEF Highest

LEMMA ReceiveKeeps ==
  ASSUME NEW v \in Vattp, NEW b \in Box, Counted(v), Kept(v, b),
         NEW s \in Seq(AllBodies), Begins(v.got, s), NEW have \in 0..v.delivered,
         NEW messages \in Messages, IsBatch(messages, have, s)
  PROVE  LET w == DeliverMessages(v, Fresh(v, messages))
             c == AckInbound(b, Fresh(v, messages))
         IN /\ w \in Vattp /\ c \in Box /\ Counted(w) /\ Kept(w, c)
            /\ Begins(v.got, w.got) /\ Begins(w.got, s)
            /\ w.sent = v.sent /\ w.queue = v.queue /\ w.removed = v.removed
            /\ v.delivered <= w.delivered
<1> DEFINE fresh == Fresh(v, messages)
           w == DeliverMessages(v, fresh)
           c == AckInbound(b, fresh)
<1>1. CASE DOMAIN fresh = {}
  <2>1. w = v /\ c = b
    BY <1>1 DEF DeliverMessages, AckInbound
  <2>2. v.got \in Seq(AllBodies) /\ v.delivered \in Nat
    BY DEF Vattp
  <2>3. Begins(v.got, v.got)
    BY <2>2, BeginsReflexive
  <2> HIDE DEF w, c
  <2>4. /\ w \in Vattp /\ c \in Box /\ Counted(w) /\ Kept(w, c)
        /\ Begins(v.got, w.got) /\ Begins(w.got, s)
        /\ w.sent = v.sent /\ w.queue = v.queue /\ w.removed = v.removed
        /\ v.delivered <= w.delivered
    BY <2>1, <2>2, <2>3
  <2> QED BY <2>4 DEF w, c
<1>2. CASE DOMAIN fresh # {}
  <2>1. PICK hi \in Nat :
          /\ v.delivered < hi
          /\ DOMAIN fresh = v.delivered + 1 .. hi
          /\ \A n \in v.delivered + 1 .. hi : n <= Len(s) /\ fresh[n] = s[n]
    BY <1>2, FreshIsNext
  <2>2. v.delivered \in Nat /\ v.got \in Seq(AllBodies) /\ Len(v.got) = v.delivered
    BY DEF Vattp, Counted
  <2>3. Highest(DOMAIN fresh) = hi
    BY <2>1, <2>2, HighestOfInterval
  <2> DEFINE added == [i \in 1 .. hi - v.delivered |-> fresh[v.delivered + i]]
  <2>4. InOrder(fresh) = added
    <3> HIDE DEF fresh
    <3>1. v.delivered \in Nat /\ v.delivered <= hi
      BY <2>1, <2>2
    <3>2. DOMAIN fresh = v.delivered + 1 .. hi
      BY <2>1
    <3>3. ASSUME NEW lo \in Nat, lo <= hi, DOMAIN fresh = lo + 1 .. hi
          PROVE  InOrder(fresh) = [i \in 1 .. hi - lo |-> fresh[lo + i]]
      BY <3>3, InOrderOfInterval
    <3>4. InOrder(fresh) = [i \in 1 .. hi - v.delivered |-> fresh[v.delivered + i]]
      BY <3>1, <3>2, <3>3
    <3> QED BY <3>4
  <2>5. \A i \in 1 .. hi - v.delivered :
          v.delivered + i <= Len(s) /\ added[i] = s[v.delivered + i]
    <3> SUFFICES ASSUME NEW i \in 1 .. hi - v.delivered
                 PROVE  /\ v.delivered + i <= Len(s)
                        /\ added[i] = s[v.delivered + i]
      OBVIOUS
    <3> HIDE DEF fresh
    <3>1. v.delivered + i \in v.delivered + 1 .. hi
      BY <2>1, <2>2
    <3>2. v.delivered + i <= Len(s) /\ fresh[v.delivered + i] = s[v.delivered + i]
      <4> HIDE DEF added
      <4> QED BY <2>1, <3>1
    <3>3. added[i] = fresh[v.delivered + i]
      OBVIOUS
    <3> QED BY <3>2, <3>3
  <2>6. hi <= Len(s)
    <3> HIDE DEF fresh
    <3> QED BY <2>1, <2>2
  <2>7. added \in Seq(AllBodies) /\ Len(added) = hi - v.delivered
    <3>1. \A i \in 1 .. hi - v.delivered : added[i] \in AllBodies
      <4> HIDE DEF added
      <4> QED BY <2>2, <2>5
    <3>2. added \in [1 .. hi - v.delivered -> AllBodies]
      <4> HIDE DEF fresh
      <4> QED BY <3>1
    <3>3. hi - v.delivered \in Nat
      BY <2>1, <2>2
    <3> HIDE DEF added
    <3> QED BY <3>2, <3>3
  <2> HIDE DEF added
  <2>8. /\ w.delivered = hi /\ w.got = v.got \o added
        /\ w.sent = v.sent /\ w.queue = v.queue /\ w.removed = v.removed
        /\ w.added = v.added
    BY <1>2, <2>3, <2>4 DEF DeliverMessages, Vattp
  <2>9. /\ v.got \o added \in Seq(AllBodies) /\ Len(v.got \o added) = hi
        /\ \A i \in 1..hi : (v.got \o added)[i] =
             IF i <= v.delivered THEN v.got[i] ELSE added[i - v.delivered]
    <3>1. /\ v.got \o added \in Seq(AllBodies)
          /\ Len(v.got \o added) = Len(v.got) + Len(added)
          /\ \A i \in 1 .. Len(v.got) + Len(added) : (v.got \o added)[i] =
               IF i <= Len(v.got) THEN v.got[i] ELSE added[i - Len(v.got)]
      BY <2>2, <2>7, ConcatProperties
    <3>2. Len(v.got) + Len(added) = hi
      BY <2>1, <2>2, <2>7
    <3> QED BY <2>2, <3>1, <3>2
  <2>10. w \in Vattp
    BY <1>2, <2>3, <2>4, <2>9 DEF DeliverMessages, Vattp
  <2>11. Begins(v.got, w.got)
    BY <2>1, <2>2, <2>8, <2>9 DEF Begins
  <2>12. Begins(w.got, s)
    <3>1. \A i \in 1..hi : w.got[i] = s[i]
      <4> SUFFICES ASSUME NEW i \in 1..hi PROVE w.got[i] = s[i]
        OBVIOUS
      <4>1. CASE i <= v.delivered
        BY <2>2, <2>8, <2>9, <4>1 DEF Begins
      <4>2. CASE i > v.delivered
        <5>1. i - v.delivered \in 1 .. hi - v.delivered
          BY <2>2, <4>2
        <5>2. added[i - v.delivered] = s[v.delivered + (i - v.delivered)]
          BY <2>5, <5>1
        <5>3. v.delivered + (i - v.delivered) = i
          BY <2>2
        <5>4. w.got[i] = added[i - v.delivered]
          BY <2>2, <2>8, <2>9, <4>2
        <5> QED BY <5>2, <5>3, <5>4
      <4> QED BY <2>2, <4>1, <4>2
    <3> QED BY <2>6, <2>8, <2>9, <3>1 DEF Begins
  <2>13. Counted(w)
    BY <2>8, <2>9 DEF Counted
  <2>14. c.outbox = b.outbox /\ c.ack = hi /\ c \in Box
    BY <1>2, <2>3 DEF AckInbound, Box
  <2>15. Kept(w, c)
    BY <2>8, <2>14 DEF Kept
  <2> HIDE DEF w, c
  <2>16. /\ w \in Vattp /\ c \in Box /\ Counted(w) /\ Kept(w, c)
         /\ Begins(v.got, w.got) /\ Begins(w.got, s)
         /\ w.sent = v.sent /\ w.queue = v.queue /\ w.removed = v.removed
         /\ v.delivered <= w.delivered
    BY <2>1, <2>2, <2>8, <2>10, <2>11, <2>12, <2>13, <2>14, <2>15
  <2> QED BY <2>16 DEF w, c
<1> QED BY <1>1, <1>2

LEMMA AckKeeps ==
  ASSUME NEW v \in Vattp, NEW b \in Box, Counted(v), Kept(v, b), NEW ack \in Nat
  PROVE  LET w == DeliverAck(v, ack)
             c == Removed(b, v, ack)
         IN /\ w \in Vattp /\ c \in Box /\ Counted(w) /\ Kept(w, c)
            /\ w.sent = v.sent /\ w.got = v.got /\ w.queue = v.queue
            /\ w.delivered = v.delivered
            /\ w.removed <= v.removed \/ w.removed <= ack
<1> DEFINE w == DeliverAck(v, ack)
           c == Removed(b, v, ack)
           upto == Acked(v, ack)
<1>1. /\ upto \in Nat /\ v.removed <= upto /\ upto <= v.added
      /\ upto <= v.removed \/ upto <= ack
  BY DEF Acked, Larger, Smaller, Vattp, Counted
<1> HIDE DEF upto
<1>2. /\ w \in Vattp /\ w.sent = v.sent /\ w.got = v.got /\ w.queue = v.queue
      /\ w.delivered = v.delivered /\ w.added = v.added /\ w.removed = upto
  BY <1>1 DEF DeliverAck, Vattp, upto
<1>3. /\ c.ack = b.ack
      /\ c.outbox = [n \in DOMAIN b.outbox \ (v.removed + 1 .. upto) |-> b.outbox[n]]
  BY DEF Removed, Without, Box, upto
<1>4. DOMAIN c.outbox = upto + 1 .. v.added
  BY <1>1, <1>3 DEF Kept, Vattp
<1>5. Kept(w, c) /\ Counted(w)
  BY <1>1, <1>2, <1>3, <1>4 DEF Kept, Counted, Vattp
<1>6. c \in Box
  <2>1. /\ b.outbox \in [DOMAIN b.outbox -> AllBodies]
        /\ DOMAIN b.outbox \in SUBSET (Nat \ {0})
    BY MessagesAreFunctions DEF Box
  <2>2. c.outbox \in [DOMAIN b.outbox \ (v.removed + 1 .. upto) -> AllBodies]
    BY <1>3, <2>1
  <2>3. c.outbox \in Messages
    BY <2>1, <2>2, FunctionsAreMessages
  <2> QED BY <2>3 DEF Removed, Box
<1> HIDE DEF w, c
<1>7. /\ w \in Vattp /\ c \in Box /\ Counted(w) /\ Kept(w, c)
      /\ w.sent = v.sent /\ w.got = v.got /\ w.queue = v.queue
      /\ w.delivered = v.delivered
      /\ w.removed <= v.removed \/ w.removed <= ack
  BY <1>1, <1>2, <1>5, <1>6
<1> QED BY <1>7 DEF w, c

-----------------------------------------------------------------------------
(* The relay: the pool has no gap, and starts at most where the chain is.  *)

IsPool(r, lo, s) ==
  /\ DOMAIN r.pool = lo + 1 .. r.highestSent
  /\ \A n \in lo + 1 .. r.highestSent : n <= Len(s) /\ r.pool[n] = s[n]

LEMMA OutboundKeeps ==
  ASSUME NEW v \in Vattp, NEW b \in Box, Counted(v), Kept(v, b),
         NEW r \in Relay, NEW lo \in Nat, IsPool(r, lo, v.sent),
         v.removed <= lo, NEW have \in Nat, lo <= have
  PROVE  LET q == Outbound(r, b)
         IN /\ q \in Relay
            /\ q.ack = r.ack \/ q.ack = v.delivered
            /\ \E from \in 0..have : v.removed <= from /\ IsPool(q, from, v.sent)
<1> DEFINE new == Newer(b.outbox, r.highestSent)
           first == Larger(v.removed, r.highestSent)
           q == Outbound(r, b)
<1>0. /\ v.removed \in Nat /\ v.added \in Nat /\ v.removed <= v.added
      /\ v.added = Len(v.sent) /\ v.delivered \in Nat
      /\ r.highestSent \in Nat /\ r.ack \in Nat /\ b.ack = v.delivered
  BY DEF Vattp, Relay, Counted, Kept
<1>1. /\ DOMAIN new = first + 1 .. v.added /\ first \in Nat
      /\ \A n \in DOMAIN new : new[n] = v.sent[n]
  BY <1>0 DEF Kept, Newer, Larger
<1>2. new \in [DOMAIN new -> AllBodies] /\ DOMAIN new \in SUBSET (Nat \ {0})
  <2>1. /\ b.outbox \in [DOMAIN b.outbox -> AllBodies]
        /\ DOMAIN b.outbox \in SUBSET (Nat \ {0})
    BY MessagesAreFunctions DEF Box
  <2> QED BY <1>0, <1>1, <2>1 DEF Newer
<1>3. r.pool \in [DOMAIN r.pool -> AllBodies] /\ DOMAIN r.pool \in SUBSET (Nat \ {0})
  BY MessagesAreFunctions DEF Relay
<1> HIDE DEF new
<1> DEFINE pool == [n \in DOMAIN r.pool \cup DOMAIN new |->
                     IF n \in DOMAIN r.pool THEN r.pool[n] ELSE new[n]]
           highest == IF DOMAIN new = {} THEN r.highestSent ELSE Highest(DOMAIN new)
           sending == r.sending \/ DOMAIN new # {}
<1>4. /\ q.pool = pool /\ q.ack = Larger(r.ack, b.ack) /\ q.highestSent = highest
      /\ q.sending \in BOOLEAN
      /\ q = [pool |-> q.pool, highestSent |-> q.highestSent, ack |-> q.ack,
              sending |-> q.sending]
  <2> DEFINE ack == Larger(r.ack, b.ack)
  <2>1. q = [r EXCEPT !.pool = pool, !.ack = ack, !.highestSent = highest, !.sending = sending]
    BY DEF Outbound, new
  <2>2. sending \in BOOLEAN
    OBVIOUS
  <2>3. r = [pool |-> r.pool, highestSent |-> r.highestSent, ack |-> r.ack,
             sending |-> r.sending]
    BY DEF Relay
  <2> HIDE DEF pool, ack, highest, sending, q
  <2>4. q = [pool |-> pool, highestSent |-> highest, ack |-> ack, sending |-> sending]
    BY <2>1, <2>3
  <2>5. q.pool = pool /\ q.ack = ack /\ q.highestSent = highest /\ q.sending = sending
    BY <2>4
  <2>6. q = [pool |-> q.pool, highestSent |-> q.highestSent, ack |-> q.ack,
             sending |-> q.sending]
    BY <2>4, <2>5
  <2>7. q.sending \in BOOLEAN
    BY <2>2, <2>5
  <2> QED BY <2>5, <2>6, <2>7 DEF ack
<1>5. q.pool \in Messages
  <2>1. q.pool \in [DOMAIN r.pool \cup DOMAIN new -> AllBodies]
    BY <1>2, <1>3, <1>4
  <2>2. DOMAIN r.pool \cup DOMAIN new \in SUBSET (Nat \ {0})
    BY <1>2, <1>3
  <2> QED BY <2>1, <2>2, FunctionsAreMessages
<1>6. DOMAIN new # {} => Highest(DOMAIN new) = v.added /\ first < v.added
  <2> SUFFICES ASSUME DOMAIN new # {}
               PROVE  Highest(DOMAIN new) = v.added /\ first < v.added
    OBVIOUS
  <2> HIDE DEF first
  <2>1. first < v.added
    BY <1>0, <1>1
  <2> QED BY <1>0, <1>1, <2>1, HighestOfInterval
<1>7. q.highestSent = IF DOMAIN new = {} THEN r.highestSent ELSE v.added
  BY <1>4, <1>6
<1>8. q \in Relay
  <2>1. q.highestSent \in Nat /\ q.ack \in Nat /\ q.sending \in BOOLEAN
    BY <1>0, <1>4, <1>7 DEF Larger, Relay
  <2> HIDE DEF q
  <2> QED BY <1>4, <1>5, <2>1 DEF Relay
<1>9. q.ack = r.ack \/ q.ack = v.delivered
  BY <1>0, <1>4 DEF Larger
<1>10. \E from \in 0..have : v.removed <= from /\ IsPool(q, from, v.sent)
  <2> HIDE DEF q
  <2>1. DOMAIN q.pool = DOMAIN r.pool \cup DOMAIN new
    BY <1>4
  <2>2. \A n \in DOMAIN q.pool : q.pool[n] = v.sent[n] /\ n <= Len(v.sent)
    <3>1. \A n \in DOMAIN r.pool : r.pool[n] = v.sent[n] /\ n <= Len(v.sent)
      BY DEF IsPool
    <3>2. \A n \in DOMAIN new : new[n] = v.sent[n] /\ n <= Len(v.sent)
      BY <1>0, <1>1
    <3> QED BY <1>4, <2>1, <3>1, <3>2
  <2>3. DOMAIN r.pool = lo + 1 .. r.highestSent
    BY DEF IsPool
  <2>4. CASE DOMAIN new = {}
    <3>1. q.highestSent = r.highestSent /\ DOMAIN q.pool = lo + 1 .. r.highestSent
      BY <1>7, <2>1, <2>3, <2>4
    <3>2. IsPool(q, lo, v.sent)
      BY <2>2, <3>1 DEF IsPool
    <3>3. lo \in 0..have /\ v.removed <= lo
      BY <1>0
    <3> QED BY <3>2, <3>3
  <2>5. CASE DOMAIN new # {} /\ lo <= r.highestSent
    <3>1. DOMAIN new = r.highestSent + 1 .. v.added /\ r.highestSent < v.added
      BY <1>0, <1>1, <1>6, <2>5 DEF Larger
    <3>2. DOMAIN q.pool = lo + 1 .. v.added
      BY <1>0, <2>1, <2>3, <2>5, <3>1
    <3>3. q.highestSent = v.added
      BY <1>7, <2>5
    <3>4. IsPool(q, lo, v.sent)
      BY <2>2, <3>2, <3>3 DEF IsPool
    <3>5. lo \in 0..have /\ v.removed <= lo
      BY <1>0
    <3> QED BY <3>4, <3>5
  <2>6. CASE DOMAIN new # {} /\ ~(lo <= r.highestSent)
    <3>1. DOMAIN q.pool = first + 1 .. v.added
      BY <1>0, <1>1, <2>1, <2>3, <2>6
    <3>2. first \in 0..have /\ v.removed <= first
      BY <1>0, <2>6 DEF Larger
    <3> HIDE DEF first
    <3>3. q.highestSent = v.added
      BY <1>7, <2>6
    <3>4. IsPool(q, first, v.sent)
      BY <2>2, <3>1, <3>3 DEF IsPool
    <3> QED BY <3>2, <3>4
  <2> QED BY <2>4, <2>5, <2>6
<1> HIDE DEF q
<1>11. /\ q \in Relay
       /\ q.ack = r.ack \/ q.ack = v.delivered
       /\ \E from \in 0..have : v.removed <= from /\ IsPool(q, from, v.sent)
  BY <1>8, <1>9, <1>10
<1> QED BY <1>11 DEF q

(* Acknowledged messages leave the pool (ReadMailbox). *)
LEMMA TrimKeeps ==
  ASSUME NEW r \in Relay, NEW lo \in Nat, NEW s, IsPool(r, lo, s), NEW ack \in Nat
  PROVE  LET q == [r EXCEPT !.pool = Newer(@, ack)]
         IN q \in Relay /\ IsPool(q, Larger(lo, ack), s) /\ q.ack = r.ack
<1> DEFINE q == [r EXCEPT !.pool = Newer(@, ack)]
<1>1. /\ q.pool = Newer(r.pool, ack) /\ q.highestSent = r.highestSent
      /\ q.ack = r.ack /\ r.highestSent \in Nat
  BY DEF Relay
<1>2. DOMAIN q.pool = Larger(lo, ack) + 1 .. r.highestSent
  BY <1>1 DEF IsPool, Newer, Larger
<1>3. IsPool(q, Larger(lo, ack), s)
  BY <1>1, <1>2 DEF IsPool, Newer, Larger
<1>4. q.pool \in Messages
  <2>1. r.pool \in [DOMAIN r.pool -> AllBodies] /\ DOMAIN r.pool \in SUBSET (Nat \ {0})
    BY MessagesAreFunctions DEF Relay
  <2>2. q.pool \in [{n \in DOMAIN r.pool : n > ack} -> AllBodies]
    BY <1>1, <2>1 DEF Newer
  <2> QED BY <2>1, <2>2, FunctionsAreMessages
<1>5. q \in Relay
  BY <1>4 DEF Relay
<1> QED BY <1>1, <1>3, <1>5

-----------------------------------------------------------------------------
(* The invariant *)

(* Each machine's numbers and mailbox agree with what it sent and got. *)
VattpInv ==
  /\ \A m \in Machines : Counted(vattp[m]) /\ Counted(disk[m].vattp)
                         /\ Kept(vattp[m], box[m])
  /\ Kept(disk[Chain].vattp, disk[Chain].box)

(* Between inputs the disk of the solo node is what it has in memory. *)
SaveInv ==
  /\ phase \in {"ready", "saved"} =>
       disk[Solo].vattp = vattp[Solo] /\ disk[Solo].box = box[Solo]
  /\ phase = "written" => disk[Solo].box = box[Solo]
  /\ phase # "written" => Kept(disk[Solo].vattp, disk[Solo].box)
  /\ phase # "running" => vattp[Solo].queue = <<>>
  /\ disk[Solo].vattp.queue = <<>>

(* What is in memory goes on from what is saved, has received no more than *)
(* the other machine has saved, and has removed no more than that machine  *)
(* has received for good. *)
GrowInv ==
  \A m \in Machines :
    /\ Begins(Sent(m), vattp[m].sent)
    /\ Begins(disk[m].vattp.got, vattp[m].got)
    /\ Begins(vattp[m].got, Sent(Other(m)))
    /\ vattp[m].removed <= Has(Other(m))
    /\ disk[m].vattp.removed <= Has(Other(m))

(* Whatever is on its way to m, however old, starts where m is or before,  *)
(* and says nothing that is not saved. *)
InTransit(messages, ack, m) ==
  IsBatch(messages, Has(m), Sent(Other(m))) /\ ack <= Has(Other(m))

WireInv ==
  /\ \A m \in Machines : \A i \in 1..Len(vattp[m].queue) :
       InTransit(vattp[m].queue[i].messages, vattp[m].queue[i].ack, m)
  /\ \A tx \in txs : InTransit(tx.messages, tx.ack, Chain)
  /\ \A b \in published : InTransit(b.outbox, b.ack, Solo)
  /\ relay.ack <= Has(Solo)

PoolInv ==
  \E lo \in 0..Has(Chain) :
    /\ IsPool(relay, lo, Sent(Solo))
    /\ vattp[Solo].removed <= lo
    /\ \A i \in 1..Len(vattp[Solo].queue) : vattp[Solo].queue[i].ack <= lo

Inv == TypeInv /\ VattpInv /\ SaveInv /\ GrowInv /\ WireInv /\ PoolInv

LEMMA OtherMachine ==
  ASSUME NEW m \in Machines
  PROVE  /\ Other(m) \in Machines /\ Other(m) # m /\ Other(Other(m)) = m
         /\ \A n \in Machines : n # m => n = Other(m)
BY DEF Machines, Other, Solo, Chain

(* The types of a machine's part of the state. *)
LEMMA MachineTypes ==
  ASSUME TypeInv, NEW m \in Machines
  PROVE  /\ vattp[m] \in Vattp /\ box[m] \in Box
         /\ disk[m].vattp \in Vattp /\ disk[m].box \in Box
         /\ Has(m) \in Nat /\ Sent(m) \in Seq(AllBodies)
         /\ disk[m] = [vattp |-> disk[m].vattp, box |-> disk[m].box]
BY DEF TypeInv, Has, Sent, Vattp

LEMMA QueueTypes ==
  ASSUME TypeInv
  PROVE  \A m \in Machines : \A i \in 1..Len(vattp[m].queue) :
           /\ vattp[m].queue[i].messages \in Messages
           /\ vattp[m].queue[i].ack \in Nat
<1> SUFFICES ASSUME NEW m \in Machines, NEW i \in 1..Len(vattp[m].queue)
             PROVE  vattp[m].queue[i] \in Delivery
  BY DEF Delivery
<1>1. vattp[m].queue \in Seq(Delivery)
  BY MachineTypes DEF Vattp
<1> QED BY <1>1

(* A machine never has less than it saved. *)
LEMMA HasIsKept ==
  ASSUME Inv, NEW m \in Machines
  PROVE  Has(m) \in 0..vattp[m].delivered
<1>1. vattp[m] \in Vattp /\ disk[m].vattp \in Vattp
  BY MachineTypes DEF Inv
<1>2. /\ vattp[m].delivered = Len(vattp[m].got)
      /\ disk[m].vattp.delivered = Len(disk[m].vattp.got)
      /\ Begins(disk[m].vattp.got, vattp[m].got)
  BY DEF Inv, VattpInv, GrowInv, Counted
<1> QED BY <1>1, <1>2 DEF Begins, Has, Vattp

(* As long as the disks do not change, what is in transit stays so. *)
LEMMA TransitStays ==
  ASSUME UNCHANGED disk, NEW messages, NEW ack, NEW m, InTransit(messages, ack, m)
  PROVE  InTransit(messages, ack, m)'
BY DEF InTransit, Has, Sent

LEMMA InitInv == Init => Inv
<1> SUFFICES ASSUME Init PROVE Inv
  OBVIOUS
<1> USE DEF Init
<1>1. None \in Messages /\ DOMAIN None = {}
  BY NoneIsBatch DEF None
<1>2. <<>> \in Seq(AllBodies) /\ <<>> \in Seq(Delivery) /\ Len(<<>>) = 0
  OBVIOUS
<1>3. NewVattp \in Vattp /\ NewBox \in Box /\ NoRelay \in Relay
  BY <1>1, <1>2 DEF NewVattp, NewBox, NoRelay, Vattp, Box, Relay
<1>4. TypeInv
  BY <1>3 DEF TypeInv
<1>5. Counted(NewVattp) /\ Kept(NewVattp, NewBox)
  BY <1>1, <1>2 DEF Counted, Kept, NewVattp, NewBox
<1>6. VattpInv
  BY <1>5 DEF VattpInv, Machines
<1>7. SaveInv
  BY <1>5 DEF SaveInv, Machines, NewVattp
<1>8. \A m \in Machines : Has(m) = 0 /\ Sent(m) = <<>>
  BY DEF Has, Sent, NewVattp
<1>9. GrowInv
  BY <1>2, <1>8, OtherMachine DEF GrowInv, Begins, NewVattp
<1>10. InTransit(None, 0, Solo)
  BY <1>8, NoneIsBatch, OtherMachine DEF InTransit, Machines
<1>11. WireInv
  BY <1>2, <1>8, <1>10 DEF WireInv, NewVattp, NewBox, NoRelay, Machines
<1>12. PoolInv
  <2>1. IsPool(NoRelay, 0, <<>>)
    BY <1>1 DEF IsPool, NoRelay
  <2> QED BY <1>2, <1>8, <2>1 DEF PoolInv, NewVattp, Machines
<1> QED BY <1>4, <1>6, <1>7, <1>9, <1>11, <1>12 DEF Inv

-----------------------------------------------------------------------------
(* Steps of a machine in memory *)

(* One delivery or send, w and c being what becomes of vattp and mailbox.  *)
LEMMA MachineStep ==
  ASSUME Inv, NEW m \in Machines, NEW w \in Vattp, NEW c \in Box,
         Counted(w), Kept(w, c),
         Begins(vattp[m].sent, w.sent), Begins(vattp[m].got, w.got),
         Begins(w.got, Sent(Other(m))), w.removed <= Has(Other(m)),
         w.removed <= vattp[m].removed
           \/ \E i \in 1..Len(vattp[m].queue) : w.removed <= vattp[m].queue[i].ack,
         \A i \in 1..Len(w.queue) :
           \E j \in 1..Len(vattp[m].queue) : w.queue[i] = vattp[m].queue[j],
         vattp' = [vattp EXCEPT ![m] = w], box' = [box EXCEPT ![m] = c],
         m = Solo => phase \in {"ready", "running"} /\ phase' = "running",
         m # Solo => UNCHANGED phase,
         UNCHANGED <<disk, relay, txs, published>>
  PROVE  Inv'
<1>1. /\ vattp \in [Machines -> Vattp] /\ box \in [Machines -> Box]
      /\ vattp'[m] = w /\ box'[m] = c
      /\ \A n \in Machines \ {m} : vattp'[n] = vattp[n] /\ box'[n] = box[n]
  BY DEF Inv, TypeInv
<1>2. TypeInv'
  BY <1>1 DEF Inv, TypeInv
<1>3. VattpInv'
  BY <1>1 DEF Inv, VattpInv
<1>4. \A n \in Machines : Has(n)' = Has(n) /\ Sent(n)' = Sent(n)
  BY DEF Has, Sent
<1>5. SaveInv'
  <2>1. Solo \in Machines
    BY DEF Machines
  <2>2. CASE m = Solo
    BY <2>2 DEF Inv, SaveInv
  <2>3. CASE m # Solo
    BY <1>1, <2>1, <2>3 DEF Inv, SaveInv
  <2> QED BY <2>2, <2>3
<1>6. GrowInv'
  <2>1. GrowInv
    BY DEF Inv
  <2>2. /\ Begins(Sent(m), w.sent) /\ Begins(disk[m].vattp.got, w.got)
    <3>1. /\ Sent(m) \in Seq(AllBodies) /\ vattp[m].sent \in Seq(AllBodies)
          /\ w.sent \in Seq(AllBodies) /\ w.got \in Seq(AllBodies)
          /\ disk[m].vattp.got \in Seq(AllBodies) /\ vattp[m].got \in Seq(AllBodies)
      BY MachineTypes DEF Inv, Vattp
    <3> QED BY <2>1, <3>1, BeginsTransitive DEF GrowInv
  <2> SUFFICES ASSUME NEW n \in Machines
               PROVE  /\ Begins(Sent(n), vattp[n].sent)'
                      /\ Begins(disk[n].vattp.got, vattp[n].got)'
                      /\ Begins(vattp[n].got, Sent(Other(n)))'
                      /\ (vattp[n].removed <= Has(Other(n)))'
                      /\ (disk[n].vattp.removed <= Has(Other(n)))'
    BY DEF GrowInv
  <2>3. Other(n) \in Machines
    BY OtherMachine
  <2>4. CASE n = m
    BY <1>1, <1>4, <2>1, <2>2, <2>3, <2>4 DEF GrowInv
  <2>5. CASE n # m
    BY <1>1, <1>4, <2>1, <2>3, <2>5 DEF GrowInv
  <2> QED BY <2>4, <2>5
<1>7. WireInv'
  <2>1. WireInv
    BY DEF Inv
  <2>2. \A n \in Machines : \A i \in 1..Len(vattp'[n].queue) :
          \E j \in 1..Len(vattp[n].queue) : vattp'[n].queue[i] = vattp[n].queue[j]
    BY <1>1
  <2>3. \A n \in Machines : \A i \in 1..Len(vattp'[n].queue) :
          InTransit(vattp'[n].queue[i].messages, vattp'[n].queue[i].ack, n)
    BY <2>1, <2>2 DEF WireInv
  <2>4. ASSUME NEW messages, NEW ack, NEW n, InTransit(messages, ack, n)
        PROVE  InTransit(messages, ack, n)'
    BY <2>4, TransitStays
  <2>5. (relay.ack <= Has(Solo))'
    BY <1>4, <2>1 DEF WireInv, Machines
  <2> QED BY <2>1, <2>3, <2>4, <2>5 DEF WireInv, InTransit, Has, Sent
<1>8. PoolInv'
  <2>1. PICK lo \in 0..Has(Chain) :
          /\ IsPool(relay, lo, Sent(Solo))
          /\ vattp[Solo].removed <= lo
          /\ \A i \in 1..Len(vattp[Solo].queue) : vattp[Solo].queue[i].ack <= lo
    BY DEF Inv, PoolInv
  <2>2. Solo \in Machines /\ Chain \in Machines
    BY DEF Machines
  <2>3. lo \in (0..Has(Chain))' /\ IsPool(relay, lo, Sent(Solo))'
    BY <1>4, <2>1, <2>2 DEF IsPool
  <2>4. CASE m = Solo
    <3>1. \A i \in 1..Len(w.queue) : w.queue[i].ack <= lo
      BY <2>1, <2>4
    <3>2. w.removed <= lo
      <4>1. /\ w.removed \in Nat /\ vattp[Solo].removed \in Nat /\ lo \in Nat
            /\ \A i \in 1..Len(vattp[Solo].queue) : vattp[Solo].queue[i].ack \in Nat
        <5>1. vattp[Solo] \in Vattp /\ Has(Chain) \in Nat
          BY <2>2, MachineTypes DEF Inv
        <5>2. vattp[Solo].queue \in Seq(Delivery)
          BY <5>1 DEF Vattp
        <5>3. \A i \in 1..Len(vattp[Solo].queue) : vattp[Solo].queue[i] \in Delivery
          BY <5>2
        <5>4. \A d \in Delivery : d.ack \in Nat
          BY DEF Delivery
        <5>5. w.removed \in Nat /\ vattp[Solo].removed \in Nat
          BY <5>1 DEF Vattp
        <5>6. lo \in Nat
          BY <2>1, <5>1
        <5> QED BY <5>3, <5>4, <5>5, <5>6
      <4> QED BY <2>1, <2>4, <4>1
    <3> QED BY <1>1, <2>3, <2>4, <3>1, <3>2 DEF PoolInv
  <2>5. CASE m # Solo
    BY <1>1, <2>1, <2>2, <2>3, <2>5 DEF PoolInv
  <2> QED BY <2>4, <2>5
<1> QED BY <1>2, <1>3, <1>5, <1>6, <1>7, <1>8 DEF Inv

LEMMA TransmitStep ==
  ASSUME Inv, NEW m \in Machines, NEW body \in AllBodies, Transmit(m, body)
  PROVE  Inv'
<1> DEFINE v == vattp[m]
           w == Transmitted(v, body)
           c == Added(box[m], NextNumber(v), body)
<1>1. v \in Vattp /\ box[m] \in Box /\ Counted(v) /\ Kept(v, box[m])
  BY MachineTypes DEF Inv, VattpInv
<1>2. /\ w \in Vattp /\ c \in Box /\ Counted(w) /\ Kept(w, c)
      /\ Begins(v.sent, w.sent) /\ w.got = v.got /\ w.queue = v.queue
      /\ w.removed = v.removed /\ w.delivered = v.delivered
  BY <1>1, TransmitKeeps
<1>3. /\ vattp' = [vattp EXCEPT ![m] = w] /\ box' = [box EXCEPT ![m] = c]
      /\ m = Solo => phase \in {"ready", "running"} /\ phase' = "running"
      /\ m # Solo => UNCHANGED phase
      /\ UNCHANGED <<disk, relay, txs, published>>
  BY DEF Transmit
<1>4. Begins(v.got, v.got)
  BY <1>1, BeginsReflexive DEF Vattp
<1>5. Begins(v.got, Sent(Other(m))) /\ v.removed <= Has(Other(m))
  BY DEF Inv, GrowInv
<1>6. v.removed <= v.removed
  BY <1>1 DEF Vattp
<1> HIDE DEF w, c
<1> QED BY <1>2, <1>3, <1>4, <1>5, <1>6, MachineStep

LEMMA ProcessStep ==
  ASSUME Inv, NEW m \in Machines, Process(m)
  PROVE  Inv'
<1> DEFINE d == Head(vattp[m].queue)
           v == [vattp[m] EXCEPT !.queue = Tail(@)]
           b == box[m]
           s == Sent(Other(m))
<1>1. vattp[m] \in Vattp /\ b \in Box /\ Counted(vattp[m]) /\ Kept(vattp[m], b)
  BY MachineTypes DEF Inv, VattpInv
<1>2. vattp[m].queue \in Seq(Delivery) /\ vattp[m].queue # <<>>
  BY <1>1 DEF Process, Vattp
<1>3. /\ d \in Delivery /\ d = vattp[m].queue[1] /\ 1 \in 1..Len(vattp[m].queue)
      /\ Tail(vattp[m].queue) \in Seq(Delivery)
      /\ \A i \in 1..Len(Tail(vattp[m].queue)) :
           /\ Tail(vattp[m].queue)[i] = vattp[m].queue[i + 1]
           /\ i + 1 \in 1..Len(vattp[m].queue)
  BY <1>2
<1>4. /\ v \in Vattp /\ v.queue = Tail(vattp[m].queue) /\ v.sent = vattp[m].sent
      /\ v.got = vattp[m].got /\ v.added = vattp[m].added
      /\ v.removed = vattp[m].removed /\ v.delivered = vattp[m].delivered
  BY <1>1, <1>3 DEF Vattp
<1>5. Counted(v) /\ Kept(v, b)
  BY <1>1, <1>4 DEF Counted, Kept
<1>6. /\ s \in Seq(AllBodies) /\ Begins(v.got, s) /\ v.removed <= Has(Other(m))
      /\ Has(Other(m)) \in Nat
  BY <1>4, OtherMachine, MachineTypes DEF Inv, GrowInv
<1>7. Has(m) \in 0..v.delivered
  BY <1>4, HasIsKept
<1>8. IsBatch(d.messages, Has(m), s) /\ d.ack <= Has(Other(m))
  BY <1>3 DEF Inv, WireInv, InTransit
<1>9. /\ m = Solo => phase \in {"ready", "running"} /\ phase' = "running"
      /\ m # Solo => UNCHANGED phase
      /\ UNCHANGED <<disk, relay, txs, published>>
  BY DEF Process
<1>10. Begins(v.sent, v.sent) /\ Begins(v.got, v.got)
  BY <1>4, BeginsReflexive DEF Vattp
<1> HIDE DEF d, v, s
<1>11. CASE d.type = "messages"
  <2> DEFINE w == DeliverMessages(v, Fresh(v, d.messages))
             c == AckInbound(b, Fresh(v, d.messages))
  <2>1. d.messages \in Messages
    BY <1>3 DEF Delivery
  <2>2. /\ w \in Vattp /\ c \in Box /\ Counted(w) /\ Kept(w, c)
        /\ Begins(v.got, w.got) /\ Begins(w.got, s)
        /\ w.sent = v.sent /\ w.queue = v.queue /\ w.removed = v.removed
    BY <1>4, <1>1, <1>5, <1>6, <1>7, <1>8, <2>1, ReceiveKeeps
  <2>3. vattp' = [vattp EXCEPT ![m] = w] /\ box' = [box EXCEPT ![m] = c]
    <3>1. box' = [box EXCEPT ![m] = AckInbound(@, Fresh(v, d.messages))]
      BY <1>11 DEF Process, d, v
    <3> QED BY <1>11, <3>1 DEF Process, d, v
  <2> HIDE DEF w, c
  <2>4. w.removed <= vattp[m].removed /\ w.removed <= Has(Other(m))
    <3>1. v.removed \in Nat
      BY <1>4 DEF Vattp
    <3>2. v.removed <= v.removed
      BY <3>1
    <3>3. w.removed = v.removed /\ v.removed = vattp[m].removed
      BY <1>4, <2>2
    <3> QED BY <1>6, <3>2, <3>3
  <2>5. \A i \in 1..Len(w.queue) :
          \E j \in 1..Len(vattp[m].queue) : w.queue[i] = vattp[m].queue[j]
    BY <1>3, <1>4, <2>2
  <2>6. /\ Begins(vattp[m].sent, w.sent) /\ Begins(vattp[m].got, w.got)
        /\ Begins(w.got, Sent(Other(m)))
    BY <1>4, <1>10, <2>2 DEF s
  <2> QED BY <1>9, <2>2, <2>3, <2>4, <2>5, <2>6, MachineStep
<1>12. CASE d.type # "messages"
  <2> DEFINE w == DeliverAck(v, d.ack)
             c == Removed(b, v, d.ack)
  <2>1. d.ack \in Nat
    BY <1>3 DEF Delivery
  <2>2. /\ w \in Vattp /\ c \in Box /\ Counted(w) /\ Kept(w, c)
        /\ w.sent = v.sent /\ w.got = v.got /\ w.queue = v.queue
        /\ w.removed <= v.removed \/ w.removed <= d.ack
    BY <1>1, <1>4, <1>5, <2>1, AckKeeps
  <2>3. vattp' = [vattp EXCEPT ![m] = w] /\ box' = [box EXCEPT ![m] = c]
    <3>1. box' = [box EXCEPT ![m] = Removed(@, v, d.ack)]
      BY <1>12 DEF Process, d, v
    <3> QED BY <1>12, <3>1 DEF Process, d, v
  <2> HIDE DEF w, c
  <2>4. w.removed <= Has(Other(m))
    <3>1. w.removed \in Nat /\ v.removed \in Nat
      BY <1>4, <2>2 DEF Vattp
    <3> QED BY <1>6, <1>8, <2>1, <2>2, <3>1
  <2>5. w.removed <= vattp[m].removed
          \/ \E i \in 1..Len(vattp[m].queue) : w.removed <= vattp[m].queue[i].ack
    BY <1>3, <1>4, <2>2
  <2>6. \A i \in 1..Len(w.queue) :
          \E j \in 1..Len(vattp[m].queue) : w.queue[i] = vattp[m].queue[j]
    BY <1>3, <1>4, <2>2
  <2>7. /\ Begins(vattp[m].sent, w.sent) /\ Begins(vattp[m].got, w.got)
        /\ Begins(w.got, Sent(Other(m)))
    BY <1>4, <1>6, <1>10, <2>2 DEF s
  <2> QED BY <1>9, <2>2, <2>3, <2>4, <2>5, <2>6, <2>7, MachineStep
<1> QED BY <1>11, <1>12

-----------------------------------------------------------------------------
(* Inputs *)

LEMMA InboundElements ==
  ASSUME NEW queue \in Seq(Delivery), NEW messages \in Messages, NEW ack \in Nat
  PROVE  LET longer == Inbound(queue, messages, ack)
         IN /\ longer \in Seq(Delivery)
            /\ \A i \in 1..Len(longer) :
                 \/ i \in 1..Len(queue) /\ longer[i] = queue[i]
                 \/ longer[i].messages = messages /\ longer[i].ack = 0
                 \/ longer[i].messages = None /\ longer[i].ack = ack
<1> DEFINE deliver == [type |-> "messages", messages |-> messages, ack |-> 0]
           acknowledge == [type |-> "ack", messages |-> None, ack |-> ack]
           longer == Inbound(queue, messages, ack)
<1>1. deliver \in Delivery /\ acknowledge \in Delivery
  BY NoneIsBatch DEF Delivery
<1>2. /\ deliver.messages = messages /\ deliver.ack = 0
      /\ acknowledge.messages = None /\ acknowledge.ack = ack
  OBVIOUS
<1>3. longer = Append(queue, acknowledge) \/ longer = queue \o <<deliver, acknowledge>>
  BY DEF Inbound
<1> HIDE DEF deliver, acknowledge, longer
<1>4. CASE longer = Append(queue, acknowledge)
  <2>1. /\ longer \in Seq(Delivery) /\ Len(longer) = Len(queue) + 1
        /\ longer[Len(queue) + 1] = acknowledge
        /\ \A i \in 1..Len(queue) : longer[i] = queue[i]
    BY <1>1, <1>4
  <2>2. \A i \in 1..Len(longer) :
          \/ i \in 1..Len(queue) /\ longer[i] = queue[i]
          \/ longer[i] = acknowledge
    BY <2>1
  <2> QED BY <1>2, <2>1, <2>2 DEF longer
<1>5. CASE longer = queue \o <<deliver, acknowledge>>
  <2>1. /\ longer \in Seq(Delivery) /\ Len(longer) = Len(queue) + 2
        /\ longer[Len(queue) + 1] = deliver /\ longer[Len(queue) + 2] = acknowledge
        /\ \A i \in 1..Len(queue) : longer[i] = queue[i]
    BY <1>1, <1>5
  <2>2. \A i \in 1..Len(longer) :
          \/ i \in 1..Len(queue) /\ longer[i] = queue[i]
          \/ longer[i] = deliver \/ longer[i] = acknowledge
    BY <2>1
  <2> QED BY <1>2, <2>1, <2>2 DEF longer
<1> QED BY <1>3, <1>4, <1>5

Acks(queue) == {queue[i].ack : i \in 1..Len(queue)}

(* New deliveries are queued to m, from messages and ack on their way to it. *)
LEMMA InputStep ==
  ASSUME Inv, NEW m \in Machines, NEW messages \in Messages, NEW ack \in Nat,
         InTransit(messages, ack, m),
         vattp' = [vattp EXCEPT ![m].queue = Inbound(@, messages, ack)],
         UNCHANGED <<box, disk>>
  PROVE  /\ vattp' \in [Machines -> Vattp] /\ VattpInv' /\ GrowInv'
         /\ \A n \in Machines : \A i \in 1..Len(vattp'[n].queue) :
              InTransit(vattp'[n].queue[i].messages, vattp'[n].queue[i].ack, n)
         /\ \A n \in Machines \ {m} : vattp'[n] = vattp[n]
         /\ vattp'[m].removed = vattp[m].removed
         /\ Acks(vattp'[m].queue) \subseteq Acks(vattp[m].queue) \cup {0, ack}
<1> DEFINE longer == Inbound(vattp[m].queue, messages, ack)
           w == [vattp[m] EXCEPT !.queue = longer]
<1>1. vattp \in [Machines -> Vattp] /\ vattp[m] \in Vattp
  BY DEF Inv, TypeInv
<1>2. vattp[m].queue \in Seq(Delivery)
  BY <1>1 DEF Vattp
<1>3. /\ longer \in Seq(Delivery)
      /\ \A i \in 1..Len(longer) :
           \/ i \in 1..Len(vattp[m].queue) /\ longer[i] = vattp[m].queue[i]
           \/ longer[i].messages = messages /\ longer[i].ack = 0
           \/ longer[i].messages = None /\ longer[i].ack = ack
  BY <1>2, InboundElements
<1> HIDE DEF longer
<1>4. vattp' = [vattp EXCEPT ![m] = w]
  BY DEF longer
<1>5. /\ w \in Vattp /\ w.queue = longer /\ w.sent = vattp[m].sent
      /\ w.got = vattp[m].got /\ w.added = vattp[m].added
      /\ w.removed = vattp[m].removed /\ w.delivered = vattp[m].delivered
  BY <1>1, <1>3 DEF Vattp
<1> HIDE DEF w
<1>6. /\ vattp' \in [Machines -> Vattp] /\ vattp'[m] = w
      /\ \A n \in Machines \ {m} : vattp'[n] = vattp[n]
  BY <1>1, <1>4, <1>5
<1>7. \A n \in Machines :
        /\ vattp'[n].sent = vattp[n].sent /\ vattp'[n].got = vattp[n].got
        /\ vattp'[n].added = vattp[n].added /\ vattp'[n].removed = vattp[n].removed
        /\ vattp'[n].delivered = vattp[n].delivered
  BY <1>5, <1>6
<1>8. VattpInv'
  <2>1. VattpInv
    BY DEF Inv
  <2>2. \A n \in Machines : Counted(vattp[n])' /\ Kept(vattp[n], box[n])'
    BY <1>7, <2>1 DEF VattpInv, Counted, Kept
  <2>3. \A n \in Machines : Counted(disk[n].vattp)'
    BY <2>1 DEF VattpInv, Counted
  <2>4. Kept(disk[Chain].vattp, disk[Chain].box)'
    BY <2>1 DEF VattpInv, Kept
  <2> QED BY <2>2, <2>3, <2>4 DEF VattpInv
<1>9. GrowInv'
  BY <1>7 DEF Inv, GrowInv, Has, Sent
<1>10. /\ Has(m) \in Nat /\ Has(Other(m)) \in Nat
       /\ IsBatch(messages, Has(m), Sent(Other(m))) /\ ack <= Has(Other(m))
  BY OtherMachine, MachineTypes DEF Inv, InTransit
<1>11. IsBatch(None, Has(m), Sent(Other(m)))
  BY <1>10, NoneIsBatch
<1>12. \A i \in 1..Len(longer) : InTransit(longer[i].messages, longer[i].ack, m)
  <2>1. \A i \in 1..Len(vattp[m].queue) :
          InTransit(vattp[m].queue[i].messages, vattp[m].queue[i].ack, m)
    BY DEF Inv, WireInv
  <2> QED BY <1>3, <1>10, <1>11, <2>1 DEF InTransit
<1>13. \A n \in Machines : \A i \in 1..Len(vattp'[n].queue) :
         InTransit(vattp'[n].queue[i].messages, vattp'[n].queue[i].ack, n)
  <2>1. SUFFICES ASSUME NEW n \in Machines, NEW i \in 1..Len(vattp'[n].queue)
                 PROVE  InTransit(vattp'[n].queue[i].messages,
                                  vattp'[n].queue[i].ack, n)
    OBVIOUS
  <2>2. CASE n = m
    <3>1. vattp'[n].queue = longer
      BY <1>5, <1>6, <2>2
    <3> QED BY <1>12, <2>1, <2>2, <3>1
  <2>3. CASE n # m
    <3>1. vattp'[n].queue = vattp[n].queue
      BY <1>6, <2>3
    <3> QED BY <2>1, <3>1 DEF Inv, WireInv
  <2> QED BY <2>2, <2>3
<1>14. Acks(longer) \subseteq Acks(vattp[m].queue) \cup {0, ack}
  BY <1>3 DEF Acks
<1> QED BY <1>5, <1>6, <1>8, <1>9, <1>13, <1>14

LEMMA ReadMailboxStep ==
  ASSUME Inv, NEW b \in published, ReadMailbox(b)
  PROVE  Inv'
<1>1. b \in Box /\ b.outbox \in Messages /\ b.ack \in Nat
  BY DEF Inv, TypeInv, Box
<1>2. InTransit(b.outbox, b.ack, Solo)
  BY DEF Inv, WireInv
<1>3. Solo \in Machines /\ Chain \in Machines /\ Other(Solo) = Chain
  BY DEF Machines, Other
<1>4. /\ vattp' \in [Machines -> Vattp] /\ VattpInv' /\ GrowInv'
      /\ \A n \in Machines : \A i \in 1..Len(vattp'[n].queue) :
           InTransit(vattp'[n].queue[i].messages, vattp'[n].queue[i].ack, n)
      /\ \A n \in Machines \ {Solo} : vattp'[n] = vattp[n]
      /\ vattp'[Solo].removed = vattp[Solo].removed
      /\ Acks(vattp'[Solo].queue) \subseteq Acks(vattp[Solo].queue) \cup {0, b.ack}
  <2>1. /\ vattp' = [vattp EXCEPT ![Solo].queue = Inbound(@, b.outbox, b.ack)]
        /\ UNCHANGED <<box, disk>>
    BY DEF ReadMailbox
  <2>2. /\ vattp' \in [Machines -> Vattp] /\ VattpInv' /\ GrowInv'
        /\ \A n \in Machines : \A i \in 1..Len(vattp'[n].queue) :
             InTransit(vattp'[n].queue[i].messages, vattp'[n].queue[i].ack, n)
        /\ \A n \in Machines \ {Solo} : vattp'[n] = vattp[n]
    BY <1>1, <1>2, <1>3, <2>1, InputStep
  <2>3. vattp'[Solo].removed = vattp[Solo].removed
    BY <1>1, <1>2, <1>3, <2>1, InputStep
  <2>4. Acks(vattp'[Solo].queue) \subseteq Acks(vattp[Solo].queue) \cup {0, b.ack}
    BY <1>1, <1>2, <1>3, <2>1, InputStep
  <2> QED BY <2>2, <2>3, <2>4
<1>5. /\ UNCHANGED <<box, disk, txs, published>> /\ phase = "ready" /\ phase' = "running"
      /\ relay' = [relay EXCEPT !.pool = Newer(@, b.ack)]
  BY DEF ReadMailbox
<1>6. PICK lo \in 0..Has(Chain) :
        /\ IsPool(relay, lo, Sent(Solo))
        /\ vattp[Solo].removed <= lo
        /\ \A i \in 1..Len(vattp[Solo].queue) : vattp[Solo].queue[i].ack <= lo
  BY DEF Inv, PoolInv
<1>7. /\ Has(Chain) \in Nat /\ b.ack <= Has(Chain) /\ relay \in Relay /\ lo \in Nat
  BY <1>2, <1>3, <1>6, MachineTypes DEF Inv, TypeInv, InTransit
<1>8. relay' \in Relay /\ IsPool(relay', Larger(lo, b.ack), Sent(Solo)) /\ relay'.ack = relay.ack
  BY <1>1, <1>5, <1>6, <1>7, TrimKeeps
<1>9. TypeInv'
  BY <1>4, <1>5, <1>8 DEF Inv, TypeInv
<1>10. SaveInv'
  BY <1>3, <1>5 DEF Inv, SaveInv
<1>11. Has(Chain)' = Has(Chain) /\ Has(Solo)' = Has(Solo) /\ Sent(Solo)' = Sent(Solo)
  BY <1>5 DEF Has, Sent
<1>12. WireInv'
  BY <1>4, <1>5, <1>8, <1>11 DEF Inv, WireInv, InTransit, Has, Sent
<1>13. PoolInv'
  <2> DEFINE from == Larger(lo, b.ack)
  <2>1. from \in 0..Has(Chain) /\ lo <= from /\ b.ack <= from
    BY <1>1, <1>6, <1>7 DEF Larger
  <2> HIDE DEF from
  <2>2. vattp'[Solo].removed <= from
    <3>1. vattp[Solo].removed \in Nat
      BY <1>3, MachineTypes DEF Inv, Vattp
    <3> QED BY <1>4, <1>6, <1>7, <2>1, <3>1
  <2>3. \A i \in 1..Len(vattp'[Solo].queue) : vattp'[Solo].queue[i].ack <= from
    <3>1. \A i \in 1..Len(vattp[Solo].queue) :
            vattp[Solo].queue[i].ack \in Nat /\ vattp[Solo].queue[i].ack <= lo
      <4>1. vattp[Solo].queue \in Seq(Delivery)
        BY <1>3, MachineTypes DEF Inv, Vattp
      <4>2. \A i \in 1..Len(vattp[Solo].queue) : vattp[Solo].queue[i] \in Delivery
        BY <4>1
      <4> QED BY <1>6, <4>2 DEF Delivery
    <3> SUFFICES ASSUME NEW i \in 1..Len(vattp'[Solo].queue)
                 PROVE  vattp'[Solo].queue[i].ack <= from
      OBVIOUS
    <3>2. from \in Nat
      BY <1>7, <2>1
    <3> DEFINE a == vattp'[Solo].queue[i].ack
    <3>3. a \in Acks(vattp[Solo].queue) \cup {0, b.ack}
      BY <1>4 DEF Acks
    <3> HIDE DEF a
    <3>4. CASE a \in {0, b.ack}
      BY <1>1, <2>1, <3>2, <3>4 DEF a
    <3>5. CASE a \in Acks(vattp[Solo].queue)
      <4>1. PICK j \in 1..Len(vattp[Solo].queue) : a = vattp[Solo].queue[j].ack
        BY <3>5 DEF Acks
      <4>2. a <= from
        BY <1>7, <2>1, <3>1, <3>2, <4>1
      <4> QED BY <4>2 DEF a
    <3> QED BY <3>3, <3>4, <3>5
  <2>4. IsPool(relay', from, Sent(Solo))
    BY <1>8 DEF from
  <2>5. IsPool(relay, from, Sent(Solo))'
    BY <1>11, <2>4 DEF IsPool
  <2> QED BY <1>11, <2>1, <2>2, <2>3, <2>5 DEF PoolInv
<1> QED BY <1>4, <1>9, <1>10, <1>12, <1>13 DEF Inv

LEMMA IncludeTransactionStep ==
  ASSUME Inv, NEW tx \in txs, IncludeTransaction(tx)
  PROVE  Inv'
<1>1. tx \in Transaction /\ tx.messages \in Messages /\ tx.ack \in Nat
  BY DEF Inv, TypeInv, Transaction
<1>2. InTransit(tx.messages, tx.ack, Chain)
  BY DEF Inv, WireInv
<1>3. Solo \in Machines /\ Chain \in Machines /\ Solo # Chain
  BY DEF Machines, Solo, Chain
<1>4. /\ vattp' \in [Machines -> Vattp] /\ VattpInv' /\ GrowInv'
      /\ \A n \in Machines : \A i \in 1..Len(vattp'[n].queue) :
           InTransit(vattp'[n].queue[i].messages, vattp'[n].queue[i].ack, n)
      /\ \A n \in Machines \ {Chain} : vattp'[n] = vattp[n]
  BY <1>1, <1>2, <1>3, InputStep DEF IncludeTransaction
<1>5. UNCHANGED <<box, disk, phase, relay, published>> /\ txs' \subseteq txs
  BY DEF IncludeTransaction
<1>6. TypeInv'
  BY <1>4, <1>5 DEF Inv, TypeInv
<1>7. vattp'[Solo] = vattp[Solo]
  BY <1>3, <1>4
<1>8. SaveInv'
  BY <1>5, <1>7 DEF Inv, SaveInv
<1>9. WireInv'
  BY <1>4, <1>5 DEF Inv, WireInv, InTransit, Has, Sent
<1>10. PoolInv'
  BY <1>5, <1>7 DEF Inv, PoolInv, Has, Sent, IsPool
<1> QED BY <1>4, <1>6, <1>8, <1>9, <1>10 DEF Inv

-----------------------------------------------------------------------------
(* Saves *)

LEMMA SaveMailboxStep == ASSUME Inv, SaveMailbox PROVE Inv'
<1>1. /\ disk' = [disk EXCEPT ![Solo].box = box[Solo]] /\ phase = "running"
      /\ phase' = "written" /\ vattp[Solo].queue = <<>>
      /\ UNCHANGED <<vattp, box, relay, txs, published>>
  BY DEF SaveMailbox
<1>2. Solo \in Machines /\ Chain \in Machines /\ Solo # Chain
  BY DEF Machines, Solo, Chain
<1>3. /\ disk' \in [Machines -> [vattp : Vattp, box : Box]]
      /\ \A m \in Machines : disk'[m].vattp = disk[m].vattp
      /\ disk'[Solo].box = box[Solo] /\ disk'[Chain].box = disk[Chain].box
  BY <1>1, <1>2 DEF Inv, TypeInv
<1>4. TypeInv'
  BY <1>1, <1>3 DEF Inv, TypeInv
<1>5. VattpInv'
  <2>1. \A m \in Machines :
          Counted(vattp[m])' /\ Counted(disk[m].vattp)' /\ Kept(vattp[m], box[m])'
    BY <1>1, <1>3 DEF Inv, VattpInv, Counted, Kept
  <2>2. Kept(disk[Chain].vattp, disk[Chain].box)'
    BY <1>2, <1>3 DEF Inv, VattpInv, Kept
  <2> QED BY <2>1, <2>2 DEF VattpInv
<1>6. SaveInv'
  BY <1>1, <1>2, <1>3 DEF Inv, SaveInv
<1>7. \A m \in Machines : Has(m)' = Has(m) /\ Sent(m)' = Sent(m)
  BY <1>3 DEF Has, Sent
<1>8. GrowInv'
  BY <1>1, <1>3, <1>7, OtherMachine DEF Inv, GrowInv
<1>9. ASSUME NEW messages, NEW ack, NEW m \in Machines, InTransit(messages, ack, m)
      PROVE  InTransit(messages, ack, m)'
  BY <1>7, <1>9, OtherMachine DEF InTransit
<1>10. WireInv'
  BY <1>1, <1>2, <1>7, <1>9 DEF Inv, WireInv
<1>11. PoolInv'
  BY <1>1, <1>2, <1>7 DEF Inv, PoolInv, IsPool
<1> QED BY <1>4, <1>5, <1>6, <1>8, <1>10, <1>11 DEF Inv

(* What a machine has and has sent for good grows to what is in memory. *)
LEMMA SavedGrows ==
  ASSUME Inv, NEW m \in Machines,
         disk' \in [Machines -> [vattp : Vattp, box : Box]],
         disk'[m].vattp = vattp[m],
         \A n \in Machines \ {m} : disk'[n] = disk[n],
         UNCHANGED vattp
  PROVE  /\ \A n \in Machines : /\ Has(n) <= Has(n)' /\ Begins(Sent(n), Sent(n)')
                                 /\ Has(n)' \in Nat /\ Sent(n)' \in Seq(AllBodies)
         /\ GrowInv'
         /\ \A n \in Machines : \A messages \in Messages : \A ack \in Nat :
              InTransit(messages, ack, n) => InTransit(messages, ack, n)'
<1>1. \A n \in Machines : /\ Has(n) \in Nat /\ Sent(n) \in Seq(AllBodies)
                          /\ vattp[n] \in Vattp /\ disk[n].vattp \in Vattp
  BY MachineTypes DEF Inv
<1>2. \A n \in Machines : /\ Has(n) <= Has(n)' /\ Begins(Sent(n), Sent(n)')
                          /\ Has(n)' \in Nat /\ Sent(n)' \in Seq(AllBodies)
  <2> SUFFICES ASSUME NEW n \in Machines
               PROVE  /\ Has(n) <= Has(n)' /\ Begins(Sent(n), Sent(n)')
                      /\ Has(n)' \in Nat /\ Sent(n)' \in Seq(AllBodies)
    OBVIOUS
  <2>1. CASE n = m
    <3>1. Has(n)' = vattp[m].delivered /\ Sent(n)' = vattp[m].sent
      BY <2>1 DEF Has, Sent
    <3>2. Begins(Sent(m), vattp[m].sent) /\ Has(m) \in 0..vattp[m].delivered
      BY HasIsKept DEF Inv, GrowInv
    <3>3. vattp[m].delivered \in Nat /\ vattp[m].sent \in Seq(AllBodies)
      BY <1>1 DEF Vattp
    <3> QED BY <2>1, <3>1, <3>2, <3>3
  <2>2. CASE n # m
    <3>1. Has(n)' = Has(n) /\ Sent(n)' = Sent(n)
      BY <2>2 DEF Has, Sent
    <3>2. Begins(Sent(n), Sent(n))
      BY <1>1, BeginsReflexive
    <3> QED BY <1>1, <3>1, <3>2
  <2> QED BY <2>1, <2>2
<1>3. ASSUME NEW n \in Machines
      PROVE  /\ Begins(Sent(n), vattp[n].sent)'
             /\ Begins(disk[n].vattp.got, vattp[n].got)'
             /\ Begins(vattp[n].got, Sent(Other(n)))'
             /\ (vattp[n].removed <= Has(Other(n)))'
             /\ (disk[n].vattp.removed <= Has(Other(n)))'
  <2>1. Other(n) \in Machines
    BY OtherMachine
  <2>2. /\ Begins(Sent(n), vattp[n].sent) /\ Begins(disk[n].vattp.got, vattp[n].got)
        /\ Begins(vattp[n].got, Sent(Other(n))) /\ vattp[n].removed <= Has(Other(n))
        /\ disk[n].vattp.removed <= Has(Other(n))
    BY DEF Inv, GrowInv
  <2>3. /\ vattp[n].got \in Seq(AllBodies) /\ vattp[n].sent \in Seq(AllBodies)
        /\ vattp[n].removed \in Nat /\ disk[n].vattp.removed \in Nat
    BY <1>1 DEF Vattp
  <2>4. Begins(vattp[n].got, Sent(Other(n)))'
    BY <1>1, <1>2, <2>1, <2>2, <2>3, BeginsTransitive
  <2>4a. /\ Has(Other(n)) \in Nat /\ Has(Other(n))' \in Nat
         /\ Has(Other(n)) <= Has(Other(n))'
    BY <1>1, <1>2, <2>1
  <2>5. (vattp[n].removed <= Has(Other(n)))'
    <3>1. vattp[n].removed <= Has(Other(n))'
      BY <2>2, <2>3, <2>4a
    <3> QED BY <3>1
  <2>6. disk'[n].vattp \in {disk[n].vattp, vattp[n]}
    OBVIOUS
  <2>7. (disk[n].vattp.removed <= Has(Other(n)))'
    <3>1. disk[n].vattp.removed <= Has(Other(n))'
      BY <2>2, <2>3, <2>4a
    <3>2. vattp[n].removed <= Has(Other(n))'
      BY <2>5
    <3> QED BY <2>6, <3>1, <3>2
  <2>8. Begins(vattp[n].sent, vattp[n].sent) /\ Begins(vattp[n].got, vattp[n].got)
    BY <2>3, BeginsReflexive
  <2>9. Begins(Sent(n), vattp[n].sent)' /\ Begins(disk[n].vattp.got, vattp[n].got)'
    BY <2>2, <2>6, <2>8 DEF Sent
  <2> QED BY <2>4, <2>5, <2>7, <2>9
<1>4. GrowInv'
  BY <1>3 DEF GrowInv
<1>5. ASSUME NEW n \in Machines, NEW messages \in Messages, NEW ack \in Nat,
             InTransit(messages, ack, n)
      PROVE  InTransit(messages, ack, n)'
  <2>1. Other(n) \in Machines
    BY OtherMachine
  <2>2. IsBatch(messages, Has(n), Sent(Other(n))) /\ ack <= Has(Other(n))
    BY <1>5 DEF InTransit
  <2>3. IsBatch(messages, Has(n)', Sent(Other(n))')
    BY <1>1, <1>2, <2>1, <2>2, BatchStays
  <2>4. ack <= Has(Other(n))'
    <3>1. /\ Has(Other(n)) \in Nat /\ Has(Other(n))' \in Nat
          /\ Has(Other(n)) <= Has(Other(n))'
      BY <1>1, <1>2, <2>1
    <3> QED BY <2>2, <3>1
  <2> QED BY <2>3, <2>4 DEF InTransit
<1> QED BY <1>2, <1>4, <1>5

LEMMA PoolGrows ==
  ASSUME NEW S, NEW s \in Seq(S), NEW t \in Seq(S), Begins(s, t),
         NEW r \in Relay, NEW lo \in Nat, IsPool(r, lo, s)
  PROVE  IsPool(r, lo, t)
<1>1. r.highestSent \in Nat
  BY DEF Relay
<1> QED BY <1>1 DEF IsPool, Begins

LEMMA SaveKernelStep == ASSUME Inv, SaveKernel PROVE Inv'
<1>1. /\ disk' = [disk EXCEPT ![Solo].vattp = vattp[Solo]] /\ phase = "written"
      /\ phase' = "saved" /\ UNCHANGED <<vattp, box, relay, txs, published>>
  BY DEF SaveKernel
<1>2. Solo \in Machines /\ Chain \in Machines /\ Solo # Chain /\ Other(Chain) = Solo
  BY DEF Machines, Solo, Chain, Other
<1>3. /\ disk' \in [Machines -> [vattp : Vattp, box : Box]]
      /\ disk'[Solo].vattp = vattp[Solo] /\ disk'[Solo].box = disk[Solo].box
      /\ \A n \in Machines \ {Solo} : disk'[n] = disk[n]
  BY <1>1, <1>2 DEF Inv, TypeInv
<1>4. /\ \A n \in Machines : /\ Has(n) <= Has(n)' /\ Begins(Sent(n), Sent(n)')
                              /\ Has(n)' \in Nat /\ Sent(n)' \in Seq(AllBodies)
      /\ GrowInv'
      /\ \A n \in Machines : \A messages \in Messages : \A ack \in Nat :
           InTransit(messages, ack, n) => InTransit(messages, ack, n)'
  BY <1>1, <1>2, <1>3, SavedGrows
<1>5. TypeInv'
  BY <1>1, <1>3 DEF Inv, TypeInv
<1>6. VattpInv'
  <2>1. VattpInv
    BY DEF Inv
  <2>2. \A m \in Machines : disk'[m].vattp \in {disk[m].vattp, vattp[m]}
    BY <1>3
  <2>3. \A m \in Machines :
          Counted(vattp[m])' /\ Counted(disk[m].vattp)' /\ Kept(vattp[m], box[m])'
    BY <1>1, <2>1, <2>2 DEF VattpInv, Counted, Kept
  <2>4. disk'[Chain] = disk[Chain]
    BY <1>2, <1>3
  <2>5. Kept(disk[Chain].vattp, disk[Chain].box)'
    BY <2>1, <2>4 DEF VattpInv, Kept
  <2> QED BY <2>3, <2>5 DEF VattpInv
<1>7. SaveInv'
  <2>1. Kept(vattp[Solo], box[Solo])
    BY <1>2 DEF Inv, VattpInv
  <2>2. disk[Solo].box = box[Solo] /\ vattp[Solo].queue = <<>>
    BY <1>1 DEF Inv, SaveInv
  <2>3. disk'[Solo].box = box'[Solo] /\ disk'[Solo].vattp = vattp'[Solo]
    BY <1>1, <1>3, <2>2
  <2>4. Kept(disk[Solo].vattp, disk[Solo].box)'
    BY <1>1, <2>1, <2>3 DEF Kept
  <2> QED BY <1>1, <2>2, <2>3, <2>4 DEF SaveInv
<1>8. WireInv'
  <2>1. \A m \in Machines : \A i \in 1..Len(vattp[m].queue) :
          /\ vattp[m].queue[i].messages \in Messages /\ vattp[m].queue[i].ack \in Nat
    BY QueueTypes DEF Inv
  <2>2. \A tx \in txs : tx.messages \in Messages /\ tx.ack \in Nat
    BY DEF Inv, TypeInv, Transaction
  <2>3. \A b \in published : b.outbox \in Messages /\ b.ack \in Nat
    BY DEF Inv, TypeInv, Box
  <2>4. (relay.ack <= Has(Solo))'
    <3>1. relay.ack \in Nat /\ relay.ack <= Has(Solo) /\ Has(Solo) \in Nat
      BY <1>2, MachineTypes DEF Inv, TypeInv, Relay, WireInv
    <3> QED BY <1>1, <1>2, <1>4, <3>1
  <2> QED BY <1>1, <1>2, <1>4, <2>1, <2>2, <2>3, <2>4 DEF Inv, WireInv
<1>9. PoolInv'
  <2>1. PICK lo \in 0..Has(Chain) :
          /\ IsPool(relay, lo, Sent(Solo))
          /\ vattp[Solo].removed <= lo
          /\ \A i \in 1..Len(vattp[Solo].queue) : vattp[Solo].queue[i].ack <= lo
    BY DEF Inv, PoolInv
  <2>2. relay \in Relay /\ Has(Chain) \in Nat /\ lo \in Nat /\ Sent(Solo) \in Seq(AllBodies)
    BY <1>2, <2>1, MachineTypes DEF Inv, TypeInv
  <2>3. IsPool(relay, lo, Sent(Solo)')
    BY <1>2, <1>4, <2>1, <2>2, PoolGrows
  <2>4. IsPool(relay, lo, Sent(Solo))'
    BY <1>1, <2>3 DEF IsPool
  <2>5. lo \in 0..Has(Chain)'
    BY <1>2, <1>4, <2>1, <2>2
  <2> QED BY <1>1, <2>1, <2>4, <2>5 DEF PoolInv
<1> QED BY <1>4, <1>5, <1>6, <1>7, <1>8, <1>9 DEF Inv

(* A saved mailbox is on its way to the other machine from now on. *)
LEMMA KeptIsBatch ==
  ASSUME NEW v \in Vattp, NEW b, Counted(v), Kept(v, b),
         NEW have \in Nat, v.removed <= have
  PROVE  IsBatch(b.outbox, have, v.sent)
<1>1. v.removed \in 0..have /\ v.added \in Nat /\ v.added = Len(v.sent)
  BY DEF Vattp, Counted
<1>2. /\ DOMAIN b.outbox = v.removed + 1 .. v.added
      /\ \A n \in v.removed + 1 .. v.added : n <= Len(v.sent) /\ b.outbox[n] = v.sent[n]
  BY <1>1 DEF Kept
<1> QED BY <1>1, <1>2 DEF IsBatch

LEMMA CommitBlockStep == ASSUME Inv, CommitBlock PROVE Inv'
<1>1. /\ disk' = [disk EXCEPT ![Chain] = [vattp |-> vattp[Chain], box |-> box[Chain]]]
      /\ published' = published \cup {box[Chain]}
      /\ UNCHANGED <<vattp, box, phase, relay, txs>>
  BY DEF CommitBlock
<1>2. Solo \in Machines /\ Chain \in Machines /\ Solo # Chain
      /\ Other(Chain) = Solo /\ Other(Solo) = Chain
  BY DEF Machines, Solo, Chain, Other
<1>3. /\ disk' \in [Machines -> [vattp : Vattp, box : Box]]
      /\ disk'[Chain].vattp = vattp[Chain] /\ disk'[Chain].box = box[Chain]
      /\ \A n \in Machines \ {Chain} : disk'[n] = disk[n]
  BY <1>1, <1>2 DEF Inv, TypeInv
<1>4. /\ \A n \in Machines : /\ Has(n) <= Has(n)' /\ Begins(Sent(n), Sent(n)')
                              /\ Has(n)' \in Nat /\ Sent(n)' \in Seq(AllBodies)
      /\ GrowInv'
      /\ \A n \in Machines : \A messages \in Messages : \A ack \in Nat :
           InTransit(messages, ack, n) => InTransit(messages, ack, n)'
  BY <1>1, <1>2, <1>3, SavedGrows
<1>5. TypeInv'
  BY <1>1, <1>2, <1>3 DEF Inv, TypeInv
<1>6. disk'[Solo] = disk[Solo]
  BY <1>2, <1>3
<1>7. VattpInv'
  <2>1. VattpInv
    BY DEF Inv
  <2>2. \A m \in Machines : disk'[m].vattp \in {disk[m].vattp, vattp[m]}
    BY <1>3
  <2>3. \A m \in Machines :
          Counted(vattp[m])' /\ Counted(disk[m].vattp)' /\ Kept(vattp[m], box[m])'
    BY <1>1, <2>1, <2>2 DEF VattpInv, Counted, Kept
  <2>4. Kept(disk[Chain].vattp, disk[Chain].box)'
    BY <1>2, <1>3, <2>1 DEF VattpInv, Kept
  <2> QED BY <2>3, <2>4 DEF VattpInv
<1>8. SaveInv'
  BY <1>1, <1>6 DEF Inv, SaveInv, Kept
<1>9. InTransit(box[Chain].outbox, box[Chain].ack, Solo)'
  <2>1. /\ vattp[Chain] \in Vattp /\ Counted(vattp[Chain]) /\ Kept(vattp[Chain], box[Chain])
        /\ Has(Solo) \in Nat /\ vattp[Chain].removed <= Has(Solo)
        /\ vattp[Chain].delivered \in Nat
    BY <1>2, MachineTypes DEF Inv, VattpInv, GrowInv, Vattp
  <2>2. IsBatch(box[Chain].outbox, Has(Solo), vattp[Chain].sent)
    BY <2>1, KeptIsBatch
  <2>3. /\ Has(Solo)' = Has(Solo) /\ Sent(Chain)' = vattp[Chain].sent
        /\ Has(Chain)' = vattp[Chain].delivered
    BY <1>3, <1>6 DEF Has, Sent
  <2>4. box[Chain].ack = vattp[Chain].delivered
    BY <2>1 DEF Kept
  <2> QED BY <1>1, <1>2, <2>1, <2>2, <2>3, <2>4 DEF InTransit
<1>10. WireInv'
  <2>1. \A m \in Machines : \A i \in 1..Len(vattp[m].queue) :
          /\ vattp[m].queue[i].messages \in Messages /\ vattp[m].queue[i].ack \in Nat
    BY QueueTypes DEF Inv
  <2>2. \A tx \in txs : tx.messages \in Messages /\ tx.ack \in Nat
    BY DEF Inv, TypeInv, Transaction
  <2>3. \A b \in published : b.outbox \in Messages /\ b.ack \in Nat
    BY DEF Inv, TypeInv, Box
  <2>4. (relay.ack <= Has(Solo))'
    <3>1. relay.ack \in Nat /\ relay.ack <= Has(Solo) /\ Has(Solo) \in Nat
      BY <1>2, MachineTypes DEF Inv, TypeInv, Relay, WireInv
    <3> QED BY <1>1, <1>2, <1>4, <3>1
  <2>5. \A b \in published : InTransit(b.outbox, b.ack, Solo)'
    BY <1>2, <1>4, <2>3 DEF Inv, WireInv
  <2>6. \A b \in published' : InTransit(b.outbox, b.ack, Solo)'
    BY <1>1, <1>9, <2>5 DEF InTransit, Has, Sent
  <2> QED BY <1>1, <1>2, <1>4, <2>1, <2>2, <2>4, <2>6 DEF Inv, WireInv
<1>11. PoolInv'
  <2>1. PICK lo \in 0..Has(Chain) :
          /\ IsPool(relay, lo, Sent(Solo))
          /\ vattp[Solo].removed <= lo
          /\ \A i \in 1..Len(vattp[Solo].queue) : vattp[Solo].queue[i].ack <= lo
    BY DEF Inv, PoolInv
  <2>2. Has(Chain) \in Nat
    BY <1>2, MachineTypes DEF Inv
  <2>3. Sent(Solo)' = Sent(Solo)
    BY <1>6 DEF Sent
  <2>4. lo \in 0..Has(Chain)'
    BY <1>2, <1>4, <2>1, <2>2
  <2> QED BY <1>1, <2>1, <2>3, <2>4 DEF PoolInv, IsPool
<1> QED BY <1>4, <1>5, <1>7, <1>8, <1>10, <1>11 DEF Inv

-----------------------------------------------------------------------------
(* The relay at work *)

LEMMA DeliverOutboundStep == ASSUME Inv, DeliverOutbound PROVE Inv'
<1>1. /\ relay' = Outbound(relay, box[Solo]) /\ phase = "saved" /\ phase' = "ready"
      /\ UNCHANGED <<vattp, box, disk, txs, published>>
  BY DEF DeliverOutbound
<1>2. Solo \in Machines /\ Chain \in Machines
  BY DEF Machines
<1>3. /\ vattp[Solo] \in Vattp /\ box[Solo] \in Box /\ relay \in Relay
      /\ Counted(vattp[Solo]) /\ Kept(vattp[Solo], box[Solo]) /\ Has(Chain) \in Nat
  BY <1>2, MachineTypes DEF Inv, TypeInv, VattpInv
<1>4. disk[Solo].vattp = vattp[Solo] /\ vattp[Solo].queue = <<>>
  BY <1>1 DEF Inv, SaveInv
<1>5. Sent(Solo) = vattp[Solo].sent /\ Has(Solo) = vattp[Solo].delivered
  BY <1>4 DEF Sent, Has
<1>6. PICK lo \in 0..Has(Chain) :
        IsPool(relay, lo, vattp[Solo].sent) /\ vattp[Solo].removed <= lo
  BY <1>5 DEF Inv, PoolInv
<1>7. lo \in Nat /\ lo <= Has(Chain)
  BY <1>3, <1>6
<1>8. /\ relay' \in Relay
      /\ relay'.ack = relay.ack \/ relay'.ack = vattp[Solo].delivered
      /\ \E from \in 0..Has(Chain) :
           vattp[Solo].removed <= from /\ IsPool(relay', from, vattp[Solo].sent)
  BY <1>1, <1>3, <1>6, <1>7, OutboundKeeps
<1>9. \A m \in Machines : Has(m)' = Has(m) /\ Sent(m)' = Sent(m)
  BY <1>1 DEF Has, Sent
<1>10. TypeInv'
  BY <1>1, <1>8 DEF Inv, TypeInv
<1>11. VattpInv' /\ GrowInv'
  BY <1>1 DEF Inv, VattpInv, GrowInv, Counted, Kept, Has, Sent
<1>12. SaveInv'
  BY <1>1 DEF Inv, SaveInv, Kept
<1>13. WireInv'
  <2>1. relay'.ack <= Has(Solo)
    BY <1>3, <1>5, <1>8 DEF Inv, WireInv, Vattp
  <2> QED BY <1>1, <1>2, <1>9, <2>1 DEF Inv, WireInv, InTransit, Has, Sent
<1>14. PoolInv'
  <2>1. PICK from \in 0..Has(Chain) :
          vattp[Solo].removed <= from /\ IsPool(relay', from, vattp[Solo].sent)
    BY <1>8
  <2>2. IsPool(relay, from, Sent(Solo))' /\ from \in 0..Has(Chain)'
    BY <1>2, <1>5, <1>9, <2>1 DEF IsPool
  <2>3. vattp'[Solo].removed <= from /\ Len(vattp'[Solo].queue) = 0
    BY <1>1, <1>4, <2>1
  <2> QED BY <2>2, <2>3 DEF PoolInv
<1> QED BY <1>10, <1>11, <1>12, <1>13, <1>14 DEF Inv

LEMMA SendFromMessagePoolStep == ASSUME Inv, SendFromMessagePool PROVE Inv'
<1> DEFINE tx == [messages |-> relay.pool, ack |-> relay.ack]
<1>1. /\ txs' = txs \cup {tx} /\ relay' = [relay EXCEPT !.sending = FALSE]
      /\ UNCHANGED <<vattp, box, disk, phase, published>>
  BY DEF SendFromMessagePool
<1>2. relay \in Relay
  BY DEF Inv, TypeInv
<1>3. /\ relay' \in Relay /\ relay'.pool = relay.pool /\ relay'.ack = relay.ack
      /\ relay'.highestSent = relay.highestSent
  BY <1>1, <1>2 DEF Relay
<1>4. tx \in Transaction /\ tx.messages = relay.pool /\ tx.ack = relay.ack
  BY <1>2 DEF Relay, Transaction
<1> HIDE DEF tx
<1>5. TypeInv'
  BY <1>1, <1>3, <1>4 DEF Inv, TypeInv
<1>6. VattpInv' /\ SaveInv' /\ GrowInv'
  BY <1>1 DEF Inv, VattpInv, SaveInv, GrowInv, Counted, Kept, Has, Sent
<1>7. InTransit(tx.messages, tx.ack, Chain)
  <2>1. PICK lo \in 0..Has(Chain) : IsPool(relay, lo, Sent(Solo))
    BY DEF Inv, PoolInv
  <2>2. relay.highestSent \in Nat
    BY <1>2 DEF Relay
  <2>3. IsBatch(relay.pool, Has(Chain), Sent(Solo))
    BY <2>1, <2>2 DEF IsPool, IsBatch
  <2>4. Other(Chain) = Solo
    BY DEF Other, Chain, Solo
  <2> QED BY <1>4, <2>3, <2>4 DEF InTransit, Inv, WireInv
<1>8. WireInv'
  BY <1>1, <1>3, <1>7 DEF Inv, WireInv, InTransit, Has, Sent
<1>9. PoolInv'
  BY <1>1, <1>3 DEF Inv, PoolInv, IsPool, Has, Sent
<1> QED BY <1>5, <1>6, <1>8, <1>9 DEF Inv

LEMMA LoseTransactionStep ==
  ASSUME Inv, NEW tx \in txs, LoseTransaction(tx)
  PROVE  Inv'
<1>1. /\ txs' \subseteq txs /\ relay' = [relay EXCEPT !.sending = TRUE]
      /\ UNCHANGED <<vattp, box, disk, phase, published>>
  BY DEF LoseTransaction, Retry
<1>2. /\ relay' \in Relay /\ relay'.pool = relay.pool /\ relay'.ack = relay.ack
      /\ relay'.highestSent = relay.highestSent
  BY <1>1 DEF Relay, Inv, TypeInv
<1>3. TypeInv'
  BY <1>1, <1>2 DEF Inv, TypeInv
<1>4. VattpInv' /\ SaveInv' /\ GrowInv'
  BY <1>1 DEF Inv, VattpInv, SaveInv, GrowInv, Counted, Kept, Has, Sent
<1>5. WireInv'
  BY <1>1, <1>2 DEF Inv, WireInv, InTransit, Has, Sent
<1>6. PoolInv'
  BY <1>1, <1>2 DEF Inv, PoolInv, IsPool, Has, Sent
<1> QED BY <1>3, <1>4, <1>5, <1>6 DEF Inv

(* A new process starts from a disk on which mailbox and kernel agree. *)
LEMMA CrashStep ==
  ASSUME Inv, Crash, TornSaves = FALSE
  PROVE  Inv'
<1> DEFINE v == disk[Solo].vattp
           b == disk[Solo].box
<1>1. /\ vattp' = [vattp EXCEPT ![Solo] = v] /\ box' = [box EXCEPT ![Solo] = b]
      /\ phase # "written" /\ phase' = "ready" /\ relay' = Outbound(NoRelay, b)
      /\ UNCHANGED <<disk, txs, published>>
  BY DEF Crash, Restarted
<1>2. Solo \in Machines /\ Chain \in Machines /\ Solo # Chain /\ Other(Solo) = Chain
  BY DEF Machines, Solo, Chain, Other
<1>3. v \in Vattp /\ b \in Box /\ Counted(v) /\ Kept(v, b) /\ v.queue = <<>>
  BY <1>1, <1>2, MachineTypes DEF Inv, VattpInv, SaveInv
<1>4. Has(Chain) \in Nat /\ v.removed <= Has(Chain) /\ v.removed \in Nat
  BY <1>2, <1>3, MachineTypes DEF Inv, GrowInv, Vattp
<1>5. Sent(Solo) = v.sent /\ Has(Solo) = v.delivered
  BY DEF Sent, Has
<1>6. /\ vattp'[Solo] = v /\ box'[Solo] = b
      /\ \A m \in Machines \ {Solo} : vattp'[m] = vattp[m] /\ box'[m] = box[m]
  BY <1>1, <1>2 DEF Inv, TypeInv
<1> HIDE DEF v, b
<1>7. NoRelay \in Relay /\ NoRelay.ack = 0 /\ IsPool(NoRelay, v.removed, v.sent)
  <2>1. None \in Messages /\ DOMAIN None = {}
    BY NoneIsBatch DEF None
  <2>2. NoRelay \in Relay /\ NoRelay.pool = None /\ NoRelay.highestSent = 0
        /\ NoRelay.ack = 0
    BY <2>1 DEF NoRelay, Relay
  <2>3. v.removed + 1 .. 0 = {}
    BY <1>4
  <2> QED BY <2>1, <2>2, <2>3 DEF IsPool
<1>8. /\ relay' \in Relay
      /\ relay'.ack = 0 \/ relay'.ack = v.delivered
      /\ \E from \in 0..Has(Chain) : v.removed <= from /\ IsPool(relay', from, v.sent)
  <2>1. v.removed <= v.removed
    BY <1>4
  <2> QED BY <1>1, <1>3, <1>4, <1>7, <2>1, OutboundKeeps
<1>9. \A m \in Machines : Has(m)' = Has(m) /\ Sent(m)' = Sent(m)
  BY <1>1 DEF Has, Sent
<1>10. TypeInv'
  BY <1>1, <1>3, <1>8 DEF Inv, TypeInv
<1>11. VattpInv'
  <2>1. VattpInv
    BY DEF Inv
  <2>2. \A m \in Machines : Counted(vattp'[m]) /\ Kept(vattp'[m], box'[m])
    BY <1>3, <1>6, <2>1 DEF VattpInv
  <2> QED BY <1>1, <2>1, <2>2 DEF VattpInv, Counted, Kept
<1>12. SaveInv'
  <2>1. disk'[Solo].vattp = v /\ disk'[Solo].box = b
    BY <1>1 DEF v, b
  <2>2. Kept(disk[Solo].vattp, disk[Solo].box)'
    BY <1>3, <2>1 DEF Kept
  <2> QED BY <1>1, <1>3, <1>6, <2>1, <2>2 DEF SaveInv
<1>13. GrowInv'
  <2>1. GrowInv
    BY DEF Inv
  <2> SUFFICES ASSUME NEW n \in Machines
               PROVE  /\ Begins(Sent(n), vattp[n].sent)'
                      /\ Begins(disk[n].vattp.got, vattp[n].got)'
                      /\ Begins(vattp[n].got, Sent(Other(n)))'
                      /\ (vattp[n].removed <= Has(Other(n)))'
                      /\ (disk[n].vattp.removed <= Has(Other(n)))'
    BY DEF GrowInv
  <2>2. Other(n) \in Machines
    BY OtherMachine
  <2>3. CASE n = Solo
    <3>1. /\ v.sent \in Seq(AllBodies) /\ v.got \in Seq(AllBodies)
          /\ vattp[Solo].got \in Seq(AllBodies) /\ Sent(Chain) \in Seq(AllBodies)
      BY <1>2, <1>3, MachineTypes DEF Inv, Vattp
    <3>2. Begins(v.got, vattp[Solo].got) /\ Begins(vattp[Solo].got, Sent(Chain))
      BY <1>2, <2>1 DEF GrowInv, v
    <3>3. /\ Begins(v.sent, v.sent) /\ Begins(v.got, v.got)
          /\ Begins(v.got, Sent(Chain))
      BY <3>1, <3>2, BeginsReflexive, BeginsTransitive
    <3>4. disk'[Solo].vattp = v /\ Sent(Solo)' = v.sent
      BY <1>1 DEF v, Sent
    <3> QED BY <1>2, <1>4, <1>6, <1>9, <2>3, <3>3, <3>4
  <2>4. CASE n # Solo
    BY <1>1, <1>6, <1>9, <2>1, <2>2, <2>4 DEF GrowInv
  <2> QED BY <2>3, <2>4
<1>14. WireInv'
  <2>1. relay'.ack <= Has(Solo)'
    <3>1. Has(Solo) \in Nat
      BY <1>2, MachineTypes DEF Inv
    <3> QED BY <1>2, <1>5, <1>8, <1>9, <3>1
  <2>2. \A m \in Machines : \A i \in 1..Len(vattp'[m].queue) :
          InTransit(vattp'[m].queue[i].messages, vattp'[m].queue[i].ack, m)
    <3> SUFFICES ASSUME NEW m \in Machines, NEW i \in 1..Len(vattp'[m].queue)
                 PROVE  InTransit(vattp'[m].queue[i].messages, vattp'[m].queue[i].ack, m)
      OBVIOUS
    <3>1. m # Solo
      BY <1>3, <1>6
    <3> QED BY <1>6, <3>1 DEF Inv, WireInv
  <2> QED BY <1>1, <2>1, <2>2 DEF Inv, WireInv, InTransit, Has, Sent
<1>15. PoolInv'
  <2>1. PICK from \in 0..Has(Chain) : v.removed <= from /\ IsPool(relay', from, v.sent)
    BY <1>8
  <2>2. IsPool(relay, from, Sent(Solo))' /\ from \in 0..Has(Chain)'
    BY <1>2, <1>5, <1>9, <2>1 DEF IsPool
  <2>3. vattp'[Solo].removed <= from /\ Len(vattp'[Solo].queue) = 0
    BY <1>3, <1>6, <2>1
  <2> QED BY <2>2, <2>3 DEF PoolInv
<1> QED BY <1>10, <1>11, <1>12, <1>13, <1>14, <1>15 DEF Inv

-----------------------------------------------------------------------------
(* Every step *)

(* What comms may say next is a body. *)
LEMMA BodiesAreBodies ==
  ASSUME NEW m \in Machines, NEW n \in Nat, n < MaxSends(m),
         NEW body \in Bodies[m][n + 1]
  PROVE  body \in AllBodies
<1>1. Bodies[m] \in Seq(SUBSET AllBodies)
  BY BodiesAssumption
<1>2. n + 1 \in 1..Len(Bodies[m])
  BY <1>1 DEF MaxSends
<1>3. Bodies[m][n + 1] \in SUBSET AllBodies
  BY <1>1, <1>2
<1> QED BY <1>3

LEMMA NextInv ==
  ASSUME Inv, [Next]_vars, TornSaves = FALSE
  PROVE  Inv'
<1> HIDE DEF Inv
<1>1. ASSUME NEW m \in Machines, vattp[m].added < MaxSends(m),
             NEW body \in Bodies[m][vattp[m].added + 1], Transmit(m, body)
      PROVE  Inv'
  <2>1. vattp[m].added \in Nat
    BY MachineTypes DEF Inv, Vattp
  <2>2. body \in AllBodies
    BY <1>1, <2>1, BodiesAreBodies
  <2> QED BY <1>1, <2>2, TransmitStep
<1>2. ASSUME SoloStep PROVE Inv'
  <2>1. Solo \in Machines
    BY DEF Machines
  <2> QED BY <1>2, <2>1, ProcessStep, SaveMailboxStep, SaveKernelStep,
             DeliverOutboundStep DEF SoloStep
<1>3. ASSUME NEW tx \in txs, LoseTransaction(tx) \/ IncludeTransaction(tx)
      PROVE  Inv'
  BY <1>3, LoseTransactionStep, IncludeTransactionStep
<1>4. ASSUME Process(Chain) PROVE Inv'
  <2>1. Chain \in Machines
    BY DEF Machines
  <2> QED BY <1>4, <2>1, ProcessStep
<1>5. ASSUME UNCHANGED vars PROVE Inv'
  <2>1. /\ vattp' = vattp /\ box' = box /\ disk' = disk /\ phase' = phase
        /\ relay' = relay /\ txs' = txs /\ published' = published
    BY <1>5 DEF vars
  <2>2. TypeInv' /\ SaveInv'
    BY <2>1 DEF Inv, TypeInv, SaveInv
  <2>3. VattpInv'
    BY <2>1 DEF Inv, VattpInv, Counted, Kept
  <2>4. GrowInv'
    BY <2>1 DEF Inv, GrowInv, Has, Sent
  <2>5. WireInv'
    BY <2>1 DEF Inv, WireInv, InTransit, Has, Sent
  <2>6. PoolInv'
    BY <2>1 DEF Inv, PoolInv, IsPool, Has, Sent
  <2> QED BY <2>2, <2>3, <2>4, <2>5, <2>6 DEF Inv
<1> QED BY <1>1, <1>2, <1>3, <1>4, <1>5, ReadMailboxStep, SendFromMessagePoolStep,
           CommitBlockStep, CrashStep DEF Next

(* The invariant holds, for any bounds, of every history in which no       *)
(* process dies between writing its mailbox file and committing its kernel *)
(* (saveState of start.js). *)
THEOREM InvHolds == TornSaves = FALSE /\ Spec => []Inv
<1>1. ASSUME TornSaves = FALSE PROVE Spec => []Inv
  <2>1. Inv /\ [Next]_vars => Inv'
    BY <1>1, NextInv
  <2> QED BY <2>1, InitInv, PTL DEF Spec
<1> QED BY <1>1

-----------------------------------------------------------------------------
(* What the invariant says *)

(* Comms receives what the other machine's comms has sent for good: in     *)
(* order, once and without a gap (deliverMessages of vat-vattp.js).        *)
THEOREM ReceivedIsSentHolds == TornSaves = FALSE /\ Spec => []ReceivedIsSent
<1>1. Inv => ReceivedIsSent
  BY DEF Inv, GrowInv, ReceivedIsSent, Sent
<1> QED BY <1>1, InvHolds, PTL

(* Nothing leaves the solo node that a crash could unsend (deliverOutbound *)
(* after saveState, in start.js). *)
THEOREM OutputIsEmbargoedHolds == TornSaves = FALSE /\ Spec => []OutputIsEmbargoed
<1>1. Inv => OutputIsEmbargoed
  <2> SUFFICES ASSUME Inv, NEW tx \in txs, NEW n \in DOMAIN tx.messages
               PROVE  n <= Len(Sent(Solo)) /\ tx.messages[n] = Sent(Solo)[n]
    BY DEF OutputIsEmbargoed, Sent
  <2>1. IsBatch(tx.messages, Has(Chain), Sent(Solo))
    <3>1. Other(Chain) = Solo
      BY DEF Other, Chain, Solo
    <3> QED BY <3>1 DEF Inv, WireInv, InTransit
  <2> QED BY <2>1 DEF IsBatch
<1> QED BY <1>1, InvHolds, PTL

(* What the receiver does not have for good, the saved outbox of the       *)
(* sender still has (deliverAck of vat-vattp.js removes no more). *)
THEOREM NothingIsLostHolds == TornSaves = FALSE /\ Spec => []NothingIsLost
<1>1. Inv => NothingIsLost
  <2> SUFFICES ASSUME Inv, NEW m \in Machines,
                      NEW n \in Len(disk[Other(m)].vattp.got) + 1 .. Len(Sent(m))
               PROVE  /\ n \in DOMAIN disk[m].box.outbox
                      /\ disk[m].box.outbox[n] = Sent(m)[n]
    BY DEF NothingIsLost, Sent
  <2>1. /\ Has(Other(m)) \in Nat /\ Len(disk[Other(m)].vattp.got) = Has(Other(m))
        /\ disk[m].vattp \in Vattp /\ vattp[m] \in Vattp
        /\ Counted(disk[m].vattp) /\ Counted(vattp[m]) /\ Kept(vattp[m], box[m])
    BY OtherMachine, MachineTypes DEF Inv, VattpInv, Counted, Has
  <2>2. /\ vattp[m].removed <= Has(Other(m)) /\ disk[m].vattp.removed <= Has(Other(m))
        /\ Begins(Sent(m), vattp[m].sent)
    BY DEF Inv, GrowInv
  <2>3. n \in Has(Other(m)) + 1 .. Len(Sent(m)) /\ Sent(m) = disk[m].vattp.sent
    BY <2>1 DEF Sent
  <2>4. CASE Kept(disk[m].vattp, disk[m].box)
    <3>1. n \in disk[m].vattp.removed + 1 .. disk[m].vattp.added
      <4>1. disk[m].vattp.added = Len(Sent(m)) /\ disk[m].vattp.removed \in Nat
        BY <2>1, <2>3 DEF Counted, Vattp
      <4> QED BY <2>1, <2>2, <2>3, <4>1
    <3> QED BY <2>3, <2>4, <3>1 DEF Kept
  <2>5. CASE disk[m].box = box[m]
    <3>1. n \in vattp[m].removed + 1 .. vattp[m].added /\ n \in 1..Len(Sent(m))
      <4>1. /\ vattp[m].added = Len(vattp[m].sent) /\ Len(Sent(m)) <= Len(vattp[m].sent)
            /\ vattp[m].sent \in Seq(AllBodies) /\ Sent(m) \in Seq(AllBodies)
            /\ vattp[m].removed \in Nat
        <5>1. vattp[m].added = Len(vattp[m].sent)
          BY <2>1 DEF Counted
        <5>2. /\ vattp[m].sent \in Seq(AllBodies) /\ disk[m].vattp.sent \in Seq(AllBodies)
              /\ vattp[m].removed \in Nat
          BY <2>1 DEF Vattp
        <5>3. Len(Sent(m)) <= Len(vattp[m].sent)
          BY <2>2 DEF Begins
        <5> QED BY <2>3, <5>1, <5>2, <5>3
      <4>2. Len(Sent(m)) \in Nat /\ Len(vattp[m].sent) \in Nat
        BY <4>1
      <4>3. n \in Nat /\ Has(Other(m)) < n /\ n <= Len(Sent(m))
        BY <2>1, <2>3, <4>2
      <4>4. vattp[m].removed < n
        BY <2>1, <2>2, <4>1, <4>3
      <4>5. 0 < n /\ n <= vattp[m].added
        BY <2>1, <4>1, <4>2, <4>3
      <4> QED BY <4>1, <4>2, <4>3, <4>4, <4>5
    <3>2. box[m].outbox[n] = vattp[m].sent[n] /\ vattp[m].sent[n] = Sent(m)[n]
      BY <2>1, <2>2, <3>1 DEF Kept, Begins
    <3> QED BY <2>1, <2>5, <3>1, <3>2 DEF Kept
  <2>6. Kept(disk[m].vattp, disk[m].box) \/ disk[m].box = box[m]
    BY DEF Inv, VattpInv, SaveInv, Machines
  <2> QED BY <2>4, <2>5, <2>6
<1> QED BY <1>1, InvHolds, PTL

-----------------------------------------------------------------------------
(* The channels *)

SentForGood == [m \in Machines |-> disk[m].vattp.sent]
GotForGood == [m \in Machines |-> disk[m].vattp.got]

LEMMA InitRefines == Init => ReliableChannel!Init
BY DEF Init, ReliableChannel!Init, NewVattp

(* A save of the kernel is a piece of work of that machine. *)
LEMMA SaveIsWork ==
  ASSUME Inv, Inv', NEW m \in Machines,
         disk'[m].vattp = vattp[m], \A n \in Machines \ {m} : disk'[n] = disk[n]
  PROVE  ReliableChannel!Work(m)
<1>1. /\ SentForGood' \in [Machines -> Seq(AllBodies)]
      /\ GotForGood' \in [Machines -> Seq(AllBodies)]
  BY DEF Inv, TypeInv, Vattp, SentForGood, GotForGood
<1>2. /\ Begins(SentForGood[m], SentForGood'[m])
      /\ Begins(GotForGood[m], GotForGood'[m])
  BY DEF Inv, GrowInv, Sent, SentForGood, GotForGood
<1>3. \A n \in Machines \ {m} :
        /\ SentForGood'[n] = SentForGood[n] /\ GotForGood'[n] = GotForGood[n]
        /\ Begins(GotForGood'[m], SentForGood[n])
  BY OtherMachine DEF Inv, GrowInv, Sent, SentForGood, GotForGood
<1> QED BY <1>1, <1>2, <1>3
    DEF SentForGood, GotForGood, Begins, ReliableChannel!Work, ReliableChannel!Begins

LEMMA NextRefines ==
  ASSUME Inv, Inv', [Next]_vars
  PROVE  [\E m \in Machines : ReliableChannel!Work(m)]_<<SentForGood, GotForGood>>
<1>1. Solo \in Machines /\ Chain \in Machines /\ Solo # Chain
  BY DEF Machines, Solo, Chain
<1>2. CASE SaveKernel
  <2>1. disk' = [disk EXCEPT ![Solo].vattp = vattp[Solo]]
    BY <1>2 DEF SaveKernel
  <2>2. disk'[Solo].vattp = vattp[Solo] /\ \A n \in Machines \ {Solo} : disk'[n] = disk[n]
    BY <1>1, <2>1 DEF Inv, TypeInv
  <2> QED BY <1>1, <2>2, SaveIsWork
<1>3. CASE CommitBlock
  <2>1. disk' = [disk EXCEPT ![Chain] = [vattp |-> vattp[Chain], box |-> box[Chain]]]
    BY <1>3 DEF CommitBlock
  <2>2. disk'[Chain].vattp = vattp[Chain] /\ \A n \in Machines \ {Chain} : disk'[n] = disk[n]
    BY <1>1, <2>1 DEF Inv, TypeInv
  <2> QED BY <1>1, <2>2, SaveIsWork
<1>4. CASE SaveMailbox
  <2>1. disk' = [disk EXCEPT ![Solo].box = box[Solo]]
    BY <1>4 DEF SaveMailbox
  <2>2. \A m \in Machines : disk'[m].vattp = disk[m].vattp
    BY <1>1, <2>1 DEF Inv, TypeInv
  <2> QED BY <2>2 DEF SentForGood, GotForGood
<1>5. CASE UNCHANGED disk
  BY <1>5 DEF SentForGood, GotForGood
<1>6. SaveKernel \/ CommitBlock \/ SaveMailbox \/ UNCHANGED disk
  BY DEF Next, vars, SoloStep, Transmit, Process, DeliverOutbound, SendFromMessagePool,
         ReadMailbox, LoseTransaction, IncludeTransaction, Crash
<1> QED BY <1>2, <1>3, <1>4, <1>5, <1>6

(* Mailboxes, relay, lost transactions and crashes together implement two  *)
(* reliable channels of what has been saved. *)
THEOREM MailboxesImplementChannel == TornSaves = FALSE /\ Spec => RefinesChannel
<1>1. Inv /\ Inv' /\ [Next]_vars =>
        [\E m \in Machines : ReliableChannel!Work(m)]_<<SentForGood, GotForGood>>
  BY NextRefines
<1> QED BY <1>1, InitRefines, InvHolds, PTL
    DEF Spec, RefinesChannel, ReliableChannel!Spec, SentForGood, GotForGood
=============================================================================

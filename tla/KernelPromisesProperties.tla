----------------------- MODULE KernelPromisesProperties -----------------------
(***************************************************************************)
(* What the promise table, the queues and the c-lists of KernelPromises    *)
(* must satisfy.                                                           *)
(***************************************************************************)
EXTENDS KernelPromises

\* The sends the kernel holds: on both queues and on those of the promises.
QueuedEvents(kk) == ToSet(kk.acceptanceQueue) \cup ToSet(kk.runQueue)
QueuedSends(kk) ==
  {e \in QueuedEvents(kk) : e.type = "send"}
    \cup UNION {ToSet(kk.promises[p].queue) : p \in Promises}
Notifications(kk) == {e \in QueuedEvents(kk) : e.type = "notify"}
CountNotifications(kk, p) ==
  LET notices == [type : {"notify"}, vat : Vats, kpid : {p}]
  IN CountIn(kk.acceptanceQueue, notices) + CountIn(kk.runQueue, notices)

-----------------------------------------------------------------------------
\* Type invariant of the kernel state, the savepoint and the crank.
TypeOK == {k, saved} \subseteq KernelState /\ crank \in CrankType

\* The references to a promise: c-list entries, sends that target it, pass
\* it or have it as their result, notifications, settled data, and the host.
References(kk, p) ==
  Cardinality({v \in Vats : p \in kk.clist[v]})
  + Cardinality({e \in QueuedSends(kk) : e.target = Promise(p)})
  + Cardinality({e \in QueuedSends(kk) : e.arg = Promise(p)})
  + Cardinality({e \in QueuedSends(kk) : e.result = p})
  + CountNotifications(kk, p)
  + kk.external[p]
  + Cardinality({q \in Promises : kk.promises[q].data = Promise(p)})

\* The count the kernel keeps for a promise is the number of references to
\* it, whichever way sends move between the queues and whatever is aborted:
\* too low and a promise is deleted under a vat, too high and it stays.
PromiseRefCountsExact == \A p \in Promises : k.promises[p].refCount = References(k, p)

\* Exactly one party will resolve an unresolved promise: a vat, or the one
\* queued send that has it as its result.  With two, a resolution panics the
\* kernel; with none, the subscribers wait forever.  A vat that decides it is
\* alive and has it in its c-list, where enumeratePromisesByDecider looks for
\* the promises to reject when the vat dies.
OneResolver ==
  \A p \in Promises :
    LET v == k.promises[p].decider
    IN /\ Unresolved(k, p) =>
            Cardinality({e \in QueuedSends(k) : e.result = p})
              + (IF v = NoVat THEN 0 ELSE 1) = 1
       /\ v # NoVat => v \in k.live /\ p \in k.clist[v]

\* A vat that waits for a promise is told: it is a subscriber as long as the
\* promise is unresolved, then a notify is queued, and the c-list entry that
\* processNotify insists on is kept until then.
NoLostNotification ==
  \A v \in k.live : \A p \in k.awaiting[v] :
    /\ p \in k.clist[v]
    /\ IF Unresolved(k, p) THEN v \in k.promises[p].subscribers
       ELSE \E e \in Notifications(k) : e.vat = v /\ e.kpid = p

\* None of the kernel's assertions fails: no promise is resolved twice or by
\* the wrong vat, counted below zero or looked up after its deletion, no
\* message reaches the wrong decider and no notification is spurious.
KernelNeverFails == ~k.failed

-----------------------------------------------------------------------------
\* A send reaches a vat only after every earlier send of the same sender to
\* the same target did, or was rejected: promise queues, re-targeting and
\* failed deliveries do not reorder them.  (When a pipelining vat hands on the
\* promise, what was on its way to that vat is queued again behind later sends.)
DeliversInOrder ==
  [][ DeliverSend /\ crank'.type # "idle" =>
        LET e == Head(k.runQueue)
        IN \A f \in QueuedSends(k') :
             f.sender = e.sender /\ f.named = e.named
               /\ f.named \notin {Promise(p) : p \in k'.handedOn}
               => f.number > e.number ]_vars

-----------------------------------------------------------------------------
\* A live vat that waits for a promise that is settled when a crank ends (what
\* a crank settles may be undone) hears of it, or dies: across the deaths,
\* upgrades and aborts of the other vats, and its own.
SubscribersAreNotified ==
  \A v \in Vats, p \in Promises :
    (Running /\ p \in k.awaiting[v] /\ Settled(k, p)) ~> (p \notin k.awaiting[v])

\* A send whose target has settled, or is an object, does not stay queued: it is
\* delivered, or rejected because the vat that should get it is gone.
SettledSendsAreServed ==
  \A n \in 1..MaxSends :
    (Running /\ \E e \in QueuedSends(k) :
        e.number = n /\ (e.target.type = "promise" => Settled(k, e.target.id)))
      ~> (\A e \in QueuedSends(k) : e.number # n)
=============================================================================

------------------------- MODULE LiveslotsProperties -------------------------
(***************************************************************************)
(* What Liveslots must keep, what it must let go of, and what it may tell  *)
(* the kernel.  What is in use is computed here from what the vat's code   *)
(* holds and what storage contains, not from the counts of liveslots.      *)
(***************************************************************************)
EXTENDS Liveslots

\* What the vat's code holds in RAM, and what other vats can still reach.
Roots ==
  held \cup {o \in Exports : clist[o] = "reach"}
       \cup {e.val : e \in {f \in vat.entries : f.holder \in WeakMaps}}

\* The stored objects reached from there: the least set that has the roots
\* and, with an object, what its state or its entries refer to.
ReachedInStore ==
  LET roots == Roots \cap Stored
      links == {e \in InStore(vat.entries) : e.val \in Stored}
      Closed(S) == roots \subseteq S /\ \A e \in links : e.holder \in S => e.val \in S
  IN {o \in Stored : \A S \in SUBSET Stored : Closed(S) => o \in S}

Used ==
  Roots \cup {e.val : e \in {f \in InStore(vat.entries) : f.holder \in ReachedInStore}}

\* An object that is reachable, across RAM, storage and the other vats, is
\* there when it is asked for: the kernel thinks the vat reaches the import,
\* the stored object is not deleted, the Remotable is not collected.  And
\* what a weak collection has as a key is not retired, or its entry would not
\* be found when the object comes back.
WhatIsUsedIsKept ==
  LET used == Used
      recognized == {e.key : e \in vat.entries}
  IN /\ \A o \in Presences \cap used : clist[o] = "reach"
     /\ \A o \in Presences \cap recognized : clist[o] # "gone"
     /\ Stored \cap (used \cup recognized) \subseteq vat.alive
     /\ \A o \in Remotables \cap used : vat.val[o] \in {"unnamed", "live"}

\* Neither the kernel nor an assertion of liveslots ever finds fault with the
\* vat: each retirement is of something in the c-list that is not reachable,
\* whichever of the vat and the kernel retires first, no count goes below
\* zero, and nothing is deleted twice or while it is in use.
SyscallsAreLegal == ~vat.failed

Stores(o) == \E e \in InStore(vat.entries) : e.val = o

\* Between scans, whatever has lost its last support (RAM, storage, export)
\* is waiting in one of the sets bringOutYourDead reads, or its finalizer is
\* still to run: otherwise no later scan would drop, delete or retire it.
NothingIsForgotten ==
  LET gone(o) == vat.val[o] = "absent" /\ ~Stores(o)
  IN scan.phase = "idle" =>
       /\ \A o \in Vrefs : vat.val[o] = "collected" => callbacks[o] > 0
       /\ \A o \in Presences :
            /\ gone(o) /\ clist[o] = "reach" => o \in vat.dead
            /\ gone(o) /\ clist[o] = "seen" /\ ~IsRecognizable(vat, o)
                 => o \in vat.retired \cup vat.dead
       /\ \A o \in vat.alive : gone(o) /\ clist[o] # "reach" => o \in vat.dead
       /\ \A o \in Remotables :
            gone(o) /\ (clist[o] = "seen" \/ IsRecognizable(vat, o)) => o \in vat.dead
=============================================================================

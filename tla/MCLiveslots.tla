---------------------------- MODULE MCLiveslots ----------------------------
(* Liveslots for model checking: a virtual object whose state is a         *)
(* Presence or a Remotable, and a weak store and a WeakMap that recognize  *)
(* the same Presence.                                                      *)
EXTENDS LiveslotsProperties

CONSTANTS p, r, v, s, m

MCContents ==
  {[holder |-> v, key |-> NoVref, val |-> p], [holder |-> v, key |-> NoVref, val |-> r],
   [holder |-> s, key |-> p, val |-> v], [holder |-> m, key |-> p, val |-> r]}
=============================================================================

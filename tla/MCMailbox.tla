------------------------------ MODULE MCMailbox ------------------------------
(* Mailbox for model checking: the solo node may find something else to    *)
(* say after a crash.                                                      *)
EXTENDS MailboxProperties

CONSTANTS a, b

MCBodies == [m \in Machines |-> IF m = Solo THEN <<{a, b}, {a}>> ELSE <<{a}>>]
=============================================================================

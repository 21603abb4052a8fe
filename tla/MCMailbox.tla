----------------------------- MODULE MCMailbox -----------------------------
(* Three ordinary mails, two of them with the same id, and two exit mails. *)
EXTENDS Mailbox

CONSTANTS m1, m2, m3, k1, k2

MCMail == {m1, m2, m3, k1, k2}
MCExitMail == {k1, k2}
MCMailId == [m \in MCMail |-> IF m \in {m1, m2} THEN 7 ELSE 0]
=============================================================================

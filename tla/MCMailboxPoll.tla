--------------------------- MODULE MCMailboxPoll ----------------------------
(* Instances of MailboxPoll.  Ids are numbers so that arrival orders them.  *)
EXTENDS MailboxPoll

TwoMails == 1..2
ThreeMails == 1..3
Expire == {"expire", "vanish"}
Labels == {"label"}
AllEvents == {"expire", "vanish", "label"}
=============================================================================

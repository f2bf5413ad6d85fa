-------------------------- MODULE MCGmailPipeline --------------------------
(* Small instances of GmailPipeline for TLC. *)
EXTENDS GmailPipeline, TLC

\* The mail of the shop and the mail of the bank name one purchase.
OnePurchase == [m \in Emails |-> "reference"]
=============================================================================

--------------------------- MODULE MCMailDelivery ---------------------------
\* Small instances of MailDelivery for TLC.
EXTENDS MailDelivery, TLC

\* Runners are interchangeable, and so are recipients.
RunnerSymmetry == Permutations(Runner) \cup Permutations(Recipient)
=============================================================================

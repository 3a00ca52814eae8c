----------------------------- MODULE MCAccounts -----------------------------
\* A small instance of Accounts for TLC.
EXTENDS Accounts, TLC

\* Requests are interchangeable, and so are addresses and invitations.
Symmetry == Permutations(Request) \cup Permutations(Email) \cup Permutations(Invitation)
=============================================================================

--------------------------- MODULE DeliveryLedger ---------------------------
(***************************************************************************)
(* What the mail digest promises to the people on its list, without        *)
(* claims, leases, retries or processes: a window is opened with its       *)
(* addressees, each of them is settled once, and the window closes in the  *)
(* step that settles the last of them or that cancels the rest.            *)
(***************************************************************************)
EXTENDS Integers

CONSTANTS Due, Recipient

VARIABLES
    phase,     \* none, open, completed or failed, per window
    outcome    \* per window and recipient: none, owed, sent or dropped

Init ==
    /\ phase = [w \in Due |-> "none"]
    /\ outcome = [w \in Due |-> [r \in Recipient |-> "none"]]

\* Windows are opened in order and one at a time.
Open(w, R) ==
    /\ phase[w] = "none"
    /\ \A v \in Due : (v >= w => phase[v] = "none") /\ phase[v] # "open"
    /\ phase' = [phase EXCEPT ![w] = "open"]
    /\ outcome' = [outcome EXCEPT ![w] = [r \in Recipient |-> IF r \in R THEN "owed" ELSE "none"]]

\* One addressee is settled for good; the last one closes the window, which is
\* completed only when every addressee was sent the mail.
Settle(w, r, result) ==
    /\ phase[w] = "open"
    /\ outcome[w][r] = "owed"
    /\ outcome' = [outcome EXCEPT ![w][r] = result]
    /\ phase' = [phase EXCEPT ![w] =
           IF \E s \in Recipient : outcome'[w][s] = "owed" THEN "open"
           ELSE IF \E s \in Recipient : outcome'[w][s] = "dropped" THEN "failed"
           ELSE "completed"]

\* Nothing is left to tell: the window is completed and the rest is dropped.
Cancel(w) ==
    /\ phase[w] = "open"
    /\ phase' = [phase EXCEPT ![w] = "completed"]
    /\ outcome' = [outcome EXCEPT ![w] = [r \in Recipient |->
           IF outcome[w][r] = "owed" THEN "dropped" ELSE outcome[w][r]]]

Next ==
    \E w \in Due :
        \/ \E R \in SUBSET Recipient : Open(w, R)
        \/ \E r \in Recipient, result \in {"sent", "dropped"} : Settle(w, r, result)
        \/ Cancel(w)

Spec == Init /\ [][Next]_<<phase, outcome>>
=============================================================================

---------------------------- MODULE MailDelivery ----------------------------
(***************************************************************************)
(* The mail digest of one schedule: windows with a frozen list of          *)
(* addressees, one delivery per addressee, and the runners that claim,     *)
(* send and finalize deliveries or complete a window that has nothing      *)
(* left to say.                                                            *)
(*                                                                         *)
(*   internal/app/postgres_digest.go   DueDigests, CompleteNoop            *)
(*   internal/app/digest_runner.go     DigestRunner.Run                    *)
(*   internal/store/deliveries.go      Claim, FinalizeSent/Failure         *)
(*                                                                         *)
(* A step is one database transaction or one call of the mail server.      *)
(* Claim and the two finalizations lock the window row in a statement of   *)
(* their own, so each is atomic.  completeNoopDigestWindow is a single     *)
(* statement: it reads the deliveries in the snapshot taken when the       *)
(* statement starts and may then wait for the window row, so it is two     *)
(* steps.                                                                  *)
(*                                                                         *)
(* Time is the index of the newest due time that has passed, and for each  *)
(* claim whether its 15 minutes are over.                                  *)
(***************************************************************************)
EXTENDS Integers, FiniteSets

CONSTANTS
    Runner,      \* processes that run the digest job
    Recipient,   \* recipients of the tenant
    MaxDue,      \* bound: due times that may pass
    NoDelivery

MaxDeliveryAttempts == 3

Due      == 1..MaxDue
Delivery == Due \X Recipient

ASSUME ConstantsAssumption == MaxDue \in Nat /\ NoDelivery \notin Delivery

VARIABLES
    due,          \* newest due time that has passed, 0 for none
    window,       \* public.digest_windows.status
    addressees,   \* public.digest_window_recipients
    items,        \* whether the window's frozen snapshot has any item
    lastSuccess,  \* schedules.last_success_at, as the index of a due time
    status,       \* public.deliveries: none, sending, failed or sent
    attempts,     \* deliveries.attempts
    token,        \* deliveries.claim_token; a new claim makes a new one
    leased,       \* claimed_at is no more than 15 minutes ago
    pc,           \* per runner: idle, working, send, sent, unsent, noop, noopSeen
    win,          \* per runner: the window of its works
    todo,         \* per runner: recipients of the works not yet taken up
    cur,          \* per runner: the delivery in hand
    curToken, curAttempts,   \* per runner: its reservation
    seen,         \* per runner: deliveries in the statement's snapshot
    seenLease,    \* per runner: whether one of them has an active lease
    delivered     \* history: attempts whose mail the server accepted

dbVars   == <<due, window, addressees, items, lastSuccess, status, attempts, token, leased>>
runVars  == <<pc, win, todo, cur, curToken, curAttempts, seen, seenLease>>
vars == <<due, window, addressees, items, lastSuccess, status, attempts, token, leased,
          pc, win, todo, cur, curToken, curAttempts, seen, seenLease, delivered>>

Init ==
    /\ due = 0
    /\ window = [w \in Due |-> "none"]
    /\ addressees = [w \in Due |-> {}]
    /\ items = [w \in Due |-> FALSE]
    /\ lastSuccess = 0
    /\ status = [d \in Delivery |-> "none"]
    /\ attempts = [d \in Delivery |-> 0]
    /\ token = [d \in Delivery |-> 0]
    /\ leased = [d \in Delivery |-> FALSE]
    /\ pc = [p \in Runner |-> "idle"]
    /\ win = [p \in Runner |-> 0]
    /\ todo = [p \in Runner |-> {}]
    /\ cur = [p \in Runner |-> NoDelivery]
    /\ curToken = [p \in Runner |-> 0]
    /\ curAttempts = [p \in Runner |-> 0]
    /\ seen = [p \in Runner |-> {}]
    /\ seenLease = [p \in Runner |-> FALSE]
    /\ delivered = {}

-----------------------------------------------------------------------------
(***************************************************************************)
(* Time.                                                                   *)
(***************************************************************************)

DueTime ==
    /\ due < MaxDue
    /\ due' = due + 1
    /\ UNCHANGED <<window, addressees, items, lastSuccess, status, attempts, token, leased, delivered>>
    /\ UNCHANGED runVars

LeaseExpires(d) ==
    /\ status[d] = "sending"
    /\ leased[d]
    /\ leased' = [leased EXCEPT ![d] = FALSE]
    /\ UNCHANGED <<due, window, addressees, items, lastSuccess, status, attempts, token, delivered>>
    /\ UNCHANGED runVars

-----------------------------------------------------------------------------
(***************************************************************************)
(* DueDigests: one transaction under the collection lock.  The pending     *)
(* window comes first; without one, the newest due time that has passed    *)
(* gets a window with its frozen items and recipients.                     *)
(***************************************************************************)

Pending == {w \in Due : window[w] = "pending"}

\* A window without items never has a notice; the deadline of a notice may be
\* revised or pass at any time, so each reading finds some open or none.
Readings(w) == {open \in BOOLEAN : open => items[w]}

\* With no notice or no addressee the only work is to complete the window.
\* An error of another tenant discards the works after the window is committed.
TakeWorks(p, w, R, open) ==
    \/ /\ win' = [win EXCEPT ![p] = w]
       /\ IF open /\ R # {}
          THEN /\ pc' = [pc EXCEPT ![p] = "working"]
               /\ todo' = [todo EXCEPT ![p] = R]
          ELSE /\ pc' = [pc EXCEPT ![p] = "noop"]
               /\ todo' = todo
    \/ UNCHANGED <<pc, win, todo>>

DueDigestsPending(p) ==
    /\ pc[p] = "idle"
    /\ \E w \in Pending :
           \E open \in Readings(w) : TakeWorks(p, w, addressees[w], open)
    /\ UNCHANGED <<cur, curToken, curAttempts, seen, seenLease, delivered>>
    /\ UNCHANGED dbVars

DueDigestsNew(p) ==
    /\ pc[p] = "idle"
    /\ Pending = {}
    /\ due > lastSuccess
    /\ window[due] = "none"
    /\ \E R \in SUBSET Recipient, has \in BOOLEAN :
           /\ window' = [window EXCEPT ![due] = "pending"]
           /\ addressees' = [addressees EXCEPT ![due] = R]
           /\ items' = [items EXCEPT ![due] = has]
           /\ TakeWorks(p, due, R, has)
    /\ UNCHANGED <<due, lastSuccess, status, attempts, token, leased>>
    /\ UNCHANGED <<cur, curToken, curAttempts, seen, seenLease, delivered>>

-----------------------------------------------------------------------------
(***************************************************************************)
(* completeScheduleWindow, at the end of a claim or finalization: s and a  *)
(* are the deliveries' status and attempts as the transaction leaves them. *)
(***************************************************************************)

Exhausted(s, a, d) == s[d] = "failed" /\ a[d] >= MaxDeliveryAttempts

Terminal(s, a, d) == s[d] = "sent" \/ Exhausted(s, a, d)

AllSent(w, s) == \A r \in addressees[w] : s[<<w, r>>] = "sent"

Settled(w, s, a) ==
    /\ window[w] = "pending"
    /\ addressees[w] # {}
    /\ \A r \in addressees[w] : Terminal(s, a, <<w, r>>)

Later(a, b) == IF a >= b THEN a ELSE b

CompleteScheduleWindow(w, s, a) ==
    IF Settled(w, s, a)
    THEN /\ window' = [window EXCEPT ![w] = IF AllSent(w, s) THEN "completed" ELSE "failed"]
         /\ lastSuccess' = Later(lastSuccess, w)
    ELSE UNCHANGED <<window, lastSuccess>>

-----------------------------------------------------------------------------
(***************************************************************************)
(* DeliveryRepository.Claim for one work of the list.                      *)
(***************************************************************************)

\* Fault: the retry limit hides an expired claim from later runners.
ClaimableBelowLimit(d) ==
    \/ status[d] = "none"
    \/ status[d] \in {"failed", "sending"} /\ attempts[d] < MaxDeliveryAttempts /\ ~leased[d]

Claimable(d) ==
    \/ status[d] = "none"
    \/ status[d] = "failed" /\ attempts[d] < MaxDeliveryAttempts
    \/ status[d] = "sending" /\ ~leased[d]

\* An expired claim of the last attempt is given up, not claimed again.
GivesUp(d) == status[d] = "sending" /\ attempts[d] >= MaxDeliveryAttempts

\* Fault: taking over an expired lease does not count as an attempt.
AttemptsOfFailuresOnly(d) ==
    IF status[d] # "sending" THEN attempts[d] + 1 ELSE attempts[d]

NextAttempts(d) ==
    IF attempts[d] < MaxDeliveryAttempts THEN attempts[d] + 1 ELSE attempts[d]

Drop(p, r) == todo' = [todo EXCEPT ![p] = @ \ {r}]

\* The window is closed: nothing is claimed and the runner skips the work.
ClaimClosed(p, r) ==
    /\ pc[p] = "working" /\ r \in todo[p]
    /\ window[win[p]] # "pending"
    /\ Drop(p, r)
    /\ UNCHANGED <<pc, win, cur, curToken, curAttempts, seen, seenLease, delivered>>
    /\ UNCHANGED dbVars

\* Another runner has the delivery or it is final.
ClaimTaken(p, r) ==
    LET d == <<win[p], r>> IN
    /\ pc[p] = "working" /\ r \in todo[p]
    /\ window[win[p]] = "pending"
    /\ ~Claimable(d)
    /\ CompleteScheduleWindow(win[p], status, attempts)
    /\ Drop(p, r)
    /\ UNCHANGED <<pc, win, cur, curToken, curAttempts, seen, seenLease, delivered>>
    /\ UNCHANGED <<due, addressees, items, status, attempts, token, leased>>

ClaimGivesUp(p, r) ==
    LET d == <<win[p], r>>
        s == [status EXCEPT ![d] = "failed"]
    IN
    /\ pc[p] = "working" /\ r \in todo[p]
    /\ window[win[p]] = "pending"
    /\ Claimable(d) /\ GivesUp(d)
    /\ status' = s
    /\ token' = [token EXCEPT ![d] = @ + 1]
    /\ leased' = [leased EXCEPT ![d] = FALSE]
    /\ CompleteScheduleWindow(win[p], s, attempts)
    /\ Drop(p, r)
    /\ UNCHANGED <<pc, win, cur, curToken, curAttempts, seen, seenLease, delivered>>
    /\ UNCHANGED <<due, addressees, items, attempts>>

\* The claim is committed; heard says whether the runner learns of it.
ClaimDelivery(p, r, heard) ==
    LET d == <<win[p], r>> IN
    /\ pc[p] = "working" /\ r \in todo[p]
    /\ window[win[p]] = "pending"
    /\ Claimable(d) /\ ~GivesUp(d)
    /\ status' = [status EXCEPT ![d] = "sending"]
    /\ attempts' = [attempts EXCEPT ![d] = NextAttempts(d)]
    /\ token' = [token EXCEPT ![d] = @ + 1]
    /\ leased' = [leased EXCEPT ![d] = TRUE]
    /\ Drop(p, r)
    /\ IF heard
       THEN /\ pc' = [pc EXCEPT ![p] = "send"]
            /\ cur' = [cur EXCEPT ![p] = d]
            /\ curToken' = [curToken EXCEPT ![p] = token[d] + 1]
            /\ curAttempts' = [curAttempts EXCEPT ![p] = NextAttempts(d)]
       ELSE UNCHANGED <<pc, cur, curToken, curAttempts>>
    /\ UNCHANGED <<due, window, addressees, items, lastSuccess, win, seen, seenLease, delivered>>

\* The transaction fails and is rolled back; the runner goes on with the next work.
ClaimFails(p, r) ==
    /\ pc[p] = "working" /\ r \in todo[p]
    /\ Drop(p, r)
    /\ UNCHANGED <<pc, win, cur, curToken, curAttempts, seen, seenLease, delivered>>
    /\ UNCHANGED dbVars

-----------------------------------------------------------------------------
(***************************************************************************)
(* Sending and finalizing.                                                 *)
(***************************************************************************)

\* The server accepts the mail or not; an error may hide that it did.  A
\* message that cannot be built ends like a refused one.
Send(p, accepted, ok) ==
    /\ pc[p] = "send"
    /\ ok => accepted
    /\ delivered' = IF accepted THEN delivered \cup {<<cur[p], curAttempts[p]>>} ELSE delivered
    /\ pc' = [pc EXCEPT ![p] = IF ok THEN "sent" ELSE "unsent"]
    /\ UNCHANGED <<win, todo, cur, curToken, curAttempts, seen, seenLease>>
    /\ UNCHANGED dbVars

\* Fault: finalization does not look at the window.
FencedByClaim(p) ==
    /\ status[cur[p]] = "sending"
    /\ token[cur[p]] = curToken[p]
    /\ attempts[cur[p]] = curAttempts[p]

\* Fault: finalization finds the delivery by its key alone.
FencedByKey(p) == window[win[p]] = "pending" /\ status[cur[p]] = "sending"

\* The window is pending and the delivery still carries the runner's claim.
Fenced(p) ==
    /\ window[win[p]] = "pending"
    /\ status[cur[p]] = "sending"
    /\ token[cur[p]] = curToken[p]
    /\ attempts[cur[p]] = curAttempts[p]

Finalize(p, result) ==
    LET s == [status EXCEPT ![cur[p]] = result] IN
    /\ Fenced(p)
    /\ status' = s
    /\ CompleteScheduleWindow(win[p], s, attempts)

\* A runner is done with the delivery in hand and takes up the next work.
Release(p) ==
    /\ pc' = [pc EXCEPT ![p] = "working"]
    /\ cur' = [cur EXCEPT ![p] = NoDelivery]
    /\ curToken' = [curToken EXCEPT ![p] = 0]
    /\ curAttempts' = [curAttempts EXCEPT ![p] = 0]

FinalizeSent(p) ==
    /\ pc[p] = "sent"
    /\ Finalize(p, "sent")
    /\ Release(p)
    /\ UNCHANGED <<due, addressees, items, attempts, token, leased, win, todo, seen, seenLease, delivered>>

FinalizeFailure(p) ==
    /\ pc[p] = "unsent"
    /\ Finalize(p, "failed")
    /\ Release(p)
    /\ UNCHANGED <<due, addressees, items, attempts, token, leased, win, todo, seen, seenLease, delivered>>

\* ErrDeliveryNotClaimed, or the transaction fails: nothing is recorded.
FinalizeRefused(p) ==
    /\ pc[p] \in {"sent", "unsent"}
    /\ Release(p)
    /\ UNCHANGED <<win, todo, seen, seenLease, delivered>>
    /\ UNCHANGED dbVars

-----------------------------------------------------------------------------
(***************************************************************************)
(* CompleteNoop.                                                           *)
(***************************************************************************)

\* The statement starts: its snapshot of the deliveries is fixed.
NoopSnapshot(p) ==
    /\ pc[p] = "noop"
    /\ LET rows == {d \in Delivery : d[1] = win[p] /\ status[d] # "none"} IN
       /\ seen' = [seen EXCEPT ![p] = rows]
       /\ seenLease' = [seenLease EXCEPT ![p] =
              \E d \in rows : status[d] = "sending" /\ leased[d]]
    /\ pc' = [pc EXCEPT ![p] = "noopSeen"]
    /\ UNCHANGED <<win, todo, cur, curToken, curAttempts, delivered>>
    /\ UNCHANGED dbVars

\* It has the window row, in its newest version, and acts on what it saw.
NoopCompletes(p) ==
    LET w == win[p] IN
    /\ window[w] = "pending" /\ ~seenLease[p]
    /\ status' = [d \in Delivery |->
           IF d \in seen[p] /\ status[d] # "sent" THEN "failed" ELSE status[d]]
    /\ window' = [window EXCEPT ![w] = "completed"]
    /\ lastSuccess' = Later(lastSuccess, w)

\* The job of a runner ends, and with it all it remembered.
Idle(p) ==
    /\ pc' = [pc EXCEPT ![p] = "idle"]
    /\ win' = [win EXCEPT ![p] = 0]
    /\ todo' = [todo EXCEPT ![p] = {}]
    /\ cur' = [cur EXCEPT ![p] = NoDelivery]
    /\ curToken' = [curToken EXCEPT ![p] = 0]
    /\ curAttempts' = [curAttempts EXCEPT ![p] = 0]
    /\ seen' = [seen EXCEPT ![p] = {}]
    /\ seenLease' = [seenLease EXCEPT ![p] = FALSE]

CompleteNoop(p) ==
    /\ pc[p] = "noopSeen"
    /\ \/ NoopCompletes(p)
       \/ /\ window[win[p]] # "pending" \/ seenLease[p]
          /\ UNCHANGED <<status, window, lastSuccess>>
    /\ Idle(p)
    /\ UNCHANGED <<due, addressees, items, attempts, token, leased, delivered>>

-----------------------------------------------------------------------------
\* The list is worked off; the job ends.
EndRun(p) ==
    /\ pc[p] = "working" /\ todo[p] = {}
    /\ Idle(p)
    /\ UNCHANGED dbVars
    /\ UNCHANGED delivered

\* The process dies or its context is cancelled; the scheduler starts it anew.
Crash(p) ==
    /\ pc[p] # "idle"
    /\ Idle(p)
    /\ UNCHANGED dbVars
    /\ UNCHANGED delivered

Run(p) ==
    \/ DueDigestsPending(p) \/ DueDigestsNew(p)
    \/ \E r \in Recipient :
           \/ ClaimClosed(p, r) \/ ClaimTaken(p, r) \/ ClaimGivesUp(p, r) \/ ClaimFails(p, r)
           \/ \E heard \in BOOLEAN : ClaimDelivery(p, r, heard)
    \/ \E accepted, ok \in BOOLEAN : Send(p, accepted, ok)
    \/ FinalizeSent(p) \/ FinalizeFailure(p) \/ FinalizeRefused(p)
    \/ NoopSnapshot(p) \/ CompleteNoop(p)
    \/ EndRun(p) \/ Crash(p)

Next ==
    \/ DueTime
    \/ \E d \in Delivery : LeaseExpires(d)
    \/ \E p \in Runner : Run(p)

Spec == Init /\ [][Next]_vars

\* The job runs every minute: errors and crashes do not last for ever, a send
\* ends, and a lease runs out.
Fairness ==
    /\ \A d \in Delivery : WF_vars(LeaseExpires(d))
    /\ \A p \in Runner :
           /\ SF_vars(DueDigestsPending(p))
           /\ SF_vars(\E r \in Recipient :
                  ClaimTaken(p, r) \/ ClaimGivesUp(p, r) \/ ClaimDelivery(p, r, TRUE))
           /\ WF_vars(\E r \in Recipient : ClaimClosed(p, r))
           /\ WF_vars(\E accepted, ok \in BOOLEAN : Send(p, accepted, ok))
           /\ WF_vars(FinalizeRefused(p))
           /\ SF_vars(NoopSnapshot(p)) /\ SF_vars(CompleteNoop(p))
           /\ WF_vars(EndRun(p))

FairSpec == Spec /\ Fairness

-----------------------------------------------------------------------------
\* The types of the variables; a runner refuses a reservation beyond the third
\* attempt (DigestRunner.Run).
TypeOK ==
    /\ due \in 0..MaxDue
    /\ window \in [Due -> {"none", "pending", "completed", "failed"}]
    /\ addressees \in [Due -> SUBSET Recipient]
    /\ items \in [Due -> BOOLEAN]
    /\ lastSuccess \in 0..MaxDue
    /\ status \in [Delivery -> {"none", "sending", "failed", "sent"}]
    /\ attempts \in [Delivery -> 0..3]
    /\ token \in [Delivery -> Nat]
    /\ leased \in [Delivery -> BOOLEAN]
    /\ pc \in [Runner -> {"idle", "working", "send", "sent", "unsent", "noop", "noopSeen"}]
    /\ win \in [Runner -> 0..MaxDue]
    /\ todo \in [Runner -> SUBSET Recipient]
    /\ cur \in [Runner -> Delivery \cup {NoDelivery}]
    /\ curToken \in [Runner -> Nat]
    /\ curAttempts \in [Runner -> 0..3]
    /\ seen \in [Runner -> SUBSET Delivery]
    /\ seenLease \in [Runner -> BOOLEAN]
    /\ delivered \subseteq Delivery \X (1..3)

Holding(p) == pc[p] \in {"send", "sent", "unsent"}

\* However often leases run out and runners come back late, an attempt of a
\* delivery is in the hands of one runner only: no more mails than attempts
\* leave for an addressee (Claim counts an attempt in the same statement that
\* takes a lease over, deliveries.go).
OneSenderPerAttempt ==
    \A p, q \in Runner :
        p # q /\ Holding(p) /\ Holding(q) /\ cur[p] = cur[q] => curAttempts[p] # curAttempts[q]

\* A delivery recorded as sent was accepted by the mail server in the very
\* attempt the row names: a late runner cannot settle another's attempt (the
\* claim token and attempts in FinalizeSent and FinalizeFailure).
SentIsTrue ==
    \A d \in Delivery : status[d] = "sent" => <<d, attempts[d]>> \in delivered

\* A window is settled in the end, whatever fails on the way: leases run out,
\* attempts are counted, and a window with nothing to tell is completed.
WindowSettles == \A w \in Due : window[w] = "pending" ~> window[w] \in {"completed", "failed"}

\* CompleteNoop leaves a window alone while a runner holds an active lease on
\* one of its deliveries (digest_runner.go, DigestRepository.CompleteNoop).
NoopDefersToLease ==
    [][\A p \in Runner : pc[p] = "noopSeen" /\ window' # window =>
          ~\E d \in Delivery : d[1] = win[p] /\ status[d] = "sending" /\ leased[d]]_vars

-----------------------------------------------------------------------------
(***************************************************************************)
(* The ledger this module implements.                                      *)
(***************************************************************************)

Phase == [w \in Due |-> IF window[w] = "pending" THEN "open" ELSE window[w]]

Outcome == [w \in Due |-> [r \in Recipient |->
    IF r \notin addressees[w] THEN "none"
    ELSE IF status[<<w, r>>] = "sent" THEN "sent"
    ELSE IF window[w] = "pending" /\ ~Exhausted(status, attempts, <<w, r>>) THEN "owed"
    ELSE "dropped"]]

Ledger == INSTANCE DeliveryLedger WITH phase <- Phase, outcome <- Outcome

\* The claims, leases, retries and late finalizations of several runners
\* amount to a ledger in which every addressee is settled once and for all and
\* the window closes with the last of them (DigestRunner.Run over
\* DeliveryRepository).
ImplementsLedger == Ledger!Spec
=============================================================================

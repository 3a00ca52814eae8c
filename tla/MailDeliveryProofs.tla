------------------------- MODULE MailDeliveryProofs -------------------------
(***************************************************************************)
(* Proofs about MailDelivery, for any number of runners, recipients and    *)
(* due times.  HoldInv ties the reservation in a runner's hand to the row  *)
(* it was made from: types, one sender per attempt and truthful rows.      *)
(* LedgerInv adds how windows, deliveries and works hang together, which   *)
(* makes every step of MailDelivery a step of DeliveryLedger or none.      *)
(***************************************************************************)
EXTENDS MailDelivery, TLAPS

\* A runner past DueDigests works on a window that exists.
AtWork(p) == pc[p] \in {"working", "noop", "noopSeen"} \/ Holding(p)

\* The reservation in hand is one of the row's attempts, the mail of a runner
\* about to finalize it as sent has left, and a delivery that does not exist has
\* not been tried.
HandOK ==
    /\ \A p \in Runner : AtWork(p) => win[p] \in Due
    /\ \A p \in Runner : Holding(p) => /\ \E r \in Recipient : cur[p] = <<win[p], r>>
                                       /\ curAttempts[p] >= 1
                                       /\ curAttempts[p] <= attempts[cur[p]]
    /\ \A p \in Runner : pc[p] = "sent" => <<cur[p], curAttempts[p]>> \in delivered
    /\ \A d \in Delivery : status[d] = "none" => attempts[d] = 0

HoldInv == TypeOK /\ HandOK /\ OneSenderPerAttempt /\ SentIsTrue

USE ConstantsAssumption

-----------------------------------------------------------------------------
\* The first states satisfy the invariant.
LEMMA InitHold == Init => HoldInv
<1> SUFFICES ASSUME Init PROVE HoldInv
    OBVIOUS
<1>1. TypeOK
    BY DEF Init, TypeOK, Due
<1>2. HandOK /\ OneSenderPerAttempt /\ SentIsTrue
    BY DEF Init, HandOK, AtWork, Holding, OneSenderPerAttempt, SentIsTrue
<1>3. QED
    BY <1>1, <1>2 DEF HoldInv

\* What a claim that is not given up does to the attempts: it counts one more,
\* and never a fourth.
LEMMA NextAttempt ==
    ASSUME TypeOK, HandOK, NEW d \in Delivery, Claimable(d), ~GivesUp(d)
    PROVE  NextAttempts(d) = attempts[d] + 1 /\ NextAttempts(d) \in 1..3
BY DEF TypeOK, HandOK, Claimable, GivesUp, NextAttempts, MaxDeliveryAttempts

\* completeScheduleWindow keeps the types.
LEMMA CompleteType ==
    ASSUME TypeOK, NEW w \in Due, NEW s, NEW a, CompleteScheduleWindow(w, s, a)
    PROVE  /\ window' \in [Due -> {"none", "pending", "completed", "failed"}]
           /\ lastSuccess' \in 0..MaxDue
BY DEF TypeOK, CompleteScheduleWindow, Later, Due

\* TypeOK in two halves: the rows, and what the runners remember.
RowTypes ==
    /\ due \in 0..MaxDue
    /\ window \in [Due -> {"none", "pending", "completed", "failed"}]
    /\ addressees \in [Due -> SUBSET Recipient]
    /\ items \in [Due -> BOOLEAN]
    /\ lastSuccess \in 0..MaxDue
    /\ status \in [Delivery -> {"none", "sending", "failed", "sent"}]
    /\ attempts \in [Delivery -> 0..3]
    /\ token \in [Delivery -> Nat]
    /\ leased \in [Delivery -> BOOLEAN]
    /\ delivered \subseteq Delivery \X (1..3)

RunTypes ==
    /\ pc \in [Runner -> {"idle", "working", "send", "sent", "unsent", "noop", "noopSeen"}]
    /\ win \in [Runner -> 0..MaxDue]
    /\ todo \in [Runner -> SUBSET Recipient]
    /\ cur \in [Runner -> Delivery \cup {NoDelivery}]
    /\ curToken \in [Runner -> Nat]
    /\ curAttempts \in [Runner -> 0..3]
    /\ seen \in [Runner -> SUBSET Delivery]
    /\ seenLease \in [Runner -> BOOLEAN]

LEMMA TypeHalves == TypeOK <=> RowTypes /\ RunTypes
BY Zenon DEF TypeOK, RowTypes, RunTypes

\* A function over S keeps its type when one value is replaced.
LEMMA UpdateType ==
    ASSUME NEW S, NEW T, NEW f \in [S -> T], NEW x, NEW v \in T
    PROVE  [f EXCEPT ![x] = v] \in [S -> T]
OBVIOUS

LEMMA DropType ==
    ASSUME RunTypes, NEW p \in Runner, NEW r, Drop(p, r)
    PROVE  todo' \in [Runner -> SUBSET Recipient]
BY DEF RunTypes, Drop

LEMMA IdleType == ASSUME RunTypes, NEW p \in Runner, Idle(p) PROVE RunTypes'
<1>1. 0 \in 0..MaxDue /\ 0 \in Nat /\ 0 \in 0..3
    OBVIOUS
<1>2. QED
    BY <1>1, UpdateType, Zenon DEF RunTypes, Idle

LEMMA ReleaseType ==
    ASSUME RunTypes, NEW p \in Runner, Release(p), UNCHANGED <<win, todo, seen, seenLease>>
    PROVE  RunTypes'
<1>1. 0 \in Nat /\ 0 \in 0..3
    OBVIOUS
<1>2. QED
    BY <1>1, UpdateType, Zenon DEF RunTypes, Release

LEMMA TakeWorksType ==
    ASSUME RunTypes, NEW p \in Runner, NEW w \in Due, NEW R \in SUBSET Recipient, NEW open \in BOOLEAN,
           TakeWorks(p, w, R, open), UNCHANGED <<cur, curToken, curAttempts, seen, seenLease>>
    PROVE  RunTypes'
<1>1. w \in 0..MaxDue
    BY DEF Due
<1>2. CASE UNCHANGED <<pc, win, todo>>
    BY <1>2 DEF RunTypes
<1>3. CASE /\ win' = [win EXCEPT ![p] = w]
           /\ pc' = [pc EXCEPT ![p] = "working"] \/ pc' = [pc EXCEPT ![p] = "noop"]
           /\ todo' = [todo EXCEPT ![p] = R] \/ todo' = todo
    BY <1>1, <1>3 DEF RunTypes
<1>4. QED
    BY <1>2, <1>3 DEF TakeWorks

\* Every step keeps the types of the rows.
LEMMA RowTypeStep == TypeOK /\ HandOK /\ Next => RowTypes'
<1> SUFFICES ASSUME RowTypes, RunTypes, TypeOK, HandOK, Next PROVE RowTypes'
    BY TypeHalves
<1>1. CASE UNCHANGED dbVars /\ UNCHANGED delivered
    BY <1>1 DEF RowTypes, dbVars
<1>2. CASE DueTime
    BY <1>2 DEF RowTypes, DueTime
<1>3. ASSUME NEW d \in Delivery, LeaseExpires(d) PROVE RowTypes'
    BY <1>3, UpdateType, Zenon DEF RowTypes, LeaseExpires
<1>4. ASSUME NEW p \in Runner, DueDigestsNew(p) PROVE RowTypes'
  <2>1. due \in Due
    BY <1>4 DEF RowTypes, DueDigestsNew, Due
  <2>2. PICK R \in SUBSET Recipient, has \in BOOLEAN :
            /\ window' = [window EXCEPT ![due] = "pending"]
            /\ addressees' = [addressees EXCEPT ![due] = R]
            /\ items' = [items EXCEPT ![due] = has]
    BY <1>4 DEF DueDigestsNew
  <2>3. window' \in [Due -> {"none", "pending", "completed", "failed"}]
    BY <2>2 DEF RowTypes
  <2>4. addressees' \in [Due -> SUBSET Recipient] /\ items' \in [Due -> BOOLEAN]
    BY <2>2, UpdateType, Zenon DEF RowTypes
  <2>5. QED
    BY <1>4, <2>3, <2>4, Zenon DEF RowTypes, DueDigestsNew
<1>5. ASSUME NEW p \in Runner, NEW r \in Recipient, ClaimTaken(p, r) PROVE RowTypes'
  <2>1. win[p] \in Due
    BY <1>5 DEF HandOK, AtWork, ClaimTaken
  <2>2. QED
    BY <1>5, <2>1, CompleteType DEF RowTypes, ClaimTaken
<1>6. ASSUME NEW p \in Runner, NEW r \in Recipient, ClaimGivesUp(p, r) PROVE RowTypes'
  <2>1. win[p] \in Due
    BY <1>6 DEF HandOK, AtWork, ClaimGivesUp
  <2>2. <<win[p], r>> \in Delivery
    BY <2>1 DEF Delivery
  <2>3. /\ window' \in [Due -> {"none", "pending", "completed", "failed"}]
        /\ lastSuccess' \in 0..MaxDue
    BY <1>6, <2>1, CompleteType DEF ClaimGivesUp
  <2>4. /\ status' \in [Delivery -> {"none", "sending", "failed", "sent"}]
        /\ token' \in [Delivery -> Nat]
    BY <1>6, <2>2 DEF RowTypes, ClaimGivesUp
  <2>5. leased' \in [Delivery -> BOOLEAN]
    BY <1>6, UpdateType, Zenon DEF RowTypes, ClaimGivesUp
  <2>6. QED
    BY <1>6, <2>3, <2>4, <2>5, Zenon DEF RowTypes, ClaimGivesUp
<1>7. ASSUME NEW p \in Runner, NEW r \in Recipient, NEW heard \in BOOLEAN, ClaimDelivery(p, r, heard)
      PROVE RowTypes'
  <2>1. <<win[p], r>> \in Delivery
    BY <1>7 DEF HandOK, AtWork, ClaimDelivery, Delivery
  <2>2. Claimable(<<win[p], r>>) /\ ~GivesUp(<<win[p], r>>)
    BY <1>7, Zenon DEF ClaimDelivery
  <2>3. NextAttempts(<<win[p], r>>) \in 0..3
    BY <2>1, <2>2, NextAttempt
  <2>4. /\ status' \in [Delivery -> {"none", "sending", "failed", "sent"}]
        /\ token' \in [Delivery -> Nat]
        /\ attempts' \in [Delivery -> 0..3]
    BY <1>7, <2>1, <2>3 DEF RowTypes, ClaimDelivery
  <2>5. leased' \in [Delivery -> BOOLEAN]
    BY <1>7, UpdateType, Zenon DEF RowTypes, ClaimDelivery
  <2>6. QED
    BY <1>7, <2>4, <2>5, Zenon DEF RowTypes, ClaimDelivery
<1>8. ASSUME NEW p \in Runner, NEW accepted \in BOOLEAN, NEW ok \in BOOLEAN, Send(p, accepted, ok)
      PROVE RowTypes'
  <2>1. cur[p] \in Delivery /\ curAttempts[p] \in 1..3
    <3>1. Holding(p)
        BY <1>8 DEF Send, Holding
    <3>2. win[p] \in Due /\ \E r \in Recipient : cur[p] = <<win[p], r>>
        BY <3>1 DEF HandOK, AtWork
    <3>3. curAttempts[p] \in 1..3
        BY <3>1 DEF HandOK, RunTypes
    <3>4. QED
        BY <3>2, <3>3 DEF Delivery
  <2>2. delivered' \subseteq Delivery \X (1..3)
    BY <1>8, <2>1 DEF RowTypes, Send
  <2>3. QED
    BY <1>8, <2>2, Zenon DEF RowTypes, Send, dbVars
<1>9. ASSUME NEW p \in Runner, FinalizeSent(p) \/ FinalizeFailure(p) PROVE RowTypes'
  <2>1. win[p] \in Due
    BY <1>9 DEF HandOK, AtWork, Holding, FinalizeSent, FinalizeFailure
  <2>2. PICK result \in {"sent", "failed"} : Finalize(p, result)
    BY <1>9 DEF FinalizeSent, FinalizeFailure
  <2>3. /\ window' \in [Due -> {"none", "pending", "completed", "failed"}]
        /\ lastSuccess' \in 0..MaxDue
    BY <2>1, <2>2, CompleteType DEF Finalize
  <2>4. status' \in [Delivery -> {"none", "sending", "failed", "sent"}]
    BY <2>2 DEF Finalize, RowTypes
  <2>5. QED
    BY <1>9, <2>3, <2>4, Zenon DEF RowTypes, FinalizeSent, FinalizeFailure
<1>10. ASSUME NEW p \in Runner, CompleteNoop(p) PROVE RowTypes'
  <2>1. win[p] \in Due
    BY <1>10 DEF HandOK, AtWork, CompleteNoop
  <2>2. /\ window' \in [Due -> {"none", "pending", "completed", "failed"}]
        /\ lastSuccess' \in 0..MaxDue
        /\ status' \in [Delivery -> {"none", "sending", "failed", "sent"}]
    BY <1>10, <2>1 DEF RowTypes, CompleteNoop, NoopCompletes, Later, Due
  <2>3. QED
    BY <1>10, <2>2, Zenon DEF RowTypes, CompleteNoop
<1>11. ASSUME NEW p \in Runner, Run(p) PROVE RowTypes'
  <2>1. \/ UNCHANGED dbVars /\ UNCHANGED delivered
        \/ DueDigestsNew(p)
        \/ \E r \in Recipient : ClaimTaken(p, r) \/ ClaimGivesUp(p, r)
        \/ \E r \in Recipient, heard \in BOOLEAN : ClaimDelivery(p, r, heard)
        \/ \E accepted, ok \in BOOLEAN : Send(p, accepted, ok)
        \/ FinalizeSent(p) \/ FinalizeFailure(p) \/ CompleteNoop(p)
    BY <1>11, Zenon DEF Run, DueDigestsPending, ClaimClosed, ClaimFails, FinalizeRefused, NoopSnapshot,
                        EndRun, Crash
  <2>2. QED
    BY <1>1, <1>4, <1>5, <1>6, <1>7, <1>8, <1>9, <1>10, <2>1
<1>12. QED
    BY <1>2, <1>3, <1>11 DEF Next

\* Every step keeps the types of what the runners remember.
LEMMA RunTypeStep == TypeOK /\ HandOK /\ Next => RunTypes'
<1> SUFFICES ASSUME RowTypes, RunTypes, TypeOK, HandOK, Next PROVE RunTypes'
    BY TypeHalves
<1>1. CASE UNCHANGED runVars
    BY <1>1 DEF RunTypes, runVars
<1>2. ASSUME NEW p \in Runner, DueDigestsPending(p) PROVE RunTypes'
  <2>1. PICK w \in Pending, open \in BOOLEAN : TakeWorks(p, w, addressees[w], open)
    BY <1>2 DEF DueDigestsPending, Readings
  <2>2. w \in Due /\ addressees[w] \in SUBSET Recipient
    BY DEF Pending, RowTypes
  <2>3. UNCHANGED <<cur, curToken, curAttempts, seen, seenLease>>
    BY <1>2 DEF DueDigestsPending
  <2>4. QED
    BY <2>1, <2>2, <2>3, TakeWorksType
<1>3. ASSUME NEW p \in Runner, DueDigestsNew(p) PROVE RunTypes'
  <2>1. due \in Due
    BY <1>3 DEF RowTypes, DueDigestsNew, Due
  <2>2. PICK R \in SUBSET Recipient, has \in BOOLEAN : TakeWorks(p, due, R, has)
    BY <1>3 DEF DueDigestsNew
  <2>3. UNCHANGED <<cur, curToken, curAttempts, seen, seenLease>>
    BY <1>3 DEF DueDigestsNew
  <2>4. QED
    BY <2>1, <2>2, <2>3, TakeWorksType
<1>4. ASSUME NEW p \in Runner, NEW r \in Recipient, Drop(p, r),
             UNCHANGED <<pc, win, cur, curToken, curAttempts, seen, seenLease>>
      PROVE RunTypes'
  <2>1. todo' \in [Runner -> SUBSET Recipient]
    BY <1>4, DropType
  <2>2. QED
    BY <1>4, <2>1 DEF RunTypes
<1>5. ASSUME NEW p \in Runner, NEW r \in Recipient, NEW heard \in BOOLEAN, ClaimDelivery(p, r, heard)
      PROVE RunTypes'
  <2>1. <<win[p], r>> \in Delivery
    BY <1>5 DEF HandOK, AtWork, ClaimDelivery, Delivery
  <2>2. Claimable(<<win[p], r>>) /\ ~GivesUp(<<win[p], r>>)
    BY <1>5, Zenon DEF ClaimDelivery
  <2>3. NextAttempts(<<win[p], r>>) \in 0..3 /\ token[<<win[p], r>>] + 1 \in Nat
    BY <2>1, <2>2, NextAttempt DEF RowTypes
  <2>4. todo' \in [Runner -> SUBSET Recipient]
    BY <1>5, DropType DEF ClaimDelivery
  <2>5. UNCHANGED <<win, seen, seenLease>>
    BY <1>5 DEF ClaimDelivery
  <2>6. CASE heard
    <3>1. /\ pc' = [pc EXCEPT ![p] = "send"]
          /\ cur' = [cur EXCEPT ![p] = <<win[p], r>>]
          /\ curToken' = [curToken EXCEPT ![p] = token[<<win[p], r>>] + 1]
          /\ curAttempts' = [curAttempts EXCEPT ![p] = NextAttempts(<<win[p], r>>)]
        BY <1>5, <2>6, Zenon DEF ClaimDelivery
    <3>2. QED
        BY <2>1, <2>3, <2>4, <2>5, <3>1, UpdateType, Zenon DEF RunTypes
  <2>7. CASE ~heard
    <3>1. UNCHANGED <<pc, cur, curToken, curAttempts>>
        BY <1>5, <2>7, Zenon DEF ClaimDelivery
    <3>2. QED
        BY <2>4, <2>5, <3>1 DEF RunTypes
  <2>8. QED
    BY <2>6, <2>7
<1>6. ASSUME NEW p \in Runner, NEW accepted \in BOOLEAN, NEW ok \in BOOLEAN, Send(p, accepted, ok)
      PROVE RunTypes'
    BY <1>6 DEF Send, RunTypes
<1>7. ASSUME NEW p \in Runner, FinalizeSent(p) \/ FinalizeFailure(p) \/ FinalizeRefused(p)
      PROVE RunTypes'
    BY <1>7, ReleaseType DEF FinalizeSent, FinalizeFailure, FinalizeRefused
<1>8. ASSUME NEW p \in Runner, NoopSnapshot(p) PROVE RunTypes'
  <2>1. seen' \in [Runner -> SUBSET Delivery] /\ pc' = [pc EXCEPT ![p] = "noopSeen"]
    BY <1>8 DEF NoopSnapshot, RunTypes
  <2>2. seenLease' \in [Runner -> BOOLEAN]
    BY <1>8, UpdateType, Zenon DEF NoopSnapshot, RunTypes
  <2>3. UNCHANGED <<win, todo, cur, curToken, curAttempts>>
    BY <1>8 DEF NoopSnapshot
  <2>4. QED
    BY <2>1, <2>2, <2>3 DEF RunTypes
<1>9. ASSUME NEW p \in Runner, CompleteNoop(p) \/ EndRun(p) \/ Crash(p) PROVE RunTypes'
    BY <1>9, IdleType DEF CompleteNoop, EndRun, Crash
<1>10. ASSUME NEW p \in Runner, Run(p) PROVE RunTypes'
  <2>1. \/ DueDigestsPending(p) \/ DueDigestsNew(p)
        \/ \E r \in Recipient : Drop(p, r) /\ UNCHANGED <<pc, win, cur, curToken, curAttempts, seen, seenLease>>
        \/ \E r \in Recipient, heard \in BOOLEAN : ClaimDelivery(p, r, heard)
        \/ \E accepted, ok \in BOOLEAN : Send(p, accepted, ok)
        \/ FinalizeSent(p) \/ FinalizeFailure(p) \/ FinalizeRefused(p)
        \/ NoopSnapshot(p) \/ CompleteNoop(p) \/ EndRun(p) \/ Crash(p)
    BY <1>10, Zenon DEF Run, ClaimClosed, ClaimFails, ClaimTaken, ClaimGivesUp
  <2>2. QED
    BY <1>2, <1>3, <1>4, <1>5, <1>6, <1>7, <1>8, <1>9, <2>1
<1>11. QED
    BY <1>1, <1>10 DEF Next, DueTime, LeaseExpires

-----------------------------------------------------------------------------
(***************************************************************************)
(* HandOK, OneSenderPerAttempt and SentIsTrue speak of the rows' status    *)
(* and attempts, of what a runner holds and of the mails that have left.   *)
(* A step does one of four things to these.                                *)
(***************************************************************************)

\* A step that claims nothing: no delivery comes back from none or sent, nothing
\* is counted, and nobody takes a delivery in hand.
QuietHands ==
    /\ attempts' = attempts
    /\ delivered \subseteq delivered'
    /\ \A d \in Delivery : /\ status'[d] = "none" => status[d] = "none"
                           /\ status'[d] = "sent" => status[d] = "sent"
    /\ \A p \in Runner : Holding(p)' => /\ Holding(p)
                                        /\ win'[p] = win[p] /\ cur'[p] = cur[p]
                                        /\ curAttempts'[p] = curAttempts[p]
                                        /\ pc'[p] = "sent" => pc[p] = "sent"
    /\ \A p \in Runner : AtWork(p)' => win'[p] \in Due

Hands == HandOK /\ OneSenderPerAttempt /\ SentIsTrue

LEMMA QuietKeeps == TypeOK /\ Hands /\ QuietHands => Hands'
<1> SUFFICES ASSUME TypeOK, Hands, QuietHands PROVE Hands'
    OBVIOUS
<1>1. HandOK'
    BY DEF Hands, QuietHands, HandOK, Holding
<1>2. OneSenderPerAttempt'
    BY DEF Hands, QuietHands, OneSenderPerAttempt
<1>3. SentIsTrue'
    BY DEF Hands, QuietHands, SentIsTrue
<1>4. QED
    BY <1>1, <1>2, <1>3 DEF Hands

\* The steps that claim nothing and send nothing.
LEMMA QuietSteps ==
    ASSUME TypeOK, HandOK, NEW p \in Runner,
           \/ DueDigestsPending(p) \/ DueDigestsNew(p)
           \/ \E r \in Recipient : \/ ClaimClosed(p, r) \/ ClaimFails(p, r)
                                   \/ ClaimTaken(p, r) \/ ClaimGivesUp(p, r)
           \/ FinalizeFailure(p) \/ FinalizeRefused(p)
           \/ NoopSnapshot(p) \/ CompleteNoop(p) \/ EndRun(p) \/ Crash(p)
    PROVE  QuietHands
<1> USE DEF QuietHands, Holding, AtWork
<1>1. CASE DueDigestsPending(p) \/ DueDigestsNew(p)
  <2>1. \A q \in Runner : Holding(q)' => Holding(q) /\ pc'[q] = pc[q] /\ win'[q] = win[q]
    BY <1>1 DEF TypeOK, DueDigestsPending, DueDigestsNew, TakeWorks
  <2>2. \A q \in Runner : AtWork(q)' => win'[q] \in Due
    <3>1. due > lastSuccess => due \in Due
        BY DEF TypeOK, Due
    <3>2. QED
        BY <1>1, <3>1 DEF TypeOK, HandOK, DueDigestsPending, DueDigestsNew, TakeWorks, Pending
  <2>3. UNCHANGED <<attempts, delivered, status, cur, curAttempts>>
    BY <1>1 DEF DueDigestsPending, DueDigestsNew, dbVars
  <2>4. QED
    BY <2>1, <2>2, <2>3
<1>2. ASSUME NEW r \in Recipient, \/ ClaimClosed(p, r) \/ ClaimFails(p, r)
                                  \/ ClaimTaken(p, r) \/ ClaimGivesUp(p, r)
      PROVE QuietHands
  <2>1. UNCHANGED <<attempts, delivered, pc, win, cur, curAttempts>>
    BY <1>2 DEF ClaimClosed, ClaimFails, ClaimTaken, ClaimGivesUp, dbVars
  <2>2. status' = status \/ status' = [status EXCEPT ![<<win[p], r>>] = "failed"]
    BY <1>2 DEF ClaimClosed, ClaimFails, ClaimTaken, ClaimGivesUp, dbVars
  <2>3. QED
    BY <2>1, <2>2 DEF TypeOK, HandOK
<1>3. CASE FinalizeFailure(p) \/ FinalizeRefused(p)
  <2>1. Release(p) /\ UNCHANGED <<attempts, delivered, win>>
    BY <1>3 DEF FinalizeFailure, FinalizeRefused, dbVars
  <2>2. status' = status \/ status' = [status EXCEPT ![cur[p]] = "failed"]
    BY <1>3 DEF FinalizeFailure, Finalize, FinalizeRefused, dbVars
  <2>3. pc[p] \in {"sent", "unsent"}
    BY <1>3 DEF FinalizeFailure, FinalizeRefused
  <2>4. QED
    BY <2>1, <2>2, <2>3 DEF TypeOK, HandOK, Release
<1>4. CASE NoopSnapshot(p)
    BY <1>4 DEF NoopSnapshot, dbVars, TypeOK, HandOK
<1>5. CASE CompleteNoop(p) \/ EndRun(p) \/ Crash(p)
  <2>1. Idle(p) /\ UNCHANGED <<attempts, delivered>>
    BY <1>5 DEF CompleteNoop, EndRun, Crash, dbVars
  <2>2. \A d \in Delivery : status'[d] \in {status[d], "failed"}
    BY <1>5 DEF CompleteNoop, NoopCompletes, EndRun, Crash, dbVars
  <2>3. QED
    BY <2>1, <2>2 DEF TypeOK, HandOK, Idle
<1>6. QED
    BY <1>1, <1>2, <1>3, <1>4, <1>5

\* A claim counts an attempt that nobody holds yet.
LEMMA ClaimKeeps ==
    ASSUME TypeOK, Hands, NEW p \in Runner, NEW r \in Recipient, NEW heard \in BOOLEAN,
           ClaimDelivery(p, r, heard)
    PROVE  Hands'
<1> DEFINE d == <<win[p], r>>
<1>1. d \in Delivery /\ win[p] \in Due
    BY DEF Hands, HandOK, AtWork, ClaimDelivery, Delivery
<1>2. Claimable(d) /\ ~GivesUp(d)
    BY Zenon DEF ClaimDelivery
<1>3. NextAttempts(d) = attempts[d] + 1 /\ status[d] # "sent"
    BY <1>1, <1>2, NextAttempt DEF Hands, Claimable
<1>4. /\ status' = [status EXCEPT ![d] = "sending"]
      /\ attempts' = [attempts EXCEPT ![d] = attempts[d] + 1]
      /\ UNCHANGED <<win, delivered>>
    BY <1>3 DEF ClaimDelivery
<1>5. \/ UNCHANGED <<pc, cur, curAttempts>>
      \/ /\ pc' = [pc EXCEPT ![p] = "send"]
         /\ cur' = [cur EXCEPT ![p] = d]
         /\ curAttempts' = [curAttempts EXCEPT ![p] = attempts[d] + 1]
    BY <1>3 DEF ClaimDelivery
<1>6. pc[p] = "working"
    BY DEF ClaimDelivery
<1> HIDE DEF d
<1>7. \A q \in Runner : Holding(q) => cur[q] \in Delivery
    BY SMTT(30) DEF Hands, HandOK, AtWork, Delivery
<1>8. \A e \in Delivery : attempts'[e] >= attempts[e]
    BY <1>1, <1>4 DEF TypeOK
<1>9. SentIsTrue'
    BY <1>1, <1>3, <1>4 DEF Hands, SentIsTrue, TypeOK
<1>10. CASE UNCHANGED <<pc, cur, curAttempts>>
  <2>1. HandOK'
    BY <1>1, <1>4, <1>7, <1>8, <1>10 DEF Hands, HandOK, AtWork, Holding, TypeOK
  <2>2. QED
    BY <1>9, <1>10, <2>1 DEF Hands, OneSenderPerAttempt, Holding
<1>11. CASE /\ pc' = [pc EXCEPT ![p] = "send"]
            /\ cur' = [cur EXCEPT ![p] = d]
            /\ curAttempts' = [curAttempts EXCEPT ![p] = attempts[d] + 1]
  <2>1. cur'[p] = d /\ curAttempts'[p] = attempts[d] + 1 /\ pc'[p] = "send" /\ attempts'[d] = attempts[d] + 1
    BY <1>1, <1>4, <1>11 DEF TypeOK
  <2>2. \A q \in Runner : q # p => pc'[q] = pc[q] /\ cur'[q] = cur[q] /\ curAttempts'[q] = curAttempts[q]
    BY <1>11 DEF TypeOK
  <2>3. HandOK'
    <3>1. \A q \in Runner : AtWork(q)' => win'[q] \in Due
        BY <1>1, <1>4, <2>1, <2>2 DEF Hands, HandOK, AtWork, Holding
    <3>2. \A q \in Runner : Holding(q)' => /\ \E s \in Recipient : cur'[q] = <<win'[q], s>>
                                           /\ curAttempts'[q] >= 1
                                           /\ curAttempts'[q] <= attempts'[cur'[q]]
      <4>1. ASSUME NEW q \in Runner, q # p, Holding(q)'
            PROVE  /\ \E s \in Recipient : cur'[q] = <<win'[q], s>>
                   /\ curAttempts'[q] >= 1
                   /\ curAttempts'[q] <= attempts'[cur'[q]]
        <5>1. Holding(q) /\ cur[q] \in Delivery
            BY <1>7, <2>2, <4>1 DEF Holding
        <5>2. /\ \E s \in Recipient : cur[q] = <<win[q], s>>
              /\ curAttempts[q] >= 1 /\ curAttempts[q] <= attempts[cur[q]]
            BY <5>1 DEF Hands, HandOK
        <5>3. attempts[cur[q]] \in Nat /\ attempts'[cur[q]] \in Nat /\ curAttempts[q] \in Nat
            BY <1>1, <1>4, <5>1 DEF TypeOK
        <5>4. QED
            BY <1>4, <1>8, <2>2, <4>1, <5>1, <5>2, <5>3
      <4>2. /\ \E s \in Recipient : cur'[p] = <<win'[p], s>>
            /\ curAttempts'[p] >= 1
            /\ curAttempts'[p] <= attempts'[cur'[p]]
        BY <1>1, <1>4, <2>1, SMTT(30) DEF TypeOK, d
      <4>3. QED
        BY <4>1, <4>2
    <3>3. \A q \in Runner : pc'[q] = "sent" => <<cur'[q], curAttempts'[q]>> \in delivered'
        BY <1>4, <2>1, <2>2 DEF Hands, HandOK
    <3>4. \A e \in Delivery : status'[e] = "none" => attempts'[e] = 0
        BY <1>1, <1>4 DEF Hands, HandOK, TypeOK
    <3>5. QED
        BY <3>1, <3>2, <3>3, <3>4 DEF HandOK
  <2>4. OneSenderPerAttempt'
    <3>1. \A q \in Runner : q # p /\ Holding(q)' /\ cur'[q] = d => curAttempts'[q] <= attempts[d]
        BY <2>2 DEF Hands, HandOK, Holding
    <3>2. \A q \in Runner : q # p /\ Holding(q)' /\ cur'[q] = d => curAttempts'[q] # attempts[d] + 1
        BY <1>1, <2>2, <3>1 DEF TypeOK
    <3>3. QED
        BY <2>1, <2>2, <3>2 DEF Hands, OneSenderPerAttempt, Holding
  <2>5. QED
    BY <1>9, <2>3, <2>4 DEF Hands
<1>12. QED
    BY <1>5, <1>10, <1>11

\* A mail that leaves is noted for the attempt in hand.
LEMMA SendKeeps ==
    ASSUME TypeOK, Hands, NEW p \in Runner, NEW accepted \in BOOLEAN, NEW ok \in BOOLEAN,
           Send(p, accepted, ok)
    PROVE  Hands'
<1>1. UNCHANGED <<win, cur, curAttempts, status, attempts>> /\ delivered \subseteq delivered'
    BY DEF Send, dbVars
<1>2. /\ pc[p] = "send" /\ \A q \in Runner : q # p => pc'[q] = pc[q]
      /\ pc'[p] \in {"sent", "unsent"}
    BY DEF Send, TypeOK
<1>3. pc'[p] = "sent" => <<cur[p], curAttempts[p]>> \in delivered'
    BY DEF Send, TypeOK
<1>4. HandOK'
    BY <1>1, <1>2, <1>3 DEF Hands, HandOK, AtWork, Holding
<1>5. OneSenderPerAttempt'
    BY <1>1, <1>2 DEF Hands, OneSenderPerAttempt, Holding
<1>6. SentIsTrue'
    BY <1>1 DEF Hands, SentIsTrue
<1>7. QED
    BY <1>4, <1>5, <1>6 DEF Hands

\* A delivery becomes sent in the attempt whose mail has left.
LEMMA FinalizeSentKeeps ==
    ASSUME TypeOK, Hands, NEW p \in Runner, FinalizeSent(p)
    PROVE  Hands'
<1>1. /\ pc[p] = "sent" /\ Release(p)
      /\ UNCHANGED <<win, attempts, delivered>>
      /\ status' = [status EXCEPT ![cur[p]] = "sent"]
      /\ attempts[cur[p]] = curAttempts[p]
    BY DEF FinalizeSent, Finalize, Fenced
<1>2. /\ \A q \in Runner : q # p => pc'[q] = pc[q] /\ cur'[q] = cur[q] /\ curAttempts'[q] = curAttempts[q]
      /\ pc'[p] = "working"
    BY <1>1 DEF Release, TypeOK
<1>3. <<cur[p], attempts[cur[p]]>> \in delivered
    BY <1>1 DEF Hands, HandOK
<1>4. HandOK'
    BY <1>1, <1>2, SMTT(30) DEF Hands, HandOK, AtWork, Holding, TypeOK
<1>5. OneSenderPerAttempt'
    BY <1>2 DEF Hands, OneSenderPerAttempt, Holding
<1>6. SentIsTrue'
    BY <1>1, <1>3 DEF Hands, SentIsTrue, TypeOK
<1>7. QED
    BY <1>4, <1>5, <1>6 DEF Hands

\* HoldInv is inductive.
LEMMA HoldInductive == HoldInv /\ [Next]_vars => HoldInv'
<1> SUFFICES ASSUME TypeOK, Hands, [Next]_vars PROVE TypeOK' /\ Hands'
    BY DEF HoldInv, Hands
<1>1. CASE UNCHANGED vars
  <2>1. TypeOK'
    BY <1>1 DEF TypeOK, vars
  <2>2. Hands'
    BY <1>1 DEF Hands, HandOK, AtWork, Holding, OneSenderPerAttempt, SentIsTrue, vars
  <2>3. QED
    BY <2>1, <2>2
<1>2. CASE Next
  <2>1. TypeOK'
    BY <1>2, RowTypeStep, RunTypeStep, TypeHalves DEF Hands, RowTypes, RunTypes, TypeOK
  <2>2. CASE DueTime \/ \E d \in Delivery : LeaseExpires(d)
    <3>1. UNCHANGED <<win, cur, curAttempts, status, attempts, delivered, pc>>
        BY <2>2 DEF DueTime, LeaseExpires, runVars
    <3>2. Hands'
        BY <3>1 DEF Hands, HandOK, AtWork, Holding, OneSenderPerAttempt, SentIsTrue
    <3>3. QED
        BY <2>1, <3>2
  <2>3. ASSUME NEW p \in Runner, Run(p) PROVE Hands'
    BY <2>3, QuietSteps, QuietKeeps, ClaimKeeps, SendKeeps, FinalizeSentKeeps, Zenon DEF Run, Hands
  <2>4. QED
    BY <1>2, <2>1, <2>2, <2>3 DEF Next
<1>3. QED
    BY <1>1, <1>2

\* HoldInv holds throughout.
LEMMA HoldThroughout == Spec => []HoldInv
BY InitHold, HoldInductive, PTL DEF Spec

\* The variables keep their types; no delivery is tried a fourth time (Claim and
\* DigestRunner.Run).
THEOREM MailTypeCorrect == Spec => []TypeOK
BY HoldThroughout, PTL DEF HoldInv

\* However leases run out and runners come back late, an attempt of a delivery is
\* in the hands of one runner only (DeliveryRepository.Claim).
THEOREM OneSender == Spec => []OneSenderPerAttempt
BY HoldThroughout, PTL DEF HoldInv

\* A delivery recorded as sent was accepted by the mail server in the very attempt
\* the row names (FinalizeSent with claim token and attempts).
THEOREM SentWasSent == Spec => []SentIsTrue
BY HoldThroughout, PTL DEF HoldInv

-----------------------------------------------------------------------------
(***************************************************************************)
(* The refinement of DeliveryLedger.  RowsOK ties a window to its          *)
(* deliveries, WorksOK ties a runner to its window.                        *)
(***************************************************************************)

\* A window exists only for a due time that has passed, deliveries only for a
\* window, and a pending window owes a mail to somebody on its list.
RowsOK ==
    /\ \A w \in Due : window[w] # "none" => w <= due
    /\ \A w \in Due, r \in Recipient : window[w] = "none" => status[<<w, r>>] = "none"
    /\ \A w \in Due : window[w] = "pending" /\ addressees[w] # {} =>
           \E r \in addressees[w] : ~Terminal(status, attempts, <<w, r>>)

Engaged(p) == pc[p] = "working" \/ Holding(p)

\* The works of a runner, and the delivery in its hand, are for addressees of its
\* window; the snapshot of a completion has deliveries of its window only.
WorksOK ==
    /\ \A p \in Runner : AtWork(p) => window[win[p]] # "none"
    /\ \A p \in Runner : Engaged(p) => todo[p] \subseteq addressees[win[p]]
    /\ \A p \in Runner : Holding(p) => \E r \in addressees[win[p]] : cur[p] = <<win[p], r>>
    /\ \A p \in Runner : pc[p] = "noopSeen" => \A d \in seen[p] : d[1] = win[p]

LedgerInv == HoldInv /\ RowsOK /\ WorksOK

LEMMA InitLedger == Init => RowsOK /\ WorksOK
BY DEF Init, RowsOK, WorksOK, AtWork, Engaged, Holding, Delivery

\* One delivery of a pending window changes and completeScheduleWindow looks at the
\* window: either it closes, or somebody is still owed a mail.
LEMMA RecordKeepsRows ==
    ASSUME TypeOK, RowsOK, NEW w \in Due, NEW r \in Recipient, window[w] = "pending",
           NEW x, status' = status \/ status' = [status EXCEPT ![<<w, r>>] = x],
           CompleteScheduleWindow(w, status', attempts), UNCHANGED <<due, addressees, attempts>>
    PROVE  RowsOK'
<1>1. /\ \A v \in Due : v # w => window'[v] = window[v]
      /\ window'[w] # "none"
      /\ window'[w] = "pending" => ~Settled(w, status', attempts)
    BY DEF CompleteScheduleWindow, TypeOK
<1>2. \A v \in Due, s \in Recipient : v # w => status'[<<v, s>>] = status[<<v, s>>]
    BY DEF TypeOK, Delivery
<1>3. \A v \in Due : window'[v] # "none" => v <= due'
    BY <1>1 DEF RowsOK
<1>4. \A v \in Due, s \in Recipient : window'[v] = "none" => status'[<<v, s>>] = "none"
    BY <1>1, <1>2 DEF RowsOK
<1>5. ASSUME NEW v \in Due, window'[v] = "pending", addressees'[v] # {}
      PROVE  \E s \in addressees'[v] : ~Terminal(status', attempts', <<v, s>>)
  <2>1. CASE v = w
    BY <1>1, <1>5, <2>1 DEF Settled
  <2>2. CASE v # w
    <3>1. PICK s \in addressees[v] : ~Terminal(status, attempts, <<v, s>>)
        BY <1>1, <1>5, <2>2 DEF RowsOK
    <3>2. s \in Recipient
        BY DEF TypeOK
    <3>3. status'[<<v, s>>] = status[<<v, s>>]
        BY <1>2, <2>2, <3>2
    <3>4. QED
        BY <3>1, <3>3 DEF Terminal, Exhausted
  <2>3. QED
    BY <2>1, <2>2
<1>6. QED
    BY <1>3, <1>4, <1>5 DEF RowsOK

\* A new window owes a mail to all of its addressees.
LEMMA NewWindowKeepsRows ==
    ASSUME TypeOK, RowsOK, NEW p \in Runner, DueDigestsNew(p)
    PROVE  RowsOK'
<1>1. due \in Due /\ window[due] = "none"
    BY DEF DueDigestsNew, TypeOK, Due
<1>2. PICK R \in SUBSET Recipient :
          /\ window' = [window EXCEPT ![due] = "pending"]
          /\ addressees' = [addressees EXCEPT ![due] = R]
    BY DEF DueDigestsNew
<1>3. UNCHANGED <<due, status, attempts>>
    BY DEF DueDigestsNew
<1>4. \A v \in Due : /\ v # due => window'[v] = window[v] /\ addressees'[v] = addressees[v]
                     /\ v = due => window'[v] = "pending" /\ addressees'[v] = R
    BY <1>1, <1>2 DEF TypeOK
<1>5. \A v \in Due : window'[v] # "none" => v <= due'
    BY <1>1, <1>3, <1>4 DEF RowsOK, TypeOK
<1>6. \A v \in Due, s \in Recipient : window'[v] = "none" => status'[<<v, s>>] = "none"
    BY <1>3, <1>4 DEF RowsOK
<1>7. ASSUME NEW v \in Due, window'[v] = "pending", addressees'[v] # {}
      PROVE  \E s \in addressees'[v] : ~Terminal(status', attempts', <<v, s>>)
  <2>1. CASE v = due
    <3>1. PICK s \in R : TRUE
        BY <1>4, <1>7, <2>1
    <3>2. status[<<v, s>>] = "none"
        BY <1>1, <2>1 DEF RowsOK
    <3>3. QED
        BY <1>3, <1>4, <2>1, <3>1, <3>2 DEF Terminal, Exhausted
  <2>2. CASE v # due
    BY <1>3, <1>4, <1>7, <2>2 DEF RowsOK, Terminal, Exhausted
  <2>3. QED
    BY <2>1, <2>2
<1>8. QED
    BY <1>5, <1>6, <1>7 DEF RowsOK

\* A claim is for an addressee, who is owed a mail from then on.
LEMMA ClaimKeepsRows ==
    ASSUME TypeOK, HandOK, RowsOK, WorksOK, NEW p \in Runner, NEW r \in Recipient,
           NEW heard \in BOOLEAN, ClaimDelivery(p, r, heard)
    PROVE  RowsOK'
<1> DEFINE w == win[p]
<1>1. /\ w \in Due /\ window[w] = "pending" /\ r \in addressees[w]
    BY DEF ClaimDelivery, HandOK, WorksOK, AtWork, Engaged
<1>2. /\ status' = [status EXCEPT ![<<w, r>>] = "sending"]
      /\ attempts' = [attempts EXCEPT ![<<w, r>>] = NextAttempts(<<w, r>>)]
      /\ UNCHANGED <<due, window, addressees>>
    BY DEF ClaimDelivery
<1> HIDE DEF w
<1>3. <<w, r>> \in Delivery
    BY <1>1 DEF Delivery
<1>4. \A v \in Due, s \in Recipient : v # w =>
          status'[<<v, s>>] = status[<<v, s>>] /\ attempts'[<<v, s>>] = attempts[<<v, s>>]
    BY <1>2 DEF TypeOK, Delivery
<1>5. status'[<<w, r>>] = "sending"
    BY <1>2, <1>3 DEF TypeOK
<1>6. \A v \in Due : window'[v] # "none" => v <= due'
    BY <1>2 DEF RowsOK
<1>7. \A v \in Due, s \in Recipient : window'[v] = "none" => status'[<<v, s>>] = "none"
    BY <1>1, <1>2, <1>4 DEF RowsOK
<1>8. ASSUME NEW v \in Due, window'[v] = "pending", addressees'[v] # {}
      PROVE  \E s \in addressees'[v] : ~Terminal(status', attempts', <<v, s>>)
  <2>1. CASE v = w
    BY <1>1, <1>2, <1>5, <2>1 DEF Terminal, Exhausted
  <2>2. CASE v # w
    <3>1. PICK s \in addressees[v] : ~Terminal(status, attempts, <<v, s>>)
        BY <1>2, <1>8 DEF RowsOK
    <3>2. s \in Recipient
        BY DEF TypeOK
    <3>3. QED
        BY <1>2, <1>4, <2>2, <3>1, <3>2 DEF Terminal, Exhausted
  <2>3. QED
    BY <2>1, <2>2
<1>9. QED
    BY <1>6, <1>7, <1>8 DEF RowsOK

\* CompleteNoop closes the one window whose deliveries it fails.
LEMMA NoopKeepsRows ==
    ASSUME TypeOK, HandOK, RowsOK, WorksOK, NEW p \in Runner, pc[p] = "noopSeen", NoopCompletes(p),
           UNCHANGED <<due, addressees, attempts>>
    PROVE  RowsOK'
<1> DEFINE w == win[p]
<1>1. w \in Due /\ window[w] = "pending" /\ \A d \in seen[p] : d[1] = w
    BY DEF NoopCompletes, HandOK, AtWork, WorksOK
<1>2. /\ window' = [window EXCEPT ![w] = "completed"]
      /\ status' = [d \in Delivery |-> IF d \in seen[p] /\ status[d] # "sent" THEN "failed" ELSE status[d]]
    BY DEF NoopCompletes
<1> HIDE DEF w
<1>3. \A v \in Due, s \in Recipient : v # w => status'[<<v, s>>] = status[<<v, s>>]
    BY <1>1, <1>2 DEF Delivery
<1>4. \A v \in Due : /\ v # w => window'[v] = window[v]
                     /\ v = w => window'[v] = "completed"
    BY <1>2 DEF TypeOK
<1>5. \A v \in Due : window'[v] # "none" => v <= due'
    BY <1>1, <1>4 DEF RowsOK
<1>6. \A v \in Due, s \in Recipient : window'[v] = "none" => status'[<<v, s>>] = "none"
    BY <1>3, <1>4 DEF RowsOK
<1>7. ASSUME NEW v \in Due, window'[v] = "pending", addressees'[v] # {}
      PROVE  \E s \in addressees'[v] : ~Terminal(status', attempts', <<v, s>>)
  <2>1. v # w
    BY <1>4, <1>7
  <2>2. PICK s \in addressees[v] : ~Terminal(status, attempts, <<v, s>>)
    BY <1>4, <1>7, <2>1 DEF RowsOK
  <2>3. s \in Recipient
    BY DEF TypeOK
  <2>4. QED
    BY <1>3, <2>1, <2>2, <2>3 DEF Terminal, Exhausted
<1>8. QED
    BY <1>5, <1>6, <1>7 DEF RowsOK


\* A step that changes no window, no addressees and no delivery.
SameRows == due' >= due /\ UNCHANGED <<window, addressees, status, attempts>>

LEMMA SameRowsKeep == RowsOK /\ TypeOK /\ TypeOK' /\ SameRows => RowsOK'
<1> SUFFICES ASSUME RowsOK, TypeOK, TypeOK', SameRows PROVE RowsOK'
    OBVIOUS
<1>1. \A w \in Due : window'[w] # "none" => w <= due'
  <2>1. \A w \in Due : w \in Int /\ due \in Int /\ due' \in Int /\ due' >= due
    BY DEF SameRows, TypeOK, Due
  <2>2. \A w \in Due : window'[w] # "none" => w <= due
    BY DEF SameRows, RowsOK
  <2>3. QED
    BY <2>1, <2>2
<1>2. \A w \in Due, r \in Recipient : window'[w] = "none" => status'[<<w, r>>] = "none"
    BY DEF SameRows, RowsOK
<1>3. \A w \in Due : window'[w] = "pending" /\ addressees'[w] # {} =>
          \E r \in addressees'[w] : ~Terminal(status', attempts', <<w, r>>)
    BY DEF SameRows, RowsOK
<1>4. QED
    BY <1>1, <1>2, <1>3 DEF RowsOK

\* What a runner's step can do to the rows.
LEMMA StepKinds ==
    ASSUME TypeOK, HandOK, WorksOK, NEW p \in Runner, Run(p)
    PROVE  \/ SameRows
           \/ DueDigestsNew(p)
           \/ \E r \in Recipient, heard \in BOOLEAN : ClaimDelivery(p, r, heard)
           \/ \E r \in Recipient : ClaimTaken(p, r) \/ ClaimGivesUp(p, r)
           \/ FinalizeSent(p) \/ FinalizeFailure(p)
           \/ pc[p] = "noopSeen" /\ NoopCompletes(p) /\ UNCHANGED <<due, addressees, attempts>>
<1>1. due \in Int
    BY DEF TypeOK
<1>2. \/ UNCHANGED <<due, window, addressees, status, attempts>>
      \/ DueDigestsNew(p)
      \/ \E r \in Recipient, heard \in BOOLEAN : ClaimDelivery(p, r, heard)
      \/ \E r \in Recipient : ClaimTaken(p, r) \/ ClaimGivesUp(p, r)
      \/ FinalizeSent(p) \/ FinalizeFailure(p)
      \/ pc[p] = "noopSeen" /\ NoopCompletes(p) /\ UNCHANGED <<due, addressees, attempts>>
    BY Zenon DEF Run, DueDigestsPending, ClaimClosed, ClaimFails, Send, FinalizeRefused, NoopSnapshot,
                 CompleteNoop, EndRun, Crash, dbVars
<1>3. QED
    BY <1>1, <1>2 DEF SameRows

\* A runner that finalizes has the delivery of an addressee of its pending window
\* in hand.
LEMMA InHand ==
    ASSUME HandOK, WorksOK, NEW p \in Runner, Holding(p), Fenced(p)
    PROVE  /\ win[p] \in Due /\ window[win[p]] = "pending"
           /\ \E r \in addressees[win[p]] : cur[p] = <<win[p], r>>
BY DEF HandOK, WorksOK, AtWork, Fenced

\* Every step keeps RowsOK.
LEMMA RowsStep == TypeOK /\ TypeOK' /\ HandOK /\ RowsOK /\ WorksOK /\ Next => RowsOK'
<1> SUFFICES ASSUME TypeOK, TypeOK', HandOK, RowsOK, WorksOK, Next PROVE RowsOK'
    OBVIOUS
<1>1. CASE DueTime \/ \E d \in Delivery : LeaseExpires(d)
  <2>1. SameRows
    BY <1>1 DEF DueTime, LeaseExpires, SameRows, TypeOK
  <2>2. QED
    BY <2>1, SameRowsKeep
<1>2. ASSUME NEW p \in Runner, Run(p) PROVE RowsOK'
  <2>1. ASSUME NEW r \in Recipient, ClaimTaken(p, r) \/ ClaimGivesUp(p, r) PROVE RowsOK'
    <3>1. win[p] \in Due /\ window[win[p]] = "pending"
        BY <2>1 DEF ClaimTaken, ClaimGivesUp, HandOK, AtWork
    <3>2. /\ status' = status \/ status' = [status EXCEPT ![<<win[p], r>>] = "failed"]
          /\ CompleteScheduleWindow(win[p], status', attempts)
          /\ UNCHANGED <<due, addressees, attempts>>
        BY <2>1, Zenon DEF ClaimTaken, ClaimGivesUp
    <3>3. QED
        BY <3>1, <3>2, RecordKeepsRows
  <2>2. CASE FinalizeSent(p) \/ FinalizeFailure(p)
    <3>1. PICK result \in {"sent", "failed"} : Finalize(p, result)
        BY <2>2 DEF FinalizeSent, FinalizeFailure
    <3>2. Holding(p) /\ Fenced(p) /\ UNCHANGED <<due, addressees, attempts>>
        BY <2>2 DEF FinalizeSent, FinalizeFailure, Finalize, Holding
    <3>3. PICK r \in addressees[win[p]] : cur[p] = <<win[p], r>>
        BY <3>2, InHand
    <3>4. win[p] \in Due /\ window[win[p]] = "pending"
        BY <3>2, InHand
    <3>5. r \in Recipient
        BY <3>4 DEF TypeOK
    <3>6. /\ status' = [status EXCEPT ![<<win[p], r>>] = result]
          /\ CompleteScheduleWindow(win[p], status', attempts)
        BY <3>1, <3>3 DEF Finalize
    <3>7. QED
        BY <3>2, <3>4, <3>5, <3>6, RecordKeepsRows
  <2>3. QED
    BY <1>2, <2>1, <2>2, StepKinds, SameRowsKeep, NewWindowKeepsRows, ClaimKeepsRows, NoopKeepsRows
<1>3. QED
    BY <1>1, <1>2 DEF Next

-----------------------------------------------------------------------------
\* A window once opened stays, with its addressees.
WindowsStand ==
    \A w \in Due : window[w] # "none" => window'[w] # "none" /\ addressees'[w] = addressees[w]

LEMMA WindowsStandStep == TypeOK /\ HandOK /\ WorksOK /\ Next => WindowsStand
<1> SUFFICES ASSUME TypeOK, HandOK, WorksOK, Next PROVE WindowsStand
    OBVIOUS
<1>1. CASE UNCHANGED <<window, addressees>>
    BY <1>1 DEF WindowsStand
<1>2. ASSUME NEW w \in Due, NEW s, NEW a, CompleteScheduleWindow(w, s, a), UNCHANGED addressees
      PROVE  WindowsStand
    BY <1>2 DEF CompleteScheduleWindow, WindowsStand, TypeOK
<1>3. ASSUME NEW p \in Runner, Run(p) PROVE WindowsStand
  <2>1. CASE DueDigestsNew(p)
    BY <2>1 DEF DueDigestsNew, WindowsStand, TypeOK
  <2>2. ASSUME NEW r \in Recipient, ClaimTaken(p, r) \/ ClaimGivesUp(p, r) PROVE WindowsStand
    <3>1. win[p] \in Due
        BY <2>2 DEF ClaimTaken, ClaimGivesUp, HandOK, AtWork
    <3>2. UNCHANGED addressees /\ \E s : CompleteScheduleWindow(win[p], s, attempts)
        BY <2>2, Zenon DEF ClaimTaken, ClaimGivesUp
    <3>3. QED
        BY <1>2, <3>1, <3>2
  <2>3. CASE FinalizeSent(p) \/ FinalizeFailure(p)
    <3>1. win[p] \in Due
        BY <2>3 DEF FinalizeSent, FinalizeFailure, HandOK, AtWork, Holding
    <3>2. UNCHANGED addressees /\ \E s : CompleteScheduleWindow(win[p], s, attempts)
        BY <2>3, Zenon DEF FinalizeSent, FinalizeFailure, Finalize
    <3>3. QED
        BY <1>2, <3>1, <3>2
  <2>4. CASE pc[p] = "noopSeen" /\ NoopCompletes(p) /\ UNCHANGED addressees
    BY <2>4 DEF NoopCompletes, WindowsStand, TypeOK
  <2>5. QED
    BY <1>1, <1>3, <2>1, <2>2, <2>3, <2>4, StepKinds DEF SameRows, ClaimDelivery
<1>4. QED
    BY <1>1, <1>3 DEF Next, DueTime, LeaseExpires

\* A runner that takes up nothing new.
Continues(q) ==
    /\ AtWork(q)' => AtWork(q) /\ win'[q] = win[q]
    /\ Engaged(q)' => Engaged(q) /\ todo'[q] \subseteq todo[q]
    /\ Holding(q)' => Holding(q) /\ cur'[q] = cur[q]
    /\ pc'[q] = "noopSeen" => pc[q] = "noopSeen" /\ seen'[q] = seen[q]

\* The part of WorksOK about one runner.
WorkOK(q) ==
    /\ AtWork(q) => window[win[q]] # "none"
    /\ Engaged(q) => todo[q] \subseteq addressees[win[q]]
    /\ Holding(q) => \E r \in addressees[win[q]] : cur[q] = <<win[q], r>>
    /\ pc[q] = "noopSeen" => \A d \in seen[q] : d[1] = win[q]

LEMMA ContinuesKeeps ==
    ASSUME HandOK, WindowsStand, NEW q \in Runner, WorkOK(q), Continues(q)
    PROVE  WorkOK(q)'
<1>1. Holding(q)' => AtWork(q)'
    BY DEF AtWork
<1>2. Engaged(q)' => AtWork(q)'
    BY DEF AtWork, Engaged
<1>3. pc'[q] = "noopSeen" => AtWork(q)'
    BY DEF AtWork
<1>4. AtWork(q)' => win'[q] = win[q] /\ win[q] \in Due /\ window[win[q]] # "none"
    BY DEF HandOK, WorkOK, Continues
<1>5. AtWork(q)' => window'[win'[q]] # "none" /\ addressees'[win'[q]] = addressees[win[q]]
    BY <1>4 DEF WindowsStand
<1>6. QED
    BY <1>1, <1>2, <1>3, <1>4, <1>5 DEF WorkOK, Continues


\* Every step keeps WorksOK.
LEMMA WorksStep == TypeOK /\ HandOK /\ WorksOK /\ Next => WorksOK'
<1> SUFFICES ASSUME TypeOK, HandOK, WorksOK, Next PROVE WorksOK'
    OBVIOUS
<1>1. WindowsStand
    BY WindowsStandStep
<1>2. \A q \in Runner : WorkOK(q)
    BY DEF WorksOK, WorkOK
<1>3. SUFFICES \A q \in Runner : WorkOK(q)'
    BY DEF WorksOK, WorkOK
<1>4. ASSUME \A q \in Runner : Continues(q) PROVE \A q \in Runner : WorkOK(q)'
    BY <1>1, <1>2, <1>4, ContinuesKeeps
<1>5. CASE UNCHANGED <<pc, win, todo, cur, seen>>
    BY <1>4, <1>5 DEF Continues, AtWork, Engaged, Holding
<1>6. ASSUME NEW p \in Runner, Run(p) PROVE \A q \in Runner : WorkOK(q)'
  <2>1. ASSUME \A q \in Runner : q # p => Continues(q), Continues(p) \/ WorkOK(p)'
        PROVE  \A q \in Runner : WorkOK(q)'
    BY <1>1, <1>2, <2>1, ContinuesKeeps
  <2>2. \A q \in Runner : q # p => Continues(q)
    <3> DEFINE OthersAlone ==
            \A q \in Runner : q # p => /\ pc'[q] = pc[q] /\ win'[q] = win[q] /\ todo'[q] = todo[q]
                                       /\ cur'[q] = cur[q] /\ seen'[q] = seen[q]
    <3>1. OthersAlone
      <4>1. CASE DueDigestsPending(p) \/ DueDigestsNew(p)
        BY <4>1 DEF DueDigestsPending, DueDigestsNew, TakeWorks, TypeOK
      <4>2. ASSUME NEW r \in Recipient, \/ ClaimClosed(p, r) \/ ClaimTaken(p, r)
                                        \/ ClaimGivesUp(p, r) \/ ClaimFails(p, r)
            PROVE  OthersAlone
        BY <4>2 DEF ClaimClosed, ClaimTaken, ClaimGivesUp, ClaimFails, Drop, TypeOK
      <4>3. ASSUME NEW r \in Recipient, NEW heard \in BOOLEAN, ClaimDelivery(p, r, heard) PROVE OthersAlone
        BY <4>3 DEF ClaimDelivery, Drop, TypeOK
      <4>4. ASSUME NEW accepted \in BOOLEAN, NEW ok \in BOOLEAN, Send(p, accepted, ok) PROVE OthersAlone
        BY <4>4 DEF Send, TypeOK
      <4>5. CASE FinalizeSent(p) \/ FinalizeFailure(p) \/ FinalizeRefused(p)
        BY <4>5 DEF FinalizeSent, FinalizeFailure, FinalizeRefused, Release, TypeOK
      <4>6. CASE NoopSnapshot(p)
        BY <4>6 DEF NoopSnapshot, TypeOK
      <4>7. CASE CompleteNoop(p) \/ EndRun(p) \/ Crash(p)
        BY <4>7 DEF CompleteNoop, EndRun, Crash, Idle, TypeOK
      <4> HIDE DEF OthersAlone
      <4>8. QED
        BY <1>6, <4>1, <4>2, <4>3, <4>4, <4>5, <4>6, <4>7, Zenon DEF Run
    <3>2. QED
        BY <3>1 DEF Continues, AtWork, Engaged, Holding
  <2>3. CASE DueDigestsPending(p)
    <3>1. PICK w \in Pending, open \in BOOLEAN : TakeWorks(p, w, addressees[w], open)
        BY <2>3 DEF DueDigestsPending, Readings
    <3>2. window'[w] # "none" /\ addressees'[w] = addressees[w]
        BY <1>1 DEF Pending, WindowsStand
    <3>3. CASE UNCHANGED <<pc, win, todo>>
        BY <2>1, <2>2, <2>3, <3>3 DEF DueDigestsPending, Continues, AtWork, Engaged, Holding
    <3>4. CASE /\ win'[p] = w
               /\ \/ pc'[p] = "working" /\ todo'[p] = addressees[w]
                  \/ pc'[p] = "noop"
      <4>1. WorkOK(p)'
        BY <3>2, <3>4 DEF WorkOK, AtWork, Engaged, Holding
      <4>2. QED
        BY <2>1, <2>2, <4>1
    <3>5. QED
        BY <3>1, <3>3, <3>4 DEF TakeWorks, TypeOK
  <2>4. CASE DueDigestsNew(p)
    <3>1. due \in Due
        BY <2>4 DEF DueDigestsNew, TypeOK, Due
    <3>2. PICK R \in SUBSET Recipient, has \in BOOLEAN :
              /\ window' = [window EXCEPT ![due] = "pending"]
              /\ addressees' = [addressees EXCEPT ![due] = R]
              /\ TakeWorks(p, due, R, has)
        BY <2>4 DEF DueDigestsNew
    <3>3. window'[due] # "none" /\ addressees'[due] = R
        BY <3>1, <3>2 DEF TypeOK
    <3>4. CASE UNCHANGED <<pc, win, todo>>
        BY <2>1, <2>2, <2>4, <3>4 DEF DueDigestsNew, Continues, AtWork, Engaged, Holding
    <3>5. CASE /\ win'[p] = due
               /\ \/ pc'[p] = "working" /\ todo'[p] = R
                  \/ pc'[p] = "noop"
      <4>1. WorkOK(p)'
        BY <3>3, <3>5 DEF WorkOK, AtWork, Engaged, Holding
      <4>2. QED
        BY <2>1, <2>2, <4>1
    <3>6. QED
        BY <3>2, <3>4, <3>5 DEF TakeWorks, TypeOK
  <2>5. ASSUME NEW r \in Recipient, \/ ClaimClosed(p, r) \/ ClaimTaken(p, r)
                                    \/ ClaimGivesUp(p, r) \/ ClaimFails(p, r)
        PROVE  \A q \in Runner : WorkOK(q)'
    <3>1. Continues(p)
        BY <2>5 DEF ClaimClosed, ClaimTaken, ClaimGivesUp, ClaimFails, Drop, TypeOK, Continues, AtWork,
                    Engaged, Holding
    <3>2. QED
        BY <2>1, <2>2, <3>1
  <2>6. ASSUME NEW r \in Recipient, NEW heard \in BOOLEAN, ClaimDelivery(p, r, heard)
        PROVE  \A q \in Runner : WorkOK(q)'
    <3>1. /\ pc[p] = "working" /\ r \in todo[p] /\ UNCHANGED <<win, seen, window, addressees>>
          /\ todo'[p] \subseteq todo[p]
        BY <2>6 DEF ClaimDelivery, Drop, TypeOK
    <3>2. pc'[p] = "working" \/ (pc'[p] = "send" /\ cur'[p] = <<win[p], r>>)
        BY <2>6 DEF ClaimDelivery, TypeOK
    <3>3. r \in addressees[win[p]] /\ todo[p] \subseteq addressees[win[p]] /\ window[win[p]] # "none"
        BY <1>2, <3>1 DEF WorkOK, Engaged, AtWork
    <3>4. WorkOK(p)'
        BY <3>1, <3>2, <3>3 DEF WorkOK, AtWork, Engaged, Holding
    <3>5. QED
        BY <2>1, <2>2, <3>4
  <2>7. ASSUME NEW accepted \in BOOLEAN, NEW ok \in BOOLEAN, Send(p, accepted, ok)
        PROVE  \A q \in Runner : WorkOK(q)'
    <3>1. Continues(p)
        BY <2>7 DEF Send, TypeOK, Continues, AtWork, Engaged, Holding
    <3>2. QED
        BY <2>1, <2>2, <3>1
  <2>8. CASE FinalizeSent(p) \/ FinalizeFailure(p) \/ FinalizeRefused(p)
    <3>1. Continues(p)
        BY <2>8 DEF FinalizeSent, FinalizeFailure, FinalizeRefused, Release, TypeOK, Continues, AtWork,
                    Engaged, Holding
    <3>2. QED
        BY <2>1, <2>2, <3>1
  <2>9. CASE NoopSnapshot(p)
    <3>1. /\ pc[p] = "noop" /\ pc'[p] = "noopSeen" /\ \A d \in seen'[p] : d[1] = win[p]
          /\ UNCHANGED <<win, window>>
        BY <2>9 DEF NoopSnapshot, TypeOK, dbVars
    <3>2. WorkOK(p)'
        BY <1>2, <3>1 DEF WorkOK, AtWork, Engaged, Holding
    <3>3. QED
        BY <2>1, <2>2, <3>2
  <2>10. CASE CompleteNoop(p) \/ EndRun(p) \/ Crash(p)
    <3>1. pc'[p] = "idle"
        BY <2>10 DEF CompleteNoop, EndRun, Crash, Idle, TypeOK
    <3>2. Continues(p)
        BY <3>1 DEF Continues, AtWork, Engaged, Holding
    <3>3. QED
        BY <2>1, <2>2, <3>2
  <2>11. QED
    BY <1>6, <2>3, <2>4, <2>5, <2>6, <2>7, <2>8, <2>9, <2>10, Zenon DEF Run
<1>7. QED
    BY <1>5, <1>6 DEF Next, DueTime, LeaseExpires, runVars

\* LedgerInv holds throughout.
LEMMA LedgerThroughout == Spec => []LedgerInv
<1>1. Init => LedgerInv
    BY InitHold, InitLedger DEF LedgerInv
<1>2. LedgerInv /\ [Next]_vars => LedgerInv'
  <2> SUFFICES ASSUME HoldInv, RowsOK, WorksOK, [Next]_vars PROVE HoldInv' /\ RowsOK' /\ WorksOK'
    BY DEF LedgerInv
  <2>1. HoldInv'
    BY HoldInductive
  <2>2. CASE Next
    BY <2>1, <2>2, RowsStep, WorksStep DEF HoldInv
  <2>3. CASE UNCHANGED vars
    <3>1. RowsOK'
        BY <2>3 DEF vars, RowsOK, Terminal, Exhausted
    <3>2. WorksOK'
        BY <2>3 DEF vars, WorksOK, AtWork, Engaged, Holding
    <3>3. QED
        BY <2>1, <3>1, <3>2
  <2>4. QED
    BY <2>2, <2>3
<1>3. QED
    BY <1>1, <1>2, PTL DEF Spec


-----------------------------------------------------------------------------
\* What the ledger shows of a window and of an addressee.
LEMMA LedgerView ==
    ASSUME NEW w \in Due
    PROVE  /\ Phase[w] = IF window[w] = "pending" THEN "open" ELSE window[w]
           /\ \A r \in Recipient : Outcome[w][r] =
                  IF r \notin addressees[w] THEN "none"
                  ELSE IF status[<<w, r>>] = "sent" THEN "sent"
                  ELSE IF window[w] = "pending" /\ ~Exhausted(status, attempts, <<w, r>>) THEN "owed"
                  ELSE "dropped"
BY DEF Phase, Outcome

LEMMA LedgerView2 ==
    ASSUME NEW w \in Due
    PROVE  /\ Phase'[w] = IF window'[w] = "pending" THEN "open" ELSE window'[w]
           /\ \A r \in Recipient : Outcome'[w][r] =
                  IF r \notin addressees'[w] THEN "none"
                  ELSE IF status'[<<w, r>>] = "sent" THEN "sent"
                  ELSE IF window'[w] = "pending" /\ ~Exhausted(status', attempts', <<w, r>>) THEN "owed"
                  ELSE "dropped"
BY DEF Phase, Outcome

\* An entry changes only with the delivery it shows, its window or its addressees.
LEMMA SameEntry ==
    ASSUME NEW w \in Due, NEW r \in Recipient,
           addressees'[w] = addressees[w],
           window'[w] = "pending" <=> window[w] = "pending",
           status'[<<w, r>>] = "sent" <=> status[<<w, r>>] = "sent",
           Exhausted(status', attempts', <<w, r>>) <=> Exhausted(status, attempts, <<w, r>>)
    PROVE  Outcome'[w][r] = Outcome[w][r]
<1>1. CASE r \notin addressees[w]
    BY <1>1, LedgerView, LedgerView2
<1>2. CASE r \in addressees[w] /\ status[<<w, r>>] = "sent"
    BY <1>2, LedgerView, LedgerView2
<1>3. CASE r \in addressees[w] /\ status[<<w, r>>] # "sent"
  <2>1. CASE window[w] = "pending" /\ ~Exhausted(status, attempts, <<w, r>>)
    <3>1. Outcome[w][r] = "owed"
        BY <1>3, <2>1, LedgerView
    <3>2. Outcome'[w][r] = "owed"
        BY <1>3, <2>1, LedgerView2
    <3>3. QED
        BY <3>1, <3>2
  <2>2. CASE ~(window[w] = "pending" /\ ~Exhausted(status, attempts, <<w, r>>))
    <3>1. Outcome[w][r] = "dropped"
        BY <1>3, <2>2, LedgerView
    <3>2. Outcome'[w][r] = "dropped"
        BY <1>3, <2>2, LedgerView2
    <3>3. QED
        BY <3>1, <3>2
  <2>3. QED
    BY <2>1, <2>2
<1>4. QED
    BY <1>1, <1>2, <1>3

\* Ledgers are compared entry by entry.
LEMMA SamePhase ==
    ASSUME NEW f, f = [w \in Due |-> f[w]], \A w \in Due : Phase'[w] = f[w]
    PROVE  Phase' = f
<1>1. Phase' = [w \in Due |-> Phase'[w]]
    BY DEF Phase
<1>2. QED
    BY <1>1, Zenon

LEMMA SameOutcome ==
    ASSUME NEW f, f = [w \in Due |-> f[w]], \A w \in Due : f[w] = [r \in Recipient |-> f[w][r]],
           \A w \in Due, r \in Recipient : Outcome'[w][r] = f[w][r]
    PROVE  Outcome' = f
<1>1. Outcome' = [w \in Due |-> Outcome'[w]]
    BY DEF Outcome
<1>2. \A w \in Due : Outcome'[w] = [r \in Recipient |-> Outcome'[w][r]]
    BY DEF Outcome
<1>3. \A w \in Due : Outcome'[w] = f[w]
  <2> TAKE w \in Due
  <2>1. [r \in Recipient |-> Outcome'[w][r]] = [r \in Recipient |-> f[w][r]]
    BY Zenon
  <2>2. QED
    BY <1>2, <2>1, Zenon
<1>4. QED
    BY <1>1, <1>3, Zenon

\* The ledger stands still when no entry changes.
LEMMA Stutters ==
    ASSUME \A w \in Due : Phase'[w] = Phase[w],
           \A w \in Due, r \in Recipient : Outcome'[w][r] = Outcome[w][r]
    PROVE  UNCHANGED <<Phase, Outcome>>
<1>1. Phase = [w \in Due |-> Phase[w]]
    BY DEF Phase
<1>2. Outcome = [w \in Due |-> Outcome[w]] /\ \A w \in Due : Outcome[w] = [r \in Recipient |-> Outcome[w][r]]
    BY DEF Outcome
<1>3. Phase' = Phase
    BY <1>1, SamePhase, Zenon
<1>4. Outcome' = Outcome
    BY <1>2, SameOutcome, Zenon
<1>5. QED
    BY <1>3, <1>4

\* The first states are the empty ledger.
LEMMA InitIsEmpty == Init => Ledger!Init
BY DEF Init, Ledger!Init, Phase, Outcome

\* A new window opens the ledger's.
LEMMA NewWindowOpens ==
    ASSUME TypeOK, RowsOK, NEW p \in Runner, DueDigestsNew(p)
    PROVE  \E w \in Due, R \in SUBSET Recipient : Ledger!Open(w, R)
<1>1. due \in Due /\ window[due] = "none"
    BY DEF DueDigestsNew, TypeOK, Due
<1>2. PICK R \in SUBSET Recipient :
          /\ window' = [window EXCEPT ![due] = "pending"]
          /\ addressees' = [addressees EXCEPT ![due] = R]
    BY DEF DueDigestsNew
<1>3. UNCHANGED <<status, attempts>> /\ \A v \in Due : window[v] # "pending"
    BY DEF DueDigestsNew, Pending
<1>4. \A v \in Due : /\ v # due => window'[v] = window[v] /\ addressees'[v] = addressees[v]
                     /\ v = due => window'[v] = "pending" /\ addressees'[v] = R
    BY <1>1, <1>2 DEF TypeOK
<1>5. Phase[due] = "none"
    BY <1>1, LedgerView
<1>6. \A v \in Due : Phase[v] # "open"
    BY <1>3, LedgerView DEF TypeOK
<1>7. \A v \in Due : v >= due => Phase[v] = "none"
  <2>1. \A v \in Due : v >= due => window[v] = "none"
    BY <1>1 DEF RowsOK, TypeOK, Due
  <2>2. QED
    BY <2>1, LedgerView
<1>8. Phase' = [Phase EXCEPT ![due] = "open"]
  <2> DEFINE f == [Phase EXCEPT ![due] = "open"]
  <2>1. f = [w \in Due |-> f[w]]
    BY DEF Phase
  <2>2. \A w \in Due : f[w] = IF w = due THEN "open" ELSE Phase[w]
    BY DEF Phase
  <2> HIDE DEF f
  <2>3. \A w \in Due : Phase'[w] = f[w]
    BY <1>4, <2>2, LedgerView, LedgerView2
  <2>4. Phase' = f
    BY <2>1, <2>3, SamePhase
  <2>5. QED
    BY <2>4 DEF f
<1>9. Outcome' = [Outcome EXCEPT ![due] = [r \in Recipient |-> IF r \in R THEN "owed" ELSE "none"]]
  <2> DEFINE g == [r \in Recipient |-> IF r \in R THEN "owed" ELSE "none"]
  <2> DEFINE f == [Outcome EXCEPT ![due] = g]
  <2>1. \A w \in Due : f[w] = IF w = due THEN g ELSE Outcome[w]
    BY DEF Outcome
  <2>2. f = [w \in Due |-> f[w]]
    BY DEF Outcome
  <2>3. \A w \in Due : Outcome[w] = [r \in Recipient |-> Outcome[w][r]]
    BY DEF Outcome
  <2>4. g = [r \in Recipient |-> g[r]] /\ \A r \in Recipient : g[r] = IF r \in R THEN "owed" ELSE "none"
    OBVIOUS
  <2> HIDE DEF f, g
  <2>5. \A w \in Due : f[w] = [r \in Recipient |-> f[w][r]]
    BY <2>1, <2>3, <2>4, Zenon
  <2>6. ASSUME NEW w \in Due, NEW r \in Recipient PROVE Outcome'[w][r] = f[w][r]
    <3>1. CASE w = due
      <4>1. status'[<<w, r>>] = "none"
        BY <1>1, <1>3, <3>1 DEF RowsOK
      <4>2. Outcome'[w][r] = IF r \in R THEN "owed" ELSE "none"
        BY <1>4, <3>1, <4>1, LedgerView2 DEF Exhausted
      <4>3. QED
        BY <2>1, <2>4, <3>1, <4>2
    <3>2. CASE w # due
      <4>1. Outcome'[w][r] = Outcome[w][r]
        BY <1>3, <1>4, <3>2, SameEntry DEF Exhausted
      <4>2. QED
        BY <2>1, <3>2, <4>1
    <3>3. QED
        BY <3>1, <3>2
  <2>7. Outcome' = f
    BY <2>2, <2>5, <2>6, SameOutcome
  <2>8. QED
    BY <2>7 DEF f, g
<1>10. Ledger!Open(due, R)
    BY <1>5, <1>6, <1>7, <1>8, <1>9 DEF Ledger!Open
<1>11. QED
    BY <1>1, <1>10


\* A delivery that becomes final settles its addressee, and completeScheduleWindow
\* closes the window with the last one.
LEMMA RecordSettles ==
    ASSUME TypeOK, NEW w \in Due, NEW r \in addressees[w], window[w] = "pending",
           NEW result \in {"sent", "failed"},
           ~Terminal(status, attempts, <<w, r>>),
           result = "sent" \/ attempts[<<w, r>>] >= MaxDeliveryAttempts,
           status' = [status EXCEPT ![<<w, r>>] = result],
           CompleteScheduleWindow(w, status', attempts), UNCHANGED <<addressees, attempts>>
    PROVE  \E out \in {"sent", "dropped"} : Ledger!Settle(w, r, out)
<1> DEFINE out == IF result = "sent" THEN "sent" ELSE "dropped"
<1>1. r \in Recipient /\ <<w, r>> \in Delivery
    BY DEF TypeOK, Delivery
<1>2. /\ status'[<<w, r>>] = result
      /\ \A v \in Due, s \in Recipient : <<v, s>> # <<w, r>> => status'[<<v, s>>] = status[<<v, s>>]
    BY <1>1 DEF TypeOK, Delivery
<1>3. /\ \A v \in Due : v # w => window'[v] = window[v]
      /\ window'[w] = IF Settled(w, status', attempts)
                      THEN IF AllSent(w, status') THEN "completed" ELSE "failed"
                      ELSE "pending"
    BY DEF CompleteScheduleWindow, TypeOK
<1>4. Terminal(status', attempts, <<w, r>>)
    BY <1>2 DEF Terminal, Exhausted
<1>5. \A s \in Recipient : s # r => (Terminal(status', attempts, <<w, s>>) <=> Terminal(status, attempts, <<w, s>>))
    BY <1>2 DEF Terminal, Exhausted
<1>6. Phase[w] = "open" /\ Outcome[w][r] = "owed"
    BY <1>1, LedgerView DEF Terminal
<1>7. Outcome'[w][r] = out
    <2>1. r \in addressees'[w]
        OBVIOUS
    <2>2. result = "failed" => Exhausted(status', attempts', <<w, r>>)
        BY <1>2 DEF Exhausted
    <2>3. CASE result = "sent"
        BY <1>1, <1>2, <2>1, <2>3, LedgerView2
    <2>4. CASE result = "failed"
      <3>1. status'[<<w, r>>] # "sent" /\ Exhausted(status', attempts', <<w, r>>)
        BY <1>2, <2>2, <2>4
      <3>2. Outcome'[w][r] = "dropped"
        BY <1>1, <2>1, <3>1, LedgerView2
      <3>3. QED
        BY <2>4, <3>2
    <2>5. QED
        BY <2>3, <2>4
<1>8. ASSUME NEW v \in Due, NEW s \in Recipient, <<v, s>> # <<w, r>> PROVE Outcome'[v][s] = Outcome[v][s]
  <2>1. status'[<<v, s>>] = status[<<v, s>>] /\ addressees'[v] = addressees[v]
    BY <1>2, <1>8
  <2>2. Exhausted(status', attempts', <<v, s>>) <=> Exhausted(status, attempts, <<v, s>>)
    BY <2>1 DEF Exhausted
  <2>3. CASE window'[v] = window[v]
    BY <2>1, <2>2, <2>3, SameEntry
  <2>4. CASE v = w /\ Settled(w, status', attempts)
    <3>1. s \in addressees[w] => Terminal(status', attempts, <<w, s>>)
        BY <2>4 DEF Settled
    <3>2. s \in addressees[w] => status[<<v, s>>] = "sent" \/ Exhausted(status, attempts, <<v, s>>)
        BY <2>1, <2>2, <2>4, <3>1 DEF Terminal
    <3>3. CASE s \notin addressees[v] \/ status[<<v, s>>] = "sent"
        BY <2>1, <3>3, LedgerView, LedgerView2
    <3>4. CASE s \in addressees[v] /\ status[<<v, s>>] # "sent"
      <4>1. Exhausted(status, attempts, <<v, s>>) /\ Exhausted(status', attempts', <<v, s>>)
        BY <2>2, <2>4, <3>2, <3>4
      <4>2. Outcome[v][s] = "dropped"
        BY <3>4, <4>1, LedgerView
      <4>3. Outcome'[v][s] = "dropped"
        BY <2>1, <3>4, <4>1, LedgerView2
      <4>4. QED
        BY <4>2, <4>3
    <3>5. QED
        BY <3>3, <3>4
  <2>5. QED
    BY <1>3, <2>3, <2>4
<1> HIDE DEF out
<1>9. Outcome' = [Outcome EXCEPT ![w][r] = out]
  <2> DEFINE f == [Outcome EXCEPT ![w][r] = out]
  <2>1. f = [v \in Due |-> f[v]]
    BY DEF Outcome
  <2>2. \A v \in Due : f[v] = [s \in Recipient |-> f[v][s]]
    BY DEF Outcome
  <2>3. \A v \in Due, s \in Recipient : f[v][s] = IF v = w /\ s = r THEN out ELSE Outcome[v][s]
    BY <1>1 DEF Outcome
  <2> HIDE DEF f
  <2>4. \A v \in Due, s \in Recipient : Outcome'[v][s] = f[v][s]
    BY <1>7, <1>8, <2>3
  <2>5. Outcome' = f
    BY <2>1, <2>2, <2>4, SameOutcome
  <2>6. QED
    BY <2>5 DEF f
<1>10. (\E s \in Recipient : Outcome'[w][s] = "owed") <=> ~Settled(w, status', attempts)
  <2>1. CASE Settled(w, status', attempts)
    <3>1. window'[w] # "pending"
        BY <1>3, <2>1
    <3>2. QED
        BY <2>1, <3>1, LedgerView2
  <2>2. CASE ~Settled(w, status', attempts)
    <3>1. PICK s \in addressees[w] : ~Terminal(status', attempts, <<w, s>>)
        BY <2>2 DEF Settled
    <3>2. s \in Recipient /\ window'[w] = "pending"
        BY <1>3, <2>2 DEF TypeOK
    <3>3. Outcome'[w][s] = "owed"
        BY <3>1, <3>2, LedgerView2 DEF Terminal
    <3>4. QED
        BY <2>2, <3>2, <3>3
  <2>3. QED
    BY <2>1, <2>2
<1>11. Settled(w, status', attempts) =>
           ((\E s \in Recipient : Outcome'[w][s] = "dropped") <=> ~AllSent(w, status'))
  <2> SUFFICES ASSUME Settled(w, status', attempts)
               PROVE  (\E s \in Recipient : Outcome'[w][s] = "dropped") <=> ~AllSent(w, status')
    OBVIOUS
  <2>1. window'[w] # "pending"
    BY <1>3
  <2>2. \A s \in Recipient : Outcome'[w][s] = "dropped" <=> s \in addressees[w] /\ status'[<<w, s>>] # "sent"
    BY <2>1, LedgerView2
  <2>3. addressees[w] \subseteq Recipient
    BY DEF TypeOK
  <2>4. QED
    BY <2>2, <2>3 DEF AllSent
<1>12. Phase' = [Phase EXCEPT ![w] =
           IF \E s \in Recipient : Outcome'[w][s] = "owed" THEN "open"
           ELSE IF \E s \in Recipient : Outcome'[w][s] = "dropped" THEN "failed"
           ELSE "completed"]
  <2> DEFINE x == IF \E s \in Recipient : Outcome'[w][s] = "owed" THEN "open"
                  ELSE IF \E s \in Recipient : Outcome'[w][s] = "dropped" THEN "failed"
                  ELSE "completed"
  <2>1. x = IF Settled(w, status', attempts)
            THEN IF AllSent(w, status') THEN "completed" ELSE "failed" ELSE "open"
    BY <1>10, <1>11
  <2> HIDE DEF x
  <2> DEFINE f == [Phase EXCEPT ![w] = x]
  <2>2. f = [v \in Due |-> f[v]] /\ \A v \in Due : f[v] = IF v = w THEN x ELSE Phase[v]
    BY DEF Phase
  <2> HIDE DEF f
  <2>3. ASSUME NEW v \in Due PROVE Phase'[v] = f[v]
    <3>1. CASE v = w /\ Settled(w, status', attempts)
        BY <1>3, <2>1, <2>2, <3>1, LedgerView2
    <3>2. CASE v = w /\ ~Settled(w, status', attempts)
        BY <1>3, <2>1, <2>2, <3>2, LedgerView2
    <3>3. CASE v # w
        BY <1>3, <2>2, <3>3, LedgerView, LedgerView2
    <3>4. QED
        BY <3>1, <3>2, <3>3
  <2>4. Phase' = f
    BY <2>2, <2>3, SamePhase
  <2>5. QED
    BY <2>4 DEF f, x
<1>13. Ledger!Settle(w, r, out)
    BY <1>6, <1>9, <1>12 DEF Ledger!Settle
<1>14. out \in {"sent", "dropped"}
    BY DEF out
<1>15. QED
    BY <1>13, <1>14

\* CompleteNoop cancels what the window still owes.
LEMMA NoopCancels ==
    ASSUME TypeOK, HandOK, WorksOK, NEW p \in Runner, pc[p] = "noopSeen", NoopCompletes(p),
           UNCHANGED <<addressees, attempts>>
    PROVE  Ledger!Cancel(win[p]) /\ win[p] \in Due
<1> DEFINE w == win[p]
<1>1. w \in Due /\ window[w] = "pending" /\ \A d \in seen[p] : d[1] = w
    BY DEF NoopCompletes, HandOK, AtWork, WorksOK
<1>2. /\ window' = [window EXCEPT ![w] = "completed"]
      /\ status' = [d \in Delivery |-> IF d \in seen[p] /\ status[d] # "sent" THEN "failed" ELSE status[d]]
    BY DEF NoopCompletes
<1> HIDE DEF w
<1>3. \A v \in Due, s \in Recipient : /\ v # w => status'[<<v, s>>] = status[<<v, s>>]
                                      /\ status'[<<v, s>>] = "sent" <=> status[<<v, s>>] = "sent"
    BY <1>1, <1>2 DEF Delivery
<1>4. \A v \in Due : /\ v # w => window'[v] = window[v]
                     /\ v = w => window'[v] = "completed"
    BY <1>2 DEF TypeOK
<1>5. Phase[w] = "open"
    BY <1>1, LedgerView
<1>6. Phase' = [Phase EXCEPT ![w] = "completed"]
  <2> DEFINE f == [Phase EXCEPT ![w] = "completed"]
  <2>1. f = [v \in Due |-> f[v]] /\ \A v \in Due : f[v] = IF v = w THEN "completed" ELSE Phase[v]
    BY DEF Phase
  <2> HIDE DEF f
  <2>2. \A v \in Due : Phase'[v] = f[v]
    BY <1>4, <2>1, LedgerView, LedgerView2
  <2>3. Phase' = f
    BY <2>1, <2>2, SamePhase
  <2>4. QED
    BY <2>3 DEF f
<1>7. Outcome' = [Outcome EXCEPT ![w] = [r \in Recipient |->
          IF Outcome[w][r] = "owed" THEN "dropped" ELSE Outcome[w][r]]]
  <2> DEFINE g == [r \in Recipient |-> IF Outcome[w][r] = "owed" THEN "dropped" ELSE Outcome[w][r]]
  <2> DEFINE f == [Outcome EXCEPT ![w] = g]
  <2>1. f = [v \in Due |-> f[v]] /\ \A v \in Due : f[v] = IF v = w THEN g ELSE Outcome[v]
    BY DEF Outcome
  <2>2. \A v \in Due : Outcome[v] = [r \in Recipient |-> Outcome[v][r]]
    BY DEF Outcome
  <2>3. /\ g = [r \in Recipient |-> g[r]]
        /\ \A r \in Recipient : g[r] = IF Outcome[w][r] = "owed" THEN "dropped" ELSE Outcome[w][r]
    OBVIOUS
  <2> HIDE DEF f, g
  <2>4. \A v \in Due : f[v] = [r \in Recipient |-> f[v][r]]
    BY <2>1, <2>2, <2>3, Zenon
  <2>5. ASSUME NEW v \in Due, NEW r \in Recipient PROVE Outcome'[v][r] = f[v][r]
    <3>1. CASE v = w
      <4>1. Outcome'[w][r] = IF Outcome[w][r] = "owed" THEN "dropped" ELSE Outcome[w][r]
        <5>1. CASE r \notin addressees[w] \/ status[<<w, r>>] = "sent"
            BY <1>1, <1>3, <5>1, LedgerView, LedgerView2
        <5>2. CASE r \in addressees[w] /\ status[<<w, r>>] # "sent"
          <6>1. Outcome[w][r] \in {"owed", "dropped"}
            BY <1>1, <5>2, LedgerView
          <6>2. status'[<<w, r>>] # "sent" /\ window'[w] # "pending"
            BY <1>1, <1>3, <1>4, <5>2
          <6>3. Outcome'[w][r] = "dropped"
            BY <1>1, <5>2, <6>2, LedgerView2
          <6>4. QED
            BY <6>1, <6>3
        <5>3. QED
            BY <5>1, <5>2
      <4>2. QED
        BY <2>1, <2>3, <3>1, <4>1
    <3>2. CASE v # w
      <4>1. Outcome'[v][r] = Outcome[v][r]
        BY <1>3, <1>4, <3>2, SameEntry DEF Exhausted
      <4>2. QED
        BY <2>1, <3>2, <4>1
    <3>3. QED
        BY <3>1, <3>2
  <2>6. Outcome' = f
    BY <2>1, <2>4, <2>5, SameOutcome
  <2>7. QED
    BY <2>6 DEF f, g
<1>8. Ledger!Cancel(w)
    BY <1>5, <1>6, <1>7 DEF Ledger!Cancel
<1>9. QED
    BY <1>1, <1>8 DEF w

\* A step that leaves every delivery as final, or as open, as it was and closes no
\* window leaves the ledger alone.
LEMMA RowsStutter ==
    ASSUME UNCHANGED <<window, addressees>>,
           \A w \in Due, r \in Recipient :
               /\ status'[<<w, r>>] = "sent" <=> status[<<w, r>>] = "sent"
               /\ Exhausted(status', attempts', <<w, r>>) <=> Exhausted(status, attempts, <<w, r>>)
    PROVE  UNCHANGED <<Phase, Outcome>>
<1>1. \A w \in Due : Phase'[w] = Phase[w]
    BY LedgerView, LedgerView2
<1>2. ASSUME NEW w \in Due, NEW r \in Recipient PROVE Outcome'[w][r] = Outcome[w][r]
    BY SameEntry
<1>3. QED
    BY <1>1, <1>2, Stutters

\* Every step is a step of the ledger or leaves it alone.
LEMMA StepsRefine ==
    TypeOK /\ HandOK /\ RowsOK /\ WorksOK /\ [Next]_vars => [Ledger!Next]_<<Phase, Outcome>>
<1> SUFFICES ASSUME TypeOK, HandOK, RowsOK, WorksOK, [Next]_vars
             PROVE  Ledger!Next \/ UNCHANGED <<Phase, Outcome>>
    OBVIOUS
<1>1. CASE UNCHANGED <<window, addressees, status, attempts>>
    BY <1>1, RowsStutter DEF Exhausted
<1>2. ASSUME NEW p \in Runner, Run(p) PROVE Ledger!Next \/ UNCHANGED <<Phase, Outcome>>
  <2>1. CASE DueDigestsNew(p)
    BY <2>1, NewWindowOpens DEF Ledger!Next
  <2>2. ASSUME NEW r \in Recipient, NEW heard \in BOOLEAN, ClaimDelivery(p, r, heard)
        PROVE  UNCHANGED <<Phase, Outcome>>
    <3> DEFINE d == <<win[p], r>>
    <3>1. d \in Delivery
        BY <2>2 DEF ClaimDelivery, HandOK, AtWork, Delivery
    <3>2. /\ status' = [status EXCEPT ![d] = "sending"]
          /\ attempts' = [attempts EXCEPT ![d] = NextAttempts(d)]
          /\ UNCHANGED <<window, addressees>> /\ Claimable(d)
        BY <2>2, Zenon DEF ClaimDelivery
    <3> HIDE DEF d
    <3>3. \A e \in Delivery : /\ status'[e] = "sent" <=> status[e] = "sent"
                              /\ Exhausted(status', attempts', e) <=> Exhausted(status, attempts, e)
        BY <3>1, <3>2 DEF TypeOK, Exhausted, Claimable, MaxDeliveryAttempts
    <3>4. QED
        BY <3>2, <3>3, RowsStutter DEF Delivery
  <2>3. ASSUME NEW r \in Recipient, ClaimTaken(p, r) PROVE UNCHANGED <<Phase, Outcome>>
    <3>1. win[p] \in Due /\ window[win[p]] = "pending"
        BY <2>3 DEF ClaimTaken, HandOK, AtWork
    <3>2. ~Settled(win[p], status, attempts)
        BY <3>1 DEF RowsOK, Settled
    <3>3. UNCHANGED <<window, addressees, status, attempts>>
        BY <2>3, <3>2 DEF ClaimTaken, CompleteScheduleWindow
    <3>4. QED
        BY <1>1, <3>3, RowsStutter DEF Exhausted
  <2>4. ASSUME NEW r \in Recipient, ClaimGivesUp(p, r) PROVE Ledger!Next
    <3>1. win[p] \in Due /\ window[win[p]] = "pending" /\ r \in addressees[win[p]]
        BY <2>4 DEF ClaimGivesUp, HandOK, WorksOK, AtWork, Engaged
    <3>2. /\ status' = [status EXCEPT ![<<win[p], r>>] = "failed"]
          /\ CompleteScheduleWindow(win[p], status', attempts)
          /\ UNCHANGED <<addressees, attempts>> /\ GivesUp(<<win[p], r>>)
        BY <2>4, Zenon DEF ClaimGivesUp
    <3>3. ~Terminal(status, attempts, <<win[p], r>>) /\ attempts[<<win[p], r>>] >= MaxDeliveryAttempts
        BY <3>2 DEF GivesUp, Terminal, Exhausted
    <3>4. \E out \in {"sent", "dropped"} : Ledger!Settle(win[p], r, out)
        BY <3>1, <3>2, <3>3, RecordSettles
    <3>5. QED
        BY <2>4, <3>1, <3>4 DEF Ledger!Next
  <2>5. CASE FinalizeSent(p) \/ FinalizeFailure(p)
    <3>1. PICK result \in {"sent", "failed"} : Finalize(p, result)
        BY <2>5 DEF FinalizeSent, FinalizeFailure
    <3>2. Holding(p) /\ Fenced(p) /\ UNCHANGED <<addressees, attempts>>
        BY <2>5 DEF FinalizeSent, FinalizeFailure, Finalize, Holding
    <3>3. PICK r \in addressees[win[p]] : cur[p] = <<win[p], r>>
        BY <3>2, InHand
    <3>4. win[p] \in Due /\ window[win[p]] = "pending"
        BY <3>2, InHand
    <3>5. r \in Recipient /\ <<win[p], r>> \in Delivery
        BY <3>4 DEF TypeOK, Delivery
    <3>6. /\ status' = [status EXCEPT ![<<win[p], r>>] = result]
          /\ CompleteScheduleWindow(win[p], status', attempts)
          /\ status[<<win[p], r>>] = "sending"
        BY <3>1, <3>3 DEF Finalize, Fenced
    <3>7. ~Terminal(status, attempts, <<win[p], r>>)
        BY <3>6 DEF Terminal, Exhausted
    <3>8. CASE result = "sent" \/ attempts[<<win[p], r>>] >= MaxDeliveryAttempts
      <4>1. \E out \in {"sent", "dropped"} : Ledger!Settle(win[p], r, out)
        BY <3>2, <3>4, <3>6, <3>7, <3>8, RecordSettles
      <4>2. QED
        BY <3>4, <3>5, <4>1 DEF Ledger!Next
    <3>9. CASE result = "failed" /\ ~(attempts[<<win[p], r>>] >= MaxDeliveryAttempts)
      <4>1. status'[<<win[p], r>>] = "failed"
        BY <3>5, <3>6, <3>9 DEF TypeOK
      <4>2. ~Terminal(status', attempts, <<win[p], r>>)
        BY <3>9, <4>1 DEF Terminal, Exhausted
      <4>3. UNCHANGED window
        BY <3>6, <4>2 DEF CompleteScheduleWindow, Settled
      <4>4. \A e \in Delivery : /\ status'[e] = "sent" <=> status[e] = "sent"
                                /\ Exhausted(status', attempts', e) <=> Exhausted(status, attempts, e)
        BY <3>2, <3>5, <3>6, <3>9 DEF TypeOK, Exhausted
      <4>5. QED
        BY <3>2, <4>3, <4>4, RowsStutter DEF Delivery
    <3>10. QED
        BY <3>8, <3>9
  <2>6. CASE pc[p] = "noopSeen" /\ NoopCompletes(p) /\ UNCHANGED <<addressees, attempts>>
    BY <2>6, NoopCancels DEF Ledger!Next
  <2>7. QED
    BY <1>1, <1>2, <2>1, <2>2, <2>3, <2>4, <2>5, <2>6, StepKinds DEF SameRows
<1>3. QED
    BY <1>1, <1>2 DEF Next, DueTime, LeaseExpires, vars

\* The claims, leases, retries and late finalizations of any number of runners
\* amount to a ledger in which every addressee is settled once and for all and the
\* window closes with the last of them (DigestRunner.Run over DeliveryRepository).
THEOREM MailImplementsLedger == Spec => ImplementsLedger
<1>1. LedgerInv => TypeOK /\ HandOK /\ RowsOK /\ WorksOK
    BY DEF LedgerInv, HoldInv
<1>2. QED
    BY <1>1, InitIsEmpty, StepsRefine, LedgerThroughout, PTL DEF Spec, ImplementsLedger, Ledger!Spec
=============================================================================

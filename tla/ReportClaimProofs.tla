-------------------------- MODULE ReportClaimProofs --------------------------
(***************************************************************************)
(* Theorems about the claims and the files of ReportLifecycle: fencing by  *)
(* tokens, and publication and deletion serialized by the row lock.        *)
(***************************************************************************)
EXTENDS ReportLifecycleProofs

\* Tokens are issued once: those in rows and in hands are old, and no two
\* processes have a claim with the same token.
TokenOK ==
    /\ \A r \in Report : row[r].token < nextToken
    /\ \A p \in Proc : \A c \in InHand(p) : c.token < nextToken
    /\ \A p, q \in Proc : p # q => \A c \in InHand(p), e \in InHand(q) : c.token # e.token

\* A process in the middle of file work has the lock of its row.
LockOK == \A p \in Proc : pc[p] \in Locking => lock[work[p].id] = p

\* The row a runner publishes for is still claimed by it.
PublishOK ==
    \A p \in Proc : pc[p] \in {"publishing", "written"} => Holds(p) /\ ~row[work[p].id].deleted

\* The row being deleted is settled, and its file is gone once removed.
DeletingOK ==
    \A p \in Proc :
        /\ pc[p] \in {"deleting", "removed"} =>
               row[work[p].id].status \in {"generated", "failed"} /\ ~row[work[p].id].deleted
        /\ pc[p] = "removed" => ~file[work[p].id]

\* Whoever may still finalize a report has published its file.
FileReady == \A p \in Proc : pc[p] \in {"written", "finalize"} /\ Holds(p) => file[work[p].id]

\* Only settled rows are deleted.
DeletedSettled == \A r \in Report : row[r].deleted => row[r].status \in {"generated", "failed"}

FileInv ==
    /\ LockOK
    /\ PublishOK
    /\ DeletingOK
    /\ FileReady
    /\ DeletedSettled
    /\ DeletedHasNoFile
    /\ GeneratedHasFile

ClaimInv == TypeInv /\ TokenOK /\ FileInv

\* Only process p takes part in the step.
Alone(p) == \A q \in Proc : q # p => pc'[q] = pc[q] /\ work'[q] = work[q]

-----------------------------------------------------------------------------
(***************************************************************************)
(* Tokens.                                                                 *)
(***************************************************************************)

\* What is in hand only shrinks, except for the process a token is issued to.
HandsShrink == \A q \in Proc : InHand(q)' \subseteq InHand(q)

HandGains(p) ==
    /\ \A q \in Proc : q # p => InHand(q)' \subseteq InHand(q)
    /\ \A c \in InHand(p)' : c \in InHand(p) \/ c.token = nextToken

\* A process that keeps its place and its claims has the same claims in hand.
LEMMA HandSame ==
    ASSUME NEW q \in Proc, pc'[q] = pc[q], work'[q] = work[q], queue'[q] = queue[q]
    PROVE  InHand(q)' \subseteq InHand(q)
  BY DEF InHand

\* A process that leaves its claim, or goes on with it, has no new claim in hand.
LEMMA HandDropped ==
    ASSUME NEW q \in Proc, pc'[q] \notin Attempting \/ (pc[q] \in Attempting /\ work'[q] = work[q]),
           queue'[q] = queue[q] \/ queue'[q] = <<>>
    PROVE  InHand(q)' \subseteq InHand(q)
  BY DEF InHand

\* NextWork takes the first claim of the queue in hand.
LEMMA HandTaken ==
    ASSUME TypeInv, NEW q \in Proc, queue[q] # <<>>, pc'[q] = "attempt",
           work'[q] = Head(queue[q]), queue'[q] = Tail(queue[q])
    PROVE  InHand(q)' \subseteq InHand(q)
<1>1. queue[q] \in Seq(Work)
  BY DEF TypeInv, TypeOK
<1>2. \A i \in DOMAIN Tail(queue[q]) : i + 1 \in DOMAIN queue[q] /\ Tail(queue[q])[i] = queue[q][i + 1]
  BY <1>1
<1>3. 1 \in DOMAIN queue[q] /\ Head(queue[q]) = queue[q][1]
  BY <1>1
<1>4. QED
  BY <1>2, <1>3 DEF InHand

\* ClaimReport appends the new claim.
LEMMA HandAppended ==
    ASSUME TypeInv, NEW q \in Proc, NEW c \in Work, pc'[q] = pc[q], work'[q] = work[q],
           queue'[q] = Append(queue[q], c)
    PROVE  InHand(q)' \subseteq InHand(q) \cup {c}
<1>1. queue[q] \in Seq(Work)
  BY DEF TypeInv, TypeOK
<1>2. \A i \in DOMAIN Append(queue[q], c) :
          \/ i \in DOMAIN queue[q] /\ Append(queue[q], c)[i] = queue[q][i]
          \/ Append(queue[q], c)[i] = c
  BY <1>1
<1>3. QED
  BY <1>2 DEF InHand

\* Every step either issues no token, or issues nextToken to one process.
LEMMA TokenSteps ==
    ASSUME TypeInv, [Next]_vars
    PROVE  \/ nextToken' = nextToken /\ HandsShrink
           \/ nextToken' = nextToken + 1 /\ \E p \in Proc : HandGains(p)
<1> USE DEF dbVars, clockVars, runVars, Goto
<1>t. /\ pc \in [Proc -> {"idle", "claim", "next"} \cup Attempting \cup Locking]
      /\ work \in [Proc -> Work \cup {NoWork}]
      /\ queue \in [Proc -> Seq(Work)]
  BY DEF TypeInv, TypeOK
<1>q. ASSUME NEW p \in Proc, NEW b, b \notin Attempting \/ pc[p] \in Attempting,
             pc' = [pc EXCEPT ![p] = b], UNCHANGED <<work, queue>>
      PROVE  HandsShrink
  BY <1>t, <1>q, HandDropped, HandSame DEF HandsShrink
<1>d. ASSUME NEW p \in Proc, pc'[p] \notin Attempting, Alone(p),
             queue' = queue \/ queue' = [queue EXCEPT ![p] = <<>>]
      PROVE  HandsShrink
  <2>1. InHand(p)' \subseteq InHand(p)
    <3>1. queue'[p] = queue[p] \/ queue'[p] = <<>>
      BY <1>d, <1>t
    <3>2. QED
      BY <1>d, <3>1 DEF InHand
  <2>2. ASSUME NEW q \in Proc, q # p PROVE InHand(q)' \subseteq InHand(q)
    BY <1>d, <1>t, <2>2, HandSame DEF Alone
  <2>3. QED
    BY <2>1, <2>2 DEF HandsShrink
<1>1. ASSUME NEW p \in Proc,
             \/ LockClaim(p) \/ AttemptFails(p) \/ WriteFile(p) \/ ReleaseClaim(p) \/ PublishFails(p)
             \/ FinalizeReport(p) \/ FinalizeUnacknowledged(p) \/ FinalizeFails(p)
             \/ FinalizeReportFailure(p) \/ FailureNotRecorded(p) \/ GiveUp(p)
      PROVE  nextToken' = nextToken /\ HandsShrink
  <2>1. /\ nextToken' = nextToken
        /\ UNCHANGED <<work, queue>>
        /\ \E b : pc' = [pc EXCEPT ![p] = b]
        /\ pc[p] \in Attempting
    BY <1>1 DEF LockClaim, AttemptFails, WriteFile, ReleaseClaim, PublishFails, FinalizeReport,
       FinalizeUnacknowledged, FinalizeFails, FinalizeReportFailure, FailureNotRecorded, GiveUp, Finalized, Attempting
  <2>2. QED
    BY <2>1, <1>q
<1>2. ASSUME NEW p \in Scheduler, StartRun(p) \/ ClaimsDone(p) \/ ClaimError(p)
      PROVE  nextToken' = nextToken /\ HandsShrink
  <2>1. /\ nextToken' = nextToken /\ p \in Proc
        /\ work' = work /\ (queue' = queue \/ queue' = [queue EXCEPT ![p] = <<>>])
        /\ \E b : b \notin Attempting /\ pc' = [pc EXCEPT ![p] = b]
    BY <1>2 DEF StartRun, ClaimsDone, ClaimError, Attempting, Proc
  <2>2. QED
    BY <1>t, <2>1, HandDropped, HandSame DEF HandsShrink
<1>3. ASSUME NEW p \in Proc, NextWork(p) PROVE nextToken' = nextToken /\ HandsShrink
  <2>1. CASE queue[p] = <<>>
    BY <1>3, <1>t, <1>d, <2>1 DEF NextWork, Alone, Attempting
  <2>2. CASE queue[p] # <<>>
    <3>1. InHand(p)' \subseteq InHand(p)
      BY <1>3, <1>t, <2>2, HandTaken DEF NextWork
    <3>2. QED
      BY <1>3, <1>t, <2>2, <3>1, HandSame DEF NextWork, HandsShrink
  <2>3. QED
    BY <2>1, <2>2
<1>4. ASSUME NEW p \in Proc, Stop(p) PROVE nextToken' = nextToken /\ HandsShrink
  BY <1>4, <1>t, <1>d DEF Stop, Alone, Attempting
<1>5. ASSUME NEW w \in Worker, NEW r \in Report, LockForDeletion(w, r)
      PROVE  nextToken' = nextToken /\ HandsShrink
  BY <1>5, <1>t, <1>d DEF LockForDeletion, Alone, Attempting, Proc
<1>6. ASSUME NEW w \in Worker, Delete(w) PROVE nextToken' = nextToken /\ HandsShrink
  BY <1>6, <1>t, <1>d DEF Delete, RemoveFile, CommitDeletion, Alone, Attempting, Proc
<1>7. ASSUME UNCHANGED <<pc, work, queue, nextToken>> PROVE nextToken' = nextToken /\ HandsShrink
  BY <1>7, HandSame DEF HandsShrink
<1>8. ASSUME NEW s \in Scheduler, NEW t \in Tenant, ClaimNothing(s, t) \/ ClaimNoop(s, t) \/ ClaimRefused(s, t)
      PROVE  nextToken' = nextToken /\ HandsShrink
  BY <1>7, <1>8 DEF ClaimNothing, ClaimNoop, ClaimRefused, Claiming
<1>9. ASSUME UNCHANGED vars PROVE nextToken' = nextToken /\ HandsShrink
  BY <1>7, <1>9 DEF vars
<1>10. ASSUME NEW r \in Report, LeaseExpires(r) PROVE nextToken' = nextToken /\ HandsShrink
  BY <1>7, <1>10 DEF LeaseExpires
<1>11. ASSUME NEW t \in Tenant, DueArrives(t) PROVE nextToken' = nextToken /\ HandsShrink
  BY <1>7, <1>11 DEF DueArrives
\* StartWork and ReclaimReport put a fresh claim in hand.
<1>12. ASSUME NEW p \in Proc, NEW c, c.token = nextToken, work' = [work EXCEPT ![p] = c],
              pc' = [pc EXCEPT ![p] = "attempt"], queue' = queue
       PROVE  HandGains(p)
  <2>1. \A d \in InHand(p)' : d \in InHand(p) \/ d = c
    BY <1>12, <1>t DEF InHand
  <2>2. QED
    BY <1>12, <1>t, <2>1, HandSame DEF HandGains
<1>c. \A r, n : ClaimOf(r, n).token = nextToken
  BY DEF ClaimOf
<1>13. ASSUME NEW w \in Worker, NEW r \in Report, ClaimManualReport(w, r) \/ RetryReport(w, r)
       PROVE  nextToken' = nextToken + 1 /\ HandGains(w)
  BY <1>12, <1>13, <1>c DEF ClaimManualReport, RetryReport, StartWork, Proc
<1>14. ASSUME NEW p \in Proc, ReclaimReport(p) PROVE nextToken' = nextToken + 1 /\ HandGains(p)
  BY <1>12, <1>14, <1>c DEF ReclaimReport
<1>15. ASSUME NEW s \in Scheduler, NEW t \in Tenant, ClaimReport(s, t)
       PROVE  nextToken' = nextToken + 1 /\ HandGains(s)
  <2>1. PICK d \in Due : ClaimWindow(s, <<t, d>>)
    BY <1>15 DEF ClaimReport
  <2> DEFINE c == ClaimOf(<<t, d>>, row[<<t, d>>].attempts + 1)
  <2>2. /\ queue' = [queue EXCEPT ![s] = Append(queue[s], c)]
        /\ pc' = pc /\ work' = work /\ nextToken' = nextToken + 1
    BY <1>15, <2>1 DEF ClaimReport, ClaimWindow, Claiming
  <2>3. c \in Work /\ s \in Proc
    <3>1. s \in Proc /\ queue'[s] = Append(queue[s], c)
      BY <1>t, <2>2 DEF Proc
    <3>2. queue' \in [Proc -> Seq(Work)]
      BY TypeInvStep DEF TypeInv, TypeOK
    <3>3. queue[s] \in Seq(Work) /\ queue'[s] \in Seq(Work)
      BY <1>t, <3>1, <3>2
    <3>4. QED
      BY <3>1, <3>3
  <2>4. c.token = nextToken
    BY <1>c
  <2> HIDE DEF c
  <2>5. InHand(s)' \subseteq InHand(s) \cup {c}
    BY <1>t, <2>2, <2>3, HandAppended
  <2>6. QED
    BY <1>t, <2>2, <2>3, <2>4, <2>5, HandSame DEF HandGains
<1>16. QED
  <2> HIDE DEF dbVars, clockVars, runVars, Goto
  <2>1. Scheduler \subseteq Proc /\ Worker \subseteq Proc /\ Manual \subseteq Report
    BY DEF Proc, Report
  <2>2. QED
    BY <1>1, <1>2, <1>3, <1>4, <1>5, <1>6, <1>8, <1>9, <1>10, <1>11, <1>13, <1>14, <1>15, <2>1, Zenon
       DEF Next, Attempt, Claim

-----------------------------------------------------------------------------
(***************************************************************************)
(* The three ways a row changes: a claim is issued, the holder of the      *)
(* current claim settles it, or a deletion commits.                        *)
(***************************************************************************)
OthersSame(r) == \A q \in Report : q # r => row'[q] = row[q]

Issues(r) ==
    /\ row[r].status # "generated" /\ ~row[r].deleted
    /\ row[r].status # "none" => lock[r] = NoProc
    /\ row'[r].status = "generating" /\ row'[r].token = nextToken /\ ~row'[r].deleted
    /\ \/ row'[r].attempts = row[r].attempts + 1
       \/ row[r].status = "failed" /\ row'[r].attempts = 1
    /\ nextToken' = nextToken + 1
    /\ OthersSame(r)

Settles(p, status) ==
    LET r == work[p].id IN
    /\ Current(p)
    /\ row'[r].status = status /\ row'[r].token = row[r].token
    /\ row'[r].attempts = row[r].attempts /\ row'[r].deleted = row[r].deleted
    /\ OthersSame(r)

\* The four ways to take a claim change one row, under the next token.
LEMMA ClaimIssues ==
    ASSUME TypeInv, DeletedSettled
    PROVE  /\ \A s \in Scheduler, r \in Scheduled :
                  ClaimWindow(s, r) /\ nextToken' = nextToken + 1 => Issues(r)
           /\ \A w \in Worker, m \in Manual : ClaimManualReport(w, m) => Issues(m)
           /\ \A w \in Worker, r \in Report : RetryReport(w, r) => Issues(r)
           /\ \A p \in Proc : ReclaimReport(p) => Issues(work[p].id)
<1>t. row \in [Report -> RowType]
  BY DEF TypeInv, TypeOK
<1>i. /\ Inserted.status = "generating" /\ Inserted.token = nextToken
      /\ Inserted.attempts = 1 /\ Inserted.deleted = FALSE
  BY DEF Inserted
<1>c. \A r, n : /\ Claimed(r, n).status = "generating" /\ Claimed(r, n).token = nextToken
                /\ Claimed(r, n).attempts = n /\ Claimed(r, n).deleted = row[r].deleted
  BY Zenon DEF Claimed
<1>1. ASSUME NEW s \in Scheduler, NEW r \in Scheduled, ClaimWindow(s, r), nextToken' = nextToken + 1
      PROVE  Issues(r)
  <2>1. r \in Report
    BY Pairs
  <2>2. /\ row' = [row EXCEPT ![r] = IF row[r].status = "none" THEN Inserted
                                     ELSE Claimed(r, row[r].attempts + 1)]
        /\ lock[r] = NoProc /\ row[r].status # "generated" /\ ~row[r].deleted
    BY <1>1 DEF ClaimWindow, Claimable
  <2>3. row[r].status = "none" => row[r].attempts = 0
    BY <2>1 DEF TypeInv, RowOK, AttemptsOK
  <2>4. QED
    BY <1>t, <1>i, <1>c, <1>1, <2>1, <2>2, <2>3 DEF Issues, OthersSame
<1>2. ASSUME NEW w \in Worker, NEW m \in Manual, ClaimManualReport(w, m) PROVE Issues(m)
  <2>1. m \in Report
    BY DEF Report
  <2>2. row[m].attempts = 0 /\ ~row[m].deleted
    BY <1>2, <2>1 DEF ClaimManualReport, TypeInv, RowOK, AttemptsOK, DeletedSettled
  <2>3. QED
    BY <1>t, <1>i, <1>2, <2>1, <2>2 DEF ClaimManualReport, StartWork, Issues, OthersSame
<1>3. ASSUME NEW w \in Worker, NEW r \in Report, RetryReport(w, r) PROVE Issues(r)
  BY <1>t, <1>c, <1>3 DEF RetryReport, StartWork, Issues, OthersSame
<1>4. ASSUME NEW p \in Proc, ReclaimReport(p) PROVE Issues(work[p].id)
  <2> DEFINE r == work[p].id
  <2>1. r \in Report
    BY <1>4 DEF ReclaimReport, Goto, TypeInv, WorkOK, Attempting, Work
  <2>2. /\ row' = [row EXCEPT ![r] = Claimed(r, row[r].attempts + 1)]
        /\ lock[r] = NoProc /\ row[r].status # "generated" /\ ~row[r].deleted
        /\ nextToken' = nextToken + 1
    BY <1>4 DEF ReclaimReport, Claimable
  <2> HIDE DEF r
  <2>3. Issues(r)
    BY <1>t, <1>c, <2>1, <2>2 DEF Issues, OthersSame
  <2>4. QED
    BY <2>3 DEF r
<1>5. QED
  BY <1>1, <1>2, <1>3, <1>4

\* The finalizations change the row of the current claim only.
LEMMA FinalizationSettles ==
    ASSUME TypeInv, NEW p \in Proc
    PROVE  /\ pc[p] = "finalize" /\ Finalized(p) => Settles(p, "generated")
           /\ FinalizeReportFailure(p) => Settles(p, "failed")
<1> DEFINE r == work[p].id
<1>t. row \in [Report -> RowType]
  BY DEF TypeInv, TypeOK
<1>1. ASSUME pc[p] = "finalize", Finalized(p) PROVE Settles(p, "generated")
  <2> DEFINE x == [status |-> "generated", attempts |-> row[r].attempts,
                   token |-> row[r].token, path |-> "file", deleted |-> row[r].deleted]
  <2>1. r \in Report
    BY <1>1 DEF TypeInv, WorkOK, Attempting, Work
  <2>2. row' = [row EXCEPT ![r] = x] /\ Current(p)
    BY <1>1, Zenon DEF Finalized
  <2>3. /\ x.status = "generated" /\ x.attempts = row[r].attempts
        /\ x.token = row[r].token /\ x.deleted = row[r].deleted
    BY Zenon
  <2> HIDE DEF x
  <2>4. QED
    BY <1>t, <2>1, <2>2, <2>3 DEF Settles, OthersSame
<1>2. ASSUME FinalizeReportFailure(p) PROVE Settles(p, "failed")
  <2> DEFINE x == [row[r] EXCEPT !.status = "failed"]
  <2>1. r \in Report
    BY <1>2 DEF FinalizeReportFailure, Goto, TypeInv, WorkOK, Attempting, Work
  <2>2. row' = [row EXCEPT ![r] = x] /\ Current(p)
    BY <1>2, Zenon DEF FinalizeReportFailure
  <2>3. /\ x.status = "failed" /\ x.attempts = row[r].attempts
        /\ x.token = row[r].token /\ x.deleted = row[r].deleted
    <3>1. row[r] \in RowType
      BY <1>t, <2>1
    <3>2. QED
      BY <3>1 DEF RowType
  <2> HIDE DEF x
  <2>4. QED
    BY <1>t, <2>1, <2>2, <2>3 DEF Settles, OthersSame
<1>3. QED
  BY <1>1, <1>2

\* The commit of a deletion marks one locked row and nothing else.
LEMMA DeletionCommits ==
    ASSUME TypeInv, NEW w \in Worker, CommitDeletion(w)
    PROVE  LET r == work[w].id IN
           /\ w \in Proc /\ r \in Report /\ pc[w] = "removed"
           /\ row'[r].status = row[r].status /\ row'[r].attempts = row[r].attempts
           /\ row'[r].token = row[r].token /\ row'[r].deleted
           /\ OthersSame(r)
<1> DEFINE r == work[w].id
<1> DEFINE x == [status |-> row[r].status, attempts |-> row[r].attempts,
                 token |-> row[r].token, path |-> "", deleted |-> TRUE]
<1>1. w \in Proc /\ r \in Report /\ pc[w] = "removed" /\ row \in [Report -> RowType]
  BY DEF CommitDeletion, Goto, TypeInv, TypeOK, WorkOK, Locking, Work, Proc
<1>2. row' = [row EXCEPT ![r] = x]
  BY Zenon DEF CommitDeletion
<1>3. /\ x.status = row[r].status /\ x.attempts = row[r].attempts
      /\ x.token = row[r].token /\ x.deleted
  OBVIOUS
<1> HIDE DEF x
<1>4. QED
  BY <1>1, <1>2, <1>3 DEF OthersSame

\* Every step leaves the rows alone or changes one of them in one of these ways.
LEMMA RowSteps ==
    ASSUME TypeInv, DeletedSettled, [Next]_vars
    PROVE  \/ UNCHANGED row
           \/ \E r \in Report : Issues(r)
           \/ \E p \in Proc : pc[p] = "finalize" /\ Settles(p, "generated")
           \/ \E p \in Proc : pc[p] = "fail" /\ Settles(p, "failed")
           \/ \E w \in Worker : CommitDeletion(w)
<1>1. \A p \in Proc : FinalizeReportFailure(p) => pc[p] = "fail" /\ Settles(p, "failed")
  BY FinalizationSettles DEF FinalizeReportFailure, Goto
<1>2. \A p \in Proc : ReclaimReport(p) => work[p].id \in Report
  BY DEF ReclaimReport, Goto, TypeInv, WorkOK, Attempting, Work
<1>3. /\ UNCHANGED dbVars => UNCHANGED row
      /\ \A r \in Scheduled : r \in Report
      /\ \A m \in Manual : m \in Report
  BY Pairs DEF dbVars, Report
<1>4. QED
  BY DbSteps, ClaimIssues, FinalizationSettles, <1>1, <1>2, <1>3, Zenon

\* The invariant of the tokens is inductive.
LEMMA TokenStep ==
    ASSUME TypeInv, DeletedSettled, TokenOK, [Next]_vars
    PROVE  TokenOK'
<1>n. nextToken \in Nat /\ row \in [Report -> RowType]
      /\ \A r \in Report : row[r].token \in Nat
  BY DEF TypeInv, TypeOK, RowType
<1>h. \A p \in Proc : \A c \in InHand(p) : c.token \in Nat
  <2> SUFFICES ASSUME NEW p \in Proc, NEW c \in InHand(p) PROVE c.token \in Nat
    OBVIOUS
  <2>1. c \in Work
    <3>1. queue[p] \in Seq(Work) /\ (pc[p] \in Attempting => work[p] \in Work)
      BY DEF TypeInv, TypeOK, WorkOK
    <3>2. \A i \in DOMAIN queue[p] : queue[p][i] \in Work
      BY <3>1
    <3>3. QED
      BY <3>1, <3>2 DEF InHand
  <2>2. QED
    BY <2>1 DEF Work
<1>1. nextToken' = nextToken \/ nextToken' = nextToken + 1
  BY TokenSteps
<1>2. \A r \in Report : row'[r].token < nextToken'
  <2>1. ASSUME NEW r \in Report, Issues(r) PROVE \A q \in Report : row'[q].token < nextToken'
    BY <1>n, <2>1 DEF Issues, OthersSame, TokenOK
  <2>2. ASSUME \A q \in Report : row'[q].token = row[q].token
        PROVE  \A q \in Report : row'[q].token < nextToken'
    BY <1>n, <1>1, <2>2 DEF TokenOK
  <2>3. ASSUME NEW p \in Proc, NEW st, Settles(p, st) PROVE \A q \in Report : row'[q].token = row[q].token
    BY <2>3, Zenon DEF Settles, OthersSame
  <2>4. ASSUME NEW w \in Worker, CommitDeletion(w) PROVE \A q \in Report : row'[q].token = row[q].token
    BY <2>4, DeletionCommits, Zenon DEF OthersSame
  <2>5. QED
    BY <2>1, <2>2, <2>3, <2>4, RowSteps
<1>3. CASE nextToken' = nextToken /\ HandsShrink
  BY <1>2, <1>3 DEF TokenOK, HandsShrink
<1>4. ASSUME NEW p \in Proc, nextToken' = nextToken + 1, HandGains(p) PROVE TokenOK'
  <2>1. \A q \in Proc : \A c \in InHand(q)' : c.token < nextToken + 1
    BY <1>n, <1>h, <1>4 DEF TokenOK, HandGains
  <2>2. ASSUME NEW q \in Proc, NEW r \in Proc, q # r, NEW c \in InHand(q)', NEW e \in InHand(r)'
        PROVE  c.token # e.token
    BY <1>n, <1>h, <1>4, <2>2 DEF TokenOK, HandGains
  <2>3. QED
    BY <1>2, <1>4, <2>1, <2>2 DEF TokenOK
<1>5. QED
  BY <1>3, <1>4, TokenSteps

-----------------------------------------------------------------------------
(***************************************************************************)
(* Locks and files.                                                        *)
(***************************************************************************)

\* No two processes are in the middle of file work on one report.
LEMMA OneLocker ==
    ASSUME LockOK, NEW p \in Proc, NEW q \in Proc, p # q,
           pc[p] \in Locking, pc[q] \in Locking
    PROVE  work[p].id # work[q].id
  BY DEF LockOK

\* A step of p that touches no row, lock or file and leaves p with neither a
\* lock nor a file to finalize.
LEMMA QuietStep ==
    ASSUME FileInv, NEW p \in Proc, Alone(p), pc'[p] \notin Locking \cup {"finalize"},
           UNCHANGED <<row, file, lock, unlinked>>
    PROVE  FileInv'
<1>1. LockOK'
  BY DEF FileInv, LockOK, Alone
<1>2. PublishOK' /\ DeletingOK' /\ FileReady'
  BY DEF FileInv, PublishOK, DeletingOK, FileReady, Alone, Locking, Holds, Generating
<1>3. DeletedSettled' /\ DeletedHasNoFile' /\ GeneratedHasFile'
  BY DEF FileInv, DeletedSettled, DeletedHasNoFile, GeneratedHasFile
<1>4. QED
  BY <1>1, <1>2, <1>3 DEF FileInv

\* A claim is issued: nobody is in the middle of file work on that report, and
\* every older claim on it is void.
LEMMA IssueStep ==
    ASSUME TypeInv, TokenOK, FileInv, NEW r \in Report, Issues(r),
           NEW p \in Proc, Alone(p), pc'[p] \notin Locking \cup {"finalize"},
           UNCHANGED <<file, lock, unlinked>>
    PROVE  FileInv'
<1>w. \A q \in Proc : pc[q] \in Locking \cup Attempting => work[q].id \in Report
  BY DEF TypeInv, WorkOK, Work
<1>1. LockOK'
  BY DEF FileInv, LockOK, Alone
<1>2. ASSUME NEW q \in Proc, q # p, pc[q] \in Locking PROVE work[q].id # r
  BY <1>2, ConstantsAssumption
     DEF FileInv, LockOK, PublishOK, DeletingOK, Locking, Issues, Holds, Generating
<1>3. PublishOK'
  BY <1>w, <1>2 DEF FileInv, PublishOK, Alone, Locking, Holds, Generating, Issues, OthersSame
<1>4. DeletingOK'
  BY <1>w, <1>2 DEF FileInv, DeletingOK, Alone, Locking, Issues, OthersSame
<1>5. FileReady'
  <2> SUFFICES ASSUME NEW q \in Proc, pc'[q] \in {"written", "finalize"}, Holds(q)'
               PROVE  file'[work'[q].id]
    BY DEF FileReady
  <2>1. q # p /\ pc'[q] = pc[q] /\ work'[q] = work[q] /\ work[q].id \in Report
    BY <1>w DEF Alone, Locking, Attempting
  <2>2. work[q].token < nextToken
    BY <2>1 DEF TokenOK, InHand, Attempting
  <2>3. nextToken \in Nat /\ work[q].token \in Nat
    BY <2>1 DEF TypeInv, TypeOK, WorkOK, Work, Attempting
  <2>4. work[q].id # r
    BY <2>1, <2>2, <2>3 DEF Issues, Holds, Generating
  <2>5. QED
    BY <2>1, <2>4 DEF FileInv, FileReady, Holds, Generating, Issues, OthersSame
<1>6. DeletedSettled' /\ DeletedHasNoFile' /\ GeneratedHasFile'
  BY DEF FileInv, DeletedSettled, DeletedHasNoFile, GeneratedHasFile, Issues, OthersSame
<1>7. QED
  BY <1>1, <1>3, <1>4, <1>5, <1>6 DEF FileInv

\* The holder of the current claim settles its row; the file is there when the
\* row becomes generated.
LEMMA SettleStep ==
    ASSUME TypeInv, FileInv, NEW p \in Proc, NEW st \in {"generated", "failed"}, Settles(p, st),
           pc[p] \in {"finalize", "fail"}, st = "generated" => pc[p] = "finalize",
           Alone(p), pc'[p] \notin Locking \cup {"finalize"},
           UNCHANGED <<file, lock, unlinked>>
    PROVE  FileInv'
<1> DEFINE r == work[p].id
<1>w. \A q \in Proc : pc[q] \in Locking \cup Attempting => work[q].id \in Report
  BY DEF TypeInv, WorkOK, Work
<1>0. r \in Report /\ row[r].status = "generating" /\ lock[r] = NoProc
  BY <1>w DEF Settles, Current, Holds, Generating, Attempting
<1>f. st = "generated" => file[r]
  BY DEF FileInv, FileReady, Settles, Current
<1>o. /\ row'[r].status = st /\ row'[r].deleted = row[r].deleted
      /\ \A q \in Report : q # r => row'[q] = row[q]
  BY DEF Settles, OthersSame
<1> HIDE DEF r
<1>1. LockOK'
  BY DEF FileInv, LockOK, Alone
<1>2. ASSUME NEW q \in Proc, pc[q] \in Locking PROVE work[q].id # r
  BY <1>0, <1>2, ConstantsAssumption DEF FileInv, LockOK
<1>3. PublishOK' /\ DeletingOK'
  BY <1>w, <1>o, <1>2 DEF FileInv, PublishOK, DeletingOK, Alone, Locking, Holds, Generating
<1>4. FileReady'
  BY <1>w, <1>o DEF FileInv, FileReady, Alone, Locking, Attempting, Holds, Generating
<1>5. DeletedSettled' /\ DeletedHasNoFile'
  BY <1>0, <1>o DEF FileInv, DeletedSettled, DeletedHasNoFile
<1>6. GeneratedHasFile'
  BY <1>0, <1>f, <1>o DEF FileInv, GeneratedHasFile
<1>7. QED
  BY <1>1, <1>3, <1>4, <1>5, <1>6 DEF FileInv

\* The steps that take, use and release the row lock.
LEMMA LockingStep ==
    ASSUME TypeInv, FileInv, NEW p \in Proc,
           \/ LockClaim(p) \/ WriteFile(p) \/ ReleaseClaim(p) \/ PublishFails(p)
           \/ (\E r \in Report : LockForDeletion(p, r)) \/ RemoveFile(p)
    PROVE  FileInv'
<1> USE DEF dbVars, Goto
<1>t. /\ row \in [Report -> RowType] /\ file \in [Report -> BOOLEAN]
      /\ lock \in [Report -> Proc \cup {NoProc}]
      /\ pc \in [Proc -> {"idle", "claim", "next"} \cup Attempting \cup Locking]
      /\ work \in [Proc -> Work \cup {NoWork}]
      /\ \A q \in Proc : pc[q] \in Locking \cup Attempting => work[q].id \in Report
  BY DEF TypeInv, TypeOK, WorkOK, Work
<1>n. NoProc \notin Proc
  BY ConstantsAssumption
<1>a. Alone(p)
  BY <1>t DEF LockClaim, WriteFile, ReleaseClaim, PublishFails, LockForDeletion, RemoveFile, Alone
<1>1. CASE LockClaim(p)
  <2> DEFINE r == work[p].id
  <2>1. /\ pc'[p] = "publishing" /\ work' = work /\ r \in Report /\ lock[r] = NoProc
        /\ lock' = [lock EXCEPT ![r] = p] /\ UNCHANGED <<row, file, unlinked>>
        /\ Holds(p) /\ ~row[r].deleted
    BY <1>t, <1>1 DEF LockClaim, Attempting
  <2>2. LockOK'
    BY <1>t, <1>n, <1>a, <2>1 DEF FileInv, LockOK, Alone
  <2>3. PublishOK' /\ DeletingOK' /\ FileReady'
    BY <1>a, <2>1 DEF FileInv, PublishOK, DeletingOK, FileReady, Alone, Holds, Generating
  <2>4. DeletedSettled' /\ DeletedHasNoFile' /\ GeneratedHasFile'
    BY <2>1 DEF FileInv, DeletedSettled, DeletedHasNoFile, GeneratedHasFile
  <2>5. QED
    BY <2>2, <2>3, <2>4 DEF FileInv
<1>2. CASE WriteFile(p)
  <2> DEFINE r == work[p].id
  <2>1. /\ pc[p] = "publishing" /\ pc'[p] = "written" /\ work' = work /\ r \in Report
        /\ file' = [file EXCEPT ![r] = TRUE] /\ unlinked' = unlinked \ {r}
        /\ UNCHANGED <<row, lock>>
    BY <1>t, <1>2 DEF WriteFile, Attempting
  <2>2. LockOK'
    BY <1>a, <2>1 DEF FileInv, LockOK, Alone, Locking
  <2>3. PublishOK' /\ ~row[r].deleted
    BY <1>a, <2>1 DEF FileInv, PublishOK, Alone, Holds, Generating
  <2>4. \A q \in Proc : q # p /\ pc[q] = "removed" => work[q].id # r
    BY <2>1 DEF FileInv, LockOK, Locking
  <2>5. DeletingOK' /\ FileReady'
    BY <1>t, <1>a, <2>1, <2>4 DEF FileInv, DeletingOK, FileReady, Alone, Holds, Generating, Locking, Attempting
  <2>6. DeletedSettled' /\ DeletedHasNoFile' /\ GeneratedHasFile'
    BY <1>t, <2>1, <2>3 DEF FileInv, DeletedSettled, DeletedHasNoFile, GeneratedHasFile
  <2>7. QED
    BY <2>2, <2>3, <2>5, <2>6 DEF FileInv
<1>3. CASE ReleaseClaim(p) \/ PublishFails(p)
  <2> DEFINE r == work[p].id
  <2>1. /\ pc[p] \in Locking /\ pc'[p] \in {"finalize", "fail"} /\ work' = work /\ r \in Report
        /\ lock' = [lock EXCEPT ![r] = NoProc] /\ UNCHANGED <<row, file, unlinked>>
        /\ pc'[p] = "finalize" => pc[p] = "written"
    BY <1>t, <1>3 DEF ReleaseClaim, PublishFails, Attempting, Locking
  <2>2. LockOK'
    BY <1>t, <1>a, <2>1 DEF FileInv, LockOK, Alone, Locking
  <2>3. PublishOK' /\ DeletingOK' /\ FileReady'
    BY <1>a, <2>1 DEF FileInv, PublishOK, DeletingOK, FileReady, Alone, Holds, Generating
  <2>4. DeletedSettled' /\ DeletedHasNoFile' /\ GeneratedHasFile'
    BY <2>1 DEF FileInv, DeletedSettled, DeletedHasNoFile, GeneratedHasFile
  <2>5. QED
    BY <2>2, <2>3, <2>4 DEF FileInv
<1>4. ASSUME NEW r \in Report, LockForDeletion(p, r) PROVE FileInv'
  <2>1. /\ pc'[p] = "deleting" /\ work'[p].id = r /\ lock[r] = NoProc
        /\ lock' = [lock EXCEPT ![r] = p] /\ UNCHANGED <<row, file, unlinked>>
        /\ row[r].status \in {"generated", "failed"} /\ ~row[r].deleted
    BY <1>t, <1>4 DEF LockForDeletion
  <2>2. LockOK'
    BY <1>t, <1>n, <1>a, <2>1 DEF FileInv, LockOK, Alone
  <2>3. PublishOK' /\ DeletingOK' /\ FileReady'
    BY <1>a, <2>1 DEF FileInv, PublishOK, DeletingOK, FileReady, Alone, Holds, Generating
  <2>4. DeletedSettled' /\ DeletedHasNoFile' /\ GeneratedHasFile'
    BY <2>1 DEF FileInv, DeletedSettled, DeletedHasNoFile, GeneratedHasFile
  <2>5. QED
    BY <2>2, <2>3, <2>4 DEF FileInv
<1>5. CASE RemoveFile(p)
  <2> DEFINE r == work[p].id
  <2>1. /\ pc[p] = "deleting" /\ pc'[p] = "removed" /\ work' = work /\ r \in Report
        /\ file' = [file EXCEPT ![r] = FALSE] /\ unlinked' = unlinked \cup {r}
        /\ UNCHANGED <<row, lock>>
    BY <1>t, <1>5 DEF RemoveFile, Locking
  <2>2. LockOK'
    BY <1>a, <2>1 DEF FileInv, LockOK, Alone, Locking
  <2>3. PublishOK' /\ row[r].status # "generating"
    BY <1>a, <2>1 DEF FileInv, PublishOK, DeletingOK, Alone, Holds, Generating
  <2>4. DeletingOK' /\ FileReady'
    BY <1>t, <1>a, <2>1, <2>3 DEF FileInv, DeletingOK, FileReady, Alone, Holds, Generating, Locking, Attempting
  <2>5. DeletedSettled' /\ DeletedHasNoFile' /\ GeneratedHasFile'
    BY <1>t, <2>1 DEF FileInv, DeletedSettled, DeletedHasNoFile, GeneratedHasFile
  <2>6. QED
    BY <2>2, <2>3, <2>4, <2>5 DEF FileInv
<1>6. QED
  BY <1>1, <1>2, <1>3, <1>4, <1>5

\* The deletion commits: its file is gone and nobody else works on that file.
LEMMA CommitStep ==
    ASSUME TypeInv, FileInv, NEW w \in Worker, CommitDeletion(w)
    PROVE  FileInv'
<1> DEFINE r == work[w].id
<1>t. /\ lock \in [Report -> Proc \cup {NoProc}]
      /\ pc \in [Proc -> {"idle", "claim", "next"} \cup Attempting \cup Locking]
      /\ work \in [Proc -> Work \cup {NoWork}]
      /\ \A q \in Proc : pc[q] \in Locking \cup Attempting => work[q].id \in Report
  BY DEF TypeInv, TypeOK, WorkOK, Work
<1>1. /\ w \in Proc /\ r \in Report /\ pc[w] = "removed"
      /\ row'[r].status = row[r].status /\ row'[r].token = row[r].token /\ row'[r].deleted
      /\ \A q \in Report : q # r => row'[q] = row[q]
  BY DeletionCommits DEF OthersSame
<1>2. /\ pc'[w] = "idle" /\ Alone(w) /\ lock' = [lock EXCEPT ![r] = NoProc]
      /\ file' = file /\ unlinked' = unlinked \ {r}
  BY <1>t, <1>1 DEF CommitDeletion, Goto, Alone
<1>3. row[r].status \in {"generated", "failed"} /\ ~file[r]
  BY <1>1 DEF FileInv, DeletingOK
<1> HIDE DEF r
<1>4. \A q \in Proc : q # w /\ pc[q] \in Locking => work[q].id # r
  BY <1>1, OneLocker DEF FileInv, Locking, r
<1>5. LockOK'
  BY <1>t, <1>1, <1>2, <1>4 DEF FileInv, LockOK, Alone, Locking
<1>6. PublishOK' /\ DeletingOK'
  BY <1>t, <1>1, <1>2, <1>4 DEF FileInv, PublishOK, DeletingOK, Alone, Locking, Holds, Generating
<1>7. FileReady'
  BY <1>t, <1>1, <1>2, <1>3 DEF FileInv, FileReady, Alone, Locking, Attempting, Holds, Generating
<1>8. DeletedSettled' /\ DeletedHasNoFile' /\ GeneratedHasFile'
  BY <1>1, <1>2, <1>3 DEF FileInv, DeletedSettled, DeletedHasNoFile, GeneratedHasFile
<1>9. QED
  BY <1>5, <1>6, <1>7, <1>8 DEF FileInv

\* A process stops: its transaction rolls back and its locks are gone.
LEMMA StopStep ==
    ASSUME TypeInv, FileInv, NEW p \in Proc, Stop(p)
    PROVE  FileInv'
<1>t. /\ lock \in [Report -> Proc \cup {NoProc}]
      /\ pc \in [Proc -> {"idle", "claim", "next"} \cup Attempting \cup Locking]
      /\ work \in [Proc -> Work \cup {NoWork}]
      /\ \A q \in Proc : pc[q] \in Locking \cup Attempting => work[q].id \in Report
  BY DEF TypeInv, TypeOK, WorkOK, Work
<1>1. /\ pc'[p] = "idle" /\ Alone(p) /\ UNCHANGED <<row, file, unlinked>>
      /\ lock' = [r \in Report |-> IF lock[r] = p THEN NoProc ELSE lock[r]]
  BY <1>t DEF Stop, Alone, dbVars
<1>2. LockOK'
  BY <1>t, <1>1 DEF FileInv, LockOK, Alone, Locking
<1>3. PublishOK' /\ DeletingOK' /\ FileReady'
  BY <1>1 DEF FileInv, PublishOK, DeletingOK, FileReady, Alone, Holds, Generating
<1>4. DeletedSettled' /\ DeletedHasNoFile' /\ GeneratedHasFile'
  BY <1>1 DEF FileInv, DeletedSettled, DeletedHasNoFile, GeneratedHasFile
<1>5. QED
  BY <1>2, <1>3, <1>4 DEF FileInv

-----------------------------------------------------------------------------
\* The invariant of claims and files holds at first.
LEMMA ClaimInvInit == Init => ClaimInv
<1> SUFFICES ASSUME Init PROVE ClaimInv
  OBVIOUS
<1>1. TypeInv
  BY TypeInvInit
<1>2. \A r \in Report : row[r].status = "none" /\ row[r].token = 0 /\ row[r].deleted = FALSE
  BY DEF Init, NoRow
<1>3. \A p \in Proc : InHand(p) = {}
  BY DEF Init, InHand, Attempting
<1>4. TokenOK
  BY <1>2, <1>3 DEF Init, TokenOK
<1>5. FileInv
  BY <1>2 DEF Init, FileInv, LockOK, PublishOK, DeletingOK, FileReady, DeletedSettled,
     DeletedHasNoFile, GeneratedHasFile, Locking
<1>6. QED
  BY <1>1, <1>4, <1>5 DEF ClaimInv

\* The invariant of claims and files is inductive.
LEMMA ClaimInvStep == ClaimInv /\ [Next]_vars => ClaimInv'
<1> SUFFICES ASSUME ClaimInv, [Next]_vars PROVE ClaimInv'
  OBVIOUS
<1> USE DEF dbVars, Goto
<1>i. TypeInv /\ TokenOK /\ FileInv /\ DeletedSettled
  BY DEF ClaimInv, FileInv
<1>t. /\ pc \in [Proc -> {"idle", "claim", "next"} \cup Attempting \cup Locking]
      /\ work \in [Proc -> Work \cup {NoWork}]
      /\ \A q \in Proc : pc[q] \in Locking \cup Attempting => work[q].id \in Report
  BY <1>i DEF TypeInv, TypeOK, WorkOK, Work
<1>p. Scheduler \subseteq Proc /\ Worker \subseteq Proc /\ Manual \subseteq Report
  BY DEF Proc, Report
<1>1. ASSUME NEW p \in Proc,
             \/ StartRun(p) \/ ClaimError(p) \/ ClaimsDone(p) \/ AttemptFails(p) \/ FinalizeFails(p)
             \/ FailureNotRecorded(p) \/ GiveUp(p) \/ NextWork(p)
      PROVE  FileInv'
  <2>1. /\ Alone(p) /\ pc'[p] \in {"claim", "idle", "next", "fail", "reclaim", "attempt"}
        /\ UNCHANGED <<row, file, lock, unlinked>>
    BY <1>1, <1>t DEF StartRun, ClaimError, ClaimsDone, AttemptFails, FinalizeFails, FailureNotRecorded, GiveUp,
       NextWork, Alone
  <2>2. QED
    BY <1>i, <2>1, QuietStep DEF Locking
<1>2. ASSUME UNCHANGED <<row, file, lock, unlinked, pc, work>> PROVE FileInv'
  BY <1>i, <1>2 DEF FileInv, LockOK, PublishOK, DeletingOK, FileReady, DeletedSettled,
     DeletedHasNoFile, GeneratedHasFile, Holds, Generating
<1>3. ASSUME NEW s \in Scheduler, NEW t \in Tenant, ClaimNothing(s, t) \/ ClaimNoop(s, t) \/ ClaimRefused(s, t)
      PROVE  FileInv'
  BY <1>2, <1>3 DEF ClaimNothing, ClaimNoop, ClaimRefused, Claiming
<1>4. ASSUME NEW s \in Scheduler, NEW t \in Tenant, ClaimReport(s, t) PROVE FileInv'
  <2>1. PICK d \in Due : ClaimWindow(s, <<t, d>>) /\ nextToken' = nextToken + 1
    BY <1>4 DEF ClaimReport
  <2>2. <<t, d>> \in Report /\ Issues(<<t, d>>)
    BY <1>i, <2>1, ClaimIssues, Pairs
  <2>3. /\ s \in Proc /\ Alone(s) /\ pc'[s] \notin Locking \cup {"finalize"}
        /\ UNCHANGED <<file, lock, unlinked>>
    BY <1>4, <1>p DEF ClaimReport, Claiming, Alone, Locking
  <2>4. QED
    BY <1>i, <2>2, <2>3, IssueStep
<1>5. ASSUME NEW w \in Worker, NEW r \in Report,
             (r \in Manual /\ ClaimManualReport(w, r)) \/ RetryReport(w, r)
      PROVE  FileInv'
  <2>1. Issues(r)
    BY <1>i, <1>5, ClaimIssues
  <2>2. /\ w \in Proc /\ Alone(w) /\ pc'[w] \notin Locking \cup {"finalize"}
        /\ UNCHANGED <<file, lock, unlinked>>
    BY <1>5, <1>p, <1>t DEF ClaimManualReport, RetryReport, StartWork, Alone, Locking
  <2>3. QED
    BY <1>i, <2>1, <2>2, IssueStep
<1>6. ASSUME NEW p \in Proc, ReclaimReport(p) PROVE FileInv'
  <2>1. Issues(work[p].id) /\ work[p].id \in Report
    BY <1>i, <1>t, <1>6, ClaimIssues DEF ReclaimReport, Attempting
  <2>2. /\ Alone(p) /\ pc'[p] \notin Locking \cup {"finalize"}
        /\ UNCHANGED <<file, lock, unlinked>>
    BY <1>6, <1>t DEF ReclaimReport, Alone, Locking
  <2>3. QED
    BY <1>i, <2>1, <2>2, IssueStep
<1>7. ASSUME NEW p \in Proc, FinalizeReport(p) \/ FinalizeUnacknowledged(p) PROVE FileInv'
  <2>1. pc[p] = "finalize" /\ Settles(p, "generated")
    BY <1>i, <1>7, FinalizationSettles DEF FinalizeReport, FinalizeUnacknowledged
  <2>2. /\ Alone(p) /\ pc'[p] \notin Locking \cup {"finalize"}
        /\ UNCHANGED <<file, lock, unlinked>>
    BY <1>7, <1>t DEF FinalizeReport, FinalizeUnacknowledged, Finalized, Alone, Locking
  <2>3. QED
    BY <1>i, <2>1, <2>2, SettleStep
<1>8. ASSUME NEW p \in Proc, FinalizeReportFailure(p) PROVE FileInv'
  <2>1. pc[p] = "fail" /\ Settles(p, "failed")
    BY <1>i, <1>8, FinalizationSettles DEF FinalizeReportFailure
  <2>2. /\ Alone(p) /\ pc'[p] \notin Locking \cup {"finalize"}
        /\ UNCHANGED <<file, lock, unlinked>>
    BY <1>8, <1>t DEF FinalizeReportFailure, Alone, Locking
  <2>3. QED
    BY <1>i, <2>1, <2>2, SettleStep
<1>9. ASSUME NEW r \in Report, LeaseExpires(r) PROVE FileInv'
  BY <1>2, <1>9 DEF LeaseExpires
<1>10. ASSUME NEW t \in Tenant, DueArrives(t) PROVE FileInv'
  BY <1>2, <1>10 DEF DueArrives
<1>11. ASSUME UNCHANGED vars PROVE FileInv'
  BY <1>2, <1>11 DEF vars
<1>12. FileInv'
  <2> HIDE DEF dbVars, Goto
  <2>1. ASSUME NEW p \in Proc, Attempt(p) PROVE FileInv'
    BY <1>i, <1>1, <1>6, <1>7, <1>8, <2>1, LockingStep DEF Attempt
  <2>2. ASSUME NEW s \in Scheduler, NEW t \in Tenant, Claim(s, t) PROVE FileInv'
    BY <1>3, <1>4, <2>2 DEF Claim
  <2>3. ASSUME NEW w \in Worker, Delete(w) \/ \E r \in Report : LockForDeletion(w, r) PROVE FileInv'
    BY <1>i, <1>p, <2>3, LockingStep, CommitStep DEF Delete
  <2>4. QED
    BY <1>i, <1>p, <1>1, <1>5, <1>9, <1>10, <1>11, <2>1, <2>2, <2>3, StopStep DEF Next
<1>13. QED
  BY <1>i, <1>12, TypeInvStep, TokenStep DEF ClaimInv

-----------------------------------------------------------------------------
\* However leases expire and reports are retried, no two processes have the
\* current claim of one report (claim_token in every claim statement).
THEOREM OneOwner == Spec => []SingleOwner
<1>1. ClaimInv => SingleOwner
  BY DEF ClaimInv, TokenOK, SingleOwner, Generating
<1>2. QED
  BY ClaimInvInit, ClaimInvStep, <1>1, PTL DEF Spec

\* No file outlives or follows the deletion of its report: WithReportClaim and
\* deleteReport exclude each other on the row.
THEOREM DeletedFileGone == Spec => []DeletedHasNoFile
<1>1. ClaimInv => DeletedHasNoFile
  BY DEF ClaimInv, FileInv
<1>2. QED
  BY ClaimInvInit, ClaimInvStep, <1>1, PTL DEF Spec

\* A report is generated only once its file is published, and it keeps the file
\* until a deletion removes it (withReportClaim, finalizeReport, deleteReport).
THEOREM GeneratedFileKept == Spec => []GeneratedHasFile
<1>1. ClaimInv => GeneratedHasFile
  BY DEF ClaimInv, FileInv
<1>2. QED
  BY ClaimInvInit, ClaimInvStep, <1>1, PTL DEF Spec

\* A generated report stays generated and a deleted one stays as it is, whatever
\* stale runners and retries still try (the WHERE clauses of every statement).
THEOREM SettledForGood == Spec => SettledStays
<1> DEFINE Stays == \A r \in Report :
        /\ row[r].status = "generated" => row'[r].status = "generated"
        /\ row[r].deleted => row'[r] = row[r]
<1>1. ClaimInv /\ [Next]_vars => [Stays]_row
  <2> SUFFICES ASSUME ClaimInv, [Next]_vars PROVE Stays \/ UNCHANGED row
    OBVIOUS
  <2>i. TypeInv /\ FileInv /\ DeletedSettled
    BY DEF ClaimInv, FileInv
  <2>1. ASSUME NEW r \in Report, Issues(r) PROVE Stays
    BY <2>1 DEF Issues, OthersSame
  <2>2. ASSUME NEW p \in Proc, NEW st, Settles(p, st) PROVE Stays
    BY <2>i, <2>2 DEF Settles, Current, Holds, Generating, OthersSame, DeletedSettled
  <2>3. ASSUME NEW w \in Worker, CommitDeletion(w) PROVE Stays
    <3> DEFINE r == work[w].id
    <3>1. /\ w \in Proc /\ r \in Report /\ pc[w] = "removed"
          /\ row'[r].status = row[r].status /\ OthersSame(r)
      BY <2>i, <2>3, DeletionCommits
    <3>2. ~row[r].deleted
      BY <2>i, <3>1 DEF FileInv, DeletingOK
    <3>3. QED
      BY <3>1, <3>2 DEF OthersSame
  <2>4. QED
    BY <2>i, <2>1, <2>2, <2>3, RowSteps
<1>2. QED
  BY ClaimInvInit, ClaimInvStep, <1>1, PTL DEF Spec, SettledStays

\* Attempts are counted one by one, each under a new token, and start over only
\* from a failed row (claimScheduledReport, reclaimReport, retryReport).
THEOREM AttemptsCounted == Spec => ClaimsAreCounted
<1> DEFINE Counted == \A r \in Report : row'[r].attempts # row[r].attempts =>
        /\ row'[r].token > row[r].token
        /\ \/ row'[r].attempts = row[r].attempts + 1
           \/ row[r].status = "failed" /\ row'[r].attempts = 1
<1>1. ClaimInv /\ [Next]_vars => [Counted]_row
  <2> SUFFICES ASSUME ClaimInv, [Next]_vars PROVE Counted \/ UNCHANGED row
    OBVIOUS
  <2>i. TypeInv /\ TokenOK /\ DeletedSettled
    BY DEF ClaimInv, FileInv
  <2>n. nextToken \in Nat /\ \A r \in Report : row[r].token \in Nat
    BY <2>i, RowFields DEF TypeInv, TypeOK
  <2>1. ASSUME NEW r \in Report, Issues(r) PROVE Counted
    BY <2>i, <2>n, <2>1 DEF Issues, OthersSame, TokenOK
  <2>2. ASSUME NEW p \in Proc, NEW st, Settles(p, st) PROVE Counted
    BY <2>2 DEF Settles, OthersSame
  <2>3. ASSUME NEW w \in Worker, CommitDeletion(w) PROVE Counted
    BY <2>i, <2>3, DeletionCommits DEF OthersSame
  <2>4. QED
    BY <2>i, <2>1, <2>2, <2>3, RowSteps
<1>2. QED
  BY ClaimInvInit, ClaimInvStep, <1>1, PTL DEF Spec, ClaimsAreCounted

\* The CHECK on the start of a window (0007) refuses the claim of no window but one
\* that the mail digest completed: an open window and a new one lie ahead of their
\* schedule, and a completed window of this service has its report or lost it to
\* an administrator (loadReportSchedules, claimScheduledReport).
THEOREM StrandedByMail == Spec => []OnlyMailedStrand
<1>1. WindowInv /\ ClaimInv => OnlyMailedStrand
  <2> SUFFICES ASSUME WindowInv, ClaimInv, NEW s \in Scheduler, NEW t \in Tenant, NEW d \in Due,
                      Selected(s, t, d), ~ByMail(<<t, d>>)
               PROVE  StartsInTime(<<t, d>>)
    BY DEF OnlyMailedStrand
  <2> DEFINE r == <<t, d>>
  <2>r. r \in Scheduled /\ r \in Report /\ r[1] = t /\ r[2] = d
    BY Pairs
  <2>t. lastSuccess[t] \in Int /\ d \in Int
    BY ConstantsAssumption DEF WindowInv, TypeInv, TypeOK, Due
  <2>1. CASE d \in Unreported(t)
    <3>1. window[r] = "completed" /\ items[r]
      BY <2>1 DEF Unreported
    <3>2. row[r].status = "generated" \/ row[r].deleted
      BY <2>r, <3>1 DEF WindowInv, CompletedWindowIsReported
    <3>3. row[r].status = "none" \/ Claimable(r, expired)
      BY <2>1 DEF Unreported
    <3>4. row[r].deleted => row[r].status \in {"generated", "failed"}
      BY <2>r DEF ClaimInv, FileInv, DeletedSettled
    <3>5. QED
      BY <3>2, <3>3, <3>4 DEF Claimable
  <2>2. CASE d \in Pending(t)
    <3>1. d > lastSuccess[t]
      BY <2>2, <2>r DEF Pending, WindowInv, PendingAhead
    <3>2. QED
      BY <2>r, <2>t, <3>1 DEF StartsInTime
  <2>3. CASE d > lastSuccess[t]
    BY <2>r, <2>t, <2>3 DEF StartsInTime
  <2>4. QED
    BY <2>1, <2>2, <2>3, Zenon DEF Selected
<1>2. QED
  BY WindowInvInit, WindowInvStep, ClaimInvInit, ClaimInvStep, <1>1, PTL DEF Spec
=============================================================================

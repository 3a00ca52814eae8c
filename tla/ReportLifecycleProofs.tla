------------------------ MODULE ReportLifecycleProofs ------------------------
(***************************************************************************)
(* Theorems about ReportLifecycle, for every set of tenants, processes and *)
(* manual reports and every number of due times.                           *)
(***************************************************************************)
EXTENDS ReportLifecycle, TLAPS

\* A row has had an attempt exactly when it was inserted.
AttemptsOK(x) == x.status = "none" <=> x.attempts = 0

RowOK == \A r \in Report : AttemptsOK(row[r])

\* A process in the middle of something has a claim or a row to do it on.
WorkOK == \A p \in Proc : pc[p] \in Attempting \cup Locking => work[p] \in Work

TypeInv == TypeOK /\ RowOK /\ WorkOK

-----------------------------------------------------------------------------
\* A row put together from five well-typed fields, and the fields of a row.
LEMMA RowIntro ==
    ASSUME NEW s \in {"none", "generating", "generated", "failed"},
           NEW n \in 0..MaxAttempts, NEW k \in Nat,
           NEW f \in {"", "placeholder", "file"}, NEW b \in BOOLEAN
    PROVE  [status |-> s, attempts |-> n, token |-> k, path |-> f, deleted |-> b] \in RowType
  BY Zenon DEF RowType

\* The fields of a row have their types.
LEMMA RowFields ==
    ASSUME TypeInv, NEW r \in Report
    PROVE  /\ row[r].status \in {"none", "generating", "generated", "failed"}
           /\ row[r].attempts \in 0..MaxAttempts
           /\ row[r].token \in Nat
           /\ row[r].path \in {"", "placeholder", "file"}
           /\ row[r].deleted \in BOOLEAN
<1>1. row[r] \in RowType
  BY DEF TypeInv, TypeOK
<1>2. QED
  BY <1>1 DEF RowType

\* A claim changes status, attempts and token, and nothing else.
LEMMA ClaimedType ==
    ASSUME TypeInv, NEW r \in Report, NEW n \in 1..MaxAttempts
    PROVE  /\ Claimed(r, n) \in RowType /\ AttemptsOK(Claimed(r, n))
           /\ Claimed(r, n).status = "generating"
           /\ Claimed(r, n).attempts = n
           /\ Claimed(r, n).token = nextToken
           /\ Claimed(r, n).deleted = row[r].deleted
<1>1. nextToken \in Nat /\ n \in 0..MaxAttempts
  BY DEF TypeInv, TypeOK, MaxAttempts
<1>2. Claimed(r, n) \in RowType
  BY <1>1, RowFields, RowIntro, Zenon DEF Claimed
<1>3. /\ Claimed(r, n).status = "generating" /\ Claimed(r, n).attempts = n
      /\ Claimed(r, n).token = nextToken /\ Claimed(r, n).deleted = row[r].deleted
  BY Zenon DEF Claimed
<1>4. AttemptsOK(Claimed(r, n))
  BY <1>3 DEF AttemptsOK, MaxAttempts
<1>5. QED
  BY <1>2, <1>3, <1>4

\* A newly inserted row is a row.
LEMMA InsertedType ==
    ASSUME TypeInv, NEW r \in Report, NEW n \in 1..MaxAttempts
    PROVE  /\ Inserted \in RowType /\ AttemptsOK(Inserted)
           /\ Inserted.status = "generating" /\ Inserted.attempts = 1
           /\ Inserted.token = nextToken /\ Inserted.deleted = FALSE
           /\ ClaimOf(r, n) \in Work
           /\ ClaimOf(r, n).id = r /\ ClaimOf(r, n).token = nextToken
           /\ ClaimOf(r, n).attempts = n
<1>1. nextToken \in Nat
  BY DEF TypeInv, TypeOK
<1>2. QED
  BY <1>1 DEF RowType, AttemptsOK, Inserted, ClaimOf, Work, MaxAttempts

\* Storing one well-typed row keeps all rows well typed.
LEMMA RowStored ==
    ASSUME TypeInv, NEW r \in Report, NEW x \in RowType, AttemptsOK(x),
           row' = [row EXCEPT ![r] = x]
    PROVE  row' \in [Report -> RowType] /\ RowOK'
  BY DEF TypeInv, TypeOK, RowOK

\* The type invariant holds at first.
LEMMA TypeInvInit == Init => TypeInv
<1> SUFFICES ASSUME Init PROVE TypeInv
  OBVIOUS
<1>1. NoRow \in RowType
  BY DEF NoRow, RowType, MaxAttempts
<1>2. AttemptsOK(NoRow)
  BY DEF NoRow, AttemptsOK
<1>3. RowOK
  BY <1>2 DEF Init, RowOK
<1>4. WorkOK
  BY DEF Init, WorkOK, Attempting, Locking
<1>5. NoDue \in [Tenant -> 0..MaxDue]
  BY ConstantsAssumption DEF NoDue
<1>6. /\ window \in [Scheduled -> {"none", "pending", "completed"}]
      /\ items \in [Scheduled -> BOOLEAN]
  BY DEF Init, ByMail
<1>7. lastSuccess \in [Tenant -> 0..MaxDue] /\ due \in [Tenant -> 0..MaxDue]
  BY ConstantsAssumption DEF Init
<1>8. TypeOK
  BY ConstantsAssumption, <1>1, <1>5, <1>6, <1>7 DEF Init, TypeOK
<1>9. QED
  BY <1>3, <1>4, <1>8 DEF TypeInv

-----------------------------------------------------------------------------
(***************************************************************************)
(* Every step keeps the types.  One step per action.                       *)
(***************************************************************************)
LEMMA TypeInvStep == TypeInv /\ [Next]_vars => TypeInv'
<1> SUFFICES ASSUME TypeInv, [Next]_vars PROVE TypeInv'
  OBVIOUS
<1> USE DEF TypeInv, TypeOK, dbVars, clockVars, runVars, Goto
<1>w. \A p \in Proc : pc[p] \in Attempting \cup Locking =>
          /\ work[p] \in Work
          /\ work[p].id \in Report /\ work[p].token \in Nat /\ work[p].attempts \in 1..MaxAttempts
  BY DEF WorkOK, Work
<1>1. ASSUME NEW p \in Scheduler, StartRun(p) PROVE TypeInv'
  BY <1>1 DEF StartRun, RowOK, WorkOK, Proc, Attempting, Locking
<1>2. ASSUME NEW p \in Scheduler, ClaimError(p) PROVE TypeInv'
  BY <1>2, ConstantsAssumption DEF ClaimError, RowOK, WorkOK, Proc, Attempting, Locking, ForgetNow, NoDue
<1>3. ASSUME NEW p \in Scheduler, ClaimsDone(p) PROVE TypeInv'
  BY <1>3, ConstantsAssumption DEF ClaimsDone, RowOK, WorkOK, Proc, Attempting, Locking, ForgetNow, NoDue
<1>4. ASSUME NEW p \in Scheduler, NEW t \in Tenant, ClaimNothing(p, t) PROVE TypeInv'
  BY <1>4 DEF ClaimNothing, Claiming, RowOK, WorkOK, Proc
<1>5. ASSUME NEW p \in Scheduler, NEW t \in Tenant, ClaimNoop(p, t) PROVE TypeInv'
  <2>1. PICK d \in Due, has \in BOOLEAN : CompleteNoop(p, <<t, d>>, has)
    BY <1>5 DEF ClaimNoop
  <2>2. <<t, d>> \in Scheduled /\ p \in Proc
    BY DEF Scheduled, Proc
  <2>3. items' \in [Scheduled -> BOOLEAN]
    BY <2>1, <2>2 DEF CompleteNoop
  <2>4. /\ window' \in [Scheduled -> {"none", "pending", "completed"}]
        /\ lastSuccess' \in [Tenant -> 0..MaxDue]
    BY <2>1, <2>2 DEF CompleteNoop, Due, Later
  <2>5. QED
    BY <1>5, <2>2, <2>3, <2>4 DEF ClaimNoop, Claiming, RowOK, WorkOK
<1>6. ASSUME NEW p \in Scheduler, NEW t \in Tenant, ClaimRefused(p, t) PROVE TypeInv'
  BY <1>6 DEF ClaimRefused, Claiming, RowOK, WorkOK, Proc
<1>7. ASSUME NEW p \in Proc, AttemptFails(p) PROVE TypeInv'
  BY <1>7, <1>w DEF AttemptFails, RowOK, WorkOK, Attempting, Locking
<1>8. ASSUME NEW p \in Proc, LockClaim(p) PROVE TypeInv'
  BY <1>8, <1>w DEF LockClaim, RowOK, WorkOK, Attempting, Locking
<1>9. ASSUME NEW p \in Proc, WriteFile(p) PROVE TypeInv'
  BY <1>9, <1>w DEF WriteFile, RowOK, WorkOK, Attempting, Locking
<1>10. ASSUME NEW p \in Proc, ReleaseClaim(p) PROVE TypeInv'
  BY <1>10, <1>w DEF ReleaseClaim, RowOK, WorkOK, Attempting, Locking
<1>11. ASSUME NEW p \in Proc, PublishFails(p) PROVE TypeInv'
  BY <1>11, <1>w DEF PublishFails, RowOK, WorkOK, Attempting, Locking
<1>12. ASSUME NEW p \in Proc, FinalizeFails(p) PROVE TypeInv'
  BY <1>12, <1>w DEF FinalizeFails, RowOK, WorkOK, Attempting, Locking
<1>13. ASSUME NEW p \in Proc, FailureNotRecorded(p) PROVE TypeInv'
  BY <1>13, <1>w DEF FailureNotRecorded, RowOK, WorkOK, Attempting, Locking
<1>14. ASSUME NEW p \in Proc, GiveUp(p) PROVE TypeInv'
  BY <1>14, <1>w DEF GiveUp, RowOK, WorkOK, Attempting, Locking
<1>15. ASSUME NEW p \in Proc, NextWork(p) PROVE TypeInv'
  <2>1. CASE queue[p] = <<>>
    BY <1>15, <1>w, <2>1 DEF NextWork, RowOK, WorkOK, Attempting, Locking
  <2>2. CASE queue[p] # <<>>
    <3>1. queue[p] \in Seq(Work) /\ Head(queue[p]) \in Work /\ Tail(queue[p]) \in Seq(Work)
      BY <2>2
    <3>2. /\ pc' = [pc EXCEPT ![p] = "attempt"]
          /\ work' = [work EXCEPT ![p] = Head(queue[p])]
          /\ queue' = [queue EXCEPT ![p] = Tail(queue[p])]
          /\ UNCHANGED <<row, window, items, lastSuccess, file, due, expired, nextToken, lock,
                         todo, nowDue, nowExpired, unlinked>>
      BY <1>15, <2>2 DEF NextWork
    <3>3. WorkOK' /\ RowOK'
      BY <3>1, <3>2 DEF WorkOK, RowOK
    <3>4. QED
      BY <3>1, <3>2, <3>3 DEF Attempting
  <2>3. QED
    BY <2>1, <2>2
<1>16. ASSUME NEW p \in Proc, Stop(p) PROVE TypeInv'
  BY <1>16, ConstantsAssumption DEF Stop, RowOK, WorkOK, Attempting, Locking, ForgetNow, NoDue
<1>17. ASSUME NEW r \in Report, LeaseExpires(r) PROVE TypeInv'
  BY <1>17, RowFields DEF LeaseExpires, RowOK, WorkOK
<1>18. ASSUME NEW t \in Tenant, DueArrives(t) PROVE TypeInv'
  BY <1>18, ConstantsAssumption DEF DueArrives, RowOK, WorkOK
<1>19. ASSUME NEW p \in Worker, RemoveFile(p) PROVE TypeInv'
  BY <1>19, <1>w DEF RemoveFile, RowOK, WorkOK, Attempting, Locking, Proc
<1>20. ASSUME NEW p \in Worker, NEW r \in Manual, ClaimManualReport(p, r) PROVE TypeInv'
  <2>1. r \in Report /\ p \in Proc /\ 1 \in 1..MaxAttempts
    BY DEF Report, Proc, MaxAttempts
  <2>2. row' \in [Report -> RowType] /\ RowOK'
    BY <1>20, <2>1, InsertedType, RowStored DEF ClaimManualReport
  <2>3. ClaimOf(r, 1) \in Work
    BY <2>1, InsertedType
  <2>4. QED
    BY <1>20, <2>1, <2>2, <2>3 DEF ClaimManualReport, StartWork, WorkOK, Attempting
<1>21. ASSUME NEW p \in Worker, NEW r \in Report, RetryReport(p, r) PROVE TypeInv'
  <2>1. p \in Proc /\ 1 \in 1..MaxAttempts
    BY DEF Proc, MaxAttempts
  <2>2. row' \in [Report -> RowType] /\ RowOK'
    BY <1>21, <2>1, ClaimedType, RowStored DEF RetryReport
  <2>3. ClaimOf(r, 1) \in Work
    BY <2>1, InsertedType
  <2>4. QED
    BY <1>21, <2>1, <2>2, <2>3 DEF RetryReport, StartWork, WorkOK, Attempting
<1>22. ASSUME NEW p \in Proc, ReclaimReport(p) PROVE TypeInv'
  <2> DEFINE r == work[p].id
  <2> DEFINE n == row[r].attempts + 1
  <2>1. r \in Report
    BY <1>22, <1>w DEF ReclaimReport, Attempting
  <2>2. n \in 1..MaxAttempts
    <3>1. row[r].attempts \in 0..MaxAttempts
      BY <2>1, RowFields
    <3>2. row[r].attempts < MaxAttempts
      BY <1>22 DEF ReclaimReport, Claimable
    <3>3. QED
      BY <3>1, <3>2 DEF MaxAttempts
  <2>3. row' \in [Report -> RowType] /\ RowOK'
    BY <1>22, <2>1, <2>2, ClaimedType, RowStored DEF ReclaimReport
  <2>4. ClaimOf(r, n) \in Work
    BY <2>1, <2>2, InsertedType
  <2>5. QED
    BY <1>22, <2>3, <2>4 DEF ReclaimReport, WorkOK, Attempting
<1>23. ASSUME NEW p \in Worker, NEW r \in Report, LockForDeletion(p, r) PROVE TypeInv'
  <2>1. [id |-> r, token |-> row[r].token, attempts |-> row[r].attempts] \in Work
    <3>1. row[r].token \in Nat /\ row[r].attempts \in 0..MaxAttempts
      BY RowFields
    <3>2. row[r].attempts # 0
      BY <1>23 DEF LockForDeletion, RowOK, AttemptsOK
    <3>3. row[r].attempts \in 1..MaxAttempts
      BY <3>1, <3>2 DEF MaxAttempts
    <3>4. QED
      BY <3>1, <3>3 DEF Work
  <2>2. QED
    BY <1>23, <2>1 DEF LockForDeletion, RowOK, WorkOK, Proc, Attempting, Locking
<1>24. ASSUME NEW p \in Worker, CommitDeletion(p) PROVE TypeInv'
  <2> DEFINE r == work[p].id
  <2> DEFINE x == [status |-> row[r].status, attempts |-> row[r].attempts,
                   token |-> row[r].token, path |-> "", deleted |-> TRUE]
  <2>1. r \in Report /\ p \in Proc
    BY <1>24, <1>w DEF CommitDeletion, Locking, Proc
  <2>2. x \in RowType
    BY <2>1, RowFields, RowIntro, Zenon
  <2>3. AttemptsOK(x)
    BY <2>1 DEF RowOK, AttemptsOK
  <2>4. row' = [row EXCEPT ![r] = x]
    BY <1>24, Zenon DEF CommitDeletion
  <2> HIDE DEF x
  <2>5. row' \in [Report -> RowType] /\ RowOK'
    BY <2>1, <2>2, <2>3, <2>4, RowStored
  <2>6. QED
    BY <1>24, <2>1, <2>5 DEF CommitDeletion, WorkOK, Attempting, Locking
<1>25. ASSUME NEW p \in Proc, FinalizeReportFailure(p) PROVE TypeInv'
  <2> DEFINE r == work[p].id
  <2>1. r \in Report
    BY <1>25, <1>w DEF FinalizeReportFailure, Attempting
  <2> DEFINE x == [row[r] EXCEPT !.status = "failed"]
  <2>2. row' \in [Report -> RowType] /\ RowOK'
    <3>1. x \in RowType /\ x.status = "failed" /\ x.attempts = row[r].attempts
      <4>1. ASSUME NEW y \in RowType
            PROVE  LET z == [y EXCEPT !.status = "failed"]
                   IN  z \in RowType /\ z.status = "failed" /\ z.attempts = y.attempts
        BY DEF RowType
      <4>2. QED
        BY <2>1, <4>1
    <3>2. row' = [row EXCEPT ![r] = x]
      BY <1>25 DEF FinalizeReportFailure
    <3>3. row[r].attempts # 0
      BY <1>25, <2>1 DEF FinalizeReportFailure, Current, Holds, Generating, RowOK, AttemptsOK
    <3> HIDE DEF x, r
    <3>4. AttemptsOK(x)
      BY <3>1, <3>3 DEF AttemptsOK
    <3>5. QED
      BY <2>1, <3>1, <3>2, <3>4, RowStored
  <2>3. QED
    BY <1>25, <1>w, <2>2 DEF FinalizeReportFailure, WorkOK, Attempting, Locking
<1>26. ASSUME NEW p \in Proc, Finalized(p), pc' = [pc EXCEPT ![p] = "next"] \/ pc' = [pc EXCEPT ![p] = "fail"],
              pc[p] = "finalize"
       PROVE  TypeInv'
  <2> DEFINE r == work[p].id
  <2> DEFINE x == [status |-> "generated", attempts |-> row[r].attempts,
                   token |-> row[r].token, path |-> "file", deleted |-> row[r].deleted]
  <2>1. r \in Report
    BY <1>26, <1>w DEF Attempting
  <2>2. x \in RowType
    BY <2>1, RowFields, RowIntro, Zenon
  <2>3. AttemptsOK(x)
    BY <1>26, <2>1 DEF Finalized, Current, Holds, Generating, RowOK, AttemptsOK
  <2>4. row' = [row EXCEPT ![r] = x]
    BY <1>26, Zenon DEF Finalized
  <2> HIDE DEF x
  <2>5. row' \in [Report -> RowType] /\ RowOK'
    BY <2>1, <2>2, <2>3, <2>4, RowStored
  <2>6. /\ window' \in [Scheduled -> {"none", "pending", "completed"}]
        /\ lastSuccess' \in [Tenant -> 0..MaxDue]
    <3>1. CASE r \in Scheduled
      <4>1. r[1] \in Tenant /\ r[2] \in 1..MaxDue
        BY <3>1 DEF Scheduled, Due
      <4>2. Later(lastSuccess[r[1]], r[2]) \in 0..MaxDue
        BY <4>1 DEF Later
      <4>3. /\ window' = [window EXCEPT ![r] = "completed"]
            /\ lastSuccess' = [lastSuccess EXCEPT ![r[1]] = Later(lastSuccess[r[1]], r[2])]
        BY <1>26, <3>1 DEF Finalized
      <4>4. QED
        BY <3>1, <4>1, <4>2, <4>3
    <3>2. CASE r \notin Scheduled
      BY <1>26, <3>2 DEF Finalized
    <3>3. QED
      BY <3>1, <3>2
  <2>7. QED
    BY <1>26, <1>w, <2>5, <2>6 DEF Finalized, WorkOK, Attempting, Locking
<1>27. ASSUME NEW s \in Scheduler, NEW t \in Tenant, ClaimReport(s, t) PROVE TypeInv'
  <2>1. PICK d \in Due : ClaimWindow(s, <<t, d>>)
    BY <1>27 DEF ClaimReport
  <2> DEFINE r == <<t, d>>
  <2> DEFINE n == row[r].attempts + 1
  <2>2. r \in Scheduled /\ r \in Report /\ s \in Proc
    BY DEF Scheduled, Report, Proc
  <2> HIDE DEF r
  <2>3. n \in 1..MaxAttempts
    <3>1. row[r].attempts \in 0..MaxAttempts
      BY <2>2, RowFields
    <3>2. row[r].attempts = 0 \/ row[r].attempts < MaxAttempts
      BY <2>1, <2>2 DEF ClaimWindow, Claimable, RowOK, AttemptsOK, r
    <3>3. QED
      BY <3>1, <3>2 DEF MaxAttempts
  <2>4. row' \in [Report -> RowType] /\ RowOK'
    <3>1. row' = [row EXCEPT ![r] = IF row[r].status = "none" THEN Inserted ELSE Claimed(r, n)]
      BY <2>1 DEF ClaimWindow, r
    <3>2. QED
      BY <2>2, <2>3, <3>1, InsertedType, ClaimedType, RowStored
  <2>5. ClaimOf(r, n) \in Work
    BY <2>2, <2>3, InsertedType
  <2>6. queue' \in [Proc -> Seq(Work)]
    <3>1. Append(queue[s], ClaimOf(r, n)) \in Seq(Work)
      BY <2>2, <2>5
    <3>2. queue' = [queue EXCEPT ![s] = Append(queue[s], ClaimOf(r, n))]
      BY <2>1 DEF ClaimWindow, r
    <3>3. QED
      BY <2>2, <3>1, <3>2
  <2>7. /\ items' \in [Scheduled -> BOOLEAN]
        /\ window' \in [Scheduled -> {"none", "pending", "completed"}]
    BY <2>1, <2>2 DEF ClaimWindow, r
  <2>8. QED
    <3>1. /\ todo' = [todo EXCEPT ![s] = todo[s] \ {t}]
          /\ nextToken' = nextToken + 1
          /\ UNCHANGED <<lastSuccess, file, due, expired, lock, pc, work, nowDue, nowExpired, unlinked>>
      BY <1>27 DEF ClaimReport, Claiming
    <3>2. WorkOK'
      BY <3>1 DEF WorkOK
    <3>3. QED
      BY <2>2, <2>4, <2>6, <2>7, <3>1, <3>2
<1>28. ASSUME UNCHANGED vars PROVE TypeInv'
  BY <1>28 DEF vars, RowOK, WorkOK
<1>29. ASSUME NEW p \in Proc, FinalizeReport(p) \/ FinalizeUnacknowledged(p) PROVE TypeInv'
  BY <1>26, <1>29 DEF FinalizeReport, FinalizeUnacknowledged
<1>30. QED
  <2> HIDE DEF TypeInv, TypeOK, Goto, dbVars, clockVars, runVars
  <2>1. ASSUME NEW p \in Proc, Attempt(p) PROVE TypeInv'
    BY <2>1, <1>7, <1>8, <1>9, <1>10, <1>11, <1>12, <1>13, <1>14, <1>15, <1>22, <1>25, <1>29 DEF Attempt
  <2>2. ASSUME NEW s \in Scheduler, NEW t \in Tenant, Claim(s, t) PROVE TypeInv'
    BY <2>2, <1>4, <1>5, <1>6, <1>27 DEF Claim
  <2>3. QED
    BY <2>1, <2>2, <1>1, <1>2, <1>3, <1>16, <1>17, <1>18, <1>19, <1>20, <1>21, <1>23, <1>24, <1>28
       DEF Next, Delete

\* Every variable keeps its type in every reachable state; in particular no claim
\* ever makes a fourth attempt (the attempts guards of claimScheduledReport and
\* reclaimReport).
THEOREM TypeCorrect == Spec => []TypeOK
<1>1. TypeInv => TypeOK
  BY DEF TypeInv
<1>2. QED
  BY TypeInvInit, TypeInvStep, <1>1, PTL DEF Spec

-----------------------------------------------------------------------------
(***************************************************************************)
(* Windows and schedules.                                                  *)
(***************************************************************************)

\* A completed window lies behind its schedule.
CompletedBehind ==
    \A r \in Scheduled : window[r] = "completed" => r[2] <= lastSuccess[r[1]]

\* Open windows lie ahead of their schedule, one at a time.
PendingAhead ==
    \A r, q \in Scheduled : window[r] = "pending" =>
        /\ r[2] > lastSuccess[r[1]]
        /\ q[1] = r[1] /\ window[q] = "pending" => q = r

WindowInv ==
    /\ TypeInv
    /\ CompletedBehind
    /\ PendingAhead
    /\ GeneratedSettlesWindow
    /\ CompletedWindowIsReported

\* A scheduled report is the pair of its tenant and its due time.
LEMMA Pairs ==
    /\ \A r \in Scheduled : /\ r \in Report /\ r[1] \in Tenant
                            /\ r[2] \in Due /\ r[2] \in Int /\ r = <<r[1], r[2]>>
    /\ \A t \in Tenant, d \in Due : /\ <<t, d>> \in Scheduled
                                   /\ <<t, d>>[1] = t /\ <<t, d>>[2] = d
  BY ConstantsAssumption DEF Scheduled, Report, Due

\* The steps that write to the database.
LEMMA DbSteps ==
    ASSUME [Next]_vars
    PROVE  \/ UNCHANGED dbVars
           \/ \E s \in Scheduler, r \in Scheduled, has \in BOOLEAN :
                  CompleteNoop(s, r, has) /\ UNCHANGED row
           \/ \E s \in Scheduler, r \in Scheduled :
                  ClaimWindow(s, r) /\ nextToken' = nextToken + 1 /\ UNCHANGED lastSuccess
           \/ \E w \in Worker, m \in Manual : ClaimManualReport(w, m)
           \/ \E w \in Worker, r \in Report : RetryReport(w, r)
           \/ \E w \in Worker : CommitDeletion(w)
           \/ \E p \in Proc : FinalizeReportFailure(p)
           \/ \E p \in Proc : ReclaimReport(p)
           \/ \E p \in Proc : pc[p] = "finalize" /\ Finalized(p)
<1>1. ASSUME NEW s \in Scheduler, NEW t \in Tenant, Claim(s, t)
      PROVE  \/ UNCHANGED dbVars
             \/ \E r \in Scheduled, has \in BOOLEAN : CompleteNoop(s, r, has) /\ UNCHANGED row
             \/ \E r \in Scheduled : ClaimWindow(s, r) /\ nextToken' = nextToken + 1 /\ UNCHANGED lastSuccess
  BY <1>1, Pairs, Zenon DEF Claim, ClaimNothing, ClaimNoop, ClaimReport, ClaimRefused
<1>2. ASSUME NEW p \in Proc, Attempt(p)
      PROVE  \/ UNCHANGED dbVars
             \/ FinalizeReportFailure(p) \/ ReclaimReport(p)
             \/ pc[p] = "finalize" /\ Finalized(p)
  BY <1>2, Zenon DEF Attempt, LockClaim, AttemptFails, WriteFile, ReleaseClaim, PublishFails, FinalizeReport,
     FinalizeUnacknowledged, FinalizeFails, FailureNotRecorded, GiveUp, NextWork, Goto
<1>3. ASSUME NEW w \in Worker, Delete(w) PROVE UNCHANGED dbVars \/ CommitDeletion(w)
  BY <1>3, Zenon DEF Delete, RemoveFile
<1>4. ASSUME NEW s \in Scheduler, StartRun(s) \/ ClaimError(s) \/ ClaimsDone(s) PROVE UNCHANGED dbVars
  BY <1>4, Zenon DEF StartRun, ClaimError, ClaimsDone
<1>5. ASSUME NEW p \in Proc, Stop(p) PROVE UNCHANGED dbVars
  BY <1>5, Zenon DEF Stop
<1>6. ASSUME NEW w \in Worker, NEW r \in Report, LockForDeletion(w, r) PROVE UNCHANGED dbVars
  BY <1>6, Zenon DEF LockForDeletion
<1>7. ASSUME NEW r \in Report, LeaseExpires(r) PROVE UNCHANGED dbVars
  BY <1>7, Zenon DEF LeaseExpires
<1>8. ASSUME NEW t \in Tenant, DueArrives(t) PROVE UNCHANGED dbVars
  BY <1>8, Zenon DEF DueArrives
<1>9. ASSUME UNCHANGED vars PROVE UNCHANGED dbVars
  BY <1>9 DEF vars, dbVars
<1>10. QED
  BY <1>1, <1>2, <1>3, <1>4, <1>5, <1>6, <1>7, <1>8, <1>9, Zenon DEF Next

\* The invariant of the windows holds at first.
LEMMA WindowInvInit == Init => WindowInv
<1> SUFFICES ASSUME Init PROVE WindowInv
  OBVIOUS
<1>1. TypeInv
  BY TypeInvInit
<1>2. CompletedBehind /\ PendingAhead
  <2>1. \A r \in Scheduled : window[r] = IF ByMail(r) THEN "completed" ELSE "none"
    BY DEF Init
  <2>2. \A r \in Scheduled : ByMail(r) <=> r[2] <= lastSuccess[r[1]]
    BY DEF Init, ByMail
  <2>3. \A r \in Scheduled : window[r] # "pending"
    BY <2>1
  <2>4. QED
    BY <2>1, <2>2, <2>3 DEF CompletedBehind, PendingAhead
<1>3. GeneratedSettlesWindow
  BY Pairs DEF Init, GeneratedSettlesWindow, NoRow
<1>4. CompletedWindowIsReported
  BY Pairs DEF Init, CompletedWindowIsReported
<1>5. QED
  BY <1>1, <1>2, <1>3, <1>4 DEF WindowInv

\* A selected due time without a window comes after the last success, and then
\* no window of the schedule is open.
LEMMA SelectedNew ==
    ASSUME TypeInv, NEW s \in Proc, NEW r \in Scheduled, Selected(s, r[1], r[2]), window[r] = "none"
    PROVE  r[2] > lastSuccess[r[1]] /\ \A q \in Scheduled : q[1] = r[1] => window[q] # "pending"
<1>1. r[2] \notin Unreported(r[1]) /\ r[2] \notin Pending(r[1])
  BY Pairs DEF Unreported, Pending
<1>2. Pending(r[1]) = {} /\ r[2] > lastSuccess[r[1]]
  BY <1>1 DEF Selected
<1>3. QED
  BY <1>2, Pairs DEF Pending

\* The invariant of the windows is inductive.
LEMMA WindowInvStep == WindowInv /\ [Next]_vars => WindowInv'
<1> SUFFICES ASSUME WindowInv, [Next]_vars PROVE WindowInv'
  OBVIOUS
<1>t. TypeInv /\ TypeInv'
  BY TypeInvStep DEF WindowInv
<1>ty. /\ window \in [Scheduled -> {"none", "pending", "completed"}]
       /\ items \in [Scheduled -> BOOLEAN]
       /\ lastSuccess \in [Tenant -> 0..MaxDue] /\ MaxDue \in Int
       /\ row \in [Report -> RowType]
  BY <1>t, ConstantsAssumption DEF TypeInv, TypeOK
<1>i. CompletedBehind /\ PendingAhead /\ GeneratedSettlesWindow /\ CompletedWindowIsReported
  BY DEF WindowInv
<1> DEFINE Goal == CompletedBehind /\ PendingAhead /\ GeneratedSettlesWindow /\ CompletedWindowIsReported
<1>1. ASSUME UNCHANGED dbVars PROVE Goal'
  BY <1>1, <1>i DEF dbVars, CompletedBehind, PendingAhead, GeneratedSettlesWindow, CompletedWindowIsReported
\* A row of a scheduled report changes while windows and schedules do not.
<1>2. ASSUME NEW r \in Report, NEW x, row' = [row EXCEPT ![r] = x],
             x.status = "generated" => row[r].status = "generated",
             row[r].status = "generated" \/ row[r].deleted => x.status = "generated" \/ x.deleted,
             UNCHANGED <<window, items, lastSuccess>>
      PROVE  Goal'
  <2>1. CompletedBehind' /\ PendingAhead'
    BY <1>2, <1>i DEF CompletedBehind, PendingAhead
  <2>2. GeneratedSettlesWindow' /\ CompletedWindowIsReported'
    BY <1>2, <1>i, <1>ty, Pairs DEF GeneratedSettlesWindow, CompletedWindowIsReported
  <2>3. QED
    BY <2>1, <2>2
<1>3. ASSUME NEW s \in Scheduler, NEW r \in Scheduled, NEW has \in BOOLEAN,
             CompleteNoop(s, r, has), UNCHANGED row
      PROVE  Goal'
  <2>0. s \in Proc
    BY DEF Proc
  <2>1. CASE window[r] = "completed"
    <3>1. items' = items /\ window' = window /\ lastSuccess' = lastSuccess
      BY <1>3, <1>ty, <2>1 DEF CompleteNoop, Freeze
    <3>2. QED
      BY <1>3, <1>i, <3>1 DEF CompletedBehind, PendingAhead, GeneratedSettlesWindow, CompletedWindowIsReported
  <2>2. CASE window[r] # "completed"
    <3>1. \A q \in Scheduled : q[1] = r[1] /\ window[q] = "pending" => q = r
      BY <1>3, <1>i, <1>t, <1>ty, <2>0, <2>2, SelectedNew DEF CompleteNoop, PendingAhead
    <3>2. /\ window' = [window EXCEPT ![r] = "completed"]
          /\ lastSuccess' = [lastSuccess EXCEPT ![r[1]] = Later(lastSuccess[r[1]], r[2])]
          /\ items' = [items EXCEPT ![r] = has]
      BY <1>3, <2>2 DEF CompleteNoop
    <3>3. CompletedBehind' /\ PendingAhead'
      BY <1>i, <1>ty, <3>1, <3>2, Pairs DEF CompletedBehind, PendingAhead, Later
    <3>4. GeneratedSettlesWindow'
      BY <1>3, <1>i, <1>ty, <3>2, Pairs DEF GeneratedSettlesWindow, Later
    <3>5. CompletedWindowIsReported'
      BY <1>3, <1>i, <1>ty, <3>2, Pairs DEF CompletedWindowIsReported, CompleteNoop
    <3>6. QED
      BY <3>3, <3>4, <3>5
  <2>3. QED
    BY <2>1, <2>2
<1>4. ASSUME NEW s \in Scheduler, NEW r \in Scheduled, ClaimWindow(s, r), UNCHANGED lastSuccess
      PROVE  Goal'
  <2>0. s \in Proc /\ r \in Report
    BY Pairs DEF Proc
  <2>1. /\ items' = [items EXCEPT ![r] = TRUE]
        /\ window' = [window EXCEPT ![r] = IF window[r] = "none" THEN "pending" ELSE window[r]]
        /\ window[r] = "none" \/ items[r]
    BY <1>4, <1>ty DEF ClaimWindow, Freeze
  <2>2. PICK x : row' = [row EXCEPT ![r] = x] /\ x.status = "generating"
    <3>1. Inserted.status = "generating"
      BY DEF Inserted
    <3>2. Claimed(r, row[r].attempts + 1).status = "generating"
      BY DEF Claimed
    <3>3. QED
      BY <1>4, <3>1, <3>2, Zenon DEF ClaimWindow
  <2>3. row[r].status # "generated" /\ ~row[r].deleted
    BY <1>4 DEF ClaimWindow, Claimable
  <2>4. window[r] = "none" => r[2] > lastSuccess[r[1]] /\ \A q \in Scheduled : q[1] = r[1] => window[q] # "pending"
    BY <1>4, <1>t, <2>0, SelectedNew DEF ClaimWindow
  <2>5. CompletedBehind' /\ PendingAhead'
    BY <1>4, <1>i, <1>ty, <2>1, <2>4, Pairs DEF CompletedBehind, PendingAhead
  <2>6. GeneratedSettlesWindow'
    BY <1>4, <1>i, <1>ty, <2>0, <2>1, <2>2, Pairs DEF GeneratedSettlesWindow
  <2>7. CompletedWindowIsReported'
    BY <1>i, <1>ty, <2>0, <2>1, <2>2, <2>3, Pairs DEF CompletedWindowIsReported
  <2>8. QED
    BY <2>5, <2>6, <2>7
<1>5. ASSUME NEW w \in Worker, NEW m \in Manual, ClaimManualReport(w, m) PROVE Goal'
  <2>1. m \in Report /\ m \notin Scheduled
    BY ConstantsAssumption DEF Report
  <2>2. row' = [row EXCEPT ![m] = Inserted] /\ UNCHANGED <<window, items, lastSuccess>>
    BY <1>5 DEF ClaimManualReport, StartWork
  <2>3. QED
    BY <1>i, <1>ty, <2>1, <2>2, Pairs
       DEF CompletedBehind, PendingAhead, GeneratedSettlesWindow, CompletedWindowIsReported
<1>6. ASSUME NEW r \in Report, NEW n, row' = [row EXCEPT ![r] = Claimed(r, n)],
             row[r].status # "generated", ~row[r].deleted, UNCHANGED <<window, items, lastSuccess>>
      PROVE  Goal'
  <2>1. Claimed(r, n).status = "generating"
    BY DEF Claimed
  <2>2. QED
    BY <1>2, <1>6, <2>1
<1>7. ASSUME NEW w \in Worker, NEW r \in Report, RetryReport(w, r) PROVE Goal'
  BY <1>6, <1>7 DEF RetryReport, StartWork
<1>8. ASSUME NEW p \in Proc, ReclaimReport(p) PROVE Goal'
  <2>1. work[p].id \in Report
    BY <1>8, <1>t DEF ReclaimReport, Goto, TypeInv, WorkOK, Attempting, Work
  <2>2. QED
    BY <1>6, <1>8, <2>1 DEF ReclaimReport, Claimable
<1>9. ASSUME NEW w \in Worker, CommitDeletion(w) PROVE Goal'
  <2> DEFINE r == work[w].id
  <2> DEFINE x == [status |-> row[r].status, attempts |-> row[r].attempts,
                   token |-> row[r].token, path |-> "", deleted |-> TRUE]
  <2>1. r \in Report
    BY <1>9, <1>t DEF CommitDeletion, Goto, TypeInv, WorkOK, Locking, Work, Proc
  <2>2. row' = [row EXCEPT ![r] = x] /\ UNCHANGED <<window, items, lastSuccess>>
    BY <1>9, Zenon DEF CommitDeletion
  <2>3. x.status = row[r].status /\ x.deleted
    OBVIOUS
  <2> HIDE DEF x, r
  <2>4. QED
    BY <1>2, <2>1, <2>2, <2>3
<1>10. ASSUME NEW p \in Proc, FinalizeReportFailure(p) PROVE Goal'
  <2> DEFINE r == work[p].id
  <2> DEFINE x == [row[r] EXCEPT !.status = "failed"]
  <2>1. r \in Report
    BY <1>10, <1>t DEF FinalizeReportFailure, Goto, TypeInv, WorkOK, Attempting, Work
  <2>2. row' = [row EXCEPT ![r] = x] /\ UNCHANGED <<window, items, lastSuccess>>
    BY <1>10, Zenon DEF FinalizeReportFailure
  <2>3. x.status = "failed" /\ x.deleted = row[r].deleted /\ row[r].status = "generating"
    BY <1>10, <1>ty, <2>1 DEF FinalizeReportFailure, Current, Holds, Generating, RowType
  <2> HIDE DEF x, r
  <2>4. QED
    BY <1>2, <2>1, <2>2, <2>3
<1>11. ASSUME NEW p \in Proc, pc[p] = "finalize", Finalized(p) PROVE Goal'
  <2> DEFINE r == work[p].id
  <2> DEFINE x == [status |-> "generated", attempts |-> row[r].attempts,
                   token |-> row[r].token, path |-> "file", deleted |-> row[r].deleted]
  <2>1. r \in Report
    BY <1>11, <1>t DEF TypeInv, WorkOK, Attempting, Work
  <2>2. row' = [row EXCEPT ![r] = x] /\ UNCHANGED items
    BY <1>11, Zenon DEF Finalized
  <2>3. x.status = "generated"
    OBVIOUS
  <2>4. /\ r \in Scheduled => /\ window[r] \in {"pending", "completed"}
                              /\ window' = [window EXCEPT ![r] = "completed"]
                              /\ lastSuccess' = [lastSuccess EXCEPT ![r[1]] = Later(lastSuccess[r[1]], r[2])]
        /\ r \notin Scheduled => UNCHANGED <<window, lastSuccess>>
    BY <1>11 DEF Finalized
  <2> HIDE DEF x, r
  <2>5. CASE r \notin Scheduled
    BY <1>i, <1>ty, <2>1, <2>2, <2>4, <2>5, Pairs
       DEF CompletedBehind, PendingAhead, GeneratedSettlesWindow, CompletedWindowIsReported
  <2>6. CASE r \in Scheduled
    <3>1. CompletedBehind' /\ PendingAhead'
      BY <1>i, <1>ty, <2>4, <2>6, Pairs DEF CompletedBehind, PendingAhead, Later
    <3>2. GeneratedSettlesWindow'
      BY <1>i, <1>ty, <2>1, <2>2, <2>3, <2>4, <2>6, Pairs DEF GeneratedSettlesWindow, Later
    <3>3. CompletedWindowIsReported'
      BY <1>i, <1>ty, <2>1, <2>2, <2>3, <2>4, <2>6, Pairs DEF CompletedWindowIsReported
    <3>4. QED
      BY <3>1, <3>2, <3>3
  <2>7. QED
    BY <2>5, <2>6
<1>12. Goal'
  <2> HIDE DEF Goal
  <2>1. QED
    BY DbSteps, <1>1, <1>3, <1>4, <1>5, <1>7, <1>8, <1>9, <1>10, <1>11, Zenon
<1>13. QED
  BY <1>t, <1>12 DEF WindowInv

\* The row, the window and the schedule of a scheduled report agree, for every
\* interleaving of schedulers, administrators and crashes (finalizeReport).
THEOREM GeneratedSettles == Spec => []GeneratedSettlesWindow
<1>1. WindowInv => GeneratedSettlesWindow
  BY DEF WindowInv
<1>2. QED
  BY WindowInvInit, WindowInvStep, <1>1, PTL DEF Spec

\* No window with items is ever completed without a report, except those the mail
\* digest completed and those whose report an administrator deleted
\* (claimScheduledReport, completeNoopDigestWindow).
THEOREM CompletedReported == Spec => []CompletedWindowIsReported
<1>1. WindowInv => CompletedWindowIsReported
  BY DEF WindowInv
<1>2. QED
  BY WindowInvInit, WindowInvStep, <1>1, PTL DEF Spec

\* A schedule has one open window at most, later than its last success
\* (loadReportSchedules, getOrCreateDigestWindow).
THEOREM OnePending == Spec => []OnePendingWindow
<1>1. WindowInv => OnePendingWindow
  <2> SUFFICES ASSUME WindowInv, NEW t \in Tenant, NEW d \in Pending(t)
               PROVE  d > lastSuccess[t] /\ \A e \in Pending(t) : e = d
    BY DEF OnePendingWindow
  <2>1. \A e \in Pending(t) : e \in Due /\ window[<<t, e>>] = "pending"
    BY DEF Pending
  <2>2. \A e \in Pending(t) : <<t, e>> \in Scheduled /\ <<t, e>>[1] = t /\ <<t, e>>[2] = e
    BY <2>1, Pairs
  <2>3. d > lastSuccess[t]
    BY <2>1, <2>2 DEF WindowInv, PendingAhead
  <2>4. ASSUME NEW e \in Pending(t) PROVE e = d
    <3>1. <<t, e>> = <<t, d>>
      BY <2>1, <2>2 DEF WindowInv, PendingAhead
    <3>2. QED
      BY <2>2, <3>1
  <2>5. QED
    BY <2>3, <2>4
<1>2. QED
  BY WindowInvInit, WindowInvStep, <1>1, PTL DEF Spec

\* The schedule only moves forward, and only to the window completed by the same
\* step, however old the window a late report belongs to (finalizeReport's
\* greatest(), completeNoopDigestWindow).
THEOREM ScheduleFollows == Spec => ScheduleFollowsWindows
<1> DEFINE Moves ==
        \A t \in Tenant : lastSuccess'[t] # lastSuccess[t] =>
            /\ lastSuccess'[t] > lastSuccess[t]
            /\ window[<<t, lastSuccess'[t]>>] # "completed"
            /\ window'[<<t, lastSuccess'[t]>>] = "completed"
<1>1. WindowInv /\ [Next]_vars => [Moves]_<<lastSuccess, window>>
  <2> SUFFICES ASSUME WindowInv, [Next]_vars PROVE Moves
    OBVIOUS
  <2>t. /\ window \in [Scheduled -> {"none", "pending", "completed"}]
        /\ lastSuccess \in [Tenant -> 0..MaxDue] /\ MaxDue \in Int /\ WorkOK
    BY ConstantsAssumption DEF WindowInv, TypeInv, TypeOK
  \* Completing window r moves its schedule to r or leaves it alone.
  <2>1. ASSUME NEW r \in Scheduled, window' = [window EXCEPT ![r] = "completed"],
               lastSuccess' = [lastSuccess EXCEPT ![r[1]] = Later(lastSuccess[r[1]], r[2])]
        PROVE  Moves
    <3> SUFFICES ASSUME NEW t \in Tenant, lastSuccess'[t] # lastSuccess[t]
                 PROVE  /\ lastSuccess'[t] > lastSuccess[t]
                        /\ window[<<t, lastSuccess'[t]>>] # "completed"
                        /\ window'[<<t, lastSuccess'[t]>>] = "completed"
      OBVIOUS
    <3>1. t = r[1] /\ lastSuccess'[t] = r[2] /\ r[2] > lastSuccess[t]
      BY <2>t, <2>1, Pairs DEF Later
    <3>2. <<t, lastSuccess'[t]>> = r
      BY <3>1, Pairs
    <3>3. window[r] # "completed"
      BY <2>t, <3>1, Pairs DEF WindowInv, CompletedBehind
    <3>4. QED
      BY <2>t, <2>1, <3>1, <3>2, <3>3
  <2>2. ASSUME UNCHANGED lastSuccess PROVE Moves
    BY <2>2
  <2>3. ASSUME NEW s \in Scheduler, NEW r \in Scheduled, NEW has \in BOOLEAN, CompleteNoop(s, r, has)
        PROVE  Moves
    BY <2>1, <2>2, <2>3 DEF CompleteNoop
  <2>4. ASSUME NEW p \in Proc, pc[p] = "finalize", Finalized(p) PROVE Moves
    BY <2>1, <2>2, <2>4 DEF Finalized
  <2>5. QED
    <3> HIDE DEF Moves
    <3>1. ASSUME \/ \E w \in Worker, m \in Manual : ClaimManualReport(w, m)
                 \/ \E w \in Worker, r \in Report : RetryReport(w, r)
                 \/ \E w \in Worker : CommitDeletion(w)
                 \/ \E p \in Proc : FinalizeReportFailure(p)
                 \/ \E p \in Proc : ReclaimReport(p)
          PROVE  UNCHANGED lastSuccess
      BY <3>1, Zenon DEF ClaimManualReport, RetryReport, StartWork, CommitDeletion, FinalizeReportFailure, ReclaimReport
    <3>2. ASSUME UNCHANGED dbVars PROVE UNCHANGED lastSuccess
      BY <3>2 DEF dbVars
    <3>3. QED
      BY DbSteps, <2>2, <2>3, <2>4, <3>1, <3>2, Zenon
<1>2. QED
  BY WindowInvInit, WindowInvStep, <1>1, PTL DEF Spec, ScheduleFollowsWindows
=============================================================================

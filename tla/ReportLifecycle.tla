--------------------------- MODULE ReportLifecycle ---------------------------
(***************************************************************************)
(* The life of a report: the `reports` rows, the digest windows and        *)
(* schedules they settle, the HTML files, and the processes that claim,    *)
(* publish, finalize, retry and delete them.                               *)
(*                                                                         *)
(*   internal/app/postgres_report.go   claims, fencing, finalization       *)
(*   internal/app/report_runner.go     ReportRunner.Run/RunManual/Retry    *)
(*   internal/app/report_delete.go     deleteReport                        *)
(*   internal/app/postgres_digest.go   windows of a schedule               *)
(*                                                                         *)
(* A step is one database transaction or one file operation.  A row lock   *)
(* (FOR UPDATE held across file work) is explicit; a transaction that      *)
(* does no file work is one atomic step.                                   *)
(*                                                                         *)
(* Time.  Only two questions are ever asked of the clock: which due times  *)
(* of a schedule have passed, and whether the 15-minute lease of a claim   *)
(* has run out.  The first is `due`, the index of the newest due time that *)
(* has passed; the second is `expired`, the tokens of the claims whose     *)
(* lease is over.  ReportRunner.Run reads the Go clock once, before it     *)
(* waits for anything, so a run keeps the two answers it started with      *)
(* (nowDue, nowExpired) while ReclaimReport asks the database clock.       *)
(***************************************************************************)
EXTENDS Integers, Sequences, FiniteSets

CONSTANTS
    Tenant,        \* tenants; each has the one schedule signup creates
    Mailed,        \* windows per tenant that the mail digest completed, before reports
    Scheduler,     \* processes that run the report job of `serve`
    Worker,        \* web requests and the generate-report command
    Manual,        \* identities of manual reports
    MaxDue,        \* bound: due times that may pass
    RetryBound,    \* bound: RetryReport stops issuing claims at this token
    NoProc, NoWork

Proc      == Scheduler \cup Worker
Due       == 1..MaxDue
Scheduled == Tenant \X Due
Report    == Scheduled \cup Manual

ASSUME ConstantsAssumption ==
    /\ Mailed \in [Tenant -> 0..MaxDue]
    /\ Scheduler \cap Worker = {}
    /\ NoProc \notin Proc
    /\ MaxDue \in Nat \ {0}
    /\ RetryBound \in Nat
    /\ Scheduled \cap Manual = {}

MaxAttempts == 3

\* What a runner keeps of a claimed row (report_contract.go, ReportWork).
Work == [id : Report, token : Nat, attempts : 1..MaxAttempts]

ASSUME NoWorkAssumption == NoWork \notin Work

\* relative_path: the placeholder given at insertion, the report's file, or
\* empty once deleted.
RowType == [status   : {"none", "generating", "generated", "failed"},
            attempts : 0..MaxAttempts,
            token    : Nat,
            path     : {"", "placeholder", "file"},
            deleted  : BOOLEAN]

NoRow == [status |-> "none", attempts |-> 0, token |-> 0, path |-> "", deleted |-> FALSE]

VARIABLES
    row,          \* public.reports
    window,       \* public.digest_windows: none, pending or completed
    items,        \* whether a window's frozen snapshot has any item
    lastSuccess,  \* schedules.last_success_at, as the index of a due time
    file,         \* whether the report's HTML file is published
    due,          \* newest due time that has passed, per tenant
    expired,      \* tokens of the claims whose lease is over
    nextToken,    \* source of fresh claim tokens
    lock,         \* row lock held across file work
    pc, work, queue, todo, nowDue, nowExpired,   \* per process
    unlinked      \* history: files removed by a deletion that has not committed

dbVars    == <<row, window, items, lastSuccess>>
clockVars == <<due, expired>>
runVars   == <<queue, todo, nowDue, nowExpired>>
vars == <<row, window, items, lastSuccess, file, due, expired, nextToken, lock,
          pc, work, queue, todo, nowDue, nowExpired, unlinked>>

NoDue == [t \in Tenant |-> 0]

Locking    == {"publishing", "written", "deleting", "removed"}
Attempting == {"attempt", "publishing", "written", "finalize", "fail", "reclaim"}

-----------------------------------------------------------------------------
\* An upgraded database holds windows the mail digest completed, with no report.
ByMail(r) == r[2] <= Mailed[r[1]]

Init ==
    /\ row = [r \in Report |-> NoRow]
    /\ window = [r \in Scheduled |-> IF ByMail(r) THEN "completed" ELSE "none"]
    /\ items = [r \in Scheduled |-> ByMail(r)]
    /\ lastSuccess = Mailed
    /\ file = [r \in Report |-> FALSE]
    /\ due = Mailed
    /\ expired = {}
    /\ nextToken = 1
    /\ lock = [r \in Report |-> NoProc]
    /\ pc = [p \in Proc |-> "idle"]
    /\ work = [p \in Proc |-> NoWork]
    /\ queue = [p \in Proc |-> <<>>]
    /\ todo = [p \in Proc |-> {}]
    /\ nowDue = [p \in Proc |-> NoDue]
    /\ nowExpired = [p \in Proc |-> {}]
    /\ unlinked = {}

-----------------------------------------------------------------------------
(***************************************************************************)
(* Conditions the SQL statements test.                                     *)
(***************************************************************************)

Generating(r, token) == row[r].status = "generating" /\ row[r].token = token

\* The claim in a process's hands is still the row's claim.
Holds(p) == Generating(work[p].id, work[p].token)

\* Fault: the attempt limit is forgotten.
ClaimableUncapped(r, over) ==
    /\ row[r].status # "none" /\ ~row[r].deleted
    /\ row[r].status = "failed" \/ (row[r].status = "generating" /\ row[r].token \in over)

\* Fault: leases that are over are not taken back.
ClaimableFailedOnly(r, over) ==
    /\ row[r].status = "failed" /\ ~row[r].deleted
    /\ row[r].attempts < MaxAttempts

\* WHERE clause shared by the automatic claims: failed, or generating with a
\* lease that is over in the eyes of `over`, and attempts left.
Claimable(r, over) ==
    /\ row[r].status # "none"
    /\ ~row[r].deleted
    /\ row[r].attempts < MaxAttempts
    /\ \/ row[r].status = "failed"
       \/ row[r].status = "generating" /\ row[r].token \in over

\* A claim: status, attempts, a fresh token; the path survives.
Claimed(r, attempts) ==
    [status |-> "generating", attempts |-> attempts, token |-> nextToken,
     path |-> row[r].path, deleted |-> row[r].deleted]

Inserted == [status |-> "generating", attempts |-> 1, token |-> nextToken,
             path |-> "placeholder", deleted |-> FALSE]

ClaimOf(r, attempts) == [id |-> r, token |-> nextToken, attempts |-> attempts]

Later(a, b) == IF a >= b THEN a ELSE b

\* Completed windows with items whose report is missing or claimable.
Unreported(t) ==
    {d \in Due : /\ window[<<t, d>>] = "completed"
                 /\ items[<<t, d>>]
                 /\ \/ row[<<t, d>>].status = "none"
                    \/ Claimable(<<t, d>>, expired)}

Pending(t) == {d \in Due : window[<<t, d>>] = "pending"}

\* The due time a run works on for tenant t: the newest unreported completed
\* window, else the pending window, else the newest due time that had passed
\* when the run started and is later than the last success.
Selected(s, t, d) ==
    \/ d \in Unreported(t) /\ \A e \in Unreported(t) : e <= d
    \/ Unreported(t) = {} /\ d \in Pending(t)
    \/ /\ Unreported(t) = {} /\ Pending(t) = {}
       /\ d = nowDue[s][t] /\ d > lastSuccess[t]

\* The row claimScheduledReport proposes begins at the last success.  CHECK
\* (window_start_at <= window_end_at) of 0007 is tested before ON CONFLICT: for a
\* window the schedule has passed the statement fails, whatever row there is.
StartsInTime(r) == lastSuccess[r[1]] <= r[2]

\* getOrCreateDigestWindow: a new window freezes the matches there are.
Freeze(r, has) ==
    IF window[r] = "none" THEN has \in BOOLEAN ELSE has = items[r]

-----------------------------------------------------------------------------
(***************************************************************************)
(* ReportRunner.Run: claim for every tenant, then work the claims off.     *)
(***************************************************************************)

StartRun(s) ==
    /\ pc[s] = "idle"
    /\ pc' = [pc EXCEPT ![s] = "claim"]
    /\ todo' = [todo EXCEPT ![s] = Tenant]
    /\ nowDue' = [nowDue EXCEPT ![s] = due]
    /\ nowExpired' = [nowExpired EXCEPT ![s] = expired]
    /\ UNCHANGED <<dbVars, file, clockVars, nextToken, lock, work, queue, unlinked>>

Claiming(s, t) ==
    /\ pc[s] = "claim"
    /\ t \in todo[s]
    /\ todo' = [todo EXCEPT ![s] = @ \ {t}]
    /\ UNCHANGED <<file, clockVars, lock, pc, work, nowDue, nowExpired, unlinked>>

\* No window is due.
ClaimNothing(s, t) ==
    /\ Claiming(s, t)
    /\ \A d \in Due : ~Selected(s, t, d)
    /\ UNCHANGED <<dbVars, nextToken, queue>>

\* Fault: the schedule moves on and the window stays open.
CompleteNoopLeavesOpen(s, r, has) ==
    /\ Selected(s, r[1], r[2])
    /\ Freeze(r, has)
    /\ row[r].deleted \/ ~has
    /\ items' = [items EXCEPT ![r] = has]
    /\ window' = [window EXCEPT ![r] = IF @ = "none" THEN "pending" ELSE @]
    /\ lastSuccess' = [lastSuccess EXCEPT ![r[1]] = Later(@, r[2])]

\* The window is empty or its report was deleted: complete it without a report.
CompleteNoop(s, r, has) ==
    /\ Selected(s, r[1], r[2])
    /\ Freeze(r, has)
    /\ row[r].deleted \/ ~has
    /\ items' = [items EXCEPT ![r] = has]
    /\ window' = [window EXCEPT ![r] = "completed"]
    /\ lastSuccess' = IF window[r] = "completed" THEN lastSuccess
                      ELSE [lastSuccess EXCEPT ![r[1]] = Later(@, r[2])]

ClaimNoop(s, t) ==
    /\ Claiming(s, t)
    /\ \E d \in Due, has \in BOOLEAN : CompleteNoop(s, <<t, d>>, has)
    /\ UNCHANGED <<row, nextToken, queue>>

\* INSERT ... ON CONFLICT DO UPDATE of claimScheduledReport.
ClaimWindow(s, r) ==
    /\ Selected(s, r[1], r[2])
    /\ Freeze(r, TRUE)
    /\ ~row[r].deleted
    /\ lock[r] = NoProc
    /\ StartsInTime(r)
    /\ row[r].status = "none" \/ Claimable(r, nowExpired[s])
    /\ items' = [items EXCEPT ![r] = TRUE]
    /\ window' = [window EXCEPT ![r] = IF @ = "none" THEN "pending" ELSE @]
    /\ row' = [row EXCEPT ![r] = IF @.status = "none" THEN Inserted
                                 ELSE Claimed(r, @.attempts + 1)]
    /\ queue' = [queue EXCEPT ![s] = Append(@, ClaimOf(r, row[r].attempts + 1))]

\* Fault: the schedule moves when its window is claimed, before there is a report.
ClaimReportMoves(s, t) ==
    /\ Claiming(s, t)
    /\ \E d \in Due :
        /\ ClaimWindow(s, <<t, d>>)
        /\ lastSuccess' = [lastSuccess EXCEPT ![t] = Later(@, d)]
    /\ nextToken' = nextToken + 1

ClaimReport(s, t) ==
    /\ Claiming(s, t)
    /\ \E d \in Due : ClaimWindow(s, <<t, d>>)
    /\ nextToken' = nextToken + 1
    /\ UNCHANGED lastSuccess

\* Fault: a refused claim is taken for an empty window.
ClaimRefusedCompletes(s, t) ==
    /\ Claiming(s, t)
    /\ \E d \in Due : LET r == <<t, d>> IN
        /\ Selected(s, t, d) /\ StartsInTime(r)
        /\ row[r].status # "none" /\ ~row[r].deleted /\ ~Claimable(r, nowExpired[s])
        /\ window' = [window EXCEPT ![r] = "completed"]
        /\ lastSuccess' = [lastSuccess EXCEPT ![t] = Later(@, d)]
    /\ UNCHANGED <<row, items, nextToken, queue>>

\* The conflicting row is generating under a live lease, exhausted or generated.
ClaimRefused(s, t) ==
    /\ Claiming(s, t)
    /\ \E d \in Due : LET r == <<t, d>> IN
        /\ Selected(s, t, d) /\ StartsInTime(r)
        /\ window[r] # "none" /\ items[r] /\ ~row[r].deleted
        /\ lock[r] = NoProc
        /\ row[r].status # "none" /\ ~Claimable(r, nowExpired[s])
    /\ UNCHANGED <<dbVars, nextToken, queue>>

\* The time of the run goes out of scope with ClaimDueReports.
ForgetNow(p) ==
    /\ nowDue' = [nowDue EXCEPT ![p] = NoDue]
    /\ nowExpired' = [nowExpired EXCEPT ![p] = {}]

\* One tenant's transaction fails, as it must for a window that does not start in
\* time: ClaimDueReports returns no work at all, and the claims earlier tenants
\* committed stay behind.
ClaimError(s) ==
    /\ pc[s] = "claim"
    /\ pc' = [pc EXCEPT ![s] = "idle"]
    /\ todo' = [todo EXCEPT ![s] = {}]
    /\ queue' = [queue EXCEPT ![s] = <<>>]
    /\ ForgetNow(s)
    /\ UNCHANGED <<dbVars, file, clockVars, nextToken, lock, work, unlinked>>

ClaimsDone(s) ==
    /\ pc[s] = "claim"
    /\ todo[s] = {}
    /\ pc' = [pc EXCEPT ![s] = "next"]
    /\ ForgetNow(s)
    /\ UNCHANGED <<dbVars, file, clockVars, nextToken, lock, work, queue, todo, unlinked>>

NextWork(p) ==
    /\ pc[p] = "next"
    /\ \/ /\ queue[p] = <<>>
          /\ pc' = [pc EXCEPT ![p] = "idle"]
          /\ work' = [work EXCEPT ![p] = NoWork]
          /\ UNCHANGED queue
       \/ /\ queue[p] # <<>>
          /\ pc' = [pc EXCEPT ![p] = "attempt"]
          /\ work' = [work EXCEPT ![p] = Head(queue[p])]
          /\ queue' = [queue EXCEPT ![p] = Tail(@)]
    /\ UNCHANGED <<dbVars, file, clockVars, nextToken, lock, todo, nowDue, nowExpired, unlinked>>

-----------------------------------------------------------------------------
(***************************************************************************)
(* The other entry points: RunManual and Retry, from a request or the CLI. *)
(***************************************************************************)

StartWork(w, claim) ==
    /\ pc[w] = "idle"
    /\ pc' = [pc EXCEPT ![w] = "attempt"]
    /\ work' = [work EXCEPT ![w] = claim]
    /\ nextToken' = nextToken + 1
    /\ UNCHANGED <<window, items, lastSuccess, file, clockVars, lock, runVars, unlinked>>

\* With no open match nothing is inserted, which changes nothing.
ClaimManualReport(w, m) ==
    /\ row[m].status = "none"
    /\ row' = [row EXCEPT ![m] = Inserted]
    /\ StartWork(w, ClaimOf(m, 1))

\* Fault: a retry does not ask for a failed row.
RetryReportAnyStatus(w, r) ==
    /\ row[r].status # "none" /\ ~row[r].deleted
    /\ lock[r] = NoProc
    /\ nextToken < RetryBound
    /\ row' = [row EXCEPT ![r] = Claimed(r, 1)]
    /\ StartWork(w, ClaimOf(r, 1))

RetryReport(w, r) ==
    /\ row[r].status = "failed" /\ ~row[r].deleted
    /\ lock[r] = NoProc
    /\ nextToken < RetryBound
    /\ row' = [row EXCEPT ![r] = Claimed(r, 1)]
    /\ StartWork(w, ClaimOf(r, 1))

-----------------------------------------------------------------------------
(***************************************************************************)
(* runClaimed: publish under the claim, finalize, else record the failure  *)
(* and reclaim, at most MaxAttempts times.                                 *)
(***************************************************************************)

Goto(p, from, to) ==
    /\ pc[p] = from
    /\ pc' = [pc EXCEPT ![p] = to]

\* Fault: publication locks the row without checking the claim.
LockClaimUnfenced(p) ==
    /\ Goto(p, "attempt", "publishing")
    /\ lock[work[p].id] = NoProc
    /\ lock' = [lock EXCEPT ![work[p].id] = p]
    /\ UNCHANGED <<dbVars, file, clockVars, nextToken, work, runVars, unlinked>>

\* WithReportClaim takes the row lock only for the current claim.
LockClaim(p) ==
    /\ Goto(p, "attempt", "publishing")
    /\ Holds(p) /\ ~row[work[p].id].deleted
    /\ lock[work[p].id] = NoProc
    /\ lock' = [lock EXCEPT ![work[p].id] = p]
    /\ UNCHANGED <<dbVars, file, clockVars, nextToken, work, runVars, unlinked>>

\* The claim is stale, the HTML cannot be built, or the transaction fails.
AttemptFails(p) ==
    /\ Goto(p, "attempt", "fail")
    /\ UNCHANGED <<dbVars, file, clockVars, nextToken, lock, work, runVars, unlinked>>

\* FileStore.Write: publish, or find the same bytes already there.
WriteFile(p) ==
    /\ Goto(p, "publishing", "written")
    /\ file' = [file EXCEPT ![work[p].id] = TRUE]
    /\ unlinked' = unlinked \ {work[p].id}
    /\ UNCHANGED <<dbVars, clockVars, nextToken, lock, work, runVars>>

ReleaseClaim(p) ==
    /\ Goto(p, "written", "finalize")
    /\ lock' = [lock EXCEPT ![work[p].id] = NoProc]
    /\ UNCHANGED <<dbVars, file, clockVars, nextToken, work, runVars, unlinked>>

\* Fault: an error of the write is not looked at.
PublishFailureIgnored(p) ==
    /\ Goto(p, "publishing", "finalize") \/ Goto(p, "written", "finalize")
    /\ lock' = [lock EXCEPT ![work[p].id] = NoProc]
    /\ UNCHANGED <<dbVars, file, clockVars, nextToken, work, runVars, unlinked>>

\* The write fails, or the transaction that guards it does not commit.
PublishFails(p) ==
    /\ Goto(p, "publishing", "fail") \/ Goto(p, "written", "fail")
    /\ lock' = [lock EXCEPT ![work[p].id] = NoProc]
    /\ UNCHANGED <<dbVars, file, clockVars, nextToken, work, runVars, unlinked>>

\* Fault: finalization finds the row by its identity alone.
CurrentUnchecked(p) == lock[work[p].id] = NoProc

\* The guard both finalizations put in their UPDATE.
Current(p) ==
    /\ Holds(p)
    /\ row[work[p].id].attempts = work[p].attempts
    /\ lock[work[p].id] = NoProc

\* Fault: the window and the schedule are left to another transaction.
FinalizedRowOnly(p) ==
    /\ Current(p)
    /\ row' = [row EXCEPT ![work[p].id].status = "generated", ![work[p].id].path = "file"]
    /\ UNCHANGED <<window, items, lastSuccess, file, clockVars, nextToken, lock, work, runVars, unlinked>>

\* One transaction: the row, its window and its schedule.
Finalized(p) ==
    LET r == work[p].id IN
    /\ Current(p)
    /\ row' = [row EXCEPT ![r] = [status |-> "generated", attempts |-> @.attempts,
                                  token |-> @.token, path |-> "file", deleted |-> @.deleted]]
    /\ IF r \in Scheduled
       THEN /\ window[r] \in {"pending", "completed"}
            /\ window' = [window EXCEPT ![r] = "completed"]
            /\ lastSuccess' = [lastSuccess EXCEPT ![r[1]] = Later(@, r[2])]
       ELSE UNCHANGED <<window, lastSuccess>>
    /\ UNCHANGED <<items, file, clockVars, nextToken, lock, work, runVars, unlinked>>

FinalizeReport(p) ==
    /\ Goto(p, "finalize", "next")
    /\ Finalized(p)

\* The commit took effect but its acknowledgement was lost.
FinalizeUnacknowledged(p) ==
    /\ Goto(p, "finalize", "fail")
    /\ Finalized(p)

FinalizeFails(p) ==
    /\ Goto(p, "finalize", "fail")
    /\ UNCHANGED <<dbVars, file, clockVars, nextToken, lock, work, runVars, unlinked>>

FinalizeReportFailure(p) ==
    /\ Goto(p, "fail", "reclaim")
    /\ Current(p)
    /\ row' = [row EXCEPT ![work[p].id].status = "failed"]
    /\ UNCHANGED <<window, items, lastSuccess, file, clockVars, nextToken, lock, work, runVars, unlinked>>

\* The claim is stale or the transaction fails: the error is only joined.
FailureNotRecorded(p) ==
    /\ Goto(p, "fail", "reclaim")
    /\ UNCHANGED <<dbVars, file, clockVars, nextToken, lock, work, runVars, unlinked>>

\* Fault: a reclaim keeps the token of the claim it takes over.
ReclaimReportSameToken(p) ==
    LET r == work[p].id IN
    /\ Goto(p, "reclaim", "attempt")
    /\ work[p].attempts < MaxAttempts
    /\ Claimable(r, expired)
    /\ lock[r] = NoProc
    /\ row' = [row EXCEPT ![r].status = "generating", ![r].attempts = @ + 1]
    /\ work' = [work EXCEPT ![p] = [id |-> r, token |-> row[r].token, attempts |-> row[r].attempts + 1]]
    /\ UNCHANGED <<window, items, lastSuccess, file, clockVars, nextToken, lock, runVars, unlinked>>

ReclaimReport(p) ==
    LET r == work[p].id IN
    /\ Goto(p, "reclaim", "attempt")
    /\ work[p].attempts < MaxAttempts
    /\ Claimable(r, expired)
    /\ lock[r] = NoProc
    /\ row' = [row EXCEPT ![r] = Claimed(r, @.attempts + 1)]
    /\ work' = [work EXCEPT ![p] = ClaimOf(r, row[r].attempts + 1)]
    /\ nextToken' = nextToken + 1
    /\ UNCHANGED <<window, items, lastSuccess, file, clockVars, lock, runVars, unlinked>>

\* Attempts used up, nothing to reclaim, or the reclaim fails.
GiveUp(p) ==
    /\ Goto(p, "reclaim", "next")
    /\ UNCHANGED <<dbVars, file, clockVars, nextToken, lock, work, runVars, unlinked>>

-----------------------------------------------------------------------------
(***************************************************************************)
(* deleteReport: lock the row, remove the file, commit the deletion.       *)
(***************************************************************************)

LockForDeletion(w, r) ==
    /\ Goto(w, "idle", "deleting")
    /\ row[r].status \in {"generated", "failed"} /\ ~row[r].deleted
    /\ lock[r] = NoProc
    /\ lock' = [lock EXCEPT ![r] = w]
    /\ work' = [work EXCEPT ![w] = [id |-> r, token |-> row[r].token, attempts |-> row[r].attempts]]
    /\ UNCHANGED <<dbVars, file, clockVars, nextToken, runVars, unlinked>>

\* A failed row still has the placeholder: its real path is reconstructed.
DeletionPath(r) ==
    IF row[r].status = "failed" /\ row[r].path = "placeholder" THEN "file" ELSE row[r].path

RemoveFile(w) ==
    LET r == work[w].id IN
    /\ Goto(w, "deleting", "removed")
    /\ DeletionPath(r) = "file"
    /\ file' = [file EXCEPT ![r] = FALSE]
    /\ unlinked' = unlinked \cup {r}
    /\ UNCHANGED <<dbVars, clockVars, nextToken, lock, work, runVars>>

CommitDeletion(w) ==
    LET r == work[w].id IN
    /\ Goto(w, "removed", "idle")
    /\ row' = [row EXCEPT ![r] = [status |-> @.status, attempts |-> @.attempts,
                                  token |-> @.token, path |-> "", deleted |-> TRUE]]
    /\ lock' = [lock EXCEPT ![r] = NoProc]
    /\ work' = [work EXCEPT ![w] = NoWork]
    /\ unlinked' = unlinked \ {r}
    /\ UNCHANGED <<window, items, lastSuccess, file, clockVars, nextToken, runVars>>

-----------------------------------------------------------------------------
(***************************************************************************)
(* Failure and time.                                                       *)
(***************************************************************************)

\* The process dies, its request is cancelled, or an error ends a deletion:
\* the open transaction rolls back, files keep their state, claims are left.
Stop(p) ==
    /\ pc[p] # "idle"
    /\ pc' = [pc EXCEPT ![p] = "idle"]
    /\ lock' = [r \in Report |-> IF lock[r] = p THEN NoProc ELSE lock[r]]
    /\ work' = [work EXCEPT ![p] = NoWork]
    /\ queue' = [queue EXCEPT ![p] = <<>>]
    /\ todo' = [todo EXCEPT ![p] = {}]
    /\ ForgetNow(p)
    /\ UNCHANGED <<dbVars, file, clockVars, nextToken, unlinked>>

LeaseExpires(r) ==
    /\ row[r].status = "generating" /\ row[r].token \notin expired
    /\ expired' = expired \cup {row[r].token}
    /\ UNCHANGED <<dbVars, file, due, nextToken, lock, pc, work, runVars, unlinked>>

DueArrives(t) ==
    /\ due[t] < MaxDue
    /\ due' = [due EXCEPT ![t] = @ + 1]
    /\ UNCHANGED <<dbVars, file, expired, nextToken, lock, pc, work, runVars, unlinked>>

-----------------------------------------------------------------------------
Claim(s, t) ==
    ClaimNothing(s, t) \/ ClaimNoop(s, t) \/ ClaimReport(s, t) \/ ClaimRefused(s, t)

\* What a started runClaimed does next.
Attempt(p) ==
    \/ LockClaim(p) \/ AttemptFails(p)
    \/ WriteFile(p) \/ ReleaseClaim(p) \/ PublishFails(p)
    \/ FinalizeReport(p) \/ FinalizeUnacknowledged(p) \/ FinalizeFails(p)
    \/ FinalizeReportFailure(p) \/ FailureNotRecorded(p)
    \/ ReclaimReport(p) \/ GiveUp(p)
    \/ NextWork(p)

Delete(w) == RemoveFile(w) \/ CommitDeletion(w)

Next ==
    \/ \E s \in Scheduler : \/ StartRun(s) \/ ClaimError(s) \/ ClaimsDone(s)
                            \/ \E t \in Tenant : Claim(s, t)
    \/ \E w \in Worker : \/ \E m \in Manual : ClaimManualReport(w, m)
                         \/ \E r \in Report : RetryReport(w, r) \/ LockForDeletion(w, r)
                         \/ Delete(w)
    \/ \E p \in Proc : Attempt(p) \/ Stop(p)
    \/ \E r \in Report : LeaseExpires(r)
    \/ \E t \in Tenant : DueArrives(t)

Spec == Init /\ [][Next]_vars

\* A running process takes its next step, the job ticks every minute, leases
\* run out, and neither a tenant's claim nor a deletion that is tried again and
\* again fails for ever.
Fairness ==
    /\ \A p \in Proc : WF_vars(Attempt(p))
    /\ \A w \in Worker : SF_vars(RemoveFile(w)) /\ SF_vars(CommitDeletion(w))
    /\ \A s \in Scheduler :
        /\ WF_vars(StartRun(s))
        /\ WF_vars(ClaimsDone(s))
        /\ \A t \in Tenant : SF_vars(Claim(s, t))
    /\ \A r \in Report : WF_vars(LeaseExpires(r))

FairSpec == Spec /\ Fairness

-----------------------------------------------------------------------------
TypeOK ==
    /\ row \in [Report -> RowType]
    /\ window \in [Scheduled -> {"none", "pending", "completed"}]
    /\ items \in [Scheduled -> BOOLEAN]
    /\ lastSuccess \in [Tenant -> 0..MaxDue]
    /\ file \in [Report -> BOOLEAN]
    /\ due \in [Tenant -> 0..MaxDue]
    /\ expired \subseteq Nat
    /\ nextToken \in Nat
    /\ lock \in [Report -> Proc \cup {NoProc}]
    /\ pc \in [Proc -> {"idle", "claim", "next"} \cup Attempting \cup Locking]
    /\ work \in [Proc -> Work \cup {NoWork}]
    /\ queue \in [Proc -> Seq(Work)]
    /\ todo \in [Proc -> SUBSET Tenant]
    /\ nowDue \in [Proc -> [Tenant -> 0..MaxDue]]
    /\ nowExpired \in [Proc -> SUBSET Nat]
    /\ unlinked \subseteq Report
-----------------------------------------------------------------------------
(***************************************************************************)
(* Safety.                                                                 *)
(***************************************************************************)

\* Claims in the hands of a process: the one it works on and those queued.
InHand(p) ==
    (IF pc[p] \in Attempting THEN {work[p]} ELSE {})
        \cup {queue[p][i] : i \in DOMAIN queue[p]}

Owned(r) == \E p \in Proc : \E c \in InHand(p) : c.id = r /\ Generating(r, c.token)

\* However claims expire, are retried and are reclaimed, no two processes hold
\* the current claim of one report (claim_token of the claim statements).
SingleOwner ==
    \A p, q \in Proc : p # q =>
        \A c \in InHand(p), e \in InHand(q) :
            ~(c.id = e.id /\ Generating(c.id, c.token) /\ Generating(e.id, e.token))

\* A generated report that nobody deleted has its file; the one exception is a
\* deletion that removed the file and then failed to commit (deleteReport).
GeneratedHasFile ==
    \A r \in Report :
        row[r].status = "generated" /\ ~row[r].deleted => file[r] \/ r \in unlinked

\* No runner, however late, publishes a file for a deleted report: publication
\* and deletion are serialized by the row lock (WithReportClaim).
DeletedHasNoFile == \A r \in Report : row[r].deleted => ~file[r]

\* The row, the window and the schedule of a scheduled report agree: a generated
\* report completed its window and moved its schedule past it (finalizeReport).
GeneratedSettlesWindow ==
    \A r \in Scheduled : row[r].status = "generated" =>
        window[r] = "completed" /\ lastSuccess[r[1]] >= r[2]

\* A window with items is completed only by a generated report or because its
\* report was deleted; those the mail digest completed are the exception.
CompletedWindowIsReported ==
    \A r \in Scheduled :
        window[r] = "completed" /\ items[r] /\ ~ByMail(r) =>
            row[r].status = "generated" \/ row[r].deleted

\* A schedule has at most one open window, and it lies after the last success,
\* so no window is ever frozen over an interval already reported (loadReportSchedules).
OnePendingWindow ==
    \A t \in Tenant : \A d \in Pending(t) :
        d > lastSuccess[t] /\ \A e \in Pending(t) : e = d

\* Only a window that the mail digest completed can be stranded: whatever window
\* this service froze itself, a run that selects it may still insert its report
\* (loadReportSchedules against the CHECK of 0007).
OnlyMailedStrand ==
    \A s \in Scheduler : \A t \in Tenant : \A d \in Due :
        Selected(s, t, d) => StartsInTime(<<t, d>>) \/ ByMail(<<t, d>>)

(***************************************************************************)
(* Action properties.                                                      *)
(***************************************************************************)

\* A generated row never leaves that status and a deletion is never undone,
\* whatever stale runners, retries and scheduler runs still try.
SettledStays ==
    [][\A r \in Report :
        /\ row[r].status = "generated" => row'[r].status = "generated"
        /\ row[r].deleted => row'[r] = row[r]]_row

\* The schedule moves forward only, and only in the step that completes the
\* window it moves to (finalizeReport, completeNoopDigestWindow).
ScheduleFollowsWindows ==
    [][\A t \in Tenant : lastSuccess'[t] # lastSuccess[t] =>
        /\ lastSuccess'[t] > lastSuccess[t]
        /\ window[<<t, lastSuccess'[t]>>] # "completed"
        /\ window'[<<t, lastSuccess'[t]>>] = "completed"]_<<lastSuccess, window>>

\* A row's attempts never grow past what one job may make without a retry by an
\* administrator: a fresh claim adds exactly one attempt or starts over from a
\* failed row, and never without a new token (claimScheduledReport, retryReport).
ClaimsAreCounted ==
    [][\A r \in Report : row'[r].attempts # row[r].attempts =>
        /\ row'[r].token > row[r].token
        /\ \/ row'[r].attempts = row[r].attempts + 1
           \/ row[r].status = "failed" /\ row'[r].attempts = 1]_row

(***************************************************************************)
(* Liveness.                                                               *)
(***************************************************************************)

\* Every run selects a window of t that the claim statement cannot insert.
Stranded(t) ==
    \E d \in Unreported(t) :
        (\A e \in Unreported(t) : e <= d) /\ ~StartsInTime(<<t, d>>)

\* What is still to be done about a window: it is open, or its report was begun.
Unsettled(r) ==
    ~row[r].deleted /\ (window[r] = "pending" \/ row[r].status \in {"generating", "failed"})

\* An open window and a report that was begun, also of a mailed window, are settled
\* in the end, whatever crashes.  Two exceptions: the report has used up its
\* attempts, so that only an administrator can move it, or a window of some tenant
\* is stranded, which ends ClaimDueReports with an error for all tenants
\* (postgres_report.go:101).
WindowSettlesOrParks ==
    \A r \in Scheduled :
        Unsettled(r) ~>
            ~Unsettled(r) \/ row[r].attempts = MaxAttempts \/ \E t \in Tenant : Stranded(t)

\* A claim nobody holds any more: its process died while the row was generating.
Abandoned(r) == row[r].status = "generating" /\ ~Owned(r)

\* docs/implementation/report-delivery-design.md:88, "when the process ended in
\* the generating state the window is reclaimed automatically once the service
\* is back".
AbandonedWindowReclaimed ==
    \A r \in Scheduled : Abandoned(r) ~> ~Abandoned(r)
=============================================================================

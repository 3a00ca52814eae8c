---------------------------- MODULE CollectionLock ----------------------------
(***************************************************************************)
(* Who collects, who waits for a collection, and the connections they use. *)
(*                                                                         *)
(*   internal/app/collection_job.go    CollectionJob.RunLocked             *)
(*   internal/app/async_collection.go  asyncCollectionTrigger              *)
(*   internal/app/postgres_tenant.go   withTenant, retryCollectionBusy     *)
(*   internal/app/postgres_pool.go     the pool of a process               *)
(*   internal/jobs/scheduler.go        Scheduler.Tick                      *)
(*                                                                         *)
(* A collection keeps one connection, whose transaction has the advisory   *)
(* lock, and borrows a second one for every statement it makes.  Edits of  *)
(* filters and snapshots of reports take the same lock inside their own    *)
(* transaction and may not wait for it with a connection in hand.          *)
(***************************************************************************)
EXTENDS Integers, FiniteSets

CONSTANTS
    Ticker,    \* the goroutine of runScheduler
    Loop,      \* the goroutine of asyncCollectionTrigger
    Command,   \* collect-once commands, processes with a pool of their own
    Editor,    \* requests that change filters under the collection lock
    Reader,    \* requests that use a connection and not the lock
    Admin,     \* requests that trigger a collection
    MaxConns,  \* connections of a pool (8 in the code)
    NoProc

Collector == {Ticker, Loop} \cup Command
Writer    == {Ticker} \cup Editor
Proc      == Collector \cup Editor \cup Reader

ASSUME LockAssumption ==
    /\ Ticker # Loop
    /\ {Ticker, Loop} \cap Command = {}
    /\ Collector \cap (Editor \cup Reader) = {}
    /\ Editor \cap Reader = {}
    /\ Admin \cap Proc = {}
    /\ NoProc \notin Proc
    /\ MaxConns \in Nat /\ MaxConns >= 2

VARIABLES
    pc,          \* where a process is
    held,        \* connections in use: a process and what it uses one for
    lock,        \* who has the advisory lock
    busy, wake,  \* asyncCollectionTrigger
    collectDue,  \* Scheduler.nextCollection has passed
    stopping     \* the context of serve is cancelled

vars == <<pc, held, lock, busy, wake, collectDue, stopping>>

Collecting == {"run", "want", "inTx"}
CollectPc  == {"acquire", "try"} \cup Collecting
WaitPc     == {"acquire", "want", "begin", "backoff"}
FailPc     == WaitPc \cup {"try", "locktry"}

\* A command has its own pool; everything else shares that of serve.
PoolOf(p) == IF p \in Command THEN p ELSE Loop
Pool      == {Loop} \cup Command

Holders(k) == {h \in held : PoolOf(h[1]) = k}
Full(k)    == Cardinality(Holders(k)) >= MaxConns

Init ==
    /\ pc = [p \in Proc \cup Admin |-> "idle"]
    /\ held = {}
    /\ lock = NoProc
    /\ busy = FALSE
    /\ wake = FALSE
    /\ collectDue = TRUE
    /\ stopping = FALSE

-----------------------------------------------------------------------------
(***************************************************************************)
(* Connections.                                                            *)
(***************************************************************************)

Goto(p, from, to) ==
    /\ pc[p] = from
    /\ pc' = [pc EXCEPT ![p] = to]

\* Pool.Acquire and Pool.Begin return a free connection.
Borrow(p, use) ==
    /\ ~Full(PoolOf(p))
    /\ held' = held \cup {<<p, use>>}

\* A transaction ends and its connection goes back; the lock ends with it.
GiveBack(p) ==
    /\ held' = held \ {<<p, "session">>, <<p, "tx">>}
    /\ lock' = IF lock = p THEN NoProc ELSE lock

-----------------------------------------------------------------------------
(***************************************************************************)
(* CollectionJob.RunLocked.                                                *)
(***************************************************************************)

\* What follows a collection: the trigger's loop clears its flag, the tick goes
\* on to the report job whether or not the collection failed.
After(c) ==
    IF c = Loop THEN "done"
    ELSE IF c = Ticker /\ pc[c] \in CollectPc THEN "begin" ELSE "idle"

Acquire(c) ==
    /\ Goto(c, "acquire", "try")
    /\ Borrow(c, "session")
    /\ UNCHANGED <<lock, busy, wake, collectDue, stopping>>

\* Fault: the answer of pg_try_advisory_xact_lock is not looked at.
GotLockUnchecked(c) ==
    /\ Goto(c, "try", "run")
    /\ lock' = IF lock = NoProc THEN c ELSE lock
    /\ UNCHANGED <<held, busy, wake, collectDue, stopping>>

GotLock(c) ==
    /\ Goto(c, "try", "run")
    /\ lock = NoProc
    /\ lock' = c
    /\ UNCHANGED <<held, busy, wake, collectDue, stopping>>

\* Fault: a refused collection returns without Release.
LockRefusedLeaks(c) ==
    /\ Goto(c, "try", After(c))
    /\ lock # NoProc
    /\ UNCHANGED <<held, lock, busy, wake, collectDue, stopping>>

\* ErrCollectionRunning.
LockRefused(c) ==
    /\ Goto(c, "try", After(c))
    /\ lock # NoProc
    /\ GiveBack(c)
    /\ UNCHANGED <<busy, wake, collectDue, stopping>>

\* The collector's repository asks the pool for a second connection ...
NeedConnection(c) ==
    /\ Goto(c, "run", "want")
    /\ UNCHANGED <<held, lock, busy, wake, collectDue, stopping>>

\* ... gets one ...
OpenTx(c) ==
    /\ Goto(c, "want", "inTx")
    /\ Borrow(c, "tx")
    /\ UNCHANGED <<lock, busy, wake, collectDue, stopping>>

\* ... and returns it.
CloseTx(c) ==
    /\ Goto(c, "inTx", "run")
    /\ held' = held \ {<<c, "tx">>}
    /\ UNCHANGED <<lock, busy, wake, collectDue, stopping>>

\* Run returns, with or without an error; COMMIT releases lock and session.
RunEnds(c) ==
    /\ Goto(c, "run", After(c))
    /\ GiveBack(c)
    /\ UNCHANGED <<busy, wake, collectDue, stopping>>

StartCommand(c) ==
    /\ Goto(c, "idle", "acquire")
    /\ UNCHANGED <<held, lock, busy, wake, collectDue, stopping>>

-----------------------------------------------------------------------------
(***************************************************************************)
(* withTenant: one transaction, tried again while a collection has the     *)
(* lock.                                                                   *)
(***************************************************************************)

StartRequest(p) ==
    /\ ~stopping
    /\ Goto(p, "idle", "begin")
    /\ UNCHANGED <<held, lock, busy, wake, collectDue, stopping>>

BeginTx(p) ==
    /\ Goto(p, "begin", IF p \in Writer THEN "locktry" ELSE "read")
    /\ Borrow(p, "tx")
    /\ UNCHANGED <<lock, busy, wake, collectDue, stopping>>

TryCollectionLock(w) ==
    /\ Goto(w, "locktry", "write")
    /\ lock = NoProc
    /\ lock' = w
    /\ UNCHANGED <<held, busy, wake, collectDue, stopping>>

\* Fault: the transaction stays open while its request waits for the lock.
CollectionBusyKeepsTx(w) ==
    /\ Goto(w, "locktry", "backoff")
    /\ lock # NoProc
    /\ UNCHANGED <<held, lock, busy, wake, collectDue, stopping>>

\* The busy lock ends the transaction before its request waits.
CollectionBusy(w) ==
    /\ Goto(w, "locktry", "backoff")
    /\ lock # NoProc
    /\ GiveBack(w)
    /\ UNCHANGED <<busy, wake, collectDue, stopping>>

\* The 50 ms timer of retryCollectionBusy.
TryAgain(w) ==
    /\ Goto(w, "backoff", "begin")
    /\ UNCHANGED <<held, lock, busy, wake, collectDue, stopping>>

\* Commit, or the rollback after an error.
EndTx(p) ==
    /\ Goto(p, "write", "idle") \/ Goto(p, "read", "idle")
    /\ GiveBack(p)
    /\ UNCHANGED <<busy, wake, collectDue, stopping>>

\* Fault: a cancelled context does not end the wait for the collection lock.
CancelDeaf(p) ==
    /\ pc[p] \in FailPc \ {"begin", "backoff", "locktry"}
    /\ pc' = [pc EXCEPT ![p] = After(p)]
    /\ GiveBack(p)
    /\ UNCHANGED <<busy, wake, collectDue, stopping>>

\* A wait or a statement ends with an error: the context is cancelled, the
\* database is away, or a command is killed.
Cancel(p) ==
    /\ pc[p] \in FailPc
    /\ pc' = [pc EXCEPT ![p] = After(p)]
    /\ GiveBack(p)
    /\ UNCHANGED <<busy, wake, collectDue, stopping>>

-----------------------------------------------------------------------------
(***************************************************************************)
(* Scheduler.Tick: collect when due, then report.                          *)
(***************************************************************************)

Tick ==
    /\ ~stopping
    /\ Goto(Ticker, "idle", IF collectDue THEN "acquire" ELSE "begin")
    /\ collectDue' = FALSE
    /\ UNCHANGED <<held, lock, busy, wake, stopping>>

CollectionDue ==
    /\ ~collectDue
    /\ collectDue' = TRUE
    /\ UNCHANGED <<pc, held, lock, busy, wake, stopping>>

-----------------------------------------------------------------------------
(***************************************************************************)
(* asyncCollectionTrigger.                                                 *)
(***************************************************************************)

\* Fault: a request is not coalesced with the one before it.
TriggerUncoalesced(a) ==
    /\ ~stopping
    /\ Goto(a, "idle", "send")
    /\ busy' = TRUE
    /\ UNCHANGED <<held, lock, wake, collectDue, stopping>>

\* A request that finds the flag set returns at once and changes nothing.
Trigger(a) ==
    /\ ~stopping
    /\ ~busy
    /\ Goto(a, "idle", "send")
    /\ busy' = TRUE
    /\ UNCHANGED <<held, lock, wake, collectDue, stopping>>

SendWake(a) ==
    /\ Goto(a, "send", "idle")
    /\ ~wake
    /\ wake' = TRUE
    /\ UNCHANGED <<held, lock, busy, collectDue, stopping>>

SendCancelled(a) ==
    /\ stopping
    /\ Goto(a, "send", "idle")
    /\ busy' = FALSE
    /\ UNCHANGED <<held, lock, wake, collectDue, stopping>>

\* Without an API key the run returns before it asks for anything.
TakeWake ==
    /\ wake
    /\ wake' = FALSE
    /\ Goto(Loop, "idle", "acquire") \/ Goto(Loop, "idle", "done")
    /\ UNCHANGED <<held, lock, busy, collectDue, stopping>>

\* Fault: the flag stays set when the run ended because the lock was taken.
RunDoneForgets ==
    /\ Goto(Loop, "done", "idle")
    /\ busy' = (busy /\ lock # NoProc)
    /\ UNCHANGED <<held, lock, wake, collectDue, stopping>>

RunDone ==
    /\ Goto(Loop, "done", "idle")
    /\ busy' = FALSE
    /\ UNCHANGED <<held, lock, wake, collectDue, stopping>>

LoopEnds ==
    /\ stopping
    /\ Goto(Loop, "idle", "stopped")
    /\ UNCHANGED <<held, lock, busy, wake, collectDue, stopping>>

Shutdown ==
    /\ ~stopping
    /\ stopping' = TRUE
    /\ UNCHANGED <<pc, held, lock, busy, wake, collectDue>>

-----------------------------------------------------------------------------
Borrowing(c) == Acquire(c) \/ GotLock(c) \/ LockRefused(c) \/ OpenTx(c) \/ CloseTx(c)

Collect(c) == Borrowing(c) \/ NeedConnection(c) \/ RunEnds(c)

Write(w) ==
    BeginTx(w) \/ TryCollectionLock(w) \/ CollectionBusy(w) \/ TryAgain(w) \/ EndTx(w)

Next ==
    \/ \E c \in Collector : Collect(c)
    \/ \E c \in Command : StartCommand(c)
    \/ \E p \in Editor \cup Reader : StartRequest(p)
    \/ \E w \in Writer : Write(w)
    \/ \E r \in Reader : BeginTx(r) \/ EndTx(r)
    \/ \E p \in Proc : Cancel(p)
    \/ \E a \in Admin : Trigger(a) \/ SendWake(a) \/ SendCancelled(a)
    \/ Tick \/ CollectionDue \/ TakeWake \/ RunDone \/ LoopEnds \/ Shutdown

Spec == Init /\ [][Next]_vars

\* A step of p that is its turn: it has the connection or the answer it waits
\* for, or its wait is cancelled after Shutdown.
Turn(p) ==
    \/ p \in Collector /\ Borrowing(p)
    \/ p \in Writer /\ Write(p)
    \/ p \in Reader /\ (BeginTx(p) \/ EndTx(p))
    \/ p \notin Command \cup Writer /\ stopping /\ Cancel(p)

\* The pool serves those who wait in their order, a collection has an end, a
\* transaction has an end, and timers fire.
Fairness ==
    /\ \A p \in Proc : SF_vars(Turn(p))
    /\ \A c \in Collector : SF_vars(RunEnds(c))
    /\ \A w \in Writer : SF_vars(stopping /\ Cancel(w))
    /\ WF_vars(Tick)
    /\ WF_vars(TakeWake \/ RunDone \/ LoopEnds \/ \E a \in Admin : SendWake(a) \/ SendCancelled(a))

FairSpec == Spec /\ Fairness

-----------------------------------------------------------------------------
\* Where each kind of process can be.
PlaceOf(p) ==
    (IF p \in Collector THEN CollectPc ELSE {})
        \cup (IF p \in Writer THEN {"begin", "locktry", "backoff", "write"} ELSE {})
        \cup (IF p \in Reader THEN {"begin", "read"} ELSE {})
        \cup (IF p \in Admin THEN {"send"} ELSE {})
        \cup (IF p = Loop THEN {"done", "stopped"} ELSE {})
        \cup {"idle"}

\* Only the tick both collects and writes, and only after its own collection
\* (Scheduler.Tick); a connection is a session or a transaction.
TypeOK ==
    /\ DOMAIN pc = Proc \cup Admin
    /\ \A p \in Proc \cup Admin : pc[p] \in PlaceOf(p)
    /\ held \subseteq Proc \X {"session", "tx"}
    /\ lock \in Proc \cup {NoProc}
    /\ busy \in BOOLEAN /\ wake \in BOOLEAN /\ collectDue \in BOOLEAN /\ stopping \in BOOLEAN

\* However a collection, an edit or a wait ends (refused lock, error, cancelled
\* context), nothing is left behind: a session is in use by a collection, a
\* transaction by a statement, and the lock by somebody who works under it
\* (the deferred Release and ROLLBACK of RunLocked, and of tenantTransaction).
NothingLeaks ==
    /\ \A p \in Proc : <<p, "session">> \in held => pc[p] \in {"try"} \cup Collecting
    /\ \A p \in Proc : <<p, "tx">> \in held => pc[p] \in {"inTx", "locktry", "write", "read"}
    /\ lock # NoProc => pc[lock] \in Collecting \cup {"write"}

\* A process that cannot go on until somebody gives something back.
Blocked(p) ==
    \/ pc[p] \in {"acquire", "want", "begin"} /\ Full(PoolOf(p))
    \/ pc[p] = "backoff" /\ lock # NoProc

\* The comment on retryCollectionBusy: a busy lock must release its connection
\* before waiting, since the collector needs the pool to finish.  A used-up pool
\* always has a connection in the hands of somebody who can go on.
PoolNotStuck ==
    \A k \in Pool : Full(k) => \E h \in Holders(k) : ~Blocked(h[1])

\* Collections, filter edits and report snapshots exclude each other, also
\* across processes (collectionAdvisoryLock).
LockExcludes ==
    \A p \in Proc : pc[p] \in Collecting \cup {"write"} => lock = p

\* A request never blocks in Trigger: the channel is empty whenever someone is
\* about to send (asyncCollectionTrigger.Trigger).
SendsAtOnce == \A a \in Admin : pc[a] = "send" => ~wake

\* A collection that has the lock gets its connections and comes to its end,
\* whoever else waits for the pool or the lock.
CollectionEnds ==
    \A c \in Collector : pc[c] \in Collecting ~> pc[c] \notin Collecting

\* However a triggered collection ends, the next request can trigger again.
TriggerReopens == busy ~> (~busy \/ stopping)

\* After the service's context is cancelled its pool can be closed: nobody keeps
\* or waits for a connection for ever (pool.Close at the end of serve).
PoolDrains == stopping ~> [](Holders(Loop) = {} /\ pc[Ticker] = "idle")
=============================================================================

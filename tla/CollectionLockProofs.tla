------------------------- MODULE CollectionLockProofs -------------------------
(***************************************************************************)
(* For every number of connections, commands, requests and administrators: *)
(* the pool is never stuck, collections, edits and snapshots exclude each  *)
(* other and leave nothing behind, a request never blocks in Trigger, and  *)
(* every process stays at the places of its kind.                          *)
(***************************************************************************)
EXTENDS CollectionLock, FiniteSetTheorems, TLAPS

Session(p) == <<p, "session">>
Tx(p)      == <<p, "tx">>

\* The parts of the type that the argument needs.
PcFunction == pc = [p \in Proc \cup Admin |-> pc[p]]

HeldPairs == \A h \in held : \E p \in Proc : h = Session(p) \/ h = Tx(p)

\* A connection is held in these places and no others.
SessionWhere == \A p \in Proc : Session(p) \in held => pc[p] \in {"try"} \cup Collecting
TxWhere      == \A p \in Proc : Tx(p) \in held => pc[p] \in {"inTx", "locktry", "write", "read"}

\* Whoever has the lock works under it.
LockWhere ==
    /\ lock \in Proc \cup {NoProc}
    /\ \A p \in Proc : lock = p => pc[p] \in Collecting \cup {"write"}

LockInv == PcFunction /\ HeldPairs /\ SessionWhere /\ TxWhere /\ LockWhere /\ LockExcludes

LoopRests == pc[Loop] \in {"idle", "stopped"}

\* The flag stands for exactly one of: a request about to send, the token in the
\* channel, the loop at work.
OneToken ==
    /\ \A a \in Admin : pc[a] = "send" => busy /\ ~wake /\ LoopRests
    /\ \A a, b \in Admin : pc[a] = "send" /\ pc[b] = "send" => a = b
    /\ wake => busy /\ LoopRests
    /\ ~LoopRests => busy

TriggerInv == PcFunction /\ OneToken

-----------------------------------------------------------------------------
\* What follows a collection is none of the places where a connection is held.
LEMMA AfterRests ==
    ASSUME NEW p
    PROVE  /\ After(p) \in {"done", "begin", "idle"}
           /\ p = Loop => After(p) = "done"
  BY DEF After

\* One process moves; what it holds and whether it has the lock may change, the
\* holdings of the others do not.
Moves(p) ==
    /\ p \in Proc
    /\ pc' = [pc EXCEPT ![p] = pc'[p]]
    /\ \A q \in Proc : q # p => /\ Session(q) \in held' => Session(q) \in held
                                /\ Tx(q) \in held' => Tx(q) \in held
    /\ Session(p) \in held' => pc'[p] \in {"try"} \cup Collecting
    /\ Tx(p) \in held' => pc'[p] \in {"inTx", "locktry", "write", "read"}
    /\ \A h \in held' : h \in held \/ h = Session(p) \/ h = Tx(p)
    /\ pc'[p] \in Collecting \cup {"write"} => lock' = p
    /\ \A q \in Proc : q # p => (lock' = q <=> lock = q)
    /\ lock' \in Proc \cup {NoProc}
    /\ lock' = p => pc'[p] \in Collecting \cup {"write"}

\* Such a move keeps the invariant.
LEMMA MovesKeeps ==
    ASSUME LockInv, NEW p \in Proc, Moves(p)
    PROVE  LockInv'
  <1>0. /\ \A q \in Proc : q # p => pc'[q] = pc[q]
        /\ PcFunction'
    BY DEF Moves, LockInv, PcFunction
  <1>1. HeldPairs'
    BY DEF Moves, LockInv, HeldPairs, Session, Tx
  <1>2. SessionWhere' /\ TxWhere'
    BY <1>0 DEF Moves, LockInv, SessionWhere, TxWhere
  <1>3. LockExcludes'
    <2> SUFFICES ASSUME NEW q \in Proc, pc'[q] \in Collecting \cup {"write"}
                 PROVE  lock' = q
      BY DEF LockExcludes, Collecting
    <2>1. CASE q = p
      BY <2>1 DEF Moves
    <2>2. CASE q # p
      <3>1. lock = q
        BY <1>0, <2>2 DEF LockInv, LockExcludes
      <3> QED
        BY <2>2, <3>1, LockAssumption DEF Moves
    <2> QED
      BY <2>1, <2>2
  <1>4. LockWhere'
    BY <1>0 DEF Moves, LockInv, LockWhere
  <1> QED
    BY <1>0, <1>1, <1>2, <1>3, <1>4 DEF LockInv

-----------------------------------------------------------------------------
\* Every step of RunLocked is such a move: a second connection is asked for only
\* under the lock.
LEMMA CollectMoves ==
    ASSUME LockInv, NEW c \in Collector, Collect(c)
    PROVE  Moves(c)
  <1> USE DEF LockInv, PcFunction, SessionWhere, TxWhere, LockWhere, HeldPairs, LockExcludes, Moves, Session, Tx,
              Goto, Collecting, Proc
  <1>1. CASE Acquire(c)
    BY <1>1 DEF Acquire, Borrow
  <1>2. CASE GotLock(c)
    BY <1>2, LockAssumption DEF GotLock
  <1>3. CASE LockRefused(c)
    BY <1>3, AfterRests, LockAssumption DEF LockRefused, GiveBack
  <1>4. CASE NeedConnection(c)
    BY <1>4 DEF NeedConnection
  <1>5. CASE OpenTx(c)
    BY <1>5 DEF OpenTx, Borrow
  <1>6. CASE CloseTx(c)
    BY <1>6 DEF CloseTx
  <1>7. CASE RunEnds(c)
    BY <1>7, AfterRests, LockAssumption DEF RunEnds, GiveBack
  <1> QED
    BY <1>1, <1>2, <1>3, <1>4, <1>5, <1>6, <1>7 DEF Collect, Borrowing

\* So is every step of a transaction of withTenant: none waits with a connection.
LEMMA TransactionMoves ==
    ASSUME LockInv, NEW p \in Writer \cup Reader, Write(p)
    PROVE  Moves(p)
  <1> USE DEF LockInv, PcFunction, SessionWhere, TxWhere, LockWhere, HeldPairs, LockExcludes, Moves, Session, Tx,
              Goto, Collecting, Proc, Writer, Collector
  <1>1. CASE BeginTx(p)
    BY <1>1 DEF BeginTx, Borrow
  <1>2. CASE TryCollectionLock(p)
    BY <1>2, LockAssumption DEF TryCollectionLock
  <1>3. CASE CollectionBusy(p)
    BY <1>3, LockAssumption DEF CollectionBusy, GiveBack
  <1>4. CASE TryAgain(p)
    BY <1>4 DEF TryAgain
  <1>5. CASE EndTx(p)
    BY <1>5, LockAssumption DEF EndTx, GiveBack
  <1> QED
    BY <1>1, <1>2, <1>3, <1>4, <1>5 DEF Write

\* An error ends whatever a process was doing.
LEMMA CancelMoves ==
    ASSUME LockInv, NEW p \in Proc, Cancel(p)
    PROVE  Moves(p)
  BY AfterRests, LockAssumption DEF Cancel, GiveBack, LockInv, PcFunction, SessionWhere, TxWhere, LockWhere, HeldPairs, LockExcludes,
     Moves, Session, Tx, Collecting

\* The remaining steps move one process between places without a connection.
Strolls(p) ==
    /\ p \in Proc \cup Admin
    /\ pc' = [pc EXCEPT ![p] = pc'[p]]
    /\ pc[p] \in {"idle", "send", "done"}
    /\ pc'[p] \in {"idle", "send", "acquire", "begin", "done", "stopped"}
    /\ UNCHANGED <<held, lock>>

\* They keep the invariant.
LEMMA StrollsKeeps ==
    ASSUME LockInv, NEW p, Strolls(p)
    PROVE  LockInv'
  <1>1. PcFunction'
    BY DEF Strolls, LockInv, PcFunction
  <1>2. HeldPairs'
    BY DEF Strolls, LockInv, HeldPairs
  <1>3. SessionWhere' /\ TxWhere' /\ LockWhere' /\ LockExcludes'
    BY DEF Strolls, LockInv, PcFunction, SessionWhere, TxWhere, LockWhere, LockExcludes, Collecting
  <1> QED
    BY <1>1, <1>2, <1>3 DEF LockInv

\* The invariant is inductive.
LEMMA LockInvStep == LockInv /\ [Next]_vars => LockInv'
  <1> SUFFICES ASSUME LockInv, [Next]_vars PROVE LockInv'
    OBVIOUS
  <1> USE DEF Proc, Collector, Writer
  <1>1. ASSUME NEW c \in Collector, Collect(c) PROVE LockInv'
    BY <1>1, CollectMoves, MovesKeeps
  <1>2. ASSUME NEW p \in Writer \cup Reader, Write(p) PROVE LockInv'
    BY <1>2, TransactionMoves, MovesKeeps
  <1>3. ASSUME NEW p \in Proc, Cancel(p) PROVE LockInv'
    BY <1>3, CancelMoves, MovesKeeps
  <1>4. ASSUME NEW c \in Command, StartCommand(c) PROVE LockInv'
    <2>1. Strolls(c)
      BY <1>4 DEF StartCommand, Goto, Strolls, LockInv, PcFunction
    <2> QED
      BY <2>1, StrollsKeeps
  <1>5. ASSUME NEW p \in Editor \cup Reader, StartRequest(p) PROVE LockInv'
    <2>1. Strolls(p)
      BY <1>5 DEF StartRequest, Goto, Strolls, LockInv, PcFunction
    <2> QED
      BY <2>1, StrollsKeeps
  <1>6. ASSUME NEW a \in Admin, Trigger(a) \/ SendWake(a) \/ SendCancelled(a) PROVE LockInv'
    <2>1. Strolls(a)
      BY <1>6 DEF Trigger, SendWake, SendCancelled, Goto, Strolls, LockInv, PcFunction
    <2> QED
      BY <2>1, StrollsKeeps
  <1>7. CASE Tick
    <2>1. Strolls(Ticker)
      BY <1>7 DEF Tick, Goto, Strolls, LockInv, PcFunction
    <2> QED
      BY <2>1, StrollsKeeps
  <1>8. CASE TakeWake \/ RunDone \/ LoopEnds
    <2>1. Strolls(Loop)
      BY <1>8 DEF TakeWake, RunDone, LoopEnds, Goto, Strolls, LockInv, PcFunction
    <2> QED
      BY <2>1, StrollsKeeps
  <1>9. CASE CollectionDue \/ Shutdown \/ UNCHANGED vars
    <2>1. UNCHANGED <<pc, held, lock>>
      BY <1>9 DEF CollectionDue, Shutdown, vars
    <2> QED
      BY <2>1 DEF LockInv, PcFunction, HeldPairs, SessionWhere, TxWhere, LockWhere, LockExcludes
  <1> QED
    BY <1>1, <1>2, <1>3, <1>4, <1>5, <1>6, <1>7, <1>8, <1>9 DEF Next, Write

\* It holds at first: nobody holds anything.
LEMMA LockInvInit == Init => LockInv
  BY LockAssumption DEF Init, LockInv, PcFunction, HeldPairs, SessionWhere, TxWhere, LockWhere, LockExcludes, Proc, Collecting

\* Collections, filter edits and report snapshots exclude each other, for any
\* number of processes (RunLocked, tryCollectionLock).
THEOREM LockIsExclusive == Spec => []LockExcludes
  <1>1. LockInv => LockExcludes
    BY DEF LockInv
  <1> QED
    BY <1>1, LockInvInit, LockInvStep, PTL DEF Spec

\* However a collection, an edit or a wait ends, it leaves no connection and no
\* lock behind (RunLocked, tenantTransaction).
THEOREM LeavesNothing == Spec => []NothingLeaks
  <1>1. LockInv => NothingLeaks
    BY DEF LockInv, SessionWhere, TxWhere, LockWhere, Session, Tx, NothingLeaks
  <1> QED
    BY <1>1, LockInvInit, LockInvStep, PTL DEF Spec

\* Whoever is blocked with a connection in hand is the collector that has the
\* lock, with its session and nothing else.
LEMMA BlockedHolder ==
    ASSUME LockInv, NEW h \in held, Blocked(h[1])
    PROVE  h = Session(lock)
  <1>1. PICK p \in Proc : h = Session(p) \/ h = Tx(p)
    BY DEF LockInv, HeldPairs
  <1>2. h[1] = p
    BY <1>1 DEF Session, Tx
  <1>3. pc[p] \in {"acquire", "want", "begin", "backoff"}
    BY <1>2 DEF Blocked
  <1>4. h = Session(p) /\ pc[p] = "want"
    BY <1>1, <1>3 DEF LockInv, SessionWhere, TxWhere, Collecting
  <1>5. lock = p
    BY <1>4 DEF LockInv, LockExcludes, Collecting
  <1> QED
    BY <1>4, <1>5

\* With two connections or more a used-up pool always has a holder who can go on
\* (the comment on retryCollectionBusy).
THEOREM PoolNeverStuck == Spec => []PoolNotStuck
  <1>1. LockInv => PoolNotStuck
    <2> SUFFICES ASSUME LockInv, NEW k \in Pool, Full(k),
                        \A h \in Holders(k) : Blocked(h[1])
                 PROVE  FALSE
      BY DEF PoolNotStuck
    <2>1. Holders(k) \subseteq {Session(lock)}
      BY BlockedHolder DEF Holders
    <2>2. IsFiniteSet({Session(lock)}) /\ Cardinality({Session(lock)}) = 1
      BY FS_Singleton
    <2>3. /\ Cardinality(Holders(k)) <= Cardinality({Session(lock)})
          /\ Cardinality(Holders(k)) \in Nat
      BY <2>1, <2>2, FS_Subset, FS_CardinalityType
    <2> QED
      BY <2>2, <2>3, LockAssumption DEF Full
  <1> QED
    BY <1>1, LockInvInit, LockInvStep, PTL DEF Spec

-----------------------------------------------------------------------------
\* A step of one process other than the loop leaves the trigger alone; a step of
\* the loop's collection keeps the loop at work.
LEMMA TriggerUntouched ==
    ASSUME TriggerInv, NEW p \in Proc, pc' = [pc EXCEPT ![p] = pc'[p]], UNCHANGED <<busy, wake>>,
           p = Loop => ~LoopRests /\ ~LoopRests'
    PROVE  TriggerInv'
  <1>1. \A a \in Admin : pc'[a] = pc[a]
    BY LockAssumption DEF TriggerInv, PcFunction
  <1>2. LoopRests' <=> LoopRests
    <2>1. CASE p = Loop
      BY <2>1
    <2>2. CASE p # Loop
      BY <2>2 DEF LoopRests, TriggerInv, PcFunction, Proc, Collector
    <2> QED
      BY <2>1, <2>2
  <1>3. PcFunction'
    BY DEF TriggerInv, PcFunction
  <1> QED
    BY <1>1, <1>2, <1>3 DEF TriggerInv, OneToken

\* The invariant of the trigger is inductive.
LEMMA TriggerInvStep == TriggerInv /\ [Next]_vars => TriggerInv'
  <1> SUFFICES ASSUME TriggerInv, [Next]_vars PROVE TriggerInv'
    OBVIOUS
  <1> USE DEF Goto
  <1>0. Loop \in Proc /\ Ticker \in Proc /\ Loop \notin Admin
    BY LockAssumption DEF Proc, Collector
  <1>1. ASSUME NEW c \in Collector, Collect(c) PROVE TriggerInv'
    <2>1. pc' = [pc EXCEPT ![c] = pc'[c]] /\ UNCHANGED <<busy, wake>>
      BY <1>1 DEF Collect, Borrowing, Acquire, GotLock, LockRefused, NeedConnection, OpenTx, CloseTx,
         RunEnds, TriggerInv, PcFunction, Proc
    <2>2. c = Loop => ~LoopRests /\ ~LoopRests'
      BY <1>0, <1>1, AfterRests DEF Collect, Borrowing, Acquire, GotLock, LockRefused, NeedConnection, OpenTx,
         CloseTx, RunEnds, TriggerInv, PcFunction, LoopRests
    <2> QED
      BY <2>1, <2>2, TriggerUntouched DEF Proc
  <1>2. ASSUME NEW p \in Writer \cup Reader, Write(p) PROVE TriggerInv'
    <2>1. pc' = [pc EXCEPT ![p] = pc'[p]] /\ UNCHANGED <<busy, wake>>
      BY <1>2 DEF Write, BeginTx, TryCollectionLock, CollectionBusy, TryAgain, EndTx, TriggerInv, PcFunction,
         Proc, Writer, Collector
    <2>2. p # Loop /\ p \in Proc
      BY LockAssumption DEF Writer, Proc, Collector
    <2> QED
      BY <2>1, <2>2, TriggerUntouched
  <1>3. ASSUME NEW p \in Proc, Cancel(p) PROVE TriggerInv'
    <2>1. pc' = [pc EXCEPT ![p] = pc'[p]] /\ UNCHANGED <<busy, wake>>
      BY <1>3 DEF Cancel, TriggerInv, PcFunction
    <2>2. p = Loop => ~LoopRests /\ ~LoopRests'
      BY <1>0, <1>3, AfterRests DEF Cancel, FailPc, WaitPc, TriggerInv, PcFunction, LoopRests
    <2> QED
      BY <2>1, <2>2, TriggerUntouched
  <1>4. ASSUME NEW p \in Command \cup Editor \cup Reader, StartCommand(p) \/ StartRequest(p) PROVE TriggerInv'
    <2>1. pc' = [pc EXCEPT ![p] = pc'[p]] /\ UNCHANGED <<busy, wake>>
      BY <1>4 DEF StartCommand, StartRequest, TriggerInv, PcFunction, Proc, Collector
    <2>2. p # Loop /\ p \in Proc
      BY LockAssumption DEF Proc, Collector
    <2> QED
      BY <2>1, <2>2, TriggerUntouched
  <1>5. CASE Tick
    <2>1. pc' = [pc EXCEPT ![Ticker] = pc'[Ticker]] /\ UNCHANGED <<busy, wake>>
      BY <1>0, <1>5 DEF Tick, TriggerInv, PcFunction
    <2> QED
      BY <1>0, <2>1, TriggerUntouched, LockAssumption
  <1>6. ASSUME NEW a \in Admin, Trigger(a) PROVE TriggerInv'
    BY <1>0, <1>6 DEF Trigger, TriggerInv, PcFunction, OneToken, LoopRests
  <1>7. ASSUME NEW a \in Admin, SendWake(a) PROVE TriggerInv'
    BY <1>0, <1>7 DEF SendWake, TriggerInv, PcFunction, OneToken, LoopRests
  <1>8. ASSUME NEW a \in Admin, SendCancelled(a) PROVE TriggerInv'
    BY <1>0, <1>8 DEF SendCancelled, TriggerInv, PcFunction, OneToken, LoopRests
  <1>9. CASE TakeWake
    BY <1>0, <1>9 DEF TakeWake, TriggerInv, PcFunction, OneToken, LoopRests
  <1>10. CASE RunDone
    BY <1>0, <1>10 DEF RunDone, TriggerInv, PcFunction, OneToken, LoopRests
  <1>11. CASE LoopEnds
    BY <1>0, <1>11 DEF LoopEnds, TriggerInv, PcFunction, OneToken, LoopRests
  <1>12. CASE CollectionDue \/ Shutdown \/ UNCHANGED vars
    <2>1. UNCHANGED <<pc, busy, wake>>
      BY <1>12 DEF CollectionDue, Shutdown, vars
    <2> QED
      BY <2>1 DEF TriggerInv, PcFunction, OneToken, LoopRests
  <1> QED
    BY <1>1, <1>2, <1>3, <1>4, <1>5, <1>6, <1>7, <1>8, <1>9, <1>10, <1>11, <1>12 DEF Next, Write

\* It holds at first: the flag is clear and the loop waits.
LEMMA TriggerInvInit == Init => TriggerInv
  BY DEF Init, TriggerInv, PcFunction, OneToken, LoopRests, Proc, Collector

\* A request never blocks in Trigger, however many press the button while a
\* collection is queued, runs or is refused (asyncCollectionTrigger).
THEOREM TriggerNeverBlocks == Spec => []SendsAtOnce
  <1>1. TriggerInv => SendsAtOnce
    BY DEF TriggerInv, OneToken, SendsAtOnce
  <1> QED
    BY <1>1, TriggerInvInit, TriggerInvStep, PTL DEF Spec
-----------------------------------------------------------------------------
\* One process steps to a place of its own kind.
Places(p) ==
    /\ p \in Proc \cup Admin
    /\ pc' = [pc EXCEPT ![p] = pc'[p]]
    /\ pc'[p] \in PlaceOf(p)

\* Such a step keeps every process at a place of its kind.
LEMMA PlacesKeeps ==
    ASSUME TypeOK, NEW p, Places(p)
    PROVE  /\ DOMAIN pc' = Proc \cup Admin
           /\ \A q \in Proc \cup Admin : pc'[q] \in PlaceOf(q)
  BY DEF TypeOK, Places

\* After a collection every process is at a place of its kind: only the tick, and
\* only from its own collection, goes on to the report job.
LEMMA AfterPlace ==
    ASSUME TypeOK, NEW p \in Proc
    PROVE  After(p) \in PlaceOf(p)
  BY DEF After, PlaceOf, Proc, Collector, Writer

\* Every step leads to a place of its process.
LEMMA NextPlaces ==
    ASSUME TypeOK, Next
    PROVE  (\E p \in Proc \cup Admin : Places(p)) \/ pc' = pc
  <1> USE DEF Goto, TypeOK, Places
  <1>1. ASSUME NEW c \in Collector, Collect(c) PROVE Places(c)
    BY <1>1, AfterPlace DEF Collect, Borrowing, Acquire, GotLock, LockRefused, NeedConnection, OpenTx, CloseTx,
       RunEnds, PlaceOf, CollectPc, Collecting, Proc
  <1>2. ASSUME NEW p \in Writer \cup Reader, Write(p), p \in Writer PROVE Places(p)
    BY <1>2 DEF Write, BeginTx, TryCollectionLock, CollectionBusy, TryAgain, EndTx, PlaceOf, Proc, Writer, Collector
  <1>3. ASSUME NEW r \in Reader, BeginTx(r) \/ EndTx(r) PROVE Places(r)
    BY <1>3, LockAssumption DEF BeginTx, EndTx, PlaceOf, Proc, Writer, Collector
  <1>4. ASSUME NEW p \in Proc, Cancel(p) PROVE Places(p)
    BY <1>4, AfterPlace DEF Cancel
  <1>5. ASSUME NEW c \in Command, StartCommand(c) PROVE Places(c)
    BY <1>5 DEF StartCommand, PlaceOf, CollectPc, Collector, Proc
  <1>6. ASSUME NEW p \in Editor \cup Reader, StartRequest(p) PROVE Places(p)
    BY <1>6 DEF StartRequest, PlaceOf, Proc, Writer
  <1>7. ASSUME NEW a \in Admin, Trigger(a) \/ SendWake(a) \/ SendCancelled(a) PROVE Places(a)
    BY <1>7 DEF Trigger, SendWake, SendCancelled, PlaceOf
  <1>8. ASSUME Tick PROVE Places(Ticker)
    BY <1>8 DEF Tick, PlaceOf, CollectPc, Proc, Collector, Writer
  <1>9. ASSUME TakeWake \/ RunDone \/ LoopEnds PROVE Places(Loop)
    BY <1>9 DEF TakeWake, RunDone, LoopEnds, PlaceOf, CollectPc, Proc, Collector
  <1>10. ASSUME CollectionDue \/ Shutdown PROVE pc' = pc
    BY <1>10 DEF CollectionDue, Shutdown
  <1> HIDE DEF Goto, TypeOK, Places
  <1> QED
    BY <1>1, <1>2, <1>3, <1>4, <1>5, <1>6, <1>7, <1>8, <1>9, <1>10 DEF Next, Proc, Collector, Writer

\* Every process stays at the places of its kind: only the tick both collects and
\* writes, and connections and lock are those of processes.
THEOREM LockTypeCorrect == Spec => []TypeOK
  <1>1. Init => TypeOK
    BY DEF Init, TypeOK, PlaceOf, Proc
  <1>2. TypeOK /\ [Next]_vars => TypeOK'
    <2> SUFFICES ASSUME TypeOK, [Next]_vars PROVE TypeOK'
      OBVIOUS
    <2>1. CASE UNCHANGED vars
      BY <2>1 DEF vars, TypeOK
    <2>2. CASE Next
      <3>1. DOMAIN pc' = Proc \cup Admin /\ \A q \in Proc \cup Admin : pc'[q] \in PlaceOf(q)
        BY <2>2, NextPlaces, PlacesKeeps DEF TypeOK
      <3>2. /\ held' \subseteq Proc \X {"session", "tx"}
            /\ lock' \in Proc \cup {NoProc}
        BY <2>2 DEF Next, Collect, Borrowing, Acquire, GotLock, LockRefused, NeedConnection, OpenTx, CloseTx,
           RunEnds, Write, BeginTx, TryCollectionLock, CollectionBusy, TryAgain, EndTx, Cancel, StartCommand,
           StartRequest, Trigger, SendWake, SendCancelled, Tick, TakeWake, RunDone, LoopEnds, CollectionDue,
           Shutdown, Borrow, GiveBack, TypeOK, Proc, Collector, Writer
      <3>3. busy' \in BOOLEAN /\ wake' \in BOOLEAN /\ collectDue' \in BOOLEAN /\ stopping' \in BOOLEAN
        BY <2>2 DEF Next, Collect, Borrowing, Acquire, GotLock, LockRefused, NeedConnection, OpenTx, CloseTx,
           RunEnds, Write, BeginTx, TryCollectionLock, CollectionBusy, TryAgain, EndTx, Cancel, StartCommand,
           StartRequest, Trigger, SendWake, SendCancelled, Tick, TakeWake, RunDone, LoopEnds, CollectionDue,
           Shutdown, TypeOK
      <3> QED
        BY <3>1, <3>2, <3>3 DEF TypeOK
    <2> QED
      BY <2>1, <2>2
  <1> QED
    BY <1>1, <1>2, PTL DEF Spec
=============================================================================

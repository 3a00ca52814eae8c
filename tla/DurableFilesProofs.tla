------------------------- MODULE DurableFilesProofs -------------------------
(***************************************************************************)
(* Proofs about DurableFiles, for any number of processes, files, contents *)
(* and pieces.  FileInv says where the file a call works on stands: while  *)
(* it is written nobody else can see it, and once it may be published it   *)
(* is whole.                                                               *)
(***************************************************************************)
EXTENDS DurableFiles, TLAPS

Before   == {"idle", "inspect", "create", "unlink", "read", "done"}
Filling  == {"write", "sync"}
Complete == {"publish", "collision", "clean"}

\* No name stands for the file, and nobody reads it.
Unseen(i) ==
    /\ \A n \in Name : name[n] # i /\ disk[n] # i
    /\ \A q \in Process : file[q] # i

\* The temporary file of a call, by the call's place.
TempOK ==
    /\ \A p \in Process : pc[p] \in Before => temp[p] = None
    /\ \A p \in Process : pc[p] \in Filling \cup Complete => temp[p] \in Inode
    /\ \A p \in Process : pc[p] \in Filling => Unseen(temp[p])
    /\ \A p \in Process : pc[p] = "write" => written[temp[p]] < Chunks
    /\ \A p \in Process : pc[p] = "sync" => written[temp[p]] = Chunks
    /\ \A p \in Process : pc[p] \in Complete => Whole(temp[p])
    /\ \A p, q \in Process : p # q /\ temp[p] # None => temp[p] # temp[q]

ReadOK == \A p \in Process : pc[p] \in {"hash", "read"} => file[p] \in Inode

FileInv == TypeOK /\ TempOK /\ ReadOK /\ PublishedWhole

USE ConstantsAssumption

-----------------------------------------------------------------------------
\* The first states satisfy the invariant.
LEMMA InitFiles == Init => FileInv
BY DEF Init, FileInv, TypeOK, TempOK, ReadOK, PublishedWhole, Unseen, Whole, Before, Filling,
       Complete, Name

\* Every step keeps the types.
LEMMA TypeStep == TypeOK /\ TempOK /\ ReadOK /\ Next => TypeOK'
<1> SUFFICES ASSUME TypeOK, TempOK, ReadOK, Next PROVE TypeOK'
    OBVIOUS
<1>1. ASSUME NEW p \in Process, Begin(p) PROVE TypeOK'
    BY <1>1 DEF TypeOK, Begin, StartWrite, StartSave, StartRemove, StartRead, Start, Goto, store, Name
<1>2. ASSUME NEW p \in Process, Crash(p) PROVE TypeOK'
    BY <1>2 DEF TypeOK, Crash, Goto
<1>3. ASSUME NEW n \in [Name -> Inode \cup {None}], PowerFailure(n) PROVE TypeOK'
    BY <1>3 DEF TypeOK, PowerFailure
<1>4. ASSUME NEW p \in Process, Step(p) PROVE TypeOK'
  <2>1. CASE Inspect(p) \/ InspectMissing(p) \/ Read(p) \/ Return(p)
    BY <2>1 DEF TypeOK, Inspect, InspectMissing, Read, Return, Done, Goto, store, Name
  <2>2. CASE CompareHash(p) \/ CollisionGone(p) \/ Fails(p) \/ CleanFails(p)
    BY <2>2 DEF TypeOK, CompareHash, CollisionGone, Fails, CleanFails, TempsAfterFailure, Done, Goto, Name
  <2>3. ASSUME NEW i \in Inode, CreateTemp(p, i) PROVE TypeOK'
    BY <2>3 DEF TypeOK, CreateTemp, Goto
  <2>4. CASE WriteChunk(p) \/ Sync(p)
    <3>1. temp[p] \in Inode /\ (pc[p] = "write" => written[temp[p]] < Chunks)
        BY <2>4 DEF TempOK, WriteChunk, Sync, Filling
    <3>2. QED
        BY <2>4, <3>1 DEF TypeOK, WriteChunk, Sync, Goto
  <2>5. CASE Link(p) \/ Rename(p)
    <3>1. temp[p] \in Inode
        BY <2>5 DEF TempOK, Link, Rename, Complete
    <3>2. QED
        BY <2>5, <3>1 DEF TypeOK, Link, Rename, Done, Goto, Name
  <2>6. CASE Clean(p)
    BY <2>6 DEF TypeOK, Clean, Done, Goto, Name
  <2>7. CASE Unlink(p)
    BY <2>7 DEF TypeOK, Unlink, Goto, Name
  <2>8. QED
    BY <1>4, <2>1, <2>2, <2>3, <2>4, <2>5, <2>6, <2>7 DEF Step
<1>5. QED
    BY <1>1, <1>2, <1>3, <1>4 DEF Next

\* What a step needs to know of a file that a call fills, and leaves.
LEMMA FilesStep ==
    TypeOK /\ TempOK /\ ReadOK /\ PublishedWhole /\ Next => TempOK' /\ ReadOK' /\ PublishedWhole'
<1> SUFFICES ASSUME TypeOK, TempOK, ReadOK, PublishedWhole, Next
             PROVE TempOK' /\ ReadOK' /\ PublishedWhole'
    OBVIOUS
<1> USE DEF TypeOK, TempOK, ReadOK, PublishedWhole, Unseen, Whole, Before, Filling, Complete, Goto
<1>1. ASSUME NEW p \in Process, Begin(p) PROVE TempOK' /\ ReadOK' /\ PublishedWhole'
    BY <1>1 DEF Begin, StartWrite, StartSave, StartRemove, StartRead, Start, store
<1>2. ASSUME NEW p \in Process, Crash(p) PROVE TempOK' /\ ReadOK' /\ PublishedWhole'
    BY <1>2 DEF Crash
<1>3. ASSUME NEW n \in [Name -> Inode \cup {None}], PowerFailure(n)
      PROVE TempOK' /\ ReadOK' /\ PublishedWhole'
    BY <1>3 DEF PowerFailure
<1>4. ASSUME NEW p \in Process, Step(p) PROVE TempOK' /\ ReadOK' /\ PublishedWhole'
  <2>1. CASE Inspect(p) \/ InspectMissing(p) \/ Read(p) \/ Return(p)
    BY <2>1 DEF Inspect, InspectMissing, Read, Return, Done, store, Name
  <2>2. CASE CompareHash(p) \/ CollisionGone(p) \/ Fails(p) \/ CleanFails(p)
    <3>1. /\ pc' = [pc EXCEPT ![p] = "done"]
          /\ temp' = [temp EXCEPT ![p] = None]
          /\ file' = [file EXCEPT ![p] = None]
          /\ UNCHANGED <<name, disk, written, synced>>
        BY <2>2 DEF CompareHash, CollisionGone, Fails, CleanFails, Done
    <3>2. QED
        BY <3>1
  <2>3. ASSUME NEW i \in Inode, CreateTemp(p, i) PROVE TempOK' /\ ReadOK' /\ PublishedWhole'
    BY <2>3 DEF CreateTemp, Fresh
  <2>4. CASE WriteChunk(p)
    BY <2>4 DEF WriteChunk
  <2>5. CASE Sync(p)
    BY <2>5 DEF Sync
  <2>6. CASE Link(p)
    BY <2>6 DEF Link, Name
  <2>7. CASE Rename(p)
    BY <2>7 DEF Rename, Done, Name
  <2>8. CASE Clean(p)
    BY <2>8 DEF Clean, Done, Name
  <2>9. CASE Unlink(p)
    BY <2>9 DEF Unlink, Name
  <2>10. QED
    BY <1>4, <2>1, <2>2, <2>3, <2>4, <2>5, <2>6, <2>7, <2>8, <2>9 DEF Step
<1>5. QED
    BY <1>1, <1>2, <1>3, <1>4 DEF Next

\* FileInv is inductive.
LEMMA FilesInductive == FileInv /\ [Next]_vars => FileInv'
<1>1. FileInv /\ Next => FileInv'
    BY TypeStep, FilesStep DEF FileInv
<1>2. FileInv /\ UNCHANGED vars => FileInv'
    BY DEF FileInv, TypeOK, TempOK, ReadOK, PublishedWhole, Unseen, Whole, vars
<1>3. QED
    BY <1>1, <1>2

\* FileInv holds throughout.
LEMMA FilesThroughout == Spec => []FileInv
BY InitFiles, FilesInductive, PTL DEF Spec

\* The variables keep their types, however calls, crashes and power failures
\* interleave; no file gets more pieces than its body has (writeAllContext).
THEOREM FilesTypeCorrect == Spec => []TypeOK
BY FilesThroughout, PTL DEF FileInv

\* What the report path or the key path stands for, now or after a power failure,
\* and what a reader has open, is whole (Sync before Link and before Rename).
THEOREM AlwaysWhole == Spec => []PublishedWhole
BY FilesThroughout, PTL DEF FileInv

-----------------------------------------------------------------------------
\* A report's name is only ever given to a file when it is free, or by a power
\* failure that brings back what the disk had (the hard link of FileStore.Write).
LEMMA NameStep ==
    TypeOK /\ Next => (name["report"] # None /\ name'["report"] # None
                          => name'["report"] \in {name["report"], disk["report"]})
<1> SUFFICES ASSUME TypeOK, Next, name["report"] # None, name'["report"] # None
             PROVE name'["report"] \in {name["report"], disk["report"]}
    OBVIOUS
<1>1. ASSUME NEW p \in Process, Begin(p) \/ Crash(p) PROVE name' = name
    BY <1>1 DEF Begin, StartWrite, StartSave, StartRemove, StartRead, Start, Crash, store
<1>2. ASSUME NEW n \in [Name -> Inode \cup {None}], PowerFailure(n)
      PROVE name'["report"] \in {name["report"], disk["report"]}
    BY <1>2 DEF PowerFailure, Name
<1>3. ASSUME NEW p \in Process, Step(p)
      PROVE name'["report"] \in {name["report"], disk["report"]}
  <2>1. CASE Link(p)
    BY <2>1 DEF Link
  <2>2. CASE Rename(p)
    BY <2>2 DEF Rename, TypeOK, Name
  <2>3. CASE Unlink(p)
    BY <2>3 DEF Unlink, TypeOK, Name
  <2>4. CASE \/ Inspect(p) \/ InspectMissing(p) \/ CompareHash(p) \/ CollisionGone(p)
             \/ (\E i \in Inode : CreateTemp(p, i)) \/ WriteChunk(p) \/ Sync(p) \/ Fails(p)
             \/ Clean(p) \/ CleanFails(p) \/ Read(p) \/ Return(p)
    <3>1. name' = name
        BY <2>4 DEF Inspect, InspectMissing, CompareHash, CollisionGone, CreateTemp, WriteChunk,
                    Sync, Fails, Clean, CleanFails, Read, Return, store
    <3>2. QED
        BY <3>1
  <2>5. QED
    BY <1>3, <2>1, <2>2, <2>3, <2>4 DEF Step
<1>4. QED
    BY <1>1, <1>2, <1>3 DEF Next

\* The content of a report never changes, whatever writers race for its name.
THEOREM ReportNeverReplaced == Spec => NeverReplaced
<1>1. FileInv /\ [Next]_vars =>
        [name["report"] # None /\ name'["report"] # None
            => name'["report"] \in {name["report"], disk["report"]}]_vars
    BY NameStep DEF FileInv
<1>2. QED
    BY <1>1, FilesThroughout, PTL DEF Spec, NeverReplaced

-----------------------------------------------------------------------------
\* The temporary names are those of the calls: the deferred Remove of Write and
\* Save removes what CreateTemp made.
LEMMA TempsStep == TypeOK /\ TempOK /\ NoLeftovers /\ Next => NoLeftovers'
<1> SUFFICES ASSUME TypeOK, TempOK, NoLeftovers, Next PROVE NoLeftovers'
    OBVIOUS
<1>1. ASSUME NEW p \in Process, temp' = [temp EXCEPT ![p] = None], temps' = temps \ {temp[p]}
      PROVE NoLeftovers'
    BY <1>1 DEF TypeOK, TempOK, NoLeftovers
<1>2. ASSUME temp' = temp, temps' = temps PROVE NoLeftovers'
    BY <1>2 DEF NoLeftovers
<1>3. ASSUME NEW p \in Process, Begin(p) PROVE NoLeftovers'
    BY <1>2, <1>3 DEF Begin, StartWrite, StartSave, StartRemove, StartRead, Start, store
<1>4. ASSUME NEW p \in Process, Crash(p) PROVE NoLeftovers'
    BY <1>1, <1>4 DEF Crash
<1>5. ASSUME NEW n \in [Name -> Inode \cup {None}], PowerFailure(n) PROVE NoLeftovers'
    BY <1>5 DEF PowerFailure, NoLeftovers
<1>6. ASSUME NEW p \in Process, Step(p) PROVE NoLeftovers'
  <2>1. CASE \/ Inspect(p) \/ InspectMissing(p) \/ WriteChunk(p) \/ Sync(p) \/ Link(p)
             \/ Unlink(p) \/ Return(p)
    BY <1>2, <2>1 DEF Inspect, InspectMissing, WriteChunk, Sync, Link, Unlink, Return, store
  <2>2. CASE \/ CompareHash(p) \/ CollisionGone(p) \/ Fails(p) \/ CleanFails(p) \/ Clean(p)
             \/ Rename(p)
    BY <1>1, <2>2 DEF CompareHash, CollisionGone, Fails, TempsAfterFailure, CleanFails, Clean,
                      Rename, Done
  <2>3. CASE Read(p)
    <3>1. temp[p] = None
        BY <2>3 DEF Read, TempOK, Before
    <3>2. temp' = temp /\ temps' = temps
        BY <2>3, <3>1 DEF Read, Done, store, TypeOK
    <3>3. QED
        BY <1>2, <3>2
  <2>4. ASSUME NEW i \in Inode, CreateTemp(p, i) PROVE NoLeftovers'
    <3>1. temp[p] = None /\ temp' = [temp EXCEPT ![p] = i] /\ temps' = temps \cup {i}
        BY <2>4 DEF CreateTemp, TempOK, Before
    <3>2. QED
        BY <3>1 DEF TypeOK, NoLeftovers
  <2>5. QED
    BY <1>6, <2>1, <2>2, <2>3, <2>4 DEF Step
<1>7. QED
    BY <1>3, <1>4, <1>5, <1>6 DEF Next

\* No temporary file outlives its call, apart from a crash or a file system that
\* refuses (the deferred Remove of FileStore.Write and APIKeyStore.Save).
THEOREM NothingLeftOver == Spec => []NoLeftovers
<1>1. Init => NoLeftovers
    BY DEF Init, NoLeftovers
<1>2. FileInv /\ NoLeftovers /\ [Next]_vars => NoLeftovers'
    BY TempsStep DEF FileInv, vars, NoLeftovers
<1>3. QED
    BY <1>1, <1>2, FilesThroughout, PTL DEF Spec

-----------------------------------------------------------------------------
\* Which call is at which place, and what it has to show for its success: the
\* file it compares or has published is the report, unless one was removed.
CallOK ==
    /\ \A p \in Process : pc[p] # "done" => result[p] = "none"
    /\ \A p \in Process : pc[p] \in {"inspect", "hash", "collision", "clean"} => op[p] = "write"
    /\ \A p \in Process : pc[p] = "unlink" => op[p] = "remove"
    /\ \A p \in Process : pc[p] = "read" => op[p] = "read"

PlaceOK ==
    /\ \A p \in Process : pc[p] \in Filling \cup Complete => body[temp[p]] = want[p]
    /\ \A p \in Process : pc[p] = "hash" /\ ~removed[p] => file[p] = name["report"]
    /\ \A p \in Process : pc[p] = "clean" /\ ~removed[p] => temp[p] = name["report"]

TruthInv == CallOK /\ PlaceOK /\ WriteTellsTruth

\* Calls keep to their places.
LEMMA CallStep == TypeOK /\ CallOK /\ Next => CallOK'
<1> SUFFICES ASSUME TypeOK, CallOK, Next PROVE CallOK'
    OBVIOUS
<1> USE DEF TypeOK, CallOK, Goto
<1>1. ASSUME NEW p \in Process, Begin(p) PROVE CallOK'
    BY <1>1 DEF Begin, StartWrite, StartSave, StartRemove, StartRead, Start
<1>2. ASSUME NEW p \in Process, Crash(p) PROVE CallOK'
    BY <1>2 DEF Crash
<1>3. ASSUME NEW n \in [Name -> Inode \cup {None}], PowerFailure(n) PROVE CallOK'
    BY <1>3 DEF PowerFailure
<1>4. ASSUME NEW p \in Process, Step(p) PROVE CallOK'
  <2>1. CASE Inspect(p) \/ InspectMissing(p) \/ WriteChunk(p) \/ Sync(p) \/ Link(p)
             \/ \E i \in Inode : CreateTemp(p, i)
    BY <2>1 DEF Inspect, InspectMissing, WriteChunk, Sync, Link, CreateTemp
  <2>2. CASE \/ CompareHash(p) \/ CollisionGone(p) \/ Fails(p) \/ CleanFails(p) \/ Clean(p)
             \/ Rename(p) \/ Read(p)
    <3>1. \E r \in {"ok", "failed"} : Done(p, r)
        BY <2>2 DEF CompareHash, CollisionGone, Fails, CleanFails, Clean, Rename, Read
    <3>2. QED
        BY <3>1 DEF Done
  <2>3. CASE Unlink(p) \/ Return(p)
    BY <2>3 DEF Unlink, Return
  <2>4. QED
    BY <1>4, <2>1, <2>2, <2>3 DEF Step
<1>5. QED
    BY <1>1, <1>2, <1>3, <1>4 DEF Next

\* What a call has to show stays true: others neither replace the report nor
\* write into a file that has a name.
LEMMA TruthStep ==
    FileInv /\ TruthInv /\ Next => PlaceOK' /\ WriteTellsTruth'
<1> SUFFICES ASSUME FileInv, TruthInv, Next PROVE PlaceOK' /\ WriteTellsTruth'
    OBVIOUS
<1> USE DEF FileInv, TruthInv, TypeOK, TempOK, ReadOK, CallOK, PlaceOK, WriteTellsTruth, Before,
            Filling, Complete, Goto, Name
<1>1. ASSUME NEW p \in Process, Begin(p) PROVE PlaceOK' /\ WriteTellsTruth'
    BY <1>1 DEF Begin, StartWrite, StartSave, StartRemove, StartRead, Start, store
<1>2. ASSUME NEW p \in Process, Crash(p) PROVE PlaceOK' /\ WriteTellsTruth'
    BY <1>2 DEF Crash
<1>3. ASSUME NEW n \in [Name -> Inode \cup {None}], PowerFailure(n)
      PROVE PlaceOK' /\ WriteTellsTruth'
    BY <1>3 DEF PowerFailure
<1>4. ASSUME NEW p \in Process, Step(p) PROVE PlaceOK' /\ WriteTellsTruth'
  <2>1. CASE Inspect(p) \/ InspectMissing(p)
    BY <2>1 DEF Inspect, InspectMissing, store
  <2>2. CASE WriteChunk(p) \/ Sync(p)
    BY <2>2 DEF WriteChunk, Sync
  <2>3. CASE Return(p)
    BY <2>3 DEF Return, store
  <2>4. ASSUME NEW i \in Inode, CreateTemp(p, i) PROVE PlaceOK' /\ WriteTellsTruth'
    BY <2>4 DEF CreateTemp, Fresh
  <2>5. CASE CollisionGone(p) \/ Fails(p) \/ CleanFails(p)
    <3>1. Done(p, "failed") /\ UNCHANGED <<name, body>>
        BY <2>5 DEF CollisionGone, Fails, CleanFails
    <3>2. QED
        BY <3>1 DEF Done
  <2>6. CASE CompareHash(p)
    BY <2>6 DEF CompareHash, Done, SameContent
  <2>7. CASE Clean(p)
    BY <2>7 DEF Clean, Done
  <2>8. CASE Link(p)
    BY <2>8 DEF Link
  <2>9. CASE Rename(p)
    BY <2>9 DEF Rename, Done
  <2>10. CASE Unlink(p)
    <3>1. \A q \in Process : pc[q] # "idle" => removed'[q]
        BY <2>10, Zenon DEF Unlink
    <3>2. /\ pc[p] = "unlink" /\ pc' = [pc EXCEPT ![p] = "done"]
          /\ result' = [result EXCEPT ![p] = "ok"]
          /\ UNCHANGED <<op, want, temp, file, body>>
        BY <2>10 DEF Unlink
    <3>3. PlaceOK'
        BY <3>1, <3>2
    <3>4. \A q \in Process : op'[q] = "write" /\ result'[q] = "ok" => removed'[q]
        BY <3>1, <3>2
    <3>5. QED
        BY <3>3, <3>4
  <2>11. CASE Read(p)
    BY <2>11 DEF Read, Done, store
  <2>12. QED
    BY <1>4, <2>1, <2>2, <2>3, <2>4, <2>5, <2>6, <2>7, <2>8, <2>9, <2>10, <2>11 DEF Step
<1>5. QED
    BY <1>1, <1>2, <1>3, <1>4 DEF Next

\* A Write that succeeds leaves a report with exactly its body, whether it
\* published it, found it there or lost the race for the name, unless a report was
\* removed meanwhile (FileStore.Write, the comparison of hashes).
THEOREM WritesTellTheTruth == Spec => []WriteTellsTruth
<1>1. Init => TruthInv
    BY DEF Init, TruthInv, CallOK, PlaceOK, WriteTellsTruth, Filling, Complete
<1>2. FileInv /\ TruthInv /\ Next => TruthInv'
    BY CallStep, TruthStep DEF FileInv, TruthInv
<1>3. TruthInv /\ UNCHANGED vars => TruthInv'
    BY DEF TruthInv, CallOK, PlaceOK, WriteTellsTruth, vars
<1>4. Spec => []TruthInv
    BY <1>1, <1>2, <1>3, FilesThroughout, PTL DEF Spec
<1>5. QED
    BY <1>4, PTL DEF TruthInv
=============================================================================

---------------------------- MODULE DurableFiles ----------------------------
(***************************************************************************)
(* The two files the program publishes: a report, and the API key.         *)
(*                                                                         *)
(*   internal/report/files.go      FileStore.Write, Open, Remove           *)
(*   internal/config/api_key.go    APIKeyStore.Save, Read                  *)
(*                                                                         *)
(* Both are written to a temporary file, synced, and only then given their *)
(* name: a report by a hard link, which never replaces a file, the key by  *)
(* a rename, which always does.  Processes run at the same time, a process *)
(* may die at any step, and the power may fail: what was not synced is     *)
(* then lost in part, and a name that was not synced may be the old one.   *)
(* A body is written in Chunks pieces; paths, modes and hashes are left    *)
(* out, two bodies having the same hash only when they are the same.       *)
(***************************************************************************)
EXTENDS Integers

CONSTANTS
    Process,   \* concurrent calls
    Inode,     \* files of the file system
    Body,      \* contents
    Chunks,    \* pieces a body is written in
    None

ASSUME ConstantsAssumption ==
    /\ Chunks \in Nat \ {0}
    /\ None \notin Inode \cup Body

Name == {"report", "key"}

VARIABLES
    name,      \* what the two names stand for
    disk,      \* what they would stand for after a power failure
    temps,     \* files with a temporary name some call is to remove
    body,      \* per file: the content it is to have
    written,   \* per file: pieces written
    synced,    \* per file: pieces that survive a power failure
    pc, op, want, result,   \* per process
    temp,      \* per process: its temporary file
    file,      \* per process: the file it has open for reading
    removed    \* history, per process: a report was removed during its call

store == <<name, disk, temps, body, written, synced>>
vars  == <<name, disk, temps, body, written, synced, pc, op, want, result, temp, file,
           removed>>

Init ==
    /\ name = [n \in Name |-> None]
    /\ disk = [n \in Name |-> None]
    /\ temps = {}
    /\ body = [i \in Inode |-> None]
    /\ written = [i \in Inode |-> 0]
    /\ synced = [i \in Inode |-> 0]
    /\ pc = [p \in Process |-> "idle"]
    /\ op = [p \in Process |-> "none"]
    /\ want = [p \in Process |-> None]
    /\ result = [p \in Process |-> "none"]
    /\ temp = [p \in Process |-> None]
    /\ file = [p \in Process |-> None]
    /\ removed = [p \in Process |-> FALSE]

-----------------------------------------------------------------------------
Goto(p, l) == pc' = [pc EXCEPT ![p] = l]

\* A file nothing refers to stands for a new one.
Fresh(i) ==
    /\ i \notin temps
    /\ \A n \in Name : name[n] # i /\ disk[n] # i
    /\ \A p \in Process : temp[p] # i /\ file[p] # i

\* The call returns; its open files are closed.
Done(p, r) ==
    /\ Goto(p, "done")
    /\ result' = [result EXCEPT ![p] = r]
    /\ temp' = [temp EXCEPT ![p] = None]
    /\ file' = [file EXCEPT ![p] = None]
    /\ UNCHANGED <<op, want, removed>>

Start(p, o, b, l) ==
    /\ pc[p] = "idle"
    /\ op' = [op EXCEPT ![p] = o]
    /\ want' = [want EXCEPT ![p] = b]
    /\ Goto(p, l)
    /\ UNCHANGED <<store, result, temp, file, removed>>

Return(p) ==
    /\ pc[p] = "done"
    /\ Goto(p, "idle")
    /\ op' = [op EXCEPT ![p] = "none"]
    /\ want' = [want EXCEPT ![p] = None]
    /\ result' = [result EXCEPT ![p] = "none"]
    /\ removed' = [removed EXCEPT ![p] = FALSE]
    /\ UNCHANGED <<store, temp, file>>

-----------------------------------------------------------------------------
(***************************************************************************)
(* The temporary file.                                                     *)
(***************************************************************************)

\* os.O_CREATE|os.O_EXCL, and os.CreateTemp
CreateTemp(p, i) ==
    /\ pc[p] = "create"
    /\ Fresh(i)
    /\ temps' = temps \cup {i}
    /\ temp' = [temp EXCEPT ![p] = i]
    /\ body' = [body EXCEPT ![i] = want[p]]
    /\ written' = [written EXCEPT ![i] = 0]
    /\ synced' = [synced EXCEPT ![i] = 0]
    /\ Goto(p, "write")
    /\ UNCHANGED <<name, disk, op, want, result, file, removed>>

WriteChunk(p) ==
    /\ pc[p] = "write"
    /\ written' = [written EXCEPT ![temp[p]] = @ + 1]
    /\ Goto(p, IF written[temp[p]] + 1 = Chunks THEN "sync" ELSE "write")
    /\ UNCHANGED <<name, disk, temps, body, synced, op, want, result, temp, file, removed>>

\* Fault: the file is published without a sync.
SyncNothing(p) ==
    /\ pc[p] = "sync"
    /\ Goto(p, "publish")
    /\ UNCHANGED <<store, op, want, result, temp, file, removed>>

Sync(p) ==
    /\ pc[p] = "sync"
    /\ synced' = [synced EXCEPT ![temp[p]] = written[temp[p]]]
    /\ Goto(p, "publish")
    /\ UNCHANGED <<name, disk, temps, body, written, op, want, result, temp, file, removed>>

\* Fault: the temporary file of a failed call stays.
TempsAfterFailureKept(p) == temps

\* The deferred Remove
TempsAfterFailure(p) == temps \ {temp[p]}

\* The context has ended or the file system refuses, before the file has a name.
Fails(p) ==
    /\ pc[p] \in {"inspect", "hash", "create", "write", "sync", "publish", "collision", "unlink", "read"}
    /\ temps' = TempsAfterFailure(p)
    /\ Done(p, "failed")
    /\ UNCHANGED <<name, disk, body, written, synced>>

-----------------------------------------------------------------------------
(***************************************************************************)
(* FileStore.Write: a report is looked up first and never replaced.        *)
(***************************************************************************)

StartWrite(p, b) == Start(p, "write", b, "inspect")

\* existingHash opens the file, before the temporary file or after the link failed.
Inspect(p) ==
    /\ pc[p] \in {"inspect", "collision"}
    /\ name["report"] # None
    /\ file' = [file EXCEPT ![p] = name["report"]]
    /\ Goto(p, "hash")
    /\ UNCHANGED <<store, op, want, result, temp, removed>>

InspectMissing(p) ==
    /\ pc[p] = "inspect"
    /\ name["report"] = None
    /\ Goto(p, "create")
    /\ UNCHANGED <<store, op, want, result, temp, file, removed>>

\* The link failed, and no file has the name, or not any more.
CollisionGone(p) ==
    /\ pc[p] = "collision"
    /\ name["report"] = None
    /\ temps' = temps \ {temp[p]}
    /\ Done(p, "failed")
    /\ UNCHANGED <<name, disk, body, written, synced>>

\* Fault: any file will do.
SameContentAny(p) == written[file[p]] = Chunks

SameContent(p) == written[file[p]] = Chunks /\ body[file[p]] = want[p]

CompareHash(p) ==
    /\ pc[p] = "hash"
    /\ temps' = temps \ {temp[p]}
    /\ Done(p, IF SameContent(p) THEN "ok" ELSE "failed")
    /\ UNCHANGED <<name, disk, body, written, synced>>

\* Fault: the report is put in its place by a rename.
LinkReplaces(p) ==
    /\ pc[p] = "publish" /\ op[p] = "write"
    /\ name' = [name EXCEPT !["report"] = temp[p]]
    /\ Goto(p, "clean")
    /\ UNCHANGED <<disk, temps, body, written, synced, op, want, result, temp, file, removed>>

\* The name is taken, or the file system refuses: the file there is looked at again.
Link(p) ==
    /\ pc[p] = "publish" /\ op[p] = "write"
    /\ \/ /\ name["report"] = None
          /\ name' = [name EXCEPT !["report"] = temp[p]]
          /\ Goto(p, "clean")
       \/ Goto(p, "collision") /\ UNCHANGED name
    /\ UNCHANGED <<disk, temps, body, written, synced, op, want, result, temp, file, removed>>

\* The temporary name goes and the directory is synced, if the system can.
Clean(p) ==
    /\ pc[p] = "clean"
    /\ temps' = temps \ {temp[p]}
    /\ disk' \in {disk, [disk EXCEPT !["report"] = name["report"]]}
    /\ Done(p, "ok")
    /\ UNCHANGED <<name, body, written, synced>>

\* The temporary name cannot be removed and stays for ever: an error, although
\* the report is there.
CleanFails(p) ==
    /\ pc[p] = "clean"
    /\ temps' = temps \ {temp[p]}
    /\ Done(p, "failed")
    /\ UNCHANGED <<name, disk, body, written, synced>>

-----------------------------------------------------------------------------
(***************************************************************************)
(* FileStore.Remove, APIKeyStore.Save, and the readers.                    *)
(***************************************************************************)

StartRemove(p) == Start(p, "remove", None, "unlink")

Unlink(p) ==
    /\ pc[p] = "unlink"
    /\ name' = [name EXCEPT !["report"] = None]
    /\ disk' \in {disk, [disk EXCEPT !["report"] = None]}
    /\ Goto(p, "done")
    /\ result' = [result EXCEPT ![p] = "ok"]
    /\ removed' = [q \in Process |-> pc[q] # "idle"]
    /\ UNCHANGED <<temps, body, written, synced, op, want, temp, file>>

StartSave(p, b) == Start(p, "save", b, "create")

\* The directory is not synced, so that a power failure may bring back the old key.
Rename(p) ==
    /\ pc[p] = "publish" /\ op[p] = "save"
    /\ name' = [name EXCEPT !["key"] = temp[p]]
    /\ temps' = temps \ {temp[p]}
    /\ Done(p, "ok")
    /\ UNCHANGED <<disk, body, written, synced>>

StartRead(p, n) ==
    /\ name[n] # None
    /\ pc[p] = "idle"
    /\ op' = [op EXCEPT ![p] = "read"]
    /\ file' = [file EXCEPT ![p] = name[n]]
    /\ Goto(p, "read")
    /\ UNCHANGED <<store, want, result, temp, removed>>

Read(p) ==
    /\ pc[p] = "read"
    /\ Done(p, "ok")
    /\ UNCHANGED <<store>>

-----------------------------------------------------------------------------
(***************************************************************************)
(* Faults.                                                                 *)
(***************************************************************************)

\* The process dies: its temporary file stays, and nobody will remove it.
Crash(p) ==
    /\ pc[p] # "idle"
    /\ Goto(p, "idle")
    /\ op' = [op EXCEPT ![p] = "none"]
    /\ want' = [want EXCEPT ![p] = None]
    /\ result' = [result EXCEPT ![p] = "none"]
    /\ temp' = [temp EXCEPT ![p] = None]
    /\ file' = [file EXCEPT ![p] = None]
    /\ removed' = [removed EXCEPT ![p] = FALSE]
    /\ temps' = temps \ {temp[p]}
    /\ UNCHANGED <<name, disk, body, written, synced>>

\* Every process dies, the names are those of the disk or the newer ones, and of
\* every file at least the synced part is left.
PowerFailure(n) ==
    /\ n \in [Name -> Inode \cup {None}]
    /\ \A x \in Name : n[x] \in {name[x], disk[x]}
    /\ name' = n /\ disk' = n
    /\ written' = synced
    /\ pc' = [p \in Process |-> "idle"]
    /\ op' = [p \in Process |-> "none"]
    /\ want' = [p \in Process |-> None]
    /\ result' = [p \in Process |-> "none"]
    /\ temp' = [p \in Process |-> None]
    /\ file' = [p \in Process |-> None]
    /\ removed' = [p \in Process |-> FALSE]
    /\ temps' = {}
    /\ UNCHANGED <<body, synced>>

Begin(p) ==
    \/ \E b \in Body : StartWrite(p, b) \/ StartSave(p, b)
    \/ StartRemove(p)
    \/ \E n \in Name : StartRead(p, n)

Step(p) ==
    \/ Inspect(p) \/ InspectMissing(p) \/ CompareHash(p) \/ CollisionGone(p)
    \/ (\E i \in Inode : CreateTemp(p, i)) \/ WriteChunk(p) \/ Sync(p) \/ Fails(p)
    \/ Link(p) \/ Clean(p) \/ CleanFails(p) \/ Rename(p)
    \/ Unlink(p) \/ Read(p) \/ Return(p)

Next ==
    \/ \E p \in Process : Begin(p) \/ Step(p) \/ Crash(p)
    \/ \E n \in [Name -> Inode \cup {None}] : PowerFailure(n)

Spec == Init /\ [][Next]_vars

-----------------------------------------------------------------------------
\* The types; no file gets more pieces than its body has (writeAllContext).
TypeOK ==
    /\ name \in [Name -> Inode \cup {None}]
    /\ disk \in [Name -> Inode \cup {None}]
    /\ temps \subseteq Inode
    /\ body \in [Inode -> Body \cup {None}]
    /\ written \in [Inode -> 0 .. Chunks]
    /\ synced \in [Inode -> 0 .. Chunks]
    /\ pc \in [Process -> {"idle", "inspect", "hash", "create", "write", "sync", "publish",
                           "collision", "clean", "unlink", "read", "done"}]
    /\ op \in [Process -> {"none", "write", "save", "remove", "read"}]
    /\ want \in [Process -> Body \cup {None}]
    /\ result \in [Process -> {"none", "ok", "failed"}]
    /\ temp \in [Process -> Inode \cup {None}]
    /\ file \in [Process -> Inode \cup {None}]
    /\ removed \in [Process -> BOOLEAN]

Whole(i) == written[i] = Chunks /\ synced[i] = Chunks

\* What a name stands for, now or after a power failure, and what a reader has
\* open, is the whole body, and a power failure takes nothing from it (Sync
\* before Link and before Rename).
PublishedWhole ==
    /\ \A n \in Name : (name[n] # None => Whole(name[n])) /\ (disk[n] # None => Whole(disk[n]))
    /\ \A p \in Process : file[p] # None => Whole(file[p])

\* A Write that succeeds, whether it published the report or found it there or
\* lost the race for the name, leaves a report with exactly its body, unless one
\* was removed in the meantime (FileStore.Write, the comparison of hashes).
WriteTellsTruth ==
    \A p \in Process :
        op[p] = "write" /\ result[p] = "ok" /\ ~removed[p] =>
            name["report"] # None /\ body[name["report"]] = want[p]

\* The content of a report never changes: its name goes from no file to a file
\* and back, and from one file to another only when a power failure brings back
\* a report whose removal had not been synced (the hard link fails when the name
\* exists).
NeverReplaced == [][name["report"] # None /\ name'["report"] # None
                       => name'["report"] \in {name["report"], disk["report"]}]_vars

\* A call that ends with an answer leaves no temporary file behind, whichever of
\* its paths it took (the deferred Remove of Write and of Save).  It speaks of such
\* calls only: what a crash or a refused removal leaves behind is dropped from
\* temps where it happens (Crash, CleanFails).
NoLeftovers == temps = {temp[p] : p \in {q \in Process : temp[q] # None}}
=============================================================================

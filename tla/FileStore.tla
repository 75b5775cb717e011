------------------------------ MODULE FileStore ------------------------------
(***************************************************************************)
(* The job records of internal/storage/filestore: an index in memory over  *)
(* one file per job, replaced by writing, syncing and renaming a temporary *)
(* file, in a directory that one process at a time may own.  Processes are *)
(* killed, and the machine may lose power; what was not synced is then     *)
(* lost, and so is a rename that the file system had not yet written out.  *)
(* A record is abstracted to the number of the write it came from.         *)
(***************************************************************************)
EXTENDS Integers

CONSTANTS
  Procs,      \* server processes pointed at the same data directory
  Jobs,
  MaxWrites,  \* bound: writes of a record that are begun
  Faults,     \* what this instance lets go wrong
  Nobody      \* no process, no job

FaultKinds ==
  {"crash",   \* a process is killed
   "power",   \* the machine loses power
   "io"}      \* a file cannot be made, written, synced or renamed

Absent == 0    \* no file, or no such job
Broken == -1   \* a file that does not parse
Writes == 1..MaxWrites
Steps == {"idle", "create", "write", "sync", "rename", "index"}

Nothing == [job |-> Nobody, write |-> Absent]

ASSUME StoreAssumption ==
  /\ MaxWrites \in Nat /\ Faults \subseteq FaultKinds /\ Nobody \notin Procs \cup Jobs

VARIABLES
  state,    \* process -> "off", "loading" (it has the lock) or "up"
  lock,     \* the process the kernel gave the directory's lock to
  index,    \* process -> job -> record in memory
  step,     \* process -> the step of writeJob it is at
  doing,    \* process -> the job and the number of its write
  whole,    \* process -> its temporary file has all of the record
  flushed,  \* process -> and it was synced
  file,     \* job -> what a read of job.json finds
  synced,   \* job -> the content of that file was synced
  settled,  \* job -> what a read would find after a loss of power
  issued,   \* writes begun so far
  acked,    \* job -> the last write that was reported to have succeeded
  orphans,  \* writes whose process died before it could say how they ended
  dark      \* the machine lost power once

memVars  == <<index, step, doing, whole, flushed>>
diskVars == <<file, synced, settled>>
histVars == <<issued, acked, orphans, dark>>
vars == <<state, lock, memVars, diskVars, histVars>>

Init ==
  /\ state = [p \in Procs |-> "off"] /\ lock = Nobody
  /\ index = [p \in Procs |-> [j \in Jobs |-> Absent]]
  /\ step = [p \in Procs |-> "idle"]
  /\ doing = [p \in Procs |-> Nothing]
  /\ whole = [p \in Procs |-> FALSE] /\ flushed = [p \in Procs |-> FALSE]
  /\ file = [j \in Jobs |-> Absent] /\ settled = [j \in Jobs |-> Absent]
  /\ synced = [j \in Jobs |-> TRUE]
  /\ issued = 0 /\ acked = [j \in Jobs |-> Absent] /\ orphans = {} /\ dark = FALSE

-----------------------------------------------------------------------------
(* New and Close *)

MayOpenAnyway(p) == TRUE
MayOpen(p) == lock = Nobody

\* acquireLock: the directory is taken, or the process does not start.
AcquireLock(p) ==
  /\ state[p] = "off" /\ MayOpen(p)
  /\ state' = [state EXCEPT ![p] = "loading"]
  /\ lock' = p
  /\ UNCHANGED <<memVars, diskVars, histVars>>

\* Every record that can be read is loaded; the others are skipped.
Load(p) ==
  /\ state[p] = "loading"
  /\ state' = [state EXCEPT ![p] = "up"]
  /\ index' = [index EXCEPT ![p] = [j \in Jobs |-> IF file[j] = Broken THEN Absent ELSE file[j]]]
  /\ UNCHANGED <<lock, step, doing, whole, flushed, diskVars, histVars>>

\* The processes ps are gone: their memory, their temporary files, their lock.
Gone(ps) ==
  /\ state' = [p \in Procs |-> IF p \in ps THEN "off" ELSE state[p]]
  /\ lock' = IF lock \in ps THEN Nobody ELSE lock
  /\ index' = [p \in Procs |-> IF p \in ps THEN [j \in Jobs |-> Absent] ELSE index[p]]
  /\ step' = [p \in Procs |-> IF p \in ps THEN "idle" ELSE step[p]]
  /\ whole' = [p \in Procs |-> p \notin ps /\ whole[p]]
  /\ flushed' = [p \in Procs |-> p \notin ps /\ flushed[p]]
  /\ orphans' = orphans \cup {doing[p].write : p \in {q \in ps : step[q] # "idle"}}
  /\ doing' = [p \in Procs |-> IF p \in ps THEN Nothing ELSE doing[p]]
  /\ UNCHANGED <<issued, acked>>

\* A server that stopped closes its store, when no write is under way.
Close(p) ==
  /\ state[p] = "up" /\ step[p] = "idle"
  /\ Gone({p})
  /\ UNCHANGED <<diskVars, dark>>

-----------------------------------------------------------------------------
(* Create and Update; a process's mutex is held from Begin to the end. *)

\* Create takes only a new job, Update only one that is there.
Begin(p, j) ==
  /\ state[p] = "up" /\ step[p] = "idle" /\ issued < MaxWrites
  /\ issued' = issued + 1
  /\ doing' = [doing EXCEPT ![p] = [job |-> j, write |-> issued + 1]]
  /\ step' = [step EXCEPT ![p] = "create"]
  /\ UNCHANGED <<state, lock, index, whole, flushed, diskVars, acked, orphans, dark>>

Goto(p, s) == step' = [step EXCEPT ![p] = s]

\* The write is over, with its temporary file.
Finish(p) ==
  /\ Goto(p, "idle")
  /\ doing' = [doing EXCEPT ![p] = Nothing]
  /\ whole' = [whole EXCEPT ![p] = FALSE] /\ flushed' = [flushed EXCEPT ![p] = FALSE]

\* An empty temporary file, in the directory of the job.
CreateTemp(p) ==
  /\ step[p] = "create"
  /\ Goto(p, "write")
  /\ UNCHANGED <<state, lock, index, doing, whole, flushed, diskVars, histVars>>

WriteTemp(p) ==
  /\ step[p] = "write"
  /\ whole' = [whole EXCEPT ![p] = TRUE]
  /\ Goto(p, "sync")
  /\ UNCHANGED <<state, lock, index, doing, flushed, diskVars, histVars>>

SyncNothing(p) ==
  /\ step[p] = "sync"
  /\ Goto(p, "rename")
  /\ UNCHANGED <<state, lock, index, doing, whole, flushed, diskVars, histVars>>

Sync(p) ==
  /\ step[p] = "sync"
  /\ flushed' = [flushed EXCEPT ![p] = TRUE]
  /\ Goto(p, "rename")
  /\ UNCHANGED <<state, lock, index, doing, whole, diskVars, histVars>>

\* The file is replaced, for every reader at once; the directory is not synced.
Rename(p) ==
  /\ step[p] = "rename"
  /\ file' = [file EXCEPT ![doing[p].job] = IF whole[p] THEN doing[p].write ELSE Broken]
  /\ synced' = [synced EXCEPT ![doing[p].job] = flushed[p]]
  /\ Goto(p, "index")
  /\ UNCHANGED <<state, lock, index, doing, whole, flushed, settled, histVars>>

\* The index follows the file, and only then does the call return.
Index(p) ==
  /\ step[p] = "index"
  /\ index' = [index EXCEPT ![p][doing[p].job] = doing[p].write]
  /\ acked' = [acked EXCEPT ![doing[p].job] = doing[p].write]
  /\ Finish(p)
  /\ UNCHANGED <<state, lock, diskVars, issued, orphans, dark>>

StepsThatMayFail == {"create", "write", "sync", "rename", "index"}
StepsBeforeRename == {"create", "write", "sync", "rename"}

\* A step before the rename is done fails: the temporary file is removed, and
\* the call returns the error.
Refuse(p) ==
  /\ "io" \in Faults /\ step[p] \in StepsBeforeRename
  /\ Finish(p)
  /\ UNCHANGED <<state, lock, index, diskVars, histVars>>

-----------------------------------------------------------------------------
(* The machine. *)

Crash(p) ==
  /\ "crash" \in Faults /\ state[p] # "off"
  /\ Gone({p})
  /\ UNCHANGED <<diskVars, dark>>

\* The file system writes a rename out, and the content only if it was synced.
Settle(j) ==
  /\ settled[j] # file[j]
  /\ settled' = [settled EXCEPT ![j] = IF synced[j] THEN file[j] ELSE Broken]
  /\ UNCHANGED <<state, lock, memVars, file, synced, histVars>>

PowerLoss ==
  /\ "power" \in Faults /\ dark = FALSE
  /\ Gone(Procs)
  /\ file' = settled /\ synced' = [j \in Jobs |-> TRUE]
  /\ dark' = TRUE
  /\ UNCHANGED settled

-----------------------------------------------------------------------------
WriteStep(p) == CreateTemp(p) \/ WriteTemp(p) \/ Sync(p) \/ Rename(p) \/ Index(p) \/ Refuse(p)

Next ==
  \/ \E p \in Procs : \/ AcquireLock(p) \/ Load(p) \/ Close(p) \/ Crash(p)
                      \/ (\E j \in Jobs : Begin(p, j)) \/ WriteStep(p)
  \/ \E j \in Jobs : Settle(j)
  \/ PowerLoss

Spec == Init /\ [][Next]_vars
-----------------------------------------------------------------------------
\* The range of every variable of the store.
TypeOK ==
  /\ state \in [Procs -> {"off", "loading", "up"}] /\ lock \in Procs \cup {Nobody}
  /\ index \in [Procs -> [Jobs -> Writes \cup {Absent}]]
  /\ step \in [Procs -> Steps]
  /\ doing \in [Procs -> [job : Jobs \cup {Nobody}, write : Writes \cup {Absent}]]
  /\ whole \in [Procs -> BOOLEAN] /\ flushed \in [Procs -> BOOLEAN]
  /\ file \in [Jobs -> Writes \cup {Absent, Broken}] /\ synced \in [Jobs -> BOOLEAN]
  /\ settled \in [Jobs -> Writes \cup {Absent, Broken}]
  /\ issued \in 0..MaxWrites /\ acked \in [Jobs -> Writes \cup {Absent}]
  /\ orphans \subseteq Writes /\ dark \in BOOLEAN

\* Whatever is killed and whenever the power goes, a start finds each record
\* old or new, never half of one: no job is skipped for a file that does not
\* parse.
RecordsAreWhole == \A j \in Jobs : file[j] # Broken /\ settled[j] # Broken

\* What readers are served is what a start would load: refused writes, the
\* death of another server and its takeover of the directory never leave a
\* server with an index that the files do not have.
IndexIsOnDisk ==
  \A p \in Procs : state[p] = "up" => \A j \in Jobs :
    index[p][j] = file[j] \/ (step[p] = "index" /\ doing[p].job = j)

\* A write that was reported to have succeeded is on disk until a later one is,
\* or one whose process died with it; one that was reported to have failed is
\* never seen. A loss of power is the exception: it may undo the last writes.
AcknowledgedIsOnDisk ==
  dark \/ \A j \in Jobs :
    \/ file[j] = acked[j]
    \/ /\ file[j] > acked[j] /\ file[j] \in orphans
    \/ \E p \in Procs : step[p] = "index" /\ doing[p] = [job |-> j, write |-> file[j]]
=============================================================================

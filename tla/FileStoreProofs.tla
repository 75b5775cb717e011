--------------------------- MODULE FileStoreProofs ---------------------------
(***************************************************************************)
(* FileStore keeps its promises for any set of processes and of jobs and   *)
(* any number of writes, with every fault.                                 *)
(***************************************************************************)
EXTENDS FileStore, TLAPS

\* A process has the lock exactly while it is on, and writes only when it is up.
OneOwner ==
  /\ \A p \in Procs : state[p] # "off" <=> lock = p
  /\ \A p \in Procs : step[p] # "idle" => state[p] = "up"

\* What is renamed is the whole of a write, and is on disk.
TempIsReady ==
  /\ \A p \in Procs : step[p] \in {"sync", "rename"} => whole[p]
  /\ \A p \in Procs : step[p] = "rename" => flushed[p]
  /\ \A j \in Jobs : synced[j]

\* A write under way is of a job, and is younger than all that succeeded.
WritesAreFresh ==
  /\ \A j \in Jobs : acked[j] <= issued
  /\ \A p \in Procs : step[p] # "idle" =>
       /\ doing[p].job \in Jobs /\ doing[p].write \in Writes /\ doing[p].write <= issued
       /\ \A j \in Jobs : acked[j] < doing[p].write
       /\ step[p] = "index" => file[doing[p].job] = doing[p].write

IInv == /\ TypeOK /\ OneOwner /\ TempIsReady /\ WritesAreFresh
        /\ RecordsAreWhole /\ IndexIsOnDisk /\ AcknowledgedIsOnDisk

USE DEF Absent, Broken, Writes, Nothing

\* An empty directory that nobody opened satisfies the invariant.
LEMMA InitIInv == Init => IInv
<1> SUFFICES ASSUME Init PROVE IInv
  OBVIOUS
<1>1. TypeOK
  <2>1. doing \in [Procs -> [job : Jobs \cup {Nobody}, write : Writes \cup {Absent}]]
    BY DEF Init
  <2>2. issued \in 0..MaxWrites
    BY StoreAssumption DEF Init
  <2>3. /\ step \in [Procs -> Steps] /\ state \in [Procs -> {"off", "loading", "up"}]
        /\ index \in [Procs -> [Jobs -> Writes \cup {Absent}]]
    BY DEF Init, Steps
  <2>4. /\ file \in [Jobs -> Writes \cup {Absent, Broken}]
        /\ settled \in [Jobs -> Writes \cup {Absent, Broken}]
        /\ acked \in [Jobs -> Writes \cup {Absent}]
    BY DEF Init
  <2>5. /\ whole \in [Procs -> BOOLEAN] /\ flushed \in [Procs -> BOOLEAN]
        /\ synced \in [Jobs -> BOOLEAN]
    BY Zenon DEF Init
  <2>6. lock \in Procs \cup {Nobody} /\ orphans \subseteq Writes /\ dark \in BOOLEAN
    BY DEF Init
  <2> QED
    BY <2>1, <2>2, <2>3, <2>4, <2>5, <2>6 DEF TypeOK
<1>2. OneOwner /\ TempIsReady /\ WritesAreFresh
  BY StoreAssumption DEF Init, OneOwner, TempIsReady, WritesAreFresh
<1>3. RecordsAreWhole /\ IndexIsOnDisk /\ AcknowledgedIsOnDisk
  BY DEF Init, RecordsAreWhole, IndexIsOnDisk, AcknowledgedIsOnDisk
<1> QED
  BY <1>1, <1>2, <1>3 DEF IInv

\* What the death of processes does to the invariant, whatever becomes of the
\* disk.
LEMMA GoneKeeps ==
  ASSUME NEW ps \in SUBSET Procs, IInv, Gone(ps)
  PROVE  /\ state' \in [Procs -> {"off", "loading", "up"}] /\ lock' \in Procs \cup {Nobody}
         /\ index' \in [Procs -> [Jobs -> Writes \cup {Absent}]]
         /\ step' \in [Procs -> Steps]
         /\ doing' \in [Procs -> [job : Jobs \cup {Nobody}, write : Writes \cup {Absent}]]
         /\ whole' \in [Procs -> BOOLEAN] /\ flushed' \in [Procs -> BOOLEAN]
         /\ orphans' \subseteq Writes
         /\ OneOwner'
         /\ \A p \in Procs : p \in ps => step'[p] = "idle" /\ state'[p] = "off"
         /\ \A p \in Procs : p \notin ps =>
              /\ step'[p] = step[p] /\ state'[p] = state[p] /\ doing'[p] = doing[p]
              /\ index'[p] = index[p] /\ whole'[p] = whole[p] /\ flushed'[p] = flushed[p]
<1>1. \A p \in Procs : step[p] # "idle" => doing[p].write \in Writes
  BY DEF IInv, WritesAreFresh
<1>2. OneOwner'
  BY StoreAssumption DEF Gone, IInv, OneOwner, TypeOK
<1>3. /\ state' \in [Procs -> {"off", "loading", "up"}] /\ lock' \in Procs \cup {Nobody}
      /\ index' \in [Procs -> [Jobs -> Writes \cup {Absent}]]
      /\ step' \in [Procs -> Steps]
  BY DEF Gone, IInv, TypeOK, Steps
<1>4. doing' \in [Procs -> [job : Jobs \cup {Nobody}, write : Writes \cup {Absent}]]
  BY DEF Gone, IInv, TypeOK
<1>5. whole' \in [Procs -> BOOLEAN] /\ flushed' \in [Procs -> BOOLEAN]
  BY DEF Gone, IInv, TypeOK
<1>6. orphans' \subseteq Writes
  <2>1. orphans \subseteq Writes
    BY DEF IInv, TypeOK
  <2>2. orphans' = orphans \cup {doing[p].write : p \in {q \in ps : step[q] # "idle"}}
    BY DEF Gone
  <2> QED
    BY <1>1, <2>1, <2>2
<1>7. \A p \in Procs : p \in ps => step'[p] = "idle" /\ state'[p] = "off"
  BY DEF Gone
<1>8. \A p \in Procs : p \notin ps =>
        /\ step'[p] = step[p] /\ state'[p] = state[p] /\ doing'[p] = doing[p]
        /\ index'[p] = index[p]
  BY DEF Gone, IInv, TypeOK
<1>9. \A p \in Procs : p \notin ps => whole'[p] = whole[p] /\ flushed'[p] = flushed[p]
  BY DEF Gone, IInv, TypeOK
<1> QED
  BY <1>2, <1>3, <1>4, <1>5, <1>6, <1>7, <1>8, <1>9

\* Every step keeps it.
LEMMA StepIInv == IInv /\ [Next]_vars => IInv'
<1> SUFFICES ASSUME IInv, [Next]_vars PROVE IInv'
  OBVIOUS
<1> USE StoreAssumption
<1>1. ASSUME NEW p \in Procs, AcquireLock(p) PROVE IInv'
  <2> USE <1>1 DEF AcquireLock, MayOpen, memVars, diskVars, histVars, IInv, TypeOK
  <2>1. TypeOK'
    BY DEF Steps
  <2>2. OneOwner'
    BY DEF OneOwner
  <2>3. TempIsReady'
    BY DEF TempIsReady
  <2>4. WritesAreFresh'
    BY DEF WritesAreFresh, OneOwner
  <2>5. RecordsAreWhole'
    BY DEF RecordsAreWhole
  <2>6. IndexIsOnDisk'
    BY DEF IndexIsOnDisk, OneOwner
  <2>7. AcknowledgedIsOnDisk'
    BY DEF AcknowledgedIsOnDisk, OneOwner
  <2> QED
    BY <2>1, <2>2, <2>3, <2>4, <2>5, <2>6, <2>7
<1>2. ASSUME NEW p \in Procs, Load(p) PROVE IInv'
  <2> USE <1>2 DEF Load, memVars, diskVars, histVars, IInv, TypeOK
  <2>1. TypeOK'
    BY DEF Steps, OneOwner, RecordsAreWhole
  <2>2. OneOwner'
    BY DEF OneOwner, RecordsAreWhole
  <2>3. TempIsReady'
    BY DEF TempIsReady, OneOwner, RecordsAreWhole
  <2>4. WritesAreFresh'
    BY DEF WritesAreFresh, OneOwner, RecordsAreWhole
  <2>5. RecordsAreWhole'
    BY DEF RecordsAreWhole, OneOwner
  <2>6. IndexIsOnDisk'
    BY DEF IndexIsOnDisk, OneOwner, RecordsAreWhole
  <2>7. AcknowledgedIsOnDisk'
    BY DEF AcknowledgedIsOnDisk, OneOwner, RecordsAreWhole
  <2> QED
    BY <2>1, <2>2, <2>3, <2>4, <2>5, <2>6, <2>7
<1>3. ASSUME NEW p \in Procs, NEW j \in Jobs, Begin(p, j) PROVE IInv'
  <2> USE <1>3 DEF Begin, diskVars, IInv, TypeOK
  <2>1. TypeOK'
    BY DEF Steps
  <2>2. OneOwner'
    BY DEF OneOwner
  <2>3. TempIsReady'
    BY DEF TempIsReady
  <2>4. WritesAreFresh'
    <3>1. step'[p] = "create" /\ doing'[p] = [job |-> j, write |-> issued + 1]
      OBVIOUS
    <3>2. \A q \in Procs : q # p => step'[q] = "idle"
      BY DEF OneOwner
    <3>3. issued' = issued + 1 /\ issued \in Nat /\ issued + 1 \in Writes
      OBVIOUS
    <3>4. \A k \in Jobs : acked'[k] \in Int /\ acked'[k] <= issued
      BY DEF WritesAreFresh
    <3>5. \A k \in Jobs : acked'[k] <= issued' /\ acked'[k] < issued + 1
      BY <3>3, <3>4
    <3> HIDE <1>3 DEF Begin, IInv, TypeOK
    <3> QED
      BY <3>1, <3>2, <3>3, <3>5 DEF WritesAreFresh
  <2>5. RecordsAreWhole'
    BY DEF RecordsAreWhole
  <2>6. IndexIsOnDisk'
    BY DEF IndexIsOnDisk, OneOwner
  <2>7. AcknowledgedIsOnDisk'
    BY DEF AcknowledgedIsOnDisk, OneOwner
  <2> QED
    BY <2>1, <2>2, <2>3, <2>4, <2>5, <2>6, <2>7
<1>4. ASSUME NEW p \in Procs, CreateTemp(p) PROVE IInv'
  <2> USE <1>4 DEF CreateTemp, Goto, diskVars, histVars, IInv, TypeOK
  <2>1. TypeOK'
    BY DEF Steps
  <2>2. OneOwner'
    BY DEF OneOwner
  <2>3. TempIsReady'
    BY DEF TempIsReady
  <2>4. WritesAreFresh'
    BY DEF WritesAreFresh, OneOwner
  <2>5. RecordsAreWhole'
    BY DEF RecordsAreWhole
  <2>6. IndexIsOnDisk'
    BY DEF IndexIsOnDisk, OneOwner
  <2>7. AcknowledgedIsOnDisk'
    BY DEF AcknowledgedIsOnDisk, OneOwner
  <2> QED
    BY <2>1, <2>2, <2>3, <2>4, <2>5, <2>6, <2>7
<1>5. ASSUME NEW p \in Procs, WriteTemp(p) PROVE IInv'
  <2> USE <1>5 DEF WriteTemp, Goto, diskVars, histVars, IInv, TypeOK
  <2>1. TypeOK'
    BY DEF Steps
  <2>2. OneOwner'
    BY DEF OneOwner
  <2>3. TempIsReady'
    BY DEF TempIsReady
  <2>4. WritesAreFresh'
    BY DEF WritesAreFresh, OneOwner
  <2>5. RecordsAreWhole'
    BY DEF RecordsAreWhole
  <2>6. IndexIsOnDisk'
    BY DEF IndexIsOnDisk, OneOwner
  <2>7. AcknowledgedIsOnDisk'
    BY DEF AcknowledgedIsOnDisk, OneOwner
  <2> QED
    BY <2>1, <2>2, <2>3, <2>4, <2>5, <2>6, <2>7
<1>6. ASSUME NEW p \in Procs, Sync(p) PROVE IInv'
  <2> USE <1>6 DEF Sync, Goto, diskVars, histVars, IInv, TypeOK
  <2>1. TypeOK'
    BY DEF Steps
  <2>2. OneOwner'
    BY DEF OneOwner
  <2>3. TempIsReady'
    BY DEF TempIsReady
  <2>4. WritesAreFresh'
    BY DEF WritesAreFresh, OneOwner
  <2>5. RecordsAreWhole'
    BY DEF RecordsAreWhole
  <2>6. IndexIsOnDisk'
    BY DEF IndexIsOnDisk, OneOwner
  <2>7. AcknowledgedIsOnDisk'
    BY DEF AcknowledgedIsOnDisk, OneOwner
  <2> QED
    BY <2>1, <2>2, <2>3, <2>4, <2>5, <2>6, <2>7
<1>7. ASSUME NEW p \in Procs, Rename(p) PROVE IInv'
  <2> USE <1>7 DEF Rename, Goto, histVars, IInv, TypeOK
  <2>1. TypeOK'
    BY DEF Steps, OneOwner, TempIsReady, WritesAreFresh
  <2>2. OneOwner'
    BY DEF OneOwner, TempIsReady, WritesAreFresh
  <2>3. TempIsReady'
    BY DEF TempIsReady, OneOwner, WritesAreFresh
  <2>4. WritesAreFresh'
    BY DEF WritesAreFresh, OneOwner, TempIsReady
  <2>5. RecordsAreWhole'
    BY DEF RecordsAreWhole, OneOwner, TempIsReady, WritesAreFresh
  <2>6. IndexIsOnDisk'
    <3>1. state[p] = "up" /\ \A q \in Procs : q # p => state'[q] = "off"
      BY DEF OneOwner
    <3>2. \A k \in Jobs : index'[p][k] = file[k]
      BY <3>1 DEF IndexIsOnDisk
    <3>3. step'[p] = "index" /\ \A k \in Jobs : k # doing'[p].job => file'[k] = file[k]
      OBVIOUS
    <3> HIDE <1>7 DEF Rename, IInv, TypeOK
    <3> QED
      BY <3>1, <3>2, <3>3 DEF IndexIsOnDisk
  <2>7. AcknowledgedIsOnDisk'
    BY DEF AcknowledgedIsOnDisk, OneOwner, TempIsReady, WritesAreFresh
  <2> QED
    BY <2>1, <2>2, <2>3, <2>4, <2>5, <2>6, <2>7
<1>8. ASSUME NEW p \in Procs, Index(p) PROVE IInv'
  <2> USE <1>8 DEF Index, Finish, Goto, diskVars, IInv, TypeOK
  <2>1. TypeOK'
    BY DEF Steps, OneOwner, WritesAreFresh
  <2>2. OneOwner'
    BY DEF OneOwner, WritesAreFresh
  <2>3. TempIsReady'
    BY DEF TempIsReady, OneOwner, WritesAreFresh
  <2>4. WritesAreFresh'
    <3>1. \A q \in Procs : step'[q] = "idle"
      <4>1. \A q \in Procs : step[q] # "idle" => q = p
        BY DEF OneOwner
      <4>2. step' = [step EXCEPT ![p] = "idle"] /\ step \in [Procs -> Steps]
        OBVIOUS
      <4> HIDE <1>8 DEF Index, Finish, IInv, TypeOK
      <4> QED
        BY <4>1, <4>2
    <3>2. \A j \in Jobs : acked'[j] <= issued'
      BY DEF WritesAreFresh
    <3> HIDE <1>8 DEF Index, Finish, IInv, TypeOK
    <3> QED
      BY <3>1, <3>2 DEF WritesAreFresh
  <2>5. RecordsAreWhole'
    BY DEF RecordsAreWhole, OneOwner, WritesAreFresh
  <2>6. IndexIsOnDisk'
    BY DEF IndexIsOnDisk, OneOwner, WritesAreFresh
  <2>7. AcknowledgedIsOnDisk'
    BY DEF AcknowledgedIsOnDisk, OneOwner, WritesAreFresh
  <2> QED
    BY <2>1, <2>2, <2>3, <2>4, <2>5, <2>6, <2>7
<1>9. ASSUME NEW p \in Procs, Refuse(p) PROVE IInv'
  <2> USE <1>9 DEF Refuse, StepsBeforeRename, Finish, Goto, diskVars, histVars, IInv, TypeOK
  <2>1. TypeOK'
    BY DEF Steps
  <2>2. OneOwner'
    BY DEF OneOwner
  <2>3. TempIsReady'
    BY DEF TempIsReady
  <2>4. WritesAreFresh'
    BY DEF WritesAreFresh, OneOwner
  <2>5. RecordsAreWhole'
    BY DEF RecordsAreWhole
  <2>6. IndexIsOnDisk'
    BY DEF IndexIsOnDisk, OneOwner
  <2>7. AcknowledgedIsOnDisk'
    BY DEF AcknowledgedIsOnDisk, OneOwner
  <2> QED
    BY <2>1, <2>2, <2>3, <2>4, <2>5, <2>6, <2>7
<1>10. ASSUME NEW p \in Procs, Close(p) \/ Crash(p) PROVE IInv'
  <2> DEFINE ps == {p}
  <2>1. /\ ps \in SUBSET Procs /\ Gone(ps)
        /\ file' = file /\ synced' = synced /\ settled' = settled /\ dark' = dark
        /\ issued' = issued /\ acked' = acked
        /\ orphans' = orphans \cup {doing[q].write : q \in {r \in ps : step[r] # "idle"}}
    BY <1>10 DEF Close, Crash, diskVars, Gone
  <2> DEFINE Kept(q) == /\ step'[q] = step[q] /\ state'[q] = state[q] /\ doing'[q] = doing[q]
                        /\ index'[q] = index[q] /\ whole'[q] = whole[q] /\ flushed'[q] = flushed[q]
  <2>2. /\ step'[p] = "idle" /\ state'[p] = "off"
        /\ \A q \in Procs : q # p => Kept(q)
        /\ OneOwner'
    BY <2>1, GoneKeeps
  <2>3. TypeOK'
    BY <2>1, GoneKeeps DEF IInv, TypeOK
  <2> HIDE DEF ps
  <2>4. TempIsReady' /\ RecordsAreWhole'
    BY <2>1, <2>2 DEF IInv, TempIsReady, RecordsAreWhole
  <2>5. WritesAreFresh'
    <3>1. \A q \in Procs : step'[q] # "idle" => q # p /\ Kept(q)
      BY <2>2
    <3> QED
      BY <2>1, <3>1 DEF IInv, WritesAreFresh
  <2>6. IndexIsOnDisk'
    <3>1. \A q \in Procs : state'[q] = "up" => q # p /\ Kept(q)
      BY <2>2
    <3> QED
      BY <2>1, <3>1 DEF IInv, IndexIsOnDisk
  <2>7. AcknowledgedIsOnDisk'
    <3> SUFFICES ASSUME ~dark, NEW j \in Jobs
                 PROVE  \/ file[j] = acked[j]
                        \/ file[j] > acked[j] /\ file[j] \in orphans'
                        \/ \E q \in Procs : step'[q] = "index" /\ doing'[q] = [job |-> j, write |-> file[j]]
      BY <2>1 DEF AcknowledgedIsOnDisk
    <3>1. CASE file[j] = acked[j] \/ (file[j] > acked[j] /\ file[j] \in orphans)
      BY <2>1, <3>1
    <3>2. CASE \E q \in Procs : step[q] = "index" /\ doing[q] = [job |-> j, write |-> file[j]]
      <4>1. PICK q \in Procs : step[q] = "index" /\ doing[q] = [job |-> j, write |-> file[j]]
        BY <3>2
      <4>2. file[j] > acked[j]
        BY <4>1 DEF IInv, WritesAreFresh, TypeOK
      <4>3. q = p => file[j] \in orphans'
        BY <2>1, <4>1 DEF ps
      <4>4. q # p => step'[q] = "index" /\ doing'[q] = doing[q]
        BY <2>2, <4>1
      <4> QED
        BY <4>1, <4>2, <4>3, <4>4
    <3> QED
      BY <3>1, <3>2 DEF IInv, AcknowledgedIsOnDisk
  <2> QED
    BY <2>2, <2>3, <2>4, <2>5, <2>6, <2>7 DEF IInv
<1>11. ASSUME PowerLoss PROVE IInv'
  <2>1. /\ Procs \in SUBSET Procs /\ Gone(Procs)
        /\ file' = settled /\ settled' = settled /\ synced' = [j \in Jobs |-> TRUE]
        /\ dark' = TRUE /\ issued' = issued /\ acked' = acked
    BY <1>11 DEF PowerLoss, Gone
  <2>2. OneOwner' /\ \A q \in Procs : step'[q] = "idle" /\ state'[q] = "off"
    BY <2>1, GoneKeeps
  <2>3. TypeOK'
    <3>1. synced' \in [Jobs -> BOOLEAN] /\ dark' \in BOOLEAN
      BY <2>1
    <3> QED
      BY <2>1, <3>1, GoneKeeps DEF IInv, TypeOK
  <2>4. TempIsReady' /\ RecordsAreWhole'
    BY <2>1, <2>2 DEF IInv, TempIsReady, RecordsAreWhole
  <2>5. WritesAreFresh' /\ IndexIsOnDisk' /\ AcknowledgedIsOnDisk'
    BY <2>1, <2>2 DEF IInv, WritesAreFresh, IndexIsOnDisk, AcknowledgedIsOnDisk
  <2> QED
    BY <2>2, <2>3, <2>4, <2>5 DEF IInv
<1>12. ASSUME NEW j \in Jobs, Settle(j) PROVE IInv'
  <2> USE <1>12 DEF Settle, memVars, histVars, IInv, TypeOK
  <2>1. TypeOK'
    BY DEF Steps, TempIsReady
  <2>2. OneOwner'
    BY DEF OneOwner
  <2>3. TempIsReady'
    BY DEF TempIsReady
  <2>4. WritesAreFresh'
    BY DEF WritesAreFresh, OneOwner
  <2>5. RecordsAreWhole'
    BY DEF RecordsAreWhole, TempIsReady
  <2>6. IndexIsOnDisk'
    BY DEF IndexIsOnDisk, OneOwner
  <2>7. AcknowledgedIsOnDisk'
    BY DEF AcknowledgedIsOnDisk, OneOwner
  <2> QED
    BY <2>1, <2>2, <2>3, <2>4, <2>5, <2>6, <2>7
<1>13. CASE UNCHANGED vars
  BY <1>13 DEF vars, memVars, diskVars, histVars, IInv, TypeOK, OneOwner, TempIsReady,
       WritesAreFresh, RecordsAreWhole, IndexIsOnDisk, AcknowledgedIsOnDisk
<1> QED
  BY <1>1, <1>2, <1>3, <1>4, <1>5, <1>6, <1>7, <1>8, <1>9, <1>10, <1>11, <1>12, <1>13
  DEF Next, WriteStep

\* Every reachable state satisfies the inductive invariant.
THEOREM Invariant == Spec => []IInv
<1> QED
  BY InitIInv, StepIInv, PTL DEF Spec

\* The variables of the store have the types of TypeOK.
THEOREM TypeCorrect == Spec => []TypeOK
<1>1. IInv => TypeOK
  BY DEF IInv
<1> QED
  BY <1>1, Invariant, PTL

\* No crash and no loss of power leaves half a record (writeJob).
THEOREM RecordsStayWhole == Spec => []RecordsAreWhole
<1>1. IInv => RecordsAreWhole
  BY DEF IInv
<1> QED
  BY <1>1, Invariant, PTL

\* A server's index is what a start would load (Create, Update, New, the lock).
THEOREM IndexFollowsDisk == Spec => []IndexIsOnDisk
<1>1. IInv => IndexIsOnDisk
  BY DEF IInv
<1> QED
  BY <1>1, Invariant, PTL

\* Until the power is lost, an acknowledged write is on disk and a refused one
\* is not (Create, Update).
THEOREM AcknowledgedStaysOnDisk == Spec => []AcknowledgedIsOnDisk
<1>1. IInv => AcknowledgedIsOnDisk
  BY DEF IInv
<1> QED
  BY <1>1, Invariant, PTL
=============================================================================

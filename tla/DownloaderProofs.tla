-------------------------- MODULE DownloaderProofs --------------------------
(***************************************************************************)
(* Proofs about Downloader, for every set of tasks and contracts and every *)
(* batch size, concurrency and number of restarts.                         *)
(*                                                                         *)
(* The inductive invariant ties three places together: the checkpoint on   *)
(* disk equals the shared memory while the process lives; a task that is   *)
(* done has no coroutine; and contract_errors of a working task bounds the *)
(* contracts it has settled without leaving a file.                        *)
(***************************************************************************)
EXTENDS Downloader, FiniteSetTheorems, TLAPS

\* Contracts the current attempt has settled without a written file.
Missed(t) == Lacking(t) \ (todo[t] \union batch[t])

SavedInv == alive => disk = mem
IdleInv ==
  \A t \in Task :
    /\ pc[t] # "fetching" => todo[t] = {} /\ batch[t] = {}
    /\ ~alive => pc[t] = "idle"
    /\ disk[t] = "done" => pc[t] = "idle"
MissedInv == \A t \in Task : pc[t] = "fetching" => Cardinality(Missed(t)) <= errs[t]
CompletedInv == \A t \in completed : disk[t] = "done"

IInv == TypeOK /\ SavedInv /\ IdleInv /\ MissedInv /\ CompletedInv /\ DoneHasHalf

-----------------------------------------------------------------------------
(* Sets of contracts are finite, so their sizes are numbers. *)
LEMMA ContractSets ==
  ASSUME NEW S, S \subseteq Contract
  PROVE  IsFiniteSet(S) /\ Cardinality(S) \in Nat
BY FS_Subset, FS_CardinalityType, TasksAssumption

(* A smaller set of contracts is not larger in number. *)
LEMMA FewerContracts ==
  ASSUME NEW T, T \subseteq Contract, NEW S, S \subseteq T
  PROVE  Cardinality(S) <= Cardinality(T)
BY FS_Subset, FS_CardinalityType, TasksAssumption, ContractSets

(* One more contract adds at most one to the number. *)
LEMMA OneMoreContract ==
  ASSUME NEW S, S \subseteq Contract, NEW c \in Contract
  PROVE  Cardinality(S \union {c}) <= Cardinality(S) + 1
BY FS_AddElement, ContractSets, FS_CardinalityType

(* The contracts a task lacks are contracts. *)
LEMMA LackingType ==
  ASSUME NEW t \in Task
  PROVE  Lacking(t) \subseteq Contract /\ Missed(t) \subseteq Contract
BY TasksAssumption DEF Lacking, Missed

-----------------------------------------------------------------------------
LEMMA InitIInv == Init => IInv
<1> SUFFICES ASSUME Init PROVE IInv
  OBVIOUS
<1>1. TypeOK
  BY TasksAssumption DEF Init, TypeOK, Status, FileState
<1>2. SavedInv /\ IdleInv /\ MissedInv /\ CompletedInv /\ DoneHasHalf
  BY DEF Init, SavedInv, IdleInv, MissedInv, CompletedInv, DoneHasHalf
<1> QED BY <1>1, <1>2 DEF IInv

LEMMA NextType == TypeOK /\ [Next]_vars => TypeOK'
<1> SUFFICES ASSUME TypeOK, [Next]_vars PROVE TypeOK'
  OBVIOUS
<1> USE DEF TypeOK, Status, FileState
<1>1. ASSUME NEW S \in SUBSET Task, NEW compatible \in BOOLEAN, Start(S, compatible)
      PROVE  TypeOK'
  BY <1>1, LimitsAssumption DEF Start, Loaded, InitializeTasks, PendingTasks
<1>2. ASSUME NEW t \in Task, Begin(t) \/ ListFails(t) \/ Complete(t)
      PROVE  TypeOK'
  <2>1. CASE Begin(t)
    <3>1. mem' \in [Task -> Status] /\ disk' = mem'
      BY <2>1 DEF Begin
    <3> QED BY <2>1, <3>1 DEF Begin
  <2>2. CASE ListFails(t)
    <3>1. mem' \in [Task -> Status] /\ disk' = mem'
      BY <2>2 DEF ListFails
    <3> QED BY <2>2, <3>1 DEF ListFails
  <2>3. CASE Complete(t)
    <3>1. Verdict(t) \in {"failed", "done"}
      BY DEF Verdict
    <3> QED BY <2>3, <3>1 DEF Complete
  <2> QED BY <1>2, <2>1, <2>2, <2>3
<1>3. ASSUME NEW t \in Task, Listed(t) \/ NextBatch(t)
      PROVE  TypeOK'
  <2>1. CASE Listed(t)
    BY <2>1, TasksAssumption DEF Listed
  <2>2. CASE NextBatch(t)
    BY <2>2 DEF NextBatch
  <2> QED BY <1>3, <2>1, <2>2
<1>4. ASSUME NEW t \in Task, NEW c \in Contract, Download(t, c) \/ DownloadFails(t, c)
      PROVE  TypeOK'
  <2>1. file' \in [Task -> [Contract -> FileState]]
    <3>1. CASE UNCHANGED file
      BY <3>1
    <3>2. ASSUME NEW f \in FileState, file' = [file EXCEPT ![t][c] = f]
          PROVE  file' \in [Task -> [Contract -> FileState]]
      BY <3>2
    <3> QED BY <1>4, <3>1, <3>2 DEF Download, DownloadFails
  <2>2. /\ batch' = [batch EXCEPT ![t] = @ \ {c}]
        /\ errs' \in [Task -> Nat]
        /\ UNCHANGED <<disk, alive, mem, pc, todo, completed, starts>>
    <3>1. CASE Download(t, c)
      BY <3>1 DEF Download
    <3>2. CASE DownloadFails(t, c)
      BY <3>2 DEF DownloadFails
    <3> QED BY <1>4, <3>1, <3>2
  <2>3. \A u \in Task : batch'[u] \subseteq batch[u] /\ todo'[u] = todo[u]
    BY <2>2
  <2> QED BY <2>1, <2>2, <2>3
<1>5. ASSUME Finish \/ Crash
      PROVE  TypeOK'
  <2>1. file' \in [Task -> [Contract -> FileState]]
    <3>1. CASE UNCHANGED file
      BY <3>1
    <3>2. ASSUME NEW t \in Task, NEW c \in batch[t], file' = [file EXCEPT ![t][c] = "partial"]
          PROVE  file' \in [Task -> [Contract -> FileState]]
      BY <3>2
    <3> QED BY <1>5, <3>1, <3>2 DEF Finish, Crash
  <2>2. Exit
    BY <1>5 DEF Finish, Crash
  <2> QED BY <2>1, <2>2, TasksAssumption DEF Exit
<1>6. CASE UNCHANGED vars
  BY <1>6 DEF vars
<1> QED BY <1>1, <1>2, <1>3, <1>4, <1>5, <1>6 DEF Next, Work

(* Type correctness, for every instance. *)
THEOREM TypeCorrect == Spec => []TypeOK
<1>1. Init => TypeOK
  BY InitIInv DEF IInv
<1> QED BY <1>1, NextType, PTL DEF Spec

-----------------------------------------------------------------------------
(* A step that leaves the files, the checkpoint and the finished set alone and moves no
   task out of its place keeps what is known of the done tasks. *)
LEMMA DoneStable ==
  ASSUME DoneHasHalf, NEW t \in Task, disk[t] = "done", file'[t] = file[t]
  PROVE  Cardinality(Lacking(t)') <= Cardinality(ContractsOf[t]) \div 2
BY DEF DoneHasHalf, Lacking

LEMMA StartIInv ==
  ASSUME IInv, NEW S \in SUBSET Task, NEW compatible \in BOOLEAN, Start(S, compatible)
  PROVE  SavedInv' /\ IdleInv' /\ MissedInv' /\ CompletedInv' /\ DoneHasHalf'
<1> USE DEF IInv, TypeOK
<1>1. /\ alive' /\ mem' = disk' /\ ~alive
      /\ UNCHANGED <<file, todo, batch, errs>>
      /\ \A t \in Task : pc'[t] \in {"idle", "waiting"} /\ (disk'[t] = "done" => pc'[t] = "idle")
  BY DEF Start, Loaded, InitializeTasks, PendingTasks
<1>2. \A t \in Task : disk'[t] = "done" => disk[t] = "done"
  BY DEF Start, Loaded, InitializeTasks
<1>3. \A t \in completed' : disk'[t] = "done"
  BY DEF Start, Loaded, InitializeTasks, CompletedInv
<1>4. IdleInv'
  BY <1>1 DEF IdleInv
<1>5. DoneHasHalf'
  BY <1>1, <1>2, DoneStable DEF DoneHasHalf
<1> QED BY <1>1, <1>3, <1>4, <1>5 DEF SavedInv, MissedInv, CompletedInv

(* The three steps that write a verdict or a mark and save it. *)
LEMMA BeginIInv ==
  ASSUME IInv, NEW t \in Task, Begin(t) \/ ListFails(t)
  PROVE  SavedInv' /\ IdleInv' /\ MissedInv' /\ CompletedInv' /\ DoneHasHalf'
<1> USE DEF IInv, TypeOK
<1>1. /\ alive /\ alive' /\ disk' = mem'
      /\ UNCHANGED <<file, todo, batch, errs, completed>>
      /\ pc[t] \in {"waiting", "listing"}
      /\ pc'[t] \in {"listing", "idle"}
      /\ \A u \in Task \ {t} : pc'[u] = pc[u] /\ mem'[u] = mem[u]
      /\ mem'[t] \in {"in_progress", "failed"}
  <2>1. CASE Begin(t)
    BY <2>1 DEF Begin
  <2>2. CASE ListFails(t)
    BY <2>2 DEF ListFails
  <2> QED BY <2>1, <2>2
<1>2. disk[t] # "done"
  BY <1>1 DEF IdleInv
<1>3. \A u \in Task : disk'[u] = "done" => u # t /\ disk[u] = "done"
  BY <1>1 DEF SavedInv
<1>4. CompletedInv'
  BY <1>1, <1>2 DEF CompletedInv, SavedInv
<1>5. IdleInv'
  BY <1>1, <1>3 DEF IdleInv
<1>6. MissedInv'
  BY <1>1 DEF MissedInv, Missed, Lacking
<1>7. DoneHasHalf'
  BY <1>1, <1>3, DoneStable DEF DoneHasHalf
<1> QED BY <1>1, <1>4, <1>5, <1>6, <1>7 DEF SavedInv

LEMMA CompleteIInv ==
  ASSUME IInv, NEW t \in Task, Complete(t)
  PROVE  SavedInv' /\ IdleInv' /\ MissedInv' /\ CompletedInv' /\ DoneHasHalf'
<1> USE DEF IInv, TypeOK
<1>1. /\ alive /\ alive' /\ disk' = mem' /\ disk = mem
      /\ UNCHANGED <<file, todo, batch, errs>>
      /\ pc[t] = "fetching" /\ pc'[t] = "idle"
      /\ todo[t] = {} /\ batch[t] = {}
      /\ \A u \in Task \ {t} : pc'[u] = pc[u] /\ mem'[u] = mem[u]
      /\ mem'[t] = Verdict(t)
      /\ completed' = IF Verdict(t) = "done" THEN completed \union {t} ELSE completed
  BY DEF Complete, SavedInv
<1>2. disk[t] # "done"
  BY <1>1 DEF IdleInv
<1>3. ASSUME Verdict(t) = "done"
      PROVE  Cardinality(Lacking(t)) <= Cardinality(ContractsOf[t]) \div 2
  <2>1. CASE ContractsOf[t] = {}
    <3>1. Lacking(t) = {} /\ Cardinality(ContractsOf[t]) = 0
      BY <2>1, FS_EmptySet DEF Lacking
    <3> QED BY <3>1, FS_EmptySet
  <2>2. CASE ContractsOf[t] # {}
    <3>1. ~(errs[t] > Cardinality(ContractsOf[t]) \div 2)
      BY <1>3, <2>2 DEF Verdict
    <3>2. Missed(t) = Lacking(t)
      BY <1>1 DEF Missed
    <3>3. Cardinality(Lacking(t)) <= errs[t]
      BY <1>1, <3>2 DEF MissedInv
    <3>4. Cardinality(Lacking(t)) \in Nat /\ Cardinality(ContractsOf[t]) \in Nat
      BY ContractSets, LackingType, TasksAssumption
    <3> QED BY <3>1, <3>3, <3>4
  <2> QED BY <2>1, <2>2
<1>4. CompletedInv'
  BY <1>1, <1>2 DEF CompletedInv
<1>5. IdleInv'
  BY <1>1 DEF IdleInv
<1>6. MissedInv'
  BY <1>1 DEF MissedInv, Missed, Lacking
<1>7. DoneHasHalf'
  <2>1. SUFFICES ASSUME NEW u \in Task, disk'[u] = "done"
                 PROVE  Cardinality(Lacking(u)') <= Cardinality(ContractsOf[u]) \div 2
    BY DEF DoneHasHalf
  <2>2. CASE u = t
    BY <1>1, <1>3, <2>1, <2>2 DEF Lacking
  <2>3. CASE u # t
    BY <1>1, <2>1, <2>3, DoneStable
  <2> QED BY <2>2, <2>3
<1> QED BY <1>1, <1>4, <1>5, <1>6, <1>7 DEF SavedInv

(* Listing and taking a batch move contracts between todo and batch only. *)
LEMMA BatchIInv ==
  ASSUME IInv, NEW t \in Task, Listed(t) \/ NextBatch(t)
  PROVE  SavedInv' /\ IdleInv' /\ MissedInv' /\ CompletedInv' /\ DoneHasHalf'
<1> USE DEF IInv, TypeOK
<1>1. /\ UNCHANGED <<disk, file, alive, mem, completed>>
      /\ alive /\ pc'[t] = "fetching" /\ pc[t] # "idle"
      /\ \A u \in Task \ {t} : /\ pc'[u] = pc[u] /\ todo'[u] = todo[u]
                               /\ batch'[u] = batch[u] /\ errs'[u] = errs[u]
  <2>1. CASE Listed(t)
    BY <2>1 DEF Listed
  <2>2. CASE NextBatch(t)
    BY <2>2 DEF NextBatch
  <2> QED BY <2>1, <2>2
<1>2. IdleInv'
  BY <1>1 DEF IdleInv
<1>3. DoneHasHalf' /\ CompletedInv' /\ SavedInv'
  BY <1>1 DEF DoneHasHalf, CompletedInv, SavedInv, Lacking
<1>4. Cardinality(Missed(t)') <= errs'[t]
  <2>1. CASE Listed(t)
    <3>1. Missed(t)' = {} /\ errs'[t] = 0
      BY <2>1 DEF Listed, Missed, Lacking
    <3> QED BY <3>1, FS_EmptySet
  <2>2. CASE NextBatch(t)
    <3>1. Missed(t)' = Missed(t) /\ errs' = errs /\ pc[t] = "fetching"
      BY <2>2 DEF NextBatch, Missed, Lacking
    <3> QED BY <3>1 DEF MissedInv
  <2> QED BY <2>1, <2>2
<1>5. MissedInv'
  <2>1. ASSUME NEW u \in Task, u # t, pc'[u] = "fetching"
        PROVE  Cardinality(Missed(u)') <= errs'[u]
    BY <1>1, <2>1 DEF MissedInv, Missed, Lacking
  <2> QED BY <1>4, <2>1 DEF MissedInv
<1> QED BY <1>2, <1>3, <1>5

(* A contract leaves the batch with a file, or without one and counted. *)
LEMMA DownloadIInv ==
  ASSUME IInv, NEW t \in Task, NEW c \in Contract, Download(t, c) \/ DownloadFails(t, c)
  PROVE  SavedInv' /\ IdleInv' /\ MissedInv' /\ CompletedInv' /\ DoneHasHalf'
<1> USE DEF IInv, TypeOK
<1>1. /\ UNCHANGED <<disk, alive, mem, pc, todo, completed>>
      /\ alive /\ pc[t] = "fetching" /\ c \in batch[t]
      /\ batch' = [batch EXCEPT ![t] = @ \ {c}]
      /\ \A u \in Task \ {t} : file'[u] = file[u] /\ errs'[u] = errs[u]
      /\ \A d \in Contract \ {c} : file'[t][d] = file[t][d]
  <2>1. CASE Download(t, c)
    BY <2>1 DEF Download, InFlight
  <2>2. CASE DownloadFails(t, c)
    BY <2>2 DEF DownloadFails, InFlight
  <2> QED BY <2>1, <2>2
<1>2. disk[t] # "done"
  BY <1>1 DEF IdleInv
<1>3. IdleInv'
  BY <1>1 DEF IdleInv
<1>4. DoneHasHalf'
  BY <1>1, <1>2, DoneStable DEF DoneHasHalf
<1>5. Cardinality(Missed(t)') <= errs'[t]
  <2>1. Cardinality(Missed(t)) <= errs[t]
    BY <1>1 DEF MissedInv
  <2>2. CASE Download(t, c)
    <3>1. file'[t][c] \notin {"none", "partial"} /\ errs' = errs
      BY <2>2 DEF Download, IsCompleteFile
    <3>2. Missed(t)' \subseteq Missed(t)
      BY <1>1, <3>1, TasksAssumption DEF Missed, Lacking
    <3>3. Cardinality(Missed(t)') <= Cardinality(Missed(t))
      BY <3>2, FewerContracts, LackingType
    <3>4. Cardinality(Missed(t)') \in Nat /\ Cardinality(Missed(t)) \in Nat
      BY <3>2, ContractSets, LackingType
    <3> QED BY <2>1, <3>1, <3>3, <3>4
  <2>3. CASE DownloadFails(t, c)
    <3>1. errs'[t] = errs[t] + 1
      BY <2>3 DEF DownloadFails
    <3>2. Missed(t)' \subseteq Missed(t) \union {c}
      BY <1>1, TasksAssumption DEF Missed, Lacking
    <3>3. Cardinality(Missed(t)') <= Cardinality(Missed(t) \union {c})
      BY <3>2, FewerContracts, LackingType
    <3>4. Cardinality(Missed(t) \union {c}) <= Cardinality(Missed(t)) + 1
      BY OneMoreContract, LackingType
    <3>5. /\ Cardinality(Missed(t)') \in Nat
          /\ Cardinality(Missed(t)) \in Nat
          /\ Cardinality(Missed(t) \union {c}) \in Nat
      BY <3>2, ContractSets, LackingType
    <3> QED BY <2>1, <3>1, <3>3, <3>4, <3>5
  <2> QED BY <2>2, <2>3
<1>6. MissedInv'
  <2>1. ASSUME NEW u \in Task, u # t, pc'[u] = "fetching"
        PROVE  Cardinality(Missed(u)') <= errs'[u]
    BY <1>1, <2>1 DEF MissedInv, Missed, Lacking
  <2> QED BY <1>5, <2>1 DEF MissedInv
<1> QED BY <1>1, <1>3, <1>4, <1>6 DEF SavedInv, CompletedInv

(* The process ends: memory goes, and a stub can only be left where no complete file
   was and where the task was being worked on. *)
LEMMA ExitIInv ==
  ASSUME IInv, Finish \/ Crash
  PROVE  SavedInv' /\ IdleInv' /\ MissedInv' /\ CompletedInv' /\ DoneHasHalf'
<1> USE DEF IInv, TypeOK
<1>1. Exit
  BY DEF Finish, Crash
<1>2. \A t \in Task : pc[t] = "idle" => file'[t] = file[t]
  <2>1. CASE UNCHANGED file
    BY <2>1
  <2>2. ASSUME NEW t \in Task, NEW c \in batch[t], file' = [file EXCEPT ![t][c] = "partial"]
        PROVE  \A u \in Task : pc[u] = "idle" => file'[u] = file[u]
    BY <2>2 DEF IdleInv
  <2> QED BY <2>1, <2>2 DEF Finish, Crash
<1>3. SavedInv' /\ IdleInv' /\ MissedInv' /\ CompletedInv'
  BY <1>1 DEF Exit, SavedInv, IdleInv, MissedInv, CompletedInv
<1>4. DoneHasHalf'
  BY <1>1, <1>2, DoneStable DEF Exit, IdleInv, DoneHasHalf
<1> QED BY <1>3, <1>4

LEMMA NextIInv == IInv /\ [Next]_vars => IInv'
<1> SUFFICES ASSUME IInv, [Next]_vars PROVE IInv'
  OBVIOUS
<1>1. TypeOK'
  BY NextType DEF IInv
<1>2. SavedInv' /\ IdleInv' /\ MissedInv' /\ CompletedInv' /\ DoneHasHalf'
  <2>1. CASE UNCHANGED vars
    BY <2>1 DEF vars, IInv, SavedInv, IdleInv, MissedInv, Missed, CompletedInv,
                DoneHasHalf, Lacking
  <2>2. CASE Next
    BY <2>2, StartIInv, BeginIInv, CompleteIInv, BatchIInv, DownloadIInv, ExitIInv
       DEF Next, Work
  <2> QED BY <2>1, <2>2
<1> QED BY <1>1, <1>2 DEF IInv

LEMMA InductiveInvariant == Spec => []IInv
BY InitIInv, NextIInv, PTL DEF Spec

-----------------------------------------------------------------------------
(* A task the checkpoint calls done lacks at most half of its contracts. *)
THEOREM DoneHasHalfHolds == Spec => []DoneHasHalf
<1>1. IInv => DoneHasHalf
  BY DEF IInv
<1> QED BY <1>1, InductiveInvariant, PTL

(* What a worker finished stays finished through crashes, saves and resumes. *)
THEOREM CompletedStaysDoneHolds == Spec => []CompletedStaysDone
<1>1. IInv => CompletedStaysDone
  BY DEF IInv, TypeOK, CompletedInv, IdleInv, CompletedStaysDone
<1> QED BY <1>1, InductiveInvariant, PTL

(* No step of any run writes over a complete parquet file. *)
THEOREM CompleteFilesKeptHolds == Spec => CompleteFilesKept
<1>1. IInv /\ [Next]_vars =>
        [\A t \in Task, c \in Contract : IsCompleteFile(t, c) => file'[t][c] = "full"]_vars
  <2> SUFFICES ASSUME IInv, Next, NEW t \in Task, NEW c \in Contract, IsCompleteFile(t, c)
               PROVE  file'[t][c] = "full"
    OBVIOUS
  <2>1. CASE UNCHANGED file
    BY <2>1 DEF IsCompleteFile
  <2>2. ASSUME NEW u \in Task, NEW d \in Contract, ~IsCompleteFile(u, d), NEW f,
               file' = [file EXCEPT ![u][d] = f]
        PROVE  file'[t][c] = "full"
    BY <2>2 DEF IsCompleteFile, IInv, TypeOK
  <2>3. ASSUME NEW S \in SUBSET Task, NEW compatible \in BOOLEAN, Start(S, compatible)
        PROVE  UNCHANGED file
    BY <2>3 DEF Start
  <2>4. ASSUME NEW u \in Task,
               Begin(u) \/ ListFails(u) \/ Listed(u) \/ NextBatch(u) \/ Complete(u)
        PROVE  UNCHANGED file
    BY <2>4 DEF Begin, ListFails, Listed, NextBatch, Complete
  <2>5. ASSUME NEW u \in Task, NEW d \in Contract, Download(u, d) \/ DownloadFails(u, d)
        PROVE  file'[t][c] = "full"
    BY <2>1, <2>2, <2>5 DEF Download, DownloadFails
  <2>6. CASE Finish
    BY <2>1, <2>6 DEF Finish
  <2>7. CASE Crash
    <3>1. ASSUME NEW u \in Task, NEW d \in batch[u], ~IsCompleteFile(u, d),
                 file' = [file EXCEPT ![u][d] = "partial"]
          PROVE  file'[t][c] = "full"
      <4>1. d \in Contract
        BY <3>1 DEF IInv, TypeOK
      <4> QED BY <2>2, <3>1, <4>1
    <3> QED BY <2>1, <2>7, <3>1 DEF Crash
  <2> QED BY <2>1, <2>3, <2>4, <2>5, <2>6, <2>7 DEF Next, Work
<1> QED BY <1>1, InductiveInvariant, PTL DEF Spec, CompleteFilesKept
=============================================================================

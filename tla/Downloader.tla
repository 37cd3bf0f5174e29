----------------------------- MODULE Downloader -----------------------------
(***************************************************************************)
(* The resumable historical download: HistoricalOrchestrator.run and       *)
(* run_one_task (historical/orchestrator.py), the checkpoint file they     *)
(* write (historical/state.py), and the per-contract idempotent parquet    *)
(* downloader (sources/thetadata/historical.py), driven by                 *)
(* scripts/download_tier2.py.                                              *)
(*                                                                         *)
(* A task is a (ticker, year, month).  A run of the script loads the       *)
(* checkpoint, registers its tasks and starts one coroutine per task that  *)
(* is not done, at most Concurrency of them past the semaphore.  A task    *)
(* lists its contracts and downloads them in batches.  The process may     *)
(* die at any await, or inside a parquet write.                            *)
(***************************************************************************)
EXTENDS Integers, FiniteSets

CONSTANTS
  Task,         \* the (ticker, year, month) tuples of the universe
  Contract,     \* option contracts
  ContractsOf,  \* what the contract lister returns for a task
  BatchSize,    \* contracts of one task in flight at a time (8 in the code)
  Concurrency,  \* tasks in flight at a time
  MaxStarts     \* bound on the number of process starts

ASSUME TasksAssumption == IsFiniteSet(Contract) /\ ContractsOf \in [Task -> SUBSET Contract]
ASSUME LimitsAssumption == {BatchSize, Concurrency, MaxStarts} \subseteq Nat \ {0}

VARIABLES
  disk,      \* the state file: task |-> status, "absent" for a task not in it
  file,      \* task |-> contract |-> what is at that parquet path
  alive,     \* the script is running
  mem,       \* the DownloadState object all coroutines share
  pc,        \* task |-> where its coroutine is
  todo,      \* task |-> contracts no batch has taken yet
  batch,     \* task |-> contracts of the batch being gathered
  errs,      \* task |-> contract_errors
  completed, \* history: tasks a worker finished since the state was last fresh
  starts     \* number of process starts so far

vars == <<disk, file, alive, mem, pc, todo, batch, errs, completed, starts>>
workers == <<pc, todo, batch, errs>>

Status == {"absent", "pending", "in_progress", "done", "failed"}
\* "partial" is a file without a footer: _is_complete_file answers False for it.
FileState == {"none", "partial", "empty", "full"}

TypeOK ==
  /\ disk \in [Task -> Status]
  /\ file \in [Task -> [Contract -> FileState]]
  /\ alive \in BOOLEAN
  /\ mem \in [Task -> Status]
  /\ pc \in [Task -> {"idle", "waiting", "listing", "fetching"}]
  /\ todo \in [Task -> SUBSET Contract]
  /\ batch \in [Task -> SUBSET Contract]
  /\ \A t \in Task : todo[t] \union batch[t] \subseteq ContractsOf[t]
  /\ errs \in [Task -> Nat]
  /\ completed \subseteq Task
  /\ starts \in Nat

Init ==
  /\ disk = [t \in Task |-> "absent"]
  /\ file = [t \in Task |-> [c \in Contract |-> "none"]]
  /\ alive = FALSE
  /\ mem = [t \in Task |-> "absent"]
  /\ pc = [t \in Task |-> "idle"]
  /\ todo = [t \in Task |-> {}]
  /\ batch = [t \in Task |-> {}]
  /\ errs = [t \in Task |-> 0]
  /\ completed = {}
  /\ starts = 0

-----------------------------------------------------------------------------
\* initialize_tasks: only tasks without an entry become pending.
InitializeTasks(state, S) ==
  [t \in Task |-> IF t \in S /\ state[t] = "absent" THEN "pending" ELSE state[t]]

\* pending_tasks: everything registered that is not done.
PendingTasks(state) == {t \in Task : state[t] \notin {"absent", "done"}}

\* init_or_load_state: a state file of another tier or date range is set aside.
Loaded(compatible) == IF compatible THEN disk ELSE [t \in Task |-> "absent"]

\* One start of the script: init_or_load_state, initialize_tasks for the tasks --max-tasks
\* lets through, save_state, then run() makes a coroutine per pending task.
Start(S, compatible) ==
  /\ ~alive
  /\ starts < MaxStarts
  /\ LET state == InitializeTasks(Loaded(compatible), S)
     IN  /\ mem' = state
         /\ disk' = state
         /\ pc' = [t \in Task |-> IF t \in PendingTasks(state) THEN "waiting" ELSE "idle"]
  /\ completed' = IF compatible THEN completed ELSE {}
  /\ alive' = TRUE
  /\ starts' = starts + 1
  /\ UNCHANGED <<file, todo, batch, errs>>

\* Mutant: the semaphore is never released.
ActiveForEver == {t \in Task : pc[t] # "waiting"}

\* Tasks that hold the semaphore.
Active == {t \in Task : pc[t] \in {"listing", "fetching"}}

\* A coroutine passes the semaphore: mark_in_progress and save_state.
Begin(t) ==
  /\ alive
  /\ pc[t] = "waiting"
  /\ Cardinality(Active) < Concurrency
  /\ mem' = [mem EXCEPT ![t] = "in_progress"]
  /\ disk' = mem'
  /\ pc' = [pc EXCEPT ![t] = "listing"]
  /\ UNCHANGED <<file, alive, todo, batch, errs, completed, starts>>

\* contracts_for_ticker raised: the outcome carries the error, mark_failed, save.
ListFails(t) ==
  /\ alive
  /\ pc[t] = "listing"
  /\ mem' = [mem EXCEPT ![t] = "failed"]
  /\ disk' = mem'
  /\ pc' = [pc EXCEPT ![t] = "idle"]
  /\ UNCHANGED <<file, alive, todo, batch, errs, completed, starts>>

\* Mutant: the listing of one month is taken for another's.
ListedAll(t) ==
  /\ alive
  /\ pc[t] = "listing"
  /\ pc' = [pc EXCEPT ![t] = "fetching"]
  /\ todo' = [todo EXCEPT ![t] = Contract]
  /\ errs' = [errs EXCEPT ![t] = 0]
  /\ UNCHANGED <<disk, file, alive, mem, batch, completed, starts>>

\* contracts_for_ticker answered.
Listed(t) ==
  /\ alive
  /\ pc[t] = "listing"
  /\ pc' = [pc EXCEPT ![t] = "fetching"]
  /\ todo' = [todo EXCEPT ![t] = ContractsOf[t]]
  /\ errs' = [errs EXCEPT ![t] = 0]
  /\ UNCHANGED <<disk, file, alive, mem, batch, completed, starts>>

\* The gather of the previous batch returned: take the next one.  The order of the
\* listing is left open.
NextBatch(t) ==
  /\ alive
  /\ pc[t] = "fetching"
  /\ batch[t] = {}
  /\ \E B \in SUBSET todo[t] \ {{}} :
       /\ Cardinality(B) = BatchSize \/ (B = todo[t] /\ Cardinality(B) < BatchSize)
       /\ batch' = [batch EXCEPT ![t] = B]
       /\ todo' = [todo EXCEPT ![t] = @ \ B]
  /\ UNCHANGED <<disk, file, alive, mem, pc, errs, completed, starts>>

IsCompleteFile(t, c) == file[t][c] = "full"

InFlight(t, c) == alive /\ pc[t] = "fetching" /\ c \in batch[t]

\* Mutant: the idempotency check is forgotten.
DownloadAgain(t, c) ==
  /\ InFlight(t, c)
  /\ \E f \in {"empty", "full"} : file' = [file EXCEPT ![t][c] = f]
  /\ batch' = [batch EXCEPT ![t] = @ \ {c}]
  /\ UNCHANGED <<disk, alive, mem, pc, todo, errs, completed, starts>>

\* download_request for one contract and month: a complete file is skipped; otherwise
\* every day is fetched and the file written, with rows or without.  No other
\* coroutine touches this contract's file of this month.
Download(t, c) ==
  /\ InFlight(t, c)
  /\ \/ IsCompleteFile(t, c) /\ UNCHANGED file
     \/ /\ ~IsCompleteFile(t, c)
        /\ \E f \in {"empty", "full"} : file' = [file EXCEPT ![t][c] = f]
  /\ batch' = [batch EXCEPT ![t] = @ \ {c}]
  /\ UNCHANGED <<disk, alive, mem, pc, todo, errs, completed, starts>>

\* A fetch raised (no file written), or the write itself did (a stub left behind);
\* gather collects the exception.
DownloadFails(t, c) ==
  /\ InFlight(t, c)
  /\ ~IsCompleteFile(t, c)
  /\ \/ UNCHANGED file
     \/ file' = [file EXCEPT ![t][c] = "partial"]
  /\ batch' = [batch EXCEPT ![t] = @ \ {c}]
  /\ errs' = [errs EXCEPT ![t] = @ + 1]
  /\ UNCHANGED <<disk, alive, mem, pc, todo, completed, starts>>

\* Mutant: only a task without any contract downloaded fails.
VerdictTolerant(t) ==
  IF ContractsOf[t] # {} /\ errs[t] = Cardinality(ContractsOf[t]) THEN "failed" ELSE "done"

\* The task's verdict: only a majority of failed contracts fails the task.
Verdict(t) ==
  IF ContractsOf[t] # {} /\ errs[t] > Cardinality(ContractsOf[t]) \div 2
  THEN "failed" ELSE "done"

\* Mutant: the verdict is not saved.
CompleteUnsaved(t) ==
  /\ alive
  /\ pc[t] = "fetching"
  /\ todo[t] = {} /\ batch[t] = {}
  /\ mem' = [mem EXCEPT ![t] = Verdict(t)]
  /\ pc' = [pc EXCEPT ![t] = "idle"]
  /\ completed' = IF Verdict(t) = "done" THEN completed \union {t} ELSE completed
  /\ UNCHANGED <<disk, file, alive, todo, batch, errs, starts>>

\* run_one_task returned: mark_done or mark_failed, save_state, release the semaphore.
Complete(t) ==
  /\ alive
  /\ pc[t] = "fetching"
  /\ todo[t] = {} /\ batch[t] = {}
  /\ mem' = [mem EXCEPT ![t] = Verdict(t)]
  /\ disk' = mem'
  /\ pc' = [pc EXCEPT ![t] = "idle"]
  /\ completed' = IF Verdict(t) = "done" THEN completed \union {t} ELSE completed
  /\ UNCHANGED <<file, alive, todo, batch, errs, starts>>

\* The memory of the process goes; the state file and the parquet files stay.
Exit ==
  /\ alive' = FALSE
  /\ mem' = [t \in Task |-> "absent"]
  /\ pc' = [t \in Task |-> "idle"]
  /\ todo' = [t \in Task |-> {}]
  /\ batch' = [t \in Task |-> {}]
  /\ errs' = [t \in Task |-> 0]
  /\ UNCHANGED <<disk, completed, starts>>

\* gather returned every outcome: the script writes its manifest and ends.
Finish ==
  /\ alive
  /\ \A t \in Task : pc[t] = "idle"
  /\ Exit
  /\ UNCHANGED file

\* A kill, a power loss, or a save_state that raised (gather is called with
\* return_exceptions=False, so run() ends): at most one parquet write was under way.
Crash ==
  /\ alive
  /\ Exit
  /\ \/ UNCHANGED file
     \/ \E t \in Task : \E c \in batch[t] :
          ~IsCompleteFile(t, c) /\ file' = [file EXCEPT ![t][c] = "partial"]

Work(t) ==
  \/ Begin(t) \/ ListFails(t) \/ Listed(t) \/ NextBatch(t) \/ Complete(t)
  \/ \E c \in Contract : Download(t, c) \/ DownloadFails(t, c)

Next ==
  \/ \E S \in SUBSET Task \ {{}}, compatible \in BOOLEAN : Start(S, compatible)
  \/ \E t \in Task : Work(t)
  \/ Finish
  \/ Crash

Spec == Init /\ [][Next]_vars

\* Each coroutine the event loop can resume is resumed, and HTTP calls end (the
\* client has a timeout); nothing forces a start or a crash.
FairSpec == Spec /\ (\A t \in Task : WF_vars(Work(t))) /\ WF_vars(Finish)

-----------------------------------------------------------------------------
\* The contracts of a task whose file does not hold a written month.
Lacking(t) == {c \in ContractsOf[t] : file[t][c] \in {"none", "partial"}}

(* A task the checkpoint calls done lacks at most half of its contracts, however many
   crashes, stubs and failed fetches preceded it (the majority rule of run_one_task). *)
DoneHasHalf ==
  \A t \in Task :
    disk[t] = "done" => Cardinality(Lacking(t)) <= Cardinality(ContractsOf[t]) \div 2

(* What a worker finished stays finished: neither a crash, nor the checkpoint another
   coroutine saves, nor a resume puts such a task back to work (state.py's resume
   policy), until the operator starts with another tier or range. *)
CompletedStaysDone ==
  \A t \in completed : disk[t] = "done" /\ pc[t] = "idle"

(* A complete parquet file is never written again, whatever was retried, resumed or
   started afresh (the idempotency decision of thetadata/historical.py). *)
CompleteFilesKept ==
  [][\A t \in Task, c \in Contract : IsCompleteFile(t, c) => file'[t][c] = "full"]_vars

(* No coroutine waits for ever at the semaphore or in a gather: a task that was started
   is settled in the checkpoint, unless the process dies first. *)
TasksSettle ==
  \A t \in Task :
    (alive /\ pc[t] # "idle") ~> (~alive \/ (pc[t] = "idle" /\ disk[t] \in {"done", "failed"}))

(* orchestrator.py: contracts that failed without failing the task "simply lack a parquet
   on disk; the next idempotent resume pass retries them".  A resume that is to retry a
   contract puts its task back to work. *)
ResumeRetriesLacking ==
  [][\A t \in Task :
       (alive' /\ ~alive /\ disk'[t] # "absent" /\ Lacking(t) # {}) => pc'[t] = "waiting"]_vars
=============================================================================

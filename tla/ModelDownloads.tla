---------------------------- MODULE ModelDownloads ----------------------------
(***************************************************************************)
(* The model manager's downloads (services/model_manager*.py): tasks are   *)
(* created, cancelled and imported by handlers of the server's event loop, *)
(* run by a pool of worker threads, and the whole table of tasks is saved  *)
(* with every change of one.  The handlers block the loop, so that they    *)
(* exclude each other, but not the workers and not a crash between the     *)
(* two files that an import writes.  After a crash the tasks that had not  *)
(* ended are queued again, up to a limit.                                  *)
(*                                                                         *)
(* A save may fail; the change then stays in memory only, and the caller   *)
(* or worker ends with the error.  The transfer, its resumption and its    *)
(* checks are one step: the file is staged, or the task fails.             *)
(***************************************************************************)
EXTENDS Naturals, FiniteSets, FiniteSetsExt

CONSTANTS
  Downloads,       \* tasks
  MAX_WORKERS,     \* threads of the pool
  MAX_ACTIVE,      \* max_active
  REPLAY_LIMIT,    \* recovery_replay_limit
  MISHAPS          \* bound on crashes and failed saves

ASSUME DownloadsAssumption ==
  /\ IsFiniteSet(Downloads) /\ "none" \notin Downloads
  /\ MAX_WORKERS \in Nat \ {0} /\ MAX_ACTIVE \in Nat \ {0}
  /\ REPLAY_LIMIT \in Nat /\ MISHAPS \in Nat

VARIABLES
  tasks,       \* _tasks
  tasksFile,   \* the table on disk
  worker,      \* what has become of each task's future
  cancelled,   \* tasks whose cancel event is set
  staged,      \* tasks whose verified file is in the staging directory
  importing,   \* the task whose import has written its record but not the table
  installed,   \* records of each task in the installations file
  unsaved,     \* tasks one of whose changes was not saved
  incidents    \* crashes and failed saves so far

downloadVars ==
  <<tasks, tasksFile, worker, cancelled, staged, importing, installed, unsaved, incidents>>

NoTask    == [state |-> "none", cancel |-> FALSE, imported |-> FALSE]
Terminal  == {"completed", "failed", "cancelled"}
TaskState == {"none", "queued", "running"} \cup Terminal
Phase     == {"none", "pending", "picked", "downloading", "ready", "failing", "gone"}
ActiveIn(m) == {t \in Downloads : m[t].state \in {"queued", "running"}}
Busy        == {t \in Downloads : worker[t] \in {"picked", "downloading", "ready", "failing"}}

\* _persist_tasks_locked: the table as it is now is saved, or the save fails.
Saved == tasksFile' = tasks' /\ UNCHANGED <<unsaved, incidents>>
NotSaved(t) ==
  /\ incidents < MISHAPS /\ incidents' = incidents + 1
  /\ unsaved' = unsaved \cup {t}
  /\ UNCHANGED tasksFile
Turn(t, s)  == tasks' = [tasks EXCEPT ![t].state = s]
Goes(t, p)  == worker' = [worker EXCEPT ![t] = p]

\* create_download_task; a task whose save failed is nevertheless run.
CreateDownload(t) ==
  /\ importing = "none" /\ tasks[t].state = "none"
  /\ Cardinality(ActiveIn(tasks)) < MAX_ACTIVE
  /\ Turn(t, "queued") /\ Goes(t, "pending")
  /\ Saved \/ NotSaved(t)
  /\ UNCHANGED <<cancelled, staged, importing, installed>>

\* A thread takes the future: it can no longer be cancelled.
Pick(t) ==
  /\ worker[t] = "pending" /\ Cardinality(Busy) < MAX_WORKERS
  /\ Goes(t, "picked")
  /\ UNCHANGED <<tasks, tasksFile, cancelled, staged, importing, installed, unsaved, incidents>>

\* run_task: the task is running; a file that an earlier run left is removed.  If the
\* save fails, nothing is left that would end the task.
Start(t) ==
  /\ worker[t] = "picked"
  /\ Turn(t, "running")
  /\ \/ (Saved /\ Goes(t, "downloading") /\ staged' = staged \ {t})
     \/ (NotSaved(t) /\ Goes(t, "gone") /\ UNCHANGED staged)
  /\ UNCHANGED <<cancelled, importing, installed>>

\* The progress of a transfer is saved now and then, and with it the whole table.
Progress(t) ==
  /\ worker[t] = "downloading"
  /\ tasksFile' = tasks
  /\ UNCHANGED <<tasks, worker, cancelled, staged, importing, installed, unsaved, incidents>>

\* The stream came to its end before the event was set, and the digest is right.
StageFile(t) ==
  /\ worker[t] = "downloading" /\ t \notin cancelled
  /\ staged' = staged \cup {t}
  /\ Goes(t, "ready")
  /\ UNCHANGED <<tasks, tasksFile, cancelled, importing, installed, unsaved, incidents>>

\* The task is completed.  A save that fails is taken for a failed download.
Complete(t) ==
  /\ worker[t] = "ready"
  /\ Turn(t, "completed")
  /\ (Saved /\ Goes(t, "gone")) \/ (NotSaved(t) /\ Goes(t, "failing"))
  /\ UNCHANGED <<cancelled, staged, importing, installed>>

\* Mutation: the worker ends without its task.
FailSilently(t) ==
  /\ worker[t] \in {"downloading", "failing"}
  /\ Goes(t, "gone")
  /\ UNCHANGED <<tasks, tasksFile, cancelled, staged, importing, installed, unsaved, incidents>>

\* The handlers of run_task: the download failed, or was cancelled.
Fail(t) ==
  /\ worker[t] \in {"downloading", "failing"}
  /\ Turn(t, "failed") /\ Goes(t, "gone")
  /\ Saved \/ NotSaved(t)
  /\ UNCHANGED <<cancelled, staged, importing, installed>>

Stop(t) ==
  /\ worker[t] = "downloading" /\ t \in cancelled
  /\ Turn(t, "cancelled") /\ Goes(t, "gone")
  /\ Saved \/ NotSaved(t)
  /\ UNCHANGED <<cancelled, staged, importing, installed>>

\* cancel_download_task: a future that no thread has taken is cancelled with its task.
Cancel(t) ==
  /\ importing = "none" /\ t \in ActiveIn(tasks)
  /\ cancelled' = cancelled \cup {t}
  /\ LET early == worker[t] = "pending"
     IN  /\ tasks' = [tasks EXCEPT ![t].cancel = TRUE, ![t].state = IF early THEN "cancelled" ELSE @]
         /\ worker' = IF early THEN [worker EXCEPT ![t] = "gone"] ELSE worker
  /\ Saved \/ NotSaved(t)
  /\ UNCHANGED <<staged, importing, installed>>

\* Mutation: a task can be imported again.
ImportAgain(t) ==
  /\ importing = "none" /\ t \in staged /\ tasks[t].state = "completed"
  /\ installed' = [installed EXCEPT ![t] = @ + 1]
  /\ importing' = t
  /\ UNCHANGED <<tasks, tasksFile, worker, cancelled, staged, unsaved, incidents>>

\* import_downloaded_model: the file is installed and its record written ...
Import(t) ==
  /\ importing = "none" /\ t \in staged
  /\ tasks[t].state = "completed" /\ ~ tasks[t].imported
  /\ installed' = [installed EXCEPT ![t] = @ + 1]
  /\ importing' = t
  /\ UNCHANGED <<tasks, tasksFile, worker, cancelled, staged, unsaved, incidents>>

\* ... and then the task is marked.
MarkImported(t) ==
  /\ importing = t
  /\ importing' = "none"
  /\ tasks' = [tasks EXCEPT ![t].imported = TRUE]
  /\ Saved \/ NotSaved(t)
  /\ UNCHANGED <<worker, cancelled, staged, installed>>

\* Mutation: every task is taken for an incomplete one.
RecoveredAll(R) ==
  [t \in Downloads |->
     IF t \in R THEN [tasksFile[t] EXCEPT !.state = "queued", !.cancel = FALSE]
     ELSE IF tasksFile[t].state # "none" THEN [tasksFile[t] EXCEPT !.state = "failed"]
     ELSE tasksFile[t]]

\* recover_incomplete_tasks on the table that was saved: up to the limit the tasks
\* that had not ended are queued again, whether or not they were to be cancelled,
\* and the others fail.  (Which ones goes by their age.)
Recovered(R) ==
  [t \in Downloads |->
     IF t \in R THEN [tasksFile[t] EXCEPT !.state = "queued", !.cancel = FALSE]
     ELSE IF t \in ActiveIn(tasksFile) THEN [tasksFile[t] EXCEPT !.state = "failed"]
     ELSE tasksFile[t]]

DownloadsCrash ==
  /\ incidents < MISHAPS /\ incidents' = incidents + 1
  /\ LET rest  == ActiveIn(tasksFile)
         limit == IF Cardinality(rest) < REPLAY_LIMIT THEN Cardinality(rest) ELSE REPLAY_LIMIT
     IN  \E R \in kSubset(limit, rest) :
           /\ tasks' = Recovered(R) /\ tasksFile' = Recovered(R)
           /\ worker' = [t \in Downloads |-> IF t \in R THEN "pending"
                                             ELSE IF tasksFile[t].state = "none" THEN "none" ELSE "gone"]
  /\ unsaved' = unsaved \cup ({importing} \ {"none"})
  /\ importing' = "none" /\ cancelled' = {}
  /\ UNCHANGED <<staged, installed>>

DownloadsInit ==
  /\ tasks = [t \in Downloads |-> NoTask] /\ tasksFile = [t \in Downloads |-> NoTask]
  /\ worker = [t \in Downloads |-> "none"]
  /\ cancelled = {} /\ staged = {} /\ unsaved = {}
  /\ importing = "none"
  /\ installed = [t \in Downloads |-> 0]
  /\ incidents = 0

WorkerStep(t)  == Start(t) \/ Complete(t) \/ Fail(t) \/ Stop(t) \/ StageFile(t)
HandlerStep(t) == CreateDownload(t) \/ Cancel(t) \/ Import(t) \/ MarkImported(t)

DownloadsNext ==
  \/ \E t \in Downloads : Pick(t) \/ WorkerStep(t) \/ Progress(t) \/ HandlerStep(t)
  \/ DownloadsCrash

\* The pool serves its queue, and every read of a transfer has a timeout.
DownloadsFairness ==
  \A t \in Downloads : WF_downloadVars(Pick(t)) /\ WF_downloadVars(WorkerStep(t))

DownloadsSpec == DownloadsInit /\ [][DownloadsNext]_downloadVars /\ DownloadsFairness

-----------------------------------------------------------------------------
(* Properties.                                                             *)

DownloadsTypeOK ==
  /\ tasks \in [Downloads -> [state : TaskState, cancel : BOOLEAN, imported : BOOLEAN]]
  /\ tasksFile \in [Downloads -> [state : TaskState, cancel : BOOLEAN, imported : BOOLEAN]]
  /\ worker \in [Downloads -> Phase]
  /\ cancelled \subseteq Downloads /\ staged \subseteq Downloads /\ unsaved \subseteq Downloads
  /\ importing \in Downloads \cup {"none"}
  /\ installed \in [Downloads -> Nat] /\ incidents \in 0 .. MISHAPS

\* "download queue full": never are more tasks active than max_active, neither in
\* memory nor, for the next process to recover, on disk.
ActiveBounded ==
  /\ Cardinality(ActiveIn(tasks)) <= MAX_ACTIVE
  /\ Cardinality(ActiveIn(tasksFile)) <= MAX_ACTIVE

\* A task that says it is completed has its file, after crashes too.
CompletedHasFile == \A t \in Downloads : tasks[t].state = "completed" => t \in staged

\* The task that a task's worker works for is active, and an active task has a
\* worker, unless a save failed.
WorkerMatchesTask ==
  \A t \in Downloads :
    /\ worker[t] \in {"pending", "picked", "downloading", "ready"} => t \in ActiveIn(tasks)
    /\ t \in ActiveIn(tasks) => worker[t] \notin {"none", "gone"} \/ t \in unsaved

\* How a task ended is final, as long as it was saved.
TerminalIsFinal ==
  [][\A t \in Downloads : tasks[t].state \in Terminal /\ t \notin unsaved'
                            => tasks'[t].state = tasks[t].state]_downloadVars

\* "already_imported": a task is installed once, unless a save failed or a crash came
\* between its record and its mark.
InstalledOnce == \A t \in Downloads : installed[t] <= 1 \/ t \in unsaved

\* Table, workers and files agree, whatever fails and wherever the process stops.
DownloadsConsistent == ActiveBounded /\ CompletedHasFile /\ WorkerMatchesTask /\ InstalledOnce

\* Every task ends, through crashes, unless one of its saves failed.
DownloadsEnd ==
  \A t \in Downloads : t \in ActiveIn(tasks) ~> tasks[t].state \in Terminal \/ t \in unsaved
=============================================================================

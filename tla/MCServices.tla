------------------------------ MODULE MCServices ------------------------------
(* Small instances, for TLC, of services that do not interact: in a behaviour *)
(* one of them moves, and the others stay where they begin.                   *)
EXTENDS
  Approvals, ExecutionBudgets, Submission, ModelDownloads, JobEvents, ResultCallback, Failover,
  AuditLog, TLC

CONSTANTS Parts  \* which of them may move

VARIABLE part

serviceVars ==
  <<vars, budgetVars, submissionVars, downloadVars, eventVars, watchVars, failoverVars,
    auditVars, part>>

ServicesInit ==
  /\ Init /\ BudgetsInit /\ SubmissionInit /\ DownloadsInit /\ EventsInit
  /\ WatchInit /\ FailoverInit /\ AuditInit
  /\ part \in Parts /\ (part # "failover" => usable = Candidates)
  /\ (part # "audit" => backups = TOP)

ServicesNext ==
  /\ \/ part = "approvals" /\ Next
        /\ UNCHANGED <<budgetVars, submissionVars, downloadVars, eventVars,
                       watchVars, failoverVars, auditVars>>
     \/ part = "budgets" /\ BudgetsNext
        /\ UNCHANGED <<vars, submissionVars, downloadVars, eventVars,
                       watchVars, failoverVars, auditVars>>
     \/ part = "submission" /\ SubmissionNext
        /\ UNCHANGED <<vars, budgetVars, downloadVars, eventVars,
                       watchVars, failoverVars, auditVars>>
     \/ part = "downloads" /\ DownloadsNext
        /\ UNCHANGED <<vars, budgetVars, submissionVars, eventVars,
                       watchVars, failoverVars, auditVars>>
     \/ part = "events" /\ EventsNext
        /\ UNCHANGED <<vars, budgetVars, submissionVars, downloadVars,
                       watchVars, failoverVars, auditVars>>
     \/ part = "callbacks" /\ WatchNext
        /\ UNCHANGED <<vars, budgetVars, submissionVars, downloadVars,
                       eventVars, failoverVars, auditVars>>
     \/ part = "failover" /\ FailoverNext
        /\ UNCHANGED <<vars, budgetVars, submissionVars, downloadVars,
                       eventVars, watchVars, auditVars>>
     \/ part = "audit" /\ AuditNext
        /\ UNCHANGED <<vars, budgetVars, submissionVars, downloadVars,
                       eventVars, watchVars, failoverVars>>
  /\ UNCHANGED part

\* Where downloads do not move no worker has anything to do.
ServicesSpec == ServicesInit /\ [][ServicesNext]_serviceVars /\ DownloadsFairness

\* The state of each is well formed, through its faults.
ServicesTypeOK ==
  TypeOK /\ BudgetsTypeOK /\ SubmissionTypeOK /\ DownloadsTypeOK
  /\ WatchTypeOK /\ FailoverTypeOK /\ AuditTypeOK

\* The semaphores: one global, one of each source and of each tenant.
Sources == (1 :> "web"  @@ 2 :> "web" @@ 3 :> "sched" @@ 4 :> "none")
Tenants == (1 :> "a"    @@ 2 :> "b"   @@ 3 :> "a"     @@ 4 :> "b")
Caps    == [glob |-> 3, web |-> 1, sched |-> 1, a |-> 2, b |-> 1]

\* How long a failure cools a candidate, in windows of two seconds.
CoolFor == "other" :> 2
=============================================================================

-------------------------- MODULE MaintenanceJobs --------------------------
(***************************************************************************)
(* The maintenance queue of the headless server: Jobs of                   *)
(* competition/headless.py. Backups, exports and checks are accepted under *)
(* Jobs.lock, run one after the other by a single worker thread without    *)
(* that lock, and are listed for download until newer ones push them out.  *)
(*                                                                         *)
(* Jobs are numbered in the order they are accepted, which is the order of *)
(* the OrderedDict and of the executor's queue. So the listed jobs are     *)
(* forgotten + 1 .. accepted, and the queued ones taken + 1 .. accepted.   *)
(* A job id that executor.submit refused leaves neither, but the oldest    *)
(* job may have been pushed out for it.                                    *)
(***************************************************************************)
EXTENDS Integers

CONSTANTS
    PendingLimit, \* unfinished jobs: 8
    ItemLimit,    \* listed jobs: 100
    MaxJobs       \* bound on the jobs of one process

ASSUME JobLimits ==
    /\ PendingLimit \in Nat \ {0} /\ ItemLimit \in Nat /\ MaxJobs \in Nat
    /\ PendingLimit <= ItemLimit

VARIABLES
    accepted,  \* jobs put into Jobs.items and into the executor's queue
    forgotten, \* jobs popped from Jobs.items
    pending,   \* Jobs.pending
    taken,     \* jobs the worker has begun
    finished,  \* jobs whose status is DONE or FAILED
    released,  \* jobs whose finally part has lowered pending
    outcome,   \* the statuses
    closed,    \* Jobs.closed
    store      \* the database is "open" or "closed"

limits == <<accepted, forgotten, pending, closed>>
worker == <<taken, finished, released, outcome>>
jobsVars == <<limits, worker, store>>

-----------------------------------------------------------------------------

JobsInit ==
    /\ accepted = 0 /\ forgotten = 0 /\ pending = 0
    /\ taken = 0 /\ finished = 0 /\ released = 0
    /\ outcome = [n \in 1 .. MaxJobs |-> "QUEUED"]
    /\ closed = FALSE /\ store = "open"

Listed == forgotten + 1 .. accepted

BusyLate == pending > PendingLimit  \* fault: off by one
Busy == closed \/ pending >= PendingLimit

ForgottenEarly(n) == IF n - forgotten >= ItemLimit THEN n - ItemLimit + 1 ELSE forgotten  \* fault

(* The oldest go when n jobs are too many.                                 *)
ForgottenOf(n) == IF n - forgotten > ItemLimit THEN n - ItemLimit ELSE forgotten

Submit ==
    /\ ~Busy /\ accepted < MaxJobs
    /\ accepted' = accepted + 1 /\ pending' = pending + 1
    /\ forgotten' = ForgottenOf(accepted + 1)
    /\ UNCHANGED <<closed, worker, store>>

PendingKept == pending + 1  \* fault: a refused job stays counted
PendingAfterRefusal == pending

(* executor.submit raises                                                  *)
SubmitFails ==
    /\ ~Busy
    /\ pending' = PendingAfterRefusal
    /\ forgotten' = ForgottenOf(accepted + 1)
    /\ UNCHANGED <<accepted, closed, worker, store>>

(* The worker looks the job up in Jobs.items; it would die for this job,   *)
(* before the try, if the job were not listed.                             *)
Take ==
    /\ taken = released /\ taken < accepted
    /\ taken + 1 \in Listed
    /\ taken' = taken + 1
    /\ outcome' = [outcome EXCEPT ![taken + 1] = "RUNNING"]
    /\ UNCHANGED <<limits, finished, released, store>>

(* The work, on the database and on the disk, may fail anywhere.           *)
Finish(status) ==
    /\ finished < taken
    /\ finished' = finished + 1
    /\ outcome' = [outcome EXCEPT ![taken] = status]
    /\ UNCHANGED <<limits, taken, released, store>>

Release ==
    /\ released < finished
    /\ released' = released + 1
    /\ pending' = pending - 1
    /\ UNCHANGED <<accepted, forgotten, closed, taken, finished, outcome, store>>

(* Jobs.close: no more jobs; the executor ends what was accepted.          *)
Close ==
    /\ ~closed /\ closed' = TRUE
    /\ UNCHANGED <<accepted, forgotten, pending, worker, store>>

DrainedWhenIdle == taken = released  \* fault: queued jobs not waited for
Drained == released = accepted

(* Runtime.close goes on to the shutdown backup and closes the database.   *)
CloseStore ==
    /\ closed /\ Drained /\ store = "open"
    /\ store' = "closed"
    /\ UNCHANGED <<limits, worker>>

(* The process dies, or has ended, and is started again.                   *)
JobsRestart ==
    /\ accepted' = 0 /\ forgotten' = 0 /\ pending' = 0
    /\ taken' = 0 /\ finished' = 0 /\ released' = 0
    /\ outcome' = [n \in 1 .. MaxJobs |-> "QUEUED"]
    /\ closed' = FALSE /\ store' = "open"

JobsNext ==
    \/ Submit \/ SubmitFails
    \/ Take \/ (\E status \in {"DONE", "FAILED"} : Finish(status)) \/ Release
    \/ Close \/ CloseStore
    \/ JobsRestart

JobsSpec == JobsInit /\ [][JobsNext]_jobsVars

(* The worker thread runs, and so does the thread that waits for it. Each  *)
(* job ends: it copies a file of finite size or fails.                     *)
FairJobs ==
    /\ JobsSpec
    /\ WF_jobsVars(Take) /\ WF_jobsVars(\E status \in {"DONE", "FAILED"} : Finish(status))
    /\ WF_jobsVars(Release) /\ WF_jobsVars(CloseStore)

-----------------------------------------------------------------------------

JobsTypeOK ==
    /\ accepted \in 0 .. MaxJobs /\ forgotten \in 0 .. MaxJobs
    /\ taken \in 0 .. MaxJobs /\ finished \in 0 .. MaxJobs /\ released \in 0 .. MaxJobs
    /\ pending \in 0 .. PendingLimit
    /\ outcome \in [1 .. MaxJobs -> {"QUEUED", "RUNNING", "DONE", "FAILED"}]
    /\ closed \in BOOLEAN /\ store \in {"open", "closed"}

(* "only oldest completed jobs at this bound" (headless.py:77): the list   *)
(* never drops a job that is queued or running, although it does not look  *)
(* at the statuses, so the worker always finds the job it takes.           *)
UnfinishedListed == \A n \in 1 .. accepted : outcome[n] \in {"QUEUED", "RUNNING"} => n \in Listed

(* The database stays open until the last accepted job has ended.          *)
StoreOutlivesJobs == store = "closed" => closed /\ accepted = finished

(* An accepted job ends, and a full queue takes jobs again, unless the     *)
(* process ends. No failed job or refused submission keeps a place.        *)
QueueMoves ==
    /\ \A n \in 1 .. MaxJobs :
          accepted >= n ~> (accepted < n \/ outcome[n] \in {"DONE", "FAILED"})
    /\ pending = PendingLimit ~> pending < PendingLimit

=============================================================================

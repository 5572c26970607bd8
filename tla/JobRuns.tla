------------------------------- MODULE JobRuns -------------------------------
(***************************************************************************)
(* Jobs of one queue and the rows job_runs keeps about them.               *)
(*                                                                         *)
(* BullMQ delivers a job to the worker, runJob inserts a row, runs the     *)
(* handler and updates the row, and the promise's outcome tells BullMQ     *)
(* what became of the job.  Redis and Postgres are separate stores: the    *)
(* worker may die, and a statement may fail, between any two steps.        *)
(*                                                                         *)
(* Abstractions.  The jobs are one tenant's jobs of one type.  One worker  *)
(* process serves the queue.  A handler is one step: what happens inside   *)
(* is the subject of the other modules.  BullMQ is external: a job whose   *)
(* worker died stays active until the stalled check returns it, MaxStalled *)
(* times; a live worker renews its locks in time.                          *)
(***************************************************************************)
EXTENDS Naturals, Sequences, FiniteSets

CONSTANTS Job,          \* jobs that can be added to the queue
          Concurrency,  \* handlers that a worker runs at once
          MaxStalled,   \* BullMQ's maxStalledCount
          MaxStops,     \* bound on crashes and shutdowns
          MaxFaults     \* bound on the statements that fail

ASSUME ConcurrencyAssumption == Concurrency \in Nat \ {0}
ASSUME StalledAssumption == MaxStalled \in Nat
ASSUME BoundsAssumption == MaxStops \in Nat /\ MaxFaults \in Nat

VARIABLES
  worker,   \* the worker process
  job,      \* BullMQ: state of each job
  stalls,   \* BullMQ: how often a job was found stalled
  at,       \* where runJob stands for a job the worker is running
  rows,     \* job_runs: the rows of each job, oldest first
  stops,    \* crashes and shutdowns so far
  crashes,  \* history: the crashes among them
  faults    \* failed statements so far

queue == <<job, stalls>>
counters == <<stops, crashes, faults>>
vars == <<worker, job, stalls, at, rows, stops, crashes, faults>>

\* A row: its status, and (history) how the handler that it records ended.
Row == [status : {"running", "succeeded", "skipped", "failed"},
        handler : {"none", "succeeded", "skipped", "failed"}]

Place == {"none", "started", "handling", "returned", "threw",
          "resolved", "rejected"}

Init ==
  /\ worker = "up"
  /\ job = [j \in Job |-> "none"]
  /\ stalls = [j \in Job |-> 0]
  /\ at = [j \in Job |-> "none"]
  /\ rows = [j \in Job |-> <<>>]
  /\ stops = 0
  /\ crashes = 0
  /\ faults = 0

Busy == {j \in Job : at[j] # "none"}
Go(j, place) == at' = [at EXCEPT ![j] = place]
Become(j, state) == job' = [job EXCEPT ![j] = state]
\* Mutant: the update finds the rows by job instead of by id.
SetStatusOfJob(j, status) ==
  rows' = [rows EXCEPT ![j] = [i \in DOMAIN @ |-> [@[i] EXCEPT !.status = status]]]
\* completeJobRun updates the row that its own runJob created.
SetStatus(j, status) == rows' = [rows EXCEPT ![j][Len(rows[j])].status = status]
\* createJobRun.
NewRow == [status |-> "running", handler |-> "none"]

Fault == faults < MaxFaults /\ faults' = faults + 1 /\ UNCHANGED <<stops, crashes>>

-----------------------------------------------------------------------------
(* Producers: the scheduler and the control API.                            *)

\* A repeatable comes due, or POST /v1/jobs triggers a job.
Enqueue(j) ==
  /\ job[j] = "none"
  /\ Become(j, "waiting")
  /\ UNCHANGED <<worker, stalls, at, rows, counters>>

\* POST /v1/jobs/:id/retry: a new job from a run's inputs, whatever its status.
Retry(j, of) ==
  /\ rows[of] # <<>>
  /\ Enqueue(j)

-----------------------------------------------------------------------------
(* runJob, one step per await.                                              *)

Pick(j) ==
  /\ worker = "up"
  /\ job[j] = "waiting"
  /\ Cardinality(Busy) < Concurrency
  /\ Become(j, "active")
  /\ Go(j, "started")
  /\ UNCHANGED <<worker, stalls, rows, counters>>

\* Mutant: the job is failed, but runJob goes on.
ContextFailsGoesOn(j) ==
  /\ at[j] = "started"
  /\ Become(j, "failed")
  /\ UNCHANGED <<worker, stalls, at, rows, counters>>

\* Payload, tenant or token is bad: the job fails before it has a row.
ContextFails(j) ==
  /\ at[j] = "started"
  /\ Become(j, "failed")
  /\ Go(j, "none")
  /\ UNCHANGED <<worker, stalls, rows, counters>>

CreateRow(j) ==
  /\ at[j] = "started"
  /\ rows' = [rows EXCEPT ![j] = Append(@, NewRow)]
  /\ Go(j, "handling")
  /\ UNCHANGED <<worker, queue, counters>>

\* createJobRun throws; the row is there if only its answer was lost.
CreateRowFails(j, committed) ==
  /\ at[j] = "started"
  /\ rows' = IF committed THEN [rows EXCEPT ![j] = Append(@, NewRow)] ELSE rows
  /\ Become(j, "failed")
  /\ Go(j, "none")
  /\ Fault
  /\ UNCHANGED <<worker, stalls>>

\* The handler resolves, perhaps with capabilityUnavailable, or throws.
Handle(j, outcome) ==
  /\ at[j] = "handling"
  /\ rows' = [rows EXCEPT ![j][Len(rows[j])].handler = outcome]
  /\ Go(j, IF outcome = "failed" THEN "threw" ELSE "returned")
  /\ UNCHANGED <<worker, queue, counters>>

\* completeJobRun with the result, then return to BullMQ.
RecordResult(j) ==
  /\ at[j] = "returned"
  /\ SetStatus(j, rows[j][Len(rows[j])].handler)
  /\ Go(j, "resolved")
  /\ UNCHANGED <<worker, queue, counters>>

\* Mutant: the handler is run again when its result cannot be recorded.
RecordResultFailsAgain(j, committed) ==
  /\ at[j] = "returned"
  /\ IF committed THEN SetStatus(j, rows[j][Len(rows[j])].handler) ELSE UNCHANGED rows
  /\ Go(j, "started")
  /\ Fault
  /\ UNCHANGED <<worker, queue>>

\* completeJobRun throws inside the try: the catch takes a good run for a failed one.
RecordResultFails(j, committed) ==
  /\ at[j] = "returned"
  /\ IF committed THEN SetStatus(j, rows[j][Len(rows[j])].handler) ELSE UNCHANGED rows
  /\ Go(j, "threw")
  /\ Fault
  /\ UNCHANGED <<worker, queue>>

\* Mutant: the catch block records the failure again and again.
RecordFailureLoops(j) ==
  /\ at[j] = "threw"
  /\ SetStatus(j, "failed")
  /\ UNCHANGED <<worker, queue, at, counters>>

\* The catch block: completeJobRun with the error, then rethrow.
RecordFailure(j) ==
  /\ at[j] = "threw"
  /\ SetStatus(j, "failed")
  /\ Go(j, "rejected")
  /\ UNCHANGED <<worker, queue, counters>>

\* completeJobRun throws in the catch block: its own error leaves runJob.
RecordFailureFails(j, committed) ==
  /\ at[j] = "threw"
  /\ IF committed THEN SetStatus(j, "failed") ELSE UNCHANGED rows
  /\ Go(j, "rejected")
  /\ Fault
  /\ UNCHANGED <<worker, queue>>

Resolve(j) ==
  /\ at[j] = "resolved"
  /\ Become(j, "completed")
  /\ Go(j, "none")
  /\ UNCHANGED <<worker, stalls, rows, counters>>

\* Mutant: runJob swallows the error, so BullMQ sees it resolve.
RejectSwallowed(j) ==
  /\ at[j] = "rejected"
  /\ Become(j, "completed")
  /\ Go(j, "none")
  /\ UNCHANGED <<worker, stalls, rows, counters>>

\* No producer sets `attempts', so the first failure is the last.
Reject(j) ==
  /\ at[j] = "rejected"
  /\ Become(j, "failed")
  /\ Go(j, "none")
  /\ UNCHANGED <<worker, stalls, rows, counters>>

-----------------------------------------------------------------------------
(* The worker process, and BullMQ's stalled check.                          *)

\* The process dies: what runJob was doing is gone, the jobs stay active.
Crash ==
  /\ worker # "down" /\ stops < MaxStops
  /\ worker' = "down"
  /\ at' = [j \in Job |-> "none"]
  /\ stops' = stops + 1
  /\ crashes' = crashes + 1
  /\ UNCHANGED <<queue, rows, faults>>

\* SIGTERM: the workers take no further job.
Shutdown ==
  /\ worker = "up" /\ stops < MaxStops
  /\ worker' = "closing"
  /\ stops' = stops + 1
  /\ UNCHANGED <<queue, at, rows, crashes, faults>>

\* Mutant: the process exits without waiting for worker.close().
ExitAtOnce ==
  /\ worker = "closing"
  /\ worker' = "down"
  /\ at' = [j \in Job |-> "none"]
  /\ UNCHANGED <<queue, rows, counters>>

\* worker.close() has waited for the running handlers: the process exits.
Exit ==
  /\ worker = "closing"
  /\ Busy = {}
  /\ worker' = "down"
  /\ UNCHANGED <<queue, at, rows, counters>>

StartUp ==
  /\ worker = "down"
  /\ worker' = "up"
  /\ UNCHANGED <<queue, at, rows, counters>>

\* A job whose worker died is delivered again, or failed if that was too often.
Stalled(j) ==
  /\ worker = "up"
  /\ job[j] = "active" /\ at[j] = "none"
  /\ stalls' = [stalls EXCEPT ![j] = @ + 1]
  /\ Become(j, IF stalls[j] < MaxStalled THEN "waiting" ELSE "failed")
  /\ UNCHANGED <<worker, at, rows, counters>>

-----------------------------------------------------------------------------
Outcome == {"succeeded", "skipped", "failed"}

\* What runJob does next when nothing fails but the handler.
RunJob(j) == \/ CreateRow(j)
             \/ \E outcome \in Outcome : Handle(j, outcome)
             \/ RecordResult(j)
             \/ RecordFailure(j)
             \/ Resolve(j)
             \/ Reject(j)

Trouble(j) == \/ ContextFails(j)
              \/ \E committed \in BOOLEAN : \/ CreateRowFails(j, committed)
                                            \/ RecordResultFails(j, committed)
                                            \/ RecordFailureFails(j, committed)

Next == \/ \E j \in Job : \/ Enqueue(j)
                          \/ \E of \in Job : Retry(j, of)
                          \/ Pick(j) \/ RunJob(j) \/ Trouble(j) \/ Stalled(j)
        \/ Crash \/ Shutdown \/ Exit \/ StartUp

Spec == Init /\ [][Next]_vars

\* Handlers end, BullMQ serves its queue, and a stopped worker is started again.
FairSpec == /\ Spec
            /\ WF_vars(Exit) /\ WF_vars(StartUp)
            /\ \A j \in Job : WF_vars(Pick(j)) /\ WF_vars(RunJob(j)) /\ WF_vars(Stalled(j))

-----------------------------------------------------------------------------
(* Properties.                                                              *)

JobState == {"none", "waiting", "active", "completed", "failed"}

\* Variables have their types, and runJob runs for active jobs of a live worker.
TypeOK ==
  /\ worker \in {"up", "closing", "down"}
  /\ job \in [Job -> JobState]
  /\ stalls \in [Job -> 0 .. MaxStalled + 1]
  /\ at \in [Job -> Place]
  /\ rows \in [Job -> Seq(Row)]
  /\ stops \in 0 .. MaxStops /\ crashes \in 0 .. stops
  /\ faults \in 0 .. MaxFaults
  /\ \A j \in Busy : job[j] = "active" /\ worker # "down"

\* The rows that a runJob in progress will still update: the last of its job.
Owned(j) == IF at[j] \in {"handling", "returned", "threw"} THEN {Len(rows[j])} ELSE {}

\* The rows that say something else than what happened: left as "running" with
\* nobody to update them, or with another outcome than their handler's.
Wrong(j) == {i \in DOMAIN rows[j] \ Owned(j) : rows[j][i].status # rows[j][i].handler}

\* job_runs can be trusted up to failures of the stores: a failed statement costs
\* the truth of one row, and a crash that of the rows that were being worked on.
LedgerIsTrue ==
  Cardinality(UNION {{<<j, i>> : i \in Wrong(j)} : j \in Job})
    <= faults + Concurrency * crashes

\* BullMQ and the ledger agree on success, however runs were interrupted: the last
\* row of a completed job records a handler that succeeded or was skipped.
CompletedMeansDone ==
  \A j \in Job : job[j] = "completed" =>
    /\ rows[j] # <<>>
    /\ LET last == rows[j][Len(rows[j])] IN
         last.status \in {"succeeded", "skipped"} /\ last.status = last.handler

\* A delivery of a job makes at most one row, and only a crash redelivers a job.
OneRowPerDelivery ==
  \A j \in Job : Len(rows[j]) <= 1 + stalls[j] /\ stalls[j] <= crashes

\* A row whose run has ended is not written again, by whatever run comes after.
\* (While its runJob is in progress, the catch may turn it from good to failed.)
HistoryIsFrozen ==
  [][\A j \in Job : \A i \in DOMAIN rows[j] \ Owned(j) : rows'[j][i] = rows[j][i]]_vars

\* Every job that is enqueued ends, through crashes, shutdowns and failures.
JobsEnd == \A j \in Job : job[j] = "waiting" ~> job[j] \in {"completed", "failed"}
=============================================================================

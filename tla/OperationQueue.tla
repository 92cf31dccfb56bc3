--------------------------- MODULE OperationQueue ---------------------------
(***************************************************************************)
(* src/common/persistence/OperationQueue.ts: a FIFO of asynchronous jobs   *)
(* of which at most MaxConcurrency run at a time.                          *)
(*                                                                         *)
(* operate() queues a job and calls execute(); execute() starts at most    *)
(* one job; a job that settles (resolves or rejects) decrements            *)
(* runningConcurrency and schedules another execute() with                 *)
(* process.nextTick.  Nothing else ever starts a queued job, so a wake-up  *)
(* that gets lost would leave it waiting for ever.                         *)
(***************************************************************************)
EXTENDS Naturals, Sequences

CONSTANTS
    Jobs,            \* the calls of operate()
    MaxConcurrency

ASSUME QueueAssumption == MaxConcurrency \in Nat \ {0}

VARIABLES
    operations,          \* the FIFO
    runningConcurrency,  \* the counter that execute() checks
    jobState,            \* where each job is
    ticks,               \* scheduled process.nextTick callbacks
    started              \* history: the jobs in the order in which they started

queueVars == <<operations, runningConcurrency, jobState, ticks, started>>

Running == {j \in Jobs : jobState[j] = "running"}

JobStates == {"new", "queued", "running", "settled"}

Init ==
    /\ operations = <<>>
    /\ runningConcurrency = 0
    /\ jobState = [j \in Jobs |-> "new"]
    /\ ticks = 0
    /\ started = <<>>

\* execute() when the FIFO is ops and the jobs are in the states js.
Execute(ops, js) ==
    IF runningConcurrency < MaxConcurrency /\ ops # <<>>
    THEN /\ runningConcurrency' = runningConcurrency + 1
         /\ operations' = Tail(ops)
         /\ jobState' = [js EXCEPT ![Head(ops)] = "running"]
         /\ started' = Append(started, Head(ops))
    ELSE /\ operations' = ops
         /\ jobState' = js
         /\ UNCHANGED <<runningConcurrency, started>>

\* Faulty variant: the job is started before the ones that wait.
OperateJump(j) ==
    /\ jobState[j] = "new"
    /\ Execute(<<j>> \o operations, [jobState EXCEPT ![j] = "queued"])
    /\ UNCHANGED ticks

\* operate(op)
Operate(j) ==
    /\ jobState[j] = "new"
    /\ Execute(Append(operations, j), [jobState EXCEPT ![j] = "queued"])
    /\ UNCHANGED ticks

\* The awaited job resolves or rejects; both listeners do the same.
Settle(j) ==
    /\ jobState[j] = "running"
    /\ runningConcurrency' = runningConcurrency - 1
    /\ jobState' = [jobState EXCEPT ![j] = "settled"]
    /\ ticks' = ticks + 1
    /\ UNCHANGED <<operations, started>>

\* A nextTick callback: execute().
NextTick ==
    /\ ticks > 0
    /\ ticks' = ticks - 1
    /\ Execute(operations, jobState)

Next ==
    \/ \E j \in Jobs : Operate(j)
    \/ \E j \in Jobs : Settle(j)
    \/ NextTick

Spec == Init /\ [][Next]_queueVars

\* Scheduled callbacks run, and jobs settle (each is an I/O operation that
\* ends in a result or an error).  Nobody has to call operate().
Fairness == WF_queueVars(NextTick) /\ \A j \in Jobs : WF_queueVars(Settle(j))

FairSpec == Spec /\ Fairness

----------------------------------------------------------------------------
(* Properties.                                                             *)

\* Types of all variables; the counter that two listeners decrement stays
\* between 0 and maxConcurrency.
TypeOK ==
    /\ operations \in Seq(Jobs)
    /\ runningConcurrency \in 0..MaxConcurrency
    /\ jobState \in [Jobs -> JobStates]
    /\ ticks \in Nat
    /\ started \in Seq(Jobs)

\* No wake-up is lost: when jobs wait, every free place is matched by a
\* callback that is still going to start one.
WorkConserving ==
    /\ runningConcurrency =< MaxConcurrency
    /\ operations # <<>> => runningConcurrency + ticks >= MaxConcurrency

\* Jobs start in the order in which they were submitted: whoever is started
\* was first in the queue, and a queued job keeps its place.
FifoOrder ==
    [][/\ \/ started' = started
          \/ \E j \in Jobs : started' = Append(started, j)
       /\ \/ started \o operations = started' \o operations'
          \/ \E j \in Jobs : /\ jobState[j] = "new"
                             /\ Append(started \o operations, j) = started' \o operations']_queueVars

\* Every job that is submitted runs to its end.
EveryJobSettles ==
    \A j \in Jobs : jobState[j] = "queued" ~> jobState[j] = "settled"
=============================================================================

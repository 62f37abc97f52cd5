------------------------------ MODULE NerQueue ------------------------------
(***************************************************************************)
(* The off-path NER detector of a wrapper                                  *)
(* (packages/proxy/src/detection/ner/async-detector.ts): a bounded queue,  *)
(* one job in flight at a forked worker (worker.ts), and what becomes of   *)
(* the jobs when the worker dies or the wrapper shuts down.                *)
(*                                                                         *)
(* The worker's messages arrive in order; its 'exit' event may arrive      *)
(* before messages it sent, and a send to a dead worker may or may not     *)
(* come back as an 'error' event.                                          *)
(***************************************************************************)
EXTENDS Naturals, Sequences

CONSTANTS
    Job,        \* requests seen by the frame processor
    NoJob,      \* undefined
    QueueMax    \* QUEUE_MAX

ASSUME NoJobAssumption == NoJob \notin Job
ASSUME QueueMaxAssumption == QueueMax \in Nat

VARIABLES
    ready,      \* workerReady
    alive,      \* alive: jobs are accepted
    inFlight, queue,
    term,       \* terminate(): "no", "wait" (for the exit or 1 s), "done"
    worker,     \* the process: "loading", "up", "dead"
    task,       \* the job it works on
    inbox,      \* its messages, not yet delivered
    exitDue,    \* its 'exit' event, not yet delivered
    errorDue,   \* an 'error' event, not yet delivered
    died,       \* lines proxy.ner_worker_died in the trail
    full,       \* jobs with a line proxy.ner_dropped, reason queue_full
    \* history, read by the properties only
    entered,    \* jobs accepted, in order
    outcome,    \* jobs whose end is known (result or skip, error, worker_dead)
    refused     \* jobs enqueue() ignored

detectorVars == <<ready, alive, inFlight, queue>>
workerVars == <<worker, task, inbox>>
nerVars == <<detectorVars, term, workerVars, exitDue, errorDue, died, full,
             entered, outcome, refused>>

\* A "skip" (nothing found) is a result without findings.
Message == [kind : {"ready", "result", "error"}, job : Job \cup {NoJob}]

NerInit ==
    /\ ready = FALSE /\ alive = TRUE /\ inFlight = NoJob /\ queue = <<>>
    /\ term = "no"
    /\ worker = "loading" /\ task = NoJob /\ inbox = <<>>
    /\ exitDue = FALSE /\ errorDue = FALSE
    /\ died = 0 /\ full = {} /\ entered = <<>> /\ outcome = <<>> /\ refused = {}

\* What has been accepted and has no outcome yet, oldest first.
Pending == IF inFlight = NoJob THEN queue ELSE <<inFlight>> \o queue

\* child.send
Send(j) ==
    IF worker = "dead"
    THEN errorDue' \in {errorDue, TRUE} /\ UNCHANGED task
    ELSE task' = j /\ UNCHANGED errorDue

\* drain(), nothing being in flight.
Drain ==
    IF queue = <<>>
    THEN inFlight' = NoJob /\ UNCHANGED <<queue, task, errorDue>>
    ELSE inFlight' = Head(queue) /\ queue' = Tail(queue) /\ Send(Head(queue))

QueueFull == Len(queue) >= QueueMax

Refuse(j) ==
    /\ ~alive
    /\ refused' = refused \cup {j}
    /\ UNCHANGED <<inFlight, queue, task, errorDue, full, entered>>

\* Mutant: a job that finds the queue full is forgotten.
DropQuietly(j) ==
    /\ alive /\ QueueFull
    /\ refused' = refused \cup {j}
    /\ UNCHANGED <<inFlight, queue, task, errorDue, entered, full>>

\* Drop-newest.
DropNewest(j) ==
    /\ alive /\ QueueFull
    /\ full' = full \cup {j}
    /\ UNCHANGED <<inFlight, queue, task, errorDue, entered, refused>>

Accept(j) ==
    /\ alive /\ ~QueueFull
    /\ entered' = Append(entered, j)
    /\ IF ready /\ inFlight = NoJob
       THEN inFlight' = j /\ Send(j) /\ UNCHANGED queue
       ELSE queue' = Append(queue, j) /\ UNCHANGED <<inFlight, task, errorDue>>
    /\ UNCHANGED <<full, refused>>

Enqueue(j) ==
    /\ Refuse(j) \/ DropNewest(j) \/ Accept(j)
    /\ UNCHANGED <<ready, alive, term, worker, inbox, exitDue, died, outcome>>

-----------------------------------------------------------------------------
(* handleMessage.                                                          *)

ReceiveReady ==
    /\ inbox # <<>> /\ Head(inbox).kind = "ready"
    /\ inbox' = Tail(inbox) /\ ready' = TRUE
    /\ IF inFlight = NoJob THEN Drain ELSE UNCHANGED <<inFlight, queue, task, errorDue>>
    /\ UNCHANGED <<alive, term, worker, exitDue, died, full, entered, outcome, refused>>

\* A result names its own job, an error the job in flight; without a job in
\* flight nothing is recorded.  drain() does not ask whether the worker is ready.
ReceiveReply ==
    /\ inbox # <<>> /\ Head(inbox).kind # "ready"
    /\ inbox' = Tail(inbox)
    /\ LET m == Head(inbox)
           of == IF m.kind = "error" THEN inFlight ELSE m.job
       IN  outcome' = IF inFlight = NoJob THEN outcome ELSE Append(outcome, of)
    /\ Drain
    /\ UNCHANGED <<ready, alive, term, worker, exitDue, died, full, entered, refused>>

Receive == ReceiveReady \/ ReceiveReply

-----------------------------------------------------------------------------
(* The end of the worker, and terminate().                                 *)

\* Mutant: the job in flight is reported after the queued ones.
WorkerDeathQueueFirst ==
    /\ alive' = FALSE /\ inFlight' = NoJob /\ queue' = <<>>
    /\ outcome' = outcome \o queue \o (IF inFlight = NoJob THEN <<>> ELSE <<inFlight>>)
    /\ died' = died + 1

\* onWorkerDeath, unless it has been called or terminate() has.
OnWorkerDeath ==
    IF alive
    THEN /\ alive' = FALSE /\ inFlight' = NoJob /\ queue' = <<>>
         /\ outcome' = outcome \o Pending
         /\ died' = died + 1
    ELSE UNCHANGED <<alive, inFlight, queue, outcome, died>>

ExitEvent ==
    /\ exitDue /\ exitDue' = FALSE
    /\ OnWorkerDeath
    /\ term' = IF term = "wait" THEN "done" ELSE term
    /\ UNCHANGED <<ready, workerVars, errorDue, full, entered, refused>>

ErrorEvent ==
    /\ errorDue /\ errorDue' = FALSE
    /\ OnWorkerDeath
    /\ UNCHANGED <<ready, term, workerVars, exitDue, full, entered, refused>>

\* alive is cleared before the SIGTERM: onWorkerDeath will find it so.
Terminate ==
    /\ term' = IF alive THEN "wait" ELSE "done"
    /\ alive' = FALSE
    /\ UNCHANGED <<ready, inFlight, queue, workerVars, exitDue, errorDue, died, full,
                   entered, outcome, refused>>

\* One second, then SIGKILL.
TerminateTimeout ==
    /\ term = "wait" /\ term' = "done"
    /\ worker' = "dead" /\ task' = NoJob
    /\ exitDue' = (exitDue \/ worker # "dead")
    /\ UNCHANGED <<detectorVars, inbox, errorDue, died, full, entered, outcome, refused>>

-----------------------------------------------------------------------------
(* The worker.                                                             *)

Say(kind, j) == inbox' = Append(inbox, [kind |-> kind, job |-> j])

\* The rest of the detector does not see what the worker does.
WorkerOnly == UNCHANGED <<detectorVars, term, died, full, entered, outcome, refused>>

ModelLoaded ==
    /\ worker = "loading" /\ worker' = "up" /\ Say("ready", NoJob)
    /\ UNCHANGED <<task, exitDue, errorDue>> /\ WorkerOnly

\* The worker says so and exits; what it says may be lost.
ModelFails ==
    /\ worker = "loading" /\ worker' = "dead" /\ exitDue' = TRUE
    /\ Say("error", NoJob) \/ UNCHANGED inbox
    /\ UNCHANGED <<task, errorDue>> /\ WorkerOnly

\* fork() itself fails: 'error' comes before anything else, and no 'exit'.
ForkFails ==
    /\ worker = "loading" /\ entered = <<>> /\ full = {} /\ term = "no"
    /\ worker' = "dead"
    /\ OnWorkerDeath
    /\ UNCHANGED <<ready, term, task, inbox, exitDue, errorDue, full, entered, refused>>

Infer ==
    /\ worker = "up" /\ task # NoJob /\ task' = NoJob
    /\ \E kind \in {"result", "error"} : Say(kind, task)
    /\ UNCHANGED <<worker, exitDue, errorDue>> /\ WorkerOnly

WorkerDies ==
    /\ worker # "dead" /\ worker' = "dead" /\ task' = NoJob /\ exitDue' = TRUE
    /\ UNCHANGED <<inbox, errorDue>> /\ WorkerOnly

Worker == ModelLoaded \/ ModelFails \/ ForkFails \/ Infer \/ WorkerDies

Detector == Receive \/ ExitEvent \/ ErrorEvent \/ TerminateTimeout

-----------------------------------------------------------------------------
(* Properties.                                                             *)

NerTypeOK ==
    /\ ready \in BOOLEAN /\ alive \in BOOLEAN
    /\ inFlight \in Job \cup {NoJob} /\ queue \in Seq(Job) /\ Len(queue) <= QueueMax
    /\ term \in {"no", "wait", "done"}
    /\ worker \in {"loading", "up", "dead"} /\ task \in Job \cup {NoJob}
    /\ inbox \in Seq(Message)
    /\ exitDue \in BOOLEAN /\ errorDue \in BOOLEAN
    /\ died \in 0 .. 1 /\ full \subseteq Job /\ refused \subseteq Job
    /\ entered \in Seq(Job) /\ outcome \in Seq(Job)

\* Every job accepted has one outcome or is still pending, and the outcomes
\* are in the order of acceptance, through replies, errors, late messages and
\* the death of the worker.
JobsInOrder == entered = outcome \o Pending

\* A ready worker never idles beside a queue: every end of a job starts the next.
IdleWorkerNoQueue == ready /\ alive /\ inFlight = NoJob => queue = <<>>
=============================================================================

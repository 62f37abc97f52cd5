------------------------- MODULE StdioWrapperProofs -------------------------
(* Proofs about a stdio wrapper and its NER queue, for every value of the  *)
(* constants.                                                              *)
EXTENDS StdioWrapper, SequenceTheorems, TLAPS

-----------------------------------------------------------------------------
(* The inductive invariant.                                                *)

\* One job at most is with the worker or in its answer, and it is the one in
\* flight unless the worker has been given up.
Flight ==
    /\ Len(inbox) <= 1
    /\ task # NoJob => inFlight = task /\ worker = "up" /\ inbox = <<>> /\ ready
    /\ inbox # <<>> /\ Head(inbox).job # NoJob =>
          /\ Head(inbox).kind # "ready" /\ ready
          /\ inFlight = Head(inbox).job \/ (inFlight = NoJob /\ ~alive)
    /\ inbox # <<>> /\ Head(inbox).job = NoJob =>
          /\ Head(inbox).kind # "result" /\ ~ready
          /\ Head(inbox).kind = "error" => worker = "dead"
    /\ ready => worker # "loading"
    /\ ~ready => inFlight = NoJob \/ worker = "dead"

\* The worker before its first word, and after its end.
Process ==
    /\ worker = "loading" => inbox = <<>> /\ task = NoJob /\ ~ready /\ inFlight = NoJob
    /\ exitDue \/ errorDue => worker = "dead"
    /\ alive => died = 0

NerInv == NerTypeOK /\ Flight /\ Process /\ JobsInOrder /\ IdleWorkerNoQueue

-----------------------------------------------------------------------------
(* What the helpers do to the queue.                                       *)

LEMMA JobFacts == NoJob \notin Job /\ QueueMax \in Nat
BY NoJobAssumption, QueueMaxAssumption

LEMMA PendingType == NerTypeOK => Pending \in Seq(Job)
BY DEF NerTypeOK, Pending

\* drain() leaves what is pending behind the job that has ended.
LEMMA DrainKeeps ==
    ASSUME queue \in Seq(Job), Len(queue) <= QueueMax, task \in Job \cup {NoJob},
           errorDue \in BOOLEAN, Drain
    PROVE  /\ queue' \in Seq(Job) /\ Len(queue') <= QueueMax
           /\ inFlight' \in Job \cup {NoJob}
           /\ task' \in Job \cup {NoJob} /\ errorDue' \in BOOLEAN
           /\ Pending' = queue
           /\ inFlight' = NoJob => queue' = <<>>
           /\ task' = task \/ (task' = inFlight' /\ worker # "dead")
           /\ errorDue' => errorDue \/ worker = "dead"
<1>1. CASE queue = <<>>
  BY <1>1, JobFacts DEF Drain, Pending
<1>2. CASE queue # <<>>
  <2>1. /\ Head(queue) \in Job /\ Tail(queue) \in Seq(Job)
        /\ Len(Tail(queue)) = Len(queue) - 1
        /\ Len(queue) \in Nat
        /\ queue = <<Head(queue)>> \o Tail(queue)
    BY <1>2, HeadTailProperties, LenProperties
  <2>2. /\ inFlight' = Head(queue) /\ queue' = Tail(queue) /\ Send(Head(queue))
    BY <1>2 DEF Drain
  <2>3. inFlight' # NoJob
    BY <2>1, <2>2, JobFacts
  <2>4. Pending' = queue
    BY <2>1, <2>2, <2>3 DEF Pending
  <2>5. /\ task' \in Job \cup {NoJob} /\ errorDue' \in BOOLEAN
        /\ task' = task \/ (task' = inFlight' /\ worker # "dead")
        /\ errorDue' => errorDue \/ worker = "dead"
    BY <2>1, <2>2 DEF Send
  <2>6. Len(queue') <= QueueMax
    BY <2>1, <2>2, JobFacts
  <2> QED
    BY <2>1, <2>2, <2>3, <2>4, <2>5, <2>6
<1> QED
  BY <1>1, <1>2

\* A job accepted comes last, whether it is sent or queued.
LEMMA AcceptAppends ==
    ASSUME NerTypeOK, NEW j \in Job, Accept(j), inFlight = NoJob /\ ready => queue = <<>>
    PROVE  Pending' = Append(Pending, j)
<1>1. CASE ready /\ inFlight = NoJob
  BY <1>1, JobFacts DEF Accept, Pending, NerTypeOK
<1>2. CASE ~(ready /\ inFlight = NoJob)
  <2>1. inFlight' = inFlight /\ queue' = Append(queue, j)
    BY <1>2 DEF Accept
  <2>2. CASE inFlight = NoJob
    BY <2>1, <2>2 DEF Pending
  <2>3. CASE inFlight # NoJob
    <3>1. /\ inFlight \in Job /\ queue \in Seq(Job) /\ <<inFlight>> \in Seq(Job)
          /\ <<j>> \in Seq(Job)
      BY <2>3 DEF NerTypeOK
    <3>2. <<inFlight>> \o Append(queue, j) = <<inFlight>> \o (queue \o <<j>>)
      BY <3>1, AppendIsConcat
    <3>3. Append(<<inFlight>> \o queue, j) = (<<inFlight>> \o queue) \o <<j>>
      BY <3>1, AppendIsConcat, ConcatProperties
    <3>4. (<<inFlight>> \o queue) \o <<j>> = <<inFlight>> \o (queue \o <<j>>)
      BY <3>1, ConcatAssociative
    <3> QED
      BY <2>1, <2>3, <3>2, <3>3, <3>4 DEF Pending
  <2> QED
    BY <2>2, <2>3
<1> QED
  BY <1>1, <1>2

LEMMA InboxFacts ==
    ASSUME NerTypeOK, Flight, inbox # <<>>
    PROVE  Tail(inbox) = <<>> /\ Head(inbox) \in Message
<1>1. /\ Head(inbox) \in Message /\ Tail(inbox) \in Seq(Message)
      /\ Len(Tail(inbox)) = Len(inbox) - 1 /\ Len(inbox) \in Nat /\ Len(inbox) # 0
  BY HeadTailProperties, LenProperties, EmptySeq DEF NerTypeOK
<1>2. Len(Tail(inbox)) = 0
  BY <1>1 DEF Flight
<1>3. Tail(inbox) = <<>>
  BY <1>1, <1>2, EmptySeq
<1> QED
  BY <1>1, <1>3

-----------------------------------------------------------------------------
(* One lemma per operation of the detector and of the worker.              *)

LEMMA EnqueueStep == ASSUME NerInv, NEW j \in Job, Enqueue(j) PROVE NerInv'
<1> USE JobFacts
<1>1. CASE Refuse(j)
  BY <1>1 DEF NerInv, NerTypeOK, Flight, Process, JobsInOrder, IdleWorkerNoQueue, Pending,
              Enqueue, Refuse
<1>2. CASE DropNewest(j)
  BY <1>2 DEF NerInv, NerTypeOK, Flight, Process, JobsInOrder, IdleWorkerNoQueue, Pending,
              Enqueue, DropNewest
<1>3. CASE Accept(j)
  <2>1. entered' = Append(entered, j) /\ alive /\ ~QueueFull
    BY <1>3 DEF Accept
  <2>2. Pending' = Append(Pending, j)
    BY <1>3, AcceptAppends DEF NerInv, IdleWorkerNoQueue, Accept
  <2>3. JobsInOrder'
    <3>1. Pending \in Seq(Job) /\ outcome \in Seq(Job) /\ <<j>> \in Seq(Job)
      BY PendingType DEF NerInv, NerTypeOK
    <3>2. /\ Append(Pending, j) = Pending \o <<j>>
          /\ Append(outcome \o Pending, j) = (outcome \o Pending) \o <<j>>
      BY <3>1, AppendIsConcat, ConcatProperties
    <3>3. (outcome \o Pending) \o <<j>> = outcome \o (Pending \o <<j>>)
      BY <3>1, ConcatAssociative
    <3>4. outcome' = outcome
      BY DEF Enqueue
    <3> QED
      BY <2>1, <2>2, <3>2, <3>3, <3>4 DEF NerInv, JobsInOrder
  <2>4. CASE ready /\ inFlight = NoJob
    <3>1. inFlight' = j /\ Send(j) /\ queue' = queue
      BY <1>3, <2>4 DEF Accept
    <3>2. inbox = <<>>
      <4>1. SUFFICES ASSUME inbox # <<>> PROVE FALSE
        OBVIOUS
      <4> QED
        BY <2>1, <2>4, <4>1 DEF NerInv, Flight
    <3>3. task = NoJob /\ worker # "loading"
      BY <2>4 DEF NerInv, Flight
    <3>4. /\ task' \in {NoJob, j} /\ (task' = j => worker = "up")
          /\ errorDue' \in BOOLEAN /\ (errorDue' => errorDue \/ worker = "dead")
      BY <3>1, <3>3 DEF Send, NerInv, NerTypeOK
    <3>5. NerTypeOK'
      BY <1>3, <2>1, <3>1, <3>4 DEF NerInv, NerTypeOK, Enqueue, Accept
    <3>6. Flight' /\ Process'
      BY <1>3, <2>4, <3>1, <3>2, <3>3, <3>4 DEF NerInv, Flight, Process, Enqueue
    <3>7. IdleWorkerNoQueue'
      BY <3>1 DEF IdleWorkerNoQueue
    <3> QED
      BY <2>3, <3>5, <3>6, <3>7 DEF NerInv
  <2>5. CASE ~(ready /\ inFlight = NoJob)
    <3>1. /\ queue' = Append(queue, j)
          /\ UNCHANGED <<inFlight, task, errorDue, full, refused>>
      BY <1>3, <2>5 DEF Accept
    <3>2. NerTypeOK'
      <4>1. queue' \in Seq(Job) /\ Len(queue') <= QueueMax
        <5>1. Len(queue) \in Nat /\ Len(queue) < QueueMax
          BY <2>1, LenProperties DEF NerInv, NerTypeOK, QueueFull
        <5> QED
          BY <3>1, <5>1, AppendProperties DEF NerInv, NerTypeOK
      <4>2. entered' \in Seq(Job)
        BY <2>1, AppendProperties DEF NerInv, NerTypeOK
      <4> QED
        BY <3>1, <4>1, <4>2 DEF NerInv, NerTypeOK, Enqueue
    <3>3. Flight' /\ Process'
      BY <3>1 DEF NerInv, Flight, Process, Enqueue
    <3>4. IdleWorkerNoQueue'
      BY <2>5, <3>1 DEF IdleWorkerNoQueue, Enqueue
    <3> QED
      BY <2>3, <3>2, <3>3, <3>4 DEF NerInv
  <2> QED
    BY <2>4, <2>5
<1> QED
  BY <1>1, <1>2, <1>3 DEF Enqueue

LEMMA ReadyStep == ASSUME NerInv, ReceiveReady PROVE NerInv'
<1> USE JobFacts
<1>1. /\ inbox' = <<>> /\ ready' = TRUE /\ worker # "loading"
      /\ task = NoJob /\ Head(inbox).job = NoJob
  BY InboxFacts DEF ReceiveReady, NerInv, Flight, Process
<1>2. UNCHANGED <<alive, term, worker, exitDue, died, full, entered, outcome, refused>>
  BY DEF ReceiveReady
<1>3. CASE inFlight = NoJob
  <2>1. Drain
    BY <1>3 DEF ReceiveReady
  <2>2. /\ queue' \in Seq(Job) /\ Len(queue') <= QueueMax
        /\ inFlight' \in Job \cup {NoJob}
        /\ task' \in Job \cup {NoJob} /\ errorDue' \in BOOLEAN
        /\ Pending' = queue
        /\ inFlight' = NoJob => queue' = <<>>
        /\ task' = task \/ (task' = inFlight' /\ worker # "dead")
        /\ errorDue' => errorDue \/ worker = "dead"
    BY <2>1, DrainKeeps DEF NerInv, NerTypeOK
  <2>3. NerTypeOK'
    BY <1>1, <1>2, <2>2 DEF NerInv, NerTypeOK
  <2>4. Flight' /\ Process'
    BY <1>1, <1>2, <2>2 DEF NerInv, NerTypeOK, Flight, Process
  <2>5. JobsInOrder' /\ IdleWorkerNoQueue'
    BY <1>2, <1>3, <2>2 DEF NerInv, JobsInOrder, IdleWorkerNoQueue, Pending
  <2> QED
    BY <2>3, <2>4, <2>5 DEF NerInv
<1>4. CASE inFlight # NoJob
  <2>1. UNCHANGED <<inFlight, queue, task, errorDue>>
    BY <1>4 DEF ReceiveReady
  <2> QED
    BY <1>1, <1>2, <1>4, <2>1
    DEF NerInv, NerTypeOK, Flight, Process, JobsInOrder, IdleWorkerNoQueue, Pending
<1> QED
  BY <1>3, <1>4

LEMMA ReplyStep == ASSUME NerInv, ReceiveReply PROVE NerInv'
<1> USE JobFacts
<1> DEFINE m == Head(inbox)
           of == IF m.kind = "error" THEN inFlight ELSE m.job
<1>1. /\ inbox # <<>> /\ inbox' = <<>> /\ m \in Message /\ m.kind # "ready"
      /\ worker # "loading" /\ task = NoJob
  BY InboxFacts DEF ReceiveReply, NerInv, Flight, Process
<1>2. /\ UNCHANGED <<ready, alive, term, worker, exitDue, died, full, entered, refused>>
      /\ outcome' = IF inFlight = NoJob THEN outcome ELSE Append(outcome, of)
      /\ Drain
  BY DEF ReceiveReply
<1>3. /\ queue' \in Seq(Job) /\ Len(queue') <= QueueMax
      /\ inFlight' \in Job \cup {NoJob}
      /\ task' \in Job \cup {NoJob} /\ errorDue' \in BOOLEAN
      /\ Pending' = queue
      /\ inFlight' = NoJob => queue' = <<>>
      /\ task' = task \/ (task' = inFlight' /\ worker # "dead")
      /\ errorDue' => errorDue \/ worker = "dead"
  BY <1>2, DrainKeeps DEF NerInv, NerTypeOK
<1>4. inFlight # NoJob => of = inFlight
  BY <1>1 DEF NerInv, Flight, Message
<1>5. outcome' \in Seq(Job)
  BY <1>2, <1>4, AppendProperties DEF NerInv, NerTypeOK
<1>6. NerTypeOK'
  BY <1>1, <1>2, <1>3, <1>5 DEF NerInv, NerTypeOK
<1>7. ~ready => worker = "dead"
  <2>1. m.kind \in {"result", "error"}
    BY <1>1 DEF Message
  <2> QED
    BY <1>1, <2>1 DEF NerInv, Flight
<1>8. Flight' /\ Process'
  BY <1>1, <1>2, <1>3, <1>7 DEF NerInv, NerTypeOK, Flight, Process
<1>9. JobsInOrder'
  <2>1. CASE inFlight = NoJob
    BY <2>1, <1>2, <1>3 DEF NerInv, JobsInOrder, Pending
  <2>2. CASE inFlight # NoJob
    <3>1. <<inFlight>> \in Seq(Job) /\ queue \in Seq(Job) /\ outcome \in Seq(Job)
      BY <2>2 DEF NerInv, NerTypeOK
    <3>2. Append(outcome, inFlight) = outcome \o <<inFlight>>
      BY <2>2, <3>1, AppendIsConcat DEF NerInv, NerTypeOK
    <3>3. (outcome \o <<inFlight>>) \o queue = outcome \o (<<inFlight>> \o queue)
      BY <3>1, ConcatAssociative
    <3> QED
      BY <2>2, <1>2, <1>3, <1>4, <3>2, <3>3 DEF NerInv, JobsInOrder, Pending
  <2> QED
    BY <2>1, <2>2
<1> QED
  BY <1>3, <1>6, <1>8, <1>9 DEF NerInv, IdleWorkerNoQueue

LEMMA WorkerDeathStep ==
    ASSUME NerInv, worker' = "dead", task' = NoJob, worker = "dead" \/ worker = "loading",
           OnWorkerDeath,
           UNCHANGED <<ready, inbox, full, entered, refused>>,
           exitDue' \in BOOLEAN, errorDue' \in BOOLEAN, term' \in {"no", "wait", "done"}
    PROVE  NerInv'
<1> USE JobFacts
<1>1. CASE alive
  <2>1. /\ alive' = FALSE /\ inFlight' = NoJob /\ queue' = <<>>
        /\ outcome' = outcome \o Pending /\ died' = died + 1
    BY <1>1 DEF OnWorkerDeath
  <2>2. outcome' \in Seq(Job) /\ outcome' \o <<>> = outcome'
    BY <2>1, PendingType, ConcatProperties, ConcatEmptySeq DEF NerInv, NerTypeOK
  <2>3. JobsInOrder'
    BY <2>1, <2>2 DEF NerInv, JobsInOrder, Pending
  <2>4. NerTypeOK'
    <3>1. queue' \in Seq(Job) /\ Len(queue') <= QueueMax
      BY <2>1, EmptySeq
    <3>2. died' \in 0 .. 1
      BY <1>1, <2>1 DEF NerInv, Process
    <3>3. inbox' \in Seq(Message) /\ ready' \in BOOLEAN /\ full' \subseteq Job
          /\ refused' \subseteq Job /\ entered' \in Seq(Job)
      BY DEF NerInv, NerTypeOK
    <3> QED
      BY <2>1, <2>2, <3>1, <3>2, <3>3 DEF NerTypeOK
  <2>5. Flight' /\ Process'
    BY <2>1 DEF NerInv, Flight, Process
  <2> QED
    BY <2>1, <2>3, <2>4, <2>5 DEF NerInv, IdleWorkerNoQueue
<1>2. CASE ~alive
  BY <1>2 DEF OnWorkerDeath, NerInv, NerTypeOK, Flight, Process, JobsInOrder,
              IdleWorkerNoQueue, Pending
<1> QED
  BY <1>1, <1>2

LEMMA DetectorStep == ASSUME NerInv, Detector PROVE NerInv'
<1>1. CASE ExitEvent
  <2>1. worker = "dead" /\ task = NoJob
    BY <1>1 DEF ExitEvent, NerInv, Flight, Process
  <2> QED
    BY <1>1, <2>1, WorkerDeathStep DEF ExitEvent, workerVars, NerInv, NerTypeOK
<1>2. CASE ErrorEvent
  <2>1. worker = "dead" /\ task = NoJob
    BY <1>2 DEF ErrorEvent, NerInv, Flight, Process
  <2> QED
    BY <1>2, <2>1, WorkerDeathStep DEF ErrorEvent, workerVars, NerInv, NerTypeOK
<1>3. CASE TerminateTimeout
  BY <1>3, JobFacts DEF TerminateTimeout, detectorVars, NerInv, NerTypeOK, Flight, Process, JobsInOrder,
              IdleWorkerNoQueue, Pending
<1> QED
  BY <1>1, <1>2, <1>3, ReadyStep, ReplyStep DEF Detector, Receive

LEMMA TerminateStep == ASSUME NerInv, Terminate PROVE NerInv'
BY JobFacts DEF Terminate, workerVars, NerInv, NerTypeOK, Flight, Process, JobsInOrder,
                IdleWorkerNoQueue, Pending

\* The worker speaks only when its last word has been heard.
LEMMA SayFacts ==
    ASSUME inbox = <<>>, NEW kind \in {"ready", "result", "error"}, NEW j \in Job \cup {NoJob},
           Say(kind, j)
    PROVE  /\ inbox' \in Seq(Message) /\ Len(inbox') = 1 /\ inbox' # <<>>
           /\ Head(inbox').kind = kind /\ Head(inbox').job = j
<1>1. inbox' = <<[kind |-> kind, job |-> j]>> /\ [kind |-> kind, job |-> j] \in Message
  BY DEF Say, Message
<1> QED
  BY <1>1

LEMMA WorkerStep == ASSUME NerInv, Worker PROVE NerInv'
<1> USE JobFacts
<1>1. CASE ModelLoaded
  <2>1. /\ inbox = <<>> /\ worker = "loading" /\ worker' = "up" /\ Say("ready", NoJob)
        /\ task = NoJob /\ ~ready /\ inFlight = NoJob
        /\ UNCHANGED <<task, exitDue, errorDue>> /\ WorkerOnly
    BY <1>1 DEF ModelLoaded, NerInv, Process
  <2>2. /\ inbox' \in Seq(Message) /\ Len(inbox') = 1 /\ inbox' # <<>>
        /\ Head(inbox').kind = "ready" /\ Head(inbox').job = NoJob
    BY <2>1, SayFacts
  <2> QED
    BY <2>1, <2>2 DEF WorkerOnly, detectorVars, NerInv, NerTypeOK, Flight, Process, JobsInOrder,
              IdleWorkerNoQueue, Pending
<1>2. CASE ModelFails
  <2>1. /\ inbox = <<>> /\ worker = "loading" /\ worker' = "dead" /\ exitDue' = TRUE
        /\ task = NoJob /\ ~ready /\ inFlight = NoJob
        /\ UNCHANGED <<task, errorDue>> /\ WorkerOnly
    BY <1>2 DEF ModelFails, NerInv, Process
  <2>2. CASE inbox' = inbox
    BY <2>1, <2>2 DEF WorkerOnly, detectorVars, NerInv, NerTypeOK, Flight, Process, JobsInOrder,
              IdleWorkerNoQueue, Pending
  <2>3. CASE Say("error", NoJob)
    <3>1. /\ inbox' \in Seq(Message) /\ Len(inbox') = 1 /\ inbox' # <<>>
          /\ Head(inbox').kind = "error" /\ Head(inbox').job = NoJob
      BY <2>1, <2>3, SayFacts
    <3> QED
      BY <2>1, <3>1 DEF WorkerOnly, detectorVars, NerInv, NerTypeOK, Flight, Process, JobsInOrder,
              IdleWorkerNoQueue, Pending
  <2> QED
    BY <1>2, <2>2, <2>3 DEF ModelFails
<1>3. CASE ForkFails
  <2>1. worker = "loading" /\ task = NoJob
    BY <1>3 DEF ForkFails, NerInv, Process
  <2> QED
    BY <1>3, <2>1, WorkerDeathStep DEF ForkFails, NerInv, NerTypeOK
<1>4. CASE Infer
  <2>1. PICK kind \in {"result", "error"} : Say(kind, task)
    BY <1>4 DEF Infer
  <2>2. /\ worker = "up" /\ task # NoJob /\ task' = NoJob /\ inbox = <<>> /\ inFlight = task
        /\ task \in Job /\ ready
        /\ UNCHANGED <<worker, exitDue, errorDue>> /\ WorkerOnly
    BY <1>4 DEF Infer, NerInv, NerTypeOK, Flight
  <2>3. /\ inbox' \in Seq(Message) /\ Len(inbox') = 1 /\ inbox' # <<>>
        /\ Head(inbox').kind = kind /\ Head(inbox').job = task
    BY <2>1, <2>2, SayFacts
  <2> QED
    BY <2>2, <2>3 DEF WorkerOnly, detectorVars, NerInv, NerTypeOK, Flight, Process, JobsInOrder,
              IdleWorkerNoQueue, Pending
<1>5. CASE WorkerDies
  BY <1>5 DEF WorkerDies, WorkerOnly, detectorVars, NerInv, NerTypeOK, Flight, Process, JobsInOrder,
              IdleWorkerNoQueue, Pending
<1> QED
  BY <1>1, <1>2, <1>3, <1>4, <1>5 DEF Worker

-----------------------------------------------------------------------------
(* The wrapper's steps, and the theorems.                                  *)

LEMMA NerInitially == Init => NerInv
<1> SUFFICES ASSUME Init PROVE NerInv
  OBVIOUS
<1> USE JobFacts DEF Init, NerInit
<1>1. NerTypeOK
  <2>1. queue \in Seq(Job) /\ Len(queue) <= QueueMax
    BY EmptySeq
  <2>2. inbox \in Seq(Message) /\ entered \in Seq(Job) /\ outcome \in Seq(Job)
    BY EmptySeq
  <2>3. /\ ready \in BOOLEAN /\ alive \in BOOLEAN
        /\ exitDue \in BOOLEAN /\ errorDue \in BOOLEAN
    OBVIOUS
  <2>4. /\ term \in {"no", "wait", "done"} /\ worker \in {"loading", "up", "dead"}
        /\ inFlight \in Job \cup {NoJob} /\ task \in Job \cup {NoJob}
        /\ full \subseteq Job /\ refused \subseteq Job
    OBVIOUS
  <2>5. died \in 0 .. 1
    OBVIOUS
  <2> QED
    BY <2>1, <2>2, <2>3, <2>4, <2>5 DEF NerTypeOK
<1>2. Flight /\ Process /\ IdleWorkerNoQueue
  BY DEF Flight, Process, IdleWorkerNoQueue
<1>3. JobsInOrder
  BY DEF JobsInOrder, Pending
<1> QED
  BY <1>1, <1>2, <1>3 DEF NerInv

LEMMA NerUnchanged == ASSUME NerInv, UNCHANGED nerVars PROVE NerInv'
BY DEF nerVars, detectorVars, workerVars, NerInv, NerTypeOK, Flight, Process, JobsInOrder,
       IdleWorkerNoQueue, Pending

LEMMA NerStep == NerInv /\ FrameType /\ [Next]_vars => NerInv'
<1> SUFFICES ASSUME NerInv, FrameType, [Next]_vars PROVE NerInv'
  OBVIOUS
<1>1. CASE UNCHANGED vars
  BY <1>1, NerUnchanged DEF vars
<1>2. CASE Spawn \/ SpawnFails \/ ChildDies \/ GraceTimeout \/ TermTimeout \/ Exit
  BY <1>2, NerUnchanged DEF Spawn, SpawnFails, ChildDies, GraceTimeout, TermTimeout, Exit
<1>3. CASE ClientEof \/ Signal
  BY <1>3, NerUnchanged DEF ClientEof, Signal, GracefulShutdown
<1>4. CASE ChildExitEvent
  BY <1>4, TerminateStep DEF ChildExitEvent, Conclude
<1>5. CASE Frame
  <2>1. ASSUME NEW r \in Req, ClientRequest(r) PROVE NerInv'
    BY <2>1, EnqueueStep DEF ClientRequest, Req
  <2>2. ASSUME NEW r \in Req, ClientAnswers(r) \/ ServerRequest(r) \/ ServerAnswers(r)
        PROVE  NerInv'
    BY <2>2, NerUnchanged DEF ClientAnswers, ServerRequest, ServerAnswers
  <2>3. CASE ReadRequest
    <3>1. Enqueue(Head(out).req)
      BY <2>3 DEF ReadRequest
    <3>2. Head(out).req \in Job
      <4>1. Head(out) \in [kind : {"request", "response"}, req : Req]
        BY <2>3, HeadTailProperties DEF ReadRequest, FrameType
      <4> QED
        BY <4>1 DEF Req
    <3> QED
      BY <3>1, <3>2, EnqueueStep
  <2>4. CASE ReadResponse
    BY <2>4, NerUnchanged DEF ReadResponse
  <2> QED
    BY <1>5, <2>1, <2>2, <2>3, <2>4 DEF Frame
<1>6. CASE Ner
  BY <1>6, DetectorStep, WorkerStep DEF Ner
<1> QED
  BY <1>1, <1>2, <1>3, <1>4, <1>5, <1>6 DEF Next, Shutdown

LEMMA MapFacts ==
    /\ Req = Job
    /\ \A r \in Req : Key(r) \in Keys
BY DEF Req, Key, Keys, Dir

\* Recording a request, or an answer, keeps the maps in shape.
LEMMA TrackType ==
    ASSUME FrameType, NEW r \in Req, Track(r)
    PROVE  /\ pend' \in [Keys -> Req \cup {NoJob}] /\ pairedWith' \in [Req -> Req \cup {NoJob}]
           /\ clash' \subseteq Req
BY MapFacts DEF FrameType, Track

LEMMA MatchType ==
    ASSUME FrameType, NEW r \in Req, Match(r), out' \in Seq([kind : {"request", "response"}, req : Req])
    PROVE  FrameType'
BY MapFacts DEF FrameType, Match

LEMMA FrameStep == FrameType /\ [Next]_vars => FrameType'
<1> SUFFICES ASSUME FrameType, [Next]_vars PROVE FrameType'
  OBVIOUS
<1> DEFINE Wire == [kind : {"request", "response"}, req : Req]
<1>1. CASE UNCHANGED vars
  BY <1>1 DEF vars, frameVars, childVars, FrameType
<1>2. CASE Spawn \/ SpawnFails \/ ChildDies \/ GraceTimeout \/ TermTimeout \/ Exit \/ Ner
  BY <1>2 DEF Spawn, SpawnFails, ChildDies, GraceTimeout, TermTimeout, Exit, Ner, frameVars,
              childVars, FrameType
<1>3. CASE ClientEof \/ Signal \/ ChildExitEvent
  BY <1>3 DEF ClientEof, Signal, GracefulShutdown, ChildExitEvent, frameVars, FrameType
<1>4. ASSUME NEW r \in Req, ClientRequest(r) PROVE FrameType'
  BY <1>4, TrackType DEF ClientRequest, childVars, FrameType
<1>5. ASSUME NEW r \in Req, ClientAnswers(r) PROVE FrameType'
  BY <1>5, MatchType DEF ClientAnswers, childVars, FrameType
<1>6. ASSUME NEW r \in Req, ServerRequest(r) \/ ServerAnswers(r) PROVE FrameType'
  <2>1. PICK kind \in {"request", "response"} : Written(kind, r)
    BY <1>6 DEF ServerRequest, ServerAnswers
  <2>2. [kind |-> kind, req |-> r] \in Wire
    BY <1>6
  <2>3. out' \in Seq(Wire)
    BY <2>1, <2>2, AppendProperties DEF Written, FrameType
  <2> QED
    BY <1>6, <2>3 DEF ServerRequest, ServerAnswers, FrameType
<1>7. CASE ReadRequest \/ ReadResponse
  <2>1. Head(out) \in Wire /\ Tail(out) \in Seq(Wire) /\ out' = Tail(out)
    BY <1>7, HeadTailProperties DEF ReadRequest, ReadResponse, FrameType
  <2>2. Head(out).req \in Req
    BY <2>1
  <2>3. CASE ReadRequest
    BY <2>1, <2>2, <2>3, TrackType DEF ReadRequest, FrameType
  <2>4. CASE ReadResponse
    BY <2>1, <2>2, <2>4, MatchType DEF ReadResponse
  <2> QED
    BY <1>7, <2>3, <2>4
<1> QED
  BY <1>1, <1>2, <1>3, <1>4, <1>5, <1>6, <1>7 DEF Next, Frame, Shutdown

LEMMA EndStep == EndType /\ [Next]_vars => EndType'
<1> SUFFICES ASSUME EndType, [Next]_vars PROVE EndType'
  OBVIOUS
<1>1. CASE UNCHANGED vars
  BY <1>1 DEF vars, childVars, endVars, EndType
<1>2. CASE Spawn \/ SpawnFails \/ ChildDies \/ GraceTimeout \/ TermTimeout \/ Exit \/ Ner
  BY <1>2 DEF Spawn, SpawnFails, ChildDies, GraceTimeout, TermTimeout, Exit, Ner, childVars,
              endVars, EndType
<1>3. CASE ClientEof \/ Signal
  BY <1>3, ZenonT(60) DEF ClientEof, Signal, GracefulShutdown, Reason, EndType
<1>4. CASE ChildExitEvent
  <2>1. cause' \in Reason
    BY <1>4 DEF ChildExitEvent, Reason, EndType
  <2>2. [reason |-> cause', code |-> ExitCode(cause'), child |-> child] \in ShutLine
    BY <2>1 DEF ShutLine, ExitCode, EndType
  <2>3. shut' \in Seq(ShutLine)
    BY <1>4, <2>2, AppendProperties DEF ChildExitEvent, Conclude, EndType
  <2> QED
    BY <1>4, <2>1, <2>3 DEF ChildExitEvent, Conclude, EndType
<1>5. CASE Frame
  BY <1>5 DEF Frame, ClientRequest, ClientAnswers, ServerRequest, ServerAnswers, ReadRequest,
              ReadResponse, childVars, endVars, EndType
<1> QED
  BY <1>1, <1>2, <1>3, <1>4, <1>5 DEF Next, Shutdown

-----------------------------------------------------------------------------
(* The shutdown.                                                           *)

\* Where the one shutdown is, and what has been written by then.
Stage ==
    /\ ~childAlive <=> shut # <<>>
    /\ ~childAlive => child = "dead"
    /\ cause = "none" => shut = <<>> /\ (sd = "none" \/ (sd = "exited" /\ child = "starting"))
    /\ sd = "none" => cause = "none"
    /\ sd \in {"grace", "term", "kill"} => shut = <<>> /\ cause # "child_exited"
    /\ sd = "terminating" => shut # <<>>
    /\ shut = <<>> => (killed <=> sd = "kill")

EndInv == Stage /\ ShutdownTruthful

LEMMA ConcludeStep ==
    ASSUME EndType, EndInv, ChildExitEvent
    PROVE  EndInv'
<1>1. /\ shut = <<>> /\ childAlive /\ childAlive' = FALSE /\ child = "dead" /\ child' = "dead"
      /\ killed' = killed /\ (killed <=> sd = "kill") /\ sd # "exited"
      /\ sd' = "terminating"
  BY DEF EndType, EndInv, Stage, ChildExitEvent, Conclude, Running
<1>2. cause' # "none" /\ (cause' = "child_exited" => sd # "kill")
  <2>1. CASE cause = "none"
    BY <2>1, <1>1 DEF EndInv, Stage, ChildExitEvent, EndType
  <2>2. CASE cause # "none"
    BY <2>2, <1>1 DEF EndInv, Stage, ChildExitEvent, EndType
  <2> QED
    BY <2>1, <2>2
<1> DEFINE line == [reason |-> cause', code |-> ExitCode(cause'), child |-> child]
<1>3. shut' = <<line>>
  BY <1>1 DEF ChildExitEvent, Conclude
<1>4. /\ line.child = "dead" /\ line.reason = cause'
      /\ line.code = "one" <=> killed'
  BY <1>1, <1>2 DEF ExitCode
<1>5. Len(shut') = 1 /\ shut' # <<>> /\ DOMAIN shut' = {1} /\ shut'[1] = line
  <2> HIDE DEF line
  <2> QED
    BY <1>3
<1>6. ShutdownTruthful'
  <2> HIDE DEF line
  <2> QED
    BY <1>1, <1>4, <1>5 DEF ShutdownTruthful
<1>7. Stage'
  BY <1>1, <1>2, <1>5 DEF Stage
<1> QED
  BY <1>6, <1>7 DEF EndInv

LEMMA EndInvStep == EndType /\ EndInv /\ [Next]_vars => EndInv'
<1> SUFFICES ASSUME EndType, EndInv, [Next]_vars PROVE EndInv'
  OBVIOUS
<1> USE DEF EndInv, Stage, ShutdownTruthful
<1>1. CASE UNCHANGED <<childAlive, child, cause, sd, shut, killed>>
  BY <1>1
<1>2. CASE Spawn
  BY <1>2 DEF Spawn, endVars, EndType
<1>3. CASE SpawnFails
  BY <1>3 DEF SpawnFails, childVars, EndType
<1>4. CASE ChildDies
  BY <1>4 DEF ChildDies, Running, endVars, EndType
<1>5. CASE ClientEof \/ Signal
  BY <1>5 DEF ClientEof, Signal, GracefulShutdown, Running, EndType
<1>6. CASE ChildExitEvent
  BY <1>6, ConcludeStep
<1>7. CASE GraceTimeout
  BY <1>7 DEF GraceTimeout, childVars, EndType
<1>8. CASE TermTimeout
  BY <1>8 DEF TermTimeout, childVars, EndType
<1>9. CASE Exit
  BY <1>9 DEF Exit, childVars, EndType
<1>10. CASE Frame \/ Ner \/ UNCHANGED vars
  BY <1>1, <1>10 DEF Frame, ClientRequest, ClientAnswers, ServerRequest, ServerAnswers,
              ReadRequest, ReadResponse, Ner, vars, childVars, endVars
<1> QED
  BY <1>2, <1>3, <1>4, <1>5, <1>6, <1>7, <1>8, <1>9, <1>10 DEF Next, Shutdown

-----------------------------------------------------------------------------
(* The pairing of responses.                                               *)

\* A frame in the child's pipe is where its request's state says it is, once.
WireInv ==
    /\ \A i \in DOMAIN out : st[out[i].req] = IF out[i].kind = "request" THEN "sent" ELSE "answered"
    /\ \A i, j \in DOMAIN out : out[i].req = out[j].req => i = j

\* Two requests under one key at once have clashed; a request alone has its entry.
PairInv ==
    /\ \A r \in Req : Awaited(r) => pend[Key(r)] = r \/ r \in clash
    /\ \A q, r \in Req : Awaited(q) /\ Awaited(r) /\ q # r /\ Key(q) = Key(r) => q \in clash
    /\ Paired

LEMMA TrackPairs ==
    ASSUME FrameType, PairInv, NEW r \in Req, Track(r), st[r] \in {"new", "sent"},
           NEW x \in {"seen", "stray"}, st' = [st EXCEPT ![r] = x]
    PROVE  PairInv'
<1> DEFINE same == {q \in Req \ {r} : Awaited(q) /\ Dir(q) = Dir(r) /\ IdOf[q] = IdOf[r]}
<1>1. /\ pend' = [pend EXCEPT ![Key(r)] = r] /\ pairedWith' = pairedWith
      /\ clash' = IF same = {} THEN clash ELSE clash \cup same \cup {r}
  BY DEF Track
<1>2. clash \subseteq clash' /\ same \subseteq clash' /\ (same # {} => r \in clash')
  BY <1>1
<1>3. \A q \in Req : q # r /\ Awaited(q) /\ Key(q) = Key(r) => q \in same
  BY DEF Key
<1>4. /\ \A q \in Req : q # r => (Awaited(q)' <=> Awaited(q))
      /\ \A q \in Req : st'[q] = "done" => st[q] = "done"
  BY DEF Awaited, FrameType
<1> HIDE DEF same
<1>5. pend'[Key(r)] = r /\ \A q \in Req : Key(q) # Key(r) => pend'[Key(q)] = pend[Key(q)]
  BY <1>1, MapFacts DEF FrameType
<1>6. ASSUME NEW q \in Req, Awaited(q)' PROVE pend'[Key(q)] = q \/ q \in clash'
  BY <1>2, <1>3, <1>4, <1>5, <1>6 DEF PairInv
<1>7. ASSUME NEW q \in Req, NEW p \in Req, Awaited(q)', Awaited(p)', q # p, Key(q) = Key(p)
      PROVE  q \in clash'
  BY <1>2, <1>3, <1>4, <1>7 DEF PairInv
<1>8. Paired'
  BY <1>1, <1>2, <1>4 DEF PairInv, Paired
<1> QED
  BY <1>6, <1>7, <1>8 DEF PairInv, Key, Dir

LEMMA MatchPairs ==
    ASSUME FrameType, PairInv, NEW r \in Req, Match(r), Awaited(r)
    PROVE  PairInv'
<1>1. /\ pend' = [pend EXCEPT ![Key(r)] = NoJob] /\ clash' = clash
      /\ pairedWith' = [pairedWith EXCEPT ![r] = pend[Key(r)]]
      /\ st' = [st EXCEPT ![r] = "done"]
  BY DEF Match
<1>2. /\ \A q \in Req : q # r => (Awaited(q)' <=> Awaited(q)) /\ (st'[q] = "done" <=> st[q] = "done")
      /\ ~Awaited(r)'
  BY <1>1 DEF Awaited, FrameType
<1>3. \A q \in Req : Key(q) # Key(r) => pend'[Key(q)] = pend[Key(q)]
  BY <1>1, MapFacts DEF FrameType
<1>4. pairedWith'[r] = r \/ r \in clash'
  BY <1>1 DEF FrameType, PairInv
<1>5. \A q \in Req : q # r => pairedWith'[q] = pairedWith[q]
  BY <1>1 DEF FrameType
<1>6. ASSUME NEW q \in Req, Awaited(q)' PROVE pend'[Key(q)] = q \/ q \in clash'
  BY <1>1, <1>2, <1>3, <1>6 DEF PairInv
<1>7. ASSUME NEW q \in Req, NEW p \in Req, Awaited(q)', Awaited(p)', q # p, Key(q) = Key(p)
      PROVE  q \in clash'
  BY <1>1, <1>2, <1>7 DEF PairInv
<1>8. Paired'
  BY <1>1, <1>2, <1>4, <1>5 DEF PairInv, Paired
<1> QED
  BY <1>6, <1>7, <1>8 DEF PairInv, Key, Dir

\* Where neither map nor a request's waiting changes.
LEMMA PairsStay ==
    ASSUME PairInv, UNCHANGED <<pend, pairedWith, clash>>,
           \A q \in Req : Awaited(q)' <=> Awaited(q),
           \A q \in Req : st'[q] = "done" <=> st[q] = "done"
    PROVE  PairInv'
BY DEF PairInv, Paired, Key, Dir

\* The frames of the pipe are frames of requests.
LEMMA WireFrames ==
    ASSUME FrameType
    PROVE  \A i \in DOMAIN out : out[i] \in [kind : {"request", "response"}, req : Req] /\ out[i].req \in Req
<1> DEFINE Wire == [kind : {"request", "response"}, req : Req]
<1>1. out \in Seq(Wire)
  BY DEF FrameType
<1>2. \A f \in Wire : f.req \in Req
  OBVIOUS
<1> HIDE DEF Wire
<1>3. DOMAIN out = 1 .. Len(out) /\ \A i \in 1 .. Len(out) : out[i] \in Wire
  BY <1>1, ElementOfSeq, LenProperties
<1>4. \A i \in DOMAIN out : out[i] \in Wire /\ out[i].req \in Req
  BY <1>2, <1>3
<1> QED
  BY <1>4 DEF Wire

\* The frame read is the first; the others keep their requests' states.
LEMMA WireTail ==
    ASSUME FrameType, WireInv, out # <<>>, out' = Tail(out), NEW x,
           st' = [st EXCEPT ![Head(out).req] = x]
    PROVE  WireInv'
<1> DEFINE Wire == [kind : {"request", "response"}, req : Req]
<1>1. /\ out \in Seq(Wire) /\ Len(out) \in Nat /\ Len(out) # 0 /\ DOMAIN out = 1 .. Len(out)
      /\ Tail(out) \in Seq(Wire) /\ Len(out') = Len(out) - 1 /\ DOMAIN out' = 1 .. Len(out')
      /\ Head(out) = out[1]
  BY HeadTailProperties, LenProperties, EmptySeq DEF FrameType
<1>2. \A i \in DOMAIN out' : i + 1 \in DOMAIN out /\ out'[i] = out[i + 1] /\ out[i + 1].req \in Req
  <2>1. \A i \in 1 .. Len(Tail(out)) : Tail(out)[i] = out[i + 1]
    BY <1>1, HeadTailProperties
  <2>2. \A i \in DOMAIN out : out[i] \in Wire
    BY <1>1, ElementOfSeq
  <2> QED
    BY <1>1, <2>1, <2>2
<1>3. \A i \in DOMAIN out' : out'[i].req # Head(out).req
  BY <1>1, <1>2 DEF WireInv
<1>4. \A i \in DOMAIN out' : st'[out'[i].req] = st[out'[i].req]
  BY <1>2, <1>3 DEF FrameType
<1>5. \A i \in DOMAIN out' : st'[out'[i].req] = IF out'[i].kind = "request" THEN "sent" ELSE "answered"
  BY <1>2, <1>4 DEF WireInv
<1>6. ASSUME NEW i \in DOMAIN out', NEW j \in DOMAIN out', out'[i].req = out'[j].req PROVE i = j
  <2>1. i + 1 = j + 1
    BY <1>2, <1>6 DEF WireInv
  <2> QED
    BY <1>1, <2>1
<1> QED
  BY <1>5, <1>6 DEF WireInv

\* What is written comes last, and its request has no other frame there.
LEMMA WireAppend ==
    ASSUME FrameType, WireInv, NEW r \in Req, NEW kind \in {"request", "response"}, Written(kind, r),
           st[r] \notin {"sent", "answered"},
           st' = [st EXCEPT ![r] = IF kind = "request" THEN "sent" ELSE "answered"]
    PROVE  WireInv'
<1> DEFINE Wire == [kind : {"request", "response"}, req : Req]
           f == [kind |-> kind, req |-> r]
<1>1. /\ out \in Seq(Wire) /\ Len(out) \in Nat /\ DOMAIN out = 1 .. Len(out)
      /\ DOMAIN out' = 1 .. Len(out) + 1
      /\ \A i \in DOMAIN out : out'[i] = out[i] /\ out[i].req \in Req
      /\ out'[Len(out) + 1] = f
  <2>1. out \in Seq(Wire) /\ f \in Wire /\ out' = Append(out, f)
    BY DEF FrameType, Written
  <2>2. \A i \in DOMAIN out : out[i].req \in Req
    BY WireFrames
  <2> QED
    BY <2>1, <2>2, AppendProperties, LenProperties
<1>2. \A i \in DOMAIN out : out[i].req # r
  BY <1>1 DEF WireInv
<1>3. \A i \in DOMAIN out : st'[out[i].req] = st[out[i].req]
  BY <1>1, <1>2 DEF FrameType
<1>4. st'[r] = IF kind = "request" THEN "sent" ELSE "answered"
  BY DEF FrameType
<1>5. ASSUME NEW i \in DOMAIN out'
      PROVE  st'[out'[i].req] = IF out'[i].kind = "request" THEN "sent" ELSE "answered"
  <2>1. CASE i \in DOMAIN out
    BY <2>1, <1>1, <1>3 DEF WireInv
  <2>2. CASE i = Len(out) + 1
    BY <2>2, <1>1, <1>4
  <2> QED
    BY <1>1, <2>1, <2>2
<1>6. ASSUME NEW i \in DOMAIN out', NEW j \in DOMAIN out', out'[i].req = out'[j].req PROVE i = j
  <2>1. CASE i \in DOMAIN out /\ j \in DOMAIN out
    BY <2>1, <1>1, <1>6 DEF WireInv
  <2>2. CASE i = Len(out) + 1 \/ j = Len(out) + 1
    BY <2>2, <1>1, <1>2, <1>6
  <2> QED
    BY <1>1, <2>1, <2>2
<1> QED
  BY <1>5, <1>6 DEF WireInv

\* A request that is not in the pipe may change its state alone.
LEMMA WireStays ==
    ASSUME FrameType, WireInv, out' = out, NEW r \in Req, st[r] \notin {"sent", "answered"},
           NEW x, st' = [st EXCEPT ![r] = x]
    PROVE  WireInv'
<1>1. \A i \in DOMAIN out : out[i].req \in Req
  BY WireFrames
<1>2. \A i \in DOMAIN out : out[i].req # r
  BY DEF WireInv
<1>3. \A i \in DOMAIN out : st'[out[i].req] = st[out[i].req]
  BY <1>1, <1>2 DEF FrameType
<1> QED
  BY <1>3 DEF WireInv

LEMMA PairStep ==
    FrameType /\ WireInv /\ PairInv /\ [Next]_vars => (WireInv /\ PairInv)'
<1> SUFFICES ASSUME FrameType, WireInv, PairInv, [Next]_vars PROVE (WireInv /\ PairInv)'
  OBVIOUS
<1>1. CASE UNCHANGED <<st, pend, pairedWith, clash, out>>
  BY <1>1, PairsStay DEF WireInv, Awaited
<1>2. ASSUME NEW r \in Req, ClientRequest(r) PROVE (WireInv /\ PairInv)'
  <2>1. PICK x \in {"seen", "stray"} : st' = [st EXCEPT ![r] = x]
    BY <1>2 DEF ClientRequest
  <2>2. st[r] = "new" /\ Track(r) /\ out' = out
    BY <1>2 DEF ClientRequest, childVars
  <2> QED
    BY <2>1, <2>2, TrackPairs, WireStays
<1>3. ASSUME NEW r \in Req, ClientAnswers(r) PROVE (WireInv /\ PairInv)'
  <2>1. st[r] = "seen" /\ Match(r) /\ out' = out /\ Awaited(r)
    BY <1>3 DEF ClientAnswers, childVars, Awaited
  <2>2. st' = [st EXCEPT ![r] = "done"]
    BY <2>1 DEF Match
  <2> QED
    BY <2>1, <2>2, MatchPairs, WireStays
<1>4. ASSUME NEW r \in Req, ServerRequest(r) PROVE (WireInv /\ PairInv)'
  <2>1. /\ st[r] = "new" /\ st' = [st EXCEPT ![r] = "sent"] /\ Written("request", r)
        /\ UNCHANGED <<pend, pairedWith, clash>>
    BY <1>4 DEF ServerRequest
  <2> QED
    BY <2>1, PairsStay, WireAppend DEF Awaited, FrameType
<1>5. ASSUME NEW r \in Req, ServerAnswers(r) PROVE (WireInv /\ PairInv)'
  <2>1. /\ st[r] = "seen" /\ st' = [st EXCEPT ![r] = "answered"] /\ Written("response", r)
        /\ UNCHANGED <<pend, pairedWith, clash>>
    BY <1>5 DEF ServerAnswers
  <2> QED
    BY <2>1, PairsStay, WireAppend DEF Awaited, FrameType
<1>6. CASE ReadRequest \/ ReadResponse
  <2> DEFINE r == Head(out).req
  <2>1. Head(out) \in [kind : {"request", "response"}, req : Req] /\ out # <<>> /\ out' = Tail(out)
    BY <1>6, HeadTailProperties DEF ReadRequest, ReadResponse, FrameType
  <2>2. r \in Req
    BY <2>1
  <2>3. st[r] = IF Head(out).kind = "request" THEN "sent" ELSE "answered"
    <3>1. 1 \in DOMAIN out /\ Head(out) = out[1]
      BY <2>1, HeadTailProperties, LenProperties, EmptySeq DEF FrameType
    <3> QED
      BY <3>1 DEF WireInv
  <2>4. CASE ReadRequest
    <3>1. st' = [st EXCEPT ![r] = "seen"] /\ Track(r) /\ st[r] = "sent"
      BY <2>3, <2>4 DEF ReadRequest
    <3> QED
      BY <2>1, <2>2, <3>1, TrackPairs, WireTail
  <2>5. CASE ReadResponse
    <3>1. Match(r) /\ Awaited(r)
      BY <2>3, <2>5 DEF ReadResponse, Awaited
    <3>2. st' = [st EXCEPT ![r] = "done"]
      BY <3>1 DEF Match
    <3> QED
      BY <2>1, <2>2, <3>1, <3>2, MatchPairs, WireTail
  <2> QED
    BY <1>6, <2>4, <2>5
<1>7. CASE ~Frame
  BY <1>1, <1>7 DEF Next, Shutdown, Spawn, SpawnFails, ChildDies, Ner, ClientEof, Signal,
              GracefulShutdown, ChildExitEvent, GraceTimeout, TermTimeout, Exit, frameVars,
              childVars, vars
<1> QED
  BY <1>2, <1>3, <1>4, <1>5, <1>6, <1>7 DEF Frame

-----------------------------------------------------------------------------
(* What a refusal can be traced to.                                        *)

\* The detector stops accepting jobs for one of two reasons, both in the trail.
GivenUp == alive \/ died = 1 \/ shut # <<>>

ExplainInv == GivenUp /\ RefusedExplained

\* Where the reasons stay and no refusal is new.
LEMMA ExplainStays ==
    ASSUME ExplainInv, refused' = refused \/ ~alive,
           \/ UNCHANGED <<alive, died>> /\ shut' = shut
           \/ died' = 1 \/ shut' # <<>>
    PROVE  ExplainInv'
BY DEF ExplainInv, GivenUp, RefusedExplained

LEMMA ExplainStep == NerInv /\ FrameType /\ EndType /\ ExplainInv /\ [Next]_vars => ExplainInv'
<1> SUFFICES ASSUME NerInv, FrameType, EndType, ExplainInv, [Next]_vars PROVE ExplainInv'
  OBVIOUS
<1>1. ASSUME NEW j \in Req, Enqueue(j), UNCHANGED endVars PROVE ExplainInv'
  <2>1. UNCHANGED <<alive, died, shut>> /\ (refused' = refused \/ ~alive)
    BY <1>1 DEF Enqueue, Refuse, DropNewest, Accept, endVars
  <2> QED
    BY <2>1, ExplainStays
<1>2. ASSUME OnWorkerDeath, UNCHANGED <<refused, shut>> PROVE ExplainInv'
  <2>1. alive => died' = 1
    BY <1>2 DEF OnWorkerDeath, NerInv, Process
  <2>2. ~alive => UNCHANGED <<alive, died>>
    BY <1>2 DEF OnWorkerDeath
  <2> QED
    BY <1>2, <2>1, <2>2, ExplainStays
<1>3. ASSUME UNCHANGED <<alive, died, refused, shut>> PROVE ExplainInv'
  BY <1>3, ExplainStays
<1>4. CASE ChildExitEvent
  <2>1. shut' # <<>> /\ refused' = refused
    BY <1>4 DEF ChildExitEvent, Conclude, Terminate, EndType
  <2> QED
    BY <2>1, ExplainStays
<1>5. CASE Ner
  <2>1. shut' = shut
    BY <1>5 DEF Ner, endVars
  <2>2. CASE ExitEvent \/ ErrorEvent \/ ForkFails
    BY <2>1, <2>2, <1>2 DEF ExitEvent, ErrorEvent, ForkFails
  <2>3. CASE TerminateTimeout \/ Receive
    BY <2>1, <2>3, <1>3 DEF TerminateTimeout, Receive, ReceiveReady, ReceiveReply, detectorVars
  <2>4. CASE ModelLoaded \/ ModelFails \/ Infer \/ WorkerDies
    BY <2>1, <2>4, <1>3 DEF ModelLoaded, ModelFails, Infer, WorkerDies, WorkerOnly, detectorVars
  <2> QED
    BY <1>5, <2>2, <2>3, <2>4 DEF Ner, Detector, Worker
<1>6. CASE Frame
  <2>1. ASSUME NEW r \in Req, ClientRequest(r) PROVE ExplainInv'
    BY <2>1, <1>1 DEF ClientRequest
  <2>2. ASSUME NEW r \in Req, ClientAnswers(r) \/ ServerRequest(r) \/ ServerAnswers(r)
        PROVE  ExplainInv'
    BY <2>2, <1>3 DEF ClientAnswers, ServerRequest, ServerAnswers, nerVars, detectorVars, endVars
  <2>3. CASE ReadRequest
    <3>1. Enqueue(Head(out).req) /\ UNCHANGED endVars
      BY <2>3 DEF ReadRequest
    <3>2. Head(out).req \in Req
      <4>1. Head(out) \in [kind : {"request", "response"}, req : Req]
        BY <2>3, HeadTailProperties DEF ReadRequest, FrameType
      <4> QED
        BY <4>1
    <3> QED
      BY <3>1, <3>2, <1>1
  <2>4. CASE ReadResponse
    BY <2>4, <1>3 DEF ReadResponse, nerVars, detectorVars, endVars
  <2> QED
    BY <1>6, <2>1, <2>2, <2>3, <2>4 DEF Frame
<1>7. CASE ~(ChildExitEvent \/ Ner \/ Frame)
  BY <1>3, <1>7 DEF Next, Shutdown, Spawn, SpawnFails, ChildDies, ClientEof, Signal,
              GracefulShutdown, GraceTimeout, TermTimeout, Exit, vars, nerVars, detectorVars, endVars
<1> QED
  BY <1>4, <1>5, <1>6, <1>7

-----------------------------------------------------------------------------
(* The theorems.                                                           *)

LEMMA WrapperInvariant == Spec => [](NerInv /\ FrameType /\ EndType)
<1>1. Init => NerInv /\ FrameType /\ EndType
  <2>1. Init => FrameType
    BY DEF Init, FrameType
  <2>2. Init => EndType
    <3> SUFFICES ASSUME Init PROVE EndType
      OBVIOUS
    <3>1. shut \in Seq(ShutLine) /\ cause \in Reason \cup {"none"}
      BY DEF Init
    <3> QED
      BY <3>1 DEF Init, EndType
  <2> QED
    BY <2>1, <2>2, NerInitially
<1>2. NerInv /\ FrameType /\ EndType /\ [Next]_vars => (NerInv /\ FrameType /\ EndType)'
  BY NerStep, FrameStep, EndStep
<1> QED
  BY <1>1, <1>2, PTL DEF Spec

LEMMA ShutdownInvariant == Spec => [](EndType /\ EndInv)
<1>1. Init => EndInv
  <2> SUFFICES ASSUME Init PROVE EndInv
    OBVIOUS
  <2>1. shut = <<>> /\ Len(shut) = 0
    BY EmptySeq DEF Init
  <2> QED
    BY <2>1 DEF Init, EndInv, Stage, ShutdownTruthful
<1>2. EndType /\ EndInv /\ [Next]_vars => (EndType /\ EndInv)'
  BY EndStep, EndInvStep
<1>3. Spec => []EndType
  BY WrapperInvariant, PTL
<1> QED
  BY <1>1, <1>2, <1>3, PTL DEF Spec

\* Every variable of a wrapper keeps its shape, and its NER queue its bound.
THEOREM WrapperTypeCorrect == Spec => []TypeOK
<1>1. NerInv /\ FrameType /\ EndType => TypeOK
  BY DEF NerInv, TypeOK
<1> QED
  BY <1>1, WrapperInvariant, PTL

\* Every job the detector accepts has one outcome, in the order of acceptance, or
\* is still pending, whatever the worker, its messages and the shutdown do.
THEOREM NerJobsInOrder == Spec => []JobsInOrder
<1>1. NerInv /\ FrameType /\ EndType => JobsInOrder
  BY DEF NerInv
<1> QED
  BY <1>1, WrapperInvariant, PTL

\* A ready worker is never idle beside a waiting job.
THEOREM NerWorkerBusy == Spec => []IdleWorkerNoQueue
<1>1. NerInv /\ FrameType /\ EndType => IdleWorkerNoQueue
  BY DEF NerInv
<1> QED
  BY <1>1, WrapperInvariant, PTL

\* A wrapper whose child was spawned exits with one line proxy.shutdown, which
\* names the cause and the escalation as they were.
THEOREM ShutdownLineTruthful == Spec => []ShutdownTruthful
<1>1. EndType /\ EndInv => ShutdownTruthful
  BY DEF EndInv
<1> QED
  BY <1>1, ShutdownInvariant, PTL

\* A recorded response is matched with its own request unless one side used an id
\* twice at once.
THEOREM ResponsesPaired == Spec => []Paired
<1>1. Init => WireInv /\ PairInv
  <2> SUFFICES ASSUME Init PROVE WireInv /\ PairInv
    OBVIOUS
  <2>1. out = <<>> /\ DOMAIN out = {} /\ \A r \in Req : st[r] = "new"
    BY DEF Init
  <2> QED
    BY <2>1 DEF WireInv, PairInv, Paired, Awaited
<1>2. FrameType /\ WireInv /\ PairInv /\ [Next]_vars => (WireInv /\ PairInv)'
  BY PairStep
<1>3. Spec => []FrameType
  BY WrapperInvariant, PTL
<1>4. PairInv => Paired
  BY DEF PairInv
<1> QED
  BY <1>1, <1>2, <1>3, <1>4, PTL DEF Spec

\* The trail explains every job the detector ignores: the worker's death or the
\* shutdown is in it.
THEOREM RefusalsExplained == Spec => []RefusedExplained
<1>1. Init => ExplainInv
  BY DEF Init, NerInit, ExplainInv, GivenUp, RefusedExplained
<1>2. NerInv /\ FrameType /\ EndType /\ ExplainInv /\ [Next]_vars => ExplainInv'
  BY ExplainStep
<1>3. ExplainInv => RefusedExplained
  BY DEF ExplainInv
<1> QED
  BY <1>1, <1>2, <1>3, WrapperInvariant, PTL DEF Spec
=============================================================================

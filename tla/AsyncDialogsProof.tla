------------------------- MODULE AsyncDialogsProof -------------------------
(***************************************************************************)
(* Proofs about AsyncDialogs, for every number of jobs and instances: its  *)
(* invariants, and that it implements DialogQueue.                         *)
(***************************************************************************)
EXTENDS AsyncDialogs, TLAPS

USE ConstantsAssumption DEF Job, NoJob, queueVars, passVars

-----------------------------------------------------------------------------
(* The stack of event firings.                                             *)

\* A firing that is pushed is the innermost, and the others keep their order.
\* (fireAsyncDialogEvent, called)
LEMMA PushFire ==
  ASSUME NEW s \in Seq(Frame), NEW f \in Frame
  PROVE  /\ <<f>> \o s \in Seq(Frame)
         /\ Len(<<f>> \o s) = Len(s) + 1
         /\ (<<f>> \o s)[1] = f
         /\ \A k \in 2..Len(s) + 1 : (<<f>> \o s)[k] = s[k - 1]
  OBVIOUS

\* One that returns leaves the others.  (fireAsyncDialogEvent, its end)
LEMMA PopFire ==
  ASSUME NEW s \in Seq(Frame), s # <<>>
  PROVE  /\ Tail(s) \in Seq(Frame)
         /\ Len(Tail(s)) = Len(s) - 1
         /\ \A k \in 1..Len(s) - 1 : Tail(s)[k] = s[k + 1]
  OBVIOUS

\* The turn of its loop changes nothing but how many instances are left.
LEMMA TurnFire ==
  ASSUME NEW s \in Seq(Frame), s # <<>>, s[1].left # 0,
         NEW t, t = [s EXCEPT ![1].left = @ - 1]
  PROVE  /\ t \in Seq(Frame)
         /\ Len(t) = Len(s)
         /\ \A k \in 1..Len(s) : t[k].ret = s[k].ret
<1>1. Len(s) \in Nat /\ Len(s) >= 1 /\ s[1] \in Frame
  OBVIOUS
<1>2. s[1].left - 1 \in 0..Instances
  BY <1>1 DEF Frame
<1>3. [s[1] EXCEPT !.left = @ - 1] \in Frame
  BY <1>1, <1>2 DEF Frame
<1>4. t = [s EXCEPT ![1] = [s[1] EXCEPT !.left = @ - 1]]
  OBVIOUS
<1>5. t \in Seq(Frame) /\ Len(t) = Len(s)
  BY <1>1, <1>3, <1>4
<1>6. t[1].ret = s[1].ret /\ \A k \in 2..Len(s) : t[k] = s[k]
  BY <1>1, <1>4 DEF Frame
<1> QED BY <1>1, <1>5, <1>6

-----------------------------------------------------------------------------
(* The inductive invariant.                                                *)

\* An empty queue satisfies it.
LEMMA InitIInv == Init => IInv
<1> SUFFICES ASSUME Init PROVE IInv
  OBVIOUS
<1>1. TypeOK
  <2>1. fires \in Seq(Frame)
    BY DEF Init
  <2>2. 0 \in 0..MaxJobs /\ 0 \in 0..Instances /\ NoJob \in Job \cup {NoJob}
    OBVIOUS
  <2> QED BY <2>1, <2>2 DEF Init, TypeOK
<1>2. Workers /\ Nesting /\ Answers
  BY DEF Init, Workers, Nesting, Answers
<1> QED BY <1>1, <1>2 DEF IInv

\* The steps of the main thread that neither launch nor fire.
LEMMA IdleStep ==
  ASSUME IInv, Hook \/ BeginPass \/ BodyReturns \/ QueueAsyncJob \/ HandlerReturns PROVE IInv'
<1>1. TypeOK'
  BY DEF IInv, TypeOK, Hook, BeginPass, BodyReturns, PassGoesTo, QueueAsyncJob, HandlerReturns
<1>2. Workers'
  BY DEF IInv, TypeOK, Workers, Hook, BeginPass, BodyReturns, PassGoesTo, QueueAsyncJob, HandlerReturns
<1>3. Nesting'
  BY DEF IInv, TypeOK, Nesting, Hook, BeginPass, BodyReturns, PassGoesTo, QueueAsyncJob, HandlerReturns
<1>4. Answers'
  BY DEF IInv, Answers, Hook, BeginPass, BodyReturns, PassGoesTo, QueueAsyncJob, HandlerReturns
<1> QED BY <1>1, <1>2, <1>3, <1>4 DEF IInv

\* A job is launched only when no other is under way.  (process_async_jobs)
LEMMA LaunchStep == ASSUME IInv, Launch PROVE IInv'
<1>1. TypeOK'
  BY DEF IInv, TypeOK, Workers, Launch
<1>2. Workers'
  BY DEF IInv, TypeOK, Workers, Launch
<1>3. Nesting'
  BY DEF IInv, TypeOK, Nesting, Launch
<1>4. Answers'
  BY DEF IInv, TypeOK, Workers, Answers, Launch
<1> QED BY <1>1, <1>2, <1>3, <1>4 DEF IInv

\* An event is fired for the job under way, when its thread has ended.
\* (process_async_jobs)
LEMMA PollStep == ASSUME IInv, Poll PROVE IInv'
<1> DEFINE f == [job |-> last, left |-> Instances, ret |-> ret]
<1>1. started /\ last \in Job /\ last + 1 \in 0..MaxJobs
  BY DEF IInv, TypeOK, Workers, Nesting, Poll, PollThen
<1>2. CASE Ended(last)
  <2>1. /\ load' = [load EXCEPT !.id = last] /\ last' = last + 1 /\ started' = FALSE
        /\ fires' = <<f>> \o fires /\ pc' = "fire"
        /\ iterator' = "dummy" /\ UNCHANGED <<jobs, worker, ret, left>>
    BY <1>2 DEF Poll, PollThen
  <2>2. f \in Frame /\ fires \in Seq(Frame)
    BY <1>1 DEF IInv, TypeOK, Frame
  <2>3. /\ fires' \in Seq(Frame) /\ Len(fires') = Len(fires) + 1 /\ fires'[1] = f
        /\ \A k \in 2..Len(fires) + 1 : fires'[k] = fires[k - 1]
    BY <2>1, <2>2, PushFire
  <2>4. TypeOK'
    BY <1>1, <2>1, <2>3 DEF IInv, TypeOK
  <2>5. Workers'
    BY <1>1, <1>2, <2>1 DEF IInv, TypeOK, Workers, Ended
  <2>6. Nesting'
    <3>1. Len(fires) \in Nat /\ (ret = "handler" => Len(fires) > 0)
      BY <2>2 DEF IInv, TypeOK, Nesting, Poll, PollThen
    <3>2. fires' # <<>>
      BY <2>3, <3>1
    <3>3. ASSUME NEW k \in 1..Len(fires'), fires'[k].ret = "handler"
          PROVE  k < Len(fires')
      <4>1. CASE k = 1
        BY <2>3, <3>1, <3>3, <4>1
      <4>2. CASE k # 1
        <5>1. k - 1 \in 1..Len(fires) /\ fires[k - 1].ret = "handler"
          BY <2>3, <3>1, <3>3, <4>2
        <5> QED BY <2>3, <3>1, <5>1 DEF IInv, Nesting
      <4> QED BY <4>1, <4>2
    <3> QED BY <2>1, <3>2, <3>3 DEF Nesting
  <2>7. Answers'
    BY <1>1, <1>2, <2>1 DEF IInv, TypeOK, Answers, Ended
  <2> QED BY <2>4, <2>5, <2>6, <2>7 DEF IInv
<1>3. CASE ~Ended(last)
  <2>1. pc' = ret /\ UNCHANGED <<load, last, started, fires, jobs, worker, ret, iterator, left>>
        /\ pc = "poll"
    BY <1>3 DEF Poll, PollThen
  <2> QED BY <2>1 DEF IInv, TypeOK, Workers, Nesting, Answers
<1> QED BY <1>2, <1>3

\* The loop over the instances, and the return from it.
\* (fireAsyncDialogEvent)
LEMMA FireStep == ASSUME IInv, FireNext PROVE IInv'
<1>1. /\ pc = "fire" /\ fires # <<>> /\ fires \in Seq(Frame)
      /\ UNCHANGED <<jobs, last, started, worker, load, ret, left>>
      /\ iterator' \in {iterator, "scope"}
  BY DEF IInv, TypeOK, Nesting, FireNext
<1>2. Workers' /\ Answers'
  BY <1>1 DEF IInv, Workers, Answers
<1>3. CASE fires[1].left = 0
  <2>1. pc' = fires[1].ret /\ fires' = Tail(fires)
    BY <1>3 DEF FireNext
  <2>2. /\ fires' \in Seq(Frame) /\ Len(fires') = Len(fires) - 1
        /\ \A k \in 1..Len(fires) - 1 : fires'[k] = fires[k + 1]
    BY <1>1, <2>1, PopFire
  <2>3. Len(fires) \in Nat /\ Len(fires) >= 1 /\ fires[1] \in Frame
    BY <1>1
  <2>4. TypeOK'
    BY <1>1, <2>1, <2>2, <2>3 DEF IInv, TypeOK, Frame
  <2>5. pc' = "handler" => Len(fires') > 0
    <3>1. 1 \in 1..Len(fires)
      BY <2>3
    <3>2. fires[1].ret = "handler" => 1 < Len(fires)
      BY <3>1 DEF IInv, Nesting
    <3> QED BY <2>1, <2>2, <2>3, <3>2
  <2>6. ASSUME NEW k \in 1..Len(fires'), fires'[k].ret = "handler"
        PROVE  k < Len(fires')
    BY <2>2, <2>3, <2>6 DEF IInv, Nesting
  <2>7. pc' \in {"events", "step", "handler"}
    BY <2>1, <2>3 DEF Frame
  <2> QED BY <1>2, <2>2, <2>4, <2>5, <2>6, <2>7 DEF IInv, Nesting
<1>4. CASE fires[1].left # 0
  <2>1. pc' = "handler" /\ fires' = [fires EXCEPT ![1].left = @ - 1]
    BY <1>4 DEF FireNext
  <2>2. /\ fires' \in Seq(Frame) /\ Len(fires') = Len(fires)
        /\ \A k \in 1..Len(fires) : fires'[k].ret = fires[k].ret
    BY <1>1, <1>4, <2>1, TurnFire
  <2>3. TypeOK'
    BY <1>1, <2>1, <2>2 DEF IInv, TypeOK
  <2>4. fires' # <<>>
    BY <1>1, <2>2
  <2>5. Nesting'
    BY <2>1, <2>2, <2>4 DEF IInv, Nesting
  <2> QED BY <1>2, <2>3, <2>5 DEF IInv
<1> QED BY <1>3, <1>4

\* Only the thread of the job under way moves.  (show_message_async)
LEMMA WorkerStep ==
  ASSUME IInv, NEW j \in Job, Answer(j) \/ Finish(j) PROVE IInv'
<1>1. j = last /\ started
  BY DEF IInv, TypeOK, Workers, Answer, Finish
<1>2. TypeOK'
  BY DEF IInv, TypeOK, Answer, Finish
<1>3. Workers'
  BY <1>1 DEF IInv, TypeOK, Workers, Answer, Finish
<1>4. Nesting'
  BY DEF IInv, Nesting, Answer, Finish
<1>5. Answers'
  BY <1>1 DEF IInv, TypeOK, Answers, Answer, Finish
<1> QED BY <1>2, <1>3, <1>4, <1>5 DEF IInv

\* Every step preserves the inductive invariant.
LEMMA IInvStep == ASSUME IInv, [Next]_vars PROVE IInv'
<1>1. CASE Next
  BY <1>1, IdleStep, LaunchStep, PollStep, FireStep, WorkerStep DEF Next, Main
<1>2. CASE UNCHANGED vars
  BY <1>2 DEF vars, IInv, TypeOK, Workers, Nesting, Answers
<1> QED BY <1>1, <1>2

-----------------------------------------------------------------------------
(* The results.                                                            *)

\* The inductive invariant holds of every behaviour.
LEMMA Inductive == Spec => []IInv
<1> QED BY InitIInv, IInvStep, PTL DEF Spec

\* The queue, the threads and the firings keep their types.
THEOREM TypeCorrect == Spec => []TypeOK
<1>1. IInv => TypeOK
  BY DEF IInv
<1> QED BY <1>1, Inductive, PTL

\* At most one dialog is on the screen, however jobs are queued.
\* (last_job_started)
THEOREM OneDialogAtATime == Spec => []OneDialog
<1>1. IInv => OneDialog
  BY DEF IInv, TypeOK, Workers, OneDialog, AtWork
<1> QED BY <1>1, Inductive, PTL

\* An Async Dialog event finds the answer of its own dialog until a later one
\* is launched.  (ds_map_overwrite of async_load)
THEOREM AnswersInHand == Spec => []AnswerInHand
<1>1. ASSUME IInv PROVE AnswerInHand
  <2> SUFFICES ASSUME pc = "handler", last = fires[1].job + 1, ~started
               PROVE  load = [id |-> fires[1].job, status |-> fires[1].job]
    BY DEF AnswerInHand
  <2>1. fires[1].job \in Job
    <3>1. fires \in Seq(Frame) /\ fires # <<>>
      BY <1>1 DEF IInv, TypeOK, Nesting
    <3>2. fires[1] \in Frame
      BY <3>1
    <3> QED BY <3>2 DEF Frame
  <2> QED BY <1>1, <2>1 DEF IInv, Answers
<1> QED BY <1>1, Inductive, PTL

\* A step of the dialogs is a step of the queue, or none.
LEMMA QueueStep ==
  ASSUME IInv, [Next]_vars
  PROVE  [Queue!Next]_<<jobs, IF started THEN last + 1 ELSE last, last>>
<1> DEFINE shown == IF started THEN last + 1 ELSE last
           Goal == [Queue!Next]_<<jobs, shown, last>>
<1> SUFFICES Goal
  OBVIOUS
<1>1. CASE QueueAsyncJob
  BY <1>1 DEF QueueAsyncJob, Queue!Next, Queue!Queue
<1>2. CASE Launch
  BY <1>2 DEF IInv, TypeOK, Workers, Launch, Queue!Next, Queue!Show
<1>3. CASE Poll
  <2>1. started = TRUE /\ last \in Nat
    <3>1. pc = "poll"
      BY <1>3 DEF Poll, PollThen
    <3> QED BY <3>1, ConstantsAssumption DEF IInv, TypeOK, Nesting
  <2>2. /\ jobs' = jobs
        /\ \/ last' = last + 1 /\ started' = FALSE
           \/ last' = last /\ started' = started
    BY <1>3, Zenon DEF Poll, PollThen
  <2>3. CASE last' = last + 1 /\ started' = FALSE
    <3>1. shown = last + 1 /\ shown' = last + 1 /\ last < last + 1
      BY <2>1, <2>3
    <3> HIDE DEF shown
    <3>2. <<jobs, shown>>' = <<jobs, shown>>
      BY <2>2, <3>1
    <3>3. last < shown
      BY <3>1
    <3> USE DEF shown
    <3>4. Queue!Fire
      BY <2>3, <3>2, <3>3 DEF Queue!Fire
    <3> QED BY <3>4 DEF Queue!Next
  <2>4. CASE last' = last /\ started' = started
    BY <2>2, <2>4
  <2> QED BY <2>2, <2>3, <2>4
<1>4. CASE Hook \/ BeginPass \/ BodyReturns \/ FireNext \/ HandlerReturns
  BY <1>4 DEF Hook, BeginPass, BodyReturns, PassGoesTo, FireNext, HandlerReturns
<1>5. ASSUME NEW j \in Job, Answer(j) \/ Finish(j) PROVE Goal
  BY <1>5 DEF Answer, Finish
<1>6. CASE UNCHANGED vars
  BY <1>6 DEF vars
<1> HIDE DEF Goal
<1>7. CASE Main
  BY <1>2, <1>3, <1>4, <1>7 DEF Main
<1>8. CASE Next
  BY <1>1, <1>5, <1>7, <1>8, Zenon DEF Next
<1> QED BY <1>6, <1>8

\* The dialogs are shown one at a time and in order, each followed by its one
\* event.  (process_async_jobs implements DialogQueue)
THEOREM Implements == Spec => ImplementsDialogQueue
<1>1. Init => Queue!Init
  BY DEF Init, Queue!Init
<1> QED BY <1>1, QueueStep, Inductive, PTL DEF Spec, ImplementsDialogQueue, Queue!Spec
=============================================================================

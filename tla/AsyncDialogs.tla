---------------------------- MODULE AsyncDialogs ----------------------------
(***************************************************************************)
(* The asynchronous dialogs (show_message_async and its like): a queue of  *)
(* jobs, the thread that shows the dialog of one job and writes the answer *)
(* into the map async_load, and process_async_jobs, which the main thread  *)
(* calls before every step and whenever a job is queued.  It launches the  *)
(* next job or, when the last one is answered, fires the Async Dialog      *)
(* event for every instance; their code may queue further jobs.  The       *)
(* firing takes instance_event_iterator away from the pass over the        *)
(* instances that it may interrupt.                                        *)
(***************************************************************************)
EXTENDS Integers, Sequences

CONSTANTS
  MaxJobs,    \* bound: jobs queued
  Instances   \* number of instances, with an event in the step and an Async
              \* Dialog event each

ASSUME ConstantsAssumption == MaxJobs \in Nat /\ Instances \in Nat

Job == 0..MaxJobs - 1
NoJob == -1

VARIABLES
  jobs,     \* async_jobs.size()
  last,     \* last_job
  started,  \* last_job_started
  worker,   \* what the thread of each job has done; "ready": its future is
  load,     \* async_load: the "id", and the job whose answer it holds
  fires,    \* the calls of fireAsyncDialogEvent in progress, innermost first:
            \* the job, how many instances are left, where it returns to
  pc,       \* what the main thread is doing
  ret,      \* where the process_async_jobs under way returns to
  iterator, \* instance_event_iterator: "node" of the pass, "scope" of a
            \* handler, "dummy" or "NULL"
  left      \* instances behind the node the pass stands on

queueVars == <<jobs, last, started, worker, load>>
passVars == <<iterator, left>>
vars == <<jobs, last, started, worker, load, fires, pc, ret, iterator, left>>

Init ==
  /\ jobs = 0 /\ last = 0 /\ started = FALSE
  /\ worker = [j \in Job |-> "queued"]
  /\ load = [id |-> NoJob, status |-> NoJob]
  /\ fires = <<>>
  /\ pc = "hook" /\ ret = "events"
  /\ iterator = "dummy" /\ left = 0

-----------------------------------------------------------------------------
(* The main thread                                                         *)

\* extension_update_hooks, before the events of a step.
Hook ==
  /\ pc = "hook"
  /\ pc' = "launch" /\ ret' = "events"
  /\ UNCHANGED <<queueVars, fires, passVars>>

\* ENIGMA_events, of which one pass is looked at: it comes to the next
\* instance, or to its end.
PassGoesTo(more) ==
  /\ left' = IF more > 0 THEN more - 1 ELSE 0
  /\ iterator' = IF more > 0 THEN "node" ELSE "NULL"
  /\ pc' = IF more > 0 THEN "step" ELSE "hook"
  /\ UNCHANGED <<queueVars, fires, ret>>

BeginPass == pc = "events" /\ PassGoesTo(Instances)

\* An event body returns.  Nothing comes after the dummy.
BodyReturns == pc = "step" /\ PassGoesTo(IF iterator = "node" THEN left ELSE 0)

\* queue_async_job, called by event code.
QueueAsyncJob ==
  /\ pc \in {"step", "handler"} /\ jobs < MaxJobs
  /\ jobs' = jobs + 1
  /\ pc' = "launch" /\ ret' = pc
  /\ UNCHANGED <<last, started, worker, load, fires, passVars>>

\* process_async_jobs, up to the look at the future: a job is launched unless
\* the last one is under way.
Launch ==
  /\ pc = "launch"
  /\ IF last = jobs
     THEN pc' = ret /\ UNCHANGED <<started, worker>>
     ELSE /\ pc' = "poll"
          /\ started' = TRUE
          /\ worker' = IF started THEN worker ELSE [worker EXCEPT ![last] = "shown"]
  /\ UNCHANGED <<jobs, last, load, fires, ret, passVars>>

\* The future of job j is ready.  Mutant: its thread has begun.
EndedOrBegun(j) == worker[j] # "queued"
Ended(j) == worker[j] = "ready"

\* ... its thread may have ended meanwhile: then the event is fired.  next:
\* last_job afterwards.
PollThen(next) ==
  /\ pc = "poll"
  /\ IF Ended(last)
     THEN /\ load' = [load EXCEPT !.id = last]
          /\ last' = next
          /\ started' = FALSE
          /\ fires' = <<[job |-> last, left |-> Instances, ret |-> ret]>> \o fires
          /\ iterator' = "dummy"
          /\ pc' = "fire"
     ELSE pc' = ret /\ UNCHANGED <<load, last, started, fires, iterator>>
  /\ UNCHANGED <<jobs, worker, ret, left>>

\* Mutant: the job stays the next one.
PollSameJob == PollThen(last)

Poll == PollThen(last + 1)

\* The loop of fireAsyncDialogEvent.  A handler has an iterator of its own
\* (temp_event_scope).
FireNext ==
  /\ pc = "fire"
  /\ IF fires[1].left = 0
     THEN pc' = fires[1].ret /\ fires' = Tail(fires) /\ UNCHANGED iterator
     ELSE /\ pc' = "handler" /\ fires' = [fires EXCEPT ![1].left = @ - 1]
          /\ iterator' = "scope"
  /\ UNCHANGED <<queueVars, ret, left>>

\* The event of an instance returns: what it found is put back.
HandlerReturns ==
  /\ pc = "handler"
  /\ pc' = "fire"
  /\ iterator' = "dummy"
  /\ UNCHANGED <<queueVars, fires, ret, left>>

-----------------------------------------------------------------------------
(* The thread of job j                                                     *)

\* The user answers; the answer goes into async_load.
Answer(j) ==
  /\ worker[j] = "shown"
  /\ worker' = [worker EXCEPT ![j] = "answered"]
  /\ load' = [load EXCEPT !.status = j]
  /\ UNCHANGED <<jobs, last, started, fires, pc, ret, passVars>>

\* The thread ends, which makes the future ready.
Finish(j) ==
  /\ worker[j] = "answered"
  /\ worker' = [worker EXCEPT ![j] = "ready"]
  /\ UNCHANGED <<jobs, last, started, load, fires, pc, ret, passVars>>

Main == Hook \/ BeginPass \/ BodyReturns \/ Launch \/ Poll \/ FireNext \/ HandlerReturns

Next == Main \/ QueueAsyncJob \/ \E j \in Job : Answer(j) \/ Finish(j)

Spec == Init /\ [][Next]_vars

\* The main loop goes on, event code returns, and the user answers.
FairSpec == Spec /\ WF_vars(Main) /\ \A j \in Job : WF_vars(Answer(j) \/ Finish(j))

-----------------------------------------------------------------------------
Frame == [job : Job, left : 0..Instances, ret : {"events", "step", "handler"}]

\* The type of every variable.  (ASYNCdialog.cpp)
TypeOK ==
  /\ jobs \in 0..MaxJobs /\ last \in 0..MaxJobs /\ started \in BOOLEAN
  /\ worker \in [Job -> {"queued", "shown", "answered", "ready"}]
  /\ load \in [id : Job \cup {NoJob}, status : Job \cup {NoJob}]
  /\ fires \in Seq(Frame)
  /\ pc \in {"hook", "events", "step", "launch", "poll", "fire", "handler"}
  /\ ret \in {"events", "step", "handler"}
  /\ iterator \in {"node", "scope", "dummy", "NULL"} /\ left \in 0..Instances

\* At most one dialog is on the screen, and no thread of an earlier job is
\* still at work.  (last_job_started)
AtWork == {j \in Job : worker[j] \in {"shown", "answered"}}
OneDialog == \A i, j \in AtWork : i = j

\* The code of an Async Dialog event finds the id and the answer of its own
\* dialog in async_load, until code of such an event has launched a later one.
AnswerInHand ==
  pc = "handler" /\ last = fires[1].job + 1 /\ ~started
    => load = [id |-> fires[1].job, status |-> fires[1].job]

\* "only one async dialog event should be fired at a time": what a comment
\* says and the code does not keep; no run checks it.
OneEventAtATime == Len(fires) <= 1

\* "It's a good idea to centralize an event iterator so error reporting can tell
\* where it is": while an event body runs, it is on the instance whose body that
\* is.  (instance_event_iterator)  The code does not keep it, nor does any run
\* check it.
BodyLocated ==
  /\ pc = "step" => iterator = "node"
  /\ pc = "handler" => iterator = "scope"

\* Every job that is queued has its event fired, in its turn.
EveryJobFires == \A j \in Job : j < jobs ~> j < last

\* The dialogs keep what DialogQueue promises.
Queue == INSTANCE DialogQueue WITH
  queued <- jobs, shown <- IF started THEN last + 1 ELSE last, fired <- last

ImplementsDialogQueue == Queue!Spec

-----------------------------------------------------------------------------
(* The strengthening that makes the invariants and the refinement inductive. *)

\* The threads of the jobs before last have ended, those after it have not
\* begun, and that of last has begun exactly when started says so.
Workers ==
  /\ last <= jobs
  /\ started => last < jobs
  /\ \A j \in Job : /\ j < last => worker[j] = "ready"
                    /\ j > last => worker[j] = "queued"
                    /\ j = last => (started <=> worker[j] # "queued")

\* A handler runs, or is returned to, only inside a fireAsyncDialogEvent.
Nesting ==
  /\ pc \in {"fire", "handler"} => fires # <<>>
  /\ pc \in {"launch", "poll"} /\ ret = "handler" => fires # <<>>
  /\ \A k \in 1..Len(fires) : fires[k].ret = "handler" => k < Len(fires)
  /\ pc = "poll" => started

\* The answer in async_load is that of the job under way, once it is given,
\* and before the next job is launched that of the last.
Answers ==
  /\ started /\ worker[last] \in {"answered", "ready"} => load.status = last
  /\ ~started /\ last > 0 => load = [id |-> last - 1, status |-> last - 1]

IInv == TypeOK /\ Workers /\ Nesting /\ Answers
=============================================================================

--------------------------- MODULE ActorThreadPool ---------------------------
(***************************************************************************)
(* ActorThreadPool: a fixed pool of threads that runs at most one task of  *)
(* an actor (a connection's handler) at a time.  An actor that plays has   *)
(* one task in the executor; the tasks it is given meanwhile wait in acts, *)
(* and complete() hands the next one over.                                 *)
(*                                                                         *)
(* submit and complete are synchronized on the actor, and nothing else     *)
(* reads what they hold about it, so each is one step.  An actor without a *)
(* queue in acts stands for one with an empty queue.                       *)
(***************************************************************************)
EXTENDS Naturals, Sequences, FiniteSets

CONSTANTS
  Actors,    \* the handlers
  Workers,   \* the threads of the executor
  MaxTasks   \* bound: tasks an actor is given in a behaviour

ASSUME TasksAssumption == MaxTasks \in Nat

VARIABLES
  playingNow,  \* the actors with a task in the executor
  acts,        \* actor -> the tasks waiting for it to be free, by number
  queue,       \* the executor's queue of tasks
  pc,          \* worker -> "idle", "run" or "complete"
  job,         \* worker -> the task it runs or has just run
  isDown,      \* shutdown() was called
  submitted,   \* actor -> number of tasks given to submit  (history)
  done         \* actor -> number of the last task run      (history)

vars == <<playingNow, acts, queue, pc, job, isDown, submitted, done>>

Job == [act : Actors, task : 1 .. MaxTasks]
NoJob == [act |-> "none", task |-> 0]

Init ==
  /\ playingNow = {}
  /\ acts = [a \in Actors |-> <<>>]
  /\ queue = <<>>
  /\ pc = [w \in Workers |-> "idle"]
  /\ job = [w \in Workers |-> NoJob]
  /\ isDown = FALSE
  /\ submitted = [a \in Actors |-> 0]
  /\ done = [a \in Actors |-> 0]

(* Called by the selector thread, which is over when the pool is shut down. *)
Submit(a) ==
  /\ ~ isDown /\ submitted[a] < MaxTasks
  /\ submitted' = [submitted EXCEPT ![a] = @ + 1]
  /\ IF a \notin playingNow
     THEN /\ playingNow' = playingNow \cup {a}
          /\ queue' = Append(queue, [act |-> a, task |-> submitted'[a]])
          /\ UNCHANGED acts
     ELSE /\ acts' = [acts EXCEPT ![a] = Append(@, submitted'[a])]
          /\ UNCHANGED <<playingNow, queue>>
  /\ UNCHANGED <<pc, job, isDown, done>>

(* The executor gives a free thread the oldest task.                       *)
Take(w) ==
  /\ pc[w] = "idle" /\ queue # <<>>
  /\ job' = [job EXCEPT ![w] = Head(queue)]
  /\ queue' = Tail(queue)
  /\ pc' = [pc EXCEPT ![w] = "run"]
  /\ UNCHANGED <<playingNow, acts, isDown, submitted, done>>

(* r.run() returns or throws; complete(act) is in a finally block.          *)
RunEnds(w) ==
  /\ pc[w] = "run"
  /\ done' = [done EXCEPT ![job[w].act] = job[w].task]
  /\ pc' = [pc EXCEPT ![w] = "complete"]
  /\ UNCHANGED <<playingNow, acts, queue, job, isDown, submitted>>

(* A slip for Complete: the actor stops playing although tasks wait.        *)
CompleteStops(w) ==
  /\ pc[w] = "complete"
  /\ playingNow' = playingNow \ {job[w].act}
  /\ pc' = [pc EXCEPT ![w] = "idle"]
  /\ job' = [job EXCEPT ![w] = NoJob]
  /\ UNCHANGED <<acts, queue, isDown, submitted, done>>

(* A slip for Complete: the next task is handed over and the actor stops    *)
(* playing as well.                                                         *)
CompleteBoth(w) ==
  /\ pc[w] = "complete"
  /\ LET a == job[w].act
     IN  /\ playingNow' = playingNow \ {a}
         /\ IF acts[a] = <<>> \/ isDown THEN UNCHANGED <<acts, queue>>
            ELSE /\ queue' = Append(queue, [act |-> a, task |-> Head(acts[a])])
                 /\ acts' = [acts EXCEPT ![a] = Tail(@)]
  /\ pc' = [pc EXCEPT ![w] = "idle"]
  /\ job' = [job EXCEPT ![w] = NoJob]
  /\ UNCHANGED <<isDown, submitted, done>>

(* complete(act): the next task, if any, goes to the end of the executor's  *)
(* queue.  Once the executor is shut down it rejects the task polled.       *)
Complete(w) ==
  /\ pc[w] = "complete"
  /\ LET a == job[w].act
     IN  IF acts[a] = <<>>
         THEN /\ playingNow' = playingNow \ {a}
              /\ UNCHANGED <<acts, queue>>
         ELSE /\ acts' = [acts EXCEPT ![a] = Tail(@)]
              /\ queue' = IF isDown THEN queue
                          ELSE Append(queue, [act |-> a, task |-> Head(acts[a])])
              /\ UNCHANGED playingNow
  /\ pc' = [pc EXCEPT ![w] = "idle"]
  /\ job' = [job EXCEPT ![w] = NoJob]
  /\ UNCHANGED <<isDown, submitted, done>>

(* shutdownNow: what the executor has not begun is never run.               *)
Shutdown ==
  /\ ~ isDown
  /\ isDown' = TRUE
  /\ queue' = <<>>
  /\ UNCHANGED <<playingNow, acts, pc, job, submitted, done>>

WorkerStep(w) == Take(w) \/ RunEnds(w) \/ Complete(w)

(* The bound is reached and everything has run, or the pool is shut down.   *)
Quiescent ==
  /\ \A w \in Workers : pc[w] = "idle"
  /\ isDown
  /\ UNCHANGED vars

Next == (\E a \in Actors : Submit(a)) \/ (\E w \in Workers : WorkerStep(w))
        \/ Shutdown \/ Quiescent

Spec == Init /\ [][Next]_vars

(* The threads run, and tasks end (process does, see ConnectionsImp).       *)
FairSpec == Spec /\ \A w \in Workers : WF_vars(WorkerStep(w))

-----------------------------------------------------------------------------
Phases == {"idle", "run", "complete"}

(* Types; a worker has a job exactly while it is not idle.                  *)
TypeOK ==
  /\ playingNow \subseteq Actors
  /\ acts \in [Actors -> Seq(1 .. MaxTasks)]
  /\ queue \in Seq(Job)
  /\ pc \in [Workers -> Phases]
  /\ job \in [Workers -> Job \cup {NoJob}]
  /\ \A w \in Workers : pc[w] # "idle" => job[w] \in Job
  /\ isDown \in BOOLEAN
  /\ submitted \in [Actors -> 0 .. MaxTasks]
  /\ done \in [Actors -> 0 .. MaxTasks]

Busy(w) == pc[w] # "idle"

(* A playing actor has one task in the executor, waiting or in the hands of *)
(* one thread; nobody else has.                                             *)
OneThread ==
  \A w \in Workers : Busy(w) =>
    /\ job[w].act \in playingNow
    /\ \A v \in Workers \ {w} : Busy(v) => job[v].act # job[w].act
    /\ \A i \in 1 .. Len(queue) : queue[i].act # job[w].act
OnePlace ==
  \A i \in 1 .. Len(queue) :
    /\ queue[i].act \in playingNow
    /\ \A j \in 1 .. Len(queue) : queue[j].act = queue[i].act => i = j
OneTaskEach == OneThread /\ OnePlace

(* The task of that number is the one a playing actor has in the executor:  *)
(* those of acts come next, up to the last one submitted.                   *)
InHand(a, n) == n + Len(acts[a]) = submitted[a]
EndsWith(s, n) == \A k \in 1 .. Len(s) : s[k] + Len(s) = n + k
InOrder(a) == EndsWith(acts[a], submitted[a])
AtRest(a) == acts[a] = <<>> /\ done[a] = submitted[a]

(* Until the shutdown, the tasks of an actor that have not run are, in      *)
(* order, the one in the executor and the ones that wait in acts.           *)
NothingLost ==
  ~ isDown =>
    /\ \A w \in Workers :
         /\ Busy(w) => InHand(job[w].act, job[w].task)
         /\ pc[w] = "complete" => done[job[w].act] = job[w].task
    /\ \A i \in 1 .. Len(queue) : /\ InHand(queue[i].act, queue[i].task)
                                  /\ queue[i].task = done[queue[i].act] + 1
    /\ \A a \in Actors : InOrder(a) /\ (a \notin playingNow => AtRest(a))

(* The task that runs comes after the last that ran, and nothing waits for  *)
(* a thread once the pool is shut down.                                     *)
NextRuns ==
  /\ \A w \in Workers : pc[w] = "run" => job[w].task = done[job[w].act] + 1
  /\ isDown => queue = <<>>

(* Everything of an actor that plays goes through its one task in the       *)
(* executor, and nothing is left behind.                                    *)
HandedOver == OneTaskEach /\ NextRuns /\ NothingLost

(* The task a runs, 0 if none.                                              *)
Running(a, w) == pc[w] = "run" /\ job[w].act = a
Current == [a \in Actors |->
  IF \E w \in Workers : Running(a, w)
  THEN job[CHOOSE w \in Workers : Running(a, w)].task ELSE 0]

Fifo == INSTANCE ActorFifo WITH current <- Current

(* The pool keeps the actors' promise: one task of an actor at a time, in   *)
(* the order of the submits, whichever threads run them.                    *)
RunsInOrder == Fifo!Spec

(* No task is forgotten: until the shutdown, every task given to the pool   *)
(* is run, however submits and completions interleave.                      *)
EveryTaskRuns ==
  \A a \in Actors : \A n \in 1 .. MaxTasks :
    submitted[a] = n ~> done[a] >= n \/ isDown
=============================================================================

------------------------------ MODULE ActorFifo ------------------------------
(***************************************************************************)
(* What ActorThreadPool promises: the tasks of one actor run one at a time *)
(* and in the order they were submitted; those of different actors need    *)
(* not wait for each other.  The tasks of an actor are numbered from 1 as  *)
(* they are submitted.                                                     *)
(***************************************************************************)
EXTENDS Naturals

CONSTANTS Actors, MaxTasks

VARIABLES
  submitted,  \* actor -> how many tasks it was given
  current,    \* actor -> the task it is running, or 0
  done        \* actor -> how many tasks it has run

vars == <<submitted, current, done>>

Init == /\ submitted = [a \in Actors |-> 0]
        /\ current = [a \in Actors |-> 0]
        /\ done = [a \in Actors |-> 0]

Submit(a) == /\ submitted[a] < MaxTasks
             /\ submitted' = [submitted EXCEPT ![a] = @ + 1]
             /\ UNCHANGED <<current, done>>

Start(a) == /\ current[a] = 0 /\ done[a] < submitted[a]
            /\ current' = [current EXCEPT ![a] = done[a] + 1]
            /\ UNCHANGED <<submitted, done>>

Finish(a) == /\ current[a] # 0
             /\ done' = [done EXCEPT ![a] = current[a]]
             /\ current' = [current EXCEPT ![a] = 0]
             /\ UNCHANGED submitted

Next == \E a \in Actors : Submit(a) \/ Start(a) \/ Finish(a)

Spec == Init /\ [][Next]_vars
=============================================================================

----------------------------- MODULE FrameFifo -----------------------------
(***************************************************************************)
(* What the two ends of a connection promise each other: the frames that   *)
(* one writes reach the other whole, in order and once, until the          *)
(* connection breaks; from some frame on, what is under way then is lost.  *)
(***************************************************************************)
EXTENDS Sequences, Naturals

CONSTANTS Streams, Frames

VARIABLES
  queue,  \* frames written and not yet received
  hand,   \* the frame its reader is handling: <<frame>>, or <<>>
  up      \* whether the connection stands

Init ==
  /\ queue = [s \in Streams |-> <<>>]
  /\ hand = [s \in Streams |-> <<>>]
  /\ up = [s \in Streams |-> TRUE]

Send(s) ==
  /\ up[s] /\ UNCHANGED <<hand, up>>
  /\ \E frame \in Frames : queue' = [queue EXCEPT ![s] = Append(@, frame)]

Receive(s) ==
  /\ hand[s] = <<>> /\ queue[s] # <<>> /\ UNCHANGED up
  /\ hand' = [hand EXCEPT ![s] = <<Head(queue[s])>>]
  /\ queue' = [queue EXCEPT ![s] = Tail(@)]

Handle(s) ==
  /\ hand[s] # <<>>
  /\ hand' = [hand EXCEPT ![s] = <<>>]
  /\ UNCHANGED <<queue, up>>

(* Passing a frame on is one step for two streams.                          *)
Forward(s, t) ==
  /\ s # t /\ hand[s] # <<>> /\ up[t]
  /\ hand' = [hand EXCEPT ![s] = <<>>] /\ UNCHANGED up
  /\ queue' = [queue EXCEPT ![t] = Append(@, hand[s][1])]

(* What is under way then may still arrive, or never.                       *)
Lose(s) ==
  /\ up[s]
  /\ up' = [up EXCEPT ![s] = FALSE]
  /\ UNCHANGED <<queue, hand>>

Next ==
  \/ \E s \in Streams : Send(s) \/ Receive(s) \/ Handle(s) \/ Lose(s)
  \/ \E s, t \in Streams : Forward(s, t)

Spec == Init /\ [][Next]_<<queue, hand, up>>
=============================================================================

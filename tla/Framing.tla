------------------------------ MODULE Framing ------------------------------
(***************************************************************************)
(* Frames over TCP: one end writes a frame and a NUL, in as many pieces as *)
(* the socket takes; the other collects bytes until it sees a NUL.  A byte *)
(* here is NUL or any other token of a frame.  The frames that the server  *)
(* builds end with a NUL already, so its encoder makes that two.           *)
(*                                                                         *)
(* A read takes all there is up to a NUL: of the bytes between, neither end *)
(* sees anything.                                                          *)
(***************************************************************************)
EXTENDS Naturals, Sequences, FiniteSets

CONSTANTS
  Streams,   \* connections, in one direction each
  Doubled,   \* those on which frames end with two NULs
  NUL,
  Cuts       \* how much of a frame a socket may leave for later

ASSUME FramingAssumption == Doubled \subseteq Streams /\ Cuts \subseteq Nat /\ 0 \in Cuts

VARIABLES
  out,     \* bytes that write() has not got rid of yet
  net,     \* bytes on their way
  buffer,  \* bytes received, of a frame that is not complete
  got,     \* the frame that the reader is handling: <<frame>>, or <<>>
  open,    \* whether the connection stands
  way      \* the frames written and not yet received (history)

streamVars == <<out, net, buffer, got, open, way>>

FramingInit ==
  /\ out = [s \in Streams |-> <<>>] /\ net = [s \in Streams |-> <<>>]
  /\ buffer = [s \in Streams |-> <<>>] /\ got = [s \in Streams |-> <<>>]
  /\ open = [s \in Streams |-> TRUE] /\ way = [s \in Streams |-> <<>>]

-----------------------------------------------------------------------------
(* The writing end: a thread leaves write() when out is empty again.       *)

Encode(s, frame) == frame \o IF s \in Doubled THEN <<NUL, NUL>> ELSE <<NUL>>

Write(s, frame) ==
  /\ open[s] /\ out[s] = <<>>
  /\ out' = [out EXCEPT ![s] = Encode(s, frame)]
  /\ way' = [way EXCEPT ![s] = Append(@, frame)]

(* A slip for WriteSome: no loop, what the socket leaves is never written.  *)
WriteOnce(s) ==
  /\ \E n \in 1 .. Len(out[s]) :
       Len(out[s]) - n \in Cuts /\ net' = [net EXCEPT ![s] = @ \o SubSeq(out[s], 1, n)]
  /\ out' = [out EXCEPT ![s] = <<>>]
  /\ UNCHANGED <<buffer, got, open, way>>

(* The socket takes a part of what is left.                                 *)
WriteSome(s) ==
  /\ \E n \in 1 .. Len(out[s]) :
       /\ Len(out[s]) - n \in Cuts
       /\ net' = [net EXCEPT ![s] = @ \o SubSeq(out[s], 1, n)]
       /\ out' = [out EXCEPT ![s] = SubSeq(@, n + 1, Len(@))]
  /\ UNCHANGED <<buffer, got, open, way>>

-----------------------------------------------------------------------------
(* The reading end, which reads on when it has handled a frame.            *)

FrameEnds(bytes) == {i \in 1 .. Len(bytes) : bytes[i] = NUL}

ReadSome(s) ==
  /\ got[s] = <<>> /\ net[s] # <<>> /\ FrameEnds(net[s]) = {}
  /\ buffer' = [buffer EXCEPT ![s] = @ \o net[s]]
  /\ net' = [net EXCEPT ![s] = <<>>]
  /\ UNCHANGED <<out, got, open, way>>

(* A slip for Hand: empty frames are handled.                               *)
HandAll(frame) == <<frame>>

(* A frame without a byte, such as a second NUL makes, is not handled.      *)
Hand(frame) == IF frame = <<>> THEN <<>> ELSE <<frame>>

Receive(s, hand) ==
  /\ got' = [got EXCEPT ![s] = hand]
  /\ way' = [way EXCEPT ![s] = IF hand = <<>> THEN @ ELSE SubSeq(@, 2, Len(@))]

ReadFrame(s) ==
  /\ got[s] = <<>> /\ FrameEnds(net[s]) # {}
  /\ LET end == CHOOSE i \in FrameEnds(net[s]) : \A j \in FrameEnds(net[s]) : i <= j
         frame == buffer[s] \o SubSeq(net[s], 1, end - 1)
     IN  /\ Receive(s, Hand(frame))
         /\ net' = [net EXCEPT ![s] = SubSeq(@, end + 1, Len(@))]
  /\ buffer' = [buffer EXCEPT ![s] = <<>>]
  /\ UNCHANGED <<out, open>>

(* The connection is closed, and its reader has come to the end of it: what *)
(* it has of a frame is dropped.                                            *)
ReadFails(s) ==
  /\ ~open[s] /\ got[s] = <<>> /\ net[s] = <<>> /\ buffer[s] # <<>>
  /\ buffer' = [buffer EXCEPT ![s] = <<>>]
  /\ UNCHANGED <<out, net, got, open, way>>

-----------------------------------------------------------------------------
(* An end of the connection, or the network between them, fails.           *)
Break(s) ==
  /\ open[s]
  /\ open' = [open EXCEPT ![s] = FALSE]
  /\ out' = [out EXCEPT ![s] = <<>>]
  /\ \E left \in Cuts \cup {Len(net[s])} :
       left <= Len(net[s]) /\ net' = [net EXCEPT ![s] = SubSeq(@, 1, left)]
  /\ UNCHANGED <<buffer, got, way>>

Reading(s) == ReadSome(s) \/ ReadFrame(s) \/ ReadFails(s)

=============================================================================

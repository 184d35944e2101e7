----------------------------- MODULE EventFeed -----------------------------
(***************************************************************************)
(* From a reporter's file of events to a follower's summary: Framing and   *)
(* Game, put together by the server.  Each reporter sends its file, an     *)
(* event a frame; the thread that serves it writes the body on to the      *)
(* follower.  All are subscribed to the one game; what the tables do with  *)
(* subscriptions is in ConnectionsImp, what the other subscribers are      *)
(* written is left out.                                                     *)
(***************************************************************************)
EXTENDS Framing, Game

CONSTANTS
  Follower,   \* the connection of the one who follows
  Files       \* what the reporters may report: functions from Users to events

ASSUME FeedAssumption ==
  /\ Follower \notin Users /\ Streams = Users \cup {Follower} /\ Doubled = {Follower}
  /\ Files \subseteq [Users -> Seq(Events)]
  /\ \A u \in Users, e \in Events : FrameEnds(Body[u][e]) = {}   \* no text has a NUL

VARIABLES
  unsent,   \* reporter -> the events of its file that it has yet to send
  file      \* reporter -> its file (constant)

feedVars == <<unsent, file>>
vars == <<streamVars, gameVars, feedVars>>

Init ==
  /\ FramingInit /\ GameInit
  /\ file \in Files /\ unsent = file

-----------------------------------------------------------------------------
(* A reporter's keyboard thread: the loop of handleReportRequest.          *)
Report(u) ==
  /\ unsent[u] # <<>>
  /\ Write(u, Body[u][Head(unsent[u])])
  /\ unsent' = [unsent EXCEPT ![u] = Tail(@)]
  /\ UNCHANGED <<net, buffer, got, open, gameVars, file>>

ReportFails(u) ==
  /\ unsent[u] # <<>> /\ ~open[u]
  /\ unsent' = [unsent EXCEPT ![u] = <<>>]
  /\ UNCHANGED <<streamVars, gameVars, file>>

-----------------------------------------------------------------------------
(* The server's thread for u: SendFrame.act, send to the follower.  A       *)
(* write on a broken connection is given up.                                *)

(* A slip for Relay: nobody waits for the follower's socket to be free.     *)
RelayWhenFree(u) ==
  /\ got[u] # <<>>
  /\ IF open[Follower] /\ out[Follower] = <<>>
     THEN Write(Follower, got[u][1])
     ELSE UNCHANGED <<out, way>>
  /\ got' = [got EXCEPT ![u] = <<>>]
  /\ UNCHANGED <<net, buffer, open, gameVars, feedVars>>

Relay(u) ==
  /\ got[u] # <<>>
  /\ IF open[Follower] THEN Write(Follower, got[u][1]) ELSE UNCHANGED <<out, way>>
  /\ got' = [got EXCEPT ![u] = <<>>]
  /\ UNCHANGED <<net, buffer, open, gameVars, feedVars>>

-----------------------------------------------------------------------------
(* The follower's main thread: getFrameAscii, then processFrame.           *)

(* Whose event a body is.                                                   *)
EventOf(body) ==
  IF \E u \in Users, e \in Events : body = Body[u][e]
  THEN CHOOSE e \in Events : \E u \in Users : body = Body[u][e]
  ELSE NULL

(* A slip for Deliver: the last line has no newline and is lost.            *)
DeliverCut ==
  /\ got[Follower] # <<>>
  /\ LET body == got[Follower][1]
     IN  HandleMessage(body[1].value, EventOf(body), SubSeq(body, 1, Len(body) - 1))
  /\ got' = [got EXCEPT ![Follower] = <<>>]
  /\ UNCHANGED <<out, net, buffer, open, way, feedVars>>

Deliver ==
  /\ got[Follower] # <<>>
  /\ LET body == got[Follower][1] IN HandleMessage(body[1].value, EventOf(body), body)
  /\ got' = [got EXCEPT ![Follower] = <<>>]
  /\ UNCHANGED <<out, net, buffer, open, way, feedVars>>

(* It reads its connection only when it has read the frame before.          *)
Read(s)  == (s = Follower => main = "idle") /\ Reading(s) /\ UNCHANGED <<gameVars, feedVars>>
Carry(s) == WriteSome(s) /\ UNCHANGED <<gameVars, feedVars>>
Fail(s)  == Break(s) /\ UNCHANGED <<gameVars, feedVars>>

Reader == ParseLine \/ StoreEvent
GameStep == (Reader \/ Summary) /\ UNCHANGED <<streamVars, feedVars>>

Next ==
  \/ \E u \in Users : Report(u) \/ ReportFails(u) \/ Relay(u)
  \/ Deliver
  \/ \E s \in Streams : Read(s) \/ Carry(s) \/ Fail(s)
  \/ GameStep

(* The threads run, and a connection that stands carries what is written.   *)
Fairness ==
  /\ \A u \in Users : WF_vars(Report(u)) /\ WF_vars(Relay(u))
  /\ \A s \in Streams : WF_vars(Carry(s)) /\ WF_vars(Read(s))
  /\ WF_vars(Deliver)
  /\ WF_vars(Reader /\ UNCHANGED <<streamVars, feedVars>>)

Spec == Init /\ [][Next]_vars /\ Fairness

-----------------------------------------------------------------------------
Bodies == {Body[u][e] : u \in Users, e \in Events}
Fifo == INSTANCE FrameFifo WITH
  Frames <- Bodies, queue <- way, hand <- got, up <- open

(* The bytes carry frames: whatever pieces they travel in, every frame that *)
(* is written is received whole, in order and once, until a connection      *)
(* breaks, and nothing else is received.                                    *)
FramesCarried == Fifo!Spec

(* What the feed does to a follower's Games is what Game says of MESSAGEs.  *)
GamesRead == GameSpec

(* Over the two connections and past the other reporters' frames, the       *)
(* follower is told a beginning of what a reporter's file has, in order.    *)
ToldInOrder == \A u \in Users : told[u] = SubSeq(file[u], 1, Len(told[u]))

(* Unless one of the two connections breaks, the follower ends up with all  *)
(* of the report.                                                           *)
ReportsArrive ==
  \A u \in Users :
    <>(~open[u] \/ ~open[Follower] \/ (told[u] = file[u] /\ current # u))
=============================================================================

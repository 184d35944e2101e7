----------------------- MODULE ConnectionsImpProofs -----------------------
(***************************************************************************)
(* What holds of ConnectionsImp for every number of connections, users,    *)
(* topics and frames: types, the absence of null dereferences, and that a  *)
(* terminated connection is in no topic's map.  The facts about the steps  *)
(* come first, then one lemma for each part of the inductive invariant of  *)
(* ConnectionsInv, then the theorems.                                      *)
(***************************************************************************)
EXTENDS ConnectionsInv, TLAPS

LEMMA FrameType ==
  ASSUME TypeOK, NEW c \in Conns, frame[c] # NULL
  PROVE  frame[c] \in Headers
  BY FramesAssumption DEF TypeOK

LEMMA WriteType ==
  ASSUME TypeOK, NEW h \in Conns, NEW msg \in Reply, Write(h, msg)
  PROVE  out' \in [Conns -> Seq(Reply)]
  BY DEF TypeOK, Write

(* Puts and removes change only what iterators may still return.            *)
LEMMA EntryLoops ==
  ASSUME TypeOK, NEW t, NEW o, NEW h \in Conns, NEW v,
         PutEntry(t, o, h, v) \/ RemoveEntry(t, o, h)
  PROVE  /\ iter' \in [Conns -> Loop]
         /\ \A d \in Conns : /\ iter'[d].to = iter[d].to
                            /\ iter'[d].subscriptionId = iter[d].subscriptionId
<1>1. iter \in [Conns -> Loop]
  BY DEF TypeOK
<1>2. /\ iter' = [d \in Conns |-> iter'[d]]
      /\ \A d \in Conns : iter'[d] \in {iter[d], [iter[d] EXCEPT !.visit[h] = "may"]}
  BY DEF PutEntry, RemoveEntry
<1>3. \A r \in Loop : /\ [r EXCEPT !.visit[h] = "may"] \in Loop
                      /\ [r EXCEPT !.visit[h] = "may"].to = r.to
                      /\ [r EXCEPT !.visit[h] = "may"].subscriptionId = r.subscriptionId
  BY DEF Loop
<1> QED BY <1>1, <1>2, <1>3

LEMMA LoopStep ==
  ASSUME TypeOK, NEW c \in Conns, NEW r \in Loop, iter' = [iter EXCEPT ![c] = r]
  PROVE  /\ iter' \in [Conns -> Loop] /\ iter'[c] = r
         /\ \A d \in Conns \ {c} : iter'[d] = iter[d]
  BY DEF TypeOK

(* Where the steps of SEND begin and end, and what they leave alone.        *)
LEMMA SendControl ==
  ASSUME TypeOK, NEW c \in Conns, SendSteps(c)
  PROVE  /\ pc[c] \in {"process"} \cup Sending
         /\ pc'[c] \in {"reject", "receipt", "read"} \cup Sending
         /\ pc'[c] \in Sending => frame'[c] = frame[c]
         /\ UNCHANGED <<userTables, topicTables, protocol, errors, leaving, client>>
<1> USE DEF TypeOK, Goto, Return, Acknowledge, Processing, Sending, topicTables, locals
<1>1. CASE SendCheck(c)
  BY <1>1 DEF SendCheck
<1>2. CASE SendOpen(c)
  BY <1>2 DEF SendOpen
<1>3. CASE (\E h \in Conns : SendNext(c, h)) \/ SendFetch(c)
  BY <1>3 DEF SendNext, SendFetch
<1>4. CASE SendPush(c)
  BY <1>4 DEF SendPush
<1>5. CASE SendDone(c)
  BY <1>5 DEF SendDone
<1> QED BY <1>1, <1>2, <1>3, <1>4, <1>5 DEF SendSteps

LEMMA GotoFacts ==
  ASSUME TypeOK, FrameFits, NEW c \in Conns, NEW l \in Labels, Goto(c, l), Fits(l, frame[c])
  PROVE  /\ pc' \in [Conns -> Labels] /\ frame' \in [Conns -> Frames \cup {NULL}]
         /\ FrameFits'
         /\ pc'[c] = l /\ frame' = frame
         /\ \A d \in Conns \ {c} : pc'[d] = pc[d]
  BY DEF TypeOK, Goto, FrameFits

LEMMA ReturnFacts ==
  ASSUME TypeOK, FrameFits, NEW c \in Conns, Return(c)
  PROVE  /\ pc' \in [Conns -> Labels] /\ frame' \in [Conns -> Frames \cup {NULL}]
         /\ FrameFits'
         /\ pc'[c] = "read"
         /\ \A d \in Conns \ {c} : pc'[d] = pc[d] /\ frame'[d] = frame[d]
  BY DEF TypeOK, Return, FrameFits, Fits, Labels, Working, Connecting, Subscribing, Sending

LEMMA AcknowledgeFacts ==
  ASSUME TypeOK, FrameFits, NEW c \in Conns, frame[c] # NULL, Acknowledge(c)
  PROVE  /\ pc' \in [Conns -> Labels] /\ frame' \in [Conns -> Frames \cup {NULL}]
         /\ FrameFits'
         /\ pc'[c] \in {"read", "receipt"}
         /\ \A d \in Conns \ {c} : pc'[d] = pc[d] /\ frame'[d] = frame[d]
<1>1. CASE Return(c)
  BY <1>1, ReturnFacts
<1>2. CASE Goto(c, "receipt")
  BY <1>2, GotoFacts DEF Fits, Labels, Working, Connecting, Subscribing, Sending
<1> QED
  BY <1>1, <1>2 DEF Acknowledge

LEMMA TypeInit == Init => TypeInv
  BY NullAssumption, BoundAssumption
  DEF Init, TypeInv, TypeOK, NoNullDereference, FrameFits, Fits, Refers, ReferencesFit, Labels, Working, Connecting, Subscribing, Sending, Loop

(* What a thread's own step leaves of the other threads is enough for them. *)
LEMMA OthersRefer ==
  ASSUME TypeInv, NEW c \in Conns, Refers(c)',
         \A t \in Topics : topicToClients[t] # NULL => topicToClients'[t] # NULL,
         \A d \in Conns \ {c} :
           /\ pc'[d] = pc[d] /\ frame'[d] = frame[d] /\ topicMap'[d] = topicMap[d]
           /\ iter'[d].to = iter[d].to /\ leaving'[d] = leaving[d]
           /\ clientToTopics'[d] = clientToTopics[d]
  PROVE  ReferencesFit'
<1> SUFFICES ASSUME NEW d \in Conns, d # c PROVE Refers(d)'
  BY DEF ReferencesFit
<1>1. Refers(d) /\ Fits(pc[d], frame[d])
  BY DEF TypeInv, NoNullDereference, ReferencesFit, FrameFits
<1>2. pc[d] \in {"join", "record", "open"} => frame[d].destination \in Topics
  BY <1>1, FrameType DEF TypeInv, Fits, Working, Subscribing, Sending, Headers
<1>3. leaving[d] \subseteq Topics /\ clientToTopics[d] \in [SubIds -> Topics \cup {NULL}]
  BY DEF TypeInv, TypeOK
<1> QED
  BY <1>1, <1>2, <1>3 DEF Refers

-----------------------------------------------------------------------------
(* CONNECT and the connection                                              *)

LEMMA ConnectionType ==
  ASSUME TypeInv, NEW c \in Conns,
         \/ Accept(c) \/ (\E f \in Frames : Receive(c, f)) \/ ClientCloses(c)
         \/ ProcessThrows(c) \/ Ignore(c) \/ RejectMalformed(c) \/ CloseSocket(c)
  PROVE  TypeInv'
<1> USE DEF TypeInv, NoNullDereference
<1> DEFINE Same == UNCHANGED <<topicToClients, clientToTopics, topicMap, iter, leaving>>
<1>1. ASSUME Same, FrameFits', pc'[c] \notin {"join", "record", "open", "fanout", "fetch", "push"},
             \A d \in Conns \ {c} : pc'[d] = pc[d] /\ frame'[d] = frame[d]
      PROVE  ReferencesFit'
  BY <1>1, OthersRefer DEF Refers, ReferencesFit
<1>2. CASE Accept(c)
  <2>1. TypeOK' /\ FrameFits' /\ pc'[c] = "read" /\ frame' = frame
        /\ \A d \in Conns \ {c} : pc'[d] = pc[d]
    BY <1>2, GotoFacts DEF Accept, TypeOK, Fits, Labels, Working, Connecting,
       Subscribing, Sending, userTables, topicTables, locals, client
  <2> QED BY <1>1, <1>2, <2>1 DEF Accept, topicTables, locals
<1>3. CASE \E f \in Frames : Receive(c, f)
  <2>1. PICK f \in Frames : Receive(c, f)
    BY <1>3
  <2>2. f \in Headers /\ f # NULL
    BY NullAssumption, FramesAssumption
  <2>3. TypeOK'
    BY <2>1, <2>2, BoundAssumption DEF Receive, TypeOK, Labels, Headers, userTables,
       topicTables, protocol
  <2>4. FrameFits' /\ pc'[c] = "process"
        /\ \A d \in Conns \ {c} : pc'[d] = pc[d] /\ frame'[d] = frame[d]
    BY <2>1, <2>2 DEF Receive, TypeOK, FrameFits, Fits, Working, Connecting,
       Subscribing, Sending
  <2> QED BY <1>1, <2>1, <2>3, <2>4 DEF Receive, topicTables
<1>4. CASE ClientCloses(c)
  <2>1. TypeOK' /\ FrameFits' /\ pc'[c] = "closed" /\ frame' = frame
        /\ \A d \in Conns \ {c} : pc'[d] = pc[d]
    BY <1>4, GotoFacts DEF ClientCloses, TypeOK, Fits, Labels, Working, Connecting,
       Subscribing, Sending, userTables, topicTables, protocol, locals, client
  <2> QED BY <1>1, <1>4, <2>1 DEF ClientCloses, topicTables, locals
<1>5. CASE ProcessThrows(c)
  <2>1. TypeOK'
    BY <1>5 DEF ProcessThrows, TypeOK, Labels, userTables, topicTables, protocol, locals, client
  <2>2. FrameFits' /\ pc'[c] = "closed"
        /\ \A d \in Conns \ {c} : pc'[d] = pc[d] /\ frame'[d] = frame[d]
    BY <1>5 DEF ProcessThrows, TypeOK, FrameFits, Fits, Working, Connecting,
       Subscribing, Sending
  <2> QED BY <1>1, <1>5, <2>1, <2>2 DEF ProcessThrows, topicTables, locals
<1>6. CASE Ignore(c)
  <2>1. TypeOK' /\ FrameFits' /\ pc'[c] = "read"
        /\ \A d \in Conns \ {c} : pc'[d] = pc[d] /\ frame'[d] = frame[d]
    BY <1>6, ReturnFacts DEF Ignore, TypeOK, userTables, topicTables, protocol, locals, client
  <2> QED BY <1>1, <1>6, <2>1 DEF Ignore, topicTables, locals
<1>7. CASE RejectMalformed(c)
  <2>1. frame[c] # NULL
    BY <1>7 DEF RejectMalformed, FrameFits, Fits, Working
  <2>2. TypeOK' /\ FrameFits' /\ pc'[c] = "reject" /\ frame' = frame
        /\ \A d \in Conns \ {c} : pc'[d] = pc[d]
    BY <1>7, <2>1, GotoFacts DEF RejectMalformed, TypeOK, Fits, Labels, Working, Connecting,
       Subscribing, Sending, userTables, topicTables, protocol, locals, client
  <2> QED BY <1>1, <1>7, <2>2 DEF RejectMalformed, topicTables, locals
<1>8. CASE CloseSocket(c)
  <2>1. TypeOK' /\ FrameFits' /\ pc'[c] = "closed" /\ frame' = frame
        /\ \A d \in Conns \ {c} : pc'[d] = pc[d]
    BY <1>8, GotoFacts DEF CloseSocket, TypeOK, Fits, Labels, Working, Connecting,
       Subscribing, Sending, userTables, topicTables, protocol, locals, client
  <2> QED BY <1>1, <1>8, <2>1 DEF CloseSocket, topicTables, locals
<1> QED BY <1>2, <1>3, <1>4, <1>5, <1>6, <1>7, <1>8

LEMMA ConnectType ==
  ASSUME TypeInv, NEW c \in Conns, ConnectSteps(c)
  PROVE  TypeInv'
<1> USE DEF TypeInv, NoNullDereference
<1> DEFINE Same == UNCHANGED <<topicToClients, clientToTopics, topicMap, iter, leaving>>
<1>1. ASSUME Same, pc'[c] \in Connecting \cup {"reject", "read", "receipt"},
             \A d \in Conns \ {c} : pc'[d] = pc[d] /\ frame'[d] = frame[d]
      PROVE  ReferencesFit'
  BY <1>1, OthersRefer DEF Refers, ReferencesFit, Connecting
<1>2. /\ frame[c] \in Headers /\ frame[c] # NULL
      /\ pc[c] \in Connecting \/ Processing(c, "CONNECT")
      /\ frame[c].login \in Users /\ frame[c].passcode \in Passwords
      /\ frame[c].cmd = "CONNECT"
  <2>1. frame[c] # NULL
    BY DEF FrameFits, Fits, Working, Connecting, ConnectSteps, ConnectCheckUser,
       CheckPasswordGet, CheckPasswordRegister, CheckPasswordCompare, ConnectLogIn,
       ConnectStore, SendConnected, Processing
  <2>2. \/ pc[c] \in Connecting
        \/ Processing(c, "CONNECT") /\ ~ Malformed(frame[c])
    BY DEF Connecting, ConnectSteps, ConnectCheckUser,
       CheckPasswordGet, CheckPasswordRegister, CheckPasswordCompare, ConnectLogIn,
       ConnectStore, SendConnected
  <2> QED
    BY <2>1, <2>2, FrameType DEF FrameFits, Fits, Processing, Malformed,
       MalformedConnect, Headers
<1>3. \A l \in Connecting \cup {"reject"} : Fits(l, frame[c]) /\ l \in Labels
  BY <1>2, NullAssumption DEF Fits, Connecting, Subscribing, Sending, Labels
<1>4. CASE ConnectCheckUser(c)
  <2>1. Goto(c, "password")
    BY <1>4 DEF ConnectCheckUser
  <2>2. TypeOK' /\ FrameFits'
    BY <1>3, <1>4, <2>1, GotoFacts DEF ConnectCheckUser, TypeOK, Connecting,
       userTables, topicTables, protocol, client
  <2> QED BY <1>1, <1>3, <1>4, <2>1, <2>2, GotoFacts DEF ConnectCheckUser, topicTables, Connecting
<1>5. CASE CheckPasswordGet(c)
  <2>1. PICK l \in {"register", "compare"} : Goto(c, l)
    BY <1>5 DEF CheckPasswordGet
  <2>2. TypeOK' /\ FrameFits'
    BY <1>3, <1>5, <2>1, GotoFacts DEF CheckPasswordGet, TypeOK, Connecting,
       userTables, topicTables, protocol, locals, client
  <2> QED BY <1>1, <1>3, <1>5, <2>1, <2>2, GotoFacts DEF CheckPasswordGet, topicTables, locals, Connecting
<1>6. CASE CheckPasswordRegister(c)
  <2>1. PICK l \in {"reject", "login"} : Goto(c, l)
    BY <1>6 DEF CheckPasswordRegister
  <2>2. TypeOK' /\ FrameFits'
    BY <1>2, <1>3, <1>6, <2>1, GotoFacts DEF CheckPasswordRegister, TypeOK, Connecting,
       topicTables, protocol, locals, client
  <2> QED BY <1>1, <1>3, <1>6, <2>1, <2>2, GotoFacts DEF CheckPasswordRegister, topicTables, locals, Connecting
<1>7. CASE CheckPasswordCompare(c)
  <2>1. PICK l \in {"reject", "login"} : Goto(c, l)
    BY <1>7 DEF CheckPasswordCompare
  <2>2. TypeOK' /\ FrameFits'
    BY <1>3, <1>7, <2>1, GotoFacts DEF CheckPasswordCompare, TypeOK, Connecting,
       userTables, topicTables, protocol, client
  <2> QED BY <1>1, <1>3, <1>7, <2>1, <2>2, GotoFacts DEF CheckPasswordCompare, topicTables, Connecting
<1>8. CASE ConnectLogIn(c)
  <2>1. Goto(c, "store")
    BY <1>8 DEF ConnectLogIn
  <2>2. TypeOK' /\ FrameFits'
    BY <1>2, <1>3, <1>8, <2>1, GotoFacts DEF ConnectLogIn, TypeOK, Connecting,
       topicTables, protocol, locals, client
  <2> QED BY <1>1, <1>3, <1>8, <2>1, <2>2, GotoFacts DEF ConnectLogIn, topicTables, locals, Connecting
<1>9. CASE ConnectStore(c)
  <2>1. Goto(c, "connected")
    BY <1>9 DEF ConnectStore
  <2>2. TypeOK' /\ FrameFits'
    BY <1>2, <1>3, <1>9, <2>1, GotoFacts DEF ConnectStore, TypeOK, Connecting,
       topicTables, protocol, locals, client
  <2> QED BY <1>1, <1>3, <1>9, <2>1, <2>2, GotoFacts DEF ConnectStore, topicTables, locals, Connecting
<1>10. CASE SendConnected(c)
  <2>1. Acknowledge(c) /\ Write(c, ServerFrame("CONNECTED", NULL))
    BY <1>10 DEF SendConnected
  <2>2. ServerFrame("CONNECTED", NULL) \in Reply
    BY BoundAssumption DEF ServerFrame, Reply
  <2>3. out' \in [Conns -> Seq(Reply)]
    BY <2>1, <2>2, WriteType
  <2>4. TypeOK' /\ FrameFits'
    BY <1>2, <1>10, <2>1, <2>3, AcknowledgeFacts DEF SendConnected, TypeOK,
       userTables, topicTables, protocol, locals, client
  <2> QED BY <1>1, <1>2, <1>10, <2>1, <2>4, AcknowledgeFacts DEF SendConnected, topicTables, locals
<1> QED
  BY <1>4, <1>5, <1>6, <1>7, <1>8, <1>9, <1>10 DEF ConnectSteps

-----------------------------------------------------------------------------
(* Replies and DISCONNECT                                                  *)

LEMMA DisconnectType ==
  ASSUME TypeInv, NEW c \in Conns, DisconnectSteps(c)
  PROVE  TypeInv'
<1> USE DEF TypeInv, NoNullDereference
<1> DEFINE Ends == {"reject", "receipt", "disconnect", "leaving", "terminated", "read"}
<1>1. ASSUME pc'[c] \in Ends, UNCHANGED <<topicToClients>>,
             iter' = iter \/ \A d \in Conns : iter'[d].to = iter[d].to,
             topicMap' = topicMap, leaving'[c] \subseteq leaving[c],
             clientToTopics' = clientToTopics,
             \A d \in Conns \ {c} : /\ pc'[d] = pc[d] /\ frame'[d] = frame[d]
                                    /\ leaving'[d] = leaving[d]
      PROVE  ReferencesFit'
  BY <1>1, OthersRefer DEF Refers, ReferencesFit
<1>2. ASSUME frame[c] # NULL
      PROVE  \A l \in {"reject", "receipt", "disconnect", "leaving"} :
               Fits(l, frame[c]) /\ l \in Labels
  BY <1>2 DEF Fits, Connecting, Subscribing, Sending, Labels
<1>3. ASSUME pc[c] \in {"process", "reject", "receipt", "disconnect", "leaving"}
      PROVE  frame[c] # NULL /\ frame[c] \in Headers
  BY <1>3, FrameType DEF FrameFits, Fits, Working
<1>4. CASE SendReceipt(c)
  <2>1. frame[c] # NULL /\ frame[c] \in Headers
    BY <1>3, <1>4 DEF SendReceipt
  <2>2. ServerFrame("RECEIPT", ReceiptHeader(frame[c])) \in Reply
    BY <2>1, BoundAssumption DEF ServerFrame, Reply, ReceiptHeader, Headers
  <2>3. out' \in [Conns -> Seq(Reply)]
    BY <1>4, <2>2, WriteType DEF SendReceipt
  <2>4. Goto(c, "disconnect") \/ Return(c)
    BY <1>4 DEF SendReceipt
  <2>5. TypeOK' /\ FrameFits'
    BY <1>2, <1>4, <2>1, <2>3, <2>4, GotoFacts, ReturnFacts DEF SendReceipt, TypeOK,
       userTables, topicTables, protocol, locals, client
  <2> QED BY <1>1, <1>2, <1>4, <2>1, <2>4, <2>5, GotoFacts, ReturnFacts
             DEF SendReceipt, topicTables, locals
<1>5. CASE SendErrorFrame(c)
  <2>1. frame[c] # NULL /\ frame[c] \in Headers
    BY <1>3, <1>5 DEF SendErrorFrame
  <2>2. ServerFrame("ERROR", frame[c].receipt) \in Reply
    BY <2>1, BoundAssumption DEF ServerFrame, Reply, Headers
  <2>3. out' \in [Conns -> Seq(Reply)]
    BY <1>5, <2>2, WriteType DEF SendErrorFrame
  <2>4. Goto(c, "disconnect")
    BY <1>5 DEF SendErrorFrame
  <2>5. TypeOK' /\ FrameFits'
    BY <1>2, <1>5, <2>1, <2>3, <2>4, GotoFacts DEF SendErrorFrame, TypeOK,
       userTables, topicTables, protocol, locals, client
  <2> QED BY <1>1, <1>2, <1>5, <2>1, <2>4, <2>5, GotoFacts
             DEF SendErrorFrame, topicTables, locals
<1>6. CASE LogOutUser(c)
  <2>1. frame[c] # NULL /\ Goto(c, "receipt")
    BY <1>3, <1>6 DEF LogOutUser, Processing
  <2>2. TypeOK' /\ FrameFits'
    BY <1>2, <1>6, <2>1, GotoFacts DEF LogOutUser, TypeOK,
       topicTables, protocol, locals, client
  <2> QED BY <1>1, <1>2, <1>6, <2>1, <2>2, GotoFacts DEF LogOutUser, topicTables, locals
<1>7. CASE DisconnectBegin(c)
  <2>1. frame[c] # NULL /\ Goto(c, "leaving")
    BY <1>3, <1>7 DEF DisconnectBegin
  <2>2. TypeOK' /\ FrameFits'
    BY <1>2, <1>7, <2>1, GotoFacts DEF DisconnectBegin, TypeOK,
       userTables, protocol, client
  <2>3. Refers(c)
    BY DEF ReferencesFit
  <2>4. Refers(c)'
    <3>1. pc'[c] = "leaving"
      BY <1>2, <2>1, GotoFacts
    <3>2. leaving'[c] = {clientToTopics[c][i] : i \in SubIds} \ {NULL}
      BY <1>7 DEF DisconnectBegin, TypeOK
    <3>3. clientToTopics'[c] = [i \in SubIds |-> NULL]
      BY <1>7 DEF DisconnectBegin, TypeOK
    <3> QED BY <1>7, <2>3, <3>1, <3>2, <3>3 DEF DisconnectBegin, Refers
  <2>5. \A d \in Conns \ {c} : pc'[d] = pc[d] /\ frame'[d] = frame[d]
    BY <1>2, <2>1, GotoFacts
  <2>6. ReferencesFit'
    BY <1>7, <2>4, <2>5, OthersRefer DEF DisconnectBegin, TypeOK
  <2> QED BY <2>2, <2>6
<1>8. ASSUME NEW t \in Topics, DisconnectLeave(c, t) PROVE TypeInv'
  <2>0. topicToClients[t] \in Conns
    BY <1>8 DEF DisconnectLeave, ReferencesFit, Refers, TypeOK
  <2>1. maps' \in [Topics -> [Conns -> [Conns -> SubIds \cup {NULL}]]]
    BY <1>8, <2>0 DEF DisconnectLeave, RemoveEntry, TypeOK
  <2>2. iter' \in [Conns -> Loop] /\ \A d \in Conns : iter'[d].to = iter[d].to
    BY <1>8, EntryLoops DEF DisconnectLeave
  <2>3. TypeOK' /\ FrameFits'
    BY <1>8, <2>1, <2>2 DEF DisconnectLeave, TypeOK, FrameFits, userTables, protocol, client
  <2> QED BY <1>1, <1>8, <2>2, <2>3 DEF DisconnectLeave, TypeOK
<1>9. CASE DisconnectEnd(c)
  <2>1. TypeOK'
    BY <1>9 DEF DisconnectEnd, TypeOK, topicTables, locals, client, Labels
  <2>2. FrameFits' /\ pc'[c] = "terminated"
        /\ \A d \in Conns \ {c} : pc'[d] = pc[d] /\ frame'[d] = frame[d]
    BY <1>9 DEF DisconnectEnd, TypeOK, FrameFits, Fits, Working, Connecting,
       Subscribing, Sending
  <2> QED BY <1>1, <1>9, <2>1, <2>2 DEF DisconnectEnd, topicTables, locals
<1> QED
  BY <1>4, <1>5, <1>6, <1>7, <1>8, <1>9, ConnectionType DEF DisconnectSteps

-----------------------------------------------------------------------------
(* SUBSCRIBE and UNSUBSCRIBE                                               *)

LEMMA TopicType ==
  ASSUME TypeInv, NEW c \in Conns, TopicSteps(c)
  PROVE  TypeInv'
<1> USE DEF TypeInv, NoNullDereference
<1>1. ReferencesFit /\ Refers(c) /\ Fits(pc[c], frame[c])
  BY DEF ReferencesFit, FrameFits
<1>2. /\ frame[c] # NULL /\ frame[c] \in Headers
      /\ \A l \in {"reject", "receipt", "read", "unsubscribe"} : Fits(l, frame[c]) /\ l \in Labels
  <2>1. pc[c] \in Working
    BY DEF TopicSteps, SubscribeFindTopic, SubscribeCreateTopic, SubscribeJoin,
       SubscribeRecord, UnsubscribeFind, UnsubscribeLeave, Processing, Working, Subscribing
  <2> QED BY <1>1, <2>1, FrameType DEF Fits, Connecting, Subscribing, Sending, Labels
<1>3. ASSUME \/ Processing(c, "SUBSCRIBE") /\ ~ Malformed(frame[c])
             \/ pc[c] \in Subscribing
      PROVE  /\ frame[c].destination \in Topics /\ frame[c].id \in SubIds
             /\ \A l \in Subscribing : Fits(l, frame[c]) /\ l \in Labels
  BY <1>1, <1>2, <1>3 DEF Processing, Malformed, MalformedSubscribe, Fits, Connecting,
     Subscribing, Sending, Labels, Headers
<1>4. CASE SubscribeFindTopic(c)
  <2>1. PICK l \in {"create", "join"} :
          /\ Goto(c, l)
          /\ l = "join" => topicToClients[frame[c].destination] # NULL
    BY <1>4 DEF SubscribeFindTopic
  <2>2. \A m \in Subscribing : Fits(m, frame[c]) /\ m \in Labels
    BY <1>3, <1>4 DEF SubscribeFindTopic
  <2>3. /\ FrameFits' /\ pc' \in [Conns -> Labels] /\ frame' = frame
        /\ pc'[c] = l /\ \A d \in Conns \ {c} : pc'[d] = pc[d]
    BY <2>1, <2>2, GotoFacts DEF Subscribing
  <2>4. TypeOK'
    BY <1>4, <2>3 DEF SubscribeFindTopic, TypeOK, userTables, topicTables, protocol,
       locals, client
  <2>5. Refers(c)'
    BY <1>1, <1>4, <2>1, <2>3 DEF SubscribeFindTopic, Refers, topicTables, locals
  <2> QED BY <1>4, <2>3, <2>4, <2>5, OthersRefer DEF SubscribeFindTopic, topicTables, locals
<1>5. CASE SubscribeCreateTopic(c)
  <2>1. /\ frame[c].destination \in Topics
        /\ \A m \in Subscribing : Fits(m, frame[c]) /\ m \in Labels
    BY <1>3, <1>5 DEF SubscribeCreateTopic, Subscribing
  <2>2. /\ FrameFits' /\ pc' \in [Conns -> Labels] /\ frame' = frame
        /\ pc'[c] = "join" /\ \A d \in Conns \ {c} : pc'[d] = pc[d]
    BY <1>5, <2>1, GotoFacts DEF SubscribeCreateTopic, Subscribing
  <2>3. TypeOK'
    BY <1>5, <2>1, <2>2 DEF SubscribeCreateTopic, TypeOK, userTables, protocol,
       locals, client
  <2>4. /\ topicToClients'[frame[c].destination] # NULL
        /\ \A t \in Topics : topicToClients[t] # NULL => topicToClients'[t] # NULL
    BY <1>5, <2>1, NullAssumption DEF SubscribeCreateTopic, TypeOK
  <2>5. leaving[c] \subseteq Topics /\ clientToTopics[c] \in [SubIds -> Topics \cup {NULL}]
    BY DEF TypeOK
  <2>6. Refers(c)'
    BY <1>1, <1>5, <2>2, <2>4, <2>5 DEF SubscribeCreateTopic, Refers, locals
  <2> QED BY <1>5, <2>2, <2>3, <2>4, <2>6, OthersRefer DEF SubscribeCreateTopic, locals
<1>6. CASE SubscribeJoin(c)
  <2>1. PICK l \in {"reject", "record"} : Goto(c, l)
    BY <1>6 DEF SubscribeJoin
  <2>2. Fits(l, frame[c]) /\ l \in Labels /\ frame[c].destination \in Topics
    BY <1>2, <1>3, <1>6 DEF SubscribeJoin, Subscribing
  <2>3. /\ FrameFits' /\ pc' \in [Conns -> Labels] /\ frame' = frame
        /\ pc'[c] = l /\ \A d \in Conns \ {c} : pc'[d] = pc[d]
    BY <2>1, <2>2, GotoFacts
  <2>4. TypeOK'
    BY <1>6, <2>2, <2>3 DEF SubscribeJoin, TypeOK, userTables, topicTables, protocol, client
  <2>5. topicMap'[c] = topicToClients[frame[c].destination] /\ topicMap'[c] # NULL
    BY <1>1, <1>6, <2>2 DEF SubscribeJoin, Refers, TypeOK
  <2>6. Refers(c)'
    BY <1>1, <1>6, <2>3, <2>5 DEF SubscribeJoin, Refers, topicTables
  <2> QED BY <1>6, <2>3, <2>4, <2>6, OthersRefer DEF SubscribeJoin, TypeOK, topicTables
<1>7. CASE SubscribeRecord(c)
  <2>1. /\ frame[c].destination \in Topics /\ frame[c].id \in SubIds
        /\ topicMap[c] \in Conns /\ topicToClients[frame[c].destination] # NULL
    BY <1>1, <1>3, <1>7 DEF SubscribeRecord, Subscribing, Refers, TypeOK
  <2>2. /\ FrameFits' /\ pc' \in [Conns -> Labels] /\ frame' \in [Conns -> Frames \cup {NULL}]
        /\ pc'[c] \in {"read", "receipt"}
        /\ \A d \in Conns \ {c} : pc'[d] = pc[d] /\ frame'[d] = frame[d]
    BY <1>2, <1>7, AcknowledgeFacts DEF SubscribeRecord
  <2>3. maps' \in [Topics -> [Conns -> [Conns -> SubIds \cup {NULL}]]]
    BY <1>7, <2>1 DEF SubscribeRecord, PutEntry, TypeOK
  <2>4. iter' \in [Conns -> Loop] /\ \A d \in Conns : iter'[d].to = iter[d].to
    BY <1>7, EntryLoops DEF SubscribeRecord
  <2>5. TypeOK'
    BY <1>7, <2>1, <2>2, <2>3, <2>4 DEF SubscribeRecord, TypeOK, userTables, protocol, client
  <2>6. clientToTopics'[c] =
          [clientToTopics[c] EXCEPT ![frame[c].id] = frame[c].destination]
    BY <1>7 DEF SubscribeRecord, TypeOK
  <2>7. Refers(c)'
    BY <1>1, <1>7, <2>1, <2>2, <2>6 DEF SubscribeRecord, Refers, TypeOK
  <2> QED BY <1>7, <2>2, <2>4, <2>5, <2>7, OthersRefer DEF SubscribeRecord, TypeOK
<1>8. CASE UnsubscribeFind(c)
  <2>1. frame[c].id \in SubIds
    BY <1>2, <1>8 DEF UnsubscribeFind, Processing, Malformed, MalformedUnsubscribe, Headers
  <2>2. PICK l \in {"reject", "unsubscribe"} : Goto(c, l)
    BY <1>8 DEF UnsubscribeFind
  <2>3. /\ FrameFits' /\ pc' \in [Conns -> Labels] /\ frame' = frame
        /\ pc'[c] = l /\ \A d \in Conns \ {c} : pc'[d] = pc[d]
    BY <1>2, <2>2, GotoFacts
  <2>4. TypeOK' /\ Refers(c)' /\ \A d \in Conns \ {c} :
             leaving'[d] = leaving[d] /\ clientToTopics'[d] = clientToTopics[d]
    <3>1. CASE UNCHANGED <<clientToTopics, leaving>>
      BY <1>1, <1>8, <2>2, <2>3, <3>1 DEF UnsubscribeFind, Refers, TypeOK, userTables,
         protocol, client
    <3>2. CASE ~ UNCHANGED <<clientToTopics, leaving>>
      <4> DEFINE topic == clientToTopics[c][frame[c].id]
      <4>1. /\ topic # NULL
            /\ clientToTopics' = [clientToTopics EXCEPT ![c][frame[c].id] = NULL]
            /\ leaving' = [leaving EXCEPT ![c] = {topic}]
        BY <1>8, <3>2 DEF UnsubscribeFind
      <4>2. topic \in Topics /\ topicToClients[topic] # NULL
        BY <1>1, <2>1, <4>1 DEF TypeOK, Refers
      <4>3. TypeOK'
        BY <1>8, <2>1, <2>3, <4>1, <4>2 DEF UnsubscribeFind, TypeOK, userTables, protocol, client
      <4>4. leaving'[c] = {topic} /\ clientToTopics'[c] =
              [clientToTopics[c] EXCEPT ![frame[c].id] = NULL]
        BY <4>1 DEF TypeOK
      <4>5. Refers(c)'
        BY <1>1, <1>8, <2>1, <2>2, <2>3, <4>2, <4>4 DEF UnsubscribeFind, Refers, TypeOK
      <4> QED BY <4>1, <4>3, <4>5 DEF TypeOK
    <3> QED BY <3>1, <3>2
  <2> QED BY <1>8, <2>3, <2>4, OthersRefer DEF UnsubscribeFind
<1>9. CASE UnsubscribeLeave(c)
  <2>1. PICK t \in leaving[c] : RemoveEntry(t, topicToClients[t], c)
    BY <1>9 DEF UnsubscribeLeave
  <2>2. t \in Topics /\ topicToClients[t] \in Conns
    BY <1>1, <2>1 DEF Refers, TypeOK
  <2>3. /\ FrameFits' /\ pc' \in [Conns -> Labels] /\ frame' \in [Conns -> Frames \cup {NULL}]
        /\ pc'[c] \in {"read", "receipt"}
        /\ \A d \in Conns \ {c} : pc'[d] = pc[d] /\ frame'[d] = frame[d]
    BY <1>2, <1>9, AcknowledgeFacts DEF UnsubscribeLeave
  <2>4. maps' \in [Topics -> [Conns -> [Conns -> SubIds \cup {NULL}]]]
    BY <2>1, <2>2 DEF RemoveEntry, TypeOK
  <2>5. iter' \in [Conns -> Loop] /\ \A d \in Conns : iter'[d].to = iter[d].to
    BY <2>1, EntryLoops
  <2>6. TypeOK'
    BY <1>9, <2>3, <2>4, <2>5 DEF UnsubscribeLeave, TypeOK, userTables, protocol, client
  <2>7. Refers(c)'
    BY <1>1, <1>9, <2>3 DEF UnsubscribeLeave, Refers, TypeOK
  <2> QED BY <1>9, <2>3, <2>5, <2>6, <2>7, OthersRefer DEF UnsubscribeLeave, TypeOK
<1> QED
  BY <1>4, <1>5, <1>6, <1>7, <1>8, <1>9 DEF TopicSteps

-----------------------------------------------------------------------------
(* SEND                                                                    *)

LEMMA SendType ==
  ASSUME TypeInv, NEW c \in Conns, SendSteps(c)
  PROVE  TypeInv'
<1> USE DEF TypeInv, NoNullDereference
<1>1. ReferencesFit /\ Refers(c) /\ Fits(pc[c], frame[c])
  BY DEF ReferencesFit, FrameFits
<1>2. /\ frame[c] # NULL /\ frame[c] \in Headers /\ frame[c].destination \in Topics
      /\ \A l \in Sending \cup {"reject"} : Fits(l, frame[c]) /\ l \in Labels
  <2>1. \/ pc[c] \in Sending
        \/ Processing(c, "SEND") /\ ~ Malformed(frame[c])
    BY DEF SendSteps, SendCheck, SendOpen, SendNext, SendFetch, SendPush, SendDone, Sending
  <2>2. frame[c] # NULL
    BY <1>1, <2>1 DEF Fits, Working, Processing
  <2> QED BY <1>1, <2>1, <2>2, FrameType DEF Processing, Malformed, Fits, Connecting,
             Subscribing, Sending, Labels, Headers
<1>3. ASSUME Refers(c)', frame' = frame \/ \A d \in Conns \ {c} : frame'[d] = frame[d],
             UNCHANGED <<topicToClients, clientToTopics, leaving>>,
             \A d \in Conns \ {c} : pc'[d] = pc[d] /\ topicMap'[d] = topicMap[d]
                                    /\ iter'[d].to = iter[d].to
      PROVE  ReferencesFit'
  BY <1>3, OthersRefer
<1>4. ASSUME NEW l \in Sending \cup {"reject"}, Goto(c, l)
      PROVE  /\ FrameFits' /\ pc' \in [Conns -> Labels] /\ frame' = frame
             /\ pc'[c] = l /\ \A d \in Conns \ {c} : pc'[d] = pc[d]
  BY <1>2, <1>4, GotoFacts
<1>5. CASE SendCheck(c)
  <2>1. PICK l \in {"reject", "open"} :
          Goto(c, l) /\ (l = "open" => Entry(frame[c].destination, c) # NULL)
    BY <1>5 DEF SendCheck
  <2>2. /\ FrameFits' /\ pc' \in [Conns -> Labels] /\ frame' = frame
        /\ pc'[c] = l /\ \A d \in Conns \ {c} : pc'[d] = pc[d]
    BY <1>4, <2>1 DEF Sending
  <2>3. TypeOK'
    BY <1>5, <2>2 DEF SendCheck, TypeOK, userTables, topicTables, protocol, locals, client
  <2>4. Refers(c)'
    BY <1>1, <1>5, <2>1, <2>2 DEF SendCheck, Refers, Entry, topicTables, locals
  <2> QED BY <1>3, <1>5, <2>2, <2>3, <2>4 DEF SendCheck, topicTables, locals
<1>6. CASE SendOpen(c)
  <2>1. topicToClients[frame[c].destination] \in Conns
    BY <1>1, <1>2, <1>6 DEF SendOpen, Refers, TypeOK
  <2>2. /\ FrameFits' /\ pc' \in [Conns -> Labels] /\ frame' = frame
        /\ pc'[c] = "fanout" /\ \A d \in Conns \ {c} : pc'[d] = pc[d]
    BY <1>4, <1>6 DEF SendOpen, Sending
  <2>3. topicMap' = [topicMap EXCEPT ![c] = topicToClients[frame[c].destination]]
    BY <1>6 DEF SendOpen
  <2>4. PICK v \in [Conns -> {"no", "may", "must"}] :
          iter' = [iter EXCEPT ![c] = [@ EXCEPT !.visit = v]]
    BY <1>6 DEF SendOpen
  <2>5. iter' \in [Conns -> Loop] /\ \A d \in Conns : iter'[d].to = iter[d].to
    <3>1. iter[c] \in Loop
      BY DEF TypeOK
    <3>2. [iter[c] EXCEPT !.visit = v] \in Loop /\ [iter[c] EXCEPT !.visit = v].to = iter[c].to
      BY <3>1 DEF Loop
    <3> QED BY <2>4, <3>2, LoopStep
  <2>6. TypeOK'
    BY <1>6, <2>1, <2>2, <2>3, <2>5 DEF SendOpen, TypeOK, userTables, topicTables,
       protocol, client
  <2>7. Refers(c)'
    BY <1>1, <1>6, <2>1, <2>2, <2>3, NullAssumption
    DEF SendOpen, Refers, TypeOK, topicTables
  <2> QED BY <1>3, <1>6, <2>2, <2>3, <2>5, <2>6, <2>7 DEF SendOpen, TypeOK, topicTables
<1>7. ASSUME NEW h \in Conns, SendNext(c, h) PROVE TypeInv'
  <2>1. /\ FrameFits' /\ pc' \in [Conns -> Labels] /\ frame' = frame
        /\ pc'[c] = "fetch" /\ \A d \in Conns \ {c} : pc'[d] = pc[d]
    BY <1>4, <1>7 DEF SendNext, Sending
  <2>2. /\ iter' \in [Conns -> Loop] /\ iter'[c].to = h
        /\ \A d \in Conns \ {c} : iter'[d] = iter[d]
    <3>1. iter[c] \in Loop
      BY DEF TypeOK
    <3>2. [iter[c] EXCEPT !.visit[h] = "no", !.to = h] \in Loop
          /\ [iter[c] EXCEPT !.visit[h] = "no", !.to = h].to = h
      BY <3>1 DEF Loop
    <3> QED BY <1>7, <3>2, LoopStep DEF SendNext
  <2>3. TypeOK'
    BY <1>7, <2>1, <2>2 DEF SendNext, TypeOK, userTables, topicTables, protocol, client
  <2>4. Refers(c)'
    BY <1>1, <1>7, <2>1, <2>2, NullAssumption DEF SendNext, Refers, topicTables
  <2> QED BY <1>3, <1>7, <2>1, <2>2, <2>3, <2>4 DEF SendNext, topicTables
<1>8. CASE SendFetch(c)
  <2>1. /\ FrameFits' /\ pc' \in [Conns -> Labels] /\ frame' = frame
        /\ pc'[c] = "push" /\ \A d \in Conns \ {c} : pc'[d] = pc[d]
    BY <1>4, <1>8 DEF SendFetch, Sending
  <2>2. topicMap[c] \in Conns /\ iter[c].to \in Conns
    BY <1>1, <1>8 DEF SendFetch, Refers, TypeOK, Loop
  <2>3. maps[frame[c].destination][topicMap[c]][iter[c].to] \in SubIds \cup {NULL}
    BY <1>2, <2>2 DEF TypeOK
  <2>4. iter' \in [Conns -> Loop] /\ \A d \in Conns : iter'[d].to = iter[d].to
    <3> DEFINE id == maps[frame[c].destination][topicMap[c]][iter[c].to]
    <3>1. iter[c] \in Loop
      BY DEF TypeOK
    <3>2. [iter[c] EXCEPT !.subscriptionId = id] \in Loop
          /\ [iter[c] EXCEPT !.subscriptionId = id].to = iter[c].to
      BY <2>3, <3>1 DEF Loop
    <3> QED BY <1>8, <3>2, LoopStep DEF SendFetch
  <2>5. TypeOK'
    BY <1>8, <2>1, <2>4 DEF SendFetch, TypeOK, userTables, topicTables, protocol, client
  <2>6. Refers(c)'
    BY <1>1, <1>8, <2>1, <2>4 DEF SendFetch, Refers, topicTables
  <2> QED BY <1>3, <1>8, <2>1, <2>4, <2>5, <2>6 DEF SendFetch, topicTables
<1>9. CASE SendPush(c)
  <2>1. /\ FrameFits' /\ pc' \in [Conns -> Labels] /\ frame' = frame
        /\ pc'[c] = "fanout" /\ \A d \in Conns \ {c} : pc'[d] = pc[d]
    BY <1>4, <1>9 DEF SendPush, Sending
  <2>2. iter[c].to \in Conns /\ iter[c].subscriptionId \in SubIds \cup {NULL}
    BY <1>1, <1>9 DEF SendPush, Refers, TypeOK, Loop
  <2>3. Message(frame[c].destination, iter[c].subscriptionId, c) \in Reply
    BY <1>2, <2>2 DEF Message, Reply, TypeOK
  <2>4. out' \in [Conns -> Seq(Reply)]
    BY <1>9, <2>2, <2>3, WriteType DEF SendPush
  <2>5. iter' \in [Conns -> Loop] /\ \A d \in Conns \ {c} : iter'[d] = iter[d]
    <3>1. iter[c] \in Loop
      BY DEF TypeOK
    <3>2. [iter[c] EXCEPT !.to = NULL, !.subscriptionId = NULL] \in Loop
      BY <3>1 DEF Loop
    <3> QED BY <1>9, <3>2, LoopStep DEF SendPush
  <2>6. TypeOK'
    BY <1>9, <2>1, <2>4, <2>5 DEF SendPush, TypeOK, userTables, topicTables, protocol, client
  <2>7. Refers(c)'
    BY <1>1, <1>9, <2>1 DEF SendPush, Refers, topicTables
  <2> QED BY <1>3, <1>9, <2>1, <2>5, <2>6, <2>7 DEF SendPush, topicTables
<1>10. CASE SendDone(c)
  <2>1. /\ FrameFits' /\ pc' \in [Conns -> Labels] /\ frame' \in [Conns -> Frames \cup {NULL}]
        /\ pc'[c] \in {"read", "receipt"}
        /\ \A d \in Conns \ {c} : pc'[d] = pc[d] /\ frame'[d] = frame[d]
    BY <1>2, <1>10, AcknowledgeFacts DEF SendDone
  <2>2. PICK v \in [Conns -> {"no", "may", "must"}] :
          iter' = [iter EXCEPT ![c] = [@ EXCEPT !.visit = v]]
    BY <1>10 DEF SendDone
  <2>3. iter' \in [Conns -> Loop] /\ \A d \in Conns : iter'[d].to = iter[d].to
    <3>1. iter[c] \in Loop
      BY DEF TypeOK
    <3>2. [iter[c] EXCEPT !.visit = v] \in Loop /\ [iter[c] EXCEPT !.visit = v].to = iter[c].to
      BY <3>1 DEF Loop
    <3> QED BY <2>2, <3>2, LoopStep
  <2>4. TypeOK'
    BY <1>10, <2>1, <2>3 DEF SendDone, TypeOK, userTables, topicTables, protocol, client
  <2>5. Refers(c)'
    BY <1>1, <1>10, <2>1 DEF SendDone, Refers, topicTables
  <2> QED BY <1>3, <1>10, <2>1, <2>3, <2>4, <2>5 DEF SendDone, TypeOK, topicTables
<1> QED
  BY <1>5, <1>6, <1>7, <1>8, <1>9, <1>10 DEF SendSteps

-----------------------------------------------------------------------------
LEMMA TypeNext == TypeInv /\ [Next]_vars => TypeInv'
<1> SUFFICES ASSUME TypeInv, [Next]_vars PROVE TypeInv'
  OBVIOUS
<1>1. CASE UNCHANGED vars
  BY <1>1 DEF vars, userTables, topicTables, protocol, locals, client, TypeInv, TypeOK,
     NoNullDereference, FrameFits, ReferencesFit, Refers
<1>2. ASSUME NEW c \in Conns, ThreadStep(c) \/ ClientStep(c) PROVE TypeInv'
  BY <1>2, ConnectionType, ConnectType, DisconnectType, TopicType, SendType
  DEF ThreadStep, ClientStep
<1> QED BY <1>1, <1>2 DEF Next, Quiescent

(* Type correctness: the shared tables and every thread's locals keep their *)
(* types in every interleaving of any number of connections.                *)
THEOREM TypeCorrect == Spec => []TypeOK
<1>1. Spec => []TypeInv
  BY TypeInit, TypeNext, PTL DEF Spec
<1>2. TypeInv => TypeOK
  BY DEF TypeInv
<1> QED BY <1>1, <1>2, PTL

(* No handler thread follows a null reference in the tables: every          *)
(* get(..).get(..) and get(..).remove(..) of ConnectionsImp that is not     *)
(* guarded is safe whatever other threads put or remove in between.         *)
THEOREM NullSafe == Spec => []NoNullDereference
<1>1. Spec => []TypeInv
  BY TypeInit, TypeNext, PTL DEF Spec
<1>2. TypeInv => NoNullDereference
  BY DEF TypeInv
<1> QED BY <1>1, <1>2, PTL

-----------------------------------------------------------------------------
(* What a step of c leaves alone                                           *)

(* The rows of every other connection, in the variables that belong to it.  *)
OthersKept(c) ==
  \A d \in Conns \ {c} :
    /\ pc'[d] = pc[d] /\ frame'[d] = frame[d] /\ topicMap'[d] = topicMap[d]
    /\ leaving'[d] = leaving[d] /\ clientToTopics'[d] = clientToTopics[d]
    /\ clientToUsername'[d] = clientToUsername[d] /\ errors'[d] = errors[d]
    /\ shouldTerminate'[d] = shouldTerminate[d]
    /\ received'[d] = received[d] /\ issued'[d] = issued[d]

LEMMA StepsAreLocal ==
  ASSUME TypeOK, NEW c \in Conns, ThreadStep(c) \/ ClientStep(c)
  PROVE  OthersKept(c)
<1> USE DEF TypeOK, OthersKept, Goto, Return, Acknowledge, userTables, topicTables,
        protocol, locals, client
<1>1. CASE Accept(c)
  BY <1>1 DEF Accept
<1>2. CASE \E f \in Frames : Receive(c, f)
  BY <1>2 DEF Receive
<1>3. CASE ClientCloses(c) \/ ProcessThrows(c) \/ Ignore(c) \/ RejectMalformed(c)
  BY <1>3 DEF ClientCloses, ProcessThrows, Ignore, RejectMalformed
<1>4. CASE ConnectSteps(c)
  BY <1>4 DEF ConnectSteps, ConnectCheckUser, CheckPasswordGet, CheckPasswordRegister,
     CheckPasswordCompare, ConnectLogIn, ConnectStore, SendConnected
<1>5. CASE DisconnectSteps(c)
  BY <1>5 DEF DisconnectSteps, SendReceipt, SendErrorFrame, LogOutUser, DisconnectBegin,
     DisconnectLeave, DisconnectEnd, CloseSocket
<1>6. CASE TopicSteps(c)
  BY <1>6 DEF TopicSteps, SubscribeFindTopic, SubscribeCreateTopic, SubscribeJoin,
     SubscribeRecord, UnsubscribeFind, UnsubscribeLeave
<1>7. CASE SendSteps(c)
  <2>1. UNCHANGED <<userTables, topicTables, protocol, errors, leaving, client>>
    BY <1>7, SendControl
  <2>2. CASE SendCheck(c) \/ SendDone(c)
    BY <2>1, <2>2 DEF SendCheck, SendDone
  <2>3. CASE SendOpen(c) \/ SendFetch(c) \/ SendPush(c) \/ \E h \in Conns : SendNext(c, h)
    BY <2>1, <2>3 DEF SendOpen, SendNext, SendFetch, SendPush
  <2> QED BY <1>7, <2>2, <2>3 DEF SendSteps
<1> QED
  BY <1>1, <1>2, <1>3, <1>4, <1>5, <1>6, <1>7 DEF ThreadStep, ClientStep

(* The steps that touch no topic table at all.                              *)
QuietStep(c) ==
  \/ Accept(c) \/ (\E f \in Frames : Receive(c, f)) \/ ClientCloses(c)
  \/ ProcessThrows(c) \/ Ignore(c) \/ RejectMalformed(c) \/ CloseSocket(c)
  \/ ConnectSteps(c) \/ SendReceipt(c) \/ SendErrorFrame(c) \/ LogOutUser(c)
  \/ DisconnectEnd(c) \/ SendSteps(c)

LEMMA QuietSteps ==
  ASSUME TypeOK, NEW c \in Conns, QuietStep(c)
  PROVE  /\ UNCHANGED <<topicToClients, maps, clientToTopics, leaving>>
         /\ pc'[c] \notin Subscribing \cup {"unsubscribe", "leaving"}
         /\ pc[c] \notin Subscribing \cup {"unsubscribe"}
<1> USE DEF TypeOK, Goto, Return, Acknowledge, topicTables, locals, Subscribing, Processing
<1>1. CASE Accept(c) \/ \E f \in Frames : Receive(c, f)
  BY <1>1 DEF Accept, Receive
<1>2. CASE ClientCloses(c) \/ ProcessThrows(c) \/ Ignore(c) \/ RejectMalformed(c)
  BY <1>2 DEF ClientCloses, ProcessThrows, Ignore, RejectMalformed
<1>3. CASE ConnectSteps(c)
  BY <1>3 DEF ConnectSteps, ConnectCheckUser, CheckPasswordGet, CheckPasswordRegister,
     CheckPasswordCompare, ConnectLogIn, ConnectStore, SendConnected
<1>4. CASE CloseSocket(c) \/ SendReceipt(c) \/ SendErrorFrame(c) \/ LogOutUser(c) \/ DisconnectEnd(c)
  BY <1>4 DEF CloseSocket, SendReceipt, SendErrorFrame, LogOutUser, DisconnectEnd
<1>5. CASE SendSteps(c)
  BY <1>5, SendControl DEF Sending
<1> QED
  BY <1>1, <1>2, <1>3, <1>4, <1>5 DEF QuietStep

LEMMA StepKinds ==
  ASSUME NEW c \in Conns, ThreadStep(c) \/ ClientStep(c)
  PROVE  QuietStep(c) \/ DisconnectBegin(c) \/ (\E t \in Topics : DisconnectLeave(c, t))
         \/ TopicSteps(c)
  BY DEF ThreadStep, ClientStep, QuietStep, DisconnectSteps

-----------------------------------------------------------------------------
(* A thread creates a topic's map at most once                              *)

LEMMA CreatesOnceKept ==
  ASSUME TypeInv, CreatesOnce, NEW c \in Conns, OthersKept(c),
         topicToClients' = topicToClients,
         \A t \in Topics, o, h \in Conns : maps'[t][o][h] # NULL => maps[t][o][h] # NULL,
         pc'[c] \notin {"create", "record"}
  PROVE  CreatesOnce'
<1> SUFFICES ASSUME NEW t \in Topics, NEW o \in Conns, Reachable(t, o)'
             PROVE  topicToClients'[t] # NULL
                    /\ ~ (pc'[o] = "create" /\ frame'[o].destination = t)
  BY DEF CreatesOnce
<1>1. Reachable(t, o)
  BY DEF Reachable, OthersKept
<1>2. topicToClients[t] # NULL /\ ~ (pc[o] = "create" /\ frame[o].destination = t)
  BY <1>1 DEF CreatesOnce
<1> QED BY <1>2 DEF OthersKept

LEMMA CreatesOnceNext ==
  ASSUME TypeInv, CreatesOnce, NEW c \in Conns, ThreadStep(c) \/ ClientStep(c)
  PROVE  CreatesOnce'
<1>0. TypeOK /\ OthersKept(c) /\ Refers(c) /\ Fits(pc[c], frame[c])
  BY StepsAreLocal DEF TypeInv, NoNullDereference, ReferencesFit, FrameFits
<1> DEFINE topic == frame[c].destination
<1>1. ASSUME pc[c] \in Subscribing \/ (Processing(c, "SUBSCRIBE") /\ ~ Malformed(frame[c]))
      PROVE  topic \in Topics
  BY <1>0, <1>1, FrameType DEF Fits, Working, Subscribing, Processing, Malformed,
     MalformedSubscribe, Headers
<1>2. CASE QuietStep(c)
  BY <1>0, <1>2, QuietSteps, CreatesOnceKept DEF Subscribing
<1>3. CASE DisconnectBegin(c)
  BY <1>0, <1>3, CreatesOnceKept DEF DisconnectBegin, Goto, TypeOK
<1>4. ASSUME NEW t \in Topics, NEW o \in Conns, RemoveEntry(t, o, c)
      PROVE  \A s \in Topics, q, h \in Conns : maps'[s][q][h] # NULL => maps[s][q][h] # NULL
  BY <1>0, <1>4 DEF RemoveEntry, TypeOK
<1>5. ASSUME NEW t \in Topics, DisconnectLeave(c, t) PROVE CreatesOnce'
  <2>1. topicToClients[t] \in Conns
    BY <1>0, <1>5 DEF DisconnectLeave, Refers, TypeOK
  <2> QED BY <1>0, <1>4, <1>5, <2>1, CreatesOnceKept DEF DisconnectLeave
<1>6. CASE SubscribeFindTopic(c)
  <2>1. topic \in Topics
    BY <1>1, <1>6 DEF SubscribeFindTopic
  <2> SUFFICES ASSUME NEW t \in Topics, NEW o \in Conns, Reachable(t, o)'
               PROVE  topicToClients'[t] # NULL
                      /\ ~ (pc'[o] = "create" /\ frame'[o].destination = t)
    BY DEF CreatesOnce
  <2>2. /\ UNCHANGED <<topicToClients, maps, topicMap, frame>> /\ pc'[c] # "record"
        /\ pc'[c] = "create" => topicToClients[topic] = NULL
    BY <1>0, <1>6 DEF SubscribeFindTopic, Goto, topicTables, locals, TypeOK
  <2>3. Reachable(t, o)
    BY <1>0, <2>2 DEF Reachable, OthersKept
  <2> QED BY <1>0, <2>2, <2>3 DEF CreatesOnce, OthersKept
<1>7. CASE SubscribeCreateTopic(c)
  <2>1. topic \in Topics
    BY <1>1, <1>7 DEF SubscribeCreateTopic, Subscribing
  <2> SUFFICES ASSUME NEW t \in Topics, NEW o \in Conns, Reachable(t, o)'
               PROVE  topicToClients'[t] # NULL
                      /\ ~ (pc'[o] = "create" /\ frame'[o].destination = t)
    BY DEF CreatesOnce
  <2>2. /\ topicToClients' = [topicToClients EXCEPT ![topic] = c]
        /\ UNCHANGED <<maps, topicMap, frame>> /\ pc'[c] = "join"
    BY <1>0, <1>7 DEF SubscribeCreateTopic, Goto, locals, TypeOK
  <2>3. Reachable(t, o) \/ (t = topic /\ o = c)
    BY <1>0, <2>1, <2>2 DEF Reachable, OthersKept, TypeOK
  <2> QED BY <1>0, <2>1, <2>2, <2>3, NullAssumption DEF CreatesOnce, OthersKept, TypeOK
<1>8. CASE SubscribeJoin(c)
  <2>1. topic \in Topics
    BY <1>1, <1>8 DEF SubscribeJoin, Subscribing
  <2> SUFFICES ASSUME NEW t \in Topics, NEW o \in Conns, Reachable(t, o)'
               PROVE  topicToClients'[t] # NULL
                      /\ ~ (pc'[o] = "create" /\ frame'[o].destination = t)
    BY DEF CreatesOnce
  <2>2. /\ topicMap'[c] = topicToClients[topic]
        /\ UNCHANGED <<topicToClients, maps, frame>> /\ pc'[c] # "create"
    BY <1>0, <1>8 DEF SubscribeJoin, Goto, topicTables, TypeOK
  <2>3. Reachable(t, o)
    BY <1>0, <2>1, <2>2 DEF Reachable, OthersKept
  <2> QED BY <1>0, <2>2, <2>3 DEF CreatesOnce, OthersKept
<1>9. CASE SubscribeRecord(c)
  <2>1. topic \in Topics
    BY <1>1, <1>9 DEF SubscribeRecord, Subscribing
  <2> SUFFICES ASSUME NEW t \in Topics, NEW o \in Conns, Reachable(t, o)'
               PROVE  topicToClients'[t] # NULL
                      /\ ~ (pc'[o] = "create" /\ frame'[o].destination = t)
    BY DEF CreatesOnce
  <2>2. /\ maps' = [maps EXCEPT ![topic][topicMap[c]][c] = frame[c].id]
        /\ topicToClients' = topicToClients /\ pc[c] = "record"
        /\ pc'[c] \notin {"create", "record"}
    BY <1>0, <1>9 DEF SubscribeRecord, PutEntry, Acknowledge, Goto, Return, TypeOK
  <2>3. Reachable(t, o)
    BY <1>0, <2>1, <2>2 DEF Reachable, OthersKept, TypeOK
  <2> QED BY <1>0, <2>2, <2>3 DEF CreatesOnce, OthersKept
<1>10. CASE UnsubscribeFind(c)
  BY <1>0, <1>10, CreatesOnceKept DEF UnsubscribeFind, Goto, TypeOK
<1>11. CASE UnsubscribeLeave(c)
  <2>1. PICK t \in leaving[c] : RemoveEntry(t, topicToClients[t], c)
    BY <1>11 DEF UnsubscribeLeave
  <2>2. t \in Topics /\ topicToClients[t] \in Conns
    BY <1>0, <2>1 DEF Refers, TypeOK
  <2>3. pc'[c] \notin {"create", "record"}
    BY <1>0, <1>11 DEF UnsubscribeLeave, Acknowledge, Goto, Return, TypeOK
  <2> QED BY <1>0, <1>4, <1>11, <2>1, <2>2, <2>3, CreatesOnceKept DEF UnsubscribeLeave
<1> QED
  BY <1>2, <1>3, <1>5, <1>6, <1>7, <1>8, <1>9, <1>10, <1>11, StepKinds DEF TopicSteps

-----------------------------------------------------------------------------
(* Where a subscription is recorded                                        *)

(* IdsIssued and SubscriptionsTracked, for one connection.                  *)
IdsIssuedAt(c) ==
  /\ \A i \in SubIds : issued[c][i] = NULL => clientToTopics[c][i] = NULL
  /\ /\ pc[c] \in {"process"} \cup Subscribing
     /\ frame[c].cmd = "SUBSCRIBE" /\ frame[c].id # NULL
     => /\ clientToTopics[c][frame[c].id] = NULL
        /\ issued[c][frame[c].id] = frame[c].destination

TrackedAt(c) ==
  /\ \A t \in Topics : Entry(t, c) # NULL =>
       clientToTopics[c][Entry(t, c)] = t \/ t \in leaving[c]
  /\ leaving[c] # {} => pc[c] \in {"leaving", "unsubscribe"}
  /\ pc[c] = "unsubscribe" => \A s, t \in leaving[c] : s = t
  /\ pc[c] = "leaving" \/ shouldTerminate[c] =>
       \A i \in SubIds : clientToTopics[c][i] = NULL
  /\ shouldTerminate[c] => pc[c] \in {"terminated", "closed"}

LEMMA AtEach ==
  /\ IdsIssued <=> \A c \in Conns : IdsIssuedAt(c)
  /\ SubscriptionsTracked <=> \A c \in Conns : TrackedAt(c)
  BY DEF IdsIssued, IdsIssuedAt, SubscriptionsTracked, TrackedAt

LEMMA IssuedStep ==
  ASSUME NEW c \in Conns, ThreadStep(c) \/ ClientStep(c),
         ~ \E f \in Frames : Receive(c, f)
  PROVE  issued' = issued
  BY DEF ThreadStep, ClientStep, Accept, ClientCloses, ProcessThrows, Ignore,
     RejectMalformed, ConnectSteps, ConnectCheckUser, CheckPasswordGet,
     CheckPasswordRegister, CheckPasswordCompare, ConnectLogIn, ConnectStore,
     SendConnected, DisconnectSteps, SendReceipt, SendErrorFrame, LogOutUser,
     DisconnectBegin, DisconnectLeave, DisconnectEnd, CloseSocket, TopicSteps,
     SubscribeFindTopic, SubscribeCreateTopic, SubscribeJoin, SubscribeRecord,
     UnsubscribeFind, UnsubscribeLeave, SendSteps, SendCheck, SendOpen, SendNext,
     SendFetch, SendPush, SendDone, client

(* Outside Receive a frame is only let go of, and "process" only left.      *)
LEMMA FrameStep ==
  ASSUME TypeOK, NEW c \in Conns, ThreadStep(c) \/ ClientStep(c),
         ~ \E f \in Frames : Receive(c, f)
  PROVE  /\ pc'[c] # "process"
         /\ pc'[c] \in Subscribing =>
              frame'[c] = frame[c] /\ pc[c] \in {"process"} \cup Subscribing
<1> USE DEF TypeOK, Goto, Return, Acknowledge, Subscribing, Processing
<1>1. CASE QuietStep(c)
  <2>1. pc'[c] \notin Subscribing
    BY <1>1, QuietSteps
  <2>2. pc'[c] # "process"
    <3>1. CASE SendSteps(c)
      BY <3>1, SendControl DEF Sending
    <3>2. CASE ConnectSteps(c)
      BY <3>2 DEF ConnectSteps, ConnectCheckUser, CheckPasswordGet,
         CheckPasswordRegister, CheckPasswordCompare, ConnectLogIn, ConnectStore,
         SendConnected
    <3>3. CASE SendReceipt(c) \/ SendErrorFrame(c) \/ LogOutUser(c) \/ DisconnectEnd(c)
               \/ CloseSocket(c)
      BY <3>3 DEF SendReceipt, SendErrorFrame, LogOutUser, DisconnectEnd, CloseSocket
    <3>4. CASE Accept(c) \/ ClientCloses(c) \/ ProcessThrows(c) \/ Ignore(c)
               \/ RejectMalformed(c)
      BY <3>4 DEF Accept, ClientCloses, ProcessThrows, Ignore, RejectMalformed
    <3> QED BY <1>1, <3>1, <3>2, <3>3, <3>4 DEF QuietStep
  <2> QED BY <2>1, <2>2
<1>2. CASE DisconnectBegin(c) \/ \E t \in Topics : DisconnectLeave(c, t)
  BY <1>2 DEF DisconnectBegin, DisconnectLeave
<1>3. CASE TopicSteps(c)
  BY <1>3 DEF TopicSteps, SubscribeFindTopic, SubscribeCreateTopic, SubscribeJoin,
     SubscribeRecord, UnsubscribeFind, UnsubscribeLeave
<1> QED
  BY <1>1, <1>2, <1>3, StepKinds

LEMMA IdsIssuedNext ==
  ASSUME FreshIds, TypeInv, IdsIssued, NEW c \in Conns, ThreadStep(c) \/ ClientStep(c)
  PROVE  IdsIssued'
<1>0. TypeOK /\ OthersKept(c) /\ IdsIssuedAt(c) /\ Fits(pc[c], frame[c])
  BY StepsAreLocal, AtEach DEF TypeInv, NoNullDereference, FrameFits
<1> SUFFICES IdsIssuedAt(c)'
  <2>1. \A d \in Conns \ {c} : IdsIssuedAt(d)'
    BY <1>0, AtEach DEF IdsIssuedAt, OthersKept
  <2> QED BY <2>1 DEF IdsIssued, IdsIssuedAt
<1>1. CASE \E f \in Frames : Receive(c, f)
  <2>1. PICK f \in Frames : Receive(c, f)
    BY <1>1
  <2>2. f \in Headers
    BY FramesAssumption
  <2>3. /\ frame'[c] = f /\ clientToTopics' = clientToTopics
        /\ f.cmd = "SUBSCRIBE" /\ f.id # NULL => issued[c][f.id] = NULL
    BY <1>0, <2>1 DEF Receive, MaySend, topicTables, TypeOK
  <2>4. CASE f.cmd = "SUBSCRIBE" /\ f.id # NULL
    <3>1. issued'[c] = [issued[c] EXCEPT ![f.id] = f.destination] /\ f.id \in SubIds
      BY <1>0, <2>1, <2>2, <2>4 DEF Receive, TypeOK, Headers
    <3> QED BY <1>0, <2>3, <2>4, <3>1 DEF IdsIssuedAt, TypeOK
  <2>5. CASE ~ (f.cmd = "SUBSCRIBE" /\ f.id # NULL)
    BY <1>0, <2>1, <2>3, <2>5 DEF Receive, IdsIssuedAt
  <2> QED BY <2>4, <2>5
<1>2. CASE ~ \E f \in Frames : Receive(c, f)
  <2>1. /\ issued' = issued /\ pc'[c] # "process"
        /\ pc'[c] \in Subscribing =>
              frame'[c] = frame[c] /\ pc[c] \in {"process"} \cup Subscribing
    BY <1>0, <1>2, IssuedStep, FrameStep
  <2>2. CASE SubscribeRecord(c)
    <3>1. frame[c].id \in SubIds /\ frame[c].destination # NULL /\ frame[c].cmd = "SUBSCRIBE"
      BY <1>0, <2>2, FrameType DEF SubscribeRecord, Fits, Working, Subscribing, Headers
    <3>2. clientToTopics'[c] = [clientToTopics[c] EXCEPT ![frame[c].id] = frame[c].destination]
      BY <1>0, <2>2 DEF SubscribeRecord, TypeOK
    <3>3. pc'[c] \notin Subscribing /\ issued[c][frame[c].id] # NULL
      BY <1>0, <2>2, <3>1, NullAssumption
      DEF SubscribeRecord, Acknowledge, Goto, Return, Subscribing, TypeOK, IdsIssuedAt
    <3> QED BY <1>0, <2>1, <3>1, <3>2, <3>3 DEF IdsIssuedAt, TypeOK
  <2>3. CASE ~ SubscribeRecord(c)
    <3>1. \A i \in SubIds : clientToTopics'[c][i] = clientToTopics[c][i]
                            \/ clientToTopics'[c][i] = NULL
      <4>1. CASE clientToTopics' = clientToTopics
        BY <4>1
      <4>2. CASE DisconnectBegin(c)
        BY <1>0, <4>2 DEF DisconnectBegin, TypeOK
      <4>3. CASE UnsubscribeFind(c)
        <5>1. CASE clientToTopics' = [clientToTopics EXCEPT ![c][frame[c].id] = NULL]
          <6>1. clientToTopics'[c] = [clientToTopics[c] EXCEPT ![frame[c].id] = NULL]
            BY <1>0, <5>1 DEF TypeOK
          <6> QED BY <1>0, <6>1 DEF TypeOK
        <5> QED BY <4>1, <4>3, <5>1 DEF UnsubscribeFind
      <4> QED BY <1>0, <2>3, <4>1, <4>2, <4>3, StepKinds, QuietSteps DEF DisconnectLeave,
              TopicSteps, SubscribeFindTopic, SubscribeCreateTopic, SubscribeJoin,
              UnsubscribeLeave, topicTables
    <3>2. pc'[c] \in Subscribing /\ frame[c].cmd = "SUBSCRIBE" /\ frame[c].id # NULL
          => frame[c].id \in SubIds
      BY <1>0, <2>1, FrameType DEF Fits, Working, Headers
    <3> QED BY <1>0, <2>1, <3>1, <3>2 DEF IdsIssuedAt
  <2> QED BY <2>2, <2>3
<1> QED BY <1>1, <1>2

LEMMA TrackedNext ==
  ASSUME FreshIds, TypeInv, CreatesOnce, IdsIssued, SubscriptionsTracked,
         NEW c \in Conns, ThreadStep(c) \/ ClientStep(c)
  PROVE  SubscriptionsTracked'
<1>0. /\ TypeOK /\ OthersKept(c) /\ Refers(c) /\ Fits(pc[c], frame[c])
      /\ \A d \in Conns : IdsIssuedAt(d) /\ TrackedAt(d)
  BY StepsAreLocal, AtEach DEF TypeInv, NoNullDereference, ReferencesFit, FrameFits
<1> SUFFICES ASSUME NEW d \in Conns PROVE TrackedAt(d)'
  BY DEF SubscriptionsTracked, TrackedAt
<1> DEFINE topic == frame[c].destination
<1>1. ASSUME \A t \in Topics : Entry(t, d)' = Entry(t, d), d # c
      PROVE  TrackedAt(d)'
  BY <1>0, <1>1 DEF TrackedAt, OthersKept
<1>2. ASSUME NEW t \in Topics, NEW o \in Conns, NEW v \in SubIds \cup {NULL},
             maps' = [maps EXCEPT ![t][o][c] = v], topicToClients' = topicToClients,
             d # c
      PROVE  \A s \in Topics : Entry(s, d)' = Entry(s, d)
  BY <1>0, <1>2 DEF Entry, TypeOK
<1>3. CASE QuietStep(c)
  <2>1. /\ UNCHANGED <<topicToClients, maps, clientToTopics, leaving>>
        /\ pc'[c] \notin Subscribing \cup {"unsubscribe", "leaving"}
        /\ pc[c] \notin Subscribing \cup {"unsubscribe"}
    BY <1>0, <1>3, QuietSteps
  <2>2. \A t \in Topics : Entry(t, d)' = Entry(t, d)
    BY <2>1 DEF Entry
  <2>3. CASE DisconnectEnd(c)
    <3>1. /\ leaving[c] = {} /\ pc[c] = "leaving" /\ pc'[c] = "terminated"
      BY <1>0, <2>3 DEF DisconnectEnd, TypeOK
    <3> QED BY <1>0, <1>1, <2>1, <2>2, <3>1 DEF TrackedAt
  <2>4. CASE ~ DisconnectEnd(c)
    <3>1. shouldTerminate' = shouldTerminate
      BY <1>3, <2>4 DEF QuietStep, Accept, Receive, ClientCloses, ProcessThrows, Ignore,
         RejectMalformed, CloseSocket, ConnectSteps, ConnectCheckUser, CheckPasswordGet,
         CheckPasswordRegister, CheckPasswordCompare, ConnectLogIn, ConnectStore,
         SendConnected, SendReceipt, SendErrorFrame, LogOutUser, SendSteps, SendCheck,
         SendOpen, SendNext, SendFetch, SendPush, SendDone, protocol
    <3>2. pc[c] # "leaving" /\ (pc[c] \in {"terminated", "closed"} => CloseSocket(c))
      <4>1. CASE ConnectSteps(c)
        BY <4>1 DEF ConnectSteps, ConnectCheckUser, CheckPasswordGet, CheckPasswordRegister,
           CheckPasswordCompare, ConnectLogIn, ConnectStore, SendConnected, Processing
      <4>2. CASE SendSteps(c)
        BY <1>0, <4>2, SendControl DEF Sending
      <4>3. CASE SendReceipt(c) \/ SendErrorFrame(c) \/ LogOutUser(c) \/ CloseSocket(c)
        BY <4>3 DEF SendReceipt, SendErrorFrame, LogOutUser, CloseSocket, Processing
      <4>4. CASE Accept(c) \/ ClientCloses(c) \/ ProcessThrows(c) \/ Ignore(c)
                 \/ RejectMalformed(c) \/ \E f \in Frames : Receive(c, f)
        BY <4>4 DEF Accept, Receive, ClientCloses, ProcessThrows, Ignore, RejectMalformed,
           Processing
      <4> QED BY <1>3, <2>4, <4>1, <4>2, <4>3, <4>4 DEF QuietStep
    <3>3. shouldTerminate[c] => pc'[c] \in {"terminated", "closed"}
      BY <1>0, <3>2 DEF TrackedAt, CloseSocket, Goto, TypeOK
    <3>4. leaving[c] = {}
      BY <1>0, <2>1, <3>2 DEF TrackedAt
    <3> QED BY <1>0, <1>1, <2>1, <2>2, <3>1, <3>3, <3>4 DEF TrackedAt
  <2> QED BY <2>3, <2>4
<1>4. CASE DisconnectBegin(c)
  <2>1. /\ UNCHANGED <<topicToClients, maps, shouldTerminate>>
        /\ pc[c] = "disconnect" /\ pc'[c] = "leaving"
        /\ leaving'[c] = {clientToTopics[c][i] : i \in SubIds} \ {NULL}
        /\ clientToTopics'[c] = [i \in SubIds |-> NULL]
    BY <1>0, <1>4 DEF DisconnectBegin, Goto, protocol, TypeOK
  <2>2. \A t \in Topics : Entry(t, d)' = Entry(t, d)
    BY <2>1 DEF Entry
  <2>3. leaving[c] = {} /\ ~ shouldTerminate[c]
    BY <1>0, <2>1 DEF TrackedAt
  <2>4. \A t \in Topics : Entry(t, c) # NULL => t \in leaving'[c]
    <3> SUFFICES ASSUME NEW t \in Topics, Entry(t, c) # NULL PROVE t \in leaving'[c]
      OBVIOUS
    <3>1. Entry(t, c) \in SubIds
      BY <1>0 DEF Entry, TypeOK
    <3>2. clientToTopics[c][Entry(t, c)] = t /\ t # NULL
      BY <1>0, <2>3, NullAssumption DEF TrackedAt
    <3> QED BY <2>1, <3>1, <3>2
  <2> QED BY <1>0, <1>1, <2>1, <2>2, <2>3, <2>4 DEF TrackedAt
<1>5. ASSUME NEW t \in Topics, DisconnectLeave(c, t) PROVE TrackedAt(d)'
  <2>1. /\ UNCHANGED <<topicToClients, clientToTopics, shouldTerminate, pc>>
        /\ leaving'[c] = leaving[c] \ {t} /\ pc[c] = "leaving"
        /\ maps' = [maps EXCEPT ![t][topicToClients[t]][c] = NULL]
    BY <1>0, <1>5 DEF DisconnectLeave, RemoveEntry, protocol, TypeOK
  <2>2. topicToClients[t] \in Conns
    BY <1>0, <1>5 DEF DisconnectLeave, Refers, TypeOK
  <2>3. CASE d # c
    BY <1>1, <1>2, <2>1, <2>2, <2>3
  <2>4. /\ Entry(t, c)' = NULL
        /\ \A s \in Topics \ {t} : Entry(s, c)' = Entry(s, c)
    BY <1>0, <2>1, <2>2 DEF Entry, TypeOK
  <2>5. CASE d = c
    BY <1>0, <2>1, <2>4, <2>5 DEF TrackedAt
  <2> QED BY <2>3, <2>5
<1>6. CASE SubscribeFindTopic(c) \/ SubscribeJoin(c)
  <2>1. /\ UNCHANGED <<topicToClients, maps, clientToTopics, shouldTerminate, leaving>>
        /\ pc[c] \in {"process", "join"}
        /\ pc'[c] \in {"create", "join", "record", "reject"}
    BY <1>0, <1>6 DEF SubscribeFindTopic, SubscribeJoin, Processing, Goto, topicTables,
       protocol, locals, TypeOK
  <2>2. \A t \in Topics : Entry(t, d)' = Entry(t, d)
    BY <2>1 DEF Entry
  <2>3. leaving[c] = {} /\ ~ shouldTerminate[c]
    BY <1>0, <2>1 DEF TrackedAt
  <2> QED BY <1>0, <1>1, <2>1, <2>2, <2>3 DEF TrackedAt
<1>7. CASE SubscribeCreateTopic(c)
  <2>0. topic \in Topics
    BY <1>0, <1>7, FrameType DEF SubscribeCreateTopic, Fits, Working, Subscribing, Headers
  <2>1. /\ UNCHANGED <<maps, clientToTopics, shouldTerminate, leaving>>
        /\ topicToClients' = [topicToClients EXCEPT ![topic] = c]
        /\ pc[c] = "create" /\ pc'[c] = "join"
    BY <1>0, <1>7 DEF SubscribeCreateTopic, Goto, protocol, locals, TypeOK
  <2>2. maps[topic][c][d] = NULL
    BY <2>0, <2>1 DEF CreatesOnce, Reachable
  <2>3. \A t \in Topics : Entry(t, d)' = Entry(t, d) \/ Entry(t, d)' = NULL
    BY <1>0, <2>0, <2>1, <2>2 DEF Entry, TypeOK
  <2>4. leaving[c] = {} /\ ~ shouldTerminate[c]
    BY <1>0, <2>1 DEF TrackedAt
  <2> QED BY <1>0, <2>1, <2>3, <2>4 DEF TrackedAt, OthersKept
<1>8. CASE SubscribeRecord(c)
  <2>0. /\ frame[c].id \in SubIds /\ frame[c].id # NULL /\ topic \in Topics
        /\ frame[c].cmd = "SUBSCRIBE" /\ topicMap[c] \in Conns
    BY <1>0, <1>8, FrameType DEF SubscribeRecord, Fits, Working, Subscribing, Refers,
       TypeOK, Headers
  <2>1. /\ UNCHANGED <<topicToClients, shouldTerminate, leaving>>
        /\ clientToTopics'[c] = [clientToTopics[c] EXCEPT ![frame[c].id] = topic]
        /\ maps' = [maps EXCEPT ![topic][topicMap[c]][c] = frame[c].id]
        /\ pc[c] = "record" /\ pc'[c] \in {"read", "receipt"}
    BY <1>0, <1>8 DEF SubscribeRecord, PutEntry, Acknowledge, Goto, Return, protocol, TypeOK
  <2>2. CASE d # c
    BY <1>1, <1>2, <2>0, <2>1, <2>2
  <2>3. /\ leaving[c] = {} /\ ~ shouldTerminate[c]
        /\ clientToTopics[c][frame[c].id] = NULL
    BY <1>0, <2>0, <2>1 DEF TrackedAt, IdsIssuedAt, Subscribing
  <2>4. \A t \in Topics : \/ Entry(t, c)' = Entry(t, c)
                          \/ t = topic /\ Entry(t, c)' = frame[c].id
    BY <1>0, <2>0, <2>1 DEF Entry, TypeOK
  <2>5. \A t \in Topics : Entry(t, c)' # NULL => clientToTopics'[c][Entry(t, c)'] = t
    <3> SUFFICES ASSUME NEW t \in Topics, Entry(t, c)' # NULL
                 PROVE  clientToTopics'[c][Entry(t, c)'] = t
      OBVIOUS
    <3>1. CASE Entry(t, c)' = Entry(t, c)
      <4>1. Entry(t, c) \in SubIds
        BY <1>0, <3>1 DEF Entry, TypeOK
      <4>2. clientToTopics[c][Entry(t, c)] = t /\ t # NULL
        BY <1>0, <2>3, <3>1, NullAssumption DEF TrackedAt
      <4> QED BY <1>0, <2>1, <2>3, <3>1, <4>1, <4>2 DEF TypeOK
    <3>2. CASE t = topic /\ Entry(t, c)' = frame[c].id
      BY <1>0, <2>0, <2>1, <3>2 DEF TypeOK
    <3> QED BY <2>4, <3>1, <3>2
  <2>6. CASE d = c
    BY <1>0, <2>1, <2>3, <2>5, <2>6 DEF TrackedAt
  <2> QED BY <2>2, <2>6
<1>9. CASE UnsubscribeFind(c)
  <2>0. frame[c].id \in SubIds
    BY <1>0, <1>9, FrameType DEF UnsubscribeFind, Processing, Malformed,
       MalformedUnsubscribe, Fits, Working, Headers
  <2>1. /\ UNCHANGED <<topicToClients, maps, shouldTerminate>> /\ pc[c] = "process"
    BY <1>9 DEF UnsubscribeFind, Processing, protocol
  <2>2. \A t \in Topics : Entry(t, d)' = Entry(t, d)
    BY <2>1 DEF Entry
  <2>3. leaving[c] = {} /\ ~ shouldTerminate[c]
    BY <1>0, <2>1 DEF TrackedAt
  <2>4. CASE UNCHANGED <<clientToTopics, leaving>> /\ Goto(c, "reject")
    <3>1. pc'[c] = "reject"
      BY <1>0, <2>4 DEF Goto, TypeOK
    <3> QED BY <1>0, <1>1, <2>1, <2>2, <2>3, <2>4, <3>1 DEF TrackedAt
  <2>5. CASE ~ (UNCHANGED <<clientToTopics, leaving>> /\ Goto(c, "reject"))
    <3> DEFINE left == clientToTopics[c][frame[c].id]
    <3>1. /\ clientToTopics'[c] = [clientToTopics[c] EXCEPT ![frame[c].id] = NULL]
          /\ leaving'[c] = {left} /\ pc'[c] = "unsubscribe"
      BY <1>0, <1>9, <2>5 DEF UnsubscribeFind, Goto, TypeOK
    <3>2. \A t \in Topics : Entry(t, c) # NULL =>
            clientToTopics'[c][Entry(t, c)] = t \/ t = left
      <4> SUFFICES ASSUME NEW t \in Topics, Entry(t, c) # NULL
                   PROVE  clientToTopics'[c][Entry(t, c)] = t \/ t = left
        OBVIOUS
      <4>1. Entry(t, c) \in SubIds
        BY <1>0 DEF Entry, TypeOK
      <4>2. clientToTopics[c][Entry(t, c)] = t
        BY <1>0, <2>3 DEF TrackedAt
      <4> QED BY <1>0, <2>0, <3>1, <4>1, <4>2 DEF TypeOK
    <3>3. \A t \in Topics : Entry(t, c)' # NULL =>
            clientToTopics'[c][Entry(t, c)'] = t \/ t \in leaving'[c]
      BY <2>1, <3>1, <3>2 DEF Entry
    <3>4. CASE d # c
      BY <1>1, <2>2, <3>4
    <3>5. CASE d = c
      BY <2>1, <2>3, <3>1, <3>3, <3>5 DEF TrackedAt
    <3> QED BY <3>4, <3>5
  <2> QED BY <2>4, <2>5
<1>10. CASE UnsubscribeLeave(c)
  <2>1. PICK t \in leaving[c] : RemoveEntry(t, topicToClients[t], c)
    BY <1>10 DEF UnsubscribeLeave
  <2>2. t \in Topics /\ topicToClients[t] \in Conns
    BY <1>0, <2>1 DEF Refers, TypeOK
  <2>3. /\ UNCHANGED <<topicToClients, clientToTopics, shouldTerminate>>
        /\ leaving'[c] = {} /\ pc[c] = "unsubscribe" /\ pc'[c] \in {"read", "receipt"}
        /\ maps' = [maps EXCEPT ![t][topicToClients[t]][c] = NULL]
    <3>1. maps' = [maps EXCEPT ![t][topicToClients[t]][c] = NULL]
      BY <2>1 DEF RemoveEntry
    <3>2. pc[c] = "unsubscribe" /\ UNCHANGED <<topicToClients, clientToTopics, shouldTerminate>>
      BY <1>10 DEF UnsubscribeLeave, protocol
    <3>3. leaving'[c] = {} /\ Acknowledge(c)
      BY <1>0, <1>10 DEF UnsubscribeLeave, TypeOK
    <3>4. pc'[c] \in {"read", "receipt"}
      BY <1>0, <3>3 DEF Acknowledge, Goto, Return, TypeOK
    <3> QED BY <3>1, <3>2, <3>3, <3>4
  <2>4. CASE d # c
    BY <1>1, <1>2, <2>2, <2>3, <2>4
  <2>5. /\ Entry(t, c)' = NULL
        /\ \A s \in Topics \ {t} : Entry(s, c)' = Entry(s, c)
    BY <1>0, <2>2, <2>3 DEF Entry, TypeOK
  <2>6. \A s \in leaving[c] : s = t
    BY <1>0, <2>1, <2>3 DEF TrackedAt
  <2>7. CASE d = c
    BY <1>0, <2>3, <2>5, <2>6, <2>7 DEF TrackedAt
  <2> QED BY <2>4, <2>7
<1> QED
  BY <1>3, <1>4, <1>5, <1>6, <1>7, <1>8, <1>9, <1>10, StepKinds DEF TopicSteps

-----------------------------------------------------------------------------
LEMMA TrackInit == Init => TrackInv
<1> SUFFICES ASSUME Init PROVE CreatesOnce /\ IdsIssued /\ SubscriptionsTracked
  BY TypeInit DEF TrackInv
<1>1. CreatesOnce
  BY NullAssumption DEF Init, CreatesOnce, Reachable
<1>2. IdsIssued
  BY DEF Init, IdsIssued, Subscribing
<1>3. SubscriptionsTracked
  BY DEF Init, SubscriptionsTracked, Entry
<1> QED BY <1>1, <1>2, <1>3

LEMMA TrackNext == FreshIds /\ TrackInv /\ [Next]_vars => TrackInv'
<1> SUFFICES ASSUME FreshIds, TrackInv, [Next]_vars PROVE TrackInv'
  OBVIOUS
<1>1. CASE UNCHANGED vars
  BY <1>1, TypeNext DEF TrackInv, CreatesOnce, Reachable, IdsIssued, SubscriptionsTracked,
     Entry, vars, topicTables, protocol, locals, client
<1>2. ASSUME NEW c \in Conns, ThreadStep(c) \/ ClientStep(c) PROVE TrackInv'
  BY <1>2, TypeNext, CreatesOnceNext, IdsIssuedNext, TrackedNext DEF TrackInv
<1> QED BY <1>1, <1>2 DEF Next, Quiescent

(* disconnect() leaves nothing behind: if clients do not reuse subscription *)
(* ids, a terminated connection is a subscriber of no topic, whatever the   *)
(* other threads did to the topics' maps while it left them.                *)
THEOREM GhostFree == FreshIds => (Spec => []NoGhostSubscriber)
<1> SUFFICES ASSUME FreshIds PROVE Spec => []NoGhostSubscriber
  OBVIOUS
<1>1. TrackInv /\ [Next]_vars => TrackInv'
  BY TrackNext
<1>2. TrackInv => NoGhostSubscriber
  <2> SUFFICES ASSUME TrackInv, NEW c \in Conns, shouldTerminate[c], NEW t \in Topics,
                      Entry(t, c) # NULL
               PROVE  FALSE
    BY DEF NoGhostSubscriber
  <2>1. TypeOK /\ TrackedAt(c)
    BY AtEach DEF TrackInv, TypeInv
  <2>2. Entry(t, c) \in SubIds
    BY <2>1 DEF Entry, TypeOK
  <2> QED BY <2>1, <2>2, NullAssumption DEF TrackedAt
<1> QED BY <1>1, <1>2, TrackInit, PTL DEF Spec
=============================================================================

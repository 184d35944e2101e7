---------------------- MODULE ConnectionsSafetyProofs ----------------------
(***************************************************************************)
(* The safety properties of ConnectionsImp beyond types and subscriptions: *)
(* passwords, topics' maps, sessions, the routing of MESSAGE frames; and   *)
(* what a broadcast promises while clients come and go: nobody in the map  *)
(* it walks over is skipped, and every subscriber sees the events of a     *)
(* sender in order, and once if it subscribed once.                        *)
(***************************************************************************)
EXTENDS ConnectionsImpProofs

-----------------------------------------------------------------------------
(* Passwords                                                               *)

(* Only the thread of c, at the end of a checked CONNECT, stores a password *)
(* for the user of its frame.                                               *)
LEMMA PasswordStep ==
  ASSUME TypeOK, NEW c \in Conns, ThreadStep(c) \/ ClientStep(c)
  PROVE  \/ usernameToPass' = usernameToPass
         \/ /\ pc[c] \in {"register", "store"}
            /\ usernameToPass' = [usernameToPass EXCEPT ![frame[c].login] = frame[c].passcode]
<1> USE DEF userTables
<1>1. CASE ConnectSteps(c)
  BY <1>1 DEF ConnectSteps, ConnectCheckUser, CheckPasswordGet, CheckPasswordRegister,
     CheckPasswordCompare, ConnectLogIn, ConnectStore, SendConnected
<1>2. CASE DisconnectSteps(c) \/ TopicSteps(c) \/ SendSteps(c)
  BY <1>2 DEF DisconnectSteps, SendReceipt, SendErrorFrame, LogOutUser, DisconnectBegin,
     DisconnectLeave, DisconnectEnd, CloseSocket, TopicSteps, SubscribeFindTopic,
     SubscribeCreateTopic, SubscribeJoin, SubscribeRecord, UnsubscribeFind,
     UnsubscribeLeave, SendSteps, SendCheck, SendOpen, SendNext, SendFetch, SendPush, SendDone
<1>3. CASE ClientStep(c) \/ ProcessThrows(c) \/ Ignore(c) \/ RejectMalformed(c)
  BY <1>3 DEF ClientStep, Accept, Receive, ClientCloses, ProcessThrows, Ignore, RejectMalformed
<1> QED BY <1>1, <1>2, <1>3 DEF ThreadStep

(* The ways into the places that store a password.                          *)
LEMMA PasswordEntry ==
  ASSUME TypeOK, NEW c \in Conns, ThreadStep(c) \/ ClientStep(c),
         pc'[c] \in {"register", "login", "store"}
  PROVE  /\ frame'[c] = frame[c]
         /\ \/ pc[c] = "password" /\ usernameToPass[frame[c].login] = NULL
            \/ pc[c] = "compare" /\ usernameToPass[frame[c].login] = frame[c].passcode
            \/ pc[c] \in {"register", "login"}
<1> USE DEF TypeOK, Goto, Return, Acknowledge
<1>1. CASE ConnectSteps(c)
  BY <1>1 DEF ConnectSteps, ConnectCheckUser, CheckPasswordGet, CheckPasswordRegister,
     CheckPasswordCompare, ConnectLogIn, ConnectStore, SendConnected
<1>2. CASE DisconnectSteps(c)
  BY <1>2 DEF DisconnectSteps, SendReceipt, SendErrorFrame, LogOutUser, DisconnectBegin,
     DisconnectLeave, DisconnectEnd, CloseSocket
<1>3. CASE TopicSteps(c)
  BY <1>3 DEF TopicSteps, SubscribeFindTopic, SubscribeCreateTopic, SubscribeJoin,
     SubscribeRecord, UnsubscribeFind, UnsubscribeLeave
<1>4. CASE SendSteps(c)
  BY <1>4, SendControl DEF Sending
<1>5. CASE ClientStep(c) \/ ProcessThrows(c) \/ Ignore(c) \/ RejectMalformed(c)
  BY <1>5 DEF ClientStep, Accept, Receive, ClientCloses, ProcessThrows, Ignore, RejectMalformed
<1> QED BY <1>1, <1>2, <1>3, <1>4, <1>5 DEF ThreadStep

LEMMA PasswordNext ==
  ASSUME TypeInv, [Next]_vars, NEW u \in Users, NEW p \in Passwords, PasswordSettled(u, p)
  PROVE  PasswordSettled(u, p)'
<1>1. CASE UNCHANGED vars
  BY <1>1 DEF vars, userTables, PasswordSettled
<1>2. ASSUME NEW c \in Conns, ThreadStep(c) \/ ClientStep(c)
      PROVE  PasswordSettled(u, p)'
  <2>1. TypeOK /\ OthersKept(c) /\ p # NULL
    BY <1>2, StepsAreLocal, NullAssumption DEF TypeInv
  <2>2. usernameToPass'[u] = p
    BY <1>2, <2>1, PasswordStep DEF PasswordSettled, TypeOK
  <2>3. pc'[c] \in {"register", "login", "store"} /\ frame'[c].login = u
        => frame'[c].passcode = p
    BY <1>2, <2>1, PasswordEntry DEF PasswordSettled
  <2> QED BY <2>1, <2>2, <2>3 DEF PasswordSettled, OthersKept
<1> QED BY <1>1, <1>2 DEF Next, Quiescent

(* Once the race of a user's first logins is over its password is never     *)
(* replaced, and nobody with another one gets past checkPasswordForUser.    *)
THEOREM PasswordsSettle == Spec => SettledPassword
<1>1. Spec => []TypeInv
  BY TypeInit, TypeNext, PTL DEF Spec
<1>2. TypeInv /\ [Next]_vars =>
        [\A u \in Users, p \in Passwords : PasswordSettled(u, p) => PasswordSettled(u, p)']_vars
  BY PasswordNext
<1> QED BY <1>1, <1>2, PTL DEF Spec, SettledPassword

-----------------------------------------------------------------------------
(* The maps of topics                                                      *)

(* topicToClients changes in one place, and maps in the row of the thread.  *)
LEMMA MapsStep ==
  ASSUME TypeInv, NEW c \in Conns, ThreadStep(c) \/ ClientStep(c)
  PROVE  /\ \/ topicToClients' = topicToClients
            \/ /\ pc[c] = "create"
               /\ topicToClients' = [topicToClients EXCEPT ![frame[c].destination] = c]
         /\ pc[c] = "read" \/ pc'[c] = "create" => topicToClients' = topicToClients
         /\ \A t \in Topics, o \in Conns, h \in Conns :
              h # c \/ pc[c] = "read" => maps'[t][o][h] = maps[t][o][h]
         /\ pc'[c] = "create" =>
              frame'[c] = frame[c] /\ topicToClients[frame[c].destination] = NULL
<1>0. TypeOK
  BY DEF TypeInv
<1> USE DEF Goto, Return, Acknowledge, Processing
<1>1. CASE QuietStep(c)
  BY <1>0, <1>1, QuietSteps DEF Subscribing
<1>2. CASE DisconnectBegin(c)
  BY <1>0, <1>2 DEF DisconnectBegin, TypeOK
<1>3. ASSUME NEW t \in Topics, DisconnectLeave(c, t)
      PROVE  /\ topicToClients' = topicToClients /\ pc' = pc /\ pc[c] = "leaving"
             /\ \A s \in Topics, o \in Conns, h \in Conns \ {c} : maps'[s][o][h] = maps[s][o][h]
  BY <1>0, <1>3 DEF DisconnectLeave, RemoveEntry, TypeOK
<1>4. CASE SubscribeFindTopic(c) \/ SubscribeJoin(c) \/ UnsubscribeFind(c)
  BY <1>0, <1>4 DEF SubscribeFindTopic, SubscribeJoin, UnsubscribeFind, topicTables, TypeOK
<1>5. CASE SubscribeCreateTopic(c)
  BY <1>0, <1>5 DEF SubscribeCreateTopic, TypeOK
<1>6. CASE SubscribeRecord(c)
  BY <1>0, <1>6 DEF SubscribeRecord, PutEntry, TypeOK
<1>7. CASE UnsubscribeLeave(c)
  BY <1>0, <1>7 DEF UnsubscribeLeave, RemoveEntry, TypeOK
<1> QED
  BY <1>1, <1>2, <1>3, <1>4, <1>5, <1>6, <1>7, StepKinds DEF TopicSteps

LEMMA TopicNext ==
  ASSUME TypeInv, [Next]_vars, NEW t \in Topics, TopicSettled(t)
  PROVE  /\ TopicSettled(t)'
         /\ \A h \in Conns : pc[h] = "read" => Entry(t, h)' = Entry(t, h)
<1>1. CASE UNCHANGED vars
  BY <1>1 DEF vars, topicTables, TopicSettled, Entry
<1>2. ASSUME NEW c \in Conns, ThreadStep(c) \/ ClientStep(c)
      PROVE  /\ TopicSettled(t)'
             /\ \A h \in Conns : pc[h] = "read" => Entry(t, h)' = Entry(t, h)
  <2>1. TypeOK /\ OthersKept(c)
    BY <1>2, StepsAreLocal DEF TypeInv
  <2>2. topicToClients'[t] = topicToClients[t]
    BY <1>2, <2>1, MapsStep DEF TopicSettled, TypeOK
  <2>3. TopicSettled(t)'
    BY <1>2, <2>1, <2>2, MapsStep DEF TopicSettled, OthersKept
  <2>4. topicToClients[t] \in Conns
    BY <2>1 DEF TopicSettled, TypeOK
  <2>5. ASSUME NEW h \in Conns, pc[h] = "read" PROVE Entry(t, h)' = Entry(t, h)
    BY <1>2, <2>2, <2>4, <2>5, MapsStep DEF Entry
  <2> QED BY <2>3, <2>5
<1> QED BY <1>1, <1>2 DEF Next, Quiescent

(* Once the race of a topic's first subscribers is over its map is never    *)
(* replaced, and a client at rest keeps its place in it.                    *)
THEOREM SubscriptionsKept == Spec => KeepsSubscription
<1>1. Spec => []TypeInv
  BY TypeInit, TypeNext, PTL DEF Spec
<1>2. TypeInv /\ [Next]_vars =>
        [\A t \in Topics : TopicSettled(t) =>
           /\ TopicSettled(t)'
           /\ \A c \in Conns : pc[c] = "read" => Entry(t, c)' = Entry(t, c)]_vars
  BY TopicNext
<1> QED BY <1>1, <1>2, PTL DEF Spec, KeepsSubscription

-----------------------------------------------------------------------------
(* Sessions                                                                *)

(* Every step but those of CONNECT and of the end of a session leaves the   *)
(* tables of users alone, and does not enter a place SessionAt speaks of.   *)
LEMMA UsersKept ==
  ASSUME TypeOK, NEW c \in Conns, ThreadStep(c) \/ ClientStep(c),
         ~ ConnectSteps(c), ~ LogOutUser(c), ~ DisconnectEnd(c)
  PROVE  /\ UNCHANGED <<clientToUsername, loggedInUsers>>
         /\ pc'[c] \notin {"password", "register", "compare", "login", "store"}
         /\ pc[c] # "store"
         /\ StillIn(c)' => StillIn(c)
<1> USE DEF TypeOK, Goto, Return, Acknowledge, Processing, StillIn, userTables
<1>1. CASE DisconnectSteps(c)
  BY <1>1 DEF DisconnectSteps, SendReceipt, SendErrorFrame, DisconnectBegin,
     DisconnectLeave, CloseSocket
<1>2. CASE TopicSteps(c)
  BY <1>2 DEF TopicSteps, SubscribeFindTopic, SubscribeCreateTopic, SubscribeJoin,
     SubscribeRecord, UnsubscribeFind, UnsubscribeLeave
<1>3. CASE SendSteps(c)
  BY <1>3, SendControl DEF Sending
<1>4. CASE ClientStep(c) \/ ProcessThrows(c) \/ Ignore(c) \/ RejectMalformed(c)
  BY <1>4 DEF ClientStep, Accept, Receive, ClientCloses, ProcessThrows, Ignore, RejectMalformed
<1> QED BY <1>1, <1>2, <1>3, <1>4 DEF ThreadStep

LEMMA SessionNext ==
  ASSUME SessionInv, NEW c \in Conns, ThreadStep(c) \/ ClientStep(c)
  PROVE  \A d \in Conns : SessionAt(d)'
<1>0. /\ TypeOK /\ OthersKept(c) /\ Fits(pc[c], frame[c])
      /\ \A d \in Conns : SessionAt(d)
  BY StepsAreLocal DEF SessionInv, TypeInv, NoNullDereference, FrameFits
<1> SUFFICES ASSUME NEW d \in Conns PROVE SessionAt(d)'
  OBVIOUS
<1>1. CASE ~ ConnectSteps(c) /\ ~ LogOutUser(c) /\ ~ DisconnectEnd(c)
  <2>1. /\ UNCHANGED <<clientToUsername, loggedInUsers>>
        /\ pc'[c] \notin {"password", "register", "compare", "login", "store"}
        /\ pc[c] # "store" /\ (StillIn(c)' => StillIn(c))
    BY <1>0, <1>1, UsersKept
  <2>2. CASE d # c
    BY <1>0, <2>1, <2>2 DEF SessionAt, SessionUser, StillIn, OthersKept
  <2>3. CASE d = c
    BY <1>0, <2>1, <2>3 DEF SessionAt, SessionUser
  <2> QED BY <2>2, <2>3
<1>2. CASE LogOutUser(c) \/ DisconnectEnd(c)
  <2>1. /\ clientToUsername' = clientToUsername /\ ~ StillIn(c)'
        /\ loggedInUsers' = loggedInUsers \ {clientToUsername[c]}
        /\ pc'[c] \in {"receipt", "terminated"}
    BY <1>0, <1>2 DEF LogOutUser, DisconnectEnd, Goto, StillIn, Processing, TypeOK
  <2>2. CASE d # c
    BY <1>0, <2>1, <2>2 DEF SessionAt, SessionUser, StillIn, OthersKept
  <2>3. CASE d = c
    BY <1>0, <2>1, <2>3 DEF SessionAt
  <2> QED BY <2>2, <2>3
<1>3. CASE ConnectSteps(c)
  <2>0. frame[c].cmd = "CONNECT" /\ StillIn(c)
    BY <1>0, <1>3 DEF ConnectSteps, ConnectCheckUser, CheckPasswordGet,
       CheckPasswordRegister, CheckPasswordCompare, ConnectLogIn, ConnectStore,
       SendConnected, Fits, Connecting, Processing, StillIn
  <2>1. CASE ConnectCheckUser(c) \/ CheckPasswordGet(c) \/ CheckPasswordRegister(c)
             \/ CheckPasswordCompare(c) \/ SendConnected(c)
    <3>1. /\ UNCHANGED <<clientToUsername, loggedInUsers>>
          /\ pc[c] # "store" /\ pc'[c] # "store"
          /\ \/ pc'[c] \in {"password", "register", "compare"} /\ ~ errors'[c]
             \/ pc'[c] = "login"
             => clientToUsername[c] = NULL
      BY <1>0, <2>1 DEF ConnectCheckUser, CheckPasswordGet, CheckPasswordRegister,
         CheckPasswordCompare, SendConnected, Acknowledge, Goto, Return, Processing,
         SessionAt, userTables, locals, TypeOK
    <3>2. CASE d # c
      BY <1>0, <3>1, <3>2 DEF SessionAt, SessionUser, StillIn, OthersKept
    <3>3. CASE d = c
      BY <1>0, <2>0, <3>1, <3>3 DEF SessionAt, SessionUser
    <3> QED BY <3>2, <3>3
  <2>2. CASE ConnectLogIn(c)
    <3>1. /\ clientToUsername' = clientToUsername /\ frame' = frame
          /\ loggedInUsers' = loggedInUsers \cup {frame[c].login}
          /\ pc[c] = "login" /\ pc'[c] = "store"
      BY <1>0, <2>2 DEF ConnectLogIn, Goto, TypeOK
    <3>2. CASE d # c
      BY <1>0, <3>1, <3>2 DEF SessionAt, SessionUser, StillIn, OthersKept
    <3>3. CASE d = c
      BY <1>0, <3>1, <3>3 DEF SessionAt, SessionUser
    <3> QED BY <3>2, <3>3
  <2>3. CASE ConnectStore(c)
    <3>1. /\ clientToUsername' = [clientToUsername EXCEPT ![c] = frame[c].login]
          /\ loggedInUsers' = loggedInUsers
          /\ pc[c] = "store" /\ pc'[c] = "connected"
      BY <1>0, <2>3 DEF ConnectStore, Goto, TypeOK
    <3>2. clientToUsername[c] = NULL /\ clientToUsername'[c] = frame[c].login
      BY <1>0, <3>1 DEF SessionAt, TypeOK
    <3>3. CASE d # c
      BY <1>0, <3>1, <3>2, <3>3 DEF SessionAt, SessionUser, StillIn, OthersKept
    <3>4. CASE d = c
      BY <1>0, <2>0, <3>1, <3>2, <3>4 DEF SessionAt, SessionUser, OthersKept
    <3> QED BY <3>3, <3>4
  <2> QED BY <1>3, <2>1, <2>2, <2>3 DEF ConnectSteps
<1> QED BY <1>1, <1>2, <1>3

(* A client at rest stays in loggedInUsers as long as nobody else ever      *)
(* logged in as its user: rejected logins and ended connections of others   *)
(* log nobody out.                                                          *)
THEOREM SessionsListed == Spec => []SoleSessionListed
<1>1. Init => SessionInv
  BY TypeInit DEF Init, SessionInv, SessionAt, SessionUser
<1>2. SessionInv /\ [Next]_vars => SessionInv'
  <2> SUFFICES ASSUME SessionInv, [Next]_vars PROVE SessionInv'
    OBVIOUS
  <2>1. TypeInv'
    BY TypeNext DEF SessionInv
  <2>2. CASE UNCHANGED vars
    BY <2>1, <2>2 DEF vars, userTables, locals, SessionInv, SessionAt, SessionUser, StillIn
  <2> QED BY <2>1, <2>2, SessionNext DEF SessionInv, Next, Quiescent
<1>3. SessionInv => SoleSessionListed
  BY DEF SessionInv, SessionAt, SessionUser, StillIn, SoleSessionListed
<1> QED BY <1>1, <1>2, <1>3, PTL DEF Spec

-----------------------------------------------------------------------------
(* Routing of MESSAGE frames                                               *)

LEMMA IssuedKept ==
  ASSUME FreshIds, TypeOK, NEW c \in Conns, ThreadStep(c) \/ ClientStep(c),
         NEW h \in Conns, NEW i \in SubIds, issued[h][i] # NULL
  PROVE  issued'[h][i] = issued[h][i]
<1>1. CASE \E f \in Frames : Receive(c, f)
  BY <1>1 DEF Receive, MaySend, TypeOK
<1> QED BY <1>1, IssuedStep

(* A put of c's entry happens under an id c used for the topic.             *)
LEMMA OwnEntries ==
  ASSUME TypeInv, IdsIssued, NEW c \in Conns, ThreadStep(c) \/ ClientStep(c),
         NEW t \in Topics, NEW o \in Conns
  PROVE  \/ maps'[t][o][c] \in {maps[t][o][c], NULL}
         \/ issued[c][maps'[t][o][c]] = t
<1>0. TypeOK /\ IdsIssuedAt(c) /\ Fits(pc[c], frame[c])
  BY AtEach DEF TypeInv, NoNullDereference, FrameFits
<1>1. CASE QuietStep(c)
  BY <1>0, <1>1, QuietSteps
<1>2. CASE DisconnectBegin(c) \/ \E s \in Topics : DisconnectLeave(c, s)
  <2>1. CASE maps' = maps
    BY <2>1
  <2>2. ASSUME NEW s \in Topics, DisconnectLeave(c, s)
        PROVE  maps'[t][o][c] \in {maps[t][o][c], NULL}
    <3>1. maps' = [maps EXCEPT ![s][topicToClients[s]][c] = NULL]
      BY <2>2 DEF DisconnectLeave, RemoveEntry
    <3> QED BY <1>0, <3>1 DEF TypeOK
  <2> QED BY <1>2, <2>1, <2>2 DEF DisconnectBegin
<1>3. CASE SubscribeFindTopic(c) \/ SubscribeCreateTopic(c) \/ SubscribeJoin(c)
           \/ UnsubscribeFind(c)
  BY <1>3 DEF SubscribeFindTopic, SubscribeCreateTopic, SubscribeJoin, UnsubscribeFind,
     topicTables
<1>4. CASE UnsubscribeLeave(c)
  BY <1>0, <1>4 DEF UnsubscribeLeave, RemoveEntry, TypeOK
<1>5. CASE SubscribeRecord(c)
  <2>1. maps' = [maps EXCEPT ![frame[c].destination][topicMap[c]][c] = frame[c].id]
    BY <1>5 DEF SubscribeRecord, PutEntry
  <2>2. issued[c][frame[c].id] = frame[c].destination
    BY <1>0, <1>5 DEF SubscribeRecord, IdsIssuedAt, Fits, Subscribing
  <2> QED BY <1>0, <2>1, <2>2 DEF TypeOK
<1> QED
  BY <1>1, <1>2, <1>3, <1>4, <1>5, StepKinds DEF TopicSteps

(* A broadcast holds an id only after fetching it, and other threads do not *)
(* change what it holds.                                                    *)
LEMMA LoopsKept ==
  ASSUME TypeOK, NEW c \in Conns, ThreadStep(c) \/ ClientStep(c)
  PROVE  /\ \A b \in Conns \ {c} :
              iter'[b].to = iter[b].to /\ iter'[b].subscriptionId = iter[b].subscriptionId
         /\ pc'[c] = "push" => SendFetch(c)
<1> USE DEF TypeOK, Goto, Return, Acknowledge, locals
<1>1. CASE ConnectSteps(c)
  BY <1>1 DEF ConnectSteps, ConnectCheckUser, CheckPasswordGet, CheckPasswordRegister,
     CheckPasswordCompare, ConnectLogIn, ConnectStore, SendConnected
<1>2. ASSUME NEW t, NEW o, NEW h \in Conns, NEW v,
             PutEntry(t, o, h, v) \/ RemoveEntry(t, o, h)
      PROVE  \A b \in Conns : iter'[b].to = iter[b].to
                              /\ iter'[b].subscriptionId = iter[b].subscriptionId
  BY <1>2, EntryLoops
<1>3. CASE SendReceipt(c) \/ SendErrorFrame(c) \/ LogOutUser(c) \/ DisconnectBegin(c)
           \/ DisconnectEnd(c) \/ CloseSocket(c)
  BY <1>3 DEF SendReceipt, SendErrorFrame, LogOutUser, DisconnectBegin, DisconnectEnd, CloseSocket
<1>4. ASSUME NEW t \in Topics, DisconnectLeave(c, t)
      PROVE  /\ \A b \in Conns : iter'[b].to = iter[b].to
                                 /\ iter'[b].subscriptionId = iter[b].subscriptionId
             /\ pc'[c] # "push"
  BY <1>2, <1>4 DEF DisconnectLeave
<1>5. CASE SubscribeFindTopic(c) \/ SubscribeCreateTopic(c) \/ SubscribeJoin(c)
           \/ UnsubscribeFind(c)
  BY <1>5 DEF SubscribeFindTopic, SubscribeCreateTopic, SubscribeJoin, UnsubscribeFind
<1>6. CASE SubscribeRecord(c) \/ UnsubscribeLeave(c)
  <2>1. pc'[c] # "push"
    BY <1>6 DEF SubscribeRecord, UnsubscribeLeave
  <2>2. \E t, o, v : PutEntry(t, o, c, v) \/ RemoveEntry(t, o, c)
    BY <1>6 DEF SubscribeRecord, UnsubscribeLeave
  <2> QED BY <1>2, <2>1, <2>2
<1>7. CASE SendSteps(c)
  <2>1. CASE SendCheck(c) \/ SendDone(c)
    BY <2>1 DEF SendCheck, SendDone
  <2>2. CASE SendOpen(c) \/ \E h \in Conns : SendNext(c, h)
    BY <2>2 DEF SendOpen, SendNext
  <2>3. CASE SendFetch(c) \/ SendPush(c)
    BY <2>3 DEF SendFetch, SendPush
  <2> QED BY <1>7, <2>1, <2>2, <2>3 DEF SendSteps
<1>8. CASE ClientStep(c) \/ ProcessThrows(c) \/ Ignore(c) \/ RejectMalformed(c)
  BY <1>8 DEF ClientStep, Accept, Receive, ClientCloses, ProcessThrows, Ignore, RejectMalformed
<1> QED
  BY <1>1, <1>3, <1>4, <1>5, <1>6, <1>7, <1>8 DEF ThreadStep, DisconnectSteps, TopicSteps

(* What a step writes: replies without a subscription, or a MESSAGE.        *)
LEMMA OutStep ==
  ASSUME TypeOK, NEW c \in Conns, ThreadStep(c) \/ ClientStep(c), NEW h \in Conns
  PROVE  \/ out'[h] = out[h]
         \/ \E msg : out'[h] = Append(out[h], msg) /\ msg.type # "MESSAGE"
         \/ /\ pc[c] = "push" /\ h = iter[c].to
            /\ out'[h] = Append(out[h], Message(frame[c].destination, iter[c].subscriptionId, c))
<1> USE DEF TypeOK
<1>1. ASSUME NEW k, NEW m, Write(k, m)
      PROVE  out'[h] = out[h] \/ (k = h /\ out'[h] = Append(out[h], m))
  BY <1>1 DEF Write
<1>2. CASE out' = out
  BY <1>2
<1>3. CASE SendConnected(c) \/ SendReceipt(c) \/ SendErrorFrame(c)
  <2>1. PICK m : Write(c, m) /\ m.type # "MESSAGE"
    BY <1>3 DEF SendConnected, SendReceipt, SendErrorFrame, ServerFrame
  <2> QED BY <1>1, <2>1
<1>4. CASE SendPush(c)
  BY <1>1, <1>4 DEF SendPush
<1>5. out' = out \/ SendConnected(c) \/ SendReceipt(c) \/ SendErrorFrame(c) \/ SendPush(c)
  BY DEF ThreadStep, ClientStep, Accept, Receive, ClientCloses, ProcessThrows, Ignore,
     RejectMalformed, ConnectSteps, ConnectCheckUser, CheckPasswordGet,
     CheckPasswordRegister, CheckPasswordCompare, ConnectLogIn, ConnectStore,
     DisconnectSteps, LogOutUser, DisconnectBegin, DisconnectLeave, DisconnectEnd,
     CloseSocket, TopicSteps, SubscribeFindTopic, SubscribeCreateTopic, SubscribeJoin,
     SubscribeRecord, UnsubscribeFind, UnsubscribeLeave, SendSteps, SendCheck, SendOpen,
     SendNext, SendFetch, SendDone
<1> QED BY <1>2, <1>3, <1>4, <1>5

LEMMA AppendCases ==
  ASSUME NEW S, NEW s \in Seq(S), NEW m
  PROVE  \A i \in DOMAIN Append(s, m) :
           \/ i \in DOMAIN s /\ Append(s, m)[i] = s[i]
           \/ i = Len(s) + 1 /\ Append(s, m)[i] = m
  OBVIOUS

LEMMA RouteNext ==
  ASSUME FreshIds, RouteInv, NEW c \in Conns, ThreadStep(c) \/ ClientStep(c), NEW h \in Conns
  PROVE  RouteAt(h)'
<1>0. /\ TypeInv /\ TypeOK /\ OthersKept(c) /\ IdsIssued /\ RouteAt(h) /\ Refers(c)
      /\ Fits(pc[c], frame[c])
  BY StepsAreLocal DEF RouteInv, TypeInv, NoNullDereference, ReferencesFit, FrameFits
<1>1. \A i \in SubIds : issued[h][i] # NULL => issued'[h][i] = issued[h][i]
  BY <1>0, IssuedKept
<1>2. ASSUME NEW t \in Topics, NEW o \in Conns, maps'[t][o][h] # NULL
      PROVE  issued'[h][maps'[t][o][h]] = t
  <2>1. issued[h][maps'[t][o][h]] = t
    <3>1. CASE maps'[t][o][h] = maps[t][o][h]
      BY <1>0, <1>2, <3>1 DEF RouteAt
    <3>2. CASE h = c
      BY <1>0, <1>2, <3>1, <3>2, OwnEntries
    <3>3. CASE h # c
      BY <1>0, <3>1, <3>3, MapsStep
    <3> QED BY <3>2, <3>3
  <2>2. maps'[t][o][h] \in SubIds
    BY <1>0, <1>2, TypeNext DEF TypeInv, TypeOK, Next
  <2> QED BY <1>1, <2>1, <2>2, NullAssumption
<1>3. ASSUME NEW b \in Conns, (pc[b] = "push" /\ iter[b].to = h /\ iter[b].subscriptionId # NULL)'
      PROVE  issued'[h][iter'[b].subscriptionId] = frame'[b].destination
  <2>1. CASE b # c
    <3>1. /\ pc[b] = "push" /\ iter[b].to = h /\ iter'[b].subscriptionId = iter[b].subscriptionId
          /\ frame'[b] = frame[b]
      BY <1>0, <1>3, <2>1, LoopsKept DEF OthersKept
    <3>2. issued[h][iter[b].subscriptionId] = frame[b].destination
      BY <1>0, <1>3, <3>1 DEF RouteAt
    <3>3. iter[b].subscriptionId \in SubIds
      BY <1>0, <1>3, <3>1 DEF TypeOK, Loop
    <3>4. frame[b].destination # NULL
      BY <1>0, <3>1 DEF TypeInv, NoNullDereference, FrameFits, Fits, Sending
    <3> QED BY <1>1, <3>1, <3>2, <3>3, <3>4
  <2>2. CASE b = c
    <3>1. SendFetch(c)
      BY <1>0, <1>3, <2>2, LoopsKept
    <3> DEFINE id == maps[frame[c].destination][topicMap[c]][iter[c].to]
    <3>2. /\ frame' = frame /\ issued' = issued
          /\ iter'[c] = [iter[c] EXCEPT !.subscriptionId = id]
      BY <1>0, <3>1 DEF SendFetch, Goto, client, TypeOK
    <3>3. iter[c].to = h /\ iter'[c].subscriptionId = id /\ id # NULL
      BY <1>0, <1>3, <2>2, <3>2 DEF TypeOK, Loop
    <3>4. frame[c].destination \in Topics /\ topicMap[c] \in Conns
      BY <1>0, <3>1, FrameType DEF SendFetch, Fits, Working, Sending, Headers, Refers, TypeOK
    <3> QED BY <1>0, <2>2, <3>2, <3>3, <3>4 DEF RouteAt
  <2> QED BY <2>1, <2>2
<1>4. ASSUME NEW i \in Delivered(h)', out'[h][i].subscription # NULL
      PROVE  /\ issued'[h][out'[h][i].subscription] = out'[h][i].destination
             /\ out'[h][i].destination # NULL
  <2>1. out[h] \in Seq(Reply)
    BY <1>0 DEF TypeOK
  <2>2. CASE i \in Delivered(h) /\ out'[h][i] = out[h][i]
    <3>1. /\ issued[h][out[h][i].subscription] = out[h][i].destination
          /\ out[h][i].destination # NULL
      BY <1>0, <1>4, <2>2 DEF RouteAt
    <3>2. out[h][i] \in Reply
      BY <2>1, <2>2 DEF Delivered
    <3>3. out[h][i].subscription \in SubIds
      BY <1>4, <2>2, <3>2 DEF Reply
    <3> QED BY <1>1, <2>2, <3>1, <3>3
  <2>3. CASE /\ pc[c] = "push" /\ h = iter[c].to
             /\ out'[h][i] = Message(frame[c].destination, iter[c].subscriptionId, c)
    <3>1. /\ out'[h][i].subscription = iter[c].subscriptionId
          /\ out'[h][i].destination = frame[c].destination
      BY <2>3 DEF Message
    <3>2. issued[h][iter[c].subscriptionId] = frame[c].destination
      BY <1>0, <1>4, <2>3, <3>1 DEF RouteAt
    <3>3. iter[c].subscriptionId \in SubIds /\ frame[c].destination # NULL
      BY <1>0, <1>4, <2>3, <3>1 DEF TypeOK, Loop, Fits, Sending
    <3> QED BY <1>1, <3>1, <3>2, <3>3
  <2>4. \/ i \in Delivered(h) /\ out'[h][i] = out[h][i]
        \/ /\ pc[c] = "push" /\ h = iter[c].to
           /\ out'[h][i] = Message(frame[c].destination, iter[c].subscriptionId, c)
    <3>1. i \in DOMAIN out'[h] /\ out'[h][i].type = "MESSAGE"
      BY DEF Delivered
    <3> QED BY <1>0, <2>1, <3>1, OutStep, AppendCases DEF Delivered
  <2> QED BY <2>2, <2>3, <2>4
<1> QED BY <1>2, <1>3, <1>4 DEF RouteAt

(* If clients do not reuse subscription ids, a MESSAGE never carries the    *)
(* events of one topic under the id of another, however the SUBSCRIBEs,     *)
(* UNSUBSCRIBEs and disconnections of its receiver overlap the broadcast.   *)
THEOREM MessagesRouted == FreshIds => (Spec => []RoutedById)
<1> SUFFICES ASSUME FreshIds PROVE Spec => []RoutedById
  OBVIOUS
<1>1. Init => RouteInv
  <2> SUFFICES ASSUME Init PROVE RouteInv
    OBVIOUS
  <2>1. TypeInv /\ IdsIssued
    BY TypeInit, TrackInit DEF TrackInv
  <2> QED BY <2>1 DEF Init, RouteInv, RouteAt, Delivered
<1>2. RouteInv /\ [Next]_vars => RouteInv'
  <2> SUFFICES ASSUME RouteInv, [Next]_vars PROVE RouteInv'
    OBVIOUS
  <2>1. TypeInv'
    BY TypeNext DEF RouteInv
  <2>2. CASE UNCHANGED vars
    BY <2>1, <2>2 DEF vars, topicTables, locals, client, RouteInv, RouteAt, IdsIssued, Delivered
  <2>3. ASSUME NEW c \in Conns, ThreadStep(c) \/ ClientStep(c) PROVE RouteInv'
    <3>1. IdsIssued'
      BY <2>3, IdsIssuedNext DEF RouteInv
    <3>2. \A h \in Conns : RouteAt(h)'
      BY <2>3, RouteNext
    <3> QED BY <2>1, <3>1, <3>2 DEF RouteInv
  <2> QED BY <2>2, <2>3 DEF Next, Quiescent
<1>3. RouteInv => RoutedById
  BY DEF RouteInv, RouteAt, RoutedById
<1> QED BY <1>1, <1>2, <1>3, PTL DEF Spec

-----------------------------------------------------------------------------
(* The loops of send(channel)                                              *)

(* A thread is in its loop only after a step of SEND, and leaves "push" by  *)
(* one.                                                                     *)
LEMMA BroadcastSteps ==
  ASSUME TypeOK, NEW c \in Conns, ThreadStep(c) \/ ClientStep(c)
  PROVE  /\ pc'[c] \in Broadcasting =>
              SendOpen(c) \/ (\E h \in Conns : SendNext(c, h)) \/ SendFetch(c) \/ SendPush(c)
         /\ pc'[c] = "open" => SendCheck(c)
         /\ pc[c] = "push" => SendPush(c)
         /\ pc[c] # "closed"
<1> USE DEF TypeOK, Goto, Return, Acknowledge, Processing, Broadcasting
<1>1. CASE ConnectSteps(c)
  BY <1>1 DEF ConnectSteps, ConnectCheckUser, CheckPasswordGet, CheckPasswordRegister,
     CheckPasswordCompare, ConnectLogIn, ConnectStore, SendConnected
<1>2. CASE DisconnectSteps(c)
  BY <1>2 DEF DisconnectSteps, SendReceipt, SendErrorFrame, LogOutUser, DisconnectBegin,
     DisconnectLeave, DisconnectEnd, CloseSocket
<1>3. CASE TopicSteps(c)
  BY <1>3 DEF TopicSteps, SubscribeFindTopic, SubscribeCreateTopic, SubscribeJoin,
     SubscribeRecord, UnsubscribeFind, UnsubscribeLeave
<1>4. CASE SendSteps(c)
  <2>1. CASE SendCheck(c)
    BY <2>1 DEF SendCheck
  <2>2. CASE SendDone(c)
    BY <2>2 DEF SendDone
  <2>3. CASE SendOpen(c) \/ (\E h \in Conns : SendNext(c, h)) \/ SendFetch(c) \/ SendPush(c)
    BY <2>3 DEF SendOpen, SendNext, SendFetch, SendPush
  <2> QED BY <1>4, <2>1, <2>2, <2>3 DEF SendSteps
<1>5. CASE ClientStep(c) \/ ProcessThrows(c) \/ Ignore(c) \/ RejectMalformed(c)
  BY <1>5 DEF ClientStep, Accept, Receive, ClientCloses, ProcessThrows, Ignore, RejectMalformed
<1> QED BY <1>1, <1>2, <1>3, <1>4, <1>5 DEF ThreadStep

(* A step of SEND changes the iterator of its own thread only.              *)
LEMMA OwnLoop ==
  ASSUME TypeOK, NEW c \in Conns, SendSteps(c), NEW b \in Conns, b # c
  PROVE  iter'[b] = iter[b]
<1> USE DEF TypeOK
<1>1. CASE SendCheck(c) \/ SendDone(c)
  BY <1>1 DEF SendCheck, SendDone, locals
<1>2. CASE SendOpen(c) \/ \E h \in Conns : SendNext(c, h)
  BY <1>2 DEF SendOpen, SendNext
<1>3. CASE SendFetch(c) \/ SendPush(c)
  BY <1>3 DEF SendFetch, SendPush
<1> QED BY <1>1, <1>2, <1>3 DEF SendSteps

(* What a put and a remove of c's entry do to an iterator.                  *)
LEMMA PutVisits ==
  ASSUME TypeOK, NEW c \in Conns, NEW t \in Topics, NEW o \in Conns, NEW v,
         PutEntry(t, o, c, v), NEW b \in Conns, NEW h \in Conns
  PROVE  \/ iter'[b].visit[h] = iter[b].visit[h] /\ ~ (h = c /\ Iterating(b, t, o))
         \/ h = c /\ Iterating(b, t, o) /\ iter'[b].visit[h] = "may"
<1>1. iter[b] \in Loop
  BY DEF TypeOK
<1>2. iter'[b] = IF Iterating(b, t, o) THEN [iter[b] EXCEPT !.visit[c] = "may"] ELSE iter[b]
  BY DEF PutEntry
<1> QED BY <1>1, <1>2 DEF Loop

LEMMA RemoveVisits ==
  ASSUME TypeOK, NEW c \in Conns, NEW t \in Topics, NEW o \in Conns,
         RemoveEntry(t, o, c), NEW b \in Conns, NEW h \in Conns
  PROVE  \/ iter'[b].visit[h] = iter[b].visit[h]
         \/ iter'[b].visit[h] = "may" /\ iter[b].visit[h] # "no"
<1>1. iter[b] \in Loop
  BY DEF TypeOK
<1>2. iter'[b] = IF Iterating(b, t, o) /\ iter[b].visit[c] = "must"
                 THEN [iter[b] EXCEPT !.visit[c] = "may"] ELSE iter[b]
  BY DEF RemoveEntry
<1> QED BY <1>1, <1>2 DEF Loop

(* What a step of another thread does to an iterator: nothing, or it makes  *)
(* an entry uncertain, and one it had behind it only by a put of that entry *)
(* into the map it walks over.  Entries behind it change in no other way.   *)
LEMMA Visits ==
  ASSUME TypeInv, NEW c \in Conns, ThreadStep(c) \/ ClientStep(c),
         NEW b \in Conns, b # c, NEW h \in Conns
  PROVE  \/ /\ iter'[b].visit[h] = iter[b].visit[h]
            /\ pc[b] \in Broadcasting =>
                 maps'[frame[b].destination][topicMap[b]][h]
                   \in {maps[frame[b].destination][topicMap[b]][h], NULL}
         \/ iter'[b].visit[h] = "may" /\ iter[b].visit[h] # "no"
         \/ /\ SubscribeRecord(c) /\ h = c /\ iter'[b].visit[h] = "may"
            /\ Iterating(b, frame[c].destination, topicMap[c])
<1>0. TypeOK /\ Refers(c) /\ Fits(pc[c], frame[c]) /\ Refers(b) /\ Fits(pc[b], frame[b])
  BY DEF TypeInv, NoNullDereference, ReferencesFit, FrameFits
<1>1. CASE iter' = iter /\ maps' = maps
  BY <1>1
<1>2. CASE SendSteps(c)
  BY <1>0, <1>2, OwnLoop, SendControl DEF topicTables
<1>3. pc[b] \in Broadcasting => frame[b].destination \in Topics /\ topicMap[b] \in Conns
  BY <1>0, FrameType DEF Broadcasting, Fits, Working, Sending, Headers, Refers, TypeOK
<1>4. ASSUME NEW t \in Topics, NEW o \in Conns, RemoveEntry(t, o, c)
      PROVE  /\ \/ iter'[b].visit[h] = iter[b].visit[h]
                \/ iter'[b].visit[h] = "may" /\ iter[b].visit[h] # "no"
             /\ pc[b] \in Broadcasting =>
                 maps'[frame[b].destination][topicMap[b]][h]
                   \in {maps[frame[b].destination][topicMap[b]][h], NULL}
  <2>1. maps' = [maps EXCEPT ![t][o][c] = NULL]
    BY <1>4 DEF RemoveEntry
  <2>2. pc[b] \in Broadcasting =>
                 maps'[frame[b].destination][topicMap[b]][h]
                   \in {maps[frame[b].destination][topicMap[b]][h], NULL}
    BY <1>0, <1>3, <2>1 DEF TypeOK
  <2> QED BY <1>0, <1>4, <2>2, RemoveVisits
<1>5. ASSUME NEW t \in Topics, DisconnectLeave(c, t)
      PROVE  RemoveEntry(t, topicToClients[t], c) /\ topicToClients[t] \in Conns
  BY <1>0, <1>5 DEF DisconnectLeave, Refers, TypeOK
<1>6. CASE UnsubscribeLeave(c)
  <2>1. PICK t \in leaving[c] : RemoveEntry(t, topicToClients[t], c)
    BY <1>6 DEF UnsubscribeLeave
  <2>2. t \in Topics /\ topicToClients[t] \in Conns
    BY <1>0, <2>1 DEF Refers, TypeOK
  <2> QED BY <1>4, <2>1, <2>2
<1>7. CASE SubscribeRecord(c)
  <2>1. PutEntry(frame[c].destination, topicMap[c], c, frame[c].id)
    BY <1>7 DEF SubscribeRecord
  <2>2. frame[c].destination \in Topics /\ topicMap[c] \in Conns
    BY <1>0, <1>7, FrameType DEF SubscribeRecord, Fits, Working, Subscribing, Headers, Refers, TypeOK
  <2>3. maps' = [maps EXCEPT ![frame[c].destination][topicMap[c]][c] = frame[c].id]
    BY <2>1 DEF PutEntry
  <2>4. CASE h = c /\ Iterating(b, frame[c].destination, topicMap[c])
    BY <1>0, <1>7, <2>1, <2>2, <2>4, PutVisits
  <2>5. CASE ~ (h = c /\ Iterating(b, frame[c].destination, topicMap[c]))
    <3>1. iter'[b].visit[h] = iter[b].visit[h]
      BY <1>0, <2>1, <2>2, <2>5, PutVisits
    <3>2. pc[b] \in Broadcasting =>
            maps'[frame[b].destination][topicMap[b]][h]
              = maps[frame[b].destination][topicMap[b]][h]
      BY <1>0, <1>3, <2>2, <2>3, <2>5 DEF TypeOK, Iterating, Broadcasting
    <3> QED BY <3>1, <3>2
  <2> QED BY <2>4, <2>5
<1>8. CASE SubscribeFindTopic(c) \/ SubscribeCreateTopic(c) \/ SubscribeJoin(c) \/ UnsubscribeFind(c)
  BY <1>1, <1>8 DEF SubscribeFindTopic, SubscribeCreateTopic, SubscribeJoin, UnsubscribeFind,
     topicTables, locals
<1>9. CASE ConnectSteps(c)
  BY <1>1, <1>9 DEF ConnectSteps, ConnectCheckUser, CheckPasswordGet, CheckPasswordRegister,
     CheckPasswordCompare, ConnectLogIn, ConnectStore, SendConnected, topicTables, locals
<1>10. CASE SendReceipt(c) \/ SendErrorFrame(c) \/ LogOutUser(c) \/ DisconnectBegin(c)
            \/ DisconnectEnd(c) \/ CloseSocket(c)
  BY <1>1, <1>10 DEF SendReceipt, SendErrorFrame, LogOutUser, DisconnectBegin,
     DisconnectEnd, CloseSocket, topicTables, locals
<1>11. CASE ClientStep(c) \/ ProcessThrows(c) \/ Ignore(c) \/ RejectMalformed(c)
  BY <1>1, <1>11 DEF ClientStep, Accept, Receive, ClientCloses, ProcessThrows, Ignore,
     RejectMalformed, topicTables, locals
<1> QED
  BY <1>2, <1>4, <1>5, <1>6, <1>7, <1>8, <1>9, <1>10, <1>11 DEF ThreadStep,
     DisconnectSteps, TopicSteps

(* The loop of the thread itself, step by step.                             *)
LEMMA OwnVisits ==
  ASSUME TypeOK, NEW c \in Conns, ThreadStep(c) \/ ClientStep(c), pc'[c] \in Broadcasting
  PROVE  /\ maps' = maps /\ frame'[c] = frame[c] /\ received' = received /\ issued' = issued
         /\ pc[c] = "open" \/ pc[c] \in Broadcasting
         /\ \/ /\ SendOpen(c) /\ pc[c] = "open" /\ pc'[c] = "fanout"
               /\ \A h \in Conns : iter'[c].visit[h] # "no" <=>
                    maps[frame[c].destination][topicMap'[c]][h] # NULL
            \/ /\ pc[c] = "fanout" /\ pc'[c] = "fetch" /\ topicMap'[c] = topicMap[c]
               /\ \E k \in Conns :
                    /\ iter'[c].to = k /\ iter[c].visit[k] # "no" /\ iter'[c].visit[k] = "no"
                    /\ \A h \in Conns \ {k} : iter'[c].visit[h] = iter[c].visit[h]
            \/ /\ pc[c] = "fetch" /\ pc'[c] = "push" /\ topicMap'[c] = topicMap[c]
               /\ iter'[c].to = iter[c].to /\ iter'[c].visit = iter[c].visit
            \/ /\ SendPush(c) /\ pc[c] = "push" /\ pc'[c] = "fanout"
               /\ topicMap'[c] = topicMap[c] /\ iter'[c].visit = iter[c].visit
<1>0. iter \in [Conns -> Loop] /\ iter[c] \in Loop /\ c \in DOMAIN pc /\ c \in DOMAIN topicMap
  BY DEF TypeOK
<1> USE DEF Goto, topicTables, client, Broadcasting
<1>1. CASE SendOpen(c)
  <2> DEFINE o == topicToClients[frame[c].destination]
             v == [h \in Conns |-> IF maps[frame[c].destination][o][h] # NULL
                                   THEN "must" ELSE "no"]
  <2>1. iter'[c] = [iter[c] EXCEPT !.visit = v] /\ topicMap'[c] = o
    BY <1>0, <1>1 DEF SendOpen
  <2>2. iter'[c].visit = v
    BY <1>0, <2>1 DEF Loop
  <2>3. \A h \in Conns : v[h] # "no" <=> maps[frame[c].destination][o][h] # NULL
    OBVIOUS
  <2>4. /\ pc[c] = "open" /\ pc'[c] = "fanout"
        /\ maps' = maps /\ frame'[c] = frame[c] /\ received' = received /\ issued' = issued
    BY <1>0, <1>1 DEF SendOpen
  <2> HIDE DEF v, o
  <2> QED BY <1>1, <2>1, <2>2, <2>3, <2>4
<1>2. ASSUME NEW k \in Conns, SendNext(c, k)
      PROVE  /\ pc[c] = "fanout" /\ pc'[c] = "fetch" /\ topicMap'[c] = topicMap[c]
             /\ iter'[c].to = k /\ iter[c].visit[k] # "no" /\ iter'[c].visit[k] = "no"
             /\ \A h \in Conns \ {k} : iter'[c].visit[h] = iter[c].visit[h]
             /\ maps' = maps /\ frame'[c] = frame[c] /\ received' = received /\ issued' = issued
  <2>1. iter'[c] = [iter[c] EXCEPT !.visit = [@ EXCEPT ![k] = "no"], !.to = k]
    BY <1>0, <1>2 DEF SendNext
  <2> QED BY <1>0, <1>2, <2>1 DEF SendNext, Loop
<1>3. CASE SendFetch(c)
  <2>1. \E i : iter'[c] = [iter[c] EXCEPT !.subscriptionId = i]
    BY <1>0, <1>3 DEF SendFetch
  <2> QED BY <1>0, <1>3, <2>1 DEF SendFetch, Loop
<1>4. CASE SendPush(c)
  <2>1. iter'[c] = [iter[c] EXCEPT !.to = NULL, !.subscriptionId = NULL]
    BY <1>0, <1>4 DEF SendPush
  <2> QED BY <1>0, <1>4, <2>1 DEF SendPush, Loop
<1> QED BY <1>1, <1>2, <1>3, <1>4, BroadcastSteps

-----------------------------------------------------------------------------
(* Nobody is skipped                                                       *)

(* What was written stays written.                                          *)
LEMMA DeliveredKept ==
  ASSUME TypeOK, NEW c \in Conns, ThreadStep(c) \/ ClientStep(c), NEW h \in Conns,
         NEW i \in Delivered(h)
  PROVE  i \in Delivered(h)' /\ out'[h][i] = out[h][i]
<1>1. out[h] \in Seq(Reply)
  BY DEF TypeOK
<1>2. out'[h] = out[h] \/ \E m : out'[h] = Append(out[h], m)
  BY OutStep
<1> QED BY <1>1, <1>2 DEF Delivered

(* A MESSAGE is written to an open socket and names its sender and frame.   *)
LEMMA Pushed ==
  ASSUME TypeInv, NEW c \in Conns, SendPush(c), NEW h \in Conns, iter[c].to = h,
         pc[h] # "closed"
  PROVE  \E i \in Delivered(h)' : out'[h][i].from = c /\ out'[h][i].n = received[c]
<1>1. out[h] \in Seq(Reply) /\ h \in DOMAIN out
  BY DEF TypeInv, TypeOK
<1> DEFINE m == Message(frame[c].destination, iter[c].subscriptionId, c)
<1>2. out'[h] = Append(out[h], m)
  BY <1>1 DEF SendPush, Write
<1>3. m.type = "MESSAGE" /\ m.from = c /\ m.n = received[c]
  BY DEF Message
<1>4. Len(out[h]) + 1 \in DOMAIN out'[h] /\ out'[h][Len(out[h]) + 1] = m
  <2> HIDE DEF m
  <2> QED BY <1>1, <1>2
<1> QED BY <1>3, <1>4 DEF Delivered

LEMMA ReachedNext ==
  ASSUME TypeInv, NEW c \in Conns, ThreadStep(c) \/ ClientStep(c),
         NEW b \in Conns, NEW h \in Conns, ReachedAt(b, h)
  PROVE  ReachedAt(b, h)'
<1>0. TypeOK /\ OthersKept(c)
  BY StepsAreLocal DEF TypeInv
<1> DEFINE Behind == /\ pc[b] \in Broadcasting /\ iter[b].visit[h] = "no" /\ ~ InHand(b, h)
                     /\ maps[frame[b].destination][topicMap[b]][h] # NULL
           Reached == \/ pc[h] = "closed"
                      \/ \E i \in Delivered(h) : out[h][i].from = b /\ out[h][i].n = received[b]
<1>1. pc[h] = "closed" => pc'[h] = "closed"
  BY <1>0, BroadcastSteps DEF OthersKept
<1>2. Reached /\ received'[b] = received[b] => Reached'
  BY <1>0, <1>1, DeliveredKept
<1>3. SUFFICES ASSUME Behind' PROVE Reached'
  BY DEF ReachedAt
<1>4. CASE b # c
  <2>1. /\ pc'[b] = pc[b] /\ frame'[b] = frame[b] /\ topicMap'[b] = topicMap[b]
        /\ received'[b] = received[b] /\ iter'[b].to = iter[b].to
    BY <1>0, <1>4, LoopsKept DEF OthersKept
  <2>2. /\ iter[b].visit[h] = "no"
        /\ maps[frame[b].destination][topicMap[b]][h] # NULL
    BY <1>3, <1>4, <2>1, Visits
  <2>3. Behind
    BY <1>3, <2>1, <2>2 DEF InHand
  <2> QED BY <1>2, <2>1, <2>3 DEF ReachedAt
<1>5. CASE b = c
  <2>1. received' = received /\ maps' = maps /\ frame'[b] = frame[b]
    BY <1>0, <1>3, <1>5, OwnVisits
  <2>2. CASE SendPush(c) /\ InHand(c, h)
    <3>1. CASE pc[h] = "closed"
      BY <1>1, <3>1
    <3>2. CASE pc[h] # "closed"
      BY <1>5, <2>1, <2>2, <3>2, Pushed DEF InHand
    <3> QED BY <3>1, <3>2
  <2>3. CASE ~ (SendPush(c) /\ InHand(c, h))
    <3>1. Behind
      BY <1>0, <1>3, <1>5, <2>1, <2>3, OwnVisits DEF InHand, Broadcasting
    <3> QED BY <1>2, <2>1, <3>1 DEF ReachedAt
  <2> QED BY <2>2, <2>3
<1> QED BY <1>4, <1>5

(* A broadcast skips nobody: whoever is in the map it walks over, and whom  *)
(* its iterator has behind it, was written the event or is gone, however    *)
(* the subscriptions, departures and broadcasts of the others overlap it.   *)
THEOREM NobodyMissed == Spec => []NobodySkipped
<1>1. Init => ReachedInv
  BY TypeInit DEF Init, ReachedInv, ReachedAt, Broadcasting
<1>2. ReachedInv /\ [Next]_vars => ReachedInv'
  <2> SUFFICES ASSUME ReachedInv, [Next]_vars PROVE ReachedInv'
    OBVIOUS
  <2>1. TypeInv'
    BY TypeNext DEF ReachedInv
  <2>2. CASE UNCHANGED vars
    BY <2>1, <2>2 DEF vars, topicTables, locals, client, ReachedInv, ReachedAt, InHand, Delivered
  <2>3. ASSUME NEW c \in Conns, ThreadStep(c) \/ ClientStep(c) PROVE ReachedInv'
    BY <2>1, <2>3, ReachedNext DEF ReachedInv
  <2> QED BY <2>2, <2>3 DEF Next, Quiescent
<1>3. ReachedInv => NobodySkipped
  BY DEF ReachedInv, ReachedAt, NobodySkipped, InHand, Broadcasting
<1> QED BY <1>1, <1>2, <1>3, PTL DEF Spec

-----------------------------------------------------------------------------
(* Events arrive in order, and once                                        *)

(* What h asked for it has asked for ever after.                            *)
LEMMA PastKept ==
  ASSUME FreshIds, TypeInv, NEW c \in Conns, ThreadStep(c) \/ ClientStep(c),
         NEW h \in Conns, NEW t \in Topics, Past(h, t)
  PROVE  Past(h, t)'
<1>0. TypeOK /\ OthersKept(c) /\ t # NULL
  BY StepsAreLocal, NullAssumption DEF TypeInv
<1>1. PICK i \in SubIds :
        /\ issued[h][i] = t
        /\ ~ /\ pc[h] \in {"process"} \cup Subscribing
             /\ frame[h].cmd = "SUBSCRIBE" /\ frame[h].id = i
  BY DEF Past
<1>2. issued'[h][i] = t
  BY <1>0, <1>1, IssuedKept
<1>3. ~ /\ pc'[h] \in {"process"} \cup Subscribing
        /\ frame'[h].cmd = "SUBSCRIBE" /\ frame'[h].id = i
  <2>1. CASE h # c
    BY <1>0, <1>1, <2>1 DEF OthersKept
  <2>2. ASSUME h = c, NEW f \in Frames, Receive(c, f)
        PROVE  ~ (frame'[h].cmd = "SUBSCRIBE" /\ frame'[h].id = i)
    <3>1. frame'[c] = f
      BY <1>0, <2>2 DEF Receive, TypeOK
    <3>2. f.cmd = "SUBSCRIBE" /\ f.id # NULL => issued[c][f.id] = NULL
      BY <2>2 DEF Receive, MaySend
    <3>3. i # NULL
      BY NullAssumption
    <3> QED BY <1>0, <1>1, <2>2, <3>1, <3>2, <3>3
  <2>3. CASE h = c /\ ~ \E f \in Frames : Receive(c, f)
    BY <1>0, <1>1, <2>3, FrameStep
  <2> QED BY <2>1, <2>2, <2>3
<1> QED BY <1>2, <1>3 DEF Past

LEMMA TwiceKept ==
  ASSUME FreshIds, TypeOK, NEW c \in Conns, ThreadStep(c) \/ ClientStep(c),
         NEW h \in Conns, NEW t \in Topics, ~ SubscribedOnce(h, t)
  PROVE  ~ SubscribedOnce(h, t)'
<1>1. PICK i \in SubIds, j \in SubIds : issued[h][i] = t /\ issued[h][j] = t /\ i # j
  BY DEF SubscribedOnce
<1>2. t # NULL
  BY NullAssumption
<1>3. issued'[h][i] = t /\ issued'[h][j] = t
  BY <1>1, <1>2, IssuedKept
<1> QED BY <1>1, <1>3 DEF SubscribedOnce

(* A put comes of a SUBSCRIBE, and if its client had asked for the topic    *)
(* before, of its second one.                                               *)
LEMMA PutAsks ==
  ASSUME TypeInv, IdsIssued, NEW c \in Conns, SubscribeRecord(c),
         NEW t, t = frame[c].destination
  PROVE  /\ t \in Topics /\ topicMap[c] \in Conns
         /\ Past(c, t)'
         /\ Past(c, t) => ~ SubscribedOnce(c, t)'
<1>0. TypeOK /\ Refers(c) /\ Fits(pc[c], frame[c]) /\ IdsIssuedAt(c) /\ pc[c] = "record"
  BY AtEach DEF TypeInv, NoNullDereference, ReferencesFit, FrameFits, SubscribeRecord
<1>1. /\ frame[c] \in Headers /\ frame[c].cmd = "SUBSCRIBE"
      /\ t \in Topics /\ frame[c].id \in SubIds /\ topicMap[c] \in Conns
  BY <1>0, FrameType DEF Fits, Working, Subscribing, Headers, Refers, TypeOK
<1>2. issued[c][frame[c].id] = t
  BY <1>0, <1>1, NullAssumption DEF IdsIssuedAt, Subscribing
<1>3. issued' = issued /\ pc'[c] \in {"read", "receipt"}
  BY <1>0 DEF SubscribeRecord, client, Acknowledge, Return, Goto, TypeOK
<1>4. Past(c, t)'
  BY <1>1, <1>2, <1>3 DEF Past, Subscribing
<1>5. Past(c, t) => ~ SubscribedOnce(c, t)'
  BY <1>0, <1>1, <1>2, <1>3 DEF Past, SubscribedOnce, Subscribing
<1> QED BY <1>1, <1>4, <1>5

(* Maps grow by a SUBSCRIBE's put.                                          *)
LEMMA MapGrows ==
  ASSUME TypeInv, NEW c \in Conns, ThreadStep(c) \/ ClientStep(c),
         NEW t \in Topics, NEW o \in Conns, NEW h \in Conns,
         maps[t][o][h] = NULL, maps'[t][o][h] # NULL
  PROVE  SubscribeRecord(c) /\ h = c /\ t = frame[c].destination
<1>0. TypeOK
  BY DEF TypeInv
<1>1. ASSUME NEW s \in Topics, NEW q, RemoveEntry(s, q, c)
      PROVE  FALSE
  <2>1. maps' = [maps EXCEPT ![s][q][c] = NULL]
    BY <1>1 DEF RemoveEntry
  <2> QED BY <1>0, <2>1 DEF TypeOK
<1>2. ~ QuietStep(c)
  BY <1>0, QuietSteps
<1>3. ~ DisconnectBegin(c) /\ ~ \E s \in Topics : DisconnectLeave(c, s)
  BY <1>1 DEF DisconnectBegin, DisconnectLeave
<1>4. ~ SubscribeFindTopic(c) /\ ~ SubscribeCreateTopic(c) /\ ~ SubscribeJoin(c) /\ ~ UnsubscribeFind(c)
  BY DEF SubscribeFindTopic, SubscribeCreateTopic, SubscribeJoin, UnsubscribeFind, topicTables
<1>5. ~ UnsubscribeLeave(c)
  BY <1>0, <1>1 DEF UnsubscribeLeave, TypeOK
<1>6. SubscribeRecord(c)
  BY <1>2, <1>3, <1>4, <1>5, StepKinds DEF TopicSteps
<1>7. maps' = [maps EXCEPT ![frame[c].destination][topicMap[c]][c] = frame[c].id]
  BY <1>6 DEF SubscribeRecord, PutEntry
<1> QED BY <1>0, <1>6, <1>7 DEF TypeOK

(* Frames are counted as they are read.                                     *)
LEMMA ReceivedStep ==
  ASSUME TypeOK, NEW c \in Conns, ThreadStep(c) \/ ClientStep(c)
  PROVE  IF pc'[c] = "process" THEN received'[c] = received[c] + 1
                               ELSE received'[c] = received[c]
<1>1. CASE \E f \in Frames : Receive(c, f)
  BY <1>1 DEF Receive, TypeOK
<1>2. CASE ~ \E f \in Frames : Receive(c, f)
  <2>1. pc'[c] # "process"
    BY <1>2, FrameStep
  <2>2. received' = received
    BY <1>2 DEF ThreadStep, ClientStep, Accept, ClientCloses, ProcessThrows, Ignore,
       RejectMalformed, ConnectSteps, ConnectCheckUser, CheckPasswordGet,
       CheckPasswordRegister, CheckPasswordCompare, ConnectLogIn, ConnectStore,
       SendConnected, DisconnectSteps, SendReceipt, SendErrorFrame, LogOutUser,
       DisconnectBegin, DisconnectLeave, DisconnectEnd, CloseSocket, TopicSteps,
       SubscribeFindTopic, SubscribeCreateTopic, SubscribeJoin, SubscribeRecord,
       UnsubscribeFind, UnsubscribeLeave, SendSteps, SendCheck, SendOpen, SendNext,
       SendFetch, SendPush, SendDone, client
  <2> QED BY <2>1, <2>2
<1> QED BY <1>1, <1>2

(* An event h has after the step it had before, or the step has pushed it.  *)
LEMMA OldOrNew ==
  ASSUME TypeInv, NEW c \in Conns, ThreadStep(c) \/ ClientStep(c), NEW h \in Conns,
         NEW i \in Delivered(h)'
  PROVE  \/ i \in Delivered(h) /\ out'[h][i] = out[h][i] /\ i \in 1 .. Len(out[h])
         \/ /\ i = Len(out[h]) + 1 /\ DOMAIN out'[h] = 1 .. Len(out[h]) + 1
            /\ SendPush(c) /\ pc'[c] = "fanout" /\ InHand(c, h)
            /\ frame[c].destination \in Topics /\ frame'[c] = frame[c] /\ received' = received
            /\ out'[h][i].from = c /\ out'[h][i].n = received[c]
            /\ out'[h][i].destination = frame[c].destination
<1>0. TypeOK /\ Fits(pc[c], frame[c]) /\ out[h] \in Seq(Reply)
  BY DEF TypeInv, NoNullDereference, FrameFits, TypeOK
<1> DEFINE m == Message(frame[c].destination, iter[c].subscriptionId, c)
<1>1. i \in DOMAIN out'[h] /\ out'[h][i].type = "MESSAGE"
  BY DEF Delivered
<1>2. CASE out'[h] = out[h] \/ \E r : out'[h] = Append(out[h], r) /\ r.type # "MESSAGE"
  BY <1>0, <1>1, <1>2 DEF Delivered
<1>3. CASE pc[c] = "push" /\ h = iter[c].to /\ out'[h] = Append(out[h], m)
  <2>1. SendPush(c) /\ pc'[c] = "fanout" /\ InHand(c, h)
    <3>1. SendPush(c)
      BY <1>0, <1>3, BroadcastSteps
    <3> QED BY <1>0, <1>3, <3>1 DEF SendPush, Goto, InHand, TypeOK
  <2>2. frame'[c] = frame[c] /\ received' = received
    BY <1>0, <2>1, OwnVisits DEF Broadcasting
  <2>3. frame[c].destination \in Topics
    BY <1>0, <1>3, FrameType DEF Fits, Working, Sending, Headers
  <2>4. m.from = c /\ m.n = received[c] /\ m.destination = frame[c].destination
        /\ m.type = "MESSAGE"
    BY DEF Message
  <2> HIDE DEF m
  <2>5. CASE i \in 1 .. Len(out[h])
    BY <1>0, <1>1, <1>3, <2>5 DEF Delivered
  <2>6. CASE i = Len(out[h]) + 1
    BY <1>0, <1>3, <2>1, <2>2, <2>3, <2>4, <2>6
  <2> QED BY <1>0, <1>1, <1>3, <2>5, <2>6
<1> QED BY <1>0, <1>2, <1>3, OutStep

(* How an iterator comes to have an entry before it, or in hand: it had, or *)
(* the map had, or the entry has just been put.                             *)
LEMMA MeetStep ==
  ASSUME TypeInv, NEW c \in Conns, ThreadStep(c) \/ ClientStep(c),
         NEW b \in Conns, NEW h \in Conns, pc'[b] \in Broadcasting, MayMeet(b, h)'
  PROVE  /\ frame'[b] = frame[b] /\ frame[b].destination \in Topics
         /\ \/ pc[b] \in Broadcasting /\ MayMeet(b, h)
            \/ /\ b = c /\ pc[b] = "open"
               /\ \E o \in Conns : maps[frame[b].destination][o][h] # NULL
            \/ /\ b # c /\ SubscribeRecord(c) /\ h = c /\ pc[b] \in Broadcasting
               /\ frame[c].destination = frame[b].destination
<1>0. TypeOK /\ OthersKept(c) /\ TypeInv'
  BY StepsAreLocal, TypeNext DEF TypeInv, Next
<1>1. CASE b # c
  <2>1. /\ pc'[b] = pc[b] /\ frame'[b] = frame[b] /\ iter'[b].to = iter[b].to
    BY <1>0, <1>1, LoopsKept DEF OthersKept
  <2>2. frame[b].destination \in Topics
    BY <1>0, <2>1, FrameType DEF TypeInv, NoNullDereference, FrameFits, Fits, Broadcasting,
       Working, Sending, Headers
  <2> QED BY <1>1, <2>1, <2>2, Visits DEF MayMeet, InHand, Iterating
<1>2. CASE b = c
  <2>1. /\ frame'[b] = frame[b] /\ pc[b] \in {"open"} \cup Broadcasting
    BY <1>0, <1>2, OwnVisits
  <2>2. frame[b].destination \in Topics
    BY <1>0, <2>1, FrameType DEF TypeInv, NoNullDereference, FrameFits, Fits, Broadcasting,
       Working, Sending, Headers
  <2>3. topicMap'[b] \in Conns
    BY <1>0 DEF TypeInv, TypeOK, NoNullDereference, ReferencesFit, Refers, Broadcasting
  <2>4. CASE pc[b] = "open"
    BY <1>0, <1>2, <2>1, <2>2, <2>3, <2>4, OwnVisits DEF MayMeet, InHand, Broadcasting
  <2>5. CASE pc[b] # "open"
    BY <1>0, <1>2, <2>1, <2>2, <2>5, OwnVisits DEF MayMeet, InHand, Broadcasting
  <2> QED BY <2>4, <2>5
<1> QED BY <1>1, <1>2

LEMMA AskedNext ==
  ASSUME FreshIds, EventInv, NEW c \in Conns, ThreadStep(c) \/ ClientStep(c), NEW h \in Conns
  PROVE  AskedAt(h)'
<1>0. TypeInv /\ TypeOK /\ OthersKept(c) /\ IdsIssued /\ AskedAt(h) /\ SentAt(h)
  BY StepsAreLocal DEF EventInv, TypeInv
<1>1. ASSUME NEW t \in Topics, NEW o \in Conns, maps'[t][o][h] # NULL
      PROVE  Past(h, t)'
  <2>1. CASE maps[t][o][h] # NULL
    BY <1>0, <2>1, PastKept DEF AskedAt
  <2>2. CASE maps[t][o][h] = NULL
    BY <1>0, <1>1, <2>2, MapGrows, PutAsks
  <2> QED BY <2>1, <2>2
<1>2. ASSUME NEW b \in Conns, pc'[b] \in Broadcasting, MayMeet(b, h)'
      PROVE  \A t : t = frame'[b].destination => Past(h, t)'
  <2> SUFFICES ASSUME NEW t, t = frame[b].destination PROVE Past(h, t)'
    BY <1>0, <1>2, MeetStep
  <2>1. t \in Topics
    BY <1>0, <1>2, MeetStep
  <2>2. CASE Past(h, t)
    BY <1>0, <2>1, <2>2, PastKept
  <2>3. CASE SubscribeRecord(c) /\ h = c /\ frame[c].destination = t
    BY <1>0, <2>3, PutAsks
  <2> QED BY <1>0, <1>2, <2>1, <2>2, <2>3, MeetStep DEF AskedAt
<1>3. ASSUME NEW b \in Conns, InHand(b, h)', iter'[b].visit[h] # "no"
      PROVE  \A t : t = frame'[b].destination => ~ SubscribedOnce(h, t)'
  <2>1. pc'[b] \in Broadcasting /\ MayMeet(b, h)'
    BY <1>3 DEF InHand, MayMeet, Broadcasting
  <2> SUFFICES ASSUME NEW t, t = frame[b].destination PROVE ~ SubscribedOnce(h, t)'
    BY <1>0, <2>1, MeetStep
  <2>2. t \in Topics
    BY <1>0, <2>1, MeetStep
  <2>3. CASE InHand(b, h) /\ iter[b].visit[h] # "no"
    BY <1>0, <2>2, <2>3, TwiceKept DEF AskedAt
  <2>4. CASE b = c
    BY <1>0, <1>3, <2>1, <2>3, <2>4, OwnVisits DEF InHand, Broadcasting
  <2>5. CASE b # c
    <3>1. InHand(b, h)
      BY <1>0, <1>3, <2>5, LoopsKept DEF InHand, OthersKept
    <3>2. Past(h, t)
      BY <1>0, <3>1 DEF AskedAt, MayMeet, InHand, Broadcasting
    <3>3. CASE SubscribeRecord(c) /\ h = c /\ Iterating(b, frame[c].destination, topicMap[c])
      BY <1>0, <3>2, <3>3, PutAsks DEF Iterating
    <3> QED BY <1>0, <1>3, <2>3, <2>5, <3>1, <3>3, Visits
  <2> QED BY <2>4, <2>5
<1>4. ASSUME NEW i \in Delivered(h)'
      PROVE  \A t : t = out'[h][i].destination => Past(h, t)'
  <2> SUFFICES ASSUME NEW t, t = out'[h][i].destination PROVE Past(h, t)'
    OBVIOUS
  <2>1. CASE i \in Delivered(h) /\ out'[h][i] = out[h][i]
    BY <1>0, <2>1, PastKept DEF AskedAt, SentAt
  <2>2. CASE InHand(c, h) /\ frame[c].destination \in Topics /\ t = frame[c].destination
    BY <1>0, <2>2, PastKept DEF AskedAt, MayMeet, InHand, Broadcasting
  <2> QED BY <1>0, <1>4, <2>1, <2>2, OldOrNew
<1> QED BY <1>1, <1>2, <1>3, <1>4 DEF AskedAt

LEMMA SentNext ==
  ASSUME FreshIds, EventInv, NEW c \in Conns, ThreadStep(c) \/ ClientStep(c), NEW h \in Conns
  PROVE  SentAt(h)'
<1>0. TypeInv /\ TypeOK /\ OthersKept(c) /\ IdsIssued /\ AskedAt(h) /\ SentAt(h)
  BY StepsAreLocal DEF EventInv, TypeInv
<1> SUFFICES ASSUME NEW i \in Delivered(h)', NEW e, e = out'[h][i], NEW b, b = e.from
             PROVE  /\ b \in Conns /\ e.destination \in Topics /\ e.n <= received'[b]
                    /\ pc'[b] \in {"process", "open"} => e.n < received'[b]
                    /\ pc'[b] \in Broadcasting /\ e.n = received'[b] =>
                         /\ e.destination = frame'[b].destination
                         /\ MayMeet(b, h)' => ~ SubscribedOnce(h, e.destination)'
  BY DEF SentAt
<1>1. CASE i \in Delivered(h) /\ out'[h][i] = out[h][i]
  <2>1. /\ b \in Conns /\ e.destination \in Topics /\ e.n <= received[b]
        /\ pc[b] \in {"process", "open"} => e.n < received[b]
        /\ pc[b] \in Broadcasting /\ e.n = received[b] =>
             /\ e.destination = frame[b].destination
             /\ MayMeet(b, h) => ~ SubscribedOnce(h, e.destination)
        /\ Past(h, e.destination)
    BY <1>0, <1>1 DEF SentAt, AskedAt
  <2>2. e.n \in Nat /\ received[b] \in Nat
    <3>1. e \in Reply
      BY <1>0, <1>1 DEF Delivered, TypeOK
    <3> QED BY <1>0, <2>1, <3>1, BoundAssumption DEF Reply, TypeOK
  <2>3. IF b = c /\ pc'[c] = "process" THEN received'[b] = received[b] + 1
                                       ELSE received'[b] = received[b]
    BY <1>0, <2>1, ReceivedStep DEF OthersKept
  <2>4. pc'[b] \in {"process", "open"} => e.n < received'[b]
    <3>1. CASE b # c
      BY <1>0, <2>1, <2>3, <3>1 DEF OthersKept
    <3>2. CASE pc'[b] = "process" /\ b = c
      BY <2>1, <2>2, <2>3, <3>2
    <3>3. CASE pc'[b] = "open" /\ b = c
      <4>1. pc[b] = "process"
        BY <1>0, <3>3, BroadcastSteps DEF SendCheck, Processing
      <4> QED BY <2>1, <2>3, <3>3, <4>1
    <3> QED BY <3>1, <3>2, <3>3
  <2>5. ASSUME pc'[b] \in Broadcasting, e.n = received'[b]
        PROVE  /\ e.destination = frame'[b].destination
               /\ MayMeet(b, h)' => ~ SubscribedOnce(h, e.destination)'
    <3>1. e.n = received[b]
      BY <2>3, <2>5 DEF Broadcasting
    <3>2. pc[b] \in {"open"} \cup Broadcasting /\ frame'[b] = frame[b]
      BY <1>0, <2>1, <2>5, OwnVisits DEF OthersKept
    <3>3. pc[b] \in Broadcasting
      BY <2>1, <2>2, <3>1, <3>2
    <3>4. e.destination = frame[b].destination
      BY <2>1, <3>1, <3>3
    <3>5. ASSUME MayMeet(b, h)' PROVE ~ SubscribedOnce(h, e.destination)'
      <4>1. CASE MayMeet(b, h)
        BY <1>0, <2>1, <3>1, <3>3, <4>1, TwiceKept
      <4>2. CASE SubscribeRecord(c) /\ h = c /\ frame[c].destination = frame[b].destination
        BY <1>0, <2>1, <3>4, <4>2, PutAsks
      <4> QED BY <1>0, <2>1, <2>5, <3>3, <3>5, <4>1, <4>2, MeetStep DEF Broadcasting
    <3> QED BY <3>2, <3>4, <3>5
  <2> QED BY <2>1, <2>2, <2>3, <2>4, <2>5
<1>2. CASE /\ SendPush(c) /\ pc'[c] = "fanout" /\ InHand(c, h)
           /\ frame[c].destination \in Topics /\ frame'[c] = frame[c] /\ received' = received
           /\ b = c /\ e.n = received[c] /\ e.destination = frame[c].destination
  <2>1. received[c] \in Nat
    BY <1>0, BoundAssumption DEF TypeOK
  <2>2. MayMeet(c, h)' => iter[c].visit[h] # "no"
    BY <1>0, <1>2, OwnVisits DEF MayMeet, InHand, Broadcasting
  <2>3. iter[c].visit[h] # "no" => ~ SubscribedOnce(h, e.destination)'
    BY <1>0, <1>2, TwiceKept DEF AskedAt
  <2> QED BY <1>2, <2>1, <2>2, <2>3
<1> QED BY <1>0, <1>1, <1>2, OldOrNew

LEMMA OrderedNext ==
  ASSUME FreshIds, EventInv, NEW c \in Conns, ThreadStep(c) \/ ClientStep(c), NEW h \in Conns
  PROVE  OrderedAt(h)'
<1>0. TypeInv /\ TypeOK /\ AskedAt(h) /\ SentAt(h) /\ OrderedAt(h) /\ out[h] \in Seq(Reply)
  BY DEF EventInv, TypeInv, TypeOK
<1> SUFFICES ASSUME NEW i \in Delivered(h)', NEW j \in Delivered(h)', i < j,
                    out'[h][i].from = out'[h][j].from,
                    NEW t, t = out'[h][i].destination
             PROVE  \/ out'[h][i].n < out'[h][j].n
                    \/ out'[h][i].n = out'[h][j].n /\ ~ SubscribedOnce(h, t)'
  BY DEF OrderedAt
<1> DEFINE Old(k) == k \in Delivered(h) /\ out'[h][k] = out[h][k] /\ k \in 1 .. Len(out[h])
<1>1. Len(out[h]) \in Nat
  BY <1>0
<1>2. Old(i)
  <2>1. CASE i = Len(out[h]) + 1 /\ DOMAIN out'[h] = 1 .. Len(out[h]) + 1
    <3>1. j \in 1 .. Len(out[h]) + 1
      BY <2>1 DEF Delivered
    <3> QED BY <1>1, <2>1, <3>1
  <2> QED BY <1>0, <2>1, OldOrNew
<1>3. t \in Topics
  BY <1>0, <1>2 DEF SentAt
<1>4. CASE Old(j)
  BY <1>0, <1>2, <1>3, <1>4, TwiceKept DEF OrderedAt
<1>5. CASE /\ SendPush(c) /\ InHand(c, h)
           /\ out'[h][j].from = c /\ out'[h][j].n = received[c]
  <2>1. out[h][i].n <= received[c] /\ out[h][i].n \in Nat /\ received[c] \in Nat
    <3>1. out[h][i] \in Reply
      BY <1>0, <1>2
    <3> QED BY <1>0, <1>2, <1>5, <3>1, BoundAssumption DEF SentAt, Reply, TypeOK
  <2>2. CASE out[h][i].n = received[c]
    <3>1. ~ SubscribedOnce(h, t)
      BY <1>0, <1>2, <1>5, <2>2 DEF SentAt, MayMeet, InHand, Broadcasting
    <3> QED BY <1>0, <1>2, <1>3, <1>5, <2>2, <3>1, TwiceKept
  <2> QED BY <1>2, <1>5, <2>1, <2>2
<1> QED BY <1>0, <1>4, <1>5, OldOrNew

(* If clients do not reuse subscription ids, a subscriber sees the events   *)
(* of one sender in the order they were sent, and each at most once if it   *)
(* asked for the topic once, however broadcasts, SUBSCRIBEs, UNSUBSCRIBEs   *)
(* and disconnections overlap.                                              *)
THEOREM EventsOrdered == FreshIds => (Spec => []EventsInOrderOnce)
<1> SUFFICES ASSUME FreshIds PROVE Spec => []EventsInOrderOnce
  OBVIOUS
<1>1. Init => EventInv
  <2> SUFFICES ASSUME Init PROVE EventInv
    OBVIOUS
  <2>1. TypeInv /\ IdsIssued
    BY TypeInit, TrackInit DEF TrackInv
  <2>2. \A h \in Conns : AskedAt(h)
    BY DEF Init, AskedAt, InHand, Delivered, Broadcasting
  <2>3. \A h \in Conns : SentAt(h) /\ OrderedAt(h)
    BY DEF Init, SentAt, OrderedAt, Delivered
  <2> QED BY <2>1, <2>2, <2>3 DEF EventInv
<1>2. EventInv /\ [Next]_vars => EventInv'
  <2> SUFFICES ASSUME EventInv, [Next]_vars PROVE EventInv'
    OBVIOUS
  <2>1. TypeInv'
    BY TypeNext DEF EventInv
  <2>2. CASE UNCHANGED vars
    <3> USE <2>2 DEF vars, topicTables, locals, client
    <3>1. IdsIssued'
      BY DEF EventInv, IdsIssued
    <3>2. \A h \in Conns : AskedAt(h)'
      BY DEF EventInv, AskedAt, Past, MayMeet, InHand, SubscribedOnce, Delivered
    <3>3. \A h \in Conns : SentAt(h)'
      BY DEF EventInv, SentAt, MayMeet, InHand, SubscribedOnce, Delivered
    <3>4. \A h \in Conns : OrderedAt(h)'
      BY DEF EventInv, OrderedAt, SubscribedOnce, Delivered
    <3> QED BY <2>1, <3>1, <3>2, <3>3, <3>4 DEF EventInv
  <2>3. ASSUME NEW c \in Conns, ThreadStep(c) \/ ClientStep(c) PROVE EventInv'
    <3>1. IdsIssued'
      BY <2>3, IdsIssuedNext DEF EventInv
    <3>2. \A h \in Conns : AskedAt(h)' /\ SentAt(h)' /\ OrderedAt(h)'
      BY <2>3, AskedNext, SentNext, OrderedNext
    <3> QED BY <2>1, <3>1, <3>2 DEF EventInv
  <2> QED BY <2>2, <2>3 DEF Next, Quiescent
<1>3. EventInv => EventsInOrderOnce
  BY DEF EventInv, OrderedAt, EventsInOrderOnce
<1> QED BY <1>1, <1>2, <1>3, PTL DEF Spec
=============================================================================

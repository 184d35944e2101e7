----------------------- MODULE StompClientAgreeProofs -----------------------
(***************************************************************************)
(* A user who waits for the console and the server agree on what the user  *)
(* follows, however many games and sessions there are: where each command  *)
(* is on its way round (keyboard thread, toServer, toClient, main thread)  *)
(* tells what each end knows of its game.                                   *)
(***************************************************************************)
EXTENDS StompClientProofs

(* The claims are about users who wait, while the client runs.              *)
Polite == ~ hasty /\ key # "ended"

(* The handler's flags, the console and the socket go together.             *)
Together ==
  /\ (sentLoginRequest <=> connected)
  /\ ~ connected => main \in {"loop", "ended"}
  /\ key \in {"connect", "setLogin"} => ~ connected
  /\ greeted => connected
  /\ connected \/ key = "setLogin" => link # "down"
  /\ unsent # 0 => key \in {"report", "send"} /\ frame.cmd = "SEND"

(* Until the user is told of the login there is nothing but the CONNECT, its *)
(* answer, and what logout() left: empty tables.                            *)
Fresh ==
  ~ greeted =>
    /\ gameToSubID = EmptyMap /\ receiptToMsg = EmptyMap
    /\ awaiting = {} /\ gameToEvents = {}
    /\ key \in {"prompt", "connect", "setLogin", "send", "setUsername", "setWaiting", "wait"}
    /\ key = "send" => frame.cmd = "CONNECT"
    /\ key \in {"setLogin", "send"} => Len(toServer) = 0 /\ Len(toClient) = 0
    /\ main \in {"loop", "reading", "logout", "ended"}
    /\ link # "down" =>
         /\ \A i \in 1 .. Len(toServer) : i = 1 /\ toServer[i].cmd = "CONNECT"
         /\ Len(toServer) = 0 \/ Len(toClient) = 0
    /\ \A i \in 1 .. Len(toClient) : i = 1 /\ toClient[i].type \in {"CONNECTED", "ERROR"}
    /\ link = "up" => \A g \in Games : joined[g] = NULL

(* Once told, the user hears of no error, and of a DISCONNECT only when the *)
(* keyboard thread waits for that.                                          *)
Leaving == key = "setWaiting" \/ (key = "wait" /\ waitingForDisconnect)
Welcome ==
  greeted =>
    /\ key = "send" => frame.cmd # "CONNECT"
    /\ link = "up" => \A i \in 1 .. Len(toServer) :
         /\ toServer[i].cmd # "CONNECT"
         /\ toServer[i].cmd = "DISCONNECT" => Leaving
    /\ \A i \in 1 .. Len(toClient) :
         /\ toClient[i].type # "ERROR"
         /\ toClient[i].type = "RECEIPT" /\ toClient[i].about = "DISCONNECT" => Leaving
    /\ main = "receipt" /\ hand.about = "DISCONNECT" => Leaving
    /\ main = "logout" => Leaving

(* Where the join or exit of a game may be.                                 *)
Commands == {"SUBSCRIBE", "UNSUBSCRIBE"}
KeyOf(g) == key \in {"subscribe", "unsubscribe", "addMsg", "send"} /\ frame.cmd \in Commands /\ frame.game = g
ServerOf(g, i) == toServer[i].cmd \in Commands /\ toServer[i].game = g
ClientOf(g, i) == toClient[i].type = "RECEIPT" /\ toClient[i].about = g
MainOf(g) ==
  \/ main = "receipt" /\ hand.about = g
  \/ main \in {"game", "confirm", "unsubscribe"} /\ command = g

(* It is in one place only, and the console still owes its end.             *)
Alone(g) ==
  /\ KeyOf(g) =>
       /\ g \in awaiting /\ ~ MainOf(g)
       /\ \A i \in 1 .. Len(toServer) : ~ ServerOf(g, i)
       /\ \A i \in 1 .. Len(toClient) : ~ ClientOf(g, i)
  /\ \A i \in 1 .. Len(toServer) : ServerOf(g, i) =>
       /\ g \in awaiting /\ ~ MainOf(g)
       /\ \A j \in 1 .. Len(toServer) : ServerOf(g, j) => j = i
       /\ \A j \in 1 .. Len(toClient) : ~ ClientOf(g, j)
  /\ \A i \in 1 .. Len(toClient) : ClientOf(g, i) =>
       /\ g \in awaiting /\ ~ MainOf(g)
       /\ \A j \in 1 .. Len(toClient) : ClientOf(g, j) => j = i
  /\ MainOf(g) => g \in awaiting

(* What both ends know of the game, before and after the server's answer.   *)
Follows(g) ==
  joined[g] # NULL /\ g \in DOMAIN gameToSubID /\ gameToSubID[g] = [star |-> FALSE, id |-> joined[g]]
Asks(f) ==
  IF f.cmd = "SUBSCRIBE"
  THEN /\ joined[f.game] = NULL /\ f.game \in DOMAIN gameToSubID
       /\ f.sub.id \in Nat /\ gameToSubID[f.game] = [star |-> TRUE, id |-> f.sub.id]
  ELSE Follows(f.game) /\ f.sub = gameToSubID[f.game]
AnsweredOf(g) ==
  /\ g \in DOMAIN gameToSubID
  /\ gameToSubID[g].star => joined[g] # NULL /\ gameToSubID[g].id = joined[g]
  /\ ~ gameToSubID[g].star => joined[g] = NULL

(* What they know of it, by where its command is.                           *)
Stage(g) ==
  /\ g \notin awaiting => AgreeOn(g)
  /\ KeyOf(g) =>
       /\ key = "subscribe" =>
            joined[g] = NULL /\ g \notin DOMAIN gameToSubID /\ frame.sub = [star |-> FALSE, id |-> subscriptionID]
       /\ key = "unsubscribe" => Follows(g)
       /\ key \in {"addMsg", "send"} => Asks(frame)
  /\ \A i \in 1 .. Len(toServer) : ServerOf(g, i) => Asks(toServer[i])
  /\ \A i \in 1 .. Len(toClient) : ClientOf(g, i) => AnsweredOf(g)
  /\ MainOf(g) => AnsweredOf(g)
  /\ main = "confirm" /\ command = g => gameToSubID[g].star
  /\ main = "unsubscribe" /\ command = g => ~ gameToSubID[g].star

(* Subscription ids are the counter's: no two games share one, so an exit ends *)
(* the right subscription.                                                  *)
Ids ==
  /\ \A g \in DOMAIN gameToSubID : gameToSubID[g].id \in 0 .. subscriptionID - 1
  /\ \A g, h \in DOMAIN gameToSubID : gameToSubID[g].id = gameToSubID[h].id => g = h
  /\ \A g \in Games : joined[g] # NULL =>
       g \in DOMAIN gameToSubID /\ gameToSubID[g].id = joined[g]

(* A report is of a game the user follows, and goes ahead of its exit.      *)
Reports ==
  /\ key \in {"report", "send"} /\ frame.cmd = "SEND" =>
       frame.game \notin awaiting /\ joined[frame.game] # NULL
  /\ \A i \in 1 .. Len(toServer) : toServer[i].cmd = "SEND" =>
       /\ joined[toServer[i].game] # NULL
       /\ \A j \in 1 .. Len(toServer) : ServerOf(toServer[i].game, j) => i < j

InSession == Ids /\ Reports /\ \A g \in Games : Alone(g) /\ Stage(g)
Session == greeted /\ link = "up" => InSession
Agreement == Polite => Together /\ Fresh /\ Welcome /\ Session

-----------------------------------------------------------------------------
LEMMA OneElement ==
  ASSUME NEW S, NEW s \in Seq(S), Len(s) = 0, NEW x \in S
  PROVE  /\ s \o <<x>> = <<x>> /\ Append(s, x) = <<x>>
         /\ \A i \in 1 .. Len(<<x>>) : i = 1 /\ <<x>>[i] = x
<1>1. s = <<>>
  OBVIOUS
<1>2. <<>> \o <<x>> = <<x>> /\ Append(<<>>, x) = <<x>>
  OBVIOUS
<1>3. \A i \in 1 .. Len(<<x>>) : i = 1 /\ <<x>>[i] = x
  OBVIOUS
<1> QED BY <1>1, <1>2, <1>3

LEMMA AgreementInit == Init => Agreement
<1>1. Len(<<>>) = 0 /\ 1 .. 0 = {}
  OBVIOUS
<1> QED BY <1>1 DEF Init, Agreement, Together, Fresh, Welcome, Session

(* Once a user has not waited, or has ended the client, it stays so.        *)
LEMMA PoliteBefore ==
  ASSUME Inv, Next, Polite'
  PROVE  Polite
<1> USE DEF Polite, keyVars
<1>1. CASE Type
  BY <1>1 DEF Type, TypeLine, TypeLogin, TypeJoin, TypeExit, TypeReport, TypeSummary, TypeLogout,
              TypeTerminate, TypeFatal
<1>2. CASE Keyboard
  BY <1>2 DEF Keyboard, Connect, SetLogin, SetUsername, BuildSendFrames, AddSubscription,
              BuildUnsubscribe, AddMsg, Sent, SendFails, SetWaitingForDisconnect, Waits, WriteToFile
<1>3. CASE Main
  BY <1>3 DEF Main
<1>4. CASE Serve
  BY <1>4 DEF Serve
<1>5. CASE ServerVanishes
  BY <1>5 DEF ServerVanishes
<1>6. ASSUME NEW g \in Games, OtherReports(g) PROVE Polite
  BY <1>6 DEF OtherReports
<1> QED BY <1>1, <1>2, <1>3, <1>4, <1>5, <1>6 DEF Next

(* The lines of a user who waits.                                          *)
LEMMA PoliteLine ==
  ASSUME Polite', NEW w, NEW a, TypeLine(w, a), Inv, w \in BOOLEAN
  PROVE  w /\ key = "prompt" /\ greeted' = greeted /\ awaiting' = awaiting \cup a
BY DEF Polite, TypeLine, Inv, TypeOK

Polites ==
  \/ TypeLogin
  \/ TypeLogout /\ greeted
  \/ \E g \in Games :
       \/ TypeJoin(g) /\ Waited(g) /\ g \notin DOMAIN gameToSubID /\ awaiting' = awaiting \cup {g}
       \/ TypeExit(g) /\ Waited(g) /\ awaiting' = awaiting \cup {g}
       \/ TypeReport(g) /\ Waited(g)
       \/ TypeSummary(g)

LEMMA PoliteType ==
  ASSUME Inv, Polite', Type
  PROVE  /\ Polites
         /\ key = "prompt" /\ greeted' = greeted
         /\ ~ (\E g \in Games : TypeJoin(g) \/ TypeExit(g)) => awaiting' = awaiting
         /\ UNCHANGED <<maps, flags, mainVars, waitingForDisconnect, gameToEvents, joined, socket>>
<1> USE DEF maps, flags, socket, mainVars
<1>0. greeted \in BOOLEAN /\ \A g : Waited(g) \in BOOLEAN
  BY DEF Inv, TypeOK, Waited
<1>1. ASSUME NEW g \in Games, TypeJoin(g)
      PROVE  Waited(g) /\ g \notin DOMAIN gameToSubID /\ awaiting' = awaiting \cup {g}
             /\ key = "prompt" /\ greeted' = greeted
  BY <1>0, <1>1, PoliteLine DEF TypeJoin
<1>2. ASSUME NEW g \in Games, TypeExit(g)
      PROVE  Waited(g) /\ awaiting' = awaiting \cup {g} /\ key = "prompt" /\ greeted' = greeted
  BY <1>0, <1>2, PoliteLine DEF TypeExit
<1>3. ASSUME NEW g \in Games, TypeReport(g)
      PROVE  Waited(g) /\ awaiting' = awaiting /\ key = "prompt" /\ greeted' = greeted
  <2>1. awaiting' = awaiting \cup {}
    BY <1>0, <1>3, PoliteLine DEF TypeReport
  <2> QED BY <1>0, <1>3, <2>1, PoliteLine DEF TypeReport
<1>4. ASSUME NEW g \in Games, TypeSummary(g)
      PROVE  awaiting' = awaiting /\ key = "prompt" /\ greeted' = greeted
  <2>1. awaiting' = awaiting \cup {}
    BY <1>0, <1>4, PoliteLine DEF TypeSummary
  <2> QED BY <1>0, <1>4, <2>1, PoliteLine DEF TypeSummary
<1>5. CASE TypeLogin
  <2>1. awaiting' = awaiting \cup {} /\ key = "prompt" /\ greeted' = greeted
    BY <1>5, PoliteLine DEF TypeLogin
  <2> QED BY <1>5, <2>1 DEF TypeLogin, TypeLine, Polites
<1>6. CASE TypeLogout
  <2>1. greeted /\ awaiting' = awaiting \cup {} /\ key = "prompt" /\ greeted' = greeted
    BY <1>0, <1>6, PoliteLine DEF TypeLogout
  <2> QED BY <1>6, <2>1 DEF TypeLogout, TypeLine, Polites
<1>7. ~ TypeTerminate /\ ~ TypeFatal
  BY DEF TypeTerminate, TypeFatal, Polite
<1>8. Polites /\ key = "prompt" /\ greeted' = greeted
      /\ (~ (\E g \in Games : TypeJoin(g) \/ TypeExit(g)) => awaiting' = awaiting)
  BY <1>1, <1>2, <1>3, <1>4, <1>5, <1>6, <1>7 DEF Type, Polites
<1>9. UNCHANGED <<maps, flags, mainVars, waitingForDisconnect, gameToEvents, joined, socket>>
  BY <1>7 DEF Type, TypeLine, TypeLogin, TypeJoin, TypeExit, TypeReport, TypeSummary, TypeLogout
<1> QED BY <1>8, <1>9

-----------------------------------------------------------------------------
(* Of the session: it is there while it should be.                         *)
LEMMA TogetherNext ==
  ASSUME Inv, Agreement, Polite, Polite', Next
  PROVE  Together'
<1> USE DEF Together, Agreement, maps, flags, mainVars, keyVars, socket, console
<1>1. CASE Type
  <2>1. /\ Polites /\ key = "prompt" /\ greeted' = greeted
        /\ UNCHANGED <<maps, flags, mainVars, waitingForDisconnect, gameToEvents, joined, socket>>
    BY <1>1, PoliteType
  <2>2. key' \notin {"connect", "setLogin"} \/ TypeLogin
    BY <2>1 DEF Polites, TypeLogout, TypeJoin, TypeExit, TypeReport, TypeSummary
  <2>3. TypeLogin => ~ sentLoginRequest /\ key' = "connect"
    BY DEF TypeLogin
  <2>4. unsent = 0
    BY <2>1
  <2>5. unsent' # 0 => key' = "report" /\ frame'.cmd = "SEND"
    <3>1. ASSUME NEW g \in Games, TypeReport(g) PROVE key' = "report" /\ frame'.cmd = "SEND"
      BY <3>1 DEF TypeReport, Frame
    <3>2. ASSUME NEW g \in Games, TypeJoin(g) \/ TypeExit(g) \/ TypeSummary(g)
          PROVE  unsent' = unsent
      BY <3>2 DEF TypeJoin, TypeExit, TypeSummary
    <3>3. TypeLogin \/ TypeLogout => unsent' = unsent
      BY DEF TypeLogin, TypeLogout
    <3> QED BY <2>1, <2>4, <3>1, <3>2, <3>3 DEF Polites
  <2> QED BY <2>1, <2>2, <2>3, <2>5
<1>2. CASE Keyboard
  <2>1. unsent \in 0 .. MaxEvents
    BY DEF Inv, TypeOK
  <2>2. CASE Connect \/ SetLogin \/ SetUsername \/ AddSubscription
    BY <1>2, <2>2 DEF Keyboard, Connect, SetLogin, SetUsername, AddSubscription, Inv, KeyFits
  <2>3. CASE BuildUnsubscribe \/ AddMsg
    BY <1>2, <2>3 DEF Keyboard, BuildUnsubscribe, AddMsg
  <2>4. CASE BuildSendFrames
    <3>1. frame' = [frame EXCEPT !.signed = username] /\ frame \in FrameType /\ frame.cmd = "SEND"
      BY <2>4 DEF BuildSendFrames, Inv, KeyFits
    <3>2. frame'.cmd = "SEND"
      BY <3>1 DEF FrameType
    <3> QED BY <1>2, <2>4, <3>2 DEF Keyboard, BuildSendFrames
  <2>5. CASE Sent
    BY <1>2, <2>1, <2>5 DEF Keyboard, Sent
  <2>6. CASE SendFails \/ SetWaitingForDisconnect \/ Waits \/ WriteToFile
    BY <1>2, <2>6 DEF Keyboard, SendFails, SetWaitingForDisconnect, Waits, WriteToFile
  <2> QED BY <1>2, <2>2, <2>3, <2>4, <2>5, <2>6 DEF Keyboard
<1>3. CASE Main
  <2>1. CASE Poll \/ GetFrameFails \/ FindCommand \/ FindGame \/ HandleMessage
    BY <1>3, <2>1 DEF Main, Poll, GetFrameFails, FindCommand, FindGame, HandleMessage
  <2>2. CASE ConfirmSub \/ Unsubscribe \/ Logout
    BY <1>3, <2>2 DEF Main, ConfirmSub, Unsubscribe, Logout
  <2>3. CASE GetFrame
    BY <1>3, <2>3 DEF Main, GetFrame
  <2> QED BY <1>3, <2>1, <2>2, <2>3 DEF Main
<1>4. CASE Serve
  BY <1>4, ServeAnswers DEF Serve, Answered
<1>5. CASE ServerVanishes
  BY <1>5 DEF ServerVanishes
<1>6. ASSUME NEW g \in Games, OtherReports(g) PROVE Together'
  BY <1>6 DEF OtherReports, Reply
<1> QED BY <1>1, <1>2, <1>3, <1>4, <1>5, <1>6 DEF Next

-----------------------------------------------------------------------------
(* Before the user has been told of the login there is nothing yet.        *)
LEMMA FreshNext ==
  ASSUME Inv, Agreement, Polite, Polite', Next
  PROVE  Fresh'
<1> USE DEF Agreement, maps, flags, mainVars, keyVars, socket, console
<1>1. CASE Type
  <2>1. CASE ~ greeted
    <3>1. key' = "connect" /\ awaiting' = awaiting /\ greeted' = greeted
          /\ UNCHANGED <<maps, flags, mainVars, waitingForDisconnect, gameToEvents, joined, socket>>
      BY <1>1, <2>1, PoliteType DEF Polites, TypeLogin, TypeJoin, TypeExit, TypeReport, TypeSummary,
                                    Waited, Fresh
    <3> QED BY <2>1, <3>1 DEF Fresh
  <2> QED BY <1>1, <2>1, PoliteType DEF Fresh
<1>2. CASE Keyboard
  <2>1. CASE Connect
    <3>1. /\ UNCHANGED <<maps, awaiting, gameToEvents, greeted, mainVars>>
          /\ key' \in {"setLogin", "prompt"} /\ ~ greeted
      BY <1>2, <2>1 DEF Keyboard, Connect, Together
    <3>2. CASE key' = "setLogin"
      <4>1. Len(toServer') = 0 /\ Len(toClient') = 0 /\ \A g \in Games : joined'[g] = NULL
        BY <2>1, <3>2 DEF Connect
      <4> QED BY <3>1, <3>2, <4>1 DEF Fresh
    <3>3. CASE key' = "prompt"
      <4>1. UNCHANGED <<socket, joined>>
        BY <2>1, <3>3 DEF Connect
      <4> QED BY <3>1, <3>3, <4>1 DEF Fresh
    <3> QED BY <3>1, <3>2, <3>3
  <2>2. CASE Sent
    <3>1. CASE ~ greeted
      <4>1. /\ UNCHANGED <<maps, awaiting, gameToEvents, greeted, mainVars, link, toClient, joined>>
            /\ frame.cmd = "CONNECT" /\ Len(toServer) = 0 /\ Len(toClient) = 0
            /\ key' = "setUsername" /\ frame \in FrameType /\ toServer \in Seq(FrameType)
            /\ toServer' = IF link = "up" THEN Append(toServer, frame) ELSE toServer
        BY <1>2, <2>2, <3>1 DEF Keyboard, Sent, Fresh, Together, Inv, KeyFits, TypeOK
      <4>2. \A i \in 1 .. Len(toServer') : i = 1 /\ toServer'[i].cmd = "CONNECT"
        BY <4>1, OneElement
      <4> QED BY <3>1, <4>1, <4>2 DEF Fresh
    <3> QED BY <1>2, <2>2, <3>1 DEF Fresh, Keyboard, Sent
  <2>3. CASE SetLogin \/ SetUsername \/ SendFails \/ SetWaitingForDisconnect \/ Waits
    BY <1>2, <2>3 DEF Fresh, Inv, KeyFits, Keyboard, SetLogin, SetUsername, SendFails, SetWaitingForDisconnect,
                      Waits
  <2>4. CASE BuildSendFrames \/ AddSubscription \/ BuildUnsubscribe \/ AddMsg \/ WriteToFile
    BY <1>2, <2>4 DEF Fresh, Keyboard, BuildSendFrames, AddSubscription, BuildUnsubscribe, AddMsg,
                      WriteToFile
  <2> QED BY <1>2, <2>1, <2>2, <2>3, <2>4 DEF Keyboard
<1>3. CASE Main
  <2>1. CASE Poll \/ GetFrameFails
    BY <1>3, <2>1 DEF Fresh, Main, Poll, GetFrameFails
  <2>2. CASE FindCommand \/ FindGame \/ HandleMessage \/ ConfirmSub \/ Unsubscribe
    BY <1>3, <2>2 DEF Fresh, Main, FindCommand, FindGame, HandleMessage, ConfirmSub, Unsubscribe
  <2>3. CASE Logout
    BY <1>3, <2>3 DEF Fresh, Welcome, Leaving, Main, Logout
  <2>4. CASE GetFrame
    <3>1. CASE greeted' \/ greeted
      BY <2>4, <3>1 DEF Fresh, GetFrame, Polite
    <3>2. CASE ~ greeted' /\ ~ greeted
      <4>1. /\ UNCHANGED <<maps, awaiting, gameToEvents, keyVars, toServer, joined, link>>
            /\ toClient # <<>> /\ toClient' = Tail(toClient) /\ main' = Handler(Head(toClient).type)
            /\ Head(toClient).type # "CONNECTED"
        BY <1>3, <2>4, <3>2 DEF Main, GetFrame, Polite
      <4>2. /\ toClient \in Seq(AnswerType) /\ Head(toClient) = toClient[1] /\ 1 \in 1 .. Len(toClient)
            /\ Len(toClient') = Len(toClient) - 1 /\ Len(toClient) \in Nat
        BY <4>1, TailElements DEF Inv, TypeOK
      <4>3. main' = "logout" /\ Len(toClient) = 1
        <5>1. Head(toClient).type = "ERROR"
          BY <3>2, <4>1, <4>2 DEF Fresh
        <5>2. Len(toClient) \in 1 .. Len(toClient)
          BY <4>2
        <5>3. Len(toClient) = 1
          BY <3>2, <5>2 DEF Fresh
        <5> QED BY <4>1, <5>1, <5>3 DEF Handler
      <4>4. Len(toClient') = 0 /\ 1 .. Len(toClient') = {}
        BY <4>2, <4>3
      <4>5. link' # "down" =>
              /\ \A i \in 1 .. Len(toServer') : i = 1 /\ toServer'[i].cmd = "CONNECT"
              /\ Len(toServer') = 0 \/ Len(toClient') = 0
        BY <3>2, <4>1, <4>4 DEF Fresh
      <4>6. link' = "up" => \A g \in Games : joined'[g] = NULL
        BY <3>2, <4>1 DEF Fresh
      <4>7. \A i \in 1 .. Len(toClient') : i = 1 /\ toClient'[i].type \in {"CONNECTED", "ERROR"}
        BY <4>4
      <4>8. /\ gameToSubID' = EmptyMap /\ receiptToMsg' = EmptyMap /\ awaiting' = {} /\ gameToEvents' = {}
            /\ key' \in {"prompt", "connect", "setLogin", "send", "setUsername", "setWaiting", "wait"}
            /\ key' = "send" => frame'.cmd = "CONNECT"
            /\ key' \notin {"setLogin", "send"}
        BY <3>2, <4>1, <4>3 DEF Fresh
      <4> QED BY <4>3, <4>4, <4>5, <4>6, <4>7, <4>8 DEF Fresh
    <3> QED BY <3>1, <3>2
  <2> QED BY <1>3, <2>1, <2>2, <2>3, <2>4 DEF Main
<1>4. CASE Serve
  <2>1. CASE ~ greeted
    <3> DEFINE f == Head(toServer)
    <3>1. /\ link = "up" /\ toServer \in Seq(FrameType) /\ toServer # <<>> /\ toServer' = Tail(toServer)
          /\ UNCHANGED <<maps, awaiting, gameToEvents, greeted, mainVars, keyVars>>
      BY <1>4 DEF Serve, Inv, TypeOK
    <3>2. /\ f = toServer[1] /\ 1 \in 1 .. Len(toServer) /\ Len(toServer) \in Nat
          /\ Len(toServer') = Len(toServer) - 1 /\ Len(toServer) \in 1 .. Len(toServer)
      BY <3>1, TailElements
    <3>3. f.cmd = "CONNECT" /\ Len(toServer) = 1 /\ Len(toClient) = 0
      BY <2>1, <3>1, <3>2 DEF Fresh
    <3>4. Len(toServer') = 0
      BY <3>2, <3>3
    <3>5. ServeConnect(f)
      BY <1>4, <3>3 DEF Serve, ServeSubscribe, ServeUnsubscribe, ServeSend, ServeDisconnect
    <3>6. /\ UNCHANGED joined
          /\ \/ toClient' = toClient \o <<Answer("ERROR", NULL, NULL)>>
             \/ toClient' = toClient \o <<Answer("CONNECTED", NULL, NULL)>>
      BY <3>5 DEF ServeConnect, ServerError, Reply
    <3>7. toClient \in Seq(AnswerType) /\ toClient = <<>>
      BY <3>3 DEF Inv, TypeOK
    <3>8. \A i \in 1 .. Len(toClient') : i = 1 /\ toClient'[i].type \in {"CONNECTED", "ERROR"}
      <4>1. ASSUME NEW t \in {"ERROR", "CONNECTED"}
            PROVE  Answer(t, NULL, NULL) \in AnswerType /\ Answer(t, NULL, NULL).type = t
        BY DEF Answer, AnswerType
      <4>2. PICK t \in {"ERROR", "CONNECTED"} : toClient' = toClient \o <<Answer(t, NULL, NULL)>>
        BY <3>6
      <4>3. \A i \in 1 .. Len(toClient') : i = 1 /\ toClient'[i] = Answer(t, NULL, NULL)
        <5>1. PICK x \in AnswerType : x = Answer(t, NULL, NULL)
          BY <4>1
        <5>2. toClient' = <<x>> /\ \A i \in 1 .. Len(<<x>>) : i = 1 /\ <<x>>[i] = x
          BY <3>3, <3>7, <4>2, <5>1, OneElement
        <5> QED BY <5>1, <5>2
      <4> QED BY <4>1, <4>3
    <3>9. key \notin {"setLogin", "send"}
      BY <2>1, <3>2, <3>3 DEF Fresh
    <3> HIDE DEF f
    <3> QED BY <2>1, <3>1, <3>4, <3>6, <3>8, <3>9 DEF Fresh
  <2> QED BY <1>4, <2>1 DEF Fresh, Serve
<1>5. CASE ServerVanishes
  BY <1>5 DEF Fresh, ServerVanishes
<1>6. ASSUME NEW g \in Games, OtherReports(g) PROVE Fresh'
  BY <1>6 DEF Fresh, OtherReports
<1> QED BY <1>1, <1>2, <1>3, <1>4, <1>5, <1>6 DEF Next

-----------------------------------------------------------------------------
(* In a session the server has no cause to complain.                       *)
LEMMA ServesWell ==
  ASSUME Inv, Agreement, Polite, greeted, Serve, NEW f, f = Head(toServer)
  PROVE  /\ f \in FrameType /\ GameFits(f) /\ 1 \in 1 .. Len(toServer) /\ f = toServer[1]
         /\ \/ /\ f.cmd = "SUBSCRIBE" /\ joined[f.game] = NULL
               /\ joined' = [joined EXCEPT ![f.game] = f.sub.id]
               /\ toClient' = toClient \o <<Answer("RECEIPT", f.receipt, f.game)>> /\ link' = "up"
            \/ /\ f.cmd = "UNSUBSCRIBE"
               /\ joined' = [joined EXCEPT ![f.game] = NULL]
               /\ toClient' = toClient \o <<Answer("RECEIPT", f.receipt, f.game)>> /\ link' = "up"
            \/ /\ f.cmd = "SEND" /\ joined' = joined
               /\ toClient' = toClient \o <<Answer("MESSAGE", NULL, f.game)>> /\ link' = "up"
            \/ /\ f.cmd = "DISCONNECT" /\ joined' = joined /\ Leaving
               /\ toClient' = toClient \o <<Answer("RECEIPT", f.receipt, "DISCONNECT")>>
               /\ link' = "closed"
<1> USE DEF Agreement
<1>1. link = "up" /\ toServer \in Seq(FrameType) /\ toServer # <<>>
  BY DEF Serve, Inv, TypeOK
<1>2. f \in FrameType /\ f = toServer[1] /\ 1 \in 1 .. Len(toServer)
  BY <1>1, TailElements
<1>3. GameFits(f) /\ f.cmd # "CONNECT" /\ (f.cmd = "DISCONNECT" => Leaving)
  BY <1>1, <1>2 DEF Inv, SocketFits, Welcome
<1>4. f.cmd \in Commands => f.game \in Games /\ Asks(f)
  <2>1. ASSUME f.cmd \in Commands PROVE f.game \in Games /\ Asks(f)
    <3>1. f.game \in Games
      BY <1>3, <2>1 DEF GameFits, Commands
    <3>2. Stage(f.game)
      BY <1>1, <3>1 DEF Session, InSession
    <3> QED BY <1>2, <2>1, <3>1, <3>2 DEF Stage, ServerOf
  <2> QED BY <2>1
<1>5. f.cmd = "SEND" => joined[f.game] # NULL
  BY <1>1, <1>2 DEF Session, InSession, Reports
<1>6. CASE ServeSubscribe(f)
  BY <1>1, <1>2, <1>3, <1>4, <1>6 DEF ServeSubscribe, Commands, Asks, Receipt, Reply, Asked
<1>7. CASE ServeUnsubscribe(f)
  <2>1. f.cmd = "UNSUBSCRIBE" /\ f.game \in Games /\ Follows(f.game) /\ f.sub = gameToSubID[f.game]
    BY <1>4, <1>7 DEF ServeUnsubscribe, Commands, Asks
  <2>2. f.sub # Empty /\ ~ f.sub.star /\ joined[f.game] = f.sub.id /\ joined[f.game] # NULL
    BY <2>1 DEF Follows, Empty
  <2>3. \A h \in Games : joined[h] = f.sub.id => h = f.game
    BY <1>1, <2>1, <2>2 DEF Session, InSession, Ids
  <2>4. PICK h \in Games : joined[h] = f.sub.id /\ joined' = [joined EXCEPT ![h] = NULL] /\ Receipt(f)
    BY <1>7, <2>1, <2>2 DEF ServeUnsubscribe
  <2>5. h = f.game
    BY <2>3, <2>4
  <2> QED BY <1>2, <1>3, <2>1, <2>4, <2>5 DEF Receipt, Reply, Asked
<1>8. CASE ServeSend(f)
  BY <1>2, <1>3, <1>5, <1>8 DEF ServeSend, Reply
<1>9. CASE ServeDisconnect(f)
  BY <1>2, <1>3, <1>9 DEF ServeDisconnect, Reply, Asked
<1> QED BY <1>3, <1>6, <1>7, <1>8, <1>9 DEF Serve, ServeConnect

(* A user who was told of the login hears of no error.                     *)
LEMMA WelcomeNext ==
  ASSUME Inv, Agreement, Polite, Polite', Next
  PROVE  Welcome'
<1> USE DEF Agreement, maps, flags, mainVars, keyVars, socket, console
<1>1. CASE Type
  <2>1. /\ key = "prompt" /\ greeted' = greeted
        /\ UNCHANGED <<maps, flags, mainVars, waitingForDisconnect, gameToEvents, joined, socket>>
    BY <1>1, PoliteType
  <2>2. key' # "send"
    BY <1>1 DEF Type, TypeLogin, TypeJoin, TypeExit, TypeReport, TypeSummary, TypeLogout,
                TypeTerminate, TypeFatal
  <2>3. ~ Leaving
    BY <2>1 DEF Leaving
  <2> QED BY <2>1, <2>2, <2>3 DEF Welcome
<1>2. CASE Keyboard
  <2>1. UNCHANGED <<mainVars, greeted, toClient>> \/ Connect
    BY <1>2 DEF Keyboard, SetLogin, SetUsername, AddSubscription, BuildUnsubscribe, AddMsg,
                BuildSendFrames, Sent, SendFails, SetWaitingForDisconnect, Waits, WriteToFile
  <2>2. CASE Connect \/ SetLogin
    BY <1>2, <2>2 DEF Welcome, Together, Keyboard, Connect, SetLogin
  <2>3. CASE SetUsername \/ AddSubscription \/ BuildUnsubscribe \/ WriteToFile
    BY <1>2, <2>3 DEF Welcome, Leaving, Keyboard, SetUsername, AddSubscription, BuildUnsubscribe,
                      WriteToFile
  <2>4. CASE AddMsg
    BY <1>2, <2>4 DEF Welcome, Leaving, Keyboard, AddMsg, Inv, KeyFits, Asking
  <2>5. CASE BuildSendFrames
    <3>1. frame' = [frame EXCEPT !.signed = username] /\ frame \in FrameType /\ frame.cmd = "SEND"
      BY <2>5 DEF BuildSendFrames, Inv, KeyFits
    <3>2. frame'.cmd = "SEND"
      BY <3>1 DEF FrameType
    <3> QED BY <1>2, <2>5, <3>2 DEF Welcome, Leaving, Keyboard, BuildSendFrames
  <2>6. CASE SendFails \/ SetWaitingForDisconnect \/ Waits
    BY <1>2, <2>6 DEF Welcome, Leaving, Keyboard, SendFails, SetWaitingForDisconnect, Waits
  <2>7. CASE Sent
    <3>1. /\ \A i \in 1 .. Len(toServer') :
               \/ i \in 1 .. Len(toServer) /\ toServer'[i] = toServer[i]
               \/ link = "up" /\ toServer'[i] = frame
          /\ UNCHANGED <<mainVars, greeted, toClient, link>>
      BY <1>2, <2>7, SentSends DEF Keyboard, Sent
    <3>2. ~ Leaving /\ key = "send"
      BY <2>7 DEF Leaving, Sent
    <3>3. frame.cmd = "DISCONNECT" => Leaving'
      BY <2>7 DEF Leaving, Sent, Together
    <3>4. key' = "send" => frame' = frame
      BY <2>7 DEF Sent
    <3> QED BY <3>1, <3>2, <3>3, <3>4 DEF Welcome
  <2> QED BY <1>2, <2>2, <2>3, <2>4, <2>5, <2>6, <2>7 DEF Keyboard
<1>3. CASE Main
  <2>1. UNCHANGED <<keyVars, toServer>>
    BY <1>3 DEF Main
  <2>2. CASE Poll \/ GetFrameFails \/ FindGame \/ HandleMessage \/ ConfirmSub \/ Unsubscribe
    BY <2>1, <2>2 DEF Welcome, Leaving, Poll, GetFrameFails, FindGame, HandleMessage, ConfirmSub,
                      Unsubscribe
  <2>3. CASE Logout
    BY <2>3 DEF Welcome, Logout
  <2>4. CASE FindCommand
    <3>1. command' = hand.about
      <4>1. hand.receipt \in DOMAIN receiptToMsg /\ receiptToMsg[hand.receipt] = hand.about
        BY <2>4 DEF FindCommand, Inv, ReceiptFindsCommand, Arriving, MainFits
      <4> QED BY <2>4, <4>1 DEF FindCommand, Insert
    <3>2. main' = "logout" => hand.about = "DISCONNECT"
      BY <2>4, <3>1 DEF FindCommand
    <3>3. main' # "receipt" /\ UNCHANGED <<greeted, link, toClient, waitingForDisconnect>> /\ main = "receipt"
      BY <2>4 DEF FindCommand
    <3> QED BY <2>1, <3>2, <3>3 DEF Welcome, Leaving
  <2>5. CASE GetFrame
    <3>1. /\ \A i \in 1 .. Len(toClient') : \E j \in 1 .. Len(toClient) : toClient'[i] = toClient[j]
          /\ main' = "receipt" => \E j \in 1 .. Len(toClient) : hand' = toClient[j] /\ hand'.type = "RECEIPT"
      BY <2>5, GetFrameTakes
    <3>2. UNCHANGED <<link, waitingForDisconnect>> /\ Leaving' = Leaving
      BY <2>1, <2>5 DEF GetFrame, Leaving
    <3>3. Head(toClient) = toClient[1] /\ 1 \in 1 .. Len(toClient) /\ toClient' = Tail(toClient)
          /\ main' = Handler(Head(toClient).type) /\ toClient \in Seq(AnswerType)
      BY <2>5, TailElements DEF GetFrame, Inv, TypeOK
    <3>4. CASE greeted
      <4>1. main' # "logout"
        BY <3>3, <3>4 DEF Welcome, Handler
      <4> QED BY <2>1, <3>1, <3>2, <3>4, <4>1 DEF Welcome
    <3>5. CASE ~ greeted /\ greeted'
      <4>1. Head(toClient).type = "CONNECTED"
        BY <2>5, <3>5 DEF GetFrame
      <4>2. main' = "loop"
        BY <3>3, <4>1 DEF Handler
      <4>3. Len(toClient) \in 1 .. Len(toClient) /\ Len(toClient) \in Nat /\ Len(toClient) # 0
            /\ Len(toClient') = Len(toClient) - 1
        BY <3>3
      <4>4. Len(toClient) = 1 /\ key # "send"
        BY <3>5, <4>3 DEF Fresh
      <4>5. link = "up" => Len(toServer) = 0
        BY <3>5, <4>4 DEF Fresh
      <4>6. 1 .. Len(toClient') = {} /\ (link = "up" => 1 .. Len(toServer') = {})
        BY <2>1, <4>3, <4>4, <4>5
      <4> QED BY <2>1, <3>2, <4>2, <4>4, <4>6 DEF Welcome
    <3> QED BY <3>4, <3>5 DEF Welcome
  <2> QED BY <1>3, <2>2, <2>3, <2>4, <2>5 DEF Main
<1>4. CASE Serve
  <2>1. CASE greeted
    <3>1. PICK f : f = Head(toServer)
      OBVIOUS
    <3>2. /\ toServer \in Seq(FrameType) /\ toServer # <<>> /\ toServer' = Tail(toServer) /\ link = "up"
          /\ toClient \in Seq(AnswerType)
          /\ UNCHANGED <<mainVars, keyVars, greeted, waitingForDisconnect>>
      BY <1>4 DEF Serve, Inv, TypeOK
    <3>3. \A i \in 1 .. Len(toServer') : i + 1 \in 1 .. Len(toServer) /\ toServer'[i] = toServer[i + 1]
      BY <3>2, TailElements
    <3>4. \E a \in AnswerType :
            /\ toClient' = toClient \o <<a>> /\ a.type # "ERROR"
            /\ a.type = "RECEIPT" /\ a.about = "DISCONNECT" => Leaving
      <4>1. f \in FrameType /\ GameFits(f)
        BY <1>4, <2>1, <3>1, ServesWell
      <4>2. f.receipt \in Nat \cup {NULL} /\ (f.cmd \in {"SUBSCRIBE", "UNSUBSCRIBE", "SEND"} => f.game \in Games)
        BY <4>1 DEF FrameType, GameFits
      <4>3. CASE f.cmd \in {"SUBSCRIBE", "UNSUBSCRIBE"}
        <5>1. Answer("RECEIPT", f.receipt, f.game) \in AnswerType
              /\ Answer("RECEIPT", f.receipt, f.game).type = "RECEIPT"
              /\ Answer("RECEIPT", f.receipt, f.game).about = f.game
          BY <4>2, <4>3 DEF Answer, AnswerType
        <5>2. f.game # "DISCONNECT"
          BY <4>2, <4>3, NamesAssumption
        <5> QED BY <1>4, <2>1, <3>1, <4>3, <5>1, <5>2, ServesWell
      <4>4. CASE f.cmd = "SEND"
        <5>1. Answer("MESSAGE", NULL, f.game) \in AnswerType
              /\ Answer("MESSAGE", NULL, f.game).type = "MESSAGE"
          BY <4>2, <4>4 DEF Answer, AnswerType
        <5> QED BY <1>4, <2>1, <3>1, <4>4, <5>1, ServesWell
      <4>5. CASE f.cmd = "DISCONNECT"
        <5>1. Answer("RECEIPT", f.receipt, "DISCONNECT") \in AnswerType
              /\ Answer("RECEIPT", f.receipt, "DISCONNECT").type = "RECEIPT"
          BY <4>2, <4>5 DEF Answer, AnswerType
        <5> QED BY <1>4, <2>1, <3>1, <4>5, <5>1, ServesWell
      <4> QED BY <1>4, <2>1, <3>1, <4>3, <4>4, <4>5, ServesWell
    <3>5. PICK a \in AnswerType :
            /\ toClient' = toClient \o <<a>> /\ a.type # "ERROR"
            /\ a.type = "RECEIPT" /\ a.about = "DISCONNECT" => Leaving
      BY <3>4
    <3>6. \A i \in 1 .. Len(toClient') :
            toClient'[i] = a \/ (i \in 1 .. Len(toClient) /\ toClient'[i] = toClient[i])
      BY <3>2, <3>5, ConcatElements
    <3>7. Leaving' = Leaving
      BY <3>2 DEF Leaving
    <3> QED BY <2>1, <3>2, <3>3, <3>5, <3>6, <3>7 DEF Welcome
  <2> QED BY <1>4, <2>1 DEF Welcome, Serve
<1>5. CASE ServerVanishes
  BY <1>5 DEF Welcome, Leaving, ServerVanishes
<1>6. ASSUME NEW g \in Games, OtherReports(g) PROVE Welcome'
  <2>1. Answer("MESSAGE", NULL, g) \in AnswerType /\ Answer("MESSAGE", NULL, g).type = "MESSAGE"
        /\ toClient \in Seq(AnswerType)
    BY DEF Answer, AnswerType, Inv, TypeOK
  <2>2. toClient' = toClient \o <<Answer("MESSAGE", NULL, g)>> /\ link = "up" /\ link' = "up"
        /\ UNCHANGED <<mainVars, keyVars, toServer, greeted, waitingForDisconnect>>
    BY <1>6 DEF OtherReports, Reply
  <2>3. \A i \in 1 .. Len(toClient') :
          toClient'[i].type = "MESSAGE" \/ (i \in 1 .. Len(toClient) /\ toClient'[i] = toClient[i])
    BY <2>1, <2>2, ConcatElements
  <2> QED BY <2>2, <2>3 DEF Welcome, Leaving
<1> QED BY <1>1, <1>2, <1>3, <1>4, <1>5, <1>6 DEF Next

-----------------------------------------------------------------------------
(* What is known of a game that a step has nothing to do with.             *)
LEMMA SameStage ==
  ASSUME NEW g \in Games, Stage(g), ~ KeyOf(g)',
         g \in DOMAIN gameToSubID' <=> g \in DOMAIN gameToSubID,
         g \in DOMAIN gameToSubID => gameToSubID'[g] = gameToSubID[g], joined'[g] = joined[g],
         UNCHANGED <<awaiting, toServer, toClient, mainVars>>
  PROVE  Stage(g)'
<1> USE DEF mainVars
<1>1. g \notin awaiting' => AgreeOn(g)'
  BY DEF Stage, AgreeOn
<1>2. \A i \in 1 .. Len(toServer') : ServerOf(g, i)' => Asks(toServer[i])'
  BY DEF Stage, ServerOf, Asks, Follows
<1>3. \A i \in 1 .. Len(toClient') : ClientOf(g, i)' => AnsweredOf(g)'
  BY DEF Stage, ClientOf, AnsweredOf
<1>4. MainOf(g) => AnsweredOf(g)
  BY DEF Stage
<1>5. /\ MainOf(g)' => AnsweredOf(g)'
      /\ main' = "confirm" /\ command' = g => gameToSubID'[g].star
      /\ main' = "unsubscribe" /\ command' = g => ~ gameToSubID'[g].star
  BY <1>4 DEF Stage, MainOf, AnsweredOf
<1> QED BY <1>1, <1>2, <1>3, <1>5 DEF Stage

(* What is known of a game when the main thread is done with another.       *)
LEMMA SameElsewhere ==
  ASSUME NEW g \in Games, Stage(g), UNCHANGED <<key, frame, subscriptionID, toServer, toClient>>,
         g \in DOMAIN gameToSubID' <=> g \in DOMAIN gameToSubID,
         g \in DOMAIN gameToSubID => gameToSubID'[g] = gameToSubID[g], joined'[g] = joined[g],
         g \in awaiting' <=> g \in awaiting,
         MainOf(g)' => AnsweredOf(g)',
         main' = "confirm" /\ command' = g => gameToSubID'[g].star,
         main' = "unsubscribe" /\ command' = g => ~ gameToSubID'[g].star
  PROVE  Stage(g)'
<1>1. g \notin awaiting' => AgreeOn(g)'
  BY DEF Stage, AgreeOn
<1>2. \A i \in 1 .. Len(toServer') : ServerOf(g, i)' => Asks(toServer[i])'
  BY DEF Stage, ServerOf, Asks, Follows
<1>3. \A i \in 1 .. Len(toClient') : ClientOf(g, i)' => AnsweredOf(g)'
  BY DEF Stage, ClientOf, AnsweredOf
<1>4. KeyOf(g)' =>
        /\ key' = "subscribe" =>
             joined'[g] = NULL /\ g \notin DOMAIN gameToSubID' /\ frame'.sub = [star |-> FALSE, id |-> subscriptionID']
        /\ key' = "unsubscribe" => Follows(g)'
        /\ key' \in {"addMsg", "send"} => Asks(frame)'
  BY DEF Stage, KeyOf, Asks, Follows
<1> QED BY <1>1, <1>2, <1>3, <1>4 DEF Stage

(* A step of the keyboard thread that is no join and no exit.               *)
LEMMA QuietKeyboard ==
  ASSUME InSession, \A g \in Games : ~ KeyOf(g)',
         UNCHANGED <<gameToSubID, subscriptionID, joined, awaiting, toServer, toClient, mainVars>>
  PROVE  Ids' /\ \A g \in Games : Alone(g)' /\ Stage(g)'
<1> USE DEF mainVars
<1>1. Ids'
  BY DEF InSession, Ids
<1>2. ASSUME NEW g \in Games PROVE Alone(g)'
  BY DEF InSession, Alone, ServerOf, ClientOf, MainOf
<1>3. ASSUME NEW g \in Games PROVE Stage(g)'
  <2>1. Stage(g)
    BY DEF InSession
  <2> QED BY <2>1 DEF Stage, ServerOf, ClientOf, MainOf, AnsweredOf, Asks, AgreeOn, Follows
<1> QED BY <1>1, <1>2, <1>3

(* In the session: a line that is typed, of a game of which nothing is      *)
(* under way.                                                              *)
LEMMA SessionType ==
  ASSUME Inv, Agreement, Polite, Polite', Type, greeted', link' = "up"
  PROVE  InSession'
<1> USE DEF Agreement, maps, flags, mainVars, keyVars, socket, console
<1>1. /\ Polites /\ key = "prompt" /\ greeted
      /\ ~ (\E g \in Games : TypeJoin(g) \/ TypeExit(g)) => awaiting' = awaiting
      /\ UNCHANGED <<maps, flags, mainVars, waitingForDisconnect, gameToEvents, joined, socket>>
  BY PoliteType
<1>2. InSession
  BY <1>1 DEF Session
<1>3. Ids'
  BY <1>1, <1>2 DEF InSession, Ids
<1>4. \A g \in Games : ~ KeyOf(g)
  BY <1>1 DEF KeyOf
<1>5. CASE TypeLogout
  <2>1. key' = "addMsg" /\ frame'.cmd = "DISCONNECT" /\ awaiting' = awaiting
    BY <1>1, <1>5 DEF TypeLogout, TypeJoin, TypeExit, Frame
  <2>2. \A g \in Games : ~ KeyOf(g)'
    BY <2>1 DEF KeyOf, Commands
  <2>3. Reports'
    BY <1>1, <1>2, <2>1 DEF InSession, Reports, ServerOf
  <2> QED BY <1>1, <1>2, <2>1, <2>2, <2>3, QuietKeyboard DEF InSession
<1>6. ~ TypeLogin
  BY <1>1 DEF TypeLogin, Together
<1>7. ASSUME NEW g \in Games, TypeSummary(g) PROVE InSession'
  <2>1. key' = "summary" /\ awaiting' = awaiting
    BY <1>1, <1>7 DEF TypeSummary, TypeJoin, TypeExit
  <2>2. \A h \in Games : ~ KeyOf(h)'
    BY <2>1 DEF KeyOf
  <2>3. Reports'
    BY <1>1, <1>2, <2>1 DEF InSession, Reports, ServerOf
  <2> QED BY <1>1, <1>2, <2>1, <2>2, <2>3, QuietKeyboard DEF InSession
<1>8. ASSUME NEW g \in Games, TypeReport(g), Waited(g) PROVE InSession'
  <2>1. /\ key' = "report" /\ awaiting' = awaiting /\ frame'.cmd = "SEND" /\ frame'.game = g
        /\ g \in DOMAIN gameToSubID /\ g \notin awaiting
    BY <1>1, <1>8 DEF TypeReport, TypeJoin, TypeExit, Frame, Waited
  <2>2. \A h \in Games : ~ KeyOf(h)'
    BY <2>1 DEF KeyOf, Commands
  <2>3. joined[g] # NULL
    BY <1>2, <2>1 DEF InSession, Stage, AgreeOn
  <2>4. Reports'
    BY <1>1, <1>2, <2>1, <2>3 DEF InSession, Reports, ServerOf
  <2> QED BY <1>1, <1>2, <2>1, <2>2, <2>4, QuietKeyboard DEF InSession
<1>9. ASSUME NEW g \in Games, Waited(g), awaiting' = awaiting \cup {g},
             \/ TypeJoin(g) /\ g \notin DOMAIN gameToSubID
             \/ TypeExit(g)
      PROVE  InSession'
  <2>1. /\ key' \in {"subscribe", "unsubscribe"} /\ frame'.game = g /\ frame'.cmd \in Commands
        /\ key' = "subscribe" => g \notin DOMAIN gameToSubID /\ frame'.sub = [star |-> FALSE, id |-> subscriptionID]
        /\ key' = "unsubscribe" => g \in DOMAIN gameToSubID
    <3>1. CASE TypeJoin(g)
      <4>1. key' = "subscribe"
            /\ frame' = Frame("SUBSCRIBE", g, [star |-> FALSE, id |-> subscriptionID], ReceiptId)
        BY <3>1 DEF TypeJoin
      <4>2. g \notin DOMAIN gameToSubID
        BY <1>9, <4>1 DEF TypeExit
      <4> QED BY <4>1, <4>2 DEF Frame, Commands
    <3>2. CASE TypeExit(g)
      <4>1. key' = "unsubscribe" /\ frame' = Frame("UNSUBSCRIBE", g, Empty, NULL) /\ g \in DOMAIN gameToSubID
        BY <3>2 DEF TypeExit, SubByGame
      <4> QED BY <4>1 DEF Frame, Commands
    <3> QED BY <1>9, <3>1, <3>2
  <2>2. Reports'
    BY <1>1, <1>2, <2>1 DEF InSession, Reports, ServerOf
  <2>3. g \notin awaiting
    BY <1>9 DEF Waited
  <2>4. ASSUME NEW h \in Games PROVE Alone(h)'
    BY <1>1, <1>2, <1>4, <1>9, <2>1, <2>3 DEF InSession, Alone, ServerOf, ClientOf, MainOf, KeyOf
  <2>5. key' = "subscribe" => joined[g] = NULL
    BY <1>2, <2>1, <2>3 DEF InSession, Stage, AgreeOn
  <2>6. key' = "unsubscribe" => Follows(g)
    BY <1>2, <2>1, <2>3 DEF InSession, Stage, AgreeOn, Follows
  <2>7. ASSUME NEW h \in Games PROVE Stage(h)'
    <3>1. Stage(h)
      BY <1>2 DEF InSession
    <3>2. h \notin awaiting' => AgreeOn(h)'
      BY <1>1, <1>9, <3>1 DEF Stage, AgreeOn
    <3>3. KeyOf(h)' => h = g /\ key' \in {"subscribe", "unsubscribe"}
      BY <2>1 DEF KeyOf
    <3>4. key' = "unsubscribe" => Follows(g)'
      BY <1>1, <2>6 DEF Follows
    <3>5. \A i \in 1 .. Len(toServer') : ServerOf(h, i)' => Asks(toServer[i])'
      BY <1>1, <3>1 DEF Stage, ServerOf, Asks, Follows
    <3>6. \A i \in 1 .. Len(toClient') : ClientOf(h, i)' => AnsweredOf(h)'
      BY <1>1, <3>1 DEF Stage, ClientOf, AnsweredOf
    <3>7. /\ MainOf(h)' => AnsweredOf(h)'
          /\ main' = "confirm" /\ command' = h => gameToSubID'[h].star
          /\ main' = "unsubscribe" /\ command' = h => ~ gameToSubID'[h].star
      BY <1>1, <3>1 DEF Stage, MainOf, AnsweredOf
    <3> QED BY <1>1, <2>1, <2>5, <3>2, <3>3, <3>4, <3>5, <3>6, <3>7 DEF Stage
  <2> QED BY <1>3, <2>2, <2>4, <2>7 DEF InSession
<1> QED BY <1>1, <1>5, <1>6, <1>7, <1>8, <1>9 DEF Polites

(* A command goes its way.                                                  *)
LEMMA SessionKeyboard ==
  ASSUME Inv, Agreement, Polite, Polite', Keyboard, greeted', link' = "up"
  PROVE  InSession'
<1> USE DEF Agreement, maps, flags, mainVars, keyVars, socket, console
<1>1. /\ greeted /\ UNCHANGED <<mainVars, awaiting>> /\ connected
  BY DEF Keyboard, Together
<1>2. ~ Connect /\ ~ SetLogin
  BY <1>1 DEF Connect, SetLogin, Together
<1>3. UNCHANGED <<link, toClient, joined>>
  BY <1>2 DEF Keyboard, SetUsername, AddSubscription, BuildUnsubscribe, AddMsg,
                BuildSendFrames, Sent, SendFails, SetWaitingForDisconnect, Waits, WriteToFile
<1>4. InSession
  BY <1>1, <1>3 DEF Session
<1>5. CASE SetUsername \/ SetWaitingForDisconnect \/ Waits \/ WriteToFile
  <2>1. /\ UNCHANGED <<gameToSubID, subscriptionID, toServer>> /\ key' \in {"prompt", "wait"}
    BY <1>5 DEF SetUsername, SetWaitingForDisconnect, Waits, WriteToFile
  <2>2. \A g \in Games : ~ KeyOf(g)'
    BY <2>1 DEF KeyOf
  <2>3. Reports'
    BY <1>1, <1>3, <1>4, <2>1 DEF InSession, Reports, ServerOf
  <2> QED BY <1>1, <1>3, <1>4, <2>1, <2>2, <2>3, QuietKeyboard DEF InSession
<1>6. ~ SendFails
  BY <1>3 DEF SendFails
<1>7. CASE BuildSendFrames
  <2>1. /\ UNCHANGED <<gameToSubID, subscriptionID, toServer>> /\ key = "report" /\ key' = "send"
        /\ frame \in FrameType /\ frame.cmd = "SEND" /\ frame' = [frame EXCEPT !.signed = username]
    BY <1>7 DEF BuildSendFrames, Inv, KeyFits
  <2>2. frame'.cmd = "SEND" /\ frame'.game = frame.game
    BY <2>1 DEF FrameType
  <2>3. \A g \in Games : ~ KeyOf(g)'
    BY <2>2 DEF KeyOf, Commands
  <2>4. Reports'
    BY <1>1, <1>3, <1>4, <2>1, <2>2 DEF InSession, Reports, ServerOf
  <2> QED BY <1>1, <1>3, <1>4, <2>1, <2>3, <2>4, QuietKeyboard DEF InSession
<1>8. CASE AddMsg \/ BuildUnsubscribe
  <2>1. /\ UNCHANGED <<gameToSubID, subscriptionID, toServer>>
        /\ key \in {"addMsg", "unsubscribe"} /\ key' \in {"addMsg", "send"}
        /\ frame'.cmd = frame.cmd /\ frame'.game = frame.game /\ frame.cmd \in Asking
    BY <1>8 DEF AddMsg, BuildUnsubscribe, Frame, Asking, Inv, KeyFits
  <2>2. Reports'
    BY <1>1, <1>3, <1>4, <2>1 DEF InSession, Reports, ServerOf, Asking
  <2>3. Ids'
    BY <1>3, <1>4, <2>1 DEF InSession, Ids
  <2>4. \A g : KeyOf(g)' <=> KeyOf(g)
    BY <2>1 DEF KeyOf
  <2>5. ASSUME NEW g \in Games PROVE Alone(g)'
    BY <1>1, <1>3, <1>4, <2>1, <2>4 DEF InSession, Alone, ServerOf, ClientOf, MainOf
  <2>6. ASSUME NEW g \in Games, KeyOf(g) PROVE Asks(frame')
    <3>1. frame.game = g /\ Stage(g)
      BY <1>4, <2>6 DEF KeyOf, InSession
    <3>2. CASE AddMsg
      BY <2>6, <3>1, <3>2 DEF AddMsg, Stage
    <3>3. CASE BuildUnsubscribe
      <4>1. frame.cmd = "UNSUBSCRIBE" /\ Follows(g)
        BY <2>6, <3>1, <3>3 DEF BuildUnsubscribe, Stage, Inv, KeyFits
      <4>2. frame' = Frame("UNSUBSCRIBE", g, gameToSubID[g], ReceiptId)
        BY <3>1, <3>3, <4>1 DEF BuildUnsubscribe, SubByGame, Follows
      <4> QED BY <4>1, <4>2 DEF Asks, Frame
    <3> QED BY <1>8, <3>2, <3>3
  <2>7. ASSUME NEW g \in Games PROVE Stage(g)'
    <3>1. Stage(g)
      BY <1>4 DEF InSession
    <3>2. KeyOf(g)' => key' \in {"addMsg", "send"} /\ Asks(frame)'
      BY <1>3, <2>1, <2>4, <2>6 DEF Asks, Follows
    <3> QED BY <1>1, <1>3, <2>1, <3>1, <3>2
            DEF Stage, ServerOf, ClientOf, MainOf, AnsweredOf, Asks, AgreeOn, Follows
  <2> QED BY <2>2, <2>3, <2>5, <2>7 DEF InSession
<1>9. CASE AddSubscription
  <2> DEFINE g == frame.game
  <2>1. /\ g \in Games /\ frame.cmd = "SUBSCRIBE" /\ key = "subscribe" /\ key' = "addMsg"
        /\ UNCHANGED <<frame, toServer>> /\ KeyOf(g) /\ subscriptionID \in Nat
    BY <1>9 DEF AddSubscription, Inv, KeyFits, GameFits, KeyOf, Commands, TypeOK
  <2>2. /\ g \in awaiting /\ ~ MainOf(g) /\ joined[g] = NULL /\ g \notin DOMAIN gameToSubID
        /\ \A i \in 1 .. Len(toServer) : ~ ServerOf(g, i)
        /\ \A i \in 1 .. Len(toClient) : ~ ClientOf(g, i)
        /\ frame.sub = [star |-> FALSE, id |-> subscriptionID]
    BY <1>4, <2>1 DEF InSession, Alone, Stage
  <2>3. /\ DOMAIN gameToSubID' = DOMAIN gameToSubID \cup {g}
        /\ \A h \in DOMAIN gameToSubID : gameToSubID'[h] = gameToSubID[h]
        /\ gameToSubID'[g] = [star |-> TRUE, id |-> subscriptionID]
        /\ subscriptionID' = subscriptionID + 1
    BY <1>9, <2>2 DEF AddSubscription, Insert
  <2>4. frame.sub.id = subscriptionID
    BY <2>2
  <2> HIDE DEF g
  <2>5. Ids'
    <3>1. Ids
      BY <1>4 DEF InSession
    <3>2. gameToSubID'[g].id = subscriptionID
      BY <2>3
    <3>3. \A h \in DOMAIN gameToSubID : gameToSubID[h].id \in 0 .. subscriptionID - 1
      BY <3>1 DEF Ids
    <3>4. \A h \in DOMAIN gameToSubID : gameToSubID'[h].id \in 0 .. subscriptionID /\ gameToSubID'[h].id # subscriptionID
      BY <2>1, <2>3, <3>3
    <3>5. \A h \in DOMAIN gameToSubID' : gameToSubID'[h].id \in 0 .. subscriptionID' - 1
      BY <2>1, <2>3, <3>2, <3>4
    <3>6. \A h, k \in DOMAIN gameToSubID' : gameToSubID'[h].id = gameToSubID'[k].id => h = k
      BY <2>3, <3>1, <3>2, <3>4 DEF Ids
    <3>7. \A h \in Games : joined'[h] # NULL =>
            h \in DOMAIN gameToSubID' /\ gameToSubID'[h].id = joined'[h]
      BY <1>3, <2>3, <3>1 DEF Ids
    <3> QED BY <3>5, <3>6, <3>7 DEF Ids
  <2>6. Reports'
    BY <1>1, <1>3, <1>4, <2>1 DEF InSession, Reports, ServerOf
  <2>7. \A h \in Games : KeyOf(h)' <=> h = g
    BY <2>1 DEF KeyOf, Commands, g
  <2>8. ASSUME NEW h \in Games PROVE Alone(h)'
    <3>1. Alone(h)
      BY <1>4 DEF InSession
    <3> QED BY <1>1, <1>3, <2>1, <2>2, <2>7, <3>1 DEF Alone, ServerOf, ClientOf, MainOf
  <2>9. ASSUME NEW h \in Games PROVE Stage(h)'
    <3>1. Stage(h)
      BY <1>4 DEF InSession
    <3>2. CASE h = g
      <4>1. Asks(frame)'
        BY <1>3, <2>1, <2>2, <2>3, <2>4 DEF Asks, g
      <4>2. /\ h \in awaiting' /\ key' = "addMsg" /\ ~ MainOf(h)'
            /\ \A i \in 1 .. Len(toServer') : ~ ServerOf(h, i)'
            /\ \A i \in 1 .. Len(toClient') : ~ ClientOf(h, i)'
        BY <1>1, <1>3, <2>1, <2>2, <3>2 DEF MainOf, ServerOf, ClientOf
      <4>3. /\ ~ (main' = "confirm" /\ command' = h)
            /\ ~ (main' = "unsubscribe" /\ command' = h)
        BY <4>2 DEF MainOf
      <4> QED BY <4>1, <4>2, <4>3 DEF Stage
    <3>3. CASE h # g
      <4>1. (h \in DOMAIN gameToSubID' <=> h \in DOMAIN gameToSubID) /\ ~ KeyOf(h)'
            /\ (h \in DOMAIN gameToSubID => gameToSubID'[h] = gameToSubID[h]) /\ joined'[h] = joined[h]
        BY <1>3, <2>3, <2>7, <3>3
      <4> QED BY <1>1, <1>3, <2>1, <3>1, <4>1, SameStage
    <3> QED BY <3>2, <3>3
  <2> QED BY <2>5, <2>6, <2>8, <2>9 DEF InSession
<1>10. CASE Sent
  <2>1. /\ key = "send" /\ toServer' = Append(toServer, frame) /\ toServer \in Seq(FrameType)
        /\ frame \in FrameType /\ GameFits(frame) /\ UNCHANGED <<gameToSubID, subscriptionID>>
        /\ \/ frame.cmd = "SEND" /\ UNCHANGED frame /\ key' = "send"
           \/ key' \in {"setUsername", "setWaiting", "prompt"}
    BY <1>3, <1>10 DEF Sent, Together, Inv, KeyFits, TypeOK
  <2>2. /\ Len(toServer') = Len(toServer) + 1 /\ Len(toServer) \in Nat /\ toServer'[Len(toServer) + 1] = frame
        /\ \A i \in 1 .. Len(toServer) : toServer'[i] = toServer[i]
    BY <2>1
  <2>3. \A g \in Games : ~ KeyOf(g)'
    BY <2>1 DEF KeyOf, Commands
  <2>4. Ids'
    BY <1>3, <1>4, <2>1 DEF InSession, Ids
  <2>5. \A i \in 1 .. Len(toServer') :
          i = Len(toServer) + 1 \/ (i \in 1 .. Len(toServer) /\ toServer'[i] = toServer[i])
    BY <2>2
  <2>6. ASSUME NEW g \in Games PROVE Alone(g)'
    <3>1. Alone(g) /\ (KeyOf(g) <=> frame.cmd \in Commands /\ frame.game = g)
      BY <1>4, <2>1 DEF InSession, KeyOf
    <3>2. \A i \in 1 .. Len(toServer) : ServerOf(g, i)' <=> ServerOf(g, i)
      BY <2>2 DEF ServerOf
    <3>3. \A i : i = Len(toServer) + 1 => (ServerOf(g, i)' <=> KeyOf(g))
      BY <2>2, <3>1 DEF ServerOf
    <3> QED BY <1>1, <1>3, <2>3, <2>5, <3>1, <3>2, <3>3 DEF Alone, ClientOf, MainOf
  <2>7. ASSUME NEW g \in Games PROVE Stage(g)'
    <3>1. Stage(g)
      BY <1>4 DEF InSession
    <3>2. ASSUME NEW i \in 1 .. Len(toServer'), ServerOf(g, i)' PROVE Asks(toServer'[i])
      <4>1. CASE i \in 1 .. Len(toServer)
        BY <2>2, <3>1, <3>2, <4>1 DEF Stage, ServerOf
      <4>2. CASE i = Len(toServer) + 1
        BY <2>1, <2>2, <3>1, <3>2, <4>2 DEF Stage, ServerOf, KeyOf
      <4> QED BY <2>5, <4>1, <4>2
    <3>3. \A i \in 1 .. Len(toServer') : ServerOf(g, i)' => Asks(toServer[i])'
      BY <1>3, <2>1, <3>2 DEF Asks, Follows
    <3> QED BY <1>1, <1>3, <2>1, <2>3, <3>1, <3>3 DEF Stage, ClientOf, MainOf, AnsweredOf, AgreeOn
  <2>8. Reports'
    <3>1. key' \in {"report", "send"} /\ frame'.cmd = "SEND" =>
            frame'.game \notin awaiting' /\ joined'[frame'.game] # NULL
      BY <1>1, <1>3, <1>4, <2>1 DEF InSession, Reports
    <3>2. ASSUME NEW i \in 1 .. Len(toServer'), toServer'[i].cmd = "SEND"
          PROVE  /\ joined'[toServer'[i].game] # NULL
                 /\ \A j \in 1 .. Len(toServer') : ServerOf(toServer[i].game, j)' => i < j
      <4>1. CASE i \in 1 .. Len(toServer)
        <5>1. /\ toServer[i] = toServer'[i] /\ joined[toServer[i].game] # NULL
              /\ \A j \in 1 .. Len(toServer) : ServerOf(toServer[i].game, j) => i < j
          BY <1>4, <2>2, <3>2, <4>1 DEF InSession, Reports
        <5>2. i < Len(toServer) + 1
          BY <2>2, <4>1
        <5>3. \A j \in 1 .. Len(toServer) : ServerOf(toServer[i].game, j)' => ServerOf(toServer[i].game, j)
          BY <2>2, <5>1 DEF ServerOf
        <5> QED BY <1>3, <2>5, <5>1, <5>2, <5>3
      <4>2. CASE i = Len(toServer) + 1
        <5>1. toServer'[i] = frame /\ frame.cmd = "SEND" /\ frame.game \in Games
          BY <2>1, <2>2, <3>2, <4>2 DEF GameFits
        <5>2. joined[frame.game] # NULL /\ frame.game \notin awaiting
          BY <1>4, <2>1, <5>1 DEF InSession, Reports
        <5>3. \A j \in 1 .. Len(toServer) : ~ ServerOf(frame.game, j)
          BY <1>4, <5>1, <5>2 DEF InSession, Alone
        <5>4. \A j \in 1 .. Len(toServer') : ~ ServerOf(toServer[i].game, j)'
          BY <2>2, <2>5, <5>1, <5>3 DEF ServerOf, Commands
        <5> QED BY <1>3, <5>1, <5>2, <5>4
      <4> QED BY <2>5, <4>1, <4>2
    <3> QED BY <3>1, <3>2 DEF Reports
  <2> QED BY <2>4, <2>6, <2>7, <2>8 DEF InSession
<1> QED BY <1>2, <1>5, <1>6, <1>7, <1>8, <1>9, <1>10 DEF Keyboard

(* The answer comes home.                                                   *)
LEMMA SessionMain ==
  ASSUME Inv, Agreement, Polite, Polite', Main, greeted', link' = "up"
  PROVE  InSession'
<1> USE DEF Agreement, maps, flags, mainVars, keyVars, socket, console
<1>1. UNCHANGED <<key, frame, toServer, joined>>
  BY DEF Main
<1>2. ~ Logout /\ ~ GetFrameFails
  BY DEF Logout, GetFrameFails
<1>3. link = "up"
  BY <1>2 DEF Main, Poll, GetFrame, FindCommand, FindGame, ConfirmSub, Unsubscribe, HandleMessage
<1>4. \A g : KeyOf(g)' <=> KeyOf(g)
  BY <1>1 DEF KeyOf
<1>5. ASSUME greeted, UNCHANGED <<subscriptionID, awaiting, toClient>>,
             DOMAIN gameToSubID' = DOMAIN gameToSubID,
             \A g \in DOMAIN gameToSubID : gameToSubID'[g] = gameToSubID[g],
             \A g \in Games : MainOf(g)' => MainOf(g),
             \A g \in Games :
               /\ main' = "confirm" /\ command' = g => gameToSubID[g].star
               /\ main' = "unsubscribe" /\ command' = g => ~ gameToSubID[g].star
      PROVE  InSession'
  <2>1. InSession
    BY <1>3, <1>5 DEF Session
  <2>2. Ids'
    BY <1>1, <1>5, <2>1 DEF InSession, Ids
  <2>3. Reports'
    BY <1>1, <1>5, <2>1 DEF InSession, Reports, ServerOf
  <2>4. ASSUME NEW g \in Games PROVE Alone(g)'
    BY <1>1, <1>4, <1>5, <2>1 DEF InSession, Alone, ServerOf, ClientOf
  <2>5. ASSUME NEW g \in Games PROVE Stage(g)'
    <3>1. Stage(g)
      BY <2>1 DEF InSession
    <3>2. MainOf(g)' => AnsweredOf(g)'
      BY <1>1, <1>5, <3>1 DEF Stage, AnsweredOf
    <3>3. /\ main' = "confirm" /\ command' = g => gameToSubID'[g].star
          /\ main' = "unsubscribe" /\ command' = g => ~ gameToSubID'[g].star
      BY <1>5, <3>2 DEF MainOf, AnsweredOf
    <3> QED BY <1>1, <1>5, <3>1, <3>2, <3>3, SameElsewhere
  <2> QED BY <2>2, <2>3, <2>4, <2>5 DEF InSession
<1>6. CASE Poll \/ HandleMessage
  <2>1. \A g \in Games : ~ MainOf(g)'
    BY <1>6 DEF Poll, HandleMessage, MainOf
  <2> QED BY <1>5, <1>6, <2>1 DEF Poll, HandleMessage
<1>7. CASE FindCommand
  <2>1. hand.receipt \in DOMAIN receiptToMsg /\ receiptToMsg[hand.receipt] = hand.about
    BY <1>7 DEF FindCommand, Inv, ReceiptFindsCommand, Arriving, MainFits
  <2>2. command' = hand.about /\ main = "receipt" /\ main' \in {"logout", "game"}
    BY <1>7, <2>1 DEF FindCommand, Insert
  <2>3. \A g \in Games : MainOf(g)' => MainOf(g)
    BY <2>2 DEF MainOf
  <2> QED BY <1>5, <1>7, <2>2, <2>3 DEF FindCommand
<1>8. CASE FindGame
  <2>1. greeted /\ InSession /\ command \in Games /\ MainOf(command)
    BY <1>3, <1>8 DEF Session, FindGame, Inv, MainFits, MainOf
  <2>2. AnsweredOf(command)
    BY <2>1 DEF InSession, Stage
  <2>3. DOMAIN gameToSubID' = DOMAIN gameToSubID /\ \A h \in DOMAIN gameToSubID : gameToSubID'[h] = gameToSubID[h]
    BY <1>8, <2>2 DEF FindGame, Insert, AnsweredOf
  <2>4. /\ UNCHANGED <<command, subscriptionID, awaiting, toClient>>
        /\ main' = IF gameToSubID[command].star THEN "confirm" ELSE "unsubscribe"
    BY <1>8, <2>2, <2>3 DEF FindGame, AnsweredOf
  <2>5. \A g \in Games : MainOf(g)' => MainOf(g)
    BY <1>8, <2>4 DEF MainOf, FindGame
  <2> QED BY <1>5, <2>1, <2>3, <2>4, <2>5
<1>9. CASE ConfirmSub \/ Unsubscribe
  <2>0. PICK g \in Games : g = command
    BY <1>9 DEF ConfirmSub, Unsubscribe, Inv, MainFits
  <2>1. /\ greeted /\ InSession /\ g \in Games /\ MainOf(g)
        /\ awaiting' = awaiting \ {g} /\ main' = "loop" /\ UNCHANGED <<toClient, subscriptionID>>
    BY <1>3, <1>9, <2>0 DEF Session, ConfirmSub, Unsubscribe, Inv, MainFits, MainOf
  <2>2. /\ Alone(g) /\ AnsweredOf(g)
        /\ main = "confirm" => gameToSubID[g].star
        /\ main = "unsubscribe" => ~ gameToSubID[g].star
    BY <2>0, <2>1 DEF InSession, Stage
  <2>3. /\ ~ KeyOf(g)
        /\ \A i \in 1 .. Len(toServer) : ~ ServerOf(g, i)
        /\ \A i \in 1 .. Len(toClient) : ~ ClientOf(g, i)
    BY <2>1, <2>2 DEF Alone
  <2>4. \A h \in Games : ~ MainOf(h)'
    BY <2>1 DEF MainOf
  <2>5. /\ AgreeOn(g)'
        /\ \A h \in DOMAIN gameToSubID' : h \in DOMAIN gameToSubID /\ gameToSubID'[h].id = gameToSubID[h].id
        /\ \A h \in DOMAIN gameToSubID : h # g => h \in DOMAIN gameToSubID' /\ gameToSubID'[h] = gameToSubID[h]
        /\ joined[g] = NULL \/ g \in DOMAIN gameToSubID'
    <3>1. CASE ConfirmSub
      <4>1. main = "confirm" /\ gameToSubID' = [gameToSubID EXCEPT ![g].star = FALSE]
        BY <2>0, <3>1 DEF ConfirmSub
      <4>2. /\ g \in DOMAIN gameToSubID /\ gameToSubID[g] \in [star : BOOLEAN, id : Nat \cup {NULL}]
            /\ joined[g] # NULL /\ gameToSubID[g].id = joined[g]
        BY <2>2, <4>1 DEF AnsweredOf, Inv, TypeOK
      <4>3. /\ DOMAIN gameToSubID' = DOMAIN gameToSubID
            /\ \A h \in DOMAIN gameToSubID : h # g => gameToSubID'[h] = gameToSubID[h]
            /\ gameToSubID'[g] = [gameToSubID[g] EXCEPT !.star = FALSE]
        BY <4>1, <4>2
      <4>4. gameToSubID'[g] = [star |-> FALSE, id |-> joined[g]] /\ gameToSubID'[g].id = joined[g]
        BY <4>2, <4>3
      <4>5. AgreeOn(g)'
        BY <1>1, <2>1, <4>2, <4>3, <4>4, <3>1 DEF AgreeOn, ConfirmSub
      <4> QED BY <4>2, <4>3, <4>4, <4>5
    <3>2. CASE Unsubscribe
      <4>1. main = "unsubscribe" /\ gameToSubID' = Erase(gameToSubID, g)
        BY <2>0, <3>2 DEF Unsubscribe
      <4>2. joined[g] = NULL
        BY <2>2, <4>1 DEF AnsweredOf
      <4>3. /\ DOMAIN gameToSubID' = DOMAIN gameToSubID \ {g}
            /\ \A h \in DOMAIN gameToSubID' : gameToSubID'[h] = gameToSubID[h]
        BY <4>1 DEF Erase
      <4> QED BY <4>2, <4>3, <1>1, <3>2 DEF AgreeOn, Unsubscribe
    <3> QED BY <1>9, <3>1, <3>2
  <2>6. Ids'
    <3>1. Ids
      BY <2>1 DEF InSession
    <3>2. \A h \in Games : joined[h] # NULL => h \in DOMAIN gameToSubID'
      BY <2>5, <3>1 DEF Ids
    <3> QED BY <1>1, <2>1, <2>5, <3>1, <3>2 DEF Ids
  <2>7. Reports'
    BY <1>1, <2>1 DEF InSession, Reports, ServerOf
  <2>8. ASSUME NEW h \in Games PROVE Alone(h)'
    <3>1. Alone(h)
      BY <2>1 DEF InSession
    <3> QED BY <1>1, <1>4, <2>1, <2>3, <2>4, <3>1 DEF Alone, ServerOf, ClientOf
  <2>9. ASSUME NEW h \in Games PROVE Stage(h)'
    <3>1. Stage(h)
      BY <2>1 DEF InSession
    <3>2. /\ ~ (main' = "confirm" /\ command' = h)
          /\ ~ (main' = "unsubscribe" /\ command' = h)
      BY <2>1
    <3>3. CASE h = g
      <4>1. /\ AgreeOn(h)' /\ ~ KeyOf(h)' /\ ~ MainOf(h)'
            /\ \A i \in 1 .. Len(toServer') : ~ ServerOf(h, i)'
            /\ \A i \in 1 .. Len(toClient') : ~ ClientOf(h, i)'
        BY <1>1, <1>4, <2>1, <2>3, <2>4, <2>5, <3>3 DEF ServerOf, ClientOf, AgreeOn
      <4> QED BY <3>2, <4>1 DEF Stage
    <3>4. CASE h # g
      <4>1. /\ h \in DOMAIN gameToSubID' <=> h \in DOMAIN gameToSubID
            /\ h \in DOMAIN gameToSubID => gameToSubID'[h] = gameToSubID[h]
            /\ (h \in awaiting' <=> h \in awaiting) /\ joined'[h] = joined[h]
        BY <1>1, <2>1, <2>5, <3>4
      <4> QED BY <1>1, <2>1, <2>4, <3>1, <3>2, <4>1, SameElsewhere
    <3> QED BY <3>3, <3>4
  <2> QED BY <2>6, <2>7, <2>8, <2>9 DEF InSession
<1>10. CASE GetFrame /\ greeted
  <2>1. /\ InSession /\ UNCHANGED <<gameToSubID, subscriptionID, awaiting>> /\ main = "reading"
        /\ toClient \in Seq(AnswerType) /\ toClient # <<>> /\ toClient' = Tail(toClient)
        /\ main' = Handler(Head(toClient).type)
        /\ hand' = IF main' = "loop" THEN NULL ELSE Head(toClient)
    BY <1>3, <1>10 DEF Session, GetFrame, Inv, TypeOK
  <2>2. /\ Head(toClient) = toClient[1] /\ 1 \in 1 .. Len(toClient)
        /\ \A i \in 1 .. Len(toClient') :
             i + 1 \in 1 .. Len(toClient) /\ i + 1 # 1 /\ toClient'[i] = toClient[i + 1]
    BY <2>1, TailElements
  <2>3. main' = "receipt" => hand' = toClient[1] /\ toClient[1].type = "RECEIPT"
    BY <2>1, <2>2 DEF Handler
  <2>4. main' \notin {"game", "confirm", "unsubscribe"}
    BY <2>1 DEF Handler
  <2>5. \A g \in Games : MainOf(g)' => ClientOf(g, 1)
    BY <2>3, <2>4 DEF MainOf, ClientOf
  <2>6. \A g \in Games : \A i \in 1 .. Len(toClient') : ClientOf(g, i)' => ClientOf(g, i + 1)
    BY <2>2 DEF ClientOf
  <2>7. Ids' /\ Reports'
    BY <1>1, <2>1 DEF InSession, Ids, Reports, ServerOf
  <2>8. ASSUME NEW g \in Games PROVE Alone(g)'
    <3>1. Alone(g)
      BY <2>1 DEF InSession
    <3>2. KeyOf(g)' =>
            /\ g \in awaiting' /\ ~ MainOf(g)'
            /\ \A i \in 1 .. Len(toServer') : ~ ServerOf(g, i)'
            /\ \A i \in 1 .. Len(toClient') : ~ ClientOf(g, i)'
      BY <1>1, <1>4, <2>1, <2>2, <2>5, <2>6, <3>1 DEF Alone, ServerOf
    <3>3. \A i \in 1 .. Len(toServer') : ServerOf(g, i)' =>
            /\ g \in awaiting' /\ ~ MainOf(g)'
            /\ \A j \in 1 .. Len(toServer') : ServerOf(g, j)' => j = i
            /\ \A j \in 1 .. Len(toClient') : ~ ClientOf(g, j)'
      BY <1>1, <2>1, <2>2, <2>5, <2>6, <3>1 DEF Alone, ServerOf
    <3>4. ASSUME NEW i \in 1 .. Len(toClient'), ClientOf(g, i)'
          PROVE  /\ g \in awaiting' /\ ~ MainOf(g)'
                 /\ \A j \in 1 .. Len(toClient') : ClientOf(g, j)' => j = i
      <4>1. i + 1 \in 1 .. Len(toClient) /\ ClientOf(g, i + 1)
        BY <2>2, <2>6, <3>4
      <4>2. g \in awaiting /\ \A j \in 1 .. Len(toClient) : ClientOf(g, j) => j = i + 1
        BY <3>1, <4>1 DEF Alone
      <4>3. ~ ClientOf(g, 1)
        BY <2>2, <3>4, <4>2
      <4>4. \A j \in 1 .. Len(toClient') : ClientOf(g, j)' => j + 1 = i + 1
        BY <2>2, <2>6, <4>2
      <4> QED BY <2>1, <2>5, <4>2, <4>3, <4>4
    <3>5. MainOf(g)' => g \in awaiting'
      BY <2>1, <2>2, <2>5, <3>1 DEF Alone
    <3> QED BY <3>2, <3>3, <3>4, <3>5 DEF Alone
  <2>9. ASSUME NEW g \in Games PROVE Stage(g)'
    <3>1. Stage(g)
      BY <2>1 DEF InSession
    <3>2. AnsweredOf(g)' <=> AnsweredOf(g)
      BY <1>1, <2>1 DEF AnsweredOf
    <3>3. \A i \in 1 .. Len(toClient') : ClientOf(g, i)' => AnsweredOf(g)'
      BY <2>2, <2>6, <3>1, <3>2 DEF Stage
    <3>4. MainOf(g)' => AnsweredOf(g)'
      BY <2>2, <2>5, <3>1, <3>2 DEF Stage
    <3>5. KeyOf(g)' =>
            /\ key' = "subscribe" =>
                 joined'[g] = NULL /\ g \notin DOMAIN gameToSubID' /\ frame'.sub = [star |-> FALSE, id |-> subscriptionID']
            /\ key' = "unsubscribe" => Follows(g)'
            /\ key' \in {"addMsg", "send"} => Asks(frame)'
      BY <1>1, <1>4, <2>1, <3>1 DEF Stage, Asks, Follows
    <3>6. \A i \in 1 .. Len(toServer') : ServerOf(g, i)' => Asks(toServer[i])'
      BY <1>1, <2>1, <3>1 DEF Stage, ServerOf, Asks, Follows
    <3>7. g \notin awaiting' => AgreeOn(g)'
      BY <1>1, <2>1, <3>1 DEF Stage, AgreeOn
    <3> QED BY <2>4, <3>3, <3>4, <3>5, <3>6, <3>7 DEF Stage
  <2> QED BY <2>7, <2>8, <2>9 DEF InSession
<1>11. CASE GetFrame /\ ~ greeted
  <2>1. /\ toClient \in Seq(AnswerType) /\ toClient # <<>> /\ toClient' = Tail(toClient)
        /\ main' = Handler(Head(toClient).type) /\ Head(toClient).type = "CONNECTED"
        /\ UNCHANGED <<gameToSubID, subscriptionID, awaiting>> /\ joined \in [Games -> Nat \cup {NULL}]
    BY <1>11 DEF GetFrame, Inv, TypeOK
  <2>2. main' = "loop"
    BY <2>1 DEF Handler
  <2>3. Len(toClient) \in 1 .. Len(toClient) /\ Len(toClient) \in Nat /\ Len(toClient) # 0
        /\ Len(toClient') = Len(toClient) - 1
    BY <2>1
  <2>4. /\ Len(toClient) = 1 /\ key \notin {"send", "subscribe", "unsubscribe", "addMsg", "report"} /\ Len(toServer) = 0
        /\ gameToSubID = EmptyMap /\ awaiting = {} /\ \A g \in Games : joined[g] = NULL
    BY <1>3, <1>11, <2>3 DEF Fresh
  <2>5. 1 .. Len(toClient') = {} /\ 1 .. Len(toServer') = {} /\ DOMAIN gameToSubID' = {}
    BY <1>1, <2>1, <2>3, <2>4, EmptyMapIsEmpty
  <2>6. \A g \in Games : ~ KeyOf(g)' /\ ~ MainOf(g)'
    BY <1>1, <2>2, <2>4 DEF KeyOf, MainOf
  <2>7. Ids' /\ Reports'
    BY <1>1, <2>4, <2>5 DEF Ids, Reports
  <2>8. ASSUME NEW g \in Games PROVE Alone(g)' /\ Stage(g)'
    <3>1. AgreeOn(g)'
      BY <1>1, <2>4, <2>5 DEF AgreeOn
    <3> QED BY <2>2, <2>5, <2>6, <3>1 DEF Alone, Stage
  <2> QED BY <2>7, <2>8 DEF InSession
<1> QED BY <1>2, <1>6, <1>7, <1>8, <1>9, <1>10, <1>11 DEF Main

(* What the server does with a command, and with a report.                  *)
LEMMA SessionServe ==
  ASSUME Inv, Agreement, Polite, Polite', Serve, greeted', link' = "up"
  PROVE  InSession'
<1> USE DEF Agreement, maps, flags, mainVars, keyVars, socket, console
<1>1. PICK f : f = Head(toServer)
  OBVIOUS
<1>2. /\ greeted /\ link = "up" /\ toServer' = Tail(toServer)
      /\ toServer \in Seq(FrameType) /\ toServer # <<>> /\ toClient \in Seq(AnswerType)
      /\ UNCHANGED <<gameToSubID, subscriptionID, mainVars, keyVars, awaiting>>
  BY DEF Serve, Inv, TypeOK
<1>3. InSession
  BY <1>2 DEF Session
<1>4. /\ f \in FrameType /\ GameFits(f) /\ 1 \in 1 .. Len(toServer) /\ f = toServer[1]
      /\ \A i \in 1 .. Len(toServer') :
           i + 1 \in 1 .. Len(toServer) /\ i + 1 # 1 /\ toServer'[i] = toServer[i + 1]
      /\ joined \in [Games -> Nat \cup {NULL}]
  <2>1. f \in FrameType /\ GameFits(f) /\ 1 \in 1 .. Len(toServer) /\ f = toServer[1]
    BY <1>1, <1>2, ServesWell
  <2>2. \A i \in 1 .. Len(toServer') : i + 1 \in 1 .. Len(toServer) /\ toServer'[i] = toServer[i + 1]
    BY <1>2, TailElements
  <2>3. \A i \in 1 .. Len(toServer') : i + 1 # 1
    OBVIOUS
  <2> QED BY <2>1, <2>2, <2>3 DEF Inv, TypeOK
<1>5. f.cmd \in {"SUBSCRIBE", "UNSUBSCRIBE", "SEND"} /\ f.game \in Games
  BY <1>1, <1>2, <1>4, ServesWell DEF GameFits
<1>6. PICK a \in AnswerType :
        /\ toClient' = toClient \o <<a>>
        /\ f.cmd \in Commands => a.type = "RECEIPT" /\ a.about = f.game
        /\ f.cmd = "SEND" => a.type = "MESSAGE"
  <2>1. f.receipt \in Nat \cup {NULL}
    BY <1>4 DEF FrameType
  <2>2. Answer("RECEIPT", f.receipt, f.game) \in AnswerType /\ Answer("MESSAGE", NULL, f.game) \in AnswerType
    BY <1>5, <2>1 DEF Answer, AnswerType
  <2>3. /\ f.cmd \in Commands => toClient' = toClient \o <<Answer("RECEIPT", f.receipt, f.game)>>
        /\ f.cmd = "SEND" => toClient' = toClient \o <<Answer("MESSAGE", NULL, f.game)>>
    BY <1>1, <1>2, ServesWell DEF Commands
  <2>4. /\ Answer("RECEIPT", f.receipt, f.game).type = "RECEIPT"
        /\ Answer("RECEIPT", f.receipt, f.game).about = f.game
        /\ Answer("MESSAGE", NULL, f.game).type = "MESSAGE"
    BY DEF Answer
  <2>5. f.cmd \in Commands \/ f.cmd = "SEND"
    BY <1>5 DEF Commands
  <2>6. f.cmd \in Commands => f.cmd # "SEND"
    BY DEF Commands
  <2> QED BY <2>2, <2>3, <2>4, <2>5, <2>6
<1>7. \A g : KeyOf(g)' = KeyOf(g) /\ MainOf(g)' = MainOf(g)
  BY <1>2 DEF KeyOf, MainOf
<1>8. \A g : \A i \in 1 .. Len(toServer') : ServerOf(g, i)' => ServerOf(g, i + 1)
  BY <1>4 DEF ServerOf
<1>9. \A g \in Games : \A i \in 1 .. Len(toClient') : ClientOf(g, i)' =>
        \/ i \in 1 .. Len(toClient) /\ ClientOf(g, i)
        \/ i = Len(toClient) + 1 /\ f.cmd \in Commands /\ g = f.game
  <2>1. /\ Len(toClient') = Len(toClient) + 1 /\ Len(toClient) \in Nat /\ toClient'[Len(toClient) + 1] = a
        /\ \A i \in 1 .. Len(toClient) : toClient'[i] = toClient[i]
    BY <1>2, <1>6
  <2>2. \A i \in 1 .. Len(toClient') : i \in 1 .. Len(toClient) \/ i = Len(toClient) + 1
    BY <2>1
  <2> QED BY <1>5, <1>6, <2>1, <2>2 DEF ClientOf, Commands
<1>10. f.cmd \in Commands => ServerOf(f.game, 1) /\ Asks(f)
  <2>1. f.cmd \in Commands => ServerOf(f.game, 1)
    BY <1>4 DEF ServerOf
  <2> QED BY <1>3, <1>4, <1>5, <2>1 DEF InSession, Stage
<1>11. ASSUME NEW g \in Games PROVE Alone(g)'
  <2>1. Alone(g)
    BY <1>3 DEF InSession
  <2>2. CASE f.cmd \in Commands /\ g = f.game
    <3>1. /\ g \in awaiting /\ ~ MainOf(g) /\ ~ KeyOf(g)
          /\ \A j \in 1 .. Len(toServer) : ServerOf(g, j) => j = 1
          /\ \A j \in 1 .. Len(toClient) : ~ ClientOf(g, j)
      BY <1>4, <1>10, <2>1, <2>2 DEF Alone
    <3>2. \A i \in 1 .. Len(toServer') : ~ ServerOf(g, i)'
      BY <1>4, <1>8, <3>1
    <3>3. \A i \in 1 .. Len(toClient') : ClientOf(g, i)' => i = Len(toClient) + 1
      BY <1>9, <3>1
    <3> QED BY <1>2, <1>7, <3>1, <3>2, <3>3 DEF Alone
  <2>3. CASE ~ (f.cmd \in Commands /\ g = f.game)
    <3>1. \A i \in 1 .. Len(toClient') : ClientOf(g, i)' => i \in 1 .. Len(toClient) /\ ClientOf(g, i)
      BY <1>9, <2>3
    <3>2. KeyOf(g)' =>
            /\ g \in awaiting' /\ ~ MainOf(g)'
            /\ \A i \in 1 .. Len(toServer') : ~ ServerOf(g, i)'
            /\ \A i \in 1 .. Len(toClient') : ~ ClientOf(g, i)'
      BY <1>2, <1>4, <1>7, <1>8, <2>1, <3>1 DEF Alone
    <3>3. ASSUME NEW i \in 1 .. Len(toServer'), ServerOf(g, i)'
          PROVE  /\ g \in awaiting' /\ ~ MainOf(g)'
                 /\ \A j \in 1 .. Len(toServer') : ServerOf(g, j)' => j = i
                 /\ \A j \in 1 .. Len(toClient') : ~ ClientOf(g, j)'
      <4>1. i + 1 \in 1 .. Len(toServer) /\ ServerOf(g, i + 1)
        BY <1>4, <1>8, <3>3
      <4>2. /\ g \in awaiting /\ ~ MainOf(g)
            /\ \A j \in 1 .. Len(toServer) : ServerOf(g, j) => j = i + 1
            /\ \A j \in 1 .. Len(toClient) : ~ ClientOf(g, j)
        BY <2>1, <4>1 DEF Alone
      <4>3. \A j \in 1 .. Len(toServer') : ServerOf(g, j)' => j + 1 = i + 1
        BY <1>4, <1>8, <4>2
      <4> QED BY <1>2, <1>7, <3>1, <4>2, <4>3
    <3>4. \A i \in 1 .. Len(toClient') : ClientOf(g, i)' =>
            /\ g \in awaiting' /\ ~ MainOf(g)'
            /\ \A j \in 1 .. Len(toClient') : ClientOf(g, j)' => j = i
      BY <1>2, <1>7, <2>1, <3>1 DEF Alone
    <3>5. MainOf(g)' => g \in awaiting'
      BY <1>2, <1>7, <2>1 DEF Alone
    <3> QED BY <3>2, <3>3, <3>4, <3>5 DEF Alone
  <2> QED BY <2>2, <2>3
<1>12. /\ \A g \in Games : g # f.game \/ f.cmd = "SEND" => joined'[g] = joined[g]
       /\ f.cmd = "SUBSCRIBE" => joined'[f.game] = f.sub.id
       /\ f.cmd = "UNSUBSCRIBE" => joined'[f.game] = NULL
  BY <1>1, <1>2, <1>4, <1>5, ServesWell
<1>13. /\ f.cmd = "SUBSCRIBE" =>
            joined[f.game] = NULL /\ f.game \in DOMAIN gameToSubID /\ f.sub.id \in Nat
            /\ gameToSubID[f.game] = [star |-> TRUE, id |-> f.sub.id]
       /\ f.cmd = "UNSUBSCRIBE" => Follows(f.game)
  BY <1>10 DEF Asks, Commands
<1>14. f.cmd \in Commands => AnsweredOf(f.game)'
  <2>1. CASE f.cmd = "SUBSCRIBE"
    <3>1. f.sub.id # NULL /\ gameToSubID[f.game].star /\ gameToSubID[f.game].id = f.sub.id
      BY <1>13, <2>1, NamesAssumption
    <3>2. \A g : g = f.game => AnsweredOf(g)'
      BY <1>2, <1>12, <1>13, <2>1, <3>1 DEF AnsweredOf
    <3> QED BY <3>2
  <2>2. CASE f.cmd = "UNSUBSCRIBE"
    <3>1. f.game \in DOMAIN gameToSubID /\ ~ gameToSubID[f.game].star
      BY <1>13, <2>2 DEF Follows
    <3> QED BY <1>2, <1>12, <2>2, <3>1 DEF AnsweredOf
  <2> QED BY <2>1, <2>2 DEF Commands
<1>15. ASSUME NEW g \in Games PROVE Stage(g)'
  <2>1. Stage(g) /\ Alone(g) /\ Alone(g)'
    BY <1>3, <1>11 DEF InSession
  <2>2. CASE f.cmd \in Commands /\ g = f.game
    <3>1. g \in awaiting /\ ~ MainOf(g) /\ ~ KeyOf(g)
          /\ \A j \in 1 .. Len(toServer) : ServerOf(g, j) => j = 1
      BY <1>4, <1>10, <2>1, <2>2 DEF Alone
    <3>2. \A i \in 1 .. Len(toServer') : ~ ServerOf(g, i)'
      BY <1>4, <1>8, <3>1
    <3>3. AnsweredOf(g)'
      BY <1>14, <2>2
    <3>4. /\ ~ (main' = "confirm" /\ command' = g)
          /\ ~ (main' = "unsubscribe" /\ command' = g)
      BY <1>2, <3>1 DEF MainOf
    <3> QED BY <1>2, <1>7, <3>1, <3>2, <3>3, <3>4 DEF Stage
  <2>3. CASE ~ (f.cmd \in Commands /\ g = f.game)
    <3>1. joined'[g] = joined[g]
      BY <1>5, <1>12, <2>3 DEF Commands
    <3>2. g \notin awaiting' => AgreeOn(g)'
      BY <1>2, <2>1, <3>1 DEF Stage, AgreeOn
    <3>3. AnsweredOf(g)' <=> AnsweredOf(g)
      BY <1>2, <3>1 DEF AnsweredOf
    <3>4. /\ MainOf(g)' => AnsweredOf(g)'
          /\ main' = "confirm" /\ command' = g => gameToSubID'[g].star
          /\ main' = "unsubscribe" /\ command' = g => ~ gameToSubID'[g].star
      BY <1>2, <1>7, <2>1, <3>3 DEF Stage
    <3>5. \A i \in 1 .. Len(toClient') : ClientOf(g, i)' => AnsweredOf(g)'
      BY <1>9, <2>1, <2>3, <3>3 DEF Stage
    <3>6. KeyOf(g)' =>
            /\ key' = "subscribe" =>
                 joined'[g] = NULL /\ g \notin DOMAIN gameToSubID' /\ frame'.sub = [star |-> FALSE, id |-> subscriptionID']
            /\ key' = "unsubscribe" => Follows(g)'
            /\ key' \in {"addMsg", "send"} => Asks(frame)'
      BY <1>2, <2>1, <3>1 DEF Stage, KeyOf, Asks, Follows
    <3>7. \A i \in 1 .. Len(toServer') : ServerOf(g, i)' => Asks(toServer[i])'
      <4>1. ASSUME NEW i \in 1 .. Len(toServer'), ServerOf(g, i)'
            PROVE  toServer'[i].game = g /\ Asks(toServer'[i])
        <5>1. i + 1 \in 1 .. Len(toServer) /\ ServerOf(g, i + 1) /\ toServer'[i] = toServer[i + 1]
          BY <1>4, <1>8, <4>1
        <5>2. Asks(toServer[i + 1]) /\ toServer[i + 1].game = g
          BY <2>1, <5>1 DEF Stage, ServerOf
        <5> QED BY <5>1, <5>2
      <4>2. \A x : x.game = g /\ Asks(x) => Asks(x)'
        BY <1>2, <3>1 DEF Asks, Follows
      <4>3. \A i \in 1 .. Len(toServer') : \A x : x = toServer'[i] /\ Asks(x)' => Asks(toServer[i])'
        BY DEF Asks
      <4> QED BY <4>1, <4>2, <4>3
    <3> QED BY <3>2, <3>4, <3>5, <3>6, <3>7 DEF Stage
  <2> QED BY <2>2, <2>3
<1>16. Ids'
  <2>1. Ids
    BY <1>3 DEF InSession
  <2>2. ASSUME NEW g \in Games, joined'[g] # NULL
        PROVE  g \in DOMAIN gameToSubID /\ gameToSubID[g].id = joined'[g]
    <3>1. CASE f.cmd = "SUBSCRIBE" /\ g = f.game
      BY <1>12, <1>13, <3>1
    <3>2. CASE f.cmd = "UNSUBSCRIBE" /\ g = f.game
      BY <1>12, <2>2, <3>2
    <3>3. CASE g # f.game \/ f.cmd = "SEND"
      BY <1>12, <2>1, <2>2, <3>3 DEF Ids
    <3> QED BY <1>5, <3>1, <3>2, <3>3
  <2> QED BY <1>2, <2>1, <2>2 DEF Ids
<1>17. Reports'
  <2>1. Reports
    BY <1>3 DEF InSession
  <2>2. f.cmd = "UNSUBSCRIBE" => f.game \in awaiting
    BY <1>3, <1>4, <1>5, <1>10 DEF InSession, Alone, Commands
  <2>3. \A g \in Games : joined[g] # NULL /\ joined'[g] = NULL => f.cmd = "UNSUBSCRIBE" /\ g = f.game
    BY <1>5, <1>12, <1>13, NamesAssumption
  <2>4. ASSUME key \in {"report", "send"}, frame.cmd = "SEND"
        PROVE  frame.game \notin awaiting /\ joined'[frame.game] # NULL
    <3>1. frame.game \in Games
      BY <2>4 DEF Inv, KeyFits, GameFits
    <3> QED BY <2>1, <2>2, <2>3, <2>4, <3>1 DEF Reports
  <2>5. ASSUME NEW i \in 1 .. Len(toServer'), toServer'[i].cmd = "SEND"
        PROVE  /\ joined'[toServer'[i].game] # NULL
               /\ \A j \in 1 .. Len(toServer') : ServerOf(toServer[i].game, j)' => i < j
    <3>1. i + 1 \in 1 .. Len(toServer) /\ toServer'[i] = toServer[i + 1]
      BY <1>4
    <3>2. /\ toServer'[i].game \in Games /\ joined[toServer'[i].game] # NULL
          /\ \A j \in 1 .. Len(toServer) : ServerOf(toServer'[i].game, j) => i + 1 < j
      BY <2>1, <2>5, <3>1 DEF Reports, Inv, SocketFits, GameFits
    <3>3. \A j \in 1 .. Len(toServer') : ServerOf(toServer[i].game, j)' => ServerOf(toServer'[i].game, j + 1)
      BY <1>4 DEF ServerOf
    <3>4. \A j \in 1 .. Len(toServer') : ServerOf(toServer[i].game, j)' => i < j
      BY <1>4, <3>2, <3>3
    <3>5. f.cmd = "UNSUBSCRIBE" => toServer'[i].game # f.game
      BY <1>4, <1>10, <3>1, <3>2 DEF Commands
    <3> QED BY <2>3, <3>2, <3>4, <3>5
  <2> QED BY <1>2, <2>4, <2>5 DEF Reports
<1> QED BY <1>11, <1>15, <1>16, <1>17 DEF InSession

LEMMA SessionNext ==
  ASSUME Inv, Agreement, Polite, Polite', Next
  PROVE  Session'
<1> SUFFICES ASSUME greeted', link' = "up" PROVE InSession'
  BY DEF Session
<1> USE DEF mainVars, keyVars
<1>1. CASE Type \/ Keyboard \/ Main \/ Serve
  BY <1>1, SessionType, SessionKeyboard, SessionMain, SessionServe
<1>2. ~ ServerVanishes
  BY DEF ServerVanishes
<1>3. ASSUME NEW g \in Games, OtherReports(g) PROVE InSession'
  <2>1. /\ link = "up" /\ greeted /\ toClient' = toClient \o <<Answer("MESSAGE", NULL, g)>>
        /\ UNCHANGED <<maps, mainVars, keyVars, toServer, joined, awaiting>>
    BY <1>3 DEF OtherReports, Reply, console
  <2>2. InSession
    BY <2>1 DEF Agreement, Session
  <2>3. /\ Answer("MESSAGE", NULL, g) \in AnswerType /\ Answer("MESSAGE", NULL, g).type = "MESSAGE"
        /\ toClient \in Seq(AnswerType)
    BY DEF Answer, AnswerType, Inv, TypeOK
  <2>4. \A i \in 1 .. Len(toClient') :
          toClient'[i].type = "MESSAGE" \/ (i \in 1 .. Len(toClient) /\ toClient'[i] = toClient[i])
    BY <2>1, <2>3, ConcatElements
  <2>5. \A h : \A i \in 1 .. Len(toClient') : ClientOf(h, i)' => i \in 1 .. Len(toClient) /\ ClientOf(h, i)
    BY <2>4 DEF ClientOf
  <2>6. Ids' /\ Reports'
    BY <2>1, <2>2 DEF InSession, Ids, Reports, ServerOf, maps
  <2>7. ASSUME NEW h \in Games PROVE Alone(h)'
    BY <2>1, <2>2, <2>5 DEF InSession, Alone, KeyOf, ServerOf, MainOf
  <2>8. ASSUME NEW h \in Games PROVE Stage(h)'
    <3>1. Stage(h)
      BY <2>2 DEF InSession
    <3>2. \A i \in 1 .. Len(toClient') : ClientOf(h, i)' => AnsweredOf(h)'
      BY <2>1, <2>5, <3>1 DEF Stage, AnsweredOf, maps
    <3> QED BY <2>1, <3>1, <3>2 DEF Stage, KeyOf, ServerOf, MainOf, AnsweredOf, Asks, AgreeOn, Follows, maps
  <2> QED BY <2>6, <2>7, <2>8 DEF InSession
<1> QED BY <1>1, <1>2, <1>3 DEF Next

LEMMA SummaryNext ==
  ASSUME Inv, Agreement, Polite, Polite', Next, SummaryReadsLive
  PROVE  SummaryReadsLive'
<1> USE DEF SummaryReadsLive, Polite, keyVars
<1>1. CASE Type
  <2>1. gameToEvents' = gameToEvents
    BY <1>1, PoliteType
  <2>2. key' # "summary" \/ \E g \in Games : TypeSummary(g)
    BY <1>1 DEF Type, TypeLogin, TypeJoin, TypeExit, TypeReport, TypeLogout, TypeTerminate, TypeFatal
  <2>3. ASSUME NEW g \in Games, TypeSummary(g) PROVE frame'.game \in gameToEvents
    BY <2>3 DEF TypeSummary, Frame
  <2> QED BY <2>1, <2>2, <2>3
<1>2. CASE Keyboard
  BY <1>2 DEF Keyboard, Connect, SetLogin, SetUsername, BuildSendFrames, AddSubscription,
              BuildUnsubscribe, AddMsg, Sent, SendFails, SetWaitingForDisconnect, Waits, WriteToFile
<1>3. CASE Main
  <2>1. CASE Logout
    BY <1>3, <2>1 DEF Main, Logout, Agreement, Welcome, Fresh, Leaving
  <2>2. CASE ~ Logout
    BY <1>3, <2>2 DEF Main, Poll, GetFrame, GetFrameFails, FindCommand, FindGame, ConfirmSub,
                      Unsubscribe, HandleMessage
  <2> QED BY <2>1, <2>2
<1>4. CASE Serve
  BY <1>4 DEF Serve
<1>5. CASE ServerVanishes
  BY <1>5 DEF ServerVanishes
<1>6. ASSUME NEW g \in Games, OtherReports(g) PROVE SummaryReadsLive'
  BY <1>6 DEF OtherReports
<1> QED BY <1>1, <1>2, <1>3, <1>4, <1>5, <1>6 DEF Next

LEMMA AgreementNext ==
  Inv /\ Agreement /\ SummaryReadsLive /\ [Next]_vars => (Agreement /\ SummaryReadsLive)'
<1> SUFFICES ASSUME Inv, Agreement, SummaryReadsLive, [Next]_vars
             PROVE  Agreement' /\ SummaryReadsLive'
  OBVIOUS
<1>1. CASE ~ Polite'
  BY <1>1 DEF Agreement, SummaryReadsLive, Polite
<1>2. CASE Polite' /\ Next
  <2>1. Polite
    BY <1>2, PoliteBefore
  <2> QED BY <1>2, <2>1, TogetherNext, FreshNext, WelcomeNext, SessionNext, SummaryNext DEF Agreement
<1>3. CASE UNCHANGED vars
  <2>1. /\ UNCHANGED <<gameToSubID, receiptToMsg, subscriptionID, sentLoginRequest, connected, main, hand>>
        /\ UNCHANGED <<command, waitingForDisconnect, gameToEvents, key, frame, unsent, link, toServer>>
        /\ UNCHANGED <<toClient, joined, greeted, awaiting, hasty>>
    BY <1>3 DEF vars, maps, flags, mainVars, keyVars, socket, console
  <2>2. Polite' = Polite /\ (Together => Together') /\ SummaryReadsLive'
    BY <2>1 DEF Polite, Together, SummaryReadsLive
  <2>3. Fresh => Fresh'
    BY <2>1 DEF Fresh
  <2>4. Welcome => Welcome'
    BY <2>1 DEF Welcome, Leaving
  <2>5. InSession => InSession'
    <3>1. Ids /\ Reports => Ids' /\ Reports'
      BY <2>1 DEF Ids, Reports, ServerOf
    <3>2. ASSUME NEW g \in Games, Alone(g) PROVE Alone(g)'
      BY <2>1, <3>2 DEF Alone, KeyOf, ServerOf, ClientOf, MainOf
    <3>3. ASSUME NEW g \in Games, Stage(g) PROVE Stage(g)'
      BY <2>1, <3>3 DEF Stage, KeyOf, ServerOf, ClientOf, MainOf, AnsweredOf, Asks, AgreeOn, Follows
    <3> QED BY <3>1, <3>2, <3>3 DEF InSession
  <2> QED BY <2>1, <2>2, <2>3, <2>4, <2>5 DEF Agreement, Session
<1> QED BY <1>1, <1>2, <1>3

-----------------------------------------------------------------------------
(* For a user who waits for the console, client and server agree on what    *)
(* the user follows, whenever the user is asked for the next line.          *)
THEOREM AlwaysAgree == Spec => []SubscriptionsAgree
<1>1. Init => Agreement /\ SummaryReadsLive
  BY AgreementInit DEF Init, SummaryReadsLive
<1>2. Inv /\ Agreement /\ SummaryReadsLive /\ [Next]_vars => (Agreement /\ SummaryReadsLive)'
  BY AgreementNext
<1>3. Agreement => SubscriptionsAgree
  <2>1. SUFFICES ASSUME Agreement, ~ hasty, key = "prompt"
        PROVE  /\ link = "up" => \A g \in Games \ awaiting : AgreeOn(g)
               /\ link = "down" => gameToSubID = EmptyMap /\ receiptToMsg = EmptyMap
    BY DEF SubscriptionsAgree
  <2>2. Together /\ Fresh /\ Session
    BY <2>1 DEF Agreement, Polite
  <2>3. CASE greeted
    BY <2>2, <2>3 DEF Together, Session, InSession, Stage
  <2>4. CASE ~ greeted
    BY <2>2, <2>4, EmptyMapIsEmpty DEF Fresh, AgreeOn
  <2> QED BY <2>3, <2>4
<1> QED BY <1>1, <1>2, <1>3, InvInit, InvNext, PTL DEF Spec

(* No Game is deleted while the summary of a user who waits is written.     *)
THEOREM SummariesSafe == Spec => []SummaryReadsLive
<1>1. Init => Agreement /\ SummaryReadsLive
  BY AgreementInit DEF Init, SummaryReadsLive
<1>2. Inv /\ Agreement /\ SummaryReadsLive /\ [Next]_vars => (Agreement /\ SummaryReadsLive)'
  BY AgreementNext
<1> QED BY <1>1, <1>2, InvInit, InvNext, PTL DEF Spec
=============================================================================

-------------------------- MODULE StompClientProofs --------------------------
(***************************************************************************)
(* What the two threads of the client keep between them, however many      *)
(* games there are and lines the user types: each receipt finds its        *)
(* command, and each report is signed.                                      *)
(***************************************************************************)
EXTENDS StompClient, FiniteSetTheorems, TLAPS

Asking == {"SUBSCRIBE", "UNSUBSCRIBE", "DISCONNECT"}

(* Of which game a frame is.                                                *)
GameFits(f) == f.cmd \in {"SUBSCRIBE", "UNSUBSCRIBE", "SEND"} => f.game \in Games

(* What each thread has in hand where it is.                                *)
KeyFits ==
  /\ key \in {"connect", "setLogin", "report", "subscribe", "unsubscribe", "addMsg", "send", "summary"}
       => frame \in FrameType /\ GameFits(frame)
  /\ key \in {"connect", "setLogin"} => frame.cmd = "CONNECT"
  /\ key = "subscribe" => frame.cmd = "SUBSCRIBE"
  /\ key = "unsubscribe" => frame.cmd = "UNSUBSCRIBE"
  /\ key = "addMsg" => frame.cmd \in Asking
  /\ key = "report" => frame.cmd = "SEND"
MainFits ==
  /\ main = "receipt" => hand \in AnswerType /\ hand.type = "RECEIPT"
  /\ main = "message" => hand.about \in Games
  /\ main \in {"game", "confirm", "unsubscribe"} => command \in Games
SocketFits ==
  /\ \A i \in 1 .. Len(toServer) : GameFits(toServer[i])
  /\ \A i \in 1 .. Len(toClient) : toClient[i].type = "MESSAGE" => toClient[i].about \in Games

(* The receipts in the table are 0, 1, ..., so its size is a new one.       *)
Numbered == ReceiptId \in Nat /\ DOMAIN receiptToMsg = 0 .. ReceiptId - 1

(* While there is a socket, what goes out on it is in the table.            *)
Noted(f) ==
  f.cmd \in Asking =>
    f.receipt \in DOMAIN receiptToMsg /\ receiptToMsg[f.receipt] = Asked(f)
AllNoted ==
  link # "down" =>
    /\ key \in {"subscribe", "addMsg"} => frame.receipt = ReceiptId
    /\ key = "send" => Noted(frame)
    /\ \A i \in 1 .. Len(toServer) : Noted(toServer[i])

(* The user's name is set when the login was sent on a socket that stands.  *)
Named ==
  link = "up" =>
    /\ key \notin {"setLogin", "setUsername"} /\ ~ (key = "send" /\ frame.cmd = "CONNECT")
       => username
    /\ key = "send" /\ frame.cmd = "SEND" => frame.signed

Inv ==
  /\ TypeOK /\ KeyFits /\ MainFits /\ SocketFits
  /\ Numbered /\ AllNoted /\ ReceiptFindsCommand
  /\ Named /\ ReportsSigned

-----------------------------------------------------------------------------
(* Sequences, and the table of receipts                                    *)

LEMMA TailElements ==
  ASSUME NEW S, NEW s \in Seq(S), s # <<>>
  PROVE  /\ Tail(s) \in Seq(S) /\ Head(s) \in S /\ Head(s) = s[1] /\ 1 \in 1 .. Len(s)
         /\ \A i \in 1 .. Len(Tail(s)) : i + 1 \in 1 .. Len(s) /\ Tail(s)[i] = s[i + 1]
  OBVIOUS

LEMMA AppendElements ==
  ASSUME NEW S, NEW s \in Seq(S), NEW x \in S
  PROVE  /\ Append(s, x) \in Seq(S)
         /\ \A i \in 1 .. Len(Append(s, x)) :
              Append(s, x)[i] = x \/ (i \in 1 .. Len(s) /\ Append(s, x)[i] = s[i])
<1> DEFINE longer == Append(s, x)
<1>1. longer \in Seq(S) /\ Len(longer) = Len(s) + 1 /\ Len(s) \in Nat
  OBVIOUS
<1>2. longer[Len(s) + 1] = x /\ \A i \in 1 .. Len(s) : longer[i] = s[i]
  OBVIOUS
<1> HIDE DEF longer
<1>3. \A i \in 1 .. Len(longer) : i = Len(s) + 1 \/ i \in 1 .. Len(s)
  BY <1>1
<1>4. \A i \in 1 .. Len(longer) : longer[i] = x \/ (i \in 1 .. Len(s) /\ longer[i] = s[i])
  BY <1>2, <1>3
<1> QED BY <1>1, <1>4 DEF longer

LEMMA ConcatElements ==
  ASSUME NEW S, NEW s \in Seq(S), NEW x \in S
  PROVE  /\ s \o <<x>> = Append(s, x) /\ s \o <<>> = s
         /\ s \o <<x>> \in Seq(S)
         /\ \A i \in 1 .. Len(s \o <<x>>) :
              (s \o <<x>>)[i] = x \/ (i \in 1 .. Len(s) /\ (s \o <<x>>)[i] = s[i])
<1>1. s \o <<x>> = Append(s, x) /\ s \o <<>> = s
  OBVIOUS
<1> QED BY <1>1, AppendElements

LEMMA SizeOfTable ==
  ASSUME NEW n \in Nat
  PROVE  Cardinality(0 .. n - 1) = n
<1>1. 0 \in Int /\ n - 1 \in Int
  OBVIOUS
<1>2. Cardinality(0 .. n - 1) = IF 0 > n - 1 THEN 0 ELSE n - 1 - 0 + 1
  BY <1>1, FS_Interval
<1> QED BY <1>2

LEMMA NoElements == \A S : <<>> \in Seq(S)
  OBVIOUS

LEMMA EmptyMapIsEmpty == DOMAIN EmptyMap = {}
  BY DEF EmptyMap

-----------------------------------------------------------------------------
LEMMA InvInit == Init => Inv
<1> SUFFICES ASSUME Init PROVE Inv
  OBVIOUS
<1>1. Cardinality({}) = 0
  BY FS_EmptySet
<1>2. TypeOK
  <2>1. /\ 0 \in 0 .. MaxLines /\ 0 \in 0 .. MaxEvents
        /\ toServer \in Seq(FrameType) /\ toClient \in Seq(AnswerType)
    BY BoundsAssumption, NoElements DEF Init
  <2>2. joined \in [Games -> Nat \cup {NULL}]
    BY DEF Init
  <2> QED BY <2>1, <2>2, EmptyMapIsEmpty DEF Init, TypeOK
<1>3. Numbered
  BY <1>1, EmptyMapIsEmpty DEF Init, Numbered, ReceiptId
<1>4. /\ KeyFits /\ MainFits /\ SocketFits
      /\ AllNoted /\ ReceiptFindsCommand /\ Named /\ ReportsSigned
  BY DEF Init, KeyFits, MainFits, SocketFits, AllNoted, ReceiptFindsCommand, Arriving, Named,
         ReportsSigned
<1> QED BY <1>2, <1>3, <1>4 DEF Inv

-----------------------------------------------------------------------------
(* A line is typed.                                                        *)
LEMMA FrameIsTyped ==
  ASSUME NEW cmd \in {"CONNECT", "SUBSCRIBE", "UNSUBSCRIBE", "SEND", "DISCONNECT", "SUMMARY"},
         NEW game \in Games \cup {NULL}, NEW sub \in [star : BOOLEAN, id : Nat \cup {NULL}],
         NEW receipt \in Nat \cup {NULL}
  PROVE  Frame(cmd, game, sub, receipt) \in FrameType
BY DEF Frame, FrameType

LEMMA EmptyIsTyped == Empty \in [star : BOOLEAN, id : Nat \cup {NULL}]
  BY DEF Empty

(* What every line that is typed leaves alone, unless it ends the process.  *)
TypeFrame ==
  /\ UNCHANGED <<maps, flags, waitingForDisconnect, gameToEvents, joined>>
  /\ lines' \in 0 .. MaxLines /\ hasty' \in BOOLEAN /\ greeted' \in BOOLEAN
  /\ awaiting' \in SUBSET Games
  /\ key = "prompt"

LEMMA TypeLineFrame ==
  ASSUME Inv, NEW w \in BOOLEAN, NEW a \in SUBSET Games, TypeLine(w, a)
  PROVE  TypeFrame
BY BoundsAssumption DEF Inv, TypeLine, TypeFrame, TypeOK

(* Where the keyboard thread goes with a line, and with what frame.         *)
Begins(place, cmd) ==
  /\ TypeFrame
  /\ UNCHANGED <<mainVars, socket>>
  /\ unsent' \in 0 .. MaxEvents /\ terminate' \in BOOLEAN
  /\ key' = place /\ frame' \in FrameType /\ frame'.cmd = cmd /\ GameFits(frame')
  /\ place \in {"subscribe", "addMsg"} => frame'.receipt = ReceiptId

Begin ==
  \/ Begins("connect", "CONNECT") \/ Begins("subscribe", "SUBSCRIBE")
  \/ Begins("unsubscribe", "UNSUBSCRIBE") \/ Begins("report", "SEND")
  \/ Begins("summary", "SUMMARY") \/ Begins("addMsg", "DISCONNECT")

LEMMA TypeBegins ==
  ASSUME Inv, Type
  PROVE  \/ Begin
         \/ TypeTerminate /\ TypeFrame
         \/ TypeFatal /\ TypeFrame
<1> USE BoundsAssumption
<1>0. /\ ReceiptId \in Nat /\ greeted \in BOOLEAN /\ unsent \in 0 .. MaxEvents
      /\ terminate \in BOOLEAN /\ subscriptionID \in Nat
      /\ \A n \in 0 .. MaxEvents - 1 : n \in 0 .. MaxEvents
  BY DEF Inv, TypeOK, Numbered
<1>1. CASE TypeLogin
  <2>1. TypeFrame
    BY <1>1, TypeLineFrame DEF TypeLogin
  <2>2. frame' \in FrameType /\ frame'.cmd = "CONNECT"
    BY <1>1, FrameIsTyped, EmptyIsTyped DEF TypeLogin, Frame
  <2> QED BY <1>0, <1>1, <2>1, <2>2 DEF TypeLogin, Begin, Begins, GameFits
<1>2. ASSUME NEW g \in Games, TypeJoin(g) PROVE Begin
  <2>1. TypeFrame
    BY <1>0, <1>2, TypeLineFrame DEF TypeJoin, Waited
  <2>2. [star |-> FALSE, id |-> subscriptionID] \in [star : BOOLEAN, id : Nat \cup {NULL}]
    BY <1>0
  <2>3. /\ frame' \in FrameType /\ frame'.cmd = "SUBSCRIBE" /\ frame'.game = g
        /\ frame'.receipt = ReceiptId
    BY <1>0, <1>2, <2>2, FrameIsTyped DEF TypeJoin, Frame
  <2> QED BY <1>0, <1>2, <2>1, <2>3 DEF TypeJoin, Begin, Begins, GameFits
<1>3. ASSUME NEW g \in Games, TypeExit(g) PROVE Begin
  <2>1. TypeFrame
    BY <1>0, <1>3, TypeLineFrame DEF TypeExit, Waited
  <2>2. frame' \in FrameType /\ frame'.cmd = "UNSUBSCRIBE" /\ frame'.game = g
    BY <1>3, FrameIsTyped, EmptyIsTyped DEF TypeExit, Frame
  <2> QED BY <1>0, <1>3, <2>1, <2>2 DEF TypeExit, Begin, Begins, GameFits
<1>4. ASSUME NEW g \in Games, TypeReport(g) PROVE Begin
  <2>1. TypeFrame
    BY <1>0, <1>4, TypeLineFrame DEF TypeReport, Waited
  <2>2. frame' \in FrameType /\ frame'.cmd = "SEND" /\ frame'.game = g
    BY <1>4, FrameIsTyped, EmptyIsTyped DEF TypeReport, Frame
  <2> QED BY <1>0, <1>4, <2>1, <2>2 DEF TypeReport, Begin, Begins, GameFits
<1>5. ASSUME NEW g \in Games, TypeSummary(g) PROVE Begin
  <2>1. TypeFrame
    BY <1>5, TypeLineFrame DEF TypeSummary
  <2>2. frame' \in FrameType /\ frame'.cmd = "SUMMARY"
    BY <1>5, FrameIsTyped, EmptyIsTyped DEF TypeSummary, Frame
  <2> QED BY <1>0, <1>5, <2>1, <2>2 DEF TypeSummary, Begin, Begins, GameFits
<1>6. CASE TypeLogout
  <2>1. TypeFrame
    BY <1>0, <1>6, TypeLineFrame DEF TypeLogout
  <2>2. frame' \in FrameType /\ frame'.cmd = "DISCONNECT" /\ frame'.receipt = ReceiptId
    BY <1>0, <1>6, FrameIsTyped, EmptyIsTyped DEF TypeLogout, Frame
  <2> QED BY <1>0, <1>6, <2>1, <2>2 DEF TypeLogout, Begin, Begins, GameFits
<1>7. CASE TypeTerminate
  BY <1>7, TypeLineFrame DEF TypeTerminate
<1>8. CASE TypeFatal
  BY <1>8, TypeLineFrame DEF TypeFatal
<1> QED BY <1>1, <1>2, <1>3, <1>4, <1>5, <1>6, <1>7, <1>8 DEF Type

LEMMA TypeKeeps ==
  ASSUME Inv, Type
  PROVE  Inv'
<1> USE DEF Inv, maps, flags, mainVars, socket
<1>1. CASE Begin
  <2>1. PICK place, cmd : Begins(place, cmd)
        /\ <<place, cmd>> \in {<<"connect", "CONNECT">>, <<"subscribe", "SUBSCRIBE">>,
             <<"unsubscribe", "UNSUBSCRIBE">>, <<"report", "SEND">>, <<"summary", "SUMMARY">>,
             <<"addMsg", "DISCONNECT">>}
    BY <1>1 DEF Begin
  <2>2. TypeOK'
    BY <2>1 DEF TypeOK, Begins, TypeFrame
  <2>3. KeyFits' /\ MainFits' /\ SocketFits'
    BY <2>1 DEF KeyFits, MainFits, SocketFits, Begins, TypeFrame, Asking
  <2>4. Numbered' /\ AllNoted'
    BY <2>1 DEF Numbered, ReceiptId, AllNoted, Noted, Begins, TypeFrame
  <2>5. ReceiptFindsCommand' /\ Named' /\ ReportsSigned'
    BY <2>1 DEF ReceiptFindsCommand, Arriving, Named, ReportsSigned, Begins, TypeFrame
  <2> QED BY <2>2, <2>3, <2>4, <2>5
<1>2. CASE TypeTerminate /\ TypeFrame
  <2>1. TypeOK'
    BY <1>2 DEF TypeOK, TypeTerminate, TypeFrame
  <2>2. KeyFits' /\ MainFits' /\ SocketFits'
    BY <1>2 DEF KeyFits, MainFits, SocketFits, TypeTerminate, TypeFrame
  <2>3. Numbered' /\ AllNoted'
    BY <1>2 DEF Numbered, ReceiptId, AllNoted, Noted, TypeTerminate, TypeFrame
  <2>4. ReceiptFindsCommand' /\ Named' /\ ReportsSigned'
    BY <1>2 DEF ReceiptFindsCommand, Arriving, Named, ReportsSigned, TypeTerminate, TypeFrame
  <2> QED BY <2>1, <2>2, <2>3, <2>4
<1>3. CASE TypeFatal /\ TypeFrame
  <2>1. TypeOK'
    BY <1>3, NoElements DEF TypeOK, TypeFatal, TypeFrame
  <2>2. KeyFits' /\ MainFits' /\ SocketFits'
    BY <1>3 DEF KeyFits, MainFits, SocketFits, TypeFatal, TypeFrame
  <2>3. Numbered' /\ AllNoted'
    BY <1>3 DEF Numbered, ReceiptId, AllNoted, TypeFatal, TypeFrame
  <2>4. ReceiptFindsCommand' /\ Named' /\ ReportsSigned'
    BY <1>3 DEF ReceiptFindsCommand, Arriving, Named, ReportsSigned, TypeFatal, TypeFrame
  <2> QED BY <2>1, <2>2, <2>3, <2>4
<1> QED BY <1>1, <1>2, <1>3, TypeBegins

-----------------------------------------------------------------------------
(* A command runs.                                                         *)
(* The table gets the receipt that the frame has asked for.                 *)
LEMMA AddMsgNotes ==
  ASSUME Inv, AddMsg
  PROVE  /\ Numbered'
         /\ DOMAIN receiptToMsg' = DOMAIN receiptToMsg \cup {ReceiptId}
         /\ \A n \in DOMAIN receiptToMsg : receiptToMsg'[n] = receiptToMsg[n]
         /\ receiptToMsg'[ReceiptId] = Asked(frame)
         /\ Asked(frame) \in Games \cup {"DISCONNECT"}
<1>1. ReceiptId \in Nat /\ DOMAIN receiptToMsg = 0 .. ReceiptId - 1
  BY DEF Inv, Numbered
<1>2. ReceiptId \notin DOMAIN receiptToMsg
  BY <1>1
<1>3. /\ DOMAIN receiptToMsg' = DOMAIN receiptToMsg \cup {ReceiptId}
      /\ \A n \in DOMAIN receiptToMsg : receiptToMsg'[n] = receiptToMsg[n]
      /\ receiptToMsg'[ReceiptId] = Asked(frame)
  BY <1>2 DEF AddMsg, Insert
<1>4. DOMAIN receiptToMsg' = 0 .. (ReceiptId + 1) - 1
  BY <1>1, <1>3
<1>5. ReceiptId' = ReceiptId + 1
  BY <1>1, <1>4, SizeOfTable DEF ReceiptId
<1>6. Asked(frame) \in Games \cup {"DISCONNECT"}
  BY DEF Inv, AddMsg, KeyFits, GameFits, Asking, Asked
<1> QED BY <1>1, <1>3, <1>4, <1>5, <1>6 DEF Numbered

LEMMA SentSends ==
  ASSUME Inv, Sent
  PROVE  /\ toServer' \in Seq(FrameType)
         /\ \A i \in 1 .. Len(toServer') :
              \/ i \in 1 .. Len(toServer) /\ toServer'[i] = toServer[i]
              \/ link = "up" /\ toServer'[i] = frame
         /\ frame \in FrameType /\ GameFits(frame)
<1>1. frame \in FrameType /\ GameFits(frame) /\ toServer \in Seq(FrameType)
  BY DEF Inv, TypeOK, KeyFits, Sent
<1> QED BY <1>1, AppendElements DEF Sent

KeyboardFrame ==
  UNCHANGED <<terminate, mainVars, gameToEvents, lines, console, hasty>>

(* The steps that leave receipts and the socket alone.                      *)
LEMMA KeyboardKeeps ==
  ASSUME Inv, Keyboard
  PROVE  Inv'
<1> USE BoundsAssumption DEF Inv, KeyboardFrame, maps, flags, mainVars, socket, console
<1>0. KeyboardFrame
  BY DEF Keyboard
<1>1. CASE Connect
  <2>0. joined' \in [Games -> Nat \cup {NULL}]
    BY <1>1 DEF TypeOK, Connect
  <2>1. TypeOK'
    <3>1. /\ key' \in {"setLogin", "prompt"} /\ frame' \in FrameType \cup {NULL}
          /\ link' \in {"down", "up", "closed"}
          /\ toServer' \in Seq(FrameType) /\ toClient' \in Seq(AnswerType)
          /\ UNCHANGED <<maps, flags, waitingForDisconnect, unsent>>
      <4>1. frame \in FrameType /\ key = "connect"
        BY <1>1 DEF KeyFits, Connect
      <4> QED BY <1>1, <4>1, NoElements DEF TypeOK, Connect
    <3> QED BY <1>0, <2>0, <3>1 DEF TypeOK
  <2>2. KeyFits' /\ MainFits' /\ SocketFits'
    BY <1>0, <1>1 DEF KeyFits, MainFits, SocketFits, Connect
  <2>3. Numbered' /\ AllNoted'
    BY <1>0, <1>1 DEF Numbered, ReceiptId, AllNoted, Noted, Connect
  <2>4. ReceiptFindsCommand' /\ Named' /\ ReportsSigned'
    BY <1>0, <1>1 DEF ReceiptFindsCommand, Arriving, Named, ReportsSigned, Connect
  <2> QED BY <2>1, <2>2, <2>3, <2>4
<1>2. CASE SetLogin
  <2>1. TypeOK'
    BY <1>0, <1>2 DEF TypeOK, SetLogin
  <2>2. KeyFits' /\ MainFits' /\ SocketFits'
    BY <1>0, <1>2 DEF KeyFits, MainFits, SocketFits, SetLogin
  <2>3. Numbered' /\ AllNoted'
    BY <1>0, <1>2 DEF Numbered, ReceiptId, AllNoted, Noted, KeyFits, Asking, SetLogin
  <2>4. ReceiptFindsCommand' /\ Named' /\ ReportsSigned'
    BY <1>0, <1>2 DEF ReceiptFindsCommand, Arriving, Named, ReportsSigned, KeyFits, SetLogin
  <2> QED BY <2>1, <2>2, <2>3, <2>4
<1>3. CASE SetUsername
  <2>1. TypeOK'
    BY <1>0, <1>3 DEF TypeOK, SetUsername
  <2>2. KeyFits' /\ MainFits' /\ SocketFits'
    BY <1>0, <1>3 DEF KeyFits, MainFits, SocketFits, SetUsername
  <2>3. Numbered' /\ AllNoted'
    BY <1>0, <1>3 DEF Numbered, ReceiptId, AllNoted, Noted, SetUsername
  <2>4. ReceiptFindsCommand' /\ Named' /\ ReportsSigned'
    BY <1>0, <1>3 DEF ReceiptFindsCommand, Arriving, Named, ReportsSigned, SetUsername
  <2> QED BY <2>1, <2>2, <2>3, <2>4
<1>4. CASE SendFails
  <2>1. TypeOK'
    BY <1>0, <1>4 DEF TypeOK, SendFails
  <2>2. KeyFits' /\ MainFits' /\ SocketFits'
    BY <1>0, <1>4 DEF KeyFits, MainFits, SocketFits, SendFails
  <2>3. Numbered' /\ AllNoted'
    BY <1>0, <1>4 DEF Numbered, ReceiptId, AllNoted, Noted, SendFails
  <2>4. ReceiptFindsCommand' /\ Named' /\ ReportsSigned'
    BY <1>0, <1>4 DEF ReceiptFindsCommand, Arriving, Named, ReportsSigned, SendFails
  <2> QED BY <2>1, <2>2, <2>3, <2>4
<1>5. CASE SetWaitingForDisconnect
  <2>1. TypeOK'
    BY <1>0, <1>5 DEF TypeOK, SetWaitingForDisconnect
  <2>2. KeyFits' /\ MainFits' /\ SocketFits'
    BY <1>0, <1>5 DEF KeyFits, MainFits, SocketFits, SetWaitingForDisconnect
  <2>3. Numbered' /\ AllNoted'
    BY <1>0, <1>5 DEF Numbered, ReceiptId, AllNoted, Noted, SetWaitingForDisconnect
  <2>4. ReceiptFindsCommand' /\ Named' /\ ReportsSigned'
    BY <1>0, <1>5 DEF ReceiptFindsCommand, Arriving, Named, ReportsSigned, SetWaitingForDisconnect
  <2> QED BY <2>1, <2>2, <2>3, <2>4
<1>6. CASE Waits
  <2>1. TypeOK'
    BY <1>0, <1>6 DEF TypeOK, Waits
  <2>2. KeyFits' /\ MainFits' /\ SocketFits'
    BY <1>0, <1>6 DEF KeyFits, MainFits, SocketFits, Waits
  <2>3. Numbered' /\ AllNoted'
    BY <1>0, <1>6 DEF Numbered, ReceiptId, AllNoted, Noted, Waits
  <2>4. ReceiptFindsCommand' /\ Named' /\ ReportsSigned'
    BY <1>0, <1>6 DEF ReceiptFindsCommand, Arriving, Named, ReportsSigned, Waits
  <2> QED BY <2>1, <2>2, <2>3, <2>4
<1>7. CASE WriteToFile
  <2>1. TypeOK'
    BY <1>0, <1>7 DEF TypeOK, WriteToFile
  <2>2. KeyFits' /\ MainFits' /\ SocketFits'
    BY <1>0, <1>7 DEF KeyFits, MainFits, SocketFits, WriteToFile
  <2>3. Numbered' /\ AllNoted'
    BY <1>0, <1>7 DEF Numbered, ReceiptId, AllNoted, Noted, WriteToFile
  <2>4. ReceiptFindsCommand' /\ Named' /\ ReportsSigned'
    BY <1>0, <1>7 DEF ReceiptFindsCommand, Arriving, Named, ReportsSigned, WriteToFile
  <2> QED BY <2>1, <2>2, <2>3, <2>4
<1>8. CASE BuildSendFrames
  <2>0. frame' \in FrameType /\ frame'.cmd = "SEND" /\ frame'.game = frame.game /\ frame'.signed = username
    BY <1>8 DEF BuildSendFrames, KeyFits, FrameType, TypeOK
  <2>1. TypeOK'
    BY <1>0, <1>8, <2>0 DEF TypeOK, BuildSendFrames
  <2>2. KeyFits' /\ MainFits' /\ SocketFits'
    BY <1>0, <1>8, <2>0 DEF KeyFits, MainFits, SocketFits, GameFits, BuildSendFrames
  <2>3. Numbered' /\ AllNoted'
    BY <1>0, <1>8, <2>0 DEF Numbered, ReceiptId, AllNoted, Noted, Asking, BuildSendFrames
  <2>4. ReceiptFindsCommand' /\ Named' /\ ReportsSigned'
    BY <1>0, <1>8, <2>0 DEF ReceiptFindsCommand, Arriving, Named, ReportsSigned, BuildSendFrames
  <2> QED BY <2>1, <2>2, <2>3, <2>4
<1>9. CASE AddSubscription
  <2>0. /\ DOMAIN gameToSubID' \subseteq Games /\ subscriptionID' \in Nat
        /\ \A g \in DOMAIN gameToSubID' : gameToSubID'[g] \in [star : BOOLEAN, id : Nat \cup {NULL}]
    <3>1. frame.game \in Games /\ subscriptionID \in Nat
      BY <1>9 DEF AddSubscription, KeyFits, GameFits, TypeOK
    <3>2. [star |-> TRUE, id |-> subscriptionID] \in [star : BOOLEAN, id : Nat \cup {NULL}]
      BY <3>1
    <3> QED BY <1>9, <3>1, <3>2 DEF AddSubscription, Insert, TypeOK
  <2>1. TypeOK'
    <3>1. /\ key' = "addMsg"
          /\ UNCHANGED <<receiptToMsg, flags, waitingForDisconnect, frame, unsent, socket, joined>>
      BY <1>9 DEF AddSubscription
    <3> QED BY <1>0, <2>0, <3>1 DEF TypeOK
  <2>2. KeyFits' /\ MainFits' /\ SocketFits'
    BY <1>0, <1>9 DEF KeyFits, MainFits, SocketFits, Asking, AddSubscription
  <2>3. Numbered' /\ AllNoted'
    BY <1>0, <1>9 DEF Numbered, ReceiptId, AllNoted, Noted, AddSubscription
  <2>4. ReceiptFindsCommand' /\ Named' /\ ReportsSigned'
    BY <1>0, <1>9 DEF ReceiptFindsCommand, Arriving, Named, ReportsSigned, AddSubscription
  <2> QED BY <2>1, <2>2, <2>3, <2>4
<1>10. CASE BuildUnsubscribe
  <2>0. /\ frame' \in FrameType /\ frame'.cmd = "UNSUBSCRIBE" /\ frame'.game = frame.game
        /\ frame'.receipt = ReceiptId
    <3>1. frame.game \in Games /\ ReceiptId \in Nat
      BY <1>10 DEF BuildUnsubscribe, KeyFits, GameFits, Numbered
    <3>2. SubByGame(frame.game) \in [star : BOOLEAN, id : Nat \cup {NULL}]
      BY EmptyIsTyped DEF SubByGame, TypeOK
    <3> QED BY <1>10, <3>1, <3>2, FrameIsTyped DEF BuildUnsubscribe, Frame
  <2>1. TypeOK'
    BY <1>0, <1>10, <2>0 DEF TypeOK, BuildUnsubscribe
  <2>2. KeyFits' /\ MainFits' /\ SocketFits'
    BY <1>0, <1>10, <2>0 DEF KeyFits, MainFits, SocketFits, GameFits, Asking, BuildUnsubscribe
  <2>3. Numbered' /\ AllNoted'
    BY <1>0, <1>10, <2>0 DEF Numbered, ReceiptId, AllNoted, Noted, BuildUnsubscribe
  <2>4. ReceiptFindsCommand' /\ Named' /\ ReportsSigned'
    BY <1>0, <1>10 DEF ReceiptFindsCommand, Arriving, Named, ReportsSigned, BuildUnsubscribe
  <2> QED BY <2>1, <2>2, <2>3, <2>4
<1>11. CASE AddMsg
  <2>0. /\ Numbered'
        /\ DOMAIN receiptToMsg' = DOMAIN receiptToMsg \cup {ReceiptId}
        /\ \A n \in DOMAIN receiptToMsg : receiptToMsg'[n] = receiptToMsg[n]
        /\ receiptToMsg'[ReceiptId] = Asked(frame)
        /\ Asked(frame) \in Games \cup {"DISCONNECT"}
        /\ ReceiptId \in Nat
    BY <1>11, AddMsgNotes DEF Numbered
  <2>1. TypeOK'
    BY <1>0, <1>11, <2>0 DEF TypeOK, AddMsg
  <2>2. KeyFits' /\ MainFits' /\ SocketFits'
    BY <1>0, <1>11 DEF KeyFits, MainFits, SocketFits, AddMsg
  <2>3. AllNoted'
    BY <1>0, <1>11, <2>0 DEF AllNoted, Noted, Asked, AddMsg
  <2>4. ReceiptFindsCommand'
    BY <1>0, <1>11, <2>0 DEF ReceiptFindsCommand, Arriving, AddMsg
  <2>5. Named' /\ ReportsSigned'
    BY <1>0, <1>11 DEF Named, ReportsSigned, KeyFits, Asking, AddMsg
  <2> QED BY <2>0, <2>1, <2>2, <2>3, <2>4, <2>5
<1>12. CASE Sent
  <2>0. /\ toServer' \in Seq(FrameType)
        /\ \A i \in 1 .. Len(toServer') :
             \/ i \in 1 .. Len(toServer) /\ toServer'[i] = toServer[i]
             \/ link = "up" /\ toServer'[i] = frame
        /\ frame \in FrameType /\ GameFits(frame)
    BY <1>12, SentSends
  <2>1. TypeOK'
    BY <1>0, <1>12, <2>0 DEF TypeOK, Sent
  <2>2. KeyFits' /\ MainFits'
    BY <1>0, <1>12 DEF KeyFits, MainFits, Sent
  <2>3. SocketFits'
    BY <1>0, <1>12, <2>0 DEF SocketFits, Sent
  <2>4. Numbered' /\ AllNoted'
    BY <1>0, <1>12, <2>0 DEF Numbered, ReceiptId, AllNoted, Noted, Asked, Sent
  <2>5. ReceiptFindsCommand' /\ Named'
    BY <1>0, <1>12 DEF ReceiptFindsCommand, Arriving, Named, Sent
  <2>6. ReportsSigned'
    BY <1>12, <2>0 DEF ReportsSigned, Named, Sent
  <2> QED BY <2>1, <2>2, <2>3, <2>4, <2>5, <2>6
<1> QED BY <1>1, <1>2, <1>3, <1>4, <1>5, <1>6, <1>7, <1>8, <1>9, <1>10, <1>11, <1>12 DEF Keyboard

-----------------------------------------------------------------------------
(* The main thread.                                                        *)
MainFrame == UNCHANGED <<terminate, keyVars, toServer, joined, lines, hasty>>

(* A frame that is taken is one that was arriving.                          *)
LEMMA GetFrameTakes ==
  ASSUME Inv, GetFrame
  PROVE  /\ toClient' \in Seq(AnswerType) /\ hand' \in AnswerType \cup {NULL}
         /\ main' \in {"logout", "receipt", "message", "loop"}
         /\ main' = "receipt" => hand' \in AnswerType /\ hand'.type = "RECEIPT"
         /\ main' = "message" => hand'.about \in Games
         /\ \A i \in 1 .. Len(toClient') : \E j \in 1 .. Len(toClient) : toClient'[i] = toClient[j]
         /\ main' = "receipt" => \E j \in 1 .. Len(toClient) : hand' = toClient[j]
<1>1. toClient \in Seq(AnswerType) /\ toClient # <<>> /\ toClient' = Tail(toClient)
  BY DEF Inv, TypeOK, GetFrame
<1>2. /\ Tail(toClient) \in Seq(AnswerType) /\ Head(toClient) \in AnswerType
      /\ Head(toClient) = toClient[1] /\ 1 \in 1 .. Len(toClient)
      /\ \A i \in 1 .. Len(Tail(toClient)) :
           i + 1 \in 1 .. Len(toClient) /\ Tail(toClient)[i] = toClient[i + 1]
  BY <1>1, TailElements
<1> DEFINE f == Head(toClient)
<1>3. f.type = "MESSAGE" => f.about \in Games
  BY <1>2 DEF Inv, SocketFits
<1>4. main' = Handler(f.type) /\ hand' = IF main' = "loop" THEN NULL ELSE f
  BY DEF GetFrame
<1>5. /\ main' \in {"logout", "receipt", "message", "loop"}
      /\ main' = "receipt" => f.type = "RECEIPT" /\ hand' = f
      /\ main' = "message" => f.type = "MESSAGE" /\ hand' = f
      /\ hand' \in {NULL, f}
  <2> HIDE DEF f
  <2> QED BY <1>4 DEF Handler
<1>6. \A i \in 1 .. Len(toClient') : \E j \in 1 .. Len(toClient) : toClient'[i] = toClient[j]
  BY <1>1, <1>2
<1> QED BY <1>1, <1>2, <1>3, <1>5, <1>6

(* The command is there: nothing is inserted.                               *)
LEMMA FindCommandFinds ==
  ASSUME Inv, FindCommand
  PROVE  /\ DOMAIN receiptToMsg' = DOMAIN receiptToMsg
         /\ \A n \in DOMAIN receiptToMsg : receiptToMsg'[n] = receiptToMsg[n]
         /\ command' \in Games \cup {"DISCONNECT"}
         /\ main' \in {"logout", "game"} /\ (main' = "game" => command' \in Games)
<1>1. hand.receipt \in DOMAIN receiptToMsg
  BY DEF Inv, ReceiptFindsCommand, Arriving, MainFits, FindCommand
<1>2. /\ DOMAIN receiptToMsg' = DOMAIN receiptToMsg
      /\ \A n \in DOMAIN receiptToMsg : receiptToMsg'[n] = receiptToMsg[n]
  BY <1>1 DEF FindCommand, Insert
<1>3. command' = receiptToMsg[hand.receipt]
  BY <1>1, <1>2 DEF FindCommand
<1>4. command' \in Games \cup {"DISCONNECT"}
  BY <1>1, <1>3 DEF Inv, TypeOK
<1> QED BY <1>2, <1>4 DEF FindCommand

LEMMA MainKeeps ==
  ASSUME Inv, Main
  PROVE  Inv'
<1> USE BoundsAssumption DEF Inv, MainFrame, maps, flags, keyVars, console
<1>0. MainFrame
  BY DEF Main
<1>1. CASE Poll
  <2>1. TypeOK'
    BY <1>0, <1>1 DEF TypeOK, Poll
  <2>2. KeyFits' /\ MainFits' /\ SocketFits'
    BY <1>0, <1>1 DEF KeyFits, MainFits, SocketFits, Poll
  <2>3. Numbered' /\ AllNoted'
    BY <1>0, <1>1 DEF Numbered, ReceiptId, AllNoted, Noted, Poll
  <2>4. ReceiptFindsCommand' /\ Named' /\ ReportsSigned'
    BY <1>0, <1>1 DEF ReceiptFindsCommand, Arriving, Named, ReportsSigned, Poll
  <2> QED BY <2>1, <2>2, <2>3, <2>4
<1>2. CASE GetFrameFails
  <2>1. TypeOK'
    BY <1>0, <1>2 DEF TypeOK, GetFrameFails
  <2>2. KeyFits' /\ MainFits' /\ SocketFits'
    BY <1>0, <1>2 DEF KeyFits, MainFits, SocketFits, GetFrameFails
  <2>3. Numbered' /\ AllNoted'
    BY <1>0, <1>2 DEF Numbered, ReceiptId, AllNoted, Noted, GetFrameFails
  <2>4. ReceiptFindsCommand' /\ Named' /\ ReportsSigned'
    BY <1>0, <1>2 DEF ReceiptFindsCommand, Arriving, Named, ReportsSigned, GetFrameFails
  <2> QED BY <2>1, <2>2, <2>3, <2>4
<1>3. CASE HandleMessage
  <2>0. hand.about \in Games
    BY <1>3 DEF MainFits, HandleMessage
  <2>1. TypeOK'
    BY <1>0, <1>3, <2>0 DEF TypeOK, HandleMessage
  <2>2. KeyFits' /\ MainFits' /\ SocketFits'
    BY <1>0, <1>3, <2>0 DEF KeyFits, MainFits, SocketFits, HandleMessage
  <2>3. Numbered' /\ AllNoted'
    BY <1>0, <1>3, <2>0 DEF Numbered, ReceiptId, AllNoted, Noted, HandleMessage
  <2>4. ReceiptFindsCommand' /\ Named' /\ ReportsSigned'
    BY <1>0, <1>3, <2>0 DEF ReceiptFindsCommand, Arriving, Named, ReportsSigned, HandleMessage
  <2> QED BY <2>1, <2>2, <2>3, <2>4
<1>4. CASE GetFrame
  <2>0. /\ toClient' \in Seq(AnswerType) /\ hand' \in AnswerType \cup {NULL}
        /\ main' \in {"logout", "receipt", "message", "loop"}
        /\ main' = "receipt" => hand' \in AnswerType /\ hand'.type = "RECEIPT"
        /\ main' = "message" => hand'.about \in Games
        /\ \A i \in 1 .. Len(toClient') : \E j \in 1 .. Len(toClient) : toClient'[i] = toClient[j]
        /\ main' = "receipt" => \E j \in 1 .. Len(toClient) : hand' = toClient[j]
    BY <1>4, GetFrameTakes
  <2>1. greeted' \in BOOLEAN
    BY <1>4 DEF TypeOK, GetFrame
  <2>2. UNCHANGED <<maps, flags, waitingForDisconnect, command, gameToEvents, link, awaiting>>
    BY <1>4 DEF GetFrame
  <2>3. TypeOK'
    BY <1>0, <2>0, <2>1, <2>2 DEF TypeOK
  <2>4. KeyFits' /\ MainFits' /\ SocketFits'
    BY <1>0, <2>0, <2>2 DEF KeyFits, MainFits, SocketFits
  <2>5. Numbered' /\ AllNoted'
    BY <1>0, <2>2 DEF Numbered, ReceiptId, AllNoted, Noted
  <2>6. ReceiptFindsCommand'
    BY <2>0, <2>2 DEF ReceiptFindsCommand, Arriving
  <2>7. Named' /\ ReportsSigned'
    BY <1>0, <2>2 DEF Named, ReportsSigned
  <2> QED BY <2>3, <2>4, <2>5, <2>6, <2>7
<1>5. CASE FindCommand
  <2>0. /\ DOMAIN receiptToMsg' = DOMAIN receiptToMsg
        /\ \A n \in DOMAIN receiptToMsg : receiptToMsg'[n] = receiptToMsg[n]
        /\ command' \in Games \cup {"DISCONNECT"}
        /\ main' \in {"logout", "game"} /\ (main' = "game" => command' \in Games)
    BY <1>5, FindCommandFinds
  <2>1. UNCHANGED <<gameToSubID, subscriptionID, flags, waitingForDisconnect, hand, gameToEvents,
                    link, toClient, console>>
    BY <1>5 DEF FindCommand
  <2>2. TypeOK'
    BY <1>0, <2>0, <2>1 DEF TypeOK
  <2>3. KeyFits' /\ MainFits' /\ SocketFits'
    BY <1>0, <2>0, <2>1 DEF KeyFits, MainFits, SocketFits
  <2>4. Numbered' /\ ReceiptId' = ReceiptId
    BY <2>0 DEF Numbered, ReceiptId
  <2>5. AllNoted'
    BY <1>0, <2>0, <2>1, <2>4 DEF AllNoted, Noted
  <2>6. ReceiptFindsCommand' /\ Named' /\ ReportsSigned'
    BY <1>0, <2>0, <2>1 DEF ReceiptFindsCommand, Arriving, Named, ReportsSigned
  <2> QED BY <2>2, <2>3, <2>4, <2>5, <2>6
<1>6. CASE FindGame
  <2>0. /\ DOMAIN gameToSubID' \subseteq Games
        /\ \A g \in DOMAIN gameToSubID' : gameToSubID'[g] \in [star : BOOLEAN, id : Nat \cup {NULL}]
        /\ main' \in {"confirm", "unsubscribe"} /\ command \in Games
    <3>1. command \in Games
      BY <1>6 DEF MainFits, FindGame
    <3> QED BY <1>6, <3>1, EmptyIsTyped DEF FindGame, Insert, TypeOK
  <2>1. UNCHANGED <<receiptToMsg, subscriptionID, flags, waitingForDisconnect, hand, command,
                    gameToEvents, link, toClient, console>>
    BY <1>6 DEF FindGame
  <2>2. TypeOK'
    BY <1>0, <2>0, <2>1 DEF TypeOK
  <2>3. KeyFits' /\ MainFits' /\ SocketFits'
    BY <1>0, <2>0, <2>1 DEF KeyFits, MainFits, SocketFits
  <2>4. Numbered' /\ AllNoted'
    BY <1>0, <2>1 DEF Numbered, ReceiptId, AllNoted, Noted
  <2>5. ReceiptFindsCommand' /\ Named' /\ ReportsSigned'
    BY <1>0, <2>0, <2>1 DEF ReceiptFindsCommand, Arriving, Named, ReportsSigned
  <2> QED BY <2>2, <2>3, <2>4, <2>5
<1>7. CASE ConfirmSub
  <2>0. /\ DOMAIN gameToSubID' \subseteq Games
        /\ \A g \in DOMAIN gameToSubID' : gameToSubID'[g] \in [star : BOOLEAN, id : Nat \cup {NULL}]
    BY <1>7 DEF ConfirmSub, TypeOK
  <2>1. /\ awaiting' \subseteq Games /\ main' = "loop" /\ hand' = NULL /\ command' = NULL
        /\ UNCHANGED <<receiptToMsg, subscriptionID, flags, waitingForDisconnect, gameToEvents,
                       link, toClient, greeted>>
    BY <1>7 DEF ConfirmSub, TypeOK
  <2>2. TypeOK'
    BY <1>0, <2>0, <2>1 DEF TypeOK
  <2>3. KeyFits' /\ MainFits' /\ SocketFits'
    BY <1>0, <2>1 DEF KeyFits, MainFits, SocketFits
  <2>4. Numbered' /\ AllNoted'
    BY <1>0, <2>1 DEF Numbered, ReceiptId, AllNoted, Noted
  <2>5. ReceiptFindsCommand' /\ Named' /\ ReportsSigned'
    BY <1>0, <2>1 DEF ReceiptFindsCommand, Arriving, Named, ReportsSigned
  <2> QED BY <2>2, <2>3, <2>4, <2>5
<1>8. CASE Unsubscribe
  <2>0. /\ DOMAIN gameToSubID' \subseteq Games
        /\ \A g \in DOMAIN gameToSubID' : gameToSubID'[g] \in [star : BOOLEAN, id : Nat \cup {NULL}]
    BY <1>8 DEF Unsubscribe, Erase, TypeOK
  <2>1. /\ awaiting' \subseteq Games /\ main' = "loop" /\ hand' = NULL /\ command' = NULL
        /\ UNCHANGED <<receiptToMsg, subscriptionID, flags, waitingForDisconnect, gameToEvents,
                       link, toClient, greeted>>
    BY <1>8 DEF Unsubscribe, TypeOK
  <2>2. TypeOK'
    BY <1>0, <2>0, <2>1 DEF TypeOK
  <2>3. KeyFits' /\ MainFits' /\ SocketFits'
    BY <1>0, <2>1 DEF KeyFits, MainFits, SocketFits
  <2>4. Numbered' /\ AllNoted'
    BY <1>0, <2>1 DEF Numbered, ReceiptId, AllNoted, Noted
  <2>5. ReceiptFindsCommand' /\ Named' /\ ReportsSigned'
    BY <1>0, <2>1 DEF ReceiptFindsCommand, Arriving, Named, ReportsSigned
  <2> QED BY <2>2, <2>3, <2>4, <2>5
<1>9. CASE Logout
  <2>0. Cardinality({}) = 0
    BY FS_EmptySet
  <2>1. TypeOK'
    BY <1>0, <1>9, NoElements, EmptyMapIsEmpty DEF TypeOK, Logout
  <2>2. KeyFits' /\ MainFits' /\ SocketFits'
    BY <1>0, <1>9 DEF KeyFits, MainFits, SocketFits, Logout
  <2>3. Numbered'
    BY <1>9, <2>0, EmptyMapIsEmpty DEF Numbered, ReceiptId, Logout
  <2>4. AllNoted' /\ ReceiptFindsCommand' /\ Named' /\ ReportsSigned'
    BY <1>0, <1>9 DEF AllNoted, ReceiptFindsCommand, Arriving, Named, ReportsSigned, Logout
  <2> QED BY <2>1, <2>2, <2>3, <2>4
<1> QED BY <1>1, <1>2, <1>3, <1>4, <1>5, <1>6, <1>7, <1>8, <1>9 DEF Main

-----------------------------------------------------------------------------
(* The server's end.                                                       *)

(* What the server may add: no RECEIPT but for a frame it has.              *)
Answered ==
  /\ joined' \in [Games -> Nat \cup {NULL}]
  /\ link' \in {"up", "closed"}
  /\ \/ toClient' = toClient
     \/ \E a \in AnswerType :
          /\ toClient' = toClient \o <<a>>
          /\ a.type = "MESSAGE" => a.about \in Games
          /\ a.type = "RECEIPT" =>
               a.receipt \in DOMAIN receiptToMsg /\ receiptToMsg[a.receipt] = a.about

LEMMA AnsweredFits ==
  ASSUME Inv, Answered
  PROVE  /\ toClient' \in Seq(AnswerType)
         /\ \A i \in 1 .. Len(toClient') :
              /\ toClient'[i].type = "MESSAGE" => toClient'[i].about \in Games
              /\ toClient'[i].type = "RECEIPT" =>
                   /\ toClient'[i].receipt \in DOMAIN receiptToMsg
                   /\ receiptToMsg[toClient'[i].receipt] = toClient'[i].about
<1>1. /\ toClient \in Seq(AnswerType)
      /\ \A i \in 1 .. Len(toClient) :
           /\ toClient[i].type = "MESSAGE" => toClient[i].about \in Games
           /\ toClient[i].type = "RECEIPT" =>
                /\ toClient[i].receipt \in DOMAIN receiptToMsg
                /\ receiptToMsg[toClient[i].receipt] = toClient[i].about
  BY DEF Inv, TypeOK, SocketFits, ReceiptFindsCommand, Arriving
<1>2. CASE toClient' = toClient
  BY <1>1, <1>2
<1>3. ASSUME NEW a \in AnswerType, toClient' = toClient \o <<a>>,
             a.type = "MESSAGE" => a.about \in Games,
             a.type = "RECEIPT" =>
               a.receipt \in DOMAIN receiptToMsg /\ receiptToMsg[a.receipt] = a.about
      PROVE  /\ toClient' \in Seq(AnswerType)
             /\ \A i \in 1 .. Len(toClient') :
                  toClient'[i] = a \/ (i \in 1 .. Len(toClient) /\ toClient'[i] = toClient[i])
  BY <1>1, <1>3, ConcatElements
<1> QED BY <1>1, <1>2, <1>3 DEF Answered

LEMMA ServeAnswers ==
  ASSUME Inv, Serve
  PROVE  Answered
<1> DEFINE f == Head(toServer)
<1>1. /\ toServer \in Seq(FrameType) /\ toServer # <<>> /\ link = "up"
      /\ joined \in [Games -> Nat \cup {NULL}] /\ toClient \in Seq(AnswerType)
  BY DEF Inv, TypeOK, Serve
<1>2. f \in FrameType /\ f = toServer[1] /\ 1 \in 1 .. Len(toServer)
  BY <1>1, TailElements
<1>3. GameFits(f) /\ Noted(f)
  BY <1>1, <1>2 DEF Inv, SocketFits, AllNoted
<1>4. f.sub.id \in Nat \cup {NULL} /\ f.receipt \in Nat \cup {NULL}
  BY <1>2 DEF FrameType
<1> HIDE DEF f
<1>5. ASSUME ServerError PROVE Answered
  <2>1. Answer("ERROR", NULL, NULL) \in AnswerType
    BY DEF Answer, AnswerType
  <2> QED BY <1>1, <1>5, <2>1 DEF ServerError, Reply, Answered, Answer
<1>6. ASSUME f.cmd \in Asking, Reply(<<Answer("RECEIPT", f.receipt, Asked(f))>>, "up")
             \/ Reply(<<Answer("RECEIPT", f.receipt, Asked(f))>>, "closed"),
             joined' \in [Games -> Nat \cup {NULL}]
      PROVE  Answered
  <2>1. f.receipt \in DOMAIN receiptToMsg /\ receiptToMsg[f.receipt] = Asked(f)
    BY <1>3, <1>6 DEF Noted
  <2>2. Asked(f) \in Games \cup {"DISCONNECT"}
    BY <2>1 DEF Inv, TypeOK
  <2>3. Answer("RECEIPT", f.receipt, Asked(f)) \in AnswerType
    BY <1>4, <2>2 DEF Answer, AnswerType
  <2> QED BY <1>6, <2>1, <2>3 DEF Reply, Answered, Answer
<1>7. CASE ServeConnect(f)
  <2>1. Answer("CONNECTED", NULL, NULL) \in AnswerType
    BY DEF Answer, AnswerType
  <2> QED BY <1>1, <1>5, <1>7, <2>1 DEF ServeConnect, Reply, Answered, Answer
<1>8. CASE ServeSubscribe(f)
  <2>1. [joined EXCEPT ![f.game] = f.sub.id] \in [Games -> Nat \cup {NULL}]
    BY <1>1, <1>4
  <2> QED BY <1>5, <1>6, <1>8, <2>1 DEF ServeSubscribe, Receipt, Asking
<1>9. CASE ServeUnsubscribe(f)
  <2>1. \A g \in Games : [joined EXCEPT ![g] = NULL] \in [Games -> Nat \cup {NULL}]
    BY <1>1
  <2>2. CASE Reply(<<>>, "closed") /\ UNCHANGED joined
    BY <1>1, <2>2, ConcatElements DEF Reply, Answered
  <2>3. CASE \E g \in Games : joined' = [joined EXCEPT ![g] = NULL] /\ Receipt(f)
    BY <1>6, <1>9, <2>1, <2>3 DEF ServeUnsubscribe, Receipt, Asking
  <2> QED BY <1>5, <1>9, <2>2, <2>3 DEF ServeUnsubscribe
<1>10. CASE ServeSend(f)
  <2>1. f.game \in Games
    BY <1>3, <1>10 DEF GameFits, ServeSend
  <2>2. Answer("MESSAGE", NULL, f.game) \in AnswerType
    BY <2>1 DEF Answer, AnswerType
  <2> QED BY <1>1, <1>5, <1>10, <2>1, <2>2 DEF ServeSend, Reply, Answered, Answer
<1>11. CASE ServeDisconnect(f)
  BY <1>1, <1>6, <1>11 DEF ServeDisconnect, Asking
<1> QED BY <1>7, <1>8, <1>9, <1>10, <1>11 DEF Serve, f

LEMMA ServerKeeps ==
  ASSUME Inv, Serve \/ ServerVanishes \/ \E g \in Games : OtherReports(g)
  PROVE  Inv'
<1> USE BoundsAssumption DEF Inv
<1>1. /\ Answered /\ link = "up"
      /\ UNCHANGED <<maps, flags, waitingForDisconnect, terminate, mainVars, gameToEvents, keyVars,
                     console, hasty>>
      /\ lines' \in 0 .. MaxLines
  <2>1. CASE Serve
    BY <2>1, ServeAnswers DEF Serve, TypeOK
  <2>2. CASE ServerVanishes
    BY <2>2 DEF ServerVanishes, Answered, TypeOK
  <2>3. ASSUME NEW g \in Games, OtherReports(g)
        PROVE  Answered /\ link = "up" /\ lines' \in 0 .. MaxLines
    <3>1. Answer("MESSAGE", NULL, g) \in AnswerType
      BY DEF Answer, AnswerType
    <3>2. joined' \in [Games -> Nat \cup {NULL}] /\ link' = "up" /\ lines' \in 0 .. MaxLines
      BY <2>3 DEF OtherReports, Reply, TypeOK
    <3>3. Answer("MESSAGE", NULL, g).type = "MESSAGE" /\ Answer("MESSAGE", NULL, g).about = g
      BY DEF Answer
    <3> QED BY <2>3, <3>1, <3>2, <3>3 DEF OtherReports, Reply, Answered
  <2> QED BY <2>1, <2>2, <2>3 DEF OtherReports
<1>2. /\ toServer' \in Seq(FrameType)
      /\ \A i \in 1 .. Len(toServer') : \E j \in 1 .. Len(toServer) : toServer'[i] = toServer[j]
  <2>1. CASE Serve
    <3>1. toServer \in Seq(FrameType) /\ toServer # <<>> /\ toServer' = Tail(toServer)
      BY <2>1 DEF TypeOK, Serve
    <3>2. /\ Tail(toServer) \in Seq(FrameType)
          /\ \A i \in 1 .. Len(Tail(toServer)) :
               i + 1 \in 1 .. Len(toServer) /\ Tail(toServer)[i] = toServer[i + 1]
      BY <3>1, TailElements
    <3> QED BY <3>1, <3>2
  <2>2. CASE UNCHANGED toServer
    BY <2>2 DEF TypeOK
  <2> QED BY <2>1, <2>2 DEF ServerVanishes, OtherReports
<1>3. /\ toClient' \in Seq(AnswerType)
      /\ \A i \in 1 .. Len(toClient') :
           /\ toClient'[i].type = "MESSAGE" => toClient'[i].about \in Games
           /\ toClient'[i].type = "RECEIPT" =>
                /\ toClient'[i].receipt \in DOMAIN receiptToMsg
                /\ receiptToMsg[toClient'[i].receipt] = toClient'[i].about
  BY <1>1, AnsweredFits
<1> USE DEF maps, flags, mainVars, keyVars, console
<1>4. TypeOK'
  BY <1>1, <1>2, <1>3 DEF TypeOK, Answered
<1>5. KeyFits' /\ MainFits' /\ SocketFits'
  BY <1>1, <1>2, <1>3 DEF KeyFits, MainFits, SocketFits
<1>6. Numbered' /\ AllNoted'
  BY <1>1, <1>2 DEF Numbered, ReceiptId, AllNoted, Noted
<1>7. ReceiptFindsCommand'
  BY <1>1, <1>3 DEF ReceiptFindsCommand, Arriving
<1>8. Named' /\ ReportsSigned'
  BY <1>1, <1>2 DEF Named, ReportsSigned, Answered
<1> QED BY <1>4, <1>5, <1>6, <1>7, <1>8

-----------------------------------------------------------------------------
LEMMA InvNext ==
  ASSUME Inv, [Next]_vars
  PROVE  Inv'
<1>1. CASE UNCHANGED vars
  BY <1>1 DEF vars, maps, flags, mainVars, keyVars, socket, console, Inv, TypeOK, KeyFits, MainFits,
              SocketFits, Numbered, ReceiptId, AllNoted, Noted, ReceiptFindsCommand, Arriving, Named,
              ReportsSigned
<1>2. CASE Next
  BY <1>2, TypeKeeps, KeyboardKeeps, MainKeeps, ServerKeeps DEF Next
<1> QED BY <1>1, <1>2

(* Every reachable state of the client is well typed: receiptToMsg holds     *)
(* commands only, and a lookup of handleReceiptFrame leaves no empty entry.  *)
THEOREM TypeCorrect == Spec => []TypeOK
<1>1. Inv => TypeOK
  BY DEF Inv
<1> QED BY <1>1, InvInit, InvNext, PTL DEF Spec

(* A RECEIPT on its way finds in receiptToMsg the command that asked for it, *)
(* whatever is typed meanwhile, and in however many sessions.               *)
THEOREM ReceiptsFound == Spec => []ReceiptFindsCommand
<1>1. Inv => ReceiptFindsCommand
  BY DEF Inv
<1> QED BY <1>1, InvInit, InvNext, PTL DEF Spec

(* No report reaches the server without the name of its user.               *)
THEOREM AlwaysSigned == Spec => []ReportsSigned
<1>1. Inv => ReportsSigned
  BY DEF Inv
<1> QED BY <1>1, InvInit, InvNext, PTL DEF Spec
=============================================================================

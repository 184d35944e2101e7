----------------------------- MODULE StompClient -----------------------------
(***************************************************************************)
(* The client: the thread that reads commands from the keyboard and the    *)
(* main thread that reads frames from the joined, both over one            *)
(* StompProtocol, and the session at the server's end of their socket.     *)
(*                                                                         *)
(* The methods that take StompProtocol's mutex are one step each; the      *)
(* reads that do not are steps between them.  logout() closes the socket   *)
(* before it clears anything, so what a command reads while it runs is of  *)
(* no matter: its frame cannot be sent.  Connections are reliable and in   *)
(* order.  A Game object is there or not: what MESSAGEs put into it and a   *)
(* summary reads from it is in Game.  Of the user's name it matters only    *)
(* whether it is set.                                                      *)
(***************************************************************************)
EXTENDS Naturals, Sequences, FiniteSets

CONSTANTS
  Games,     \* the channels users join
  NULL,      \* the empty string; no value
  MaxLines,  \* bound: lines typed here, and reports of others passed on
  MaxEvents  \* bound: events in a file

ASSUME BoundsAssumption == MaxLines \in Nat /\ MaxEvents \in Nat
ASSUME NamesAssumption == NULL \notin Games \cup Nat /\ "DISCONNECT" \notin Games

VARIABLES
  gameToSubID,          \* game -> its subscription id, starred until confirmed
  receiptToMsg,         \* receipt id -> "DISCONNECT" or the game it is for
  subscriptionID, waitingForDisconnect, sentLoginRequest, terminate,
  username,             \* TRUE while there is one
  connected,            \* ConnectionHandler.connected
  main, hand, command,  \* the main thread, its frame, the command found for it
  gameToEvents,         \* the games that have a Game object
  key, frame, unsent,   \* the keyboard thread, the frame it sends, and how
                        \* many frames of a report follow it
  link, toServer, toClient,  \* the socket: "down", "up", "closed" by the server
  joined,               \* the server's session: game -> subscription id
  lines,                \* number of lines typed and reports passed on
  greeted, awaiting,    \* what the console told the user (history): a login;
                        \* the games whose join or exit is still unanswered
  hasty                 \* TRUE once a command did not wait for the console

maps  == <<gameToSubID, receiptToMsg, subscriptionID>>
flags == <<sentLoginRequest, username, connected>>
mainVars == <<main, hand, command>>
keyVars  == <<key, frame, unsent>>
socket   == <<link, toServer, toClient>>
console  == <<greeted, awaiting>>
vars == <<maps, flags, waitingForDisconnect, terminate, mainVars, gameToEvents, keyVars,
          socket, joined, lines, console, hasty>>

Empty == [star |-> FALSE, id |-> NULL]
Frame(cmd, game, sub, receipt) ==
  [cmd |-> cmd, game |-> game, sub |-> sub, receipt |-> receipt, signed |-> FALSE]
Answer(type, receipt, about) == [type |-> type, receipt |-> receipt, about |-> about]

EmptyMap == [x \in {} |-> x]
Erase(map, k) == [x \in DOMAIN map \ {k} |-> map[x]]
(* receiptToMsg.size(), and the entry that insert and operator[] leave when *)
(* the key is there already.                                                *)
ReceiptId == Cardinality(DOMAIN receiptToMsg)
Insert(map, k, v) ==
  [x \in DOMAIN map \cup {k} |-> IF x \in DOMAIN map THEN map[x] ELSE v]
SubByGame(g) == IF g \in DOMAIN gameToSubID THEN gameToSubID[g] ELSE Empty

Init ==
  /\ gameToSubID = EmptyMap /\ receiptToMsg = EmptyMap /\ subscriptionID = 0
  /\ waitingForDisconnect = FALSE /\ sentLoginRequest = FALSE /\ terminate = FALSE
  /\ username = FALSE /\ connected = FALSE
  /\ main = "loop" /\ hand = NULL /\ command = NULL /\ gameToEvents = {}
  /\ key = "prompt" /\ frame = NULL /\ unsent = 0
  /\ link = "down" /\ toServer = <<>> /\ toClient = <<>>
  /\ joined = [g \in Games |-> NULL]
  /\ lines = 0 /\ greeted = FALSE /\ awaiting = {} /\ hasty = FALSE

-----------------------------------------------------------------------------
(* The keyboard thread: a line is typed                                    *)

(* A user who waits has been told of the login, and of the end of every     *)
(* command on the game, before the next.  Of one who did not, nothing more  *)
(* is recorded.                                                             *)
Waited(g) == greeted /\ g \notin awaiting

TypeLine(waited, asking) ==
  /\ key = "prompt" /\ lines < MaxLines
  /\ lines' = lines + 1
  /\ hasty' = (hasty \/ ~ waited)
  /\ greeted' = (greeted /\ ~ hasty')
  /\ awaiting' = IF hasty' THEN {} ELSE awaiting \cup asking
  /\ UNCHANGED <<maps, flags, waitingForDisconnect, gameToEvents, joined>>

TypeLogin ==
  /\ TypeLine(TRUE, {})
  /\ ~ sentLoginRequest
  /\ key' = "connect" /\ frame' = Frame("CONNECT", NULL, Empty, NULL)
  /\ UNCHANGED <<terminate, mainVars, unsent, socket>>

TypeJoin(g) ==
  /\ TypeLine(Waited(g) /\ g \notin DOMAIN gameToSubID, {g})
  /\ key' = "subscribe"
  /\ frame' = Frame("SUBSCRIBE", g, [star |-> FALSE, id |-> subscriptionID], ReceiptId)
  /\ UNCHANGED <<terminate, mainVars, unsent, socket>>

TypeExit(g) ==
  /\ SubByGame(g) # Empty
  /\ TypeLine(Waited(g), {g})
  /\ key' = "unsubscribe" /\ frame' = Frame("UNSUBSCRIBE", g, Empty, NULL)
  /\ UNCHANGED <<terminate, mainVars, unsent, socket>>

(* checkSub: in the map, and not starred.  There will be a frame for each   *)
(* event.                                                                   *)
TypeReport(g) ==
  /\ g \in DOMAIN gameToSubID /\ ~ gameToSubID[g].star
  /\ TypeLine(Waited(g), {})
  /\ key' = "report" /\ frame' = Frame("SEND", g, Empty, NULL)
  /\ unsent' \in 0 .. MaxEvents - 1
  /\ UNCHANGED <<terminate, mainVars, socket>>

(* The Game is found; its file is written later.                            *)
TypeSummary(g) ==
  /\ g \in gameToEvents
  /\ TypeLine(TRUE, {})
  /\ key' = "summary" /\ frame' = Frame("SUMMARY", g, Empty, NULL)
  /\ UNCHANGED <<terminate, mainVars, unsent, socket>>

TypeLogout ==
  /\ TypeLine(greeted, {})
  /\ key' = "addMsg" /\ frame' = Frame("DISCONNECT", NULL, Empty, ReceiptId)
  /\ UNCHANGED <<terminate, mainVars, unsent, socket>>

TypeTerminate ==
  /\ TypeLine(TRUE, {})
  /\ terminate' = TRUE
  /\ key' = "ended"
  /\ UNCHANGED <<mainVars, frame, unsent, socket>>

(* A line that ends the process: none of its words are there (front() of an *)
(* empty vector), the port is no number or the file no JSON of events (an   *)
(* exception on this thread), the file has no events (back()).  The socket  *)
(* goes with the process.                                                   *)
TypeFatal ==
  /\ TypeLine(TRUE, {})
  /\ key' = "ended" /\ main' = "ended"
  /\ link' = "down" /\ toServer' = <<>> /\ toClient' = <<>>
  /\ UNCHANGED <<terminate, hand, command, frame, unsent>>

Type ==
  \/ TypeLogin \/ TypeLogout \/ TypeTerminate \/ TypeFatal
  \/ \E g \in Games : TypeJoin(g) \/ TypeExit(g) \/ TypeReport(g) \/ TypeSummary(g)

-----------------------------------------------------------------------------
(* The keyboard thread: a command runs                                     *)

(* connectToServer: a new connection, or none.                              *)
Connect ==
  /\ key = "connect"
  /\ \/ /\ link' = "up" /\ toServer' = <<>> /\ toClient' = <<>>
        /\ joined' = [g \in Games |-> NULL]
        /\ key' = "setLogin" /\ UNCHANGED frame
     \/ key' = "prompt" /\ frame' = NULL /\ UNCHANGED <<socket, joined>>
  /\ UNCHANGED <<maps, flags, waitingForDisconnect, unsent>>

SetLogin ==
  /\ key = "setLogin"
  /\ sentLoginRequest' = TRUE /\ connected' = TRUE
  /\ key' = "send"
  /\ UNCHANGED <<maps, username, waitingForDisconnect, frame, unsent, socket, joined>>

(* A slip for SetUsername: its parameter hides the field it should set.     *)
SetUsernameShadowed ==
  /\ key = "setUsername"
  /\ username' = username
  /\ key' = "prompt"
  /\ UNCHANGED <<maps, sentLoginRequest, connected, waitingForDisconnect, frame, unsent, socket,
                 joined>>

SetUsername ==
  /\ key = "setUsername"
  /\ username' = TRUE
  /\ key' = "prompt"
  /\ UNCHANGED <<maps, sentLoginRequest, connected, waitingForDisconnect, frame, unsent, socket,
                 joined>>

AddSubscription ==
  /\ key = "subscribe"
  /\ gameToSubID' = Insert(gameToSubID, frame.game, [star |-> TRUE, id |-> subscriptionID])
  /\ subscriptionID' = subscriptionID + 1
  /\ key' = "addMsg"
  /\ UNCHANGED <<receiptToMsg, flags, waitingForDisconnect, frame, unsent, socket, joined>>

(* buildUnsubscribeFrame looks the game up once more.                       *)
BuildUnsubscribe ==
  /\ key = "unsubscribe"
  /\ frame' = Frame("UNSUBSCRIBE", frame.game, SubByGame(frame.game), ReceiptId)
  /\ key' = "addMsg"
  /\ UNCHANGED <<maps, flags, waitingForDisconnect, unsent, socket, joined>>

(* buildSendFrames asks for the name after checkSub, and the mutex is taken *)
(* for neither.                                                             *)
BuildSendFrames ==
  /\ key = "report"
  /\ frame' = [frame EXCEPT !.signed = username]
  /\ key' = "send"
  /\ UNCHANGED <<maps, flags, waitingForDisconnect, unsent, socket, joined>>

(* A slip for Asked: the game's name is noted for a DISCONNECT, too.        *)
AskedGame(f) == f.game

Asked(f) == IF f.cmd = "DISCONNECT" THEN "DISCONNECT" ELSE f.game

AddMsg ==
  /\ key = "addMsg"
  /\ receiptToMsg' = Insert(receiptToMsg, ReceiptId, Asked(frame))
  /\ key' = "send"
  /\ UNCHANGED <<gameToSubID, subscriptionID, flags, waitingForDisconnect, frame, unsent,
                 socket, joined>>

(* sendFrame: a socket the server has closed may still take the frame, and  *)
(* the next frame of the report follows.                                    *)
Sent ==
  /\ key = "send" /\ link # "down"
  /\ toServer' = IF link = "up" THEN Append(toServer, frame) ELSE toServer
  /\ IF unsent > 0
     THEN unsent' = unsent - 1 /\ UNCHANGED <<key, frame>>
     ELSE /\ key' = CASE frame.cmd = "CONNECT" -> "setUsername"
                       [] frame.cmd = "DISCONNECT" -> "setWaiting"
                       [] OTHER -> "prompt"
          /\ frame' = NULL /\ UNCHANGED unsent
  /\ UNCHANGED <<maps, flags, waitingForDisconnect, link, toClient, joined>>

SendFails ==
  /\ key = "send" /\ link # "up"
  /\ key' = IF frame.cmd = "DISCONNECT" THEN "wait" ELSE "prompt"
  /\ frame' = NULL /\ unsent' = 0
  /\ UNCHANGED <<maps, flags, waitingForDisconnect, socket, joined>>

SetWaitingForDisconnect ==
  /\ key = "setWaiting"
  /\ waitingForDisconnect' = TRUE
  /\ key' = "wait"
  /\ UNCHANGED <<maps, flags, frame, unsent, socket, joined>>

Waits ==
  /\ key = "wait" /\ ~ waitingForDisconnect
  /\ key' = "prompt"
  /\ UNCHANGED <<maps, flags, waitingForDisconnect, frame, unsent, socket, joined>>

WriteToFile ==
  /\ key = "summary"
  /\ key' = "prompt" /\ frame' = NULL
  /\ UNCHANGED <<maps, flags, waitingForDisconnect, unsent, socket, joined>>

Keyboard ==
  /\ \/ Connect \/ SetLogin \/ SetUsername \/ BuildSendFrames \/ AddSubscription \/ BuildUnsubscribe \/ AddMsg
     \/ Sent \/ SendFails \/ SetWaitingForDisconnect \/ Waits \/ WriteToFile
  /\ UNCHANGED <<terminate, mainVars, gameToEvents, lines, console, hasty>>

-----------------------------------------------------------------------------
(* The main thread                                                         *)

(* A slip for Poll: the flag is not asked for while there is no connection. *)
PollConnected ==
  /\ main = "loop" /\ connected
  /\ main' = IF terminate THEN "ended" ELSE "reading"
  /\ UNCHANGED <<maps, flags, waitingForDisconnect, hand, command, gameToEvents, link, toClient,
                 console>>

Poll ==
  /\ main = "loop"
  /\ \/ terminate /\ main' = "ended"
     \/ ~ terminate /\ connected /\ main' = "reading"
  /\ UNCHANGED <<maps, flags, waitingForDisconnect, hand, command, gameToEvents, link, toClient,
                 console>>

(* A slip for Handler: processFrame has no case for RECEIPT.                *)
HandlerNoReceipt(type) ==
  CASE type = "ERROR" -> "logout"
    [] type = "MESSAGE" -> "message"
    [] OTHER -> "loop"

(* processFrame: where the main thread goes with a frame.  Of CONNECTED it  *)
(* only prints that the login was successful.                               *)
Handler(type) ==
  CASE type = "ERROR" -> "logout"
    [] type = "RECEIPT" -> "receipt"
    [] type = "MESSAGE" -> "message"
    [] OTHER -> "loop"

GetFrame ==
  /\ main = "reading" /\ toClient # <<>>
  /\ LET f == Head(toClient)
     IN  /\ main' = Handler(f.type)
         /\ hand' = IF main' = "loop" THEN NULL ELSE f
         /\ greeted' = (~ hasty /\ (greeted \/ f.type = "CONNECTED"))
  /\ toClient' = Tail(toClient)
  /\ UNCHANGED <<maps, flags, waitingForDisconnect, command, gameToEvents, link, awaiting>>

(* "Disconnected. Exiting..."                                               *)
GetFrameFails ==
  /\ main = "reading" /\ toClient = <<>> /\ link = "closed"
  /\ main' = "ended"
  /\ UNCHANGED <<maps, flags, waitingForDisconnect, hand, command, gameToEvents, link, toClient,
                 console>>

(* handleMessageFrame: a report of a game that has no Game yet makes one.   *)
HandleMessage ==
  /\ main = "message"
  /\ gameToEvents' = gameToEvents \cup {hand.about}
  /\ main' = "loop" /\ hand' = NULL
  /\ UNCHANGED <<maps, flags, waitingForDisconnect, command, link, toClient, console>>

(* A slip for FindCommand: the entry is erased once it is found.            *)
FindCommandErases ==
  /\ main = "receipt"
  /\ command' = receiptToMsg[hand.receipt]
  /\ receiptToMsg' = Erase(receiptToMsg, hand.receipt)
  /\ main' = IF command' = "DISCONNECT" THEN "logout" ELSE "game"
  /\ UNCHANGED <<gameToSubID, subscriptionID, flags, waitingForDisconnect, hand, gameToEvents,
                 link, toClient, console>>

(* handleReceiptFrame: each operator[] leaves an empty entry if it finds    *)
(* none.                                                                    *)
FindCommand ==
  /\ main = "receipt"
  /\ receiptToMsg' = Insert(receiptToMsg, hand.receipt, NULL)
  /\ command' = receiptToMsg'[hand.receipt]
  /\ main' = IF command' = "DISCONNECT" THEN "logout" ELSE "game"
  /\ UNCHANGED <<gameToSubID, subscriptionID, flags, waitingForDisconnect, hand, gameToEvents,
                 link, toClient, console>>

FindGame ==
  /\ main = "game"
  /\ gameToSubID' = Insert(gameToSubID, command, Empty)
  /\ main' = IF gameToSubID'[command].star THEN "confirm" ELSE "unsubscribe"
  /\ UNCHANGED <<receiptToMsg, subscriptionID, flags, waitingForDisconnect, hand, command,
                 gameToEvents, link, toClient, console>>

ConfirmSub ==
  /\ main = "confirm"
  /\ gameToSubID' = [gameToSubID EXCEPT ![command].star = FALSE]
  /\ awaiting' = awaiting \ {command}
  /\ main' = "loop" /\ hand' = NULL /\ command' = NULL
  /\ UNCHANGED <<receiptToMsg, subscriptionID, flags, waitingForDisconnect, gameToEvents, link,
                 toClient, greeted>>

(* A slip for Unsubscribe: the game's events are deleted with it.           *)
UnsubscribeForgets ==
  /\ main = "unsubscribe"
  /\ gameToSubID' = Erase(gameToSubID, command)
  /\ gameToEvents' = gameToEvents \ {command}
  /\ awaiting' = awaiting \ {command}
  /\ main' = "loop" /\ hand' = NULL /\ command' = NULL
  /\ UNCHANGED <<receiptToMsg, subscriptionID, flags, waitingForDisconnect, link, toClient,
                 greeted>>

Unsubscribe ==
  /\ main = "unsubscribe"
  /\ gameToSubID' = Erase(gameToSubID, command)
  /\ awaiting' = awaiting \ {command}
  /\ main' = "loop" /\ hand' = NULL /\ command' = NULL
  /\ UNCHANGED <<receiptToMsg, subscriptionID, flags, waitingForDisconnect, gameToEvents, link,
                 toClient, greeted>>

(* Slips for Logout: gameToSubID is not cleared; the handler is not reset.  *)
LogoutKeepsSubscriptions ==
  /\ main = "logout"
  /\ link' = "down" /\ toClient' = <<>>
  /\ receiptToMsg' = EmptyMap /\ subscriptionID' = 0
  /\ waitingForDisconnect' = FALSE
  /\ sentLoginRequest' = FALSE /\ username' = FALSE /\ connected' = FALSE
  /\ gameToEvents' = {} /\ greeted' = FALSE /\ awaiting' = {}
  /\ main' = "loop" /\ hand' = NULL /\ command' = NULL
  /\ UNCHANGED gameToSubID

LogoutStaysConnected ==
  /\ main = "logout"
  /\ link' = "down" /\ toClient' = <<>>
  /\ gameToSubID' = EmptyMap /\ receiptToMsg' = EmptyMap /\ subscriptionID' = 0
  /\ waitingForDisconnect' = FALSE /\ sentLoginRequest' = FALSE /\ username' = FALSE
  /\ gameToEvents' = {} /\ greeted' = FALSE /\ awaiting' = {}
  /\ main' = "loop" /\ hand' = NULL /\ command' = NULL
  /\ UNCHANGED connected

Logout ==
  /\ main = "logout"
  /\ link' = "down" /\ toClient' = <<>>
  /\ gameToSubID' = EmptyMap /\ receiptToMsg' = EmptyMap /\ subscriptionID' = 0
  /\ waitingForDisconnect' = FALSE
  /\ sentLoginRequest' = FALSE /\ username' = FALSE /\ connected' = FALSE
  /\ gameToEvents' = {} /\ greeted' = FALSE /\ awaiting' = {}
  /\ main' = "loop" /\ hand' = NULL /\ command' = NULL

Main ==
  /\ \/ Poll \/ GetFrame \/ GetFrameFails
     \/ FindCommand \/ FindGame \/ ConfirmSub \/ Unsubscribe \/ Logout \/ HandleMessage
  /\ UNCHANGED <<terminate, keyVars, toServer, joined, lines, hasty>>

-----------------------------------------------------------------------------
(* The server's end                                                        *)

Reply(answers, next) ==
  /\ toClient' = toClient \o answers
  /\ link' = next
ServerError == Reply(<<Answer("ERROR", NULL, NULL)>>, "closed") /\ UNCHANGED joined
Receipt(f) == Reply(<<Answer("RECEIPT", f.receipt, Asked(f))>>, "up")

ServeConnect(f) ==
  /\ f.cmd = "CONNECT"
  /\ \/ ServerError
     \/ Reply(<<Answer("CONNECTED", NULL, NULL)>>, "up") /\ UNCHANGED joined

ServeSubscribe(f) ==
  /\ f.cmd = "SUBSCRIBE"
  /\ IF joined[f.game] = NULL
     THEN joined' = [joined EXCEPT ![f.game] = f.sub.id] /\ Receipt(f)
     ELSE ServerError

(* On an empty id orderMsgInHash throws, and the connection is closed.      *)
ServeUnsubscribe(f) ==
  /\ f.cmd = "UNSUBSCRIBE"
  /\ \/ f.sub = Empty /\ Reply(<<>>, "closed") /\ UNCHANGED joined
     \/ \E g \in Games :
          /\ f.sub # Empty /\ ~ f.sub.star /\ joined[g] = f.sub.id
          /\ joined' = [joined EXCEPT ![g] = NULL]
          /\ Receipt(f)
     \/ /\ f.sub # Empty /\ (f.sub.star \/ \A g \in Games : joined[g] # f.sub.id)
        /\ ServerError

(* The client follows the game, so its report comes back to it, too.  It is *)
(* alone in the tables: that another client's first SUBSCRIBE replaces the  *)
(* topic's map (ConnectionsImp, SubscribeCreateTopic) and the SEND meets an *)
(* ERROR although it is subscribed is left out.                             *)
ServeSend(f) ==
  /\ f.cmd = "SEND"
  /\ IF joined[f.game] = NULL
     THEN ServerError
     ELSE Reply(<<Answer("MESSAGE", NULL, f.game)>>, "up") /\ UNCHANGED joined

ServeDisconnect(f) ==
  /\ f.cmd = "DISCONNECT"
  /\ Reply(<<Answer("RECEIPT", f.receipt, Asked(f))>>, "closed")
  /\ UNCHANGED joined

Serve ==
  /\ link = "up" /\ toServer # <<>>
  /\ LET f == Head(toServer)
     IN  \/ ServeConnect(f) \/ ServeSubscribe(f) \/ ServeUnsubscribe(f)
         \/ ServeSend(f) \/ ServeDisconnect(f)
  /\ toServer' = Tail(toServer)
  /\ UNCHANGED <<maps, flags, waitingForDisconnect, terminate, mainVars, gameToEvents, keyVars,
                 lines, console, hasty>>

(* Another client reports an event of a game that this one follows.         *)
OtherReports(g) ==
  /\ link = "up" /\ joined[g] # NULL /\ lines < MaxLines
  /\ Reply(<<Answer("MESSAGE", NULL, g)>>, "up")
  /\ lines' = lines + 1
  /\ UNCHANGED <<maps, flags, waitingForDisconnect, terminate, mainVars, gameToEvents, keyVars,
                 toServer, joined, console, hasty>>

(* The server's process or the network is gone.                             *)
ServerVanishes ==
  /\ link = "up" /\ link' = "closed"
  /\ UNCHANGED <<maps, flags, waitingForDisconnect, terminate, mainVars, gameToEvents, keyVars,
                 toServer, toClient, joined, lines, console, hasty>>

-----------------------------------------------------------------------------
Next ==
  \/ Type \/ Keyboard \/ Main \/ Serve \/ ServerVanishes
  \/ \E g \in Games : OtherReports(g)

Spec == Init /\ [][Next]_vars

(* Both threads run and the server answers; nobody has to type.             *)
FairSpec == Spec /\ WF_vars(Keyboard) /\ WF_vars(Main) /\ WF_vars(Serve)

-----------------------------------------------------------------------------
FrameType ==
  [cmd : {"CONNECT", "SUBSCRIBE", "UNSUBSCRIBE", "SEND", "DISCONNECT", "SUMMARY"},
   game : Games \cup {NULL}, sub : [star : BOOLEAN, id : Nat \cup {NULL}],
   receipt : Nat \cup {NULL}, signed : BOOLEAN]
AnswerType ==
  [type : {"CONNECTED", "RECEIPT", "ERROR", "MESSAGE"}, receipt : Nat \cup {NULL},
   about : Games \cup {"DISCONNECT", NULL}]

(* Types; receiptToMsg holds commands only: no lookup of handleReceiptFrame *)
(* misses there and leaves an empty one.                                    *)
TypeOK ==
  /\ DOMAIN gameToSubID \subseteq Games
  /\ \A g \in DOMAIN gameToSubID : gameToSubID[g] \in [star : BOOLEAN, id : Nat \cup {NULL}]
  /\ DOMAIN receiptToMsg \subseteq Nat
  /\ \A n \in DOMAIN receiptToMsg : receiptToMsg[n] \in Games \cup {"DISCONNECT"}
  /\ subscriptionID \in Nat
  /\ waitingForDisconnect \in BOOLEAN /\ sentLoginRequest \in BOOLEAN /\ terminate \in BOOLEAN
  /\ username \in BOOLEAN /\ connected \in BOOLEAN /\ greeted \in BOOLEAN /\ hasty \in BOOLEAN
  /\ main \in {"loop", "reading", "receipt", "message", "game", "confirm", "unsubscribe", "logout",
               "ended"}
  /\ hand \in AnswerType \cup {NULL} /\ command \in Games \cup {"DISCONNECT", NULL}
  /\ gameToEvents \subseteq Games /\ unsent \in 0 .. MaxEvents
  /\ key \in {"prompt", "connect", "setLogin", "setUsername", "report", "subscribe", "unsubscribe", "addMsg", "send",
              "setWaiting", "wait", "summary", "ended"}
  /\ frame \in FrameType \cup {NULL}
  /\ link \in {"down", "up", "closed"}
  /\ toServer \in Seq(FrameType) /\ toClient \in Seq(AnswerType)
  /\ joined \in [Games -> Nat \cup {NULL}]
  /\ lines \in 0 .. MaxLines /\ awaiting \subseteq Games

(* Receipts are numbered by the size of a map that another thread clears,   *)
(* and still: a RECEIPT on its way finds in receiptToMsg what its frame     *)
(* asked for.                                                               *)
Arriving == {toClient[i] : i \in 1 .. Len(toClient)} \cup
            (IF main = "receipt" THEN {hand} ELSE {})
ReceiptFindsCommand ==
  \A m \in Arriving : m.type = "RECEIPT" =>
    m.receipt \in DOMAIN receiptToMsg /\ receiptToMsg[m.receipt] = m.about

(* For a user who waits for the console, client and server agree on every   *)
(* game no command is under way for, and nothing outlives a session.        *)
AgreeOn(g) ==
  IF joined[g] = NULL THEN g \notin DOMAIN gameToSubID
  ELSE g \in DOMAIN gameToSubID /\ gameToSubID[g] = [star |-> FALSE, id |-> joined[g]]
SubscriptionsAgree ==
  ~ hasty /\ key = "prompt" =>
    /\ link = "up" => \A g \in Games \ awaiting : AgreeOn(g)
    /\ link = "down" => gameToSubID = EmptyMap /\ receiptToMsg = EmptyMap

(* Such a user is told of the end of every join and exit, unless the server *)
(* vanishes or the client is ended.                                         *)
CommandSettles ==
  \A g \in Games :
    g \in awaiting /\ ~ hasty ~> g \notin awaiting \/ hasty \/ main = "ended"

(* A DISCONNECT that was sent ends the session, even if the keyboard thread *)
(* is told too late or too early.                                           *)
LogoutCompletes == key = "setWaiting" ~> ~ connected \/ main = "ended"

(* logout() deletes the Games under a mutex that summary does not take: no  *)
(* Game goes while its summary is written, for a user who waits.  (An ERROR *)
(* after a hasty command may come at any time.)                             *)
SummaryReadsLive == key = "summary" /\ ~ hasty => frame.game \in gameToEvents

(* A report that reaches the server is signed: the name is set after the    *)
(* CONNECT is sent, and cleared by the other thread, but not in a session   *)
(* with a confirmed subscription.                                           *)
ReportsSigned ==
  \A i \in 1 .. Len(toServer) : toServer[i].cmd = "SEND" => toServer[i].signed

(* terminate() is a flag that the main thread reads between two frames: it  *)
(* ends all the same, once the server has nothing more to say to it.        *)
TerminateEnds == terminate /\ link # "up" ~> main = "ended"

(* "Whether the client is waiting for a receipt for disconnect"             *)
(* (StompProtocol.h): while it is, receiptToMsg has the DISCONNECT, for a   *)
(* user who waits for the console at least.                                 *)
WaitingMeansReceipt ==
  waitingForDisconnect /\ ~ hasty =>
    \E n \in DOMAIN receiptToMsg : receiptToMsg[n] = "DISCONNECT"
=============================================================================

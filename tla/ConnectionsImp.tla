--------------------------- MODULE ConnectionsImp ---------------------------
(***************************************************************************)
(* The STOMP server in its thread-per-client mode: the tables of           *)
(* ConnectionsImp, shared without a lock by one BlockingConnectionHandler  *)
(* thread per connection, and the frames those threads process.            *)
(*                                                                         *)
(* A step of this module is ONE access to a table, or to an output stream, *)
(* that another thread can observe, together with the accesses of the same *)
(* thread around it that nobody else can observe.  Private are: the        *)
(* protocol's fields, the frame, and the entries that clientToUsername,    *)
(* clientToTopics and IdToHandler hold under the thread's own handler.     *)
(* ConcurrentHashMap and ConcurrentSkipListSet make each access atomic;    *)
(* nothing makes two of them atomic.                                       *)
(***************************************************************************)
EXTENDS Naturals, Sequences

CONSTANTS
  Conns,      \* the connections the server may accept, each with its handler
  Users,      \* login names
  Passwords,  \* passcodes
  Topics,     \* destinations (game channels)
  SubIds,     \* subscription ids a client may choose
  Receipts,   \* receipt ids a client may choose
  Frames,     \* the frames the clients of this instance may send
  NULL,       \* Java's null: no value, no header
  MaxFrames,  \* bound: frames one connection sends during a behaviour
  FreshIds    \* TRUE: a client never uses a subscription id twice, as this
              \* repository's client; FALSE: it may (the server never checks)

LegalVersion == "1.2"
Commands == {"CONNECT", "DISCONNECT", "SUBSCRIBE", "UNSUBSCRIBE", "SEND",
             "OTHER",        \* a command process() does not know
             "UNPARSABLE"}   \* a text on which orderMsgInHash throws

(* What orderMsgInHash leaves in headersToValue; NULL is an absent header.  *)
Headers == [cmd : Commands, version : {LegalVersion, "1.1", NULL},
            host : {"stomp", NULL}, login : Users \cup {NULL},
            passcode : Passwords \cup {NULL},
            destination : Topics \cup {NULL}, id : SubIds \cup {NULL},
            body : BOOLEAN,  \* the body is not empty
            receipt : Receipts \cup {NULL}, receiptId : Receipts \cup {NULL}]

ASSUME NullAssumption ==
  /\ NULL \notin Conns /\ NULL \notin Users /\ NULL \notin Passwords
  /\ NULL \notin Topics /\ NULL \notin SubIds /\ NULL \notin Receipts
  /\ NULL \notin Headers
ASSUME FramesAssumption == Frames \subseteq Headers
ASSUME BoundAssumption == MaxFrames \in Nat /\ FreshIds \in BOOLEAN

VARIABLES
  \* The tables of ConnectionsImp.
  usernameToPass,   \* user -> the password registered, or NULL
  clientToUsername, \* connection -> the user it logged in as, or NULL
  loggedInUsers,    \* the users logged in
  topicToClients,   \* topic -> the map object it refers to, or NULL.  A map
                    \* object is named by the connection that created it: a
                    \* thread creates at most one for a topic
  maps,             \* topic -> map object -> handler -> subscription id
  clientToTopics,   \* connection -> subscription id -> topic
  IdToHandler,      \* the connection ids that resolve to a handler
  \* Each connection's protocol object and thread.
  shouldTerminate,  \* StompMessagingProtocolImpl.shouldTerminate
  pc,               \* where the handler's thread is
  frame,            \* the frame it is processing, or NULL
  errors,           \* errorList is not empty
  topicMap,         \* the map object a local variable refers to, or NULL
  iter,             \* the for loop of send(channel): what the iterator may
                    \* still return, the handler and the id it is working on
  leaving,          \* topics whose map the thread has still to leave
  \* What the clients see and do.
  out,              \* connection -> the frames written to its socket
  received,         \* connection -> number of frames read from it
  issued            \* connection -> subscription id -> the topic the client
                    \* asked for under that id (a history variable)

userTables  == <<usernameToPass, clientToUsername, loggedInUsers>>
topicTables == <<topicToClients, maps, clientToTopics>>
protocol    == <<IdToHandler, shouldTerminate>>
locals      == <<errors, topicMap, iter, leaving>>
client      == <<received, issued>>
vars == <<userTables, topicTables, protocol, pc, frame, locals, out, client>>

-----------------------------------------------------------------------------
(* Frames the server writes.                                               *)

Reply == [type : {"CONNECTED", "RECEIPT", "ERROR", "MESSAGE"},
          receipt : Receipts \cup {NULL}, subscription : SubIds \cup {NULL},
          destination : Topics \cup {NULL},
          from : Conns \cup {NULL},  \* a MESSAGE's body: its sender and how
          n : 0 .. MaxFrames]        \* manieth frame of the sender it was

ServerFrame(type, receipt) ==
  [type |-> type, receipt |-> receipt, subscription |-> NULL,
   destination |-> NULL, from |-> NULL, n |-> 0]

(* buildSendMessage: messageId is never incremented and so carries nothing. *)
Message(channel, subscriptionId, sender) ==
  [type |-> "MESSAGE", receipt |-> NULL, subscription |-> subscriptionId,
   destination |-> channel, from |-> sender, n |-> received[sender]]

(* ConnectionHandler.send: a closed socket makes write throw an IOException *)
(* that send catches.                                                       *)
Write(h, msg) ==
  out' = IF pc[h] = "closed" THEN out ELSE [out EXCEPT ![h] = Append(@, msg)]

(* CONNECT and SEND look for "receipt-id", the other frames for "receipt".  *)
ReceiptHeader(f) ==
  IF f.cmd \in {"CONNECT", "SEND"} THEN f.receiptId ELSE f.receipt

(* isLegalFrame of each frame, as far as the frame alone decides.           *)
MalformedConnect(f) == NULL \in {f.version, f.host, f.login, f.passcode}
MalformedSubscribe(f) == f.destination = NULL \/ f.id = NULL \/ f.body
MalformedUnsubscribe(f) == f.id = NULL \/ f.body
Malformed(f) ==
  \/ f.cmd = "CONNECT" /\ MalformedConnect(f)
  \/ f.cmd = "DISCONNECT" /\ f.receipt = NULL
  \/ f.cmd = "SUBSCRIBE" /\ MalformedSubscribe(f)
  \/ f.cmd = "UNSUBSCRIBE" /\ MalformedUnsubscribe(f)
  \/ f.cmd = "SEND" /\ f.destination = NULL

(* The thread of c is about to act on a frame with command cmd.             *)
Processing(c, cmd) == pc[c] = "process" /\ frame[c].cmd = cmd

Goto(c, label) == pc' = [pc EXCEPT ![c] = label] /\ UNCHANGED frame
Return(c) == /\ pc' = [pc EXCEPT ![c] = "read"]
             /\ frame' = [frame EXCEPT ![c] = NULL]

(* The frame is done but for the RECEIPT it may ask for.                    *)
Acknowledge(c) ==
  IF ReceiptHeader(frame[c]) = NULL THEN Return(c) ELSE Goto(c, "receipt")

(* topicToClients.get(t).get(h)                                             *)
Entry(t, h) ==
  IF topicToClients[t] = NULL THEN NULL ELSE maps[t][topicToClients[t]][h]

-----------------------------------------------------------------------------
Init ==
  /\ usernameToPass = [u \in Users |-> NULL]
  /\ clientToUsername = [c \in Conns |-> NULL]
  /\ loggedInUsers = {}
  /\ topicToClients = [t \in Topics |-> NULL]
  /\ maps = [t \in Topics |-> [o \in Conns |-> [h \in Conns |-> NULL]]]
  /\ clientToTopics = [c \in Conns |-> [i \in SubIds |-> NULL]]
  /\ IdToHandler = {}
  /\ shouldTerminate = [c \in Conns |-> FALSE]
  /\ pc = [c \in Conns |-> "new"]
  /\ frame = [c \in Conns |-> NULL]
  /\ errors = [c \in Conns |-> FALSE]
  /\ topicMap = [c \in Conns |-> NULL]
  /\ iter = [c \in Conns |-> [visit |-> [h \in Conns |-> "no"],
                              to |-> NULL, subscriptionId |-> NULL]]
  /\ leaving = [c \in Conns |-> {}]
  /\ out = [c \in Conns |-> <<>>]
  /\ received = [c \in Conns |-> 0]
  /\ issued = [c \in Conns |-> [i \in SubIds |-> NULL]]

-----------------------------------------------------------------------------
(* The connection: BaseServer's accept loop and BlockingConnectionHandler.run *)

Accept(c) ==
  /\ pc[c] = "new"
  /\ IdToHandler' = IdToHandler \cup {c}
  /\ Goto(c, "read")
  /\ UNCHANGED <<userTables, topicTables, shouldTerminate, locals, out, client>>

(* The client's side of FreshIds: each SUBSCRIBE carries an id never used.  *)
MaySend(c, f) ==
  FreshIds /\ f.cmd = "SUBSCRIBE" /\ f.id # NULL => issued[c][f.id] = NULL

Receive(c, f) ==
  /\ pc[c] = "read" /\ ~ shouldTerminate[c]
  /\ received[c] < MaxFrames
  /\ MaySend(c, f)
  /\ received' = [received EXCEPT ![c] = @ + 1]
  /\ issued' = IF f.cmd = "SUBSCRIBE" /\ f.id # NULL
               THEN [issued EXCEPT ![c][f.id] = f.destination] ELSE issued
  /\ frame' = [frame EXCEPT ![c] = f]
  /\ errors' = [errors EXCEPT ![c] = FALSE]
  /\ pc' = [pc EXCEPT ![c] = "process"]
  /\ UNCHANGED <<userTables, topicTables, protocol, topicMap, iter, leaving, out>>

(* The client is gone: read() returns -1, the loop ends and close() closes  *)
(* the socket.  Nobody calls disconnect.                                    *)
ClientCloses(c) ==
  /\ pc[c] = "read" /\ ~ shouldTerminate[c]
  /\ Goto(c, "closed")
  /\ UNCHANGED <<userTables, topicTables, protocol, locals, out, client>>

(* An exception leaves process() and run(): the try block closes the socket *)
(* and the thread dies.  orderMsgInHash throws on a text without the        *)
(* separators it looks for; logOutUser(null) throws for a connection that   *)
(* never logged in.                                                         *)
ProcessThrows(c) ==
  /\ \/ Processing(c, "UNPARSABLE")
     \/ /\ Processing(c, "DISCONNECT") /\ ~ Malformed(frame[c])
        /\ clientToUsername[c] = NULL
  /\ pc' = [pc EXCEPT ![c] = "closed"]
  /\ frame' = [frame EXCEPT ![c] = NULL]
  /\ UNCHANGED <<userTables, topicTables, protocol, locals, out, client>>

Ignore(c) ==
  /\ Processing(c, "OTHER")
  /\ Return(c)
  /\ UNCHANGED <<userTables, topicTables, protocol, locals, out, client>>

RejectMalformed(c) ==
  /\ pc[c] = "process" /\ Malformed(frame[c])
  /\ Goto(c, "reject")
  /\ UNCHANGED <<userTables, topicTables, protocol, locals, out, client>>

(* The while loop of run() sees shouldTerminate().                          *)
CloseSocket(c) ==
  /\ pc[c] = "terminated" /\ shouldTerminate[c]
  /\ Goto(c, "closed")
  /\ UNCHANGED <<userTables, topicTables, protocol, locals, out, client>>

-----------------------------------------------------------------------------
(* CONNECT                                                                 *)

(* IsTheClientConnected (a private entry), then IsloggedInUser.             *)
ConnectCheckUser(c) ==
  /\ Processing(c, "CONNECT") /\ ~ Malformed(frame[c])
  /\ errors' = [errors EXCEPT ![c] =
       clientToUsername[c] # NULL \/ frame[c].login \in loggedInUsers]
  /\ Goto(c, "password")
  /\ UNCHANGED <<userTables, topicTables, protocol, topicMap, iter, leaving,
                 out, client>>

(* checkPasswordForUser, first get: is the user known?                      *)
CheckPasswordGet(c) ==
  /\ pc[c] = "password"
  /\ Goto(c, IF usernameToPass[frame[c].login] = NULL
             THEN "register" ELSE "compare")
  /\ UNCHANGED <<userTables, topicTables, protocol, locals, out, client>>

(* ... it was not: register the user with this password, whatever the other *)
(* checks said.                                                             *)
CheckPasswordRegister(c) ==
  /\ pc[c] = "register"
  /\ usernameToPass' = [usernameToPass EXCEPT ![frame[c].login] = frame[c].passcode]
  /\ Goto(c, IF errors[c] THEN "reject" ELSE "login")
  /\ UNCHANGED <<clientToUsername, loggedInUsers, topicTables, protocol, locals,
                 out, client>>

(* A slip for the password check: known users are let in unchecked.         *)
CheckPasswordForgotten(c) ==
  /\ pc[c] = "compare"
  /\ Goto(c, IF errors[c] THEN "reject" ELSE "login")
  /\ UNCHANGED <<userTables, topicTables, protocol, locals, out, client>>

(* ... it was: get the password again and compare.                          *)
CheckPasswordCompare(c) ==
  /\ pc[c] = "compare"
  /\ LET failed == errors[c] \/ usernameToPass[frame[c].login] # frame[c].passcode
     IN  /\ errors' = [errors EXCEPT ![c] = failed]
         /\ Goto(c, IF failed THEN "reject" ELSE "login")
  /\ UNCHANGED <<userTables, topicTables, protocol, topicMap, iter, leaving,
                 out, client>>

(* A slip for ConnectLogIn: connect's two strings are swapped.              *)
ConnectSwapped(c) ==
  /\ pc[c] = "login"
  /\ loggedInUsers' = loggedInUsers \cup {frame[c].passcode}
  /\ Goto(c, "store")
  /\ UNCHANGED <<usernameToPass, clientToUsername, topicTables, protocol, locals,
                 out, client>>

(* connect(): the three tables one after the other.                         *)
ConnectLogIn(c) ==
  /\ pc[c] = "login"
  /\ loggedInUsers' = loggedInUsers \cup {frame[c].login}
  /\ Goto(c, "store")
  /\ UNCHANGED <<usernameToPass, clientToUsername, topicTables, protocol, locals,
                 out, client>>

ConnectStore(c) ==
  /\ pc[c] = "store"
  /\ usernameToPass' = [usernameToPass EXCEPT ![frame[c].login] = frame[c].passcode]
  /\ clientToUsername' = [clientToUsername EXCEPT ![c] = frame[c].login]
  /\ Goto(c, "connected")
  /\ UNCHANGED <<loggedInUsers, topicTables, protocol, locals, out, client>>

SendConnected(c) ==
  /\ pc[c] = "connected"
  /\ Write(c, ServerFrame("CONNECTED", NULL))
  /\ Acknowledge(c)
  /\ UNCHANGED <<userTables, topicTables, protocol, locals, client>>

-----------------------------------------------------------------------------
(* Replies to the sender of a frame, DISCONNECT and disconnect()            *)

(* A receipt answers a frame; that of DISCONNECT is followed by disconnect. *)
SendReceipt(c) ==
  /\ pc[c] = "receipt"
  /\ Write(c, ServerFrame("RECEIPT", ReceiptHeader(frame[c])))
  /\ IF frame[c].cmd = "DISCONNECT" THEN Goto(c, "disconnect") ELSE Return(c)
  /\ UNCHANGED <<userTables, topicTables, protocol, locals, client>>

(* A slip for SendErrorFrame: the connection goes on after its error.       *)
SendErrorAndGoOn(c) ==
  /\ pc[c] = "reject"
  /\ Write(c, ServerFrame("ERROR", frame[c].receipt))
  /\ Return(c)
  /\ UNCHANGED <<userTables, topicTables, protocol, locals, client>>

(* Every error is reported in an ERROR frame and ends the connection.       *)
SendErrorFrame(c) ==
  /\ pc[c] = "reject"
  /\ Write(c, ServerFrame("ERROR", frame[c].receipt))
  /\ Goto(c, "disconnect")
  /\ UNCHANGED <<userTables, topicTables, protocol, locals, client>>

LogOutUser(c) ==
  /\ Processing(c, "DISCONNECT") /\ ~ Malformed(frame[c])
  /\ clientToUsername[c] # NULL
  /\ loggedInUsers' = loggedInUsers \ {clientToUsername[c]}
  /\ Goto(c, "receipt")
  /\ UNCHANGED <<usernameToPass, clientToUsername, topicTables, protocol, locals,
                 out, client>>

(* A slip for DisconnectBegin: the topics are looked up when they are gone. *)
DisconnectForgets(c) ==
  /\ pc[c] = "disconnect"
  /\ clientToTopics' = [clientToTopics EXCEPT ![c] = [i \in SubIds |-> NULL]]
  /\ Goto(c, "leaving")
  /\ UNCHANGED <<userTables, topicToClients, maps, protocol, locals, out, client>>

(* disconnect(): forget the client's subscriptions, keep their topics.      *)
DisconnectBegin(c) ==
  /\ pc[c] = "disconnect"
  /\ leaving' = [leaving EXCEPT ![c] =
                   {clientToTopics[c][i] : i \in SubIds} \ {NULL}]
  /\ clientToTopics' = [clientToTopics EXCEPT ![c] = [i \in SubIds |-> NULL]]
  /\ Goto(c, "leaving")
  /\ UNCHANGED <<userTables, topicToClients, maps, protocol, errors, topicMap,
                 iter, out, client>>

(* Threads iterating over map object o of topic t (a ConcurrentHashMap, so  *)
(* the iterators are weakly consistent): "must" is an entry that was there  *)
(* when the iterator was made and has stayed, "may" one that came or went.  *)
Iterating(b, t, o) ==
  /\ pc[b] \in {"fanout", "fetch", "push"}
  /\ frame[b].destination = t /\ topicMap[b] = o

(* Map object o of topic t: what a put and a remove of h's entry change.    *)
PutEntry(t, o, h, subscriptionId) ==
  /\ maps' = [maps EXCEPT ![t][o][h] = subscriptionId]
  /\ iter' = [b \in Conns |-> IF Iterating(b, t, o)
                THEN [iter[b] EXCEPT !.visit[h] = "may"] ELSE iter[b]]

RemoveEntry(t, o, h) ==
  /\ maps' = [maps EXCEPT ![t][o][h] = NULL]
  /\ iter' = [b \in Conns |-> IF Iterating(b, t, o) /\ iter[b].visit[h] = "must"
                THEN [iter[b] EXCEPT !.visit[h] = "may"] ELSE iter[b]]

(* A slip for DisconnectLeave: the loop does not advance.                   *)
DisconnectLeaveAgain(c, t) ==
  /\ pc[c] = "leaving" /\ t \in leaving[c]
  /\ RemoveEntry(t, topicToClients[t], c)
  /\ UNCHANGED <<userTables, topicToClients, clientToTopics, protocol, pc, frame,
                 errors, topicMap, leaving, out, client>>

(* ... and leave the maps of those topics one by one.  get(topic) and the   *)
(* remove that follows are one step, here and in UnsubscribeLeave; a put    *)
(* between the two (SubscribeCreateTopic) would only have the entry taken   *)
(* from the replaced map.                                                   *)
DisconnectLeave(c, t) ==
  /\ pc[c] = "leaving" /\ t \in leaving[c]
  /\ RemoveEntry(t, topicToClients[t], c)
  /\ leaving' = [leaving EXCEPT ![c] = @ \ {t}]
  /\ UNCHANGED <<userTables, topicToClients, clientToTopics, protocol, pc, frame,
                 errors, topicMap, out, client>>

(* A slip for DisconnectEnd: it logs out the user the frame names, which a  *)
(* rejected CONNECT never was.                                              *)
DisconnectNamedUser(c) ==
  /\ pc[c] = "leaving" /\ leaving[c] = {}
  /\ IdToHandler' = IdToHandler \ {c}
  /\ loggedInUsers' = loggedInUsers \ {frame[c].login}
  /\ shouldTerminate' = [shouldTerminate EXCEPT ![c] = TRUE]
  /\ pc' = [pc EXCEPT ![c] = "terminated"]
  /\ frame' = [frame EXCEPT ![c] = NULL]
  /\ UNCHANGED <<usernameToPass, clientToUsername, topicTables, locals, out, client>>

(* loggedInUsers.remove(null) throws, and the exception is swallowed.       *)
DisconnectEnd(c) ==
  /\ pc[c] = "leaving" /\ leaving[c] = {}
  /\ IdToHandler' = IdToHandler \ {c}
  /\ loggedInUsers' = loggedInUsers \ {clientToUsername[c]}
  /\ shouldTerminate' = [shouldTerminate EXCEPT ![c] = TRUE]
  /\ pc' = [pc EXCEPT ![c] = "terminated"]
  /\ frame' = [frame EXCEPT ![c] = NULL]
  /\ UNCHANGED <<usernameToPass, clientToUsername, topicTables, locals, out, client>>

-----------------------------------------------------------------------------
(* SUBSCRIBE and UNSUBSCRIBE                                               *)

(* A slip for SubscribeFindTopic: a topic's map is made without asking.     *)
SubscribeAlwaysCreates(c) ==
  /\ Processing(c, "SUBSCRIBE") /\ ~ Malformed(frame[c])
  /\ Goto(c, "create")
  /\ UNCHANGED <<userTables, topicTables, protocol, locals, out, client>>

SubscribeFindTopic(c) ==
  /\ Processing(c, "SUBSCRIBE") /\ ~ Malformed(frame[c])
  /\ Goto(c, IF topicToClients[frame[c].destination] = NULL
             THEN "create" ELSE "join")
  /\ UNCHANGED <<userTables, topicTables, protocol, locals, out, client>>

(* put(topic, new map): replaces the map another thread has put meanwhile.  *)
SubscribeCreateTopic(c) ==
  /\ pc[c] = "create"
  /\ topicToClients' = [topicToClients EXCEPT ![frame[c].destination] = c]
  /\ Goto(c, "join")
  /\ UNCHANGED <<userTables, maps, clientToTopics, protocol, locals, out, client>>

(* Take a reference to the topic's map; its entry for c is private to c.    *)
SubscribeJoin(c) ==
  /\ pc[c] = "join"
  /\ topicMap' = [topicMap EXCEPT ![c] = topicToClients[frame[c].destination]]
  /\ Goto(c, IF Entry(frame[c].destination, c) # NULL THEN "reject" ELSE "record")
  /\ UNCHANGED <<userTables, topicTables, protocol, errors, iter, leaving, out,
                 client>>

(* Enter the map referred to, then clientToTopics.                          *)
SubscribeRecord(c) ==
  /\ pc[c] = "record"
  /\ PutEntry(frame[c].destination, topicMap[c], c, frame[c].id)
  /\ clientToTopics' = [clientToTopics EXCEPT ![c][frame[c].id] = frame[c].destination]
  /\ topicMap' = [topicMap EXCEPT ![c] = NULL]
  /\ Acknowledge(c)
  /\ UNCHANGED <<userTables, topicToClients, protocol, errors, leaving, out, client>>

(* The topic of the id, if any, and c's entry in the topic's map decide;    *)
(* the pair is removed from clientToTopics at once ...                      *)
UnsubscribeFind(c) ==
  /\ Processing(c, "UNSUBSCRIBE") /\ ~ Malformed(frame[c])
  /\ LET topic == clientToTopics[c][frame[c].id]
     IN  IF topic = NULL \/ Entry(topic, c) = NULL
         THEN Goto(c, "reject") /\ UNCHANGED <<clientToTopics, leaving>>
         ELSE /\ clientToTopics' = [clientToTopics EXCEPT ![c][frame[c].id] = NULL]
              /\ leaving' = [leaving EXCEPT ![c] = {topic}]
              /\ Goto(c, "unsubscribe")
  /\ UNCHANGED <<userTables, topicToClients, maps, protocol, errors, topicMap,
                 iter, out, client>>

(* A slip for UnsubscribeLeave: the last subscriber drops the topic.        *)
UnsubscribeDropsTopic(c) ==
  /\ pc[c] = "unsubscribe"
  /\ \E t \in leaving[c] :
       /\ RemoveEntry(t, topicToClients[t], c)
       /\ topicToClients' =
            IF \E h \in Conns \ {c} : Entry(t, h) # NULL THEN topicToClients
            ELSE [topicToClients EXCEPT ![t] = NULL]
  /\ leaving' = [leaving EXCEPT ![c] = {}]
  /\ Acknowledge(c)
  /\ UNCHANGED <<userTables, clientToTopics, protocol, errors, topicMap, out, client>>

(* ... and the entry from the map the topic has by then.                    *)
UnsubscribeLeave(c) ==
  /\ pc[c] = "unsubscribe"
  /\ \E t \in leaving[c] : RemoveEntry(t, topicToClients[t], c)
  /\ leaving' = [leaving EXCEPT ![c] = {}]
  /\ Acknowledge(c)
  /\ UNCHANGED <<userTables, topicToClients, clientToTopics, protocol, errors,
                 topicMap, out, client>>

-----------------------------------------------------------------------------
(* SEND                                                                    *)

(* isUserSubscribedToChannel                                                *)
SendCheck(c) ==
  /\ Processing(c, "SEND") /\ ~ Malformed(frame[c])
  /\ Goto(c, IF Entry(frame[c].destination, c) = NULL THEN "reject" ELSE "open")
  /\ UNCHANGED <<userTables, topicTables, protocol, locals, out, client>>

(* send(channel): take the map the topic has now and an iterator over it.   *)
SendOpen(c) ==
  /\ pc[c] = "open"
  /\ LET o == topicToClients[frame[c].destination]
     IN  /\ topicMap' = [topicMap EXCEPT ![c] = o]
         /\ iter' = [iter EXCEPT ![c] = [@ EXCEPT !.visit = [h \in Conns |->
              IF maps[frame[c].destination][o][h] # NULL THEN "must" ELSE "no"]]]
  /\ Goto(c, "fanout")
  /\ UNCHANGED <<userTables, topicTables, protocol, errors, leaving, out, client>>

(* A slip for SendNext: the iterator may return a handler twice.            *)
SendNextAgain(c, h) ==
  /\ pc[c] = "fanout" /\ iter[c].visit[h] # "no"
  /\ \E v \in {"no", "may"} :
       iter' = [iter EXCEPT ![c] = [@ EXCEPT !.visit[h] = v, !.to = h]]
  /\ Goto(c, "fetch")
  /\ UNCHANGED <<userTables, topicTables, protocol, errors, topicMap, leaving,
                 out, client>>

SendNext(c, h) ==
  /\ pc[c] = "fanout" /\ iter[c].visit[h] # "no"
  /\ iter' = [iter EXCEPT ![c] = [@ EXCEPT !.visit[h] = "no", !.to = h]]
  /\ Goto(c, "fetch")
  /\ UNCHANGED <<userTables, topicTables, protocol, errors, topicMap, leaving,
                 out, client>>

(* A slip for SendFetch: the MESSAGE carries the sender's own id.           *)
SendFetchOwnId(c) ==
  /\ pc[c] = "fetch"
  /\ iter' = [iter EXCEPT ![c] = [@ EXCEPT !.subscriptionId =
                maps[frame[c].destination][topicMap[c]][c]]]
  /\ Goto(c, "push")
  /\ UNCHANGED <<userTables, topicTables, protocol, errors, topicMap, leaving,
                 out, client>>

(* The id under which the handler is in the map, null if it has just left.  *)
SendFetch(c) ==
  /\ pc[c] = "fetch"
  /\ iter' = [iter EXCEPT ![c] = [@ EXCEPT !.subscriptionId =
                maps[frame[c].destination][topicMap[c]][iter[c].to]]]
  /\ Goto(c, "push")
  /\ UNCHANGED <<userTables, topicTables, protocol, errors, topicMap, leaving,
                 out, client>>

(* A slip for SendPush: the sender is left out.                             *)
SendPushToOthers(c) ==
  /\ pc[c] = "push"
  /\ IF iter[c].to = c THEN UNCHANGED out
     ELSE Write(iter[c].to, Message(frame[c].destination, iter[c].subscriptionId, c))
  /\ iter' = [iter EXCEPT ![c] = [@ EXCEPT !.to = NULL, !.subscriptionId = NULL]]
  /\ Goto(c, "fanout")
  /\ UNCHANGED <<userTables, topicTables, protocol, errors, topicMap, leaving, client>>

SendPush(c) ==
  /\ pc[c] = "push"
  /\ Write(iter[c].to, Message(frame[c].destination, iter[c].subscriptionId, c))
  /\ iter' = [iter EXCEPT ![c] = [@ EXCEPT !.to = NULL, !.subscriptionId = NULL]]
  /\ Goto(c, "fanout")
  /\ UNCHANGED <<userTables, topicTables, protocol, errors, topicMap, leaving, client>>

SendDone(c) ==
  /\ pc[c] = "fanout"
  /\ \A h \in Conns : iter[c].visit[h] # "must"
  /\ iter' = [iter EXCEPT ![c] = [@ EXCEPT !.visit = [h \in Conns |-> "no"]]]
  /\ topicMap' = [topicMap EXCEPT ![c] = NULL]
  /\ Acknowledge(c)
  /\ UNCHANGED <<userTables, topicTables, protocol, errors, leaving, out, client>>

-----------------------------------------------------------------------------
ConnectSteps(c) ==
  \/ ConnectCheckUser(c) \/ CheckPasswordGet(c) \/ CheckPasswordRegister(c)
  \/ CheckPasswordCompare(c) \/ ConnectLogIn(c) \/ ConnectStore(c)
  \/ SendConnected(c)

DisconnectSteps(c) ==
  \/ SendReceipt(c) \/ SendErrorFrame(c) \/ LogOutUser(c) \/ DisconnectBegin(c)
  \/ (\E t \in Topics : DisconnectLeave(c, t)) \/ DisconnectEnd(c) \/ CloseSocket(c)

TopicSteps(c) ==
  \/ SubscribeFindTopic(c) \/ SubscribeCreateTopic(c) \/ SubscribeJoin(c)
  \/ SubscribeRecord(c) \/ UnsubscribeFind(c) \/ UnsubscribeLeave(c)

SendSteps(c) ==
  \/ SendCheck(c) \/ SendOpen(c) \/ (\E h \in Conns : SendNext(c, h))
  \/ SendFetch(c) \/ SendPush(c) \/ SendDone(c)

(* What the thread of c does by itself.                                    *)
ThreadStep(c) ==
  \/ ProcessThrows(c) \/ Ignore(c) \/ RejectMalformed(c)
  \/ ConnectSteps(c) \/ DisconnectSteps(c) \/ TopicSteps(c) \/ SendSteps(c)

(* What the client of c does.                                              *)
ClientStep(c) == Accept(c) \/ (\E f \in Frames : Receive(c, f)) \/ ClientCloses(c)

(* Every connection is over: the accept loop waits for the next.           *)
Quiescent == (\A c \in Conns : pc[c] = "closed") /\ UNCHANGED vars

Next == (\E c \in Conns : ThreadStep(c) \/ ClientStep(c)) \/ Quiescent

Spec == Init /\ [][Next]_vars

(* The threads are scheduled; clients owe the server nothing.              *)
FairSpec == Spec /\ \A c \in Conns : WF_vars(ThreadStep(c))

-----------------------------------------------------------------------------
Labels == {"new", "read", "process", "password", "register", "compare",
           "login", "store", "connected", "reject", "receipt", "disconnect",
           "leaving", "terminated", "closed", "create", "join", "record",
           "unsubscribe", "open", "fanout", "fetch", "push"}

(* The for loop of send(channel): which handlers the iterator may still     *)
(* return, the one it has returned last and the id fetched for it.          *)
Loop == [visit : [Conns -> {"no", "may", "must"}], to : Conns \cup {NULL},
         subscriptionId : SubIds \cup {NULL}]

(* Every variable holds values of the type of the field or local it models; *)
(* a thread between frames has none in hand, a working one has.             *)
TypeOK ==
  /\ usernameToPass \in [Users -> Passwords \cup {NULL}]
  /\ clientToUsername \in [Conns -> Users \cup {NULL}]
  /\ loggedInUsers \subseteq Users
  /\ topicToClients \in [Topics -> Conns \cup {NULL}]
  /\ maps \in [Topics -> [Conns -> [Conns -> SubIds \cup {NULL}]]]
  /\ clientToTopics \in [Conns -> [SubIds -> Topics \cup {NULL}]]
  /\ IdToHandler \subseteq Conns
  /\ shouldTerminate \in [Conns -> BOOLEAN]
  /\ pc \in [Conns -> Labels]
  /\ frame \in [Conns -> Frames \cup {NULL}]
  /\ errors \in [Conns -> BOOLEAN]
  /\ topicMap \in [Conns -> Conns \cup {NULL}]
  /\ iter \in [Conns -> Loop]
  /\ leaving \in [Conns -> SUBSET Topics]
  /\ out \in [Conns -> Seq(Reply)]
  /\ received \in [Conns -> 0 .. MaxFrames]
  /\ issued \in [Conns -> [SubIds -> Topics \cup {NULL}]]

-----------------------------------------------------------------------------
(* Sessions                                                                *)

(* disconnect() leaves nothing behind: a terminated connection is in the    *)
(* map of no topic, whatever other threads did to those maps meanwhile.     *)
(* (If clients do not reuse subscription ids.)                              *)
NoGhostSubscriber ==
  \A c \in Conns : shouldTerminate[c] => \A t \in Topics : Entry(t, c) = NULL

(* The password of user u is p, and every thread that may still store one   *)
(* for u brought p.                                                         *)
PasswordSettled(u, p) ==
  /\ usernameToPass[u] = p
  /\ \A c \in Conns : /\ pc[c] \in {"register", "login", "store"}
                      /\ frame[c].login = u
                      => frame[c].passcode = p

(* Once the race of a user's first logins is over, its password is never    *)
(* replaced and nobody with another password gets past                      *)
(* checkPasswordForUser.                                                    *)
SettledPassword ==
  [][\A u \in Users, p \in Passwords :
       PasswordSettled(u, p) => PasswordSettled(u, p)']_vars

(* A client at rest, logged in as a user nobody else ever logged in as, is  *)
(* in loggedInUsers: no rejected login and no end of another connection     *)
(* logs it out.                                                             *)
SoleSessionListed ==
  \A c \in Conns :
    /\ pc[c] = "read" /\ clientToUsername[c] # NULL
    /\ \A d \in Conns \ {c} : clientToUsername[d] # clientToUsername[c]
    => clientToUsername[c] \in loggedInUsers

-----------------------------------------------------------------------------
(* Topics                                                                  *)

(* Topic t exists, and no thread that found it missing has yet to put it.   *)
TopicSettled(t) ==
  /\ topicToClients[t] # NULL
  /\ \A c \in Conns : pc[c] = "create" => frame[c].destination # t

(* Once the race of the first subscribers of a topic is over, the topic's   *)
(* map is never replaced, and nobody leaves it but by an UNSUBSCRIBE or a   *)
(* disconnection of his own: others cannot make a client at rest lose its   *)
(* subscription.                                                            *)
KeepsSubscription ==
  [][\A t \in Topics : TopicSettled(t) =>
       /\ TopicSettled(t)'
       /\ \A c \in Conns : pc[c] = "read" => Entry(t, c)' = Entry(t, c)]_vars

(* The MESSAGE frames h was sent.                                           *)
Delivered(h) == {i \in DOMAIN out[h] : out[h][i].type = "MESSAGE"}

(* A client never asked for topic t under two subscription ids.             *)
SubscribedOnce(h, t) ==
  \A i, j \in SubIds : issued[h][i] = t /\ issued[h][j] = t => i = j

(* A subscriber sees the events of one sender in the order they were sent,  *)
(* and each at most once if it subscribed once, however the broadcasts,     *)
(* subscriptions and departures interleave.  (A client that leaves and      *)
(* returns during a broadcast may be met twice by the iterator.)            *)
EventsInOrderOnce ==
  \A h \in Conns : \A i, j \in Delivered(h) :
    i < j /\ out[h][i].from = out[h][j].from =>
      \/ out[h][i].n < out[h][j].n
      \/ /\ out[h][i].n = out[h][j].n
         /\ ~ SubscribedOnce(h, out[h][i].destination)

(* A broadcast skips nobody: whoever is in the map it walks over, and whom  *)
(* its iterator has behind it, was written the event or is gone; clients    *)
(* that come and go meanwhile make nobody else miss it.                     *)
NobodySkipped ==
  \A c, h \in Conns :
    /\ pc[c] = "fanout" /\ iter[c].visit[h] = "no"
    /\ maps[frame[c].destination][topicMap[c]][h] # NULL
    => \/ pc[h] = "closed"
       \/ \E i \in Delivered(h) : out[h][i].from = c /\ out[h][i].n = received[c]

(* A MESSAGE that names a subscription names one its receiver opened, and   *)
(* carries the destination the receiver opened it for.                      *)
RoutedById ==
  \A h \in Conns : \A i \in Delivered(h) :
    out[h][i].subscription # NULL =>
      issued[h][out[h][i].subscription] = out[h][i].destination

-----------------------------------------------------------------------------
(* Progress                                                                *)

(* Whatever other threads do to the maps it walks over, a thread is done    *)
(* with its frame some day.                                                 *)
FrameFinishes ==
  \A c \in Conns : pc[c] = "process" ~> pc[c] \in {"read", "closed"}

(* A connection that was sent an ERROR frame is closed.                     *)
ErrorCloses ==
  \A c \in Conns :
    (\E i \in DOMAIN out[c] : out[c][i].type = "ERROR") ~> pc[c] = "closed"

-----------------------------------------------------------------------------
(* What comments of the source say, and the code does not keep.            *)

(* "User already logged in." (ConnectFrame): two clients at rest are never  *)
(* logged in as one user.                                                   *)
OneSessionPerUser ==
  \A c, d \in Conns : pc[c] = "read" /\ pc[d] = "read" /\ c # d
                      /\ clientToUsername[c] # NULL
                      => clientToUsername[c] # clientToUsername[d]

(* "Adds new subscription to relevant topic; returns true if completed      *)
(* successfully": a client at rest is in the maps of its subscriptions.     *)
SubscriptionRegistered ==
  \A c \in Conns, i \in SubIds :
    pc[c] = "read" /\ clientToTopics[c][i] # NULL
    => Entry(clientToTopics[c][i], c) # NULL
=============================================================================

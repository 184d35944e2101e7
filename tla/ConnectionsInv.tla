--------------------------- MODULE ConnectionsInv ---------------------------
(***************************************************************************)
(* The inductive invariants behind the theorems about ConnectionsImp: what *)
(* each place in the code may count on, which map objects a thread can     *)
(* still reach, where a subscription is recorded, who is logged in, and    *)
(* what a broadcast has yet to write.                                      *)
(***************************************************************************)
EXTENDS ConnectionsImp

Connecting  == {"password", "register", "compare", "login", "store", "connected"}
Subscribing == {"create", "join", "record"}
Sending     == {"open", "fanout", "fetch", "push"}
Working     == Connecting \cup Subscribing \cup Sending \cup
               {"process", "unsubscribe", "reject", "receipt", "disconnect", "leaving"}

(* A thread past isLegalFrame has a frame of that command in hand, with the *)
(* headers the code dereferences.                                           *)
Fits(label, f) ==
  /\ label \in Working => f # NULL
  /\ label \in Connecting => f.cmd = "CONNECT" /\ f.login # NULL /\ f.passcode # NULL
  /\ label \in Subscribing => f.cmd = "SUBSCRIBE" /\ f.destination # NULL /\ f.id # NULL
  /\ label \in Sending => f.cmd = "SEND" /\ f.destination # NULL
FrameFits == \A c \in Conns : Fits(pc[c], frame[c])

(* No local reference of c is null where the code follows it.               *)
Refers(c) ==
  /\ pc[c] \in {"join", "record", "open"} => topicToClients[frame[c].destination] # NULL
  /\ pc[c] \in {"record", "fanout", "fetch", "push"} => topicMap[c] # NULL
  /\ pc[c] \in {"fetch", "push"} => iter[c].to # NULL
  /\ \A t \in leaving[c] : topicToClients[t] # NULL
  /\ \A i \in SubIds : clientToTopics[c][i] # NULL =>
       topicToClients[clientToTopics[c][i]] # NULL
ReferencesFit == \A c \in Conns : Refers(c)

(* No thread ever dereferences null in the tables: the handlers' unchecked  *)
(* get(..).get(..) and get(..).remove(..) are safe in every interleaving.   *)
NoNullDereference == FrameFits /\ ReferencesFit

(* Thread o has put its map object for topic t, as far as anyone can tell.  *)
Reachable(t, o) ==
  \/ topicToClients[t] = o
  \/ \E b \in Conns : /\ pc[b] = "record" /\ topicMap[b] = o
                      /\ frame[b].destination = t
  \/ \E h \in Conns : maps[t][o][h] # NULL

(* A thread about to create a topic's map has not created one before: the   *)
(* map it puts is empty, and naming map objects by their creators is sound. *)
CreatesOnce ==
  \A t \in Topics, o \in Conns : Reachable(t, o) =>
    /\ topicToClients[t] # NULL
    /\ ~ (pc[o] = "create" /\ frame[o].destination = t)

(* A subscription goes by an id that its client has used, and only once.    *)
IdsIssued ==
  \A c \in Conns :
    /\ \A i \in SubIds : issued[c][i] = NULL => clientToTopics[c][i] = NULL
    /\ /\ pc[c] \in {"process"} \cup Subscribing
       /\ frame[c].cmd = "SUBSCRIBE" /\ frame[c].id # NULL
       => /\ clientToTopics[c][frame[c].id] = NULL
          /\ issued[c][frame[c].id] = frame[c].destination

(* A map's entry is recorded in clientToTopics, or its thread is about to   *)
(* remove it; only UNSUBSCRIBE and disconnect have topics to leave; a       *)
(* terminated connection has nothing recorded and nothing to leave.         *)
SubscriptionsTracked ==
  \A c \in Conns :
    /\ \A t \in Topics : Entry(t, c) # NULL =>
         clientToTopics[c][Entry(t, c)] = t \/ t \in leaving[c]
    /\ leaving[c] # {} => pc[c] \in {"leaving", "unsubscribe"}
    /\ pc[c] = "unsubscribe" => \A s, t \in leaving[c] : s = t
    /\ pc[c] = "leaving" \/ shouldTerminate[c] =>
         \A i \in SubIds : clientToTopics[c][i] = NULL
    /\ shouldTerminate[c] => pc[c] \in {"terminated", "closed"}

(* Inductive whatever the clients do.                                       *)
TypeInv == TypeOK /\ NoNullDereference

(* Inductive if clients do not reuse subscription ids.                      *)
TrackInv == TypeInv /\ CreatesOnce /\ IdsIssued /\ SubscriptionsTracked

(* The user c is logged in as, or is just being logged in as.               *)
SessionUser(c) == IF pc[c] = "store" THEN frame[c].login ELSE clientToUsername[c]

(* c has not begun to log out or to be thrown out.                          *)
StillIn(c) ==
  /\ pc[c] \notin {"disconnect", "leaving", "terminated", "closed"}
  /\ ~ (pc[c] = "receipt" /\ frame[c].cmd = "DISCONNECT")

(* A connection logs in at most once, and while it is the only one that     *)
(* ever logged in as its user, the user stays listed until c logs out.      *)
SessionAt(c) ==
  /\ pc[c] \in {"password", "register", "compare"} /\ ~ errors[c]
     => clientToUsername[c] = NULL
  /\ pc[c] \in {"login", "store"} => clientToUsername[c] = NULL
  /\ /\ StillIn(c) /\ SessionUser(c) # NULL
     /\ \A d \in Conns \ {c} : clientToUsername[d] # SessionUser(c)
     => SessionUser(c) \in loggedInUsers
SessionInv == TypeInv /\ \A c \in Conns : SessionAt(c)

(* An id in any map, in the hands of any broadcast, or in any MESSAGE, is   *)
(* one its owner used for that topic.                                       *)
RouteAt(h) ==
  /\ \A t \in Topics, o \in Conns :
       maps[t][o][h] # NULL => issued[h][maps[t][o][h]] = t
  /\ \A b \in Conns : pc[b] = "push" /\ iter[b].to = h /\ iter[b].subscriptionId # NULL
       => issued[h][iter[b].subscriptionId] = frame[b].destination
  /\ \A i \in Delivered(h) : out[h][i].subscription # NULL =>
       /\ issued[h][out[h][i].subscription] = out[h][i].destination
       /\ out[h][i].destination # NULL
RouteInv == TypeInv /\ IdsIssued /\ \A h \in Conns : RouteAt(h)

Broadcasting == {"fanout", "fetch", "push"}
InHand(c, h) == pc[c] \in {"fetch", "push"} /\ iter[c].to = h
MayMeet(c, h) == iter[c].visit[h] # "no" \/ InHand(c, h)

(* NobodySkipped at every place of the loop: whom the iterator has behind   *)
(* it, but for the one in hand, was written the event or is gone.           *)
ReachedAt(c, h) ==
  /\ pc[c] \in Broadcasting /\ iter[c].visit[h] = "no" /\ ~ InHand(c, h)
  /\ maps[frame[c].destination][topicMap[c]][h] # NULL
  => \/ pc[h] = "closed"
     \/ \E i \in Delivered(h) : out[h][i].from = c /\ out[h][i].n = received[c]
ReachedInv == TypeInv /\ \A c, h \in Conns : ReachedAt(c, h)

(* h has asked for topic t, before the SUBSCRIBE it may have under way.     *)
Past(h, t) ==
  \E i \in SubIds :
    /\ issued[h][i] = t
    /\ ~ /\ pc[h] \in {"process"} \cup Subscribing
         /\ frame[h].cmd = "SUBSCRIBE" /\ frame[h].id = i

(* Whoever is in a map, before an iterator or sent an event of a topic has  *)
(* asked for that topic; so a put that lets an iterator meet it again comes *)
(* of another SUBSCRIBE.                                                    *)
AskedAt(h) ==
  /\ \A t \in Topics, o \in Conns : maps[t][o][h] # NULL => Past(h, t)
  /\ \A b \in Conns :
       /\ pc[b] \in Broadcasting /\ MayMeet(b, h)
          => Past(h, frame[b].destination)
       /\ InHand(b, h) /\ iter[b].visit[h] # "no"
          => ~ SubscribedOnce(h, frame[b].destination)
  /\ \A i \in Delivered(h) : Past(h, out[h][i].destination)

(* h has no event of a frame b has not begun to broadcast; if it has one of *)
(* the broadcast b is at, and the iterator may meet it again, it has asked  *)
(* for the topic twice.                                                     *)
SentAt(h) ==
  \A i \in Delivered(h) :
    LET e == out[h][i]
        b == e.from
    IN  /\ b \in Conns /\ e.destination \in Topics /\ e.n <= received[b]
        /\ pc[b] \in {"process", "open"} => e.n < received[b]
        /\ pc[b] \in Broadcasting /\ e.n = received[b] =>
             /\ e.destination = frame[b].destination
             /\ MayMeet(b, h) => ~ SubscribedOnce(h, e.destination)

(* EventsInOrderOnce, for one receiver.                                     *)
OrderedAt(h) ==
  \A i, j \in Delivered(h) :
    i < j /\ out[h][i].from = out[h][j].from =>
      \/ out[h][i].n < out[h][j].n
      \/ /\ out[h][i].n = out[h][j].n
         /\ ~ SubscribedOnce(h, out[h][i].destination)
EventInv == TypeInv /\ IdsIssued /\ \A h \in Conns : AskedAt(h) /\ SentAt(h) /\ OrderedAt(h)
=============================================================================

# World Cup Informer: specifications

TLA+ models, model checking and machine-checked proofs for the World Cup
Informer: a STOMP server in Java (`src/server`) and a C++ client (`src/client`)
through which users report football events and follow each other's reports.
Paths below are relative to the repository; `net/` stands for
`src/server/src/main/java/bgu/spl/net/`.

## Inventory

| Component | State it keeps | Operations | What is hard |
|---|---|---|---|
| Server tables, `net/srv/ConnectionsImp.java` | `usernameToPass`, `clientToUsername`, `loggedInUsers`, `topicToClients`, `clientToTopics`, `IdToHandler` | `connect`, `disconnect`, `checkPasswordForUser`, `Subscribe`, `Unsubscribe`, `send` to one and to a topic | shared by all handler threads without a lock: each access is atomic, no two accesses are |
| STOMP protocol, `net/srv/StompMessagingProtocolImpl.java` and `net/srv/Frames/` | `shouldTerminate`, the headers of the frame in hand | `process`; `isLegalFrame` and `act` of CONNECT, DISCONNECT, SUBSCRIBE, UNSUBSCRIBE, SEND | errors end the connection, exceptions end the thread, frames may come in any order |
| Thread-per-client server, `BaseServer`, `BlockingConnectionHandler` | a thread and a socket per connection | accept, read, process, send, close | a client that vanishes is not cleaned up |
| `ActorThreadPool` | `acts`, `playingNow`, the executor's queue | `submit`, `execute`, `complete`, `shutdown` | a task per actor at a time, in order, on any thread; tasks that throw; shutdown |
| Reactor server, `Reactor`, `NonBlockingConnectionHandler` | `selectorTasks`, interest sets, `writeQueue` | `serve`, `handleAccept`, `continueRead`, `continueWrite`, `send`, `updateInterestedOps` | selector thread against pool threads, partial writes, channels closed under pending work |
| STOMP client, `StompClient.cpp`, `KeyboardThread.cpp`, `StompProtocol.cpp`, `Actions/` | `gameToSubID`, `receiptToMsg`, `subscriptionID`, `waitingForDisconnect`, `sentLoginRequest`, `terminate` | login, join, exit, report, summary, logout, terminate; ERROR, RECEIPT, MESSAGE, CONNECTED | keyboard thread against main thread, answers that come early or late |
| Framing, `LineMessageEncoderDecoder`, `ConnectionHandler.cpp` | the decoder's buffer | `decodeNextByte`, `encode`, `getFrameAscii`, `sendFrameAscii` | segmentation; two terminators per server frame |
| Game summaries, `Game.cpp` | statistics and events of one reporter in one game | `parseFrame`, `to_string` | updates of updates, events of one time, a summary while reports come in |
| Event files, `event.cpp`, `Actions/Report.cpp` | the events of a file yet to send | `parseEventsFile`, `buildSendFrames` | what the text of an event is read as |
| Samples (`impl/newsfeed`, `impl/rci`, `impl/echo`, `echoClient.cpp`), `json.hpp` | | | not run by the World Cup Informer, or third-party |

How they interact:

* a handler thread calls `process`, which calls the frame, which calls the
  tables, which call `send` of handlers: its own, and those of subscribers, so
  threads write to each other's sockets;
* threads of different connections share the tables (thread-per-client), and in
  the reactor also `selectorTasks` and the write queues, while the channels
  and their interest sets belong to the selector thread;
* the reactor submits what it reads to `ActorThreadPool`, with the handler as
  the actor;
* client and server meet only through the socket; within the client the
  keyboard thread and the main thread share `StompProtocol`.

What makes each part correct, in a line: the tables must stay consistent and
nobody must lose or gain a session or a subscription through the steps of
others; every subscriber must see each event once, in order, under its own
subscription id; a pool must run each actor's tasks one at a time, in order,
all of them; the reactor must not leave an answer in a queue nor stop serving;
the client must find for each receipt the command it belongs to and agree with
the server on what it is subscribed to; frames must cross a connection whole, in
order and once, in whatever pieces; a follower's summary must tell what each
reporter reported last; every frame must be finished, noticed, and answered where it asks for it.  `PROJECT.json` lists the places where this may go wrong
(`hazards`), each with the properties that watch it, or a note why none does.

## Modules

| Module | What it is |
|---|---|
| `ConnectionsImp` | tables, protocol, frames and the thread-per-client server |
| `ConnectionsInv` | its inductive invariants |
| `MCConnections` | the frames its small instances send, symmetry |
| `ConnectionsImpProofs`, `ConnectionsSafetyProofs` | theorems about it |
| `ActorFifo` | abstract: what a pool promises each actor |
| `ActorThreadPool` | the pool, shown and proved to implement `ActorFifo` |
| `ActorThreadPoolProofs` | that proof |
| `Reactor`, `MCReactor` | selector thread, handlers, pool threads; an instance |
| `ReactorProofs` | theorems about it |
| `StompClient` | the client's two threads and the server's end of a session |
| `StompClientProofs`, `StompClientAgreeProofs` | theorems about it |
| `FrameFifo` | abstract: what the two ends of a connection promise each other |
| `Framing` | bytes: encoders, decoders, and the loops that read and write |
| `Game` | what a follower makes of MESSAGEs, and its summaries |
| `EventFeed`, `MCEventFeed` | `Framing` and `Game` put together, from a reporter's file to a follower's summary; shown and proved to implement `FrameFifo` and `Game`; an instance |
| `GameProofs`, `EventFeedProofs` | theorems about `Game`, and about all of the feed |

### ConnectionsImp

A step is one access to a table or an output stream that another thread can
observe, with the private accesses of the same thread around it.  Private are
the protocol's fields, the frame, and the entries of `clientToUsername`,
`clientToTopics` and `IdToHandler` under the thread's own handler.  `pc[c]`
tells where the thread of connection `c` is; the names of the actions are those
of the methods with what they do there: `checkPasswordForUser` is
`CheckPasswordGet`, `CheckPasswordRegister`, `CheckPasswordCompare`; `connect`
is `ConnectLogIn`, `ConnectStore`; `send(channel)` is `SendOpen`, then
`SendNext`, `SendFetch`, `SendPush` per subscriber, where the iterator of the
`ConcurrentHashMap` is weakly consistent: it returns every entry that stays
(`"must"`), and may or may not return one that comes (`"may"`); `disconnect` is
`DisconnectBegin`, one `DisconnectLeave` per topic, `DisconnectEnd`.  A topic's map is an object that `Subscribe` may replace
while others hold it, so `maps` keeps map objects by the connection that
created them (`CreatesOnce` shows that the naming is sound).  A frame is its
headers; `UNPARSABLE` is a text on which `orderMsgInHash` throws, which ends
the thread and closes the socket.  `ClientCloses` is a client that vanishes:
only the socket is closed, as in the code.

### ActorThreadPool and ActorFifo

`submit` and `complete` are one step each (both synchronise on the actor, and
`execute` runs the task outside any lock); `Take` is the executor.  A task that
throws completes like one that returns.  `Submit` stops at `shutdown`: only the
selector thread submits, and it is over when it shuts the pool down.
`Fifo == INSTANCE ActorFifo WITH current <- Current` maps the pool to its
promise: the current task of an actor is the one a thread runs.

### Reactor

`serve()` is `Select`, `RunTask`/`TasksDone` (`runSelectionThreadTasks`), then a
step per selected key: `AcceptKey`, `ReadKey`/`ReadEnds` (`continueRead`),
`WriteKey` and the loop of `continueWrite`, with the second `isEmpty` and the
`shouldTerminate` that follows as steps of their own (`Flushed`, `Rearm`).  A
pool thread that processes a frame is `Process`, then for each receiver and each
answer `Add` (the write queue), `Request` (`selectorTasks.add`), `Wakeup`, then
for a frame that ends the connection `Leave` (`disconnect`) and `Terminate`.  The
pool is used by its promise `ActorFifo` (a connection's tasks one at a time, in
order), and the tables by who is listed in them.  So a frame is one of seven
kinds, by what process() does with it: it is answered (`"ask"`), or not, for it has
no receipt header (`"note"`); it is a CONNECT with one, which is answered twice
(`"login"`); it is broadcast, and then answered (`"send"`) or not (`"report"`: every
SEND of this repository's client, `Report.cpp:20`); it is answered and ends the
connection (`"bye"`); or process() throws on it (`"bad"`: a text without the
separators, a DISCONNECT before a CONNECT).  `owed` counts the answers the thread has
yet to send.  After a throw (`ProcessThrows`) the task is over: nothing is sent, the
channel stays open, and the rest of the buffer is lost, possibly with the beginning of
a frame whose rest comes in the next one (`torn`), which may then be taken for
anything.  `ProcessUnlisted` is a frame that comes after the connection has left the
tables.  A `key` is `"valid"`, `"cancelled"` when its channel is closed,
`"gone"` after the next `select`.  `interestOps` on either of the last two, by a
task that was queued before, throws out of `serve()`: `at = "dead"`.

### StompClient

`key` is where the keyboard thread is, `main` where the main thread is.  The
`Type…` actions are `run()` reading a line and the command up to its first
effect; `AddSubscription`, `AddMsg`, `SetLogin`, `SetWaitingForDisconnect`,
`ConfirmSub`, `Unsubscribe`, `Logout` are the methods of those names, which
hold the mutex; `FindCommand` and `FindGame` are the unlocked lookups of
`handleReceiptFrame`, which leave an empty entry when they find none, as
`operator[]` does.  The maps are partial functions, and `Insert` is `insert`: it
keeps what is there.  `Serve` is the server's end, from the frames' `act()`,
`Subscribe` and `Unsubscribe` with this client alone in the tables.  A report is `TypeReport`, `BuildSendFrames` (which asks for
the user's name without the mutex) and a `Sent` per event; a summary is
`TypeSummary`, which finds the Game, and `WriteToFile`, which reads it; between the
two the main thread may run `Logout`, which deletes it.  Of a Game it matters here
only that it is there.  `TypeFatal` is a line that ends the process: a blank one,
a port that is no number, a file that is no JSON or has no events.  Lines with
fewer words than their command reads are undefined behaviour and excluded.
`greeted`, `awaiting` and `hasty` are history: what the console has told the user,
and whether a command was typed without waiting for it.

### Framing, Game, EventFeed

`Framing` is one direction of each connection.  `Write` is the call that puts a
frame and its terminator into `out`; `WriteSome` is a turn of the loop in
`sendBytes` (Java's `write` and `flush` do the same inside the library) that moves a
piece to `net`; `ReadFrame` is `getFrameAscii`, or `decodeNextByte` until it
returns a frame, and `ReadSome` the same when the pieces end before the NUL.  A
read takes all there is up to a NUL: neither end looks at the bytes between, so a
slower reader would only take more steps to the same `buffer`.  The server's
frames end with a NUL of their own and the encoder adds one (`Doubled`); the
client receives an empty frame after each, which `Hand` drops, as the length check of
`main` does.  `Break` closes a connection and loses what was under way, from some
byte on.  `way` is history: the frames written and not yet received.

`Game` reads a body line by line.  `Body` is `buildSendFrames`; `HandleMessage` is
`handleMessageFrame` up to `parseFrame`, `ParseLine` a turn of its loop, one
disjunct per branch, and `StoreEvent` its end.  A line is what the loop sees of it:
the section whose heading `find` finds in it, if any, a key and a value; texts are
numbers, in the order of `std::map`.  `Squeeze` is the erasing of whitespace in keys
and values, which may make two names one; `Heading` has the texts that contain a
heading by accident.  `CopyEntry` and `NextMap` are the turns and the ends of the four
loops of `to_string`, on the keyboard thread, between any two steps of the
main thread; an access to a map is atomic.  A Game enters `gameToEvents` when its
first report has been read, as in the code.  `told` is history.

In `EventFeed` reporters send their `file`, the thread that serves each of them
passes the bodies on (`Relay` is `SendFrame.act` and `send`, which waits until no other
thread writes to the follower), and the follower's main thread hands them to
`Game`.

## What the runs show

| Run | Instance | Distinct states | Shows |
|---|---|---|---|
| `sessions` | 3 connections, 2 users, 2 passwords, 2 frames each | 275,530 | `TypeOK`; the only client ever logged in as a user stays listed whatever else ends or is rejected (`SoleSessionListed`); a password settles once the race of first logins is over (`SettledPassword`) |
| `topics` | 2 connections, 2 topics, 2 ids, 3 frames each | 546,590 | no `get(..).get(..)` meets null (`NoNullDereference`); a terminated connection is in no topic's map (`NoGhostSubscriber`); MESSAGEs go out under the receiver's id for that topic (`RoutedById`); others cannot take a subscription away once the topic's creation has settled (`KeepsSubscription`); events of a sender in order and once (`EventsInOrderOnce`); an iteration over a changing map skips nobody (`NobodySkipped`) |
| `progress` | 2 connections, a frame of each kind, 2 frames each, weak fairness | 36,108 | every frame is finished (`FrameFinishes`); an ERROR closes the connection (`ErrorCloses`) |
| `actors` | 3 actors, 2 threads, 3 tasks each, weak fairness | 37,784 | nothing lost or doubled (`HandedOver`); refinement of `ActorFifo` (`RunsInOrder`); every task submitted runs unless the pool is shut down (`EveryTaskRuns`) |
| `reactor` | a follower that sends 2 frames of the kinds note, bad, bye and may leave, and a client that sends or logs in | 2,443,234 | no answer waits in an open connection without the selector thread knowing or about to be told (`NothingStranded`); answers in the order of the frames, each frame up to the first that throws as often as it asked for and none left out before a later one, through partial writes and other people's MESSAGEs (`AnsweredInOrder`) |
| `reactor_progress` | two clients who stay, 3 frames: note, bye, send; fairness | 128,576 | every answer that a frame asked for, while none before it threw, arrives unless the selector thread is over (`AnswersArrive`); a connection whose last answer is still in the queue when `terminate()` comes is closed by the flush (`TerminatedCloses`) |
| `client` | 2 games, 5 lines typed or reports of others, files of 1 or 2 events, fairness | 401,022 | `TypeOK`; a RECEIPT finds its command (`ReceiptFindsCommand`); client and server agree on subscriptions (`SubscriptionsAgree`); no summary is written of a deleted Game (`SummaryReadsLive`); every report the server gets is signed (`ReportsSigned`); joins and exits are answered (`CommandSettles`), a logout ends the session (`LogoutCompletes`), and `terminate` ends the main thread (`TerminateEnds`); agreement, summaries and answers are for a user who waits |
| `feed` | 2 reporters with 1 or 2 events, a follower, a socket that may leave the last byte, fairness | 289,982 | bytes carry frames (`FramesCarried`: refinement of `FrameFifo`); what arrives is read as `Game` says (`GamesRead`: refinement of `Game`); a follower is told a beginning of each file, in order (`ToldInOrder`), and all of it unless a connection breaks (`ReportsArrive`); Games hold the last value of each statistic (`StatsAreLatest`) and every event (`EventsListed`); a summary written meanwhile misses nothing older than itself (`SummaryFresh`) |

Bounds.  `MaxFrames`, `MaxTasks` and `MaxLines` cap what clients and users send;
they are guards of `Receive`, `Submit`, `ClientSends` and `TypeLine`.  The
hazards need two actors in the middle of an operation each, and for iterations
and rejected logins a third: `sessions` has three connections, and two frames each (log
in and log out).  `topics` needs a third frame, so that a client can subscribe,
leave and subscribe again, and send while another does.  Three
tasks are what it takes for one to run, one to wait in the executor and one in
`acts`.  In the reactor one client has a pipelined pair of frames and the other a
broadcast that meets them: in `reactor` the first of the pair may be one that is not
answered, one that throws, whose successor is lost, torn or intact, or one that ends
the connection; in `reactor_progress` and `keeps_serving` none throws.  `TwoKinds`,
`FairKinds` and `TameKinds` name the kinds; the ones they leave out (ask, report)
are those of torn frames, and of the theorems.  Five lines are a
login, a join and a logout, and a second session with a join; or a login, a join, a
report, a summary and a logout.  `MaxEvents` is the length of a file there.  In
`feed`, `Cuts = {0, 1}` lets a socket take a whole frame or all but its last byte:
what a reader has then is a frame without its end, or, after the follower's two
NULs, a frame whose second NUL is still to come, and any other cut ends like the
first.  The files have a statistic that changes and one that is added, two events of one
time, two reporters of the same statistics, a name with a blank in it, and a
description with a heading.
`Frames` gives each instance the frames its question is about: `SessionFrames`
(logins with either password, DISCONNECT, a text that does not parse),
`TopicFrames` and `MixedFrames`; the initial states and the
frames are ones any client can send.  Symmetry sets permute connections (and in
`sessions` users and passwords); the runs with liveness use none.

Deadlock is checked in the runs of `MCConnections` and `ActorThreadPool`, whose
`Quiescent` is the only way to stop.  The reactor idles in `select()`, and may be
over; the client waits for a user who need not type; the feed ends when all files have
arrived: those runs say `CHECK_DEADLOCK FALSE`.

Fairness.  Handler threads, pool threads, the selector thread, and the client's
threads are scheduled by the JVM and the operating system: weak fairness of each thread's
steps, never of what a client or user may choose to do (`Receive`, `ClientSends`,
`Type…`).  In the reactor a socket takes a whole frame in the end
(strong fairness of `WriteTop`): clients of this repository read all the time;
a client that never reads keeps only its own answers.  `StompClient` assumes the server
answers what it has read (`FrameFinishes`), unless it vanishes.  In `EventFeed` the
threads of the two clients and of the server run, and a connection that stands
takes and carries bytes; nobody needs to ask for a summary, and a summary need not
end.

## Where the code and its words differ

Each of these is a run that ends in a counterexample; `findings` in
`PROJECT.json` quotes the line.

* `one_session`: two CONNECTs of one user interleave between the check and
  `connect()`; both are logged in (`ConnectFrame.java:82`).
* `subscription_registered`: two first subscribers of a topic race; the second
  `put` replaces the map the first one joined, which was sent its RECEIPT
  (`ConnectionsImp.java:212`).
* `keeps_serving`: a client sends a frame and a DISCONNECT in one go; the selector
  thread writes both answers and closes the connection while the task of the
  second answer waits in `selectorTasks`; its `interestOps` throws and ends the
  selector thread, and with it the server (`Reactor.java:89`).
* `client_logout`: the RECEIPT arrives before `setWaitingForDisconnect()`; the flag is
  set when no receipt can reset it, and the keyboard thread waits for ever
  (`Logout.cpp:19`).  `LogoutCompletes` holds all the same: the session does end.

Seen in the models and not kept as runs:

* two first logins of a user with different passwords can both pass
  `checkPasswordForUser` (get and put are two accesses, `ConnectionsImp.java:157`),
  which says "If user doesnt exist, insert to hash and returns true";
* a client that vanishes stays in `loggedInUsers` for ever
  (`BlockingConnectionHandler.java:45`), and so cannot log in again;
* the version of a CONNECT is compared only when another header is missing
  (`ConnectFrame.java:67`), though the comment says "and if version is legal";
* a connection that never sent CONNECT may subscribe, unsubscribe and send
  (`SubscribeFrame.java:51`);
* a subscriber that leaves during a broadcast may be sent `subscription :null`
  (`ConnectionsImp.java:86`): `RoutedById` is about the MESSAGEs that name one;
* a client that reuses a subscription id leaves a ghost in the first topic's map
  (`ConnectionsImp.java:222`): hence the assumption `FreshIds` of `NoGhostSubscriber`,
  `RoutedById` and `EventsInOrderOnce`, which this repository's client keeps by counting;
* `terminate()` comes after the answer; if the answer is flushed first, so that the
  queue is empty (`TerminatedCloses` is about the other case), nothing closes the channel until the client does (`NonBlockingConnectionHandler.java:100`);
* `continueWrite` repeats a failing write for ever, with the selector thread in
  it, once a client has closed its end with answers queued (`NonBlockingConnectionHandler.java:93`);
* a frame on which process() throws ends the pool's task: the frames behind it in the
  same buffer are lost unanswered, there is no ERROR and the channel stays open
  (`NonBlockingConnectionHandler.java:49`); hence `Clear` in `AnsweredInOrder`, and
  `AnswersArrive` is about frames with no earlier one that threw.  With threads per client
  the same frame closes the socket;
* a client that logs in again on the RECEIPT of its DISCONNECT may be taken out of
  `loggedInUsers` by the end of its old connection, whose `disconnect` removes the name a
  second time (`ConnectionsImp.java:112`): `SoleSessionListed` is about users with one session;
* in the client, a join while one is unanswered, an exit before the join's
  RECEIPT, and commands before the login are sent all the same and can end the session or
  leave a stale `*` entry; `SubscriptionsAgree` therefore speaks of a user who waits;
* an ERROR that such a command provokes makes `logout()` delete the Games while a summary
  reads one (`Summary.cpp:17`): hence `~hasty` in `SummaryReadsLive`;
* of two events of one reporter at the same time the second is not listed
  (`insert`, `Game.cpp:99`): `EventsListed` says so;
* a description or a statistic that contains a heading moves the lines after it to
  another section (`Game.cpp:25`): `StatsAreLatest` and `EventsListed` speak of
  reporters whose texts have none (`Plain`);
* a user who joins a game called DISCONNECT is logged out by the RECEIPT of the join, which
  is told from that of a logout by this word (`Frame.cpp:24`): hence `NamesAssumption`;
* whitespace is erased from names and values of statistics (`Game.cpp:50`), so that
  two names may become one; the later line then counts;
* `std::map` lists the times of events as the code keeps them, as text: 10 before 9;
* a summary written while reports come in may be of no moment: a statistic from
  before an event beside one from after it; `SummaryFresh` is what remains.

## What is proved

TLAPS checks the following for every value of the constants.

* `ConnectionsImpProofs`: `TypeCorrect` and `NullSafe`
  (`Spec => []TypeOK`, `Spec => []NoNullDereference`).  The inductive invariant
  `TypeInv` is the two together: a thread's `pc` says which headers its frame has
  (`FrameFits`) and which references it has (`ReferencesFit`); neither alone is kept,
  since an action writes a value whose type depends on the other.
* `GhostFree`: `FreshIds => (Spec => []NoGhostSubscriber)`.  `TrackInv` adds to
  `TypeInv` that a thread creates at most one map per topic (`CreatesOnce`), that
  ids in use were issued once (`IdsIssued`), and that each entry of a map is
  recorded in `clientToTopics` or about to be removed (`SubscriptionsTracked`).
* `ConnectionsSafetyProofs`: `PasswordsSettle`, `SubscriptionsKept` (action
  properties, from `TypeInv` and a step lemma that tells who may write
  `usernameToPass`, `topicToClients` and `maps`), `SessionsListed` (with `SessionInv`: a
  connection logs in at most once, and stays listed until it begins to leave),
  `MessagesRouted` (with `RouteInv`: every id in a map, in a broadcast's hands or
  in a MESSAGE is one its owner issued for that topic; assumes `FreshIds`).
* In the same module `NobodyMissed` (`Spec => []NobodySkipped`).  `ReachedAt`
  says it at every place of the loop, the handler in hand apart; it is kept since a put
  takes an entry from behind the iterator and a remove leaves none to miss.
* `EventsOrdered`: `FreshIds => (Spec => []EventsInOrderOnce)`, there too.  What
  could repeat an event is an iterator that meets a client again, and only a new put makes it:
  `AskedAt` says that who was met had asked for the topic before (`Past`), so that the put
  is of a second SUBSCRIBE.  `SentAt` ties the events a client has to the frame its
  sender is at, which gives the order.
* `ActorThreadPoolProofs`: `AlwaysHandedOver`, and `PoolRunsInOrder`, the
  refinement `Spec => Fifo!Spec`.  `HandedOver` is inductive with `TypeOK`: one
  task of an actor in the executor or on a thread, numbered right after the last
  that ran, the rest in `acts` in order.  The refinement maps `RunEnds` to
  `Finish`, `Take` to `Start`, `Submit` to `Submit` and the rest to stutters.

* `ReactorProofs`: `TypeCorrect` and `NoneStranded` (`Spec => []NothingStranded`).
  `NothingStranded` looks at a moment between steps; `Inv` adds what holds in the
  middle of one.  `Armed` counts as told also a thread that is about to add its task,
  and knows the point of `continueWrite` where the interest is about to be reset:
  there the answer that came after the first `isEmpty` must have a task of its own.
  `Woken` has the threads that are between `selectorTasks.add` and `wakeup()`.
  `Unborn` and `ReadyFits` keep both apart from connections that are not there yet, and `Typed`
  says what a thread of the pool has in hand where it is.
* `AlwaysInOrder` (`Spec => []AnsweredInOrder`), in the same module.  Not every frame is
  answered, so nothing can be counted: `Numbers`, which is inductive for every client, places
  each answer by the number of its frame and by how many of that frame's were still to come.
  `Queued`: the frames under way are numbered without a gap, from the buffer of the task at
  work over the tasks that wait to the bytes that are not read, and are those that were sent.  `InReach`: no answer is to a frame still under way.
  `Holding`: the frame in hand is the last one taken, and the answers it
  owes are not out.  `Full`: all other answers of the frames that were taken, up to the first that
  threw, are out while the client is in the tables.  `Ordered` is the order itself.  A step is
  one of two, for each client: it leaves the answers that are out as they are
  (`SameAnswers`: the selector thread moves one from queue to channel, a MESSAGE is queued),
  or it adds the next one of the frame in hand (`OneMore`).  Leaving the tables is why
  `Full` stops there: what a client sends after its own DISCONNECT is answered by nobody.
* `StompClientProofs`: `TypeCorrect`, `ReceiptsFound` (`Spec => []ReceiptFindsCommand`)
  and `AlwaysSigned` (`Spec => []ReportsSigned`), with no assumption about the user.
  `Numbered` (the receipts in the table are 0 up to its size) makes the size a new
  number.  `AllNoted` is why the size may be read long before the entry is made: while
  there is a socket, the frame in hand has the number it will get, and what went
  out is in the table; `logout()`, which clears the table, has taken the socket away first.
  `Named` tells when the name is set, `KeyFits`, `MainFits` and `SocketFits` what is in hand.
* `StompClientAgreeProofs`: `AlwaysAgree` (`Spec => []SubscriptionsAgree`) and
  `SummariesSafe` (`Spec => []SummaryReadsLive`), for a user who waits.  `Agreement`
  follows a join or an exit round the system: `Alone` says that it is in one
  place only (keyboard thread, `toServer`, `toClient`, main thread) and that the console owes its end,
  `Stage` what both ends know of the game in each of these places.  `Ids` is
  needed for exits (an id ends the right subscription), `Reports` for the
  reports that an exit must not overtake; both say that the server has no cause for an
  ERROR (`ServesWell`), and this is `Welcome`: within a session `logout()` comes after a DISCONNECT only, when no
  summary is written.  `Fresh` starts each session from empty tables.

* `GameProofs`: `AllEventsListed`, `AllStatsAreLatest`, `SummariesAreFresh` (`GameSpec =>
  []EventsListed`, `[]StatsAreLatest`, `[]SummaryFresh`).  The three speak of moments when no
  report is being read; `GameInv` says what holds after each line of one.  `InBody` finds the
  place in the body (`At`) and what has been read of the name and the time, `InSection`,
  for texts without headings, the section that this place is in, from where each section
  begins (`Start`; `BodyLines` and `LinesAt` are the lemmas on what is where).  `StatsRead` says
  of each statistic that no later line that was read has its key (`LastSaid`, over the pairs of an
  event and a name), `EventsRead` which events are listed.  `SummaryInv`, on top of it, follows the
  other thread: what was there when the summary was asked for has been copied or is ahead of the
  iterator (`Passed`), whose maps only grow under it.
* `EventFeedProofs`: `FramesArriveWhole` (`Spec => FramesCarried`) and `MessagesAreBodies` (`Spec =>
  GamesRead`), the two refinements.  `FeedInv` lays the bytes between two ends, the reader's
  `buffer`, `net` and `out`, beside the frames in `way`: there are marks where each
  frame ends (`Marks`), the bytes are those of the frames (`Holds`), all of them while the
  connection stands and a beginning of them when it has broken (`Fits`); the first mark is 0, or 1
  when a second NUL is still to come.  The marks stand in for an induction over the
  frames: a step adds one at the end or takes the first away.  From `MessagesAreBodies`
  what `GameProofs` says is said of the feed (`FeedListsEvents`, `FeedStatsAreLatest`,
  `FeedSummariesAreFresh`).
* `AlwaysToldInOrder` (`Spec => []ToldInOrder`), in the same module.  `OrderInv` cuts each file in
  four: told, on its way to the follower among the frames of others (`Relayed`, which counts
  as `Marks` does), on its way to the server (`Comes`), not yet sent (`RestIs`).  A connection
  that breaks ends what can be said of the parts before it, and with them what could still
  be told.  `OneBody` (no two events of two reporters have one body) makes the event that is told
  the one that was sent.

The proofs rest on the named assumptions of the modules they are about:
`NullAssumption`, `FramesAssumption`, `BoundAssumption` (`ConnectionsImp`),
`TasksAssumption`, `ReactorAssumption`, `BoundsAssumption` and `NamesAssumption`
(`StompClient`), `GameAssumption`, `FramingAssumption` and `FeedAssumption`, and on `FreshIds` where it is
written.  They say that the bounds are
numbers and that the empty value is none of the others; `NamesAssumption` also that no game is called DISCONNECT (see
above); `GameAssumption` that an event has a name, a time, three finite maps and a description that is not
empty (its text may be, but it is a line all the same); `FeedAssumption` that there is no NUL in a text.
Only model-checked is liveness, which this prover does not reach: `FrameFinishes`, `ErrorCloses`,
`EveryTaskRuns`, `AnswersArrive`, `TerminatedCloses`, `CommandSettles`, `LogoutCompletes`,
`TerminateEnds`, `ReportsArrive`.  Every safety property of a run that passes is a theorem.

## Not modelled, and why

* `json.hpp` is third-party code (and nearly all lines of the repository), the samples
  are not run by the informer: both are left out.
* `event.cpp` parses JSON into events and has accessors: an event is a record here and
  a file a sequence of them.
* `Reactor.close()` and `BaseServer.close()`, which nothing calls.
* Lines of the user with fewer words than the command reads: the code's
  behaviour is undefined.  The texts the client prints, among them how `handleErrorFrame` cuts
  the body out of an ERROR.
* A handler thread that waits for ever in a write to a client that does not read, and the
  senders that then wait for it: `ConnectionsImp` writes in one step, and
  `EventFeed`, where writes wait, has a follower that reads.

What could follow: an abstract specification of the informer (a user's sessions, who
follows what, events delivered in order) that `ConnectionsImp` refines where the
findings above do not stand in the way; `ConnectionsImp` over the connections of `Framing`.

Abstractions to know of.  Internal states of `java.util` and `std::tr1` tables: each
access is atomic, also those the client makes without its mutex (only the copies that
`to_string` makes are taken entry by entry; an iterator's step and the access after it
are one, `CopyEntry`), and the `WeakHashMap` of the pool under its
read lock.  Connections are reliable and ordered until they break.  A write of
`BlockingConnectionHandler` is one step in `ConnectionsImp` and `StompClient`, and goes in pieces
in `Framing` and `EventFeed`.  In `disconnect` and
`Unsubscribe` the `get(topic)` and the `remove` after it are one step (`DisconnectLeave`,
`UnsubscribeLeave`; `ConnectionsImp.java:106`, `253`): a `put` between the two
would have the entry removed from the map it replaces, after which the client is in neither.  In
`StompClient` the server has this client alone: that a SEND is answered by an ERROR since
another client's first SUBSCRIBE has just replaced the topic's map (`subscription_registered`)
is not in it.  A read takes what there is up to a NUL.  The texts of
frames, files and the console are left out, but for the lines that `parseFrame` tells apart.

------------------------------- MODULE Reactor -------------------------------
(***************************************************************************)
(* The reactor server: one selector thread that accepts, reads and writes, *)
(* the handlers' write queues, and the pool's threads that process frames. *)
(*                                                                         *)
(* The pool is used by its promise, ActorFifo: the tasks of a connection   *)
(* run one at a time, in order (ActorThreadPool keeps it).  The tables are *)
(* reduced to who is listed in them: their own interleavings are those of  *)
(* ConnectionsImp.                                                         *)
(***************************************************************************)
EXTENDS Naturals, Sequences, FiniteSets

CONSTANTS
  Conns,      \* connections
  Followers,  \* those subscribed to the one topic
  Leavers,    \* those whose client may close its end, at any time
  Kinds,      \* client -> the frames it may send, of AllKinds
  MaxFrames,  \* bound: client -> how many it may send
  NULL

(* A frame is processed as one that is answered ("ask"), or is not, for it  *)
(* asks for no receipt ("note"); a CONNECT that is answered twice, for it   *)
(* does ("login"); a SEND, broadcast and then answered ("send") or not      *)
(* ("report"); one that ends the connection with a RECEIPT or an ERROR      *)
(* ("bye"); one on which process() throws, before it sends ("bad").         *)
AllKinds == {"ask", "note", "login", "send", "report", "bye", "bad"}
Answers(k) == IF k = "login" THEN 2 ELSE IF k \in {"ask", "send", "bye"} THEN 1 ELSE 0

ASSUME ReactorAssumption ==
  /\ Followers \subseteq Conns /\ Leavers \subseteq Conns
  /\ Kinds \in [Conns -> SUBSET AllKinds] /\ MaxFrames \in [Conns -> Nat]
  /\ NULL \notin Conns

VARIABLES
  peer, asked, net,                                       \* the clients
  at, cur, ready, wakeup, selectorTasks, key, interest,   \* the selector thread
  writeQueue, written, shouldTerminate,                   \* the handlers
  tasks, pc, buffer, torn, current, fan, owed, sending,   \* the pool's threads
  listed                                                  \* the tables

clientVars   == <<peer, asked, net>>
selectorVars == <<at, cur, ready>>
keyVars      == <<key, interest>>
poolVars     == <<pc, buffer, torn, current, fan, owed, sending>>
vars == <<clientVars, selectorVars, wakeup, selectorTasks, keyVars, writeQueue,
          written, shouldTerminate, tasks, poolVars, listed>>

Ops == {"R", "W"}
Frame == [kind : AllKinds, n : Nat]
(* A MESSAGE of, or an answer to, the n-th frame of a client, which has yet *)
(* so many answers to come.                                                 *)
Outgoing == [type : {"MESSAGE", "answer"}, from : Conns, n : Nat, left : 0 .. 2]

Init ==
  /\ peer = [c \in Conns |-> "away"]
  /\ asked = [c \in Conns |-> <<>>]    \* kinds of the frames sent (history)
  /\ net = [c \in Conns |-> <<>>]      \* frames sent and not read
  /\ at = "select" /\ cur = NULL
  /\ ready = [c \in Conns |-> {}]      \* selectedKeys, with their ready sets
  /\ wakeup = FALSE /\ selectorTasks = <<>>
  /\ key = [c \in Conns |-> "none"]    \* "valid" while the channel is open
  /\ interest = [c \in Conns |-> {}]
  /\ writeQueue = [c \in Conns |-> <<>>]
  /\ written = [c \in Conns |-> <<>>]  \* what its channel took (history)
  /\ shouldTerminate = [c \in Conns |-> FALSE]
  /\ tasks = [c \in Conns |-> <<>>]    \* buffers read and submitted
  /\ pc = [c \in Conns |-> "idle"]     \* the thread that runs c's task
  /\ buffer = [c \in Conns |-> <<>>]   \* the frames left in its buffer
  /\ torn = [c \in Conns |-> FALSE]    \* the next frame has lost its beginning
  /\ current = [c \in Conns |-> NULL]  \* the frame it processes
  /\ fan = [c \in Conns |-> {}]        \* whom it has yet to send its MESSAGE
  /\ owed = [c \in Conns |-> 0]        \* the answers it has yet to send
  /\ sending = [c \in Conns |-> NULL]  \* whose send() it is in
  /\ listed = {}                       \* the handlers in the tables

-----------------------------------------------------------------------------
(* Clients                                                                 *)

ClientConnects(c) ==
  /\ peer[c] = "away"
  /\ peer' = [peer EXCEPT ![c] = "up"]
  /\ UNCHANGED <<asked, net>>

ClientSends(c, k) ==
  /\ peer[c] = "up" /\ Len(asked[c]) < MaxFrames[c]
  /\ asked' = [asked EXCEPT ![c] = Append(@, k)]
  /\ net' = [net EXCEPT ![c] = Append(@, [kind |-> k, n |-> Len(asked'[c])])]
  /\ UNCHANGED peer

ClientCloses(c) ==
  /\ peer[c] = "up" /\ c \in Leavers
  /\ peer' = [peer EXCEPT ![c] = "closed"]
  /\ UNCHANGED <<asked, net>>

ClientStep(c) ==
  /\ ClientConnects(c) \/ ClientCloses(c) \/ \E k \in Kinds[c] : ClientSends(c, k)
  /\ UNCHANGED <<selectorVars, wakeup, selectorTasks, keyVars, writeQueue, written,
                 shouldTerminate, tasks, poolVars, listed>>

-----------------------------------------------------------------------------
(* The selector thread.  Its steps leave the clients and the pool's threads *)
(* alone: see SelectorStep.                                                *)

Calling == {c \in Conns : peer[c] # "away" /\ key[c] = "none"}
Readable(c) == net[c] # <<>> \/ peer[c] = "closed"
ReadyOps(c) ==
  IF key[c] = "valid" THEN {o \in interest[c] : o = "R" => Readable(c)} ELSE {}

(* selector.select(): blocks until a key is ready or it is woken up, and    *)
(* drops the keys of closed channels.                                       *)
Select ==
  /\ at = "select"
  /\ \E next \in IF Calling = {} THEN {{}} ELSE {{c} : c \in Calling} :
       ready' = [c \in Conns |-> IF c \in next THEN {"A"} ELSE ReadyOps(c)]
  /\ wakeup \/ \E c \in Conns : ready'[c] # {}
  /\ wakeup' = FALSE
  /\ key' = [c \in Conns |-> IF key[c] = "cancelled" THEN "gone" ELSE key[c]]
  /\ at' = "tasks"
  /\ UNCHANGED <<net, cur, selectorTasks, interest, writeQueue, written,
                 shouldTerminate, tasks, listed>>

(* A slip for RunTask: one task is run, where the code runs all.            *)
RunOneTask ==
  /\ at = "tasks" /\ selectorTasks # <<>>
  /\ LET c == Head(selectorTasks)
     IN  IF key[c] = "valid"
         THEN interest' = [interest EXCEPT ![c] = Ops] /\ at' = "keys"
         ELSE at' = "dead" /\ UNCHANGED interest
  /\ selectorTasks' = Tail(selectorTasks)
  /\ UNCHANGED <<net, cur, ready, wakeup, key, writeQueue, written,
                 shouldTerminate, tasks, listed>>

(* runSelectionThreadTasks: on a key that is null or cancelled interestOps  *)
(* throws, and nothing catches it: serve() is over.                         *)
RunTask ==
  /\ at = "tasks" /\ selectorTasks # <<>>
  /\ LET c == Head(selectorTasks)
     IN  IF key[c] = "valid"
         THEN interest' = [interest EXCEPT ![c] = Ops] /\ UNCHANGED at
         ELSE at' = "dead" /\ UNCHANGED interest
  /\ selectorTasks' = Tail(selectorTasks)
  /\ UNCHANGED <<net, cur, ready, wakeup, key, writeQueue, written,
                 shouldTerminate, tasks, listed>>

TasksDone ==
  /\ at = "tasks" /\ selectorTasks = <<>>
  /\ at' = "keys"
  /\ UNCHANGED <<net, cur, ready, wakeup, selectorTasks, keyVars, writeQueue,
                 written, shouldTerminate, tasks, listed>>

(* handleAccept                                                             *)
AcceptKey(c) ==
  /\ at = "keys" /\ "A" \in ready[c]
  /\ key' = [key EXCEPT ![c] = "valid"]
  /\ interest' = [interest EXCEPT ![c] = {"R"}]
  /\ listed' = listed \cup {c}
  /\ ready' = [ready EXCEPT ![c] = {}]
  /\ UNCHANGED <<net, at, cur, wakeup, selectorTasks, writeQueue, written,
                 shouldTerminate, tasks>>

(* continueRead: a buffer of what has arrived becomes a task of the pool.   *)
ReadKey(c) ==
  /\ at = "keys" /\ "R" \in ready[c] /\ net[c] # <<>>
  /\ \E k \in 1 .. Len(net[c]) :
       /\ tasks' = [tasks EXCEPT ![c] = Append(@, SubSeq(net[c], 1, k))]
       /\ net' = [net EXCEPT ![c] = SubSeq(@, k + 1, Len(@))]
  /\ IF "W" \in ready[c] THEN at' = "write" /\ cur' = c ELSE UNCHANGED <<at, cur>>
  /\ ready' = [ready EXCEPT ![c] = {}]
  /\ UNCHANGED <<wakeup, selectorTasks, keyVars, writeQueue, written,
                 shouldTerminate, listed>>

(* continueRead meets the end of the stream or an IOException: the channel  *)
(* is closed, and the tables are not told.                                  *)
ReadEnds(c) ==
  /\ at = "keys" /\ "R" \in ready[c] /\ peer[c] = "closed"
  /\ key' = [key EXCEPT ![c] = "cancelled"]
  /\ ready' = [ready EXCEPT ![c] = {}]
  /\ UNCHANGED <<net, at, cur, wakeup, selectorTasks, interest, writeQueue,
                 written, shouldTerminate, tasks, listed>>

WriteKey(c) ==
  /\ at = "keys" /\ ready[c] = {"W"}
  /\ at' = "write" /\ cur' = c
  /\ ready' = [ready EXCEPT ![c] = {}]
  /\ UNCHANGED <<net, wakeup, selectorTasks, keyVars, writeQueue, written,
                 shouldTerminate, tasks, listed>>

(* continueWrite, one pass of its loop: the top is written out.             *)
WriteTop(c) ==
  /\ at = "write" /\ cur = c /\ key[c] = "valid" /\ writeQueue[c] # <<>>
  /\ written' = [written EXCEPT ![c] = Append(@, Head(writeQueue[c]))]
  /\ writeQueue' = [writeQueue EXCEPT ![c] = Tail(@)]
  /\ UNCHANGED <<net, selectorVars, wakeup, selectorTasks, keyVars,
                 shouldTerminate, tasks, listed>>

(* A slip for WritePart: the top is removed although a part of it is left.  *)
WritePartDrops(c) ==
  /\ at = "write" /\ cur = c /\ key[c] = "valid" /\ writeQueue[c] # <<>>
  /\ writeQueue' = [writeQueue EXCEPT ![c] = Tail(@)]
  /\ at' = "keys" /\ cur' = NULL
  /\ UNCHANGED <<net, ready, wakeup, selectorTasks, keyVars, written, shouldTerminate,
                 tasks, listed>>

(* The channel takes a part of the top only: continueWrite returns.         *)
WritePart(c) ==
  /\ at = "write" /\ cur = c /\ key[c] = "valid" /\ writeQueue[c] # <<>>
  /\ at' = "keys" /\ cur' = NULL
  /\ UNCHANGED <<net, ready, wakeup, selectorTasks, keyVars, writeQueue, written,
                 shouldTerminate, tasks, listed>>

(* write throws: the channel is closed and the loop goes on, for what is in *)
(* the queue stays there; nothing but the thread's end gets it out.         *)
WriteFails(c) ==
  /\ at = "write" /\ cur = c /\ key[c] = "valid" /\ writeQueue[c] # <<>>
  /\ peer[c] = "closed"
  /\ key' = [key EXCEPT ![c] = "cancelled"]
  /\ UNCHANGED <<net, selectorVars, wakeup, selectorTasks, interest, writeQueue, written,
                 shouldTerminate, tasks, listed>>

(* The loop ends, and the queue is asked once more whether it is empty.     *)
WriteDone(c) ==
  /\ at = "write" /\ cur = c /\ writeQueue[c] = <<>>
  /\ at' = "flushed"
  /\ UNCHANGED <<net, cur, ready, wakeup, selectorTasks, keyVars, writeQueue, written,
                 shouldTerminate, tasks, listed>>

Flushed(c) ==
  /\ at = "flushed" /\ cur = c
  /\ IF writeQueue[c] = <<>> THEN at' = "rearm" /\ UNCHANGED cur
                             ELSE at' = "keys" /\ cur' = NULL
  /\ UNCHANGED <<net, ready, wakeup, selectorTasks, keyVars, writeQueue, written,
                 shouldTerminate, tasks, listed>>

(* A slip for Rearm: the protocol is not asked whether it is over.          *)
RearmAlways(c) ==
  /\ at = "rearm" /\ cur = c
  /\ interest' = [interest EXCEPT ![c] = {"R"}]
  /\ at' = "keys" /\ cur' = NULL
  /\ UNCHANGED <<net, ready, wakeup, selectorTasks, key, writeQueue, written,
                 shouldTerminate, tasks, listed>>

(* Nothing is left to write: close a terminated connection, or wait to read *)
(* only.                                                                    *)
Rearm(c) ==
  /\ at = "rearm" /\ cur = c
  /\ IF shouldTerminate[c]
     THEN key' = [key EXCEPT ![c] = "cancelled"] /\ UNCHANGED interest
     ELSE interest' = [interest EXCEPT ![c] = {"R"}] /\ UNCHANGED key
  /\ at' = "keys" /\ cur' = NULL
  /\ UNCHANGED <<net, ready, wakeup, selectorTasks, writeQueue, written,
                 shouldTerminate, tasks, listed>>

KeysDone ==
  /\ at = "keys" /\ \A c \in Conns : ready[c] = {}
  /\ at' = "select"
  /\ UNCHANGED <<net, cur, ready, wakeup, selectorTasks, keyVars, writeQueue, written,
                 shouldTerminate, tasks, listed>>

SelectorStep ==
  /\ \/ Select \/ RunTask \/ TasksDone \/ KeysDone
     \/ \E c \in Conns :
          \/ AcceptKey(c) \/ ReadKey(c) \/ ReadEnds(c) \/ WriteKey(c)
          \/ WriteTop(c) \/ WritePart(c) \/ WriteFails(c)
          \/ WriteDone(c) \/ Flushed(c) \/ Rearm(c)
  /\ UNCHANGED <<peer, asked, poolVars>>

-----------------------------------------------------------------------------
(* The pool's threads: c's task                                            *)

(* Where a thread goes when it is done with a frame, and with a send.       *)
Onward(rest) == IF rest = <<>> THEN "idle" ELSE "process"
AfterSend(c) ==
  IF fan[c] # {} \/ owed[c] > 0 THEN "add"
  ELSE IF current[c].kind = "bye" THEN "leave" ELSE Onward(buffer[c])

StartTask(c) ==
  /\ pc[c] = "idle" /\ tasks[c] # <<>>
  /\ tasks' = [tasks EXCEPT ![c] = Tail(@)]
  /\ buffer' = [buffer EXCEPT ![c] = Head(tasks[c])]
  /\ pc' = [pc EXCEPT ![c] = "process"]
  /\ UNCHANGED <<wakeup, selectorTasks, writeQueue, shouldTerminate, torn, current, fan, owed,
                 sending, listed>>

(* What the next frame is taken for: the rest of a frame may be anything.   *)
TakenFor(c) == IF torn[c] THEN AllKinds ELSE {Head(buffer[c]).kind}

(* process(): the next frame; a SEND goes to all followers in the tables.   *)
Process(c) ==
  /\ pc[c] = "process" /\ c \in listed
  /\ \E k \in TakenFor(c) \ {"bad"} :
       /\ current' = [current EXCEPT ![c] = [kind |-> k, n |-> Head(buffer[c]).n]]
       /\ fan' = [fan EXCEPT ![c] = IF k \in {"send", "report"} THEN Followers \cap listed ELSE {}]
       /\ owed' = [owed EXCEPT ![c] = Answers(k)]
  /\ buffer' = [buffer EXCEPT ![c] = Tail(@)]
  /\ torn' = [torn EXCEPT ![c] = FALSE]
  /\ pc' = [pc EXCEPT ![c] = AfterSend(c)']
  /\ UNCHANGED <<wakeup, selectorTasks, writeQueue, shouldTerminate, tasks, sending, listed>>

(* process() throws: the task is over and nothing is sent.  The rest of its *)
(* buffer is lost, and there may be the beginning of a frame in it.         *)
ProcessThrows(c) ==
  /\ pc[c] = "process" /\ c \in listed /\ "bad" \in TakenFor(c)
  /\ buffer' = [buffer EXCEPT ![c] = <<>>]
  /\ \E cut \in BOOLEAN : torn' = [torn EXCEPT ![c] = cut]
  /\ pc' = [pc EXCEPT ![c] = "idle"]
  /\ UNCHANGED <<wakeup, selectorTasks, writeQueue, shouldTerminate, tasks, current, fan, owed,
                 sending, listed>>

(* A frame of a connection that has left the tables is answered by nobody:  *)
(* send(id) finds no handler, or a null in the tables ends the task.        *)
ProcessUnlisted(c) ==
  /\ pc[c] = "process" /\ c \notin listed
  /\ \E rest \in {<<>>, Tail(buffer[c])} :
       buffer' = [buffer EXCEPT ![c] = rest] /\ pc' = [pc EXCEPT ![c] = Onward(rest)]
  /\ UNCHANGED <<wakeup, selectorTasks, writeQueue, shouldTerminate, tasks, torn, current, fan,
                 owed, sending, listed>>

(* handler.send(msg): the message is queued, then the selector thread is    *)
(* asked to write, then it is woken up.  The answers come after the         *)
(* MESSAGEs.                                                                *)
Add(c) ==
  /\ pc[c] = "add"
  /\ \E h \in IF fan[c] = {} THEN {c} ELSE fan[c] :
       /\ sending' = [sending EXCEPT ![c] = h]
       /\ fan' = [fan EXCEPT ![c] = @ \ {h}]
       /\ owed' = [owed EXCEPT ![c] = IF fan[c] = {} THEN @ - 1 ELSE @]
       /\ writeQueue' = [writeQueue EXCEPT
            ![h] = Append(@, [type |-> IF fan[c] = {} THEN "answer" ELSE "MESSAGE", from |-> c,
                              n |-> current[c].n, left |-> owed'[c]])]
  /\ pc' = [pc EXCEPT ![c] = "request"]
  /\ UNCHANGED <<wakeup, selectorTasks, shouldTerminate, tasks, buffer, torn, current, listed>>

Request(c) ==
  /\ pc[c] = "request"
  /\ selectorTasks' = Append(selectorTasks, sending[c])
  /\ pc' = [pc EXCEPT ![c] = "wakeup"]
  /\ UNCHANGED <<wakeup, writeQueue, shouldTerminate, tasks, buffer, torn, current, fan, owed,
                 sending, listed>>

(* A slip for Wakeup: selector.wakeup() is not called.                      *)
WakeupForgotten(c) ==
  /\ pc[c] = "wakeup"
  /\ pc' = [pc EXCEPT ![c] = AfterSend(c)]
  /\ sending' = [sending EXCEPT ![c] = NULL]
  /\ UNCHANGED <<wakeup, selectorTasks, writeQueue, shouldTerminate, tasks, buffer, torn, current,
                 fan, owed, listed>>

(* selector.wakeup(), and on: to the next send, to disconnect() or to the   *)
(* next frame.                                                              *)
Wakeup(c) ==
  /\ pc[c] = "wakeup"
  /\ wakeup' = TRUE
  /\ pc' = [pc EXCEPT ![c] = AfterSend(c)]
  /\ sending' = [sending EXCEPT ![c] = NULL]
  /\ UNCHANGED <<selectorTasks, writeQueue, shouldTerminate, tasks, buffer, torn, current, fan,
                 owed, listed>>

(* connections.disconnect(id): out of the tables, then terminate().         *)
Leave(c) ==
  /\ pc[c] = "leave"
  /\ listed' = listed \ {c}
  /\ pc' = [pc EXCEPT ![c] = "terminate"]
  /\ UNCHANGED <<wakeup, selectorTasks, writeQueue, shouldTerminate, tasks, buffer, torn, current,
                 fan, owed, sending>>

Terminate(c) ==
  /\ pc[c] = "terminate"
  /\ shouldTerminate' = [shouldTerminate EXCEPT ![c] = TRUE]
  /\ pc' = [pc EXCEPT ![c] = Onward(buffer[c])]
  /\ UNCHANGED <<wakeup, selectorTasks, writeQueue, tasks, buffer, torn, current, fan, owed,
                 sending, listed>>

WorkerStep(c) ==
  /\ \/ StartTask(c) \/ Process(c) \/ ProcessThrows(c) \/ ProcessUnlisted(c)
     \/ Add(c) \/ Request(c) \/ Wakeup(c) \/ Leave(c) \/ Terminate(c)
  /\ UNCHANGED <<clientVars, selectorVars, keyVars, written>>

-----------------------------------------------------------------------------
Next == SelectorStep \/ \E c \in Conns : ClientStep(c) \/ WorkerStep(c)

Spec == Init /\ [][Next]_vars

(* The threads run, and a client's socket takes a whole frame in the end.   *)
FairSpec ==
  /\ Spec
  /\ WF_vars(SelectorStep)
  /\ \A c \in Conns : /\ WF_vars(WorkerStep(c))
                      /\ SF_vars(WriteTop(c) /\ UNCHANGED <<peer, asked, poolVars>>)

-----------------------------------------------------------------------------
TypeOK ==
  /\ peer \in [Conns -> {"away", "up", "closed"}]
  /\ asked \in [Conns -> Seq(AllKinds)] /\ net \in [Conns -> Seq(Frame)]
  /\ at \in {"select", "tasks", "keys", "write", "flushed", "rearm", "dead"}
  /\ cur \in Conns \cup {NULL} /\ ready \in [Conns -> SUBSET {"A", "R", "W"}]
  /\ wakeup \in BOOLEAN /\ selectorTasks \in Seq(Conns)
  /\ key \in [Conns -> {"none", "valid", "cancelled", "gone"}]
  /\ interest \in [Conns -> SUBSET Ops]
  /\ writeQueue \in [Conns -> Seq(Outgoing)] /\ written \in [Conns -> Seq(Outgoing)]
  /\ shouldTerminate \in [Conns -> BOOLEAN]
  /\ tasks \in [Conns -> Seq(Seq(Frame))] /\ buffer \in [Conns -> Seq(Frame)]
  /\ pc \in [Conns -> {"idle", "process", "add", "request", "wakeup", "leave", "terminate"}]
  /\ torn \in [Conns -> BOOLEAN] /\ owed \in [Conns -> 0 .. 2]
  /\ current \in [Conns -> Frame \cup {NULL}] /\ fan \in [Conns -> SUBSET Conns]
  /\ sending \in [Conns -> Conns \cup {NULL}]
  /\ listed \subseteq Conns

(* What waits in an open connection's queue will be written: the selector   *)
(* thread is interested in writing, or will be by a task it was given or is *)
(* just being given.  A reset of the interest may overtake nothing.         *)
WriteArmed ==
  \A h \in Conns : at # "dead" /\ key[h] = "valid" /\ writeQueue[h] # <<>> =>
    \/ "W" \in interest[h]
    \/ \E i \in 1 .. Len(selectorTasks) : selectorTasks[i] = h
    \/ \E c \in Conns : pc[c] = "request" /\ sending[c] = h

(* The selector thread does not sleep on a task: it was, or is just being,  *)
(* woken up.                                                                *)
TaskWakes ==
  at = "select" /\ selectorTasks # <<>> => wakeup \/ \E c \in Conns : pc[c] = "wakeup"
NothingStranded == WriteArmed /\ TaskWakes

(* A client is answered in the order of its frames, each as often as it     *)
(* asked for, whichever threads and broadcasts come between: no answer      *)
(* comes twice, none to a frame that asked for none, and none is left out   *)
(* before a later one.  Only of frames after one that throws (Clear) it may *)
(* be that they are lost or, torn, taken for others; their answers keep the *)
(* order all the same.                                                      *)
Out(c) == written[c] \o writeQueue[c]
AnswersIn(out) == {i \in 1 .. Len(out) : out[i].type = "answer"}
Clear(c, n) == \A m \in 1 .. n - 1 : asked[c][m] # "bad"
Precedes(a, b) == a.n < b.n \/ (a.n = b.n /\ a.left > b.left)
InOrder(out) == \A i, j \in AnswersIn(out) : i < j => Precedes(out[i], out[j])
NoneUncalled(c) ==
  \A i \in AnswersIn(Out(c)) :
    LET a == Out(c)[i] IN Clear(c, a.n) => a.left < Answers(asked[c][a.n])
NoneLeftOut(c) ==
  \A i \in AnswersIn(Out(c)) : \A m \in 1 .. Out(c)[i].n :
    Clear(c, m) =>
      \A l \in 0 .. Answers(asked[c][m]) - 1 :
        Precedes([n |-> m, left |-> l], Out(c)[i]) =>
          \E j \in AnswersIn(Out(c)) : Out(c)[j].n = m /\ Out(c)[j].left = l
AnsweredInOrder == \A c \in Conns : InOrder(Out(c)) /\ NoneUncalled(c) /\ NoneLeftOut(c)

(* The selector thread is over, or is in a loop of failing writes.          *)
Stuck == at = "dead" \/ (at = "write" /\ key[cur] = "cancelled")

(* A client that stays gets every answer it asked for, an ERROR or the      *)
(* RECEIPT of a DISCONNECT included, as long as the selector thread works   *)
(* and no earlier frame has thrown: of the frames after one that did, those *)
(* in the same buffer are lost and the channel stays open.                  *)
Due(c, n) ==
  /\ n <= Len(asked[c]) /\ Answers(asked[c][n]) > 0
  /\ \A m \in 1 .. n - 1 : asked[c][m] \notin {"bye", "bad"}
Answered(c, n) ==
  \E i \in 1 .. Len(written[c]) :
    LET a == written[c][i] IN a.type = "answer" /\ a.n = n /\ a.left = 0
AnswersArrive ==
  \A c \in Conns : \A n \in 1 .. MaxFrames[c] :
    Due(c, n) ~> Answered(c, n) \/ peer[c] = "closed" \/ Stuck

(* A connection that is over while its last answers wait is closed when they *)
(* are written, whatever broadcasts still come in for it.  (One whose last  *)
(* answer is out before terminate() stays open until its client closes.)    *)
TerminatedCloses ==
  \A c \in Conns :
    shouldTerminate[c] /\ writeQueue[c] # <<>> ~> key[c] # "valid" \/ peer[c] = "closed" \/ Stuck

(* serve() ends when "server was requested to be closed" (Reactor), and     *)
(* nobody has requested it.                                                 *)
KeepsServing == at # "dead"
=============================================================================

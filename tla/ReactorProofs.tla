---------------------------- MODULE ReactorProofs ----------------------------
(***************************************************************************)
(* The reactor strands no message and answers every client in the order of *)
(* its frames, for any number of connections, followers and frames.        *)
(***************************************************************************)
EXTENDS Reactor, TLAPS, SequenceTheorems

Buffer == Seq(Frame) \ {<<>>}

(* TypeOK, and what a thread of the pool has in hand where it is.           *)
Typed ==
  /\ TypeOK
  /\ tasks \in [Conns -> Seq(Buffer)]
  /\ \A c \in Conns :
       /\ pc[c] = "process" => buffer[c] \in Buffer
       /\ pc[c] \in {"add", "request", "wakeup", "leave", "terminate"} => current[c] \in Frame
       /\ pc[c] = "add" => fan[c] # {} \/ owed[c] > 0
       /\ pc[c] \in {"request", "wakeup"} => sending[c] \in Conns

(* A connection that is not accepted has nothing yet.                       *)
Unborn ==
  \A h \in Conns : key[h] = "none" =>
    /\ h \notin listed /\ writeQueue[h] = <<>> /\ tasks[h] = <<>> /\ pc[h] = "idle"
    /\ \A c \in Conns : h \notin fan[c]

(* Keys are ready for what they may be ready for.                           *)
ReadyFits ==
  /\ \A c \in Conns : /\ "A" \in ready[c] => key[c] = "none"
                      /\ "R" \in ready[c] \/ "W" \in ready[c] => key[c] # "none"
  /\ at \in {"write", "flushed", "rearm"} => cur \in Conns /\ key[cur] # "none"

(* The selector thread has been given, or is being given, a task for h.     *)
Waits(h) == \E i \in 1 .. Len(selectorTasks) : selectorTasks[i] = h
Asking(h) == \E c \in Conns : pc[c] = "request" /\ sending[c] = h
Pending(h) == Waits(h) \/ Asking(h)

(* WriteArmed, also where the interest is about to be reset.                *)
Armed ==
  \A h \in Conns : at # "dead" /\ writeQueue[h] # <<>> =>
    /\ key[h] = "valid" => "W" \in interest[h] \/ Pending(h)
    /\ at = "rearm" /\ cur = h => Pending(h)

(* TaskWakes, wherever the tasks are not being run.                         *)
Woken ==
  at \notin {"tasks", "dead"} /\ selectorTasks # <<>> =>
    wakeup \/ \E c \in Conns : pc[c] = "wakeup"

Inv == Typed /\ Unborn /\ ReadyFits /\ Armed /\ Woken

-----------------------------------------------------------------------------
(* Sequences                                                               *)

LEMMA TailType ==
  ASSUME NEW S, NEW s \in Seq(S), s # <<>>
  PROVE  Tail(s) \in Seq(S) /\ Head(s) \in S
  OBVIOUS

LEMMA AppendType ==
  ASSUME NEW S, NEW s \in Seq(S), NEW x \in S
  PROVE  Append(s, x) \in Seq(S)
  OBVIOUS

LEMMA SubSeqType ==
  ASSUME NEW S, NEW s \in Seq(S), NEW k \in 1 .. Len(s)
  PROVE  /\ SubSeq(s, 1, k) \in Seq(S) /\ SubSeq(s, 1, k) # <<>>
         /\ SubSeq(s, k + 1, Len(s)) \in Seq(S)
<1>1. SubSeq(s, 1, k) \in Seq(S) /\ Len(SubSeq(s, 1, k)) = k
  OBVIOUS
<1>2. SubSeq(s, k + 1, Len(s)) \in Seq(S)
  OBVIOUS
<1> QED BY <1>1, <1>2

LEMMA EmptyType == \A S : <<>> \in Seq(S)
  OBVIOUS

-----------------------------------------------------------------------------
(* The reactor starts with the invariant.                                   *)
LEMMA InvInit == Init => Inv
<1> SUFFICES ASSUME Init PROVE Inv
  OBVIOUS
<1>0. 0 \in 0 .. 2
  OBVIOUS
<1>1. Typed
  BY <1>0, EmptyType DEF Init, Typed, TypeOK, Ops
<1>2. Unborn /\ ReadyFits
  BY DEF Init, Unborn, ReadyFits
<1>3. Armed /\ Woken
  BY DEF Init, Armed, Woken
<1> QED BY <1>1, <1>2, <1>3 DEF Inv

-----------------------------------------------------------------------------
(* Steps of the clients disturb only their own part.                        *)
LEMMA ClientKeepsTypes ==
  ASSUME Inv, NEW c \in Conns, ClientStep(c)
  PROVE  Typed'
<1> USE ReactorAssumption DEF Inv, Typed, TypeOK, ClientStep, selectorVars, keyVars, poolVars
<1>1. CASE ClientConnects(c)
  BY <1>1 DEF ClientConnects
<1>2. CASE ClientCloses(c)
  BY <1>2 DEF ClientCloses
<1>3. ASSUME NEW k \in Kinds[c], ClientSends(c, k) PROVE Typed'
  <2>1. k \in AllKinds /\ asked[c] \in Seq(AllKinds) /\ net[c] \in Seq(Frame)
    OBVIOUS
  <2>2. Append(asked[c], k) \in Seq(AllKinds) /\ Len(Append(asked[c], k)) \in Nat
    BY <2>1
  <2>3. asked' = [asked EXCEPT ![c] = Append(asked[c], k)]
        /\ net' = [net EXCEPT ![c] = Append(net[c], [kind |-> k, n |-> Len(asked'[c])])]
        /\ peer' = peer
    BY <1>3 DEF ClientSends
  <2>4. Len(asked'[c]) \in Nat
    BY <2>2, <2>3
  <2>5. Append(net[c], [kind |-> k, n |-> Len(asked'[c])]) \in Seq(Frame)
    BY <2>1, <2>4 DEF Frame
  <2>6. asked' \in [Conns -> Seq(AllKinds)] /\ net' \in [Conns -> Seq(Frame)]
    BY <2>2, <2>3, <2>5
  <2> QED BY <2>3, <2>6
<1> QED BY <1>1, <1>2, <1>3

LEMMA ClientKeeps ==
  ASSUME Inv, NEW c \in Conns, ClientStep(c)
  PROVE  Inv'
<1> USE DEF ClientStep, selectorVars, keyVars, poolVars
<1>1. Typed'
  BY ClientKeepsTypes
<1>2. Unborn' /\ ReadyFits'
  BY DEF Inv, Unborn, ReadyFits
<1>3. Armed' /\ Woken'
  BY DEF Inv, Armed, Woken, Pending, Waits, Asking
<1> QED BY <1>1, <1>2, <1>3 DEF Inv
-----------------------------------------------------------------------------
(* The selector thread                                                     *)

LEMMA SelectorTypes ==
  ASSUME Inv, SelectorStep
  PROVE  Typed'
<1> USE ReactorAssumption DEF SelectorStep, poolVars, keyVars, selectorVars
<1>1. CASE Select
  <2>1. ready' \in [Conns -> SUBSET {"A", "R", "W"}]
    BY <1>1 DEF Inv, Typed, TypeOK, Select, ReadyOps, Ops
  <2>2. key' \in [Conns -> {"none", "valid", "cancelled", "gone"}]
    BY <1>1 DEF Inv, Typed, TypeOK, Select
  <2> QED BY <1>1, <2>1, <2>2 DEF Inv, Typed, TypeOK, Select
<1>2. CASE RunTask
  <2>1. selectorTasks' \in Seq(Conns) /\ Head(selectorTasks) \in Conns
    BY <1>2, TailType DEF Inv, Typed, TypeOK, RunTask
  <2>2. CASE key[Head(selectorTasks)] = "valid"
    <3>1. at' = at /\ interest' = [interest EXCEPT ![Head(selectorTasks)] = Ops]
      BY <1>2, <2>2 DEF RunTask
    <3> QED BY <1>2, <2>1, <3>1 DEF Inv, Typed, TypeOK, RunTask
  <2>3. CASE key[Head(selectorTasks)] # "valid"
    <3>1. at' = "dead" /\ interest' = interest
      BY <1>2, <2>3 DEF RunTask
    <3> QED BY <1>2, <2>1, <3>1 DEF Inv, Typed, TypeOK, RunTask
  <2> QED BY <2>2, <2>3
<1>3. CASE TasksDone
  BY <1>3 DEF Inv, Typed, TypeOK, TasksDone
<1>4. CASE KeysDone
  BY <1>4 DEF Inv, Typed, TypeOK, KeysDone
<1>5. ASSUME NEW c \in Conns, AcceptKey(c) PROVE Typed'
  BY <1>5 DEF Inv, Typed, TypeOK, AcceptKey, Ops
<1>6. ASSUME NEW c \in Conns, ReadKey(c) PROVE Typed'
  <2>1. PICK k \in 1 .. Len(net[c]) :
          /\ tasks' = [tasks EXCEPT ![c] = Append(tasks[c], SubSeq(net[c], 1, k))]
          /\ net' = [net EXCEPT ![c] = SubSeq(net[c], k + 1, Len(net[c]))]
    BY <1>6 DEF ReadKey
  <2>2. net[c] \in Seq(Frame) /\ tasks[c] \in Seq(Buffer) /\ tasks[c] \in Seq(Seq(Frame))
    BY DEF Inv, Typed, TypeOK
  <2>3. SubSeq(net[c], 1, k) \in Buffer /\ SubSeq(net[c], k + 1, Len(net[c])) \in Seq(Frame)
    BY <2>2, SubSeqType DEF Buffer
  <2>4. SubSeq(net[c], 1, k) \in Seq(Frame)
    BY <2>3 DEF Buffer
  <2>5. /\ Append(tasks[c], SubSeq(net[c], 1, k)) \in Seq(Buffer)
        /\ Append(tasks[c], SubSeq(net[c], 1, k)) \in Seq(Seq(Frame))
    BY <2>2, <2>3, <2>4, AppendType
  <2>6. tasks' \in [Conns -> Seq(Buffer)] /\ tasks' \in [Conns -> Seq(Seq(Frame))]
        /\ net' \in [Conns -> Seq(Frame)]
    BY <2>1, <2>3, <2>5 DEF Inv, Typed, TypeOK
  <2> QED BY <1>6, <2>6 DEF Inv, Typed, TypeOK, ReadKey
<1>7. ASSUME NEW c \in Conns, ReadEnds(c) PROVE Typed'
  BY <1>7 DEF Inv, Typed, TypeOK, ReadEnds
<1>8. ASSUME NEW c \in Conns, WriteKey(c) PROVE Typed'
  BY <1>8 DEF Inv, Typed, TypeOK, WriteKey
<1>9. ASSUME NEW c \in Conns, WriteTop(c) PROVE Typed'
  <2>1. /\ Tail(writeQueue[c]) \in Seq(Outgoing)
        /\ Append(written[c], Head(writeQueue[c])) \in Seq(Outgoing)
    BY <1>9, TailType, AppendType DEF Inv, Typed, TypeOK, WriteTop
  <2> QED BY <1>9, <2>1 DEF Inv, Typed, TypeOK, WriteTop
<1>10. ASSUME NEW c \in Conns, WritePart(c) PROVE Typed'
  BY <1>10 DEF Inv, Typed, TypeOK, WritePart
<1>11. ASSUME NEW c \in Conns, WriteFails(c) PROVE Typed'
  BY <1>11 DEF Inv, Typed, TypeOK, WriteFails
<1>12. ASSUME NEW c \in Conns, WriteDone(c) PROVE Typed'
  BY <1>12 DEF Inv, Typed, TypeOK, WriteDone
<1>13. ASSUME NEW c \in Conns, Flushed(c) PROVE Typed'
  BY <1>13 DEF Inv, Typed, TypeOK, Flushed
<1>14. ASSUME NEW c \in Conns, Rearm(c) PROVE Typed'
  <2>1. CASE shouldTerminate[c]
    <3>1. key' = [key EXCEPT ![c] = "cancelled"] /\ interest' = interest
      BY <1>14, <2>1 DEF Rearm
    <3> QED BY <1>14, <3>1 DEF Inv, Typed, TypeOK, Rearm
  <2>2. CASE ~shouldTerminate[c]
    <3>1. interest' = [interest EXCEPT ![c] = {"R"}] /\ key' = key /\ {"R"} \in SUBSET Ops
      BY <1>14, <2>2 DEF Rearm, Ops
    <3> QED BY <1>14, <3>1 DEF Inv, Typed, TypeOK, Rearm
  <2> QED BY <2>1, <2>2
<1> QED BY <1>1, <1>2, <1>3, <1>4, <1>5, <1>6, <1>7,
           <1>8, <1>9, <1>10, <1>11, <1>12, <1>13, <1>14

LEMMA SelectorUnborn ==
  ASSUME Inv, SelectorStep
  PROVE  Unborn'
<1>0. /\ key \in [Conns -> {"none", "valid", "cancelled", "gone"}]
      /\ interest \in [Conns -> SUBSET Ops] /\ selectorTasks \in Seq(Conns)
      /\ writeQueue \in [Conns -> Seq(Outgoing)] /\ tasks \in [Conns -> Seq(Seq(Frame))]
      /\ ready \in [Conns -> SUBSET {"A", "R", "W"}] /\ fan \in [Conns -> SUBSET Conns]
      /\ UNCHANGED <<pc, buffer, torn, current, fan, owed, sending>>
      /\ Unborn /\ ReadyFits /\ Armed /\ Woken
  BY DEF Inv, Typed, TypeOK, SelectorStep, poolVars
<1> USE <1>0 DEF Unborn, ReadyFits, keyVars, selectorVars
<1>1. CASE Select
  BY <1>1 DEF Select
<1>2. CASE RunTask
  BY <1>2 DEF RunTask
<1>3. CASE TasksDone
  BY <1>3 DEF TasksDone
<1>4. CASE KeysDone
  BY <1>4 DEF KeysDone
<1>5. ASSUME NEW c \in Conns, AcceptKey(c) PROVE Unborn'
  BY <1>5 DEF AcceptKey
<1>6. ASSUME NEW c \in Conns, ReadKey(c) PROVE Unborn'
  BY <1>6 DEF ReadKey
<1>7. ASSUME NEW c \in Conns, ReadEnds(c) PROVE Unborn'
  BY <1>7 DEF ReadEnds
<1>8. ASSUME NEW c \in Conns, WriteKey(c) PROVE Unborn'
  BY <1>8 DEF WriteKey
<1>9. ASSUME NEW c \in Conns, WriteTop(c) PROVE Unborn'
  BY <1>9 DEF WriteTop
<1>10. ASSUME NEW c \in Conns, WritePart(c) PROVE Unborn'
  BY <1>10 DEF WritePart
<1>11. ASSUME NEW c \in Conns, WriteFails(c) PROVE Unborn'
  BY <1>11 DEF WriteFails
<1>12. ASSUME NEW c \in Conns, WriteDone(c) PROVE Unborn'
  BY <1>12 DEF WriteDone
<1>13. ASSUME NEW c \in Conns, Flushed(c) PROVE Unborn'
  BY <1>13 DEF Flushed
<1>14. ASSUME NEW c \in Conns, Rearm(c) PROVE Unborn'
  BY <1>14 DEF Rearm
<1> QED BY <1>1, <1>2, <1>3, <1>4, <1>5, <1>6, <1>7,
           <1>8, <1>9, <1>10, <1>11, <1>12, <1>13, <1>14 DEF SelectorStep

LEMMA SelectorReady ==
  ASSUME Inv, SelectorStep
  PROVE  ReadyFits'
<1>0. /\ key \in [Conns -> {"none", "valid", "cancelled", "gone"}]
      /\ interest \in [Conns -> SUBSET Ops] /\ selectorTasks \in Seq(Conns)
      /\ writeQueue \in [Conns -> Seq(Outgoing)] /\ tasks \in [Conns -> Seq(Seq(Frame))]
      /\ ready \in [Conns -> SUBSET {"A", "R", "W"}] /\ fan \in [Conns -> SUBSET Conns]
      /\ UNCHANGED <<pc, buffer, torn, current, fan, owed, sending>>
      /\ Unborn /\ ReadyFits /\ Armed /\ Woken
  BY DEF Inv, Typed, TypeOK, SelectorStep, poolVars
<1> USE <1>0 DEF ReadyFits, keyVars, selectorVars
<1>1. CASE Select
  <2>1. PICK next \in IF Calling = {} THEN {{}} ELSE {{c} : c \in Calling} :
          ready' = [c \in Conns |-> IF c \in next THEN {"A"} ELSE ReadyOps(c)]
    BY <1>1 DEF Select
  <2>2. next \subseteq Calling /\ at' = "tasks"
    BY <1>1 DEF Select
  <2>3. \A c \in Conns : /\ "A" \in ready'[c] => c \in Calling
                         /\ "R" \in ready'[c] \/ "W" \in ready'[c] => key[c] = "valid"
    BY <2>1, <2>2 DEF ReadyOps, Ops
  <2>4. \A c \in Conns : key'[c] = IF key[c] = "cancelled" THEN "gone" ELSE key[c]
    BY <1>1 DEF Select
  <2> QED BY <2>2, <2>3, <2>4 DEF Calling
<1>2. CASE RunTask
  BY <1>2 DEF RunTask
<1>3. CASE TasksDone
  BY <1>3 DEF TasksDone
<1>4. CASE KeysDone
  BY <1>4 DEF KeysDone
<1>5. ASSUME NEW c \in Conns, AcceptKey(c) PROVE ReadyFits'
  BY <1>5 DEF AcceptKey
<1>6. ASSUME NEW c \in Conns, ReadKey(c) PROVE ReadyFits'
  BY <1>6 DEF ReadKey
<1>7. ASSUME NEW c \in Conns, ReadEnds(c) PROVE ReadyFits'
  BY <1>7 DEF ReadEnds
<1>8. ASSUME NEW c \in Conns, WriteKey(c) PROVE ReadyFits'
  BY <1>8 DEF WriteKey
<1>9. ASSUME NEW c \in Conns, WriteTop(c) PROVE ReadyFits'
  BY <1>9 DEF WriteTop
<1>10. ASSUME NEW c \in Conns, WritePart(c) PROVE ReadyFits'
  BY <1>10 DEF WritePart
<1>11. ASSUME NEW c \in Conns, WriteFails(c) PROVE ReadyFits'
  BY <1>11 DEF WriteFails
<1>12. ASSUME NEW c \in Conns, WriteDone(c) PROVE ReadyFits'
  BY <1>12 DEF WriteDone
<1>13. ASSUME NEW c \in Conns, Flushed(c) PROVE ReadyFits'
  BY <1>13 DEF Flushed
<1>14. ASSUME NEW c \in Conns, Rearm(c) PROVE ReadyFits'
  BY <1>14 DEF Rearm
<1> QED BY <1>1, <1>2, <1>3, <1>4, <1>5, <1>6, <1>7,
           <1>8, <1>9, <1>10, <1>11, <1>12, <1>13, <1>14 DEF SelectorStep

LEMMA SelectorArmed ==
  ASSUME Inv, SelectorStep
  PROVE  Armed'
<1>1. /\ key \in [Conns -> {"none", "valid", "cancelled", "gone"}]
      /\ interest \in [Conns -> SUBSET Ops]
      /\ writeQueue \in [Conns -> Seq(Outgoing)] /\ selectorTasks \in Seq(Conns)
      /\ UNCHANGED <<pc, sending>>
      /\ Unborn /\ ReadyFits /\ Armed
  BY DEF Inv, Typed, TypeOK, SelectorStep, poolVars
<1> SUFFICES ASSUME NEW h \in Conns, at' # "dead", writeQueue'[h] # <<>>
             PROVE  /\ key'[h] = "valid" => "W" \in interest'[h] \/ Pending(h)'
                    /\ at' = "rearm" /\ cur' = h => Pending(h)'
  BY DEF Armed
<1>2. ASSUME selectorTasks' = selectorTasks PROVE Pending(h)' <=> Pending(h)
  BY <1>1, <1>2 DEF Pending, Waits, Asking
<1>3. at # "dead" /\ writeQueue[h] # <<>> =>
        /\ key[h] = "valid" => "W" \in interest[h] \/ Pending(h)
        /\ at = "rearm" /\ cur = h => Pending(h)
  BY <1>1 DEF Armed
<1> HIDE DEF Pending
<1>4. CASE Select
  BY <1>1, <1>2, <1>3, <1>4 DEF Select
<1>5. CASE RunTask
  <2>1. /\ at = "tasks" /\ selectorTasks # <<>> /\ writeQueue' = writeQueue /\ key' = key
        /\ selectorTasks' = Tail(selectorTasks) /\ cur' = cur
    BY <1>5 DEF RunTask
  <2>2. /\ key[Head(selectorTasks)] = "valid" /\ at' = "tasks"
        /\ interest' = [interest EXCEPT ![Head(selectorTasks)] = Ops]
    BY <1>5, <2>1 DEF RunTask
  <2>3. Head(selectorTasks) \in Conns
    BY <1>1, <2>1, TailType
  <2>4. CASE h = Head(selectorTasks)
    BY <1>1, <2>2, <2>3, <2>4 DEF Ops
  <2>5. CASE h # Head(selectorTasks)
    <3>1. Waits(h) => Waits(h)'
      <4> SUFFICES ASSUME NEW i \in 1 .. Len(selectorTasks), selectorTasks[i] = h
                   PROVE  Waits(h)'
        BY DEF Waits
      <4>1. i # 1 /\ i - 1 \in 1 .. Len(Tail(selectorTasks))
            /\ Tail(selectorTasks)[i - 1] = selectorTasks[i]
        BY <1>1, <2>1, <2>5
      <4> QED BY <2>1, <4>1 DEF Waits
    <3>2. Asking(h)' <=> Asking(h)
      BY <1>1 DEF Asking
    <3>3. Pending(h) => Pending(h)'
      BY <3>1, <3>2 DEF Pending
    <3>4. interest'[h] = interest[h]
      BY <1>1, <2>2, <2>3, <2>5
    <3> QED BY <1>3, <2>1, <2>2, <3>3, <3>4
  <2> QED BY <2>4, <2>5
<1>6. CASE TasksDone
  BY <1>2, <1>3, <1>6 DEF TasksDone, keyVars
<1>7. CASE KeysDone
  BY <1>2, <1>3, <1>7 DEF KeysDone, keyVars
<1>8. ASSUME NEW c \in Conns, AcceptKey(c)
      PROVE  /\ key'[h] = "valid" => "W" \in interest'[h] \/ Pending(h)'
             /\ at' = "rearm" /\ cur' = h => Pending(h)'
  <2>1. key[c] = "none" /\ writeQueue' = writeQueue
    BY <1>1, <1>8 DEF AcceptKey, ReadyFits
  <2>2. h # c
    BY <1>1, <2>1 DEF Unborn
  <2> QED BY <1>1, <1>2, <1>3, <1>8, <2>2 DEF AcceptKey
<1>9. ASSUME NEW c \in Conns, ReadKey(c)
      PROVE  /\ key'[h] = "valid" => "W" \in interest'[h] \/ Pending(h)'
             /\ at' = "rearm" /\ cur' = h => Pending(h)'
  BY <1>1, <1>2, <1>3, <1>9 DEF ReadKey, keyVars, selectorVars
<1>10. ASSUME NEW c \in Conns, ReadEnds(c)
       PROVE  /\ key'[h] = "valid" => "W" \in interest'[h] \/ Pending(h)'
              /\ at' = "rearm" /\ cur' = h => Pending(h)'
  BY <1>1, <1>2, <1>3, <1>10 DEF ReadEnds, keyVars, selectorVars
<1>11. ASSUME NEW c \in Conns, WriteKey(c)
       PROVE  /\ key'[h] = "valid" => "W" \in interest'[h] \/ Pending(h)'
              /\ at' = "rearm" /\ cur' = h => Pending(h)'
  BY <1>1, <1>2, <1>3, <1>11 DEF WriteKey, keyVars, selectorVars
<1>12. ASSUME NEW c \in Conns, WriteTop(c)
       PROVE  /\ key'[h] = "valid" => "W" \in interest'[h] \/ Pending(h)'
              /\ at' = "rearm" /\ cur' = h => Pending(h)'
  BY <1>1, <1>2, <1>3, <1>12 DEF WriteTop, keyVars, selectorVars
<1>13. ASSUME NEW c \in Conns, WritePart(c)
       PROVE  /\ key'[h] = "valid" => "W" \in interest'[h] \/ Pending(h)'
              /\ at' = "rearm" /\ cur' = h => Pending(h)'
  BY <1>1, <1>2, <1>3, <1>13 DEF WritePart, keyVars, selectorVars
<1>14. ASSUME NEW c \in Conns, WriteFails(c)
       PROVE  /\ key'[h] = "valid" => "W" \in interest'[h] \/ Pending(h)'
              /\ at' = "rearm" /\ cur' = h => Pending(h)'
  BY <1>1, <1>2, <1>3, <1>14 DEF WriteFails, keyVars, selectorVars
<1>15. ASSUME NEW c \in Conns, WriteDone(c)
       PROVE  /\ key'[h] = "valid" => "W" \in interest'[h] \/ Pending(h)'
              /\ at' = "rearm" /\ cur' = h => Pending(h)'
  BY <1>1, <1>2, <1>3, <1>15 DEF WriteDone, keyVars, selectorVars
<1>16. ASSUME NEW c \in Conns, Flushed(c)
       PROVE  /\ key'[h] = "valid" => "W" \in interest'[h] \/ Pending(h)'
              /\ at' = "rearm" /\ cur' = h => Pending(h)'
  BY <1>1, <1>2, <1>3, <1>16 DEF Flushed, keyVars, selectorVars
<1>17. ASSUME NEW c \in Conns, Rearm(c)
       PROVE  /\ key'[h] = "valid" => "W" \in interest'[h] \/ Pending(h)'
              /\ at' = "rearm" /\ cur' = h => Pending(h)'
  <2>1. /\ at = "rearm" /\ cur = c /\ at' = "keys"
        /\ writeQueue' = writeQueue /\ selectorTasks' = selectorTasks
        /\ h # c => key'[h] = key[h] /\ interest'[h] = interest[h]
    BY <1>1, <1>17 DEF Rearm
  <2> QED BY <1>2, <1>3, <2>1
<1>18. \/ Select \/ RunTask \/ TasksDone \/ KeysDone
       \/ \E c \in Conns :
            \/ AcceptKey(c) \/ ReadKey(c) \/ ReadEnds(c) \/ WriteKey(c)
            \/ WriteTop(c) \/ WritePart(c) \/ WriteFails(c)
            \/ WriteDone(c) \/ Flushed(c) \/ Rearm(c)
  BY DEF SelectorStep
<1>19. CASE \E c \in Conns :
              \/ AcceptKey(c) \/ ReadKey(c) \/ ReadEnds(c) \/ WriteKey(c)
              \/ WriteTop(c) \/ WritePart(c) \/ WriteFails(c)
              \/ WriteDone(c) \/ Flushed(c) \/ Rearm(c)
  <2>1. PICK c \in Conns :
          \/ AcceptKey(c) \/ ReadKey(c) \/ ReadEnds(c) \/ WriteKey(c)
          \/ WriteTop(c) \/ WritePart(c) \/ WriteFails(c)
          \/ WriteDone(c) \/ Flushed(c) \/ Rearm(c)
    BY <1>19
  <2> QED BY <2>1, <1>8, <1>9, <1>10, <1>11, <1>12, <1>13, <1>14, <1>15, <1>16, <1>17
<1> QED BY <1>4, <1>5, <1>6, <1>7, <1>18, <1>19

LEMMA SelectorWoken ==
  ASSUME Inv, SelectorStep
  PROVE  Woken'
<1>0. /\ key \in [Conns -> {"none", "valid", "cancelled", "gone"}]
      /\ interest \in [Conns -> SUBSET Ops] /\ selectorTasks \in Seq(Conns)
      /\ writeQueue \in [Conns -> Seq(Outgoing)] /\ tasks \in [Conns -> Seq(Seq(Frame))]
      /\ ready \in [Conns -> SUBSET {"A", "R", "W"}] /\ fan \in [Conns -> SUBSET Conns]
      /\ UNCHANGED <<pc, buffer, torn, current, fan, owed, sending>>
      /\ Unborn /\ ReadyFits /\ Armed /\ Woken
  BY DEF Inv, Typed, TypeOK, SelectorStep, poolVars
<1> USE <1>0 DEF Woken, keyVars, selectorVars
<1>1. CASE Select
  BY <1>1 DEF Select
<1>2. CASE RunTask
  BY <1>2 DEF RunTask
<1>3. CASE TasksDone
  BY <1>3 DEF TasksDone
<1>4. CASE KeysDone
  BY <1>4 DEF KeysDone
<1>5. ASSUME NEW c \in Conns, AcceptKey(c) PROVE Woken'
  BY <1>5 DEF AcceptKey
<1>6. ASSUME NEW c \in Conns, ReadKey(c) PROVE Woken'
  BY <1>6 DEF ReadKey
<1>7. ASSUME NEW c \in Conns, ReadEnds(c) PROVE Woken'
  BY <1>7 DEF ReadEnds
<1>8. ASSUME NEW c \in Conns, WriteKey(c) PROVE Woken'
  BY <1>8 DEF WriteKey
<1>9. ASSUME NEW c \in Conns, WriteTop(c) PROVE Woken'
  BY <1>9 DEF WriteTop
<1>10. ASSUME NEW c \in Conns, WritePart(c) PROVE Woken'
  BY <1>10 DEF WritePart
<1>11. ASSUME NEW c \in Conns, WriteFails(c) PROVE Woken'
  BY <1>11 DEF WriteFails
<1>12. ASSUME NEW c \in Conns, WriteDone(c) PROVE Woken'
  BY <1>12 DEF WriteDone
<1>13. ASSUME NEW c \in Conns, Flushed(c) PROVE Woken'
  BY <1>13 DEF Flushed
<1>14. ASSUME NEW c \in Conns, Rearm(c) PROVE Woken'
  BY <1>14 DEF Rearm
<1> QED BY <1>1, <1>2, <1>3, <1>4, <1>5, <1>6, <1>7,
           <1>8, <1>9, <1>10, <1>11, <1>12, <1>13, <1>14 DEF SelectorStep

LEMMA SelectorKeeps ==
  ASSUME Inv, SelectorStep
  PROVE  Inv'
BY SelectorTypes, SelectorUnborn, SelectorReady, SelectorArmed, SelectorWoken DEF Inv

-----------------------------------------------------------------------------
(* The pool's threads                                                      *)

(* What a send() queues, and for whom.                                      *)
Message(c) == [type |-> IF fan[c] = {} THEN "answer" ELSE "MESSAGE", from |-> c,
               n |-> current[c].n, left |-> owed'[c]]
Adding(c, h) ==
  /\ sending' = [sending EXCEPT ![c] = h]
  /\ fan' = [fan EXCEPT ![c] = @ \ {h}]
  /\ owed' = [owed EXCEPT ![c] = IF fan[c] = {} THEN @ - 1 ELSE @]
  /\ writeQueue' = [writeQueue EXCEPT ![h] = Append(@, Message(c))]
LEMMA AddPicks ==
  ASSUME NEW c, Add(c)
  PROVE  \E h \in IF fan[c] = {} THEN {c} ELSE fan[c] : Adding(c, h)
BY DEF Add, Adding, Message

LEMMA WorkerTypes ==
  ASSUME Inv, NEW c \in Conns, WorkerStep(c)
  PROVE  Typed'
<1> USE ReactorAssumption DEF WorkerStep, clientVars, selectorVars, keyVars
<1>0. Typed /\ c \in DOMAIN pc
  BY DEF Inv, Typed, TypeOK
<1>1. CASE StartTask(c)
  <2>1. /\ tasks[c] \in Seq(Buffer) /\ tasks[c] \in Seq(Seq(Frame)) /\ tasks[c] # <<>>
    BY <1>0, <1>1 DEF Typed, TypeOK, StartTask
  <2>2. /\ Head(tasks[c]) \in Buffer /\ Head(tasks[c]) \in Seq(Frame)
        /\ Tail(tasks[c]) \in Seq(Buffer) /\ Tail(tasks[c]) \in Seq(Seq(Frame))
    BY <2>1, TailType
  <2> QED BY <1>0, <1>1, <2>2 DEF Typed, TypeOK, StartTask
<1>2. CASE Process(c)
  <2>1. buffer[c] \in Seq(Frame) /\ buffer[c] # <<>>
    BY <1>0, <1>2 DEF Typed, TypeOK, Process, Buffer
  <2>2. Head(buffer[c]) \in Frame /\ Tail(buffer[c]) \in Seq(Frame)
    BY <2>1, TailType
  <2>3. PICK k \in TakenFor(c) \ {"bad"} :
          /\ current' = [current EXCEPT ![c] = [kind |-> k, n |-> Head(buffer[c]).n]]
          /\ fan' = [fan EXCEPT
               ![c] = IF k \in {"send", "report"} THEN Followers \cap listed ELSE {}]
          /\ owed' = [owed EXCEPT ![c] = Answers(k)]
    BY <1>2 DEF Process
  <2>4. k \in AllKinds /\ Answers(k) \in 0 .. 2 /\ [kind |-> k, n |-> Head(buffer[c]).n] \in Frame
    BY <2>2 DEF TakenFor, Frame, AllKinds, Answers
  <2>5. /\ current' \in [Conns -> Frame \cup {NULL}] /\ current'[c] \in Frame
        /\ fan' \in [Conns -> SUBSET Conns] /\ owed' \in [Conns -> 0 .. 2]
    BY <1>0, <2>3, <2>4 DEF Typed, TypeOK
  <2>6. /\ pc' = [pc EXCEPT ![c] = AfterSend(c)']
        /\ buffer' = [buffer EXCEPT ![c] = Tail(buffer[c])]
        /\ torn' = [torn EXCEPT ![c] = FALSE]
        /\ UNCHANGED <<wakeup, selectorTasks, writeQueue, shouldTerminate, tasks, sending, listed>>
    BY <1>2 DEF Process
  <2>7. buffer' \in [Conns -> Seq(Frame)] /\ buffer'[c] = Tail(buffer[c])
    BY <1>0, <2>2, <2>6 DEF Typed, TypeOK
  <2>8. /\ AfterSend(c)' \in {"add", "leave", "idle", "process"}
        /\ AfterSend(c)' = "process" => buffer'[c] \in Buffer
        /\ AfterSend(c)' = "add" => fan'[c] # {} \/ owed'[c] > 0
    BY <2>2, <2>7 DEF AfterSend, Onward, Buffer
  <2> HIDE DEF AfterSend
  <2>9. TypeOK' /\ tasks' \in [Conns -> Seq(Buffer)]
    BY <1>0, <2>5, <2>6, <2>7, <2>8 DEF Typed, TypeOK
  <2>10. \A d \in Conns : d # c => /\ pc'[d] = pc[d] /\ buffer'[d] = buffer[d]
                                   /\ current'[d] = current[d] /\ fan'[d] = fan[d]
                                   /\ owed'[d] = owed[d]
    BY <1>0, <2>3, <2>6 DEF Typed, TypeOK
  <2>11. pc'[c] = AfterSend(c)'
    BY <1>0, <2>6
  <2> QED BY <1>0, <2>5, <2>6, <2>8, <2>9, <2>10, <2>11 DEF Typed
<1>9. CASE ProcessThrows(c)
  <2>1. <<>> \in Seq(Frame)
    BY EmptyType
  <2>2. /\ buffer' = [buffer EXCEPT ![c] = <<>>] /\ pc' = [pc EXCEPT ![c] = "idle"]
        /\ UNCHANGED <<wakeup, selectorTasks, writeQueue, shouldTerminate, tasks, current, fan,
                       owed, sending, listed>>
    BY <1>9 DEF ProcessThrows
  <2>3. torn' \in [Conns -> BOOLEAN]
    BY <1>0, <1>9 DEF Typed, TypeOK, ProcessThrows
  <2>4. TypeOK'
    BY <1>0, <2>1, <2>2, <2>3 DEF Typed, TypeOK
  <2>5. \A d \in Conns : /\ d # c => pc'[d] = pc[d] /\ buffer'[d] = buffer[d]
                         /\ d = c => pc'[d] = "idle"
    BY <1>0, <2>2 DEF Typed, TypeOK
  <2> QED BY <1>0, <2>2, <2>4, <2>5 DEF Typed
<1>3. CASE ProcessUnlisted(c)
  <2>1. buffer[c] \in Seq(Frame) /\ buffer[c] # <<>>
    BY <1>0, <1>3 DEF Typed, TypeOK, ProcessUnlisted, Buffer
  <2>2. PICK rest \in {<<>>, Tail(buffer[c])} :
          buffer' = [buffer EXCEPT ![c] = rest] /\ pc' = [pc EXCEPT ![c] = Onward(rest)]
    BY <1>3 DEF ProcessUnlisted
  <2>3. rest \in Seq(Frame)
    BY <2>1, TailType, EmptyType
  <2>4. Onward(rest) \in {"idle", "process"} /\ (Onward(rest) = "process" => rest \in Buffer)
    BY <2>3 DEF Onward, Buffer
  <2> QED BY <1>0, <1>3, <2>2, <2>3, <2>4 DEF Typed, TypeOK, ProcessUnlisted
<1>4. CASE Add(c)
  <2>1. PICK h \in IF fan[c] = {} THEN {c} ELSE fan[c] : Adding(c, h)
    BY <1>4, AddPicks
  <2> DEFINE out == Message(c)
  <2>2. h \in Conns /\ current[c] \in Frame
    BY <1>0, <1>4, <2>1 DEF Typed, TypeOK, Add
  <2>3. owed' \in [Conns -> 0 .. 2] /\ out \in Outgoing
    <3>1. owed[c] \in 0 .. 2 /\ (fan[c] = {} => owed[c] > 0)
      BY <1>0, <1>4 DEF Typed, TypeOK, Add
    <3>2. (IF fan[c] = {} THEN owed[c] - 1 ELSE owed[c]) \in 0 .. 2
      BY <3>1
    <3>3. owed'[c] \in 0 .. 2 /\ owed' \in [Conns -> 0 .. 2]
      BY <1>0, <2>1, <3>2 DEF Adding, Typed, TypeOK
    <3> QED BY <2>2, <3>3 DEF Message, Outgoing, Frame
  <2> HIDE DEF out
  <2>4. writeQueue[h] \in Seq(Outgoing) /\ Append(writeQueue[h], out) \in Seq(Outgoing)
    BY <1>0, <2>2, <2>3, AppendType DEF Typed, TypeOK
  <2>5. /\ sending' = [sending EXCEPT ![c] = h]
        /\ writeQueue' = [writeQueue EXCEPT ![h] = Append(writeQueue[h], out)]
        /\ fan' = [fan EXCEPT ![c] = fan[c] \ {h}]
    BY <2>1 DEF Adding, out
  <2>6. /\ sending' \in [Conns -> Conns \cup {NULL}] /\ sending'[c] \in Conns
        /\ writeQueue' \in [Conns -> Seq(Outgoing)] /\ fan' \in [Conns -> SUBSET Conns]
    BY <1>0, <2>2, <2>4, <2>5 DEF Typed, TypeOK
  <2>7. pc' = [pc EXCEPT ![c] = "request"] /\ current' = current /\ buffer' = buffer
        /\ UNCHANGED <<wakeup, selectorTasks, shouldTerminate, tasks, torn, listed>>
    BY <1>4 DEF Add
  <2>8. TypeOK' /\ tasks' \in [Conns -> Seq(Buffer)]
    BY <1>0, <2>3, <2>6, <2>7 DEF Typed, TypeOK
  <2>9. \A d \in Conns : d # c => /\ sending'[d] = sending[d] /\ pc'[d] = pc[d]
                                  /\ fan'[d] = fan[d] /\ owed'[d] = owed[d]
    BY <1>0, <2>1, <2>5, <2>7 DEF Typed, TypeOK, Adding
  <2>10. pc'[c] = "request" /\ current[c] \in Frame /\ sending'[c] \in Conns
    BY <1>0, <2>2, <2>6, <2>7
  <2> QED BY <1>0, <2>7, <2>8, <2>9, <2>10 DEF Typed
<1>5. CASE Request(c)
  <2>1. sending[c] \in Conns /\ selectorTasks \in Seq(Conns)
    BY <1>0, <1>5 DEF Typed, TypeOK, Request
  <2>2. Append(selectorTasks, sending[c]) \in Seq(Conns)
    BY <2>1, AppendType
  <2> QED BY <1>0, <1>5, <2>1, <2>2 DEF Typed, TypeOK, Request
<1>6. CASE Wakeup(c)
  <2> DEFINE next == AfterSend(c)
  <2>1. /\ current[c] \in Frame /\ buffer[c] \in Seq(Frame)
    BY <1>0, <1>6 DEF Typed, TypeOK, Wakeup
  <2>2. /\ next \in {"add", "leave", "idle", "process"}
        /\ next = "process" => buffer[c] \in Buffer
        /\ next = "add" => fan[c] # {} \/ owed[c] > 0
    BY <2>1 DEF AfterSend, Onward, Buffer
  <2>3. pc' = [pc EXCEPT ![c] = next]
    BY <1>6 DEF Wakeup
  <2> HIDE DEF next
  <2>4. /\ sending' = [sending EXCEPT ![c] = NULL] /\ wakeup' = TRUE
        /\ UNCHANGED <<selectorTasks, writeQueue, shouldTerminate, tasks, buffer, torn, current,
                       fan, owed, listed>>
    BY <1>6 DEF Wakeup
  <2>5. TypeOK' /\ tasks' \in [Conns -> Seq(Buffer)]
    BY <1>0, <2>2, <2>3, <2>4 DEF Typed, TypeOK
  <2>6. \A d \in Conns : d # c => sending'[d] = sending[d] /\ pc'[d] = pc[d]
    BY <1>0, <2>3, <2>4 DEF Typed, TypeOK
  <2>7. pc'[c] = next
    BY <1>0, <2>3
  <2> QED BY <1>0, <2>1, <2>2, <2>4, <2>5, <2>6, <2>7 DEF Typed
<1>7. CASE Leave(c)
  BY <1>0, <1>7 DEF Typed, TypeOK, Leave
<1>8. CASE Terminate(c)
  <2>1. buffer[c] \in Seq(Frame)
    BY <1>0 DEF Typed, TypeOK
  <2>2. Onward(buffer[c]) \in {"idle", "process"}
        /\ (Onward(buffer[c]) = "process" => buffer[c] \in Buffer)
    BY <2>1 DEF Onward, Buffer
  <2> QED BY <1>0, <1>8, <2>2 DEF Typed, TypeOK, Terminate
<1> QED BY <1>1, <1>2, <1>3, <1>4, <1>5, <1>6, <1>7, <1>8, <1>9 DEF WorkerStep

LEMMA WorkerUnborn ==
  ASSUME Inv, NEW c \in Conns, WorkerStep(c)
  PROVE  Unborn'
<1>0. /\ pc \in [Conns -> {"idle", "process", "add", "request", "wakeup", "leave", "terminate"}]
      /\ writeQueue \in [Conns -> Seq(Outgoing)] /\ tasks \in [Conns -> Seq(Seq(Frame))]
      /\ fan \in [Conns -> SUBSET Conns] /\ key' = key
      /\ Unborn
  BY DEF Inv, Typed, TypeOK, WorkerStep, keyVars
<1> USE <1>0 DEF Unborn
<1>1. CASE StartTask(c)
  BY <1>1 DEF StartTask
<1>2. CASE Process(c)
  BY <1>2 DEF Process
<1>3. CASE ProcessUnlisted(c)
  BY <1>3 DEF ProcessUnlisted
<1>9. CASE ProcessThrows(c)
  BY <1>9 DEF ProcessThrows
<1>4. CASE Add(c)
  <2>1. PICK h \in IF fan[c] = {} THEN {c} ELSE fan[c] :
          /\ writeQueue' = [writeQueue EXCEPT ![h] = Append(@, Message(c))]
          /\ fan' = [fan EXCEPT ![c] = @ \ {h}]
    <3>1. PICK h \in IF fan[c] = {} THEN {c} ELSE fan[c] : Adding(c, h)
      BY <1>4, AddPicks
    <3> QED BY <3>1 DEF Adding
  <2>2. h \in Conns /\ key[h] # "none" /\ key[c] # "none"
    BY <1>4, <2>1 DEF Add
  <2>3. \A g \in Conns : key[g] = "none" => writeQueue'[g] = writeQueue[g]
    BY <2>1, <2>2
  <2>4. \A d \in Conns : fan'[d] \subseteq fan[d]
    BY <2>1
  <2>5. pc' = [pc EXCEPT ![c] = "request"] /\ UNCHANGED <<tasks, listed>>
    BY <1>4 DEF Add
  <2> QED BY <2>2, <2>3, <2>4, <2>5
<1>5. CASE Request(c)
  BY <1>5 DEF Request
<1>6. CASE Wakeup(c)
  BY <1>6 DEF Wakeup
<1>7. CASE Leave(c)
  BY <1>7 DEF Leave
<1>8. CASE Terminate(c)
  BY <1>8 DEF Terminate
<1> QED BY <1>1, <1>2, <1>3, <1>4, <1>5, <1>6, <1>7, <1>8, <1>9 DEF WorkerStep

LEMMA WorkerReady ==
  ASSUME Inv, NEW c \in Conns, WorkerStep(c)
  PROVE  ReadyFits'
BY DEF Inv, ReadyFits, WorkerStep, selectorVars, keyVars

(* An answer that is queued is asked to be written, and the asking ends as  *)
(* a task of the selector thread.                                           *)
LEMMA WorkerArmed ==
  ASSUME Inv, NEW c \in Conns, WorkerStep(c)
  PROVE  Armed'
<1>0. /\ pc \in [Conns -> {"idle", "process", "add", "request", "wakeup", "leave", "terminate"}]
      /\ sending \in [Conns -> Conns \cup {NULL}]
      /\ writeQueue \in [Conns -> Seq(Outgoing)] /\ selectorTasks \in Seq(Conns)
      /\ fan \in [Conns -> SUBSET Conns]
      /\ UNCHANGED <<at, cur, key, interest>>
      /\ Armed
  BY DEF Inv, Typed, TypeOK, WorkerStep, selectorVars, keyVars
<1> SUFFICES ASSUME NEW h \in Conns, at # "dead", writeQueue'[h] # <<>>
             PROVE  Pending(h)' \/ (writeQueue[h] # <<>> /\ (Pending(h) => Pending(h)'))
  BY <1>0 DEF Armed
<1>1. CASE Add(c)
  <2>1. PICK g \in IF fan[c] = {} THEN {c} ELSE fan[c] :
          /\ sending' = [sending EXCEPT ![c] = g]
          /\ writeQueue' = [writeQueue EXCEPT ![g] = Append(@, Message(c))]
    BY <1>1, AddPicks DEF Adding
  <2>2. /\ g \in Conns /\ pc[c] = "add" /\ pc' = [pc EXCEPT ![c] = "request"]
        /\ selectorTasks' = selectorTasks /\ sending'[c] = g
        /\ \A d \in Conns : d # c => sending'[d] = sending[d]
    BY <1>0, <1>1, <2>1 DEF Add
  <2>3. CASE h = g
    BY <1>0, <2>2, <2>3 DEF Pending, Asking
  <2>4. CASE h # g
    <3>1. writeQueue'[h] = writeQueue[h]
      BY <1>0, <2>1, <2>2, <2>4
    <3>2. Asking(h) => Asking(h)'
      BY <1>0, <2>2 DEF Asking
    <3> QED BY <2>2, <3>1, <3>2 DEF Pending, Waits
  <2> QED BY <2>3, <2>4
<1>2. CASE Request(c)
  <2>1. /\ pc[c] = "request" /\ pc' = [pc EXCEPT ![c] = "wakeup"]
        /\ selectorTasks' = Append(selectorTasks, sending[c])
        /\ UNCHANGED <<writeQueue, sending>>
    BY <1>2 DEF Request
  <2>2. sending[c] \in Conns
    BY <2>1 DEF Inv, Typed
  <2>3. /\ Len(selectorTasks) \in Nat /\ Len(selectorTasks') = Len(selectorTasks) + 1
        /\ selectorTasks'[Len(selectorTasks) + 1] = sending[c]
        /\ \A i \in 1 .. Len(selectorTasks) : selectorTasks'[i] = selectorTasks[i]
    BY <1>0, <2>1, <2>2
  <2>4. Waits(h) => Waits(h)'
    BY <2>3 DEF Waits
  <2>5. sending[c] = h => Waits(h)'
    BY <2>3 DEF Waits
  <2>6. Asking(h) /\ sending[c] # h => Asking(h)'
    BY <1>0, <2>1 DEF Asking
  <2> QED BY <2>1, <2>4, <2>5, <2>6 DEF Pending
<1>3. ASSUME UNCHANGED <<writeQueue, selectorTasks>>, pc[c] # "request", pc'[c] # "request",
             \A d \in Conns : d # c => pc'[d] = pc[d] /\ sending'[d] = sending[d]
      PROVE  writeQueue[h] # <<>> /\ (Pending(h) => Pending(h)')
  <2>1. Asking(h) => Asking(h)'
    BY <1>3 DEF Asking
  <2> QED BY <1>3, <2>1 DEF Pending, Waits
<1>4. CASE StartTask(c)
  BY <1>0, <1>3, <1>4 DEF StartTask
<1>5. CASE Process(c)
  BY <1>0, <1>3, <1>5 DEF Process, AfterSend, Onward
<1>10. CASE ProcessThrows(c)
  BY <1>0, <1>3, <1>10 DEF ProcessThrows
<1>6. CASE ProcessUnlisted(c)
  BY <1>0, <1>3, <1>6 DEF ProcessUnlisted, Onward
<1>7. CASE Wakeup(c)
  BY <1>0, <1>3, <1>7 DEF Wakeup, AfterSend, Onward
<1>8. CASE Leave(c)
  BY <1>0, <1>3, <1>8 DEF Leave
<1>9. CASE Terminate(c)
  BY <1>0, <1>3, <1>9 DEF Terminate, Onward
<1> QED BY <1>1, <1>2, <1>4, <1>5, <1>6, <1>7, <1>8, <1>9, <1>10 DEF WorkerStep

LEMMA WorkerWoken ==
  ASSUME Inv, NEW c \in Conns, WorkerStep(c)
  PROVE  Woken'
<1>0. /\ pc \in [Conns -> {"idle", "process", "add", "request", "wakeup", "leave", "terminate"}]
      /\ at' = at /\ Woken
  BY DEF Inv, Typed, TypeOK, WorkerStep, selectorVars
<1> USE <1>0 DEF Woken
<1>1. CASE StartTask(c)
  BY <1>1 DEF StartTask
<1>2. CASE Process(c)
  BY <1>2 DEF Process
<1>3. CASE ProcessUnlisted(c)
  BY <1>3 DEF ProcessUnlisted
<1>9. CASE ProcessThrows(c)
  BY <1>9 DEF ProcessThrows
<1>4. CASE Add(c)
  BY <1>4 DEF Add
<1>5. CASE Request(c)
  BY <1>5 DEF Request
<1>6. CASE Wakeup(c)
  BY <1>6 DEF Wakeup
<1>7. CASE Leave(c)
  BY <1>7 DEF Leave
<1>8. CASE Terminate(c)
  BY <1>8 DEF Terminate
<1> QED BY <1>1, <1>2, <1>3, <1>4, <1>5, <1>6, <1>7, <1>8, <1>9 DEF WorkerStep

LEMMA WorkerKeeps ==
  ASSUME Inv, NEW c \in Conns, WorkerStep(c)
  PROVE  Inv'
BY WorkerTypes, WorkerUnborn, WorkerReady, WorkerArmed, WorkerWoken DEF Inv

-----------------------------------------------------------------------------
LEMMA InvNext ==
  ASSUME Inv, [Next]_vars
  PROVE  Inv'
<1>1. CASE UNCHANGED vars
  BY <1>1 DEF vars, clientVars, selectorVars, keyVars, poolVars, Inv, Typed, TypeOK, Unborn,
              ReadyFits, Armed, Pending, Waits, Asking, Woken
<1>2. CASE Next
  BY <1>2, ClientKeeps, SelectorKeeps, WorkerKeeps DEF Next
<1> QED BY <1>1, <1>2

(* Every reachable state of the reactor is well typed.                      *)
THEOREM TypeCorrect == Spec => []TypeOK
<1>1. Inv => TypeOK
  BY DEF Inv, Typed
<1> QED BY <1>1, InvInit, InvNext, PTL DEF Spec

(* No answer waits in an open connection's queue unless the selector thread *)
(* is about to write it, and the thread does not sleep on a task: however   *)
(* many connections, threads and broadcasts there are.                      *)
THEOREM NoneStranded == Spec => []NothingStranded
<1>1. Inv => NothingStranded
  BY DEF Inv, Armed, Woken, Pending, Waits, Asking, NothingStranded, WriteArmed, TaskWakes
<1> QED BY <1>1, InvInit, InvNext, PTL DEF Spec

-----------------------------------------------------------------------------
(* The order of answers                                                    *)

(* Frames with consecutive numbers, the last of which is n; tasks of such   *)
(* frames, one after the other; frames as their client sent them.           *)
Ends(frames, n) == \A i \in 1 .. Len(frames) : frames[i].n = n - Len(frames) + i
Chain(ts, n) ==
  \A k \in 1 .. Len(ts) :
    Ends(ts[k], IF k = Len(ts) THEN n ELSE ts[k + 1][1].n - 1)
Sent(c, frames) ==
  \A i \in 1 .. Len(frames) :
    frames[i].n \in 1 .. Len(asked[c]) /\ frames[i].kind = asked[c][frames[i].n]

(* The numbers of the last frames that were read, that have got into tasks  *)
(* under way, and that were processed or lost.                              *)
LastRead(c) == Len(asked[c]) - Len(net[c])
LastStarted(c) == IF tasks[c] = <<>> THEN LastRead(c) ELSE tasks[c][1][1].n - 1
LastProcessed(c) == LastStarted(c) - Len(buffer[c])
Queued(c) ==
  /\ Ends(net[c], Len(asked[c])) /\ Sent(c, net[c])
  /\ Chain(tasks[c], LastRead(c)) /\ \A k \in 1 .. Len(tasks[c]) : Sent(c, tasks[c][k])
  /\ Ends(buffer[c], LastStarted(c)) /\ Sent(c, buffer[c])
  /\ pc[c] = "idle" => buffer[c] = <<>>

(* What is out is to frames that were processed; what is torn comes after a *)
(* frame that threw.                                                        *)
InReach(c) ==
  /\ LastProcessed(c) <= Len(asked[c])
  /\ \A i \in AnswersIn(Out(c)) : Out(c)[i].n \in 1 .. LastProcessed(c)
  /\ torn[c] => ~Clear(c, LastProcessed(c) + 1)

(* The frame in hand is the last; its answers still owed are not out.       *)
InHand(c) == pc[c] \in {"add", "request", "wakeup"}
Holding(c) ==
  /\ current[c].n \in 1 .. Len(asked[c]) /\ current[c].n = LastProcessed(c)
  /\ owed[c] <= Answers(current[c].kind)
  /\ Clear(c, current[c].n) => current[c].kind = asked[c][current[c].n]
  /\ \A i \in AnswersIn(Out(c)) : Out(c)[i].n = current[c].n => Out(c)[i].left >= owed[c]

(* All the other answers to the frames that were processed are out.         *)
Given(c, m, l) == \E j \in AnswersIn(Out(c)) : Out(c)[j].n = m /\ Out(c)[j].left = l
Full(c) ==
  \A m \in 1 .. LastProcessed(c) : Clear(c, m) =>
    \A l \in 0 .. Answers(asked[c][m]) - 1 :
      Given(c, m, l) \/ (InHand(c) /\ m = LastProcessed(c) /\ l < owed[c])

Answering(c) ==
  /\ InHand(c) \/ pc[c] = "leave" => c \in listed
  /\ InReach(c)
  /\ InHand(c) => Holding(c)
  /\ key[c] = "none" \/ c \in listed => Full(c)
Ordered(c) == InOrder(Out(c)) /\ NoneUncalled(c) /\ NoneLeftOut(c)
Numbers(c) == Queued(c) /\ Answering(c) /\ Ordered(c)

(* The answers of two lists are the same, or the second has one more.       *)
SameAnswers(out, more) ==
  AnswersIn(more) = AnswersIn(out) /\ \A i \in AnswersIn(out) : more[i] = out[i]
OneMore(out, more, a) ==
  \E k \in Nat : /\ AnswersIn(more) = AnswersIn(out) \cup {k} /\ more[k] = a
                 /\ \A i \in AnswersIn(out) : i \in Nat /\ i < k /\ more[i] = out[i]

LEMMA AnswersAppend ==
  ASSUME NEW out \in Seq(Outgoing), NEW m \in Outgoing
  PROVE  /\ m.type # "answer" => SameAnswers(out, Append(out, m))
         /\ m.type = "answer" => OneMore(out, Append(out, m), m)
<1> DEFINE more == Append(out, m)
<1>1. /\ Len(out) \in Nat /\ Len(more) = Len(out) + 1 /\ more[Len(out) + 1] = m
      /\ \A i \in 1 .. Len(out) : more[i] = out[i]
  OBVIOUS
<1> HIDE DEF more
<1>2. CASE m.type # "answer"
  <2>1. AnswersIn(more) = AnswersIn(out)
    BY <1>1, <1>2 DEF AnswersIn
  <2>2. \A i \in AnswersIn(out) : more[i] = out[i]
    BY <1>1 DEF AnswersIn
  <2> QED BY <1>2, <2>1, <2>2 DEF more, SameAnswers
<1>3. CASE m.type = "answer"
  <2>1. AnswersIn(more) = AnswersIn(out) \cup {Len(out) + 1}
    BY <1>1, <1>3 DEF AnswersIn
  <2>2. \A i \in AnswersIn(out) : i \in Nat /\ i < Len(out) + 1 /\ more[i] = out[i]
    BY <1>1 DEF AnswersIn
  <2>3. OneMore(out, more, m)
    BY <1>1, <2>1, <2>2 DEF OneMore
  <2> QED BY <1>3, <2>3 DEF more
<1> QED BY <1>2, <1>3

(* Writing moves the first of the queue to the end of what is written.      *)
LEMMA OutWritten ==
  ASSUME NEW S, NEW w \in Seq(S), NEW q \in Seq(S), q # <<>>
  PROVE  Append(w, Head(q)) \o Tail(q) = w \o q
<1>1. /\ Head(q) \in S /\ Tail(q) \in Seq(S) /\ Head(q) = q[1]
      /\ Len(q) \in Nat \ {0}
  OBVIOUS
<1>2. q = <<q[1]>> \o SubSeq(q, 2, Len(q))
  BY <1>1, SubSeqFull, SubSeqRecursiveFirst
<1>3. q = <<Head(q)>> \o Tail(q)
  BY <1>1, <1>2, TailIsSubSeq
<1>4. Append(w, Head(q)) = w \o <<Head(q)>> /\ <<Head(q)>> \in Seq(S)
  BY <1>1, AppendIsConcat
<1>5. (w \o <<Head(q)>>) \o Tail(q) = w \o (<<Head(q)>> \o Tail(q))
  BY <1>1, <1>4, ConcatAssociative
<1> QED BY <1>3, <1>4, <1>5

LEMMA TaskRead ==
  ASSUME NEW S, NEW s \in Seq(S), NEW k \in 1 .. Len(s)
  PROVE  /\ SubSeq(s, 1, k) \in Seq(S) \ {<<>>} /\ SubSeq(s, k + 1, Len(s)) \in Seq(S)
         /\ Len(SubSeq(s, 1, k)) = k /\ \A i \in 1 .. k : SubSeq(s, 1, k)[i] = s[i]
         /\ Len(SubSeq(s, k + 1, Len(s))) = Len(s) - k
         /\ \A i \in 1 .. Len(s) - k : SubSeq(s, k + 1, Len(s))[i] = s[k + i]
<1>1. Len(s) \in Nat /\ k \in Nat \ {0} /\ k <= Len(s) /\ \A i \in 1 .. Len(s) : s[i] \in S
  OBVIOUS
<1>2. \A i \in 1 .. k : s[i] \in S
  BY <1>1
<1>3. \A i \in k + 1 .. Len(s) : s[i] \in S
  BY <1>1
<1>4. /\ SubSeq(s, 1, k) \in Seq(S) /\ Len(SubSeq(s, 1, k)) = k
      /\ \A i \in 1 .. k : SubSeq(s, 1, k)[i] = s[i]
  BY <1>1, <1>2, SubSeqProperties
<1>5. /\ SubSeq(s, k + 1, Len(s)) \in Seq(S) /\ Len(SubSeq(s, k + 1, Len(s))) = Len(s) - k
      /\ \A i \in 1 .. Len(s) - k : SubSeq(s, k + 1, Len(s))[i] = s[k + i]
  BY <1>1, <1>3, SubSeqProperties
<1>6. SubSeq(s, 1, k) # <<>>
  BY <1>1, <1>4
<1> QED BY <1>4, <1>5, <1>6

LEMMA EmptyLen ==
  ASSUME NEW S, NEW s \in Seq(S)
  PROVE  s = <<>> <=> Len(s) = 0
OBVIOUS

LEMMA EndsAppend ==
  ASSUME NEW s \in Seq(Frame), NEW f \in Frame, NEW n \in Nat, Ends(s, n), f.n = n + 1
  PROVE  Ends(Append(s, f), n + 1)
<1>1. /\ Len(Append(s, f)) = Len(s) + 1 /\ Append(s, f)[Len(s) + 1] = f /\ Len(s) \in Nat
      /\ \A i \in 1 .. Len(s) : Append(s, f)[i] = s[i]
  BY AppendProperties, LenProperties
<1> SUFFICES ASSUME NEW i \in 1 .. Len(s) + 1
             PROVE  Append(s, f)[i].n = n + 1 - (Len(s) + 1) + i
  BY <1>1 DEF Ends
<1>2. CASE i = Len(s) + 1
  BY <1>1, <1>2
<1>3. CASE i \in 1 .. Len(s)
  <2>1. s[i].n = n - Len(s) + i
    BY <1>3 DEF Ends
  <2> QED BY <1>1, <1>3, <2>1
<1> QED BY <1>1, <1>2, <1>3

LEMMA EndsSplit ==
  ASSUME NEW s \in Seq(Frame), NEW k \in 1 .. Len(s), NEW n \in Nat, Ends(s, n)
  PROVE  /\ Ends(SubSeq(s, 1, k), n - (Len(s) - k))
         /\ Ends(SubSeq(s, k + 1, Len(s)), n)
         /\ SubSeq(s, 1, k)[1].n = n - Len(s) + 1
<1> DEFINE l == SubSeq(s, 1, k)
           r == SubSeq(s, k + 1, Len(s))
<1>1. /\ Len(l) = k /\ \A i \in 1 .. k : l[i] = s[i]
      /\ Len(r) = Len(s) - k /\ \A i \in 1 .. Len(s) - k : r[i] = s[k + i]
  BY TaskRead
<1>2. Len(s) \in Nat /\ k \in Nat /\ 1 <= k /\ k <= Len(s)
  BY LenProperties
<1> HIDE DEF l, r
<1>3. ASSUME NEW i \in 1 .. k PROVE l[i].n = n - (Len(s) - k) - k + i
  <2>1. i \in 1 .. Len(s) /\ l[i] = s[i]
    BY <1>1, <1>2
  <2>2. s[i].n = n - Len(s) + i
    BY <2>1 DEF Ends
  <2> QED BY <1>2, <2>1, <2>2
<1>4. ASSUME NEW i \in 1 .. Len(s) - k PROVE r[i].n = n - (Len(s) - k) + i
  <2>1. k + i \in 1 .. Len(s) /\ r[i] = s[k + i]
    BY <1>1, <1>2
  <2>2. s[k + i].n = n - Len(s) + (k + i)
    BY <2>1 DEF Ends
  <2> QED BY <1>2, <2>1, <2>2
<1>5. Ends(l, n - (Len(s) - k)) /\ Ends(r, n)
  BY <1>1, <1>3, <1>4 DEF Ends
<1>6. l[1].n = n - Len(s) + 1
  <2>1. 1 \in 1 .. k /\ 1 \in 1 .. Len(s)
    BY <1>2
  <2> QED BY <1>1, <2>1 DEF Ends
<1> QED BY <1>5, <1>6 DEF l, r

LEMMA EndsTail ==
  ASSUME NEW s \in Seq(Frame), s # <<>>, NEW n \in Int, Ends(s, n)
  PROVE  /\ Ends(Tail(s), n) /\ Head(s).n = n - Len(s) + 1
         /\ Len(Tail(s)) = Len(s) - 1
<1>1. /\ Len(s) \in Nat \ {0} /\ Len(Tail(s)) = Len(s) - 1
      /\ \A i \in 1 .. Len(s) - 1 : Tail(s)[i] = s[i + 1]
      /\ Head(s) = s[1]
  BY HeadTailProperties, EmptySeq
<1>2. ASSUME NEW i \in 1 .. Len(s) - 1 PROVE Tail(s)[i].n = n - (Len(s) - 1) + i
  <2>1. i + 1 \in 1 .. Len(s) /\ Tail(s)[i] = s[i + 1]
    BY <1>1
  <2>2. s[i + 1].n = n - Len(s) + (i + 1)
    BY <2>1 DEF Ends
  <2> QED BY <1>1, <2>1, <2>2
<1>3. Ends(Tail(s), n)
  BY <1>1, <1>2 DEF Ends
<1>4. 1 \in 1 .. Len(s)
  BY <1>1
<1> QED BY <1>1, <1>3, <1>4 DEF Ends

LEMMA ChainAppend ==
  ASSUME NEW ts \in Seq(Buffer), NEW t \in Buffer, NEW m \in Int, NEW n \in Int,
         Chain(ts, m), Ends(t, n), t[1].n = m + 1
  PROVE  Chain(Append(ts, t), n)
<1> DEFINE more == Append(ts, t)
<1>1. /\ Len(more) = Len(ts) + 1 /\ more[Len(ts) + 1] = t /\ Len(ts) \in Nat
      /\ \A i \in 1 .. Len(ts) : more[i] = ts[i]
  BY AppendProperties, LenProperties
<1> HIDE DEF more
<1> SUFFICES ASSUME NEW k \in 1 .. Len(ts) + 1
             PROVE  Ends(more[k], IF k = Len(ts) + 1 THEN n ELSE more[k + 1][1].n - 1)
  BY <1>1 DEF Chain, more
<1>2. CASE k = Len(ts) + 1
  BY <1>1, <1>2
<1>3. CASE k = Len(ts)
  <2>1. Ends(ts[k], m) /\ more[k] = ts[k] /\ more[k + 1] = t
    BY <1>1, <1>3 DEF Chain
  <2>2. more[k + 1][1].n - 1 = m
    BY <2>1
  <2> QED BY <1>1, <1>3, <2>1, <2>2
<1>4. CASE k < Len(ts)
  <2>1. k \in 1 .. Len(ts) /\ k + 1 \in 1 .. Len(ts) /\ k # Len(ts) /\ k # Len(ts) + 1
    BY <1>1, <1>4
  <2>2. Ends(ts[k], ts[k + 1][1].n - 1)
    BY <2>1 DEF Chain
  <2> QED BY <1>1, <2>1, <2>2
<1> QED BY <1>1, <1>2, <1>3, <1>4

LEMMA ChainTail ==
  ASSUME NEW ts \in Seq(Buffer), ts # <<>>, NEW n \in Int, Chain(ts, n)
  PROVE  /\ Chain(Tail(ts), n)
         /\ Ends(Head(ts), IF Tail(ts) = <<>> THEN n ELSE Tail(ts)[1][1].n - 1)
<1>1. /\ Len(ts) \in Nat \ {0} /\ Len(Tail(ts)) = Len(ts) - 1 /\ Tail(ts) \in Seq(Buffer)
      /\ \A i \in 1 .. Len(ts) - 1 : Tail(ts)[i] = ts[i + 1]
      /\ Head(ts) = ts[1]
  BY HeadTailProperties, EmptySeq
<1>0. Len(ts) \in Nat
  BY <1>1
<1>2. ASSUME NEW k \in 1 .. Len(ts) - 1
      PROVE  Ends(Tail(ts)[k], IF k = Len(ts) - 1 THEN n ELSE Tail(ts)[k + 1][1].n - 1)
  <2>1. k + 1 \in 1 .. Len(ts) /\ Tail(ts)[k] = ts[k + 1]
    BY <1>1
  <2>2. Ends(ts[k + 1], IF k + 1 = Len(ts) THEN n ELSE ts[k + 1 + 1][1].n - 1)
    BY <2>1 DEF Chain
  <2>3. CASE k = Len(ts) - 1
    BY <1>1, <2>1, <2>2, <2>3
  <2>4. CASE k # Len(ts) - 1
    <3>1. k + 1 \in 1 .. Len(ts) - 1 /\ k + 1 # Len(ts)
      BY <1>0, <2>4
    <3>2. Tail(ts)[k + 1] = ts[k + 1 + 1]
      BY <1>1, <3>1
    <3> QED BY <2>1, <2>2, <2>4, <3>1, <3>2
  <2> QED BY <2>3, <2>4
<1>3. Chain(Tail(ts), n)
  BY <1>1, <1>2 DEF Chain
<1>4. Ends(ts[1], IF 1 = Len(ts) THEN n ELSE ts[2][1].n - 1)
  <2>1. 1 \in 1 .. Len(ts)
    BY <1>1
  <2>2. Ends(ts[1], IF 1 = Len(ts) THEN n ELSE ts[1 + 1][1].n - 1)
    BY <2>1 DEF Chain
  <2> QED BY <2>2
<1>7. Tail(ts) = <<>> <=> Len(Tail(ts)) = 0
  <2>1. Tail(ts) \in Seq(Buffer)
    BY <1>1
  <2> QED BY ONLY <2>1, EmptyLen, Zenon
<1>5. CASE Len(ts) = 1
  <2>1. Tail(ts) = <<>>
    BY <1>0, <1>1, <1>5, <1>7
  <2> QED BY <1>1, <1>3, <1>4, <1>5, <2>1
<1>6. CASE Len(ts) # 1
  <2>1. Tail(ts) # <<>> /\ 1 \in 1 .. Len(ts) - 1
    BY <1>0, <1>1, <1>6, <1>7
  <2>2. Tail(ts)[1] = ts[2]
    BY <1>1, <2>1
  <2> QED BY <1>1, <1>3, <1>4, <1>6, <2>1, <2>2
<1> QED BY <1>5, <1>6


LEMMA FirstTyped ==
  ASSUME NEW ts \in Seq(Buffer), NEW r \in Int
  PROVE  (IF ts = <<>> THEN r ELSE ts[1][1].n - 1) \in Int
<1>1. CASE ts # <<>>
  <2>1. ts[1] \in Buffer
    BY <1>1
  <2>2. ts[1][1] \in Frame
    BY <2>1 DEF Buffer
  <2> QED BY <1>1, <2>2 DEF Frame
<1> QED BY <1>1

LEMMA ConcatAppend ==
  ASSUME NEW S, NEW w \in Seq(S), NEW q \in Seq(S), NEW x \in S
  PROVE  w \o Append(q, x) = Append(w \o q, x)
OBVIOUS

LEMMA OutTyped ==
  ASSUME Inv, NEW c \in Conns
  PROVE  /\ Out(c) \in Seq(Outgoing)
         /\ \A i \in AnswersIn(Out(c)) : Out(c)[i].n \in Nat /\ Out(c)[i].left \in 0 .. 2
<1>1. written[c] \in Seq(Outgoing) /\ writeQueue[c] \in Seq(Outgoing)
  BY DEF Inv, Typed, TypeOK
<1>2. Out(c) \in Seq(Outgoing)
  BY <1>1, ConcatProperties DEF Out
<1>3. \A i \in 1 .. Len(Out(c)) : Out(c)[i] \in Outgoing
  BY <1>2
<1> QED BY <1>2, <1>3 DEF AnswersIn, Outgoing

LEMMA LastTyped ==
  ASSUME Inv, NEW c \in Conns
  PROVE  /\ LastRead(c) \in Int /\ LastStarted(c) \in Int /\ Len(buffer[c]) \in Nat
         /\ LastProcessed(c) \in Int /\ Len(asked[c]) \in Nat
<1>1. /\ tasks[c] \in Seq(Buffer) /\ Len(asked[c]) \in Nat /\ Len(net[c]) \in Nat
      /\ Len(buffer[c]) \in Nat
  BY LenProperties DEF Inv, Typed, TypeOK
<1>2. LastRead(c) \in Int
  BY <1>1 DEF LastRead
<1>3. LastStarted(c) \in Int
  BY <1>1, <1>2, FirstTyped DEF LastStarted
<1> QED BY <1>1, <1>2, <1>3 DEF LastProcessed

-----------------------------------------------------------------------------
LEMMA NumbersInit ==
  ASSUME Init, NEW c \in Conns
  PROVE  Numbers(c)
<1>1. Len(<<>>) = 0 /\ Out(c) = <<>> \o <<>> /\ <<>> \in Seq(Outgoing)
  BY EmptyType DEF Init, Out
<1>2. Out(c) = <<>>
  BY <1>1, ConcatEmptySeq
<1>3. AnswersIn(Out(c)) = {}
  BY <1>1, <1>2 DEF AnswersIn
<1>4. Ordered(c)
  BY <1>3 DEF Ordered, InOrder, NoneUncalled, NoneLeftOut
<1>5. Queued(c)
  BY <1>1 DEF Init, Queued, Ends, Chain, Sent
<1>6. LastProcessed(c) = 0 /\ Len(asked[c]) = 0
  BY <1>1 DEF Init, LastProcessed, LastStarted, LastRead
<1>7. InReach(c) /\ Full(c)
  BY <1>3, <1>6 DEF Init, InReach, Full
<1>8. Answering(c)
  BY <1>7 DEF Init, Answering, InHand
<1> QED BY <1>4, <1>5, <1>8 DEF Numbers

(* The frames that were sent stay what they are.                            *)
Agrees(c) ==
  /\ Len(asked'[c]) \in Nat /\ Len(asked[c]) <= Len(asked'[c])
  /\ \A m \in 1 .. Len(asked[c]) : asked'[c][m] = asked[c][m]

LEMMA ClearKept ==
  ASSUME NEW c \in Conns, Len(asked[c]) \in Nat, Agrees(c),
         NEW n \in Int, n <= Len(asked[c]) + 1
  PROVE  Clear(c, n)' <=> Clear(c, n)
<1>1. \A m \in 1 .. n - 1 : m \in 1 .. Len(asked[c])
  OBVIOUS
<1>2. \A m \in 1 .. n - 1 : asked'[c][m] = asked[c][m]
  BY <1>1 DEF Agrees
<1> QED BY <1>2 DEF Clear

LEMMA GivenKept ==
  ASSUME NEW c \in Conns, SameAnswers(Out(c), Out(c)')
  PROVE  \A m, l : Given(c, m, l)' <=> Given(c, m, l)
BY DEF SameAnswers, Given

(* With the same answers and frames, what was in order still is.            *)
LEMMA OrderedKept ==
  ASSUME Inv, NEW c \in Conns, Numbers(c), Agrees(c), SameAnswers(Out(c), Out(c)')
  PROVE  Ordered(c)'
<1>0. PICK o, p : o = Out(c) /\ p = Out(c)'
  OBVIOUS
<1>1. AnswersIn(p) = AnswersIn(o) /\ \A i \in AnswersIn(o) : p[i] = o[i]
  BY <1>0 DEF SameAnswers
<1>2. \A i \in AnswersIn(o) : o[i].n \in 1 .. Len(asked[c])
  BY <1>0, LastTyped DEF Numbers, Answering, InReach
<1>3. Len(asked[c]) \in Nat
  BY LastTyped
<1>4. \A n \in 1 .. Len(asked[c]) : /\ Clear(c, n)' <=> Clear(c, n)
                                    /\ asked'[c][n] = asked[c][n]
  BY <1>3, ClearKept DEF Agrees
<1>5. InOrder(p)
  BY <1>1, <1>0 DEF Numbers, Ordered, InOrder
<1>6. NoneUncalled(c)'
  <2> SUFFICES ASSUME NEW i \in AnswersIn(p), Clear(c, p[i].n)'
               PROVE  p[i].left < Answers(asked'[c][p[i].n])
    BY <1>0 DEF NoneUncalled
  <2>1. i \in AnswersIn(o) /\ p[i] = o[i] /\ o[i].n \in 1 .. Len(asked[c])
    BY <1>1, <1>2
  <2>2. Clear(c, o[i].n) /\ asked'[c][o[i].n] = asked[c][o[i].n]
    BY <1>4, <2>1
  <2> QED BY <1>0, <2>1, <2>2 DEF Numbers, Ordered, NoneUncalled
<1>7. NoneLeftOut(c)'
  <2> SUFFICES ASSUME NEW i \in AnswersIn(p), NEW m \in 1 .. p[i].n, Clear(c, m)',
                      NEW l \in 0 .. Answers(asked'[c][m]) - 1,
                      Precedes([n |-> m, left |-> l], p[i])
               PROVE  \E j \in AnswersIn(p) : p[j].n = m /\ p[j].left = l
    BY <1>0 DEF NoneLeftOut
  <2>1. i \in AnswersIn(o) /\ p[i] = o[i] /\ o[i].n \in 1 .. Len(asked[c])
    BY <1>1, <1>2
  <2>2. m \in 1 .. o[i].n /\ m \in 1 .. Len(asked[c])
    BY <1>3, <2>1
  <2>3. Clear(c, m) /\ asked'[c][m] = asked[c][m]
    BY <1>4, <2>2
  <2>4. l \in 0 .. Answers(asked[c][m]) - 1 /\ Precedes([n |-> m, left |-> l], o[i])
    BY <2>1, <2>3
  <2>5. PICK j \in AnswersIn(o) : o[j].n = m /\ o[j].left = l
    BY <1>0, <2>1, <2>2, <2>3, <2>4 DEF Numbers, Ordered, NoneLeftOut
  <2> QED BY <1>1, <2>5
<1> QED BY <1>0, <1>5, <1>6, <1>7 DEF Ordered

(* What disturbs nothing that the numbers of a connection speak of.         *)
LEMMA NumbersUndisturbed ==
  ASSUME Inv, NEW c \in Conns, Numbers(c), Agrees(c), SameAnswers(Out(c), Out(c)'),
         Queued(c)', LastProcessed(c)' = LastProcessed(c),
         torn'[c] = torn[c], current'[c] = current[c], owed'[c] = owed[c],
         InHand(c)' => InHand(c), InHand(c) => InHand(c)' \/ owed[c] = 0,
         InHand(c)' \/ pc'[c] = "leave" => c \in listed',
         key'[c] = "none" \/ c \in listed' => key[c] = "none" \/ c \in listed
  PROVE  Numbers(c)'
<1>1. Len(asked[c]) \in Nat /\ LastProcessed(c) \in Int /\ LastProcessed(c) <= Len(asked[c])
  BY LastTyped DEF Numbers, Answering, InReach
<1>2. Len(asked'[c]) \in Nat /\ Len(asked[c]) <= Len(asked'[c])
  BY DEF Agrees
<1>3. \A n \in 1 .. Len(asked[c]) : /\ Clear(c, n)' <=> Clear(c, n)
                                    /\ asked'[c][n] = asked[c][n]
  BY <1>1, ClearKept DEF Agrees
<1>4. Clear(c, LastProcessed(c) + 1)' <=> Clear(c, LastProcessed(c) + 1)
  <2>1. PICK n : n = LastProcessed(c) + 1
    OBVIOUS
  <2>2. n \in Int /\ n <= Len(asked[c]) + 1
    BY <1>1, <2>1
  <2>3. n = LastProcessed(c)' + 1 /\ (Clear(c, n)' <=> Clear(c, n))
    BY <1>1, <2>1, <2>2, ClearKept
  <2> HIDE DEF LastProcessed
  <2>4. Clear(c, LastProcessed(c) + 1)' <=> Clear(c, n)'
    BY <2>3 DEF Clear
  <2> QED BY <2>1, <2>3, <2>4
<1>5. AnswersIn(Out(c)') = AnswersIn(Out(c)) /\ \A i \in AnswersIn(Out(c)) : Out(c)'[i] = Out(c)[i]
  BY DEF SameAnswers
<1>6. InReach(c)'
  <2>1. InReach(c)
    BY DEF Numbers, Answering
  <2> HIDE DEF LastProcessed, Out, Clear
  <2> QED BY <1>1, <1>2, <1>4, <1>5, <2>1 DEF InReach
<1>7. ASSUME InHand(c)' PROVE Holding(c)'
  <2>1. Holding(c) /\ current[c].n \in 1 .. Len(asked[c])
    BY <1>7 DEF Numbers, Answering, Holding
  <2>2. (Clear(c, current[c].n)' <=> Clear(c, current[c].n))
        /\ asked'[c][current[c].n] = asked[c][current[c].n]
    BY <1>3, <2>1
  <2> HIDE DEF LastProcessed, Out
  <2>3. current[c].n \in 1 .. Len(asked'[c])
    BY <1>1, <1>2, <2>1
  <2> QED BY <1>5, <2>1, <2>2, <2>3 DEF Holding, Clear
<1>8. ASSUME Full(c) PROVE Full(c)'
  <2> HIDE DEF LastProcessed
  <2> SUFFICES ASSUME NEW m \in 1 .. LastProcessed(c), Clear(c, m)',
                      NEW l \in 0 .. Answers(asked'[c][m]) - 1
               PROVE  \/ Given(c, m, l)'
                      \/ InHand(c)' /\ m = LastProcessed(c) /\ l < owed'[c]
    BY DEF Full
  <2>1. m \in 1 .. Len(asked[c])
    BY <1>1
  <2>2. Clear(c, m) /\ asked'[c][m] = asked[c][m]
    BY <1>3, <2>1
  <2>3. Given(c, m, l) \/ (InHand(c) /\ m = LastProcessed(c) /\ l < owed[c])
    BY <1>8, <2>2 DEF Full
  <2>4. l \in Nat
    OBVIOUS
  <2>5. CASE Given(c, m, l)
    BY <2>5, GivenKept
  <2>6. CASE InHand(c) /\ m = LastProcessed(c) /\ l < owed[c]
    BY <2>4, <2>6
  <2> QED BY <2>3, <2>5, <2>6
<1>9. Answering(c)'
  BY <1>6, <1>7, <1>8 DEF Numbers, Answering
<1> QED BY <1>9, OrderedKept DEF Numbers

(* Frames that stay where they are, while none is sent.                     *)
LEMMA QueuedUndisturbed ==
  ASSUME NEW c \in Conns, Numbers(c), asked'[c] = asked[c], net'[c] = net[c],
         tasks'[c] = tasks[c], buffer'[c] = buffer[c], pc'[c] = "idle" => buffer[c] = <<>>
  PROVE  /\ Queued(c)' /\ LastProcessed(c)' = LastProcessed(c)
         /\ LastStarted(c)' = LastStarted(c) /\ LastRead(c)' = LastRead(c)
<1>1. LastRead(c)' = LastRead(c) /\ LastStarted(c)' = LastStarted(c)
      /\ LastProcessed(c)' = LastProcessed(c)
  BY DEF LastProcessed, LastStarted, LastRead
<1>2. \A s : Sent(c, s)' <=> Sent(c, s)
  BY DEF Sent
<1> HIDE DEF LastRead, LastStarted
<1>3. Queued(c)'
  BY <1>1, <1>2 DEF Numbers, Queued
<1> QED BY <1>1, <1>3

LEMMA SameReflexive ==
  ASSUME NEW out
  PROVE  SameAnswers(out, out)
BY DEF SameAnswers

LEMMA AgreesReflexive ==
  ASSUME Inv, NEW c \in Conns, asked'[c] = asked[c]
  PROVE  Agrees(c)
<1>1. Len(asked[c]) \in Nat
  BY LastTyped
<1> QED BY <1>1 DEF Agrees

(* A step of somebody else, or of the selector thread.                      *)
LEMMA NumbersAside ==
  ASSUME Inv, NEW c \in Conns, Numbers(c), asked'[c] = asked[c], net'[c] = net[c],
         tasks'[c] = tasks[c], buffer'[c] = buffer[c], pc'[c] = pc[c], torn'[c] = torn[c],
         current'[c] = current[c], owed'[c] = owed[c], SameAnswers(Out(c), Out(c)'),
         c \in listed => c \in listed',
         key'[c] = "none" \/ c \in listed' => key[c] = "none" \/ c \in listed
  PROVE  Numbers(c)'
<1>1. Queued(c)' /\ LastProcessed(c)' = LastProcessed(c)
  BY QueuedUndisturbed DEF Numbers, Queued
<1>2. Agrees(c)
  BY AgreesReflexive
<1>3. InHand(c)' <=> InHand(c)
  BY DEF InHand
<1>4. InHand(c)' \/ pc'[c] = "leave" => c \in listed'
  BY <1>3 DEF Numbers, Answering
<1> QED BY <1>1, <1>2, <1>3, <1>4, NumbersUndisturbed

LEMMA ClientNumbers ==
  ASSUME Inv, NEW d \in Conns, ClientStep(d), NEW c \in Conns, Numbers(c)
  PROVE  Numbers(c)'
<1>1. SameAnswers(Out(c), Out(c)')
  <2>1. Out(c)' = Out(c)
    BY DEF ClientStep, Out
  <2> QED BY <2>1, SameReflexive
<1>2. UNCHANGED <<tasks, buffer, pc, torn, current, owed, listed, key>>
  BY DEF ClientStep, poolVars, keyVars
<1>3. CASE asked'[c] = asked[c] /\ net'[c] = net[c]
  BY <1>1, <1>2, <1>3, NumbersAside
<1>4. CASE ~(asked'[c] = asked[c] /\ net'[c] = net[c])
  <2>1. PICK k \in Kinds[c] : ClientSends(c, k)
    BY <1>4 DEF Inv, Typed, TypeOK, ClientStep, ClientConnects, ClientCloses, ClientSends
  <2>2. asked[c] \in Seq(AllKinds) /\ net[c] \in Seq(Frame) /\ k \in AllKinds
    BY ReactorAssumption DEF Inv, Typed, TypeOK
  <2>3. asked'[c] = Append(asked[c], k)
    BY <2>1 DEF ClientSends, Inv, Typed, TypeOK
  <2>4. /\ Len(asked[c]) \in Nat /\ Len(asked'[c]) = Len(asked[c]) + 1
        /\ asked'[c][Len(asked[c]) + 1] = k
        /\ \A m \in 1 .. Len(asked[c]) : asked'[c][m] = asked[c][m]
        /\ Len(net[c]) \in Nat
    BY <2>2, <2>3, AppendProperties, LenProperties
  <2> DEFINE f == [kind |-> k, n |-> Len(asked[c]) + 1]
  <2>5. net'[c] = Append(net[c], f)
    BY <2>1, <2>4 DEF ClientSends, Inv, Typed, TypeOK
  <2>6. f \in Frame /\ f.n = Len(asked[c]) + 1 /\ f.kind = k
    BY <2>2, <2>4 DEF Frame
  <2> HIDE DEF f
  <2>7. /\ Len(net'[c]) = Len(net[c]) + 1 /\ net'[c][Len(net[c]) + 1] = f
        /\ \A i \in 1 .. Len(net[c]) : net'[c][i] = net[c][i]
    BY <2>2, <2>5, <2>6, AppendProperties
  <2>8. Ends(net'[c], Len(asked'[c]))
    BY <2>2, <2>4, <2>5, <2>6, EndsAppend DEF Numbers, Queued
  <2>9. LastRead(c)' = LastRead(c)
    BY <2>4, <2>7 DEF LastRead
  <2>10. LastStarted(c)' = LastStarted(c) /\ LastProcessed(c)' = LastProcessed(c)
    BY <1>2, <2>9 DEF LastStarted, LastProcessed
  <2> HIDE DEF LastRead, LastStarted, LastProcessed
  <2>11. \A s : Sent(c, s) => Sent(c, s)'
    BY <2>4 DEF Sent
  <2>12. Sent(c, net[c])'
    <3>1. Sent(c, net[c])
      BY DEF Numbers, Queued
    <3> SUFFICES ASSUME NEW i \in 1 .. Len(net[c]) + 1
                 PROVE  /\ net'[c][i].n \in 1 .. Len(asked'[c])
                        /\ net'[c][i].kind = asked'[c][net'[c][i].n]
      BY <2>7 DEF Sent
    <3>2. CASE i = Len(net[c]) + 1
      <4>1. net'[c][i] = f
        BY <2>7, <3>2
      <4>2. f.n \in 1 .. Len(asked'[c]) /\ asked'[c][f.n] = f.kind
        BY <2>4, <2>6
      <4> QED BY <4>1, <4>2
    <3>3. CASE i \in 1 .. Len(net[c])
      <4>1. net'[c][i] = net[c][i] /\ net[c][i].n \in 1 .. Len(asked[c])
            /\ net[c][i].kind = asked[c][net[c][i].n]
        BY <2>7, <3>1, <3>3 DEF Sent
      <4> QED BY <2>4, <4>1
    <3> QED BY <2>4, <3>2, <3>3
  <2>13. Queued(c)'
    BY <1>2, <2>8, <2>9, <2>10, <2>11, <2>12 DEF Numbers, Queued
  <2>14. Agrees(c)
    BY <2>4 DEF Agrees
  <2>15. /\ InHand(c)' <=> InHand(c)
         /\ InHand(c)' \/ pc'[c] = "leave" => c \in listed'
    BY <1>2 DEF InHand, Numbers, Answering
  <2> QED BY <1>1, <1>2, <2>10, <2>13, <2>14, <2>15, NumbersUndisturbed
<1> QED BY <1>3, <1>4


(* Parts of a list of frames that were sent.                                *)
LEMMA SentParts ==
  ASSUME NEW c, NEW s \in Seq(Frame), Sent(c, s)
  PROVE  /\ \A k \in 1 .. Len(s) : Sent(c, SubSeq(s, 1, k)) /\ Sent(c, SubSeq(s, k + 1, Len(s)))
         /\ s # <<>> => Sent(c, Tail(s))
<1>1. ASSUME NEW k \in 1 .. Len(s) PROVE Sent(c, SubSeq(s, 1, k)) /\ Sent(c, SubSeq(s, k + 1, Len(s)))
  <2>1. /\ Len(SubSeq(s, 1, k)) = k /\ \A i \in 1 .. k : SubSeq(s, 1, k)[i] = s[i]
        /\ Len(SubSeq(s, k + 1, Len(s))) = Len(s) - k
        /\ \A i \in 1 .. Len(s) - k : SubSeq(s, k + 1, Len(s))[i] = s[k + i]
    BY TaskRead
  <2>2. Len(s) \in Nat /\ k \in Nat /\ 1 <= k /\ k <= Len(s)
    BY LenProperties
  <2>3. /\ \A i \in 1 .. k : i \in 1 .. Len(s)
        /\ \A i \in 1 .. Len(s) - k : k + i \in 1 .. Len(s)
    BY <2>2
  <2> QED BY <2>1, <2>3 DEF Sent
<1>2. ASSUME s # <<>> PROVE Sent(c, Tail(s))
  <2>1. /\ Len(s) \in Nat \ {0} /\ Len(Tail(s)) = Len(s) - 1
        /\ \A i \in 1 .. Len(s) - 1 : Tail(s)[i] = s[i + 1]
    BY <1>2, HeadTailProperties, EmptySeq
  <2>2. \A i \in 1 .. Len(s) - 1 : i + 1 \in 1 .. Len(s)
    BY <2>1
  <2> QED BY <2>1, <2>2 DEF Sent
<1> QED BY <1>1, <1>2

LEMMA SelectorNumbers ==
  ASSUME Inv, SelectorStep, NEW c \in Conns, Numbers(c)
  PROVE  Numbers(c)'
<1>1. UNCHANGED <<peer, asked, pc, buffer, torn, current, fan, owed, sending>>
  BY DEF SelectorStep, poolVars
<1>2. /\ key \in [Conns -> {"none", "valid", "cancelled", "gone"}]
      /\ writeQueue \in [Conns -> Seq(Outgoing)] /\ written \in [Conns -> Seq(Outgoing)]
      /\ tasks \in [Conns -> Seq(Buffer)] /\ net \in [Conns -> Seq(Frame)]
      /\ asked \in [Conns -> Seq(AllKinds)] /\ ReadyFits
  BY DEF Inv, Typed, TypeOK
<1>3. ASSUME Out(c)' = Out(c), net'[c] = net[c], tasks'[c] = tasks[c],
             c \in listed => c \in listed',
             key'[c] = "none" \/ c \in listed' => key[c] = "none" \/ c \in listed
      PROVE  Numbers(c)'
  BY <1>1, <1>3, SameReflexive, NumbersAside
<1>4. ASSUME UNCHANGED <<net, tasks, written, writeQueue, listed>>,
             key'[c] = "none" => key[c] = "none"
      PROVE  Numbers(c)'
  BY <1>3, <1>4 DEF Out
<1>5. CASE Select \/ RunTask \/ TasksDone \/ KeysDone
  BY <1>2, <1>4, <1>5 DEF Select, RunTask, TasksDone, KeysDone, keyVars
<1>6. ASSUME NEW d \in Conns, AcceptKey(d) PROVE Numbers(c)'
  BY <1>2, <1>3, <1>6 DEF AcceptKey, ReadyFits, Out
<1>7. ASSUME NEW d \in Conns,
             \/ ReadEnds(d) \/ WriteKey(d) \/ WritePart(d) \/ WriteFails(d)
             \/ WriteDone(d) \/ Flushed(d) \/ Rearm(d)
      PROVE  Numbers(c)'
  BY <1>2, <1>4, <1>7 DEF ReadEnds, WriteKey, WritePart, WriteFails, WriteDone, Flushed,
                          Rearm, keyVars, selectorVars
<1>8. ASSUME NEW d \in Conns, WriteTop(d) PROVE Numbers(c)'
  <2>1. UNCHANGED <<net, tasks, listed, key>>
    BY <1>8 DEF WriteTop, keyVars
  <2>2. Out(c)' = Out(c)
    <3>1. CASE c = d
      <4>1. /\ writeQueue[c] # <<>> /\ written'[c] = Append(written[c], Head(writeQueue[c]))
            /\ writeQueue'[c] = Tail(writeQueue[c])
        BY <1>2, <1>8, <3>1 DEF WriteTop
      <4>2. writeQueue[c] \in Seq(Outgoing) /\ written[c] \in Seq(Outgoing)
        BY <1>2
      <4>3. Append(written[c], Head(writeQueue[c])) \o Tail(writeQueue[c])
              = written[c] \o writeQueue[c]
        BY <4>1, <4>2, OutWritten
      <4> QED BY <4>1, <4>3 DEF Out
    <3>2. CASE c # d
      BY <1>2, <1>8, <3>2 DEF WriteTop, Out
    <3> QED BY <3>1, <3>2
  <2> QED BY <1>3, <2>1, <2>2
<1>9. ASSUME NEW d \in Conns, ReadKey(d) PROVE Numbers(c)'
  <2>1. UNCHANGED <<written, writeQueue, key, listed>>
    BY <1>9 DEF ReadKey, keyVars
  <2>2. PICK k \in 1 .. Len(net[d]) :
          /\ tasks' = [tasks EXCEPT ![d] = Append(tasks[d], SubSeq(net[d], 1, k))]
          /\ net' = [net EXCEPT ![d] = SubSeq(net[d], k + 1, Len(net[d]))]
    BY <1>9 DEF ReadKey
  <2>3. CASE c # d
    BY <1>2, <1>3, <2>1, <2>2, <2>3 DEF Out
  <2>4. CASE c = d
    <3> DEFINE task == SubSeq(net[c], 1, k)
               rest == SubSeq(net[c], k + 1, Len(net[c]))
               top == Len(asked[c])
    <3>1. /\ net[c] \in Seq(Frame) /\ tasks[c] \in Seq(Buffer) /\ k \in 1 .. Len(net[c])
          /\ Len(net[c]) \in Nat /\ Len(asked[c]) \in Nat
      BY <1>2, <2>2, <2>4
    <3>2. tasks'[c] = Append(tasks[c], task) /\ net'[c] = rest
      BY <1>2, <2>2, <2>4
    <3>3. task \in Buffer /\ Len(rest) = Len(net[c]) - k
      <4>1. \A s \in Seq(Frame) : \A j \in 1 .. Len(s) : SubSeq(s, 1, j) \in Seq(Frame) \ {<<>>}
        BY TaskRead
      <4>2. \A s \in Seq(Frame) : \A j \in 1 .. Len(s) :
              Len(SubSeq(s, j + 1, Len(s))) = Len(s) - j
        BY TaskRead
      <4> QED BY <3>1, <4>1, <4>2 DEF Buffer
    <3>4. Ends(net[c], top)
      BY DEF Numbers, Queued
    <3>5. /\ Ends(task, top - (Len(net[c]) - k)) /\ Ends(rest, top)
          /\ task[1].n = top - Len(net[c]) + 1
      <4> HIDE DEF top
      <4>1. top \in Nat
        BY <3>1 DEF top
      <4> QED BY <3>1, <3>4, <4>1, EndsSplit
    <3> HIDE DEF task, rest
    <3>6. LastRead(c)' = top - (Len(net[c]) - k) /\ LastRead(c) = top - Len(net[c])
          /\ LastRead(c) \in Int /\ LastRead(c)' \in Int
      BY <1>1, <3>1, <3>2, <3>3 DEF LastRead
    <3>7. Chain(tasks'[c], LastRead(c)')
      <4>1. Chain(tasks[c], LastRead(c))
        BY DEF Numbers, Queued
      <4>2. Ends(task, LastRead(c)') /\ task[1].n = LastRead(c) + 1
        BY <3>5, <3>6
      <4> HIDE DEF LastRead
      <4> QED BY <3>1, <3>2, <3>3, <3>6, <4>1, <4>2, ChainAppend
    <3>8. LastStarted(c)' = LastStarted(c)
      <4>1. tasks'[c] # <<>>
        BY <3>1, <3>2, <3>3, AppendProperties
      <4>2. CASE tasks[c] = <<>>
        <5>1. tasks'[c][1] = task
          BY <3>1, <3>2, <3>3, <4>2, AppendProperties
        <5>2. LastStarted(c) = LastRead(c) /\ LastStarted(c)' = task[1].n - 1
          BY <4>1, <4>2, <5>1 DEF LastStarted
        <5>3. task[1].n - 1 = LastRead(c)
          BY <3>5, <3>6
        <5> QED BY <5>2, <5>3
      <4>3. CASE tasks[c] # <<>>
        <5>1. tasks'[c][1] = tasks[c][1]
          BY <3>1, <3>2, <3>3, <4>3, AppendProperties
        <5> QED BY <4>1, <4>3, <5>1 DEF LastStarted
      <4> QED BY <4>2, <4>3
    <3>9. LastProcessed(c)' = LastProcessed(c)
      BY <1>1, <3>8 DEF LastProcessed
    <3> HIDE DEF LastRead, LastStarted, LastProcessed
    <3>10. \A s : Sent(c, s)' <=> Sent(c, s)
      BY <1>1 DEF Sent
    <3>11. Sent(c, task) /\ Sent(c, rest)
      <4>1. Sent(c, net[c])
        BY DEF Numbers, Queued
      <4> QED BY <3>1, <4>1, SentParts DEF task, rest
    <3>12. \A j \in 1 .. Len(tasks'[c]) : Sent(c, tasks'[c][j])
      <4>1. \A j \in 1 .. Len(tasks[c]) : Sent(c, tasks[c][j])
        BY DEF Numbers, Queued
      <4>2. /\ Len(tasks'[c]) = Len(tasks[c]) + 1 /\ tasks'[c][Len(tasks[c]) + 1] = task
            /\ Len(tasks[c]) \in Nat
            /\ \A j \in 1 .. Len(tasks[c]) : tasks'[c][j] = tasks[c][j]
        BY <3>1, <3>2, <3>3, AppendProperties, LenProperties
      <4> SUFFICES ASSUME NEW j \in 1 .. Len(tasks[c]) + 1
                   PROVE  Sent(c, tasks'[c][j])
        BY <4>2
      <4>3. CASE j = Len(tasks[c]) + 1
        BY <3>11, <4>2, <4>3
      <4>4. CASE j \in 1 .. Len(tasks[c])
        BY <4>1, <4>2, <4>4
      <4> QED BY <4>2, <4>3, <4>4
    <3>13. Queued(c)'
      BY <1>1, <3>2, <3>5, <3>7, <3>8, <3>10, <3>11, <3>12 DEF Numbers, Queued
    <3>14. SameAnswers(Out(c), Out(c)')
      <4>1. Out(c)' = Out(c)
        BY <2>1 DEF Out
      <4> QED BY <4>1, SameReflexive
    <3>15. Agrees(c)
      BY <1>1, AgreesReflexive
    <3>16. /\ InHand(c)' <=> InHand(c)
           /\ InHand(c)' \/ pc'[c] = "leave" => c \in listed'
      BY <1>1, <2>1 DEF InHand, Numbers, Answering
    <3> QED BY <1>1, <2>1, <3>9, <3>13, <3>14, <3>15, <3>16, NumbersUndisturbed
  <2> QED BY <2>3, <2>4
<1> QED BY <1>5, <1>6, <1>7, <1>8, <1>9 DEF SelectorStep

(* A thread's step leaves the numbers of the other connections alone, even  *)
(* where it broadcasts to them.                                             *)
LEMMA OthersNumbers ==
  ASSUME Inv, NEW d \in Conns, WorkerStep(d), NEW c \in Conns, c # d, Numbers(c)
  PROVE  Numbers(c)'
<1>1. /\ UNCHANGED <<asked, net, key, written>>
      /\ tasks'[c] = tasks[c] /\ buffer'[c] = buffer[c] /\ pc'[c] = pc[c]
      /\ torn'[c] = torn[c] /\ current'[c] = current[c] /\ owed'[c] = owed[c]
      /\ c \in listed <=> c \in listed'
  <2>1. UNCHANGED <<asked, net, key, written>>
    BY DEF WorkerStep, clientVars, keyVars
  <2> USE DEF Inv, Typed, TypeOK
  <2>2. CASE StartTask(d)
    BY <2>1, <2>2 DEF StartTask
  <2>3. CASE Process(d)
    <3>1. /\ buffer' = [buffer EXCEPT ![d] = Tail(@)] /\ torn' = [torn EXCEPT ![d] = FALSE]
          /\ pc' = [pc EXCEPT ![d] = AfterSend(d)'] /\ UNCHANGED <<tasks, listed>>
          /\ \E k :
               /\ current' = [current EXCEPT ![d] = [kind |-> k, n |-> Head(buffer[d]).n]]
               /\ owed' = [owed EXCEPT ![d] = Answers(k)]
      BY <2>3 DEF Process, TakenFor, Buffer
    <3> QED BY <2>1, <3>1
  <2>4. CASE ProcessThrows(d)
    BY <2>1, <2>4 DEF ProcessThrows
  <2>5. CASE ProcessUnlisted(d)
    BY <2>1, <2>5 DEF ProcessUnlisted
  <2>6. CASE Add(d)
    BY <2>1, <2>6 DEF Add
  <2>7. CASE Request(d) \/ Wakeup(d) \/ Leave(d) \/ Terminate(d)
    BY <2>1, <2>7 DEF Request, Wakeup, Leave, Terminate
  <2> QED BY <2>2, <2>3, <2>4, <2>5, <2>6, <2>7 DEF WorkerStep
<1>2. CASE writeQueue'[c] = writeQueue[c]
  <2>1. Out(c)' = Out(c)
    BY <1>1, <1>2 DEF Out
  <2> QED BY <1>1, <2>1, SameReflexive, NumbersAside
<1>3. CASE writeQueue'[c] # writeQueue[c]
  <2>1. Add(d)
    BY <1>3 DEF WorkerStep, StartTask, Process, ProcessThrows, ProcessUnlisted, Request, Wakeup,
                Leave, Terminate
  <2>2. PICK h \in IF fan[d] = {} THEN {d} ELSE fan[d] : Adding(d, h)
    BY <2>1, AddPicks
  <2>3. PICK m : m = Message(d)
    OBVIOUS
  <2>4. h = c /\ fan[d] # {} /\ writeQueue'[c] = Append(writeQueue[c], m)
    BY <1>3, <2>2, <2>3 DEF Adding, Inv, Typed, TypeOK
  <2>5. m \in Outgoing /\ m.type # "answer"
    <3>1. current[d] \in Frame /\ pc[d] = "add"
      BY <2>1 DEF Add, Inv, Typed
    <3>2. owed'[d] \in 0 .. 2
      BY <2>2, <2>4 DEF Adding, Inv, Typed, TypeOK
    <3> QED BY <2>3, <2>4, <3>1, <3>2 DEF Message, Outgoing, Frame
  <2>6. written[c] \in Seq(Outgoing) /\ writeQueue[c] \in Seq(Outgoing)
    BY DEF Inv, Typed, TypeOK
  <2>7. Out(c)' = Append(Out(c), m)
    <3>1. Out(c)' = written[c] \o Append(writeQueue[c], m)
      BY <1>1, <2>4 DEF Out
    <3>2. \A w, q \in Seq(Outgoing), x \in Outgoing : w \o Append(q, x) = Append(w \o q, x)
      BY ConcatAppend
    <3> QED BY <2>5, <2>6, <3>1, <3>2 DEF Out
  <2>8. SameAnswers(Out(c), Out(c)')
    BY <2>5, <2>7, OutTyped, AnswersAppend
  <2> QED BY <1>1, <2>8, NumbersAside
<1> QED BY <1>2, <1>3

-----------------------------------------------------------------------------
(* A thread's own connection                                               *)

(* Its last steps with a frame, and a new task.                             *)
LEMMA OwnUndisturbed ==
  ASSUME Inv, NEW c \in Conns, WorkerStep(c), Numbers(c),
         StartTask(c) \/ Request(c) \/ Wakeup(c) \/ Leave(c) \/ Terminate(c)
  PROVE  Numbers(c)'
<1>1. /\ UNCHANGED <<asked, net, key, written>>
      /\ pc \in [Conns -> {"idle", "process", "add", "request", "wakeup", "leave", "terminate"}]
      /\ tasks \in [Conns -> Seq(Buffer)] /\ buffer \in [Conns -> Seq(Frame)]
      /\ owed \in [Conns -> 0 .. 2] /\ Unborn
  BY DEF WorkerStep, clientVars, keyVars, Inv, Typed, TypeOK
<1>2. UNCHANGED <<writeQueue, torn, current, owed>>
  BY DEF StartTask, Request, Wakeup, Leave, Terminate
<1>3. Agrees(c) /\ SameAnswers(Out(c), Out(c)')
  <2>1. Out(c)' = Out(c)
    BY <1>1, <1>2 DEF Out
  <2> QED BY <1>1, <2>1, AgreesReflexive, SameReflexive
<1>4. ASSUME UNCHANGED <<tasks, buffer>>, pc'[c] = "idle" => buffer[c] = <<>>
      PROVE  Queued(c)' /\ LastProcessed(c)' = LastProcessed(c)
  BY <1>1, <1>4, QueuedUndisturbed
<1>5. InHand(c) \/ pc[c] = "leave" => c \in listed
  BY DEF Numbers, Answering
<1>6. CASE StartTask(c)
  <2>1. /\ pc[c] = "idle" /\ tasks[c] # <<>> /\ pc'[c] = "process"
        /\ tasks'[c] = Tail(tasks[c]) /\ buffer'[c] = Head(tasks[c]) /\ listed' = listed
    BY <1>1, <1>6 DEF StartTask
  <2>2. buffer[c] = <<>> /\ Len(buffer[c]) = 0 /\ tasks[c] \in Seq(Buffer)
    BY <1>1, <2>1 DEF Numbers, Queued
  <2>3. Head(tasks[c]) = tasks[c][1] /\ Head(tasks[c]) \in Buffer
    BY <2>1, <2>2
  <2>4. LastRead(c)' = LastRead(c) /\ LastRead(c) \in Int /\ Chain(tasks[c], LastRead(c))
    BY <1>1, LastTyped DEF LastRead, Numbers, Queued
  <2> HIDE DEF LastRead, LastStarted
  <2>5. Chain(tasks'[c], LastRead(c)) /\ Ends(Head(tasks[c]), LastStarted(c)')
    BY <2>1, <2>2, <2>4, ChainTail DEF LastStarted
  <2>6. LastStarted(c)' \in Int
    <3>1. Tail(tasks[c]) \in Seq(Buffer)
      BY <2>1, <2>2, HeadTailProperties
    <3> QED BY <2>1, <2>4, <3>1, FirstTyped DEF LastStarted
  <2>7. LastStarted(c) = Head(tasks[c])[1].n - 1 /\ LastStarted(c) \in Int
    BY <2>1, <2>3, LastTyped DEF LastStarted
  <2>8. Head(tasks[c]) # <<>> /\ Head(tasks[c]) \in Seq(Frame) /\ Len(Head(tasks[c])) \in Nat \ {0}
    BY <2>3 DEF Buffer
  <2>9. Head(tasks[c])[1].n = LastStarted(c)' - Len(Head(tasks[c])) + 1
    <3>1. 1 \in 1 .. Len(Head(tasks[c]))
      BY <2>8
    <3> QED BY <2>5, <3>1 DEF Ends
  <2>10. Head(tasks[c])[1].n \in Int
    <3>1. Head(tasks[c])[1] \in Frame
      BY <2>8
    <3> QED BY <3>1 DEF Frame
  <2>11. LastProcessed(c)' = LastProcessed(c)
    BY <2>1, <2>2, <2>6, <2>7, <2>8, <2>9, <2>10 DEF LastProcessed
  <2>12. Sent(c, Head(tasks[c])) /\ \A k \in 1 .. Len(Tail(tasks[c])) : Sent(c, Tail(tasks[c])[k])
    <3>1. \A k \in 1 .. Len(tasks[c]) : Sent(c, tasks[c][k])
      BY DEF Numbers, Queued
    <3>2. /\ Len(tasks[c]) \in Nat \ {0} /\ Len(Tail(tasks[c])) = Len(tasks[c]) - 1
          /\ \A k \in 1 .. Len(tasks[c]) - 1 : Tail(tasks[c])[k] = tasks[c][k + 1]
      BY <2>1, <2>2, HeadTailProperties, EmptySeq
    <3>3. 1 \in 1 .. Len(tasks[c]) /\ \A k \in 1 .. Len(tasks[c]) - 1 : k + 1 \in 1 .. Len(tasks[c])
      BY <3>2
    <3> QED BY <2>3, <3>1, <3>2, <3>3
  <2>13. \A s : Sent(c, s)' <=> Sent(c, s)
    BY <1>1 DEF Sent
  <2>14. Queued(c)'
    BY <1>1, <2>1, <2>4, <2>5, <2>12, <2>13 DEF Numbers, Queued
  <2>15. ~InHand(c) /\ ~InHand(c)' /\ pc'[c] # "leave"
    BY <2>1 DEF InHand
  <2> QED BY <1>1, <1>2, <1>3, <2>1, <2>11, <2>14, <2>15, NumbersUndisturbed
<1>7. CASE Request(c)
  <2>1. pc[c] = "request" /\ pc'[c] = "wakeup" /\ UNCHANGED <<tasks, buffer, listed>>
    BY <1>1, <1>7 DEF Request
  <2>2. InHand(c) /\ InHand(c)'
    BY <2>1 DEF InHand
  <2> QED BY <1>1, <1>2, <1>3, <1>4, <1>5, <2>1, <2>2, NumbersUndisturbed
<1>8. CASE Wakeup(c)
  <2>1. /\ pc[c] = "wakeup" /\ pc'[c] = AfterSend(c) /\ UNCHANGED <<tasks, buffer, listed>>
        /\ owed[c] \in 0 .. 2
    BY <1>1, <1>8 DEF Wakeup
  <2>2. InHand(c) /\ c \in listed
    BY <1>5, <2>1 DEF InHand
  <2>3. pc'[c] = "add" \/ (owed[c] = 0 /\ (pc'[c] = "leave" \/ pc'[c] = Onward(buffer[c])))
    BY <2>1 DEF AfterSend
  <2>4. InHand(c)' \/ owed[c] = 0
    BY <2>3 DEF InHand
  <2>5. Queued(c)' /\ LastProcessed(c)' = LastProcessed(c)
    BY <1>4, <2>1, <2>3 DEF Onward
  <2> QED BY <1>1, <1>2, <1>3, <2>1, <2>2, <2>4, <2>5, NumbersUndisturbed
<1>9. CASE Leave(c)
  <2>1. pc[c] = "leave" /\ pc'[c] = "terminate" /\ c \notin listed' /\ UNCHANGED <<tasks, buffer>>
    BY <1>1, <1>9 DEF Leave
  <2>2. ~InHand(c) /\ ~InHand(c)' /\ key[c] # "none"
    BY <1>1, <2>1 DEF InHand, Unborn
  <2> QED BY <1>1, <1>2, <1>3, <1>4, <2>1, <2>2, NumbersUndisturbed
<1>10. CASE Terminate(c)
  <2>1. /\ pc[c] = "terminate" /\ pc'[c] = Onward(buffer[c])
        /\ UNCHANGED <<tasks, buffer, listed>>
    BY <1>1, <1>10 DEF Terminate
  <2>2. ~InHand(c) /\ ~InHand(c)' /\ pc'[c] # "leave"
    BY <2>1 DEF InHand, Onward
  <2>3. Queued(c)' /\ LastProcessed(c)' = LastProcessed(c)
    BY <1>4, <2>1 DEF Onward
  <2> QED BY <1>1, <1>2, <1>3, <2>1, <2>2, <2>3, NumbersUndisturbed
<1> QED BY <1>6, <1>7, <1>8, <1>9, <1>10

(* The next frame of a buffer is the one after the last that was processed. *)
LEMMA NextFrame ==
  ASSUME Inv, NEW c \in Conns, Numbers(c), pc[c] = "process"
  PROVE  /\ Head(buffer[c]).n = LastProcessed(c) + 1 /\ LastProcessed(c) + 1 \in 1 .. Len(asked[c])
         /\ Head(buffer[c]).kind = asked[c][LastProcessed(c) + 1]
         /\ Len(buffer[c]) \in Nat \ {0} /\ Len(Tail(buffer[c])) = Len(buffer[c]) - 1
         /\ LastProcessed(c) = LastStarted(c) - Len(buffer[c]) /\ LastStarted(c) <= Len(asked[c])
         /\ Ends(Tail(buffer[c]), LastStarted(c)) /\ Sent(c, Tail(buffer[c]))
<1>1. buffer[c] \in Seq(Frame) /\ buffer[c] # <<>>
  BY DEF Inv, Typed, TypeOK, Buffer
<1>2. /\ LastStarted(c) \in Int /\ Len(asked[c]) \in Nat
      /\ Ends(buffer[c], LastStarted(c)) /\ Sent(c, buffer[c])
  BY LastTyped DEF Numbers, Queued
<1>3. LastProcessed(c) = LastStarted(c) - Len(buffer[c])
  BY DEF LastProcessed
<1> HIDE DEF LastStarted, LastProcessed
<1>4. /\ Ends(Tail(buffer[c]), LastStarted(c)) /\ Head(buffer[c]).n = LastStarted(c) - Len(buffer[c]) + 1
      /\ Len(Tail(buffer[c])) = Len(buffer[c]) - 1
  BY <1>1, <1>2, EndsTail
<1>5. Len(buffer[c]) \in Nat \ {0} /\ Head(buffer[c]) = buffer[c][1]
  BY <1>1, HeadTailProperties, EmptySeq
<1>6. 1 \in 1 .. Len(buffer[c]) /\ Len(buffer[c]) \in 1 .. Len(buffer[c])
  BY <1>5
<1>7. /\ Head(buffer[c]).n \in 1 .. Len(asked[c])
      /\ Head(buffer[c]).kind = asked[c][Head(buffer[c]).n]
  BY <1>2, <1>5, <1>6 DEF Sent
<1>8. LastStarted(c) <= Len(asked[c])
  <2>1. /\ buffer[c][Len(buffer[c])].n = LastStarted(c) - Len(buffer[c]) + Len(buffer[c])
        /\ buffer[c][Len(buffer[c])].n \in 1 .. Len(asked[c])
    BY <1>2, <1>6 DEF Ends, Sent
  <2> QED BY <1>2, <1>5, <2>1
<1>9. Sent(c, Tail(buffer[c]))
  BY <1>1, <1>2, SentParts
<1>10. Head(buffer[c]).n = LastProcessed(c) + 1
  BY <1>3, <1>4
<1> QED BY <1>3, <1>4, <1>5, <1>7, <1>8, <1>9, <1>10

(* A frame that is lost or not answered puts nothing out.                   *)
LEMMA UnansweredNumbers ==
  ASSUME Inv, NEW c \in Conns, WorkerStep(c), Numbers(c), ProcessThrows(c) \/ ProcessUnlisted(c)
  PROVE  Numbers(c)'
<1>1. /\ UNCHANGED <<asked, net, key, written, writeQueue, tasks, listed>>
      /\ pc \in [Conns -> {"idle", "process", "add", "request", "wakeup", "leave", "terminate"}]
      /\ buffer \in [Conns -> Seq(Frame)] /\ torn \in [Conns -> BOOLEAN] /\ Unborn
      /\ pc[c] = "process"
  BY DEF WorkerStep, clientVars, keyVars, ProcessThrows, ProcessUnlisted, Inv, Typed, TypeOK
<1>2. PICK rest \in {<<>>, Tail(buffer[c])} :
        /\ buffer' = [buffer EXCEPT ![c] = rest] /\ pc' = [pc EXCEPT ![c] = Onward(rest)]
        /\ ProcessThrows(c) => rest = <<>>
  BY DEF ProcessThrows, ProcessUnlisted, Onward
<1>3. buffer'[c] = rest /\ pc'[c] = Onward(rest)
  BY <1>1, <1>2
<1>4. /\ LastProcessed(c) + 1 \in 1 .. Len(asked[c]) /\ LastProcessed(c) \in Int
      /\ LastStarted(c) \in Int /\ Len(asked[c]) \in Nat
      /\ Len(buffer[c]) \in Nat \ {0} /\ LastProcessed(c) = LastStarted(c) - Len(buffer[c])
      /\ LastStarted(c) <= Len(asked[c]) /\ Len(Tail(buffer[c])) = Len(buffer[c]) - 1
      /\ Ends(Tail(buffer[c]), LastStarted(c)) /\ Sent(c, Tail(buffer[c]))
      /\ Head(buffer[c]).kind = asked[c][LastProcessed(c) + 1]
  BY <1>1, NextFrame, LastTyped
<1>5. LastStarted(c)' = LastStarted(c) /\ LastRead(c)' = LastRead(c)
  BY <1>1 DEF LastStarted, LastRead
<1>6. /\ Len(rest) \in Nat /\ Len(rest) < Len(buffer[c]) /\ LastProcessed(c)' = LastStarted(c) - Len(rest)
      /\ Ends(rest, LastStarted(c)) /\ Sent(c, rest)
  <2>1. Len(<<>>) = 0 /\ Ends(<<>>, LastStarted(c)) /\ Sent(c, <<>>)
    BY DEF Ends, Sent
  <2>2. LastProcessed(c)' = LastStarted(c) - Len(rest)
    BY <1>3, <1>5 DEF LastProcessed
  <2> HIDE DEF LastStarted, LastProcessed
  <2>3. CASE rest = <<>>
    BY <1>4, <2>1, <2>2, <2>3
  <2>4. CASE rest = Tail(buffer[c])
    BY <1>4, <2>2, <2>4
  <2> QED BY <1>2, <2>3, <2>4
<1> HIDE DEF LastStarted, LastProcessed, LastRead
<1>7. \A s : Sent(c, s)' <=> Sent(c, s)
  BY <1>1 DEF Sent
<1>8. Queued(c)'
  BY <1>1, <1>3, <1>5, <1>6, <1>7 DEF Numbers, Queued, Onward
<1>9. Out(c)' = Out(c) /\ \A n : Clear(c, n)' <=> Clear(c, n)
  BY <1>1 DEF Out, Clear
<1>10. Ordered(c)'
  BY <1>1, <1>9, AgreesReflexive, SameReflexive, OrderedKept
<1>11. PICK p, q : p = LastProcessed(c) /\ q = LastProcessed(c)'
  OBVIOUS
<1>12. p \in Int /\ q \in Int /\ p < q /\ q <= Len(asked[c])
  BY <1>4, <1>6, <1>11
<1>13. ASSUME NEW n \in Int, p + 1 < n, asked[c][p + 1] = "bad" \/ ~Clear(c, p + 1) PROVE ~Clear(c, n)
  <2>1. CASE asked[c][p + 1] = "bad"
    <3>1. p + 1 \in 1 .. n - 1
      BY <1>4, <1>11, <1>12, <1>13
    <3> QED BY <2>1, <3>1 DEF Clear
  <2>2. CASE ~Clear(c, p + 1)
    <3>1. \A m \in 1 .. p + 1 - 1 : m \in 1 .. n - 1
      BY <1>12, <1>13
    <3> QED BY <1>12, <1>13, <2>2, <3>1 DEF Clear
  <2> QED BY <1>13, <2>1, <2>2
<1>14. InReach(c) /\ (c \in listed => Full(c)) /\ ~InHand(c) /\ ~InHand(c)' /\ pc'[c] # "leave"
  BY <1>1, <1>3 DEF Numbers, Answering, InHand, Onward
<1>15. ASSUME ProcessThrows(c) PROVE asked[c][p + 1] = "bad" \/ ~Clear(c, p + 1)
  <2>1. CASE torn[c]
    BY <1>11, <1>14, <2>1 DEF InReach
  <2>2. CASE ~torn[c]
    <3>1. Head(buffer[c]).kind = "bad"
      BY <1>15, <2>2 DEF ProcessThrows, TakenFor
    <3> QED BY <1>4, <1>11, <3>1
  <2> QED BY <2>1, <2>2
<1>16. InReach(c)'
  <2>1. \A i \in AnswersIn(Out(c)) : Out(c)[i].n \in 1 .. p
    BY <1>11, <1>14 DEF InReach
  <2>2. torn'[c] => ~Clear(c, q + 1)
    <3>1. CASE ProcessThrows(c)
      BY <1>12, <1>13, <1>15, <3>1
    <3>2. CASE ProcessUnlisted(c)
      <4>1. torn'[c] => ~Clear(c, p + 1)
        BY <1>11, <1>14, <3>2 DEF ProcessUnlisted, InReach
      <4> QED BY <1>12, <1>13, <4>1
    <3> QED BY <3>1, <3>2
  <2>3. \A i \in AnswersIn(Out(c)) : Out(c)[i].n \in 1 .. q
    BY <1>12, <2>1
  <2>4. Clear(c, LastProcessed(c) + 1)' <=> Clear(c, q + 1)
    BY <1>1, <1>11 DEF Clear
  <2> QED BY <1>1, <1>9, <1>11, <1>12, <2>2, <2>3, <2>4 DEF InReach
<1>17. key'[c] = "none" \/ c \in listed' => Full(c)'
  <2>1. CASE ProcessUnlisted(c)
    <3>1. c \notin listed' /\ key'[c] # "none"
      BY <1>1, <2>1 DEF ProcessUnlisted, Unborn
    <3> QED BY <3>1
  <2>2. CASE ProcessThrows(c)
    <3>1. Full(c)
      BY <1>14, <2>2 DEF ProcessThrows
    <3> SUFFICES ASSUME NEW m \in 1 .. q, Clear(c, m), NEW l \in 0 .. Answers(asked[c][m]) - 1
                 PROVE  Given(c, m, l)
      BY <1>1, <1>9, <1>11 DEF Full, Given
    <3>2. m <= p + 1
      BY <1>12, <1>13, <1>15, <2>2
    <3>3. CASE m <= p
      <4>1. m \in 1 .. p
        BY <1>12, <3>3
      <4> QED BY <1>11, <1>14, <3>1, <4>1 DEF Full
    <3>4. CASE m = p + 1
      <4>1. asked[c][m] = "bad"
        BY <1>15, <2>2, <3>4
      <4>2. Answers(asked[c][m]) = 0
        BY <4>1 DEF Answers
      <4> QED BY <4>2
    <3> QED BY <1>12, <3>2, <3>3, <3>4
  <2> QED BY <2>1, <2>2
<1>18. Answering(c)'
  BY <1>14, <1>16, <1>17 DEF Answering
<1> QED BY <1>8, <1>10, <1>18 DEF Numbers

(* A frame is taken in hand: it is the next, and none of its answers is out.*)
LEMMA ProcessNumbers ==
  ASSUME Inv, NEW c \in Conns, WorkerStep(c), Numbers(c), Process(c)
  PROVE  Numbers(c)'
<1>1. /\ UNCHANGED <<asked, net, key, written, writeQueue, tasks, listed>>
      /\ pc \in [Conns -> {"idle", "process", "add", "request", "wakeup", "leave", "terminate"}]
      /\ buffer \in [Conns -> Seq(Frame)] /\ torn \in [Conns -> BOOLEAN]
      /\ current \in [Conns -> Frame \cup {NULL}] /\ owed \in [Conns -> 0 .. 2]
      /\ pc[c] = "process" /\ c \in listed
  BY DEF WorkerStep, clientVars, keyVars, Process, Inv, Typed, TypeOK
<1>2. PICK k \in TakenFor(c) \ {"bad"} :
        /\ current' = [current EXCEPT ![c] = [kind |-> k, n |-> Head(buffer[c]).n]]
        /\ owed' = [owed EXCEPT ![c] = Answers(k)]
  BY DEF Process
<1>3. /\ current'[c].kind = k /\ current'[c].n = Head(buffer[c]).n /\ owed'[c] = Answers(k)
      /\ buffer'[c] = Tail(buffer[c]) /\ torn'[c] = FALSE /\ pc'[c] = AfterSend(c)'
  BY <1>1, <1>2 DEF Process
<1>4. Answers(k) \in 0 .. 2
  BY DEF Answers
<1>5. /\ LastProcessed(c) + 1 \in 1 .. Len(asked[c]) /\ LastProcessed(c) \in Int
      /\ LastStarted(c) \in Int /\ Len(asked[c]) \in Nat
      /\ Len(buffer[c]) \in Nat \ {0} /\ LastProcessed(c) = LastStarted(c) - Len(buffer[c])
      /\ Len(Tail(buffer[c])) = Len(buffer[c]) - 1
      /\ Ends(Tail(buffer[c]), LastStarted(c)) /\ Sent(c, Tail(buffer[c]))
      /\ Head(buffer[c]).n = LastProcessed(c) + 1
      /\ Head(buffer[c]).kind = asked[c][LastProcessed(c) + 1]
  BY <1>1, NextFrame, LastTyped
<1>6. LastStarted(c)' = LastStarted(c) /\ LastRead(c)' = LastRead(c)
  BY <1>1 DEF LastStarted, LastRead
<1>7. LastProcessed(c)' = LastProcessed(c) + 1
  <2>1. LastProcessed(c)' = LastStarted(c) - Len(Tail(buffer[c]))
    BY <1>3, <1>6 DEF LastProcessed
  <2> HIDE DEF LastStarted, LastProcessed
  <2> QED BY <1>5, <2>1
<1> HIDE DEF LastStarted, LastProcessed, LastRead
<1>8. /\ pc'[c] = "idle" => Tail(buffer[c]) = <<>>
      /\ owed'[c] > 0 => pc'[c] = "add"
  <2>1. pc'[c] = IF fan'[c] # {} \/ owed'[c] > 0 THEN "add"
                 ELSE IF current'[c].kind = "bye" THEN "leave" ELSE Onward(buffer'[c])
    BY <1>3 DEF AfterSend
  <2> QED BY <1>3, <2>1 DEF Onward
<1>9. \A s : Sent(c, s)' <=> Sent(c, s)
  BY <1>1 DEF Sent
<1>10. Queued(c)'
  BY <1>1, <1>3, <1>5, <1>6, <1>8, <1>9 DEF Numbers, Queued
<1>11. Out(c)' = Out(c) /\ \A n : Clear(c, n)' <=> Clear(c, n)
  BY <1>1 DEF Out, Clear
<1>12. Ordered(c)'
  BY <1>1, <1>11, AgreesReflexive, SameReflexive, OrderedKept
<1>13. PICK p : p = LastProcessed(c)
  OBVIOUS
<1>14. p \in Int /\ p + 1 \in 1 .. Len(asked[c]) /\ LastProcessed(c)' = p + 1 /\ current'[c].n = p + 1
  BY <1>3, <1>5, <1>7, <1>13
<1>15. InReach(c) /\ Full(c) /\ ~InHand(c)
  BY <1>1 DEF Numbers, Answering, InHand
<1>16. \A i \in AnswersIn(Out(c)) : Out(c)[i].n \in 1 .. p
  BY <1>13, <1>15 DEF InReach
<1>17. Clear(c, p + 1) => k = asked[c][p + 1]
  <2>1. CASE torn[c]
    BY <1>13, <1>15, <2>1 DEF InReach
  <2>2. CASE ~torn[c]
    BY <1>5, <1>13, <2>2 DEF TakenFor
  <2> QED BY <2>1, <2>2
<1>18. InReach(c)'
  <2>1. \A i \in AnswersIn(Out(c)) : Out(c)[i].n \in 1 .. p + 1
    BY <1>14, <1>16
  <2>2. p + 1 <= Len(asked[c])
    BY <1>14
  <2> QED BY <1>1, <1>3, <1>11, <1>14, <2>1, <2>2 DEF InReach
<1>19. Holding(c)'
  <2>1. Clear(c, current[c].n)' <=> Clear(c, p + 1)
    BY <1>1, <1>14 DEF Clear
  <2>2. \A i \in AnswersIn(Out(c)) : Out(c)[i].n # p + 1
    BY <1>14, <1>16
  <2>3. owed'[c] <= Answers(current'[c].kind)
    BY <1>3, <1>4
  <2> QED BY <1>1, <1>3, <1>11, <1>14, <1>17, <2>1, <2>2, <2>3 DEF Holding
<1>20. Full(c)'
  <2> SUFFICES ASSUME NEW m \in 1 .. p + 1, Clear(c, m), NEW l \in 0 .. Answers(asked[c][m]) - 1
               PROVE  Given(c, m, l) \/ (InHand(c)' /\ m = p + 1 /\ l < owed'[c])
    BY <1>1, <1>11, <1>14 DEF Full, Given
  <2>1. CASE m \in 1 .. p
    BY <1>13, <1>15, <2>1 DEF Full
  <2>2. CASE m = p + 1
    <3>1. l \in 0 .. Answers(k) - 1
      BY <1>17, <2>2
    <3>2. l < owed'[c] /\ owed'[c] > 0
      BY <1>3, <1>4, <3>1
    <3> QED BY <1>8, <2>2, <3>2 DEF InHand
  <2> QED BY <1>14, <2>1, <2>2
<1>21. Answering(c)'
  BY <1>1, <1>18, <1>19, <1>20 DEF Answering
<1> QED BY <1>10, <1>12, <1>21 DEF Numbers

(* An answer goes out: the next one that is owed to the frame in hand.      *)
LEMMA AnswerNumbers ==
  ASSUME Inv, NEW c \in Conns, WorkerStep(c), Numbers(c), Add(c), fan[c] = {}
  PROVE  Numbers(c)'
<1>0. /\ UNCHANGED <<asked, net, key, written, tasks, buffer, torn, current, listed>>
      /\ pc[c] = "add" /\ pc'[c] = "request" /\ owed[c] \in 0 .. 2 /\ current[c] \in Frame
      /\ written[c] \in Seq(Outgoing) /\ writeQueue[c] \in Seq(Outgoing)
  BY DEF WorkerStep, clientVars, keyVars, Add, Inv, Typed, TypeOK
<1>1. /\ UNCHANGED <<asked, net, key, written, tasks, buffer, torn, current, listed>>
      /\ pc[c] = "add" /\ pc'[c] = "request" /\ owed[c] \in 1 .. 2 /\ current[c] \in Frame
      /\ written[c] \in Seq(Outgoing) /\ writeQueue[c] \in Seq(Outgoing)
  <2>1. owed[c] > 0
    BY <1>0 DEF Inv, Typed
  <2> QED BY <1>0, <2>1
<1>2. Adding(c, c)
  BY AddPicks
<1>3. owed'[c] = owed[c] - 1
  BY <1>2 DEF Adding, Inv, Typed, TypeOK
<1>4. PICK m, o, p, n, w : /\ m = Message(c) /\ o = Out(c) /\ p = Out(c)' /\ n = LastProcessed(c)
                           /\ w = owed[c]
  OBVIOUS
<1>5. m \in Outgoing /\ m.type = "answer" /\ m.n = current[c].n /\ m.left = w - 1
  BY <1>1, <1>3, <1>4 DEF Message, Outgoing, Frame
<1>6. p = Append(o, m)
  <2>1. writeQueue'[c] = Append(writeQueue[c], m)
    BY <1>2, <1>4 DEF Adding, Inv, Typed, TypeOK
  <2>2. \A a, b \in Seq(Outgoing), x \in Outgoing : a \o Append(b, x) = Append(a \o b, x)
    BY ConcatAppend
  <2> QED BY <1>1, <1>4, <1>5, <2>1, <2>2 DEF Out
<1>7. OneMore(o, p, m) /\ \A i \in AnswersIn(o) : o[i].left \in 0 .. 2
  BY <1>4, <1>5, <1>6, OutTyped, AnswersAppend
<1>8. PICK k \in Nat : /\ AnswersIn(p) = AnswersIn(o) \cup {k} /\ p[k] = m
                       /\ \A i \in AnswersIn(o) : i \in Nat /\ i < k /\ p[i] = o[i]
  BY <1>7 DEF OneMore
<1>9. InHand(c) /\ InHand(c)' /\ c \in listed
  BY <1>1 DEF InHand, Numbers, Answering
<1>10. /\ Holding(c) /\ InReach(c) /\ Full(c) /\ Ordered(c)
  BY <1>9 DEF Numbers, Answering
<1>11. /\ m.n = n /\ n \in 1 .. Len(asked[c]) /\ w \in 1 .. 2 /\ w <= Answers(current[c].kind)
       /\ Clear(c, n) => current[c].kind = asked[c][n]
       /\ \A i \in AnswersIn(o) : o[i].n \in 1 .. n /\ (o[i].n = n => o[i].left >= w)
  BY <1>1, <1>4, <1>5, <1>10 DEF Holding, InReach
<1>12. Queued(c)' /\ LastProcessed(c)' = n
  BY <1>1, <1>4, QueuedUndisturbed
<1>13. Len(asked[c]) \in Nat /\ n \in Int
  BY <1>4, LastTyped
<1> HIDE DEF LastProcessed, Out
<1>14. \A x : Clear(c, x)' <=> Clear(c, x)
  BY <1>1 DEF Clear
<1>15. ASSUME NEW i \in AnswersIn(o) PROVE Precedes(o[i], m)
  BY <1>5, <1>7, <1>11, <1>13 DEF Precedes
<1>16. InOrder(p)
  <2> SUFFICES ASSUME NEW i \in AnswersIn(p), NEW j \in AnswersIn(p), i < j
               PROVE  Precedes(p[i], p[j])
    BY DEF InOrder
  <2>1. i \in AnswersIn(o)
    BY <1>8
  <2>2. CASE j = k
    BY <1>8, <1>15, <2>1, <2>2
  <2>3. CASE j \in AnswersIn(o)
    BY <1>4, <1>8, <1>10, <2>1, <2>3 DEF Ordered, InOrder
  <2> QED BY <1>8, <2>2, <2>3
<1>17. NoneUncalled(c)'
  <2> SUFFICES ASSUME NEW i \in AnswersIn(p), Clear(c, p[i].n)
               PROVE  p[i].left < Answers(asked[c][p[i].n])
    BY <1>1, <1>4, <1>14 DEF NoneUncalled
  <2>1. CASE i = k
    <3>1. Answers(current[c].kind) \in 0 .. 2 /\ p[i] = m
      BY <1>8, <2>1 DEF Answers
    <3>2. Answers(asked[c][n]) = Answers(current[c].kind)
      BY <1>11, <3>1, <1>5
    <3> QED BY <1>5, <1>11, <3>1, <3>2
  <2>2. CASE i \in AnswersIn(o)
    BY <1>4, <1>8, <1>10, <2>2 DEF Ordered, NoneUncalled
  <2> QED BY <1>8, <2>1, <2>2
<1>18. ASSUME NEW x \in 1 .. n, Clear(c, x), NEW l \in 0 .. Answers(asked[c][x]) - 1
       PROVE  \/ \E j \in AnswersIn(o) : o[j].n = x /\ o[j].left = l
              \/ x = n /\ l < w
  BY <1>4, <1>10, <1>18 DEF Full, Given
<1>19. NoneLeftOut(c)'
  <2> SUFFICES ASSUME NEW i \in AnswersIn(p), NEW x \in 1 .. p[i].n, Clear(c, x),
                      NEW l \in 0 .. Answers(asked[c][x]) - 1,
                      Precedes([n |-> x, left |-> l], p[i])
               PROVE  \E j \in AnswersIn(p) : p[j].n = x /\ p[j].left = l
    BY <1>1, <1>4, <1>14 DEF NoneLeftOut
  <2>1. \E j \in AnswersIn(o) : o[j].n = x /\ o[j].left = l
    <3>1. CASE i = k
      <4>1. x \in 1 .. n /\ ~(x = n /\ l < w)
        BY <1>5, <1>8, <1>11, <1>13, <3>1 DEF Precedes
      <4> QED BY <1>18, <4>1
    <3>2. CASE i \in AnswersIn(o)
      <4>1. p[i] = o[i]
        BY <1>8, <3>2
      <4> QED BY <1>4, <1>10, <3>2, <4>1 DEF Ordered, NoneLeftOut
    <3> QED BY <1>8, <3>1, <3>2
  <2> QED BY <1>8, <2>1
<1>20. InReach(c)'
  <2>1. \A i \in AnswersIn(p) : p[i].n \in 1 .. n
    BY <1>8, <1>11, <1>13
  <2>2. n <= Len(asked[c]) /\ (torn[c] => ~Clear(c, n + 1))
    BY <1>4, <1>10 DEF InReach
  <2> QED BY <1>1, <1>4, <1>12, <1>14, <2>1, <2>2 DEF InReach
<1>21. Holding(c)'
  <2>1. \A i \in AnswersIn(p) : p[i].n = n => p[i].left >= w - 1
    <3> SUFFICES ASSUME NEW i \in AnswersIn(p), p[i].n = n PROVE p[i].left >= w - 1
      OBVIOUS
    <3>1. CASE i = k
      BY <1>5, <1>8, <1>11, <3>1
    <3>2. CASE i \in AnswersIn(o)
      BY <1>7, <1>8, <1>11, <3>2
    <3> QED BY <1>8, <3>1, <3>2
  <2>2. w - 1 <= Answers(current[c].kind)
    <3>1. Answers(current[c].kind) \in 0 .. 2
      BY DEF Answers
    <3> QED BY <1>11, <3>1
  <2> QED BY <1>1, <1>3, <1>4, <1>5, <1>11, <1>12, <1>14, <2>1, <2>2 DEF Holding
<1>22. Full(c)'
  <2> SUFFICES ASSUME NEW x \in 1 .. n, Clear(c, x), NEW l \in 0 .. Answers(asked[c][x]) - 1
               PROVE  \/ \E j \in AnswersIn(p) : p[j].n = x /\ p[j].left = l
                      \/ x = n /\ l < w - 1
    BY <1>1, <1>3, <1>4, <1>9, <1>12, <1>14 DEF Full, Given
  <2>1. CASE \E j \in AnswersIn(o) : o[j].n = x /\ o[j].left = l
    BY <1>8, <2>1
  <2>2. CASE x = n /\ l = w - 1
    BY <1>5, <1>8, <1>11, <2>2
  <2> QED BY <1>11, <1>18, <2>1, <2>2
<1>23. Ordered(c)'
  BY <1>4, <1>16, <1>17, <1>19 DEF Ordered
<1>24. Answering(c)'
  BY <1>1, <1>9, <1>20, <1>21, <1>22 DEF Answering
<1> QED BY <1>12, <1>23, <1>24 DEF Numbers

(* A MESSAGE goes out, to this connection or to another.                    *)
LEMMA MessageNumbers ==
  ASSUME Inv, NEW c \in Conns, WorkerStep(c), Numbers(c), Add(c), fan[c] # {}
  PROVE  Numbers(c)'
<1>1. /\ UNCHANGED <<asked, net, key, written, tasks, buffer, torn, current, listed>>
      /\ pc[c] = "add" /\ pc'[c] = "request" /\ current[c] \in Frame
      /\ written[c] \in Seq(Outgoing) /\ writeQueue[c] \in Seq(Outgoing)
  BY DEF WorkerStep, clientVars, keyVars, Add, Inv, Typed, TypeOK
<1>2. PICK h \in fan[c] : Adding(c, h)
  BY AddPicks
<1>3. owed'[c] = owed[c]
  BY <1>2 DEF Adding, Inv, Typed, TypeOK
<1>4. PICK m : m = Message(c)
  OBVIOUS
<1>5. m \in Outgoing /\ m.type # "answer"
  BY <1>1, <1>3, <1>4 DEF Message, Outgoing, Frame, Inv, Typed, TypeOK
<1>6. SameAnswers(Out(c), Out(c)')
  <2>1. CASE h = c
    <3>1. writeQueue'[c] = Append(writeQueue[c], m)
      BY <1>2, <1>4, <2>1 DEF Adding, Inv, Typed, TypeOK
    <3>2. Out(c)' = Append(Out(c), m)
      <4>1. \A a, b \in Seq(Outgoing), x \in Outgoing : a \o Append(b, x) = Append(a \o b, x)
        BY ConcatAppend
      <4> QED BY <1>1, <1>5, <3>1, <4>1 DEF Out
    <3> QED BY <1>5, <3>2, OutTyped, AnswersAppend
  <2>2. CASE h # c
    <3>1. Out(c)' = Out(c)
      BY <1>1, <1>2, <2>2 DEF Adding, Out, Inv, Typed, TypeOK
    <3> QED BY <3>1, SameReflexive
  <2> QED BY <2>1, <2>2
<1>7. Queued(c)' /\ LastProcessed(c)' = LastProcessed(c)
  BY <1>1, QueuedUndisturbed
<1>8. InHand(c) /\ InHand(c)' /\ c \in listed
  BY <1>1 DEF InHand, Numbers, Answering
<1> QED BY <1>1, <1>3, <1>6, <1>7, <1>8, AgreesReflexive, NumbersUndisturbed

LEMMA WorkerNumbers ==
  ASSUME Inv, NEW c \in Conns, WorkerStep(c), Numbers(c)
  PROVE  Numbers(c)'
BY OwnUndisturbed, UnansweredNumbers, ProcessNumbers, AnswerNumbers, MessageNumbers DEF WorkerStep

(* Every client is answered in the order of its frames, as often as each    *)
(* asked for: no answer twice, none to a frame that asked for none, none    *)
(* left out before a later one; and after a frame that threw still in order *)
(* (Reactor's AnsweredInOrder).                                             *)
THEOREM AlwaysInOrder == Spec => []AnsweredInOrder
<1> DEFINE AllNumbers == \A c \in Conns : Numbers(c)
<1>1. Init => AllNumbers
  BY NumbersInit
<1>2. Inv /\ AllNumbers /\ [Next]_vars => AllNumbers'
  <2> SUFFICES ASSUME Inv, AllNumbers, [Next]_vars, NEW c \in Conns PROVE Numbers(c)'
    OBVIOUS
  <2>1. Numbers(c)
    OBVIOUS
  <2> HIDE DEF AllNumbers
  <2>2. CASE UNCHANGED vars
    <3>1. UNCHANGED <<asked, net, tasks, buffer, pc, torn, current, owed, listed, key, written,
                      writeQueue>>
      BY <2>2 DEF vars, clientVars, selectorVars, keyVars, poolVars
    <3>2. Out(c)' = Out(c)
      BY <3>1 DEF Out
    <3> QED BY <2>1, <3>1, <3>2, SameReflexive, NumbersAside
  <2>3. CASE Next
    BY <2>1, <2>3, ClientNumbers, SelectorNumbers, OthersNumbers, WorkerNumbers DEF Next
  <2> QED BY <2>2, <2>3
<1>3. AllNumbers => AnsweredInOrder
  BY DEF Numbers, Ordered, AnsweredInOrder
<1> QED BY <1>1, <1>2, <1>3, InvInit, InvNext, PTL DEF Spec
=============================================================================

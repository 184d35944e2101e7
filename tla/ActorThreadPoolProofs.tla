----------------------- MODULE ActorThreadPoolProofs -----------------------
(***************************************************************************)
(* ActorThreadPool implements ActorFifo, for any number of actors, threads *)
(* and tasks.                                                              *)
(***************************************************************************)
EXTENDS ActorThreadPool, SequenceTheorems, TLAPS

Inv == TypeOK /\ HandedOver

(* The empty pool has the invariant.                                        *)
LEMMA InvInit == Init => Inv
<1> SUFFICES ASSUME Init PROVE Inv
  OBVIOUS
<1>1. /\ <<>> \in Seq(1 .. MaxTasks) /\ <<>> \in Seq(Job) /\ 0 \in 0 .. MaxTasks
      /\ Len(<<>>) = 0
  BY TasksAssumption
<1>2. TypeOK
  BY <1>1 DEF Init, TypeOK, Phases
<1>3. OneTaskEach
  BY <1>1 DEF Init, OneTaskEach, OneThread, OnePlace, Busy
<1>4. NextRuns
  BY DEF Init, NextRuns
<1>5. NothingLost
  BY <1>1 DEF Init, NothingLost, Busy, InOrder, EndsWith, AtRest
<1> QED BY <1>2, <1>3, <1>4, <1>5 DEF Inv, HandedOver

(* What the executor's queue and an actor's queue hold after an append and  *)
(* after their head is gone.                                                *)
LEMMA AppendFacts ==
  ASSUME NEW S, NEW s \in Seq(S), NEW x \in S
  PROVE  /\ Append(s, x) \in Seq(S) /\ Len(Append(s, x)) = Len(s) + 1
         /\ Len(s) \in Nat
         /\ \A i \in 1 .. Len(s) : Append(s, x)[i] = s[i]
         /\ Append(s, x)[Len(s) + 1] = x
  OBVIOUS

LEMMA TailFacts ==
  ASSUME NEW S, NEW s \in Seq(S), s # <<>>
  PROVE  /\ Tail(s) \in Seq(S) /\ Len(Tail(s)) + 1 = Len(s) /\ Len(Tail(s)) \in Nat
         /\ \A i \in 1 .. Len(Tail(s)) : Tail(s)[i] = s[i + 1] /\ i + 1 \in 1 .. Len(s)
         /\ Head(s) = s[1] /\ Head(s) \in S /\ 1 \in 1 .. Len(s)
  OBVIOUS

(* The tasks that wait are numbers.                                         *)
LEMMA NatSeq == ASSUME NEW s \in Seq(1 .. MaxTasks) PROVE s \in Seq(Nat)
  BY TasksAssumption

(* A queue of consecutive numbers that end with m goes on with m + 1.       *)
LEMMA AppendInOrder ==
  ASSUME NEW s \in Seq(Nat), NEW m \in Nat, EndsWith(s, m)
  PROVE  EndsWith(Append(s, m + 1), m + 1)
<1> DEFINE t == Append(s, m + 1)
<1>1. /\ t \in Seq(Nat) /\ Len(t) = Len(s) + 1 /\ Len(s) \in Nat
      /\ \A i \in 1 .. Len(s) : t[i] = s[i]
      /\ t[Len(s) + 1] = m + 1
  BY AppendFacts, m + 1 \in Nat
<1>2. \A i \in 1 .. Len(s) : s[i] \in Nat /\ s[i] + Len(s) = m + i
  BY ElementOfSeq DEF EndsWith
<1> HIDE DEF t
<1>3. ASSUME NEW k \in 1 .. Len(t) PROVE t[k] + Len(t) = (m + 1) + k
  <2>1. CASE k = Len(s) + 1
    BY <1>1, <2>1
  <2>2. CASE k \in 1 .. Len(s)
    <3>1. PICK x \in Nat : x = s[k]
      BY <1>2, <2>2
    <3>2. PICK n \in Nat : n = Len(s)
      BY <1>1
    <3>3. x + n = m + k /\ t[k] = x /\ Len(t) = n + 1 /\ k \in Nat
      BY <1>1, <1>2, <2>2, <3>1, <3>2
    <3>4. x + (n + 1) = (m + 1) + k
      BY <3>3
    <3> QED BY <3>3, <3>4
  <2> QED BY <1>1, <2>1, <2>2
<1> QED BY <1>3 DEF EndsWith, t

(* Without its head it still ends with m.                                   *)
LEMMA TailInOrder ==
  ASSUME NEW s \in Seq(Nat), NEW m \in Nat, s # <<>>, EndsWith(s, m)
  PROVE  EndsWith(Tail(s), m)
<1> DEFINE t == Tail(s)
<1>1. /\ Len(t) + 1 = Len(s) /\ Len(t) \in Nat
      /\ \A i \in 1 .. Len(t) : t[i] = s[i + 1] /\ i + 1 \in 1 .. Len(s)
  BY TailFacts
<1>2. \A i \in 1 .. Len(s) : s[i] \in Nat /\ s[i] + Len(s) = m + i
  BY ElementOfSeq DEF EndsWith
<1> HIDE DEF t
<1>3. ASSUME NEW k \in 1 .. Len(t) PROVE t[k] + Len(t) = m + k
  <2>1. PICK x \in Nat : x = s[k + 1]
    BY <1>1, <1>2
  <2>2. PICK n \in Nat : n = Len(t)
    BY <1>1
  <2>3. x + (n + 1) = m + (k + 1) /\ t[k] = x /\ k \in Nat
    <3>1. t[k] = x /\ k \in Nat /\ k + 1 \in 1 .. Len(s) /\ Len(s) = n + 1
      BY <1>1, <2>1, <2>2
    <3>2. s[k + 1] + Len(s) = m + (k + 1)
      BY <1>2, <3>1
    <3> QED BY <2>1, <3>1, <3>2
  <2>4. x + n = m + k
    BY <2>3
  <2> QED BY <2>2, <2>3, <2>4
<1> QED BY <1>3 DEF EndsWith, t

(* What the executor holds is of the right kind.                            *)
LEMMA Jobs ==
  ASSUME TypeOK
  PROVE  /\ \A w \in Workers : Busy(w) =>
              /\ job[w] \in Job /\ job[w].act \in Actors
              /\ job[w].task \in 1 .. MaxTasks /\ job[w].task \in Nat \ {0}
         /\ \A i \in 1 .. Len(queue) :
              /\ queue[i] \in Job /\ queue[i].act \in Actors
              /\ queue[i].task \in 1 .. MaxTasks /\ queue[i].task \in Nat \ {0}
         /\ Len(queue) \in Nat
         /\ \A a \in Actors : /\ acts[a] \in Seq(1 .. MaxTasks) /\ Len(acts[a]) \in Nat
                              /\ submitted[a] \in Nat /\ done[a] \in Nat
<1>1. \A x \in Job : x.act \in Actors /\ x.task \in 1 .. MaxTasks /\ x.task \in Nat \ {0}
  BY DEF Job
<1>2. \A i \in 1 .. Len(queue) : queue[i] \in Job
  BY DEF TypeOK
<1>3. \A w \in Workers : Busy(w) => job[w] \in Job
  BY DEF TypeOK, Busy
<1>4. Len(queue) \in Nat
  BY DEF TypeOK
<1>5. ASSUME NEW a \in Actors
      PROVE  /\ acts[a] \in Seq(1 .. MaxTasks) /\ Len(acts[a]) \in Nat
             /\ submitted[a] \in Nat /\ done[a] \in Nat
  <2>1. acts[a] \in Seq(1 .. MaxTasks) /\ submitted[a] \in Nat /\ done[a] \in Nat
    BY DEF TypeOK
  <2> QED BY <2>1
<1> QED BY <1>1, <1>2, <1>3, <1>4, <1>5

(* A submit to an actor that does not play puts the task in the executor.   *)
LEMMA SubmitStarts ==
  ASSUME Inv, NEW a \in Actors, Submit(a), a \notin playingNow
  PROVE  Inv'
<1> DEFINE n == submitted[a] + 1
           new == [act |-> a, task |-> n]
<1>0. TypeOK /\ OneTaskEach /\ NextRuns /\ NothingLost
  BY DEF Inv, HandedOver
<1>1. /\ n \in 1 .. MaxTasks /\ submitted' \in [Actors -> 0 .. MaxTasks]
      /\ submitted'[a] = n /\ \A b \in Actors \ {a} : submitted'[b] = submitted[b]
  BY <1>0, TasksAssumption DEF Submit, TypeOK
<1>2. new \in Job /\ new.act = a /\ new.task = n /\ isDown = FALSE
  BY <1>0, <1>1 DEF Job, Submit, TypeOK
<1>3. UNCHANGED <<pc, job, isDown, done, acts>> /\ playingNow' = playingNow \cup {a}
  BY DEF Submit
<1>4. queue' = Append(queue, new)
  BY <1>1 DEF Submit
<1> HIDE DEF n, new
<1>5. /\ queue' \in Seq(Job) /\ Len(queue') = Len(queue) + 1 /\ Len(queue) \in Nat
      /\ \A i \in 1 .. Len(queue) : queue'[i] = queue[i]
      /\ queue'[Len(queue) + 1] = new
  BY <1>0, <1>2, <1>4, AppendFacts DEF TypeOK
<1>6. TypeOK'
  BY <1>0, <1>1, <1>3, <1>5 DEF TypeOK
<1>7. /\ \A w \in Workers : Busy(w) => job[w].act # a
      /\ \A i \in 1 .. Len(queue) : queue[i].act # a
  BY <1>0 DEF OneTaskEach, OneThread, OnePlace
<1>8. \A i \in 1 .. Len(queue') : \/ i \in 1 .. Len(queue) /\ queue'[i] = queue[i]
                                  \/ i = Len(queue) + 1 /\ queue'[i] = new
  BY <1>5
<1>9. OneTaskEach'
  <2>1. \A w \in Workers : Busy(w) =>
          /\ job[w].act \in playingNow'
          /\ \A v \in Workers \ {w} : Busy(v) => job[v].act # job[w].act
          /\ \A i \in 1 .. Len(queue') : queue'[i].act # job[w].act
    BY <1>0, <1>2, <1>3, <1>7, <1>8 DEF OneTaskEach, OneThread
  <2>2. \A i \in 1 .. Len(queue') : queue'[i].act \in playingNow'
    BY <1>0, <1>2, <1>3, <1>8 DEF OneTaskEach, OnePlace
  <2>3. ASSUME NEW i \in 1 .. Len(queue'), NEW j \in 1 .. Len(queue'),
               queue'[j].act = queue'[i].act
        PROVE  i = j
    <3>1. CASE i \in 1 .. Len(queue) /\ j \in 1 .. Len(queue)
      BY <1>0, <1>5, <2>3, <3>1 DEF OneTaskEach, OnePlace
    <3>2. CASE i = Len(queue) + 1 \/ j = Len(queue) + 1
      BY <1>2, <1>5, <1>7, <1>8, <2>3, <3>2
    <3> QED BY <1>8, <3>1, <3>2
  <2>4. \A i \in 1 .. Len(queue') :
          /\ queue'[i].act \in playingNow'
          /\ \A j \in 1 .. Len(queue') : queue'[j].act = queue'[i].act => i = j
    BY <2>2, <2>3
  <2>5. job' = job /\ pc' = pc
    BY <1>3
  <2>6. OnePlace'
    BY <2>4 DEF OnePlace
  <2>7. OneThread'
    BY <2>1, <2>5 DEF OneThread, Busy
  <2> QED BY <2>6, <2>7 DEF OneTaskEach
<1>10. NextRuns'
  BY <1>0, <1>2, <1>3 DEF NextRuns
<1>11. acts[a] = <<>> /\ done[a] = submitted[a] /\ Len(acts[a]) = 0
  BY <1>0, <1>2 DEF NothingLost, AtRest
<1>12. \A w \in Workers : Busy(w) => /\ job[w].task + Len(acts[job[w].act]) = submitted'[job[w].act]
                                     /\ pc[w] = "complete" => done[job[w].act] = job[w].task
  BY <1>0, <1>1, <1>2, <1>7, Jobs DEF NothingLost, InHand
<1>13. \A i \in 1 .. Len(queue') :
          /\ queue'[i].task + Len(acts[queue'[i].act]) = submitted'[queue'[i].act]
          /\ queue'[i].task = done[queue'[i].act] + 1
  <2>1. ASSUME NEW i \in 1 .. Len(queue)
        PROVE  /\ queue[i].task + Len(acts[queue[i].act]) = submitted'[queue[i].act]
               /\ queue[i].task = done[queue[i].act] + 1
    BY <1>0, <1>1, <1>2, <1>7, Jobs DEF NothingLost, InHand
  <2>2. n + Len(acts[a]) = submitted'[a] /\ n = done[a] + 1
    BY <1>1, <1>11 DEF n
  <2> QED BY <1>2, <1>8, <2>1, <2>2
<1>14. \A b \in Actors :
          /\ EndsWith(acts[b], submitted'[b])
          /\ b \notin playingNow' => acts[b] = <<>> /\ done[b] = submitted'[b]
  <2>1. ASSUME NEW b \in Actors \ {a}
        PROVE  /\ EndsWith(acts[b], submitted'[b])
               /\ b \notin playingNow' => acts[b] = <<>> /\ done[b] = submitted'[b]
    BY <1>0, <1>1, <1>2, <1>3 DEF NothingLost, InOrder, AtRest
  <2>2. EndsWith(acts[a], submitted'[a])
    BY <1>11 DEF EndsWith
  <2> QED BY <1>3, <2>1, <2>2
<1>15. NothingLost'
  BY <1>3, <1>12, <1>13, <1>14 DEF NothingLost, Busy, InHand, InOrder, AtRest
<1> QED BY <1>6, <1>9, <1>10, <1>15 DEF Inv, HandedOver

(* A submit to an actor that plays puts the task behind those that wait.    *)
LEMMA SubmitWaits ==
  ASSUME Inv, NEW a \in Actors, Submit(a), a \in playingNow
  PROVE  Inv'
<1> DEFINE n == submitted[a] + 1
<1>0. TypeOK /\ OneTaskEach /\ NextRuns /\ NothingLost
  BY DEF Inv, HandedOver
<1>1. /\ n \in 1 .. MaxTasks /\ submitted' \in [Actors -> 0 .. MaxTasks]
      /\ submitted'[a] = n /\ \A b \in Actors \ {a} : submitted'[b] = submitted[b]
      /\ n = submitted[a] + 1 /\ submitted[a] \in Nat
  BY <1>0, TasksAssumption DEF Submit, TypeOK
<1>2. UNCHANGED <<pc, job, isDown, done, playingNow, queue>> /\ isDown = FALSE
  BY <1>0 DEF Submit, TypeOK
<1>3. acts' = [acts EXCEPT ![a] = Append(@, n)]
  BY <1>1 DEF Submit
<1> HIDE DEF n
<1>4. acts[a] \in Seq(1 .. MaxTasks)
  BY <1>0 DEF TypeOK
<1>5. /\ acts' \in [Actors -> Seq(1 .. MaxTasks)]
      /\ \A b \in Actors \ {a} : acts'[b] = acts[b]
  BY <1>0, <1>1, <1>3, <1>4, AppendFacts DEF TypeOK
<1>6. /\ Len(acts'[a]) = Len(acts[a]) + 1 /\ Len(acts[a]) \in Nat
      /\ \A k \in 1 .. Len(acts[a]) : acts'[a][k] = acts[a][k]
      /\ acts'[a][Len(acts[a]) + 1] = n
  <2>1. acts'[a] = Append(acts[a], n)
    BY <1>0, <1>3 DEF TypeOK
  <2> QED BY <1>1, <1>4, <2>1, AppendFacts
<1>7. TypeOK'
  BY <1>0, <1>1, <1>2, <1>5 DEF TypeOK
<1>8. OneTaskEach'
  BY <1>0, <1>2 DEF OneTaskEach, OneThread, OnePlace, Busy
<1>9. NextRuns'
  BY <1>0, <1>2 DEF NextRuns
<1>10. \A b \in Actors : \A m \in Nat :
          m + Len(acts[b]) = submitted[b] => m + Len(acts'[b]) = submitted'[b]
  <2>1. \A m \in Nat : m + Len(acts[a]) = submitted[a] => m + Len(acts'[a]) = submitted'[a]
    BY <1>1, <1>6
  <2> QED BY <1>1, <1>5, <2>1
<1>11. \A w \in Workers :
          /\ Busy(w) => job[w].task + Len(acts'[job[w].act]) = submitted'[job[w].act]
          /\ pc[w] = "complete" => done[job[w].act] = job[w].task
  BY <1>0, <1>2, <1>10, Jobs DEF NothingLost, InHand
<1>12. \A i \in 1 .. Len(queue) :
          /\ queue[i].task + Len(acts'[queue[i].act]) = submitted'[queue[i].act]
          /\ queue[i].task = done[queue[i].act] + 1
  BY <1>0, <1>2, <1>10, Jobs DEF NothingLost, InHand
<1>13. ASSUME NEW b \in Actors
       PROVE  /\ EndsWith(acts'[b], submitted'[b])
              /\ b \notin playingNow => acts'[b] = <<>> /\ done[b] = submitted'[b]
  <2>1. CASE b # a
    <3>1. InOrder(b) /\ (b \notin playingNow => AtRest(b))
      BY <1>0, <1>2 DEF NothingLost
    <3>2. acts'[b] = acts[b] /\ submitted'[b] = submitted[b]
      BY <1>1, <1>5, <2>1
    <3> QED BY <3>1, <3>2 DEF InOrder, AtRest
  <2>2. acts[a] \in Seq(Nat) /\ submitted[a] \in Nat
    BY <1>1, <1>4, TasksAssumption, NatSeq
  <2>3. EndsWith(acts[a], submitted[a])
    BY <1>0, <1>2 DEF NothingLost, InOrder
  <2>4. acts'[a] = Append(acts[a], submitted[a] + 1) /\ submitted'[a] = submitted[a] + 1
    BY <1>0, <1>1, <1>3 DEF TypeOK
  <2>5. EndsWith(acts'[a], submitted'[a])
    BY <2>2, <2>3, <2>4, AppendInOrder
  <2> QED BY <2>1, <2>5
<1>14. NothingLost'
  BY <1>2, <1>11, <1>12, <1>13 DEF NothingLost, Busy, InHand, InOrder, AtRest
<1> QED BY <1>7, <1>8, <1>9, <1>14 DEF Inv, HandedOver

(* What a thread takes is the oldest task, and the others move up.          *)
LEMMA TakeKeeps ==
  ASSUME Inv, NEW w \in Workers, Take(w)
  PROVE  Inv'
<1>0. TypeOK /\ OneTaskEach /\ NextRuns /\ NothingLost
  BY DEF Inv, HandedOver
<1>1. queue # <<>> /\ queue \in Seq(Job) /\ queue' = Tail(queue) /\ ~ Busy(w)
  BY <1>0 DEF Take, TypeOK, Busy
<1>2. /\ queue' \in Seq(Job) /\ Len(queue') + 1 = Len(queue) /\ Len(queue') \in Nat
      /\ \A i \in 1 .. Len(queue') : queue'[i] = queue[i + 1] /\ i + 1 \in 1 .. Len(queue)
      /\ Head(queue) = queue[1] /\ Head(queue) \in Job /\ 1 \in 1 .. Len(queue)
  BY <1>1, TailFacts
<1>3. UNCHANGED <<playingNow, acts, isDown, submitted, done>>
  BY DEF Take
<1>4. /\ job'[w] = queue[1] /\ pc'[w] = "run"
      /\ \A v \in Workers \ {w} : job'[v] = job[v] /\ pc'[v] = pc[v]
  BY <1>0, <1>2 DEF Take, TypeOK
<1>5. TypeOK'
  <2>1. job' \in [Workers -> Job \cup {NoJob}] /\ pc' \in [Workers -> Phases]
    BY <1>0, <1>2 DEF Take, TypeOK, Phases
  <2>2. \A v \in Workers : pc'[v] # "idle" => job'[v] \in Job
    BY <1>0, <1>2, <1>4 DEF TypeOK
  <2> QED BY <1>0, <1>2, <1>3, <2>1, <2>2 DEF TypeOK
<1>6. /\ queue[1].act \in playingNow
      /\ \A v \in Workers : Busy(v) => job[v].act # queue[1].act
      /\ \A i \in 1 .. Len(queue') : queue'[i].act # queue[1].act
  <2>1. ASSUME NEW i \in 1 .. Len(queue') PROVE queue'[i].act # queue[1].act
    <3>1. i + 1 # 1 /\ i + 1 \in 1 .. Len(queue) /\ queue'[i] = queue[i + 1]
      BY <1>2
    <3> QED BY <1>0, <1>2, <3>1 DEF OneTaskEach, OnePlace
  <2> QED BY <1>0, <1>2, <2>1 DEF OneTaskEach, OneThread, OnePlace
<1>7. \A v \in Workers \ {w} : Busy(v)' <=> Busy(v)
  BY <1>4 DEF Busy
<1>8. OneThread'
  <2>1. ASSUME NEW v \in Workers, Busy(v)'
        PROVE  /\ job'[v].act \in playingNow'
               /\ \A x \in Workers \ {v} : Busy(x)' => job'[x].act # job'[v].act
               /\ \A i \in 1 .. Len(queue') : queue'[i].act # job'[v].act
    <3>1. CASE v = w
      BY <1>3, <1>4, <1>6, <1>7, <3>1
    <3>2. CASE v # w
      BY <1>0, <1>2, <1>3, <1>4, <1>6, <1>7, <2>1, <3>2 DEF OneTaskEach, OneThread
    <3> QED BY <3>1, <3>2
  <2> QED BY <2>1 DEF OneThread
<1>9. OnePlace'
  <2>1. ASSUME NEW i \in 1 .. Len(queue')
        PROVE  /\ queue'[i].act \in playingNow'
               /\ \A j \in 1 .. Len(queue') : queue'[j].act = queue'[i].act => i = j
    <3>1. queue'[i].act \in playingNow'
      BY <1>0, <1>2, <1>3 DEF OneTaskEach, OnePlace
    <3>2. ASSUME NEW j \in 1 .. Len(queue'), queue'[j].act = queue'[i].act PROVE i = j
      <4>1. i + 1 = j + 1
        BY <1>0, <1>2, <3>2 DEF OneTaskEach, OnePlace
      <4> QED BY <4>1
    <3> QED BY <3>1, <3>2
  <2> QED BY <2>1 DEF OnePlace
<1>10. ~ isDown
  BY <1>0, <1>1 DEF NextRuns
<1>11. queue[1].task = done[queue[1].act] + 1
  BY <1>0, <1>2, <1>10 DEF NothingLost
<1>12. NextRuns'
  BY <1>0, <1>3, <1>4, <1>10, <1>11 DEF NextRuns
<1>13. NothingLost'
  <2>1. ASSUME NEW v \in Workers
        PROVE  /\ Busy(v)' => job'[v].task + Len(acts[job'[v].act]) = submitted[job'[v].act]
               /\ pc'[v] = "complete" => done[job'[v].act] = job'[v].task
    <3>1. CASE v = w
      BY <1>0, <1>2, <1>4, <1>10, <3>1 DEF NothingLost, InHand
    <3>2. CASE v # w
      BY <1>0, <1>4, <1>7, <1>10, <3>2 DEF NothingLost, InHand
    <3> QED BY <3>1, <3>2
  <2>2. ASSUME NEW i \in 1 .. Len(queue')
        PROVE  /\ queue'[i].task + Len(acts[queue'[i].act]) = submitted[queue'[i].act]
               /\ queue'[i].task = done[queue'[i].act] + 1
    BY <1>0, <1>2, <1>10 DEF NothingLost, InHand
  <2>3. \A a \in Actors : InOrder(a) /\ (a \notin playingNow => AtRest(a))
    BY <1>0, <1>10 DEF NothingLost
  <2> QED BY <1>3, <2>1, <2>2, <2>3 DEF NothingLost, InHand, InOrder, AtRest
<1> QED BY <1>5, <1>8, <1>9, <1>12, <1>13 DEF Inv, HandedOver, OneTaskEach

(* A task that ends is the last one of its actor that ran.                  *)
LEMMA RunEndsKeeps ==
  ASSUME Inv, NEW w \in Workers, RunEnds(w)
  PROVE  Inv'
<1> DEFINE a == job[w].act
<1>0. TypeOK /\ OneTaskEach /\ NextRuns /\ NothingLost
  BY DEF Inv, HandedOver
<1>1. UNCHANGED <<playingNow, acts, queue, job, isDown, submitted>> /\ pc[w] = "run"
  BY DEF RunEnds
<1>2. Busy(w) /\ job[w] \in Job /\ a \in Actors /\ job[w].task \in 1 .. MaxTasks
  BY <1>0, <1>1, Jobs DEF Busy
<1>3. /\ done'[a] = job[w].task /\ \A b \in Actors \ {a} : done'[b] = done[b]
      /\ done' \in [Actors -> 0 .. MaxTasks]
  BY <1>0, <1>2, TasksAssumption DEF RunEnds, TypeOK
<1>4. /\ pc'[w] = "complete" /\ \A v \in Workers \ {w} : pc'[v] = pc[v]
      /\ pc' \in [Workers -> Phases]
  BY <1>0 DEF RunEnds, TypeOK, Phases
<1>5. \A v \in Workers : Busy(v)' <=> Busy(v)
  BY <1>1, <1>4 DEF Busy
<1>6. TypeOK'
  BY <1>0, <1>1, <1>3, <1>4 DEF TypeOK
<1>7. OneThread' /\ OnePlace'
  BY <1>0, <1>1, <1>5 DEF OneTaskEach, OneThread, OnePlace
<1>8. /\ \A v \in Workers \ {w} : Busy(v) => job[v].act # a /\ job[v].act \in Actors
      /\ \A i \in 1 .. Len(queue) : queue[i].act # a /\ queue[i].act \in Actors
      /\ a \in playingNow
  BY <1>0, <1>2, Jobs DEF OneTaskEach, OneThread
<1> HIDE DEF a
<1>9. NextRuns'
  <2>1. \A v \in Workers : pc'[v] = "run" => job[v].task = done'[job[v].act] + 1
    BY <1>0, <1>3, <1>4, <1>8 DEF NextRuns, Busy
  <2> QED BY <1>0, <1>1, <2>1 DEF NextRuns
<1>10. ASSUME ~ isDown, NEW v \in Workers
       PROVE  /\ Busy(v) => job[v].task + Len(acts[job[v].act]) = submitted[job[v].act]
              /\ pc'[v] = "complete" => done'[job[v].act] = job[v].task
  BY <1>0, <1>3, <1>4, <1>8, <1>10 DEF NothingLost, InHand, Busy, a
<1>11. ASSUME ~ isDown, NEW i \in 1 .. Len(queue)
       PROVE  /\ queue[i].task + Len(acts[queue[i].act]) = submitted[queue[i].act]
              /\ queue[i].task = done'[queue[i].act] + 1
  BY <1>0, <1>3, <1>8, <1>11 DEF NothingLost, InHand
<1>12. ASSUME ~ isDown, NEW b \in Actors
       PROVE  /\ EndsWith(acts[b], submitted[b])
              /\ b \notin playingNow => acts[b] = <<>> /\ done'[b] = submitted[b]
  BY <1>0, <1>3, <1>8, <1>12 DEF NothingLost, InOrder, AtRest
<1>13. NothingLost'
  BY <1>1, <1>5, <1>10, <1>11, <1>12 DEF NothingLost, InHand, InOrder, AtRest, Busy
<1> QED BY <1>6, <1>7, <1>9, <1>13 DEF Inv, HandedOver, OneTaskEach

(* shutdownNow empties the executor; what runs is not disturbed.            *)
LEMMA ShutdownKeeps ==
  ASSUME Inv, Shutdown
  PROVE  Inv'
<1>0. TypeOK /\ OneTaskEach /\ NextRuns
  BY DEF Inv, HandedOver
<1>1. /\ UNCHANGED <<playingNow, acts, pc, job, submitted, done>>
      /\ isDown' = TRUE /\ queue' = <<>>
  BY DEF Shutdown
<1>2. <<>> \in Seq(Job) /\ 1 .. Len(<<>>) = {}
  OBVIOUS
<1>3. TypeOK'
  BY <1>0, <1>1, <1>2 DEF TypeOK
<1>4. OneThread' /\ OnePlace'
  BY <1>0, <1>1, <1>2 DEF OneTaskEach, OneThread, OnePlace, Busy
<1>5. NextRuns' /\ NothingLost'
  BY <1>0, <1>1 DEF NextRuns, NothingLost
<1> QED BY <1>3, <1>4, <1>5 DEF Inv, HandedOver, OneTaskEach

(* complete() when nothing waits, or when the executor refuses what waits:  *)
(* the actor has no task in the executor any more.                          *)
LEMMA CompleteLetsGo ==
  ASSUME Inv, NEW w \in Workers, Complete(w), acts[job[w].act] = <<>> \/ isDown
  PROVE  Inv'
<1> DEFINE a == job[w].act
<1>0. TypeOK /\ OneTaskEach /\ NextRuns /\ NothingLost
  BY DEF Inv, HandedOver
<1>1. UNCHANGED <<isDown, submitted, done>> /\ Busy(w) /\ pc[w] = "complete"
  BY DEF Complete, Busy
<1>2. a \in Actors /\ acts[a] \in Seq(1 .. MaxTasks) /\ queue' = queue
  BY <1>0, <1>1, Jobs DEF Complete
<1>3. /\ pc'[w] = "idle" /\ pc' \in [Workers -> Phases]
      /\ \A v \in Workers \ {w} : pc'[v] = pc[v] /\ job'[v] = job[v]
      /\ job' \in [Workers -> Job \cup {NoJob}]
  BY <1>0 DEF Complete, TypeOK, Phases
<1>4. /\ acts' \in [Actors -> Seq(1 .. MaxTasks)]
      /\ playingNow \ {a} \subseteq playingNow' /\ playingNow' \subseteq playingNow
  <2>1. acts[a] # <<>> => Tail(acts[a]) \in Seq(1 .. MaxTasks)
    BY <1>2, TailFacts
  <2> QED BY <1>0, <1>2, <2>1 DEF Complete, TypeOK
<1>5. TypeOK'
  BY <1>0, <1>1, <1>2, <1>3, <1>4 DEF TypeOK
<1>6. /\ \A v \in Workers \ {w} : Busy(v) => job[v].act # a /\ job[v].act \in playingNow
      /\ \A i \in 1 .. Len(queue) : queue[i].act # a /\ queue[i].act \in playingNow
  BY <1>0, <1>1 DEF OneTaskEach, OneThread, OnePlace
<1>7. \A v \in Workers : Busy(v)' <=> Busy(v) /\ v # w
  BY <1>3 DEF Busy
<1> HIDE DEF a
<1>8. OneThread'
  <2>1. ASSUME NEW v \in Workers, Busy(v)'
        PROVE  /\ job'[v].act \in playingNow'
               /\ \A x \in Workers \ {v} : Busy(x)' => job'[x].act # job'[v].act
               /\ \A i \in 1 .. Len(queue') : queue'[i].act # job'[v].act
    <3>1. Busy(v) /\ v # w /\ job'[v] = job[v]
      BY <1>3, <1>7, <2>1
    <3> QED BY <1>0, <1>2, <1>3, <1>4, <1>6, <1>7, <3>1 DEF OneTaskEach, OneThread
  <2> QED BY <2>1 DEF OneThread
<1>9. OnePlace'
  BY <1>0, <1>2, <1>4, <1>6 DEF OneTaskEach, OnePlace
<1>10. NextRuns'
  BY <1>0, <1>1, <1>2, <1>3 DEF NextRuns
<1>11. NothingLost'
  <2> SUFFICES ASSUME ~ isDown PROVE NothingLost'
    BY <1>1 DEF NothingLost
  <2>1. acts' = acts /\ playingNow' = playingNow \ {a} /\ acts[a] = <<>>
    BY DEF Complete, a
  <2>2. done[a] = submitted[a]
    <3>1. job[w].task + Len(acts[a]) = submitted[a] /\ done[a] = job[w].task
      BY <1>0, <1>1 DEF NothingLost, InHand, a
    <3>2. Len(acts[a]) = 0 /\ job[w].task \in Nat
      BY <1>0, <1>1, <2>1, Jobs
    <3> QED BY <3>1, <3>2
  <2>3. ASSUME NEW v \in Workers
        PROVE  /\ Busy(v)' => job'[v].task + Len(acts[job'[v].act]) = submitted[job'[v].act]
               /\ pc'[v] = "complete" => done[job'[v].act] = job'[v].task
    <3>1. CASE v = w
      BY <1>3, <1>7, <3>1
    <3>2. CASE v # w
      BY <1>0, <1>3, <1>7, <3>2 DEF NothingLost, InHand
    <3> QED BY <3>1, <3>2
  <2>4. \A i \in 1 .. Len(queue) :
          /\ queue[i].task + Len(acts[queue[i].act]) = submitted[queue[i].act]
          /\ queue[i].task = done[queue[i].act] + 1
    BY <1>0 DEF NothingLost, InHand
  <2>5. \A b \in Actors : InOrder(b) /\ (b \notin playingNow' => AtRest(b))
    BY <1>0, <2>1, <2>2 DEF NothingLost, AtRest
  <2> QED BY <1>1, <1>2, <2>1, <2>3, <2>4, <2>5 DEF NothingLost, InHand, InOrder, AtRest
<1> QED BY <1>5, <1>8, <1>9, <1>10, <1>11 DEF Inv, HandedOver, OneTaskEach

(* complete() when tasks wait: the next one takes the place of the last.    *)
LEMMA CompleteHandsOver ==
  ASSUME Inv, NEW w \in Workers, Complete(w), acts[job[w].act] # <<>>, ~ isDown
  PROVE  Inv'
<1> DEFINE a == job[w].act
           new == [act |-> a, task |-> Head(acts[a])]
<1>0. TypeOK /\ OneTaskEach /\ NextRuns /\ NothingLost
  BY DEF Inv, HandedOver
<1>1. UNCHANGED <<isDown, submitted, done, playingNow>> /\ Busy(w) /\ pc[w] = "complete"
  BY DEF Complete, Busy
<1>2. a \in Actors /\ acts[a] \in Seq(1 .. MaxTasks) /\ acts[a] # <<>>
  BY <1>0, <1>1, Jobs
<1>3. /\ pc'[w] = "idle" /\ pc' \in [Workers -> Phases]
      /\ \A v \in Workers \ {w} : pc'[v] = pc[v] /\ job'[v] = job[v]
      /\ job' \in [Workers -> Job \cup {NoJob}]
  BY <1>0 DEF Complete, TypeOK, Phases
<1>4. /\ Tail(acts[a]) \in Seq(1 .. MaxTasks) /\ Len(Tail(acts[a])) + 1 = Len(acts[a])
      /\ Head(acts[a]) = acts[a][1] /\ Head(acts[a]) \in 1 .. MaxTasks
      /\ 1 \in 1 .. Len(acts[a]) /\ Len(Tail(acts[a])) \in Nat
  BY <1>2, TailFacts
<1>5. acts' = [acts EXCEPT ![a] = Tail(@)] /\ queue' = Append(queue, new)
  BY DEF Complete
<1>6. /\ acts' \in [Actors -> Seq(1 .. MaxTasks)] /\ acts'[a] = Tail(acts[a])
      /\ \A b \in Actors \ {a} : acts'[b] = acts[b]
  BY <1>0, <1>2, <1>4, <1>5 DEF TypeOK
<1>7. new \in Job /\ new.act = a /\ new.task = Head(acts[a])
  BY <1>2, <1>4 DEF Job
<1>8. /\ \A v \in Workers \ {w} : Busy(v) => job[v].act # a
      /\ \A i \in 1 .. Len(queue) : queue[i].act # a
      /\ a \in playingNow
  BY <1>0, <1>1 DEF OneTaskEach, OneThread
<1>9. /\ job[w].task + Len(acts[a]) = submitted[a] /\ done[a] = job[w].task
      /\ EndsWith(acts[a], submitted[a])
  BY <1>0, <1>1, <1>2 DEF NothingLost, InHand, InOrder
<1> HIDE DEF a, new
<1>10. /\ queue' \in Seq(Job) /\ Len(queue') = Len(queue) + 1 /\ Len(queue) \in Nat
       /\ \A i \in 1 .. Len(queue) : queue'[i] = queue[i]
       /\ queue'[Len(queue) + 1] = new
  BY <1>0, <1>5, <1>7, AppendFacts DEF TypeOK
<1>11. \A i \in 1 .. Len(queue') : \/ i \in 1 .. Len(queue) /\ queue'[i] = queue[i]
                                   \/ i = Len(queue) + 1 /\ queue'[i] = new
  BY <1>10
<1>12. TypeOK'
  BY <1>0, <1>1, <1>3, <1>6, <1>10 DEF TypeOK
<1>13. \A v \in Workers : Busy(v)' <=> Busy(v) /\ v # w
  BY <1>3 DEF Busy
<1>14. OneThread'
  <2>1. ASSUME NEW v \in Workers, Busy(v)'
        PROVE  /\ job'[v].act \in playingNow'
               /\ \A x \in Workers \ {v} : Busy(x)' => job'[x].act # job'[v].act
               /\ \A i \in 1 .. Len(queue') : queue'[i].act # job'[v].act
    <3>1. Busy(v) /\ v # w /\ job'[v] = job[v] /\ job[v].act # a
      BY <1>3, <1>8, <1>13, <2>1
    <3>2. \A i \in 1 .. Len(queue') : queue'[i].act # job[v].act
      BY <1>0, <1>7, <1>11, <3>1 DEF OneTaskEach, OneThread
    <3> QED BY <1>0, <1>1, <1>3, <1>13, <3>1, <3>2 DEF OneTaskEach, OneThread
  <2> QED BY <2>1 DEF OneThread
<1>15. OnePlace'
  <2>1. \A i \in 1 .. Len(queue') : queue'[i].act \in playingNow'
    BY <1>0, <1>1, <1>7, <1>8, <1>11 DEF OneTaskEach, OnePlace
  <2>2. ASSUME NEW i \in 1 .. Len(queue'), NEW j \in 1 .. Len(queue'),
               queue'[j].act = queue'[i].act
        PROVE  i = j
    <3>1. CASE i \in 1 .. Len(queue) /\ j \in 1 .. Len(queue)
      BY <1>0, <1>10, <2>2, <3>1 DEF OneTaskEach, OnePlace
    <3>2. CASE i = Len(queue) + 1 \/ j = Len(queue) + 1
      BY <1>7, <1>8, <1>10, <1>11, <2>2, <3>2
    <3> QED BY <1>11, <3>1, <3>2
  <2> QED BY <2>1, <2>2 DEF OnePlace
<1>16. NextRuns'
  BY <1>0, <1>1, <1>3 DEF NextRuns
<1>17. NothingLost'
  <2>1. \A v \in Workers \ {w} : Busy(v) => acts'[job[v].act] = acts[job[v].act]
    BY <1>0, <1>6, <1>8, Jobs
  <2>2. ASSUME NEW v \in Workers
        PROVE  /\ Busy(v)' => job'[v].task + Len(acts'[job'[v].act]) = submitted[job'[v].act]
               /\ pc'[v] = "complete" => done[job'[v].act] = job'[v].task
    <3>1. CASE v = w
      BY <1>3, <1>13, <3>1
    <3>2. CASE v # w
      BY <1>0, <1>3, <1>13, <2>1, <3>2 DEF NothingLost, InHand
    <3> QED BY <3>1, <3>2
  <2>3. \A i \in 1 .. Len(queue) : acts'[queue[i].act] = acts[queue[i].act]
    BY <1>0, <1>6, <1>8, Jobs
  <2>4. new.task + Len(acts'[a]) = submitted[a] /\ new.task = done[a] + 1
    <3>1. new.task + Len(acts[a]) = submitted[a] + 1 /\ new.task \in Nat
      BY <1>4, <1>7, <1>9, TasksAssumption DEF EndsWith
    <3>2. job[w].task \in Nat /\ submitted[a] \in Nat
      BY <1>0, <1>1, <1>2, Jobs
    <3>3. PICK n \in Nat : n = Len(acts'[a]) /\ Len(acts[a]) = n + 1
      BY <1>4, <1>6
    <3>4. PICK t \in Nat, d \in Nat, m \in Nat :
                t = new.task /\ d = job[w].task /\ m = submitted[a]
      BY <3>1, <3>2
    <3>5. t + (n + 1) = m + 1 /\ d + (n + 1) = m
      BY <1>9, <3>1, <3>3, <3>4
    <3>6. t + n = m /\ t = d + 1
      BY <3>5
    <3> QED BY <1>9, <3>3, <3>4, <3>6
  <2>5. ASSUME NEW i \in 1 .. Len(queue')
        PROVE  /\ queue'[i].task + Len(acts'[queue'[i].act]) = submitted[queue'[i].act]
               /\ queue'[i].task = done[queue'[i].act] + 1
    <3>1. CASE i \in 1 .. Len(queue)
      BY <1>0, <1>10, <2>3, <3>1 DEF NothingLost, InHand
    <3>2. CASE i = Len(queue) + 1
      BY <1>7, <1>10, <2>4, <3>2
    <3> QED BY <1>11, <3>1, <3>2
  <2>6. ASSUME NEW b \in Actors
        PROVE  EndsWith(acts'[b], submitted[b]) /\ (b \notin playingNow => acts'[b] = <<>> /\ done[b] = submitted[b])
    <3>1. CASE b # a
      BY <1>0, <1>6, <3>1 DEF NothingLost, InOrder, AtRest
    <3>2. CASE b = a
      BY <1>0, <1>2, <1>6, <1>8, <1>9, <3>2, NatSeq, TailInOrder, Jobs
    <3> QED BY <3>1, <3>2
  <2> QED BY <1>1, <2>2, <2>5, <2>6 DEF NothingLost, Busy, InHand, InOrder, AtRest
<1> QED BY <1>12, <1>14, <1>15, <1>16, <1>17 DEF Inv, HandedOver, OneTaskEach

(* Every step keeps the invariant.                                          *)
LEMMA InvNext == Inv /\ [Next]_vars => Inv'
<1> SUFFICES ASSUME Inv, [Next]_vars PROVE Inv'
  OBVIOUS
<1>1. ASSUME NEW a \in Actors, Submit(a) PROVE Inv'
  BY <1>1, SubmitStarts, SubmitWaits
<1>2. ASSUME NEW w \in Workers, WorkerStep(w) PROVE Inv'
  <2>1. CASE Take(w)
    BY <2>1, TakeKeeps
  <2>2. CASE RunEnds(w)
    BY <2>2, RunEndsKeeps
  <2>3. CASE Complete(w)
    <3>1. CASE acts[job[w].act] = <<>> \/ isDown
      BY <2>3, <3>1, CompleteLetsGo
    <3>2. CASE acts[job[w].act] # <<>> /\ ~ isDown
      BY <2>3, <3>2, CompleteHandsOver
    <3> QED BY <3>1, <3>2
  <2> QED BY <1>2, <2>1, <2>2, <2>3 DEF WorkerStep
<1>3. CASE Shutdown
  BY <1>3, ShutdownKeeps
<1>4. CASE UNCHANGED vars
  <2>1. UNCHANGED <<playingNow, acts, queue, pc, job, isDown, submitted, done>>
    BY <1>4 DEF vars
  <2> QED BY <2>1 DEF Inv, TypeOK, HandedOver, OneTaskEach, OneThread, OnePlace, NextRuns,
                      NothingLost, Busy, InHand, InOrder, EndsWith, AtRest
<1> QED BY <1>1, <1>2, <1>3, <1>4 DEF Next, Quiescent

(* At any time the executor and acts hold between them, without a gap and   *)
(* in the order of the submits, the tasks of every actor that have not run, *)
(* and no actor has two tasks in the executor.                              *)
THEOREM AlwaysHandedOver == Spec => [](TypeOK /\ HandedOver)
<1>1. Inv => TypeOK /\ HandedOver
  BY DEF Inv
<1> QED BY <1>1, InvInit, InvNext, PTL DEF Spec

(* The only thread that runs an actor's task runs the actor's current one.  *)
LEMMA CurrentTask ==
  OneThread => \A a \in Actors :
    /\ \A w \in Workers : Running(a, w) => Current[a] = job[w].task
    /\ (\A w \in Workers : ~ Running(a, w)) => Current[a] = 0
<1>1. ASSUME OneThread, NEW a \in Actors, NEW w \in Workers, Running(a, w)
      PROVE  Current[a] = job[w].task
  <2> DEFINE c == CHOOSE v \in Workers : Running(a, v)
  <2>1. c \in Workers /\ Running(a, c)
    BY <1>1
  <2>2. c = w
    BY <1>1, <2>1 DEF OneThread, Running, Busy
  <2> QED BY <1>1, <2>2 DEF Current
<1>2. \A a \in Actors : (\A w \in Workers : ~ Running(a, w)) => Current[a] = 0
  BY DEF Current
<1> QED BY <1>1, <1>2

(* The same of the next state.                                              *)
LEMMA CurrentTaskNext ==
  (OneThread => \A a \in Actors :
    /\ \A w \in Workers : Running(a, w) => Current[a] = job[w].task
    /\ (\A w \in Workers : ~ Running(a, w)) => Current[a] = 0)'
BY CurrentTask, PTL

(* Where the threads that run an actor's task are the same before and after *)
(* a step, its current task is.                                             *)
LEMMA CurrentStays ==
  ASSUME OneThread, OneThread', NEW b \in Actors,
         \A v \in Workers : Running(b, v)' <=> Running(b, v),
         \A v \in Workers : Running(b, v) => job'[v] = job[v]
  PROVE  Current'[b] = Current[b]
<1>1. CASE \E v \in Workers : Running(b, v)
  <2>1. PICK v \in Workers : Running(b, v)
    BY <1>1
  <2>2. Current[b] = job[v].task
    BY <2>1, CurrentTask
  <2>3. Current'[b] = job'[v].task
    BY <2>1, CurrentTaskNext
  <2> QED BY <2>1, <2>2, <2>3
<1>2. CASE \A v \in Workers : ~ Running(b, v)
  <2>1. Current[b] = 0
    BY <1>2, CurrentTask
  <2>2. Current'[b] = 0
    BY <1>2, CurrentTaskNext
  <2> QED BY <2>1, <2>2
<1> QED BY <1>1, <1>2

(* The pool keeps the actors' promise: a submit, a thread that takes a task *)
(* and one that ends it are the steps of ActorFifo; what complete() and     *)
(* shutdown() do is not seen by the actors.                                 *)
THEOREM PoolRunsInOrder == Spec => RunsInOrder
<1>1. Init => Fifo!Init
  <2> SUFFICES ASSUME Init PROVE Fifo!Init
    OBVIOUS
  <2>1. \A a \in Actors : \A w \in Workers : ~ Running(a, w)
    BY DEF Init, Running
  <2>2. Current = [a \in Actors |-> 0]
    BY <2>1 DEF Current
  <2> QED BY <2>2 DEF Init, Fifo!Init
<1>2. Inv /\ Inv' /\ [Next]_vars => [Fifo!Next]_(Fifo!vars)
  <2> SUFFICES ASSUME Inv, Inv', [Next]_vars PROVE [Fifo!Next]_(Fifo!vars)
    OBVIOUS
  <2>0. /\ TypeOK /\ OneThread /\ NextRuns /\ NothingLost
        /\ TypeOK' /\ OneThread' /\ NextRuns'
    BY DEF Inv, HandedOver, OneTaskEach
  <2>1. ASSUME NEW a \in Actors, Submit(a) PROVE Fifo!Submit(a)
    <3>1. Current' = Current
      BY <2>1 DEF Submit, Current, Running
    <3> QED BY <2>1, <3>1 DEF Submit, Fifo!Submit
  <2>2. ASSUME NEW w \in Workers, Take(w) PROVE \E a \in Actors : Fifo!Start(a)
    <3>1. queue # <<>> /\ ~ Busy(w) /\ ~ isDown /\ UNCHANGED <<submitted, done>>
      BY <2>0, <2>2 DEF Take, Busy, NextRuns
    <3>2. queue[1] = Head(queue) /\ 1 \in 1 .. Len(queue) /\ queue[1].act \in Actors
      BY <2>0, <3>1, TailFacts, Jobs DEF TypeOK
    <3>3. PICK a \in Actors : a = queue[1].act
      BY <3>2
    <3>4. /\ job'[w] = queue[1] /\ pc'[w] = "run"
          /\ \A v \in Workers \ {w} : job'[v] = job[v] /\ pc'[v] = pc[v]
      BY <2>0, <2>2, <3>2, <3>3 DEF Take, TypeOK
    <3>5. queue[1].task = done[a] + 1 /\ queue[1].task + Len(acts[a]) = submitted[a]
      BY <2>0, <3>1, <3>2, <3>3 DEF NothingLost, InHand
    <3>6. \A v \in Workers : ~ Running(a, v)
      BY <2>0, <3>2, <3>3 DEF OneThread, Running, Busy
    <3>7. Current[a] = 0
      BY <2>0, <3>2, <3>3, <3>6, CurrentTask
    <3>8. Current'[a] = done[a] + 1
      <4>1. Running(a, w)'
        BY <3>3, <3>4 DEF Running
      <4>2. Current'[a] = job'[w].task
        BY <2>0, <3>2, <3>3, <4>1, CurrentTaskNext
      <4> QED BY <3>3, <3>4, <3>5, <4>2
    <3>9. ASSUME NEW b \in Actors \ {a} PROVE Current'[b] = Current[b]
      <4>1. ~ Running(b, w)' /\ ~ Running(b, w)
        BY <3>1, <3>3, <3>4 DEF Running, Busy
      <4>2. \A v \in Workers : /\ Running(b, v)' <=> Running(b, v)
                               /\ Running(b, v) => job'[v] = job[v]
        BY <3>4, <4>1 DEF Running
      <4> QED BY <2>0, <4>2, CurrentStays
    <3>10. done[a] < submitted[a]
      BY <2>0, <3>2, <3>3, <3>5, Jobs
    <3>11. Current' = [Current EXCEPT ![a] = done[a] + 1]
      BY <3>8, <3>9 DEF Current
    <3> QED BY <3>1, <3>2, <3>3, <3>7, <3>10, <3>11 DEF Fifo!Start
  <2>3. ASSUME NEW w \in Workers, RunEnds(w) PROVE \E a \in Actors : Fifo!Finish(a)
    <3>1. pc[w] = "run" /\ UNCHANGED <<submitted, job>>
      BY <2>3 DEF RunEnds
    <3>2. job[w].act \in Actors /\ job[w].task \in Nat \ {0}
      BY <2>0, <3>1, Jobs DEF Busy
    <3>3. PICK a \in Actors : a = job[w].act
      BY <3>2
    <3>4. pc'[w] = "complete" /\ \A v \in Workers \ {w} : pc'[v] = pc[v]
      BY <2>0, <2>3 DEF RunEnds, TypeOK
    <3>5. Current[a] = job[w].task
      BY <2>0, <3>1, <3>2, <3>3, CurrentTask DEF Running
    <3>6. Current'[a] = 0
      <4>1. \A v \in Workers : ~ Running(a, v)'
        BY <2>0, <3>1, <3>3, <3>4 DEF OneThread, Running, Busy
      <4> QED BY <2>0, <3>2, <3>3, <4>1, CurrentTaskNext
    <3>7. ASSUME NEW b \in Actors \ {a} PROVE Current'[b] = Current[b]
      <4>1. \A v \in Workers : Running(b, v)' <=> Running(b, v)
        BY <3>1, <3>3, <3>4 DEF Running
      <4> QED BY <2>0, <3>1, <4>1, CurrentStays
    <3>8. Current' = [Current EXCEPT ![a] = 0]
      BY <3>6, <3>7 DEF Current
    <3>9. done' = [done EXCEPT ![a] = Current[a]]
      BY <2>3, <3>3, <3>5 DEF RunEnds
    <3>10. Current[a] # 0
      BY <3>2, <3>3, <3>5
    <3>11. Fifo!Finish(a)
      BY <3>1, <3>8, <3>9, <3>10 DEF Fifo!Finish
    <3> QED BY <3>11
  <2>4. ASSUME NEW w \in Workers, Complete(w) PROVE UNCHANGED Fifo!vars
    <3>1. /\ pc[w] = "complete" /\ pc'[w] = "idle" /\ UNCHANGED <<submitted, done>>
          /\ \A v \in Workers \ {w} : pc'[v] = pc[v] /\ job'[v] = job[v]
      BY <2>0, <2>4 DEF Complete, TypeOK
    <3>2. ASSUME NEW b \in Actors PROVE Current'[b] = Current[b]
      <4>1. \A v \in Workers : Running(b, v)' <=> Running(b, v)
        BY <3>1 DEF Running
      <4>2. \A v \in Workers : Running(b, v) => job'[v] = job[v]
        BY <3>1 DEF Running
      <4> QED BY <2>0, <4>1, <4>2, CurrentStays
    <3>3. Current' = Current
      BY <3>2 DEF Current
    <3> QED BY <3>1, <3>3 DEF Fifo!vars
  <2>5. CASE Shutdown
    <3>1. Current' = Current
      BY <2>5 DEF Shutdown, Current, Running
    <3> QED BY <2>5, <3>1 DEF Shutdown, Fifo!vars
  <2>6. CASE UNCHANGED vars
    <3>1. Current' = Current
      BY <2>6 DEF vars, Current, Running
    <3> QED BY <2>6, <3>1 DEF vars, Fifo!vars
  <2> QED BY <2>1, <2>2, <2>3, <2>4, <2>5, <2>6
          DEF Next, WorkerStep, Quiescent, Fifo!Next
<1> QED BY <1>1, <1>2, InvInit, InvNext, PTL DEF Spec, RunsInOrder, Fifo!Spec
=============================================================================

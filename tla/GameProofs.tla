----------------------------- MODULE GameProofs -----------------------------
(***************************************************************************)
(* What a follower's client has of each game is what it was told, for any  *)
(* number of reporters, events and statistics: the invariant follows a     *)
(* body line by line.                                                      *)
(***************************************************************************)
EXTENDS Game, TLAPS, FiniteSetTheorems, SequenceTheorems

Fields == {"user", "name", "time", "head", "stat", "text"}
Names == {e.name : e \in Events}
Item ==
  [field : Fields, heading : 0 .. 4, key : Texts \cup {NULL},
   value : Users \cup Names \cup Times \cup Texts \cup {NULL}]

Size(e, s) == Cardinality(DOMAIN e.updates[s])
Key(e, s, i) == Ordered(DOMAIN e.updates[s])[i]

(* Where the sections of a body begin, and its last line.                   *)
Start(e, s) ==
  IF s = 1 THEN 4
  ELSE IF s = 2 THEN 5 + Size(e, 1)
  ELSE IF s = 3 THEN 6 + Size(e, 1) + Size(e, 2)
  ELSE 7 + Size(e, 1) + Size(e, 2) + Size(e, 3)
Last(e) == Start(e, 4) + Len(e.description)

(* After line p of e one is in section s, and has read these names of it.   *)
In(e, p, s) == Start(e, s) <= p /\ (s < 4 => p < Start(e, s + 1))
KeysTo(e, s, p) == {Key(e, s, j) : j \in {j \in 1 .. Size(e, s) : Start(e, s) + j <= p}}

(* What is in the variables.                                                *)
GameTypes ==
  /\ told \in [Users -> Seq(Events)]
  /\ gameToEvents \in [Users -> Games \cup {NULL}]
  /\ newGame \in Games \cup {NULL}
  /\ whichUpdate \in 0 .. 4
  /\ eventName \in Names \cup {NULL} /\ eventTime \in Times \cup {NULL}
  /\ description \in Seq(Texts)
  /\ \/ main = "idle" /\ current = NULL /\ newGame = NULL
     \/ main = "parse" /\ current \in Users
  /\ \A u \in Users :
       /\ gameToEvents[u] = NULL <=>
            told[u] = <<>> \/ (current = u /\ newGame # NULL /\ Len(told[u]) = 1)
       /\ current = u /\ newGame # NULL => gameToEvents[u] = NULL

(* The event that is being read, and how many lines of it have been.        *)
Now == told[current][Len(told[current])]
At == Last(Now) - Len(lines)

InBody ==
  main = "parse" =>
    /\ told[current] # <<>>
    /\ At \in 0 .. Last(Now)
    /\ lines = SubSeq(Body[current][Now], At + 1, Last(Now))
    /\ whichUpdate = 0 <=> At < 4
    /\ At >= 2 => eventName = Now.name
    /\ At >= 3 => eventTime = Now.time

(* Where nothing is mistaken for a heading, lines are read as what they are.*)
InSection ==
  main = "parse" /\ Plain(current) =>
    /\ \A s \in Sections : In(Now, At, s) => whichUpdate = s
    /\ description = IF At <= Start(Now, 4) THEN <<>>
                     ELSE SubSeq(Now.description, 1, At - Start(Now, 4))

(* The names of statistics that have been read of event i.                  *)
NamesRead(u, i, s) ==
  IF current = u /\ i = Len(told[u])
  THEN KeysTo(Now, s, At)
  ELSE DOMAIN told[u][i].updates[s]

GameOf(u) == IF current = u /\ newGame # NULL THEN newGame ELSE gameToEvents[u]

(* Where the names read of each event are names[i], a statistic has what    *)
(* the last of them says.                                                   *)
LastSaid(stats, s, events, names) ==
  /\ \A i \in 1 .. Len(events) : \A name \in names[i] : Squeeze[name] \in DOMAIN stats
  /\ \A k \in DOMAIN stats :
       \E i \in 1 .. Len(events) : \E name \in names[i] :
         /\ Squeeze[name] = k
         /\ stats[k] = Squeeze[events[i].updates[s][name]]
         /\ \A j \in 1 .. Len(events) : \A other \in names[j] :
              Squeeze[other] = k => j < i \/ (j = i /\ other <= name)

AllNames(u, s) == [i \in 1 .. Len(told[u]) |-> NamesRead(u, i, s)]

StatsRead ==
  \A u \in Users : Plain(u) /\ GameOf(u) # NULL =>
    \A s \in Stats : LastSaid(GameOf(u).stats[s], s, told[u], AllNames(u, s))

(* The first n events are listed, the first of each time.                   *)
Listed(list, events, n) ==
  /\ DOMAIN list = {events[i].time : i \in 1 .. n}
  /\ \A i \in 1 .. n :
       (\A j \in 1 .. i - 1 : events[j].time # events[i].time)
       => list[events[i].time] = [name |-> events[i].name, description |-> events[i].description]

EventsRead ==
  \A u \in Users : Plain(u) /\ GameOf(u) # NULL => Listed(GameOf(u).events, told[u], Done(u))

GameInv == GameTypes /\ InBody /\ InSection /\ StatsRead /\ EventsRead

Keys == Texts \cup Times
Summaries ==
  [of : Users, at : Sections, past : SUBSET Keys,
   file : [Sections -> Maps(Keys, Texts \cup Stored)], since : Nat]

SummaryTypes ==
  \/ keyboard = "idle"
  \/ /\ keyboard \in {"copy", "written"}
     /\ summary \in Summaries
     /\ gameToEvents[summary.of] # NULL /\ summary.since <= Done(summary.of)
     /\ keyboard = "written" => summary.at = 4

(* Of what was there before, nothing that the loops have passed is missing. *)
Passed(s, k) ==
  \/ summary.at < s
  \/ k \in DOMAIN summary.file[s]
  \/ keyboard = "copy" /\ summary.at = s /\ \A j \in summary.past : j < k

SummaryHas ==
  keyboard # "idle" /\ Plain(summary.of) =>
    LET events == told[summary.of]
        before == 1 .. summary.since
    IN  /\ \A s \in Stats, i \in before : \A name \in DOMAIN events[i].updates[s] :
             Passed(s, Squeeze[name])
        /\ \A i \in before : Passed(4, events[i].time)
        /\ \A s \in Stats : \A k \in DOMAIN summary.file[s] :
             \E i \in 1 .. Len(events) :
               /\ \E name \in DOMAIN events[i].updates[s] :
                    Squeeze[name] = k /\ Squeeze[events[i].updates[s][name]] = summary.file[s][k]
               /\ \A j \in before : Mentions(events[j], s, k) => j <= i

-----------------------------------------------------------------------------
(* Bodies                                                                   *)

(* The place of a key among those of a map says how many are before it.     *)
LEMMA Ranks ==
  ASSUME NEW S \in SUBSET Nat, IsFiniteSet(S),
         NEW rank, rank = [k \in S |-> Cardinality({j \in S : j < k})]
  PROVE  /\ Cardinality(S) \in Nat
         /\ rank \in [S -> 0 .. Cardinality(S) - 1]
         /\ \A j, k \in S : j < k => rank[j] < rank[k]
         /\ \A i \in 0 .. Cardinality(S) - 1 : \E k \in S : rank[k] = i
<1> DEFINE n == Cardinality(S)
           below(k) == {j \in S : j < k}
<1>1. n \in Nat
  BY FS_CardinalityType
<1>2. ASSUME NEW k \in S
      PROVE  IsFiniteSet(below(k)) /\ Cardinality(below(k)) \in Nat /\ Cardinality(below(k)) < n
  <2>1. IsFiniteSet(below(k)) /\ Cardinality(below(k)) <= n /\ (Cardinality(below(k)) = n => S = below(k))
    BY FS_Subset
  <2>2. k \notin below(k)
    OBVIOUS
  <2>3. Cardinality(below(k)) \in Nat
    BY <2>1, FS_CardinalityType
  <2> QED BY <1>1, <2>1, <2>2, <2>3
<1>3. rank \in [S -> 0 .. n - 1]
  BY <1>1, <1>2
<1>4. ASSUME NEW j \in S, NEW k \in S, j < k PROVE rank[j] < rank[k]
  <2>1. below(j) \in SUBSET below(k) /\ j \in below(k) /\ j \notin below(j)
    <3>1. \A i \in S : i < j => i < k
      BY <1>4
    <3>2. below(j) \subseteq below(k)
      BY <3>1, Zenon
    <3>3. ~(j < j)
      OBVIOUS
    <3> QED BY <1>4, <3>2, <3>3
  <2>2. Cardinality(below(j)) <= Cardinality(below(k))
        /\ (Cardinality(below(j)) = Cardinality(below(k)) => below(k) = below(j))
    BY <1>2, <2>1, FS_Subset
  <2>3. Cardinality(below(j)) < Cardinality(below(k))
    BY <1>2, <2>1, <2>2
  <2> QED BY <2>3
<1>5. \A i \in 0 .. n - 1 : \E k \in S : rank[k] = i
  <2>1. IsFiniteSet(0 .. n - 1) /\ Cardinality(0 .. n - 1) = n
    BY <1>1, FS_Interval
  <2>2. rank \in Injection(S, 0 .. n - 1)
    <3>1. \A j, k \in S : rank[j] = rank[k] => j = k
      BY <1>3, <1>4
    <3> QED BY <1>3, <3>1 DEF Injection, IsInjective
  <2>3. rank \in Surjection(S, 0 .. n - 1)
    BY <2>1, <2>2, FS_Injection
  <2> QED BY <2>3 DEF Surjection
<1> QED BY <1>1, <1>3, <1>4, <1>5

(* A std::map is gone through in the order of its keys, each once.          *)
LEMMA OrderedKeys ==
  ASSUME NEW S \in SUBSET Nat, IsFiniteSet(S)
  PROVE  /\ Cardinality(S) \in Nat
         /\ Ordered(S) \in [1 .. Cardinality(S) -> S]
         /\ \A i, j \in 1 .. Cardinality(S) : i < j => Ordered(S)[i] < Ordered(S)[j]
         /\ \A k \in S : \E i \in 1 .. Cardinality(S) : Ordered(S)[i] = k
<1> DEFINE n == Cardinality(S)
           rank == [k \in S |-> Cardinality({j \in S : j < k})]
<1>1. n \in Nat /\ rank \in [S -> 0 .. n - 1]
      /\ (\A j, k \in S : j < k => rank[j] < rank[k])
      /\ \A i \in 0 .. n - 1 : \E k \in S : rank[k] = i
  BY Ranks
<1>2. ASSUME NEW i \in 1 .. n PROVE Ordered(S)[i] \in S /\ rank[Ordered(S)[i]] = i - 1
  <2>1. Ordered(S)[i] = CHOOSE k \in S : Cardinality({j \in S : j < k}) = i - 1
    BY DEF Ordered
  <2>2. i - 1 \in 0 .. n - 1
    BY <1>1
  <2>3. \E k \in S : Cardinality({j \in S : j < k}) = i - 1
    BY <1>1, <2>2
  <2> QED BY <2>1, <2>3
<1>3. \A j, k \in S : rank[j] = rank[k] => j = k
  BY <1>1
<1>4. Ordered(S) \in [1 .. n -> S]
  BY <1>2 DEF Ordered
<1>5. ASSUME NEW i \in 1 .. n, NEW j \in 1 .. n, i < j PROVE Ordered(S)[i] < Ordered(S)[j]
  <2> DEFINE k == Ordered(S)[i]  l == Ordered(S)[j]
  <2>1. k \in S /\ l \in S /\ rank[k] = i - 1 /\ rank[l] = j - 1
    BY <1>2
  <2>2. rank[k] \in Nat /\ rank[l] \in Nat /\ rank[k] < rank[l]
    BY <1>1, <1>5, <2>1
  <2> HIDE DEF rank, k, l
  <2>3. ~(l < k) /\ k # l
    BY <1>1, <2>1, <2>2
  <2>4. k < l
    BY <2>1, <2>3
  <2> QED BY <2>4 DEF k, l
<1>6. ASSUME NEW k \in S PROVE \E i \in 1 .. n : Ordered(S)[i] = k
  <2>1. rank[k] \in 0 .. n - 1 /\ rank[k] + 1 \in 1 .. n
    BY <1>1
  <2>2. Ordered(S)[rank[k] + 1] \in S /\ rank[Ordered(S)[rank[k] + 1]] = rank[k]
    BY <1>2, <2>1
  <2> QED BY <1>3, <2>1, <2>2
<1> QED BY <1>1, <1>4, <1>5, <1>6

-----------------------------------------------------------------------------
(* What there is in an event.                                               *)
LEMMA EventParts ==
  ASSUME NEW e \in Events
  PROVE  /\ e.time \in Times /\ e.name \in Names
         /\ e.description \in Seq(Texts) /\ Len(e.description) \in Nat \ {0}
         /\ \A s \in Stats :
              /\ DOMAIN e.updates[s] \in SUBSET Texts /\ IsFiniteSet(DOMAIN e.updates[s])
              /\ \A k \in DOMAIN e.updates[s] : e.updates[s][k] \in Texts
<1>1. e.time \in Times /\ e.description \in Seq(Texts) \ {<<>>}
      /\ e.updates \in [Stats -> Maps(Texts, Texts)]
      /\ \A s \in Stats : IsFiniteSet(DOMAIN e.updates[s])
  BY GameAssumption
<1>2. Len(e.description) \in Nat \ {0}
  BY <1>1, EmptySeq
<1>3. ASSUME NEW s \in Stats
      PROVE  /\ DOMAIN e.updates[s] \in SUBSET Texts
             /\ \A k \in DOMAIN e.updates[s] : e.updates[s][k] \in Texts
  BY <1>1 DEF Maps
<1> QED BY <1>1, <1>2, <1>3 DEF Names

(* The statistics of an event, in the order of their lines, and its         *)
(* sections.                                                                *)
LEMMA Sizes ==
  ASSUME NEW e \in Events
  PROVE  /\ \A s \in Stats :
              /\ Size(e, s) \in Nat
              /\ \A i \in 1 .. Size(e, s) : Key(e, s, i) \in DOMAIN e.updates[s]
              /\ \A i, j \in 1 .. Size(e, s) : i < j => Key(e, s, i) < Key(e, s, j)
              /\ \A k \in DOMAIN e.updates[s] : \E i \in 1 .. Size(e, s) : Key(e, s, i) = k
         /\ \A s \in Sections : Start(e, s) \in Nat
         /\ Last(e) \in Nat
<1>1. ASSUME NEW s \in Stats
      PROVE  /\ Size(e, s) \in Nat
             /\ \A i \in 1 .. Size(e, s) : Key(e, s, i) \in DOMAIN e.updates[s]
             /\ \A i, j \in 1 .. Size(e, s) : i < j => Key(e, s, i) < Key(e, s, j)
             /\ \A k \in DOMAIN e.updates[s] : \E i \in 1 .. Size(e, s) : Key(e, s, i) = k
  <2>1. DOMAIN e.updates[s] \in SUBSET Nat /\ IsFiniteSet(DOMAIN e.updates[s])
    BY EventParts, GameAssumption
  <2> QED BY <2>1, OrderedKeys DEF Size, Key
<1>2. Size(e, 1) \in Nat /\ Size(e, 2) \in Nat /\ Size(e, 3) \in Nat /\ Len(e.description) \in Nat
  BY <1>1, EventParts DEF Stats
<1>3. \A s \in Sections : Start(e, s) \in Nat
  BY <1>2 DEF Start
<1>4. Last(e) \in Nat
  BY <1>2, <1>3 DEF Last, Sections
<1> QED BY <1>1, <1>3, <1>4

(* Lines are lines, whatever they say.                                      *)
LEMMA LineTypes ==
  ASSUME NEW e \in Events
  PROVE  /\ \A u \in Users : UserLine(u) \in Item
         /\ NameLine(e.name) \in Item /\ TimeLine(e.time) \in Item
         /\ \A s \in Sections : HeadLine(s) \in Item
         /\ \A k, v \in Texts : StatLine(k, v) \in Item
         /\ \A t \in Texts : TextLine(t) \in Item
<1>1. /\ \A u \in Users : UserLine(u) \in Item
      /\ NameLine(e.name) \in Item /\ TimeLine(e.time) \in Item
      /\ \A s \in Sections : HeadLine(s) \in Item
  BY EventParts DEF UserLine, NameLine, TimeLine, HeadLine, Line, Item, Names, Fields, Sections
<1>2. ASSUME NEW t \in Texts PROVE TextLine(t) \in Item
  BY GameAssumption DEF TextLine, Line, Item, Fields
<1>3. ASSUME NEW k \in Texts, NEW v \in Texts PROVE StatLine(k, v) \in Item
  <2> DEFINE seen == {Heading[k], Heading[v]} \ {0}
             heading == IF seen = {} THEN 0 ELSE Least(seen)
  <2>1. Heading[k] \in 0 .. 4 /\ Heading[v] \in 0 .. 4
    BY GameAssumption
  <2>2. seen # {} => \E x \in seen : \A y \in seen : x <= y
    BY <2>1
  <2>3. seen # {} => Least(seen) \in seen
    BY <2>2 DEF Least
  <2>4. heading \in 0 .. 4
    BY <2>1, <2>3
  <2>5. StatLine(k, v) = Line("stat", heading, k, v)
    BY DEF StatLine
  <2> HIDE DEF heading
  <2> QED BY <2>4, <2>5 DEF Line, Item, Fields
<1> QED BY <1>1, <1>2, <1>3

(* The lines of the statistics of one section.                              *)
LEMMA StatLinesAre ==
  ASSUME NEW e \in Events, NEW s \in Stats
  PROVE  /\ StatLines(e.updates[s]) \in Seq(Item)
         /\ Len(StatLines(e.updates[s])) = Size(e, s)
         /\ \A i \in 1 .. Size(e, s) :
              StatLines(e.updates[s])[i] = StatLine(Key(e, s, i), e.updates[s][Key(e, s, i)])
<1> DEFINE n == Size(e, s)
           line(i) == StatLine(Key(e, s, i), e.updates[s][Key(e, s, i)])
           built == [i \in 1 .. n |-> line(i)]
<1>1. n \in Nat /\ \A i \in 1 .. n : line(i) \in Item
  BY Sizes, EventParts, LineTypes
<1>2. Len(Ordered(DOMAIN e.updates[s])) = n
  <2>1. DOMAIN e.updates[s] \in SUBSET Nat /\ IsFiniteSet(DOMAIN e.updates[s])
    BY EventParts, GameAssumption
  <2>2. Ordered(DOMAIN e.updates[s]) \in [1 .. n -> DOMAIN e.updates[s]]
    BY <2>1, OrderedKeys DEF Size
  <2>3. Ordered(DOMAIN e.updates[s]) \in Seq(DOMAIN e.updates[s])
    BY <1>1, <2>2
  <2> QED BY <1>1, <2>2, <2>3, LenProperties
<1>3. StatLines(e.updates[s]) = built
  BY <1>2 DEF StatLines, Key
<1>4. built \in [1 .. n -> Item]
  BY <1>1
<1>5. built \in Seq(Item) /\ Len(built) = n
  BY <1>1, <1>4
<1> QED BY <1>3, <1>5

(* The lines of the description.                                            *)
LEMMA TextLinesAre ==
  ASSUME NEW e \in Events
  PROVE  /\ TextLines(e.description) \in Seq(Item)
         /\ Len(TextLines(e.description)) = Len(e.description)
         /\ \A i \in 1 .. Len(e.description) :
              TextLines(e.description)[i] = TextLine(e.description[i])
<1> DEFINE n == Len(e.description)
           built == [i \in 1 .. n |-> TextLine(e.description[i])]
<1>1. n \in Nat /\ \A i \in 1 .. n : TextLine(e.description[i]) \in Item
  BY EventParts, LineTypes, LenProperties
<1>2. TextLines(e.description) = built
  BY DEF TextLines
<1>3. built \in [1 .. n -> Item]
  BY <1>1
<1>4. built \in Seq(Item) /\ Len(built) = n
  BY <1>1, <1>3
<1> QED BY <1>2, <1>4

-----------------------------------------------------------------------------
(* Where each line of a body stands.                                        *)
BodyHas(body, u, e) ==
  /\ body \in Seq(Item) /\ Len(body) = Last(e)
  /\ body[1] = UserLine(u) /\ body[2] = NameLine(e.name) /\ body[3] = TimeLine(e.time)
  /\ \A s \in Sections : body[Start(e, s)] = HeadLine(s)
  /\ \A s \in Stats : \A i \in 1 .. Size(e, s) :
       body[Start(e, s) + i] = StatLine(Key(e, s, i), e.updates[s][Key(e, s, i)])
  /\ \A i \in 1 .. Len(e.description) : body[Start(e, 4) + i] = TextLine(e.description[i])

(* A heading and the lines under it, after what comes before.               *)
AddSection(before, head, under) == before \o <<head>> \o under

Added(all, before, head, under) ==
  /\ all \in Seq(Item) /\ Len(all) = Len(before) + 1 + Len(under)
  /\ Len(before) \in Nat /\ Len(under) \in Nat
  /\ \A i \in 1 .. Len(before) : all[i] = before[i]
  /\ all[Len(before) + 1] = head
  /\ \A i \in 1 .. Len(under) : all[Len(before) + 1 + i] = under[i]

(* A heading and lines after others: nothing that was there moves.          *)
LEMMA AddSectionIs ==
  ASSUME NEW before \in Seq(Item), NEW head \in Item, NEW under \in Seq(Item)
  PROVE  Added(AddSection(before, head, under), before, head, under)
<1> DEFINE first == before \o <<head>>
           all == first \o under
<1>1. <<head>> \in Seq(Item) /\ Len(<<head>>) = 1 /\ <<head>>[1] = head
  OBVIOUS
<1>2. Len(before) \in Nat /\ Len(under) \in Nat
  BY LenProperties
<1>0. \A a, b \in Seq(Item) :
        /\ a \o b \in Seq(Item) /\ Len(a \o b) = Len(a) + Len(b)
        /\ \A i \in 1 .. Len(a) + Len(b) :
             (a \o b)[i] = IF i <= Len(a) THEN a[i] ELSE b[i - Len(a)]
  BY ConcatProperties
<1>3. /\ first \in Seq(Item) /\ Len(first) = Len(before) + 1
      /\ \A i \in 1 .. Len(before) + 1 :
           first[i] = IF i <= Len(before) THEN before[i] ELSE <<head>>[i - Len(before)]
  BY <1>1, ConcatProperties
<1>4. (\A i \in 1 .. Len(before) : first[i] = before[i]) /\ first[Len(before) + 1] = head
  <2>1. \A i \in 1 .. Len(before) : first[i] = before[i]
    BY <1>2, <1>3
  <2>2. first[Len(before) + 1] = <<head>>[Len(before) + 1 - Len(before)]
    BY <1>2, <1>3
  <2>3. Len(before) + 1 - Len(before) = 1
    BY <1>2
  <2> QED BY <1>1, <2>1, <2>2, <2>3
<1>5. AddSection(before, head, under) = all
  BY DEF AddSection
<1> HIDE DEF first
<1>6. /\ all \in Seq(Item) /\ Len(all) = Len(first) + Len(under)
      /\ \A i \in 1 .. Len(first) + Len(under) :
           all[i] = IF i <= Len(first) THEN first[i] ELSE under[i - Len(first)]
  BY ONLY <1>0, <1>3, before \in Seq(Item), under \in Seq(Item)
<1> HIDE DEF all
<1>7. \A i \in 1 .. Len(before) : all[i] = before[i]
  BY <1>2, <1>3, <1>4, <1>6
<1>8. all[Len(before) + 1] = head
  BY <1>2, <1>3, <1>4, <1>6
<1>9. ASSUME NEW i \in 1 .. Len(under) PROVE all[Len(before) + 1 + i] = under[i]
  <2>1. Len(before) + 1 + i \in 1 .. Len(first) + Len(under)
        /\ ~(Len(before) + 1 + i <= Len(first)) /\ (Len(before) + 1 + i) - Len(first) = i
    BY <1>2, <1>3
  <2> QED BY <1>6, <2>1
<1> QED BY <1>2, <1>3, <1>5, <1>6, <1>7, <1>8, <1>9 DEF Added

(* The body that a reporter sends has each line where BodyHas says.         *)
LEMMA BodyLines ==
  ASSUME NEW u \in Users, NEW e \in Events
  PROVE  BodyHas(Body[u][e], u, e)
<1> DEFINE top == <<UserLine(u), NameLine(e.name), TimeLine(e.time)>>
           one == AddSection(top, HeadLine(1), StatLines(e.updates[1]))
           two == AddSection(one, HeadLine(2), StatLines(e.updates[2]))
           three == AddSection(two, HeadLine(3), StatLines(e.updates[3]))
           four == AddSection(three, HeadLine(4), TextLines(e.description))
<1>0. Body[u][e] = four
  <2>1. Body[u][e] = <<UserLine(u), NameLine(e.name), TimeLine(e.time)>>
          \o <<HeadLine(1)>> \o StatLines(e.updates[1])
          \o <<HeadLine(2)>> \o StatLines(e.updates[2])
          \o <<HeadLine(3)>> \o StatLines(e.updates[3])
          \o <<HeadLine(4)>> \o TextLines(e.description)
    BY DEF Body
  <2> QED BY <2>1 DEF AddSection
<1>1. \A s \in Sections : HeadLine(s) \in Item
  BY LineTypes
<1>2. /\ top \in Seq(Item) /\ Len(top) = 3
      /\ top[1] = UserLine(u) /\ top[2] = NameLine(e.name) /\ top[3] = TimeLine(e.time)
  BY LineTypes
<1>3. \A s \in Stats :
        /\ StatLines(e.updates[s]) \in Seq(Item) /\ Len(StatLines(e.updates[s])) = Size(e, s)
        /\ Size(e, s) \in Nat
        /\ \A i \in 1 .. Size(e, s) :
             StatLines(e.updates[s])[i] = StatLine(Key(e, s, i), e.updates[s][Key(e, s, i)])
  BY StatLinesAre, Sizes
<1>4. 1 \in Stats /\ 2 \in Stats /\ 3 \in Stats
      /\ 1 \in Sections /\ 2 \in Sections /\ 3 \in Sections /\ 4 \in Sections
  BY DEF Stats, Sections
<1>5. /\ one \in Seq(Item) /\ Len(one) = 4 + Size(e, 1)
      /\ \A i \in 1 .. 3 : one[i] = top[i]
      /\ one[4] = HeadLine(1)
      /\ \A i \in 1 .. Size(e, 1) : one[4 + i] = StatLines(e.updates[1])[i]
  <2> DEFINE under == StatLines(e.updates[1])
  <2>3. HeadLine(1) \in Item /\ under \in Seq(Item) /\ top \in Seq(Item) /\ Len(under) = Size(e, 1)
    BY <1>1, <1>2, <1>3, <1>4
  <2>0. one = AddSection(top, HeadLine(1), under)
    OBVIOUS
  <2> HIDE DEF one, top, under
  <2>4. Added(one, top, HeadLine(1), under)
    BY <2>0, <2>3, AddSectionIs
  <2> QED BY <1>2, <2>3, <2>4 DEF under, Added
<1>6. /\ two \in Seq(Item) /\ Len(two) = 5 + Size(e, 1) + Size(e, 2)
      /\ \A i \in 1 .. 4 + Size(e, 1) : two[i] = one[i]
      /\ two[5 + Size(e, 1)] = HeadLine(2)
      /\ \A i \in 1 .. Size(e, 2) : two[5 + Size(e, 1) + i] = StatLines(e.updates[2])[i]
  <2> DEFINE under == StatLines(e.updates[2])
  <2>0. two = AddSection(one, HeadLine(2), under)
    OBVIOUS
  <2>3. HeadLine(2) \in Item /\ under \in Seq(Item) /\ one \in Seq(Item) /\ Len(under) = Size(e, 2)
    BY <1>1, <1>3, <1>4, <1>5
  <2> HIDE DEF two, one, under
  <2>4. Added(two, one, HeadLine(2), under)
    BY <2>0, <2>3, AddSectionIs
  <2>1. /\ two \in Seq(Item) /\ Len(two) = Len(one) + 1 + Size(e, 2)
        /\ \A i \in 1 .. Len(one) : two[i] = one[i]
        /\ two[Len(one) + 1] = HeadLine(2)
        /\ \A i \in 1 .. Size(e, 2) : two[Len(one) + 1 + i] = StatLines(e.updates[2])[i]
    BY <2>3, <2>4 DEF under, Added
  <2>2. Len(one) + 1 = 5 + Size(e, 1)
    BY <1>3, <1>4, <1>5
  <2> QED BY <1>5, <2>1, <2>2
<1>7. /\ three \in Seq(Item) /\ Len(three) = 6 + Size(e, 1) + Size(e, 2) + Size(e, 3)
      /\ \A i \in 1 .. 5 + Size(e, 1) + Size(e, 2) : three[i] = two[i]
      /\ three[6 + Size(e, 1) + Size(e, 2)] = HeadLine(3)
      /\ \A i \in 1 .. Size(e, 3) : three[6 + Size(e, 1) + Size(e, 2) + i] = StatLines(e.updates[3])[i]
  <2> DEFINE under == StatLines(e.updates[3])
  <2>0. three = AddSection(two, HeadLine(3), under)
    OBVIOUS
  <2>3. HeadLine(3) \in Item /\ under \in Seq(Item) /\ two \in Seq(Item) /\ Len(under) = Size(e, 3)
    BY <1>1, <1>3, <1>4, <1>6
  <2> HIDE DEF three, two, under
  <2>4. Added(three, two, HeadLine(3), under)
    BY <2>0, <2>3, AddSectionIs
  <2>1. /\ three \in Seq(Item) /\ Len(three) = Len(two) + 1 + Size(e, 3)
        /\ \A i \in 1 .. Len(two) : three[i] = two[i]
        /\ three[Len(two) + 1] = HeadLine(3)
        /\ \A i \in 1 .. Size(e, 3) : three[Len(two) + 1 + i] = StatLines(e.updates[3])[i]
    BY <2>3, <2>4 DEF under, Added
  <2>2. Len(two) + 1 = 6 + Size(e, 1) + Size(e, 2)
    BY <1>3, <1>4, <1>6
  <2> QED BY <1>6, <2>1, <2>2
<1>8. /\ four \in Seq(Item)
      /\ Len(four) = 7 + Size(e, 1) + Size(e, 2) + Size(e, 3) + Len(e.description)
      /\ \A i \in 1 .. 6 + Size(e, 1) + Size(e, 2) + Size(e, 3) : four[i] = three[i]
      /\ four[7 + Size(e, 1) + Size(e, 2) + Size(e, 3)] = HeadLine(4)
      /\ \A i \in 1 .. Len(e.description) :
           four[7 + Size(e, 1) + Size(e, 2) + Size(e, 3) + i] = TextLine(e.description[i])
  <2> DEFINE under == TextLines(e.description)
  <2>3. four = AddSection(three, HeadLine(4), under)
    OBVIOUS
  <2>0. TextLines(e.description) \in Seq(Item) /\ Len(TextLines(e.description)) = Len(e.description)
        /\ \A i \in 1 .. Len(e.description) :
             TextLines(e.description)[i] = TextLine(e.description[i])
    BY TextLinesAre
  <2>5. HeadLine(4) \in Item
    BY <1>1, <1>4
  <2> HIDE DEF three, four, under
  <2>6. under \in Seq(Item) /\ three \in Seq(Item)
    BY <1>7, <2>0 DEF under
  <2>4. Added(four, three, HeadLine(4), under)
    BY <2>3, <2>5, <2>6, AddSectionIs
  <2>1. /\ four \in Seq(Item) /\ Len(four) = Len(three) + 1 + Len(e.description)
        /\ \A i \in 1 .. Len(three) : four[i] = three[i]
        /\ four[Len(three) + 1] = HeadLine(4)
        /\ \A i \in 1 .. Len(e.description) : four[Len(three) + 1 + i] = TextLines(e.description)[i]
    BY <2>0, <2>4 DEF under, Added
  <2>2. Len(three) + 1 = 7 + Size(e, 1) + Size(e, 2) + Size(e, 3)
    BY <1>3, <1>4, <1>7
  <2> QED BY <1>7, <2>0, <2>1, <2>2
<1> HIDE DEF top, one, two, three, four
<1>9. Size(e, 1) \in Nat /\ Size(e, 2) \in Nat /\ Size(e, 3) \in Nat
  BY <1>3, <1>4
<1>10. Start(e, 1) = 4 /\ Start(e, 2) = 5 + Size(e, 1)
       /\ Start(e, 3) = 6 + Size(e, 1) + Size(e, 2)
       /\ Start(e, 4) = 7 + Size(e, 1) + Size(e, 2) + Size(e, 3)
  BY DEF Start
<1>11. \A i \in 1 .. 6 + Size(e, 1) + Size(e, 2) : four[i] = three[i]
  BY <1>8, <1>9
<1>12. \A i \in 1 .. 5 + Size(e, 1) + Size(e, 2) : four[i] = two[i]
  BY <1>7, <1>9, <1>11
<1>13. \A i \in 1 .. 4 + Size(e, 1) : four[i] = one[i]
  BY <1>6, <1>9, <1>12
<1>14. four[1] = UserLine(u) /\ four[2] = NameLine(e.name) /\ four[3] = TimeLine(e.time)
  BY <1>2, <1>5, <1>9, <1>13
<1>15. \A s \in Sections : four[Start(e, s)] = HeadLine(s)
  <2>1. four[4] = HeadLine(1)
    BY <1>5, <1>9, <1>13
  <2>2. four[5 + Size(e, 1)] = HeadLine(2)
    BY <1>6, <1>9, <1>12
  <2>3. four[6 + Size(e, 1) + Size(e, 2)] = HeadLine(3)
    BY <1>7, <1>9, <1>11
  <2> QED BY <1>8, <1>10, <2>1, <2>2, <2>3 DEF Sections
<1>16. ASSUME NEW s \in Stats, NEW i \in 1 .. Size(e, s)
       PROVE  four[Start(e, s) + i] = StatLines(e.updates[s])[i]
  <2>1. CASE s = 1
    <3>1. 4 + i \in 1 .. 4 + Size(e, 1)
      BY <1>9, <2>1
    <3> QED BY <1>5, <1>10, <1>13, <2>1, <3>1
  <2>2. CASE s = 2
    <3>1. 5 + Size(e, 1) + i \in 1 .. 5 + Size(e, 1) + Size(e, 2)
      BY <1>9, <2>2
    <3> QED BY <1>6, <1>10, <1>12, <2>2, <3>1
  <2>3. CASE s = 3
    <3>1. 6 + Size(e, 1) + Size(e, 2) + i \in 1 .. 6 + Size(e, 1) + Size(e, 2) + Size(e, 3)
      BY <1>9, <2>3
    <3> QED BY <1>7, <1>8, <1>10, <2>3, <3>1
  <2> QED BY <2>1, <2>2, <2>3 DEF Stats
<1>17. Len(four) = Last(e)
  BY <1>8, <1>10 DEF Last
<1> QED BY <1>0, <1>3, <1>8, <1>10, <1>14, <1>15, <1>16, <1>17 DEF BodyHas

-----------------------------------------------------------------------------
(* Games                                                                    *)

(* What it is to be a map from some of D into R.                            *)
LEMMA MapsAre ==
  ASSUME NEW D, NEW R, NEW m
  PROVE  m \in Maps(D, R) <=> DOMAIN m \in SUBSET D /\ m \in [DOMAIN m -> R]
<1>1. ASSUME m \in Maps(D, R) PROVE DOMAIN m \in SUBSET D /\ m \in [DOMAIN m -> R]
  <2>1. PICK S \in SUBSET D : m \in [S -> R]
    BY <1>1 DEF Maps
  <2>2. DOMAIN m = S
    BY <2>1
  <2> QED BY <2>1, <2>2
<1>2. ASSUME DOMAIN m \in SUBSET D, m \in [DOMAIN m -> R] PROVE m \in Maps(D, R)
  BY <1>2 DEF Maps
<1> QED BY <1>1, <1>2

(* operator[] puts one entry, new or not, and leaves the others.            *)
LEMMA AssignIs ==
  ASSUME NEW D, NEW R, NEW m \in Maps(D, R), NEW k \in D, NEW v \in R
  PROVE  /\ Assign(m, k, v) \in Maps(D, R)
         /\ DOMAIN Assign(m, k, v) = DOMAIN m \cup {k}
         /\ \A x \in DOMAIN m \cup {k} : Assign(m, k, v)[x] = IF x = k THEN v ELSE m[x]
<1>1. DOMAIN m \in SUBSET D /\ m \in [DOMAIN m -> R]
  BY MapsAre
<1>2. DOMAIN Assign(m, k, v) = DOMAIN m \cup {k}
      /\ \A x \in DOMAIN m \cup {k} : Assign(m, k, v)[x] = IF x = k THEN v ELSE m[x]
  BY DEF Assign
<1>3. Assign(m, k, v) \in [DOMAIN m \cup {k} -> R]
  BY <1>1 DEF Assign
<1>4. Assign(m, k, v) \in [DOMAIN Assign(m, k, v) -> R]
  BY <1>2, <1>3
<1>5. DOMAIN Assign(m, k, v) \in SUBSET D
  BY <1>1, <1>2
<1> QED BY <1>2, <1>4, <1>5, MapsAre

(* insert puts a new entry, and leaves the others and an old one.           *)
LEMMA InsertIs ==
  ASSUME NEW D, NEW R, NEW m \in Maps(D, R), NEW k \in D, NEW v \in R
  PROVE  /\ Insert(m, k, v) \in Maps(D, R)
         /\ DOMAIN Insert(m, k, v) = DOMAIN m \cup {k}
         /\ \A x \in DOMAIN m : Insert(m, k, v)[x] = m[x]
         /\ k \notin DOMAIN m => Insert(m, k, v)[k] = v
<1>1. CASE k \in DOMAIN m
  BY <1>1 DEF Insert
<1>2. CASE k \notin DOMAIN m
  <2>1. Insert(m, k, v) = Assign(m, k, v)
    BY <1>2 DEF Insert
  <2>2. /\ Assign(m, k, v) \in Maps(D, R)
        /\ DOMAIN Assign(m, k, v) = DOMAIN m \cup {k}
        /\ \A x \in DOMAIN m \cup {k} : Assign(m, k, v)[x] = IF x = k THEN v ELSE m[x]
    BY AssignIs
  <2> QED BY <1>2, <2>1, <2>2
<1> QED BY <1>1, <1>2

(* A new Game is a Game.                                                    *)
LEMMA NewGameIs == NewGame \in Games
<1>1. \A D, R : EmptyMap \in Maps(D, R)
  <2> TAKE D, R
  <2>1. DOMAIN EmptyMap = {} /\ EmptyMap \in [DOMAIN EmptyMap -> R]
    BY DEF EmptyMap
  <2> QED BY <2>1, MapsAre
<1> QED BY <1>1 DEF NewGame, Games

WithStat(game, s, k, v) == [game EXCEPT !.stats[s] = Assign(@, k, v)]

(* A statistic of one section changes nothing else of a Game.               *)
LEMMA GameWithStat ==
  ASSUME NEW game \in Games, NEW s \in Stats, NEW k \in Texts, NEW v \in Texts,
         NEW after, after = WithStat(game, s, k, v)
  PROVE  /\ after \in Games /\ after.events = game.events
         /\ after.stats[s] = Assign(game.stats[s], k, v)
         /\ \A t \in Stats : t # s => after.stats[t] = game.stats[t]
<1>1. game.stats \in [Stats -> Maps(Texts, Texts)] /\ game.events \in Maps(Times, Stored)
  BY DEF Games
<1>2. Assign(game.stats[s], k, v) \in Maps(Texts, Texts)
  BY <1>1, AssignIs
<1>3. after = [stats |-> [game.stats EXCEPT ![s] = Assign(game.stats[s], k, v)], events |-> game.events]
  BY DEF Games, WithStat
<1> QED BY <1>1, <1>2, <1>3 DEF Games

WithEvent(game, t, event) == [game EXCEPT !.events = Insert(@, t, event)]

(* An event changes nothing of the statistics of a Game.                    *)
LEMMA GameWithEvent ==
  ASSUME NEW game \in Games, NEW t \in Times, NEW event \in Stored,
         NEW after, after = WithEvent(game, t, event)
  PROVE  /\ after \in Games /\ after.stats = game.stats
         /\ after.events = Insert(game.events, t, event)
<1>1. game.stats \in [Stats -> Maps(Texts, Texts)] /\ game.events \in Maps(Times, Stored)
  BY DEF Games
<1>2. Insert(game.events, t, event) \in Maps(Times, Stored)
  BY <1>1, InsertIs
<1>3. after = [stats |-> game.stats, events |-> Insert(game.events, t, event)]
  BY DEF Games, WithEvent
<1> QED BY <1>1, <1>2, <1>3 DEF Games

-----------------------------------------------------------------------------
(* Which line is the one at p.                                              *)
LineAt(line, e, p) ==
  \/ p \in 1 .. 3 /\ line.heading = 0
     /\ (line.field = "name" <=> p = 2) /\ (line.field = "time" <=> p = 3)
     /\ (p = 2 => line.value = e.name) /\ (p = 3 => line.value = e.time)
  \/ \E s \in Sections : p = Start(e, s) /\ line.heading = s
  \/ \E s \in Stats : \E i \in 1 .. Size(e, s) :
       /\ p = Start(e, s) + i /\ line.heading \in 0 .. 4
       /\ line.key = Key(e, s, i) /\ line.value = e.updates[s][Key(e, s, i)]
       /\ line.key \in Texts /\ line.value \in Texts
       /\ Heading[line.key] = 0 /\ Heading[line.value] = 0 => line.heading = 0
  \/ \E i \in 1 .. Len(e.description) :
       /\ p = Start(e, 4) + i
       /\ line.key = e.description[i] /\ line.value = e.description[i]
       /\ line.key \in Texts /\ line.heading = Heading[line.key]

(* How far the sections of a body are apart.                                *)
LEMMA Starts ==
  ASSUME NEW e \in Events
  PROVE  /\ Size(e, 1) \in Nat /\ Size(e, 2) \in Nat /\ Size(e, 3) \in Nat
         /\ Start(e, 1) = 4
         /\ Start(e, 2) = Start(e, 1) + Size(e, 1) + 1
         /\ Start(e, 3) = Start(e, 2) + Size(e, 2) + 1
         /\ Start(e, 4) = Start(e, 3) + Size(e, 3) + 1
         /\ Last(e) = Start(e, 4) + Len(e.description)
         /\ Len(e.description) \in Nat
<1>1. Size(e, 1) \in Nat /\ Size(e, 2) \in Nat /\ Size(e, 3) \in Nat
  BY Sizes DEF Stats
<1> QED BY <1>1, EventParts DEF Start, Last

(* Every line of a body is one of those that LineAt says.                   *)
LEMMA LinesAt ==
  ASSUME NEW u \in Users, NEW e \in Events, NEW p \in 1 .. Last(e)
  PROVE  LineAt(Body[u][e][p], e, p)
<1> DEFINE line == Body[u][e][p]
<1>1. BodyHas(Body[u][e], u, e)
  BY BodyLines
<1>2. \/ p \in 1 .. 3
      \/ \E s \in Sections : p = Start(e, s)
      \/ \E s \in Stats : \E i \in 1 .. Size(e, s) : p = Start(e, s) + i
      \/ \E i \in 1 .. Len(e.description) : p = Start(e, 4) + i
  <2>1. \/ p \in 1 .. 3
        \/ p = Start(e, 1) \/ p = Start(e, 2) \/ p = Start(e, 3) \/ p = Start(e, 4)
        \/ p - Start(e, 1) \in 1 .. Size(e, 1) \/ p - Start(e, 2) \in 1 .. Size(e, 2)
        \/ p - Start(e, 3) \in 1 .. Size(e, 3)
        \/ p - Start(e, 4) \in 1 .. Len(e.description)
    <3> DEFINE a == Start(e, 1)  b == Start(e, 2)  c == Start(e, 3)  d == Start(e, 4)
               k == Size(e, 1)  l == Size(e, 2)  m == Size(e, 3)  n == Len(e.description)
    <3>1. /\ k \in Nat /\ l \in Nat /\ m \in Nat /\ n \in Nat
          /\ a = 4 /\ b = a + k + 1 /\ c = b + l + 1 /\ d = c + m + 1
          /\ p \in Nat /\ 1 <= p /\ p <= d + n
      BY Starts
    <3> HIDE DEF a, b, c, d, k, l, m, n
    <3>2. \/ p \in 1 .. 3 \/ p = a \/ p = b \/ p = c \/ p = d
          \/ p - a \in 1 .. k \/ p - b \in 1 .. l \/ p - c \in 1 .. m \/ p - d \in 1 .. n
      BY <3>1
    <3> QED BY <3>2 DEF a, b, c, d, k, l, m, n
  <2>2. \A s \in Sections : Start(e, s) + (p - Start(e, s)) = p
    BY Sizes
  <2> QED BY <2>1, <2>2 DEF Sections, Stats
<1>3. CASE p \in 1 .. 3
  <2>1. Body[u][e][1] = UserLine(u) /\ Body[u][e][2] = NameLine(e.name)
        /\ Body[u][e][3] = TimeLine(e.time)
    BY <1>1 DEF BodyHas
  <2>2. CASE p = 1
    <3>1. line = UserLine(u)
      BY <2>1, <2>2
    <3> QED BY <2>2, <3>1 DEF LineAt, UserLine, Line
  <2>3. CASE p = 2
    <3>1. line = NameLine(e.name)
      BY <2>1, <2>3
    <3> QED BY <2>3, <3>1 DEF LineAt, NameLine, Line
  <2>4. CASE p = 3
    <3>1. line = TimeLine(e.time)
      BY <2>1, <2>4
    <3> QED BY <2>4, <3>1 DEF LineAt, TimeLine, Line
  <2> QED BY <1>3, <2>2, <2>3, <2>4
<1>4. ASSUME NEW s \in Sections, p = Start(e, s) PROVE LineAt(line, e, p)
  <2>1. line = HeadLine(s)
    BY <1>1, <1>4 DEF BodyHas
  <2> QED BY <1>4, <2>1 DEF LineAt, HeadLine, Line
<1>5. ASSUME NEW s \in Stats, NEW i \in 1 .. Size(e, s), p = Start(e, s) + i
      PROVE  LineAt(line, e, p)
  <2> DEFINE k == Key(e, s, i)
             v == e.updates[s][k]
             seen == {Heading[k], Heading[v]} \ {0}
             heading == IF seen = {} THEN 0 ELSE Least(seen)
  <2>1. k \in Texts /\ v \in Texts
    BY Sizes, EventParts
  <2>2. line = StatLine(k, v)
    BY <1>1, <1>5 DEF BodyHas
  <2>3. line.key = k /\ line.value = v /\ line.heading = heading
    BY <2>2 DEF StatLine, Line
  <2>4. StatLine(k, v) \in Item
    BY <2>1, LineTypes
  <2>5. line.heading \in 0 .. 4
    BY <2>2, <2>4 DEF Item
  <2>6. Heading[k] = 0 /\ Heading[v] = 0 => seen = {}
    OBVIOUS
  <2>7. Heading[k] = 0 /\ Heading[v] = 0 => line.heading = 0
    BY <2>3, <2>6
  <2> HIDE DEF k, v, line, heading
  <2>8. line.key = Key(e, s, i) /\ line.value = e.updates[s][Key(e, s, i)]
    BY <2>3 DEF k, v
  <2> QED BY <1>5, <2>1, <2>3, <2>5, <2>7, <2>8 DEF LineAt
<1>6. ASSUME NEW i \in 1 .. Len(e.description), p = Start(e, 4) + i
      PROVE  LineAt(line, e, p)
  <2>1. line = TextLine(e.description[i]) /\ e.description[i] \in Texts
    BY <1>1, <1>6, EventParts, LenProperties DEF BodyHas
  <2> QED BY <1>6, <2>1 DEF LineAt, TextLine, Line
<1> QED BY <1>2, <1>3, <1>4, <1>5, <1>6

-----------------------------------------------------------------------------
(* Sections and the names read in them                                      *)

(* A line is in one section, and in none before the first heading.          *)
LEMMA InOne ==
  ASSUME NEW e \in Events, NEW p \in Nat
  PROVE  /\ \A s, t \in Sections : In(e, p, s) /\ In(e, p, t) => s = t
         /\ p < 4 <=> \A s \in Sections : ~In(e, p, s)
         /\ \A s \in Sections : p = Start(e, s) => In(e, p, s)
         /\ \A s \in Stats : \A i \in 1 .. Size(e, s) :
              In(e, Start(e, s) + i, s) /\ In(e, Start(e, s) + i - 1, s)
         /\ \A i \in 0 .. Len(e.description) : In(e, Start(e, 4) + i, 4)
<1> DEFINE a == Start(e, 1)  b == Start(e, 2)  c == Start(e, 3)  d == Start(e, 4)
           k == Size(e, 1)  l == Size(e, 2)  m == Size(e, 3)  n == Len(e.description)
<1>1. /\ k \in Nat /\ l \in Nat /\ m \in Nat /\ n \in Nat
      /\ a = 4 /\ b = a + k + 1 /\ c = b + l + 1 /\ d = c + m + 1
  BY Starts
<1>2. \A q : /\ In(e, q, 1) <=> a <= q /\ q < b
             /\ In(e, q, 2) <=> b <= q /\ q < c
             /\ In(e, q, 3) <=> c <= q /\ q < d
             /\ In(e, q, 4) <=> d <= q
  BY DEF In
<1> HIDE DEF a, b, c, d, k, l, m, n
<1>3. \A s, t \in Sections : In(e, p, s) /\ In(e, p, t) => s = t
  BY <1>1, <1>2 DEF Sections
<1>4. p < 4 <=> \A s \in Sections : ~In(e, p, s)
  <2>1. p < 4 <=> ~In(e, p, 1) /\ ~In(e, p, 2) /\ ~In(e, p, 3) /\ ~In(e, p, 4)
    BY <1>1, <1>2
  <2> QED BY <2>1 DEF Sections
<1>5. \A s \in Sections : p = Start(e, s) => In(e, p, s)
  <2>1. In(e, a, 1) /\ In(e, b, 2) /\ In(e, c, 3) /\ In(e, d, 4)
    BY <1>1, <1>2
  <2> QED BY <2>1 DEF Sections, a, b, c, d
<1>6. ASSUME NEW s \in Stats, NEW i \in 1 .. Size(e, s)
      PROVE  In(e, Start(e, s) + i, s) /\ In(e, Start(e, s) + i - 1, s)
  <2>1. CASE s = 1
    <3>1. In(e, a + i, 1) /\ In(e, a + i - 1, 1)
      BY <1>1, <1>2, <2>1 DEF k
    <3> QED BY <2>1, <3>1 DEF a
  <2>2. CASE s = 2
    <3>1. In(e, b + i, 2) /\ In(e, b + i - 1, 2)
      BY <1>1, <1>2, <2>2 DEF l
    <3> QED BY <2>2, <3>1 DEF b
  <2>3. CASE s = 3
    <3>1. In(e, c + i, 3) /\ In(e, c + i - 1, 3)
      BY <1>1, <1>2, <2>3 DEF m
    <3> QED BY <2>3, <3>1 DEF c
  <2> QED BY <2>1, <2>2, <2>3 DEF Stats
<1>7. \A i \in 0 .. Len(e.description) : In(e, Start(e, 4) + i, 4)
  <2>1. \A i \in Nat : In(e, d + i, 4)
    BY <1>1, <1>2
  <2> QED BY <2>1, <1>1 DEF d, n
<1> QED BY <1>3, <1>4, <1>5, <1>6, <1>7

(* The names that a line adds to those read: its own, a later one than all  *)
(* before.                                                                  *)
LEMMA NamesTo ==
  ASSUME NEW e \in Events, NEW s \in Stats, NEW p \in Nat
  PROVE  /\ KeysTo(e, s, p) \subseteq DOMAIN e.updates[s]
         /\ KeysTo(e, s, 0) = {}
         /\ KeysTo(e, s, Last(e)) = DOMAIN e.updates[s]
         /\ \A i \in 1 .. Size(e, s) : p + 1 = Start(e, s) + i =>
              /\ KeysTo(e, s, p + 1) = KeysTo(e, s, p) \cup {Key(e, s, i)}
              /\ \A name \in KeysTo(e, s, p) : name < Key(e, s, i)
         /\ (\A i \in 1 .. Size(e, s) : p + 1 # Start(e, s) + i) =>
              KeysTo(e, s, p + 1) = KeysTo(e, s, p)
<1>0. /\ Size(e, 1) \in Nat /\ Size(e, 2) \in Nat /\ Size(e, 3) \in Nat
      /\ Start(e, 1) = 4
      /\ Start(e, 2) = Start(e, 1) + Size(e, 1) + 1
      /\ Start(e, 3) = Start(e, 2) + Size(e, 2) + 1
      /\ Start(e, 4) = Start(e, 3) + Size(e, 3) + 1
      /\ Last(e) = Start(e, 4) + Len(e.description)
      /\ Len(e.description) \in Nat
  BY Starts
<1>1. /\ Size(e, s) \in Nat /\ Start(e, s) \in Nat \ {0}
      /\ \A i \in 1 .. Size(e, s) : Key(e, s, i) \in DOMAIN e.updates[s]
      /\ \A i, j \in 1 .. Size(e, s) : i < j => Key(e, s, i) < Key(e, s, j)
      /\ \A k \in DOMAIN e.updates[s] : \E i \in 1 .. Size(e, s) : Key(e, s, i) = k
  <2>1. /\ Size(e, s) \in Nat
        /\ \A i \in 1 .. Size(e, s) : Key(e, s, i) \in DOMAIN e.updates[s]
        /\ \A i, j \in 1 .. Size(e, s) : i < j => Key(e, s, i) < Key(e, s, j)
        /\ \A k \in DOMAIN e.updates[s] : \E i \in 1 .. Size(e, s) : Key(e, s, i) = k
    BY Sizes
  <2>2. Start(e, s) \in Nat \ {0}
    BY <1>0 DEF Stats
  <2> QED BY <2>1, <2>2
<1>2. KeysTo(e, s, p) \subseteq DOMAIN e.updates[s]
  BY <1>1 DEF KeysTo
<1>3. KeysTo(e, s, 0) = {}
  BY <1>1 DEF KeysTo
<1>4. KeysTo(e, s, Last(e)) = DOMAIN e.updates[s]
  <2>1. \A i \in 1 .. Size(e, s) : Start(e, s) + i <= Last(e)
    <3>1. Start(e, s) + Size(e, s) <= Last(e) /\ Last(e) \in Nat
      BY <1>0 DEF Stats
    <3> QED BY <1>1, <3>1
  <2> QED BY <1>1, <2>1 DEF KeysTo
<1>5. ASSUME NEW i \in 1 .. Size(e, s), p + 1 = Start(e, s) + i
      PROVE  /\ KeysTo(e, s, p + 1) = KeysTo(e, s, p) \cup {Key(e, s, i)}
             /\ \A name \in KeysTo(e, s, p) : name < Key(e, s, i)
  <2>1. \A j \in 1 .. Size(e, s) : Start(e, s) + j <= p + 1 <=> Start(e, s) + j <= p \/ j = i
    BY <1>1, <1>5
  <2>2. \A j \in 1 .. Size(e, s) : Start(e, s) + j <= p => j < i
    BY <1>1, <1>5
  <2>3. KeysTo(e, s, p + 1) = KeysTo(e, s, p) \cup {Key(e, s, i)}
    BY <2>1, Zenon DEF KeysTo
  <2>4. \A name \in KeysTo(e, s, p) : name < Key(e, s, i)
    BY <1>1, <2>2 DEF KeysTo
  <2> QED BY <2>3, <2>4
<1>6. ASSUME \A i \in 1 .. Size(e, s) : p + 1 # Start(e, s) + i
      PROVE  KeysTo(e, s, p + 1) = KeysTo(e, s, p)
  <2>1. \A j \in 1 .. Size(e, s) : Start(e, s) + j <= p + 1 <=> Start(e, s) + j <= p
    BY <1>1, <1>6
  <2> QED BY <2>1 DEF KeysTo
<1> QED BY <1>2, <1>3, <1>4, <1>5, <1>6

-----------------------------------------------------------------------------
(* Steps of the main thread                                                 *)

(* parseFrame takes the next line of the body, whatever it does with it.    *)
LEMMA NextLine ==
  ASSUME GameTypes, InBody, ParseLine
  PROVE  /\ main = "parse" /\ current \in Users /\ told[current] # <<>>
         /\ Len(told[current]) \in 1 .. Len(told[current]) /\ Now \in Events
         /\ At \in Nat /\ At + 1 \in 1 .. Last(Now) /\ Last(Now) \in Nat
         /\ LineAt(Head(lines), Now, At + 1)
         /\ lines' = SubSeq(Body[current][Now], At + 2, Last(Now))
         /\ Now' = Now /\ At' = At + 1
         /\ main' = main /\ current' = current /\ told' = told
<1>1. main = "parse" /\ lines # <<>> /\ lines' = Tail(lines)
      /\ main' = main /\ current' = current /\ told' = told
  BY DEF ParseLine
<1>2. current \in Users /\ told[current] \in Seq(Events) /\ told[current] # <<>>
  BY <1>1 DEF GameTypes, InBody
<1>3. Len(told[current]) \in 1 .. Len(told[current]) /\ Now \in Events
  BY <1>2, EmptySeq, LenProperties DEF Now
<1>4. Now' = Now
  BY <1>1 DEF Now
<1> DEFINE e == Now  b == Body[current][Now]  a == At  z == Last(Now)
<1>5. a \in Nat /\ a <= z /\ z \in Nat /\ lines = SubSeq(b, a + 1, z)
  BY <1>1, <1>3, Sizes DEF InBody
<1>6. b \in Seq(Item) /\ Len(b) = z
  BY <1>2, <1>3, BodyLines DEF BodyHas
<1> HIDE DEF a, b, z, e
<1>7. a + 1 <= z
  <2>1. CASE a = z
    <3>1. SubSeq(b, a + 1, z) = <<>>
      BY <1>5, <2>1, SubSeqEmpty
    <3> QED BY <1>1, <1>5, <3>1
  <2> QED BY <1>5, <2>1
<1>8. Head(lines) = b[a + 1] /\ Tail(lines) = SubSeq(b, a + 2, z)
  <2>1. a + 1 \in 1 .. Len(b) /\ z \in (a + 1) .. Len(b) /\ (a + 1) + 1 = a + 2
    BY <1>5, <1>6, <1>7
  <2>2. Head(SubSeq(b, a + 1, z)) = b[a + 1] /\ Tail(SubSeq(b, a + 1, z)) = SubSeq(b, (a + 1) + 1, z)
    BY <1>6, <2>1, HeadTailOfSubSeq
  <2> QED BY <1>5, <2>1, <2>2
<1>9. Len(SubSeq(b, a + 2, z)) = z - (a + 1)
  <2>1. \A i \in a + 2 .. z : b[i] \in Item
    BY <1>5, <1>6, <1>7, LenProperties
  <2>2. Len(SubSeq(b, a + 2, z)) = IF a + 2 <= z THEN z - (a + 2) + 1 ELSE 0
    BY <1>5, <2>1, SubSeqProperties
  <2> QED BY <1>5, <1>7, <2>2
<1>10. At' = a + 1
  <2>1. Len(lines') = z - (a + 1)
    BY <1>1, <1>8, <1>9
  <2>2. At' = z - Len(lines')
    BY <1>4 DEF At, z
  <2> QED BY <1>5, <1>7, <2>1, <2>2
<1>11. LineAt(Head(lines), Now, At + 1)
  <2>1. a + 1 \in 1 .. Last(Now)
    BY <1>5, <1>7 DEF z
  <2>2. LineAt(Body[current][Now][a + 1], Now, a + 1)
    BY <1>2, <1>3, <2>1, LinesAt
  <2> QED BY <1>8, <2>2 DEF a, b
<1>12. lines' = SubSeq(Body[current][Now], At + 2, Last(Now))
  BY <1>1, <1>8 DEF a, b, z
<1>13. At \in Nat /\ At + 1 \in 1 .. Last(Now) /\ Last(Now) \in Nat
  BY <1>5, <1>7 DEF a, z
<1> QED BY <1>1, <1>2, <1>3, <1>4, <1>10, <1>11, <1>12, <1>13 DEF a

(* What is done to the Game of the reporter is done to no other.            *)
LEMMA ChangeIs ==
  ASSUME GameTypes, InBody, main = "parse", current' = current, NEW game \in Games, Change(game)
  PROVE  /\ gameToEvents' \in [Users -> Games \cup {NULL}] /\ newGame' \in Games \cup {NULL}
         /\ newGame' = NULL <=> newGame = NULL
         /\ \A u \in Users : gameToEvents'[u] = NULL <=> gameToEvents[u] = NULL
         /\ \A u \in Users : u # current => GameOf(u)' = GameOf(u)
         /\ GameOf(current)' = game
<1>1. current \in Users /\ game # NULL
  BY GameAssumption DEF GameTypes
<1>2. CASE newGame # NULL
  BY <1>1, <1>2 DEF Change, GameOf, GameTypes
<1>3. CASE newGame = NULL
  <2>1. gameToEvents[current] # NULL
    BY <1>1, <1>3 DEF GameTypes, InBody
  <2>2. newGame' = NULL /\ gameToEvents' = [gameToEvents EXCEPT ![current] = game]
    BY <1>3 DEF Change
  <2>3. gameToEvents \in [Users -> Games \cup {NULL}]
    BY DEF GameTypes
  <2> QED BY <1>1, <1>3, <2>1, <2>2, <2>3 DEF GameOf
<1> QED BY <1>2, <1>3

(* The Game that parseFrame works on is the one of the reporter.            *)
LEMMA TheGameIs ==
  ASSUME GameTypes, InBody, main = "parse"
  PROVE  TheGame \in Games /\ TheGame = GameOf(current) /\ TheGame # NULL
<1>1. current \in Users /\ told[current] # <<>>
  BY DEF GameTypes, InBody
<1>2. gameToEvents[current] = NULL => newGame # NULL
  BY <1>1 DEF GameTypes
<1> QED BY <1>1, <1>2, GameAssumption DEF TheGame, GameOf, GameTypes

(* A line by its place: a name, a time, a heading, or a key and a value.    *)
LEMMA LineParts ==
  ASSUME NEW e \in Events, NEW p \in Nat, NEW line, LineAt(line, e, p)
  PROVE  /\ line.heading \in 0 .. 4
         /\ p \in 1 .. 3 => /\ line.heading = 0
                            /\ (line.field = "name" <=> p = 2) /\ (line.field = "time" <=> p = 3)
                            /\ (p = 2 => line.value = e.name) /\ (p = 3 => line.value = e.time)
         /\ p = 4 => line.heading # 0
         /\ p >= 4 => line.heading # 0 \/ (line.key \in Texts /\ line.value \in Texts)
<1>1. ASSUME NEW s \in Sections PROVE Start(e, s) >= 4 /\ Start(e, s) \in Nat
  <2>1. /\ Start(e, 1) >= 4 /\ Start(e, 2) >= 4 /\ Start(e, 3) >= 4 /\ Start(e, 4) >= 4
        /\ Start(e, 1) \in Nat /\ Start(e, 2) \in Nat /\ Start(e, 3) \in Nat /\ Start(e, 4) \in Nat
    BY Starts
  <2> QED BY <2>1 DEF Sections
<1>2. CASE p \in 1 .. 3 /\ line.heading = 0
           /\ (line.field = "name" <=> p = 2) /\ (line.field = "time" <=> p = 3)
           /\ (p = 2 => line.value = e.name) /\ (p = 3 => line.value = e.time)
  BY <1>2
<1>3. ASSUME NEW s \in Sections, p = Start(e, s), line.heading = s
      PROVE  line.heading \in 1 .. 4 /\ p >= 4
  BY <1>1, <1>3 DEF Sections
<1>4. ASSUME NEW s \in Stats, NEW i \in 1 .. Size(e, s), p = Start(e, s) + i
      PROVE  p > 4
  BY <1>1, <1>4 DEF Sections, Stats
<1>5. ASSUME NEW i \in 1 .. Len(e.description), p = Start(e, 4) + i
      PROVE  p > 4
  BY <1>1, <1>5 DEF Sections
<1>6. \A t \in Texts : Heading[t] \in 0 .. 4
  BY GameAssumption
<1> QED BY <1>2, <1>3, <1>4, <1>5, <1>6 DEF LineAt

(* A line goes where it goes, whatever was mistaken for a heading.          *)
LEMMA LineKeepsTypes ==
  ASSUME GameTypes, InBody, ParseLine
  PROVE  GameTypes' /\ InBody'
<1> DEFINE line == Head(lines)  e == Now  p == At
<1>1. /\ main = "parse" /\ current \in Users /\ told[current] # <<>> /\ e \in Events
      /\ p \in Nat /\ p + 1 \in 1 .. Last(e) /\ Last(e) \in Nat
      /\ LineAt(line, e, p + 1)
      /\ lines' = SubSeq(Body[current][e], p + 2, Last(e))
      /\ Now' = e /\ At' = p + 1
      /\ main' = main /\ current' = current /\ told' = told
  BY NextLine
<1>2. ParseHeading(line) \/ ParseTop(line) \/ ParseStat(line) \/ ParseDescription(line)
  BY DEF ParseLine
<1>3. /\ whichUpdate \in 0 .. 4 /\ (whichUpdate = 0 <=> p < 4)
      /\ (p >= 2 => eventName = e.name) /\ (p >= 3 => eventTime = e.time)
      /\ eventName \in Names \cup {NULL} /\ eventTime \in Times \cup {NULL}
      /\ description \in Seq(Texts)
      /\ gameToEvents \in [Users -> Games \cup {NULL}] /\ newGame \in Games \cup {NULL}
  BY <1>1 DEF GameTypes, InBody
<1>4. e.name \in Names /\ e.time \in Times
  BY <1>1, EventParts
<1> HIDE DEF line, e, p
<1>5. /\ line.heading \in 0 .. 4
      /\ p + 1 \in 1 .. 3 =>
           /\ line.heading = 0
           /\ (line.field = "name" <=> p + 1 = 2) /\ (line.field = "time" <=> p + 1 = 3)
           /\ (p + 1 = 2 => line.value = e.name) /\ (p + 1 = 3 => line.value = e.time)
      /\ p + 1 = 4 => line.heading # 0
      /\ p + 1 >= 4 => line.heading # 0 \/ (line.key \in Texts /\ line.value \in Texts)
  <2>1. p + 1 \in Nat
    BY <1>1
  <2> QED BY ONLY <1>1, <2>1, LineParts
<1>6. /\ whichUpdate' \in 0 .. 4 /\ (whichUpdate' = 0 <=> p + 1 < 4)
      /\ (p + 1 >= 2 => eventName' = e.name) /\ (p + 1 >= 3 => eventTime' = e.time)
      /\ eventName' \in Names \cup {NULL} /\ eventTime' \in Times \cup {NULL}
      /\ description' \in Seq(Texts)
  <2>1. CASE ParseHeading(line)
    BY <1>1, <1>3, <1>5, <2>1 DEF ParseHeading
  <2>2. CASE ParseTop(line)
    BY <1>1, <1>3, <1>4, <1>5, <2>2 DEF ParseTop
  <2>3. CASE ParseStat(line)
    BY <1>1, <1>3, <1>5, <2>3 DEF ParseStat, Stats
  <2>4. CASE ParseDescription(line)
    <3>1. line.key \in Texts
      BY <1>1, <1>3, <1>5, <2>4 DEF ParseDescription
    <3>2. Append(description, line.key) \in Seq(Texts)
      BY <1>3, <3>1
    <3> QED BY <1>1, <1>3, <1>5, <2>4, <3>2 DEF ParseDescription
  <2> QED BY <1>2, <2>1, <2>2, <2>3, <2>4
<1>7. /\ gameToEvents' \in [Users -> Games \cup {NULL}] /\ newGame' \in Games \cup {NULL}
      /\ newGame' = NULL <=> newGame = NULL
      /\ \A u \in Users : gameToEvents'[u] = NULL <=> gameToEvents[u] = NULL
  <2>1. CASE UNCHANGED <<gameToEvents, newGame>>
    BY <1>3, <2>1
  <2>2. CASE ParseStat(line)
    <3>1. line.key \in Texts /\ line.value \in Texts /\ whichUpdate \in Stats
      BY <1>1, <1>3, <1>5, <2>2 DEF ParseStat, Stats
    <3>2. Squeeze[line.key] \in Texts /\ Squeeze[line.value] \in Texts
      BY <3>1, GameAssumption
    <3>3. TheGame \in Games
      BY <1>1, TheGameIs
    <3>4. WithStat(TheGame, whichUpdate, Squeeze[line.key], Squeeze[line.value]) \in Games
      BY <3>1, <3>2, <3>3, GameWithStat
    <3>5. PICK game \in Games : Change(game)
      BY <2>2, <3>4 DEF ParseStat, WithStat
    <3> QED BY <1>1, <3>5, ChangeIs
  <2> QED BY <1>2, <2>1, <2>2 DEF ParseHeading, ParseTop, ParseDescription
<1>8. GameTypes'
  <2>1. told' \in [Users -> Seq(Events)] /\ main' = "parse" /\ current' \in Users
    BY <1>1 DEF GameTypes
  <2>2. ASSUME NEW u \in Users
        PROVE  /\ gameToEvents'[u] = NULL <=>
                    told'[u] = <<>> \/ (current' = u /\ newGame' # NULL /\ Len(told'[u]) = 1)
               /\ current' = u /\ newGame' # NULL => gameToEvents'[u] = NULL
    BY <1>1, <1>7 DEF GameTypes
  <2> QED BY <1>6, <1>7, <2>1, <2>2 DEF GameTypes
<1>9. InBody'
  <2>1. At' \in 0 .. Last(Now') /\ At' + 1 = p + 2 /\ At' = p + 1
    BY <1>1
  <2>2. lines' = SubSeq(Body[current'][Now'], At' + 1, Last(Now'))
    BY <1>1, <2>1
  <2> QED BY <1>1, <1>6, <2>1, <2>2 DEF InBody
<1> QED BY <1>8, <1>9

(* Where no text makes a heading, each line goes where it belongs.          *)
LEMMA PlainLine ==
  ASSUME GameTypes, InBody, InSection, ParseLine, Plain(current)
  PROVE  \/ At + 1 \in 1 .. 3 /\ ParseTop(Head(lines))
         \/ \E s \in Sections :
              At + 1 = Start(Now, s) /\ Head(lines).heading = s /\ ParseHeading(Head(lines))
         \/ \E s \in Stats : \E i \in 1 .. Size(Now, s) :
              /\ At + 1 = Start(Now, s) + i /\ whichUpdate = s /\ ParseStat(Head(lines))
              /\ Head(lines).key = Key(Now, s, i)
              /\ Head(lines).value = Now.updates[s][Key(Now, s, i)]
         \/ \E i \in 1 .. Len(Now.description) :
              /\ At + 1 = Start(Now, 4) + i /\ ParseDescription(Head(lines))
              /\ Head(lines).key = Now.description[i]
<1> DEFINE line == Head(lines)  e == Now  p == At
<1>1. /\ main = "parse" /\ e \in Events /\ p \in Nat /\ LineAt(line, e, p + 1)
      /\ Len(told[current]) \in 1 .. Len(told[current])
  BY NextLine
<1>2. PlainEvent(e)
  BY <1>1 DEF Plain, Now
<1>3. (whichUpdate = 0 <=> p < 4) /\ \A s \in Sections : In(e, p, s) => whichUpdate = s
  BY <1>1 DEF InBody, InSection
<1>4. ParseHeading(line) \/ ParseTop(line) \/ ParseStat(line) \/ ParseDescription(line)
  BY DEF ParseLine
<1> HIDE DEF line, e, p
<1>5. CASE p + 1 \in 1 .. 3 /\ line.heading = 0
  <2>1. ParseTop(line)
    BY <1>1, <1>3, <1>4, <1>5 DEF ParseHeading, ParseStat, ParseDescription, Stats
  <2> QED BY <1>5, <2>1 DEF line, p
<1>6. ASSUME NEW s \in Sections, p + 1 = Start(e, s), line.heading = s
      PROVE  ParseHeading(line)
  BY <1>4, <1>6 DEF ParseTop, ParseStat, ParseDescription, Sections
<1>7. ASSUME NEW s \in Stats, NEW i \in 1 .. Size(e, s), p + 1 = Start(e, s) + i,
             line.key = Key(e, s, i), line.value = e.updates[s][Key(e, s, i)],
             Heading[line.key] = 0 /\ Heading[line.value] = 0 => line.heading = 0
      PROVE  whichUpdate = s /\ ParseStat(line)
  <2>1. Key(e, s, i) \in DOMAIN e.updates[s]
    BY <1>1, Sizes
  <2>2. line.heading = 0
    BY <1>2, <1>7, <2>1 DEF PlainEvent
  <2>3. In(e, Start(e, s) + i - 1, s) /\ s \in Sections
    BY <1>1, InOne DEF Stats, Sections
  <2>4. Start(e, s) + i - 1 = p
    <3>1. Start(e, s) \in Nat
      BY <1>1, <2>3, Sizes
    <3> QED BY <1>1, <1>7, <3>1
  <2>5. whichUpdate = s
    BY <1>3, <2>3, <2>4
  <2> QED BY <1>4, <2>2, <2>5 DEF ParseHeading, ParseTop, ParseDescription, Stats
<1>8. ASSUME NEW i \in 1 .. Len(e.description), p + 1 = Start(e, 4) + i,
             line.key = e.description[i], line.heading = Heading[line.key]
      PROVE  ParseDescription(line)
  <2>1. line.heading = 0
    BY <1>2, <1>8 DEF PlainEvent
  <2>2. Start(e, 4) \in Nat /\ Len(e.description) \in Nat
    BY <1>1, Sizes, EventParts DEF Sections
  <2>3. i - 1 \in 0 .. Len(e.description) /\ Start(e, 4) + (i - 1) = p
    <3>1. \A a, b, n \in Nat : \A j \in 1 .. n : a + 1 = b + j => j - 1 \in 0 .. n /\ b + (j - 1) = a
      OBVIOUS
    <3>2. p + 1 = Start(e, 4) + i /\ p \in Nat
      BY <1>1, <1>8
    <3> QED BY ONLY <2>2, <3>1, <3>2, i \in 1 .. Len(e.description)
  <2>4. In(e, p, 4)
    BY <1>1, <2>3, InOne
  <2>5. whichUpdate = 4
    BY <1>3, <2>4 DEF Sections
  <2> QED BY <1>4, <2>1, <2>5 DEF ParseHeading, ParseTop, ParseStat, Stats
<1>9. \/ p + 1 \in 1 .. 3 /\ line.heading = 0
      \/ \E s \in Sections : p + 1 = Start(e, s) /\ line.heading = s
      \/ \E s \in Stats : \E i \in 1 .. Size(e, s) :
           /\ p + 1 = Start(e, s) + i
           /\ line.key = Key(e, s, i) /\ line.value = e.updates[s][Key(e, s, i)]
           /\ Heading[line.key] = 0 /\ Heading[line.value] = 0 => line.heading = 0
      \/ \E i \in 1 .. Len(e.description) :
           p + 1 = Start(e, 4) + i /\ line.key = e.description[i] /\ line.heading = Heading[line.key]
  BY <1>1 DEF LineAt
<1>10. CASE \E s \in Sections : p + 1 = Start(e, s) /\ line.heading = s
  BY <1>6, <1>10 DEF line, p, e
<1>11. CASE \E s \in Stats : \E i \in 1 .. Size(e, s) :
           /\ p + 1 = Start(e, s) + i
           /\ line.key = Key(e, s, i) /\ line.value = e.updates[s][Key(e, s, i)]
           /\ Heading[line.key] = 0 /\ Heading[line.value] = 0 => line.heading = 0
  BY <1>7, <1>11 DEF line, p, e
<1>12. CASE \E i \in 1 .. Len(e.description) :
           p + 1 = Start(e, 4) + i /\ line.key = e.description[i] /\ line.heading = Heading[line.key]
  BY <1>8, <1>12 DEF line, p, e
<1> QED BY <1>5, <1>9, <1>10, <1>11, <1>12

(* A statistic changes one section of one Game.                             *)
LEMMA StatChanges ==
  ASSUME GameTypes, InBody, ParseLine, ParseStat(Head(lines))
  PROVE  /\ whichUpdate \in Stats
         /\ Squeeze[Head(lines).key] \in Texts /\ Squeeze[Head(lines).value] \in Texts
         /\ GameOf(current) \in Games /\ GameOf(current)' \in Games
         /\ GameOf(current)'.events = GameOf(current).events
         /\ GameOf(current)'.stats[whichUpdate] =
              Assign(GameOf(current).stats[whichUpdate],
                     Squeeze[Head(lines).key], Squeeze[Head(lines).value])
         /\ \A t \in Stats : t # whichUpdate =>
              GameOf(current)'.stats[t] = GameOf(current).stats[t]
         /\ \A u \in Users : u # current => GameOf(u)' = GameOf(u)
<1> DEFINE line == Head(lines)
           k == Squeeze[line.key]
           v == Squeeze[line.value]
           old == GameOf(current)
           new == WithStat(TheGame, whichUpdate, k, v)
<1>1. /\ main = "parse" /\ current \in Users /\ Now \in Events /\ At \in Nat
      /\ At + 1 \in 1 .. Last(Now) /\ LineAt(line, Now, At + 1) /\ current' = current
  BY NextLine
<1>2. whichUpdate \in Stats /\ line.heading = 0
  BY DEF ParseStat
<1>3. ~(At < 4)
  BY <1>1, <1>2 DEF InBody, Stats
<1>4. line.key \in Texts /\ line.value \in Texts
  <2>1. At + 1 \in Nat /\ At + 1 >= 4
    BY <1>1, <1>3
  <2>2. line.heading # 0 \/ (line.key \in Texts /\ line.value \in Texts)
    BY <1>1, <2>1, LineParts
  <2> QED BY <1>2, <2>2
<1>5. k \in Texts /\ v \in Texts
  BY <1>4, GameAssumption
<1>6. TheGame \in Games /\ old = TheGame
  BY <1>1, TheGameIs
<1>7. Change(new)
  BY DEF ParseStat, WithStat
<1>8. /\ new \in Games /\ new.events = TheGame.events
      /\ new.stats[whichUpdate] = Assign(TheGame.stats[whichUpdate], k, v)
      /\ \A t \in Stats : t # whichUpdate => new.stats[t] = TheGame.stats[t]
  BY <1>2, <1>5, <1>6, GameWithStat
<1>9. PICK game \in Games : game = new
  BY <1>8
<1> HIDE DEF new
<1>10. Change(game)
  BY <1>7, <1>9
<1>11. GameOf(current)' = game /\ \A u \in Users : u # current => GameOf(u)' = GameOf(u)
  BY <1>1, <1>10, ChangeIs
<1> QED BY <1>2, <1>5, <1>6, <1>8, <1>9, <1>11

(* A line that changes no Game changes none.                                *)
LEMMA SameGames ==
  ASSUME ParseLine, UNCHANGED <<gameToEvents, newGame>>
  PROVE  \A u \in Users : GameOf(u)' = GameOf(u)
  BY DEF ParseLine, GameOf

(* A line disturbs no events.                                               *)
LEMMA LineKeepsEvents ==
  ASSUME GameTypes, InBody, EventsRead, ParseLine
  PROVE  EventsRead'
<1>1. current \in Users /\ current' = current /\ told' = told /\ main = "parse"
  BY NextLine
<1>2. ASSUME NEW u \in Users, GameOf(u)' # NULL
      PROVE  GameOf(u) # NULL /\ GameOf(u)'.events = GameOf(u).events
  <2>1. CASE UNCHANGED <<gameToEvents, newGame>>
    BY <1>2, <2>1, SameGames
  <2>2. CASE ParseStat(Head(lines))
    <3>1. GameOf(current) # NULL
      BY <1>1, TheGameIs
    <3>2. GameOf(current)'.events = GameOf(current).events
          /\ \A w \in Users : w # current => GameOf(w)' = GameOf(w)
      BY <2>2, StatChanges
    <3>3. CASE u = current
      BY <1>1, <3>1, <3>2, <3>3
    <3>4. CASE u # current
      BY <1>2, <3>2, <3>4
    <3> QED BY <3>3, <3>4
  <2> QED BY <2>1, <2>2 DEF ParseLine, ParseHeading, ParseTop, ParseDescription
<1>3. \A u \in Users : (Plain(u)' <=> Plain(u)) /\ Done(u)' = Done(u)
  BY <1>1 DEF Plain, Done
<1> SUFFICES ASSUME NEW u \in Users, Plain(u)', GameOf(u)' # NULL
             PROVE  Listed(GameOf(u)'.events, told'[u], Done(u)')
  BY DEF EventsRead
<1> QED BY <1>1, <1>2, <1>3 DEF EventsRead

(* A prefix grows by the next of a sequence.                                *)
LEMMA PrefixGrows ==
  ASSUME NEW S, NEW d \in Seq(S), NEW i \in 1 .. Len(d)
  PROVE  Append(IF i = 1 THEN <<>> ELSE SubSeq(d, 1, i - 1), d[i]) = SubSeq(d, 1, i)
<1>1. Len(d) \in Nat /\ i \in Nat /\ 1 <= i /\ i <= Len(d)
  BY LenProperties
<1>2. SubSeq(d, 1, i) = SubSeq(d, 1, i - 1) \o <<d[i]>>
  BY <1>1, SubSeqRecursiveSecond
<1>3. CASE i = 1
  <2>1. SubSeq(d, 1, 0) = <<>>
    BY SubSeqEmpty
  <2>2. d[1] \in S
    BY <1>1, <1>3, LenProperties
  <2>3. Append(<<>>, d[1]) = <<>> \o <<d[1]>>
    BY <2>2, EmptySeq, AppendIsConcat
  <2> QED BY <1>2, <1>3, <2>1, <2>3
<1>4. CASE i # 1
  <2>1. SubSeq(d, 1, i - 1) \in Seq(S) /\ d[i] \in S
    <3>1. \A j \in 1 .. i - 1 : d[j] \in S
      BY <1>1, LenProperties
    <3> QED BY <1>1, <3>1, SubSeqProperties, LenProperties
  <2>2. Append(SubSeq(d, 1, i - 1), d[i]) = SubSeq(d, 1, i - 1) \o <<d[i]>>
    BY <2>1, AppendIsConcat
  <2> QED BY <1>2, <1>4, <2>2
<1> QED BY <1>3, <1>4

(* Statistics come before the description.                                  *)
LEMMA StatsBeforeText ==
  ASSUME NEW e \in Events, NEW s \in Stats, NEW i \in 1 .. Size(e, s)
  PROVE  Start(e, s) + i < Start(e, 4)
<1>1. /\ Size(e, 1) \in Nat /\ Size(e, 2) \in Nat /\ Size(e, 3) \in Nat
      /\ Start(e, 1) = 4
      /\ Start(e, 2) = Start(e, 1) + Size(e, 1) + 1
      /\ Start(e, 3) = Start(e, 2) + Size(e, 2) + 1
      /\ Start(e, 4) = Start(e, 3) + Size(e, 3) + 1
  BY Starts
<1> QED BY <1>1 DEF Stats

(* The section and the description, after one more line.                    *)
LEMMA LineKeepsSection ==
  ASSUME GameTypes, InBody, InSection, ParseLine
  PROVE  InSection'
<1> DEFINE e == Now  p == At  d == Now.description
<1>1. /\ main = "parse" /\ current \in Users /\ e \in Events /\ p \in Nat
      /\ Now' = e /\ At' = p + 1 /\ main' = main /\ current' = current /\ told' = told
  BY NextLine
<1>2. SUFFICES ASSUME Plain(current)
               PROVE  /\ \A s \in Sections : In(e, p + 1, s) => whichUpdate' = s
                      /\ description' = IF p + 1 <= Start(e, 4) THEN <<>>
                                        ELSE SubSeq(d, 1, (p + 1) - Start(e, 4))
  <2>1. Plain(current') => Plain(current)
    BY <1>1
  <2>2. Plain(current)' => Plain(current)
    BY <1>1 DEF Plain
  <2>3. /\ At' <= Start(Now', 4) <=> p + 1 <= Start(e, 4)
        /\ SubSeq(Now'.description, 1, At' - Start(Now', 4)) = SubSeq(d, 1, (p + 1) - Start(e, 4))
        /\ \A s \in Sections : In(Now', At', s) <=> In(e, p + 1, s)
    <3>1. Now' = e /\ At' = p + 1
      BY <1>1
    <3>2. Now'.description = d
      BY <3>1
    <3> HIDE DEF e, p, d
    <3>3. At' <= Start(Now', 4) <=> p + 1 <= Start(e, 4)
      BY ONLY <3>1
    <3>4. SubSeq(Now'.description, 1, At' - Start(Now', 4)) = SubSeq(d, 1, (p + 1) - Start(e, 4))
      <4>1. At' - Start(Now', 4) = (p + 1) - Start(e, 4)
        BY ONLY <3>1, Zenon
      <4> QED BY ONLY <3>2, <4>1, Zenon
    <3>5. \A s \in Sections : In(Now', At', s) <=> In(e, p + 1, s)
      BY ONLY <3>1, Zenon
    <3> QED BY ONLY <3>3, <3>4, <3>5
  <2> HIDE DEF e, p, d
  <2> QED BY <2>2, <2>3 DEF InSection
<1>3. /\ \A s \in Sections : In(e, p, s) => whichUpdate = s
      /\ description = IF p <= Start(e, 4) THEN <<>> ELSE SubSeq(d, 1, p - Start(e, 4))
  BY <1>1, <1>2 DEF InSection
<1>4. p + 1 \in Nat /\ Start(e, 4) \in Nat /\ Start(e, 4) >= 4
  BY <1>1, Starts
<1>5. d \in Seq(Texts) /\ Len(d) \in Nat
  BY <1>1, EventParts
<1> HIDE DEF e, p, d
<1>6. ASSUME p + 1 \in 1 .. 3, ParseTop(Head(lines))
      PROVE  /\ \A s \in Sections : In(e, p + 1, s) => whichUpdate' = s
             /\ description' = IF p + 1 <= Start(e, 4) THEN <<>> ELSE SubSeq(d, 1, (p + 1) - Start(e, 4))
  <2>1. \A s \in Sections : ~In(e, p + 1, s)
    BY <1>1, <1>4, <1>6, InOne
  <2>2. p <= Start(e, 4) /\ p + 1 <= Start(e, 4) /\ description' = description
    BY <1>1, <1>4, <1>6 DEF ParseTop
  <2> QED BY <1>3, <2>1, <2>2
<1>7. ASSUME NEW t \in Sections, p + 1 = Start(e, t), Head(lines).heading = t, ParseHeading(Head(lines))
      PROVE  /\ \A s \in Sections : In(e, p + 1, s) => whichUpdate' = s
             /\ description' = IF p + 1 <= Start(e, 4) THEN <<>> ELSE SubSeq(d, 1, (p + 1) - Start(e, 4))
  <2>1. whichUpdate' = t /\ description' = description
    BY <1>7 DEF ParseHeading
  <2>2. \A s \in Sections : In(e, p + 1, s) => s = t
    BY <1>1, <1>4, <1>7, InOne
  <2>3. p + 1 <= Start(e, 4) /\ p <= Start(e, 4)
    <3>1. Start(e, 1) <= Start(e, 4) /\ Start(e, 2) <= Start(e, 4) /\ Start(e, 3) <= Start(e, 4)
      BY <1>1, Starts
    <3>2. Start(e, t) <= Start(e, 4)
      BY <1>4, <3>1 DEF Sections
    <3> QED BY <1>1, <1>4, <1>7, <3>2
  <2> QED BY <1>3, <2>1, <2>2, <2>3
<1>8. ASSUME NEW t \in Stats, NEW i \in 1 .. Size(e, t), p + 1 = Start(e, t) + i,
             whichUpdate = t, ParseStat(Head(lines))
      PROVE  /\ \A s \in Sections : In(e, p + 1, s) => whichUpdate' = s
             /\ description' = IF p + 1 <= Start(e, 4) THEN <<>> ELSE SubSeq(d, 1, (p + 1) - Start(e, 4))
  <2>1. whichUpdate' = t /\ description' = description
    BY <1>8 DEF ParseStat
  <2>2. \A s \in Sections : In(e, p + 1, s) => s = t
    <3>1. In(e, p + 1, t) /\ t \in Sections
      BY <1>1, <1>4, <1>8, InOne DEF Sections, Stats
    <3> QED BY <1>1, <1>4, <3>1, InOne
  <2>3. p + 1 < Start(e, 4)
    BY <1>1, <1>8, StatsBeforeText
  <2>4. p + 1 <= Start(e, 4) /\ p <= Start(e, 4)
    BY <1>1, <1>4, <2>3
  <2> QED BY <1>3, <2>1, <2>2, <2>4
<1>9. ASSUME NEW i \in 1 .. Len(d), p + 1 = Start(e, 4) + i,
             Head(lines).key = d[i], ParseDescription(Head(lines))
      PROVE  /\ \A s \in Sections : In(e, p + 1, s) => whichUpdate' = s
             /\ description' = IF p + 1 <= Start(e, 4) THEN <<>> ELSE SubSeq(d, 1, (p + 1) - Start(e, 4))
  <2>1. whichUpdate' = 4 /\ description' = Append(description, d[i])
    BY <1>9 DEF ParseDescription
  <2>2. \A s \in Sections : In(e, p + 1, s) => s = 4
    <3>1. i \in 0 .. Len(Now.description)
      BY <1>5, <1>9 DEF d
    <3>2. In(e, p + 1, 4) /\ 4 \in Sections
      BY <1>1, <1>4, <1>9, <3>1, InOne DEF Sections, e
    <3> QED BY <1>1, <1>4, <3>2, InOne
  <2>3. /\ p <= Start(e, 4) <=> i = 1
        /\ p - Start(e, 4) = i - 1 /\ (p + 1) - Start(e, 4) = i /\ ~(p + 1 <= Start(e, 4))
    <3>1. \A a, b, n \in Nat : \A j \in 1 .. n : a + 1 = b + j =>
            (a <= b <=> j = 1) /\ a - b = j - 1 /\ (a + 1) - b = j /\ ~(a + 1 <= b)
      OBVIOUS
    <3>2. p \in Nat /\ p + 1 = Start(e, 4) + i
      BY <1>1, <1>9
    <3> QED BY ONLY <1>4, <1>5, <3>1, <3>2, i \in 1 .. Len(d)
  <2>4. description = IF i = 1 THEN <<>> ELSE SubSeq(d, 1, i - 1)
    BY <1>3, <2>3
  <2>5. Append(IF i = 1 THEN <<>> ELSE SubSeq(d, 1, i - 1), d[i]) = SubSeq(d, 1, i)
    BY <1>5, PrefixGrows
  <2> QED BY <2>1, <2>2, <2>3, <2>4, <2>5
<1> QED BY <1>2, <1>6, <1>7, <1>8, <1>9, PlainLine DEF e, p, d

(* A later line of the last event is what counts from then on.              *)
LEMMA SaidMore ==
  ASSUME NEW s \in Stats, NEW events \in Seq(Events), NEW n \in Nat \ {0}, n = Len(events),
         NEW names \in [1 .. n -> SUBSET Texts], NEW after \in [1 .. n -> SUBSET Texts],
         NEW name \in Texts, NEW value \in Texts, value = events[n].updates[s][name],
         after[n] = names[n] \cup {name},
         \A i \in 1 .. n : i # n => after[i] = names[i],
         \A other \in names[n] : other < name,
         NEW stats \in Maps(Texts, Texts), LastSaid(stats, s, events, names)
  PROVE  LastSaid(Assign(stats, Squeeze[name], Squeeze[value]), s, events, after)
<1> DEFINE key == Squeeze[name]
           new == Assign(stats, key, Squeeze[value])
<1>1. key \in Texts /\ Squeeze[value] \in Texts
  BY GameAssumption
<1>2. DOMAIN new = DOMAIN stats \cup {key}
      /\ \A k \in DOMAIN stats \cup {key} : new[k] = IF k = key THEN Squeeze[value] ELSE stats[k]
  <2> DEFINE v == Squeeze[value]
  <2> HIDE DEF key, v
  <2>1. key \in Texts /\ v \in Texts
    BY <1>1 DEF key, v
  <2>2. DOMAIN Assign(stats, key, v) = DOMAIN stats \cup {key}
        /\ \A k \in DOMAIN stats \cup {key} : Assign(stats, key, v)[k] = IF k = key THEN v ELSE stats[k]
    BY DEF Assign
  <2> QED BY <2>2 DEF v
<1>3. Texts \subseteq Nat /\ n \in 1 .. n
  BY GameAssumption
<1> HIDE DEF new
<1>4. ASSUME NEW i \in 1 .. n, NEW other \in after[i] PROVE Squeeze[other] \in DOMAIN new
  <2>1. other \in names[i] \/ other = name
    BY <1>4
  <2> QED BY <1>2, <2>1 DEF LastSaid
<1>5. ASSUME NEW k \in DOMAIN new
      PROVE  \E i \in 1 .. n : \E x \in after[i] :
               /\ Squeeze[x] = k
               /\ new[k] = Squeeze[events[i].updates[s][x]]
               /\ \A j \in 1 .. n : \A other \in after[j] :
                    Squeeze[other] = k => j < i \/ (j = i /\ other <= x)
  <2>1. CASE k = key
    <3>1. name \in after[n] /\ new[k] = Squeeze[events[n].updates[s][name]]
      BY <1>2, <1>5, <2>1
    <3>2. ASSUME NEW j \in 1 .. n, NEW other \in after[j]
          PROVE  j < n \/ (j = n /\ other <= name)
      <4>1. CASE j = n
        <5>1. other \in names[n] \/ other = name
          BY <4>1
        <5>2. other <= name
          <6>1. other \in Nat /\ name \in Nat
            BY <1>3, <3>2
          <6> QED BY <5>1, <6>1
        <5> QED BY <4>1, <5>2
      <4> QED BY <4>1
    <3> QED BY <1>3, <2>1, <3>1, <3>2
  <2>2. CASE k # key
    <3>1. k \in DOMAIN stats /\ new[k] = stats[k]
      BY <1>2, <1>5, <2>2
    <3>2. PICK i \in 1 .. n : \E x \in names[i] :
               /\ Squeeze[x] = k
               /\ stats[k] = Squeeze[events[i].updates[s][x]]
               /\ \A j \in 1 .. n : \A other \in names[j] :
                    Squeeze[other] = k => j < i \/ (j = i /\ other <= x)
      BY <3>1 DEF LastSaid
    <3>3. PICK x \in names[i] :
               /\ Squeeze[x] = k
               /\ stats[k] = Squeeze[events[i].updates[s][x]]
               /\ \A j \in 1 .. n : \A other \in names[j] :
                    Squeeze[other] = k => j < i \/ (j = i /\ other <= x)
      BY <3>2
    <3>4. x \in after[i]
      BY <3>3
    <3>5. ASSUME NEW j \in 1 .. n, NEW other \in after[j], Squeeze[other] = k
          PROVE  other \in names[j]
      BY <2>2, <3>5
    <3> QED BY <3>1, <3>3, <3>4, <3>5
  <2> QED BY <2>1, <2>2
<1> QED BY <1>4, <1>5 DEF LastSaid, new

(* A report of which nothing has been read yet changes nothing.             *)
LEMMA SaidNothing ==
  ASSUME NEW s \in Stats, NEW events \in Seq(Events), NEW e \in Events,
         NEW stats, NEW names, NEW after,
         LastSaid(stats, s, events, names),
         \A i \in 1 .. Len(events) : after[i] = names[i],
         after[Len(events) + 1] = {}
  PROVE  LastSaid(stats, s, Append(events, e), after)
<1> DEFINE n == Len(events)
           more == Append(events, e)
<1>1. n \in Nat /\ Len(more) = n + 1 /\ \A i \in 1 .. n : more[i] = events[i]
  BY AppendProperties, LenProperties
<1>2. \A i \in 1 .. n + 1 : i \in 1 .. n \/ i = n + 1
  BY <1>1
<1>3. \A i \in 1 .. n : i \in 1 .. n + 1
  BY <1>1
<1>4. \A i \in 1 .. n : after[i] = names[i]
  OBVIOUS
<1>5. after[n + 1] = {}
  OBVIOUS
<1>6. \A i \in 1 .. n : \A name \in names[i] : Squeeze[name] \in DOMAIN stats
  BY DEF LastSaid
<1>7. \A k \in DOMAIN stats :
        \E i \in 1 .. n : \E name \in names[i] :
          /\ Squeeze[name] = k
          /\ stats[k] = Squeeze[events[i].updates[s][name]]
          /\ \A j \in 1 .. n : \A other \in names[j] :
               Squeeze[other] = k => j < i \/ (j = i /\ other <= name)
  BY DEF LastSaid
<1> HIDE DEF n, more
<1>8. \A i \in 1 .. n + 1 : \A name \in after[i] : Squeeze[name] \in DOMAIN stats
  BY <1>2, <1>4, <1>5, <1>6
<1>9. ASSUME NEW k \in DOMAIN stats
      PROVE  \E i \in 1 .. n + 1 : \E name \in after[i] :
               /\ Squeeze[name] = k
               /\ stats[k] = Squeeze[more[i].updates[s][name]]
               /\ \A j \in 1 .. n + 1 : \A other \in after[j] :
                    Squeeze[other] = k => j < i \/ (j = i /\ other <= name)
  <2>1. PICK i \in 1 .. n : \E name \in names[i] :
          /\ Squeeze[name] = k
          /\ stats[k] = Squeeze[events[i].updates[s][name]]
          /\ \A j \in 1 .. n : \A other \in names[j] :
               Squeeze[other] = k => j < i \/ (j = i /\ other <= name)
    BY <1>7
  <2>2. PICK name \in names[i] :
          /\ Squeeze[name] = k
          /\ stats[k] = Squeeze[events[i].updates[s][name]]
          /\ \A j \in 1 .. n : \A other \in names[j] :
               Squeeze[other] = k => j < i \/ (j = i /\ other <= name)
    BY <2>1
  <2>3. i \in 1 .. n + 1 /\ name \in after[i] /\ more[i] = events[i]
    BY <1>1, <1>3, <1>4
  <2>4. \A j \in 1 .. n + 1 : \A other \in after[j] :
          Squeeze[other] = k => j < i \/ (j = i /\ other <= name)
    BY <1>2, <1>4, <1>5, <2>2
  <2> QED BY <2>2, <2>3, <2>4
<1> QED BY <1>1, <1>8, <1>9 DEF LastSaid, more

(* The names read of each event, as a sequence.                             *)
LEMMA AllNamesAre ==
  ASSUME GameTypes, InBody, NEW u \in Users, NEW s \in Stats
  PROVE  /\ Len(told[u]) \in Nat
         /\ AllNames(u, s) \in [1 .. Len(told[u]) -> SUBSET Texts]
         /\ \A i \in 1 .. Len(told[u]) : AllNames(u, s)[i] = NamesRead(u, i, s)
<1>1. told[u] \in Seq(Events) /\ Len(told[u]) \in Nat
  BY LenProperties DEF GameTypes
<1>2. ASSUME NEW i \in 1 .. Len(told[u]) PROVE NamesRead(u, i, s) \in SUBSET Texts
  <2>1. told[u][i] \in Events
    BY <1>1, LenProperties
  <2>2. DOMAIN told[u][i].updates[s] \in SUBSET Texts
    BY <2>1, EventParts
  <2>3. CASE current = u /\ i = Len(told[u])
    <3>1. Now \in Events /\ DOMAIN Now.updates[s] \in SUBSET Texts
      BY <2>1, <2>2, <2>3 DEF Now
    <3>2. At \in Nat
      <4>1. main = "parse"
        BY <2>3, GameAssumption DEF GameTypes
      <4>2. Last(Now) \in Nat
        BY <3>1, Sizes
      <4> QED BY <4>1, <4>2 DEF InBody
    <3>3. KeysTo(Now, s, At) \subseteq DOMAIN Now.updates[s]
      BY <3>1, <3>2, NamesTo
    <3> QED BY <2>3, <3>1, <3>3 DEF NamesRead
  <2>4. CASE ~(current = u /\ i = Len(told[u]))
    BY <2>2, <2>4 DEF NamesRead
  <2> QED BY <2>3, <2>4
<1> QED BY <1>1, <1>2 DEF AllNames

(* The statistics, after one more line: it is the latest of its key.        *)
LEMMA LineKeepsStats ==
  ASSUME GameTypes, InBody, InSection, StatsRead, ParseLine, GameTypes', InBody'
  PROVE  StatsRead'
<1>1. /\ main = "parse" /\ current \in Users /\ told[current] # <<>> /\ Now \in Events /\ At \in Nat
      /\ Len(told[current]) \in 1 .. Len(told[current])
      /\ Now' = Now /\ At' = At + 1
      /\ main' = main /\ current' = current /\ told' = told
  BY NextLine
<1>2. SUFFICES ASSUME NEW u \in Users, Plain(u)', GameOf(u)' # NULL, NEW s \in Stats
               PROVE  LastSaid(GameOf(u)'.stats[s], s, told[u], AllNames(u, s)')
  BY <1>1 DEF StatsRead
<1>3. Plain(u)
  BY <1>1, <1>2 DEF Plain
<1>4. \A i \in 1 .. Len(told[u]) : ~(u = current /\ i = Len(told[u])) =>
        NamesRead(u, i, s)' = NamesRead(u, i, s)
  BY <1>1 DEF NamesRead
<1>5. \A i \in 1 .. Len(told[u]) : u = current /\ i = Len(told[u]) =>
        NamesRead(u, i, s) = KeysTo(Now, s, At) /\ NamesRead(u, i, s)' = KeysTo(Now, s, At + 1)
  <2>1. ASSUME NEW i \in 1 .. Len(told[u]), u = current, i = Len(told[u])
        PROVE  NamesRead(u, i, s)' = KeysTo(Now', s, At')
    BY <1>1, <2>1 DEF NamesRead
  <2>2. ASSUME NEW i \in 1 .. Len(told[u]), u = current, i = Len(told[u])
        PROVE  NamesRead(u, i, s) = KeysTo(Now, s, At)
    BY <2>2 DEF NamesRead
  <2> QED BY <1>1, <2>1, <2>2
<1>6. AllNames(u, s)' = [i \in 1 .. Len(told[u]) |-> NamesRead(u, i, s)']
  BY <1>1 DEF AllNames
<1>7. ASSUME GameOf(u)' = GameOf(u), u = current => KeysTo(Now, s, At + 1) = KeysTo(Now, s, At)
      PROVE  LastSaid(GameOf(u)'.stats[s], s, told[u], AllNames(u, s)')
  <2>1. \A i \in 1 .. Len(told[u]) : NamesRead(u, i, s)' = NamesRead(u, i, s)
    BY <1>4, <1>5, <1>7
  <2>2. AllNames(u, s)' = AllNames(u, s)
    BY <1>6, <2>1 DEF AllNames
  <2>3. LastSaid(GameOf(u).stats[s], s, told[u], AllNames(u, s))
    BY <1>2, <1>3, <1>7 DEF StatsRead
  <2> QED BY <1>7, <2>2, <2>3
<1>8. CASE u # current
  <2>1. GameOf(u)' = GameOf(u)
    BY <1>8, SameGames, StatChanges DEF ParseLine, ParseHeading, ParseTop, ParseDescription
  <2> QED BY <1>7, <1>8, <2>1
<1>9. CASE u = current
  <2>0. At + 1 \in Nat /\ Start(Now, s) \in Nat /\ s \in Sections
    BY <1>1, Sizes DEF Stats, Sections
  <2>1. ASSUME NEW i \in 1 .. Size(Now, s), At + 1 = Start(Now, s) + i
        PROVE  In(Now, At, s) /\ In(Now, At + 1, s) /\ At + 1 # Start(Now, s)
    <3>1. In(Now, Start(Now, s) + i, s) /\ In(Now, Start(Now, s) + i - 1, s)
      BY <1>1, InOne
    <3>2. Start(Now, s) + i - 1 = At
      BY <1>1, <2>0, <2>1
    <3>3. At + 1 # Start(Now, s)
      BY <2>0, <2>1
    <3> QED BY <2>1, <3>1, <3>2, <3>3
  <2>2. (\A i \in 1 .. Size(Now, s) : At + 1 # Start(Now, s) + i) =>
          KeysTo(Now, s, At + 1) = KeysTo(Now, s, At)
    BY <1>1, NamesTo
  <2>3. CASE At + 1 \in 1 .. 3 /\ ParseTop(Head(lines))
    <3>1. \A t \in Sections : ~In(Now, At + 1, t)
      BY <1>1, <2>0, <2>3, InOne
    <3>2. GameOf(u)' = GameOf(u)
      BY <2>3, SameGames DEF ParseTop
    <3> QED BY <1>7, <2>0, <2>1, <2>2, <3>1, <3>2
  <2>4. CASE \E t \in Sections :
               At + 1 = Start(Now, t) /\ Head(lines).heading = t /\ ParseHeading(Head(lines))
    <3>1. PICK t \in Sections : At + 1 = Start(Now, t) /\ ParseHeading(Head(lines))
      BY <2>4
    <3>2. \A r \in Sections : In(Now, At + 1, r) => r = t
      BY <1>1, <2>0, <3>1, InOne
    <3>3. GameOf(u)' = GameOf(u)
      BY <3>1, SameGames DEF ParseHeading
    <3> QED BY <1>7, <2>0, <2>1, <2>2, <3>1, <3>2, <3>3
  <2>5. CASE \E t \in Stats : \E i \in 1 .. Size(Now, t) :
               /\ At + 1 = Start(Now, t) + i /\ whichUpdate = t /\ ParseStat(Head(lines))
               /\ Head(lines).key = Key(Now, t, i)
               /\ Head(lines).value = Now.updates[t][Key(Now, t, i)]
    <3>0. PICK t \in Stats : \E i \in 1 .. Size(Now, t) :
               /\ At + 1 = Start(Now, t) + i /\ whichUpdate = t /\ ParseStat(Head(lines))
               /\ Head(lines).key = Key(Now, t, i)
               /\ Head(lines).value = Now.updates[t][Key(Now, t, i)]
      BY <2>5
    <3>1. PICK i \in 1 .. Size(Now, t) :
               /\ At + 1 = Start(Now, t) + i /\ whichUpdate = t /\ ParseStat(Head(lines))
               /\ Head(lines).key = Key(Now, t, i)
               /\ Head(lines).value = Now.updates[t][Key(Now, t, i)]
      BY <3>0
    <3> DEFINE name == Key(Now, t, i)  value == Now.updates[t][name]
    <3>2. name \in Texts /\ value \in Texts
      BY <1>1, Sizes, EventParts
    <3>3. /\ GameOf(u) \in Games /\ GameOf(u)' \in Games
          /\ GameOf(u)'.stats[t] = Assign(GameOf(u).stats[t], Squeeze[name], Squeeze[value])
          /\ \A r \in Stats : r # t => GameOf(u)'.stats[r] = GameOf(u).stats[r]
      BY <1>1, <1>9, <3>1, StatChanges
    <3>4. GameOf(u) # NULL
      BY <3>3, GameAssumption
    <3>5. LastSaid(GameOf(u).stats[s], s, told[u], AllNames(u, s))
      BY <1>3, <3>4 DEF StatsRead
    <3>6. CASE t = s
      <4> DEFINE n == Len(told[u])
      <4>1. told[u] \in Seq(Events) /\ n \in Nat \ {0} /\ n \in 1 .. n
        BY <1>1, <1>9, LenProperties, EmptySeq DEF GameTypes
      <4>2. AllNames(u, s) \in [1 .. n -> SUBSET Texts]
            /\ \A j \in 1 .. n : AllNames(u, s)[j] = NamesRead(u, j, s)
        BY AllNamesAre
      <4>3. KeysTo(Now, s, At + 1) = KeysTo(Now, s, At) \cup {name}
            /\ \A other \in KeysTo(Now, s, At) : other < name
        BY <1>1, <3>1, <3>6, NamesTo
      <4>4. \A j \in 1 .. n : AllNames(u, s)'[j] = NamesRead(u, j, s)'
        BY <1>6
      <4>5. AllNames(u, s)'[n] = AllNames(u, s)[n] \cup {name}
        BY <1>5, <1>9, <4>1, <4>2, <4>3, <4>4
      <4>6. \A j \in 1 .. n : j # n => AllNames(u, s)'[j] = AllNames(u, s)[j]
        BY <1>4, <4>2, <4>4
      <4>7. \A other \in AllNames(u, s)[n] : other < name
        BY <1>5, <1>9, <4>1, <4>2, <4>3
      <4>8. AllNames(u, s)' \in [1 .. n -> SUBSET Texts]
        <5>1. \A j \in 1 .. n : AllNames(u, s)'[j] \in SUBSET Texts
          BY <3>2, <4>1, <4>2, <4>5, <4>6
        <5> QED BY <1>6, <4>4, <5>1
      <4>9. GameOf(u).stats[s] \in Maps(Texts, Texts)
        BY <3>3 DEF Games
      <4>10. value = told[u][n].updates[s][name]
        BY <1>9, <3>6 DEF Now
      <4> HIDE DEF n, name, value
      <4>11. LastSaid(Assign(GameOf(u).stats[s], Squeeze[name], Squeeze[value]), s, told[u], AllNames(u, s)')
        BY <3>2, <3>5, <4>1, <4>2, <4>5, <4>6, <4>7, <4>8, <4>9, <4>10, SaidMore DEF n
      <4> QED BY <3>3, <3>6, <4>11
    <3>7. CASE t # s
      <4>1. \A j \in 1 .. Size(Now, s) : At + 1 # Start(Now, s) + j
        <5>1. In(Now, Start(Now, t) + i, t) /\ t \in Sections
          BY <1>1, InOne DEF Stats, Sections
        <5>2. ~In(Now, At + 1, s)
          BY <1>1, <2>0, <3>1, <3>7, <5>1, InOne
        <5> QED BY <2>1, <5>2
      <4>2. \A j \in 1 .. Len(told[u]) : NamesRead(u, j, s)' = NamesRead(u, j, s)
        BY <1>4, <1>5, <2>2, <4>1
      <4>3. AllNames(u, s)' = AllNames(u, s)
        BY <1>6, <4>2 DEF AllNames
      <4> QED BY <3>3, <3>5, <3>7, <4>3
    <3> QED BY <3>6, <3>7
  <2>6. CASE \E i \in 1 .. Len(Now.description) :
               /\ At + 1 = Start(Now, 4) + i /\ ParseDescription(Head(lines))
               /\ Head(lines).key = Now.description[i]
    <3>1. PICK i \in 1 .. Len(Now.description) :
            At + 1 = Start(Now, 4) + i /\ ParseDescription(Head(lines))
      BY <2>6
    <3>2. i \in 0 .. Len(Now.description) /\ 4 \in Sections
      BY DEF Sections
    <3>3. In(Now, At + 1, 4)
      BY <1>1, <2>0, <3>1, <3>2, InOne
    <3>4. ~In(Now, At + 1, s)
      <4>1. s # 4
        BY DEF Stats
      <4> QED BY <1>1, <2>0, <3>2, <3>3, <4>1, InOne
    <3>5. GameOf(u)' = GameOf(u)
      BY <3>1, SameGames DEF ParseDescription
    <3> QED BY <1>7, <2>1, <2>2, <3>4, <3>5
  <2>7. Plain(current)
    BY <1>3, <1>9
  <2> QED BY <2>3, <2>4, <2>5, <2>6, <2>7, PlainLine
<1> QED BY <1>8, <1>9

(* A MESSAGE adds an event to one reporter's, at the end.                   *)
LEMMA ToldMore ==
  ASSUME GameTypes, NEW u \in Users, NEW e \in Events, told' = [told EXCEPT ![u] = Append(@, e)]
  PROVE  /\ told' \in [Users -> Seq(Events)]
         /\ told[u] \in Seq(Events) /\ Len(told[u]) \in Nat
         /\ told'[u] = Append(told[u], e)
         /\ Len(told'[u]) = Len(told[u]) + 1 /\ told'[u][Len(told[u]) + 1] = e /\ told'[u] # <<>>
         /\ \A i \in 1 .. Len(told[u]) : told'[u][i] = told[u][i]
         /\ \A v \in Users : v # u => told'[v] = told[v]
         /\ \A v \in Users : Plain(v)' => Plain(v)
<1>1. told \in [Users -> Seq(Events)]
  BY DEF GameTypes
<1>2. told[u] \in Seq(Events) /\ Len(told[u]) \in Nat
  BY <1>1, LenProperties
<1>3. told'[u] = Append(told[u], e) /\ \A v \in Users : v # u => told'[v] = told[v]
  BY <1>1
<1> DEFINE more == Append(told[u], e)
<1>4. /\ more \in Seq(Events) /\ Len(more) = Len(told[u]) + 1
      /\ more[Len(told[u]) + 1] = e /\ more # <<>>
      /\ \A i \in 1 .. Len(told[u]) : more[i] = told[u][i]
  BY <1>2, AppendProperties
<1> HIDE DEF more
<1>5. told'[u] = more
  BY <1>3 DEF more
<1>6. told' \in [Users -> Seq(Events)]
  <2>1. told' = [told EXCEPT ![u] = more]
    BY DEF more
  <2> QED BY <1>1, <1>4, <2>1
<1>7. ASSUME NEW v \in Users, Plain(v)' PROVE Plain(v)
  <2>1. \A i \in 1 .. Len(told'[v]) : PlainEvent(told'[v][i])
    BY <1>7 DEF Plain
  <2>2. CASE v = u
    <3>1. \A i \in 1 .. Len(told[u]) : i \in 1 .. Len(told'[u]) /\ told'[u][i] = told[u][i]
      BY <1>2, <1>4, <1>5
    <3>2. \A i \in 1 .. Len(told[u]) : PlainEvent(told[u][i])
      BY <2>1, <2>2, <3>1
    <3> QED BY <2>2, <3>2 DEF Plain
  <2>3. CASE v # u
    BY <1>3, <2>1, <2>3 DEF Plain
  <2> QED BY <2>2, <2>3
<1> QED BY <1>2, <1>3, <1>4, <1>5, <1>6, <1>7

(* What is listed is about the events listed only.                          *)
LEMMA ListedSame ==
  ASSUME NEW list, NEW n \in Nat, NEW events, NEW more, \A i \in 1 .. n : more[i] = events[i],
         Listed(list, events, n)
  PROVE  Listed(list, more, n)
<1>1. {more[i].time : i \in 1 .. n} = {events[i].time : i \in 1 .. n}
  OBVIOUS
<1>2. \A i \in 1 .. n : \A j \in 1 .. i - 1 : j \in 1 .. n
  OBVIOUS
<1>3. ASSUME NEW i \in 1 .. n, \A j \in 1 .. i - 1 : more[j].time # more[i].time
      PROVE  list[more[i].time] = [name |-> more[i].name, description |-> more[i].description]
  <2>1. more[i] = events[i] /\ \A j \in 1 .. i - 1 : events[j].time # events[i].time
    BY <1>2, <1>3
  <2> QED BY <2>1 DEF Listed
<1> QED BY <1>1, <1>3 DEF Listed

(* The report that has been read to its end is listed, if it is the first   *)
(* of its time.                                                             *)
LEMMA ListedMore ==
  ASSUME NEW n \in Nat \ {0}, NEW events \in Seq(Events), n = Len(events),
         NEW list \in Maps(Times, Stored), Listed(list, events, n - 1),
         NEW event \in Stored,
         event = [name |-> events[n].name, description |-> events[n].description]
  PROVE  Listed(Insert(list, events[n].time, event), events, n)
<1> DEFINE t == events[n].time
           new == Insert(list, t, event)
<1>1. t \in Times
  BY LenProperties, EventParts
<1>2. /\ DOMAIN new = DOMAIN list \cup {t}
      /\ \A x \in DOMAIN list : new[x] = list[x]
      /\ t \notin DOMAIN list => new[t] = event
  BY DEF Insert, Assign
<1>3. \A i \in 1 .. n : i = n \/ i \in 1 .. n - 1
  OBVIOUS
<1>4. \A i \in 1 .. n - 1 : i \in 1 .. n
  OBVIOUS
<1>5. n \in 1 .. n
  OBVIOUS
<1>6. DOMAIN list = {events[i].time : i \in 1 .. n - 1}
  BY DEF Listed
<1>7. DOMAIN new = {events[i].time : i \in 1 .. n}
  <2> DEFINE all == {events[i].time : i \in 1 .. n}
  <2>1. \A x \in DOMAIN new : x \in all
    BY <1>2, <1>4, <1>5, <1>6
  <2>2. \A x \in all : x \in DOMAIN new
    BY <1>2, <1>3, <1>6
  <2> QED BY <2>1, <2>2
<1>8. ASSUME NEW i \in 1 .. n, \A j \in 1 .. i - 1 : events[j].time # events[i].time
      PROVE  new[events[i].time] = [name |-> events[i].name, description |-> events[i].description]
  <2>1. CASE i = n
    <3>1. t \notin DOMAIN list
      BY <1>6, <1>8, <2>1
    <3> QED BY <1>2, <2>1, <3>1
  <2>2. CASE i \in 1 .. n - 1
    <3>1. events[i].time \in DOMAIN list
      BY <1>6, <2>2
    <3> QED BY <1>2, <1>8, <2>2, <3>1 DEF Listed
  <2> QED BY <1>3, <2>1, <2>2
<1> QED BY <1>7, <1>8 DEF Listed

(* A MESSAGE that is about to be read keeps the invariant.                  *)
LEMMA MessageKeeps ==
  ASSUME GameInv, NEW u \in Users, NEW e \in Events, HandleMessage(u, e, Body[u][e])
  PROVE  GameInv'
<1> DEFINE n == Len(told[u])
           b == Body[u][e]
<1>1. /\ main = "idle" /\ main' = "parse" /\ lines' = b /\ current' = u
      /\ newGame' = IF gameToEvents[u] = NULL THEN NewGame ELSE NULL
      /\ whichUpdate' = 0 /\ eventName' = NULL /\ eventTime' = NULL /\ description' = <<>>
      /\ told' = [told EXCEPT ![u] = Append(@, e)]
      /\ gameToEvents' = gameToEvents
  BY DEF HandleMessage, FindGame
<1>2. current = NULL /\ newGame = NULL /\ (\A v \in Users : current # v) /\ NULL \notin Users
  BY <1>1, GameAssumption DEF GameInv, GameTypes
<1>3. /\ told' \in [Users -> Seq(Events)] /\ told[u] \in Seq(Events) /\ n \in Nat
      /\ told'[u] = Append(told[u], e)
      /\ Len(told'[u]) = n + 1 /\ told'[u][n + 1] = e /\ told'[u] # <<>>
      /\ \A i \in 1 .. n : told'[u][i] = told[u][i]
      /\ \A v \in Users : v # u => told'[v] = told[v]
      /\ \A v \in Users : Plain(v)' => Plain(v)
  BY <1>1, ToldMore DEF GameInv
<1>4. b \in Seq(Item) /\ Len(b) = Last(e) /\ Last(e) \in Nat
  BY BodyLines, Sizes DEF BodyHas
<1>5. Now' = e /\ At' = 0
  <2>1. Now' = told'[u][Len(told'[u])]
    BY <1>1 DEF Now
  <2>2. Now' = e
    BY <1>3, <2>1
  <2>3. At' = Last(Now') - Len(lines')
    BY DEF At
  <2> QED BY <1>1, <1>4, <2>2, <2>3
<1>6. NewGame \in Games /\ NewGame # NULL
  BY NewGameIs, GameAssumption
<1>7. told[u] = <<>> <=> n = 0
  BY <1>3, EmptySeq
<1>8. gameToEvents \in [Users -> Games \cup {NULL}]
      /\ \A v \in Users : gameToEvents[v] = NULL <=> told[v] = <<>>
  BY <1>2 DEF GameInv, GameTypes
<1>9. GameTypes'
  <2>1. whichUpdate' \in 0 .. 4 /\ description' \in Seq(Texts) /\ newGame' \in Games \cup {NULL}
    BY <1>1, <1>6, EmptySeq
  <2>2. ASSUME NEW v \in Users
        PROVE  /\ gameToEvents'[v] = NULL <=>
                    told'[v] = <<>> \/ (current' = v /\ newGame' # NULL /\ Len(told'[v]) = 1)
               /\ current' = v /\ newGame' # NULL => gameToEvents'[v] = NULL
    <3>1. CASE v = u
      <4>1. newGame' # NULL <=> gameToEvents[u] = NULL
        BY <1>1, <1>6
      <4>2. gameToEvents[u] = NULL <=> n = 0
        BY <1>7, <1>8
      <4>3. n = 0 <=> Len(told'[u]) = 1
        BY <1>3
      <4> QED BY <1>1, <1>3, <3>1, <4>1, <4>2, <4>3
    <3>2. CASE v # u
      BY <1>1, <1>3, <1>8, <3>2
    <3> QED BY <3>1, <3>2
  <2> QED BY <1>1, <1>3, <1>8, <2>1, <2>2 DEF GameTypes
<1>10. InBody'
  <2>1. SubSeq(b, 1, Last(e)) = b
    BY <1>4, SubSeqFull
  <2>2. At' + 1 = 1 /\ At' \in 0 .. Last(Now')
    BY <1>4, <1>5
  <2>3. lines' = SubSeq(Body[current'][Now'], At' + 1, Last(Now'))
    BY <1>1, <1>5, <2>1, <2>2
  <2>4. ~(At' >= 2) /\ ~(At' >= 3) /\ At' < 4 /\ whichUpdate' = 0
    BY <1>1, <1>5
  <2> QED BY <1>1, <1>3, <2>2, <2>3, <2>4 DEF InBody
<1>11. InSection'
  <2>1. \A s \in Sections : ~In(e, 0, s)
    BY InOne
  <2>2. 0 <= Start(e, 4)
    BY Starts
  <2>3. /\ \A s \in Sections : In(Now', At', s) => whichUpdate' = s
        /\ At' <= Start(Now', 4)
    BY <1>5, <2>1, <2>2
  <2> QED BY <1>1, <2>3 DEF InSection
<1>12. ASSUME NEW v \in Users, v # u
       PROVE  GameOf(v)' = GameOf(v) /\ Done(v)' = Done(v)
              /\ \A s : AllNames(v, s)' = AllNames(v, s)
  <2>1. GameOf(v)' = GameOf(v)
    BY <1>1, <1>2, <1>12 DEF GameOf
  <2>2. Done(v)' = Done(v)
    BY <1>1, <1>2, <1>3, <1>12 DEF Done
  <2>3. \A i, s : NamesRead(v, i, s)' = NamesRead(v, i, s)
    BY <1>1, <1>2, <1>3, <1>12 DEF NamesRead
  <2>4. \A s : AllNames(v, s)' = AllNames(v, s)
    BY <1>3, <1>12, <2>3 DEF AllNames
  <2> QED BY <2>1, <2>2, <2>4
<1>13. GameOf(u)' = IF gameToEvents[u] = NULL THEN NewGame ELSE gameToEvents[u]
  BY <1>1, <1>6 DEF GameOf
<1>14. GameOf(u) = gameToEvents[u]
  BY <1>2 DEF GameOf
<1>15. ASSUME NEW s \in Stats
       PROVE  /\ Len(told[u]) + 1 = n + 1
              /\ AllNames(u, s)'[n + 1] = {}
              /\ \A i \in 1 .. n : AllNames(u, s)'[i] = AllNames(u, s)[i]
  <2>1. AllNames(u, s)' = [i \in 1 .. n + 1 |-> NamesRead(u, i, s)']
    BY <1>3 DEF AllNames
  <2>2. \A i \in 1 .. n + 1 : i = n + 1 => NamesRead(u, i, s)' = KeysTo(Now', s, At')
    BY <1>1, <1>3 DEF NamesRead
  <2>3. KeysTo(e, s, 0) = {}
    BY NamesTo
  <2>4. \A i \in 1 .. n : NamesRead(u, i, s)' = DOMAIN told'[u][i].updates[s]
    BY <1>1, <1>3 DEF NamesRead
  <2>5. \A i \in 1 .. n : NamesRead(u, i, s) = DOMAIN told[u][i].updates[s]
    BY <1>2 DEF NamesRead
  <2>6. n + 1 \in 1 .. n + 1 /\ \A i \in 1 .. n : i \in 1 .. n + 1
    BY <1>3
  <2>7. \A i \in 1 .. n : AllNames(u, s)[i] = NamesRead(u, i, s)
    BY DEF AllNames
  <2>8. AllNames(u, s)'[n + 1] = {}
    BY <1>5, <2>1, <2>2, <2>3, <2>6
  <2>9. \A i \in 1 .. n : AllNames(u, s)'[i] = AllNames(u, s)[i]
    BY <1>3, <2>1, <2>4, <2>5, <2>6, <2>7
  <2> QED BY <2>8, <2>9
<1>16. StatsRead'
  <2>1. SUFFICES ASSUME NEW v \in Users, Plain(v)', GameOf(v)' # NULL, NEW s \in Stats
                 PROVE  LastSaid(GameOf(v)'.stats[s], s, told'[v], AllNames(v, s)')
    BY DEF StatsRead
  <2>2. CASE v # u
    BY <1>3, <1>12, <2>1, <2>2 DEF GameInv, StatsRead
  <2>3. CASE v = u /\ gameToEvents[u] # NULL
    <3>1. LastSaid(gameToEvents[u].stats[s], s, told[u], AllNames(u, s))
      BY <1>3, <1>14, <2>1, <2>3 DEF GameInv, StatsRead
    <3> DEFINE stats == gameToEvents[u].stats[s]
               names == AllNames(u, s)
               after == AllNames(v, s)'
    <3>2. after[n + 1] = {} /\ \A i \in 1 .. n : after[i] = names[i]
      BY <1>15, <2>3
    <3> HIDE DEF stats, names, after
    <3>3. LastSaid(stats, s, told[u], names)
      BY <3>1 DEF stats, names
    <3>4. LastSaid(stats, s, Append(told[u], e), after)
      BY <1>3, <3>2, <3>3, SaidNothing
    <3> QED BY <1>3, <1>13, <2>3, <3>4 DEF stats, after
  <2>4. CASE v = u /\ gameToEvents[u] = NULL
    <3> DEFINE after == AllNames(v, s)'
    <3>1. GameOf(v)'.stats[s] = EmptyMap
      BY <1>13, <2>4 DEF NewGame
    <3>2. n = 0
      BY <1>7, <1>8, <2>4
    <3>3. \A i \in 1 .. n + 1 : after[i] = {}
      BY <1>15, <2>4, <3>2
    <3> HIDE DEF after
    <3>4. DOMAIN EmptyMap = {}
      BY DEF EmptyMap
    <3>5. LastSaid(EmptyMap, s, told'[v], after)
      BY <1>3, <2>4, <3>3, <3>4 DEF LastSaid
    <3> QED BY <3>1, <3>5 DEF after
  <2> QED BY <2>2, <2>3, <2>4
<1>17. EventsRead'
  <2>1. SUFFICES ASSUME NEW v \in Users, Plain(v)', GameOf(v)' # NULL
                 PROVE  Listed(GameOf(v)'.events, told'[v], Done(v)')
    BY DEF EventsRead
  <2>2. CASE v # u
    BY <1>3, <1>12, <2>1, <2>2 DEF GameInv, EventsRead
  <2>3. Done(u)' = n /\ Done(u) = n
    BY <1>1, <1>2, <1>3 DEF Done
  <2>4. CASE v = u /\ gameToEvents[u] # NULL
    <3>1. Listed(GameOf(u).events, told[u], n)
      BY <1>3, <1>14, <2>1, <2>3, <2>4 DEF GameInv, EventsRead
    <3>2. GameOf(v)' = GameOf(u) /\ Done(v)' = n
      BY <1>13, <1>14, <2>3, <2>4
    <3> HIDE DEF n
    <3>3. Listed(GameOf(u).events, told'[u], n)
      BY <1>3, <3>1, ListedSame
    <3> QED BY <2>4, <3>2, <3>3
  <2>5. CASE v = u /\ gameToEvents[u] = NULL
    <3>1. n = 0 /\ Done(v)' = n
      BY <1>7, <1>8, <2>3, <2>5
    <3>2. 1 .. Done(v)' = {}
      BY <3>1
    <3>3. DOMAIN GameOf(v)'.events = {}
      BY <1>13, <2>5 DEF NewGame, EmptyMap
    <3> QED BY <3>2, <3>3 DEF Listed
  <2> QED BY <2>2, <2>4, <2>5
<1> QED BY <1>9, <1>10, <1>11, <1>16, <1>17 DEF GameInv

(* The end of a body: its event is stored, its Game is in the map.          *)
LEMMA StoreKeeps ==
  ASSUME GameInv, StoreEvent
  PROVE  GameInv'
<1> DEFINE u == current
           n == Len(told[current])
           d == Now.description
           event == [name |-> eventName, description |-> description]
           new == WithEvent(TheGame, eventTime, event)
<1>1. /\ main = "parse" /\ lines = <<>> /\ main' = "idle" /\ newGame' = NULL /\ current' = NULL
      /\ gameToEvents' = [gameToEvents EXCEPT ![current] = new]
      /\ whichUpdate' = whichUpdate /\ eventName' = eventName /\ eventTime' = eventTime
      /\ description' = description /\ told' = told
  BY DEF StoreEvent, WithEvent
<1>2. /\ u \in Users /\ told[u] # <<>> /\ told[u] \in Seq(Events)
      /\ told \in [Users -> Seq(Events)] /\ gameToEvents \in [Users -> Games \cup {NULL}]
      /\ NULL \notin Users /\ NULL \notin Games
  BY <1>1, GameAssumption DEF GameInv, GameTypes, InBody
<1>3. n \in Nat \ {0} /\ Now \in Events /\ Now = told[u][n]
  BY <1>2, EmptySeq, LenProperties DEF Now
<1>4. At = Last(Now) /\ Last(Now) \in Nat
  <2>1. Last(Now) \in Nat
    BY <1>3, Sizes
  <2>2. Len(lines) = 0
    BY <1>1
  <2> QED BY <2>1, <2>2 DEF At
<1>5. /\ Start(Now, 4) >= 4 /\ Start(Now, 4) \in Nat /\ Last(Now) = Start(Now, 4) + Len(d)
      /\ Len(d) \in Nat \ {0} /\ d \in Seq(Texts)
  BY <1>3, Starts, EventParts
<1>6. eventName = Now.name /\ eventTime = Now.time
  <2>1. At >= 2 /\ At >= 3
    BY <1>4, <1>5
  <2> QED BY <1>1, <2>1 DEF GameInv, InBody
<1>7. event \in Stored /\ eventTime \in Times
  BY <1>3, <1>6, EventParts DEF GameInv, GameTypes, Stored, Names
<1>8. Plain(u) => description = d
  <2>1. ~(At <= Start(Now, 4)) /\ At - Start(Now, 4) = Len(d)
    BY <1>4, <1>5
  <2>2. SubSeq(d, 1, Len(d)) = d
    BY <1>5, SubSeqFull
  <2> QED BY <1>1, <2>1, <2>2 DEF GameInv, InSection
<1>9. TheGame \in Games /\ TheGame = GameOf(u)
  BY <1>1, TheGameIs DEF GameInv
<1>10. /\ new \in Games /\ new.stats = TheGame.stats
       /\ new.events = Insert(TheGame.events, eventTime, event)
  <2> HIDE DEF event
  <2> QED BY <1>7, <1>9, GameWithEvent
<1>11. \A v \in Users : v # u => gameToEvents'[v] = gameToEvents[v] /\ GameOf(v)' = GameOf(v)
                                 /\ Done(v)' = Done(v)
  BY <1>1, <1>2 DEF GameOf, Done
<1>12. gameToEvents'[u] = new
  BY <1>1, <1>2
<1> HIDE DEF new, event, d
<1>13. \A v \in Users : v = u => GameOf(v)' = new /\ Done(v)' = n /\ Done(v) = n - 1
  BY <1>1, <1>2, <1>3, <1>12 DEF GameOf, Done
<1>14. GameTypes'
  <2>1. gameToEvents' \in [Users -> Games \cup {NULL}]
    BY <1>1, <1>2, <1>10
  <2>2. ASSUME NEW v \in Users
        PROVE  /\ gameToEvents'[v] = NULL <=>
                    told'[v] = <<>> \/ (current' = v /\ newGame' # NULL /\ Len(told'[v]) = 1)
               /\ current' = v /\ newGame' # NULL => gameToEvents'[v] = NULL
    <3>1. CASE v = u
      BY <1>1, <1>2, <1>10, <1>12, <3>1
    <3>2. CASE v # u
      BY <1>1, <1>2, <1>11, <3>2 DEF GameInv, GameTypes
    <3> QED BY <3>1, <3>2
  <2> QED BY <1>1, <1>2, <2>1, <2>2 DEF GameInv, GameTypes
<1>15. InBody' /\ InSection'
  BY <1>1 DEF InBody, InSection
<1>16. \A v \in Users : Plain(v)' = Plain(v)
  BY <1>1 DEF Plain
<1>17. ASSUME NEW v \in Users, NEW s \in Stats PROVE AllNames(v, s)' = AllNames(v, s)
  <2>1. ASSUME NEW i \in 1 .. Len(told[v]) PROVE NamesRead(v, i, s)' = NamesRead(v, i, s)
    <3>1. NamesRead(v, i, s)' = DOMAIN told[v][i].updates[s]
      BY <1>1, <1>2 DEF NamesRead
    <3>2. CASE v = u /\ i = n
      <4>1. NamesRead(v, i, s) = KeysTo(Now, s, At)
        BY <3>2 DEF NamesRead
      <4>2. KeysTo(Now, s, At) = DOMAIN Now.updates[s]
        BY <1>3, <1>4, NamesTo
      <4> QED BY <1>3, <3>1, <3>2, <4>1, <4>2
    <3>3. CASE ~(v = u /\ i = n)
      BY <3>1, <3>3 DEF NamesRead
    <3> QED BY <3>2, <3>3
  <2> QED BY <1>1, <2>1 DEF AllNames
<1>18. StatsRead'
  <2>1. SUFFICES ASSUME NEW v \in Users, Plain(v)', GameOf(v)' # NULL, NEW s \in Stats
                 PROVE  LastSaid(GameOf(v)'.stats[s], s, told'[v], AllNames(v, s)')
    BY DEF StatsRead
  <2>2. GameOf(v) # NULL /\ GameOf(v)'.stats = GameOf(v).stats
    <3>1. CASE v = u
      BY <1>2, <1>9, <1>10, <1>13, <3>1
    <3>2. CASE v # u
      BY <1>11, <2>1, <3>2
    <3> QED BY <3>1, <3>2
  <2>3. LastSaid(GameOf(v).stats[s], s, told[v], AllNames(v, s))
    BY <1>16, <2>1, <2>2 DEF GameInv, StatsRead
  <2> QED BY <1>1, <1>17, <2>2, <2>3
<1>19. EventsRead'
  <2>1. SUFFICES ASSUME NEW v \in Users, Plain(v)', GameOf(v)' # NULL
                 PROVE  Listed(GameOf(v)'.events, told'[v], Done(v)')
    BY DEF EventsRead
  <2>2. CASE v # u
    BY <1>1, <1>11, <1>16, <2>1, <2>2 DEF GameInv, EventsRead
  <2>3. CASE v = u
    <3>1. Listed(TheGame.events, told[u], n - 1)
      BY <1>2, <1>9, <1>13, <1>16, <2>1, <2>3 DEF GameInv, EventsRead
    <3>2. event = [name |-> told[u][n].name, description |-> told[u][n].description]
      BY <1>3, <1>6, <1>8, <1>16, <2>1, <2>3 DEF event, d
    <3>3. eventTime = told[u][n].time
      BY <1>3, <1>6
    <3>4. TheGame.events \in Maps(Times, Stored)
      BY <1>9 DEF Games
    <3> DEFINE list == TheGame.events
               events == told[u]
    <3> HIDE DEF n, list, events
    <3>5. events \in Seq(Events) /\ n = Len(events)
      BY <1>2 DEF events, n
    <3>6. Listed(Insert(list, events[n].time, event), events, n)
      BY <1>3, <1>7, <3>1, <3>2, <3>4, <3>5, ListedMore DEF list, events
    <3>7. Insert(list, events[n].time, event) = new.events
      BY <1>10, <3>3 DEF list, events
    <3> QED BY <1>1, <1>13, <2>3, <3>6, <3>7 DEF events
  <2> QED BY <2>2, <2>3
<1> QED BY <1>14, <1>15, <1>18, <1>19 DEF GameInv

(* A client without a Game has the invariant.                               *)
LEMMA GameInvInit == GameInit => GameInv
<1> SUFFICES ASSUME GameInit PROVE GameInv
  OBVIOUS
<1>1. /\ told \in [Users -> Seq(Events)] /\ description \in Seq(Texts)
      /\ \A u \in Users : told[u] = <<>> /\ gameToEvents[u] = NULL
  BY EmptySeq DEF GameInit
<1>2. GameTypes
  BY <1>1 DEF GameInit, GameTypes
<1>3. InBody /\ InSection
  BY DEF GameInit, InBody, InSection
<1>4. \A u \in Users : GameOf(u) = NULL
  BY <1>1 DEF GameInit, GameOf
<1> QED BY <1>2, <1>3, <1>4 DEF GameInv, StatsRead, EventsRead

(* The keyboard thread only reads what the main thread keeps.               *)
mainVars == <<gameToEvents, main, parseVars, told>>

(* Every step of the two threads keeps the invariant.                       *)
LEMMA GameInvKept ==
  ASSUME GameInv, [GameNext]_gameVars
  PROVE  GameInv'
<1>1. ASSUME NEW u \in Users, NEW e \in Events, HandleMessage(u, e, Body[u][e]) PROVE GameInv'
  BY <1>1, MessageKeeps
<1>2. CASE ParseLine
  <2>1. GameTypes' /\ InBody'
    BY <1>2, LineKeepsTypes DEF GameInv
  <2>2. InSection' /\ EventsRead'
    BY <1>2, LineKeepsSection, LineKeepsEvents DEF GameInv
  <2>3. StatsRead'
    BY <1>2, <2>1, LineKeepsStats DEF GameInv
  <2> QED BY <2>1, <2>2, <2>3 DEF GameInv
<1>3. CASE StoreEvent
  BY <1>3, StoreKeeps
<1>4. CASE Summary \/ UNCHANGED gameVars
  <2>1. UNCHANGED mainVars
    BY <1>4 DEF Summary, CopyEntry, NextMap, SummaryEnds, TypeSummary, gameVars, mainVars
  <2>2. UNCHANGED <<gameToEvents, main, lines, current, newGame, whichUpdate, eventName, eventTime, description, told>>
    BY <2>1 DEF mainVars, parseVars
  <2> USE <2>2 DEF Now, At
  <2>3. GameTypes' /\ InBody' /\ InSection'
    BY DEF GameInv, GameTypes, InBody, InSection, Plain
  <2>4. \A u : Plain(u)' = Plain(u) /\ GameOf(u)' = GameOf(u) /\ Done(u)' = Done(u)
    BY DEF Plain, GameOf, Done
  <2>5. \A u, s : AllNames(u, s)' = AllNames(u, s)
    BY DEF AllNames, NamesRead
  <2>6. StatsRead' /\ EventsRead'
    BY <2>4, <2>5 DEF GameInv, StatsRead, EventsRead
  <2> QED BY <2>3, <2>6 DEF GameInv
<1> QED BY <1>1, <1>2, <1>3, <1>4 DEF GameNext

(* What is in a follower's Games, and how far the report that is being read *)
(* has got, follows from the MESSAGEs: parseFrame mixes up no reports.      *)
THEOREM GameInvariant == GameSpec => []GameInv
<1>1. GameInit => GameInv
  BY GameInvInit
<1>2. GameInv /\ [GameNext]_gameVars => GameInv'
  BY GameInvKept
<1> QED BY <1>1, <1>2, PTL DEF GameSpec

(* Every event of every report that was read is in its reporter's Game, and *)
(* of two at the same time it is the first (Game.cpp, the end of            *)
(* parseFrame).                                                             *)
THEOREM AllEventsListed == GameSpec => []EventsListed
<1>1. GameInv => EventsListed
  <2> SUFFICES ASSUME GameInv, NEW u \in Users, Plain(u), current # u, gameToEvents[u] # NULL
               PROVE  /\ DOMAIN gameToEvents[u].events = {told[u][i].time : i \in 1 .. Len(told[u])}
                      /\ \A i \in 1 .. Len(told[u]) :
                           (\A j \in 1 .. i - 1 : told[u][j].time # told[u][i].time)
                           => gameToEvents[u].events[told[u][i].time] =
                                [name |-> told[u][i].name, description |-> told[u][i].description]
    BY DEF EventsListed
  <2>1. GameOf(u) = gameToEvents[u] /\ Done(u) = Len(told[u])
    BY DEF GameOf, Done
  <2>2. Listed(GameOf(u).events, told[u], Done(u))
    BY <2>1 DEF GameInv, EventsRead
  <2> QED BY <2>1, <2>2 DEF Listed
<1> QED BY <1>1, GameInvariant, PTL

(* Every statistic of a Game has the value that its reporter gave last, and *)
(* a Game has no others, as long as no text reads as a heading.             *)
THEOREM AllStatsAreLatest == GameSpec => []StatsAreLatest
<1>1. GameInv => StatsAreLatest
  <2> SUFFICES ASSUME GameInv, NEW u \in Users, Plain(u), current # u
               PROVE  /\ gameToEvents[u] = NULL <=> told[u] = <<>>
                      /\ gameToEvents[u] # NULL =>
                           \A s \in Stats, k \in Texts :
                             LET stats == gameToEvents[u].stats[s]
                                 saying == {i \in 1 .. Len(told[u]) : Mentions(told[u][i], s, k)}
                             IN  IF saying = {} THEN k \notin DOMAIN stats
                                 ELSE k \in DOMAIN stats /\ \E i \in saying :
                                        /\ \A j \in saying : j <= i
                                        /\ Says(told[u][i], s, k, stats[k])
    BY DEF StatsAreLatest
  <2>1. gameToEvents[u] = NULL <=> told[u] = <<>>
    BY DEF GameInv, GameTypes
  <2>2. ASSUME gameToEvents[u] # NULL, NEW s \in Stats, NEW k \in Texts
        PROVE  LET stats == gameToEvents[u].stats[s]
                   saying == {i \in 1 .. Len(told[u]) : Mentions(told[u][i], s, k)}
               IN  IF saying = {} THEN k \notin DOMAIN stats
                   ELSE k \in DOMAIN stats /\ \E i \in saying :
                          /\ \A j \in saying : j <= i
                          /\ Says(told[u][i], s, k, stats[k])
    <3> DEFINE stats == gameToEvents[u].stats[s]
               n == Len(told[u])
               saying == {i \in 1 .. n : Mentions(told[u][i], s, k)}
               names == AllNames(u, s)
    <3>1. LastSaid(stats, s, told[u], names)
      BY <2>2 DEF GameInv, StatsRead, GameOf
    <3>2. \A i \in 1 .. n : names[i] = DOMAIN told[u][i].updates[s]
      BY DEF AllNames, NamesRead
    <3>3. n \in Nat
      BY LenProperties DEF GameInv, GameTypes
    <3> HIDE DEF stats, names, n
    <3>4. \A i \in saying : k \in DOMAIN stats
      BY <3>1, <3>2 DEF LastSaid, Mentions, n
    <3>5. ASSUME k \in DOMAIN stats
          PROVE  \E i \in saying : (\A j \in saying : j <= i) /\ Says(told[u][i], s, k, stats[k])
      <4>1. PICK i \in 1 .. n : \E name \in names[i] :
              /\ Squeeze[name] = k
              /\ stats[k] = Squeeze[told[u][i].updates[s][name]]
              /\ \A j \in 1 .. n : \A other \in names[j] :
                   Squeeze[other] = k => j < i \/ (j = i /\ other <= name)
        BY <3>1, <3>5 DEF LastSaid, n
      <4>2. PICK name \in names[i] :
              /\ Squeeze[name] = k
              /\ stats[k] = Squeeze[told[u][i].updates[s][name]]
              /\ \A j \in 1 .. n : \A other \in names[j] :
                   Squeeze[other] = k => j < i \/ (j = i /\ other <= name)
        BY <4>1
      <4>3. i \in saying
        BY <3>2, <4>2 DEF Mentions
      <4>4. ASSUME NEW j \in saying PROVE j <= i
        <5>1. PICK other \in names[j] : Squeeze[other] = k
          BY <3>2, <4>4 DEF Mentions
        <5>2. j < i \/ j = i
          BY <4>2, <4>4, <5>1
        <5> QED BY <3>3, <5>2
      <4>5. \A other \in names[i] : Squeeze[other] = k => other <= name
        <5>1. ASSUME NEW other \in names[i], Squeeze[other] = k PROVE other <= name
          <6>1. i < i \/ other <= name
            BY <4>2, <5>1
          <6>2. ~(i < i)
            BY <3>3
          <6> QED BY <6>1, <6>2
        <5> QED BY <5>1
      <4>6. Says(told[u][i], s, k, stats[k])
        BY <3>2, <4>2, <4>5 DEF Says
      <4> QED BY <4>3, <4>4, <4>6
    <3>6. IF saying = {} THEN k \notin DOMAIN stats
          ELSE k \in DOMAIN stats /\ \E i \in saying :
                 (\A j \in saying : j <= i) /\ Says(told[u][i], s, k, stats[k])
      BY <3>4, <3>5
    <3> QED BY <3>6 DEF stats, n
  <2> QED BY <2>1, <2>2
<1> QED BY <1>1, GameInvariant, PTL

(* The least of a set of numbers.                                           *)
LEMMA LeastIs ==
  ASSUME NEW S \in SUBSET Nat, S # {}
  PROVE  Least(S) \in S /\ \A y \in S : Least(S) <= y
<1>1. PICK x \in S : \A y \in S : <<y, x>> \notin OpToRel(<, Nat)
  BY NatLessThanWellFounded, WFMin, Zenon
<1>2. \A y \in S : x <= y
  <2> SUFFICES ASSUME NEW y \in S PROVE x <= y
    OBVIOUS
  <2>1. ~(y < x)
    BY <1>1 DEF OpToRel
  <2> QED BY <2>1
<1> QED BY <1>2 DEF Least

-----------------------------------------------------------------------------
(* A summary                                                                *)

(* What the main thread does while a summary is written.                    *)
LEMMA GamesGrow ==
  ASSUME GameInv, NEW u \in Users, gameToEvents[u] # NULL,
         \/ \E v \in Users, e \in Events : HandleMessage(v, e, Body[v][e])
         \/ ParseLine \/ StoreEvent
  PROVE  /\ gameToEvents'[u] # NULL
         /\ Done(u)' \in Nat /\ Done(u) \in Nat /\ Done(u) <= Done(u)'
         /\ Len(told[u]) \in Nat /\ Len(told'[u]) \in Nat /\ Len(told[u]) <= Len(told'[u])
         /\ \A i \in 1 .. Len(told[u]) : told'[u][i] = told[u][i]
         /\ Plain(u)' => Plain(u)
<1>1. /\ told[u] \in Seq(Events) /\ Len(told[u]) \in Nat
      /\ (current = u => Len(told[u]) \in Nat \ {0})
      /\ (main = "idle" => current = NULL) /\ NULL \notin Users
  <2>1. current = u => told[u] # <<>>
    BY GameAssumption DEF GameInv, GameTypes, InBody
  <2> QED BY <2>1, EmptySeq, LenProperties, GameAssumption DEF GameInv, GameTypes
<1>2. ASSUME NEW v \in Users, NEW e \in Events, HandleMessage(v, e, Body[v][e])
      PROVE  /\ gameToEvents'[u] # NULL
             /\ Done(u)' \in Nat /\ Done(u) \in Nat /\ Done(u) <= Done(u)'
             /\ Len(told'[u]) \in Nat /\ Len(told[u]) <= Len(told'[u])
             /\ \A i \in 1 .. Len(told[u]) : told'[u][i] = told[u][i]
             /\ Plain(u)' => Plain(u)
  <2>1. main = "idle" /\ current' = v /\ gameToEvents' = gameToEvents
        /\ told' = [told EXCEPT ![v] = Append(@, e)]
    BY <1>2 DEF HandleMessage
  <2>2. current = NULL
    BY <1>1, <2>1
  <2>3. /\ Len(told'[v]) = Len(told[v]) + 1 /\ Len(told[v]) \in Nat
        /\ \A i \in 1 .. Len(told[v]) : told'[v][i] = told[v][i]
        /\ \A w \in Users : w # v => told'[w] = told[w]
        /\ \A w \in Users : Plain(w)' => Plain(w)
    BY <2>1, ToldMore DEF GameInv
  <2>4. CASE u = v
    <3>1. Done(u) = Len(told[u]) /\ Done(u)' = Len(told'[u]) - 1
      BY <1>1, <2>1, <2>2, <2>4 DEF Done
    <3> QED BY <1>1, <2>1, <2>3, <2>4, <3>1
  <2>5. CASE u # v
    <3>1. Done(u) = Len(told[u]) /\ Done(u)' = Len(told[u])
      BY <1>1, <2>1, <2>2, <2>3, <2>5 DEF Done
    <3> QED BY <1>1, <2>1, <2>3, <2>5, <3>1
  <2> QED BY <2>4, <2>5
<1>3. CASE ParseLine
  <2>1. told' = told /\ current' = current
    BY <1>3 DEF ParseLine
  <2>2. gameToEvents'[u] # NULL
    <3>1. CASE ParseStat(Head(lines))
      <4>1. GameOf(u) # NULL /\ main = "parse" /\ current \in Users
        BY <1>3, NextLine DEF GameInv, GameTypes, GameOf
      <4>2. gameToEvents' = gameToEvents \/ newGame = NULL
        BY <3>1 DEF ParseStat, Change
      <4>3. CASE newGame = NULL
        <5>1. GameOf(current)' \in Games /\ \A w \in Users : w # current => GameOf(w)' = GameOf(w)
          BY <1>3, <3>1, StatChanges DEF GameInv
        <5>2. newGame' = NULL
          BY <3>1, <4>3 DEF ParseStat, Change
        <5>3. \A w \in Users : GameOf(w)' = gameToEvents'[w]
          BY <5>2 DEF GameOf
        <5> QED BY <2>1, <4>1, <5>1, <5>3, GameAssumption
      <4> QED BY <4>2, <4>3
    <3>2. CASE UNCHANGED gameToEvents
      BY <3>2
    <3> QED BY <1>3, <3>1, <3>2 DEF ParseLine, ParseHeading, ParseTop, ParseDescription
  <2>3. Done(u)' = Done(u) /\ Done(u) \in Nat
    BY <1>1, <2>1 DEF Done
  <2>4. Plain(u)' => Plain(u)
    BY <2>1 DEF Plain
  <2> QED BY <1>1, <2>1, <2>2, <2>3, <2>4
<1>4. CASE StoreEvent
  <2>1. told' = told /\ current' = NULL
    BY <1>4 DEF StoreEvent
  <2>2. gameToEvents'[u] # NULL
    <3>1. GameInv'
      BY <1>4, StoreKeeps
    <3>2. told[u] # <<>>
      BY DEF GameInv, GameTypes
    <3>3. ~(current' = u)
      BY <1>1, <2>1
    <3> QED BY <2>1, <3>1, <3>2, <3>3 DEF GameInv, GameTypes
  <2>3. Done(u)' = Len(told[u]) /\ Done(u) \in Nat /\ Done(u) <= Len(told[u])
    BY <1>1, <2>1 DEF Done
  <2>4. Plain(u)' => Plain(u)
    BY <2>1 DEF Plain
  <2> QED BY <1>1, <2>1, <2>2, <2>3, <2>4
<1> QED BY <1>1, <1>2, <1>3, <1>4

(* A Game in the map has what the reports that were read have.              *)
LEMMA GameHas ==
  ASSUME GameInv, NEW u \in Users, gameToEvents[u] # NULL
  PROVE  /\ Done(u) \in Nat /\ Len(told[u]) \in Nat /\ Done(u) <= Len(told[u])
         /\ \A s \in Sections : MapAt(gameToEvents[u], s) \in Maps(Keys, Texts \cup Stored)
         /\ Plain(u) =>
              /\ \A s \in Stats : \A i \in 1 .. Done(u) :
                   \A name \in DOMAIN told[u][i].updates[s] :
                     Squeeze[name] \in DOMAIN MapAt(gameToEvents[u], s)
              /\ \A i \in 1 .. Done(u) : told[u][i].time \in DOMAIN MapAt(gameToEvents[u], 4)
              /\ \A s \in Stats : \A k \in DOMAIN MapAt(gameToEvents[u], s) :
                   \E i \in 1 .. Len(told[u]) :
                     /\ \E name \in DOMAIN told[u][i].updates[s] :
                          /\ Squeeze[name] = k
                          /\ Squeeze[told[u][i].updates[s][name]] = MapAt(gameToEvents[u], s)[k]
                     /\ \A j \in 1 .. Done(u) : Mentions(told[u][j], s, k) => j <= i
<1> DEFINE game == gameToEvents[u]
<1>1. /\ told[u] \in Seq(Events) /\ Len(told[u]) \in Nat
      /\ (current = u => Len(told[u]) \in Nat \ {0})
  <2>1. current = u => told[u] # <<>>
    BY GameAssumption DEF GameInv, GameTypes, InBody
  <2> QED BY <2>1, EmptySeq, LenProperties, GameAssumption DEF GameInv, GameTypes
<1>2. Done(u) \in Nat /\ Done(u) <= Len(told[u]) /\ (current = u => Done(u) < Len(told[u]))
  BY <1>1 DEF Done
<1>3. game \in Games /\ GameOf(u) = game
  BY DEF GameInv, GameTypes, GameOf
<1>4. ASSUME NEW s \in Sections PROVE MapAt(game, s) \in Maps(Keys, Texts \cup Stored)
  <2>1. CASE s \in Stats
    <3>1. game.stats[s] \in Maps(Texts, Texts)
      BY <1>3, <2>1 DEF Games
    <3>2. DOMAIN game.stats[s] \in SUBSET Texts /\ game.stats[s] \in [DOMAIN game.stats[s] -> Texts]
      BY <3>1, MapsAre
    <3>3. DOMAIN game.stats[s] \in SUBSET Keys
          /\ game.stats[s] \in [DOMAIN game.stats[s] -> Texts \cup Stored]
      BY <3>2 DEF Keys
    <3>4. game.stats[s] \in Maps(Keys, Texts \cup Stored)
      BY <3>3, MapsAre
    <3> QED BY <2>1, <3>4 DEF MapAt
  <2>2. CASE s \notin Stats
    <3>1. game.events \in Maps(Times, Stored)
      BY <1>3 DEF Games
    <3>2. DOMAIN game.events \in SUBSET Times /\ game.events \in [DOMAIN game.events -> Stored]
      BY <3>1, MapsAre
    <3>3. DOMAIN game.events \in SUBSET Keys
          /\ game.events \in [DOMAIN game.events -> Texts \cup Stored]
      BY <3>2 DEF Keys
    <3>4. game.events \in Maps(Keys, Texts \cup Stored)
      BY <3>3, MapsAre
    <3> QED BY <2>2, <3>4 DEF MapAt
  <2> QED BY <2>1, <2>2
<1>5. ASSUME Plain(u), NEW s \in Stats
      PROVE  /\ \A i \in 1 .. Done(u) : \A name \in DOMAIN told[u][i].updates[s] :
                  Squeeze[name] \in DOMAIN MapAt(game, s)
             /\ \A k \in DOMAIN MapAt(game, s) :
                  \E i \in 1 .. Len(told[u]) :
                    /\ \E name \in DOMAIN told[u][i].updates[s] :
                         Squeeze[name] = k /\ Squeeze[told[u][i].updates[s][name]] = MapAt(game, s)[k]
                    /\ \A j \in 1 .. Done(u) : Mentions(told[u][j], s, k) => j <= i
  <2> DEFINE stats == MapAt(game, s)
             names == AllNames(u, s)
             n == Len(told[u])
             done == Done(u)
  <2>1. stats = game.stats[s]
    BY DEF MapAt
  <2>2. LastSaid(stats, s, told[u], names)
    BY <1>3, <1>5, <2>1 DEF GameInv, StatsRead
  <2>3. \A i \in 1 .. done : i \in 1 .. n /\ names[i] = DOMAIN told[u][i].updates[s]
    <3>1. \A i \in 1 .. done : i \in 1 .. n /\ ~(current = u /\ i = n)
      BY <1>1, <1>2
    <3> QED BY <3>1 DEF AllNames, NamesRead
  <2>4. \A i \in 1 .. n : names[i] \subseteq DOMAIN told[u][i].updates[s]
    <3> SUFFICES ASSUME NEW i \in 1 .. n PROVE names[i] \subseteq DOMAIN told[u][i].updates[s]
      OBVIOUS
    <3>1. names[i] = NamesRead(u, i, s)
      BY DEF AllNames
    <3>2. CASE current = u /\ i = n
      <4>1. Now = told[u][i] /\ Now \in Events /\ main = "parse"
        BY <1>1, <3>2, GameAssumption, LenProperties DEF Now, GameInv, GameTypes
      <4>2. At \in Nat
        <5>1. Last(Now) \in Nat
          BY <4>1, Sizes
        <5> QED BY <4>1, <5>1 DEF GameInv, InBody
      <4>3. KeysTo(Now, s, At) \subseteq DOMAIN Now.updates[s]
        BY <4>1, <4>2, NamesTo
      <4> QED BY <3>1, <3>2, <4>1, <4>3 DEF NamesRead
    <3>3. CASE ~(current = u /\ i = n)
      BY <3>1, <3>3 DEF NamesRead
    <3> QED BY <3>2, <3>3
  <2> HIDE DEF stats, names, n, done
  <2>5. \A i \in 1 .. done : \A name \in DOMAIN told[u][i].updates[s] : Squeeze[name] \in DOMAIN stats
    BY <2>2, <2>3 DEF LastSaid, n
  <2>6. ASSUME NEW k \in DOMAIN stats
        PROVE  \E i \in 1 .. n :
                 /\ \E name \in DOMAIN told[u][i].updates[s] :
                      Squeeze[name] = k /\ Squeeze[told[u][i].updates[s][name]] = stats[k]
                 /\ \A j \in 1 .. done : Mentions(told[u][j], s, k) => j <= i
    <3>1. PICK i \in 1 .. n : \E name \in names[i] :
            /\ Squeeze[name] = k
            /\ stats[k] = Squeeze[told[u][i].updates[s][name]]
            /\ \A j \in 1 .. n : \A other \in names[j] :
                 Squeeze[other] = k => j < i \/ (j = i /\ other <= name)
      BY <2>2 DEF LastSaid, n
    <3>2. PICK name \in names[i] :
            /\ Squeeze[name] = k
            /\ stats[k] = Squeeze[told[u][i].updates[s][name]]
            /\ \A j \in 1 .. n : \A other \in names[j] :
                 Squeeze[other] = k => j < i \/ (j = i /\ other <= name)
      BY <3>1
    <3>3. name \in DOMAIN told[u][i].updates[s]
      BY <2>4
    <3>4. ASSUME NEW j \in 1 .. done, Mentions(told[u][j], s, k) PROVE j <= i
      <4>1. PICK other \in DOMAIN told[u][j].updates[s] : Squeeze[other] = k
        BY <3>4 DEF Mentions
      <4>2. j < i \/ j = i
        BY <2>3, <3>2, <4>1
      <4> QED BY <4>2
    <3> QED BY <3>2, <3>3, <3>4
  <2> QED BY <2>5, <2>6 DEF stats, n, done
<1>6. ASSUME Plain(u), NEW i \in 1 .. Done(u) PROVE told[u][i].time \in DOMAIN MapAt(game, 4)
  <2>1. Listed(game.events, told[u], Done(u))
    BY <1>3, <1>6 DEF GameInv, EventsRead
  <2> QED BY <1>6, <2>1 DEF Listed, MapAt, Stats
<1> QED BY <1>1, <1>2, <1>4, <1>5, <1>6

SummaryInv == SummaryTypes /\ SummaryHas

WithEntry(sum, k, v) == [sum EXCEPT !.past = {k}, !.file[sum.at] = Assign(@, k, v)]

(* One turn of a loop of to_string adds one entry to the file.              *)
LEMMA WithEntryIs ==
  ASSUME NEW sum \in Summaries, NEW k \in Keys, NEW v \in Texts \cup Stored,
         NEW after, after = WithEntry(sum, k, v)
  PROVE  /\ after \in Summaries
         /\ after.of = sum.of /\ after.at = sum.at /\ after.since = sum.since /\ after.past = {k}
         /\ after.file[sum.at] = Assign(sum.file[sum.at], k, v)
         /\ \A s \in Sections : s # sum.at => after.file[s] = sum.file[s]
<1>1. /\ sum.of \in Users /\ sum.at \in Sections /\ sum.since \in Nat
      /\ sum.file \in [Sections -> Maps(Keys, Texts \cup Stored)]
  BY DEF Summaries
<1>2. Assign(sum.file[sum.at], k, v) \in Maps(Keys, Texts \cup Stored)
  BY <1>1, AssignIs
<1>3. after = [of |-> sum.of, at |-> sum.at, past |-> {k},
               file |-> [sum.file EXCEPT ![sum.at] = Assign(sum.file[sum.at], k, v)],
               since |-> sum.since]
  BY DEF WithEntry, Summaries
<1> QED BY <1>1, <1>2, <1>3 DEF Summaries

(* While the main thread reads, a summary that is being written misses      *)
(* nothing more of what was there before it.                                *)
LEMMA MainKeepsSummary ==
  ASSUME GameInv, SummaryInv, UNCHANGED summaryVars,
         \/ \E v \in Users, e \in Events : HandleMessage(v, e, Body[v][e])
         \/ ParseLine \/ StoreEvent
  PROVE  SummaryInv'
<1>1. keyboard' = keyboard /\ summary' = summary
  BY DEF summaryVars
<1>2. CASE keyboard = "idle"
  BY <1>1, <1>2 DEF SummaryInv, SummaryTypes, SummaryHas
<1>3. CASE keyboard # "idle"
  <2> PICK u \in Users : u = summary.of
    BY <1>3 DEF SummaryInv, SummaryTypes, Summaries
  <2> DEFINE events == told[u]
             more == told'[u]
             before == 1 .. summary.since
  <2>1. /\ keyboard \in {"copy", "written"} /\ summary \in Summaries /\ u \in Users
        /\ gameToEvents[u] # NULL /\ summary.since <= Done(u) /\ summary.since \in Nat
        /\ keyboard = "written" => summary.at = 4
    BY <1>3 DEF SummaryInv, SummaryTypes, Summaries
  <2>2. /\ gameToEvents'[u] # NULL
        /\ Done(u)' \in Nat /\ Done(u) \in Nat /\ Done(u) <= Done(u)'
        /\ Len(events) \in Nat /\ Len(more) \in Nat /\ Len(events) <= Len(more)
        /\ \A i \in 1 .. Len(events) : more[i] = events[i]
        /\ Plain(u)' => Plain(u)
    BY <2>1, GamesGrow
  <2>3. Done(u) <= Len(events)
    BY <2>1, GameHas
  <2>4. SummaryTypes'
    <3>1. Done(u)' = IF current' = u THEN Len(told'[u]) - 1 ELSE Len(told'[u])
      BY DEF Done
    <3>2. summary.since <= Done(u)'
      BY <2>1, <2>2
    <3> QED BY <1>1, <2>1, <2>2, <3>1, <3>2 DEF SummaryTypes, Done
  <2>5. SummaryHas'
    <3>1. SUFFICES ASSUME Plain(u)'
                   PROVE  /\ \A s \in Stats, i \in before : \A name \in DOMAIN more[i].updates[s] :
                               Passed(s, Squeeze[name])
                          /\ \A i \in before : Passed(4, more[i].time)
                          /\ \A s \in Stats : \A k \in DOMAIN summary.file[s] :
                               \E i \in 1 .. Len(more) :
                                 /\ \E name \in DOMAIN more[i].updates[s] :
                                      /\ Squeeze[name] = k
                                      /\ Squeeze[more[i].updates[s][name]] = summary.file[s][k]
                                 /\ \A j \in before : Mentions(more[j], s, k) => j <= i
      <4>1. \A s, k : Passed(s, k)' <=> Passed(s, k)
        BY <1>1 DEF Passed
      <4>2. Plain(u)' <=> \A i \in 1 .. Len(more) : PlainEvent(more[i])
        BY DEF Plain
      <4> QED BY <1>1, <4>1, <4>2 DEF SummaryHas, Passed, Plain
    <3>2. Plain(u)
      BY <2>2, <3>1
    <3>3. /\ \A s \in Stats, i \in before : \A name \in DOMAIN events[i].updates[s] :
               Passed(s, Squeeze[name])
          /\ \A i \in before : Passed(4, events[i].time)
          /\ \A s \in Stats : \A k \in DOMAIN summary.file[s] :
               \E i \in 1 .. Len(events) :
                 /\ \E name \in DOMAIN events[i].updates[s] :
                      Squeeze[name] = k /\ Squeeze[events[i].updates[s][name]] = summary.file[s][k]
                 /\ \A j \in before : Mentions(events[j], s, k) => j <= i
      BY <1>3, <3>2 DEF SummaryInv, SummaryHas
    <3>4. \A i \in before : i \in 1 .. Len(events) /\ more[i] = events[i]
      BY <2>1, <2>2, <2>3
    <3>5. \A i \in 1 .. Len(events) : i \in 1 .. Len(more) /\ more[i] = events[i]
      BY <2>2
    <3> HIDE DEF events, more, before
    <3>6. ASSUME NEW s \in Stats, NEW k \in DOMAIN summary.file[s]
          PROVE  \E i \in 1 .. Len(more) :
                   /\ \E name \in DOMAIN more[i].updates[s] :
                        Squeeze[name] = k /\ Squeeze[more[i].updates[s][name]] = summary.file[s][k]
                   /\ \A j \in before : Mentions(more[j], s, k) => j <= i
      <4>1. PICK i \in 1 .. Len(events) :
              /\ \E name \in DOMAIN events[i].updates[s] :
                   Squeeze[name] = k /\ Squeeze[events[i].updates[s][name]] = summary.file[s][k]
              /\ \A j \in before : Mentions(events[j], s, k) => j <= i
        BY <3>3
      <4>2. i \in 1 .. Len(more) /\ more[i] = events[i]
        BY <3>5
      <4>3. \A j \in before : Mentions(more[j], s, k) => j <= i
        BY <3>4, <4>1
      <4> QED BY <4>1, <4>2, <4>3
    <3> QED BY <3>3, <3>4, <3>6
  <2> QED BY <2>4, <2>5 DEF SummaryInv
<1> QED BY <1>2, <1>3

(* A turn of the loops of to_string passes only what it has copied.         *)
LEMMA KeyboardKeepsSummary ==
  ASSUME GameInv, SummaryInv, Summary
  PROVE  SummaryInv'
<1>1. UNCHANGED mainVars
  BY DEF Summary, CopyEntry, NextMap, SummaryEnds, TypeSummary, mainVars
<1>2. /\ \A u : Done(u)' = Done(u) /\ (Plain(u)' <=> Plain(u))
      /\ told' = told /\ gameToEvents' = gameToEvents
  BY <1>1 DEF mainVars, parseVars, Done, Plain
<1>3. CASE SummaryEnds
  BY <1>3 DEF SummaryEnds, SummaryInv, SummaryTypes, SummaryHas
<1>4. ASSUME NEW u \in Users, TypeSummary(u) PROVE SummaryInv'
  <2>1. /\ gameToEvents[u] # NULL /\ keyboard' = "copy"
        /\ summary' = [of |-> u, at |-> 1, past |-> {},
                       file |-> [s \in Sections |-> EmptyMap], since |-> Done(u)]
    BY <1>4 DEF TypeSummary
  <2>2. Done(u) \in Nat
    BY <2>1, GameHas
  <2>3. EmptyMap \in Maps(Keys, Texts \cup Stored) /\ DOMAIN EmptyMap = {}
    <3>1. DOMAIN EmptyMap = {} /\ EmptyMap \in [DOMAIN EmptyMap -> Texts \cup Stored]
      BY DEF EmptyMap
    <3> QED BY <3>1, MapsAre
  <2>4. summary' \in Summaries
    BY <2>1, <2>2, <2>3 DEF Summaries, Sections
  <2>5. SummaryTypes'
    BY <1>2, <2>1, <2>2, <2>4 DEF SummaryTypes
  <2>6. summary'.at = 1 /\ summary'.past = {} /\ \A s \in Sections : DOMAIN summary'.file[s] = {}
    BY <2>1, <2>3
  <2>7. \A s \in Sections : \A k : Passed(s, k)'
    BY <2>1, <2>6 DEF Passed, Sections
  <2>8. \A s \in Stats : s \in Sections
    BY DEF Stats, Sections
  <2>9. 4 \in Sections
    BY DEF Sections
  <2>10. SummaryHas'
    BY <2>6, <2>7, <2>8, <2>9 DEF SummaryHas
  <2> QED BY <2>5, <2>10 DEF SummaryInv
<1>5. ASSUME keyboard = "copy"
      PROVE  /\ summary \in Summaries /\ summary.of \in Users /\ summary.at \in Sections
             /\ gameToEvents[summary.of] # NULL /\ summary.since <= Done(summary.of)
             /\ summary.since \in Nat /\ Done(summary.of) \in Nat
             /\ summary.past \in SUBSET Keys
             /\ summary.file \in [Sections -> Maps(Keys, Texts \cup Stored)]
             /\ MapAt(gameToEvents[summary.of], summary.at) \in Maps(Keys, Texts \cup Stored)
             /\ DOMAIN MapAt(gameToEvents[summary.of], summary.at) \in SUBSET Keys
             /\ Keys \in SUBSET Nat
  <2>1. /\ summary \in Summaries /\ gameToEvents[summary.of] # NULL
        /\ summary.since <= Done(summary.of)
    BY <1>5 DEF SummaryInv, SummaryTypes
  <2>2. /\ summary.of \in Users /\ summary.at \in Sections /\ summary.since \in Nat
        /\ summary.past \in SUBSET Keys
        /\ summary.file \in [Sections -> Maps(Keys, Texts \cup Stored)]
    BY <2>1 DEF Summaries
  <2>3. Done(summary.of) \in Nat
        /\ MapAt(gameToEvents[summary.of], summary.at) \in Maps(Keys, Texts \cup Stored)
    BY <2>1, <2>2, GameHas
  <2>4. Keys \in SUBSET Nat
    BY GameAssumption DEF Keys
  <2> QED BY <2>1, <2>2, <2>3, <2>4, MapsAre
<1> DEFINE u == summary.of
           at == summary.at
           map == MapAt(gameToEvents[summary.of], summary.at)
           since == summary.since
           file == summary.file
(* What was there before is in the file, or still to come.                  *)
<1>6. ASSUME keyboard = "copy", Plain(u)
      PROVE  /\ \A s \in Stats, i \in 1 .. since : \A name \in DOMAIN told[u][i].updates[s] :
                  Passed(s, Squeeze[name])
             /\ \A i \in 1 .. since : Passed(4, told[u][i].time)
             /\ \A s \in Stats : \A k \in DOMAIN file[s] :
                  \E i \in 1 .. Len(told[u]) :
                    /\ \E name \in DOMAIN told[u][i].updates[s] :
                         Squeeze[name] = k /\ Squeeze[told[u][i].updates[s][name]] = file[s][k]
                    /\ \A j \in 1 .. since : Mentions(told[u][j], s, k) => j <= i
             /\ at \in Stats => \A i \in 1 .. since : \A name \in DOMAIN told[u][i].updates[at] :
                                  Squeeze[name] \in DOMAIN map
             /\ at = 4 => \A i \in 1 .. since : told[u][i].time \in DOMAIN map
             /\ at \in Stats => \A k \in DOMAIN map :
                  \E i \in 1 .. Len(told[u]) :
                    /\ \E name \in DOMAIN told[u][i].updates[at] :
                         Squeeze[name] = k /\ Squeeze[told[u][i].updates[at][name]] = map[k]
                    /\ \A j \in 1 .. since : Mentions(told[u][j], at, k) => j <= i
  <2>1. /\ \A s \in Stats, i \in 1 .. since : \A name \in DOMAIN told[u][i].updates[s] :
             Passed(s, Squeeze[name])
        /\ \A i \in 1 .. since : Passed(4, told[u][i].time)
        /\ \A s \in Stats : \A k \in DOMAIN file[s] :
             \E i \in 1 .. Len(told[u]) :
               /\ \E name \in DOMAIN told[u][i].updates[s] :
                    Squeeze[name] = k /\ Squeeze[told[u][i].updates[s][name]] = file[s][k]
               /\ \A j \in 1 .. since : Mentions(told[u][j], s, k) => j <= i
    BY <1>6 DEF SummaryInv, SummaryHas
  <2>2. \A i \in 1 .. since : i \in 1 .. Done(u)
    BY <1>5, <1>6
  <2>3. /\ \A s \in Stats : \A i \in 1 .. Done(u) :
             \A name \in DOMAIN told[u][i].updates[s] :
               Squeeze[name] \in DOMAIN MapAt(gameToEvents[u], s)
        /\ \A i \in 1 .. Done(u) : told[u][i].time \in DOMAIN MapAt(gameToEvents[u], 4)
        /\ \A s \in Stats : \A k \in DOMAIN MapAt(gameToEvents[u], s) :
             \E i \in 1 .. Len(told[u]) :
               /\ \E name \in DOMAIN told[u][i].updates[s] :
                    /\ Squeeze[name] = k
                    /\ Squeeze[told[u][i].updates[s][name]] = MapAt(gameToEvents[u], s)[k]
               /\ \A j \in 1 .. Done(u) : Mentions(told[u][j], s, k) => j <= i
    BY <1>5, <1>6, GameHas
  <2>4. at \in Stats => \A k \in DOMAIN map :
             \E i \in 1 .. Len(told[u]) :
               /\ \E name \in DOMAIN told[u][i].updates[at] :
                    Squeeze[name] = k /\ Squeeze[told[u][i].updates[at][name]] = map[k]
               /\ \A j \in 1 .. Done(u) : Mentions(told[u][j], at, k) => j <= i
    BY <2>3
  <2>5. at \in Stats => \A k \in DOMAIN map :
             \E i \in 1 .. Len(told[u]) :
               /\ \E name \in DOMAIN told[u][i].updates[at] :
                    Squeeze[name] = k /\ Squeeze[told[u][i].updates[at][name]] = map[k]
               /\ \A j \in 1 .. since : Mentions(told[u][j], at, k) => j <= i
    BY <2>2, <2>4
  <2> QED BY <2>1, <2>2, <2>3, <2>5
<1>7. CASE CopyEntry
  <2> DEFINE k == Least(After)
             v == map[k]
  <2>1. keyboard = "copy" /\ keyboard' = "copy" /\ After # {} /\ summary' = WithEntry(summary, k, v)
    BY <1>7 DEF CopyEntry, WithEntry
  <2>2. After \in SUBSET DOMAIN map /\ After \in SUBSET Nat
    BY <1>5, <2>1 DEF After
  <2>3. k \in After /\ \A y \in After : k <= y
    BY <2>1, <2>2, LeastIs
  <2>4. k \in DOMAIN map /\ k \in Keys /\ k \in Nat /\ v \in Texts \cup Stored
        /\ \A j \in summary.past : j < k
    <3>1. map \in [DOMAIN map -> Texts \cup Stored]
      BY <1>5, <2>1, MapsAre
    <3>2. k \in DOMAIN map /\ \A j \in summary.past : j < k
      BY <2>3 DEF After
    <3> QED BY <1>5, <2>1, <2>2, <2>3, <3>1, <3>2
  <2> HIDE DEF k, v
  <2>5. /\ summary' \in Summaries
        /\ summary'.of = u /\ summary'.at = at /\ summary'.since = since /\ summary'.past = {k}
        /\ summary'.file[at] = Assign(file[at], k, v)
        /\ \A s \in Sections : s # at => summary'.file[s] = file[s]
    BY <1>5, <2>1, <2>4, WithEntryIs
  <2>6. SummaryTypes'
    <3>1. Done(u) = IF current' = u THEN Len(told'[u]) - 1 ELSE Len(told'[u])
      BY <1>1 DEF mainVars, parseVars, Done
    <3> QED BY <1>2, <1>5, <2>1, <2>5, <3>1 DEF SummaryTypes, Done
  <2>7. DOMAIN summary'.file[at] = DOMAIN file[at] \cup {k}
        /\ \A x \in DOMAIN file[at] \cup {k} : summary'.file[at][x] = IF x = k THEN v ELSE file[at][x]
    BY <2>5 DEF Assign
  <2>8. ASSUME NEW s \in Sections, NEW x, Passed(s, x), s = at => x \in DOMAIN map
        PROVE  Passed(s, x)'
    <3>1. CASE at < s
      BY <2>5, <3>1 DEF Passed
    <3>2. CASE x \in DOMAIN file[s]
      BY <2>5, <2>7, <3>2 DEF Passed
    <3>3. CASE at = s /\ \A j \in summary.past : j < x
      <4>1. x \in After
        BY <2>8, <3>3 DEF After
      <4>2. k <= x /\ x \in Nat
        BY <2>2, <2>3, <4>1
      <4>3. CASE k = x
        BY <2>5, <2>7, <3>3, <4>3 DEF Passed
      <4>4. CASE k # x
        <5>1. \A j \in {k} : j < x
          BY <2>4, <4>2, <4>4
        <5> QED BY <2>1, <2>5, <3>3, <5>1 DEF Passed
      <4> QED BY <4>3, <4>4
    <3> QED BY <2>8, <3>1, <3>2, <3>3 DEF Passed
  <2>9. SummaryHas'
    <3>1. SUFFICES ASSUME Plain(u)
                   PROVE  /\ \A s \in Stats, i \in 1 .. since : \A name \in DOMAIN told[u][i].updates[s] :
                               Passed(s, Squeeze[name])'
                          /\ \A i \in 1 .. since : Passed(4, told[u][i].time)'
                          /\ \A s \in Stats : \A x \in DOMAIN summary'.file[s] :
                               \E i \in 1 .. Len(told[u]) :
                                 /\ \E name \in DOMAIN told[u][i].updates[s] :
                                      /\ Squeeze[name] = x
                                      /\ Squeeze[told[u][i].updates[s][name]] = summary'.file[s][x]
                                 /\ \A j \in 1 .. since : Mentions(told[u][j], s, x) => j <= i
      <4>1. Plain(u) <=> \A i \in 1 .. Len(told'[u]) : PlainEvent(told'[u][i])
        BY <1>2 DEF Plain
      <4> QED BY <1>2, <2>5, <4>1 DEF SummaryHas, Plain
    <3>2. \A s \in Stats, i \in 1 .. since : \A name \in DOMAIN told[u][i].updates[s] :
            Passed(s, Squeeze[name])'
      <4> SUFFICES ASSUME NEW s \in Stats, NEW i \in 1 .. since,
                          NEW name \in DOMAIN told[u][i].updates[s]
                   PROVE  Passed(s, Squeeze[name])'
        OBVIOUS
      <4> DEFINE x == Squeeze[name]
      <4>1. s \in Sections
        BY DEF Stats, Sections
      <4>2. Passed(s, x) /\ (s = at => x \in DOMAIN map)
        BY <1>6, <2>1, <3>1
      <4> QED BY <2>8, <4>1, <4>2
    <3>3. \A i \in 1 .. since : Passed(4, told[u][i].time)'
      <4> SUFFICES ASSUME NEW i \in 1 .. since PROVE Passed(4, told[u][i].time)'
        OBVIOUS
      <4> PICK x : x = told[u][i].time
        OBVIOUS
      <4>1. 4 \in Sections
        BY DEF Sections
      <4>2. Passed(4, x) /\ (4 = at => x \in DOMAIN map)
        BY <1>6, <2>1, <3>1
      <4>3. Passed(4, x)'
        BY <2>8, <4>1, <4>2
      <4> QED BY <1>2, <2>5, <4>3 DEF Passed
    <3>4. ASSUME NEW s \in Stats, NEW x \in DOMAIN summary'.file[s]
          PROVE  \E i \in 1 .. Len(told[u]) :
                   /\ \E name \in DOMAIN told[u][i].updates[s] :
                        Squeeze[name] = x /\ Squeeze[told[u][i].updates[s][name]] = summary'.file[s][x]
                   /\ \A j \in 1 .. since : Mentions(told[u][j], s, x) => j <= i
      <4>1. s \in Sections
        BY DEF Stats, Sections
      <4>2. CASE s = at /\ x = k
        <5>1. summary'.file[s][x] = map[k]
          BY <2>7, <4>2 DEF v
        <5> QED BY <1>6, <2>1, <2>4, <3>1, <4>2, <5>1
      <4>3. CASE ~(s = at /\ x = k)
        <5>1. x \in DOMAIN file[s] /\ summary'.file[s][x] = file[s][x]
          BY <2>5, <2>7, <3>4, <4>1, <4>3
        <5> QED BY <1>6, <2>1, <3>1, <5>1
      <4> QED BY <4>2, <4>3
    <3> QED BY <3>2, <3>3, <3>4
  <2> QED BY <2>6, <2>9 DEF SummaryInv
<1>8. CASE NextMap
  <2>1. keyboard = "copy" /\ After = {}
    BY <1>8 DEF NextMap
  <2>2. \A x \in DOMAIN map : ~\A j \in summary.past : j < x
    BY <2>1 DEF After
  <2>3. at \in 1 .. 4
    BY <1>5, <2>1 DEF Sections
  <2>4. \/ at < 4 /\ keyboard' = "copy" /\ summary' = [summary EXCEPT !.at = @ + 1, !.past = {}]
        \/ at = 4 /\ keyboard' = "written" /\ summary' = summary
    BY <1>8, <2>1, <2>3 DEF NextMap
  <2>5. /\ summary' \in Summaries /\ summary'.of = u /\ summary'.since = since /\ summary'.file = file
        /\ \/ at < 4 /\ keyboard' = "copy" /\ summary'.at = at + 1 /\ summary'.past = {}
           \/ at = 4 /\ keyboard' = "written" /\ summary'.at = 4
    <3>1. CASE at < 4
      <4>1. summary' = [summary EXCEPT !.at = at + 1, !.past = {}] /\ keyboard' = "copy"
        BY <2>4, <3>1
      <4>2. at + 1 \in Sections
        BY <2>3, <3>1 DEF Sections
      <4>3. summary \in Summaries
        BY <1>5, <2>1
      <4>4. summary' \in Summaries
        BY <4>1, <4>2, <4>3 DEF Summaries
      <4>5. summary'.of = u /\ summary'.since = since /\ summary'.file = file
            /\ summary'.at = at + 1 /\ summary'.past = {}
        BY <4>1, <4>3 DEF Summaries
      <4> QED BY <3>1, <4>1, <4>4, <4>5
    <3>2. CASE at = 4
      BY <1>5, <2>1, <2>4, <3>2
    <3> QED BY <2>3, <3>1, <3>2
  <2>6. SummaryTypes'
    <3>1. Done(u) = IF current' = u THEN Len(told'[u]) - 1 ELSE Len(told'[u])
      BY <1>1 DEF mainVars, parseVars, Done
    <3> QED BY <1>2, <1>5, <2>1, <2>5, <3>1 DEF SummaryTypes, Done
  <2>7. ASSUME NEW s \in Sections, NEW x, Passed(s, x), s = at => x \in DOMAIN map
        PROVE  Passed(s, x)'
    <3>1. CASE x \in DOMAIN file[s]
      BY <2>5, <3>1 DEF Passed
    <3>2. CASE at < s
      <4>1. at < 4 /\ (at + 1 < s \/ at + 1 = s)
        BY <2>3, <3>2 DEF Sections
      <4> QED BY <2>5, <4>1 DEF Passed
    <3>3. CASE at = s /\ \A j \in summary.past : j < x
      BY <2>2, <2>7, <3>3
    <3> QED BY <2>7, <3>1, <3>2, <3>3 DEF Passed
  <2>8. SummaryHas'
    <3>1. SUFFICES ASSUME Plain(u)
                   PROVE  /\ \A s \in Stats, i \in 1 .. since : \A name \in DOMAIN told[u][i].updates[s] :
                               Passed(s, Squeeze[name])'
                          /\ \A i \in 1 .. since : Passed(4, told[u][i].time)'
                          /\ \A s \in Stats : \A x \in DOMAIN file[s] :
                               \E i \in 1 .. Len(told[u]) :
                                 /\ \E name \in DOMAIN told[u][i].updates[s] :
                                      /\ Squeeze[name] = x
                                      /\ Squeeze[told[u][i].updates[s][name]] = file[s][x]
                                 /\ \A j \in 1 .. since : Mentions(told[u][j], s, x) => j <= i
      <4>1. Plain(u) <=> \A i \in 1 .. Len(told'[u]) : PlainEvent(told'[u][i])
        BY <1>2 DEF Plain
      <4> QED BY <1>2, <2>5, <4>1 DEF SummaryHas, Plain
    <3>2. \A s \in Stats, i \in 1 .. since : \A name \in DOMAIN told[u][i].updates[s] :
            Passed(s, Squeeze[name])'
      <4> SUFFICES ASSUME NEW s \in Stats, NEW i \in 1 .. since,
                          NEW name \in DOMAIN told[u][i].updates[s]
                   PROVE  Passed(s, Squeeze[name])'
        OBVIOUS
      <4> DEFINE x == Squeeze[name]
      <4>1. s \in Sections
        BY DEF Stats, Sections
      <4>2. Passed(s, x) /\ (s = at => x \in DOMAIN map)
        BY <1>6, <2>1, <3>1
      <4> QED BY <2>7, <4>1, <4>2
    <3>3. \A i \in 1 .. since : Passed(4, told[u][i].time)'
      <4> SUFFICES ASSUME NEW i \in 1 .. since PROVE Passed(4, told[u][i].time)'
        OBVIOUS
      <4> PICK x : x = told[u][i].time
        OBVIOUS
      <4>1. 4 \in Sections
        BY DEF Sections
      <4>2. Passed(4, x) /\ (4 = at => x \in DOMAIN map)
        BY <1>6, <2>1, <3>1
      <4>3. Passed(4, x)'
        BY <2>7, <4>1, <4>2
      <4> QED BY <1>2, <2>5, <4>3 DEF Passed
    <3> QED BY <1>6, <2>1, <3>1, <3>2, <3>3
  <2> QED BY <2>6, <2>8 DEF SummaryInv
<1> QED BY <1>3, <1>4, <1>7, <1>8 DEF Summary

(* A summary written while reports come in misses nothing that was there    *)
(* when it was asked for, and has no value older than that.                 *)
THEOREM SummariesAreFresh == GameSpec => []SummaryFresh
<1>1. GameInit => SummaryInv
  BY DEF GameInit, SummaryInv, SummaryTypes, SummaryHas
<1>2. GameInv /\ SummaryInv /\ [GameNext]_gameVars => SummaryInv'
  <2> SUFFICES ASSUME GameInv, SummaryInv, [GameNext]_gameVars PROVE SummaryInv'
    OBVIOUS
  <2>1. CASE (\E v \in Users, e \in Events : HandleMessage(v, e, Body[v][e])) \/ ParseLine \/ StoreEvent
    <3>1. UNCHANGED summaryVars
      BY <2>1 DEF HandleMessage, ParseLine, StoreEvent
    <3> QED BY <2>1, <3>1, MainKeepsSummary
  <2>2. CASE Summary
    BY <2>2, KeyboardKeepsSummary
  <2>3. CASE UNCHANGED gameVars
    <3>1. UNCHANGED <<gameToEvents, current, told, keyboard, summary>>
      BY <2>3 DEF gameVars, parseVars, summaryVars
    <3>2. SummaryTypes'
      BY <3>1 DEF SummaryInv, SummaryTypes, Done
    <3>3. SummaryHas'
      BY <3>1 DEF SummaryInv, SummaryHas, Passed, Plain
    <3> QED BY <3>2, <3>3 DEF SummaryInv
  <2> QED BY <2>1, <2>2, <2>3 DEF GameNext
<1>3. SummaryInv => SummaryFresh
  <2> SUFFICES ASSUME SummaryInv, keyboard = "written", Plain(summary.of) PROVE SummaryFresh
    BY DEF SummaryFresh
  <2>1. summary.at = 4
    BY DEF SummaryInv, SummaryTypes
  <2>2. \A s \in Sections : \A k : Passed(s, k) => k \in DOMAIN summary.file[s]
    BY <2>1 DEF Passed, Sections
  <2>3. \A s \in Stats : s \in Sections /\ 4 \in Sections
    BY DEF Stats, Sections
  <2> DEFINE events == told[summary.of]
             before == 1 .. summary.since
  <2>4. \A s \in Stats, i \in before : \A name \in DOMAIN events[i].updates[s] :
          Squeeze[name] \in DOMAIN summary.file[s]
    BY <2>2, <2>3 DEF SummaryInv, SummaryHas
  <2>5. \A i \in before : events[i].time \in DOMAIN summary.file[4]
    BY <2>2, <2>3 DEF SummaryInv, SummaryHas, Sections
  <2>6. \A s \in Stats : \A k \in DOMAIN summary.file[s] :
          \E i \in 1 .. Len(events) :
            /\ \E name \in DOMAIN events[i].updates[s] :
                 Squeeze[name] = k /\ Squeeze[events[i].updates[s][name]] = summary.file[s][k]
            /\ \A j \in before : Mentions(events[j], s, k) => j <= i
    BY DEF SummaryInv, SummaryHas
  <2>7. \A s \in Stats, k \in Texts :
          (\E i \in before : Mentions(events[i], s, k)) => k \in DOMAIN summary.file[s]
    BY <2>4 DEF Mentions
  <2> QED BY <2>5, <2>6, <2>7 DEF SummaryFresh
<1> QED BY <1>1, <1>2, <1>3, GameInvariant, PTL DEF GameSpec
=============================================================================

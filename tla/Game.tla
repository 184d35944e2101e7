-------------------------------- MODULE Game --------------------------------
(***************************************************************************)
(* What a follower's client makes of the reports of one game: the main     *)
(* thread reads each MESSAGE into the Game object of its reporter, line by *)
(* line, while the keyboard thread may write a summary of one.  Neither    *)
(* takes a lock.                                                           *)
(*                                                                         *)
(* A line is what parseFrame sees in it: the section whose heading it      *)
(* contains, if any, and a key and a value.  Names and values of           *)
(* statistics and lines of descriptions are numbers, in the order of       *)
(* std::map; Heading has those that make a heading by accident.  An event's *)
(* name makes none, and no name of a statistic has a colon.                 *)
(***************************************************************************)
EXTENDS Naturals, Sequences, FiniteSets

CONSTANTS
  Users,     \* reporters
  Texts,     \* names and values of statistics, lines of descriptions
  Times,     \* times of events
  Events,    \* the events they report
  Heading,   \* text -> the section it is a heading of, or 0
  Squeeze,   \* text -> the text without its blanks
  NULL

Sections == 1 .. 4   \* game updates, a updates, b updates, description
Stats == 1 .. 3

Maps(D, R) == UNION {[S -> R] : S \in SUBSET D}

(* What a Game keeps of an event, and a Game.                               *)
Stored == [name : {e.name : e \in Events}, description : Seq(Texts)]
Games  == [stats : [Stats -> Maps(Texts, Texts)], events : Maps(Times, Stored)]

ASSUME GameAssumption ==
  /\ Texts \subseteq Nat /\ Times \subseteq Nat
  /\ Heading \in [Texts -> 0 .. 4] /\ Squeeze \in [Texts -> Texts]
  /\ NULL \notin Users /\ NULL \notin Texts \cup Times /\ NULL \notin Events
  /\ NULL \notin Games
  /\ \A e \in Events :
       /\ e = [name |-> e.name, time |-> e.time, updates |-> e.updates, description |-> e.description]
       /\ e.time \in Times
       /\ e.updates \in [Stats -> Maps(Texts, Texts)]
       /\ \A s \in Stats : IsFiniteSet(DOMAIN e.updates[s])
       /\ e.description \in Seq(Texts) \ {<<>>}

VARIABLES
  gameToEvents,  \* reporter -> its Game, or NULL
  main,          \* "idle", or "parse" in parseFrame
  lines,         \* the lines left of the body
  current, newGame,            \* whose Game; itself, when it is not in the map yet
  whichUpdate, eventName, eventTime, description,   \* parseFrame's locals
  keyboard,      \* "idle", "copy" in to_string, "written"
  summary,       \* the summary: whose, the section and key it is at, the file
  told           \* reporter -> the events of its MESSAGEs (history)

parseVars   == <<lines, current, newGame, whichUpdate, eventName, eventTime, description>>
summaryVars == <<keyboard, summary>>
gameVars == <<gameToEvents, main, parseVars, summaryVars, told>>

EmptyMap == [x \in {} |-> x]
Assign(map, k, v) == [x \in DOMAIN map \cup {k} |-> IF x = k THEN v ELSE map[x]]
Insert(map, k, v) == IF k \in DOMAIN map THEN map ELSE Assign(map, k, v)
Least(S) == CHOOSE x \in S : \A y \in S : x <= y

NewGame == [stats |-> [s \in Stats |-> EmptyMap], events |-> EmptyMap]

-----------------------------------------------------------------------------
(* The body of a SEND, and of the MESSAGE made of it                       *)

Line(field, heading, key, value) ==
  [field |-> field, heading |-> heading, key |-> key, value |-> value]
UserLine(u)    == Line("user", 0, NULL, u)
NameLine(name) == Line("name", 0, NULL, name)
TimeLine(time) == Line("time", 0, NULL, time)
HeadLine(s)    == Line("head", s, NULL, NULL)
StatLine(k, v) ==
  LET seen == {Heading[k], Heading[v]} \ {0}
  IN  Line("stat", IF seen = {} THEN 0 ELSE Least(seen), k, v)
TextLine(t)    == Line("text", Heading[t], t, t)   \* without ':' it is key and value

(* updatesToString, which goes through a std::map: in the order of its keys. *)
Ordered(S) ==
  [i \in 1 .. Cardinality(S) |-> CHOOSE k \in S : Cardinality({j \in S : j < k}) = i - 1]
StatLines(map) ==
  LET keys == Ordered(DOMAIN map)
  IN  [i \in 1 .. Len(keys) |-> StatLine(keys[i], map[keys[i]])]
TextLines(texts) == [i \in 1 .. Len(texts) |-> TextLine(texts[i])]

Body == [u \in Users |-> [e \in Events |->
  <<UserLine(u), NameLine(e.name), TimeLine(e.time)>>
    \o <<HeadLine(1)>> \o StatLines(e.updates[1])
    \o <<HeadLine(2)>> \o StatLines(e.updates[2])
    \o <<HeadLine(3)>> \o StatLines(e.updates[3])
    \o <<HeadLine(4)>> \o TextLines(e.description)]]

-----------------------------------------------------------------------------
(* The main thread: handleMessageFrame and parseFrame                      *)

GameInit ==
  /\ gameToEvents = [u \in Users |-> NULL]
  /\ main = "idle" /\ lines = <<>> /\ current = NULL /\ newGame = NULL
  /\ whichUpdate = 0 /\ eventName = NULL /\ eventTime = NULL /\ description = <<>>
  /\ keyboard = "idle" /\ summary = NULL
  /\ told = [u \in Users |-> <<>>]

(* The Game of this reporter, or a new one that is not in the map yet.      *)
FindGame(u) == newGame' = IF gameToEvents[u] = NULL THEN NewGame ELSE NULL

HandleMessage(u, e, body) ==
  /\ main = "idle"
  /\ main' = "parse"
  /\ lines' = body
  /\ current' = u
  /\ FindGame(u)
  /\ whichUpdate' = 0 /\ eventName' = NULL /\ eventTime' = NULL /\ description' = <<>>
  /\ told' = [told EXCEPT ![u] = Append(@, e)]
  /\ UNCHANGED <<gameToEvents, summaryVars>>

TheGame == IF newGame # NULL THEN newGame ELSE gameToEvents[current]
Change(game) ==
  IF newGame # NULL
  THEN newGame' = game /\ UNCHANGED gameToEvents
  ELSE gameToEvents' = [gameToEvents EXCEPT ![current] = game] /\ UNCHANGED newGame

ParseHeading(line) ==
  /\ line.heading # 0
  /\ whichUpdate' = line.heading
  /\ UNCHANGED <<gameToEvents, newGame, eventName, eventTime, description>>

ParseTop(line) ==
  /\ line.heading = 0 /\ whichUpdate = 0
  /\ eventName' = IF line.field = "name" THEN line.value ELSE eventName
  /\ eventTime' = IF line.field = "time" THEN line.value ELSE eventTime
  /\ UNCHANGED <<gameToEvents, newGame, whichUpdate, description>>

(* A slip for ParseStat: insert alone, which keeps an older value.          *)
ParseStatInserts(line) ==
  /\ line.heading = 0 /\ whichUpdate \in Stats
  /\ Change([TheGame EXCEPT !.stats[whichUpdate] = Insert(@, Squeeze[line.key], Squeeze[line.value])])
  /\ UNCHANGED <<whichUpdate, eventName, eventTime, description>>

ParseStat(line) ==
  /\ line.heading = 0 /\ whichUpdate \in Stats
  /\ Change([TheGame EXCEPT !.stats[whichUpdate] = Assign(@, Squeeze[line.key], Squeeze[line.value])])
  /\ UNCHANGED <<whichUpdate, eventName, eventTime, description>>

ParseDescription(line) ==
  /\ line.heading = 0 /\ whichUpdate = 4
  /\ description' = Append(description, line.key)
  /\ UNCHANGED <<gameToEvents, newGame, whichUpdate, eventName, eventTime>>

ParseLine ==
  /\ main = "parse" /\ lines # <<>>
  /\ LET line == Head(lines)
     IN  ParseHeading(line) \/ ParseTop(line) \/ ParseStat(line) \/ ParseDescription(line)
  /\ lines' = Tail(lines)
  /\ UNCHANGED <<main, current, summaryVars, told>>

(* A slip for StoreEvent: the event replaces one of the same time.          *)
StoreEventOver ==
  /\ main = "parse" /\ lines = <<>>
  /\ LET event == [name |-> eventName, description |-> description]
     IN  gameToEvents' = [gameToEvents EXCEPT ![current] =
           [TheGame EXCEPT !.events = Assign(@, eventTime, event)]]
  /\ main' = "idle" /\ newGame' = NULL /\ current' = NULL
  /\ UNCHANGED <<lines, whichUpdate, eventName, eventTime, description, summaryVars, told>>

(* The end of parseFrame, which keeps an event of the same time, and of     *)
(* handleMessageFrame, which puts the Game into the map.                    *)
StoreEvent ==
  /\ main = "parse" /\ lines = <<>>
  /\ LET event == [name |-> eventName, description |-> description]
     IN  gameToEvents' = [gameToEvents EXCEPT ![current] =
           [TheGame EXCEPT !.events = Insert(@, eventTime, event)]]
  /\ main' = "idle" /\ newGame' = NULL /\ current' = NULL
  /\ UNCHANGED <<lines, whichUpdate, eventName, eventTime, description, summaryVars, told>>

-----------------------------------------------------------------------------
(* The keyboard thread: summary                                            *)

(* The number of u's MESSAGEs that have been read to their end.             *)
Done(u) == IF current = u THEN Len(told[u]) - 1 ELSE Len(told[u])

TypeSummary(u) ==
  /\ keyboard = "idle" /\ gameToEvents[u] # NULL
  /\ keyboard' = "copy"
  /\ summary' = [of |-> u, at |-> 1, past |-> {},
                 file |-> [s \in Sections |-> EmptyMap], since |-> Done(u)]
  /\ UNCHANGED <<gameToEvents, main, parseVars, told>>

(* to_string: one turn of its loops over the four maps.  The step of the    *)
(* iterator and the access that follows are one: an entry that the other    *)
(* thread puts in between the two may be missed by the code, and is newer   *)
(* than the request, so that no property speaks of it.                      *)
MapAt(game, at) == IF at \in Stats THEN game.stats[at] ELSE game.events
After == {k \in DOMAIN MapAt(gameToEvents[summary.of], summary.at) :
            \A j \in summary.past : j < k}
CopyEntry ==
  /\ keyboard = "copy" /\ After # {}
  /\ LET k == Least(After)
     IN  summary' = [summary EXCEPT !.past = {k}, !.file[summary.at] =
                       Assign(@, k, MapAt(gameToEvents[summary.of], summary.at)[k])]
  /\ UNCHANGED <<gameToEvents, main, parseVars, keyboard, told>>

(* A slip for NextMap: the loop over the events is forgotten.               *)
NextMapOfStats ==
  /\ keyboard = "copy" /\ After = {}
  /\ IF summary.at < 3
     THEN summary' = [summary EXCEPT !.at = @ + 1, !.past = {}] /\ UNCHANGED keyboard
     ELSE keyboard' = "written" /\ UNCHANGED summary
  /\ UNCHANGED <<gameToEvents, main, parseVars, told>>

(* The end of a loop, and of to_string.                                     *)
NextMap ==
  /\ keyboard = "copy" /\ After = {}
  /\ IF summary.at < 4
     THEN summary' = [summary EXCEPT !.at = @ + 1, !.past = {}] /\ UNCHANGED keyboard
     ELSE keyboard' = "written" /\ UNCHANGED summary
  /\ UNCHANGED <<gameToEvents, main, parseVars, told>>

SummaryEnds ==
  /\ keyboard = "written"
  /\ keyboard' = "idle" /\ summary' = NULL
  /\ UNCHANGED <<gameToEvents, main, parseVars, told>>

Summary == CopyEntry \/ NextMap \/ SummaryEnds \/ \E u \in Users : TypeSummary(u)

GameNext ==
  \/ \E u \in Users, e \in Events : HandleMessage(u, e, Body[u][e])
  \/ ParseLine \/ StoreEvent
  \/ Summary

GameSpec == GameInit /\ [][GameNext]_gameVars

-----------------------------------------------------------------------------
(* Reports in which no text is mistaken for a heading.                      *)
PlainEvent(e) ==
  /\ \A s \in Stats : \A k \in DOMAIN e.updates[s] :
       Heading[k] = 0 /\ Heading[e.updates[s][k]] = 0
  /\ \A i \in 1 .. Len(e.description) : Heading[e.description[i]] = 0
Plain(u) == \A i \in 1 .. Len(told[u]) : PlainEvent(told[u][i])

(* Event i of u says v of k, a key without its blanks; of two names that    *)
(* are one key then, the later line is the one that counts.                 *)
Says(e, s, k, v) ==
  \E name \in DOMAIN e.updates[s] :
    /\ Squeeze[name] = k /\ Squeeze[e.updates[s][name]] = v
    /\ \A other \in DOMAIN e.updates[s] : Squeeze[other] = k => other <= name
Mentions(e, s, k) == \E name \in DOMAIN e.updates[s] : Squeeze[name] = k

(* The Game of a reporter whose report is not just being read has, for each *)
(* statistic, the value that this reporter has last reported, and no        *)
(* others: not those of another reporter, of another section or of an older *)
(* report.                                                                  *)
StatsAreLatest ==
  \A u \in Users : Plain(u) /\ current # u =>
    /\ gameToEvents[u] = NULL <=> told[u] = <<>>
    /\ gameToEvents[u] # NULL =>
         \A s \in Stats, k \in Texts :
           LET stats == gameToEvents[u].stats[s]
               saying == {i \in 1 .. Len(told[u]) : Mentions(told[u][i], s, k)}
           IN  IF saying = {} THEN k \notin DOMAIN stats
               ELSE k \in DOMAIN stats /\ \E i \in saying :
                      /\ \A j \in saying : j <= i
                      /\ Says(told[u][i], s, k, stats[k])

(* Its events are all listed; of two at the same time, the first.           *)
EventsListed ==
  \A u \in Users : Plain(u) /\ current # u /\ gameToEvents[u] # NULL =>
    LET events == gameToEvents[u].events
    IN  /\ DOMAIN events = {told[u][i].time : i \in 1 .. Len(told[u])}
        /\ \A i \in 1 .. Len(told[u]) :
             (\A j \in 1 .. i - 1 : told[u][j].time # told[u][i].time)
             => events[told[u][i].time] =
                  [name |-> told[u][i].name, description |-> told[u][i].description]

(* A summary that was written while reports came in is torn, but it misses  *)
(* nothing that was there when it was asked for, and each of its values is  *)
(* at least as new as that.                                                 *)
SummaryFresh ==
  keyboard = "written" /\ Plain(summary.of) =>
    LET events == told[summary.of]
        before == 1 .. summary.since
    IN  /\ \A s \in Stats, k \in Texts :
             LET stats == summary.file[s]
             IN  /\ (\E i \in before : Mentions(events[i], s, k)) => k \in DOMAIN stats
                 /\ k \in DOMAIN stats =>
                      \E i \in 1 .. Len(events) :
                        /\ \E name \in DOMAIN events[i].updates[s] :
                             Squeeze[name] = k /\ Squeeze[events[i].updates[s][name]] = stats[k]
                        /\ \A j \in before : Mentions(events[j], s, k) => j <= i
        /\ \A i \in before : events[i].time \in DOMAIN summary.file[4]
=============================================================================

---------------------------- MODULE MCEventFeed ----------------------------
(***************************************************************************)
(* Two reporters of one game: one with two events, which change a          *)
(* statistic, add one, and are of the same time or not; the other with one *)
(* event, whose description may have a heading in it by accident.          *)
(***************************************************************************)
EXTENDS EventFeed

CONSTANTS ann, bob

(* Texts: 1 is 2 with a blank in it; 5 makes the heading of team a.         *)
McHeading == [t \in Texts |-> IF t = 5 THEN 2 ELSE 0]
McSqueeze == [t \in Texts |-> IF t = 1 THEN 2 ELSE t]

Event(name, time, updates, text) ==
  [name |-> name, time |-> time, updates |-> updates, description |-> text]

None == [x \in {} |-> x]
Kickoff == Event("kickoff", 1, <<[k \in {2} |-> 3], None, None>>, <<3>>)
Goal    == Event("goal", 2, <<[k \in {1} |-> 4], [k \in {3} |-> 3], None>>, <<4>>)
Card    == Event("card", 1, <<None, None, [k \in {2} |-> 4]>>, <<3>>)
Break2  == Event("break", 1, <<None, [k \in {2} |-> 3], None>>, <<5, 3>>)

McEvents == {Kickoff, Goal, Card, Break2}
McFiles ==
  {[u \in Users |-> IF u = ann THEN <<Kickoff, Goal>> ELSE <<Break2>>],
   [u \in Users |-> IF u = ann THEN <<Card, Kickoff>> ELSE <<Card>>]}
=============================================================================

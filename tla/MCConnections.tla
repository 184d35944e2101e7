--------------------------- MODULE MCConnections ---------------------------
(***************************************************************************)
(* Small instances of ConnectionsImp: the frames their clients send, and   *)
(* the symmetry of connections and values that no frame tells apart.       *)
(***************************************************************************)
EXTENDS ConnectionsInv, TLC

CONSTANTS u1, p1, p2, t1, t2, i1, i2, i3, r1

Blank == [cmd |-> "OTHER", version |-> NULL, host |-> NULL, login |-> NULL,
          passcode |-> NULL, destination |-> NULL, id |-> NULL, body |-> FALSE,
          receipt |-> NULL, receiptId |-> NULL]
Unparsable == [Blank EXCEPT !.cmd = "UNPARSABLE"]
Connect(u, p) ==
  [Blank EXCEPT !.cmd = "CONNECT", !.version = LegalVersion, !.host = "stomp",
                !.login = u, !.passcode = p]
OldConnect(u, p) == [Connect(u, p) EXCEPT !.version = "1.1", !.receiptId = r1]
Disconnect == [Blank EXCEPT !.cmd = "DISCONNECT", !.receipt = r1]
Subscribe(t, i) ==
  [Blank EXCEPT !.cmd = "SUBSCRIBE", !.destination = t, !.id = i, !.receipt = r1]
Unsubscribe(i) == [Blank EXCEPT !.cmd = "UNSUBSCRIBE", !.id = i]
Send(t) == [Blank EXCEPT !.cmd = "SEND", !.destination = t, !.body = TRUE]
NoDestination == [Blank EXCEPT !.cmd = "SEND", !.body = TRUE]

SessionFrames ==
  {Connect(u, p) : u \in Users, p \in Passwords} \cup
  {Disconnect, Unparsable}

TopicFrames ==
  {Subscribe(t1, i1), Subscribe(t1, i2), Subscribe(t2, i2), Unsubscribe(i1),
   Send(t1), NoDestination}

(* One frame of each kind.                                                 *)
MixedFrames ==
  {OldConnect(u1, p1), Disconnect, Subscribe(t1, i1), Unsubscribe(i1),
   [Send(t1) EXCEPT !.receiptId = r1], Blank, NoDestination}

ConnSymmetry == Permutations(Conns)
SessionSymmetry == Permutations(Conns) \cup Permutations(Passwords) \cup Permutations(Users)
=============================================================================

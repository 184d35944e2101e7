------------------------------ MODULE MCReactor ------------------------------
(* One client that follows and sends twice, one that sends once.            *)
EXTENDS Reactor, TLC

CONSTANTS c1, c2

TwoConns == {c1, c2}
TwoKinds == (c1 :> {"note", "bad", "bye"}) @@ (c2 :> {"send", "login"})
TwoMax == (c1 :> 2) @@ (c2 :> 1)

(* With fairness: frames that are answered or not, one that is broadcast.   *)
FairKinds == (c1 :> {"note", "bye"}) @@ (c2 :> {"send"})

(* Clients that behave.                                                     *)
TameKinds == (c1 :> {"ask", "bye"}) @@ (c2 :> {"send"})
=============================================================================

----------------------------- MODULE Settlement -----------------------------
(***************************************************************************)
(* What connecting to each other promises two peers (connect.rs), whatever  *)
(* connections there are and however their messages travel: a call that is  *)
(* running ends with one Peer or none; the higher side makes its own on any *)
(* connection, once; the lower side makes its own on a connection that the  *)
(* higher one has made its own before. Whether the lower side follows is    *)
(* left open: it may fail after the higher side has committed.              *)
(***************************************************************************)
CONSTANTS Hi, Lo, Conns

VARIABLES
  call,   \* each side's latest call
  chosen  \* the connections it has made a Peer from

vars == <<call, chosen>>

Side == {Hi, Lo}

Init ==
  /\ call = [s \in Side |-> "idle"]
  /\ chosen = [s \in Side |-> {}]

Begin(s) ==
  /\ call[s] # "running"
  /\ call' = [call EXCEPT ![s] = "running"]
  /\ UNCHANGED chosen

Settle(s, c) ==
  /\ call[s] = "running"
  /\ c \notin chosen[s]
  /\ s = Lo => c \in chosen[Hi]
  /\ call' = [call EXCEPT ![s] = "connected"]
  /\ chosen' = [chosen EXCEPT ![s] = @ \union {c}]

GiveUp(s) ==
  /\ call[s] = "running"
  /\ call' = [call EXCEPT ![s] = "failed"]
  /\ UNCHANGED chosen

Next == \E s \in Side : Begin(s) \/ GiveUp(s) \/ \E c \in Conns : Settle(s, c)

Spec == Init /\ [][Next]_vars
=============================================================================

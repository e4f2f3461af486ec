----------------------------- MODULE LendingPool -----------------------------
(***************************************************************************)
(* What a pool of connections promises its users, whatever it does with    *)
(* the connections that are not in use: an open connection is lent to at   *)
(* most one thread at a time, and it stays open until that thread returns  *)
(* it.                                                                     *)
(***************************************************************************)
CONSTANTS Threads, Conns

VARIABLES
  lent,  \* [Threads -> connections the thread has on loan]
  open   \* connections that are open

vars == <<lent, open>>

Init ==
  /\ lent = [t \in Threads |-> {}]
  /\ open = {}

InUse(c) == \E t \in Threads : c \in lent[t]

Open(c) ==
  /\ c \notin open
  /\ open' = open \cup {c}
  /\ UNCHANGED lent

\* Connections are closed that nobody uses.
Close(cs) ==
  /\ cs \subseteq open
  /\ \A c \in cs : ~InUse(c)
  /\ open' = open \ cs
  /\ UNCHANGED lent

Lend(t, c) ==
  /\ c \in open
  /\ ~InUse(c)
  /\ lent' = [lent EXCEPT ![t] = @ \cup {c}]
  /\ UNCHANGED open

\* A connection that comes back may be closed at once.
Return(t, c) ==
  /\ c \in lent[t]
  /\ lent' = [lent EXCEPT ![t] = @ \ {c}]
  /\ open' \in {open, open \ {c}}

Next ==
  \/ \E c \in Conns : Open(c)
  \/ \E cs \in SUBSET Conns : Close(cs)
  \/ \E t \in Threads, c \in Conns : Lend(t, c) \/ Return(t, c)

Spec == Init /\ [][Next]_vars
=============================================================================

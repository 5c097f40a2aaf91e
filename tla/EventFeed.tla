----------------------------- MODULE EventFeed -----------------------------
(***************************************************************************)
(* What jobs/events.py promises to its subscribers, without queues: events *)
(* are numbered in the order of publication, an open subscription is owed  *)
(* every event published since it was made, the oldest first, and loses    *)
(* none but those that Size newer ones have followed.                      *)
(***************************************************************************)
EXTENDS Naturals

CONSTANTS Subscriber, Size

VARIABLES
  last,   \* the number of the newest event
  open,   \* the subscriptions that are not closed
  owed    \* the numbers of the events a subscriber can still read

vars == <<last, open, owed>>

Init ==
  /\ last = 0
  /\ open = {}
  /\ owed = [s \in Subscriber |-> {}]

Publish ==
  /\ last' = last + 1
  /\ owed' = [s \in Subscriber |->
                IF s \in open
                THEN {n \in owed[s] \cup {last'} : n + Size > last'}
                ELSE owed[s]]
  /\ UNCHANGED open

Subscribe(s) ==
  /\ open' = open \cup {s}
  /\ owed' = [owed EXCEPT ![s] = {}]
  /\ UNCHANGED last

Read(s) ==
  /\ \E n \in owed[s] :
       /\ \A m \in owed[s] : n <= m
       /\ owed' = [owed EXCEPT ![s] = @ \ {n}]
  /\ UNCHANGED <<last, open>>

Close(s) ==
  /\ open' = open \ {s}
  /\ UNCHANGED <<last, owed>>

Leave(s) ==
  /\ open' = open \ {s}
  /\ owed' = [owed EXCEPT ![s] = {}]
  /\ UNCHANGED last

Next ==
  \/ Publish
  \/ \E s \in Subscriber : Subscribe(s) \/ Read(s) \/ Close(s) \/ Leave(s)

Spec == Init /\ [][Next]_vars
=============================================================================

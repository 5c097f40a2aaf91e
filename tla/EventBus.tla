------------------------------ MODULE EventBus ------------------------------
(***************************************************************************)
(* jobs/events.py: job events are fanned out to the bounded buffers of     *)
(* their subscribers, without waiting for any of them.  dropped_count is   *)
(* left out, as nothing reads it, and so is the time of an event.          *)
(***************************************************************************)
EXTENDS Naturals, Sequences

CONSTANTS
  Subscriber,   \* who may hold a subscription, one at a time
  Notice,       \* what an event says: its job, kind and state
  Size          \* events a subscription's buffer can hold

ASSUME SizeAssumption == Size \in Nat \ {0}

VARIABLES
  sequence,     \* the number of the newest event
  subscribed,   \* subscriptions the bus offers events to
  buffer        \* each subscription's queue

busVars == <<sequence, subscribed, buffer>>

JobEvent == [sequence : Nat \ {0}, notice : Notice]

BusInit ==
  /\ sequence = 0
  /\ subscribed = {}
  /\ buffer = [s \in Subscriber |-> <<>>]

\* Mutant: a full queue refuses the newest event.
OfferedInVain(queue, event) ==
  IF Len(queue) = Size THEN queue ELSE Append(queue, event)

\* A full queue gives up its oldest event.
Offered(queue, event) ==
  IF Len(queue) = Size THEN Append(Tail(queue), event) ELSE Append(queue, event)

Publish(notice) ==
  /\ sequence' = sequence + 1
  /\ buffer' = [s \in Subscriber |->
                  IF s \in subscribed
                  THEN Offered(buffer[s], [sequence |-> sequence', notice |-> notice])
                  ELSE buffer[s]]
  /\ UNCHANGED subscribed

Subscribe(s) ==
  /\ subscribed' = subscribed \cup {s}
  /\ buffer' = [buffer EXCEPT ![s] = <<>>]
  /\ UNCHANGED sequence

\* get() and get_nowait(); a closed subscription's buffer can still be read.
Take(s) ==
  /\ buffer[s] # <<>>
  /\ buffer' = [buffer EXCEPT ![s] = Tail(@)]
  /\ UNCHANGED <<sequence, subscribed>>

Close(s) ==
  /\ subscribed' = subscribed \ {s}
  /\ UNCHANGED <<sequence, buffer>>

\* A stream that ends closes its subscription and forgets it.
Leave(s) ==
  /\ subscribed' = subscribed \ {s}
  /\ buffer' = [buffer EXCEPT ![s] = <<>>]
  /\ UNCHANGED sequence

BusNext ==
  \/ \E notice \in Notice : Publish(notice)
  \/ \E s \in Subscriber : Subscribe(s) \/ Take(s) \/ Close(s) \/ Leave(s)

BusSpec == BusInit /\ [][BusNext]_busVars

-----------------------------------------------------------------------------
Numbers(s) == {buffer[s][i].sequence : i \in DOMAIN buffer[s]}

(***************************************************************************)
(* Whatever a slow subscriber loses, it loses at the old end: its buffer   *)
(* is an unbroken run of events up to the newest one published.  So a full *)
(* queue (EventSubscription._offer) never hides how a job ended.           *)
(***************************************************************************)
NewestKept ==
  \A s \in subscribed :
    /\ Len(buffer[s]) <= Size
    /\ \A i \in DOMAIN buffer[s] :
         buffer[s][i].sequence + Len(buffer[s]) = sequence + i

Feed == INSTANCE EventFeed WITH last <- sequence,
                                open <- subscribed,
                                owed <- [s \in Subscriber |-> Numbers(s)]

(***************************************************************************)
(* The queues of the bus implement the feed: order, numbers, isolation of  *)
(* subscribers, and the loss of events at overflow are those of EventFeed. *)
(***************************************************************************)
ImplementsFeed == Feed!Spec
=============================================================================

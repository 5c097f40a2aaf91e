--------------------------- MODULE EventBusProofs ---------------------------
(***************************************************************************)
(* Theorems about the event bus, for all subscribers, notices and sizes of *)
(* buffers.                                                                *)
(***************************************************************************)
EXTENDS EventBus, TLAPS

BusTypeOK ==
  /\ sequence \in Nat
  /\ subscribed \subseteq Subscriber
  /\ buffer \in [Subscriber -> Seq(JobEvent)]

\* A queue that holds the last events up to this number.
Run(queue, newest) ==
  /\ Len(queue) <= Size
  /\ \A i \in DOMAIN queue : queue[i].sequence + Len(queue) = newest + i

\* Also what is left in a closed subscription is an unbroken run of events.
Unbroken == \A s \in Subscriber : \E newest \in Nat : Run(buffer[s], newest)

BusInv == BusTypeOK /\ NewestKept /\ Unbroken

USE SizeAssumption

-----------------------------------------------------------------------------
(* One queue *)

\* The numbers of the events in a queue.
NumbersIn(queue) == {queue[i].sequence : i \in DOMAIN queue}

\* Taking the first event leaves a run.
LEMMA TailRun ==
  ASSUME NEW q \in Seq(JobEvent), q # <<>>, NEW n \in Nat, Run(q, n)
  PROVE  /\ Tail(q) \in Seq(JobEvent)
         /\ Run(Tail(q), n)
         /\ Len(Tail(q)) = Len(q) - 1
         /\ \A i \in DOMAIN Tail(q) : Tail(q)[i] = q[i + 1]
<1>1. /\ Tail(q) \in Seq(JobEvent)
      /\ Len(q) \in Nat \ {0}
      /\ Len(Tail(q)) = Len(q) - 1
  OBVIOUS
<1>2. DOMAIN Tail(q) = 1..(Len(q) - 1) /\ DOMAIN q = 1..Len(q)
  BY <1>1
<1>3. \A i \in DOMAIN Tail(q) : Tail(q)[i] = q[i + 1]
  BY <1>1, <1>2
<1>4. ASSUME NEW i \in DOMAIN Tail(q)
      PROVE  Tail(q)[i].sequence + Len(Tail(q)) = n + i
  <2>1. q[i + 1] \in JobEvent /\ q[i + 1].sequence + Len(q) = n + (i + 1)
    BY <1>1, <1>2 DEF Run
  <2>2. q[i + 1].sequence \in Nat
    BY <2>1 DEF JobEvent
  <2>. QED
    BY <1>1, <1>2, <1>3, <2>1, <2>2
<1>. QED
  BY <1>1, <1>3, <1>4 DEF Run

\* Offering the next event leaves a run up to it (_offer).
LEMMA OfferedRun ==
  ASSUME NEW q \in Seq(JobEvent), NEW n \in Nat, Run(q, n),
         NEW e \in JobEvent, e.sequence = n + 1
  PROVE  /\ Offered(q, e) \in Seq(JobEvent)
         /\ Run(Offered(q, e), n + 1)
<1>1. CASE Len(q) = Size
  <2>1. q # <<>>
    BY <1>1
  <2>2. /\ Tail(q) \in Seq(JobEvent)
        /\ Len(Tail(q)) = Size - 1
        /\ Run(Tail(q), n)
    BY <1>1, <2>1, TailRun
  <2>3. Offered(q, e) = Append(Tail(q), e)
    BY <1>1 DEF Offered
  <2>4. /\ Append(Tail(q), e) \in Seq(JobEvent)
        /\ Len(Append(Tail(q), e)) = Size
        /\ \A i \in 1..(Size - 1) : Append(Tail(q), e)[i] = Tail(q)[i]
        /\ Append(Tail(q), e)[Size] = e
    BY <2>2
  <2>5. ASSUME NEW i \in 1..Size
        PROVE  Append(Tail(q), e)[i].sequence + Size = (n + 1) + i
    <3>1. CASE i = Size
      BY <2>4, <3>1
    <3>2. CASE i \in 1..(Size - 1)
      <4>1. i \in DOMAIN Tail(q)
        BY <2>2, <3>2
      <4>2. Tail(q)[i] \in JobEvent /\ Tail(q)[i].sequence + Len(Tail(q)) = n + i
        BY <2>2, <4>1 DEF Run
      <4>3. Tail(q)[i].sequence \in Nat
        BY <4>2 DEF JobEvent
      <4>. QED
        BY <2>2, <2>4, <3>2, <4>2, <4>3
    <3>3. i = Size \/ i \in 1..(Size - 1)
      OBVIOUS
    <3>. QED
      BY <3>1, <3>2, <3>3
  <2>. QED
    BY <2>3, <2>4, <2>5 DEF Run
<1>2. CASE Len(q) # Size
  <2>1. Offered(q, e) = Append(q, e)
    BY <1>2 DEF Offered
  <2>2. /\ Append(q, e) \in Seq(JobEvent)
        /\ Len(Append(q, e)) = Len(q) + 1
        /\ \A i \in 1..Len(q) : Append(q, e)[i] = q[i]
        /\ Append(q, e)[Len(q) + 1] = e
        /\ Len(q) \in Nat
    OBVIOUS
  <2>3. Len(q) + 1 <= Size
    BY <1>2, <2>2 DEF Run
  <2>4. ASSUME NEW i \in 1..(Len(q) + 1)
        PROVE  Append(q, e)[i].sequence + (Len(q) + 1) = (n + 1) + i
    <3>1. CASE i = Len(q) + 1
      BY <2>2, <3>1
    <3>2. CASE i \in 1..Len(q)
      <4>1. q[i] \in JobEvent /\ q[i].sequence + Len(q) = n + i
        BY <3>2 DEF Run
      <4>2. q[i].sequence \in Nat
        BY <4>1 DEF JobEvent
      <4>. QED
        BY <2>2, <3>2, <4>1, <4>2
    <3>. QED
      BY <2>2, <3>1, <3>2
  <2>. QED
    BY <2>1, <2>2, <2>3, <2>4 DEF Run
<1>. QED
  BY <1>1, <1>2

\* The numbers of a run are an interval.
LEMMA RunNumbers ==
  ASSUME NEW q \in Seq(JobEvent), NEW n \in Nat, Run(q, n)
  PROVE  NumbersIn(q) = (n - Len(q) + 1)..n
<1>1. /\ Len(q) \in Nat
      /\ DOMAIN q = 1..Len(q)
      /\ \A i \in DOMAIN q : q[i] \in JobEvent
  OBVIOUS
<1>2. \A i \in DOMAIN q : q[i].sequence \in Nat /\ q[i].sequence = n + i - Len(q)
  <2>1. TAKE i \in DOMAIN q
  <2>2. q[i].sequence \in Nat
    BY <1>1 DEF JobEvent
  <2>3. q[i].sequence + Len(q) = n + i
    BY DEF Run
  <2>. QED
    BY <1>1, <2>2, <2>3
<1>3. ASSUME NEW k \in NumbersIn(q)
      PROVE  k \in (n - Len(q) + 1)..n
  <2>1. PICK i \in DOMAIN q : k = q[i].sequence
    BY DEF NumbersIn
  <2>. QED
    BY <1>1, <1>2, <2>1
<1>4. ASSUME NEW k \in (n - Len(q) + 1)..n
      PROVE  k \in NumbersIn(q)
  <2>1. k - n + Len(q) \in DOMAIN q
    BY <1>1
  <2>2. q[k - n + Len(q)].sequence = k
    BY <1>1, <1>2, <2>1
  <2>. QED
    BY <2>1, <2>2 DEF NumbersIn
<1>. QED
  BY <1>3, <1>4

\* What is taken is the oldest number.
LEMMA TailNumbers ==
  ASSUME NEW q \in Seq(JobEvent), q # <<>>, NEW n \in Nat, Run(q, n)
  PROVE  \E k \in NumbersIn(q) :
           /\ \A m \in NumbersIn(q) : k <= m
           /\ NumbersIn(Tail(q)) = NumbersIn(q) \ {k}
<1>1. /\ NumbersIn(q) = (n - Len(q) + 1)..n
      /\ NumbersIn(Tail(q)) = (n - Len(Tail(q)) + 1)..n
      /\ Len(Tail(q)) = Len(q) - 1
  BY TailRun, RunNumbers
<1>2. Len(q) \in Nat \ {0}
  OBVIOUS
<1>3. n - Len(q) + 1 \in NumbersIn(q)
  BY <1>1, <1>2
<1>4. \A m \in NumbersIn(q) : n - Len(q) + 1 <= m
  BY <1>1, <1>2
<1>5. NumbersIn(Tail(q)) = NumbersIn(q) \ {n - Len(q) + 1}
  BY <1>1, <1>2
<1>. QED
  BY <1>3, <1>4, <1>5

\* What is offered is the newest, and pushes out what Size newer ones follow.
LEMMA OfferedNumbers ==
  ASSUME NEW q \in Seq(JobEvent), NEW n \in Nat, Run(q, n),
         NEW e \in JobEvent, e.sequence = n + 1
  PROVE  NumbersIn(Offered(q, e)) = {k \in NumbersIn(q) \cup {n + 1} : k + Size > n + 1}
<1>1. /\ Len(q) \in Nat
      /\ Len(q) <= Size
  BY DEF Run
<1>2. Len(Offered(q, e)) = IF Len(q) = Size THEN Size ELSE Len(q) + 1
  <2>1. CASE Len(q) = Size
    <3>1. q # <<>>
      BY <2>1
    <3>2. Tail(q) \in Seq(JobEvent) /\ Len(Tail(q)) = Size - 1
      BY <2>1, <3>1, TailRun
    <3>. QED
      BY <2>1, <3>2 DEF Offered
  <2>2. CASE Len(q) # Size
    BY <2>2 DEF Offered
  <2>. QED
    BY <2>1, <2>2
<1>3. NumbersIn(q) = (n - Len(q) + 1)..n
  BY RunNumbers
<1>4. NumbersIn(Offered(q, e)) = ((n + 1) - Len(Offered(q, e)) + 1)..(n + 1)
  <2>1. Offered(q, e) \in Seq(JobEvent) /\ Run(Offered(q, e), n + 1) /\ n + 1 \in Nat
    BY OfferedRun
  <2>. QED
    BY <2>1, RunNumbers
<1>5. NumbersIn(q) \cup {n + 1} = (n - Len(q) + 1)..(n + 1)
  BY <1>1, <1>3
<1>6. CASE Len(q) = Size
  BY <1>1, <1>2, <1>4, <1>5, <1>6
<1>7. CASE Len(q) # Size
  <2>1. NumbersIn(Offered(q, e)) = (n - Len(q) + 1)..(n + 1)
    <3>1. Len(Offered(q, e)) = Len(q) + 1
      BY <1>2, <1>7
    <3>2. (n + 1) - (Len(q) + 1) + 1 = n - Len(q) + 1
      BY <1>1
    <3>. QED
      BY <1>4, <3>1, <3>2
  <2>2. \A k \in (n - Len(q) + 1)..(n + 1) : k + Size > n + 1
    BY <1>1, <1>7
  <2>. QED
    BY <1>5, <2>1, <2>2
<1>. QED
  BY <1>6, <1>7

-----------------------------------------------------------------------------
(* The invariant *)

\* A new bus (EventBus.__init__) satisfies the invariant.
THEOREM BusInitInv == BusInit => BusInv
<1>1. SUFFICES ASSUME BusInit PROVE BusInv
  OBVIOUS
<1>2. BusTypeOK
  BY <1>1 DEF BusInit, BusTypeOK
<1>3. NewestKept
  BY <1>1 DEF BusInit, NewestKept
<1>4. Unbroken
  <2>1. Run(<<>>, 0)
    BY DEF Run
  <2>. QED
    BY <1>1, <2>1 DEF BusInit, Unbroken
<1>. QED
  BY <1>2, <1>3, <1>4 DEF BusInv

\* An open subscription holds the last events published.
LEMMA OpenRun ==
  ASSUME BusInv, NEW s \in subscribed
  PROVE  s \in Subscriber /\ buffer[s] \in Seq(JobEvent) /\ sequence \in Nat
         /\ Run(buffer[s], sequence)
  BY DEF BusInv, BusTypeOK, NewestKept, Run

\* The empty queue is a run up to any number.
LEMMA EmptyRun ==
  ASSUME NEW n \in Nat
  PROVE  Run(<<>>, n) /\ <<>> \in Seq(JobEvent)
  BY DEF Run

\* Enough to keep the invariant: queues that are runs, the open ones to the end.
LEMMA RunsKept ==
  ASSUME sequence' \in Nat, subscribed' \subseteq Subscriber,
         buffer' \in [Subscriber -> Seq(JobEvent)],
         \A s \in subscribed' : Run(buffer'[s], sequence'),
         \A s \in Subscriber : \E n \in Nat : Run(buffer'[s], n)
  PROVE  BusInv'
  BY DEF BusInv, BusTypeOK, NewestKept, Unbroken, Run

\* Every operation of the bus keeps the invariant.
THEOREM BusStep == BusInv /\ [BusNext]_busVars => BusInv'
<1>. SUFFICES ASSUME BusInv, [BusNext]_busVars PROVE BusInv'
  OBVIOUS
<1>0. /\ sequence \in Nat /\ subscribed \subseteq Subscriber
      /\ buffer \in [Subscriber -> Seq(JobEvent)]
      /\ \A s \in Subscriber : \E n \in Nat : Run(buffer[s], n)
  BY DEF BusInv, BusTypeOK, Unbroken
<1>1. ASSUME NEW notice \in Notice, Publish(notice) PROVE BusInv'
  <2>. DEFINE event == [sequence |-> sequence + 1, notice |-> notice]
  <2>1. event \in JobEvent /\ event.sequence = sequence + 1
    BY <1>0 DEF JobEvent
  <2>2. \A s \in Subscriber :
          buffer'[s] = IF s \in subscribed THEN Offered(buffer[s], event) ELSE buffer[s]
    BY <1>1 DEF Publish
  <2>3. \A s \in subscribed :
          buffer'[s] \in Seq(JobEvent) /\ Run(buffer'[s], sequence + 1)
    BY <1>0, <2>1, <2>2, OpenRun, OfferedRun
  <2>4. sequence' = sequence + 1 /\ subscribed' = subscribed
    BY <1>1 DEF Publish
  <2>5. buffer' \in [Subscriber -> Seq(JobEvent)]
    <3>1. \A s \in Subscriber : buffer'[s] \in Seq(JobEvent)
      BY <1>0, <2>2, <2>3
    <3>2. buffer' = [s \in Subscriber |-> buffer'[s]]
      BY <1>1 DEF Publish
    <3>. QED
      BY <3>1, <3>2
  <2>6. \A s \in Subscriber : \E n \in Nat : Run(buffer'[s], n)
    BY <1>0, <2>2, <2>3
  <2>. QED
    BY <1>0, <2>3, <2>4, <2>5, <2>6, RunsKept
<1>2. ASSUME NEW s \in Subscriber, Subscribe(s) \/ Leave(s) PROVE BusInv'
  <2>1. /\ sequence' = sequence
        /\ subscribed' \subseteq subscribed \cup {s}
        /\ buffer' = [buffer EXCEPT ![s] = <<>>]
    BY <1>2 DEF Subscribe, Leave
  <2>2. buffer' \in [Subscriber -> Seq(JobEvent)]
    BY <1>0, <2>1
  <2>3. \A r \in Subscriber : buffer'[r] = IF r = s THEN <<>> ELSE buffer[r]
    BY <1>0, <2>1
  <2>4. \A r \in subscribed' : Run(buffer'[r], sequence')
    BY <1>0, <2>1, <2>3, OpenRun, EmptyRun
  <2>5. \A r \in Subscriber : \E n \in Nat : Run(buffer'[r], n)
    BY <1>0, <2>3, EmptyRun
  <2>. QED
    BY <1>0, <2>1, <2>2, <2>4, <2>5, RunsKept
<1>3. ASSUME NEW s \in Subscriber, Take(s) PROVE BusInv'
  <2>1. /\ sequence' = sequence /\ subscribed' = subscribed
        /\ buffer[s] # <<>>
        /\ \A r \in Subscriber : buffer'[r] = IF r = s THEN Tail(buffer[r]) ELSE buffer[r]
        /\ buffer' = [buffer EXCEPT ![s] = Tail(@)]
    BY <1>0, <1>3 DEF Take
  <2>2. Tail(buffer[s]) \in Seq(JobEvent)
    BY <1>0, <2>1
  <2>3. \A n \in Nat : Run(buffer[s], n) => Run(Tail(buffer[s]), n)
    BY <1>0, <2>1, TailRun
  <2>4. \A r \in subscribed' : Run(buffer'[r], sequence')
    BY <1>0, <2>1, <2>3, OpenRun
  <2>5. \A r \in Subscriber : \E n \in Nat : Run(buffer'[r], n)
    BY <1>0, <2>1, <2>3
  <2>6. buffer' \in [Subscriber -> Seq(JobEvent)]
    BY <1>0, <2>1, <2>2
  <2>. QED
    BY <1>0, <2>1, <2>4, <2>5, <2>6, RunsKept
<1>4. ASSUME NEW s \in Subscriber, Close(s) PROVE BusInv'
  BY <1>0, <1>4, OpenRun, RunsKept DEF Close
<1>5. CASE UNCHANGED busVars
  BY <1>0, <1>5, OpenRun, RunsKept DEF busVars
<1>. QED
  BY <1>1, <1>2, <1>3, <1>4, <1>5 DEF BusNext

\* An open subscription's buffer is always an unbroken run of events up to the
\* newest one (_offer, get, close).
THEOREM BusNewestKept == BusSpec => []NewestKept
<1>1. BusInv => NewestKept
  BY DEF BusInv
<1>. QED
  BY <1>1, BusInitInv, BusStep, PTL DEF BusSpec

-----------------------------------------------------------------------------
(* The bus implements the feed *)

\* What the feed calls owed.
Owed == [s \in Subscriber |-> Numbers(s)]

\* Numbers(s), in this state and the next, are those in the subscriber's queue.
LEMMA OwedNumbers ==
  /\ Owed = [s \in Subscriber |-> NumbersIn(buffer[s])]
  /\ Owed' = [s \in Subscriber |-> NumbersIn(buffer'[s])]
  BY DEF Owed, Numbers, NumbersIn

\* Nothing is owed from an empty queue.
LEMMA EmptyNumbers == NumbersIn(<<>>) = {}
  BY DEF NumbersIn

\* A new bus is a feed without events.
LEMMA FeedInit == BusInit => Feed!Init
<1>1. ASSUME BusInit PROVE Owed = [s \in Subscriber |-> {}]
  BY <1>1, OwedNumbers, EmptyNumbers DEF BusInit
<1>. QED
  BY <1>1 DEF BusInit, Feed!Init, Owed

\* Each operation of the bus is one of the feed, or changes nothing of it.
LEMMA FeedStep == BusInv /\ [BusNext]_busVars => [Feed!Next]_Feed!vars
<1>. SUFFICES ASSUME BusInv, [BusNext]_busVars PROVE [Feed!Next]_Feed!vars
  OBVIOUS
<1>0. /\ sequence \in Nat /\ subscribed \subseteq Subscriber
      /\ buffer \in [Subscriber -> Seq(JobEvent)]
      /\ \A s \in Subscriber : \E n \in Nat : Run(buffer[s], n)
  BY DEF BusInv, BusTypeOK, Unbroken
<1>1. ASSUME NEW notice \in Notice, Publish(notice) PROVE Feed!Publish
  <2>. DEFINE event == [sequence |-> sequence + 1, notice |-> notice]
  <2>1. event \in JobEvent /\ event.sequence = sequence + 1
    BY <1>0 DEF JobEvent
  <2>2. sequence' = sequence + 1 /\ subscribed' = subscribed
    BY <1>1 DEF Publish
  <2>3. \A s \in Subscriber :
          buffer'[s] = IF s \in subscribed THEN Offered(buffer[s], event) ELSE buffer[s]
    BY <1>1 DEF Publish
  <2>4. \A s \in subscribed :
          NumbersIn(buffer'[s])
            = {n \in NumbersIn(buffer[s]) \cup {sequence + 1} : n + Size > sequence + 1}
    BY <1>0, <2>1, <2>3, OpenRun, OfferedNumbers
  <2>5. Owed' = [s \in Subscriber |->
                   IF s \in subscribed
                   THEN {n \in Owed[s] \cup {sequence'} : n + Size > sequence'}
                   ELSE Owed[s]]
    BY <2>2, <2>3, <2>4, OwedNumbers
  <2>. QED
    BY <2>2, <2>5 DEF Feed!Publish, Owed
<1>2. ASSUME NEW s \in Subscriber, Subscribe(s) \/ Leave(s)
      PROVE  Feed!Subscribe(s) \/ Feed!Leave(s)
  <2>1. \A r \in Subscriber : buffer'[r] = IF r = s THEN <<>> ELSE buffer[r]
    BY <1>0, <1>2 DEF Subscribe, Leave
  <2>2. Owed' = [Owed EXCEPT ![s] = {}]
    BY <2>1, OwedNumbers, EmptyNumbers
  <2>. QED
    BY <1>2, <2>2 DEF Subscribe, Leave, Feed!Subscribe, Feed!Leave, Owed
<1>3. ASSUME NEW s \in Subscriber, Take(s) PROVE Feed!Read(s)
  <2>1. /\ sequence' = sequence /\ subscribed' = subscribed
        /\ buffer[s] # <<>>
        /\ \A r \in Subscriber : buffer'[r] = IF r = s THEN Tail(buffer[r]) ELSE buffer[r]
    BY <1>0, <1>3 DEF Take
  <2>2. PICK k \in NumbersIn(buffer[s]) :
          /\ \A m \in NumbersIn(buffer[s]) : k <= m
          /\ NumbersIn(Tail(buffer[s])) = NumbersIn(buffer[s]) \ {k}
    BY <1>0, <2>1, TailNumbers
  <2>3. k \in Owed[s] /\ \A m \in Owed[s] : k <= m
    BY <2>2, OwedNumbers
  <2>4. Owed' = [Owed EXCEPT ![s] = @ \ {k}]
    BY <2>1, <2>2, OwedNumbers
  <2>. QED
    BY <2>1, <2>3, <2>4 DEF Feed!Read, Owed
<1>4. ASSUME NEW s \in Subscriber, Close(s) PROVE Feed!Close(s)
  <2>1. Owed' = Owed
    BY <1>4, OwedNumbers DEF Close
  <2>. QED
    BY <1>4, <2>1 DEF Close, Feed!Close, Owed
<1>5. CASE UNCHANGED busVars
  <2>1. Owed' = Owed
    BY <1>5, OwedNumbers DEF busVars
  <2>. QED
    BY <1>5, <2>1 DEF busVars, Feed!vars, Owed
<1>. QED
  BY <1>1, <1>2, <1>3, <1>4, <1>5 DEF BusNext, Feed!Next

\* The bounded queues of the bus implement the feed: every subscriber is given
\* the events in order, and loses none that fewer than Size newer ones follow.
THEOREM BusImplementsFeed == BusSpec => ImplementsFeed
<1>1. BusSpec => []BusInv
  BY BusInitInv, BusStep, PTL DEF BusSpec
<1>. QED
  BY <1>1, FeedInit, FeedStep, PTL DEF BusSpec, ImplementsFeed, Feed!Spec
=============================================================================

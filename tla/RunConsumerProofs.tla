------------------------- MODULE RunConsumerProofs -------------------------
(***************************************************************************)
(* Proofs about RunConsumer, for every capacity of the queue and any       *)
(* number of events.  Events reach any consumer in order and none is lost  *)
(* in silence; a consumer whose polls do not overtake the start of the     *)
(* agent thread ends a run only when the agent has ended, and with all its *)
(* events if it drains the queue.                                          *)
(***************************************************************************)
EXTENDS RunConsumer, SequenceTheorems, TLAPS

-----------------------------------------------------------------------------
(* The inductive invariant *)

\* The part of the type invariant that bounds the queue and types the steps.
QueueOK ==
    /\ yielded \in Seq(Kinds)
    /\ pbuf \in Seq(Nat \ {0})
    /\ queue \in Seq(Seq(Nat \ {0}))
    /\ Len(queue) <= Capacity

\* is_agent_running is exact but for the moments before run() and after it.
RunningMeaning ==
    /\ rpc \in {"starting", "next", "flush", "handle", "failed", "sentinel", "ended"}
    /\ running <=> rpc \in {"next", "flush", "handle"}

\* Only the last put of the runner thread brings the sentinel.
SentinelIsLast ==
    (\E i \in 1..Len(queue) : queue[i] = Sentinel) => rpc = "ended"

\* A delta or an event at hand has been yielded.
AtHand == rpc \in {"flush", "handle", "failed"} => Current > 0

\* A consumer that has stopped polling has seen the agent thread in run().
CheckedLate ==
    /\ cpc = "check" => rpc \notin {"starting", "failed"}
    /\ cpc \in {"drain", "done"} => rpc \in {"sentinel", "ended"}

IInv == QueueOK /\ RunningMeaning /\ SentinelIsLast /\ AtHand /\ CheckedLate

-----------------------------------------------------------------------------
\* What Append and Tail do to the two facts about the queue.
LEMMA AppendQueue ==
    ASSUME QueueOK, Len(queue) < Capacity, NEW item \in Seq(Nat \ {0}),
           queue' = Append(queue, item)
    PROVE  /\ queue' \in Seq(Seq(Nat \ {0}))
           /\ Len(queue') <= Capacity
           /\ \A i \in 1..Len(queue') :
                 queue'[i] = item \/ (i \in 1..Len(queue) /\ queue'[i] = queue[i])
<1>1. queue \in Seq(Seq(Nat \ {0})) /\ Len(queue) \in Nat
  BY DEF QueueOK
<1>2. queue' \in Seq(Seq(Nat \ {0})) /\ Len(queue') = Len(queue) + 1
  BY <1>1
<1>3. Len(queue') <= Capacity
  BY <1>1, <1>2, CapacityAssumption
<1>4. ASSUME NEW i \in 1..Len(queue')
      PROVE  queue'[i] = item \/ (i \in 1..Len(queue) /\ queue'[i] = queue[i])
  BY <1>1, <1>2
<1> QED
  BY <1>2, <1>3, <1>4

LEMMA TailQueue ==
    ASSUME QueueOK, queue # <<>>, queue' = Tail(queue)
    PROVE  /\ queue' \in Seq(Seq(Nat \ {0}))
           /\ Len(queue') <= Capacity
           /\ \A i \in 1..Len(queue') :
                 i + 1 \in 1..Len(queue) /\ queue'[i] = queue[i + 1]
<1>1. queue \in Seq(Seq(Nat \ {0})) /\ Len(queue) \in Nat /\ Len(queue) > 0
  BY DEF QueueOK
<1>2. queue' \in Seq(Seq(Nat \ {0})) /\ Len(queue') = Len(queue) - 1
  BY <1>1
<1>3. Len(queue') <= Capacity
  BY <1>1, <1>2, CapacityAssumption DEF QueueOK
<1>4. ASSUME NEW i \in 1..Len(queue')
      PROVE  i + 1 \in 1..Len(queue) /\ queue'[i] = queue[i + 1]
  BY <1>1, <1>2
<1> QED
  BY <1>2, <1>3, <1>4

-----------------------------------------------------------------------------
\* The initial state satisfies the invariant.
LEMMA InitInv == ConsumerInit => IInv
<1> SUFFICES ASSUME ConsumerInit PROVE IInv
  OBVIOUS
<1>1. QueueOK
  BY CapacityAssumption DEF ConsumerInit, Init, QueueOK
<1>2. RunningMeaning
  BY DEF ConsumerInit, Init, RunningMeaning
<1>3. SentinelIsLast
  BY DEF ConsumerInit, Init, SentinelIsLast
<1>4. AtHand
  BY DEF ConsumerInit, Init, AtHand
<1>5. CheckedLate
  BY DEF ConsumerInit, Init, CheckedLate
<1> QED
  BY <1>1, <1>2, <1>3, <1>4, <1>5 DEF IInv

\* A step that leaves the queue alone, before the thread has ended, leaves it
\* free of the sentinel.
LEMMA SentinelStays ==
    ASSUME SentinelIsLast, UNCHANGED queue, rpc' = rpc \/ rpc # "ended"
    PROVE  SentinelIsLast'
BY DEF SentinelIsLast

\* The steps of the generator.
LEMMA YieldInv ==
    ASSUME IInv, NEW kind \in Kinds, Yield(kind), UNCHANGED cpc
    PROVE  IInv'
<1> USE DEF IInv, Yield, pendingVars, lossVars
<1>1. Current \in Nat /\ Current' = Current + 1
  BY DEF QueueOK, Current
<1>2. QueueOK'
  BY DEF QueueOK
<1>3. RunningMeaning'
  BY DEF RunningMeaning
<1>4. SentinelIsLast'
  BY SentinelStays
<1>5. AtHand'
  BY <1>1 DEF AtHand
<1>6. CheckedLate'
  BY DEF CheckedLate
<1> QED
  BY <1>2, <1>3, <1>4, <1>5, <1>6

LEMMA GeneratorInv ==
    ASSUME IInv, Start \/ Return \/ Raise, UNCHANGED cpc
    PROVE  IInv'
<1> USE DEF IInv, Start, Return, Raise, pendingVars, lossVars
<1>1. Len(yielded) \in Nat /\ (Raise => Len(yielded') = Len(yielded) + 1)
  BY DEF QueueOK
<1>2. QueueOK'
  <2>1. "control" \in Kinds
    BY DEF Kinds
  <2>2. yielded' \in Seq(Kinds)
    <3>1. CASE Raise
      BY <2>1, <3>1 DEF QueueOK
    <3>2. CASE Start \/ Return
      BY <3>2 DEF QueueOK
    <3> QED
      BY <3>1, <3>2
  <2> QED
    BY <2>2 DEF QueueOK
<1>3. RunningMeaning'
  BY DEF RunningMeaning
<1>4. SentinelIsLast'
  BY SentinelStays
<1>5. AtHand'
  BY <1>1 DEF AtHand, Current
<1>6. CheckedLate'
  BY DEF CheckedLate
<1> QED
  BY <1>2, <1>3, <1>4, <1>5, <1>6

-----------------------------------------------------------------------------
\* A put of anything but the sentinel, or one that times out, brings none.
LEMMA PutInv ==
    ASSUME IInv, NEW item \in Seq(Nat \ {0}), PutOrGiveUp(item),
           UNCHANGED yielded, pbuf' \in Seq(Nat \ {0}),
           rpc # "ended", item = Sentinel => rpc' = "ended"
    PROVE  QueueOK' /\ SentinelIsLast'
<1>1. CASE UNCHANGED queue
  BY <1>1, SentinelStays DEF IInv, QueueOK
<1>2. CASE Len(queue) < Capacity /\ queue' = Append(queue, item)
  <2>1. /\ queue' \in Seq(Seq(Nat \ {0}))
        /\ Len(queue') <= Capacity
        /\ \A i \in 1..Len(queue') :
              queue'[i] = item \/ (i \in 1..Len(queue) /\ queue'[i] = queue[i])
    BY <1>2, AppendQueue DEF IInv
  <2>2. QueueOK'
    BY <2>1 DEF IInv, QueueOK
  <2>3. SentinelIsLast'
    BY <2>1 DEF IInv, SentinelIsLast
  <2> QED
    BY <2>2, <2>3
<1> QED
  BY <1>1, <1>2 DEF PutOrGiveUp

\* The steps of the runner thread.
LEMMA RunnerInv ==
    ASSUME IInv, UNCHANGED cpc,
           Flush \/ DeliverDelta \/ DeliverEvent \/ DeliverFailure \/ PutSentinel
    PROVE  IInv'
<1> USE DEF IInv, loopVars, lossVars, pendingVars
<1>0. <<>> \in Seq(Nat \ {0}) /\ Current \in Nat
  BY DEF QueueOK, Current
<1>1. CASE Flush
  <2> USE <1>1 DEF Flush
  <2>1. QueueOK' /\ SentinelIsLast'
    <3>1. CASE UNCHANGED <<queue, dropped>>
      BY <3>1, <1>0, SentinelStays DEF QueueOK
    <3>2. CASE pbuf # <<>> /\ PutOrGiveUp(pbuf)
      <4>1. pbuf \in Seq(Nat \ {0})
        BY DEF QueueOK
      <4> QED
        BY <3>2, <4>1, <1>0, PutInv DEF Sentinel
    <3> QED
      BY <3>1, <3>2
  <2>2. AtHand'
    BY DEF AtHand, Current
  <2> QED
    BY <2>1, <2>2 DEF RunningMeaning, CheckedLate
<1>2. CASE DeliverDelta
  <2> USE <1>2 DEF DeliverDelta
  <2>1. Append(pbuf, Current) \in Seq(Nat \ {0}) /\ Append(pbuf, Current) # Sentinel
    <3>1. pbuf \in Seq(Nat \ {0}) /\ Current \in Nat \ {0}
      BY <1>0 DEF QueueOK, AtHand
    <3>2. /\ Append(pbuf, Current) \in Seq(Nat \ {0})
          /\ Len(Append(pbuf, Current)) = Len(pbuf) + 1
      BY <3>1
    <3>3. Len(<<>>) = 0 /\ Len(pbuf) \in Nat
      BY <3>1
    <3> QED
      BY <3>2, <3>3 DEF Sentinel
  <2>2. QueueOK' /\ SentinelIsLast'
    <3>1. CASE Len(queue) < Capacity /\ queue' = Append(queue, Append(pbuf, Current)) /\ pbuf' = <<>>
      <4>1. PutOrGiveUp(Append(pbuf, Current))
        BY <3>1 DEF PutOrGiveUp
      <4> QED
        BY <4>1, <3>1, <2>1, <1>0, PutInv
    <3>2. CASE UNCHANGED queue /\ pbuf' = Append(pbuf, Current)
      BY <3>2, <2>1, SentinelStays DEF QueueOK
    <3> QED
      BY <3>1, <3>2
  <2> QED
    BY <2>2 DEF RunningMeaning, CheckedLate, AtHand
<1>3. CASE DeliverEvent \/ DeliverFailure
  <2> USE <1>3 DEF DeliverEvent, DeliverFailure
  <2>1. <<Current>> \in Seq(Nat \ {0}) /\ <<Current>> # Sentinel
    BY <1>0 DEF AtHand, Sentinel
  <2>2. pbuf' \in Seq(Nat \ {0})
    BY <1>0 DEF QueueOK
  <2>3. QueueOK' /\ SentinelIsLast'
    BY <2>1, <2>2, PutInv
  <2> QED
    BY <2>3 DEF RunningMeaning, CheckedLate, AtHand
<1>4. CASE PutSentinel
  <2> USE <1>4 DEF PutSentinel
  <2>1. Sentinel \in Seq(Nat \ {0}) /\ pbuf' \in Seq(Nat \ {0})
    BY <1>0 DEF Sentinel, QueueOK
  <2>2. QueueOK' /\ SentinelIsLast'
    BY <2>1, PutInv
  <2> QED
    BY <2>2 DEF RunningMeaning, CheckedLate, AtHand
<1> QED
  BY <1>1, <1>2, <1>3, <1>4

-----------------------------------------------------------------------------
\* Taking an event from the queue.
LEMMA GetInv ==
    ASSUME IInv, GetEvent
    PROVE  /\ QueueOK' /\ RunningMeaning' /\ SentinelIsLast' /\ AtHand'
           /\ Head(queue) = Sentinel => rpc = "ended"
<1> USE DEF IInv, GetEvent, loopVars, pendingVars, lossVars
<1>1. /\ queue' \in Seq(Seq(Nat \ {0}))
      /\ Len(queue') <= Capacity
      /\ \A i \in 1..Len(queue') :
            i + 1 \in 1..Len(queue) /\ queue'[i] = queue[i + 1]
  BY TailQueue
<1>2. QueueOK'
  BY <1>1 DEF QueueOK
<1>3. SentinelIsLast'
  BY <1>1 DEF SentinelIsLast
<1>4. Head(queue) = Sentinel => rpc = "ended"
  BY DEF SentinelIsLast, QueueOK
<1> QED
  BY <1>2, <1>3, <1>4 DEF RunningMeaning, AtHand, Current

\* The steps of the consumer, when no poll precedes the agent's run().
LEMMA ConsumerInv ==
    ASSUME ~SlowStart, IInv, Consumer
    PROVE  IInv'
<1> USE DEF IInv, Goto
<1>1. CASE PollEvent
  <2>1. GetEvent
    BY <1>1 DEF PollEvent
  <2> QED
    BY <2>1, <1>1, GetInv
    DEF PollEvent, CheckedLate, GetEvent
<1>2. CASE DrainEvent
  <2>1. GetEvent
    BY <1>2 DEF DrainEvent
  <2> QED
    BY <2>1, <1>2, GetInv
    DEF DrainEvent, CheckedLate, GetEvent
<1>3. CASE PollTimeout \/ Check \/ DrainEmpty
  <2>1. UNCHANGED vars
    BY <1>3 DEF PollTimeout, Check, DrainEmpty
  <2>2. QueueOK' /\ RunningMeaning' /\ SentinelIsLast' /\ AtHand'
    BY <2>1
    DEF vars, loopVars, pendingVars, lossVars, QueueOK, RunningMeaning,
        SentinelIsLast, AtHand, Current
  <2>3. CheckedLate'
    BY <1>3, <2>1
    DEF vars, loopVars, PollTimeout, Check, DrainEmpty, CheckedLate, RunningMeaning
  <2> QED
    BY <2>2, <2>3
<1> QED
  BY <1>1, <1>2, <1>3 DEF Consumer

-----------------------------------------------------------------------------
\* The invariant holds in every reachable state, if the consumer's polls do
\* not overtake the start of the agent thread.
THEOREM Invariance == ~SlowStart /\ ConsumerSpec => []IInv
<1> SUFFICES ASSUME ~SlowStart PROVE ConsumerSpec => []IInv
  OBVIOUS
<1>1. ASSUME IInv, [ConsumerNext]_allVars PROVE IInv'
  <2>1. CASE Ask
    BY <1>1, <2>1, YieldInv DEF Ask, Kinds
  <2>2. CASE LoopStep
    BY <1>1, <2>2, YieldInv, GeneratorInv DEF LoopStep
  <2>3. CASE RunnerStep
    BY <1>1, <2>3, GeneratorInv, RunnerInv DEF RunnerStep
  <2>4. CASE Consumer
    BY <1>1, <2>4, ConsumerInv
  <2>5. CASE UNCHANGED allVars
    BY <1>1, <2>5
    DEF allVars, vars, loopVars, pendingVars, lossVars, IInv, QueueOK,
        RunningMeaning, SentinelIsLast, AtHand, Current, CheckedLate
  <2> QED
    BY <1>1, <2>1, <2>2, <2>3, <2>4, <2>5 DEF ConsumerNext, Agent, Finished
<1> QED
  BY <1>1, InitInv, PTL DEF ConsumerSpec

\* A run is declared over only when nothing can be yielded any more: the
\* first empty poll that finds is_agent_running false is a proof of it,
\* whatever the queue's size and however many puts timed out.
THEOREM RunsEndWithTheirAgent == ~SlowStart /\ ConsumerSpec => []OverMeansOver
<1>1. IInv => OverMeansOver
  BY DEF IInv, CheckedLate, OverMeansOver
<1> QED
  BY <1>1, Invariance, PTL
-----------------------------------------------------------------------------
(* The stream of events *)

\* What was handed over, received already or not.
Items == received \o queue

\* The last event that is not in the runner's hand.
Settled == IF rpc \in {"flush", "handle", "failed"} THEN Current - 1 ELSE Current

StreamTypes == TypeOK /\ AtHand /\ (rpc = "starting" => yielded = <<>>)

\* An item is a run of neighbouring events of one type.
OneRun(item) ==
    \A k \in DOMAIN item : item[k] = item[1] + k - 1 /\ yielded[item[k]] = yielded[item[1]]

ItemsInOrder ==
    /\ \A i \in DOMAIN Items :
          OneRun(Items[i]) /\ \A a \in DOMAIN Items[i] : Items[i][a] <= Settled
    /\ \A i, k \in DOMAIN Items : i < k =>
          \A a \in DOMAIN Items[i], b \in DOMAIN Items[k] : Items[i][a] < Items[k][b]

\* What is pending is the latest run of deltas, ...
PendingIsLatest ==
    pbuf # <<>> =>
        /\ ptype \in Deltas /\ rpc \in {"next", "flush", "handle"}
        /\ pbuf[Len(pbuf)] = Settled
        /\ \A k \in DOMAIN pbuf : pbuf[k] = pbuf[1] + k - 1 /\ yielded[pbuf[k]] = ptype
        /\ \A i \in DOMAIN Items : \A a \in DOMAIN Items[i] : Items[i][a] < pbuf[1]

\* ... and an event that finds it pending continues or discards it.
PendingGoesOn == rpc = "handle" /\ pbuf # <<>> => Kind = ptype \/ DiscardsPending(Kind)

Accounted ==
    /\ dropped \cup discarded \subseteq 1..Settled
    /\ Positions(Items) \cup Range(pbuf) = 1..Settled \ (dropped \cup discarded)

StreamInv ==
    /\ StreamTypes
    /\ ItemsInOrder
    /\ PendingIsLatest
    /\ PendingGoesOn
    /\ Accounted
    /\ DiscardsOnlyReasoning

-----------------------------------------------------------------------------
(* Types *)

LEMMA StreamInitTypes == Init => StreamTypes
<1> SUFFICES ASSUME Init PROVE StreamTypes
  OBVIOUS
<1>1. /\ yielded \in Seq(Kinds) /\ pbuf \in Seq(Nat \ {0})
      /\ queue \in Seq(Seq(Nat \ {0})) /\ received \in Seq(Seq(Nat \ {0}))
  BY DEF Init
<1>2. Len(queue) <= Capacity
  BY CapacityAssumption DEF Init
<1> QED
  BY <1>1, <1>2 DEF Init, TypeOK, StreamTypes, AtHand

\* Only a put on a queue with room makes it longer.
LEMMA PutTypes ==
    ASSUME StreamTypes, NEW item \in Seq(Nat \ {0}), PutOrGiveUp(item)
    PROVE  /\ queue' \in Seq(Seq(Nat \ {0})) /\ Len(queue') <= Capacity
           /\ dropped' \subseteq Nat
<1>1. QueueOK
  BY DEF StreamTypes, TypeOK, QueueOK
<1>2. CASE Len(queue) < Capacity /\ queue' = Append(queue, item) /\ UNCHANGED dropped
  BY <1>1, <1>2, AppendQueue DEF StreamTypes, TypeOK
<1>3. CASE UNCHANGED queue /\ dropped' = dropped \cup Range(item)
  <2>1. Range(item) \subseteq Nat
    BY DEF Range
  <2> QED
    BY <1>3, <2>1 DEF StreamTypes, TypeOK
<1> QED
  BY <1>2, <1>3 DEF PutOrGiveUp

LEMMA StreamStepTypes ==
    ASSUME StreamTypes, Next
    PROVE  StreamTypes'
<1> USE DEF StreamTypes, loopVars, lossVars, pendingVars
<1>0. /\ <<>> \in Seq(Nat \ {0}) /\ Current \in Nat
      /\ AtHand => (rpc \in {"flush", "handle", "failed"} => Current \in Nat \ {0})
      /\ pbuf \in Seq(Nat \ {0})
  BY DEF TypeOK, Current, AtHand
<1>1. CASE Start \/ Return
  BY <1>1 DEF TypeOK, Start, Return, AtHand
<1>2. ASSUME NEW kind \in Kinds, rpc \in {"next", "starting"},
             yielded' = Append(yielded, kind), rpc' \in {"flush", "handle", "failed"},
             UNCHANGED <<running, pendingVars, queue, received, lossVars>>
      PROVE  StreamTypes'
  <2>1. yielded' \in Seq(Kinds) /\ Len(yielded') = Len(yielded) + 1 /\ Len(yielded) \in Nat
    BY <1>2 DEF TypeOK
  <2> QED
    BY <1>2, <2>1 DEF TypeOK, AtHand, Current
<1>3. ASSUME NEW item \in Seq(Nat \ {0}), PutOrGiveUp(item), pbuf' \in Seq(Nat \ {0}),
             ptype' \in Deltas \cup {"none"}, rpc # "starting",
             rpc' \in {"next", "handle", "sentinel", "ended"}, rpc' = "handle" => rpc = "flush",
             discarded' \subseteq Nat, UNCHANGED <<loopVars, received>>
      PROVE  StreamTypes'
  BY <1>3, PutTypes DEF TypeOK, AtHand, Current
<1>4. CASE Flush /\ pbuf # <<>>
  BY <1>0, <1>3, <1>4 DEF Flush, TypeOK
<1>5. CASE Flush /\ pbuf = <<>>
  BY <1>0, <1>5 DEF Flush, TypeOK, AtHand, Current
<1>6. CASE DeliverDelta
  <2>1. Append(pbuf, Current) \in Seq(Nat \ {0}) /\ Kind \in Deltas
    BY <1>0, <1>6 DEF DeliverDelta
  <2>2. CASE Len(queue) < Capacity
    <3>1. PutOrGiveUp(Append(pbuf, Current))
      <4>1. ~(Len(queue) = Capacity)
        BY <2>2, CapacityAssumption DEF TypeOK
      <4> QED
        BY <1>6, <2>2, <4>1 DEF DeliverDelta, PutOrGiveUp
    <3> QED
      BY <1>0, <1>3, <1>6, <2>1, <3>1 DEF DeliverDelta, TypeOK
  <2>3. CASE ~(Len(queue) < Capacity)
    BY <1>6, <2>1, <2>3 DEF DeliverDelta, TypeOK, AtHand
  <2> QED
    BY <2>2, <2>3
<1>7. CASE DeliverEvent \/ DeliverFailure
  <2>1. <<Current>> \in Seq(Nat \ {0})
    BY <1>0, <1>7 DEF DeliverEvent, DeliverFailure
  <2>2. Range(pbuf) \subseteq Nat
    BY <1>0 DEF Range
  <2>3. discarded' \subseteq Nat /\ pbuf' \in Seq(Nat \ {0}) /\ ptype' \in Deltas \cup {"none"}
    BY <1>0, <1>7, <2>2 DEF DeliverEvent, DeliverFailure, TypeOK
  <2> QED
    BY <1>3, <1>7, <2>1, <2>3 DEF DeliverEvent, DeliverFailure
<1>8. CASE PutSentinel
  BY <1>0, <1>3, <1>8 DEF PutSentinel, Sentinel, TypeOK
<1>9. CASE GetEvent
  <2>1. QueueOK
    BY DEF TypeOK, QueueOK
  <2>2. queue' \in Seq(Seq(Nat \ {0})) /\ Len(queue') <= Capacity
    BY <1>9, <2>1, TailQueue DEF GetEvent
  <2>3. received' \in Seq(Seq(Nat \ {0}))
    BY <1>9 DEF GetEvent, TypeOK
  <2> QED
    BY <1>9, <2>2, <2>3 DEF GetEvent, TypeOK, AtHand, Current
<1>10. CASE Raise \/ \E kind \in Kinds : Yield(kind)
  BY <1>2, <1>10 DEF Raise, Yield, Kinds
<1> QED
  BY <1>1, <1>4, <1>5, <1>6, <1>7, <1>8, <1>9, <1>10 DEF Next, Runner

-----------------------------------------------------------------------------
(* What the steps do to the items handed over *)

LEMMA ItemsType ==
    ASSUME StreamTypes
    PROVE  /\ Items \in Seq(Seq(Nat \ {0})) /\ Settled \in Int /\ Current \in Nat
           /\ Positions(Items) \subseteq Nat /\ Range(pbuf) \subseteq Nat
<1>1. received \in Seq(Seq(Nat \ {0})) /\ queue \in Seq(Seq(Nat \ {0})) /\ pbuf \in Seq(Nat \ {0})
  BY DEF StreamTypes, TypeOK
<1>2. Items \in Seq(Seq(Nat \ {0}))
  BY <1>1 DEF Items
<1>3. Current \in Nat /\ Settled \in Int
  BY DEF StreamTypes, TypeOK, Current, Settled
<1>4. \A i \in DOMAIN Items : Range(Items[i]) \subseteq Nat
  BY <1>2 DEF Range
<1>5. Positions(Items) \subseteq Nat /\ Range(pbuf) \subseteq Nat
  BY <1>1, <1>4 DEF Range, Positions
<1> QED
  BY <1>2, <1>3, <1>5

LEMMA AppendedItem ==
    ASSUME StreamTypes, NEW item \in Seq(Nat \ {0}), queue' = Append(queue, item), UNCHANGED received
    PROVE  Items' = Append(Items, item)
<1>1. received \in Seq(Seq(Nat \ {0})) /\ queue \in Seq(Seq(Nat \ {0}))
  BY DEF StreamTypes, TypeOK
<1>2. Items' = received \o Append(queue, item)
  BY DEF Items
<1>3. received \o Append(queue, item) = Append(received \o queue, item)
  BY <1>1
<1> QED
  BY <1>2, <1>3 DEF Items

LEMMA ReceivedItem ==
    ASSUME StreamTypes, GetEvent
    PROVE  Items' = Items
<1>1. received \in Seq(Seq(Nat \ {0})) /\ queue \in Seq(Seq(Nat \ {0})) /\ queue # <<>>
  BY DEF StreamTypes, TypeOK, GetEvent
<1>2. Items' = Append(received, Head(queue)) \o Tail(queue)
  BY DEF Items, GetEvent
<1> DEFINE new == Append(received, Head(queue)) \o Tail(queue)
           old == received \o queue
<1>3. /\ Append(received, Head(queue)) \in Seq(Seq(Nat \ {0}))
      /\ Tail(queue) \in Seq(Seq(Nat \ {0})) /\ Len(Tail(queue)) = Len(queue) - 1
      /\ Len(Append(received, Head(queue))) = Len(received) + 1
      /\ \A i \in 1..Len(queue) - 1 : Tail(queue)[i] = queue[i + 1]
  BY <1>1
<1>4. /\ new \in Seq(Seq(Nat \ {0})) /\ old \in Seq(Seq(Nat \ {0}))
      /\ Len(new) = Len(received) + Len(queue) /\ Len(old) = Len(received) + Len(queue)
  BY <1>1, <1>3
<1>5. ASSUME NEW i \in 1..Len(received) + Len(queue)
      PROVE  new[i] = old[i]
  BY <1>1, <1>3
<1> HIDE DEF new, old
<1>6. new = old
  BY <1>4, <1>5, SeqEqual
<1> QED
  BY <1>2, <1>6 DEF new, old, Items

LEMMA AppendPositions ==
    ASSUME NEW items \in Seq(Seq(Nat \ {0})), NEW item
    PROVE  Positions(Append(items, item)) = Positions(items) \cup Range(item)
<1>1. ASSUME NEW p \in Positions(Append(items, item))
      PROVE  p \in Positions(items) \cup Range(item)
  BY DEF Positions
<1>2. ASSUME NEW p \in Range(item)
      PROVE  p \in Positions(Append(items, item))
  <2>1. Len(items) + 1 \in DOMAIN Append(items, item) /\ Append(items, item)[Len(items) + 1] = item
    OBVIOUS
  <2> QED
    BY <1>2, <2>1 DEF Positions
<1>3. ASSUME NEW p \in Positions(items)
      PROVE  p \in Positions(Append(items, item))
  <2>1. PICK i \in DOMAIN items : p \in Range(items[i])
    BY DEF Positions
  <2>2. i \in DOMAIN Append(items, item) /\ Append(items, item)[i] = items[i]
    OBVIOUS
  <2> QED
    BY <2>1, <2>2 DEF Positions
<1> QED
  BY <1>1, <1>2, <1>3

\* An item that follows all others is put or given up.
LEMMA HandOver ==
    ASSUME StreamInv, NEW item \in Seq(Nat \ {0}), PutOrGiveUp(item),
           UNCHANGED <<yielded, received>>, OneRun(item),
           Settled' \in Int, Settled <= Settled',
           \A a \in DOMAIN item : item[a] <= Settled',
           \A i \in DOMAIN Items : \A a \in DOMAIN Items[i], b \in DOMAIN item : Items[i][a] < item[b]
    PROVE  /\ ItemsInOrder'
           /\ \/ dropped' = dropped /\ Items' = Append(Items, item)
                   /\ Positions(Items') = Positions(Items) \cup Range(item)
              \/ dropped' = dropped \cup Range(item) /\ Items' = Items
                   /\ Range(item) \cap Positions(Items) = {}
<1>1. StreamTypes /\ ItemsInOrder /\ Items \in Seq(Seq(Nat \ {0})) /\ Settled \in Int
  BY ItemsType DEF StreamInv
<1>2. CASE dropped' = dropped /\ queue' = Append(queue, item)
  <2>1. Items' = Append(Items, item)
    BY <1>1, <1>2, AppendedItem
  <2>2. /\ DOMAIN Items' = 1..Len(Items) + 1 /\ DOMAIN Items = 1..Len(Items) /\ Len(Items) \in Nat
        /\ Items'[Len(Items) + 1] = item
        /\ \A i \in 1..Len(Items) : Items'[i] = Items[i]
    BY <1>1, <2>1
  <2>3. ASSUME NEW i \in DOMAIN Items'
        PROVE  OneRun(Items'[i]) /\ \A a \in DOMAIN Items'[i] : Items'[i][a] <= Settled'
    <3>1. CASE i = Len(Items) + 1
      BY <2>2, <3>1 DEF OneRun
    <3>2. CASE i \in DOMAIN Items
      <4>1. OneRun(Items[i]) /\ \A a \in DOMAIN Items[i] : Items[i][a] <= Settled
        BY <1>1, <3>2 DEF ItemsInOrder
      <4>2. \A a \in DOMAIN Items[i] : Items[i][a] \in Int
        BY <1>1, <3>2
      <4> QED
        BY <1>1, <2>2, <3>2, <4>1, <4>2
    <3> QED
      BY <2>2, <3>1, <3>2
  <2>4. ASSUME NEW i \in DOMAIN Items', NEW k \in DOMAIN Items', i < k,
               NEW a \in DOMAIN Items'[i], NEW b \in DOMAIN Items'[k]
        PROVE  Items'[i][a] < Items'[k][b]
    <3>1. i \in DOMAIN Items /\ Items'[i] = Items[i]
      BY <2>2, <2>4
    <3>2. CASE k = Len(Items) + 1
      BY <2>2, <3>1, <3>2
    <3>3. CASE k \in DOMAIN Items
      BY <1>1, <2>2, <2>4, <3>1, <3>3 DEF ItemsInOrder
    <3> QED
      BY <2>2, <3>2, <3>3
  <2>5. ItemsInOrder'
    BY <2>3, <2>4 DEF ItemsInOrder, OneRun
  <2> QED
    BY <1>1, <1>2, <2>1, <2>5, AppendPositions
<1>3. CASE dropped' = dropped \cup Range(item) /\ UNCHANGED queue
  <2>1. Items' = Items
    BY <1>3 DEF Items
  <2>2. \A i \in DOMAIN Items : \A a \in DOMAIN Items[i] : Items[i][a] \in Int
    BY <1>1
  <2>3. ItemsInOrder'
    BY <1>1, <2>1, <2>2 DEF ItemsInOrder, OneRun
  <2>4. \A i \in DOMAIN Items : \A a \in DOMAIN Items[i], b \in DOMAIN item : Items[i][a] # item[b]
    <3>1. \A b \in DOMAIN item : item[b] \in Int
      OBVIOUS
    <3> QED
      BY <2>2, <3>1
  <2>5. Range(item) \cap Positions(Items) = {}
    BY <2>4 DEF Range, Positions
  <2> QED
    BY <1>3, <2>1, <2>3, <2>5
<1> QED
  BY <1>2, <1>3 DEF PutOrGiveUp

-----------------------------------------------------------------------------
(* The steps keep the stream in order and account for every event *)

LEMMA StreamInit == Init => StreamInv
<1> SUFFICES ASSUME Init PROVE StreamInv
  OBVIOUS
<1>1. StreamTypes
  BY StreamInitTypes
<1>2. Items = <<>> /\ pbuf = <<>> /\ Settled = 0 /\ dropped = {} /\ discarded = {} /\ rpc = "starting"
  BY DEF Init, Items, Settled, Current
<1>3. ItemsInOrder
  BY <1>2 DEF ItemsInOrder
<1>4. Accounted
  <2>1. Positions(Items) = {} /\ Range(pbuf) = {} /\ 1..Settled = {}
    BY <1>2 DEF Positions, Range
  <2> QED
    BY <1>2, <2>1 DEF Accounted
<1> QED
  BY <1>1, <1>2, <1>3, <1>4 DEF StreamInv, PendingIsLatest, PendingGoesOn, DiscardsOnlyReasoning

\* The positions of items, pending and lost events are those of settled ones.
LEMMA SettledPositions ==
    ASSUME StreamInv
    PROVE  /\ \A i \in DOMAIN Items : \A a \in DOMAIN Items[i] : Items[i][a] \in 1..Settled
           /\ \A k \in DOMAIN pbuf : pbuf[k] \in 1..Settled
           /\ dropped \cup discarded \subseteq 1..Settled
           /\ Settled <= Current
<1>1. \A i \in DOMAIN Items : \A a \in DOMAIN Items[i] : Items[i][a] \in Positions(Items)
  BY DEF Positions, Range
<1>2. \A k \in DOMAIN pbuf : pbuf[k] \in Range(pbuf)
  BY DEF Range
<1>3. Settled <= Current
  BY ItemsType DEF StreamInv, Settled
<1> QED
  BY <1>1, <1>2, <1>3 DEF StreamInv, Accounted

\* A step that only extends what was yielded keeps what is known of the rest.
LEMMA YieldedSafe ==
    ASSUME StreamInv, StreamTypes', UNCHANGED <<pbuf, ptype, queue, received, dropped, discarded>>,
           Settled' = Settled, Current' >= Current,
           \A p \in 1..Current : yielded'[p] = yielded[p],
           pbuf = <<>> \/ rpc' \in {"next", "flush", "handle"},
           rpc' = "handle" /\ pbuf # <<>> => yielded'[Current'] = ptype \/
               (yielded'[Current'] = "recovery" /\ ptype = "reasoning")
    PROVE  StreamInv'
<1>1. /\ Items' = Items /\ Items \in Seq(Seq(Nat \ {0})) /\ Settled \in Int
      /\ Current \in Nat /\ Current' \in Nat /\ pbuf \in Seq(Nat \ {0})
  BY ItemsType DEF Items, StreamInv, StreamTypes, TypeOK, Current
<1>2. /\ \A i \in DOMAIN Items : \A a \in DOMAIN Items[i] : Items[i][a] \in 1..Current
      /\ \A k \in DOMAIN pbuf : pbuf[k] \in 1..Current
      /\ discarded \subseteq 1..Current
  BY <1>1, SettledPositions
<1>3. \A i \in DOMAIN Items : \A a \in DOMAIN Items[i] : yielded'[Items[i][a]] = yielded[Items[i][a]]
  BY <1>2
<1>4. \A i \in DOMAIN Items : OneRun(Items[i]) => \A k \in DOMAIN Items[i] :
          Items[i][k] = Items[i][1] + k - 1 /\ yielded'[Items[i][k]] = yielded'[Items[i][1]]
  <2> SUFFICES ASSUME NEW i \in DOMAIN Items, OneRun(Items[i]), NEW k \in DOMAIN Items[i]
               PROVE  Items[i][k] = Items[i][1] + k - 1 /\ yielded'[Items[i][k]] = yielded'[Items[i][1]]
    OBVIOUS
  <2>1. 1 \in DOMAIN Items[i]
    BY <1>1
  <2> QED
    BY <1>3, <2>1 DEF OneRun
<1>5. ItemsInOrder'
  <2>1. \A i \in DOMAIN Items : OneRun(Items[i])
    BY DEF StreamInv, ItemsInOrder
  <2>2. \A i \in DOMAIN Items' : \A k \in DOMAIN Items'[i] :
            Items'[i][k] = Items'[i][1] + k - 1 /\ yielded'[Items'[i][k]] = yielded'[Items'[i][1]]
    BY <1>1, <1>4, <2>1
  <2>3. /\ \A i \in DOMAIN Items' : \A a \in DOMAIN Items'[i] : Items'[i][a] <= Settled'
        /\ \A i, k \in DOMAIN Items' : i < k =>
              \A a \in DOMAIN Items'[i], b \in DOMAIN Items'[k] : Items'[i][a] < Items'[k][b]
    BY <1>1 DEF StreamInv, ItemsInOrder
  <2> QED
    BY <2>2, <2>3 DEF ItemsInOrder, OneRun
<1>6. PendingIsLatest'
  BY <1>1, <1>2 DEF StreamInv, PendingIsLatest
<1>7. PendingGoesOn'
  BY DEF PendingGoesOn, Kind, DiscardsPending
<1>8. Accounted'
  BY <1>1 DEF StreamInv, Accounted
<1>9. DiscardsOnlyReasoning'
  <2> SUFFICES ASSUME NEW p \in discarded
               PROVE  \E r \in p + 1..Current' :
                         yielded'[r] = "recovery" /\ \A q \in p..r - 1 : yielded'[q] = "reasoning"
    BY DEF DiscardsOnlyReasoning
  <2>1. PICK r \in p + 1..Current :
            yielded[r] = "recovery" /\ \A q \in p..r - 1 : yielded[q] = "reasoning"
    BY DEF StreamInv, DiscardsOnlyReasoning
  <2>2. p \in 1..Current /\ r \in 1..Current /\ r \in p + 1..Current' /\ \A q \in p..r - 1 : q \in 1..Current
    BY <1>1, <1>2
  <2> QED
    BY <2>1, <2>2
<1> QED
  BY <1>5, <1>6, <1>7, <1>8, <1>9 DEF StreamInv

LEMMA GeneratorSafe ==
    ASSUME StreamInv, StreamTypes',
           Start \/ Return \/ Raise \/ \E kind \in Kinds : Yield(kind)
    PROVE  StreamInv'
<1> USE DEF loopVars, lossVars, pendingVars
<1>1. yielded \in Seq(Kinds) /\ pbuf \in Seq(Nat \ {0}) /\ Current \in Nat
  BY ItemsType DEF StreamInv, StreamTypes, TypeOK
<1>2. CASE Start
  BY <1>1, <1>2, YieldedSafe DEF Start, Settled, Current
<1>3. CASE Return
  <2>1. pbuf = <<>>
    <3>1. pbuf # <<>> => Settled = Current /\ Len(pbuf) \in DOMAIN pbuf /\ yielded[Current] \in Deltas /\ Current > 0
      BY <1>1, <1>3 DEF Return, Settled, StreamInv, PendingIsLatest
    <3> QED
      BY <1>3, <3>1 DEF Return, Kind
  <2> QED
    BY <1>1, <1>3, <2>1, YieldedSafe DEF Return, Settled, Current
<1>4. CASE Raise
  <2>1. pbuf = <<>> /\ Current = 0
    BY <1>4 DEF Raise, StreamInv, StreamTypes, PendingIsLatest, Current
  <2>2. Current' = 1 /\ Settled' = 0 /\ Settled = 0
    BY <1>1, <1>4, <2>1 DEF Raise, Current, Settled
  <2> QED
    BY <1>4, <2>1, <2>2, YieldedSafe DEF Raise
<1>5. ASSUME NEW kind \in Kinds, Yield(kind)
      PROVE  StreamInv'
  <2>1. /\ Current' = Current + 1 /\ yielded'[Current'] = kind
        /\ \A p \in 1..Current : yielded'[p] = yielded[p]
    BY <1>1, <1>5 DEF Yield, Current
  <2>2. Settled' = Settled
    BY <1>1, <1>5, <2>1 DEF Yield, Settled
  <2>3. rpc' = "handle" /\ pbuf # <<>> => kind = ptype \/ (kind = "recovery" /\ ptype = "reasoning")
    BY <1>5 DEF Yield, DiscardsPending, StreamInv, PendingIsLatest, Deltas
  <2>4. rpc' \in {"flush", "handle"}
    BY <1>5 DEF Yield
  <2>5. UNCHANGED <<pbuf, ptype, queue, received, dropped, discarded>>
    BY <1>5 DEF Yield
  <2>6. rpc' = "handle" /\ pbuf # <<>> => yielded'[Current'] = ptype \/
               (yielded'[Current'] = "recovery" /\ ptype = "reasoning")
    BY <2>1, <2>3
  <2>7. Current' >= Current
    BY <1>1, <2>1
  <2> QED
    BY <2>1, <2>2, <2>4, <2>5, <2>6, <2>7, YieldedSafe
<1> QED
  BY <1>2, <1>3, <1>4, <1>5

LEMMA FlushSafe ==
    ASSUME StreamInv, StreamTypes', Flush
    PROVE  StreamInv'
<1> USE DEF loopVars, lossVars, pendingVars
<1>1. /\ pbuf \in Seq(Nat \ {0}) /\ pbuf' = <<>> /\ Settled \in Int /\ Settled' = Settled /\ Current' = Current
      /\ UNCHANGED <<yielded, received, discarded>> /\ ptype' = "none" /\ Range(pbuf') = {}
  BY ItemsType DEF StreamInv, StreamTypes, TypeOK, Flush, Settled, Current, Range
<1>2. CASE pbuf = <<>> /\ UNCHANGED <<queue, dropped>>
  BY <1>1, <1>2 DEF StreamInv, Items, ItemsInOrder, OneRun, PendingIsLatest, PendingGoesOn, Accounted,
                    DiscardsOnlyReasoning
<1>3. CASE pbuf # <<>> /\ PutOrGiveUp(pbuf)
  <2>1. OneRun(pbuf) /\ \A i \in DOMAIN Items : \A a \in DOMAIN Items[i] : Items[i][a] < pbuf[1]
    <3>1. 1 \in DOMAIN pbuf
      BY <1>1, <1>3
    <3> QED
      BY <1>3, <3>1 DEF StreamInv, PendingIsLatest, OneRun
  <2>2. \A a \in DOMAIN pbuf : pbuf[a] <= Settled'
    BY <1>1, SettledPositions
  <2>3. ASSUME NEW i \in DOMAIN Items, NEW a \in DOMAIN Items[i], NEW b \in DOMAIN pbuf
        PROVE  Items[i][a] < pbuf[b]
    <3>1. Items[i][a] \in Int /\ pbuf[1] \in Int /\ pbuf[b] = pbuf[1] + b - 1 /\ b \in Int /\ b >= 1
      BY <1>1, <2>1, SettledPositions DEF OneRun
    <3> QED
      BY <2>1, <3>1
  <2>4. /\ ItemsInOrder'
        /\ \/ dropped' = dropped /\ Positions(Items') = Positions(Items) \cup Range(pbuf)
           \/ dropped' = dropped \cup Range(pbuf) /\ Items' = Items
                   /\ Range(pbuf) \cap Positions(Items) = {}
    BY <1>1, <1>3, <2>1, <2>2, <2>3, HandOver
  <2>5. Accounted'
    <3>1. /\ dropped \cup discarded \subseteq 1..Settled
          /\ Positions(Items) \cup Range(pbuf) = 1..Settled \ (dropped \cup discarded)
      BY DEF StreamInv, Accounted
    <3>2. dropped' \cup discarded' \subseteq 1..Settled
      BY <1>1, <2>4, <3>1
    <3>3. Positions(Items') = 1..Settled \ (dropped' \cup discarded')
      BY <1>1, <2>4, <3>1
    <3> QED
      BY <1>1, <3>2, <3>3 DEF Accounted
  <2>6. DiscardsOnlyReasoning'
    BY <1>1 DEF StreamInv, DiscardsOnlyReasoning
  <2> QED
    BY <1>1, <2>4, <2>5, <2>6 DEF StreamInv, PendingIsLatest, PendingGoesOn
<1> QED
  BY <1>2, <1>3 DEF Flush

\* A delta is merged with what is pending.
LEMMA DeltaSafe ==
    ASSUME StreamInv, StreamTypes', DeliverDelta
    PROVE  StreamInv'
<1> USE DEF loopVars, lossVars, pendingVars
<1> DEFINE item == Append(pbuf, Current)
<1>1. /\ pbuf \in Seq(Nat \ {0}) /\ Current \in Nat \ {0} /\ rpc = "handle" /\ rpc' = "next"
      /\ Current' = Current /\ Settled = Current - 1 /\ Settled' = Current
      /\ UNCHANGED <<yielded, received, dropped, discarded>> /\ Kind \in Deltas
  BY ItemsType DEF StreamInv, StreamTypes, TypeOK, DeliverDelta, Settled, Current, AtHand
<1>2. item \in Seq(Nat \ {0}) /\ Len(item) = Len(pbuf) + 1 /\ DOMAIN item = 1..Len(pbuf) + 1 /\ DOMAIN pbuf = 1..Len(pbuf)
      /\ item[Len(pbuf) + 1] = Current /\ (\A k \in 1..Len(pbuf) : item[k] = pbuf[k]) /\ Len(pbuf) \in Nat
  BY <1>1
<1> HIDE DEF item
<1>3. ASSUME pbuf # <<>>
      PROVE  /\ Kind = ptype /\ pbuf[Len(pbuf)] = Current - 1 /\ Len(pbuf) >= 1
             /\ \A k \in DOMAIN pbuf : pbuf[k] = pbuf[1] + k - 1 /\ yielded[pbuf[k]] = Kind
  <2>1. Kind = ptype
    BY <1>1, <1>3 DEF StreamInv, PendingGoesOn, DiscardsPending, Deltas
  <2> QED
    BY <1>1, <1>3, <2>1 DEF StreamInv, PendingIsLatest
<1>4. \A k \in DOMAIN item : item[k] = item[1] + k - 1 /\ yielded[item[k]] = Kind
  <2>1. CASE pbuf = <<>>
    <3>1. Len(pbuf) = 0
      BY <2>1
    <3> QED
      BY <1>1, <1>2, <3>1 DEF Kind
  <2>2. ASSUME pbuf # <<>>, NEW k \in DOMAIN item
        PROVE  item[k] = item[1] + k - 1 /\ yielded[item[k]] = Kind
    <3>0. Len(pbuf) >= 1 /\ 1 \in DOMAIN pbuf /\ Len(pbuf) \in DOMAIN pbuf
      BY <1>2, <1>3, <2>2
    <3>1. item[1] = pbuf[1] /\ pbuf[1] \in Nat /\ pbuf[Len(pbuf)] = pbuf[1] + Len(pbuf) - 1
      <4>1. pbuf[Len(pbuf)] = pbuf[1] + Len(pbuf) - 1
        BY <1>3, <2>2, <3>0
      <4>2. pbuf[1] \in Nat
        BY <1>1, <3>0
      <4>3. item[1] = pbuf[1]
        BY <1>2, <3>0
      <4> QED
        BY <4>1, <4>2, <4>3
    <3>2. CASE k = Len(pbuf) + 1
      BY <1>1, <1>2, <1>3, <2>2, <3>1, <3>2 DEF Kind
    <3>3. CASE k \in 1..Len(pbuf)
      BY <1>2, <1>3, <2>2, <3>1, <3>3
    <3> QED
      BY <1>2, <3>2, <3>3
  <2> QED
    BY <2>1, <2>2
<1>5. 1 \in DOMAIN item /\ \A k \in DOMAIN item : item[k] \in Int /\ item[1] \in Int
  BY <1>2
<1>6. ASSUME NEW i \in DOMAIN Items, NEW a \in DOMAIN Items[i], NEW b \in DOMAIN item
      PROVE  Items[i][a] < item[b]
  <2>1. Items[i][a] \in 1..Current - 1
    BY <1>1, SettledPositions
  <2>2. Items[i][a] < item[1]
    <3>1. CASE pbuf = <<>>
      BY <1>1, <1>2, <2>1, <3>1
    <3>2. CASE pbuf # <<>>
      BY <1>1, <1>2, <1>3, <3>2 DEF StreamInv, PendingIsLatest
    <3> QED
      BY <3>1, <3>2
  <2> QED
    BY <1>2, <1>4, <1>5, <2>1, <2>2
<1>7. Range(item) = Range(pbuf) \cup {Current} /\ 1..Settled' = 1..Settled \cup {Current} /\ Current \notin 1..Settled
  BY <1>1, <1>2 DEF Range
<1>8. OneRun(item) /\ \A a \in DOMAIN item : item[a] <= Settled'
  <2>1. OneRun(item)
    BY <1>4, <1>5 DEF OneRun
  <2>2. \A a \in DOMAIN item : item[a] <= item[Len(item)]
    BY <1>2, <1>4, <1>5
  <2> QED
    BY <1>1, <1>2, <2>1, <2>2
<1>9. /\ dropped \cup discarded \subseteq 1..Settled
      /\ Positions(Items) \cup Range(pbuf) = 1..Settled \ (dropped \cup discarded)
  BY DEF StreamInv, Accounted
<1>10. DiscardsOnlyReasoning'
  BY <1>1 DEF StreamInv, DiscardsOnlyReasoning
<1>11. CASE Len(queue) < Capacity /\ queue' = Append(queue, item) /\ pbuf' = <<>>
  <2>1. PutOrGiveUp(item)
    BY <1>1, <1>11 DEF PutOrGiveUp
  <2>2. ~(dropped' = dropped \cup Range(item) /\ Range(item) \cap Positions(Items) = {} /\ Current \in dropped')
    BY <1>1, <1>7, <1>9
  <2>3. ItemsInOrder' /\ Positions(Items') = Positions(Items) \cup Range(item)
    <3>1. Settled' \in Int /\ Settled <= Settled'
      BY <1>1
    <3> QED
      BY <1>1, <1>2, <1>6, <1>7, <1>8, <2>1, <2>2, <3>1, HandOver
  <2>4. Accounted'
    <3>1. Range(pbuf') = {}
      BY <1>11 DEF Range
    <3>2. dropped' \cup discarded' \subseteq 1..Settled'
      BY <1>1, <1>7, <1>9
    <3>3. Positions(Items') = 1..Settled' \ (dropped' \cup discarded')
      BY <1>1, <1>7, <1>9, <2>3
    <3> QED
      BY <3>1, <3>2, <3>3 DEF Accounted
  <2> QED
    BY <1>1, <1>10, <1>11, <2>3, <2>4 DEF StreamInv, PendingIsLatest, PendingGoesOn
<1>12. CASE UNCHANGED queue /\ pbuf' = item /\ ptype' = Kind
  <2>1. Items' = Items
    BY <1>1, <1>12 DEF Items
  <2>2. ItemsInOrder'
    <3>1. \A i \in DOMAIN Items : \A a \in DOMAIN Items[i] : Items[i][a] <= Settled'
      BY <1>1, SettledPositions
    <3> QED
      BY <1>1, <2>1, <3>1 DEF StreamInv, ItemsInOrder, OneRun
  <2>3. Accounted'
    BY <1>1, <1>7, <1>9, <1>12, <2>1 DEF Accounted
  <2>4. PendingIsLatest'
    <3>1. \A i \in DOMAIN Items : \A a \in DOMAIN Items[i] : Items[i][a] < item[1]
      BY <1>5, <1>6
    <3> QED
      BY <1>1, <1>2, <1>4, <1>12, <2>1, <3>1 DEF PendingIsLatest
  <2> QED
    BY <1>1, <1>10, <2>2, <2>3, <2>4 DEF StreamInv, PendingGoesOn
<1> QED
  BY <1>11, <1>12 DEF DeliverDelta, item

\* An event that is not a delta follows what is pending, or discards it.
LEMMA EventSafe ==
    ASSUME StreamInv, StreamTypes', DeliverEvent \/ DeliverFailure
    PROVE  StreamInv'
<1> USE DEF loopVars, lossVars, pendingVars
<1>1. /\ pbuf \in Seq(Nat \ {0}) /\ Current \in Nat \ {0} /\ Current' = Current
      /\ Settled = Current - 1 /\ Settled' = Current /\ rpc' \in {"next", "sentinel"}
      /\ UNCHANGED <<yielded, received>> /\ PutOrGiveUp(<<Current>>)
  BY ItemsType DEF StreamInv, StreamTypes, TypeOK, DeliverEvent, DeliverFailure, Settled, Current, AtHand
<1>2. pbuf # <<>> => DeliverEvent /\ rpc = "handle" /\ DiscardsPending(Kind)
  BY DEF DeliverEvent, DeliverFailure, StreamInv, PendingIsLatest, PendingGoesOn
<1>3. pbuf' = <<>> /\ discarded' = discarded \cup Range(pbuf)
  <2>1. CASE pbuf = <<>>
    <3>1. Range(pbuf) = {}
      BY <2>1 DEF Range
    <3> QED
      BY <2>1, <3>1 DEF DeliverEvent, DeliverFailure
  <2>2. CASE pbuf # <<>>
    BY <1>2, <2>2 DEF DeliverEvent
  <2> QED
    BY <2>1, <2>2
<1>4. OneRun(<<Current>>) /\ <<Current>> \in Seq(Nat \ {0}) /\ Range(<<Current>>) = {Current}
  BY <1>1 DEF OneRun, Range
<1>5. /\ \A a \in DOMAIN <<Current>> : <<Current>>[a] <= Settled'
      /\ \A i \in DOMAIN Items : \A a \in DOMAIN Items[i], b \in DOMAIN <<Current>> : Items[i][a] < <<Current>>[b]
  BY <1>1, SettledPositions
<1>6. /\ ItemsInOrder'
      /\ \/ dropped' = dropped /\ Positions(Items') = Positions(Items) \cup {Current}
         \/ dropped' = dropped \cup {Current} /\ Items' = Items
  BY <1>1, <1>4, <1>5, HandOver
<1>7. 1..Settled' = 1..Settled \cup {Current} /\ Current \notin 1..Settled
  BY <1>1
<1>8. Range(pbuf) \cap Positions(Items) = {}
  <2>1. ASSUME NEW k \in DOMAIN pbuf, NEW i \in DOMAIN Items, NEW a \in DOMAIN Items[i]
        PROVE  pbuf[k] # Items[i][a]
    <3>1. /\ pbuf # <<>> /\ k \in Int /\ k >= 1 /\ 1 \in DOMAIN pbuf
          /\ Items[i][a] \in Int /\ pbuf[1] \in Int
      BY <1>1, SettledPositions
    <3>2. pbuf[k] = pbuf[1] + k - 1 /\ Items[i][a] < pbuf[1]
      BY <3>1 DEF StreamInv, PendingIsLatest
    <3> QED
      BY <3>1, <3>2
  <2> QED
    BY <2>1 DEF Range, Positions
<1>9. Accounted'
  <2>1. /\ dropped \cup discarded \subseteq 1..Settled
        /\ Positions(Items) \cup Range(pbuf) = 1..Settled \ (dropped \cup discarded)
    BY DEF StreamInv, Accounted
  <2>2. Range(pbuf') = {}
    BY <1>3 DEF Range
  <2>3. dropped' \cup discarded' \subseteq 1..Settled'
    BY <1>3, <1>6, <1>7, <2>1
  <2>4. Positions(Items') = 1..Settled' \ (dropped' \cup discarded')
    BY <1>3, <1>6, <1>7, <1>8, <2>1
  <2> QED
    BY <2>2, <2>3, <2>4 DEF Accounted
<1>10. DiscardsOnlyReasoning'
  <2>1. ASSUME NEW k \in DOMAIN pbuf
        PROVE  \E r \in pbuf[k] + 1..Current :
                  yielded[r] = "recovery" /\ \A q \in pbuf[k]..r - 1 : yielded[q] = "reasoning"
    <3>1. /\ pbuf # <<>> /\ k \in 1..Len(pbuf) /\ 1 \in DOMAIN pbuf /\ Len(pbuf) \in DOMAIN pbuf /\ Len(pbuf) \in Nat
          /\ pbuf[1] \in Int /\ pbuf[k] \in 1..Current - 1
      BY <1>1, SettledPositions
    <3>2. yielded[Current] = "recovery" /\ ptype = "reasoning"
      BY <1>2, <3>1 DEF DiscardsPending, Kind
    <3>3. /\ \A j \in DOMAIN pbuf : pbuf[j] = pbuf[1] + j - 1 /\ yielded[pbuf[j]] = "reasoning"
          /\ pbuf[Len(pbuf)] = Current - 1
      BY <1>1, <3>1, <3>2 DEF StreamInv, PendingIsLatest
    <3>4. ASSUME NEW q \in pbuf[k]..Current - 1
          PROVE  yielded[q] = "reasoning"
      <4>1. q - pbuf[1] + 1 \in DOMAIN pbuf
        <5>1. pbuf[k] = pbuf[1] + k - 1 /\ Current - 1 = pbuf[1] + Len(pbuf) - 1
          BY <3>1, <3>3
        <5>2. q \in Int /\ k \in Int /\ Len(pbuf) \in Int /\ pbuf[1] \in Int /\ pbuf[k] \in Int /\ Current - 1 \in Int
              /\ q >= pbuf[k] /\ q <= Current - 1 /\ k >= 1
          BY <1>1, <3>1
        <5>3. q - pbuf[1] + 1 >= 1 /\ q - pbuf[1] + 1 <= Len(pbuf)
          BY <5>1, <5>2
        <5>4. q - pbuf[1] + 1 \in 1..Len(pbuf)
          BY <5>2, <5>3
        <5> QED
          BY <1>1, <5>4
      <4>2. pbuf[q - pbuf[1] + 1] = q
        <5>1. pbuf[q - pbuf[1] + 1] = pbuf[1] + (q - pbuf[1] + 1) - 1
          BY <3>3, <4>1
        <5>2. q \in Int
          BY <1>1, <3>1
        <5> QED
          BY <3>1, <5>1, <5>2
      <4> QED
        BY <3>3, <4>1, <4>2
    <3>5. Current \in pbuf[k] + 1..Current
      BY <1>1, <3>1
    <3> QED
      BY <3>2, <3>4, <3>5
  <2>2. \A p \in Range(pbuf) : \E r \in p + 1..Current :
            yielded[r] = "recovery" /\ \A q \in p..r - 1 : yielded[q] = "reasoning"
    BY <2>1 DEF Range
  <2>3. DiscardsOnlyReasoning
    BY DEF StreamInv
  <2> QED
    BY <1>1, <1>3, <2>2, <2>3 DEF DiscardsOnlyReasoning
<1> QED
  BY <1>1, <1>3, <1>6, <1>9, <1>10 DEF StreamInv, PendingIsLatest, PendingGoesOn

LEMMA SentinelSafe ==
    ASSUME StreamInv, StreamTypes', PutSentinel
    PROVE  StreamInv'
<1> USE DEF loopVars, lossVars, pendingVars
<1>1. /\ pbuf = <<>> /\ pbuf' = <<>> /\ Settled \in Int /\ Settled' = Settled /\ Current' = Current
      /\ UNCHANGED <<yielded, received, discarded>> /\ rpc' = "ended"
  BY ItemsType DEF StreamInv, StreamTypes, PutSentinel, Settled, Current, PendingIsLatest
<1>2. OneRun(Sentinel) /\ Sentinel \in Seq(Nat \ {0}) /\ DOMAIN Sentinel = {} /\ Range(Sentinel) = {}
  BY DEF OneRun, Sentinel, Range
<1>3. ItemsInOrder' /\ dropped' = dropped /\ Positions(Items') = Positions(Items)
  <2>1. /\ \A a \in DOMAIN Sentinel : Sentinel[a] <= Settled'
        /\ \A i \in DOMAIN Items : \A a \in DOMAIN Items[i], b \in DOMAIN Sentinel : Items[i][a] < Sentinel[b]
        /\ Settled' \in Int /\ Settled <= Settled' /\ PutOrGiveUp(Sentinel)
    BY <1>1, <1>2 DEF PutSentinel
  <2>2. /\ ItemsInOrder'
        /\ \/ dropped' = dropped /\ Positions(Items') = Positions(Items) \cup Range(Sentinel)
           \/ dropped' = dropped \cup Range(Sentinel) /\ Items' = Items
    BY <1>1, <1>2, <2>1, HandOver
  <2> QED
    BY <1>2, <2>2
<1>4. Accounted'
  BY <1>1, <1>3 DEF StreamInv, Accounted
<1>5. DiscardsOnlyReasoning'
  BY <1>1 DEF StreamInv, DiscardsOnlyReasoning
<1> QED
  BY <1>1, <1>3, <1>4, <1>5 DEF StreamInv, PendingIsLatest, PendingGoesOn

LEMMA StreamStep ==
    ASSUME StreamInv, [Next]_vars
    PROVE  StreamInv'
<1> USE DEF loopVars, lossVars, pendingVars
<1>1. ASSUME StreamTypes', Items' = Items, UNCHANGED <<loopVars, rpc, pendingVars, lossVars>>
      PROVE  StreamInv'
  BY <1>1 DEF StreamInv, ItemsInOrder, OneRun, PendingIsLatest, PendingGoesOn, Accounted,
              DiscardsOnlyReasoning, Settled, Current, Kind, DiscardsPending
<1>2. CASE UNCHANGED vars
  BY <1>1, <1>2 DEF vars, Items, StreamInv, StreamTypes, TypeOK, AtHand, Current
<1>3. CASE Next
  <2>1. StreamTypes'
    BY <1>3, StreamStepTypes DEF StreamInv
  <2>2. CASE GetEvent
    BY <1>1, <2>1, <2>2, ReceivedItem DEF StreamInv, GetEvent
  <2> QED
    BY <1>3, <2>1, <2>2, GeneratorSafe, FlushSafe, DeltaSafe, EventSafe, SentinelSafe DEF Next, Runner
<1> QED
  BY <1>2, <1>3

-----------------------------------------------------------------------------
(* Theorems about the stream *)

LEMMA ConsumerStep ==
    ASSUME [ConsumerNext]_allVars
    PROVE  [Next]_vars
BY DEF ConsumerNext, Agent, Ask, LoopStep, RunnerStep, Consumer, PollEvent, PollTimeout, Check,
       DrainEvent, DrainEmpty, Finished, allVars, Next, Runner, Kinds

\* With its consumer and the answers the agent waits for, the runner still
\* produces no stream that it would not produce alone.
THEOREM ConsumerRefinesStream == ConsumerSpec => Spec
<1>1. ConsumerInit => Init
  BY DEF ConsumerInit
<1>2. [ConsumerNext]_allVars => [Next]_vars
  BY ConsumerStep
<1> QED
  BY <1>1, <1>2, PTL DEF ConsumerSpec, Spec

THEOREM StreamInvariance == Spec => []StreamInv
<1>1. StreamInv /\ [Next]_vars => StreamInv'
  BY StreamStep
<1> QED
  BY <1>1, StreamInit, PTL DEF Spec

LEMMA StreamIsItems ==
    ASSUME StreamInv
    PROVE  /\ Stream = Append(Items, pbuf) /\ Len(Items) \in Nat
           /\ DOMAIN Stream = 1..Len(Items) + 1 /\ DOMAIN Items = 1..Len(Items)
           /\ Stream[Len(Items) + 1] = pbuf /\ \A i \in DOMAIN Items : Stream[i] = Items[i]
<1>1. Items \in Seq(Seq(Nat \ {0})) /\ pbuf \in Seq(Nat \ {0})
  BY ItemsType DEF StreamInv, StreamTypes, TypeOK
<1>2. Stream = Append(Items, pbuf)
  BY <1>1 DEF Stream, Items
<1> QED
  BY <1>1, <1>2

\* Events reach the consumer in the order the loop yielded them, none twice,
\* and an item never mixes deltas of two types, whatever was buffered, dropped
\* or discarded and however full the queue was.
THEOREM EventsInOrder == ConsumerSpec => []InOrder
<1>1. ASSUME StreamInv
      PROVE  InOrder
  <2>1. Items \in Seq(Seq(Nat \ {0})) /\ pbuf \in Seq(Nat \ {0})
    BY <1>1, ItemsType DEF StreamInv, StreamTypes, TypeOK
  <2>2. \A i \in DOMAIN Stream : Stream[i] \in Seq(Nat \ {0}) /\ OneRun(Stream[i])
    <3>1. OneRun(pbuf)
      <4>1. pbuf # <<>> => 1 \in DOMAIN pbuf
        BY <2>1
      <4> QED
        BY <1>1, <4>1, <2>1 DEF StreamInv, PendingIsLatest, OneRun
    <3> QED
      BY <1>1, <2>1, <3>1, StreamIsItems DEF StreamInv, ItemsInOrder
  <2>3. ASSUME NEW item \in Seq(Nat \ {0}), OneRun(item), NEW k \in 1..Len(item) - 1
        PROVE  item[k + 1] = item[k] + 1 /\ yielded[item[k + 1]] = yielded[item[k]]
    <3>1. k \in DOMAIN item /\ k + 1 \in DOMAIN item /\ 1 \in DOMAIN item /\ item[1] \in Int
      OBVIOUS
    <3> QED
      BY <2>3, <3>1 DEF OneRun
  <2>4. ASSUME NEW i \in DOMAIN Stream, NEW k \in DOMAIN Stream, i < k,
               NEW a \in DOMAIN Stream[i], NEW b \in DOMAIN Stream[k]
        PROVE  Stream[i][a] < Stream[k][b]
    <3>1. i \in DOMAIN Items /\ Stream[i] = Items[i]
      BY <1>1, <2>4, StreamIsItems
    <3>2. CASE k \in DOMAIN Items
      BY <1>1, <2>4, <3>1, <3>2, StreamIsItems DEF StreamInv, ItemsInOrder
    <3>3. CASE k = Len(Items) + 1
      <4>1. Stream[k] = pbuf /\ b \in DOMAIN pbuf /\ pbuf # <<>> /\ b \in Int /\ b >= 1 /\ pbuf[1] \in Int
        BY <1>1, <2>1, <3>3, StreamIsItems
      <4>2. Items[i][a] < pbuf[1] /\ pbuf[b] = pbuf[1] + b - 1 /\ Items[i][a] \in Int
        BY <1>1, <2>1, <3>1, <4>1 DEF StreamInv, PendingIsLatest
      <4> QED
        BY <3>1, <4>1, <4>2
    <3> QED
      BY <1>1, <3>2, <3>3, StreamIsItems
  <2> QED
    BY <2>2, <2>3, <2>4 DEF InOrder, MergedAlike, Range
<1> QED
  BY <1>1, StreamInvariance, ConsumerRefinesStream, PTL

\* What is neither given up by a put that timed out nor discarded by a
\* recovery is received, queued, pending or in hand; and a recovery discards
\* only the reasoning just before it.
THEOREM NoEventLost == ConsumerSpec => []NothingLost
<1>1. ASSUME StreamInv
      PROVE  NothingLost
  <2>1. Positions(Stream) = Positions(Items) \cup Range(pbuf)
    BY <1>1, StreamIsItems, ItemsType, AppendPositions DEF StreamInv
  <2>2. 1..Current = 1..Settled \cup InHand /\ InHand \cap 1..Settled = {}
    <3>1. Current \in Nat /\ (rpc \in {"flush", "handle", "failed"} => Current > 0)
      BY <1>1, ItemsType DEF StreamInv, StreamTypes, AtHand
    <3> QED
      BY <3>1 DEF InHand, Settled
  <2> QED
    BY <1>1, <2>1, <2>2 DEF StreamInv, Accounted, NothingLost
<1> QED
  BY <1>1, StreamInvariance, ConsumerRefinesStream, PTL

-----------------------------------------------------------------------------
(* Theorems about the consumer *)

ConsumerTypes ==
    /\ asked \subseteq 1..MaxEvents
    /\ answered \subseteq asked
    /\ cpc \in {"poll", "check", "drain", "done"}
    /\ Current <= MaxEvents

\* The variables keep their types and the queue its bound, whatever the
\* consumer's pace; what the agent waits on has been yielded.
THEOREM TypesCorrect == ConsumerSpec => []ConsumerTypeOK
<1>1. ConsumerInit => ConsumerTypes /\ StreamTypes
  BY StreamInitTypes, MaxEventsAssumption DEF ConsumerInit, Init, ConsumerTypes, Current
<1>2. ASSUME ConsumerTypes, StreamTypes, [ConsumerNext]_allVars
      PROVE  ConsumerTypes' /\ StreamTypes'
  <2>1. StreamTypes'
    <3>1. CASE UNCHANGED vars
      BY <1>2, <3>1 DEF vars, loopVars, pendingVars, lossVars, StreamTypes, TypeOK, AtHand, Current
    <3> QED
      BY <1>2, <3>1, ConsumerStep, StreamStepTypes
  <2>2. yielded \in Seq(Kinds) /\ Current \in Nat /\ (rpc = "starting" => Current = 0)
    BY <1>2, ItemsType DEF StreamTypes, TypeOK, Current
  <2>3. ASSUME NEW kind \in Kinds, Yield(kind)
        PROVE  Current' = Current + 1 /\ Current + 1 <= MaxEvents
    BY <2>2, <2>3, MaxEventsAssumption DEF Yield, Current
  <2>4. CASE Ask
    BY <1>2, <2>1, <2>2, <2>3, <2>4 DEF Ask, Kinds, ConsumerTypes
  <2>5. CASE LoopStep
    <3>1. Current' <= MaxEvents
      BY <1>2, <2>2, <2>3, <2>5 DEF LoopStep, Return, Current, ConsumerTypes
    <3> QED
      BY <1>2, <2>1, <2>5, <3>1 DEF LoopStep, ConsumerTypes
  <2>6. CASE RunnerStep
    <3>1. CASE Raise
      BY <1>2, <2>1, <2>2, <2>6, <3>1, MaxEventsAssumption DEF RunnerStep, Raise, Current, ConsumerTypes
    <3>2. CASE ~Raise
      <4>1. UNCHANGED yielded
        BY <2>6, <3>2 DEF RunnerStep, Start, Flush, DeliverDelta, DeliverEvent, DeliverFailure, PutSentinel, loopVars
      <4> QED
        BY <1>2, <2>1, <2>6, <4>1 DEF RunnerStep, Current, ConsumerTypes
    <3> QED
      BY <3>1, <3>2
  <2>7. CASE Consumer
    <3>1. UNCHANGED <<yielded, asked>>
      BY <2>7 DEF Consumer, PollEvent, PollTimeout, Check, DrainEvent, DrainEmpty, GetEvent, vars, loopVars
    <3>2. cpc' \in {"poll", "check", "drain", "done"} /\ answered' \subseteq asked
      BY <1>2, <2>7 DEF Consumer, PollEvent, PollTimeout, Check, DrainEvent, DrainEmpty, Goto, ConsumerTypes
    <3> QED
      BY <1>2, <2>1, <3>1, <3>2 DEF ConsumerTypes, Current
  <2>8. CASE UNCHANGED allVars
    BY <1>2, <2>1, <2>8 DEF allVars, vars, loopVars, ConsumerTypes, Current
  <2> QED
    BY <1>2, <2>1, <2>4, <2>5, <2>6, <2>7, <2>8 DEF ConsumerNext, Agent, Finished
<1>3. ConsumerTypes /\ StreamTypes => ConsumerTypeOK
  BY DEF ConsumerTypes, StreamTypes, ConsumerTypeOK
<1> QED
  BY <1>1, <1>2, <1>3, PTL DEF ConsumerSpec

\* The sentinel, if it is queued, is queued last; and a run that is over has
\* nothing else in its queue.
QueueEmptied ==
    /\ \A i \in DOMAIN queue : queue[i] = Sentinel => i = Len(queue)
    /\ cpc = "done" => \A i \in DOMAIN queue : queue[i] = Sentinel

LEMMA EmptiedStep ==
    ASSUME Drains, IInv, QueueEmptied, [ConsumerNext]_allVars
    PROVE  QueueEmptied'
<1>1. /\ queue \in Seq(Seq(Nat \ {0})) /\ Len(queue) \in Nat /\ QueueOK /\ DOMAIN queue = 1..Len(queue)
      /\ pbuf \in Seq(Nat \ {0}) /\ Current \in Nat
      /\ rpc \in {"flush", "handle", "failed"} => Current \in Nat \ {0}
  BY DEF IInv, QueueOK, AtHand, Current
<1>2. CASE UNCHANGED <<queue, cpc>>
  BY <1>2 DEF QueueEmptied
<1>3. ASSUME NEW item \in Seq(Nat \ {0}), PutOrGiveUp(item), UNCHANGED cpc,
             rpc \notin {"starting", "ended"}, item = Sentinel \/ rpc # "sentinel"
      PROVE  QueueEmptied'
  <2>1. \A i \in DOMAIN queue : queue[i] # Sentinel
    BY <1>1, <1>3 DEF IInv, SentinelIsLast
  <2>2. CASE queue' = Append(queue, item)
    <3>1. Len(queue') = Len(queue) + 1 /\ DOMAIN queue' = 1..Len(queue) + 1
          /\ queue'[Len(queue) + 1] = item /\ \A i \in 1..Len(queue) : queue'[i] = queue[i]
      BY <1>1, <2>2
    <3>2. cpc = "done" => item = Sentinel /\ DOMAIN queue = {}
      BY <1>3, <2>1 DEF IInv, CheckedLate, QueueEmptied
    <3>3. ASSUME NEW i \in DOMAIN queue'
          PROVE  /\ queue'[i] = Sentinel => i = Len(queue')
                 /\ cpc' = "done" => queue'[i] = Sentinel
      <4>1. CASE i = Len(queue) + 1
        BY <1>3, <3>1, <3>2, <4>1
      <4>2. CASE i \in 1..Len(queue)
        BY <1>1, <1>3, <2>1, <3>1, <3>2, <4>2
      <4> QED
        BY <1>1, <3>1, <4>1, <4>2
    <3> QED
      BY <3>3 DEF QueueEmptied
  <2> QED
    BY <1>2, <1>3, <2>2 DEF PutOrGiveUp
<1>4. CASE RunnerStep
  <2>1. CASE Start \/ Raise
    BY <1>2, <1>4, <2>1 DEF RunnerStep, Start, Raise
  <2>2. CASE Flush
    BY <1>1, <1>2, <1>3, <1>4, <2>2 DEF RunnerStep, Flush
  <2>3. CASE DeliverDelta
    <3>1. CASE Len(queue) < Capacity /\ queue' = Append(queue, Append(pbuf, Current))
      <4>1. PutOrGiveUp(Append(pbuf, Current))
        BY <2>3, <3>1 DEF PutOrGiveUp, DeliverDelta, lossVars
      <4>2. Append(pbuf, Current) \in Seq(Nat \ {0})
        BY <1>1, <2>3 DEF DeliverDelta
      <4> QED
        BY <1>3, <1>4, <2>3, <4>1, <4>2 DEF RunnerStep, DeliverDelta
    <3> QED
      BY <1>2, <1>4, <2>3, <3>1 DEF RunnerStep, DeliverDelta
  <2>4. CASE DeliverEvent \/ DeliverFailure
    <3>1. <<Current>> \in Seq(Nat \ {0})
      BY <1>1, <2>4 DEF DeliverEvent, DeliverFailure
    <3> QED
      BY <1>3, <1>4, <2>4, <3>1 DEF RunnerStep, DeliverEvent, DeliverFailure
  <2>5. CASE PutSentinel
    <3>1. Sentinel \in Seq(Nat \ {0})
      BY DEF Sentinel
    <3> QED
      BY <1>3, <1>4, <2>5, <3>1 DEF RunnerStep, PutSentinel
  <2> QED
    BY <1>4, <2>1, <2>2, <2>3, <2>4, <2>5 DEF RunnerStep
<1>5. ASSUME GetEvent, cpc # "done", cpc' = "done" => Head(queue) = Sentinel
      PROVE  QueueEmptied'
  <2>1. queue' = Tail(queue) /\ queue # <<>> /\ Len(queue) >= 1
    BY <1>1, <1>5 DEF GetEvent
  <2>2. Len(queue') = Len(queue) - 1 /\ DOMAIN queue' = 1..Len(queue) - 1
        /\ \A i \in 1..Len(queue) - 1 : queue'[i] = queue[i + 1] /\ i + 1 \in DOMAIN queue
    BY <1>1, <2>1
  <2>3. Head(queue) = Sentinel => DOMAIN queue' = {}
    <3>1. Head(queue) = queue[1] /\ 1 \in DOMAIN queue
      BY <1>1, <2>1
    <3>2. Head(queue) = Sentinel => 1 = Len(queue)
      BY <3>1 DEF QueueEmptied
    <3> QED
      BY <2>2, <3>2
  <2>4. ASSUME NEW i \in DOMAIN queue', queue'[i] = Sentinel
        PROVE  i = Len(queue')
    <3>1. i + 1 = Len(queue)
      BY <2>2, <2>4 DEF QueueEmptied
    <3> QED
      BY <1>1, <2>2, <3>1
  <2> QED
    BY <1>5, <2>3, <2>4 DEF QueueEmptied
<1>6. CASE Consumer
  <2>1. CASE PollEvent
    BY <1>5, <2>1 DEF PollEvent, Goto
  <2>2. CASE DrainEvent
    BY <1>5, <2>2 DEF DrainEvent, Goto
  <2>3. CASE PollTimeout \/ Check \/ DrainEmpty
    <3>1. UNCHANGED queue /\ cpc # "done" /\ (cpc' = "done" => queue = <<>>)
      BY <2>3 DEF PollTimeout, Check, DrainEmpty, Goto, vars
    <3>2. queue = <<>> => DOMAIN queue = {}
      BY <1>1
    <3> QED
      BY <3>1, <3>2 DEF QueueEmptied
  <2> QED
    BY <1>6, <2>1, <2>2, <2>3 DEF Consumer
<1>7. CASE Ask \/ LoopStep \/ UNCHANGED allVars
  <2>1. UNCHANGED <<queue, cpc>>
    BY <1>7 DEF Ask, LoopStep, Yield, Return, allVars, vars
  <2> QED
    BY <1>2, <2>1
<1> QED
  BY <1>4, <1>6, <1>7 DEF ConsumerNext, Agent, Finished

\* A consumer that empties the queue after its last poll, as the control
\* server's broker does, ends a run with all its events but those lost: none
\* is still queued, pending or in the runner's hand.
THEOREM ResultsAreComplete == ~SlowStart /\ Drains /\ ConsumerSpec => []ResultComplete
<1> SUFFICES ASSUME ~SlowStart, Drains PROVE ConsumerSpec => []ResultComplete
  OBVIOUS
<1>1. ConsumerInit => QueueEmptied
  BY DEF ConsumerInit, Init, QueueEmptied
<1>2. IInv /\ QueueEmptied /\ [ConsumerNext]_allVars => QueueEmptied'
  BY EmptiedStep
<1>3. ASSUME IInv, StreamInv, QueueEmptied, cpc = "done"
      PROVE  Positions(received) = 1..Current \ (dropped \cup discarded)
  <2>1. rpc \in {"sentinel", "ended"} /\ pbuf = <<>> /\ Settled = Current
    BY <1>3 DEF IInv, CheckedLate, StreamInv, PendingIsLatest, Settled
  <2>2. received \in Seq(Seq(Nat \ {0})) /\ queue \in Seq(Seq(Nat \ {0}))
    BY <1>3 DEF StreamInv, StreamTypes, TypeOK
  <2>3. Positions(Items) = Positions(received)
    <3>1. ASSUME NEW i \in DOMAIN Items
          PROVE  (i \in DOMAIN received /\ Items[i] = received[i]) \/ Items[i] = Sentinel
      <4>1. CASE i > Len(received)
        <5>1. i - Len(received) \in DOMAIN queue /\ Items[i] = queue[i - Len(received)]
          BY <2>2, <4>1 DEF Items
        <5> QED
          BY <1>3, <5>1 DEF QueueEmptied
      <4>2. CASE ~(i > Len(received))
        BY <2>2, <4>2 DEF Items
      <4> QED
        BY <4>1, <4>2
    <3>2. \A i \in DOMAIN received : i \in DOMAIN Items /\ Items[i] = received[i]
      BY <2>2 DEF Items
    <3>3. Range(Sentinel) = {}
      BY DEF Range, Sentinel
    <3> QED
      BY <3>1, <3>2, <3>3 DEF Positions
  <2>4. Range(pbuf) = {}
    BY <2>1 DEF Range
  <2> QED
    BY <1>3, <2>1, <2>3, <2>4 DEF StreamInv, Accounted
<1>4. IInv /\ StreamInv /\ QueueEmptied => ResultComplete
  BY <1>3 DEF ResultComplete
<1> QED
  BY <1>1, <1>2, <1>4, Invariance, StreamInvariance, ConsumerRefinesStream, PTL DEF ConsumerSpec
=============================================================================

---------------------------- MODULE EventStream ----------------------------
(***************************************************************************)
(* BackgroundAgentRunner (lucnhan/agent/loop.py): the thread that drives   *)
(* the generator AgentLoop.run() and hands its events to the consumer      *)
(* through a bounded queue, merging text and reasoning deltas while the    *)
(* queue is full.                                                          *)
(*                                                                         *)
(* An event is known by its position in the sequence of events the loop    *)
(* has yielded; a queued event is the sequence of the positions merged     *)
(* into it, and the sentinel None is the empty sequence.  What the loop    *)
(* yields is arbitrary, except that it closes a stream of deltas with a    *)
(* control event (TEXT_DONE, TURN_END, CANCELLED or ERROR) before it       *)
(* returns.  A put with a timeout may give up whenever the queue is full.  *)
(***************************************************************************)
EXTENDS Integers, FiniteSets, SequencesExt

CONSTANTS Capacity,   \* _EVENT_QUEUE_MAXSIZE
          MaxEvents   \* bound: events the loop yields

ASSUME CapacityAssumption == Capacity \in Nat \ {0}
ASSUME MaxEventsAssumption == MaxEvents \in Nat \ {0}

VARIABLES
    yielded,    \* the types of the events the loop has yielded
    running,    \* AgentLoop._running
    rpc,        \* where the thread is in _run()
    ptype,      \* pending_type
    pbuf,       \* pending_buffer
    queue,      \* event_queue
    received,   \* what get_event() has returned to the consumer
    dropped,    \* positions given up by a put that timed out
    discarded   \* reasoning cleared at a RECOVERY_START

loopVars == <<yielded, running>>
pendingVars == <<ptype, pbuf>>
lossVars == <<dropped, discarded>>
vars == <<loopVars, rpc, pendingVars, queue, received, lossVars>>

Deltas == {"text", "reasoning"}
\* recovery is RECOVERY_START; control any other type in the control set;
\* status the types outside of it.
Kinds == Deltas \cup {"recovery", "control", "status"}
Control == {"recovery", "control"}

Sentinel == <<>>
Current == Len(yielded)
Kind == yielded[Current]

TypeOK ==
    /\ yielded \in Seq(Kinds)
    /\ running \in BOOLEAN
    /\ rpc \in {"starting", "next", "flush", "handle", "failed", "sentinel", "ended"}
    /\ ptype \in Deltas \cup {"none"}
    /\ pbuf \in Seq(Nat \ {0})
    /\ queue \in Seq(Seq(Nat \ {0}))
    /\ Len(queue) <= Capacity
    /\ received \in Seq(Seq(Nat \ {0}))
    /\ dropped \subseteq Nat /\ discarded \subseteq Nat

Init ==
    /\ yielded = <<>>
    /\ running = FALSE
    /\ rpc = "starting"
    /\ ptype = "none" /\ pbuf = <<>>
    /\ queue = <<>> /\ received = <<>>
    /\ dropped = {} /\ discarded = {}

-----------------------------------------------------------------------------
(* The generator *)

\* run() up to its first yield.
Start ==
    /\ rpc = "starting"
    /\ running' = TRUE
    /\ rpc' = "next"
    /\ UNCHANGED <<yielded, pendingVars, queue, received, lossVars>>

\* A RECOVERY_START drops pending reasoning instead of flushing it.
DiscardsPending(kind) == kind = "recovery" /\ ptype = "reasoning"

Yield(kind) ==
    /\ rpc = "next"
    /\ Current < IF kind \in Deltas THEN MaxEvents - 1 ELSE MaxEvents
    /\ yielded' = Append(yielded, kind)
    /\ rpc' = IF (kind \in Deltas => ptype \notin {kind, "none"})
                    /\ ~DiscardsPending(kind)
              THEN "flush" ELSE "handle"
    /\ UNCHANGED <<running, pendingVars, queue, received, lossVars>>

\* The finally clause of run() precedes that of _run().
Return ==
    /\ rpc = "next"
    /\ Current > 0 => Kind \notin Deltas
    /\ running' = FALSE
    /\ rpc' = "sentinel"
    /\ UNCHANGED <<yielded, pendingVars, queue, received, lossVars>>

\* An exception outside of run()'s own try: only while it sets up.
Raise ==
    /\ rpc = "starting"
    /\ yielded' = Append(yielded, "control")
    /\ rpc' = "failed"
    /\ UNCHANGED <<running, pendingVars, queue, received, lossVars>>

-----------------------------------------------------------------------------
(* The runner thread *)

\* Mutant: the queue has no bound.
PutUnbounded(item) ==
    /\ queue' = Append(queue, item)
    /\ UNCHANGED dropped

\* A put with a timeout: given up only while the queue is full.
PutOrGiveUp(item) ==
    \/ /\ Len(queue) < Capacity
       /\ queue' = Append(queue, item)
       /\ UNCHANGED dropped
    \/ /\ Len(queue) = Capacity
       /\ dropped' = dropped \cup Range(item)
       /\ UNCHANGED queue

\* _flush_pending()
Flush ==
    /\ rpc = "flush"
    /\ \/ pbuf = <<>> /\ UNCHANGED <<queue, dropped>>
       \/ pbuf # <<>> /\ PutOrGiveUp(pbuf)
    /\ ptype' = "none" /\ pbuf' = <<>>
    /\ rpc' = "handle"
    /\ UNCHANGED <<loopVars, received, discarded>>

\* Mutant: a delta goes straight into the queue, which may be full.
DeliverWithoutLooking ==
    /\ rpc = "handle"
    /\ Kind \in Deltas
    /\ Len(queue) < Capacity
    /\ queue' = Append(queue, Append(pbuf, Current))
    /\ ptype' = Kind
    /\ pbuf' = <<>>
    /\ rpc' = "next"
    /\ UNCHANGED <<loopVars, received, lossVars>>

\* Mutant: a delta that finds room overtakes the buffered ones.
DeliverPastBuffer ==
    /\ rpc = "handle"
    /\ Kind \in Deltas
    /\ ptype' = Kind
    /\ \/ /\ Len(queue) < Capacity
          /\ queue' = Append(queue, <<Current>>)
          /\ UNCHANGED pbuf
       \/ /\ Len(queue) = Capacity
          /\ pbuf' = Append(pbuf, Current)
          /\ UNCHANGED queue
    /\ rpc' = "next"
    /\ UNCHANGED <<loopVars, received, lossVars>>

\* A delta is buffered while the queue is full, else delivered at once with
\* what the buffer holds.
DeliverDelta ==
    /\ rpc = "handle"
    /\ Kind \in Deltas
    /\ \/ /\ Len(queue) < Capacity
          /\ queue' = Append(queue, Append(pbuf, Current))
          /\ pbuf' = <<>>
          /\ ptype' = IF pbuf = <<>> THEN Kind ELSE "none"
       \/ /\ Len(queue) = Capacity
          /\ pbuf' = Append(pbuf, Current)
          /\ ptype' = Kind
          /\ UNCHANGED queue
    /\ rpc' = "next"
    /\ UNCHANGED <<loopVars, received, lossVars>>

\* Mutant: a RECOVERY_START discards whatever is pending.
DeliverEventDiscarding ==
    /\ rpc \in {"flush", "handle"}
    /\ Kind \notin Deltas
    /\ rpc = "flush" => Kind = "recovery"
    /\ pbuf' = <<>> /\ ptype' = "none"
    /\ discarded' = discarded \cup Range(pbuf)
    /\ PutOrGiveUp(<<Current>>)
    /\ rpc' = "next"
    /\ UNCHANGED <<loopVars, received>>

\* Control and status events: _put_control, _put_delta.
DeliverEvent ==
    /\ rpc = "handle"
    /\ Kind \notin Deltas
    /\ IF DiscardsPending(Kind)
       THEN /\ discarded' = discarded \cup Range(pbuf)
            /\ pbuf' = <<>> /\ ptype' = "none"
       ELSE UNCHANGED <<discarded, pendingVars>>
    /\ PutOrGiveUp(<<Current>>)
    /\ rpc' = "next"
    /\ UNCHANGED <<loopVars, received>>

\* The except clause of _run(): the error event, nothing being pending.
DeliverFailure ==
    /\ rpc = "failed"
    /\ PutOrGiveUp(<<Current>>)
    /\ rpc' = "sentinel"
    /\ UNCHANGED <<loopVars, pendingVars, received, discarded>>

\* _put_sentinel()
PutSentinel ==
    /\ rpc = "sentinel"
    /\ PutOrGiveUp(Sentinel)
    /\ rpc' = "ended"
    /\ UNCHANGED <<loopVars, pendingVars, received, discarded>>

Runner ==
    \/ Start \/ Return \/ Raise
    \/ \E kind \in Kinds : Yield(kind)
    \/ Flush \/ DeliverDelta \/ DeliverEvent \/ DeliverFailure \/ PutSentinel

-----------------------------------------------------------------------------
(* The consumer *)

\* get_event() on a queue that is not empty.
GetEvent ==
    /\ queue # <<>>
    /\ queue' = Tail(queue)
    /\ received' = Append(received, Head(queue))
    /\ UNCHANGED <<loopVars, rpc, pendingVars, lossVars>>

Next == Runner \/ GetEvent

Spec == Init /\ [][Next]_vars

-----------------------------------------------------------------------------
(* Properties *)

Stream == received \o queue \o <<pbuf>>

\* Only neighbouring deltas of one type are merged, so that reasoning never
\* shows up in the text of an answer.
MergedAlike(item) ==
    \A k \in 1..Len(item) - 1 :
        item[k + 1] = item[k] + 1 /\ yielded[item[k + 1]] = yielded[item[k]]

\* Events reach the consumer in the order the loop yielded them, none twice,
\* whatever was buffered, merged, dropped or discarded on the way, and only
\* deltas of one type are merged.
InOrder ==
    /\ \A i, k \in DOMAIN Stream :
          i < k => \A p \in Range(Stream[i]), q \in Range(Stream[k]) : p < q
    /\ \A i \in DOMAIN Stream : MergedAlike(Stream[i])

Positions(items) == UNION {Range(items[i]) : i \in DOMAIN items}

InHand == IF rpc \in {"flush", "handle", "failed"} THEN {Current} ELSE {}

\* A recovery discards only the reasoning that immediately precedes it.
DiscardsOnlyReasoning ==
    \A p \in discarded :
        \E r \in p + 1..Current :
            /\ yielded[r] = "recovery"
            /\ \A q \in p..r - 1 : yielded[q] = "reasoning"

\* No event disappears without a put having timed out or a recovery having
\* discarded it, the reasoning just before it only: what is not dropped is
\* delivered or still in hand.
NothingLost ==
    /\ Positions(Stream) \cup InHand = 1..Current \ (dropped \cup discarded)
    /\ DiscardsOnlyReasoning
=============================================================================

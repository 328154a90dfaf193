------------------------------ MODULE EventBus ------------------------------
(***************************************************************************)
(* InMemoryEventBus (packages/events/src/in-memory-bus.ts).                *)
(*                                                                         *)
(* The bus runs on one JavaScript thread: code between two awaits is       *)
(* atomic, and every await lets any other pending call run.  A call of     *)
(* publish or publishBatch is a process with a frame holding its local     *)
(* variables.  What it awaits is its pc:                                   *)
(*   "running"    a handler                                                *)
(*   "capturing"  the dead-letter sink                                     *)
(*   "fanout"     a deliver that has settled; the for loop is to resume    *)
(*   "published"  a publish that has settled; the batch loop is to resume  *)
(* publish(e) is publishBatch(<<e>>): the batch loop of one event adds one *)
(* tick after the fan-out and nothing else.                                *)
(*                                                                         *)
(* Handlers, the dead-letter sink and the callers are the environment: a   *)
(* handler may do anything, calling the bus included, before it settles.   *)
(***************************************************************************)
EXTENDS Integers, Sequences, FiniteSets, SequencesExt

CONSTANTS
  Types,        \* event types
  Keys,         \* idempotency keys
  Events,       \* events that can be published: type, idempotencyKey
  Subs,         \* Subscription objects, one per call of subscribe: type, idempotent
  Calls,        \* calls of publish and publishBatch
  Batches,      \* the sequences of events a call may be given
  MaxAttempts,  \* DeliveryPolicy.maxAttempts
  Sink,         \* "none", "reliable", or "failing": capture may reject
  MaxInFlight   \* bound: calls the environment has in flight at once

ASSUME BusAssumption ==
  /\ \A e \in Events : e.type \in Types /\ e.idempotencyKey \in Keys
  /\ \A s \in Subs : s.type \in Types /\ s.idempotent \in BOOLEAN
  /\ Batches \subseteq Seq(Events)
  /\ MaxAttempts \in Int
  /\ Sink \in {"none", "reliable", "failing"}

VARIABLES
  subscriptions,  \* per type, the live subscriptions in insertion order
  lifecycle,      \* per Subscription object, what its owner did with it
  seen,           \* per Subscription object, idempotency keys marked seen
  pc,             \* per call, what it waits for
  frame,          \* per call, its local variables
  log             \* per call, how its deliveries ended, oldest first (history)

vars == <<subscriptions, lifecycle, seen, pc, frame, log>>

-----------------------------------------------------------------------------

Settled  == {"resolved", "rejected"}
InFlight == {"running", "capturing", "fanout", "published"}
PC       == {"idle"} \cup InFlight \cup Settled

\* "handled": the handler succeeded; "deduped": skipped on a seen key;
\* "captured": in the dead-letter sink; "dropped": exhausted with no sink;
\* "lost": exhausted and the sink rejected.
How == {"handled", "deduped", "captured", "dropped", "lost"}

Outcome == [event : Events, sub : Subs, how : How, attempts : Nat]

\* n and i are the loop positions of publishBatch and of publish, targets[n] is
\* the snapshot [...set] taken for events[n] (the earlier ones stay as history)
\* and attempts is the counter of deliver.
Frame == [events : Seq(Events), n : Nat, targets : Seq(Seq(Subs)), i : Nat, attempts : Nat]

TypeOK ==
  /\ subscriptions \in [Types -> Seq(Subs)]
  /\ lifecycle \in [Subs -> {"new", "subscribed", "unsubscribed"}]
  /\ seen \in [Subs -> SUBSET Keys]
  /\ pc \in [Calls -> PC]
  /\ frame \in [Calls -> Frame]
  /\ log \in [Calls -> Seq(Outcome)]

\* Fault: maxAttempts counts the retries, not the attempts.
maxAttempts_RetriesOnly == 1 + MaxAttempts

\* Math.max(1, policy.maxAttempts)
maxAttempts == IF MaxAttempts > 1 THEN MaxAttempts ELSE 1

EmptyFrame == [events |-> <<>>, n |-> 1, targets |-> <<>>, i |-> 1, attempts |-> 0]

Init ==
  /\ subscriptions = [t \in Types |-> <<>>]
  /\ lifecycle = [s \in Subs |-> "new"]
  /\ seen = [s \in Subs |-> {}]
  /\ pc = [c \in Calls |-> "idle"]
  /\ frame = [c \in Calls |-> EmptyFrame]
  /\ log = [c \in Calls |-> <<>>]

-----------------------------------------------------------------------------
(* subscribe and the unsubscribe function it returns                       *)

Subscribe(s) ==
  /\ lifecycle[s] = "new"
  /\ lifecycle' = [lifecycle EXCEPT ![s] = "subscribed"]
  /\ subscriptions' = [subscriptions EXCEPT ![s.type] = Append(@, s)]
  /\ UNCHANGED <<seen, pc, frame, log>>

\* Fault: the unsubscribe function removes the newest subscription of the type.
Unsubscribe_Newest(s) ==
  /\ lifecycle[s] = "subscribed"
  /\ lifecycle' = [lifecycle EXCEPT ![s] = "unsubscribed"]
  /\ subscriptions' = [subscriptions EXCEPT ![s.type] = Front(@)]
  /\ UNCHANGED <<seen, pc, frame, log>>

\* A second call of the same unsubscribe finds nothing to delete: a stutter.
Unsubscribe(s) ==
  /\ lifecycle[s] = "subscribed"
  /\ lifecycle' = [lifecycle EXCEPT ![s] = "unsubscribed"]
  /\ \E k \in DOMAIN subscriptions[s.type] :
       /\ subscriptions[s.type][k] = s
       /\ subscriptions' = [subscriptions EXCEPT ![s.type] = RemoveAt(@, k)]
  /\ UNCHANGED <<seen, pc, frame, log>>

-----------------------------------------------------------------------------
(* publish, publishBatch and deliver                                       *)

EventOf(f)  == f.events[f.n]
TargetOf(f) == f.targets[f.n][f.i]

OutcomeOf(f, how) ==
  [event |-> EventOf(f), sub |-> TargetOf(f), how |-> how, attempts |-> f.attempts]

\* The delivery at f ends: deliver returns to publish's loop.
EndDelivery(c, f, how) ==
  /\ pc' = [pc EXCEPT ![c] = "fanout"]
  /\ frame' = [frame EXCEPT ![c] = [f EXCEPT !.i = @ + 1, !.attempts = 0]]
  /\ log' = [log EXCEPT ![c] = Append(@, OutcomeOf(f, how))]

\* Fault: one seen set for all the subscriptions of the bus.
IsDuplicate_SharedSet(f) ==
  TargetOf(f).idempotent /\ \E s \in Subs : EventOf(f).idempotencyKey \in seen[s]

\* deliver skips the event: this subscription has seen its key.
IsDuplicate(f) ==
  TargetOf(f).idempotent /\ EventOf(f).idempotencyKey \in seen[TargetOf(f)]

\* Fault: a duplicate returns from publish, not from deliver.
DeliverNext_StopsAtDuplicate(c, f) ==
  \/ /\ f.i <= Len(f.targets[f.n]) => IsDuplicate(f)
     /\ pc' = [pc EXCEPT ![c] = "published"]
     /\ frame' = [frame EXCEPT ![c] = f]
     /\ UNCHANGED log
  \/ /\ f.i <= Len(f.targets[f.n])
     /\ ~IsDuplicate(f)
     /\ pc' = [pc EXCEPT ![c] = "running"]
     /\ frame' = [frame EXCEPT ![c] = [f EXCEPT !.attempts = 1]]
     /\ UNCHANGED log

\* One turn of publish's for loop, up to its await: return after the last
\* subscription, or call deliver, which skips a duplicate or starts the handler.
DeliverNext(c, f) ==
  \/ /\ f.i > Len(f.targets[f.n])
     /\ pc' = [pc EXCEPT ![c] = "published"]
     /\ frame' = [frame EXCEPT ![c] = f]
     /\ UNCHANGED log
  \/ /\ f.i <= Len(f.targets[f.n])
     /\ IsDuplicate(f)
     /\ EndDelivery(c, f, "deduped")
  \/ /\ f.i <= Len(f.targets[f.n])
     /\ ~IsDuplicate(f)
     /\ pc' = [pc EXCEPT ![c] = "running"]
     /\ frame' = [frame EXCEPT ![c] = [f EXCEPT !.attempts = 1]]
     /\ UNCHANGED log

\* publish snapshots the subscriptions of the event's type and starts fanning
\* out; a type nobody subscribed to has the empty snapshot.
PublishEvent(c, f) ==
  DeliverNext(c, [f EXCEPT !.targets = Append(@, subscriptions[EventOf(f).type]), !.i = 1])

\* One turn of publishBatch's for loop, up to its await.
BatchNext(c, f) ==
  \/ /\ f.n > Len(f.events)
     /\ pc' = [pc EXCEPT ![c] = "resolved"]
     /\ frame' = [frame EXCEPT ![c] = f]
     /\ UNCHANGED log
  \/ /\ f.n <= Len(f.events)
     /\ PublishEvent(c, f)

PublishBatch(c, events) ==
  /\ pc[c] = "idle"
  /\ BatchNext(c, [EmptyFrame EXCEPT !.events = events])
  /\ UNCHANGED <<subscriptions, lifecycle, seen>>

ResumeBatch(c) ==
  /\ pc[c] = "published"
  /\ BatchNext(c, [frame[c] EXCEPT !.n = @ + 1])
  /\ UNCHANGED <<subscriptions, lifecycle, seen>>

\* Fault: the loop runs over the live set, not over the snapshot.
ResumeFanOut_LiveSet(c) ==
  LET f == frame[c] IN
  /\ pc[c] = "fanout"
  /\ DeliverNext(c, [f EXCEPT !.targets[f.n] = subscriptions[EventOf(f).type]])
  /\ UNCHANGED <<subscriptions, lifecycle, seen>>

ResumeFanOut(c) ==
  /\ pc[c] = "fanout"
  /\ DeliverNext(c, frame[c])
  /\ UNCHANGED <<subscriptions, lifecycle, seen>>

\* Faults: the success is not recorded; the event's type is, not its key.
MarkSeen_Nothing(f) == seen' = seen
MarkSeen_Type(f) == seen' = [seen EXCEPT ![TargetOf(f)] = @ \cup {EventOf(f).type}]

MarkSeen(f) ==
  seen' = IF TargetOf(f).idempotent
          THEN [seen EXCEPT ![TargetOf(f)] = @ \cup {EventOf(f).idempotencyKey}]
          ELSE seen

\* The key is marked only now that the handler has succeeded.
HandlerSucceeds(c) ==
  /\ pc[c] = "running"
  /\ MarkSeen(frame[c])
  /\ EndDelivery(c, frame[c], "handled")
  /\ UNCHANGED <<subscriptions, lifecycle>>

Retry(f) == [f EXCEPT !.attempts = @ + 1]

\* The retry starts the handler again in the same turn, with no second look at
\* the seen set; an exhausted delivery goes to the sink, if there is one.
HandlerThrows(c) ==
  LET f == frame[c] IN
  /\ pc[c] = "running"
  /\ \/ /\ f.attempts < maxAttempts
        /\ frame' = [frame EXCEPT ![c] = Retry(f)]
        /\ UNCHANGED <<pc, log>>
     \/ /\ f.attempts >= maxAttempts
        /\ Sink # "none"
        /\ pc' = [pc EXCEPT ![c] = "capturing"]
        /\ UNCHANGED <<frame, log>>
     \/ /\ f.attempts >= maxAttempts
        /\ Sink = "none"
        /\ EndDelivery(c, f, "dropped")
  /\ UNCHANGED <<subscriptions, lifecycle, seen>>

\* Fault: a captured event is delivered again at once.
SinkCaptures_Replays(c) ==
  /\ pc[c] = "capturing"
  /\ pc' = [pc EXCEPT ![c] = "fanout"]
  /\ frame' = [frame EXCEPT ![c].attempts = 0]
  /\ UNCHANGED <<subscriptions, lifecycle, seen, log>>

SinkCaptures(c) ==
  /\ pc[c] = "capturing"
  /\ EndDelivery(c, frame[c], "captured")
  /\ UNCHANGED <<subscriptions, lifecycle, seen>>

\* Fault: a sink that rejects is ignored.
SinkRejects_Ignored(c) ==
  /\ pc[c] = "capturing"
  /\ Sink = "failing"
  /\ EndDelivery(c, frame[c], "lost")
  /\ UNCHANGED <<subscriptions, lifecycle, seen>>

\* Nothing catches a rejection of capture: it rejects deliver, publish and
\* publishBatch, and ends both loops.
SinkRejects(c) ==
  /\ pc[c] = "capturing"
  /\ Sink = "failing"
  /\ pc' = [pc EXCEPT ![c] = "rejected"]
  /\ log' = [log EXCEPT ![c] = Append(@, OutcomeOf(frame[c], "lost"))]
  /\ UNCHANGED <<subscriptions, lifecycle, seen, frame>>

-----------------------------------------------------------------------------

\* The environment starts a call only while fewer than MaxInFlight are running.
Room == Cardinality({c \in Calls : pc[c] \in InFlight}) < MaxInFlight

Bus(c) ==
  \/ ResumeBatch(c) \/ ResumeFanOut(c)
  \/ HandlerSucceeds(c) \/ HandlerThrows(c)
  \/ SinkCaptures(c) \/ SinkRejects(c)

Finished ==
  /\ \A c \in Calls : pc[c] \in Settled
  /\ \A s \in Subs : lifecycle[s] = "unsubscribed"
  /\ UNCHANGED vars

Next ==
  \/ \E s \in Subs : Subscribe(s) \/ Unsubscribe(s)
  \/ \E c \in Calls :
       \/ Room /\ \E events \in Batches : PublishBatch(c, events)
       \/ Bus(c)
  \/ Finished

Spec == Init /\ [][Next]_vars

\* Every promise the bus awaits settles and its continuation is run: handlers
\* and sinks that never settle are excluded, callers may stop calling.
FairSpec == Spec /\ \A c \in Calls : WF_vars(Bus(c))

-----------------------------------------------------------------------------
(* Properties                                                              *)

Entries(c) == {log[c][k] : k \in DOMAIN log[c]}

\* Some delivery of key to s ended with its handler succeeding.
Handled(s, key) ==
  \E c \in Calls : \E o \in Entries(c) :
    o.how = "handled" /\ o.sub = s /\ o.event.idempotencyKey = key

\* The deliveries call c has owed so far, in the order the bus promises:
\* events in batch order and, for each, the snapshot in subscription order.
Due(c) ==
  LET f == frame[c] IN
  FlattenSeq([n \in DOMAIN f.targets |->
                [i \in DOMAIN f.targets[n] |-> <<f.events[n], f.targets[n][i]>>]])

Done(c) == [k \in DOMAIN log[c] |-> <<log[c][k].event, log[c][k].sub>>]

\* Subscriptions call c has still to reach in the snapshot it is fanning out.
Pending(c) ==
  LET f == frame[c] IN
  IF pc[c] \in {"running", "capturing", "fanout"}
  THEN {f.targets[f.n][i] : i \in f.i .. Len(f.targets[f.n])}
  ELSE {}

\* Dedupe never loses an event: a delivery is skipped only for a key this very
\* subscription has handled.  A failed or dead-lettered event, or one another
\* subscription handled, is never taken for a duplicate (in-memory-bus.ts:100,
\* 112; "allows replay of a dead-lettered event").
DedupeLosesNothing ==
  \A c \in Calls : \A o \in Entries(c) :
    o.how = "deduped" => Handled(o.sub, o.event.idempotencyKey)

\* An event is dead-lettered after exactly Math.max(1, maxAttempts) attempts
\* that all failed, is retried no more often, and a duplicate costs none
\* (delivery.ts:14 "Total attempts, including the first ... Minimum 1").
AttemptsExact ==
  \A c \in Calls : \A o \in Entries(c) :
    CASE o.how = "handled" -> o.attempts \in 1 .. (IF MaxAttempts < 1 THEN 1 ELSE MaxAttempts)
      [] o.how = "deduped" -> o.attempts = 0
      [] OTHER -> o.attempts = IF MaxAttempts < 1 THEN 1 ELSE MaxAttempts

\* Whatever else runs in between, one call makes its deliveries in batch order
\* and subscription order, each once, to the subscriptions of the moment each
\* event was published (bus.ts:31 "in order"; in-memory-bus.ts:5, 75).
FanOutOrder == \A c \in Calls : IsPrefix(Done(c), Due(c))

\* A call that has resolved has published every event of its batch and brought
\* each to every subscription of its snapshot: no failing handler keeps a
\* later subscription or a later event from its delivery (docs/events/README.md
\* "keeps a poison message from blocking the stream").  A sink that rejects does
\* keep them: the call ends there, rejected.
FanOutComplete ==
  \A c \in Calls : pc[c] = "resolved" =>
    /\ Len(frame[c].targets) = Len(frame[c].events)
    /\ Done(c) = Due(c)

\* A handler handles a key at most once (bus.ts:17 "a handler runs at most once
\* per key").  True of callers that publish one after the other.
HandledAtMostOnce ==
  \A c, d \in Calls : \A j \in DOMAIN log[c], k \in DOMAIN log[d] :
    LET o == log[c][j]
        p == log[d][k]
    IN  /\ o.how = "handled" /\ p.how = "handled"
        /\ o.sub = p.sub /\ o.sub.idempotent
        /\ o.event.idempotencyKey = p.event.idempotencyKey
        => c = d /\ j = k

\* Once unsubscribe has returned no later publish picks the subscription up;
\* only a fan-out whose snapshot already holds it may still reach it.
UnsubscribeStopsDelivery ==
  [][\A c \in Calls, s \in Subs :
       lifecycle[s] = "unsubscribed" /\ s \notin Pending(c) => s \notin Pending(c)']_vars

\* If the handlers and the sink settle, every publish settles: retries and
\* fan-out are bounded, whatever is published or subscribed meanwhile.
EveryPublishSettles ==
  \A c \in Calls : pc[c] \in InFlight ~> pc[c] \in Settled

\* The abstract bus of BusDelivery, read off the bus's own state.
Entry(o) == [event |-> o.event, sub |-> o.sub, how |-> o.how]

Status(c) ==
  CASE pc[c] = "idle"     -> "idle"
    [] pc[c] \in InFlight -> "open"
    [] OTHER              -> pc[c]

Delivery == INSTANCE BusDelivery WITH
  ledger <- [c \in Calls |-> [k \in DOMAIN log[c] |-> Entry(log[c][k])]],
  status <- [c \in Calls |-> Status(c)]

\* The bus implements the abstract delivery: every turn of a call adds at most
\* one delivery that has ended, as BusDelivery allows, or changes nothing a
\* caller can tell (deliver and toDeadLetter, in-memory-bus.ts).
ImplementsDelivery == Delivery!Spec
=============================================================================

--------------------------- MODULE EventBusProofs ---------------------------
(* Theorems about EventBus, for every value of its constants, and that it   *)
(* implements BusDelivery.                                                  *)
EXTENDS EventBus, FiniteSetTheorems, SequenceTheorems, TLAPS

USE BusAssumption

(***************************************************************************)
(* The inductive strengthening of TypeOK: a call in flight stands at an    *)
(* event of its batch and, while it awaits a handler or the sink, at a     *)
(* subscription of that event's snapshot with its attempts counted.        *)
(***************************************************************************)
FrameOK(c) ==
  LET f == frame[c] IN
  /\ pc[c] \in InFlight =>
       /\ f.n \in 1 .. Len(f.events)
       /\ Len(f.targets) = f.n
       /\ f.i \in 1 .. Len(f.targets[f.n]) + 1
  /\ pc[c] \in {"running", "capturing"} =>
       /\ f.i \in 1 .. Len(f.targets[f.n])
       /\ f.attempts \in 1 .. maxAttempts
  /\ pc[c] = "capturing" => f.attempts = maxAttempts
  /\ pc[c] \in {"fanout", "published"} => f.attempts = 0

FramesOK == \A c \in Calls : FrameOK(c)

Inv1 == TypeOK /\ FramesOK

\* Math.max(1, n) is a positive integer.
LEMMA MaxAttemptsPositive == maxAttempts \in Nat \ {0}
  BY DEF maxAttempts

\* A frame that stands at a subscription of the snapshot names an event and a
\* subscription of the model.
LEMMA Standing ==
  ASSUME NEW f \in Frame, f.n \in 1 .. Len(f.events), Len(f.targets) = f.n,
         f.i \in 1 .. Len(f.targets[f.n])
  PROVE  EventOf(f) \in Events /\ TargetOf(f) \in Subs
  <1>1. f.events \in Seq(Events) /\ f.targets \in Seq(Seq(Subs))
    BY DEF Frame
  <1>2. f.events[f.n] \in Events
    BY <1>1, ElementOfSeq
  <1>3. f.targets[f.n] \in Seq(Subs)
    BY <1>1, ElementOfSeq
  <1>4. f.targets[f.n][f.i] \in Subs
    BY <1>3, ElementOfSeq
  <1>5. QED
    BY <1>2, <1>4 DEF EventOf, TargetOf

\* EndDelivery at such a frame keeps the call well-formed.
LEMMA EndDeliveryOK ==
  ASSUME Inv1, NEW c \in Calls, NEW f \in Frame, NEW how \in How,
         f.n \in 1 .. Len(f.events), Len(f.targets) = f.n,
         f.i \in 1 .. Len(f.targets[f.n]),
         EndDelivery(c, f, how)
  PROVE  /\ pc' \in [Calls -> PC] /\ frame' \in [Calls -> Frame]
         /\ log' \in [Calls -> Seq(Outcome)]
         /\ FramesOK'
  <1> DEFINE g == [f EXCEPT !.i = f.i + 1, !.attempts = 0]
  <1>1. EventOf(f) \in Events /\ TargetOf(f) \in Subs
    BY Standing
  <1>2. OutcomeOf(f, how) \in Outcome
    BY <1>1 DEF OutcomeOf, Outcome, Frame
  <1>3. g \in Frame /\ g.n = f.n /\ g.events = f.events /\ g.targets = f.targets
        /\ g.i = f.i + 1 /\ g.attempts = 0
    <2> DEFINE h(k) == [f EXCEPT !.i = k, !.attempts = 0]
    <2>1. ASSUME NEW k \in Nat
          PROVE  /\ h(k) \in Frame /\ h(k).n = f.n /\ h(k).events = f.events
                 /\ h(k).targets = f.targets /\ h(k).i = k /\ h(k).attempts = 0
      BY DEF Frame
    <2>2. f.i + 1 \in Nat
      BY DEF Frame
    <2> HIDE DEF h
    <2>3. g = h(f.i + 1)
      BY DEF h
    <2> HIDE DEF g
    <2>4. QED
      BY <2>1, <2>2, <2>3
  <1>4. /\ pc' = [pc EXCEPT ![c] = "fanout"]
        /\ frame' = [frame EXCEPT ![c] = g]
        /\ log' = [log EXCEPT ![c] = Append(@, OutcomeOf(f, how))]
    BY DEF EndDelivery
  <1>5. Append(log[c], OutcomeOf(f, how)) \in Seq(Outcome)
    BY <1>2 DEF Inv1, TypeOK
  <1>6. log' \in [Calls -> Seq(Outcome)]
    BY <1>4, <1>5 DEF Inv1, TypeOK
  <1>7. pc' \in [Calls -> PC] /\ frame' \in [Calls -> Frame]
    BY <1>3, <1>4 DEF Inv1, TypeOK, PC, InFlight
  <1>8. pc'[c] = "fanout" /\ frame'[c] = g
    BY <1>4 DEF Inv1, TypeOK
  <1>9. \A d \in Calls \ {c} : pc'[d] = pc[d] /\ frame'[d] = frame[d]
    BY <1>4 DEF Inv1, TypeOK
  <1>10. FrameOK(c)'
    BY <1>3, <1>8, SMTT(30) DEF FrameOK, Frame, InFlight
  <1>11. ASSUME NEW d \in Calls \ {c} PROVE FrameOK(d)'
    BY <1>9 DEF Inv1, FramesOK, FrameOK
  <1>12. FramesOK'
    BY <1>10, <1>11 DEF FramesOK
  <1>13. QED
    BY <1>6, <1>7, <1>12

\* A turn of publish's loop, from any frame standing at or past the snapshot.
LEMMA DeliverNextOK ==
  ASSUME Inv1, NEW c \in Calls, NEW f \in Frame,
         f.n \in 1 .. Len(f.events), Len(f.targets) = f.n,
         f.i \in 1 .. Len(f.targets[f.n]) + 1, f.attempts = 0,
         DeliverNext(c, f)
  PROVE  /\ pc' \in [Calls -> PC] /\ frame' \in [Calls -> Frame]
         /\ log' \in [Calls -> Seq(Outcome)]
         /\ FramesOK'
  <1>0. f.targets[f.n] \in Seq(Subs) /\ Len(f.targets[f.n]) \in Nat
    <2>1. f.targets \in Seq(Seq(Subs))
      BY DEF Frame
    <2>2. QED
      BY <2>1, ElementOfSeq
  <1>1. CASE f.i > Len(f.targets[f.n])
    <2>1. pc' = [pc EXCEPT ![c] = "published"] /\ frame' = [frame EXCEPT ![c] = f]
          /\ log' = log
      BY <1>0, <1>1 DEF DeliverNext, Frame
    <2>2. QED
      BY <1>0, <1>1, <2>1 DEF Inv1, TypeOK, FramesOK, FrameOK, PC, InFlight
  <1>2. CASE f.i <= Len(f.targets[f.n]) /\ IsDuplicate(f)
    <2>1. EndDelivery(c, f, "deduped")
      BY <1>0, <1>2 DEF DeliverNext, Frame
    <2>2. f.i \in 1 .. Len(f.targets[f.n]) /\ "deduped" \in How
      BY <1>0, <1>2 DEF How
    <2>3. QED
      BY <2>1, <2>2, EndDeliveryOK
  <1>3. CASE f.i <= Len(f.targets[f.n]) /\ ~IsDuplicate(f)
    <2> DEFINE g == [f EXCEPT !.attempts = 1]
    <2>1. pc' = [pc EXCEPT ![c] = "running"] /\ frame' = [frame EXCEPT ![c] = g]
          /\ log' = log
      BY <1>0, <1>3 DEF DeliverNext, Frame
    <2>2. g \in Frame /\ g.n = f.n /\ g.events = f.events /\ g.targets = f.targets
          /\ g.i = f.i /\ g.attempts = 1
      BY DEF Frame
    <2> HIDE DEF g
    <2>3. 1 \in 1 .. maxAttempts
      BY MaxAttemptsPositive
    <2>4. pc'[c] = "running" /\ frame'[c] = g
      BY <2>1 DEF Inv1, TypeOK
    <2>5. \A d \in Calls \ {c} : pc'[d] = pc[d] /\ frame'[d] = frame[d]
      BY <2>1 DEF Inv1, TypeOK
    <2>6. FrameOK(c)'
      BY <1>0, <1>3, <2>2, <2>3, <2>4 DEF FrameOK, Frame
    <2>7. ASSUME NEW d \in Calls \ {c} PROVE FrameOK(d)'
      BY <2>5 DEF Inv1, FramesOK, FrameOK
    <2>8. FramesOK'
      BY <2>6, <2>7 DEF FramesOK
    <2>9. QED
      BY <2>1, <2>2, <2>8 DEF Inv1, TypeOK, PC, InFlight
  <1>4. QED
    BY <1>0, <1>1, <1>2, <1>3 DEF Frame

\* A turn of publishBatch's loop: it returns, or snapshots and fans out.
LEMMA BatchNextOK ==
  ASSUME Inv1, NEW c \in Calls, NEW f \in Frame,
         f.n \in Nat \ {0}, Len(f.targets) = f.n - 1, f.attempts = 0,
         BatchNext(c, f)
  PROVE  /\ pc' \in [Calls -> PC] /\ frame' \in [Calls -> Frame]
         /\ log' \in [Calls -> Seq(Outcome)]
         /\ FramesOK'
  <1>0. Len(f.events) \in Nat /\ f.targets \in Seq(Seq(Subs))
    BY DEF Frame
  <1>1. CASE f.n > Len(f.events)
    <2>1. pc' = [pc EXCEPT ![c] = "resolved"] /\ frame' = [frame EXCEPT ![c] = f]
          /\ log' = log
      BY <1>0, <1>1 DEF BatchNext
    <2>2. QED
      BY <2>1 DEF Inv1, TypeOK, FramesOK, FrameOK, PC, InFlight, Settled
  <1>2. CASE f.n <= Len(f.events)
    <2> DEFINE snap == subscriptions[EventOf(f).type]
               g == [f EXCEPT !.targets = Append(@, snap), !.i = 1]
    <2>1. EventOf(f) \in Events
      <3>1. f.n \in 1 .. Len(f.events) /\ f.events \in Seq(Events)
        BY <1>0, <1>2 DEF Frame
      <3>2. QED
        BY <3>1, ElementOfSeq DEF EventOf
    <2>2. snap \in Seq(Subs) /\ Len(snap) \in Nat
      BY <2>1 DEF Inv1, TypeOK
    <2> HIDE DEF snap
    <2>3. /\ Append(f.targets, snap) \in Seq(Seq(Subs))
          /\ Len(Append(f.targets, snap)) = f.n
          /\ Append(f.targets, snap)[f.n] = snap
      BY <1>0, <2>2, AppendProperties
    <2>4. /\ g \in Frame /\ g.n = f.n /\ g.events = f.events /\ g.i = 1
          /\ g.attempts = 0 /\ g.targets = Append(f.targets, snap)
      BY <2>3 DEF Frame
    <2>5. DeliverNext(c, g)
      BY <1>0, <1>2 DEF BatchNext, PublishEvent, snap
    <2> HIDE DEF g
    <2>6. /\ g.n \in 1 .. Len(g.events) /\ Len(g.targets) = g.n
          /\ g.i \in 1 .. Len(g.targets[g.n]) + 1
      BY <1>0, <1>2, <2>2, <2>3, <2>4
    <2>7. QED
      BY <2>4, <2>5, <2>6, DeliverNextOK
  <1>3. QED
    BY <1>0, <1>1, <1>2

LEMMA InitInv1 == Init => Inv1
  <1> SUFFICES ASSUME Init PROVE Inv1
    OBVIOUS
  <1>1. EmptyFrame \in Frame
    BY DEF EmptyFrame, Frame
  <1>2. TypeOK
    BY <1>1 DEF Init, TypeOK, PC
  <1>3. FramesOK
    BY DEF Init, FramesOK, FrameOK, InFlight
  <1>4. QED
    BY <1>2, <1>3 DEF Inv1

LEMMA NextInv1 == Inv1 /\ [Next]_vars => Inv1'
  <1> SUFFICES ASSUME Inv1, [Next]_vars PROVE Inv1'
    OBVIOUS
  <1>1. ASSUME NEW s \in Subs, Subscribe(s) PROVE Inv1'
    <2>1. Append(subscriptions[s.type], s) \in Seq(Subs)
      BY DEF Inv1, TypeOK
    <2>2. TypeOK'
      BY <1>1, <2>1 DEF Subscribe, Inv1, TypeOK
    <2>3. FramesOK'
      BY <1>1 DEF Subscribe, Inv1, FramesOK, FrameOK
    <2>4. QED
      BY <2>2, <2>3 DEF Inv1
  <1>2. ASSUME NEW s \in Subs, Unsubscribe(s) PROVE Inv1'
    <2>1. PICK k \in DOMAIN subscriptions[s.type] :
            subscriptions' = [subscriptions EXCEPT ![s.type] = RemoveAt(@, k)]
      BY <1>2 DEF Unsubscribe
    <2> DEFINE q == subscriptions[s.type]
    <2>2. q \in Seq(Subs) /\ k \in 1 .. Len(q) /\ Len(q) \in Nat
      BY DEF Inv1, TypeOK
    <2> HIDE DEF q
    <2>3. SubSeq(q, 1, k - 1) \in Seq(Subs) /\ SubSeq(q, k + 1, Len(q)) \in Seq(Subs)
      <3>1. \A i \in 1 .. Len(q) : q[i] \in Subs
        BY <2>2, ElementOfSeq
      <3>2. QED
        BY <2>2, <3>1, SubSeqProperties
    <2>4. RemoveAt(q, k) \in Seq(Subs)
      BY <2>3, ConcatProperties DEF RemoveAt
    <2>5. TypeOK'
      BY <1>2, <2>1, <2>4 DEF Unsubscribe, Inv1, TypeOK, q
    <2>6. FramesOK'
      BY <1>2 DEF Unsubscribe, Inv1, FramesOK, FrameOK
    <2>7. QED
      BY <2>5, <2>6 DEF Inv1
  <1>3. ASSUME NEW c \in Calls, NEW events \in Batches, PublishBatch(c, events)
        PROVE  Inv1'
    <2> DEFINE f == [EmptyFrame EXCEPT !.events = events]
    <2>1. f \in Frame /\ f.n = 1 /\ Len(f.targets) = 0 /\ f.attempts = 0
      <3>1. f = [events |-> events, n |-> 1, targets |-> <<>>, i |-> 1, attempts |-> 0]
        BY DEF EmptyFrame
      <3>2. events \in Seq(Events) /\ <<>> \in Seq(Seq(Subs))
        OBVIOUS
      <3> HIDE DEF f
      <3>3. f \in Frame
        BY <3>1, <3>2 DEF Frame
      <3>4. f.n = 1 /\ f.targets = <<>> /\ f.attempts = 0
        BY <3>1
      <3>5. Len(<<>>) = 0
        OBVIOUS
      <3>6. QED
        BY <3>3, <3>4, <3>5
    <2>2. BatchNext(c, f) /\ UNCHANGED <<subscriptions, lifecycle, seen>>
      BY <1>3 DEF PublishBatch
    <2> HIDE DEF f
    <2>3. /\ pc' \in [Calls -> PC] /\ frame' \in [Calls -> Frame]
          /\ log' \in [Calls -> Seq(Outcome)]
          /\ FramesOK'
      BY <2>1, <2>2, BatchNextOK
    <2>4. QED
      BY <2>2, <2>3 DEF Inv1, TypeOK
  <1>4. ASSUME NEW c \in Calls, ResumeBatch(c) PROVE Inv1'
    <2> DEFINE g == frame[c]
               f == [g EXCEPT !.n = g.n + 1]
    <2>1. g \in Frame /\ g.n \in Nat \ {0} /\ Len(g.targets) = g.n /\ g.attempts = 0
      BY <1>4 DEF ResumeBatch, Inv1, TypeOK, FramesOK, FrameOK, InFlight, Frame
    <2>2. BatchNext(c, f) /\ UNCHANGED <<subscriptions, lifecycle, seen>>
      BY <1>4 DEF ResumeBatch
    <2> HIDE DEF g
    <2>3. f \in Frame /\ f.n \in Nat \ {0} /\ Len(f.targets) = f.n - 1 /\ f.attempts = 0
      <3>1. ASSUME NEW k \in Nat
            PROVE  LET h == [g EXCEPT !.n = k]
                   IN  h \in Frame /\ h.n = k /\ h.targets = g.targets /\ h.attempts = g.attempts
        BY <2>1 DEF Frame
      <3>2. g.n + 1 \in Nat \ {0} /\ g.n + 1 - 1 = g.n
        BY <2>1
      <3>3. QED
        BY <2>1, <3>1, <3>2
    <2> HIDE DEF f
    <2>4. /\ pc' \in [Calls -> PC] /\ frame' \in [Calls -> Frame]
          /\ log' \in [Calls -> Seq(Outcome)]
          /\ FramesOK'
      BY <2>2, <2>3, BatchNextOK
    <2>5. QED
      BY <2>2, <2>4 DEF Inv1, TypeOK
  <1>5. ASSUME NEW c \in Calls, ResumeFanOut(c) PROVE Inv1'
    <2>1. /\ frame[c] \in Frame /\ frame[c].n \in 1 .. Len(frame[c].events)
          /\ Len(frame[c].targets) = frame[c].n /\ frame[c].attempts = 0
          /\ frame[c].i \in 1 .. Len(frame[c].targets[frame[c].n]) + 1
      BY <1>5 DEF ResumeFanOut, Inv1, TypeOK, FramesOK, FrameOK, InFlight
    <2>2. DeliverNext(c, frame[c]) /\ UNCHANGED <<subscriptions, lifecycle, seen>>
      BY <1>5 DEF ResumeFanOut
    <2>3. /\ pc' \in [Calls -> PC] /\ frame' \in [Calls -> Frame]
          /\ log' \in [Calls -> Seq(Outcome)]
          /\ FramesOK'
      BY <2>1, <2>2, DeliverNextOK
    <2>4. QED
      BY <2>2, <2>3 DEF Inv1, TypeOK
  <1>6. ASSUME NEW c \in Calls, pc[c] \in {"running", "capturing"}
        PROVE  /\ frame[c] \in Frame /\ frame[c].n \in 1 .. Len(frame[c].events)
               /\ Len(frame[c].targets) = frame[c].n
               /\ frame[c].i \in 1 .. Len(frame[c].targets[frame[c].n])
               /\ frame[c].attempts \in 1 .. maxAttempts
    BY <1>6 DEF Inv1, TypeOK, FramesOK, FrameOK, InFlight
  <1>7. ASSUME NEW c \in Calls, HandlerSucceeds(c) PROVE Inv1'
    <2>1. pc[c] = "running" /\ MarkSeen(frame[c]) /\ EndDelivery(c, frame[c], "handled")
          /\ UNCHANGED <<subscriptions, lifecycle>>
      BY <1>7 DEF HandlerSucceeds
    <2>2. EventOf(frame[c]) \in Events /\ TargetOf(frame[c]) \in Subs
      BY <1>6, <2>1, Standing
    <2>3. seen' \in [Subs -> SUBSET Keys]
      BY <2>1, <2>2 DEF MarkSeen, Inv1, TypeOK
    <2>4. /\ pc' \in [Calls -> PC] /\ frame' \in [Calls -> Frame]
          /\ log' \in [Calls -> Seq(Outcome)]
          /\ FramesOK'
      BY <1>6, <2>1, EndDeliveryOK DEF How
    <2>5. QED
      BY <2>1, <2>3, <2>4 DEF Inv1, TypeOK
  <1>8. ASSUME NEW c \in Calls, HandlerThrows(c) PROVE Inv1'
    <2> DEFINE f == frame[c]
    <2>0. pc[c] = "running" /\ UNCHANGED <<subscriptions, lifecycle, seen>>
      BY <1>8 DEF HandlerThrows
    <2>1. CASE /\ f.attempts < maxAttempts
               /\ frame' = [frame EXCEPT ![c] = Retry(f)]
               /\ UNCHANGED <<pc, log>>
      <3>1. ASSUME NEW k \in Nat
            PROVE  LET h == [f EXCEPT !.attempts = k]
                   IN  /\ h \in Frame /\ h.n = f.n /\ h.events = f.events
                       /\ h.targets = f.targets /\ h.i = f.i /\ h.attempts = k
        BY <1>6, <2>0 DEF Frame
      <3>2. f.attempts + 1 \in Nat /\ f.attempts + 1 \in 1 .. maxAttempts
        BY <1>6, <2>0, <2>1, MaxAttemptsPositive
      <3> DEFINE g == Retry(f)
      <3>3. /\ g \in Frame /\ g.n = f.n /\ g.events = f.events /\ g.targets = f.targets
            /\ g.i = f.i /\ g.attempts \in 1 .. maxAttempts
        BY <3>1, <3>2 DEF Retry
      <3> HIDE DEF g
      <3>4. frame' = [frame EXCEPT ![c] = g]
        BY <2>1 DEF g
      <3>5. TypeOK'
        BY <2>0, <2>1, <3>3, <3>4 DEF Inv1, TypeOK
      <3>6. FrameOK(c)'
        BY <1>6, <2>0, <2>1, <3>3, <3>4 DEF FrameOK, Inv1, TypeOK, InFlight
      <3>7. ASSUME NEW d \in Calls \ {c} PROVE FrameOK(d)'
        BY <2>1, <3>4 DEF Inv1, TypeOK, FramesOK, FrameOK
      <3>8. QED
        BY <3>5, <3>6, <3>7 DEF Inv1, FramesOK
    <2>2. CASE /\ f.attempts >= maxAttempts
               /\ pc' = [pc EXCEPT ![c] = "capturing"]
               /\ UNCHANGED <<frame, log>>
      <3>1. f.attempts = maxAttempts
        BY <1>6, <2>0, <2>2, MaxAttemptsPositive
      <3>2. TypeOK'
        BY <2>0, <2>2 DEF Inv1, TypeOK, PC, InFlight
      <3>3. FramesOK'
        BY <1>6, <2>0, <2>2, <3>1 DEF Inv1, TypeOK, FramesOK, FrameOK, InFlight
      <3>4. QED
        BY <3>2, <3>3 DEF Inv1
    <2>3. CASE EndDelivery(c, f, "dropped")
      <3>1. /\ pc' \in [Calls -> PC] /\ frame' \in [Calls -> Frame]
            /\ log' \in [Calls -> Seq(Outcome)]
            /\ FramesOK'
        BY <1>6, <2>0, <2>3, EndDeliveryOK DEF How
      <3>2. QED
        BY <2>0, <3>1 DEF Inv1, TypeOK
    <2>4. QED
      BY <1>8, <2>1, <2>2, <2>3 DEF HandlerThrows
  <1>9. ASSUME NEW c \in Calls, SinkCaptures(c) PROVE Inv1'
    <2>1. /\ pc' \in [Calls -> PC] /\ frame' \in [Calls -> Frame]
          /\ log' \in [Calls -> Seq(Outcome)]
          /\ FramesOK'
      BY <1>6, <1>9, EndDeliveryOK DEF SinkCaptures, How
    <2>2. QED
      BY <1>9, <2>1 DEF SinkCaptures, Inv1, TypeOK
  <1>10. ASSUME NEW c \in Calls, SinkRejects(c) PROVE Inv1'
    <2>1. EventOf(frame[c]) \in Events /\ TargetOf(frame[c]) \in Subs
      BY <1>6, <1>10, Standing DEF SinkRejects
    <2>2. OutcomeOf(frame[c], "lost") \in Outcome
      BY <1>6, <1>10, <2>1 DEF SinkRejects, OutcomeOf, Outcome, Frame, How
    <2>3. Append(log[c], OutcomeOf(frame[c], "lost")) \in Seq(Outcome)
      BY <2>2 DEF Inv1, TypeOK
    <2>4. TypeOK'
      BY <1>10, <2>3 DEF SinkRejects, Inv1, TypeOK, PC, Settled
    <2>5. FramesOK'
      BY <1>10 DEF SinkRejects, Inv1, TypeOK, FramesOK, FrameOK, InFlight
    <2>6. QED
      BY <2>4, <2>5 DEF Inv1
  <1>11. CASE UNCHANGED vars
    BY <1>11 DEF vars, Inv1, TypeOK, FramesOK, FrameOK
  <1>12. QED
    BY <1>1, <1>2, <1>3, <1>4, <1>5, <1>7, <1>8, <1>9, <1>10, <1>11
       DEF Next, Bus, Finished

\* Every reachable state is well-typed, and every call in flight stands at a
\* delivery of its own batch and snapshot.
THEOREM TypeCorrect == Spec => []TypeOK
  <1>1. Spec => []Inv1
    BY InitInv1, NextInv1, PTL DEF Spec
  <1>2. Inv1 => TypeOK
    BY DEF Inv1
  <1>3. QED
    BY <1>1, <1>2, PTL

-----------------------------------------------------------------------------
(***************************************************************************)
(* What a step may do to the history: at most one delivery ends, and how   *)
(* it ends fixes its attempts and its effect on the seen sets.             *)
(***************************************************************************)
Ends(c, o) ==
  /\ log' = [log EXCEPT ![c] = Append(@, o)]
  /\ o.how = "handled" =>
       /\ o.attempts \in 1 .. maxAttempts
       /\ pc[c] = "running" /\ o.event = EventOf(frame[c]) /\ o.sub = TargetOf(frame[c])
       /\ seen' = IF o.sub.idempotent
                  THEN [seen EXCEPT ![o.sub] = @ \cup {o.event.idempotencyKey}]
                  ELSE seen
  /\ o.how # "handled" => seen' = seen
  /\ o.how = "deduped" =>
       o.attempts = 0 /\ o.event.idempotencyKey \in seen[o.sub]
  /\ o.how \in {"captured", "dropped", "lost"} => o.attempts = maxAttempts

Quiet == log' = log /\ seen' = seen

\* A turn of publish's loop either ends a delivery as a duplicate or none.
LEMMA DeliverNextEnds ==
  ASSUME Inv1, NEW c \in Calls, NEW f \in Frame,
         f.n \in 1 .. Len(f.events), Len(f.targets) = f.n,
         f.i \in Nat \ {0}, f.attempts = 0,
         DeliverNext(c, f), seen' = seen
  PROVE  Quiet \/ \E o \in Outcome : Ends(c, o)
  <1>1. CASE ~(f.i <= Len(f.targets[f.n]) /\ IsDuplicate(f))
    BY <1>1 DEF DeliverNext, Quiet, Frame
  <1>2. CASE f.i <= Len(f.targets[f.n]) /\ IsDuplicate(f)
    <2>0. f.i \in 1 .. Len(f.targets[f.n])
      <3>1. f.targets \in Seq(Seq(Subs))
        BY DEF Frame
      <3>2. f.targets[f.n] \in Seq(Subs)
        BY <3>1, ElementOfSeq
      <3>3. Len(f.targets[f.n]) \in Nat
        BY <3>2
      <3>4. QED
        BY <1>2, <3>3
    <2>1. EndDelivery(c, f, "deduped")
      BY <1>2, <2>0 DEF DeliverNext, Frame
    <2>2. EventOf(f) \in Events /\ TargetOf(f) \in Subs
      BY <2>0, Standing
    <2> DEFINE o == OutcomeOf(f, "deduped")
    <2>3. o \in Outcome
      BY <2>2 DEF OutcomeOf, Outcome, Frame, How
    <2>4. Ends(c, o)
      BY <1>2, <2>1 DEF EndDelivery, Ends, OutcomeOf, IsDuplicate
    <2>5. QED
      BY <2>3, <2>4
  <1>3. QED
    BY <1>1, <1>2

\* A turn of publishBatch's loop, likewise.
LEMMA BatchNextEnds ==
  ASSUME Inv1, NEW c \in Calls, NEW f \in Frame,
         f.n \in Nat \ {0}, Len(f.targets) = f.n - 1, f.attempts = 0,
         BatchNext(c, f), seen' = seen
  PROVE  Quiet \/ \E o \in Outcome : Ends(c, o)
  <1>0. Len(f.events) \in Nat /\ f.targets \in Seq(Seq(Subs))
    BY DEF Frame
  <1>1. CASE f.n > Len(f.events)
    BY <1>0, <1>1 DEF BatchNext, Quiet
  <1>2. CASE f.n <= Len(f.events)
    <2> DEFINE snap == subscriptions[EventOf(f).type]
               g == [f EXCEPT !.targets = Append(@, snap), !.i = 1]
    <2>1. EventOf(f) \in Events
      <3>1. f.n \in 1 .. Len(f.events) /\ f.events \in Seq(Events)
        BY <1>0, <1>2 DEF Frame
      <3>2. QED
        BY <3>1, ElementOfSeq DEF EventOf
    <2>2. snap \in Seq(Subs)
      BY <2>1 DEF Inv1, TypeOK
    <2> HIDE DEF snap
    <2>3. /\ Append(f.targets, snap) \in Seq(Seq(Subs))
          /\ Len(Append(f.targets, snap)) = f.n
      BY <1>0, <2>2, AppendProperties
    <2>4. /\ g \in Frame /\ g.n = f.n /\ g.events = f.events /\ g.i = 1
          /\ g.attempts = 0 /\ g.targets = Append(f.targets, snap)
      BY <2>3 DEF Frame
    <2>5. DeliverNext(c, g)
      BY <1>0, <1>2 DEF BatchNext, PublishEvent, snap
    <2> HIDE DEF g
    <2>6. g.n \in 1 .. Len(g.events) /\ Len(g.targets) = g.n /\ g.i \in Nat \ {0}
      BY <1>0, <1>2, <2>3, <2>4
    <2>7. QED
      BY <2>4, <2>5, <2>6, DeliverNextEnds
  <1>3. QED
    BY <1>0, <1>1, <1>2

LEMMA StepEnds ==
  ASSUME Inv1, [Next]_vars
  PROVE  Quiet \/ \E c \in Calls, o \in Outcome : Ends(c, o)
  <1>1. CASE (\E s \in Subs : Subscribe(s) \/ Unsubscribe(s)) \/ UNCHANGED vars
    BY <1>1 DEF Subscribe, Unsubscribe, vars, Quiet
  <1>2. ASSUME NEW c \in Calls, NEW events \in Batches, PublishBatch(c, events)
        PROVE  Quiet \/ \E o \in Outcome : Ends(c, o)
    <2> DEFINE f == [EmptyFrame EXCEPT !.events = events]
    <2>1. f = [events |-> events, n |-> 1, targets |-> <<>>, i |-> 1, attempts |-> 0]
      BY DEF EmptyFrame
    <2>2. events \in Seq(Events) /\ <<>> \in Seq(Seq(Subs)) /\ Len(<<>>) = 0
      OBVIOUS
    <2>3. BatchNext(c, f) /\ seen' = seen
      BY <1>2 DEF PublishBatch
    <2> HIDE DEF f
    <2>4. f \in Frame
      BY <2>1, <2>2 DEF Frame
    <2>5. f.n = 1 /\ f.targets = <<>> /\ f.attempts = 0
      BY <2>1
    <2>6. QED
      BY <2>2, <2>3, <2>4, <2>5, BatchNextEnds
  <1>3. ASSUME NEW c \in Calls, ResumeBatch(c)
        PROVE  Quiet \/ \E o \in Outcome : Ends(c, o)
    <2> DEFINE g == frame[c]
               f == [g EXCEPT !.n = g.n + 1]
    <2>1. g \in Frame /\ g.n \in Nat \ {0} /\ Len(g.targets) = g.n /\ g.attempts = 0
      BY <1>3 DEF ResumeBatch, Inv1, TypeOK, FramesOK, FrameOK, InFlight, Frame
    <2>2. BatchNext(c, f) /\ seen' = seen
      BY <1>3 DEF ResumeBatch
    <2> HIDE DEF g
    <2>3. f \in Frame /\ f.n \in Nat \ {0} /\ Len(f.targets) = f.n - 1 /\ f.attempts = 0
      <3>1. ASSUME NEW k \in Nat
            PROVE  LET h == [g EXCEPT !.n = k]
                   IN  h \in Frame /\ h.n = k /\ h.targets = g.targets /\ h.attempts = g.attempts
        BY <2>1 DEF Frame
      <3>2. g.n + 1 \in Nat \ {0} /\ g.n + 1 - 1 = g.n
        BY <2>1
      <3>3. QED
        BY <2>1, <3>1, <3>2
    <2> HIDE DEF f
    <2>4. QED
      BY <2>2, <2>3, BatchNextEnds
  <1>4. ASSUME NEW c \in Calls, ResumeFanOut(c)
        PROVE  Quiet \/ \E o \in Outcome : Ends(c, o)
    <2>1. /\ frame[c] \in Frame /\ frame[c].n \in 1 .. Len(frame[c].events)
          /\ Len(frame[c].targets) = frame[c].n /\ frame[c].attempts = 0
          /\ frame[c].i \in Nat \ {0}
      BY <1>4 DEF ResumeFanOut, Inv1, TypeOK, FramesOK, FrameOK, InFlight, Frame
    <2>2. QED
      BY <1>4, <2>1, DeliverNextEnds DEF ResumeFanOut
  <1>5. ASSUME NEW c \in Calls, pc[c] \in {"running", "capturing"}, NEW how \in How
        PROVE  OutcomeOf(frame[c], how) \in Outcome
    <2>1. /\ frame[c] \in Frame /\ frame[c].n \in 1 .. Len(frame[c].events)
          /\ Len(frame[c].targets) = frame[c].n
          /\ frame[c].i \in 1 .. Len(frame[c].targets[frame[c].n])
      BY <1>5 DEF Inv1, TypeOK, FramesOK, FrameOK, InFlight
    <2>2. QED
      BY <2>1, Standing DEF OutcomeOf, Outcome, Frame
  <1>6. ASSUME NEW c \in Calls, pc[c] \in {"running", "capturing"}
        PROVE  frame[c].attempts \in 1 .. maxAttempts
    BY <1>6 DEF Inv1, FramesOK, FrameOK
  <1>7. ASSUME NEW c \in Calls, HandlerSucceeds(c)
        PROVE  \E o \in Outcome : Ends(c, o)
    <2>1. OutcomeOf(frame[c], "handled") \in Outcome
      BY <1>5, <1>7 DEF HandlerSucceeds, How
    <2>2. Ends(c, OutcomeOf(frame[c], "handled"))
      BY <1>6, <1>7 DEF HandlerSucceeds, MarkSeen, EndDelivery, Ends, OutcomeOf
    <2>3. QED
      BY <2>1, <2>2
  <1>8. ASSUME NEW c \in Calls, HandlerThrows(c)
        PROVE  Quiet \/ \E o \in Outcome : Ends(c, o)
    <2>1. CASE UNCHANGED log
      BY <1>8, <2>1 DEF HandlerThrows, Quiet
    <2>2. CASE frame[c].attempts >= maxAttempts /\ EndDelivery(c, frame[c], "dropped")
      <3>1. OutcomeOf(frame[c], "dropped") \in Outcome
        BY <1>5, <1>8 DEF HandlerThrows, How
      <3>2. frame[c].attempts = maxAttempts
        BY <1>6, <1>8, <2>2, MaxAttemptsPositive DEF HandlerThrows
      <3>3. Ends(c, OutcomeOf(frame[c], "dropped"))
        BY <1>8, <2>2, <3>2 DEF HandlerThrows, EndDelivery, Ends, OutcomeOf
      <3>4. QED
        BY <3>1, <3>3
    <2>3. QED
      BY <1>8, <2>1, <2>2 DEF HandlerThrows
  <1>9. ASSUME NEW c \in Calls, SinkCaptures(c) \/ SinkRejects(c)
        PROVE  \E o \in Outcome : Ends(c, o)
    <2>1. frame[c].attempts = maxAttempts /\ pc[c] = "capturing" /\ seen' = seen
      BY <1>9 DEF SinkCaptures, SinkRejects, Inv1, FramesOK, FrameOK
    <2>2. CASE SinkCaptures(c)
      <3>1. Ends(c, OutcomeOf(frame[c], "captured"))
        BY <2>1, <2>2 DEF SinkCaptures, EndDelivery, Ends, OutcomeOf
      <3>2. QED
        BY <1>5, <2>1, <3>1 DEF How
    <2>3. CASE SinkRejects(c)
      <3>1. Ends(c, OutcomeOf(frame[c], "lost"))
        BY <2>1, <2>3 DEF SinkRejects, Ends, OutcomeOf
      <3>2. QED
        BY <1>5, <2>1, <3>1 DEF How
    <2>4. QED
      BY <1>9, <2>2, <2>3
  <1>10. QED
    BY <1>1, <1>2, <1>3, <1>4, <1>7, <1>8, <1>9 DEF Next, Bus, Finished

-----------------------------------------------------------------------------
(* Invariants of the history                                               *)

\* Ending a delivery adds one entry to one call's history.
LEMMA EntriesGrow ==
  ASSUME TypeOK, NEW c \in Calls, NEW o \in Outcome,
         log' = [log EXCEPT ![c] = Append(@, o)]
  PROVE  /\ Entries(c)' = Entries(c) \cup {o}
         /\ \A d \in Calls \ {c} : Entries(d)' = Entries(d)
  <1>1. log[c] \in Seq(Outcome) /\ log'[c] = Append(log[c], o) /\ Len(log[c]) \in Nat
    BY DEF TypeOK
  <1>2. /\ DOMAIN log'[c] = 1 .. Len(log[c]) + 1 /\ DOMAIN log[c] = 1 .. Len(log[c])
        /\ \A k \in 1 .. Len(log[c]) : log'[c][k] = log[c][k]
        /\ log'[c][Len(log[c]) + 1] = o
    BY <1>1, AppendProperties
  <1>3. Entries(c)' = Entries(c) \cup {o}
    BY <1>1, <1>2 DEF Entries
  <1>4. \A d \in Calls \ {c} : log'[d] = log[d]
    BY DEF TypeOK
  <1>5. QED
    <2>1. ASSUME NEW d \in Calls \ {c} PROVE Entries(d)' = Entries(d)
      BY <1>4 DEF Entries
    <2>2. QED
      BY <1>3, <2>1

LEMMA EntriesTyped ==
  ASSUME TypeOK, NEW c \in Calls
  PROVE  Entries(c) \subseteq Outcome
  <1>1. log[c] \in Seq(Outcome)
    BY DEF TypeOK
  <1>2. QED
    BY <1>1, ElementOfSeq DEF Entries

LEMMA NextAttempts == Inv1 /\ AttemptsExact /\ [Next]_vars => AttemptsExact'
  <1> SUFFICES ASSUME Inv1, AttemptsExact, [Next]_vars,
                      NEW d \in Calls, NEW p \in Entries(d)'
               PROVE  CASE p.how = "handled" -> p.attempts \in 1 .. maxAttempts
                        [] p.how = "deduped" -> p.attempts = 0
                        [] OTHER -> p.attempts = maxAttempts
    <2>1. maxAttempts = IF MaxAttempts < 1 THEN 1 ELSE MaxAttempts
      BY DEF maxAttempts
    <2>2. QED
      BY <2>1 DEF AttemptsExact
  <1> DEFINE Exact(q) == CASE q.how = "handled" -> q.attempts \in 1 .. maxAttempts
                           [] q.how = "deduped" -> q.attempts = 0
                           [] OTHER -> q.attempts = maxAttempts
  <1>1. ASSUME NEW q \in Entries(d) PROVE Exact(q)
    <2>1. maxAttempts = IF MaxAttempts < 1 THEN 1 ELSE MaxAttempts
      BY DEF maxAttempts
    <2>2. QED
      BY <2>1, <1>1 DEF AttemptsExact
  <1>2. CASE Quiet
    BY <1>1, <1>2 DEF Quiet, Entries
  <1>3. CASE \E c \in Calls, o \in Outcome : Ends(c, o)
    <2>1. PICK c \in Calls, o \in Outcome : Ends(c, o)
      BY <1>3
    <2>2. Exact(o)
      BY <2>1 DEF Ends, Outcome, How
    <2>3. p \in Entries(d) \/ p = o
      <3>1. /\ Entries(c)' = Entries(c) \cup {o}
            /\ \A e \in Calls \ {c} : Entries(e)' = Entries(e)
        BY <2>1, EntriesGrow DEF Ends, Inv1
      <3>2. p \in Entries(d)'
        OBVIOUS
      <3>3. QED
        BY <3>1, <3>2
    <2>4. QED
      BY <1>1, <2>2, <2>3
  <1>4. QED
    BY <1>2, <1>3, StepEnds

\* For every policy, a delivery is retried no more often than the policy says
\* and dead-lettered after exactly its attempts.
THEOREM AttemptsCorrect == Spec => []AttemptsExact
  <1>1. Init => AttemptsExact
    BY DEF Init, AttemptsExact, Entries
  <1>2. QED
    BY <1>1, InitInv1, NextInv1, NextAttempts, PTL DEF Spec

(***************************************************************************)
(* Dedupe loses nothing because a marked key was handled: that, with the   *)
(* property itself, is inductive.                                          *)
(***************************************************************************)
SeenWasHandled == \A s \in Subs : \A key \in seen[s] : Handled(s, key)

LEMMA HandledStays ==
  ASSUME Inv1, [Next]_vars, NEW s, NEW key, Handled(s, key)
  PROVE  Handled(s, key)'
  <1>1. CASE Quiet
    BY <1>1 DEF Quiet, Handled, Entries
  <1>2. CASE \E c \in Calls, o \in Outcome : Ends(c, o)
    <2>1. PICK c \in Calls, o \in Outcome : Ends(c, o)
      BY <1>2
    <2>2. \A d \in Calls : Entries(d) \subseteq Entries(d)'
      BY <2>1, EntriesGrow DEF Ends, Inv1
    <2>3. QED
      BY <2>2 DEF Handled
  <1>3. QED
    BY <1>1, <1>2, StepEnds

LEMMA NextSeen ==
  Inv1 /\ SeenWasHandled /\ DedupeLosesNothing /\ [Next]_vars
    => SeenWasHandled' /\ DedupeLosesNothing'
  <1> SUFFICES ASSUME Inv1, SeenWasHandled, DedupeLosesNothing, [Next]_vars
               PROVE  SeenWasHandled' /\ DedupeLosesNothing'
    OBVIOUS
  <1>1. CASE Quiet
    <2>1. SeenWasHandled'
      BY <1>1, HandledStays DEF SeenWasHandled, Quiet
    <2>2. DedupeLosesNothing'
      BY <1>1, HandledStays DEF DedupeLosesNothing, Quiet, Entries
    <2>3. QED
      BY <2>1, <2>2
  <1>2. CASE \E c \in Calls, o \in Outcome : Ends(c, o)
    <2>1. PICK c \in Calls, o \in Outcome : Ends(c, o)
      BY <1>2
    <2>2. /\ Entries(c)' = Entries(c) \cup {o}
          /\ \A d \in Calls \ {c} : Entries(d)' = Entries(d)
      BY <2>1, EntriesGrow DEF Ends, Inv1
    <2>3. o.sub \in Subs /\ o.how \in How
      BY DEF Outcome
    <2>4. SeenWasHandled'
      <3> SUFFICES ASSUME NEW s \in Subs, NEW key \in seen'[s] PROVE Handled(s, key)'
        BY DEF SeenWasHandled
      <3>1. CASE key \in seen[s]
        BY <3>1, HandledStays DEF SeenWasHandled
      <3>2. CASE key \notin seen[s]
        <4>1. o.how = "handled" /\ s = o.sub /\ key = o.event.idempotencyKey
          BY <2>1, <2>3, <3>2 DEF Ends, Inv1, TypeOK
        <4>2. QED
          BY <2>2, <4>1 DEF Handled
      <3>3. QED
        BY <3>1, <3>2
    <2>5. DedupeLosesNothing'
      <3> SUFFICES ASSUME NEW d \in Calls, NEW p \in Entries(d)', p.how = "deduped"
                   PROVE  Handled(p.sub, p.event.idempotencyKey)'
        BY DEF DedupeLosesNothing
      <3>1. CASE p \in Entries(d)
        BY <3>1, HandledStays DEF DedupeLosesNothing
      <3>2. CASE p = o
        <4>1. p.event.idempotencyKey \in seen[p.sub]
          BY <2>1, <3>2 DEF Ends
        <4>2. QED
          BY <2>3, <3>2, <4>1, HandledStays DEF SeenWasHandled
      <3>3. QED
        BY <2>2, <3>1, <3>2
    <2>6. QED
      BY <2>4, <2>5
  <1>3. QED
    BY <1>1, <1>2, StepEnds

\* No event is ever skipped as a duplicate of something its subscription did
\* not handle, however publishes, failures and subscriptions interleave.
THEOREM NothingLost == Spec => []DedupeLosesNothing
  <1>1. Init => SeenWasHandled /\ DedupeLosesNothing
    BY DEF Init, SeenWasHandled, DedupeLosesNothing, Entries
  <1>2. QED
    BY <1>1, InitInv1, NextInv1, NextSeen, PTL DEF Spec

-----------------------------------------------------------------------------
(***************************************************************************)
(* Callers that publish one after the other.  While the only call in       *)
(* flight awaits a handler, the key it delivers is still unseen: nothing   *)
(* else can have marked it since deliver looked.  With two calls in flight *)
(* that is what fails, and HandledAtMostOnce with it.                      *)
(***************************************************************************)
Alone == \A c, d \in Calls : pc[c] \in InFlight /\ pc[d] \in InFlight => c = d

FreshAt(f) ==
  TargetOf(f).idempotent => EventOf(f).idempotencyKey \notin seen[TargetOf(f)]

Fresh == \A c \in Calls : pc[c] = "running" => FreshAt(frame[c])

HandledSeen ==
  \A c \in Calls : \A o \in Entries(c) :
    o.how = "handled" /\ o.sub.idempotent => o.event.idempotencyKey \in seen[o.sub]

Inv2 == Inv1 /\ Alone /\ Fresh /\ HandledSeen

\* Call c takes a step and the others stand still.
Moves(c) ==
  /\ \A d \in Calls \ {c} : pc'[d] = pc[d] /\ frame'[d] = frame[d]
  /\ pc[c] \in InFlight \/ Room
  /\ pc'[c] = "running" => seen' = seen /\ FreshAt(frame'[c])

LEMMA DeliverNextMoves ==
  ASSUME Inv1, NEW c \in Calls, NEW f \in Frame, DeliverNext(c, f), seen' = seen
  PROVE  /\ \A d \in Calls \ {c} : pc'[d] = pc[d] /\ frame'[d] = frame[d]
         /\ pc'[c] = "running" => FreshAt(frame'[c])
  <1> DEFINE g == [f EXCEPT !.attempts = 1]
  <1>1. g.events = f.events /\ g.n = f.n /\ g.targets = f.targets /\ g.i = f.i
    BY DEF Frame
  <1> HIDE DEF g
  <1>2. CASE pc' = [pc EXCEPT ![c] = "published"] /\ frame' = [frame EXCEPT ![c] = f]
    BY <1>2 DEF Inv1, TypeOK
  <1>3. CASE EndDelivery(c, f, "deduped")
    BY <1>3 DEF EndDelivery, Inv1, TypeOK
  <1>4. CASE ~IsDuplicate(f) /\ pc' = [pc EXCEPT ![c] = "running"] /\ frame' = [frame EXCEPT ![c] = g]
    <2>1. frame'[c] = g
      BY <1>4 DEF Inv1, TypeOK
    <2>2. FreshAt(g)
      BY <1>1, <1>4 DEF IsDuplicate, FreshAt, EventOf, TargetOf
    <2>3. QED
      BY <1>4, <2>1, <2>2 DEF Inv1, TypeOK
  <1>5. QED
    BY <1>2, <1>3, <1>4 DEF DeliverNext, g

LEMMA BatchNextMoves ==
  ASSUME Inv1, NEW c \in Calls, NEW f \in Frame,
         f.n \in Nat \ {0}, BatchNext(c, f), seen' = seen
  PROVE  /\ \A d \in Calls \ {c} : pc'[d] = pc[d] /\ frame'[d] = frame[d]
         /\ pc'[c] = "running" => FreshAt(frame'[c])
  <1>0. Len(f.events) \in Nat /\ f.targets \in Seq(Seq(Subs)) /\ f.events \in Seq(Events)
    BY DEF Frame
  <1>1. CASE f.n > Len(f.events)
    <2>1. pc' = [pc EXCEPT ![c] = "resolved"] /\ frame' = [frame EXCEPT ![c] = f]
      BY <1>0, <1>1 DEF BatchNext
    <2>2. QED
      BY <2>1 DEF Inv1, TypeOK
  <1>2. CASE f.n <= Len(f.events)
    <2> DEFINE snap == subscriptions[EventOf(f).type]
               g == [f EXCEPT !.targets = Append(@, snap), !.i = 1]
    <2>1. f.events[f.n] \in Events
      BY <1>0, <1>2, ElementOfSeq
    <2>2. snap \in Seq(Subs)
      BY <2>1 DEF Inv1, TypeOK, EventOf
    <2> HIDE DEF snap
    <2>3. Append(f.targets, snap) \in Seq(Seq(Subs))
      BY <1>0, <2>2, AppendProperties
    <2>4. g \in Frame
      BY <2>3 DEF Frame
    <2>5. DeliverNext(c, g)
      BY <1>0, <1>2 DEF BatchNext, PublishEvent, snap
    <2> HIDE DEF g
    <2>6. QED
      BY <2>4, <2>5, DeliverNextMoves
  <1>3. QED
    BY <1>0, <1>1, <1>2

LEMMA StepMoves ==
  ASSUME Inv1, Fresh, [Next]_vars
  PROVE  (UNCHANGED <<pc, frame, seen>>) \/ \E c \in Calls : Moves(c)
  <1>1. CASE (\E s \in Subs : Subscribe(s) \/ Unsubscribe(s)) \/ UNCHANGED vars
    BY <1>1 DEF Subscribe, Unsubscribe, vars
  <1>2. ASSUME NEW c \in Calls, NEW events \in Batches, Room, PublishBatch(c, events)
        PROVE  Moves(c)
    <2> DEFINE f == [EmptyFrame EXCEPT !.events = events]
    <2>1. f = [events |-> events, n |-> 1, targets |-> <<>>, i |-> 1, attempts |-> 0]
      BY DEF EmptyFrame
    <2>2. events \in Seq(Events) /\ <<>> \in Seq(Seq(Subs))
      OBVIOUS
    <2>3. BatchNext(c, f) /\ seen' = seen
      BY <1>2 DEF PublishBatch
    <2> HIDE DEF f
    <2>4. f \in Frame
      BY <2>1, <2>2 DEF Frame
    <2>5. f.n = 1
      BY <2>1
    <2>6. QED
      BY <1>2, <2>3, <2>4, <2>5, BatchNextMoves DEF Moves
  <1>3. ASSUME NEW c \in Calls, ResumeBatch(c) PROVE Moves(c)
    <2> DEFINE g == frame[c]
               f == [g EXCEPT !.n = g.n + 1]
    <2>1. g \in Frame /\ g.n \in Nat \ {0}
      BY <1>3 DEF ResumeBatch, Inv1, TypeOK, FramesOK, FrameOK, InFlight, Frame
    <2>2. BatchNext(c, f) /\ seen' = seen /\ pc[c] \in InFlight
      BY <1>3 DEF ResumeBatch, InFlight
    <2> HIDE DEF g
    <2>3. f \in Frame /\ f.n \in Nat \ {0}
      <3>1. ASSUME NEW k \in Nat
            PROVE  LET h == [g EXCEPT !.n = k] IN h \in Frame /\ h.n = k
        BY <2>1 DEF Frame
      <3>2. g.n + 1 \in Nat \ {0}
        BY <2>1
      <3>3. QED
        BY <3>1, <3>2
    <2> HIDE DEF f
    <2>4. QED
      BY <2>2, <2>3, BatchNextMoves DEF Moves
  <1>4. ASSUME NEW c \in Calls, ResumeFanOut(c) PROVE Moves(c)
    <2>1. frame[c] \in Frame
      BY DEF Inv1, TypeOK
    <2>2. QED
      BY <1>4, <2>1, DeliverNextMoves DEF ResumeFanOut, Moves, InFlight
  <1>5. ASSUME NEW c \in Calls, NEW how, EndDelivery(c, frame[c], how), pc[c] \in InFlight
        PROVE  Moves(c)
    BY <1>5 DEF EndDelivery, Moves, Inv1, TypeOK
  <1>6. ASSUME NEW c \in Calls, HandlerSucceeds(c) \/ SinkCaptures(c) PROVE Moves(c)
    BY <1>5, <1>6 DEF HandlerSucceeds, SinkCaptures, InFlight
  <1>7. ASSUME NEW c \in Calls, SinkRejects(c) PROVE Moves(c)
    BY <1>7 DEF SinkRejects, Moves, Inv1, TypeOK, InFlight
  <1>8. ASSUME NEW c \in Calls, HandlerThrows(c) PROVE Moves(c)
    <2>1. CASE frame' = [frame EXCEPT ![c] = Retry(frame[c])] /\ UNCHANGED pc
      <3> DEFINE g == Retry(frame[c])
      <3>1. /\ g.events = frame[c].events /\ g.n = frame[c].n
            /\ g.targets = frame[c].targets /\ g.i = frame[c].i
        <4>1. frame[c] \in Frame
          BY DEF Inv1, TypeOK
        <4>2. QED
          BY <4>1 DEF Retry, Frame
      <3> HIDE DEF g
      <3>2. frame'[c] = g
        BY <2>1 DEF g, Inv1, TypeOK
      <3>3. FreshAt(g)
        BY <1>8, <3>1 DEF HandlerThrows, Fresh, FreshAt, EventOf, TargetOf
      <3>4. QED
        BY <1>8, <2>1, <3>2, <3>3 DEF HandlerThrows, Moves, Inv1, TypeOK, InFlight
    <2>2. CASE pc' = [pc EXCEPT ![c] = "capturing"] /\ UNCHANGED frame
      BY <1>8, <2>2 DEF HandlerThrows, Moves, Inv1, TypeOK, InFlight
    <2>3. CASE EndDelivery(c, frame[c], "dropped")
      BY <1>5, <1>8, <2>3 DEF HandlerThrows, InFlight
    <2>4. QED
      BY <1>8, <2>1, <2>2, <2>3 DEF HandlerThrows
  <1>9. QED
    BY <1>1, <1>2, <1>3, <1>4, <1>6, <1>7, <1>8 DEF Next, Bus, Finished

\* Room is what keeps sequential callers alone.
LEMMA RoomIsEmpty ==
  ASSUME IsFiniteSet(Calls), MaxInFlight = 1, Room, NEW d \in Calls
  PROVE  pc[d] \notin InFlight
  <1> DEFINE S == {c \in Calls : pc[c] \in InFlight}
  <1>1. IsFiniteSet(S)
    BY FS_Subset
  <1>2. Cardinality(S) \in Nat /\ (Cardinality(S) = 0 <=> S = {})
    BY <1>1, FS_CardinalityType, FS_EmptySet
  <1>3. Cardinality(S) < 1
    BY DEF Room
  <1>4. S = {}
    BY <1>2, <1>3
  <1>5. QED
    BY <1>4

LEMMA NextInv2 ==
  ASSUME IsFiniteSet(Calls), MaxInFlight = 1
  PROVE  Inv2 /\ [Next]_vars => Inv2'
  <1> SUFFICES ASSUME Inv2, [Next]_vars PROVE Inv2'
    OBVIOUS
  <1> USE DEF Inv2
  <1>1. Inv1'
    BY NextInv1
  <1>2. Alone'
    <2>1. CASE UNCHANGED <<pc, frame, seen>>
      BY <2>1 DEF Alone
    <2>2. ASSUME NEW c \in Calls, Moves(c) PROVE Alone'
      <3>1. ASSUME NEW d \in Calls \ {c} PROVE pc'[d] \notin InFlight
        BY <2>2, RoomIsEmpty DEF Moves, Alone
      <3>2. QED
        BY <3>1 DEF Alone
    <2>3. QED
      BY <2>1, <2>2, StepMoves
  <1>3. Fresh'
    <2>1. CASE UNCHANGED <<pc, frame, seen>>
      BY <2>1 DEF Fresh, FreshAt, EventOf, TargetOf
    <2>2. ASSUME NEW c \in Calls, Moves(c) PROVE Fresh'
      <3>1. ASSUME NEW d \in Calls \ {c} PROVE pc'[d] # "running"
        BY <2>2, RoomIsEmpty DEF Moves, Alone, InFlight
      <3>2. pc'[c] = "running" => FreshAt(frame[c])'
        BY <2>2 DEF Moves, FreshAt, EventOf, TargetOf
      <3>3. QED
        BY <3>1, <3>2 DEF Fresh
    <2>3. QED
      BY <2>1, <2>2, StepMoves
  <1>4. HandledSeen'
    <2>1. CASE Quiet
      BY <2>1 DEF Quiet, HandledSeen, Entries
    <2>2. ASSUME NEW c \in Calls, NEW o \in Outcome, Ends(c, o) PROVE HandledSeen'
      <3>1. /\ Entries(c)' = Entries(c) \cup {o}
            /\ \A d \in Calls \ {c} : Entries(d)' = Entries(d)
        BY <2>2, EntriesGrow DEF Ends, Inv1
      <3>2. \A s \in Subs : seen[s] \subseteq seen'[s]
        BY <2>2 DEF Ends, Inv1, TypeOK
      <3>3. o.how = "handled" /\ o.sub.idempotent => o.event.idempotencyKey \in seen'[o.sub]
        BY <2>2 DEF Ends, Inv1, TypeOK, Outcome
      <3>4. \A d \in Calls : Entries(d) \subseteq Outcome
        BY EntriesTyped DEF Inv1
      <3>5. QED
        BY <3>1, <3>2, <3>3, <3>4 DEF HandledSeen, Outcome
    <2>3. QED
      BY <2>1, <2>2, StepEnds
  <1>5. QED
    BY <1>1, <1>2, <1>3, <1>4

LEMMA NextAtMostOnce ==
  Inv2 /\ HandledAtMostOnce /\ [Next]_vars => HandledAtMostOnce'
  <1> SUFFICES ASSUME Inv2, HandledAtMostOnce, [Next]_vars PROVE HandledAtMostOnce'
    OBVIOUS
  <1> USE DEF Inv2
  <1> DEFINE Same(o, p) ==
        /\ o.how = "handled" /\ p.how = "handled"
        /\ o.sub = p.sub /\ o.sub.idempotent
        /\ o.event.idempotencyKey = p.event.idempotencyKey
  <1>1. CASE Quiet
    BY <1>1 DEF Quiet, HandledAtMostOnce
  <1>2. ASSUME NEW x \in Calls, NEW new \in Outcome, Ends(x, new)
        PROVE  HandledAtMostOnce'
    <2>1. /\ log[x] \in Seq(Outcome) /\ Len(log[x]) \in Nat
          /\ log'[x] = Append(log[x], new)
          /\ \A c \in Calls \ {x} : log'[c] = log[c]
      BY <1>2 DEF Ends, Inv1, TypeOK
    <2> DEFINE last == Len(log[x]) + 1
    <2>2. /\ DOMAIN log'[x] = 1 .. last /\ DOMAIN log[x] = 1 .. last - 1
          /\ \A k \in DOMAIN log[x] : log'[x][k] = log[x][k]
          /\ log'[x][last] = new
      BY <2>1, AppendProperties
    <2> HIDE DEF last
    <2>3. ASSUME NEW c \in Calls, NEW k \in DOMAIN log'[c]
          PROVE  \/ c = x /\ k = last /\ log'[c][k] = new
                 \/ k \in DOMAIN log[c] /\ log'[c][k] = log[c][k]
      <3>1. CASE c # x
        BY <2>1, <3>1
      <3>2. CASE c = x
        <4>1. k = last \/ k \in 1 .. last - 1
          BY <2>1, <2>2, <3>2 DEF last
        <4>2. QED
          BY <2>2, <3>2, <4>1
      <3>3. QED
        BY <3>1, <3>2
    <2>4. ASSUME NEW c \in Calls, NEW k \in DOMAIN log[c] PROVE ~Same(new, log[c][k])
      <3>1. log[c][k] \in Entries(c)
        BY DEF Entries
      <3>2. new.how = "handled" /\ new.sub.idempotent
              => new.event.idempotencyKey \notin seen[new.sub]
        BY <1>2 DEF Ends, Fresh, FreshAt
      <3>3. QED
        BY <3>1, <3>2 DEF HandledSeen
    <2>5. ASSUME NEW c \in Calls, NEW d \in Calls,
                 NEW j \in DOMAIN log'[c], NEW k \in DOMAIN log'[d],
                 Same(log'[c][j], log'[d][k])
          PROVE  c = d /\ j = k
      <3>1. CASE c = x /\ j = last /\ log'[c][j] = new
        BY <2>3, <2>4, <2>5, <3>1
      <3>2. CASE d = x /\ k = last /\ log'[d][k] = new
        BY <2>3, <2>4, <2>5, <3>2
      <3>3. CASE /\ j \in DOMAIN log[c] /\ log'[c][j] = log[c][j]
                 /\ k \in DOMAIN log[d] /\ log'[d][k] = log[d][k]
        BY <2>5, <3>3 DEF HandledAtMostOnce
      <3>4. QED
        BY <2>3, <3>1, <3>2, <3>3
    <2>6. QED
      BY <2>5 DEF HandledAtMostOnce
  <1>3. QED
    BY <1>1, <1>2, StepEnds

\* With callers that await each publish before the next, a subscription that
\* dedupes handles every key at most once, however many attempts fail and
\* whatever is subscribed and unsubscribed meanwhile.
THEOREM SequentialAtMostOnce ==
  ASSUME IsFiniteSet(Calls), MaxInFlight = 1
  PROVE  Spec => []HandledAtMostOnce
  <1>1. Init => Inv2 /\ HandledAtMostOnce
    <2>1. Init => Alone /\ Fresh
      BY DEF Init, Alone, Fresh, InFlight
    <2>2. Init => HandledSeen /\ HandledAtMostOnce
      BY DEF Init, HandledSeen, HandledAtMostOnce, Entries
    <2>3. QED
      BY <2>1, <2>2, InitInv1 DEF Inv2
  <1>2. QED
    BY <1>1, NextInv2, NextAtMostOnce, PTL DEF Spec

-----------------------------------------------------------------------------
(***************************************************************************)
(* Unsubscribing.  What the bus lists is subscribed, once, under its type, *)
(* and a call comes to await only what it awaited already or what the bus  *)
(* lists at that moment.                                                   *)
(***************************************************************************)
Listed == UNION {{subscriptions[t][k] : k \in DOMAIN subscriptions[t]} : t \in Types}

LiveList(q, t) ==
  /\ \A k \in DOMAIN q : lifecycle[q[k]] = "subscribed" /\ q[k].type = t
  /\ \A j, k \in DOMAIN q : q[j] = q[k] => j = k

Live == \A t \in Types : LiveList(subscriptions[t], t)

\* What is left when an element is taken out.
LEMMA RemoveAtIs ==
  ASSUME NEW S, NEW q \in Seq(S), NEW k \in 1 .. Len(q)
  PROVE  /\ RemoveAt(q, k) \in Seq(S) /\ Len(RemoveAt(q, k)) = Len(q) - 1
         /\ \A i \in 1 .. Len(q) - 1 : /\ i < k => RemoveAt(q, k)[i] = q[i]
                                       /\ i >= k => RemoveAt(q, k)[i] = q[i + 1]
  <1> DEFINE a == SubSeq(q, 1, k - 1)
             b == SubSeq(q, k + 1, Len(q))
  <1>1. Len(q) \in Nat /\ \A j \in 1 .. Len(q) : q[j] \in S
    BY ElementOfSeq
  <1>2. /\ a \in Seq(S) /\ Len(a) = k - 1 /\ \A j \in 1 .. k - 1 : a[j] = q[j]
        /\ b \in Seq(S) /\ Len(b) = Len(q) - k
        /\ \A j \in 1 .. Len(q) - k : b[j] = q[k + j]
    BY <1>1, SubSeqProperties
  <1> HIDE DEF a, b
  <1>3. /\ a \o b \in Seq(S) /\ Len(a \o b) = Len(a) + Len(b)
        /\ \A j \in 1 .. Len(a) + Len(b) : (a \o b)[j] = IF j <= Len(a) THEN a[j] ELSE b[j - Len(a)]
    BY <1>2, ConcatProperties
  <1>4. RemoveAt(q, k) = a \o b
    BY DEF RemoveAt, a, b
  <1>5. ASSUME NEW i \in 1 .. Len(q) - 1, i < k PROVE (a \o b)[i] = q[i]
    <2>1. i <= Len(a) /\ i \in 1 .. k - 1 /\ i \in 1 .. Len(a) + Len(b)
      BY <1>1, <1>2, <1>5
    <2>2. QED
      BY <1>2, <1>3, <2>1
  <1>6. ASSUME NEW i \in 1 .. Len(q) - 1, i >= k PROVE (a \o b)[i] = q[i + 1]
    <2>1. /\ ~(i <= Len(a)) /\ i \in 1 .. Len(a) + Len(b)
          /\ i - Len(a) \in 1 .. Len(q) - k /\ k + (i - Len(a)) = i + 1
      BY <1>1, <1>2, <1>6
    <2>2. (a \o b)[i] = b[i - Len(a)]
      BY <1>3, <2>1
    <2>3. QED
      BY <1>2, <2>1, <2>2
  <1>7. Len(a) + Len(b) = Len(q) - 1
    BY <1>1, <1>2
  <1>8. QED
    BY <1>3, <1>4, <1>5, <1>6, <1>7

LEMMA NextLive == Inv1 /\ Live /\ [Next]_vars => Live'
  <1> SUFFICES ASSUME Inv1, Live, [Next]_vars, NEW t \in Types
               PROVE  LiveList(subscriptions[t], t)'
    BY DEF Live
  <1> DEFINE q == subscriptions[t]
  <1>1. /\ q \in Seq(Subs) /\ Len(q) \in Nat /\ DOMAIN q = 1 .. Len(q)
        /\ \A k \in 1 .. Len(q) : q[k] \in Subs /\ q[k].type = t /\ lifecycle[q[k]] = "subscribed"
        /\ \A j, k \in 1 .. Len(q) : q[j] = q[k] => j = k
    <2>1. q \in Seq(Subs) /\ LiveList(q, t)
      BY DEF Inv1, TypeOK, Live
    <2> HIDE DEF q
    <2>2. Len(q) \in Nat /\ DOMAIN q = 1 .. Len(q) /\ \A k \in 1 .. Len(q) : q[k] \in Subs
      BY <2>1, LenProperties, ElementOfSeq
    <2>3. QED
      BY <2>1, <2>2 DEF LiveList
  <1>2. ASSUME NEW r \in Seq(Subs), subscriptions'[t] = r, Len(r) \in Nat,
               \A k \in 1 .. Len(r) : lifecycle'[r[k]] = "subscribed" /\ r[k].type = t,
               \A j, k \in 1 .. Len(r) : r[j] = r[k] => j = k
        PROVE  LiveList(subscriptions[t], t)'
    <2>1. DOMAIN r = 1 .. Len(r)
      BY LenProperties
    <2>2. QED
      BY <1>2, <2>1 DEF LiveList
  <1>3. CASE UNCHANGED <<subscriptions, lifecycle>>
    <2> HIDE DEF q
    <2>1. subscriptions'[t] = q
      BY <1>3 DEF q
    <2>2. QED
      BY <1>1, <1>2, <1>3, <2>1
  <1>4. ASSUME NEW s \in Subs, Subscribe(s) PROVE LiveList(subscriptions[t], t)'
    <2>1. /\ lifecycle[s] = "new" /\ lifecycle'[s] = "subscribed"
          /\ \A x \in Subs \ {s} : lifecycle'[x] = lifecycle[x]
      BY <1>4 DEF Subscribe, Inv1, TypeOK
    <2>2. \A k \in 1 .. Len(q) : q[k] # s /\ lifecycle'[q[k]] = "subscribed"
      BY <1>1, <2>1
    <2>3. CASE t = s.type
      <3>1. subscriptions'[t] = Append(q, s)
        BY <1>4, <2>3 DEF Subscribe, Inv1, TypeOK
      <3> HIDE DEF q
      <3>2. /\ Append(q, s) \in Seq(Subs) /\ Len(Append(q, s)) = Len(q) + 1
            /\ \A k \in 1 .. Len(q) : Append(q, s)[k] = q[k]
            /\ Append(q, s)[Len(q) + 1] = s
        BY <1>1, AppendProperties
      <3>3. \A k \in 1 .. Len(q) + 1 : k \in 1 .. Len(q) \/ k = Len(q) + 1
        BY <1>1
      <3>4. \A k \in 1 .. Len(q) + 1 :
              lifecycle'[Append(q, s)[k]] = "subscribed" /\ Append(q, s)[k].type = t
        BY <1>1, <2>1, <2>2, <2>3, <3>2, <3>3
      <3>5. \A j, k \in 1 .. Len(q) + 1 : Append(q, s)[j] = Append(q, s)[k] => j = k
        BY <1>1, <2>2, <3>2, <3>3
      <3>6. Len(Append(q, s)) \in Nat
        BY <1>1, <3>2
      <3> DEFINE r == Append(q, s)
      <3>7. /\ r \in Seq(Subs) /\ subscriptions'[t] = r /\ Len(r) \in Nat
            /\ \A k \in 1 .. Len(r) : lifecycle'[r[k]] = "subscribed" /\ r[k].type = t
            /\ \A j, k \in 1 .. Len(r) : r[j] = r[k] => j = k
        BY <3>1, <3>2, <3>4, <3>5, <3>6
      <3> HIDE DEF r
      <3>8. QED
        BY <1>2, <3>7
    <2>4. CASE t # s.type
      <3>1. subscriptions'[t] = q
        BY <1>4, <2>4 DEF Subscribe, Inv1, TypeOK
      <3> HIDE DEF q
      <3>2. QED
        BY <1>1, <1>2, <2>2, <3>1
    <2>5. QED
      BY <2>3, <2>4
  <1>5. ASSUME NEW s \in Subs, Unsubscribe(s) PROVE LiveList(subscriptions[t], t)'
    <2>1. \A x \in Subs \ {s} : lifecycle'[x] = lifecycle[x]
      BY <1>5 DEF Unsubscribe, Inv1, TypeOK
    <2>2. CASE t = s.type
      <3>1. PICK k \in DOMAIN q : q[k] = s /\ subscriptions'[t] = RemoveAt(q, k)
        BY <1>5, <2>2 DEF Unsubscribe, Inv1, TypeOK
      <3> HIDE DEF q
      <3> DEFINE r == RemoveAt(q, k)
                 place(i) == IF i < k THEN i ELSE i + 1
      <3>2. /\ r \in Seq(Subs) /\ Len(r) = Len(q) - 1 /\ k \in 1 .. Len(q)
            /\ \A i \in 1 .. Len(q) - 1 : /\ i < k => r[i] = q[i]
                                          /\ i >= k => r[i] = q[i + 1]
        <4>1. k \in 1 .. Len(q) /\ q \in Seq(Subs)
          BY <1>1, <3>1
        <4>2. QED
          BY <4>1, RemoveAtIs
      <3> HIDE DEF r
      <3>3. ASSUME NEW i \in 1 .. Len(q) - 1
            PROVE  place(i) \in (1 .. Len(q)) \ {k} /\ r[i] = q[place(i)]
        <4>1. Len(q) \in Nat
          BY <1>1
        <4>2. CASE i < k
          BY <3>2, <4>1, <4>2
        <4>3. CASE i >= k
          BY <3>2, <4>1, <4>3
        <4>4. QED
          BY <3>2, <4>1, <4>2, <4>3
      <3>4. \A i, j \in 1 .. Len(q) - 1 : place(i) = place(j) => i = j
        BY <1>1, <3>2
      <3> HIDE DEF place
      <3>5. \A i \in 1 .. Len(q) - 1 : r[i] \in Subs \ {s} /\ r[i].type = t /\ lifecycle[r[i]] = "subscribed"
        BY <1>1, <3>1, <3>2, <3>3
      <3>6. \A i, j \in 1 .. Len(q) - 1 : r[i] = r[j] => i = j
        BY <1>1, <3>3, <3>4
      <3>7. subscriptions'[t] = r /\ Len(r) \in Nat
        BY <1>1, <3>1, <3>2 DEF r
      <3>8. \A i \in 1 .. Len(r) : lifecycle'[r[i]] = "subscribed" /\ r[i].type = t
        BY <2>1, <3>2, <3>5
      <3>9. \A i, j \in 1 .. Len(r) : r[i] = r[j] => i = j
        BY <3>2, <3>6
      <3>10. QED
        BY <1>2, <3>2, <3>7, <3>8, <3>9
    <2>3. CASE t # s.type
      <3>1. subscriptions'[t] = q
        BY <1>5, <2>3 DEF Unsubscribe, Inv1, TypeOK
      <3> HIDE DEF q
      <3>2. \A k \in 1 .. Len(q) : q[k] \in Subs \ {s}
        BY <1>1, <2>3
      <3>3. QED
        BY <1>1, <1>2, <2>1, <3>1, <3>2
    <2>4. QED
      BY <2>2, <2>3
  <1>6. QED
    BY <1>3, <1>4, <1>5 DEF Next, vars, Bus, Finished, PublishBatch, ResumeBatch, ResumeFanOut,
       HandlerSucceeds, HandlerThrows, SinkCaptures, SinkRejects


\* The subscriptions of the snapshot a frame stands in that it has not passed.
Ahead(f) == {f.targets[f.n][i] : i \in f.i .. Len(f.targets[f.n])}

LEMMA AheadShrinks ==
  ASSUME NEW f, NEW g, f.n \in DOMAIN f.targets, f.i \in Nat, Len(f.targets[f.n]) \in Nat,
         g.targets = f.targets, g.n = f.n, g.i \in {f.i, f.i + 1}
  PROVE  Ahead(g) \subseteq Ahead(f)
  BY DEF Ahead

\* A turn of the fan-out awaits nothing new.
LEMMA DeliverNextPending ==
  ASSUME Inv1, NEW c \in Calls, NEW f \in Frame, f.n \in DOMAIN f.targets, DeliverNext(c, f)
  PROVE  Pending(c)' \subseteq Ahead(f)
  <1> DEFINE g(k, a) == [f EXCEPT !.i = k, !.attempts = a]
             h == [f EXCEPT !.attempts = 1]
  <1>0. /\ f.i \in Nat /\ f.targets \in Seq(Seq(Subs)) /\ Len(f.targets[f.n]) \in Nat
    <2>1. f.targets \in Seq(Seq(Subs)) /\ f.i \in Nat
      BY DEF Frame
    <2>2. f.targets[f.n] \in Seq(Subs)
      BY <2>1, ElementOfSeq, LenProperties
    <2>3. QED
      BY <2>1, <2>2
  <1>1. \A k, a : g(k, a).targets = f.targets /\ g(k, a).n = f.n /\ g(k, a).i = k
    BY DEF Frame
  <1>2. h.targets = f.targets /\ h.n = f.n /\ h.i = f.i
    BY DEF Frame
  <1> HIDE DEF g, h
  <1>3. CASE pc' = [pc EXCEPT ![c] = "published"]
    <2>1. pc'[c] = "published"
      BY <1>3 DEF Inv1, TypeOK
    <2>2. QED
      BY <2>1 DEF Pending
  <1>4. CASE frame' = [frame EXCEPT ![c] = g(f.i + 1, 0)]
    <2>1. frame'[c] = g(f.i + 1, 0)
      BY <1>4 DEF Inv1, TypeOK
    <2>2. Ahead(g(f.i + 1, 0)) \subseteq Ahead(f)
      BY <1>0, <1>1, AheadShrinks
    <2>3. QED
      BY <2>1, <2>2 DEF Pending, Ahead
  <1>5. CASE frame' = [frame EXCEPT ![c] = h]
    <2>1. frame'[c] = h
      BY <1>5 DEF Inv1, TypeOK
    <2>2. Ahead(h) \subseteq Ahead(f)
      BY <1>0, <1>2, AheadShrinks
    <2>3. QED
      BY <2>1, <2>2 DEF Pending, Ahead
  <1>6. QED
    BY <1>3, <1>4, <1>5 DEF DeliverNext, EndDelivery, g, h

\* A turn of publishBatch awaits what the bus lists at that moment.
LEMMA BatchNextPending ==
  ASSUME Inv1, NEW c \in Calls, NEW f \in Frame, f.n \in Nat \ {0},
         Len(f.targets) = f.n - 1, BatchNext(c, f)
  PROVE  Pending(c)' \subseteq Listed
  <1>1. CASE pc' = [pc EXCEPT ![c] = "resolved"]
    <2>1. pc'[c] = "resolved"
      BY <1>1 DEF Inv1, TypeOK
    <2>2. QED
      BY <2>1 DEF Pending
  <1>2. CASE f.n <= Len(f.events) /\ PublishEvent(c, f)
    <2> DEFINE snap == subscriptions[EventOf(f).type]
               g == [f EXCEPT !.targets = Append(@, snap), !.i = 1]
    <2>1. f.events \in Seq(Events) /\ f.n \in 1 .. Len(f.events) /\ f.targets \in Seq(Seq(Subs))
      BY <1>2 DEF Frame
    <2>2. EventOf(f).type \in Types
      BY <2>1, ElementOfSeq DEF EventOf
    <2>3. snap \in Seq(Subs) /\ Len(snap) \in Nat /\ DOMAIN snap = 1 .. Len(snap)
      BY <2>2, LenProperties DEF Inv1, TypeOK
    <2>4. \A k \in 1 .. Len(snap) : snap[k] \in Listed
      BY <2>2, <2>3 DEF Listed
    <2>5. DeliverNext(c, g)
      BY <1>2 DEF PublishEvent
    <2> HIDE DEF snap
    <2>6. /\ Append(f.targets, snap) \in Seq(Seq(Subs)) /\ Len(Append(f.targets, snap)) = f.n
          /\ Append(f.targets, snap)[f.n] = snap
      BY <2>1, <2>3, AppendProperties
    <2>7. g \in Frame /\ g.n = f.n /\ g.i = 1 /\ g.targets = Append(f.targets, snap)
      BY <2>6 DEF Frame
    <2> HIDE DEF g
    <2>8. g.n \in DOMAIN g.targets /\ g.targets[g.n] = snap
      BY <2>6, <2>7, LenProperties
    <2>9. Ahead(g) \subseteq Listed
      BY <2>3, <2>4, <2>7, <2>8 DEF Ahead
    <2>10. QED
      BY <2>5, <2>7, <2>8, <2>9, DeliverNextPending
  <1>3. QED
    BY <1>1, <1>2 DEF BatchNext


\* What any step makes a call await it awaited already, or the bus lists it.
LEMMA PendingGrows ==
  ASSUME Inv1, [Next]_vars, NEW c \in Calls
  PROVE  Pending(c)' \subseteq Pending(c) \cup Listed
  <1>1. CASE pc'[c] = pc[c] /\ frame'[c] = frame[c]
    BY <1>1 DEF Pending
  <1>2. ASSUME NEW events \in Batches, PublishBatch(c, events)
        PROVE  Pending(c)' \subseteq Listed
    <2> DEFINE f == [EmptyFrame EXCEPT !.events = events]
    <2>1. f = [events |-> events, n |-> 1, targets |-> <<>>, i |-> 1, attempts |-> 0]
      BY DEF EmptyFrame
    <2>2. events \in Seq(Events) /\ <<>> \in Seq(Seq(Subs)) /\ Len(<<>>) = 0
      OBVIOUS
    <2>3. BatchNext(c, f)
      BY <1>2 DEF PublishBatch
    <2> HIDE DEF f
    <2>4. f \in Frame /\ f.n = 1 /\ f.targets = <<>>
      BY <2>1, <2>2 DEF Frame
    <2>5. QED
      BY <2>2, <2>3, <2>4, BatchNextPending
  <1>3. ASSUME ResumeBatch(c) PROVE Pending(c)' \subseteq Listed
    <2> DEFINE g == frame[c]
               f == [g EXCEPT !.n = g.n + 1]
    <2>1. g \in Frame /\ g.n \in Nat \ {0} /\ Len(g.targets) = g.n
      BY <1>3 DEF ResumeBatch, Inv1, TypeOK, FramesOK, FrameOK, InFlight, Frame
    <2>2. BatchNext(c, f)
      BY <1>3 DEF ResumeBatch
    <2> HIDE DEF g
    <2>3. f \in Frame /\ f.n \in Nat \ {0} /\ Len(f.targets) = f.n - 1
      <3>1. ASSUME NEW k \in Nat
            PROVE  LET h == [g EXCEPT !.n = k]
                   IN  h \in Frame /\ h.n = k /\ h.targets = g.targets
        BY <2>1 DEF Frame
      <3>2. g.n + 1 \in Nat \ {0} /\ g.n + 1 - 1 = g.n
        BY <2>1
      <3>3. QED
        BY <2>1, <3>1, <3>2
    <2> HIDE DEF f
    <2>4. QED
      BY <2>2, <2>3, BatchNextPending
  <1>4. ASSUME pc[c] \in InFlight
        PROVE  /\ frame[c] \in Frame /\ frame[c].n \in DOMAIN frame[c].targets /\ frame[c].i \in Nat
               /\ Len(frame[c].targets[frame[c].n]) \in Nat
    <2>1. /\ frame[c] \in Frame /\ frame[c].targets \in Seq(Seq(Subs)) /\ frame[c].i \in Nat
          /\ Len(frame[c].targets) = frame[c].n /\ frame[c].n \in Nat \ {0}
      BY <1>4 DEF Inv1, TypeOK, FramesOK, FrameOK, Frame
    <2>2. frame[c].n \in DOMAIN frame[c].targets
      BY <2>1, LenProperties
    <2>3. frame[c].targets[frame[c].n] \in Seq(Subs)
      BY <2>1, <2>2
    <2>4. QED
      BY <2>1, <2>2, <2>3, LenProperties
  <1>5. ASSUME pc[c] \in {"running", "capturing", "fanout"} PROVE Pending(c) = Ahead(frame[c])
    BY <1>5 DEF Pending, Ahead
  <1>6. ASSUME ResumeFanOut(c) PROVE Pending(c)' \subseteq Pending(c)
    BY <1>4, <1>5, <1>6, DeliverNextPending DEF ResumeFanOut, InFlight
  <1>7. ASSUME pc[c] \in {"running", "capturing"}, NEW g, g.targets = frame[c].targets,
               g.n = frame[c].n, g.i \in {frame[c].i, frame[c].i + 1},
               frame' = [frame EXCEPT ![c] = g]
        PROVE  Pending(c)' \subseteq Pending(c)
    <2>1. frame'[c] = g
      BY <1>7 DEF Inv1, TypeOK
    <2>2. Ahead(g) \subseteq Ahead(frame[c])
      BY <1>4, <1>7, AheadShrinks DEF InFlight
    <2>3. QED
      BY <1>5, <1>7, <2>1, <2>2 DEF Pending, Ahead
  <1>8. ASSUME pc[c] \in {"running", "capturing"}, NEW how, EndDelivery(c, frame[c], how)
        PROVE  Pending(c)' \subseteq Pending(c)
    <2> DEFINE f == frame[c]
               g(k) == [f EXCEPT !.i = k, !.attempts = 0]
    <2>1. frame' = [frame EXCEPT ![c] = g(f.i + 1)]
      BY <1>8 DEF EndDelivery
    <2>2. f \in Frame
      BY <1>4, <1>8 DEF InFlight
    <2> HIDE DEF f
    <2>3. \A k : g(k).targets = f.targets /\ g(k).n = f.n /\ g(k).i = k
      BY <2>2 DEF Frame
    <2> HIDE DEF g
    <2>4. QED
      BY <1>7, <1>8, <2>1, <2>3 DEF f
  <1>9. ASSUME HandlerSucceeds(c) \/ SinkCaptures(c) PROVE Pending(c)' \subseteq Pending(c)
    BY <1>8, <1>9 DEF HandlerSucceeds, SinkCaptures
  <1>10. ASSUME SinkRejects(c) PROVE Pending(c)' \subseteq Pending(c)
    <2>1. pc'[c] = "rejected"
      BY <1>10 DEF SinkRejects, Inv1, TypeOK
    <2>2. QED
      BY <2>1 DEF Pending
  <1>11. ASSUME HandlerThrows(c) PROVE Pending(c)' \subseteq Pending(c)
    <2>1. CASE frame' = [frame EXCEPT ![c] = Retry(frame[c])]
      <3>1. frame[c] \in Frame /\ pc[c] = "running"
        BY <1>4, <1>11 DEF HandlerThrows, InFlight
      <3>2. /\ Retry(frame[c]).targets = frame[c].targets /\ Retry(frame[c]).n = frame[c].n
            /\ Retry(frame[c]).i = frame[c].i
        BY <3>1 DEF Retry, Frame
      <3> DEFINE g == Retry(frame[c])
      <3>3. g.targets = frame[c].targets /\ g.n = frame[c].n /\ g.i = frame[c].i
            /\ frame' = [frame EXCEPT ![c] = g]
        BY <2>1, <3>2
      <3> HIDE DEF g
      <3>4. QED
        BY <1>7, <3>1, <3>3
    <2>2. CASE pc' = [pc EXCEPT ![c] = "capturing"] /\ UNCHANGED frame
      <3>1. pc'[c] = "capturing" /\ frame'[c] = frame[c] /\ pc[c] = "running"
        BY <1>11, <2>2 DEF HandlerThrows, Inv1, TypeOK
      <3>2. QED
        BY <3>1 DEF Pending
    <2>3. CASE EndDelivery(c, frame[c], "dropped")
      BY <1>8, <1>11, <2>3 DEF HandlerThrows
    <2>4. QED
      BY <1>11, <2>1, <2>2, <2>3 DEF HandlerThrows
  <1>12. CASE (\E s \in Subs : Subscribe(s) \/ Unsubscribe(s)) \/ UNCHANGED vars
    BY <1>1, <1>12 DEF Subscribe, Unsubscribe, vars
  <1>13. ASSUME NEW d \in Calls \ {c},
                Bus(d) \/ \E events \in Batches : PublishBatch(d, events)
         PROVE  pc'[c] = pc[c] /\ frame'[c] = frame[c]
    BY <1>13 DEF Bus, PublishBatch, ResumeBatch, ResumeFanOut, HandlerSucceeds, HandlerThrows,
       SinkCaptures, SinkRejects, BatchNext, PublishEvent, DeliverNext, EndDelivery, Inv1, TypeOK
  <1>14. CASE Bus(c) \/ \E events \in Batches : PublishBatch(c, events)
    BY <1>2, <1>3, <1>6, <1>9, <1>10, <1>11, <1>14 DEF Bus
  <1>15. QED
    BY <1>1, <1>12, <1>13, <1>14 DEF Next, Finished

\* Once unsubscribe has returned, no call that has not the subscription in its
\* snapshot already will reach it, whatever is published or subscribed meanwhile.
THEOREM UnsubscribeStops == Spec => UnsubscribeStopsDelivery
  <1>1. Init => Live
    <2>1. DOMAIN <<>> = {}
      OBVIOUS
    <2>2. QED
      BY <2>1 DEF Init, Live, LiveList
  <1>2. Spec => [](Inv1 /\ Live)
    BY <1>1, InitInv1, NextInv1, NextLive, PTL DEF Spec
  <1>3. Inv1 /\ Live /\ [Next]_vars =>
          [\A c \in Calls, s \in Subs :
             lifecycle[s] = "unsubscribed" /\ s \notin Pending(c) => s \notin Pending(c)']_vars
    <2> SUFFICES ASSUME Inv1, Live, [Next]_vars, NEW c \in Calls, NEW s \in Subs,
                        lifecycle[s] = "unsubscribed", s \notin Pending(c)
                 PROVE  s \notin Pending(c)'
      OBVIOUS
    <2>1. s \notin Listed
      BY DEF Live, LiveList, Listed
    <2>2. QED
      BY <2>1, PendingGrows
  <1>4. QED
    BY <1>2, <1>3, PTL DEF Spec, UnsubscribeStopsDelivery

-----------------------------------------------------------------------------
(***************************************************************************)
(* FlattenSeq one element at a time.  Induction over its argument is out   *)
(* of reach, so what the induction would give is a condition, Unfolds: the *)
(* equation FlattenSeq chooses a function from has a solution, with one    *)
(* last value.  The empty sequence meets it and Append keeps it, so every  *)
(* sequence a behaviour builds by Append meets it.                         *)
(***************************************************************************)
Solves(g, s) == g = [i \in 1 .. Len(s) |-> IF i = 1 THEN s[i] ELSE g[i-1] \o s[i]]

Unfolds(s) ==
  /\ \E g : Solves(g, s)
  /\ \A g, h : Solves(g, s) /\ Solves(h, s) => g = h

LEMMA UnfoldsEmpty == Unfolds(<<>>) /\ FlattenSeq(<<>>) = <<>>
  <1>1. Len(<<>>) = 0
    OBVIOUS
  <1>2. FlattenSeq(<<>>) = <<>>
    BY <1>1 DEF FlattenSeq
  <1>3. 1 .. Len(<<>>) = {}
    BY <1>1
  <1>4. Solves([i \in {} |-> i], <<>>)
    BY <1>3 DEF Solves
  <1>5. ASSUME NEW g, NEW h, Solves(g, <<>>), Solves(h, <<>>) PROVE g = h
    BY <1>3, <1>5 DEF Solves
  <1>6. QED
    BY <1>2, <1>4, <1>5 DEF Unfolds

LEMMA SolvesIs ==
  ASSUME NEW S, NEW s \in Seq(S), NEW g, Solves(g, s)
  PROVE  /\ DOMAIN g = 1 .. Len(s)
         /\ \A i \in 1 .. Len(s) : g[i] = IF i = 1 THEN s[i] ELSE g[i-1] \o s[i]
  BY DEF Solves

\* A solution for the longer sequence is one for the shorter, cut short.
LEMMA SolvesCut ==
  ASSUME NEW S, NEW s \in Seq(S), NEW t \in S, NEW g, Solves(g, Append(s, t))
  PROVE  Solves([i \in 1 .. Len(s) |-> g[i]], s)
  <1> DEFINE r == Append(s, t)
             k == [i \in 1 .. Len(s) |-> g[i]]
  <1>1. /\ r \in Seq(S) /\ Len(r) = Len(s) + 1 /\ Len(s) \in Nat
        /\ \A i \in 1 .. Len(s) : r[i] = s[i]
    BY AppendProperties
  <1> HIDE DEF r
  <1>2. \A i \in 1 .. Len(r) : g[i] = IF i = 1 THEN r[i] ELSE g[i-1] \o r[i]
    <2>1. Solves(g, r)
      BY DEF r
    <2>2. QED
      BY <1>1, <2>1, SolvesIs
  <1>3. ASSUME NEW i \in 1 .. Len(s)
        PROVE  k[i] = IF i = 1 THEN s[i] ELSE k[i-1] \o s[i]
    <2>1. i \in 1 .. Len(r) /\ r[i] = s[i] /\ k[i] = g[i]
      BY <1>1
    <2>2. CASE i = 1
      BY <1>2, <2>1, <2>2
    <2>3. CASE i # 1
      <3>1. i - 1 \in 1 .. Len(s)
        BY <1>1, <2>3
      <3>2. k[i-1] = g[i-1]
        BY <3>1
      <3>3. QED
        BY <1>2, <2>1, <2>3, <3>2
    <2>4. QED
      BY <2>2, <2>3
  <1>4. k = [i \in 1 .. Len(s) |-> IF i = 1 THEN s[i] ELSE k[i-1] \o s[i]]
    BY <1>3
  <1>5. QED
    BY <1>4 DEF Solves

\* Appending a piece to the sequence concatenates it to what it flattens to.
LEMMA UnfoldsAppend ==
  ASSUME NEW T, NEW s \in Seq(Seq(T)), NEW t \in Seq(T), Unfolds(s)
  PROVE  /\ Unfolds(Append(s, t))
         /\ FlattenSeq(Append(s, t)) = FlattenSeq(s) \o t
  <1> DEFINE r == Append(s, t)
             last == Len(s) + 1
  <1>1. /\ r \in Seq(Seq(T)) /\ Len(r) = last /\ Len(s) \in Nat
        /\ \A i \in 1 .. Len(s) : r[i] = s[i]
        /\ r[last] = t
    BY AppendProperties
  <1> HIDE DEF r
  <1>2. PICK g : Solves(g, s)
    BY DEF Unfolds
  <1> DEFINE k == [i \in 1 .. last |-> IF i = last THEN (IF last = 1 THEN t ELSE g[last-1] \o t) ELSE g[i]]
  <1>3. Solves(k, r)
    <2>1. ASSUME NEW i \in 1 .. last
          PROVE  k[i] = IF i = 1 THEN r[i] ELSE k[i-1] \o r[i]
      <3>1. CASE i = last /\ last = 1
        BY <1>1, <3>1
      <3>2. CASE i = last /\ last # 1
        <4>1. last - 1 \in 1 .. last /\ last - 1 # last
          BY <1>1, <3>2
        <4>2. k[last-1] = g[last-1]
          BY <4>1
        <4>3. QED
          BY <1>1, <3>2, <4>2
      <3>3. CASE i # last
        <4>1. i \in 1 .. Len(s) /\ k[i] = g[i] /\ r[i] = s[i]
          BY <1>1, <3>3
        <4>2. g[i] = IF i = 1 THEN s[i] ELSE g[i-1] \o s[i]
          BY <1>2, <4>1, SolvesIs
        <4>3. i # 1 => k[i-1] = g[i-1]
          BY <1>1, <3>3
        <4> HIDE DEF k
        <4>4. QED
          BY <4>1, <4>2, <4>3
      <3>4. QED
        BY <3>1, <3>2, <3>3
    <2>2. k = [i \in 1 .. last |-> IF i = 1 THEN r[i] ELSE k[i-1] \o r[i]]
      BY <2>1
    <2>3. QED
      BY <1>1, <2>2 DEF Solves
  <1>4. ASSUME NEW p, NEW q, Solves(p, r), Solves(q, r) PROVE p = q
    <2>1. [i \in 1 .. Len(s) |-> p[i]] = [i \in 1 .. Len(s) |-> q[i]]
      <3>1. /\ Solves([i \in 1 .. Len(s) |-> p[i]], s)
            /\ Solves([i \in 1 .. Len(s) |-> q[i]], s)
        BY <1>4, SolvesCut DEF r
      <3>2. QED
        BY <3>1, Zenon DEF Unfolds
    <2>2. \A i \in 1 .. Len(s) : p[i] = q[i]
      <3>1. TAKE i \in 1 .. Len(s)
      <3>2. [j \in 1 .. Len(s) |-> p[j]][i] = [j \in 1 .. Len(s) |-> q[j]][i]
        BY <2>1
      <3>3. QED
        BY <3>2
    <2>3. /\ p[last] = IF last = 1 THEN t ELSE p[last-1] \o t
          /\ q[last] = IF last = 1 THEN t ELSE q[last-1] \o t
      BY <1>1, <1>4, SolvesIs
    <2>4. p[last] = q[last]
      <3>1. CASE last = 1
        BY <2>3, <3>1
      <3>2. CASE last # 1
        <4>1. last - 1 \in 1 .. Len(s)
          BY <1>1, <3>2
        <4>2. p[last-1] = q[last-1]
          BY <2>2, <4>1
        <4> HIDE DEF last
        <4>3. QED
          BY <2>3, <3>2, <4>2
      <3>3. QED
        BY <3>1, <3>2
    <2>5. /\ p = [i \in 1 .. last |-> p[i]] /\ q = [i \in 1 .. last |-> q[i]]
      BY <1>1, <1>4 DEF Solves
    <2>6. \A i \in 1 .. last : p[i] = q[i]
      BY <1>1, <2>2, <2>4
    <2>7. [i \in 1 .. last |-> p[i]] = [i \in 1 .. last |-> q[i]]
      BY <2>6
    <2> HIDE DEF last
    <2>8. QED
      BY <2>5, <2>7, Zenon
  <1>5. Unfolds(r)
    BY <1>3, <1>4 DEF Unfolds
  <1>6. FlattenSeq(r) = k[last]
    <2> DEFINE z == CHOOSE f : f = [i \in 1 .. Len(r) |-> IF i = 1 THEN r[i] ELSE f[i-1] \o r[i]]
    <2>1. Solves(z, r)
      BY <1>3 DEF Solves
    <2>2. z = k
      BY <1>3, <1>4, <2>1
    <2>3. FlattenSeq(r) = z[Len(r)]
      BY <1>1 DEF FlattenSeq
    <2> HIDE DEF z, k
    <2>4. QED
      BY <1>1, <2>2, <2>3
  <1>7. CASE last = 1
    <2>1. s = <<>>
      BY <1>1, <1>7, EmptySeq
    <2>2. <<>> \o t = t
      BY ConcatEmptySeq
    <2>3. k[last] = t
      BY <1>7
    <2>4. QED
      BY <1>5, <1>6, <2>1, <2>2, <2>3, UnfoldsEmpty DEF r
  <1>8. CASE last # 1
    <2> DEFINE z == CHOOSE f : f = [i \in 1 .. Len(s) |-> IF i = 1 THEN s[i] ELSE f[i-1] \o s[i]]
    <2>1. Solves(z, s)
      BY <1>2 DEF Solves
    <2>2. z = g
      BY <1>2, <2>1 DEF Unfolds
    <2>3. FlattenSeq(s) = z[Len(s)]
      BY <1>1, <1>8 DEF FlattenSeq
    <2>4. k[last] = g[last-1] \o t /\ last - 1 = Len(s)
      BY <1>1, <1>8
    <2> HIDE DEF z, k
    <2>5. QED
      BY <1>5, <1>6, <2>2, <2>3, <2>4 DEF r
  <1>9. QED
    BY <1>7, <1>8

-----------------------------------------------------------------------------
(***************************************************************************)
(* The flow of one call: what it has done, followed by what is left of the *)
(* snapshot it is fanning out, is what it owes so far.                     *)
(***************************************************************************)
Pair == Events \X Subs

\* The deliveries of one event to its snapshot, and those of a whole frame.
Piece(e, snap) == [i \in DOMAIN snap |-> <<e, snap[i]>>]

Pieces(f) == [n \in DOMAIN f.targets |-> Piece(f.events[n], f.targets[n])]

DueOf(f) == FlattenSeq(Pieces(f))

DoneOf(l) == [k \in DOMAIN l |-> <<l[k].event, l[k].sub>>]

\* What is left of a piece from position i on.
From(q, i) == SubSeq(q, i, Len(q))

FlowOK(p, f, l) ==
  /\ Unfolds(Pieces(f))
  /\ p = "idle" => f = EmptyFrame /\ l = <<>>
  /\ p \in {"running", "capturing", "fanout"} =>
       DueOf(f) = DoneOf(l) \o From(Piece(EventOf(f), f.targets[f.n]), f.i)
  /\ p \in {"published", "resolved"} => DueOf(f) = DoneOf(l)
  /\ p = "resolved" => Len(f.targets) = Len(f.events)
  /\ p = "rejected" => IsPrefix(DoneOf(l), DueOf(f))

Flow == \A c \in Calls : FlowOK(pc[c], frame[c], log[c])

LEMMA PieceTyped ==
  ASSUME NEW e \in Events, NEW snap \in Seq(Subs)
  PROVE  /\ Piece(e, snap) \in Seq(Pair) /\ Len(Piece(e, snap)) = Len(snap)
         /\ \A i \in 1 .. Len(snap) : Piece(e, snap)[i] = <<e, snap[i]>>
  <1>1. Len(snap) \in Nat /\ DOMAIN snap = 1 .. Len(snap)
    BY LenProperties
  <1>2. \A i \in 1 .. Len(snap) : snap[i] \in Subs
    BY ElementOfSeq
  <1>3. QED
    BY <1>1, <1>2 DEF Piece, Pair

LEMMA DoneTyped ==
  ASSUME NEW l \in Seq(Outcome)
  PROVE  /\ DoneOf(l) \in Seq(Pair) /\ Len(DoneOf(l)) = Len(l)
         /\ \A k \in 1 .. Len(l) : DoneOf(l)[k] = <<l[k].event, l[k].sub>>
  <1>1. Len(l) \in Nat /\ DOMAIN l = 1 .. Len(l)
    BY LenProperties
  <1>2. \A k \in 1 .. Len(l) : l[k].event \in Events /\ l[k].sub \in Subs
    <2>1. \A k \in 1 .. Len(l) : l[k] \in Outcome
      BY ElementOfSeq
    <2>2. QED
      BY <2>1 DEF Outcome
  <1>3. QED
    BY <1>1, <1>2 DEF DoneOf, Pair

LEMMA DoneAppend ==
  ASSUME NEW l \in Seq(Outcome), NEW o \in Outcome
  PROVE  DoneOf(Append(l, o)) = Append(DoneOf(l), <<o.event, o.sub>>)
  <1> DEFINE r == Append(l, o)
             x == <<o.event, o.sub>>
  <1>1. /\ r \in Seq(Outcome) /\ Len(r) = Len(l) + 1 /\ Len(l) \in Nat
        /\ \A k \in 1 .. Len(l) : r[k] = l[k]
        /\ r[Len(l) + 1] = o
    BY AppendProperties
  <1> HIDE DEF r
  <1>2. x \in Pair
    BY DEF Outcome, Pair
  <1>3. /\ DoneOf(r) \in Seq(Pair) /\ Len(DoneOf(r)) = Len(l) + 1
        /\ \A k \in 1 .. Len(l) + 1 : DoneOf(r)[k] = <<r[k].event, r[k].sub>>
    BY <1>1, DoneTyped
  <1>4. /\ DoneOf(l) \in Seq(Pair) /\ Len(DoneOf(l)) = Len(l)
        /\ \A k \in 1 .. Len(l) : DoneOf(l)[k] = <<l[k].event, l[k].sub>>
    BY DoneTyped
  <1> HIDE DEF x
  <1>5. /\ Append(DoneOf(l), x) \in Seq(Pair) /\ Len(Append(DoneOf(l), x)) = Len(l) + 1
        /\ \A k \in 1 .. Len(l) : Append(DoneOf(l), x)[k] = DoneOf(l)[k]
        /\ Append(DoneOf(l), x)[Len(l) + 1] = x
    BY <1>2, <1>4, AppendProperties
  <1>6. ASSUME NEW k \in 1 .. Len(l) + 1
        PROVE  DoneOf(r)[k] = Append(DoneOf(l), x)[k]
    <2>1. CASE k = Len(l) + 1
      BY <1>1, <1>3, <1>5, <2>1 DEF x
    <2>2. CASE k \in 1 .. Len(l)
      BY <1>1, <1>3, <1>4, <1>5, <2>2
    <2>3. k = Len(l) + 1 \/ k \in 1 .. Len(l)
      BY <1>1
    <2>4. QED
      BY <2>1, <2>2, <2>3, Zenon
  <1>7. DoneOf(r) = Append(DoneOf(l), x)
    <2> DEFINE u == DoneOf(r)
               v == Append(DoneOf(l), x)
    <2>1. u \in Seq(Pair) /\ v \in Seq(Pair) /\ Len(u) = Len(v)
          /\ \A k \in 1 .. Len(u) : u[k] = v[k]
      BY <1>3, <1>5, <1>6
    <2> HIDE DEF u, v
    <2>2. u = v
      BY <2>1, SeqEqual
    <2>3. QED
      BY <2>2 DEF u, v
  <1>8. QED
    BY <1>7 DEF r, x

LEMMA FromTyped ==
  ASSUME NEW T, NEW q \in Seq(T), NEW i \in 1 .. Len(q) + 1
  PROVE  /\ From(q, i) \in Seq(T)
         /\ Len(From(q, i)) = Len(q) - i + 1
         /\ \A k \in 1 .. Len(q) - i + 1 : From(q, i)[k] = q[i + k - 1]
  <1>1. Len(q) \in Nat /\ i \in Int /\ (i > Len(q) => Len(q) - i + 1 = 0)
    BY LenProperties
  <1>2. \A k \in i .. Len(q) : q[k] \in T
    BY <1>1, ElementOfSeq
  <1>3. QED
    BY <1>1, <1>2, SubSeqProperties DEF From

\* Moving the first of what is left to the end of what is done.
LEMMA MoveOne ==
  ASSUME NEW T, NEW d \in Seq(T), NEW q \in Seq(T), NEW i \in 1 .. Len(q)
  PROVE  Append(d, q[i]) \o From(q, i + 1) = d \o From(q, i)
  <1>1. q[i] \in T /\ Len(q) \in Nat /\ Len(d) \in Nat
    BY ElementOfSeq, LenProperties
  <1>2. \A k \in 1 .. Len(q) : q[k] \in T
    BY ElementOfSeq
  <1>3. /\ From(q, i) \in Seq(T)
        /\ Len(From(q, i)) = Len(q) - i + 1
        /\ \A k \in 1 .. Len(q) - i + 1 : From(q, i)[k] = q[i + k - 1]
    BY <1>1, FromTyped
  <1> DEFINE j == i + 1
  <1>3a. /\ j \in 1 .. Len(q) + 1 /\ Len(q) - j + 1 = Len(q) - i
         /\ \A k \in 1 .. Len(q) - i : j + k - 1 = i + k
    BY <1>1
  <1>3b. /\ From(q, j) \in Seq(T)
         /\ Len(From(q, j)) = Len(q) - j + 1
         /\ \A k \in 1 .. Len(q) - j + 1 : From(q, j)[k] = q[j + k - 1]
    <2> HIDE DEF j
    <2>1. QED
      BY <1>3a, FromTyped
  <1> DEFINE a == Append(d, q[i])
             b == From(q, j)
             e == From(q, i)
  <1>4. /\ a \in Seq(T) /\ Len(a) = Len(d) + 1
        /\ \A k \in 1 .. Len(d) : a[k] = d[k]
        /\ a[Len(d) + 1] = q[i]
    BY <1>1, AppendProperties
  <1> HIDE DEF a
  <1> SUFFICES a \o b = d \o e
    BY DEF a
  <1> HIDE DEF b, e, j
  <1>5. /\ b \in Seq(T) /\ e \in Seq(T)
        /\ Len(e) = Len(q) - i + 1 /\ Len(b) = Len(q) - i
        /\ \A k \in 1 .. Len(q) - i + 1 : e[k] = q[i + k - 1]
        /\ \A k \in 1 .. Len(q) - i : b[k] = q[i + k]
    BY <1>3, <1>3a, <1>3b DEF b, e
  <1>6. /\ a \o b \in Seq(T) /\ Len(a \o b) = Len(a) + Len(b)
        /\ \A k \in 1 .. Len(a) + Len(b) :
             (a \o b)[k] = IF k <= Len(a) THEN a[k] ELSE b[k - Len(a)]
    BY <1>4, <1>5, ConcatProperties
  <1>7. /\ d \o e \in Seq(T) /\ Len(d \o e) = Len(d) + Len(e)
        /\ \A k \in 1 .. Len(d) + Len(e) :
             (d \o e)[k] = IF k <= Len(d) THEN d[k] ELSE e[k - Len(d)]
    BY <1>5, ConcatProperties
  <1>8. ASSUME NEW k \in 1 .. Len(d) + (Len(q) - i + 1)
        PROVE  (a \o b)[k] = (d \o e)[k]
    <2>1. CASE k <= Len(d)
      BY <1>1, <1>4, <1>5, <1>6, <1>7, <2>1
    <2>2. CASE k = Len(d) + 1
      <3>1. (a \o b)[k] = q[i]
        BY <1>1, <1>4, <1>5, <1>6, <2>2
      <3>2. (d \o e)[k] = e[1]
        BY <1>1, <1>5, <1>7, <2>2
      <3>3. e[1] = q[i]
        <4>1. 1 \in 1 .. Len(q) - i + 1 /\ i + 1 - 1 = i
          BY <1>1
        <4>2. QED
          BY <1>5, <4>1
      <3>4. QED
        BY <3>1, <3>2, <3>3
    <2>3. CASE k > Len(d) + 1
      <3> DEFINE m == k - Len(d) - 1
      <3>1. m \in 1 .. Len(q) - i /\ m + 1 \in 1 .. Len(q) - i + 1
            /\ k - Len(a) = m /\ k - Len(d) = m + 1
        BY <1>1, <1>4, <2>3
      <3>1a. /\ k \in 1 .. Len(a) + Len(b) /\ ~(k <= Len(a))
             /\ k \in 1 .. Len(d) + Len(e) /\ ~(k <= Len(d))
        BY <1>1, <1>4, <1>5, <2>3
      <3>2. (a \o b)[k] = b[m]
        BY <1>6, <3>1, <3>1a
      <3>3. (d \o e)[k] = e[m + 1]
        BY <1>7, <3>1, <3>1a
      <3>4. b[m] = q[i + m]
        BY <1>5, <3>1
      <3>4a. e[m + 1] = q[i + m]
        <4> DEFINE w == m + 1
        <4>1. w \in 1 .. Len(q) - i + 1 /\ i + w - 1 = i + m
          BY <1>1, <3>1
        <4> HIDE DEF w, m
        <4>2. e[w] = q[i + w - 1]
          BY <1>5, <4>1
        <4>3. QED
          BY <4>1, <4>2 DEF w
      <3>5. QED
        BY <3>2, <3>3, <3>4, <3>4a
    <2>4. k <= Len(d) \/ k = Len(d) + 1 \/ k > Len(d) + 1
      BY <1>1
    <2>5. QED
      BY <2>1, <2>2, <2>3, <2>4, Zenon
  <1>9. Len(a \o b) = Len(d \o e) /\ Len(a \o b) = Len(d) + (Len(q) - i + 1)
    BY <1>1, <1>4, <1>5, <1>6, <1>7
  <1>10. QED
    BY <1>6, <1>7, <1>8, <1>9, SeqEqual

LEMMA ConcatIsPrefix ==
  ASSUME NEW T, NEW a \in Seq(T), NEW b \in Seq(T)
  PROVE  IsPrefix(a, a \o b)
  <1> DEFINE t == a \o b
             u == SubSeq(t, 1, Len(a))
  <1>1. /\ t \in Seq(T) /\ Len(t) = Len(a) + Len(b) /\ Len(a) \in Nat /\ Len(b) \in Nat
        /\ \A i \in 1 .. Len(a) + Len(b) : t[i] = IF i <= Len(a) THEN a[i] ELSE b[i - Len(a)]
    BY ConcatProperties, LenProperties
  <1>2. \A i \in 1 .. Len(a) : t[i] = a[i] /\ a[i] \in T
    BY <1>1, ElementOfSeq
  <1> HIDE DEF t
  <1>3. /\ u \in Seq(T) /\ Len(u) = Len(a)
        /\ \A i \in 1 .. Len(a) : u[i] = t[i]
    BY <1>1, <1>2, SubSeqProperties
  <1>4. SubSeq(a, 1, Len(a)) = a
    BY SubSeqFull
  <1> HIDE DEF u
  <1>5. u = a
    BY <1>2, <1>3, SeqEqual
  <1>6. QED
    BY <1>1, <1>4, <1>5 DEF IsPrefix, t, u

\* The pieces of a frame are sequences of pairs, one for each snapshot.
LEMMA PiecesTyped ==
  ASSUME NEW f \in Frame, Len(f.targets) <= Len(f.events)
  PROVE  /\ Pieces(f) \in Seq(Seq(Pair)) /\ Len(Pieces(f)) = Len(f.targets)
         /\ \A n \in 1 .. Len(f.targets) : Pieces(f)[n] = Piece(f.events[n], f.targets[n])
  <1>1. /\ f.targets \in Seq(Seq(Subs)) /\ f.events \in Seq(Events)
        /\ Len(f.targets) \in Nat /\ Len(f.events) \in Nat
        /\ DOMAIN f.targets = 1 .. Len(f.targets)
    BY LenProperties DEF Frame
  <1>2. \A n \in 1 .. Len(f.targets) : f.events[n] \in Events /\ f.targets[n] \in Seq(Subs)
    BY <1>1, ElementOfSeq
  <1>3. \A n \in 1 .. Len(f.targets) : Piece(f.events[n], f.targets[n]) \in Seq(Pair)
    BY <1>2, PieceTyped
  <1>4. QED
    BY <1>1, <1>3 DEF Pieces

\* A new snapshot is a new last piece.
LEMMA PiecesAppend ==
  ASSUME NEW f \in Frame, NEW g \in Frame, NEW snap \in Seq(Subs),
         g.events = f.events, g.targets = Append(f.targets, snap),
         Len(f.targets) < Len(f.events)
  PROVE  Pieces(g) = Append(Pieces(f), Piece(f.events[Len(f.targets) + 1], snap))
  <1> DEFINE m == Len(f.targets)
             last == m + 1
             p == Piece(f.events[last], snap)
  <1>1. /\ m \in Nat /\ last \in 1 .. Len(f.events)
        /\ Len(g.targets) = last /\ g.targets[last] = snap
        /\ \A n \in 1 .. m : g.targets[n] = f.targets[n]
    <2>1. f.targets \in Seq(Seq(Subs)) /\ Len(f.events) \in Nat
      BY LenProperties DEF Frame
    <2>2. QED
      BY <2>1, AppendProperties, LenProperties
  <1>2. p \in Seq(Pair)
    <2>1. f.events \in Seq(Events)
      BY DEF Frame
    <2> HIDE DEF last
    <2>2. f.events[last] \in Events
      BY <1>1, <2>1, ElementOfSeq
    <2>3. QED
      BY <2>2, PieceTyped
  <1>3. /\ Pieces(f) \in Seq(Seq(Pair)) /\ Len(Pieces(f)) = m
        /\ \A n \in 1 .. m : Pieces(f)[n] = Piece(f.events[n], f.targets[n])
    <2>1. f.events \in Seq(Events)
      BY DEF Frame
    <2>2. Len(f.targets) <= Len(f.events)
      BY <1>1, <2>1, LenProperties
    <2>3. QED
      BY <2>2, PiecesTyped
  <1>4. /\ Pieces(g) \in Seq(Seq(Pair)) /\ Len(Pieces(g)) = last
        /\ \A n \in 1 .. last : Pieces(g)[n] = Piece(f.events[n], g.targets[n])
    <2>1. Len(g.targets) <= Len(g.events)
      BY <1>1
    <2>2. QED
      BY <1>1, <2>1, PiecesTyped
  <1> DEFINE r == Append(Pieces(f), p)
  <1> HIDE DEF p
  <1>5. /\ r \in Seq(Seq(Pair)) /\ Len(r) = last /\ r[last] = p
        /\ \A n \in 1 .. m : r[n] = Pieces(f)[n]
    BY <1>2, <1>3, AppendProperties
  <1> HIDE DEF r
  <1>6. ASSUME NEW n \in 1 .. last PROVE Pieces(g)[n] = r[n]
    <2>1. CASE n = last
      BY <1>1, <1>4, <1>5, <2>1 DEF p
    <2>2. CASE n \in 1 .. m
      BY <1>1, <1>3, <1>4, <1>5, <2>2
    <2>3. n = last \/ n \in 1 .. m
      BY <1>1
    <2>4. QED
      BY <2>1, <2>2, <2>3, Zenon
  <1>7. Pieces(g) = r
    <2> DEFINE u == Pieces(g)
    <2>1. u \in Seq(Seq(Pair)) /\ Len(u) = last /\ \A n \in 1 .. last : u[n] = r[n]
      BY <1>4, <1>6
    <2> HIDE DEF u
    <2>2. u = r
      BY <1>5, <2>1, SeqEqual
    <2>3. QED
      BY <2>2 DEF u
  <1>8. QED
    BY <1>7 DEF r, p

\* Only call c moves.
OnlyMoves(c) ==
  \A d \in Calls \ {c} : pc'[d] = pc[d] /\ frame'[d] = frame[d] /\ log'[d] = log[d]

\* The end of a delivery moves one pair from what is left to what is done.
LEMMA EndDeliveryFlows ==
  ASSUME Inv1, NEW c \in Calls, NEW f \in Frame, NEW how \in How,
         f.n \in 1 .. Len(f.events), Len(f.targets) = f.n,
         f.i \in 1 .. Len(f.targets[f.n]),
         FlowOK("running", f, log[c])
  PROVE  LET o == OutcomeOf(f, how)
             q == Piece(EventOf(f), f.targets[f.n])
         IN  /\ o \in Outcome
             /\ DoneOf(Append(log[c], o)) \in Seq(Pair)
             /\ From(q, f.i + 1) \in Seq(Pair)
             /\ DueOf(f) = DoneOf(Append(log[c], o)) \o From(q, f.i + 1)
  <1> DEFINE o == OutcomeOf(f, how)
             snap == f.targets[f.n]
             q == Piece(EventOf(f), snap)
             x == <<EventOf(f), TargetOf(f)>>
  <1>1. EventOf(f) \in Events /\ TargetOf(f) \in Subs
    BY Standing
  <1>2. o \in Outcome /\ o.event = EventOf(f) /\ o.sub = TargetOf(f)
    BY <1>1 DEF OutcomeOf, Outcome, Frame
  <1>3. snap \in Seq(Subs)
    BY ElementOfSeq DEF Frame
  <1>4. log[c] \in Seq(Outcome)
    BY DEF Inv1, TypeOK
  <1>5. DueOf(f) = DoneOf(log[c]) \o From(q, f.i)
    BY DEF FlowOK
  <1> HIDE DEF o
  <1>6. DoneOf(Append(log[c], o)) = Append(DoneOf(log[c]), x)
    BY <1>2, <1>4, DoneAppend
  <1>7. q \in Seq(Pair) /\ Len(q) = Len(snap) /\ q[f.i] = x
    <2>1. TargetOf(f) = snap[f.i]
      BY DEF TargetOf
    <2> HIDE DEF snap
    <2>2. f.i \in 1 .. Len(snap)
      BY DEF snap
    <2>3. QED
      BY <1>1, <1>3, <2>1, <2>2, PieceTyped
  <1>8. DoneOf(log[c]) \in Seq(Pair)
    BY <1>4, DoneTyped
  <1> DEFINE i == f.i
             d == DoneOf(log[c])
  <1>9. i \in 1 .. Len(q) /\ i + 1 \in 1 .. Len(q) + 1
    <2>1. Len(q) \in Nat
      BY <1>7, LenProperties
    <2> HIDE DEF q
    <2>2. QED
      BY <1>7, <2>1
  <1> HIDE DEF q, i, d
  <1>10. Append(d, q[i]) \o From(q, i + 1) = d \o From(q, i)
    BY <1>7, <1>8, <1>9, MoveOne DEF d
  <1>11. Append(d, q[i]) \in Seq(Pair) /\ From(q, i + 1) \in Seq(Pair)
    <2>1. q[i] \in Pair
      BY <1>7, <1>9, ElementOfSeq
    <2> DEFINE j == i + 1
    <2>2. j \in 1 .. Len(q) + 1
      BY <1>9
    <2> HIDE DEF j
    <2>3. From(q, j) \in Seq(Pair)
      BY <1>7, <2>2, FromTyped
    <2>4. QED
      BY <1>8, <2>1, <2>3, AppendProperties DEF d, j
  <1>12. QED
    BY <1>2, <1>5, <1>6, <1>7, <1>10, <1>11 DEF o, q, i, d

LEMMA EndDeliveryFlow ==
  ASSUME Inv1, NEW c \in Calls, NEW f \in Frame, NEW how \in How,
         f.n \in 1 .. Len(f.events), Len(f.targets) = f.n,
         f.i \in 1 .. Len(f.targets[f.n]),
         FlowOK("running", f, log[c]), EndDelivery(c, f, how)
  PROVE  OnlyMoves(c) /\ FlowOK(pc'[c], frame'[c], log'[c])
  <1> DEFINE g == [f EXCEPT !.i = f.i + 1, !.attempts = 0]
  <1>1. /\ g.n = f.n /\ g.events = f.events /\ g.targets = f.targets /\ g.i = f.i + 1
    BY DEF Frame
  <1>2. /\ pc' = [pc EXCEPT ![c] = "fanout"]
        /\ frame' = [frame EXCEPT ![c] = g]
        /\ log' = [log EXCEPT ![c] = Append(@, OutcomeOf(f, how))]
    BY DEF EndDelivery
  <1> HIDE DEF g
  <1>3. pc'[c] = "fanout" /\ frame'[c] = g /\ log'[c] = Append(log[c], OutcomeOf(f, how))
    BY <1>2 DEF Inv1, TypeOK
  <1>4. OnlyMoves(c)
    BY <1>2 DEF Inv1, TypeOK, OnlyMoves
  <1>5. Pieces(g) = Pieces(f) /\ EventOf(g) = EventOf(f) /\ DueOf(g) = DueOf(f)
    BY <1>1 DEF Pieces, EventOf, DueOf
  <1>6. DueOf(g) = DoneOf(log'[c]) \o From(Piece(EventOf(g), g.targets[g.n]), g.i)
    BY <1>1, <1>3, <1>5, EndDeliveryFlows
  <1>7. FlowOK("fanout", g, log'[c])
    BY <1>5, <1>6 DEF FlowOK
  <1>8. QED
    BY <1>3, <1>4, <1>7

LEMMA DeliverNextFlow ==
  ASSUME Inv1, NEW c \in Calls, NEW f \in Frame,
         f.n \in 1 .. Len(f.events), Len(f.targets) = f.n,
         f.i \in 1 .. Len(f.targets[f.n]) + 1,
         FlowOK("fanout", f, log[c]), DeliverNext(c, f)
  PROVE  OnlyMoves(c) /\ FlowOK(pc'[c], frame'[c], log'[c])
  <1> DEFINE snap == f.targets[f.n]
             q == Piece(EventOf(f), snap)
  <1>1. snap \in Seq(Subs) /\ Len(snap) \in Nat /\ EventOf(f) \in Events
    BY ElementOfSeq, LenProperties DEF Frame, EventOf
  <1>2. log[c] \in Seq(Outcome)
    BY DEF Inv1, TypeOK
  <1>3. DoneOf(log[c]) \in Seq(Pair) /\ q \in Seq(Pair) /\ Len(q) = Len(snap)
    BY <1>1, <1>2, DoneTyped, PieceTyped
  <1>4. DueOf(f) = DoneOf(log[c]) \o From(q, f.i)
    BY DEF FlowOK
  <1>5. CASE f.i > Len(snap)
    <2>1. /\ pc' = [pc EXCEPT ![c] = "published"] /\ frame' = [frame EXCEPT ![c] = f]
          /\ log' = log
      BY <1>1, <1>5 DEF DeliverNext, Frame
    <2>2. From(q, f.i) = <<>>
      <3> HIDE DEF q, snap
      <3>1. f.i \in Int /\ Len(q) \in Int /\ Len(q) < f.i
        BY <1>1, <1>3, <1>5 DEF Frame
      <3>2. QED
        BY <3>1, SubSeqEmpty DEF From
    <2>3. DueOf(f) = DoneOf(log[c])
      <3> HIDE DEF q
      <3>1. QED
        BY <1>3, <1>4, <2>2, ConcatEmptySeq
    <2>4. FlowOK("published", f, log[c])
      BY <2>3 DEF FlowOK
    <2>5. QED
      BY <2>1, <2>4 DEF Inv1, TypeOK, OnlyMoves
  <1>6. CASE f.i <= Len(snap) /\ IsDuplicate(f)
    <2>1. EndDelivery(c, f, "deduped")
      BY <1>1, <1>6 DEF DeliverNext, Frame
    <2>2. f.i \in 1 .. Len(f.targets[f.n]) /\ "deduped" \in How
      BY <1>1, <1>6 DEF How
    <2>3. FlowOK("running", f, log[c])
      BY DEF FlowOK
    <2>4. QED
      BY <2>1, <2>2, <2>3, EndDeliveryFlow
  <1>7. CASE f.i <= Len(snap) /\ ~IsDuplicate(f)
    <2> DEFINE g == [f EXCEPT !.attempts = 1]
    <2>1. pc' = [pc EXCEPT ![c] = "running"] /\ frame' = [frame EXCEPT ![c] = g]
          /\ log' = log
      BY <1>1, <1>7 DEF DeliverNext, Frame
    <2>2. g.n = f.n /\ g.events = f.events /\ g.targets = f.targets /\ g.i = f.i
      BY DEF Frame
    <2> HIDE DEF g
    <2>3. Pieces(g) = Pieces(f) /\ EventOf(g) = EventOf(f) /\ DueOf(g) = DueOf(f)
      BY <2>2 DEF Pieces, EventOf, DueOf
    <2>4. FlowOK("running", g, log[c])
      BY <2>2, <2>3 DEF FlowOK
    <2>5. QED
      BY <2>1, <2>4 DEF Inv1, TypeOK, OnlyMoves
  <1>8. QED
    BY <1>1, <1>5, <1>6, <1>7 DEF Frame

LEMMA BatchNextFlow ==
  ASSUME Inv1, NEW c \in Calls, NEW f \in Frame,
         f.n \in Nat \ {0}, Len(f.targets) = f.n - 1, f.n - 1 <= Len(f.events),
         FlowOK("published", f, log[c]), BatchNext(c, f)
  PROVE  OnlyMoves(c) /\ FlowOK(pc'[c], frame'[c], log'[c])
  <1>0. Len(f.events) \in Nat /\ f.targets \in Seq(Seq(Subs)) /\ Len(f.targets) \in Nat
    BY LenProperties DEF Frame
  <1>1. CASE f.n > Len(f.events)
    <2>1. pc' = [pc EXCEPT ![c] = "resolved"] /\ frame' = [frame EXCEPT ![c] = f]
          /\ log' = log
      BY <1>0, <1>1 DEF BatchNext
    <2>2. Len(f.targets) = Len(f.events)
      BY <1>0, <1>1
    <2>3. FlowOK("resolved", f, log[c])
      BY <2>2 DEF FlowOK
    <2>4. QED
      BY <2>1, <2>3 DEF Inv1, TypeOK, OnlyMoves
  <1>2. CASE f.n <= Len(f.events)
    <2> DEFINE snap == subscriptions[EventOf(f).type]
               g == [f EXCEPT !.targets = Append(@, snap), !.i = 1]
               q == Piece(EventOf(f), snap)
    <2>1. EventOf(f) \in Events
      <3>1. f.n \in 1 .. Len(f.events) /\ f.events \in Seq(Events)
        BY <1>0, <1>2 DEF Frame
      <3>2. QED
        BY <3>1, ElementOfSeq DEF EventOf
    <2>2. snap \in Seq(Subs) /\ Len(snap) \in Nat
      BY <2>1 DEF Inv1, TypeOK
    <2> HIDE DEF snap
    <2>3. /\ Append(f.targets, snap) \in Seq(Seq(Subs))
          /\ Len(Append(f.targets, snap)) = f.n
          /\ Append(f.targets, snap)[f.n] = snap
      BY <1>0, <2>2, AppendProperties
    <2>4. /\ g \in Frame /\ g.n = f.n /\ g.events = f.events /\ g.i = 1
          /\ g.targets = Append(f.targets, snap)
      BY <2>3 DEF Frame
    <2>5. DeliverNext(c, g)
      BY <1>0, <1>2 DEF BatchNext, PublishEvent, snap
    <2> HIDE DEF g
    <2>6. /\ g.n \in 1 .. Len(g.events) /\ Len(g.targets) = g.n
          /\ g.i \in 1 .. Len(g.targets[g.n]) + 1
      BY <1>0, <1>2, <2>2, <2>3, <2>4
    <2>7. Pieces(g) = Append(Pieces(f), q)
      <3>1. EventOf(f) = f.events[Len(f.targets) + 1] /\ Len(f.targets) < Len(f.events)
        BY <1>0, <1>2 DEF EventOf
      <3>2. QED
        BY <2>2, <2>4, <3>1, PiecesAppend
    <2>8. Pieces(f) \in Seq(Seq(Pair)) /\ q \in Seq(Pair)
      <3>1. Len(f.targets) <= Len(f.events)
        BY <1>0
      <3>2. QED
        BY <2>1, <2>2, <3>1, PiecesTyped, PieceTyped
    <2>9. Unfolds(Pieces(f)) /\ DueOf(f) = DoneOf(log[c])
      BY DEF FlowOK
    <2>10. Unfolds(Pieces(g)) /\ DueOf(g) = DueOf(f) \o q
      <3> HIDE DEF q
      <3>1. QED
        BY <2>7, <2>8, <2>9, UnfoldsAppend DEF DueOf
    <2>11. q = From(Piece(EventOf(g), g.targets[g.n]), g.i)
      <3>1. EventOf(g) = EventOf(f) /\ g.targets[g.n] = snap
        BY <2>3, <2>4 DEF EventOf
      <3> HIDE DEF q
      <3>2. SubSeq(q, 1, Len(q)) = q
        BY <2>8, SubSeqFull
      <3>3. QED
        BY <2>4, <3>1, <3>2 DEF From, q
    <2>12. FlowOK("fanout", g, log[c])
      <3> HIDE DEF q
      <3>1. QED
        BY <2>9, <2>10, <2>11 DEF FlowOK
    <2>13. QED
      BY <2>4, <2>5, <2>6, <2>12, DeliverNextFlow
  <1>3. QED
    BY <1>0, <1>1, <1>2

LEMMA NextFlow == Inv1 /\ Flow /\ [Next]_vars => Flow'
  <1> SUFFICES ASSUME Inv1, Flow, [Next]_vars PROVE Flow'
    OBVIOUS
  <1>0. ASSUME NEW c \in Calls, OnlyMoves(c), FlowOK(pc'[c], frame'[c], log'[c])
        PROVE  Flow'
    <2>1. ASSUME NEW d \in Calls PROVE FlowOK(pc'[d], frame'[d], log'[d])
      <3>1. CASE d = c
        BY <1>0, <3>1
      <3>2. CASE d # c
        <4>1. FlowOK(pc[d], frame[d], log[d])
          BY DEF Flow
        <4>2. pc'[d] = pc[d] /\ frame'[d] = frame[d] /\ log'[d] = log[d]
          BY <1>0, <3>2 DEF OnlyMoves
        <4>3. QED
          BY <4>1, <4>2
      <3>3. QED
        BY <3>1, <3>2
    <2>2. QED
      BY <2>1 DEF Flow
  <1>1. CASE UNCHANGED <<pc, frame, log>>
    BY <1>1 DEF Flow
  <1>2. ASSUME NEW c \in Calls, NEW events \in Batches, PublishBatch(c, events)
        PROVE  Flow'
    <2> DEFINE f == [EmptyFrame EXCEPT !.events = events]
    <2>1. f = [events |-> events, n |-> 1, targets |-> <<>>, i |-> 1, attempts |-> 0]
      BY DEF EmptyFrame
    <2>2. events \in Seq(Events) /\ <<>> \in Seq(Seq(Subs)) /\ Len(<<>>) = 0
      OBVIOUS
    <2>3. pc[c] = "idle" /\ BatchNext(c, f)
      BY <1>2 DEF PublishBatch
    <2> HIDE DEF f
    <2>4. f \in Frame
      BY <2>1, <2>2 DEF Frame
    <2>5. f.n = 1 /\ f.targets = <<>> /\ f.events = events
      BY <2>1
    <2>6. log[c] = <<>>
      BY <2>3 DEF Flow, FlowOK
    <2>7. Pieces(f) = <<>>
      <3>1. Len(f.targets) = 0 /\ 0 <= Len(f.events)
        BY <2>2, <2>5, LenProperties
      <3>2. Pieces(f) \in Seq(Seq(Pair)) /\ Len(Pieces(f)) = 0
        BY <2>4, <3>1, PiecesTyped
      <3>3. QED
        BY <3>2, EmptySeq
    <2>8. DoneOf(log[c]) = <<>>
      <3>1. log[c] \in Seq(Outcome)
        BY DEF Inv1, TypeOK
      <3>2. DoneOf(log[c]) \in Seq(Pair) /\ Len(DoneOf(log[c])) = 0
        BY <2>2, <2>6, <3>1, DoneTyped
      <3>3. QED
        BY <3>2, EmptySeq
    <2>9. FlowOK("published", f, log[c])
      BY <2>7, <2>8, UnfoldsEmpty DEF FlowOK, DueOf
    <2>10. /\ f.n \in Nat \ {0} /\ Len(f.targets) = f.n - 1 /\ f.n - 1 <= Len(f.events)
      BY <2>2, <2>5, LenProperties
    <2>11. QED
      BY <1>0, <2>3, <2>4, <2>9, <2>10, BatchNextFlow
  <1>3. ASSUME NEW c \in Calls, ResumeBatch(c) PROVE Flow'
    <2> DEFINE g == frame[c]
               f == [g EXCEPT !.n = g.n + 1]
    <2>1. g \in Frame /\ g.n \in 1 .. Len(g.events) /\ Len(g.targets) = g.n
      BY <1>3 DEF ResumeBatch, Inv1, TypeOK, FramesOK, FrameOK, InFlight
    <2>2. BatchNext(c, f) /\ FlowOK("published", g, log[c])
      BY <1>3 DEF ResumeBatch, Flow
    <2> HIDE DEF g
    <2>3. f \in Frame /\ f.n = g.n + 1 /\ f.targets = g.targets /\ f.events = g.events
      <3>1. ASSUME NEW k \in Nat
            PROVE  LET h == [g EXCEPT !.n = k]
                   IN  h \in Frame /\ h.n = k /\ h.targets = g.targets /\ h.events = g.events
        BY <2>1 DEF Frame
      <3>2. g.n + 1 \in Nat
        BY <2>1
      <3>3. QED
        BY <3>1, <3>2
    <2> HIDE DEF f
    <2>4. Pieces(f) = Pieces(g)
      BY <2>3 DEF Pieces
    <2>5. FlowOK("published", f, log[c])
      BY <2>2, <2>4 DEF FlowOK, DueOf
    <2>6. f.n \in Nat \ {0} /\ Len(f.targets) = f.n - 1 /\ f.n - 1 <= Len(f.events)
      BY <2>1, <2>3, LenProperties
    <2>7. QED
      BY <1>0, <2>2, <2>3, <2>5, <2>6, BatchNextFlow
  <1>4. ASSUME NEW c \in Calls, ResumeFanOut(c) PROVE Flow'
    <2>1. /\ frame[c] \in Frame /\ frame[c].n \in 1 .. Len(frame[c].events)
          /\ Len(frame[c].targets) = frame[c].n
          /\ frame[c].i \in 1 .. Len(frame[c].targets[frame[c].n]) + 1
      BY <1>4 DEF ResumeFanOut, Inv1, TypeOK, FramesOK, FrameOK, InFlight
    <2>2. DeliverNext(c, frame[c]) /\ FlowOK("fanout", frame[c], log[c])
      BY <1>4 DEF ResumeFanOut, Flow
    <2>3. QED
      BY <1>0, <2>1, <2>2, DeliverNextFlow
  <1>5. ASSUME NEW c \in Calls, pc[c] \in {"running", "capturing"}
        PROVE  /\ frame[c] \in Frame /\ frame[c].n \in 1 .. Len(frame[c].events)
               /\ Len(frame[c].targets) = frame[c].n
               /\ frame[c].i \in 1 .. Len(frame[c].targets[frame[c].n])
               /\ FlowOK("running", frame[c], log[c])
    BY <1>5 DEF Inv1, TypeOK, FramesOK, FrameOK, InFlight, Flow, FlowOK
  <1>6. ASSUME NEW c \in Calls, pc[c] \in {"running", "capturing"}, NEW how \in How,
               EndDelivery(c, frame[c], how)
        PROVE  Flow'
    BY <1>0, <1>5, <1>6, EndDeliveryFlow
  <1>7. ASSUME NEW c \in Calls, HandlerSucceeds(c) PROVE Flow'
    BY <1>6, <1>7 DEF HandlerSucceeds, How
  <1>8. ASSUME NEW c \in Calls, HandlerThrows(c) PROVE Flow'
    <2> DEFINE f == frame[c]
    <2>0. pc[c] = "running"
      BY <1>8 DEF HandlerThrows
    <2>1. CASE frame' = [frame EXCEPT ![c] = Retry(f)] /\ UNCHANGED <<pc, log>>
      <3> DEFINE g == Retry(f)
      <3>1. g.n = f.n /\ g.events = f.events /\ g.targets = f.targets /\ g.i = f.i
        BY <1>5, <2>0 DEF Retry, Frame
      <3> HIDE DEF g
      <3>2. frame' = [frame EXCEPT ![c] = g]
        BY <2>1 DEF g
      <3>3. Pieces(g) = Pieces(f) /\ EventOf(g) = EventOf(f) /\ DueOf(g) = DueOf(f)
        BY <3>1 DEF Pieces, EventOf, DueOf
      <3>4. FlowOK("running", g, log[c])
        BY <1>5, <2>0, <3>1, <3>3 DEF FlowOK
      <3>5. QED
        BY <1>0, <2>0, <2>1, <3>2, <3>4 DEF Inv1, TypeOK, OnlyMoves
    <2>2. CASE pc' = [pc EXCEPT ![c] = "capturing"] /\ UNCHANGED <<frame, log>>
      <3>1. FlowOK("capturing", frame[c], log[c])
        BY <1>5, <2>0 DEF FlowOK
      <3>2. QED
        BY <1>0, <2>2, <3>1 DEF Inv1, TypeOK, OnlyMoves
    <2>3. CASE EndDelivery(c, f, "dropped")
      BY <1>6, <2>0, <2>3 DEF How
    <2>4. QED
      BY <1>8, <2>1, <2>2, <2>3 DEF HandlerThrows
  <1>9. ASSUME NEW c \in Calls, SinkCaptures(c) PROVE Flow'
    BY <1>6, <1>9 DEF SinkCaptures, How
  <1>10. ASSUME NEW c \in Calls, SinkRejects(c) PROVE Flow'
    <2> DEFINE f == frame[c]
               l == Append(log[c], OutcomeOf(f, "lost"))
               q == Piece(EventOf(f), f.targets[f.n])
               rest == From(q, f.i + 1)
    <2>1. /\ pc[c] = "capturing" /\ pc' = [pc EXCEPT ![c] = "rejected"]
          /\ log' = [log EXCEPT ![c] = l] /\ frame' = frame
      BY <1>10 DEF SinkRejects
    <2>2. DoneOf(l) \in Seq(Pair) /\ rest \in Seq(Pair) /\ DueOf(f) = DoneOf(l) \o rest
      BY <1>5, <2>1, EndDeliveryFlows DEF How
    <2>3. Unfolds(Pieces(f))
      BY <1>5, <2>1 DEF FlowOK
    <2> HIDE DEF f, l, rest
    <2>4. IsPrefix(DoneOf(l), DueOf(f))
      BY <2>2, ConcatIsPrefix
    <2>5. FlowOK("rejected", f, l)
      BY <2>3, <2>4 DEF FlowOK
    <2>6. QED
      BY <1>0, <2>1, <2>5 DEF Inv1, TypeOK, OnlyMoves, f
  <1>11. QED
    BY <1>1, <1>2, <1>3, <1>4, <1>7, <1>8, <1>9, <1>10
       DEF Next, Bus, Finished, vars, Subscribe, Unsubscribe

LEMMA InitFlow == Init => Flow
  <1> SUFFICES ASSUME Init, NEW c \in Calls PROVE FlowOK(pc[c], frame[c], log[c])
    BY DEF Flow
  <1>1. pc[c] = "idle" /\ frame[c] = EmptyFrame /\ log[c] = <<>>
    BY DEF Init
  <1>2. EmptyFrame.targets = <<>>
    BY DEF EmptyFrame
  <1>3. Pieces(EmptyFrame) = <<>>
    BY <1>2 DEF Pieces
  <1>4. QED
    BY <1>1, <1>3, UnfoldsEmpty DEF FlowOK

\* What Flow says of one call, in the words of the properties.
LEMMA FlowGives ==
  ASSUME Inv1, Flow, NEW c \in Calls
  PROVE  /\ IsPrefix(Done(c), Due(c))
         /\ pc[c] = "resolved" => /\ Len(frame[c].targets) = Len(frame[c].events)
                                  /\ Done(c) = Due(c)
  <1> DEFINE f == frame[c]
             l == log[c]
             q == Piece(EventOf(f), f.targets[f.n])
  <1>1. Done(c) = DoneOf(l) /\ Due(c) = DueOf(f)
    BY DEF Done, Due, DoneOf, DueOf, Pieces, Piece
  <1>2. FlowOK(pc[c], f, l) /\ pc[c] \in PC
    BY DEF Flow, Inv1, TypeOK
  <1>3. DoneOf(l) \in Seq(Pair)
    BY DoneTyped DEF Inv1, TypeOK
  <1>4. IsPrefix(DoneOf(l), DoneOf(l))
    <2> DEFINE d == DoneOf(l)
    <2> HIDE DEF d
    <2>1. d \in Seq(Pair) /\ d \o <<>> = d /\ <<>> \in Seq(Pair)
      BY <1>3, ConcatEmptySeq DEF d
    <2>2. IsPrefix(d, d \o <<>>)
      BY <2>1, ConcatIsPrefix
    <2>3. QED
      BY <2>1, <2>2 DEF d
  <1>5. CASE pc[c] = "idle"
    <2>1. f = EmptyFrame /\ l = <<>>
      BY <1>2, <1>5 DEF FlowOK
    <2>2. Pieces(f) = <<>>
      BY <2>1 DEF Pieces, EmptyFrame
    <2>3. DoneOf(l) = <<>>
      BY <2>1 DEF DoneOf
    <2>4. DueOf(f) = <<>>
      BY <2>2, UnfoldsEmpty DEF DueOf
    <2>5. QED
      BY <1>1, <1>4, <1>5, <2>3, <2>4
  <1>6. CASE pc[c] \in {"running", "capturing", "fanout"}
    <2>1. DueOf(f) = DoneOf(l) \o From(q, f.i)
      BY <1>2, <1>6 DEF FlowOK
    <2>2. /\ f \in Frame /\ f.n \in 1 .. Len(f.events) /\ Len(f.targets) = f.n
          /\ f.i \in 1 .. Len(f.targets[f.n]) + 1
      BY <1>6 DEF Inv1, TypeOK, FramesOK, FrameOK, InFlight
    <2>3. q \in Seq(Pair) /\ Len(q) = Len(f.targets[f.n])
      <3>1. EventOf(f) \in Events /\ f.targets[f.n] \in Seq(Subs)
        BY <2>2, ElementOfSeq DEF EventOf, Frame
      <3>2. QED
        BY <3>1, PieceTyped
    <2>4. From(q, f.i) \in Seq(Pair)
      <3> HIDE DEF q
      <3>1. QED
        BY <2>2, <2>3, FromTyped
    <2>5. IsPrefix(DoneOf(l), DueOf(f))
      BY <1>3, <2>1, <2>4, ConcatIsPrefix
    <2>6. QED
      BY <1>1, <1>6, <2>5
  <1>7. CASE pc[c] \in {"published", "resolved"}
    BY <1>1, <1>2, <1>4, <1>7 DEF FlowOK
  <1>8. CASE pc[c] = "rejected"
    BY <1>1, <1>2, <1>8 DEF FlowOK
  <1>9. QED
    BY <1>2, <1>5, <1>6, <1>7, <1>8 DEF PC, InFlight, Settled

\* Whatever else runs in between, one call makes its deliveries in batch order
\* and subscription order, each once, to the snapshots it took.
THEOREM FanOutOrdered == Spec => []FanOutOrder
  <1>1. Spec => [](Inv1 /\ Flow)
    BY InitInv1, InitFlow, NextInv1, NextFlow, PTL DEF Spec
  <1>2. Inv1 /\ Flow => FanOutOrder
    BY FlowGives DEF FanOutOrder
  <1>3. QED
    BY <1>1, <1>2, PTL

\* A call that has resolved has made every delivery it owed, however many
\* handlers failed.  Of one that was rejected FanOutOrdered says what it has made.
THEOREM FanOutCompletes == Spec => []FanOutComplete
  <1>1. Spec => [](Inv1 /\ Flow)
    BY InitInv1, InitFlow, NextInv1, NextFlow, PTL DEF Spec
  <1>2. Inv1 /\ Flow => FanOutComplete
    BY FlowGives DEF FanOutComplete
  <1>3. QED
    BY <1>1, <1>2, PTL

-----------------------------------------------------------------------------
(* EventBus implements BusDelivery.                                         *)

\* The mapped variables, and what a pc is mapped to.
Ledger   == [c \in Calls |-> [k \in DOMAIN log[c] |-> Entry(log[c][k])]]
Statuses == [c \in Calls |-> Status(c)]

StatusOf(p) ==
  CASE p = "idle"      -> "idle"
    [] p \in InFlight  -> "open"
    [] OTHER           -> p

\* A step of the bus that ends a delivery adds its entry to the ledger.
LEMMA LedgerGrows ==
  ASSUME TypeOK, NEW c \in Calls, NEW o \in Outcome,
         log' = [log EXCEPT ![c] = Append(@, o)]
  PROVE  Ledger' = [Ledger EXCEPT ![c] = Append(@, Entry(o))]
  <1> DEFINE Image(q) == [k \in DOMAIN q |-> Entry(q[k])]
  <1>1. log[c] \in Seq(Outcome) /\ log'[c] = Append(log[c], o) /\ Len(log[c]) \in Nat
    BY DEF TypeOK
  <1>2. \A d \in Calls \ {c} : log'[d] = log[d]
    BY DEF TypeOK
  <1>3. Image(Append(log[c], o)) = Append(Image(log[c]), Entry(o))
    <2> DEFINE q == log[c]
    <2>1. q \in Seq(Outcome) /\ Len(q) \in Nat /\ DOMAIN q = 1 .. Len(q)
      BY <1>1
    <2> HIDE DEF q
    <2> DEFINE r == Image(q)
    <2>2. r \in Seq({Entry(p) : p \in Outcome}) /\ Len(r) = Len(q)
      <3>1. \A k \in 1 .. Len(q) : q[k] \in Outcome
        BY <2>1, ElementOfSeq
      <3>2. r = [k \in 1 .. Len(q) |-> Entry(q[k])]
        BY <2>1
      <3>3. \A k \in 1 .. Len(q) : Entry(q[k]) \in {Entry(p) : p \in Outcome}
        BY <3>1
      <3>4. QED
        BY <2>1, <3>2, <3>3
    <2>3. \A k \in 1 .. Len(q) : r[k] = Entry(q[k])
      BY <2>1
    <2> HIDE DEF r
    <2>4. /\ Append(q, o) \in Seq(Outcome) /\ Len(Append(q, o)) = Len(q) + 1
          /\ DOMAIN Append(q, o) = 1 .. Len(q) + 1
          /\ \A k \in 1 .. Len(q) : Append(q, o)[k] = q[k]
          /\ Append(q, o)[Len(q) + 1] = o
      BY <2>1, AppendProperties, LenProperties
    <2> DEFINE S == {Entry(p) : p \in Outcome}
               a == Image(Append(q, o))
    <2>5. a \in Seq(S) /\ Len(a) = Len(q) + 1
      <3>1. \A k \in 1 .. Len(q) + 1 : Append(q, o)[k] \in Outcome
        BY <2>4, ElementOfSeq
      <3>2. a = [k \in 1 .. Len(q) + 1 |-> Entry(Append(q, o)[k])]
        BY <2>4
      <3>3. \A k \in 1 .. Len(q) + 1 : Entry(Append(q, o)[k]) \in S
        BY <3>1
      <3> HIDE DEF S, a
      <3>4. QED
        BY <2>1, <3>2, <3>3
    <2>6. /\ \A k \in 1 .. Len(q) : a[k] = Entry(q[k])
          /\ a[Len(q) + 1] = Entry(o)
      BY <2>1, <2>4
    <2>7. a = Append(r, Entry(o))
      <3>1. Entry(o) \in S /\ r \in Seq(S)
        BY <2>2
      <3> HIDE DEF S, a
      <3>2. /\ Append(r, Entry(o)) \in Seq(S) /\ Len(Append(r, Entry(o))) = Len(q) + 1
            /\ \A k \in 1 .. Len(q) : Append(r, Entry(o))[k] = r[k]
            /\ Append(r, Entry(o))[Len(q) + 1] = Entry(o)
        BY <2>2, <3>1, AppendProperties
      <3>3. \A k \in 1 .. Len(a) : a[k] = Append(r, Entry(o))[k]
        BY <2>1, <2>3, <2>5, <2>6, <3>2
      <3>4. QED
        BY <2>5, <3>2, <3>3, SeqEqual
    <2>8. QED
      BY <2>7 DEF r, q
  <1>4. Ledger = [d \in Calls |-> Image(log[d])] /\ Ledger' = [d \in Calls |-> Image(log'[d])]
    BY DEF Ledger, Entry
  <1> HIDE DEF Image
  <1>5. /\ Ledger'[c] = Append(Ledger[c], Entry(o))
        /\ \A d \in Calls \ {c} : Ledger'[d] = Ledger[d]
    BY <1>1, <1>2, <1>3, <1>4
  <1>6. DOMAIN Ledger = Calls /\ Ledger' = [d \in Calls |-> Ledger'[d]]
        /\ Ledger = [d \in Calls |-> Ledger[d]]
    BY <1>4
  <1>7. QED
    BY <1>5, <1>6

LEMMA StatusesAre == Statuses = [c \in Calls |-> StatusOf(pc[c])]
  BY DEF Statuses, Status, StatusOf

LEMMA StatusesAreNext == Statuses' = [c \in Calls |-> StatusOf(pc'[c])]
  BY DEF Statuses, Status, StatusOf

LEMMA StatusMoves ==
  ASSUME TypeOK, NEW c \in Calls, NEW p \in PC, pc' = [pc EXCEPT ![c] = p]
  PROVE  Statuses' = [Statuses EXCEPT ![c] = StatusOf(p)]
  <1>1. pc'[c] = p /\ \A d \in Calls \ {c} : pc'[d] = pc[d]
    BY DEF TypeOK
  <1>2. /\ Statuses'[c] = StatusOf(p)
        /\ \A d \in Calls \ {c} : Statuses'[d] = Statuses[d]
    BY <1>1, StatusesAre, StatusesAreNext
  <1>3. /\ DOMAIN Statuses = Calls /\ Statuses' = [d \in Calls |-> Statuses'[d]]
        /\ Statuses = [d \in Calls |-> Statuses[d]]
    BY StatusesAre, StatusesAreNext
  <1>4. QED
    BY <1>2, <1>3

\* What the abstract bus calls handled is what the bus calls handled.
LEMMA HandledAgrees ==
  ASSUME TypeOK, NEW s, NEW key
  PROVE  Handled(s, key) <=> Delivery!Handled(s, key)
  BY DEF Handled, Delivery!Handled, Entries, Entry

-----------------------------------------------------------------------------
(***************************************************************************)
(* A subscription is kept under its type, and a snapshot is of the type of *)
(* the event it was taken for.                                             *)
(***************************************************************************)
OfType(q, t) == \A k \in DOMAIN q : q[k].type = t

FrameTyped(f) == \A n \in DOMAIN f.targets : OfType(f.targets[n], f.events[n].type)

TypesAgree ==
  /\ \A t \in Types : OfType(subscriptions[t], t)
  /\ \A c \in Calls : FrameTyped(frame[c])

\* What a turn of the fan-out does to the frame of its call.
LEMMA DeliverNextFrame ==
  ASSUME TypeOK, NEW c \in Calls, NEW f \in Frame, FrameTyped(f), DeliverNext(c, f)
  PROVE  FrameTyped(frame'[c]) /\ \A d \in Calls \ {c} : frame'[d] = frame[d]
  <1>1. PICK g : /\ frame' = [frame EXCEPT ![c] = g]
                 /\ g.targets = f.targets /\ g.events = f.events
    <2> DEFINE g(k, a) == [f EXCEPT !.i = k, !.attempts = a]
    <2>1. \A k, a : g(k, a).targets = f.targets /\ g(k, a).events = f.events
      BY DEF Frame
    <2>2. [f EXCEPT !.attempts = 1].targets = f.targets /\ [f EXCEPT !.attempts = 1].events = f.events
      BY DEF Frame
    <2>3. CASE frame' = [frame EXCEPT ![c] = f]
      BY <2>3
    <2> HIDE DEF g
    <2>4. CASE frame' = [frame EXCEPT ![c] = g(f.i + 1, 0)]
      BY <2>1, <2>4
    <2>5. CASE frame' = [frame EXCEPT ![c] = [f EXCEPT !.attempts = 1]]
      BY <2>2, <2>5
    <2>6. QED
      BY <2>3, <2>4, <2>5 DEF DeliverNext, EndDelivery, g
  <1>2. frame'[c] = g /\ \A d \in Calls \ {c} : frame'[d] = frame[d]
    BY <1>1 DEF TypeOK
  <1>3. QED
    BY <1>1, <1>2 DEF FrameTyped

\* publish appends its snapshot to the frame.
WithSnapshot(f, snap) == [f EXCEPT !.targets = Append(@, snap), !.i = 1]

LEMMA SnapshotFrame ==
  ASSUME NEW f \in Frame, FrameTyped(f), f.n \in Nat \ {0}, Len(f.targets) = f.n - 1,
         NEW snap \in Seq(Subs), OfType(snap, EventOf(f).type)
  PROVE  /\ WithSnapshot(f, snap) \in Frame
         /\ WithSnapshot(f, snap).n = f.n
         /\ WithSnapshot(f, snap).events = f.events
         /\ WithSnapshot(f, snap).i = 1
         /\ Len(WithSnapshot(f, snap).targets) = f.n
         /\ WithSnapshot(f, snap).targets[f.n] = snap
         /\ FrameTyped(WithSnapshot(f, snap))
  <1> DEFINE g == WithSnapshot(f, snap)
  <1>1. f.targets \in Seq(Seq(Subs)) /\ EventOf(f) = f.events[f.n]
    BY DEF Frame, EventOf
  <1>2. /\ Append(f.targets, snap) \in Seq(Seq(Subs)) /\ Len(Append(f.targets, snap)) = f.n
        /\ DOMAIN Append(f.targets, snap) = 1 .. f.n /\ DOMAIN f.targets = 1 .. f.n - 1
        /\ \A k \in 1 .. f.n - 1 : Append(f.targets, snap)[k] = f.targets[k]
        /\ Append(f.targets, snap)[f.n] = snap
    <2>1. /\ Append(f.targets, snap) \in Seq(Seq(Subs))
          /\ Len(Append(f.targets, snap)) = f.n
          /\ \A k \in 1 .. f.n - 1 : Append(f.targets, snap)[k] = f.targets[k]
          /\ Append(f.targets, snap)[f.n] = snap
      BY <1>1, AppendProperties
    <2>2. QED
      BY <1>1, <2>1, LenProperties
  <1>3. /\ g \in Frame /\ g.n = f.n /\ g.events = f.events /\ g.i = 1
        /\ g.targets = Append(f.targets, snap)
    BY <1>2 DEF Frame, WithSnapshot
  <1> HIDE DEF g
  <1>4. FrameTyped(g)
    <2> SUFFICES ASSUME NEW n \in 1 .. f.n
                 PROVE  OfType(g.targets[n], g.events[n].type)
      BY <1>2, <1>3 DEF FrameTyped
    <2>1. CASE n = f.n
      BY <1>1, <1>2, <1>3, <2>1
    <2>2. CASE n \in 1 .. f.n - 1
      BY <1>2, <1>3, <2>2 DEF FrameTyped
    <2>3. n = f.n \/ n \in 1 .. f.n - 1
      OBVIOUS
    <2>4. QED
      BY <2>1, <2>2, <2>3
  <1>5. QED
    BY <1>2, <1>3, <1>4 DEF g

LEMMA BatchNextFrame ==
  ASSUME Inv1, TypesAgree, NEW c \in Calls, NEW f \in Frame, FrameTyped(f),
         f.n \in Nat \ {0}, Len(f.targets) = f.n - 1, BatchNext(c, f)
  PROVE  FrameTyped(frame'[c]) /\ \A d \in Calls \ {c} : frame'[d] = frame[d]
  <1>1. CASE frame' = [frame EXCEPT ![c] = f]
    BY <1>1 DEF Inv1, TypeOK
  <1>2. CASE f.n <= Len(f.events) /\ PublishEvent(c, f)
    <2> DEFINE snap == subscriptions[EventOf(f).type]
               g == WithSnapshot(f, snap)
    <2>1. f.events \in Seq(Events) /\ Len(f.events) \in Nat /\ f.targets \in Seq(Seq(Subs))
      BY DEF Frame
    <2>2. EventOf(f) \in Events /\ EventOf(f) = f.events[f.n]
      <3>1. f.n \in 1 .. Len(f.events)
        BY <1>2, <2>1
      <3>2. QED
        BY <2>1, <3>1, ElementOfSeq DEF EventOf
    <2>3. snap \in Seq(Subs) /\ OfType(snap, EventOf(f).type)
      <3>1. EventOf(f).type \in Types
        BY <2>2
      <3>2. QED
        BY <3>1 DEF Inv1, TypeOK, TypesAgree
    <2>4. DeliverNext(c, g)
      BY <1>2 DEF PublishEvent, WithSnapshot
    <2> HIDE DEF snap
    <2>5. g \in Frame /\ FrameTyped(g)
      BY <2>3, SnapshotFrame
    <2> HIDE DEF g
    <2>6. QED
      BY <2>4, <2>5, DeliverNextFrame DEF Inv1
  <1>3. QED
    BY <1>1, <1>2 DEF BatchNext

\* Taking an element out leaves elements that were there.
LEMMA RemoveAtElements ==
  ASSUME NEW S, NEW q \in Seq(S), NEW k \in 1 .. Len(q), NEW i \in DOMAIN RemoveAt(q, k)
  PROVE  \E j \in 1 .. Len(q) : RemoveAt(q, k)[i] = q[j]
  <1>1. RemoveAt(q, k) \in Seq(S) /\ Len(RemoveAt(q, k)) = Len(q) - 1 /\ Len(q) \in Nat
    BY RemoveAtIs
  <1>2. i \in 1 .. Len(q) - 1
    BY <1>1, LenProperties
  <1>3. /\ i < k => RemoveAt(q, k)[i] = q[i]
        /\ i >= k => RemoveAt(q, k)[i] = q[i + 1]
    BY <1>2, RemoveAtIs
  <1> DEFINE r == RemoveAt(q, k)
  <1>4. /\ i < k => r[i] = q[i]
        /\ i >= k => r[i] = q[i + 1]
    BY <1>3
  <1> HIDE DEF r
  <1>5. i \in 1 .. Len(q) /\ i + 1 \in 1 .. Len(q) /\ (i < k \/ i >= k)
    BY <1>1, <1>2
  <1>6. \E j \in 1 .. Len(q) : r[i] = q[j]
    BY <1>4, <1>5
  <1>7. QED
    BY <1>6 DEF r

LEMMA NextTypesAgree == Inv1 /\ TypesAgree /\ [Next]_vars => TypesAgree'
  <1> SUFFICES ASSUME Inv1, TypesAgree, [Next]_vars PROVE TypesAgree'
    OBVIOUS
  <1>1. ASSUME NEW c \in Calls, FrameTyped(frame'[c]),
               \A d \in Calls \ {c} : frame'[d] = frame[d], subscriptions' = subscriptions
        PROVE  TypesAgree'
    BY <1>1 DEF TypesAgree, FrameTyped
  <1>2. ASSUME NEW s \in Subs, Subscribe(s) PROVE TypesAgree'
    <2> DEFINE q == subscriptions[s.type]
    <2>0. s.type \in Types
      OBVIOUS
    <2>1. q \in Seq(Subs) /\ Len(q) \in Nat /\ DOMAIN q = 1 .. Len(q) /\ OfType(q, s.type)
      <3>1. q \in Seq(Subs) /\ OfType(q, s.type)
        BY <2>0 DEF Inv1, TypeOK, TypesAgree
      <3>2. QED
        BY <3>1, LenProperties
    <2> HIDE DEF q
    <2>2. OfType(Append(q, s), s.type)
      <3>1. Append(q, s) \in Seq(Subs) /\ Len(Append(q, s)) = Len(q) + 1
            /\ (\A k \in 1 .. Len(q) : Append(q, s)[k] = q[k])
            /\ Append(q, s)[Len(q) + 1] = s
        BY <2>1, AppendProperties
      <3>2. DOMAIN Append(q, s) = 1 .. Len(q) + 1
        BY <3>1, LenProperties
      <3>3. QED
        BY <2>1, <3>1, <3>2 DEF OfType
    <2>3. /\ subscriptions'[s.type] = Append(q, s)
          /\ \A t \in Types \ {s.type} : subscriptions'[t] = subscriptions[t]
      BY <1>2, <2>0 DEF Subscribe, q, Inv1, TypeOK
    <2>4. QED
      BY <1>2, <2>2, <2>3 DEF Subscribe, TypesAgree, FrameTyped
  <1>3. ASSUME NEW s \in Subs, Unsubscribe(s) PROVE TypesAgree'
    <2> DEFINE q == subscriptions[s.type]
    <2>0. s.type \in Types
      OBVIOUS
    <2>1. q \in Seq(Subs) /\ Len(q) \in Nat /\ DOMAIN q = 1 .. Len(q) /\ OfType(q, s.type)
      <3>1. q \in Seq(Subs) /\ OfType(q, s.type)
        BY <2>0 DEF Inv1, TypeOK, TypesAgree
      <3>2. QED
        BY <3>1, LenProperties
    <2>2. PICK k \in DOMAIN q : subscriptions' = [subscriptions EXCEPT ![s.type] = RemoveAt(@, k)]
      BY <1>3 DEF Unsubscribe
    <2>3. /\ subscriptions'[s.type] = RemoveAt(q, k)
          /\ \A t \in Types \ {s.type} : subscriptions'[t] = subscriptions[t]
      BY <2>0, <2>2 DEF Inv1, TypeOK
    <2> HIDE DEF q
    <2>4. OfType(RemoveAt(q, k), s.type)
      BY <2>1, <2>2, RemoveAtElements DEF OfType
    <2>5. QED
      BY <1>3, <2>3, <2>4 DEF Unsubscribe, TypesAgree, FrameTyped
  <1>4. ASSUME NEW c \in Calls, NEW events \in Batches, PublishBatch(c, events)
        PROVE  TypesAgree'
    <2> DEFINE f == [EmptyFrame EXCEPT !.events = events]
    <2>1. f = [events |-> events, n |-> 1, targets |-> <<>>, i |-> 1, attempts |-> 0]
      BY DEF EmptyFrame
    <2>2. events \in Seq(Events) /\ <<>> \in Seq(Seq(Subs)) /\ Len(<<>>) = 0 /\ DOMAIN <<>> = {}
      <3>1. events \in Seq(Events) /\ <<>> \in Seq(Seq(Subs)) /\ Len(<<>>) = 0
        OBVIOUS
      <3>2. DOMAIN <<>> = 1 .. 0
        BY <3>1, LenProperties
      <3>3. QED
        BY <3>1, <3>2
    <2>3. BatchNext(c, f) /\ subscriptions' = subscriptions
      BY <1>4 DEF PublishBatch
    <2> HIDE DEF f
    <2>4. f \in Frame
      BY <2>1, <2>2 DEF Frame
    <2>5. f.n = 1 /\ f.targets = <<>>
      BY <2>1
    <2>6. FrameTyped(f)
      BY <2>2, <2>5 DEF FrameTyped
    <2>7. QED
      BY <1>1, <2>2, <2>3, <2>4, <2>5, <2>6, BatchNextFrame
  <1>5. ASSUME NEW c \in Calls, ResumeBatch(c) PROVE TypesAgree'
    <2> DEFINE g == frame[c]
               f == [g EXCEPT !.n = g.n + 1]
    <2>1. g \in Frame /\ g.n \in Nat \ {0} /\ Len(g.targets) = g.n /\ FrameTyped(g)
      BY <1>5 DEF ResumeBatch, Inv1, TypeOK, FramesOK, FrameOK, InFlight, Frame, TypesAgree
    <2>2. BatchNext(c, f) /\ subscriptions' = subscriptions
      BY <1>5 DEF ResumeBatch
    <2> HIDE DEF g
    <2>3. /\ f \in Frame /\ f.n \in Nat \ {0} /\ Len(f.targets) = f.n - 1
          /\ f.targets = g.targets /\ f.events = g.events
      <3>1. ASSUME NEW k \in Nat
            PROVE  LET h == [g EXCEPT !.n = k]
                   IN  h \in Frame /\ h.n = k /\ h.targets = g.targets /\ h.events = g.events
        BY <2>1 DEF Frame
      <3>2. g.n + 1 \in Nat \ {0} /\ g.n + 1 - 1 = g.n
        BY <2>1
      <3>3. QED
        BY <2>1, <3>1, <3>2
    <2> HIDE DEF f
    <2>4. FrameTyped(f)
      BY <2>1, <2>3 DEF FrameTyped
    <2>5. QED
      BY <1>1, <2>2, <2>3, <2>4, BatchNextFrame
  <1>6. ASSUME NEW c \in Calls, ResumeFanOut(c) PROVE TypesAgree'
    <2>1. frame[c] \in Frame /\ FrameTyped(frame[c])
      BY DEF Inv1, TypeOK, TypesAgree
    <2>2. DeliverNext(c, frame[c]) /\ subscriptions' = subscriptions
      BY <1>6 DEF ResumeFanOut
    <2>3. QED
      BY <1>1, <2>1, <2>2, DeliverNextFrame DEF Inv1
  <1>7. ASSUME NEW c \in Calls, NEW how, EndDelivery(c, frame[c], how),
               subscriptions' = subscriptions
        PROVE  TypesAgree'
    <2> DEFINE f == frame[c]
               g(k) == [f EXCEPT !.i = k, !.attempts = 0]
    <2>1. f \in Frame /\ FrameTyped(f)
      BY DEF Inv1, TypeOK, TypesAgree
    <2>2. \A k : g(k).targets = f.targets /\ g(k).events = f.events
      BY <2>1 DEF Frame
    <2>3. frame' = [frame EXCEPT ![c] = g(f.i + 1)]
      BY <1>7 DEF EndDelivery
    <2> HIDE DEF g, f
    <2>4. frame'[c] = g(f.i + 1) /\ \A d \in Calls \ {c} : frame'[d] = frame[d]
      BY <2>3 DEF Inv1, TypeOK
    <2>5. FrameTyped(frame'[c])
      BY <2>1, <2>2, <2>4 DEF FrameTyped
    <2>6. QED
      BY <1>1, <1>7, <2>4, <2>5
  <1>8. ASSUME NEW c \in Calls, HandlerThrows(c) PROVE TypesAgree'
    <2> DEFINE f == frame[c]
               g(k) == [f EXCEPT !.attempts = k]
    <2>1. subscriptions' = subscriptions
      BY <1>8 DEF HandlerThrows
    <2>2. CASE frame' = [frame EXCEPT ![c] = Retry(f)]
      <3>1. f \in Frame /\ FrameTyped(f)
        BY DEF Inv1, TypeOK, TypesAgree
      <3>2. \A k : g(k).targets = f.targets /\ g(k).events = f.events
        BY <3>1 DEF Frame
      <3>3. frame' = [frame EXCEPT ![c] = g(f.attempts + 1)]
        BY <2>2 DEF Retry
      <3> HIDE DEF g, f
      <3>4. frame'[c] = g(f.attempts + 1) /\ \A d \in Calls \ {c} : frame'[d] = frame[d]
        BY <3>3 DEF Inv1, TypeOK
      <3>5. FrameTyped(frame'[c])
        BY <3>1, <3>2, <3>4 DEF FrameTyped
      <3>6. QED
        BY <1>1, <2>1, <3>4, <3>5
    <2>3. CASE UNCHANGED frame
      BY <2>1, <2>3 DEF TypesAgree, FrameTyped
    <2>4. CASE EndDelivery(c, f, "dropped")
      BY <1>7, <2>1, <2>4
    <2>5. QED
      BY <1>8, <2>2, <2>3, <2>4 DEF HandlerThrows
  <1>9. ASSUME NEW c \in Calls, HandlerSucceeds(c) \/ SinkCaptures(c) PROVE TypesAgree'
    BY <1>7, <1>9 DEF HandlerSucceeds, SinkCaptures
  <1>10. CASE UNCHANGED <<subscriptions, frame>>
    BY <1>10 DEF TypesAgree, FrameTyped
  <1>11. ASSUME NEW c \in Calls, SinkRejects(c) PROVE TypesAgree'
    BY <1>10, <1>11 DEF SinkRejects
  <1>12. QED
    BY <1>2, <1>3, <1>4, <1>5, <1>6, <1>8, <1>9, <1>10, <1>11 DEF Next, Bus, Finished, vars

-----------------------------------------------------------------------------
(***************************************************************************)
(* The simulation: what each kind of step is to the abstract bus.          *)
(***************************************************************************)
Busy(c) == pc[c] \in {"idle"} \cup InFlight

AbstractStep == [Delivery!Next]_(Delivery!vars)

LEMMA Mapping == Delivery!vars = <<Ledger, Statuses>>
  BY DEF Delivery!vars, Ledger, Statuses

LEMMA MappingNext == (Delivery!vars)' = <<Ledger', Statuses'>>
  BY DEF Delivery!vars, Ledger, Statuses

\* Nothing of the mapped state changes.
LEMMA SimStutter == UNCHANGED <<pc, log>> => AbstractStep
  <1> SUFFICES ASSUME UNCHANGED <<pc, log>> PROVE AbstractStep
    OBVIOUS
  <1>1. Ledger' = Ledger /\ Statuses' = Statuses
    BY DEF Ledger, Statuses, Status
  <1>2. QED
    BY <1>1, Mapping, MappingNext DEF AbstractStep

\* A call awaits something new and has ended nothing.
LEMMA SimOpen ==
  ASSUME TypeOK, NEW c \in Calls, Busy(c), NEW p \in InFlight,
         pc' = [pc EXCEPT ![c] = p], UNCHANGED log
  PROVE  AbstractStep
  <1>1. Statuses' = [Statuses EXCEPT ![c] = "open"]
    BY StatusMoves DEF StatusOf, PC, InFlight
  <1>2. Ledger' = Ledger
    BY DEF Ledger
  <1>3. CASE pc[c] = "idle"
    <2>1. Statuses[c] = "idle"
      BY <1>3, StatusesAre DEF StatusOf, InFlight
    <2>2. Delivery!Open(c)
      BY <1>1, <1>2, <2>1 DEF Delivery!Open, Delivery!Becomes, Ledger, Statuses
    <2>3. QED
      BY <2>2 DEF AbstractStep, Delivery!Next
  <1>4. CASE pc[c] \in InFlight
    <2>1. Statuses[c] = "open"
      BY <1>4, StatusesAre DEF StatusOf, InFlight
    <2>2. Statuses' = Statuses
      BY <1>1, <2>1, StatusesAre
    <2>3. QED
      BY <1>2, <2>2, Mapping, MappingNext DEF AbstractStep
  <1>5. QED
    BY <1>3, <1>4 DEF Busy

LEMMA SimResolve ==
  ASSUME TypeOK, NEW c \in Calls, Busy(c),
         pc' = [pc EXCEPT ![c] = "resolved"], UNCHANGED log
  PROVE  AbstractStep
  <1>1. Statuses' = [Statuses EXCEPT ![c] = "resolved"]
    BY StatusMoves DEF StatusOf, PC, InFlight, Settled
  <1>2. Ledger' = Ledger
    BY DEF Ledger
  <1>3. Statuses[c] \in {"idle", "open"}
    BY StatusesAre DEF StatusOf, InFlight, Busy
  <1>4. Delivery!Resolve(c)
    BY <1>1, <1>2, <1>3 DEF Delivery!Resolve, Delivery!Becomes, Delivery!Unsettled, Ledger, Statuses
  <1>5. QED
    BY <1>4 DEF AbstractStep, Delivery!Next

\* A delivery ends: the frame names its event and subscription.
LEMMA SimDeliver ==
  ASSUME TypeOK, NEW c \in Calls, Busy(c), NEW f \in Frame, FrameTyped(f),
         f.n \in 1 .. Len(f.events), Len(f.targets) = f.n, f.i \in 1 .. Len(f.targets[f.n]),
         NEW how \in How, log' = [log EXCEPT ![c] = Append(@, OutcomeOf(f, how))],
         how = "deduped" => /\ TargetOf(f).idempotent
                            /\ Handled(TargetOf(f), EventOf(f).idempotencyKey),
         pc' = [pc EXCEPT ![c] = IF how = "lost" THEN "rejected" ELSE "fanout"]
  PROVE  AbstractStep
  <1> DEFINE e == EventOf(f)
             s == TargetOf(f)
             entry == [event |-> e, sub |-> s, how |-> how]
  <1>1. e \in Events /\ s \in Subs
    BY Standing
  <1>2. e.type = s.type
    <2>1. f.targets \in Seq(Seq(Subs)) /\ f.n \in 1 .. Len(f.targets)
      BY DEF Frame
    <2>2. f.n \in DOMAIN f.targets /\ f.targets[f.n] \in Seq(Subs)
      BY <2>1, LenProperties, ElementOfSeq
    <2>3. f.i \in DOMAIN f.targets[f.n]
      BY <2>2, LenProperties
    <2>4. QED
      BY <2>2, <2>3 DEF FrameTyped, OfType, EventOf, TargetOf
  <1>3. OutcomeOf(f, how) \in Outcome /\ Entry(OutcomeOf(f, how)) = entry
    BY <1>1 DEF OutcomeOf, Outcome, Frame, Entry
  <1>4. Ledger' = [Ledger EXCEPT ![c] = Append(@, entry)]
    <2> DEFINE o == OutcomeOf(f, how)
    <2>1. o \in Outcome /\ Entry(o) = entry /\ log' = [log EXCEPT ![c] = Append(@, o)]
      BY <1>3
    <2> HIDE DEF o, entry
    <2>2. Ledger' = [Ledger EXCEPT ![c] = Append(@, Entry(o))]
      BY <2>1, LedgerGrows
    <2>3. QED
      BY <2>1, <2>2
  <1>5. Statuses[c] \in {"idle", "open"}
    BY StatusesAre DEF StatusOf, InFlight, Busy
  <1>6. Statuses' = [Statuses EXCEPT ![c] = IF how = "lost" THEN "rejected" ELSE "open"]
    <2>1. CASE how = "lost"
      BY <2>1, StatusMoves DEF StatusOf, PC, InFlight, Settled
    <2>2. CASE how # "lost"
      BY <2>2, StatusMoves DEF StatusOf, PC, InFlight
    <2>3. QED
      BY <2>1, <2>2
  <1>7. how = "deduped" => Delivery!Handled(s, e.idempotencyKey)
    BY HandledAgrees
  <1> HIDE DEF e, s
  <1>8. Delivery!Record(c, e, s, how)
    BY <1>4 DEF Delivery!Record, Ledger
  <1>9. Delivery!Unsettled(c)
    BY <1>5 DEF Delivery!Unsettled, Statuses
  <1>10. CASE how = "lost"
    <2>1. Delivery!Becomes(c, "rejected")
      BY <1>6, <1>10 DEF Delivery!Becomes, Statuses
    <2>2. Delivery!Deliver(c, e, s)
      BY <1>2, <1>8, <1>9, <1>10, <2>1 DEF Delivery!Deliver
    <2>3. QED
      BY <1>1, <2>2 DEF AbstractStep, Delivery!Next
  <1>11. CASE how # "lost"
    <2>1. Delivery!Becomes(c, "open")
      BY <1>6, <1>11 DEF Delivery!Becomes, Statuses
    <2>2. Delivery!Deliver(c, e, s)
      <3>1. CASE how = "deduped"
        BY <1>2, <1>7, <1>8, <1>9, <2>1, <3>1 DEF Delivery!Deliver, s
      <3>2. CASE how \in {"handled", "captured", "dropped"}
        BY <1>2, <1>8, <1>9, <2>1, <3>2 DEF Delivery!Deliver
      <3>3. QED
        BY <1>11, <3>1, <3>2 DEF How
    <2>3. QED
      BY <1>1, <2>2 DEF AbstractStep, Delivery!Next
  <1>12. QED
    BY <1>10, <1>11

\* A turn of publish's loop, from a frame that stands at or past the snapshot.
LEMMA SimDeliverNext ==
  ASSUME TypeOK, SeenWasHandled, NEW c \in Calls, Busy(c), NEW f \in Frame, FrameTyped(f),
         f.n \in 1 .. Len(f.events), Len(f.targets) = f.n,
         f.i \in 1 .. Len(f.targets[f.n]) + 1, DeliverNext(c, f)
  PROVE  AbstractStep
  <1>1. f.targets[f.n] \in Seq(Subs) /\ Len(f.targets[f.n]) \in Nat
    <2>1. f.targets \in Seq(Seq(Subs))
      BY DEF Frame
    <2>2. QED
      BY <2>1, ElementOfSeq
  <1>2. CASE pc' = [pc EXCEPT ![c] = "published"] /\ UNCHANGED log
    BY <1>2, SimOpen DEF InFlight
  <1>3. CASE pc' = [pc EXCEPT ![c] = "running"] /\ UNCHANGED log
    BY <1>3, SimOpen DEF InFlight
  <1>4. CASE f.i <= Len(f.targets[f.n]) /\ IsDuplicate(f) /\ EndDelivery(c, f, "deduped")
    <2>1. f.i \in 1 .. Len(f.targets[f.n])
      BY <1>1, <1>4
    <2>2. EventOf(f) \in Events /\ TargetOf(f) \in Subs
      BY <2>1, Standing
    <2>3. TargetOf(f).idempotent /\ Handled(TargetOf(f), EventOf(f).idempotencyKey)
      BY <1>4, <2>2 DEF IsDuplicate, SeenWasHandled
    <2>4. /\ log' = [log EXCEPT ![c] = Append(@, OutcomeOf(f, "deduped"))]
          /\ pc' = [pc EXCEPT ![c] = IF "deduped" = "lost" THEN "rejected" ELSE "fanout"]
      BY <1>4 DEF EndDelivery
    <2>5. "deduped" \in How
      BY DEF How
    <2>6. QED
      BY <2>1, <2>3, <2>4, <2>5, SimDeliver
  <1>5. QED
    BY <1>2, <1>3, <1>4 DEF DeliverNext

\* A turn of publishBatch's loop.
LEMMA SimBatchNext ==
  ASSUME Inv1, TypesAgree, SeenWasHandled, NEW c \in Calls, Busy(c), NEW f \in Frame, FrameTyped(f),
         f.n \in Nat \ {0}, Len(f.targets) = f.n - 1, BatchNext(c, f)
  PROVE  AbstractStep
  <1>0. TypeOK
    BY DEF Inv1
  <1>1. CASE pc' = [pc EXCEPT ![c] = "resolved"] /\ UNCHANGED log
    BY <1>0, <1>1, SimResolve
  <1>2. CASE f.n <= Len(f.events) /\ PublishEvent(c, f)
    <2> DEFINE snap == subscriptions[EventOf(f).type]
               g == WithSnapshot(f, snap)
    <2>1. snap \in Seq(Subs) /\ Len(snap) \in Nat /\ EventOf(f) \in Events
          /\ OfType(snap, EventOf(f).type) /\ EventOf(f) = f.events[f.n]
          /\ f.n \in 1 .. Len(f.events)
      <3>1. f.events \in Seq(Events) /\ f.n \in 1 .. Len(f.events)
        BY <1>2 DEF Frame
      <3>2. EventOf(f) \in Events /\ EventOf(f) = f.events[f.n]
        BY <3>1, ElementOfSeq DEF EventOf
      <3>3. EventOf(f).type \in Types
        BY <3>2
      <3>4. QED
        BY <3>1, <3>2, <3>3 DEF Inv1, TypeOK, TypesAgree
    <2>2. DeliverNext(c, g)
      BY <1>2 DEF PublishEvent, WithSnapshot
    <2> HIDE DEF snap
    <2>3. g \in Frame /\ FrameTyped(g)
      BY <2>1, SnapshotFrame
    <2>4. /\ g.n = f.n /\ g.events = f.events /\ g.i = 1
          /\ Len(g.targets) = f.n /\ g.targets[f.n] = snap
      BY <2>1, SnapshotFrame
    <2> HIDE DEF g
    <2>5. g.n \in 1 .. Len(g.events) /\ Len(g.targets) = g.n /\ g.i \in 1 .. Len(g.targets[g.n]) + 1
      BY <2>1, <2>4
    <2>6. QED
      BY <1>0, <2>2, <2>3, <2>5, SimDeliverNext
  <1>3. QED
    BY <1>1, <1>2 DEF BatchNext

\* Every step of the bus is one of the abstract bus, or a stutter of it.
LEMMA SimNext ==
  Inv1 /\ SeenWasHandled /\ TypesAgree /\ [Next]_vars => AbstractStep
  <1> SUFFICES ASSUME Inv1, SeenWasHandled, TypesAgree, [Next]_vars PROVE AbstractStep
    OBVIOUS
  <1>0. TypeOK
    BY DEF Inv1
  <1>1. CASE UNCHANGED <<pc, log>>
    BY <1>1, SimStutter
  <1>2. ASSUME NEW c \in Calls, NEW events \in Batches, PublishBatch(c, events)
        PROVE  AbstractStep
    <2> DEFINE f == [EmptyFrame EXCEPT !.events = events]
    <2>1. f = [events |-> events, n |-> 1, targets |-> <<>>, i |-> 1, attempts |-> 0]
      BY DEF EmptyFrame
    <2>2. events \in Seq(Events) /\ <<>> \in Seq(Seq(Subs)) /\ Len(<<>>) = 0
      OBVIOUS
    <2>3. BatchNext(c, f) /\ Busy(c)
      BY <1>2 DEF PublishBatch, Busy
    <2> HIDE DEF f
    <2>4. f \in Frame
      BY <2>1, <2>2 DEF Frame
    <2>5. f.n = 1 /\ f.targets = <<>> /\ DOMAIN <<>> = 1 .. 0
      BY <2>1, <2>2, LenProperties
    <2>6. FrameTyped(f)
      BY <2>5 DEF FrameTyped
    <2>7. QED
      BY <2>2, <2>3, <2>4, <2>5, <2>6, SimBatchNext
  <1>3. ASSUME NEW c \in Calls, ResumeBatch(c) PROVE AbstractStep
    <2> DEFINE g == frame[c]
               f == [g EXCEPT !.n = g.n + 1]
    <2>1. g \in Frame /\ g.n \in Nat \ {0} /\ Len(g.targets) = g.n /\ FrameTyped(g)
      BY <1>3 DEF ResumeBatch, Inv1, TypeOK, FramesOK, FrameOK, InFlight, Frame, TypesAgree
    <2>2. BatchNext(c, f) /\ Busy(c)
      BY <1>3 DEF ResumeBatch, Busy, InFlight
    <2> HIDE DEF g
    <2>3. /\ f \in Frame /\ f.n \in Nat \ {0} /\ Len(f.targets) = f.n - 1
          /\ f.targets = g.targets /\ f.events = g.events
      <3>1. ASSUME NEW k \in Nat
            PROVE  LET h == [g EXCEPT !.n = k]
                   IN  h \in Frame /\ h.n = k /\ h.targets = g.targets /\ h.events = g.events
        BY <2>1 DEF Frame
      <3>2. g.n + 1 \in Nat \ {0} /\ g.n + 1 - 1 = g.n
        BY <2>1
      <3>3. QED
        BY <2>1, <3>1, <3>2
    <2> HIDE DEF f
    <2>4. FrameTyped(f)
      BY <2>1, <2>3 DEF FrameTyped
    <2>5. QED
      BY <2>2, <2>3, <2>4, SimBatchNext
  <1>4. ASSUME NEW c \in Calls, ResumeFanOut(c) PROVE AbstractStep
    <2>1. /\ frame[c] \in Frame /\ FrameTyped(frame[c]) /\ Busy(c)
          /\ frame[c].n \in 1 .. Len(frame[c].events) /\ Len(frame[c].targets) = frame[c].n
          /\ frame[c].i \in 1 .. Len(frame[c].targets[frame[c].n]) + 1
      BY <1>4 DEF ResumeFanOut, Inv1, TypeOK, FramesOK, FrameOK, InFlight, TypesAgree, Busy
    <2>2. QED
      BY <1>0, <1>4, <2>1, SimDeliverNext DEF ResumeFanOut
  <1>5. ASSUME NEW c \in Calls, pc[c] \in {"running", "capturing"}, NEW how \in How \ {"deduped"},
               log' = [log EXCEPT ![c] = Append(@, OutcomeOf(frame[c], how))],
               pc' = [pc EXCEPT ![c] = IF how = "lost" THEN "rejected" ELSE "fanout"]
        PROVE  AbstractStep
    <2>1. /\ frame[c] \in Frame /\ FrameTyped(frame[c]) /\ Busy(c)
          /\ frame[c].n \in 1 .. Len(frame[c].events) /\ Len(frame[c].targets) = frame[c].n
          /\ frame[c].i \in 1 .. Len(frame[c].targets[frame[c].n])
      BY <1>5 DEF Inv1, TypeOK, FramesOK, FrameOK, InFlight, TypesAgree, Busy
    <2>2. QED
      BY <1>0, <1>5, <2>1, SimDeliver
  <1>6. ASSUME NEW c \in Calls, pc[c] \in {"running", "capturing"},
               NEW how \in {"handled", "captured", "dropped"}, EndDelivery(c, frame[c], how)
        PROVE  AbstractStep
    <2>1. how \in How \ {"deduped"} /\ how # "lost"
      BY DEF How
    <2>2. QED
      BY <1>5, <1>6, <2>1 DEF EndDelivery
  <1>7. ASSUME NEW c \in Calls, HandlerSucceeds(c) \/ SinkCaptures(c) PROVE AbstractStep
    BY <1>6, <1>7 DEF HandlerSucceeds, SinkCaptures
  <1>8. ASSUME NEW c \in Calls, HandlerThrows(c) PROVE AbstractStep
    <2>1. CASE pc' = [pc EXCEPT ![c] = "capturing"] /\ UNCHANGED log
      BY <1>0, <1>8, <2>1, SimOpen DEF HandlerThrows, Busy, InFlight
    <2>2. CASE EndDelivery(c, frame[c], "dropped")
      BY <1>6, <1>8, <2>2 DEF HandlerThrows
    <2>3. QED
      BY <1>1, <1>8, <2>1, <2>2 DEF HandlerThrows
  <1>9. ASSUME NEW c \in Calls, SinkRejects(c) PROVE AbstractStep
    <2>1. "lost" \in How \ {"deduped"}
      BY DEF How
    <2>2. QED
      BY <1>5, <1>9, <2>1 DEF SinkRejects
  <1>10. ASSUME NEW s \in Subs, Subscribe(s) \/ Unsubscribe(s) PROVE AbstractStep
    BY <1>1, <1>10 DEF Subscribe, Unsubscribe
  <1>11. CASE UNCHANGED vars
    BY <1>1, <1>11 DEF vars
  <1>12. QED
    BY <1>2, <1>3, <1>4, <1>7, <1>8, <1>9, <1>10, <1>11 DEF Next, Bus, Finished

LEMMA SimInit == Init => Delivery!Init
  <1> SUFFICES ASSUME Init PROVE Delivery!Init
    OBVIOUS
  <1>1. \A c \in Calls : log[c] = <<>> /\ pc[c] = "idle"
    BY DEF Init
  <1>2. [k \in DOMAIN <<>> |-> Entry(<<>>[k])] = <<>>
    <2>1. DOMAIN <<>> = {}
      OBVIOUS
    <2>2. QED
      BY <2>1
  <1>3. \A c \in Calls : [k \in DOMAIN log[c] |-> Entry(log[c][k])] = <<>> /\ Status(c) = "idle"
    <2>1. \A c \in Calls : [k \in DOMAIN log[c] |-> Entry(log[c][k])] = <<>>
      BY <1>1, <1>2
    <2>2. \A c \in Calls : Status(c) = "idle"
      BY <1>1 DEF Status, InFlight
    <2>3. QED
      BY <2>1, <2>2
  <1>4. QED
    BY <1>3 DEF Delivery!Init

\* Whatever the number of calls, subscriptions, attempts and the sink, the bus
\* is an implementation of the abstract delivery.
THEOREM BusImplementsDelivery == Spec => ImplementsDelivery
  <1>1. Init => Inv1 /\ SeenWasHandled /\ DedupeLosesNothing /\ TypesAgree
    <2>1. Init => SeenWasHandled /\ DedupeLosesNothing
      BY DEF Init, SeenWasHandled, DedupeLosesNothing, Entries
    <2>2. Init => TypesAgree
      <3>1. DOMAIN <<>> = {}
        OBVIOUS
      <3>2. QED
        BY <3>1 DEF Init, TypesAgree, OfType, FrameTyped, EmptyFrame
    <2>3. QED
      BY <2>1, <2>2, InitInv1
  <1>2. Inv1 /\ SeenWasHandled /\ DedupeLosesNothing /\ TypesAgree /\ [Next]_vars
          => Inv1' /\ SeenWasHandled' /\ DedupeLosesNothing' /\ TypesAgree'
    BY NextInv1, NextSeen, NextTypesAgree
  <1>3. Spec => [](Inv1 /\ SeenWasHandled /\ TypesAgree)
    BY <1>1, <1>2, PTL DEF Spec
  <1>4. Inv1 /\ SeenWasHandled /\ TypesAgree /\ [Next]_vars => [Delivery!Next]_(Delivery!vars)
    BY SimNext DEF AbstractStep
  <1>5. QED
    BY <1>3, <1>4, SimInit, PTL DEF Spec, ImplementsDelivery, Delivery!Spec
=============================================================================

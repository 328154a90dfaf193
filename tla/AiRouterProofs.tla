--------------------------- MODULE AiRouterProofs ---------------------------
(* Theorems about AiRouter, for every value of its constants.              *)
EXTENDS AiRouter, SequenceTheorems, TLAPS

USE RouterAssumption

(***************************************************************************)
(* The inductive strengthening of TypeOK: a route in flight stands at one  *)
(* of its candidates.                                                      *)
(***************************************************************************)
Standing(r) == pc[r] \in InFlight => frame[r].i \in 1 .. Len(frame[r].candidates)

Inv1 == TypeOK /\ \A r \in Routes : Standing(r)

\* The registry's lists stay lists of providers.
LEMMA UpsertTyped ==
  ASSUME NEW list \in Seq(Providers), NEW p \in Providers
  PROVE  upsertByName(list, p) \in Seq(Providers)
  <1> DEFINE same == {k \in DOMAIN list : list[k].name = p.name}
  <1>1. CASE same = {}
    BY <1>1 DEF upsertByName
  <1>2. CASE same # {}
    <2>1. PICK k \in 1 .. Len(list) : k = (CHOOSE j \in same : TRUE)
      BY <1>2
    <2>2. RemoveAt(list, k) \in Seq(Providers)
      BY DEF RemoveAt
    <2>3. upsertByName(list, p) = Append(RemoveAt(list, k), p)
      BY <1>2, <2>1 DEF upsertByName
    <2>4. QED
      BY <2>2, <2>3
  <1>3. QED
    BY <1>1, <1>2

\* A route function's candidates are providers of the registry's lists.
LEMMA CandidatesTyped ==
  ASSUME TypeOK, NEW op \in Operations
  PROVE  Candidates(op) \in Seq(Lists \X Providers)
  <1>1. ASSUME NEW l \in Lists PROVE From(l) \in Seq(Lists \X Providers)
    <2>1. registry[l] \in Seq(Providers)
      BY DEF TypeOK
    <2>2. \A k \in 1 .. Len(registry[l]) : registry[l][k] \in Providers
      BY <2>1, ElementOfSeq
    <2>3. QED
      BY <2>1, <2>2 DEF From
  <1>2. {"text", "image", "threeD", "aiRec", "humanRec"} = Lists
    BY DEF Lists
  <1>3. From("aiRec") \o From("humanRec") \in Seq(Lists \X Providers)
    BY <1>1, <1>2
  <1>4. QED
    BY <1>1, <1>2, <1>3 DEF Candidates

\* The loop's turn at f: where the route then stands.
LEMMA TryCandidateMoves ==
  ASSUME TypeOK, NEW r \in Routes, NEW f \in Frame,
         f.i \in Nat \ {0}, TryCandidate(r, f)
  PROVE  /\ pc' = [pc EXCEPT ![r] = pc'[r]] /\ frame' = [frame EXCEPT ![r] = frame'[r]]
         /\ frame'[r] \in Frame
         /\ frame'[r].candidates = f.candidates /\ frame'[r].i = f.i
         /\ frame'[r].attempts = f.attempts /\ frame'[r].result = f.result
         /\ frame'[r].op = f.op
         /\ \/ pc'[r] = "exhausted" /\ f.i > Len(f.candidates)
            \/ /\ pc'[r] = "checking"
               /\ f.i \in 1 .. Len(f.candidates)
               /\ frame'[r].under = policy
               /\ frame'[r].verdict = Verdict(f)
  <1>1. CASE f.i > Len(f.candidates)
    <2>1. pc' = [pc EXCEPT ![r] = "exhausted"] /\ frame' = [frame EXCEPT ![r] = f]
      BY <1>1 DEF TryCandidate, Frame
    <2>2. QED
      BY <1>1, <2>1 DEF TypeOK
  <1>2. CASE f.i <= Len(f.candidates)
    <2> DEFINE g == [f EXCEPT !.verdict = Verdict(f), !.under = policy]
    <2>1. pc' = [pc EXCEPT ![r] = "checking"] /\ frame' = [frame EXCEPT ![r] = g]
      BY <1>2 DEF TryCandidate, Frame
    <2>2. Verdict(f) \in {"blocked", "unimplemented", "asked"}
      BY DEF Verdict
    <2>3. /\ g \in Frame /\ g.candidates = f.candidates /\ g.i = f.i
          /\ g.attempts = f.attempts /\ g.result = f.result /\ g.op = f.op
          /\ g.under = policy /\ g.verdict = Verdict(f)
      BY <2>2 DEF Frame, TypeOK
    <2> HIDE DEF g
    <2>4. pc'[r] = "checking" /\ frame'[r] = g
      BY <2>1 DEF TypeOK
    <2>5. f.i \in 1 .. Len(f.candidates)
      BY <1>2 DEF Frame
    <2>6. QED
      BY <2>1, <2>3, <2>4, <2>5
  <1>3. QED
    BY <1>1, <1>2 DEF Frame

\* The frame a failure leaves for the next turn.
LEMMA FallThroughMoves ==
  ASSUME Inv1, NEW r \in Routes, pc[r] \in InFlight, NEW reason \in Reason,
         FallThrough(r, reason)
  PROVE  \E f \in Frame :
           /\ f.candidates = frame[r].candidates /\ f.i = frame[r].i + 1
           /\ f.attempts = Append(frame[r].attempts, Failure(frame[r], reason))
           /\ f.result = frame[r].result
           /\ Failure(frame[r], reason) \in Attempt
           /\ f.i \in Nat \ {0}
           /\ TryCandidate(r, f)
  <1> DEFINE old == frame[r]
             failed == Append(old.attempts, Failure(old, reason))
             h(k) == [old EXCEPT !.attempts = failed, !.i = k]
  <1>1. old \in Frame /\ old.i \in 1 .. Len(old.candidates)
    BY DEF Inv1, TypeOK, Standing, InFlight
  <1>2. Current(old) \in Lists \X Providers
    <2>1. old.candidates \in Seq(Lists \X Providers)
      BY <1>1 DEF Frame
    <2>2. QED
      BY <1>1, <2>1, ElementOfSeq DEF Current
  <1>3. Failure(old, reason) \in Attempt
    BY <1>2 DEF Failure, Attempt
  <1>4. failed \in Seq(Attempt)
    BY <1>1, <1>3 DEF Frame
  <1>5. ASSUME NEW k \in Nat
        PROVE  /\ h(k) \in Frame /\ h(k).candidates = old.candidates /\ h(k).i = k
               /\ h(k).attempts = failed /\ h(k).result = old.result
    <2> HIDE DEF failed
    <2>1. QED
      BY <1>1, <1>4 DEF Frame
  <1>6. old.i + 1 \in Nat \ {0}
    BY <1>1 DEF Frame
  <1>7. TryCandidate(r, h(old.i + 1))
    BY DEF FallThrough
  <1> HIDE DEF h
  <1>8. QED
    BY <1>3, <1>5, <1>6, <1>7

-----------------------------------------------------------------------------
(* Every step as the moves of the routes it leaves in another place.       *)

\* Route r begins, or falls through a candidate, and takes a turn of the loop.
Began(r) ==
  /\ pc[r] = "idle"
  /\ \E f \in Frame : /\ f.i = 1 /\ f.attempts = <<>> /\ f.result = 0
                      /\ \E op \in Operations : f.candidates = Candidates(op)
                      /\ TryCandidate(r, f)

FellBy(r, reason) ==
  /\ FallThrough(r, reason)
  /\ \/ pc[r] = "checking" /\ reason \in Refusals
     \/ pc[r] = "executing" /\ reason \in Failures

Fell(r) == pc[r] \in InFlight /\ \E reason \in Reason : FellBy(r, reason)

\* Route r dispatches its candidate, or returns that candidate's answer.
Dispatched(r) ==
  /\ pc[r] = "checking" /\ frame[r].verdict = "asked"
  /\ pc' = [pc EXCEPT ![r] = "executing"] /\ frame' = frame

Returned(r) == ExecuteSucceeds(r)

Moves(r) == Began(r) \/ Fell(r) \/ Dispatched(r) \/ Returned(r)

LEMMA StepMoves ==
  ASSUME Inv1, [Next]_vars
  PROVE  (pc' = pc /\ frame' = frame) \/ \E r \in Routes : Moves(r)
  <1>1. ASSUME NEW l \in Lists, NEW p \in Offered[l], Register(l, p)
        PROVE  pc' = pc /\ frame' = frame
    BY <1>1 DEF Register
  <1>2. ASSUME NEW q \in Policies, UpdatePolicy(q)
        PROVE  pc' = pc /\ frame' = frame
    BY <1>2 DEF UpdatePolicy
  <1>3. ASSUME NEW r \in Routes, NEW op \in Operations, Route(r, op)
        PROVE  Began(r)
    <2> DEFINE f == [candidates |-> Candidates(op), i |-> 1, op |-> op, verdict |-> "asked",
                     under |-> policy, attempts |-> <<>>, result |-> 0]
    <2>1. f \in Frame
      BY CandidatesTyped DEF Inv1, TypeOK, Frame
    <2>2. f.i = 1 /\ f.attempts = <<>> /\ f.result = 0 /\ f.candidates = Candidates(op)
      OBVIOUS
    <2>3. pc[r] = "idle" /\ TryCandidate(r, f)
      BY <1>3 DEF Route
    <2> HIDE DEF f
    <2>4. QED
      BY <2>1, <2>2, <2>3 DEF Began
  <1>4. ASSUME NEW r \in Routes, Check(r)
        PROVE  Fell(r) \/ Dispatched(r)
    <2>1. CASE CheckBlocked(r)
      BY <2>1 DEF CheckBlocked, Fell, FellBy, InFlight, Reason, Refusals
    <2>2. CASE CheckUnavailable(r)
      BY <2>2 DEF CheckUnavailable, Fell, FellBy, InFlight, Reason, Refusals
    <2>3. CASE CheckAvailable(r)
      BY <2>3 DEF CheckAvailable, Dispatched
    <2>4. QED
      BY <1>4, <2>1, <2>2, <2>3 DEF Check
  <1>5. ASSUME NEW r \in Routes, Execute(r) \/ ExecuteTimesOut(r)
        PROVE  Fell(r) \/ Returned(r)
    <2>1. CASE ExecuteSucceeds(r)
      BY <2>1 DEF Returned
    <2>2. CASE ExecuteFails(r)
      BY <2>2 DEF ExecuteFails, Fell, FellBy, InFlight, Reason, Failures
    <2>3. CASE ExecuteTimesOut(r)
      BY <2>3 DEF ExecuteTimesOut, Fell, FellBy, InFlight, Reason, Failures
    <2>4. QED
      BY <1>5, <2>1, <2>2, <2>3 DEF Execute
  <1>6. ASSUME NEW r \in Routes, LateSettles(r)
        PROVE  pc' = pc /\ frame' = frame
    BY <1>6 DEF LateSettles
  <1>7. CASE UNCHANGED vars
    BY <1>7 DEF vars
  <1>8. QED
    BY <1>1, <1>2, <1>3, <1>4, <1>5, <1>6, <1>7 DEF Next, Moves

\* A move of r leaves the other routes where they are and r in a frame.
LEMMA MoveTyped ==
  ASSUME Inv1, NEW r \in Routes, Moves(r)
  PROVE  /\ pc' = [pc EXCEPT ![r] = pc'[r]] /\ frame' = [frame EXCEPT ![r] = frame'[r]]
         /\ pc'[r] \in PC /\ frame'[r] \in Frame /\ Standing(r)'
  <1>1. ASSUME NEW f \in Frame, f.i \in Nat \ {0}, TryCandidate(r, f)
        PROVE  /\ pc' = [pc EXCEPT ![r] = pc'[r]] /\ frame' = [frame EXCEPT ![r] = frame'[r]]
               /\ pc'[r] \in PC /\ frame'[r] \in Frame /\ Standing(r)'
    BY <1>1, TryCandidateMoves DEF Inv1, PC, InFlight, Standing
  <1>2. CASE Began(r)
    BY <1>1, <1>2 DEF Began
  <1>3. CASE Fell(r)
    BY <1>1, <1>3, FallThroughMoves DEF Fell, FellBy
  <1>4. CASE Dispatched(r)
    BY <1>4 DEF Dispatched, Inv1, TypeOK, PC, InFlight, Standing
  <1>5. CASE Returned(r)
    <2> DEFINE old == frame[r]
               won == [candidate |-> Current(old), success |-> TRUE, reason |-> "none"]
    <2>1. old \in Frame /\ old.i \in 1 .. Len(old.candidates)
      BY <1>5 DEF Returned, ExecuteSucceeds, Inv1, TypeOK, Standing, InFlight
    <2>2. Current(old) \in Lists \X Providers
      <3>1. old.candidates \in Seq(Lists \X Providers)
        BY <2>1 DEF Frame
      <3>2. QED
        BY <2>1, <3>1, ElementOfSeq DEF Current
    <2>3. won \in Attempt
      BY <2>2 DEF Attempt
    <2>4. Append(old.attempts, won) \in Seq(Attempt)
      BY <2>1, <2>3 DEF Frame
    <2>5. /\ pc' = [pc EXCEPT ![r] = "resolved"]
          /\ frame' = [frame EXCEPT ![r] =
               [old EXCEPT !.attempts = Append(old.attempts, won), !.result = old.i]]
      BY <1>5, <2>1 DEF Returned, ExecuteSucceeds, Inv1, TypeOK, Frame
    <2> HIDE DEF won
    <2>6. [old EXCEPT !.attempts = Append(old.attempts, won), !.result = old.i] \in Frame
      BY <2>1, <2>4 DEF Frame
    <2>7. QED
      BY <2>5, <2>6 DEF Inv1, TypeOK, PC, InFlight, Standing
  <1>6. QED
    BY <1>2, <1>3, <1>4, <1>5 DEF Moves

-----------------------------------------------------------------------------

LEMMA InitInv1 == Init => Inv1
  BY DEF Init, Inv1, TypeOK, Standing, PC, InFlight

LEMMA NextInv1 == Inv1 /\ [Next]_vars => Inv1'
  <1> SUFFICES ASSUME Inv1, [Next]_vars PROVE Inv1'
    OBVIOUS
  <1>1. registry' \in [Lists -> Seq(Providers)]
    <2>1. ASSUME NEW l \in Lists, NEW p \in Offered[l], Register(l, p)
          PROVE  registry' \in [Lists -> Seq(Providers)]
      <3>1. upsertByName(registry[l], p) \in Seq(Providers)
        BY UpsertTyped DEF Inv1, TypeOK
      <3>2. QED
        BY <2>1, <3>1 DEF Register, Inv1, TypeOK
    <2>2. CASE registry' = registry
      BY <2>2 DEF Inv1, TypeOK
    <2>3. QED
      BY <2>1, <2>2 DEF Next, vars, UpdatePolicy, Route, Check, CheckBlocked, CheckUnavailable,
                        CheckAvailable, Execute, ExecuteSucceeds, ExecuteFails,
                        ExecuteTimesOut, LateSettles
  <1>2. policy' \in Policies
    BY DEF Inv1, TypeOK, Next, vars, Register, UpdatePolicy, Route, Check, CheckBlocked,
           CheckUnavailable, CheckAvailable, Execute, ExecuteSucceeds, ExecuteFails,
           ExecuteTimesOut, LateSettles
  <1>3. late' \in [Routes -> SUBSET Nat]
    <2>1. ASSUME NEW r \in Routes, ExecuteTimesOut(r) PROVE late' \in [Routes -> SUBSET Nat]
      <3>1. frame[r].i \in Nat
        BY <2>1 DEF ExecuteTimesOut, Inv1, TypeOK, Frame
      <3>2. QED
        BY <2>1, <3>1 DEF ExecuteTimesOut, Inv1, TypeOK
    <2>2. ASSUME NEW r \in Routes, LateSettles(r) PROVE late' \in [Routes -> SUBSET Nat]
      BY <2>2 DEF LateSettles, Inv1, TypeOK
    <2>3. CASE late' = late
      BY <2>3 DEF Inv1, TypeOK
    <2>4. QED
      BY <2>1, <2>2, <2>3 DEF Next, vars, Register, UpdatePolicy, Route, Check, CheckBlocked,
           CheckUnavailable, CheckAvailable, Execute, ExecuteSucceeds, ExecuteFails
  <1>4. stale' \in [Routes -> Nat]
    <2>1. ASSUME NEW r \in Routes, CheckAvailable(r) PROVE stale' \in [Routes -> Nat]
      BY <2>1 DEF CheckAvailable, Inv1, TypeOK
    <2>2. ASSUME NEW q \in Policies, UpdatePolicy(q) PROVE stale' \in [Routes -> Nat]
      BY <2>2 DEF UpdatePolicy
    <2>3. CASE stale' = stale
      BY <2>3 DEF Inv1, TypeOK
    <2>4. QED
      BY <2>1, <2>2, <2>3 DEF Next, vars, Register, Route, Check, CheckBlocked,
           CheckUnavailable, Execute, ExecuteSucceeds, ExecuteFails, ExecuteTimesOut, LateSettles
  <1>5. /\ pc' \in [Routes -> PC] /\ frame' \in [Routes -> Frame \cup {NoFrame}]
        /\ \A r \in Routes : (pc[r] # "idle" => frame[r] \in Frame)' /\ Standing(r)'
    <2>1. CASE pc' = pc /\ frame' = frame
      BY <2>1 DEF Inv1, TypeOK, Standing
    <2>2. ASSUME NEW r \in Routes, Moves(r)
          PROVE  /\ pc' \in [Routes -> PC] /\ frame' \in [Routes -> Frame \cup {NoFrame}]
                 /\ \A q \in Routes : (pc[q] # "idle" => frame[q] \in Frame)' /\ Standing(q)'
      <3>1. /\ pc' = [pc EXCEPT ![r] = pc'[r]] /\ frame' = [frame EXCEPT ![r] = frame'[r]]
            /\ pc'[r] \in PC /\ frame'[r] \in Frame /\ Standing(r)'
        BY <2>2, MoveTyped
      <3>2. \A q \in Routes \ {r} : pc'[q] = pc[q] /\ frame'[q] = frame[q]
        BY <3>1 DEF Inv1, TypeOK
      <3>3. QED
        BY <3>1, <3>2 DEF Inv1, TypeOK, Standing
    <2>3. QED
      BY <2>1, <2>2, StepMoves
  <1>6. QED
    BY <1>1, <1>2, <1>3, <1>4, <1>5 DEF Inv1, TypeOK

LEMMA Invariant1 == Spec => []Inv1
  BY InitInv1, NextInv1, PTL DEF Spec

\* Whatever is registered, and however the policy changes, every list stays a
\* list of providers and every route in flight stands at one of its candidates.
THEOREM RouterTypeCorrect == Spec => []TypeOK
  <1>1. Inv1 => TypeOK
    BY DEF Inv1
  <1>2. QED
    BY <1>1, Invariant1, PTL

-----------------------------------------------------------------------------
(***************************************************************************)
(* The attempt log.  LogInv is inductive together with Inv1: a failure     *)
(* appends the entry of the candidate the route stands at and steps on, so *)
(* the log is always one entry behind the position.                        *)
(***************************************************************************)
LogOK(r) ==
  pc[r] # "idle" =>
    LET f == frame[r] IN
    /\ \A k \in DOMAIN f.attempts : f.attempts[k].candidate = f.candidates[k]
    /\ \A k \in DOMAIN f.attempts : f.attempts[k].success => k = f.result
    /\ pc[r] \in InFlight => f.result = 0 /\ Len(f.attempts) = f.i - 1
    /\ pc[r] = "exhausted" => f.result = 0 /\ Len(f.attempts) = Len(f.candidates)
    /\ pc[r] = "resolved" =>
         /\ f.result = Len(f.attempts)
         /\ f.attempts[f.result].success

LogInv == \A r \in Routes : LogOK(r)

LEMMA MoveLog ==
  ASSUME Inv1, NEW r \in Routes, LogOK(r), Moves(r)
  PROVE  LogOK(r)'
  <1> DEFINE old == frame[r]
  <1>1. CASE Began(r)
    <2>1. PICK f \in Frame : f.i = 1 /\ f.attempts = <<>> /\ f.result = 0 /\ TryCandidate(r, f)
      BY <1>1 DEF Began
    <2>2. /\ frame'[r].attempts = <<>> /\ frame'[r].result = 0 /\ frame'[r].i = 1
          /\ frame'[r].candidates = f.candidates
          /\ \/ pc'[r] = "exhausted" /\ 1 > Len(f.candidates)
             \/ pc'[r] = "checking"
      BY <2>1, TryCandidateMoves DEF Inv1
    <2>3. Len(f.candidates) \in Nat
      BY DEF Frame
    <2>4. QED
      BY <2>2, <2>3 DEF LogOK, InFlight
  <1>2. CASE Fell(r)
    <2>1. PICK reason \in Reason : FallThrough(r, reason)
      BY <1>2 DEF Fell, FellBy
    <2> DEFINE failure == Failure(old, reason)
    <2>2. PICK f \in Frame :
            /\ f.candidates = old.candidates /\ f.i = old.i + 1
            /\ f.attempts = Append(old.attempts, failure)
            /\ f.result = old.result /\ f.i \in Nat \ {0}
            /\ TryCandidate(r, f)
      BY <1>2, <2>1, FallThroughMoves DEF Fell, FellBy
    <2>3. /\ frame'[r].attempts = Append(old.attempts, failure)
          /\ frame'[r].result = old.result /\ frame'[r].i = old.i + 1
          /\ frame'[r].candidates = old.candidates
          /\ \/ pc'[r] = "exhausted" /\ old.i + 1 > Len(old.candidates)
             \/ pc'[r] = "checking"
      BY <2>2, TryCandidateMoves DEF Inv1
    <2>4. /\ old.attempts \in Seq(Attempt) /\ old.i \in 1 .. Len(old.candidates)
          /\ old.result = 0 /\ Len(old.attempts) = old.i - 1
          /\ Len(old.candidates) \in Nat
      BY <1>2 DEF Fell, Inv1, TypeOK, Frame, Standing, LogOK, InFlight
    <2>5. failure.candidate = old.candidates[old.i] /\ ~failure.success
      BY DEF Failure, Current
    <2> HIDE DEF failure
    <2>6. /\ Len(frame'[r].attempts) = old.i
          /\ \A k \in 1 .. old.i - 1 : frame'[r].attempts[k] = old.attempts[k]
          /\ frame'[r].attempts[old.i] = failure
      BY <2>3, <2>4
    <2>7. DOMAIN frame'[r].attempts = 1 .. old.i
      BY <2>3, <2>4, <2>6
    <2>8. \A k \in 1 .. old.i :
            /\ frame'[r].attempts[k].candidate = old.candidates[k]
            /\ ~frame'[r].attempts[k].success
      <3>1. \A k \in 1 .. old.i - 1 :
              old.attempts[k].candidate = old.candidates[k] /\ ~old.attempts[k].success
        BY <1>2, <2>4 DEF LogOK, Fell, InFlight
      <3>2. \A k \in 1 .. old.i : k = old.i \/ k \in 1 .. old.i - 1
        BY <2>4 DEF Frame
      <3>3. QED
        BY <2>5, <2>6, <3>1, <3>2
    <2>9. /\ frame'[r].result = 0
          /\ Len(frame'[r].attempts) = frame'[r].i - 1
          /\ pc'[r] = "exhausted" => Len(frame'[r].attempts) = Len(frame'[r].candidates)
          /\ pc'[r] \in {"exhausted", "checking"}
      BY <2>3, <2>4, <2>6
    <2>10. /\ \A k \in DOMAIN frame'[r].attempts :
                 frame'[r].attempts[k].candidate = frame'[r].candidates[k]
           /\ \A k \in DOMAIN frame'[r].attempts : ~frame'[r].attempts[k].success
      BY <2>3, <2>7, <2>8
    <2>11. QED
      BY <2>9, <2>10 DEF LogOK, InFlight
  <1>3. CASE Dispatched(r)
    BY <1>3 DEF Dispatched, LogOK, InFlight, Inv1, TypeOK
  <1>4. CASE Returned(r)
    <2> DEFINE won == [candidate |-> Current(old), success |-> TRUE, reason |-> "none"]
    <2>1. /\ old \in Frame /\ old.attempts \in Seq(Attempt)
          /\ old.i \in 1 .. Len(old.candidates)
          /\ Len(old.attempts) = old.i - 1 /\ Len(old.candidates) \in Nat
          /\ pc[r] = "executing" /\ old.result = 0
      BY <1>4 DEF Returned, ExecuteSucceeds, Inv1, TypeOK, Frame, Standing, LogOK, InFlight
    <2>2. /\ pc'[r] = "resolved" /\ frame'[r].attempts = Append(old.attempts, won)
          /\ frame'[r].result = old.i /\ frame'[r].candidates = old.candidates
      BY <1>4, <2>1 DEF Returned, ExecuteSucceeds, Inv1, TypeOK, Frame
    <2>3. won.candidate = old.candidates[old.i] /\ won.success
      BY DEF Current
    <2> HIDE DEF won
    <2>4. /\ Len(frame'[r].attempts) = old.i /\ DOMAIN frame'[r].attempts = 1 .. old.i
          /\ \A k \in 1 .. old.i - 1 : frame'[r].attempts[k] = old.attempts[k]
          /\ frame'[r].attempts[old.i] = won
      BY <2>1, <2>2
    <2>5. \A k \in 1 .. old.i - 1 :
            old.attempts[k].candidate = old.candidates[k] /\ ~old.attempts[k].success
      BY <2>1 DEF LogOK
    <2>6. \A k \in 1 .. old.i :
            /\ frame'[r].attempts[k].candidate = old.candidates[k]
            /\ frame'[r].attempts[k].success => k = old.i
      <3>1. \A k \in 1 .. old.i : k = old.i \/ k \in 1 .. old.i - 1
        BY <2>1
      <3>2. QED
        BY <2>3, <2>4, <2>5, <3>1
    <2>7. /\ frame'[r].result = Len(frame'[r].attempts)
          /\ frame'[r].attempts[frame'[r].result].success
      BY <2>2, <2>3, <2>4
    <2>8. /\ \A k \in DOMAIN frame'[r].attempts :
                frame'[r].attempts[k].candidate = frame'[r].candidates[k]
          /\ \A k \in DOMAIN frame'[r].attempts :
                frame'[r].attempts[k].success => k = frame'[r].result
      BY <2>2, <2>4, <2>6
    <2>9. QED
      BY <2>2, <2>7, <2>8 DEF LogOK, InFlight
  <1>5. QED
    BY <1>1, <1>2, <1>3, <1>4 DEF Moves

LEMMA NextLog == Inv1 /\ LogInv /\ [Next]_vars => LogInv'
  <1> SUFFICES ASSUME Inv1, \A r \in Routes : LogOK(r), [Next]_vars
               PROVE  \A q \in Routes : LogOK(q)'
    BY DEF LogInv
  <1>1. CASE pc' = pc /\ frame' = frame
    BY <1>1 DEF LogOK
  <1>2. ASSUME NEW r \in Routes, Moves(r), NEW q \in Routes PROVE LogOK(q)'
    <2>1. CASE q = r
      BY <1>2, <2>1, MoveLog
    <2>2. CASE q # r
      <3>1. pc'[q] = pc[q] /\ frame'[q] = frame[q]
        BY <1>2, <2>2, MoveTyped DEF Inv1, TypeOK
      <3>2. QED
        BY <3>1 DEF LogOK
    <2>3. QED
      BY <2>1, <2>2
  <1>3. QED
    BY <1>1, <1>2, StepMoves

LEMMA LogInvariant == Spec => []LogInv
  <1>1. Init => LogInv
    BY DEF Init, LogInv, LogOK
  <1>2. QED
    BY <1>1, NextLog, Invariant1, PTL DEF Spec

-----------------------------------------------------------------------------
(***************************************************************************)
(* Privacy.  A route that waits for a check, or executes, was told "asked" *)
(* only under a policy that permits its provider; and a route that has     *)
(* already dispatched against the policy in force waits, if it waits for a *)
(* check, for one that was made under this very policy.                    *)
(***************************************************************************)
AskedPermitted(r) ==
  pc[r] \in InFlight /\ frame[r].verdict = "asked" =>
    Permits(frame[r].under, Provider(frame[r]))

ExecutingAsked(r) == pc[r] = "executing" => frame[r].verdict = "asked"

StaleSpent(r) ==
  stale[r] # 0 => stale[r] = 1 /\ (pc[r] = "checking" => frame[r].under = policy)

PrivacyInv ==
  \A r \in Routes : AskedPermitted(r) /\ ExecutingAsked(r) /\ StaleSpent(r)

\* A turn of the loop leaves the check of the policy of this moment.
LEMMA TryCandidatePrivate ==
  ASSUME Inv1, NEW r \in Routes, NEW f \in Frame, f.i \in Nat \ {0}, TryCandidate(r, f)
  PROVE  /\ AskedPermitted(r)' /\ ExecutingAsked(r)'
         /\ pc'[r] = "checking" => frame'[r].under = policy
         /\ pc'[r] # "executing"
  <1>1. CASE pc'[r] = "exhausted"
    BY <1>1 DEF AskedPermitted, ExecutingAsked, InFlight
  <1>2. CASE pc'[r] = "checking"
    <2>1. /\ frame'[r].candidates = f.candidates /\ frame'[r].i = f.i
          /\ frame'[r].under = policy /\ frame'[r].verdict = Verdict(f)
      BY <1>2, TryCandidateMoves DEF Inv1
    <2>2. Provider(frame[r])' = Provider(f)
      BY <2>1 DEF Provider, Current
    <2>3. Verdict(f) = "asked" => Permits(policy, Provider(f))
      BY DEF Verdict
    <2>4. AskedPermitted(r)'
      BY <2>1, <2>2, <2>3 DEF AskedPermitted
    <2>5. QED
      BY <1>2, <2>1, <2>4 DEF ExecutingAsked
  <1>3. QED
    BY <1>1, <1>2, TryCandidateMoves DEF Inv1

LEMMA MovePrivate ==
  ASSUME Inv1, NEW r \in Routes, AskedPermitted(r), ExecutingAsked(r), Moves(r)
  PROVE  /\ AskedPermitted(r)' /\ ExecutingAsked(r)'
         /\ pc'[r] = "checking" => frame'[r].under = policy
  <1>1. CASE Began(r)
    BY <1>1, TryCandidatePrivate DEF Began
  <1>2. CASE Fell(r)
    BY <1>2, FallThroughMoves, TryCandidatePrivate DEF Fell, FellBy
  <1>3. CASE Dispatched(r)
    <2>1. pc'[r] = "executing" /\ frame'[r] = frame[r] /\ pc[r] = "checking"
          /\ frame[r].verdict = "asked"
      BY <1>3 DEF Dispatched, Inv1, TypeOK
    <2>2. QED
      BY <2>1 DEF AskedPermitted, ExecutingAsked, InFlight, Provider, Current
  <1>4. CASE Returned(r)
    <2>1. pc'[r] = "resolved"
      BY <1>4 DEF Returned, ExecuteSucceeds, Inv1, TypeOK
    <2>2. QED
      BY <2>1 DEF AskedPermitted, ExecutingAsked, InFlight
  <1>5. QED
    BY <1>1, <1>2, <1>3, <1>4 DEF Moves

\* What a step does to the policy and to the count of stale dispatches.
LEMMA StepStale ==
  ASSUME Inv1, [Next]_vars
  PROVE  \/ pc' = pc /\ frame' = frame /\ stale' = [r \in Routes |-> 0]
         \/ policy' = policy /\ stale' = stale
         \/ \E r \in Routes :
              /\ Dispatched(r) /\ policy' = policy
              /\ ~Permits(policy, Provider(frame[r]))
              /\ stale' = [stale EXCEPT ![r] = stale[r] + 1]
  <1>1. ASSUME NEW r \in Routes, CheckAvailable(r)
        PROVE  \/ policy' = policy /\ stale' = stale
               \/ /\ Dispatched(r) /\ policy' = policy
                  /\ ~Permits(policy, Provider(frame[r]))
                  /\ stale' = [stale EXCEPT ![r] = stale[r] + 1]
    BY <1>1 DEF CheckAvailable, Dispatched
  <1>2. ASSUME NEW q \in Policies, UpdatePolicy(q)
        PROVE  pc' = pc /\ frame' = frame /\ stale' = [r \in Routes |-> 0]
    BY <1>2 DEF UpdatePolicy
  <1>3. QED
    BY <1>1, <1>2 DEF Next, vars, Register, Route, Check, CheckBlocked, CheckUnavailable,
         Execute, ExecuteSucceeds, ExecuteFails, ExecuteTimesOut, LateSettles

LEMMA NextPrivacy == Inv1 /\ PrivacyInv /\ [Next]_vars => PrivacyInv'
  <1> SUFFICES ASSUME Inv1, PrivacyInv, [Next]_vars, NEW q \in Routes
               PROVE  AskedPermitted(q)' /\ ExecutingAsked(q)' /\ StaleSpent(q)'
    BY DEF PrivacyInv
  <1>0. AskedPermitted(q) /\ ExecutingAsked(q) /\ StaleSpent(q)
    BY DEF PrivacyInv
  <1>1. \/ pc'[q] = pc[q] /\ frame'[q] = frame[q]
        \/ Moves(q)
    <2>1. ASSUME NEW r \in Routes, Moves(r), r # q
          PROVE  pc'[q] = pc[q] /\ frame'[q] = frame[q]
      BY <2>1, MoveTyped DEF Inv1, TypeOK
    <2>2. QED
      BY <2>1, StepMoves
  <1>2. AskedPermitted(q)' /\ ExecutingAsked(q)'
    <2>1. CASE pc'[q] = pc[q] /\ frame'[q] = frame[q]
      BY <1>0, <2>1 DEF AskedPermitted, ExecutingAsked, Provider, Current
    <2>2. CASE Moves(q)
      BY <1>0, <2>2, MovePrivate
    <2>3. QED
      BY <1>1, <2>1, <2>2
  <1>3. StaleSpent(q)'
    <2>1. CASE stale'[q] = 0
      BY <2>1 DEF StaleSpent
    <2>2. CASE policy' = policy /\ stale'[q] = stale[q]
      <3>1. CASE pc'[q] = pc[q] /\ frame'[q] = frame[q]
        BY <1>0, <2>2, <3>1 DEF StaleSpent
      <3>2. CASE Moves(q)
        BY <1>0, <2>2, <3>2, MovePrivate DEF StaleSpent
      <3>3. QED
        BY <1>1, <3>1, <3>2
    <2>3. CASE /\ Dispatched(q) /\ policy' = policy
               /\ ~Permits(policy, Provider(frame[q]))
               /\ stale'[q] = stale[q] + 1
      <3>1. pc[q] = "checking" /\ frame[q].verdict = "asked" /\ pc'[q] = "executing"
        BY <2>3 DEF Dispatched, Inv1, TypeOK
      <3>2. frame[q].under # policy
        BY <1>0, <2>3, <3>1 DEF AskedPermitted, InFlight
      <3>3. stale[q] = 0
        BY <1>0, <3>1, <3>2 DEF StaleSpent
      <3>4. QED
        BY <2>3, <3>1, <3>3 DEF StaleSpent
    <2>4. QED
      <3>1. ASSUME NEW r \in Routes, Dispatched(r), policy' = policy,
                   ~Permits(policy, Provider(frame[r])),
                   stale' = [stale EXCEPT ![r] = stale[r] + 1], r # q
            PROVE  policy' = policy /\ stale'[q] = stale[q]
        BY <3>1 DEF Inv1, TypeOK
      <3>2. ASSUME stale' = [stale EXCEPT ![q] = stale[q] + 1] PROVE stale'[q] = stale[q] + 1
        BY <3>2 DEF Inv1, TypeOK
      <3>3. ASSUME stale' = [r \in Routes |-> 0] PROVE stale'[q] = 0
        BY <3>3
      <3>4. QED
        BY <2>1, <2>2, <2>3, <3>1, <3>2, <3>3, StepStale
  <1>4. QED
    BY <1>2, <1>3

LEMMA InvariantPrivacy == Spec => []PrivacyInv
  <1>1. Init => PrivacyInv
    BY DEF Init, PrivacyInv, AskedPermitted, ExecutingAsked, StaleSpent, InFlight
  <1>2. QED
    BY <1>1, NextPrivacy, Invariant1, PTL DEF Spec

\* However often the policy changes, each change lets a route under way dispatch
\* at most one candidate the new policy forbids.
THEOREM StaleDispatchBounded == Spec => []StaleDispatchAtMostOnce
  <1>1. PrivacyInv => StaleDispatchAtMostOnce
    BY DEF PrivacyInv, StaleSpent, StaleDispatchAtMostOnce
  <1>2. QED
    BY <1>1, InvariantPrivacy, PTL

\* The default human policy is one such: it blocks every well-known family but
\* "human" itself.
LEMMA HumanDefaultBlocks ==
  ProviderFamilies \ {"human"} \subseteq defaultPolicyForMode("human").blockedFamilies
  BY DEF ProviderFamilies, CLOUD_FAMILIES, defaultPolicyForMode

\* Under well-known families, and human policies that block all of them but
\* "human", no automated provider is dispatched on a human policy's word,
\* whatever its allow-list says.
THEOREM HumanModeCorrect ==
  ASSUME \A p \in Providers : p.family \in ProviderFamilies,
         \A q \in Policies : q.mode = "human" =>
           ProviderFamilies \ {"human"} \subseteq q.blockedFamilies
  PROVE  Spec => []HumanModeIsHuman
  <1>1. Inv1 /\ PrivacyInv => HumanModeIsHuman
    <2> SUFFICES ASSUME Inv1, PrivacyInv, NEW r \in Routes, pc[r] = "executing",
                        frame[r].under.mode = "human"
                 PROVE  Provider(frame[r]).family = "human"
      BY DEF HumanModeIsHuman
    <2>1. frame[r] \in Frame /\ frame[r].i \in 1 .. Len(frame[r].candidates)
      BY DEF Inv1, TypeOK, Standing, InFlight
    <2>2. Provider(frame[r]) \in Providers
      <3>1. frame[r].candidates \in Seq(Lists \X Providers)
        BY <2>1 DEF Frame
      <3>2. frame[r].candidates[frame[r].i] \in Lists \X Providers
        BY <2>1, <3>1, ElementOfSeq
      <3>3. QED
        BY <3>2 DEF Provider, Current
    <2>3. frame[r].under \in Policies
      BY <2>1 DEF Frame
    <2>4. Permits(frame[r].under, Provider(frame[r]))
      BY DEF PrivacyInv, AskedPermitted, ExecutingAsked, InFlight
    <2>5. QED
      BY <2>2, <2>3, <2>4 DEF Permits
  <1>2. QED
    BY <1>1, Invariant1, InvariantPrivacy, PTL

-----------------------------------------------------------------------------
(***************************************************************************)
(* No provider is tried twice: a list of the registry never holds a name   *)
(* twice, so neither do the candidates a route copied from it.             *)
(***************************************************************************)
Distinct(list) == \A j, k \in DOMAIN list : list[j].name = list[k].name => j = k

OnceAiFirst(candidates) ==
  \A j, k \in DOMAIN candidates : j < k => MayPrecede(candidates[j], candidates[k])

RegistryDistinct == \A l \in Lists : Distinct(registry[l])

Drawn(r) ==
  pc[r] # "idle" => /\ OnceAiFirst(frame[r].candidates)
                    /\ Len(frame[r].attempts) <= Len(frame[r].candidates)

TriedInv == RegistryDistinct /\ \A r \in Routes : Drawn(r)

\* What is left when an element is taken out.
LEMMA RemoveAtIs ==
  ASSUME NEW S, NEW q \in Seq(S), NEW k \in 1 .. Len(q)
  PROVE  /\ RemoveAt(q, k) \in Seq(S) /\ Len(RemoveAt(q, k)) = Len(q) - 1
         /\ \A i \in 1 .. Len(q) - 1 : /\ i < k => RemoveAt(q, k)[i] = q[i]
                                       /\ i >= k => RemoveAt(q, k)[i] = q[i + 1]
  <1> DEFINE a == SubSeq(q, 1, k - 1)
             b == SubSeq(q, k + 1, Len(q))
  <1>1. Len(q) \in Nat /\ \A j \in 1 .. Len(q) : q[j] \in S
    BY ElementOfSeq
  <1>2. /\ a \in Seq(S) /\ Len(a) = k - 1 /\ \A j \in 1 .. k - 1 : a[j] = q[j]
        /\ b \in Seq(S) /\ Len(b) = Len(q) - k
        /\ \A j \in 1 .. Len(q) - k : b[j] = q[k + j]
    BY <1>1, SubSeqProperties
  <1> HIDE DEF a, b
  <1>3. /\ a \o b \in Seq(S) /\ Len(a \o b) = Len(a) + Len(b)
        /\ \A j \in 1 .. Len(a) + Len(b) : (a \o b)[j] = IF j <= Len(a) THEN a[j] ELSE b[j - Len(a)]
    BY <1>2, ConcatProperties
  <1>4. RemoveAt(q, k) = a \o b
    BY DEF RemoveAt, a, b
  <1>5. ASSUME NEW i \in 1 .. Len(q) - 1, i < k PROVE (a \o b)[i] = q[i]
    <2>1. i <= Len(a) /\ i \in 1 .. k - 1 /\ i \in 1 .. Len(a) + Len(b)
      BY <1>1, <1>2, <1>5
    <2>2. QED
      BY <1>2, <1>3, <2>1
  <1>6. ASSUME NEW i \in 1 .. Len(q) - 1, i >= k PROVE (a \o b)[i] = q[i + 1]
    <2>1. /\ ~(i <= Len(a)) /\ i \in 1 .. Len(a) + Len(b)
          /\ i - Len(a) \in 1 .. Len(q) - k /\ k + (i - Len(a)) = i + 1
      BY <1>1, <1>2, <1>6
    <2>2. (a \o b)[i] = b[i - Len(a)]
      BY <1>3, <2>1
    <2>3. QED
      BY <1>2, <2>1, <2>2
  <1>7. Len(a) + Len(b) = Len(q) - 1
    BY <1>1, <1>2
  <1>8. QED
    BY <1>3, <1>4, <1>5, <1>6, <1>7

\* upsertByName keeps the names of a list distinct.
LEMMA UpsertDistinct ==
  ASSUME NEW list \in Seq(Providers), Distinct(list), NEW p \in Providers
  PROVE  Distinct(upsertByName(list, p))
  <1> DEFINE same == {k \in DOMAIN list : list[k].name = p.name}
  <1>1. ASSUME NEW rest \in Seq(Providers), Distinct(rest),
               \A k \in DOMAIN rest : rest[k].name # p.name
        PROVE  Distinct(Append(rest, p))
    <2>1. /\ Append(rest, p) \in Seq(Providers) /\ Len(rest) \in Nat
          /\ Len(Append(rest, p)) = Len(rest) + 1
          /\ \A k \in 1 .. Len(rest) : Append(rest, p)[k] = rest[k]
          /\ Append(rest, p)[Len(rest) + 1] = p
      BY AppendProperties
    <2>2. DOMAIN rest = 1 .. Len(rest) /\ DOMAIN Append(rest, p) = 1 .. Len(rest) + 1
      BY <2>1, LenProperties
    <2>3. \A k \in 1 .. Len(rest) + 1 : k = Len(rest) + 1 \/ k \in 1 .. Len(rest)
      BY <2>1
    <2>4. QED
      BY <1>1, <2>1, <2>2, <2>3 DEF Distinct
  <1>2. CASE same = {}
    BY <1>1, <1>2 DEF upsertByName
  <1>3. CASE same # {}
    <2>1. PICK k \in 1 .. Len(list) : k = (CHOOSE j \in same : TRUE) /\ k \in same
      BY <1>3
    <2> DEFINE rest == RemoveAt(list, k)
    <2>2. upsertByName(list, p) = Append(rest, p)
      BY <1>3, <2>1 DEF upsertByName
    <2>3. /\ rest \in Seq(Providers) /\ Len(rest) = Len(list) - 1 /\ Len(list) \in Nat
          /\ \A i \in 1 .. Len(list) - 1 : /\ i < k => rest[i] = list[i]
                                           /\ i >= k => rest[i] = list[i + 1]
      BY RemoveAtIs
    <2>4. DOMAIN rest = 1 .. Len(list) - 1 /\ DOMAIN list = 1 .. Len(list)
      BY <2>3, LenProperties
    <2> HIDE DEF rest
    <2> DEFINE place(i) == IF i < k THEN i ELSE i + 1
    <2>5. \A i \in 1 .. Len(list) - 1 :
            place(i) \in (1 .. Len(list)) \ {k} /\ rest[i] = list[place(i)]
      BY <2>3
    <2>6. \A i, j \in 1 .. Len(list) - 1 : place(i) = place(j) => i = j
      BY <2>3
    <2> HIDE DEF place
    <2>7. Distinct(rest)
      BY <2>4, <2>5, <2>6 DEF Distinct
    <2>8. \A i \in DOMAIN rest : rest[i].name # p.name
      <3>1. list[k].name = p.name
        BY <2>1
      <3>2. QED
        BY <2>4, <2>5, <3>1 DEF Distinct
    <2>9. QED
      BY <1>1, <2>2, <2>3, <2>7, <2>8
  <1>4. QED
    BY <1>2, <1>3

\* What a route function passes on has every name of a list once, AI first.
LEMMA CandidatesOnce ==
  ASSUME TypeOK, RegistryDistinct, NEW op \in Operations
  PROVE  OnceAiFirst(Candidates(op))
  <1>1. ASSUME NEW l \in Lists
        PROVE  /\ From(l) \in Seq(Lists \X Providers)
               /\ Len(From(l)) \in Nat /\ DOMAIN From(l) = 1 .. Len(From(l))
               /\ \A k \in 1 .. Len(From(l)) : From(l)[k][1] = l
               /\ \A j, k \in 1 .. Len(From(l)) :
                    From(l)[j][2].name = From(l)[k][2].name => j = k
    <2>1. /\ registry[l] \in Seq(Providers) /\ Distinct(registry[l])
          /\ DOMAIN registry[l] = 1 .. Len(registry[l]) /\ Len(registry[l]) \in Nat
      BY LenProperties DEF TypeOK, RegistryDistinct
    <2>2. \A k \in 1 .. Len(registry[l]) : registry[l][k] \in Providers
      BY <2>1, ElementOfSeq
    <2>3. /\ From(l) \in Seq(Lists \X Providers) /\ Len(From(l)) = Len(registry[l])
          /\ DOMAIN From(l) = 1 .. Len(registry[l])
      BY <2>1, <2>2 DEF From
    <2>4. \A k \in 1 .. Len(registry[l]) : From(l)[k][1] = l /\ From(l)[k][2] = registry[l][k]
      BY <2>1 DEF From
    <2>5. \A j, k \in 1 .. Len(registry[l]) :
            From(l)[j][2].name = From(l)[k][2].name => j = k
      <3>1. \A j, k \in 1 .. Len(registry[l]) : registry[l][j].name = registry[l][k].name => j = k
        BY <2>1 DEF Distinct
      <3>2. QED
        BY <2>4, <3>1
    <2> HIDE DEF From
    <2>6. QED
      BY <2>1, <2>3, <2>4, <2>5
  <1>2. {"text", "image", "threeD", "aiRec", "humanRec"} = Lists
    BY DEF Lists
  <1>3. ASSUME NEW l \in Lists PROVE OnceAiFirst(From(l))
    <2> DEFINE a == From(l)
    <2>1. /\ DOMAIN a = 1 .. Len(a) /\ Len(a) \in Nat /\ \A k \in 1 .. Len(a) : a[k][1] = l
          /\ \A j, k \in 1 .. Len(a) : a[j][2].name = a[k][2].name => j = k
      BY <1>1
    <2> HIDE DEF a
    <2>2. \A j, k \in 1 .. Len(a) : j < k =>
            /\ a[j][2].name # a[k][2].name
            /\ ~(a[j][1] = "humanRec" /\ a[k][1] = "aiRec")
      BY <2>1
    <2>3. QED
      BY <2>1, <2>2 DEF OnceAiFirst, MayPrecede, a
  <1>4. OnceAiFirst(From("aiRec") \o From("humanRec"))
    <2> DEFINE a == From("aiRec")
               b == From("humanRec")
    <2>1. /\ a \in Seq(Lists \X Providers) /\ Len(a) \in Nat /\ DOMAIN a = 1 .. Len(a)
          /\ \A k \in 1 .. Len(a) : a[k][1] = "aiRec"
          /\ \A j, k \in 1 .. Len(a) : a[j][2].name = a[k][2].name => j = k
      BY <1>1, <1>2
    <2>2. /\ b \in Seq(Lists \X Providers) /\ Len(b) \in Nat /\ DOMAIN b = 1 .. Len(b)
          /\ \A k \in 1 .. Len(b) : b[k][1] = "humanRec"
          /\ \A j, k \in 1 .. Len(b) : b[j][2].name = b[k][2].name => j = k
      BY <1>1, <1>2
    <2> HIDE DEF a, b
    <2> DEFINE c == a \o b
    <2>3. /\ c \in Seq(Lists \X Providers) /\ Len(c) = Len(a) + Len(b)
          /\ \A k \in 1 .. Len(a) + Len(b) : c[k] = IF k <= Len(a) THEN a[k] ELSE b[k - Len(a)]
      BY <2>1, <2>2, ConcatProperties
    <2>4. DOMAIN c = 1 .. Len(a) + Len(b)
      BY <2>3, LenProperties
    <2> HIDE DEF c
    <2>5. SUFFICES ASSUME NEW j \in 1 .. Len(a) + Len(b), NEW k \in 1 .. Len(a) + Len(b), j < k
                   PROVE  /\ ~(c[j][1] = c[k][1] /\ c[j][2].name = c[k][2].name)
                          /\ ~(c[j][1] = "humanRec" /\ c[k][1] = "aiRec")
      BY <2>4 DEF OnceAiFirst, MayPrecede, c, a, b
    <2>6. CASE k <= Len(a)
      <3>1. j \in 1 .. Len(a) /\ k \in 1 .. Len(a) /\ c[j] = a[j] /\ c[k] = a[k]
        BY <2>1, <2>2, <2>3, <2>5, <2>6
      <3>2. QED
        BY <2>1, <2>5, <3>1
    <2>7. CASE j <= Len(a) /\ k > Len(a)
      <3>1. j \in 1 .. Len(a) /\ k - Len(a) \in 1 .. Len(b)
            /\ c[j] = a[j] /\ c[k] = b[k - Len(a)]
        BY <2>1, <2>2, <2>3, <2>7
      <3>2. QED
        BY <2>1, <2>2, <3>1
    <2>8. CASE j > Len(a)
      <3>1. j - Len(a) \in 1 .. Len(b) /\ k - Len(a) \in 1 .. Len(b)
            /\ c[j] = b[j - Len(a)] /\ c[k] = b[k - Len(a)] /\ j - Len(a) # k - Len(a)
        BY <2>1, <2>2, <2>3, <2>5, <2>8
      <3>2. QED
        BY <2>2, <3>1
    <2>9. QED
      BY <2>1, <2>2, <2>6, <2>7, <2>8
  <1>5. QED
    BY <1>2, <1>3, <1>4, RouterAssumption DEF Candidates


\* A move takes its candidates from the registry of that moment, or keeps them.
LEMMA MoveDrawn ==
  ASSUME Inv1, TriedInv, NEW r \in Routes, LogOK(r), Moves(r)
  PROVE  Drawn(r)'
  <1> DEFINE old == frame[r]
  <1>1. CASE Began(r)
    <2>1. PICK f \in Frame : /\ f.i = 1 /\ f.attempts = <<>> /\ f.result = 0 /\ TryCandidate(r, f)
                             /\ \E op \in Operations : f.candidates = Candidates(op)
      BY <1>1 DEF Began
    <2>2. /\ frame'[r].attempts = <<>> /\ frame'[r].candidates = f.candidates
      BY <2>1, TryCandidateMoves DEF Inv1
    <2>3. OnceAiFirst(f.candidates)
      BY <2>1, CandidatesOnce DEF Inv1, TriedInv
    <2>4. Len(f.candidates) \in Nat /\ Len(<<>>) = 0
      BY DEF Frame
    <2>5. QED
      BY <2>2, <2>3, <2>4 DEF Drawn, OnceAiFirst
  <1>2. CASE Fell(r)
    <2>1. PICK reason \in Reason : FallThrough(r, reason)
      BY <1>2 DEF Fell, FellBy
    <2> DEFINE failure == Failure(old, reason)
    <2>2. PICK f \in Frame :
            /\ f.candidates = old.candidates /\ f.i = old.i + 1
            /\ f.attempts = Append(old.attempts, failure)
            /\ f.result = old.result /\ f.i \in Nat \ {0}
            /\ TryCandidate(r, f)
      BY <1>2, <2>1, FallThroughMoves DEF Fell, FellBy
    <2>3. /\ frame'[r].attempts = Append(old.attempts, failure)
          /\ frame'[r].candidates = old.candidates
      BY <2>2, TryCandidateMoves DEF Inv1
    <2>4. /\ old.attempts \in Seq(Attempt) /\ old.i \in 1 .. Len(old.candidates)
          /\ Len(old.attempts) = old.i - 1 /\ OnceAiFirst(old.candidates)
      BY <1>2 DEF Fell, Inv1, TypeOK, Frame, Standing, LogOK, InFlight, TriedInv, Drawn
    <2> HIDE DEF failure
    <2>5. Len(frame'[r].attempts) = old.i
      BY <2>3, <2>4
    <2>6. QED
      BY <2>3, <2>4, <2>5 DEF Drawn, OnceAiFirst
  <1>3. CASE Dispatched(r)
    BY <1>3 DEF Dispatched, TriedInv, Drawn, OnceAiFirst
  <1>4. CASE Returned(r)
    <2> DEFINE won == [candidate |-> Current(old), success |-> TRUE, reason |-> "none"]
    <2>1. /\ old \in Frame /\ old.attempts \in Seq(Attempt)
          /\ old.i \in 1 .. Len(old.candidates)
          /\ Len(old.attempts) = old.i - 1 /\ OnceAiFirst(old.candidates)
      BY <1>4 DEF Returned, ExecuteSucceeds, Inv1, TypeOK, Frame, Standing, LogOK, InFlight,
                  TriedInv, Drawn
    <2>2. frame'[r].attempts = Append(old.attempts, won) /\ frame'[r].candidates = old.candidates
      BY <1>4, <2>1 DEF Returned, ExecuteSucceeds, Inv1, TypeOK, Frame
    <2> HIDE DEF won
    <2>3. Len(frame'[r].attempts) = old.i
      BY <2>1, <2>2
    <2>4. QED
      BY <2>1, <2>2, <2>3 DEF Drawn, OnceAiFirst
  <1>5. QED
    BY <1>1, <1>2, <1>3, <1>4 DEF Moves

LEMMA NextTried == Inv1 /\ LogInv /\ TriedInv /\ [Next]_vars => TriedInv'
  <1> SUFFICES ASSUME Inv1, \A r \in Routes : LogOK(r), TriedInv, [Next]_vars PROVE TriedInv'
    BY DEF LogInv
  <1>1. RegistryDistinct'
    <2>1. ASSUME NEW l \in Lists, NEW p \in Offered[l], Register(l, p)
          PROVE  RegistryDistinct'
      <3>1. registry[l] \in Seq(Providers) /\ p \in Providers /\ Distinct(registry[l])
        BY RouterAssumption DEF Inv1, TypeOK, TriedInv, RegistryDistinct
      <3>2. /\ registry'[l] = upsertByName(registry[l], p)
            /\ \A m \in Lists \ {l} : registry'[m] = registry[m]
        BY <2>1 DEF Register, Inv1, TypeOK
      <3>3. Distinct(upsertByName(registry[l], p))
        BY <3>1, UpsertDistinct
      <3>4. ASSUME NEW m \in Lists PROVE Distinct(registry'[m])
        BY <3>2, <3>3 DEF TriedInv, RegistryDistinct
      <3>5. QED
        BY <3>4 DEF RegistryDistinct, Distinct
    <2>2. CASE registry' = registry
      BY <2>2 DEF TriedInv, RegistryDistinct, Distinct
    <2>3. QED
      BY <2>1, <2>2 DEF Next, vars, UpdatePolicy, Route, Check, CheckBlocked, CheckUnavailable,
                        CheckAvailable, Execute, ExecuteSucceeds, ExecuteFails,
                        ExecuteTimesOut, LateSettles
  <1>2. ASSUME NEW q \in Routes PROVE Drawn(q)'
    <2>1. CASE pc'[q] = pc[q] /\ frame'[q] = frame[q]
      BY <2>1 DEF TriedInv, Drawn, OnceAiFirst
    <2>2. CASE Moves(q)
      BY <2>2, MoveDrawn
    <2>3. ASSUME NEW r \in Routes, Moves(r), r # q PROVE pc'[q] = pc[q] /\ frame'[q] = frame[q]
      BY <2>3, MoveTyped DEF Inv1, TypeOK
    <2>4. QED
      BY <2>1, <2>2, <2>3, StepMoves
  <1>3. QED
    BY <1>1, <1>2 DEF TriedInv

LEMMA TriedInvariant == Spec => []TriedInv
  <1>1. Init => TriedInv
    <2> SUFFICES ASSUME Init PROVE TriedInv
      OBVIOUS
    <2>1. DOMAIN <<>> = {}
      OBVIOUS
    <2>2. QED
      BY <2>1 DEF Init, TriedInv, RegistryDistinct, Distinct, Drawn
  <1>2. QED
    BY <1>1, NextTried, Invariant1, LogInvariant, PTL DEF Spec

\* The attempt log of every route, over any registry and any providers: in the
\* order of the candidates, complete, no provider of a list twice, the AI ones
\* first, and its one success, if any, last and the one returned.
THEOREM AttemptLogCorrect == Spec => []AttemptLog
  <1>1. Inv1 /\ LogInv /\ TriedInv => AttemptLog
    <2> SUFFICES ASSUME Inv1, LogInv, TriedInv, NEW r \in Routes, pc[r] # "idle",
                        NEW j \in DOMAIN frame[r].attempts, NEW k \in DOMAIN frame[r].attempts, j < k
                 PROVE  MayPrecede(frame[r].attempts[j].candidate, frame[r].attempts[k].candidate)
      BY DEF AttemptLog, LogInv, LogOK
    <2> DEFINE tries == frame[r].attempts
               among == frame[r].candidates
    <2>1. tries \in Seq(Attempt) /\ among \in Seq(Lists \X Providers)
      BY DEF Inv1, TypeOK, Frame
    <2>2. tries[j].candidate = among[j] /\ tries[k].candidate = among[k]
      BY DEF LogInv, LogOK
    <2>3. OnceAiFirst(among) /\ Len(tries) <= Len(among)
      BY DEF TriedInv, Drawn
    <2>4. j \in DOMAIN among /\ k \in DOMAIN among
      BY <2>1, <2>3, LenProperties
    <2>5. QED
      BY <2>2, <2>3, <2>4 DEF OnceAiFirst
  <1>2. QED
    BY <1>1, Invariant1, LogInvariant, TriedInvariant, PTL

-----------------------------------------------------------------------------
(***************************************************************************)
(* The router implements Fallback.  A move of a route is one step of the   *)
(* abstract router: it begins (Draw), falls through a candidate it checked *)
(* (Refuse) or dispatched (Fail), dispatches (Call) or returns (Answer);   *)
(* any other step leaves all routes where they are.                        *)
(***************************************************************************)
IdleInv == \A r \in Routes : pc[r] = "idle" => frame[r] = NoFrame

LEMMA MoveLeavesIdle ==
  ASSUME Inv1, NEW r \in Routes, Moves(r)
  PROVE  pc'[r] # "idle"
  <1>1. CASE Began(r)
    BY <1>1, TryCandidateMoves DEF Began, Inv1
  <1>2. CASE Fell(r)
    BY <1>2, FallThroughMoves, TryCandidateMoves DEF Fell, FellBy, Inv1
  <1>3. CASE Dispatched(r)
    BY <1>3 DEF Dispatched, Inv1, TypeOK
  <1>4. CASE Returned(r)
    BY <1>4 DEF Returned, ExecuteSucceeds, Inv1, TypeOK
  <1>5. QED
    BY <1>1, <1>2, <1>3, <1>4 DEF Moves

LEMMA NextIdle == Inv1 /\ IdleInv /\ [Next]_vars => IdleInv'
  <1> SUFFICES ASSUME Inv1, IdleInv, [Next]_vars, NEW q \in Routes, pc'[q] = "idle"
               PROVE  frame'[q] = NoFrame
    BY DEF IdleInv
  <1>1. CASE pc' = pc /\ frame' = frame
    BY <1>1 DEF IdleInv
  <1>2. ASSUME NEW r \in Routes, Moves(r) PROVE frame'[q] = NoFrame
    <2>1. q # r
      BY <1>2, MoveLeavesIdle
    <2>2. pc'[q] = pc[q] /\ frame'[q] = frame[q]
      BY <1>2, <2>1, MoveTyped DEF Inv1, TypeOK
    <2>3. QED
      BY <2>2 DEF IdleInv
  <1>3. QED
    BY <1>1, <1>2, StepMoves

Plans    == [r \in Routes |-> frame[r].candidates]
Tries    == [r \in Routes |-> frame[r].attempts]
Answers  == [r \in Routes |-> frame[r].result]
Statuses == [r \in Routes |-> Status(r)]

AbstractStep == [Abstract!Next]_(Abstract!vars)

LEMMA PlansTyped ==
  ASSUME NEW f \in [Routes -> Frame \cup {NoFrame}]
  PROVE  [r \in Routes |-> f[r].candidates] \in [Routes -> Seq(Lists \X Providers)]
  <1> SUFFICES ASSUME NEW r \in Routes PROVE f[r].candidates \in Seq(Lists \X Providers)
    OBVIOUS
  <1>1. CASE f[r] \in Frame
    BY <1>1 DEF Frame
  <1>2. CASE f[r] = NoFrame
    <2>1. f[r].candidates = <<>> /\ <<>> \in Seq(Lists \X Providers)
      BY <1>2 DEF NoFrame
    <2>2. QED
      BY <2>1
  <1>3. QED
    BY <1>1, <1>2

\* A move of r changes the mapped variables at r only.
LEMMA MappedMove ==
  ASSUME Inv1, NEW r \in Routes, Moves(r)
  PROVE  /\ Plans' = [Plans EXCEPT ![r] = frame'[r].candidates]
         /\ Tries' = [Tries EXCEPT ![r] = frame'[r].attempts]
         /\ Answers' = [Answers EXCEPT ![r] = frame'[r].result]
         /\ Statuses' = [Statuses EXCEPT ![r] = Status(r)']
  <1>1. \A q \in Routes \ {r} : pc'[q] = pc[q] /\ frame'[q] = frame[q]
    BY MoveTyped DEF Inv1, TypeOK
  <1>2. Plans' = [Plans EXCEPT ![r] = frame'[r].candidates]
    BY <1>1 DEF Plans
  <1>3. Tries' = [Tries EXCEPT ![r] = frame'[r].attempts]
    BY <1>1 DEF Tries
  <1>4. Answers' = [Answers EXCEPT ![r] = frame'[r].result]
    BY <1>1 DEF Answers
  <1>5. \A q \in Routes \ {r} : Status(q)' = Status(q)
    BY <1>1 DEF Status
  <1>6. Statuses' = [Statuses EXCEPT ![r] = Status(r)']
    BY <1>5 DEF Statuses
  <1>7. QED
    BY <1>2, <1>3, <1>4, <1>6

\* What does not change in a mapped variable leaves it as it is.
LEMMA Unmoved ==
  ASSUME NEW S, NEW f, f = [x \in S |-> f[x]], NEW r \in S
  PROVE  [f EXCEPT ![r] = f[r]] = f
  OBVIOUS

LEMMA MappedAt ==
  ASSUME NEW r \in Routes
  PROVE  /\ Plans[r] = frame[r].candidates /\ Tries[r] = frame[r].attempts
         /\ Answers[r] = frame[r].result /\ Statuses[r] = Status(r)
         /\ Plans = [q \in Routes |-> Plans[q]] /\ Tries = [q \in Routes |-> Tries[q]]
         /\ Answers = [q \in Routes |-> Answers[q]]
  BY DEF Plans, Tries, Answers, Statuses

LEMMA SimDraw ==
  ASSUME Inv1, Inv1', IdleInv, TriedInv, NEW r \in Routes, Began(r)
  PROVE  Abstract!Draw(r)
  <1>1. PICK f \in Frame : /\ f.i = 1 /\ f.attempts = <<>> /\ f.result = 0 /\ TryCandidate(r, f)
                           /\ \E op \in Operations : f.candidates = Candidates(op)
    BY DEF Began
  <1>2. /\ frame'[r].candidates = f.candidates /\ frame'[r].attempts = <<>>
        /\ frame'[r].result = 0
        /\ \/ pc'[r] = "exhausted" /\ 1 > Len(f.candidates)
           \/ pc'[r] = "checking" /\ 1 \in 1 .. Len(f.candidates)
    BY <1>1, TryCandidateMoves DEF Inv1
  <1>3. pc[r] = "idle" /\ frame[r] = NoFrame
    BY DEF Began, IdleInv
  <1>4. Statuses[r] = "idle"
    BY <1>3 DEF Statuses, Status
  <1>5. Plans' \in [Routes -> Seq(Lists \X Providers)]
    BY PlansTyped DEF Inv1, TypeOK, Plans
  <1>6. /\ Plans' = [Plans EXCEPT ![r] = f.candidates]
        /\ Tries' = [Tries EXCEPT ![r] = <<>>]
        /\ Answers' = [Answers EXCEPT ![r] = 0]
        /\ Statuses' = [Statuses EXCEPT ![r] = Status(r)']
    BY <1>2, MappedMove DEF Moves
  <1>7. Tries[r] = <<>> /\ Answers[r] = 0
    BY <1>3 DEF Tries, Answers, NoFrame
  <1>8. Tries' = Tries /\ Answers' = Answers
    BY <1>6, <1>7, Unmoved, MappedAt
  <1>9. /\ \A q \in Routes \ {r} : Plans'[q] = Plans[q]
        /\ Plans'[r] = f.candidates
    BY <1>6, MappedAt
  <1>10. Status(r)' = IF 0 < Len(f.candidates) THEN "asking" ELSE "exhausted"
    <2>1. Len(f.candidates) \in Nat
      BY DEF Frame
    <2>2. QED
      BY <1>2, <2>1 DEF Status
  <1>11. Statuses' = [Statuses EXCEPT ![r] = Abstract!Onward(Plans'[r], 0)]
    BY <1>6, <1>9, <1>10 DEF Abstract!Onward
  <1>12. Abstract!Orderly(Plans'[r])
    BY <1>1, <1>9, CandidatesOnce DEF Inv1, TriedInv, OnceAiFirst, Abstract!Orderly
  <1>13. QED
    BY <1>4, <1>5, <1>8, <1>9, <1>11, <1>12
       DEF Abstract!Draw, Abstract!Becomes, Plans, Tries, Answers, Statuses

\* The record of the candidate a route in flight stands at.
LEMMA SimRecord ==
  ASSUME Inv1, LogInv, NEW r \in Routes, pc[r] \in InFlight, NEW success, NEW reason,
         Tries' = [Tries EXCEPT ![r] = Append(frame[r].attempts,
           [candidate |-> Current(frame[r]), success |-> success, reason |-> reason])]
  PROVE  Abstract!Record(r, success, reason)
  <1>1. Len(frame[r].attempts) = frame[r].i - 1 /\ frame[r].i \in Nat
    BY DEF LogInv, LogOK, InFlight, Inv1, TypeOK, Frame
  <1>2. Current(frame[r]) = Plans[r][Len(Tries[r]) + 1]
    <2>1. Plans[r] = frame[r].candidates /\ Tries[r] = frame[r].attempts
      BY MappedAt
    <2>2. Len(Tries[r]) + 1 = frame[r].i
      BY <1>1, <2>1
    <2>3. QED
      BY <2>1, <2>2 DEF Current
  <1>3. Tries[r] = frame[r].attempts
    BY MappedAt
  <1>4. QED
    BY <1>2, <1>3 DEF Abstract!Record, Plans, Tries

LEMMA SimInVain ==
  ASSUME Inv1, LogInv, NEW r \in Routes, pc[r] \in InFlight, Fell(r),
         NEW reason \in Reason, FallThrough(r, reason)
  PROVE  Abstract!InVain(r, reason)
  <1> DEFINE old == frame[r]
             failure == Failure(old, reason)
  <1>1. PICK f \in Frame :
          /\ f.candidates = old.candidates /\ f.i = old.i + 1
          /\ f.attempts = Append(old.attempts, failure)
          /\ f.result = old.result /\ f.i \in Nat \ {0}
          /\ TryCandidate(r, f)
    BY FallThroughMoves
  <1>2. /\ frame'[r].attempts = Append(old.attempts, failure)
        /\ frame'[r].result = old.result /\ frame'[r].candidates = old.candidates
        /\ \/ pc'[r] = "exhausted" /\ old.i + 1 > Len(old.candidates)
           \/ pc'[r] = "checking" /\ old.i + 1 \in 1 .. Len(old.candidates)
    BY <1>1, TryCandidateMoves DEF Inv1
  <1>3. /\ Plans' = [Plans EXCEPT ![r] = old.candidates]
        /\ Tries' = [Tries EXCEPT ![r] = Append(old.attempts, failure)]
        /\ Answers' = [Answers EXCEPT ![r] = old.result]
        /\ Statuses' = [Statuses EXCEPT ![r] = Status(r)']
    BY <1>2, MappedMove DEF Moves
  <1>4. Plans' = Plans /\ Answers' = Answers
    BY <1>3, Unmoved, MappedAt
  <1>5. Abstract!Record(r, FALSE, reason)
    BY <1>3, SimRecord DEF Failure
  <1>6. /\ Len(old.attempts) + 1 = old.i /\ old.i \in Nat /\ Len(old.candidates) \in Nat
    BY DEF LogInv, LogOK, InFlight, Inv1, TypeOK, Frame
  <1>7. Status(r)' = IF old.i < Len(old.candidates) THEN "asking" ELSE "exhausted"
    BY <1>2, <1>6 DEF Status
  <1>8. Status(r)' = Abstract!Onward(Plans[r], Len(Tries[r]) + 1)
    BY <1>6, <1>7, MappedAt DEF Abstract!Onward
  <1>9. QED
    BY <1>3, <1>4, <1>5, <1>8
       DEF Abstract!InVain, Abstract!Becomes, Plans, Tries, Answers, Statuses

LEMMA SimFell ==
  ASSUME Inv1, LogInv, NEW r \in Routes, Fell(r)
  PROVE  Abstract!Refuse(r) \/ Abstract!Fail(r)
  <1>1. PICK reason \in Reason : FellBy(r, reason)
    BY DEF Fell
  <1>2. Abstract!InVain(r, reason)
    BY <1>1, SimInVain DEF Fell, FellBy
  <1>3. CASE pc[r] = "checking" /\ reason \in Refusals
    <2>1. Statuses[r] = "asking"
      BY <1>3 DEF Statuses, Status
    <2>2. QED
      BY <1>2, <1>3, <2>1 DEF Abstract!Refuse, Statuses
  <1>4. CASE pc[r] = "executing" /\ reason \in Failures
    <2>1. Statuses[r] = "calling"
      BY <1>4 DEF Statuses, Status
    <2>2. QED
      BY <1>2, <1>4, <2>1 DEF Abstract!Fail, Statuses
  <1>5. QED
    BY <1>1, <1>3, <1>4 DEF FellBy

LEMMA SimCall ==
  ASSUME Inv1, NEW r \in Routes, Dispatched(r)
  PROVE  Abstract!Call(r)
  <1>1. Statuses[r] = "asking" /\ Status(r)' = "calling"
    BY DEF Dispatched, Statuses, Status, Inv1, TypeOK
  <1>2. Statuses' = [Statuses EXCEPT ![r] = "calling"]
    BY <1>1, MappedMove DEF Moves
  <1>3. Plans' = Plans /\ Tries' = Tries /\ Answers' = Answers
    BY DEF Dispatched, Plans, Tries, Answers
  <1>4. QED
    BY <1>1, <1>2, <1>3 DEF Abstract!Call, Abstract!Becomes, Plans, Tries, Answers, Statuses

LEMMA SimAnswer ==
  ASSUME Inv1, LogInv, NEW r \in Routes, Returned(r)
  PROVE  Abstract!Answer(r)
  <1> DEFINE old == frame[r]
             won == [candidate |-> Current(old), success |-> TRUE, reason |-> "none"]
  <1>1. pc[r] = "executing" /\ old \in Frame /\ Len(old.attempts) + 1 = old.i
    BY DEF Returned, ExecuteSucceeds, LogInv, LogOK, InFlight, Inv1, TypeOK, Frame
  <1>2. /\ pc'[r] = "resolved" /\ frame'[r].attempts = Append(old.attempts, won)
        /\ frame'[r].result = old.i /\ frame'[r].candidates = old.candidates
    BY <1>1 DEF Returned, ExecuteSucceeds, Inv1, TypeOK, Frame
  <1>3. Statuses[r] = "calling" /\ Status(r)' = "resolved"
    BY <1>1, <1>2 DEF Statuses, Status
  <1>4. /\ Plans' = [Plans EXCEPT ![r] = old.candidates]
        /\ Tries' = [Tries EXCEPT ![r] = Append(old.attempts, won)]
        /\ Answers' = [Answers EXCEPT ![r] = old.i]
        /\ Statuses' = [Statuses EXCEPT ![r] = "resolved"]
    BY <1>2, <1>3, MappedMove DEF Moves
  <1>5. Plans' = Plans
    BY <1>4, Unmoved, MappedAt
  <1>6. Abstract!Record(r, TRUE, "none")
    BY <1>1, <1>4, SimRecord DEF InFlight
  <1>7. Answers' = [Answers EXCEPT ![r] = Len(Tries[r]) + 1]
    BY <1>1, <1>4, MappedAt
  <1>8. QED
    BY <1>3, <1>4, <1>5, <1>6, <1>7
       DEF Abstract!Answer, Abstract!Becomes, Plans, Tries, Answers, Statuses

LEMMA SimNext ==
  ASSUME Inv1, Inv1', IdleInv, LogInv, TriedInv, [Next]_vars
  PROVE  AbstractStep
  <1>1. CASE pc' = pc /\ frame' = frame
    <2>1. \A r \in Routes : Status(r)' = Status(r)
      BY <1>1 DEF Status
    <2>2. Plans' = Plans /\ Tries' = Tries /\ Answers' = Answers /\ Statuses' = Statuses
      BY <1>1, <2>1 DEF Plans, Tries, Answers, Statuses
    <2>3. QED
      BY <2>2 DEF AbstractStep, Abstract!vars, Plans, Tries, Answers, Statuses
  <1>2. ASSUME NEW r \in Routes, Moves(r)
        PROVE  Abstract!Draw(r) \/ Abstract!Refuse(r) \/ Abstract!Call(r)
               \/ Abstract!Fail(r) \/ Abstract!Answer(r)
    BY <1>2, SimDraw, SimFell, SimCall, SimAnswer DEF Moves
  <1>3. QED
    BY <1>1, <1>2, StepMoves DEF AbstractStep, Abstract!Next

LEMMA SimInit == Init => Abstract!Init
  <1> SUFFICES ASSUME Init PROVE Abstract!Init
    OBVIOUS
  <1>1. \A r \in Routes : frame[r] = NoFrame /\ Status(r) = "idle"
    BY DEF Init, Status
  <1>2. \A r \in Routes : /\ frame[r].candidates = <<>> /\ frame[r].attempts = <<>>
                          /\ frame[r].result = 0
    BY <1>1 DEF NoFrame
  <1>3. QED
    BY <1>1, <1>2 DEF Abstract!Init

\* Whatever is registered, however the policy changes and whatever the providers
\* and the timers do, the router is an implementation of the abstract fallback.
THEOREM RouterImplementsFallback == Spec => ImplementsFallback
  <1>1. Spec => []IdleInv
    <2>1. Init => IdleInv
      BY DEF Init, IdleInv
    <2>2. QED
      BY <2>1, NextIdle, Invariant1, PTL DEF Spec
  <1>2. Inv1 /\ Inv1' /\ IdleInv /\ LogInv /\ TriedInv /\ [Next]_vars
          => [Abstract!Next]_(Abstract!vars)
    BY SimNext DEF AbstractStep
  <1>3. QED
    BY <1>1, <1>2, SimInit, Invariant1, LogInvariant, TriedInvariant, PTL
       DEF Spec, ImplementsFallback, Abstract!Spec
=============================================================================

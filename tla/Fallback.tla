------------------------------ MODULE Fallback ------------------------------
(***************************************************************************)
(* What the router promises of a routed operation, whatever it looks up,    *)
(* checks and waits for: it draws a plan and tries its candidates in that   *)
(* order, one at a time.  A candidate is refused before it is called, or    *)
(* called; a call fails or answers.  The first answer is what the operation *)
(* resolves with, and nothing changes after it; without one the plan is     *)
(* exhausted, and every candidate of it is on record with a reason.         *)
(***************************************************************************)
EXTENDS Naturals, Sequences

CONSTANTS
  Routes,            \* operations routed
  Pool,              \* what may be a candidate
  MayPrecede(_, _),  \* whether the first candidate may stand in a plan before the second
  Refusals,          \* reasons given for a candidate that is not called
  Failures           \* reasons given for a call that failed

VARIABLES
  plan,    \* per route, the candidates it is to try
  tries,   \* per route, what became of those it has tried
  answer,  \* per route, the position of the candidate whose answer it returned, or 0
  status

vars == <<plan, tries, answer, status>>

Init ==
  /\ plan = [r \in Routes |-> <<>>]
  /\ tries = [r \in Routes |-> <<>>]
  /\ answer = [r \in Routes |-> 0]
  /\ status = [r \in Routes |-> "idle"]

Becomes(r, new) == status' = [status EXCEPT ![r] = new]

Orderly(p) == \A j, k \in DOMAIN p : j < k => MayPrecede(p[j], p[k])

\* Where a route goes that has tried the first n candidates of p in vain.
Onward(p, n) == IF n < Len(p) THEN "asking" ELSE "exhausted"

Draw(r) ==
  /\ status[r] = "idle"
  /\ plan' \in [Routes -> Seq(Pool)]
  /\ \A q \in Routes \ {r} : plan'[q] = plan[q]
  /\ Orderly(plan'[r])
  /\ Becomes(r, Onward(plan'[r], 0))
  /\ UNCHANGED <<tries, answer>>

Record(r, success, reason) ==
  tries' = [tries EXCEPT ![r] =
    Append(@, [candidate |-> plan[r][Len(@) + 1], success |-> success, reason |-> reason])]

InVain(r, reason) ==
  /\ Record(r, FALSE, reason)
  /\ Becomes(r, Onward(plan[r], Len(tries[r]) + 1))
  /\ UNCHANGED <<plan, answer>>

Refuse(r) == status[r] = "asking" /\ \E reason \in Refusals : InVain(r, reason)

Call(r) ==
  /\ status[r] = "asking"
  /\ Becomes(r, "calling")
  /\ UNCHANGED <<plan, tries, answer>>

Fail(r) == status[r] = "calling" /\ \E reason \in Failures : InVain(r, reason)

Answer(r) ==
  /\ status[r] = "calling"
  /\ Record(r, TRUE, "none")
  /\ answer' = [answer EXCEPT ![r] = Len(tries[r]) + 1]
  /\ Becomes(r, "resolved")
  /\ UNCHANGED plan

Next == \E r \in Routes : Draw(r) \/ Refuse(r) \/ Call(r) \/ Fail(r) \/ Answer(r)

Spec == Init /\ [][Next]_vars
=============================================================================

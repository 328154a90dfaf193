------------------------------ MODULE AiRouter ------------------------------
(***************************************************************************)
(* The router of packages/ai-router/src/router.ts, with the provider       *)
(* registry it takes its candidates from and the privacy enforcer it asks. *)
(*                                                                         *)
(* A routed operation is a process that suspends at two awaits:            *)
(*   "checking"   candidate.check(), whose privacy half ran in the same    *)
(*                turn as the call; its verdict is kept in the frame       *)
(*   "executing"  the race of candidate.execute() against the timer        *)
(* Between them the application may re-register providers and replace the  *)
(* policy.  Providers are the environment: a capability check settles as   *)
(* it likes, an execution answers, fails or hangs, and one that lost the   *)
(* race keeps running and may still answer late.                           *)
(***************************************************************************)
EXTENDS Integers, Sequences, SequencesExt, PrivacyPolicy

CONSTANTS
  Providers,   \* provider objects: name, family, animate (implements animate)
  Offered,     \* per list, the providers the application registers in it
  Operations,  \* the operations the application routes
  Routes,      \* calls of the route functions
  Policies,    \* policies the application installs
  TimeoutMs    \* RouteOptions.timeoutMs; without a positive one nothing is timed

\* The private fields of DefaultProviderRegistry.
Lists == {"text", "image", "threeD", "aiRec", "humanRec"}

ASSUME RouterAssumption ==
  /\ Operations \subseteq {"completion", "generation", "text-to-3d", "animate", "ranking"}
  /\ Offered \in [Lists -> SUBSET Providers]
  /\ TimeoutMs \in Int
  /\ Policies # {}

VARIABLES
  registry,  \* per list, its providers in order of registration
  policy,    \* PrivacyPolicyEnforcer.#policy
  pc,        \* per route, what it waits for
  frame,     \* per route, its local variables
  late,      \* per route, positions of executions that lost the race and still run
  stale      \* per route, dispatches since the last updatePolicy that this
             \* policy forbids (history)

vars == <<registry, policy, pc, frame, late, stale>>

-----------------------------------------------------------------------------

InFlight == {"checking", "executing"}
PC == {"idle", "resolved", "exhausted"} \cup InFlight

Refusals == {"privacy_blocked", "capability_unavailable"}
Failures == {"provider_timeout", "provider_error"}
Reason == Refusals \cup Failures

Attempt == [candidate : Lists \X Providers, success : BOOLEAN, reason : Reason \cup {"none"}]

\* A candidate is a provider and the list it came from.  verdict is how check's
\* synchronous half ended; under is the policy it was given then (history);
\* result is the position whose response is returned, 0 before there is one.
Frame == [candidates : Seq(Lists \X Providers), i : Nat, op : Operations,
          verdict : {"blocked", "unimplemented", "asked"}, under : Policies,
          attempts : Seq(Attempt), result : Nat]

NoFrame == [candidates |-> <<>>, i |-> 1, attempts |-> <<>>, result |-> 0]

TypeOK ==
  /\ registry \in [Lists -> Seq(Providers)]
  /\ policy \in Policies
  /\ pc \in [Routes -> PC]
  /\ frame \in [Routes -> Frame \cup {NoFrame}]
  /\ \A r \in Routes : pc[r] # "idle" => frame[r] \in Frame
  /\ late \in [Routes -> SUBSET Nat]
  /\ stale \in [Routes -> Nat]

Init ==
  /\ registry = [l \in Lists |-> <<>>]
  /\ policy \in Policies
  /\ pc = [r \in Routes |-> "idle"]
  /\ frame = [r \in Routes |-> NoFrame]
  /\ late = [r \in Routes |-> {}]
  /\ stale = [r \in Routes |-> 0]

-----------------------------------------------------------------------------
(* The application: the registry and the active policy                     *)

\* Fault: a registration never replaces one of the same name.
upsertByName_NoReplace(list, p) == Append(list, p)

\* [...list.filter((q) => q.name !== p.name), p].  A name is in a list at most
\* once, so the filter drops at most one provider.  An empty name throws and
\* changes nothing: Offered has none.
upsertByName(list, p) ==
  LET same == {k \in DOMAIN list : list[k].name = p.name}
  IN  Append(IF same = {} THEN list ELSE RemoveAt(list, CHOOSE k \in same : TRUE), p)

Register(l, p) ==
  /\ registry' = [registry EXCEPT ![l] = upsertByName(@, p)]
  /\ UNCHANGED <<policy, pc, frame, late, stale>>

UpdatePolicy(q) ==
  /\ policy' = q
  /\ stale' = [r \in Routes |-> 0]
  /\ UNCHANGED <<registry, pc, frame, late>>

-----------------------------------------------------------------------------
(* attemptCandidates                                                       *)

From(l) == [k \in DOMAIN registry[l] |-> <<l, registry[l][k]>>]

\* Fault: the human providers are tried before the AI ones.
Candidates_HumanFirst(op) ==
  CASE op = "completion" -> From("text")
    [] op = "generation" -> From("image")
    [] op \in {"text-to-3d", "animate"} -> From("threeD")
    [] op = "ranking" -> From("humanRec") \o From("aiRec")

\* What the route function of op is given: the registry's getter copies the list,
\* so a later registration does not reach this route.  A recommendation tries
\* every AI provider before the first human one.
Candidates(op) ==
  CASE op = "completion" -> From("text")
    [] op = "generation" -> From("image")
    [] op \in {"text-to-3d", "animate"} -> From("threeD")
    [] op = "ranking" -> From("aiRec") \o From("humanRec")

Current(f)  == f.candidates[f.i]
Provider(f) == Current(f)[2]

\* Fault: the policy is read once, when the route begins.
Verdict_PolicyOfRoute(f) ==
  CASE ~Permits(f.under, Provider(f)) -> "blocked"
    [] Permits(f.under, Provider(f)) /\ f.op = "animate" /\ ~Provider(f).animate -> "unimplemented"
    [] OTHER -> "asked"

\* The half of check that runs before its first await.
Verdict(f) ==
  CASE ~Permits(policy, Provider(f)) -> "blocked"
    [] Permits(policy, Provider(f)) /\ f.op = "animate" /\ ~Provider(f).animate -> "unimplemented"
    [] OTHER -> "asked"

\* One turn of the loop, up to its first await: throw RouteExhaustedError after
\* the last candidate, or check the next one against the policy of this moment.
TryCandidate(r, f) ==
  \/ /\ f.i > Len(f.candidates)
     /\ pc' = [pc EXCEPT ![r] = "exhausted"]
     /\ frame' = [frame EXCEPT ![r] = f]
  \/ /\ f.i <= Len(f.candidates)
     /\ pc' = [pc EXCEPT ![r] = "checking"]
     /\ frame' = [frame EXCEPT ![r] = [f EXCEPT !.verdict = Verdict(f), !.under = policy]]

Route(r, op) ==
  /\ pc[r] = "idle"
  /\ TryCandidate(r, [candidates |-> Candidates(op), i |-> 1, op |-> op, verdict |-> "asked",
                      under |-> policy, attempts |-> <<>>, result |-> 0])
  /\ UNCHANGED <<registry, policy, late, stale>>

Failure(f, reason) == [candidate |-> Current(f), success |-> FALSE, reason |-> reason]

\* Record why the current candidate failed and fall through to the next.
FallThrough(r, reason) ==
  LET f == frame[r] IN
  TryCandidate(r, [f EXCEPT !.attempts = Append(@, Failure(f, reason)), !.i = @ + 1])

CheckBlocked(r) ==
  /\ pc[r] = "checking"
  /\ frame[r].verdict = "blocked"
  /\ FallThrough(r, "privacy_blocked")
  /\ UNCHANGED <<registry, policy, late, stale>>

\* Not available, animate not implemented, or checkCapability threw: if what it
\* threw is a PrivacyBlockedError, that is the reason.
CheckUnavailable(r) ==
  /\ pc[r] = "checking"
  /\ frame[r].verdict \in {"unimplemented", "asked"}
  /\ \E reason \in Refusals :
       /\ reason = "privacy_blocked" => frame[r].verdict = "asked"
       /\ FallThrough(r, reason)
  /\ UNCHANGED <<registry, policy, late, stale>>

\* Available: execute is dispatched in the turn that resumes from the check,
\* with no second look at the policy.
CheckAvailable(r) ==
  /\ pc[r] = "checking"
  /\ frame[r].verdict = "asked"
  /\ pc' = [pc EXCEPT ![r] = "executing"]
  /\ stale' = IF Permits(policy, Provider(frame[r])) THEN stale
              ELSE [stale EXCEPT ![r] = @ + 1]
  /\ UNCHANGED <<registry, policy, frame, late>>

ExecuteSucceeds(r) ==
  LET f == frame[r] IN
  /\ pc[r] = "executing"
  /\ pc' = [pc EXCEPT ![r] = "resolved"]
  /\ frame' = [frame EXCEPT
       ![r].attempts = Append(@, [candidate |-> Current(f), success |-> TRUE, reason |-> "none"]),
       ![r].result = f.i]
  /\ UNCHANGED <<registry, policy, late, stale>>

ExecuteFails(r) ==
  /\ pc[r] = "executing"
  /\ FallThrough(r, "provider_error")
  /\ UNCHANGED <<registry, policy, late, stale>>

\* Faults: the timer is never armed; TIMEOUT_MARKER leaks as the reason.
ExecuteTimesOut_Never(r) == FALSE /\ ExecuteFails(r)
ExecuteTimesOut_Marker(r) ==
  /\ pc[r] = "executing"
  /\ TimeoutMs > 0
  /\ FallThrough(r, "route-timeout")
  /\ late' = [late EXCEPT ![r] = @ \cup {frame[r].i}]
  /\ UNCHANGED <<registry, policy, stale>>

\* The timer wins the race; the execution is not cancelled.
ExecuteTimesOut(r) ==
  /\ pc[r] = "executing"
  /\ TimeoutMs > 0
  /\ FallThrough(r, "provider_timeout")
  /\ late' = [late EXCEPT ![r] = @ \cup {frame[r].i}]
  /\ UNCHANGED <<registry, policy, stale>>

\* Fault: a late answer becomes the response of a route that has resolved.
LateSettles_Overwrites(r) ==
  /\ \E k \in late[r] :
       /\ late' = [late EXCEPT ![r] = @ \ {k}]
       /\ frame' = IF pc[r] = "resolved" THEN [frame EXCEPT ![r].result = k] ELSE frame
  /\ UNCHANGED <<registry, policy, pc, stale>>

\* An execution that lost its race settles: its answer or error is discarded.
LateSettles(r) ==
  /\ \E k \in late[r] : late' = [late EXCEPT ![r] = @ \ {k}]
  /\ UNCHANGED <<registry, policy, pc, frame, stale>>

-----------------------------------------------------------------------------

Check(r) == CheckBlocked(r) \/ CheckUnavailable(r) \/ CheckAvailable(r)
Execute(r) == ExecuteSucceeds(r) \/ ExecuteFails(r)

Next ==
  \/ \E l \in Lists : \E p \in Offered[l] : Register(l, p)
  \/ \E q \in Policies : UpdatePolicy(q)
  \/ \E r \in Routes :
       \/ \E op \in Operations : Route(r, op)
       \/ Check(r) \/ Execute(r) \/ ExecuteTimesOut(r) \/ LateSettles(r)

Spec == Init /\ [][Next]_vars

\* Timers fire and capability checks, which the router does not time, settle;
\* an execution may hang for ever.
FairSpec == Spec /\ \A r \in Routes : WF_vars(Check(r)) /\ WF_vars(ExecuteTimesOut(r))

-----------------------------------------------------------------------------
(* Properties                                                              *)

\* No automated provider is dispatched on the word of a human-mode policy: the
\* allow-list, which a policy may carry over from another mode, does not count
\* there (policy.ts:49 "Human mode ignores this list so automated families stay
\* blocked").  Holds for the well-known families under the default policies;
\* under a family of the product's own it need not (policy.ts:14).
HumanModeIsHuman ==
  \A r \in Routes :
    pc[r] = "executing" /\ frame[r].under.mode = "human" => Provider(frame[r]).family = "human"

\* A policy takes hold with the next check: after updatePolicy, a route under way
\* may still dispatch the one candidate it was checking, and nothing else that
\* the new policy forbids.
StaleDispatchAtMostOnce == \A r \in Routes : stale[r] <= 1

\* No call goes out that the policy of that moment forbids (privacy-model/README.md:3
\* "Before any provider call is dispatched ... a `PrivacyPolicyEnforcer` decides
\* whether it is allowed under the user's active privacy mode").  The code looks
\* at the policy one await earlier, and this does not hold.
NoStaleDispatch == \A r \in Routes : stale[r] = 0

Settled == {"resolved", "exhausted"}

\* No provider of a list twice, whatever was registered again under its name, and
\* no AI provider after a human one (registry.ts:5, router.ts:293 "AI providers are
\* attempted first").
MayPrecede(c, d) ==
  /\ ~(c[1] = d[1] /\ c[2].name = d[2].name)
  /\ ~(c[1] = "humanRec" /\ d[1] = "aiRec")

\* The attempt log names the candidates in the order they were tried, one entry
\* each and none left out, no provider of a list twice and the AI ones first; only
\* a resolved route has a success, it is the last entry, and its response is the
\* one returned, however late the executions that lost their races answer.
AttemptLog ==
  \A r \in Routes : pc[r] # "idle" =>
    LET f == frame[r] IN
    /\ \A k \in DOMAIN f.attempts : f.attempts[k].candidate = f.candidates[k]
    /\ \A j, k \in DOMAIN f.attempts :
         j < k => MayPrecede(f.attempts[j].candidate, f.attempts[k].candidate)
    /\ \A k \in DOMAIN f.attempts : f.attempts[k].success => k = f.result
    /\ pc[r] \in InFlight => f.result = 0 /\ Len(f.attempts) = f.i - 1
    /\ pc[r] = "exhausted" => f.result = 0 /\ Len(f.attempts) = Len(f.candidates)
    /\ pc[r] = "resolved" =>
         /\ f.result = Len(f.attempts)
         /\ f.attempts[f.result].success

\* The abstract router of Fallback, read off the router's own state.
Status(r) ==
  CASE pc[r] = "checking"  -> "asking"
    [] pc[r] = "executing" -> "calling"
    [] OTHER               -> pc[r]

Abstract == INSTANCE Fallback WITH
  Pool   <- Lists \X Providers,
  plan   <- [r \in Routes |-> frame[r].candidates],
  tries  <- [r \in Routes |-> frame[r].attempts],
  answer <- [r \in Routes |-> frame[r].result],
  status <- [r \in Routes |-> Status(r)]

\* The router implements Fallback: every turn of a route ends at most one try, as
\* the abstract router may, and a settlement that comes late, a registration or a
\* change of policy is nothing a caller can tell (attemptCandidates, router.ts).
ImplementsFallback == Abstract!Spec

\* A timed route settles even if every provider it dispatches to hangs, provided
\* that the capability checks, which nothing times, settle.
RouteSettles == \A r \in Routes : pc[r] \in InFlight ~> pc[r] \in Settled
=============================================================================

----------------------------- MODULE HealthProbe ----------------------------
(***************************************************************************)
(* HealthAggregator.readiness and ProviderHealthTracker                     *)
(* (packages/observability/src/health.ts): a probe in flight while requests *)
(* go on telling the trackers how they went, and while components are       *)
(* registered and removed.                                                  *)
(***************************************************************************)
EXTENDS Naturals, Sequences, FiniteSets, Capabilities

CONSTANTS
  Trackers,          \* components that are trackers
  Others,            \* components with a checkHealth of their own
  failureThreshold,
  MaxOutcomes        \* bound: outcomes told to each tracker

\* A tracker that is down after no failure at all is not meant; the default is 3.
ASSUME HealthAssumption == failureThreshold \in Nat \ {0}

VARIABLES
  components,        \* what is registered
  tracker,           \* tracker -> [state, consecutiveFailures]
  outcomes,          \* history: tracker -> what it was told
  probe              \* the readiness call in flight, or the last answer

healthVars == <<components, tracker, outcomes, probe>>

Rank == [healthy |-> 0, degraded |-> 1, unhealthy |-> 2]

NoProbe == [pc |-> "none"]

HealthInit ==
  /\ components = Trackers
  /\ tracker = [t \in Trackers |-> [state |-> "unknown", consecutiveFailures |-> 0]]
  /\ outcomes = [t \in Trackers |-> << >>]
  /\ probe = NoProbe

register(c) ==
  /\ c \notin components /\ components' = components \cup {c}
  /\ UNCHANGED <<tracker, outcomes, probe>>

unregister(c) ==
  /\ c \in components /\ components' = components \ {c}
  /\ UNCHANGED <<tracker, outcomes, probe>>

Tell(t, outcome, state, failures) ==
  /\ Len(outcomes[t]) < MaxOutcomes[t]
  /\ tracker' = [tracker EXCEPT ![t] = [state |-> state, consecutiveFailures |-> failures]]
  /\ outcomes' = [outcomes EXCEPT ![t] = Append(@, outcome)]
  /\ UNCHANGED <<components, probe>>

(* Fault: a success does not reset the count.                                *)
recordSuccess_KeepsCount(t) ==
  Tell(t, "success", "up", tracker[t].consecutiveFailures)

recordSuccess(t) == Tell(t, "success", "up", 0)

recordFailure(t) ==
  LET failures == tracker[t].consecutiveFailures + 1
  IN Tell(t, "failure", IF failures >= failureThreshold THEN "down" ELSE "degraded", failures)

toHealthState == [unknown |-> "healthy", up |-> "healthy", degraded |-> "degraded", down |-> "unhealthy"]

\* Every check is started in one turn, where a tracker answers at once; told is history.
readiness ==
  /\ probe.pc \in {"none", "answered"}
  /\ probe' = [pc |-> "checking", asked |-> components,
               reports |-> [t \in components \cap Trackers |-> toHealthState[tracker[t].state]],
               told |-> outcomes]
  /\ UNCHANGED <<components, tracker, outcomes>>

\* safeCheck: a check that throws is reported unhealthy.
CheckSettles(c, state) ==
  /\ probe.pc = "checking" /\ c \in probe.asked \ DOMAIN probe.reports
  /\ probe' = [probe EXCEPT !.reports =
       [d \in DOMAIN @ \cup {c} |-> IF d # c THEN @[d]
                                    ELSE IF state = "throws" THEN "unhealthy" ELSE state]]
  /\ UNCHANGED <<components, tracker, outcomes>>

Answer ==
  /\ probe.pc = "checking" /\ DOMAIN probe.reports = probe.asked
  /\ LET worst == CHOOSE rank \in 0 .. 2 :
                    /\ rank = 0 \/ \E c \in probe.asked : Rank[probe.reports[c]] = rank
                    /\ \A c \in probe.asked : Rank[probe.reports[c]] <= rank
     IN probe' = [pc |-> "answered", asked |-> probe.asked, reports |-> probe.reports,
                  told |-> probe.told, ready |-> worst = 0]
  /\ UNCHANGED <<components, tracker, outcomes>>

HealthNext ==
  \/ \E c \in Trackers \cup Others : register(c) \/ unregister(c)
  \/ \E t \in Trackers : recordSuccess(t) \/ recordFailure(t)
  \/ \E c \in Others, state \in DOMAIN Rank \cup {"throws"} : CheckSettles(c, state)
  \/ readiness \/ Answer

HealthSpec == HealthInit /\ [][HealthNext]_healthVars

-----------------------------------------------------------------------------

\* What a router that asked at the same time would make of a tracker's report.
Effective(capability, t) ==
  applyHealthToCapability(capability, IF t \in probe.asked THEN probe.reports[t] ELSE "unknown")

FailedLast(told, n) == Len(told) >= n /\ \A i \in Len(told) - n + 1 .. Len(told) : told[i] = "failure"

(* The answer of the probe says how things were when it began, whatever the  *)
(* requests and registrations meanwhile: it is ready exactly if no check     *)
(* reported less than healthy and no tracker had last been told of a         *)
(* failure, and a tracker is reported down exactly if the last               *)
(* failureThreshold outcomes it was told of were failures without a break.   *)
(* The capabilities folded with these reports agree: a provider can be used  *)
(* if the matrix has it and it is not down, it gives a reason exactly if it  *)
(* has failed last or the matrix lacks it, and what it asks to be installed  *)
(* first does not depend on its health.                                      *)
ProbeTruth == probe.pc = "answered" =>
  /\ probe.ready <=>
       /\ \A c \in probe.asked \cap Others : probe.reports[c] = "healthy"
       /\ \A t \in probe.asked \cap Trackers : ~FailedLast(probe.told[t], 1)
  /\ \A t \in probe.asked \cap Trackers :
       probe.reports[t] = "unhealthy" <=> FailedLast(probe.told[t], failureThreshold)
  /\ \A c \in Baselines, t \in Trackers :
       LET failed(n) == t \in probe.asked /\ FailedLast(probe.told[t], n)
       IN /\ Effective(c, t).available <=> c.available /\ ~failed(failureThreshold)
          /\ Effective(c, t).unavailableReason # "none" <=> ~c.available \/ failed(1)
          /\ Effective(c, t).requiresExplicitInstall = c.requiresExplicitInstall
=============================================================================

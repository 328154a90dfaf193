-------------------------- MODULE ProviderAdapters --------------------------
(***************************************************************************)
(* FixedWindowRateLimiter, and InMemoryAuthProvider over its session store  *)
(* (packages/providers/src).  Both read Date.now unless a clock is injected *)
(* and so live with a clock that is set back.  consume and issueSession run  *)
(* in one turn up to what they return; a verifySession awaits the session    *)
(* it loads, and then its removal, and others run in between.                *)
(***************************************************************************)
EXTENDS Integers

CONSTANTS
  Limit, WindowMs,   \* options of the limiter
  Costs,             \* costs of a call
  SessionTtlMs,
  Tokens,            \* sessions that may be issued
  Verifiers,         \* calls of verifySession
  MaxReading,        \* bound: readings of the clock
  MaxVisits          \* bound: how often the clock is set back into a window

ASSUME ProviderAssumption == Limit \in Nat /\ Costs \subseteq Nat /\ SessionTtlMs \in Nat

VARIABLES
  nowMs,
  window,            \* the limiter's state for one key: [windowStart, used]
  sessions,          \* token -> when it expires
  verifying,         \* call -> its stage, its token, when the session it loaded expires
  spent,             \* history: window -> what was allowed in it, all visits together
  visits,            \* history: window -> how often the limiter began it
  issued,            \* history: token -> the expiry it was issued with
  refused            \* history: token -> the lowest reading at which it was found expired

limiterVars  == <<window, spent, visits>>
sessionVars  == <<sessions, verifying, issued, refused>>
providerVars == <<nowMs, limiterVars, sessionVars>>

Windows   == {w \in 0 .. MaxReading : w % WindowMs = 0}
NoWindow  == [windowStart |-> -1, used |-> 0]
NoSession == -1
NoReading == -1
NotVerifying == [stage |-> "none"]

ProviderInit ==
  /\ nowMs = 0
  /\ window = NoWindow
  /\ spent = [w \in Windows |-> 0] /\ visits = [w \in Windows |-> 0]
  /\ sessions = [t \in Tokens |-> NoSession]
  /\ issued = [t \in Tokens |-> NoSession] /\ refused = [t \in Tokens |-> NoReading]
  /\ verifying = [v \in Verifiers |-> NotVerifying]

ClockReads(t) ==
  /\ t # nowMs /\ nowMs' = t
  /\ UNCHANGED <<limiterVars, sessionVars>>

(* Fault: the limit is compared before the cost is added.                    *)
Denied_CostNotAdded(used, cost) == used > Limit

Denied(used, cost) == used + cost > Limit

consume(cost) ==
  LET start == nowMs - (nowMs % WindowMs)
      rolls == window.windowStart # start
      used  == IF rolls THEN 0 ELSE window.used
  IN /\ rolls => visits[start] < MaxVisits
     /\ visits' = IF rolls THEN [visits EXCEPT ![start] = @ + 1] ELSE visits
     /\ window' = [windowStart |-> start, used |-> IF Denied(used, cost) THEN used ELSE used + cost]
     /\ spent' = IF Denied(used, cost) THEN spent ELSE [spent EXCEPT ![start] = @ + cost]
     /\ UNCHANGED <<nowMs, sessionVars>>

\* Tokens are random: none is issued twice, and nobody has one before it is issued.
issueSession(t) ==
  /\ issued[t] = NoSession
  /\ sessions' = [sessions EXCEPT ![t] = nowMs + SessionTtlMs]
  /\ issued' = [issued EXCEPT ![t] = nowMs + SessionTtlMs]
  /\ UNCHANGED <<nowMs, limiterVars, verifying, refused>>

\* The store answers with what it has in the turn of the call.  late, a history, says that the
\* token had been found expired by then; at will be the reading the call decides by.
verifySession(v, t) ==
  /\ verifying[v].stage \notin {"loaded", "removing"} /\ issued[t] # NoSession
  /\ verifying' = [verifying EXCEPT ![v] =
       [stage |-> "loaded", token |-> t, expires |-> sessions[t],
        late |-> refused[t] # NoReading, at |-> NoReading]]
  /\ UNCHANGED <<nowMs, limiterVars, sessions, issued, refused>>

Expired(expires) == nowMs >= expires

Earliest(reading) == IF reading = NoReading \/ nowMs < reading THEN nowMs ELSE reading

(* Fault: what has expired is refused but stays in the store.                *)
VerifyDecides_KeepsExpired(v) ==
  LET call == verifying[v]
  IN /\ call.stage = "loaded"
     /\ IF call.expires # NoSession /\ Expired(call.expires)
        THEN refused' = [refused EXCEPT ![call.token] = Earliest(@)]
        ELSE refused' = refused
     /\ verifying' = [verifying EXCEPT ![v].at = nowMs, ![v].stage =
          IF call.expires # NoSession /\ ~Expired(call.expires) THEN "valid" ELSE "null"]
     /\ UNCHANGED <<nowMs, limiterVars, sessions, issued>>

\* After the await: by the clock of now, and of what is loaded, not of what is stored by now.
VerifyDecides(v) ==
  LET call  == verifying[v]
      to(stage) == verifying' = [verifying EXCEPT ![v].stage = stage, ![v].at = nowMs]
  IN /\ call.stage = "loaded"
     /\ \/ /\ call.expires = NoSession /\ to("null")
           /\ UNCHANGED <<sessions, refused>>
        \/ /\ call.expires # NoSession /\ Expired(call.expires) /\ to("removing")
           /\ sessions' = [sessions EXCEPT ![call.token] = NoSession]
           /\ refused' = [refused EXCEPT ![call.token] = Earliest(@)]
        \/ /\ call.expires # NoSession /\ ~Expired(call.expires) /\ to("valid")
           /\ UNCHANGED <<sessions, refused>>
     /\ UNCHANGED <<nowMs, limiterVars, issued>>

\* The removal is awaited: the answer is null.
VerifyReturns(v) ==
  /\ verifying[v].stage = "removing"
  /\ verifying' = [verifying EXCEPT ![v].stage = "null"]
  /\ UNCHANGED <<nowMs, limiterVars, sessions, issued, refused>>

ClockNext   == \E t \in 0 .. MaxReading : ClockReads(t)
LimiterNext == \E cost \in Costs : consume(cost)
SessionNext ==
  \/ \E t \in Tokens : issueSession(t) \/ \E v \in Verifiers : verifySession(v, t)
  \/ \E v \in Verifiers : VerifyDecides(v) \/ VerifyReturns(v)

ProviderNext == ClockNext \/ LimiterNext \/ SessionNext

ProviderSpec == ProviderInit /\ [][ProviderNext]_providerVars

-----------------------------------------------------------------------------

(* A clock that is set back costs little.  Within a window no more than the  *)
(* limit is allowed each time the clock enters it, whatever the costs.  A    *)
(* call of verifySession that begins after its token was found expired never *)
(* answers with the session, though by the clock it would be valid again;    *)
(* only one that had already loaded it may, and it decides by an earlier     *)
(* reading than any by which the token was found expired.                    *)
ClockSafe ==
  /\ \A w \in Windows : spent[w] <= Limit * visits[w]
  /\ \A v \in Verifiers :
       LET call == verifying[v]
       IN call.stage = "valid" =>
            /\ ~call.late
            /\ refused[call.token] # NoReading => call.at < refused[call.token]
=============================================================================

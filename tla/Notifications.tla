---------------------------- MODULE Notifications ---------------------------
(***************************************************************************)
(* NotificationService.notify (packages/notifications/src/service.ts) for   *)
(* one recipient, whose preferences change meanwhile, and the reminder      *)
(* queue (workflows.ts) with a worker that drains it and notifies.  The     *)
(* worker is the host's: it may die with what it has drained.               *)
(***************************************************************************)
EXTENDS Naturals, Sequences, FiniteSets, SequencesExt

CONSTANTS
  Notices,       \* calls of notify
  Channels,      \* request.channels of a call, in order
  Templates,
  Preferences,   \* what a recipient may set: [off, muted]
  Reminders,     \* ids
  MaxClock       \* bound: how far the clock goes

ASSUME NotificationAssumption == Channels \in Seq(ToSet(Channels))

VARIABLES
  prefs,         \* the recipient's stored preferences
  notice,        \* call -> its local variables
  delivered,     \* what the senders were asked to send: [notice, attempt, channel, ok]
  queue,         \* reminders: [id, fireAt, template]
  clock,
  batch,         \* what the worker has drained and not yet fired
  cancelled      \* history: reminders cancelled while they were queued

notificationVars == <<prefs, notice, delivered, queue, clock, batch, cancelled>>

Supported == {"in_app", "email", "push"}
NotCalled == [pc |-> "idle"]

allowAllPreferences == [off |-> {}, muted |-> {}]

NotificationInit ==
  /\ prefs = allowAllPreferences
  /\ notice = [n \in Notices |-> NotCalled]
  /\ delivered = {} /\ queue = {} /\ clock = 0 /\ batch = << >> /\ cancelled = {}

-----------------------------------------------------------------------------
(* Preferences and the service                                              *)

\* inForce is history: every preference in force at some moment of a call.
setPreferences(p) ==
  /\ p # prefs /\ prefs' = p
  /\ notice' = [n \in Notices |->
       IF notice[n] = NotCalled THEN NotCalled ELSE [notice[n] EXCEPT !.inForce = @ \cup {p}]]
  /\ UNCHANGED <<delivered, queue, clock, batch, cancelled>>

Calling(n, template, reminder, at) ==
  /\ notice[n] = NotCalled
  /\ notice' = [notice EXCEPT ![n] =
       [pc |-> "publishing", template |-> template, reminder |-> reminder, due |-> at, firedAt |-> clock,
        read |-> allowAllPreferences, attempts |-> << >>, inForce |-> {prefs}]]

notify(n, template) ==
  /\ Calling(n, template, "none", clock)
  /\ UNCHANGED <<prefs, delivered, queue, clock, batch, cancelled>>

\* publish resolves, and the preferences are read; or it rejects, and notify with it.
Published(n, ok) ==
  /\ notice[n].pc = "publishing"
  /\ notice' = [notice EXCEPT ![n].pc = IF ok THEN "sending" ELSE "rejected", ![n].read = prefs]
  /\ UNCHANGED <<prefs, delivered, queue, clock, batch, cancelled>>

Skipped(n, channel) ==
  notice[n].template \in notice[n].read.muted \/ channel \in notice[n].read.off

\* The next channel: skipped, or dispatched; a sender that throws is a failed attempt.
Attempt(n, works) ==
  /\ notice[n].pc = "sending" /\ Len(notice[n].attempts) < Len(Channels)
  /\ LET next    == Len(notice[n].attempts) + 1
         channel == Channels[next]
         state   == IF Skipped(n, channel) THEN "skipped"
                    ELSE IF works /\ channel \in Supported THEN "sent" ELSE "failed"
     IN /\ notice' = [notice EXCEPT ![n].attempts = Append(@, [channel |-> channel, state |-> state])]
        /\ delivered' = IF Skipped(n, channel) \/ channel \notin Supported THEN delivered
                        ELSE delivered \cup {[notice |-> n, attempt |-> next, channel |-> channel, ok |-> works]}
  /\ UNCHANGED <<prefs, queue, clock, batch, cancelled>>

-----------------------------------------------------------------------------
(* InMemoryReminderQueue                                                    *)

Ids(reminders) == {r.id : r \in reminders}

scheduleReminder(id, fireAt, template) ==
  /\ id \notin Ids(queue) \cup cancelled \cup Ids(ToSet(batch))
  /\ \A n \in Notices : notice[n] # NotCalled => notice[n].reminder # id
  /\ queue' = queue \cup {[id |-> id, fireAt |-> fireAt, template |-> template]}
  /\ UNCHANGED <<prefs, notice, delivered, clock, batch, cancelled>>

cancelReminder(id) ==
  /\ id \in Ids(queue)
  /\ queue' = {r \in queue : r.id # id} /\ cancelled' = cancelled \cup {id}
  /\ UNCHANGED <<prefs, notice, delivered, clock, batch>>

due == {r \in queue : r.fireAt <= clock}

(* Fault: the worker takes due() for drainDue().                             *)
drainDue_LeavesThem(taken) ==
  /\ batch = << >> /\ due # {} /\ taken \in SetToSeqs(due)
  /\ \A i, j \in DOMAIN taken : i < j => taken[i].fireAt <= taken[j].fireAt
  /\ batch' = taken /\ queue' = queue
  /\ UNCHANGED <<prefs, notice, delivered, clock, cancelled>>

\* In ascending order of fireAt; the worker drains when it has fired the last batch.
drainDue(taken) ==
  /\ batch = << >> /\ due # {} /\ taken \in SetToSeqs(due)
  /\ \A i, j \in DOMAIN taken : i < j => taken[i].fireAt <= taken[j].fireAt
  /\ batch' = taken /\ queue' = queue \ due
  /\ UNCHANGED <<prefs, notice, delivered, clock, cancelled>>

FireReminder(n) ==
  /\ batch # << >>
  /\ Calling(n, Head(batch).template, Head(batch).id, Head(batch).fireAt)
  /\ batch' = Tail(batch)
  /\ UNCHANGED <<prefs, delivered, queue, clock, cancelled>>

WorkerDies ==
  /\ batch # << >> /\ batch' = << >>
  /\ UNCHANGED <<prefs, notice, delivered, queue, clock, cancelled>>

Tick ==
  /\ clock < MaxClock /\ clock' = clock + 1
  /\ UNCHANGED <<prefs, notice, delivered, queue, batch, cancelled>>

NotificationNext ==
  \/ \E p \in Preferences : setPreferences(p)
  \/ \E n \in Notices :
       \/ \E t \in Templates : notify(n, t)
       \/ FireReminder(n)
       \/ \E ok \in BOOLEAN : Published(n, ok) \/ Attempt(n, ok)
  \/ \E id \in Reminders : cancelReminder(id)
                           \/ \E t \in Templates, at \in 1 .. MaxClock : scheduleReminder(id, at, t)
  \/ \E taken \in SetToSeqs(due) : drainDue(taken)
  \/ WorkerDies \/ Tick

NotificationSpec == NotificationInit /\ [][NotificationNext]_notificationVars

-----------------------------------------------------------------------------
(* Properties                                                               *)

Called == {n \in Notices : notice[n] # NotCalled}

(* Nothing is sent that the recipient did not want at any moment of the call *)
(* (preferences are read once, so what is muted in the middle may still go   *)
(* out); an attempt is reported as it went; and a reminder fires at most     *)
(* once, not before its time and not when it was cancelled while it was in   *)
(* the queue.                                                                *)
WantedAndReported ==
  /\ \A d \in delivered :
       \E p \in notice[d.notice].inForce :
         notice[d.notice].template \notin p.muted /\ d.channel \notin p.off
  /\ \A n \in Called, i \in DOMAIN Channels :
       [notice |-> n, attempt |-> i, channel |-> Channels[i], ok |-> TRUE] \in delivered
         <=> i \in DOMAIN notice[n].attempts /\ notice[n].attempts[i].state = "sent"
  /\ \A m, n \in Called : notice[n].reminder # "none" =>
       /\ notice[n].firedAt >= notice[n].due
       /\ notice[n].reminder \notin cancelled \cup Ids(queue)
       /\ m # n => notice[m].reminder # notice[n].reminder
=============================================================================

---------------------------- MODULE BusDelivery -----------------------------
(***************************************************************************)
(* What the bus promises of the deliveries of its calls, whatever queues,   *)
(* snapshots and retries it uses: each call keeps a ledger of deliveries    *)
(* that have ended.  Entries are never taken back or changed; an event goes *)
(* to subscriptions of its type only, is skipped as a duplicate only for a  *)
(* subscription that has handled its key, and a call that lost an event     *)
(* rejects with it and delivers nothing more.                               *)
(***************************************************************************)
EXTENDS Sequences

CONSTANTS Calls, Events, Subs

VARIABLES ledger, status

vars == <<ledger, status>>

Init ==
  /\ ledger = [c \in Calls |-> <<>>]
  /\ status = [c \in Calls |-> "idle"]

Unsettled(c) == status[c] \in {"idle", "open"}

Handled(s, key) ==
  \E c \in Calls : \E k \in DOMAIN ledger[c] :
    /\ ledger[c][k].how = "handled"
    /\ ledger[c][k].sub = s
    /\ ledger[c][k].event.idempotencyKey = key

Becomes(c, new) == status' = [status EXCEPT ![c] = new]

Open(c) ==
  /\ status[c] = "idle"
  /\ Becomes(c, "open")
  /\ UNCHANGED ledger

Record(c, e, s, how) ==
  ledger' = [ledger EXCEPT ![c] = Append(@, [event |-> e, sub |-> s, how |-> how])]

Deliver(c, e, s) ==
  /\ Unsettled(c)
  /\ e.type = s.type
  /\ \/ \E how \in {"handled", "captured", "dropped"} : Record(c, e, s, how) /\ Becomes(c, "open")
     \/ /\ s.idempotent /\ Handled(s, e.idempotencyKey)
        /\ Record(c, e, s, "deduped")
        /\ Becomes(c, "open")
     \/ Record(c, e, s, "lost") /\ Becomes(c, "rejected")

Resolve(c) ==
  /\ Unsettled(c)
  /\ Becomes(c, "resolved")
  /\ UNCHANGED ledger

Next == \E c \in Calls :
  \/ Open(c)
  \/ \E e \in Events, s \in Subs : Deliver(c, e, s)
  \/ Resolve(c)

Spec == Init /\ [][Next]_vars
=============================================================================

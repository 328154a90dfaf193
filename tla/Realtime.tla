------------------------------ MODULE Realtime ------------------------------
(***************************************************************************)
(* The local adapters of packages/realtime: rooms, call sessions and        *)
(* presence, and what the subscribers of the bus they publish to can know.   *)
(*                                                                          *)
(* A method changes its map and calls bus.publish in one turn, and publish  *)
(* calls the first subscription of the type in that turn too: the first      *)
(* subscriber hears the events in the order of the changes.  The next is     *)
(* called when the handler before it is done, and may hear a leave before    *)
(* its join: it can only count.                                              *)
(*                                                                          *)
(* The bus is InMemoryEventBus.  These events have no idempotencyKey, so to  *)
(* a subscription with the default options every event of its type has the   *)
(* same key, undefined: it takes them for duplicates from the moment one of  *)
(* its handlers is done.  A subscription with idempotent: false hears all.   *)
(*                                                                          *)
(* Refused calls change nothing and are left out.  The subscribers' handlers *)
(* note what they hear in the turn they are called, and do not throw.        *)
(***************************************************************************)
EXTENDS Integers

CONSTANTS
  Accounts,
  Ttls,        \* ttlSeconds; 0 stands for none
  Dedupings,   \* the types the first subscriber may have subscribed to with the default options
  MaxNow       \* bound: how far the clock goes

ASSUME RealtimeAssumption == Ttls \subseteq Nat

VARIABLES
  room,        \* the room: its state and participants
  session,     \* the call session: state, participants and who has media on
  entries,     \* account -> when its presence expires
  now,         \* the clock of the presence tracker
  deduping,    \* the types its subscriptions to which are idempotent; the others are not
  called,      \* those of them with a handler that is not done yet
  seen,        \* those of them whose subscription has marked the key undefined as seen
  believed,    \* what the first subscriber believes, going by the last it heard of each
  missed,      \* history: of what the last event was not delivered to it
  balance      \* what a later subscriber counts, with idempotent: false and once the events
               \* have all reached it: account -> room_joined minus room_left

followerVars == <<deduping, called, seen, believed, missed, balance>>
realtimeVars == <<room, session, entries, now, followerVars>>

Absent == -1
Never  == -2

RealtimeInit ==
  /\ room = [state |-> "none", participants |-> {}]
  /\ session = [state |-> "none", participants |-> {}, media |-> {}]
  /\ entries = [a \in Accounts |-> Absent]
  /\ now = 0
  /\ deduping \in Dedupings /\ called = {} /\ seen = {}
  /\ believed = {} /\ missed = {} /\ balance = [a \in Accounts |-> 0]

Appears == {"room_created", "room_joined", "call_created", "call_participant_added",
            "presence_updated"}

\* The first test of deliver, for an event without a key.
IsDuplicate(type) == type \in seen

emit(type, about) ==
  /\ IF IsDuplicate(type)
     THEN /\ missed' = missed \cup about
          /\ UNCHANGED <<believed, called>>
     ELSE /\ believed' = IF type \in Appears THEN believed \cup about ELSE believed \ about
          /\ missed' = missed \ about
          /\ called' = called \cup ({type} \cap deduping)
  /\ UNCHANGED <<deduping, seen>>
  /\ balance' = [a \in Accounts |->
       CASE type = "room_joined" /\ <<"room", a>> \in about -> balance[a] + 1
         [] type = "room_left" /\ <<"room", a>> \in about   -> balance[a] - 1
         [] OTHER                                           -> balance[a]]

\* A handler of the type is done, a turn or more after it was called.
HandlerDone(type) ==
  /\ type \in called
  /\ called' = called \ {type} /\ seen' = seen \cup {type}
  /\ UNCHANGED <<room, session, entries, now, deduping, believed, missed, balance>>

-----------------------------------------------------------------------------
(* LocalRoomManager                                                         *)

createRoom ==
  /\ room.state = "none"
  /\ room' = [room EXCEPT !.state = "open"]
  /\ emit("room_created", {<<"room">>})
  /\ UNCHANGED <<session, entries, now>>

\* Who is in already is answered without an event.
joinRoom(a) ==
  /\ room.state = "open" /\ a \notin room.participants
  /\ room' = [room EXCEPT !.participants = @ \cup {a}]
  /\ emit("room_joined", {<<"room", a>>})
  /\ UNCHANGED <<session, entries, now>>

(* Fault: leaving is announced whether or not the account was in the room.   *)
leaveRoom_AlwaysAnnounced(a) ==
  /\ room.state # "none"
  /\ room' = [room EXCEPT !.participants = @ \ {a}]
  /\ emit("room_left", {<<"room", a>>})
  /\ UNCHANGED <<session, entries, now>>

\* A closed room can be left.
leaveRoom(a) ==
  /\ a \in room.participants
  /\ room' = [room EXCEPT !.participants = @ \ {a}]
  /\ emit("room_left", {<<"room", a>>})
  /\ UNCHANGED <<session, entries, now>>

\* And closed again.
closeRoom ==
  /\ room.state # "none"
  /\ room' = [room EXCEPT !.state = "closed"]
  /\ emit("room_closed", {<<"room">>})
  /\ UNCHANGED <<session, entries, now>>

-----------------------------------------------------------------------------
(* LocalCallSessions                                                        *)

createSession ==
  /\ session.state = "none"
  /\ session' = [session EXCEPT !.state = "created"]
  /\ emit("call_created", {<<"call">>})
  /\ UNCHANGED <<room, entries, now>>

addParticipant(a) ==
  /\ session.state \in {"created", "active"} /\ a \notin session.participants
  /\ session' = [session EXCEPT !.state = "active", !.participants = @ \cup {a}]
  /\ emit("call_participant_added", {<<"call", a>>})
  /\ UNCHANGED <<room, entries, now>>

\* Whether or not the account takes part, and after the end as well.
removeParticipant(a) ==
  /\ session.state # "none"
  /\ session' = [session EXCEPT !.participants = @ \ {a}, !.media = @ \ {a}]
  /\ emit("call_participant_removed", {<<"call", a>>})
  /\ UNCHANGED <<room, entries, now>>

updateMediaState(a, on) ==
  /\ a \in session.participants
  /\ session' = [session EXCEPT !.media = IF on THEN @ \cup {a} ELSE @ \ {a}]
  /\ emit("call_media_updated", {})
  /\ UNCHANGED <<room, entries, now>>

\* An ended session can end again.
endSession ==
  /\ session.state # "none"
  /\ session' = [session EXCEPT !.state = "ended"]
  /\ emit("call_ended", {<<"call">>})
  /\ UNCHANGED <<room, entries, now>>

-----------------------------------------------------------------------------
(* LocalPresenceTracker                                                     *)

isExpired(a) == entries[a] \notin {Absent, Never} /\ entries[a] <= now

setPresence(a, ttl) ==
  /\ entries' = [entries EXCEPT ![a] = IF ttl = 0 THEN Never ELSE now + ttl]
  /\ emit("presence_updated", {<<"presence", a>>})
  /\ UNCHANGED <<room, session, now>>

sweepExpired ==
  LET swept == {a \in Accounts : isExpired(a)}
  IN /\ swept # {}
     /\ entries' = [a \in Accounts |-> IF a \in swept THEN Absent ELSE entries[a]]
     /\ emit("presence_expired", {<<"presence", a>> : a \in swept})
     /\ UNCHANGED <<room, session, now>>

PresenceTick ==
  /\ now < MaxNow /\ now' = now + 1
  /\ UNCHANGED <<room, session, entries, followerVars>>

RealtimeNext ==
  \/ createRoom \/ closeRoom \/ createSession \/ endSession \/ sweepExpired \/ PresenceTick
  \/ \E type \in called : HandlerDone(type)
  \/ \E a \in Accounts :
       \/ joinRoom(a) \/ leaveRoom(a) \/ addParticipant(a) \/ removeParticipant(a)
       \/ \E on \in BOOLEAN : updateMediaState(a, on)
       \/ \E ttl \in Ttls : setPresence(a, ttl)

RealtimeSpec == RealtimeInit /\ [][RealtimeNext]_realtimeVars

-----------------------------------------------------------------------------
(* Properties                                                               *)

\* What there is, by the adapters' own maps.
Present ==
  (IF room.state = "open" THEN {<<"room">>} ELSE {})
  \cup (IF session.state \in {"created", "active"} THEN {<<"call">>} ELSE {})
  \cup {<<"room", a>> : a \in room.participants}
  \cup {<<"call", a>> : a \in session.participants}
  \cup {<<"presence", a>> : a \in {b \in Accounts : entries[b] # Absent}}

(* A subscriber with idempotent: false can keep a copy of the rooms, the     *)
(* calls and the presence by following the events: the first subscriber's is *)
(* right at every turn, also after a close, an end, a removal of somebody    *)
(* who was not there, and a sweep.  Where its subscriptions dedupe, it is    *)
(* still right about all of which the last event was delivered to it.  A     *)
(* later subscriber may hear a leave before its join; counting joins over    *)
(* leaves still tells it who is in the room, because both are announced only *)
(* when the map changed.                                                     *)
SubscribersCanFollow ==
  /\ believed \ missed = Present \ missed
  /\ deduping = {} => missed = {}
  /\ \A a \in Accounts : balance[a] = IF a \in room.participants THEN 1 ELSE 0
=============================================================================

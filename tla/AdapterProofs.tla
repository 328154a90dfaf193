---------------------------- MODULE AdapterProofs ---------------------------
(* What the adapters and services around the server promise, for every       *)
(* value of their constants: one section for each, and none of them uses     *)
(* another's.                                                                *)
EXTENDS Realtime, ProviderAdapters, HealthProbe, Notifications, PostPipeline,
        Redaction, FiniteSetTheorems, SequenceTheorems, TLAPS

-----------------------------------------------------------------------------
(* Realtime                                                                 *)

\* The topics a subscriber can have beliefs about are told apart.
RoomTopic        == <<"room">>
CallTopic        == <<"call">>
RoomMember(a)    == <<"room", a>>
CallMember(a)    == <<"call", a>>
PresenceOf(a)    == <<"presence", a>>

LEMMA TopicsDistinct ==
  /\ RoomTopic # CallTopic
  /\ \A a : /\ RoomTopic \notin {RoomMember(a), CallMember(a), PresenceOf(a)}
            /\ CallTopic \notin {RoomMember(a), CallMember(a), PresenceOf(a)}
  /\ \A a, b : /\ RoomMember(a) # CallMember(b) /\ RoomMember(a) # PresenceOf(b)
               /\ CallMember(a) # PresenceOf(b)
               /\ RoomMember(a) = RoomMember(b) => a = b
               /\ CallMember(a) = CallMember(b) => a = b
               /\ PresenceOf(a) = PresenceOf(b) => a = b
  <1>1. RoomTopic # CallTopic
    BY DEF RoomTopic, CallTopic
  <1>2. \A a : /\ RoomTopic \notin {RoomMember(a), CallMember(a), PresenceOf(a)}
               /\ CallTopic \notin {RoomMember(a), CallMember(a), PresenceOf(a)}
    BY DEF RoomTopic, CallTopic, RoomMember, CallMember, PresenceOf
  <1>3. \A a, b : /\ RoomMember(a) # CallMember(b) /\ RoomMember(a) # PresenceOf(b)
                  /\ CallMember(a) # PresenceOf(b)
                  /\ RoomMember(a) = RoomMember(b) => a = b
                  /\ CallMember(a) = CallMember(b) => a = b
                  /\ PresenceOf(a) = PresenceOf(b) => a = b
    BY DEF RoomMember, CallMember, PresenceOf
  <1>4. QED
    BY <1>1, <1>2, <1>3

(* What there is, as a function of the five things it depends on.            *)
There(rooms, calls, members, callers, present) ==
  rooms \cup calls
  \cup {RoomMember(a) : a \in members}
  \cup {CallMember(a) : a \in callers}
  \cup {PresenceOf(a) : a \in present}

Opened(r) == IF r.state = "open" THEN {RoomTopic} ELSE {}
Live(s)   == IF s.state \in {"created", "active"} THEN {CallTopic} ELSE {}
Seen == {a \in Accounts : entries[a] # Absent}

LEMMA PresentIs ==
  Present = There(Opened(room), Live(session), room.participants, session.participants, Seen)
  BY DEF Present, There, Opened, Live, Seen, RoomTopic, CallTopic, RoomMember, CallMember,
         PresenceOf

-----------------------------------------------------------------------------
(* What an event does to the two subscribers                                *)

\* A subscription marks no key unless its options say so.
Deduped ==
  /\ called \subseteq deduping /\ seen \subseteq deduping
  /\ deduping = {} => missed = {}

\* What is there, and what is believed to be where nothing was missed.
Agree(beliefs, not_told, there) == beliefs \ not_told = there \ not_told

\* What is announced as there, or as gone, is so unless the event was not delivered.
LEMMA EmitFollows ==
  ASSUME NEW type, NEW about, NEW P, emit(type, about), Deduped, Agree(believed, missed, P)
  PROVE  /\ type \in Appears => Agree(believed', missed', P \cup about)
         /\ type \notin Appears => Agree(believed', missed', P \ about)
         /\ Deduped'
  <1>1. CASE type \in seen
    <2>1. missed' = missed \cup about /\ believed' = believed /\ called' = called
          /\ seen' = seen /\ deduping' = deduping
      BY <1>1 DEF emit, IsDuplicate
    <2>2. deduping # {}
      BY <1>1 DEF Deduped
    <2>3. QED
      BY <2>1, <2>2 DEF Deduped, Agree
  <1>2. CASE type \notin seen
    <2>1. /\ believed' = IF type \in Appears THEN believed \cup about ELSE believed \ about
          /\ missed' = missed \ about /\ called' = called \cup ({type} \cap deduping)
          /\ seen' = seen /\ deduping' = deduping
      BY <1>2 DEF emit, IsDuplicate
    <2>2. QED
      BY <2>1 DEF Deduped, Agree
  <1>3. QED
    BY <1>1, <1>2

CountFits(members) == \A a \in Accounts : balance[a] = IF a \in members THEN 1 ELSE 0

\* Only joining and leaving the room move the count.
LEMMA EmitQuiet ==
  ASSUME NEW type, NEW about, emit(type, about), type \notin {"room_joined", "room_left"}
  PROVE  \A a \in Accounts : balance'[a] = balance[a]
  BY DEF emit

LEMMA EmitJoined ==
  ASSUME NEW b \in Accounts, NEW M, emit("room_joined", {RoomMember(b)}),
         CountFits(M), b \notin M
  PROVE  \A a \in Accounts : balance'[a] = IF a \in M \cup {b} THEN 1 ELSE 0
  <1> SUFFICES ASSUME NEW a \in Accounts
               PROVE  balance'[a] = IF a \in M \cup {b} THEN 1 ELSE 0
    OBVIOUS
  <1>1. balance'[a] = IF RoomMember(a) \in {RoomMember(b)} THEN balance[a] + 1 ELSE balance[a]
    BY DEF emit, RoomMember
  <1>2. RoomMember(a) \in {RoomMember(b)} <=> a = b
    BY TopicsDistinct
  <1>3. QED
    BY <1>1, <1>2 DEF CountFits

LEMMA EmitLeft ==
  ASSUME NEW b \in Accounts, NEW M, emit("room_left", {RoomMember(b)}),
         CountFits(M), b \in M
  PROVE  \A a \in Accounts : balance'[a] = IF a \in M \ {b} THEN 1 ELSE 0
  <1> SUFFICES ASSUME NEW a \in Accounts
               PROVE  balance'[a] = IF a \in M \ {b} THEN 1 ELSE 0
    OBVIOUS
  <1>1. balance'[a] = IF RoomMember(a) \in {RoomMember(b)} THEN balance[a] - 1 ELSE balance[a]
    BY DEF emit, RoomMember
  <1>2. RoomMember(a) \in {RoomMember(b)} <=> a = b
    BY TopicsDistinct
  <1>3. QED
    BY <1>1, <1>2 DEF CountFits

-----------------------------------------------------------------------------
(* The invariant: the maps have their shape, the clock counts from zero, so  *)
(* that a lifetime never ends at the value that stands for "no entry", and   *)
(* both subscribers are right.                                               *)

IsRoom(r)    == r = [state |-> r.state, participants |-> r.participants]
IsSession(s) == s = [state |-> s.state, participants |-> s.participants, media |-> s.media]

LEMMA RoomExcept ==
  ASSUME NEW r, IsRoom(r), NEW v
  PROVE  /\ [r EXCEPT !.state = v] = [state |-> v, participants |-> r.participants]
         /\ [r EXCEPT !.participants = v] = [state |-> r.state, participants |-> v]
  BY DEF IsRoom

Shape ==
  /\ IsRoom(room)
  /\ IsSession(session)
  /\ entries \in [Accounts -> Int]
  /\ now \in Nat

Followed ==
  /\ Agree(believed, missed,
           There(Opened(room), Live(session), room.participants, session.participants, Seen))
  /\ Deduped

RealtimeInv == Shape /\ Followed /\ CountFits(room.participants)

LEMMA InvFollows == RealtimeInv => SubscribersCanFollow
  BY PresentIs DEF RealtimeInv, Followed, Agree, Deduped, CountFits, SubscribersCanFollow

LEMMA RealtimeInitInv == RealtimeInit => RealtimeInv
  <1> SUFFICES ASSUME RealtimeInit PROVE RealtimeInv
    OBVIOUS
  <1>0. IsRoom(room)
    BY DEF RealtimeInit, IsRoom
  <1>a. IsSession(session)
    BY DEF RealtimeInit, IsSession
  <1>b. entries \in [Accounts -> Int]
    BY DEF RealtimeInit, Absent
  <1>1. Shape
    BY <1>0, <1>a, <1>b DEF RealtimeInit, Shape
  <1>2. Seen = {} /\ Live(session) = {} /\ Opened(room) = {}
        /\ room.participants = {} /\ session.participants = {}
    BY DEF RealtimeInit, Seen, Live, Opened
  <1>3. Followed
    BY <1>2 DEF RealtimeInit, Followed, Agree, Deduped, There
  <1>4. CountFits(room.participants)
    BY <1>2 DEF RealtimeInit, CountFits
  <1>5. QED
    BY <1>1, <1>3, <1>4 DEF RealtimeInv

LEMMA RoomInv ==
  ASSUME RealtimeInv, createRoom \/ closeRoom \/ \E a \in Accounts : joinRoom(a) \/ leaveRoom(a)
  PROVE  RealtimeInv'
  <1>0. /\ IsRoom(room)
        /\ Agree(believed, missed,
                 There(Opened(room), Live(session), room.participants, session.participants, Seen))
        /\ Deduped
        /\ CountFits(room.participants)
        /\ Opened(room) \in SUBSET {RoomTopic} /\ Live(session) \in SUBSET {CallTopic}
    BY DEF RealtimeInv, Shape, Followed, Live, Opened
  <1>s. UNCHANGED <<session, entries, now>>
    BY DEF createRoom, closeRoom, joinRoom, leaveRoom
  <1>u. /\ Live(session)' = Live(session) /\ session'.participants = session.participants
        /\ Seen' = Seen
    BY <1>s DEF Live, Seen
  <1>1. CASE createRoom
    <2>1. /\ room' = [room EXCEPT !.state = "open"] /\ emit("room_created", {RoomTopic})
      BY <1>1 DEF createRoom, RoomTopic
    <2>0. room' = [state |-> "open", participants |-> room.participants]
      BY <1>0, <2>1, RoomExcept
    <2>3. Opened(room)' = {RoomTopic} /\ room'.participants = room.participants
          /\ IsRoom(room')
      BY <2>0 DEF Opened, IsRoom
    <2>4. There({RoomTopic}, Live(session), room.participants,
                session.participants, Seen)
            = There(Opened(room), Live(session), room.participants,
                session.participants, Seen)
                \cup {RoomTopic}
      BY <1>0, TopicsDistinct DEF There
    <2>7. Followed'
      <3>0. "room_created" \in Appears
        BY DEF Appears
      <3>1. /\ Agree(believed', missed',
                    There(Opened(room), Live(session), room.participants, session.participants, Seen)
                      \cup {RoomTopic})
            /\ Deduped'
        BY <1>0, <2>1, <3>0, EmitFollows, Zenon
      <3>2. Agree(believed', missed',
                  There({RoomTopic}, Live(session), room.participants, session.participants, Seen))
        BY <2>4, <3>1
      <3>3. QED
        BY <1>u, <2>3, <3>1, <3>2 DEF Followed
    <2>5. \A a \in Accounts : balance'[a] = balance[a]
      BY <2>1, EmitQuiet
    <2>6. QED
      BY <1>0, <1>s, <2>3, <2>5, <2>7 DEF RealtimeInv, Shape, CountFits
  <1>2. CASE closeRoom
    <2>1. /\ room' = [room EXCEPT !.state = "closed"] /\ emit("room_closed", {RoomTopic})
      BY <1>2 DEF closeRoom, RoomTopic
    <2>0. room' = [state |-> "closed", participants |-> room.participants]
      BY <1>0, <2>1, RoomExcept
    <2>3. Opened(room)' = {} /\ room'.participants = room.participants
          /\ IsRoom(room')
      BY <2>0 DEF Opened, IsRoom
    <2>4. There({}, Live(session), room.participants,
                session.participants, Seen)
            = There(Opened(room), Live(session), room.participants,
                session.participants, Seen)
                \ {RoomTopic}
      BY <1>0, TopicsDistinct DEF There
    <2>7. Followed'
      <3>0. "room_closed" \notin Appears
        BY DEF Appears
      <3>1. /\ Agree(believed', missed',
                    There(Opened(room), Live(session), room.participants, session.participants, Seen)
                      \ {RoomTopic})
            /\ Deduped'
        BY <1>0, <2>1, <3>0, EmitFollows, Zenon
      <3>2. Agree(believed', missed',
                  There({}, Live(session), room.participants, session.participants, Seen))
        BY <2>4, <3>1
      <3>3. QED
        BY <1>u, <2>3, <3>1, <3>2 DEF Followed
    <2>5. \A a \in Accounts : balance'[a] = balance[a]
      BY <2>1, EmitQuiet
    <2>6. QED
      BY <1>0, <1>s, <2>3, <2>5, <2>7 DEF RealtimeInv, Shape, CountFits
  <1>3. ASSUME NEW a \in Accounts, joinRoom(a) PROVE RealtimeInv'
    <2>1. /\ room' = [room EXCEPT !.participants = @ \cup {a}]
          /\ emit("room_joined", {RoomMember(a)}) /\ a \notin room.participants
      BY <1>3 DEF joinRoom, RoomMember
    <2>0. room' = [state |-> room.state, participants |-> room.participants \cup {a}]
      BY <1>0, <2>1, RoomExcept
    <2>3. Opened(room)' = Opened(room) /\ room'.participants = room.participants \cup {a}
          /\ IsRoom(room')
      BY <2>0 DEF Opened, IsRoom
    <2>4. There(Opened(room), Live(session), room.participants \cup {a},
                session.participants, Seen)
            = There(Opened(room), Live(session), room.participants,
                session.participants, Seen)
                \cup {RoomMember(a)}
      BY <1>0, TopicsDistinct DEF There
    <2>7. Followed'
      <3>0. "room_joined" \in Appears
        BY DEF Appears
      <3>1. /\ Agree(believed', missed',
                    There(Opened(room), Live(session), room.participants, session.participants, Seen)
                      \cup {RoomMember(a)})
            /\ Deduped'
        BY <1>0, <2>1, <3>0, EmitFollows, Zenon
      <3>2. Agree(believed', missed',
                  There(Opened(room), Live(session), room.participants \cup {a}, session.participants, Seen))
        BY <2>4, <3>1
      <3>3. QED
        BY <1>u, <2>3, <3>1, <3>2 DEF Followed
    <2>5. CountFits(room.participants)'
      <3>1. \A b \in Accounts :
              balance'[b] = IF b \in room.participants \cup {a} THEN 1 ELSE 0
        BY <1>0, <2>1, EmitJoined
      <3>2. QED
        BY <2>3, <3>1 DEF CountFits
    <2>6. QED
      BY <1>0, <1>s, <2>3, <2>5, <2>7 DEF RealtimeInv, Shape
  <1>4. ASSUME NEW a \in Accounts, leaveRoom(a) PROVE RealtimeInv'
    <2>1. /\ room' = [room EXCEPT !.participants = @ \ {a}]
          /\ emit("room_left", {RoomMember(a)}) /\ a \in room.participants
      BY <1>4 DEF leaveRoom, RoomMember
    <2>0. room' = [state |-> room.state, participants |-> room.participants \ {a}]
      BY <1>0, <2>1, RoomExcept
    <2>3. Opened(room)' = Opened(room) /\ room'.participants = room.participants \ {a}
          /\ IsRoom(room')
      BY <2>0 DEF Opened, IsRoom
    <2>4. There(Opened(room), Live(session), room.participants \ {a},
                session.participants, Seen)
            = There(Opened(room), Live(session), room.participants,
                session.participants, Seen)
                \ {RoomMember(a)}
      BY <1>0, TopicsDistinct DEF There
    <2>7. Followed'
      <3>0. "room_left" \notin Appears
        BY DEF Appears
      <3>1. /\ Agree(believed', missed',
                    There(Opened(room), Live(session), room.participants, session.participants, Seen)
                      \ {RoomMember(a)})
            /\ Deduped'
        BY <1>0, <2>1, <3>0, EmitFollows, Zenon
      <3>2. Agree(believed', missed',
                  There(Opened(room), Live(session), room.participants \ {a}, session.participants, Seen))
        BY <2>4, <3>1
      <3>3. QED
        BY <1>u, <2>3, <3>1, <3>2 DEF Followed
    <2>5. CountFits(room.participants)'
      <3>1. \A b \in Accounts :
              balance'[b] = IF b \in room.participants \ {a} THEN 1 ELSE 0
        BY <1>0, <2>1, EmitLeft
      <3>2. QED
        BY <2>3, <3>1 DEF CountFits
    <2>6. QED
      BY <1>0, <1>s, <2>3, <2>5, <2>7 DEF RealtimeInv, Shape
  <1>5. QED
    BY <1>1, <1>2, <1>3, <1>4

LEMMA CallInv ==
  ASSUME RealtimeInv,
         createSession \/ endSession
         \/ \E a \in Accounts : \/ addParticipant(a) \/ removeParticipant(a)
                                \/ \E on \in BOOLEAN : updateMediaState(a, on)
  PROVE  RealtimeInv'
  <1>0. /\ IsSession(session)
        /\ Agree(believed, missed,
                 There(Opened(room), Live(session), room.participants, session.participants, Seen))
        /\ Deduped
        /\ CountFits(room.participants)
        /\ Opened(room) \in SUBSET {RoomTopic} /\ Live(session) \in SUBSET {CallTopic}
    BY DEF RealtimeInv, Shape, Followed, Live, Opened
  <1>s. UNCHANGED <<room, entries, now>>
    BY DEF createSession, endSession, addParticipant, removeParticipant, updateMediaState
  <1>u. Opened(room)' = Opened(room) /\ room'.participants = room.participants /\ Seen' = Seen
    BY <1>s DEF Opened, Seen
  <1>e. ASSUME NEW type, NEW about, emit(type, about), type \notin {"room_joined", "room_left"},
               Followed', IsSession(session')
        PROVE  RealtimeInv'
    <2>1. \A a \in Accounts : balance'[a] = balance[a]
      BY <1>e, EmitQuiet
    <2>2. QED
      BY <1>0, <1>e, <1>s, <2>1 DEF RealtimeInv, Shape, CountFits
  <1>1. CASE createSession
    <2>1. /\ session' = [session EXCEPT !.state = "created"] /\ emit("call_created", {CallTopic})
      BY <1>1 DEF createSession, CallTopic
    <2>0. session' = [state |-> "created", participants |-> session.participants,
                      media |-> session.media]
      BY <1>0, <2>1 DEF IsSession
    <2>3. Live(session)' = {CallTopic} /\ session'.participants = session.participants
          /\ IsSession(session')
      BY <2>0 DEF Live, IsSession
    <2>4. There(Opened(room), {CallTopic}, room.participants, session.participants, Seen)
            = There(Opened(room), Live(session), room.participants,
                session.participants, Seen) \cup {CallTopic}
      BY <1>0, TopicsDistinct DEF There
    <2>5. Followed'
      <3>0. "call_created" \in Appears
        BY DEF Appears
      <3>1. /\ Agree(believed', missed',
                    There(Opened(room), Live(session), room.participants, session.participants, Seen)
                      \cup {CallTopic})
            /\ Deduped'
        BY <1>0, <2>1, <3>0, EmitFollows, Zenon
      <3>2. Agree(believed', missed',
                  There(Opened(room), {CallTopic}, room.participants, session.participants, Seen))
        BY <2>4, <3>1
      <3>3. QED
        BY <1>u, <2>3, <3>1, <3>2 DEF Followed
    <2>6. QED
      BY <1>e, <2>1, <2>3, <2>5
  <1>2. CASE endSession
    <2>1. /\ session' = [session EXCEPT !.state = "ended"] /\ emit("call_ended", {CallTopic})
      BY <1>2 DEF endSession, CallTopic
    <2>0. session' = [state |-> "ended", participants |-> session.participants,
                      media |-> session.media]
      BY <1>0, <2>1 DEF IsSession
    <2>3. Live(session)' = {} /\ session'.participants = session.participants
          /\ IsSession(session')
      BY <2>0 DEF Live, IsSession
    <2>4. There(Opened(room), {}, room.participants, session.participants, Seen)
            = There(Opened(room), Live(session), room.participants,
                session.participants, Seen) \ {CallTopic}
      BY <1>0, TopicsDistinct DEF There
    <2>5. Followed'
      <3>0. "call_ended" \notin Appears
        BY DEF Appears
      <3>1. /\ Agree(believed', missed',
                    There(Opened(room), Live(session), room.participants, session.participants, Seen)
                      \ {CallTopic})
            /\ Deduped'
        BY <1>0, <2>1, <3>0, EmitFollows, Zenon
      <3>2. Agree(believed', missed',
                  There(Opened(room), {}, room.participants, session.participants, Seen))
        BY <2>4, <3>1
      <3>3. QED
        BY <1>u, <2>3, <3>1, <3>2 DEF Followed
    <2>6. QED
      BY <1>e, <2>1, <2>3, <2>5
  <1>3. ASSUME NEW a \in Accounts, addParticipant(a) PROVE RealtimeInv'
    <2>1. /\ session' = [session EXCEPT !.state = "active", !.participants = @ \cup {a}]
          /\ session.state \in {"created", "active"}
          /\ emit("call_participant_added", {CallMember(a)})
      BY <1>3 DEF addParticipant, CallMember
    <2>0. session' = [state |-> "active", participants |-> session.participants \cup {a},
                      media |-> session.media]
      BY <1>0, <2>1 DEF IsSession
    <2>3. Live(session)' = Live(session) /\ IsSession(session')
          /\ session'.participants = session.participants \cup {a}
      BY <2>0, <2>1 DEF Live, IsSession
    <2>4. There(Opened(room), Live(session), room.participants,
                session.participants \cup {a}, Seen)
            = There(Opened(room), Live(session), room.participants,
                session.participants, Seen) \cup {CallMember(a)}
      BY <1>0, TopicsDistinct DEF There
    <2>5. Followed'
      <3>0. "call_participant_added" \in Appears
        BY DEF Appears
      <3>1. /\ Agree(believed', missed',
                    There(Opened(room), Live(session), room.participants, session.participants, Seen)
                      \cup {CallMember(a)})
            /\ Deduped'
        BY <1>0, <2>1, <3>0, EmitFollows, Zenon
      <3>2. Agree(believed', missed',
                  There(Opened(room), Live(session), room.participants, session.participants \cup {a}, Seen))
        BY <2>4, <3>1
      <3>3. QED
        BY <1>u, <2>3, <3>1, <3>2 DEF Followed
    <2>6. QED
      BY <1>e, <2>1, <2>3, <2>5
  <1>4. ASSUME NEW a \in Accounts, removeParticipant(a) PROVE RealtimeInv'
    <2>1. /\ session' = [session EXCEPT !.participants = @ \ {a}, !.media = @ \ {a}]
          /\ emit("call_participant_removed", {CallMember(a)})
      BY <1>4 DEF removeParticipant, CallMember
    <2>0. session' = [state |-> session.state, participants |-> session.participants \ {a},
                      media |-> session.media \ {a}]
      BY <1>0, <2>1 DEF IsSession
    <2>3. Live(session)' = Live(session) /\ IsSession(session')
          /\ session'.participants = session.participants \ {a}
      BY <2>0 DEF Live, IsSession
    <2>4. There(Opened(room), Live(session), room.participants,
                session.participants \ {a}, Seen)
            = There(Opened(room), Live(session), room.participants,
                session.participants, Seen) \ {CallMember(a)}
      BY <1>0, TopicsDistinct DEF There
    <2>5. Followed'
      <3>0. "call_participant_removed" \notin Appears
        BY DEF Appears
      <3>1. /\ Agree(believed', missed',
                    There(Opened(room), Live(session), room.participants, session.participants, Seen)
                      \ {CallMember(a)})
            /\ Deduped'
        BY <1>0, <2>1, <3>0, EmitFollows, Zenon
      <3>2. Agree(believed', missed',
                  There(Opened(room), Live(session), room.participants, session.participants \ {a}, Seen))
        BY <2>4, <3>1
      <3>3. QED
        BY <1>u, <2>3, <3>1, <3>2 DEF Followed
    <2>6. QED
      BY <1>e, <2>1, <2>3, <2>5
  <1>5. ASSUME NEW a \in Accounts, NEW on \in BOOLEAN, updateMediaState(a, on) PROVE RealtimeInv'
    <2> DEFINE with == IF on THEN session.media \cup {a} ELSE session.media \ {a}
    <2>1. /\ session' = [session EXCEPT !.media = with]
          /\ emit("call_media_updated", {})
      BY <1>5 DEF updateMediaState
    <2>0. session' = [state |-> session.state, participants |-> session.participants,
                      media |-> with]
      BY <1>0, <2>1 DEF IsSession
    <2>3. Live(session)' = Live(session) /\ IsSession(session')
          /\ session'.participants = session.participants
      BY <2>0 DEF Live, IsSession
    <2>5. Followed'
      <3>0. "call_media_updated" \notin Appears
        BY DEF Appears
      <3>1. /\ Agree(believed', missed',
                    There(Opened(room), Live(session), room.participants, session.participants, Seen)
                      \ {})
            /\ Deduped'
        BY <1>0, <2>1, <3>0, EmitFollows, Zenon
      <3>2. QED
        BY <1>u, <2>3, <3>1 DEF Followed
    <2>6. QED
      BY <1>e, <2>1, <2>3, <2>5
  <1>6. QED
    BY <1>1, <1>2, <1>3, <1>4, <1>5

LEMMA PresenceInv ==
  ASSUME RealtimeInv,
         sweepExpired \/ PresenceTick \/ \E a \in Accounts, ttl \in Ttls : setPresence(a, ttl)
  PROVE  RealtimeInv'
  <1>0. /\ entries \in [Accounts -> Int] /\ now \in Nat /\ IsRoom(room) /\ IsSession(session)
        /\ Agree(believed, missed,
                 There(Opened(room), Live(session), room.participants, session.participants, Seen))
        /\ Deduped
        /\ CountFits(room.participants)
        /\ Opened(room) \in SUBSET {RoomTopic} /\ Live(session) \in SUBSET {CallTopic}
    BY DEF RealtimeInv, Shape, Followed, Live, Opened
  <1>s. UNCHANGED <<room, session>>
    BY DEF sweepExpired, setPresence, PresenceTick
  <1>u. /\ Opened(room)' = Opened(room) /\ room'.participants = room.participants
        /\ Live(session)' = Live(session) /\ session'.participants = session.participants
    BY <1>s DEF Opened, Live
  <1>1. CASE sweepExpired
    <2> DEFINE swept == {a \in Accounts : isExpired(a)}
    <2>1. /\ entries' = [a \in Accounts |-> IF a \in swept THEN Absent ELSE entries[a]]
          /\ emit("presence_expired", {PresenceOf(a) : a \in swept})
          /\ now' = now
      BY <1>1 DEF sweepExpired, PresenceOf
    <2>3. entries' \in [Accounts -> Int] /\ Seen' = Seen \ swept
      BY <1>0, <2>1 DEF Absent, Seen
    <2>4. There(Opened(room), Live(session), room.participants, session.participants,
                Seen \ swept)
            = There(Opened(room), Live(session), room.participants,
                session.participants, Seen) \ {PresenceOf(b) : b \in swept}
      <3> HIDE DEF swept
      <3> QED
        BY <1>0, TopicsDistinct DEF There
    <2>5. Followed'
      <3>0. "presence_expired" \notin Appears
        BY DEF Appears
      <3>1. /\ Agree(believed', missed',
                    There(Opened(room), Live(session), room.participants, session.participants, Seen)
                      \ {PresenceOf(a) : a \in swept})
            /\ Deduped'
        BY <1>0, <2>1, <3>0, EmitFollows, Zenon
      <3>2. Agree(believed', missed',
                  There(Opened(room), Live(session), room.participants, session.participants, Seen \ swept))
        BY <2>4, <3>1
      <3>3. QED
        BY <1>u, <2>3, <3>1, <3>2 DEF Followed
    <2>6. \A a \in Accounts : balance'[a] = balance[a]
      BY <2>1, EmitQuiet
    <2>7. QED
      BY <1>0, <1>s, <2>1, <2>3, <2>5, <2>6 DEF RealtimeInv, Shape, CountFits
  <1>2. ASSUME NEW a \in Accounts, NEW ttl \in Ttls, setPresence(a, ttl) PROVE RealtimeInv'
    <2>1. /\ entries' = [entries EXCEPT ![a] = IF ttl = 0 THEN Never ELSE now + ttl]
          /\ emit("presence_updated", {PresenceOf(a)})
          /\ now' = now /\ ttl \in Nat
      BY <1>2, RealtimeAssumption DEF setPresence, PresenceOf
    <2>3. entries' \in [Accounts -> Int] /\ Seen' = Seen \cup {a}
      BY <1>0, <2>1 DEF Absent, Never, Seen
    <2>4. There(Opened(room), Live(session), room.participants, session.participants,
                Seen \cup {a})
            = There(Opened(room), Live(session), room.participants,
                session.participants, Seen) \cup {PresenceOf(a)}
      BY <1>0, TopicsDistinct DEF There
    <2>5. Followed'
      <3>0. "presence_updated" \in Appears
        BY DEF Appears
      <3>1. /\ Agree(believed', missed',
                    There(Opened(room), Live(session), room.participants, session.participants, Seen)
                      \cup {PresenceOf(a)})
            /\ Deduped'
        BY <1>0, <2>1, <3>0, EmitFollows, Zenon
      <3>2. Agree(believed', missed',
                  There(Opened(room), Live(session), room.participants, session.participants, Seen \cup {a}))
        BY <2>4, <3>1
      <3>3. QED
        BY <1>u, <2>3, <3>1, <3>2 DEF Followed
    <2>6. \A b \in Accounts : balance'[b] = balance[b]
      BY <2>1, EmitQuiet
    <2>7. QED
      BY <1>0, <1>s, <2>1, <2>3, <2>5, <2>6 DEF RealtimeInv, Shape, CountFits
  <1>3. CASE PresenceTick
    <2>1. /\ UNCHANGED <<room, session, entries, deduping, called, seen, believed, missed, balance>>
          /\ now' = now + 1
      BY <1>3 DEF PresenceTick, followerVars
    <2>2. Shape' /\ CountFits(room.participants)'
      BY <1>0, <2>1 DEF Shape, CountFits
    <2>3. Followed'
      BY <1>0, <2>1 DEF Followed, Deduped, Seen, Opened, Live
    <2>4. QED
      BY <2>2, <2>3 DEF RealtimeInv
  <1>4. QED
    BY <1>1, <1>2, <1>3

\* What a handler marks when it is done changes what is delivered later only.
LEMMA DoneInv ==
  ASSUME RealtimeInv, NEW type \in called, HandlerDone(type)
  PROVE  RealtimeInv'
  BY DEF HandlerDone, RealtimeInv, Shape, Followed, Deduped, CountFits, Seen, Opened, Live

(* Whatever rooms, calls and presence go through, a first subscriber with    *)
(* idempotent: false has a right copy after every turn of LocalRoomManager,  *)
(* LocalCallSessions and LocalPresenceTracker.  One whose subscriptions      *)
(* dedupe, to any of the types, is right about all of which the last event   *)
(* was delivered to it.  A later one with idempotent: false can tell who is  *)
(* in the room by counting joins over leaves.                                *)
THEOREM FollowersCorrect == RealtimeSpec => []SubscribersCanFollow
  <1>1. RealtimeInv /\ [RealtimeNext]_realtimeVars => RealtimeInv'
    <2> SUFFICES ASSUME RealtimeInv, [RealtimeNext]_realtimeVars PROVE RealtimeInv'
      OBVIOUS
    <2>1. CASE createRoom \/ closeRoom \/ \E a \in Accounts : joinRoom(a) \/ leaveRoom(a)
      BY <2>1, RoomInv
    <2>2. CASE createSession \/ endSession
               \/ \E a \in Accounts : \/ addParticipant(a) \/ removeParticipant(a)
                                      \/ \E on \in BOOLEAN : updateMediaState(a, on)
      BY <2>2, CallInv
    <2>3. CASE sweepExpired \/ PresenceTick \/ \E a \in Accounts, ttl \in Ttls : setPresence(a, ttl)
      BY <2>3, PresenceInv
    <2>4. ASSUME NEW type \in called, HandlerDone(type) PROVE RealtimeInv'
      BY <2>4, DoneInv
    <2>5. CASE UNCHANGED realtimeVars
      BY <2>5 DEF realtimeVars, followerVars, RealtimeInv, Shape, Followed, Deduped, CountFits,
                  Seen, Opened, Live
    <2>6. QED
      BY <2>1, <2>2, <2>3, <2>4, <2>5 DEF RealtimeNext
  <1>2. QED
    BY RealtimeInitInv, InvFollows, <1>1, PTL DEF RealtimeSpec

-----------------------------------------------------------------------------
(* ProviderAdapters: a clock that is set back                               *)

(* What the limiter has allowed in a window.  Of the visit it is in it knows *)
(* how much is used; an earlier visit may have used the limit.               *)
Allowed(w) ==
  /\ spent[w] <= Limit * visits[w]
  /\ w = window.windowStart => spent[w] + Limit <= Limit * visits[w] + window.used

LimiterInv ==
  /\ spent \in [Windows -> Nat] /\ visits \in [Windows -> Nat]
  /\ window = [windowStart |-> window.windowStart, used |-> window.used]
  /\ window.used \in 0 .. Limit
  /\ \A w \in Windows : Allowed(w)

\* Of a session the store has the expiry it was issued with, or nothing once it was refused.
TokenFits(t) ==
  /\ sessions[t] \in {NoSession, issued[t]}
  /\ refused[t] # NoReading =>
       sessions[t] = NoSession /\ issued[t] # NoSession /\ issued[t] <= refused[t]

\* A call knows the expiry its token was issued with, and nothing if it began after a refusal.
VerifyFits(call) ==
  call.stage # "none" =>
    /\ call = [stage |-> call.stage, token |-> call.token, expires |-> call.expires,
               late |-> call.late, at |-> call.at]
    /\ call.token \in Tokens /\ issued[call.token] # NoSession
    /\ call.stage = "loaded" =>
         /\ call.expires \in {NoSession, issued[call.token]}
         /\ call.late => call.expires = NoSession
    /\ call.stage = "valid" => ~call.late /\ call.at \in Nat /\ call.at < issued[call.token]

TokensInv ==
  /\ nowMs \in Nat
  /\ sessions \in [Tokens -> Int] /\ issued \in [Tokens -> Int] /\ refused \in [Tokens -> Int]
  /\ verifying = [v \in Verifiers |-> verifying[v]]
  /\ \A t \in Tokens : TokenFits(t)
  /\ \A v \in Verifiers : VerifyFits(verifying[v])

LEMMA OneMore ==
  ASSUME NEW l \in Nat, NEW v \in Nat
  PROVE  l * (v + 1) = l * v + l /\ l * v \in Nat /\ l * (v + 1) \in Nat
  OBVIOUS

LEMMA ProviderInitInv == ProviderInit => LimiterInv /\ TokensInv
  <1> SUFFICES ASSUME ProviderInit PROVE LimiterInv /\ TokensInv
    OBVIOUS
  <1>1. \A w \in Windows : spent[w] = 0 /\ visits[w] = 0 /\ w # window.windowStart
    BY DEF ProviderInit, NoWindow, Windows
  <1>2. Limit * 0 = 0
    BY ProviderAssumption
  <1>3. \A w \in Windows : Allowed(w)
    BY <1>1, <1>2 DEF Allowed
  <1>4. LimiterInv
    BY <1>3, ProviderAssumption DEF ProviderInit, LimiterInv, NoWindow
  <1>5. /\ \A t \in Tokens : sessions[t] = NoSession /\ refused[t] = NoReading
        /\ \A v \in Verifiers : verifying[v].stage = "none"
    BY DEF ProviderInit, NotVerifying
  <1>7. TokensInv
    BY <1>5 DEF ProviderInit, TokensInv, TokenFits, VerifyFits, NoSession, NoReading
  <1>6. QED
    BY <1>4, <1>7

LEMMA ConsumeInv ==
  ASSUME LimiterInv, NEW cost \in Costs, consume(cost)
  PROVE  LimiterInv'
  <1>0. cost \in Nat /\ Limit \in Nat
    BY ProviderAssumption
  <1>a. PICK start : start = nowMs - (nowMs % WindowMs)
    OBVIOUS
  <1>b. PICK used \in Nat : used = IF window.windowStart # start THEN 0 ELSE window.used
    BY <1>0 DEF LimiterInv
  <1>1. PICK allows \in Nat : allows = IF Denied(used, cost) THEN 0 ELSE cost
    BY <1>0
  <1>2. used \in 0 .. Limit /\ used + allows \in 0 .. Limit
    BY <1>0, <1>1, <1>b DEF LimiterInv, Denied
  <1>3. /\ window' = [windowStart |-> start, used |-> used + allows]
        /\ window.windowStart # start => visits' = [visits EXCEPT ![start] = @ + 1]
        /\ window.windowStart = start => visits' = visits
        /\ allows = 0 => spent' = spent \/ spent' = [spent EXCEPT ![start] = @ + allows]
        /\ allows # 0 => spent' = [spent EXCEPT ![start] = @ + allows]
    BY <1>0, <1>1, <1>2, <1>a, <1>b DEF consume
  <1>4. /\ spent' \in [Windows -> Nat] /\ visits' \in [Windows -> Nat]
        /\ \A w \in Windows : w # start => spent'[w] = spent[w] /\ visits'[w] = visits[w]
        /\ start \in Windows => spent'[start] = spent[start] + allows
        /\ start \in Windows /\ window.windowStart = start => visits'[start] = visits[start]
        /\ start \in Windows /\ window.windowStart # start => visits'[start] = visits[start] + 1
    BY <1>1, <1>3 DEF LimiterInv
  <1>5. window'.windowStart = start /\ window'.used = used + allows
    BY <1>3
  <1>6. ASSUME NEW w \in Windows, w # start PROVE Allowed(w)'
    BY <1>4, <1>5, <1>6 DEF LimiterInv, Allowed
  <1>7. ASSUME start \in Windows PROVE Allowed(start)'
    <2>1. /\ spent[start] \in Nat /\ visits[start] \in Nat
          /\ spent[start] <= Limit * visits[start]
          /\ start = window.windowStart =>
               spent[start] + Limit <= Limit * visits[start] + window.used
      BY <1>7 DEF LimiterInv, Allowed
    <2>2. PICK s \in Nat, v \in Nat, p \in Nat :
            /\ s = spent[start] /\ v = visits[start] /\ p = Limit * v
            /\ Limit * (v + 1) = p + Limit
      <3>1. PICK s \in Nat, v \in Nat : s = spent[start] /\ v = visits[start]
        BY <2>1
      <3>2. Limit * (v + 1) = Limit * v + Limit /\ Limit * v \in Nat
        BY <1>0, OneMore
      <3>3. QED
        BY <3>1, <3>2
    <2>3. CASE window.windowStart = start
      <3>1. spent'[start] = s + allows /\ visits'[start] = v /\ used = window.used
        BY <1>b, <1>4, <1>7, <2>2, <2>3
      <3>2. s + Limit <= p + used
        BY <2>1, <2>2, <2>3, <3>1
      <3>3. s + allows + Limit <= p + (used + allows) /\ s + allows <= p
        BY <1>0, <1>2, <2>2, <3>2
      <3>4. QED
        BY <1>5, <2>2, <3>1, <3>3 DEF Allowed
    <2>4. CASE window.windowStart # start
      <3>1. spent'[start] = s + allows /\ visits'[start] = v + 1 /\ used = 0
        BY <1>b, <1>4, <1>7, <2>2, <2>4
      <3>2. s <= p
        BY <2>1, <2>2
      <3>3. /\ s + allows + Limit <= (p + Limit) + (used + allows)
            /\ s + allows <= p + Limit
        BY <1>0, <1>2, <2>2, <3>1, <3>2
      <3>4. QED
        BY <1>5, <2>2, <3>1, <3>3 DEF Allowed
    <2>5. QED
      BY <2>3, <2>4
  <1>8. QED
    BY <1>2, <1>3, <1>4, <1>5, <1>6, <1>7 DEF LimiterInv

LEMMA IssueInv ==
  ASSUME TokensInv, NEW t \in Tokens, issueSession(t)
  PROVE  TokensInv'
  <1>1. PICK e \in Nat : e = nowMs + SessionTtlMs
    BY ProviderAssumption DEF TokensInv
  <1>2. /\ sessions' = [sessions EXCEPT ![t] = e] /\ issued' = [issued EXCEPT ![t] = e]
        /\ issued[t] = NoSession /\ e # NoSession
        /\ nowMs' = nowMs /\ verifying' = verifying /\ refused' = refused
    BY <1>1 DEF issueSession, sessionVars, NoSession
  <1>3. \A u \in Tokens : TokenFits(u)'
    BY <1>1, <1>2 DEF TokensInv, TokenFits
  <1>4. ASSUME NEW v \in Verifiers PROVE VerifyFits(verifying[v])'
    <2>1. VerifyFits(verifying[v])
      BY DEF TokensInv
    <2>2. verifying[v].stage # "none" =>
            verifying[v].token # t /\ issued'[verifying[v].token] = issued[verifying[v].token]
      BY <1>2, <2>1 DEF TokensInv, VerifyFits
    <2>3. QED
      BY <1>2, <2>1, <2>2 DEF VerifyFits
  <1>5. QED
    BY <1>1, <1>2, <1>3, <1>4 DEF TokensInv

\* A call changes nothing of the other calls, which do not depend on what the store has.
LEMMA VerifyInv ==
  ASSUME TokensInv, NEW v \in Verifiers, NEW call,
         verifying' = [verifying EXCEPT ![v] = call], VerifyFits(call),
         nowMs' = nowMs, issued' = issued,
         sessions' \in [Tokens -> Int], refused' \in [Tokens -> Int],
         \A t \in Tokens : TokenFits(t)'
  PROVE  TokensInv'
  <1>1. verifying'[v] = call /\ verifying' = [u \in Verifiers |-> verifying'[u]]
        /\ \A u \in Verifiers : u # v => verifying'[u] = verifying[u]
    BY DEF TokensInv
  <1>2. ASSUME NEW u \in Verifiers PROVE VerifyFits(verifying[u])'
    <2>1. VerifyFits(verifying'[u])
      BY <1>1 DEF TokensInv
    <2>2. QED
      BY <2>1 DEF VerifyFits
  <1>3. QED
    BY <1>1, <1>2 DEF TokensInv

LEMMA LoadInv ==
  ASSUME TokensInv, NEW v \in Verifiers, NEW t \in Tokens, verifySession(v, t)
  PROVE  TokensInv'
  <1> DEFINE call == [stage |-> "loaded", token |-> t, expires |-> sessions[t],
                      late |-> refused[t] # NoReading, at |-> NoReading]
  <1>1. /\ verifying' = [verifying EXCEPT ![v] = call] /\ issued[t] # NoSession
        /\ nowMs' = nowMs /\ issued' = issued /\ sessions' = sessions /\ refused' = refused
    BY DEF verifySession
  <1>2. TokenFits(t)
    BY DEF TokensInv
  <1>3. VerifyFits(call)
    BY <1>1, <1>2 DEF VerifyFits, TokenFits
  <1>4. \A u \in Tokens : TokenFits(u)'
    BY <1>1 DEF TokensInv, TokenFits
  <1>5. sessions' \in [Tokens -> Int] /\ refused' \in [Tokens -> Int]
    BY <1>1 DEF TokensInv
  <1> HIDE DEF call
  <1>6. QED
    BY <1>1, <1>3, <1>4, <1>5, VerifyInv

IsVerify(call) ==
  call = [stage |-> call.stage, token |-> call.token, expires |-> call.expires,
          late |-> call.late, at |-> call.at]

LEMMA SetOne ==
  ASSUME NEW call, IsVerify(call), NEW v
  PROVE  /\ [call EXCEPT !.stage = v]
              = [stage |-> v, token |-> call.token, expires |-> call.expires,
                 late |-> call.late, at |-> call.at]
         /\ [call EXCEPT !.at = v]
              = [stage |-> call.stage, token |-> call.token, expires |-> call.expires,
                 late |-> call.late, at |-> v]
  BY DEF IsVerify

\* One more stage of a call that has loaded its session.
LEMMA NextStage ==
  ASSUME NEW call, NEW stage \in {"null", "removing", "valid"}, NEW at, VerifyFits(call),
         call.stage \in {"loaded", "removing"},
         stage = "valid" => ~call.late /\ at \in Nat /\ at < issued[call.token]
  PROVE  VerifyFits([[call EXCEPT !.stage = stage] EXCEPT !.at = at])
  <1>0. IsVerify(call) /\ call.stage # "none"
    BY DEF VerifyFits, IsVerify
  <1>1. PICK q : q = [call EXCEPT !.stage = stage]
    OBVIOUS
  <1>2. /\ IsVerify(q) /\ q.stage = stage /\ q.token = call.token
        /\ q.expires = call.expires /\ q.late = call.late
    BY <1>0, <1>1, SetOne DEF IsVerify
  <1>3. PICK p : p = [q EXCEPT !.at = at]
    OBVIOUS
  <1>4. /\ IsVerify(p) /\ p.stage = stage /\ p.token = call.token
        /\ p.expires = call.expires /\ p.late = call.late /\ p.at = at
    BY <1>2, <1>3, SetOne DEF IsVerify
  <1>5. VerifyFits(p)
    BY <1>4 DEF VerifyFits, IsVerify
  <1>6. QED
    BY <1>1, <1>3, <1>5

LEMMA DecideInv ==
  ASSUME TokensInv, NEW v \in Verifiers, VerifyDecides(v)
  PROVE  TokensInv'
  <1> DEFINE call == verifying[v]
             then(stage) == [[call EXCEPT !.stage = stage] EXCEPT !.at = nowMs]
  <1>0. /\ VerifyFits(call) /\ call.stage = "loaded" /\ call.token \in Tokens /\ nowMs \in Nat
        /\ call.expires \in {NoSession, issued[call.token]}
        /\ call.late => call.expires = NoSession
        /\ nowMs' = nowMs /\ issued' = issued
        /\ sessions \in [Tokens -> Int] /\ refused \in [Tokens -> Int]
        /\ issued[call.token] \in Int
    BY DEF VerifyDecides, TokensInv, VerifyFits
  <1>1. ASSUME NEW stage \in {"null", "removing", "valid"},
               verifying' = [verifying EXCEPT ![v].stage = stage, ![v].at = nowMs]
        PROVE  verifying' = [verifying EXCEPT ![v] = then(stage)]
    BY <1>1 DEF TokensInv
  <1>2. CASE call.expires # NoSession /\ Expired(call.expires)
    <2>1. /\ verifying' = [verifying EXCEPT ![v] = then("removing")]
          /\ sessions' = [sessions EXCEPT ![call.token] = NoSession]
          /\ refused' = [refused EXCEPT ![call.token] = Earliest(@)]
      BY <1>1, <1>2 DEF VerifyDecides
    <2>2. VerifyFits(then("removing"))
      BY <1>0, NextStage
    <2>3. issued[call.token] <= nowMs /\ issued[call.token] # NoSession
      BY <1>0, <1>2 DEF Expired
    <2>4. PICK r \in Int : r = Earliest(refused[call.token])
      BY <1>0 DEF Earliest
    <2>5. issued[call.token] <= r
      BY <1>0, <2>3, <2>4 DEF Earliest, TokensInv, TokenFits
    <2>6. sessions' \in [Tokens -> Int] /\ refused' \in [Tokens -> Int]
      BY <1>0, <2>1, <2>4 DEF NoSession
    <2>7. ASSUME NEW t \in Tokens PROVE TokenFits(t)'
      <3>1. CASE t = call.token
        BY <1>0, <2>1, <2>3, <2>4, <2>5, <3>1 DEF TokenFits
      <3>2. CASE t # call.token
        BY <1>0, <2>1, <3>2 DEF TokensInv, TokenFits
      <3>3. QED
        BY <3>1, <3>2
    <2> HIDE DEF call, then
    <2>8. QED
      BY <1>0, <2>1, <2>2, <2>6, <2>7, VerifyInv
  <1>3. CASE ~(call.expires # NoSession /\ Expired(call.expires))
    <2>1. /\ sessions' = sessions /\ refused' = refused
          /\ \/ verifying' = [verifying EXCEPT ![v] = then("null")]
             \/ /\ verifying' = [verifying EXCEPT ![v] = then("valid")]
                /\ call.expires # NoSession
      BY <1>1, <1>3 DEF VerifyDecides
    <2>2. VerifyFits(then("null"))
      BY <1>0, NextStage
    <2>3. call.expires # NoSession => VerifyFits(then("valid"))
      <3>1. call.expires # NoSession => ~call.late /\ nowMs < issued[call.token]
        BY <1>0, <1>3 DEF Expired
      <3>2. QED
        BY <1>0, <3>1, NextStage
    <2>4. sessions' \in [Tokens -> Int] /\ refused' \in [Tokens -> Int]
      BY <1>0, <2>1
    <2>5. \A t \in Tokens : TokenFits(t)'
      BY <1>0, <2>1 DEF TokensInv, TokenFits
    <2> HIDE DEF call, then
    <2>6. QED
      BY <1>0, <2>1, <2>2, <2>3, <2>4, <2>5, VerifyInv
  <1>4. QED
    BY <1>2, <1>3

LEMMA ReturnInv ==
  ASSUME TokensInv, NEW v \in Verifiers, VerifyReturns(v)
  PROVE  TokensInv'
  <1> DEFINE call == verifying[v]
             then == [[call EXCEPT !.stage = "null"] EXCEPT !.at = call.at]
  <1>1. /\ VerifyFits(call) /\ call.stage = "removing"
        /\ nowMs' = nowMs /\ issued' = issued /\ sessions' = sessions /\ refused' = refused
    BY DEF VerifyReturns, TokensInv
  <1>2. verifying' = [verifying EXCEPT ![v] = then]
    BY <1>1 DEF VerifyReturns, TokensInv, VerifyFits
  <1>3. VerifyFits(then)
    BY <1>1, NextStage
  <1>4. sessions' \in [Tokens -> Int] /\ refused' \in [Tokens -> Int]
    BY <1>1 DEF TokensInv
  <1>5. \A t \in Tokens : TokenFits(t)'
    BY <1>1 DEF TokensInv, TokenFits
  <1> HIDE DEF call, then
  <1>6. QED
    BY <1>1, <1>2, <1>3, <1>4, <1>5, VerifyInv

(* For any way the clock moves, also backwards: FixedWindowRateLimiter       *)
(* allows at most the limit on each visit of the clock to a window, and a    *)
(* verifySession answers with a session that was found expired only if it    *)
(* had loaded it before, and only by a reading before all those.             *)
THEOREM ClockSafeCorrect == ProviderSpec => []ClockSafe
  <1> DEFINE PInv == LimiterInv /\ TokensInv
  <1>1. PInv /\ [ProviderNext]_providerVars => PInv'
    <2> SUFFICES ASSUME PInv, [ProviderNext]_providerVars PROVE PInv'
      OBVIOUS
    <2>1. ASSUME ClockNext PROVE PInv'
      <3>1. PICK t \in Nat : nowMs' = t /\ UNCHANGED <<limiterVars, sessionVars>>
        BY <2>1 DEF ClockNext, ClockReads
      <3>2. LimiterInv'
        BY <3>1 DEF limiterVars, LimiterInv, Allowed, Windows
      <3>3. TokensInv'
        BY <3>1 DEF sessionVars, TokensInv, TokenFits, VerifyFits
      <3>4. QED
        BY <3>2, <3>3
    <2>2. ASSUME LimiterNext PROVE PInv'
      <3>1. PICK cost \in Costs : consume(cost)
        BY <2>2 DEF LimiterNext
      <3>2. LimiterInv'
        BY <3>1, ConsumeInv
      <3>3. nowMs' = nowMs /\ UNCHANGED sessionVars
        BY <3>1 DEF consume
      <3>4. TokensInv'
        BY <3>3 DEF sessionVars, TokensInv, TokenFits, VerifyFits
      <3>5. QED
        BY <3>2, <3>4
    <2>3. ASSUME SessionNext PROVE PInv'
      <3>1. UNCHANGED limiterVars
        BY <2>3 DEF SessionNext, issueSession, verifySession, VerifyDecides, VerifyReturns
      <3>2. LimiterInv'
        BY <3>1 DEF limiterVars, LimiterInv, Allowed, Windows
      <3>3. TokensInv'
        BY <2>3, IssueInv, LoadInv, DecideInv, ReturnInv DEF SessionNext
      <3>4. QED
        BY <3>2, <3>3
    <2>4. CASE UNCHANGED providerVars
      BY <2>4 DEF providerVars, limiterVars, sessionVars, LimiterInv, TokensInv, TokenFits, VerifyFits,
                  Allowed, Windows
    <2>5. QED
      BY <2>1, <2>2, <2>3, <2>4 DEF ProviderNext
  <1>2. PInv => ClockSafe
    <2> SUFFICES ASSUME PInv, NEW v \in Verifiers, verifying[v].stage = "valid"
                 PROVE  /\ ~verifying[v].late
                        /\ refused[verifying[v].token] # NoReading =>
                             verifying[v].at < refused[verifying[v].token]
      BY DEF LimiterInv, Allowed, ClockSafe
    <2>1. /\ verifying[v].token \in Tokens /\ ~verifying[v].late
          /\ verifying[v].at \in Nat /\ verifying[v].at < issued[verifying[v].token]
      BY DEF TokensInv, VerifyFits
    <2>2. /\ TokenFits(verifying[v].token)
          /\ issued[verifying[v].token] \in Int /\ refused[verifying[v].token] \in Int
      BY <2>1 DEF TokensInv
    <2>3. QED
      BY <2>1, <2>2 DEF TokenFits
  <1>3. QED
    BY ProviderInitInv, <1>1, <1>2, PTL DEF ProviderSpec

-----------------------------------------------------------------------------
(* HealthProbe                                                              *)

USE HealthAssumption

Outcomes == {"success", "failure"}

\* The count is how long the failures have lasted, and the state says so.
Tracks(t) ==
  /\ outcomes[t] \in Seq(Outcomes)
  /\ tracker[t].consecutiveFailures \in Nat
  /\ \A n \in Nat : FailedLast(outcomes[t], n) <=> n <= tracker[t].consecutiveFailures
  /\ tracker[t].consecutiveFailures = 0 => tracker[t].state \in {"unknown", "up"}
  /\ tracker[t].consecutiveFailures # 0 =>
       tracker[t].state = IF tracker[t].consecutiveFailures >= failureThreshold THEN "down" ELSE "degraded"

TrackersInv ==
  /\ outcomes = [t \in Trackers |-> outcomes[t]] /\ tracker = [t \in Trackers |-> tracker[t]]
  /\ components \subseteq Trackers \cup Others
  /\ \A t \in Trackers : Tracks(t)

\* A report that says how things were.
Verdict(told, report) ==
  /\ report \in {"healthy", "degraded", "unhealthy"}
  /\ report = "healthy" <=> ~FailedLast(told, 1)
  /\ report = "unhealthy" <=> FailedLast(told, failureThreshold)

ReportsFit(asked, reports, told) ==
  /\ asked \subseteq Trackers \cup Others
  /\ DOMAIN reports \subseteq asked /\ asked \cap Trackers \subseteq DOMAIN reports
  /\ \A c \in DOMAIN reports : reports[c] \in {"healthy", "degraded", "unhealthy"}
  /\ \A t \in asked \cap Trackers : Verdict(told[t], reports[t])

ProbeInv ==
  /\ probe.pc \in {"none", "checking", "answered"}
  /\ probe.pc = "checking" =>
       probe = [pc |-> "checking", asked |-> probe.asked, reports |-> probe.reports, told |-> probe.told]
  /\ probe.pc # "none" => ReportsFit(probe.asked, probe.reports, probe.told)
  /\ probe.pc = "answered" =>
       /\ DOMAIN probe.reports = probe.asked
       /\ probe.ready <=> \A c \in probe.asked : probe.reports[c] = "healthy"

LEMMA FailedAppend ==
  ASSUME NEW s \in Seq(Outcomes), NEW o \in Outcomes, NEW n \in Nat
  PROVE  FailedLast(Append(s, o), n) <=> n = 0 \/ (o = "failure" /\ FailedLast(s, n - 1))
  <1>1. /\ Len(s) \in Nat /\ Len(Append(s, o)) = Len(s) + 1
        /\ Append(s, o)[Len(s) + 1] = o
        /\ \A i \in 1 .. Len(s) : Append(s, o)[i] = s[i]
    BY AppendProperties, LenProperties
  <1>2. CASE n = 0
    BY <1>1, <1>2 DEF FailedLast
  <1>3. CASE n # 0 /\ n <= Len(s) + 1
    <2>1. FailedLast(Append(s, o), n) <=>
            \A i \in Len(s) + 1 - n + 1 .. Len(s) + 1 : Append(s, o)[i] = "failure"
      BY <1>1, <1>3 DEF FailedLast
    <2>2. FailedLast(s, n - 1) <=> \A i \in Len(s) - (n - 1) + 1 .. Len(s) : s[i] = "failure"
      BY <1>1, <1>3 DEF FailedLast
    <2>3. ASSUME FailedLast(Append(s, o), n) PROVE o = "failure" /\ FailedLast(s, n - 1)
      <3>1. o = "failure"
        BY <1>1, <1>3, <2>1, <2>3
      <3>2. ASSUME NEW i \in Len(s) - (n - 1) + 1 .. Len(s) PROVE s[i] = "failure"
        <4>1. i \in Len(s) + 1 - n + 1 .. Len(s) + 1 /\ i \in 1 .. Len(s)
          BY <1>1, <1>3
        <4>2. QED
          BY <1>1, <2>1, <2>3, <4>1
      <3>3. QED
        BY <2>2, <3>1, <3>2
    <2>4. ASSUME o = "failure", FailedLast(s, n - 1) PROVE FailedLast(Append(s, o), n)
      <3>1. ASSUME NEW i \in Len(s) + 1 - n + 1 .. Len(s) + 1 PROVE Append(s, o)[i] = "failure"
        <4>1. CASE i = Len(s) + 1
          BY <1>1, <2>4, <4>1
        <4>2. CASE i # Len(s) + 1
          <5>1. i \in Len(s) - (n - 1) + 1 .. Len(s) /\ i \in 1 .. Len(s)
            BY <1>1, <1>3, <4>2
          <5>2. QED
            BY <1>1, <2>2, <2>4, <5>1
        <4>3. QED
          BY <4>1, <4>2
      <3>2. QED
        BY <2>1, <3>1
    <2>5. QED
      BY <1>3, <2>3, <2>4
  <1>4. CASE n > Len(s) + 1
    <2>1. ~FailedLast(Append(s, o), n) /\ ~FailedLast(s, n - 1)
      BY <1>1, <1>4 DEF FailedLast
    <2>2. QED
      BY <1>1, <1>4, <2>1
  <1>5. QED
    BY <1>1, <1>2, <1>3, <1>4

LEMMA HealthInitInv == HealthInit => TrackersInv /\ ProbeInv
  <1> SUFFICES ASSUME HealthInit PROVE TrackersInv /\ ProbeInv
    OBVIOUS
  <1>1. ASSUME NEW t \in Trackers PROVE Tracks(t)
    <2>1. /\ outcomes[t] = << >> /\ tracker[t].state = "unknown" /\ tracker[t].consecutiveFailures = 0
      BY DEF HealthInit
    <2>2. \A n \in Nat : FailedLast(<< >>, n) <=> n <= 0
      BY DEF FailedLast
    <2>3. QED
      BY <2>1, <2>2 DEF Tracks
  <1>2. TrackersInv
    BY <1>1 DEF HealthInit, TrackersInv
  <1>3. ProbeInv
    BY DEF HealthInit, ProbeInv, NoProbe
  <1>4. QED
    BY <1>2, <1>3

\* What a tracker is told keeps the count right.
LEMMA ToldInv ==
  ASSUME TrackersInv, NEW t \in Trackers, NEW o \in Outcomes, NEW state, NEW m \in Nat,
         Tell(t, o, state, m),
         o = "success" => m = 0 /\ state = "up",
         o = "failure" => /\ m = tracker[t].consecutiveFailures + 1
                          /\ state = IF m >= failureThreshold THEN "down" ELSE "degraded"
  PROVE  TrackersInv'
  <1> DEFINE n == tracker[t].consecutiveFailures
  <1>0. n \in Nat /\ Tracks(t) /\ outcomes[t] \in Seq(Outcomes)
    BY DEF TrackersInv, Tracks
  <1>1. /\ o = "success" => m = 0 /\ state = "up"
        /\ o = "failure" => m = n + 1 /\ state = IF m >= failureThreshold THEN "down" ELSE "degraded"
    OBVIOUS
  <1>2. /\ outcomes'[t] = Append(outcomes[t], o) /\ tracker'[t].state = state
        /\ tracker'[t].consecutiveFailures = m
        /\ \A u \in Trackers : u # t => outcomes'[u] = outcomes[u] /\ tracker'[u] = tracker[u]
        /\ outcomes' = [u \in Trackers |-> outcomes'[u]] /\ tracker' = [u \in Trackers |-> tracker'[u]]
        /\ components' = components
    BY DEF Tell, TrackersInv
  <1>3. Append(outcomes[t], o) \in Seq(Outcomes)
    BY <1>0, AppendProperties
  <1>4. ASSUME NEW k \in Nat PROVE FailedLast(Append(outcomes[t], o), k) <=> k <= m
    <2>1. FailedLast(Append(outcomes[t], o), k) <=> k = 0 \/ (o = "failure" /\ FailedLast(outcomes[t], k - 1))
      BY <1>0, FailedAppend
    <2>2. CASE k = 0
      BY <2>1, <2>2
    <2>3. CASE k # 0 /\ o = "success"
      BY <1>1, <2>1, <2>3
    <2>4. CASE k # 0 /\ o = "failure"
      <3>1. FailedLast(outcomes[t], k - 1) <=> k - 1 <= n
        BY <1>0, <2>4 DEF Tracks
      <3>2. QED
        BY <1>0, <1>1, <2>1, <2>4, <3>1
    <2>5. QED
      BY <2>2, <2>3, <2>4 DEF Outcomes
  <1>5. Tracks(t)'
    <2>1. m = 0 => state \in {"unknown", "up"}
      BY <1>0, <1>1 DEF Outcomes
    <2>2. m # 0 => state = IF m >= failureThreshold THEN "down" ELSE "degraded"
      BY <1>0, <1>1 DEF Outcomes
    <2>3. QED
      BY <1>2, <1>3, <1>4, <2>1, <2>2 DEF Tracks
  <1>6. ASSUME NEW u \in Trackers, u # t PROVE Tracks(u)'
    BY <1>2, <1>6 DEF TrackersInv, Tracks
  <1>7. QED
    BY <1>2, <1>5, <1>6 DEF TrackersInv

LEMMA TellInv ==
  ASSUME TrackersInv, NEW t \in Trackers, recordSuccess(t) \/ recordFailure(t)
  PROVE  TrackersInv'
  <1>1. CASE recordSuccess(t)
    BY <1>1, ToldInv DEF recordSuccess, Outcomes
  <1>2. CASE recordFailure(t)
    <2>1. PICK m : m = tracker[t].consecutiveFailures + 1
      OBVIOUS
    <2>2. m \in Nat
      BY <2>1 DEF TrackersInv, Tracks
    <2>3. PICK state : state = IF m >= failureThreshold THEN "down" ELSE "degraded"
      OBVIOUS
    <2>4. Tell(t, "failure", state, m)
      BY <1>2, <2>1, <2>3 DEF recordFailure
    <2>5. QED
      BY <2>1, <2>2, <2>3, <2>4, ToldInv DEF Outcomes
  <1>3. QED
    BY <1>1, <1>2

\* A tracker that is asked answers what it was told.
LEMMA TrackerAnswers ==
  ASSUME TrackersInv, NEW t \in Trackers
  PROVE  Verdict(outcomes[t], toHealthState[tracker[t].state])
  <1> DEFINE n == tracker[t].consecutiveFailures
  <1>0. n \in Nat /\ Tracks(t)
    BY DEF TrackersInv, Tracks
  <1>1. FailedLast(outcomes[t], 1) <=> n # 0
    BY <1>0 DEF Tracks
  <1>2. FailedLast(outcomes[t], failureThreshold) <=> failureThreshold <= n
    BY <1>0 DEF Tracks
  <1>3. CASE n = 0
    <2>1. toHealthState[tracker[t].state] = "healthy"
      BY <1>0, <1>3 DEF Tracks, toHealthState
    <2>2. QED
      BY <1>0, <1>1, <1>2, <1>3, <2>1 DEF Verdict
  <1>4. CASE n # 0 /\ n >= failureThreshold
    <2>1. toHealthState[tracker[t].state] = "unhealthy"
      BY <1>0, <1>4 DEF Tracks, toHealthState
    <2>2. QED
      BY <1>0, <1>1, <1>2, <1>4, <2>1 DEF Verdict
  <1>5. CASE n # 0 /\ n < failureThreshold
    <2>1. toHealthState[tracker[t].state] = "degraded"
      BY <1>0, <1>5 DEF Tracks, toHealthState
    <2>2. QED
      BY <1>0, <1>1, <1>2, <1>5, <2>1 DEF Verdict
  <1>6. QED
    BY <1>0, <1>3, <1>4, <1>5

LEMMA ProbeStep ==
  ASSUME TrackersInv, ProbeInv,
         readiness \/ Answer
         \/ \E c \in Others, state \in DOMAIN Rank \cup {"throws"} : CheckSettles(c, state)
  PROVE  ProbeInv'
  <1>1. CASE readiness
    <2> DEFINE R == [t \in components \cap Trackers |-> toHealthState[tracker[t].state]]
    <2>1. probe' = [pc |-> "checking", asked |-> components, reports |-> R, told |-> outcomes]
      BY <1>1 DEF readiness
    <2>2. DOMAIN R = components \cap Trackers /\ components \subseteq Trackers \cup Others
      BY DEF TrackersInv
    <2>3. \A t \in components \cap Trackers : Verdict(outcomes[t], R[t])
      BY TrackerAnswers
    <2>4. ReportsFit(components, R, outcomes)
      BY <2>2, <2>3 DEF ReportsFit, Verdict
    <2> HIDE DEF R
    <2>5. QED
      BY <2>1, <2>4 DEF ProbeInv
  <1>2. ASSUME NEW c \in Others, NEW state \in DOMAIN Rank \cup {"throws"}, CheckSettles(c, state)
        PROVE  ProbeInv'
    <2>1. /\ probe.pc = "checking" /\ c \in probe.asked /\ c \notin DOMAIN probe.reports
          /\ ReportsFit(probe.asked, probe.reports, probe.told)
      BY <1>2 DEF CheckSettles, ProbeInv
    <2>2. PICK report \in {"healthy", "degraded", "unhealthy"} :
            report = IF state = "throws" THEN "unhealthy" ELSE state
      BY DEF Rank
    <2> DEFINE R == [d \in DOMAIN probe.reports \cup {c} |-> IF d # c THEN probe.reports[d] ELSE report]
    <2>3. probe' = [pc |-> "checking", asked |-> probe.asked, reports |-> R, told |-> probe.told]
      <3>1. probe' = [probe EXCEPT !.reports = R]
        BY <1>2, <2>2 DEF CheckSettles
      <3>2. probe = [pc |-> "checking", asked |-> probe.asked, reports |-> probe.reports, told |-> probe.told]
        BY <2>1 DEF ProbeInv
      <3> HIDE DEF R
      <3>3. QED
        BY <3>1, <3>2
    <2>4. ReportsFit(probe.asked, R, probe.told)
      <3>1. DOMAIN R = DOMAIN probe.reports \cup {c} /\ c \notin probe.asked \cap Trackers
        BY <2>1 DEF ReportsFit
      <3>2. \A d \in DOMAIN probe.reports : R[d] = probe.reports[d]
        BY <2>1
      <3>3. R[c] = report
        OBVIOUS
      <3> HIDE DEF R
      <3>4. QED
        BY <2>1, <3>1, <3>2, <3>3 DEF ReportsFit
    <2> HIDE DEF R
    <2>5. QED
      BY <2>3, <2>4 DEF ProbeInv
  <1>3. CASE Answer
    <2> DEFINE P(rank) == /\ rank = 0 \/ \E c \in probe.asked : Rank[probe.reports[c]] = rank
                          /\ \A c \in probe.asked : Rank[probe.reports[c]] <= rank
    <2>1. /\ probe.pc = "checking" /\ DOMAIN probe.reports = probe.asked
          /\ ReportsFit(probe.asked, probe.reports, probe.told)
      BY <1>3 DEF Answer, ProbeInv
    <2>2. \A c \in probe.asked : /\ probe.reports[c] \in {"healthy", "degraded", "unhealthy"}
                                 /\ Rank[probe.reports[c]] \in 0 .. 2
                                 /\ Rank[probe.reports[c]] = 0 <=> probe.reports[c] = "healthy"
      BY <2>1 DEF ReportsFit, Rank
    <2>3. \E rank \in 0 .. 2 : P(rank)
      <3>1. CASE \E c \in probe.asked : Rank[probe.reports[c]] = 2
        BY <2>2, <3>1
      <3>2. CASE ~(\E c \in probe.asked : Rank[probe.reports[c]] = 2)
                 /\ \E c \in probe.asked : Rank[probe.reports[c]] = 1
        <4>1. P(1)
          BY <2>2, <3>2
        <4>2. QED
          BY <4>1
      <3>3. CASE /\ ~(\E c \in probe.asked : Rank[probe.reports[c]] = 2)
                 /\ ~(\E c \in probe.asked : Rank[probe.reports[c]] = 1)
        <4>1. P(0)
          BY <2>2, <3>3
        <4>2. QED
          BY <4>1
      <3>4. QED
        BY <3>1, <3>2, <3>3
    <2>4. PICK worst : worst = CHOOSE rank \in 0 .. 2 : P(rank)
      OBVIOUS
    <2>5. worst \in 0 .. 2 /\ P(worst)
      <3> HIDE DEF P
      <3>1. QED
        BY <2>3, <2>4
    <2>6. worst = 0 <=> \A c \in probe.asked : probe.reports[c] = "healthy"
      BY <2>2, <2>5
    <2>7. probe' = [pc |-> "answered", asked |-> probe.asked, reports |-> probe.reports,
                    told |-> probe.told, ready |-> worst = 0]
      BY <1>3, <2>4 DEF Answer
    <2>8. /\ probe'.pc = "answered" /\ probe'.asked = probe.asked /\ probe'.reports = probe.reports
          /\ probe'.told = probe.told /\ probe'.ready = (worst = 0)
      BY <2>7
    <2>9. probe'.ready <=> \A c \in probe'.asked : probe'.reports[c] = "healthy"
      BY <2>6, <2>8, Zenon
    <2>10. DOMAIN probe'.reports = probe'.asked /\ ReportsFit(probe'.asked, probe'.reports, probe'.told)
      BY <2>1, <2>8
    <2>11. QED
      BY <2>8, <2>9, <2>10 DEF ProbeInv
  <1>4. QED
    BY <1>1, <1>2, <1>3

-----------------------------------------------------------------------------

LEMMA BaselineShape ==
  ASSUME NEW c \in Baselines
  PROVE  \E install :
           \/ c = [available |-> TRUE, requiresExplicitInstall |-> install, unavailableReason |-> "none"]
           \/ c = [available |-> FALSE, requiresExplicitInstall |-> install, unavailableReason |-> "baseline"]
  <1>1. PICK d, f, p : c = getBaselineCapability(d, f, p)
    BY DEF Baselines
  <1>2. CASE f # "local"
    BY <1>1, <1>2 DEF getBaselineCapability, available, Capability
  <1>3. CASE f = "local" /\ p \in localPlatforms(d)
    BY <1>1, <1>3 DEF getBaselineCapability, available, Capability
  <1>4. CASE f = "local" /\ p \notin localPlatforms(d)
    BY <1>1, <1>4 DEF getBaselineCapability, unavailable, Capability
  <1>5. QED
    BY <1>2, <1>3, <1>4

\* What applyHealthToCapability makes of a report.
LEMMA HealthFolds ==
  ASSUME NEW c \in Baselines, NEW h \in {"unknown", "healthy", "degraded", "unhealthy"}
  PROVE  /\ applyHealthToCapability(c, h).available <=> c.available /\ h # "unhealthy"
         /\ applyHealthToCapability(c, h).unavailableReason # "none"
              <=> ~c.available \/ h \in {"degraded", "unhealthy"}
         /\ applyHealthToCapability(c, h).requiresExplicitInstall = c.requiresExplicitInstall
  <1>1. PICK install :
          \/ c = [available |-> TRUE, requiresExplicitInstall |-> install, unavailableReason |-> "none"]
          \/ c = [available |-> FALSE, requiresExplicitInstall |-> install, unavailableReason |-> "baseline"]
    BY BaselineShape
  <1>2. CASE c = [available |-> FALSE, requiresExplicitInstall |-> install, unavailableReason |-> "baseline"]
    <2>1. c.available = FALSE /\ c.unavailableReason = "baseline"
      BY <1>2
    <2>2. applyHealthToCapability(c, h) = c
      BY <2>1, Zenon DEF applyHealthToCapability
    <2>3. QED
      BY <2>1, <2>2
  <1>3. CASE c = [available |-> TRUE, requiresExplicitInstall |-> install, unavailableReason |-> "none"]
    <2>1. c.available = TRUE /\ c.unavailableReason = "none"
      BY <1>3
    <2>2. CASE h \in {"unknown", "healthy"}
      <3>1. applyHealthToCapability(c, h) = c
        BY <2>1, <2>2 DEF applyHealthToCapability, providerStateFromHealth
      <3>2. QED
        BY <2>1, <2>2, <3>1
    <2>3. CASE h = "degraded"
      <3>1. applyHealthToCapability(c, h)
              = [available |-> TRUE, requiresExplicitInstall |-> install, unavailableReason |-> "degraded"]
        BY <1>3, <2>3 DEF applyHealthToCapability, providerStateFromHealth
      <3>2. QED
        BY <1>3, <2>3, <3>1
    <2>4. CASE h = "unhealthy"
      <3>1. applyHealthToCapability(c, h)
              = [available |-> FALSE, requiresExplicitInstall |-> install, unavailableReason |-> "unhealthy"]
        BY <1>3, <2>4 DEF applyHealthToCapability, providerStateFromHealth
      <3>2. QED
        BY <1>3, <2>4, <3>1
    <2>5. QED
      BY <2>2, <2>3, <2>4
  <1>4. QED
    BY <1>1, <1>2, <1>3

LEMMA ProbeGives == ProbeInv => ProbeTruth
  <1> SUFFICES ASSUME ProbeInv, probe.pc = "answered"
               PROVE  /\ probe.ready <=>
                           /\ \A c \in probe.asked \cap Others : probe.reports[c] = "healthy"
                           /\ \A t \in probe.asked \cap Trackers : ~FailedLast(probe.told[t], 1)
                      /\ \A t \in probe.asked \cap Trackers :
                           probe.reports[t] = "unhealthy" <=> FailedLast(probe.told[t], failureThreshold)
                      /\ \A c \in Baselines, t \in Trackers :
                           LET failed(n) == t \in probe.asked /\ FailedLast(probe.told[t], n)
                           IN /\ Effective(c, t).available <=> c.available /\ ~failed(failureThreshold)
                              /\ Effective(c, t).unavailableReason # "none" <=> ~c.available \/ failed(1)
                              /\ Effective(c, t).requiresExplicitInstall = c.requiresExplicitInstall
    BY DEF ProbeTruth
  <1>1. /\ ReportsFit(probe.asked, probe.reports, probe.told)
        /\ probe.ready <=> \A c \in probe.asked : probe.reports[c] = "healthy"
    BY DEF ProbeInv
  <1>2. \A t \in probe.asked \cap Trackers : Verdict(probe.told[t], probe.reports[t])
    BY <1>1 DEF ReportsFit
  <1>3. probe.asked = (probe.asked \cap Others) \cup (probe.asked \cap Trackers)
    BY <1>1 DEF ReportsFit
  <1>4. probe.ready <=>
           /\ \A c \in probe.asked \cap Others : probe.reports[c] = "healthy"
           /\ \A t \in probe.asked \cap Trackers : ~FailedLast(probe.told[t], 1)
    <2>1. (\A c \in probe.asked : probe.reports[c] = "healthy") <=>
            /\ \A c \in probe.asked \cap Others : probe.reports[c] = "healthy"
            /\ \A t \in probe.asked \cap Trackers : probe.reports[t] = "healthy"
      BY <1>3
    <2>2. (\A t \in probe.asked \cap Trackers : probe.reports[t] = "healthy") <=>
            \A t \in probe.asked \cap Trackers : ~FailedLast(probe.told[t], 1)
      BY <1>2 DEF Verdict
    <2>3. QED
      BY <1>1, <2>1, <2>2
  <1>5. \A t \in probe.asked \cap Trackers :
           probe.reports[t] = "unhealthy" <=> FailedLast(probe.told[t], failureThreshold)
    BY <1>2 DEF Verdict
  <1>6. ASSUME NEW c \in Baselines, NEW t \in Trackers
        PROVE  LET failed(n) == t \in probe.asked /\ FailedLast(probe.told[t], n)
               IN /\ Effective(c, t).available <=> c.available /\ ~failed(failureThreshold)
                  /\ Effective(c, t).unavailableReason # "none" <=> ~c.available \/ failed(1)
                  /\ Effective(c, t).requiresExplicitInstall = c.requiresExplicitInstall
    <2>1. CASE t \in probe.asked
      <3>1. Verdict(probe.told[t], probe.reports[t])
        BY <1>2, <2>1
      <3>2. PICK h \in {"unknown", "healthy", "degraded", "unhealthy"} : h = probe.reports[t]
        BY <3>1 DEF Verdict
      <3>3. Effective(c, t) = applyHealthToCapability(c, h)
        BY <2>1, <3>2, Zenon DEF Effective
      <3>4. /\ h = "unhealthy" <=> FailedLast(probe.told[t], failureThreshold)
            /\ h \in {"degraded", "unhealthy"} <=> FailedLast(probe.told[t], 1)
        BY <3>1, <3>2 DEF Verdict
      <3>5. /\ applyHealthToCapability(c, h).available <=> c.available /\ h # "unhealthy"
            /\ applyHealthToCapability(c, h).unavailableReason # "none"
                 <=> ~c.available \/ h \in {"degraded", "unhealthy"}
            /\ applyHealthToCapability(c, h).requiresExplicitInstall = c.requiresExplicitInstall
        BY HealthFolds
      <3>6. QED
        BY <2>1, <3>3, <3>4, <3>5, Zenon
    <2>2. CASE t \notin probe.asked
      <3>1. PICK h \in {"unknown", "healthy", "degraded", "unhealthy"} : h = "unknown"
        OBVIOUS
      <3>2. Effective(c, t) = applyHealthToCapability(c, h)
        BY <2>2, <3>1, Zenon DEF Effective
      <3>3. /\ applyHealthToCapability(c, h).available <=> c.available
            /\ applyHealthToCapability(c, h).unavailableReason # "none" <=> ~c.available
            /\ applyHealthToCapability(c, h).requiresExplicitInstall = c.requiresExplicitInstall
        BY <3>1, HealthFolds
      <3>4. QED
        BY <2>2, <3>2, <3>3, Zenon
    <2>3. QED
      BY <2>1, <2>2
  <1>7. QED
    BY <1>4, <1>5, <1>6

(* HealthAggregator.readiness over any trackers and other checks, with any   *)
(* failureThreshold above zero: whatever a probe overlaps, its answer is how *)
(* things were when it began, and the capability matrix folded with its      *)
(* reports agrees.                                                           *)
THEOREM ProbeTruthCorrect == HealthSpec => []ProbeTruth
  <1> DEFINE HInv == TrackersInv /\ ProbeInv
  <1>1. HInv /\ [HealthNext]_healthVars => HInv'
    <2> SUFFICES ASSUME HInv, [HealthNext]_healthVars PROVE HInv'
      OBVIOUS
    <2>1. ASSUME NEW c \in Trackers \cup Others, register(c) \/ unregister(c) PROVE HInv'
      <3>1. TrackersInv'
        BY <2>1 DEF register, unregister, TrackersInv, Tracks
      <3>2. ProbeInv'
        BY <2>1 DEF register, unregister, ProbeInv
      <3>3. QED
        BY <3>1, <3>2
    <2>2. ASSUME NEW t \in Trackers, recordSuccess(t) \/ recordFailure(t) PROVE HInv'
      <3>1. TrackersInv'
        BY <2>2, TellInv
      <3>2. ProbeInv'
        BY <2>2 DEF recordSuccess, recordFailure, Tell, ProbeInv
      <3>3. QED
        BY <3>1, <3>2
    <2>3. CASE readiness \/ Answer
               \/ \E c \in Others, state \in DOMAIN Rank \cup {"throws"} : CheckSettles(c, state)
      <3>1. ProbeInv'
        BY <2>3, ProbeStep
      <3>2. TrackersInv'
        BY <2>3 DEF readiness, Answer, CheckSettles, TrackersInv, Tracks
      <3>3. QED
        BY <3>1, <3>2
    <2>4. CASE UNCHANGED healthVars
      BY <2>4 DEF healthVars, TrackersInv, Tracks, ProbeInv
    <2>5. QED
      BY <2>1, <2>2, <2>3, <2>4 DEF HealthNext
  <1>2. HInv => ProbeTruth
    BY ProbeGives
  <1>3. QED
    BY HealthInitInv, <1>1, <1>2, PTL DEF HealthSpec

HIDE HealthAssumption

-----------------------------------------------------------------------------
(* Notifications                                                            *)

USE NotificationAssumption

AttemptRecord == [channel : ToSet(Channels), state : {"skipped", "sent", "failed"}]
AllPreferences == Preferences \cup {allowAllPreferences}

Call ==
  [pc : {"publishing", "sending", "rejected"}, template : Templates, reminder : Reminders \cup {"none"},
   due : Nat, firedAt : Nat, read : AllPreferences, attempts : Seq(AttemptRecord),
   inForce : SUBSET AllPreferences]

\* A call knows the preferences in force, and sends by those it has read.
CallFits(c) ==
  /\ c \in Call /\ prefs \in c.inForce
  /\ c.pc = "sending" => c.read \in c.inForce
  /\ c.pc # "sending" => c.attempts = << >>
  /\ Len(c.attempts) <= Len(Channels)

CallsInv ==
  /\ prefs \in AllPreferences
  /\ notice = [n \in Notices |-> notice[n]]
  /\ \A n \in Notices : notice[n] # NotCalled => CallFits(notice[n])

\* A delivery is an attempt of its call, wanted by the preferences that were read.
Wanted(d) ==
  LET c == notice[d.notice]
  IN  /\ d.notice \in Notices /\ c # NotCalled /\ c.pc = "sending" /\ d.attempt \in DOMAIN c.attempts
      /\ c.template \notin c.read.muted /\ d.channel \notin c.read.off

Sent(n, i) == [notice |-> n, attempt |-> i, channel |-> Channels[i], ok |-> TRUE]

DeliveredInv ==
  /\ \A d \in delivered : Wanted(d)
  /\ \A n \in Notices, i \in DOMAIN Channels : notice[n] # NotCalled =>
       (Sent(n, i) \in delivered <=> i \in DOMAIN notice[n].attempts /\ notice[n].attempts[i].state = "sent")

\* A reminder is in one place: the queue, the worker's batch, or a call.
Reminder == [id : Reminders, fireAt : Nat, template : Templates]

QueueInv ==
  /\ clock \in Nat /\ IsFiniteSet(queue) /\ queue \subseteq Reminder
  /\ \A r, s \in queue : r.id = s.id => r = s
  /\ \A r \in queue : r.id \notin cancelled

BatchInv ==
  /\ batch \in Seq(Reminder)
  /\ \A i, j \in DOMAIN batch : batch[i].id = batch[j].id => i = j
  /\ \A i \in DOMAIN batch :
       /\ batch[i].fireAt <= clock /\ batch[i].id \notin cancelled
       /\ \A r \in queue : r.id # batch[i].id

FiredInv ==
  \A n \in Notices : notice[n] # NotCalled /\ notice[n].reminder # "none" =>
    /\ notice[n].firedAt >= notice[n].due
    /\ notice[n].reminder \notin cancelled
    /\ \A r \in queue : r.id # notice[n].reminder
    /\ \A i \in DOMAIN batch : batch[i].id # notice[n].reminder
    /\ \A m \in Notices : notice[m] # NotCalled /\ m # n => notice[m].reminder # notice[n].reminder

NotificationInv == CallsInv /\ DeliveredInv /\ QueueInv /\ BatchInv /\ FiredInv

-----------------------------------------------------------------------------

LEMMA NotificationInitInv == NotificationInit => NotificationInv
  <1> SUFFICES ASSUME NotificationInit PROVE NotificationInv
    OBVIOUS
  <1>1. CallsInv /\ DeliveredInv /\ FiredInv
    BY DEF NotificationInit, CallsInv, DeliveredInv, FiredInv, AllPreferences
  <1>2. QueueInv
    BY FS_EmptySet DEF NotificationInit, QueueInv
  <1>3. BatchInv
    BY EmptySeq DEF NotificationInit, BatchInv
  <1>4. QED
    BY <1>1, <1>2, <1>3 DEF NotificationInv

LEMMA NotIdle == ASSUME NEW c \in Call PROVE c # NotCalled
  <1>1. c.pc # "idle" /\ NotCalled.pc = "idle"
    BY DEF Call, NotCalled
  <1>2. QED
    BY <1>1

\* What the reminders are about is untouched when a call goes on.
LEMMA RemindersKept ==
  ASSUME QueueInv, BatchInv, FiredInv, UNCHANGED <<queue, clock, batch, cancelled>>,
         \A n \in Notices : notice'[n] = NotCalled <=> notice[n] = NotCalled,
         \A n \in Notices : notice[n] # NotCalled =>
            /\ notice'[n].reminder = notice[n].reminder /\ notice'[n].due = notice[n].due
            /\ notice'[n].firedAt = notice[n].firedAt
  PROVE  QueueInv' /\ BatchInv' /\ FiredInv'
  <1>1. QueueInv'
    BY DEF QueueInv
  <1>2. BatchInv'
    BY DEF BatchInv
  <1>3. FiredInv'
    <2> SUFFICES ASSUME NEW n \in Notices, notice'[n] # NotCalled, notice'[n].reminder # "none"
                 PROVE  /\ notice'[n].firedAt >= notice'[n].due
                        /\ notice'[n].reminder \notin cancelled'
                        /\ \A r \in queue' : r.id # notice'[n].reminder
                        /\ \A i \in DOMAIN batch' : batch'[i].id # notice'[n].reminder
                        /\ \A m \in Notices : notice'[m] # NotCalled /\ m # n
                              => notice'[m].reminder # notice'[n].reminder
      BY DEF FiredInv
    <2>1. /\ notice[n] # NotCalled /\ notice'[n].reminder = notice[n].reminder
          /\ notice'[n].due = notice[n].due /\ notice'[n].firedAt = notice[n].firedAt
      OBVIOUS
    <2>2. QED
      BY <2>1 DEF FiredInv
  <1>4. QED
    BY <1>1, <1>2, <1>3

\* Setting preferences: a call that is under way has them among those in force.
LEMMA PreferencesInv ==
  ASSUME NotificationInv, NEW p \in Preferences, setPreferences(p)
  PROVE  NotificationInv'
  <1> DEFINE With(c) == [c EXCEPT !.inForce = @ \cup {p}]
  <1>0. CallsInv /\ DeliveredInv /\ QueueInv /\ BatchInv /\ FiredInv
    BY DEF NotificationInv
  <1>1. /\ prefs' = p /\ UNCHANGED <<delivered, queue, clock, batch, cancelled>>
        /\ notice' = [n \in Notices |-> IF notice[n] = NotCalled THEN NotCalled ELSE With(notice[n])]
    BY DEF setPreferences
  <1>2. ASSUME NEW c \in Call
        PROVE  /\ With(c) \in Call /\ With(c).pc = c.pc /\ With(c).template = c.template
               /\ With(c).reminder = c.reminder /\ With(c).due = c.due /\ With(c).firedAt = c.firedAt
               /\ With(c).read = c.read /\ With(c).attempts = c.attempts
               /\ With(c).inForce = c.inForce \cup {p}
    BY DEF Call, AllPreferences
  <1> HIDE DEF With
  <1>3. ASSUME NEW n \in Notices
        PROVE  /\ notice[n] = NotCalled => notice'[n] = NotCalled
               /\ notice[n] # NotCalled =>
                    /\ notice[n] \in Call /\ notice'[n] = With(notice[n]) /\ notice'[n] # NotCalled
    <2>1. notice[n] # NotCalled => notice[n] \in Call
      BY <1>0 DEF CallsInv, CallFits
    <2>2. notice[n] # NotCalled => notice'[n] = With(notice[n])
      BY <1>1
    <2>3. notice[n] # NotCalled => With(notice[n]) # NotCalled
      BY <1>2, <2>1, NotIdle
    <2>4. QED
      BY <1>1, <2>1, <2>2, <2>3
  <1>4. CallsInv'
    <2>1. ASSUME NEW n \in Notices, notice'[n] # NotCalled PROVE CallFits(notice[n])'
      <3>1. CallFits(notice[n]) /\ notice[n] \in Call /\ notice'[n] = With(notice[n])
        BY <1>0, <1>3, <2>1 DEF CallsInv
      <3>2. PICK c : c = With(notice[n])
        OBVIOUS
      <3>3. CallFits(c)'
        BY <1>1, <1>2, <3>1, <3>2 DEF CallFits
      <3>4. QED
        BY <3>1, <3>2, <3>3 DEF CallFits
    <2>2. QED
      BY <1>1, <2>1 DEF CallsInv, AllPreferences
  <1>5. DeliveredInv'
    <2>1. ASSUME NEW d \in delivered PROVE Wanted(d)'
      <3>1. Wanted(d) /\ d.notice \in Notices /\ notice[d.notice] # NotCalled
        BY <1>0 DEF DeliveredInv, Wanted
      <3>2. notice'[d.notice] = With(notice[d.notice]) /\ notice'[d.notice] # NotCalled
            /\ notice[d.notice] \in Call
        BY <1>3, <3>1
      <3>3. QED
        BY <1>2, <3>1, <3>2 DEF Wanted
    <2>2. ASSUME NEW n \in Notices, NEW i \in DOMAIN Channels, notice'[n] # NotCalled
          PROVE  Sent(n, i) \in delivered <=>
                   i \in DOMAIN notice'[n].attempts /\ notice'[n].attempts[i].state = "sent"
      <3>1. notice[n] # NotCalled /\ notice'[n].attempts = notice[n].attempts
        BY <1>2, <1>3, <2>2
      <3>2. QED
        BY <1>0, <3>1 DEF DeliveredInv
    <2>3. QED
      BY <1>1, <2>1, <2>2 DEF DeliveredInv
  <1>6. QueueInv' /\ BatchInv' /\ FiredInv'
    <2>1. \A n \in Notices : notice'[n] = NotCalled <=> notice[n] = NotCalled
      BY <1>3
    <2>2. \A n \in Notices : notice[n] # NotCalled =>
            /\ notice'[n].reminder = notice[n].reminder /\ notice'[n].due = notice[n].due
            /\ notice'[n].firedAt = notice[n].firedAt
      BY <1>2, <1>3
    <2>3. QED
      BY <1>0, <1>1, <2>1, <2>2, RemindersKept
  <1>7. QED
    BY <1>4, <1>5, <1>6 DEF NotificationInv

LEMMA PublishedInv ==
  ASSUME NotificationInv, NEW n \in Notices, NEW ok \in BOOLEAN, Published(n, ok)
  PROVE  NotificationInv'
  <1>0. CallsInv /\ DeliveredInv /\ QueueInv /\ BatchInv /\ FiredInv
    BY DEF NotificationInv
  <1>p. PICK pc \in {"sending", "rejected"} : pc = IF ok THEN "sending" ELSE "rejected"
    OBVIOUS
  <1>g. PICK g : g = [notice[n] EXCEPT !.pc = pc, !.read = prefs]
    OBVIOUS
  <1>1. /\ notice[n].pc = "publishing" /\ notice' = [notice EXCEPT ![n] = g]
        /\ UNCHANGED <<prefs, delivered, queue, clock, batch, cancelled>>
    BY <1>p, <1>g DEF Published
  <1>2. notice[n] # NotCalled /\ CallFits(notice[n]) /\ notice[n] \in Call
    BY <1>0, <1>1 DEF CallsInv, NotCalled, CallFits
  <1>3. /\ g \in Call /\ g.pc = pc /\ g.template = notice[n].template
        /\ g.reminder = notice[n].reminder /\ g.due = notice[n].due /\ g.firedAt = notice[n].firedAt
        /\ g.read = prefs /\ g.attempts = notice[n].attempts /\ g.inForce = notice[n].inForce
    BY <1>0, <1>p, <1>g, <1>2 DEF Call, CallsInv
  <1>4. /\ notice' = [m \in Notices |-> notice'[m]] /\ notice'[n] = g /\ g # NotCalled
        /\ \A m \in Notices : m # n => notice'[m] = notice[m]
    BY <1>0, <1>1, <1>3, NotIdle DEF CallsInv
  <1>5. CallsInv'
    <2>1. CallFits(g)'
      BY <1>1, <1>2, <1>3 DEF CallFits
    <2>2. ASSUME NEW m \in Notices, m # n, notice[m] # NotCalled PROVE CallFits(notice[m])'
      <3>1. CallFits(notice[m]) /\ notice'[m] = notice[m]
        BY <1>0, <1>4, <2>2 DEF CallsInv
      <3>2. QED
        BY <1>1, <3>1 DEF CallFits
    <2>3. ASSUME NEW m \in Notices, notice'[m] # NotCalled PROVE CallFits(notice[m])'
      <3>1. CASE m = n
        BY <1>4, <2>1, <3>1 DEF CallFits
      <3>2. CASE m # n
        BY <1>4, <2>2, <2>3, <3>2
      <3>3. QED
        BY <3>1, <3>2
    <2>4. QED
      BY <1>0, <1>1, <1>4, <2>3 DEF CallsInv
  <1>6. DeliveredInv'
    <2>1. ASSUME NEW d \in delivered PROVE Wanted(d)'
      <3>1. Wanted(d) /\ d.notice \in Notices /\ d.notice # n
        BY <1>0, <1>1 DEF DeliveredInv, Wanted
      <3>2. QED
        BY <1>4, <3>1 DEF Wanted
    <2>2. ASSUME NEW m \in Notices, NEW i \in DOMAIN Channels, notice'[m] # NotCalled
          PROVE  Sent(m, i) \in delivered <=>
                   i \in DOMAIN notice'[m].attempts /\ notice'[m].attempts[i].state = "sent"
      <3>1. notice[m] # NotCalled /\ notice'[m].attempts = notice[m].attempts
        BY <1>2, <1>3, <1>4, <2>2
      <3>2. QED
        BY <1>0, <3>1 DEF DeliveredInv
    <2>3. QED
      BY <1>1, <2>1, <2>2 DEF DeliveredInv
  <1>7. QueueInv' /\ BatchInv' /\ FiredInv'
    BY <1>0, <1>1, <1>2, <1>3, <1>4, RemindersKept
  <1>8. QED
    BY <1>5, <1>6, <1>7 DEF NotificationInv

\* One more attempt of a call, and what it did.
LEMMA AttemptInv ==
  ASSUME NotificationInv, NEW n \in Notices, NEW works \in BOOLEAN, Attempt(n, works)
  PROVE  NotificationInv'
  <1>0. CallsInv /\ DeliveredInv /\ QueueInv /\ BatchInv /\ FiredInv
    BY DEF NotificationInv
  <1>c. PICK c : c = notice[n]
    OBVIOUS
  <1>1. /\ c.pc = "sending" /\ Len(c.attempts) < Len(Channels)
        /\ UNCHANGED <<prefs, queue, clock, batch, cancelled>>
    BY <1>c DEF Attempt
  <1>2. c # NotCalled /\ CallFits(c) /\ c \in Call /\ c.attempts \in Seq(AttemptRecord)
    BY <1>0, <1>c, <1>1 DEF CallsInv, NotCalled, CallFits, Call
  <1>l. Len(c.attempts) \in Nat /\ Len(Channels) \in Nat /\ DOMAIN Channels = 1 .. Len(Channels)
        /\ DOMAIN c.attempts = 1 .. Len(c.attempts)
    BY <1>2, LenProperties
  <1>x. PICK next : next = Len(c.attempts) + 1
    OBVIOUS
  <1>y. PICK channel : channel = Channels[next]
    OBVIOUS
  <1>3. next \in DOMAIN Channels /\ channel \in ToSet(Channels) /\ next \notin DOMAIN c.attempts
    <2>1. next \in DOMAIN Channels /\ next \notin DOMAIN c.attempts
      BY <1>1, <1>l, <1>x
    <2>2. QED
      BY <1>l, <1>y, <2>1, ElementOfSeq
  <1>s. PICK state :
          state = IF Skipped(n, channel) THEN "skipped"
                  ELSE IF works /\ channel \in Supported THEN "sent" ELSE "failed"
    OBVIOUS
  <1>4. /\ state \in {"skipped", "sent", "failed"}
        /\ state = "sent" <=> ~Skipped(n, channel) /\ works /\ channel \in Supported
    <2>1. CASE Skipped(n, channel)
      BY <1>s, <2>1
    <2>2. CASE ~Skipped(n, channel) /\ works /\ channel \in Supported
      BY <1>s, <2>2
    <2>3. CASE ~Skipped(n, channel) /\ ~(works /\ channel \in Supported)
      BY <1>s, <2>3
    <2>4. QED
      BY <2>1, <2>2, <2>3
  <1>t. PICK tried : tried = Append(c.attempts, [channel |-> channel, state |-> state])
    OBVIOUS
  <1>5. /\ tried \in Seq(AttemptRecord) /\ Len(tried) = next /\ DOMAIN tried = 1 .. next
        /\ tried[next].state = state
        /\ \A i \in DOMAIN c.attempts : tried[i] = c.attempts[i]
    <2>1. [channel |-> channel, state |-> state] \in AttemptRecord
      BY <1>3, <1>4 DEF AttemptRecord
    <2>2. QED
      BY <1>2, <1>l, <1>x, <1>t, <2>1, AppendProperties, LenProperties
  <1>g. PICK g : g = [c EXCEPT !.attempts = tried]
    OBVIOUS
  <1>6. notice' = [notice EXCEPT ![n] = g]
    BY <1>c, <1>x, <1>y, <1>s, <1>t, <1>g DEF Attempt
  <1>7. IF Skipped(n, channel) \/ channel \notin Supported THEN delivered' = delivered
        ELSE delivered' = delivered \cup {[notice |-> n, attempt |-> next, channel |-> channel, ok |-> works]}
    BY <1>c, <1>x, <1>y DEF Attempt
  <1>8. /\ g \in Call /\ g.pc = "sending" /\ g.template = c.template
        /\ g.reminder = c.reminder /\ g.due = c.due /\ g.firedAt = c.firedAt
        /\ g.read = c.read /\ g.attempts = tried /\ g.inForce = c.inForce
    BY <1>1, <1>2, <1>5, <1>g DEF Call
  <1>9. /\ notice' = [m \in Notices |-> notice'[m]] /\ notice'[n] = g /\ g # NotCalled
        /\ \A m \in Notices : m # n => notice'[m] = notice[m]
    BY <1>0, <1>6, <1>8, NotIdle DEF CallsInv
  <1>10. CallsInv'
    <2>1. CallFits(g)'
      BY <1>1, <1>2, <1>l, <1>x, <1>5, <1>8 DEF CallFits
    <2>2. ASSUME NEW m \in Notices, notice'[m] # NotCalled PROVE CallFits(notice[m])'
      <3>1. CASE m = n
        BY <1>9, <2>1, <3>1 DEF CallFits
      <3>2. CASE m # n
        <4>1. CallFits(notice[m]) /\ notice'[m] = notice[m]
          BY <1>0, <1>9, <2>2, <3>2 DEF CallsInv
        <4>2. QED
          BY <1>1, <4>1 DEF CallFits
      <3>3. QED
        BY <3>1, <3>2
    <2>3. QED
      BY <1>0, <1>1, <1>9, <2>2 DEF CallsInv
  <1>11. DeliveredInv'
    <2>1. ASSUME NEW d \in delivered PROVE Wanted(d)'
      <3>1. Wanted(d) /\ d.notice \in Notices
        BY <1>0 DEF DeliveredInv, Wanted
      <3>2. CASE d.notice # n
        BY <1>9, <3>1, <3>2 DEF Wanted
      <3>3. CASE d.notice = n
        <4>1. d.attempt \in DOMAIN tried
          BY <1>c, <1>l, <1>x, <1>5, <3>1, <3>3 DEF Wanted
        <4>2. QED
          BY <1>c, <1>8, <1>9, <3>1, <3>3, <4>1 DEF Wanted
      <3>4. QED
        BY <3>2, <3>3
    <2>2. ASSUME NEW d \in delivered', d \notin delivered PROVE Wanted(d)'
      <3>1. /\ ~Skipped(n, channel)
            /\ d = [notice |-> n, attempt |-> next, channel |-> channel, ok |-> works]
        BY <1>7, <2>2
      <3>2. /\ d.notice = n /\ d.attempt = next /\ d.channel = channel
            /\ c.template \notin c.read.muted /\ channel \notin c.read.off
        BY <1>c, <3>1 DEF Skipped
      <3>3. next \in DOMAIN tried
        BY <1>l, <1>x, <1>5
      <3>4. QED
        BY <1>8, <1>9, <3>2, <3>3 DEF Wanted
    <2>3. ASSUME NEW m \in Notices, NEW i \in DOMAIN Channels, notice'[m] # NotCalled
          PROVE  Sent(m, i) \in delivered' <=>
                   i \in DOMAIN notice'[m].attempts /\ notice'[m].attempts[i].state = "sent"
      <3>1. CASE m = n /\ i = next
        <4>1. Sent(m, i) \notin delivered
          <5>1. notice[n] # NotCalled /\ i \notin DOMAIN notice[n].attempts
            BY <1>c, <1>2, <1>3, <3>1
          <5>2. QED
            BY <1>0, <3>1, <5>1 DEF DeliveredInv
        <4>2. next \in DOMAIN tried
          BY <1>l, <1>x, <1>5
        <4>3. notice'[m].attempts = tried /\ tried[i].state = state /\ i \in DOMAIN tried
          BY <1>5, <1>8, <1>9, <3>1, <4>2
        <4>4. Sent(m, i) \in delivered' <=> ~Skipped(n, channel) /\ channel \in Supported /\ works
          <5>1. CASE Skipped(n, channel) \/ channel \notin Supported
            BY <1>7, <4>1, <5>1
          <5>2. CASE ~Skipped(n, channel) /\ channel \in Supported
            <6>1. delivered' = delivered \cup {[notice |-> n, attempt |-> next, channel |-> channel, ok |-> works]}
              BY <1>7, <5>2
            <6>2. Sent(m, i) = [notice |-> n, attempt |-> next, channel |-> channel, ok |-> TRUE]
              BY <1>y, <3>1 DEF Sent
            <6>3. CASE works = TRUE
              BY <5>2, <6>1, <6>2, <6>3
            <6>4. CASE works = FALSE
              <7>1. Sent(m, i) # [notice |-> n, attempt |-> next, channel |-> channel, ok |-> works]
                BY <6>2, <6>4
              <7>2. QED
                BY <4>1, <5>2, <6>1, <6>4, <7>1
            <6>5. QED
              BY <6>3, <6>4
          <5>3. QED
            BY <5>1, <5>2
        <4>5. QED
          BY <1>4, <4>3, <4>4
      <3>2. CASE ~(m = n /\ i = next)
        <4>1. Sent(m, i) # [notice |-> n, attempt |-> next, channel |-> channel, ok |-> works]
          BY <3>2 DEF Sent
        <4>2. Sent(m, i) \in delivered' <=> Sent(m, i) \in delivered
          BY <1>7, <4>1
        <4>3. CASE m # n
          <5>1. notice'[m] = notice[m] /\ notice[m] # NotCalled
            BY <1>9, <2>3, <4>3
          <5>2. QED
            BY <1>0, <4>2, <5>1 DEF DeliveredInv
        <4>4. CASE m = n /\ i # next
          <5>1. Sent(m, i) \in delivered <=> i \in DOMAIN c.attempts /\ c.attempts[i].state = "sent"
            BY <1>0, <1>c, <1>2, <4>4 DEF DeliveredInv
          <5>2. i \in DOMAIN c.attempts <=> i \in DOMAIN tried
            BY <1>l, <1>x, <1>5, <4>4
          <5>3. notice'[m].attempts = tried
            BY <1>8, <1>9, <4>4
          <5>4. i \in DOMAIN c.attempts => tried[i] = c.attempts[i]
            BY <1>5
          <5>5. QED
            BY <4>2, <5>1, <5>2, <5>3, <5>4
        <4>5. QED
          BY <3>2, <4>3, <4>4
      <3>3. QED
        BY <3>1, <3>2
    <2>4. \A d \in delivered' : Wanted(d)'
      BY <2>1, <2>2
    <2>5. QED
      BY <2>3, <2>4 DEF DeliveredInv
  <1>12. QueueInv' /\ BatchInv' /\ FiredInv'
    BY <1>0, <1>c, <1>1, <1>2, <1>8, <1>9, RemindersKept
  <1>13. QED
    BY <1>10, <1>11, <1>12 DEF NotificationInv

\* A call begins: nothing is attempted, and the preferences in force are known.
LEMMA CallingInv ==
  ASSUME CallsInv, DeliveredInv, clock \in Nat, NEW n \in Notices, NEW template \in Templates,
         NEW reminder \in Reminders \cup {"none"}, NEW at \in Nat, Calling(n, template, reminder, at),
         UNCHANGED <<prefs, delivered>>
  PROVE  /\ CallsInv' /\ DeliveredInv'
         /\ notice[n] = NotCalled /\ notice'[n] # NotCalled
         /\ notice'[n].reminder = reminder /\ notice'[n].due = at /\ notice'[n].firedAt = clock
         /\ \A m \in Notices : m # n => notice'[m] = notice[m]
  <1>n. PICK none \in Seq(AttemptRecord) : none = << >>
    BY EmptySeq
  <1>g. PICK g : g = [pc |-> "publishing", template |-> template, reminder |-> reminder, due |-> at,
                      firedAt |-> clock, read |-> allowAllPreferences, attempts |-> none, inForce |-> {prefs}]
    OBVIOUS
  <1>1. notice[n] = NotCalled /\ notice' = [notice EXCEPT ![n] = g]
    BY <1>n, <1>g DEF Calling
  <1>2. /\ g \in Call /\ g.pc = "publishing" /\ g.reminder = reminder /\ g.due = at
        /\ g.firedAt = clock /\ g.attempts = << >> /\ g.inForce = {prefs}
    BY <1>n, <1>g DEF Call, CallsInv, AllPreferences
  <1>3. /\ notice' = [m \in Notices |-> notice'[m]] /\ notice'[n] = g /\ g # NotCalled
        /\ \A m \in Notices : m # n => notice'[m] = notice[m]
    BY <1>1, <1>2, NotIdle DEF CallsInv
  <1>4. CallsInv'
    <2>1. CallFits(g)'
      <3>1. Len(g.attempts) = 0 /\ Len(Channels) \in Nat
        BY <1>2, <1>n, LenProperties, EmptySeq
      <3>2. QED
        BY <1>2, <3>1 DEF CallFits
    <2>2. ASSUME NEW m \in Notices, notice'[m] # NotCalled PROVE CallFits(notice[m])'
      <3>1. CASE m = n
        BY <1>3, <2>1, <3>1 DEF CallFits
      <3>2. CASE m # n
        <4>1. CallFits(notice[m]) /\ notice'[m] = notice[m]
          BY <1>3, <2>2, <3>2 DEF CallsInv
        <4>2. QED
          BY <4>1 DEF CallFits
      <3>3. QED
        BY <3>1, <3>2
    <2>3. QED
      BY <1>3, <2>2 DEF CallsInv
  <1>5. DeliveredInv'
    <2>1. ASSUME NEW d \in delivered PROVE Wanted(d)'
      <3>1. Wanted(d) /\ d.notice \in Notices /\ d.notice # n
        BY <1>1 DEF DeliveredInv, Wanted
      <3>2. QED
        BY <1>3, <3>1 DEF Wanted
    <2>2. ASSUME NEW m \in Notices, NEW i \in DOMAIN Channels, notice'[m] # NotCalled
          PROVE  Sent(m, i) \in delivered <=>
                   i \in DOMAIN notice'[m].attempts /\ notice'[m].attempts[i].state = "sent"
      <3>1. CASE m = n
        <4>1. Sent(m, i) \notin delivered
          <5>1. Sent(m, i).notice = n
            BY <3>1 DEF Sent
          <5>2. QED
            BY <1>1, <5>1 DEF DeliveredInv, Wanted
        <4>2. i \notin DOMAIN notice'[m].attempts
          <5>1. Len(g.attempts) = 0 /\ DOMAIN g.attempts = 1 .. 0
            BY <1>2, <1>n, LenProperties, EmptySeq
          <5>2. QED
            BY <1>3, <3>1, <5>1
        <4>3. QED
          BY <4>1, <4>2
      <3>2. CASE m # n
        BY <1>3, <2>2, <3>2 DEF DeliveredInv
      <3>3. QED
        BY <3>1, <3>2
    <2>3. QED
      BY <2>1, <2>2 DEF DeliveredInv
  <1>6. QED
    BY <1>1, <1>2, <1>3, <1>4, <1>5

LEMMA NotifyInv ==
  ASSUME NotificationInv, NEW n \in Notices, NEW template \in Templates, notify(n, template)
  PROVE  NotificationInv'
  <1>0. CallsInv /\ DeliveredInv /\ QueueInv /\ BatchInv /\ FiredInv /\ clock \in Nat
    BY DEF NotificationInv, QueueInv
  <1>1. Calling(n, template, "none", clock) /\ UNCHANGED <<prefs, delivered, queue, clock, batch, cancelled>>
    BY DEF notify
  <1>2. /\ CallsInv' /\ DeliveredInv' /\ notice[n] = NotCalled
        /\ notice'[n].reminder = "none" /\ \A m \in Notices : m # n => notice'[m] = notice[m]
    BY <1>0, <1>1, CallingInv
  <1>3. QueueInv' /\ BatchInv'
    BY <1>0, <1>1 DEF QueueInv, BatchInv
  <1>4. FiredInv'
    BY <1>0, <1>1, <1>2 DEF FiredInv
  <1>5. QED
    BY <1>2, <1>3, <1>4 DEF NotificationInv

\* The next of the batch is fired: its id leaves the batch for the call.
LEMMA FireInv ==
  ASSUME NotificationInv, NEW n \in Notices, FireReminder(n)
  PROVE  NotificationInv'
  <1>0. CallsInv /\ DeliveredInv /\ QueueInv /\ BatchInv /\ FiredInv /\ clock \in Nat
    BY DEF NotificationInv, QueueInv
  <1>1. /\ batch \in Seq(Reminder) /\ batch # << >> /\ batch' = Tail(batch)
        /\ UNCHANGED <<prefs, delivered, queue, clock, cancelled>>
    BY <1>0 DEF FireReminder, BatchInv
  <1>h. PICK h : h = Head(batch)
    OBVIOUS
  <1>2. /\ h \in Reminder /\ h = batch[1] /\ 1 \in DOMAIN batch
        /\ batch' \in Seq(Reminder)
        /\ \A i \in DOMAIN batch' : i + 1 \in DOMAIN batch /\ i + 1 # 1 /\ batch'[i] = batch[i + 1] /\ i \in Nat
    <2>1. /\ Len(batch) \in Nat /\ Len(batch) # 0 /\ DOMAIN batch = 1 .. Len(batch)
      BY <1>1, LenProperties, EmptySeq
    <2>2. /\ Head(batch) \in Reminder /\ Tail(batch) \in Seq(Reminder)
          /\ Len(Tail(batch)) = Len(batch) - 1
          /\ \A i \in 1 .. Len(Tail(batch)) : Tail(batch)[i] = batch[i + 1]
      BY <1>1, HeadTailProperties
    <2>3. Head(batch) = batch[1]
      BY <1>1
    <2>4. DOMAIN Tail(batch) = 1 .. Len(Tail(batch))
      BY <2>2, LenProperties
    <2>5. QED
      BY <1>1, <1>h, <2>1, <2>2, <2>3, <2>4
  <1>3. /\ h.template \in Templates /\ h.id \in Reminders /\ h.fireAt \in Nat /\ h.fireAt <= clock
        /\ h.id \notin cancelled /\ \A r \in queue : r.id # h.id
    BY <1>0, <1>2 DEF Reminder, BatchInv
  <1>4. Calling(n, h.template, h.id, h.fireAt)
    BY <1>h DEF FireReminder
  <1>5. /\ CallsInv' /\ DeliveredInv' /\ notice[n] = NotCalled /\ notice'[n] # NotCalled
        /\ notice'[n].reminder = h.id /\ notice'[n].due = h.fireAt /\ notice'[n].firedAt = clock
        /\ \A m \in Notices : m # n => notice'[m] = notice[m]
    BY <1>0, <1>1, <1>3, <1>4, CallingInv
  <1>6. QueueInv'
    BY <1>0, <1>1 DEF QueueInv
  <1>7. BatchInv'
    <2>1. ASSUME NEW i \in DOMAIN batch', NEW j \in DOMAIN batch', batch'[i].id = batch'[j].id PROVE i = j
      <3>1. i + 1 = j + 1
        BY <1>0, <1>2, <2>1 DEF BatchInv
      <3>2. QED
        BY <1>2, <3>1
    <2>2. ASSUME NEW i \in DOMAIN batch'
          PROVE  /\ batch'[i].fireAt <= clock /\ batch'[i].id \notin cancelled
                 /\ \A r \in queue : r.id # batch'[i].id
      BY <1>0, <1>2 DEF BatchInv
    <2>3. QED
      BY <1>1, <1>2, <2>1, <2>2 DEF BatchInv
  <1>8. FiredInv'
    <2> SUFFICES ASSUME NEW m \in Notices, notice'[m] # NotCalled, notice'[m].reminder # "none"
                 PROVE  /\ notice'[m].firedAt >= notice'[m].due
                        /\ notice'[m].reminder \notin cancelled
                        /\ \A r \in queue : r.id # notice'[m].reminder
                        /\ \A i \in DOMAIN batch' : batch'[i].id # notice'[m].reminder
                        /\ \A k \in Notices : notice'[k] # NotCalled /\ k # m
                              => notice'[k].reminder # notice'[m].reminder
      BY <1>1 DEF FiredInv
    <2>1. CASE m = n
      <3>1. \A i \in DOMAIN batch' : batch'[i].id # h.id
        BY <1>0, <1>2 DEF BatchInv
      <3>2. \A k \in Notices : notice[k] # NotCalled => notice[k].reminder # h.id
        <4> SUFFICES ASSUME NEW k \in Notices, notice[k] # NotCalled, notice[k].reminder = h.id
                     PROVE  FALSE
          OBVIOUS
        <4>1. h.id # "none"
          BY <1>5, <2>1
        <4>2. QED
          BY <1>0, <1>2, <4>1 DEF FiredInv
      <3>3. QED
        BY <1>3, <1>5, <2>1, <3>1, <3>2
    <2>2. CASE m # n
      <3>1. /\ notice'[m] = notice[m] /\ notice[m] # NotCalled /\ notice[m].reminder # "none"
        BY <1>5, <2>2
      <3>2. h.id # notice[m].reminder /\ \A i \in DOMAIN batch' : batch'[i].id # notice[m].reminder
        BY <1>0, <1>2, <3>1 DEF FiredInv
      <3>3. QED
        BY <1>0, <1>5, <2>2, <3>1, <3>2 DEF FiredInv
    <2>3. QED
      BY <2>1, <2>2
  <1>9. QED
    BY <1>5, <1>6, <1>7, <1>8 DEF NotificationInv

LEMMA ScheduleInv ==
  ASSUME NotificationInv, NEW id \in Reminders, NEW t \in Templates, NEW at \in 1 .. MaxClock,
         scheduleReminder(id, at, t)
  PROVE  NotificationInv'
  <1>0. CallsInv /\ DeliveredInv /\ QueueInv /\ BatchInv /\ FiredInv
    BY DEF NotificationInv
  <1>r. PICK r : r = [id |-> id, fireAt |-> at, template |-> t]
    OBVIOUS
  <1>1. /\ queue' = queue \cup {r} /\ UNCHANGED <<prefs, notice, delivered, clock, batch, cancelled>>
        /\ id \notin cancelled /\ \A q \in queue : q.id # id
        /\ \A n \in Notices : notice[n] # NotCalled => notice[n].reminder # id
    BY <1>r DEF scheduleReminder, Ids
  <1>2. r \in Reminder /\ r.id = id
    BY <1>r DEF Reminder
  <1>3. \A i \in DOMAIN batch : batch[i].id # id
    <2>1. id \notin Ids(ToSet(batch))
      BY DEF scheduleReminder
    <2>2. QED
      BY <2>1 DEF Ids, ToSet
  <1>4. CallsInv' /\ DeliveredInv'
    BY <1>0, <1>1 DEF CallsInv, CallFits, DeliveredInv, Wanted
  <1>5. QueueInv'
    <2>1. IsFiniteSet(queue')
      BY <1>0, <1>1, FS_AddElement DEF QueueInv
    <2>2. QED
      BY <1>0, <1>1, <1>2, <2>1 DEF QueueInv
  <1>6. BatchInv'
    BY <1>0, <1>1, <1>2, <1>3 DEF BatchInv
  <1>7. FiredInv'
    BY <1>0, <1>1, <1>2 DEF FiredInv
  <1>8. QED
    BY <1>4, <1>5, <1>6, <1>7 DEF NotificationInv

LEMMA CancelInv ==
  ASSUME NotificationInv, NEW id \in Reminders, cancelReminder(id)
  PROVE  NotificationInv'
  <1>0. CallsInv /\ DeliveredInv /\ QueueInv /\ BatchInv /\ FiredInv
    BY DEF NotificationInv
  <1>1. /\ queue' = {r \in queue : r.id # id} /\ cancelled' = cancelled \cup {id}
        /\ UNCHANGED <<prefs, notice, delivered, clock, batch>>
    BY DEF cancelReminder
  <1>2. PICK q \in queue : q.id = id
    BY DEF cancelReminder, Ids
  <1>3. CallsInv' /\ DeliveredInv'
    BY <1>0, <1>1 DEF CallsInv, CallFits, DeliveredInv, Wanted
  <1>4. QueueInv'
    <2>1. IsFiniteSet(queue')
      BY <1>0, <1>1, FS_Subset DEF QueueInv
    <2>2. QED
      BY <1>0, <1>1, <2>1 DEF QueueInv
  <1>5. BatchInv'
    BY <1>0, <1>1, <1>2 DEF BatchInv
  <1>6. FiredInv'
    BY <1>0, <1>1, <1>2 DEF FiredInv
  <1>7. QED
    BY <1>3, <1>4, <1>5, <1>6 DEF NotificationInv

\* What is drained is due, each reminder once, and no longer queued.
LEMMA DrainInv ==
  ASSUME NotificationInv, NEW taken, drainDue(taken)
  PROVE  NotificationInv'
  <1>0. CallsInv /\ DeliveredInv /\ QueueInv /\ BatchInv /\ FiredInv
    BY DEF NotificationInv
  <1>1. /\ taken \in SetToSeqs(due) /\ batch' = taken /\ queue' = queue \ due
        /\ UNCHANGED <<prefs, notice, delivered, clock, cancelled>>
    BY DEF drainDue
  <1>2. due \subseteq queue /\ \A r \in due : r \in Reminder /\ r.fireAt <= clock
    BY <1>0 DEF due, QueueInv
  <1>3. IsFiniteSet(due) /\ Cardinality(due) \in Nat /\ IsFiniteSet(queue \ due)
    BY <1>0, <1>2, FS_Subset, FS_CardinalityType, FS_Difference DEF QueueInv
  <1> HIDE DEF due
  <1>4. /\ taken \in [1 .. Cardinality(due) -> due]
        /\ \A i, j \in 1 .. Cardinality(due) : i # j => taken[i] # taken[j]
    BY <1>1 DEF SetToSeqs
  <1>5. /\ taken \in Seq(Reminder) /\ DOMAIN taken = 1 .. Cardinality(due)
        /\ \A i \in DOMAIN taken : taken[i] \in due
    BY <1>2, <1>3, <1>4, IsASeq
  <1>6. CallsInv' /\ DeliveredInv'
    BY <1>0, <1>1 DEF CallsInv, CallFits, DeliveredInv, Wanted
  <1>7. QueueInv'
    BY <1>0, <1>1, <1>3 DEF QueueInv
  <1>8. BatchInv'
    <2>1. ASSUME NEW i \in DOMAIN taken, NEW j \in DOMAIN taken, taken[i].id = taken[j].id PROVE i = j
      <3>1. taken[i] \in queue /\ taken[j] \in queue
        BY <1>2, <1>5
      <3>2. taken[i] = taken[j]
        BY <1>0, <2>1, <3>1 DEF QueueInv
      <3>3. QED
        BY <1>4, <1>5, <3>2
    <2>2. ASSUME NEW i \in DOMAIN taken
          PROVE  /\ taken[i].fireAt <= clock /\ taken[i].id \notin cancelled
                 /\ \A r \in queue \ due : r.id # taken[i].id
      <3>1. taken[i] \in due /\ taken[i] \in queue
        BY <1>2, <1>5
      <3>2. QED
        BY <1>0, <1>2, <3>1 DEF QueueInv
    <2>3. QED
      BY <1>1, <1>5, <2>1, <2>2 DEF BatchInv
  <1>9. FiredInv'
    <2> SUFFICES ASSUME NEW n \in Notices, notice[n] # NotCalled, notice[n].reminder # "none"
                 PROVE  /\ notice[n].firedAt >= notice[n].due
                        /\ notice[n].reminder \notin cancelled
                        /\ \A r \in queue \ due : r.id # notice[n].reminder
                        /\ \A i \in DOMAIN taken : taken[i].id # notice[n].reminder
                        /\ \A m \in Notices : notice[m] # NotCalled /\ m # n
                              => notice[m].reminder # notice[n].reminder
      BY <1>1 DEF FiredInv
    <2>1. \A r \in queue : r.id # notice[n].reminder
      BY <1>0 DEF FiredInv
    <2>2. \A i \in DOMAIN taken : taken[i] \in queue
      BY <1>2, <1>5
    <2>3. QED
      BY <1>0, <2>1, <2>2 DEF FiredInv
  <1>10. QED
    BY <1>6, <1>7, <1>8, <1>9 DEF NotificationInv

\* The worker dies with its batch, or the clock goes on.
LEMMA WorkerAndClockInv ==
  ASSUME NotificationInv, WorkerDies \/ Tick
  PROVE  NotificationInv'
  <1>0. CallsInv /\ DeliveredInv /\ QueueInv /\ BatchInv /\ FiredInv
    BY DEF NotificationInv
  <1>1. /\ UNCHANGED <<prefs, notice, delivered, queue, cancelled>>
        /\ \/ batch' = << >> /\ clock' = clock
           \/ batch' = batch /\ clock' = clock + 1
    BY DEF WorkerDies, Tick
  <1>2. CallsInv' /\ DeliveredInv'
    BY <1>0, <1>1 DEF CallsInv, CallFits, DeliveredInv, Wanted
  <1>3. QueueInv'
    BY <1>0, <1>1 DEF QueueInv
  <1>4. CASE batch' = << >> /\ clock' = clock
    <2>1. batch' \in Seq(Reminder) /\ DOMAIN batch' = {}
      BY <1>4, EmptySeq
    <2>2. BatchInv' /\ FiredInv'
      BY <1>0, <1>1, <1>4, <2>1 DEF BatchInv, FiredInv
    <2>3. QED
      BY <1>2, <1>3, <2>2 DEF NotificationInv
  <1>5. CASE batch' = batch /\ clock' = clock + 1
    <2>1. \A i \in DOMAIN batch : batch[i].fireAt \in Nat
      <3>1. \A i \in DOMAIN batch : batch[i] \in Reminder
        BY <1>0, LenProperties, ElementOfSeq DEF BatchInv
      <3>2. QED
        BY <3>1 DEF Reminder
    <2>2. BatchInv'
      BY <1>0, <1>1, <1>5, <2>1 DEF BatchInv, QueueInv
    <2>3. FiredInv'
      BY <1>0, <1>1, <1>5 DEF FiredInv
    <2>4. QED
      BY <1>2, <1>3, <2>2, <2>3 DEF NotificationInv
  <1>6. QED
    BY <1>1, <1>4, <1>5

LEMMA NotificationStepInv ==
  ASSUME NotificationInv, [NotificationNext]_notificationVars PROVE NotificationInv'
  <1>1. ASSUME NEW p \in Preferences, setPreferences(p) PROVE NotificationInv'
    BY <1>1, PreferencesInv
  <1>2. ASSUME NEW n \in Notices, NEW t \in Templates, notify(n, t) PROVE NotificationInv'
    BY <1>2, NotifyInv
  <1>3. ASSUME NEW n \in Notices, FireReminder(n) PROVE NotificationInv'
    BY <1>3, FireInv
  <1>4. ASSUME NEW n \in Notices, NEW ok \in BOOLEAN, Published(n, ok) PROVE NotificationInv'
    BY <1>4, PublishedInv
  <1>5. ASSUME NEW n \in Notices, NEW ok \in BOOLEAN, Attempt(n, ok) PROVE NotificationInv'
    BY <1>5, AttemptInv
  <1>6. ASSUME NEW id \in Reminders, cancelReminder(id) PROVE NotificationInv'
    BY <1>6, CancelInv
  <1>7. ASSUME NEW id \in Reminders, NEW t \in Templates, NEW at \in 1 .. MaxClock,
               scheduleReminder(id, at, t)
        PROVE  NotificationInv'
    BY <1>7, ScheduleInv
  <1>8. ASSUME NEW taken \in SetToSeqs(due), drainDue(taken) PROVE NotificationInv'
    BY <1>8, DrainInv
  <1>9. ASSUME WorkerDies \/ Tick PROVE NotificationInv'
    BY <1>9, WorkerAndClockInv
  <1>10. ASSUME UNCHANGED notificationVars PROVE NotificationInv'
    BY <1>10 DEF notificationVars, NotificationInv, CallsInv, CallFits, DeliveredInv, Wanted, QueueInv,
                 BatchInv, FiredInv
  <1>11. QED
    BY <1>1, <1>2, <1>3, <1>4, <1>5, <1>6, <1>7, <1>8, <1>9, <1>10 DEF NotificationNext

(* Whatever the recipient sets while calls and the reminder worker go on,   *)
(* nothing is sent against every preference of the call's time, each channel *)
(* is reported as it went, and a reminder fires at most once, never early    *)
(* and never after a cancellation that found it queued (NotificationService  *)
(* and InMemoryReminderQueue).                                               *)
THEOREM NotificationsCorrect == NotificationSpec => []WantedAndReported
  <1>1. NotificationInv => WantedAndReported
    <2> SUFFICES ASSUME NotificationInv PROVE WantedAndReported
      OBVIOUS
    <2>0. CallsInv /\ DeliveredInv /\ FiredInv
      BY DEF NotificationInv
    <2>1. ASSUME NEW d \in delivered
          PROVE  \E p \in notice[d.notice].inForce :
                   notice[d.notice].template \notin p.muted /\ d.channel \notin p.off
      <3>1. Wanted(d)
        BY <2>0 DEF DeliveredInv
      <3>2. CallFits(notice[d.notice])
        BY <2>0, <3>1 DEF CallsInv, Wanted
      <3>3. QED
        BY <3>1, <3>2 DEF Wanted, CallFits
    <2>2. ASSUME NEW n \in Called, NEW i \in DOMAIN Channels
          PROVE  [notice |-> n, attempt |-> i, channel |-> Channels[i], ok |-> TRUE] \in delivered
                   <=> i \in DOMAIN notice[n].attempts /\ notice[n].attempts[i].state = "sent"
      BY <2>0 DEF Called, DeliveredInv, Sent
    <2>3. ASSUME NEW m \in Called, NEW n \in Called, notice[n].reminder # "none"
          PROVE  /\ notice[n].firedAt >= notice[n].due
                 /\ notice[n].reminder \notin cancelled \cup Ids(queue)
                 /\ m # n => notice[m].reminder # notice[n].reminder
      BY <2>0, <2>3 DEF Called, FiredInv, Ids
    <2>4. QED
      BY <2>1, <2>2, <2>3 DEF WantedAndReported
  <1>2. QED
    BY <1>1, NotificationInitInv, NotificationStepInv, PTL DEF NotificationSpec

HIDE NotificationAssumption

-----------------------------------------------------------------------------
(* PostPipeline                                                             *)

USE PipelineAssumption

Stages == {"new", "created", "index", "record", "publish", "telling", "generate", "notify",
           "handled", "dropped"}

\* Of a post the record of its delivery is all its own: what it did is what
\* its stage, and the attempts that found the post, say.
Fits(r, recorded, summed, told) ==
  /\ r.at \in {"new", "created"} => r.attempt = 0 /\ r.found = 0
  /\ r.at \in Stages \ {"new", "created", "handled"} => r.found = r.attempt /\ r.attempt \in 1 .. maxAttempts
  /\ r.at = "handled" => r.found = r.attempt \/ r.found + 1 = r.attempt
  /\ r.at = "handled" => r.attempt \in 1 .. maxAttempts
  /\ r.at = "dropped" => r.attempt = maxAttempts
  /\ recorded + (IF r.at \in {"index", "record"} THEN 1 ELSE 0) = r.found
  /\ summed = IF r.at = "notify" \/ (r.at = "handled" /\ r.found = r.attempt) THEN 1 ELSE 0
  /\ told   = IF r.at = "handled" /\ r.found = r.attempt THEN 1 ELSE 0

\* What the attempt that is under way may still tell a listener.
Owed(r, l) ==
  IF r.at = "publish" \/ (r.at = "telling" /\ \E k \in DOMAIN r.todo : k # 1 /\ r.todo[k] = l) THEN 1 ELSE 0

Distinct(s) == \A i, j \in DOMAIN s : s[i] = s[j] => i = j

Delivery == [at : Stages, attempt : Nat, found : Nat, todo : Seq(Listeners)]

PipelineShape ==
  /\ run \in [Posts -> Delivery]
  /\ feed \in Seq(Listeners) /\ Distinct(feed)
  /\ audited \in Seq(Posts) /\ authorInbox \in Seq(Posts)
  /\ heard \in [Listeners -> Seq(Posts)]
  /\ summaries \in [Posts -> Nat]

Counted(p) == Fits(run[p], Times(p, audited), summaries[p], Times(p, authorInbox))

Indexed(p) == run[p].at # "index" => (p \in indexed <=> run[p].found > 0)

Heard(p) ==
  /\ \A l \in Listeners : Times(p, heard[l]) + Owed(run[p], l) <= Times(p, audited)
  /\ run[p].at = "telling" =>
       run[p].todo # << >> /\ Distinct(run[p].todo)
  /\ run[p].at \in {"telling", "dropped"} => \E l \in Listeners : Times(p, heard[l]) > 0

PipelineInv ==
  PipelineShape /\ \A p \in Posts : Counted(p) /\ Indexed(p) /\ Heard(p)

-----------------------------------------------------------------------------

LEMMA TimesEmpty == ASSUME NEW p PROVE Times(p, << >>) = 0
  <1>1. {i \in DOMAIN << >> : << >>[i] = p} = {}
    OBVIOUS
  <1>2. QED
    BY <1>1, FS_EmptySet DEF Times

LEMMA TimesNat ==
  ASSUME NEW S, NEW s \in Seq(S), NEW p
  PROVE  Times(p, s) \in Nat /\ IsFiniteSet({i \in DOMAIN s : s[i] = p})
  <1>1. DOMAIN s = 1 .. Len(s) /\ Len(s) \in Nat
    BY LenProperties
  <1>2. IsFiniteSet(DOMAIN s)
    BY <1>1, FS_Interval
  <1>3. IsFiniteSet({i \in DOMAIN s : s[i] = p})
    BY <1>2, FS_Subset
  <1>4. QED
    BY <1>3, FS_CardinalityType DEF Times

LEMMA TimesAppend ==
  ASSUME NEW S, NEW s \in Seq(S), NEW q \in S, NEW p
  PROVE  /\ p = q => Times(p, Append(s, q)) = Times(p, s) + 1
         /\ p # q => Times(p, Append(s, q)) = Times(p, s)
  <1> DEFINE I == {i \in DOMAIN s : s[i] = p}
             J == {i \in DOMAIN Append(s, q) : Append(s, q)[i] = p}
  <1>1. /\ Len(s) \in Nat /\ DOMAIN s = 1 .. Len(s)
        /\ DOMAIN Append(s, q) = 1 .. Len(s) + 1
        /\ Append(s, q)[Len(s) + 1] = q
        /\ \A i \in 1 .. Len(s) : Append(s, q)[i] = s[i]
    BY AppendProperties, LenProperties
  <1>2. p = q => J = I \cup {Len(s) + 1}
    <2> SUFFICES ASSUME p = q, NEW i PROVE i \in J <=> i \in I \cup {Len(s) + 1}
      OBVIOUS
    <2>1. CASE i = Len(s) + 1
      BY <1>1, <2>1
    <2>2. CASE i # Len(s) + 1
      BY <1>1, <2>2
    <2>3. QED
      BY <2>1, <2>2
  <1>3. p # q => J = I
    <2> SUFFICES ASSUME p # q, NEW i PROVE i \in J <=> i \in I
      OBVIOUS
    <2>1. CASE i = Len(s) + 1
      BY <1>1, <2>1
    <2>2. CASE i # Len(s) + 1
      BY <1>1, <2>2
    <2>3. QED
      BY <2>1, <2>2
  <1>4. Len(s) + 1 \notin I /\ IsFiniteSet(I)
    <2>1. Len(s) + 1 \notin I
      BY <1>1
    <2>2. IsFiniteSet({i \in DOMAIN s : s[i] = p})
      BY TimesNat
    <2>3. QED
      BY <2>1, <2>2
  <1>5. Cardinality(I \cup {Len(s) + 1}) = Cardinality(I) + 1
    BY <1>4, FS_AddElement
  <1>6. QED
    BY <1>2, <1>3, <1>5 DEF Times

\* A listener that leaves leaves the others where they are.
LEMMA WithoutOne ==
  ASSUME NEW S, NEW s \in Seq(S), Distinct(s), NEW k \in DOMAIN s
  PROVE  RemoveAt(s, k) \in Seq(S) /\ Distinct(RemoveAt(s, k))
  <1>1. Len(s) \in Nat /\ DOMAIN s = 1 .. Len(s) /\ k \in 1 .. Len(s)
    BY LenProperties
  <1> DEFINE a == SubSeq(s, 1, k - 1)
             b == SubSeq(s, k + 1, Len(s))
  <1>2. /\ a \in Seq(S) /\ Len(a) = k - 1
        /\ \A i \in 1 .. k - 1 : a[i] = s[i]
    BY <1>1, SubSeqProperties
  <1>3. /\ b \in Seq(S) /\ Len(b) = Len(s) - k
        /\ \A i \in 1 .. Len(s) - k : b[i] = s[i + k]
    BY <1>1, SubSeqProperties
  <1> HIDE DEF a, b
  <1>4. /\ a \o b \in Seq(S) /\ Len(a \o b) = Len(s) - 1
        /\ \A i \in 1 .. Len(s) - 1 : (a \o b)[i] = IF i <= k - 1 THEN a[i] ELSE b[i - (k - 1)]
    <2>1. /\ a \o b \in Seq(S) /\ Len(a \o b) = Len(a) + Len(b)
          /\ \A i \in 1 .. Len(a) + Len(b) :
               (a \o b)[i] = IF i <= Len(a) THEN a[i] ELSE b[i - Len(a)]
      BY <1>2, <1>3, ConcatProperties
    <2>2. Len(a) + Len(b) = Len(s) - 1
      BY <1>1, <1>2, <1>3
    <2>3. QED
      BY <1>2, <2>1, <2>2
  <1>5. DOMAIN (a \o b) = 1 .. Len(s) - 1
    BY <1>4, LenProperties
  <1>6. ASSUME NEW i \in 1 .. Len(s) - 1
        PROVE  (a \o b)[i] = s[IF i <= k - 1 THEN i ELSE i + 1]
    <2>1. CASE i <= k - 1
      BY <1>1, <1>2, <1>4, <2>1
    <2>2. CASE ~(i <= k - 1)
      <3>1. i - (k - 1) \in 1 .. Len(s) - k /\ (i - (k - 1)) + k = i + 1
        BY <1>1, <2>2
      <3>2. QED
        BY <1>3, <1>4, <2>2, <3>1
    <2>3. QED
      BY <2>1, <2>2
  <1>7. Distinct(a \o b)
    <2> SUFFICES ASSUME NEW i \in 1 .. Len(s) - 1, NEW j \in 1 .. Len(s) - 1, (a \o b)[i] = (a \o b)[j]
                 PROVE  i = j
      BY <1>5 DEF Distinct
    <2>1. PICK x : x = IF i <= k - 1 THEN i ELSE i + 1
      OBVIOUS
    <2>2. PICK y : y = IF j <= k - 1 THEN j ELSE j + 1
      OBVIOUS
    <2>3. x \in DOMAIN s /\ y \in DOMAIN s
      BY <1>1, <2>1, <2>2
    <2>4. s[x] = s[y]
      BY <1>6, <2>1, <2>2
    <2>5. x = y
      BY <2>3, <2>4 DEF Distinct
    <2>6. QED
      BY <1>1, <2>1, <2>2, <2>5
  <1>8. QED
    BY <1>4, <1>7 DEF RemoveAt, a, b

\* The handler's awaits, one after the other.
LEMMA StepsInOrder ==
  /\ After("index") = "record" /\ After("record") = "publish" /\ After("publish") = "generate"
  /\ After("generate") = "notify" /\ After("notify") = "handled"
  /\ Head(Steps) = "index"
  <1>1. /\ DOMAIN Steps = 1 .. 5 /\ Len(Steps) = 5
        /\ Steps[1] = "index" /\ Steps[2] = "record" /\ Steps[3] = "publish"
        /\ Steps[4] = "generate" /\ Steps[5] = "notify"
    BY DEF Steps
  <1>2. /\ (CHOOSE k \in 1 .. 5 : Steps[k] = "index") = 1
        /\ (CHOOSE k \in 1 .. 5 : Steps[k] = "record") = 2
        /\ (CHOOSE k \in 1 .. 5 : Steps[k] = "publish") = 3
        /\ (CHOOSE k \in 1 .. 5 : Steps[k] = "generate") = 4
        /\ (CHOOSE k \in 1 .. 5 : Steps[k] = "notify") = 5
    BY <1>1
  <1>3. Head(Steps) = "index"
    BY DEF Steps
  <1>4. QED
    BY <1>1, <1>2, <1>3 DEF After

LEMMA PipelineInitInv == PipelineInit => PipelineInv
  <1> SUFFICES ASSUME PipelineInit PROVE PipelineInv
    OBVIOUS
  <1>1. PipelineShape
    BY DEF PipelineInit, PipelineShape, NotPublished, Delivery, Stages, Distinct
  <1>2. ASSUME NEW p \in Posts PROVE Counted(p) /\ Indexed(p) /\ Heard(p)
    <2>1. run[p] = NotPublished /\ summaries[p] = 0 /\ Times(p, audited) = 0 /\ Times(p, authorInbox) = 0
      BY TimesEmpty DEF PipelineInit
    <2>2. \A l \in Listeners : Times(p, heard[l]) = 0
      BY TimesEmpty DEF PipelineInit
    <2>3. Counted(p)
      BY <2>1 DEF Counted, Fits, NotPublished, Stages
    <2>4. Indexed(p)
      BY <2>1 DEF PipelineInit, Indexed, NotPublished
    <2>5. Heard(p)
      BY <2>1, <2>2 DEF Heard, Owed, NotPublished
    <2>6. QED
      BY <2>3, <2>4, <2>5
  <1>3. QED
    BY <1>1, <1>2 DEF PipelineInv

-----------------------------------------------------------------------------

LEMMA OtherPost ==
  ASSUME NEW q \in Posts, Counted(q), Indexed(q), Heard(q),
         run'[q] = run[q], summaries'[q] = summaries[q], q \in indexed' <=> q \in indexed,
         Times(q, audited') = Times(q, audited), Times(q, authorInbox') = Times(q, authorInbox),
         \A l \in Listeners : Times(q, heard'[l]) = Times(q, heard[l])
  PROVE  Counted(q)' /\ Indexed(q)' /\ Heard(q)'
  <1>1. Counted(q)'
    BY DEF Counted
  <1>2. Indexed(q)'
    BY DEF Indexed
  <1>3. Heard(q)'
    BY DEF Heard
  <1>4. QED
    BY <1>1, <1>2, <1>3

LEMMA RunMoves ==
  ASSUME NEW p \in Posts, NEW g \in Delivery, run \in [Posts -> Delivery], run' = [run EXCEPT ![p] = g]
  PROVE  run' \in [Posts -> Delivery] /\ run'[p] = g /\ \A q \in Posts : q # p => run'[q] = run[q]
  OBVIOUS

MovedTo(r, stage, todo) == [r EXCEPT !.at = stage, !.todo = todo]

LEMMA MovesTo ==
  ASSUME NEW r \in Delivery, NEW stage \in Stages, NEW todo \in Seq(Listeners)
  PROVE  /\ MovedTo(r, stage, todo) \in Delivery
         /\ MovedTo(r, stage, todo).at = stage /\ MovedTo(r, stage, todo).todo = todo
         /\ MovedTo(r, stage, todo).found = r.found /\ MovedTo(r, stage, todo).attempt = r.attempt
  <1> DEFINE g == MovedTo(r, stage, todo)
  <1>1. DOMAIN r = {"at", "attempt", "found", "todo"} /\ r.attempt \in Nat /\ r.found \in Nat
    BY DEF Delivery
  <1>2. g = [f \in DOMAIN r |-> IF f = "todo" THEN todo ELSE IF f = "at" THEN stage ELSE r[f]]
    BY <1>1, Zenon DEF MovedTo
  <1>3. g = [at |-> stage, attempt |-> r.attempt, found |-> r.found, todo |-> todo]
    BY <1>1, <1>2
  <1>4. QED
    BY <1>1, <1>3 DEF Delivery

LEMMA PastStep ==
  ASSUME PipelineShape, NEW p \in Posts, NEW step, Past(p, step), After(step) \in Stages
  PROVE  /\ run' \in [Posts -> Delivery] /\ \A q \in Posts : q # p => run'[q] = run[q]
         /\ run'[p].at = After(step) /\ run'[p].attempt = run[p].attempt
         /\ run'[p].found = run[p].found /\ run'[p].todo = run[p].todo
  <1>1. run[p] \in Delivery /\ run \in [Posts -> Delivery]
    BY DEF PipelineShape
  <1>2. PICK g : g = [run[p] EXCEPT !.at = After(step)]
    OBVIOUS
  <1>3. /\ g \in Delivery /\ g.at = After(step) /\ g.attempt = run[p].attempt
        /\ g.found = run[p].found /\ g.todo = run[p].todo
    BY <1>1, <1>2 DEF Delivery
  <1>4. run' = [run EXCEPT ![p] = g]
    BY <1>2 DEF Past
  <1>5. QED
    BY <1>1, <1>3, <1>4, RunMoves

\* The bus starts the handler: the attempt is counted, and whether it found the post.
LEMMA StartedFields ==
  ASSUME PipelineShape, NEW p \in Posts
  PROVE  /\ Started(p) \in Delivery
         /\ Started(p).attempt = run[p].attempt + 1 /\ Started(p).todo = << >>
         /\ p \in posts => Started(p).at = "index" /\ Started(p).found = run[p].found + 1
         /\ p \notin posts => Started(p).at = "handled" /\ Started(p).found = run[p].found
  <1>1. run[p] \in Delivery
    BY DEF PipelineShape
  <1>2. CASE p \in posts
    <2>1. Started(p) = [at |-> "index", attempt |-> run[p].attempt + 1,
                        found |-> run[p].found + 1, todo |-> << >>]
      BY <1>2, StepsInOrder DEF Started
    <2>2. QED
      BY <1>1, <1>2, <2>1 DEF Delivery, Stages
  <1>3. CASE p \notin posts
    <2>1. Started(p) = [at |-> "handled", attempt |-> run[p].attempt + 1,
                        found |-> run[p].found, todo |-> << >>]
      BY <1>3 DEF Started
    <2>2. QED
      BY <1>1, <1>3, <2>1 DEF Delivery, Stages
  <1>4. QED
    BY <1>2, <1>3

\* What a delivery that the bus starts, for the first time or again, has done.
LEMMA StartsRight ==
  ASSUME PipelineInv, NEW p \in Posts, run' = [run EXCEPT ![p] = Started(p)],
         UNCHANGED <<indexed, audited, heard, summaries, authorInbox>>,
         run[p].at \in {"created", "telling"}, run[p].attempt < maxAttempts
  PROVE  run' \in [Posts -> Delivery] /\ \A q \in Posts : Counted(q)' /\ Indexed(q)' /\ Heard(q)'
  <1>1. /\ run \in [Posts -> Delivery] /\ run[p] \in Delivery
        /\ Counted(p) /\ Indexed(p) /\ Heard(p) /\ PipelineShape
        /\ Times(p, audited) \in Nat /\ \A l \in Listeners : Times(p, heard[l]) \in Nat
    BY TimesNat DEF PipelineInv, PipelineShape
  <1>2. PICK g : g = Started(p)
    OBVIOUS
  <1>3. /\ g \in Delivery /\ g.attempt = run[p].attempt + 1 /\ g.todo = << >>
        /\ \/ p \in posts /\ g.at = "index" /\ g.found = run[p].found + 1
           \/ p \notin posts /\ g.at = "handled" /\ g.found = run[p].found
    BY <1>1, <1>2, StartedFields
  <1>4. run' \in [Posts -> Delivery] /\ run'[p] = g /\ \A q \in Posts : q # p => run'[q] = run[q]
    BY <1>1, <1>2, <1>3, RunMoves
  <1>5. ASSUME NEW q \in Posts, q # p PROVE Counted(q)' /\ Indexed(q)' /\ Heard(q)'
    BY <1>4, <1>5, OtherPost DEF PipelineInv
  <1>6. Counted(p)'
    <2>1. Fits(g, Times(p, audited), summaries[p], Times(p, authorInbox))
      BY <1>1, <1>3 DEF Counted, Fits, Delivery, Stages
    <2>2. QED
      BY <1>4, <2>1 DEF Counted
  <1>7. Indexed(p)'
    BY <1>1, <1>3, <1>4 DEF Indexed
  <1>8. Heard(p)'
    <2>1. \A l \in Listeners : Owed(run[p], l) \in {0, 1} /\ Owed(g, l) = 0
      BY <1>3 DEF Owed
    <2>2. \A l \in Listeners : Times(p, heard[l]) + Owed(g, l) <= Times(p, audited)
      BY <1>1, <2>1 DEF Heard
    <2>3. QED
      BY <1>3, <1>4, <2>2 DEF Heard
  <1>9. QED
    BY <1>4, <1>5, <1>6, <1>7, <1>8

LEMMA Unpacked ==
  ASSUME PipelineInv, NEW p \in Posts
  PROVE  /\ PipelineShape /\ run \in [Posts -> Delivery] /\ run[p] \in Delivery
         /\ Counted(p) /\ Indexed(p) /\ Heard(p)
         /\ Times(p, audited) \in Nat /\ \A l \in Listeners : Times(p, heard[l]) \in Nat
         /\ \A l \in Listeners : Owed(run[p], l) \in {0, 1}
  BY TimesNat DEF PipelineInv, PipelineShape, Owed

\* Of another post, an append of this one changes nothing.
LEMMA AppendsOther ==
  ASSUME NEW p \in Posts, NEW q \in Posts, q # p, NEW s \in Seq(Posts)
  PROVE  Times(q, Append(s, p)) = Times(q, s)
  BY TimesAppend

\* LocalPubSub.publish at its next listener, or done.
LEMMA TellingRight ==
  ASSUME PipelineInv, NEW p \in Posts, NEW listeners \in Seq(Listeners), Distinct(listeners),
         TellListeners(p, listeners), run[p].at \in {"publish", "telling"},
         UNCHANGED <<feed, indexed, audited, summaries, authorInbox>>,
         \A l \in Listeners :
           /\ Times(p, heard[l]) <= Times(p, audited)
           /\ (\E k \in DOMAIN listeners : listeners[k] = l) => Times(p, heard[l]) + 1 <= Times(p, audited)
  PROVE  PipelineInv'
  <1>0. /\ PipelineShape /\ run \in [Posts -> Delivery] /\ run[p] \in Delivery
        /\ Counted(p) /\ Indexed(p) /\ Heard(p)
        /\ Times(p, audited) \in Nat /\ \A l \in Listeners : Times(p, heard[l]) \in Nat
    BY Unpacked
  <1>1. CASE listeners = << >>
    <2>0. PICK none \in Seq(Listeners) : none = << >>
      BY EmptySeq
    <2>1. PICK g : g = MovedTo(run[p], "generate", none)
      OBVIOUS
    <2>2. /\ g \in Delivery /\ g.at = "generate" /\ g.found = run[p].found
          /\ g.attempt = run[p].attempt
      <3>1. "generate" \in Stages
        BY DEF Stages
      <3>2. LET h == MovedTo(run[p], "generate", none)
            IN  /\ h \in Delivery /\ h.at = "generate" /\ h.todo = none
                /\ h.found = run[p].found /\ h.attempt = run[p].attempt
        BY <1>0, <3>1, MovesTo
      <3>3. QED
        BY <2>1, <3>2, Zenon
    <2>3. run' = [run EXCEPT ![p] = g] /\ heard' = heard
      <3>1. /\ run' = [run EXCEPT ![p] = [@ EXCEPT !.at = After("publish"), !.todo = << >>]]
            /\ heard' = heard
        BY <1>1 DEF TellListeners
      <3>2. QED
        BY <2>0, <2>1, <3>1, StepsInOrder, Zenon DEF MovedTo
    <2>4. run' \in [Posts -> Delivery] /\ run'[p] = g /\ \A q \in Posts : q # p => run'[q] = run[q]
      BY <1>0, <2>2, <2>3, RunMoves
    <2>5. ASSUME NEW q \in Posts, q # p PROVE Counted(q)' /\ Indexed(q)' /\ Heard(q)'
      BY <2>3, <2>4, <2>5, OtherPost DEF PipelineInv
    <2>6. Counted(p)'
      <3>1. Fits(g, Times(p, audited), summaries[p], Times(p, authorInbox))
        BY <1>0, <2>2 DEF Counted, Fits, Delivery, Stages
      <3>2. QED
        BY <2>4, <3>1 DEF Counted
    <2>7. Indexed(p)'
      BY <1>0, <2>2, <2>4 DEF Indexed
    <2>8. Heard(p)'
      <3>1. \A l \in Listeners : Owed(g, l) = 0
        BY <2>2 DEF Owed
      <3>2. \A l \in Listeners : Times(p, heard[l]) + Owed(g, l) <= Times(p, audited)
        BY <1>0, <3>1
      <3>3. QED
        BY <2>2, <2>3, <2>4, <3>2 DEF Heard
    <2>9. PipelineShape'
      BY <1>0, <2>3, <2>4 DEF PipelineShape
    <2>10. QED
      BY <2>5, <2>6, <2>7, <2>8, <2>9 DEF PipelineInv
  <1>2. CASE listeners # << >>
    <2>a. Len(listeners) \in Nat /\ DOMAIN listeners = 1 .. Len(listeners) /\ Len(listeners) # 0
      BY <1>2, EmptySeq, LenProperties
    <2>0. PICK m \in Listeners : m = Head(listeners) /\ m = listeners[1] /\ 1 \in DOMAIN listeners
      <3>1. 1 \in DOMAIN listeners /\ Head(listeners) = listeners[1]
        BY <2>a
      <3>2. listeners[1] \in Listeners
        BY <2>a, <3>1, ElementOfSeq
      <3>3. QED
        BY <3>1, <3>2
    <2>1. PICK g : g = MovedTo(run[p], "telling", listeners)
      OBVIOUS
    <2>2. /\ g \in Delivery /\ g.at = "telling" /\ g.found = run[p].found
          /\ g.attempt = run[p].attempt /\ g.todo = listeners
      <3>1. "telling" \in Stages
        BY DEF Stages
      <3>2. LET h == MovedTo(run[p], "telling", listeners)
            IN  /\ h \in Delivery /\ h.at = "telling" /\ h.todo = listeners
                /\ h.found = run[p].found /\ h.attempt = run[p].attempt
        BY <1>0, <3>1, MovesTo
      <3>3. QED
        BY <2>1, <3>2, Zenon
    <2>3. run' = [run EXCEPT ![p] = g] /\ heard' = [heard EXCEPT ![m] = Append(@, p)]
      BY <1>2, <2>0, <2>1 DEF TellListeners, MovedTo
    <2>4. run' \in [Posts -> Delivery] /\ run'[p] = g /\ \A q \in Posts : q # p => run'[q] = run[q]
      BY <1>0, <2>2, <2>3, RunMoves
    <2>h. /\ heard \in [Listeners -> Seq(Posts)] /\ heard[m] \in Seq(Posts)
          /\ Append(heard[m], p) \in Seq(Posts)
      BY <1>0, AppendProperties DEF PipelineShape
    <2>k. /\ heard' \in [Listeners -> Seq(Posts)] /\ heard'[m] = Append(heard[m], p)
          /\ \A l \in Listeners : l # m => heard'[l] = heard[l]
      BY <2>3, <2>h
    <2>5. ASSUME NEW q \in Posts, q # p PROVE Counted(q)' /\ Indexed(q)' /\ Heard(q)'
      <3>1. Times(q, heard'[m]) = Times(q, heard[m])
        BY <2>5, <2>h, <2>k, AppendsOther
      <3>2. \A l \in Listeners : Times(q, heard'[l]) = Times(q, heard[l])
        BY <2>k, <3>1
      <3>3. QED
        BY <2>4, <2>5, <3>2, OtherPost DEF PipelineInv
    <2>6. Counted(p)'
      <3>1. Fits(g, Times(p, audited), summaries[p], Times(p, authorInbox))
        BY <1>0, <2>2 DEF Counted, Fits, Delivery, Stages
      <3>2. QED
        BY <2>4, <3>1 DEF Counted
    <2>7. Indexed(p)'
      BY <1>0, <2>2, <2>4 DEF Indexed
    <2>8. Heard(p)'
      <3>1. Times(p, heard'[m]) = Times(p, heard[m]) + 1
        BY <2>h, <2>k, TimesAppend
      <3>2. Owed(g, m) = 0
        BY <2>0, <2>2 DEF Owed, Distinct
      <3>3. Times(p, heard'[m]) + Owed(g, m) <= Times(p, audited)
        BY <1>0, <2>0, <3>1, <3>2
      <3>4. ASSUME NEW l \in Listeners, l # m
            PROVE  Times(p, heard'[l]) + Owed(g, l) <= Times(p, audited)
        <4>1. Owed(g, l) = 0 \/ (Owed(g, l) = 1 /\ \E k \in DOMAIN listeners : listeners[k] = l)
          <5>1. CASE \E k \in DOMAIN listeners : k # 1 /\ listeners[k] = l
            BY <2>2, <5>1 DEF Owed
          <5>2. CASE ~\E k \in DOMAIN listeners : k # 1 /\ listeners[k] = l
            BY <2>2, <5>2 DEF Owed
          <5>3. QED
            BY <5>1, <5>2
        <4>2. heard'[l] = heard[l]
          BY <2>k, <3>4
        <4>3. Times(p, heard[l]) + Owed(g, l) <= Times(p, audited)
          BY <1>0, <4>1
        <4>4. QED
          BY <4>2, <4>3
      <3>5. Times(p, heard'[m]) > 0
        BY <1>0, <3>1
      <3>6. QED
        BY <1>2, <2>2, <2>4, <3>3, <3>4, <3>5 DEF Heard
    <2>9. PipelineShape'
      BY <1>0, <2>4, <2>k DEF PipelineShape
    <2>10. QED
      BY <2>5, <2>6, <2>7, <2>8, <2>9 DEF PipelineInv
  <1>3. QED
    BY <1>1, <1>2

\* The listener that has returned, or the author who publishes, was owed no more.
LEMMA FeedInv ==
  ASSUME PipelineInv, NEW p \in Posts, publishToFeed(p) \/ ListenerReturns(p)
  PROVE  PipelineInv'
  <1>0. /\ PipelineShape /\ run[p] \in Delivery /\ Heard(p)
        /\ Times(p, audited) \in Nat /\ \A l \in Listeners : Times(p, heard[l]) \in Nat
        /\ \A l \in Listeners : Owed(run[p], l) \in {0, 1}
    BY Unpacked
  <1>1. CASE publishToFeed(p)
    <2>1. run[p].at = "publish" /\ TellListeners(p, feed) /\ feed \in Seq(Listeners) /\ Distinct(feed)
      BY <1>0, <1>1 DEF publishToFeed, PipelineShape
    <2>2. \A l \in Listeners : Owed(run[p], l) = 1
      BY <2>1 DEF Owed
    <2>3. \A l \in Listeners : /\ Times(p, heard[l]) + 1 <= Times(p, audited)
                              /\ Times(p, heard[l]) <= Times(p, audited)
      BY <1>0, <2>2 DEF Heard
    <2>4. QED
      BY <1>1, <2>1, <2>3, TellingRight DEF publishToFeed
  <1>2. CASE ListenerReturns(p)
    <2> DEFINE todo == run[p].todo
               rest == Tail(todo)
    <2>1. /\ run[p].at = "telling" /\ TellListeners(p, rest)
          /\ todo \in Seq(Listeners) /\ Distinct(todo) /\ todo # << >>
      BY <1>0, <1>2 DEF ListenerReturns, Heard, Delivery
    <2>2. /\ Len(todo) \in Nat /\ DOMAIN todo = 1 .. Len(todo)
          /\ rest \in Seq(Listeners) /\ DOMAIN rest = 1 .. Len(todo) - 1
          /\ \A i \in 1 .. Len(todo) - 1 : rest[i] = todo[i + 1]
      BY <2>1, HeadTailProperties, LenProperties
    <2>3. Distinct(rest)
      <3> SUFFICES ASSUME NEW i \in DOMAIN rest, NEW j \in DOMAIN rest, rest[i] = rest[j] PROVE i = j
        BY DEF Distinct
      <3>1. i + 1 \in DOMAIN todo /\ j + 1 \in DOMAIN todo /\ todo[i + 1] = todo[j + 1]
        BY <2>2
      <3>2. i + 1 = j + 1
        BY <2>1, <3>1 DEF Distinct
      <3>3. QED
        BY <2>2, <3>2
    <2>4. ASSUME NEW l \in Listeners, NEW k \in DOMAIN rest, rest[k] = l PROVE Owed(run[p], l) = 1
      <3>1. k + 1 \in DOMAIN todo /\ k + 1 # 1 /\ todo[k + 1] = l
        BY <2>2, <2>4
      <3>2. QED
        BY <2>1, <3>1 DEF Owed
    <2>5. \A l \in Listeners :
            /\ Times(p, heard[l]) <= Times(p, audited)
            /\ (\E k \in DOMAIN rest : rest[k] = l) => Times(p, heard[l]) + 1 <= Times(p, audited)
      <3> SUFFICES ASSUME NEW l \in Listeners
                   PROVE  /\ Times(p, heard[l]) <= Times(p, audited)
                          /\ (\E k \in DOMAIN rest : rest[k] = l) => Times(p, heard[l]) + 1 <= Times(p, audited)
        OBVIOUS
      <3>1. Times(p, heard[l]) + Owed(run[p], l) <= Times(p, audited)
        BY <1>0 DEF Heard
      <3>2. (\E k \in DOMAIN rest : rest[k] = l) => Owed(run[p], l) = 1
        BY <2>4
      <3>3. QED
        BY <1>0, <3>1, <3>2
    <2> HIDE DEF rest
    <2>6. QED
      BY <1>2, <2>1, <2>2, <2>3, <2>5, TellingRight DEF ListenerReturns
  <1>3. QED
    BY <1>1, <1>2

\* createPost, and the handler up to the feed.
LEMMA BeforeFeedInv ==
  ASSUME PipelineInv, NEW p \in Posts, writePost(p) \/ Publish(p) \/ index(p) \/ record(p)
  PROVE  PipelineInv'
  <1>0. /\ PipelineShape /\ run \in [Posts -> Delivery] /\ run[p] \in Delivery
        /\ Counted(p) /\ Indexed(p) /\ Heard(p)
        /\ Times(p, audited) \in Nat /\ \A l \in Listeners : Times(p, heard[l]) \in Nat
        /\ \A l \in Listeners : Owed(run[p], l) \in {0, 1}
    BY Unpacked
  <1>1. CASE writePost(p)
    <2>1. PICK g : g = [run[p] EXCEPT !.at = "created"]
      OBVIOUS
    <2>2. /\ g \in Delivery /\ g.at = "created" /\ g.found = run[p].found
          /\ g.attempt = run[p].attempt
      BY <1>0, <2>1 DEF Delivery, Stages
    <2>3. run' = [run EXCEPT ![p] = g] /\ run[p].at = "new"
      BY <1>1, <2>1 DEF writePost
    <2>4. run' \in [Posts -> Delivery] /\ run'[p] = g /\ \A q \in Posts : q # p => run'[q] = run[q]
      BY <1>0, <2>2, <2>3, RunMoves
    <2>5. ASSUME NEW q \in Posts, q # p PROVE Counted(q)' /\ Indexed(q)' /\ Heard(q)'
      BY <1>1, <2>4, <2>5, OtherPost DEF PipelineInv, writePost
    <2>6. Counted(p)'
      <3>1. Fits(g, Times(p, audited), summaries[p], Times(p, authorInbox))
        BY <1>0, <2>2, <2>3 DEF Counted, Fits, Delivery, Stages
      <3>2. QED
        BY <1>1, <2>4, <3>1 DEF Counted, writePost
    <2>7. Indexed(p)'
      BY <1>0, <1>1, <2>2, <2>3, <2>4 DEF Indexed, writePost
    <2>8. Heard(p)'
      <3>1. \A l \in Listeners : Owed(g, l) = 0
        BY <2>2 DEF Owed
      <3>2. \A l \in Listeners : Times(p, heard[l]) + Owed(g, l) <= Times(p, audited)
        BY <1>0, <3>1 DEF Heard
      <3>3. QED
        BY <1>1, <2>2, <2>4, <3>2 DEF Heard, writePost
    <2>9. PipelineShape'
      BY <1>0, <1>1, <2>4 DEF PipelineShape, writePost
    <2>10. QED
      BY <2>5, <2>6, <2>7, <2>8, <2>9 DEF PipelineInv
  <1>2. CASE Publish(p)
    <2>1. run[p].at = "created" /\ run[p].attempt < maxAttempts
      BY <1>0, <1>2 DEF Publish, Counted, Fits
    <2>2. run' \in [Posts -> Delivery] /\ \A q \in Posts : Counted(q)' /\ Indexed(q)' /\ Heard(q)'
      BY <1>2, <2>1, StartsRight DEF Publish
    <2>3. QED
      BY <1>0, <1>2, <2>2 DEF Publish, PipelineShape, PipelineInv
  <1>3. CASE index(p)
    <2>1. /\ run[p].at = "index" /\ Past(p, "index") /\ After("index") = "record"
          /\ After("index") \in Stages
      BY <1>3, StepsInOrder DEF index, Past, Stages
    <2>2. /\ run' \in [Posts -> Delivery] /\ \A q \in Posts : q # p => run'[q] = run[q]
          /\ run'[p].at = "record" /\ run'[p].attempt = run[p].attempt
          /\ run'[p].found = run[p].found
      BY <1>0, <2>1, PastStep
    <2>3. ASSUME NEW q \in Posts, q # p PROVE Counted(q)' /\ Indexed(q)' /\ Heard(q)'
      <3>1. q \in indexed' <=> q \in indexed
        BY <1>3, <2>3 DEF index
      <3>2. QED
        BY <1>3, <2>2, <2>3, <3>1, OtherPost DEF PipelineInv, index
    <2>4. Counted(p)'
      <3>0. PICK g : g = run'[p]
        OBVIOUS
      <3>1. Fits(g, Times(p, audited), summaries[p], Times(p, authorInbox))
        BY <1>0, <2>1, <2>2, <3>0 DEF Counted, Fits, Delivery, Stages
      <3>2. QED
        BY <1>3, <3>0, <3>1 DEF Counted, index
    <2>5. Indexed(p)'
      BY <1>0, <1>3, <2>1, <2>2 DEF Indexed, index, Counted, Fits, Stages
    <2>6. Heard(p)'
      <3>0. PICK g : g = run'[p]
        OBVIOUS
      <3>1. \A l \in Listeners : Owed(g, l) = 0
        BY <2>2, <3>0 DEF Owed
      <3>2. \A l \in Listeners : Times(p, heard[l]) + Owed(g, l) <= Times(p, audited)
        BY <1>0, <3>1 DEF Heard
      <3>3. QED
        BY <1>3, <2>2, <3>0, <3>2 DEF Heard, index
    <2>7. PipelineShape'
      BY <1>0, <1>3, <2>2 DEF PipelineShape, index
    <2>8. QED
      BY <2>3, <2>4, <2>5, <2>6, <2>7 DEF PipelineInv
  <1>4. CASE record(p)
    <2>1. /\ run[p].at = "record" /\ Past(p, "record") /\ After("record") = "publish"
          /\ After("record") \in Stages /\ audited' = Append(audited, p)
          /\ audited \in Seq(Posts)
      BY <1>0, <1>4, StepsInOrder DEF record, Past, Stages, PipelineShape
    <2>2. /\ run' \in [Posts -> Delivery] /\ \A q \in Posts : q # p => run'[q] = run[q]
          /\ run'[p].at = "publish" /\ run'[p].attempt = run[p].attempt
          /\ run'[p].found = run[p].found
      BY <1>0, <2>1, PastStep
    <2>t. Times(p, audited') = Times(p, audited) + 1 /\ audited' \in Seq(Posts)
      BY <2>1, TimesAppend, AppendProperties
    <2>3. ASSUME NEW q \in Posts, q # p PROVE Counted(q)' /\ Indexed(q)' /\ Heard(q)'
      <3>1. Times(q, audited') = Times(q, audited)
        BY <2>1, <2>3, AppendsOther
      <3>2. QED
        BY <1>4, <2>2, <2>3, <3>1, OtherPost DEF PipelineInv, record
    <2>4. Counted(p)'
      <3>0. PICK g, a : g = run'[p] /\ a = Times(p, audited')
        OBVIOUS
      <3>1. Fits(g, a, summaries[p], Times(p, authorInbox))
        BY <1>0, <2>1, <2>2, <2>t, <3>0 DEF Counted, Fits, Delivery, Stages
      <3>2. QED
        BY <1>4, <3>0, <3>1 DEF Counted, record
    <2>5. Indexed(p)'
      BY <1>0, <1>4, <2>1, <2>2 DEF Indexed, record
    <2>6. Heard(p)'
      <3>0. PICK g, a : g = run'[p] /\ a = Times(p, audited')
        OBVIOUS
      <3>1. \A l \in Listeners : Owed(g, l) \in {0, 1}
        BY DEF Owed
      <3>2. \A l \in Listeners : Times(p, heard[l]) + Owed(g, l) <= a
        BY <1>0, <2>t, <3>0, <3>1 DEF Heard
      <3>3. QED
        BY <1>4, <2>2, <3>0, <3>2 DEF Heard, record
    <2>7. PipelineShape'
      BY <1>0, <1>4, <2>2, <2>t DEF PipelineShape, record
    <2>8. QED
      BY <2>3, <2>4, <2>5, <2>6, <2>7 DEF PipelineInv
  <1>5. QED
    BY <1>1, <1>2, <1>3, <1>4

\* The handler after the feed, and a listener that throws.
LEMMA AfterFeedInv ==
  ASSUME PipelineInv, NEW p \in Posts, ListenerThrows(p) \/ generateText(p) \/ tellAuthor(p)
  PROVE  PipelineInv'
  <1>0. /\ PipelineShape /\ run \in [Posts -> Delivery] /\ run[p] \in Delivery
        /\ Counted(p) /\ Indexed(p) /\ Heard(p)
        /\ Times(p, audited) \in Nat /\ \A l \in Listeners : Times(p, heard[l]) \in Nat
        /\ \A l \in Listeners : Owed(run[p], l) \in {0, 1}
    BY Unpacked
  <1>1. CASE ListenerThrows(p) /\ run[p].attempt < maxAttempts
    <2>1. run[p].at = "telling" /\ run' = [run EXCEPT ![p] = Started(p)]
      BY <1>1 DEF ListenerThrows
    <2>2. run' \in [Posts -> Delivery] /\ \A q \in Posts : Counted(q)' /\ Indexed(q)' /\ Heard(q)'
      BY <1>1, <2>1, StartsRight DEF ListenerThrows
    <2>3. QED
      BY <1>0, <1>1, <2>2 DEF ListenerThrows, PipelineShape, PipelineInv
  <1>2. CASE ListenerThrows(p) /\ ~(run[p].attempt < maxAttempts)
    <2>0. PICK none \in Seq(Listeners) : none = << >>
      BY EmptySeq
    <2>1. PICK g : g = MovedTo(run[p], "dropped", none)
      OBVIOUS
    <2>2. /\ g \in Delivery /\ g.at = "dropped" /\ g.found = run[p].found
          /\ g.attempt = run[p].attempt
      <3>1. "dropped" \in Stages
        BY DEF Stages
      <3>2. LET h == MovedTo(run[p], "dropped", none)
            IN  /\ h \in Delivery /\ h.at = "dropped" /\ h.todo = none
                /\ h.found = run[p].found /\ h.attempt = run[p].attempt
        BY <1>0, <3>1, MovesTo
      <3>3. QED
        BY <2>1, <3>2, Zenon
    <2>3. run' = [run EXCEPT ![p] = g] /\ run[p].at = "telling"
      BY <1>2, <2>0, <2>1 DEF ListenerThrows, MovedTo
    <2>4. run' \in [Posts -> Delivery] /\ run'[p] = g /\ \A q \in Posts : q # p => run'[q] = run[q]
      BY <1>0, <2>2, <2>3, RunMoves
    <2>5. ASSUME NEW q \in Posts, q # p PROVE Counted(q)' /\ Indexed(q)' /\ Heard(q)'
      BY <1>2, <2>4, <2>5, OtherPost DEF PipelineInv, ListenerThrows
    <2>6. Counted(p)'
      <3>1. Fits(g, Times(p, audited), summaries[p], Times(p, authorInbox))
        BY <1>0, <1>2, <2>2, <2>3 DEF Counted, Fits, Delivery, Stages
      <3>2. QED
        BY <1>2, <2>4, <3>1 DEF Counted, ListenerThrows
    <2>7. Indexed(p)'
      BY <1>0, <1>2, <2>2, <2>3, <2>4 DEF Indexed, ListenerThrows
    <2>8. Heard(p)'
      <3>1. \A l \in Listeners : Owed(g, l) = 0
        BY <2>2 DEF Owed
      <3>2. \A l \in Listeners : Times(p, heard[l]) + Owed(g, l) <= Times(p, audited)
        BY <1>0, <3>1 DEF Heard
      <3>3. \E l \in Listeners : Times(p, heard[l]) > 0
        BY <1>0, <2>3 DEF Heard
      <3>4. QED
        BY <1>2, <2>2, <2>4, <3>2, <3>3 DEF Heard, ListenerThrows
    <2>9. PipelineShape'
      BY <1>0, <1>2, <2>4 DEF PipelineShape, ListenerThrows
    <2>10. QED
      BY <2>5, <2>6, <2>7, <2>8, <2>9 DEF PipelineInv
  <1>3. CASE generateText(p)
    <2>1. /\ run[p].at = "generate" /\ Past(p, "generate") /\ After("generate") = "notify"
          /\ After("generate") \in Stages
          /\ summaries' = [summaries EXCEPT ![p] = @ + 1] /\ summaries \in [Posts -> Nat]
      BY <1>0, <1>3, StepsInOrder DEF generateText, Past, Stages, PipelineShape
    <2>2. /\ run' \in [Posts -> Delivery] /\ \A q \in Posts : q # p => run'[q] = run[q]
          /\ run'[p].at = "notify" /\ run'[p].attempt = run[p].attempt
          /\ run'[p].found = run[p].found
      BY <1>0, <2>1, PastStep
    <2>t. /\ summaries' \in [Posts -> Nat] /\ summaries'[p] = summaries[p] + 1
          /\ \A q \in Posts : q # p => summaries'[q] = summaries[q]
      BY <2>1
    <2>3. ASSUME NEW q \in Posts, q # p PROVE Counted(q)' /\ Indexed(q)' /\ Heard(q)'
      BY <1>3, <2>2, <2>3, <2>t, OtherPost DEF PipelineInv, generateText
    <2>4. Counted(p)'
      <3>0. PICK g, n : g = run'[p] /\ n = summaries'[p]
        OBVIOUS
      <3>1. Fits(g, Times(p, audited), n, Times(p, authorInbox))
        BY <1>0, <2>1, <2>2, <2>t, <3>0 DEF Counted, Fits, Delivery, Stages
      <3>2. QED
        BY <1>3, <3>0, <3>1 DEF Counted, generateText
    <2>5. Indexed(p)'
      BY <1>0, <1>3, <2>1, <2>2 DEF Indexed, generateText
    <2>6. Heard(p)'
      <3>0. PICK g : g = run'[p]
        OBVIOUS
      <3>1. \A l \in Listeners : Owed(g, l) = 0
        BY <2>2, <3>0 DEF Owed
      <3>2. \A l \in Listeners : Times(p, heard[l]) + Owed(g, l) <= Times(p, audited)
        BY <1>0, <3>1 DEF Heard
      <3>3. QED
        BY <1>3, <2>2, <3>0, <3>2 DEF Heard, generateText
    <2>7. PipelineShape'
      BY <1>0, <1>3, <2>2, <2>t DEF PipelineShape, generateText
    <2>8. QED
      BY <2>3, <2>4, <2>5, <2>6, <2>7 DEF PipelineInv
  <1>4. CASE tellAuthor(p)
    <2>1. /\ run[p].at = "notify" /\ Past(p, "notify") /\ After("notify") = "handled"
          /\ After("notify") \in Stages /\ authorInbox' = Append(authorInbox, p)
          /\ authorInbox \in Seq(Posts)
      BY <1>0, <1>4, StepsInOrder DEF tellAuthor, Past, Stages, PipelineShape
    <2>2. /\ run' \in [Posts -> Delivery] /\ \A q \in Posts : q # p => run'[q] = run[q]
          /\ run'[p].at = "handled" /\ run'[p].attempt = run[p].attempt
          /\ run'[p].found = run[p].found
      BY <1>0, <2>1, PastStep
    <2>t. Times(p, authorInbox') = Times(p, authorInbox) + 1 /\ authorInbox' \in Seq(Posts)
      BY <2>1, TimesAppend, AppendProperties
    <2>3. ASSUME NEW q \in Posts, q # p PROVE Counted(q)' /\ Indexed(q)' /\ Heard(q)'
      <3>1. Times(q, authorInbox') = Times(q, authorInbox)
        BY <2>1, <2>3, AppendsOther
      <3>2. QED
        BY <1>4, <2>2, <2>3, <3>1, OtherPost DEF PipelineInv, tellAuthor
    <2>4. Counted(p)'
      <3>0. PICK g, n : g = run'[p] /\ n = Times(p, authorInbox')
        OBVIOUS
      <3>1. Fits(g, Times(p, audited), summaries[p], n)
        BY <1>0, <2>1, <2>2, <2>t, <3>0 DEF Counted, Fits, Delivery, Stages
      <3>2. QED
        BY <1>4, <3>0, <3>1 DEF Counted, tellAuthor
    <2>5. Indexed(p)'
      BY <1>0, <1>4, <2>1, <2>2 DEF Indexed, tellAuthor
    <2>6. Heard(p)'
      <3>0. PICK g : g = run'[p]
        OBVIOUS
      <3>1. \A l \in Listeners : Owed(g, l) = 0
        BY <2>2, <3>0 DEF Owed
      <3>2. \A l \in Listeners : Times(p, heard[l]) + Owed(g, l) <= Times(p, audited)
        BY <1>0, <3>1 DEF Heard
      <3>3. QED
        BY <1>4, <2>2, <3>0, <3>2 DEF Heard, tellAuthor
    <2>7. PipelineShape'
      BY <1>0, <1>4, <2>2, <2>t DEF PipelineShape, tellAuthor
    <2>8. QED
      BY <2>3, <2>4, <2>5, <2>6, <2>7 DEF PipelineInv
  <1>5. QED
    BY <1>1, <1>2, <1>3, <1>4

\* Posts deleted, and listeners that come and go.
LEMMA AroundInv ==
  ASSUME PipelineInv,
         (\E p \in Posts : deletePost(p)) \/ (\E l \in Listeners : subscribe(l) \/ unsubscribe(l))
  PROVE  PipelineInv'
  <1>1. UNCHANGED <<run, indexed, audited, heard, summaries, authorInbox>>
    BY DEF deletePost, subscribe, unsubscribe
  <1>2. ASSUME NEW q \in Posts PROVE Counted(q)' /\ Indexed(q)' /\ Heard(q)'
    BY <1>1, <1>2, OtherPost DEF PipelineInv
  <1>3. feed' \in Seq(Listeners) /\ Distinct(feed')
    <2>0. feed \in Seq(Listeners) /\ Distinct(feed)
      BY DEF PipelineInv, PipelineShape
    <2>1. CASE \E p \in Posts : deletePost(p)
      BY <2>0, <2>1 DEF deletePost
    <2>2. ASSUME NEW l \in Listeners, subscribe(l) PROVE feed' \in Seq(Listeners) /\ Distinct(feed')
      <3>1. feed' = Append(feed, l) /\ \A k \in DOMAIN feed : feed[k] # l
        BY <2>2 DEF subscribe, Contains
      <3>2. /\ Len(feed) \in Nat /\ DOMAIN feed = 1 .. Len(feed)
            /\ feed' \in Seq(Listeners) /\ DOMAIN feed' = 1 .. Len(feed) + 1
            /\ feed'[Len(feed) + 1] = l /\ \A i \in 1 .. Len(feed) : feed'[i] = feed[i]
        BY <2>0, <3>1, AppendProperties, LenProperties
      <3>3. QED
        BY <2>0, <3>1, <3>2 DEF Distinct
    <2>3. ASSUME NEW l \in Listeners, unsubscribe(l) PROVE feed' \in Seq(Listeners) /\ Distinct(feed')
      <3>1. PICK k \in DOMAIN feed : feed' = RemoveAt(feed, k)
        BY <2>3 DEF unsubscribe
      <3>2. RemoveAt(feed, k) \in Seq(Listeners) /\ Distinct(RemoveAt(feed, k))
        BY <2>0, WithoutOne
      <3>3. QED
        BY <3>1, <3>2
    <2>4. QED
      BY <2>1, <2>2, <2>3
  <1>4. QED
    BY <1>1, <1>2, <1>3 DEF PipelineInv, PipelineShape

LEMMA PipelineGives == PipelineInv => AuthorToldOnce
  <1> SUFFICES ASSUME PipelineInv, NEW p \in Posts
               PROVE  /\ Times(p, authorInbox) <= 1 /\ Times(p, authorInbox) <= summaries[p] /\ summaries[p] <= 1
                      /\ \A l \in Listeners : Times(p, heard[l]) <= Times(p, audited)
                      /\ Settled(p) =>
                           LET done == run[p].at = "handled" /\ run[p].found = run[p].attempt
                           IN /\ Times(p, authorInbox) = IF done THEN 1 ELSE 0
                              /\ summaries[p] = Times(p, authorInbox)
                              /\ Times(p, audited) = run[p].found
                              /\ p \in indexed <=> run[p].found > 0
                              /\ run[p].at = "dropped" =>
                                   /\ run[p].found = maxAttempts
                                   /\ \E l \in Listeners : Times(p, heard[l]) > 0
    BY DEF AuthorToldOnce
  <1>0. /\ run[p] \in Delivery /\ Counted(p) /\ Indexed(p) /\ Heard(p)
        /\ Times(p, audited) \in Nat /\ \A l \in Listeners : Times(p, heard[l]) \in Nat
        /\ \A l \in Listeners : Owed(run[p], l) \in {0, 1}
    BY Unpacked
  <1>1. Times(p, authorInbox) <= 1 /\ Times(p, authorInbox) <= summaries[p] /\ summaries[p] <= 1
    BY <1>0 DEF Counted, Fits
  <1>2. \A l \in Listeners : Times(p, heard[l]) <= Times(p, audited)
    BY <1>0 DEF Heard
  <1>3. ASSUME Settled(p)
        PROVE  /\ Times(p, authorInbox) = IF run[p].at = "handled" /\ run[p].found = run[p].attempt THEN 1 ELSE 0
               /\ summaries[p] = Times(p, authorInbox)
               /\ Times(p, audited) = run[p].found
    BY <1>0, <1>3 DEF Counted, Fits, Settled, Delivery
  <1>4. ASSUME Settled(p) PROVE p \in indexed <=> run[p].found > 0
    BY <1>0, <1>4 DEF Indexed, Settled
  <1>5. ASSUME run[p].at = "dropped"
        PROVE  run[p].found = maxAttempts /\ \E l \in Listeners : Times(p, heard[l]) > 0
    BY <1>0, <1>5 DEF Counted, Fits, Stages, Heard
  <1>6. QED
    BY <1>1, <1>2, <1>3, <1>4, <1>5

(* The pipeline behind a published post, for any number of posts, of         *)
(* listeners and of attempts of the bus: the author is told once, by an      *)
(* attempt that found the post and got past every listener, and a delivery   *)
(* is dropped only after maxAttempts errors of listeners.                    *)
THEOREM AuthorToldOnceCorrect == PipelineSpec => []AuthorToldOnce
  <1>1. PipelineInv /\ [PipelineNext]_pipelineVars => PipelineInv'
    <2> SUFFICES ASSUME PipelineInv, [PipelineNext]_pipelineVars PROVE PipelineInv'
      OBVIOUS
    <2>1. ASSUME NEW p \in Posts, writePost(p) \/ Publish(p) \/ index(p) \/ record(p) PROVE PipelineInv'
      BY <2>1, BeforeFeedInv
    <2>2. ASSUME NEW p \in Posts, publishToFeed(p) \/ ListenerReturns(p) PROVE PipelineInv'
      BY <2>2, FeedInv
    <2>3. ASSUME NEW p \in Posts, ListenerThrows(p) \/ generateText(p) \/ tellAuthor(p) PROVE PipelineInv'
      BY <2>3, AfterFeedInv
    <2>4. CASE (\E p \in Posts : deletePost(p)) \/ \E l \in Listeners : subscribe(l) \/ unsubscribe(l)
      BY <2>4, AroundInv
    <2>5. CASE UNCHANGED pipelineVars
      <3>1. ASSUME NEW q \in Posts PROVE Counted(q)' /\ Indexed(q)' /\ Heard(q)'
        BY <2>5, <3>1, OtherPost DEF PipelineInv, pipelineVars
      <3>2. QED
        BY <2>5, <3>1 DEF PipelineInv, PipelineShape, pipelineVars
    <2>6. QED
      BY <2>1, <2>2, <2>3, <2>4, <2>5 DEF PipelineNext
  <1>2. QED
    BY PipelineInitInv, PipelineGives, <1>1, PTL DEF PipelineSpec

-----------------------------------------------------------------------------
(* Redaction.  Its functions are recursive: each is what its definition says *)
(* because its calls are on values that nest less deep (RecursiveFunctions). *)

DataBody(data, n) ==
  IF n = 0 THEN {Leaf, Redacted, Missing}
  ELSE data[n - 1] \cup [is : {"array"}, items : Seq(data[n - 1])]
                   \cup [is : {"object", "instance"}, fields : [Keys -> data[n - 1]]]

AnyValue(v, x) == TRUE

OfData     == INSTANCE RecursiveFunctions WITH Def <- DataBody, Good <- AnyValue
OfSanitize == INSTANCE RecursiveFunctions WITH Def <- walk, Good <- AnyValue
OfRedact   == INSTANCE RecursiveFunctions WITH Def <- redactValue, Good <- AnyValue
OfPaths    == INSTANCE RecursiveFunctions WITH Def <- PathsOf, Good <- AnyValue

LEMMA DataDef == Data = [n \in Nat |-> DataBody(Data, n)]
  <1> DEFINE measure == [n \in Nat |-> n]
  <1>1. OfData!Local(Nat, measure)
    <2> SUFFICES ASSUME NEW n \in Nat, NEW g, NEW h,
                        \A w \in Nat : measure[w] < measure[n] => g[w] = h[w]
                 PROVE  DataBody(g, n) = DataBody(h, n)
      BY DEF OfData!Local, AnyValue
    <2>1. CASE n = 0
      BY <2>1 DEF DataBody
    <2>2. CASE n # 0
      <3>1. n - 1 \in Nat /\ n - 1 < n
        BY <2>2
      <3>2. g[n - 1] = h[n - 1]
        BY <3>1
      <3>3. QED
        BY <3>2 DEF DataBody
    <2>3. QED
      BY <2>1, <2>2
  <1>2. \E f : f = [n \in Nat |-> DataBody(f, n)]
    <2>1. measure \in [Nat -> Nat]
      OBVIOUS
    <2> HIDE DEF measure
    <2>2. QED
      BY <1>1, <2>1, OfData!FunctionExists
  <1>3. QED
    BY <1>2 DEF Data, DataBody

\* The arrays and the objects made of values of D.
Arrays(D)  == [is : {"array"}, items : Seq(D)]
Objects(D) == [is : {"object", "instance"}, fields : [Keys -> D]]

LEMMA DataLevels ==
  /\ Data[0] = {Leaf, Redacted, Missing}
  /\ \A n \in Nat : Data[n + 1] = Data[n] \cup Arrays(Data[n]) \cup Objects(Data[n])
  <1>1. Data[0] = DataBody(Data, 0)
    BY DataDef
  <1>2. ASSUME NEW n \in Nat
        PROVE  Data[n + 1] = Data[n] \cup Arrays(Data[n]) \cup Objects(Data[n])
    <2>1. n + 1 \in Nat /\ n + 1 # 0 /\ (n + 1) - 1 = n
      OBVIOUS
    <2>2. Data[n + 1] = DataBody(Data, n + 1)
      BY <2>1, DataDef
    <2>3. QED
      BY <2>1, <2>2 DEF DataBody, Arrays, Objects
  <1>3. QED
    BY <1>1, <1>2 DEF DataBody

LEMMA DataGrows ==
  ASSUME NEW m \in Nat, NEW n \in Nat, m <= n
  PROVE  Data[m] \subseteq Data[n]
  <1> DEFINE T == {k \in Nat : Data[m] \subseteq Data[m + k]}
  <1>1. 0 \in T
    OBVIOUS
  <1>2. ASSUME NEW k \in Nat, k \in T PROVE k + 1 \in T
    <2>1. Data[(m + k) + 1] = Data[m + k] \cup Arrays(Data[m + k]) \cup Objects(Data[m + k])
      BY DataLevels
    <2>2. m + (k + 1) = (m + k) + 1
      OBVIOUS
    <2>3. QED
      BY <1>2, <2>1, <2>2
  <1> HIDE DEF T
  <1>3. Nat \subseteq T
    BY <1>1, <1>2, OfData!SetInduction
  <1>4. n - m \in T /\ m + (n - m) = n
    BY <1>3
  <1>5. QED
    BY <1>4 DEF T

-----------------------------------------------------------------------------
(* Induction over values: how deep a value nests is a measure.               *)

NestsTo(v, n) == n \in Nat /\ v \in Data[n] /\ \A m \in Nat : v \in Data[m] => n <= m

nesting == [v \in Values |-> CHOOSE n : NestsTo(v, n)]

LEMMA Nesting ==
  ASSUME NEW v \in Values
  PROVE  NestsTo(v, nesting[v]) /\ nesting[v] \in 0 .. MaxDepth
  <1>1. ASSUME NEW w \in Values PROVE \E n : NestsTo(w, n)
    <2> DEFINE T == {n \in Nat : w \in Data[n]}
    <2>1. T # {} /\ T \in SUBSET Nat
      BY RedactionAssumption DEF Values
    <2>2. PICK n \in T : \A m \in T : ~(m < n)
      BY <2>1, OfData!SmallestMember
    <2>3. NestsTo(w, n)
      BY <2>2 DEF NestsTo
    <2>4. QED
      BY <2>3
  <1>2. \A w \in Values : NestsTo(w, nesting[w])
    BY <1>1 DEF nesting
  <1>3. nesting[v] \in Nat /\ nesting[v] <= MaxDepth
    BY <1>2, RedactionAssumption DEF NestsTo, Values
  <1>4. QED
    BY <1>2, <1>3, RedactionAssumption

LEMMA NestingTyped == nesting \in [Values -> Nat]
  <1>1. \A v \in Values : nesting[v] \in Nat
    BY Nesting DEF NestsTo
  <1>2. QED
    BY <1>1 DEF nesting

LEMMA NestingAtMost ==
  ASSUME NEW n \in Nat, n <= MaxDepth, NEW v \in Data[n]
  PROVE  v \in Values /\ nesting[v] <= n
  <1>1. v \in Values
    BY DataGrows, RedactionAssumption DEF Values
  <1>2. QED
    BY <1>1, Nesting DEF NestsTo

Atoms == {Leaf, Redacted, Missing}

\* A value is an atom, or made of values that nest less deep.
LEMMA ValueIs ==
  ASSUME NEW v \in Values
  PROVE  \/ v \in Atoms
         \/ /\ v.is = "array" /\ v = Array(v.items) /\ nesting[v] # 0
            /\ v.items \in Seq(Data[nesting[v] - 1])
         \/ /\ v.is = "object" /\ v = Object(v.fields) /\ nesting[v] # 0
            /\ v.fields \in [Keys -> Data[nesting[v] - 1]]
         \/ /\ v.is = "instance" /\ v = Instance(v.fields) /\ nesting[v] # 0
            /\ v.fields \in [Keys -> Data[nesting[v] - 1]]
  <1>1. nesting[v] \in Nat /\ v \in Data[nesting[v]] /\ \A m \in Nat : v \in Data[m] => nesting[v] <= m
    BY Nesting DEF NestsTo
  <1>2. CASE nesting[v] = 0
    BY <1>1, <1>2, DataLevels DEF Atoms
  <1>3. CASE nesting[v] # 0
    <2> DEFINE n == nesting[v] - 1
    <2>1. n \in Nat /\ n + 1 = nesting[v]
      BY <1>1, <1>3
    <2>2. v \notin Data[n] /\ v \in Data[n + 1]
      BY <1>1, <2>1
    <2>3. v \in Arrays(Data[n]) \/ v \in Objects(Data[n])
      BY <2>1, <2>2, DataLevels
    <2> HIDE DEF n
    <2>4. CASE v \in Arrays(Data[n])
      <3>1. v.is = "array" /\ v.items \in Seq(Data[n]) /\ v = Array(v.items)
        BY <2>4 DEF Arrays, Array
      <3>2. QED
        BY <1>3, <3>1 DEF n
    <2>5. CASE v \in Objects(Data[n])
      <3>1. /\ v.is \in {"object", "instance"} /\ v.fields \in [Keys -> Data[n]]
            /\ v = [is |-> v.is, fields |-> v.fields]
        BY <2>5 DEF Objects
      <3>2. v = Object(v.fields) \/ v = Instance(v.fields)
        BY <3>1 DEF Object, Instance
      <3>3. QED
        BY <1>3, <3>1, <3>2 DEF Object, Instance, n
    <2>6. QED
      BY <2>3, <2>4, <2>5
  <1>4. QED
    BY <1>2, <1>3

LEMMA AtomsAre ==
  ASSUME NEW v \in Atoms
  PROVE  v.is \in {"leaf", "redacted", "missing"}
  BY DEF Atoms, Leaf, Redacted, Missing

\* The items and fields of a value are values that nest less deep.
LEMMA PartsNest ==
  ASSUME NEW v \in Values
  PROVE  /\ v.is = "array" =>
              \A i \in DOMAIN v.items : v.items[i] \in Values /\ nesting[v.items[i]] < nesting[v]
         /\ v.is \in {"object", "instance"} =>
              \A k \in Keys : v.fields[k] \in Values /\ nesting[v.fields[k]] < nesting[v]
  <1>1. nesting[v] \in 0 .. MaxDepth
    BY Nesting
  <1>2. ASSUME nesting[v] # 0, NEW w \in Data[nesting[v] - 1]
        PROVE  w \in Values /\ nesting[w] < nesting[v]
    <2>1. nesting[v] - 1 \in Nat /\ nesting[v] - 1 <= MaxDepth
      BY <1>1, <1>2, RedactionAssumption
    <2>2. w \in Values /\ nesting[w] <= nesting[v] - 1
      BY <2>1, NestingAtMost
    <2>3. nesting[w] \in Nat
      BY <2>2, Nesting
    <2>4. QED
      BY <1>1, <2>2, <2>3
  <1>3. ASSUME v.is = "array", NEW i \in DOMAIN v.items
        PROVE  v.items[i] \in Values /\ nesting[v.items[i]] < nesting[v]
    <2>1. nesting[v] # 0 /\ v.items \in Seq(Data[nesting[v] - 1])
      BY <1>3, ValueIs, AtomsAre
    <2>2. v.items[i] \in Data[nesting[v] - 1]
      BY <1>3, <2>1, ElementOfSeq, LenProperties
    <2>3. QED
      BY <1>2, <2>1, <2>2
  <1>4. ASSUME v.is \in {"object", "instance"}, NEW k \in Keys
        PROVE  v.fields[k] \in Values /\ nesting[v.fields[k]] < nesting[v]
    <2>1. nesting[v] # 0 /\ v.fields \in [Keys -> Data[nesting[v] - 1]]
      BY <1>4, ValueIs, AtomsAre
    <2>2. QED
      BY <1>2, <2>1
  <1>5. QED
    BY <1>3, <1>4

LEMMA ValueInduction ==
  ASSUME NEW T,
         \A v \in Values : (\A w \in Values : nesting[w] < nesting[v] => w \in T) => v \in T
  PROVE  Values \subseteq T
  <1>1. \A v \in Values : nesting[v] \in Nat
    BY Nesting
  <1>2. QED
    BY <1>1, OfData!MeasureInduction

\* What kinds of values there are, in the words of the bodies.
LEMMA Kinds ==
  ASSUME NEW v \in Values
  PROVE  v.is \in {"leaf", "redacted", "missing", "array", "object", "instance"}
  BY ValueIs, AtomsAre

-----------------------------------------------------------------------------
(* The recursive functions are what their definitions say.                   *)

LEMMA SanitizeDef == sanitizeTelemetry = [v \in Values |-> walk(sanitizeTelemetry, v)]
  <1>1. ASSUME NEW v \in Values, NEW g, NEW h,
               \A w \in Values : nesting[w] < nesting[v] => g[w] = h[w]
        PROVE  walk(g, v) = walk(h, v)
    <2>1. CASE v.is = "array"
      <3>1. \A i \in DOMAIN v.items : g[v.items[i]] = h[v.items[i]]
        BY <1>1, <2>1, PartsNest
      <3>2. QED
        BY <2>1, <3>1 DEF walk
    <2>2. CASE v.is = "object"
      <3>1. \A k \in Keys : g[v.fields[k]] = h[v.fields[k]]
        BY <1>1, <2>2, PartsNest
      <3>2. QED
        BY <2>2, <3>1 DEF walk
    <2>3. CASE v.is \notin {"array", "object"}
      BY <2>3 DEF walk
    <2>4. QED
      BY <2>1, <2>2, <2>3
  <1>2. OfSanitize!Local(Values, nesting)
    BY <1>1 DEF OfSanitize!Local, AnyValue
  <1>3. \E f : f = [v \in Values |-> walk(f, v)]
    BY <1>2, NestingTyped, OfSanitize!FunctionExists
  <1>4. QED
    BY <1>3 DEF sanitizeTelemetry

LEMMA RedactDef == redactFields = [v \in Values |-> redactValue(redactFields, v)]
  <1>1. ASSUME NEW v \in Values, NEW g, NEW h,
               \A w \in Values : nesting[w] < nesting[v] => g[w] = h[w]
        PROVE  redactValue(g, v) = redactValue(h, v)
    <2>1. CASE v.is = "array"
      <3>1. \A i \in DOMAIN v.items : g[v.items[i]] = h[v.items[i]]
        BY <1>1, <2>1, PartsNest
      <3>2. QED
        BY <2>1, <3>1 DEF redactValue
    <2>2. CASE v.is \in {"object", "instance"}
      <3>1. \A k \in Keys : g[v.fields[k]] = h[v.fields[k]]
        BY <1>1, <2>2, PartsNest
      <3>2. QED
        BY <2>2, <3>1 DEF redactValue
    <2>3. CASE v.is \notin {"array", "object", "instance"}
      BY <2>3 DEF redactValue
    <2>4. QED
      BY <2>1, <2>2, <2>3
  <1>2. OfRedact!Local(Values, nesting)
    BY <1>1 DEF OfRedact!Local, AnyValue
  <1>3. \E f : f = [v \in Values |-> redactValue(f, v)]
    BY <1>2, NestingTyped, OfRedact!FunctionExists
  <1>4. QED
    BY <1>3 DEF redactFields

LEMMA PathsDef == Paths = [v \in Values |-> PathsOf(Paths, v)]
  <1>1. ASSUME NEW v \in Values, NEW g, NEW h,
               \A w \in Values : nesting[w] < nesting[v] => g[w] = h[w]
        PROVE  PathsOf(g, v) = PathsOf(h, v)
    <2>1. CASE v.is = "array"
      <3>1. \A i \in DOMAIN v.items : g[v.items[i]] = h[v.items[i]]
        BY <1>1, <2>1, PartsNest
      <3>2. PathsOf(g, v) = UNION {Under(Step("array", i, "item"), g[v.items[i]]) : i \in DOMAIN v.items}
            /\ PathsOf(h, v) = UNION {Under(Step("array", i, "item"), h[v.items[i]]) : i \in DOMAIN v.items}
        BY <2>1 DEF PathsOf
      <3>3. QED
        BY <3>1, <3>2
    <2>2. CASE v.is \in {"object", "instance"}
      <3>1. \A k \in Keys : g[v.fields[k]] = h[v.fields[k]]
        BY <1>1, <2>2, PartsNest
      <3>2. PathsOf(g, v) = UNION {Under(Step(v.is, 0, k), g[v.fields[k]]) : k \in Keys}
            /\ PathsOf(h, v) = UNION {Under(Step(v.is, 0, k), h[v.fields[k]]) : k \in Keys}
        BY <2>2 DEF PathsOf
      <3>3. QED
        BY <3>1, <3>2
    <2>3. CASE v.is \notin {"array", "object", "instance"}
      BY <2>3 DEF PathsOf
    <2>4. QED
      BY <2>1, <2>2, <2>3
  <1>2. OfPaths!Local(Values, nesting)
    BY <1>1 DEF OfPaths!Local, AnyValue
  <1>3. \E f : f = [v \in Values |-> PathsOf(f, v)]
    BY <1>2, NestingTyped, OfPaths!FunctionExists
  <1>4. QED
    BY <1>3 DEF Paths

-----------------------------------------------------------------------------
(* What the functions return nests no deeper than what they are given.        *)

LEMMA RangeTyped ==
  ASSUME NEW S, NEW n \in Nat, NEW f \in [1 .. n -> S]
  PROVE  f \in Seq(S) /\ Len(f) = n
  <1>1. f \in Seq(S)
    BY SeqDef
  <1>2. QED
    BY <1>1, LenProperties

LEMMA AtomsEverywhere ==
  ASSUME NEW n \in Nat
  PROVE  Leaf \in Data[n] /\ Redacted \in Data[n] /\ Missing \in Data[n]
  BY DataLevels, DataGrows

LEMMA Made ==
  ASSUME NEW n \in Nat
  PROVE  /\ \A s \in Seq(Data[n]) : Array(s) \in Data[n + 1]
         /\ \A f \in [Keys -> Data[n]] : Object(f) \in Data[n + 1] /\ Instance(f) \in Data[n + 1]
  <1>1. \A s \in Seq(Data[n]) : Array(s) \in Arrays(Data[n])
    BY DEF Array, Arrays
  <1>2. \A f \in [Keys -> Data[n]] : Object(f) \in Objects(Data[n]) /\ Instance(f) \in Objects(Data[n])
    BY DEF Object, Instance, Objects
  <1>3. QED
    BY <1>1, <1>2, DataLevels

\* The values on which f nests no deeper than its argument.
Flat(f) == {v \in Values : f[v] \in Data[nesting[v]]}

\* The parts of v, after a function that keeps those less deep than v flat.
LEMMA PartsFlat ==
  ASSUME NEW f, NEW v \in Values, nesting[v] # 0,
         \A w \in Values : nesting[w] < nesting[v] => w \in Flat(f)
  PROVE  /\ nesting[v] - 1 \in Nat /\ (nesting[v] - 1) + 1 = nesting[v]
         /\ v.is = "array" =>
              [i \in DOMAIN v.items |-> f[v.items[i]]] \in Seq(Data[nesting[v] - 1])
         /\ v.is \in {"object", "instance"} => \A k \in Keys : f[v.fields[k]] \in Data[nesting[v] - 1]
  <1>1. nesting[v] - 1 \in Nat /\ (nesting[v] - 1) + 1 = nesting[v] /\ nesting[v] \in Nat
    BY Nesting
  <1>2. ASSUME NEW w \in Values, nesting[w] < nesting[v]
        PROVE  f[w] \in Data[nesting[v] - 1]
    <2>1. nesting[w] \in Nat /\ nesting[w] <= nesting[v] - 1
      BY <1>1, <1>2, Nesting
    <2>2. f[w] \in Data[nesting[w]]
      BY <1>2 DEF Flat
    <2>3. QED
      BY <1>1, <2>1, <2>2, DataGrows
  <1>3. ASSUME v.is = "array"
        PROVE  [i \in DOMAIN v.items |-> f[v.items[i]]] \in Seq(Data[nesting[v] - 1])
    <2>1. v.items \in Seq(Data[nesting[v] - 1])
      BY <1>3, ValueIs, AtomsAre
    <2>2. Len(v.items) \in Nat /\ DOMAIN v.items = 1 .. Len(v.items)
      BY <2>1, LenProperties
    <2>3. \A i \in DOMAIN v.items : f[v.items[i]] \in Data[nesting[v] - 1]
      BY <1>2, <1>3, PartsNest
    <2>4. [i \in DOMAIN v.items |-> f[v.items[i]]] \in [1 .. Len(v.items) -> Data[nesting[v] - 1]]
      BY <2>2, <2>3
    <2>5. QED
      BY <2>2, <2>4, RangeTyped
  <1>4. ASSUME v.is \in {"object", "instance"}, NEW k \in Keys
        PROVE  f[v.fields[k]] \in Data[nesting[v] - 1]
    BY <1>2, <1>4, PartsNest
  <1>5. QED
    BY <1>1, <1>3, <1>4

\* What the two functions return, case by case.
LEMMA SanitizeIs ==
  ASSUME NEW v \in Values
  PROVE  /\ v.is = "array" =>
              sanitizeTelemetry[v] = Array([i \in DOMAIN v.items |-> sanitizeTelemetry[v.items[i]]])
         /\ v.is = "object" =>
              sanitizeTelemetry[v] = Object([k \in Keys |-> IF k \in FORBIDDEN_TELEMETRY_KEYS THEN Missing
                                                            ELSE sanitizeTelemetry[v.fields[k]]])
         /\ v.is \notin {"array", "object"} => sanitizeTelemetry[v] = v
  <1>1. sanitizeTelemetry[v] = walk(sanitizeTelemetry, v)
    BY SanitizeDef
  <1>2. CASE v.is = "array"
    BY <1>1, <1>2 DEF walk
  <1>3. CASE v.is = "object"
    BY <1>1, <1>3 DEF walk
  <1>4. CASE v.is \notin {"array", "object"}
    BY <1>1, <1>4 DEF walk
  <1>5. QED
    BY <1>2, <1>3, <1>4

LEMMA RedactIs ==
  ASSUME NEW v \in Values
  PROVE  /\ v.is = "array" =>
              redactFields[v] = Array([i \in DOMAIN v.items |-> redactFields[v.items[i]]])
         /\ v.is \in {"object", "instance"} =>
              redactFields[v] = Object([k \in Keys |-> IF k \in isForbiddenKey /\ v.fields[k] # Missing
                                                       THEN Redacted ELSE redactFields[v.fields[k]]])
         /\ v.is \notin {"array", "object", "instance"} => redactFields[v] = v
  <1>1. redactFields[v] = redactValue(redactFields, v)
    BY RedactDef
  <1>2. CASE v.is = "array"
    BY <1>1, <1>2 DEF redactValue
  <1>3. CASE v.is \in {"object", "instance"}
    BY <1>1, <1>3 DEF redactValue
  <1>4. CASE v.is \notin {"array", "object", "instance"}
    BY <1>1, <1>4 DEF redactValue
  <1>5. QED
    BY <1>2, <1>3, <1>4

\* A value that is neither array nor object nor instance is an atom; the others nest.
LEMMA Nests ==
  ASSUME NEW v \in Values, v.is \in {"array", "object", "instance"}
  PROVE  nesting[v] # 0
  BY ValueIs, AtomsAre

LEMMA SanitizeFlat == \A v \in Values : sanitizeTelemetry[v] \in Data[nesting[v]]
  <1>1. ASSUME NEW v \in Values,
               \A w \in Values : nesting[w] < nesting[v] => w \in Flat(sanitizeTelemetry)
        PROVE  v \in Flat(sanitizeTelemetry)
    <2>1. CASE v.is = "array"
      <3>1. Array([i \in DOMAIN v.items |-> sanitizeTelemetry[v.items[i]]]) \in Data[nesting[v]]
        BY <1>1, <2>1, Nests, PartsFlat, Made
      <3>2. QED
        BY <2>1, <3>1, SanitizeIs DEF Flat
    <2>2. CASE v.is = "object"
      <3> DEFINE F == [k \in Keys |-> IF k \in FORBIDDEN_TELEMETRY_KEYS THEN Missing
                                      ELSE sanitizeTelemetry[v.fields[k]]]
      <3>1. nesting[v] - 1 \in Nat /\ (nesting[v] - 1) + 1 = nesting[v]
            /\ \A k \in Keys : sanitizeTelemetry[v.fields[k]] \in Data[nesting[v] - 1]
        BY <1>1, <2>2, Nests, PartsFlat
      <3>2. F \in [Keys -> Data[nesting[v] - 1]]
        BY <3>1, AtomsEverywhere
      <3>3. sanitizeTelemetry[v] = Object(F)
        BY <2>2, SanitizeIs
      <3> HIDE DEF F
      <3>4. QED
        BY <3>1, <3>2, <3>3, Made DEF Flat
    <2>3. CASE v.is \notin {"array", "object"}
      <3>1. v \in Data[nesting[v]]
        BY Nesting DEF NestsTo
      <3>2. QED
        BY <2>3, <3>1, SanitizeIs DEF Flat
    <2>4. QED
      BY <2>1, <2>2, <2>3
  <1>2. Values \subseteq Flat(sanitizeTelemetry)
    BY <1>1, ValueInduction
  <1>3. QED
    BY <1>2 DEF Flat

LEMMA RedactFlat == \A v \in Values : redactFields[v] \in Data[nesting[v]]
  <1>1. ASSUME NEW v \in Values,
               \A w \in Values : nesting[w] < nesting[v] => w \in Flat(redactFields)
        PROVE  v \in Flat(redactFields)
    <2>1. CASE v.is = "array"
      <3>1. Array([i \in DOMAIN v.items |-> redactFields[v.items[i]]]) \in Data[nesting[v]]
        BY <1>1, <2>1, Nests, PartsFlat, Made
      <3>2. QED
        BY <2>1, <3>1, RedactIs DEF Flat
    <2>2. CASE v.is \in {"object", "instance"}
      <3> DEFINE F == [k \in Keys |-> IF k \in isForbiddenKey /\ v.fields[k] # Missing THEN Redacted
                                      ELSE redactFields[v.fields[k]]]
      <3>1. nesting[v] - 1 \in Nat /\ (nesting[v] - 1) + 1 = nesting[v]
            /\ \A k \in Keys : redactFields[v.fields[k]] \in Data[nesting[v] - 1]
        BY <1>1, <2>2, Nests, PartsFlat
      <3>2. F \in [Keys -> Data[nesting[v] - 1]]
        BY <3>1, AtomsEverywhere
      <3>3. redactFields[v] = Object(F)
        BY <2>2, RedactIs
      <3> HIDE DEF F
      <3>4. QED
        BY <3>1, <3>2, <3>3, Made DEF Flat
    <2>3. CASE v.is \notin {"array", "object", "instance"}
      <3>1. v \in Data[nesting[v]]
        BY Nesting DEF NestsTo
      <3>2. QED
        BY <2>3, <3>1, RedactIs DEF Flat
    <2>4. QED
      BY <2>1, <2>2, <2>3
  <1>2. Values \subseteq Flat(redactFields)
    BY <1>1, ValueInduction
  <1>3. QED
    BY <1>2 DEF Flat

\* What nests no deeper than a value is a value.
LEMMA FlatValues ==
  ASSUME NEW v \in Values, NEW w \in Data[nesting[v]]
  PROVE  w \in Values
  BY Nesting, DataGrows, RedactionAssumption DEF Values

-----------------------------------------------------------------------------
(* Paths, one step at a time.                                                *)

PathSteps == [of : {"array", "object", "instance"}, at : Nat, key : Keys \cup {"item"}]

StepThen(step, path) == <<step>> \o path

LEMMA StepThenIs ==
  ASSUME NEW step \in PathSteps, NEW path \in Seq(PathSteps)
  PROVE  /\ StepThen(step, path) \in Seq(PathSteps)
         /\ Len(path) \in Nat /\ DOMAIN path = 1 .. Len(path)
         /\ DOMAIN StepThen(step, path) = 1 .. Len(path) + 1
         /\ StepThen(step, path)[1] = step
         /\ 1 \in DOMAIN StepThen(step, path)
         /\ \A i \in 1 .. Len(path) :
              i \in DOMAIN path /\ i + 1 \in DOMAIN StepThen(step, path) /\ StepThen(step, path)[i + 1] = path[i]
  <1> DEFINE one == <<step>>
  <1>1. one \in Seq(PathSteps) /\ Len(one) = 1 /\ one[1] = step
    OBVIOUS
  <1>2. StepThen(step, path) = one \o path
    BY DEF StepThen
  <1> HIDE DEF one
  <1>3. Len(path) \in Nat /\ DOMAIN path = 1 .. Len(path)
    BY LenProperties
  <1>4. /\ one \o path \in Seq(PathSteps) /\ Len(one \o path) = 1 + Len(path)
        /\ \A i \in 1 .. 1 + Len(path) : (one \o path)[i] = IF i <= 1 THEN one[i] ELSE path[i - 1]
    <2>1. /\ one \o path \in Seq(PathSteps) /\ Len(one \o path) = Len(one) + Len(path)
          /\ \A i \in 1 .. Len(one) + Len(path) :
               (one \o path)[i] = IF i <= Len(one) THEN one[i] ELSE path[i - Len(one)]
      BY <1>1, ConcatProperties
    <2>2. QED
      BY <1>1, <2>1
  <1>5. DOMAIN StepThen(step, path) = 1 .. Len(path) + 1
    BY <1>2, <1>3, <1>4, LenProperties
  <1>6. ASSUME NEW i \in 1 .. Len(path)
        PROVE  i \in DOMAIN path /\ i + 1 \in DOMAIN StepThen(step, path) /\ StepThen(step, path)[i + 1] = path[i]
    <2>1. i + 1 \in 1 .. 1 + Len(path) /\ ~(i + 1 <= 1) /\ (i + 1) - 1 = i
      BY <1>3
    <2>2. QED
      BY <1>2, <1>3, <1>4, <1>5, <2>1
  <1>7. StepThen(step, path)[1] = step
    <2>1. 1 \in 1 .. 1 + Len(path)
      BY <1>3
    <2>2. QED
      BY <1>1, <1>2, <1>4, <2>1
  <1>8. 1 \in DOMAIN StepThen(step, path)
    BY <1>3, <1>5
  <1>9. QED
    BY <1>2, <1>3, <1>4, <1>5, <1>6, <1>7, <1>8

\* Every index of a longer path is the first, or the next of one of the shorter.
LEMMA StepThenIndex ==
  ASSUME NEW step \in PathSteps, NEW path \in Seq(PathSteps), NEW i \in DOMAIN StepThen(step, path)
  PROVE  i = 1 \/ \E j \in 1 .. Len(path) : i = j + 1
  <1>1. i \in 1 .. Len(path) + 1 /\ Len(path) \in Nat
    BY StepThenIs
  <1>2. i = 1 \/ (i - 1 \in 1 .. Len(path) /\ i = (i - 1) + 1)
    BY <1>1
  <1>3. QED
    BY <1>2

LEMMA PassesThen ==
  ASSUME NEW step \in PathSteps, NEW path \in Seq(PathSteps), NEW keys
  PROVE  Passes(StepThen(step, path), keys) <=> step.key \in keys \/ Passes(path, keys)
  <1>1. ASSUME Passes(StepThen(step, path), keys)
        PROVE  step.key \in keys \/ Passes(path, keys)
    <2>1. PICK i \in DOMAIN StepThen(step, path) : StepThen(step, path)[i].key \in keys
      BY <1>1 DEF Passes
    <2>2. CASE i = 1
      BY <2>1, <2>2, StepThenIs
    <2>3. CASE \E j \in 1 .. Len(path) : i = j + 1
      <3>1. PICK j \in 1 .. Len(path) : i = j + 1
        BY <2>3
      <3>2. j \in DOMAIN path /\ StepThen(step, path)[j + 1] = path[j]
        BY StepThenIs
      <3>3. QED
        BY <2>1, <3>1, <3>2 DEF Passes
    <2>4. QED
      BY <2>2, <2>3, StepThenIndex
  <1>2. ASSUME step.key \in keys
        PROVE  Passes(StepThen(step, path), keys)
    <2>1. 1 \in DOMAIN StepThen(step, path) /\ StepThen(step, path)[1] = step
      BY StepThenIs
    <2>2. QED
      BY <1>2, <2>1 DEF Passes
  <1>3. ASSUME Passes(path, keys)
        PROVE  Passes(StepThen(step, path), keys)
    <2>1. PICK j \in DOMAIN path : path[j].key \in keys
      BY <1>3 DEF Passes
    <2>2. j \in 1 .. Len(path)
      BY LenProperties
    <2>3. j + 1 \in DOMAIN StepThen(step, path) /\ StepThen(step, path)[j + 1] = path[j]
      BY <2>2, StepThenIs
    <2>4. QED
      BY <2>1, <2>3 DEF Passes
  <1>4. QED
    BY <1>1, <1>2, <1>3

\* No step up to i enters an instance.
Before(path, i) == \A j \in 1 .. i : path[j].of # "instance"

LEMMA BeforeThen ==
  ASSUME NEW step \in PathSteps, NEW path \in Seq(PathSteps), NEW i \in 1 .. Len(path)
  PROVE  Before(StepThen(step, path), i + 1) <=> step.of # "instance" /\ Before(path, i)
  <1>1. Len(path) \in Nat /\ i \in Nat /\ 1 <= i /\ i <= Len(path)
    BY StepThenIs
  <1>2. ASSUME Before(StepThen(step, path), i + 1)
        PROVE  step.of # "instance" /\ Before(path, i)
    <2>1. 1 \in 1 .. i + 1
      BY <1>1
    <2>2. step.of # "instance"
      BY <1>2, <2>1, StepThenIs DEF Before
    <2>3. ASSUME NEW j \in 1 .. i PROVE path[j].of # "instance"
      <3>1. j + 1 \in 1 .. i + 1 /\ j \in 1 .. Len(path)
        BY <1>1
      <3>2. StepThen(step, path)[j + 1] = path[j]
        BY <3>1, StepThenIs
      <3>3. QED
        BY <1>2, <3>1, <3>2 DEF Before
    <2>4. QED
      BY <2>2, <2>3 DEF Before
  <1>3. ASSUME step.of # "instance", Before(path, i), NEW j \in 1 .. i + 1
        PROVE  StepThen(step, path)[j].of # "instance"
    <2>1. CASE j = 1
      BY <1>3, <2>1, StepThenIs
    <2>2. CASE j # 1
      <3>1. j - 1 \in 1 .. i /\ j - 1 \in 1 .. Len(path) /\ j = (j - 1) + 1
        BY <1>1, <2>2
      <3>2. path[j - 1].of # "instance"
        BY <1>3, <3>1 DEF Before
      <3>3. StepThen(step, path)[j] = path[j - 1]
        BY <3>1, StepThenIs
      <3>4. QED
        BY <3>2, <3>3
    <2>3. QED
      BY <2>1, <2>2
  <1>4. QED
    BY <1>2, <1>3 DEF Before

LEMMA PassesOutsideThen ==
  ASSUME NEW step \in PathSteps, NEW path \in Seq(PathSteps), NEW keys
  PROVE  PassesOutside(StepThen(step, path), keys) <=>
           step.of # "instance" /\ (step.key \in keys \/ PassesOutside(path, keys))
  <1> DEFINE whole == StepThen(step, path)
  <1>1. ASSUME PassesOutside(whole, keys)
        PROVE  step.of # "instance" /\ (step.key \in keys \/ PassesOutside(path, keys))
    <2>1. PICK i \in DOMAIN whole : whole[i].key \in keys /\ Before(whole, i)
      BY <1>1 DEF PassesOutside, Before
    <2>2. CASE i = 1
      <3>1. whole[1].of # "instance"
        BY <2>1, <2>2 DEF Before
      <3>2. QED
        BY <2>1, <2>2, <3>1, StepThenIs
    <2>3. CASE \E j \in 1 .. Len(path) : i = j + 1
      <3>1. PICK j \in 1 .. Len(path) : i = j + 1
        BY <2>3
      <3>2. step.of # "instance" /\ Before(path, j)
        BY <2>1, <3>1, BeforeThen
      <3>3. j \in DOMAIN path /\ whole[j + 1] = path[j]
        BY StepThenIs
      <3> HIDE DEF whole
      <3>4. PassesOutside(path, keys)
        BY <2>1, <3>1, <3>2, <3>3 DEF PassesOutside, Before
      <3>5. QED
        BY <3>2, <3>4
    <2>4. QED
      BY <2>2, <2>3, StepThenIndex
  <1>2. ASSUME step.of # "instance", step.key \in keys
        PROVE  PassesOutside(whole, keys)
    <2>1. whole[1] = step /\ 1 \in DOMAIN whole
      BY StepThenIs
    <2>2. \A j \in 1 .. 1 : whole[j].of # "instance"
      BY <1>2, <2>1
    <2>3. QED
      BY <1>2, <2>1, <2>2 DEF PassesOutside
  <1>3. ASSUME step.of # "instance", PassesOutside(path, keys)
        PROVE  PassesOutside(whole, keys)
    <2>1. PICK j \in DOMAIN path : path[j].key \in keys /\ Before(path, j)
      BY <1>3 DEF PassesOutside, Before
    <2>2. j \in 1 .. Len(path)
      BY LenProperties
    <2>3. Before(whole, j + 1)
      BY <1>3, <2>1, <2>2, BeforeThen
    <2>4. j + 1 \in DOMAIN whole /\ whole[j + 1] = path[j]
      BY <2>2, StepThenIs
    <2> HIDE DEF whole
    <2>5. QED
      BY <2>1, <2>3, <2>4 DEF PassesOutside, Before
  <1>4. QED
    BY <1>1, <1>2, <1>3

\* The step of the rebuilt path.
RebuiltStep(step) == Step(IF step.of = "instance" THEN "object" ELSE step.of, step.at, step.key)

LEMMA RebuiltThen ==
  ASSUME NEW step \in PathSteps, NEW path \in Seq(PathSteps)
  PROVE  Rebuilt(StepThen(step, path)) = StepThen(RebuiltStep(step), Rebuilt(path))
  <1>1. RebuiltStep(step) \in PathSteps
    BY DEF RebuiltStep, Step, PathSteps
  <1>2. \A p : Rebuilt(p) = [i \in DOMAIN p |-> RebuiltStep(p[i])]
    BY DEF Rebuilt, RebuiltStep
  <1>3. Len(path) \in Nat /\ DOMAIN path = 1 .. Len(path) /\ \A i \in DOMAIN path : path[i] \in PathSteps
    BY LenProperties, ElementOfSeq
  <1>4. \A s \in PathSteps : RebuiltStep(s) \in PathSteps
    BY DEF RebuiltStep, Step, PathSteps
  <1>5. Rebuilt(path) \in [1 .. Len(path) -> PathSteps]
    BY <1>2, <1>3, <1>4
  <1>6. Rebuilt(path) \in Seq(PathSteps) /\ Len(Rebuilt(path)) = Len(path)
    BY <1>3, <1>5, RangeTyped
  <1> DEFINE left == Rebuilt(StepThen(step, path))
             right == StepThen(RebuiltStep(step), Rebuilt(path))
  <1>7. DOMAIN left = 1 .. Len(path) + 1
    BY <1>2, StepThenIs
  <1>8. /\ DOMAIN right = 1 .. Len(path) + 1 /\ right[1] = RebuiltStep(step)
        /\ \A i \in 1 .. Len(path) : right[i + 1] = Rebuilt(path)[i]
    BY <1>1, <1>6, StepThenIs
  <1>9. ASSUME NEW i \in 1 .. Len(path) + 1 PROVE left[i] = right[i]
    <2>1. i \in DOMAIN StepThen(step, path)
      BY StepThenIs
    <2>2. left[i] = RebuiltStep(StepThen(step, path)[i])
      BY <1>2, <2>1
    <2>3. CASE i = 1
      BY <1>8, <2>2, <2>3, StepThenIs
    <2>4. CASE \E j \in 1 .. Len(path) : i = j + 1
      <3>1. PICK j \in 1 .. Len(path) : i = j + 1
        BY <2>4
      <3>2. left[i] = RebuiltStep(path[j])
        BY <2>2, <3>1, StepThenIs
      <3>3. right[i] = RebuiltStep(path[j])
        BY <1>2, <1>3, <1>8, <3>1
      <3>4. QED
        BY <3>2, <3>3
    <2>5. QED
      BY <2>1, <2>3, <2>4, StepThenIndex
  <1>10. left = [i \in DOMAIN left |-> left[i]] /\ right = [i \in DOMAIN right |-> right[i]]
    <2>1. left \in Seq(PathSteps)
      <3>1. \A i \in DOMAIN StepThen(step, path) : StepThen(step, path)[i] \in PathSteps
        BY StepThenIs, ElementOfSeq, LenProperties
      <3>2. left \in [1 .. Len(path) + 1 -> PathSteps]
        BY <1>2, <1>4, <3>1, StepThenIs
      <3>3. QED
        BY <1>3, <3>2, RangeTyped
    <2>2. right \in Seq(PathSteps)
      BY <1>1, <1>6, StepThenIs
    <2>3. QED
      BY <2>1, <2>2, LenProperties
  <1> HIDE DEF left, right
  <1>11. left = right
    BY <1>7, <1>8, <1>9, <1>10
  <1>12. QED
    BY <1>11 DEF left, right

-----------------------------------------------------------------------------
(* The paths of a value, by the first step.                                  *)

ThroughItem(v, p) ==
  \E i \in DOMAIN v.items : \E q \in Paths[v.items[i]] : p = StepThen(Step("array", i, "item"), q)

ThroughField(v, p) ==
  \E k \in Keys : \E q \in Paths[v.fields[k]] : p = StepThen(Step(v.is, 0, k), q)

LEMMA PathsAre ==
  ASSUME NEW v \in Values
  PROVE  /\ v.is = "leaf" => Paths[v] = {<<>>}
         /\ v.is \in {"redacted", "missing"} => Paths[v] = {}
         /\ v.is = "array" => \A p : p \in Paths[v] <=> ThroughItem(v, p)
         /\ v.is \in {"object", "instance"} => \A p : p \in Paths[v] <=> ThroughField(v, p)
  <1>1. Paths[v] = PathsOf(Paths, v)
    BY PathsDef
  <1>2. \A step, paths : Under(step, paths) = {StepThen(step, q) : q \in paths}
    BY DEF Under, StepThen
  <1>3. CASE v.is = "array"
    <2> DEFINE A(i) == Under(Step("array", i, "item"), Paths[v.items[i]])
    <2>1. Paths[v] = UNION {A(i) : i \in DOMAIN v.items}
      BY <1>1, <1>3 DEF PathsOf
    <2>2. \A i, p : p \in A(i) <=> \E q \in Paths[v.items[i]] : p = StepThen(Step("array", i, "item"), q)
      BY <1>2
    <2> HIDE DEF A
    <2>3. \A p : p \in Paths[v] <=> \E i \in DOMAIN v.items : p \in A(i)
      BY <2>1
    <2>4. QED
      BY <1>3, <2>2, <2>3 DEF ThroughItem
  <1>4. CASE v.is \in {"object", "instance"}
    <2> DEFINE A(k) == Under(Step(v.is, 0, k), Paths[v.fields[k]])
    <2>1. Paths[v] = UNION {A(k) : k \in Keys}
      BY <1>1, <1>4 DEF PathsOf
    <2>2. \A k, p : p \in A(k) <=> \E q \in Paths[v.fields[k]] : p = StepThen(Step(v.is, 0, k), q)
      BY <1>2
    <2> HIDE DEF A
    <2>3. \A p : p \in Paths[v] <=> \E k \in Keys : p \in A(k)
      BY <2>1
    <2>4. QED
      BY <1>4, <2>2, <2>3 DEF ThroughField
  <1>5. CASE v.is \in {"leaf", "redacted", "missing"}
    BY <1>1, <1>5 DEF PathsOf
  <1>6. QED
    BY <1>3, <1>4, <1>5, Kinds

LEMMA PathStepsTyped ==
  /\ \A i \in Nat : Step("array", i, "item") \in PathSteps
  /\ \A k \in Keys : \A of \in {"object", "instance"} : Step(of, 0, k) \in PathSteps
  BY DEF Step, PathSteps

LEMMA ItemsCounted ==
  ASSUME NEW v \in Values, v.is = "array", NEW i \in DOMAIN v.items
  PROVE  i \in Nat /\ Step("array", i, "item") \in PathSteps
  <1>1. v.items \in Seq(Data[nesting[v] - 1])
    BY ValueIs, AtomsAre
  <1>2. i \in Nat
    BY <1>1, LenProperties
  <1>3. QED
    BY <1>2, PathStepsTyped

LEMMA PathsTyped == \A v \in Values : Paths[v] \subseteq Seq(PathSteps)
  <1> DEFINE T == {v \in Values : Paths[v] \subseteq Seq(PathSteps)}
  <1>1. ASSUME NEW v \in Values, \A w \in Values : nesting[w] < nesting[v] => w \in T, NEW p \in Paths[v]
        PROVE  p \in Seq(PathSteps)
    <2>1. CASE v.is = "array"
      <3>1. PICK i \in DOMAIN v.items : \E q \in Paths[v.items[i]] : p = StepThen(Step("array", i, "item"), q)
        BY <1>1, <2>1, PathsAre DEF ThroughItem
      <3>2. PICK q \in Paths[v.items[i]] : p = StepThen(Step("array", i, "item"), q)
        BY <3>1
      <3>3. q \in Seq(PathSteps) /\ Step("array", i, "item") \in PathSteps
        BY <1>1, <2>1, ItemsCounted, PartsNest
      <3>4. QED
        BY <3>2, <3>3, StepThenIs
    <2>2. CASE v.is \in {"object", "instance"}
      <3>1. PICK k \in Keys : \E q \in Paths[v.fields[k]] : p = StepThen(Step(v.is, 0, k), q)
        BY <1>1, <2>2, PathsAre DEF ThroughField
      <3>2. PICK q \in Paths[v.fields[k]] : p = StepThen(Step(v.is, 0, k), q)
        BY <3>1
      <3>3. q \in Seq(PathSteps) /\ Step(v.is, 0, k) \in PathSteps
        BY <1>1, <2>2, PathStepsTyped, PartsNest
      <3>4. QED
        BY <3>2, <3>3, StepThenIs
    <2>3. CASE v.is \in {"leaf", "redacted", "missing"}
      <3>1. p = <<>>
        BY <1>1, <2>3, PathsAre
      <3>2. QED
        BY <3>1
    <2>4. QED
      BY <2>1, <2>2, <2>3, Kinds
  <1>2. \A v \in Values : (\A w \in Values : nesting[w] < nesting[v] => w \in T) => v \in T
    BY <1>1
  <1> HIDE DEF T
  <1>3. Values \subseteq T
    BY <1>2, ValueInduction
  <1>4. QED
    BY <1>3 DEF T

-----------------------------------------------------------------------------
(* What leaves by each of the two functions, path by path.                   *)

CleanPaths(paths) == {p \in paths : ~PassesOutside(p, FORBIDDEN_TELEMETRY_KEYS)}

MaskedPaths(paths) == {Rebuilt(p) : p \in {q \in paths : ~Passes(q, isForbiddenKey)}}

LEMMA EmptyPath ==
  /\ \A keys : ~Passes(<<>>, keys) /\ ~PassesOutside(<<>>, keys)
  /\ Rebuilt(<<>>) = <<>>
  BY DEF Passes, PassesOutside, Rebuilt

LEMMA MadeOf ==
  /\ \A s : Array(s).is = "array" /\ Array(s).items = s
  /\ \A f : Object(f).is = "object" /\ Object(f).fields = f
  /\ \A f : Instance(f).is = "instance" /\ Instance(f).fields = f
  BY DEF Array, Object, Instance

LEMMA SanitizePaths == \A v \in Values : Paths[sanitizeTelemetry[v]] = CleanPaths(Paths[v])
  <1> DEFINE T == {v \in Values : Paths[sanitizeTelemetry[v]] = CleanPaths(Paths[v])}
  <1>1. ASSUME NEW v \in Values, \A w \in Values : nesting[w] < nesting[v] => w \in T
        PROVE  Paths[sanitizeTelemetry[v]] = CleanPaths(Paths[v])
    <2> DEFINE u == sanitizeTelemetry[v]
    <2>0. u \in Values
      BY SanitizeFlat, FlatValues
    <2>1. CASE v.is = "array"
      <3> DEFINE W(i) == v.items[i]
                 S(i) == Step("array", i, "item")
      <3>1. u.is = "array" /\ u.items = [i \in DOMAIN v.items |-> sanitizeTelemetry[W(i)]]
        <4>1. u = Array([i \in DOMAIN v.items |-> sanitizeTelemetry[v.items[i]]])
          BY <2>1, SanitizeIs
        <4>2. QED
          BY <4>1, MadeOf
      <3>2. \A i \in DOMAIN v.items : Paths[u.items[i]] = CleanPaths(Paths[W(i)])
        BY <1>1, <2>1, <3>1, PartsNest
      <3>3. \A i \in DOMAIN v.items : S(i) \in PathSteps /\ S(i).of = "array" /\ S(i).key \notin FORBIDDEN_TELEMETRY_KEYS
        BY <2>1, ItemsCounted DEF Step, FORBIDDEN_TELEMETRY_KEYS
      <3>4. \A i \in DOMAIN v.items : \A q \in Paths[W(i)] : q \in Seq(PathSteps)
        BY <2>1, PartsNest, PathsTyped
      <3>5. /\ \A p : p \in Paths[v] <=> ThroughItem(v, p)
            /\ \A p : p \in Paths[u] <=> ThroughItem(u, p)
        BY <2>0, <2>1, <3>1, PathsAre
      <3>6. /\ \A p : ThroughItem(v, p) <=> \E i \in DOMAIN v.items : \E q \in Paths[W(i)] : p = StepThen(S(i), q)
            /\ \A p : ThroughItem(u, p) <=> \E i \in DOMAIN u.items : \E q \in Paths[u.items[i]] : p = StepThen(S(i), q)
        BY DEF ThroughItem
      <3>7. DOMAIN u.items = DOMAIN v.items
        BY <3>1
      <3> HIDE DEF W, S, u
      <3>8. \A i \in DOMAIN v.items : \A q \in Paths[W(i)] :
              PassesOutside(StepThen(S(i), q), FORBIDDEN_TELEMETRY_KEYS) <=> PassesOutside(q, FORBIDDEN_TELEMETRY_KEYS)
        BY <3>3, <3>4, PassesOutsideThen
      <3>9. \A p : p \in Paths[u] <=> p \in CleanPaths(Paths[v])
        BY <3>2, <3>5, <3>6, <3>7, <3>8 DEF CleanPaths
      <3>10. QED
        BY <3>9 DEF u, CleanPaths
    <2>2. CASE v.is = "object"
      <3> DEFINE W(k) == v.fields[k]
                 S(k) == Step(v.is, 0, k)
      <3>1. u.is = "object"
            /\ u.fields = [k \in Keys |-> IF k \in FORBIDDEN_TELEMETRY_KEYS THEN Missing ELSE sanitizeTelemetry[W(k)]]
        <4>1. u = Object([k \in Keys |-> IF k \in FORBIDDEN_TELEMETRY_KEYS THEN Missing
                                         ELSE sanitizeTelemetry[v.fields[k]]])
          BY <2>2, SanitizeIs
        <4>2. QED
          BY <4>1, MadeOf
      <3>2. \A k \in Keys \ FORBIDDEN_TELEMETRY_KEYS : Paths[u.fields[k]] = CleanPaths(Paths[W(k)])
        BY <1>1, <2>2, <3>1, PartsNest
      <3>3. \A k \in FORBIDDEN_TELEMETRY_KEYS \cap Keys : Paths[u.fields[k]] = {}
        <4>1. Missing \in Values /\ Missing.is = "missing"
          BY AtomsEverywhere, RedactionAssumption DEF Values, Missing
        <4>2. Paths[Missing] = {}
          BY <4>1, PathsAre
        <4>3. QED
          BY <3>1, <4>2
      <3>4. \A k \in Keys : S(k) \in PathSteps /\ S(k).of = "object" /\ S(k).key = k
        BY <2>2, PathStepsTyped DEF Step
      <3>5. \A k \in Keys : \A q \in Paths[W(k)] : q \in Seq(PathSteps)
        BY <2>2, PartsNest, PathsTyped
      <3>6. /\ \A p : p \in Paths[v] <=> ThroughField(v, p)
            /\ \A p : p \in Paths[u] <=> ThroughField(u, p)
        BY <2>0, <2>2, <3>1, PathsAre
      <3>7. /\ \A p : ThroughField(v, p) <=> \E k \in Keys : \E q \in Paths[W(k)] : p = StepThen(S(k), q)
            /\ \A p : ThroughField(u, p) <=> \E k \in Keys : \E q \in Paths[u.fields[k]] : p = StepThen(S(k), q)
        BY <2>2, <3>1 DEF ThroughField
      <3> HIDE DEF W, S, u
      <3>8. \A k \in Keys : \A q \in Paths[W(k)] :
              PassesOutside(StepThen(S(k), q), FORBIDDEN_TELEMETRY_KEYS)
                <=> k \in FORBIDDEN_TELEMETRY_KEYS \/ PassesOutside(q, FORBIDDEN_TELEMETRY_KEYS)
        BY <3>4, <3>5, PassesOutsideThen
      <3>9. \A p : p \in Paths[u] <=> p \in CleanPaths(Paths[v])
        BY <3>2, <3>3, <3>6, <3>7, <3>8 DEF CleanPaths
      <3>10. QED
        BY <3>9 DEF u, CleanPaths
    <2>3. CASE v.is = "instance"
      <3> DEFINE W(k) == v.fields[k]
                 S(k) == Step(v.is, 0, k)
      <3>1. u = v
        BY <2>3, SanitizeIs
      <3>2. \A k \in Keys : S(k) \in PathSteps /\ S(k).of = "instance"
        BY <2>3, PathStepsTyped DEF Step
      <3>3. \A k \in Keys : \A q \in Paths[W(k)] : q \in Seq(PathSteps)
        BY <2>3, PartsNest, PathsTyped
      <3>4. \A p : p \in Paths[v] => \E k \in Keys : \E q \in Paths[W(k)] : p = StepThen(S(k), q)
        BY <2>3, PathsAre DEF ThroughField
      <3> HIDE DEF W, S
      <3>5. \A k \in Keys : \A q \in Paths[W(k)] : ~PassesOutside(StepThen(S(k), q), FORBIDDEN_TELEMETRY_KEYS)
        BY <3>2, <3>3, PassesOutsideThen
      <3>6. \A p : p \in Paths[v] => ~PassesOutside(p, FORBIDDEN_TELEMETRY_KEYS)
        BY <3>4, <3>5
      <3>7. QED
        BY <3>1, <3>6 DEF CleanPaths
    <2>4. CASE v.is \in {"leaf", "redacted", "missing"}
      <3>1. u = v
        BY <2>4, SanitizeIs
      <3>2. Paths[v] = {<<>>} \/ Paths[v] = {}
        BY <2>4, PathsAre
      <3>3. QED
        BY <3>1, <3>2, EmptyPath DEF CleanPaths
    <2>5. QED
      BY <2>1, <2>2, <2>3, <2>4, Kinds
  <1>2. \A v \in Values : (\A w \in Values : nesting[w] < nesting[v] => w \in T) => v \in T
    BY <1>1
  <1> HIDE DEF T
  <1>3. Values \subseteq T
    BY <1>2, ValueInduction
  <1>4. QED
    BY <1>3 DEF T

LEMMA RedactPaths == \A v \in Values : Paths[redactFields[v]] = MaskedPaths(Paths[v])
  <1> DEFINE T == {v \in Values : Paths[redactFields[v]] = MaskedPaths(Paths[v])}
  <1>1. ASSUME NEW v \in Values, \A w \in Values : nesting[w] < nesting[v] => w \in T
        PROVE  Paths[redactFields[v]] = MaskedPaths(Paths[v])
    <2> DEFINE u == redactFields[v]
    <2>0. u \in Values
      BY RedactFlat, FlatValues
    <2>1. CASE v.is = "array"
      <3> DEFINE W(i) == v.items[i]
                 S(i) == Step("array", i, "item")
      <3>1. u.is = "array" /\ u.items = [i \in DOMAIN v.items |-> redactFields[W(i)]]
        <4>1. u = Array([i \in DOMAIN v.items |-> redactFields[v.items[i]]])
          BY <2>1, RedactIs
        <4>2. QED
          BY <4>1, MadeOf
      <3>2. \A i \in DOMAIN v.items : Paths[u.items[i]] = MaskedPaths(Paths[W(i)])
        BY <1>1, <2>1, <3>1, PartsNest
      <3>3. \A i \in DOMAIN v.items : S(i) \in PathSteps /\ RebuiltStep(S(i)) = S(i) /\ S(i).key \notin isForbiddenKey
        BY <2>1, ItemsCounted DEF Step, RebuiltStep, isForbiddenKey
      <3>4. \A i \in DOMAIN v.items : \A q \in Paths[W(i)] : q \in Seq(PathSteps)
        BY <2>1, PartsNest, PathsTyped
      <3>5. /\ \A p : p \in Paths[v] <=> ThroughItem(v, p)
            /\ \A p : p \in Paths[u] <=> ThroughItem(u, p)
        BY <2>0, <2>1, <3>1, PathsAre
      <3>6. /\ \A p : ThroughItem(v, p) <=> \E i \in DOMAIN v.items : \E q \in Paths[W(i)] : p = StepThen(S(i), q)
            /\ \A p : ThroughItem(u, p) <=> \E i \in DOMAIN u.items : \E q \in Paths[u.items[i]] : p = StepThen(S(i), q)
        BY DEF ThroughItem
      <3>7. DOMAIN u.items = DOMAIN v.items
        BY <3>1
      <3> HIDE DEF W, S, u
      <3>8. \A i \in DOMAIN v.items : \A q \in Paths[W(i)] :
              /\ Passes(StepThen(S(i), q), isForbiddenKey) <=> Passes(q, isForbiddenKey)
              /\ Rebuilt(StepThen(S(i), q)) = StepThen(S(i), Rebuilt(q))
        BY <3>3, <3>4, PassesThen, RebuiltThen
      <3>9. \A p : p \in Paths[u] <=> p \in MaskedPaths(Paths[v])
        <4>1. \A p : p \in Paths[u] <=>
                \E i \in DOMAIN v.items : \E q \in Paths[W(i)] :
                  ~Passes(q, isForbiddenKey) /\ p = StepThen(S(i), Rebuilt(q))
          BY <3>2, <3>5, <3>6, <3>7 DEF MaskedPaths
        <4>2. \A p : p \in MaskedPaths(Paths[v]) <=>
                \E i \in DOMAIN v.items : \E q \in Paths[W(i)] :
                  ~Passes(q, isForbiddenKey) /\ p = StepThen(S(i), Rebuilt(q))
          BY <3>5, <3>6, <3>8 DEF MaskedPaths
        <4>3. QED
          BY <4>1, <4>2
      <3>10. QED
        BY <3>9 DEF u, MaskedPaths
    <2>2. CASE v.is \in {"object", "instance"}
      <3> DEFINE W(k) == v.fields[k]
                 S(k) == Step(v.is, 0, k)
                 R(k) == Step("object", 0, k)
      <3>1. u.is = "object"
            /\ u.fields = [k \in Keys |-> IF k \in isForbiddenKey /\ W(k) # Missing THEN Redacted
                                          ELSE redactFields[W(k)]]
        <4>1. u = Object([k \in Keys |-> IF k \in isForbiddenKey /\ v.fields[k] # Missing THEN Redacted
                                         ELSE redactFields[v.fields[k]]])
          BY <2>2, RedactIs
        <4>2. QED
          BY <4>1, MadeOf
      <3>2. \A k \in Keys \ isForbiddenKey : Paths[u.fields[k]] = MaskedPaths(Paths[W(k)])
        BY <1>1, <2>2, <3>1, PartsNest
      <3>3. \A k \in isForbiddenKey \cap Keys : Paths[u.fields[k]] = {}
        <4>1. /\ Missing \in Values /\ Missing.is = "missing"
              /\ Redacted \in Values /\ Redacted.is = "redacted"
          BY AtomsEverywhere, RedactionAssumption DEF Values, Missing, Redacted
        <4>2. Paths[Missing] = {} /\ Paths[Redacted] = {} /\ redactFields[Missing] = Missing
          BY <4>1, PathsAre, RedactIs
        <4>3. QED
          BY <3>1, <4>2
      <3>4. \A k \in Keys : S(k) \in PathSteps /\ S(k).key = k /\ RebuiltStep(S(k)) = R(k)
        <4>1. \A k \in Keys : S(k) \in PathSteps
          BY <2>2, PathStepsTyped
        <4>2. \A k \in Keys : S(k).key = k /\ RebuiltStep(S(k)) = R(k)
          BY <2>2 DEF Step, RebuiltStep
        <4>3. QED
          BY <4>1, <4>2
      <3>5. \A k \in Keys : \A q \in Paths[W(k)] : q \in Seq(PathSteps)
        BY <2>2, PartsNest, PathsTyped
      <3>6. /\ \A p : p \in Paths[v] <=> ThroughField(v, p)
            /\ \A p : p \in Paths[u] <=> ThroughField(u, p)
        BY <2>0, <2>2, <3>1, PathsAre
      <3>7. /\ \A p : ThroughField(v, p) <=> \E k \in Keys : \E q \in Paths[W(k)] : p = StepThen(S(k), q)
            /\ \A p : ThroughField(u, p) <=> \E k \in Keys : \E q \in Paths[u.fields[k]] : p = StepThen(R(k), q)
        BY <3>1 DEF ThroughField
      <3> HIDE DEF W, S, R, u
      <3>8. \A k \in Keys : \A q \in Paths[W(k)] :
              /\ Passes(StepThen(S(k), q), isForbiddenKey) <=> k \in isForbiddenKey \/ Passes(q, isForbiddenKey)
              /\ Rebuilt(StepThen(S(k), q)) = StepThen(R(k), Rebuilt(q))
        BY <3>4, <3>5, PassesThen, RebuiltThen
      <3>9. \A p : p \in Paths[u] <=> p \in MaskedPaths(Paths[v])
        <4>1. \A p : p \in Paths[u] <=>
                \E k \in Keys : k \notin isForbiddenKey /\ \E q \in Paths[W(k)] :
                  ~Passes(q, isForbiddenKey) /\ p = StepThen(R(k), Rebuilt(q))
          <5>1. \A k \in Keys : \A p :
                  p \in Paths[u.fields[k]] <=>
                    /\ k \notin isForbiddenKey
                    /\ \E q \in Paths[W(k)] : ~Passes(q, isForbiddenKey) /\ p = Rebuilt(q)
            <6>1. \A k \in Keys \ isForbiddenKey : \A p :
                    p \in Paths[u.fields[k]] <=>
                      \E q \in Paths[W(k)] : ~Passes(q, isForbiddenKey) /\ p = Rebuilt(q)
              BY <3>2 DEF MaskedPaths
            <6>2. QED
              BY <3>3, <6>1
          <5>2. \A p : p \in Paths[u] <=> \E k \in Keys : \E q \in Paths[u.fields[k]] : p = StepThen(R(k), q)
            BY <3>6, <3>7
          <5>3. ASSUME NEW p, p \in Paths[u]
                PROVE  \E k \in Keys : k \notin isForbiddenKey /\ \E q \in Paths[W(k)] :
                         ~Passes(q, isForbiddenKey) /\ p = StepThen(R(k), Rebuilt(q))
            <6>1. PICK k \in Keys : \E r \in Paths[u.fields[k]] : p = StepThen(R(k), r)
              BY <5>2, <5>3
            <6>2. PICK r \in Paths[u.fields[k]] : p = StepThen(R(k), r)
              BY <6>1
            <6>3. QED
              BY <5>1, <6>2
          <5>4. ASSUME NEW k \in Keys, k \notin isForbiddenKey, NEW q \in Paths[W(k)], ~Passes(q, isForbiddenKey)
                PROVE  StepThen(R(k), Rebuilt(q)) \in Paths[u]
            <6>1. Rebuilt(q) \in Paths[u.fields[k]]
              BY <5>1, <5>4
            <6>2. QED
              BY <5>2, <6>1
          <5>5. QED
            BY <5>3, <5>4
        <4>2. \A p : p \in MaskedPaths(Paths[v]) <=>
                \E k \in Keys : k \notin isForbiddenKey /\ \E q \in Paths[W(k)] :
                  ~Passes(q, isForbiddenKey) /\ p = StepThen(R(k), Rebuilt(q))
          BY <3>6, <3>7, <3>8 DEF MaskedPaths
        <4>3. QED
          BY <4>1, <4>2
      <3>10. QED
        BY <3>9 DEF u, MaskedPaths
    <2>3. CASE v.is \in {"leaf", "redacted", "missing"}
      <3>1. u = v
        BY <2>3, RedactIs
      <3>2. Paths[v] = {<<>>} \/ Paths[v] = {}
        BY <2>3, PathsAre
      <3>3. QED
        BY <3>1, <3>2, EmptyPath DEF MaskedPaths
    <2>4. QED
      BY <2>1, <2>2, <2>3, Kinds
  <1>2. \A v \in Values : (\A w \in Values : nesting[w] < nesting[v] => w \in T) => v \in T
    BY <1>1
  <1> HIDE DEF T
  <1>3. Values \subseteq T
    BY <1>2, ValueInduction
  <1>4. QED
    BY <1>3 DEF T

-----------------------------------------------------------------------------
(* The helpers that look at the outermost fields, before and after.          *)

SanitizedFields(f) == [k \in Keys |-> IF k \in FORBIDDEN_TELEMETRY_KEYS THEN Missing ELSE sanitizeTelemetry[f[k]]]

RedactedFields(f) ==
  [k \in Keys |-> IF k \in isForbiddenKey /\ f[k] # Missing THEN Redacted ELSE redactFields[f[k]]]

LEMMA OfAtoms ==
  /\ Leaf \in Values /\ Redacted \in Values /\ Missing \in Values
  /\ sanitizeTelemetry[Leaf] = Leaf /\ sanitizeTelemetry[Missing] = Missing
  /\ redactFields[Redacted] = Redacted /\ redactFields[Missing] = Missing
  /\ Redacted # Missing /\ Leaf # Missing
  <1>1. Leaf \in Values /\ Redacted \in Values /\ Missing \in Values
    BY AtomsEverywhere, RedactionAssumption DEF Values
  <1>2. Leaf.is = "leaf" /\ Redacted.is = "redacted" /\ Missing.is = "missing"
    BY DEF Leaf, Redacted, Missing
  <1>3. sanitizeTelemetry[Leaf] = Leaf /\ sanitizeTelemetry[Missing] = Missing
    BY <1>1, <1>2, SanitizeIs
  <1>4. redactFields[Redacted] = Redacted /\ redactFields[Missing] = Missing
    BY <1>1, <1>2, RedactIs
  <1>5. QED
    BY <1>1, <1>2, <1>3, <1>4

\* Neither function makes a field disappear, or one appear, by itself.
LEMMA MissingStays ==
  ASSUME NEW v \in Values
  PROVE  /\ sanitizeTelemetry[v] = Missing <=> v = Missing
         /\ redactFields[v] = Missing <=> v = Missing
  <1>1. Missing.is = "missing"
    BY DEF Missing
  <1>2. v.is = "array" => sanitizeTelemetry[v].is = "array" /\ redactFields[v].is = "array"
    <2>1. v.is = "array" =>
            /\ sanitizeTelemetry[v] = Array([i \in DOMAIN v.items |-> sanitizeTelemetry[v.items[i]]])
            /\ redactFields[v] = Array([i \in DOMAIN v.items |-> redactFields[v.items[i]]])
      BY SanitizeIs, RedactIs
    <2>2. QED
      BY <2>1, MadeOf
  <1>3. v.is = "object" => sanitizeTelemetry[v].is = "object"
    <2>1. v.is = "object" => sanitizeTelemetry[v] = Object(SanitizedFields(v.fields))
      BY SanitizeIs DEF SanitizedFields
    <2>2. QED
      BY <2>1, MadeOf
  <1>4. v.is \in {"object", "instance"} => redactFields[v].is = "object"
    <2>1. v.is \in {"object", "instance"} => redactFields[v] = Object(RedactedFields(v.fields))
      BY RedactIs DEF RedactedFields
    <2>2. QED
      BY <2>1, MadeOf
  <1>5. v.is \notin {"array", "object"} => sanitizeTelemetry[v] = v
    BY SanitizeIs
  <1>6. v.is \notin {"array", "object", "instance"} => redactFields[v] = v
    BY RedactIs
  <1>7. QED
    BY <1>1, <1>2, <1>3, <1>4, <1>5, <1>6

\* The fields of an object, and an object made of values no deeper than they are.
LEMMA ObjectAgain ==
  ASSUME NEW v \in Values, v.is = "object"
  PROVE  /\ v.fields \in [Keys -> Data[nesting[v] - 1]]
         /\ \A k \in Keys : v.fields[k] \in Values
         /\ Missing \in Data[nesting[v] - 1] /\ Redacted \in Data[nesting[v] - 1] /\ Leaf \in Data[nesting[v] - 1]
         /\ \A F \in [Keys -> Data[nesting[v] - 1]] : Object(F) \in Values
  <1>1. v.fields \in [Keys -> Data[nesting[v] - 1]] /\ nesting[v] # 0
    BY ValueIs, AtomsAre
  <1>2. nesting[v] - 1 \in Nat /\ (nesting[v] - 1) + 1 = nesting[v]
    BY <1>1, Nesting
  <1>3. \A k \in Keys : v.fields[k] \in Values
    BY PartsNest
  <1>4. \A F \in [Keys -> Data[nesting[v] - 1]] : Object(F) \in Data[nesting[v]]
    BY <1>2, Made
  <1>5. \A F \in [Keys -> Data[nesting[v] - 1]] : Object(F) \in Values
    BY <1>4, FlatValues
  <1>6. QED
    BY <1>1, <1>2, <1>3, <1>5, AtomsEverywhere

LEMMA OfObject ==
  ASSUME NEW f, Object(f) \in Values
  PROVE  /\ sanitizeTelemetry[Object(f)] = Object(SanitizedFields(f))
         /\ redactFields[Object(f)] = Object(RedactedFields(f))
  <1>1. Object(f).is = "object" /\ Object(f).fields = f
    BY MadeOf
  <1>2. sanitizeTelemetry[Object(f)] = Object(SanitizedFields(f))
    <2>1. sanitizeTelemetry[Object(f)] = Object(SanitizedFields(Object(f).fields))
      BY <1>1, SanitizeIs DEF SanitizedFields
    <2>2. QED
      BY <1>1, <2>1
  <1>3. redactFields[Object(f)] = Object(RedactedFields(f))
    <2>1. redactFields[Object(f)] = Object(RedactedFields(Object(f).fields))
      BY <1>1, RedactIs DEF RedactedFields
    <2>2. QED
      BY <1>1, <2>1
  <1>4. QED
    BY <1>2, <1>3

LEMMA PickCommutes ==
  ASSUME NEW v \in Values, v.is = "object", NEW keys
  PROVE  sanitizeTelemetry[pickFields(v, keys)] = pickFields(sanitizeTelemetry[v], keys)
  <1> DEFINE f == v.fields
             G == [k \in Keys |-> IF k \in keys THEN f[k] ELSE Missing]
  <1>1. G \in [Keys -> Data[nesting[v] - 1]]
    BY ObjectAgain
  <1>2. Object(G) \in Values
    BY <1>1, ObjectAgain
  <1>3. pickFields(v, keys) = Object(G)
    BY DEF pickFields
  <1>4. sanitizeTelemetry[v] = Object(SanitizedFields(f))
    BY SanitizeIs DEF SanitizedFields
  <1>5. pickFields(sanitizeTelemetry[v], keys)
          = Object([k \in Keys |-> IF k \in keys THEN SanitizedFields(f)[k] ELSE Missing])
    BY <1>4, MadeOf DEF pickFields
  <1> HIDE DEF f
  <1>6. SanitizedFields(G) = [k \in Keys |-> IF k \in keys THEN SanitizedFields(f)[k] ELSE Missing]
    BY OfAtoms DEF SanitizedFields
  <1> HIDE DEF G
  <1>7. sanitizeTelemetry[Object(G)] = Object(SanitizedFields(G))
    BY <1>2, OfObject
  <1>8. QED
    BY <1>3, <1>5, <1>6, <1>7

LEMMA RedactKeysCommutes ==
  ASSUME NEW v \in Values, v.is = "object", NEW keys
  PROVE  redactFields[redactKeys(v, keys)] = redactKeys(redactFields[v], keys)
  <1> DEFINE f == v.fields
             Masked(g) == [k \in Keys |-> IF k \in keys /\ g[k] # Missing THEN Redacted ELSE g[k]]
  <1>0. \A k \in Keys : f[k] \in Values
    BY ObjectAgain
  <1>1. Masked(f) \in [Keys -> Data[nesting[v] - 1]]
    BY ObjectAgain
  <1>2. Object(Masked(f)) \in Values
    BY <1>1, ObjectAgain
  <1>3. redactKeys(v, keys) = Object(Masked(f))
    BY DEF redactKeys
  <1>4. redactFields[v] = Object(RedactedFields(f))
    BY RedactIs DEF RedactedFields
  <1>5. redactKeys(redactFields[v], keys) = Object(Masked(RedactedFields(f)))
    BY <1>4, MadeOf DEF redactKeys
  <1> HIDE DEF f
  <1>6. RedactedFields(Masked(f)) = Masked(RedactedFields(f))
    <2>1. ASSUME NEW k \in Keys
          PROVE  RedactedFields(Masked(f))[k] = Masked(RedactedFields(f))[k]
      <3>1. redactFields[f[k]] = Missing <=> f[k] = Missing
        BY <1>0, MissingStays
      <3>2. QED
        BY <3>1, OfAtoms DEF RedactedFields
    <2>2. QED
      BY <2>1 DEF RedactedFields
  <1>7. redactFields[Object(Masked(f))] = Object(RedactedFields(Masked(f)))
    BY <1>2, OfObject
  <1>8. QED
    BY <1>3, <1>5, <1>6, <1>7

LEMMA TagCommutes ==
  ASSUME NEW v \in Values, v.is = "object"
  PROVE  sanitizeTelemetry[redactTelemetry(v)] = redactTelemetry(sanitizeTelemetry[v])
  <1> DEFINE f == v.fields
             Tagged(g) == [g EXCEPT !["userId"] = Missing, !["userTag"] = Leaf]
             F == SanitizedFields(f)
  <1>0. \A k \in Keys : f[k] \in Values
    BY ObjectAgain
  <1>1. {"userId", "userTag"} \subseteq Keys \ FORBIDDEN_TELEMETRY_KEYS
    BY DEF Keys, FORBIDDEN_TELEMETRY_KEYS
  <1>2. f \in [Keys -> Data[nesting[v] - 1]] /\ DOMAIN f = Keys
    BY ObjectAgain
  <1>3. sanitizeTelemetry[v] = Object(F)
    BY SanitizeIs DEF SanitizedFields
  <1>4. Object(F).fields = F
    BY MadeOf
  <1>5. F["userId"] = Missing <=> f["userId"] = Missing
    BY <1>0, <1>1, MissingStays DEF SanitizedFields
  <1>6. CASE f["userId"] = Missing
    <2>1. redactTelemetry(v) = v
      BY <1>6 DEF redactTelemetry
    <2>2. redactTelemetry(Object(F)) = Object(F)
      BY <1>4, <1>5, <1>6 DEF redactTelemetry
    <2>3. QED
      BY <1>3, <2>1, <2>2
  <1>7. CASE f["userId"] # Missing
    <2>1. redactTelemetry(v) = Object(Tagged(f))
      BY <1>7 DEF redactTelemetry
    <2>2. redactTelemetry(Object(F)) = Object(Tagged(F))
      BY <1>4, <1>5, <1>7 DEF redactTelemetry
    <2>3. Tagged(f) \in [Keys -> Data[nesting[v] - 1]]
      BY <1>2, ObjectAgain
    <2>4. Object(Tagged(f)) \in Values
      BY <2>3, ObjectAgain
    <2>5. SanitizedFields(Tagged(f)) = Tagged(F)
      <3> HIDE DEF f
      <3>1. ASSUME NEW k \in Keys
            PROVE  SanitizedFields(Tagged(f))[k] = Tagged(F)[k]
        BY <1>1, <1>2, OfAtoms DEF SanitizedFields
      <3>2. QED
        BY <3>1 DEF SanitizedFields
    <2>6. sanitizeTelemetry[Object(Tagged(f))] = Object(SanitizedFields(Tagged(f)))
      BY <2>4, OfObject
    <2>7. QED
      BY <1>3, <2>1, <2>2, <2>5, <2>6
  <1>8. QED
    BY <1>6, <1>7

LEMMA NothingForbiddenInAny ==
  ASSUME NEW v \in Values
  PROVE  NothingForbiddenIn(v)
  BY SanitizePaths, RedactPaths, TagCommutes, PickCommutes, RedactKeysCommutes
     DEF NothingForbiddenIn, CleanPaths, MaskedPaths

\* Whatever payload is built, of whatever depth: nothing under a forbidden key
\* leaves sanitizeTelemetry or redactFields, and nothing else is lost.
THEOREM NothingForbiddenCorrect == RedactionInit /\ [][Nest]_payload => []NothingForbidden
  <1> DEFINE Typed == payload \in Values
  <1>1. RedactionInit => Typed
    BY OfAtoms DEF RedactionInit
  <1>2. Typed /\ [Nest]_payload => Typed'
    BY DEF Nest
  <1>3. Typed => NothingForbidden
    BY NothingForbiddenInAny DEF NothingForbidden
  <1> HIDE DEF Typed
  <1>4. QED
    BY <1>1, <1>2, <1>3, PTL
=============================================================================

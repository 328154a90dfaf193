----------------------------- MODULE ReferenceServer --------------------------
(***************************************************************************)
(* The reference API server (examples/minimal-server) and the SDK client    *)
(* that calls it (packages/sdk/src/client.ts).                              *)
(*                                                                          *)
(* A handler runs from one await to the next without a break, and requests  *)
(* interleave at the awaits: two requests pipelined on one connection start *)
(* in the same turn and take their awaits in turns.  The client may lose an *)
(* answer, which the server does not notice; its retry is another request   *)
(* with the same call, sent at any time after the first.                    *)
(***************************************************************************)
EXTENDS Naturals, Sequences, FiniteSets, SequencesExt

CONSTANTS
  Scripts,   \* the sequences of calls, [op, as, target, body], to be sent in that order
  FirstRows  \* what earlier requests have left

VARIABLES
  rows,      \* the repositories: [kind, by, of, value, request], in the order of creation
  announced, \* events delivered by the bus: [type, row]
  inbox,     \* account -> reactions it was notified of, in order
  requests   \* request -> what the server and its caller know of it

serverVars == <<rows, announced, inbox, requests>>

Unsent(call) == [pc |-> "unsent", call |-> call]

\* "no token" is a client without an apiKey, "stranger" a token resolveToken refuses.
NoAccount == {"no token", "stranger"}

ServerInit ==
  /\ rows = FirstRows
  /\ announced = << >>
  /\ \E script \in Scripts :
       /\ requests = [r \in DOMAIN script |-> Unsent(script[r])]
       /\ inbox = [a \in {script[r].as : r \in DOMAIN script}
                         \cup {FirstRows[i].by : i \in DOMAIN FirstRows} |-> << >>]

-----------------------------------------------------------------------------
(* The operations of the client and the routes of the server: method and    *)
(* path, whose parameters are written ":id"                                 *)

Operations ==
  [getHealthz        |-> <<"GET",  "/healthz">>,
   getMyProfile      |-> <<"GET",  "/profiles/me">>,
   updateMyProfile   |-> <<"PUT",  "/profiles/me">>,
   getProfile        |-> <<"GET",  "/profiles/:id">>,
   listPosts         |-> <<"GET",  "/posts">>,
   createPost        |-> <<"POST", "/posts">>,
   getPost           |-> <<"GET",  "/posts/:id">>,
   addReaction       |-> <<"POST", "/posts/:id/reactions">>,
   listCommunities   |-> <<"GET",  "/communities">>,
   createCommunity   |-> <<"POST", "/communities">>,
   getCommunity      |-> <<"GET",  "/communities/:id">>,
   joinCommunity     |-> <<"POST", "/communities/:id/join">>,
   listEvents        |-> <<"GET",  "/events">>,
   getEvent          |-> <<"GET",  "/events/:id">>,
   rsvpEvent         |-> <<"POST", "/events/:id/rsvp">>,
   listMyNotifications |-> <<"GET", "/notifications/me">>]

\* What only other callers send: the SDK has no call for it.
OtherRequests ==
  [createEvent |-> <<"POST", "/events">>, deletePosts |-> <<"DELETE", "/posts">>]

Requests ==
  [op \in DOMAIN Operations \cup DOMAIN OtherRequests |->
     IF op \in DOMAIN Operations THEN Operations[op] ELSE OtherRequests[op]]

\* A body without the status an RSVP must have is an "invalid" one; rows of
\* earlier requests belong to none of these.
ASSUME ServerAssumption ==
  /\ \A script \in Scripts :
       /\ script \in Seq([op : DOMAIN Requests, as : STRING, target : Nat, body : STRING])
       /\ \A r \in DOMAIN script : script[r].op = "rsvpEvent" => script[r].body # "none"
  /\ FirstRows \in Seq([kind : STRING, by : STRING, of : Nat, value : STRING, request : {0}])

\* What a path leads to, by method; other methods of these paths are refused with 405.
Routes ==
  [path \in {"/profiles/me", "/profiles/:id", "/posts", "/posts/:id", "/posts/:id/reactions",
             "/communities", "/communities/:id/join", "/events", "/events/:id/rsvp",
             "/notifications/me"} |->
     CASE path = "/profiles/me"          -> [GET |-> "getMyProfile", PUT |-> "putMyProfile"]
       [] path = "/profiles/:id"         -> [GET |-> "getProfile"]
       [] path = "/posts"                -> [GET |-> "listPosts", POST |-> "createPost"]
       [] path = "/posts/:id"            -> [GET |-> "getPost"]
       [] path = "/posts/:id/reactions"  -> [POST |-> "addReaction"]
       [] path = "/communities"          -> [GET |-> "listCommunities", POST |-> "createCommunity"]
       [] path = "/communities/:id/join" -> [POST |-> "joinCommunity"]
       [] path = "/events"               -> [GET |-> "listEvents", POST |-> "createEvent"]
       [] path = "/events/:id/rsvp"      -> [POST |-> "rsvpEvent"]
       [] OTHER                          -> [GET |-> "listMyNotifications"]]

route(method, path) ==
  IF path \notin DOMAIN Routes THEN "NOT_FOUND"
  ELSE IF method \notin DOMAIN Routes[path] THEN "UNSUPPORTED"
  ELSE Routes[path][method]

Handler(op) == route(Requests[op][1], Requests[op][2])

statusForError ==
  [VALIDATION |-> 400, UNAUTHORIZED |-> 401, FORBIDDEN |-> 403, PRIVACY_BLOCKED |-> 403,
   NOT_FOUND |-> 404, UNSUPPORTED |-> 405, CONFLICT |-> 409, RATE_LIMITED |-> 429, UNKNOWN |-> 500]

statusCodeToErrorCode(status) ==
  CASE status = 400 -> "VALIDATION" [] status = 401 -> "UNAUTHORIZED" [] status = 403 -> "FORBIDDEN"
    [] status = 404 -> "NOT_FOUND"  [] status = 405 -> "UNSUPPORTED"  [] status = 409 -> "CONFLICT"
    [] status = 429 -> "RATE_LIMITED" [] OTHER -> "PROVIDER_ERROR"

-----------------------------------------------------------------------------
(* What the handlers are made of                                            *)

At(r, pc) == requests[r].pc = pc

In(r, handler, pc) == At(r, pc) /\ Handler(requests[r].call.op) = handler

Call(r) == requests[r].call

\* requireObject, requireString, optionalString, parseRsvpStatus and, for the
\* lists, the limit of the query: an "odd" value is a string where the contract
\* asks for a URL or a date, and is taken.
Invalid(call) == call.body = "invalid"

\* The serializers copy what is stored, whatever it is.
toWire(items, table) == [items |-> items, odd |-> \E i \in items : table[i].value = "odd"]

writeJson(r, status, code, wire) ==
  requests' = [requests EXCEPT ![r].pc = "answered",
                               ![r].answer = [status |-> status, code |-> code,
                                              items |-> wire.items, odd |-> wire.odd]]

Reply(r, status) == writeJson(r, status, "none", requests[r].found)

writeError(r, code) == writeJson(r, statusForError[code], code, toWire({}, << >>))

\* An await, with what the call it waits for will answer: repositories look and
\* write at once, and hand out copies.
Await(r, pc, items, table) ==
  requests' = [requests EXCEPT ![r].pc = pc, ![r].found = toWire(items, table)]

Goto(r, pc) == requests' = [requests EXCEPT ![r].pc = pc]

findById(r, pc, kind) ==
  /\ Await(r, pc, {i \in DOMAIN rows \cap {Call(r).target} : rows[i].kind = kind}, rows)
  /\ UNCHANGED rows

All(kind) == {i \in DOMAIN rows : rows[i].kind = kind}

(* Fault: the filter asks for the profile the wire format names.             *)
Existing_ByProfile(kind, account, of) == {}

\* findMany({..., accountId}, { limit: 1 })
Existing(kind, account, of) ==
  LET matching == {i \in All(kind) : rows[i].by = account /\ rows[i].of = of}
  IN {i \in matching : \A j \in matching : i <= j}

findMany(r, pc, items) == Await(r, pc, items, rows) /\ UNCHANGED rows

Create(r, pc, kind, of, value) ==
  /\ rows' = Append(rows, [kind |-> kind, by |-> Call(r).as, of |-> of, value |-> value, request |-> r])
  /\ Await(r, pc, {Len(rows) + 1}, rows')

(* Fault: the patch has the time of the update only.                         *)
Update_TimestampOnly(r, pc, i, value) ==
  /\ rows' = rows
  /\ Await(r, pc, {i}, rows')

Update(r, pc, i, value) ==
  /\ rows' = [rows EXCEPT ![i].value = IF value = "none" THEN @ ELSE value]
  /\ Await(r, pc, {i}, rows')

Quiet == UNCHANGED <<announced, inbox>>
Nothing == UNCHANGED rows /\ Quiet

Item(r) == CHOOSE i \in requests[r].found.items : TRUE
IsFound(r) == requests[r].found.items # {}

\* The bus delivers in the turn of the call; its promise resolves later.
publish(r, type) ==
  /\ announced' = Append(announced, [type |-> type, row |-> Item(r)])
  /\ Goto(r, "published")
  /\ UNCHANGED <<rows, inbox>>

-----------------------------------------------------------------------------
(* handle                                                                   *)

\* The client sends nothing without a key, where one is needed; the server
\* answers the health check to anyone, and authenticates before it reads the body.
Send(r) ==
  /\ At(r, "unsent") /\ \A q \in 1 .. r - 1 : ~At(q, "unsent")
  /\ LET call == Call(r)
         sent == [pc |-> "reading", call |-> call, found |-> toWire({}, << >>), answer |-> << >>,
                  after |-> {q \in DOMAIN requests : At(q, "answered")}, known |-> Len(rows)]
         Answer(status, code) == [sent EXCEPT !.pc = "answered",
           !.answer = [status |-> status, code |-> code, items |-> {}, odd |-> FALSE]]
     IN requests' = [requests EXCEPT ![r] =
          IF call.op = "getHealthz" THEN Answer(200, "none")
          ELSE IF call.as \in NoAccount THEN Answer(401, "UNAUTHORIZED")
          ELSE sent]
  /\ UNCHANGED <<rows, announced, inbox>>

\* readBody throws, or there is no handler; otherwise the handler starts in the same turn.
Refuse(r) ==
  /\ At(r, "reading")
  /\ \/ Call(r).body = "not JSON" /\ writeError(r, "VALIDATION")
     \/ /\ Call(r).body # "not JSON"
        /\ Handler(Call(r).op) \in DOMAIN statusForError
        /\ writeError(r, Handler(Call(r).op))
  /\ Nothing

Enter(r, handler) == In(r, handler, "reading") /\ Call(r).body # "not JSON"

\* A handler that looks at its body first.
EnterInvalid(r, handler) == Enter(r, handler) /\ Invalid(Call(r)) /\ writeError(r, "VALIDATION") /\ Nothing
EnterValid(r, handler)   == Enter(r, handler) /\ ~Invalid(Call(r))

\* And one that looks at it when it has found what the path names.
FoundNothing(r, handler) == In(r, handler, "found") /\ ~IsFound(r) /\ writeError(r, "NOT_FOUND") /\ Nothing
FoundInvalid(r, handler) ==
  In(r, handler, "found") /\ IsFound(r) /\ Invalid(Call(r)) /\ writeError(r, "VALIDATION") /\ Nothing
FoundValid(r, handler)   == In(r, handler, "found") /\ IsFound(r) /\ ~Invalid(Call(r))

Answers(r, handler, pc, status) == In(r, handler, pc) /\ Reply(r, status) /\ Nothing

-----------------------------------------------------------------------------
(* The handlers                                                             *)

ensureProfile(r, handler) ==
  \/ /\ EnterValid(r, handler)
     /\ findMany(r, "listed", Existing("profile", Call(r).as, 0)) /\ Quiet
  \/ In(r, handler, "listed") /\ IsFound(r) /\ Goto(r, "ensured") /\ Nothing
  \/ In(r, handler, "listed") /\ ~IsFound(r) /\ Create(r, "created", "profile", 0, "default") /\ Quiet
  \/ In(r, handler, "created") /\ publish(r, "identity.profile_created")
  \/ In(r, handler, "published") /\ Goto(r, "ensured") /\ Nothing

getMyProfile(r) ==
  ensureProfile(r, "getMyProfile") \/ Answers(r, "getMyProfile", "ensured", 200)

putMyProfile(r) ==
  \/ EnterInvalid(r, "putMyProfile")
  \/ ensureProfile(r, "putMyProfile")
  \/ In(r, "putMyProfile", "ensured") /\ Update(r, "updated", Item(r), Call(r).body) /\ Quiet
  \/ Answers(r, "putMyProfile", "updated", 200)

getProfile(r) ==
  \/ Enter(r, "getProfile") /\ findById(r, "found", "profile") /\ Quiet
  \/ FoundNothing(r, "getProfile")
  \/ Answers(r, "getProfile", "found", 200) /\ IsFound(r)

listPosts(r) ==
  \/ EnterInvalid(r, "listPosts")
  \/ EnterValid(r, "listPosts") /\ findMany(r, "listed", All("post")) /\ Quiet
  \/ Answers(r, "listPosts", "listed", 200)

createPost(r) ==
  \/ EnterInvalid(r, "createPost")
  \/ EnterValid(r, "createPost") /\ Create(r, "created", "post", 0, Call(r).body) /\ Quiet
  \/ In(r, "createPost", "created") /\ publish(r, "content.post_published")
  \/ Answers(r, "createPost", "published", 201)

getPost(r) ==
  \/ Enter(r, "getPost") /\ findById(r, "found", "post") /\ Quiet
  \/ FoundNothing(r, "getPost")
  \/ Answers(r, "getPost", "found", 200) /\ IsFound(r)

\* notify publishes, reads the preferences and then delivers to the inbox.
addReaction(r) ==
  \/ Enter(r, "addReaction") /\ findById(r, "found", "post") /\ Quiet
  \/ FoundNothing(r, "addReaction") \/ FoundInvalid(r, "addReaction")
  \/ /\ FoundValid(r, "addReaction")
     /\ Create(r, "created", "reaction", Call(r).target, Call(r).body) /\ Quiet
  \/ In(r, "addReaction", "created") /\ publish(r, "notification.requested")
  \/ /\ In(r, "addReaction", "published") /\ Goto(r, "notified")
     /\ inbox' = [inbox EXCEPT ![rows[Call(r).target].by] = Append(@, Item(r))]
     /\ UNCHANGED <<rows, announced>>
  \/ Answers(r, "addReaction", "notified", 201)

listCommunities(r) ==
  \/ EnterInvalid(r, "listCommunities")
  \/ EnterValid(r, "listCommunities") /\ findMany(r, "listed", All("community")) /\ Quiet
  \/ Answers(r, "listCommunities", "listed", 200)

\* No event is published.
createCommunity(r) ==
  \/ EnterInvalid(r, "createCommunity")
  \/ EnterValid(r, "createCommunity") /\ Create(r, "created", "community", 0, Call(r).body) /\ Quiet
  \/ Answers(r, "createCommunity", "created", 201)

(* Fault: joining again announces the membership again.                      *)
joinCommunity_AnnouncesAgain(r) ==
  \/ Enter(r, "joinCommunity") /\ findById(r, "found", "community") /\ Quiet
  \/ FoundNothing(r, "joinCommunity")
  \/ /\ FoundValid(r, "joinCommunity")
     /\ findMany(r, "listed", Existing("membership", Call(r).as, Call(r).target)) /\ Quiet
  \/ In(r, "joinCommunity", "listed") /\ IsFound(r) /\ publish(r, "community.member_joined")
  \/ /\ In(r, "joinCommunity", "listed") /\ ~IsFound(r)
     /\ Create(r, "created", "membership", Call(r).target, "member") /\ Quiet
  \/ In(r, "joinCommunity", "created") /\ publish(r, "community.member_joined")
  \/ Answers(r, "joinCommunity", "published", 201)

joinCommunity(r) ==
  \/ Enter(r, "joinCommunity") /\ findById(r, "found", "community") /\ Quiet
  \/ FoundNothing(r, "joinCommunity")
  \/ /\ FoundValid(r, "joinCommunity")
     /\ findMany(r, "listed", Existing("membership", Call(r).as, Call(r).target)) /\ Quiet
  \/ Answers(r, "joinCommunity", "listed", 200) /\ IsFound(r)
  \/ /\ In(r, "joinCommunity", "listed") /\ ~IsFound(r)
     /\ Create(r, "created", "membership", Call(r).target, "member") /\ Quiet
  \/ In(r, "joinCommunity", "created") /\ publish(r, "community.member_joined")
  \/ Answers(r, "joinCommunity", "published", 201)

listEvents(r) ==
  \/ EnterInvalid(r, "listEvents")
  \/ EnterValid(r, "listEvents") /\ findMany(r, "listed", All("event")) /\ Quiet
  \/ Answers(r, "listEvents", "listed", 200)

\* No event is published.
createEvent(r) ==
  \/ EnterInvalid(r, "createEvent")
  \/ EnterValid(r, "createEvent") /\ Create(r, "created", "event", 0, Call(r).body) /\ Quiet
  \/ Answers(r, "createEvent", "created", 201)

rsvpEvent(r) ==
  \/ Enter(r, "rsvpEvent") /\ findById(r, "found", "event") /\ Quiet
  \/ FoundNothing(r, "rsvpEvent") \/ FoundInvalid(r, "rsvpEvent")
  \/ /\ FoundValid(r, "rsvpEvent")
     /\ findMany(r, "listed", Existing("rsvp", Call(r).as, Call(r).target)) /\ Quiet
  \/ /\ In(r, "rsvpEvent", "listed") /\ IsFound(r)
     /\ Update(r, "updated", Item(r), Call(r).body) /\ Quiet
  \/ Answers(r, "rsvpEvent", "updated", 200)
  \/ /\ In(r, "rsvpEvent", "listed") /\ ~IsFound(r)
     /\ Create(r, "created", "rsvp", Call(r).target, Call(r).body) /\ Quiet
  \/ In(r, "rsvpEvent", "created") /\ publish(r, "event.rsvp_confirmed")
  \/ Answers(r, "rsvpEvent", "published", 201)

\* There is nothing to wait for.
listMyNotifications(r) ==
  \/ EnterInvalid(r, "listMyNotifications")
  \/ /\ EnterValid(r, "listMyNotifications")
     /\ writeJson(r, 200, "none", toWire(ToSet(inbox[Call(r).as]), rows)) /\ Nothing

-----------------------------------------------------------------------------
(* The client: what request throws, or "none", given the answer, whether it  *)
(* reaches the caller and whether its body does                              *)

apiError(answer, arrives, readable) ==
  IF ~arrives THEN [status |-> 0, code |-> "UNAVAILABLE"]
  ELSE [status |-> answer.status,
        code   |-> IF answer.code # "none"
                   THEN IF readable THEN answer.code ELSE statusCodeToErrorCode(answer.status)
                   ELSE IF ~readable THEN "PROVIDER_ERROR"
                   ELSE IF answer.odd THEN "VALIDATION" ELSE "none"]

-----------------------------------------------------------------------------

ServerNext ==
  \E r \in DOMAIN requests :
    \/ Send(r) \/ Refuse(r)
    \/ getMyProfile(r) \/ putMyProfile(r) \/ getProfile(r)
    \/ listPosts(r) \/ createPost(r) \/ getPost(r) \/ addReaction(r)
    \/ listCommunities(r) \/ createCommunity(r) \/ joinCommunity(r)
    \/ listEvents(r) \/ createEvent(r) \/ rsvpEvent(r) \/ listMyNotifications(r)

ServerSpec == ServerInit /\ [][ServerNext]_serverVars

-----------------------------------------------------------------------------
(* Properties                                                               *)

Sent == {r \in DOMAIN requests : ~At(r, "unsent")}

\* What an operation is to make or to find for its caller, or at all.
Makes ==
  [op \in DOMAIN Requests |->
     CASE op \in {"getMyProfile", "updateMyProfile"} -> "profile"
       [] op = "createPost"      -> "post"
       [] op = "addReaction"     -> "reaction"
       [] op = "createCommunity" -> "community"
       [] op = "joinCommunity"   -> "membership"
       [] op = "createEvent"     -> "event"
       [] op = "rsvpEvent"       -> "rsvp"
       [] OTHER                  -> "nothing"]

Names ==
  [op \in DOMAIN Requests |->
     CASE op \in {"getPost", "addReaction"} -> "post"
       [] op = "getProfile"                 -> "profile"
       [] op = "joinCommunity"              -> "community"
       [] op = "rsvpEvent"                  -> "event"
       [] OTHER                             -> "nothing"]

\* What is to be announced of it: server.ts:7-8 would have something for each.
Announces ==
  [profile |-> {"identity.profile_created"}, post |-> {"content.post_published"},
   membership |-> {"community.member_joined"}, rsvp |-> {"event.rsvp_confirmed"},
   reaction |-> {"notification.requested"}, community |-> {}, event |-> {}]

OncePerAccount == {"profile", "membership", "rsvp"}

Of(call) == IF Names[call.op] = "nothing" THEN 0 ELSE call.target

Announcements(i) == {k \in DOMAIN announced : announced[k].row = i}

\* Where a reaction stands in the inbox of its post's author.
Told(i) ==
  LET author == rows[rows[i].of].by
  IN {k \in DOMAIN inbox[author] : inbox[author][k] = i}

\* Everything a row promises to others has happened, once.
Complete(i) ==
  /\ {announced[k].type : k \in Announcements(i)} = Announces[rows[i].kind]
  /\ Cardinality(Announcements(i)) = Cardinality(Announces[rows[i].kind])
  /\ rows[i].kind = "reaction" => Cardinality(Told(i)) = 1

(* What the caller is told is what happened.  An error the server answered   *)
(* means that it left nothing behind, and a 404 of a routed call that the    *)
(* target was not there when the call was made; a success, even one the      *)
(* client cannot read or whose body it rejects, that the row is there, is    *)
(* the caller's own where it is made for the caller, and if this call made   *)
(* it was announced, and its author notified, exactly once.                  *)
ToldTruth == \A r \in {q \in Sent : At(q, "answered")}, arrives, readable \in BOOLEAN :
  LET call == requests[r].call
      told == apiError(requests[r].answer, arrives, readable)
      own  == {i \in DOMAIN rows : rows[i].request = r}
  IN /\ told.status >= 400 => own = {}
     /\ told.code = "NOT_FOUND" /\ Handler(call.op) # "NOT_FOUND" =>
          ~ (call.target \in 1 .. requests[r].known /\ rows[call.target].kind = Names[call.op])
     /\ told.status \in {200, 201} /\ Makes[call.op] # "nothing" =>
          \E i \in requests[r].answer.items :
            rows[i].kind = Makes[call.op] /\ rows[i].by = call.as /\ rows[i].of = Of(call)
     /\ Cardinality(own) <= 1 /\ \A i \in own : Complete(i)

Overlap(q, r) ==
  q # r /\ {q, r} \subseteq DOMAIN requests /\ q \notin requests[r].after /\ r \notin requests[q].after

(* joinCommunity, rsvpEvent and ensureProfile look before they create: an    *)
(* account gets a second membership of a community, RSVP to an event or      *)
(* profile only if the requests that made the two were in flight together,   *)
(* and never one that an earlier request had made already.                   *)
DuplicatesNeedOverlap == \A i, j \in DOMAIN rows :
  /\ i # j /\ {i, j} \ DOMAIN FirstRows # {}
  /\ rows[i].kind = rows[j].kind /\ rows[i].kind \in OncePerAccount
  /\ rows[i].by = rows[j].by /\ rows[i].of = rows[j].of
  => Overlap(rows[i].request, rows[j].request)

(* An RSVP that was answered when no other of the account to the event was   *)
(* under way is the one that stands, whatever duplicates there are: findMany *)
(* names the same row every time.                                            *)
LastRsvpStands == \A r \in Sent :
  LET call  == requests[r].call
      rival == {q \in Sent \ {r} : requests[q].call.op = "rsvpEvent" /\ requests[q].call.as = call.as
                                     /\ requests[q].call.target = call.target}
  IN /\ call.op = "rsvpEvent" /\ At(r, "answered") /\ requests[r].answer.code = "none"
     /\ rival \subseteq requests[r].after
     => \E i \in Existing("rsvp", call.as, call.target) : rows[i].value = call.body

\* The idempotencyKey of an event: publish makes a fresh one, NotificationService none.
Key(k) == IF announced[k].type = "notification.requested" THEN "undefined" ELSE k

\* What a subscription with the default options takes for new.
Observed == {k \in DOMAIN announced :
               \A l \in 1 .. k - 1 : announced[l].type = announced[k].type => Key(l) # Key(k)}

(* server.ts:7-8: the events let downstream consumers observe the workflow.  *)
(* For reactions: each that was answered was observed, through the           *)
(* notification.requested it led to, by a consumer with the default options. *)
ReactionsObserved == \A r \in Sent :
  At(r, "answered") /\ requests[r].call.op = "addReaction" /\ requests[r].answer.code = "none"
    => \A i \in requests[r].answer.items : Announcements(i) \cap Observed # {}
=============================================================================

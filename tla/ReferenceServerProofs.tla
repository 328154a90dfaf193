------------------------ MODULE ReferenceServerProofs -----------------------
(* What the reference server promises to its callers, for every sequence of  *)
(* calls and whatever earlier requests have left.                            *)
EXTENDS ReferenceServer, FiniteSetTheorems, SequenceTheorems, WellFoundedInduction, TLAPS

-----------------------------------------------------------------------------
(* Routing: which handler an operation reaches, and what that is for         *)

Op == {"getHealthz", "getMyProfile", "updateMyProfile", "getProfile", "listPosts", "createPost",
       "getPost", "addReaction", "listCommunities", "createCommunity", "getCommunity",
       "joinCommunity", "listEvents", "getEvent", "rsvpEvent", "listMyNotifications",
       "createEvent", "deletePosts"}

LEMMA RequestsAre ==
  /\ DOMAIN Requests = Op
  /\ Requests["getHealthz"] = <<"GET", "/healthz">>
  /\ Requests["getMyProfile"] = <<"GET", "/profiles/me">>
  /\ Requests["updateMyProfile"] = <<"PUT", "/profiles/me">>
  /\ Requests["getProfile"] = <<"GET", "/profiles/:id">>
  /\ Requests["listPosts"] = <<"GET", "/posts">>
  /\ Requests["createPost"] = <<"POST", "/posts">>
  /\ Requests["getPost"] = <<"GET", "/posts/:id">>
  /\ Requests["addReaction"] = <<"POST", "/posts/:id/reactions">>
  /\ Requests["listCommunities"] = <<"GET", "/communities">>
  /\ Requests["createCommunity"] = <<"POST", "/communities">>
  /\ Requests["getCommunity"] = <<"GET", "/communities/:id">>
  /\ Requests["joinCommunity"] = <<"POST", "/communities/:id/join">>
  /\ Requests["listEvents"] = <<"GET", "/events">>
  /\ Requests["getEvent"] = <<"GET", "/events/:id">>
  /\ Requests["rsvpEvent"] = <<"POST", "/events/:id/rsvp">>
  /\ Requests["listMyNotifications"] = <<"GET", "/notifications/me">>
  /\ Requests["createEvent"] = <<"POST", "/events">>
  /\ Requests["deletePosts"] = <<"DELETE", "/posts">>
  <1>1. DOMAIN Operations = Op \ {"createEvent", "deletePosts"}
    BY DEF Operations, Op
  <1>2. DOMAIN OtherRequests = {"createEvent", "deletePosts"}
    BY DEF OtherRequests
  <1>3. Op = (Op \ {"createEvent", "deletePosts"}) \cup {"createEvent", "deletePosts"}
    BY DEF Op
  <1>4. /\ DOMAIN Requests = Op
        /\ \A op \in Op \ {"createEvent", "deletePosts"} : Requests[op] = Operations[op]
        /\ \A op \in {"createEvent", "deletePosts"} : Requests[op] = OtherRequests[op]
    BY <1>1, <1>2, <1>3 DEF Requests
  <1>5. /\ Operations["getHealthz"] = <<"GET", "/healthz">>
        /\ Operations["getMyProfile"] = <<"GET", "/profiles/me">>
        /\ Operations["updateMyProfile"] = <<"PUT", "/profiles/me">>
        /\ Operations["getProfile"] = <<"GET", "/profiles/:id">>
        /\ Operations["listPosts"] = <<"GET", "/posts">>
        /\ Operations["createPost"] = <<"POST", "/posts">>
    BY DEF Operations
  <1>6. /\ Operations["getPost"] = <<"GET", "/posts/:id">>
        /\ Operations["addReaction"] = <<"POST", "/posts/:id/reactions">>
        /\ Operations["listCommunities"] = <<"GET", "/communities">>
        /\ Operations["createCommunity"] = <<"POST", "/communities">>
        /\ Operations["getCommunity"] = <<"GET", "/communities/:id">>
    BY DEF Operations
  <1>7. /\ Operations["joinCommunity"] = <<"POST", "/communities/:id/join">>
        /\ Operations["listEvents"] = <<"GET", "/events">>
        /\ Operations["getEvent"] = <<"GET", "/events/:id">>
        /\ Operations["rsvpEvent"] = <<"POST", "/events/:id/rsvp">>
        /\ Operations["listMyNotifications"] = <<"GET", "/notifications/me">>
    BY DEF Operations
  <1>8. /\ OtherRequests["createEvent"] = <<"POST", "/events">>
        /\ OtherRequests["deletePosts"] = <<"DELETE", "/posts">>
    BY DEF OtherRequests
  <1>9. QED
    BY <1>4, <1>5, <1>6, <1>7, <1>8 DEF Op

Paths == {"/profiles/me", "/profiles/:id", "/posts", "/posts/:id", "/posts/:id/reactions",
          "/communities", "/communities/:id/join", "/events", "/events/:id/rsvp",
          "/notifications/me"}

LEMMA RoutesAre ==
  /\ DOMAIN Routes = Paths
  /\ Routes["/profiles/me"] = [GET |-> "getMyProfile", PUT |-> "putMyProfile"]
  /\ Routes["/profiles/:id"] = [GET |-> "getProfile"]
  /\ Routes["/posts"] = [GET |-> "listPosts", POST |-> "createPost"]
  /\ Routes["/posts/:id"] = [GET |-> "getPost"]
  /\ Routes["/posts/:id/reactions"] = [POST |-> "addReaction"]
  /\ Routes["/communities"] = [GET |-> "listCommunities", POST |-> "createCommunity"]
  /\ Routes["/communities/:id/join"] = [POST |-> "joinCommunity"]
  /\ Routes["/events"] = [GET |-> "listEvents", POST |-> "createEvent"]
  /\ Routes["/events/:id/rsvp"] = [POST |-> "rsvpEvent"]
  /\ Routes["/notifications/me"] = [GET |-> "listMyNotifications"]
  BY DEF Routes, Paths

\* The handler each operation reaches.
Reached ==
  [getHealthz |-> "NOT_FOUND", getMyProfile |-> "getMyProfile", updateMyProfile |-> "putMyProfile",
   getProfile |-> "getProfile", listPosts |-> "listPosts", createPost |-> "createPost",
   getPost |-> "getPost", addReaction |-> "addReaction", listCommunities |-> "listCommunities",
   createCommunity |-> "createCommunity", getCommunity |-> "NOT_FOUND",
   joinCommunity |-> "joinCommunity", listEvents |-> "listEvents", getEvent |-> "NOT_FOUND",
   rsvpEvent |-> "rsvpEvent", listMyNotifications |-> "listMyNotifications",
   createEvent |-> "createEvent", deletePosts |-> "UNSUPPORTED"]

LEMMA HandlersAre == \A op \in Op : Handler(op) = Reached[op]
  <1>1. route("GET", "/healthz") = "NOT_FOUND"
    BY RoutesAre DEF route, Paths
  <1>2. route("GET", "/profiles/me") = "getMyProfile"
    BY RoutesAre DEF route, Paths
  <1>3. route("PUT", "/profiles/me") = "putMyProfile"
    BY RoutesAre DEF route, Paths
  <1>4. route("GET", "/profiles/:id") = "getProfile"
    BY RoutesAre DEF route, Paths
  <1>5. route("GET", "/posts") = "listPosts"
    BY RoutesAre DEF route, Paths
  <1>6. route("POST", "/posts") = "createPost"
    BY RoutesAre DEF route, Paths
  <1>7. route("GET", "/posts/:id") = "getPost"
    BY RoutesAre DEF route, Paths
  <1>8. route("POST", "/posts/:id/reactions") = "addReaction"
    BY RoutesAre DEF route, Paths
  <1>9. route("GET", "/communities") = "listCommunities"
    BY RoutesAre DEF route, Paths
  <1>10. route("POST", "/communities") = "createCommunity"
    BY RoutesAre DEF route, Paths
  <1>11. route("GET", "/communities/:id") = "NOT_FOUND"
    BY RoutesAre DEF route, Paths
  <1>12. route("POST", "/communities/:id/join") = "joinCommunity"
    BY RoutesAre DEF route, Paths
  <1>13. route("GET", "/events") = "listEvents"
    BY RoutesAre DEF route, Paths
  <1>14. route("GET", "/events/:id") = "NOT_FOUND"
    BY RoutesAre DEF route, Paths
  <1>15. route("POST", "/events/:id/rsvp") = "rsvpEvent"
    BY RoutesAre DEF route, Paths
  <1>16. route("GET", "/notifications/me") = "listMyNotifications"
    BY RoutesAre DEF route, Paths
  <1>17. route("POST", "/events") = "createEvent"
    BY RoutesAre DEF route, Paths
  <1>18. route("DELETE", "/posts") = "UNSUPPORTED"
    BY RoutesAre DEF route, Paths
  <1>19. /\ Handler("getHealthz") = "NOT_FOUND"
         /\ Handler("getMyProfile") = "getMyProfile"
         /\ Handler("updateMyProfile") = "putMyProfile"
         /\ Handler("getProfile") = "getProfile"
         /\ Handler("listPosts") = "listPosts"
         /\ Handler("createPost") = "createPost"
         /\ Handler("getPost") = "getPost"
         /\ Handler("addReaction") = "addReaction"
         /\ Handler("listCommunities") = "listCommunities"
         /\ Handler("createCommunity") = "createCommunity"
         /\ Handler("getCommunity") = "NOT_FOUND"
         /\ Handler("joinCommunity") = "joinCommunity"
         /\ Handler("listEvents") = "listEvents"
         /\ Handler("getEvent") = "NOT_FOUND"
         /\ Handler("rsvpEvent") = "rsvpEvent"
         /\ Handler("listMyNotifications") = "listMyNotifications"
         /\ Handler("createEvent") = "createEvent"
         /\ Handler("deletePosts") = "UNSUPPORTED"
    BY RequestsAre, <1>1, <1>2, <1>3, <1>4, <1>5, <1>6, <1>7, <1>8, <1>9, <1>10, <1>11, <1>12, <1>13, <1>14, <1>15, <1>16, <1>17, <1>18 DEF Handler
  <1>20. QED
    BY <1>19 DEF Op, Reached

LEMMA PurposesAre ==
  ASSUME NEW op \in Op
  PROVE  /\ op \in {"getMyProfile", "updateMyProfile"} => Makes[op] = "profile" /\ Names[op] = "nothing"
         /\ op = "createPost" => Makes[op] = "post" /\ Names[op] = "nothing"
         /\ op = "addReaction" => Makes[op] = "reaction" /\ Names[op] = "post"
         /\ op = "createCommunity" => Makes[op] = "community" /\ Names[op] = "nothing"
         /\ op = "joinCommunity" => Makes[op] = "membership" /\ Names[op] = "community"
         /\ op = "createEvent" => Makes[op] = "event" /\ Names[op] = "nothing"
         /\ op = "rsvpEvent" => Makes[op] = "rsvp" /\ Names[op] = "event"
         /\ op = "getPost" => Makes[op] = "nothing" /\ Names[op] = "post"
         /\ op = "getProfile" => Makes[op] = "nothing" /\ Names[op] = "profile"
         /\ op \in {"getHealthz", "listPosts", "listCommunities", "listEvents", "listMyNotifications",
                    "getCommunity", "getEvent", "deletePosts"}
              => Makes[op] = "nothing" /\ Names[op] = "nothing"
  BY RequestsAre DEF Makes, Names, Op

\* Profiles are looked for by two handlers, everything else by one.
LEMMA HandledFor ==
  ASSUME NEW op \in Op
  PROVE  /\ Handler(op) \in {"getMyProfile", "putMyProfile"} => Makes[op] = "profile" /\ Names[op] = "nothing"
         /\ Handler(op) = "createPost" => Makes[op] = "post"
         /\ Handler(op) = "addReaction" => Makes[op] = "reaction" /\ Names[op] = "post"
         /\ Handler(op) = "createCommunity" => Makes[op] = "community"
         /\ Handler(op) = "joinCommunity" => Makes[op] = "membership" /\ Names[op] = "community"
         /\ Handler(op) = "createEvent" => Makes[op] = "event"
         /\ Handler(op) = "rsvpEvent" => Makes[op] = "rsvp" /\ Names[op] = "event"
         /\ Handler(op) = "getPost" => Makes[op] = "nothing" /\ Names[op] = "post"
         /\ Handler(op) = "getProfile" => Makes[op] = "nothing" /\ Names[op] = "profile"
         /\ Handler(op) \in {"listPosts", "listCommunities", "listEvents", "listMyNotifications",
                             "NOT_FOUND", "UNSUPPORTED"} => Makes[op] = "nothing"
         /\ Makes[op] = "rsvp" => op = "rsvpEvent"
         /\ Makes[op] \in {"nothing", "profile", "post", "reaction", "community", "membership", "event", "rsvp"}
         /\ Makes[op] \in {"profile", "post", "community", "event"} => Names[op] = "nothing"
         /\ Makes[op] \in {"reaction", "membership", "rsvp"} => Names[op] # "nothing"
  <1>1. Handler(op) = Reached[op]
    BY HandlersAre
  <1>2. QED
    BY <1>1, PurposesAre DEF Reached, Op

-----------------------------------------------------------------------------
(* The turns of a request: what a handler can do between two awaits          *)

\* What rows and calls are made of.
Everyone == {FirstRows[i].by : i \in DOMAIN FirstRows}
            \cup UNION {{script[r].as : r \in DOMAIN script} : script \in Scripts}
Values == {"default", "member"} \cup {FirstRows[i].value : i \in DOMAIN FirstRows}
          \cup UNION {{script[r].body : r \in DOMAIN script} : script \in Scripts}
EventTypes == {"identity.profile_created", "content.post_published", "community.member_joined",
               "event.rsvp_confirmed", "notification.requested"}

Kind(r) == Makes[Call(r).op]
Pc(r)   == requests[r].pc

Becomes(r, g) == requests' = [requests EXCEPT ![r] = g]

\* After the turn r is g; its call, and what is known of its time, stay.
Turned(r, g) ==
  /\ Becomes(r, g)
  /\ g = [pc |-> g.pc, call |-> Call(r), found |-> g.found, answer |-> g.answer,
          after |-> requests[r].after, known |-> requests[r].known]

Fails(r, g) ==
  /\ Pc(r) \in {"reading", "found"} /\ g.pc = "answered" /\ UNCHANGED <<rows, announced, inbox>>
  /\ g.answer.code \in DOMAIN statusForError /\ g.answer.status = statusForError[g.answer.code]
  /\ g.answer.code = "NOT_FOUND" =>
       Handler(Call(r).op) = "NOT_FOUND" \/ (Pc(r) = "found" /\ ~IsFound(r))

Finds(r, g) ==
  /\ Pc(r) = "reading" /\ g.pc = "found" /\ UNCHANGED <<rows, announced, inbox>>
  /\ Names[Call(r).op] # "nothing"
  /\ g.found.items = {i \in DOMAIN rows \cap {Call(r).target} : rows[i].kind = Names[Call(r).op]}

\* The lists of the read-only handlers are not told apart.
Lists(r, g) ==
  /\ Pc(r) \in {"reading", "found"} /\ g.pc = "listed" /\ UNCHANGED <<rows, announced, inbox>>
  /\ \/ Kind(r) \in OncePerAccount /\ g.found.items = Existing(Kind(r), Call(r).as, Of(Call(r)))
     \/ Kind(r) = "nothing" /\ g.found.items \subseteq DOMAIN rows

Writes(r, g, value) ==
  /\ \/ Pc(r) = "reading" /\ Kind(r) \in {"post", "community", "event"}
     \/ Pc(r) = "found" /\ IsFound(r) /\ Kind(r) = "reaction"
     \/ /\ Pc(r) = "listed" /\ ~IsFound(r) /\ Kind(r) \in OncePerAccount
        /\ Kind(r) = "rsvp" => value = Call(r).body
  /\ g.pc = "created" /\ g.found.items = {Len(rows) + 1}
  /\ rows' = Append(rows, [kind |-> Kind(r), by |-> Call(r).as, of |-> Of(Call(r)), value |-> value,
                          request |-> r])
  /\ UNCHANGED <<announced, inbox>>

Tells(r, g, type) ==
  /\ Pc(r) = "created" /\ g.pc = "published" /\ g.found = requests[r].found
  /\ Announces[Kind(r)] = {type} /\ announced' = Append(announced, [type |-> type, row |-> Item(r)])
  /\ UNCHANGED <<rows, inbox>>

Settles(r, g) ==
  /\ Kind(r) = "profile" /\ (Pc(r) = "published" \/ (Pc(r) = "listed" /\ IsFound(r)))
  /\ g.pc = "ensured" /\ g.found = requests[r].found /\ UNCHANGED <<rows, announced, inbox>>

Patches(r, g) ==
  /\ \/ Pc(r) = "ensured" /\ Kind(r) = "profile"
     \/ Pc(r) = "listed" /\ IsFound(r) /\ Kind(r) = "rsvp"
  /\ g.pc = "updated" /\ g.found.items = {Item(r)}
  /\ rows' = [rows EXCEPT ![Item(r)].value = IF Call(r).body = "none" THEN @ ELSE Call(r).body]
  /\ UNCHANGED <<announced, inbox>>

Notifies(r, g) ==
  /\ Pc(r) = "published" /\ Kind(r) = "reaction" /\ g.pc = "notified" /\ g.found = requests[r].found
  /\ inbox' = [inbox EXCEPT ![rows[Call(r).target].by] = Append(@, Item(r))]
  /\ UNCHANGED <<rows, announced>>

Replies(r, g) ==
  /\ g.pc = "answered" /\ UNCHANGED <<rows, announced, inbox>>
  /\ g.answer.status \in {200, 201} /\ g.answer.code = "none"
  /\ Kind(r) # "nothing" => g.answer.items = requests[r].found.items
  /\ \/ Kind(r) = "nothing" /\ Pc(r) \in {"reading", "listed", "found"}
     \/ Kind(r) = "profile" /\ Pc(r) \in {"ensured", "updated"}
     \/ Kind(r) \in {"community", "event"} /\ Pc(r) = "created"
     \/ Kind(r) \in {"post", "membership", "rsvp"} /\ Pc(r) = "published"
     \/ Kind(r) = "membership" /\ Pc(r) = "listed" /\ IsFound(r)
     \/ Kind(r) = "rsvp" /\ Pc(r) = "updated"
     \/ Kind(r) = "reaction" /\ Pc(r) = "notified"

Turn(r, g) ==
  /\ Turned(r, g)
  /\ \/ Fails(r, g) \/ Finds(r, g) \/ Lists(r, g) \/ \E value \in Values : Writes(r, g, value)
     \/ \E type \in EventTypes : Tells(r, g, type)
     \/ Settles(r, g) \/ Patches(r, g) \/ Notifies(r, g) \/ Replies(r, g)

\* What a request is, once it is sent.
Carried(q) ==
  q = [pc |-> q.pc, call |-> q.call, found |-> q.found, answer |-> q.answer, after |-> q.after,
       known |-> q.known]

\* A sent request with another control state, find and answer.
With(q, pc, found, answer) ==
  [pc |-> pc, call |-> q.call, found |-> found, answer |-> answer, after |-> q.after, known |-> q.known]

LEMMA WithPc ==
  ASSUME NEW q, Carried(q), NEW pc
  PROVE  /\ [q EXCEPT !.pc = pc] = With(q, pc, q.found, q.answer)
         /\ Carried(With(q, pc, q.found, q.answer))
         /\ DOMAIN With(q, pc, q.found, q.answer) = {"pc", "call", "found", "answer", "after", "known"}
  <1>1. DOMAIN q = {"pc", "call", "found", "answer", "after", "known"}
    BY DEF Carried
  <1>2. [q EXCEPT !.pc = pc] = With(q, pc, q.found, q.answer)
    BY <1>1 DEF With
  <1>3. QED
    BY <1>2 DEF With, Carried

LEMMA WithFound ==
  ASSUME NEW q, Carried(q), NEW pc, NEW found
  PROVE  [q EXCEPT !.pc = pc, !.found = found] = With(q, pc, found, q.answer)
  <1>1. PICK h : h = With(q, pc, q.found, q.answer)
    OBVIOUS
  <1>2. [h EXCEPT !.found = found] = With(q, pc, found, q.answer)
    BY <1>1, WithPc DEF With
  <1>3. QED
    BY <1>1, <1>2, WithPc, Zenon

LEMMA WithAnswer ==
  ASSUME NEW q, Carried(q), NEW pc, NEW answer
  PROVE  [q EXCEPT !.pc = pc, !.answer = answer] = With(q, pc, q.found, answer)
  <1>1. PICK h : h = With(q, pc, q.found, q.answer)
    OBVIOUS
  <1>2. [h EXCEPT !.answer = answer] = With(q, pc, q.found, answer)
    BY <1>1, WithPc DEF With
  <1>3. QED
    BY <1>1, <1>2, WithPc, Zenon

LEMMA WithTurns ==
  ASSUME NEW r \in DOMAIN requests, NEW pc, NEW found, NEW answer, NEW g,
         g = With(requests[r], pc, found, answer), Becomes(r, g)
  PROVE  Turned(r, g) /\ g.pc = pc /\ g.found = found /\ g.answer = answer
  <1>1. /\ g.pc = pc /\ g.found = found /\ g.answer = answer
        /\ g = [pc |-> pc, call |-> Call(r), found |-> found, answer |-> answer,
               after |-> requests[r].after, known |-> requests[r].known]
    BY DEF With, Call
  <1>2. QED
    BY <1>1 DEF Turned

LEMMA AwaitTurns ==
  ASSUME NEW r \in DOMAIN requests, Carried(requests[r]), NEW pc, NEW items, NEW table,
         Await(r, pc, items, table)
  PROVE  \E g : Turned(r, g) /\ g.pc = pc /\ g.found.items = items
  <1>w. PICK wire : wire = toWire(items, table)
    OBVIOUS
  <1>g. PICK g : g = With(requests[r], pc, wire, requests[r].answer)
    OBVIOUS
  <1>1. wire.items = items
    BY <1>w DEF toWire
  <1>2. [requests[r] EXCEPT !.pc = pc, !.found = wire] = g
    BY <1>g, WithFound, Zenon
  <1>3. requests' = [requests EXCEPT ![r].pc = pc, ![r].found = wire]
    BY <1>w DEF Await
  <1>4. Becomes(r, g)
    BY <1>2, <1>3, Zenon DEF Becomes
  <1>5. Turned(r, g) /\ g.pc = pc /\ g.found = wire
    BY <1>g, <1>4, WithTurns
  <1>6. QED
    BY <1>1, <1>5

LEMMA GotoTurns ==
  ASSUME NEW r \in DOMAIN requests, Carried(requests[r]), NEW pc, Goto(r, pc)
  PROVE  \E g : Turned(r, g) /\ g.pc = pc /\ g.found = requests[r].found
  <1>g. PICK g : g = With(requests[r], pc, requests[r].found, requests[r].answer)
    OBVIOUS
  <1>1. [requests[r] EXCEPT !.pc = pc] = g
    BY <1>g, WithPc, Zenon
  <1>2. Becomes(r, g)
    BY <1>1, Zenon DEF Goto, Becomes
  <1>3. Turned(r, g) /\ g.pc = pc /\ g.found = requests[r].found
    BY <1>g, <1>2, WithTurns
  <1>4. QED
    BY <1>3

LEMMA JsonTurns ==
  ASSUME NEW r \in DOMAIN requests, Carried(requests[r]), NEW status, NEW code, NEW wire,
         writeJson(r, status, code, wire)
  PROVE  \E g : /\ Turned(r, g) /\ g.pc = "answered" /\ g.answer.status = status
                /\ g.answer.code = code /\ g.answer.items = wire.items
  <1>a. PICK answer : answer = [status |-> status, code |-> code, items |-> wire.items, odd |-> wire.odd]
    OBVIOUS
  <1>p. PICK pc : pc = "answered"
    OBVIOUS
  <1>g. PICK g : g = With(requests[r], pc, requests[r].found, answer)
    OBVIOUS
  <1>1. answer.status = status /\ answer.code = code /\ answer.items = wire.items
    BY <1>a
  <1>2. [requests[r] EXCEPT !.pc = pc, !.answer = answer] = g
    BY <1>g, WithAnswer, Zenon
  <1>3. requests' = [requests EXCEPT ![r].pc = pc, ![r].answer = answer]
    BY <1>a, <1>p DEF writeJson
  <1>4. Becomes(r, g)
    BY <1>2, <1>3, Zenon DEF Becomes
  <1>5. Turned(r, g) /\ g.pc = pc /\ g.answer = answer
    BY <1>g, <1>4, WithTurns
  <1>6. QED
    BY <1>p, <1>1, <1>5

\* A request that takes a turn is under way, and is a call the server knows.
Ready(r) ==
  /\ r \in DOMAIN requests /\ Carried(requests[r])
  /\ Call(r).op \in Op /\ Call(r).body \in Values

Turns(r) == \E g : Turn(r, g)

LEMMA FailTurns ==
  ASSUME NEW r, Ready(r), NEW code \in DOMAIN statusForError, Pc(r) \in {"reading", "found"},
         writeError(r, code), Nothing,
         code = "NOT_FOUND" => Handler(Call(r).op) = "NOT_FOUND" \/ (Pc(r) = "found" /\ ~IsFound(r))
  PROVE  Turns(r)
  <1>1. PICK wire, status : status = statusForError[code] /\ writeJson(r, status, code, wire)
    BY DEF writeError
  <1>2. PICK g : /\ Turned(r, g) /\ g.pc = "answered" /\ g.answer.status = status
                 /\ g.answer.code = code
    BY <1>1, JsonTurns DEF Ready
  <1>3. Fails(r, g)
    BY <1>1, <1>2 DEF Fails, Nothing, Quiet
  <1>4. QED
    BY <1>2, <1>3 DEF Turn, Turns

LEMMA FindTurns ==
  ASSUME NEW r, Ready(r), Pc(r) = "reading", Names[Call(r).op] # "nothing",
         findById(r, "found", Names[Call(r).op]), Quiet
  PROVE  Turns(r)
  <1>1. PICK items : /\ items = {i \in DOMAIN rows \cap {Call(r).target} : rows[i].kind = Names[Call(r).op]}
                     /\ Await(r, "found", items, rows)
    BY DEF findById
  <1>2. PICK g : Turned(r, g) /\ g.pc = "found" /\ g.found.items = items
    BY <1>1, AwaitTurns DEF Ready
  <1>3. Finds(r, g)
    BY <1>1, <1>2 DEF Finds, findById, Quiet
  <1>4. QED
    BY <1>2, <1>3 DEF Turn, Turns

LEMMA ListTurns ==
  ASSUME NEW r, Ready(r), Pc(r) \in {"reading", "found"}, NEW items,
         findMany(r, "listed", items), Quiet,
         \/ Kind(r) \in OncePerAccount /\ items = Existing(Kind(r), Call(r).as, Of(Call(r)))
         \/ Kind(r) = "nothing" /\ items \subseteq DOMAIN rows
  PROVE  Turns(r)
  <1>1. PICK g : Turned(r, g) /\ g.pc = "listed" /\ g.found.items = items
    BY AwaitTurns DEF Ready, findMany
  <1>2. Lists(r, g)
    BY <1>1 DEF Lists, findMany, Quiet
  <1>3. QED
    BY <1>1, <1>2 DEF Turn, Turns

LEMMA CreateTurns ==
  ASSUME NEW r, Ready(r), NEW kind, NEW of, NEW value \in Values, Create(r, "created", kind, of, value),
         kind = Kind(r), of = Of(Call(r)), Quiet,
         \/ Pc(r) = "reading" /\ Kind(r) \in {"post", "community", "event"}
         \/ Pc(r) = "found" /\ IsFound(r) /\ Kind(r) = "reaction"
         \/ /\ Pc(r) = "listed" /\ ~IsFound(r) /\ Kind(r) \in OncePerAccount
            /\ Kind(r) = "rsvp" => value = Call(r).body
  PROVE  Turns(r)
  <1>1. PICK table, items : items = {Len(rows) + 1} /\ Await(r, "created", items, table)
    BY DEF Create
  <1>2. PICK g : Turned(r, g) /\ g.pc = "created" /\ g.found.items = items
    BY <1>1, AwaitTurns DEF Ready
  <1>3. Writes(r, g, value)
    BY <1>1, <1>2 DEF Writes, Create, Quiet
  <1>4. QED
    BY <1>2, <1>3 DEF Turn, Turns

LEMMA PublishTurns ==
  ASSUME NEW r, Ready(r), NEW type \in EventTypes, Pc(r) = "created", publish(r, type),
         Announces[Kind(r)] = {type}
  PROVE  Turns(r)
  <1>1. PICK g : Turned(r, g) /\ g.pc = "published" /\ g.found = requests[r].found
    BY GotoTurns DEF Ready, publish
  <1>2. Tells(r, g, type)
    BY <1>1 DEF Tells, publish
  <1>3. QED
    BY <1>1, <1>2 DEF Turn, Turns

LEMMA EnsureTurns ==
  ASSUME NEW r, Ready(r), Kind(r) = "profile", Goto(r, "ensured"), Nothing,
         Pc(r) = "published" \/ (Pc(r) = "listed" /\ IsFound(r))
  PROVE  Turns(r)
  <1>1. PICK g : Turned(r, g) /\ g.pc = "ensured" /\ g.found = requests[r].found
    BY GotoTurns DEF Ready
  <1>2. Settles(r, g)
    BY <1>1 DEF Settles, Nothing, Quiet
  <1>3. QED
    BY <1>1, <1>2 DEF Turn, Turns

LEMMA UpdateTurns ==
  ASSUME NEW r, Ready(r), Update(r, "updated", Item(r), Call(r).body), Quiet,
         \/ Pc(r) = "ensured" /\ Kind(r) = "profile"
         \/ Pc(r) = "listed" /\ IsFound(r) /\ Kind(r) = "rsvp"
  PROVE  Turns(r)
  <1>1. PICK table, items : items = {Item(r)} /\ Await(r, "updated", items, table)
    BY DEF Update
  <1>2. PICK g : Turned(r, g) /\ g.pc = "updated" /\ g.found.items = items
    BY <1>1, AwaitTurns DEF Ready
  <1>3. Patches(r, g)
    BY <1>1, <1>2 DEF Patches, Update, Quiet
  <1>4. QED
    BY <1>2, <1>3 DEF Turn, Turns

LEMMA ReplyTurns ==
  ASSUME NEW r, Ready(r), NEW status \in {200, 201}, NEW wire, writeJson(r, status, "none", wire), Nothing,
         wire = requests[r].found \/ Kind(r) = "nothing",
         \/ Kind(r) = "nothing" /\ Pc(r) \in {"reading", "listed", "found"}
         \/ Kind(r) = "profile" /\ Pc(r) \in {"ensured", "updated"}
         \/ Kind(r) \in {"community", "event"} /\ Pc(r) = "created"
         \/ Kind(r) \in {"post", "membership", "rsvp"} /\ Pc(r) = "published"
         \/ Kind(r) = "membership" /\ Pc(r) = "listed" /\ IsFound(r)
         \/ Kind(r) = "rsvp" /\ Pc(r) = "updated"
         \/ Kind(r) = "reaction" /\ Pc(r) = "notified"
  PROVE  Turns(r)
  <1>1. PICK code : code = "none"
    OBVIOUS
  <1>2. PICK g : /\ Turned(r, g) /\ g.pc = "answered" /\ g.answer.status = status
                 /\ g.answer.code = code /\ g.answer.items = wire.items
    BY <1>1, JsonTurns DEF Ready
  <1>3. Replies(r, g)
    BY <1>1, <1>2 DEF Replies, Nothing, Quiet
  <1>4. QED
    BY <1>2, <1>3 DEF Turn, Turns

\* One lemma for each kind of handler: every disjunct of it is a turn.
LEMMA RefuseTurns ==
  ASSUME NEW r, Ready(r), Refuse(r) PROVE Turns(r)
  <1>1. PICK code \in DOMAIN statusForError :
          /\ writeError(r, code) /\ code \in {"VALIDATION", Handler(Call(r).op)}
    BY DEF Refuse, statusForError
  <1>2. QED
    BY <1>1, FailTurns DEF Refuse, At, Pc, Call

LEMMA BodyTurns ==
  ASSUME NEW r, Ready(r), NEW h,
         EnterInvalid(r, h) \/ FoundNothing(r, h) \/ FoundInvalid(r, h)
  PROVE  Turns(r)
  <1>1. "VALIDATION" \in DOMAIN statusForError /\ "NOT_FOUND" \in DOMAIN statusForError
    BY DEF statusForError
  <1>2. CASE EnterInvalid(r, h)
    <2>1. writeError(r, "VALIDATION") /\ Nothing /\ Pc(r) = "reading"
      BY <1>2 DEF EnterInvalid, Enter, In, At, Pc
    <2>2. QED
      BY <1>1, <2>1, FailTurns
  <1>3. CASE FoundNothing(r, h)
    <2>1. writeError(r, "NOT_FOUND") /\ Nothing /\ Pc(r) = "found" /\ ~IsFound(r)
      BY <1>3 DEF FoundNothing, In, At, Pc
    <2>2. QED
      BY <1>1, <2>1, FailTurns
  <1>4. CASE FoundInvalid(r, h)
    <2>1. writeError(r, "VALIDATION") /\ Nothing /\ Pc(r) = "found"
      BY <1>4 DEF FoundInvalid, In, At, Pc
    <2>2. QED
      BY <1>1, <2>1, FailTurns
  <1>5. QED
    BY <1>2, <1>3, <1>4

LEMMA ReadTurns ==
  ASSUME NEW r, Ready(r),
         listPosts(r) \/ listCommunities(r) \/ listEvents(r) \/ listMyNotifications(r)
  PROVE  Turns(r)
  <1>1. \A h \in {"listPosts", "listCommunities", "listEvents", "listMyNotifications"} :
          Handler(Call(r).op) = h => Kind(r) = "nothing"
    BY HandledFor DEF Ready, Kind
  <1>2. ASSUME NEW h \in {"listPosts", "listCommunities", "listEvents"}, NEW kind,
               EnterValid(r, h), findMany(r, "listed", All(kind)), Quiet
        PROVE  Turns(r)
    <2>1. Kind(r) = "nothing" /\ Pc(r) = "reading"
      BY <1>1, <1>2 DEF EnterValid, Enter, In, At, Pc, Call
    <2>2. All(kind) \subseteq DOMAIN rows
      BY DEF All
    <2>3. QED
      BY <1>2, <2>1, <2>2, ListTurns
  <1>3. ASSUME NEW h \in {"listPosts", "listCommunities", "listEvents"}, Answers(r, h, "listed", 200)
        PROVE  Turns(r)
    <2>1. Kind(r) = "nothing" /\ Pc(r) = "listed"
      BY <1>1, <1>3 DEF Answers, In, At, Pc, Call
    <2>2. writeJson(r, 200, "none", requests[r].found) /\ Nothing
      BY <1>3 DEF Answers, Reply
    <2>3. QED
      BY <2>1, <2>2, ReplyTurns
  <1>4. ASSUME listMyNotifications(r), ~EnterInvalid(r, "listMyNotifications")
        PROVE  Turns(r)
    <2>1. Kind(r) = "nothing" /\ Pc(r) = "reading"
      BY <1>1, <1>4 DEF listMyNotifications, EnterValid, Enter, In, At, Pc, Call
    <2>2. PICK wire : writeJson(r, 200, "none", wire) /\ Nothing
      BY <1>4 DEF listMyNotifications
    <2>3. QED
      BY <2>1, <2>2, ReplyTurns
  <1>5. QED
    BY <1>2, <1>3, <1>4, BodyTurns DEF listPosts, listCommunities, listEvents, listMyNotifications

LEMMA GetTurns ==
  ASSUME NEW r, Ready(r), getProfile(r) \/ getPost(r)
  PROVE  Turns(r)
  <1>1. PICK h \in {"getProfile", "getPost"}, kind \in {"profile", "post"} :
          /\ h = "getProfile" <=> kind = "profile"
          /\ \/ Enter(r, h) /\ findById(r, "found", kind) /\ Quiet
             \/ FoundNothing(r, h) \/ (Answers(r, h, "found", 200) /\ IsFound(r))
    BY DEF getProfile, getPost
  <1>2. Handler(Call(r).op) = h => Kind(r) = "nothing" /\ Names[Call(r).op] = kind
    BY <1>1, HandledFor DEF Ready, Kind
  <1>3. CASE Enter(r, h) /\ findById(r, "found", kind) /\ Quiet
    <2>1. Pc(r) = "reading" /\ Names[Call(r).op] = kind
      BY <1>2, <1>3 DEF Enter, In, At, Pc, Call
    <2>2. QED
      BY <1>3, <2>1, FindTurns
  <1>4. CASE Answers(r, h, "found", 200) /\ IsFound(r)
    <2>1. Kind(r) = "nothing" /\ Pc(r) = "found"
      BY <1>2, <1>4 DEF Answers, In, At, Pc, Call
    <2>2. writeJson(r, 200, "none", requests[r].found) /\ Nothing
      BY <1>4 DEF Answers, Reply
    <2>3. QED
      BY <2>1, <2>2, ReplyTurns
  <1>5. QED
    BY <1>1, <1>3, <1>4, BodyTurns

\* Reply, from where the handler ends, with what it found.
LEMMA EndTurns ==
  ASSUME NEW r, Ready(r), NEW h, NEW pc, NEW status \in {200, 201}, Answers(r, h, pc, status),
         \/ Kind(r) = "profile" /\ Pc(r) \in {"ensured", "updated"}
         \/ Kind(r) \in {"community", "event"} /\ Pc(r) = "created"
         \/ Kind(r) \in {"post", "membership", "rsvp"} /\ Pc(r) = "published"
         \/ Kind(r) = "membership" /\ Pc(r) = "listed" /\ IsFound(r)
         \/ Kind(r) = "rsvp" /\ Pc(r) = "updated"
         \/ Kind(r) = "reaction" /\ Pc(r) = "notified"
  PROVE  Turns(r)
  <1>1. PICK wire : wire = requests[r].found /\ writeJson(r, status, "none", wire) /\ Nothing
    BY DEF Answers, Reply
  <1>2. QED
    BY <1>1, ReplyTurns

LEMMA ProfileTurns ==
  ASSUME NEW r, Ready(r), getMyProfile(r) \/ putMyProfile(r)
  PROVE  Turns(r)
  <1>1. PICK h \in {"getMyProfile", "putMyProfile"} :
          \/ EnterInvalid(r, h) \/ ensureProfile(r, h) \/ Answers(r, h, "ensured", 200)
          \/ In(r, h, "ensured") /\ Update(r, "updated", Item(r), Call(r).body) /\ Quiet
          \/ Answers(r, h, "updated", 200)
    BY DEF getMyProfile, putMyProfile
  <1>2. Handler(Call(r).op) = h => Kind(r) = "profile" /\ Of(Call(r)) = 0
    BY <1>1, HandledFor DEF Ready, Kind, Of
  <1>3. \A pc : In(r, h, pc) => Pc(r) = pc /\ Kind(r) = "profile" /\ Of(Call(r)) = 0
    BY <1>2 DEF In, At, Pc, Call
  <1>4. ASSUME ensureProfile(r, h) PROVE Turns(r)
    <2>1. CASE EnterValid(r, h) /\ findMany(r, "listed", Existing("profile", Call(r).as, 0)) /\ Quiet
      <3>1. Pc(r) = "reading" /\ Kind(r) = "profile" /\ Of(Call(r)) = 0
        BY <1>3, <2>1 DEF EnterValid, Enter
      <3>2. Kind(r) \in OncePerAccount
        BY <3>1 DEF OncePerAccount
      <3>3. QED
        BY <2>1, <3>1, <3>2, ListTurns
    <2>2. CASE /\ In(r, h, "listed") /\ ~IsFound(r)
               /\ Create(r, "created", "profile", 0, "default") /\ Quiet
      <3>1. Kind(r) \in OncePerAccount /\ "default" \in Values /\ Kind(r) # "rsvp"
        BY <1>3, <2>2 DEF OncePerAccount, Values
      <3>2. QED
        BY <1>3, <2>2, <3>1, CreateTurns
    <2>3. CASE In(r, h, "created") /\ publish(r, "identity.profile_created")
      <3>1. Announces[Kind(r)] = {"identity.profile_created"} /\ "identity.profile_created" \in EventTypes
        BY <1>3, <2>3 DEF EventTypes, Announces
      <3>2. QED
        BY <1>3, <2>3, <3>1, PublishTurns
    <2>4. CASE \/ In(r, h, "listed") /\ IsFound(r) /\ Goto(r, "ensured") /\ Nothing
               \/ In(r, h, "published") /\ Goto(r, "ensured") /\ Nothing
      BY <1>3, <2>4, EnsureTurns
    <2>5. QED
      BY <1>4, <2>1, <2>2, <2>3, <2>4 DEF ensureProfile
  <1>5. CASE In(r, h, "ensured") /\ Update(r, "updated", Item(r), Call(r).body) /\ Quiet
    BY <1>3, <1>5, UpdateTurns
  <1>6. CASE Answers(r, h, "ensured", 200) \/ Answers(r, h, "updated", 200)
    BY <1>3, <1>6, EndTurns DEF Answers
  <1>7. QED
    BY <1>1, <1>4, <1>5, <1>6, BodyTurns

LEMMA CreatingTurns ==
  ASSUME NEW r, Ready(r), createPost(r) \/ createCommunity(r) \/ createEvent(r)
  PROVE  Turns(r)
  <1>1. PICK h \in {"createPost", "createCommunity", "createEvent"}, kind \in {"post", "community", "event"} :
          /\ kind = CASE h = "createPost" -> "post" [] h = "createCommunity" -> "community" [] OTHER -> "event"
          /\ \/ EnterInvalid(r, h)
             \/ EnterValid(r, h) /\ Create(r, "created", kind, 0, Call(r).body) /\ Quiet
             \/ In(r, h, "created") /\ kind = "post" /\ publish(r, "content.post_published")
             \/ Answers(r, h, "published", 201) /\ kind = "post"
             \/ Answers(r, h, "created", 201) /\ kind # "post"
    BY DEF createPost, createCommunity, createEvent
  <1>2. Handler(Call(r).op) = h => Kind(r) = kind /\ Of(Call(r)) = 0
    BY <1>1, HandledFor DEF Ready, Kind, Of
  <1>3. \A pc : In(r, h, pc) => Pc(r) = pc /\ Kind(r) = kind /\ Of(Call(r)) = 0
    BY <1>2 DEF In, At, Pc, Call
  <1>4. CASE EnterValid(r, h) /\ Create(r, "created", kind, 0, Call(r).body) /\ Quiet
    <2>1. Pc(r) = "reading" /\ Kind(r) = kind /\ Of(Call(r)) = 0 /\ Call(r).body \in Values
      BY <1>3, <1>4 DEF EnterValid, Enter, Ready
    <2>2. QED
      BY <1>1, <1>4, <2>1, CreateTurns
  <1>5. CASE In(r, h, "created") /\ kind = "post" /\ publish(r, "content.post_published")
    <2>1. Announces[Kind(r)] = {"content.post_published"} /\ "content.post_published" \in EventTypes
      BY <1>3, <1>5 DEF EventTypes, Announces
    <2>2. QED
      BY <1>3, <1>5, <2>1, PublishTurns
  <1>6. CASE \/ Answers(r, h, "published", 201) /\ kind = "post"
             \/ Answers(r, h, "created", 201) /\ kind # "post"
    <2>1. PICK pc : Answers(r, h, pc, 201) /\ Pc(r) = pc /\ Kind(r) = kind
                    /\ pc = IF kind = "post" THEN "published" ELSE "created"
      BY <1>3, <1>6 DEF Answers
    <2>2. QED
      BY <1>1, <2>1, EndTurns
  <1>7. QED
    BY <1>1, <1>4, <1>5, <1>6, BodyTurns

LEMMA ReactionTurns ==
  ASSUME NEW r, Ready(r), addReaction(r)
  PROVE  Turns(r)
  <1>1. Handler(Call(r).op) = "addReaction" =>
          Kind(r) = "reaction" /\ Names[Call(r).op] = "post" /\ Of(Call(r)) = Call(r).target
    BY HandledFor DEF Ready, Kind, Of
  <1>2. \A pc : In(r, "addReaction", pc) =>
          /\ Pc(r) = pc /\ Kind(r) = "reaction" /\ Names[Call(r).op] = "post"
          /\ Of(Call(r)) = Call(r).target
    BY <1>1 DEF In, At, Pc, Call
  <1>3. CASE Enter(r, "addReaction") /\ findById(r, "found", "post") /\ Quiet
    <2>1. Pc(r) = "reading" /\ Names[Call(r).op] = "post"
      BY <1>2, <1>3 DEF Enter
    <2>2. QED
      BY <1>3, <2>1, FindTurns
  <1>4. CASE /\ FoundValid(r, "addReaction")
             /\ Create(r, "created", "reaction", Call(r).target, Call(r).body) /\ Quiet
    <2>1. /\ Pc(r) = "found" /\ Kind(r) = "reaction" /\ Of(Call(r)) = Call(r).target /\ IsFound(r)
          /\ Call(r).body \in Values
      BY <1>2, <1>4 DEF FoundValid, Ready
    <2>2. QED
      BY <1>4, <2>1, CreateTurns
  <1>5. CASE In(r, "addReaction", "created") /\ publish(r, "notification.requested")
    <2>1. Announces[Kind(r)] = {"notification.requested"} /\ "notification.requested" \in EventTypes
      BY <1>2, <1>5 DEF EventTypes, Announces
    <2>2. QED
      BY <1>2, <1>5, <2>1, PublishTurns
  <1>6. CASE /\ In(r, "addReaction", "published") /\ Goto(r, "notified")
             /\ inbox' = [inbox EXCEPT ![rows[Call(r).target].by] = Append(@, Item(r))]
             /\ UNCHANGED <<rows, announced>>
    <2>1. PICK g : Turned(r, g) /\ g.pc = "notified" /\ g.found = requests[r].found
      BY <1>6, GotoTurns DEF Ready
    <2>2. Notifies(r, g)
      BY <1>2, <1>6, <2>1 DEF Notifies
    <2>3. QED
      BY <2>1, <2>2 DEF Turn, Turns
  <1>7. CASE Answers(r, "addReaction", "notified", 201)
    BY <1>2, <1>7, EndTurns DEF Answers
  <1>8. QED
    BY <1>3, <1>4, <1>5, <1>6, <1>7, BodyTurns DEF addReaction

LEMMA JoinTurns ==
  ASSUME NEW r, Ready(r), joinCommunity(r)
  PROVE  Turns(r)
  <1>1. Handler(Call(r).op) = "joinCommunity" =>
          Kind(r) = "membership" /\ Names[Call(r).op] = "community" /\ Of(Call(r)) = Call(r).target
    BY HandledFor DEF Ready, Kind, Of
  <1>2. \A pc : In(r, "joinCommunity", pc) =>
          /\ Pc(r) = pc /\ Kind(r) = "membership" /\ Names[Call(r).op] = "community"
          /\ Of(Call(r)) = Call(r).target /\ Kind(r) \in OncePerAccount
    BY <1>1 DEF In, At, Pc, Call, OncePerAccount
  <1>3. CASE Enter(r, "joinCommunity") /\ findById(r, "found", "community") /\ Quiet
    <2>1. Pc(r) = "reading" /\ Names[Call(r).op] = "community"
      BY <1>2, <1>3 DEF Enter
    <2>2. QED
      BY <1>3, <2>1, FindTurns
  <1>4. CASE /\ FoundValid(r, "joinCommunity")
             /\ findMany(r, "listed", Existing("membership", Call(r).as, Call(r).target)) /\ Quiet
    <2>1. /\ Pc(r) = "found" /\ Kind(r) = "membership" /\ Of(Call(r)) = Call(r).target
          /\ Kind(r) \in OncePerAccount
      BY <1>2, <1>4 DEF FoundValid
    <2>2. QED
      BY <1>4, <2>1, ListTurns
  <1>5. CASE /\ In(r, "joinCommunity", "listed") /\ ~IsFound(r)
             /\ Create(r, "created", "membership", Call(r).target, "member") /\ Quiet
    <2>1. "member" \in Values
      BY DEF Values
    <2>2. QED
      BY <1>2, <1>5, <2>1, CreateTurns
  <1>6. CASE In(r, "joinCommunity", "created") /\ publish(r, "community.member_joined")
    <2>1. Announces[Kind(r)] = {"community.member_joined"} /\ "community.member_joined" \in EventTypes
      BY <1>2, <1>6 DEF EventTypes, Announces
    <2>2. QED
      BY <1>2, <1>6, <2>1, PublishTurns
  <1>7. CASE \/ Answers(r, "joinCommunity", "listed", 200) /\ IsFound(r)
             \/ Answers(r, "joinCommunity", "published", 201)
    BY <1>2, <1>7, EndTurns DEF Answers
  <1>8. QED
    BY <1>3, <1>4, <1>5, <1>6, <1>7, BodyTurns DEF joinCommunity

LEMMA RsvpTurns ==
  ASSUME NEW r, Ready(r), rsvpEvent(r)
  PROVE  Turns(r)
  <1>1. Handler(Call(r).op) = "rsvpEvent" =>
          Kind(r) = "rsvp" /\ Names[Call(r).op] = "event" /\ Of(Call(r)) = Call(r).target
    BY HandledFor DEF Ready, Kind, Of
  <1>2. \A pc : In(r, "rsvpEvent", pc) =>
          /\ Pc(r) = pc /\ Kind(r) = "rsvp" /\ Names[Call(r).op] = "event"
          /\ Of(Call(r)) = Call(r).target /\ Kind(r) \in OncePerAccount
    BY <1>1 DEF In, At, Pc, Call, OncePerAccount
  <1>3. CASE Enter(r, "rsvpEvent") /\ findById(r, "found", "event") /\ Quiet
    <2>1. Pc(r) = "reading" /\ Names[Call(r).op] = "event"
      BY <1>2, <1>3 DEF Enter
    <2>2. QED
      BY <1>3, <2>1, FindTurns
  <1>4. CASE /\ FoundValid(r, "rsvpEvent")
             /\ findMany(r, "listed", Existing("rsvp", Call(r).as, Call(r).target)) /\ Quiet
    <2>1. /\ Pc(r) = "found" /\ Kind(r) = "rsvp" /\ Of(Call(r)) = Call(r).target
          /\ Kind(r) \in OncePerAccount
      BY <1>2, <1>4 DEF FoundValid
    <2>2. QED
      BY <1>4, <2>1, ListTurns
  <1>5. CASE /\ In(r, "rsvpEvent", "listed") /\ IsFound(r)
             /\ Update(r, "updated", Item(r), Call(r).body) /\ Quiet
    BY <1>2, <1>5, UpdateTurns
  <1>6. CASE /\ In(r, "rsvpEvent", "listed") /\ ~IsFound(r)
             /\ Create(r, "created", "rsvp", Call(r).target, Call(r).body) /\ Quiet
    <2>1. Call(r).body \in Values
      BY DEF Ready
    <2>2. QED
      BY <1>2, <1>6, <2>1, CreateTurns
  <1>7. CASE In(r, "rsvpEvent", "created") /\ publish(r, "event.rsvp_confirmed")
    <2>1. Announces[Kind(r)] = {"event.rsvp_confirmed"} /\ "event.rsvp_confirmed" \in EventTypes
      BY <1>2, <1>7 DEF EventTypes, Announces
    <2>2. QED
      BY <1>2, <1>7, <2>1, PublishTurns
  <1>8. CASE Answers(r, "rsvpEvent", "updated", 200) \/ Answers(r, "rsvpEvent", "published", 201)
    BY <1>2, <1>8, EndTurns DEF Answers
  <1>9. QED
    BY <1>3, <1>4, <1>5, <1>6, <1>7, <1>8, BodyTurns DEF rsvpEvent

-----------------------------------------------------------------------------
(* The invariant of a server: what is stored, and how far each request is     *)

Kinds == {"profile", "post", "reaction", "community", "membership", "event", "rsvp"}
         \cup {FirstRows[i].kind : i \in DOMAIN FirstRows}
Row == [kind : Kinds, by : Everyone, of : Nat, value : Values, request : Nat]
Announcement == [type : EventTypes, row : Nat]

RowsInv ==
  /\ rows \in Seq(Row) /\ DOMAIN FirstRows \subseteq DOMAIN rows
  /\ \A i \in DOMAIN rows : /\ rows[i].by \in DOMAIN inbox
                            /\ i \in DOMAIN FirstRows \/ rows[i].request \in DOMAIN requests

EventsInv ==
  /\ announced \in Seq(Announcement) /\ inbox \in [DOMAIN inbox -> Seq(Nat)]
  /\ \A k \in DOMAIN announced : announced[k].row \in DOMAIN rows
  /\ \A a \in DOMAIN inbox : \A k \in DOMAIN inbox[a] : inbox[a][k] \in DOMAIN rows

Pcs == {"reading", "found", "listed", "created", "published", "ensured", "updated", "notified", "answered"}

CallFits(r) ==
  /\ Call(r).op \in Op /\ Call(r).as \in Everyone \cap DOMAIN inbox
  /\ Call(r).target \in Nat /\ Call(r).body \in Values
  /\ Call(r).op = "rsvpEvent" => Call(r).body # "none"
  /\ Pc(r) # "unsent" =>
       /\ Carried(requests[r]) /\ Pc(r) \in Pcs
       /\ requests[r].after \subseteq {q \in DOMAIN requests : Pc(q) = "answered"}
       /\ requests[r].known \in Nat /\ requests[r].known <= Len(rows)

CallsInv ==
  /\ requests = [r \in DOMAIN requests |-> requests[r]] /\ 0 \notin DOMAIN requests
  /\ DOMAIN requests \subseteq Nat
  /\ \A r \in DOMAIN requests : CallFits(r)

Own(r) == {i \in DOMAIN rows : rows[i].request = r}

\* A row as the call of r is to make or to find one.
Mine(r, i) ==
  /\ i \in DOMAIN rows /\ rows[i].kind = Kind(r) /\ rows[i].by = Call(r).as
  /\ rows[i].of = Of(Call(r))

\* What the call names was not there when it was made.
Missing(r) ==
  ~(/\ Call(r).target \in 1 .. requests[r].known
    /\ rows[Call(r).target].kind = Names[Call(r).op])

Items(r) == requests[r].found.items
Code(r)  == requests[r].answer.code

\* What a request has found and made, by where it is.
Place(r) ==
  /\ \A i \in Own(r) : Mine(r, i) /\ (Kind(r) = "reaction" => Call(r).target \in DOMAIN rows)
  /\ Pc(r) \in {"unsent", "reading", "found", "listed"} => Own(r) = {}
  /\ Pc(r) = "found" => Items(r) \subseteq DOMAIN rows \cap {Call(r).target} /\ (Items(r) = {} => Missing(r))
  /\ Pc(r) = "listed" /\ Kind(r) \in OncePerAccount /\ Items(r) # {} => \E i : Items(r) = {i} /\ Mine(r, i)
  /\ Pc(r) \in {"created", "published", "notified"} => \E i : Items(r) = {i} /\ Own(r) = {i}
  /\ Pc(r) \in {"ensured", "updated"} => \E i : Items(r) = {i} /\ Mine(r, i) /\ Own(r) \subseteq {i}
  /\ Pc(r) = "answered" /\ Code(r) = "none" =>
       \/ Kind(r) = "nothing" /\ Own(r) = {}
       \/ \E i \in requests[r].answer.items : Mine(r, i) /\ Own(r) \subseteq {i}
  /\ Pc(r) = "answered" /\ Code(r) # "none" => Own(r) = {}

\* The answer says so.
Answered(r) ==
  \/ Code(r) = "none" /\ requests[r].answer.status \in {200, 201}
  \/ /\ Code(r) \in DOMAIN statusForError /\ requests[r].answer.status = statusForError[Code(r)]
     /\ Code(r) = "NOT_FOUND" => Handler(Call(r).op) = "NOT_FOUND" \/ Missing(r)

\* Whom a row of r has been announced to.
Outreach(r) ==
  /\ Pc(r) = "ensured" => Kind(r) = "profile"
  /\ Pc(r) = "updated" => Kind(r) \in {"profile", "rsvp"}
  /\ \A i \in Own(r) :
       /\ Pc(r) = "created" => Announcements(i) = {}
       /\ Pc(r) # "created" =>
            /\ {announced[k].type : k \in Announcements(i)} = Announces[Kind(r)]
            /\ Announcements(i) = {} \/ \E k : Announcements(i) = {k}
       /\ Kind(r) = "reaction" /\ Pc(r) \in {"created", "published"} => Told(i) = {}
       /\ Kind(r) = "reaction" /\ Pc(r) \in {"notified", "answered"} => \E k : Told(i) = {k}

PlacesInv == \A r \in DOMAIN requests :
  Place(r) /\ Outreach(r) /\ (Pc(r) = "answered" => Answered(r))

ServerInv == RowsInv /\ EventsInv /\ CallsInv /\ PlacesInv

-----------------------------------------------------------------------------
(* What a turn changes                                                      *)

LEMMA TurnedFields ==
  ASSUME CallsInv, NEW r \in DOMAIN requests, NEW g, Turned(r, g)
  PROVE  /\ requests' = [q \in DOMAIN requests' |-> requests'[q]] /\ DOMAIN requests' = DOMAIN requests
         /\ requests'[r] = g /\ \A q \in DOMAIN requests : q # r => requests'[q] = requests[q]
         /\ Carried(g) /\ g.call = Call(r) /\ g.after = requests[r].after /\ g.known = requests[r].known
         /\ \A q \in DOMAIN requests :
              /\ Call(q)' = Call(q) /\ Kind(q)' = Kind(q)
              /\ requests'[q].after = requests[q].after /\ requests'[q].known = requests[q].known
              /\ q # r => Pc(q)' = Pc(q) /\ Items(q)' = Items(q) /\ Code(q)' = Code(q)
                          /\ requests'[q].answer = requests[q].answer
         /\ Pc(r)' = g.pc /\ Items(r)' = g.found.items /\ Code(r)' = g.answer.code
  <1>1. /\ requests' = [q \in DOMAIN requests' |-> requests'[q]] /\ DOMAIN requests' = DOMAIN requests
        /\ requests'[r] = g /\ \A q \in DOMAIN requests : q # r => requests'[q] = requests[q]
    BY DEF Turned, Becomes, CallsInv
  <1>2. Carried(g) /\ g.call = Call(r) /\ g.after = requests[r].after /\ g.known = requests[r].known
    BY DEF Turned, Carried
  <1>3. \A q \in DOMAIN requests :
          /\ Call(q)' = Call(q) /\ Kind(q)' = Kind(q)
          /\ requests'[q].after = requests[q].after /\ requests'[q].known = requests[q].known
    BY <1>1, <1>2 DEF Call, Kind
  <1>4. \A q \in DOMAIN requests : q # r =>
          /\ Pc(q)' = Pc(q) /\ Items(q)' = Items(q) /\ Code(q)' = Code(q)
          /\ requests'[q].answer = requests[q].answer
    BY <1>1 DEF Pc, Items, Code
  <1>5. Pc(r)' = g.pc /\ Items(r)' = g.found.items /\ Code(r)' = g.answer.code
    BY <1>1 DEF Pc, Items, Code
  <1>6. QED
    BY <1>1, <1>2, <1>3, <1>4, <1>5

\* Rows stay, but for what an update gives them.
Grown ==
  /\ rows' \in Seq(Row) /\ DOMAIN rows \subseteq DOMAIN rows' /\ Len(rows) <= Len(rows')
  /\ Len(rows) \in Nat /\ DOMAIN rows = 1 .. Len(rows)
  /\ \A i \in DOMAIN rows :
       /\ rows'[i].kind = rows[i].kind /\ rows'[i].by = rows[i].by /\ rows'[i].of = rows[i].of
       /\ rows'[i].request = rows[i].request

LEMMA SameRows == ASSUME RowsInv, rows' = rows PROVE Grown
  BY LenProperties DEF RowsInv, Grown

LEMMA WrittenRows ==
  ASSUME RowsInv, CallsInv, NEW r \in DOMAIN requests, NEW g, NEW value \in Values, Writes(r, g, value)
  PROVE  LET n == Len(rows) + 1
         IN /\ Grown /\ n \notin DOMAIN rows /\ DOMAIN rows' = DOMAIN rows \cup {n}
            /\ \A i \in DOMAIN rows : rows'[i] = rows[i]
            /\ rows'[n].kind = Kind(r) /\ rows'[n].by = Call(r).as /\ rows'[n].of = Of(Call(r))
            /\ rows'[n].value = value /\ rows'[n].request = r
  <1>1. PICK row : row = [kind |-> Kind(r), by |-> Call(r).as, of |-> Of(Call(r)), value |-> value, request |-> r]
    OBVIOUS
  <1>2. Kind(r) \in Kinds
    <2>1. Kind(r) \in {"post", "community", "event", "reaction", "profile", "membership", "rsvp"}
      BY DEF Writes, OncePerAccount
    <2>2. QED
      BY <2>1 DEF Kinds
  <1>3. Of(Call(r)) \in Nat
    BY DEF Of, CallsInv, CallFits
  <1>4. row \in Row
    BY <1>1, <1>2, <1>3 DEF Row, CallsInv, CallFits
  <1>5. rows \in Seq(Row) /\ rows' = Append(rows, row)
    BY <1>1 DEF RowsInv, Writes
  <1>6. /\ rows' \in Seq(Row) /\ Len(rows') = Len(rows) + 1 /\ rows'[Len(rows) + 1] = row
        /\ \A i \in 1 .. Len(rows) : rows'[i] = rows[i]
        /\ DOMAIN rows = 1 .. Len(rows) /\ DOMAIN rows' = 1 .. Len(rows') /\ Len(rows) \in Nat
    BY <1>4, <1>5, AppendProperties, LenProperties
  <1>7. QED
    BY <1>1, <1>6 DEF Grown

LEMMA PatchedRows ==
  ASSUME RowsInv, CallsInv, NEW r \in DOMAIN requests, NEW g, Patches(r, g), Item(r) \in DOMAIN rows
  PROVE  /\ Grown /\ DOMAIN rows' = DOMAIN rows
         /\ \A i \in DOMAIN rows : i # Item(r) => rows'[i] = rows[i]
         /\ Call(r).body # "none" => rows'[Item(r)].value = Call(r).body
  <1>1. PICK item \in DOMAIN rows : item = Item(r)
    OBVIOUS
  <1>2. PICK value : value = IF Call(r).body = "none" THEN rows[item].value ELSE Call(r).body
    OBVIOUS
  <1>3. rows \in Seq(Row) /\ Len(rows) \in Nat /\ DOMAIN rows = 1 .. Len(rows) /\ rows[item] \in Row
    BY LenProperties, ElementOfSeq DEF RowsInv
  <1>4. value \in Values
    BY <1>2, <1>3 DEF Row, CallsInv, CallFits
  <1>5. rows' = [rows EXCEPT ![item].value = value]
    BY <1>1, <1>2 DEF Patches
  <1>6. PICK row : row = [rows[item] EXCEPT !.value = value]
    OBVIOUS
  <1>7. /\ row \in Row /\ row.kind = rows[item].kind /\ row.by = rows[item].by
        /\ row.of = rows[item].of /\ row.request = rows[item].request /\ row.value = value
    BY <1>3, <1>4, <1>6 DEF Row
  <1>8. rows' = [rows EXCEPT ![item] = row]
    BY <1>5, <1>6
  <1>9. /\ rows' \in Seq(Row) /\ DOMAIN rows' = DOMAIN rows /\ rows'[item] = row
        /\ Len(rows') = Len(rows) /\ \A i \in DOMAIN rows : i # item => rows'[i] = rows[i]
    BY <1>3, <1>7, <1>8, ExceptSeq
  <1>10. QED
    BY <1>1, <1>2, <1>3, <1>7, <1>9 DEF Grown

\* What a request has found, where it has found anything.
LEMMA ItemIs ==
  ASSUME NEW r, NEW i, Items(r) = {i}
  PROVE  Item(r) = i /\ IsFound(r)
  BY DEF Items, Item, IsFound

LEMMA ItemPlaced ==
  ASSUME NEW r \in DOMAIN requests, Place(r),
         \/ Pc(r) \in {"created", "published", "notified", "ensured", "updated"}
         \/ Pc(r) = "listed" /\ Kind(r) \in OncePerAccount /\ IsFound(r)
  PROVE  /\ Items(r) = {Item(r)} /\ Mine(r, Item(r)) /\ Own(r) \subseteq {Item(r)}
         /\ Pc(r) \in {"created", "published", "notified"} => Own(r) = {Item(r)}
  <1>1. Items(r) # {} <=> IsFound(r)
    BY DEF Items, IsFound
  <1>2. PICK i : Items(r) = {i} /\ Mine(r, i) /\ Own(r) \subseteq {i}
                 /\ (Pc(r) \in {"created", "published", "notified"} => Own(r) = {i})
    BY <1>1 DEF Place
  <1>3. QED
    BY <1>2, ItemIs

-----------------------------------------------------------------------------
(* What holds of every turn                                                 *)

LEMMA TurnUnderWay ==
  ASSUME NEW r, NEW g, Turn(r, g)
  PROVE  Pc(r) \in Pcs \ {"answered"} /\ g.pc \in Pcs
  BY DEF Turn, Fails, Finds, Lists, Writes, Tells, Settles, Patches, Notifies, Replies, Pcs

\* Every row stays what it is, new ones are of r, and only what r has made is told to others.
Kept(r) ==
  /\ Grown /\ \A i \in DOMAIN rows' \ DOMAIN rows : rows'[i].request = r
  /\ DOMAIN requests' = DOMAIN requests /\ DOMAIN inbox' = DOMAIN inbox
  /\ requests'[r].call = requests[r].call
  /\ \A q \in DOMAIN requests : q # r => requests'[q] = requests[q]
  /\ \A i \in DOMAIN rows : rows[i].request # r =>
       /\ Announcements(i)' = Announcements(i)
       /\ \A k \in Announcements(i) : announced'[k] = announced[k]
       /\ rows[i].of \in DOMAIN rows => Told(i)' = Told(i)

\* Nothing is told, and what is there stays where it is.
LEMMA QuietKeeps ==
  ASSUME Grown, announced' = announced, inbox' = inbox, NEW i \in DOMAIN rows
  PROVE  /\ Announcements(i)' = Announcements(i)
         /\ \A k \in Announcements(i) : announced'[k] = announced[k]
         /\ rows[i].of \in DOMAIN rows => Told(i)' = Told(i)
  BY DEF Grown, Announcements, Told

LEMMA TellsKeeps ==
  ASSUME EventsInv, NEW r, NEW g, NEW type \in EventTypes, Tells(r, g, type), RowsInv,
         NEW item \in DOMAIN rows, item = Item(r)
  PROVE  /\ EventsInv' /\ rows' = rows /\ inbox' = inbox
         /\ Announcements(item)' = Announcements(item) \cup {Len(announced) + 1}
         /\ Len(announced) + 1 \notin Announcements(item)
         /\ announced'[Len(announced) + 1].type = type
         /\ \A k \in DOMAIN announced : announced'[k] = announced[k]
         /\ \A i : i # item => Announcements(i)' = Announcements(i)
  <1>1. PICK event : event = [type |-> type, row |-> item]
    OBVIOUS
  <1>2. item \in Nat
    BY LenProperties DEF RowsInv
  <1>3. event \in Announcement /\ event.row = item /\ event.type = type
    BY <1>1, <1>2 DEF Announcement
  <1>4. announced \in Seq(Announcement) /\ announced' = Append(announced, event)
    BY <1>1 DEF EventsInv, Tells
  <1>5. /\ announced' \in Seq(Announcement) /\ Len(announced') = Len(announced) + 1
        /\ announced'[Len(announced) + 1] = event /\ Len(announced) \in Nat
        /\ \A k \in 1 .. Len(announced) : announced'[k] = announced[k]
        /\ DOMAIN announced = 1 .. Len(announced) /\ DOMAIN announced' = 1 .. Len(announced')
    BY <1>3, <1>4, AppendProperties, LenProperties
  <1>6. DOMAIN announced' = DOMAIN announced \cup {Len(announced) + 1} /\ Len(announced) + 1 \notin DOMAIN announced
    BY <1>5
  <1>7. /\ Announcements(item)' = Announcements(item) \cup {Len(announced) + 1}
        /\ Len(announced) + 1 \notin Announcements(item)
        /\ \A i : i # item => Announcements(i)' = Announcements(i)
    BY <1>3, <1>5, <1>6 DEF Announcements
  <1>8. rows' = rows /\ inbox' = inbox
    BY DEF Tells
  <1>9. EventsInv'
    BY <1>3, <1>5, <1>6, <1>8 DEF EventsInv
  <1>10. QED
    BY <1>3, <1>5, <1>7, <1>8, <1>9

LEMMA NotifiesKeeps ==
  ASSUME EventsInv, RowsInv, NEW r, NEW g, Notifies(r, g), NEW item \in DOMAIN rows,
         item = Item(r), Call(r).target \in DOMAIN rows, rows[item].of = Call(r).target
  PROVE  /\ EventsInv' /\ rows' = rows /\ announced' = announced /\ DOMAIN inbox' = DOMAIN inbox
         /\ Told(item) = {} => \E k : Told(item)' = {k}
         /\ \A i \in DOMAIN rows : i # item => Told(i)' = Told(i)
  <1>1. PICK author \in DOMAIN inbox : author = rows[Call(r).target].by
    BY DEF RowsInv
  <1>2. inbox[author] \in Seq(Nat) /\ item \in Nat
    BY LenProperties DEF EventsInv, RowsInv
  <1>3. PICK told \in Seq(Nat) : told = Append(inbox[author], item)
    BY <1>2, AppendProperties
  <1>4. /\ Len(told) = Len(inbox[author]) + 1 /\ told[Len(inbox[author]) + 1] = item
        /\ \A k \in 1 .. Len(inbox[author]) : told[k] = inbox[author][k]
        /\ DOMAIN inbox[author] = 1 .. Len(inbox[author]) /\ DOMAIN told = 1 .. Len(told)
        /\ Len(inbox[author]) \in Nat
    BY <1>2, <1>3, AppendProperties, LenProperties
  <1>5. inbox' = [inbox EXCEPT ![author] = told]
    BY <1>1, <1>3 DEF Notifies
  <1>6. rows' = rows /\ announced' = announced
    BY DEF Notifies
  <1>7. /\ DOMAIN inbox' = DOMAIN inbox /\ inbox'[author] = told
        /\ inbox' \in [DOMAIN inbox' -> Seq(Nat)]
        /\ \A a \in DOMAIN inbox : a # author => inbox'[a] = inbox[a]
    BY <1>5 DEF EventsInv
  <1>8. DOMAIN told = DOMAIN inbox[author] \cup {Len(told)} /\ Len(told) \notin DOMAIN inbox[author]
        /\ told[Len(told)] = item /\ \A k \in DOMAIN inbox[author] : told[k] = inbox[author][k]
    BY <1>4
  <1>9. EventsInv'
    BY <1>6, <1>7, <1>8 DEF EventsInv
  <1>10. Told(item) = {} => Told(item)' = {Len(told)}
    <2>1. rows[rows[item].of].by = author /\ rows'[rows'[item].of].by = author
      BY <1>1, <1>6
    <2>2. Told(item) = {k \in DOMAIN inbox[author] : inbox[author][k] = item}
      BY <2>1 DEF Told
    <2>3. Told(item)' = {k \in DOMAIN told : told[k] = item}
      BY <2>1, <1>7 DEF Told
    <2>4. QED
      BY <2>2, <2>3, <1>8
  <1>11. ASSUME NEW i \in DOMAIN rows, i # item PROVE Told(i)' = Told(i)
    <2>1. PICK reader : reader = rows[rows[i].of].by
      OBVIOUS
    <2>2. Told(i) = {k \in DOMAIN inbox[reader] : inbox[reader][k] = i}
      BY <2>1 DEF Told
    <2>3. Told(i)' = {k \in DOMAIN inbox'[reader] : inbox'[reader][k] = i}
      BY <2>1, <1>6 DEF Told
    <2>4. CASE reader = author
      <3>1. {k \in DOMAIN told : told[k] = i} = {k \in DOMAIN inbox[author] : inbox[author][k] = i}
        BY <1>8, <1>11
      <3>2. QED
        BY <2>2, <2>3, <2>4, <1>7, <3>1
    <2>5. CASE reader # author
      <3>1. inbox'[reader] = inbox[reader]
        BY <2>5, <1>5
      <3>2. QED
        BY <2>2, <2>3, <3>1
    <2>6. QED
      BY <2>4, <2>5
  <1>12. QED
    BY <1>6, <1>7, <1>9, <1>10, <1>11

\* Rows that only grow stay what they are to those who have them.
LEMMA RowsStay ==
  ASSUME RowsInv, CallsInv, Grown, DOMAIN requests' = DOMAIN requests, DOMAIN inbox' = DOMAIN inbox,
         \A i \in DOMAIN rows' \ DOMAIN rows :
           rows'[i].by \in DOMAIN inbox /\ rows'[i].request \in DOMAIN requests
  PROVE  RowsInv'
  BY DEF RowsInv, Grown

LEMMA EventsStay ==
  ASSUME EventsInv, Grown, announced' = announced, inbox' = inbox
  PROVE  EventsInv'
  BY DEF EventsInv, Grown

LEMMA CallsStay ==
  ASSUME RowsInv, CallsInv, Grown, NEW r \in DOMAIN requests, NEW g, Turned(r, g), DOMAIN inbox' = DOMAIN inbox,
         Pc(r) \in Pcs \ {"answered"}, g.pc \in Pcs
  PROVE  CallsInv'
  <1>1. /\ requests' = [q \in DOMAIN requests' |-> requests'[q]] /\ DOMAIN requests' = DOMAIN requests
        /\ 0 \notin DOMAIN requests' /\ DOMAIN requests' \subseteq Nat
    BY TurnedFields DEF CallsInv
  <1>2. ASSUME NEW q \in DOMAIN requests PROVE CallFits(q)'
    <2>1. CallFits(q) /\ Call(q)' = Call(q)
      BY TurnedFields DEF CallsInv
    <2>2. \A p \in DOMAIN requests : Pc(p) = "answered" => Pc(p)' = "answered"
      BY TurnedFields
    <2>3. requests'[q].after = requests[q].after /\ requests'[q].known = requests[q].known
      BY TurnedFields
    <2>4. Len(rows) <= Len(rows') /\ Len(rows) \in Nat /\ Len(rows') \in Nat
      BY LenProperties DEF Grown
    <2>5. Pc(q)' # "unsent" => Carried(requests'[q]) /\ Pc(q)' \in Pcs /\ Pc(q) # "unsent"
      <3>1. CASE q = r
        BY <3>1, TurnedFields DEF Pcs
      <3>2. CASE q # r
        BY <3>2, <2>1, TurnedFields DEF CallFits
      <3>3. QED
        BY <3>1, <3>2
    <2>6. /\ Call(q)'.op \in Op /\ Call(q)'.as \in Everyone \cap DOMAIN inbox'
          /\ Call(q)'.target \in Nat /\ Call(q)'.body \in Values
          /\ Call(q)'.op = "rsvpEvent" => Call(q)'.body # "none"
      BY <2>1 DEF CallFits
    <2>7. Pc(q)' # "unsent" =>
            /\ requests'[q].after \subseteq {p \in DOMAIN requests' : Pc(p)' = "answered"}
            /\ requests'[q].known \in Nat /\ requests'[q].known <= Len(rows')
      BY <1>1, <2>1, <2>2, <2>3, <2>4, <2>5 DEF CallFits
    <2>8. QED
      BY <2>5, <2>6, <2>7 DEF CallFits
  <1>3. QED
    BY <1>1, <1>2 DEF CallsInv

\* What each kind of turn keeps.
Steady == RowsInv' /\ EventsInv' /\ CallsInv'

LEMMA TurnKeeps ==
  ASSUME ServerInv, NEW r \in DOMAIN requests, NEW g, Turn(r, g)
  PROVE  Steady /\ Kept(r)
  <1>1. RowsInv /\ EventsInv /\ CallsInv /\ Place(r)
    BY DEF ServerInv, PlacesInv
  <1>2. Pc(r) \in Pcs \ {"answered"} /\ g.pc \in Pcs /\ Turned(r, g)
    BY TurnUnderWay DEF Turn
  <1>3. /\ DOMAIN requests' = DOMAIN requests /\ requests'[r].call = requests[r].call
        /\ \A q \in DOMAIN requests : q # r => requests'[q] = requests[q]
    BY <1>1, <1>2, TurnedFields DEF Call
  <1>4. CASE UNCHANGED <<rows, announced, inbox>>
    <2>1. Grown
      BY <1>1, <1>4, SameRows
    <2>2. Steady
      BY <1>1, <1>2, <1>3, <1>4, <2>1, RowsStay, EventsStay, CallsStay DEF Steady
    <2>3. QED
      BY <1>3, <1>4, <2>1, <2>2, QuietKeeps DEF Kept
  <1>5. ASSUME NEW value \in Values, Writes(r, g, value) PROVE Steady /\ Kept(r)
    <2>1. /\ Grown /\ announced' = announced /\ inbox' = inbox
          /\ \A i \in DOMAIN rows' \ DOMAIN rows : rows'[i].request = r /\ rows'[i].by = Call(r).as
      BY <1>1, <1>5, WrittenRows DEF Writes
    <2>2. Call(r).as \in DOMAIN inbox
      BY <1>1 DEF CallsInv, CallFits
    <2>3. Steady
      BY <1>1, <1>2, <1>3, <2>1, <2>2, RowsStay, EventsStay, CallsStay DEF Steady
    <2>4. QED
      BY <1>3, <2>1, <2>3, QuietKeeps DEF Kept
  <1>6. CASE Patches(r, g)
    <2>1. Item(r) \in DOMAIN rows
      <3>1. Pc(r) \in {"ensured", "updated"} \/ (Pc(r) = "listed" /\ Kind(r) \in OncePerAccount /\ IsFound(r))
        BY <1>6 DEF Patches, OncePerAccount
      <3>2. QED
        BY <1>1, <3>1, ItemPlaced DEF Mine
    <2>2. Grown /\ DOMAIN rows' = DOMAIN rows /\ announced' = announced /\ inbox' = inbox
      BY <1>1, <1>6, <2>1, PatchedRows DEF Patches
    <2>3. Steady
      BY <1>1, <1>2, <1>3, <2>2, RowsStay, EventsStay, CallsStay DEF Steady
    <2>4. QED
      BY <1>3, <2>2, <2>3, QuietKeeps DEF Kept
  <1>7. ASSUME NEW type \in EventTypes, Tells(r, g, type) PROVE Steady /\ Kept(r)
    <2>1. PICK item \in DOMAIN rows : item = Item(r) /\ rows[item].request = r
      <3>1. Pc(r) = "created"
        BY <1>7 DEF Tells
      <3>2. Own(r) = {Item(r)}
        BY <1>1, <3>1, ItemPlaced
      <3>3. QED
        BY <3>2 DEF Own
    <2>2. /\ EventsInv' /\ rows' = rows /\ inbox' = inbox
          /\ \A k \in DOMAIN announced : announced'[k] = announced[k]
          /\ \A i : i # item => Announcements(i)' = Announcements(i)
      BY <1>1, <1>7, <2>1, TellsKeeps
    <2>3. Grown
      BY <1>1, <2>2, SameRows
    <2>4. Steady
      BY <1>1, <1>2, <1>3, <2>2, <2>3, RowsStay, CallsStay DEF Steady
    <2>5. \A i \in DOMAIN rows : Told(i)' = Told(i)
      BY <2>2 DEF Told
    <2>6. \A i \in DOMAIN rows : rows[i].request # r =>
            /\ Announcements(i)' = Announcements(i)
            /\ \A k \in Announcements(i) : announced'[k] = announced[k]
      BY <2>1, <2>2 DEF Announcements
    <2>7. QED
      BY <1>3, <2>2, <2>3, <2>4, <2>5, <2>6 DEF Kept
  <1>8. CASE Notifies(r, g)
    <2>1. PICK item \in DOMAIN rows : item = Item(r) /\ rows[item].request = r /\ Mine(r, item) /\ item \in Own(r)
      <3>1. Pc(r) = "published"
        BY <1>8 DEF Notifies
      <3>2. Own(r) = {Item(r)} /\ Mine(r, Item(r))
        BY <1>1, <3>1, ItemPlaced
      <3>3. QED
        BY <3>2 DEF Own
    <2>2. Call(r).target \in DOMAIN rows /\ rows[item].of = Call(r).target
      <3>1. Call(r).target \in DOMAIN rows
        BY <1>1, <1>8, <2>1 DEF Place, Notifies
      <3>2. Names[Call(r).op] # "nothing"
        BY <1>1, <1>8, HandledFor DEF Notifies, Kind, CallsInv, CallFits
      <3>3. QED
        BY <2>1, <3>1, <3>2 DEF Mine, Of
    <2>3. /\ EventsInv' /\ rows' = rows /\ announced' = announced /\ DOMAIN inbox' = DOMAIN inbox
          /\ \A i \in DOMAIN rows : i # item => Told(i)' = Told(i)
      BY <1>1, <1>8, <2>1, <2>2, NotifiesKeeps
    <2>4. Grown
      BY <1>1, <2>3, SameRows
    <2>5. Steady
      BY <1>1, <1>2, <1>3, <2>3, <2>4, RowsStay, CallsStay DEF Steady
    <2>6. \A i : Announcements(i)' = Announcements(i)
      BY <2>3 DEF Announcements
    <2>7. QED
      BY <1>3, <2>1, <2>3, <2>4, <2>5, <2>6 DEF Kept
  <1>9. QED
    BY <1>4, <1>5, <1>6, <1>7, <1>8 DEF Turn, Fails, Finds, Lists, Settles, Replies

-----------------------------------------------------------------------------
(* What others have made, and have been told, is not touched                *)

LEMMA OwnKept ==
  ASSUME RowsInv, NEW r, Kept(r), NEW q \in DOMAIN requests
  PROVE  /\ q # r => Own(q)' = Own(q)
         /\ Own(q) \subseteq Own(q)' /\ Own(q)' \subseteq Own(q) \cup (DOMAIN rows' \ DOMAIN rows)
         /\ \A i \in DOMAIN rows : rows'[i].request = rows[i].request
  BY DEF Own, Kept, Grown

LEMMA MineKept ==
  ASSUME NEW r, Kept(r), NEW q \in DOMAIN requests
  PROVE  /\ Call(q)' = Call(q) /\ Kind(q)' = Kind(q)
         /\ \A i \in DOMAIN rows : Mine(q, i) <=> Mine(q, i)'
  <1>1. Call(q)' = Call(q)
    BY DEF Kept, Call
  <1>2. Kind(q)' = Kind(q)
    BY <1>1 DEF Kind
  <1>3. \A i \in DOMAIN rows : Mine(q, i) <=> Mine(q, i)'
    BY <1>1, <1>2 DEF Kept, Grown, Mine
  <1>4. QED
    BY <1>1, <1>2, <1>3

LEMMA MissingKept ==
  ASSUME CallsInv, NEW r, Kept(r), NEW q \in DOMAIN requests, Pc(q) # "unsent",
         requests'[q].known = requests[q].known
  PROVE  Missing(q)' <=> Missing(q)
  <1>1. requests[q].known \in Nat /\ requests[q].known <= Len(rows) /\ Call(q).target \in Nat
    BY DEF CallsInv, CallFits
  <1>2. Call(q).target \in 1 .. requests[q].known => Call(q).target \in DOMAIN rows
    BY <1>1 DEF Kept, Grown
  <1>3. Call(q).target \in DOMAIN rows => rows'[Call(q).target].kind = rows[Call(q).target].kind
    BY DEF Kept, Grown
  <1>4. Call(q)' = Call(q)
    BY MineKept
  <1>5. QED
    BY <1>2, <1>3, <1>4 DEF Missing

LEMMA OthersKept ==
  ASSUME ServerInv, NEW r, Kept(r), NEW q \in DOMAIN requests, q # r
  PROVE  Place(q)' /\ Outreach(q)' /\ (Pc(q)' = "answered" => Answered(q)')
  <1>1. RowsInv /\ CallsInv /\ Place(q) /\ Outreach(q) /\ (Pc(q) = "answered" => Answered(q))
    BY DEF ServerInv, PlacesInv
  <1>2. requests'[q] = requests[q] /\ DOMAIN rows \subseteq DOMAIN rows'
    BY DEF Kept, Grown
  <1>3. Pc(q)' = Pc(q) /\ Items(q)' = Items(q) /\ Code(q)' = Code(q)
    BY <1>2 DEF Pc, Items, Code
  <1>4. Own(q)' = Own(q) /\ Own(q) \subseteq DOMAIN rows
    BY <1>1, OwnKept DEF Own
  <1>5. Call(q)' = Call(q) /\ Kind(q)' = Kind(q) /\ \A i : Mine(q, i) => Mine(q, i)'
    BY MineKept DEF Mine
  <1>6. Pc(q) # "unsent" => (Missing(q)' <=> Missing(q))
    BY <1>1, <1>2, MissingKept
  <1>7. Place(q)'
    <2>1. \A i \in Own(q) : Mine(q, i)' /\ (Kind(q) = "reaction" => Call(q).target \in DOMAIN rows')
      BY <1>1, <1>2, <1>5 DEF Place
    <2>2. Pc(q) = "found" => Items(q) \subseteq DOMAIN rows' \cap {Call(q).target} /\ (Items(q) = {} => Missing(q)')
      BY <1>1, <1>2, <1>6 DEF Place
    <2>3. Pc(q) = "listed" /\ Kind(q) \in OncePerAccount /\ Items(q) # {} => \E i : Items(q) = {i} /\ Mine(q, i)'
      BY <1>1, <1>5 DEF Place
    <2>4. Pc(q) \in {"ensured", "updated"} => \E i : Items(q) = {i} /\ Mine(q, i)' /\ Own(q) \subseteq {i}
      BY <1>1, <1>5 DEF Place
    <2>5. Pc(q) = "answered" /\ Code(q) = "none" =>
            \/ Kind(q) = "nothing" /\ Own(q) = {}
            \/ \E i \in requests'[q].answer.items : Mine(q, i)' /\ Own(q) \subseteq {i}
      BY <1>1, <1>2, <1>5 DEF Place
    <2>6. /\ Pc(q) \in {"unsent", "reading", "found", "listed"} => Own(q) = {}
          /\ Pc(q) \in {"created", "published", "notified"} => \E i : Items(q) = {i} /\ Own(q) = {i}
          /\ Pc(q) = "answered" /\ Code(q) # "none" => Own(q) = {}
      BY <1>1 DEF Place
    <2>7. QED
      BY <1>3, <1>4, <1>5, <2>1, <2>2, <2>3, <2>4, <2>5, <2>6 DEF Place
  <1>8. Outreach(q)'
    <2>1. ASSUME NEW i \in Own(q)
          PROVE  /\ Announcements(i)' = Announcements(i)
                 /\ {announced'[k].type : k \in Announcements(i)} = {announced[k].type : k \in Announcements(i)}
                 /\ Kind(q) = "reaction" => Told(i)' = Told(i)
      <3>1. i \in DOMAIN rows /\ rows[i].request # r
        BY DEF Own
      <3>2. Kind(q) = "reaction" => rows[i].of \in DOMAIN rows
        <4>1. Kind(q) = "reaction" => Names[Call(q).op] # "nothing"
          BY <1>1, HandledFor DEF Kind, CallsInv, CallFits
        <4>2. QED
          BY <1>1, <4>1 DEF Place, Mine, Of
      <3>3. QED
        BY <3>1, <3>2 DEF Kept
    <2>2. QED
      BY <1>1, <1>3, <1>4, <1>5, <2>1 DEF Outreach
  <1>9. Pc(q)' = "answered" => Answered(q)'
    BY <1>1, <1>2, <1>3, <1>5, <1>6 DEF Answered
  <1>10. QED
    BY <1>7, <1>8, <1>9

-----------------------------------------------------------------------------
(* Where a turn leaves the request that takes it                            *)

Placed(r) == Place(r)' /\ Outreach(r)' /\ (Pc(r)' = "answered" => Answered(r)')

\* Turns that leave the tables alone, and with them what r has made.
LEMMA SameOwn ==
  ASSUME ServerInv, NEW r \in DOMAIN requests, NEW g, Turn(r, g), DOMAIN rows' = DOMAIN rows
  PROVE  /\ Own(r)' = Own(r) /\ Kept(r) /\ Call(r)' = Call(r) /\ Kind(r)' = Kind(r)
         /\ requests'[r].answer = g.answer /\ Pc(r)' = g.pc /\ Items(r)' = g.found.items
         /\ Code(r)' = g.answer.code /\ \A i : Mine(r, i)' <=> Mine(r, i)
         /\ Pc(r) # "unsent" /\ (Missing(r)' <=> Missing(r))
         /\ Place(r) /\ Outreach(r) /\ g.pc \in Pcs
  <1>1. RowsInv /\ EventsInv /\ CallsInv /\ Place(r) /\ Outreach(r) /\ Kept(r) /\ Turned(r, g)
    BY TurnKeeps DEF ServerInv, PlacesInv, Turn
  <1>2. Pc(r) # "unsent" /\ g.pc \in Pcs
    BY TurnUnderWay DEF Pcs
  <1>3. /\ requests'[r] = g /\ Call(r)' = Call(r) /\ Kind(r)' = Kind(r) /\ Pc(r)' = g.pc
        /\ Items(r)' = g.found.items /\ Code(r)' = g.answer.code /\ requests'[r].known = requests[r].known
    BY <1>1, TurnedFields
  <1>4. \A i : Mine(r, i)' <=> Mine(r, i)
    BY <1>1, MineKept DEF Mine
  <1>5. Missing(r)' <=> Missing(r)
    BY <1>1, <1>2, <1>3, MissingKept
  <1>6. Own(r)' = Own(r)
    BY <1>1, OwnKept
  <1>7. QED
    BY <1>1, <1>2, <1>3, <1>4, <1>5, <1>6

\* And what of it is told to others.
LEMMA SameOutreach ==
  ASSUME UNCHANGED <<rows, announced, inbox>>
  PROVE  \A i : /\ Announcements(i)' = Announcements(i) /\ Told(i)' = Told(i)
                /\ {announced'[k].type : k \in Announcements(i)} = {announced[k].type : k \in Announcements(i)}
  BY DEF Announcements, Told

LEMMA FailsPlaced ==
  ASSUME ServerInv, NEW r \in DOMAIN requests, NEW g, Turn(r, g), Fails(r, g)
  PROVE  Placed(r)
  <1>1. UNCHANGED <<rows, announced, inbox>> /\ Pc(r) \in {"reading", "found"} /\ g.pc = "answered"
    BY DEF Fails
  <1>2. /\ Own(r)' = Own(r) /\ Call(r)' = Call(r) /\ Kind(r)' = Kind(r)
        /\ requests'[r].answer = g.answer /\ Pc(r)' = "answered"
        /\ Code(r)' = g.answer.code /\ (Missing(r)' <=> Missing(r)) /\ Place(r)
    BY <1>1, SameOwn
  <1>3. Own(r)' = {} /\ (Pc(r) = "found" /\ ~IsFound(r) => Missing(r)')
    BY <1>1, <1>2 DEF Place, IsFound, Items
  <1>4. Code(r)' \in DOMAIN statusForError /\ Code(r)' # "none"
    BY <1>2 DEF Fails, statusForError
  <1>5. Answered(r)'
    BY <1>2, <1>3, <1>4 DEF Answered, Fails
  <1>6. Place(r)' /\ Outreach(r)'
    BY <1>2, <1>3, <1>4 DEF Place, Outreach
  <1>7. QED
    BY <1>5, <1>6 DEF Placed

LEMMA FindsPlaced ==
  ASSUME ServerInv, NEW r \in DOMAIN requests, NEW g, Turn(r, g), Finds(r, g)
  PROVE  Placed(r)
  <1>1. UNCHANGED <<rows, announced, inbox>> /\ Pc(r) = "reading" /\ g.pc = "found"
    BY DEF Finds
  <1>2. /\ Own(r)' = Own(r) /\ Call(r)' = Call(r) /\ Kind(r)' = Kind(r) /\ Items(r)' = g.found.items
        /\ Pc(r)' = "found" /\ (Missing(r)' <=> Missing(r)) /\ Place(r)
    BY <1>1, SameOwn
  <1>3. Own(r)' = {}
    BY <1>1, <1>2 DEF Place
  <1>4. Items(r)' \subseteq DOMAIN rows' \cap {Call(r)'.target}
    BY <1>1, <1>2 DEF Finds
  <1>5. Items(r)' = {} => Missing(r)'
    <2>1. Call(r).target \in 1 .. requests[r].known => Call(r).target \in DOMAIN rows
      <3>1. /\ requests[r].known \in Nat /\ requests[r].known <= Len(rows)
            /\ DOMAIN rows = 1 .. Len(rows) /\ Len(rows) \in Nat
        BY <1>1, LenProperties DEF ServerInv, CallsInv, CallFits, RowsInv
      <3>2. QED
        BY <3>1
    <2>2. QED
      BY <1>2, <2>1 DEF Finds, Missing
  <1>6. Place(r)' /\ Outreach(r)'
    BY <1>2, <1>3, <1>4, <1>5 DEF Place, Outreach
  <1>7. QED
    BY <1>2, <1>6 DEF Placed

\* What is listed of a kind for an account is one row of it, at most.
LEMMA ExistingIs ==
  ASSUME RowsInv, NEW kind, NEW account, NEW of, NEW i \in Existing(kind, account, of)
  PROVE  /\ Existing(kind, account, of) = {i} /\ i \in DOMAIN rows
         /\ rows[i].kind = kind /\ rows[i].by = account /\ rows[i].of = of
  <1>1. DOMAIN rows \subseteq Nat
    BY LenProperties DEF RowsInv
  <1>2. QED
    BY <1>1 DEF Existing, All

LEMMA ListsPlaced ==
  ASSUME ServerInv, NEW r \in DOMAIN requests, NEW g, Turn(r, g), Lists(r, g)
  PROVE  Placed(r)
  <1>1. UNCHANGED <<rows, announced, inbox>> /\ Pc(r) \in {"reading", "found"} /\ g.pc = "listed" /\ RowsInv
    BY DEF Lists, ServerInv
  <1>2. /\ Own(r)' = Own(r) /\ Call(r)' = Call(r) /\ Kind(r)' = Kind(r) /\ Items(r)' = g.found.items
        /\ Pc(r)' = "listed" /\ Place(r) /\ \A i : Mine(r, i)' <=> Mine(r, i)
    BY <1>1, SameOwn
  <1>3. Own(r)' = {}
    BY <1>1, <1>2 DEF Place
  <1>4. ASSUME Kind(r) \in OncePerAccount, Items(r)' # {} PROVE \E i : Items(r)' = {i} /\ Mine(r, i)'
    <2>1. "nothing" \notin OncePerAccount
      BY DEF OncePerAccount
    <2>2. PICK i : i \in g.found.items /\ g.found.items = Existing(Kind(r), Call(r).as, Of(Call(r)))
      BY <1>2, <1>4, <2>1 DEF Lists
    <2>3. g.found.items = {i} /\ Mine(r, i)
      BY <1>1, <2>2, ExistingIs DEF Mine
    <2>4. QED
      BY <1>2, <2>3
  <1>5. Place(r)' /\ Outreach(r)'
    BY <1>2, <1>3, <1>4 DEF Place, Outreach
  <1>6. QED
    BY <1>2, <1>5 DEF Placed

LEMMA WritesPlaced ==
  ASSUME ServerInv, NEW r \in DOMAIN requests, NEW g, Turn(r, g), NEW value \in Values, Writes(r, g, value)
  PROVE  Placed(r)
  <1>1. RowsInv /\ EventsInv /\ CallsInv /\ Place(r) /\ Turned(r, g) /\ Kept(r)
    BY TurnKeeps DEF ServerInv, PlacesInv, Turn
  <1>2. PICK n : /\ n = Len(rows) + 1 /\ n \notin DOMAIN rows /\ DOMAIN rows' = DOMAIN rows \cup {n}
                 /\ \A i \in DOMAIN rows : rows'[i] = rows[i]
                 /\ rows'[n].kind = Kind(r) /\ rows'[n].by = Call(r).as /\ rows'[n].of = Of(Call(r))
                 /\ rows'[n].request = r
    BY <1>1, WrittenRows
  <1>3. /\ g.pc = "created" /\ Items(r)' = {n} /\ Pc(r)' = "created" /\ Call(r)' = Call(r)
        /\ Kind(r)' = Kind(r) /\ announced' = announced /\ inbox' = inbox
    BY <1>1, <1>2, TurnedFields DEF Writes
  <1>4. Own(r) = {}
    BY <1>1 DEF Writes, Place
  <1>5. Own(r)' = {n} /\ Mine(r, n)'
    BY <1>2, <1>3, <1>4 DEF Own, Mine
  <1>6. Kind(r) = "reaction" => Call(r).target \in DOMAIN rows
    <2>1. Kind(r) = "reaction" => Pc(r) = "found" /\ IsFound(r)
      BY DEF Writes, OncePerAccount
    <2>2. QED
      BY <1>1, <2>1 DEF Place, IsFound, Items
  <1>7. Place(r)'
    BY <1>2, <1>3, <1>5, <1>6 DEF Place
  <1>8. Announcements(n)' = {}
    BY <1>1, <1>2, <1>3 DEF Announcements, EventsInv
  <1>9. Kind(r) = "reaction" => Told(n)' = {}
    <2>1. SUFFICES ASSUME Kind(r) = "reaction" PROVE Told(n)' = {}
      OBVIOUS
    <2>2. Of(Call(r)) = Call(r).target
      BY <1>1, <2>1, HandledFor DEF Of, Kind, CallsInv, CallFits
    <2>3. PICK author \in DOMAIN inbox : author = rows[Call(r).target].by
      BY <1>1, <1>6, <2>1 DEF RowsInv
    <2>4. rows'[rows'[n].of].by = author
      BY <1>2, <1>6, <2>1, <2>2, <2>3
    <2>5. Told(n)' = {k \in DOMAIN inbox[author] : inbox[author][k] = n}
      BY <1>3, <2>4 DEF Told
    <2>6. QED
      BY <1>1, <1>2, <2>5 DEF EventsInv
  <1>10. Outreach(r)'
    BY <1>3, <1>5, <1>8, <1>9 DEF Outreach
  <1>11. QED
    BY <1>3, <1>7, <1>10 DEF Placed

LEMMA TellsPlaced ==
  ASSUME ServerInv, NEW r \in DOMAIN requests, NEW g, Turn(r, g), NEW type \in EventTypes, Tells(r, g, type)
  PROVE  Placed(r)
  <1>1. /\ rows' = rows /\ inbox' = inbox /\ Pc(r) = "created" /\ g.pc = "published"
        /\ g.found = requests[r].found /\ Announces[Kind(r)] = {type}
    BY DEF Tells
  <1>2. /\ Own(r)' = Own(r) /\ Call(r)' = Call(r) /\ Kind(r)' = Kind(r) /\ Items(r)' = Items(r)
        /\ Pc(r)' = "published" /\ Place(r) /\ Outreach(r) /\ \A i : Mine(r, i)' <=> Mine(r, i)
    BY <1>1, SameOwn DEF Items
  <1>3. PICK item \in DOMAIN rows : item = Item(r) /\ Items(r) = {item} /\ Own(r) = {item}
    BY <1>1, <1>2, ItemPlaced DEF Mine
  <1>4. Place(r)'
    BY <1>1, <1>2, <1>3 DEF Place
  <1>5. Announcements(item) = {} /\ (Kind(r) = "reaction" => Told(item) = {})
    BY <1>1, <1>2, <1>3 DEF Outreach
  <1>6. PICK k : Announcements(item)' = {k} /\ announced'[k].type = type
    BY <1>3, <1>5, TellsKeeps DEF ServerInv
  <1>7. Told(item)' = Told(item)
    BY <1>1 DEF Told
  <1>8. {announced'[l].type : l \in Announcements(item)'} = Announces[Kind(r)]
    BY <1>1, <1>6
  <1>9. Outreach(r)'
    BY <1>2, <1>3, <1>5, <1>6, <1>7, <1>8 DEF Outreach
  <1>10. QED
    BY <1>2, <1>4, <1>9 DEF Placed

LEMMA SettlesPlaced ==
  ASSUME ServerInv, NEW r \in DOMAIN requests, NEW g, Turn(r, g), Settles(r, g)
  PROVE  Placed(r)
  <1>1. /\ UNCHANGED <<rows, announced, inbox>> /\ g.pc = "ensured" /\ g.found = requests[r].found
        /\ Kind(r) = "profile" /\ Pc(r) \in {"published", "listed"} /\ (Pc(r) = "listed" => IsFound(r))
    BY DEF Settles
  <1>2. /\ Own(r)' = Own(r) /\ Call(r)' = Call(r) /\ Kind(r)' = Kind(r) /\ Items(r)' = Items(r)
        /\ Pc(r)' = "ensured" /\ Place(r) /\ Outreach(r) /\ \A i : Mine(r, i)' <=> Mine(r, i)
    BY <1>1, SameOwn DEF Items
  <1>3. "profile" \in OncePerAccount
    BY DEF OncePerAccount
  <1>4. PICK item : Items(r) = {item} /\ Mine(r, item) /\ Own(r) \subseteq {item}
    BY <1>1, <1>2, <1>3, ItemPlaced
  <1>5. \A i \in Own(r) : Mine(r, i)
    BY <1>2 DEF Place
  <1>6. Place(r)'
    BY <1>1, <1>2, <1>4, <1>5 DEF Place
  <1>7. Pc(r) = "listed" => Own(r) = {}
    BY <1>2 DEF Place
  <1>8. Outreach(r)'
    BY <1>1, <1>2, <1>7, SameOutreach DEF Outreach
  <1>9. QED
    BY <1>2, <1>6, <1>8 DEF Placed

LEMMA PatchesPlaced ==
  ASSUME ServerInv, NEW r \in DOMAIN requests, NEW g, Turn(r, g), Patches(r, g)
  PROVE  Placed(r)
  <1>1. /\ UNCHANGED <<announced, inbox>> /\ g.pc = "updated" /\ g.found.items = {Item(r)}
        /\ \/ Pc(r) = "ensured" /\ Kind(r) = "profile"
           \/ Pc(r) = "listed" /\ IsFound(r) /\ Kind(r) = "rsvp" /\ Kind(r) \in OncePerAccount
    BY DEF Patches, OncePerAccount
  <1>2. Place(r) /\ RowsInv /\ CallsInv
    BY DEF ServerInv, PlacesInv
  <1>3. PICK item : item = Item(r) /\ Mine(r, item) /\ Own(r) \subseteq {item} /\ item \in DOMAIN rows
    BY <1>1, <1>2, ItemPlaced DEF Mine
  <1>4. DOMAIN rows' = DOMAIN rows
    BY <1>2, <1>3, PatchedRows
  <1>5. /\ Own(r)' = Own(r) /\ Call(r)' = Call(r) /\ Kind(r)' = Kind(r) /\ Items(r)' = {item}
        /\ Pc(r)' = "updated" /\ Outreach(r) /\ \A i : Mine(r, i)' <=> Mine(r, i)
    BY <1>1, <1>3, <1>4, SameOwn
  <1>6. Place(r)'
    BY <1>1, <1>3, <1>5 DEF Place
  <1>7. Pc(r) = "listed" => Own(r) = {}
    BY <1>2 DEF Place
  <1>8. \A i : /\ Announcements(i)' = Announcements(i)
               /\ {announced'[k].type : k \in Announcements(i)} = {announced[k].type : k \in Announcements(i)}
    BY <1>1 DEF Announcements
  <1>9. Outreach(r)'
    BY <1>1, <1>5, <1>7, <1>8 DEF Outreach
  <1>10. QED
    BY <1>5, <1>6, <1>9 DEF Placed

LEMMA NotifiesPlaced ==
  ASSUME ServerInv, NEW r \in DOMAIN requests, NEW g, Turn(r, g), Notifies(r, g)
  PROVE  Placed(r)
  <1>1. /\ rows' = rows /\ announced' = announced /\ Pc(r) = "published" /\ g.pc = "notified"
        /\ g.found = requests[r].found /\ Kind(r) = "reaction"
    BY DEF Notifies
  <1>2. /\ Own(r)' = Own(r) /\ Call(r)' = Call(r) /\ Kind(r)' = Kind(r) /\ Items(r)' = Items(r)
        /\ Pc(r)' = "notified" /\ Place(r) /\ Outreach(r) /\ \A i : Mine(r, i)' <=> Mine(r, i)
    BY <1>1, SameOwn DEF Items
  <1>3. PICK item \in DOMAIN rows : item = Item(r) /\ Items(r) = {item} /\ Own(r) = {item} /\ Mine(r, item)
    BY <1>1, <1>2, ItemPlaced DEF Mine
  <1>4. Place(r)'
    BY <1>1, <1>2, <1>3 DEF Place
  <1>5. Call(r).target \in DOMAIN rows /\ rows[item].of = Call(r).target
    <2>1. Call(r).target \in DOMAIN rows
      BY <1>1, <1>2, <1>3 DEF Place
    <2>2. Names[Call(r).op] # "nothing"
      BY <1>1, HandledFor DEF Kind, ServerInv, CallsInv, CallFits
    <2>3. QED
      BY <1>3, <2>1, <2>2 DEF Mine, Of
  <1>6. Told(item) = {}
    BY <1>1, <1>2, <1>3 DEF Outreach
  <1>7. \E k : Told(item)' = {k}
    BY <1>3, <1>5, <1>6, NotifiesKeeps DEF ServerInv
  <1>8. PICK s : s = Announcements(item) /\ s = Announcements(item)'
    BY <1>1 DEF Announcements
  <1>9. Outreach(r)'
    <2>1. {announced[k].type : k \in s} = Announces[Kind(r)] /\ (s = {} \/ \E k : s = {k})
      BY <1>1, <1>2, <1>3, <1>8 DEF Outreach
    <2>2. {announced'[k].type : k \in Announcements(item)'} = Announces[Kind(r)]
      BY <1>1, <1>8, <2>1
    <2>3. QED
      BY <1>1, <1>2, <1>3, <1>7, <1>8, <2>1, <2>2 DEF Outreach
  <1>10. QED
    BY <1>2, <1>4, <1>9 DEF Placed

LEMMA RepliesPlaced ==
  ASSUME ServerInv, NEW r \in DOMAIN requests, NEW g, Turn(r, g), Replies(r, g)
  PROVE  Placed(r)
  <1>1. /\ UNCHANGED <<rows, announced, inbox>> /\ g.pc = "answered" /\ g.answer.code = "none"
        /\ g.answer.status \in {200, 201}
        /\ Kind(r) # "nothing" => g.answer.items = Items(r)
    BY DEF Replies, Items
  <1>2. /\ Own(r)' = Own(r) /\ Call(r)' = Call(r) /\ Kind(r)' = Kind(r) /\ requests'[r].answer = g.answer
        /\ Pc(r)' = "answered" /\ Code(r)' = "none"
        /\ Place(r) /\ Outreach(r) /\ \A i : Mine(r, i)' <=> Mine(r, i)
    BY <1>1, SameOwn
  <1>3. Kind(r) = "nothing" => Own(r) = {}
    BY <1>2 DEF Replies, Place
  <1>4. Kind(r) # "nothing" => \E i \in Items(r) : Mine(r, i) /\ Own(r) \subseteq {i}
    <2>1. SUFFICES ASSUME Kind(r) # "nothing"
                   PROVE  \E i \in Items(r) : Mine(r, i) /\ Own(r) \subseteq {i}
      OBVIOUS
    <2>2. \/ Pc(r) \in {"created", "published", "notified", "ensured", "updated"}
          \/ Pc(r) = "listed" /\ Kind(r) \in OncePerAccount /\ IsFound(r)
      BY <2>1 DEF Replies, OncePerAccount
    <2>3. QED
      BY <1>2, <2>2, ItemPlaced
  <1>5. \A i \in Own(r) : Mine(r, i) /\ (Kind(r) = "reaction" => Call(r).target \in DOMAIN rows)
    BY <1>2 DEF Place
  <1>6. Place(r)'
    BY <1>1, <1>2, <1>3, <1>4, <1>5 DEF Place
  <1>7. Answered(r)'
    BY <1>1, <1>2 DEF Answered
  <1>8. ASSUME NEW i \in Own(r)
        PROVE  /\ {announced[k].type : k \in Announcements(i)} = Announces[Kind(r)]
               /\ Announcements(i) = {} \/ \E k : Announcements(i) = {k}
               /\ Kind(r) = "reaction" => \E k : Told(i) = {k}
    <2>1. CASE Pc(r) = "created"
      <3>1. Announcements(i) = {} /\ Kind(r) \in {"community", "event"}
        BY <1>2, <2>1, <1>3 DEF Outreach, Replies
      <3>2. Announces[Kind(r)] = {} /\ {announced[k].type : k \in Announcements(i)} = {}
        BY <3>1 DEF Announces
      <3>3. QED
        BY <3>1, <3>2
    <2>2. CASE Pc(r) # "created"
      <3>1. Kind(r) = "reaction" => Pc(r) = "notified"
        BY DEF Replies
      <3>2. QED
        BY <1>2, <2>2, <3>1 DEF Outreach
    <2>3. QED
      BY <2>1, <2>2
  <1>9. Outreach(r)'
    <2>1. ASSUME NEW i \in Own(r)
          PROVE  /\ {announced'[k].type : k \in Announcements(i)'} = Announces[Kind(r)]
                 /\ Announcements(i)' = {} \/ \E k : Announcements(i)' = {k}
                 /\ Kind(r) = "reaction" => \E k : Told(i)' = {k}
      <3>1. PICK s : s = Announcements(i) /\ s = Announcements(i)'
        BY <1>1, SameOutreach
      <3>2. announced' = announced /\ Told(i)' = Told(i)
        BY <1>1, SameOutreach
      <3>3. {announced[k].type : k \in s} = Announces[Kind(r)]
        BY <1>8, <3>1, Zenon
      <3>4. {announced'[k].type : k \in Announcements(i)'} = Announces[Kind(r)]
        BY <3>1, <3>2, <3>3, Zenon
      <3>5. QED
        BY <1>8, <3>1, <3>2, <3>4
    <2>2. QED
      BY <1>2, <2>1 DEF Outreach
  <1>10. QED
    BY <1>6, <1>7, <1>9 DEF Placed

LEMMA TurnPlaced ==
  ASSUME ServerInv, NEW r \in DOMAIN requests, NEW g, Turn(r, g)
  PROVE  Placed(r)
  BY FailsPlaced, FindsPlaced, ListsPlaced, WritesPlaced, TellsPlaced, SettlesPlaced, PatchesPlaced,
     NotifiesPlaced, RepliesPlaced DEF Turn

LEMMA TurnSafe ==
  ASSUME ServerInv, NEW r \in DOMAIN requests, NEW g, Turn(r, g)
  PROVE  ServerInv'
  <1>1. Steady /\ Kept(r) /\ Placed(r)
    BY TurnKeeps, TurnPlaced
  <1>2. ASSUME NEW q \in DOMAIN requests
        PROVE  Place(q)' /\ Outreach(q)' /\ (Pc(q)' = "answered" => Answered(q)')
    <2>1. CASE q = r
      BY <1>1, <2>1 DEF Placed
    <2>2. CASE q # r
      BY <1>1, <2>2, OthersKept
    <2>3. QED
      BY <2>1, <2>2
  <1>3. DOMAIN requests' = DOMAIN requests
    BY <1>1 DEF Kept
  <1>4. PlacesInv'
    BY <1>2, <1>3 DEF PlacesInv
  <1>5. QED
    BY <1>1, <1>4 DEF ServerInv, Steady

-----------------------------------------------------------------------------
(* Sending: a call becomes a request                                        *)

Sends(r, g) ==
  /\ Pc(r) = "unsent" /\ Becomes(r, g) /\ UNCHANGED <<rows, announced, inbox>>
  /\ g = [pc |-> g.pc, call |-> Call(r), found |-> g.found, answer |-> g.answer,
          after |-> {q \in DOMAIN requests : Pc(q) = "answered"}, known |-> Len(rows)]
  /\ \/ g.pc = "reading"
     \/ g.pc = "answered" /\ Call(r).op = "getHealthz" /\ g.answer.status = 200 /\ g.answer.code = "none"
     \/ g.pc = "answered" /\ g.answer.status = 401 /\ g.answer.code = "UNAUTHORIZED"

LEMMA SendSends ==
  ASSUME NEW r \in DOMAIN requests, Send(r)
  PROVE  \E g : Sends(r, g)
  <1>a. PICK after : after = {q \in DOMAIN requests : Pc(q) = "answered"}
    OBVIOUS
  <1>s. PICK sent : sent = [pc |-> "reading", call |-> Call(r), found |-> toWire({}, << >>),
                            answer |-> << >>, after |-> after, known |-> Len(rows)]
    OBVIOUS
  <1>h. PICK health : health = [status |-> 200, code |-> "none", items |-> {}, odd |-> FALSE]
    OBVIOUS
  <1>u. PICK refusal : refusal = [status |-> 401, code |-> "UNAUTHORIZED", items |-> {}, odd |-> FALSE]
    OBVIOUS
  <1>p. PICK pc : pc = "answered"
    OBVIOUS
  <1>1. Carried(sent)
    BY <1>s DEF Carried
  <1>2. requests' = [requests EXCEPT ![r] =
          IF Call(r).op = "getHealthz" THEN [sent EXCEPT !.pc = pc, !.answer = health]
          ELSE IF Call(r).as \in NoAccount THEN [sent EXCEPT !.pc = pc, !.answer = refusal]
          ELSE sent]
    BY <1>a, <1>s, <1>h, <1>u, <1>p DEF Send, At, Pc
  <1>3. /\ [sent EXCEPT !.pc = pc, !.answer = health] = With(sent, pc, sent.found, health)
        /\ [sent EXCEPT !.pc = pc, !.answer = refusal] = With(sent, pc, sent.found, refusal)
    BY <1>1, WithAnswer
  <1>4. PICK g : /\ requests' = [requests EXCEPT ![r] = g]
                 /\ \/ g = With(sent, pc, sent.found, health) /\ Call(r).op = "getHealthz"
                    \/ g = With(sent, pc, sent.found, refusal)
                    \/ g = sent
    BY <1>2, <1>3
  <1>5. g = [pc |-> g.pc, call |-> Call(r), found |-> g.found, answer |-> g.answer,
             after |-> after, known |-> Len(rows)]
    BY <1>s, <1>4 DEF With
  <1>6. \/ g.pc = "reading"
        \/ g.pc = "answered" /\ Call(r).op = "getHealthz" /\ g.answer.status = 200 /\ g.answer.code = "none"
        \/ g.pc = "answered" /\ g.answer.status = 401 /\ g.answer.code = "UNAUTHORIZED"
    BY <1>s, <1>h, <1>u, <1>p, <1>4 DEF With
  <1>7. Pc(r) = "unsent" /\ UNCHANGED <<rows, announced, inbox>>
    BY DEF Send, At, Pc
  <1>8. QED
    BY <1>a, <1>4, <1>5, <1>6, <1>7 DEF Sends, Becomes

LEMMA SentFields ==
  ASSUME CallsInv, NEW r \in DOMAIN requests, NEW g, Sends(r, g)
  PROVE  /\ requests' = [q \in DOMAIN requests' |-> requests'[q]] /\ DOMAIN requests' = DOMAIN requests
         /\ requests'[r] = g /\ \A q \in DOMAIN requests : q # r => requests'[q] = requests[q]
         /\ Carried(g) /\ g.call = Call(r) /\ g.known = Len(rows)
         /\ g.after = {q \in DOMAIN requests : Pc(q) = "answered"}
         /\ \A q \in DOMAIN requests : Call(q)' = Call(q)
         /\ \A q \in DOMAIN requests : q # r => Pc(q)' = Pc(q)
         /\ Pc(r)' = g.pc /\ g.pc \in {"reading", "answered"}
  <1>a. requests' = [requests EXCEPT ![r] = g] /\ requests = [q \in DOMAIN requests |-> requests[q]]
    BY DEF Sends, Becomes, CallsInv
  <1>1. /\ requests' = [q \in DOMAIN requests' |-> requests'[q]] /\ DOMAIN requests' = DOMAIN requests
        /\ requests'[r] = g /\ \A q \in DOMAIN requests : q # r => requests'[q] = requests[q]
    BY <1>a
  <1>2. /\ Carried(g) /\ g.call = Call(r) /\ g.known = Len(rows)
        /\ g.after = {q \in DOMAIN requests : Pc(q) = "answered"} /\ g.pc \in {"reading", "answered"}
    BY DEF Sends, Carried
  <1>3. QED
    BY <1>1, <1>2 DEF Call, Pc

LEMMA SendKeeps ==
  ASSUME ServerInv, NEW r \in DOMAIN requests, NEW g, Sends(r, g)
  PROVE  Steady /\ Kept(r)
  <1>1. RowsInv /\ EventsInv /\ CallsInv /\ UNCHANGED <<rows, announced, inbox>> /\ Pc(r) = "unsent"
    BY DEF ServerInv, Sends
  <1>2. Grown
    BY <1>1, SameRows
  <1>3. /\ DOMAIN requests' = DOMAIN requests /\ requests'[r].call = requests[r].call
        /\ \A q \in DOMAIN requests : q # r => requests'[q] = requests[q]
    BY <1>1, SentFields DEF Call
  <1>4. ASSUME NEW q \in DOMAIN requests PROVE CallFits(q)'
    <2>1. CallFits(q) /\ Call(q)' = Call(q)
      BY <1>1, SentFields DEF CallsInv
    <2>2. \A p \in DOMAIN requests : Pc(p) = "answered" => Pc(p)' = "answered"
      BY <1>1, SentFields
    <2>3. Len(rows) \in Nat /\ rows' = rows
      BY <1>1, <1>2 DEF Grown
    <2>4. /\ Call(q)'.op \in Op /\ Call(q)'.as \in Everyone \cap DOMAIN inbox'
          /\ Call(q)'.target \in Nat /\ Call(q)'.body \in Values
          /\ Call(q)'.op = "rsvpEvent" => Call(q)'.body # "none"
      BY <1>1, <2>1 DEF CallFits
    <2>5. CASE q = r
      <3>1. Carried(requests'[q]) /\ Pc(q)' \in Pcs
        BY <1>1, <2>5, SentFields DEF Pcs
      <3>2. requests'[q].after = {p \in DOMAIN requests : Pc(p) = "answered"} /\ requests'[q].known = Len(rows)
        BY <1>1, <2>5, SentFields
      <3>3. requests'[q].after \subseteq {p \in DOMAIN requests' : Pc(p)' = "answered"}
        BY <1>3, <2>2, <3>2
      <3>4. QED
        BY <2>3, <2>4, <3>1, <3>2, <3>3 DEF CallFits
    <2>6. CASE q # r
      <3>1. requests'[q] = requests[q] /\ Pc(q)' = Pc(q)
        BY <1>1, <2>6, SentFields
      <3>2. Pc(q) # "unsent" => requests'[q].after \subseteq {p \in DOMAIN requests' : Pc(p)' = "answered"}
        BY <1>3, <2>1, <2>2, <3>1 DEF CallFits
      <3>3. QED
        BY <2>1, <2>3, <2>4, <3>1, <3>2 DEF CallFits
    <2>7. QED
      BY <2>5, <2>6
  <1>5. CallsInv'
    BY <1>1, <1>4, SentFields DEF CallsInv
  <1>6. Steady
    BY <1>1, <1>2, <1>3, <1>5, RowsStay, EventsStay DEF Steady
  <1>7. QED
    BY <1>1, <1>2, <1>3, <1>6, QuietKeeps DEF Kept

LEMMA SendPlaced ==
  ASSUME ServerInv, NEW r \in DOMAIN requests, NEW g, Sends(r, g)
  PROVE  Placed(r)
  <1>1. RowsInv /\ CallsInv /\ Place(r) /\ Pc(r) = "unsent" /\ Kept(r)
    BY SendKeeps DEF ServerInv, PlacesInv, Sends
  <1>2. Own(r) = {} /\ rows' = rows
    BY <1>1 DEF Place, Sends
  <1>3. Own(r)' = {}
    BY <1>1, <1>2, OwnKept
  <1>4. /\ Pc(r)' = g.pc /\ Kind(r)' = Kind(r) /\ Code(r)' = g.answer.code
        /\ requests'[r].answer = g.answer /\ g.pc \in {"reading", "answered"}
    BY <1>1, SentFields, MineKept DEF Code
  <1>5. Call(r).op = "getHealthz" => Kind(r) = "nothing"
    BY PurposesAre DEF Kind, Op
  <1>6. Pc(r)' = "answered" => Answered(r)'
    BY <1>4 DEF Sends, Answered, statusForError
  <1>7. Place(r)'
    BY <1>3, <1>4, <1>5 DEF Place, Sends
  <1>8. Outreach(r)'
    BY <1>3, <1>4 DEF Outreach
  <1>9. QED
    BY <1>6, <1>7, <1>8 DEF Placed

LEMMA SendSafe ==
  ASSUME ServerInv, NEW r \in DOMAIN requests, NEW g, Sends(r, g)
  PROVE  ServerInv'
  <1>1. Steady /\ Kept(r) /\ Placed(r)
    BY SendKeeps, SendPlaced
  <1>2. ASSUME NEW q \in DOMAIN requests
        PROVE  Place(q)' /\ Outreach(q)' /\ (Pc(q)' = "answered" => Answered(q)')
    <2>1. CASE q = r
      BY <1>1, <2>1 DEF Placed
    <2>2. CASE q # r
      BY <1>1, <2>2, OthersKept
    <2>3. QED
      BY <2>1, <2>2
  <1>3. DOMAIN requests' = DOMAIN requests
    BY <1>1 DEF Kept
  <1>4. PlacesInv'
    BY <1>2, <1>3 DEF PlacesInv
  <1>5. QED
    BY <1>1, <1>4 DEF ServerInv, Steady

-----------------------------------------------------------------------------
(* The server starts where the invariant holds, and never leaves it         *)

LEMMA InitSafe == ServerInit => ServerInv
  <1>1. SUFFICES ASSUME ServerInit PROVE ServerInv
    OBVIOUS
  <1>2. PICK script \in Scripts :
          /\ requests = [r \in DOMAIN script |-> Unsent(script[r])]
          /\ inbox = [a \in {script[r].as : r \in DOMAIN script}
                            \cup {FirstRows[i].by : i \in DOMAIN FirstRows} |-> << >>]
    BY <1>1 DEF ServerInit
  <1>3. PICK Called : Called = [op : Op, as : STRING, target : Nat, body : STRING]
    OBVIOUS
  <1>4. /\ script \in Seq(Called) /\ \A r \in DOMAIN script : script[r].op = "rsvpEvent" => script[r].body # "none"
        /\ FirstRows \in Seq([kind : STRING, by : STRING, of : Nat, value : STRING, request : {0}])
    BY <1>3, ServerAssumption, RequestsAre
  <1>5. rows = FirstRows /\ announced = << >>
    BY <1>1 DEF ServerInit
  <1>6. RowsInv
    <2>1. \A i \in DOMAIN rows : rows[i] \in Row /\ rows[i].by \in DOMAIN inbox
      <3>1. SUFFICES ASSUME NEW i \in DOMAIN rows PROVE rows[i] \in Row /\ rows[i].by \in DOMAIN inbox
        OBVIOUS
      <3>2. rows[i] \in [kind : STRING, by : STRING, of : Nat, value : STRING, request : {0}]
        BY <1>4, <1>5, ElementOfSeq, LenProperties
      <3>3. rows[i].kind \in Kinds /\ rows[i].by \in Everyone /\ rows[i].value \in Values
        BY <1>5 DEF Kinds, Everyone, Values
      <3>4. QED
        BY <1>2, <1>5, <3>2, <3>3 DEF Row
    <2>2. rows \in Seq(Row)
      BY <1>4, <1>5, <2>1
    <2>3. QED
      BY <1>5, <2>1, <2>2 DEF RowsInv
  <1>7. EventsInv
    BY <1>2, <1>5, EmptySeq DEF EventsInv
  <1>8. \A r \in DOMAIN requests : Pc(r) = "unsent" /\ Call(r) = script[r]
    BY <1>2 DEF Pc, Call, Unsent
  <1>9. DOMAIN requests = 1 .. Len(script) /\ Len(script) \in Nat /\ DOMAIN script = 1 .. Len(script)
    BY <1>2, <1>4, LenProperties
  <1>10. CallsInv
    <2>1. ASSUME NEW r \in DOMAIN requests PROVE CallFits(r)
      <3>1. r \in DOMAIN script /\ script[r] \in Called
        BY <1>4, <1>9, ElementOfSeq
      <3>2. Call(r).as \in Everyone \cap DOMAIN inbox /\ Call(r).body \in Values
        BY <1>2, <1>8, <3>1 DEF Everyone, Values
      <3>3. QED
        BY <1>3, <1>4, <1>8, <3>1, <3>2 DEF CallFits
    <2>2. QED
      BY <1>2, <1>9, <2>1 DEF CallsInv
  <1>11. PlacesInv
    <2>1. \A i \in DOMAIN rows : rows[i].request = 0
      <3>1. PICK Seeded : Seeded = [kind : STRING, by : STRING, of : Nat, value : STRING, request : {0}]
        OBVIOUS
      <3>2. rows \in Seq(Seeded) /\ \A row \in Seeded : row.request = 0
        BY <1>4, <1>5, <3>1
      <3>3. QED
        BY <3>2, ElementOfSeq, LenProperties
    <2>2. \A r \in DOMAIN requests : Own(r) = {}
      BY <1>9, <2>1 DEF Own
    <2>3. QED
      BY <1>8, <2>2 DEF PlacesInv, Place, Outreach
  <1>12. QED
    BY <1>6, <1>7, <1>10, <1>11 DEF ServerInv

\* Every step is the sending of a call or a turn of a request.
LEMMA NextTurns ==
  ASSUME ServerInv, ServerNext
  PROVE  \E r \in DOMAIN requests : \E g : Turn(r, g) \/ Sends(r, g)
  <1>1. PICK r \in DOMAIN requests :
          \/ Send(r) \/ Refuse(r)
          \/ getMyProfile(r) \/ putMyProfile(r) \/ getProfile(r)
          \/ listPosts(r) \/ createPost(r) \/ getPost(r) \/ addReaction(r)
          \/ listCommunities(r) \/ createCommunity(r) \/ joinCommunity(r)
          \/ listEvents(r) \/ createEvent(r) \/ rsvpEvent(r) \/ listMyNotifications(r)
    BY DEF ServerNext
  <1>2. CASE Send(r)
    BY <1>2, SendSends
  <1>3. CASE ~Send(r)
    <2>1. CASE Pc(r) = "unsent"
      <3>1. \A h, pc : In(r, h, pc) => pc = "unsent"
        BY <2>1 DEF In, At, Pc
      <3>2. ~Refuse(r)
        BY <2>1 DEF Refuse, At, Pc
      <3>3. \A h : /\ ~Enter(r, h) /\ ~EnterInvalid(r, h) /\ ~EnterValid(r, h) /\ ~FoundNothing(r, h)
                   /\ ~FoundInvalid(r, h) /\ ~FoundValid(r, h)
        BY <3>1 DEF Enter, EnterInvalid, EnterValid, FoundNothing, FoundInvalid, FoundValid
      <3>4. \A h, pc, status : Answers(r, h, pc, status) => pc = "unsent"
        BY <3>1 DEF Answers
      <3>5. \A h : ~ensureProfile(r, h)
        BY <3>1, <3>3 DEF ensureProfile
      <3>6. ~getMyProfile(r) /\ ~putMyProfile(r) /\ ~getProfile(r) /\ ~getPost(r)
        BY <3>1, <3>3, <3>4, <3>5 DEF getMyProfile, putMyProfile, getProfile, getPost
      <3>7. ~listPosts(r) /\ ~listCommunities(r) /\ ~listEvents(r) /\ ~listMyNotifications(r)
        BY <3>1, <3>3, <3>4 DEF listPosts, listCommunities, listEvents, listMyNotifications
      <3>8. ~createPost(r) /\ ~createCommunity(r) /\ ~createEvent(r)
        BY <3>1, <3>3, <3>4 DEF createPost, createCommunity, createEvent
      <3>9. ~addReaction(r) /\ ~joinCommunity(r) /\ ~rsvpEvent(r)
        BY <3>1, <3>3, <3>4 DEF addReaction, joinCommunity, rsvpEvent
      <3>10. QED
        BY <1>1, <1>3, <3>2, <3>6, <3>7, <3>8, <3>9
    <2>2. CASE Pc(r) # "unsent"
      <3>1. Ready(r)
        BY <2>2 DEF Ready, ServerInv, CallsInv, CallFits
      <3>2. Turns(r)
        BY <1>1, <1>3, <3>1, RefuseTurns, ReadTurns, GetTurns, ProfileTurns, CreatingTurns,
           ReactionTurns, JoinTurns, RsvpTurns
      <3>3. QED
        BY <3>2 DEF Turns
    <2>3. QED
      BY <2>1, <2>2
  <1>4. QED
    BY <1>2, <1>3

LEMMA NextSafe == ServerInv /\ [ServerNext]_serverVars => ServerInv'
  <1>1. ASSUME ServerInv, ServerNext PROVE ServerInv'
    BY <1>1, NextTurns, TurnSafe, SendSafe
  <1>2. ASSUME ServerInv, UNCHANGED serverVars PROVE ServerInv'
    <2>1. ServerInv /\ rows' = rows /\ announced' = announced /\ inbox' = inbox /\ requests' = requests
      BY <1>2 DEF serverVars
    <2>2. RowsInv' /\ EventsInv'
      BY <2>1 DEF ServerInv, RowsInv, EventsInv
    <2>3. CallsInv'
      BY <2>1 DEF ServerInv, CallsInv, CallFits, Call, Pc
    <2>4. Kept(0) /\ 0 \notin DOMAIN requests
      BY <2>1, SameRows, QuietKeeps DEF ServerInv, CallsInv, Kept
    <2>5. \A q \in DOMAIN requests : Place(q)' /\ Outreach(q)' /\ (Pc(q)' = "answered" => Answered(q)')
      BY <2>1, <2>4, OthersKept
    <2>6. QED
      BY <2>1, <2>2, <2>3, <2>5 DEF ServerInv, PlacesInv
  <1>3. QED
    BY <1>1, <1>2

LEMMA ServerSafe == ServerSpec => []ServerInv
  BY InitSafe, NextSafe, PTL DEF ServerSpec

-----------------------------------------------------------------------------
(* What the caller is told                                                  *)

\* The error codes and statuses of an answer, and what the client makes of them.
LEMMA ToldBy ==
  ASSUME NEW r, Answered(r), NEW arrives \in BOOLEAN, NEW readable \in BOOLEAN, NEW told,
         told = apiError(requests[r].answer, arrives, readable)
  PROVE  /\ told.status >= 400 => Code(r) # "none"
         /\ told.code = "NOT_FOUND" => Code(r) = "NOT_FOUND"
         /\ told.status \in {200, 201} => Code(r) = "none"
  <1>1. \/ Code(r) = "none" /\ requests[r].answer.status \in {200, 201}
        \/ /\ Code(r) # "none" /\ requests[r].answer.status >= 400 /\ requests[r].answer.status \in Nat
           /\ requests[r].answer.status = 404 => Code(r) = "NOT_FOUND"
    BY DEF Answered, statusForError
  <1>2. requests[r].answer.code = Code(r)
    BY DEF Code
  <1>3. CASE ~arrives
    BY <1>3 DEF apiError
  <1>4. CASE arrives
    <2>1. told.status = requests[r].answer.status
      BY <1>4 DEF apiError
    <2>2. told.code = "NOT_FOUND" => Code(r) = "NOT_FOUND"
      <3>1. CASE Code(r) = "none"
        <4>1. told.code \in {"PROVIDER_ERROR", "VALIDATION", "none"}
          BY <1>2, <1>4, <3>1 DEF apiError
        <4>2. QED
          BY <4>1
      <3>2. CASE Code(r) # "none" /\ readable
        BY <1>2, <1>4, <3>2 DEF apiError
      <3>3. CASE Code(r) # "none" /\ ~readable
        <4>1. told.code = statusCodeToErrorCode(requests[r].answer.status)
          BY <1>2, <1>4, <3>3 DEF apiError
        <4>2. statusCodeToErrorCode(requests[r].answer.status) = "NOT_FOUND" => requests[r].answer.status = 404
          BY <1>1, <3>3 DEF statusCodeToErrorCode
        <4>3. QED
          BY <1>1, <3>3, <4>1, <4>2
      <3>4. QED
        BY <3>1, <3>2, <3>3
    <2>3. QED
      BY <1>1, <2>1, <2>2
  <1>5. QED
    BY <1>3, <1>4

\* An answered request has announced, and its author was told, once.
LEMMA OwnComplete ==
  ASSUME ServerInv, NEW r \in DOMAIN requests, Pc(r) = "answered", NEW i \in Own(r)
  PROVE  Complete(i)
  <1>1. Place(r) /\ Outreach(r) /\ i \in DOMAIN rows
    BY DEF ServerInv, PlacesInv, Own
  <1>2. rows[i].kind = Kind(r)
    BY <1>1 DEF Place, Mine
  <1>3. /\ {announced[k].type : k \in Announcements(i)} = Announces[Kind(r)]
        /\ Announcements(i) = {} \/ \E k : Announcements(i) = {k}
        /\ Kind(r) = "reaction" => \E k : Told(i) = {k}
    BY <1>1 DEF Outreach
  <1>4. Cardinality(Announcements(i)) = Cardinality(Announces[Kind(r)])
    <2>1. CASE Announcements(i) = {}
      BY <1>3, <2>1
    <2>2. CASE \E k : Announcements(i) = {k}
      <3>1. PICK k : Announcements(i) = {k}
        BY <2>2
      <3>2. Announces[Kind(r)] = {announced[k].type}
        BY <1>3, <3>1
      <3>3. QED
        BY <3>1, <3>2, FS_Singleton
    <2>3. QED
      BY <1>3, <2>1, <2>2
  <1>5. Kind(r) = "reaction" => Cardinality(Told(i)) = 1
    BY <1>3, FS_Singleton
  <1>6. QED
    BY <1>2, <1>3, <1>4, <1>5 DEF Complete

LEMMA TruthHolds == ServerInv => ToldTruth
  <1>1. SUFFICES ASSUME ServerInv, NEW r \in DOMAIN requests, At(r, "answered"),
                        NEW arrives \in BOOLEAN, NEW readable \in BOOLEAN, NEW told,
                        told = apiError(requests[r].answer, arrives, readable)
                 PROVE  /\ told.status >= 400 => Own(r) = {}
                        /\ told.code = "NOT_FOUND" /\ Handler(Call(r).op) # "NOT_FOUND" => Missing(r)
                        /\ told.status \in {200, 201} /\ Kind(r) # "nothing" =>
                             \E i \in requests[r].answer.items : Mine(r, i)
                        /\ Cardinality(Own(r)) <= 1 /\ \A i \in Own(r) : Complete(i)
    BY DEF ToldTruth, Sent, Own, Call, Missing, Kind, Mine
  <1>2. Pc(r) = "answered" /\ Place(r) /\ Answered(r)
    BY <1>1 DEF At, Pc, ServerInv, PlacesInv
  <1>3. /\ told.status >= 400 => Code(r) # "none"
        /\ told.code = "NOT_FOUND" => Code(r) = "NOT_FOUND"
        /\ told.status \in {200, 201} => Code(r) = "none"
    BY <1>1, <1>2, ToldBy
  <1>4. told.status >= 400 => Own(r) = {}
    BY <1>2, <1>3 DEF Place
  <1>5. told.code = "NOT_FOUND" /\ Handler(Call(r).op) # "NOT_FOUND" => Missing(r)
    BY <1>2, <1>3 DEF Answered
  <1>6. told.status \in {200, 201} /\ Kind(r) # "nothing" => \E i \in requests[r].answer.items : Mine(r, i)
    BY <1>2, <1>3 DEF Place
  <1>7. Cardinality(Own(r)) <= 1
    <2>1. Own(r) = {} \/ \E i : Own(r) = {i}
      BY <1>2 DEF Place
    <2>2. Cardinality(Own(r)) \in {0, 1}
      BY <2>1, FS_EmptySet, FS_Singleton
    <2>3. QED
      BY <2>2
  <1>8. \A i \in Own(r) : Complete(i)
    BY <1>1, <1>2, OwnComplete
  <1>9. QED
    BY <1>4, <1>5, <1>6, <1>7, <1>8

(* The caller of the reference server is told what happened, whatever is sent *)
(* and whoever else sends: an error means that nothing was left behind, a 404 *)
(* that the target was not there, a success that the row is, announced once.  *)
THEOREM ToldTruthCorrect == ServerSpec => []ToldTruth
  BY ServerSafe, TruthHolds, PTL

-----------------------------------------------------------------------------
(* Duplicates, and the RSVP that stands                                      *)

LEMMA LeastOf ==
  ASSUME NEW T, T \subseteq Nat, T # {}
  PROVE  \E x \in T : \A y \in T : x <= y
  <1>1. PICK R : R = {pair \in Nat \X Nat : pair[1] < pair[2]}
    OBVIOUS
  <1>2. IsWellFoundedOn(R, Nat)
    BY <1>1, NatLessThanWellFounded, Zenon DEF OpToRel
  <1>3. PICK x \in T : \A y \in T : ~(<<y, x>> \in R)
    BY <1>2, WFMin
  <1>4. \A k, m \in Nat : k < m => <<k, m>> \in R
    BY <1>1
  <1>5. x \in Nat /\ \A y \in T : y \in Nat /\ ~(y < x)
    BY <1>3, <1>4, Zenon
  <1>6. QED
    BY <1>5

Matches(i, kind, account, of) ==
  i \in DOMAIN rows /\ rows[i].kind = kind /\ rows[i].by = account /\ rows[i].of = of

\* findMany with a limit of one overlooks nothing.
LEMMA NoneOverlooked ==
  ASSUME RowsInv, NEW kind, NEW account, NEW of
  PROVE  (\E i : Matches(i, kind, account, of)) => Existing(kind, account, of) # {}
  <1>1. PICK T : T = {i \in All(kind) : rows[i].by = account /\ rows[i].of = of}
    OBVIOUS
  <1>2. T \subseteq Nat
    BY <1>1, LenProperties DEF RowsInv, All
  <1>3. Existing(kind, account, of) = {i \in T : \A j \in T : i <= j}
    BY <1>1 DEF Existing
  <1>4. \A i : Matches(i, kind, account, of) => i \in T
    BY <1>1 DEF Matches, All
  <1>5. QED
    BY <1>2, <1>3, <1>4, LeastOf

\* Nor after a turn.
LEMMA NoneKept ==
  ASSUME RowsInv', NEW kind, NEW account, NEW of
  PROVE  (\E i : Matches(i, kind, account, of)') => Existing(kind, account, of)' # {}
  <1>1. PICK T : T = {i \in All(kind)' : rows'[i].by = account /\ rows'[i].of = of}
    OBVIOUS
  <1>2. T \subseteq Nat
    BY <1>1, LenProperties DEF RowsInv, All
  <1>3. Existing(kind, account, of)' = {i \in T : \A j \in T : i <= j}
    BY <1>1 DEF Existing
  <1>4. \A i : Matches(i, kind, account, of)' => i \in T
    BY <1>1 DEF Matches, All
  <1>5. QED
    BY <1>2, <1>3, <1>4, LeastOf

LEMMA ExistingKept ==
  ASSUME Grown, NEW kind, NEW account, NEW of,
         \A i \in DOMAIN rows' \ DOMAIN rows :
           ~(rows'[i].kind = kind /\ rows'[i].by = account /\ rows'[i].of = of)
  PROVE  Existing(kind, account, of)' = Existing(kind, account, of)
  <1>1. {i \in All(kind)' : rows'[i].by = account /\ rows'[i].of = of}
          = {i \in All(kind) : rows[i].by = account /\ rows[i].of = of}
    BY DEF Grown, All
  <1>2. QED
    BY <1>1 DEF Existing

\* Whoever makes what a request looked for in vain was under way when it was sent.
Fresh(r) ==
  Pc(r) = "listed" /\ Kind(r) \in OncePerAccount /\ Items(r) = {} =>
    \A i \in DOMAIN rows : Mine(r, i) => rows[i].request \in DOMAIN requests \ requests[r].after

Twins(i, j) ==
  /\ i # j /\ {i, j} \ DOMAIN FirstRows # {}
  /\ rows[i].kind = rows[j].kind /\ rows[i].kind \in OncePerAccount
  /\ rows[i].by = rows[j].by /\ rows[i].of = rows[j].of

\* The other RSVPs of the account to the event.
Rivals(r) ==
  {q \in Sent \ {r} : /\ Call(q).op = "rsvpEvent" /\ Call(q).as = Call(r).as
                      /\ Call(q).target = Call(r).target}

\* When no other is under way, a request finds the row that stands, and leaves it as it was told.
Standing(r) ==
  LET there == Existing("rsvp", Call(r).as, Call(r).target)
  IN Call(r).op = "rsvpEvent" /\ Pc(r) # "unsent" /\ Rivals(r) \subseteq requests[r].after =>
       /\ Pc(r) = "listed" => Items(r) = there
       /\ \/ Pc(r) \in {"created", "published", "updated"}
          \/ Pc(r) = "answered" /\ Code(r) = "none"
          => \E i \in there : rows[i].value = Call(r).body

HistoryInv ==
  /\ \A i, j \in DOMAIN rows : Twins(i, j) => Overlap(rows[i].request, rows[j].request)
  /\ \A r \in DOMAIN requests : Fresh(r) /\ Standing(r)

LEMMA FreshKept ==
  ASSUME ServerInv, NEW r \in DOMAIN requests, Kept(r), Pc(r) # "answered",
         NEW q \in DOMAIN requests, q # r, Fresh(q)
  PROVE  Fresh(q)'
  <1>1. requests'[q] = requests[q] /\ DOMAIN requests' = DOMAIN requests
    BY DEF Kept
  <1>2. Pc(q)' = Pc(q) /\ Items(q)' = Items(q) /\ Kind(q)' = Kind(q)
    BY <1>1, MineKept DEF Pc, Items
  <1>3. Pc(q) = "listed" => r \notin requests[q].after
    BY DEF ServerInv, CallsInv, CallFits
  <1>4. \A i \in DOMAIN rows' : Mine(q, i)' =>
          \/ i \in DOMAIN rows /\ Mine(q, i) /\ rows'[i].request = rows[i].request
          \/ rows'[i].request = r
    BY MineKept DEF Kept, Grown
  <1>5. QED
    BY <1>1, <1>2, <1>3, <1>4 DEF Fresh

\* Two rows that were there.
LEMMA TwinsKept ==
  ASSUME ServerInv, HistoryInv, NEW r, Kept(r),
         \A q \in DOMAIN requests : Pc(q) # "unsent" => requests'[q].after = requests[q].after,
         NEW i \in DOMAIN rows, NEW j \in DOMAIN rows, Twins(i, j)'
  PROVE  Overlap(rows[i].request, rows[j].request)'
  <1>1. PICK q, p : q = rows[i].request /\ p = rows[j].request
    OBVIOUS
  <1>2. Twins(i, j)
    BY DEF Twins, Kept, Grown
  <1>3. Overlap(q, p)
    BY <1>1, <1>2 DEF HistoryInv
  <1>4. q \in DOMAIN requests /\ p \in DOMAIN requests
    BY <1>3 DEF Overlap
  <1>5. i \in Own(q) /\ j \in Own(p)
    BY <1>1 DEF Own
  <1>6. Pc(q) # "unsent" /\ Pc(p) # "unsent"
    BY <1>4, <1>5 DEF ServerInv, PlacesInv, Place
  <1>7. Overlap(q, p)'
    BY <1>3, <1>4, <1>6 DEF Overlap, Kept
  <1>8. rows'[i].request = q /\ rows'[j].request = p
    BY <1>1 DEF Kept, Grown
  <1>9. QED
    BY <1>7, <1>8

LEMMA WritesTwins ==
  ASSUME ServerInv, NEW r \in DOMAIN requests, Fresh(r), NEW g, Turn(r, g), NEW value \in Values, Writes(r, g, value),
         NEW n, n = Len(rows) + 1, NEW j \in DOMAIN rows,
         rows[j].kind = Kind(r), Kind(r) \in OncePerAccount, rows[j].by = Call(r).as, rows[j].of = Of(Call(r))
  PROVE  Overlap(r, rows[j].request)' /\ Overlap(rows[j].request, r)'
  <1>1. Pc(r) = "listed" /\ Items(r) = {}
    BY DEF Writes, OncePerAccount, IsFound, Items
  <1>2. PICK q : q = rows[j].request /\ q \in DOMAIN requests \ requests[r].after
    BY <1>1 DEF Fresh, Mine
  <1>3. Own(r) = {} /\ j \in Own(q)
    BY <1>1, <1>2 DEF ServerInv, PlacesInv, Place, Own
  <1>4. q # r /\ Pc(q) # "unsent"
    BY <1>2, <1>3 DEF ServerInv, PlacesInv, Place
  <1>5. r \notin requests[q].after
    BY <1>1, <1>2, <1>4 DEF ServerInv, CallsInv, CallFits
  <1>6. /\ DOMAIN requests' = DOMAIN requests
        /\ \A p \in DOMAIN requests : requests'[p].after = requests[p].after
    BY TurnedFields DEF ServerInv, Turn
  <1>7. rows'[j].request = q
    BY <1>2, TurnKeeps DEF Kept, Grown
  <1>8. Overlap(r, q)' /\ Overlap(q, r)'
    BY <1>2, <1>4, <1>5, <1>6 DEF Overlap
  <1>9. QED
    BY <1>7, <1>8

\* An RSVP is what rsvpEvent makes, of the event the call names.
LEMMA RsvpIs ==
  ASSUME CallsInv, NEW r \in DOMAIN requests
  PROVE  /\ Kind(r) = "rsvp" <=> Call(r).op = "rsvpEvent"
         /\ Kind(r) = "rsvp" => Of(Call(r)) = Call(r).target
         /\ "rsvp" \in OncePerAccount
  BY HandledFor, PurposesAre DEF Kind, Of, CallsInv, CallFits, OncePerAccount

LEMMA RivalsKept ==
  ASSUME NEW r \in DOMAIN requests, Kept(r), Pc(r)' # "unsent", NEW q \in DOMAIN requests
  PROVE  /\ Rivals(q) \subseteq Rivals(q)'
         /\ r # q /\ Call(r).op = "rsvpEvent" /\ Call(r).as = Call(q).as /\ Call(r).target = Call(q).target
              => r \in Rivals(q)'
  <1>1. DOMAIN requests' = DOMAIN requests /\ \A p \in DOMAIN requests : p # r => requests'[p] = requests[p]
    BY DEF Kept
  <1>2. Sent \subseteq Sent' /\ r \in Sent'
    BY <1>1 DEF Sent, At, Pc
  <1>3. \A p \in DOMAIN requests : Call(p)' = Call(p)
    BY MineKept
  <1>4. Sent \subseteq DOMAIN requests
    BY DEF Sent
  <1>5. QED
    BY <1>2, <1>3, <1>4 DEF Rivals

LEMMA StandingKept ==
  ASSUME ServerInv, NEW r \in DOMAIN requests, Kept(r), Pc(r) # "answered", Pc(r)' # "unsent",
         \A i \in DOMAIN rows : rows'[i].value # rows[i].value => Mine(r, i),
         \A i \in DOMAIN rows' \ DOMAIN rows : Mine(r, i)',
         NEW q \in DOMAIN requests, q # r, Standing(q)
  PROVE  Standing(q)'
  <1>1. /\ requests'[q] = requests[q] /\ Pc(q)' = Pc(q) /\ Items(q)' = Items(q) /\ Code(q)' = Code(q)
        /\ Call(q)' = Call(q) /\ Call(r)' = Call(r) /\ Kind(r)' = Kind(r)
    BY MineKept DEF Kept, Pc, Items, Code
  <1>2. SUFFICES ASSUME Call(q).op = "rsvpEvent", Pc(q) # "unsent", Rivals(q)' \subseteq requests[q].after
                 PROVE  LET there == Existing("rsvp", Call(q).as, Call(q).target)'
                        IN /\ Pc(q) = "listed" => Items(q) = there
                           /\ \/ Pc(q) \in {"created", "published", "updated"}
                              \/ Pc(q) = "answered" /\ Code(q) = "none"
                              => \E i \in there : rows'[i].value = Call(q).body
    BY <1>1 DEF Standing
  <1>3. PICK account, of : account = Call(q).as /\ of = Call(q).target
    OBVIOUS
  <1>4. r \notin requests[q].after
    BY <1>2 DEF ServerInv, CallsInv, CallFits
  <1>5. Rivals(q) \subseteq requests[q].after
        /\ ~(Call(r).op = "rsvpEvent" /\ Call(r).as = account /\ Call(r).target = of)
    BY <1>2, <1>3, <1>4, RivalsKept
  <1>6. ~(Kind(r) = "rsvp" /\ Call(r).as = account /\ Of(Call(r)) = of)
    BY <1>5, RsvpIs DEF ServerInv
  <1>7. \A i \in DOMAIN rows' \ DOMAIN rows :
          ~(rows'[i].kind = "rsvp" /\ rows'[i].by = account /\ rows'[i].of = of)
    BY <1>1, <1>6 DEF Mine
  <1>8. PICK there : there = Existing("rsvp", account, of)' /\ there = Existing("rsvp", account, of)
    BY <1>7, ExistingKept DEF Kept
  <1>9. \A i \in there : rows'[i].value = rows[i].value
    <2>1. \A i \in there : i \in DOMAIN rows /\ rows[i].kind = "rsvp" /\ rows[i].by = account /\ rows[i].of = of
      BY <1>8, ExistingIs DEF ServerInv
    <2>2. QED
      BY <1>6, <2>1 DEF Mine
  <1>10. /\ Pc(q) = "listed" => Items(q) = there
         /\ \/ Pc(q) \in {"created", "published", "updated"}
            \/ Pc(q) = "answered" /\ Code(q) = "none"
            => \E i \in there : rows[i].value = Call(q).body
    BY <1>2, <1>3, <1>5, <1>8 DEF Standing
  <1>11. there = Existing("rsvp", Call(q).as, Call(q).target)'
    BY <1>1, <1>3, <1>8
  <1>12. QED
    BY <1>9, <1>10, <1>11

\* The turn of the request itself.
LEMMA TurnStands ==
  ASSUME ServerInv, NEW r \in DOMAIN requests, NEW g, Turn(r, g), Standing(r)
  PROVE  Standing(r)'
  <1>1. RowsInv /\ CallsInv /\ Place(r) /\ Kept(r) /\ Steady /\ Turned(r, g)
    BY TurnKeeps DEF ServerInv, PlacesInv, Turn
  <1>2. /\ Call(r)' = Call(r) /\ Pc(r)' = g.pc /\ Items(r)' = g.found.items /\ Code(r)' = g.answer.code
        /\ requests'[r].after = requests[r].after
    BY <1>1, TurnedFields
  <1>3. Pc(r) # "unsent" /\ g.pc # "unsent"
    BY TurnUnderWay DEF Pcs
  <1>4. SUFFICES ASSUME Call(r).op = "rsvpEvent", Rivals(r)' \subseteq requests[r].after
                 PROVE  LET there == Existing("rsvp", Call(r).as, Call(r).target)'
                        IN /\ g.pc = "listed" => g.found.items = there
                           /\ \/ g.pc \in {"created", "published", "updated"}
                              \/ g.pc = "answered" /\ g.answer.code = "none"
                              => \E i \in there : rows'[i].value = Call(r).body
    BY <1>2 DEF Standing
  <1>5. PICK account, of : account = Call(r).as /\ of = Call(r).target
    OBVIOUS
  <1>6. Kind(r) = "rsvp" /\ Of(Call(r)) = of /\ Kind(r) \in OncePerAccount
    BY <1>1, <1>4, <1>5, RsvpIs
  <1>7. Rivals(r) \subseteq requests[r].after
    BY <1>1, <1>2, <1>3, <1>4, RivalsKept
  <1>8. PICK before : before = Existing("rsvp", account, of)
    OBVIOUS
  <1>9. PICK there : there = Existing("rsvp", account, of)'
    OBVIOUS
  <1>10. /\ Pc(r) = "listed" => Items(r) = before
         /\ Pc(r) \in {"created", "published", "updated"} => \E i \in before : rows[i].value = Call(r).body
    BY <1>3, <1>4, <1>5, <1>7, <1>8 DEF Standing
  <1>11. DOMAIN rows' = DOMAIN rows => there = before
    BY <1>1, <1>8, <1>9, ExistingKept DEF Kept
  <1>12. SUFFICES /\ g.pc = "listed" => g.found.items = there
                  /\ \/ g.pc \in {"created", "published", "updated"}
                     \/ g.pc = "answered" /\ g.answer.code = "none"
                     => \E i \in there : rows'[i].value = Call(r).body
    BY <1>1, <1>2, <1>5, <1>9
  <1>13. CASE Fails(r, g) \/ Finds(r, g)
    <2>1. g.pc = "found" \/ (g.pc = "answered" /\ g.answer.code # "none")
      BY <1>13 DEF Fails, Finds, statusForError
    <2>2. QED
      BY <2>1
  <1>14. CASE Lists(r, g)
    BY <1>5, <1>6, <1>8, <1>11, <1>14 DEF Lists
  <1>15. ASSUME NEW value \in Values, Writes(r, g, value)
         PROVE  g.pc = "created" /\ \E i \in there : rows'[i].value = Call(r).body
    <2>1. g.pc = "created" /\ Pc(r) = "listed" /\ Items(r) = {} /\ value = Call(r).body
      BY <1>6, <1>15 DEF Writes, IsFound, Items
    <2>2. PICK n : /\ n \notin DOMAIN rows /\ DOMAIN rows' = DOMAIN rows \cup {n}
                   /\ \A i \in DOMAIN rows : rows'[i] = rows[i]
                   /\ rows'[n].kind = "rsvp" /\ rows'[n].by = account /\ rows'[n].of = of
                   /\ rows'[n].value = value
      BY <1>1, <1>5, <1>6, <1>15, WrittenRows
    <2>3. \A i : ~Matches(i, "rsvp", account, of)
      BY <1>1, <1>8, <1>10, <2>1, NoneOverlooked
    <2>4. PICK i \in there : TRUE
      <3>1. \E i : Matches(i, "rsvp", account, of)'
        BY <2>2 DEF Matches
      <3>2. QED
        BY <1>1, <1>9, <3>1, NoneKept DEF Steady
    <2>5. i \in DOMAIN rows' /\ rows'[i].kind = "rsvp" /\ rows'[i].by = account /\ rows'[i].of = of
      BY <1>9, <2>4 DEF Existing, All
    <2>6. i = n
      BY <2>2, <2>3, <2>5 DEF Matches
    <2>7. QED
      BY <2>1, <2>2, <2>4, <2>6
  <1>16. CASE Patches(r, g)
    <2>1. Pc(r) = "listed" /\ IsFound(r) /\ g.pc = "updated"
      BY <1>6, <1>16 DEF Patches
    <2>2. Items(r) = {Item(r)} /\ Item(r) \in DOMAIN rows
      BY <1>1, <1>6, <2>1, ItemPlaced DEF Mine
    <2>3. Call(r).body # "none"
      BY <1>1, <1>4 DEF CallsInv, CallFits
    <2>4. DOMAIN rows' = DOMAIN rows /\ rows'[Item(r)].value = Call(r).body
      BY <1>1, <1>16, <2>2, <2>3, PatchedRows
    <2>5. Item(r) \in there
      BY <1>10, <1>11, <2>1, <2>2, <2>4
    <2>6. QED
      BY <2>1, <2>4, <2>5
  <1>17. CASE \/ \E type \in EventTypes : Tells(r, g, type)
              \/ Replies(r, g)
    <2>1. Pc(r) \in {"created", "published", "updated"} /\ rows' = rows /\ g.pc # "listed"
      BY <1>6, <1>17 DEF Tells, Replies
    <2>2. QED
      BY <1>10, <1>11, <2>1
  <1>18. ~Settles(r, g) /\ ~Notifies(r, g)
    BY <1>6 DEF Settles, Notifies
  <1>19. QED
    BY <1>13, <1>14, <1>15, <1>16, <1>17, <1>18 DEF Turn

\* What is written, or changed, is as the call of its writer has it.
LEMMA ChangedAreMine ==
  ASSUME ServerInv, NEW r \in DOMAIN requests, NEW g, Turn(r, g)
  PROVE  /\ \A i \in DOMAIN rows : rows'[i].value # rows[i].value => Mine(r, i)
         /\ \A i \in DOMAIN rows' \ DOMAIN rows : Mine(r, i)'
  <1>1. RowsInv /\ CallsInv /\ Place(r) /\ Kept(r) /\ Turned(r, g)
    BY TurnKeeps DEF ServerInv, PlacesInv, Turn
  <1>2. CASE rows' = rows
    BY <1>2
  <1>3. ASSUME NEW value \in Values, Writes(r, g, value)
        PROVE  /\ \A i \in DOMAIN rows : rows'[i].value = rows[i].value
               /\ \A i \in DOMAIN rows' \ DOMAIN rows : Mine(r, i)'
    <2>1. Call(r)' = Call(r) /\ Kind(r)' = Kind(r)
      BY <1>1, TurnedFields
    <2>2. QED
      BY <1>1, <1>3, <2>1, WrittenRows DEF Mine
  <1>4. CASE Patches(r, g)
    <2>1. Pc(r) = "ensured" \/ (Pc(r) = "listed" /\ Kind(r) \in OncePerAccount /\ IsFound(r))
      BY <1>4 DEF Patches, OncePerAccount
    <2>2. Mine(r, Item(r)) /\ Item(r) \in DOMAIN rows
      BY <1>1, <2>1, ItemPlaced DEF Mine
    <2>3. DOMAIN rows' = DOMAIN rows /\ \A i \in DOMAIN rows : i # Item(r) => rows'[i] = rows[i]
      BY <1>1, <1>4, <2>2, PatchedRows
    <2>4. QED
      BY <2>2, <2>3
  <1>5. QED
    BY <1>2, <1>3, <1>4 DEF Turn, Fails, Finds, Lists, Tells, Settles, Notifies, Replies

LEMMA TurnFresh ==
  ASSUME ServerInv, NEW r \in DOMAIN requests, NEW g, Turn(r, g)
  PROVE  Fresh(r)'
  <1>1. RowsInv /\ CallsInv /\ Kept(r) /\ Turned(r, g)
    BY TurnKeeps DEF ServerInv, Turn
  <1>2. /\ Pc(r)' = g.pc /\ Items(r)' = g.found.items /\ Kind(r)' = Kind(r)
    BY <1>1, TurnedFields
  <1>3. SUFFICES ASSUME g.pc = "listed", Kind(r) \in OncePerAccount, g.found.items = {}, NEW i, Mine(r, i)'
                 PROVE  FALSE
    BY <1>2 DEF Fresh
  <1>4. Lists(r, g)
    BY <1>3 DEF Turn, Fails, Finds, Writes, Tells, Settles, Patches, Notifies, Replies
  <1>5. "nothing" \notin OncePerAccount
    BY DEF OncePerAccount
  <1>6. Existing(Kind(r), Call(r).as, Of(Call(r))) = {} /\ rows' = rows
    BY <1>3, <1>4, <1>5 DEF Lists
  <1>7. Mine(r, i)
    BY <1>1, <1>3, <1>6, MineKept DEF Mine
  <1>8. QED
    BY <1>1, <1>6, <1>7, NoneOverlooked DEF Mine, Matches

LEMMA TurnHistory ==
  ASSUME ServerInv, HistoryInv, NEW r \in DOMAIN requests, NEW g, Turn(r, g)
  PROVE  HistoryInv'
  <1>1. RowsInv /\ CallsInv /\ Kept(r) /\ Turned(r, g) /\ Fresh(r) /\ Standing(r)
    BY TurnKeeps DEF ServerInv, Turn, HistoryInv
  <1>2. /\ Pc(r) # "answered" /\ Pc(r)' # "unsent" /\ DOMAIN requests' = DOMAIN requests
        /\ \A q \in DOMAIN requests : requests'[q].after = requests[q].after
    BY <1>1, TurnUnderWay, TurnedFields DEF Pcs
  <1>3. ASSUME NEW q \in DOMAIN requests PROVE Fresh(q)' /\ Standing(q)'
    <2>1. CASE q = r
      BY <1>1, <2>1, TurnFresh, TurnStands
    <2>2. CASE q # r
      <3>1. Fresh(q) /\ Standing(q)
        BY DEF HistoryInv
      <3>2. Fresh(q)'
        BY <1>1, <1>2, <2>2, <3>1, FreshKept
      <3>3. Standing(q)'
        BY <1>1, <1>2, <2>2, <3>1, ChangedAreMine, StandingKept
      <3>4. QED
        BY <3>2, <3>3
    <2>3. QED
      BY <2>1, <2>2
  <1>4. ASSUME NEW i \in DOMAIN rows', NEW j \in DOMAIN rows', Twins(i, j)'
        PROVE  Overlap(rows[i].request, rows[j].request)'
    <2>1. CASE i \in DOMAIN rows /\ j \in DOMAIN rows
      BY <1>1, <1>2, <1>4, <2>1, TwinsKept
    <2>2. CASE ~(i \in DOMAIN rows /\ j \in DOMAIN rows)
      <3>1. PICK value \in Values : Writes(r, g, value)
        <4>1. DOMAIN rows' # DOMAIN rows
          BY <2>2
        <4>2. ~Patches(r, g)
          <5>1. SUFFICES ASSUME Patches(r, g) PROVE FALSE
            OBVIOUS
          <5>2. rows' = [rows EXCEPT ![Item(r)].value = IF Call(r).body = "none" THEN @ ELSE Call(r).body]
            BY <5>1 DEF Patches
          <5>3. QED
            BY <4>1, <5>2, <1>1 DEF RowsInv
        <4>3. QED
          BY <4>1, <4>2 DEF Turn, Fails, Finds, Lists, Tells, Settles, Notifies, Replies
      <3>2. PICK n : /\ n = Len(rows) + 1 /\ n \notin DOMAIN rows /\ DOMAIN rows' = DOMAIN rows \cup {n}
                     /\ \A k \in DOMAIN rows : rows'[k] = rows[k]
                     /\ rows'[n].kind = Kind(r) /\ rows'[n].by = Call(r).as /\ rows'[n].of = Of(Call(r))
                     /\ rows'[n].request = r
        BY <1>1, <3>1, WrittenRows
      <3>3. PICK k \in DOMAIN rows : \/ i = n /\ j = k
                                     \/ i = k /\ j = n
        BY <1>4, <2>2, <3>2 DEF Twins
      <3>4. /\ rows[k].kind = Kind(r) /\ Kind(r) \in OncePerAccount
            /\ rows[k].by = Call(r).as /\ rows[k].of = Of(Call(r))
        BY <1>4, <3>2, <3>3 DEF Twins
      <3>5. Overlap(r, rows[k].request)' /\ Overlap(rows[k].request, r)'
        BY <1>1, <3>1, <3>2, <3>4, WritesTwins
      <3>6. QED
        BY <3>2, <3>3, <3>5
    <2>3. QED
      BY <2>1, <2>2
  <1>5. QED
    BY <1>2, <1>3, <1>4 DEF HistoryInv

LEMMA SendHistory ==
  ASSUME ServerInv, HistoryInv, NEW r \in DOMAIN requests, NEW g, Sends(r, g)
  PROVE  HistoryInv'
  <1>1. RowsInv /\ CallsInv /\ Kept(r)
    BY SendKeeps DEF ServerInv
  <1>2. /\ Pc(r) = "unsent" /\ Pc(r)' \in {"reading", "answered"} /\ DOMAIN requests' = DOMAIN requests
        /\ Pc(r)' = g.pc /\ requests'[r] = g /\ rows' = rows /\ Call(r)' = Call(r)
        /\ \A q \in DOMAIN requests : Pc(q) # "unsent" => requests'[q].after = requests[q].after
    BY <1>1, SentFields DEF Sends
  <1>3. ASSUME NEW q \in DOMAIN requests PROVE Fresh(q)' /\ Standing(q)'
    <2>1. CASE q = r
      <3>1. Fresh(r)'
        BY <1>2 DEF Fresh
      <3>2. g.pc = "answered" /\ g.answer.code = "none" => Call(r).op # "rsvpEvent"
        BY DEF Sends
      <3>3. Standing(r)'
        BY <1>2, <3>2 DEF Standing, Code
      <3>4. QED
        BY <2>1, <3>1, <3>3
    <2>2. CASE q # r
      <3>1. Fresh(q) /\ Standing(q)
        BY DEF HistoryInv
      <3>2. Fresh(q)'
        BY <1>1, <1>2, <2>2, <3>1, FreshKept
      <3>3. Standing(q)'
        BY <1>1, <1>2, <2>2, <3>1, StandingKept
      <3>4. QED
        BY <3>2, <3>3
    <2>3. QED
      BY <2>1, <2>2
  <1>4. \A i, j \in DOMAIN rows' : Twins(i, j)' => Overlap(rows[i].request, rows[j].request)'
    BY <1>1, <1>2, TwinsKept
  <1>5. QED
    BY <1>2, <1>3, <1>4 DEF HistoryInv

LEMMA HistoryKept == ServerInv /\ HistoryInv /\ [ServerNext]_serverVars => HistoryInv'
  <1>1. ASSUME ServerInv, HistoryInv, ServerNext PROVE HistoryInv'
    BY <1>1, NextTurns, TurnHistory, SendHistory
  <1>2. ASSUME HistoryInv, UNCHANGED serverVars PROVE HistoryInv'
    <2>1. HistoryInv /\ rows' = rows /\ requests' = requests
      BY <1>2 DEF serverVars
    <2>2. ASSUME NEW q \in DOMAIN requests PROVE Fresh(q)' /\ Standing(q)'
      <3>1. Fresh(q) /\ Standing(q)
        BY <2>1 DEF HistoryInv
      <3>2. /\ Call(q)' = Call(q) /\ Kind(q)' = Kind(q) /\ Pc(q)' = Pc(q) /\ Items(q)' = Items(q)
            /\ Code(q)' = Code(q) /\ Rivals(q)' = Rivals(q) /\ \A i : Mine(q, i)' <=> Mine(q, i)
        BY <2>1 DEF Call, Kind, Pc, Items, Code, Rivals, Sent, At, Mine
      <3>3. \A kind, account, of : Existing(kind, account, of)' = Existing(kind, account, of)
        BY <2>1 DEF Existing, All
      <3>4. QED
        BY <2>1, <3>1, <3>2, <3>3 DEF Fresh, Standing
    <2>3. QED
      BY <2>1, <2>2 DEF HistoryInv, Twins, Overlap
  <1>3. QED
    BY <1>1, <1>2

LEMMA HistoryStarts == ServerInit => HistoryInv
  <1>1. SUFFICES ASSUME ServerInit PROVE HistoryInv
    OBVIOUS
  <1>2. rows = FirstRows
    BY <1>1 DEF ServerInit
  <1>3. \A r \in DOMAIN requests : Pc(r) = "unsent"
    BY <1>1 DEF ServerInit, Unsent, Pc
  <1>4. \A r \in DOMAIN requests : Fresh(r) /\ Standing(r)
    BY <1>3 DEF Fresh, Standing
  <1>5. QED
    BY <1>2, <1>4 DEF HistoryInv, Twins

LEMMA ServerHistory == ServerSpec => []HistoryInv
  BY ServerSafe, HistoryStarts, HistoryKept, PTL DEF ServerSpec

(* joinCommunity, rsvpEvent and ensureProfile look before they create: only  *)
(* requests that were in flight together leave an account two memberships,   *)
(* RSVPs or profiles, however many are sent.                                 *)
THEOREM DuplicatesOverlapCorrect == ServerSpec => []DuplicatesNeedOverlap
  <1>1. HistoryInv => DuplicatesNeedOverlap
    BY DEF HistoryInv, Twins, DuplicatesNeedOverlap
  <1>2. QED
    BY <1>1, ServerHistory, PTL

(* rsvpEvent: the RSVP that was answered while no other of the account to the *)
(* event was under way is what the next one will find, duplicates or not.     *)
THEOREM LastRsvpCorrect == ServerSpec => []LastRsvpStands
  <1>1. ServerInv /\ HistoryInv => LastRsvpStands
    <2>1. SUFFICES ASSUME ServerInv, HistoryInv, NEW r \in Sent,
                          Call(r).op = "rsvpEvent", At(r, "answered"), requests[r].answer.code = "none",
                          Rivals(r) \subseteq requests[r].after
                   PROVE  \E i \in Existing("rsvp", Call(r).as, Call(r).target) : rows[i].value = Call(r).body
      BY DEF LastRsvpStands, Rivals, Call
    <2>2. r \in DOMAIN requests /\ Pc(r) = "answered" /\ Code(r) = "none"
      BY <2>1 DEF Sent, At, Pc, Code
    <2>3. Standing(r)
      BY <2>1, <2>2 DEF HistoryInv
    <2>4. QED
      BY <2>1, <2>2, <2>3 DEF Standing
  <1>2. QED
    BY <1>1, ServerSafe, ServerHistory, PTL

=============================================================================

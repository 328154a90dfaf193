----------------------------- MODULE MCServices -----------------------------
(***************************************************************************)
(* The reference server and the adapters around it, each on its own         *)
(* instance: focus says which of them a behaviour is about.                 *)
(***************************************************************************)
EXTENDS ReferenceServer, Realtime, Notifications, ProviderAdapters, HealthProbe, Redaction,
        PostPipeline

CONSTANTS
  Focus,       \* the parts to explore
  Crowd        \* requests to the server

VARIABLE focus

-----------------------------------------------------------------------------
(* The first rows are a community, a post, an event and the profile of b;    *)
(* the fifth is the first one the calls create.                              *)

Request(op, as, target, body) == [op |-> op, as |-> as, target |-> target, body |-> body]

Reads ==
  {Request(op, "a", 0, b) : op \in {"listPosts", "listCommunities", "listEvents", "listMyNotifications"},
                         b \in {"none", "invalid"}}
  \cup {Request(op, "a", t, "none") : op \in {"getPost", "getProfile"}, t \in {2, 5}}
  \cup {Request(op, "a", 1, "none") : op \in {"getCommunity", "getEvent", "deletePosts"}}
  \cup {Request("getHealthz", "no token", 0, "none")}

Writes ==
  {Request("getMyProfile", as, 0, "none") : as \in {"a", "b"}}
  \cup {Request("updateMyProfile", "a", 0, b) : b \in {"odd", "good", "invalid"}}
  \cup {Request(op, "b", 0, b) : op \in {"createPost", "createCommunity", "createEvent"},
                              b \in {"good", "invalid", "not JSON"}}
  \cup {Request("createEvent", "b", 0, "odd")}
  \cup {Request("joinCommunity", as, 1, "none") : as \in {"a", "b", "stranger"}}
  \cup {Request("joinCommunity", "a", 9, "none")}
  \cup {Request("addReaction", "a", t, b) : t \in {2, 5}, b \in {"good", "invalid"}}
  \cup {Request("rsvpEvent", "a", t, b) : t \in {3, 5}, b \in {"going", "declined", "invalid"}}

\* Three calls that meet: retries, and a last one whose answer tells what is left.
Threes ==
  LET join(t)   == Request("joinCommunity", "a", t, "none")
      rsvp(b)   == Request("rsvpEvent", "a", 3, b)
      react     == Request("addReaction", "a", 5, "good")
      profile   == Request("getMyProfile", "a", 0, "none")
      edit      == Request("updateMyProfile", "a", 0, "good")
      post      == Request("createPost", "b", 0, "good")
      community == Request("createCommunity", "b", 0, "good")
  IN {<<join(1), join(1), join(1)>>, <<community, join(5), join(5)>>,
      <<rsvp("going"), rsvp("declined"), rsvp("maybe")>>,
      <<profile, edit, profile>>, <<edit, edit, edit>>,
      <<post, react, Request("listMyNotifications", "b", 0, "none")>>, <<post, react, react>>}

MCScripts ==
  {script \in {<<c>> : c \in Reads \cup Writes} \cup Writes \X (Writes \cup Reads) \cup Threes :
     Len(script) <= Crowd}

Earlier(kind) == [kind |-> kind, by |-> "b", of |-> 0, value |-> "good", request |-> 0]

MCFirstRows == <<Earlier("community"), Earlier("post"), Earlier("event"), Earlier("profile")>>

-----------------------------------------------------------------------------

MCDedupings == {{}, {"room_joined"}, {"call_participant_removed", "presence_updated"}}

-----------------------------------------------------------------------------

Pref(off, muted) == [off |-> off, muted |-> muted]

MCPreferences == {Pref({}, {}), Pref({"email"}, {})}
MCChannels    == <<"email", "pager">>
MCMaxOutcomes == [t \in {"db", "ai"} |-> IF t = "db" THEN 3 ELSE 1]

-----------------------------------------------------------------------------

vars == <<focus, serverVars, realtimeVars, notificationVars, providerVars, healthVars, payload, pipelineVars>>

MCInit ==
  /\ focus \in Focus
  /\ ServerInit /\ RealtimeInit /\ NotificationInit /\ ProviderInit /\ HealthInit
  /\ RedactionInit /\ PipelineInit
  /\ focus # "server" => requests = <<Unsent(Request("getHealthz", "no token", 0, "none"))>>
  /\ focus # "realtime" => deduping = {}

MCNext ==
  /\ UNCHANGED focus
  /\ \/ /\ focus = "server" /\ ServerNext
        /\ UNCHANGED <<realtimeVars, notificationVars, providerVars, healthVars, payload, pipelineVars>>
     \/ /\ focus = "realtime" /\ RealtimeNext
        /\ UNCHANGED <<serverVars, notificationVars, providerVars, healthVars, payload, pipelineVars>>
     \/ /\ focus = "notifications" /\ NotificationNext
        /\ UNCHANGED <<serverVars, realtimeVars, providerVars, healthVars, payload, pipelineVars>>
     \/ /\ focus = "rate limit" /\ (ClockNext \/ LimiterNext)
        /\ UNCHANGED <<serverVars, realtimeVars, notificationVars, healthVars, payload, pipelineVars>>
     \/ /\ focus = "auth" /\ (ClockNext \/ SessionNext)
        /\ UNCHANGED <<serverVars, realtimeVars, notificationVars, healthVars, payload, pipelineVars>>
     \/ /\ focus = "health" /\ HealthNext
        /\ UNCHANGED <<serverVars, realtimeVars, notificationVars, providerVars, payload, pipelineVars>>
     \/ /\ focus = "redaction" /\ Nest
        /\ UNCHANGED <<serverVars, realtimeVars, notificationVars, providerVars, healthVars, pipelineVars>>
     \/ /\ focus = "pipeline" /\ PipelineNext
        /\ UNCHANGED <<serverVars, realtimeVars, notificationVars, providerVars, healthVars, payload>>

Spec == MCInit /\ [][MCNext]_vars
=============================================================================

---------------------------- MODULE PostPipeline ----------------------------
(***************************************************************************)
(* createReferencePlatform (examples/reference-adapters/src/platform.ts):   *)
(* what follows the publication of a post, in one handler on the in-memory  *)
(* bus, with LocalPubSub (packages/realtime/src/local/pubsub.ts) between    *)
(* the author's post and the subscribers of the author's feed.              *)
(*                                                                          *)
(* Subscribers are the host's and may throw.  Nothing else here does, so    *)
(* that is what the bus retries for: the handler runs from its start again, *)
(* and posts may be deleted and subscribers come and go meanwhile.          *)
(***************************************************************************)
EXTENDS Naturals, Sequences, FiniteSets, SequencesExt

CONSTANTS
  Posts,         \* of one author
  Listeners,     \* handlers subscribed to the author's feed
  maxAttempts    \* of the bus's DEFAULT_DELIVERY_POLICY

ASSUME PipelineAssumption == maxAttempts \in Nat \ {0}

VARIABLES
  posts,         \* the repository
  run,           \* post -> its delivery: what it waits for, and its attempts so far
  feed,          \* the listeners of the topic, in the order they subscribed
  indexed,       \* the search index
  audited,       \* the audit log
  heard,         \* listener -> the posts it was told of
  summaries,     \* post -> calls of generateText, and of recordSuccess after it
  authorInbox    \* what the author was told of

pipelineVars == <<posts, run, feed, indexed, audited, heard, summaries, authorInbox>>

NotPublished == [at |-> "new", attempt |-> 0, found |-> 0, todo |-> << >>]

PipelineInit ==
  /\ posts = {} /\ run = [p \in Posts |-> NotPublished]
  /\ feed = << >> /\ heard = [l \in Listeners |-> << >>]
  /\ indexed = {} /\ audited = << >> /\ summaries = [p \in Posts |-> 0] /\ authorInbox = << >>

-----------------------------------------------------------------------------
(* The author, and the listeners                                            *)

writePost(p) ==
  /\ run[p].at = "new"
  /\ posts' = posts \cup {p} /\ run' = [run EXCEPT ![p].at = "created"]
  /\ UNCHANGED <<feed, indexed, audited, heard, summaries, authorInbox>>

deletePost(p) ==
  /\ p \in posts /\ posts' = posts \ {p}
  /\ UNCHANGED <<run, feed, indexed, audited, heard, summaries, authorInbox>>

subscribe(l) ==
  /\ ~Contains(feed, l) /\ feed' = Append(feed, l)
  /\ UNCHANGED <<posts, run, indexed, audited, heard, summaries, authorInbox>>

unsubscribe(l) ==
  /\ \E k \in DOMAIN feed : feed[k] = l /\ feed' = RemoveAt(feed, k)
  /\ UNCHANGED <<posts, run, indexed, audited, heard, summaries, authorInbox>>

-----------------------------------------------------------------------------
(* The handler: what it awaits, one after the other                         *)

(* Fault: the author is told before the feed is.                             *)
Steps_NotifyBeforeFeed == <<"index", "record", "notify", "publish", "generate">>

Steps == <<"index", "record", "publish", "generate", "notify">>

After(step) ==
  LET i == CHOOSE k \in DOMAIN Steps : Steps[k] = step
  IN IF i = Len(Steps) THEN "handled" ELSE Steps[i + 1]

\* The bus starts the handler, which looks the post up in the same turn.
Started(p) ==
  [at |-> IF p \in posts THEN Head(Steps) ELSE "handled", attempt |-> run[p].attempt + 1,
   found |-> IF p \in posts THEN run[p].found + 1 ELSE run[p].found, todo |-> << >>]

Publish(p) ==
  /\ run[p].at = "created" /\ run' = [run EXCEPT ![p] = Started(p)]
  /\ UNCHANGED <<posts, feed, indexed, audited, heard, summaries, authorInbox>>

Past(p, step) == run[p].at = step /\ run' = [run EXCEPT ![p].at = After(step)]

index(p) ==
  /\ Past(p, "index") /\ indexed' = indexed \cup {p}
  /\ UNCHANGED <<posts, feed, audited, heard, summaries, authorInbox>>

record(p) ==
  /\ Past(p, "record") /\ audited' = Append(audited, p)
  /\ UNCHANGED <<posts, feed, indexed, heard, summaries, authorInbox>>

\* LocalPubSub.publish takes a snapshot, and calls the first in the same turn.
TellListeners(p, listeners) ==
  IF listeners = << >>
  THEN /\ run' = [run EXCEPT ![p] = [@ EXCEPT !.at = After("publish"), !.todo = << >>]]
       /\ UNCHANGED heard
  ELSE /\ run' = [run EXCEPT ![p] = [@ EXCEPT !.at = "telling", !.todo = listeners]]
       /\ heard' = [heard EXCEPT ![Head(listeners)] = Append(@, p)]

publishToFeed(p) ==
  /\ run[p].at = "publish" /\ TellListeners(p, feed)
  /\ UNCHANGED <<posts, feed, indexed, audited, summaries, authorInbox>>

ListenerReturns(p) ==
  /\ run[p].at = "telling" /\ TellListeners(p, Tail(run[p].todo))
  /\ UNCHANGED <<posts, feed, indexed, audited, summaries, authorInbox>>

\* Nothing catches it before the bus, which has no sink.
ListenerThrows(p) ==
  /\ run[p].at = "telling"
  /\ run' = [run EXCEPT ![p] = IF @.attempt < maxAttempts THEN Started(p)
                               ELSE [@ EXCEPT !.at = "dropped", !.todo = << >>]]
  /\ UNCHANGED <<posts, feed, indexed, audited, heard, summaries, authorInbox>>

generateText(p) ==
  /\ Past(p, "generate") /\ summaries' = [summaries EXCEPT ![p] = @ + 1]
  /\ UNCHANGED <<posts, feed, indexed, audited, heard, authorInbox>>

\* The event it publishes has no subscribers here; the preferences allow all.
tellAuthor(p) ==
  /\ Past(p, "notify") /\ authorInbox' = Append(authorInbox, p)
  /\ UNCHANGED <<posts, feed, indexed, audited, heard, summaries>>

PipelineNext ==
  \/ \E p \in Posts :
       \/ writePost(p) \/ deletePost(p) \/ Publish(p) \/ index(p) \/ record(p) \/ publishToFeed(p)
       \/ ListenerReturns(p) \/ ListenerThrows(p) \/ generateText(p) \/ tellAuthor(p)
  \/ \E l \in Listeners : subscribe(l) \/ unsubscribe(l)

PipelineSpec == PipelineInit /\ [][PipelineNext]_pipelineVars

-----------------------------------------------------------------------------

Times(p, log) == Cardinality({i \in DOMAIN log : log[i] = p})

Settled(p) == run[p].at \in {"handled", "dropped"}

(* However often the bus retries, the author is told of a post once if its   *)
(* delivery was handled while the post was there, and not at all if it was   *)
(* dropped, or deleted first; what comes before the feed is done once per    *)
(* attempt that found the post, what comes after it once; and a listener is  *)
(* told at most once per attempt.  A delivery is dropped only after          *)
(* maxAttempts listeners' errors, and its post is in the index all the same. *)
AuthorToldOnce == \A p \in Posts :
  /\ Times(p, authorInbox) <= 1 /\ Times(p, authorInbox) <= summaries[p] /\ summaries[p] <= 1
  /\ \A l \in Listeners : Times(p, heard[l]) <= Times(p, audited)
  /\ Settled(p) =>
       LET done == run[p].at = "handled" /\ run[p].found = run[p].attempt
       IN /\ Times(p, authorInbox) = IF done THEN 1 ELSE 0
          /\ summaries[p] = Times(p, authorInbox)
          /\ Times(p, audited) = run[p].found
          /\ p \in indexed <=> run[p].found > 0
          /\ run[p].at = "dropped" =>
               /\ run[p].found = maxAttempts
               /\ \E l \in Listeners : Times(p, heard[l]) > 0
=============================================================================

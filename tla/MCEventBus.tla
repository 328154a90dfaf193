----------------------------- MODULE MCEventBus -----------------------------
(* Values of EventBus's constants for TLC.                                 *)
EXTENDS EventBus

Event(t, key) == [type |-> t, idempotencyKey |-> key]
Sub(id, t, idempotent) == [id |-> id, type |-> t, idempotent |-> idempotent]

\* Two events share a key: a redelivery with the same logical fact.
e1 == Event("post.created", "k1")
e2 == Event("post.created", "k2")
e3 == Event("poll.closed", "k1")

MCTypes  == {"post.created", "poll.closed"}
MCKeys   == {"k1", "k2"}
MCEvents == {e1, e2, e3}

\* Two subscriptions of one type that dedupe, on seen sets of their own.
DedupeSubs == {Sub("feed", "post.created", TRUE), Sub("mail", "post.created", TRUE)}

\* One that dedupes beside one of its type that sees every redelivery, and one
\* of another type.
MixedSubs == {Sub("feed", "post.created", TRUE), Sub("audit", "post.created", FALSE),
              Sub("tally", "poll.closed", TRUE)}

\* The same event, published by everyone.
SameEvent == {<<e1>>}

\* A batch that mixes types, one that repeats an event, an empty one.
MixedBatches == {<<e1, e3>>, <<e2, e1>>, <<>>}
=============================================================================

---------------------------- MODULE MediaUploads ----------------------------
(***************************************************************************)
(* LocalMediaService over InMemoryObjectStorage (packages/media/src).      *)
(*                                                                         *)
(* A caller makes one call after the other; a call suspends where it       *)
(* awaits storage or the bus.  InMemoryObjectStorage has done its work when *)
(* it is called, the caller hears of it when it resumes.  An upload and its *)
(* asset are one element of Uploads: ids are fresh, so no two share one.   *)
(* An input the policy rejects throws before anything changes and is left  *)
(* out, as are the kinds, sizes and names of assets.                       *)
(***************************************************************************)
EXTENDS Naturals, FiniteSets

CONSTANTS
  Uploads,  \* upload ids, each with its asset and its storage key
  Callers   \* bound: calls in flight at once

VARIABLES
  uploads,    \* LocalMediaService.uploads: the open sessions
  assets,     \* LocalMediaService.assets
  objects,    \* InMemoryObjectStorage.keys
  announced,  \* per upload, media.asset_uploaded events published (history)
  known,      \* uploads whose beginUpload has returned the id (history)
  raced,      \* uploads two calls were about to write at once (history)
  call        \* per caller, what its call waits for and the local variables

vars == <<uploads, assets, objects, announced, known, raced, call>>

-----------------------------------------------------------------------------

\* An absent asset is one the map has no entry for.
Asset == [state : {"absent", "pending", "ready", "deleted"}, publicUrl : BOOLEAN]
absent == [state |-> "absent", publicUrl |-> FALSE]
pending == [state |-> "pending", publicUrl |-> FALSE]

\* Waiting for storage, with a write to make when it answers; a completion that
\* waits for the bus has none.
Writing == {"putting", "gettingUrl", "aborting", "deleting"}

\* url is what getUrl returned; asset what deleteAsset read before its await.
Call == [pc : {"publishing"} \cup Writing, upload : Uploads,
         url : BOOLEAN, asset : Asset]

Idle == [pc |-> "idle"]

TypeOK ==
  /\ uploads \subseteq Uploads /\ objects \subseteq Uploads
  /\ known \subseteq Uploads /\ raced \subseteq Uploads
  /\ assets \in [Uploads -> Asset]
  /\ announced \in [Uploads -> Nat]
  /\ call \in [Callers -> Call \cup {Idle}]

Init ==
  /\ uploads = {} /\ objects = {} /\ known = {} /\ raced = {}
  /\ assets = [u \in Uploads |-> absent]
  /\ announced = [u \in Uploads |-> 0]
  /\ call = [c \in Callers |-> Idle]

-----------------------------------------------------------------------------

Writers(u) == {c \in Callers : call[c].pc \in Writing /\ call[c].upload = u}

\* c's call works on u and awaits what pc says.
Begins(c, u, pc, url, asset) ==
  /\ call[c] = Idle
  /\ call' = [call EXCEPT ![c] = [pc |-> pc, upload |-> u, url |-> url, asset |-> asset]]
  /\ raced' = IF Writers(u) = {} THEN raced ELSE raced \cup {u}

\* c's call returns.
Ends(c, from) ==
  /\ call[c].pc = from
  /\ call' = [call EXCEPT ![c] = Idle]
  /\ UNCHANGED raced

\* beginUpload under a fresh id: storage first, the session and its asset once it has answered.
BeginUpload(c, u) ==
  /\ u \notin known /\ Writers(u) = {}
  /\ Begins(c, u, "putting", FALSE, absent)
  /\ objects' = objects \cup {u}
  /\ UNCHANGED <<uploads, assets, announced, known>>

BeginReturns(c) ==
  LET u == call[c].upload IN
  /\ Ends(c, "putting")
  /\ uploads' = uploads \cup {u}
  /\ assets' = [assets EXCEPT ![u] = pending]
  /\ known' = known \cup {u}
  /\ UNCHANGED <<objects, announced>>

\* completeUpload: an unknown or closed session throws NOT_FOUND.
CompleteUpload(c, u) ==
  \/ /\ u \in uploads
     /\ Begins(c, u, "gettingUrl", u \in objects, absent)
     /\ UNCHANGED <<uploads, assets, objects, announced, known>>
  \/ /\ u \in known \ uploads
     /\ call[c] = Idle
     /\ UNCHANGED vars

\* Fault: the session stays open.
CompletePublishes_KeepsSession(c) ==
  LET u == call[c].upload IN
  /\ call[c].pc = "gettingUrl"
  /\ call' = [call EXCEPT ![c].pc = "publishing"]
  /\ assets' = [assets EXCEPT ![u] = [state |-> "ready", publicUrl |-> call[c].url]]
  /\ announced' = [announced EXCEPT ![u] = @ + 1]
  /\ UNCHANGED <<uploads, objects, known, raced>>

\* The asset is ready whatever happened to the session during the await.
CompletePublishes(c) ==
  LET u == call[c].upload IN
  /\ call[c].pc = "gettingUrl"
  /\ call' = [call EXCEPT ![c].pc = "publishing"]
  /\ assets' = [assets EXCEPT ![u] = [state |-> "ready", publicUrl |-> call[c].url]]
  /\ uploads' = uploads \ {u}
  /\ announced' = [announced EXCEPT ![u] = @ + 1]
  /\ UNCHANGED <<objects, known, raced>>

\* completeUpload returns, or rejects as publish did: nothing is undone.
CompleteEnds(c) ==
  /\ Ends(c, "publishing")
  /\ UNCHANGED <<uploads, assets, objects, announced, known>>

\* Fault: the object is left in storage.
AbortUpload_KeepsObject(c, u) ==
  /\ u \in uploads
  /\ Begins(c, u, "aborting", FALSE, absent)
  /\ UNCHANGED <<uploads, assets, objects, announced, known>>

\* abortUpload: an unknown or closed session is left alone.
AbortUpload(c, u) ==
  \/ /\ u \in uploads
     /\ Begins(c, u, "aborting", FALSE, absent)
     /\ objects' = objects \ {u}
     /\ UNCHANGED <<uploads, assets, announced, known>>
  \/ /\ u \in known \ uploads
     /\ call[c] = Idle
     /\ UNCHANGED vars

\* Fault: the session is not closed.
AbortReturns_KeepsSession(c) ==
  LET u == call[c].upload IN
  /\ Ends(c, "aborting")
  /\ assets' = [assets EXCEPT ![u] = absent]
  /\ UNCHANGED <<uploads, objects, announced, known>>

AbortReturns(c) ==
  LET u == call[c].upload IN
  /\ Ends(c, "aborting")
  /\ assets' = [assets EXCEPT ![u] = absent]
  /\ uploads' = uploads \ {u}
  /\ UNCHANGED <<objects, announced, known>>

\* deleteAsset, of an asset that was announced: only the event tells its id.  One
\* that has no entry is left alone.
DeleteAsset(c, u) ==
  /\ announced[u] > 0
  /\ \/ /\ assets[u] # absent
        /\ Begins(c, u, "deleting", FALSE, assets[u])
        /\ objects' = objects \ {u}
        /\ UNCHANGED <<uploads, assets, announced, known>>
     \/ assets[u] = absent /\ call[c] = Idle /\ UNCHANGED vars

\* Faults: the asset is left as it was; only its state is written back.
DeleteReturns_KeepsState(c) ==
  /\ Ends(c, "deleting")
  /\ UNCHANGED <<uploads, assets, objects, announced, known>>
DeleteReturns_DropsFields(c) ==
  /\ Ends(c, "deleting")
  /\ assets' = [assets EXCEPT ![call[c].upload] = [state |-> "deleted"]]
  /\ UNCHANGED <<uploads, objects, announced, known>>

\* What is written back is the copy read before the await, marked deleted.
DeleteReturns(c) ==
  /\ Ends(c, "deleting")
  /\ assets' = [assets EXCEPT ![call[c].upload] = [call[c].asset EXCEPT !.state = "deleted"]]
  /\ UNCHANGED <<uploads, objects, announced, known>>

-----------------------------------------------------------------------------

Next ==
  \/ \E c \in Callers, u \in Uploads :
       BeginUpload(c, u) \/ CompleteUpload(c, u) \/ AbortUpload(c, u) \/ DeleteAsset(c, u)
  \/ \E c \in Callers :
       \/ BeginReturns(c) \/ CompletePublishes(c) \/ CompleteEnds(c)
       \/ AbortReturns(c) \/ DeleteReturns(c)

Spec == Init /\ [][Next]_vars

-----------------------------------------------------------------------------
(* Properties                                                              *)

\* Storage holds nothing that no asset accounts for, however the calls overlap:
\* an object belongs to an upload being begun or to a pending or ready asset.
NoOrphanObject ==
  \A u \in objects :
    \/ \E c \in Writers(u) : call[c].pc = "putting"
    \/ assets[u].state \in {"pending", "ready"}

\* A session is open exactly as long as its asset is pending.
OpenIsPending == uploads = {u \in Uploads : assets[u].state = "pending"}

\* If no two calls for an upload overlap, its asset goes from pending to ready to
\* deleted or is discarded by an abort, is announced once, when it becomes ready,
\* and comes back from neither end (assets.ts:17 MediaAssetState).
Lifecycle ==
  [][\A u \in Uploads \ raced' :
       LET was == assets[u].state
           is  == assets'[u].state
       IN  /\ was # is => <<was, is>> \in {<<"absent", "pending">>, <<"pending", "ready">>,
                                           <<"pending", "absent">>, <<"ready", "deleted">>}
           /\ <<was, is>> = <<"absent", "pending">> => u \notin known
           /\ announced'[u] # announced[u] => announced[u] = 0 /\ is = "ready"]_vars

\* If no two calls for an upload overlap, a ready asset that is not being deleted
\* has its object and a URL, and a deleted one has no object.
ReadyIsStored ==
  \A u \in Uploads \ raced : Writers(u) = {} =>
    /\ assets[u].state = "ready" => u \in objects /\ assets[u].publicUrl
    /\ assets[u].state = "deleted" => u \notin objects

\* What an abort has discarded stays discarded: an asset that has had an entry
\* and lost it, which only abortUpload does, never has one again (uploads.ts:59
\* "Abort an in-flight upload, discarding any partial state").  The code does not
\* keep this when the abort overtakes a completion.
AbortDiscards == [][\A u \in known : assets[u] = absent => assets'[u] = absent]_vars
=============================================================================

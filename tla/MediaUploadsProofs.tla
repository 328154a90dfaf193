------------------------- MODULE MediaUploadsProofs -------------------------
(* Theorems about MediaUploads, for any number of uploads and callers.     *)
EXTENDS MediaUploads, TLAPS

\* What an upload is known by: only a known one can be open, announced, aborted
\* or deleted, and one whose beginUpload is in flight is in nobody else's hands.
KnownFirst ==
  /\ uploads \subseteq known
  /\ \A u \in Uploads : announced[u] > 0 => u \in known
  /\ \A c \in Callers :
       /\ call[c].pc = "putting" => call[c].upload \notin known
       /\ call[c].pc \in {"gettingUrl", "aborting", "deleting"} => call[c].upload \in known

BegunOnce ==
  \A c, d \in Callers :
    call[c].pc = "putting" /\ call[d].pc = "putting" /\ call[c].upload = call[d].upload => c = d

\* An abort or a deletion in flight has taken the object away, and nothing puts
\* it back.
Removed ==
  \A c \in Callers : call[c].pc \in {"aborting", "deleting"} => call[c].upload \notin objects

\* Announcing closes the session for good, and only announced assets are deleted.
AnnouncedClosed ==
  /\ \A u \in Uploads : announced[u] > 0 => u \notin uploads
  /\ \A c \in Callers : call[c].pc = "deleting" => announced[call[c].upload] > 0

IInv == TypeOK /\ KnownFirst /\ BegunOnce /\ Removed /\ AnnouncedClosed
        /\ NoOrphanObject /\ OpenIsPending

LEMMA InitIInv == Init => IInv
  BY DEF Init, IInv, TypeOK, KnownFirst, BegunOnce, Removed, AnnouncedClosed,
         NoOrphanObject, OpenIsPending, Asset, absent, Idle

\* A caller between two calls waits for nothing; one that writes has an upload.
LEMMA CallShape ==
  ASSUME TypeOK, NEW c \in Callers
  PROVE  /\ call[c] = Idle => call[c].pc = "idle"
         /\ call[c].pc \in Writing \cup {"publishing"} => call[c] \in Call
         /\ call[c] \in Call => /\ call[c].upload \in Uploads
                                /\ call[c].url \in BOOLEAN /\ call[c].asset \in Asset
  <1>1. call[c] \in Call \/ call[c] = Idle
    BY DEF TypeOK
  <1>2. Idle.pc = "idle"
    BY DEF Idle
  <1>3. QED
    BY <1>1, <1>2 DEF Call, Writing

LEMMA TypeStep == IInv /\ [Next]_vars => TypeOK'
  <1> SUFFICES ASSUME IInv, [Next]_vars PROVE TypeOK'
    OBVIOUS
  <1> USE DEF IInv
  <1>1. ASSUME NEW c \in Callers, NEW u \in Uploads, NEW pc \in Writing, NEW url \in BOOLEAN,
               NEW asset \in Asset, Begins(c, u, pc, url, asset)
        PROVE  call' \in [Callers -> Call \cup {Idle}] /\ raced' \subseteq Uploads
    <2>1. [pc |-> pc, upload |-> u, url |-> url, asset |-> asset] \in Call
      BY DEF Call
    <2>2. QED
      BY <1>1, <2>1 DEF Begins, TypeOK
  <1>2. ASSUME NEW c \in Callers, NEW from, Ends(c, from)
        PROVE  call' \in [Callers -> Call \cup {Idle}] /\ raced' \subseteq Uploads
    BY <1>2 DEF Ends, TypeOK
  <1>3. absent \in Asset /\ pending \in Asset
    BY DEF absent, pending, Asset
  <1>4. ASSUME NEW c \in Callers, NEW u \in Uploads, BeginUpload(c, u) PROVE TypeOK'
    <2>1. call' \in [Callers -> Call \cup {Idle}] /\ raced' \subseteq Uploads
      BY <1>1, <1>3, <1>4 DEF BeginUpload, Writing
    <2>2. QED
      BY <1>4, <2>1 DEF BeginUpload, TypeOK
  <1>5. ASSUME NEW c \in Callers, NEW u \in Uploads, CompleteUpload(c, u) PROVE TypeOK'
    <2>1. CASE UNCHANGED vars
      BY <2>1 DEF vars, TypeOK
    <2>2. CASE Begins(c, u, "gettingUrl", u \in objects, absent)
               /\ UNCHANGED <<uploads, assets, objects, announced, known>>
      <3>1. (u \in objects) \in BOOLEAN
        OBVIOUS
      <3>2. call' \in [Callers -> Call \cup {Idle}] /\ raced' \subseteq Uploads
        BY <1>1, <1>3, <2>2, <3>1 DEF Writing
      <3>3. QED
        BY <2>2, <3>2 DEF TypeOK
    <2>3. QED
      BY <1>5, <2>1, <2>2 DEF CompleteUpload
  <1>6. ASSUME NEW c \in Callers, NEW u \in Uploads, AbortUpload(c, u) PROVE TypeOK'
    <2>1. CASE UNCHANGED vars
      BY <2>1 DEF vars, TypeOK
    <2>2. CASE Begins(c, u, "aborting", FALSE, absent) /\ objects' = objects \ {u}
               /\ UNCHANGED <<uploads, assets, announced, known>>
      <3>1. call' \in [Callers -> Call \cup {Idle}] /\ raced' \subseteq Uploads
        BY <1>1, <1>3, <2>2 DEF Writing
      <3>2. QED
        BY <2>2, <3>1 DEF TypeOK
    <2>3. QED
      BY <1>6, <2>1, <2>2 DEF AbortUpload
  <1>7. ASSUME NEW c \in Callers, NEW u \in Uploads, DeleteAsset(c, u) PROVE TypeOK'
    <2>1. CASE UNCHANGED vars
      BY <2>1 DEF vars, TypeOK
    <2>2. CASE Begins(c, u, "deleting", FALSE, assets[u]) /\ objects' = objects \ {u}
               /\ UNCHANGED <<uploads, assets, announced, known>>
      <3>1. assets[u] \in Asset
        BY DEF TypeOK
      <3>2. call' \in [Callers -> Call \cup {Idle}] /\ raced' \subseteq Uploads
        BY <1>1, <2>2, <3>1 DEF Writing
      <3>3. QED
        BY <2>2, <3>2 DEF TypeOK
    <2>3. QED
      BY <1>7, <2>1, <2>2 DEF DeleteAsset
  <1>8. ASSUME NEW c \in Callers, BeginReturns(c) PROVE TypeOK'
    <2>1. call[c].upload \in Uploads
      BY <1>8, CallShape DEF BeginReturns, Ends, Writing
    <2>2. call' \in [Callers -> Call \cup {Idle}] /\ raced' \subseteq Uploads
      BY <1>2, <1>8 DEF BeginReturns
    <2>3. QED
      BY <1>3, <1>8, <2>1, <2>2 DEF BeginReturns, TypeOK
  <1>9. ASSUME NEW c \in Callers, CompletePublishes(c) PROVE TypeOK'
    <2> DEFINE u == call[c].upload
               ready == [state |-> "ready", publicUrl |-> call[c].url]
    <2>1. call[c] \in Call /\ u \in Uploads /\ call[c].url \in BOOLEAN
      BY <1>9, CallShape DEF CompletePublishes, Writing
    <2>2. ready \in Asset
      BY <2>1 DEF Asset
    <2>3. [call[c] EXCEPT !.pc = "publishing"] \in Call
      BY <2>1 DEF Call
    <2>4. call' \in [Callers -> Call \cup {Idle}]
      BY <1>9, <2>3 DEF CompletePublishes, TypeOK
    <2>5. assets' = [assets EXCEPT ![u] = ready] /\ announced' = [announced EXCEPT ![u] = @ + 1]
      BY <1>9 DEF CompletePublishes
    <2>6. assets' \in [Uploads -> Asset] /\ announced' \in [Uploads -> Nat]
      BY <2>1, <2>2, <2>5 DEF TypeOK
    <2>7. QED
      BY <1>9, <2>4, <2>6 DEF CompletePublishes, TypeOK
  <1>10. ASSUME NEW c \in Callers, CompleteEnds(c) PROVE TypeOK'
    BY <1>2, <1>10 DEF CompleteEnds, TypeOK
  <1>11. ASSUME NEW c \in Callers, AbortReturns(c) PROVE TypeOK'
    <2>1. call[c].upload \in Uploads
      BY <1>11, CallShape DEF AbortReturns, Ends, Writing
    <2>2. call' \in [Callers -> Call \cup {Idle}] /\ raced' \subseteq Uploads
      BY <1>2, <1>11 DEF AbortReturns
    <2>3. QED
      BY <1>3, <1>11, <2>1, <2>2 DEF AbortReturns, TypeOK
  <1>12. ASSUME NEW c \in Callers, DeleteReturns(c) PROVE TypeOK'
    <2>1. call[c].upload \in Uploads /\ call[c].asset \in Asset
      BY <1>12, CallShape DEF DeleteReturns, Ends, Writing
    <2>2. [call[c].asset EXCEPT !.state = "deleted"] \in Asset
      BY <2>1 DEF Asset
    <2>3. call' \in [Callers -> Call \cup {Idle}] /\ raced' \subseteq Uploads
      BY <1>2, <1>12 DEF DeleteReturns
    <2>4. QED
      BY <1>12, <2>1, <2>2, <2>3 DEF DeleteReturns, TypeOK
  <1>13. CASE UNCHANGED vars
    BY <1>13 DEF vars, TypeOK
  <1>14. QED
    BY <1>4, <1>5, <1>6, <1>7, <1>8, <1>9, <1>10, <1>11, <1>12, <1>13 DEF Next

(* What a call's beginning and end change in call.                         *)
LEMMA BeginsEffect ==
  ASSUME TypeOK, NEW c \in Callers, NEW u \in Uploads, NEW pc, NEW url, NEW asset,
         Begins(c, u, pc, url, asset)
  PROVE  /\ call'[c].pc = pc /\ call'[c].upload = u
         /\ \A d \in Callers \ {c} : call'[d] = call[d]
         /\ call[c].pc = "idle"
  <1>1. call' = [call EXCEPT ![c] = [pc |-> pc, upload |-> u, url |-> url, asset |-> asset]]
    BY DEF Begins
  <1>2. call'[c] = [pc |-> pc, upload |-> u, url |-> url, asset |-> asset]
    BY <1>1 DEF TypeOK
  <1>3. QED
    BY <1>1, <1>2, CallShape DEF Begins, TypeOK

LEMMA EndsEffect ==
  ASSUME TypeOK, NEW c \in Callers, NEW from, Ends(c, from)
  PROVE  /\ call'[c].pc = "idle" /\ call[c].pc = from
         /\ \A d \in Callers \ {c} : call'[d] = call[d]
  <1>1. call' = [call EXCEPT ![c] = Idle] /\ call[c].pc = from
    BY DEF Ends
  <1>2. call'[c] = Idle /\ \A d \in Callers \ {c} : call'[d] = call[d]
    BY <1>1 DEF TypeOK
  <1>3. QED
    BY <1>1, <1>2 DEF Idle

(* The invariant is inductive.                                             *)
LEMMA InvStep == IInv /\ [Next]_vars => IInv'
  <1> SUFFICES ASSUME IInv, [Next]_vars PROVE IInv'
    OBVIOUS
  <1>0. TypeOK /\ TypeOK'
    BY TypeStep DEF IInv
  <1> DEFINE Rest == KnownFirst /\ BegunOnce /\ Removed /\ AnnouncedClosed
                     /\ NoOrphanObject /\ OpenIsPending
  <1>1. Rest
    BY DEF IInv
  <1>2. CASE UNCHANGED vars
    BY <1>0, <1>1, <1>2 DEF vars, IInv, KnownFirst, BegunOnce, Removed, AnnouncedClosed,
                            NoOrphanObject, OpenIsPending, Writers
  <1>3. ASSUME NEW c \in Callers, NEW u \in Uploads, BeginUpload(c, u) PROVE Rest'
    <2>1. /\ u \notin known /\ Writers(u) = {} /\ objects' = objects \cup {u}
          /\ UNCHANGED <<uploads, assets, announced, known>>
          /\ Begins(c, u, "putting", FALSE, absent)
      BY <1>3 DEF BeginUpload
    <2>2. /\ call'[c].pc = "putting" /\ call'[c].upload = u /\ call[c].pc = "idle"
          /\ \A d \in Callers \ {c} : call'[d] = call[d]
      BY <1>0, <2>1, BeginsEffect
    <2>3. KnownFirst'
      BY <1>0, <1>1, <2>1, <2>2 DEF KnownFirst
    <2>4. BegunOnce'
      BY <1>0, <1>1, <2>1, <2>2 DEF BegunOnce, Writers, Writing
    <2>5. Removed'
      BY <1>0, <1>1, <2>1, <2>2 DEF Removed, KnownFirst
    <2>6. AnnouncedClosed'
      BY <1>0, <1>1, <2>1, <2>2 DEF AnnouncedClosed
    <2>7. NoOrphanObject'
      BY <1>0, <1>1, <2>1, <2>2, CallShape DEF NoOrphanObject, Writers, Writing
    <2>8. OpenIsPending'
      BY <1>0, <1>1, <2>1, <2>2 DEF OpenIsPending
    <2>9. QED
      BY <2>3, <2>4, <2>5, <2>6, <2>7, <2>8
  <1>4. ASSUME NEW c \in Callers, NEW u \in Uploads, CompleteUpload(c, u) PROVE Rest'
    <2>1. CASE UNCHANGED vars
      BY <1>1, <2>1 DEF vars, KnownFirst, BegunOnce, Removed, AnnouncedClosed,
                        NoOrphanObject, OpenIsPending, Writers
    <2>2. CASE /\ u \in uploads
               /\ UNCHANGED <<uploads, assets, objects, announced, known>>
               /\ Begins(c, u, "gettingUrl", u \in objects, absent)
      <3>1. /\ call'[c].pc = "gettingUrl" /\ call'[c].upload = u /\ call[c].pc = "idle"
            /\ \A d \in Callers \ {c} : call'[d] = call[d]
        BY <1>0, <2>2, BeginsEffect
      <3>2. KnownFirst'
        BY <1>0, <1>1, <2>2, <3>1 DEF KnownFirst
      <3>3. BegunOnce'
        BY <1>0, <1>1, <2>2, <3>1 DEF BegunOnce
      <3>4. Removed'
        BY <1>0, <1>1, <2>2, <3>1 DEF Removed
      <3>5. AnnouncedClosed'
        BY <1>0, <1>1, <2>2, <3>1 DEF AnnouncedClosed
      <3>6. NoOrphanObject'
        BY <1>0, <1>1, <2>2, <3>1, CallShape DEF NoOrphanObject, Writers, Writing
      <3>7. OpenIsPending'
        BY <1>0, <1>1, <2>2, <3>1 DEF OpenIsPending
      <3>8. QED
        BY <3>2, <3>3, <3>4, <3>5, <3>6, <3>7
    <2>3. QED
      BY <1>4, <2>1, <2>2 DEF CompleteUpload
  <1>5. ASSUME NEW c \in Callers, NEW u \in Uploads, AbortUpload(c, u) PROVE Rest'
    <2>1. CASE UNCHANGED vars
      BY <1>1, <2>1 DEF vars, KnownFirst, BegunOnce, Removed, AnnouncedClosed,
                        NoOrphanObject, OpenIsPending, Writers
    <2>2. CASE /\ u \in uploads /\ objects' = objects \ {u}
               /\ UNCHANGED <<uploads, assets, announced, known>>
               /\ Begins(c, u, "aborting", FALSE, absent)
      <3>1. /\ call'[c].pc = "aborting" /\ call'[c].upload = u /\ call[c].pc = "idle"
            /\ \A d \in Callers \ {c} : call'[d] = call[d]
        BY <1>0, <2>2, BeginsEffect
      <3>2. KnownFirst'
        BY <1>0, <1>1, <2>2, <3>1 DEF KnownFirst
      <3>3. BegunOnce'
        BY <1>0, <1>1, <2>2, <3>1 DEF BegunOnce
      <3>4. Removed'
        BY <1>0, <1>1, <2>2, <3>1 DEF Removed
      <3>5. AnnouncedClosed'
        BY <1>0, <1>1, <2>2, <3>1 DEF AnnouncedClosed
      <3>6. NoOrphanObject'
        BY <1>0, <1>1, <2>2, <3>1, CallShape DEF NoOrphanObject, Writers, Writing
      <3>7. OpenIsPending'
        BY <1>0, <1>1, <2>2, <3>1 DEF OpenIsPending
      <3>8. QED
        BY <3>2, <3>3, <3>4, <3>5, <3>6, <3>7
    <2>3. QED
      BY <1>5, <2>1, <2>2 DEF AbortUpload
  <1>6. ASSUME NEW c \in Callers, NEW u \in Uploads, DeleteAsset(c, u) PROVE Rest'
    <2>1. CASE UNCHANGED vars
      BY <1>1, <2>1 DEF vars, KnownFirst, BegunOnce, Removed, AnnouncedClosed,
                        NoOrphanObject, OpenIsPending, Writers
    <2>2. CASE /\ announced[u] > 0 /\ objects' = objects \ {u}
               /\ UNCHANGED <<uploads, assets, announced, known>>
               /\ Begins(c, u, "deleting", FALSE, assets[u])
      <3>1. /\ call'[c].pc = "deleting" /\ call'[c].upload = u /\ call[c].pc = "idle"
            /\ \A d \in Callers \ {c} : call'[d] = call[d]
        BY <1>0, <2>2, BeginsEffect
      <3>2. KnownFirst'
        BY <1>0, <1>1, <2>2, <3>1 DEF KnownFirst
      <3>3. BegunOnce'
        BY <1>0, <1>1, <2>2, <3>1 DEF BegunOnce
      <3>4. Removed'
        BY <1>0, <1>1, <2>2, <3>1 DEF Removed
      <3>5. AnnouncedClosed'
        BY <1>0, <1>1, <2>2, <3>1 DEF AnnouncedClosed
      <3>6. NoOrphanObject'
        BY <1>0, <1>1, <2>2, <3>1, CallShape DEF NoOrphanObject, Writers, Writing
      <3>7. OpenIsPending'
        BY <1>0, <1>1, <2>2, <3>1 DEF OpenIsPending
      <3>8. QED
        BY <3>2, <3>3, <3>4, <3>5, <3>6, <3>7
    <2>3. QED
      BY <1>6, <2>1, <2>2 DEF DeleteAsset
  <1>7. ASSUME NEW c \in Callers, BeginReturns(c) PROVE Rest'
    <2>1. /\ call'[c].pc = "idle" /\ call[c].pc = "putting"
          /\ \A d \in Callers \ {c} : call'[d] = call[d]
      BY <1>0, <1>7, EndsEffect DEF BeginReturns
    <2>2. call[c].upload \in Uploads /\ call[c].asset \in Asset
      BY <1>0, <2>1, CallShape DEF Writing
    <2>3. KnownFirst'
      BY <1>0, <1>1, <1>7, <2>1, <2>2 DEF KnownFirst, BegunOnce, BeginReturns, TypeOK
    <2>4. BegunOnce'
      BY <1>0, <1>1, <1>7, <2>1, <2>2 DEF BegunOnce, BeginReturns
    <2>5. Removed'
      BY <1>0, <1>1, <1>7, <2>1, <2>2 DEF Removed, BeginReturns
    <2>6. AnnouncedClosed'
      BY <1>0, <1>1, <1>7, <2>1, <2>2
         DEF AnnouncedClosed, KnownFirst, BeginReturns, TypeOK
    <2>7. NoOrphanObject'
      BY <1>0, <1>1, <1>7, <2>1, <2>2
         DEF NoOrphanObject, Writers, Writing, Removed, BeginReturns, TypeOK, pending
    <2>8. OpenIsPending'
      BY <1>0, <1>1, <1>7, <2>1, <2>2
         DEF OpenIsPending, KnownFirst, AnnouncedClosed, BeginReturns, TypeOK, Asset,
             absent, pending
    <2>9. QED
      BY <2>3, <2>4, <2>5, <2>6, <2>7, <2>8
  <1>8. ASSUME NEW c \in Callers, CompletePublishes(c) PROVE Rest'
    <2>1. /\ call'[c].pc = "publishing" /\ call[c].pc = "gettingUrl"
          /\ \A d \in Callers \ {c} : call'[d] = call[d]
      BY <1>0, <1>8, CallShape DEF CompletePublishes, TypeOK, Writing, Call
    <2>2. call[c].upload \in Uploads /\ call[c].asset \in Asset
      BY <1>0, <2>1, CallShape DEF Writing
    <2>3. KnownFirst'
      BY <1>0, <1>1, <1>8, <2>1, <2>2
         DEF KnownFirst, BegunOnce, CompletePublishes, TypeOK
    <2>4. BegunOnce'
      BY <1>0, <1>1, <1>8, <2>1, <2>2 DEF BegunOnce, CompletePublishes
    <2>5. Removed'
      BY <1>0, <1>1, <1>8, <2>1, <2>2 DEF Removed, CompletePublishes
    <2>6. AnnouncedClosed'
      BY <1>0, <1>1, <1>8, <2>1, <2>2
         DEF AnnouncedClosed, KnownFirst, CompletePublishes, TypeOK
    <2>7. NoOrphanObject'
      BY <1>0, <1>1, <1>8, <2>1, <2>2
         DEF NoOrphanObject, Writers, Writing, Removed, CompletePublishes, TypeOK
    <2>8. OpenIsPending'
      BY <1>0, <1>1, <1>8, <2>1, <2>2
         DEF OpenIsPending, KnownFirst, AnnouncedClosed, CompletePublishes, TypeOK,
             Asset, absent, pending
    <2>9. QED
      BY <2>3, <2>4, <2>5, <2>6, <2>7, <2>8
  <1>9. ASSUME NEW c \in Callers, CompleteEnds(c) PROVE Rest'
    <2>1. /\ call'[c].pc = "idle" /\ call[c].pc = "publishing"
          /\ \A d \in Callers \ {c} : call'[d] = call[d]
      BY <1>0, <1>9, EndsEffect DEF CompleteEnds
    <2>2. call[c].upload \in Uploads /\ call[c].asset \in Asset
      BY <1>0, <2>1, CallShape DEF Writing
    <2>3. KnownFirst'
      BY <1>0, <1>1, <1>9, <2>1, <2>2 DEF KnownFirst, BegunOnce, CompleteEnds, TypeOK
    <2>4. BegunOnce'
      BY <1>0, <1>1, <1>9, <2>1, <2>2 DEF BegunOnce, CompleteEnds
    <2>5. Removed'
      BY <1>0, <1>1, <1>9, <2>1, <2>2 DEF Removed, CompleteEnds
    <2>6. AnnouncedClosed'
      BY <1>0, <1>1, <1>9, <2>1, <2>2
         DEF AnnouncedClosed, KnownFirst, CompleteEnds, TypeOK
    <2>7. NoOrphanObject'
      BY <1>0, <1>1, <1>9, <2>1, <2>2
         DEF NoOrphanObject, Writers, Writing, Removed, CompleteEnds, TypeOK
    <2>8. OpenIsPending'
      BY <1>0, <1>1, <1>9, <2>1, <2>2
         DEF OpenIsPending, KnownFirst, AnnouncedClosed, CompleteEnds, TypeOK, Asset,
             absent, pending
    <2>9. QED
      BY <2>3, <2>4, <2>5, <2>6, <2>7, <2>8
  <1>10. ASSUME NEW c \in Callers, AbortReturns(c) PROVE Rest'
    <2>1. /\ call'[c].pc = "idle" /\ call[c].pc = "aborting"
          /\ \A d \in Callers \ {c} : call'[d] = call[d]
      BY <1>0, <1>10, EndsEffect DEF AbortReturns
    <2>2. call[c].upload \in Uploads /\ call[c].asset \in Asset
      BY <1>0, <2>1, CallShape DEF Writing
    <2>3. KnownFirst'
      BY <1>0, <1>1, <1>10, <2>1, <2>2 DEF KnownFirst, BegunOnce, AbortReturns, TypeOK
    <2>4. BegunOnce'
      BY <1>0, <1>1, <1>10, <2>1, <2>2 DEF BegunOnce, AbortReturns
    <2>5. Removed'
      BY <1>0, <1>1, <1>10, <2>1, <2>2 DEF Removed, AbortReturns
    <2>6. AnnouncedClosed'
      BY <1>0, <1>1, <1>10, <2>1, <2>2
         DEF AnnouncedClosed, KnownFirst, AbortReturns, TypeOK
    <2>7. NoOrphanObject'
      BY <1>0, <1>1, <1>10, <2>1, <2>2
         DEF NoOrphanObject, Writers, Writing, Removed, AbortReturns, TypeOK
    <2>8. OpenIsPending'
      BY <1>0, <1>1, <1>10, <2>1, <2>2
         DEF OpenIsPending, KnownFirst, AnnouncedClosed, AbortReturns, TypeOK, Asset,
             absent, pending
    <2>9. QED
      BY <2>3, <2>4, <2>5, <2>6, <2>7, <2>8
  <1>11. ASSUME NEW c \in Callers, DeleteReturns(c) PROVE Rest'
    <2>1. /\ call'[c].pc = "idle" /\ call[c].pc = "deleting"
          /\ \A d \in Callers \ {c} : call'[d] = call[d]
      BY <1>0, <1>11, EndsEffect DEF DeleteReturns
    <2>2. call[c].upload \in Uploads /\ call[c].asset \in Asset
      BY <1>0, <2>1, CallShape DEF Writing
    <2>3. KnownFirst'
      BY <1>0, <1>1, <1>11, <2>1, <2>2 DEF KnownFirst, BegunOnce, DeleteReturns, TypeOK
    <2>4. BegunOnce'
      BY <1>0, <1>1, <1>11, <2>1, <2>2 DEF BegunOnce, DeleteReturns
    <2>5. Removed'
      BY <1>0, <1>1, <1>11, <2>1, <2>2 DEF Removed, DeleteReturns
    <2>6. AnnouncedClosed'
      BY <1>0, <1>1, <1>11, <2>1, <2>2
         DEF AnnouncedClosed, KnownFirst, DeleteReturns, TypeOK
    <2>7. NoOrphanObject'
      BY <1>0, <1>1, <1>11, <2>1, <2>2
         DEF NoOrphanObject, Writers, Writing, Removed, DeleteReturns, TypeOK
    <2>8. OpenIsPending'
      BY <1>0, <1>1, <1>11, <2>1, <2>2
         DEF OpenIsPending, KnownFirst, AnnouncedClosed, DeleteReturns, TypeOK, Asset,
             absent, pending
    <2>9. QED
      BY <2>3, <2>4, <2>5, <2>6, <2>7, <2>8
  <1>12. QED
    BY <1>0, <1>2, <1>3, <1>4, <1>5, <1>6, <1>7, <1>8, <1>9, <1>10, <1>11 DEF Next, IInv

LEMMA Invariant == Spec => []IInv
  <1>1. Init => IInv
    BY InitIInv
  <1>2. IInv /\ [Next]_vars => IInv'
    BY InvStep
  <1>3. QED
    BY <1>1, <1>2, PTL DEF Spec

\* Every reachable state of the service is well-typed (LocalMediaService,
\* InMemoryObjectStorage).
THEOREM MediaTypeCorrect == Spec => []TypeOK
  <1>1. IInv => TypeOK
    BY DEF IInv
  <1>2. QED
    BY <1>1, Invariant, PTL

\* However many calls overlap, storage never holds an object that no upload being
\* begun and no pending or ready asset accounts for (beginUpload, abortUpload,
\* deleteAsset).
THEOREM NoOrphanObjectCorrect == Spec => []NoOrphanObject
  <1>1. IInv => NoOrphanObject
    BY DEF IInv
  <1>2. QED
    BY <1>1, Invariant, PTL

\* However many calls overlap, the open sessions are those of the pending assets.
THEOREM OpenIsPendingCorrect == Spec => []OpenIsPending
  <1>1. IInv => OpenIsPending
    BY DEF IInv
  <1>2. QED
    BY <1>1, Invariant, PTL

-----------------------------------------------------------------------------
(***************************************************************************)
(* What a call may count on when no other call for its upload overlaps.    *)
(***************************************************************************)
\* An upload not known has no asset; and an asset that is absent has no fields.
AbsentFirst ==
  /\ \A u \in Uploads \ known : assets[u] = absent
  /\ \A u \in Uploads : assets[u].state = "absent" => assets[u] = absent

\* What the call in flight finds unchanged when it resumes.
Counts(c, u) ==
  /\ call[c].pc = "putting" => assets[u] = absent /\ u \in objects
  /\ call[c].pc = "gettingUrl" => assets[u].state = "pending" /\ u \in objects /\ call[c].url
  /\ call[c].pc = "aborting" => assets[u].state = "pending" /\ u \notin objects
  /\ call[c].pc = "deleting" => /\ assets[u].state \in {"ready", "deleted"} /\ u \notin objects
                                /\ call[c].asset = assets[u]

Stored(u) ==
  /\ assets[u].state = "pending" => u \in objects
  /\ assets[u].state = "ready" => u \in objects /\ assets[u].publicUrl
  /\ assets[u].state = "deleted" => u \notin objects

SoloAt(u) ==
  /\ \A c, d \in Writers(u) : c = d
  /\ \A c \in Writers(u) : Counts(c, u)
  /\ Writers(u) = {} => Stored(u)

Solo == \A u \in Uploads \ raced : SoloAt(u)

SoloInv == IInv /\ AbsentFirst /\ Solo

\* A turn of a call for u leaves every other upload as it is.
LEMMA Elsewhere ==
  ASSUME NEW c \in Callers, NEW u \in Uploads, NEW v \in Uploads \ {u}, SoloAt(v),
         assets'[v] = assets[v], v \in objects' <=> v \in objects,
         \A d \in Callers \ {c} : call'[d] = call[d],
         call[c].pc \in Writing => call[c].upload = u,
         call'[c].pc \in Writing => call'[c].upload = u
  PROVE  SoloAt(v)'
  <1>1. Writers(v)' = Writers(v) /\ c \notin Writers(v)
    BY DEF Writers
  <1>2. \A d \in Writers(v) : call'[d] = call[d]
    BY <1>1 DEF Writers
  <1>3. QED
    BY <1>1, <1>2 DEF SoloAt, Counts, Stored

(* The turn at which a call for u begins.                                  *)
LEMMA SoloBegins ==
  ASSUME SoloInv, NEW c \in Callers, NEW u \in Uploads, NEW pc \in Writing,
         NEW url \in BOOLEAN, NEW asset \in Asset, Begins(c, u, pc, url, asset),
         UNCHANGED <<uploads, assets, announced, known>>,
         \A v \in Uploads \ {u} : v \in objects' <=> v \in objects,
         Writers(u) = {} /\ u \notin raced => Counts(c, u)'
  PROVE  Solo' /\ AbsentFirst'
  <1>0. TypeOK
    BY DEF SoloInv, IInv
  <1>1. /\ call'[c].pc = pc /\ call'[c].upload = u /\ call[c].pc = "idle"
        /\ \A d \in Callers \ {c} : call'[d] = call[d]
    BY <1>0, BeginsEffect
  <1>2. raced' = IF Writers(u) = {} THEN raced ELSE raced \cup {u}
    BY DEF Begins
  <1>3. ASSUME NEW v \in Uploads \ raced', v # u PROVE SoloAt(v)'
    <2>1. SoloAt(v)
      BY <1>2, <1>3 DEF SoloInv, Solo
    <2>2. QED
      BY <1>1, <1>3, <2>1, Elsewhere DEF Writing
  <1>4. ASSUME u \notin raced' PROVE SoloAt(u)'
    <2>1. Writers(u) = {} /\ u \notin raced
      BY <1>2, <1>4
    <2>2. Writers(u)' = {c}
      BY <1>1, <2>1 DEF Writers
    <2>3. QED
      BY <2>1, <2>2 DEF SoloAt
  <1>5. AbsentFirst'
    BY DEF SoloInv, AbsentFirst
  <1>6. QED
    BY <1>3, <1>4, <1>5 DEF Solo

(* The turn at which the call for u has done its writes.                   *)
LEMMA SoloEnds ==
  ASSUME SoloInv, NEW c \in Callers, NEW u \in Uploads, call[c].upload = u,
         call[c].pc \in Writing, call'[c].pc \notin Writing,
         \A d \in Callers \ {c} : call'[d] = call[d], UNCHANGED <<objects, raced>>,
         \A v \in Uploads \ {u} : assets'[v] = assets[v],
         u \notin raced => Stored(u)'
  PROVE  Solo'
  <1>1. ASSUME NEW v \in Uploads \ raced, v # u PROVE SoloAt(v)'
    BY <1>1, Elsewhere DEF SoloInv, Solo
  <1>2. ASSUME u \notin raced PROVE SoloAt(u)'
    <2>1. SoloAt(u) /\ c \in Writers(u)
      BY <1>2 DEF SoloInv, Solo, Writers
    <2>2. Writers(u)' = {}
      BY <2>1 DEF SoloAt, Writers
    <2>3. QED
      BY <1>2, <2>2 DEF SoloAt
  <1>3. QED
    BY <1>1, <1>2 DEF Solo

\* What a call that resumes may count on, when it is alone.
LEMMA Alone ==
  ASSUME SoloInv, NEW c \in Callers, call[c].pc \in Writing, call[c].upload \notin raced
  PROVE  Counts(c, call[c].upload)
  <1>1. call[c].upload \in Uploads
    BY CallShape DEF SoloInv, IInv
  <1>2. QED
    BY <1>1 DEF SoloInv, Solo, SoloAt, Writers


\* A copy marked deleted.
LEMMA MarkedDeleted ==
  ASSUME NEW a \in Asset
  PROVE  [a EXCEPT !.state = "deleted"].state = "deleted"
  BY DEF Asset

\* The lifecycle of an asset, at the upload of the call whose turn it is.
Moves(u) ==
  /\ assets[u].state # assets'[u].state =>
       <<assets[u].state, assets'[u].state>> \in {<<"absent", "pending">>, <<"pending", "ready">>,
                                                  <<"pending", "absent">>, <<"ready", "deleted">>}
  /\ <<assets[u].state, assets'[u].state>> = <<"absent", "pending">> => u \notin known
  /\ announced'[u] # announced[u] => announced[u] = 0 /\ assets'[u].state = "ready"

\* A turn that leaves assets and announced alone is no move of any asset.
LEMMA NoMove ==
  ASSUME NEW u, assets'[u] = assets[u], announced'[u] = announced[u]
  PROVE  Moves(u)
  BY DEF Moves

(* Every turn keeps what calls without an overlap may count on, and moves   *)
(* the asset it is about along its lifecycle.                               *)
LEMMA SoloStep ==
  SoloInv /\ [Next]_vars => Solo' /\ AbsentFirst' /\ \A u \in Uploads \ raced' : Moves(u)
  <1> SUFFICES ASSUME SoloInv, [Next]_vars
               PROVE  Solo' /\ AbsentFirst' /\ \A u \in Uploads \ raced' : Moves(u)
    OBVIOUS
  <1> DEFINE Goal == Solo' /\ AbsentFirst' /\ \A u \in Uploads \ raced' : Moves(u)
  <1>0. /\ IInv /\ TypeOK /\ KnownFirst /\ AnnouncedClosed /\ OpenIsPending /\ NoOrphanObject
        /\ AbsentFirst /\ absent \in Asset
    BY DEF SoloInv, IInv, absent, Asset
  <1>1. CASE UNCHANGED vars
    BY <1>1, NoMove DEF vars, SoloInv, Solo, SoloAt, Counts, Stored, AbsentFirst, Writers
  <1>2. ASSUME NEW c \in Callers, NEW u \in Uploads, NEW pc \in Writing,
               NEW url \in BOOLEAN, NEW asset \in Asset, Begins(c, u, pc, url, asset),
               UNCHANGED <<uploads, assets, announced, known>>,
               \A v \in Uploads \ {u} : v \in objects' <=> v \in objects,
               Writers(u) = {} /\ u \notin raced => Counts(c, u)'
        PROVE  Goal
    BY <1>2, SoloBegins, NoMove
  <1>3. ASSUME NEW c \in Callers, NEW u \in Uploads, NEW pc, NEW url, NEW asset,
               Begins(c, u, pc, url, asset)
        PROVE  call'[c].pc = pc /\ call'[c].url = url /\ call'[c].asset = asset
    <2>1. call'[c] = [pc |-> pc, upload |-> u, url |-> url, asset |-> asset]
      BY <1>0, <1>3 DEF Begins, TypeOK
    <2>2. QED
      BY <2>1
  <1>4. ASSUME NEW u \in Uploads, Writers(u) = {}, u \notin raced PROVE Stored(u)
    BY <1>4 DEF SoloInv, Solo, SoloAt
  <1>5. ASSUME NEW c \in Callers, NEW u \in Uploads, BeginUpload(c, u) PROVE Goal
    <2>1. /\ Begins(c, u, "putting", FALSE, absent) /\ objects' = objects \cup {u}
          /\ UNCHANGED <<uploads, assets, announced, known>> /\ u \notin known
      BY <1>5 DEF BeginUpload
    <2>2. Counts(c, u)'
      BY <1>0, <1>3, <2>1 DEF Counts, AbsentFirst
    <2>3. QED
      BY <1>0, <1>2, <2>1, <2>2 DEF Writing
  <1>6. ASSUME NEW c \in Callers, NEW u \in Uploads, CompleteUpload(c, u) PROVE Goal
    <2>1. CASE /\ u \in uploads /\ Begins(c, u, "gettingUrl", u \in objects, absent)
               /\ UNCHANGED <<uploads, assets, objects, announced, known>>
      <3>1. (u \in objects) \in BOOLEAN /\ assets[u].state = "pending"
        BY <1>0, <2>1 DEF OpenIsPending
      <3>2. Writers(u) = {} /\ u \notin raced => Counts(c, u)'
        <4>1. call'[c].pc = "gettingUrl" /\ call'[c].url = (u \in objects)
          BY <1>3, <2>1
        <4>2. Writers(u) = {} /\ u \notin raced => u \in objects
          BY <1>4, <3>1 DEF Stored
        <4>3. u \in objects => call'[c].url
          BY <4>1, Zenon
        <4>4. QED
          BY <2>1, <3>1, <4>1, <4>2, <4>3 DEF Counts
      <3>3. QED
        BY <1>0, <1>2, <2>1, <3>1, <3>2 DEF Writing
    <2>2. QED
      BY <1>1, <1>6, <2>1 DEF CompleteUpload
  <1>7. ASSUME NEW c \in Callers, NEW u \in Uploads, AbortUpload(c, u) PROVE Goal
    <2>1. CASE /\ u \in uploads /\ Begins(c, u, "aborting", FALSE, absent)
               /\ objects' = objects \ {u} /\ UNCHANGED <<uploads, assets, announced, known>>
      <3>1. assets[u].state = "pending"
        BY <1>0, <2>1 DEF OpenIsPending
      <3>2. Counts(c, u)'
        BY <1>3, <2>1, <3>1 DEF Counts
      <3>3. QED
        BY <1>0, <1>2, <2>1, <3>2 DEF Writing
    <2>2. QED
      BY <1>1, <1>7, <2>1 DEF AbortUpload
  <1>8. ASSUME NEW c \in Callers, NEW u \in Uploads, DeleteAsset(c, u) PROVE Goal
    <2>1. CASE /\ announced[u] > 0 /\ assets[u] # absent
               /\ Begins(c, u, "deleting", FALSE, assets[u])
               /\ objects' = objects \ {u} /\ UNCHANGED <<uploads, assets, announced, known>>
      <3>1. assets[u] \in Asset /\ assets[u].state \in {"ready", "deleted"}
        BY <1>0, <2>1 DEF OpenIsPending, AnnouncedClosed, AbsentFirst, TypeOK, Asset
      <3>2. Counts(c, u)'
        BY <1>3, <2>1, <3>1 DEF Counts
      <3>3. QED
        BY <1>2, <2>1, <3>1, <3>2 DEF Writing
    <2>2. QED
      BY <1>1, <1>8, <2>1 DEF DeleteAsset
  <1>9. ASSUME NEW c \in Callers, NEW u \in Uploads, call[c].upload = u,
               call[c].pc \in Writing, call'[c].pc \notin Writing,
               \A d \in Callers \ {c} : call'[d] = call[d], UNCHANGED <<objects, raced>>,
               \A v \in Uploads \ {u} : assets'[v] = assets[v] /\ announced'[v] = announced[v],
               u \notin raced => Stored(u)' /\ Moves(u), AbsentFirst'
        PROVE  Goal
    BY <1>9, SoloEnds, NoMove
  <1>10. ASSUME NEW c \in Callers, BeginReturns(c) PROVE Goal
    <2>1. /\ call'[c].pc = "idle" /\ call[c].pc = "putting"
          /\ \A d \in Callers \ {c} : call'[d] = call[d]
      BY <1>0, <1>10, EndsEffect DEF BeginReturns
    <2>2. PICK u \in Uploads : u = call[c].upload
      BY <1>0, <2>1, CallShape DEF Writing
    <2>3. /\ assets'[u] = pending /\ \A v \in Uploads \ {u} : assets'[v] = assets[v]
          /\ known' = known \cup {u} /\ UNCHANGED <<objects, announced, raced>>
      BY <1>0, <1>10, <2>2 DEF BeginReturns, Ends, TypeOK
    <2>4. u \notin known /\ assets[u] = absent /\ (u \notin raced => u \in objects)
      BY <1>0, <2>1, <2>2, Alone DEF AbsentFirst, Counts, Writing, KnownFirst
    <2>5. AbsentFirst'
      BY <1>0, <2>2, <2>3 DEF AbsentFirst, pending
    <2>6. u \notin raced => Stored(u)'
      BY <2>3, <2>4 DEF Stored, pending
    <2>7. Moves(u)
      BY <2>2, <2>3, <2>4 DEF Moves, pending, absent
    <2>8. QED
      BY <1>9, <2>1, <2>2, <2>3, <2>5, <2>6, <2>7 DEF Writing
  <1>11. ASSUME NEW c \in Callers, CompletePublishes(c) PROVE Goal
    <2>1. /\ call'[c].pc = "publishing" /\ call[c].pc = "gettingUrl"
          /\ \A d \in Callers \ {c} : call'[d] = call[d]
      BY <1>0, <1>11, CallShape DEF CompletePublishes, TypeOK, Writing, Call
    <2>2. PICK u \in Uploads : u = call[c].upload
      BY <1>0, <2>1, CallShape DEF Writing
    <2>3. /\ assets'[u].state = "ready" /\ assets'[u].publicUrl = call[c].url
          /\ \A v \in Uploads \ {u} : assets'[v] = assets[v] /\ announced'[v] = announced[v]
          /\ UNCHANGED <<objects, known, raced>>
      BY <1>0, <1>11, <2>2 DEF CompletePublishes, TypeOK
    <2>4. u \in known /\ (u \notin raced => assets[u].state = "pending" /\ u \in objects /\ call[c].url)
      BY <1>0, <2>1, <2>2, Alone DEF Counts, Writing, KnownFirst
    <2>5. AbsentFirst'
      BY <1>0, <2>2, <2>3, <2>4 DEF AbsentFirst
    <2>6. u \notin raced => Stored(u)'
      BY <2>3, <2>4 DEF Stored
    <2>7. u \notin raced => Moves(u)
      BY <1>0, <2>2, <2>3, <2>4 DEF Moves, OpenIsPending, AnnouncedClosed, TypeOK
    <2>8. QED
      BY <1>9, <2>1, <2>2, <2>3, <2>5, <2>6, <2>7 DEF Writing
  <1>12. ASSUME NEW c \in Callers, CompleteEnds(c) PROVE Goal
    <2>1. /\ call'[c].pc = "idle" /\ call[c].pc = "publishing"
          /\ \A d \in Callers \ {c} : call'[d] = call[d]
          /\ UNCHANGED <<uploads, assets, objects, announced, known, raced>>
      BY <1>0, <1>12, EndsEffect DEF CompleteEnds, Ends
    <2>2. \A v \in Uploads : Writers(v)' = Writers(v) /\ \A d \in Writers(v) : call'[d] = call[d]
      BY <2>1 DEF Writers, Writing
    <2>3. QED
      BY <2>1, <2>2, NoMove DEF SoloInv, Solo, SoloAt, Counts, Stored, AbsentFirst
  <1>13. ASSUME NEW c \in Callers, AbortReturns(c) PROVE Goal
    <2>1. /\ call'[c].pc = "idle" /\ call[c].pc = "aborting"
          /\ \A d \in Callers \ {c} : call'[d] = call[d]
      BY <1>0, <1>13, EndsEffect DEF AbortReturns
    <2>2. PICK u \in Uploads : u = call[c].upload
      BY <1>0, <2>1, CallShape DEF Writing
    <2>3. /\ assets'[u] = absent /\ \A v \in Uploads \ {u} : assets'[v] = assets[v]
          /\ UNCHANGED <<objects, announced, known, raced>>
      BY <1>0, <1>13, <2>2 DEF AbortReturns, Ends, TypeOK
    <2>4. u \notin raced => assets[u].state = "pending"
      BY <1>0, <2>1, <2>2, Alone DEF Counts, Writing
    <2>5. AbsentFirst'
      BY <1>0, <2>2, <2>3 DEF AbsentFirst
    <2>6. Stored(u)'
      BY <2>3 DEF Stored, absent
    <2>7. u \notin raced => Moves(u)
      BY <2>2, <2>3, <2>4 DEF Moves, absent
    <2>8. QED
      BY <1>9, <2>1, <2>2, <2>3, <2>5, <2>6, <2>7 DEF Writing
  <1>14. ASSUME NEW c \in Callers, DeleteReturns(c) PROVE Goal
    <2>1. /\ call'[c].pc = "idle" /\ call[c].pc = "deleting"
          /\ \A d \in Callers \ {c} : call'[d] = call[d]
      BY <1>0, <1>14, EndsEffect DEF DeleteReturns
    <2>2. PICK u \in Uploads : u = call[c].upload
      BY <1>0, <2>1, CallShape DEF Writing
    <2>3. /\ assets'[u] = [call[c].asset EXCEPT !.state = "deleted"]
          /\ \A v \in Uploads \ {u} : assets'[v] = assets[v]
          /\ UNCHANGED <<objects, announced, known, raced>>
      BY <1>0, <1>14, <2>2 DEF DeleteReturns, Ends, TypeOK
    <2>4. assets'[u].state = "deleted"
      BY <1>0, <2>1, <2>3, CallShape, MarkedDeleted DEF Writing
    <2>5. /\ u \in known
          /\ u \notin raced => assets[u].state \in {"ready", "deleted"} /\ u \notin objects
      BY <1>0, <2>1, <2>2, Alone DEF Counts, Writing, KnownFirst
    <2>6. AbsentFirst'
      BY <1>0, <2>2, <2>3, <2>4, <2>5 DEF AbsentFirst
    <2>7. u \notin raced => Stored(u)'
      BY <2>3, <2>4, <2>5 DEF Stored
    <2>8. u \notin raced => Moves(u)
      BY <2>2, <2>3, <2>4, <2>5 DEF Moves
    <2>9. QED
      BY <1>9, <2>1, <2>2, <2>3, <2>6, <2>7, <2>8 DEF Writing
  <1>15. QED
    BY <1>1, <1>5, <1>6, <1>7, <1>8, <1>10, <1>11, <1>12, <1>13, <1>14 DEF Next

LEMMA InitSolo == Init => SoloInv
  <1> SUFFICES ASSUME Init PROVE SoloInv
    OBVIOUS
  <1>1. \A u \in Uploads : Writers(u) = {} /\ assets[u] = absent /\ absent.state = "absent"
    BY DEF Init, Writers, Writing, Idle, absent
  <1>2. Solo /\ AbsentFirst
    BY <1>1 DEF Solo, SoloAt, Stored, AbsentFirst
  <1>3. QED
    BY <1>2, InitIInv DEF SoloInv

LEMMA SoloInvariant == Spec => []SoloInv
  <1>1. SoloInv /\ [Next]_vars => SoloInv'
    BY InvStep, SoloStep DEF SoloInv
  <1>2. QED
    BY <1>1, InitSolo, PTL DEF Spec

\* While no two calls for an upload overlap, a ready asset that is not being
\* deleted has its object and a URL, and a deleted one has no object.
THEOREM ReadyIsStoredCorrect == Spec => []ReadyIsStored
  <1>1. SoloInv => ReadyIsStored
    BY DEF SoloInv, Solo, SoloAt, Stored, ReadyIsStored
  <1>2. QED
    BY <1>1, SoloInvariant, PTL

\* While no two calls for an upload overlap, its asset goes through its lifecycle
\* in one direction and is announced once (completeUpload, abortUpload, deleteAsset).
THEOREM LifecycleCorrect == Spec => Lifecycle
  <1>1. SoloInv /\ [Next]_vars =>
          [\A u \in Uploads \ raced' :
             LET was == assets[u].state
                 is  == assets'[u].state
             IN  /\ was # is => <<was, is>> \in {<<"absent", "pending">>, <<"pending", "ready">>,
                                                 <<"pending", "absent">>, <<"ready", "deleted">>}
                 /\ <<was, is>> = <<"absent", "pending">> => u \notin known
                 /\ announced'[u] # announced[u] => announced[u] = 0 /\ is = "ready"]_vars
    BY SoloStep DEF Moves
  <1>2. QED
    BY <1>1, SoloInvariant, PTL DEF Spec, Lifecycle
=============================================================================

-------------------------- MODULE RepositoryProofs --------------------------
(* Theorems about Repository, for every value of its constants.            *)
EXTENDS Repository, FiniteSetTheorems, TLAPS

-----------------------------------------------------------------------------
(* Types                                                                   *)

LEMMA ListingType ==
  ASSUME NEW store \in Items, NEW filter
  PROVE  ListingOf(store, filter) \subseteq Cursor
BY DEF ListingOf, Items, Stored, Missing, cursorFor, Cursor

LEMMA WalkingIsPager ==
  ASSUME TypeOK, NEW p \in Walking
  PROVE  p \in Pagers /\ pager[p] \in Pager
BY DEF TypeOK, Walking, NotBegun

LEMMA OpenIsTx ==
  ASSUME TypeOK, NEW x \in Open
  PROVE  x \in Txs /\ tx[x] \in Tx
BY DEF TypeOK, Open

\* An open transaction never looks like one that is not.
LEMMA TxIsNotNoTx ==
  ASSUME NEW r \in Tx
  PROVE  r # NoTx
<1>1. DOMAIN r = {"snapshot", "before", "theirs"}
  BY DEF Tx
<1>2. DOMAIN NoTx = {"snapshot"}
  BY DEF NoTx
<1> QED BY <1>1, <1>2

LEMMA WalksType ==
  ASSUME TypeOK, items' \in Items, WalksWitness
  PROVE  pager' \in [Pagers -> Pager \cup {NotBegun}]
<1> SUFFICES ASSUME NEW p \in Pagers PROVE pager'[p] \in Pager \cup {NotBegun}
  BY DEF WalksWitness
<1>1. CASE p \in Walking
  <2>1. pager[p] \in Pager
    BY <1>1, WalkingIsPager
  <2>2. pager'[p] = [pager[p] EXCEPT !.steady = @ \cap ListingOf(items', pager[p].filter)]
    BY <1>1 DEF WalksWitness
  <2> QED BY <2>1, <2>2 DEF Pager
<1>2. CASE p \notin Walking
  BY <1>2 DEF WalksWitness, TypeOK
<1> QED BY <1>1, <1>2

LEMMA WitnessedType ==
  ASSUME TypeOK, items' \in Items, NEW by, NEW ids \in SUBSET Ids, Witnessed(by, ids)
  PROVE  /\ pager' \in [Pagers -> Pager \cup {NotBegun}]
         /\ tx' \in [Txs -> Tx \cup {NoTx}]
<1>1. pager' \in [Pagers -> Pager \cup {NotBegun}]
  BY WalksType DEF Witnessed
<1>2. ASSUME NEW x \in Txs PROVE tx'[x] \in Tx \cup {NoTx}
  <2>1. CASE x \in Open
    <3>1. tx[x] \in Tx
      BY <2>1, OpenIsTx
    <3>2. \/ tx'[x] = [tx[x] EXCEPT !.theirs = @ \ ids]
          \/ tx'[x] = [tx[x] EXCEPT !.theirs = @ \cup ids]
      BY <2>1 DEF Witnessed
    <3> QED BY <3>1, <3>2 DEF Tx
  <2>2. CASE x \notin Open
    BY <2>2 DEF Witnessed, TypeOK
  <2> QED BY <2>1, <2>2
<1> QED BY <1>1, <1>2 DEF Witnessed

LEMMA PageType ==
  ASSUME TypeOK, NEW p \in Walking
  PROVE  /\ Page(Rest(pager[p])) \subseteq Rest(pager[p])
         /\ Rest(pager[p]) \subseteq Listing(pager[p].filter)
         /\ Listing(pager[p].filter) \subseteq Cursor
         /\ Page(Rest(pager[p])) \in SUBSET Cursor
<1>1. Listing(pager[p].filter) \subseteq Cursor
  BY ListingType DEF TypeOK, Listing
<1>2. Rest(pager[p]) \subseteq Listing(pager[p].filter)
  BY DEF Rest
<1>3. Page(Rest(pager[p])) \subseteq Rest(pager[p])
  BY DEF Page
<1> QED BY <1>1, <1>2, <1>3

\* A page appended to those of a walk.
LEMMA PagesAppended ==
  ASSUME NEW f \in Pager, NEW page \in SUBSET Cursor
  PROVE  /\ [f EXCEPT !.pages = Append(@, page)] \in Pager
         /\ Append(f.pages, page) \in Seq(SUBSET Cursor)
<1>1. f.pages \in Seq(SUBSET Cursor)
  BY DEF Pager
<1>2. Append(f.pages, page) \in Seq(SUBSET Cursor)
  BY <1>1
<1> HIDE DEF Cursor
<1> QED BY <1>2 DEF Pager

\* A pager changes nothing but its own state.
LEMMA PagersOnlyRead ==
  ASSUME NEW p \in Pagers,
         (\E filter \in Filters : BeginWalk(p, filter)) \/ NextPage(p) \/ CursorLost(p)
  PROVE  UNCHANGED <<items, seqCounter, tx>>
<1>1. ASSUME NEW filter \in Filters, BeginWalk(p, filter) PROVE UNCHANGED <<items, seqCounter, tx>>
  BY <1>1 DEF BeginWalk
<1>2. CASE NextPage(p)
  BY <1>2, Zenon DEF NextPage
<1>3. CASE CursorLost(p)
  BY <1>3 DEF CursorLost
<1> QED BY <1>1, <1>2, <1>3

LEMMA InitType == Init => TypeOK
BY RepositoryAssumption DEF Init, TypeOK, Items

LEMMA NextType == TypeOK /\ [Next]_vars => TypeOK'
<1> SUFFICES ASSUME TypeOK, [Next]_vars PROVE TypeOK'
  OBVIOUS
<1>1. ASSUME NEW by \in Writers, NEW i \in Ids, NEW v \in Values, NEW t \in Times,
             Create(by, i, v, t)
      PROVE  TypeOK'
  <2>1. items' \in Items /\ seqCounter' \in 0 .. MaxSeq
    BY <1>1, RepositoryAssumption DEF Create, TypeOK, Items, Stored
  <2> QED BY <1>1, <2>1, WitnessedType DEF Create, TypeOK
<1>2. ASSUME NEW by \in Writers, NEW i \in Ids, NEW v \in Values, Update(by, i, v)
      PROVE  TypeOK'
  <2>1. items[i] \in Stored
    BY <1>2 DEF Update, TypeOK, Items
  <2>2. [items[i] EXCEPT !.value = v] \in Stored
    BY <2>1 DEF Stored
  <2>3. items' \in Items
    BY <1>2, <2>2 DEF Update, TypeOK, Items
  <2> QED BY <1>2, <2>3, WitnessedType DEF Update, TypeOK
<1>3. ASSUME NEW by \in Writers, NEW i \in Ids, Delete(by, i) PROVE TypeOK'
  <2>1. CASE UNCHANGED vars
    BY <2>1 DEF vars, TypeOK
  <2>2. CASE ~UNCHANGED vars
    <3>1. items' \in Items
      BY <1>3, <2>2 DEF Delete, TypeOK, Items
    <3> QED BY <1>3, <2>2, <3>1, WitnessedType DEF Delete, TypeOK
  <2> QED BY <2>1, <2>2
<1>4. ASSUME NEW x \in Txs, Begin(x) PROVE TypeOK'
  <2>1. [snapshot |-> items, before |-> items, theirs |-> {}] \in Tx
    BY DEF TypeOK, Tx
  <2> QED BY <1>4, <2>1 DEF Begin, TypeOK
<1>5. ASSUME NEW x \in Txs, Commit(x) PROVE TypeOK'
  BY <1>5 DEF Commit, TypeOK
<1>6. ASSUME NEW x \in Txs, Rollback(x) PROVE TypeOK'
  <2>1. items' \in Items
    BY <1>6 DEF Rollback, TypeOK, Tx
  <2>2. pager' \in [Pagers -> Pager \cup {NotBegun}]
    BY <1>6, <2>1, WalksType DEF Rollback
  <2>3. ASSUME NEW y \in Txs PROVE tx'[y] \in Tx \cup {NoTx}
    <3>1. CASE y # x /\ y \in Open
      <4>1. tx[y] \in Tx
        BY <3>1, OpenIsTx
      <4>2. tx'[y] = [tx[y] EXCEPT !.theirs = @ \cup {i \in Ids : items'[i] # items[i]}]
        BY <1>6, <3>1 DEF Rollback
      <4> QED BY <4>1, <4>2 DEF Tx
    <3>2. CASE ~(y # x /\ y \in Open)
      BY <1>6, <3>2 DEF Rollback, TypeOK
    <3> QED BY <3>1, <3>2
  <2> QED BY <1>6, <2>1, <2>2, <2>3 DEF Rollback, TypeOK
<1>7. ASSUME NEW p \in Pagers, NEW filter \in Filters, BeginWalk(p, filter) PROVE TypeOK'
  <2>1. Listing(filter) \subseteq Cursor
    BY ListingType DEF TypeOK, Listing
  <2>2. [pc |-> "walking", filter |-> filter, cursor |-> Start, seen |-> {},
         pages |-> <<>>, steady |-> Listing(filter)] \in Pager
    BY <2>1 DEF Pager
  <2> QED BY <1>7, <2>2 DEF BeginWalk, TypeOK
<1>8. ASSUME NEW p \in Pagers, CursorLost(p) PROVE TypeOK'
  <2>1. pager[p] \in Pager
    BY <1>8, WalkingIsPager DEF CursorLost
  <2>2. [pager[p] EXCEPT !.pc = "unknown_cursor"] \in Pager
    BY <2>1 DEF Pager
  <2> QED BY <1>8, <2>2 DEF CursorLost, TypeOK
<1>9. ASSUME NEW p \in Pagers, NextPage(p) PROVE TypeOK'
  <2> DEFINE f    == pager[p]
             page == Page(Rest(f))
             g    == [f EXCEPT !.pages = Append(@, page)]
  <2>1. p \in Walking /\ UNCHANGED <<items, seqCounter, tx>>
    BY <1>9, Zenon DEF NextPage
  <2>2. f \in Pager /\ page \in SUBSET Cursor
    BY <2>1, WalkingIsPager, PageType
  <2>3. g \in Pager
    BY <2>2, PagesAppended
  <2>4. \E h \in Pager : pager' = [pager EXCEPT ![p] = h]
    <3>1. CASE pager' = [pager EXCEPT ![p] = [g EXCEPT !.pc = "done"]]
      <4>1. [g EXCEPT !.pc = "done"] \in Pager
        BY <2>3 DEF Pager
      <4> QED BY <3>1, <4>1
    <3>2. ASSUME NEW next \in nextCursor(Rest(f), page),
                 pager' = [pager EXCEPT ![p] =
                   IF next \in f.seen
                   THEN [g EXCEPT !.pc = "repeated_cursor"]
                   ELSE [g EXCEPT !.cursor = next, !.seen = @ \cup {next}]]
          PROVE  \E h \in Pager : pager' = [pager EXCEPT ![p] = h]
      <4>1. next \in Cursor
        BY <2>2 DEF nextCursor
      <4>2. [g EXCEPT !.pc = "repeated_cursor"] \in Pager
        BY <2>3 DEF Pager
      <4>3. [g EXCEPT !.cursor = next, !.seen = @ \cup {next}] \in Pager
        BY <2>3, <4>1 DEF Pager
      <4> QED BY <3>2, <4>2, <4>3
    <3> HIDE DEF g, page, f
    <3> QED BY <1>9, <3>1, <3>2, Zenon DEF NextPage, g, page, f
  <2> QED BY <2>1, <2>4 DEF TypeOK
<1>10. CASE UNCHANGED vars
  BY <1>10 DEF vars, TypeOK
<1> QED BY <1>1, <1>2, <1>3, <1>4, <1>5, <1>6, <1>7, <1>8, <1>9, <1>10 DEF Next

\* Every reachable state of the repository, its transactions and its pagers is
\* well-typed.
THEOREM RepositoryTypeCorrect == Spec => []TypeOK
BY InitType, NextType, PTL DEF Spec

-----------------------------------------------------------------------------
(* Positions and snapshots                                                 *)

\* Every position given out lies below the counter, and a snapshot holds what the
\* repository held: CursorsUnique alone says nothing about the next creation.
SeqBounded ==
  \A m \in Versions : \A i \in Ids : m[i] # Missing => m[i].seq < seqCounter
SnapshotKept ==
  \A x \in Open : tx[x].snapshot = tx[x].before

PositionInv == SeqBounded /\ CursorsUnique

\* A write closes no transaction and changes no snapshot.
LEMMA WitnessedOpen ==
  ASSUME TypeOK, items' \in Items, NEW by, NEW ids \in SUBSET Ids, Witnessed(by, ids)
  PROVE  /\ Open' = Open
         /\ \A x \in Open : /\ tx'[x] # NoTx
                            /\ tx'[x].snapshot = tx[x].snapshot
                            /\ tx'[x].before = tx[x].before
<1>1. ASSUME NEW x \in Open
      PROVE  tx'[x] # NoTx /\ tx'[x].snapshot = tx[x].snapshot /\ tx'[x].before = tx[x].before
  <2>1. x \in Txs /\ tx[x] \in Tx
    BY OpenIsTx
  <2>2. \/ tx'[x] = [tx[x] EXCEPT !.theirs = @ \ ids]
        \/ tx'[x] = [tx[x] EXCEPT !.theirs = @ \cup ids]
    BY <2>1 DEF Witnessed
  <2>3. tx'[x] \in Tx
    BY <2>1, <2>2 DEF Tx
  <2> QED BY <2>1, <2>2, <2>3, TxIsNotNoTx DEF Tx
<1>2. ASSUME NEW x \in Txs, x \notin Open PROVE tx'[x] = NoTx
  BY <1>2 DEF Witnessed, Open
<1> QED BY <1>1, <1>2 DEF Open

LEMMA WitnessedVersions ==
  ASSUME TypeOK, items' \in Items, NEW by, NEW ids \in SUBSET Ids, Witnessed(by, ids)
  PROVE  Versions' \subseteq Versions \cup {items'}
BY WitnessedOpen DEF Versions

\* A step after which every item stands where a version had one keeps PositionInv.
LEMMA NothingNew ==
  ASSUME PositionInv, TypeOK, TypeOK', seqCounter' = seqCounter,
         Versions' \subseteq Versions \cup {items'},
         \A j \in Ids : items'[j] # Missing =>
           \E m \in Versions : /\ m[j] # Missing
                              /\ m[j].seq = items'[j].seq
                              /\ m[j].createdAt = items'[j].createdAt
  PROVE  PositionInv'
<1>1. ASSUME NEW n \in Versions', NEW j \in Ids, n[j] # Missing
      PROVE  \E m \in Versions : /\ m[j] # Missing
                                /\ m[j].seq = n[j].seq
                                /\ m[j].createdAt = n[j].createdAt
  BY <1>1
<1>2. SeqBounded'
  BY <1>1 DEF PositionInv, SeqBounded
<1>3. CursorsUnique'
  <2> SUFFICES ASSUME NEW m \in Versions', NEW n \in Versions', NEW i \in Ids, NEW j \in Ids,
                      m[i] # Missing, n[j] # Missing, m[i].seq = n[j].seq
               PROVE  i = j /\ m[i].createdAt = n[j].createdAt
    BY DEF CursorsUnique
  <2>1. PICK a \in Versions : /\ a[i] # Missing
                              /\ a[i].seq = m[i].seq
                              /\ a[i].createdAt = m[i].createdAt
    BY <1>1
  <2>2. PICK b \in Versions : /\ b[j] # Missing
                              /\ b[j].seq = n[j].seq
                              /\ b[j].createdAt = n[j].createdAt
    BY <1>1
  <2> QED BY <2>1, <2>2 DEF PositionInv, CursorsUnique
<1> QED BY <1>2, <1>3 DEF PositionInv

LEMMA VersionsType ==
  ASSUME TypeOK
  PROVE  Versions \subseteq Items
BY OpenIsTx DEF Versions, TypeOK, Tx

LEMMA PositionStep == TypeOK /\ PositionInv /\ [Next]_vars => PositionInv'
<1> SUFFICES ASSUME TypeOK, PositionInv, [Next]_vars PROVE PositionInv'
  OBVIOUS
<1> TypeOK'
  BY NextType
<1> items \in Versions
  BY DEF Versions
<1>1. ASSUME NEW by \in Writers, NEW i \in Ids, NEW v \in Values, NEW t \in Times,
             Create(by, i, v, t)
      PROVE  PositionInv'
  <2>1. Versions' \subseteq Versions \cup {items'}
    BY <1>1, WitnessedVersions DEF Create, TypeOK
  <2>2. seqCounter \in Nat /\ seqCounter' = seqCounter + 1
    BY <1>1, RepositoryAssumption DEF Create, TypeOK
  <2>3. \A j \in Ids : IF j = i THEN items'[j].seq = seqCounter ELSE items'[j] = items[j]
    BY <1>1 DEF Create, TypeOK, Items
  \* Whatever is found in a version now was there before, or is the new item.
  <2>4. ASSUME NEW n \in Versions', NEW j \in Ids, n[j] # Missing
        PROVE  \/ \E m \in Versions : m[j] = n[j]
               \/ j = i /\ n = items' /\ n[j].seq = seqCounter
    BY <2>1, <2>3
  <2>5. \A m \in Versions : \A j \in Ids : m[j] # Missing => m[j].seq \in Nat /\ m[j].seq < seqCounter
    BY VersionsType DEF PositionInv, SeqBounded, Items, Stored
  <2>6. SeqBounded'
    BY <2>2, <2>4, <2>5 DEF SeqBounded
  <2>7. CursorsUnique'
    <3> SUFFICES ASSUME NEW m \in Versions', NEW n \in Versions', NEW j \in Ids, NEW k \in Ids,
                        m[j] # Missing, n[k] # Missing, m[j].seq = n[k].seq
                 PROVE  j = k /\ m[j].createdAt = n[k].createdAt
      BY DEF CursorsUnique
    <3>1. CASE /\ \E a \in Versions : a[j] = m[j]
               /\ \E b \in Versions : b[k] = n[k]
      BY <3>1 DEF PositionInv, CursorsUnique
    <3>2. CASE /\ j = i /\ m = items' /\ m[j].seq = seqCounter
               /\ k = i /\ n = items' /\ n[k].seq = seqCounter
      BY <3>2
    \* The new item's position is no old one's.
    <3>3. ASSUME \E a \in Versions : a[j] = m[j] PROVE m[j].seq \in Nat /\ m[j].seq < seqCounter
      BY <3>3, <2>5
    <3>4. ASSUME \E b \in Versions : b[k] = n[k] PROVE n[k].seq \in Nat /\ n[k].seq < seqCounter
      BY <3>4, <2>5
    <3> QED BY <2>2, <2>4, <3>1, <3>2, <3>3, <3>4
  <2> QED BY <2>6, <2>7 DEF PositionInv
<1>2. ASSUME NEW by \in Writers, NEW i \in Ids, NEW v \in Values, Update(by, i, v)
      PROVE  PositionInv'
  <2>1. Versions' \subseteq Versions \cup {items'} /\ seqCounter' = seqCounter
    BY <1>2, WitnessedVersions DEF Update, TypeOK
  <2>2. items[i] \in Stored /\ items[i] # Missing
    BY <1>2 DEF Update, TypeOK, Items
  <2>3. /\ items'[i] = [items[i] EXCEPT !.value = v]
        /\ \A j \in Ids : j # i => items'[j] = items[j]
    BY <1>2 DEF Update, TypeOK, Items
  <2>4. items'[i].seq = items[i].seq /\ items'[i].createdAt = items[i].createdAt
    BY <2>2, <2>3 DEF Stored
  <2> QED BY <2>1, <2>2, <2>3, <2>4, NothingNew
<1>3. ASSUME NEW by \in Writers, NEW i \in Ids, Delete(by, i) PROVE PositionInv'
  <2>1. CASE UNCHANGED vars
    BY <2>1, NothingNew DEF vars, Versions, Open
  <2>2. CASE ~UNCHANGED vars
    <3>1. Versions' \subseteq Versions \cup {items'} /\ seqCounter' = seqCounter
      BY <1>3, <2>2, WitnessedVersions DEF Delete, TypeOK
    <3>2. \A j \in Ids : items'[j] # Missing => items'[j] = items[j]
      BY <1>3, <2>2 DEF Delete, TypeOK, Items
    <3> QED BY <3>1, <3>2, NothingNew
  <2> QED BY <2>1, <2>2
<1>4. ASSUME NEW x \in Txs, Begin(x) PROVE PositionInv'
  <2>1. \A y \in Open' : tx'[y].snapshot = items \/ (y \in Open /\ tx'[y] = tx[y])
    BY <1>4 DEF Begin, TypeOK, Open
  <2>2. Versions' \subseteq Versions
    BY <1>4, <2>1 DEF Begin, Versions
  <2> QED BY <1>4, <2>2, NothingNew DEF Begin
<1>5. ASSUME NEW x \in Txs, Commit(x) PROVE PositionInv'
  <2>1. \A y \in Open' : y \in Open /\ tx'[y] = tx[y]
    BY <1>5 DEF Commit, TypeOK, Open
  <2>2. Versions' \subseteq Versions
    BY <1>5, <2>1 DEF Commit, Versions
  <2> QED BY <1>5, <2>2, NothingNew DEF Commit
<1>6. ASSUME NEW x \in Txs, Rollback(x) PROVE PositionInv'
  <2>1. items' \in Versions
    BY <1>6 DEF Rollback, Versions, Open
  <2>2. \A y \in Open' : y \in Open /\ tx'[y].snapshot = tx[y].snapshot
    <3> SUFFICES ASSUME NEW y \in Open' PROVE y \in Open /\ tx'[y].snapshot = tx[y].snapshot
      OBVIOUS
    <3>1. y \in Txs /\ y # x /\ y \in Open
      BY <1>6 DEF Rollback, Open
    <3>2. tx'[y] = [tx[y] EXCEPT !.theirs = @ \cup {i \in Ids : items'[i] # items[i]}]
      BY <1>6, <3>1 DEF Rollback
    <3>3. tx[y] \in Tx
      BY <3>1, OpenIsTx
    <3> QED BY <3>1, <3>2, <3>3 DEF Tx
  <2>3. Versions' \subseteq Versions
    BY <2>1, <2>2 DEF Versions
  <2> QED BY <1>6, <2>1, <2>3, NothingNew DEF Rollback
<1>7. ASSUME UNCHANGED <<items, seqCounter, tx>> PROVE PositionInv'
  BY <1>7 DEF PositionInv, SeqBounded, CursorsUnique, Versions, Open
<1>8. CASE UNCHANGED vars
  BY <1>7, <1>8 DEF vars
<1> QED BY <1>1, <1>2, <1>3, <1>4, <1>5, <1>6, <1>7, <1>8, PagersOnlyRead DEF Next

LEMMA PositionInit == Init => PositionInv
BY DEF Init, PositionInv, SeqBounded, CursorsUnique, Versions, Open

\* A cursor names one creation for ever, among all that the repository holds and
\* all that a rollback may bring back.
THEOREM CursorsUniqueCorrect == Spec => []CursorsUnique
<1>1. Init => TypeOK /\ PositionInv
  BY InitType, PositionInit
<1>2. TypeOK /\ PositionInv /\ [Next]_vars => (TypeOK /\ PositionInv)'
  BY NextType, PositionStep
<1>3. TypeOK /\ PositionInv => CursorsUnique
  BY DEF PositionInv
<1> QED BY <1>1, <1>2, <1>3, PTL DEF Spec
-----------------------------------------------------------------------------
(* Rollback                                                                *)

LEMMA SnapshotInit == Init => SnapshotKept
BY DEF Init, SnapshotKept, Open

LEMMA SnapshotStep == TypeOK /\ SnapshotKept /\ [Next]_vars => SnapshotKept'
<1> SUFFICES ASSUME TypeOK, SnapshotKept, [Next]_vars PROVE SnapshotKept'
  OBVIOUS
<1> TypeOK'
  BY NextType
<1>1. ASSUME NEW by \in Writers, NEW ids \in SUBSET Ids, Witnessed(by, ids) PROVE SnapshotKept'
  BY <1>1, WitnessedOpen DEF SnapshotKept, TypeOK
<1>2. ASSUME NEW x \in Txs, Begin(x) PROVE SnapshotKept'
  <2>1. \A y \in Open' : tx'[y].snapshot = tx'[y].before \/ (y \in Open /\ tx'[y] = tx[y])
    BY <1>2 DEF Begin, TypeOK, Open
  <2> QED BY <2>1 DEF SnapshotKept
<1>3. ASSUME NEW x \in Txs, Commit(x) PROVE SnapshotKept'
  <2>1. \A y \in Open' : y \in Open /\ tx'[y] = tx[y]
    BY <1>3 DEF Commit, TypeOK, Open
  <2> QED BY <2>1 DEF SnapshotKept
<1>4. ASSUME NEW x \in Txs, Rollback(x) PROVE SnapshotKept'
  <2> SUFFICES ASSUME NEW y \in Open' PROVE tx'[y].snapshot = tx'[y].before
    BY DEF SnapshotKept
  <2>1. y \in Txs /\ y # x /\ y \in Open
    BY <1>4 DEF Rollback, Open
  <2>2. tx'[y] = [tx[y] EXCEPT !.theirs = @ \cup {i \in Ids : items'[i] # items[i]}]
    BY <1>4, <2>1 DEF Rollback
  <2>3. tx[y] \in Tx
    BY <2>1, OpenIsTx
  <2> QED BY <2>1, <2>2, <2>3 DEF SnapshotKept, Tx
<1>5. ASSUME UNCHANGED <<items, seqCounter, tx>> PROVE SnapshotKept'
  BY <1>5 DEF SnapshotKept, Open
<1>6. CASE UNCHANGED vars
  BY <1>5, <1>6 DEF vars
<1> QED BY <1>1, <1>2, <1>3, <1>4, <1>5, <1>6, PagersOnlyRead
        DEF Next, Create, Update, Delete, vars

\* What a rollback does, step by step: only x's own rollback ends x and changes
\* items, and it restores x's snapshot.
LEMMA RollbackStep ==
  ASSUME TypeOK, SnapshotKept, [Next]_vars, NEW x \in Open, tx'[x] = NoTx, items' # items
  PROVE  items' = tx[x].before
<1>1. ASSUME NEW by \in Writers, NEW ids \in SUBSET Ids, Witnessed(by, ids) PROVE FALSE
  <2>1. items' \in Items
    BY NextType DEF TypeOK
  <2> QED BY <1>1, <2>1, WitnessedOpen
<1>2. ASSUME NEW y \in Txs, Begin(y) \/ Commit(y) PROVE FALSE
  BY <1>2 DEF Begin, Commit
<1>3. ASSUME NEW y \in Txs, Rollback(y) PROVE items' = tx[x].before
  <2>1. CASE y = x
    BY <1>3, <2>1 DEF Rollback, SnapshotKept
  <2>2. CASE y # x
    <3>1. x \in Txs /\ tx[x] \in Tx
      BY OpenIsTx
    <3>2. tx'[x] = [tx[x] EXCEPT !.theirs = @ \cup {i \in Ids : items'[i] # items[i]}]
      BY <1>3, <2>2, <3>1 DEF Rollback
    <3>3. tx'[x] \in Tx
      BY <3>1, <3>2 DEF Tx
    <3> QED BY <3>3, TxIsNotNoTx
  <2> QED BY <2>1, <2>2
<1>4. ASSUME UNCHANGED items PROVE FALSE
  BY <1>4
<1> QED BY <1>1, <1>2, <1>3, <1>4, PagersOnlyRead
        DEF Next, Create, Update, Delete, vars

\* A rollback undoes what the transaction wrote, whatever the others did.
THEOREM RollbackUndoesOwnCorrect == Spec => RollbackUndoesOwn
<1> DEFINE UndoesOwn ==
      \A x \in Open : tx'[x] = NoTx /\ items' # items =>
        \A i \in Ids \ tx[x].theirs : items'[i] = tx[x].before[i]
<1>1. Init => TypeOK /\ SnapshotKept
  BY InitType, SnapshotInit
<1>2. TypeOK /\ SnapshotKept /\ [Next]_vars => (TypeOK /\ SnapshotKept)'
  BY NextType, SnapshotStep
<1>3. TypeOK /\ SnapshotKept /\ [Next]_vars => [UndoesOwn]_vars
  BY RollbackStep
<1> QED BY <1>1, <1>2, <1>3, PTL DEF Spec, RollbackUndoesOwn
-----------------------------------------------------------------------------
(* Walks                                                                   *)

Yielded(f) == UNION {f.pages[n] : n \in DOMAIN f.pages}

\* A walk stands at its cursor: it has seen and handed out nothing beyond it, and
\* every survivor is either handed out or still ahead.
Behind(f) ==
  \/ f.cursor = Start /\ f.seen = {} /\ f.pages = <<>>
  \/ /\ f.cursor \in Cursor
     /\ \A k \in f.seen \cup Yielded(f) : k = f.cursor \/ Before(k, f.cursor)
Ahead(f) ==
  \A k \in f.steady : k \in Yielded(f) \/ f.cursor = Start \/ Before(f.cursor, k)
Ordered(f) ==
  /\ f.pc # "repeated_cursor"
  /\ \A m, n \in DOMAIN f.pages : m < n =>
       \A k \in f.pages[m], l \in f.pages[n] : Before(k, l)
Complete(f) == f.pc = "done" => f.steady \subseteq Yielded(f)

WalkInv ==
  \A p \in Pagers : pager[p] # NotBegun =>
    /\ Ordered(pager[p])
    /\ Complete(pager[p])
    /\ pager[p].pc = "walking" =>
         /\ Behind(pager[p])
         /\ Ahead(pager[p])
         /\ pager[p].steady \subseteq Listing(pager[p].filter)

LEMMA BeforeOrder ==
  /\ \A k \in Cursor : ~Before(k, k)
  /\ \A k, l, m \in Cursor : Before(k, l) /\ Before(l, m) => Before(k, m)
  /\ \A k, l \in Cursor : k = l \/ Before(k, l) \/ Before(l, k)
<1>1. \A k \in Cursor : k[1] \in Nat /\ k[2] \in Nat
  BY RepositoryAssumption DEF Cursor
<1>2. \A k, l \in Cursor : k[1] = l[1] /\ k[2] = l[2] => k = l
  BY DEF Cursor
<1>3. \A k, l, m \in Cursor : Before(k, l) /\ Before(l, m) => Before(k, m)
  BY <1>1 DEF Before
<1>4. \A k, l \in Cursor : k = l \/ Before(k, l) \/ Before(l, k)
  BY <1>1, <1>2 DEF Before
<1> QED BY <1>1, <1>3, <1>4 DEF Before

LEMMA StartNoCursor == Start \notin Cursor
BY DEF Start, Cursor

LEMMA ListingFinite ==
  ASSUME NEW store \in Items, NEW filter
  PROVE  IsFiniteSet(ListingOf(store, filter))
<1> DEFINE S == {j \in Ids : store[j] # Missing /\ (filter = "any" \/ store[j].value = filter)}
           T == ListingOf(store, filter)
           F == [i \in S |-> cursorFor(store[i])]
<1>1. IsFiniteSet(S)
  BY RepositoryAssumption, FS_Subset
<1>2. F \in Surjection(S, T)
  BY DEF Surjection, ListingOf
<1> QED BY <1>1, <1>2, FS_Surjection

\* A page is an initial part of what is left.
LEMMA PageIsPrefix ==
  ASSUME NEW rest \in SUBSET Cursor, IsFiniteSet(rest),
         NEW k \in Page(rest), NEW l \in rest \ Page(rest)
  PROVE  Before(k, l)
<1> DEFINE B(x) == {y \in rest : Before(y, x)}
<1>1. SUFFICES ASSUME Before(l, k) PROVE FALSE
  BY BeforeOrder DEF Page
<1>2. B(l) \subseteq B(k)
  BY <1>1, BeforeOrder DEF Page
<1>3. IsFiniteSet(B(k)) /\ IsFiniteSet(B(l))
  BY FS_Subset
<1>4. Cardinality(B(l)) <= Cardinality(B(k))
  BY <1>2, <1>3, FS_Subset
<1>5. Cardinality(B(l)) \in Nat /\ Cardinality(B(k)) \in Nat
  BY <1>3, FS_CardinalityType
<1>6. Cardinality(B(k)) < Limit /\ ~(Cardinality(B(l)) < Limit)
  BY DEF Page
<1> QED BY <1>4, <1>5, <1>6, RepositoryAssumption

\* The pages of a walk that has read one more.
LEMMA YieldedAppend ==
  ASSUME NEW f \in Pager, NEW g \in Pager, NEW page \in SUBSET Cursor,
         g.pages = Append(f.pages, page)
  PROVE  Yielded(g) = Yielded(f) \cup page
<1>1. f.pages \in Seq(SUBSET Cursor)
  BY DEF Pager
<1>2. /\ DOMAIN g.pages = DOMAIN f.pages \cup {Len(f.pages) + 1}
      /\ \A n \in DOMAIN f.pages : g.pages[n] = f.pages[n]
      /\ g.pages[Len(f.pages) + 1] = page
  BY <1>1
<1> QED BY <1>2 DEF Yielded

LEMMA OrderedAppend ==
  ASSUME NEW f \in Pager, NEW g \in Pager, NEW page \in SUBSET Cursor,
         g.pages = Append(f.pages, page), g.pc # "repeated_cursor",
         Ordered(f), \A k \in Yielded(f), l \in page : Before(k, l)
  PROVE  Ordered(g)
<1>1. f.pages \in Seq(SUBSET Cursor)
  BY DEF Pager
<1>2. /\ DOMAIN g.pages = DOMAIN f.pages \cup {Len(f.pages) + 1}
      /\ DOMAIN f.pages = 1 .. Len(f.pages) /\ Len(f.pages) \in Nat
      /\ \A n \in DOMAIN f.pages : g.pages[n] = f.pages[n]
      /\ g.pages[Len(f.pages) + 1] = page
  BY <1>1
<1>3. ASSUME NEW m \in DOMAIN g.pages, NEW n \in DOMAIN g.pages, m < n
      PROVE  \A k \in g.pages[m], l \in g.pages[n] : Before(k, l)
  <2>1. m \in DOMAIN f.pages
    BY <1>2, <1>3
  <2>2. CASE n \in DOMAIN f.pages
    BY <1>2, <1>3, <2>1, <2>2 DEF Ordered
  <2>3. CASE n = Len(f.pages) + 1
    BY <1>2, <2>1, <2>3 DEF Yielded
  <2> QED BY <1>2, <2>2, <2>3
<1> QED BY <1>3 DEF Ordered

\* The step of a walk: p's frame f becomes h.
LEMMA PageStep ==
  ASSUME TypeOK, WalkInv, NEW p \in Walking, NEW h \in Pager,
         LET f    == pager[p]
             page == Page(Rest(f))
         IN  /\ h.pages = Append(f.pages, page)
             /\ h.steady = f.steady /\ h.filter = f.filter
             /\ \/ page = Rest(f) /\ h.pc = "done"
                \/ \E next \in nextCursor(Rest(f), page) :
                     IF next \in f.seen
                     THEN h.pc = "repeated_cursor"
                     ELSE /\ h.pc = "walking" /\ h.cursor = next
                          /\ h.seen = f.seen \cup {next}
  PROVE  /\ Ordered(h)
         /\ Complete(h)
         /\ h.pc = "walking" => Behind(h) /\ Ahead(h)
<1> DEFINE f    == pager[p]
           rest == Rest(f)
           page == Page(rest)
<1>1. /\ f \in Pager /\ p \in Pagers /\ f.pc = "walking"
      /\ rest \in SUBSET Cursor /\ page \in SUBSET rest
      /\ rest \subseteq Listing(f.filter)
  BY WalkingIsPager, PageType DEF Walking
<1>2. /\ Ordered(f) /\ Behind(f) /\ Ahead(f)
      /\ f.steady \subseteq Listing(f.filter)
  BY <1>1 DEF WalkInv, NotBegun
<1>3. IsFiniteSet(rest)
  BY <1>1, ListingFinite, FS_Subset DEF Listing, TypeOK
<1>4. \A k \in f.seen \cup Yielded(f), l \in rest : Before(k, l)
  <2>1. CASE f.cursor = Start /\ f.seen = {} /\ f.pages = <<>>
    BY <2>1 DEF Yielded
  <2>2. CASE /\ f.cursor \in Cursor
             /\ \A k \in f.seen \cup Yielded(f) : k = f.cursor \/ Before(k, f.cursor)
    <3>1. \A l \in rest : l \in Cursor /\ Before(f.cursor, l)
      BY <1>1, <2>2, StartNoCursor DEF Rest
    <3>2. f.seen \cup Yielded(f) \subseteq Cursor
      BY <1>1 DEF Pager, Yielded
    <3> QED BY <2>2, <3>1, <3>2, BeforeOrder
  <2> QED BY <1>2, <2>1, <2>2 DEF Behind
<1>5. \A k \in f.steady : k \in Yielded(f) \cup rest
  BY <1>2 DEF Ahead, Rest
<1>6. Yielded(h) = Yielded(f) \cup page
  BY <1>1, YieldedAppend
<1>7. /\ h.pages = Append(f.pages, page) /\ page \in SUBSET Cursor
      /\ \A k \in Yielded(f), l \in page : Before(k, l)
  BY <1>1, <1>4
<1> HIDE DEF f, rest, page
<1>8. CASE page = rest /\ h.pc = "done"
  <2>1. Ordered(h)
    BY <1>1, <1>2, <1>8, <1>7, OrderedAppend
  <2>2. Complete(h)
    BY <1>5, <1>6, <1>8 DEF Complete, f, rest, page
  <2> QED BY <1>8, <2>1, <2>2
<1>9. ASSUME NEW next \in nextCursor(rest, page),
             IF next \in f.seen
             THEN h.pc = "repeated_cursor"
             ELSE h.pc = "walking" /\ h.cursor = next /\ h.seen = f.seen \cup {next}
      PROVE  /\ Ordered(h) /\ Complete(h) /\ Behind(h) /\ Ahead(h)
  <2>1. next \in page /\ next \in Cursor /\ \A l \in page : ~Before(next, l)
    BY <1>1 DEF nextCursor
  <2>2. next \notin f.seen
    BY <1>1, <1>4, <2>1, BeforeOrder
  <2>3. h.pc = "walking" /\ h.cursor = next /\ h.seen = f.seen \cup {next}
    BY <1>9, <2>2
  <2>4. Ordered(h)
    BY <1>1, <1>2, <1>7, <2>3, OrderedAppend
  <2>5. \A k \in h.seen \cup Yielded(h) : k = next \/ Before(k, next)
    BY <1>1, <1>4, <1>6, <2>1, <2>3, BeforeOrder
  <2>6. \A k \in rest \ page : Before(next, k)
    BY <1>1, <1>3, <2>1, PageIsPrefix DEF page
  <2>7. Behind(h)
    BY <2>1, <2>3, <2>5 DEF Behind
  <2>8. Ahead(h)
    BY <1>5, <1>6, <2>3, <2>6 DEF Ahead, f
  <2> QED BY <2>3, <2>4, <2>7, <2>8 DEF Complete
<1> QED BY <1>8, <1>9 DEF f, rest, page
LEMMA WalksKept ==
  ASSUME TypeOK, TypeOK', WalkInv, WalksWitness
  PROVE  WalkInv'
<1> SUFFICES ASSUME NEW p \in Pagers, pager'[p] # NotBegun
             PROVE  /\ Ordered(pager'[p])
                    /\ Complete(pager'[p])
                    /\ pager'[p].pc = "walking" =>
                         /\ Behind(pager'[p])
                         /\ Ahead(pager'[p])
                         /\ pager'[p].steady \subseteq ListingOf(items', pager'[p].filter)
  BY DEF WalkInv, Listing
<1>1. CASE p \in Walking
  <2> DEFINE f == pager[p]
             g == pager'[p]
  <2>1. f \in Pager /\ f.pc = "walking" /\ f # NotBegun
    BY <1>1, WalkingIsPager DEF Walking, NotBegun
  <2>2. g = [f EXCEPT !.steady = @ \cap ListingOf(items', f.filter)]
    BY <1>1 DEF WalksWitness
  <2>3. /\ g.pc = f.pc /\ g.filter = f.filter /\ g.cursor = f.cursor
        /\ g.seen = f.seen /\ g.pages = f.pages
        /\ g.steady = f.steady \cap ListingOf(items', f.filter)
    BY <2>1, <2>2 DEF Pager
  <2>4. Ordered(f) /\ Behind(f) /\ Ahead(f)
    BY <1>1, <2>1 DEF WalkInv, Walking
  <2> HIDE DEF f, g
  <2>5. Ordered(g) /\ Behind(g) /\ Ahead(g) /\ Complete(g)
    BY <2>1, <2>3, <2>4 DEF Ordered, Behind, Ahead, Complete, Yielded
  <2> QED BY <2>3, <2>5 DEF g
<1>2. CASE p \notin Walking
  <2>1. pager'[p] = pager[p] /\ pager[p].pc # "walking"
    BY <1>2 DEF WalksWitness, Walking
  <2> QED BY <2>1 DEF WalkInv
<1> QED BY <1>1, <1>2

\* A walk whose pager turns from f to h while nothing else changes.
LEMMA OneWalkMoves ==
  ASSUME TypeOK, WalkInv, NEW p \in Pagers, NEW h,
         pager' = [pager EXCEPT ![p] = h], UNCHANGED items,
         h # NotBegun => /\ Ordered(h) /\ Complete(h)
                         /\ h.pc = "walking" =>
                              /\ Behind(h) /\ Ahead(h)
                              /\ h.steady \subseteq Listing(h.filter)
  PROVE  WalkInv'
<1>1. pager'[p] = h /\ \A q \in Pagers : q # p => pager'[q] = pager[q]
  BY DEF TypeOK
<1>2. \A filter : Listing(filter)' = Listing(filter)
  BY DEF Listing
<1> QED BY <1>1, <1>2 DEF WalkInv

\* What NextPage makes of a frame, as PageStep wants it.
LEMMA NextPageFrame ==
  ASSUME TypeOK, NEW p \in Walking, NEW next
  PROVE  LET f == pager[p]
             g == [f EXCEPT !.pages = Append(@, Page(Rest(f)))]
             d == [g EXCEPT !.pc = "done"]
             r == [g EXCEPT !.pc = "repeated_cursor"]
             w == [g EXCEPT !.cursor = next, !.seen = @ \cup {next}]
         IN  /\ d \in Pager /\ r \in Pager /\ (next \in Cursor => w \in Pager)
             /\ \A h \in {d, r, w} :
                  /\ h.pages = Append(f.pages, Page(Rest(f)))
                  /\ h.steady = f.steady /\ h.filter = f.filter
             /\ d.pc = "done" /\ r.pc = "repeated_cursor"
             /\ w.pc = "walking" /\ w.cursor = next /\ w.seen = f.seen \cup {next}
<1> DEFINE f == pager[p]
           pages == Append(f.pages, Page(Rest(f)))
           g == [f EXCEPT !.pages = pages]
           d == [g EXCEPT !.pc = "done"]
           r == [g EXCEPT !.pc = "repeated_cursor"]
           w == [g EXCEPT !.cursor = next, !.seen = @ \cup {next}]
<1>1. f \in Pager /\ f.pc = "walking"
  BY WalkingIsPager DEF Walking
<1>2. pages \in Seq(SUBSET Cursor)
  BY <1>1, PageType, PagesAppended
<1> HIDE DEF f, pages
<1>3. /\ g \in Pager /\ g.pages = pages /\ g.pc = "walking"
      /\ g.steady = f.steady /\ g.filter = f.filter /\ g.seen = f.seen
  BY <1>1, <1>2 DEF Pager
<1> HIDE DEF g
<1>4. /\ d \in Pager /\ d.pages = pages /\ d.steady = f.steady /\ d.filter = f.filter
      /\ d.pc = "done"
  BY <1>3 DEF Pager
<1>5. /\ r \in Pager /\ r.pages = pages /\ r.steady = f.steady /\ r.filter = f.filter
      /\ r.pc = "repeated_cursor"
  BY <1>3 DEF Pager
<1>6. /\ (next \in Cursor => w \in Pager) /\ w.pages = pages /\ w.steady = f.steady /\ w.filter = f.filter
      /\ w.pc = "walking" /\ w.cursor = next /\ w.seen = f.seen \cup {next}
  BY <1>3 DEF Pager
<1> HIDE DEF d, r, w
<1>7. /\ \A h \in {d, r, w} :
           h.pages = pages /\ h.steady = f.steady /\ h.filter = f.filter
  BY <1>4, <1>5, <1>6
<1> QED BY <1>4, <1>5, <1>6, <1>7, Zenon DEF d, r, w, g, pages, f

LEMMA WalkStep == TypeOK /\ WalkInv /\ [Next]_vars => WalkInv'
<1> SUFFICES ASSUME TypeOK, WalkInv, [Next]_vars PROVE WalkInv'
  OBVIOUS
<1> TypeOK'
  BY NextType
<1>1. ASSUME WalksWitness PROVE WalkInv'
  BY <1>1, WalksKept
<1>2. ASSUME UNCHANGED <<items, pager>> PROVE WalkInv'
  BY <1>2 DEF WalkInv, Listing
<1>3. ASSUME NEW p \in Pagers, NEW filter \in Filters, BeginWalk(p, filter) PROVE WalkInv'
  <2> DEFINE h == [pc |-> "walking", filter |-> filter, cursor |-> Start, seen |-> {},
                   pages |-> <<>>, steady |-> Listing(filter)]
  <2>1. Ordered(h) /\ Complete(h)
    BY DEF Ordered, Complete
  <2>2. Behind(h) /\ Ahead(h) /\ h.steady \subseteq Listing(h.filter)
    BY DEF Behind, Ahead
  <2>3. pager' = [pager EXCEPT ![p] = h] /\ UNCHANGED items
    BY <1>3 DEF BeginWalk
  <2> HIDE DEF h
  <2> QED BY <2>1, <2>2, <2>3, OneWalkMoves
<1>4. ASSUME NEW p \in Pagers, CursorLost(p) PROVE WalkInv'
  <2> DEFINE f == pager[p]
             h == [f EXCEPT !.pc = "unknown_cursor"]
  <2>1. pager' = [pager EXCEPT ![p] = h] /\ UNCHANGED items /\ p \in Walking
    BY <1>4 DEF CursorLost
  <2>2. f \in Pager /\ f # NotBegun /\ Ordered(f)
    BY <2>1, WalkingIsPager DEF WalkInv, Walking, NotBegun
  <2>3. h.pc = "unknown_cursor" /\ h.pages = f.pages
    BY <2>2 DEF Pager
  <2> HIDE DEF f, h
  <2>4. Ordered(h) /\ Complete(h)
    BY <2>2, <2>3 DEF Ordered, Complete
  <2> QED BY <2>1, <2>3, <2>4, OneWalkMoves
<1>5. ASSUME NEW p \in Pagers, NextPage(p) PROVE WalkInv'
  <2> DEFINE f    == pager[p]
             rest == Rest(f)
             page == Page(rest)
             g    == [f EXCEPT !.pages = Append(@, page)]
             d    == [g EXCEPT !.pc = "done"]
             r    == [g EXCEPT !.pc = "repeated_cursor"]
             w(k) == [g EXCEPT !.cursor = k, !.seen = @ \cup {k}]
  <2>1. p \in Walking /\ UNCHANGED items
    BY <1>5, PagersOnlyRead, Zenon DEF NextPage
  <2>2. /\ f \in Pager /\ f # NotBegun
        /\ f.steady \subseteq Listing(f.filter)
        /\ nextCursor(rest, page) \subseteq Cursor
    BY <2>1, WalkingIsPager, PageType DEF WalkInv, Walking, NotBegun, nextCursor
  <2>3. \A k : /\ d \in Pager /\ r \in Pager /\ (k \in Cursor => w(k) \in Pager)
               /\ \A h \in {d, r, w(k)} :
                    /\ h.pages = Append(f.pages, page)
                    /\ h.steady = f.steady /\ h.filter = f.filter
               /\ d.pc = "done" /\ r.pc = "repeated_cursor"
               /\ w(k).pc = "walking" /\ w(k).cursor = k /\ w(k).seen = f.seen \cup {k}
    BY <2>1, NextPageFrame, Zenon
  <2>4. \/ page = rest /\ pager' = [pager EXCEPT ![p] = d]
        \/ \E k \in nextCursor(rest, page) :
             pager' = [pager EXCEPT ![p] = IF k \in f.seen THEN r ELSE w(k)]
    BY <1>5, Zenon DEF NextPage
  <2> HIDE DEF d, r, w, g
  <2> DEFINE Turned(h) ==
        /\ pager' = [pager EXCEPT ![p] = h]
        /\ h.pages = Append(f.pages, page)
        /\ h.steady = f.steady /\ h.filter = f.filter
        /\ \/ page = rest /\ h.pc = "done"
           \/ \E next \in nextCursor(rest, page) :
                IF next \in f.seen
                THEN h.pc = "repeated_cursor"
                ELSE h.pc = "walking" /\ h.cursor = next /\ h.seen = f.seen \cup {next}
  <2> HIDE DEF f, rest, page
  <2>5. \E h \in Pager : Turned(h)
    <3>1. CASE page = rest /\ pager' = [pager EXCEPT ![p] = d]
      <4>1. d \in Pager /\ Turned(d)
        BY <2>3, <3>1
      <4> QED BY <4>1
    <3>2. ASSUME NEW k \in nextCursor(rest, page), k \in f.seen,
                 pager' = [pager EXCEPT ![p] = r]
          PROVE  \E h \in Pager : Turned(h)
      <4>1. r \in Pager /\ Turned(r)
        BY <2>3, <3>2
      <4> QED BY <4>1
    <3>3. ASSUME NEW k \in nextCursor(rest, page), k \notin f.seen,
                 pager' = [pager EXCEPT ![p] = w(k)]
          PROVE  \E h \in Pager : Turned(h)
      <4>1. w(k) \in Pager /\ Turned(w(k))
        BY <2>2, <2>3, <3>3
      <4> QED BY <4>1
    <3> QED BY <2>4, <3>1, <3>2, <3>3
  <2>6. PICK h \in Pager : Turned(h)
    BY <2>5
  <2>7. /\ Ordered(h) /\ Complete(h)
        /\ h.pc = "walking" => Behind(h) /\ Ahead(h)
    BY <2>1, <2>6, PageStep DEF f, rest, page
  <2>8. h.steady \subseteq Listing(h.filter)
    BY <2>2, <2>6
  <2> QED BY <2>1, <2>6, <2>7, <2>8, OneWalkMoves
<1>6. ASSUME NEW x \in Txs, Begin(x) \/ Commit(x) \/ Rollback(x) PROVE WalkInv'
  BY <1>1, <1>2, <1>6 DEF Begin, Commit, Rollback
<1>7. ASSUME NEW by, NEW ids, Witnessed(by, ids) PROVE WalkInv'
  BY <1>1, <1>7 DEF Witnessed
<1>8. CASE UNCHANGED vars
  BY <1>2, <1>8 DEF vars
<1> QED BY <1>2, <1>3, <1>4, <1>5, <1>6, <1>7, <1>8 DEF Next, Create, Update, Delete, vars

LEMMA WalkInit == Init => WalkInv
BY DEF Init, WalkInv

LEMMA WalkInvariant == Spec => []WalkInv
<1>1. Init => TypeOK /\ WalkInv
  BY InitType, WalkInit
<1>2. TypeOK /\ WalkInv /\ [Next]_vars => (TypeOK /\ WalkInv)'
  BY NextType, WalkStep
<1> QED BY <1>1, <1>2, PTL DEF Spec

\* However the repository is written to between its pages, a walk moves strictly
\* on, and never takes a cursor of its own for a repeated one.
THEOREM WalkAdvancesCorrect == Spec => []WalkAdvances
<1>1. WalkInv => WalkAdvances
  BY DEF WalkInv, WalkAdvances, Ordered
<1> QED BY <1>1, WalkInvariant, PTL

\* A walk that ends has handed out every item that was listed all along.
THEOREM SurvivorsYieldedCorrect == Spec => []SurvivorsYielded
<1>1. WalkInv => SurvivorsYielded
  BY DEF WalkInv, SurvivorsYielded, Complete, Yielded, NotBegun
<1> QED BY <1>1, WalkInvariant, PTL
=============================================================================

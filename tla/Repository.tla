----------------------------- MODULE Repository -----------------------------
(***************************************************************************)
(* InMemoryRepository and InMemoryUnitOfWork (packages/persistence/src)    *)
(* under concurrent writers, and paginateAll (packages/sdk/src) reading    *)
(* the repository page by page.                                            *)
(*                                                                         *)
(* Every method of the repository does its work in the turn that calls it  *)
(* and hands out copies, so a call is one step; between two calls of a     *)
(* transaction or of a pager anybody else may call.  The transaction       *)
(* context is a marker: a write in a transaction is a write like any       *)
(* other.  CONFLICT and NOT_FOUND change nothing and are left out.         *)
(***************************************************************************)
EXTENDS Naturals, FiniteSets, Sequences

CONSTANTS
  Ids,      \* entity ids; an id may be created again after a delete
  Values,   \* what an entity holds, as far as a filter can tell
  Times,    \* readings of the clock, which need not advance
  Pagers,   \* walks of paginateAll
  Txs,      \* callers of runInTransaction
  Others,   \* callers that write outside a transaction
  Limit,    \* pagination.limit; a pager that asks for nothing gets nothing
  MaxSeq    \* bound: entities created

ASSUME RepositoryAssumption ==
  /\ IsFiniteSet(Ids)
  /\ Times \subseteq Nat
  /\ Limit \in Nat \ {0}
  /\ MaxSeq \in Nat

VARIABLES
  items,       \* per id, the stored entity
  seqCounter,
  pager,       \* per pager, the local variables of paginateAll
  tx           \* per transaction, its snapshot and who wrote since (history)

vars == <<items, seqCounter, pager, tx>>

-----------------------------------------------------------------------------

Stored == [value : Values, createdAt : Times, seq : Nat]
Missing == [value |-> "missing"]

Items == [Ids -> Stored \cup {Missing}]

\* A cursor names the position of an item; items are ordered by position.
Cursor == Times \X Nat
Start  == <<>>

Filters == Values \cup {"any"}

\* pages and steady are history: the positions handed out, page by page, and those
\* listed at every moment since the walk began.
Pager == [pc : {"walking", "done", "unknown_cursor", "repeated_cursor"},
          filter : Filters, cursor : Cursor \cup {Start}, seen : SUBSET Cursor,
          pages : Seq(SUBSET Cursor), steady : SUBSET Cursor]
NotBegun == [pc |-> "idle"]

\* before and theirs are history: what the repository held when the snapshot was
\* taken, and the ids somebody else has been the last to write since.
Tx == [snapshot : Items, before : Items, theirs : SUBSET Ids]
NoTx == [snapshot |-> <<>>]

TypeOK ==
  /\ items \in Items
  /\ seqCounter \in 0 .. MaxSeq
  /\ pager \in [Pagers -> Pager \cup {NotBegun}]
  /\ tx \in [Txs -> Tx \cup {NoTx}]

Init ==
  /\ items = [i \in Ids |-> Missing]
  /\ seqCounter = 0
  /\ pager = [p \in Pagers |-> NotBegun]
  /\ tx = [x \in Txs |-> NoTx]

-----------------------------------------------------------------------------

Live == {i \in Ids : items[i] # Missing}

\* The counter breaks the ties of the clock.
cursorFor(stored) == <<stored.createdAt, stored.seq>>

\* compareStored
Before(k, l) == k[1] < l[1] \/ (k[1] = l[1] /\ k[2] < l[2])

\* What findMany lists of a store, its items named by their positions.
ListingOf(store, filter) ==
  {cursorFor(store[i]) :
     i \in {j \in Ids : store[j] # Missing /\ (filter = "any" \/ store[j].value = filter)}}

Listing(filter) == ListingOf(items, filter)

Walking == {p \in Pagers : pager[p].pc = "walking"}
Open == {x \in Txs : tx[x] # NoTx}

\* A write in the histories of the walks, and in those of the transactions.
WalksWitness ==
  pager' = [p \in Pagers |->
    IF p \in Walking
    THEN [pager[p] EXCEPT !.steady = @ \cap ListingOf(items', pager[p].filter)]
    ELSE pager[p]]

Witnessed(by, ids) ==
  /\ WalksWitness
  /\ tx' = [x \in Txs |->
       CASE x \in Open /\ x = by -> [tx[x] EXCEPT !.theirs = @ \ ids]
         [] x \in Open /\ x # by -> [tx[x] EXCEPT !.theirs = @ \cup ids]
         [] OTHER -> tx[x]]

-----------------------------------------------------------------------------
(* create, update and delete, by a transaction or by anybody else          *)

\* Fault: the tie-breaker is the number of items, not a counter.
Create_CountsItems(by, i, v, t) ==
  /\ seqCounter < MaxSeq
  /\ items[i] = Missing
  /\ items' = [items EXCEPT
       ![i] = [value |-> v, createdAt |-> t, seq |-> Cardinality(Live)]]
  /\ seqCounter' = seqCounter + 1
  /\ Witnessed(by, {i})

Create(by, i, v, t) ==
  /\ seqCounter < MaxSeq
  /\ items[i] = Missing
  /\ items' = [items EXCEPT ![i] = [value |-> v, createdAt |-> t, seq |-> seqCounter]]
  /\ seqCounter' = seqCounter + 1
  /\ Witnessed(by, {i})

\* Faults: the item is replaced by one without a position; a snapshot shares the
\* items with the repository.
Update_DropsPosition(by, i, v) ==
  /\ items[i] # Missing
  /\ items' = [items EXCEPT ![i] = [value |-> v]]
  /\ Witnessed(by, {i})
  /\ UNCHANGED seqCounter
Update_InSnapshots(by, i, v) ==
  /\ items[i] # Missing
  /\ items' = [items EXCEPT ![i].value = v]
  /\ tx' = [x \in Txs |->
       IF x \in Open /\ tx[x].snapshot[i] = items[i]
       THEN [tx[x] EXCEPT !.snapshot[i].value = v, !.theirs = @ \ {i}]
       ELSE tx[x]]
  /\ WalksWitness
  /\ UNCHANGED seqCounter

\* An update keeps the item's position.
Update(by, i, v) ==
  /\ items[i] # Missing
  /\ items' = [items EXCEPT ![i].value = v]
  /\ Witnessed(by, {i})
  /\ UNCHANGED seqCounter

\* Nothing to delete is no error.
Delete(by, i) ==
  \/ /\ items[i] # Missing
     /\ items' = [items EXCEPT ![i] = Missing]
     /\ Witnessed(by, {i})
     /\ UNCHANGED seqCounter
  \/ items[i] = Missing /\ UNCHANGED vars

-----------------------------------------------------------------------------
(* runInTransaction                                                        *)

Begin(x) ==
  /\ tx[x] = NoTx
  /\ tx' = [tx EXCEPT ![x] = [snapshot |-> items, before |-> items, theirs |-> {}]]
  /\ UNCHANGED <<items, seqCounter, pager>>

\* The callback resolves: nothing is left to do.
Commit(x) ==
  /\ tx[x] # NoTx
  /\ tx' = [tx EXCEPT ![x] = NoTx]
  /\ UNCHANGED <<items, seqCounter, pager>>

\* The callback throws: the snapshot replaces whatever the repository holds, but
\* for the counter, which goes on.
Rollback(x) ==
  /\ tx[x] # NoTx
  /\ items' = tx[x].snapshot
  /\ WalksWitness
  /\ tx' = [y \in Txs |->
       CASE y = x -> NoTx
         [] y # x /\ y \in Open ->
              [tx[y] EXCEPT !.theirs = @ \cup {i \in Ids : items'[i] # items[i]}]
         [] OTHER -> tx[y]]
  /\ UNCHANGED seqCounter

-----------------------------------------------------------------------------
(* paginateAll over findMany                                               *)

\* The first Limit positions of rest.
Page(rest) == {k \in rest : Cardinality({l \in rest : Before(l, k)}) < Limit}

BeginWalk(p, filter) ==
  /\ pager[p] = NotBegun
  /\ pager' = [pager EXCEPT ![p] =
       [pc |-> "walking", filter |-> filter, cursor |-> Start, seen |-> {},
        pages |-> <<>>, steady |-> Listing(filter)]]
  /\ UNCHANGED <<items, seqCounter, tx>>

\* What is left behind a cursor.  Fault: the cursor's own item is read again.
Rest_AtCursor(f) ==
  {k \in Listing(f.filter) : f.cursor = Start \/ ~Before(k, f.cursor)}
Rest(f) ==
  {k \in Listing(f.filter) : f.cursor = Start \/ Before(f.cursor, k)}

\* The position of a page's last item, as a set of one.  Fault: that of the first
\* item that is not in the page.
nextCursor_FirstUnread(rest, page) ==
  {k \in rest \ page : \A l \in rest \ page : ~Before(l, k)}
nextCursor(rest, page) ==
  {k \in page : \A l \in page : ~Before(k, l)}

\* A cursor whose item is no longer listed is unknown.
CursorLost(p) ==
  /\ p \in Walking
  /\ pager[p].cursor # Start
  /\ pager[p].cursor \notin Listing(pager[p].filter)
  /\ pager' = [pager EXCEPT ![p].pc = "unknown_cursor"]
  /\ UNCHANGED <<items, seqCounter, tx>>

\* One turn of paginateAll: fetch a page, yield its items, go on from its cursor,
\* end if it has none, abort if it was seen before.
NextPage(p) ==
  LET f    == pager[p]
      rest == Rest(f)
      page == Page(rest)
      g    == [f EXCEPT !.pages = Append(@, page)]
  IN
  /\ p \in Walking
  /\ f.cursor = Start \/ f.cursor \in Listing(f.filter)
  /\ \/ page = rest /\ pager' = [pager EXCEPT ![p] = [g EXCEPT !.pc = "done"]]
     \/ /\ page # rest
        /\ \E next \in nextCursor(rest, page) :
             pager' = [pager EXCEPT ![p] =
               IF next \in f.seen
               THEN [g EXCEPT !.pc = "repeated_cursor"]
               ELSE [g EXCEPT !.cursor = next, !.seen = @ \cup {next}]]
  /\ UNCHANGED <<items, seqCounter, tx>>

-----------------------------------------------------------------------------

Writers == Open \cup Others

Next ==
  \/ \E by \in Writers, i \in Ids :
       \/ \E v \in Values, t \in Times : Create(by, i, v, t)
       \/ \E v \in Values : Update(by, i, v)
       \/ Delete(by, i)
  \/ \E x \in Txs : Begin(x) \/ Commit(x) \/ Rollback(x)
  \/ \E p \in Pagers :
       \/ \E filter \in Filters : BeginWalk(p, filter)
       \/ NextPage(p) \/ CursorLost(p)

Spec == Init /\ [][Next]_vars

-----------------------------------------------------------------------------
(* Properties                                                              *)

\* The items a snapshot or the repository holds.
Versions == {items} \cup {tx[x].snapshot : x \in Open}

\* A cursor names one creation for ever: no two items that the repository holds
\* or may restore share one, whatever was deleted, created again or rolled back
\* and however the clock runs (in-memory.ts:27 "Monotonic sequence used to break
\* createdAt ties deterministically").
CursorsUnique ==
  \A m, n \in Versions : \A i, j \in Ids :
    m[i] # Missing /\ n[j] # Missing /\ m[i].seq = n[j].seq =>
      i = j /\ m[i].createdAt = n[j].createdAt

\* Every page of a walk lies behind all its earlier pages, so that no position is
\* handed out twice, and a walk never takes a cursor of its own for a repeated one,
\* whatever is written between its pages (in-memory.ts:4 "Ordering is stable by
\* (createdAt, id) so cursor pagination is deterministic").
WalkAdvances ==
  \A p \in Pagers : pager[p] # NotBegun =>
    /\ pager[p].pc # "repeated_cursor"
    /\ \A m, n \in DOMAIN pager[p].pages : m < n =>
         \A k \in pager[p].pages[m], l \in pager[p].pages[n] : Before(k, l)

\* A walk that ends has handed out every item that was listed all along.
SurvivorsYielded ==
  \A p \in Pagers : pager[p].pc = "done" =>
    pager[p].steady \subseteq UNION {pager[p].pages[n] : n \in DOMAIN pager[p].pages}

\* A rollback undoes what the transaction wrote: every entity that nobody else
\* was the last to write is as it was at the beginning, its position included
\* (unit-of-work.ts:20 "rolling back if the function throws").
RollbackUndoesOwn ==
  [][\A x \in Open : tx'[x] = NoTx /\ items' # items =>
       \A i \in Ids \ tx[x].theirs : items'[i] = tx[x].before[i]]_vars

\* The last transaction to end leaves alone, when it rolls back, what the others
\* were the last to change: what they committed stays and what they rolled back
\* does not return (unit-of-work.ts:19 "committing on success and rolling back if
\* the function throws").  The code restores whole repositories and breaks this.
RollbackSparesEnded ==
  [][\A x \in Open : tx'[x] = NoTx /\ Open = {x} =>
       \A i \in tx[x].theirs : items'[i] = items[i]]_vars
=============================================================================

------------------------------ MODULE Lockfile ------------------------------
(***************************************************************************)
(* pnpm-lock.yaml and the four hand-written readers of it in               *)
(* scripts/checks/third-party-compliance.mjs.                              *)
(*                                                                         *)
(* A line is a record of its indentation, the key before its colon and     *)
(* what follows: that is all the readers' regular expressions tell apart.  *)
(* A package key is <<name, version, peers>>; other keys have one element.  *)
(* The readers share one scanning discipline (a line at some depth opens a *)
(* context and closes the deeper ones), which is Enter below; each reader  *)
(* is then what it collects in which context.                              *)
(***************************************************************************)
EXTENDS Naturals, Sequences, FiniteSets, SequencesExt

CONSTANT OwnNames     \* names that start with "@third-eye-cyborg/"

Line(indent, key, val) == [indent |-> indent, key |-> key, val |-> val]

EmptyMap == <<"{}">>       \* the inline form `name@version: {}`
Link     == <<"link:">>    \* the version of a workspace dependency

-----------------------------------------------------------------------------
(* What pnpm writes, of which the readers see only the text: a document has *)
(* importers (what each workspace asks for, by block), packages with their  *)
(* resolution, and snapshots with their resolved dependencies.              *)

Blocks == <<"dependencies", "devDependencies", "optionalDependencies">>

\* The lines of one thing after the other.
LinesOf(things, lines) ==
  LET all == SetToSeq(things) IN FlattenSeq([n \in 1 .. Len(all) |-> lines[all[n]]])

Requested(doc, path, block) == {i \in doc.importers : i.path = path /\ i.block = block}

RequestLines(i) ==
  <<Line(6, <<i.dep>>, << >>), Line(8, <<"specifier">>, <<"any">>), Line(8, <<"version">>, i.version)>>

BlockLines(doc, path, block) ==
  LET requested == Requested(doc, path, block)
  IN IF requested = {} THEN << >>
     ELSE <<Line(4, <<block>>, << >>)>> \o LinesOf(requested, [i \in requested |-> RequestLines(i)])

WorkspaceLines(doc, path) ==
  <<Line(2, <<path>>, << >>)>> \o FlattenSeq([b \in 1 .. 3 |-> BlockLines(doc, path, Blocks[b])])

ImporterLines(doc) ==
  LET paths == {i.path : i \in doc.importers}
  IN LinesOf(paths, [path \in paths |-> WorkspaceLines(doc, path)])

PackageLines(p) ==
  IF p.resolution = << >> THEN <<Line(2, p.key, EmptyMap)>>
  ELSE <<Line(2, p.key, << >>), Line(4, <<"resolution">>, p.resolution),
         Line(4, <<"engines">>, <<"node">>), Line(4, <<"peerDependencies">>, << >>),
         Line(6, <<"peer">>, <<"any">>)>>

DependencyLines(block, keys) ==
  IF keys = {} THEN << >>
  ELSE <<Line(4, <<block>>, << >>)>>
       \o LinesOf(keys, [k \in keys |-> <<Line(6, <<k[1]>>, <<k[2], k[3]>>)>>])

SnapshotLines(s) ==
  IF s.dependencies = {} /\ s.optionalDependencies = {} /\ ~s.optional
  THEN <<Line(2, s.key, EmptyMap)>>
  ELSE <<Line(2, s.key, << >>)>>
       \o (DependencyLines("dependencies", s.dependencies)
           \o DependencyLines("optionalDependencies", s.optionalDependencies)
           \o (IF s.optional THEN <<Line(4, <<"optional">>, <<"true">>)>> ELSE << >>)
           \o <<Line(4, <<"transitivePeerDependencies">>, << >>), Line(6, <<"peer">>, <<"any">>)>>)

Text(doc) ==
  <<Line(0, <<"lockfileVersion">>, <<"9.0">>), Line(0, <<"settings">>, << >>),
    Line(2, <<"autoInstallPeers">>, <<"true">>), Line(0, <<"importers">>, << >>)>>
  \o ImporterLines(doc) \o <<Line(0, <<"packages">>, << >>)>>
  \o LinesOf(doc.packages, [p \in doc.packages |-> PackageLines(p)])
  \o <<Line(0, <<"snapshots">>, << >>)>>
  \o LinesOf(doc.snapshots, [s \in doc.snapshots |-> SnapshotLines(s)])

-----------------------------------------------------------------------------
(* The readers.                                                             *)

None == << >>

Start == [section |-> None, entry |-> None, block |-> None, dep |-> None]

(* The loop variables after a line: currentPkg, inDependencies and the like *)
(* are set by a line at their depth and cleared by a shallower one.         *)
Enter(at, line) ==
  CASE line.indent = 0 -> [Start EXCEPT !.section = line.key]
    [] line.indent = 2 -> [at EXCEPT !.entry = line.key, !.block = None, !.dep = None]
    [] line.indent = 4 -> [at EXCEPT !.block = line.key, !.dep = None]
    [] line.indent = 6 -> [at EXCEPT !.dep = line.key]
    [] OTHER           -> at

(* The loop variables after each line, and before the first.                *)
Contexts(start, text) ==
  LET after[n \in 0 .. Len(text)] == IF n = 0 THEN start ELSE Enter(after[n - 1], text[n])
  IN after

(* Each line of one section with the loop variables it is read under.       *)
Read(text, section) ==
  LET before == Contexts(Start, text)
  IN {[line |-> text[n], at |-> before[n - 1]] :
        n \in {m \in 1 .. Len(text) : text[m].indent > 0 /\ before[m - 1].section = <<section>>}}

parseLockfilePackages(text) ==
  LET read == Read(text, "packages")
  IN {<<r.line.key, {}>> : r \in {q \in read : q.line.indent = 2 /\ q.line.val = EmptyMap}}
     \cup {<<r.at.entry, ToSet(r.line.val)>> :
             r \in {q \in read : q.line.indent = 4 /\ q.line.key = <<"resolution">>}}

(* Pairs of a snapshot and one of its resolved dependencies, optional ones  *)
(* included.                                                                *)
parseLockfileSnapshots(text) ==
  {<<r.at.entry, r.line.key \o r.line.val>> :
     r \in {q \in Read(text, "snapshots") :
              q.line.indent = 6 /\ q.at.block \in {<<"dependencies">>, <<"optionalDependencies">>}}}

(* Pairs of an importer's path and the key it resolved a dependency to;     *)
(* links to other workspaces are skipped.                                   *)
parseLockfileImporterDeps(text) ==
  {<<r.at.entry[1], r.at.dep \o r.line.val>> :
     r \in {q \in Read(text, "importers") :
              /\ q.line.indent = 8 /\ q.line.key = <<"version">> /\ q.line.val # Link
              /\ q.at.block \in {<<Blocks[b]>> : b \in DOMAIN Blocks}}}

(* stripPeerSuffix: the key without the peers it was resolved with.         *)
stripPeerSuffix(key) == <<key[1], key[2]>>

(* Packages of which some snapshot is marked optional.                      *)
parseSnapshotOptionals(text) ==
  {stripPeerSuffix(r.at.entry) :
     r \in {q \in Read(text, "snapshots") : q.line.indent = 4 /\ q.line.key = <<"optional">>}}

(* The key of a workspace package, which no tool takes for an external one. *)
Own(key) == key[1] \in OwnNames

-----------------------------------------------------------------------------

(* What a document states, and its text must tell: the dependencies asked   *)
(* for and resolved to, as the pairs the readers make, and its packages.    *)
Asked(doc) == {<<i.path, <<i.dep>> \o i.version>> : i \in {j \in doc.importers : j.version # Link}}

Linked(doc) == UNION {{<<s.key, k>> : k \in s.dependencies \cup s.optionalDependencies} :
                        s \in doc.snapshots}

External(doc) == {p \in doc.packages : "directory" \notin ToSet(p.resolution)}

Labels(doc) == {stripPeerSuffix(p.key) : p \in External(doc)}

ReadExactly(doc) ==
  /\ parseLockfilePackages(Text(doc)) = {<<p.key, ToSet(p.resolution)>> : p \in doc.packages}
  /\ parseLockfileImporterDeps(Text(doc)) = Asked(doc)
  /\ parseLockfileSnapshots(Text(doc)) = Linked(doc)
  /\ parseSnapshotOptionals(Text(doc)) =
       {stripPeerSuffix(s.key) : s \in {t \in doc.snapshots : t.optional}}

(* What pnpm has to write: finitely many things, each asked for in one of    *)
(* the blocks, and resolved to keys of a name, a version and peers.          *)
WellFormed(doc) ==
  /\ IsFiniteSet(doc.importers) /\ IsFiniteSet(doc.packages) /\ IsFiniteSet(doc.snapshots)
  /\ \A i \in doc.importers : \E b \in 1 .. 3 : i.block = Blocks[b]
  /\ \A s \in doc.snapshots : \A keys \in {s.dependencies, s.optionalDependencies} :
       IsFiniteSet(keys) /\ \A k \in keys : k = <<k[1], k[2], k[3]>>

(* What pnpm writes: finitely many packages, each with a snapshot for every *)
(* way its peers are resolved, and whatever is depended on among them       *)
(* unless it is a workspace of the repository.                              *)
Closed(doc) ==
  /\ IsFiniteSet(doc.packages)
  /\ {stripPeerSuffix(s.key) : s \in doc.snapshots} = Labels(doc)
  /\ \A label \in Labels(doc) : ~Own(label)
  /\ \A key \in {e[2] : e \in Asked(doc)} \cup {e[2] : e \in Linked(doc)} :
       Own(key) \/ stripPeerSuffix(key) \in Labels(doc)
=============================================================================

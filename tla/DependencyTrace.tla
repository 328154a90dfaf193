--------------------------- MODULE DependencyTrace --------------------------
(***************************************************************************)
(* `third-party-compliance --trace`: every path by which a workspace comes  *)
(* to depend on a package, searched depth first over the graph that the     *)
(* lockfile's text describes.  A node (a label of the code) is a pair       *)
(* <<name, version>>.                                                       *)
(***************************************************************************)
EXTENDS Lockfile

CONSTANTS
  Documents,    \* lockfiles that may be given
  Specs,        \* packages asked for: <<name>> or <<name, version>>
  Workspaces    \* importer path -> label, for the root and the published packages

VARIABLES
  doc,          \* the lockfile being traced
  spec,         \* the package asked for
  edges,        \* the adjacency lists built from its text
  searches,     \* pairs of a matching label and a root still to be searched
  goal,         \* the label of the search under way
  stack,        \* its paths still to be extended
  allPaths,     \* the paths found
  step          \* "load", "search" or "printed"

traceVars == <<doc, spec, edges, searches, goal, stack, allPaths, step>>

-----------------------------------------------------------------------------

(* Edges from the workspaces with a label, and those between external       *)
(* packages; variants of a package that differ in their peers are one node. *)
EdgesOf(text) ==
  {<<Workspaces[e[1]], stripPeerSuffix(e[2])>> :
     e \in {i \in parseLockfileImporterDeps(text) : i[1] \in DOMAIN Workspaces /\ ~Own(i[2])}}
  \cup
  {<<stripPeerSuffix(e[1]), stripPeerSuffix(e[2])>> :
     e \in {s \in parseLockfileSnapshots(text) : ~Own(s[1]) /\ ~Own(s[2])}}

(* Labels of external packages that the specifier names, with its version   *)
(* or with any.                                                             *)
Matching(text, asked) ==
  {label \in {stripPeerSuffix(p[1]) : p \in {q \in parseLockfilePackages(text) :
                                               "directory" \notin q[2] /\ ~Own(q[1])}} :
     label[1] = asked[1] /\ (Len(asked) = 1 \/ label[2] = asked[2])}

Roots == {Workspaces[path] : path \in DOMAIN Workspaces}

-----------------------------------------------------------------------------

TraceInit ==
  /\ doc = [importers |-> {}, packages |-> {}, snapshots |-> {}]
  /\ spec = << >> /\ edges = {} /\ searches = {} /\ goal = << >>
  /\ stack = << >> /\ allPaths = << >> /\ step = "load"

(* The lockfile is parsed and the labels to look for are collected; with    *)
(* none the tool says so and returns.                                       *)
Load(d, asked) ==
  /\ step = "load"
  /\ LET text == Text(d) IN
       /\ edges' = EdgesOf(text)
       /\ searches' = Matching(text, asked) \X Roots
       /\ step' = IF Matching(text, asked) = {} THEN "printed" ELSE "search"
  /\ doc' = d /\ spec' = asked
  /\ UNCHANGED <<goal, stack, allPaths>>

(* The two outer loops: the next pair of a target and a root.               *)
Search(s) ==
  /\ step = "search" /\ stack = << >> /\ s \in searches
  /\ searches' = searches \ {s}
  /\ goal' = s[1]
  /\ stack' = << <<s[2]>> >>
  /\ UNCHANGED <<doc, spec, edges, allPaths, step>>

(* Fault: a label is visited once per search instead of once per path.      *)
Extensions_Visited(path) ==
  {Append(path, child) : child \in {c \in {e[2] : e \in {f \in edges : f[1] = Last(path)}} :
                                      \A p \in ToSet(stack) : c \notin ToSet(p)}}

(* The paths that extend a path by an edge to a label not yet on it; the    *)
(* visited set of a stack frame holds just the labels of its path.          *)
Extensions(path) ==
  {Append(path, child) : child \in {c \in {e[2] : e \in {f \in edges : f[1] = Last(path)}} :
                                      c \notin ToSet(path)}}

(* The inner loop: pop a path; one that has reached the goal is recorded    *)
(* and not extended.                                                        *)
Pop ==
  /\ step = "search" /\ stack # << >>
  /\ LET path == Last(stack) IN
       IF Last(path) = goal
       THEN /\ allPaths' = Append(allPaths, path)
            /\ stack' = Front(stack)
       ELSE /\ stack' = Front(stack) \o SetToSeq(Extensions(path))
            /\ UNCHANGED allPaths
  /\ UNCHANGED <<doc, spec, edges, searches, goal, step>>

Report ==
  /\ step = "search" /\ stack = << >> /\ searches = {}
  /\ step' = "printed"
  /\ UNCHANGED <<doc, spec, edges, searches, goal, stack, allPaths>>

TraceNext ==
  \/ \E d \in Documents, asked \in Specs : Load(d, asked)
  \/ \E s \in searches : Search(s)
  \/ Pop
  \/ Report

-----------------------------------------------------------------------------

TraceSpec == TraceInit /\ [][TraceNext]_traceVars

-----------------------------------------------------------------------------

Sought(d, asked) == {l \in Labels(d) : l[1] = asked[1] /\ (Len(asked) = 1 \/ l[2] = asked[2])}

Depends(d, a, b) ==
  \/ \E e \in Asked(d) : e[1] \in DOMAIN Workspaces /\ a = Workspaces[e[1]] /\ b = stripPeerSuffix(e[2])
  \/ \E e \in Linked(d) : a = stripPeerSuffix(e[1]) /\ b = stripPeerSuffix(e[2])

(* Lockfiles are what pnpm writes and are read as that, and no workspace has *)
(* the name of a package.                                                    *)
ASSUME TraceAssumption ==
  \A d \in Documents : WellFormed(d) /\ Closed(d) /\ Roots \cap Labels(d) = {}

(* Sequences of labels that may be chains: a workspace and n packages.       *)
Fronts(r, n) == {<<r>> \o rest : rest \in [1 .. n -> Labels(doc)]}

IsChain(path) ==
  /\ path[1] \in Roots
  /\ \A n \in 1 .. Len(path) - 1 : Depends(doc, path[n], path[n + 1])
  /\ \A m, n \in DOMAIN path : m # n => path[m] # path[n]

(* When the tool reports, it reports every simple chain of dependencies from *)
(* a workspace to a package that matches, each exactly once and no other:    *)
(* text, readers, graph and search together lose and invent nothing, through *)
(* cycles and shared dependencies (tracePackage).                            *)
TraceExact ==
  step = "printed" =>
    LET chains == UNION {Fronts(r, n) : r \in Roots, n \in 1 .. Cardinality(Labels(doc))}
    IN /\ Cardinality(ToSet(allPaths)) = Len(allPaths)
       /\ ToSet(allPaths) = {c \in chains : Last(c) \in Sought(doc, spec) /\ IsChain(c)}
=============================================================================

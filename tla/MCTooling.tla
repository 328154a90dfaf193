------------------------------ MODULE MCTooling -----------------------------
(***************************************************************************)
(* The tools of scripts/ and the release path, each on its own instance:    *)
(* focus says which of them a behaviour is about.                           *)
(***************************************************************************)
EXTENDS DependencyTrace, ReleasePipeline, Sbom

VARIABLES focus

-----------------------------------------------------------------------------
(* Lockfiles: a name is one package at one version; every importer and      *)
(* every edge is written the way pnpm writes it.                            *)

Version == <<"1", "">>
Key(n)  == <<n>> \o Version

Asks(path, block, n) == [path |-> path, block |-> block, dep |-> n, version |-> Version]

MCOwnNames == {"own/x", "own/y"}

LinkToOwn == [path |-> "packages/x", block |-> "dependencies", dep |-> "own/y",
              version |-> <<"link:">>]

LockOf(names, deps, optional, importers) ==
  LET To(n, pairs) == {Key(m) : m \in {k \in names : <<n, k>> \in pairs}}
  IN [importers |-> importers \cup {LinkToOwn},
      packages  |-> {[key |-> <<n, "1">>,
                      resolution |-> IF n = "c" THEN << >> ELSE <<"integrity">>] : n \in names}
                    \cup {[key |-> <<"own/y", "1">>, resolution |-> <<"directory">>]},
      snapshots |-> {[key |-> Key(n), dependencies |-> To(n, deps \ optional),
                      optionalDependencies |-> To(n, deps \cap optional),
                      optional |-> n \in {"c", "s/p"}] : n \in names}]

Pairs(names) == {p \in names \X names : p[1] # p[2]}

-----------------------------------------------------------------------------
(* Every graph over three packages, cycles included, with one edge optional *)
(* where it is there; an importer that is not published asks for c.         *)

TraceDocuments ==
  {LockOf({"a", "b", "c"}, deps, {<<"b", "c">>},
          {Asks(".", "devDependencies", n) : n \in root}
          \cup {Asks("packages/x", "dependencies", n) : n \in x}
          \cup {Asks("examples/y", "dependencies", "c")}) :
     deps \in SUBSET Pairs({"a", "b", "c"}), root \in SUBSET {"a"}, x \in {{"b"}, {"a", "c"}}}

MCSpecs      == {<<"c">>, <<"b", "1">>, <<"a", "2">>}
MCWorkspaces == [p \in {".", "packages/x"} |->
                   IF p = "." THEN <<"root", "1">> ELSE <<"own/x", "1">>]

-----------------------------------------------------------------------------
(* Documents over a, b and the scoped s/p, in some of them together with    *)
(* s-p, whose identifier is the same.  What is installed differs in         *)
(* version, in licence and in homepage, and some copies cannot be read.     *)

SbomDocuments ==
  {LockOf(names, deps, {<<"a", "s/p">>},
          {Asks(".", "devDependencies", n) : n \in root}
          \cup {Asks("packages/x", "dependencies", "a"), Asks("examples/y", "dependencies", "b")}) :
     deps  \in SUBSET Pairs({"a", "b", "s/p"}), root \in SUBSET {"b"},
     names \in {{"a", "b", "s/p"}, {"a", "b", "s/p", "s-p"}}}

Copy(n, v, license, homepage, readable) ==
  [name |-> n, version |-> v, license |-> license, homepage |-> homepage, readable |-> readable]

SbomStores ==
  {[hoisted |-> {Copy("a", "1", <<"MIT">>, "absolute", TRUE)},
    virtual |-> {Copy("b", "1", <<"MIT", "OR", "(", "MIT", ")">>, "registry", TRUE)}],
   [hoisted |-> {Copy("a", "2", <<"MIT">>, "relative", TRUE)},
    virtual |-> {Copy("a", "1", <<"MIT", "MIT">>, "registry", TRUE),
                 Copy("b", "1", <<"LicenseRef-a">>, "absolute", TRUE)}],
   [hoisted |-> {Copy("a", "2", <<"MIT">>, "absolute", TRUE),
                 Copy("b", "1", <<"MIT">>, "relative", TRUE)},
    virtual |-> {Copy("a", "1", <<"MIT">>, "registry", FALSE)}]}

SbomDamages ==
  {"spdxVersion", "documentNamespace", "created", "id", "versionInfo", "copyrightText",
   "no packages", "package lost", "no relationships", "no description", "unknown type"}

MCPublished == {[path |-> "packages/x", name |-> "own/x", license |-> <<"MIT">>]}
MCFlat      == [n \in {"a", "b", "s/p", "s-p"} \cup MCOwnNames |-> IF n = "s/p" THEN "s-p" ELSE n]

-----------------------------------------------------------------------------
(* Commits with no flaw, with one, and with pairs of which one might hide   *)
(* the other; "late" is merged into main only later.                        *)

Url(place) == [scheme |-> "https", place |-> place, git |-> FALSE]

Resolution(F) ==
  (IF "git" \in F THEN <<"repo", "commit">> ELSE << >>)
  \o (IF "http" \in F THEN <<"tarball http npm">> ELSE << >>)
  \o (IF "foreign" \in F THEN <<"tarball elsewhere">> ELSE << >>)
  \o (IF "no hash" \notin F THEN <<"integrity">>
      ELSE IF F \cap {"git", "http", "foreign"} = {} THEN <<"tarball https npm">> ELSE << >>)

TreeOf(F) ==
  LET core == [name |-> "core", private |-> FALSE, scoped |-> "unscoped" \notin F,
               access |-> IF "restricted" \in F THEN "restricted" ELSE "public",
               version |-> IF "mixed versions" \in F THEN "2" ELSE "1",
               deps |-> {"@v/zod"} \cup IF "unlisted" \in F THEN {"@v/pad"} ELSE {},
               loads |-> "does not load" \notin F, legal |-> "no licence" \notin F,
               bundled |-> {"zod"} \cup IF "unattributed" \notin F THEN {}
                                        ELSE IF "spelled by chance" \in F THEN {"ms"} ELSE {"ms", "pad"},
               attributed |-> {"zod"}, packed |-> "notices not packed" \notin F,
               notices |-> {"zod", "items"}]
      sdk  == [core EXCEPT !.name = "sdk", !.scoped = TRUE, !.access = "public", !.version = "1",
                           !.deps = {}, !.loads = TRUE, !.legal = TRUE, !.bundled = {}]
      code == [path |-> <<"a.ts">>, skipped |-> FALSE,
               lines |-> {[term |-> "vendor term" \in F, ok |-> FALSE], [term |-> TRUE, ok |-> TRUE]},
               detections |-> {{"mit"}} \cup IF "copyleft" \in F /\ "copyleft unscanned" \notin F
                                             THEN {{"mit", "gpl-2.0"}} ELSE {},
               copyrights |-> {{}, {"third eye cyborg llc"}}
                 \cup IF "foreign holder" \notin F THEN {}
                      ELSE IF "holder overlooked" \in F THEN {{"acme", "third eye cyborg llc"}}
                      ELSE {{"acme"}}]
      old   == [code EXCEPT !.path = <<"docs", "evidence", "b.c">>, !.lines = {},
                  !.detections = IF "copyleft" \in F THEN {{"gpl-2.0"}} ELSE {},
                  !.copyrights = IF "holder overlooked" \in F THEN {{"acme"}} ELSE {}]
      notes == [code EXCEPT !.path = <<"CONTRIBUTING.md">>, !.lines = {},
                            !.detections = {{"gpl-2.0"}}, !.copyrights = {{"acme"}}]
  IN [root |-> "1",
      packages |-> {core, sdk, [sdk EXCEPT !.name = "tools", !.private = TRUE]},
      policy |-> [d \in {"@v/zod"} |-> Url("zod")],
      npmrc |-> << << >>, <<"registry", "mirror">>, <<"@v:registry", "npm">> >>
                \o IF "redirected" \in F THEN << <<"@v:registry", "mirror">> >> ELSE << >>,
      lock |-> [importers |-> {}, snapshots |-> {},
                packages |-> {[key |-> <<"@v/zod", "1">>,
                               resolution |-> IF "unresolved" \in F THEN << >> ELSE Resolution(F)],
                              [key |-> <<"@v/pad", "1">>, resolution |-> <<"integrity">>],
                              [key |-> <<"eslint", "1">>, resolution |-> <<"repo">>]}],
      installed |-> [d \in {"@v/zod"} |-> IF "wrong repository" \in F THEN Url("fork")
                                          ELSE [Url("zod") EXCEPT !.scheme = "git"]],
      genuine |-> "not npm's" \notin F,
      files |-> {code, old, notes},
      contract |-> [document |-> [schemas |-> <<"Health", "Post">>
                                               \o IF "schema drift" \in F THEN <<"Poll">> ELSE << >>,
                                  last |-> TRUE, operations |-> {"getPost"}, texts |-> {"sendPost"}],
                    schemas |-> {"Health", "Post"},
                    operations |-> {"getPost"} \cup IF "operation drift" \in F THEN {"sendPost"} ELSE {}]]

SingleFlaws ==
  {"unlisted", "redirected", "git", "http", "foreign", "unresolved", "not npm's",
   "wrong repository", "does not load", "no licence", "unattributed", "vendor term", "copyleft",
   "foreign holder", "notices not packed", "unscoped", "restricted", "mixed versions", "no hash", "late",
   "schema drift", "operation drift"}

FlawSets ==
  {{}} \cup {{f} : f \in SingleFlaws}
  \cup {{"unscoped", "git"}, {"no hash", "not npm's"}, {"no hash", "foreign"}, {"http", "git"},
        {"copyleft", "foreign holder"}, {"unattributed", "spelled by chance"},
        {"copyleft", "copyleft unscanned"}, {"foreign holder", "holder overlooked"}}

MCCommits   == [F \in FlawSets |-> TreeOf(F)]
MCFlaws     == [F \in FlawSets |-> F]
MCFirstMain == FlawSets \ {{"late"}}
\* No commit is started on a path that looks for none of its flaws.
Beside == [actions   |-> PackageFlaws \cup {"mixed versions"},
           buildkite |-> {"copyleft", "foreign holder", "restricted", "copyleft unscanned",
                          "holder overlooked"}]
MCStarts == {s \in {"actions", "buildkite"} \X FlawSets : s[2] = {} \/ ~(s[2] \subseteq Beside[s[1]])}
MCBuilds == <<MCStarts, {<<"buildkite", {"late"}>>}>>
MCSpelled   == [w \in {"items"} |-> {"ms"}]
MCScopeKey  == [d \in {"@v/zod", "@v/pad"} |-> "@v:registry"]

MCEnvironments ==
  {[token |-> FALSE, oidc |-> TRUE, node |-> <<22, 14, 0>>, npm |-> <<12, 0, 0>>],
   [token |-> FALSE, oidc |-> TRUE, node |-> <<22, 9, 5>>, npm |-> <<11, 5, 1>>]}

-----------------------------------------------------------------------------

vars == <<focus, traceVars, sbomVars, pipelineVars, tokens>>

MCInit ==
  /\ focus \in {"trace", "sbom", "release", "licence"}
  /\ TraceInit /\ SbomInit /\ PipelineInit /\ LicenseInit

MCNext ==
  \/ focus = "trace" /\ TraceNext /\ UNCHANGED <<focus, sbomVars, pipelineVars, tokens>>
  \/ focus = "sbom" /\ SbomNext /\ UNCHANGED <<focus, traceVars, pipelineVars, tokens>>
  \/ focus = "release" /\ PipelineNext /\ UNCHANGED <<focus, traceVars, sbomVars, tokens>>
  \/ focus = "licence" /\ LicenseNext
     /\ UNCHANGED <<focus, traceVars, sbomVars, pipelineVars>>

Spec == MCInit /\ [][MCNext]_vars
=============================================================================

--------------------------- MODULE ReleasePipeline --------------------------
(***************************************************************************)
(* From a commit to npm, along both paths: the release job of              *)
(* .github/workflows/release.yml for a tag, and the Buildkite fallback      *)
(* (.buildkite/release.yml) with its checks, its manual block and its       *)
(* publish job.  Any job may die and be run again, main moves on meanwhile, *)
(* and npm keeps what it has: a version that is there is skipped.           *)
(***************************************************************************)
EXTENDS Gates

CONSTANTS
  Commits,      \* commit -> tree
  Flaws,        \* commit -> what is wrong with it: see FlawsShow
  FirstMain,    \* commits on main at first
  Builds,       \* build -> the <<path, commit>> it may be started as
  Versions,     \* versions that may be asked for
  Environments, \* runners of the Actions job: see verifyNpmPublishAccess
  MaxRuns       \* how often the jobs of a build are run, at most

VARIABLES
  main,         \* commits on main
  builds,       \* build -> what it is doing
  npm           \* what was published: [name, version, commit, path, requested, answers]

pipelineVars == <<main, builds, npm>>

Idle == [path |-> "none", stage |-> "none"]

PipelineInit ==
  /\ main = FirstMain
  /\ builds = [b \in DOMAIN Builds |-> Idle]
  /\ npm = {}

Tree(b) == Commits[builds[b].commit]

(* A tag is pushed, or a Buildkite build is started with RELEASE_VERSION or *)
(* on a tag.                                                                *)
Queue(b, path, c, version) ==
  /\ builds[b] = Idle
  /\ builds' = [builds EXCEPT ![b] =
       [path |-> path, stage |-> "checks", commit |-> c, requested |-> version,
        answers |-> FALSE, runs |-> 1]]
  /\ UNCHANGED <<main, npm>>

Outcome(b, passed, next, answers) ==
  builds' = [builds EXCEPT ![b].stage = IF passed THEN next ELSE "failed checks", ![b].answers = answers]

(* Fault: the checks are those of ci.yml, which has no guard.               *)
ReleaseChecks_NoThirdParty(tree, requested, onMain, answers, mode) ==
  /\ release_guard(tree, requested, onMain) /\ runDriftCheck(tree.contract, mode)
  /\ packageSmoke(tree) /\ boundaryScan(tree)

(* release-checks.sh; mode is how the test of the contract reads it.         *)
ReleaseChecks(tree, requested, onMain, answers, mode) ==
  /\ release_guard(tree, requested, onMain) /\ runDriftCheck(tree.contract, mode)
  /\ packageSmoke(tree) /\ boundaryScan(tree) /\ runComplianceChecks(tree, answers)

CheckBuildkite(b, answers, mode) ==
  /\ builds[b].path = "buildkite" /\ builds[b].stage = "checks"
  /\ Outcome(b, ReleaseChecks(Tree(b), builds[b].requested, builds[b].commit \in main, answers, mode),
             "blocked", answers)
  /\ UNCHANGED <<main, npm>>

(* The release job up to its publish step.                                  *)
CheckActions(b, answers, mode, env) ==
  /\ builds[b].path = "actions" /\ builds[b].stage = "checks"
  /\ Outcome(b, /\ runDriftCheck(Tree(b).contract, mode)
                /\ boundaryScan(Tree(b)) /\ scancodeLicense(Tree(b))
                /\ runComplianceChecks(Tree(b), answers)
                /\ verifyNpmPublishAccess(Tree(b), env),
             "publishing", answers)
  /\ UNCHANGED <<main, npm>>

(* The block step is released by a person.                                  *)
Unblock(b) ==
  /\ builds[b].stage = "blocked"
  /\ builds' = [builds EXCEPT ![b].stage = "publish"]
  /\ UNCHANGED <<main, npm>>

(* publish.sh up to its publish step; one such job at a time.               *)
StartPublish(b) ==
  /\ builds[b].stage = "publish"
  /\ \A o \in DOMAIN Builds : ~(builds[o].path = "buildkite" /\ builds[o].stage = "publishing")
  /\ builds' = [builds EXCEPT ![b].stage =
       IF /\ release_guard(Tree(b), builds[b].requested, builds[b].commit \in main)
          /\ packageSmoke(Tree(b))
       THEN "publishing" ELSE "failed publish"]
  /\ UNCHANGED <<main, npm>>

(* pnpm -r publish: the packages that npm does not have at their version.   *)
Missing(b) ==
  {p \in {q \in Tree(b).packages : ~q.private} :
     ~\E e \in npm : e.name = p.name /\ e.version = p.version}

PublishOne(b, p) ==
  /\ builds[b].stage = "publishing" /\ p \in Missing(b)
  /\ npm' = npm \cup {[name |-> p.name, version |-> p.version, commit |-> builds[b].commit,
                       path |-> builds[b].path, requested |-> builds[b].requested,
                       answers |-> builds[b].answers]}
  /\ UNCHANGED <<main, builds>>

PublishDone(b) ==
  /\ builds[b].stage = "publishing" /\ Missing(b) = {}
  /\ builds' = [builds EXCEPT ![b].stage = "published"]
  /\ UNCHANGED <<main, npm>>

(* A job dies or times out.  Actions has one job, Buildkite two.            *)
Die(b) ==
  /\ builds[b].stage \in {"checks", "publish", "publishing"}
  /\ builds' = [builds EXCEPT ![b].stage =
       IF builds[b].stage = "checks" \/ builds[b].path = "actions"
       THEN "failed checks" ELSE "failed publish"]
  /\ UNCHANGED <<main, npm>>

(* A failed job is run again, from its start.                               *)
RunAgain(b) ==
  /\ builds[b].stage \in {"failed checks", "failed publish"} /\ builds[b].runs < MaxRuns
  /\ builds' = [builds EXCEPT ![b].runs = @ + 1,
       ![b].stage = IF builds[b].stage = "failed checks" THEN "checks" ELSE "publish"]
  /\ UNCHANGED <<main, npm>>

Merge(c) ==
  /\ main' = main \cup {c} /\ c \notin main
  /\ UNCHANGED <<builds, npm>>

PipelineNext ==
  \/ \E b \in DOMAIN Builds :
       \/ \E s \in Builds[b], v \in Versions : Queue(b, s[1], s[2], v)
       \/ \E answers \in BOOLEAN, mode \in {"yaml", "fallback"} :
            \/ CheckBuildkite(b, answers, mode)
            \/ \E env \in Environments : CheckActions(b, answers, mode, env)
       \/ Unblock(b) \/ StartPublish(b) \/ PublishDone(b) \/ Die(b) \/ RunAgain(b)
  \/ \E b \in {o \in DOMAIN Builds : builds[o].stage = "publishing"} :
       \E p \in Missing(b) : PublishOne(b, p)
  \/ \E c \in DOMAIN Commits : Merge(c)

PipelineSpec == PipelineInit /\ [][PipelineNext]_pipelineVars

-----------------------------------------------------------------------------
(* What may be wrong with a commit, and who looks at it.                    *)

DependencyFlaws == {"unlisted", "redirected", "git", "http", "foreign", "unresolved",
                    "not npm's", "wrong repository"}
PackageFlaws    == {"does not load", "no licence", "unattributed", "notices not packed"}

LookedAt(path) ==
  DependencyFlaws \cup {"vendor term", "schema drift", "operation drift"} \cup
  IF path = "actions" THEN {"copyleft", "foreign holder", "unscoped", "restricted"}
  ELSE PackageFlaws \cup {"mixed versions"}

(* What each flaw is, on the tree of a commit.                              *)

Public(tree) == {p \in tree.packages : ~p.private}
Needed(tree) == UNION {p.deps : p \in Public(tree)}

(* The resolutions that the lockfile's reader finds for a dependency.       *)
Locked(tree, dep) ==
  {e[2] : e \in {f \in parseLockfilePackages(Text(tree.lock)) : f[1][1] = dep}}

AllLocked(tree) == UNION {Locked(tree, dep) : dep \in Needed(tree)}

Tarballs == {"tarball https npm", "tarball http npm", "tarball elsewhere"}

DependencyFlawsShow(F, tree) ==
  /\ "unlisted" \in F   <=> ~(Needed(tree) \subseteq DOMAIN tree.policy)
  /\ "redirected" \in F <=> \E dep \in Needed(tree) :
                              effectiveRegistry(dep, parseNpmrc(tree.npmrc)) # NpmRegistry
  /\ "git" \in F        <=> \E r \in AllLocked(tree) : r \cap {"repo", "commit"} # {}
  /\ "http" \in F       <=> \E r \in AllLocked(tree) : "tarball http npm" \in r
  /\ "foreign" \in F    <=> \E r \in AllLocked(tree) : "tarball elsewhere" \in r
  /\ "unresolved" \in F <=> \E dep \in Needed(tree) : Locked(tree, dep) \subseteq {{}}
  /\ "no hash" \in F    <=> \E r \in AllLocked(tree) : r # {} /\ "integrity" \notin r
  /\ "not npm's" \in F  <=> ~tree.genuine /\ Needed(tree) # {}
  /\ "wrong repository" \in F <=>
       \E dep \in Needed(tree) \cap DOMAIN tree.policy \cap DOMAIN tree.installed :
         /\ NoUrl \notin {tree.policy[dep], tree.installed[dep]}
         /\ normaliseRepoUrl(tree.policy[dep]) # normaliseRepoUrl(tree.installed[dep])

Unattributed(p) == p.bundled \ p.attributed

PackageFlawsShow(F, tree) ==
  /\ "unscoped" \in F       <=> \E p \in Public(tree) : ~p.scoped
  /\ "restricted" \in F     <=> \E p \in Public(tree) : p.access # "public"
  /\ "mixed versions" \in F <=> \E p \in tree.packages : p.version # tree.root
  /\ "does not load" \in F  <=> \E p \in Public(tree) : ~p.loads
  /\ "no licence" \in F     <=> \E p \in Public(tree) : ~p.legal
  /\ "unattributed" \in F   <=> \E p \in Public(tree) : Unattributed(p) # {}
  /\ "spelled by chance" \in F <=>
       /\ \E p \in Public(tree) : Unattributed(p) # {}
       /\ \A p \in Public(tree) : \A name \in Unattributed(p) : includes(p.notices, name)
  /\ "notices not packed" \in F <=> \E p \in Public(tree) : p.deps # {} /\ ~p.packed

(* In the files whose paths do not excuse it, scanned or not.               *)
Answerable(tree) == {file \in tree.files : file.path \notin ReviewOnly}

Copyleft(tree) ==
  {file \in Answerable(tree) : ForbiddenLicenses \cap UNION file.detections # {}}

(* The statements that name anybody who is not allowed.                      *)
ForeignHolders(tree) ==
  UNION {{[file |-> file, copyright |-> c] : c \in {d \in file.copyrights : ~(d \subseteq AllowedHolders)}} :
           file \in Answerable(tree)}

SourceFlawsShow(F, tree) ==
  /\ "vendor term" \in F <=>
       \E file \in tree.files : ~file.skipped /\ \E line \in file.lines : line.term /\ ~line.ok
  /\ "copyleft" \in F <=> Copyleft(tree) # {}
  /\ "copyleft unscanned" \in F <=>
       Copyleft(tree) # {} /\ \A file \in Copyleft(tree) : ~scanned(file)
  /\ "foreign holder" \in F <=> ForeignHolders(tree) # {}
  /\ "holder overlooked" \in F <=>
       /\ ForeignHolders(tree) # {}
       /\ \A s \in ForeignHolders(tree) : ~scanned(s.file) \/ hasAllowedHolder(s.copyright)
  /\ "schema drift" \in F <=>
       extractFromDocument(tree.contract.document).schemas # tree.contract.schemas
  /\ "operation drift" \in F <=>
       extractFromDocument(tree.contract.document).operations # tree.contract.operations

FlawsShow ==
  \A c \in DOMAIN Commits : /\ DependencyFlawsShow(Flaws[c], Commits[c])
                            /\ PackageFlawsShow(Flaws[c], Commits[c])
                            /\ SourceFlawsShow(Flaws[c], Commits[c])

(* A resolution has one tarball key; the schemas end openapi.yaml.          *)
TreesAreSound ==
  \A c \in DOMAIN Commits :
    /\ \A r \in AllLocked(Commits[c]), s, t \in Tarballs : {s, t} \subseteq r => s = t
    /\ Commits[c].contract.document.last

(* A build is started on one of the two paths, for a commit that is there.  *)
BuildsAreSound ==
  \A b \in DOMAIN Builds : Builds[b] \subseteq {"actions", "buildkite"} \X DOMAIN Commits

ASSUME ReleaseAssumption == FlawsShow /\ TreesAreSound /\ BuildsAreSound

(* What may hide a flaw from the check that looks for it: npm could not be   *)
(* asked about the hash, or there was none; a bundled package is not given   *)
(* notice of, but its name occurs somewhere in the notices; the licence is   *)
(* in files that ScanCode is told to ignore; of the holders, too, or an      *)
(* allowed one is named beside them; and the dependencies of a package       *)
(* outside the scope are not looked at.                                      *)
Hidden(flaw, F, answers) ==
  \/ flaw = "not npm's" /\ (~answers \/ "no hash" \in F)
  \/ flaw = "unattributed" /\ "spelled by chance" \in F
  \/ flaw = "copyleft" /\ "copyleft unscanned" \in F
  \/ flaw = "foreign holder" /\ "holder overlooked" \in F
  \/ flaw \in DependencyFlaws /\ "unscoped" \in F

(* A flaw that is on npm had nobody to see it: its path does not look for    *)
(* it, or it was hidden in one of those ways, all of it.  No flaw hides      *)
(* another otherwise, and neither retries, nor jobs that die half way, nor   *)
(* main moving on let one through.  What Buildkite published was on main     *)
(* with the version asked for (release_guard, runComplianceChecks,           *)
(* package-smoke, scancode-license, boundary-scan, runDriftCheck).           *)
PublishedIsClean ==
  \A e \in npm :
    /\ e.path = "buildkite" => e.commit \in main /\ e.version = e.requested
    /\ \A flaw \in Flaws[e.commit] \cap LookedAt(e.path) : Hidden(flaw, Flaws[e.commit], e.answers)
=============================================================================

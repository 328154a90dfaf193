---------------------------- MODULE ToolingProofs ----------------------------
(* The release pipeline: no way through it leads round the checks, whatever *)
(* is committed and however many builds run at once, and what the checks    *)
(* let through has none of the flaws they are there for.  The lockfile's    *)
(* readers: they make of its text what it states.  The search for the paths *)
(* to a package: it finds each of them once.  The bill of                   *)
(* materials: what is missing from it is warned of or part of a cycle, and  *)
(* it is accepted exactly when it should be.  The licences in it: the       *)
(* parser accepts exactly the sentences of the grammar.                     *)
EXTENDS ReleasePipeline, DependencyTrace, Sbom, FiniteSetTheorems, SequenceTheorems, TLAPS

(* What a commit has passed before it may be published along a path.        *)
ActionsChecks(tree, answers) ==
  \E mode \in {"yaml", "fallback"}, env \in Environments :
    /\ runDriftCheck(tree.contract, mode)
    /\ boundaryScan(tree) /\ scancodeLicense(tree)
    /\ runComplianceChecks(tree, answers)
    /\ verifyNpmPublishAccess(tree, env)

Cleared(path, c, requested, answers) ==
  /\ path \in {"actions", "buildkite"}
  /\ path = "actions" => ActionsChecks(Commits[c], answers)
  /\ path = "buildkite" =>
       /\ c \in main
       /\ \E mode \in {"yaml", "fallback"} :
            ReleaseChecks(Commits[c], requested, TRUE, answers, mode)

(* Whatever is on npm passed every check of its path, as the path runs them, *)
(* on the commit it was built from; along Buildkite that commit is on main,  *)
(* and it is a package of that commit which is not private, at the version   *)
(* of its manifest.                                                          *)
PublishedWasCleared ==
  \A e \in npm :
    /\ Cleared(e.path, e.commit, e.requested, e.answers)
    /\ e.commit \in DOMAIN Commits
    /\ \E p \in Commits[e.commit].packages :
         ~p.private /\ p.name = e.name /\ p.version = e.version

IsBuild(r) ==
  r = [path |-> r.path, stage |-> r.stage, commit |-> r.commit, requested |-> r.requested,
       answers |-> r.answers, runs |-> r.runs]

(* A build that is past its checks has passed them.                         *)
Build(r) ==
  /\ IsBuild(r) /\ r.path \in {"actions", "buildkite"} /\ r.commit \in DOMAIN Commits
  /\ r.stage \notin {"checks", "failed checks"} =>
       Cleared(r.path, r.commit, r.requested, r.answers)

PipeInv ==
  /\ builds = [b \in DOMAIN Builds |-> builds[b]]
  /\ \A b \in DOMAIN Builds : builds[b] = Idle \/ Build(builds[b])
  /\ PublishedWasCleared

LEMMA PipeInitInv == PipelineInit => PipeInv
  BY DEF PipelineInit, PipeInv, PublishedWasCleared

\* main only grows.
LEMMA ClearedStays ==
  ASSUME NEW path, NEW c, NEW requested, NEW answers, main \subseteq main',
         Cleared(path, c, requested, answers)
  PROVE  Cleared(path, c, requested, answers)'
  BY DEF Cleared

\* A step of one build.
LEMMA BuildMoves ==
  ASSUME PipeInv, NEW b \in DOMAIN Builds, NEW r, Build(r),
         builds' = [builds EXCEPT ![b] = r], UNCHANGED <<main, npm>>
  PROVE  PipeInv'
  <1>1. \A path, c, requested, answers :
          Cleared(path, c, requested, answers) => Cleared(path, c, requested, answers)'
    BY ClearedStays
  <1>2. \A o \in DOMAIN Builds : builds'[o] = IF o = b THEN r ELSE builds[o]
    BY DEF PipeInv
  <1>3. Build(r)'
    BY <1>1 DEF Build
  <1>4. ASSUME NEW o \in DOMAIN Builds PROVE (builds[o] = Idle \/ Build(builds[o]))'
    <2>1. CASE o = b
      BY <1>2, <1>3, <2>1 DEF Build
    <2>2. CASE o # b
      BY <1>1, <1>2, <2>2 DEF PipeInv, Build
    <2>3. QED
      BY <2>1, <2>2
  <1>5. PublishedWasCleared'
    BY <1>1 DEF PipeInv, PublishedWasCleared
  <1>6. builds' = [o \in DOMAIN Builds |-> builds'[o]]
    BY DEF PipeInv
  <1>7. QED
    BY <1>4, <1>5, <1>6 DEF PipeInv

\* The parts of a build, one at a time and two at a time.
With(r, now, answers, runs) ==
  [path |-> r.path, stage |-> now, commit |-> r.commit, requested |-> r.requested,
   answers |-> answers, runs |-> runs]

SetStage(r, v)   == [r EXCEPT !.stage = v]
SetAnswers(r, v) == [r EXCEPT !.answers = v]
SetRuns(r, v)    == [r EXCEPT !.runs = v]

LEMMA WithOne ==
  ASSUME NEW r, IsBuild(r), NEW v
  PROVE  /\ SetStage(r, v) = With(r, v, r.answers, r.runs)
         /\ SetAnswers(r, v) = With(r, r.stage, v, r.runs)
         /\ SetRuns(r, v) = With(r, r.stage, r.answers, v)
  <1>1. SetStage(r, v) = With(r, v, r.answers, r.runs)
    BY DEF IsBuild, With, SetStage
  <1>2. SetAnswers(r, v) = With(r, r.stage, v, r.runs)
    BY DEF IsBuild, With, SetAnswers
  <1>3. SetRuns(r, v) = With(r, r.stage, r.answers, v)
    BY DEF IsBuild, With, SetRuns
  <1>4. QED
    BY <1>1, <1>2, <1>3

LEMMA WithIs ==
  ASSUME NEW r, NEW s, NEW a, NEW n
  PROVE  LET q == With(r, s, a, n)
         IN /\ IsBuild(q) /\ q.path = r.path /\ q.commit = r.commit
            /\ q.requested = r.requested /\ q.stage = s /\ q.answers = a /\ q.runs = n
            /\ \A t, b, m : With(q, t, b, m) = With(r, t, b, m)
  BY DEF With, IsBuild

LEMMA WithTwo ==
  ASSUME NEW r, IsBuild(r), NEW s, NEW v
  PROVE  /\ SetAnswers(SetStage(r, s), v) = With(r, s, v, r.runs)
         /\ SetStage(SetRuns(r, v), s) = With(r, s, r.answers, v)
  <1>1. PICK q : q = With(r, s, r.answers, r.runs)
    OBVIOUS
  <1>2. /\ IsBuild(q) /\ q.stage = s /\ q.runs = r.runs
        /\ With(q, s, v, r.runs) = With(r, s, v, r.runs)
    BY <1>1, WithIs
  <1>3. PICK p : p = With(r, r.stage, r.answers, v)
    OBVIOUS
  <1>4. /\ IsBuild(p) /\ p.answers = r.answers /\ p.runs = v
        /\ With(p, s, r.answers, v) = With(r, s, r.answers, v)
    BY <1>3, WithIs
  <1>5. SetStage(r, s) = q /\ SetRuns(r, v) = p
    BY <1>1, <1>3, WithOne
  <1>6. SetAnswers(q, v) = With(q, s, v, r.runs) /\ SetStage(p, s) = With(p, s, r.answers, v)
    BY <1>2, <1>4, WithOne
  <1>7. QED
    BY <1>2, <1>4, <1>5, <1>6

\* What is under way is not idle.
LEMMA UnderWay ==
  ASSUME PipeInv, NEW b \in DOMAIN Builds, builds[b].stage # "none"
  PROVE  Build(builds[b])
  <1>1. Idle.stage = "none"
    BY DEF Idle
  <1>2. QED
    BY <1>1 DEF PipeInv

\* Another stage for a build, which leaves the rest of it alone.
LEMMA StageMoves ==
  ASSUME PipeInv, NEW b \in DOMAIN Builds, NEW s, Build(builds[b]),
         s \in {"checks", "failed checks"}
           \/ builds[b].stage \notin {"checks", "failed checks"},
         builds' = [builds EXCEPT ![b].stage = s], UNCHANGED <<main, npm>>
  PROVE  PipeInv'
  <1>1. PICK q, r : q = builds[b] /\ r = With(q, s, q.answers, q.runs)
    OBVIOUS
  <1>2. Build(r)
    <2>1. /\ r.path = q.path /\ r.stage = s /\ r.commit = q.commit
          /\ r.requested = q.requested /\ r.answers = q.answers /\ IsBuild(r)
      BY <1>1 DEF With, IsBuild
    <2>2. /\ IsBuild(q) /\ q.path \in {"actions", "buildkite"} /\ q.commit \in DOMAIN Commits
          /\ r.stage \notin {"checks", "failed checks"} =>
               Cleared(q.path, q.commit, q.requested, q.answers)
      BY <1>1, <2>1 DEF Build
    <2>3. QED
      BY <2>1, <2>2 DEF Build
  <1>3. builds' = [builds EXCEPT ![b] = r]
    <2>1. builds' = [builds EXCEPT ![b] = SetStage(q, s)]
      BY <1>1 DEF SetStage
    <2>2. SetStage(q, s) = r
      BY <1>1, WithOne DEF Build
    <2>3. QED
      BY <2>1, <2>2
  <1>4. QED
    BY <1>2, <1>3, BuildMoves

LEMMA QueueInv ==
  ASSUME PipeInv, NEW b \in DOMAIN Builds, NEW s \in Builds[b], NEW v,
         Queue(b, s[1], s[2], v)
  PROVE  PipeInv'
  <1>1. PICK r : r = [path |-> s[1], stage |-> "checks", commit |-> s[2], requested |-> v,
                      answers |-> FALSE, runs |-> 1]
    OBVIOUS
  <1>2. Build(r)
    BY <1>1, ReleaseAssumption DEF Build, IsBuild, BuildsAreSound
  <1>3. builds' = [builds EXCEPT ![b] = r] /\ UNCHANGED <<main, npm>>
    BY <1>1 DEF Queue
  <1>4. QED
    BY <1>2, <1>3, BuildMoves

\* The checks give the stage and what npm answered.
LEMMA OutcomeInv ==
  ASSUME PipeInv, NEW b \in DOMAIN Builds, Build(builds[b]), NEW passed \in BOOLEAN, NEW next,
         NEW answers, Outcome(b, passed, next, answers), UNCHANGED <<main, npm>>,
         passed => Cleared(builds[b].path, builds[b].commit, builds[b].requested, answers)
  PROVE  PipeInv'
  <1>1. PICK s : s = IF passed THEN next ELSE "failed checks"
    OBVIOUS
  <1>2. PICK q, r : q = builds[b] /\ r = With(q, s, answers, q.runs)
    OBVIOUS
  <1>3. Build(r)
    <2>1. /\ r.path = q.path /\ r.stage = s /\ r.commit = q.commit
          /\ r.requested = q.requested /\ r.answers = answers /\ IsBuild(r)
      BY <1>2, WithIs
    <2>2. QED
      BY <1>1, <1>2, <2>1 DEF Build
  <1>4. builds' = [builds EXCEPT ![b] = r]
    <2>1. builds' = [builds EXCEPT ![b] = SetAnswers(SetStage(q, s), answers)]
      BY <1>1, <1>2 DEF Outcome, SetAnswers, SetStage
    <2>2. SetAnswers(SetStage(q, s), answers) = r
      BY <1>2, WithTwo DEF Build
    <2>3. QED
      BY <2>1, <2>2
  <1>5. QED
    BY <1>3, <1>4, BuildMoves

LEMMA ChecksInv ==
  ASSUME PipeInv, NEW b \in DOMAIN Builds, NEW answers, NEW mode \in {"yaml", "fallback"},
         CheckBuildkite(b, answers, mode)
           \/ \E env \in Environments : CheckActions(b, answers, mode, env)
  PROVE  PipeInv'
  <1>0. Build(builds[b])
    BY UnderWay DEF CheckBuildkite, CheckActions
  <1>1. CASE CheckBuildkite(b, answers, mode)
    <2> DEFINE passed == ReleaseChecks(Tree(b), builds[b].requested, builds[b].commit \in main,
                                       answers, mode)
    <2>1. Outcome(b, passed, "blocked", answers) /\ UNCHANGED <<main, npm>> /\ passed \in BOOLEAN
      BY <1>1 DEF CheckBuildkite, ReleaseChecks
    <2>2. passed => Cleared(builds[b].path, builds[b].commit, builds[b].requested, answers)
      BY <1>1 DEF CheckBuildkite, ReleaseChecks, release_guard, Cleared, Tree
    <2>3. QED
      BY <1>0, <2>1, <2>2, OutcomeInv
  <1>2. ASSUME NEW env \in Environments, CheckActions(b, answers, mode, env) PROVE PipeInv'
    <2> DEFINE passed == /\ runDriftCheck(Tree(b).contract, mode)
                         /\ boundaryScan(Tree(b)) /\ scancodeLicense(Tree(b))
                         /\ runComplianceChecks(Tree(b), answers)
                         /\ verifyNpmPublishAccess(Tree(b), env)
    <2>1. Outcome(b, passed, "publishing", answers) /\ UNCHANGED <<main, npm>> /\ passed \in BOOLEAN
      BY <1>2 DEF CheckActions
    <2>2. passed => Cleared(builds[b].path, builds[b].commit, builds[b].requested, answers)
      BY <1>2 DEF CheckActions, ActionsChecks, Cleared, Tree
    <2>3. QED
      BY <1>0, <2>1, <2>2, OutcomeInv
  <1>3. QED
    BY <1>1, <1>2

\* The steps between the checks and npm.
LEMMA StagesInv ==
  ASSUME PipeInv, NEW b \in DOMAIN Builds,
         Unblock(b) \/ StartPublish(b) \/ PublishDone(b) \/ Die(b)
  PROVE  PipeInv'
  <1>0. Build(builds[b]) /\ UNCHANGED <<main, npm>>
    BY UnderWay DEF Unblock, StartPublish, PublishDone, Die
  <1>1. PICK s : /\ builds' = [builds EXCEPT ![b].stage = s]
                 /\ \/ s = "failed checks"
                    \/ builds[b].stage \notin {"checks", "failed checks"}
    <2>1. CASE Unblock(b)
      BY <2>1 DEF Unblock
    <2>2. CASE StartPublish(b)
      BY <2>2 DEF StartPublish
    <2>3. CASE PublishDone(b)
      BY <2>3 DEF PublishDone
    <2>4. CASE Die(b)
      BY <2>4 DEF Die
    <2>5. QED
      BY <2>1, <2>2, <2>3, <2>4
  <1>2. QED
    BY <1>0, <1>1, StageMoves

LEMMA RunAgainInv ==
  ASSUME PipeInv, NEW b \in DOMAIN Builds, RunAgain(b)
  PROVE  PipeInv'
  <1>0. Build(builds[b]) /\ UNCHANGED <<main, npm>>
    BY UnderWay DEF RunAgain
  <1>1. PICK q, s, n, r : /\ q = builds[b] /\ n = q.runs + 1
                          /\ s = (IF q.stage = "failed checks" THEN "checks" ELSE "publish")
                          /\ r = With(q, s, q.answers, n)
    OBVIOUS
  <1>2. Build(r)
    <2>1. /\ r.path = q.path /\ r.stage = s /\ r.commit = q.commit
          /\ r.requested = q.requested /\ r.answers = q.answers /\ IsBuild(r)
      BY <1>1 DEF With, IsBuild
    <2>2. s = "checks" \/ q.stage \notin {"checks", "failed checks"}
      <3>1. builds[b].stage \in {"failed checks", "failed publish"}
        BY DEF RunAgain
      <3>2. QED
        BY <1>1, <3>1
    <2>3. QED
      BY <1>0, <1>1, <2>1, <2>2 DEF Build
  <1>3. builds' = [builds EXCEPT ![b] = r]
    <2>1. builds' = [builds EXCEPT ![b] = SetStage(SetRuns(q, n), s)]
      BY <1>1 DEF RunAgain, SetStage, SetRuns
    <2>2. SetStage(SetRuns(q, n), s) = r
      <3>1. IsBuild(q)
        BY <1>0, <1>1 DEF Build
      <3>2. SetStage(SetRuns(q, n), s) = With(q, s, q.answers, n)
        BY <3>1, WithTwo
      <3>3. QED
        BY <1>1, <3>2
    <2>3. QED
      BY <2>1, <2>2
  <1>4. QED
    BY <1>0, <1>2, <1>3, BuildMoves

\* What is published was cleared with its build.
LEMMA PublishInv ==
  ASSUME PipeInv, NEW b \in DOMAIN Builds, NEW p \in Missing(b), PublishOne(b, p)
  PROVE  PipeInv'
  <1>1. Build(builds[b]) /\ builds[b].stage = "publishing" /\ UNCHANGED <<main, builds>>
    BY UnderWay DEF PublishOne
  <1>2. PICK e : e = [name |-> p.name, version |-> p.version, commit |-> builds[b].commit,
                      path |-> builds[b].path, requested |-> builds[b].requested,
                      answers |-> builds[b].answers]
    OBVIOUS
  <1>3. npm' = npm \cup {e}
    BY <1>2 DEF PublishOne
  <1>4. /\ e.name = p.name /\ e.version = p.version /\ e.commit = builds[b].commit
        /\ e.path = builds[b].path /\ e.requested = builds[b].requested
        /\ e.answers = builds[b].answers
    BY <1>2
  <1>5. Cleared(e.path, e.commit, e.requested, e.answers) /\ e.commit \in DOMAIN Commits
    BY <1>1, <1>4 DEF Build
  <1>6. p \in Commits[e.commit].packages /\ ~p.private
    BY <1>4 DEF Missing, Tree
  <1>7. \A path, c, requested, answers :
          Cleared(path, c, requested, answers) => Cleared(path, c, requested, answers)'
    BY <1>1, ClearedStays
  <1>8. PublishedWasCleared'
    BY <1>3, <1>4, <1>5, <1>6, <1>7 DEF PipeInv, PublishedWasCleared
  <1>9. QED
    BY <1>1, <1>7, <1>8 DEF PipeInv, Build

LEMMA MergeInv ==
  ASSUME PipeInv, NEW c, Merge(c)
  PROVE  PipeInv'
  <1>1. main \subseteq main' /\ UNCHANGED <<builds, npm>>
    BY DEF Merge
  <1>2. \A path, d, requested, answers :
          Cleared(path, d, requested, answers) => Cleared(path, d, requested, answers)'
    BY <1>1, ClearedStays
  <1>3. QED
    BY <1>1, <1>2 DEF PipeInv, Build, PublishedWasCleared

(* Retries, jobs that die half way, builds that overlap and main moving on   *)
(* never bring to npm what has not passed release-checks.sh (Buildkite) or    *)
(* the steps of the release job of release.yml (Actions), for any commits.    *)
THEOREM PublishedWasClearedCorrect ==
  PipelineSpec => []PublishedWasCleared
  <1>1. PipeInv /\ [PipelineNext]_pipelineVars => PipeInv'
    <2> SUFFICES ASSUME PipeInv, [PipelineNext]_pipelineVars PROVE PipeInv'
      OBVIOUS
    <2>1. ASSUME NEW b \in DOMAIN Builds, NEW s \in Builds[b], NEW v, Queue(b, s[1], s[2], v)
          PROVE  PipeInv'
      BY <2>1, QueueInv
    <2>2. ASSUME NEW b \in DOMAIN Builds, NEW answers, NEW mode \in {"yaml", "fallback"},
                 CheckBuildkite(b, answers, mode)
                 \/ \E env \in Environments : CheckActions(b, answers, mode, env)
          PROVE  PipeInv'
      BY <2>2, ChecksInv
    <2>3. ASSUME NEW b \in DOMAIN Builds,
                 Unblock(b) \/ StartPublish(b) \/ PublishDone(b) \/ Die(b)
          PROVE  PipeInv'
      BY <2>3, StagesInv
    <2>4. ASSUME NEW b \in DOMAIN Builds, RunAgain(b) PROVE PipeInv'
      BY <2>4, RunAgainInv
    <2>5. ASSUME NEW b \in DOMAIN Builds, NEW p \in Missing(b), PublishOne(b, p) PROVE PipeInv'
      BY <2>5, PublishInv
    <2>6. ASSUME NEW c, Merge(c) PROVE PipeInv'
      BY <2>6, MergeInv
    <2>7. CASE UNCHANGED pipelineVars
      <3>1. main \subseteq main' /\ UNCHANGED <<builds, npm>>
        BY <2>7 DEF pipelineVars
      <3>2. \A path, d, requested, answers :
              Cleared(path, d, requested, answers) => Cleared(path, d, requested, answers)'
        BY <3>1, ClearedStays
      <3>3. QED
        BY <3>1, <3>2 DEF PipeInv, Build, PublishedWasCleared
    <2>8. QED
      BY <2>1, <2>2, <2>3, <2>4, <2>5, <2>6, <2>7 DEF PipelineNext
  <1>2. PipeInv => PublishedWasCleared
    BY DEF PipeInv
  <1>3. QED
    BY PipeInitInv, <1>1, <1>2, PTL DEF PipelineSpec

(* The first half of PublishedIsClean: what Buildkite published was on main, *)
(* at the version asked for by tag or by RELEASE_VERSION.                    *)
PublishedAsAsked ==
  \A e \in npm : e.path = "buildkite" => e.commit \in main /\ e.version = e.requested

THEOREM PublishedAsAskedCorrect ==
  PipelineSpec => []PublishedAsAsked
  <1>1. PublishedWasCleared => PublishedAsAsked
    BY DEF PublishedWasCleared, PublishedAsAsked, Cleared, ReleaseChecks, release_guard
  <1>2. QED
    BY <1>1, PublishedWasClearedCorrect, PTL

-----------------------------------------------------------------------------
(* The other half: a flaw of a tree is refused by the check that looks for  *)
(* it, whatever else is wrong with the tree, or it is hidden from it.       *)

OneTarball(r) == \A s, t \in Tarballs : {s, t} \subseteq r => s = t

\* A resolution that passes is neither git's nor from elsewhere.
LEMMA ResolutionOk ==
  ASSUME NEW r, OneTarball(r), classifyResolution(r) = "ok"
  PROVE  /\ r \cap {"repo", "commit"} = {} /\ r # {}
         /\ "tarball http npm" \notin r /\ "tarball elsewhere" \notin r
  <1>1. /\ "directory" \notin r /\ r \cap {"repo", "commit"} = {}
        /\ \/ "tarball https npm" \in r
           \/ /\ "tarball http npm" \notin r /\ "tarball elsewhere" \notin r
              /\ "integrity" \in r
    BY DEF classifyResolution
  <1>2. CASE "tarball https npm" \in r
    <2>1. \A t \in Tarballs : t \in r => t = "tarball https npm"
      BY <1>2 DEF OneTarball, Tarballs
    <2>2. QED
      BY <1>1, <1>2, <2>1 DEF Tarballs
  <1>3. QED
    BY <1>1, <1>2

\* What runComplianceChecks has made sure of, for one dependency.
LEMMA NoViolation ==
  ASSUME NEW tree, NEW dep, NEW answers, Violations(tree, dep, answers) = {}
  PROVE  /\ dep \in DOMAIN tree.policy
         /\ effectiveRegistry(dep, parseNpmrc(tree.npmrc)) = NpmRegistry
         /\ Locked(tree, dep) # {}
         /\ \A r \in Locked(tree, dep) : classifyResolution(r) = "ok"
         /\ answers /\ ~tree.genuine => \A r \in Locked(tree, dep) : "integrity" \notin r
         /\ dep \in DOMAIN tree.installed
              /\ NoUrl \notin {tree.policy[dep], tree.installed[dep]} =>
                normaliseRepoUrl(tree.policy[dep]) = normaliseRepoUrl(tree.installed[dep])
  <1> DEFINE entries == {e \in parseLockfilePackages(Text(tree.lock)) : e[1][1] = dep}
             found   == IF dep \in DOMAIN tree.installed THEN tree.installed[dep] ELSE NoUrl
  <1>1. dep \in DOMAIN tree.policy
    BY DEF Violations
  <1>2. /\ effectiveRegistry(dep, parseNpmrc(tree.npmrc)) = NpmRegistry
        /\ ~(entries = {} \/ \E e \in entries : classifyResolution(e[2]) # "ok")
        /\ ~(answers /\ ~tree.genuine /\ \E e \in entries : "integrity" \in e[2])
        /\ ~(/\ tree.policy[dep] # NoUrl /\ found # NoUrl
             /\ normaliseRepoUrl(tree.policy[dep]) # normaliseRepoUrl(found))
    <2>1. PICK npmrc, es, u, a, b, c, d :
            /\ npmrc = parseNpmrc(tree.npmrc) /\ es = entries /\ u = found
            /\ a = (effectiveRegistry(dep, npmrc) # NpmRegistry)
            /\ b = (es = {} \/ \E e \in es : classifyResolution(e[2]) # "ok")
            /\ c = (answers /\ ~tree.genuine /\ \E e \in es : "integrity" \in e[2])
            /\ d = (/\ tree.policy[dep] # NoUrl /\ u # NoUrl
                    /\ normaliseRepoUrl(tree.policy[dep]) # normaliseRepoUrl(u))
      OBVIOUS
    <2>2. (IF a THEN {"registry-config"} ELSE {}) \cup (IF b THEN {"lockfile-provenance"} ELSE {})
            \cup (IF c THEN {"npm-integrity"} ELSE {}) \cup (IF d THEN {"repository-url"} ELSE {})
          = {}
      BY <1>1, <2>1, Zenon DEF Violations
    <2>3. ~a /\ ~b /\ ~c /\ ~d
      BY <2>2
    <2>4. QED
      BY <2>1, <2>3
  <1>3. Locked(tree, dep) = {e[2] : e \in entries}
    BY DEF Locked
  <1>4. QED
    BY <1>1, <1>2, <1>3

LEMMA DependenciesChecked ==
  ASSUME NEW F, NEW tree, NEW answers,
         DependencyFlawsShow(F, tree), PackageFlawsShow(F, tree),
         \A r \in AllLocked(tree) : OneTarball(r),
         runComplianceChecks(tree, answers),
         NEW flaw \in DependencyFlaws \cap F
  PROVE  Hidden(flaw, F, answers)
  <1> SUFFICES ASSUME "unscoped" \notin F
               PROVE  flaw = "not npm's" /\ (~answers \/ "no hash" \in F)
    BY DEF Hidden
  <1>1. \A p \in Public(tree) : p.scoped
    BY DEF PackageFlawsShow
  <1>2. \A dep \in Needed(tree) : Violations(tree, dep, answers) = {}
    BY <1>1 DEF Needed, Public, Releasable, runComplianceChecks
  <1>3. \A dep \in Needed(tree) :
          /\ dep \in DOMAIN tree.policy
          /\ effectiveRegistry(dep, parseNpmrc(tree.npmrc)) = NpmRegistry
          /\ Locked(tree, dep) # {}
          /\ \A r \in Locked(tree, dep) : classifyResolution(r) = "ok"
          /\ answers /\ ~tree.genuine => \A r \in Locked(tree, dep) : "integrity" \notin r
          /\ dep \in DOMAIN tree.installed
               /\ NoUrl \notin {tree.policy[dep], tree.installed[dep]} =>
                 normaliseRepoUrl(tree.policy[dep]) = normaliseRepoUrl(tree.installed[dep])
    BY <1>2, NoViolation
  <1>4. \A r \in AllLocked(tree) : classifyResolution(r) = "ok" /\ OneTarball(r)
    BY <1>3 DEF AllLocked
  <1>5. \A r \in AllLocked(tree) :
          /\ r \cap {"repo", "commit"} = {} /\ r # {}
          /\ "tarball http npm" \notin r /\ "tarball elsewhere" \notin r
    BY <1>4, ResolutionOk
  <1>6. "unlisted" \notin F /\ "redirected" \notin F /\ "wrong repository" \notin F
    BY <1>3 DEF DependencyFlawsShow
  <1>7. "git" \notin F /\ "http" \notin F /\ "foreign" \notin F
    BY <1>5 DEF DependencyFlawsShow
  <1>8. "unresolved" \notin F
    <2> SUFFICES ASSUME NEW dep \in Needed(tree), Locked(tree, dep) \subseteq {{}} PROVE FALSE
      BY DEF DependencyFlawsShow
    <2>1. PICK r \in Locked(tree, dep) : TRUE
      BY <1>3
    <2>2. r \in AllLocked(tree)
      BY <2>1 DEF AllLocked
    <2>3. QED
      BY <1>5, <2>1, <2>2
  <1>9. "not npm's" \in F => ~answers \/ "no hash" \in F
    <2> SUFFICES ASSUME "not npm's" \in F, answers PROVE "no hash" \in F
      OBVIOUS
    <2>1. PICK dep \in Needed(tree) : ~tree.genuine
      BY DEF DependencyFlawsShow
    <2>2. PICK r \in Locked(tree, dep) : "integrity" \notin r
      BY <1>3, <2>1
    <2>3. r \in AllLocked(tree) /\ r # {}
      BY <1>5, <2>2 DEF AllLocked
    <2>4. QED
      BY <2>2, <2>3 DEF DependencyFlawsShow
  <1>10. QED
    BY <1>6, <1>7, <1>8, <1>9 DEF DependencyFlaws

\* Without the YAML parser the drift check accepts no document that ends with
\* its schemas.
LEMMA DriftChecked ==
  ASSUME NEW F, NEW tree, SourceFlawsShow(F, tree), tree.contract.document.last,
         NEW mode, runDriftCheck(tree.contract, mode)
  PROVE  "schema drift" \notin F /\ "operation drift" \notin F
  <1>1. mode = "yaml"
    BY DEF runDriftCheck, extractFromText
  <1>2. extractFromDocument(tree.contract.document).schemas = tree.contract.schemas
    BY <1>1 DEF runDriftCheck
  <1>3. extractFromDocument(tree.contract.document).operations = tree.contract.operations
    BY <1>1 DEF runDriftCheck
  <1>4. QED
    BY <1>2, <1>3 DEF SourceFlawsShow

\* A file that ScanCode reads and no path excuses has no such licence, and its
\* statements all name an allowed holder, perhaps beside others.
LEMMA ScannedFile ==
  ASSUME NEW tree, scancodeLicense(tree), NEW file \in Answerable(tree), scanned(file)
  PROVE  /\ ForbiddenLicenses \cap UNION file.detections = {}
         /\ \A c \in file.copyrights : c = {} \/ hasAllowedHolder(c)
  <1> DEFINE Of(keys) == IF \E k \in keys : isForbiddenLicense(k) THEN {"copyleft-license"}
                         ELSE IF \E k \in keys : ~isAllowedLicense(k)
                              THEN {"unrecognized-license"} ELSE {}
             foreign  == \E c \in file.copyrights : c # {} /\ ~hasAllowedHolder(c)
  <1>1. file \in tree.files /\ file.path \notin ReviewOnly
    BY DEF Answerable
  <1>2. Findings(file) = {}
    BY <1>1 DEF scancodeLicense
  <1>3. Findings(file) =
          (IF foreign THEN {"copyright-holder"} ELSE {}) \cup UNION {Of(keys) : keys \in file.detections}
    BY <1>1, Zenon DEF Findings
  <1>4. PICK b : b = foreign
    OBVIOUS
  <1> HIDE DEF foreign
  <1>5. (IF b THEN {"copyright-holder"} ELSE {}) = {} /\ UNION {Of(keys) : keys \in file.detections} = {}
    BY <1>2, <1>3, <1>4
  <1>6. ASSUME NEW keys \in file.detections, NEW k \in keys PROVE k \notin ForbiddenLicenses
    <2> SUFFICES ASSUME k \in ForbiddenLicenses PROVE FALSE
      OBVIOUS
    <2>1. Of(keys) = {"copyleft-license"}
      BY DEF isForbiddenLicense
    <2> HIDE DEF Of
    <2>2. "copyleft-license" \in UNION {Of(ks) : ks \in file.detections}
      BY <2>1
    <2>3. QED
      BY <1>5, <2>2
  <1>7. ~foreign
    BY <1>4, <1>5
  <1>8. QED
    BY <1>6, <1>7 DEF foreign

LEMMA SourcesChecked ==
  ASSUME NEW F, NEW tree, SourceFlawsShow(F, tree)
  PROVE  /\ boundaryScan(tree) => "vendor term" \notin F
         /\ scancodeLicense(tree) => /\ "copyleft" \in F => "copyleft unscanned" \in F
                                     /\ "foreign holder" \in F => "holder overlooked" \in F
  <1>1. boundaryScan(tree) => "vendor term" \notin F
    BY DEF boundaryScan, SourceFlawsShow
  <1>2. ASSUME scancodeLicense(tree)
        PROVE  /\ \A file \in Copyleft(tree) : ~scanned(file)
               /\ \A s \in ForeignHolders(tree) : ~scanned(s.file) \/ hasAllowedHolder(s.copyright)
    <2>1. ASSUME NEW file \in Copyleft(tree) PROVE ~scanned(file)
      <3>1. file \in Answerable(tree) /\ ForbiddenLicenses \cap UNION file.detections # {}
        BY DEF Copyleft
      <3>2. QED
        BY <1>2, <3>1, ScannedFile
    <2>2. ASSUME NEW s \in ForeignHolders(tree)
          PROVE  ~scanned(s.file) \/ hasAllowedHolder(s.copyright)
      <3>1. PICK file \in Answerable(tree) : \E c \in file.copyrights :
              ~(c \subseteq AllowedHolders) /\ s = [file |-> file, copyright |-> c]
        BY DEF ForeignHolders
      <3>2. s.file = file /\ s.copyright \in file.copyrights /\ s.copyright # {}
        BY <3>1
      <3>3. QED
        BY <1>2, <3>2, ScannedFile
    <2>3. QED
      BY <2>1, <2>2
  <1>3. QED
    BY <1>1, <1>2 DEF SourceFlawsShow

LEMMA PackagesChecked ==
  ASSUME NEW F, NEW tree, PackageFlawsShow(F, tree)
  PROVE  /\ packageSmoke(tree) => /\ PackageFlaws \cap F \subseteq {"unattributed"}
                                  /\ "unattributed" \in F => "spelled by chance" \in F
         /\ \A requested, onMain : release_guard(tree, requested, onMain) =>
              "mixed versions" \notin F
         /\ \A env : verifyNpmPublishAccess(tree, env) =>
              "unscoped" \notin F /\ "restricted" \notin F
  <1>1. ASSUME packageSmoke(tree)
        PROVE  /\ PackageFlaws \cap F \subseteq {"unattributed"}
               /\ "unattributed" \in F => "spelled by chance" \in F
    <2>1. \A p \in Public(tree) : p.loads /\ p.legal /\ (p.deps # {} => p.packed)
      BY <1>1 DEF packageSmoke, Public
    <2>2. \A p \in Public(tree) : \A name \in Unattributed(p) : includes(p.notices, name)
      BY <1>1 DEF packageSmoke, Public, Unattributed
    <2>3. "does not load" \notin F /\ "no licence" \notin F /\ "notices not packed" \notin F
      BY <2>1 DEF PackageFlawsShow
    <2>4. "unattributed" \in F => "spelled by chance" \in F
      BY <2>2 DEF PackageFlawsShow
    <2>5. QED
      BY <2>3, <2>4 DEF PackageFlaws
  <1>2. \A requested, onMain : release_guard(tree, requested, onMain) => "mixed versions" \notin F
    BY DEF release_guard, PackageFlawsShow
  <1>3. \A env : verifyNpmPublishAccess(tree, env) => "unscoped" \notin F /\ "restricted" \notin F
    BY DEF verifyNpmPublishAccess, isPublicPackageManifest, PackageFlawsShow, Public
  <1>4. QED
    BY <1>1, <1>2, <1>3

\* What is cleared along a path has none of the flaws that the path looks for,
\* except hidden ones.
LEMMA ClearedIsClean ==
  ASSUME NEW path, NEW c \in DOMAIN Commits, NEW requested,
         NEW answers, Cleared(path, c, requested, answers),
         NEW flaw \in Flaws[c] \cap LookedAt(path)
  PROVE  Hidden(flaw, Flaws[c], answers)
  <1> DEFINE tree == Commits[c]
             F    == Flaws[c]
  <1>1. /\ DependencyFlawsShow(F, tree) /\ PackageFlawsShow(F, tree) /\ SourceFlawsShow(F, tree)
        /\ tree.contract.document.last
        /\ \A r \in AllLocked(tree) : OneTarball(r)
    BY ReleaseAssumption DEF FlawsShow, TreesAreSound, OneTarball
  <1>2. PICK mode : runDriftCheck(tree.contract, mode)
    BY DEF Cleared, ActionsChecks, ReleaseChecks
  <1>3. boundaryScan(tree) /\ runComplianceChecks(tree, answers)
    BY DEF Cleared, ActionsChecks, ReleaseChecks
  <1>4. path = "actions" => scancodeLicense(tree) /\ \E env : verifyNpmPublishAccess(tree, env)
    BY DEF Cleared, ActionsChecks
  <1>5. path # "actions" => packageSmoke(tree) /\ release_guard(tree, requested, TRUE)
    BY DEF Cleared, ReleaseChecks
  <1>6. flaw \notin {"vendor term", "schema drift", "operation drift"}
    <2>1. "schema drift" \notin F /\ "operation drift" \notin F
      BY <1>1, <1>2, DriftChecked
    <2>2. "vendor term" \notin F
      BY <1>1, <1>3, SourcesChecked
    <2>3. QED
      BY <2>1, <2>2
  <1>7. CASE path = "actions" /\ flaw \in {"copyleft", "foreign holder", "unscoped", "restricted"}
    <2>1. /\ "copyleft" \in F => "copyleft unscanned" \in F
          /\ "foreign holder" \in F => "holder overlooked" \in F
      <3>1. SourceFlawsShow(F, tree) /\ scancodeLicense(tree)
        BY <1>1, <1>4, <1>7
      <3>2. QED
        BY <3>1, SourcesChecked
    <2>2. "unscoped" \notin F /\ "restricted" \notin F
      <3>1. PackageFlawsShow(F, tree) /\ \E env : verifyNpmPublishAccess(tree, env)
        BY <1>1, <1>4, <1>7
      <3>2. QED
        BY <3>1, PackagesChecked
    <2>3. flaw \in F
      OBVIOUS
    <2> HIDE DEF F
    <2>4. \/ flaw = "copyleft" /\ "copyleft unscanned" \in F
          \/ flaw = "foreign holder" /\ "holder overlooked" \in F
      BY <1>7, <2>1, <2>2, <2>3
    <2>5. Hidden(flaw, F, answers)
      BY <2>4, Zenon DEF Hidden
    <2>6. QED
      BY <2>5 DEF F
  <1>8. CASE path # "actions" /\ flaw \in PackageFlaws \cup {"mixed versions"}
    <2>1. PackageFlawsShow(F, tree) /\ packageSmoke(tree) /\ release_guard(tree, requested, TRUE)
      BY <1>1, <1>5, <1>8
    <2>2. /\ PackageFlaws \cap F \subseteq {"unattributed"}
          /\ "unattributed" \in F => "spelled by chance" \in F
          /\ "mixed versions" \notin F
      BY <2>1, PackagesChecked
    <2>3. flaw \in F
      OBVIOUS
    <2> HIDE DEF F
    <2>4. flaw = "unattributed" /\ "spelled by chance" \in F
      BY <1>8, <2>2, <2>3
    <2>5. Hidden(flaw, F, answers)
      BY <2>4, Zenon DEF Hidden
    <2>6. QED
      BY <2>5 DEF F
  <1>9. CASE flaw \in DependencyFlaws
    BY <1>1, <1>3, <1>9, DependenciesChecked
  <1>10. QED
    BY <1>6, <1>7, <1>8, <1>9 DEF LookedAt

(* Whatever is wrong with a commit, alone or together with anything else, is *)
(* kept from npm by a path that looks for it unless all of it is hidden from *)
(* the check in one of the five ways of Hidden, which are where the code     *)
(* does not look: for every tree that pnpm can write.                        *)
THEOREM PublishedIsCleanCorrect ==
  PipelineSpec => []PublishedIsClean
  <1>1. PublishedWasCleared /\ PublishedAsAsked => PublishedIsClean
    BY ClearedIsClean DEF PublishedWasCleared, PublishedAsAsked, PublishedIsClean
  <1>2. QED
    BY <1>1, PublishedWasClearedCorrect, PublishedAsAskedCorrect, PTL

-----------------------------------------------------------------------------
(* The search of tracePackage: every simple path from a workspace to a      *)
(* label asked for is found once.                                           *)

Nodes == Roots \cup Labels(doc)
Goals == Sought(doc, spec)

Prefix(p, q) == Len(p) <= Len(q) /\ \A n \in 1 .. Len(p) : p[n] = q[n]

\* A path along edges that visits nothing twice.
Simple(p) ==
  /\ p \in Seq(Nodes) /\ Len(p) > 0
  /\ \A n \in 1 .. Len(p) - 1 : <<p[n], p[n + 1]>> \in edges
  /\ IsInjective(p)

\* What a search should find.
Path(p, root, label) == Simple(p) /\ p[1] = root /\ p[Len(p)] = label

\* The stack: paths of which none is the beginning of another or of a path
\* found for the goal; their ends only may be the goal.
StackInv ==
  /\ stack \in Seq(Seq(Nodes)) /\ IsInjective(stack)
  /\ \A p \in ToSet(stack) :
       /\ Simple(p) /\ p[1] \in Roots /\ goal \in Goals /\ <<goal, p[1]>> \notin searches
       /\ \A n \in 1 .. Len(p) - 1 : p[n] # goal
       /\ \A q \in ToSet(stack) \ {p} : ~Prefix(p, q)
       /\ \A q \in ToSet(allPaths) : q[Len(q)] = goal => ~Prefix(p, q)

\* What has been found.
FoundInv ==
  /\ allPaths \in Seq(Seq(Nodes)) /\ IsInjective(allPaths)
  /\ \A p \in ToSet(allPaths) :
       /\ Simple(p) /\ p[1] \in Roots /\ p[Len(p)] \in Goals
       /\ <<p[Len(p)], p[1]>> \notin searches

\* Nothing is lost: a path is found, or is being found, or will be looked for.
NothingLost ==
  \A root \in Roots, label \in Goals : \A p : Path(p, root, label) =>
    \/ p \in ToSet(allPaths) \/ <<label, root>> \in searches
    \/ label = goal /\ \E q \in ToSet(stack) : Prefix(q, p)

SearchInv ==
  /\ step \in {"load", "search", "printed"}
  /\ step = "load" => stack = << >> /\ allPaths = << >>
  /\ step # "load" =>
       /\ doc \in Documents /\ spec \in Specs /\ edges = EdgesOf(Text(doc))
       /\ searches \subseteq Goals \X Roots
       /\ StackInv /\ FoundInv /\ NothingLost
  /\ step = "printed" => stack = << >> /\ searches = {}

-----------------------------------------------------------------------------
(* Sequences as stacks                                                      *)

LEMMA PopSet ==
  ASSUME NEW X, NEW s \in Seq(X), s # << >>, IsInjective(s)
  PROVE  /\ Front(s) \in Seq(X) /\ IsInjective(Front(s))
         /\ Last(s) \in X /\ Last(s) \in ToSet(s)
         /\ ToSet(Front(s)) = ToSet(s) \ {Last(s)}
  <1>1. PICK k : k \in Nat /\ k = Len(s) /\ k # 0 /\ DOMAIN s = 1 .. k
    BY EmptySeq
  <1>2. PICK f, x : f = Front(s) /\ x = Last(s) /\ x = s[k]
    BY <1>1 DEF Last
  <1>3. /\ f \in Seq(X) /\ DOMAIN f = 1 .. k - 1
        /\ \A n \in 1 .. k - 1 : f[n] = s[n]
    <2>1. f = SubSeq(s, 1, k - 1)
      BY <1>1, <1>2 DEF Front
    <2>2. \A n \in 1 .. k - 1 : s[n] \in X
      BY <1>1
    <2>3. QED
      BY <1>1, <2>1, <2>2
  <1>4. k \in DOMAIN s /\ 1 .. k - 1 = (1 .. k) \ {k}
    BY <1>1
  <1>5. \A n \in DOMAIN s : s[n] = x <=> n = k
    BY <1>1, <1>2, <1>4 DEF IsInjective
  <1>6. ToSet(f) = ToSet(s) \ {x}
    <2>1. \A y \in ToSet(f) : y \in ToSet(s) \ {x}
      BY <1>1, <1>3, <1>4, <1>5 DEF ToSet
    <2>2. \A y \in ToSet(s) \ {x} : y \in ToSet(f)
      BY <1>1, <1>2, <1>3, <1>4 DEF ToSet
    <2>3. QED
      BY <2>1, <2>2
  <1>7. IsInjective(f)
    BY <1>1, <1>3, <1>4 DEF IsInjective
  <1>8. x \in X /\ x \in ToSet(s)
    BY <1>1, <1>2, <1>4 DEF ToSet
  <1>9. QED
    BY <1>2, <1>3, <1>6, <1>7, <1>8

LEMMA SeqOfSet ==
  ASSUME NEW T, IsFiniteSet(T)
  PROVE  SetToSeq(T) \in Seq(T) /\ IsInjective(SetToSeq(T)) /\ ToSet(SetToSeq(T)) = T
  <1> DEFINE k == Cardinality(T)
             t == SetToSeq(T)
  <1>1. k \in Nat /\ \E f \in [1 .. k -> T] : IsInjective(f)
    BY FS_CardinalityType DEF ExistsBijection, Bijection, Injection
  <1>2. t \in [1 .. k -> T] /\ IsInjective(t)
    BY <1>1 DEF SetToSeq
  <1>3. t \in Injection(1 .. k, T)
    BY <1>2 DEF Injection
  <1>4. IsFiniteSet(1 .. k) /\ Cardinality(1 .. k) = k
    BY <1>1, FS_Interval
  <1>5. t \in Surjection(1 .. k, T)
    BY <1>3, <1>4, FS_Injection
  <1>6. ToSet(t) = T
    BY <1>2, <1>5 DEF ToSet, Surjection
  <1>7. t \in Seq(T)
    BY <1>1, <1>2
  <1>8. QED
    BY <1>2, <1>6, <1>7

LEMMA LengthOfDistinct ==
  ASSUME NEW X, NEW s \in Seq(X), IsInjective(s)
  PROVE  Cardinality(ToSet(s)) = Len(s)
  <1>1. Len(s) \in Nat /\ DOMAIN s = 1 .. Len(s)
    OBVIOUS
  <1>2. s \in [1 .. Len(s) -> ToSet(s)]
    BY <1>1 DEF ToSet
  <1>3. s \in Bijection(1 .. Len(s), ToSet(s))
    BY <1>1, <1>2 DEF Bijection, Injection, Surjection, ToSet
  <1>4. QED
    BY <1>1, <1>3, FS_CountingElements DEF ExistsBijection

LEMMA ConcatSet ==
  ASSUME NEW X, NEW s \in Seq(X), NEW t \in Seq(X)
  PROVE  s \o t \in Seq(X) /\ ToSet(s \o t) = ToSet(s) \cup ToSet(t)
  <1>1. /\ s \o t \in Seq(X) /\ Len(s) \in Nat /\ Len(t) \in Nat
        /\ DOMAIN s = 1 .. Len(s) /\ DOMAIN t = 1 .. Len(t)
        /\ DOMAIN (s \o t) = 1 .. Len(s) + Len(t)
        /\ \A n \in 1 .. Len(s) + Len(t) :
             (s \o t)[n] = IF n <= Len(s) THEN s[n] ELSE t[n - Len(s)]
    BY ConcatProperties
  <1>2. \A n \in DOMAIN (s \o t) : \/ n \in DOMAIN s /\ (s \o t)[n] = s[n]
                                   \/ n - Len(s) \in DOMAIN t /\ (s \o t)[n] = t[n - Len(s)]
    BY <1>1
  <1>3. \A n \in DOMAIN s : n \in DOMAIN (s \o t) /\ (s \o t)[n] = s[n]
    BY <1>1
  <1>4. \A n \in DOMAIN t : n + Len(s) \in DOMAIN (s \o t) /\ (s \o t)[n + Len(s)] = t[n]
    BY <1>1
  <1>5. \A x \in ToSet(s \o t) : x \in ToSet(s) \/ x \in ToSet(t)
    BY <1>2 DEF ToSet
  <1>6. \A x \in ToSet(s) : x \in ToSet(s \o t)
    BY <1>3 DEF ToSet
  <1>7. \A x \in ToSet(t) : x \in ToSet(s \o t)
    BY <1>4 DEF ToSet
  <1>8. QED
    BY <1>1, <1>5, <1>6, <1>7

LEMMA PushSet ==
  ASSUME NEW X, NEW s \in Seq(X), NEW t \in Seq(X), IsInjective(s), IsInjective(t),
         ToSet(s) \cap ToSet(t) = {}
  PROVE  s \o t \in Seq(X) /\ IsInjective(s \o t) /\ ToSet(s \o t) = ToSet(s) \cup ToSet(t)
  <1>1. /\ s \o t \in Seq(X) /\ Len(s) \in Nat /\ Len(t) \in Nat
        /\ DOMAIN s = 1 .. Len(s) /\ DOMAIN t = 1 .. Len(t)
        /\ DOMAIN (s \o t) = 1 .. Len(s) + Len(t)
        /\ \A n \in 1 .. Len(s) + Len(t) :
             (s \o t)[n] = IF n <= Len(s) THEN s[n] ELSE t[n - Len(s)]
    BY ConcatProperties
  <1>2. IsInjective(s \o t)
    <2> SUFFICES ASSUME NEW m \in DOMAIN (s \o t), NEW n \in DOMAIN (s \o t), m # n,
                        (s \o t)[m] = (s \o t)[n]
                 PROVE  FALSE
      BY DEF IsInjective
    <2>1. ~(\E i \in DOMAIN s, j \in DOMAIN t : s[i] = t[j])
      BY DEF ToSet
    <2>2. CASE m <= Len(s) /\ n <= Len(s)
      BY <1>1, <2>2 DEF IsInjective
    <2>3. CASE m > Len(s) /\ n > Len(s)
      <3>1. m - Len(s) \in DOMAIN t /\ n - Len(s) \in DOMAIN t /\ t[m - Len(s)] = t[n - Len(s)]
        BY <1>1, <2>3
      <3>2. QED
        BY <1>1, <3>1 DEF IsInjective
    <2>4. QED
      BY <1>1, <2>1, <2>2, <2>3
  <1>3. QED
    BY <1>1, <1>2, ConcatSet

-----------------------------------------------------------------------------
(* Paths                                                                    *)

LEMMA PrefixBasics ==
  ASSUME NEW p \in Seq(Nodes), NEW q \in Seq(Nodes), NEW r \in Seq(Nodes)
  PROVE  /\ Prefix(p, p)
         /\ Prefix(p, q) /\ Prefix(q, r) => Prefix(p, r)
         /\ Prefix(p, q) /\ Len(p) = Len(q) => p = q
         /\ Prefix(p, r) /\ Prefix(q, r) /\ Len(p) <= Len(q) => Prefix(p, q)
  <1>1. Len(p) \in Nat /\ Len(q) \in Nat /\ Len(r) \in Nat
    OBVIOUS
  <1>2. Prefix(p, q) /\ Len(p) = Len(q) => p = q
    BY <1>1 DEF Prefix
  <1>3. Prefix(p, q) /\ Prefix(q, r) => Prefix(p, r)
    BY <1>1 DEF Prefix
  <1>4. Prefix(p, r) /\ Prefix(q, r) /\ Len(p) <= Len(q) => Prefix(p, q)
    BY <1>1 DEF Prefix
  <1>5. Prefix(p, p)
    BY <1>1 DEF Prefix
  <1>6. QED
    BY <1>2, <1>3, <1>4, <1>5

\* A path and one more label.
OneMore(e, p, c) ==
  /\ e \in Seq(Nodes) /\ Len(e) = Len(p) + 1 /\ e[Len(p) + 1] = c
  /\ \A n \in 1 .. Len(p) : e[n] = p[n]
  /\ Len(p) > 0 => e[1] = p[1]
  /\ Prefix(p, e)
  /\ \A q \in Seq(Nodes) : Prefix(q, e) => Prefix(q, p) \/ q = e

LEMMA Longer ==
  ASSUME NEW p \in Seq(Nodes), NEW c \in Nodes
  PROVE  OneMore(Append(p, c), p, c)
  <1>e. PICK e : e = Append(p, c)
    OBVIOUS
  <1>1. /\ e \in Seq(Nodes) /\ Len(e) = Len(p) + 1 /\ e[Len(p) + 1] = c
        /\ \A n \in 1 .. Len(p) : e[n] = p[n]
        /\ Len(p) \in Nat
    BY <1>e
  <1>2. ASSUME NEW q \in Seq(Nodes), Prefix(q, e) PROVE Prefix(q, p) \/ q = e
    <2>1. Len(q) \in Nat /\ Len(q) <= Len(p) + 1
      BY <1>1, <1>2 DEF Prefix
    <2>2. CASE Len(q) = Len(p) + 1
      BY <1>1, <1>2, <2>2, PrefixBasics
    <2>3. CASE Len(q) <= Len(p)
      BY <1>1, <1>2, <2>1, <2>3 DEF Prefix
    <2>4. QED
      BY <1>1, <2>1, <2>2, <2>3
  <1>3. OneMore(e, p, c)
    BY <1>1, <1>2 DEF Prefix, OneMore
  <1>4. QED
    BY <1>e, <1>3

\* A label that edges lead to, and which is not on the path yet.
LEMMA SimpleLonger ==
  ASSUME NEW p, Simple(p), NEW c \in Nodes, <<Last(p), c>> \in edges, c \notin ToSet(p)
  PROVE  Simple(Append(p, c))
  <1>1. PICK e : e = Append(p, c)
    OBVIOUS
  <1>2. p \in Seq(Nodes) /\ Len(p) \in Nat /\ Len(p) > 0 /\ DOMAIN p = 1 .. Len(p)
    BY DEF Simple
  <1>3. /\ e \in Seq(Nodes) /\ Len(e) = Len(p) + 1 /\ e[Len(p) + 1] = c
        /\ \A n \in 1 .. Len(p) : e[n] = p[n]
        /\ DOMAIN e = 1 .. Len(p) + 1
    BY <1>1, <1>2
  <1>4. ASSUME NEW n \in 1 .. Len(p) PROVE <<e[n], e[n + 1]>> \in edges
    <2>1. CASE n = Len(p)
      BY <1>2, <1>3, <2>1 DEF Last
    <2>2. CASE n # Len(p)
      <3>1. n \in 1 .. Len(p) - 1 /\ n \in 1 .. Len(p) /\ n + 1 \in 1 .. Len(p)
        <4>1. PICK k \in Nat : k = Len(p)
          BY <1>2
        <4>2. n \in 1 .. k /\ n # k
          BY <2>2, <4>1
        <4>3. n \in 1 .. k - 1 /\ n + 1 \in 1 .. k
          BY <4>2
        <4>4. QED
          BY <4>1, <4>3
      <3>2. e[n] = p[n] /\ e[n + 1] = p[n + 1]
        BY <1>3, <3>1
      <3>3. <<p[n], p[n + 1]>> \in edges
        BY <3>1 DEF Simple
      <3>4. QED
        BY <3>2, <3>3
    <2>3. QED
      BY <2>1, <2>2
  <1>5. IsInjective(e)
    <2>1. \A n \in 1 .. Len(p) : p[n] # c
      BY <1>2 DEF ToSet
    <2>2. \A n \in DOMAIN e : n \in 1 .. Len(p) \/ n = Len(p) + 1
      BY <1>2, <1>3
    <2>3. IsInjective(p)
      BY DEF Simple
    <2>4. \A m, n \in 1 .. Len(p) : p[m] = p[n] => m = n
      BY <1>2, <2>3 DEF IsInjective
    <2>5. ASSUME NEW m \in DOMAIN e, NEW n \in DOMAIN e, e[m] = e[n] PROVE m = n
      <3>1. CASE m \in 1 .. Len(p) /\ n \in 1 .. Len(p)
        BY <1>3, <2>4, <2>5, <3>1
      <3>2. CASE m \in 1 .. Len(p) /\ n = Len(p) + 1
        BY <1>3, <2>1, <2>5, <3>2
      <3>3. CASE n \in 1 .. Len(p) /\ m = Len(p) + 1
        BY <1>3, <2>1, <2>5, <3>3
      <3>4. QED
        BY <2>2, <3>1, <3>2, <3>3
    <2>6. QED
      BY <2>5 DEF IsInjective
  <1>6. Simple(e)
    <2>1. Len(e) > 0 /\ Len(e) - 1 = Len(p)
      BY <1>2, <1>3
    <2>2. QED
      BY <1>3, <1>4, <1>5, <2>1 DEF Simple
  <1>7. QED
    BY <1>1, <1>6

\* The beginning of a path that has not reached its end goes on by an edge.
LEMMA GoesOn ==
  ASSUME NEW p, Simple(p), NEW q, Simple(q), Prefix(q, p), q # p
  PROVE  \E c \in Nodes : /\ <<Last(q), c>> \in edges /\ c \notin ToSet(q)
                          /\ Prefix(Append(q, c), p)
  <1>1. /\ p \in Seq(Nodes) /\ q \in Seq(Nodes) /\ Len(p) \in Nat /\ Len(q) \in Nat /\ Len(q) > 0
        /\ DOMAIN p = 1 .. Len(p) /\ DOMAIN q = 1 .. Len(q)
    BY DEF Simple
  <1>2. Len(q) < Len(p)
    BY <1>1, PrefixBasics DEF Prefix
  <1>3. PICK n, c : n = Len(q) + 1 /\ c = p[n] /\ n \in DOMAIN p /\ c \in Nodes
    BY <1>1, <1>2
  <1>4. \A m \in 1 .. Len(q) : q[m] = p[m] /\ m \in DOMAIN p
    BY <1>1, <1>2 DEF Prefix
  <1>5. <<Last(q), c>> \in edges
    <2>1. Len(q) \in 1 .. Len(p) - 1 /\ Len(q) \in 1 .. Len(q)
      BY <1>1, <1>2
    <2>2. <<p[Len(q)], p[Len(q) + 1]>> \in edges
      BY <2>1 DEF Simple
    <2>3. QED
      BY <1>3, <1>4, <2>1, <2>2 DEF Last
  <1>6. c \notin ToSet(q)
    <2>1. \A m \in 1 .. Len(q) : p[m] # c
      BY <1>1, <1>3, <1>4 DEF Simple, IsInjective
    <2>2. QED
      BY <1>1, <1>4, <2>1 DEF ToSet
  <1>7. Prefix(Append(q, c), p)
    <2>1. PICK e : e = Append(q, c)
      OBVIOUS
    <2>2. Len(e) = n /\ e[n] = c /\ \A m \in 1 .. Len(q) : e[m] = q[m]
      BY <1>1, <1>3, <2>1
    <2>3. QED
      BY <1>1, <1>2, <1>3, <1>4, <2>1, <2>2 DEF Prefix
  <1>8. QED
    BY <1>3, <1>5, <1>6, <1>7

-----------------------------------------------------------------------------
(* The lockfile's readers.  A text is a sequence, whatever of.               *)

IsText(t) == \E L : t \in Seq(L)

LEMMA TextOf ==
  ASSUME NEW t, IsText(t)
  PROVE  /\ Len(t) \in Nat /\ DOMAIN t = 1 .. Len(t)
         /\ t = [n \in 1 .. Len(t) |-> t[n]]
  <1>1. PICK L : t \in Seq(L)
    BY DEF IsText
  <1>2. QED
    BY <1>1

LEMMA JoinIs ==
  ASSUME NEW s, NEW t, IsText(s), IsText(t)
  PROVE  /\ IsText(s \o t) /\ Len(s \o t) = Len(s) + Len(t)
         /\ \A n \in 1 .. Len(s) : (s \o t)[n] = s[n]
         /\ \A n \in 1 .. Len(t) : (s \o t)[Len(s) + n] = t[n]
  <1>1. PICK K, L : s \in Seq(K) /\ t \in Seq(L)
    BY DEF IsText
  <1>2. PICK M : M = K \cup L
    OBVIOUS
  <1>3. s \in Seq(M) /\ t \in Seq(M)
    BY <1>1, <1>2
  <1>4. s \o t \in Seq(M) /\ Len(s \o t) = Len(s) + Len(t)
    BY <1>3
  <1>5. /\ \A n \in 1 .. Len(s) : (s \o t)[n] = s[n]
        /\ \A n \in 1 .. Len(t) : (s \o t)[Len(s) + n] = t[n]
    BY <1>3
  <1>6. QED
    BY <1>4, <1>5 DEF IsText

LEMMA FewLines ==
  /\ IsText(<< >>) /\ Len(<< >>) = 0
  /\ \A l : IsText(<<l>>) /\ Len(<<l>>) = 1 /\ <<l>>[1] = l
  <1>1. << >> \in Seq({})
    OBVIOUS
  <1>2. ASSUME NEW l PROVE <<l>> \in Seq({l}) /\ Len(<<l>>) = 1 /\ <<l>>[1] = l
    OBVIOUS
  <1>3. Len(<< >>) = 0
    OBVIOUS
  <1>4. QED
    BY <1>1, <1>2, <1>3 DEF IsText

\* FlattenSeq and Contexts are recursive: their values are taken from their
\* definitions.
FlattenBody(f, v) == IF v[2] = 1 THEN v[1][1] ELSE f[<<v[1], v[2] - 1>>] \o v[1][v[2]]
ContextBody(f, v) == IF v[3] = 0 THEN v[1] ELSE Enter(f[<<v[1], v[2], v[3] - 1>>], v[2][v[3]])

AnyValue(v, x) == TRUE

OfFlatten  == INSTANCE RecursiveFunctions WITH Def <- FlattenBody, Good <- AnyValue
OfContexts == INSTANCE RecursiveFunctions WITH Def <- ContextBody, Good <- AnyValue

LEMMA FlattenIs ==
  ASSUME NEW seqs, NEW k \in Nat, Len(seqs) = k, k # 0
  PROVE  \E f : /\ FlattenSeq(seqs) = f[k] /\ f[1] = seqs[1]
                /\ \A i \in 2 .. k : f[i] = f[i - 1] \o seqs[i]
  <1> DEFINE S       == {<<seqs, i>> : i \in 1 .. k}
             measure == [v \in S |-> v[2]]
  <1>1. measure \in [S -> Nat]
    OBVIOUS
  <1>2. OfFlatten!Local(S, measure)
    <2> SUFFICES ASSUME NEW v \in S, NEW g, NEW h, \A w \in S : measure[w] < measure[v] => g[w] = h[w]
                 PROVE  FlattenBody(g, v) = FlattenBody(h, v)
      BY DEF OfFlatten!Local, AnyValue
    <2>1. PICK i \in 1 .. k : v = <<seqs, i>>
      OBVIOUS
    <2>2. CASE i = 1
      BY <2>1, <2>2 DEF FlattenBody
    <2>3. CASE i # 1
      <3>1. PICK w : w = <<seqs, i - 1>>
        OBVIOUS
      <3>2. w \in S /\ measure[w] = i - 1 /\ measure[v] = i
        BY <2>1, <2>3, <3>1
      <3> HIDE DEF S, measure
      <3>3. measure[w] < measure[v]
        BY <3>2
      <3>4. g[w] = h[w]
        BY <3>2, <3>3
      <3>5. QED
        BY <2>1, <2>3, <3>1, <3>4 DEF FlattenBody
    <2>4. QED
      BY <2>2, <2>3
  <1> HIDE DEF measure
  <1>3. PICK f : f = [v \in S |-> FlattenBody(f, v)]
    BY <1>1, <1>2, OfFlatten!FunctionExists
  <1>4. PICK g : g = [i \in 1 .. k |-> f[<<seqs, i>>]]
    OBVIOUS
  <1>5. \A i \in 1 .. k : g[i] = IF i = 1 THEN seqs[i] ELSE g[i - 1] \o seqs[i]
    <2> SUFFICES ASSUME NEW i \in 1 .. k PROVE g[i] = IF i = 1 THEN seqs[i] ELSE g[i - 1] \o seqs[i]
      OBVIOUS
    <2>1. PICK v : v = <<seqs, i>>
      OBVIOUS
    <2>2. g[i] = FlattenBody(f, v)
      BY <1>3, <1>4, <2>1
    <2>3. CASE i = 1
      BY <2>1, <2>2, <2>3 DEF FlattenBody
    <2>4. CASE i # 1
      <3>1. i - 1 \in 1 .. k
        BY <2>4
      <3>2. g[i - 1] = f[<<seqs, i - 1>>]
        BY <1>4, <3>1
      <3>3. QED
        BY <2>1, <2>2, <2>4, <3>2 DEF FlattenBody
    <2>5. QED
      BY <2>3, <2>4
  <1>6. g = [i \in 1 .. k |-> IF i = 1 THEN seqs[i] ELSE g[i - 1] \o seqs[i]]
    BY <1>4, <1>5
  <1> DEFINE flatten == CHOOSE e : e = [i \in 1 .. k |-> IF i = 1 THEN seqs[i] ELSE e[i - 1] \o seqs[i]]
  <1>7. flatten = [i \in 1 .. k |-> IF i = 1 THEN seqs[i] ELSE flatten[i - 1] \o seqs[i]]
    BY <1>6
  <1>8. FlattenSeq(seqs) = flatten[k]
    BY DEF FlattenSeq
  <1> HIDE DEF flatten
  <1>9. \A i \in 1 .. k : flatten[i] = IF i = 1 THEN seqs[i] ELSE flatten[i - 1] \o seqs[i]
    BY <1>7, Zenon
  <1>10. 1 \in 1 .. k /\ \A i \in 2 .. k : i \in 1 .. k /\ i # 1
    OBVIOUS
  <1>11. flatten[1] = seqs[1] /\ \A i \in 2 .. k : flatten[i] = flatten[i - 1] \o seqs[i]
    BY <1>9, <1>10, Zenon
  <1>12. QED
    BY <1>8, <1>11

LEMMA ContextsAre ==
  ASSUME NEW c, NEW t, IsText(t)
  PROVE  /\ Contexts(c, t)[0] = c
         /\ \A n \in 1 .. Len(t) : Contexts(c, t)[n] = Enter(Contexts(c, t)[n - 1], t[n])
  <1>0. PICK k \in Nat : k = Len(t)
    BY TextOf
  <1> DEFINE S       == {<<c, t, n>> : n \in 0 .. k}
             measure == [v \in S |-> v[3]]
  <1>1. measure \in [S -> Nat]
    OBVIOUS
  <1>2. OfContexts!Local(S, measure)
    <2> SUFFICES ASSUME NEW v \in S, NEW g, NEW h, \A w \in S : measure[w] < measure[v] => g[w] = h[w]
                 PROVE  ContextBody(g, v) = ContextBody(h, v)
      BY DEF OfContexts!Local, AnyValue
    <2>1. PICK n \in 0 .. k : v = <<c, t, n>>
      OBVIOUS
    <2>2. CASE n = 0
      BY <2>1, <2>2 DEF ContextBody
    <2>3. CASE n # 0
      <3>1. PICK w : w = <<c, t, n - 1>>
        OBVIOUS
      <3>2. w \in S /\ measure[w] = n - 1 /\ measure[v] = n
        BY <2>1, <2>3, <3>1
      <3> HIDE DEF S, measure
      <3>3. measure[w] < measure[v]
        BY <3>2
      <3>4. g[w] = h[w]
        BY <3>2, <3>3
      <3>5. QED
        BY <2>1, <2>3, <3>1, <3>4 DEF ContextBody
    <2>4. QED
      BY <2>2, <2>3
  <1> HIDE DEF measure
  <1>3. PICK f : f = [v \in S |-> ContextBody(f, v)]
    BY <1>1, <1>2, OfContexts!FunctionExists
  <1>4. PICK g : g = [n \in 0 .. k |-> f[<<c, t, n>>]]
    OBVIOUS
  <1>5. \A n \in 0 .. k : g[n] = IF n = 0 THEN c ELSE Enter(g[n - 1], t[n])
    <2> SUFFICES ASSUME NEW n \in 0 .. k PROVE g[n] = IF n = 0 THEN c ELSE Enter(g[n - 1], t[n])
      OBVIOUS
    <2>1. PICK v : v = <<c, t, n>>
      OBVIOUS
    <2>2. g[n] = ContextBody(f, v)
      BY <1>3, <1>4, <2>1
    <2>3. CASE n = 0
      BY <2>1, <2>2, <2>3 DEF ContextBody
    <2>4. CASE n # 0
      <3>1. n - 1 \in 0 .. k
        BY <2>4
      <3>2. g[n - 1] = f[<<c, t, n - 1>>]
        BY <1>4, <3>1
      <3>3. QED
        BY <2>1, <2>2, <2>4, <3>2 DEF ContextBody
    <2>5. QED
      BY <2>3, <2>4
  <1>6. g = [n \in 0 .. k |-> IF n = 0 THEN c ELSE Enter(g[n - 1], t[n])]
    BY <1>4, <1>5
  <1> DEFINE after == CHOOSE e : e = [n \in 0 .. k |-> IF n = 0 THEN c ELSE Enter(e[n - 1], t[n])]
  <1>7. after = [n \in 0 .. k |-> IF n = 0 THEN c ELSE Enter(after[n - 1], t[n])]
    BY <1>6
  <1>8. Contexts(c, t) = after
    BY <1>0 DEF Contexts
  <1> HIDE DEF after
  <1>9. after[0] = c /\ \A n \in 1 .. k : after[n] = Enter(after[n - 1], t[n])
    BY <1>7
  <1>10. QED
    BY <1>0, <1>8, <1>9

-----------------------------------------------------------------------------
(* What is read of a text depends on its parts.                              *)

Readings(c, t) == {[line |-> t[n], at |-> Contexts(c, t)[n - 1]] : n \in 1 .. Len(t)}
End(c, t)      == Contexts(c, t)[Len(t)]

\* The first k lines of t stand in u after line a, and are read in the same contexts.
Stand(t, k, u, a)          == \A n \in 1 .. k : u[a + n] = t[n]
SameContexts(c, t, k, d, u, a) == \A n \in 0 .. k : Contexts(d, u)[a + n] = Contexts(c, t)[n]

\* What has been read up to line n is told by those lines only.
LEMMA ContextsDetermined ==
  ASSUME NEW c, NEW t, IsText(t), NEW k \in Nat, k <= Len(t), NEW a \in Nat,
         NEW d, NEW u, IsText(u), a + k <= Len(u), Contexts(d, u)[a] = c,
         Stand(t, k, u, a)
  PROVE  SameContexts(c, t, k, d, u, a)
  <1> DEFINE T == {n \in Nat : n <= k => Contexts(d, u)[a + n] = Contexts(c, t)[n]}
  <1>0. Len(t) \in Nat /\ Len(u) \in Nat
    BY TextOf
  <1>1. 0 \in T
    BY ContextsAre
  <1>2. ASSUME NEW n \in Nat, n \in T PROVE n + 1 \in T
    <2> SUFFICES ASSUME n + 1 <= k PROVE Contexts(d, u)[a + (n + 1)] = Contexts(c, t)[n + 1]
      OBVIOUS
    <2>1. n + 1 \in 1 .. Len(t) /\ a + (n + 1) \in 1 .. Len(u) /\ n + 1 \in 1 .. k
      BY <1>0
    <2>2. (n + 1) - 1 = n /\ (a + (n + 1)) - 1 = a + n /\ n <= k
      OBVIOUS
    <2>3. Contexts(c, t)[n + 1] = Enter(Contexts(c, t)[n], t[n + 1])
      BY <2>1, <2>2, ContextsAre
    <2>4. Contexts(d, u)[a + (n + 1)] = Enter(Contexts(d, u)[a + n], u[a + (n + 1)])
      BY <2>1, <2>2, ContextsAre
    <2>5. Contexts(d, u)[a + n] = Contexts(c, t)[n]
      BY <1>2, <2>2
    <2>6. u[a + (n + 1)] = t[n + 1]
      BY <2>1 DEF Stand
    <2>7. QED
      BY <2>3, <2>4, <2>5, <2>6
  <1> HIDE DEF T
  <1>3. Nat \subseteq T
    BY <1>1, <1>2, OfContexts!SetInduction
  <1>4. QED
    BY <1>3 DEF T, SameContexts

LEMMA JoinReads ==
  ASSUME NEW c, NEW s, NEW t, IsText(s), IsText(t)
  PROVE  /\ Readings(c, s \o t) = Readings(c, s) \cup Readings(End(c, s), t)
         /\ End(c, s \o t) = End(End(c, s), t)
  <1>1. PICK u : u = s \o t
    OBVIOUS
  <1>2. PICK j, k \in Nat : j = Len(s) /\ k = Len(t)
    BY TextOf
  <1>3. /\ IsText(u) /\ Len(u) = j + k
        /\ \A n \in 1 .. j : u[n] = s[n]
        /\ \A n \in 1 .. k : u[j + n] = t[n]
    BY <1>1, <1>2, JoinIs
  <1>4. \A n \in 0 .. j : Contexts(c, u)[n] = Contexts(c, s)[n]
    <2>1. /\ 0 \in Nat /\ 0 + j <= Len(u) /\ j <= Len(s) /\ Contexts(c, u)[0] = c
          /\ Stand(s, j, u, 0)
      BY <1>2, <1>3, ContextsAre DEF Stand
    <2>2. SameContexts(c, s, j, c, u, 0)
      BY <1>2, <1>3, <2>1, ContextsDetermined
    <2>3. QED
      BY <2>2 DEF SameContexts
  <1>5. PICK e : e = End(c, s)
    OBVIOUS
  <1>6. \A n \in 0 .. k : Contexts(c, u)[j + n] = Contexts(e, t)[n]
    <2>1. Contexts(c, u)[j] = e
      BY <1>2, <1>4, <1>5 DEF End
    <2>2. k <= Len(t) /\ j + k <= Len(u) /\ Stand(t, k, u, j)
      BY <1>2, <1>3 DEF Stand
    <2>3. SameContexts(e, t, k, c, u, j)
      BY <1>3, <2>1, <2>2, ContextsDetermined
    <2>4. QED
      BY <2>3 DEF SameContexts
  <1>7. End(c, u) = End(e, t)
    BY <1>2, <1>3, <1>6 DEF End
  <1>8. ASSUME NEW r PROVE r \in Readings(c, u) <=> r \in Readings(c, s) \/ r \in Readings(e, t)
    <2>1. ASSUME NEW n \in 1 .. j + k, r = [line |-> u[n], at |-> Contexts(c, u)[n - 1]]
          PROVE  r \in Readings(c, s) \/ r \in Readings(e, t)
      <3>1. CASE n <= j
        <4>1. n \in 1 .. j /\ n - 1 \in 0 .. j
          BY <3>1
        <4>2. r = [line |-> s[n], at |-> Contexts(c, s)[n - 1]]
          BY <1>3, <1>4, <2>1, <4>1
        <4>3. QED
          BY <1>2, <4>1, <4>2 DEF Readings
      <3>2. CASE ~(n <= j)
        <4>1. PICK m \in 1 .. k : n = j + m
          <5>1. n - j \in 1 .. k /\ n = j + (n - j)
            BY <3>2
          <5>2. QED
            BY <5>1
        <4>2. m - 1 \in 0 .. k /\ n - 1 = j + (m - 1)
          BY <4>1
        <4>3. r = [line |-> t[m], at |-> Contexts(e, t)[m - 1]]
          BY <1>3, <1>6, <2>1, <4>1, <4>2
        <4>4. QED
          BY <1>2, <4>1, <4>3 DEF Readings
      <3>3. QED
        BY <3>1, <3>2
    <2>2. ASSUME NEW n \in 1 .. j, r = [line |-> s[n], at |-> Contexts(c, s)[n - 1]]
          PROVE  r \in Readings(c, u)
      <3>1. n \in 1 .. j + k /\ n - 1 \in 0 .. j
        OBVIOUS
      <3>2. r = [line |-> u[n], at |-> Contexts(c, u)[n - 1]]
        BY <1>3, <1>4, <2>2, <3>1
      <3>3. QED
        BY <1>3, <3>1, <3>2 DEF Readings
    <2>3. ASSUME NEW m \in 1 .. k, r = [line |-> t[m], at |-> Contexts(e, t)[m - 1]]
          PROVE  r \in Readings(c, u)
      <3>1. j + m \in 1 .. j + k /\ m - 1 \in 0 .. k /\ (j + m) - 1 = j + (m - 1)
        OBVIOUS
      <3>2. r = [line |-> u[j + m], at |-> Contexts(c, u)[(j + m) - 1]]
        BY <1>3, <1>6, <2>3, <3>1
      <3>3. QED
        BY <1>3, <3>1, <3>2 DEF Readings
    <2>4. QED
      BY <1>2, <1>3, <2>1, <2>2, <2>3 DEF Readings
  <1>9. QED
    BY <1>1, <1>5, <1>7, <1>8

LEMMA FewReads ==
  ASSUME NEW c
  PROVE  /\ Readings(c, << >>) = {} /\ End(c, << >>) = c
         /\ \A l : Readings(c, <<l>>) = {[line |-> l, at |-> c]} /\ End(c, <<l>>) = Enter(c, l)
  <1>1. Readings(c, << >>) = {} /\ End(c, << >>) = c
    <2>1. Contexts(c, << >>)[0] = c
      BY FewLines, ContextsAre
    <2>2. QED
      BY <2>1, FewLines DEF Readings, End
  <1>2. ASSUME NEW l
        PROVE  Readings(c, <<l>>) = {[line |-> l, at |-> c]} /\ End(c, <<l>>) = Enter(c, l)
    <2>1. PICK t : t = <<l>>
      OBVIOUS
    <2>2. IsText(t) /\ Len(t) = 1 /\ t[1] = l
      BY <2>1, FewLines
    <2>3. Contexts(c, t)[0] = c /\ Contexts(c, t)[1] = Enter(Contexts(c, t)[1 - 1], t[1]) /\ 1 - 1 = 0
      BY <2>2, ContextsAre
    <2>4. Readings(c, t) = {[line |-> l, at |-> c]}
      <3>1. 1 .. Len(t) = {1}
        BY <2>2
      <3>2. Readings(c, t) = {[line |-> t[n], at |-> Contexts(c, t)[n - 1]] : n \in {1}}
        BY <3>1 DEF Readings
      <3>3. QED
        BY <2>2, <2>3, <3>2
    <2>5. QED
      BY <2>1, <2>2, <2>3, <2>4 DEF End
  <1>3. QED
    BY <1>1, <1>2

Reading(l, c) == [line |-> l, at |-> c]

Joins(s, t, u) ==
  /\ IsText(u) /\ Len(u) = Len(s) + Len(t)
  /\ \A n \in 1 .. Len(s) : u[n] = s[n]
  /\ \A n \in 1 .. Len(t) : u[Len(s) + n] = t[n]

LEMMA JoinsIs == \A s, t : IsText(s) /\ IsText(t) => Joins(s, t, s \o t)
  <1> SUFFICES ASSUME NEW s, NEW t, IsText(s), IsText(t) PROVE Joins(s, t, s \o t)
    OBVIOUS
  <1>1. PICK u : u = s \o t
    OBVIOUS
  <1>2. QED
    BY <1>1, JoinIs DEF Joins

Rest(t, u) == IsText(t) /\ IsText(u) /\ Len(t) = Len(u) + 1 /\ \A n \in 1 .. Len(u) : t[n + 1] = u[n]

LEMMA HeadAndRest ==
  ASSUME NEW t, NEW u, Rest(t, u), NEW l, t[1] = l
  PROVE  t = <<l>> \o u
  <1>0. IsText(t) /\ IsText(u) /\ Len(t) = Len(u) + 1 /\ \A n \in 1 .. Len(u) : t[n + 1] = u[n]
    BY DEF Rest
  <1>1. PICK k \in Nat : k = Len(u)
    BY <1>0, TextOf
  <1>2. PICK h : h = <<l>>
    OBVIOUS
  <1>3. IsText(h) /\ Len(h) = 1 /\ h[1] = t[1]
    BY <1>2, FewLines
  <1>4. PICK v : v = h \o u
    OBVIOUS
  <1>5. IsText(v) /\ Len(v) = 1 + k /\ v[1] = h[1] /\ \A n \in 1 .. k : v[1 + n] = u[n]
    <2>1. Joins(h, u, v)
      BY <1>0, <1>3, <1>4, JoinsIs
    <2>2. QED
      BY <1>1, <1>3, <2>1 DEF Joins
  <1>6. \A n \in 1 .. k + 1 : v[n] = t[n]
    <2> SUFFICES ASSUME NEW n \in 1 .. k + 1 PROVE v[n] = t[n]
      OBVIOUS
    <2>1. CASE n = 1
      BY <1>3, <1>5, <2>1
    <2>2. CASE n # 1
      <3>1. n - 1 \in 1 .. k /\ (n - 1) + 1 = n /\ 1 + (n - 1) = n
        BY <2>2
      <3>2. t[(n - 1) + 1] = u[n - 1] /\ v[1 + (n - 1)] = u[n - 1]
        BY <1>0, <1>1, <1>5, <3>1
      <3>3. QED
        BY <3>1, <3>2
    <2>3. QED
      BY <2>1, <2>2
  <1>7. 1 + k = k + 1 /\ Len(t) = k + 1
    BY <1>0, <1>1
  <1>8. t = [n \in 1 .. k + 1 |-> t[n]] /\ v = [n \in 1 .. k + 1 |-> v[n]]
    BY <1>0, <1>5, <1>7, TextOf
  <1>9. QED
    BY <1>2, <1>4, <1>6, <1>8

\* A text of which line l is the first, and u the rest, read in context d.
Headed(d, t, l, u) ==
  /\ IsText(t) /\ IsText(u)
  /\ Readings(d, t) = {Reading(l, d)} \cup Readings(Enter(d, l), u)
  /\ End(d, t) = End(Enter(d, l), u)

LEMMA HeadReads == \A d, l, u : IsText(u) => Headed(d, <<l>> \o u, l, u)
  <1> SUFFICES ASSUME NEW d, NEW l, NEW u, IsText(u) PROVE Headed(d, <<l>> \o u, l, u)
    OBVIOUS
  <1>1. PICK h, t : h = <<l>> /\ t = h \o u
    OBVIOUS
  <1>2. IsText(h) /\ Readings(d, h) = {[line |-> l, at |-> d]} /\ End(d, h) = Enter(d, l)
    BY <1>1, FewLines, FewReads
  <1>3. IsText(t)
    BY <1>1, <1>2, JoinsIs DEF Joins
  <1>4. Readings(d, t) = Readings(d, h) \cup Readings(End(d, h), u) /\ End(d, t) = End(End(d, h), u)
    BY <1>1, <1>2, JoinReads
  <1>5. QED
    BY <1>1, <1>2, <1>3, <1>4 DEF Headed, Reading

LEMMA HeadedIs == \A t, u, l : Rest(t, u) /\ t[1] = l => \A d : Headed(d, t, l, u)
  <1> SUFFICES ASSUME NEW t, NEW u, Rest(t, u), NEW d PROVE Headed(d, t, t[1], u)
    OBVIOUS
  <1>1. PICK l : l = t[1]
    OBVIOUS
  <1>2. IsText(u)
    BY DEF Rest
  <1>3. PICK v : v = <<l>> \o u
    OBVIOUS
  <1>4. t = v
    BY <1>1, <1>3, HeadAndRest
  <1>5. Headed(d, v, l, u)
    BY <1>2, <1>3, HeadReads
  <1>6. QED
    BY <1>1, <1>4, <1>5

LEMMA LiteralReads ==
  ASSUME NEW x, NEW y, NEW z, NEW v, NEW w, NEW d
  PROVE  /\ Headed(d, <<x, y, z, v, w>>, x, <<y, z, v, w>>) /\ Headed(d, <<y, z, v, w>>, y, <<z, v, w>>)
         /\ Headed(d, <<z, v, w>>, z, <<v, w>>) /\ Headed(d, <<v, w>>, v, <<w>>)
  <1>1. PICK t1, t2, t3, t4, t5 : /\ t1 = <<w>> /\ t2 = <<v, w>> /\ t3 = <<z, v, w>>
                                  /\ t4 = <<y, z, v, w>> /\ t5 = <<x, y, z, v, w>>
    OBVIOUS
  <1>2. t1 \in Seq({w}) /\ Len(t1) = 1 /\ t1[1] = w
    BY <1>1
  <1>3. t2 \in Seq({v, w}) /\ Len(t2) = 2 /\ t2[1] = v /\ t2[2] = w
    BY <1>1
  <1>4. t3 \in Seq({z, v, w}) /\ Len(t3) = 3 /\ t3[1] = z /\ t3[2] = v /\ t3[3] = w
    BY <1>1
  <1>5. t4 \in Seq({y, z, v, w}) /\ Len(t4) = 4 /\ t4[1] = y /\ t4[2] = z /\ t4[3] = v /\ t4[4] = w
    BY <1>1
  <1>6. t5 \in Seq({x, y, z, v, w}) /\ Len(t5) = 5 /\ t5[1] = x /\ t5[2] = y /\ t5[3] = z /\ t5[4] = v /\ t5[5] = w
    BY <1>1
  <1>7. IsText(t1) /\ IsText(t2) /\ IsText(t3) /\ IsText(t4) /\ IsText(t5)
    BY <1>2, <1>3, <1>4, <1>5, <1>6, Zenon DEF IsText
  <1>8. Rest(t2, t1)
    BY <1>2, <1>3, <1>7 DEF Rest
  <1>9. Rest(t3, t2)
    BY <1>3, <1>4, <1>7 DEF Rest
  <1>10. Rest(t4, t3)
    BY <1>4, <1>5, <1>7 DEF Rest
  <1>11. Rest(t5, t4)
    BY <1>5, <1>6, <1>7 DEF Rest
  <1>12. Headed(d, t5, x, t4) /\ Headed(d, t4, y, t3) /\ Headed(d, t3, z, t2) /\ Headed(d, t2, v, t1)
    BY <1>3, <1>4, <1>5, <1>6, <1>8, <1>9, <1>10, <1>11, HeadedIs, Zenon
  <1>13. QED
    BY <1>1, <1>12, Zenon

-----------------------------------------------------------------------------
(* A line leaves alone what stands above it: a scope is what the contexts    *)
(* have in common in which a part of the text may be read.                   *)

Context(section, entry, block, dep) == [section |-> section, entry |-> entry, block |-> block, dep |-> dep]

LEMMA EnterIs ==
  ASSUME NEW a, NEW b, NEW d, NEW e, NEW l
  PROVE  /\ l.indent = 0 => Enter(Context(a, b, d, e), l) = Context(l.key, None, None, None)
         /\ l.indent = 2 => Enter(Context(a, b, d, e), l) = Context(a, l.key, None, None)
         /\ l.indent = 4 => Enter(Context(a, b, d, e), l) = Context(a, b, l.key, None)
         /\ l.indent = 6 => Enter(Context(a, b, d, e), l) = Context(a, b, d, l.key)
         /\ l.indent \notin {0, 2, 4, 6} => Enter(Context(a, b, d, e), l) = Context(a, b, d, e)
  <1>1. PICK c, k, n : c = Context(a, b, d, e) /\ k = l.key /\ n = None
    OBVIOUS
  <1>2. CASE l.indent = 0
    <2>1. PICK s : s = Start
      OBVIOUS
    <2>2. s = Context(n, n, n, n)
      BY <1>1, <2>1 DEF Start, Context
    <2>3. Enter(c, l) = [s EXCEPT !.section = k]
      BY <1>1, <1>2, <2>1 DEF Enter
    <2>4. [s EXCEPT !.section = k] = Context(k, n, n, n)
      BY <2>2 DEF Context
    <2>5. QED
      BY <1>1, <1>2, <2>3, <2>4
  <1>3. CASE l.indent = 2
    <2>1. Enter(c, l) = [c EXCEPT !.entry = k, !.block = n, !.dep = n]
      BY <1>1, <1>3 DEF Enter
    <2>2. Enter(c, l) = [[[c EXCEPT !.entry = k] EXCEPT !.block = n] EXCEPT !.dep = n]
      BY <2>1
    <2>3. PICK c1 : c1 = [c EXCEPT !.entry = k]
      OBVIOUS
    <2>4. c1 = Context(a, k, d, e)
      BY <1>1, <2>3 DEF Context
    <2>5. PICK c2 : c2 = [c1 EXCEPT !.block = n]
      OBVIOUS
    <2>6. c2 = Context(a, k, n, e)
      BY <2>4, <2>5 DEF Context
    <2>7. [c2 EXCEPT !.dep = n] = Context(a, k, n, n)
      BY <2>6 DEF Context
    <2>8. QED
      BY <1>1, <1>3, <2>2, <2>3, <2>5, <2>7
  <1>4. CASE l.indent = 4
    <2>1. Enter(c, l) = [c EXCEPT !.block = k, !.dep = n]
      BY <1>1, <1>4 DEF Enter
    <2>2. Enter(c, l) = [[c EXCEPT !.block = k] EXCEPT !.dep = n]
      BY <2>1
    <2>3. PICK c1 : c1 = [c EXCEPT !.block = k]
      OBVIOUS
    <2>4. c1 = Context(a, b, k, e)
      BY <1>1, <2>3 DEF Context
    <2>5. [c1 EXCEPT !.dep = n] = Context(a, b, k, n)
      BY <2>4 DEF Context
    <2>6. QED
      BY <1>1, <1>4, <2>2, <2>3, <2>5
  <1>6. CASE l.indent = 6
    <2>1. Enter(c, l) = [c EXCEPT !.dep = k]
      BY <1>1, <1>6 DEF Enter
    <2>2. [c EXCEPT !.dep = k] = Context(a, b, d, k)
      BY <1>1 DEF Context
    <2>3. QED
      BY <1>1, <1>6, <2>1, <2>2
  <1>7. CASE l.indent \notin {0, 2, 4, 6}
    BY <1>7 DEF Enter
  <1>8. QED
    BY <1>2, <1>3, <1>4, <1>6, <1>7

Scopes == {2, 4, 6}

Inside(c, scope) ==
  /\ c = Context(c.section, c.entry, c.block, c.dep)
  /\ c.section = scope.section
  /\ scope.depth >= 4 => c.entry = scope.entry
  /\ scope.depth >= 6 => c.block = scope.block

\* Lines that stand at a depth or below it.
Below(t, depth) == \A n \in 1 .. Len(t) : t[n].indent \in Nat /\ t[n].indent >= depth

LEMMA EnterKeeps ==
  ASSUME NEW scope, scope.depth \in Scopes, NEW c, Inside(c, scope),
         NEW l, l.indent \in Nat, l.indent >= scope.depth
  PROVE  Inside(Enter(c, l), scope)
  <1>1. PICK a, b, d, e : c = Context(a, b, d, e)
    BY DEF Inside
  <1>2. c.section = a /\ c.entry = b /\ c.block = d /\ c.dep = e
    BY <1>1 DEF Context
  <1>3. /\ l.indent # 0 /\ (scope.depth >= 4 => l.indent # 2) /\ (scope.depth >= 6 => l.indent # 4)
        /\ 4 # 2 /\ 6 # 2 /\ 6 # 4
    BY DEF Scopes
  <1>4. ASSUME NEW a1, NEW b1, NEW d1, NEW e1, a1 = scope.section,
               scope.depth >= 4 => b1 = scope.entry, scope.depth >= 6 => d1 = scope.block
        PROVE  Inside(Context(a1, b1, d1, e1), scope)
    BY <1>4 DEF Inside, Context
  <1>5. a = scope.section /\ (scope.depth >= 4 => b = scope.entry) /\ (scope.depth >= 6 => d = scope.block)
    BY <1>2 DEF Inside
  <1>6. scope.depth >= 6 => scope.depth >= 4
    BY DEF Scopes
  <1>7. CASE l.indent = 2
    <2>1. Enter(c, l) = Context(a, l.key, None, None)
      BY <1>1, <1>7, EnterIs
    <2>2. QED
      BY <1>3, <1>4, <1>5, <1>6, <1>7, <2>1, Zenon
  <1>8. CASE l.indent = 4
    <2>1. Enter(c, l) = Context(a, b, l.key, None)
      BY <1>1, <1>8, EnterIs
    <2>2. QED
      BY <1>3, <1>4, <1>5, <1>8, <2>1, Zenon
  <1>9. CASE l.indent = 6
    <2>1. Enter(c, l) = Context(a, b, d, l.key)
      BY <1>1, <1>9, EnterIs
    <2>2. QED
      BY <1>4, <1>5, <2>1, Zenon
  <1>10. CASE l.indent \notin {2, 4, 6}
    BY <1>1, <1>3, <1>10, EnterIs
  <1>11. QED
    BY <1>7, <1>8, <1>9, <1>10

LEMMA Kept ==
  ASSUME NEW scope, scope.depth \in Scopes, NEW c, Inside(c, scope),
         NEW t, IsText(t), Below(t, scope.depth)
  PROVE  /\ Inside(End(c, t), scope)
         /\ \A r \in Readings(c, t) : Inside(r.at, scope) /\ \E n \in 1 .. Len(t) : r.line = t[n]
  <1> DEFINE T == {n \in Nat : n <= Len(t) => Inside(Contexts(c, t)[n], scope)}
  <1>0. Len(t) \in Nat
    BY TextOf
  <1>1. 0 \in T
    BY ContextsAre
  <1>2. ASSUME NEW n \in Nat, n \in T PROVE n + 1 \in T
    <2> SUFFICES ASSUME n + 1 <= Len(t) PROVE Inside(Contexts(c, t)[n + 1], scope)
      OBVIOUS
    <2>1. n + 1 \in 1 .. Len(t) /\ (n + 1) - 1 = n /\ n <= Len(t)
      BY <1>0
    <2>2. Contexts(c, t)[n + 1] = Enter(Contexts(c, t)[n], t[n + 1])
      BY <2>1, ContextsAre
    <2>3. Inside(Contexts(c, t)[n], scope)
      BY <1>2, <2>1
    <2>4. t[n + 1].indent \in Nat /\ t[n + 1].indent >= scope.depth
      BY <2>1 DEF Below
    <2>5. QED
      BY <2>2, <2>3, <2>4, EnterKeeps
  <1> HIDE DEF T
  <1>3. Nat \subseteq T
    BY <1>1, <1>2, OfContexts!SetInduction
  <1>4. \A n \in 0 .. Len(t) : Inside(Contexts(c, t)[n], scope)
    BY <1>0, <1>3 DEF T
  <1>5. Inside(End(c, t), scope)
    BY <1>0, <1>4 DEF End
  <1>6. ASSUME NEW r \in Readings(c, t)
        PROVE  Inside(r.at, scope) /\ \E n \in 1 .. Len(t) : r.line = t[n]
    <2>1. PICK n \in 1 .. Len(t) : r = [line |-> t[n], at |-> Contexts(c, t)[n - 1]]
      BY DEF Readings
    <2>2. n - 1 \in 0 .. Len(t)
      BY <1>0
    <2>3. QED
      BY <1>4, <2>1, <2>2
  <1>7. QED
    BY <1>5, <1>6

LEMMA BelowJoin ==
  ASSUME NEW depth, NEW s, NEW t, IsText(s), IsText(t), Below(s, depth), Below(t, depth)
  PROVE  IsText(s \o t) /\ Below(s \o t, depth)
  <1>1. PICK j, k \in Nat : j = Len(s) /\ k = Len(t)
    BY TextOf
  <1>2. PICK u : u = s \o t
    OBVIOUS
  <1>3. /\ IsText(u) /\ Len(u) = j + k
        /\ \A n \in 1 .. j : u[n] = s[n]
        /\ \A n \in 1 .. k : u[j + n] = t[n]
    BY <1>1, <1>2, JoinIs
  <1>4. ASSUME NEW n \in 1 .. j + k PROVE u[n].indent \in Nat /\ u[n].indent >= depth
    <2>1. CASE n <= j
      BY <1>1, <1>3, <2>1 DEF Below
    <2>2. CASE ~(n <= j)
      <3>1. n - j \in 1 .. k /\ n = j + (n - j)
        BY <2>2
      <3>2. u[n] = t[n - j]
        BY <1>3, <3>1
      <3>3. QED
        BY <1>1, <3>1, <3>2 DEF Below
    <2>3. QED
      BY <2>1, <2>2
  <1>5. QED
    BY <1>2, <1>3, <1>4 DEF Below

Deep(l, depth) == l.indent \in Nat /\ l.indent >= depth

LEMMA BelowLiteral ==
  ASSUME NEW depth, NEW x, Deep(x, depth), NEW y, Deep(y, depth), NEW z, Deep(z, depth),
         NEW v, Deep(v, depth), NEW w, Deep(w, depth)
  PROVE  /\ Below(<< >>, depth) /\ Below(<<x>>, depth) /\ Below(<<x, y>>, depth)
         /\ Below(<<x, y, z>>, depth) /\ Below(<<x, y, z, v, w>>, depth)
  <1>1. Below(<< >>, depth)
    BY FewLines DEF Below
  <1>2. Below(<<x>>, depth)
    BY DEF Below, Deep
  <1>3. Below(<<x, y>>, depth)
    BY DEF Below, Deep
  <1>4. Below(<<x, y, z>>, depth)
    BY DEF Below, Deep
  <1>5. Below(<<x, y, z, v, w>>, depth)
    BY DEF Below, Deep
  <1>6. QED
    BY <1>1, <1>2, <1>3, <1>4, <1>5

LEMMA Nonempty == EmptyMap # << >>
  <1>1. \A s : <<s>> # << >>
    OBVIOUS
  <1>2. QED
    BY <1>1, Zenon DEF EmptyMap

Scope(depth, section, entry, block) ==
  [depth |-> depth, section |-> section, entry |-> entry, block |-> block]

\* Where line l leaves a context of some scope.
LEMMA EnterInside ==
  ASSUME NEW section, NEW entry, NEW block, NEW d, NEW e, NEW b, NEW c, NEW l
  PROVE  /\ Inside(c, Scope(2, section, d, e)) /\ l.indent = 2
              => Inside(Enter(c, l), Scope(4, section, l.key, e))
         /\ Inside(c, Scope(4, section, entry, e)) /\ l.indent = 4
              => Inside(Enter(c, l), Scope(6, section, entry, l.key))
         /\ Inside(c, Scope(6, section, entry, block)) /\ l.indent = 6
              => Inside(Enter(c, l), Scope(6, section, entry, block)) /\ Enter(c, l).dep = l.key
  <1>1. CASE Inside(c, Scope(2, section, d, e)) /\ l.indent = 2
    <2>1. PICK c2, c3, c4 : c = Context(section, c2, c3, c4)
      BY <1>1 DEF Inside, Scope
    <2>2. Enter(c, l) = Context(section, l.key, None, None)
      BY <1>1, <2>1, EnterIs
    <2>3. QED
      BY <1>1, <2>2 DEF Inside, Scope, Context
  <1>2. CASE Inside(c, Scope(4, section, entry, e)) /\ l.indent = 4
    <2>1. PICK c3, c4 : c = Context(section, entry, c3, c4)
      BY <1>2 DEF Inside, Scope
    <2>2. Enter(c, l) = Context(section, entry, l.key, None)
      BY <1>2, <2>1, EnterIs
    <2>3. QED
      BY <1>2, <2>2 DEF Inside, Scope, Context
  <1>3. CASE Inside(c, Scope(6, section, entry, block)) /\ l.indent = 6
    <2>1. PICK c4 : c = Context(section, entry, block, c4)
      BY <1>3 DEF Inside, Scope
    <2>2. Enter(c, l) = Context(section, entry, block, l.key)
      BY <1>3, <2>1, EnterIs
    <2>3. QED
      BY <1>3, <2>2 DEF Inside, Scope, Context
  <1>4. QED
    BY <1>1, <1>2, <1>3

-----------------------------------------------------------------------------
(* What each reader takes from a line in its context.                        *)

Packaged(r, x) ==
  \/ r.line.indent = 2 /\ r.line.val = EmptyMap /\ x = <<r.line.key, {}>>
  \/ r.line.indent = 4 /\ r.line.key = <<"resolution">> /\ x = <<r.at.entry, ToSet(r.line.val)>>

Resolved(r, x) ==
  /\ r.line.indent = 6 /\ r.at.block \in {<<"dependencies">>, <<"optionalDependencies">>}
  /\ x = <<r.at.entry, r.line.key \o r.line.val>>

Marked(r, x) ==
  r.line.indent = 4 /\ r.line.key = <<"optional">> /\ x = stripPeerSuffix(r.at.entry)

AskedFor(r, x) ==
  /\ r.line.indent = 8 /\ r.line.key = <<"version">> /\ r.line.val # Link
  /\ r.at.block \in {<<Blocks[b]>> : b \in DOMAIN Blocks}
  /\ x = <<r.at.entry[1], r.at.dep \o r.line.val>>

Taken(reader, r, x) ==
  \/ reader = 1 /\ Packaged(r, x)
  \/ reader = 2 /\ Resolved(r, x)
  \/ reader = 3 /\ Marked(r, x)
  \/ reader = 4 /\ AskedFor(r, x)

Told(reader, readings, x) == \E r \in readings : Taken(reader, r, x)

\* A part of the text tells a reader the things of a set, wherever it stands in
\* a scope.
Tells(t, scope, reader, X) ==
  /\ IsText(t) /\ Below(t, scope.depth)
  /\ \A c : Inside(c, scope) => \A x : Told(reader, Readings(c, t), x) <=> x \in X

LEMMA NothingTells ==
  ASSUME NEW scope, NEW reader
  PROVE  Tells(<< >>, scope, reader, {})
  <1>1. \A c : Readings(c, << >>) = {}
    BY FewReads
  <1>2. Below(<< >>, scope.depth)
    BY FewLines DEF Below
  <1>3. QED
    BY <1>1, <1>2, FewLines DEF Tells, Told

LEMMA JoinTells ==
  ASSUME NEW scope, scope.depth \in Scopes, NEW reader, NEW s, NEW t, NEW X, NEW Y,
         Tells(s, scope, reader, X), Tells(t, scope, reader, Y)
  PROVE  Tells(s \o t, scope, reader, X \cup Y)
  <1>1. IsText(s) /\ IsText(t) /\ Below(s, scope.depth) /\ Below(t, scope.depth)
    BY DEF Tells
  <1>2. IsText(s \o t) /\ Below(s \o t, scope.depth)
    BY <1>1, BelowJoin
  <1>3. ASSUME NEW c, Inside(c, scope), NEW x
        PROVE  Told(reader, Readings(c, s \o t), x) <=> x \in X \cup Y
    <2>1. PICK e, A, B, C : /\ e = End(c, s) /\ A = Readings(c, s) /\ B = Readings(e, t)
                            /\ C = Readings(c, s \o t)
      OBVIOUS
    <2>2. C = A \cup B
      BY <1>1, <2>1, JoinReads
    <2>3. Inside(e, scope)
      BY <1>1, <1>3, <2>1, Kept
    <2>4. Told(reader, A, x) <=> x \in X
      BY <1>3, <2>1 DEF Tells
    <2>5. Told(reader, B, x) <=> x \in Y
      BY <2>1, <2>3 DEF Tells
    <2>6. Told(reader, C, x) <=> Told(reader, A, x) \/ Told(reader, B, x)
      BY <2>2 DEF Told
    <2>7. QED
      BY <2>1, <2>4, <2>5, <2>6
  <1>4. QED
    BY <1>2, <1>3 DEF Tells

\* All that is told by the parts of a text.
Union(X, parts) == UNION {X[i] : i \in parts}

LEMMA FlattenTells ==
  ASSUME NEW scope, scope.depth \in Scopes, NEW reader, NEW seqs, IsText(seqs), NEW X,
         \A i \in 1 .. Len(seqs) : Tells(seqs[i], scope, reader, X[i])
  PROVE  Tells(FlattenSeq(seqs), scope, reader, Union(X, 1 .. Len(seqs)))
  <1>1. PICK k \in Nat : k = Len(seqs)
    BY TextOf
  <1>2. CASE k = 0
    <2>1. seqs = << >>
      <3>1. seqs = [n \in 1 .. k |-> seqs[n]]
        BY <1>1, TextOf
      <3>2. seqs \in Seq({seqs[i] : i \in 1 .. k})
        BY <3>1
      <3>3. QED
        BY <1>1, <1>2, <3>2
    <2>2. FlattenSeq(seqs) = << >>
      BY <1>1, <1>2, <2>1 DEF FlattenSeq
    <2>3. Union(X, 1 .. Len(seqs)) = {}
      BY <1>1, <1>2 DEF Union
    <2>4. QED
      BY <2>2, <2>3, NothingTells
  <1>3. CASE k # 0
    <2>1. PICK f : /\ FlattenSeq(seqs) = f[k] /\ f[1] = seqs[1]
                   /\ \A i \in 2 .. k : f[i] = f[i - 1] \o seqs[i]
      BY <1>1, <1>3, FlattenIs
    <2> DEFINE told(n) == Union(X, 1 .. n)
               T       == {n \in Nat : n < k => Tells(f[n + 1], scope, reader, told(n + 1))}
    <2>2. 0 \in T
      <3>1. 1 \in 1 .. k /\ 0 + 1 = 1 /\ told(1) = X[1]
        BY <1>3 DEF Union
      <3>2. Tells(seqs[1], scope, reader, X[1])
        BY <1>1, <3>1
      <3> HIDE DEF told
      <3>3. QED
        BY <2>1, <3>1, <3>2
    <2>3. ASSUME NEW n \in Nat, n \in T PROVE n + 1 \in T
      <3> SUFFICES ASSUME n + 1 < k PROVE Tells(f[(n + 1) + 1], scope, reader, told((n + 1) + 1))
        OBVIOUS
      <3>1. PICK m, j : m = (n + 1) + 1 /\ j = n + 1
        OBVIOUS
      <3>2. m \in 2 .. k /\ m - 1 = j /\ m \in 1 .. k /\ n < k
        BY <3>1
      <3>3. told(m) = told(j) \cup X[m]
        BY <3>1 DEF Union
      <3>4. f[m] = f[j] \o seqs[m]
        BY <2>1, <3>2
      <3>5. Tells(f[j], scope, reader, told(j))
        BY <2>3, <3>1, <3>2
      <3>6. Tells(seqs[m], scope, reader, X[m])
        BY <1>1, <3>2
      <3> HIDE DEF told
      <3>7. Tells(f[j] \o seqs[m], scope, reader, told(j) \cup X[m])
        BY <3>5, <3>6, JoinTells
      <3>8. QED
        BY <3>1, <3>3, <3>4, <3>7
    <2> HIDE DEF T, told
    <2>4. Nat \subseteq T
      BY <2>2, <2>3, OfContexts!SetInduction
    <2>5. k - 1 \in Nat /\ k - 1 < k /\ (k - 1) + 1 = k
      BY <1>3
    <2>6. Tells(f[k], scope, reader, told(k))
      BY <2>4, <2>5 DEF T
    <2>7. QED
      BY <1>1, <2>1, <2>6 DEF told
  <1>4. QED
    BY <1>2, <1>3

LEMMA LinesTell ==
  ASSUME NEW scope, scope.depth \in Scopes, NEW reader, NEW things, IsFiniteSet(things), NEW lines, NEW X,
         \A x \in things : Tells(lines[x], scope, reader, X[x])
  PROVE  Tells(LinesOf(things, lines), scope, reader, Union(X, things))
  <1>1. PICK all : all = SetToSeq(things)
    OBVIOUS
  <1>2. all \in Seq(things) /\ ToSet(all) = things
    BY <1>1, SeqOfSet
  <1>3. PICK k \in Nat : k = Len(all) /\ DOMAIN all = 1 .. k
    BY <1>2
  <1>4. PICK seqs, Y : seqs = [n \in 1 .. k |-> lines[all[n]]] /\ Y = [n \in 1 .. k |-> X[all[n]]]
    OBVIOUS
  <1>5. /\ \A n \in 1 .. k : all[n] \in things
        /\ \A x \in things : \E n \in 1 .. k : all[n] = x
    BY <1>2, <1>3 DEF ToSet
  <1>6. IsText(seqs) /\ Len(seqs) = k
    <2>1. seqs \in Seq({lines[x] : x \in things}) /\ Len(seqs) = k
      BY <1>4, <1>5
    <2>2. QED
      BY <2>1 DEF IsText
  <1>7. LinesOf(things, lines) = FlattenSeq(seqs)
    BY <1>1, <1>3, <1>4 DEF LinesOf
  <1>8. \A n \in 1 .. k : seqs[n] = lines[all[n]] /\ Y[n] = X[all[n]]
    BY <1>4
  <1>9. \A n \in 1 .. Len(seqs) : Tells(seqs[n], scope, reader, Y[n])
    BY <1>5, <1>6, <1>8
  <1>10. Tells(FlattenSeq(seqs), scope, reader, Union(Y, 1 .. Len(seqs)))
    BY <1>6, <1>9, FlattenTells
  <1>11. Union(Y, 1 .. Len(seqs)) = Union(X, things)
    <2>1. \A n \in 1 .. k : Y[n] \in {X[x] : x \in things}
      BY <1>5, <1>8
    <2>2. \A x \in things : X[x] \in {Y[n] : n \in 1 .. k}
      BY <1>5, <1>8
    <2>3. {Y[n] : n \in 1 .. k} = {X[x] : x \in things}
      BY <2>1, <2>2
    <2>4. QED
      BY <1>6, <2>3 DEF Union
  <1>12. QED
    BY <1>7, <1>10, <1>11

LEMMA ReadersDiffer ==
  \A r, x : /\ Taken(1, r, x) <=> Packaged(r, x)
            /\ Taken(2, r, x) <=> Resolved(r, x)
            /\ Taken(3, r, x) <=> Marked(r, x)
            /\ Taken(4, r, x) <=> AskedFor(r, x)
  BY DEF Taken

\* A line of which a reader takes nothing, before the lines of its entry or
\* block.
LEMMA HeadTells ==
  ASSUME NEW section, NEW entry, NEW d, NEW e, NEW l, NEW u, NEW reader, NEW X,
         \A c, x : ~Taken(reader, Reading(l, c), x)
  PROVE  /\ l.indent = 2 /\ Tells(u, Scope(4, section, l.key, e), reader, X)
              => Tells(<<l>> \o u, Scope(2, section, d, e), reader, X)
         /\ l.indent = 4 /\ Tells(u, Scope(6, section, entry, l.key), reader, X)
              => Tells(<<l>> \o u, Scope(4, section, entry, e), reader, X)
  <1>1. PICK t : t = <<l>> \o u
    OBVIOUS
  <1>2. ASSUME IsText(u), NEW c, NEW x
        PROVE  Told(reader, Readings(c, t), x) <=> Told(reader, Readings(Enter(c, l), u), x)
    <2>1. Readings(c, t) = {Reading(l, c)} \cup Readings(Enter(c, l), u)
      BY <1>1, <1>2, HeadReads DEF Headed
    <2>2. QED
      BY <2>1 DEF Told
  <1>3. ASSUME NEW depth \in {2, 4}, l.indent = depth, IsText(u), Below(u, depth + 2)
        PROVE  IsText(t) /\ Below(t, depth)
    <2>1. Below(<<l>>, depth)
      <3>1. Deep(l, depth)
        BY <1>3 DEF Deep
      <3>2. QED
        BY <3>1, BelowLiteral, Zenon
    <2>2. Below(u, depth)
      BY <1>3 DEF Below
    <2>3. IsText(<<l>>)
      BY FewLines, Zenon
    <2>4. PICK h : h = <<l>>
      OBVIOUS
    <2>5. QED
      BY <1>1, <1>3, <2>1, <2>2, <2>3, <2>4, BelowJoin
  <1>4. CASE l.indent = 2 /\ Tells(u, Scope(4, section, l.key, e), reader, X)
    <2>1. IsText(u) /\ Below(u, 2 + 2)
      BY <1>4 DEF Tells, Scope
    <2>2. IsText(t) /\ Below(t, 2)
      BY <1>3, <1>4, <2>1
    <2>3. ASSUME NEW c, Inside(c, Scope(2, section, d, e)), NEW x
          PROVE  Told(reader, Readings(c, t), x) <=> x \in X
      <3>1. Inside(Enter(c, l), Scope(4, section, l.key, e))
        BY <1>4, <2>3, EnterInside
      <3>2. Told(reader, Readings(Enter(c, l), u), x) <=> x \in X
        BY <1>4, <3>1 DEF Tells
      <3>3. QED
        BY <1>2, <2>1, <3>2
    <2>4. Scope(2, section, d, e).depth = 2
      BY DEF Scope
    <2>5. QED
      BY <1>1, <2>2, <2>3, <2>4, <1>4 DEF Tells
  <1>5. CASE l.indent = 4 /\ Tells(u, Scope(6, section, entry, l.key), reader, X)
    <2>1. IsText(u) /\ Below(u, 4 + 2)
      BY <1>5 DEF Tells, Scope
    <2>2. IsText(t) /\ Below(t, 4)
      BY <1>3, <1>5, <2>1
    <2>3. ASSUME NEW c, Inside(c, Scope(4, section, entry, e)), NEW x
          PROVE  Told(reader, Readings(c, t), x) <=> x \in X
      <3>1. Inside(Enter(c, l), Scope(6, section, entry, l.key))
        BY <1>5, <2>3, EnterInside
      <3>2. Told(reader, Readings(Enter(c, l), u), x) <=> x \in X
        BY <1>5, <3>1 DEF Tells
      <3>3. QED
        BY <1>2, <2>1, <3>2
    <2>4. Scope(4, section, entry, e).depth = 4
      BY DEF Scope
    <2>5. QED
      BY <1>1, <2>2, <2>3, <2>4, <1>5 DEF Tells
  <1>6. QED
    BY <1>1, <1>4, <1>5

LEMMA PackageTells ==
  ASSUME NEW p, NEW e, NEW f, NEW scope, scope = Scope(2, <<"packages">>, e, f)
  PROVE  Tells(PackageLines(p), scope, 1, {<<p.key, ToSet(p.resolution)>>})
  <1>0. scope.depth = 2
    BY DEF Scope
  <1>1. CASE p.resolution = << >>
    <2>1. PICK l : l = Line(2, p.key, EmptyMap)
      OBVIOUS
    <2>2. l.indent = 2 /\ l.key = p.key /\ l.val = EmptyMap
      BY <2>1 DEF Line
    <2>3. PackageLines(p) = <<l>>
      BY <1>1, <2>1 DEF PackageLines
    <2>4. IsText(<<l>>) /\ Below(<<l>>, 2)
      <3>1. Deep(l, 2)
        BY <2>2 DEF Deep
      <3>2. QED
        BY <3>1, FewLines, BelowLiteral, Zenon
    <2>5. ASSUME NEW c, NEW x
          PROVE  Told(1, Readings(c, <<l>>), x) <=> x \in {<<p.key, ToSet(p.resolution)>>}
      <3>1. Readings(c, <<l>>) = {Reading(l, c)}
        BY FewReads, Zenon DEF Reading
      <3>2. Told(1, Readings(c, <<l>>), x) <=> Packaged(Reading(l, c), x)
        BY <3>1, ReadersDiffer DEF Told
      <3>3. ToSet(p.resolution) = {}
        BY <1>1 DEF ToSet
      <3>4. QED
        BY <2>2, <3>2, <3>3 DEF Packaged, Reading
    <2>6. QED
      BY <1>0, <2>3, <2>4, <2>5 DEF Tells
  <1>2. CASE p.resolution # << >>
    <2>1. PICK l1, l2, l3, l4, l5 :
            /\ l1 = Line(2, p.key, << >>) /\ l2 = Line(4, <<"resolution">>, p.resolution)
            /\ l3 = Line(4, <<"engines">>, <<"node">>)
            /\ l4 = Line(4, <<"peerDependencies">>, << >>) /\ l5 = Line(6, <<"peer">>, <<"any">>)
      OBVIOUS
    <2>2. /\ l1.indent = 2 /\ l1.key = p.key /\ l1.val = << >>
          /\ l2.indent = 4 /\ l2.key = <<"resolution">> /\ l2.val = p.resolution
          /\ l3.indent = 4 /\ l3.key = <<"engines">> /\ l4.indent = 4 /\ l4.key = <<"peerDependencies">>
          /\ l5.indent = 6
      BY <2>1 DEF Line
    <2>3. PackageLines(p) = <<l1, l2, l3, l4, l5>>
      BY <1>2, <2>1 DEF PackageLines
    <2>4. IsText(<<l1, l2, l3, l4, l5>>)
      BY LiteralReads, Zenon DEF Headed
    <2>5. Below(<<l1, l2, l3, l4, l5>>, 2)
      <3>1. Deep(l1, 2) /\ Deep(l2, 2) /\ Deep(l3, 2) /\ Deep(l4, 2) /\ Deep(l5, 2)
        BY <2>2 DEF Deep
      <3>2. QED
        BY <3>1, BelowLiteral, Zenon
    <2>6. ASSUME NEW c, Inside(c, scope), NEW x
          PROVE  Told(1, Readings(c, PackageLines(p)), x) <=> x \in {<<p.key, ToSet(p.resolution)>>}
      <3>1. PICK c1, c2, c3, c4 : c1 = Enter(c, l1) /\ c2 = Enter(c1, l2) /\ c3 = Enter(c2, l3) /\ c4 = Enter(c3, l4)
        OBVIOUS
      <3>2. PICK t1, t2, t3, t4, t5 :
              /\ t1 = <<l1, l2, l3, l4, l5>> /\ t2 = <<l2, l3, l4, l5>> /\ t3 = <<l3, l4, l5>>
              /\ t4 = <<l4, l5>> /\ t5 = <<l5>>
        OBVIOUS
      <3>3. Headed(c, t1, l1, t2) /\ Headed(c1, t2, l2, t3) /\ Headed(c2, t3, l3, t4) /\ Headed(c3, t4, l4, t5)
        BY <3>2, LiteralReads, Zenon
      <3>4. Readings(c4, t5) = {Reading(l5, c4)}
        BY <3>2, FewReads, Zenon DEF Reading
      <3>5. Readings(c, t1) = {Reading(l1, c), Reading(l2, c1), Reading(l3, c2), Reading(l4, c3), Reading(l5, c4)}
        <4>1. Readings(c3, t4) = {Reading(l4, c3), Reading(l5, c4)}
          BY <3>1, <3>3, <3>4 DEF Headed
        <4>2. Readings(c2, t3) = {Reading(l3, c2), Reading(l4, c3), Reading(l5, c4)}
          BY <3>1, <3>3, <4>1 DEF Headed
        <4>3. Readings(c1, t2) = {Reading(l2, c1), Reading(l3, c2), Reading(l4, c3), Reading(l5, c4)}
          BY <3>1, <3>3, <4>2 DEF Headed
        <4>4. QED
          BY <3>1, <3>3, <4>3 DEF Headed
      <3>6. Told(1, Readings(c, t1), x) <=> \/ Packaged(Reading(l1, c), x) \/ Packaged(Reading(l2, c1), x)
                                            \/ Packaged(Reading(l3, c2), x) \/ Packaged(Reading(l4, c3), x)
                                            \/ Packaged(Reading(l5, c4), x)
        BY <3>5, ReadersDiffer DEF Told
      <3>7. ~Packaged(Reading(l1, c), x)
        BY <2>2, Nonempty DEF Packaged, Reading
      <3>8. ~Packaged(Reading(l3, c2), x)
        BY <2>2 DEF Packaged, Reading
      <3>9. ~Packaged(Reading(l4, c3), x)
        BY <2>2 DEF Packaged, Reading
      <3>10. ~Packaged(Reading(l5, c4), x)
        BY <2>2 DEF Packaged, Reading
      <3>11. c1.entry = p.key
        <4>1. Inside(c1, Scope(4, <<"packages">>, p.key, f))
          BY <2>2, <2>6, <3>1, EnterInside
        <4>2. QED
          BY <4>1 DEF Inside, Scope
      <3>12. Packaged(Reading(l2, c1), x) <=> x = <<p.key, ToSet(p.resolution)>>
        BY <2>2, <3>11 DEF Packaged, Reading
      <3>13. QED
        BY <2>3, <3>2, <3>6, <3>7, <3>8, <3>9, <3>10, <3>12
    <2>7. QED
      BY <1>0, <2>3, <2>4, <2>5, <2>6 DEF Tells
  <1>3. QED
    BY <1>1, <1>2

LEMMA OneTells ==
  ASSUME NEW scope, NEW reader, NEW X, NEW l, l.indent \in Nat, l.indent >= scope.depth,
         \A c, x : Inside(c, scope) => (Taken(reader, Reading(l, c), x) <=> x \in X)
  PROVE  Tells(<<l>>, scope, reader, X)
  <1>1. PICK t : t = <<l>>
    OBVIOUS
  <1>2. IsText(t) /\ \A c : Readings(c, t) = {Reading(l, c)}
    BY <1>1, FewLines, FewReads DEF Reading
  <1>3. Below(t, scope.depth)
    <2>1. Deep(l, scope.depth)
      BY DEF Deep
    <2>2. QED
      BY <1>1, <2>1, BelowLiteral, Zenon
  <1>4. ASSUME NEW c, Inside(c, scope), NEW x PROVE Told(reader, Readings(c, t), x) <=> x \in X
    BY <1>2, <1>4 DEF Told
  <1>5. QED
    BY <1>1, <1>2, <1>3, <1>4 DEF Tells

LEMMA PairIs == \A x, y : <<x, y>> = <<x>> \o <<y>>
  <1> SUFFICES ASSUME NEW x, NEW y PROVE <<x, y>> = <<x>> \o <<y>>
    OBVIOUS
  <1>1. PICK t, u : t = <<x, y>> /\ u = <<y>>
    OBVIOUS
  <1>2. t \in Seq({x, y}) /\ Len(t) = 2 /\ t[1] = x /\ t[2] = y
    BY <1>1
  <1>3. u \in Seq({y}) /\ Len(u) = 1 /\ u[1] = y
    BY <1>1
  <1>4. IsText(t) /\ IsText(u)
    BY <1>2, <1>3, Zenon DEF IsText
  <1>5. Rest(t, u)
    BY <1>2, <1>3, <1>4 DEF Rest
  <1>6. t = <<x>> \o u
    BY <1>2, <1>5, HeadAndRest
  <1>7. QED
    BY <1>1, <1>6, Zenon

LEMMA TripleIs == \A x, y, z : <<x, y, z>> = <<x>> \o <<y, z>>
  <1> SUFFICES ASSUME NEW x, NEW y, NEW z PROVE <<x, y, z>> = <<x>> \o <<y, z>>
    OBVIOUS
  <1>1. PICK t, u : t = <<x, y, z>> /\ u = <<y, z>>
    OBVIOUS
  <1>2. t \in Seq({x, y, z}) /\ Len(t) = 3 /\ t[1] = x /\ t[2] = y /\ t[3] = z
    BY <1>1
  <1>3. u \in Seq({y, z}) /\ Len(u) = 2 /\ u[1] = y /\ u[2] = z
    BY <1>1
  <1>4. IsText(t) /\ IsText(u)
    BY <1>2, <1>3, Zenon DEF IsText
  <1>5. Rest(t, u)
    BY <1>2, <1>3, <1>4 DEF Rest
  <1>6. t = <<x>> \o u
    BY <1>2, <1>5, HeadAndRest
  <1>7. QED
    BY <1>1, <1>6, Zenon

\* A key of three parts, put together by the reader.
Triple(k) == k = <<k[1], k[2], k[3]>>

LEMMA DependencyTells ==
  ASSUME NEW block \in {"dependencies", "optionalDependencies"},
         NEW keys, IsFiniteSet(keys), \A k \in keys : Triple(k),
         NEW entry, NEW e, NEW scope, scope = Scope(4, <<"snapshots">>, entry, e)
  PROVE  /\ Tells(DependencyLines(block, keys), scope, 2, {<<entry, k>> : k \in keys})
         /\ Tells(DependencyLines(block, keys), scope, 3, {})
  <1>1. CASE keys = {}
    <2>1. DependencyLines(block, keys) = << >>
      BY <1>1 DEF DependencyLines
    <2>2. {<<entry, k>> : k \in keys} = {}
      BY <1>1
    <2>3. QED
      BY <2>1, <2>2, NothingTells
  <1>2. CASE keys # {}
    <2>1. PICK l, lines, u : /\ l = Line(4, <<block>>, << >>)
                             /\ lines = [k \in keys |-> <<Line(6, <<k[1]>>, <<k[2], k[3]>>)>>]
                             /\ u = LinesOf(keys, lines)
      OBVIOUS
    <2>2. DependencyLines(block, keys) = <<l>> \o u
      BY <1>2, <2>1 DEF DependencyLines
    <2>3. l.indent = 4 /\ l.key = <<block>>
      BY <2>1 DEF Line
    <2>4. PICK inner : inner = Scope(6, <<"snapshots">>, entry, <<block>>)
      OBVIOUS
    <2>5. inner.depth = 6 /\ inner.depth \in Scopes
      BY <2>4 DEF Scope, Scopes
    <2>6. ASSUME NEW k \in keys
          PROVE  Tells(lines[k], inner, 2, {<<entry, k>>}) /\ Tells(lines[k], inner, 3, {})
      <3>1. PICK m : m = Line(6, <<k[1]>>, <<k[2], k[3]>>)
        OBVIOUS
      <3>2. lines[k] = <<m>>
        BY <2>1, <3>1
      <3>3. m.indent = 6 /\ m.key = <<k[1]>> /\ m.val = <<k[2], k[3]>>
        BY <3>1 DEF Line
      <3>4. m.key \o m.val = k
        <4>1. PICK a, b, d : a = k[1] /\ b = k[2] /\ d = k[3]
          OBVIOUS
        <4>2. k = <<a, b, d>>
          BY <4>1 DEF Triple
        <4>3. <<a>> \o <<b, d>> = <<a, b, d>>
          BY TripleIs, Zenon
        <4>4. m.key \o m.val = <<a>> \o <<b, d>>
          BY <3>3, <4>1
        <4>5. QED
          BY <4>2, <4>3, <4>4
      <3>5. ASSUME NEW c, Inside(c, inner), NEW x
            PROVE  /\ Taken(2, Reading(m, c), x) <=> x \in {<<entry, k>>}
                   /\ Taken(3, Reading(m, c), x) <=> x \in {}
        <4>1. c.entry = entry /\ c.block = <<block>>
          BY <2>4, <3>5 DEF Inside, Scope
        <4>2. Resolved(Reading(m, c), x) <=> x = <<entry, k>>
          BY <3>3, <3>4, <4>1 DEF Resolved, Reading
        <4>3. ~Marked(Reading(m, c), x)
          BY <3>3 DEF Marked, Reading
        <4>4. QED
          BY <4>2, <4>3, ReadersDiffer
      <3>6. QED
        BY <2>5, <3>2, <3>3, <3>5, OneTells
    <2>7. Tells(u, inner, 2, {<<entry, k>> : k \in keys})
      <3>1. PICK X : X = [k \in keys |-> {<<entry, k>>}]
        OBVIOUS
      <3>2. \A k \in keys : Tells(lines[k], inner, 2, X[k])
        BY <2>6, <3>1
      <3>3. Tells(u, inner, 2, Union(X, keys))
        BY <2>1, <2>5, <3>2, LinesTell
      <3>4. Union(X, keys) = {<<entry, k>> : k \in keys}
        BY <3>1 DEF Union
      <3>5. QED
        BY <3>3, <3>4
    <2>8. Tells(u, inner, 3, {})
      <3>1. PICK X : X = [k \in keys |-> {}]
        OBVIOUS
      <3>2. \A k \in keys : Tells(lines[k], inner, 3, X[k])
        BY <2>6, <3>1
      <3>3. Tells(u, inner, 3, Union(X, keys))
        BY <2>1, <2>5, <3>2, LinesTell
      <3>4. Union(X, keys) = {}
        BY <3>1 DEF Union
      <3>5. QED
        BY <3>3, <3>4
    <2>9. ASSUME NEW c, NEW x
          PROVE  ~Taken(2, Reading(l, c), x) /\ ~Taken(3, Reading(l, c), x)
      <3>0. block # "optional"
        OBVIOUS
      <3>1. ~Resolved(Reading(l, c), x)
        <4>1. Reading(l, c).line.indent = 4 /\ 4 # 6
          BY <2>3 DEF Reading
        <4>2. QED
          BY <4>1 DEF Resolved
      <3>2. ~Marked(Reading(l, c), x)
        BY <2>3, <3>0 DEF Marked, Reading
      <3>3. QED
        BY <3>1, <3>2, ReadersDiffer
    <2>10. QED
      BY <2>2, <2>3, <2>4, <2>7, <2>8, <2>9, HeadTells
  <1>3. QED
    BY <1>1, <1>2

\* Lines that the readers of the snapshots take nothing from.
LEMMA NotDependency ==
  ASSUME NEW l, l.indent # 6, l.indent = 4 => l.key # <<"optional">>
  PROVE  \A c, x : ~Taken(2, Reading(l, c), x) /\ ~Taken(3, Reading(l, c), x)
  <1> SUFFICES ASSUME NEW c, NEW x PROVE ~Resolved(Reading(l, c), x) /\ ~Marked(Reading(l, c), x)
    BY ReadersDiffer
  <1>1. Reading(l, c).line = l
    BY DEF Reading
  <1>2. ~Resolved(Reading(l, c), x)
    BY <1>1 DEF Resolved
  <1>3. ~Marked(Reading(l, c), x)
    BY <1>1 DEF Marked
  <1>4. QED
    BY <1>2, <1>3

LEMMA MarkTells ==
  ASSUME NEW s, NEW e, NEW scope, scope = Scope(4, <<"snapshots">>, s.key, e),
         NEW t, t = (IF s.optional THEN <<Line(4, <<"optional">>, <<"true">>)>> ELSE << >>)
  PROVE  /\ Tells(t, scope, 2, {})
         /\ Tells(t, scope, 3, {x \in {stripPeerSuffix(s.key)} : s.optional})
  <1>1. CASE ~s.optional
    <2>1. {x \in {stripPeerSuffix(s.key)} : s.optional} = {} /\ t = << >>
      BY <1>1
    <2>2. QED
      BY <2>1, NothingTells
  <1>2. CASE s.optional
    <2>1. PICK l : l = Line(4, <<"optional">>, <<"true">>)
      OBVIOUS
    <2>2. t = <<l>> /\ {x \in {stripPeerSuffix(s.key)} : s.optional} = {stripPeerSuffix(s.key)}
      BY <1>2, <2>1
    <2>3. l.indent = 4 /\ l.key = <<"optional">>
      BY <2>1 DEF Line
    <2>4. scope.depth = 4
      BY DEF Scope
    <2>5. ASSUME NEW c, Inside(c, scope), NEW x
          PROVE  /\ Taken(2, Reading(l, c), x) <=> x \in {}
                 /\ Taken(3, Reading(l, c), x) <=> x \in {stripPeerSuffix(s.key)}
      <3>1. c.entry = s.key
        BY <2>5 DEF Inside, Scope
      <3>2. Reading(l, c).line = l /\ Reading(l, c).at = c
        BY DEF Reading
      <3>3. ~Resolved(Reading(l, c), x)
        <4>1. Reading(l, c).line.indent = 4 /\ 4 # 6
          BY <2>3, <3>2
        <4>2. QED
          BY <4>1 DEF Resolved
      <3>4. Marked(Reading(l, c), x) <=> x = stripPeerSuffix(s.key)
        BY <2>3, <3>1, <3>2 DEF Marked
      <3>5. QED
        BY <3>3, <3>4, ReadersDiffer
    <2>6. QED
      BY <2>2, <2>3, <2>4, <2>5, OneTells
  <1>3. QED
    BY <1>1, <1>2

\* The other block of a snapshot, which has keys like a dependency's.
LEMMA PeersTell ==
  ASSUME NEW entry, NEW e, NEW scope, scope = Scope(4, <<"snapshots">>, entry, e),
         NEW t, t = <<Line(4, <<"transitivePeerDependencies">>, << >>), Line(6, <<"peer">>, <<"any">>)>>
  PROVE  Tells(t, scope, 2, {}) /\ Tells(t, scope, 3, {})
  <1>1. PICK block : block = "transitivePeerDependencies"
    OBVIOUS
  <1>2. PICK l, m : l = Line(4, <<block>>, << >>) /\ m = Line(6, <<"peer">>, <<"any">>)
    OBVIOUS
  <1>3. t = <<l>> \o <<m>>
    BY <1>1, <1>2, PairIs, Zenon
  <1>4. l.indent = 4 /\ l.key = <<block>> /\ m.indent = 6
    BY <1>2 DEF Line
  <1>5. PICK inner : inner = Scope(6, <<"snapshots">>, entry, <<block>>)
    OBVIOUS
  <1>6. inner.depth = 6
    BY <1>5 DEF Scope
  <1>7. ASSUME NEW c, Inside(c, inner), NEW x
        PROVE  (Taken(2, Reading(m, c), x) <=> x \in {}) /\ (Taken(3, Reading(m, c), x) <=> x \in {})
    <2>1. c.block = <<block>>
      BY <1>5, <1>7 DEF Inside, Scope
    <2>2. <<block>> # <<"dependencies">> /\ <<block>> # <<"optionalDependencies">>
      BY <1>1
    <2>3. Reading(m, c).line = m /\ Reading(m, c).at = c
      BY DEF Reading
    <2>4. ~Resolved(Reading(m, c), x)
      BY <2>1, <2>2, <2>3 DEF Resolved
    <2>5. ~Marked(Reading(m, c), x)
      BY <1>4, <2>3 DEF Marked
    <2>6. QED
      BY <2>4, <2>5, ReadersDiffer
  <1>8. Tells(<<m>>, inner, 2, {}) /\ Tells(<<m>>, inner, 3, {})
    BY <1>4, <1>6, <1>7, OneTells
  <1>9. \A c, x : ~Taken(2, Reading(l, c), x) /\ ~Taken(3, Reading(l, c), x)
    <2>1. l.key # <<"optional">>
      BY <1>1, <1>4
    <2>2. QED
      BY <1>4, <2>1, NotDependency
  <1>10. QED
    BY <1>3, <1>4, <1>5, <1>8, <1>9, HeadTells

LEMMA SnapshotTells ==
  ASSUME NEW s, IsFiniteSet(s.dependencies), IsFiniteSet(s.optionalDependencies),
         \A k \in s.dependencies \cup s.optionalDependencies : Triple(k),
         NEW e, NEW f, NEW scope, scope = Scope(2, <<"snapshots">>, e, f)
  PROVE  /\ Tells(SnapshotLines(s), scope, 2, {<<s.key, k>> : k \in s.dependencies \cup s.optionalDependencies})
         /\ Tells(SnapshotLines(s), scope, 3, {x \in {stripPeerSuffix(s.key)} : s.optional})
  <1>0. scope.depth = 2
    BY DEF Scope
  <1>1. CASE s.dependencies = {} /\ s.optionalDependencies = {} /\ ~s.optional
    <2>1. PICK l : l = Line(2, s.key, EmptyMap)
      OBVIOUS
    <2>2. SnapshotLines(s) = <<l>>
      BY <1>1, <2>1 DEF SnapshotLines
    <2>3. l.indent = 2
      BY <2>1 DEF Line
    <2>4. \A c, x : ~Taken(2, Reading(l, c), x) /\ ~Taken(3, Reading(l, c), x)
      BY <2>3, NotDependency
    <2>5. Tells(<<l>>, scope, 2, {}) /\ Tells(<<l>>, scope, 3, {})
      BY <1>0, <2>3, <2>4, OneTells
    <2>6. /\ {<<s.key, k>> : k \in s.dependencies \cup s.optionalDependencies} = {}
          /\ {x \in {stripPeerSuffix(s.key)} : s.optional} = {}
      BY <1>1
    <2>7. QED
      BY <2>2, <2>5, <2>6
  <1>2. CASE ~(s.dependencies = {} /\ s.optionalDependencies = {} /\ ~s.optional)
    <2>1. PICK l, d1, d2, t3, t4 :
            /\ l = Line(2, s.key, << >>)
            /\ d1 = DependencyLines("dependencies", s.dependencies)
            /\ d2 = DependencyLines("optionalDependencies", s.optionalDependencies)
            /\ t3 = (IF s.optional THEN <<Line(4, <<"optional">>, <<"true">>)>> ELSE << >>)
            /\ t4 = <<Line(4, <<"transitivePeerDependencies">>, << >>), Line(6, <<"peer">>, <<"any">>)>>
      OBVIOUS
    <2>2. PICK u : u = ((d1 \o d2) \o t3) \o t4
      OBVIOUS
    <2>3. SnapshotLines(s) = <<l>> \o u
      BY <1>2, <2>1, <2>2 DEF SnapshotLines
    <2>4. l.indent = 2 /\ l.key = s.key
      BY <2>1 DEF Line
    <2>5. PICK inner : inner = Scope(4, <<"snapshots">>, s.key, f)
      OBVIOUS
    <2>6. inner.depth \in Scopes
      BY <2>5 DEF Scope, Scopes
    <2>7. PICK X1, X2, X3 : /\ X1 = {<<s.key, k>> : k \in s.dependencies}
                            /\ X2 = {<<s.key, k>> : k \in s.optionalDependencies}
                            /\ X3 = {x \in {stripPeerSuffix(s.key)} : s.optional}
      OBVIOUS
    <2>8. Tells(d1, inner, 2, X1) /\ Tells(d1, inner, 3, {})
      <3>1. IsFiniteSet(s.dependencies) /\ \A k \in s.dependencies : Triple(k)
        OBVIOUS
      <3>2. inner = Scope(4, <<"snapshots">>, s.key, f)
        BY <2>5
      <3>3. /\ Tells(DependencyLines("dependencies", s.dependencies), inner, 2, {<<s.key, k>> : k \in s.dependencies})
            /\ Tells(DependencyLines("dependencies", s.dependencies), inner, 3, {})
        BY <3>1, <3>2, DependencyTells
      <3>4. QED
        BY <2>1, <2>7, <3>3
    <2>9. Tells(d2, inner, 2, X2) /\ Tells(d2, inner, 3, {})
      <3>1. IsFiniteSet(s.optionalDependencies) /\ \A k \in s.optionalDependencies : Triple(k)
        OBVIOUS
      <3>2. inner = Scope(4, <<"snapshots">>, s.key, f)
        BY <2>5
      <3>3. /\ Tells(DependencyLines("optionalDependencies", s.optionalDependencies), inner, 2, {<<s.key, k>> : k \in s.optionalDependencies})
            /\ Tells(DependencyLines("optionalDependencies", s.optionalDependencies), inner, 3, {})
        BY <3>1, <3>2, DependencyTells
      <3>4. QED
        BY <2>1, <2>7, <3>3
    <2>10. Tells(t3, inner, 2, {}) /\ Tells(t3, inner, 3, X3)
      BY <2>1, <2>5, <2>7, MarkTells
    <2>11. Tells(t4, inner, 2, {}) /\ Tells(t4, inner, 3, {})
      BY <2>1, <2>5, PeersTell
    <2>12. Tells(u, inner, 2, ((X1 \cup X2) \cup {}) \cup {})
      BY <2>2, <2>6, <2>8, <2>9, <2>10, <2>11, JoinTells
    <2>13. Tells(u, inner, 3, (({} \cup {}) \cup X3) \cup {})
      BY <2>2, <2>6, <2>8, <2>9, <2>10, <2>11, JoinTells
    <2>14. Tells(u, inner, 2, X1 \cup X2) /\ Tells(u, inner, 3, X3)
      BY <2>12, <2>13
    <2>15. \A c, x : ~Taken(2, Reading(l, c), x) /\ ~Taken(3, Reading(l, c), x)
      BY <2>4, NotDependency
    <2>16. Tells(<<l>> \o u, scope, 2, X1 \cup X2) /\ Tells(<<l>> \o u, scope, 3, X3)
      BY <2>4, <2>5, <2>14, <2>15, HeadTells
    <2>17. X1 \cup X2 = {<<s.key, k>> : k \in s.dependencies \cup s.optionalDependencies}
      BY <2>7
    <2>18. QED
      BY <2>3, <2>7, <2>16, <2>17
  <1>3. QED
    BY <1>1, <1>2

\* What parseLockfileImporterDeps reads of one request.
Request(i) == {x \in {<<i.path, <<i.dep>> \o i.version>>} : i.version # Link}

LEMMA RequestTells ==
  ASSUME NEW i, NEW block \in 1 .. 3, NEW scope, scope = Scope(6, <<"importers">>, <<i.path>>, <<Blocks[block]>>)
  PROVE  Tells(RequestLines(i), scope, 4, Request(i))
  <1>0. scope.depth = 6
    BY DEF Scope
  <1>1. PICK l1, l2, l3 : /\ l1 = Line(6, <<i.dep>>, << >>) /\ l2 = Line(8, <<"specifier">>, <<"any">>)
                          /\ l3 = Line(8, <<"version">>, i.version)
    OBVIOUS
  <1>2. PICK t1, t2, t3 : t1 = <<l1, l2, l3>> /\ t2 = <<l2, l3>> /\ t3 = <<l3>>
    OBVIOUS
  <1>3. RequestLines(i) = t1
    BY <1>1, <1>2 DEF RequestLines
  <1>4. /\ l1.indent = 6 /\ l1.key = <<i.dep>> /\ l2.indent = 8 /\ l2.key = <<"specifier">>
        /\ l3.indent = 8 /\ l3.key = <<"version">> /\ l3.val = i.version
    BY <1>1 DEF Line
  <1>5. Below(t1, 6)
    <2>1. Deep(l1, 6) /\ Deep(l2, 6) /\ Deep(l3, 6)
      BY <1>4 DEF Deep
    <2>2. QED
      BY <1>2, <2>1, BelowLiteral, Zenon
  <1>6. ASSUME NEW c, Inside(c, scope), NEW x
        PROVE  Told(4, Readings(c, t1), x) <=> x \in Request(i)
    <2>1. PICK c1, c2 : c1 = Enter(c, l1) /\ c2 = Enter(c1, l2)
      OBVIOUS
    <2>2. Headed(c, t1, l1, t2) /\ Headed(c1, t2, l2, t3)
      BY <1>2, LiteralReads, Zenon
    <2>3. Readings(c2, t3) = {Reading(l3, c2)}
      BY <1>2, FewReads, Zenon DEF Reading
    <2>4. Readings(c, t1) = {Reading(l1, c), Reading(l2, c1), Reading(l3, c2)}
      BY <2>1, <2>2, <2>3 DEF Headed
    <2>5. Told(4, Readings(c, t1), x) <=> \/ AskedFor(Reading(l1, c), x) \/ AskedFor(Reading(l2, c1), x)
                                          \/ AskedFor(Reading(l3, c2), x)
      BY <2>4, ReadersDiffer DEF Told
    <2>6. ~AskedFor(Reading(l1, c), x)
      <3>1. Reading(l1, c).line.indent = 6 /\ 6 # 8
        BY <1>4 DEF Reading
      <3>2. QED
        BY <3>1 DEF AskedFor
    <2>7. ~AskedFor(Reading(l2, c1), x)
      <3>1. Reading(l2, c1).line.key = <<"specifier">> /\ <<"specifier">> # <<"version">>
        BY <1>4 DEF Reading
      <3>2. QED
        BY <3>1 DEF AskedFor
    <2>8. PICK d : d = Context(<<"importers">>, <<i.path>>, <<Blocks[block]>>, <<i.dep>>)
      OBVIOUS
    <2>9. c1 = d
      <3>1. PICK e : c = Context(<<"importers">>, <<i.path>>, <<Blocks[block]>>, e)
        BY <1>6 DEF Inside, Scope
      <3>2. QED
        BY <1>4, <2>1, <2>8, <3>1, EnterIs
    <2>10. c2 = d
      BY <1>4, <2>1, <2>8, <2>9, EnterIs
    <2>11. /\ c2.entry = <<i.path>> /\ c2.dep = <<i.dep>> /\ c2.block = <<Blocks[block]>>
      BY <2>8, <2>10 DEF Context
    <2>12. Reading(l3, c2).line = l3 /\ Reading(l3, c2).at = c2
      BY DEF Reading
    <2>13. c2.block \in {<<Blocks[b]>> : b \in DOMAIN Blocks} /\ c2.entry[1] = i.path
      <3>1. DOMAIN Blocks = 1 .. 3
        BY DEF Blocks
      <3>2. QED
        BY <2>11, <3>1
    <2>14. AskedFor(Reading(l3, c2), x) <=> i.version # Link /\ x = <<i.path, <<i.dep>> \o i.version>>
      BY <1>4, <2>11, <2>12, <2>13 DEF AskedFor
    <2>15. QED
      BY <2>5, <2>6, <2>7, <2>14 DEF Request
  <1>7. IsText(t1)
    BY <1>2, LiteralReads, Zenon DEF Headed
  <1>8. QED
    BY <1>0, <1>3, <1>5, <1>6, <1>7 DEF Tells

LEMMA BlockTells ==
  ASSUME NEW yaml, IsFiniteSet(yaml.importers), NEW path, NEW b \in 1 .. 3,
         NEW e, NEW scope, scope = Scope(4, <<"importers">>, <<path>>, e)
  PROVE  Tells(BlockLines(yaml, path, Blocks[b]), scope, 4, UNION {Request(i) : i \in Requested(yaml, path, Blocks[b])})
  <1>1. PICK requested : requested = Requested(yaml, path, Blocks[b])
    OBVIOUS
  <1>2. /\ IsFiniteSet(requested)
        /\ \A i \in requested : i.path = path /\ i.block = Blocks[b]
    BY <1>1, FS_Subset DEF Requested
  <1>3. CASE requested = {}
    <2>1. BlockLines(yaml, path, Blocks[b]) = << >>
      BY <1>1, <1>3 DEF BlockLines
    <2>2. UNION {Request(i) : i \in requested} = {}
      BY <1>3
    <2>3. QED
      BY <1>1, <2>1, <2>2, NothingTells
  <1>4. CASE requested # {}
    <2>1. PICK l, lines, u : /\ l = Line(4, <<Blocks[b]>>, << >>)
                             /\ lines = [i \in requested |-> RequestLines(i)]
                             /\ u = LinesOf(requested, lines)
      OBVIOUS
    <2>2. BlockLines(yaml, path, Blocks[b]) = <<l>> \o u
      BY <1>1, <1>4, <2>1 DEF BlockLines
    <2>3. l.indent = 4 /\ l.key = <<Blocks[b]>>
      BY <2>1 DEF Line
    <2>4. PICK inner : inner = Scope(6, <<"importers">>, <<path>>, <<Blocks[b]>>)
      OBVIOUS
    <2>5. inner.depth \in Scopes
      BY <2>4 DEF Scope, Scopes
    <2>6. PICK X : X = [i \in requested |-> Request(i)]
      OBVIOUS
    <2>7. \A i \in requested : Tells(lines[i], inner, 4, X[i])
      <3> SUFFICES ASSUME NEW i \in requested PROVE Tells(lines[i], inner, 4, X[i])
        OBVIOUS
      <3>1. lines[i] = RequestLines(i) /\ X[i] = Request(i)
        BY <2>1, <2>6
      <3>2. inner = Scope(6, <<"importers">>, <<i.path>>, <<Blocks[b]>>)
        BY <1>2, <2>4
      <3>3. QED
        BY <3>1, <3>2, RequestTells
    <2>8. Tells(u, inner, 4, Union(X, requested))
      BY <1>2, <2>1, <2>5, <2>7, LinesTell
    <2>9. Union(X, requested) = UNION {Request(i) : i \in requested}
      BY <2>6 DEF Union
    <2>10. \A c, x : ~Taken(4, Reading(l, c), x)
      <3> SUFFICES ASSUME NEW c, NEW x PROVE ~AskedFor(Reading(l, c), x)
        BY ReadersDiffer
      <3>1. Reading(l, c).line.indent = 4 /\ 4 # 8
        BY <2>3 DEF Reading
      <3>2. QED
        BY <3>1 DEF AskedFor
    <2>11. Tells(<<l>> \o u, scope, 4, Union(X, requested))
      BY <2>3, <2>4, <2>8, <2>10, HeadTells
    <2>12. QED
      BY <1>1, <2>2, <2>9, <2>11
  <1>5. QED
    BY <1>3, <1>4

LEMMA WorkspaceTells ==
  ASSUME NEW yaml, IsFiniteSet(yaml.importers), NEW path,
         \A i \in yaml.importers : \E b \in 1 .. 3 : i.block = Blocks[b],
         NEW e, NEW f, NEW scope, scope = Scope(2, <<"importers">>, e, f)
  PROVE  Tells(WorkspaceLines(yaml, path), scope, 4, UNION {Request(i) : i \in {j \in yaml.importers : j.path = path}})
  <1>1. PICK l, seqs, X : /\ l = Line(2, <<path>>, << >>)
                          /\ seqs = [b \in 1 .. 3 |-> BlockLines(yaml, path, Blocks[b])]
                          /\ X = [b \in 1 .. 3 |-> UNION {Request(i) : i \in Requested(yaml, path, Blocks[b])}]
    OBVIOUS
  <1>2. l.indent = 2 /\ l.key = <<path>>
    BY <1>1 DEF Line
  <1>3. PICK inner : inner = Scope(4, <<"importers">>, <<path>>, f)
    OBVIOUS
  <1>4. inner.depth \in Scopes
    BY <1>3 DEF Scope, Scopes
  <1>5. IsText(seqs) /\ Len(seqs) = 3
    <2>1. seqs \in Seq({seqs[b] : b \in 1 .. 3}) /\ Len(seqs) = 3
      BY <1>1
    <2>2. QED
      BY <2>1 DEF IsText
  <1>6. \A b \in 1 .. Len(seqs) : Tells(seqs[b], inner, 4, X[b])
    <2> SUFFICES ASSUME NEW b \in 1 .. 3 PROVE Tells(seqs[b], inner, 4, X[b])
      BY <1>5
    <2>1. seqs[b] = BlockLines(yaml, path, Blocks[b]) /\ X[b] = UNION {Request(i) : i \in Requested(yaml, path, Blocks[b])}
      BY <1>1
    <2>2. Tells(BlockLines(yaml, path, Blocks[b]), inner, 4, UNION {Request(i) : i \in Requested(yaml, path, Blocks[b])})
      BY <1>3, BlockTells
    <2>3. QED
      BY <2>1, <2>2
  <1>7. Tells(FlattenSeq(seqs), inner, 4, Union(X, 1 .. Len(seqs)))
    BY <1>4, <1>5, <1>6, FlattenTells
  <1>8. PICK u : u = FlattenSeq(seqs)
    OBVIOUS
  <1>9. Union(X, 1 .. Len(seqs)) = UNION {Request(i) : i \in {j \in yaml.importers : j.path = path}}
    <2>1. Union(X, 1 .. Len(seqs)) = UNION {X[b] : b \in 1 .. 3}
      BY <1>5 DEF Union
    <2>2. \A b \in 1 .. 3 : X[b] = UNION {Request(i) : i \in Requested(yaml, path, Blocks[b])}
      BY <1>1
    <2>3. \A i \in yaml.importers : i.path = path <=> \E b \in 1 .. 3 : i \in Requested(yaml, path, Blocks[b])
      BY DEF Requested
    <2>4. \A b \in 1 .. 3 : Requested(yaml, path, Blocks[b]) \subseteq yaml.importers
      BY DEF Requested
    <2>5. ASSUME NEW x
          PROVE  x \in UNION {X[b] : b \in 1 .. 3} <=> \E i \in yaml.importers : i.path = path /\ x \in Request(i)
      BY <2>2, <2>3, <2>4
    <2>6. QED
      BY <2>1, <2>5
  <1>10. WorkspaceLines(yaml, path) = <<l>> \o u
    BY <1>1, <1>8 DEF WorkspaceLines
  <1>11. \A c, x : ~Taken(4, Reading(l, c), x)
    <2> SUFFICES ASSUME NEW c, NEW x PROVE ~AskedFor(Reading(l, c), x)
      BY ReadersDiffer
    <2>1. Reading(l, c).line.indent = 2 /\ 2 # 8
      BY <1>2 DEF Reading
    <2>2. QED
      BY <2>1 DEF AskedFor
  <1>12. Tells(<<l>> \o u, scope, 4, Union(X, 1 .. Len(seqs)))
    BY <1>2, <1>3, <1>7, <1>8, <1>11, HeadTells
  <1>13. QED
    BY <1>9, <1>10, <1>12

\* What the readers see of a section.
LEMMA ReadIs ==
  ASSUME NEW text, IsText(text), NEW section
  PROVE  \A r : r \in Read(text, section) <=>
                  r \in Readings(Start, text) /\ r.line.indent > 0 /\ r.at.section = <<section>>
  <1>1. PICK before : before = Contexts(Start, text)
    OBVIOUS
  <1>2. PICK k \in Nat : k = Len(text)
    BY TextOf
  <1> DEFINE reading(n) == [line |-> text[n], at |-> before[n - 1]]
             in(n)      == text[n].indent > 0 /\ before[n - 1].section = <<section>>
  <1>3. Read(text, section) = {reading(n) : n \in {m \in 1 .. k : in(m)}}
    BY <1>1, <1>2 DEF Read
  <1>4. Readings(Start, text) = {reading(n) : n \in 1 .. k}
    BY <1>1, <1>2 DEF Readings
  <1>5. \A n : reading(n).line = text[n] /\ reading(n).at = before[n - 1]
    OBVIOUS
  <1>6. \A n \in 1 .. k : in(n) <=> reading(n).line.indent > 0 /\ reading(n).at.section = <<section>>
    BY <1>5
  <1> HIDE DEF reading, in
  <1>7. QED
    BY <1>3, <1>4, <1>6

\* A line of the top level opens its section.
LEMMA OpensSection ==
  ASSUME NEW l, l.indent = 0, NEW c, NEW scope, Inside(c, scope), NEW x, NEW y
  PROVE  Inside(Enter(c, l), Scope(2, l.key, x, y))
  <1>1. PICK a, b, d, e : c = Context(a, b, d, e)
    BY DEF Inside
  <1>2. Enter(c, l) = Context(l.key, None, None, None)
    BY <1>1, EnterIs
  <1>3. QED
    BY <1>2 DEF Inside, Scope, Context

LEMMA OneRead == \A l, c : Readings(c, <<l>>) = {Reading(l, c)} /\ End(c, <<l>>) = Enter(c, l)
  <1> SUFFICES ASSUME NEW l, NEW c PROVE Readings(c, <<l>>) = {Reading(l, c)} /\ End(c, <<l>>) = Enter(c, l)
    OBVIOUS
  <1>1. QED
    BY FewReads, Zenon DEF Reading

Sections(a, b, d) ==
  ((((<<Line(0, <<"lockfileVersion">>, <<"9.0">>), Line(0, <<"settings">>, << >>),
        Line(2, <<"autoInstallPeers">>, <<"true">>), Line(0, <<"importers">>, << >>)>>
      \o a) \o <<Line(0, <<"packages">>, << >>)>>) \o b)
   \o <<Line(0, <<"snapshots">>, << >>)>>) \o d

LEMMA SectionsRead ==
  ASSUME NEW yaml, NEW a, NEW b, NEW d, NEW X4, NEW X1, NEW X2, NEW X3,
         Tells(a, Scope(2, <<"importers">>, None, None), 4, X4),
         Tells(b, Scope(2, <<"packages">>, None, None), 1, X1),
         Tells(d, Scope(2, <<"snapshots">>, None, None), 2, X2),
         Tells(d, Scope(2, <<"snapshots">>, None, None), 3, X3),
         NEW text, text = Sections(a, b, d)
  PROVE  /\ \A x : Told(4, Read(text, "importers"), x) <=> x \in X4
         /\ \A x : Told(1, Read(text, "packages"), x) <=> x \in X1
         /\ \A x : Told(2, Read(text, "snapshots"), x) <=> x \in X2
         /\ \A x : Told(3, Read(text, "snapshots"), x) <=> x \in X3
  <1>1. PICK l1, l2, l3, l4, l5, l6 :
          /\ l1 = Line(0, <<"lockfileVersion">>, <<"9.0">>) /\ l2 = Line(0, <<"settings">>, << >>)
          /\ l3 = Line(2, <<"autoInstallPeers">>, <<"true">>) /\ l4 = Line(0, <<"importers">>, << >>)
          /\ l5 = Line(0, <<"packages">>, << >>) /\ l6 = Line(0, <<"snapshots">>, << >>)
    OBVIOUS
  <1>2. /\ l1.indent = 0 /\ l2.indent = 0 /\ l2.key = <<"settings">> /\ l3.indent = 2
        /\ l4.indent = 0 /\ l4.key = <<"importers">> /\ l5.indent = 0 /\ l5.key = <<"packages">>
        /\ l6.indent = 0 /\ l6.key = <<"snapshots">> /\ l1.key = <<"lockfileVersion">>
        /\ l3.key = <<"autoInstallPeers">>
    BY <1>1 DEF Line
  <1>3. PICK h, h5, h6 : h = <<l1, l2, l3, l4>> /\ h5 = <<l5>> /\ h6 = <<l6>>
    OBVIOUS
  <1>4. PICK t1, t2, t3, t4 : t1 = h \o a /\ t2 = t1 \o h5 /\ t3 = t2 \o b /\ t4 = t3 \o h6
    OBVIOUS
  <1>5. text = t4 \o d
    BY <1>1, <1>3, <1>4 DEF Sections
  <1>6. IsText(h) /\ IsText(h5) /\ IsText(h6)
    <2>1. Headed(Start, h, l1, <<l2, l3, l4>>)
      BY <1>3, LiteralReads, Zenon
    <2>2. QED
      BY <1>3, <2>1, FewLines, Zenon DEF Headed
  <1>7. IsText(a) /\ IsText(b) /\ IsText(d)
    BY DEF Tells
  <1>8. IsText(t1) /\ IsText(t2) /\ IsText(t3) /\ IsText(t4) /\ IsText(text)
    BY <1>4, <1>5, <1>6, <1>7, JoinsIs DEF Joins
  <1>9. PICK s1, s2, s3 : s1 = Enter(Start, l1) /\ s2 = Enter(s1, l2) /\ s3 = Enter(s2, l3)
    OBVIOUS
  <1>10. PICK c1, c2, c3, c4, c5 : /\ c1 = Enter(s3, l4) /\ c2 = End(c1, a) /\ c3 = Enter(c2, l5)
                                   /\ c4 = End(c3, b) /\ c5 = Enter(c4, l6)
    OBVIOUS
  <1>11. /\ Readings(Start, h) = {Reading(l1, Start), Reading(l2, s1), Reading(l3, s2), Reading(l4, s3)}
         /\ End(Start, h) = c1
    <2>1. PICK u1, u2, u3 : u1 = <<l2, l3, l4>> /\ u2 = <<l3, l4>> /\ u3 = <<l4>>
      OBVIOUS
    <2>2. Headed(Start, h, l1, u1) /\ Headed(s1, u1, l2, u2) /\ Headed(s2, u2, l3, u3)
      BY <1>3, <2>1, LiteralReads, Zenon
    <2>3. Readings(s3, u3) = {Reading(l4, s3)} /\ End(s3, u3) = Enter(s3, l4)
      BY <2>1, FewReads, Zenon DEF Reading
    <2>4. Readings(s2, u2) = {Reading(l3, s2), Reading(l4, s3)} /\ End(s2, u2) = c1
      BY <1>9, <1>10, <2>2, <2>3 DEF Headed
    <2>5. Readings(s1, u1) = {Reading(l2, s1), Reading(l3, s2), Reading(l4, s3)} /\ End(s1, u1) = c1
      BY <1>9, <2>2, <2>4 DEF Headed
    <2>6. QED
      BY <1>9, <2>2, <2>5 DEF Headed
  <1>12. /\ Readings(c2, h5) = {Reading(l5, c2)} /\ End(c2, h5) = c3
         /\ Readings(c4, h6) = {Reading(l6, c4)} /\ End(c4, h6) = c5
    BY <1>3, <1>10, OneRead
  <1>13. Readings(Start, t1) = Readings(Start, h) \cup Readings(c1, a) /\ End(Start, t1) = c2
    BY <1>4, <1>6, <1>7, <1>10, <1>11, JoinReads
  <1>14. Readings(Start, t2) = Readings(Start, t1) \cup {Reading(l5, c2)} /\ End(Start, t2) = c3
    BY <1>4, <1>6, <1>8, <1>12, <1>13, JoinReads
  <1>15. Readings(Start, t3) = Readings(Start, t2) \cup Readings(c3, b) /\ End(Start, t3) = c4
    BY <1>4, <1>7, <1>8, <1>10, <1>14, JoinReads
  <1>16. Readings(Start, t4) = Readings(Start, t3) \cup {Reading(l6, c4)} /\ End(Start, t4) = c5
    BY <1>4, <1>6, <1>8, <1>12, <1>15, JoinReads
  <1>17. Readings(Start, text) = Readings(Start, t4) \cup Readings(c5, d)
    BY <1>5, <1>7, <1>8, <1>16, JoinReads
  <1>18. PICK i1, i2, i3 : /\ i1 = Scope(2, <<"importers">>, None, None) /\ i2 = Scope(2, <<"packages">>, None, None)
                           /\ i3 = Scope(2, <<"snapshots">>, None, None)
    OBVIOUS
  <1>19. /\ i1.depth = 2 /\ i2.depth = 2 /\ i3.depth = 2 /\ 2 \in Scopes
         /\ i1.section = <<"importers">> /\ i2.section = <<"packages">> /\ i3.section = <<"snapshots">>
    BY <1>18 DEF Scope, Scopes
  <1>20. Start = Context(None, None, None, None)
    BY DEF Start, Context
  <1>21. s1 = Context(l1.key, None, None, None)
    <2>1. l1.indent = 0
      BY <1>2
    <2>2. QED
      BY <2>1, <1>9, <1>20, EnterIs
  <1>22. s2 = Context(l2.key, None, None, None)
    <2>1. l2.indent = 0
      BY <1>2
    <2>2. QED
      BY <2>1, <1>9, <1>21, EnterIs
  <1>23. s3 = Context(l2.key, l3.key, None, None)
    <2>1. l3.indent = 2
      BY <1>2
    <2>2. QED
      BY <2>1, <1>9, <1>22, EnterIs
  <1>24. Inside(c1, i1)
    <2>1. Inside(s3, Scope(2, l2.key, None, None))
      BY <1>23 DEF Inside, Scope, Context
    <2>2. QED
      BY <1>2, <1>10, <1>18, <2>1, OpensSection
  <1>25. Below(a, 2) /\ Below(b, 2) /\ Below(d, 2)
    BY DEF Tells, Scope
  <1>26. Inside(c2, i1) /\ \A r \in Readings(c1, a) : Inside(r.at, i1) /\ r.line.indent > 0
    <2>1. /\ Inside(End(c1, a), i1)
          /\ \A r \in Readings(c1, a) : Inside(r.at, i1) /\ \E n \in 1 .. Len(a) : r.line = a[n]
      BY <1>7, <1>19, <1>24, <1>25, Kept
    <2>2. \A n \in 1 .. Len(a) : a[n].indent > 0
      BY <1>25 DEF Below
    <2>3. QED
      BY <1>10, <2>1, <2>2
  <1>27. Inside(c3, i2)
    BY <1>2, <1>10, <1>18, <1>26, OpensSection
  <1>28. Inside(c4, i2) /\ \A r \in Readings(c3, b) : Inside(r.at, i2) /\ r.line.indent > 0
    <2>1. /\ Inside(End(c3, b), i2)
          /\ \A r \in Readings(c3, b) : Inside(r.at, i2) /\ \E n \in 1 .. Len(b) : r.line = b[n]
      BY <1>7, <1>19, <1>25, <1>27, Kept
    <2>2. \A n \in 1 .. Len(b) : b[n].indent > 0
      BY <1>25 DEF Below
    <2>3. QED
      BY <1>10, <2>1, <2>2
  <1>29. Inside(c5, i3)
    BY <1>2, <1>10, <1>18, <1>28, OpensSection
  <1>30. \A r \in Readings(c5, d) : Inside(r.at, i3) /\ r.line.indent > 0
    <2>1. \A r \in Readings(c5, d) : Inside(r.at, i3) /\ \E n \in 1 .. Len(d) : r.line = d[n]
      BY <1>7, <1>19, <1>25, <1>29, Kept
    <2>2. \A n \in 1 .. Len(d) : d[n].indent > 0
      BY <1>25 DEF Below
    <2>3. QED
      BY <2>1, <2>2
  <1>31. /\ <<"importers">> # <<"packages">> /\ <<"importers">> # <<"snapshots">> /\ <<"packages">> # <<"snapshots">>
         /\ <<"settings">> # <<"importers">> /\ <<"settings">> # <<"packages">> /\ <<"settings">> # <<"snapshots">>
    OBVIOUS
  <1>32. \A s \in {"importers", "packages", "snapshots"} : \A r :
           r \in Readings(Start, h) \cup {Reading(l5, c2), Reading(l6, c4)} =>
             ~(r.line.indent > 0 /\ r.at.section = <<s>>)
    <2>1. /\ Reading(l1, Start).line.indent = 0 /\ Reading(l2, s1).line.indent = 0
          /\ Reading(l3, s2).at.section = <<"settings">> /\ Reading(l4, s3).line.indent = 0
          /\ Reading(l5, c2).line.indent = 0 /\ Reading(l6, c4).line.indent = 0
      BY <1>2, <1>22 DEF Reading, Context
    <2>2. \A s \in {"importers", "packages", "snapshots"} : <<"settings">> # <<s>>
      BY <1>31
    <2>3. ~(0 > 0)
      OBVIOUS
    <2>4. QED
      BY <1>11, <2>1, <2>2, <2>3
  <1>33. /\ \A r \in Readings(c1, a) : r.at.section = <<"importers">>
         /\ \A r \in Readings(c3, b) : r.at.section = <<"packages">>
         /\ \A r \in Readings(c5, d) : r.at.section = <<"snapshots">>
    BY <1>19, <1>26, <1>28, <1>30 DEF Inside
  <1>34. \A r : r \in Readings(Start, text) <=>
                  \/ r \in Readings(Start, h) \cup {Reading(l5, c2), Reading(l6, c4)}
                  \/ r \in Readings(c1, a) \/ r \in Readings(c3, b) \/ r \in Readings(c5, d)
    BY <1>13, <1>14, <1>15, <1>16, <1>17
  <1>35. Read(text, "importers") = Readings(c1, a)
    <2>1. \A r : r \in Read(text, "importers") <=>
                   r \in Readings(Start, text) /\ r.line.indent > 0 /\ r.at.section = <<"importers">>
      BY <1>8, ReadIs
    <2>2. \A r \in Readings(Start, h) \cup {Reading(l5, c2), Reading(l6, c4)} :
            ~(r.line.indent > 0 /\ r.at.section = <<"importers">>)
      BY <1>32
    <2>3. \A r : r \in Read(text, "importers") <=> r \in Readings(c1, a)
      BY <1>26, <1>31, <1>33, <1>34, <2>1, <2>2
    <2>4. QED
      BY <2>3
  <1>36. Read(text, "packages") = Readings(c3, b)
    <2>1. \A r : r \in Read(text, "packages") <=>
                   r \in Readings(Start, text) /\ r.line.indent > 0 /\ r.at.section = <<"packages">>
      BY <1>8, ReadIs
    <2>2. \A r \in Readings(Start, h) \cup {Reading(l5, c2), Reading(l6, c4)} :
            ~(r.line.indent > 0 /\ r.at.section = <<"packages">>)
      BY <1>32
    <2>3. \A r : r \in Read(text, "packages") <=> r \in Readings(c3, b)
      BY <1>28, <1>31, <1>33, <1>34, <2>1, <2>2
    <2>4. QED
      BY <2>3
  <1>37. Read(text, "snapshots") = Readings(c5, d)
    <2>1. \A r : r \in Read(text, "snapshots") <=>
                   r \in Readings(Start, text) /\ r.line.indent > 0 /\ r.at.section = <<"snapshots">>
      BY <1>8, ReadIs
    <2>2. \A r \in Readings(Start, h) \cup {Reading(l5, c2), Reading(l6, c4)} :
            ~(r.line.indent > 0 /\ r.at.section = <<"snapshots">>)
      BY <1>32
    <2>3. \A r : r \in Read(text, "snapshots") <=> r \in Readings(c5, d)
      BY <1>30, <1>31, <1>33, <1>34, <2>1, <2>2
    <2>4. QED
      BY <2>3
  <1>38. QED
    BY <1>18, <1>24, <1>27, <1>29, <1>35, <1>36, <1>37 DEF Tells

\* Each reader is what it takes from the lines of its section.
LEMMA ParsersTell ==
  ASSUME NEW text
  PROVE  /\ \A x : x \in parseLockfilePackages(text) <=> Told(1, Read(text, "packages"), x)
         /\ \A x : x \in parseLockfileSnapshots(text) <=> Told(2, Read(text, "snapshots"), x)
         /\ \A x : x \in parseSnapshotOptionals(text) <=> Told(3, Read(text, "snapshots"), x)
         /\ \A x : x \in parseLockfileImporterDeps(text) <=> Told(4, Read(text, "importers"), x)
  <1>1. ASSUME NEW x PROVE x \in parseLockfilePackages(text) <=> \E r \in Read(text, "packages") : Packaged(r, x)
    <2>1. PICK read : read = Read(text, "packages")
      OBVIOUS
    <2>2. x \in parseLockfilePackages(text) <=>
            \/ \E r \in read : r.line.indent = 2 /\ r.line.val = EmptyMap /\ x = <<r.line.key, {}>>
            \/ \E r \in read : r.line.indent = 4 /\ r.line.key = <<"resolution">> /\ x = <<r.at.entry, ToSet(r.line.val)>>
      BY <2>1, Zenon DEF parseLockfilePackages
    <2>3. QED
      BY <2>1, <2>2, Zenon DEF Packaged
  <1>2. ASSUME NEW x PROVE x \in parseLockfileSnapshots(text) <=> \E r \in Read(text, "snapshots") : Resolved(r, x)
    BY Zenon DEF parseLockfileSnapshots, Resolved
  <1>3. ASSUME NEW x PROVE x \in parseSnapshotOptionals(text) <=> \E r \in Read(text, "snapshots") : Marked(r, x)
    BY Zenon DEF parseSnapshotOptionals, Marked
  <1>4. ASSUME NEW x PROVE x \in parseLockfileImporterDeps(text) <=> \E r \in Read(text, "importers") : AskedFor(r, x)
    BY Zenon DEF parseLockfileImporterDeps, AskedFor
  <1>5. \A reads, x : /\ Told(1, reads, x) <=> \E r \in reads : Packaged(r, x)
                      /\ Told(2, reads, x) <=> \E r \in reads : Resolved(r, x)
                      /\ Told(3, reads, x) <=> \E r \in reads : Marked(r, x)
                      /\ Told(4, reads, x) <=> \E r \in reads : AskedFor(r, x)
    BY ReadersDiffer DEF Told
  <1>6. QED
    BY <1>1, <1>2, <1>3, <1>4, <1>5, Zenon

(* Whatever well-formed document pnpm writes, the four readers see in its     *)
(* text exactly what the document states: the packages with their resolution, *)
(* the dependencies asked for in every block of every workspace, those        *)
(* resolved to, and which are optional; no line is taken for one of another   *)
(* section, entry or block (parseLockfilePackages, parseLockfileSnapshots,    *)
(* parseLockfileImporterDeps and parseSnapshotOptionals).                     *)
THEOREM ReadersExact == \A yaml : WellFormed(yaml) => ReadExactly(yaml)
  <1> SUFFICES ASSUME NEW yaml, WellFormed(yaml) PROVE ReadExactly(yaml)
    OBVIOUS
  <1>1. PICK i1, i2, i3 : /\ i1 = Scope(2, <<"importers">>, None, None) /\ i2 = Scope(2, <<"packages">>, None, None)
                          /\ i3 = Scope(2, <<"snapshots">>, None, None)
    OBVIOUS
  <1>2. i1.depth \in Scopes /\ i2.depth \in Scopes /\ i3.depth \in Scopes
    BY <1>1 DEF Scope, Scopes
  <1>3. PICK paths : paths = {i.path : i \in yaml.importers}
    OBVIOUS
  <1>4. PICK a, b, d : /\ a = ImporterLines(yaml)
                       /\ b = LinesOf(yaml.packages, [p \in yaml.packages |-> PackageLines(p)])
                       /\ d = LinesOf(yaml.snapshots, [s \in yaml.snapshots |-> SnapshotLines(s)])
    OBVIOUS
  <1>5. /\ IsFiniteSet(yaml.importers) /\ IsFiniteSet(yaml.packages) /\ IsFiniteSet(yaml.snapshots)
        /\ \A i \in yaml.importers : \E n \in 1 .. 3 : i.block = Blocks[n]
    BY DEF WellFormed
  <1>6. Tells(a, i1, 4, Asked(yaml))
    <2>1. IsFiniteSet(paths)
      <3>1. PICK path : path = [i \in yaml.importers |-> i.path]
        OBVIOUS
      <3>2. path \in Surjection(yaml.importers, paths)
        BY <1>3, <3>1 DEF Surjection
      <3>3. QED
        BY <1>5, <3>2, FS_Surjection
    <2>2. PICK lines, X : /\ lines = [path \in paths |-> WorkspaceLines(yaml, path)]
                          /\ X = [path \in paths |-> UNION {Request(i) : i \in {j \in yaml.importers : j.path = path}}]
      OBVIOUS
    <2>3. a = LinesOf(paths, lines)
      BY <1>3, <1>4, <2>2 DEF ImporterLines
    <2>4. \A path \in paths : Tells(lines[path], i1, 4, X[path])
      <3> SUFFICES ASSUME NEW path \in paths PROVE Tells(lines[path], i1, 4, X[path])
        OBVIOUS
      <3>1. Tells(WorkspaceLines(yaml, path), i1, 4, UNION {Request(i) : i \in {j \in yaml.importers : j.path = path}})
        BY <1>1, <1>5, WorkspaceTells
      <3>2. QED
        BY <2>2, <3>1
    <2>5. Tells(a, i1, 4, Union(X, paths))
      BY <1>2, <2>1, <2>3, <2>4, LinesTell
    <2>6. Union(X, paths) = Asked(yaml)
      <3>1. ASSUME NEW x
            PROVE  x \in Union(X, paths) <=> \E i \in yaml.importers : x \in Request(i)
        <4>1. x \in Union(X, paths) <=> \E path \in paths : x \in X[path]
          BY DEF Union
        <4>2. \A path \in paths : x \in X[path] <=> \E i \in yaml.importers : i.path = path /\ x \in Request(i)
          BY <2>2
        <4>3. \A i \in yaml.importers : i.path \in paths
          BY <1>3
        <4>4. QED
          BY <4>1, <4>2, <4>3
      <3>2. ASSUME NEW x
            PROVE  x \in Asked(yaml) <=> \E i \in yaml.importers : i.version # Link /\ x = <<i.path, <<i.dep>> \o i.version>>
        BY Zenon DEF Asked
      <3>3. ASSUME NEW x, NEW i
            PROVE  x \in Request(i) <=> i.version # Link /\ x = <<i.path, <<i.dep>> \o i.version>>
        BY Zenon DEF Request
      <3>4. QED
        BY <3>1, <3>2, <3>3, Zenon
    <2>7. QED
      BY <2>5, <2>6
  <1>7. Tells(b, i2, 1, {<<p.key, ToSet(p.resolution)>> : p \in yaml.packages})
    <2>1. PICK lines, X : /\ lines = [p \in yaml.packages |-> PackageLines(p)]
                          /\ X = [p \in yaml.packages |-> {<<p.key, ToSet(p.resolution)>>}]
      OBVIOUS
    <2>2. \A p \in yaml.packages : Tells(lines[p], i2, 1, X[p])
      BY <1>1, <2>1, PackageTells
    <2>3. Tells(b, i2, 1, Union(X, yaml.packages))
      BY <1>2, <1>4, <1>5, <2>1, <2>2, LinesTell
    <2>4. Union(X, yaml.packages) = {<<p.key, ToSet(p.resolution)>> : p \in yaml.packages}
      BY <2>1 DEF Union
    <2>5. QED
      BY <2>3, <2>4
  <1>8. ASSUME NEW s \in yaml.snapshots
        PROVE  /\ IsFiniteSet(s.dependencies) /\ IsFiniteSet(s.optionalDependencies)
               /\ \A k \in s.dependencies \cup s.optionalDependencies : Triple(k)
    BY DEF WellFormed, Triple
  <1>9. Tells(d, i3, 2, Linked(yaml))
    <2>1. PICK lines, X : /\ lines = [s \in yaml.snapshots |-> SnapshotLines(s)]
                          /\ X = [s \in yaml.snapshots |-> {<<s.key, k>> : k \in s.dependencies \cup s.optionalDependencies}]
      OBVIOUS
    <2>2. \A s \in yaml.snapshots : Tells(lines[s], i3, 2, X[s])
      BY <1>1, <1>8, <2>1, SnapshotTells
    <2>3. Tells(d, i3, 2, Union(X, yaml.snapshots))
      BY <1>2, <1>4, <1>5, <2>1, <2>2, LinesTell
    <2>4. Union(X, yaml.snapshots) = Linked(yaml)
      <3>1. PICK pairs : pairs = [s \in yaml.snapshots |-> {<<s.key, k>> : k \in s.dependencies \cup s.optionalDependencies}]
        OBVIOUS
      <3>2. ASSUME NEW x PROVE x \in Linked(yaml) <=> \E s \in yaml.snapshots : x \in pairs[s]
        BY <3>1 DEF Linked
      <3>3. X = pairs
        BY <2>1, <3>1
      <3>4. QED
        BY <3>2, <3>3 DEF Union
    <2>5. QED
      BY <2>3, <2>4
  <1>10. PICK optionals : optionals = {stripPeerSuffix(s.key) : s \in {t \in yaml.snapshots : t.optional}}
    OBVIOUS
  <1>11. Tells(d, i3, 3, optionals)
    <2>1. PICK lines, X : /\ lines = [s \in yaml.snapshots |-> SnapshotLines(s)]
                          /\ X = [s \in yaml.snapshots |-> {x \in {stripPeerSuffix(s.key)} : s.optional}]
      OBVIOUS
    <2>2. \A s \in yaml.snapshots : Tells(lines[s], i3, 3, X[s])
      BY <1>1, <1>8, <2>1, SnapshotTells
    <2>3. Tells(d, i3, 3, Union(X, yaml.snapshots))
      BY <1>2, <1>4, <1>5, <2>1, <2>2, LinesTell
    <2>4. Union(X, yaml.snapshots) = optionals
      <3>1. ASSUME NEW x PROVE x \in Union(X, yaml.snapshots) <=> \E s \in yaml.snapshots : x \in X[s]
        BY DEF Union
      <3>2. \A s \in yaml.snapshots : \A x : x \in X[s] <=> s.optional /\ x = stripPeerSuffix(s.key)
        BY <2>1
      <3>3. ASSUME NEW x PROVE x \in optionals <=> \E s \in yaml.snapshots : s.optional /\ x = stripPeerSuffix(s.key)
        BY <1>10, Zenon
      <3>4. QED
        BY <3>1, <3>2, <3>3
    <2>5. QED
      BY <2>3, <2>4
  <1>12. PICK text : text = Text(yaml)
    OBVIOUS
  <1>13. text = Sections(a, b, d)
    BY <1>4, <1>12 DEF Text, Sections
  <1>14. PICK packed : packed = {<<p.key, ToSet(p.resolution)>> : p \in yaml.packages}
    OBVIOUS
  <1>15. /\ \A x : Told(4, Read(text, "importers"), x) <=> x \in Asked(yaml)
         /\ \A x : Told(1, Read(text, "packages"), x) <=> x \in packed
         /\ \A x : Told(2, Read(text, "snapshots"), x) <=> x \in Linked(yaml)
         /\ \A x : Told(3, Read(text, "snapshots"), x) <=> x \in optionals
    BY <1>1, <1>6, <1>7, <1>9, <1>11, <1>13, <1>14, SectionsRead
  <1>16. /\ \A x : x \in parseLockfilePackages(text) <=> x \in packed
         /\ \A x : x \in parseLockfileSnapshots(text) <=> x \in Linked(yaml)
         /\ \A x : x \in parseSnapshotOptionals(text) <=> x \in optionals
         /\ \A x : x \in parseLockfileImporterDeps(text) <=> x \in Asked(yaml)
    BY <1>15, ParsersTell, Zenon
  <1>17. /\ parseLockfilePackages(text) = packed /\ parseLockfileSnapshots(text) = Linked(yaml)
         /\ parseSnapshotOptionals(text) = optionals /\ parseLockfileImporterDeps(text) = Asked(yaml)
    BY <1>16
  <1>18. QED
    BY <1>10, <1>12, <1>14, <1>17 DEF ReadExactly

LEMMA DocumentsRead ==
  /\ \A d \in Documents : ReadExactly(d)
  /\ \A d \in Lockfiles : ReadExactly(d)
  BY TraceAssumption, SbomAssumption, ReadersExact

-----------------------------------------------------------------------------
(* The graph                                                                *)

LEMMA StripKeeps == \A key : stripPeerSuffix(key)[1] = key[1]
  BY DEF stripPeerSuffix

\* The text of a document gives the graph and the labels that it states.
LEMMA TextIs ==
  ASSUME NEW d \in Documents
  PROVE  /\ EdgesOf(Text(d)) = {e \in (Roots \cup Labels(d)) \X Labels(d) : Depends(d, e[1], e[2])}
         /\ \A asked : Matching(Text(d), asked) = Sought(d, asked)
  <1>1. ReadExactly(d) /\ Closed(d)
    BY TraceAssumption, DocumentsRead
  <1>2. PICK text : text = Text(d)
    OBVIOUS
  <1>3. PICK A, L : A = Asked(d) /\ L = Linked(d)
    OBVIOUS
  <1>4. /\ parseLockfileImporterDeps(text) = A /\ parseLockfileSnapshots(text) = L
        /\ parseLockfilePackages(text) = {<<p.key, ToSet(p.resolution)>> : p \in d.packages}
    BY <1>1, <1>2, <1>3 DEF ReadExactly
  <1>5. /\ \A label \in Labels(d) : ~Own(label)
        /\ \A e \in A : Own(e[2]) \/ stripPeerSuffix(e[2]) \in Labels(d)
        /\ \A e \in L : Own(e[2]) \/ stripPeerSuffix(e[2]) \in Labels(d)
    BY <1>1, <1>3 DEF Closed
  <1>6. \A e \in L : stripPeerSuffix(e[1]) \in Labels(d)
    <2>1. \A e \in L : \E s \in d.snapshots : e[1] = s.key
      BY <1>3 DEF Linked
    <2>2. {stripPeerSuffix(s.key) : s \in d.snapshots} = Labels(d)
      BY <1>1 DEF Closed
    <2>3. QED
      BY <2>1, <2>2
  <1>7. \A key : Own(stripPeerSuffix(key)) <=> Own(key)
    BY StripKeeps DEF Own
  <1>8. ASSUME NEW from, NEW to
        PROVE  <<from, to>> \in EdgesOf(text) <=>
                 \/ \E e \in A : /\ e[1] \in DOMAIN Workspaces /\ ~Own(e[2])
                                 /\ from = Workspaces[e[1]] /\ to = stripPeerSuffix(e[2])
                 \/ \E e \in L : /\ ~Own(e[1]) /\ ~Own(e[2])
                                 /\ from = stripPeerSuffix(e[1]) /\ to = stripPeerSuffix(e[2])
    BY <1>4 DEF EdgesOf
  <1>9. ASSUME NEW from, NEW to
        PROVE  <<from, to>> \in EdgesOf(text) <=>
                 from \in Roots \cup Labels(d) /\ to \in Labels(d) /\ Depends(d, from, to)
    <2>1. \A e \in A : e[1] \in DOMAIN Workspaces => Workspaces[e[1]] \in Roots
      BY DEF Roots
    <2>2. Depends(d, from, to) <=>
            \/ \E e \in A : e[1] \in DOMAIN Workspaces /\ from = Workspaces[e[1]] /\ to = stripPeerSuffix(e[2])
            \/ \E e \in L : from = stripPeerSuffix(e[1]) /\ to = stripPeerSuffix(e[2])
      BY <1>3 DEF Depends
    <2>3. QED
      BY <1>5, <1>6, <1>7, <1>8, <2>1, <2>2
  <1>10. EdgesOf(text) = {e \in (Roots \cup Labels(d)) \X Labels(d) : Depends(d, e[1], e[2])}
    <2>1. \A e \in EdgesOf(text) : e = <<e[1], e[2]>>
      BY DEF EdgesOf
    <2>2. QED
      BY <1>9, <2>1
  <1>11. ASSUME NEW asked
         PROVE  Matching(text, asked) = Sought(d, asked)
    <2>1. \A label : label \in Labels(d) <=>
            \E p \in d.packages : "directory" \notin ToSet(p.resolution) /\ label = stripPeerSuffix(p.key)
      BY DEF Labels, External
    <2>2. ASSUME NEW label
          PROVE  label \in Matching(text, asked) <=>
                   /\ \E p \in d.packages : /\ "directory" \notin ToSet(p.resolution) /\ ~Own(p.key)
                                            /\ label = stripPeerSuffix(p.key)
                   /\ label[1] = asked[1] /\ (Len(asked) = 1 \/ label[2] = asked[2])
      <3>1. PICK P : P = parseLockfilePackages(text)
        OBVIOUS
      <3>2. label \in Matching(text, asked) <=>
              /\ \E p \in P : "directory" \notin p[2] /\ ~Own(p[1]) /\ label = stripPeerSuffix(p[1])
              /\ label[1] = asked[1] /\ (Len(asked) = 1 \/ label[2] = asked[2])
        BY <3>1 DEF Matching
      <3>3. (\E p \in P : "directory" \notin p[2] /\ ~Own(p[1]) /\ label = stripPeerSuffix(p[1]))
              <=> \E p \in d.packages : /\ "directory" \notin ToSet(p.resolution) /\ ~Own(p.key)
                                        /\ label = stripPeerSuffix(p.key)
        <4>1. \A p \in d.packages : <<p.key, ToSet(p.resolution)>> \in P
          BY <1>4, <3>1
        <4>2. \A q \in P : \E p \in d.packages : q[1] = p.key /\ q[2] = ToSet(p.resolution)
          BY <1>4, <3>1
        <4>3. QED
          BY <4>1, <4>2
      <3>4. QED
        BY <3>2, <3>3
    <2>3. ASSUME NEW label PROVE label \in Matching(text, asked) <=> label \in Sought(d, asked)
      <3>1. label \in Labels(d) => ~Own(label)
        BY <1>5
      <3>2. \A p : label = stripPeerSuffix(p.key) => (Own(label) <=> Own(p.key))
        BY <1>7
      <3>3. label \in Sought(d, asked) <=>
              label \in Labels(d) /\ label[1] = asked[1] /\ (Len(asked) = 1 \/ label[2] = asked[2])
        BY DEF Sought
      <3>4. QED
        BY <2>1, <2>2, <3>1, <3>2, <3>3
    <2>4. QED
      BY <2>3
  <1>12. QED
    BY <1>2, <1>10, <1>11

LEMMA LabelsFinite ==
  ASSUME NEW d, Closed(d)
  PROVE  IsFiniteSet(Labels(d))
  <1>1. IsFiniteSet(External(d))
    <2>1. IsFiniteSet(d.packages) /\ External(d) \in SUBSET d.packages
      BY DEF Closed, External
    <2>2. QED
      BY <2>1, FS_Subset
  <1>2. PICK f : f = [p \in External(d) |-> stripPeerSuffix(p.key)]
    OBVIOUS
  <1>3. f \in Surjection(External(d), Labels(d))
    BY <1>2 DEF Surjection, Labels
  <1>4. QED
    BY <1>1, <1>3, FS_Surjection

LEMMA GraphIs ==
  ASSUME doc \in Documents, edges = EdgesOf(Text(doc))
  PROVE  /\ edges = {e \in Nodes \X Labels(doc) : Depends(doc, e[1], e[2])}
         /\ Matching(Text(doc), spec) = Goals
         /\ IsFiniteSet(Labels(doc)) /\ Roots \cap Labels(doc) = {} /\ Goals \subseteq Labels(doc)
  <1>1. /\ edges = {e \in Nodes \X Labels(doc) : Depends(doc, e[1], e[2])}
        /\ Matching(Text(doc), spec) = Goals
    BY TextIs DEF Nodes, Goals
  <1>2. IsFiniteSet(Labels(doc)) /\ Roots \cap Labels(doc) = {}
    BY TraceAssumption, LabelsFinite
  <1>3. Goals \subseteq Labels(doc)
    BY DEF Goals, Sought
  <1>4. QED
    BY <1>1, <1>2, <1>3

LEMMA ExtensionsAre ==
  ASSUME doc \in Documents, edges = EdgesOf(Text(doc)), NEW p
  PROVE  /\ \A e : e \in Extensions(p) <=>
              \E c \in Nodes : <<Last(p), c>> \in edges /\ c \notin ToSet(p) /\ e = Append(p, c)
         /\ IsFiniteSet(Extensions(p))
  <1> DEFINE children == {c \in {e[2] : e \in {f \in edges : f[1] = Last(p)}} : c \notin ToSet(p)}
  <1>1. /\ \A e \in edges : e = <<e[1], e[2]>> /\ e[2] \in Labels(doc)
        /\ Labels(doc) \subseteq Nodes /\ IsFiniteSet(Labels(doc))
    <2>1. \A e \in edges : e \in Nodes \X Labels(doc)
      BY GraphIs
    <2>2. QED
      BY <2>1, GraphIs DEF Nodes
  <1>2. \A c : c \in children <=> c \in Nodes /\ <<Last(p), c>> \in edges /\ c \notin ToSet(p)
    BY <1>1
  <1>3. Extensions(p) = {Append(p, c) : c \in children}
    BY DEF Extensions
  <1>4. IsFiniteSet(children)
    <2>1. children \in SUBSET Labels(doc)
      BY <1>1
    <2>2. QED
      BY <1>1, <2>1, FS_Subset
  <1> HIDE DEF children
  <1>5. PICK f : f = [c \in children |-> Append(p, c)]
    OBVIOUS
  <1>6. f \in Surjection(children, Extensions(p))
    BY <1>3, <1>5 DEF Surjection
  <1>7. IsFiniteSet(Extensions(p))
    BY <1>4, <1>6, FS_Surjection
  <1>8. QED
    BY <1>2, <1>3, <1>7

-----------------------------------------------------------------------------
(* The steps of the search                                                  *)

LEMMA TraceInitInv == TraceInit => SearchInv
  BY DEF TraceInit, SearchInv

LEMMA LoadInv ==
  ASSUME SearchInv, NEW d \in Documents, NEW asked \in Specs, Load(d, asked)
  PROVE  SearchInv'
  <1>1. /\ step = "load" /\ stack = << >> /\ allPaths = << >>
        /\ stack' = << >> /\ allPaths' = << >> /\ doc' = d /\ spec' = asked
        /\ edges' = EdgesOf(Text(d)) /\ searches' = Matching(Text(d), asked) \X Roots
        /\ step' = IF Matching(Text(d), asked) = {} THEN "printed" ELSE "search"
    BY DEF Load, SearchInv
  <1>2. Goals' = Matching(Text(d), asked)
    BY <1>1, TextIs DEF Goals
  <1>3. StackInv' /\ FoundInv'
    BY <1>1 DEF StackInv, FoundInv, IsInjective, ToSet
  <1>4. NothingLost'
    BY <1>1, <1>2 DEF NothingLost
  <1>5. QED
    BY <1>1, <1>2, <1>3, <1>4 DEF SearchInv

\* Nothing but the stack, the goal, the searches and what was found changes.
LEMMA SameGraph ==
  ASSUME UNCHANGED <<doc, spec, edges>>
  PROVE  /\ Nodes' = Nodes /\ Goals' = Goals
         /\ \A p : Simple(p)' <=> Simple(p)
         /\ \A p, root, label : Path(p, root, label)' <=> Path(p, root, label)
  BY DEF Nodes, Goals, Simple, Path, Labels, Sought

LEMMA SearchStarts ==
  ASSUME SearchInv, NEW s \in searches, Search(s)
  PROVE  SearchInv'
  <1>1. /\ step = "search" /\ stack = << >> /\ searches' = searches \ {s}
        /\ goal' = s[1] /\ stack' = << <<s[2]>> >>
        /\ UNCHANGED <<doc, spec, edges, allPaths, step>>
        /\ searches \subseteq Goals \X Roots /\ StackInv /\ FoundInv /\ NothingLost
        /\ doc \in Documents /\ spec \in Specs /\ edges = EdgesOf(Text(doc))
    BY DEF Search, SearchInv
  <1>2. PICK g \in Goals, r \in Roots : s = <<g, r>>
    BY <1>1
  <1>3. PICK p : p = <<r>>
    OBVIOUS
  <1>4. p \in Seq(Nodes) /\ Len(p) = 1 /\ p[1] = r /\ Simple(p)
    BY <1>2, <1>3 DEF Nodes, Simple, IsInjective
  <1>5. stack' = <<p>> /\ ToSet(stack') = {p}
    BY <1>1, <1>2, <1>3 DEF ToSet
  <1>6. goal' = g /\ searches' = searches \ {<<g, r>>}
    BY <1>1, <1>2
  <1>7. StackInv'
    <2>1. stack' \in Seq(Seq(Nodes)) /\ IsInjective(stack')
      BY <1>4, <1>5 DEF IsInjective
    <2>2. ASSUME NEW q \in ToSet(allPaths), q[Len(q)] = g, Prefix(p, q) PROVE FALSE
      <3>1. q[1] = r /\ <<q[Len(q)], q[1]>> \notin searches
        BY <1>1, <1>4, <2>2 DEF Prefix, FoundInv
      <3>2. QED
        BY <1>2, <2>2, <3>1
    <2>3. QED
      BY <1>1, <1>2, <1>4, <1>5, <1>6, <2>1, <2>2, SameGraph DEF StackInv
  <1>8. FoundInv'
    BY <1>1, SameGraph DEF FoundInv
  <1>9. NothingLost'
    <2> SUFFICES ASSUME NEW root \in Roots, NEW label \in Goals, NEW q, Path(q, root, label)
                 PROVE  \/ q \in ToSet(allPaths) \/ <<label, root>> \in searches'
                        \/ label = g /\ Prefix(p, q)
      BY <1>1, <1>5, <1>6, SameGraph DEF NothingLost
    <2>1. q \in ToSet(allPaths) \/ <<label, root>> \in searches
      BY <1>1 DEF NothingLost, ToSet
    <2>2. CASE <<label, root>> = s
      BY <1>2, <1>4, <2>2 DEF Path, Simple, Prefix
    <2>3. QED
      BY <1>1, <2>1, <2>2
  <1>10. QED
    BY <1>1, <1>7, <1>8, <1>9, SameGraph DEF SearchInv

\* A path that has reached the goal is recorded.
LEMMA PopFound ==
  ASSUME SearchInv, Pop, Last(Last(stack)) = goal
  PROVE  SearchInv'
  <1>1. PICK p, rest : p = Last(stack) /\ rest = Front(stack)
    OBVIOUS
  <1>2. /\ step = "search" /\ stack # << >> /\ stack' = rest /\ allPaths' = Append(allPaths, p)
        /\ UNCHANGED <<doc, spec, edges, searches, goal, step>>
        /\ searches \subseteq Goals \X Roots /\ StackInv /\ FoundInv /\ NothingLost
        /\ doc \in Documents /\ spec \in Specs /\ edges = EdgesOf(Text(doc))
    BY <1>1 DEF Pop, SearchInv
  <1>3. /\ rest \in Seq(Seq(Nodes)) /\ IsInjective(rest) /\ p \in Seq(Nodes) /\ p \in ToSet(stack)
        /\ ToSet(rest) = ToSet(stack) \ {p}
    BY <1>1, <1>2, PopSet DEF StackInv
  <1>4. Simple(p) /\ p[1] \in Roots /\ p[Len(p)] = goal /\ goal \in Goals
        /\ <<goal, p[1]>> \notin searches
    BY <1>1, <1>2, <1>3 DEF StackInv, Last
  <1>5. p \notin ToSet(allPaths)
    BY <1>2, <1>3, <1>4, PrefixBasics DEF StackInv
  <1>6. /\ allPaths' \in Seq(Seq(Nodes)) /\ IsInjective(allPaths')
        /\ ToSet(allPaths') = ToSet(allPaths) \cup {p}
    <2>1. PICK one : one = <<p>>
      OBVIOUS
    <2>a. one \in Seq(Seq(Nodes)) /\ one[1] = p /\ DOMAIN one = {1}
      BY <1>3, <2>1
    <2>b. IsInjective(one) /\ ToSet(one) = {p}
      <3>1. IsInjective(one)
        BY <2>a DEF IsInjective
      <3>2. \A x : x \in ToSet(one) <=> x = p
        BY <2>a DEF ToSet
      <3>3. QED
        BY <3>1, <3>2
    <2>2. allPaths' = allPaths \o one
      BY <1>2, <1>3, <2>1, AppendIsConcat DEF FoundInv
    <2>3. ToSet(allPaths) \cap ToSet(one) = {}
      BY <1>5, <2>b
    <2>c. allPaths \in Seq(Seq(Nodes)) /\ IsInjective(allPaths)
      BY <1>2 DEF FoundInv
    <2>4. QED
      BY <2>a, <2>b, <2>c, <2>2, <2>3, PushSet
  <1>7. StackInv'
    <2> SUFFICES ASSUME NEW q \in ToSet(rest)
                 PROVE  /\ Simple(q) /\ q[1] \in Roots /\ goal \in Goals
                        /\ <<goal, q[1]>> \notin searches
                        /\ \A n \in 1 .. Len(q) - 1 : q[n] # goal
                        /\ \A r \in ToSet(rest) \ {q} : ~Prefix(q, r)
                        /\ \A r \in ToSet(allPaths) \cup {p} : r[Len(r)] = goal => ~Prefix(q, r)
      BY <1>2, <1>3, <1>6, SameGraph DEF StackInv
    <2>1. q \in ToSet(stack) /\ q # p /\ ToSet(rest) \subseteq ToSet(stack)
      BY <1>3
    <2>2. ~Prefix(q, p)
      BY <1>2, <1>3, <2>1 DEF StackInv
    <2>3. QED
      BY <1>2, <2>1, <2>2 DEF StackInv
  <1>8. FoundInv'
    BY <1>2, <1>4, <1>6, SameGraph DEF FoundInv
  <1>9. NothingLost'
    <2> SUFFICES ASSUME NEW root \in Roots, NEW label \in Goals, NEW q, Path(q, root, label)
                 PROVE  \/ q \in ToSet(allPaths) \cup {p} \/ <<label, root>> \in searches
                        \/ label = goal /\ \E r \in ToSet(rest) : Prefix(r, q)
      BY <1>2, <1>6, SameGraph DEF NothingLost
    <2>1. \/ q \in ToSet(allPaths) \/ <<label, root>> \in searches
          \/ label = goal /\ \E r \in ToSet(stack) : Prefix(r, q)
      BY <1>2 DEF NothingLost
    <2>2. ASSUME label = goal, Prefix(p, q) PROVE q = p
      <3>1. /\ q \in Seq(Nodes) /\ IsInjective(q) /\ DOMAIN q = 1 .. Len(q) /\ Len(q) \in Nat
            /\ q[Len(q)] = goal /\ Len(q) > 0
        BY <2>2 DEF Path, Simple
      <3>2. Len(p) \in Nat /\ Len(p) > 0 /\ Len(p) <= Len(q) /\ q[Len(p)] = goal
        BY <1>4, <2>2 DEF Prefix, Simple
      <3>3. Len(p) = Len(q)
        BY <3>1, <3>2 DEF IsInjective
      <3>4. QED
        BY <1>3, <2>2, <3>1, <3>3, PrefixBasics
    <2>3. QED
      BY <1>3, <2>1, <2>2
  <1>10. QED
    BY <1>2, <1>7, <1>8, <1>9, SameGraph DEF SearchInv

\* Another is replaced by its extensions.
LEMMA PopExtended ==
  ASSUME SearchInv, Pop, Last(Last(stack)) # goal
  PROVE  SearchInv'
  <1>1. PICK p, rest, T, new : /\ p = Last(stack) /\ rest = Front(stack)
                               /\ T = Extensions(p) /\ new = SetToSeq(T)
    OBVIOUS
  <1>2. /\ step = "search" /\ stack # << >> /\ stack' = rest \o new
        /\ UNCHANGED <<doc, spec, edges, searches, goal, step, allPaths>>
        /\ searches \subseteq Goals \X Roots /\ StackInv /\ FoundInv /\ NothingLost
        /\ doc \in Documents /\ spec \in Specs /\ edges = EdgesOf(Text(doc))
    BY <1>1 DEF Pop, SearchInv
  <1>3. /\ rest \in Seq(Seq(Nodes)) /\ IsInjective(rest) /\ p \in Seq(Nodes) /\ p \in ToSet(stack)
        /\ ToSet(rest) = ToSet(stack) \ {p}
    BY <1>1, <1>2, PopSet DEF StackInv
  <1>4. /\ Simple(p) /\ p[1] \in Roots /\ p[Len(p)] # goal /\ goal \in Goals
        /\ <<goal, p[1]>> \notin searches /\ Len(p) \in Nat /\ Len(p) > 0
        /\ \A n \in 1 .. Len(p) - 1 : p[n] # goal
    BY <1>1, <1>2, <1>3 DEF StackInv, Last, Simple
  <1>5. /\ IsFiniteSet(T)
        /\ \A e : e \in T <=> \E c \in Nodes : <<Last(p), c>> \in edges /\ c \notin ToSet(p)
                                               /\ e = Append(p, c)
    BY <1>1, <1>2, ExtensionsAre
  <1>6. ASSUME NEW e \in T
        PROVE  /\ e \in Seq(Nodes) /\ Simple(e) /\ Len(e) = Len(p) + 1 /\ e[1] = p[1]
               /\ \A n \in 1 .. Len(e) - 1 : e[n] # goal
               /\ Prefix(p, e)
               /\ \A q \in Seq(Nodes) : Prefix(q, e) => Prefix(q, p) \/ q = e
    <2>1. PICK c \in Nodes : <<Last(p), c>> \in edges /\ c \notin ToSet(p) /\ e = Append(p, c)
      BY <1>5
    <2>2. Simple(e)
      BY <1>4, <2>1, SimpleLonger
    <2>3. OneMore(e, p, c)
      BY <1>3, <2>1, Longer
    <2>4. \A n \in 1 .. Len(e) - 1 : e[n] # goal
      <3>1. \A n \in 1 .. Len(p) : p[n] # goal
        BY <1>4
      <3>2. QED
        BY <1>4, <2>3, <3>1 DEF OneMore
    <2>5. QED
      BY <1>4, <2>2, <2>3, <2>4 DEF OneMore
  \* None of them is on the stack, or begins or goes on what is.
  <1>7. ASSUME NEW e \in T, NEW q \in ToSet(rest)
        PROVE  ~Prefix(e, q) /\ ~Prefix(q, e) /\ q # e
    <2>1. q \in ToSet(stack) /\ q # p /\ q \in Seq(Nodes)
      BY <1>2, <1>3 DEF StackInv, Simple
    <2>2. ~Prefix(p, q) /\ ~Prefix(q, p)
      BY <1>2, <1>3, <2>1 DEF StackInv
    <2>3. ~Prefix(e, q)
      BY <1>3, <1>6, <2>1, <2>2, PrefixBasics
    <2>4. q # e
      BY <2>3, <1>6, PrefixBasics
    <2>5. QED
      BY <1>6, <2>1, <2>2, <2>3, <2>4
  <1>8. /\ stack' \in Seq(Seq(Nodes)) /\ IsInjective(stack')
        /\ ToSet(stack') = ToSet(rest) \cup T
    <2>1. new \in Seq(T) /\ IsInjective(new) /\ ToSet(new) = T
      BY <1>1, <1>5, SeqOfSet
    <2>2. new \in Seq(Seq(Nodes))
      <3>1. T \subseteq Seq(Nodes)
        BY <1>6
      <3>2. QED
        BY <2>1, <3>1, SeqMonotonic
    <2>3. ToSet(rest) \cap ToSet(new) = {}
      BY <1>7, <2>1
    <2>4. QED
      BY <1>2, <1>3, <2>1, <2>2, <2>3, PushSet
  <1>9. StackInv'
    <2> SUFFICES ASSUME NEW q \in ToSet(rest) \cup T
                 PROVE  /\ Simple(q) /\ q[1] \in Roots /\ goal \in Goals
                        /\ <<goal, q[1]>> \notin searches
                        /\ \A n \in 1 .. Len(q) - 1 : q[n] # goal
                        /\ \A r \in (ToSet(rest) \cup T) \ {q} : ~Prefix(q, r)
                        /\ \A r \in ToSet(allPaths) : r[Len(r)] = goal => ~Prefix(q, r)
      BY <1>2, <1>8, SameGraph DEF StackInv
    <2>1. CASE q \in ToSet(rest)
      <3>1. q \in ToSet(stack) /\ ToSet(rest) \subseteq ToSet(stack)
        BY <1>3, <2>1
      <3>2. \A r \in T : ~Prefix(q, r)
        BY <1>7, <2>1
      <3>3. QED
        BY <1>2, <3>1, <3>2 DEF StackInv
    <2>2. CASE q \in T
      <3>1. \A r \in ToSet(rest) : ~Prefix(q, r)
        BY <1>7, <2>2
      <3>2. ASSUME NEW r \in T \ {q}, Prefix(q, r) PROVE FALSE
        BY <1>6, <2>2, <3>2, PrefixBasics
      <3>3. ASSUME NEW r \in ToSet(allPaths), r[Len(r)] = goal, Prefix(q, r) PROVE FALSE
        <4>1. r \in Seq(Nodes)
          BY <1>2, <3>3 DEF FoundInv, Simple
        <4>2. Prefix(p, r)
          BY <1>3, <1>6, <2>2, <3>3, <4>1, PrefixBasics
        <4>3. QED
          BY <1>2, <1>3, <3>3, <4>2 DEF StackInv
      <3>4. QED
        BY <1>4, <1>6, <2>2, <3>1, <3>2, <3>3
    <2>3. QED
      BY <2>1, <2>2
  <1>10. FoundInv'
    BY <1>2, SameGraph DEF FoundInv
  <1>11. NothingLost'
    <2> SUFFICES ASSUME NEW root \in Roots, NEW label \in Goals, NEW q, Path(q, root, label)
                 PROVE  \/ q \in ToSet(allPaths) \/ <<label, root>> \in searches
                        \/ label = goal /\ \E r \in ToSet(rest) \cup T : Prefix(r, q)
      BY <1>2, <1>8, SameGraph DEF NothingLost
    <2>1. \/ q \in ToSet(allPaths) \/ <<label, root>> \in searches
          \/ label = goal /\ \E r \in ToSet(stack) : Prefix(r, q)
      BY <1>2 DEF NothingLost
    <2>2. ASSUME label = goal, Prefix(p, q) PROVE \E r \in T : Prefix(r, q)
      <3>1. Simple(q) /\ q # p
        BY <1>4, <2>2 DEF Path
      <3>2. PICK c \in Nodes : /\ <<Last(p), c>> \in edges /\ c \notin ToSet(p)
                               /\ Prefix(Append(p, c), q)
        BY <1>4, <2>2, <3>1, GoesOn
      <3>3. QED
        BY <1>5, <3>2
    <2>3. QED
      BY <1>3, <2>1, <2>2
  <1>12. QED
    BY <1>2, <1>9, <1>10, <1>11, SameGraph DEF SearchInv

LEMMA ReportInv ==
  ASSUME SearchInv, Report
  PROVE  SearchInv'
  <1>1. /\ step = "search" /\ stack = << >> /\ searches = {} /\ step' = "printed"
        /\ UNCHANGED <<doc, spec, edges, searches, goal, stack, allPaths>>
    BY DEF Report
  <1>2. StackInv' /\ FoundInv' /\ NothingLost'
    BY <1>1, SameGraph DEF SearchInv, StackInv, FoundInv, NothingLost
  <1>3. QED
    BY <1>1, <1>2, SameGraph DEF SearchInv

\* The search never loses its way.
LEMMA SearchSafe == TraceSpec => []SearchInv
  <1>1. SearchInv /\ [TraceNext]_traceVars => SearchInv'
    <2> SUFFICES ASSUME SearchInv, [TraceNext]_traceVars PROVE SearchInv'
      OBVIOUS
    <2>1. CASE \E d \in Documents, asked \in Specs : Load(d, asked)
      BY <2>1, LoadInv
    <2>2. CASE \E s \in searches : Search(s)
      BY <2>2, SearchStarts
    <2>3. CASE Pop
      BY <2>3, PopFound, PopExtended
    <2>4. CASE Report
      BY <2>4, ReportInv
    <2>5. CASE UNCHANGED traceVars
      <3>1. UNCHANGED <<doc, spec, edges, searches, goal, stack, allPaths, step>>
        BY <2>5 DEF traceVars
      <3>2. StackInv' <=> StackInv
        BY <3>1, SameGraph DEF StackInv
      <3>3. FoundInv' <=> FoundInv
        BY <3>1, SameGraph DEF FoundInv
      <3>4. NothingLost' <=> NothingLost
        BY <3>1, SameGraph DEF NothingLost
      <3>5. QED
        BY <3>1, <3>2, <3>3, <3>4, SameGraph DEF SearchInv
    <2>6. QED
      BY <2>1, <2>2, <2>3, <2>4, <2>5 DEF TraceNext
  <1>2. QED
    BY <1>1, TraceInitInv, PTL DEF TraceSpec

-----------------------------------------------------------------------------
(* What is printed                                                          *)

\* A label in front of a sequence of labels, as a sequence.
IsFronted(c, r, n, rest) ==
  /\ c \in Seq(Nodes) /\ Len(c) = n + 1 /\ c[1] = r
  /\ \A m \in 1 .. n : c[m + 1] = rest[m]

LEMMA Fronted ==
  ASSUME NEW r \in Nodes, NEW n \in Nat, NEW rest \in [1 .. n -> Labels(doc)]
  PROVE  IsFronted(<<r>> \o rest, r, n, rest)
  <1>c. PICK c : c = <<r>> \o rest
    OBVIOUS
  <1>1. <<r>> \in Seq(Nodes) /\ rest \in Seq(Nodes) /\ Len(rest) = n /\ Len(<<r>>) = 1
    <2>1. rest \in [1 .. n -> Nodes]
      BY DEF Nodes
    <2>2. QED
      BY <2>1
  <1>2. /\ c \in Seq(Nodes) /\ Len(c) = 1 + n
        /\ \A i \in 1 .. 1 + n : c[i] = IF i <= 1 THEN r ELSE rest[i - 1]
    BY <1>1, <1>c, ConcatProperties
  <1>3. IsFronted(c, r, n, rest)
    BY <1>2 DEF IsFronted
  <1>4. QED
    BY <1>c, <1>3

\* Only the first label of a path is a workspace, so a path to a package asked
\* for has at least one label more than that, and at most all of them.
LEMMA PathIsChain ==
  ASSUME doc \in Documents, edges = EdgesOf(Text(doc)),
         NEW root \in Roots, NEW label \in Goals, NEW c, Path(c, root, label)
  PROVE  /\ \E n \in 1 .. Cardinality(Labels(doc)) : c \in Fronts(root, n)
         /\ Last(c) \in Sought(doc, spec) /\ IsChain(c)
  <1>1. PICK k \in Nat : k = Len(c) /\ k > 0 /\ DOMAIN c = 1 .. k
    BY DEF Path, Simple
  <1>2. /\ c \in Seq(Nodes) /\ IsInjective(c) /\ c[1] = root /\ c[k] = label /\ Last(c) = label
        /\ \A n \in 1 .. k - 1 : <<c[n], c[n + 1]>> \in edges
    BY <1>1 DEF Path, Simple, Last
  <1>3. \A n \in 1 .. k - 1 : c[n + 1] \in Labels(doc) /\ Depends(doc, c[n], c[n + 1])
    BY <1>2, GraphIs
  <1>4. PICK n \in Nat : n = k - 1
    BY <1>1
  <1>5. PICK rest : rest = [m \in 1 .. n |-> c[m + 1]]
    OBVIOUS
  <1>6. rest \in [1 .. n -> Labels(doc)] /\ \A m \in 1 .. n : rest[m] = c[m + 1]
    BY <1>3, <1>4, <1>5
  <1>7. n # 0
    BY <1>1, <1>2, <1>4, GraphIs
  <1>8. n <= Cardinality(Labels(doc))
    <2>1. rest \in Injection(1 .. n, Labels(doc))
      <3>1. ASSUME NEW i \in 1 .. n, NEW j \in 1 .. n, rest[i] = rest[j] PROVE i = j
        <4>1. i + 1 \in DOMAIN c /\ j + 1 \in DOMAIN c /\ c[i + 1] = c[j + 1]
          BY <1>1, <1>4, <1>6, <3>1
        <4>2. i + 1 = j + 1
          BY <1>2, <4>1 DEF IsInjective
        <4>3. QED
          BY <4>2
      <3>2. QED
        BY <1>6, <3>1 DEF Injection, IsInjective
    <2>2. Cardinality(1 .. n) = n /\ IsFiniteSet(1 .. n)
      BY FS_Interval
    <2>3. QED
      BY <2>1, <2>2, GraphIs, FS_Injection
  <1>9. c = <<root>> \o rest
    <2>1. PICK d : d = <<root>> \o rest
      OBVIOUS
    <2>2. /\ d \in Seq(Nodes) /\ Len(d) = n + 1 /\ d[1] = root
          /\ \A m \in 1 .. n : d[m + 1] = rest[m]
      BY <1>6, <2>1, Fronted DEF Nodes, IsFronted
    <2>3. \A m \in 1 .. k : m = 1 \/ (m - 1 \in 1 .. n /\ m = (m - 1) + 1)
      BY <1>4
    <2>4. \A m \in 1 .. k : c[m] = d[m]
      BY <1>2, <1>6, <2>2, <2>3
    <2>5. c = d
      BY <1>1, <1>2, <1>4, <2>2, <2>4
    <2>6. QED
      BY <2>1, <2>5
  <1>10. IsChain(c)
    BY <1>1, <1>2, <1>3 DEF IsChain, IsInjective
  <1>11. n \in 1 .. Cardinality(Labels(doc))
    <2>1. Cardinality(Labels(doc)) \in Nat
      BY GraphIs, FS_CardinalityType
    <2>2. QED
      BY <1>7, <1>8, <2>1
  <1>12. QED
    BY <1>2, <1>6, <1>9, <1>10, <1>11 DEF Goals, Fronts

LEMMA ChainIsPath ==
  ASSUME doc \in Documents, edges = EdgesOf(Text(doc)),
         NEW n \in 1 .. Cardinality(Labels(doc)), NEW r \in Roots,
         NEW c \in Fronts(r, n), Last(c) \in Sought(doc, spec), IsChain(c)
  PROVE  Path(c, r, Last(c)) /\ Last(c) \in Goals
  <1>1. n \in Nat
    OBVIOUS
  <1>r. PICK rest \in [1 .. n -> Labels(doc)] : c = <<r>> \o rest
    BY DEF Fronts
  <1>2. /\ c \in Seq(Nodes) /\ Len(c) = n + 1 /\ c[1] = r /\ DOMAIN c = 1 .. n + 1
        /\ \A m \in 1 .. n : c[m + 1] = rest[m]
    <2>1. r \in Nodes
      BY DEF Nodes
    <2>2. IsFronted(c, r, n, rest)
      BY <1>1, <1>r, <2>1, Fronted
    <2>3. QED
      BY <1>1, <2>2 DEF IsFronted
  <1>3. ASSUME NEW m \in 1 .. n PROVE <<c[m], c[m + 1]>> \in edges
    <2>1. c[m] \in Nodes /\ c[m + 1] \in Labels(doc)
      BY <1>1, <1>2
    <2>2. Depends(doc, c[m], c[m + 1])
      BY <1>1, <1>2 DEF IsChain
    <2>3. QED
      BY <2>1, <2>2, GraphIs
  <1>4. IsInjective(c)
    BY DEF IsChain, IsInjective
  <1>5. Simple(c)
    BY <1>1, <1>2, <1>3, <1>4 DEF Simple
  <1>6. QED
    BY <1>2, <1>5 DEF Path, Last, Goals

LEMMA FoundAreExact ==
  ASSUME SearchInv
  PROVE  TraceExact
  <1> DEFINE chains == UNION {Fronts(r, n) : r \in Roots, n \in 1 .. Cardinality(Labels(doc))}
  <1>c. \A c : c \in chains <=> \E r \in Roots, n \in 1 .. Cardinality(Labels(doc)) : c \in Fronts(r, n)
    OBVIOUS
  <1> HIDE DEF chains
  <1>p. SUFFICES ASSUME step = "printed"
                 PROVE  /\ Cardinality(ToSet(allPaths)) = Len(allPaths)
                        /\ ToSet(allPaths) = {c \in chains : Last(c) \in Sought(doc, spec) /\ IsChain(c)}
    BY DEF TraceExact, chains
  <1>1. /\ doc \in Documents /\ spec \in Specs /\ edges = EdgesOf(Text(doc))
        /\ FoundInv /\ NothingLost /\ stack = << >> /\ searches = {}
    BY <1>p DEF SearchInv
  <1>2. Cardinality(ToSet(allPaths)) = Len(allPaths)
    BY <1>1, LengthOfDistinct DEF FoundInv
  <1>3. ASSUME NEW c \in ToSet(allPaths)
        PROVE  c \in chains /\ Last(c) \in Sought(doc, spec) /\ IsChain(c)
    <2>1. PICK root \in Roots, label \in Goals : Path(c, root, label)
      BY <1>1 DEF FoundInv, Path
    <2>2. PICK n \in 1 .. Cardinality(Labels(doc)) : c \in Fronts(root, n)
      BY <1>1, <2>1, PathIsChain
    <2>3. c \in chains
      BY <1>c, <2>2
    <2>4. QED
      BY <1>1, <2>1, <2>3, PathIsChain
  <1>4. ASSUME NEW c \in chains, Last(c) \in Sought(doc, spec), IsChain(c)
        PROVE  c \in ToSet(allPaths)
    <2>1. PICK r \in Roots, n \in 1 .. Cardinality(Labels(doc)) : c \in Fronts(r, n)
      BY <1>c, <1>4
    <2>2. Path(c, r, Last(c)) /\ Last(c) \in Goals
      BY <1>1, <1>4, <2>1, ChainIsPath
    <2>3. ToSet(stack) = {}
      BY <1>1 DEF ToSet
    <2>4. QED
      BY <1>1, <2>2, <2>3 DEF NothingLost
  <1>5. QED
    BY <1>2, <1>3, <1>4

\* Every simple chain of dependencies from a workspace to a package that
\* matches is reported once and nothing else is (tracePackage).
THEOREM TraceExactCorrect == TraceSpec => []TraceExact
  <1>1. SearchInv => TraceExact
    BY FoundAreExact
  <1>2. QED
    BY <1>1, SearchSafe, PTL

-----------------------------------------------------------------------------
(* Licence expressions.  The parser and the grammar are recursive functions: *)
(* that there are such functions, and that they have the values their        *)
(* definitions give, follows from a measure their calls lower.               *)

\* A call that succeeds has read something; a loop may have read nothing.
Advances(r, text, from) ==
  r \in [ok : BOOLEAN, pos : Nat] /\ (r.ok => from < r.pos /\ r.pos <= Len(text) + 1)

Continues(r, text, from) ==
  /\ r \in [ok : BOOLEAN, pos : Nat]
  /\ r.ok /\ from <= Len(text) + 1 => from <= r.pos /\ r.pos <= Len(text) + 1

Returns(call, r) ==
  IF call[1] \in {"and", "or"} THEN Advances(r, call[2], call[3]) ELSE Continues(r, call[2], call[3])

OfParse   == INSTANCE RecursiveFunctions WITH Def <- Called, Good <- Returns
OfGrammar == INSTANCE RecursiveFunctions WITH Def <- Derived, Good <- AnyValue

\* What is left to read, and with it how far a call is from its end.
Room(text, pos) == IF pos <= Len(text) + 1 THEN 2 * ((Len(text) + 2) - pos) ELSE 0

SizeOf(call) == IF call[1] = "or" THEN Room(call[2], call[3]) + 1 ELSE Room(call[2], call[3])

callSize == [call \in Calls |-> SizeOf(call)]

LEMMA RoomIs ==
  ASSUME NEW text \in Seq(Tokens), NEW pos \in Nat
  PROVE  /\ Len(text) \in Nat /\ Room(text, pos) \in Nat
         /\ \A q \in Nat : pos < q /\ q <= Len(text) + 1 =>
              Room(text, q) \in Nat /\ Room(text, q) + 1 < Room(text, pos) /\ Room(text, q) < Room(text, pos)
  <1>1. Len(text) \in Nat
    OBVIOUS
  <1>2. QED
    BY <1>1 DEF Room

LEMMA SizesAre ==
  ASSUME NEW text \in Seq(Tokens), NEW pos \in Nat
  PROVE  /\ <<"and", text, pos>> \in Calls /\ callSize[<<"and", text, pos>>] = Room(text, pos)
         /\ <<"andLoop", text, pos>> \in Calls /\ callSize[<<"andLoop", text, pos>>] = Room(text, pos)
         /\ <<"or", text, pos>> \in Calls /\ callSize[<<"or", text, pos>>] = Room(text, pos) + 1
         /\ <<"orLoop", text, pos>> \in Calls /\ callSize[<<"orLoop", text, pos>>] = Room(text, pos)
  BY DEF callSize, SizeOf, Calls

LEMMA CallParts ==
  ASSUME NEW call \in Calls
  PROVE  /\ call[1] \in {"and", "andLoop", "or", "orLoop"} /\ call[2] \in Seq(Tokens) /\ call[3] \in Nat
         /\ call = <<call[1], call[2], call[3]>>
  BY DEF Calls

LEMMA CallSizeTyped == callSize \in [Calls -> Nat]
  <1>1. \A call \in Calls : SizeOf(call) \in Nat
    BY CallParts, RoomIs DEF SizeOf
  <1>2. QED
    BY <1>1 DEF callSize

\* g and h agree on the calls of size below bound, and return what calls return.
Agree(g, h, bound) ==
  \A w \in Calls : callSize[w] < bound => g[w] = h[w] /\ Returns(w, g[w])

LEMMA SimpleAgrees ==
  ASSUME NEW g, NEW h, NEW text \in Seq(Tokens), NEW pos \in Nat, Agree(g, h, Room(text, pos))
  PROVE  /\ parseSimpleExpr(g, text, pos) = parseSimpleExpr(h, text, pos)
         /\ Advances(parseSimpleExpr(g, text, pos), text, pos)
  <1>1. Len(text) \in Nat
    OBVIOUS
  <1>2. CASE At(text, pos, "(")
    <2>1. pos + 1 \in Nat /\ pos < pos + 1 /\ pos + 1 <= Len(text) + 1 /\ pos <= Len(text)
      BY <1>1, <1>2 DEF At
    <2>2. PICK call : call = <<"or", text, pos + 1>>
      OBVIOUS
    <2>3. call \in Calls /\ callSize[call] < Room(text, pos)
      BY <2>1, <2>2, RoomIs, SizesAre
    <2>4. g[call] = h[call] /\ Returns(call, g[call])
      BY <2>3 DEF Agree
    <2>5. PICK inner : inner = g[call]
      OBVIOUS
    <2>6. /\ inner \in [ok : BOOLEAN, pos : Nat]
          /\ inner.ok => pos + 1 < inner.pos
      BY <2>2, <2>4, <2>5 DEF Returns, Advances
    <2>7. \A f : f[call] = inner =>
            parseSimpleExpr(f, text, pos) =
              IF inner.ok /\ At(text, inner.pos, ")") THEN Parsed(inner.pos + 1) ELSE Failed(inner.pos)
      BY <1>2, <2>2 DEF parseSimpleExpr
    <2>8. CASE inner.ok /\ At(text, inner.pos, ")")
      <3>1. parseSimpleExpr(g, text, pos) = Parsed(inner.pos + 1)
            /\ parseSimpleExpr(h, text, pos) = Parsed(inner.pos + 1)
        BY <2>4, <2>5, <2>7, <2>8
      <3>2. Advances(Parsed(inner.pos + 1), text, pos)
        BY <1>1, <2>1, <2>6, <2>8 DEF Advances, Parsed, At
      <3>3. QED
        BY <3>1, <3>2
    <2>9. CASE ~(inner.ok /\ At(text, inner.pos, ")"))
      <3>1. parseSimpleExpr(g, text, pos) = Failed(inner.pos)
            /\ parseSimpleExpr(h, text, pos) = Failed(inner.pos)
        BY <2>4, <2>5, <2>7, <2>9
      <3>2. Advances(Failed(inner.pos), text, pos)
        BY <2>6 DEF Advances, Failed
      <3>3. QED
        BY <3>1, <3>2
    <2>10. QED
      BY <2>8, <2>9
  <1>3. CASE ~At(text, pos, "(")
    <2>1. \A f : parseSimpleExpr(f, text, pos) =
                   IF pos <= Len(text) /\ isLicenseId(text[pos]) THEN Parsed(pos + 1) ELSE Failed(pos)
      BY <1>3 DEF parseSimpleExpr
    <2>2. Advances(Failed(pos), text, pos) /\ (pos <= Len(text) => Advances(Parsed(pos + 1), text, pos))
      BY <1>1 DEF Advances, Parsed, Failed
    <2>3. QED
      BY <2>1, <2>2
  <1>4. QED
    BY <1>2, <1>3

LEMMA WithAgrees ==
  ASSUME NEW g, NEW h, NEW text \in Seq(Tokens), NEW pos \in Nat, Agree(g, h, Room(text, pos))
  PROVE  /\ parseWithExpr(g, text, pos) = parseWithExpr(h, text, pos)
         /\ Advances(parseWithExpr(g, text, pos), text, pos)
  <1>1. PICK simple : simple = parseSimpleExpr(g, text, pos)
    OBVIOUS
  <1>2. simple = parseSimpleExpr(h, text, pos) /\ Advances(simple, text, pos) /\ Len(text) \in Nat
    BY <1>1, SimpleAgrees
  <1>3. \A f : parseSimpleExpr(f, text, pos) = simple =>
          parseWithExpr(f, text, pos) =
            IF ~simple.ok \/ ~At(text, simple.pos, "WITH") THEN simple
            ELSE IF simple.pos + 1 <= Len(text) /\ isExceptionId(text[simple.pos + 1])
                 THEN Parsed((simple.pos + 1) + 1) ELSE Failed(simple.pos + 1)
    BY DEF parseWithExpr
  <1>4. CASE ~simple.ok \/ ~At(text, simple.pos, "WITH")
    BY <1>1, <1>2, <1>3, <1>4
  <1>5. CASE simple.ok /\ At(text, simple.pos, "WITH")
    <2>1. simple.pos \in Nat /\ pos < simple.pos
      BY <1>2, <1>5 DEF Advances
    <2>2. /\ Advances(Failed(simple.pos + 1), text, pos)
          /\ simple.pos + 1 <= Len(text) => Advances(Parsed((simple.pos + 1) + 1), text, pos)
      BY <1>2, <2>1 DEF Advances, Parsed, Failed
    <2>3. PICK r : r = IF simple.pos + 1 <= Len(text) /\ isExceptionId(text[simple.pos + 1])
                       THEN Parsed((simple.pos + 1) + 1) ELSE Failed(simple.pos + 1)
      OBVIOUS
    <2>4. parseWithExpr(g, text, pos) = r /\ parseWithExpr(h, text, pos) = r
      BY <1>1, <1>2, <1>3, <1>5, <2>3
    <2>5. Advances(r, text, pos)
      BY <2>2, <2>3
    <2>6. QED
      BY <2>4, <2>5
  <1>6. QED
    BY <1>4, <1>5

LEMMA AndAgrees ==
  ASSUME NEW g, NEW h, NEW text \in Seq(Tokens), NEW pos \in Nat, Agree(g, h, Room(text, pos))
  PROVE  /\ parseAndExpr(g, text, pos) = parseAndExpr(h, text, pos)
         /\ Advances(parseAndExpr(g, text, pos), text, pos)
  <1>1. PICK operand : operand = parseWithExpr(g, text, pos)
    OBVIOUS
  <1>2. operand = parseWithExpr(h, text, pos) /\ Advances(operand, text, pos) /\ Len(text) \in Nat
    BY <1>1, WithAgrees
  <1>3. \A f : parseWithExpr(f, text, pos) = operand =>
          parseAndExpr(f, text, pos) = IF operand.ok THEN f[<<"andLoop", text, operand.pos>>] ELSE operand
    BY DEF parseAndExpr, Behind
  <1>4. CASE operand.ok
    <2>1. operand.pos \in Nat /\ pos < operand.pos /\ operand.pos <= Len(text) + 1
      BY <1>2, <1>4 DEF Advances
    <2>2. PICK call : call = <<"andLoop", text, operand.pos>>
      OBVIOUS
    <2>3. Room(text, operand.pos) < Room(text, pos)
      BY <2>1, RoomIs
    <2>4. call \in Calls /\ callSize[call] < Room(text, pos)
      BY <2>1, <2>2, <2>3, SizesAre
    <2>5. g[call] = h[call] /\ Returns(call, g[call])
      BY <2>4 DEF Agree
    <2>6. Continues(g[call], text, operand.pos)
      BY <2>2, <2>5 DEF Returns
    <2>7. Advances(g[call], text, pos)
      BY <1>2, <2>1, <2>6 DEF Advances, Continues
    <2>8. QED
      BY <1>1, <1>2, <1>3, <1>4, <2>2, <2>5, <2>7
  <1>5. CASE ~operand.ok
    BY <1>1, <1>2, <1>3, <1>5
  <1>6. QED
    BY <1>4, <1>5

LEMMA OrAgrees ==
  ASSUME NEW g, NEW h, NEW text \in Seq(Tokens), NEW pos \in Nat, Agree(g, h, Room(text, pos) + 1)
  PROVE  /\ parseOrExpr(g, text, pos) = parseOrExpr(h, text, pos)
         /\ Advances(parseOrExpr(g, text, pos), text, pos)
  <1>0. Room(text, pos) \in Nat /\ Len(text) \in Nat
    BY RoomIs
  <1>1. PICK first : first = <<"and", text, pos>>
    OBVIOUS
  <1>2. first \in Calls /\ callSize[first] < Room(text, pos) + 1
    <2>1. first \in Calls /\ callSize[first] = Room(text, pos)
      BY <1>1, SizesAre
    <2>2. QED
      BY <1>0, <2>1
  <1>3. g[first] = h[first] /\ Returns(first, g[first])
    BY <1>2 DEF Agree
  <1>4. PICK operand : operand = g[first]
    OBVIOUS
  <1>5. Advances(operand, text, pos)
    BY <1>1, <1>3, <1>4 DEF Returns
  <1>6. \A f : f[first] = operand =>
          parseOrExpr(f, text, pos) = IF operand.ok THEN f[<<"orLoop", text, operand.pos>>] ELSE operand
    BY <1>1 DEF parseOrExpr, Behind
  <1>7. CASE operand.ok
    <2>1. operand.pos \in Nat /\ pos < operand.pos /\ operand.pos <= Len(text) + 1
      BY <1>5, <1>7 DEF Advances
    <2>2. PICK call : call = <<"orLoop", text, operand.pos>>
      OBVIOUS
    <2>3. Room(text, operand.pos) < Room(text, pos) + 1
      <3>1. Room(text, operand.pos) \in Nat /\ Room(text, operand.pos) < Room(text, pos)
        BY <2>1, RoomIs
      <3>2. QED
        BY <1>0, <3>1
    <2>4. call \in Calls /\ callSize[call] < Room(text, pos) + 1
      BY <2>1, <2>2, <2>3, SizesAre
    <2>5. g[call] = h[call] /\ Returns(call, g[call])
      BY <2>4 DEF Agree
    <2>6. Continues(g[call], text, operand.pos)
      BY <2>2, <2>5 DEF Returns
    <2>7. Advances(g[call], text, pos)
      BY <1>0, <2>1, <2>6 DEF Advances, Continues
    <2>8. QED
      BY <1>3, <1>4, <1>6, <1>7, <2>2, <2>5, <2>7
  <1>8. CASE ~operand.ok
    BY <1>3, <1>4, <1>5, <1>6, <1>8
  <1>9. QED
    BY <1>7, <1>8

LEMMA ParserLocal == OfParse!Local(Calls, callSize)
  <1> SUFFICES ASSUME NEW call \in Calls, NEW g, NEW h, Agree(g, h, callSize[call])
               PROVE  Called(g, call) = Called(h, call) /\ Returns(call, Called(g, call))
    BY DEF OfParse!Local, Agree
  <1>1. PICK text \in Seq(Tokens), pos \in Nat : text = call[2] /\ pos = call[3]
    BY CallParts
  <1>2. Room(text, pos) \in Nat /\ Len(text) \in Nat
    BY RoomIs
  <1>3. CASE call[1] = "and"
    <2>1. callSize[call] = Room(text, pos)
      <3>1. call = <<"and", text, pos>>
        BY <1>1, <1>3, CallParts
      <3>2. QED
        BY <3>1, SizesAre
    <2>2. \A f : Called(f, call) = parseAndExpr(f, text, pos)
      BY <1>1, <1>3 DEF Called
    <2>3. QED
      BY <1>1, <1>3, <2>1, <2>2, AndAgrees DEF Returns
  <1>4. CASE call[1] = "or"
    <2>1. callSize[call] = Room(text, pos) + 1
      <3>1. call = <<"or", text, pos>>
        BY <1>1, <1>4, CallParts
      <3>2. QED
        BY <3>1, SizesAre
    <2>2. \A f : Called(f, call) = parseOrExpr(f, text, pos)
      BY <1>1, <1>4 DEF Called
    <2>3. QED
      BY <1>1, <1>4, <2>1, <2>2, OrAgrees DEF Returns
  <1>5. ASSUME NEW token, At(text, pos, token), callSize[call] = Room(text, pos)
        PROVE  /\ pos + 1 \in Nat /\ pos <= Len(text)
               /\ Agree(g, h, Room(text, pos + 1)) /\ Agree(g, h, Room(text, pos + 1) + 1)
    <2>1. pos + 1 \in Nat /\ pos <= Len(text)
      BY <1>5 DEF At
    <2>2. Room(text, pos + 1) + 1 < Room(text, pos) /\ Room(text, pos + 1) \in Nat
      BY <1>2, <2>1, RoomIs
    <2>3. \A w \in Calls : callSize[w] \in Nat
      BY CallSizeTyped
    <2>4. QED
      BY <1>2, <1>5, <2>1, <2>2, <2>3 DEF Agree
  <1>6. ASSUME NEW r, Advances(r, text, pos + 1), pos <= Len(text)
        PROVE  Continues(r, text, pos)
    BY <1>2, <1>6 DEF Advances, Continues
  <1>7. Continues(Parsed(pos), text, pos)
    BY <1>2 DEF Continues, Parsed
  <1>8. CASE call[1] = "andLoop"
    <2>1. callSize[call] = Room(text, pos)
      <3>1. call = <<"andLoop", text, pos>>
        BY <1>1, <1>8, CallParts
      <3>2. QED
        BY <3>1, SizesAre
    <2>2. \A f : Called(f, call) = IF At(text, pos, "AND") THEN parseAndExpr(f, text, pos + 1) ELSE Parsed(pos)
      BY <1>1, <1>8 DEF Called, parseAndLoop
    <2>3. CASE At(text, pos, "AND")
      <3>1. /\ parseAndExpr(g, text, pos + 1) = parseAndExpr(h, text, pos + 1)
            /\ Advances(parseAndExpr(g, text, pos + 1), text, pos + 1) /\ pos <= Len(text)
        BY <1>5, <2>1, <2>3, AndAgrees
      <3>2. QED
        BY <1>1, <1>6, <1>8, <2>2, <2>3, <3>1 DEF Returns
    <2>4. CASE ~At(text, pos, "AND")
      BY <1>1, <1>7, <1>8, <2>2, <2>4 DEF Returns
    <2>5. QED
      BY <2>3, <2>4
  <1>9. CASE call[1] = "orLoop"
    <2>1. callSize[call] = Room(text, pos)
      <3>1. call = <<"orLoop", text, pos>>
        BY <1>1, <1>9, CallParts
      <3>2. QED
        BY <3>1, SizesAre
    <2>2. \A f : Called(f, call) = IF At(text, pos, "OR") THEN parseOrExpr(f, text, pos + 1) ELSE Parsed(pos)
      BY <1>1, <1>9 DEF Called, parseOrLoop
    <2>3. CASE At(text, pos, "OR")
      <3>1. /\ parseOrExpr(g, text, pos + 1) = parseOrExpr(h, text, pos + 1)
            /\ Advances(parseOrExpr(g, text, pos + 1), text, pos + 1) /\ pos <= Len(text)
        BY <1>5, <2>1, <2>3, OrAgrees
      <3>2. QED
        BY <1>1, <1>6, <1>9, <2>2, <2>3, <3>1 DEF Returns
    <2>4. CASE ~At(text, pos, "OR")
      BY <1>1, <1>7, <1>9, <2>2, <2>4 DEF Returns
    <2>5. QED
      BY <2>3, <2>4
  <1>10. QED
    BY <1>3, <1>4, <1>8, <1>9, CallParts

\* So the parser is what its definition says, and reads on.
LEMMA ParseDef ==
  /\ \A call \in Calls : parse[call] = Called(parse, call)
  /\ \A call \in Calls : Returns(call, parse[call])
  <1>1. \E f : f = [call \in Calls |-> Called(f, call)]
    BY ParserLocal, CallSizeTyped, OfParse!FunctionExists
  <1>2. parse = [call \in Calls |-> Called(parse, call)]
    BY <1>1 DEF parse
  <1>3. \A call \in Calls : Returns(call, parse[call])
    BY <1>2, ParserLocal, CallSizeTyped, OfParse!ValuesGood
  <1>4. QED
    BY <1>2, <1>3

-----------------------------------------------------------------------------
(* The grammar is what its definition says.                                  *)

Span(m, n) == IF m <= n THEN 2 * (n - m) ELSE 0

SizeOfSentence(s) == IF s[1] = "or" THEN Span(s[3], s[4]) + 1 ELSE Span(s[3], s[4])

sentenceSize == [s \in Sentences |-> SizeOfSentence(s)]

LEMMA SpanIs ==
  ASSUME NEW m \in Nat, NEW n \in Nat
  PROVE  /\ Span(m, n) \in Nat
         /\ \A a, b \in Nat : m <= a /\ a <= b /\ b <= n /\ (m < a \/ b < n) =>
              Span(a, b) \in Nat /\ Span(a, b) + 1 < Span(m, n) /\ Span(a, b) < Span(m, n)
  BY DEF Span

LEMMA SentencesAre ==
  ASSUME NEW text \in Seq(Tokens), NEW m \in Nat, NEW n \in Nat
  PROVE  /\ <<"and", text, m, n>> \in Sentences /\ sentenceSize[<<"and", text, m, n>>] = Span(m, n)
         /\ <<"or", text, m, n>> \in Sentences /\ sentenceSize[<<"or", text, m, n>>] = Span(m, n) + 1
  BY DEF sentenceSize, SizeOfSentence, Sentences

LEMMA SentenceParts ==
  ASSUME NEW s \in Sentences
  PROVE  /\ s[1] \in {"and", "or"} /\ s[2] \in Seq(Tokens) /\ s[3] \in Nat /\ s[4] \in Nat
         /\ s = <<s[1], s[2], s[3], s[4]>>
  BY DEF Sentences

LEMMA SentenceSizeTyped == sentenceSize \in [Sentences -> Nat]
  <1>1. \A s \in Sentences : SizeOfSentence(s) \in Nat
    BY SentenceParts, SpanIs DEF SizeOfSentence
  <1>2. QED
    BY <1>1 DEF sentenceSize

AgreeOn(g, h, text, a, b) ==
  g[<<"or", text, a, b>>] = h[<<"or", text, a, b>>] /\ g[<<"and", text, a, b>>] = h[<<"and", text, a, b>>]

\* g and h agree on the sentences shorter than from m to n.
AgreeWithin(g, h, text, m, n) ==
  \A a, b \in Nat : m <= a /\ a <= b /\ b <= n /\ (m < a \/ b < n) => AgreeOn(g, h, text, a, b)

LEMMA WithWithin ==
  ASSUME NEW g, NEW h, NEW text, NEW m \in Nat, NEW n \in Nat, AgreeWithin(g, h, text, m, n),
         NEW a \in Nat, m <= a
  PROVE  WithSentence(g, text, a, n) <=> WithSentence(h, text, a, n)
  <1>1. ASSUME NEW b \in Nat, b <= n
        PROVE  SimpleSentence(g, text, a, b) <=> SimpleSentence(h, text, a, b)
    <2>1. ASSUME a + 2 < b
          PROVE  g[<<"or", text, a + 1, b - 1>>] = h[<<"or", text, a + 1, b - 1>>]
      <3>1. a + 1 \in Nat /\ b - 1 \in Nat /\ m <= a + 1 /\ a + 1 <= b - 1 /\ b - 1 <= n /\ m < a + 1
        BY <1>1, <2>1
      <3>2. AgreeOn(g, h, text, a + 1, b - 1)
        BY <3>1 DEF AgreeWithin
      <3>3. QED
        BY <3>2 DEF AgreeOn
    <2>2. QED
      BY <2>1 DEF SimpleSentence
  <1>2. SimpleSentence(g, text, a, n) <=> SimpleSentence(h, text, a, n)
    BY <1>1
  <1>3. a + 2 < n => (SimpleSentence(g, text, a, n - 2) <=> SimpleSentence(h, text, a, n - 2))
    BY <1>1
  <1>4. QED
    BY <1>2, <1>3 DEF WithSentence

LEMMA GrammarLocal == OfGrammar!Local(Sentences, sentenceSize)
  <1> SUFFICES ASSUME NEW s \in Sentences, NEW g, NEW h,
                      \A w \in Sentences : sentenceSize[w] < sentenceSize[s] => g[w] = h[w]
               PROVE  Derived(g, s) = Derived(h, s)
    BY DEF OfGrammar!Local, AnyValue
  <1>1. PICK text \in Seq(Tokens), m \in Nat, n \in Nat : text = s[2] /\ m = s[3] /\ n = s[4]
    BY SentenceParts
  <1>2. Span(m, n) \in Nat
    BY SpanIs
  <1>3. sentenceSize[s] = IF s[1] = "or" THEN Span(m, n) + 1 ELSE Span(m, n)
    BY <1>1 DEF sentenceSize, SizeOfSentence
  <1>4. AgreeWithin(g, h, text, m, n)
    <2>1. ASSUME NEW a \in Nat, NEW b \in Nat, m <= a, a <= b, b <= n, m < a \/ b < n
          PROVE  AgreeOn(g, h, text, a, b)
      <3>1. Span(a, b) \in Nat /\ Span(a, b) + 1 < Span(m, n)
        BY <2>1, SpanIs
      <3>2. PICK l, r : l = <<"or", text, a, b>> /\ r = <<"and", text, a, b>>
        OBVIOUS
      <3>3. /\ l \in Sentences /\ sentenceSize[l] = Span(a, b) + 1
            /\ r \in Sentences /\ sentenceSize[r] = Span(a, b)
        BY <3>2, SentencesAre
      <3>4. sentenceSize[l] < sentenceSize[s] /\ sentenceSize[r] < sentenceSize[s]
        <4>1. Span(m, n) <= sentenceSize[s]
          BY <1>2, <1>3
        <4>2. sentenceSize[s] \in Nat
          BY <1>2, <1>3
        <4>3. QED
          BY <1>2, <3>1, <3>3, <4>1, <4>2
      <3>5. QED
        BY <3>2, <3>3, <3>4 DEF AgreeOn
    <2>2. QED
      BY <2>1 DEF AgreeWithin
  <1>5. CASE s[1] = "and"
    <2>1. \A f : Derived(f, s) = AndSentence(f, text, m, n)
      BY <1>1, <1>5 DEF Derived
    <2>2. WithSentence(g, text, m, n) <=> WithSentence(h, text, m, n)
      BY <1>4, WithWithin
    <2>3. ASSUME NEW k \in m .. n - 1
          PROVE  /\ g[<<"and", text, m, k>>] = h[<<"and", text, m, k>>]
                 /\ WithSentence(g, text, k + 1, n) <=> WithSentence(h, text, k + 1, n)
      <3>1. k \in Nat /\ m <= k /\ k < n /\ k <= n /\ k + 1 \in Nat /\ m <= k + 1
        OBVIOUS
      <3>2. AgreeOn(g, h, text, m, k)
        BY <1>4, <3>1 DEF AgreeWithin
      <3>3. WithSentence(g, text, k + 1, n) <=> WithSentence(h, text, k + 1, n)
        BY <1>4, <3>1, WithWithin
      <3>4. QED
        BY <3>2, <3>3 DEF AgreeOn
    <2>4. QED
      BY <2>1, <2>2, <2>3 DEF AndSentence
  <1>6. CASE s[1] = "or"
    <2>1. \A f : Derived(f, s) = OrSentence(f, text, m, n)
      BY <1>1, <1>6 DEF Derived
    <2>2. g[<<"and", text, m, n>>] = h[<<"and", text, m, n>>]
      <3>1. PICK r : r = <<"and", text, m, n>>
        OBVIOUS
      <3>2. r \in Sentences /\ sentenceSize[r] = Span(m, n)
        BY <3>1, SentencesAre
      <3>3. QED
        BY <1>2, <1>3, <1>6, <3>1, <3>2
    <2>3. ASSUME NEW k \in m .. n - 1
          PROVE  /\ g[<<"or", text, m, k>>] = h[<<"or", text, m, k>>]
                 /\ g[<<"and", text, k + 1, n>>] = h[<<"and", text, k + 1, n>>]
      <3>1. k \in Nat /\ m <= k /\ k < n /\ k <= n /\ k + 1 \in Nat /\ m < k + 1 /\ k + 1 <= n
        OBVIOUS
      <3>2. AgreeOn(g, h, text, m, k) /\ AgreeOn(g, h, text, k + 1, n)
        BY <1>4, <3>1 DEF AgreeWithin
      <3>3. QED
        BY <3>2 DEF AgreeOn
    <2>4. QED
      BY <2>1, <2>2, <2>3 DEF OrSentence
  <1>7. QED
    BY <1>5, <1>6, SentenceParts

LEMMA DerivesDef ==
  ASSUME NEW text \in Seq(Tokens), NEW m \in Nat, NEW n \in Nat
  PROVE  /\ derives[<<"and", text, m, n>>] <=> AndSentence(derives, text, m, n)
         /\ derives[<<"or", text, m, n>>] <=> OrSentence(derives, text, m, n)
  <1>1. \E f : f = [s \in Sentences |-> Derived(f, s)]
    BY GrammarLocal, SentenceSizeTyped, OfGrammar!FunctionExists
  <1>2. derives = [s \in Sentences |-> Derived(derives, s)]
    BY <1>1 DEF derives
  <1>3. PICK l, r : l = <<"and", text, m, n>> /\ r = <<"or", text, m, n>>
    OBVIOUS
  <1>4. l \in Sentences /\ r \in Sentences
    BY <1>3, SentencesAre
  <1>5. derives[l] = Derived(derives, l) /\ derives[r] = Derived(derives, r)
    BY <1>2, <1>4
  <1>6. Derived(derives, l) = AndSentence(derives, text, m, n)
    BY <1>3 DEF Derived
  <1>7. Derived(derives, r) = OrSentence(derives, text, m, n)
    BY <1>3 DEF Derived
  <1>8. QED
    BY <1>3, <1>5, <1>6, <1>7

-----------------------------------------------------------------------------
(* The parser accepts sentences of the grammar only.                         *)

AndCall(text, pos)     == parse[<<"and", text, pos>>]
AndLoopCall(text, pos) == parse[<<"andLoop", text, pos>>]
OrCall(text, pos)      == parse[<<"or", text, pos>>]
OrLoopCall(text, pos)  == parse[<<"orLoop", text, pos>>]

AndDerived(text, m, n) == derives[<<"and", text, m, n>>]
OrDerived(text, m, n)  == derives[<<"or", text, m, n>>]

LEMMA CallsAre ==
  ASSUME NEW text \in Seq(Tokens), NEW pos \in Nat
  PROVE  /\ AndCall(text, pos) = Behind(parse, "andLoop", text, parseWithExpr(parse, text, pos))
         /\ AndLoopCall(text, pos) = IF At(text, pos, "AND") THEN AndCall(text, pos + 1) ELSE Parsed(pos)
         /\ OrCall(text, pos) = Behind(parse, "orLoop", text, AndCall(text, pos))
         /\ OrLoopCall(text, pos) = IF At(text, pos, "OR") THEN OrCall(text, pos + 1) ELSE Parsed(pos)
         /\ Advances(AndCall(text, pos), text, pos) /\ Advances(OrCall(text, pos), text, pos)
  <1>1. ASSUME NEW at \in Nat
        PROVE  /\ AndCall(text, at) = parseAndExpr(parse, text, at)
               /\ OrCall(text, at) = parseOrExpr(parse, text, at)
               /\ AndLoopCall(text, at) = parseAndLoop(parse, text, at)
               /\ OrLoopCall(text, at) = parseOrLoop(parse, text, at)
               /\ Advances(AndCall(text, at), text, at) /\ Advances(OrCall(text, at), text, at)
    <2>1. PICK and, andLoop, or, orLoop :
            /\ and = <<"and", text, at>> /\ andLoop = <<"andLoop", text, at>>
            /\ or = <<"or", text, at>> /\ orLoop = <<"orLoop", text, at>>
      OBVIOUS
    <2>2. and \in Calls /\ andLoop \in Calls /\ or \in Calls /\ orLoop \in Calls
      BY <2>1, SizesAre
    <2>3. /\ parse[and] = Called(parse, and) /\ parse[andLoop] = Called(parse, andLoop)
          /\ parse[or] = Called(parse, or) /\ parse[orLoop] = Called(parse, orLoop)
          /\ Returns(and, parse[and]) /\ Returns(or, parse[or])
      BY <2>2, ParseDef
    <2>4. /\ Called(parse, and) = parseAndExpr(parse, text, at)
          /\ Called(parse, andLoop) = parseAndLoop(parse, text, at)
          /\ Called(parse, or) = parseOrExpr(parse, text, at)
          /\ Called(parse, orLoop) = parseOrLoop(parse, text, at)
      BY <2>1 DEF Called
    <2>5. Advances(parse[and], text, at) /\ Advances(parse[or], text, at)
      BY <2>1, <2>3 DEF Returns
    <2>6. /\ AndCall(text, at) = parse[and] /\ AndLoopCall(text, at) = parse[andLoop]
          /\ OrCall(text, at) = parse[or] /\ OrLoopCall(text, at) = parse[orLoop]
      BY <2>1 DEF AndCall, AndLoopCall, OrCall, OrLoopCall
    <2>7. QED
      BY <2>3, <2>4, <2>5, <2>6
  <1>2. pos + 1 \in Nat
    OBVIOUS
  <1>3. AndCall(text, pos) = Behind(parse, "andLoop", text, parseWithExpr(parse, text, pos))
    BY <1>1 DEF parseAndExpr
  <1>4. OrCall(text, pos) = Behind(parse, "orLoop", text, AndCall(text, pos))
    BY <1>1 DEF parseOrExpr, AndCall
  <1>5. AndLoopCall(text, pos) = IF At(text, pos, "AND") THEN AndCall(text, pos + 1) ELSE Parsed(pos)
    BY <1>1, <1>2 DEF parseAndLoop
  <1>6. OrLoopCall(text, pos) = IF At(text, pos, "OR") THEN OrCall(text, pos + 1) ELSE Parsed(pos)
    BY <1>1, <1>2 DEF parseOrLoop
  <1>7. QED
    BY <1>1, <1>3, <1>4, <1>5, <1>6

\* What parseSimpleExpr and parseWithExpr read is a piece of the text.
LEMMA OperandsAdvance ==
  ASSUME NEW text \in Seq(Tokens), NEW pos \in Nat
  PROVE  /\ Advances(parseSimpleExpr(parse, text, pos), text, pos)
         /\ Advances(parseWithExpr(parse, text, pos), text, pos)
  <1>1. Agree(parse, parse, Room(text, pos))
    BY ParseDef DEF Agree
  <1>2. QED
    BY <1>1, SimpleAgrees, WithAgrees

AndSound(text, pos)     == AndCall(text, pos).ok => AndDerived(text, pos, AndCall(text, pos).pos)
OrSound(text, pos)      == OrCall(text, pos).ok => OrDerived(text, pos, OrCall(text, pos).pos)
AndLoopSound(text, pos) ==
  AndLoopCall(text, pos).ok =>
    \A a \in Nat : a < pos /\ AndDerived(text, a, pos) => AndDerived(text, a, AndLoopCall(text, pos).pos)
OrLoopSound(text, pos) ==
  OrLoopCall(text, pos).ok =>
    \A a \in Nat : a < pos /\ OrDerived(text, a, pos) => OrDerived(text, a, OrLoopCall(text, pos).pos)

SoundAt(text, pos) ==
  AndSound(text, pos) /\ OrSound(text, pos) /\ AndLoopSound(text, pos) /\ OrLoopSound(text, pos)

SoundBeyond(text, pos) == \A q \in Nat : pos < q /\ q <= Len(text) + 1 => SoundAt(text, q)

LEMMA SimpleSound ==
  ASSUME NEW text \in Seq(Tokens), NEW pos \in Nat, SoundBeyond(text, pos),
         NEW r, r = parseSimpleExpr(parse, text, pos), r.ok
  PROVE  SimpleSentence(derives, text, pos, r.pos)
  <1>1. Len(text) \in Nat
    OBVIOUS
  <1>2. CASE At(text, pos, "(")
    <2>1. PICK inner : inner = OrCall(text, pos + 1)
      OBVIOUS
    <2>2. r = IF inner.ok /\ At(text, inner.pos, ")") THEN Parsed(inner.pos + 1) ELSE Failed(inner.pos)
      BY <1>2, <2>1 DEF parseSimpleExpr, OrCall
    <2>3. inner.ok /\ At(text, inner.pos, ")") /\ r.pos = inner.pos + 1
      BY <2>2 DEF Parsed, Failed
    <2>4. pos + 1 \in Nat /\ pos < pos + 1 /\ pos + 1 <= Len(text) + 1
      BY <1>1, <1>2 DEF At
    <2>5. OrDerived(text, pos + 1, inner.pos)
      <3>1. SoundAt(text, pos + 1)
        BY <2>4 DEF SoundBeyond
      <3>2. QED
        BY <2>1, <2>3, <3>1 DEF SoundAt, OrSound
    <2>6. inner.pos \in Nat /\ pos + 1 < inner.pos
      BY <2>1, <2>3, <2>4, CallsAre DEF Advances
    <2>7. r.pos - 1 = inner.pos /\ pos + 2 < r.pos
      BY <2>3, <2>6
    <2>8. text[pos] = "(" /\ text[r.pos - 1] = ")"
      BY <1>2, <2>3, <2>7 DEF At
    <2>9. derives[<<"or", text, pos + 1, r.pos - 1>>]
      BY <2>5, <2>7 DEF OrDerived
    <2>10. QED
      BY <2>7, <2>8, <2>9 DEF SimpleSentence
  <1>3. CASE ~At(text, pos, "(")
    <2>1. r = IF pos <= Len(text) /\ isLicenseId(text[pos]) THEN Parsed(pos + 1) ELSE Failed(pos)
      BY <1>3 DEF parseSimpleExpr
    <2>2. isLicenseId(text[pos]) /\ r.pos = pos + 1
      BY <2>1 DEF Parsed, Failed
    <2>3. QED
      BY <2>2 DEF SimpleSentence
  <1>4. QED
    BY <1>2, <1>3

LEMMA WithSound ==
  ASSUME NEW text \in Seq(Tokens), NEW pos \in Nat, SoundBeyond(text, pos),
         NEW r, r = parseWithExpr(parse, text, pos), r.ok
  PROVE  WithSentence(derives, text, pos, r.pos)
  <1>1. PICK simple : simple = parseSimpleExpr(parse, text, pos)
    OBVIOUS
  <1>2. r = IF ~simple.ok \/ ~At(text, simple.pos, "WITH") THEN simple
            ELSE IF simple.pos + 1 <= Len(text) /\ isExceptionId(text[simple.pos + 1])
                 THEN Parsed((simple.pos + 1) + 1) ELSE Failed(simple.pos + 1)
    BY <1>1 DEF parseWithExpr
  <1>3. simple.ok
    BY <1>2
  <1>4. SimpleSentence(derives, text, pos, simple.pos)
    BY <1>1, <1>3, SimpleSound
  <1>5. CASE ~At(text, simple.pos, "WITH")
    BY <1>2, <1>4, <1>5 DEF WithSentence
  <1>6. CASE At(text, simple.pos, "WITH")
    <2>1. isExceptionId(text[simple.pos + 1]) /\ r.pos = (simple.pos + 1) + 1
      BY <1>2, <1>3, <1>6 DEF Parsed, Failed
    <2>2. simple.pos \in Nat /\ pos < simple.pos
      BY <1>1, <1>3, OperandsAdvance DEF Advances
    <2>3. r.pos - 2 = simple.pos /\ r.pos - 1 = simple.pos + 1 /\ pos + 2 < r.pos
      BY <2>1, <2>2
    <2>4. text[r.pos - 2] = "WITH" /\ isExceptionId(text[r.pos - 1])
      BY <1>6, <2>1, <2>3 DEF At
    <2>5. SimpleSentence(derives, text, pos, r.pos - 2)
      BY <1>4, <2>3
    <2>6. QED
      BY <2>3, <2>4, <2>5 DEF WithSentence
  <1>7. QED
    BY <1>5, <1>6

\* An operand that extends what is derived from a, and the loop behind it.
LEMMA AndChain ==
  ASSUME NEW text \in Seq(Tokens), NEW pos \in Nat, SoundBeyond(text, pos),
         NEW a \in Nat, a <= pos,
         \A n \in Nat : pos < n /\ WithSentence(derives, text, pos, n) => AndDerived(text, a, n),
         AndCall(text, pos).ok
  PROVE  AndDerived(text, a, AndCall(text, pos).pos)
  <1>1. PICK operand : operand = parseWithExpr(parse, text, pos)
    OBVIOUS
  <1>2. AndCall(text, pos) = IF operand.ok THEN AndLoopCall(text, operand.pos) ELSE operand
    BY <1>1, CallsAre DEF Behind, AndLoopCall
  <1>3. operand.ok /\ AndLoopCall(text, operand.pos).ok
    BY <1>2
  <1>4. operand.pos \in Nat /\ pos < operand.pos /\ operand.pos <= Len(text) + 1
    BY <1>1, <1>3, OperandsAdvance DEF Advances
  <1>5. AndDerived(text, a, operand.pos)
    BY <1>1, <1>3, <1>4, WithSound
  <1>6. AndLoopSound(text, operand.pos)
    BY <1>4 DEF SoundBeyond, SoundAt
  <1>7. a < operand.pos
    BY <1>4
  <1>8. QED
    BY <1>2, <1>3, <1>5, <1>6, <1>7 DEF AndLoopSound

LEMMA OrChain ==
  ASSUME NEW text \in Seq(Tokens), NEW pos \in Nat, SoundBeyond(text, pos), AndSound(text, pos),
         NEW a \in Nat, a <= pos,
         \A n \in Nat : pos < n /\ AndDerived(text, pos, n) => OrDerived(text, a, n),
         OrCall(text, pos).ok
  PROVE  OrDerived(text, a, OrCall(text, pos).pos)
  <1>1. PICK operand : operand = AndCall(text, pos)
    OBVIOUS
  <1>2. OrCall(text, pos) = IF operand.ok THEN OrLoopCall(text, operand.pos) ELSE operand
    BY <1>1, CallsAre DEF Behind, OrLoopCall
  <1>3. operand.ok /\ OrLoopCall(text, operand.pos).ok
    BY <1>2
  <1>4. operand.pos \in Nat /\ pos < operand.pos /\ operand.pos <= Len(text) + 1
    BY <1>1, <1>3, CallsAre DEF Advances
  <1>5. OrDerived(text, a, operand.pos)
    BY <1>1, <1>3, <1>4 DEF AndSound
  <1>6. OrLoopSound(text, operand.pos)
    BY <1>4 DEF SoundBeyond, SoundAt
  <1>7. a < operand.pos
    BY <1>4
  <1>8. QED
    BY <1>2, <1>3, <1>5, <1>6, <1>7 DEF OrLoopSound

LEMMA SoundStep ==
  ASSUME NEW text \in Seq(Tokens), NEW pos \in Nat, SoundBeyond(text, pos)
  PROVE  SoundAt(text, pos)
  <1>1. Len(text) \in Nat
    OBVIOUS
  <1>2. AndSound(text, pos)
    <2>1. ASSUME NEW n \in Nat, WithSentence(derives, text, pos, n)
          PROVE  AndDerived(text, pos, n)
      BY <2>1, DerivesDef DEF AndSentence, AndDerived
    <2>2. QED
      BY <2>1, AndChain DEF AndSound
  <1>3. OrSound(text, pos)
    <2>1. ASSUME NEW n \in Nat, AndDerived(text, pos, n)
          PROVE  OrDerived(text, pos, n)
      BY <2>1, DerivesDef DEF OrSentence, OrDerived, AndDerived
    <2>2. QED
      BY <1>2, <2>1, OrChain DEF OrSound
  <1>4. AndLoopSound(text, pos)
    <2> SUFFICES ASSUME AndLoopCall(text, pos).ok, NEW a \in Nat, a < pos, AndDerived(text, a, pos)
                 PROVE  AndDerived(text, a, AndLoopCall(text, pos).pos)
      BY DEF AndLoopSound
    <2>1. CASE At(text, pos, "AND")
      <3>1. AndLoopCall(text, pos) = AndCall(text, pos + 1)
        BY <2>1, CallsAre
      <3>2. pos + 1 \in Nat /\ SoundBeyond(text, pos + 1) /\ text[pos] = "AND"
        BY <2>1 DEF At, SoundBeyond
      <3>3. ASSUME NEW n \in Nat, pos + 1 < n, WithSentence(derives, text, pos + 1, n)
            PROVE  AndDerived(text, a, n)
        <4>1. pos \in a .. n - 1
          BY <3>3
        <4>2. AndSentence(derives, text, a, n)
          BY <3>2, <3>3, <4>1 DEF AndSentence, AndDerived
        <4>3. QED
          BY <4>2, DerivesDef DEF AndDerived
      <3>4. a <= pos + 1
        OBVIOUS
      <3>5. QED
        BY <3>1, <3>2, <3>3, <3>4, AndChain
    <2>2. CASE ~At(text, pos, "AND")
      <3>1. AndLoopCall(text, pos) = Parsed(pos)
        BY <2>2, CallsAre
      <3>2. QED
        BY <3>1 DEF Parsed
    <2>3. QED
      BY <2>1, <2>2
  <1>5. OrLoopSound(text, pos)
    <2> SUFFICES ASSUME OrLoopCall(text, pos).ok, NEW a \in Nat, a < pos, OrDerived(text, a, pos)
                 PROVE  OrDerived(text, a, OrLoopCall(text, pos).pos)
      BY DEF OrLoopSound
    <2>1. CASE At(text, pos, "OR")
      <3>1. OrLoopCall(text, pos) = OrCall(text, pos + 1)
        BY <2>1, CallsAre
      <3>2. pos + 1 \in Nat /\ SoundBeyond(text, pos + 1) /\ text[pos] = "OR"
        BY <2>1 DEF At, SoundBeyond
      <3>3. AndSound(text, pos + 1)
        <4>1. pos + 1 <= Len(text) + 1
          BY <1>1, <2>1 DEF At
        <4>2. QED
          BY <3>2, <4>1 DEF SoundBeyond, SoundAt
      <3>4. ASSUME NEW n \in Nat, pos + 1 < n, AndDerived(text, pos + 1, n)
            PROVE  OrDerived(text, a, n)
        <4>1. pos \in a .. n - 1
          BY <3>4
        <4>2. OrSentence(derives, text, a, n)
          BY <3>2, <3>4, <4>1 DEF OrSentence, OrDerived, AndDerived
        <4>3. QED
          BY <4>2, DerivesDef DEF OrDerived
      <3>5. a <= pos + 1
        OBVIOUS
      <3>6. QED
        BY <3>1, <3>2, <3>3, <3>4, <3>5, OrChain
    <2>2. CASE ~At(text, pos, "OR")
      <3>1. OrLoopCall(text, pos) = Parsed(pos)
        BY <2>2, CallsAre
      <3>2. QED
        BY <3>1 DEF Parsed
    <2>3. QED
      BY <2>1, <2>2
  <1>6. QED
    BY <1>2, <1>3, <1>4, <1>5 DEF SoundAt

LEMMA ParserSound ==
  ASSUME NEW text \in Seq(Tokens), NEW pos \in Nat, pos <= Len(text) + 1
  PROVE  SoundAt(text, pos)
  <1> DEFINE Positions == 0 .. Len(text) + 1
             left      == [p \in Positions |-> (Len(text) + 1) - p]
             Sound     == {p \in Positions : SoundAt(text, p)}
  <1>1. Len(text) \in Nat
    OBVIOUS
  <1>2. \A p \in Positions : left[p] \in Nat
    BY <1>1
  <1>3. ASSUME NEW p \in Positions, \A q \in Positions : left[q] < left[p] => q \in Sound
        PROVE  p \in Sound
    <2>1. ASSUME NEW q \in Nat, p < q, q <= Len(text) + 1
          PROVE  SoundAt(text, q)
      <3>1. q \in Positions /\ left[q] < left[p]
        BY <1>1, <2>1
      <3>2. QED
        BY <1>3, <3>1
    <2>2. SoundBeyond(text, p)
      BY <2>1 DEF SoundBeyond
    <2>3. QED
      BY <1>1, <2>2, SoundStep
  <1>4. Positions \subseteq Sound
    <2> HIDE DEF Positions, left, Sound
    <2>1. QED
      BY <1>2, <1>3, OfParse!MeasureInduction
  <1>5. QED
    BY <1>1, <1>4

-----------------------------------------------------------------------------
(* The parser accepts every sentence of the grammar.                         *)

AndComplete(text, m, n) ==
  AndDerived(text, m, n) /\ ~At(text, n, "WITH") => AndCall(text, m) = AndLoopCall(text, n)
OrComplete(text, m, n) ==
  OrDerived(text, m, n) /\ ~At(text, n, "WITH") /\ ~At(text, n, "AND") => OrCall(text, m) = OrLoopCall(text, n)

\* The parser reads the sentences shorter than from m to n.
CompleteWithin(text, m, n) ==
  \A a, b \in Nat : m <= a /\ a <= b /\ b <= n /\ (m < a \/ b < n) =>
    AndComplete(text, a, b) /\ OrComplete(text, a, b)

LEMMA SimpleComplete ==
  ASSUME NEW text \in Seq(Tokens), NEW m \in Nat, NEW n \in Nat, n <= Len(text) + 1, CompleteWithin(text, m, n),
         NEW a \in Nat, m <= a, NEW b \in Nat, b <= n, SimpleSentence(derives, text, a, b)
  PROVE  parseSimpleExpr(parse, text, a) = Parsed(b)
  <1>1. Len(text) \in Nat
    OBVIOUS
  <1>2. CASE b = a + 1 /\ isLicenseId(text[a])
    <2>1. a <= Len(text)
      BY <1>1, <1>2
    <2>2. text[a] # "("
      BY <1>2 DEF isLicenseId, Licenses, References
    <2>3. ~At(text, a, "(")
      BY <2>2 DEF At
    <2>4. QED
      BY <1>2, <2>1, <2>3 DEF parseSimpleExpr
  <1>3. CASE a + 2 < b /\ text[a] = "(" /\ text[b - 1] = ")" /\ OrDerived(text, a + 1, b - 1)
    <2>1. /\ a + 1 \in Nat /\ b - 1 \in Nat /\ m <= a + 1 /\ a + 1 <= b - 1 /\ b - 1 <= n /\ m < a + 1
          /\ a <= Len(text) /\ b - 1 <= Len(text) /\ (b - 1) + 1 = b
      BY <1>1, <1>3
    <2>2. At(text, a, "(") /\ At(text, b - 1, ")")
      BY <1>3, <2>1 DEF At
    <2>3. ~At(text, b - 1, "WITH") /\ ~At(text, b - 1, "AND") /\ ~At(text, b - 1, "OR")
      BY <1>3 DEF At
    <2>4. OrComplete(text, a + 1, b - 1)
      BY <2>1 DEF CompleteWithin
    <2>5. OrCall(text, a + 1) = OrLoopCall(text, b - 1)
      BY <1>3, <2>3, <2>4 DEF OrComplete
    <2>6. OrCall(text, a + 1) = Parsed(b - 1)
      BY <2>1, <2>3, <2>5, CallsAre
    <2>7. PICK inner : inner = OrCall(text, a + 1)
      OBVIOUS
    <2>8. inner.ok /\ inner.pos = b - 1
      BY <2>6, <2>7 DEF Parsed
    <2>9. parseSimpleExpr(parse, text, a) =
            IF inner.ok /\ At(text, inner.pos, ")") THEN Parsed(inner.pos + 1) ELSE Failed(inner.pos)
      BY <2>2, <2>7 DEF parseSimpleExpr, OrCall
    <2>10. QED
      BY <2>1, <2>2, <2>8, <2>9
  <1>4. QED
    BY <1>2, <1>3 DEF SimpleSentence, OrDerived

LEMMA WithComplete ==
  ASSUME NEW text \in Seq(Tokens), NEW m \in Nat, NEW n \in Nat, n <= Len(text) + 1, CompleteWithin(text, m, n),
         NEW a \in Nat, m <= a, WithSentence(derives, text, a, n), ~At(text, n, "WITH")
  PROVE  parseWithExpr(parse, text, a) = Parsed(n)
  <1>1. Len(text) \in Nat
    OBVIOUS
  <1>2. PICK simple : simple = parseSimpleExpr(parse, text, a)
    OBVIOUS
  <1>3. parseWithExpr(parse, text, a) =
          IF ~simple.ok \/ ~At(text, simple.pos, "WITH") THEN simple
          ELSE IF simple.pos + 1 <= Len(text) /\ isExceptionId(text[simple.pos + 1])
               THEN Parsed((simple.pos + 1) + 1) ELSE Failed(simple.pos + 1)
    BY <1>2 DEF parseWithExpr
  <1>4. CASE SimpleSentence(derives, text, a, n)
    <2>1. simple = Parsed(n)
      BY <1>2, <1>4, SimpleComplete
    <2>2. simple.pos = n
      BY <2>1 DEF Parsed
    <2>3. QED
      BY <1>3, <2>1, <2>2
  <1>5. CASE /\ a + 2 < n /\ text[n - 2] = "WITH" /\ isExceptionId(text[n - 1])
             /\ SimpleSentence(derives, text, a, n - 2)
    <2>1. n - 2 \in Nat /\ n - 2 <= n /\ n - 2 <= Len(text) /\ (n - 2) + 1 = n - 1 /\ n - 1 <= Len(text) /\ (n - 1) + 1 = n
      BY <1>1, <1>5
    <2>2. simple = Parsed(n - 2)
      BY <1>2, <1>5, <2>1, SimpleComplete
    <2>3. simple.ok /\ simple.pos = n - 2
      BY <2>2 DEF Parsed
    <2>4. At(text, simple.pos, "WITH") /\ simple.pos + 1 = n - 1
      BY <1>5, <2>1, <2>3 DEF At
    <2>5. parseWithExpr(parse, text, a) = Parsed((n - 1) + 1)
      BY <1>3, <1>5, <2>1, <2>3, <2>4
    <2>6. QED
      BY <2>1, <2>5
  <1>6. QED
    BY <1>4, <1>5 DEF WithSentence

\* The loop starts behind what was parsed.
LEMMA BehindParsed ==
  ASSUME NEW text, NEW n
  PROVE  /\ Behind(parse, "andLoop", text, Parsed(n)) = AndLoopCall(text, n)
         /\ Behind(parse, "orLoop", text, Parsed(n)) = OrLoopCall(text, n)
  BY DEF Behind, Parsed, AndLoopCall, OrLoopCall

LEMMA AndCompleteStep ==
  ASSUME NEW text \in Seq(Tokens), NEW m \in Nat, NEW n \in Nat, n <= Len(text) + 1, CompleteWithin(text, m, n)
  PROVE  AndComplete(text, m, n)
  <1> SUFFICES ASSUME AndSentence(derives, text, m, n), ~At(text, n, "WITH")
               PROVE  AndCall(text, m) = AndLoopCall(text, n)
    BY DerivesDef DEF AndComplete, AndDerived
  <1>1. Len(text) \in Nat
    OBVIOUS
  <1>2. ASSUME NEW a \in Nat, m <= a, WithSentence(derives, text, a, n)
        PROVE  AndCall(text, a) = AndLoopCall(text, n)
    <2>1. parseWithExpr(parse, text, a) = Parsed(n)
      BY <1>2, WithComplete
    <2>2. QED
      BY <2>1, CallsAre, BehindParsed
  <1>3. CASE WithSentence(derives, text, m, n)
    BY <1>2, <1>3
  <1>4. ASSUME NEW k \in m .. n - 1, text[k] = "AND", AndDerived(text, m, k),
               WithSentence(derives, text, k + 1, n)
        PROVE  AndCall(text, m) = AndLoopCall(text, n)
    <2>1. k \in Nat /\ m <= k /\ k <= n /\ k < n /\ k + 1 \in Nat /\ m <= k + 1 /\ k <= Len(text)
      BY <1>1
    <2>2. At(text, k, "AND") /\ ~At(text, k, "WITH")
      BY <1>4, <2>1 DEF At
    <2>3. AndComplete(text, m, k)
      BY <2>1 DEF CompleteWithin
    <2>4. AndCall(text, m) = AndLoopCall(text, k)
      BY <1>4, <2>2, <2>3 DEF AndComplete
    <2>5. AndLoopCall(text, k) = AndCall(text, k + 1)
      BY <2>1, <2>2, CallsAre
    <2>6. AndCall(text, k + 1) = AndLoopCall(text, n)
      BY <1>2, <1>4, <2>1
    <2>7. QED
      BY <2>4, <2>5, <2>6
  <1>5. QED
    BY <1>3, <1>4 DEF AndSentence, AndDerived

LEMMA OrCompleteStep ==
  ASSUME NEW text \in Seq(Tokens), NEW m \in Nat, NEW n \in Nat, n <= Len(text) + 1, CompleteWithin(text, m, n)
  PROVE  OrComplete(text, m, n)
  <1> SUFFICES ASSUME OrSentence(derives, text, m, n), ~At(text, n, "WITH"), ~At(text, n, "AND")
               PROVE  OrCall(text, m) = OrLoopCall(text, n)
    BY DerivesDef DEF OrComplete, OrDerived
  <1>1. Len(text) \in Nat
    OBVIOUS
  <1>2. ASSUME NEW a \in Nat, AndComplete(text, a, n), AndDerived(text, a, n)
        PROVE  OrCall(text, a) = OrLoopCall(text, n)
    <2>1. AndCall(text, a) = AndLoopCall(text, n)
      BY <1>2 DEF AndComplete
    <2>2. AndCall(text, a) = Parsed(n)
      BY <2>1, CallsAre
    <2>3. QED
      BY <2>2, CallsAre, BehindParsed
  <1>3. CASE AndDerived(text, m, n)
    BY <1>2, <1>3, AndCompleteStep
  <1>4. ASSUME NEW k \in m .. n - 1, text[k] = "OR", OrDerived(text, m, k), AndDerived(text, k + 1, n)
        PROVE  OrCall(text, m) = OrLoopCall(text, n)
    <2>1. k \in Nat /\ m <= k /\ k <= n /\ k < n /\ k + 1 \in Nat /\ m < k + 1 /\ m <= k + 1 /\ k + 1 <= n /\ k <= Len(text)
      BY <1>1
    <2>2. At(text, k, "OR") /\ ~At(text, k, "WITH") /\ ~At(text, k, "AND")
      BY <1>4, <2>1 DEF At
    <2>3. OrComplete(text, m, k) /\ AndComplete(text, k + 1, n)
      BY <2>1 DEF CompleteWithin
    <2>4. OrCall(text, m) = OrLoopCall(text, k)
      BY <1>4, <2>2, <2>3 DEF OrComplete
    <2>5. OrLoopCall(text, k) = OrCall(text, k + 1)
      BY <2>1, <2>2, CallsAre
    <2>6. OrCall(text, k + 1) = OrLoopCall(text, n)
      BY <1>2, <1>4, <2>1, <2>3
    <2>7. QED
      BY <2>4, <2>5, <2>6
  <1>5. QED
    BY <1>3, <1>4 DEF OrSentence, OrDerived, AndDerived

LEMMA ParserComplete ==
  ASSUME NEW text \in Seq(Tokens), NEW m \in Nat, NEW n \in Nat, n <= Len(text) + 1
  PROVE  OrComplete(text, m, n)
  <1> DEFINE Pieces   == {p \in Nat \X Nat : p[2] <= Len(text) + 1}
             span     == [p \in Pieces |-> Span(p[1], p[2])]
             Complete == {p \in Pieces : AndComplete(text, p[1], p[2]) /\ OrComplete(text, p[1], p[2])}
  <1>1. \A p \in Pieces : span[p] \in Nat /\ span[p] = Span(p[1], p[2])
    BY SpanIs
  <1>2. ASSUME NEW p \in Pieces, \A q \in Pieces : span[q] < span[p] => q \in Complete
        PROVE  p \in Complete
    <2>1. p[1] \in Nat /\ p[2] \in Nat /\ p[2] <= Len(text) + 1 /\ Len(text) \in Nat
      OBVIOUS
    <2>2. ASSUME NEW a \in Nat, NEW b \in Nat, p[1] <= a, a <= b, b <= p[2], p[1] < a \/ b < p[2]
          PROVE  AndComplete(text, a, b) /\ OrComplete(text, a, b)
      <3>1. PICK q : q = <<a, b>>
        OBVIOUS
      <3>2. b <= Len(text) + 1
        BY <2>1, <2>2
      <3>3. q \in Pieces /\ q[1] = a /\ q[2] = b
        BY <3>1, <3>2
      <3>4. Span(a, b) < Span(p[1], p[2])
        BY <2>1, <2>2, SpanIs
      <3>5. span[q] < span[p]
        BY <1>1, <3>3, <3>4
      <3>6. q \in Complete
        BY <1>2, <3>3, <3>5
      <3>7. QED
        BY <3>3, <3>6
    <2>3. CompleteWithin(text, p[1], p[2])
      BY <2>2 DEF CompleteWithin
    <2>4. QED
      BY <2>1, <2>3, AndCompleteStep, OrCompleteStep
  <1>3. Pieces \subseteq Complete
    <2> HIDE DEF Pieces, span, Complete
    <2>1. QED
      BY <1>1, <1>2, OfParse!MeasureInduction
  <1>4. <<m, n>> \in Pieces
    OBVIOUS
  <1>5. QED
    BY <1>3, <1>4

-----------------------------------------------------------------------------

\* The parser accepts exactly the sentences, however long they are.
LEMMA ParserExact ==
  ASSUME NEW text \in Seq(Tokens)
  PROVE  validateSpdxExpression(text) <=> IsExpression(text)
  <1>1. Len(text) \in Nat /\ 1 <= Len(text) + 1
    OBVIOUS
  <1>2. PICK end : end = Len(text) + 1
    OBVIOUS
  <1>3. ~At(text, end, "WITH") /\ ~At(text, end, "AND") /\ ~At(text, end, "OR") /\ end \in Nat
    BY <1>1, <1>2 DEF At
  <1>4. ASSUME OrCall(text, 1) = Parsed(end)
        PROVE  OrDerived(text, 1, end)
    <2>1. OrCall(text, 1).ok /\ OrCall(text, 1).pos = end
      BY <1>4 DEF Parsed
    <2>2. SoundAt(text, 1)
      BY <1>1, ParserSound
    <2>3. QED
      BY <2>1, <2>2 DEF SoundAt, OrSound
  <1>5. ASSUME OrDerived(text, 1, end)
        PROVE  OrCall(text, 1) = Parsed(end) /\ text # << >>
    <2>1. OrComplete(text, 1, end)
      BY <1>2, <1>3, ParserComplete
    <2>2. OrCall(text, 1) = OrLoopCall(text, end)
      BY <1>3, <1>5, <2>1 DEF OrComplete
    <2>3. OrCall(text, 1) = Parsed(end)
      BY <1>3, <2>2, CallsAre
    <2>4. 1 < end
      <3>1. OrCall(text, 1).ok /\ OrCall(text, 1).pos = end
        BY <2>3 DEF Parsed
      <3>2. Advances(OrCall(text, 1), text, 1)
        BY CallsAre
      <3>3. QED
        BY <3>1, <3>2 DEF Advances
    <2>5. QED
      BY <1>2, <2>3, <2>4
  <1>6. validateSpdxExpression(text) <=>
          text \in {<<w>> : w \in Whole} \/ (text # << >> /\ OrCall(text, 1) = Parsed(end))
    BY <1>2 DEF validateSpdxExpression, OrCall
  <1>7. IsExpression(text) <=> text \in {<<w>> : w \in Whole} \/ OrDerived(text, 1, end)
    BY <1>2 DEF IsExpression, OrDerived
  <1>8. QED
    BY <1>4, <1>5, <1>6, <1>7

(* The recursive-descent parser accepts exactly the sentences of the grammar *)
(* its comments give, for texts of every length (validateSpdxExpression,     *)
(* validate-sbom.mjs).                                                       *)
THEOREM LicenseGrammarCorrect == LicenseInit /\ [][LicenseNext]_tokens => []LicenseGrammarExact
  <1> DEFINE Typed == tokens \in Seq(Tokens)
  <1>1. LicenseInit => Typed
    BY DEF LicenseInit
  <1>2. Typed /\ [LicenseNext]_tokens => Typed'
    BY DEF LicenseNext
  <1>3. Typed => LicenseGrammarExact
    BY ParserExact DEF LicenseGrammarExact
  <1> HIDE DEF Typed
  <1>4. QED
    BY <1>1, <1>2, <1>3, PTL

-----------------------------------------------------------------------------
(* The bill of materials                                                    *)

\* What is listed of a lockfile.
LEMMA LockedIs ==
  ASSUME NEW d \in Lockfiles
  PROVE  LockedIn(Text(d)) = Labels(d)
  <1>1. PICK P : P = parseLockfilePackages(Text(d))
    OBVIOUS
  <1>2. P = {<<p.key, ToSet(p.resolution)>> : p \in d.packages}
    BY <1>1, DocumentsRead DEF ReadExactly
  <1>3. ASSUME NEW label
        PROVE  label \in LockedIn(Text(d)) <=> label \in Labels(d)
    <2>1. label \in LockedIn(Text(d)) <=>
            \E p \in P : "directory" \notin p[2] /\ label = stripPeerSuffix(p[1])
      BY <1>1 DEF LockedIn
    <2>2. label \in Labels(d) <=>
            \E p \in d.packages : "directory" \notin ToSet(p.resolution) /\ label = stripPeerSuffix(p.key)
      BY DEF Labels, External
    <2>3. \A p \in d.packages : <<p.key, ToSet(p.resolution)>> \in P
      BY <1>2
    <2>4. \A q \in P : \E p \in d.packages : q[1] = p.key /\ q[2] = ToSet(p.resolution)
      BY <1>2
    <2>5. QED
      BY <2>1, <2>2, <2>3, <2>4
  <1>4. QED
    BY <1>3

\* A copy may be in either place; none is found when there is none.
LEMMA InstalledIs ==
  ASSUME NEW store, NEW l
  PROVE  /\ \A m \in Installed(l, store) :
              /\ m \in store.hoisted \cup store.virtual
              /\ m.name = l[1] /\ m.version = l[2] /\ m.readable
         /\ Installed(l, store) = {} <=>
              \A m \in store.hoisted \cup store.virtual :
                ~(m.name = l[1] /\ m.version = l[2] /\ m.readable)
  BY DEF Installed

Licensed(license) == license \in Seq(Tokens)

Locations == {"registry", "absolute", "relative"}

\* The entry of a package keeps its name and version.
LEMMA CollectedIs ==
  ASSUME NEW store \in Stores, NEW l
  PROVE  LET c == Collected(l, store) IN
           c.name = l[1] /\ c.version = l[2] /\ c.location \in Locations /\ Licensed(c.license)
  <1>1. PICK m : m = (CHOOSE k \in Installed(l, store) : TRUE)
    OBVIOUS
  <1>2. CASE Installed(l, store) = {}
    <2>1. Collected(l, store) = [name |-> l[1], version |-> l[2], license |-> NoAssertion,
                                 location |-> "registry"]
      BY <1>2 DEF Collected
    <2>2. Licensed(NoAssertion)
      BY DEF Licensed, NoAssertion, Tokens, Whole
    <2>3. QED
      BY <2>1, <2>2 DEF Locations
  <1>3. CASE Installed(l, store) # {}
    <2>1. m \in Installed(l, store)
      BY <1>1, <1>3
    <2>2. Collected(l, store) = [name |-> m.name, version |-> m.version, license |-> m.license,
                                 location |-> m.homepage]
      BY <1>1, <1>3 DEF Collected
    <2>3. m.homepage \in Locations /\ Licensed(m.license)
      BY <2>1, InstalledIs, SbomAssumption DEF Licensed, Locations
    <2>4. QED
      BY <2>1, <2>2, <2>3, InstalledIs
  <1>4. QED
    BY <1>2, <1>3

Deps(d, store) == {Collected(l, store) : l \in Labels(d)}

LEMMA DepsAre ==
  ASSUME NEW d \in Lockfiles, NEW store \in Stores
  PROVE  /\ collectAllTransitiveDeps(Text(d), store) = Deps(d, store)
         /\ IsFiniteSet(Deps(d, store))
         /\ \A l \in Labels(d) : IdOf(Collected(l, store)) = LabelId(l)
         /\ \A key : Listed(Deps(d, store), key) <=> ~Own(key) /\ stripPeerSuffix(key) \in Labels(d)
  <1>1. collectAllTransitiveDeps(Text(d), store) = Deps(d, store)
    BY LockedIs DEF collectAllTransitiveDeps, Deps
  <1>2. IsFiniteSet(Deps(d, store))
    <2>1. PICK f : f = [l \in Labels(d) |-> Collected(l, store)]
      OBVIOUS
    <2>2. f \in Surjection(Labels(d), Deps(d, store))
      BY <2>1 DEF Surjection, Deps
    <2>3. QED
      BY <2>2, LabelsFinite, SbomAssumption, FS_Surjection
  <1>3. \A l \in Labels(d) : IdOf(Collected(l, store)) = LabelId(l)
    BY CollectedIs DEF IdOf, LabelId
  <1>4. ASSUME NEW key
        PROVE  Listed(Deps(d, store), key) <=> ~Own(key) /\ stripPeerSuffix(key) \in Labels(d)
    <2>1. \A l \in Labels(d) : l = <<l[1], l[2]>>
      BY DEF Labels, stripPeerSuffix
    <2>2. stripPeerSuffix(key) = <<key[1], key[2]>>
      BY DEF stripPeerSuffix
    <2>3. Listed(Deps(d, store), key) <=>
            ~Own(key) /\ \E x \in Deps(d, store) : <<x.name, x.version>> = stripPeerSuffix(key)
      BY DEF Listed
    <2>4. (\E x \in Deps(d, store) : <<x.name, x.version>> = stripPeerSuffix(key))
            <=> \E l \in Labels(d) : <<Collected(l, store).name, Collected(l, store).version>>
                                       = stripPeerSuffix(key)
      BY DEF Deps
    <2>5. \A l \in Labels(d) : Collected(l, store).name = l[1] /\ Collected(l, store).version = l[2]
      BY CollectedIs
    <2>6. QED
      BY <2>1, <2>3, <2>4, <2>5
  <1>5. QED
    BY <1>1, <1>2, <1>3, <1>4

-----------------------------------------------------------------------------
(* Its relationships                                                        *)

LinkTo(from, key) == <<from, "DYNAMIC_LINK", LabelId(stripPeerSuffix(key))>>

\* The edges that a lockfile states.
InGraph(d, e) ==
  LET Here(key) == ~Own(key) /\ stripPeerSuffix(key) \in Labels(d)
  IN \/ \E w \in Published, a \in Asked(d) :
          a[1] = w.path /\ Here(a[2]) /\ e = LinkTo(toSpdxId(w.name), a[2])
     \/ \E a \in Asked(d) : a[1] = "." /\ Here(a[2]) /\ e = LinkTo(RootId, a[2])
     \/ \E l \in Linked(d) :
          Here(l[1]) /\ Here(l[2]) /\ e = LinkTo(LabelId(stripPeerSuffix(l[1])), l[2])

Related(d, r) ==
  \/ r = DescribedBy
  \/ \E w \in Published : r = <<RootId, "CONTAINS", toSpdxId(w.name)>>
  \/ InGraph(d, r)
  \/ \E l \in Labels(d) : /\ r = <<RootId, "DYNAMIC_LINK", LabelId(l)>>
                          /\ \A e : InGraph(d, e) => e[3] # LabelId(l)

LEMMA EdgesAre ==
  ASSUME NEW d \in Lockfiles, NEW store \in Stores, NEW e
  PROVE  e \in GraphEdges(Text(d), Deps(d, store)) <=> InGraph(d, e)
  <1>1. PICK text, deps : text = Text(d) /\ deps = Deps(d, store)
    OBVIOUS
  <1>2. \A key : Listed(deps, key) <=> ~Own(key) /\ stripPeerSuffix(key) \in Labels(d)
    BY <1>1, DepsAre
  <1>3. PICK A, K : A = Asked(d) /\ K = Linked(d)
    OBVIOUS
  <1>4. parseLockfileImporterDeps(text) = A /\ parseLockfileSnapshots(text) = K
    BY <1>1, <1>3, DocumentsRead DEF ReadExactly
  <1> DEFINE Edge(from, key) == <<from, "DYNAMIC_LINK", <<Flat[key[1]], key[2]>> >>
             asked  == {a \in A : Listed(deps, a[2])}
             linked == {l \in K : Listed(deps, l[1]) /\ Listed(deps, l[2])}
             Of(w)  == {Edge(toSpdxId(w.name), a[2]) : a \in {b \in asked : b[1] = w.path}}
             top    == {Edge(RootId, a[2]) : a \in {b \in asked : b[1] = "."}}
             inner  == {Edge(<<Flat[l[1][1]], l[1][2]>>, l[2]) : l \in linked}
  <1>5. GraphEdges(text, deps) = (UNION {Of(w) : w \in Published}) \cup top \cup inner
    BY <1>4 DEF GraphEdges
  <1>6. \A key : <<Flat[key[1]], key[2]>> = LabelId(stripPeerSuffix(key))
    BY DEF LabelId, stripPeerSuffix
  <1>7. \A from, key : Edge(from, key) = LinkTo(from, key)
    BY <1>6 DEF LinkTo
  <1>8. e \in top <=> \E a \in A : a[1] = "." /\ Listed(deps, a[2]) /\ e = LinkTo(RootId, a[2])
    BY <1>7
  <1>9. e \in inner <=> \E l \in K : /\ Listed(deps, l[1]) /\ Listed(deps, l[2])
                                     /\ e = LinkTo(LabelId(stripPeerSuffix(l[1])), l[2])
    BY <1>6, <1>7
  <1>10. \A w : e \in Of(w) <=>
           \E a \in A : a[1] = w.path /\ Listed(deps, a[2]) /\ e = LinkTo(toSpdxId(w.name), a[2])
    BY <1>7
  <1> HIDE DEF Of, top, inner
  <1>11. e \in GraphEdges(text, deps) <=>
           (\E w \in Published : e \in Of(w)) \/ e \in top \/ e \in inner
    BY <1>5
  <1>12. (\E w \in Published : e \in Of(w)) <=>
           \E w \in Published, a \in A :
             a[1] = w.path /\ Listed(deps, a[2]) /\ e = LinkTo(toSpdxId(w.name), a[2])
    <2>1. ASSUME NEW w \in Published, e \in Of(w)
          PROVE  \E a \in A : /\ a[1] = w.path /\ Listed(deps, a[2])
                              /\ e = LinkTo(toSpdxId(w.name), a[2])
      BY <1>10, <2>1
    <2>2. ASSUME NEW w \in Published, NEW a \in A,
                 a[1] = w.path, Listed(deps, a[2]), e = LinkTo(toSpdxId(w.name), a[2])
          PROVE  e \in Of(w)
      BY <1>10, <2>2
    <2>3. QED
      BY <2>1, <2>2
  <1>13. InGraph(d, e) <=>
           \/ \E w \in Published, a \in A :
                a[1] = w.path /\ Listed(deps, a[2]) /\ e = LinkTo(toSpdxId(w.name), a[2])
           \/ \E a \in A : a[1] = "." /\ Listed(deps, a[2]) /\ e = LinkTo(RootId, a[2])
           \/ \E l \in K : /\ Listed(deps, l[1]) /\ Listed(deps, l[2])
                            /\ e = LinkTo(LabelId(stripPeerSuffix(l[1])), l[2])
    BY <1>2, <1>3 DEF InGraph
  <1>14. QED
    BY <1>1, <1>8, <1>9, <1>11, <1>12, <1>13

LEMMA RelationshipsAre ==
  ASSUME NEW d \in Lockfiles, NEW store \in Stores, NEW r
  PROVE  r \in generateSbom(Text(d), store).relationships <=> Related(d, r)
  <1>1. PICK graph, deps : graph = GraphEdges(Text(d), Deps(d, store)) /\ deps = Deps(d, store)
    OBVIOUS
  <1>2. generateSbom(Text(d), store).relationships =
          {DescribedBy} \cup {<<RootId, "CONTAINS", toSpdxId(w.name)>> : w \in Published}
          \cup graph \cup Orphans(deps, graph)
    BY <1>1, DepsAre DEF generateSbom
  <1>3. \A e : e \in graph <=> InGraph(d, e)
    BY <1>1, EdgesAre
  <1>4. r \in Orphans(deps, graph) <=>
          \E x \in deps : r = <<RootId, "DYNAMIC_LINK", IdOf(x)>> /\ \A e \in graph : e[3] # IdOf(x)
    BY DEF Orphans
  <1>5. r \in Orphans(deps, graph) <=>
          \E l \in Labels(d) : /\ r = <<RootId, "DYNAMIC_LINK", LabelId(l)>>
                               /\ \A e \in graph : e[3] # LabelId(l)
    <2>1. \A x \in deps : \E l \in Labels(d) : x = Collected(l, store) /\ IdOf(x) = LabelId(l)
      BY <1>1, DepsAre DEF Deps
    <2>2. \A l \in Labels(d) : \E x \in deps : IdOf(x) = LabelId(l)
      BY <1>1, DepsAre DEF Deps
    <2>3. QED
      BY <1>4, <2>1, <2>2
  <1>6. QED
    BY <1>2, <1>3, <1>5 DEF Related

\* The identifiers of a document: every one is part of some relationship,
\* and between them are all relationships but the one that describes it.
Ids(d) == {RootId} \cup {toSpdxId(w.name) : w \in Published} \cup {LabelId(l) : l \in Labels(d)}

LEMMA EndsAreIds ==
  ASSUME NEW d, NEW r, Related(d, r)
  PROVE  r[1] \in {Document} \cup Ids(d) /\ r[3] \in Ids(d) /\ r[2] \in ValidTypes
  <1>1. CASE r = DescribedBy
    BY <1>1 DEF DescribedBy, Ids, ValidTypes
  <1>2. CASE \E w \in Published : r = <<RootId, "CONTAINS", toSpdxId(w.name)>>
    BY <1>2 DEF Ids, ValidTypes
  <1>3. CASE InGraph(d, r)
    <2>1. PICK from, key : /\ r = LinkTo(from, key) /\ stripPeerSuffix(key) \in Labels(d)
                           /\ from \in Ids(d)
      BY <1>3 DEF InGraph, Ids
    <2>2. QED
      BY <2>1 DEF LinkTo, Ids, ValidTypes
  <1>4. CASE \E l \in Labels(d) : r = <<RootId, "DYNAMIC_LINK", LabelId(l)>>
    BY <1>4 DEF Ids, ValidTypes
  <1>5. QED
    BY <1>1, <1>2, <1>3, <1>4 DEF Related

LEMMA IdsAreEnds ==
  ASSUME NEW d, NEW id \in Ids(d)
  PROVE  \E r : Related(d, r) /\ r[3] = id
  <1>1. CASE id = RootId
    <2>1. Related(d, DescribedBy) /\ DescribedBy[3] = RootId
      BY DEF Related, DescribedBy
    <2>2. QED
      BY <1>1, <2>1
  <1>2. ASSUME NEW w \in Published, id = toSpdxId(w.name)
        PROVE  \E r : Related(d, r) /\ r[3] = id
    <2>1. Related(d, <<RootId, "CONTAINS", toSpdxId(w.name)>>)
      BY DEF Related
    <2>2. QED
      BY <1>2, <2>1
  <1>3. ASSUME NEW l \in Labels(d), id = LabelId(l)
        PROVE  \E r : Related(d, r) /\ r[3] = id
    <2>1. CASE \E e : InGraph(d, e) /\ e[3] = id
      BY <2>1 DEF Related
    <2>2. CASE \A e : InGraph(d, e) => e[3] # id
      <3>1. Related(d, <<RootId, "DYNAMIC_LINK", id>>)
        BY <1>3, <2>2 DEF Related
      <3>2. QED
        BY <3>1
    <2>3. QED
      BY <2>1, <2>2
  <1>4. QED
    BY <1>1, <1>2, <1>3 DEF Ids

-----------------------------------------------------------------------------
(* Its packages                                                             *)

Entries(d, store) ==
  {Entry(RootId, <<"MIT">>, "registry")}
  \cup {Entry(toSpdxId(w.name), w.license, "registry") : w \in Published}
  \cup {Entry(IdOf(x), x.license, x.location) : x \in Deps(d, store)}

LEMMA PackagesAre ==
  ASSUME NEW d \in Lockfiles, NEW store \in Stores
  PROVE  LET all == generateSbom(Text(d), store).packages IN
           all \in Seq(Entries(d, store)) /\ ToSet(all) = Entries(d, store)
  <1> DEFINE deps  == Deps(d, store)
             first == Entry(RootId, <<"MIT">>, "registry")
             own   == {Entry(toSpdxId(w.name), w.license, "registry") : w \in Published}
             Of(x) == Entry(IdOf(x), x.license, x.location)
  <1>1. PICK s : s = SetToSeq(deps)
    OBVIOUS
  <1>2. PICK o : o = SetToSeq(own)
    OBVIOUS
  <1>3. PICK t : t = [n \in DOMAIN s |-> Of(s[n])]
    OBVIOUS
  <1>4. generateSbom(Text(d), store).packages = <<first>> \o o \o t
    BY <1>1, <1>2, <1>3, DepsAre DEF generateSbom
  <1>5. s \in Seq(deps) /\ ToSet(s) = deps
    BY <1>1, DepsAre, SeqOfSet
  <1>6. o \in Seq(own) /\ ToSet(o) = own
    <2>1. PICK f : f = [w \in Published |-> Entry(toSpdxId(w.name), w.license, "registry")]
      OBVIOUS
    <2>2. f \in Surjection(Published, own)
      BY <2>1 DEF Surjection
    <2>3. IsFiniteSet(own)
      BY <2>2, SbomAssumption, FS_Surjection
    <2>4. QED
      BY <1>2, <2>3, SeqOfSet
  <1> DEFINE E == Entries(d, store)
  <1>7. first \in E /\ own \subseteq E /\ \A x \in deps : Of(x) \in E
    BY DEF Entries
  <1>8. \A e \in E : e = first \/ e \in own \/ \E x \in deps : e = Of(x)
    BY DEF Entries
  <1> HIDE DEF first, own, deps, Of, E
  <1>9. /\ Len(s) \in Nat /\ DOMAIN s = 1 .. Len(s) /\ Len(o) \in Nat /\ DOMAIN o = 1 .. Len(o)
        /\ t \in Seq(E) /\ Len(t) = Len(s) /\ DOMAIN t = DOMAIN s /\ o \in Seq(E)
    <2>1. \A n \in DOMAIN s : s[n] \in deps
      BY <1>5
    <2>2. \A n \in DOMAIN t : t[n] \in E
      BY <1>3, <1>7, <2>1
    <2>3. \A n \in DOMAIN o : o[n] \in E
      BY <1>6, <1>7
    <2>4. QED
      BY <1>3, <1>5, <1>6, <2>2, <2>3
  <1>10. \A e : e \in ToSet(t) <=> \E x \in deps : e = Of(x)
    BY <1>3, <1>5 DEF ToSet
  <1>11. PICK h : h = <<first>>
    OBVIOUS
  <1>12. h \in Seq(E) /\ ToSet(h) = {first}
    BY <1>7, <1>11 DEF ToSet
  <1>13. h \o o \in Seq(E) /\ ToSet(h \o o) = ToSet(h) \cup ToSet(o)
    BY <1>9, <1>12, ConcatSet
  <1>14. PICK q : q = h \o o /\ q \in Seq(E) /\ ToSet(q) = {first} \cup own
    BY <1>6, <1>12, <1>13
  <1>15. q \o t \in Seq(E) /\ ToSet(q \o t) = ToSet(q) \cup ToSet(t)
    <2>1. q \in Seq(E) /\ t \in Seq(E)
      BY <1>9, <1>14
    <2>2. QED
      BY <2>1, ConcatSet
  <1>16. \A e : e \in ToSet(q) \cup ToSet(t) <=> e \in E
    BY <1>7, <1>8, <1>10, <1>14
  <1>17. QED
    BY <1>4, <1>11, <1>14, <1>15, <1>16 DEF E

\* An entry has no flaw, its identifier is one of the document's, and all are there.
LEMMA EntriesAre ==
  ASSUME NEW d \in Lockfiles, NEW store \in Stores
  PROVE  /\ \A e \in Entries(d, store) : /\ e = Entry(e.id, e.license, e.location)
                                         /\ e.id \in Ids(d) /\ e.location \in Locations
                                         /\ Licensed(e.license)
         /\ \A id \in Ids(d) : \E e \in Entries(d, store) : e.id = id
  <1>1. PICK first : first = Entry(RootId, <<"MIT">>, "registry")
    OBVIOUS
  <1>2. ASSUME NEW w \in Published, NEW e, e = Entry(toSpdxId(w.name), w.license, "registry")
        PROVE  /\ e = Entry(e.id, e.license, e.location) /\ e.id = toSpdxId(w.name)
               /\ e.location \in Locations /\ Licensed(e.license)
    BY <1>2, SbomAssumption DEF Entry, Locations, Licensed
  <1>3. /\ first = Entry(first.id, first.license, first.location) /\ first.id = RootId
        /\ first.location \in Locations /\ Licensed(first.license)
    <2>1. Licensed(<<"MIT">>)
      BY DEF Licensed, Tokens, Licenses
    <2>2. QED
      BY <1>1, <2>1 DEF Entry, Locations
  <1>4. ASSUME NEW l \in Labels(d), NEW x, x = Collected(l, store),
               NEW e, e = Entry(IdOf(x), x.license, x.location)
        PROVE  /\ e = Entry(e.id, e.license, e.location) /\ e.id = LabelId(l)
               /\ e.location \in Locations /\ Licensed(e.license)
    BY <1>4, CollectedIs, DepsAre DEF Entry
  <1>5. \A e \in Entries(d, store) :
          \/ e = first
          \/ \E w \in Published : e = Entry(toSpdxId(w.name), w.license, "registry")
          \/ \E l \in Labels(d) : \E x : /\ x = Collected(l, store)
                                        /\ e = Entry(IdOf(x), x.license, x.location)
    BY <1>1 DEF Entries, Deps
  <1>6. /\ first \in Entries(d, store)
        /\ \A w \in Published : Entry(toSpdxId(w.name), w.license, "registry") \in Entries(d, store)
        /\ \A l \in Labels(d) : \A x : x = Collected(l, store) =>
             Entry(IdOf(x), x.license, x.location) \in Entries(d, store)
    BY <1>1 DEF Entries, Deps
  <1>7. ASSUME NEW e \in Entries(d, store)
        PROVE  /\ e = Entry(e.id, e.license, e.location)
               /\ e.id \in Ids(d) /\ e.location \in Locations /\ Licensed(e.license)
    BY <1>2, <1>3, <1>4, <1>5 DEF Ids
  <1>8. ASSUME NEW id \in Ids(d) PROVE \E e \in Entries(d, store) : e.id = id
    <2>1. ASSUME NEW l \in Labels(d), id = LabelId(l)
          PROVE  \E e \in Entries(d, store) : e.id = id
      <3>1. PICK x : x = Collected(l, store)
        OBVIOUS
      <3>2. QED
        BY <1>4, <1>6, <2>1, <3>1
    <2>2. ASSUME NEW w \in Published, id = toSpdxId(w.name)
          PROVE  \E e \in Entries(d, store) : e.id = id
      BY <1>2, <1>6, <2>2
    <2>3. QED
      BY <1>3, <1>6, <2>1, <2>2 DEF Ids
  <1>9. QED
    BY <1>7, <1>8

-----------------------------------------------------------------------------
(* What is found when it is validated                                       *)

Declared(g) == {Document} \cup {g.packages[n].id :
                                  n \in {m \in DOMAIN g.packages : "id" \notin g.packages[m].flaws}}

Fine(g, n) ==
  LET p == g.packages[n] IN
  /\ p.flaws = {}
  /\ ~("id" \notin p.flaws /\ \E m \in 1 .. n - 1 : g.packages[m].id = p.id)
  /\ validateDownloadLocation(p.location) /\ validateSpdxExpression(p.license)

Joined(g, r) == {r[1], r[3]} \subseteq Declared(g) /\ r[2] \in ValidTypes

LEMMA ErrorsAre ==
  ASSUME NEW g
  PROVE  validateSbom(g) = {} <=>
           /\ g.header = {} /\ g.packages # << >> /\ g.relationships # {}
           /\ DescribedBy \in g.relationships
           /\ \A n \in DOMAIN g.packages : Fine(g, n)
           /\ \A r \in g.relationships : Joined(g, r)
  <1> DEFINE InPackage(p, n) ==
               p.flaws
               \cup (IF "id" \notin p.flaws /\ \E m \in 1 .. n - 1 : g.packages[m].id = p.id
                     THEN {"duplicated"} ELSE {})
               \cup (IF validateDownloadLocation(p.location) THEN {} ELSE {"downloadLocation"})
               \cup (IF validateSpdxExpression(p.license) THEN {} ELSE {"license"})
             InRelationship(r) ==
               (IF {r[1], r[3]} \subseteq Declared(g) THEN {} ELSE {"dangling"})
               \cup (IF r[2] \in ValidTypes THEN {} ELSE {"relationshipType"})
             inPackages == UNION {InPackage(g.packages[n], n) : n \in DOMAIN g.packages}
             inRelationships == UNION {InRelationship(r) : r \in g.relationships}
  <1>1. validateSbom(g) =
          g.header
          \cup (IF g.packages = << >> THEN {"packages"} ELSE {})
          \cup inPackages
          \cup (IF g.relationships = {} THEN {"relationships"} ELSE {})
          \cup inRelationships
          \cup (IF DescribedBy \in g.relationships THEN {} ELSE {"DESCRIBES"})
    BY Zenon DEF validateSbom, Declared
  <1>2. \A n : InPackage(g.packages[n], n) = {} <=> Fine(g, n)
    BY DEF Fine
  <1>3. \A r : InRelationship(r) = {} <=> Joined(g, r)
    BY DEF Joined
  <1> HIDE DEF InPackage, InRelationship
  <1>4. inPackages = {} <=> \A n \in DOMAIN g.packages : InPackage(g.packages[n], n) = {}
    OBVIOUS
  <1>5. inRelationships = {} <=> \A r \in g.relationships : InRelationship(r) = {}
    OBVIOUS
  <1> HIDE DEF inPackages, inRelationships
  <1>6. QED
    BY <1>1, <1>2, <1>3, <1>4, <1>5

-----------------------------------------------------------------------------
(* What was written is what the generator makes of the lockfile, or what a  *)
(* damage made of that.                                                     *)

SbomInv ==
  /\ stage = "generate" => damage = "none"
  /\ stage # "generate" =>
       /\ lock \in Lockfiles /\ installed \in Stores
       /\ unresolved = Unresolved(Text(lock), installed)
       /\ damage = "none" => sbom = generateSbom(Text(lock), installed)
       /\ damage # "none" => /\ damage \in Damages
                             /\ sbom = Damaged(generateSbom(Text(lock), installed), damage)
  /\ stage = "validated" => errors = validateSbom(sbom)

LEMMA SbomSafe == SbomSpec => []SbomInv
  <1>1. SbomInit => SbomInv
    BY DEF SbomInit, SbomInv
  <1>2. SbomInv /\ [SbomNext]_sbomVars => SbomInv'
    <2> SUFFICES ASSUME SbomInv, [SbomNext]_sbomVars PROVE SbomInv'
      OBVIOUS
    <2>1. ASSUME NEW d \in Lockfiles, NEW store \in Stores, Generate(d, store)
          PROVE  SbomInv'
      BY <2>1 DEF Generate, SbomInv
    <2>2. ASSUME NEW kind \in Damages, Damage(kind) PROVE SbomInv'
      <3>1. kind # "none"
        BY SbomAssumption DEF DamageKinds, HeaderFields, PackageFields
      <3>2. QED
        BY <2>2, <3>1 DEF Damage, SbomInv
    <2>3. CASE Validate
      BY <2>3 DEF Validate, SbomInv
    <2>4. CASE UNCHANGED sbomVars
      BY <2>4 DEF sbomVars, SbomInv
    <2>5. QED
      BY <2>1, <2>2, <2>3, <2>4 DEF SbomNext
  <1>3. QED
    BY <1>1, <1>2, PTL DEF SbomSpec

LEMMA UnresolvedAre ==
  ASSUME NEW d \in Lockfiles, NEW store
  PROVE  Unresolved(Text(d), store) =
           {l \in Labels(d) :
              /\ \A m \in store.hoisted \cup store.virtual :
                   ~(m.name = l[1] /\ m.version = l[2] /\ m.readable)
              /\ \A s \in d.snapshots : stripPeerSuffix(s.key) = l => ~s.optional}
  <1>1. parseSnapshotOptionals(Text(d)) =
          {stripPeerSuffix(s.key) : s \in {t \in d.snapshots : t.optional}}
    BY DocumentsRead DEF ReadExactly
  <1>2. \A l : l \notin parseSnapshotOptionals(Text(d)) <=>
               \A s \in d.snapshots : stripPeerSuffix(s.key) = l => ~s.optional
    BY <1>1
  <1>3. Unresolved(Text(d), store) =
          {l \in Labels(d) : Installed(l, store) = {} /\ l \notin parseSnapshotOptionals(Text(d))}
    BY LockedIs DEF Unresolved
  <1>4. QED
    BY <1>2, <1>3, InstalledIs

(* GapsAreReported, a property that Tooling.cfg checks on an instance: the   *)
(* user is warned of the packages without a copy that are required, and of   *)
(* no others (collectAllTransitiveDeps).                                     *)
THEOREM GapsAreReportedCorrect == SbomSpec => []GapsAreReported
  <1>1. SbomInv => GapsAreReported
    BY UnresolvedAre DEF SbomInv, GapsAreReported
  <1>2. QED
    BY <1>1, SbomSafe, PTL

-----------------------------------------------------------------------------
(* Nothing is lost but cycles                                               *)

LEMMA HangingIs ==
  ASSUME NEW R
  PROVE  /\ \A id \in Hanging(R) : \A r \in R : r[1] = id => r[3] \in Hanging(R)
         /\ RootId \in Hanging(R)
  BY DEF Hanging

LEMMA WrittenHangs ==
  ASSUME NEW d \in Lockfiles, NEW store \in Stores, NEW R,
         R = generateSbom(Text(d), store).relationships,
         NEW b \in Labels(d), LabelId(b) \notin Hanging(R)
  PROVE  /\ \A e \in Asked(d) : e[1] \in {"."} \cup {w.path : w \in Published} =>
              b # stripPeerSuffix(e[2])
         /\ \E a \in Labels(d) :
              /\ LabelId(a) \notin Hanging(R)
              /\ \E e \in Linked(d) :
                   stripPeerSuffix(e[1]) = a /\ LabelId(stripPeerSuffix(e[2])) = LabelId(b)
  <1>1. \A r : r \in R <=> Related(d, r)
    BY RelationshipsAre
  <1>2. \A w \in Published : toSpdxId(w.name) \in Hanging(R)
    <2> SUFFICES ASSUME NEW w \in Published PROVE toSpdxId(w.name) \in Hanging(R)
      OBVIOUS
    <2>1. PICK r : r = <<RootId, "CONTAINS", toSpdxId(w.name)>>
      OBVIOUS
    <2>2. r \in R /\ r[1] = RootId /\ r[3] = toSpdxId(w.name)
      BY <1>1, <2>1 DEF Related
    <2>3. QED
      BY <2>2, HangingIs
  <1>3. \A from \in Hanging(R) : \A key : InGraph(d, LinkTo(from, key)) =>
          LabelId(stripPeerSuffix(key)) \in Hanging(R)
    <2>1. \A from, key : /\ LinkTo(from, key)[1] = from
                         /\ LinkTo(from, key)[3] = LabelId(stripPeerSuffix(key))
      BY DEF LinkTo
    <2>2. QED
      BY <1>1, <2>1, HangingIs DEF Related
  <1>4. \A key : Own(stripPeerSuffix(key)) <=> Own(key)
    BY StripKeeps DEF Own
  <1>5. \A l \in Labels(d) : ~Own(l)
    BY SbomAssumption DEF Closed
  <1>6. ASSUME NEW e \in Asked(d), e[1] \in {"."} \cup {w.path : w \in Published},
               b = stripPeerSuffix(e[2])
        PROVE  FALSE
    <2>1. ~Own(e[2]) /\ stripPeerSuffix(e[2]) \in Labels(d)
      BY <1>4, <1>5, <1>6
    <2>2. CASE e[1] = "."
      <3>1. InGraph(d, LinkTo(RootId, e[2]))
        BY <2>1, <2>2 DEF InGraph
      <3>2. QED
        BY <1>3, <1>6, <3>1, HangingIs
    <2>3. ASSUME NEW w \in Published, e[1] = w.path PROVE FALSE
      <3>1. InGraph(d, LinkTo(toSpdxId(w.name), e[2]))
        BY <2>1, <2>3 DEF InGraph
      <3>2. QED
        BY <1>2, <1>3, <1>6, <3>1
    <2>4. QED
      BY <1>6, <2>2, <2>3
  <1>7. PICK r : InGraph(d, r) /\ r[3] = LabelId(b)
    <2> SUFFICES ASSUME \A e : InGraph(d, e) => e[3] # LabelId(b) PROVE FALSE
      OBVIOUS
    <2>1. PICK r : r = <<RootId, "DYNAMIC_LINK", LabelId(b)>>
      OBVIOUS
    <2>2. r \in R /\ r[1] = RootId /\ r[3] = LabelId(b)
      BY <1>1, <2>1 DEF Related
    <2>3. QED
      BY <2>2, HangingIs
  <1>8. r \in R /\ r[1] \notin Hanging(R)
    BY <1>1, <1>7, HangingIs DEF Related
  <1>9. PICK l \in Linked(d) : /\ stripPeerSuffix(l[1]) \in Labels(d)
                               /\ r = LinkTo(LabelId(stripPeerSuffix(l[1])), l[2])
    <2>1. \A key : r # LinkTo(RootId, key) /\ \A w \in Published : r # LinkTo(toSpdxId(w.name), key)
      BY <1>2, <1>8, HangingIs DEF LinkTo
    <2>2. QED
      BY <1>7, <2>1 DEF InGraph
  <1>10. /\ r[1] = LabelId(stripPeerSuffix(l[1])) /\ r[3] = LabelId(stripPeerSuffix(l[2]))
    BY <1>9 DEF LinkTo
  <1>11. QED
    BY <1>6, <1>7, <1>8, <1>9, <1>10

(* OnlyCyclesAreLost, a property that Tooling.cfg checks on an instance:     *)
(* every locked package is in the document, and hangs from the root unless   *)
(* only packages that do not depend on it (generateSbom, addDepEdge).        *)
THEOREM OnlyCyclesAreLostCorrect == SbomSpec => []OnlyCyclesAreLost
  <1>1. ASSUME SbomInv, stage = "written", damage = "none" PROVE OnlyCyclesAreLost
    <2>1. PICK d, store : d = lock /\ store = installed
      OBVIOUS
    <2>2. d \in Lockfiles /\ store \in Stores /\ sbom = generateSbom(Text(d), store)
      BY <1>1, <2>1 DEF SbomInv
    <2>3. ASSUME NEW l \in Labels(d)
          PROVE  LabelId(l) \in {sbom.packages[n].id : n \in DOMAIN sbom.packages}
      <3>1. PICK e \in Entries(d, store) : e.id = LabelId(l)
        BY <2>2, EntriesAre DEF Ids
      <3>2. PICK n \in DOMAIN sbom.packages : sbom.packages[n] = e
        BY <2>2, <3>1, PackagesAre DEF ToSet
      <3>3. QED
        BY <3>1, <3>2
    <2>4. PICK R : R = sbom.relationships
      OBVIOUS
    <2>5. ASSUME NEW b \in Labels(d), LabelId(b) \notin Hanging(R)
          PROVE  /\ \A e \in Asked(d) : e[1] \in {"."} \cup {w.path : w \in Published} =>
                      b # stripPeerSuffix(e[2])
                 /\ \E a \in Labels(d) :
                      /\ LabelId(a) \notin Hanging(R)
                      /\ \E e \in Linked(d) :
                           stripPeerSuffix(e[1]) = a /\ LabelId(stripPeerSuffix(e[2])) = LabelId(b)
      <3>1. R = generateSbom(Text(d), store).relationships
        BY <2>2, <2>4
      <3>2. QED
        BY <2>2, <2>5, <3>1, WrittenHangs
    <2>6. QED
      BY <2>1, <2>3, <2>4, <2>5 DEF OnlyCyclesAreLost
  <1>2. SbomInv => OnlyCyclesAreLost
    BY <1>1 DEF OnlyCyclesAreLost
  <1>3. QED
    BY <1>2, SbomSafe, PTL

-----------------------------------------------------------------------------
(* The validator accepts what it should                                     *)

Intact(g, d, store) ==
  /\ g = [header |-> {}, packages |-> g.packages, relationships |-> g.relationships]
  /\ g.packages \in Seq(Entries(d, store)) /\ ToSet(g.packages) = Entries(d, store)
  /\ \A r : r \in g.relationships <=> Related(d, r)

LEMMA WrittenIs ==
  ASSUME NEW d \in Lockfiles, NEW store \in Stores
  PROVE  Intact(generateSbom(Text(d), store), d, store)
  <1>1. PICK g : g = generateSbom(Text(d), store)
    OBVIOUS
  <1>2. g = [header |-> {}, packages |-> g.packages, relationships |-> g.relationships]
    BY <1>1 DEF generateSbom
  <1>3. g.packages \in Seq(Entries(d, store)) /\ ToSet(g.packages) = Entries(d, store)
    BY <1>1, PackagesAre
  <1>4. \A r : r \in g.relationships <=> Related(d, r)
    BY <1>1, RelationshipsAre
  <1>5. QED
    BY <1>1, <1>2, <1>3, <1>4 DEF Intact

LEMMA IntactHas ==
  ASSUME NEW d \in Lockfiles, NEW store \in Stores, NEW g, Intact(g, d, store)
  PROVE  /\ Len(g.packages) \in Nat \ {0} /\ DOMAIN g.packages = 1 .. Len(g.packages)
         /\ \A n \in DOMAIN g.packages :
              LET p == g.packages[n] IN
              /\ p = Entry(p.id, p.license, p.location) /\ p.flaws = {}
              /\ p.id \in Ids(d) /\ p.location \in Locations /\ Licensed(p.license)
         /\ \A id \in Ids(d) : \E n \in DOMAIN g.packages : g.packages[n].id = id
         /\ DescribedBy \in g.relationships
  <1>1. PICK all, E : all = g.packages /\ E = Entries(d, store)
    OBVIOUS
  <1>2. all \in Seq(E) /\ ToSet(all) = E
    BY <1>1 DEF Intact
  <1>3. Len(all) \in Nat /\ DOMAIN all = 1 .. Len(all) /\ \A n \in DOMAIN all : all[n] \in E
    BY <1>2
  <1>4. \A e \in E : e = Entry(e.id, e.license, e.location)
                     /\ e.id \in Ids(d) /\ e.location \in Locations /\ Licensed(e.license)
    BY <1>1, EntriesAre
  <1>5. \A e \in E : e.flaws = {}
    BY <1>4 DEF Entry
  <1>6. \A id \in Ids(d) : \E n \in DOMAIN all : all[n].id = id
    <2>1. \A id \in Ids(d) : \E e \in E : e.id = id
      BY <1>1, EntriesAre
    <2>2. \A e \in E : \E n \in DOMAIN all : all[n] = e
      BY <1>2 DEF ToSet
    <2>3. QED
      BY <2>1, <2>2
  <1>7. Len(all) # 0
    <2>1. RootId \in Ids(d)
      BY DEF Ids
    <2>2. QED
      BY <1>3, <1>6, <2>1
  <1>8. DescribedBy \in g.relationships
    BY DEF Intact, Related
  <1>9. QED
    BY <1>1, <1>3, <1>4, <1>5, <1>6, <1>7, <1>8

LEMMA WrittenValid ==
  ASSUME NEW d \in Lockfiles, NEW store \in Stores, NEW g, Intact(g, d, store)
  PROVE  validateSbom(g) = {} <=>
           /\ \A m, n \in DOMAIN g.packages : m # n => g.packages[m].id # g.packages[n].id
           /\ \A n \in DOMAIN g.packages : /\ IsExpression(g.packages[n].license)
                                           /\ g.packages[n].location # "relative"
  <1>1. PICK all : all = g.packages
    OBVIOUS
  <1>2. /\ Len(all) \in Nat \ {0} /\ DOMAIN all = 1 .. Len(all)
        /\ \A n \in DOMAIN all : /\ all[n].flaws = {} /\ all[n].id \in Ids(d)
                                 /\ all[n].location \in Locations /\ Licensed(all[n].license)
        /\ \A id \in Ids(d) : \E n \in DOMAIN all : all[n].id = id
        /\ DescribedBy \in g.relationships
    BY <1>1, IntactHas
  <1>3. g.header = {} /\ g.packages # << >> /\ g.relationships # {}
    <2>1. g.header = {}
      BY DEF Intact
    <2>2. all # << >>
      BY <1>2
    <2>3. QED
      BY <1>1, <1>2, <2>1, <2>2
  <1>4. \A r \in g.relationships : Joined(g, r)
    <2>1. Ids(d) \subseteq Declared(g)
      <3>1. \A n \in DOMAIN all : "id" \notin all[n].flaws
        BY <1>2
      <3>2. QED
        BY <1>1, <1>2, <3>1 DEF Declared
    <2>2. Document \in Declared(g)
      BY DEF Declared
    <2>3. \A r \in g.relationships : /\ r[1] \in {Document} \cup Ids(d) /\ r[3] \in Ids(d)
                                     /\ r[2] \in ValidTypes
      BY EndsAreIds DEF Intact
    <2>4. QED
      BY <2>1, <2>2, <2>3 DEF Joined
  <1>5. \A n \in DOMAIN all : Fine(g, n) <=>
          /\ ~ \E m \in 1 .. n - 1 : all[m].id = all[n].id
          /\ all[n].location # "relative" /\ IsExpression(all[n].license)
    <2>1. \A n \in DOMAIN all : validateDownloadLocation(all[n].location) <=> all[n].location # "relative"
      BY <1>2 DEF validateDownloadLocation, Locations
    <2>2. \A n \in DOMAIN all : validateSpdxExpression(all[n].license) <=> IsExpression(all[n].license)
      BY <1>2, ParserExact DEF Licensed
    <2>3. QED
      BY <1>1, <1>2, <2>1, <2>2 DEF Fine
  <1>6. (\A n \in DOMAIN all : ~ \E m \in 1 .. n - 1 : all[m].id = all[n].id)
          <=> \A m, n \in DOMAIN all : m # n => all[m].id # all[n].id
    <2>1. ASSUME \A n \in DOMAIN all : ~ \E m \in 1 .. n - 1 : all[m].id = all[n].id,
                 NEW m \in DOMAIN all, NEW n \in DOMAIN all, m # n
          PROVE  all[m].id # all[n].id
      <3>1. m \in 1 .. n - 1 \/ n \in 1 .. m - 1
        BY <1>2, <2>1
      <3>2. QED
        BY <2>1, <3>1
    <2>2. \A n \in DOMAIN all : \A m \in 1 .. n - 1 : m \in DOMAIN all /\ m # n
      BY <1>2
    <2>3. QED
      BY <2>1, <2>2
  <1>7. validateSbom(g) = {} <=> \A n \in DOMAIN all : Fine(g, n)
    BY <1>1, <1>2, <1>3, <1>4, ErrorsAre
  <1>8. QED
    BY <1>1, <1>5, <1>6, <1>7

LEMMA DamagedInvalid ==
  ASSUME NEW d \in Lockfiles, NEW store \in Stores, NEW g, Intact(g, d, store),
         NEW kind \in DamageKinds
  PROVE  validateSbom(Damaged(g, kind)) # {}
  <1>1. PICK all, k : all = g.packages /\ k = Len(all)
    OBVIOUS
  <1>2. PICK b : b = Damaged(g, kind)
    OBVIOUS
  <1>3. /\ k \in Nat \ {0} /\ DOMAIN all = 1 .. k
        /\ \A n \in DOMAIN all : all[n] = Entry(all[n].id, all[n].license, all[n].location)
        /\ \A n \in DOMAIN all : all[n].id \in Ids(d)
        /\ \A id \in Ids(d) : \E n \in DOMAIN all : all[n].id = id
    BY <1>1, IntactHas
  <1>4. g = [header |-> {}, packages |-> all, relationships |-> g.relationships]
    BY <1>1 DEF Intact
  <1>5. CASE kind \in HeaderFields
    <2>1. b = [g EXCEPT !.header = {kind}]
      BY <1>2, <1>5 DEF Damaged, HeaderFields, PackageFields
    <2>2. b.header # {}
      BY <1>4, <2>1
    <2>3. QED
      BY <1>2, <2>2, ErrorsAre
  <1>6. CASE kind \in PackageFields
    <2>1. b = [g EXCEPT !.packages[k].flaws = {kind}]
      BY <1>1, <1>2, <1>6 DEF Damaged, HeaderFields, PackageFields
    <2>2. b.packages = [all EXCEPT ![k].flaws = {kind}]
      BY <1>4, <2>1
    <2>3. k \in DOMAIN b.packages /\ b.packages[k].flaws = {kind}
      BY <1>3, <2>2 DEF Entry
    <2>4. ~Fine(b, k)
      BY <2>3 DEF Fine
    <2>5. QED
      BY <1>2, <2>3, <2>4, ErrorsAre
  <1>7. CASE kind = "no packages"
    <2>1. b = [g EXCEPT !.packages = << >>]
      BY <1>2, <1>7 DEF Damaged, HeaderFields, PackageFields
    <2>2. b.packages = << >>
      BY <1>4, <2>1
    <2>3. QED
      BY <1>2, <2>2, ErrorsAre
  <1>8. CASE kind = "package lost"
    <2>1. PICK x, kept : x = all[k].id /\ kept = {p \in ToSet(all) : p.id # x}
      OBVIOUS
    <2>2. b = [g EXCEPT !.packages = SetToSeq(kept)]
      BY <1>1, <1>2, <1>4, <1>8, <2>1 DEF Damaged, HeaderFields, PackageFields, Last
    <2>3. b.packages = SetToSeq(kept) /\ b.relationships = g.relationships
      BY <1>4, <2>2
    <2>4. IsFiniteSet(kept)
      <3>1. all \in Seq(ToSet(all))
        BY <1>1 DEF Intact
      <3>2. IsFiniteSet(ToSet(all))
        <4>1. all \in Surjection(1 .. k, ToSet(all))
          BY <1>3, <3>1 DEF Surjection, ToSet
        <4>2. IsFiniteSet(1 .. k)
          BY <1>3, FS_Interval
        <4>3. QED
          BY <4>1, <4>2, FS_Surjection
      <3>3. QED
        BY <2>1, <3>2, FS_Subset
    <2>5. \A n \in DOMAIN b.packages : b.packages[n].id # x
      BY <2>1, <2>3, <2>4, SeqOfSet DEF ToSet
    <2>6. x \in Ids(d)
      BY <1>3, <2>1
    <2>7. x # Document
      BY <2>6 DEF Ids, RootId, toSpdxId, LabelId, Document
    <2>8. x \notin Declared(b)
      BY <2>5, <2>7 DEF Declared
    <2>9. PICK r : Related(d, r) /\ r[3] = x
      BY <2>6, IdsAreEnds
    <2>10. r \in b.relationships /\ ~Joined(b, r)
      BY <2>3, <2>8, <2>9 DEF Intact, Joined
    <2>11. QED
      BY <1>2, <2>10, ErrorsAre
  <1>9. CASE kind = "no relationships"
    <2>1. b = [g EXCEPT !.relationships = {}]
      BY <1>2, <1>9 DEF Damaged, HeaderFields, PackageFields
    <2>2. b.relationships = {}
      BY <1>4, <2>1
    <2>3. QED
      BY <1>2, <2>2, ErrorsAre
  <1>10. CASE kind = "no description"
    <2>1. b = [g EXCEPT !.relationships = g.relationships \ {DescribedBy}]
      BY <1>2, <1>10 DEF Damaged, HeaderFields, PackageFields
    <2>2. DescribedBy \notin b.relationships
      BY <1>4, <2>1
    <2>3. QED
      BY <1>2, <2>2, ErrorsAre
  <1>11. CASE kind = "unknown type"
    <2>1. PICK r : r = <<RootId, "USES", RootId>>
      OBVIOUS
    <2>2. b = [g EXCEPT !.relationships = g.relationships \cup {r}]
      BY <1>2, <1>11, <2>1 DEF Damaged, HeaderFields, PackageFields
    <2>3. r \in b.relationships
      BY <1>4, <2>2
    <2>4. ~Joined(b, r)
      BY <2>1 DEF Joined, ValidTypes
    <2>5. QED
      BY <1>2, <2>3, <2>4, ErrorsAre
  <1>12. QED
    BY <1>5, <1>6, <1>7, <1>8, <1>9, <1>10, <1>11 DEF DamageKinds

(* GeneratedValidates, a property that Tooling.cfg checks on an instance:    *)
(* what the generator writes is accepted exactly when it should be, and      *)
(* nothing that was damaged is (generateSbom, validateSbom).                 *)
THEOREM GeneratedValidatesCorrect == SbomSpec => []GeneratedValidates
  <1>1. ASSUME SbomInv, stage = "validated" PROVE GeneratedValidates
    <2>1. PICK d, store, g : d = lock /\ store = installed /\ g = generateSbom(Text(d), store)
      OBVIOUS
    <2>2. d \in Lockfiles /\ store \in Stores /\ errors = validateSbom(sbom)
      BY <1>1, <2>1 DEF SbomInv
    <2>3. Intact(g, d, store)
      BY <2>1, <2>2, WrittenIs
    <2>4. CASE damage = "none"
      <3>1. sbom = g
        BY <1>1, <2>1, <2>4 DEF SbomInv
      <3>2. QED
        BY <2>2, <2>3, <2>4, <3>1, WrittenValid DEF GeneratedValidates
    <2>5. CASE damage # "none"
      <3>1. PICK kind : kind = damage
        OBVIOUS
      <3>2. kind \in DamageKinds /\ sbom = Damaged(g, kind)
        BY <1>1, <2>1, <2>5, <3>1, SbomAssumption DEF SbomInv
      <3>3. errors # {}
        BY <2>2, <2>3, <3>2, DamagedInvalid
      <3>4. QED
        BY <2>5, <3>3 DEF GeneratedValidates
    <2>6. QED
      BY <2>4, <2>5
  <1>2. SbomInv => GeneratedValidates
    BY <1>1 DEF GeneratedValidates
  <1>3. QED
    BY <1>2, SbomSafe, PTL
=============================================================================

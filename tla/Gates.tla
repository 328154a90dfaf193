-------------------------------- MODULE Gates -------------------------------
(***************************************************************************)
(* The checks that stand between a commit and npm, each a function of the   *)
(* commit's tree: scripts/checks and the guard of the Buildkite fallback.   *)
(*                                                                         *)
(* A tree is a record                                                      *)
(*   root       version of the root manifest                               *)
(*   packages   the directories of packages/: [name, scoped, private,      *)
(*              access, version, deps, loads, legal, bundled: the packages *)
(*              in the source maps of dist, notices: the words of          *)
(*              THIRD_PARTY_NOTICES.md, attributed: the packages it gives  *)
(*              notice of, packed: whether it is in the tarball]           *)
(*   policy     dependency -> repository approved for it                   *)
(*   npmrc      lines of .npmrc: << >> for a comment, else <<key, value>>  *)
(*   lock       pnpm-lock.yaml, as Lockfile's documents                    *)
(*   installed  dependency -> repository its installed manifest names      *)
(*   genuine    whether the hashes of the lockfile are those npm publishes *)
(*   files      [path: its segments, skipped, lines, and what ScanCode     *)
(*              would report: detections, copyrights]                      *)
(*   contract   the OpenAPI document, [schemas, last, operations, texts],    *)
(*              and the names api-contracts exports: [document, schemas,     *)
(*              operations]                                                  *)
(***************************************************************************)
EXTENDS Lockfile, Integers

CONSTANTS
  ScopeKey,        \* scoped dependency -> the key of its scope's registry
  Spelled          \* word -> names that occur in it

(* text.includes(name): a text is the set of its words, a name one of them  *)
(* or part of one.                                                          *)
includes(text, name) ==
  name \in text \/ \E word \in text \cap DOMAIN Spelled : name \in Spelled[word]

NpmRegistry == "npm"      \* https://registry.npmjs.org/, with or without the last slash

-----------------------------------------------------------------------------
(* third-party-compliance.mjs, the default mode.                            *)

(* The last line with a key counts; comments and lines without "=" do not.  *)
parseNpmrc(lines) ==
  LET Keyed(key) == {n \in DOMAIN lines : lines[n] # << >> /\ lines[n][1] = key}
      keys       == {lines[n][1] : n \in {m \in DOMAIN lines : lines[m] # << >>}}
      Value(key) == lines[CHOOSE n \in Keyed(key) : \A m \in Keyed(key) : m <= n][2]
  IN [key \in keys |-> Value(key)]

(* The environment is given as empty by the only caller.                    *)
effectiveRegistry(dep, npmrc) ==
  IF dep \in DOMAIN ScopeKey /\ ScopeKey[dep] \in DOMAIN npmrc THEN npmrc[ScopeKey[dep]]
  ELSE IF "registry" \in DOMAIN npmrc THEN npmrc["registry"]
  ELSE NpmRegistry

NoUrl == [scheme |-> "", place |-> "", git |-> FALSE]

(* A git+ prefix, a .git suffix and these schemes are dropped, ssh is kept. *)
normaliseRepoUrl(url) ==
  <<IF url.scheme \in {"http", "https", "git"} THEN "" ELSE url.scheme, url.place>>

classifyResolution(resolution) ==
  IF "directory" \in resolution THEN "directory"
  ELSE IF resolution \cap {"repo", "commit"} # {} THEN "git"
  ELSE IF "tarball https npm" \in resolution THEN "ok"
  ELSE IF "tarball http npm" \in resolution THEN "tarball-http-npm"
  ELSE IF "tarball elsewhere" \in resolution THEN "tarball-foreign"
  ELSE IF "integrity" \in resolution THEN "ok"
  ELSE IF resolution = {} THEN "no-resolution" ELSE "unknown"

Releasable(tree) == {p \in tree.packages : ~p.private /\ p.scoped}

(* What one dependency is accused of.  npm is asked about the entries with  *)
(* an integrity hash; if it does not answer, that is only a warning.        *)
Violations(tree, dep, answers) ==
  IF dep \notin DOMAIN tree.policy THEN {"policy"}
  ELSE
    LET entries == {e \in parseLockfilePackages(Text(tree.lock)) : e[1][1] = dep}
        npmrc   == parseNpmrc(tree.npmrc)
        wanted  == tree.policy[dep]
        found   == IF dep \in DOMAIN tree.installed THEN tree.installed[dep] ELSE NoUrl
    IN (IF effectiveRegistry(dep, npmrc) # NpmRegistry THEN {"registry-config"} ELSE {})
       \cup (IF entries = {} \/ \E e \in entries : classifyResolution(e[2]) # "ok"
             THEN {"lockfile-provenance"} ELSE {})
       \cup (IF answers /\ ~tree.genuine /\ \E e \in entries : "integrity" \in e[2]
             THEN {"npm-integrity"} ELSE {})
       \cup (IF /\ wanted # NoUrl /\ found # NoUrl
                /\ normaliseRepoUrl(wanted) # normaliseRepoUrl(found)
             THEN {"repository-url"} ELSE {})

runComplianceChecks(tree, answers) ==
  \A dep \in UNION {p.deps : p \in Releasable(tree)} : Violations(tree, dep, answers) = {}

-----------------------------------------------------------------------------
(* scancode-license.mjs: a review-only path excuses what is detected there. *)

AllowedLicenses   == {"mit"}
ForbiddenLicenses == {"gpl-2.0"}
AllowedHolders    == {"third eye cyborg llc"}
ReviewOnly        == {<<"CONTRIBUTING.md">>}
IgnoredNames      == {".git", "node_modules", "dist", "coverage", ".cache", ".reports", "evidence"}

isForbiddenLicense(key) == key \in ForbiddenLicenses
isAllowedLicense(key)   == key \in AllowedLicenses

(* ScanCode reports on no file with one of the names anywhere in its path.  *)
scanned(file) == ToSet(file.path) \cap IgnoredNames = {}

(* A statement is the set of its words, an allowed holder's name being one. *)
hasAllowedHolder(copyright) == \E holder \in AllowedHolders : includes(copyright, holder)

(* detections is a set of sets of licence keys, copyrights one of statements. *)
Findings(file) ==
  LET Of(keys) == IF \E k \in keys : isForbiddenLicense(k) THEN {"copyleft-license"}
                  ELSE IF \E k \in keys : ~isAllowedLicense(k) THEN {"unrecognized-license"}
                  ELSE {}
  IN IF file.path \in ReviewOnly \/ ~scanned(file) THEN {}
     ELSE (IF \E c \in file.copyrights : c # {} /\ ~hasAllowedHolder(c) THEN {"copyright-holder"} ELSE {})
          \cup UNION {Of(keys) : keys \in file.detections}

scancodeLicense(tree) == \A file \in tree.files : Findings(file) = {}

(* boundary-scan.mjs: lines is a set of [term, ok], binary files and skipped *)
(* paths are not read.                                                      *)
boundaryScan(tree) ==
  \A file \in {f \in tree.files : ~f.skipped} : \A line \in file.lines : line.term => line.ok

-----------------------------------------------------------------------------
(* package-smoke.mjs, over every workspace that is not private; and the     *)
(* preflight of npm's trusted publishing.                                   *)

packageSmoke(tree) ==
  \A p \in {q \in tree.packages : ~q.private} :
    /\ p.loads                                      \* from dist and from the tarball
    /\ \A name \in p.bundled : includes(p.notices, name)
    /\ p.legal                                      \* LICENSE, the root's NOTICE, metadata
    /\ p.deps # {} => p.packed

isPublicPackageManifest(p) == ~p.private /\ p.scoped /\ p.access = "public"

isAtLeastVersion(actual, minimum) ==
  \/ actual = minimum
  \/ \E n \in DOMAIN minimum : actual[n] > minimum[n] /\ \A m \in 1 .. n - 1 : actual[m] = minimum[m]

(* env: [token, oidc, node, npm], the last two as triples.                  *)
verifyNpmPublishAccess(tree, env) ==
  /\ ~env.token /\ env.oidc
  /\ isAtLeastVersion(env.node, <<22, 14, 0>>) /\ isAtLeastVersion(env.npm, <<11, 5, 1>>)
  /\ {p \in tree.packages : ~p.private} # {}
  /\ \A p \in tree.packages : ~p.private => isPublicPackageManifest(p)

-----------------------------------------------------------------------------

(* drift-check.ts of api-contracts, which `pnpm test` runs.  The schemas of  *)
(* the document are a sequence, its operations a set; last says that they    *)
(* end the file, texts are other places where an operationId is written.     *)

extractFromDocument(document) ==
  [schemas |-> ToSet(document.schemas), operations |-> document.operations]

(* Without the YAML parser: the section must be followed by another, and     *)
(* the expression looks for a line break before a name, where the first has  *)
(* none left.                                                               *)
extractFromText(document) ==
  [schemas    |-> IF document.last THEN {} ELSE ToSet(Tail(document.schemas)),
   operations |-> document.operations \cup document.texts]

runDriftCheck(contract, mode) ==
  LET found == IF mode = "yaml" THEN extractFromDocument(contract.document)
               ELSE extractFromText(contract.document)
  IN /\ found.schemas # {} /\ found.operations # {}
     /\ found.schemas = contract.schemas /\ found.operations = contract.operations

-----------------------------------------------------------------------------

(* release-guard.sh: the version asked for, by tag or by variable, is that  *)
(* of every manifest, and the commit is on main.                            *)
release_guard(tree, requested, onMain) ==
  /\ requested = tree.root
  /\ \A p \in tree.packages : p.version = requested
  /\ onMain
=============================================================================

-------------------------------- MODULE Sbom --------------------------------
(***************************************************************************)
(* The software bill of materials: `third-party-compliance --sbom` makes it *)
(* from the lockfile and the packages installed, validate-sbom reads the    *)
(* file afterwards.  A document is its header, a sequence of packages and a *)
(* set of relationships <<from, type, to>> between SPDX identifiers, which  *)
(* are tuples here.                                                        *)
(***************************************************************************)
EXTENDS Lockfile, SpdxExpression

CONSTANTS
  Lockfiles,    \* lockfiles that may be given
  Stores,       \* what may be installed under node_modules
  Damages,      \* what may happen to the file before it is validated
  Published,    \* published workspaces: [path, name, license]
  Flat          \* a name with everything but letters, digits, "." and "-" replaced

VARIABLES
  lock,         \* the lockfile the document was made from
  installed,    \* the store it was made from
  sbom,         \* the document in the file
  unresolved,   \* packages the user was warned about
  damage,       \* what happened to the file before it was validated
  errors,       \* what validate-sbom said
  stage         \* "generate", "written" or "validated"

sbomVars == <<lock, installed, sbom, unresolved, damage, errors, stage>>

NoSbom == [header |-> {}, packages |-> << >>, relationships |-> {}]

Document == << >>
RootId   == <<"Package-root">>
DescribedBy == <<Document, "DESCRIBES", RootId>>

-----------------------------------------------------------------------------
(* collectAllTransitiveDeps: every package of the lockfile that is not a    *)
(* directory, with the metadata of the installed copy.                      *)

LockedIn(text) ==
  {stripPeerSuffix(p[1]) : p \in {q \in parseLockfilePackages(text) : "directory" \notin q[2]}}

(* Fault: the hoisted copy is used whatever its version.                    *)
Installed_AnyVersion(bare, store) ==
  LET Copies(in) == {m \in in : m.name = bare[1] /\ m.readable}
  IN IF Copies(store.hoisted) # {} THEN Copies(store.hoisted) ELSE Copies(store.virtual)

(* The hoisted copy counts when its version is the one locked; otherwise    *)
(* the virtual store is searched, where unreadable copies are passed over.  *)
Installed(bare, store) ==
  LET Copies(in) == {m \in in : m.name = bare[1] /\ m.version = bare[2] /\ m.readable}
  IN IF Copies(store.hoisted) # {} THEN Copies(store.hoisted) ELSE Copies(store.virtual)

NoAssertion == <<"NOASSERTION">>

(* An entry of the document; a package that is not installed has one too.   *)
Collected(bare, store) ==
  LET found == Installed(bare, store)
      copy  == CHOOSE m \in found : TRUE
  IN IF found = {}
     THEN [name |-> bare[1], version |-> bare[2], license |-> NoAssertion, location |-> "registry"]
     ELSE [name |-> copy.name, version |-> copy.version, license |-> copy.license,
           location |-> copy.homepage]

collectAllTransitiveDeps(text, store) == {Collected(bare, store) : bare \in LockedIn(text)}

(* Packages without metadata, of which no snapshot is optional.             *)
Unresolved(text, store) ==
  {bare \in LockedIn(text) : Installed(bare, store) = {} /\ bare \notin parseSnapshotOptionals(text)}

-----------------------------------------------------------------------------
(* generateSbom.                                                            *)

toSpdxId(name) == <<Flat[name]>>
IdOf(dep)      == <<Flat[dep.name], dep.version>>

Listed(deps, key) ==
  ~Own(key) /\ stripPeerSuffix(key) \in {<<d.name, d.version>> : d \in deps}

(* addDepEdge, for each workspace that is published, for the root, and for  *)
(* every external package listed.                                           *)
GraphEdges(text, deps) ==
  LET Edge(from, key) == <<from, "DYNAMIC_LINK", <<Flat[key[1]], key[2]>> >>
      asked  == {a \in parseLockfileImporterDeps(text) : Listed(deps, a[2])}
      linked == {l \in parseLockfileSnapshots(text) : Listed(deps, l[1]) /\ Listed(deps, l[2])}
  IN (UNION {{Edge(toSpdxId(w.name), a[2]) : a \in {b \in asked : b[1] = w.path}} : w \in Published})
     \cup {Edge(RootId, a[2]) : a \in {b \in asked : b[1] = "."}}
     \cup {Edge(<<Flat[l[1][1]], l[1][2]>>, l[2]) : l \in linked}

(* Fault: there is no fallback.                                             *)
Orphans_None(deps, edges) == {}

(* The fallback: what no edge points to is linked from the root.            *)
Orphans(deps, edges) ==
  {<<RootId, "DYNAMIC_LINK", IdOf(d)>> : d \in {p \in deps : \A e \in edges : e[3] # IdOf(p)}}

Entry(id, license, location) ==
  [id |-> id, license |-> license, location |-> location, flaws |-> {}]

generateSbom(text, store) ==
  LET deps  == collectAllTransitiveDeps(text, store)
      edges == GraphEdges(text, deps)
  IN [header |-> {},
      packages |->
        <<Entry(RootId, <<"MIT">>, "registry")>>      \* a listed licence, an absolute URL
        \o SetToSeq({Entry(toSpdxId(w.name), w.license, "registry") : w \in Published})
        \o [n \in DOMAIN SetToSeq(deps) |->
              LET d == SetToSeq(deps)[n] IN Entry(IdOf(d), d.license, d.location)],
      relationships |->
        {DescribedBy} \cup {<<RootId, "CONTAINS", toSpdxId(w.name)>> : w \in Published}
        \cup edges \cup Orphans(deps, edges)]

-----------------------------------------------------------------------------
(* What may be wrong with a file by the time it is validated: a malformed   *)
(* field of the header or of a package, or a part left out.                 *)

HeaderFields  == {"spdxVersion", "dataLicense", "SPDXID", "name", "documentNamespace",
                  "created", "creators"}
PackageFields == {"id", "packageName", "versionInfo", "filesAnalyzed", "copyrightText"}

Damaged(d, kind) ==
  CASE kind = "none"             -> d
    [] kind \in HeaderFields     -> [d EXCEPT !.header = {kind}]
    [] kind \in PackageFields    -> [d EXCEPT !.packages[Len(d.packages)].flaws = {kind}]
    [] kind = "no packages"      -> [d EXCEPT !.packages = << >>]
    [] kind = "package lost"     -> [d EXCEPT !.packages = SetToSeq({p \in ToSet(@) : p.id # Last(@).id})]
    [] kind = "no relationships" -> [d EXCEPT !.relationships = {}]
    [] kind = "no description"   -> [d EXCEPT !.relationships = @ \ {DescribedBy}]
    [] kind = "unknown type"     -> [d EXCEPT !.relationships = @ \cup {<<RootId, "USES", RootId>>}]

ValidTypes == {"DESCRIBES", "CONTAINS", "DYNAMIC_LINK"}     \* of Annex J, the ones that occur

(* Fault: the location is resolved against a base, so any path will do.     *)
validateDownloadLocation_Based(location) == location \in {"registry", "absolute", "relative"}

(* validateDownloadLocation: NOASSERTION, NONE or an absolute URI.          *)
validateDownloadLocation(location) == location \in {"registry", "absolute"}

(* validateSbom: all that is wrong, each found independently of the others. *)
validateSbom(d) ==
  LET declared == {Document} \cup {d.packages[n].id :
                                     n \in {m \in DOMAIN d.packages : "id" \notin d.packages[m].flaws}}
      InPackage(p, n) ==
        p.flaws
        \cup (IF "id" \notin p.flaws /\ \E m \in 1 .. n - 1 : d.packages[m].id = p.id
              THEN {"duplicated"} ELSE {})
        \cup (IF validateDownloadLocation(p.location) THEN {} ELSE {"downloadLocation"})
        \cup (IF validateSpdxExpression(p.license) THEN {} ELSE {"license"})
      InRelationship(r) ==
        (IF {r[1], r[3]} \subseteq declared THEN {} ELSE {"dangling"})
        \cup (IF r[2] \in ValidTypes THEN {} ELSE {"relationshipType"})
  IN d.header
     \cup (IF d.packages = << >> THEN {"packages"} ELSE {})
     \cup (UNION {InPackage(d.packages[n], n) : n \in DOMAIN d.packages})
     \cup (IF d.relationships = {} THEN {"relationships"} ELSE {})
     \cup (UNION {InRelationship(r) : r \in d.relationships})
     \cup (IF DescribedBy \in d.relationships THEN {} ELSE {"DESCRIBES"})

-----------------------------------------------------------------------------

SbomInit ==
  /\ lock = [importers |-> {}, packages |-> {}, snapshots |-> {}]
  /\ installed = [hoisted |-> {}, virtual |-> {}]
  /\ sbom = NoSbom /\ unresolved = {} /\ damage = "none" /\ errors = {} /\ stage = "generate"

Generate(doc, store) ==
  /\ stage = "generate"
  /\ lock' = doc /\ installed' = store
  /\ sbom' = generateSbom(Text(doc), store)
  /\ unresolved' = Unresolved(Text(doc), store)
  /\ stage' = "written"
  /\ UNCHANGED <<damage, errors>>

Damage(kind) ==
  /\ stage = "written" /\ damage = "none"
  /\ damage' = kind
  /\ sbom' = Damaged(sbom, kind)
  /\ UNCHANGED <<lock, installed, unresolved, errors, stage>>

Validate ==
  /\ stage = "written"
  /\ errors' = validateSbom(sbom)
  /\ stage' = "validated"
  /\ UNCHANGED <<lock, installed, sbom, unresolved, damage>>

SbomNext ==
  \/ \E doc \in Lockfiles, store \in Stores : Generate(doc, store)
  \/ \E kind \in Damages : Damage(kind)
  \/ Validate

-----------------------------------------------------------------------------

SbomSpec == SbomInit /\ [][SbomNext]_sbomVars

-----------------------------------------------------------------------------

DamageKinds == HeaderFields \cup PackageFields
  \cup {"no packages", "package lost", "no relationships", "no description", "unknown type"}

(* Lockfiles are what pnpm writes and are read as that, licences are texts  *)
(* of tokens, and a file is damaged in a way of these.                      *)
ASSUME SbomAssumption ==
  /\ \A doc \in Lockfiles : WellFormed(doc) /\ Closed(doc)
  /\ IsFiniteSet(Published)
  /\ \A store \in Stores : \A m \in store.hoisted \cup store.virtual :
       m.homepage \in {"registry", "absolute", "relative"} /\ m.license \in Seq(Tokens)
  /\ \A w \in Published : w.license \in Seq(Tokens)
  /\ Damages \subseteq DamageKinds

(* The validator accepts exactly what it should of what the generator wrote: *)
(* a file nobody touched is valid unless two names become one identifier, an *)
(* installed package states a licence that is not an SPDX expression or its  *)
(* homepage is not absolute; a damaged file never is (generateSbom against   *)
(* validateSbom, scripts/checks/validate-sbom.mjs).                          *)
GeneratedValidates ==
  stage = "validated" =>
    LET entries == sbom.packages IN
    (errors = {}) <=>
      /\ damage = "none"
      /\ \A m, n \in DOMAIN entries : m # n => entries[m].id # entries[n].id
      /\ \A n \in DOMAIN entries : /\ IsExpression(entries[n].license)
                                   /\ entries[n].location # "relative"

(* What hangs from the root: the identifiers in every set that contains it   *)
(* and that no relationship leads out of.                                    *)
Hanging(relationships) ==
  LET ids == {RootId} \cup {r[3] : r \in relationships}
      Sealed(R) == RootId \in R /\ \A r \in relationships : r[1] \in R => r[3] \in R
  IN {id \in ids : \A R \in SUBSET ids : Sealed(R) => id \in R}

LabelId(label) == <<Flat[label[1]], label[2]>>

(* Nothing locked is missing from the document, what a published workspace   *)
(* or the root asks for hangs from the root there, with all it depends on,   *)
(* and so does every other package unless only packages that hang from       *)
(* nothing depend on it: a cycle none of whose members is asked for, since   *)
(* the fallback of generateSbom looks for identifiers without a dependent.   *)
OnlyCyclesAreLost ==
  stage = "written" /\ damage = "none" =>
    LET lost == {l \in Labels(lock) : LabelId(l) \notin Hanging(sbom.relationships)}
        DependsOn(a, b) == \E e \in Linked(lock) :
                             stripPeerSuffix(e[1]) = a /\ LabelId(stripPeerSuffix(e[2])) = LabelId(b)
        IsAsked(b) == \E e \in Asked(lock) : e[1] \in {"."} \cup {w.path : w \in Published}
                                             /\ b = stripPeerSuffix(e[2])
    IN /\ {LabelId(l) : l \in Labels(lock)} \subseteq {sbom.packages[n].id : n \in DOMAIN sbom.packages}
       /\ \A b \in lost : ~IsAsked(b) /\ \E a \in lost : DependsOn(a, b)

(* The user is warned of exactly the locked packages without a copy at their *)
(* version that can be read, but for those some snapshot of which is         *)
(* optional: their entries say NOASSERTION (collectAllTransitiveDeps).       *)
GapsAreReported ==
  stage # "generate" =>
    LET Missing(l)  == \A m \in installed.hoisted \cup installed.virtual :
                         ~(m.name = l[1] /\ m.version = l[2] /\ m.readable)
        Required(l) == \A s \in lock.snapshots : stripPeerSuffix(s.key) = l => ~s.optional
    IN unresolved = {l \in Labels(lock) : Missing(l) /\ Required(l)}
=============================================================================

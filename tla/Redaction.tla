------------------------------ MODULE Redaction -----------------------------
(***************************************************************************)
(* sanitizeTelemetry (packages/privacy/src/telemetry.ts) and redactFields   *)
(* (packages/observability/src/logger.ts) on nested data, and the helpers   *)
(* of packages/privacy/src/minimization.ts, which look at the outermost     *)
(* fields only.                                                             *)
(*                                                                          *)
(* A value is a leaf, an array, a plain object or an instance of a class.   *)
(* Of a key only its class matters: "prompt" is on both lists, "message" on *)
(* the one for telemetry, "password" on the one for logs, "userPrompt"      *)
(* contains a listed key in another case, and "userId" is on neither.       *)
(***************************************************************************)
EXTENDS Naturals, Sequences

CONSTANTS MaxDepth   \* bound: nesting

ASSUME RedactionAssumption == MaxDepth \in Nat

VARIABLES payload

FORBIDDEN_TELEMETRY_KEYS == {"prompt", "message"}

\* isForbiddenKey: contains one of LOG_FORBIDDEN_KEYS, in any case.
isForbiddenKey == {"prompt", "password", "userPrompt"}

Keys == {"prompt", "message", "password", "userPrompt", "userId", "userTag"}

Leaf     == [is |-> "leaf"]
Redacted == [is |-> "redacted"]
Missing  == [is |-> "missing"]   \* undefined; in a field, that there is none

Array(items)     == [is |-> "array", items |-> items]
Object(fields)   == [is |-> "object", fields |-> fields]
Instance(fields) == [is |-> "instance", fields |-> fields]

\* All data nested at most n deep.
Data[n \in Nat] ==
  IF n = 0 THEN {Leaf, Redacted, Missing}
  ELSE Data[n - 1] \cup [is : {"array"}, items : Seq(Data[n - 1])]
                   \cup [is : {"object", "instance"}, fields : [Keys -> Data[n - 1]]]

Values == Data[MaxDepth]

\* Payloads grow outwards: what there is becomes an item or a field, beside a leaf.
Beside(v, k, l) == [j \in Keys |-> IF j = k THEN v ELSE IF j = l THEN Leaf ELSE Missing]

Wrap(v) ==
  {Array(<<v, Leaf>>)}
    \cup {Object(Beside(v, k, "userId")) : k \in Keys \ {"userTag"}}
    \cup {Object(Beside(v, k, "message")) : k \in {"userId", "userPrompt"}}
    \cup {Instance(Beside(v, k, k)) : k \in {"userId", "prompt"}}

RedactionInit == payload = Leaf

Nest == \E v \in Wrap(payload) : v \in Values /\ payload' = v

-----------------------------------------------------------------------------
(* Each function is its body and the values of its recursive calls.          *)

(* Fault: arrays are taken for values.                                       *)
walk_SkipsArrays(walked, v) ==
  IF v.is = "object"
  THEN Object([k \in Keys |-> IF k \in FORBIDDEN_TELEMETRY_KEYS THEN Missing ELSE walked[v.fields[k]]])
  ELSE v

\* isPlainObject: an instance goes through as it is.
walk(walked, v) ==
  CASE v.is = "array"  -> Array([i \in DOMAIN v.items |-> walked[v.items[i]]])
    [] v.is = "object" -> Object([k \in Keys |-> IF k \in FORBIDDEN_TELEMETRY_KEYS THEN Missing
                                                 ELSE walked[v.fields[k]]])
    [] OTHER           -> v

sanitizeTelemetry[v \in Values] == walk(sanitizeTelemetry, v)

\* Every object is rebuilt from its entries, of whatever class it is.
redactValue(redacted, v) ==
  CASE v.is = "array" -> Array([i \in DOMAIN v.items |-> redacted[v.items[i]]])
    [] v.is \in {"object", "instance"} ->
         Object([k \in Keys |-> IF k \in isForbiddenKey /\ v.fields[k] # Missing THEN Redacted
                                ELSE redacted[v.fields[k]]])
    [] OTHER -> v

redactFields[v \in Values] == redactValue(redactFields, v)

redactKeys(v, keys) ==
  Object([k \in Keys |-> IF k \in keys /\ v.fields[k] # Missing THEN Redacted ELSE v.fields[k]])

pickFields(v, allowlist) == Object([k \in Keys |-> IF k \in allowlist THEN v.fields[k] ELSE Missing])

\* The hash of the id is a leaf.
redactTelemetry(v) ==
  IF v.fields["userId"] = Missing THEN v
  ELSE Object([v.fields EXCEPT !["userId"] = Missing, !["userTag"] = Leaf])

-----------------------------------------------------------------------------

\* A step of a path leads into an item or a field.
Step(of, at, key) == [of |-> of, at |-> at, key |-> key]

Under(step, paths) == {<<step>> \o p : p \in paths}

PathsOf(paths, v) ==
  CASE v.is = "leaf"  -> {<<>>}
    [] v.is = "array" -> UNION {Under(Step("array", i, "item"), paths[v.items[i]]) : i \in DOMAIN v.items}
    [] v.is \in {"object", "instance"} ->
         UNION {Under(Step(v.is, 0, k), paths[v.fields[k]]) : k \in Keys}
    [] OTHER -> {}

\* The paths to the leaves of a value.
Paths[v \in Values] == PathsOf(Paths, v)

Passes(path, keys) == \E i \in DOMAIN path : path[i].key \in keys

\* Passes one of keys before it enters an instance.
PassesOutside(path, keys) ==
  \E i \in DOMAIN path : path[i].key \in keys /\ \A j \in 1 .. i : path[j].of # "instance"

\* The path through the plain objects rebuilt from what it led through.
Rebuilt(path) ==
  [i \in DOMAIN path |-> Step(IF path[i].of = "instance" THEN "object" ELSE path[i].of, path[i].at, path[i].key)]

(* Nothing under a forbidden key leaves at any depth, through arrays and     *)
(* objects of any class (for telemetry: outside instances, which it takes    *)
(* for values), and nothing else is lost on the way.  A caller that keeps or *)
(* masks fields, or tags the user, gets the same before and after.           *)
NothingForbiddenIn(v) ==
  /\ Paths[sanitizeTelemetry[v]] = {p \in Paths[v] : ~PassesOutside(p, FORBIDDEN_TELEMETRY_KEYS)}
  /\ Paths[redactFields[v]] = {Rebuilt(p) : p \in {q \in Paths[v] : ~Passes(q, isForbiddenKey)}}
  /\ v.is = "object" =>
       /\ sanitizeTelemetry[redactTelemetry(v)] = redactTelemetry(sanitizeTelemetry[v])
       /\ \A keys \in SUBSET {"message", "userId", "userPrompt"} :
            /\ sanitizeTelemetry[pickFields(v, keys)] = pickFields(sanitizeTelemetry[v], keys)
            /\ redactFields[redactKeys(v, keys)] = redactKeys(redactFields[v], keys)

\* So of whatever is logged or sent as telemetry.
NothingForbidden == NothingForbiddenIn(payload)
=============================================================================

------------------------------ MODULE Documents ------------------------------
(***************************************************************************)
(* The forms a config takes on its way: the data of a ConfigMap, the YAML  *)
(* of an Apply, the spec of a stored Config object, and the snapshot the   *)
(* cache serves.  Every path between two forms is a conversion with its    *)
(* own defaults:                                                           *)
(*   import.rs             ConfigMap -> stored Config                      *)
(*   configmap_watcher.rs  ConfigMap -> cached snapshot                    *)
(*   watcher.rs, types.rs  stored Config -> cached snapshot                *)
(*   grpc/apply.rs         YAML -> stored Config, or its dry run           *)
(*                                                                         *)
(* Numbers are taken modulo Word, which stands for 2^32.  A text is named  *)
(* by how Rust's parsers read it; Absent is a missing field.               *)
(***************************************************************************)
EXTENDS Integers, Sequences, FiniteSets, SequencesExt

CONSTANT Word       \* 2^32

(***************************************************************************)
(* Texts a ConfigMap can hold, and the scalar each parser makes of them.   *)
(* A JSON value is a type and the canonical text of its value.             *)
(***************************************************************************)
Texts == {"2", "02", "-1", "1.50", "inf", "true", "word", "{a: 1}", "{a"}

Json(type, text) == [type |-> type, text |-> text]
JsonNull == Json("null", "null")
Object(fields) == [type |-> "object", fields |-> fields]
EmptyObject == Object({})

AsI64(t) == CASE t \in {"2", "02"} -> "2" [] t = "-1" -> "-1" [] OTHER -> ""
AsF64(t) == CASE t = "1.50" -> "1.5" [] t = "inf" -> "inf" [] OTHER -> ""

\* serde_json has no number for an infinity or a NaN: json!(f) is null.
scalar_value(t) ==
    CASE AsI64(t) # ""               -> Json("integer", AsI64(t))
      [] AsF64(t) = "inf"            -> JsonNull
      [] AsF64(t) \notin {"", "inf"} -> Json("float", AsF64(t))
      [] t = "true"                  -> Json("bool", t)
      [] OTHER                       -> Json("string", t)

\* u32::from_str, with a default for a text that is no number below 2^32.
ParsedU32(t, default) == IF t \in {"2", "02"} THEN 2 ELSE default

Field(k, v) == [key |-> k, value |-> v]

(***************************************************************************)
(* A ConfigMap's data: Absent, or a function from some keys to texts.      *)
(***************************************************************************)
Absent == [absent |-> TRUE]

VersionOf(data, default) ==
    IF "schema_version" \in DOMAIN data THEN ParsedU32(data["schema_version"], default)
                                        ELSE default

(***************************************************************************)
(* import.rs.                                                              *)
(***************************************************************************)
DEFAULT_SCHEMA_VERSION == 1

parse_schema_version_from_data(data) == VersionOf(data, DEFAULT_SCHEMA_VERSION)

content_from_data(data) ==
    Object({Field(k, scalar_value(data[k])) : k \in DOMAIN data \ {"schema_version"}})

\* A stored Config, and the fields of its content that field managers other than
\* konfig.v1 hold.
Stored(version, content, theirs) ==
    [spec |-> TRUE, version |-> version, content |-> content, theirs |-> theirs]

\* Bare: an object without a spec, or none.
Bare == [spec |-> FALSE, version |-> -1, content |-> Absent, theirs |-> {}]

build_import_patch_body(version, content) == Stored(version, content, {})

\* Applied where there was no Config before.
import_configmap(data) ==
    LET d == IF data = Absent THEN <<>> ELSE data
    IN  build_import_patch_body(parse_schema_version_from_data(d), content_from_data(d))

(***************************************************************************)
(* The cache entry, and the two parsers that make one.  NoSnapshot is a    *)
(* failed parse.                                                           *)
(***************************************************************************)
Snapshot(version, content) == <<[version |-> version, content |-> content]>>
NoSnapshot == <<>>

\* ConfigSpec: schema_version is required and a u32, content defaults to an empty object.
from_spec(obj) ==
    Snapshot(obj.version, IF obj.content = Absent THEN EmptyObject ELSE obj.content)

\* What Get serves of a cached snapshot: the memoised encoding of its content.
content_json(snap) == snap[1].content
snapshot_to_proto(snap) == [version |-> snap[1].version, json |-> content_json(snap)]

parse_config_object(obj) ==
    IF obj.spec /\ obj.version \in 0 .. Word - 1 THEN from_spec(obj) ELSE NoSnapshot

\* serde_yaml on the text of the content key; text that is no YAML becomes an empty object.
\* YAML writes infinity as .inf and keeps a number with a leading zero as text.
ParsedYaml(t) ==
    CASE t = "{a: 1}" -> Object({Field("a", Json("integer", "1"))})
      [] t = "{a"     -> EmptyObject
      [] t \in {"02", "inf"} -> Json("string", t)
      [] OTHER        -> scalar_value(t)

parse_configmap(data) ==
    IF data = Absent THEN NoSnapshot
    ELSE Snapshot(VersionOf(data, 0),
                  IF "content" \in DOMAIN data THEN ParsedYaml(data["content"])
                  ELSE Object({Field(k, scalar_value(data[k])) :
                                  k \in DOMAIN data \ {"schema_version"}}))

\* A deletion, and the brackets of a list, leave the cache alone.
handle_configmap_event(cache, event) ==
    IF event.kind \in {"Apply", "InitApply"} /\ parse_configmap(event.data) # NoSnapshot
    THEN parse_configmap(event.data)
    ELSE cache

pump_configmap_events(events) == FoldLeft(handle_configmap_event, NoSnapshot, events)

(***************************************************************************)
(* Apply and DryRunApply of one document, nobody else writing.  What is    *)
(* stored is NotFound, Unreadable (the API server fails), or an object.    *)
(***************************************************************************)
NotFound == "not found"
Unreadable == "unreadable"

\* as_u64().unwrap_or(0) as u32: what is no number counts 0, a larger one wraps.
parse_schema_version_from_object(obj) ==
    IF obj.spec /\ obj.version >= 0 THEN obj.version % Word ELSE 0

schema_version_decision(incoming, current) == incoming > current

fetch_current_schema_version(found, obj) ==
    IF found = NotFound THEN 0 ELSE parse_schema_version_from_object(obj)

\* SchemaTable::validate: no schema registered for the key accepts anything.
validate(schema, content) == schema = "none" \/ content.type = schema

Outcome(code, current, proposed) == [code |-> code, current |-> current, proposed |-> proposed]
Failed(code) == Outcome(code, Absent, Absent)

extract_current_content_json(obj) == IF obj.spec THEN obj.content ELSE Absent

\* A slip: the preview is assembled without the version gate.
DryRunUngated(found, obj, spec) ==
    Outcome("Ok", IF found = NotFound THEN Absent ELSE extract_current_content_json(obj),
            spec.content)

dry_run_response(found, obj, spec) ==
    IF schema_version_decision(spec.version, fetch_current_schema_version(found, obj))
    THEN Outcome("Ok", IF found = NotFound THEN Absent ELSE extract_current_content_json(obj),
                 spec.content)
    ELSE Failed("FailedPrecondition")

\* serde_yaml into ConfigSpec: the version is required, content has a default.
ParsesAsSpec(doc) == doc.version \in 0 .. Word - 1
SpecOf(doc) == [version |-> doc.version,
                content |-> IF doc.content = Absent THEN EmptyObject ELSE doc.content]

handle_dry_run_apply(x) ==
    CASE ~ParsesAsSpec(x.doc)                           -> Failed("InvalidArgument")
      [] ParsesAsSpec(x.doc) /\ x.found = Unreadable    -> Failed("Unavailable")
      [] OTHER                                          -> dry_run_response(x.found, x.obj, SpecOf(x.doc))

KeysOf(fields) == {f.key : f \in fields}

\* The fields other managers hold in what is stored, which need not exist.
TheirsOf(x) == IF x.found = "found" /\ x.obj.spec THEN x.obj.theirs ELSE {}

\* Server-side apply by konfig.v1, with force: the fields sent are stored, others
\* stay where another manager holds them.  The CRD's schema wants an object; what
\* it refuses is no conflict, and classify_patch_error makes it Unavailable.
PatchConfig(x, version, content) ==
    LET sent  == content.fields
        other == {f \in TheirsOf(x) : f.key \notin KeysOf(sent)}
    IN  IF content.type # "object" THEN [code |-> "Unavailable", stored |-> x.obj]
        ELSE [code |-> "Ok", stored |-> Stored(version, Object(sent \cup other),
                                               other \cup (sent \cap TheirsOf(x)))]

\* fetch_current_schema_version, schema_version_decision, then the patch.
apply_spec(x, spec) ==
    CASE x.found = Unreadable -> [code |-> "Unavailable", stored |-> x.obj]
      [] x.found # Unreadable /\ ~schema_version_decision(
             spec.version, fetch_current_schema_version(x.found, x.obj))
                              -> [code |-> "FailedPrecondition", stored |-> x.obj]
      [] OTHER                -> PatchConfig(x, spec.version, spec.content)

apply_inner(x) ==
    CASE ~ParsesAsSpec(x.doc) -> [code |-> "InvalidArgument", stored |-> x.obj]
      [] ParsesAsSpec(x.doc) /\ ~validate(x.schema, SpecOf(x.doc).content)
                              -> [code |-> "FailedPrecondition", stored |-> x.obj]
      [] OTHER                -> apply_spec(x, SpecOf(x.doc))

(***************************************************************************)
(* Inputs.                                                                 *)
(***************************************************************************)
Datas ==
    UNION {[ks -> Texts] : ks \in SUBSET {"schema_version", "x"}}
        \cup {[k \in {"content"} |-> t] : t \in Texts}
        \cup {[k \in {"content", "schema_version", "x"} |-> t] : t \in Texts}
        \cup {Absent}

\* The ConfigMap's last event, and one for older data before it.
Histories ==
    {<<[kind |-> "InitApply", data |-> o], [kind |-> k, data |-> d]>> :
        o \in {Absent, [k \in {"x"} |-> "word"]}, k \in {"Apply", "Delete"}, d \in Datas}

SampleContents == {EmptyObject, Object({Field("a", Json("integer", "1"))}), Json("string", "word"), Absent}
Versions == -1 .. Word + 1      \* -1 is a version that is missing or no number

\* What the CRD admits: a version that is a natural number, and a content that is
\* missing or an object, its fields held by konfig.v1 or by others.
StoredObjects ==
    LET fields == {Field("a", Json("integer", "2")), Field("b", Json("bool", "true"))}
    IN  {Bare} \cup {Stored(v, Absent, {}) : v \in 0 .. Word + 1}
          \cup UNION {{Stored(v, Object(fs), theirs) : v \in 0 .. Word + 1, theirs \in SUBSET fs}
                         : fs \in SUBSET fields}

Proposals ==
    [found : {"found"}, obj : StoredObjects, doc : [version : Versions, content : SampleContents],
     schema : {"none", "object", "string"}]
    \cup [found : {NotFound, Unreadable}, obj : {Bare},
          doc : [version : Versions, content : SampleContents], schema : {"none", "object", "string"}]

Imported(h) == [watched |-> pump_configmap_events(h), stored |-> import_configmap(h[2].data)]

(***************************************************************************)
(* Importing a ConfigMap and watching it show the same config, where there *)
(* was no Config of the target's name before.  The stored import is always *)
(* readable by the Config watcher; its content is what                     *)
(* the ConfigMap watcher caches for the same data, unless the ConfigMap    *)
(* has a content key, which only the watcher unwraps; its version is the   *)
(* same whenever the ConfigMap names one, and otherwise 1 where the        *)
(* watcher says 0.  A deletion or a ConfigMap without data leaves what     *)
(* was cached (import.rs, configmap_watcher.rs).                           *)
(***************************************************************************)
ImportMatchesWatch(h, r) ==
    LET data     == h[2].data
        imported == parse_config_object(r.stored)
        numbered == "schema_version" \in DOMAIN data /\ data["schema_version"] \in {"2", "02"}
    IN  /\ imported # NoSnapshot
        /\ h[2].kind = "Delete" \/ data = Absent =>
              r.watched = parse_configmap(h[1].data)
        /\ h[2].kind = "Apply" /\ data # Absent =>
              /\ r.watched # NoSnapshot
              /\ "content" \notin DOMAIN data =>
                    snapshot_to_proto(r.watched).json = snapshot_to_proto(imported).json
              /\ imported[1].version = IF numbered THEN r.watched[1].version ELSE 1
              /\ numbered \/ r.watched[1].version = 0

(***************************************************************************)
(* What a dry run says of the Apply.  With nobody else writing:            *)
(*   - one the dry run refuses is refused with the same code, and changes  *)
(*     nothing;                                                            *)
(*   - one that passes is applied, unless a registered schema refuses it   *)
(*     (the dry run asks none; Apply does so before it asks the API        *)
(*     server) or its content is no object, which the API server refuses:  *)
(*     the dry run warns of neither;                                       *)
(*   - what is served after an Apply holds every field the dry run         *)
(*     proposed, as proposed, and beside them just the fields that other   *)
(*     field managers hold, which the dry run does not show, under a       *)
(*     version above the one served before;                                *)
(*   - the current content it reports is what is being served, an empty    *)
(*     object being reported as none when the object stores none           *)
(* (grpc/apply.rs, infra/konfig/crd.yaml).                                 *)
(***************************************************************************)
DryRunForesees(x, r) ==
    LET unfit == ParsesAsSpec(x.doc) /\ ~validate(x.schema, SpecOf(x.doc).content)
        passed == r.dry.code = "Ok"
        now   == IF x.found = "found" THEN parse_config_object(x.obj) ELSE NoSnapshot
        after == parse_config_object(r.apply.stored)
    IN  /\ r.apply.code =
              CASE unfit -> "FailedPrecondition"
                [] ~unfit /\ passed /\ r.dry.proposed.type # "object" -> "Unavailable"
                [] OTHER -> r.dry.code
        /\ r.apply.code # "Ok" => r.apply.stored = x.obj
        /\ r.apply.code = "Ok" =>
              LET served   == snapshot_to_proto(after).json.fields
                  proposed == r.dry.proposed.fields
              IN  /\ after # NoSnapshot /\ proposed \subseteq served
                  /\ served \ proposed = {f \in TheirsOf(x) : f.key \notin KeysOf(proposed)}
                  /\ now # NoSnapshot => after[1].version > now[1].version
        /\ passed /\ now # NoSnapshot =>
              snapshot_to_proto(now).json = IF r.dry.current = Absent THEN EmptyObject ELSE r.dry.current
=============================================================================

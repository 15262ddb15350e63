----------------------------- MODULE CommandLine -----------------------------
(***************************************************************************)
(* konfig-cli (tools/konfig-cli), which writes and reads the cluster       *)
(* without the server, beside the server's own paths for the same objects: *)
(* a Config applied, previewed and printed by either, and a Secret written *)
(* by ApplySecret or apply-secret and read by GetSecret or get-secret.     *)
(* Nobody else writes meanwhile.                                           *)
(*                                                                         *)
(* The bytes of a Secret value are a text and how often it has been base64 *)
(* encoded since it was typed in.  The API server's own encoding of Secret *)
(* data is undone by the client library and does not show.                 *)
(***************************************************************************)
EXTENDS Documents

(***************************************************************************)
(* Configs.                                                                *)
(***************************************************************************)

\* apply_inner with an empty SchemaTable.
cmd_apply(x) == apply_inner([x EXCEPT !.schema = "none"])

cmd_dry_run(x) == handle_dry_run_apply(x)

\* The spec as stored, null where there is none; anything but an object is an error.
cmd_get(found, obj) ==
    IF found # "found" THEN [code |-> "error", spec |-> Absent]
    ELSE [code |-> "Ok", spec |-> IF obj.spec THEN obj ELSE Absent]

Previewed(x) ==
    LET cli == cmd_apply(x)
    IN  [dry |-> cmd_dry_run(x), apply |-> apply_inner(x), cli |-> cli,
         shown |-> cmd_get(IF cli.code = "Ok" THEN "found" ELSE x.found, cli.stored)]

(***************************************************************************)
(* Secrets.  A Secret exists or not, and has a version annotation, data,   *)
(* and the data keys the field manager konfig.v1 owns.                     *)
(***************************************************************************)
SecretKeys == {"x", "y"}
VersionTexts == {"1", "2", "word"}
NoAnnotation == "no annotation"
ParsedVersion(t) == CASE t = "1" -> 1 [] t = "2" -> 2 [] OTHER -> 0
VersionText(n) == CASE n = 1 -> "1" [] n = 2 -> "2"

Plain(t) == [text |-> t, layers |-> 0]
Base64(b) == [b EXCEPT !.layers = @ + 1]

\* What serde_yaml cannot read as a map of scalars.
NotAMap == [k \in {"not a map"} |-> ""]

\* A missing annotation counts 0, like one that is no number.
parse_secret_schema_version(secret) == ParsedVersion(secret.annotation)

IncomingVersion(doc) ==
    IF "schema_version" \in DOMAIN doc THEN ParsedVersion(doc["schema_version"]) ELSE 0

\* A slip: the version key is stored with the values.
EncodeEverything(doc) == [k \in DOMAIN doc |-> Base64(Plain(doc[k]))]

\* Every value but the version, encoded into a ByteString, which is encoded again on the wire.
encoded_data(doc) == [k \in DOMAIN doc \ {"schema_version"} |-> Base64(Plain(doc[k]))]

\* A forced server-side apply: what konfig.v1 owned before and does not send goes.
Patched(secret, version, data) ==
    LET kept == DOMAIN secret.data \ secret.owned
    IN  [exists |-> TRUE, annotation |-> VersionText(version),
         data |-> [k \in kept \cup DOMAIN data |-> IF k \in DOMAIN data THEN data[k] ELSE secret.data[k]],
         owned |-> DOMAIN data]

\* How the API server answers: so many 409s, then it accepts the patch or fails.
run_secret_patch_retry_loop(answers) ==
    CASE answers.conflicts > 2 -> "Aborted"
      [] answers.conflicts <= 2 /\ answers.fails -> "Unavailable"
      [] OTHER -> "Ok"

PatchOnce(answers) == IF answers.conflicts = 0 /\ ~answers.fails THEN "Ok" ELSE "error"

WriteSecret(x, Loop(_), Code(_)) ==
    LET current == IF x.found = NotFound THEN 0 ELSE parse_secret_schema_version(x.secret)
        code == CASE x.doc = NotAMap        -> Code("InvalidArgument")
                  [] x.doc # NotAMap /\ x.found = Unreadable -> Code("Unavailable")
                  [] OTHER -> IF IncomingVersion(x.doc) <= current THEN Code("FailedPrecondition")
                              ELSE Loop(x.answers)
    IN  [code   |-> code,
         stored |-> IF code = "Ok" THEN Patched(x.secret, IncomingVersion(x.doc), encoded_data(x.doc))
                    ELSE x.secret]

apply_secret_inner(x) == WriteSecret(x, run_secret_patch_retry_loop, LAMBDA c : c)
cmd_apply_secret(x)   == WriteSecret(x, PatchOnce, LAMBDA c : "error")

\* The watcher encodes what the cluster holds, whoever wrote it.
parse_secret(secret) ==
    [version |-> parse_secret_schema_version(secret),
     data    |-> [k \in DOMAIN secret.data |-> Base64(secret.data[k])]]

\* Every byte is ASCII after the encoding, so no value is blanked.
data_json(snap) == snap.data
secret_snapshot_to_proto(snap) == [version |-> snap.version, json |-> data_json(snap)]

handle_get_secret(cached) ==
    IF cached = NoSnapshot THEN [code |-> "NotFound"]
    ELSE [code |-> "Ok", secret |-> secret_snapshot_to_proto(cached[1])]

Redacted == "<REDACTED>"
Binary == Plain("bytes that are no UTF-8")
Shown(b) == IF b = Binary THEN Plain("<binary>") ELSE b

cmd_get_secret(secret, reveal) ==
    IF ~secret.exists THEN [code |-> "error"]
    ELSE [code    |-> "Ok", version |-> parse_secret_schema_version(secret),
          lines   |-> [k \in DOMAIN secret.data |->
                          IF reveal THEN Shown(secret.data[k]) ELSE Redacted]]

\* A write of a Secret, and what is read once the watcher has seen it.
SecretWritten(x) ==
    LET server == apply_secret_inner(x)
        cached == IF server.stored.exists THEN <<parse_secret(server.stored)>> ELSE NoSnapshot
    IN  [server   |-> server, cli |-> cmd_apply_secret(x),
         served   |-> handle_get_secret(cached),
         revealed |-> cmd_get_secret(server.stored, TRUE),
         redacted |-> cmd_get_secret(server.stored, FALSE)]

(***************************************************************************)
(* Inputs: a Secret somebody else made, or konfig owns in part.            *)
(***************************************************************************)
Secrets ==
    UNION {[exists : {TRUE}, annotation : VersionTexts \cup {NoAnnotation},
            data : [ks -> {Plain("old"), Binary}], owned : {{}}]
              : ks \in SUBSET SecretKeys}
    \cup UNION {[exists : {TRUE}, annotation : {"1"}, data : {[k \in SecretKeys |-> IF k \in o THEN Base64(Plain("old"))
                                                                  ELSE Plain("old")]}, owned : {o}]
                  : o \in SUBSET SecretKeys}

NoSecret == [exists |-> FALSE, annotation |-> NoAnnotation, data |-> <<>>, owned |-> {}]

SecretDocs ==
    {NotAMap} \cup UNION {[ks -> {"new"}] : ks \in SUBSET SecretKeys}
    \cup {[k \in ks \cup {"schema_version"} |-> IF k = "schema_version" THEN v ELSE "new"]
             : ks \in SUBSET SecretKeys, v \in VersionTexts}

Answers == [conflicts : 0..3, fails : BOOLEAN]

SecretWrites ==
    [found : {"found"}, secret : Secrets, doc : SecretDocs, answers : Answers]
    \cup [found : {NotFound, Unreadable}, secret : {NoSecret}, doc : SecretDocs, answers : Answers]
    \cup [found : {Unreadable}, secret : Secrets, doc : {[k \in {"x", "schema_version"} |-> "2"]},
          answers : {[conflicts |-> 0, fails |-> TRUE]}]

(***************************************************************************)
(* What the command line's dry run says of its apply.  konfig-cli apply,   *)
(* which has no schema table, answers with the code of its dry run, except *)
(* that a content that is no object passes the dry run and is refused by   *)
(* the API server; it stores what the server would have stored whenever no *)
(* schema refuses it; and get then prints the proposed version, every      *)
(* field proposed, and beside them just the fields that other field        *)
(* managers hold (tools/konfig-cli/src/main.rs).                           *)
(***************************************************************************)
CommandLineForesees(x, r) ==
    LET passed == r.dry.code = "Ok"
    IN  /\ r.cli.code = IF passed /\ r.dry.proposed.type # "object" THEN "Unavailable"
                        ELSE r.dry.code
        /\ r.apply.code = "Ok" => r.cli = r.apply
        /\ r.cli.code = "Ok" =>
              LET shown    == r.shown.spec.content.fields
                  proposed == r.dry.proposed.fields
              IN  /\ r.shown.code = "Ok" /\ r.shown.spec.version = x.doc.version
                  /\ proposed \subseteq shown
                  /\ shown \ proposed = {f \in TheirsOf(x) : f.key \notin KeysOf(proposed)}
                  /\ validate(x.schema, r.dry.proposed) <=> r.apply.code = "Ok"
        /\ r.cli.code # "Ok" /\ x.found = "found" /\ x.obj.spec => r.shown.spec = x.obj

(***************************************************************************)
(* What is read of a Secret after a write.  The server and the command     *)
(* line store the same Secret and differ only in that the server retries a *)
(* conflict twice; a write that fails changes nothing, and where there was *)
(* no Secret GetSecret then answers NOT_FOUND and get-secret fails.  What  *)
(* GetSecret serves of a Secret that was written is not what was typed in: *)
(* every value of the document is there encoded twice, every value         *)
(* somebody else owns encoded once, nothing konfig.v1 owned before and not *)
(* the document's version key, under a version above the one before.       *)
(* get-secret shows one encoding less when asked to reveal (base64 still,  *)
(* where its help says plaintext), "<binary>" for what is no text, and no  *)
(* value otherwise (secret_apply.rs,                                       *)
(* secret_watcher.rs, secret_get.rs, tools/konfig-cli/src/main.rs).        *)
(***************************************************************************)
SecretReadsBack(x, r) ==
    LET written == DOMAIN x.doc \ {"schema_version"}
        others  == DOMAIN x.secret.data \ (x.secret.owned \cup written)
        json    == r.served.secret.json
    IN  /\ r.cli.code = "Ok" <=> r.server.code = "Ok" /\ x.answers.conflicts = 0
        /\ r.cli.stored = IF r.cli.code = "Ok" THEN r.server.stored ELSE x.secret
        /\ r.server.code # "Ok" => r.server.stored = x.secret
        /\ IF r.server.code # "Ok" /\ ~x.secret.exists
           THEN r.served.code = "NotFound" /\ r.revealed.code = "error" /\ r.redacted.code = "error"
           ELSE /\ r.served.code = "Ok" /\ r.revealed.code = "Ok" /\ r.redacted.code = "Ok"
                /\ DOMAIN r.redacted.lines = DOMAIN json
                /\ \A k \in DOMAIN json : r.redacted.lines[k] = Redacted
                /\ r.served.secret.version = r.revealed.version
                /\ \A k \in DOMAIN json :
                      r.revealed.lines[k] = Shown([json[k] EXCEPT !.layers = @ - 1])
        /\ r.server.code = "Ok" =>
              /\ DOMAIN json = written \cup others
              /\ \A k \in written : json[k] = Base64(Base64(Plain(x.doc[k])))
              /\ \A k \in others : json[k] = Base64(x.secret.data[k])
              /\ r.served.secret.version > parse_secret(x.secret).version

(***************************************************************************)
(* The paths that write a config or a Secret agree with the ones that read *)
(* it on the outcome, whatever each encodes or defaults: the ConfigMap     *)
(* history h by import.rs and configmap_watcher.rs, the Secret of the      *)
(* write x by secret_apply.rs or the command line.                         *)
(***************************************************************************)
WritesReadBack(h, x) ==
    ImportMatchesWatch(h, Imported(h)) /\ SecretReadsBack(x, SecretWritten(x))
=============================================================================

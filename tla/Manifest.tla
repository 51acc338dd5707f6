------------------------------ MODULE Manifest ------------------------------
(***************************************************************************)
(* A target's manifest: what the schema accepts (contracts/manifest.py,    *)
(* contracts/templates.py) and what the registries admit                   *)
(* (validate_manifest, contracts/registry.py, contracts/hosts.py).         *)
(*                                                                         *)
(* An optional key is present when it is in the DOMAIN of its record, as   *)
(* in the YAML.  A text is [form, lines, data]: its YAML features, the     *)
(* lines with a placeholder word, and the mapping it holds.                *)
(***************************************************************************)
EXTENDS Integers, Sequences, FiniteSets, SequencesExt

CONSTANTS
    Positional,  \* source names that are column numbers
    SecretLike,  \* strings that match a credential pattern
    RunNames     \* RUN_NAMES: what a template may name

\* Optional keys.
Has(rec, k) == k \in DOMAIN rec
Refs(rec, keys) == {rec[k] : k \in keys \cap DOMAIN rec}

MaxMonthsBack == 12

------------------------------------------------------------------------------
(* The fetch block.                                                        *)

FetchKey == [m \in {"soap-xml", "dated-file", "html-table", "rest-json", "rest-xml"} |->
    CASE m = "soap-xml" -> "soap_xml" [] m = "dated-file" -> "dated_file"
      [] m = "html-table" -> "html_table" [] m = "rest-json" -> "rest_json"
      [] m = "rest-xml" -> "rest_xml"]

Transports(m) ==
    CASE m = "soap-xml" -> {"soap"} [] m = "dated-file" -> {"xlsx", "rest"}
      [] m = "html-table" -> {"html"} [] OTHER -> {"rest"}

Decodes(m) ==
    CASE m = "soap-xml" -> {"soap"} [] m = "dated-file" -> {"xlsx", "csv"}
      [] m = "html-table" -> {"html-table"} [] m = "rest-json" -> {"json"}
      [] m = "rest-xml" -> {"xml"}

ExactlyOneBlock(m) == Cardinality(DOMAIN m.fetch) = 1

\* FetchBlock.key and the block it names.
Block(m) == m.fetch[CHOOSE k \in DOMAIN m.fetch : TRUE]

\* check_template: a placeholder is [name, month, plain]; month is the list of
\* at most one index, plain says it has no conversion, nested or dotted field.
check_template(t) ==
    \A p \in t.fields :
        /\ p.plain
        /\ IF p.month # <<>> /\ t.month_index /\ p.name \in {"month_start", "month_end"}
           THEN p.month[1] <= MaxMonthsBack
           ELSE p.month = <<>> /\ p.name \in t.names

\* FetchBlock.templates: the body names its parameters, the rest a run's names.
TemplatesChecked(m) ==
    \A t \in Block(m).templates :
        check_template([fields |-> t.fields, month_index |-> ~t.body,
                        names |-> IF t.body THEN Block(m).params ELSE RunNames])

UrlsAllowed(m) ==
    \A u \in Block(m).urls :
        /\ u.scheme = "https" \/ (u.scheme = "http" /\ m.allow_insecure)
        /\ u.host \in ToSet(m.allowed_hosts)
        /\ u.port = <<>>

\* _find_secret over the whole dump of the fetch block.
NoSecretInside(m) == Block(m).strings \cap SecretLike = {}

target_secret_name(id) == <<"target", id>>

OwnSecretOnly(m) ==
    Has(Block(m), "auth") =>
        /\ Block(m).auth.name = target_secret_name(m.target_id)
        /\ Block(m).auth.alnum

------------------------------------------------------------------------------
(* The mapping block.                                                      *)

\* FieldRef: exactly one of source, constant and context, never a position.
FieldRefOK(ref) ==
    /\ \E k \in {"source", "constant", "context"} : DOMAIN ref = {k}
    /\ Has(ref, "source") => ref.source \notin Positional

TimeFields == {"resolution", "date", "index", "timestamp"}

\* TimeMapping._shape
TimeOK(t) ==
    /\ IF t.kind = "period_index"
       THEN Has(t, "date") /\ Has(t, "index") /\ ~Has(t, "timestamp")
       ELSE Has(t, "timestamp") /\ ~Has(t, "date") /\ ~Has(t, "index")
    /\ Has(t, "resolution")
    /\ Has(t.resolution, "constant") => t.resolution.constant.txt = "duration"

\* required_source_fields
required_source_fields(m) ==
    {r.source : r \in {r \in Refs(m.mapping.time, TimeFields)
                                \cup Refs(m.mapping, {"source_version", "source_published_at"}) :
                       Has(r, "source")}}

mapped_source_fields(m) ==
    required_source_fields(m) \cup {m.mapping.metrics[k].source : k \in DOMAIN m.mapping.metrics}

MappingOK(m) ==
    LET b == m.mapping IN
    /\ \A r \in Refs(b.time, TimeFields) \cup Refs(b, {"source_version", "source_published_at"}) :
            FieldRefOK(r)
    /\ TimeOK(b.time)
    /\ DOMAIN b.metrics # {}
    /\ \A k \in DOMAIN b.metrics : b.metrics[k].source \notin Positional \cup {""}
    /\ ToSet(b.ignore_fields) \cap (Positional \cup {""}) = {}
    /\ IsInjective(b.ignore_fields)
    /\ ToSet(b.ignore_fields) \cap mapped_source_fields(m) = {}

------------------------------------------------------------------------------
(* The manifest.                                                           *)

ConsistentModality(m) ==
    /\ DOMAIN m.fetch = {FetchKey[m.modality]}
    /\ m.contract.source_transport \in Transports(m.modality)
    /\ m.contract.decode \in Decodes(m.modality)
    /\ Has(Block(m), "file_format") => Block(m).file_format = m.contract.decode

HostsOK(m) == m.allowed_hosts # <<>> /\ IsInjective(m.allowed_hosts)

DeclaredIsMapped(m) ==
    /\ IsInjective(m.contract.metrics)
    /\ ToSet(m.contract.metrics) = DOMAIN m.mapping.metrics

\* Manifest.model_validate
WellFormed(m) ==
    /\ ExactlyOneBlock(m)
    /\ MappingOK(m)
    /\ HostsOK(m)
    /\ ConsistentModality(m)
    /\ UrlsAllowed(m)
    /\ NoSecretInside(m)
    /\ OwnSecretOnly(m)
    /\ TemplatesChecked(m)
    /\ DeclaredIsMapped(m)

\* parse_manifest: one plain YAML document.
Loads(text) == text.form = "plain" /\ WellFormed(text.data)

------------------------------------------------------------------------------
(* Admission.  reg.hosts: host -> [insecure, ports]; reg.datasets: id ->   *)
(* contract, with the allowed values of each dimension.                    *)

\* Mutant: http is taken on the manifest's word.
NoInsecureHosts(m, reg) == {}

\* Hosts the registry does not let a manifest use over http.
InsecureHosts(m, reg) ==
    {h \in ToSet(m.allowed_hosts) \cap DOMAIN reg.hosts : m.allow_insecure /\ ~reg.hosts[h].insecure}

\* AdmissionGaps: what a Route B request must add.
AdmissionGaps(m, reg) ==
    LET did == m.contract.dataset_id
        known == IF Has(reg.datasets, did) THEN DOMAIN reg.datasets[did].metrics ELSE {} IN
    [datasets |-> {did} \ DOMAIN reg.datasets,
     metrics |-> {<<did, k>> : k \in ToSet(m.contract.metrics) \ known},
     hosts |-> ToSet(m.allowed_hosts) \ DOMAIN reg.hosts,
     insecure_hosts |-> InsecureHosts(m, reg)]

GapsIn(g) == \E k \in DOMAIN g : g[k] # {}

\* Mutant: the value is the only one of the dimension.
DimensionsOnly(dims, c) ==
    /\ DOMAIN dims = DOMAIN c.dimensions
    /\ \A k \in DOMAIN dims : c.dimensions[k] = {dims[k]}

\* The constants of the mapping against the dimensions of the identity key.
DimensionsOK(dims, c) ==
    /\ DOMAIN dims = DOMAIN c.dimensions
    /\ \A k \in DOMAIN dims : dims[k] \in c.dimensions[k]

\* The errors of validate_manifest against a registered contract.
Errors(m, c) ==
    ~ /\ \A k \in ToSet(m.contract.metrics) \cap DOMAIN c.metrics :
            m.mapping.metrics[k].unit = c.metrics[k].unit
      /\ DimensionsOK(m.mapping.dimensions, c)
      /\ c.version_in_identity => Has(m.mapping, "source_version")
      /\ Has(m.mapping.time.resolution, "constant") =>
            m.mapping.time.resolution.constant \in c.resolutions

\* validate_manifest: admission gaps come first.
validate_manifest(m, reg) ==
    IF GapsIn(AdmissionGaps(m, reg)) THEN "ADMISSION_REQUIRED"
    ELSE IF Errors(m, reg.datasets[m.contract.dataset_id]) THEN "INVALID" ELSE "OK"
==============================================================================

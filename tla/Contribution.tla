---------------------------- MODULE Contribution ----------------------------
(***************************************************************************)
(* How a target comes to be and is kept: the tools of the MCP server and   *)
(* their command-line twins (mcp/tools.py, harness/), the surface rules    *)
(* (harness/surface.py), the gates of a pull-request bundle                *)
(* (harness/pr.py), triage of a capture, and the admission of a source.    *)
(*                                                                         *)
(* One server handles one call at a time; a call writes its files and can  *)
(* die between two of them.  A path is one file of a target's directory    *)
(* outside fixtures/; a content is [form, lines, data], where lines are    *)
(* those with a placeholder word.                                          *)
(***************************************************************************)
EXTENDS Triage

CONSTANTS
    None,
    Targets,       \* target ids
    Contents,      \* target -> path -> what is written to that path
    Docs,          \* name -> document
    Captures,      \* target -> fixture name -> documents that are recorded
    Answers,       \* what a backend answers: sets of operations
    Ctx,           \* delivery_day and scheduled_for of every fixture
    Registry0,     \* the registries at first
    Admissible,    \* the registries a maintainer would go up to
    InitDirs,      \* [files, fixtures] that earlier sessions may have left
    ScaffoldHost, ScaffoldDataset,
    MaxCalls       \* bound: calls that may change something

\* What the schema guarantees of a manifest that loads, as far as a guard or a
\* comparison looks at it: the blocks and keys that have no default.
Whole(m) ==
    /\ {"mapping"} \subseteq DOMAIN m
    /\ {"dimensions", "metrics", "time", "ignore_fields"} \subseteq DOMAIN m.mapping
    /\ \A k \in DOMAIN m.mapping.metrics :
            {"unit", "sign"} \subseteq DOMAIN m.mapping.metrics[k]

WholeWhenLoaded(dir) == "manifest.yaml" \in DOMAIN dir /\ Loads(dir["manifest.yaml"])
                            => Whole(dir["manifest.yaml"].data)

\* A fixture is a blob only, or a blob with its entry.
HoldDocuments(fx) == \A n \in DOMAIN fx : fx[n] = <<>> \/ \E d \in DOMAIN Docs : fx[n] = <<d>>

IsDirectory(f) == f = [x \in DOMAIN f |-> f[x]]

ASSUME DirectoriesAssumption ==
    /\ \A t \in Targets : "manifest.yaml" \in DOMAIN Contents[t] =>
            \A c \in Contents[t]["manifest.yaml"] : Loads(c) => Whole(c.data)
    /\ \A d \in InitDirs :
            /\ IsDirectory(d.files) /\ DOMAIN d.files = Targets
            /\ IsDirectory(d.fixtures) /\ DOMAIN d.fixtures = Targets
            /\ \A t \in Targets : /\ IsDirectory(d.files[t]) /\ WholeWhenLoaded(d.files[t])
                                 /\ HoldDocuments(d.fixtures[t])

\* What can be captured and what is stored is a document, of units in order.
ASSUME DocumentsAssumption ==
    /\ \A d \in DOMAIN Docs : DOMAIN Docs[d].units \subseteq Nat
    /\ \A t \in Targets : \A n \in DOMAIN Captures[t] : Captures[t][n] \subseteq DOMAIN Docs

\* A pull request to the registries adds entries and loosens them; it never
\* takes back what a manifest was admitted on.
HostGrows(h, g) == (h.insecure => g.insecure) /\ h.ports \subseteq g.ports

ContractGrows(c, e) ==
    /\ \A k \in DOMAIN c.metrics : k \in DOMAIN e.metrics /\ e.metrics[k] = c.metrics[k]
    /\ DOMAIN e.dimensions = DOMAIN c.dimensions
    /\ \A k \in DOMAIN c.dimensions : c.dimensions[k] \subseteq e.dimensions[k]
    /\ e.version_in_identity => c.version_in_identity
    /\ c.resolutions \subseteq e.resolutions

Grows(reg, to) ==
    /\ \A h \in DOMAIN reg.hosts : h \in DOMAIN to.hosts /\ HostGrows(reg.hosts[h], to.hosts[h])
    /\ \A d \in DOMAIN reg.datasets :
            d \in DOMAIN to.datasets /\ ContractGrows(reg.datasets[d], to.datasets[d])

\* HostEntry.ports is (443,) unless it says otherwise: an entry that allows
\* http must say so itself.
HostsServe(reg) ==
    \A h \in DOMAIN reg.hosts :
        443 \in reg.hosts[h].ports /\ (reg.hosts[h].insecure => 80 \in reg.hosts[h].ports)

ASSUME RegistriesAssumption ==
    Grows(Registry0, Admissible) /\ HostsServe(Registry0) /\ HostsServe(Admissible)

VARIABLES
    files,     \* target -> path -> content
    fixtures,  \* target -> fixture name -> <<>> (a blob only) or <<document>>
    journal,   \* Tools.journal: the targets this server wrote to
    call,      \* the call in progress, or None
    out,       \* what the last call gave: a bundle, a proposal or a clean
               \* bill of triage, or None
    requests,  \* target -> gaps of the admission request in the outbox
    registry,
    calls

vars == <<files, fixtures, journal, call, out, requests, registry, calls>>

------------------------------------------------------------------------------
(* The surface: a problem is <<path, reason, detail>>.                     *)

Goldens == {"tests/golden/a.yaml", "tests/golden/b.yaml"}
Inits == {"__init__.py", "tests/__init__.py"}
Python == {"parser.py", "tests/test_golden.py"} \cup Inits
Allowed == Goldens \cup Python \cup {"manifest.yaml"}

\* load_fixture succeeds when both files are there.
Loadable(fx) == {n \in DOMAIN fx : fx[n] # <<>>}

\* load_golden
GoldenLoads(c) == c.form = "plain" /\ GoldenOK(c.data)

\* completeness
Completeness(dir, fx) ==
    {<<"manifest.yaml", "missing", 0>> : x \in {"manifest.yaml"} \ DOMAIN dir}
    \cup {<<p, "missing", 0>> : p \in Inits \ DOMAIN dir}
    \cup {<<"", "no fixture", 0>> : x \in IF DOMAIN fx = {} THEN {1} ELSE {}}
    \cup {<<n, "not a Bronze object", 0>> : n \in DOMAIN fx \ Loadable(fx)}
    \cup {<<"", "no golden", 0>> : x \in IF Goldens \cap DOMAIN dir = {} THEN {1} ELSE {}}
    \cup {<<g, "unreadable", 0>> : g \in {g \in Goldens \cap DOMAIN dir : ~GoldenLoads(dir[g])}}
    \cup {<<g, "fixture does not exist", 0>> :
            g \in {g \in Goldens \cap DOMAIN dir :
                    GoldenLoads(dir[g]) /\ dir[g].data.fixture \notin DOMAIN fx}}
    \cup {<<"", "no test", 0>> : x \in {"tests/test_golden.py"} \ DOMAIN dir}

\* The declared id is the directory's name (_manifest_target_id).
WrongTargetId(t, dir) ==
    {<<p, "target_id", 0>> : p \in {p \in {"manifest.yaml"} \cap DOMAIN dir : dir[p].data.target_id # t}}

\* The rules for Python text and for a parser's syntax tree (_check_tokens,
\* _check_parser), and that an __init__.py is empty: a form "rules" breaks one.
BreaksPythonRules(dir) ==
    {<<p, "rules", 0>> : p \in {p \in Python \cap DOMAIN dir : dir[p].form = "rules"}}

\* _check_placeholders, line by line.
Placeholders(dir) ==
    UNION {{<<p, "placeholder", l>> : l \in dir[p].lines} : p \in Allowed \cap DOMAIN dir}

check_target(t, dir, fx) ==
    WrongTargetId(t, dir)
    \cup {<<p, "outside the surface", 0>> : p \in DOMAIN dir \ Allowed}
    \cup BreaksPythonRules(dir) \cup Placeholders(dir) \cup Completeness(dir, fx)

Surface(t) == check_target(t, files[t], fixtures[t])

\* yaml.safe_load raises ValueError, not YAMLError, on a date that does not
\* exist; nothing between check_target and the server's loop catches it.
Raises(t) == \E p \in DOMAIN files[t] : files[t][p].form = "impossible date"

Exists(t) == "manifest.yaml" \in DOMAIN files[t]

Manifest(t) == files[t]["manifest.yaml"].data
ManifestLoads(t) == Exists(t) /\ Loads(files[t]["manifest.yaml"])

------------------------------------------------------------------------------
(* The gates.                                                              *)

Outcome(m, d) == map_payload(m, Docs[d], Ctx, registry)

\* run_golden
GoldenPasses(t, g) ==
    LET c == files[t][g] IN
    /\ GoldenLoads(c)
    /\ c.data.fixture \in Loadable(fixtures[t])
    /\ compare(c.data, Outcome(Manifest(t), fixtures[t][c.data.fixture][1]))

\* gate_report, with unloadable_parser.
gate_report(t) ==
    /\ Surface(t) = {} /\ "parser.py" \notin DOMAIN files[t]
    /\ ManifestLoads(t)
    /\ validate_manifest(Manifest(t), registry) = "OK"
    /\ \A g \in Goldens \cap DOMAIN files[t] : GoldenPasses(t, g)

\* prepare_bundle: the files as they are when the gates are green.
Bundled(t) ==
    [kind |-> "bundle", target |-> t, manifest |-> Manifest(t), fixtures |-> fixtures[t],
     goldens |-> [g \in Goldens \cap DOMAIN files[t] |-> files[t][g].data]]

------------------------------------------------------------------------------
(* Calls.                                                                  *)

Idle == call = None /\ calls < MaxCalls
Counted == calls' = calls + 1 /\ out' = None

\* render_manifest: the registry's metrics, units and dimensions, every source
\* still a placeholder.
render_manifest(t) ==
    LET c == registry.datasets[ScaffoldDataset] IN
    [target_id |-> t, modality |-> "soap-xml", allowed_hosts |-> <<ScaffoldHost>>,
     allow_insecure |-> FALSE,
     fetch |-> [soap_xml |->
        [urls |-> {[scheme |-> "https", host |-> ScaffoldHost, port |-> <<>>]},
         templates |-> {[body |-> TRUE, fields |-> {[name |-> "start_date", month |-> <<>>, plain |-> TRUE]}]},
         params |-> {"start_date"}, strings |-> {}]],
     contract |-> [dataset_id |-> ScaffoldDataset, source_transport |-> "soap", decode |-> "soap",
                   metrics |-> SetToSeq(DOMAIN c.metrics)],
     mapping |->
        [dimensions |-> [k \in DOMAIN c.dimensions |-> CHOOSE v \in c.dimensions[k] : TRUE],
         time |-> [kind |-> "period_index", date |-> [source |-> "REPLACE_ME"],
                   index |-> [source |-> "REPLACE_ME"],
                   resolution |-> [constant |-> CHOOSE r \in c.resolutions : TRUE]],
         metrics |-> [k \in DOMAIN c.metrics |->
            [source |-> "REPLACE_ME", unit |-> c.metrics[k].unit, sign |-> "as_published",
             separator |-> "dot"]],
         ignore_fields |-> <<>>]]

Text(form, lines, data) == [form |-> form, lines |-> lines, data |-> data]

Scaffold(t, manifest, with_parser) ==
    [p \in {"manifest.yaml", "tests/test_golden.py", "tests/golden/a.yaml"} \cup Inits
                \cup (IF with_parser THEN {"parser.py"} ELSE {}) |->
        CASE p = "manifest.yaml" -> Text("plain", {1, 2}, manifest)
          [] p = "tests/golden/a.yaml" -> Text("not a golden", {1}, None)
          [] p = "parser.py" -> Text("plain", {1}, None)
          [] OTHER -> Text("plain", {}, None)]

\* scaffold_target: refuses a directory that exists.
scaffold_target(t, with_parser) ==
    /\ Idle /\ DOMAIN files[t] = {} /\ DOMAIN fixtures[t] = {}
    /\ files' = [files EXCEPT ![t] = Scaffold(t, render_manifest(t), with_parser)]
    /\ journal' = journal \cup {t}
    /\ Counted
    /\ UNCHANGED <<fixtures, call, requests, registry>>

\* write_target_file up to the write; before is the surface it started from.
WriteFile(t, p, c) ==
    /\ Idle /\ Exists(t) /\ ~Raises(t)
    /\ call' = [tool |-> "write", t |-> t, path |-> p, before |-> Surface(t), was |-> files[t]]
    /\ files' = [files EXCEPT ![t] = [q \in DOMAIN @ \cup {p} |-> IF q = p THEN c ELSE @[q]]]
    /\ Counted
    /\ UNCHANGED <<fixtures, journal, requests, registry>>

\* The new problems that name the file.
NewProblems == {x \in Surface(call.t) \ call.before : x[1] = call.path}

\* Mutant: what was there before is not put back.
RollbackByRemoval ==
    [files EXCEPT ![call.t] = [q \in DOMAIN @ \ {call.path} |-> @[q]]]

\* The file as it was, or no file.
Rollback ==
    [files EXCEPT ![call.t] =
        [q \in {q \in DOMAIN @ : q # call.path \/ q \in DOMAIN call.was} |->
            IF q = call.path THEN call.was[q] ELSE @[q]]]

\* write_target_file after the write: kept and journaled, or rolled back.
WriteChecked ==
    /\ call # None /\ call.tool = "write" /\ ~Raises(call.t)
    /\ IF NewProblems = {}
       THEN journal' = journal \cup {call.t} /\ UNCHANGED files
       ELSE files' = Rollback /\ UNCHANGED journal
    /\ call' = None
    /\ UNCHANGED <<fixtures, out, requests, registry, calls>>

\* record_fixture: a name is used once; write_fixture writes the blob first.
RecordBlob(t, n, d) ==
    /\ Idle /\ ManifestLoads(t) /\ n \notin DOMAIN fixtures[t]
    /\ call' = [tool |-> "record", t |-> t, name |-> n, doc |-> d]
    /\ fixtures' = [fixtures EXCEPT ![t] = [q \in DOMAIN @ \cup {n} |-> IF q = n THEN <<>> ELSE @[q]]]
    /\ Counted
    /\ UNCHANGED <<files, journal, requests, registry>>

RecordEntry ==
    /\ call # None /\ call.tool = "record"
    /\ fixtures' = [fixtures EXCEPT ![call.t][call.name] = <<call.doc>>]
    /\ journal' = journal \cup {call.t}
    /\ call' = None
    /\ UNCHANGED <<files, out, requests, registry, calls>>

\* The second file cannot be written: a ToolError, and the blob stays.
RecordFails ==
    /\ call # None /\ call.tool = "record"
    /\ call' = None
    /\ UNCHANGED <<files, fixtures, journal, out, requests, registry, calls>>

NoGaps == [hosts |-> {}, datasets |-> {}, metrics |-> {}, insecure_hosts |-> {}]

\* admission_request writes to the outbox only.
admission_request(t) ==
    /\ Idle /\ ManifestLoads(t)
    /\ requests' = [requests EXCEPT ![t] = AdmissionGaps(Manifest(t), registry)]
    /\ requests' # requests
    /\ out' = None
    /\ UNCHANGED <<files, fixtures, journal, call, registry, calls>>

\* pr_surface.classify: what the session touched is this target's, and only its.
TargetChange(t, touched) == touched = {t}

\* open_pr: the journal is the change set.
open_pr(t) ==
    /\ call = None /\ Exists(t) /\ ~Raises(t)
    /\ TargetChange(t, journal) /\ gate_report(t)
    /\ out' = Bundled(t) /\ out' # out
    /\ UNCHANGED <<files, fixtures, journal, call, requests, registry, calls>>

\* energyctl pr-bundle has no journal: the change set is the target's files.
PrBundle(t) ==
    /\ call = None /\ Exists(t) /\ ~Raises(t)
    /\ TargetChange(t, {t}) /\ gate_report(t)
    /\ out' = Bundled(t) /\ out' # out
    /\ UNCHANGED <<files, fixtures, journal, call, requests, registry, calls>>

\* energyctl triage of a capture that is there as a fixture.
Triaged(t, n) ==
    /\ Idle /\ ManifestLoads(t) /\ n \in Loadable(fixtures[t])
    /\ LET m == Manifest(t)
           doc == Docs[fixtures[t][n][1]]
           drift == detect(m, doc, Ctx, registry) IN
       \E ops \in Answers : \E r \in triage(m, drift, doc, Ctx, registry, ops) :
        out' = IF r.status \notin {"no_drift", "proposed"} THEN None
               ELSE [kind |-> r.status, patched |-> r.patched, target |-> t,
                     doc |-> fixtures[t][n][1], manifest |-> Manifest(t)]
    /\ out' # out
    /\ UNCHANGED <<files, fixtures, journal, call, requests, registry, calls>>

\* A proposal is applied by writing the patched manifest.
ApplyProposal ==
    /\ out # None /\ out.kind = "proposed"
    /\ WriteFile(out.target, "manifest.yaml", Text("plain", {}, out.patched))

\* The server dies or is restarted: what is on disk stays, the journal does not.
Crash ==
    /\ call # None \/ journal # {}
    /\ call' = None /\ journal' = {}
    /\ UNCHANGED <<files, fixtures, out, requests, registry, calls>>

\* check_target raises in a call on this target: the server's loop ends.
CheckRaises(t) ==
    /\ Raises(t)
    /\ call # None => call.t = t
    /\ Crash

\* A maintainer merges a request (Route B): the registries gain what it lists.
Admit(t) ==
    /\ call = None /\ GapsIn(requests[t])
    /\ LET hosts == requests[t].hosts \cup requests[t].insecure_hosts
           sets == {x[1] : x \in requests[t].metrics} IN
       registry' =
        [hosts |-> [h \in DOMAIN registry.hosts \cup (hosts \cap DOMAIN Admissible.hosts) |->
            IF h \in hosts THEN Admissible.hosts[h] ELSE registry.hosts[h]],
         datasets |-> [d \in DOMAIN registry.datasets \cup (sets \cap DOMAIN Admissible.datasets) |->
            IF d \in sets THEN Admissible.datasets[d] ELSE registry.datasets[d]]]
    /\ requests' = [requests EXCEPT ![t] = NoGaps]
    /\ UNCHANGED <<files, fixtures, journal, call, out, calls>>

------------------------------------------------------------------------------
Init ==
    /\ \E d \in InitDirs : files = d.files /\ fixtures = d.fixtures
    /\ journal = {} /\ call = None /\ out = None
    /\ requests = [t \in Targets |-> NoGaps]
    /\ registry = Registry0
    /\ calls = 0

Next ==
    \/ \E t \in Targets :
        \/ \E b \in BOOLEAN : scaffold_target(t, b)
        \/ \E p \in DOMAIN Contents[t] : \E c \in Contents[t][p] : WriteFile(t, p, c)
        \/ \E n \in DOMAIN Captures[t] : \E d \in Captures[t][n] : RecordBlob(t, n, d)
        \/ \E n \in DOMAIN fixtures[t] : Triaged(t, n)
        \/ admission_request(t) \/ Admit(t) \/ open_pr(t) \/ PrBundle(t) \/ CheckRaises(t)
    \/ ApplyProposal \/ WriteChecked \/ RecordEntry \/ RecordFails \/ Crash

Spec == Init /\ [][Next]_vars

------------------------------------------------------------------------------
(* Properties.                                                             *)

CONSTANT Truth     \* what every document says: metric -> start -> number

Result(kind) == out # None /\ out.kind = kind

\* What is read of a document is what it says.
Truthful(x) ==
    \A o \in x.obs : /\ o.metric \in DOMAIN Truth /\ o.start \in DOMAIN Truth[o.metric]
                     /\ o.value = <<Truth[o.metric][o.start]>>

\* The gates of a bundle have run before it is reviewed and merged (harness/pr.py),
\* and the registries change in between: what its goldens demand of a document
\* that is read is still so, row by row, under the registries of now.
BundleStaysGreen ==
    Result("bundle") =>
        \A g \in DOMAIN out.goldens : out.goldens[g].quarantine = <<>> =>
            compare(out.goldens[g], Outcome(out.manifest, out.fixtures[out.goldens[g].fixture][1]))

\* policy.check_url on a URL of the manifest.
UrlPasses(u, m) ==
    /\ u.host \in ToSet(m.allowed_hosts) /\ u.host \in DOMAIN registry.hosts
    /\ u.scheme = "http" => m.allow_insecure /\ registry.hosts[u.host].insecure
    /\ (IF u.scheme = "https" THEN 443 ELSE 80) \in registry.hosts[u.host].ports

\* The admission check before a bundle and the two checks at run time agree,
\* now and after the registries have grown: the fetch policy lets every URL of
\* a bundled manifest out, and no document is quarantined for a reason that the
\* registries give.  A resolution that the document itself names is checked
\* only when it is read.
AdmittedIsFetchedAndMapped ==
    Result("bundle") =>
        /\ \A u \in Block(out.manifest).urls : UrlPasses(u, out.manifest)
        /\ Has(out.manifest.mapping.time.resolution, "constant") =>
              \A d \in DOMAIN Docs : "registry" \notin Outcome(out.manifest, d).quarantine

\* A write that is answered is all or nothing: either the directory is what it
\* was, or the target has no problem that it did not have before, in this file
\* or in any other (tools.py compares only the problems that name the file).
WriteIsAllOrNothing ==
    [][WriteChecked => \/ files'[call.t] = call.was
                       \/ check_target(call.t, files'[call.t], fixtures'[call.t])
                            \subseteq call.before]_vars

\* tools.py:8 "a rejected write leaves no file": a write whose check fails by
\* an exception leaves the directory as it was.
RejectedLeavesNoFile ==
    [][call # None /\ call' = None /\ Raises(call.t) /\ CheckRaises(call.t)
            => files'[call.t] = call.was]_vars

\* Whatever a backend answers and wherever the text edits land, a proposal differs
\* from the manifest in nothing but the source and the separator of a metric, the
\* source that a time field reads, and the list of ignored fields: what is fetched,
\* with which secret, the dataset, the kind of time, its constants, the version,
\* dimensions, units and signs stay.  And the capture it was made for is not
\* quarantined, now or after the registries have grown (triage's guard and second
\* detect).
ProposalIsContained ==
    Result("proposed") =>
        LET a == out.manifest.mapping
            b == out.patched.mapping IN
        /\ DOMAIN out.patched = DOMAIN out.manifest
        /\ \A k \in DOMAIN out.manifest \ {"mapping"} : out.patched[k] = out.manifest[k]
        /\ DOMAIN b = DOMAIN a
        /\ \A k \in DOMAIN a \ {"metrics", "time", "ignore_fields"} : b[k] = a[k]
        /\ DOMAIN b.metrics = DOMAIN a.metrics
        /\ \A k \in DOMAIN a.metrics :
                /\ DOMAIN b.metrics[k] = DOMAIN a.metrics[k]
                /\ \A j \in DOMAIN a.metrics[k] \ {"source", "separator"} :
                        b.metrics[k][j] = a.metrics[k][j]
        /\ DOMAIN b.time = DOMAIN a.time
        /\ \A k \in DOMAIN a.time :
                \/ b.time[k] = a.time[k]
                \/ k \in TimeFields /\ Has(a.time[k], "source") /\ Has(b.time[k], "source")
        /\ Outcome(out.patched, out.doc).quarantine = {}

\* Of documents whose records have one shape (Regular): a manifest that reads one
\* document rightly, and of which triage says no_drift on a capture, reads every
\* period of that capture rightly (review 2 AE-01: a renamed key field once looked
\* like an empty day).
NoFalseHealth ==
    Result("no_drift") =>
        \A e \in DOMAIN Docs :
            Outcome(out.manifest, e).obs # {} /\ Truthful(Outcome(out.manifest, e)) =>
                LET read == Outcome(out.manifest, out.doc) IN
                /\ Truthful(read)
                /\ \A k \in DOMAIN out.manifest.mapping.metrics :
                      Cardinality({o.start : o \in {o \in read.obs : o.metric = k}})
                        = Len(Docs[out.doc].units)

\* What detect() needs of documents to be right about their health.  Units of one
\* shape: detect() looks at the fields of all records together.  A field that a
\* request may name.  A table without a foot.  And no value that is in one column
\* twice: the engine takes equal observations for one.
IsTable(doc) == doc.decodes \cap (Tables \cup {"xlsx"}) # {}

Regular(doc) ==
    /\ Len(doc.units) \in Nat /\ DOMAIN doc.units = 1 .. Len(doc.units)
    /\ \A i \in DOMAIN doc.units : LET u == doc.units[i] IN
        /\ DOMAIN u = DOMAIN doc.units[1] /\ DOMAIN u \ Unsafe # {}
        /\ IsTable(doc) =>
            /\ ToSet(doc.header) = DOMAIN u
            /\ \A f \in DOMAIN u : u[f].txt # "null" /\ Kind(u[f]) = Kind(doc.units[1][f])
        /\ \A f \in DOMAIN u :
            /\ u[f].n \in Int
            /\ \A j \in DOMAIN doc.units \ {i} : doc.units[j][f].n = u[f].n =>
                  \A k \in DOMAIN Truth : \A at \in DOMAIN Truth[k] : Truth[k][at] \notin {u[f].n, -u[f].n}

\* Documents of one day may write a number in another way and call a field by
\* another name, but a name they share says the same.
SameFact(c, d) == c.n = d.n /\ (c.txt = "null" <=> d.txt = "null") /\ (c.txt = "date" <=> d.txt = "date")

SameWords(a, b) ==
    \A i \in DOMAIN b.units : \E j \in DOMAIN a.units :
        \A f \in DOMAIN a.units[j] \cap DOMAIN b.units[i] : SameFact(a.units[j][f], b.units[i][f])

DocumentsAgree ==
    /\ \A d \in DOMAIN Docs : Regular(Docs[d])
    /\ \A d, e \in DOMAIN Docs : DOMAIN Docs[e].units # {} => SameWords(Docs[e], Docs[d])
==============================================================================

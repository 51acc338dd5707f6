------------------------------- MODULE Triage --------------------------------
(***************************************************************************)
(* Triage of a captured document (triage/extract.py, triage/pipeline.py):  *)
(* what the source's own fields are, what no longer lines up with the      *)
(* manifest, and what becomes of a model's answer.  The answer is any list *)
(* of operations: the code trusts its constraints and not the backend      *)
(* (triage/llm.py).                                                        *)
(***************************************************************************)
EXTENDS Mapping

CONSTANT Unsafe    \* field names that SAFE_NAME refuses

------------------------------------------------------------------------------
(* Extract and detect.                                                     *)

\* Mutant: the inventory before the fallback to the document's own records.
ParsedInventory(m, doc) ==
    IF m.contract.decode \in Tables THEN ToSet(doc.header)
    ELSE UNION {DOMAIN doc.units[i] : i \in source_records(m, doc)}

\* inventory: the header of a table, else the fields of the records that the
\* parser recognises, else those of the largest group of like nodes.
inventory(m, doc) ==
    LET recs == source_records(m, doc) IN
    IF m.contract.decode \in Tables THEN ToSet(doc.header)
    ELSE IF recs # {} \/ m.contract.decode = "xlsx" THEN UNION {DOMAIN doc.units[i] : i \in recs}
    ELSE UNION {DOMAIN u : u \in ToSet(doc.units)}

\* A document of another format, or a sheet without its header, is a parse_error.
ParseError(m, doc) ==
    \/ m.contract.decode \notin doc.decodes
    \/ m.contract.decode = "xlsx" /\ ~HeaderServes(m, doc)

\* extract: only safe names reach the request.
extract(m, doc) == IF ParseError(m, doc) THEN {} ELSE inventory(m, doc) \ Unsafe

MissingMetrics(m, fields) ==
    {k \in DOMAIN m.mapping.metrics : m.mapping.metrics[k].source \notin fields}

MissingTimes(m, fields) ==
    {k \in TimeFields \cap DOMAIN m.mapping.time :
        Has(m.mapping.time[k], "source") /\ m.mapping.time[k].source \notin fields}

\* detect
detect(m, doc, ctx, reg) ==
    LET fields == extract(m, doc)
        out == map_payload(m, doc, ctx, reg)
        stopped == out.quarantine # {} \/ ParseError(m, doc) IN
    [fields |-> fields, quarantine |-> stopped,
     metrics |-> IF fields = {} THEN {} ELSE MissingMetrics(m, fields),
     times |-> IF fields = {} THEN {} ELSE MissingTimes(m, fields),
     unknown |-> ((fields \ mapped_source_fields(m)) \cup (out.unknown \ Unsafe))
                     \ ToSet(m.mapping.ignore_fields),
     no_records |-> fields # {} /\ out.obs = {} /\ ~stopped]

drifted(d) == d.quarantine \/ d.unknown # {} \/ d.metrics # {} \/ d.times # {} \/ d.no_records

------------------------------------------------------------------------------
(* The answer: a set of [op, on, to].                                      *)

Renames == {"rename_source", "rename_time_source"}
OpNames == Renames \cup {"set_decimal_separator", "add_ignore_field"}

\* parse_answer: the closed schema.
parse_answer(ops) == \A o \in ops : o.op \in OpNames

\* constrain
constrain(ops, m, fields) ==
    /\ \A o, p \in ops : o.op = p.op /\ o.on = p.on => o = p
    /\ \A o \in ops :
        /\ o.op \in {"rename_source", "set_decimal_separator"} => o.on \in DOMAIN m.mapping.metrics
        /\ o.op = "rename_time_source" =>
            /\ o.on \in TimeFields \cap DOMAIN m.mapping.time
            /\ Has(m.mapping.time[o.on], "source")
        /\ o.op \in Renames => o.to \in fields \ mapped_source_fields(m)
        /\ o.op = "set_decimal_separator" => o.to \in {"dot", "comma"}
        /\ o.op = "add_ignore_field" => o.on \in fields \ mapped_source_fields(m)

\* The mapping with one operation carried out.
Applied(m, o) ==
    CASE o.op = "rename_source" -> [m EXCEPT !.mapping.metrics[o.on].source = o.to]
      [] o.op = "set_decimal_separator" -> [m EXCEPT !.mapping.metrics[o.on].separator = o.to]
      [] o.op = "rename_time_source" -> [m EXCEPT !.mapping.time[o.on].source = o.to]
      [] o.op = "add_ignore_field" -> [m EXCEPT !.mapping.ignore_fields = Append(@, o.on)]

\* apply_operations edits the text of the manifest line by line, one operation
\* after the other.  An edit does what it is for, or it lands where a comment or a
\* quoted text looks like the key: then nothing changes, or another value of the
\* line does.  So any of the operations may be carried out.
Edits(m, ops) ==
    LET landed == {FoldSet(LAMBDA o, acc : Applied(acc, o), m, done) : done \in SUBSET ops}
        touched == {o.on : o \in {o \in ops : o.op \in {"rename_source", "set_decimal_separator"}}}
    IN  landed \cup {[p EXCEPT !.mapping.metrics[k].sign = "inverted"] : p \in landed, k \in touched}

\* _diff_paths and _allowed: what may differ is put to a common value.
Contained(a, b) ==
    LET Blank(m) ==
        [m EXCEPT !.mapping.ignore_fields = <<>>,
                  !.mapping.metrics = [k \in DOMAIN @ |-> [@[k] EXCEPT !.source = "", !.separator = ""]],
                  !.mapping.time = [k \in DOMAIN @ |->
                        IF k \in TimeFields /\ Has(@[k], "source") THEN [source |-> ""] ELSE @[k]]]
    IN  Blank(a) = Blank(b)

\* Mutant: no guard.
guard_nothing(a, b) == TRUE

guard(a, b) == Contained(a, b)

\* What triage checks of the patched manifest before it proposes it.
Accepts(m, patched, doc, ctx, reg) ==
    /\ WellFormed(patched)
    /\ guard(m, patched)
    /\ validate_manifest(patched, reg) = "OK"
    /\ LET after == detect(patched, doc, ctx, reg) IN
       ~after.quarantine /\ after.metrics = {} /\ after.times = {}

\* triage: the verdict on a capture, its drift and an answer, for each edit.
triage(m, drift, doc, ctx, reg, ops) ==
    IF ~drifted(drift) THEN {[status |-> "no_drift", patched |-> m]}
    ELSE IF ops = {} THEN {[status |-> "no_proposal", patched |-> m]}
    ELSE IF ~parse_answer(ops) \/ ~constrain(ops, m, drift.fields)
         THEN {[status |-> "refused", patched |-> m]}
    ELSE {IF Accepts(m, p, doc, ctx, reg) THEN [status |-> "proposed", patched |-> p]
          ELSE [status |-> "refused", patched |-> m] : p \in Edits(m, ops)}
==============================================================================

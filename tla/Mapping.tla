------------------------------ MODULE Mapping -------------------------------
(***************************************************************************)
(* From a captured document to observations: decode (parse/decode.py), the *)
(* generic parsers (parse/generic.py), the mapping engine                  *)
(* (mapping/engine.py) against the registry (contracts/observation.py), and *)
(* the goldens that fix what a document must give (harness/goldens.py).    *)
(*                                                                         *)
(* A cell is [txt, n]: how it is written and the number it stands for (a   *)
(* value, a day, an instant in minutes, a length in minutes).  A document  *)
(* is [decodes, header, units]: the formats its bytes are, the header of a *)
(* table, and its record-shaped units in order, each a function from field *)
(* names to cells.  A value is <<>> for NULL or <<n>>.  The clock change   *)
(* is Calendar's: here every day has DayMinutes.                           *)
(***************************************************************************)
EXTENDS Manifest

CONSTANT DayMinutes

Null == [txt |-> "null", n |-> 0]

------------------------------------------------------------------------------
(* Cells.                                                                  *)

\* parse_decimal: the declared separator only; digits and numbers need none.
IsDecimal(c, separator) == c.txt \in {"null", "native", "int", separator}
parse_decimal(c) == IF c.txt = "null" THEN <<>> ELSE <<c.n>>

apply_sign(v, sign) == IF sign = "inverted" THEN [i \in DOMAIN v |-> -v[i]] ELSE v

\* _int; a sign is not a digit.
IsInt(c) == c.txt = "native" \/ (c.txt = "int" /\ c.n >= 0)

\* _date: the first ten characters of a timestamp are a date.
IsDate(c) == c.txt \in {"date", "stamp", "naive"}
DateOf(c) == IF c.txt = "date" THEN c.n ELSE c.n \div DayMinutes

\* _datetime: NULL or a timestamp with an offset.
IsDatetime(c) == c.txt \in {"null", "stamp"}

------------------------------------------------------------------------------
(* Decode and parse.                                                       *)

Tables == {"csv", "html-table"}

\* The rows of a table end at a row without a key column or where a key
\* column turns from number to text (_rows_to_records).
Kind(c) == IF c.txt = "native" THEN "number" ELSE "text"

RowsUntilEnd(units, required) ==
    {i \in DOMAIN units : \A j \in 1 .. i : \A f \in required :
        units[j][f].txt # "null" /\ Kind(units[j][f]) = Kind(units[1][f])}

\* What the parser of a table or a sheet needs of the header.
HeaderServes(m, doc) ==
    /\ mapped_source_fields(m) \subseteq ToSet(doc.header)
    /\ m.contract.decode = "xlsx" => IsInjective(doc.header)

\* decode_payload and generic_parser: ParseError or DecodeError is "refused".
Refused(m, doc) ==
    \/ m.contract.decode \notin doc.decodes
    \/ m.contract.decode \in Tables \cup {"xlsx"} /\ ~HeaderServes(m, doc)

\* source_records: the units that are rows of the table, or nodes that have
\* every key field.
source_records(m, doc) ==
    LET required == required_source_fields(m) IN
    IF m.contract.decode \in Tables \cup {"xlsx"} THEN RowsUntilEnd(doc.units, required)
    ELSE {i \in DOMAIN doc.units : required # {} /\ required \subseteq DOMAIN doc.units[i]}

------------------------------------------------------------------------------
(* One record: where its fields come from and what it observes.            *)

\* _ref
CellOf(ref, u, ctx) ==
    IF Has(ref, "source") THEN IF Has(u, ref.source) THEN u[ref.source] ELSE Null
    ELSE IF Has(ref, "constant") THEN ref.constant
    ELSE ctx[ref.context]

Resolution(m, u, ctx) == CellOf(m.mapping.time.resolution, u, ctx)

\* _time succeeds; a day has DayMinutes \div resolution periods.
TimeReads(m, u, ctx) ==
    LET t == m.mapping.time
        res == Resolution(m, u, ctx) IN
    /\ res.txt = "duration"
    /\ IF t.kind = "period_index"
       THEN /\ IsDate(CellOf(t.date, u, ctx))
            /\ IsInt(CellOf(t.index, u, ctx))
            /\ CellOf(t.index, u, ctx).n \in 1 .. DayMinutes \div res.n
       ELSE CellOf(t.timestamp, u, ctx).txt = "stamp"

\* delivery_start_utc
Start(m, u, ctx) ==
    LET t == m.mapping.time
        res == Resolution(m, u, ctx).n IN
    IF t.kind = "period_index"
    THEN DateOf(CellOf(t.date, u, ctx)) * DayMinutes + (CellOf(t.index, u, ctx).n - 1) * res
    ELSE CellOf(t.timestamp, u, ctx).n - (IF t.interval_label = "end" THEN res ELSE 0)

\* source_version and source_published_at, when they are mapped.
VersionReads(m, u, ctx) ==
    Has(m.mapping, "source_version") => CellOf(m.mapping.source_version, u, ctx).txt # "null"
PublishedReads(m, u, ctx) ==
    Has(m.mapping, "source_published_at") => IsDatetime(CellOf(m.mapping.source_published_at, u, ctx))

Raw(m, k, u) == IF Has(u, m.mapping.metrics[k].source) THEN u[m.mapping.metrics[k].source] ELSE Null
Value(m, k, u) == apply_sign(parse_decimal(Raw(m, k, u)), m.mapping.metrics[k].sign)

\* EnergyObservation._against_registry
AgainstRegistry(m, k, res, reg) ==
    /\ m.contract.dataset_id \in DOMAIN reg.datasets
    /\ LET c == reg.datasets[m.contract.dataset_id] IN
       /\ k \in DOMAIN c.metrics
       /\ m.mapping.metrics[k].unit = c.metrics[k].unit
       /\ DimensionsOK(m.mapping.dimensions, c)
       /\ c.version_in_identity => Has(m.mapping, "source_version")
       /\ res \in c.resolutions

\* The observations of one record (_map_one), by observation_identity.
Observed(m, u, ctx) ==
    {[metric |-> k, start |-> Start(m, u, ctx), resolution |-> Resolution(m, u, ctx).n,
      version |-> IF Has(m.mapping, "source_version")
                  THEN CellOf(m.mapping.source_version, u, ctx) ELSE Null,
      value |-> Value(m, k, u)] : k \in DOMAIN m.mapping.metrics}

SameIdentity(o, p) == [o EXCEPT !.value = <<>>] = [p EXCEPT !.value = <<>>]

\* A negative value of a metric with this rule: "non_negative" stops the document,
\* "non_negative_expected" is an event.
BelowZero(m, reg, k, u, rule) ==
    /\ Value(m, k, u) # <<>> /\ Value(m, k, u)[1] < 0
    /\ Has(reg.datasets[m.contract.dataset_id].metrics, k)
    /\ reg.datasets[m.contract.dataset_id].metrics[k].sign = rule

\* Why unit i, a record, stops the document: the time first, then the metrics.
Faults(m, doc, i, ctx, reg) ==
    LET u == doc.units[i]
        ks == DOMAIN m.mapping.metrics IN
    IF Resolution(m, u, ctx).txt = "null" \/ ~TimeReads(m, u, ctx) THEN {"time"}
    ELSE IF ~VersionReads(m, u, ctx) THEN {"version"}
    ELSE IF ~PublishedReads(m, u, ctx) THEN {"published"}
    ELSE {"decimal" : k \in {k \in ks : ~IsDecimal(Raw(m, k, u), m.mapping.metrics[k].separator)}}
         \cup {"negative" : k \in {k \in ks : BelowZero(m, reg, k, u, "non_negative")}}
         \cup {"registry" : k \in {k \in ks : ~AgainstRegistry(m, k, Resolution(m, u, ctx), reg)}}
         \cup {"twice" : o \in {o \in Observed(m, u, ctx) :
                                  \E j \in {j \in source_records(m, doc) : j < i} :
                                  \E p \in Observed(m, doc.units[j], ctx) :
                                     SameIdentity(o, p) /\ o.value # p.value}}

------------------------------------------------------------------------------
(* The document.                                                           *)

\* map_records: the first record with a fault quarantines the document.
Unread == [quarantine |-> {"unreadable"}, obs |-> {}, unknown |-> {}, below |-> {}]

map_payload(m, doc, ctx, reg) ==
    IF Refused(m, doc) THEN Unread
    ELSE IF m.contract.dataset_id \notin DOMAIN reg.datasets
         THEN [Unread EXCEPT !.quarantine = {"registry"}]
    ELSE LET recs == source_records(m, doc)
             bad == {i \in recs : Faults(m, doc, i, ctx, reg) # {}} IN
         IF bad # {} THEN [Unread EXCEPT !.quarantine = Faults(m, doc, Min(bad), ctx, reg)]
         ELSE [quarantine |-> {},
               obs |-> UNION {Observed(m, doc.units[i], ctx) : i \in recs},
               unknown |-> UNION {DOMAIN doc.units[i] : i \in recs}
                              \ (mapped_source_fields(m) \cup ToSet(m.mapping.ignore_fields)),
               below |-> {k \in DOMAIN m.mapping.metrics : \E i \in recs :
                             BelowZero(m, reg, k, doc.units[i], "non_negative_expected")}]

\* completeness_events: a period is present when some metric has a value.
completeness_events(obs) ==
    {LET present == {o.start : o \in {o \in obs : /\ o.value # <<>>
                                                  /\ o.start \div DayMinutes = x[1]
                                                  /\ o.resolution = x[2]}} IN
     <<x, IF Cardinality(present) >= DayMinutes \div x[2] THEN "complete"
          ELSE IF present = {} THEN "empty" ELSE "partial">>
        : x \in {<<o.start \div DayMinutes, o.resolution>> : o \in obs}}

\* The kinds of quality events of a run of the pipeline.
EventKinds(out) ==
    {"quarantine" : x \in out.quarantine}
        \cup {"unknown_field" : x \in out.unknown}
        \cup {"negative_value" : k \in out.below}
        \cup {"partition_status" : x \in completeness_events(out.obs)}

------------------------------------------------------------------------------
(* Goldens: [fixture, quarantine, rows, row_count, events].                *)

\* Expect._rows_or_quarantine
GoldenOK(g) ==
    /\ g.quarantine = <<>> => g.rows # {} \/ g.row_count = <<0>>
    /\ g.quarantine # <<>> => g.rows = {} /\ g.row_count = <<>>

\* _matches
Matches(row, o) ==
    o.metric = row.metric /\ o.resolution = row.resolution /\ o.start = row.start

\* compare finds no problem.
compare(g, out) ==
    IF g.quarantine # <<>> THEN g.quarantine[1] \in out.quarantine
    ELSE /\ out.quarantine = {}
         /\ g.row_count # <<>> => Cardinality(out.obs) = g.row_count[1]
         /\ \A row \in g.rows : \E o \in out.obs : Matches(row, o) /\ o.value = row.value
         /\ g.events # <<>> => EventKinds(out) = g.events[1]
==============================================================================

------------------------- MODULE ContributionProofs -------------------------
(***************************************************************************)
(* What holds of any contribution, whatever the files, documents, answers  *)
(* of a backend and registries are: a write is all or nothing, a proposal  *)
(* is contained, and what the gates admit can be fetched and mapped.       *)
(***************************************************************************)
EXTENDS Contribution, WellFoundedInduction, FunctionTheorems, FiniteSetTheorems, TLAPS

------------------------------------------------------------------------------
(* The guard of triage: what two manifests share when only what may differ *)
(* does.                                                                   *)

\* _diff_paths and _allowed leave no way to change another block, another key of
\* the mapping or of a metric, or a time field that reads no source.
LEMMA GuardContains ==
    ASSUME NEW a, NEW b, Whole(a), Contained(a, b)
    PROVE  /\ DOMAIN b = DOMAIN a
           /\ \A k \in DOMAIN a \ {"mapping"} : b[k] = a[k]
           /\ DOMAIN b.mapping = DOMAIN a.mapping
           /\ \A k \in DOMAIN a.mapping \ {"metrics", "time", "ignore_fields"} :
                b.mapping[k] = a.mapping[k]
           /\ DOMAIN b.mapping.metrics = DOMAIN a.mapping.metrics
           /\ \A k \in DOMAIN a.mapping.metrics :
                /\ DOMAIN b.mapping.metrics[k] = DOMAIN a.mapping.metrics[k]
                /\ \A j \in DOMAIN a.mapping.metrics[k] \ {"source", "separator"} :
                        b.mapping.metrics[k][j] = a.mapping.metrics[k][j]
           /\ DOMAIN b.mapping.time = DOMAIN a.mapping.time
           /\ \A k \in DOMAIN a.mapping.time :
                \/ b.mapping.time[k] = a.mapping.time[k]
                \/ k \in TimeFields /\ Has(a.mapping.time[k], "source") /\ Has(b.mapping.time[k], "source")
           /\ Whole(b)
<1> DEFINE Entries(m) == [k \in DOMAIN m.mapping.metrics |->
                            [m.mapping.metrics[k] EXCEPT !.source = "", !.separator = ""]]
           Times(m) == [k \in DOMAIN m.mapping.time |->
                            IF k \in TimeFields /\ Has(m.mapping.time[k], "source")
                            THEN [source |-> ""] ELSE m.mapping.time[k]]
           Inner(m) == [j \in DOMAIN m.mapping |->
                            IF j = "time" THEN Times(m) ELSE IF j = "metrics" THEN Entries(m)
                            ELSE IF j = "ignore_fields" THEN <<>> ELSE m.mapping[j]]
           Outer(m) == [j \in DOMAIN m |-> IF j = "mapping" THEN Inner(m) ELSE m[j]]
           Blank(m) == [m EXCEPT !.mapping.ignore_fields = <<>>,
                                 !.mapping.metrics = [k \in DOMAIN @ |->
                                        [@[k] EXCEPT !.source = "", !.separator = ""]],
                                 !.mapping.time = [k \in DOMAIN @ |->
                                        IF k \in TimeFields /\ Has(@[k], "source")
                                        THEN [source |-> ""] ELSE @[k]]]
<1>1. ASSUME NEW m PROVE Blank(m) = Outer(m)
  OBVIOUS
<1>2. Outer(a) = Outer(b)
  <2>1. Blank(a) = Blank(b)
    BY DEF Contained
  <2> QED BY <1>1, <2>1
<1> HIDE DEF Blank
<1>3. DOMAIN a = DOMAIN b /\ \A k \in DOMAIN a : Outer(a)[k] = Outer(b)[k]
  <2>1. DOMAIN Outer(a) = DOMAIN a /\ DOMAIN Outer(b) = DOMAIN b
    OBVIOUS
  <2> QED BY <1>2, <2>1
<1>4. \A k \in DOMAIN a \ {"mapping"} : b[k] = a[k]
  BY <1>3
<1>5. "mapping" \in DOMAIN a
  BY DEF Whole
<1>6. Inner(a) = Inner(b)
  BY <1>3, <1>5
<1> HIDE DEF Outer
<1>7. DOMAIN a.mapping = DOMAIN b.mapping
  <2>1. DOMAIN Inner(a) = DOMAIN a.mapping /\ DOMAIN Inner(b) = DOMAIN b.mapping
    OBVIOUS
  <2> QED BY <1>6, <2>1
<1>8. {"dimensions", "metrics", "time", "ignore_fields"} \subseteq DOMAIN a.mapping
  BY DEF Whole
<1>9. ASSUME NEW k \in DOMAIN a.mapping \ {"metrics", "time", "ignore_fields"}
      PROVE  b.mapping[k] = a.mapping[k]
  <2> HIDE DEF Entries, Times
  <2>1. Inner(a)[k] = a.mapping[k] /\ Inner(b)[k] = b.mapping[k]
    BY <1>7
  <2> QED BY <1>6, <2>1
<1>10. Entries(a) = Entries(b)
  <2> HIDE DEF Entries, Times
  <2>1. Inner(a)["metrics"] = Entries(a) /\ Inner(b)["metrics"] = Entries(b)
    BY <1>7, <1>8
  <2> QED BY <1>6, <2>1
<1>11. Times(a) = Times(b)
  <2> HIDE DEF Entries, Times
  <2>1. Inner(a)["time"] = Times(a) /\ Inner(b)["time"] = Times(b)
    BY <1>7, <1>8
  <2> QED BY <1>6, <2>1
<1> HIDE DEF Inner
<1>12. DOMAIN a.mapping.time = DOMAIN b.mapping.time
  <2>1. DOMAIN Times(a) = DOMAIN a.mapping.time /\ DOMAIN Times(b) = DOMAIN b.mapping.time
    OBVIOUS
  <2> QED BY <1>11, <2>1
<1>13. ASSUME NEW k \in DOMAIN a.mapping.time
       PROVE  \/ b.mapping.time[k] = a.mapping.time[k]
              \/ k \in TimeFields /\ Has(a.mapping.time[k], "source") /\ Has(b.mapping.time[k], "source")
  <2> DEFINE f == a.mapping.time[k]
             g == b.mapping.time[k]
             Read(x) == k \in TimeFields /\ Has(x, "source")
  <2>1. Times(a)[k] = IF Read(f) THEN [source |-> ""] ELSE f
    OBVIOUS
  <2>2. Times(b)[k] = IF Read(g) THEN [source |-> ""] ELSE g
    BY <1>12
  <2>3. k \in TimeFields => Read([source |-> ""])
    BY DEF Has
  <2> HIDE DEF Times, f, g
  <2>4. (IF Read(f) THEN [source |-> ""] ELSE f) = (IF Read(g) THEN [source |-> ""] ELSE g)
    BY <1>11, <2>1, <2>2
  <2>5. Read(f) <=> Read(g)
    <3>1. Read(f) /\ ~Read(g) => g = [source |-> ""]
      BY <2>4
    <3>2. Read(g) /\ ~Read(f) => f = [source |-> ""]
      BY <2>4
    <3> QED BY <2>3, <3>1, <3>2
  <2>6. ~Read(f) /\ ~Read(g) => f = g
    BY <2>4
  <2> QED BY <2>5, <2>6 DEF f, g
<1>14. DOMAIN a.mapping.metrics = DOMAIN b.mapping.metrics
  <2>1. DOMAIN Entries(a) = DOMAIN a.mapping.metrics /\ DOMAIN Entries(b) = DOMAIN b.mapping.metrics
    OBVIOUS
  <2> QED BY <1>10, <2>1
<1>15. ASSUME NEW k \in DOMAIN a.mapping.metrics
       PROVE  /\ DOMAIN b.mapping.metrics[k] = DOMAIN a.mapping.metrics[k]
              /\ \A j \in DOMAIN a.mapping.metrics[k] \ {"source", "separator"} :
                        b.mapping.metrics[k][j] = a.mapping.metrics[k][j]
  <2> DEFINE f == a.mapping.metrics[k]
             g == b.mapping.metrics[k]
  <2>1. Entries(a)[k] = [f EXCEPT !.source = "", !.separator = ""]
    OBVIOUS
  <2>2. Entries(b)[k] = [g EXCEPT !.source = "", !.separator = ""]
    BY <1>14
  <2> HIDE DEF Entries, f, g
  <2>4. [f EXCEPT !.source = "", !.separator = ""] = [g EXCEPT !.source = "", !.separator = ""]
    BY <1>10, <2>1, <2>2
  <2>5. DOMAIN f = DOMAIN g
    BY <2>4
  <2>6. \A j \in DOMAIN f \ {"source", "separator"} : g[j] = f[j]
    BY <2>4, <2>5
  <2> QED BY <2>5, <2>6 DEF f, g
<1>16. Whole(b)
  BY <1>3, <1>5, <1>7, <1>8, <1>14, <1>15 DEF Whole
<1> QED BY <1>3, <1>4, <1>7, <1>9, <1>12, <1>13, <1>14, <1>15, <1>16

------------------------------------------------------------------------------
(* Growth of the registries.                                               *)

\* What validate_manifest asks for.
Admitted(m, reg) ==
    /\ m.contract.dataset_id \in DOMAIN reg.datasets
    /\ ToSet(m.contract.metrics) \subseteq DOMAIN reg.datasets[m.contract.dataset_id].metrics
    /\ ToSet(m.allowed_hosts) \subseteq DOMAIN reg.hosts
    /\ InsecureHosts(m, reg) = {}
    /\ ~Errors(m, reg.datasets[m.contract.dataset_id])

LEMMA OKMeansAdmitted ==
    ASSUME NEW m, NEW reg
    PROVE  validate_manifest(m, reg) = "OK" <=> Admitted(m, reg)
<1> DEFINE did == m.contract.dataset_id
           known == IF Has(reg.datasets, did) THEN DOMAIN reg.datasets[did].metrics ELSE {}
           g == AdmissionGaps(m, reg)
<1>1. GapsIn(g) <=> g.datasets # {} \/ g.metrics # {} \/ g.hosts # {} \/ g.insecure_hosts # {}
  <2>1. DOMAIN g = {"datasets", "metrics", "hosts", "insecure_hosts"}
    BY DEF AdmissionGaps
  <2> HIDE DEF g
  <2> QED BY <2>1 DEF GapsIn
<1>2. g.datasets = {} <=> did \in DOMAIN reg.datasets
  BY DEF AdmissionGaps
<1>3. did \in DOMAIN reg.datasets =>
        (g.metrics = {} <=> ToSet(m.contract.metrics) \subseteq DOMAIN reg.datasets[did].metrics)
  <2>1. g.metrics = {<<did, k>> : k \in ToSet(m.contract.metrics) \ known}
    BY DEF AdmissionGaps
  <2>2. did \in DOMAIN reg.datasets => known = DOMAIN reg.datasets[did].metrics
    BY DEF Has
  <2> HIDE DEF g, known
  <2> QED BY <2>1, <2>2
<1>4. g.hosts = {} <=> ToSet(m.allowed_hosts) \subseteq DOMAIN reg.hosts
  <2>1. g.hosts = ToSet(m.allowed_hosts) \ DOMAIN reg.hosts
    BY DEF AdmissionGaps
  <2> QED BY <2>1
<1>5. g.insecure_hosts = InsecureHosts(m, reg)
  BY DEF AdmissionGaps
<1> HIDE DEF g
<1>6. validate_manifest(m, reg) = "OK" <=> ~GapsIn(g) /\ ~Errors(m, reg.datasets[did])
  BY DEF validate_manifest, g
<1> QED BY <1>1, <1>2, <1>3, <1>4, <1>5, <1>6 DEF Admitted

LEMMA DimensionsGrow ==
    ASSUME NEW dims, NEW c, NEW e, ContractGrows(c, e), DimensionsOK(dims, c)
    PROVE  DimensionsOK(dims, e)
BY DEF ContractGrows, DimensionsOK

LEMMA AdmittedGrows ==
    ASSUME NEW m, NEW reg, NEW to, Grows(reg, to), Admitted(m, reg)
    PROVE  Admitted(m, to)
<1> DEFINE did == m.contract.dataset_id
           c == reg.datasets[did]
           e == to.datasets[did]
<1>1. did \in DOMAIN to.datasets /\ ContractGrows(c, e)
  BY DEF Grows, Admitted
<1>2. ToSet(m.contract.metrics) \subseteq DOMAIN e.metrics
  BY <1>1 DEF Admitted, ContractGrows
<1>3. ToSet(m.allowed_hosts) \subseteq DOMAIN to.hosts
  BY DEF Admitted, Grows
<1>4. InsecureHosts(m, to) = {}
  BY DEF Admitted, InsecureHosts, Grows, HostGrows
<1>5. ~Errors(m, e)
  <2>1. ~Errors(m, c)
    BY DEF Admitted
  <2>2. \A k \in ToSet(m.contract.metrics) \cap DOMAIN e.metrics :
            m.mapping.metrics[k].unit = e.metrics[k].unit
    BY <1>1, <2>1 DEF Errors, ContractGrows, Admitted
  <2>3. DimensionsOK(m.mapping.dimensions, e)
    BY <1>1, <2>1, DimensionsGrow DEF Errors
  <2>4. e.version_in_identity => Has(m.mapping, "source_version")
    BY <1>1, <2>1 DEF Errors, ContractGrows
  <2>5. Has(m.mapping.time.resolution, "constant") =>
            m.mapping.time.resolution.constant \in e.resolutions
    BY <1>1, <2>1 DEF Errors, ContractGrows
  <2> HIDE DEF e
  <2> QED BY <2>2, <2>3, <2>4, <2>5 DEF Errors
<1> QED BY <1>1, <1>2, <1>3, <1>4, <1>5 DEF Admitted

------------------------------------------------------------------------------
(* What the engine makes of a document under registries that grow.         *)

LEMMA FirstOf ==
    ASSUME NEW S \in SUBSET Nat, S # {}
    PROVE  Min(S) \in S
<1> DEFINE R == OpToRel(<, Nat)
<1>1. \A x, y \in Nat : <<x, y>> \in R <=> x < y
  BY DEF OpToRel
<1>2. IsWellFoundedOn(R, Nat)
  BY NatLessThanWellFounded
<1> HIDE DEF R
<1>3. PICK n \in S : \A y \in S : ~(<<y, n>> \in R)
  BY <1>2, WFMin
<1>4. ASSUME NEW y \in S PROVE n =< y
  <2>1. y \in Nat /\ n \in Nat /\ ~(<<y, n>> \in R)
    BY <1>3
  <2>2. ~(y < n)
    BY <1>1, <2>1
  <2> QED BY <2>1, <2>2
<1> QED BY <1>4 DEF Min

LEMMA RegisteredGrows ==
    ASSUME NEW m, NEW k, NEW res, NEW reg, NEW to, Grows(reg, to), AgainstRegistry(m, k, res, reg)
    PROVE  AgainstRegistry(m, k, res, to)
<1> DEFINE did == m.contract.dataset_id
           c == reg.datasets[did]
           e == to.datasets[did]
<1>1. did \in DOMAIN reg.datasets /\ did \in DOMAIN to.datasets /\ ContractGrows(c, e)
  BY DEF Grows, AgainstRegistry
<1>2. k \in DOMAIN e.metrics /\ m.mapping.metrics[k].unit = e.metrics[k].unit
  BY <1>1 DEF AgainstRegistry, ContractGrows
<1>3. DimensionsOK(m.mapping.dimensions, e)
  BY <1>1, DimensionsGrow DEF AgainstRegistry
<1>4. (e.version_in_identity => Has(m.mapping, "source_version")) /\ res \in e.resolutions
  BY <1>1 DEF AgainstRegistry, ContractGrows
<1> QED BY <1>1, <1>2, <1>3, <1>4 DEF AgainstRegistry

\* Every metric of a unit without a fault is in the registry.
LEMMA FaultlessIsRegistered ==
    ASSUME NEW m, NEW doc, NEW i, NEW ctx, NEW reg, Faults(m, doc, i, ctx, reg) = {},
           NEW k \in DOMAIN m.mapping.metrics
    PROVE  AgainstRegistry(m, k, Resolution(m, doc.units[i], ctx), reg)
BY DEF Faults

\* A unit without a fault gets none when the registries grow.
LEMMA NoNewFault ==
    ASSUME NEW m, NEW doc, NEW i, NEW ctx, NEW reg, NEW to, Grows(reg, to),
           Faults(m, doc, i, ctx, reg) = {}
    PROVE  Faults(m, doc, i, ctx, to) = {}
<1> DEFINE u == doc.units[i]
           ks == DOMAIN m.mapping.metrics
           bad_time == Resolution(m, u, ctx).txt = "null" \/ ~TimeReads(m, u, ctx)
           twice == {"twice" : o \in {o \in Observed(m, u, ctx) :
                                  \E j \in {j \in source_records(m, doc) : j < i} :
                                  \E p \in Observed(m, doc.units[j], ctx) :
                                     SameIdentity(o, p) /\ o.value # p.value}}
           decimal == {"decimal" : k \in {k \in ks : ~IsDecimal(Raw(m, k, u), m.mapping.metrics[k].separator)}}
           negative(r) == {"negative" : k \in {k \in ks : BelowZero(m, r, k, u, "non_negative")}}
           unregistered(r) == {"registry" : k \in {k \in ks : ~AgainstRegistry(m, k, Resolution(m, u, ctx), r)}}
<1>1. ASSUME NEW r
      PROVE  Faults(m, doc, i, ctx, r) =
                IF bad_time THEN {"time"}
                ELSE IF ~VersionReads(m, u, ctx) THEN {"version"}
                ELSE IF ~PublishedReads(m, u, ctx) THEN {"published"}
                ELSE ((decimal \cup negative(r)) \cup unregistered(r)) \cup twice
  BY DEF Faults
<1> HIDE DEF bad_time, twice, decimal
<1>2. ~bad_time /\ VersionReads(m, u, ctx) /\ PublishedReads(m, u, ctx)
      /\ decimal = {} /\ negative(reg) = {} /\ unregistered(reg) = {} /\ twice = {}
  <2> HIDE DEF negative, unregistered
  <2> QED BY <1>1
<1>4. negative(to) = {}
  <2>1. ASSUME NEW k \in ks, BelowZero(m, to, k, u, "non_negative") PROVE FALSE
    <3>1. ~BelowZero(m, reg, k, u, "non_negative")
      BY <1>2
    <3>2. /\ m.contract.dataset_id \in DOMAIN reg.datasets
          /\ k \in DOMAIN reg.datasets[m.contract.dataset_id].metrics
      <4>1. AgainstRegistry(m, k, Resolution(m, u, ctx), reg)
        BY <1>2
      <4> QED BY <4>1 DEF AgainstRegistry
    <3>3. to.datasets[m.contract.dataset_id].metrics[k] = reg.datasets[m.contract.dataset_id].metrics[k]
      BY <3>2 DEF Grows, ContractGrows
    <3> QED BY <2>1, <3>1, <3>2, <3>3 DEF BelowZero, Has
  <2> QED BY <2>1
<1>5. unregistered(to) = {}
  <2>1. ASSUME NEW k \in ks PROVE AgainstRegistry(m, k, Resolution(m, u, ctx), to)
    <3>1. AgainstRegistry(m, k, Resolution(m, u, ctx), reg)
      BY <1>2
    <3> QED BY <3>1, RegisteredGrows
  <2> QED BY <2>1
<1> HIDE DEF negative, unregistered
<1> QED BY <1>1, <1>2, <1>4, <1>5

\* A document that is read is read alike when the registries grow.
LEMMA StaysRead ==
    ASSUME NEW m, NEW doc, NEW ctx, NEW reg, NEW to, Grows(reg, to),
           DOMAIN doc.units \subseteq Nat, map_payload(m, doc, ctx, reg).quarantine = {}
    PROVE  map_payload(m, doc, ctx, to) = map_payload(m, doc, ctx, reg)
<1> DEFINE bad(r) == {i \in source_records(m, doc) : Faults(m, doc, i, ctx, r) # {}}
<1>1. source_records(m, doc) \subseteq Nat
  BY DEF source_records, RowsUntilEnd
<1>2. ASSUME NEW r, m.contract.dataset_id \in DOMAIN r.datasets
      PROVE  map_payload(m, doc, ctx, r).quarantine =
                IF Refused(m, doc) THEN {"unreadable"}
                ELSE IF bad(r) # {} THEN Faults(m, doc, Min(bad(r)), ctx, r) ELSE {}
  BY <1>2 DEF map_payload, Unread
<1> DEFINE Below(r) == {k \in DOMAIN m.mapping.metrics : \E i \in source_records(m, doc) :
                            BelowZero(m, r, k, doc.units[i], "non_negative_expected")}
           Reading(r) == [quarantine |-> {},
                       obs |-> UNION {Observed(m, doc.units[i], ctx) : i \in source_records(m, doc)},
                       unknown |-> UNION {DOMAIN doc.units[i] : i \in source_records(m, doc)}
                                      \ (mapped_source_fields(m) \cup ToSet(m.mapping.ignore_fields)),
                       below |-> Below(r)]
<1>0. ASSUME NEW r, m.contract.dataset_id \in DOMAIN r.datasets, ~Refused(m, doc), bad(r) = {}
      PROVE  map_payload(m, doc, ctx, r) = Reading(r)
  BY <1>0 DEF map_payload
<1>3. m.contract.dataset_id \in DOMAIN reg.datasets /\ m.contract.dataset_id \in DOMAIN to.datasets
  <2>1. m.contract.dataset_id \in DOMAIN reg.datasets
    BY DEF map_payload, Unread
  <2> QED BY <2>1 DEF Grows
<1>4. ~Refused(m, doc) /\ bad(reg) = {}
  <2>1. ~Refused(m, doc)
    BY <1>2, <1>3
  <2>2. ASSUME bad(reg) # {} PROVE FALSE
    <3>1. Min(bad(reg)) \in bad(reg)
      BY <1>1, <2>2, FirstOf
    <3>2. Faults(m, doc, Min(bad(reg)), ctx, reg) = {}
      BY <1>2, <1>3, <2>1, <2>2
    <3> QED BY <3>1, <3>2
  <2> QED BY <2>1, <2>2
<1>5. bad(to) = {}
  BY <1>4, NoNewFault
<1>6. Below(to) = Below(reg)
  <2>1. ASSUME NEW k \in DOMAIN m.mapping.metrics, NEW i \in source_records(m, doc)
        PROVE  BelowZero(m, to, k, doc.units[i], "non_negative_expected")
                  <=> BelowZero(m, reg, k, doc.units[i], "non_negative_expected")
    <3>1. AgainstRegistry(m, k, Resolution(m, doc.units[i], ctx), reg)
      <4>1. Faults(m, doc, i, ctx, reg) = {}
        BY <1>4
      <4> QED BY <4>1, FaultlessIsRegistered
    <3>2. /\ m.contract.dataset_id \in DOMAIN reg.datasets
          /\ k \in DOMAIN reg.datasets[m.contract.dataset_id].metrics
      BY <3>1 DEF AgainstRegistry
    <3>3. /\ k \in DOMAIN to.datasets[m.contract.dataset_id].metrics
          /\ to.datasets[m.contract.dataset_id].metrics[k] = reg.datasets[m.contract.dataset_id].metrics[k]
      BY <3>2 DEF Grows, ContractGrows
    <3> QED BY <3>2, <3>3 DEF BelowZero, Has
  <2> QED BY <2>1
<1>7. Reading(to) = Reading(reg)
  <2> HIDE DEF Below
  <2> QED BY <1>6
<1> HIDE DEF bad, Reading
<1> QED BY <1>0, <1>3, <1>4, <1>5, <1>7

\* A manifest that is admitted and names its resolution is never stopped by
\* the registries.
LEMMA NeverStopped ==
    ASSUME NEW m, NEW doc, NEW ctx, NEW reg, Admitted(m, reg), WellFormed(m),
           Has(m.mapping.time.resolution, "constant")
    PROVE  "registry" \notin map_payload(m, doc, ctx, reg).quarantine
<1> DEFINE did == m.contract.dataset_id
           c == reg.datasets[did]
<1>1. ASSUME NEW k \in DOMAIN m.mapping.metrics, NEW u
      PROVE  AgainstRegistry(m, k, Resolution(m, u, ctx), reg)
  <2>1. Resolution(m, u, ctx) = m.mapping.time.resolution.constant
    <3>1. FieldRefOK(m.mapping.time.resolution)
      <4>1. m.mapping.time["resolution"] \in Refs(m.mapping.time, TimeFields)
        <5>1. "resolution" \in TimeFields \cap DOMAIN m.mapping.time
          BY DEF WellFormed, MappingOK, TimeOK, TimeFields, Has
        <5> QED BY <5>1 DEF Refs
      <4> QED BY <4>1 DEF WellFormed, MappingOK
    <3>2. ~Has(m.mapping.time.resolution, "source")
      BY <3>1 DEF FieldRefOK, Has
    <3> QED BY <3>2 DEF Resolution, CellOf
  <2>2. ~Errors(m, c) /\ did \in DOMAIN reg.datasets
    BY DEF Admitted
  <2>3. k \in ToSet(m.contract.metrics) /\ k \in DOMAIN c.metrics
    BY DEF Admitted, WellFormed, DeclaredIsMapped
  <2> QED BY <2>1, <2>2, <2>3 DEF Errors, AgainstRegistry
<1>2. ASSUME NEW i PROVE "registry" \notin Faults(m, doc, i, ctx, reg)
  BY <1>1 DEF Faults
<1>3. did \in DOMAIN reg.datasets
  BY DEF Admitted
<1> QED BY <1>2, <1>3 DEF map_payload, Unread

------------------------------------------------------------------------------
(* A clean bill of triage.                                                 *)

\* A document that gives observations, or is not quarantined, was read whole.
LEMMA ReadWhole ==
    ASSUME NEW m, NEW doc, NEW ctx, NEW reg, DOMAIN doc.units \subseteq Nat,
           \/ map_payload(m, doc, ctx, reg).quarantine = {}
           \/ map_payload(m, doc, ctx, reg).obs # {}
    PROVE  /\ ~Refused(m, doc)
           /\ map_payload(m, doc, ctx, reg).obs =
                UNION {Observed(m, doc.units[i], ctx) : i \in source_records(m, doc)}
<1> DEFINE bad == {i \in source_records(m, doc) : Faults(m, doc, i, ctx, reg) # {}}
           read == map_payload(m, doc, ctx, reg)
<1>1. ~Refused(m, doc)
  BY DEF map_payload, Unread
<1>2. m.contract.dataset_id \in DOMAIN reg.datasets
  BY DEF map_payload, Unread
<1>3. bad = {}
  <2> SUFFICES ASSUME bad # {} PROVE FALSE
    OBVIOUS
  <2>1. read = [Unread EXCEPT !.quarantine = Faults(m, doc, Min(bad), ctx, reg)]
    BY <1>1, <1>2 DEF map_payload
  <2>2. bad \subseteq Nat
    BY DEF source_records, RowsUntilEnd
  <2>3. Faults(m, doc, Min(bad), ctx, reg) # {}
    <3>1. Min(bad) \in bad
      BY <2>2, FirstOf
    <3> QED BY <3>1
  <2>4. read.obs = {} /\ read.quarantine # {}
    <3> HIDE DEF read, bad
    <3> QED BY <2>1, <2>3 DEF Unread
  <2> QED BY <2>4
<1>4. read = [quarantine |-> {},
              obs |-> UNION {Observed(m, doc.units[i], ctx) : i \in source_records(m, doc)},
              unknown |-> UNION {DOMAIN doc.units[i] : i \in source_records(m, doc)}
                             \ (mapped_source_fields(m) \cup ToSet(m.mapping.ignore_fields)),
              below |-> {k \in DOMAIN m.mapping.metrics : \E i \in source_records(m, doc) :
                            BelowZero(m, reg, k, doc.units[i], "non_negative_expected")}]
  BY <1>1, <1>2, <1>3 DEF map_payload
<1> HIDE DEF read
<1>5. read.obs = UNION {Observed(m, doc.units[i], ctx) : i \in source_records(m, doc)}
  BY <1>4
<1> QED BY <1>1, <1>5 DEF read

\* One record of a regular document makes all its units records, and a record
\* has every key field.
LEMMA AllAreRecords ==
    ASSUME NEW m, NEW doc, Regular(doc), ~Refused(m, doc)
    PROVE  /\ m.contract.decode \in Tables \cup {"xlsx"} \/ source_records(m, doc) # {}
                => source_records(m, doc) = DOMAIN doc.units
           /\ \A i \in source_records(m, doc) : required_source_fields(m) \subseteq DOMAIN doc.units[i]
<1> DEFINE required == required_source_fields(m)
           tabular == m.contract.decode \in Tables \cup {"xlsx"}
<1>0. \A i \in DOMAIN doc.units : DOMAIN doc.units[i] = DOMAIN doc.units[1]
  BY DEF Regular
<1>1. CASE tabular
  <2>1. IsTable(doc) /\ HeaderServes(m, doc)
    BY <1>1 DEF Refused, IsTable
  <2>2. \A i \in DOMAIN doc.units : required \subseteq DOMAIN doc.units[i]
    BY <2>1 DEF Regular, HeaderServes, mapped_source_fields
  <2>3. \A i \in DOMAIN doc.units : \A f \in required :
            doc.units[i][f].txt # "null" /\ Kind(doc.units[i][f]) = Kind(doc.units[1][f])
    BY <2>1, <2>2 DEF Regular
  <2>4. \A i \in DOMAIN doc.units : \A j \in 1 .. i : j \in DOMAIN doc.units
    BY DEF Regular
  <2>5. RowsUntilEnd(doc.units, required) = DOMAIN doc.units
    BY <2>3, <2>4 DEF RowsUntilEnd
  <2>6. source_records(m, doc) = DOMAIN doc.units
    BY <1>1, <2>5 DEF source_records
  <2> QED BY <2>2, <2>6
<1>2. CASE ~tabular
  <2>1. source_records(m, doc) = {i \in DOMAIN doc.units : required # {} /\ required \subseteq DOMAIN doc.units[i]}
    BY <1>2 DEF source_records
  <2> HIDE DEF required
  <2>2. ASSUME source_records(m, doc) # {} PROVE source_records(m, doc) = DOMAIN doc.units
    <3>1. PICK i \in DOMAIN doc.units : required # {} /\ required \subseteq DOMAIN doc.units[i]
      BY <2>1, <2>2
    <3>2. required \subseteq DOMAIN doc.units[1]
      BY <1>0, <3>1
    <3> QED BY <1>0, <2>1, <3>1, <3>2
  <2> QED BY <1>2, <2>1, <2>2 DEF required
<1> QED BY <1>1, <1>2

\* detect() finds nothing only if every unit is a record that has every field
\* the manifest maps.
LEMMA NoDriftMeansAllIsRead ==
    ASSUME NEW m, NEW doc, NEW ctx, NEW reg, Regular(doc), ~drifted(detect(m, doc, ctx, reg))
    PROVE  /\ ~Refused(m, doc)
           /\ source_records(m, doc) = DOMAIN doc.units
           /\ map_payload(m, doc, ctx, reg).quarantine = {}
           /\ \A i \in DOMAIN doc.units : \A k \in DOMAIN m.mapping.metrics :
                    m.mapping.metrics[k].source \in DOMAIN doc.units[i]
<1> DEFINE read == map_payload(m, doc, ctx, reg)
           recs == source_records(m, doc)
           fields == extract(m, doc)
           stopped == read.quarantine # {} \/ ParseError(m, doc)
<1>1. /\ ~stopped
      /\ fields # {} => MissingMetrics(m, fields) = {} /\ read.obs # {}
  <2> DEFINE d == detect(m, doc, ctx, reg)
  <2>1. /\ d.quarantine = stopped
        /\ d.metrics = IF fields = {} THEN {} ELSE MissingMetrics(m, fields)
        /\ d.no_records = (fields # {} /\ read.obs = {} /\ ~stopped)
    BY DEF detect
  <2>2. ~d.quarantine /\ d.metrics = {} /\ ~d.no_records
    BY DEF drifted
  <2> HIDE DEF d, fields, stopped, read
  <2>3. ~stopped
    BY <2>1, <2>2
  <2> QED BY <2>1, <2>2, <2>3
<1>2. DOMAIN doc.units \subseteq Nat
  BY DEF Regular
<1>3. ~Refused(m, doc) /\ read.obs = UNION {Observed(m, doc.units[i], ctx) : i \in recs}
  BY <1>1, <1>2, ReadWhole
<1>4. recs \subseteq DOMAIN doc.units
  BY DEF source_records, RowsUntilEnd
<1>5. CASE DOMAIN doc.units = {}
  BY <1>1, <1>3, <1>4, <1>5
<1>6. CASE DOMAIN doc.units # {}
  <2>1. 1 \in DOMAIN doc.units
    BY <1>6 DEF Regular
  <2>2. \A i \in DOMAIN doc.units : DOMAIN doc.units[i] = DOMAIN doc.units[1]
    BY DEF Regular
  <2>4. inventory(m, doc) = DOMAIN doc.units[1]
    <3>1. CASE m.contract.decode \in Tables
      <4>1. IsTable(doc)
        BY <1>3, <3>1 DEF Refused, IsTable
      <4> QED BY <2>1, <3>1, <4>1 DEF inventory, Regular
    <3>2. CASE m.contract.decode \notin Tables /\ (recs # {} \/ m.contract.decode = "xlsx")
      <4>1. recs = DOMAIN doc.units
        BY <1>3, <3>2, AllAreRecords
      <4>2. inventory(m, doc) = UNION {DOMAIN doc.units[i] : i \in recs}
        BY <3>2 DEF inventory
      <4> QED BY <2>1, <2>2, <4>1, <4>2
    <3>3. CASE m.contract.decode \notin Tables /\ ~(recs # {} \/ m.contract.decode = "xlsx")
      <4>1. inventory(m, doc) = UNION {DOMAIN u : u \in ToSet(doc.units)}
        BY <3>3 DEF inventory
      <4>2. ToSet(doc.units) = {doc.units[i] : i \in DOMAIN doc.units}
        BY DEF ToSet
      <4> QED BY <2>1, <2>2, <4>1, <4>2
    <3> QED BY <3>1, <3>2, <3>3
  <2>5. fields = DOMAIN doc.units[1] \ Unsafe /\ fields # {}
    <3>1. ~ParseError(m, doc)
      BY <1>1
    <3>2. DOMAIN doc.units[1] \ Unsafe # {}
      BY <2>1 DEF Regular
    <3> QED BY <2>4, <3>1, <3>2 DEF extract
  <2> HIDE DEF fields
  <2>6. recs = DOMAIN doc.units
    <3>1. recs # {}
      BY <1>1, <1>3, <2>5
    <3> QED BY <1>3, <3>1, AllAreRecords
  <2>7. \A k \in DOMAIN m.mapping.metrics : m.mapping.metrics[k].source \in fields
    BY <1>1, <2>5 DEF MissingMetrics
  <2> QED BY <1>1, <1>3, <2>2, <2>5, <2>6, <2>7
<1> QED BY <1>5, <1>6

\* What two units that speak the same language say through a manifest.
LEMMA SameCell ==
    ASSUME NEW ref, NEW u, NEW v, NEW ctx,
           \A f \in DOMAIN u \cap DOMAIN v : SameFact(u[f], v[f]),
           Has(ref, "source") => ref.source \in DOMAIN u \cap DOMAIN v
    PROVE  SameFact(CellOf(ref, u, ctx), CellOf(ref, v, ctx))
BY DEF CellOf, SameFact, Has

LEMMA SameStart ==
    ASSUME NEW m, WellFormed(m), NEW u, NEW v, NEW ctx,
           \A f \in DOMAIN u \cap DOMAIN v : SameFact(u[f], v[f]),
           required_source_fields(m) \subseteq DOMAIN u \cap DOMAIN v
    PROVE  Start(m, u, ctx) = Start(m, v, ctx)
<1> DEFINE t == m.mapping.time
<1>1. ASSUME NEW k \in TimeFields, Has(t, k) PROVE SameFact(CellOf(t[k], u, ctx), CellOf(t[k], v, ctx))
  <2>1. t[k] \in Refs(t, TimeFields)
    BY <1>1 DEF Refs, Has
  <2>2. Has(t[k], "source") => t[k].source \in required_source_fields(m)
    BY <2>1 DEF required_source_fields
  <2> QED BY <2>2, SameCell
<1>2. TimeOK(t)
  BY DEF WellFormed, MappingOK
<1>3. SameFact(Resolution(m, u, ctx), Resolution(m, v, ctx))
  BY <1>1, <1>2 DEF TimeOK, TimeFields, Resolution
<1>4. CASE t.kind = "period_index"
  <2>1. SameFact(CellOf(t.date, u, ctx), CellOf(t.date, v, ctx))
    BY <1>1, <1>2, <1>4 DEF TimeOK, TimeFields
  <2>2. SameFact(CellOf(t.index, u, ctx), CellOf(t.index, v, ctx))
    BY <1>1, <1>2, <1>4 DEF TimeOK, TimeFields
  <2>3. DateOf(CellOf(t.date, u, ctx)) = DateOf(CellOf(t.date, v, ctx))
    BY <2>1 DEF DateOf, SameFact
  <2> QED BY <1>3, <1>4, <2>2, <2>3 DEF Start, SameFact
<1>5. CASE t.kind # "period_index"
  <2>1. SameFact(CellOf(t.timestamp, u, ctx), CellOf(t.timestamp, v, ctx))
    BY <1>1, <1>2, <1>5 DEF TimeOK, TimeFields
  <2> QED BY <1>3, <1>5, <2>1 DEF Start, SameFact
<1> QED BY <1>4, <1>5

\* A value that is a number is that of the metric's own cell, as it is or inverted.
LEMMA ValueOfCell ==
    ASSUME NEW m, NEW k, NEW u, NEW x, Value(m, k, u) = <<x>>
    PROVE  LET f == m.mapping.metrics[k].source IN
           /\ f \in DOMAIN u
           /\ u[f].n \in Int => x \in {u[f].n, -u[f].n} /\ x = apply_sign(<<u[f].n>>, m.mapping.metrics[k].sign)[1]
<1> DEFINE f == m.mapping.metrics[k].source
           sign == m.mapping.metrics[k].sign
<1>1. apply_sign(<<>>, sign) # <<x>>
  <2>1. DOMAIN apply_sign(<<>>, sign) = {}
    BY DEF apply_sign
  <2>2. DOMAIN <<x>> = {1}
    OBVIOUS
  <2> QED BY <2>1, <2>2
<1>2. parse_decimal(Raw(m, k, u)) # <<>>
  BY <1>1 DEF Value
<1>3. f \in DOMAIN u /\ Raw(m, k, u) = u[f]
  BY <1>2 DEF parse_decimal, Raw, Null, Has
<1>4. apply_sign(<<u[f].n>>, sign) = <<x>>
  BY <1>2, <1>3 DEF Value, parse_decimal
<1>5. u[f].n \in Int => apply_sign(<<u[f].n>>, sign)[1] \in {u[f].n, -u[f].n}
  BY DEF apply_sign
<1> QED BY <1>3, <1>4, <1>5

LEMMA SameValue ==
    ASSUME NEW m, NEW k, NEW u, NEW v,
           \A f \in DOMAIN u \cap DOMAIN v : SameFact(u[f], v[f]),
           m.mapping.metrics[k].source \in DOMAIN u \cap DOMAIN v
    PROVE  Value(m, k, u) = Value(m, k, v)
<1>1. SameFact(Raw(m, k, u), Raw(m, k, v))
  BY DEF Raw, Has
<1> QED BY <1>1 DEF SameFact, Value, parse_decimal

\* Units of a document that is read rightly are about different times.
LEMMA StartsDiffer ==
    ASSUME NEW m, NEW doc, NEW ctx, Regular(doc), NEW k \in DOMAIN Truth,
           NEW i \in DOMAIN doc.units, NEW j \in DOMAIN doc.units, i # j,
           NEW at \in DOMAIN Truth[k],
           Value(m, k, doc.units[i]) = <<Truth[k][at]>>, Value(m, k, doc.units[j]) = <<Truth[k][at]>>
    PROVE  FALSE
<1> DEFINE f == m.mapping.metrics[k].source
           sign == m.mapping.metrics[k].sign
           x == Truth[k][at]
           u == doc.units[i]
           v == doc.units[j]
<1>1. f \in DOMAIN u /\ f \in DOMAIN v
  BY ValueOfCell
<1>2. u[f].n \in Int /\ v[f].n \in Int
  BY <1>1 DEF Regular
<1>3. /\ x \in {u[f].n, -u[f].n}
      /\ x = apply_sign(<<u[f].n>>, sign)[1] /\ x = apply_sign(<<v[f].n>>, sign)[1]
  BY <1>2, ValueOfCell
<1>4. u[f].n = v[f].n
  <2>1. CASE sign = "inverted"
    <3>1. ASSUME NEW n PROVE apply_sign(<<n>>, "inverted")[1] = -n
      BY DEF apply_sign
    <3> HIDE DEF x
    <3>2. x = -u[f].n /\ x = -v[f].n
      BY <1>3, <2>1, <3>1
    <3> QED BY <1>2, <3>2
  <2>2. CASE sign # "inverted"
    BY <1>3, <2>2 DEF apply_sign
  <2> QED BY <2>1, <2>2
<1> QED BY <1>1, <1>3, <1>4 DEF Regular

LEMMA CleanBillIsTrue ==
    ASSUME DocumentsAgree, NEW m, WellFormed(m), NEW d \in DOMAIN Docs, NEW e \in DOMAIN Docs, NEW reg,
           ~drifted(detect(m, Docs[d], Ctx, reg)),
           map_payload(m, Docs[e], Ctx, reg).obs # {}, Truthful(map_payload(m, Docs[e], Ctx, reg))
    PROVE  /\ Truthful(map_payload(m, Docs[d], Ctx, reg))
           /\ \A k \in DOMAIN m.mapping.metrics :
                Cardinality({o.start : o \in {o \in map_payload(m, Docs[d], Ctx, reg).obs : o.metric = k}})
                    = Len(Docs[d].units)
<1> DEFINE doc == Docs[d]
           other == Docs[e]
           ks == DOMAIN m.mapping.metrics
           read == map_payload(m, doc, Ctx, reg)
           known == map_payload(m, other, Ctx, reg)
           Says(k, u) == /\ k \in DOMAIN Truth /\ Start(m, u, Ctx) \in DOMAIN Truth[k]
                         /\ Value(m, k, u) = <<Truth[k][Start(m, u, Ctx)]>>
<1>1. Regular(doc) /\ Regular(other)
  BY DEF DocumentsAgree
<1>2. DOMAIN doc.units \subseteq Nat /\ DOMAIN other.units \subseteq Nat
  BY <1>1 DEF Regular
<1>3. /\ ~Refused(m, doc) /\ source_records(m, doc) = DOMAIN doc.units /\ read.quarantine = {}
      /\ \A i \in DOMAIN doc.units : \A k \in ks : m.mapping.metrics[k].source \in DOMAIN doc.units[i]
  BY <1>1, NoDriftMeansAllIsRead
<1>4. read.obs = UNION {Observed(m, doc.units[i], Ctx) : i \in DOMAIN doc.units}
  BY <1>2, <1>3, ReadWhole
<1>5. ~Refused(m, other) /\ known.obs = UNION {Observed(m, other.units[i], Ctx) : i \in source_records(m, other)}
  BY <1>2, ReadWhole
<1>6. source_records(m, other) = DOMAIN other.units
  BY <1>1, <1>5, AllAreRecords
<1>7. ASSUME NEW o, NEW u, o \in Observed(m, u, Ctx)
      PROVE  /\ o.metric \in ks /\ o.start = Start(m, u, Ctx) /\ o.value = Value(m, o.metric, u)
  BY <1>7 DEF Observed
<1>8. ASSUME NEW u, NEW k \in ks
      PROVE  \E o \in Observed(m, u, Ctx) :
                o.metric = k /\ o.start = Start(m, u, Ctx) /\ o.value = Value(m, k, u)
  <2> DEFINE o == [metric |-> k, start |-> Start(m, u, Ctx), resolution |-> Resolution(m, u, Ctx).n,
                   version |-> IF Has(m.mapping, "source_version")
                               THEN CellOf(m.mapping.source_version, u, Ctx) ELSE Null,
                   value |-> Value(m, k, u)]
  <2>1. o \in Observed(m, u, Ctx)
    BY DEF Observed
  <2>2. o.metric = k /\ o.start = Start(m, u, Ctx) /\ o.value = Value(m, k, u)
    OBVIOUS
  <2> QED BY <2>1, <2>2
<1>9. ASSUME NEW j \in DOMAIN other.units, NEW k \in ks PROVE Says(k, other.units[j])
  <2>1. PICK o \in Observed(m, other.units[j], Ctx) :
            /\ o.metric = k /\ o.start = Start(m, other.units[j], Ctx)
            /\ o.value = Value(m, k, other.units[j])
    BY <1>8
  <2>2. o \in known.obs
    BY <1>5, <1>6
  <2> QED BY <2>1, <2>2 DEF Truthful
<1>10. ASSUME NEW i \in DOMAIN doc.units, NEW k \in ks PROVE Says(k, doc.units[i])
  <2>1. DOMAIN other.units # {}
    BY <1>5, <1>6
  <2>2. PICK j \in DOMAIN other.units :
            \A f \in DOMAIN other.units[j] \cap DOMAIN doc.units[i] :
                SameFact(other.units[j][f], doc.units[i][f])
    BY <2>1 DEF DocumentsAgree, SameWords
  <2> DEFINE u == other.units[j]
             v == doc.units[i]
  <2>3. required_source_fields(m) \subseteq DOMAIN u \cap DOMAIN v
    BY <1>1, <1>3, <1>5, <1>6, AllAreRecords
  <2>4. Says(k, u)
    BY <1>9
  <2>5. m.mapping.metrics[k].source \in DOMAIN u \cap DOMAIN v
    BY <1>3, <2>4, ValueOfCell
  <2> HIDE DEF u, v, Says
  <2>6. Start(m, u, Ctx) = Start(m, v, Ctx)
    BY <2>2, <2>3, SameStart DEF u, v
  <2>7. Value(m, k, u) = Value(m, k, v)
    BY <2>2, <2>5, SameValue DEF u, v
  <2> QED BY <2>4, <2>6, <2>7 DEF Says, v
<1>11. Truthful(read)
  <2> SUFFICES ASSUME NEW o \in read.obs
               PROVE  /\ o.metric \in DOMAIN Truth /\ o.start \in DOMAIN Truth[o.metric]
                      /\ o.value = <<Truth[o.metric][o.start]>>
    BY DEF Truthful
  <2>1. PICK i \in DOMAIN doc.units : o \in Observed(m, doc.units[i], Ctx)
    BY <1>4
  <2>2. Says(o.metric, doc.units[i])
    BY <1>7, <1>10, <2>1
  <2> QED BY <1>7, <2>1, <2>2
<1>12. ASSUME NEW k \in ks
       PROVE  Cardinality({o.start : o \in {o \in read.obs : o.metric = k}}) = Len(doc.units)
  <2> DEFINE starts == {o.start : o \in {o \in read.obs : o.metric = k}}
             at == [i \in 1 .. Len(doc.units) |-> Start(m, doc.units[i], Ctx)]
             n == Len(doc.units)
  <2>1. n \in Nat /\ DOMAIN doc.units = 1 .. n
    BY <1>1 DEF Regular
  <2>2. \A i \in 1 .. n : at[i] \in starts
    <3> SUFFICES ASSUME NEW i \in 1 .. n PROVE at[i] \in starts
      OBVIOUS
    <3>1. PICK o \in Observed(m, doc.units[i], Ctx) : o.metric = k /\ o.start = Start(m, doc.units[i], Ctx)
      BY <1>8
    <3>2. o \in read.obs
      BY <1>4, <2>1
    <3> QED BY <3>1, <3>2
  <2>3. \A s \in starts : \E i \in 1 .. n : at[i] = s
    <3> SUFFICES ASSUME NEW o \in read.obs, o.metric = k PROVE \E i \in 1 .. n : at[i] = o.start
      OBVIOUS
    <3>1. PICK i \in DOMAIN doc.units : o \in Observed(m, doc.units[i], Ctx)
      BY <1>4
    <3> QED BY <1>7, <2>1, <3>1
  <2>4. \A i, j \in 1 .. n : at[i] = at[j] => i = j
    <3> SUFFICES ASSUME NEW i \in 1 .. n, NEW j \in 1 .. n, at[i] = at[j], i # j PROVE FALSE
      OBVIOUS
    <3>1. Says(k, doc.units[i]) /\ Says(k, doc.units[j])
      BY <1>10, <2>1
    <3>2. Start(m, doc.units[i], Ctx) = Start(m, doc.units[j], Ctx)
      OBVIOUS
    <3> QED BY <1>1, <2>1, <3>1, <3>2, StartsDiffer
  <2> HIDE DEF starts, at, n
  <2>5. at \in Bijection(1 .. n, starts)
    <3>1. at \in [1 .. n -> starts]
      BY <2>2 DEF at, n
    <3> QED BY <2>3, <2>4, <3>1, Fun_IsBij
  <2>6. Cardinality(starts) = n
    BY <2>1, <2>5, FS_CountingElements DEF ExistsBijection
  <2> QED BY <2>6 DEF starts, n
<1> QED BY <1>11, <1>12

------------------------------------------------------------------------------
(* The inductive invariant.                                                *)

\* What is on disk: directories of files, whole manifests, known documents.
DiskInv ==
    /\ IsDirectory(files) /\ DOMAIN files = Targets
    /\ IsDirectory(fixtures) /\ DOMAIN fixtures = Targets
    /\ \A t \in Targets : /\ IsDirectory(files[t]) /\ WholeWhenLoaded(files[t])
                          /\ HoldDocuments(fixtures[t])

\* A write in progress: the directory is what it was but for one path, and the
\* surface it started from is that of what it was, with the fixtures of now.
CallInv ==
    /\ call # None /\ call.tool = "write" =>
        /\ call.t \in Targets
        /\ IsDirectory(call.was) /\ WholeWhenLoaded(call.was)
        /\ call.before = check_target(call.t, call.was, fixtures[call.t])
        /\ files[call.t] = [q \in DOMAIN call.was \cup {call.path} |->
                                IF q = call.path THEN files[call.t][call.path] ELSE call.was[q]]
    /\ call # None /\ call.tool = "record" => call.t \in Targets /\ call.doc \in DOMAIN Docs

\* What a bundled golden demands of a document it expects to be read.
GoldenHolds(golden) ==
    LET d == out.fixtures[golden.fixture][1] IN
    golden.quarantine = <<>> => d \in DOMAIN Docs /\ compare(golden, Outcome(out.manifest, d))

\* What was bundled or proposed is admitted by the registries as they are now,
\* and read as it was when the gates saw it; what was clean still is.
OutInv ==
    /\ Result("bundle") =>
        /\ WellFormed(out.manifest) /\ Admitted(out.manifest, registry)
        /\ \A g \in DOMAIN out.goldens : GoldenHolds(out.goldens[g])
    /\ Result("proposed") =>
        /\ out.target \in Targets /\ out.doc \in DOMAIN Docs
        /\ Whole(out.manifest) /\ Contained(out.manifest, out.patched)
        /\ WellFormed(out.patched) /\ Admitted(out.patched, registry)
        /\ Outcome(out.patched, out.doc).quarantine = {}
    /\ Result("no_drift") =>
        /\ out.doc \in DOMAIN Docs /\ WellFormed(out.manifest)
        /\ ~drifted(detect(out.manifest, Docs[out.doc], Ctx, registry))

RegistryInv == Grows(registry, Admissible) /\ HostsServe(registry)

ContributionInv == DiskInv /\ CallInv /\ OutInv /\ RegistryInv

LEMMA ContributionInit == Init => ContributionInv
<1> SUFFICES ASSUME Init PROVE ContributionInv
  OBVIOUS
<1>1. PICK d \in InitDirs : files = d.files /\ fixtures = d.fixtures
  BY DEF Init
<1>2. DiskInv
  BY <1>1, DirectoriesAssumption DEF DiskInv
<1>3. CallInv /\ OutInv
  BY DEF Init, CallInv, OutInv, Result
<1>4. RegistryInv
  BY RegistriesAssumption DEF Init, RegistryInv
<1> QED BY <1>2, <1>3, <1>4 DEF ContributionInv

------------------------------------------------------------------------------
(* The surface rules and a write.                                          *)

\* A write gives no problem that names another file: what the surface rules say
\* of a path is decided by that path, the fixtures and which files there are,
\* and a write only adds a file.
LEMMA OthersKeepTheirProblems ==
    ASSUME NEW t, NEW p, NEW dir, NEW after, NEW fx,
           DOMAIN after = DOMAIN dir \cup {p},
           \A q \in DOMAIN dir \ {p} : after[q] = dir[q],
           NEW x \in check_target(t, after, fx), x[1] # p
    PROVE  x \in check_target(t, dir, fx)
<1>1. CASE x \in WrongTargetId(t, after)
  <2>1. x \in WrongTargetId(t, dir)
    <3>1. PICK q \in {"manifest.yaml"} \cap DOMAIN after :
                after[q].data.target_id # t /\ x = <<q, "target_id", 0>>
      BY <1>1 DEF WrongTargetId
    <3>2. q # p
      BY <3>1
    <3>3. q \in {"manifest.yaml"} \cap DOMAIN dir /\ dir[q].data.target_id # t
      BY <3>1, <3>2
    <3> QED BY <3>1, <3>3 DEF WrongTargetId
  <2> QED BY <2>1 DEF check_target
<1>2. CASE \E q \in DOMAIN after \ Allowed : x = <<q, "outside the surface", 0>>
  <2>1. PICK q \in DOMAIN after \ Allowed : x = <<q, "outside the surface", 0>>
    BY <1>2
  <2>2. q \in DOMAIN dir \ Allowed
    BY <2>1
  <2> QED BY <2>1, <2>2 DEF check_target
<1>3. CASE x \in BreaksPythonRules(after)
  <2>1. PICK q \in Python \cap DOMAIN after : after[q].form = "rules" /\ x = <<q, "rules", 0>>
    BY <1>3 DEF BreaksPythonRules
  <2>2. q \in Python \cap DOMAIN dir /\ dir[q].form = "rules"
    BY <2>1
  <2>3. x \in BreaksPythonRules(dir)
    BY <2>1, <2>2 DEF BreaksPythonRules
  <2> QED BY <2>3 DEF check_target
<1>4. CASE x \in Placeholders(after)
  <2>1. PICK q \in Allowed \cap DOMAIN after : x \in {<<q, "placeholder", l>> : l \in after[q].lines}
    BY <1>4 DEF Placeholders
  <2>2. PICK l \in after[q].lines : x = <<q, "placeholder", l>>
    BY <2>1
  <2>3. q \in Allowed \cap DOMAIN dir /\ l \in dir[q].lines
    BY <2>1, <2>2
  <2>4. x \in Placeholders(dir)
    BY <2>2, <2>3 DEF Placeholders
  <2> QED BY <2>4 DEF check_target
<1>5. CASE x \in Completeness(after, fx)
  <2> DEFINE A1(d) == {<<"manifest.yaml", "missing", 0>> : y \in {"manifest.yaml"} \ DOMAIN d}
             A2(d) == {<<q, "missing", 0>> : q \in Inits \ DOMAIN d}
             A3 == {<<"", "no fixture", 0>> : y \in IF DOMAIN fx = {} THEN {1} ELSE {}}
             A4 == {<<n, "not a Bronze object", 0>> : n \in DOMAIN fx \ Loadable(fx)}
             A5(d) == {<<"", "no golden", 0>> : y \in IF Goldens \cap DOMAIN d = {} THEN {1} ELSE {}}
             A6(d) == {<<g, "unreadable", 0>> : g \in {g \in Goldens \cap DOMAIN d : ~GoldenLoads(d[g])}}
             A7(d) == {<<g, "fixture does not exist", 0>> :
                         g \in {g \in Goldens \cap DOMAIN d :
                                  GoldenLoads(d[g]) /\ d[g].data.fixture \notin DOMAIN fx}}
             A8(d) == {<<"", "no test", 0>> : y \in {"tests/test_golden.py"} \ DOMAIN d}
  <2>1. ASSUME NEW d
        PROVE  Completeness(d, fx) =
                    A1(d) \cup A2(d) \cup A3 \cup A4 \cup A5(d) \cup A6(d) \cup A7(d) \cup A8(d)
    BY DEF Completeness
  <2>2. A1(after) \subseteq A1(dir) /\ A2(after) \subseteq A2(dir) /\ A8(after) \subseteq A8(dir)
    OBVIOUS
  <2>3. A5(after) \subseteq A5(dir)
    <3>1. Goldens \cap DOMAIN after = {} => Goldens \cap DOMAIN dir = {}
      OBVIOUS
    <3> QED BY <3>1
  <2>4. x \in A6(after) => x \in A6(dir)
    <3>1. SUFFICES ASSUME x \in A6(after) PROVE x \in A6(dir)
      OBVIOUS
    <3>2. PICK g \in Goldens \cap DOMAIN after : ~GoldenLoads(after[g]) /\ x = <<g, "unreadable", 0>>
      BY <3>1
    <3>3. g \in Goldens \cap DOMAIN dir /\ after[g] = dir[g]
      BY <3>2
    <3> QED BY <3>2, <3>3
  <2>5. x \in A7(after) => x \in A7(dir)
    <3>1. SUFFICES ASSUME x \in A7(after) PROVE x \in A7(dir)
      OBVIOUS
    <3>2. PICK g \in Goldens \cap DOMAIN after :
              /\ GoldenLoads(after[g]) /\ after[g].data.fixture \notin DOMAIN fx
              /\ x = <<g, "fixture does not exist", 0>>
      BY <3>1
    <3>3. g \in Goldens \cap DOMAIN dir /\ after[g] = dir[g]
      BY <3>2
    <3> QED BY <3>2, <3>3
  <2> HIDE DEF A1, A2, A3, A4, A5, A6, A7, A8
  <2>6. x \in Completeness(dir, fx)
    BY <1>5, <2>1, <2>2, <2>3, <2>4, <2>5
  <2> QED BY <2>6 DEF check_target
<1> QED
  <2>1. \/ x \in WrongTargetId(t, after)
        \/ x \in {<<q, "outside the surface", 0>> : q \in DOMAIN after \ Allowed}
        \/ x \in BreaksPythonRules(after) \/ x \in Placeholders(after)
        \/ x \in Completeness(after, fx)
    BY DEF check_target
  <2> QED BY <1>1, <1>2, <1>3, <1>4, <1>5, <2>1

------------------------------------------------------------------------------
(* The steps.                                                              *)

LEMMA ScaffoldStep ==
    ASSUME ContributionInv, NEW t \in Targets, NEW b, scaffold_target(t, b)
    PROVE  ContributionInv'
<1> DEFINE text == Scaffold(t, render_manifest(t), b)
<1>1. IsDirectory(text)
  BY DEF IsDirectory, Scaffold
<1>2. WholeWhenLoaded(text)
  <2>1. "manifest.yaml" \in DOMAIN text /\ text["manifest.yaml"] = Text("plain", {1, 2}, render_manifest(t))
    BY DEF Scaffold
  <2>2. Whole(render_manifest(t))
    BY DEF Whole, render_manifest
  <2> HIDE DEF text
  <2> QED BY <2>1, <2>2 DEF WholeWhenLoaded, Text
<1>3. files' = [files EXCEPT ![t] = text] /\ call = None /\ out' = None
      /\ UNCHANGED <<fixtures, call, registry>>
  BY DEF scaffold_target, Idle, Counted
<1> HIDE DEF text
<1>4. DiskInv'
  BY <1>1, <1>2, <1>3 DEF ContributionInv, DiskInv, IsDirectory
<1> QED BY <1>3, <1>4 DEF ContributionInv, CallInv, OutInv, RegistryInv, Result

LEMMA WriteStep ==
    ASSUME ContributionInv, NEW t \in Targets, NEW p, NEW c, WriteFile(t, p, c),
           p = "manifest.yaml" /\ Loads(c) => Whole(c.data)
    PROVE  ContributionInv'
<1> DEFINE written == [q \in DOMAIN files[t] \cup {p} |-> IF q = p THEN c ELSE files[t][q]]
<1>1. /\ files' = [files EXCEPT ![t] = written]
      /\ call' = [tool |-> "write", t |-> t, path |-> p, before |-> Surface(t), was |-> files[t]]
      /\ out' = None /\ UNCHANGED <<fixtures, registry>>
  BY DEF WriteFile, Counted
<1>2. IsDirectory(written) /\ DOMAIN written = DOMAIN files[t] \cup {p}
  BY DEF IsDirectory
<1>3. WholeWhenLoaded(written)
  BY DEF WholeWhenLoaded, ContributionInv, DiskInv
<1>4. files'[t] = written
  BY <1>1 DEF ContributionInv, DiskInv
<1>5. written = [q \in DOMAIN files[t] \cup {p} |-> IF q = p THEN written[p] ELSE files[t][q]]
  OBVIOUS
<1> HIDE DEF written
<1>6. DiskInv'
  BY <1>1, <1>2, <1>3 DEF ContributionInv, DiskInv, IsDirectory
<1>7. CallInv'
  <2>1. call'.tool = "write" /\ call'.t = t /\ call'.was = files[t] /\ call'.path = p
        /\ call'.before = check_target(t, files[t], fixtures[t])
    BY <1>1 DEF Surface
  <2>2. IsDirectory(files[t]) /\ WholeWhenLoaded(files[t])
    BY DEF ContributionInv, DiskInv
  <2>3. fixtures' = fixtures
    BY <1>1
  <2> QED BY <1>4, <1>5, <2>1, <2>2, <2>3 DEF CallInv
<1> QED BY <1>1, <1>6, <1>7 DEF ContributionInv, OutInv, RegistryInv, Result

\* The server's answer to a write: the file is kept without a new problem
\* anywhere, or the directory is what it was.
LEMMA WriteAnswered ==
    ASSUME ContributionInv, WriteChecked
    PROVE  /\ \/ files' = files
              \/ files' = [files EXCEPT ![call.t] = call.was]
           /\ \/ files'[call.t] = call.was
              \/ check_target(call.t, files'[call.t], fixtures'[call.t]) \subseteq call.before
<1> DEFINE t == call.t
           p == call.path
           d == call.was
<1>1. /\ t \in Targets /\ d = [q \in DOMAIN d |-> d[q]]
      /\ call.before = check_target(t, d, fixtures[t])
      /\ files[t] = [q \in DOMAIN d \cup {p} |-> IF q = p THEN files[t][p] ELSE d[q]]
      /\ DOMAIN files = Targets
  BY DEF WriteChecked, ContributionInv, CallInv, DiskInv, IsDirectory
<1>2. DOMAIN files[t] = DOMAIN d \cup {p} /\ \A q \in DOMAIN d \ {p} : files[t][q] = d[q]
  BY <1>1
<1>3. fixtures' = fixtures
  BY DEF WriteChecked
<1>4. CASE NewProblems = {}
  <2>1. files' = files
    BY <1>4 DEF WriteChecked
  <2>2. ASSUME NEW x \in Surface(t) PROVE x \in call.before
    <3>1. CASE x[1] = p
      BY <1>4, <3>1 DEF NewProblems
    <3>2. CASE x[1] # p
      <4>1. x \in check_target(t, files[t], fixtures[t])
        BY <2>2 DEF Surface
      <4> HIDE DEF t, p, d
      <4>2. x \in check_target(t, d, fixtures[t])
        BY <1>2, <3>2, <4>1, OthersKeepTheirProblems
      <4> QED BY <1>1, <4>2
    <3> QED BY <3>1, <3>2
  <2> QED BY <1>3, <2>1, <2>2 DEF Surface
<1>5. CASE NewProblems # {}
  <2>1. files' = Rollback
    BY <1>5 DEF WriteChecked
  <2>2. Rollback = [files EXCEPT ![t] = [q \in {q \in DOMAIN files[t] : q # p \/ q \in DOMAIN d} |->
                                            IF q = p THEN d[q] ELSE files[t][q]]]
    BY DEF Rollback
  <2>3. [q \in {q \in DOMAIN files[t] : q # p \/ q \in DOMAIN d} |->
            IF q = p THEN d[q] ELSE files[t][q]] = d
    <3>1. {q \in DOMAIN files[t] : q # p \/ q \in DOMAIN d} = DOMAIN d
      BY <1>2
    <3>2. [q \in DOMAIN d |-> IF q = p THEN d[q] ELSE files[t][q]] = [q \in DOMAIN d |-> d[q]]
      BY <1>2
    <3> QED BY <1>1, <3>1, <3>2
  <2>4. files' = [files EXCEPT ![t] = d]
    BY <2>1, <2>2, <2>3
  <2> QED BY <1>1, <2>4
<1> QED BY <1>4, <1>5

LEMMA CheckedStep ==
    ASSUME ContributionInv, WriteChecked
    PROVE  ContributionInv'
<1>1. call' = None /\ UNCHANGED <<fixtures, out, registry>>
  BY DEF WriteChecked
<1>2. call.t \in Targets /\ IsDirectory(call.was) /\ WholeWhenLoaded(call.was)
  BY DEF ContributionInv, CallInv, WriteChecked
<1>3. files' = files \/ files' = [files EXCEPT ![call.t] = call.was]
  BY WriteAnswered
<1>4. DiskInv'
  BY <1>1, <1>2, <1>3 DEF ContributionInv, DiskInv, IsDirectory
<1>5. CallInv'
  BY <1>1 DEF CallInv
<1> QED BY <1>1, <1>4, <1>5 DEF ContributionInv, OutInv, RegistryInv, GoldenHolds, Result, Outcome

LEMMA RecordStep ==
    ASSUME ContributionInv,
           \/ \E t \in Targets : \E n \in DOMAIN Captures[t] : \E d \in Captures[t][n] : RecordBlob(t, n, d)
           \/ RecordEntry \/ RecordFails
    PROVE  ContributionInv'
<1>1. ASSUME NEW t \in Targets, NEW n \in DOMAIN Captures[t], NEW d \in Captures[t][n], RecordBlob(t, n, d)
      PROVE  ContributionInv'
  <2> DEFINE fx == [q \in DOMAIN fixtures[t] \cup {n} |-> IF q = n THEN <<>> ELSE fixtures[t][q]]
  <2>1. /\ fixtures' = [fixtures EXCEPT ![t] = fx]
        /\ call' = [tool |-> "record", t |-> t, name |-> n, doc |-> d]
        /\ out' = None /\ UNCHANGED <<files, registry>>
    BY <1>1 DEF RecordBlob, Counted
  <2>2. HoldDocuments(fx)
    BY DEF ContributionInv, DiskInv, HoldDocuments
  <2> HIDE DEF fx
  <2>3. DiskInv'
    BY <2>1, <2>2 DEF ContributionInv, DiskInv, IsDirectory
  <2>4. d \in DOMAIN Docs
    BY DocumentsAssumption
  <2>5. CallInv'
    BY <2>1, <2>4 DEF CallInv
  <2> QED BY <2>1, <2>3, <2>5 DEF ContributionInv, OutInv, RegistryInv, Result
<1>2. ASSUME RecordEntry PROVE ContributionInv'
  <2>1. /\ fixtures' = [fixtures EXCEPT ![call.t][call.name] = <<call.doc>>]
        /\ call' = None /\ UNCHANGED <<files, out, registry>>
        /\ call.t \in Targets /\ call.doc \in DOMAIN Docs
    BY <1>2 DEF RecordEntry, ContributionInv, CallInv
  <2> DEFINE fx == [fixtures[call.t] EXCEPT ![call.name] = <<call.doc>>]
  <2>2. fixtures' = [fixtures EXCEPT ![call.t] = fx]
    BY <2>1
  <2>3. HoldDocuments(fx)
    BY <2>1 DEF ContributionInv, DiskInv, HoldDocuments
  <2> HIDE DEF fx
  <2>4. DiskInv'
    <3>1. IsDirectory(fixtures') /\ DOMAIN fixtures' = Targets
      BY <2>2 DEF ContributionInv, DiskInv, IsDirectory
    <3>2. \A t \in Targets : HoldDocuments(fixtures'[t])
      BY <2>2, <2>3 DEF ContributionInv, DiskInv
    <3>3. files' = files
      BY <2>1
    <3> QED BY <3>1, <3>2, <3>3 DEF ContributionInv, DiskInv
  <2> QED BY <2>1, <2>4 DEF ContributionInv, CallInv, OutInv, RegistryInv, GoldenHolds, Result, Outcome
<1>3. ASSUME RecordFails PROVE ContributionInv'
  BY <1>3 DEF RecordFails, ContributionInv, DiskInv, CallInv, OutInv, RegistryInv, GoldenHolds, Result, Outcome
<1> QED BY <1>1, <1>2, <1>3

\* A request touches the outbox only; a bundle is what the gates have seen.
LEMMA BundleStep ==
    ASSUME ContributionInv, NEW t \in Targets, admission_request(t) \/ open_pr(t) \/ PrBundle(t)
    PROVE  ContributionInv'
<1>1. UNCHANGED <<files, fixtures, call, registry>>
  BY DEF admission_request, open_pr, PrBundle
<1>2. DiskInv' /\ CallInv' /\ RegistryInv'
  BY <1>1 DEF ContributionInv, DiskInv, CallInv, RegistryInv
<1>3. OutInv'
  <2>1. CASE admission_request(t)
    BY <2>1 DEF admission_request, OutInv, Result
  <2>2. CASE open_pr(t) \/ PrBundle(t)
    <3>1. out' = Bundled(t) /\ gate_report(t)
      BY <2>2 DEF open_pr, PrBundle
    <3>2. out'.kind = "bundle" /\ out'.manifest = Manifest(t)
      BY <3>1 DEF Bundled
    <3>3. WellFormed(Manifest(t)) /\ validate_manifest(Manifest(t), registry) = "OK"
      BY <3>1 DEF gate_report, ManifestLoads, Loads, Manifest
    <3>4. Admitted(Manifest(t), registry)
      BY <3>3, OKMeansAdmitted
    <3>5. ASSUME NEW g \in DOMAIN out'.goldens PROVE GoldenHolds(out.goldens[g])'
      <4> DEFINE golden == files[t][g].data
                 n == golden.fixture
      <4>1. out'.fixtures = fixtures[t] /\ g \in Goldens \cap DOMAIN files[t] /\ out'.goldens[g] = golden
        BY <3>1, <3>5 DEF Bundled
      <4>2. /\ n \in Loadable(fixtures[t])
            /\ compare(golden, Outcome(Manifest(t), fixtures[t][n][1]))
        BY <3>1, <4>1 DEF gate_report, GoldenPasses
      <4>3. fixtures[t][n][1] \in DOMAIN Docs
        BY <4>2 DEF ContributionInv, DiskInv, HoldDocuments, Loadable
      <4> HIDE DEF n
      <4> QED BY <1>1, <3>2, <4>1, <4>2, <4>3 DEF GoldenHolds, Outcome, n
    <3> QED BY <1>1, <3>2, <3>3, <3>4, <3>5 DEF OutInv, Result
  <2> QED BY <2>1, <2>2
<1> QED BY <1>2, <1>3 DEF ContributionInv

\* What triage proposes has passed the guard and the second detection.
LEMMA TriageStep ==
    ASSUME ContributionInv, NEW t \in Targets, NEW n, Triaged(t, n)
    PROVE  ContributionInv'
<1> DEFINE m == Manifest(t)
           d == fixtures[t][n][1]
           doc == Docs[d]
           drift == detect(m, doc, Ctx, registry)
<1>1. UNCHANGED <<files, fixtures, call, registry>>
  BY DEF Triaged
<1>2. DiskInv' /\ CallInv' /\ RegistryInv'
  BY <1>1 DEF ContributionInv, DiskInv, CallInv, RegistryInv
<1>3. PICK ops \in Answers : \E r \in triage(m, drift, doc, Ctx, registry, ops) :
            out' = IF r.status \notin {"no_drift", "proposed"} THEN None
                   ELSE [kind |-> r.status, patched |-> r.patched, target |-> t,
                         doc |-> d, manifest |-> m]
  BY DEF Triaged
<1>4. PICK r \in triage(m, drift, doc, Ctx, registry, ops) :
            out' = IF r.status \notin {"no_drift", "proposed"} THEN None
                   ELSE [kind |-> r.status, patched |-> r.patched, target |-> t,
                         doc |-> d, manifest |-> m]
  BY <1>3
<1>5. d \in DOMAIN Docs
  <2>1. n \in DOMAIN fixtures[t] /\ fixtures[t][n] # <<>>
    BY DEF Triaged, Loadable
  <2>2. PICK e \in DOMAIN Docs : fixtures[t][n] = <<e>>
    BY <2>1 DEF ContributionInv, DiskInv, HoldDocuments
  <2> QED BY <2>2
<1>6. Whole(m)
  BY DEF Triaged, ManifestLoads, Exists, Manifest, ContributionInv, DiskInv, WholeWhenLoaded
<1>7. r.status = "proposed" => Accepts(m, r.patched, doc, Ctx, registry)
  <2> HIDE DEF m, doc, drift
  <2>1. CASE ~drifted(drift)
    BY <1>4, <2>1 DEF triage
  <2>2. CASE drifted(drift) /\ ops = {}
    BY <1>4, <2>2 DEF triage
  <2>3. CASE drifted(drift) /\ ops # {} /\ (~parse_answer(ops) \/ ~constrain(ops, m, drift.fields))
    BY <1>4, <2>3 DEF triage
  <2>4. CASE drifted(drift) /\ ops # {} /\ parse_answer(ops) /\ constrain(ops, m, drift.fields)
    <3>1. PICK p \in Edits(m, ops) :
                r = IF Accepts(m, p, doc, Ctx, registry) THEN [status |-> "proposed", patched |-> p]
                    ELSE [status |-> "refused", patched |-> m]
      BY <1>4, <2>4 DEF triage
    <3> QED BY <3>1
  <2> QED BY <2>1, <2>2, <2>3, <2>4
<1>8. CASE r.status = "proposed"
  <2>1. out' = [kind |-> "proposed", patched |-> r.patched, target |-> t, doc |-> d, manifest |-> m]
    <3> HIDE DEF m, d
    <3> QED BY <1>4, <1>8
  <2>2. /\ WellFormed(r.patched) /\ Contained(m, r.patched)
        /\ validate_manifest(r.patched, registry) = "OK"
        /\ ~detect(r.patched, doc, Ctx, registry).quarantine
    BY <1>7, <1>8 DEF Accepts, guard
  <2>3. Admitted(r.patched, registry)
    BY <2>2, OKMeansAdmitted
  <2>4. map_payload(r.patched, doc, Ctx, registry).quarantine = {}
    BY <2>2 DEF detect
  <2> DEFINE patched == r.patched
  <2> HIDE DEF m, d, patched
  <2>5. /\ out'.kind = "proposed" /\ out'.patched = patched /\ out'.target = t
        /\ out'.doc = d /\ out'.manifest = m
    BY <2>1 DEF patched
  <2>6. (Outcome(out.patched, out.doc).quarantine = {})'
    BY <1>1, <2>4, <2>5 DEF Outcome, patched
  <2>7. OutInv'
    BY <1>1, <1>5, <1>6, <2>2, <2>3, <2>5, <2>6 DEF OutInv, Result, patched
  <2> QED BY <1>2, <2>7 DEF ContributionInv
<1>9. CASE r.status = "no_drift"
  <2>1. ~drifted(drift)
    <3> HIDE DEF m, doc, drift
    <3>1. CASE drifted(drift) /\ (ops = {} \/ ~parse_answer(ops) \/ ~constrain(ops, m, drift.fields))
      BY <1>4, <1>9, <3>1 DEF triage
    <3>2. CASE drifted(drift) /\ ops # {} /\ parse_answer(ops) /\ constrain(ops, m, drift.fields)
      <4>1. PICK p \in Edits(m, ops) :
                r = IF Accepts(m, p, doc, Ctx, registry) THEN [status |-> "proposed", patched |-> p]
                    ELSE [status |-> "refused", patched |-> m]
        BY <1>4, <3>2 DEF triage
      <4> QED BY <1>9, <4>1
    <3> QED BY <3>1, <3>2
  <2>2. WellFormed(m)
    BY DEF Triaged, ManifestLoads, Loads, Manifest
  <2>3. out' = [kind |-> "no_drift", patched |-> r.patched, target |-> t, doc |-> d, manifest |-> m]
    <3> HIDE DEF m, d
    <3> QED BY <1>4, <1>9
  <2> HIDE DEF m, d
  <2>4. out'.kind = "no_drift" /\ out'.doc = d /\ out'.manifest = m
    BY <2>3
  <2>5. OutInv'
    BY <1>1, <1>5, <2>1, <2>2, <2>4 DEF OutInv, Result
  <2> QED BY <1>2, <2>5 DEF ContributionInv
<1>10. CASE r.status \notin {"no_drift", "proposed"}
  <2>1. out' = None
    <3> HIDE DEF m, d
    <3> QED BY <1>4, <1>10
  <2>2. OutInv'
    BY <2>1 DEF OutInv, Result
  <2> QED BY <1>2, <2>2 DEF ContributionInv
<1> QED BY <1>8, <1>9, <1>10

\* Merging a request takes nothing back, and leaves the registries below what
\* the maintainer goes up to.
LEMMA AdmitGrows ==
    ASSUME RegistryInv, NEW t \in Targets, Admit(t)
    PROVE  Grows(registry, registry') /\ RegistryInv'
<1> DEFINE H == requests[t].hosts \cup requests[t].insecure_hosts
           S == {x[1] : x \in requests[t].metrics}
           hosts == [h \in DOMAIN registry.hosts \cup (H \cap DOMAIN Admissible.hosts) |->
                        IF h \in H THEN Admissible.hosts[h] ELSE registry.hosts[h]]
           sets == [d \in DOMAIN registry.datasets \cup (S \cap DOMAIN Admissible.datasets) |->
                        IF d \in S THEN Admissible.datasets[d] ELSE registry.datasets[d]]
<1>1. registry' = [hosts |-> hosts, datasets |-> sets]
  BY DEF Admit
<1>2. registry'.hosts = hosts /\ registry'.datasets = sets
  <2> HIDE DEF hosts, sets
  <2> QED BY <1>1
<1>3. \A h \in DOMAIN registry.hosts :
         h \in DOMAIN Admissible.hosts /\ HostGrows(registry.hosts[h], Admissible.hosts[h])
  BY DEF RegistryInv, Grows
<1>4. \A d \in DOMAIN registry.datasets :
         d \in DOMAIN Admissible.datasets /\ ContractGrows(registry.datasets[d], Admissible.datasets[d])
  BY DEF RegistryInv, Grows
<1>5. \A h : HostGrows(h, h)
  BY DEF HostGrows
<1>6. \A c : ContractGrows(c, c)
  BY DEF ContractGrows
<1>7. \A h \in DOMAIN hosts :
         /\ h \in DOMAIN Admissible.hosts /\ HostGrows(hosts[h], Admissible.hosts[h])
         /\ hosts[h] = Admissible.hosts[h] \/ (h \in DOMAIN registry.hosts /\ hosts[h] = registry.hosts[h])
  BY <1>3, <1>5
<1>8. \A h \in DOMAIN registry.hosts : h \in DOMAIN hosts /\ HostGrows(registry.hosts[h], hosts[h])
  BY <1>3, <1>5
<1>9. \A d \in DOMAIN sets :
         d \in DOMAIN Admissible.datasets /\ ContractGrows(sets[d], Admissible.datasets[d])
  BY <1>4, <1>6
<1>10. \A d \in DOMAIN registry.datasets :
         d \in DOMAIN sets /\ ContractGrows(registry.datasets[d], sets[d])
  BY <1>4, <1>6
<1> HIDE DEF hosts, sets
<1>11. Grows(registry, registry')
  BY <1>2, <1>8, <1>10 DEF Grows
<1>12. Grows(registry', Admissible)
  BY <1>2, <1>7, <1>9 DEF Grows
<1>13. HostsServe(registry')
  BY <1>2, <1>7, RegistriesAssumption DEF HostsServe, RegistryInv
<1> QED BY <1>11, <1>12, <1>13 DEF RegistryInv

LEMMA AdmitStep ==
    ASSUME ContributionInv, NEW t \in Targets, Admit(t)
    PROVE  ContributionInv'
<1>1. UNCHANGED <<files, fixtures, call, out>>
  BY DEF Admit
<1>2. Grows(registry, registry') /\ RegistryInv'
  BY AdmitGrows DEF ContributionInv
<1>3. DiskInv' /\ CallInv'
  BY <1>1 DEF ContributionInv, DiskInv, CallInv
<1>4. OutInv'
  <2>1. Result("bundle") => Admitted(out.manifest, registry')
    BY <1>2, AdmittedGrows DEF ContributionInv, OutInv
  <2>2. Result("proposed") => Admitted(out.patched, registry')
    BY <1>2, AdmittedGrows DEF ContributionInv, OutInv
  <2>3. Result("proposed") => map_payload(out.patched, Docs[out.doc], Ctx, registry').quarantine = {}
    <3>1. SUFFICES ASSUME Result("proposed")
                   PROVE  map_payload(out.patched, Docs[out.doc], Ctx, registry').quarantine = {}
      OBVIOUS
    <3>2. /\ out.doc \in DOMAIN Docs /\ WellFormed(out.patched) /\ Admitted(out.patched, registry)
          /\ map_payload(out.patched, Docs[out.doc], Ctx, registry).quarantine = {}
      BY <3>1 DEF ContributionInv, OutInv, Outcome
    <3>3. DOMAIN Docs[out.doc].units \subseteq Nat
      BY <3>2, DocumentsAssumption
    <3> QED BY <1>2, <3>2, <3>3, StaysRead
  <2>4. ASSUME Result("bundle"), NEW g \in DOMAIN out.goldens
        PROVE  GoldenHolds(out.goldens[g])'
    <3> DEFINE golden == out.goldens[g]
               d == out.fixtures[golden.fixture][1]
    <3>1. SUFFICES ASSUME golden.quarantine = <<>>
                   PROVE  /\ d \in DOMAIN Docs
                          /\ compare(golden, map_payload(out.manifest, Docs[d], Ctx, registry'))
      BY <1>1 DEF GoldenHolds, Outcome
    <3>2. /\ WellFormed(out.manifest) /\ Admitted(out.manifest, registry)
          /\ d \in DOMAIN Docs /\ compare(golden, map_payload(out.manifest, Docs[d], Ctx, registry))
      BY <2>4, <3>1 DEF ContributionInv, OutInv, GoldenHolds, Outcome
    <3>3. map_payload(out.manifest, Docs[d], Ctx, registry).quarantine = {}
      BY <3>1, <3>2 DEF compare
    <3>4. DOMAIN Docs[d].units \subseteq Nat
      BY <3>2, DocumentsAssumption
    <3> HIDE DEF d, golden
    <3>5. map_payload(out.manifest, Docs[d], Ctx, registry') = map_payload(out.manifest, Docs[d], Ctx, registry)
      BY <1>2, <3>2, <3>3, <3>4, StaysRead
    <3> QED BY <3>2, <3>5
  <2>5. ASSUME Result("no_drift")
        PROVE  ~drifted(detect(out.manifest, Docs[out.doc], Ctx, registry'))
    <3> DEFINE m == out.manifest
               doc == Docs[out.doc]
    <3>1. out.doc \in DOMAIN Docs /\ ~drifted(detect(m, doc, Ctx, registry))
      BY <2>5 DEF ContributionInv, OutInv
    <3>2. DOMAIN doc.units \subseteq Nat
      BY <3>1, DocumentsAssumption
    <3>3. map_payload(m, doc, Ctx, registry).quarantine = {}
      BY <3>1 DEF drifted, detect
    <3> HIDE DEF m, doc
    <3>4. map_payload(m, doc, Ctx, registry') = map_payload(m, doc, Ctx, registry)
      BY <1>2, <3>2, <3>3, StaysRead
    <3>5. detect(m, doc, Ctx, registry') = detect(m, doc, Ctx, registry)
      BY <3>4 DEF detect
    <3> QED BY <3>1, <3>5 DEF m, doc
  <2> QED BY <1>1, <2>1, <2>2, <2>3, <2>4, <2>5 DEF ContributionInv, OutInv, Result, Outcome
<1> QED BY <1>2, <1>3, <1>4 DEF ContributionInv

\* A proposal that is applied is a whole manifest: the guard has compared it.
LEMMA ApplyStep ==
    ASSUME ContributionInv, ApplyProposal
    PROVE  ContributionInv'
<1>1. WriteFile(out.target, "manifest.yaml", Text("plain", {}, out.patched))
  BY DEF ApplyProposal
<1>2. out.target \in Targets /\ Whole(out.manifest) /\ Contained(out.manifest, out.patched)
  BY DEF ApplyProposal, ContributionInv, OutInv, Result
<1>3. Whole(Text("plain", {}, out.patched).data)
  BY <1>2, GuardContains DEF Text
<1> QED BY <1>1, <1>2, <1>3, WriteStep

LEMMA CrashStep ==
    ASSUME ContributionInv, Crash
    PROVE  ContributionInv'
BY DEF Crash, ContributionInv, DiskInv, CallInv, OutInv, RegistryInv, GoldenHolds, Result, Outcome

LEMMA ContributionStep == ContributionInv /\ [Next]_vars => ContributionInv'
<1> SUFFICES ASSUME ContributionInv, [Next]_vars PROVE ContributionInv'
  OBVIOUS
<1>1. ASSUME NEW t \in Targets, NEW b \in BOOLEAN, scaffold_target(t, b) PROVE ContributionInv'
  BY <1>1, ScaffoldStep
<1>2. ASSUME NEW t \in Targets, NEW p \in DOMAIN Contents[t], NEW c \in Contents[t][p], WriteFile(t, p, c)
      PROVE  ContributionInv'
  <2>1. p = "manifest.yaml" /\ Loads(c) => Whole(c.data)
    BY DirectoriesAssumption
  <2> QED BY <1>2, <2>1, WriteStep
<1>3. ASSUME NEW t \in Targets, NEW n \in DOMAIN fixtures[t], Triaged(t, n) PROVE ContributionInv'
  BY <1>3, TriageStep
<1>4. ASSUME NEW t \in Targets, admission_request(t) \/ open_pr(t) \/ PrBundle(t) PROVE ContributionInv'
  BY <1>4, BundleStep
<1>5. ASSUME NEW t \in Targets, Admit(t) PROVE ContributionInv'
  BY <1>5, AdmitStep
<1>6. ASSUME NEW t \in Targets, CheckRaises(t) PROVE ContributionInv'
  BY <1>6, CrashStep DEF CheckRaises
<1>7. CASE UNCHANGED vars
  BY <1>7 DEF vars, ContributionInv, DiskInv, CallInv, OutInv, RegistryInv, GoldenHolds, Result, Outcome
<1> QED BY <1>1, <1>2, <1>3, <1>4, <1>5, <1>6, <1>7, RecordStep, ApplyStep, CheckedStep, CrashStep
        DEF Next

------------------------------------------------------------------------------
(* Theorems.                                                               *)

\* The directories stay directories of whole manifests, a write in progress
\* knows exactly what it started from, what was bundled or proposed is admitted
\* by the registries as they are now, and these only grow.
THEOREM ContributionInvariant == Spec => []ContributionInv
BY ContributionInit, ContributionStep, PTL DEF Spec

\* write_target_file: what the server answers to a write is all or nothing, for
\* any files, contents and sequence of calls, crashes and admissions.
THEOREM WritesAreAtomic == Spec => WriteIsAllOrNothing
<1>1. ContributionInv /\ [Next]_vars =>
        [WriteChecked => \/ files'[call.t] = call.was
                         \/ check_target(call.t, files'[call.t], fixtures'[call.t])
                              \subseteq call.before]_vars
  BY WriteAnswered
<1> QED BY <1>1, ContributionInvariant, PTL DEF Spec, WriteIsAllOrNothing

\* triage: whatever a backend answers and wherever the edits of the text land, a
\* proposal changes no key of the manifest outside the mapping, and inside it only
\* metric sources and separators, the source that a time field reads, and the list
\* of ignored fields; the capture it was made for is not quarantined.
THEOREM ProposalsAreContained == Spec => []ProposalIsContained
<1>1. ContributionInv => ProposalIsContained
  <2> SUFFICES ASSUME ContributionInv, Result("proposed") PROVE ProposalIsContained
    BY DEF ProposalIsContained
  <2>1. /\ Whole(out.manifest) /\ Contained(out.manifest, out.patched)
        /\ Outcome(out.patched, out.doc).quarantine = {}
    BY DEF ContributionInv, OutInv
  <2> DEFINE a == out.manifest
             b == out.patched
  <2> HIDE DEF a, b
  <2>2. Whole(a) /\ Contained(a, b)
    BY <2>1 DEF a, b
  <2>3. /\ DOMAIN b = DOMAIN a
        /\ \A k \in DOMAIN a \ {"mapping"} : b[k] = a[k]
        /\ DOMAIN b.mapping = DOMAIN a.mapping
        /\ \A k \in DOMAIN a.mapping \ {"metrics", "time", "ignore_fields"} :
                b.mapping[k] = a.mapping[k]
        /\ DOMAIN b.mapping.metrics = DOMAIN a.mapping.metrics
        /\ \A k \in DOMAIN a.mapping.metrics :
                /\ DOMAIN b.mapping.metrics[k] = DOMAIN a.mapping.metrics[k]
                /\ \A j \in DOMAIN a.mapping.metrics[k] \ {"source", "separator"} :
                        b.mapping.metrics[k][j] = a.mapping.metrics[k][j]
        /\ DOMAIN b.mapping.time = DOMAIN a.mapping.time
        /\ \A k \in DOMAIN a.mapping.time :
                \/ b.mapping.time[k] = a.mapping.time[k]
                \/ k \in TimeFields /\ Has(a.mapping.time[k], "source") /\ Has(b.mapping.time[k], "source")
    BY <2>2, GuardContains
  <2> QED BY <2>1, <2>3 DEF ProposalIsContained, a, b
<1> QED BY <1>1, ContributionInvariant, PTL

\* pr.py, goldens.py, registry.py: a bundle whose gates were green stays green
\* while the registries grow, until it is merged and after.
THEOREM BundlesStayGreen == Spec => []BundleStaysGreen
<1>1. ContributionInv => BundleStaysGreen
  BY DEF ContributionInv, OutInv, GoldenHolds, BundleStaysGreen
<1> QED BY <1>1, ContributionInvariant, PTL

\* pr.py, policy.py, engine.py: what a bundle was admitted on is what the fetch
\* policy and the mapping check later, under any registries that only grow.
THEOREM AdmittedStaysUsable == Spec => []AdmittedIsFetchedAndMapped
<1>1. ContributionInv => AdmittedIsFetchedAndMapped
  <2> SUFFICES ASSUME ContributionInv, Result("bundle") PROVE AdmittedIsFetchedAndMapped
    BY DEF AdmittedIsFetchedAndMapped
  <2> DEFINE m == out.manifest
  <2>1. WellFormed(m) /\ Admitted(m, registry) /\ HostsServe(registry)
    BY DEF ContributionInv, OutInv, RegistryInv
  <2>2. ASSUME NEW u \in Block(m).urls PROVE UrlPasses(u, m)
    <3>1. /\ u.scheme = "https" \/ (u.scheme = "http" /\ m.allow_insecure)
          /\ u.host \in ToSet(m.allowed_hosts)
      BY <2>1 DEF WellFormed, UrlsAllowed
    <3>2. u.host \in DOMAIN registry.hosts
      BY <2>1, <3>1 DEF Admitted
    <3>3. m.allow_insecure => registry.hosts[u.host].insecure
      BY <2>1, <3>1, <3>2 DEF Admitted, InsecureHosts
    <3>4. /\ 443 \in registry.hosts[u.host].ports
          /\ registry.hosts[u.host].insecure => 80 \in registry.hosts[u.host].ports
      BY <2>1, <3>2 DEF HostsServe
    <3> QED BY <3>1, <3>2, <3>3, <3>4 DEF UrlPasses
  <2>3. ASSUME NEW d \in DOMAIN Docs, Has(m.mapping.time.resolution, "constant")
        PROVE  "registry" \notin Outcome(m, d).quarantine
    BY <2>1, <2>3, NeverStopped DEF Outcome
  <2> QED BY <2>2, <2>3 DEF AdmittedIsFetchedAndMapped
<1> QED BY <1>1, ContributionInvariant, PTL

\* extract.py, review 2 AE-01: triage gives a clean bill only to a capture of
\* which every period is read, and rightly, by a manifest that reads another
\* document of that day rightly; whatever the documents are, as long as one
\* name does not mean two things and the units of each have one shape.
THEOREM HealthIsTrue ==
  ASSUME DocumentsAgree
  PROVE  Spec => []NoFalseHealth
<1>1. ContributionInv => NoFalseHealth
  <2> SUFFICES ASSUME ContributionInv, Result("no_drift"), NEW e \in DOMAIN Docs,
                      Outcome(out.manifest, e).obs # {}, Truthful(Outcome(out.manifest, e))
               PROVE  LET read == Outcome(out.manifest, out.doc) IN
                      /\ Truthful(read)
                      /\ \A k \in DOMAIN out.manifest.mapping.metrics :
                            Cardinality({o.start : o \in {o \in read.obs : o.metric = k}})
                                = Len(Docs[out.doc].units)
    BY DEF NoFalseHealth
  <2>1. /\ out.doc \in DOMAIN Docs /\ WellFormed(out.manifest)
        /\ ~drifted(detect(out.manifest, Docs[out.doc], Ctx, registry))
    BY DEF ContributionInv, OutInv
  <2> DEFINE m == out.manifest
             d == out.doc
  <2>2. map_payload(m, Docs[e], Ctx, registry).obs # {} /\ Truthful(map_payload(m, Docs[e], Ctx, registry))
    BY DEF Outcome
  <2>3. /\ d \in DOMAIN Docs /\ WellFormed(m) /\ ~drifted(detect(m, Docs[d], Ctx, registry))
    BY <2>1
  <2>4. Outcome(m, d) = map_payload(m, Docs[d], Ctx, registry)
    BY DEF Outcome
  <2> HIDE DEF m, d
  <2>5. /\ Truthful(map_payload(m, Docs[d], Ctx, registry))
        /\ \A k \in DOMAIN m.mapping.metrics :
                Cardinality({o.start : o \in {o \in map_payload(m, Docs[d], Ctx, registry).obs : o.metric = k}})
                    = Len(Docs[d].units)
    BY <2>2, <2>3, CleanBillIsTrue
  <2> QED BY <2>4, <2>5 DEF m, d
<1> QED BY <1>1, ContributionInvariant, PTL
==============================================================================

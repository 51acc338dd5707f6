--------------------------- MODULE MCContribution ---------------------------
EXTENDS Contribution

\* Two periods of 15 minutes a day; price and volume of one market.
R15 == [txt |-> "duration", n |-> 15]
\* The flow is the volume under another name.
Says == [price |-> (30 :> 11) @@ (45 :> 12), volume |-> (30 :> 21) @@ (45 :> 22),
         flow |-> (30 :> 21) @@ (45 :> 22)]

MCCtx == [delivery_day |-> [txt |-> "date", n |-> 1], scheduled_for |-> [txt |-> "stamp", n |-> 31]]

\* A document with the source's names and the way it writes the price.
Document(idx, p, v, txt) ==
    [decodes |-> {"soap", "xml"}, header |-> <<>>,
     units |-> [i \in 1 .. 2 |->
        (idx :> [txt |-> "int", n |-> i]) @@
        (p :> [txt |-> txt, n |-> Says.price[15 + 15 * i]]) @@
        (v :> [txt |-> "int", n |-> Says.volume[15 + 15 * i]])]]

MCDocs ==
    [plain |-> Document("Idx", "P", "V", "dot"),
     price |-> Document("Idx", "P2", "V", "dot"),
     index |-> Document("Idx2", "P", "V", "dot"),
     both |-> Document("Idx", "P2", "V2", "dot"),
     comma |-> Document("Idx", "P", "V", "comma"),
     unsafe |-> Document("!", "P", "V", "dot"),
     empty |-> [decodes |-> {"soap", "xml"}, header |-> <<>>, units |-> <<>>],
     fault |-> [decodes |-> {}, header |-> <<>>, units |-> <<>>]]

Url(scheme, host) == [scheme |-> scheme, host |-> host, port |-> <<>>]

Market(t) ==
    [target_id |-> t, modality |-> "soap-xml", allowed_hosts |-> <<"ote">>, allow_insecure |-> FALSE,
     fetch |-> [soap_xml |-> [urls |-> {Url("https", "ote")}, templates |-> {}, params |-> {},
                              strings |-> {"body"}]],
     contract |-> [dataset_id |-> "idm", source_transport |-> "soap", decode |-> "soap",
                   metrics |-> <<"price", "volume">>],
     mapping |->
        [dimensions |-> [area |-> "CZ"],
         time |-> [kind |-> "period_index", date |-> [context |-> "delivery_day"],
                   index |-> [source |-> "Idx"], resolution |-> [constant |-> R15]],
         metrics |->
            [price |-> [source |-> "P", unit |-> "EUR/MWh", sign |-> "as_published", separator |-> "dot"],
             volume |-> [source |-> "V", unit |-> "MWh", sign |-> "as_published", separator |-> "dot"]],
         ignore_fields |-> <<>>]]

Swapped(t) == [Market(t) EXCEPT !.mapping.metrics.price.source = "V", !.mapping.metrics.volume.source = "P"]
OtherUnit(t) == [Market(t) EXCEPT !.mapping.metrics.price.unit = "CZK/MWh"]
NewHost(t) == [Market(t) EXCEPT !.allowed_hosts = <<"new">>, !.allow_insecure = TRUE,
                                !.fetch.soap_xml.urls = {Url("http", "new")}]
\* A new source that also has a metric nobody registered.
NewMetric(t) ==
    [NewHost(t) EXCEPT
        !.contract.metrics = Append(@, "flow"),
        !.mapping.metrics = @ @@ [flow |-> [source |-> "V", unit |-> "MW", sign |-> "as_published",
                                            separator |-> "dot"]]]
Insecure(t) == [Market(t) EXCEPT !.allow_insecure = TRUE, !.fetch.soap_xml.urls = {Url("http", "ote")}]
Repaired(t) == [Market(t) EXCEPT !.mapping.metrics.price.source = "P2"]
Leaking(t) == [Market(t) EXCEPT !.fetch.soap_xml.strings = {"token"}]

ManifestTexts(t) ==
    {Text("plain", {}, d) : d \in {Market(t), Swapped(t), OtherUnit(t), NewHost(t), Repaired(t),
                                   Insecure(t), Leaking(t)}}
        \cup {Text("plain", {1}, Market(t)), Text("anchors", {}, Market(t)),
              Text("plain", {}, Market("other"))}

Row(k, at, v) == [metric |-> k, resolution |-> 15, start |-> at, value |-> <<v>>]
Golden(fixture, rows) ==
    [fixture |-> fixture, quarantine |-> <<>>, rows |-> rows, row_count |-> <<>>, events |-> <<>>]
True30(fixture) == Golden(fixture, {Row("price", 30, 11), Row("volume", 30, 21)})
Swap30(fixture) == Golden(fixture, {Row("price", 30, 21), Row("volume", 30, 11)})
Stopped(fixture) == [Golden(fixture, {}) EXCEPT !.quarantine = <<"decimal">>]
NoRows(fixture) == [Golden(fixture, {}) EXCEPT !.row_count = <<0>>, !.events = <<{}>>]

Plain(data) == {Text("plain", {}, d) : d \in data}

MCContents ==
    [tb |-> ("manifest.yaml" :> {Text("plain", {}, Market("tb")), Text("plain", {}, NewMetric("tb"))})
            @@ ("tests/golden/a.yaml" :> {Text("plain", {}, True30("f1"))}),
     ta |->
        ("manifest.yaml" :> ManifestTexts("ta"))
        @@ ("tests/golden/a.yaml" :> Plain({True30("f1"), Swap30("f1")}) \cup {Text("impossible date", {}, True30("f1"))})
        @@ ("tests/golden/b.yaml" :> Plain({True30("f2"), Swap30("f2"), Stopped("f2"), NoRows("f2")}))
        @@ ("parser.py" :> {Text("plain", {}, None), Text("rules", {}, None)})
        @@ ("tests/__init__.py" :> {Text("rules", {}, None)})
        @@ ("notes.txt" :> {Text("plain", {}, None)})]

MCCaptures ==
    [ta |-> [f1 |-> {"plain"}, f2 |-> {"plain", "price"}], tb |-> [f1 |-> {"plain"}]]

Op(op, on, to) == [op |-> op, on |-> on, to |-> to]
Ops == {Op("rename_source", "price", "P2"), Op("rename_source", "price", "V2"),
        Op("rename_source", "volume", "P2"), Op("rename_source", "volume", "V2"),
        Op("rename_time_source", "index", "Idx2"), Op("rename_time_source", "date", "Idx2"),
        Op("set_decimal_separator", "price", "comma"), Op("add_ignore_field", "P2", ""),
        Op("set_unit", "price", "CZK/MWh")}
\* One operation, or two that rename the sources of both metrics.
RenamesOf(k) == {o \in Ops : o.op = "rename_source" /\ o.on = k}
MCAnswers ==
    {{}} \cup {{o} : o \in Ops}
        \cup {{Op("rename_source", "price", "P2"), o} : o \in RenamesOf("volume")}

Contract == [metrics |-> [price |-> [unit |-> "EUR/MWh", sign |-> "negative_allowed"],
                          volume |-> [unit |-> "MWh", sign |-> "non_negative"]],
             dimensions |-> [area |-> {"CZ"}], version_in_identity |-> FALSE, resolutions |-> {R15}]
MCRegistry == [hosts |-> [ote |-> [insecure |-> FALSE, ports |-> {443}]], datasets |-> [idm |-> Contract]]
\* A new host, and a contract that takes another area, resolution and metric.
MCAdmissible ==
    [hosts |-> MCRegistry.hosts @@ [new |-> [insecure |-> TRUE, ports |-> {80, 443}]],
     datasets |-> [idm |->
        [Contract EXCEPT !.dimensions.area = {"CZ", "SK"},
                         !.resolutions = {R15, [txt |-> "duration", n |-> 5]},
                         !.metrics = @ @@ [flow |-> [unit |-> "MW", sign |-> "negative_allowed"]]]]]

Complete(t) ==
    ("manifest.yaml" :> Text("plain", {}, Market(t))) @@ [p \in Inits |-> Text("plain", {}, None)]
    @@ ("tests/test_golden.py" :> Text("plain", {}, None))
    @@ ("tests/golden/a.yaml" :> Text("plain", {}, True30("f1")))
With(t, second) ==
    [files |-> [ta |-> Complete("ta"), tb |-> t],
     fixtures |-> [ta |-> ("f1" :> <<"plain">>) @@ second, tb |-> <<>>]]
MCInitDirs ==
    {With(<<>>, "f2" :> <<d>>) : d \in DOMAIN MCDocs \ {"plain", "fault"}}
        \cup {With(Scaffold("tb", Market("tb"), FALSE), <<>>)}
\* The documents of the instance are as the theorem about triage asks.
ASSUME AgreementAssumption == DocumentsAgree
==============================================================================

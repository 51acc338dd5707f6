------------------------------ MODULE MCFetch --------------------------------
(* A registered host, one the manifest does not allow, today's file and an   *)
(* older one, a port that is not registered; one public address and a       *)
(* private one, and a second public one the name may move to.                *)
EXTENDS Fetch

Url(scheme, host, port, file) == [scheme |-> scheme, host |-> host, port |-> port, file |-> file]
Own == Url("https", "source", 443, "day")
Page == Url("https", "source", 443, "page")
Newest == Url("https", "source", 443, "newest")
WrongPort == Url("https", "source", 8443, "day")
Plain == Url("http", "source", 80, "day")
Elsewhere == Url("https", "elsewhere", 443, "day")
Sites == {Own, Page, Newest, WrongPort, Plain, Elsewhere}
Hosts == [h \in {"source", "elsewhere"} |-> [ports |-> {80, 443}, insecure |-> FALSE]]
==============================================================================

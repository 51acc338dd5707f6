------------------------------ MODULE MCSilver -------------------------------
EXTENDS Silver, TLC

\* A SOAP target with two instants and the XLSX copy of the same dataset; the
\* SOAP transport owns k1.  Document "b" corrects "a", "x" is the copy.
OneRun == [r \in {"r1"} |-> "soap"]
TwoRuns == [r \in {"r1", "r2"} |-> "soap"]
WithCopy == [r \in {"r1", "h1"} |-> IF r = "h1" THEN "xlsx" ELSE "soap"]

SoapOnly == [t \in {"soap"} |-> t]
BothTransports == [t \in {"soap", "xlsx"} |-> t]

OwnedKeys == [k \in {"k1", "k2"} |-> IF k = "k1" THEN "soap" ELSE "none"]
FreeKey == [k \in {"k1"} |-> "none"]

Documents(P) == [p \in P |-> IF p = "x" THEN "xlsx" ELSE "soap"]
OneDocument == Documents({"a"})
TwoDocuments == Documents({"a", "b"})
WithoutCorrection == Documents({"a", "x"})

\* Every document has the keys of its dataset.
CoversAll == [p \in {"a", "x"} |-> {"k1", "k2"}]
CoversOne == [p \in DOMAIN ServedBy |-> {"k1"}]

NoStamp == [p \in DOMAIN ServedBy |-> 0]

SameContract == [d \in Derivations |-> 1]
ForSoap == [d \in Derivations |-> "soap"]
LastForCopy == [d \in Derivations |-> IF d = 3 THEN "xlsx" ELSE "soap"]
NoQuarantine == {}
BadForOld == {<<"b", 1>>}

WorkerSymmetry == Permutations(Workers)

==============================================================================

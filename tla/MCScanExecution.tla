-------------------------- MODULE MCScanExecution --------------------------
(***************************************************************************)
(* Small instances of ScanExecution: two jobs q and r of the same bytes; a *)
(* container p with a derived object c; the same beside q, which is of the *)
(* bytes of c; and r alone with all kinds of names.                        *)
(***************************************************************************)
EXTENDS ScanExecution, TLC

CONSTANTS p, c, q, r, same, different

Family == [j \in {p, q, r} |-> Nil] @@ (c :> p)
Digests == [j \in {c, q, r} |-> same] @@ (p :> different)

TwoScans == [j \in {q, r} |-> <<"clamav">>]
Container == p :> <<"clamav", "container">>
ContainerBeside == (p :> <<"loki", "container">>) @@ (q :> <<"loki">>)
AllKinds ==
    r :> <<"document", "rab-correlation", "clamav", "executable", "yara", "container">>

OneScan == {q :> <<"clamav">>}
Both == {TwoScans}
Mixed == {TwoScans, Container, ContainerBeside, AllKinds}

Scanning == ("clamav" :> {"CLEAN", "MALICIOUS", "ERROR"}) @@ ("loki" :> {"SUSPICIOUS"})
Analysis == ("document" :> DocumentResults) @@ ("executable" :> ExecutableResults)
=============================================================================

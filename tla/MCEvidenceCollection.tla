------------------------- MODULE MCEvidenceCollection -------------------------
EXTENDS EvidenceCollection, TLC

CONSTANTS i1, i2, i3, i4, i5, real, twin, sim

\* Two real connectors and the simulator, first in the alphabet, serve i1;
\* i2 has the simulator alone, i3 and i4 a real connector that may be asked
\* once, and nobody serves i5.
MCServes == real :> {i1, i3} @@ twin :> {i1, i4} @@ sim :> {i1, i2}
MCPosition == real :> 1 @@ twin :> 2 @@ sim :> 0
MCMaxAttempts == real :> 3 @@ twin :> 0 @@ sim :> 2
MCBinds == [i \in Items |-> IF i = i1 THEN {"subject", "target"} ELSE {"target"}]

MCSets ==
  {i1 :> "REQUIRED" @@ i2 :> "OPTIONAL" @@ i3 :> "UNRESOLVED" @@ i4 :> "CONDITIONAL" @@ i5 :> "CONDITIONAL",
   i1 :> "REQUIRED" @@ i2 :> "REQUIRED" @@ i3 :> "REQUIRED" @@ i4 :> "NOT_REQUIRED" @@ i5 :> "NOT_REQUIRED",
   [i \in Items |-> "NOT_REQUIRED"]}

Sound == [status |-> "COLLECTED", flaws |-> {}, subject |-> "requested", target |-> None]
MCReports ==
  [i \in Items |->
     IF i = i1 THEN {Sound, [Sound EXCEPT !.subject = None, !.target = "other"],
                     [Sound EXCEPT !.subject = "other", !.flaws = {"EXPIRED"}]}
     ELSE {Sound, [Sound EXCEPT !.flaws = {"STALE", "REVOKED"}]}]
=============================================================================

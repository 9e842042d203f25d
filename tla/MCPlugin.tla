------------------------------- MODULE MCPlugin -------------------------------
\* Plugin with one component that blocks, and is loaded, broken and taken away, and one
\* that is not loaded, which is only noticed.
EXTENDS Plugin

CONSTANTS k1, k2, t1, t2, r1

MCPolicy == [k \in {k1, k2} |-> IF k = k1 THEN "block" ELSE "notice"]
Runs == [listed |-> "one", phase |-> "active", package |-> "present"]
Absent == [Runs EXCEPT !.listed = "none"]
MCFacts == [k \in {k1, k2} |-> IF k = k1 THEN {Runs, [Runs EXCEPT !.phase = "failed"], Absent}
                              ELSE {[Runs EXCEPT !.phase = "inactive"]}]
=============================================================================

-------------------------- MODULE MCSuiteDeclaration --------------------------
\* SuiteDeclaration with its pages, requests and releases for the run.
EXTENDS SuiteDeclaration

CONSTANTS p1, p2, v1, v2, i1, i2

\* The second release brings a component, the third another Core; the component of the third
\* is older than that of the second, and it accepts one of the two Reacts only.
Releases ==
  <<[core |-> 1, component |-> 1], [core |-> 1, component |-> 2], [core |-> 2, component |-> 1]>>
Manifests == <<{1, 2}, {1}>>
Peers == <<{v1, v2}, {v1, v2}, {v1}>>

\* The releases of the run are ones for which a declaration is true.
ASSUME ReleasesGoForward == NoWayBack
=============================================================================

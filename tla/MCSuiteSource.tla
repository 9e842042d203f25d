---------------------------- MODULE MCSuiteSource ----------------------------
\* SuiteSource with its calls, options, listeners and clients for the run.
EXTENDS SuiteSource

CONSTANTS c1, c2, a, b, l1, l2, l3, k1
=============================================================================

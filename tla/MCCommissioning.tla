-------------------------- MODULE MCCommissioning ---------------------------
EXTENDS Commissioning

\* Seconds a device may report.
MCDurations == {0, 120}
=============================================================================

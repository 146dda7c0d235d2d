--------------------------- MODULE MCCommissioner ---------------------------
EXTENDS CommissionerSpec

\* Seconds a device may report: nothing, less than and more than the defaults.
MCDurations == {0, 20, 120}
=============================================================================

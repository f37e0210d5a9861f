------------------------------ MODULE MCInput ------------------------------
\* Two readers, interchangeable for the invariants but not under fairness.
EXTENDS Input
=============================================================================

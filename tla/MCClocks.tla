------------------------------ MODULE MCClocks ------------------------------
EXTENDS Clocks

\* The time, a little ahead of it, and before 1970.
ErrorsUsed == {0, 1, 3, -21}

=============================================================================

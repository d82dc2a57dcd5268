------------------------- MODULE MCAdmissionManager -------------------------
EXTENDS AdmissionManager, TLC

\* Identities and exports are interchangeable (safety runs only).
Symmetry == Permutations(Ids) \cup Permutations(Exports)

\* The runs with two identities leave out the stray file: it makes Recover give
\* up, which changes exported files only, and these none of their properties
\* speaks of.  The run about the collection of files has it.
NotStray == ~stray
=============================================================================

------------------------ MODULE MCDefinitionRelease ------------------------
EXTENDS DefinitionRelease, TLC

\* The processes are interchangeable.
ProcessSymmetry == Permutations(Process)
=============================================================================

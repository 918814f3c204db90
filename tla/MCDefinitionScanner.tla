------------------------ MODULE MCDefinitionScanner ------------------------
EXTENDS DefinitionScanner
=============================================================================

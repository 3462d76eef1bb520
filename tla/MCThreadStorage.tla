-------------------------- MODULE MCThreadStorage --------------------------
EXTENDS ThreadStorage

=============================================================================

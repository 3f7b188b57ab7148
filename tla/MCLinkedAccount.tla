--------------------------- MODULE MCLinkedAccount ---------------------------
EXTENDS LinkedAccount
=============================================================================

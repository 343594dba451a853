---------------------------- MODULE MCRecipients ----------------------------
\* Small instances of Recipients.
EXTENDS Recipients, TLC

Interchangeable == Permutations(Addresses)
=============================================================================

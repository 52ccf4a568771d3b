------------------------------- MODULE MCProbe -------------------------------
EXTENDS Probe

TwoKeys == {"key 1", "key 2"}
TwoContents == {"ACN first", "another first"}
AcnFirst == {"ACN first"}
=============================================================================

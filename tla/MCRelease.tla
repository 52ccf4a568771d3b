------------------------------ MODULE MCRelease ------------------------------
EXTENDS Release

TwoFiles == 1 .. 2
SomeKinds == {"signed", "envelope", "message", "upsetting"}
=============================================================================

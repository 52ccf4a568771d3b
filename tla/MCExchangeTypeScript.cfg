\* Is the TypeScript canonical form the one Python verifies?
CONSTANTS
    FormOf <- AnyForm
    JsonOf <- AnyJson
    Precision = 8
    MaxExponent = 9
    MaxLines = 2
    Languages <- OnlyTypeScript
    Members <- UnusualMembers
    Alterations <- NoAlteration
    Rewritings <- NoAlteration
    Forgeries <- NoAlteration
    MaxEdits = 2
    MaxAlterations = 0
    MaxAttempts = 1
SPECIFICATION Spec
CHECK_DEADLOCK FALSE
INVARIANTS
    SignedVerifies

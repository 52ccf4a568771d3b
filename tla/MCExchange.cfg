\* Ordinary documents, a retry, edits between attempts, and one alteration on the way.
CONSTANTS
    FormOf <- AnyForm
    JsonOf <- AnyJson
    Precision = 8
    MaxExponent = 9
    MaxLines = 2
    Languages <- AllLanguages
    Members <- PlainMembers
    Alterations <- AnyAlteration
    Rewritings <- AnyRewriting
    Forgeries <- AnyForgery
    MaxEdits = 2
    MaxAlterations = 1
    MaxAttempts = 2
SPECIFICATION Spec
CHECK_DEADLOCK FALSE
INVARIANTS
    Authentic
    SignedVerifies
    BindingNeutral
    FormsTell

-------------------------------- MODULE Wire --------------------------------
(***************************************************************************)
(* JSON values, up to what the validator of acn_standard tells apart, and  *)
(* the outcome of its checks.  A string is known by its form (what the     *)
(* patterns see) and its length; an object is a function from its keys.    *)
(***************************************************************************)
EXTENDS Integers, Sequences

CONSTANTS
    Precision,    \* significant digits of the Decimal context (28)
    MaxExponent,  \* exponent of the largest power of ten in it (999999)
    MaxLines      \* most elements of a list of lines (500)

ASSUME PrecisionAssumption == Precision \in Nat \ {0}
ASSUME MaxExponentAssumption == MaxExponent \in Nat
ASSUME MaxLinesAssumption == MaxLines \in Nat \ {0}

Absent    == [type |-> "absent"]
Null      == [type |-> "null"]
Number    == [type |-> "number"]                  \* any but 0
Bool(b)   == [type |-> "boolean", is |-> b]
List(s)   == [type |-> "array", items |-> s]
Object(f) == [type |-> "object", fields |-> f]

String(form, n) == [type |-> "string", form |-> form, len |-> n]
Text(n)     == String("text", n)
MessageRef  == String("message", 20)              \* ^msg_[A-Za-z0-9_-]{8,128}$
Transaction == String("transaction", 20)          \* ^txn_...
Agent(a)    == [type |-> "string", form |-> "agent", len |-> 20, who |-> a]
Code        == String("currency", 3)              \* ^[A-Z]{3}$
Version     == String("0.1", 3)
Key(k)      == String(k, 20)                      \* a name with its own pattern
Word(w)     == [type |-> "string", form |-> "word", len |-> 9, word |-> w]
(* A time with an offset, with or without fractional seconds.              *)
TimeAs(t, w) == [type |-> "string", form |-> "time", len |-> 20, at |-> t, written |-> w]
Time(t)     == TimeAs(t, "seconds")
LocalTime   == String("local time", 19)           \* a time without an offset
(* The decimal coef * 10^-places, matched by the patterns for 2 or 6.      *)
Amount(c, p) == [type |-> "string", form |-> "decimal", len |-> 5, coef |-> c, places |-> p]

IsString(v)   == v.type = "string"
Is(v, form)   == IsString(v) /\ v.form = form
IsAmount(v)   == Is(v, "decimal")
Amounts(vs)   == \A i \in DOMAIN vs : IsAmount(vs[i])
Length(v, lo, hi) == IsString(v) /\ v.len \in lo .. hi
Hashable(v)   == v.type \notin {"array", "object"}
Truthy(v)     == v \notin {Absent, Null, Bool(FALSE), Text(0), List(<<>>), Object(<<>>)}

NoFields     == <<>>
Fields(v)    == IF v.type = "object" THEN v.fields ELSE NoFields
Items(v)     == IF v.type = "array" THEN v.items ELSE <<>>
Get(f, k)    == IF k \in DOMAIN f THEN f[k] ELSE Absent
Has(f, k)    == k \in DOMAIN f
Drop(f, K)   == [k \in DOMAIN f \ K |-> f[k]]
Put(f, k, v) == [j \in DOMAIN f \cup {k} |-> IF j = k THEN v ELSE f[j]]
-----------------------------------------------------------------------------
(* Arithmetic of decimal.Decimal in its default context: results are       *)
(* rounded half even to Precision digits, comparisons are exact.           *)
TenTo[n \in Nat] == IF n = 0 THEN 1 ELSE 10 * TenTo[n - 1]
Digits(n) == CHOOSE k \in 1 .. n + 1 : n < TenTo[k] /\ (k = 1 \/ n >= TenTo[k - 1])

Rounded(d) ==
    LET unit == TenTo[Digits(d.coef) - Precision]
        kept == d.coef \div unit
        rest == 2 * (d.coef % unit)
        up   == rest > unit \/ (rest = unit /\ kept % 2 = 1)
    IN IF Digits(d.coef) <= Precision THEN d
       ELSE Amount(unit * (IF up THEN kept + 1 ELSE kept), d.places)

Scaled(d, p)    == d.coef * TenTo[p - d.places]
Wider(x, y)     == IF x.places > y.places THEN x.places ELSE y.places
ExactSum(x, y)  == Amount(Scaled(x, Wider(x, y)) + Scaled(y, Wider(x, y)), Wider(x, y))
ExactProduct(x, y) == Amount(x.coef * y.coef, x.places + y.places)
Same(x, y)      == Scaled(x, Wider(x, y)) = Scaled(y, Wider(x, y))

Plus(x, y)  == Rounded(ExactSum(x, y))
Times(x, y) == Rounded(ExactProduct(x, y))

(* A result of 10^(MaxExponent + 1) or more raises decimal.Overflow.       *)
Overflows(d) == Digits(d.coef) > MaxExponent + 1 + d.places

Zero == Amount(0, 0)
(* Sums of the amounts of a sequence, added in its order.                  *)
Total(s) ==
    LET sum[n \in 0 .. Len(s)] == IF n = 0 THEN Zero ELSE Plus(sum[n - 1], s[n])
    IN sum[Len(s)]
ExactTotal(s) ==
    LET sum[n \in 0 .. Len(s)] == IF n = 0 THEN Zero ELSE ExactSum(sum[n - 1], s[n])
    IN sum[Len(s)]
-----------------------------------------------------------------------------
(* A check passes, raises ContractError, or raises something else.         *)
Passed  == "passed"
Refused == "refused"
Crashed == "crashed"
Outcomes == {Passed, Refused, Crashed}

Require(condition) == IF condition THEN Passed ELSE Refused

(* The outcome of checks made one after the other.                         *)
First(checks) ==
    IF \A i \in DOMAIN checks : checks[i] = Passed THEN Passed
    ELSE checks[CHOOSE i \in DOMAIN checks :
                  checks[i] # Passed /\ \A j \in 1 .. i - 1 : checks[j] = Passed]

(* Arithmetic on amounts; decimal.Overflow is not a ContractError.         *)
Computed(amounts, result) ==
    IF Amounts(amounts) /\ Overflows(result) THEN Crashed ELSE Passed

Each(s, Op(_)) == First([i \in 1 .. Len(s) |-> Op(i)])

(* "value in {...}" hashes the value before it compares.                   *)
In(v, words) ==
    IF ~Hashable(v) THEN Crashed ELSE Require(Is(v, "word") /\ v.word \in words)

(* pattern.fullmatch(value) of a value that need not be a string.          *)
Match(v, form) == IF ~IsString(v) THEN Crashed ELSE Require(v.form = form)

(* Defect: fields the document does not define are let through.            *)
ExactFieldsOpen(d, required, optional) == Require(required \subseteq DOMAIN d)

ExactFields(d, required, optional) ==
    Require(required \subseteq DOMAIN d /\ DOMAIN d \subseteq required \cup optional)

Nonempty(d, k, max) == Require(Length(Get(d, k), 1, max))
OptionalText(d, k, max) == IF Has(d, k) THEN Nonempty(d, k, max) ELSE Passed
(* Defect: the value goes to the pattern as it is, without str().          *)
ReferenceAsIs(d, k) == Match(Get(d, k), "message")

Reference(d, k)  == Require(Is(Get(d, k), "message"))
Currency(d)      == Require(Is(Get(d, "currency"), "currency"))
Timestamp(d, k)  == Require(Is(Get(d, k), "time"))
After(d, k, t)   == Require(Is(Get(d, k), "time") /\ Get(d, k).at > t)

Decimal(d, k, places)  == Require(IsAmount(Get(d, k)) /\ Get(d, k).places <= places)
Positive(d, k, places) == Require(/\ IsAmount(Get(d, k))
                                  /\ Get(d, k).places <= places /\ Get(d, k).coef > 0)
=============================================================================

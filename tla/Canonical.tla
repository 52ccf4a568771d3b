------------------------------ MODULE Canonical ------------------------------
(***************************************************************************)
(* What the two SDKs sign, and what they put on the wire.                  *)
(***************************************************************************)
EXTENDS Security

(* A number by its value, and whether it is a float that Python writes in  *)
(* digits of its own; 0.5 and most short floats are written alike, and so  *)
(* are no floats here.                                                     *)
NumberOf(v, float) == [type |-> "number", value |-> v, float |-> float]
Whole     == NumberOf("1", FALSE)
WholeReal == NumberOf("1", TRUE)                  \* 1.0
Tiny      == NumberOf("1e-7", TRUE)
Undefined == [type |-> "undefined"]               \* only in TypeScript
Date(t)   == [type |-> "date", at |-> t]          \* only in TypeScript

(* Python writes 1.0 and 1e-07 where TypeScript writes 1 and 1e-7.         *)
Written(language, n) ==
    IF language = Python
    THEN [type |-> "digits", value |-> n.value, real |-> n.float]
    ELSE [type |-> "digits", value |-> n.value, real |-> FALSE]

(* Keys outside the BMP sort after all others by code point, but before    *)
(* those above the surrogates by UTF-16 code unit.                         *)
Astral  == {"astral"}
HighBMP == {"high"}
Rank(language, k) ==
    IF k \in Astral THEN (IF language = Python THEN 2 ELSE 0)
    ELSE IF k \in HighBMP THEN 1 ELSE -1
Order(language, keys) == {p \in keys \X keys : Rank(language, p[1]) < Rank(language, p[2])}

(* Defect: members named signature are left out wherever they are.         *)
SignedAnywhere(language, keys) == keys \ {"signature"}

(* TypeScript leaves out every member named signature.                     *)
SignedKeys(language, keys) ==
    IF language = TypeScript THEN keys \ {"signature"} ELSE keys

(* What is written of a value is made from what is written of its parts.  *)
Parts(v) ==
    CASE v.type = "object" -> v.fields
      [] v.type = "array"  -> v.items
      [] OTHER             -> NoFields

(* canonical, and json.dumps with sorted keys; a date has no members.      *)
Form(language, v, parts) ==
    CASE v.type = "object" ->
           LET keys == SignedKeys(language, DOMAIN v.fields)
           IN [type |-> "members", order |-> Order(language, keys),
               members |-> [k \in keys |-> parts[k]]]
      [] v.type = "array"  -> [type |-> "elements", elements |-> parts]
      [] v.type = "date"   -> [type |-> "members", order |-> {}, members |-> NoFields]
      [] v.type = "number" -> Written(language, v)
      [] OTHER             -> v

(* The value a Python peer parses from the JSON of v.                      *)
Json(language, v, parts) ==
    CASE v.type = "object" ->
           Object([k \in {j \in DOMAIN v.fields : v.fields[j] # Undefined} |-> parts[k]])
      [] v.type = "array"  -> List(parts)
      [] v.type = "date"   -> TimeAs(v.at, "millis")
      [] v.type = "number" -> IF language = TypeScript /\ v.value = "1" THEN Whole ELSE v
      [] OTHER             -> v

=============================================================================

------------------------------ MODULE CheckProofs ------------------------------
(***************************************************************************)
(* The outcome of checks made one after the other, which every validator   *)
(* and both bindings are built from: First of n checks passes exactly when *)
(* all pass, and raises what the first check that does not pass raises.    *)
(* Then what validate_envelope has checked of an envelope it accepts, and  *)
(* the decimal arithmetic of its totals.                                   *)
(***************************************************************************)
EXTENDS Validation, WellFoundedInduction, TLAPS

(* A set of natural numbers that is not empty has a least element.         *)
LEMMA LeastNumber ==
  ASSUME NEW S, S \subseteq Nat, S # {}
  PROVE  \E n \in S : \A m \in S : n <= m
<1> DEFINE R == OpToRel(<, Nat)
<1>1. IsWellFoundedOn(R, Nat)
  BY NatLessThanWellFounded
<1>2. \A x, y \in Nat : <<y, x>> \in R <=> y < x
  BY DEF OpToRel
<1> HIDE DEF R
<1>3. PICK x \in S : \A y \in S : ~ (<<y, x>> \in R)
  BY <1>1, WFMin
<1>4. \A y \in S : x \in Nat /\ y \in Nat /\ ~ (y < x)
  BY <1>2, <1>3
<1>5. \A y \in S : x <= y
  BY <1>4
<1> QED BY <1>5

(* Of checks that do not all pass, First is the first that does not pass.  *)
LEMMA FirstChoice ==
  ASSUME NEW n \in Nat, NEW checks, DOMAIN checks = 1 .. n,
         ~ \A i \in 1 .. n : checks[i] = Passed
  PROVE  \E i \in 1 .. n : /\ checks[i] # Passed /\ First(checks) = checks[i]
                           /\ \A j \in 1 .. i - 1 : checks[j] = Passed
<1> DEFINE S == {i \in 1 .. n : checks[i] # Passed}
           P(i) == checks[i] # Passed /\ \A j \in 1 .. i - 1 : checks[j] = Passed
<1>1. S \subseteq Nat /\ S # {}
  OBVIOUS
<1>2. PICK m \in S : \A k \in S : m <= k
  <2> HIDE DEF S
  <2> QED BY <1>1, LeastNumber
<1>3. m \in DOMAIN checks /\ P(m)
  BY <1>2
<1>4. First(checks) = checks[CHOOSE i \in DOMAIN checks : P(i)]
  BY DEF First
<1>5. /\ (CHOOSE i \in DOMAIN checks : P(i)) \in DOMAIN checks
      /\ P(CHOOSE i \in DOMAIN checks : P(i))
  BY <1>3
<1> QED BY <1>4, <1>5

LEMMA FirstPassed ==
  ASSUME NEW n \in Nat, NEW checks, DOMAIN checks = 1 .. n
  PROVE  First(checks) = Passed <=> \A i \in 1 .. n : checks[i] = Passed
BY FirstChoice, ZenonT(60) DEF First

LEMMA FirstAt ==
  ASSUME NEW n \in Nat, NEW checks, DOMAIN checks = 1 .. n, NEW k \in 1 .. n,
         checks[k] # Passed, \A j \in 1 .. k - 1 : checks[j] = Passed
  PROVE  First(checks) = checks[k]
<1>1. PICK i \in 1 .. n : /\ checks[i] # Passed /\ First(checks) = checks[i]
                          /\ \A j \in 1 .. i - 1 : checks[j] = Passed
  BY FirstChoice
<1>2. i = k
  BY <1>1
<1> QED BY <1>1, <1>2

LEMMA FirstCrashed ==
  ASSUME NEW n \in Nat, NEW checks, DOMAIN checks = 1 .. n, First(checks) = Crashed
  PROVE  \E i \in 1 .. n : checks[i] = Crashed /\ \A j \in 1 .. i - 1 : checks[j] = Passed
BY FirstChoice, FirstPassed DEF Passed, Crashed

(* A crash is that of the first check, or comes after it passed.           *)
LEMMA FirstOrLater ==
  ASSUME NEW n \in Nat, NEW checks, DOMAIN checks = 1 .. n, First(checks) = Crashed
  PROVE  \/ checks[1] = Crashed
         \/ checks[1] = Passed /\ \E i \in 2 .. n : checks[i] = Crashed
<1>1. PICK i \in 1 .. n : checks[i] = Crashed /\ \A j \in 1 .. i - 1 : checks[j] = Passed
  BY FirstCrashed
<1>2. i # 1 => 1 \in 1 .. i - 1 /\ i \in 2 .. n
  OBVIOUS
<1> QED BY <1>1, <1>2

(* What a check returns that raises nothing but ContractError.             *)
LEMMA RequireSafe ==
  /\ \A condition : Require(condition) # Crashed
  /\ Passed # Crashed
BY DEF Require, Passed, Refused, Crashed
-----------------------------------------------------------------------------
(* The same for the lists of checks as the validators write them.          *)
LEMMA First2 ==
  ASSUME NEW c1, NEW c2
  PROVE  /\ First(<<c1, c2>>) = Passed <=>
            c1 = Passed /\ c2 = Passed
         /\ First(<<c1, c2>>) = Crashed =>
            c1 = Crashed \/ (c1 = Passed /\ Crashed \in {c2})
<1> DEFINE s == <<c1, c2>>
<1>1. /\ DOMAIN s = 1 .. 2
      /\ s[1] = c1 /\ s[2] = c2
  OBVIOUS
<1> HIDE DEF s
<1>2. First(s) = Passed <=> \A i \in 1 .. 2 : s[i] = Passed
  BY <1>1, FirstPassed
<1>3. First(s) = Crashed => s[1] = Crashed \/ (s[1] = Passed /\ \E i \in 2 .. 2 : s[i] = Crashed)
  BY <1>1, FirstOrLater
<1> QED BY <1>1, <1>2, <1>3 DEF s

LEMMA First3 ==
  ASSUME NEW c1, NEW c2, NEW c3
  PROVE  /\ First(<<c1, c2, c3>>) = Passed <=>
            c1 = Passed /\ c2 = Passed /\ c3 = Passed
         /\ First(<<c1, c2, c3>>) = Crashed =>
            c1 = Crashed \/ (c1 = Passed /\ Crashed \in {c2, c3})
<1> DEFINE s == <<c1, c2, c3>>
<1>1. /\ DOMAIN s = 1 .. 3
      /\ s[1] = c1 /\ s[2] = c2 /\ s[3] = c3
  OBVIOUS
<1> HIDE DEF s
<1>2. First(s) = Passed <=> \A i \in 1 .. 3 : s[i] = Passed
  BY <1>1, FirstPassed
<1>3. First(s) = Crashed => s[1] = Crashed \/ (s[1] = Passed /\ \E i \in 2 .. 3 : s[i] = Crashed)
  BY <1>1, FirstOrLater
<1> QED BY <1>1, <1>2, <1>3 DEF s

LEMMA First4 ==
  ASSUME NEW c1, NEW c2, NEW c3, NEW c4
  PROVE  /\ First(<<c1, c2, c3, c4>>) = Passed <=>
            c1 = Passed /\ c2 = Passed /\ c3 = Passed /\ c4 = Passed
         /\ First(<<c1, c2, c3, c4>>) = Crashed =>
            c1 = Crashed \/ (c1 = Passed /\ Crashed \in {c2, c3, c4})
<1> DEFINE s == <<c1, c2, c3, c4>>
<1>1. /\ DOMAIN s = 1 .. 4
      /\ s[1] = c1 /\ s[2] = c2 /\ s[3] = c3 /\ s[4] = c4
  OBVIOUS
<1> HIDE DEF s
<1>2. First(s) = Passed <=> \A i \in 1 .. 4 : s[i] = Passed
  BY <1>1, FirstPassed
<1>3. First(s) = Crashed => s[1] = Crashed \/ (s[1] = Passed /\ \E i \in 2 .. 4 : s[i] = Crashed)
  BY <1>1, FirstOrLater
<1> QED BY <1>1, <1>2, <1>3 DEF s

LEMMA First5 ==
  ASSUME NEW c1, NEW c2, NEW c3, NEW c4, NEW c5
  PROVE  /\ First(<<c1, c2, c3, c4, c5>>) = Passed <=>
            c1 = Passed /\ c2 = Passed /\ c3 = Passed /\ c4 = Passed /\
            c5 = Passed
         /\ First(<<c1, c2, c3, c4, c5>>) = Crashed =>
            c1 = Crashed \/ (c1 = Passed /\ Crashed \in {c2, c3, c4, c5})
<1> DEFINE s == <<c1, c2, c3, c4, c5>>
<1>1. /\ DOMAIN s = 1 .. 5
      /\ s[1] = c1 /\ s[2] = c2 /\ s[3] = c3 /\ s[4] = c4 /\ s[5] = c5
  OBVIOUS
<1> HIDE DEF s
<1>2. First(s) = Passed <=> \A i \in 1 .. 5 : s[i] = Passed
  BY <1>1, FirstPassed
<1>3. First(s) = Crashed => s[1] = Crashed \/ (s[1] = Passed /\ \E i \in 2 .. 5 : s[i] = Crashed)
  BY <1>1, FirstOrLater
<1> QED BY <1>1, <1>2, <1>3 DEF s

LEMMA First6 ==
  ASSUME NEW c1, NEW c2, NEW c3, NEW c4, NEW c5, NEW c6
  PROVE  /\ First(<<c1, c2, c3, c4, c5, c6>>) = Passed <=>
            c1 = Passed /\ c2 = Passed /\ c3 = Passed /\ c4 = Passed /\
            c5 = Passed /\ c6 = Passed
         /\ First(<<c1, c2, c3, c4, c5, c6>>) = Crashed =>
            c1 = Crashed \/ (c1 = Passed /\ Crashed \in {c2, c3, c4, c5, c6})
<1> DEFINE s == <<c1, c2, c3, c4, c5, c6>>
<1>1. /\ DOMAIN s = 1 .. 6
      /\ s[1] = c1 /\ s[2] = c2 /\ s[3] = c3 /\ s[4] = c4 /\ s[5] = c5 /\
        s[6] = c6
  OBVIOUS
<1> HIDE DEF s
<1>2. First(s) = Passed <=> \A i \in 1 .. 6 : s[i] = Passed
  BY <1>1, FirstPassed
<1>3. First(s) = Crashed => s[1] = Crashed \/ (s[1] = Passed /\ \E i \in 2 .. 6 : s[i] = Crashed)
  BY <1>1, FirstOrLater
<1> QED BY <1>1, <1>2, <1>3 DEF s

LEMMA First7 ==
  ASSUME NEW c1, NEW c2, NEW c3, NEW c4, NEW c5, NEW c6, NEW c7
  PROVE  /\ First(<<c1, c2, c3, c4, c5, c6, c7>>) = Passed <=>
            c1 = Passed /\ c2 = Passed /\ c3 = Passed /\ c4 = Passed /\
            c5 = Passed /\ c6 = Passed /\ c7 = Passed
         /\ First(<<c1, c2, c3, c4, c5, c6, c7>>) = Crashed =>
            c1 = Crashed \/ (c1 = Passed /\ Crashed \in {c2, c3, c4, c5, c6, c7})
<1> DEFINE s == <<c1, c2, c3, c4, c5, c6, c7>>
<1>1. /\ DOMAIN s = 1 .. 7
      /\ s[1] = c1 /\ s[2] = c2 /\ s[3] = c3 /\ s[4] = c4 /\ s[5] = c5 /\
        s[6] = c6 /\ s[7] = c7
  OBVIOUS
<1> HIDE DEF s
<1>2. First(s) = Passed <=> \A i \in 1 .. 7 : s[i] = Passed
  BY <1>1, FirstPassed
<1>3. First(s) = Crashed => s[1] = Crashed \/ (s[1] = Passed /\ \E i \in 2 .. 7 : s[i] = Crashed)
  BY <1>1, FirstOrLater
<1> QED BY <1>1, <1>2, <1>3 DEF s

LEMMA First8 ==
  ASSUME NEW c1, NEW c2, NEW c3, NEW c4, NEW c5, NEW c6, NEW c7, NEW c8
  PROVE  /\ First(<<c1, c2, c3, c4, c5, c6, c7, c8>>) = Passed <=>
            c1 = Passed /\ c2 = Passed /\ c3 = Passed /\ c4 = Passed /\
            c5 = Passed /\ c6 = Passed /\ c7 = Passed /\ c8 = Passed
         /\ First(<<c1, c2, c3, c4, c5, c6, c7, c8>>) = Crashed =>
            c1 = Crashed \/ (c1 = Passed /\ Crashed \in {c2, c3, c4, c5, c6, c7, c8})
<1> DEFINE s == <<c1, c2, c3, c4, c5, c6, c7, c8>>
<1>1. /\ DOMAIN s = 1 .. 8
      /\ s[1] = c1 /\ s[2] = c2 /\ s[3] = c3 /\ s[4] = c4 /\ s[5] = c5 /\
        s[6] = c6 /\ s[7] = c7 /\ s[8] = c8
  OBVIOUS
<1> HIDE DEF s
<1>2. First(s) = Passed <=> \A i \in 1 .. 8 : s[i] = Passed
  BY <1>1, FirstPassed
<1>3. First(s) = Crashed => s[1] = Crashed \/ (s[1] = Passed /\ \E i \in 2 .. 8 : s[i] = Crashed)
  BY <1>1, FirstOrLater
<1> QED BY <1>1, <1>2, <1>3 DEF s

LEMMA First9 ==
  ASSUME NEW c1, NEW c2, NEW c3, NEW c4, NEW c5, NEW c6, NEW c7, NEW c8,
         NEW c9
  PROVE  /\ First(<<c1, c2, c3, c4, c5, c6, c7, c8, c9>>) = Passed <=>
            c1 = Passed /\ c2 = Passed /\ c3 = Passed /\ c4 = Passed /\
            c5 = Passed /\ c6 = Passed /\ c7 = Passed /\ c8 = Passed /\
            c9 = Passed
         /\ First(<<c1, c2, c3, c4, c5, c6, c7, c8, c9>>) = Crashed =>
            c1 = Crashed \/ (c1 = Passed /\ Crashed \in {c2, c3, c4, c5, c6, c7, c8, c9})
<1> DEFINE s == <<c1, c2, c3, c4, c5, c6, c7, c8, c9>>
<1>1. /\ DOMAIN s = 1 .. 9
      /\ s[1] = c1 /\ s[2] = c2 /\ s[3] = c3 /\ s[4] = c4 /\ s[5] = c5 /\
        s[6] = c6 /\ s[7] = c7 /\ s[8] = c8 /\ s[9] = c9
  OBVIOUS
<1> HIDE DEF s
<1>2. First(s) = Passed <=> \A i \in 1 .. 9 : s[i] = Passed
  BY <1>1, FirstPassed
<1>3. First(s) = Crashed => s[1] = Crashed \/ (s[1] = Passed /\ \E i \in 2 .. 9 : s[i] = Crashed)
  BY <1>1, FirstOrLater
<1> QED BY <1>1, <1>2, <1>3 DEF s

LEMMA First10 ==
  ASSUME NEW c1, NEW c2, NEW c3, NEW c4, NEW c5, NEW c6, NEW c7, NEW c8,
         NEW c9, NEW c10
  PROVE  /\ First(<<c1, c2, c3, c4, c5, c6, c7, c8, c9, c10>>) = Passed <=>
            c1 = Passed /\ c2 = Passed /\ c3 = Passed /\ c4 = Passed /\
            c5 = Passed /\ c6 = Passed /\ c7 = Passed /\ c8 = Passed /\
            c9 = Passed /\ c10 = Passed
         /\ First(<<c1, c2, c3, c4, c5, c6, c7, c8, c9, c10>>) = Crashed =>
            c1 = Crashed \/ (c1 = Passed /\ Crashed \in {c2, c3, c4, c5, c6, c7, c8, c9, c10})
<1> DEFINE s == <<c1, c2, c3, c4, c5, c6, c7, c8, c9, c10>>
<1>1. /\ DOMAIN s = 1 .. 10
      /\ s[1] = c1 /\ s[2] = c2 /\ s[3] = c3 /\ s[4] = c4 /\ s[5] = c5 /\
        s[6] = c6 /\ s[7] = c7 /\ s[8] = c8 /\ s[9] = c9 /\ s[10] = c10
  OBVIOUS
<1> HIDE DEF s
<1>2. First(s) = Passed <=> \A i \in 1 .. 10 : s[i] = Passed
  BY <1>1, FirstPassed
<1>3. First(s) = Crashed => s[1] = Crashed \/ (s[1] = Passed /\ \E i \in 2 .. 10 : s[i] = Crashed)
  BY <1>1, FirstOrLater
<1> QED BY <1>1, <1>2, <1>3 DEF s

LEMMA First11 ==
  ASSUME NEW c1, NEW c2, NEW c3, NEW c4, NEW c5, NEW c6, NEW c7, NEW c8,
         NEW c9, NEW c10, NEW c11
  PROVE  /\ First(<<c1, c2, c3, c4, c5, c6, c7, c8, c9, c10, c11>>) = Passed <=>
            c1 = Passed /\ c2 = Passed /\ c3 = Passed /\ c4 = Passed /\
            c5 = Passed /\ c6 = Passed /\ c7 = Passed /\ c8 = Passed /\
            c9 = Passed /\ c10 = Passed /\ c11 = Passed
         /\ First(<<c1, c2, c3, c4, c5, c6, c7, c8, c9, c10, c11>>) = Crashed =>
            c1 = Crashed \/ (c1 = Passed /\ Crashed \in {c2, c3, c4, c5, c6, c7, c8, c9, c10, c11})
<1> DEFINE s == <<c1, c2, c3, c4, c5, c6, c7, c8, c9, c10, c11>>
<1>1. /\ DOMAIN s = 1 .. 11
      /\ s[1] = c1 /\ s[2] = c2 /\ s[3] = c3 /\ s[4] = c4 /\ s[5] = c5 /\
        s[6] = c6 /\ s[7] = c7 /\ s[8] = c8 /\ s[9] = c9 /\ s[10] = c10 /\
        s[11] = c11
  OBVIOUS
<1> HIDE DEF s
<1>2. First(s) = Passed <=> \A i \in 1 .. 11 : s[i] = Passed
  BY <1>1, FirstPassed
<1>3. First(s) = Crashed => s[1] = Crashed \/ (s[1] = Passed /\ \E i \in 2 .. 11 : s[i] = Crashed)
  BY <1>1, FirstOrLater
<1> QED BY <1>1, <1>2, <1>3 DEF s

(* The last of 17 is reached only if all others passed.                    *)
LEMMA First17 ==
  ASSUME NEW c1, NEW c2, NEW c3, NEW c4, NEW c5, NEW c6, NEW c7, NEW c8,
         NEW c9, NEW c10, NEW c11, NEW c12, NEW c13, NEW c14, NEW c15,
         NEW c16, NEW c17
  PROVE  LET s == <<c1, c2, c3, c4, c5, c6, c7, c8, c9, c10, c11, c12, c13,
                     c14, c15, c16, c17>>
         IN /\ First(s) = Passed <=>
               c1 = Passed /\ c2 = Passed /\ c3 = Passed /\ c4 = Passed /\
               c5 = Passed /\ c6 = Passed /\ c7 = Passed /\ c8 = Passed /\
               c9 = Passed /\ c10 = Passed /\ c11 = Passed /\ c12 = Passed /\
               c13 = Passed /\ c14 = Passed /\ c15 = Passed /\ c16 = Passed /\
               c17 = Passed
            /\ First(s) = Crashed =>
               \/ Crashed \in {c1, c2, c3, c4, c5, c6, c7, c8, c9, c10, c11, c12,
                        c13, c14, c15, c16}
               \/ c17 = Crashed /\ \A i \in 1 .. 16 : s[i] = Passed
<1> DEFINE s == <<c1, c2, c3, c4, c5, c6, c7, c8, c9, c10, c11, c12, c13,
                 c14, c15, c16, c17>>
<1>1. /\ DOMAIN s = 1 .. 17
      /\ s[1] = c1 /\ s[2] = c2 /\ s[3] = c3 /\ s[4] = c4 /\ s[5] = c5 /\
        s[6] = c6 /\ s[7] = c7 /\ s[8] = c8 /\ s[9] = c9 /\ s[10] = c10 /\
        s[11] = c11 /\ s[12] = c12 /\ s[13] = c13 /\ s[14] = c14 /\
        s[15] = c15 /\ s[16] = c16 /\ s[17] = c17
  OBVIOUS
<1> HIDE DEF s
<1>2. First(s) = Passed <=> \A i \in 1 .. 17 : s[i] = Passed
  BY <1>1, FirstPassed
<1>3. ASSUME First(s) = Crashed
      PROVE  (\E i \in 1 .. 16 : s[i] = Crashed) \/ (s[17] = Crashed /\ \A i \in 1 .. 16 : s[i] = Passed)
  <2>1. PICK i \in 1 .. 17 : s[i] = Crashed /\ \A j \in 1 .. i - 1 : s[j] = Passed
    BY <1>1, <1>3, FirstCrashed
  <2> QED BY <2>1
<1> QED BY <1>1, <1>2, <1>3 DEF s
-----------------------------------------------------------------------------
(* The checks an accepted envelope has passed.                             *)
LEMMA EnvelopeChecks ==
  ASSUME NEW e
  PROVE  LET extensions == IF Has(e, "extensions") THEN e["extensions"] ELSE Object(NoFields)
             created == Get(e, "createdAt")
             type    == Get(e, "documentType")
         IN ValidateEnvelope(Object(e)) = Passed <=>
            /\ Known(e, EnvelopeFields) = Passed
            /\ Get(e, "specVersion") = Version
            /\ Reference(e, "messageId") = Passed
            /\ Is(Get(e, "transactionId"), "transaction")
            /\ Is(Get(e, "sender"), "agent") /\ Is(Get(e, "recipient"), "agent")
            /\ Get(e, "sender") # Get(e, "recipient")
            /\ Nonempty(e, "idempotencyKey", 255) = Passed
            /\ Is(created, "time")
            /\ After(e, "expiresAt", created.at) = Passed
            /\ Get(e, "document").type = "object"
            /\ extensions.type = "object" /\ "unnamespaced" \notin DOMAIN Fields(extensions)
            /\ NetworkExtension(Get(Fields(extensions), "acn.network"), type) = Passed
            /\ Is(type, "word") /\ type.word \in ReplyDocuments \cup {"request_for_quote"}
            /\ Dispatch(e, created.at) = Passed
<1> DEFINE extensions == IF Has(e, "extensions") THEN e["extensions"] ELSE Object(NoFields)
           created == Get(e, "createdAt")
           type    == Get(e, "documentType")
           network == NetworkExtension(Get(Fields(extensions), "acn.network"), type)
           expires == IF Is(created, "time") THEN After(e, "expiresAt", created.at) ELSE Refused
           last    == IF Is(created, "time") /\ Is(type, "word")
                         /\ type.word \in ReplyDocuments \cup {"request_for_quote"}
                      THEN Dispatch(e, created.at) ELSE Passed
<1>1. ValidateEnvelope(Object(e)) = First(<<
        Require(Object(e).type = "object"), Known(e, EnvelopeFields),
        Require(Get(e, "specVersion") = Version),
        Reference(e, "messageId"), Require(Is(Get(e, "transactionId"), "transaction")),
        Require(Is(Get(e, "sender"), "agent")), Require(Is(Get(e, "recipient"), "agent")),
        Require(Get(e, "sender") # Get(e, "recipient")),
        Nonempty(e, "idempotencyKey", 255), Timestamp(e, "createdAt"), expires,
        Require(Get(e, "document").type = "object"), Require(extensions.type = "object"),
        Require("unnamespaced" \notin DOMAIN Fields(extensions)), network,
        In(type, ReplyDocuments \cup {"request_for_quote"}), last>>)
  BY DEF ValidateEnvelope, Object, Fields
<1>2. expires = Passed <=> Is(created, "time") /\ After(e, "expiresAt", created.at) = Passed
  BY DEF Passed, Refused
<1>3. Is(created, "time") /\ Is(type, "word") /\ type.word \in ReplyDocuments \cup {"request_for_quote"}
         => last = Dispatch(e, created.at)
  OBVIOUS
<1>4. In(type, ReplyDocuments \cup {"request_for_quote"}) = Passed
         <=> Is(type, "word") /\ type.word \in ReplyDocuments \cup {"request_for_quote"}
  BY DEF In, Is, IsString, Hashable, Require, Passed, Refused, Crashed
<1>5. Timestamp(e, "createdAt") = Passed <=> Is(created, "time")
  BY DEF Timestamp, Require, Passed, Refused
<1>6. Require(Object(e).type = "object") = Passed
  BY DEF Object, Require
<1> HIDE DEF expires, last, network, extensions, created, type
<1>7. ValidateEnvelope(Object(e)) = Passed <=>
        /\ Known(e, EnvelopeFields) = Passed
        /\ Require(Get(e, "specVersion") = Version) = Passed
        /\ Reference(e, "messageId") = Passed
        /\ Require(Is(Get(e, "transactionId"), "transaction")) = Passed
        /\ Require(Is(Get(e, "sender"), "agent")) = Passed
        /\ Require(Is(Get(e, "recipient"), "agent")) = Passed
        /\ Require(Get(e, "sender") # Get(e, "recipient")) = Passed
        /\ Nonempty(e, "idempotencyKey", 255) = Passed
        /\ Is(created, "time") /\ After(e, "expiresAt", created.at) = Passed
        /\ Require(Get(e, "document").type = "object") = Passed
        /\ Require(extensions.type = "object") = Passed
        /\ Require("unnamespaced" \notin DOMAIN Fields(extensions)) = Passed
        /\ network = Passed
        /\ Is(type, "word") /\ type.word \in ReplyDocuments \cup {"request_for_quote"}
        /\ Dispatch(e, created.at) = Passed
  BY <1>1, <1>2, <1>3, <1>4, <1>5, <1>6, First17
<1> QED BY <1>7 DEF Require, Passed, Refused, network, extensions, created, type

LEMMA DispatchPassed ==
  ASSUME NEW e, NEW created
  PROVE  LET type == e["documentType"].word
         IN Dispatch(e, created) = Passed <=>
            /\ IF type = "request_for_quote" THEN Get(e, "inReplyTo") \in {Absent, Null}
               ELSE Reference(e, "inReplyTo") = Passed
            /\ Validator(type, Fields(Get(e, "document")), created) = Passed
BY First2 DEF Dispatch, Require, Passed, Refused
-----------------------------------------------------------------------------
(* Induction, over a set in the place of a predicate, and the functions    *)
(* that are defined by it.                                                 *)
LEMMA Induction ==
  ASSUME NEW D, D \subseteq Nat, NEW S, \A n \in D : n = 0 \/ n - 1 \in D,
         \A n \in D : n = 0 \/ n - 1 \in S => n \in S
  PROVE  D \subseteq S
<1> SUFFICES ASSUME D \ S # {} PROVE FALSE
  OBVIOUS
<1>1. PICK m \in D \ S : \A n \in D \ S : m <= n
  BY LeastNumber
<1>2. m # 0 => m - 1 \in D /\ m - 1 \notin S
  BY <1>1
<1>3. m # 0 => m <= m - 1
  BY <1>1, <1>2
<1> QED BY <1>1, <1>3

Defined(D, V, base, step) ==
    \E g \in [D -> V] : \A n \in D : g[n] = IF n = 0 THEN base ELSE step[<<n, g[n - 1]>>]

LEMMA RecursiveFunction ==
  ASSUME NEW D, D \subseteq Nat, \A n \in D : n = 0 \/ n - 1 \in D,
         NEW V, NEW base \in V, NEW step \in [D \X V -> V]
  PROVE  Defined(D, V, base, step)
<1> DEFINE Approx(n, h) == /\ h \in [0 .. n -> V]
                           /\ \A i \in 0 .. n : h[i] = IF i = 0 THEN base ELSE step[<<i, h[i - 1]>>]
<1>1. \A n \in D : 0 .. n \subseteq D
  <2> DEFINE S == {n \in D : 0 .. n \subseteq D}
  <2>1. ASSUME NEW n \in D, n = 0 \/ n - 1 \in S PROVE 0 .. n \subseteq D
    <3>1. CASE n = 0
      BY <3>1
    <3>2. CASE n # 0
      <4>1. \A i \in 0 .. n : i = n \/ i \in 0 .. n - 1
        BY <3>2
      <4> QED BY <2>1, <3>2, <4>1
    <3> QED BY <3>1, <3>2
  <2>2. \A n \in D : n = 0 \/ n - 1 \in S => n \in S
    BY <2>1
  <2> HIDE DEF S
  <2>3. D \subseteq S
    BY <2>2, Induction
  <2> QED BY <2>3 DEF S
<1>2. \A n \in D : \E h : Approx(n, h)
  <2> DEFINE S == {n \in D : \E h : Approx(n, h)}
  <2>1. ASSUME NEW n \in D, n = 0 \/ n - 1 \in S PROVE \E h : Approx(n, h)
    <3>1. CASE n = 0
      <4> DEFINE h == [i \in 0 .. n |-> base]
      <4>1. Approx(n, h)
        BY <3>1
      <4> QED BY <4>1
    <3>2. CASE n # 0
      <4>1. n \in Nat /\ n - 1 \in Nat
        BY <3>2
      <4>2. PICK h : Approx(n - 1, h)
        BY <2>1, <3>2
      <4> DEFINE k == [i \in 0 .. n |-> IF i = n THEN step[<<n, h[n - 1]>>] ELSE h[i]]
      <4>3. h[n - 1] \in V /\ step[<<n, h[n - 1]>>] \in V
        BY <4>1, <4>2
      <4>4. \A i \in 0 .. n : i = n \/ i \in 0 .. n - 1
        BY <4>1
      <4>5. k \in [0 .. n -> V]
        BY <4>2, <4>3, <4>4
      <4>6. ASSUME NEW i \in 0 .. n
            PROVE  k[i] = IF i = 0 THEN base ELSE step[<<i, k[i - 1]>>]
        <5>1. CASE i = n
          <6>1. n - 1 \in 0 .. n /\ n - 1 # n
            BY <4>1
          <6>2. k[n - 1] = h[n - 1]
            BY <6>1
          <6> QED BY <3>2, <5>1, <6>2
        <5>2. CASE i # n
          <6>1. i \in 0 .. n - 1 /\ k[i] = h[i]
            BY <4>4, <5>2
          <6>2. i # 0 => i - 1 \in 0 .. n /\ i - 1 # n
            BY <4>1, <6>1
          <6>3. i # 0 => k[i - 1] = h[i - 1]
            BY <6>2
          <6> QED BY <4>2, <6>1, <6>3
        <5> QED BY <5>1, <5>2
      <4> HIDE DEF k
      <4> QED BY <4>5, <4>6
    <3> QED BY <3>1, <3>2
  <2>2. \A n \in D : n = 0 \/ n - 1 \in S => n \in S
    BY <2>1
  <2> HIDE DEF S
  <2>3. D \subseteq S
    BY <2>2, Induction
  <2> QED BY <2>3 DEF S
<1>3. ASSUME NEW n \in D, NEW m \in D, NEW h, NEW k, Approx(n, h), Approx(m, k), n <= m
      PROVE  \A i \in 0 .. n : h[i] = k[i]
  <2> DEFINE S == {i \in 0 .. n : h[i] = k[i]}
  <2>1. \A i \in 0 .. n : i = 0 \/ i - 1 \in 0 .. n
    OBVIOUS
  <2>2. 0 .. n \subseteq Nat /\ n \in Nat /\ m \in Nat
    OBVIOUS
  <2>3. ASSUME NEW i \in 0 .. n, i = 0 \/ i - 1 \in S PROVE h[i] = k[i]
    <3>1. i \in 0 .. m
      BY <1>3, <2>2
    <3> QED BY <1>3, <2>3, <3>1
  <2>4. \A i \in 0 .. n : i = 0 \/ i - 1 \in S => i \in S
    BY <2>3
  <2> HIDE DEF S
  <2>5. 0 .. n \subseteq S
    BY <2>1, <2>2, <2>4, Induction
  <2> QED BY <2>5 DEF S
<1> DEFINE H(n) == CHOOSE h : Approx(n, h)
           g    == [n \in D |-> H(n)[n]]
<1>4. \A n \in D : Approx(n, H(n))
  BY <1>2
<1>5. \A n \in D : n \in 0 .. n
  OBVIOUS
<1>6. g \in [D -> V]
  BY <1>4, <1>5
<1>7. ASSUME NEW n \in D PROVE g[n] = IF n = 0 THEN base ELSE step[<<n, g[n - 1]>>]
  <2>1. g[n] = IF n = 0 THEN base ELSE step[<<n, H(n)[n - 1]>>]
    BY <1>4, <1>5
  <2>2. CASE n # 0
    <3>1. n - 1 \in D /\ n - 1 <= n /\ n - 1 \in 0 .. n - 1
      BY <2>2
    <3> HIDE DEF Approx, H
    <3>2. H(n - 1)[n - 1] = H(n)[n - 1]
      BY <1>3, <1>4, <3>1
    <3> QED BY <2>1, <3>1, <3>2
  <2> QED BY <2>1, <2>2
<1> HIDE DEF g
<1> QED BY <1>6, <1>7 DEF Defined

-----------------------------------------------------------------------------
(* Powers of ten, and the digits of a coefficient.                         *)
LEMMA TenToIs ==
  /\ TenTo \in [Nat -> Nat]
  /\ TenTo[0] = 1
  /\ \A n \in Nat : n # 0 => TenTo[n] = 10 * TenTo[n - 1]
<1> DEFINE step == [x \in Nat \X Nat |-> 10 * x[2]]
<1>1. step \in [Nat \X Nat -> Nat]
  OBVIOUS
<1>2. \A n, v \in Nat : step[<<n, v>>] = 10 * v
  OBVIOUS
<1> HIDE DEF step
<1>3. PICK g \in [Nat -> Nat] : \A n \in Nat : g[n] = IF n = 0 THEN 1 ELSE step[<<n, g[n - 1]>>]
  <2>1. Nat \subseteq Nat /\ (\A n \in Nat : n = 0 \/ n - 1 \in Nat) /\ 1 \in Nat
    OBVIOUS
  <2>2. Defined(Nat, Nat, 1, step)
    BY <1>1, <2>1, RecursiveFunction
  <2> QED BY <2>2 DEF Defined
<1>4. \A n \in Nat : g[n] = IF n = 0 THEN 1 ELSE 10 * g[n - 1]
  <2>1. \A n \in Nat : n # 0 => n - 1 \in Nat /\ g[n - 1] \in Nat
    OBVIOUS
  <2> QED BY <1>2, <1>3, <2>1
<1>5. g = [n \in Nat |-> IF n = 0 THEN 1 ELSE 10 * g[n - 1]]
  BY <1>3, <1>4
<1> DEFINE P(f) == f = [n \in Nat |-> IF n = 0 THEN 1 ELSE 10 * f[n - 1]]
<1>6. P(g)
  BY <1>5
<1>7. TenTo = CHOOSE f : P(f)
  BY DEF TenTo
<1>8. P(TenTo)
  <2> HIDE DEF P
  <2> QED BY <1>6, <1>7
<1>9. \A n \in Nat : TenTo[n] = IF n = 0 THEN 1 ELSE 10 * TenTo[n - 1]
  BY <1>8
<1>10. \A n \in Nat : TenTo[n] \in Nat
  <2> DEFINE S == {n \in Nat : TenTo[n] \in Nat}
  <2>1. \A n \in Nat : n = 0 \/ n - 1 \in S => n \in S
    BY <1>9
  <2>2. \A n \in Nat : n = 0 \/ n - 1 \in Nat
    OBVIOUS
  <2> HIDE DEF S
  <2>3. Nat \subseteq S
    BY <2>1, <2>2, Induction
  <2> QED BY <2>3 DEF S
<1> QED BY <1>8, <1>9, <1>10

LEMMA TenToGrows ==
  ASSUME NEW a \in Nat, NEW b \in Nat
  PROVE  /\ TenTo[a] \in Nat \ {0}
         /\ TenTo[a + b] = TenTo[a] * TenTo[b]
         /\ a <= b => TenTo[a] <= TenTo[b]
<1> DEFINE S == {n \in Nat : TenTo[n] \in Nat \ {0}}
           T == {n \in Nat : TenTo[a + n] = TenTo[a] * TenTo[n]}
<1>1. \A n \in Nat : n = 0 \/ n - 1 \in Nat
  OBVIOUS
<1>2. Nat \subseteq S
  <2>1. \A n \in Nat : n = 0 \/ n - 1 \in S => n \in S
    BY TenToIs
  <2> HIDE DEF S
  <2> QED BY <1>1, <2>1, Induction
<1>3. Nat \subseteq T
  <2>1. ASSUME NEW n \in Nat, n = 0 \/ n - 1 \in T PROVE n \in T
    <3>1. CASE n = 0
      BY <3>1, TenToIs
    <3>2. CASE n # 0
      <4>1. n - 1 \in Nat /\ TenTo[a + (n - 1)] = TenTo[a] * TenTo[n - 1]
        BY <2>1, <3>2
      <4>2. a + n \in Nat /\ a + n # 0 /\ (a + n) - 1 = a + (n - 1)
        BY <3>2
      <4>3. TenTo[a + n] = 10 * TenTo[a + (n - 1)] /\ TenTo[n] = 10 * TenTo[n - 1]
        BY <3>2, <4>2, TenToIs
      <4>4. TenTo[a] \in Nat /\ TenTo[n - 1] \in Nat
        BY <4>1, TenToIs
      <4>5. \A x, y \in Nat : 10 * (x * y) = x * (10 * y)
        OBVIOUS
      <4> QED BY <4>1, <4>3, <4>4, <4>5
    <3> QED BY <3>1, <3>2
  <2>2. \A n \in Nat : n = 0 \/ n - 1 \in T => n \in T
    BY <2>1
  <2> HIDE DEF T
  <2> QED BY <1>1, <2>2, Induction
<1>4. a <= b => TenTo[a] <= TenTo[b]
  <2> SUFFICES ASSUME a <= b PROVE TenTo[a] <= TenTo[b]
    OBVIOUS
  <2>1. b - a \in Nat /\ a + (b - a) = b
    OBVIOUS
  <2>2. TenTo[b] = TenTo[a] * TenTo[b - a]
    BY <1>3, <2>1
  <2>3. TenTo[a] \in Nat /\ TenTo[b - a] \in Nat /\ TenTo[b - a] >= 1
    BY <1>2, <2>1
  <2>4. \A x, y \in Nat : y >= 1 => x <= x * y
    OBVIOUS
  <2> QED BY <2>2, <2>3, <2>4
<1> QED BY <1>2, <1>3, <1>4

LEMMA DigitsAre ==
  ASSUME NEW n \in Nat
  PROVE  /\ Digits(n) \in 1 .. n + 1
         /\ n < TenTo[Digits(n)]
         /\ Digits(n) = 1 \/ n >= TenTo[Digits(n) - 1]
<1> DEFINE P(k) == n < TenTo[k] /\ (k = 1 \/ n >= TenTo[k - 1])
           S == {k \in 1 .. n + 1 : n < TenTo[k]}
<1>1. n < TenTo[n + 1]
  <2> DEFINE T == {k \in Nat : k < TenTo[k]}
  <2>1. \A k \in Nat : k = 0 \/ k - 1 \in T => k \in T
    BY TenToIs
  <2>2. \A k \in Nat : k = 0 \/ k - 1 \in Nat
    OBVIOUS
  <2>3. Nat \subseteq T
    <3> HIDE DEF T
    <3> QED BY <2>1, <2>2, Induction
  <2>4. n + 1 \in T
    BY <2>3
  <2> QED BY <2>4, TenToIs
<1>2. S \subseteq Nat /\ n + 1 \in S
  BY <1>1
<1>3. PICK k \in S : \A j \in S : k <= j
  <2> HIDE DEF S
  <2> QED BY <1>2, LeastNumber
<1>4. k \in 1 .. n + 1 /\ P(k)
  <2>1. CASE k # 1
    <3>1. k - 1 \in 1 .. n + 1 /\ k - 1 \notin S
      BY <1>3, <2>1
    <3>2. TenTo[k - 1] \in Nat
      BY <3>1, TenToIs
    <3> QED BY <1>3, <3>1, <3>2
  <2> QED BY <1>3, <2>1
<1>5. Digits(n) = CHOOSE j \in 1 .. n + 1 : P(j)
  BY DEF Digits
<1>6. Digits(n) \in 1 .. n + 1 /\ P(Digits(n))
  <2> HIDE DEF P
  <2> QED BY <1>4, <1>5
<1> QED BY <1>6

LEMMA FewDigits ==
  ASSUME NEW n \in Nat, NEW p \in Nat \ {0}
  PROVE  Digits(n) <= p <=> n < TenTo[p]
<1> DEFINE k == Digits(n)
<1>1. k \in Nat \ {0} /\ n < TenTo[k] /\ (k = 1 \/ n >= TenTo[k - 1])
  BY DigitsAre
<1> HIDE DEF k
<1>2. CASE k <= p
  <2>1. TenTo[k] <= TenTo[p] /\ TenTo[k] \in Nat /\ TenTo[p] \in Nat
    BY <1>1, <1>2, TenToGrows
  <2>2. n < TenTo[p]
    BY <1>1, <2>1
  <2> QED BY <1>2, <2>2 DEF k
<1>3. CASE k > p
  <2>1. k - 1 \in Nat /\ p <= k - 1
    BY <1>1, <1>3
  <2>2. TenTo[p] <= TenTo[k - 1] /\ TenTo[p] \in Nat /\ TenTo[k - 1] \in Nat
    BY <2>1, TenToGrows
  <2> QED BY <1>1, <1>3, <2>2 DEF k
<1> QED BY <1>1, <1>2, <1>3

-----------------------------------------------------------------------------
(* Decimals of at most w places, compared and added at w places.           *)
Decimals(w) == {Amount(c, p) : c \in Nat, p \in 0 .. w}

LEMMA DecimalsAre ==
  ASSUME NEW w \in Nat
  PROVE  /\ \A c, p : Amount(c, p).coef = c /\ Amount(c, p).places = p
         /\ \A c \in Nat, p \in 0 .. w : Amount(c, p) \in Decimals(w)
         /\ \A x \in Decimals(w) : /\ x.coef \in Nat /\ x.places \in 0 .. w
                                   /\ x = Amount(x.coef, x.places)
BY DEF Decimals, Amount

LEMMA ScaledOn ==
  ASSUME NEW w \in Nat, NEW x \in Decimals(w), NEW m \in x.places .. w
  PROVE  /\ Scaled(x, m) \in Nat /\ TenTo[w - m] \in Nat \ {0}
         /\ Scaled(x, w) = Scaled(x, m) * TenTo[w - m]
<1> DEFINE c == x.coef
           p == x.places
<1>1. c \in Nat /\ p \in 0 .. w /\ m \in Nat
  BY DecimalsAre
<1>2. m - p \in Nat /\ w - m \in Nat /\ (m - p) + (w - m) = w - p
  BY <1>1
<1>3. TenTo[w - p] = TenTo[m - p] * TenTo[w - m]
  BY <1>2, TenToGrows
<1>4. TenTo[m - p] \in Nat /\ TenTo[w - m] \in Nat \ {0}
  BY <1>2, TenToGrows
<1>5. \A a, b, d \in Nat : a * (b * d) = (a * b) * d
  OBVIOUS
<1>6. Scaled(x, w) = c * (TenTo[m - p] * TenTo[w - m]) /\ Scaled(x, m) = c * TenTo[m - p]
  BY <1>3 DEF Scaled
<1> HIDE DEF c, p
<1>7. c * TenTo[m - p] \in Nat
  BY <1>1, <1>4
<1> QED BY <1>1, <1>4, <1>5, <1>6, <1>7

LEMMA SameScaled ==
  ASSUME NEW w \in Nat, NEW x \in Decimals(w), NEW y \in Decimals(w)
  PROVE  Same(x, y) <=> Scaled(x, w) = Scaled(y, w)
<1> DEFINE m == Wider(x, y)
<1>1. m \in x.places .. w /\ m \in y.places .. w
  BY DecimalsAre DEF Wider
<1> HIDE DEF m
<1>2. /\ Scaled(x, m) \in Nat /\ Scaled(y, m) \in Nat /\ TenTo[w - m] \in Nat \ {0}
      /\ Scaled(x, w) = Scaled(x, m) * TenTo[w - m]
      /\ Scaled(y, w) = Scaled(y, m) * TenTo[w - m]
  BY <1>1, ScaledOn
<1>3. \A a, b \in Nat, t \in Nat \ {0} : a * t = b * t <=> a = b
  OBVIOUS
<1>4. Same(x, y) <=> Scaled(x, m) = Scaled(y, m)
  BY DEF Same, m
<1> QED BY <1>2, <1>3, <1>4

LEMMA SumScaled ==
  ASSUME NEW w \in Nat, NEW x \in Decimals(w), NEW y \in Decimals(w)
  PROVE  /\ ExactSum(x, y) \in Decimals(w)
         /\ ExactSum(x, y).places = Wider(x, y)
         /\ ExactSum(x, y).coef = Scaled(x, Wider(x, y)) + Scaled(y, Wider(x, y))
         /\ Scaled(ExactSum(x, y), w) = Scaled(x, w) + Scaled(y, w)
<1> DEFINE m == Wider(x, y)
           z == ExactSum(x, y)
<1>1. m \in x.places .. w /\ m \in y.places .. w /\ m \in 0 .. w
  BY DecimalsAre DEF Wider
<1>2. z = Amount(Scaled(x, m) + Scaled(y, m), m)
  BY DEF ExactSum
<1> HIDE DEF m, z
<1>3. /\ Scaled(x, m) \in Nat /\ Scaled(y, m) \in Nat /\ TenTo[w - m] \in Nat \ {0}
      /\ Scaled(x, w) = Scaled(x, m) * TenTo[w - m]
      /\ Scaled(y, w) = Scaled(y, m) * TenTo[w - m]
  BY <1>1, ScaledOn
<1>4. z \in Decimals(w) /\ z.places = m /\ z.coef = Scaled(x, m) + Scaled(y, m)
  BY <1>1, <1>2, <1>3, DecimalsAre
<1>5. \A a, b, t \in Nat : (a + b) * t = a * t + b * t
  OBVIOUS
<1>6. Scaled(z, w) = (Scaled(x, m) + Scaled(y, m)) * TenTo[w - m]
  BY <1>4 DEF Scaled
<1> QED BY <1>3, <1>4, <1>5, <1>6 DEF m, z

(* A power of ten is the product of a smaller one and of what is left.     *)
LEMMA TenToSplits ==
  ASSUME NEW a \in Nat, NEW b \in Nat, a <= b
  PROVE  /\ TenTo[b] = TenTo[a] * TenTo[b - a]
         /\ TenTo[a] \in Nat \ {0}
         /\ TenTo[b - a] \in Nat \ {0}
<1> DEFINE d == b - a
<1>1. d \in Nat /\ a + d = b
  OBVIOUS
<1> HIDE DEF d
<1>2. TenTo[a + d] = TenTo[a] * TenTo[d]
  BY <1>1, TenToGrows
<1>3. TenTo[a] \in Nat \ {0} /\ TenTo[d] \in Nat \ {0}
  BY <1>1, TenToGrows
<1> QED BY <1>1, <1>2, <1>3 DEF d

(* A number that fits the context is not rounded, however many zeros it    *)
(* ends in.                                                                *)
LEMMA RoundedFits ==
  ASSUME NEW w \in Nat, NEW d \in Decimals(w), NEW k \in Nat, NEW j \in Nat,
         d.coef = k * TenTo[j], k < TenTo[Precision]
  PROVE  Rounded(d) = d
<1> DEFINE c    == d.coef
           e    == Digits(c) - Precision
           unit == TenTo[e]
<1>1. c \in Nat /\ d = Amount(c, d.places) /\ Precision \in Nat \ {0}
  BY DecimalsAre, PrecisionAssumption
<1>2. CASE Digits(c) <= Precision
  BY <1>2 DEF Rounded
<1>3. CASE Digits(c) > Precision
  <2>1. e \in Nat \ {0} /\ Digits(c) \in Nat /\ Digits(c) > 1
    BY <1>1, <1>3, DigitsAre
  <2>2. c >= TenTo[Digits(c) - 1]
    BY <1>1, <2>1, DigitsAre
  <2>3. c < TenTo[Precision + j]
    <3>1. TenTo[Precision + j] = TenTo[Precision] * TenTo[j] /\ TenTo[j] \in Nat \ {0}
          /\ TenTo[Precision] \in Nat
      BY <1>1, TenToGrows
    <3>2. \A a, b \in Nat, t \in Nat \ {0} : a < b => a * t < b * t
      OBVIOUS
    <3> QED BY <3>1, <3>2
  <2>4. e <= j
    <3> SUFFICES ASSUME e > j PROVE FALSE
      BY <2>1
    <3>1. Precision + j <= Digits(c) - 1 /\ Precision + j \in Nat /\ Digits(c) - 1 \in Nat
      BY <1>1, <2>1
    <3>2. TenTo[Precision + j] <= TenTo[Digits(c) - 1]
          /\ TenTo[Precision + j] \in Nat /\ TenTo[Digits(c) - 1] \in Nat
      BY <3>1, TenToGrows
    <3> QED BY <1>1, <2>2, <2>3, <3>2
  <2> DEFINE q == k * TenTo[j - e]
  <2>5. q \in Nat /\ unit \in Nat \ {0} /\ c = unit * q
    <3>1. e \in Nat /\ e <= j
      BY <2>1, <2>4
    <3> HIDE DEF e
    <3>2. TenTo[j] = TenTo[e] * TenTo[j - e] /\ TenTo[j - e] \in Nat /\ TenTo[e] \in Nat \ {0}
      BY <3>1, TenToSplits
    <3>3. \A a, b, t \in Nat : a * (t * b) = t * (a * b)
      OBVIOUS
    <3>4. c = k * (TenTo[e] * TenTo[j - e])
      BY <3>2
    <3> HIDE DEF c
    <3>5. k * TenTo[j - e] \in Nat
      BY <3>2
    <3> QED BY <3>2, <3>3, <3>4, <3>5
  <2> HIDE DEF q, unit, c
  <2>6. c \div unit = q /\ c % unit = 0
    <3>1. \A a, t : a \in Nat /\ t \in Nat \ {0} => (t * a) \div t = a /\ (t * a) % t = 0
      OBVIOUS
    <3> QED BY <2>5, <3>1
  <2>7. Rounded(d) = LET kept == c \div unit
                         rest == 2 * (c % unit)
                         up   == rest > unit \/ (rest = unit /\ kept % 2 = 1)
                     IN Amount(unit * (IF up THEN kept + 1 ELSE kept), d.places)
    <3>1. ~ (Digits(c) <= Precision)
      BY <1>1, <1>3, DigitsAre
    <3> QED BY <3>1 DEF Rounded, unit, c
  <2>8. ~ (2 * (c % unit) > unit) /\ 2 * (c % unit) # unit
    BY <2>5, <2>6
  <2>9. Rounded(d) = Amount(unit * q, d.places)
    BY <2>6, <2>7, <2>8
  <2> QED BY <1>1, <2>5, <2>9
<1>4. Digits(c) \in Nat
  BY <1>1, DigitsAre
<1> QED BY <1>1, <1>2, <1>3, <1>4

LEMMA RoundedIs ==
  ASSUME NEW w \in Nat, NEW d \in Decimals(w)
  PROVE  Rounded(d) \in Decimals(w)
<1> DEFINE c    == d.coef
           e    == Digits(c) - Precision
           unit == TenTo[e]
           kept == c \div unit
           up   == 2 * (c % unit) > unit \/ (2 * (c % unit) = unit /\ kept % 2 = 1)
<1>1. c \in Nat /\ d.places \in 0 .. w /\ Precision \in Nat
  BY DecimalsAre, PrecisionAssumption
<1>2. Digits(c) \in Nat
  BY <1>1, DigitsAre
<1>3. CASE Digits(c) <= Precision
  BY <1>3 DEF Rounded
<1>4. CASE Digits(c) > Precision
  <2>1. e \in Nat
    BY <1>1, <1>2, <1>4
  <2>2. unit \in Nat \ {0}
    BY <2>1, TenToGrows
  <2>3. Rounded(d) = Amount(unit * (IF up THEN kept + 1 ELSE kept), d.places)
    <3>1. ~ (Digits(c) <= Precision)
      BY <1>1, <1>2, <1>4
    <3> QED BY <3>1 DEF Rounded
  <2> HIDE DEF c, unit
  <2>4. kept \in Nat
    BY <1>1, <2>2
  <2> HIDE DEF kept, up
  <2>5. unit * (IF up THEN kept + 1 ELSE kept) \in Nat
    <3>1. \A a, b \in Nat : a * b \in Nat
      OBVIOUS
    <3>2. (IF up THEN kept + 1 ELSE kept) \in Nat
      BY <2>4
    <3> QED BY <2>2, <3>1, <3>2
  <2> QED BY <1>1, <2>3, <2>5, DecimalsAre
<1> QED BY <1>1, <1>2, <1>3, <1>4

(* So what equals a number that fits the context is not rounded.           *)
LEMMA EqualFits ==
  ASSUME NEW w \in Nat, NEW x \in Decimals(w), NEW y \in Decimals(w), NEW p \in y.places .. w,
         Scaled(x, w) = Scaled(y, w), Scaled(y, p) < TenTo[Precision]
  PROVE  Rounded(x) = x
<1> DEFINE k == Scaled(y, p)
           r == x.places
<1>1. x.coef \in Nat /\ r \in 0 .. w /\ p \in 0 .. w
  BY DecimalsAre
<1>2. k \in Nat /\ TenTo[w - p] \in Nat \ {0} /\ Scaled(x, w) = k * TenTo[w - p]
  BY ScaledOn
<1>3. Scaled(x, w) = x.coef * TenTo[w - r] /\ TenTo[w - r] \in Nat \ {0}
  <2>1. w - r \in Nat
    BY <1>1
  <2> QED BY <2>1, TenToGrows DEF Scaled
<1> HIDE DEF k, r
<1>4. CASE p <= r
  <2>1. r - p \in Nat /\ w - r \in Nat /\ (r - p) + (w - r) = w - p
    BY <1>1, <1>4
  <2>2. TenTo[w - p] = TenTo[r - p] * TenTo[w - r] /\ TenTo[r - p] \in Nat
    BY <2>1, TenToGrows
  <2>3. \A a, b, c \in Nat, t \in Nat \ {0} : a * t = b * (c * t) => a = b * c
    <3> SUFFICES ASSUME NEW a \in Nat, NEW b \in Nat, NEW c \in Nat, NEW t \in Nat \ {0},
                        a * t = b * (c * t)
                 PROVE  a = b * c
      OBVIOUS
    <3>1. a * t = (b * c) * t /\ b * c \in Nat
      OBVIOUS
    <3>2. \A u, v \in Nat : u * t = v * t => u = v
      OBVIOUS
    <3> QED BY <3>1, <3>2
  <2>4. x.coef = k * TenTo[r - p]
    <3> DEFINE t == TenTo[w - r]
               c == TenTo[r - p]
    <3>1. x.coef * t = k * (c * t) /\ t \in Nat \ {0} /\ c \in Nat
      BY <1>2, <1>3, <2>2
    <3> HIDE DEF t, c
    <3>2. x.coef = k * c
      BY <1>1, <1>2, <2>3, <3>1
    <3> QED BY <3>2 DEF c
  <2>5. k < TenTo[Precision]
    BY DEF k
  <2> QED BY <1>2, <2>1, <2>4, <2>5, RoundedFits
<1>5. CASE r < p
  <2>1. w - p \in Nat /\ w - r \in Nat /\ w - p <= w - r
    BY <1>1, <1>5
  <2>2. TenTo[w - p] <= TenTo[w - r]
    BY <2>1, TenToGrows
  <2>3. \A a, b \in Nat, t, u \in Nat \ {0} : a * t = b * u /\ u <= t => a <= b
    <3> SUFFICES ASSUME NEW a \in Nat, NEW b \in Nat, NEW t \in Nat \ {0}, NEW u \in Nat \ {0},
                        a * t = b * u, u <= t, b < a
                 PROVE  FALSE
      OBVIOUS
    <3>1. b * u <= b * t
      OBVIOUS
    <3>2. b * t < a * t
      OBVIOUS
    <3> QED BY <3>1, <3>2
  <2>4. x.coef <= k
    BY <1>1, <1>2, <1>3, <2>2, <2>3
  <2>5. TenTo[Precision] \in Nat /\ k < TenTo[Precision]
    BY PrecisionAssumption, TenToGrows DEF k
  <2>6. x.coef < TenTo[Precision] /\ x.coef = x.coef * TenTo[0] /\ 0 \in Nat
    BY <1>1, <1>2, <2>4, <2>5, TenToIs
  <2> QED BY <1>1, <2>6, RoundedFits
<1> QED BY <1>1, <1>4, <1>5

(* The running sums of Total and of ExactTotal.                            *)
Sums(s, w, g) == g \in [0 .. Len(s) -> Decimals(w)] /\ g[0] = Zero

LEMMA TotalIs ==
  ASSUME NEW w \in Nat, NEW s \in Seq(Decimals(w))
  PROVE  \E g : /\ Sums(s, w, g) /\ Total(s) = g[Len(s)]
                /\ \A i \in 1 .. Len(s) : g[i] = Plus(g[i - 1], s[i])
<1> DEFINE V    == Decimals(w)
           D    == 0 .. Len(s)
           step == [x \in D \X V |-> IF x[1] = 0 THEN Zero ELSE Plus(x[2], s[x[1]])]
<1>1. Zero \in V
  BY DecimalsAre DEF Zero
<1>2. \A x, y \in V : Plus(x, y) \in V
  BY SumScaled, RoundedIs DEF Plus
<1>3. Len(s) \in Nat /\ \A i \in D : i # 0 => s[i] \in V
  OBVIOUS
<1> HIDE DEF V
<1>4. step \in [D \X V -> V]
  BY <1>1, <1>2, <1>3
<1>5. \A i \in D, v \in V : i # 0 => step[<<i, v>>] = Plus(v, s[i])
  OBVIOUS
<1>6. D \subseteq Nat /\ \A i \in D : i = 0 \/ i - 1 \in D
  BY <1>3
<1> HIDE DEF step, D
<1>7. PICK g \in [D -> V] : \A n \in D : g[n] = IF n = 0 THEN Zero ELSE step[<<n, g[n - 1]>>]
  <2>1. Defined(D, V, Zero, step)
    BY <1>1, <1>4, <1>6, RecursiveFunction
  <2> QED BY <2>1 DEF Defined
<1>8. \A n \in D : g[n] = IF n = 0 THEN Zero ELSE Plus(g[n - 1], s[n])
  BY <1>5, <1>6, <1>7
<1> DEFINE P(f) == f = [n \in D |-> IF n = 0 THEN Zero ELSE Plus(f[n - 1], s[n])]
<1>9. P(g)
  BY <1>7, <1>8
<1>10. Total(s) = (CHOOSE f : P(f))[Len(s)]
  BY DEF Total, D
<1>11. P(CHOOSE f : P(f))
  <2> HIDE DEF P
  <2> QED BY <1>9
<1> DEFINE f == CHOOSE h : P(h)
<1>12. \A n \in D : f[n] = IF n = 0 THEN Zero ELSE Plus(f[n - 1], s[n])
  <2>1. f = [n \in D |-> IF n = 0 THEN Zero ELSE Plus(f[n - 1], s[n])]
    BY <1>11
  <2> HIDE DEF f
  <2> QED BY <2>1
<1>13. DOMAIN f = D /\ f = [n \in D |-> f[n]]
  <2>1. f = [n \in D |-> IF n = 0 THEN Zero ELSE Plus(f[n - 1], s[n])]
    BY <1>11
  <2> HIDE DEF f
  <2> QED BY <2>1
<1>14. Total(s) = f[Len(s)]
  BY <1>10
<1> HIDE DEF f
<1>15. \A n \in D : f[n] \in V
  <2> DEFINE S == {n \in D : f[n] \in V}
  <2>1. \A n \in D : n = 0 \/ n - 1 \in S => n \in S
    BY <1>1, <1>2, <1>3, <1>12
  <2> HIDE DEF S
  <2>2. D \subseteq S
    BY <1>6, <2>1, Induction
  <2> QED BY <2>2 DEF S
<1>16. f \in [D -> V]
  BY <1>13, <1>15
<1>17. 0 \in D /\ \A i \in 1 .. Len(s) : i \in D /\ i # 0
  BY <1>3 DEF D
<1> QED BY <1>12, <1>14, <1>16, <1>17 DEF Sums, D, V

LEMMA ExactTotalIs ==
  ASSUME NEW w \in Nat, NEW s \in Seq(Decimals(w))
  PROVE  \E g : /\ Sums(s, w, g) /\ ExactTotal(s) = g[Len(s)]
                /\ \A i \in 1 .. Len(s) : g[i] = ExactSum(g[i - 1], s[i])
<1> DEFINE V    == Decimals(w)
           D    == 0 .. Len(s)
           step == [x \in D \X V |-> IF x[1] = 0 THEN Zero ELSE ExactSum(x[2], s[x[1]])]
<1>1. Zero \in V
  BY DecimalsAre DEF Zero
<1>2. \A x, y \in V : ExactSum(x, y) \in V
  BY SumScaled
<1>3. Len(s) \in Nat /\ \A i \in D : i # 0 => s[i] \in V
  OBVIOUS
<1> HIDE DEF V
<1>4. step \in [D \X V -> V]
  BY <1>1, <1>2, <1>3
<1>5. \A i \in D, v \in V : i # 0 => step[<<i, v>>] = ExactSum(v, s[i])
  OBVIOUS
<1>6. D \subseteq Nat /\ \A i \in D : i = 0 \/ i - 1 \in D
  BY <1>3
<1> HIDE DEF step, D
<1>7. PICK g \in [D -> V] : \A n \in D : g[n] = IF n = 0 THEN Zero ELSE step[<<n, g[n - 1]>>]
  <2>1. Defined(D, V, Zero, step)
    BY <1>1, <1>4, <1>6, RecursiveFunction
  <2> QED BY <2>1 DEF Defined
<1>8. \A n \in D : g[n] = IF n = 0 THEN Zero ELSE ExactSum(g[n - 1], s[n])
  BY <1>5, <1>6, <1>7
<1> DEFINE P(f) == f = [n \in D |-> IF n = 0 THEN Zero ELSE ExactSum(f[n - 1], s[n])]
<1>9. P(g)
  BY <1>7, <1>8
<1>10. ExactTotal(s) = (CHOOSE f : P(f))[Len(s)]
  BY DEF ExactTotal, D
<1>11. P(CHOOSE f : P(f))
  <2> HIDE DEF P
  <2> QED BY <1>9
<1> DEFINE f == CHOOSE h : P(h)
<1>12. \A n \in D : f[n] = IF n = 0 THEN Zero ELSE ExactSum(f[n - 1], s[n])
  <2>1. f = [n \in D |-> IF n = 0 THEN Zero ELSE ExactSum(f[n - 1], s[n])]
    BY <1>11
  <2> HIDE DEF f
  <2> QED BY <2>1
<1>13. DOMAIN f = D /\ f = [n \in D |-> f[n]]
  <2>1. f = [n \in D |-> IF n = 0 THEN Zero ELSE ExactSum(f[n - 1], s[n])]
    BY <1>11
  <2> HIDE DEF f
  <2> QED BY <2>1
<1>14. ExactTotal(s) = f[Len(s)]
  BY <1>10
<1> HIDE DEF f
<1>15. \A n \in D : f[n] \in V
  <2> DEFINE S == {n \in D : f[n] \in V}
  <2>1. \A n \in D : n = 0 \/ n - 1 \in S => n \in S
    BY <1>1, <1>2, <1>3, <1>12
  <2> HIDE DEF S
  <2>2. D \subseteq S
    BY <1>6, <2>1, Induction
  <2> QED BY <2>2 DEF S
<1>16. f \in [D -> V]
  BY <1>13, <1>15
<1>17. 0 \in D /\ \A i \in 1 .. Len(s) : i \in D /\ i # 0
  BY <1>3 DEF D
<1> QED BY <1>12, <1>14, <1>16, <1>17 DEF Sums, D, V


(* The running total of amounts that equal other amounts, whose exact sum  *)
(* fits the context, equals that sum: nothing is rounded on the way.       *)
LEMMA TotalsAgree ==
  ASSUME NEW w \in Nat, NEW s \in Seq(Decimals(w)), NEW q \in Seq(Decimals(w)), Len(s) = Len(q),
         \A i \in 1 .. Len(s) : Same(s[i], q[i]), Digits(ExactTotal(q).coef) <= Precision
  PROVE  Total(s) \in Decimals(w) /\ ExactTotal(q) \in Decimals(w) /\ Same(Total(s), ExactTotal(q))
<1> DEFINE n == Len(s)
           D == 0 .. n
<1>1. n \in Nat /\ D \subseteq Nat /\ \A i \in D : i = 0 \/ i - 1 \in D
  OBVIOUS
<1>2. PICK g : /\ Sums(s, w, g) /\ Total(s) = g[n]
               /\ \A i \in 1 .. n : g[i] = Plus(g[i - 1], s[i])
  BY TotalIs
<1>3. PICK h : /\ Sums(q, w, h) /\ ExactTotal(q) = h[n]
               /\ \A i \in 1 .. n : h[i] = ExactSum(h[i - 1], q[i])
  <2>1. PICK h : /\ Sums(q, w, h) /\ ExactTotal(q) = h[Len(q)]
                 /\ \A i \in 1 .. Len(q) : h[i] = ExactSum(h[i - 1], q[i])
    BY ExactTotalIs
  <2>2. Len(q) = n
    OBVIOUS
  <2> HIDE DEF n
  <2> QED BY <2>1, <2>2
<1>4. \A i \in D : g[i] \in Decimals(w) /\ h[i] \in Decimals(w)
  BY <1>2, <1>3 DEF Sums
<1>5. \A i \in 1 .. n : s[i] \in Decimals(w) /\ q[i] \in Decimals(w)
  OBVIOUS
<1> DEFINE e == h[n]
           p == e.places
<1>6. e \in Decimals(w) /\ e.coef \in Nat /\ p \in 0 .. w
  BY <1>1, <1>4, DecimalsAre
<1>7. e.coef < TenTo[Precision]
  BY <1>3, <1>6, FewDigits, PrecisionAssumption
<1> DEFINE Below(i) == h[i].places <= p /\ Scaled(h[i], p) <= e.coef
<1> HIDE DEF n, e, p
<1>8. \A i \in D : Below(i)
  <2> DEFINE S == {i \in D : Below(n - i)}
  <2>1. ASSUME NEW i \in D, i = 0 \/ i - 1 \in S PROVE Below(n - i)
    <3>1. CASE i = 0
      <4>1. Scaled(e, p) = e.coef * TenTo[0] /\ n - i = n
        BY <1>1, <1>6, <3>1 DEF Scaled, p
      <4>2. Scaled(e, p) = e.coef
        <5>1. TenTo[0] = 1 /\ \A c \in Nat : c * 1 = c
          BY TenToIs
        <5> QED BY <1>6, <4>1, <5>1
      <4> QED BY <1>6, <4>1, <4>2 DEF e, p
    <3>2. CASE i # 0
      <4> DEFINE m == n - i
                 a == h[m]
                 b == q[m + 1]
                 c == h[m + 1]
      <4>1. m \in D /\ m + 1 \in D /\ m + 1 \in 1 .. n /\ (m + 1) - 1 = m /\ n - (i - 1) = m + 1
        BY <1>1, <3>2
      <4>2. a \in Decimals(w) /\ b \in Decimals(w) /\ c \in Decimals(w) /\ c = ExactSum(a, b)
        BY <1>3, <1>4, <1>5, <4>1
      <4>3. c.places <= p /\ Scaled(c, p) <= e.coef
        BY <2>1, <3>2, <4>1
      <4> HIDE DEF m, a, b, c
      <4>4. c.places = Wider(a, b) /\ a.places \in 0 .. w /\ b.places \in 0 .. w
        BY <4>2, SumScaled, DecimalsAre
      <4>5. a.places \in 0 .. p /\ b.places \in 0 .. p /\ p \in Nat
        BY <1>6, <4>3, <4>4 DEF Wider
      <4>6. a \in Decimals(p) /\ b \in Decimals(p)
        <5>1. /\ a.coef \in Nat /\ a = Amount(a.coef, a.places)
              /\ b.coef \in Nat /\ b = Amount(b.coef, b.places)
          BY <4>2, DecimalsAre
        <5>2. \A z \in Nat, l \in 0 .. p : Amount(z, l) \in Decimals(p)
          BY <4>5, DecimalsAre
        <5>3. Amount(a.coef, a.places) \in Decimals(p) /\ Amount(b.coef, b.places) \in Decimals(p)
          BY <4>5, <5>1, <5>2
        <5> QED BY <5>1, <5>3
      <4>7. Scaled(c, p) = Scaled(a, p) + Scaled(b, p)
        BY <4>2, <4>5, <4>6, SumScaled
      <4>8. Scaled(a, p) \in Nat /\ Scaled(b, p) \in Nat
        <5>1. p \in a.places .. p /\ p \in b.places .. p
          BY <4>5
        <5> QED BY <4>5, <4>6, <5>1, ScaledOn
      <4>9. a.places <= p /\ Scaled(a, p) <= e.coef
        BY <1>6, <4>3, <4>5, <4>7, <4>8
      <4> QED BY <4>9 DEF a, m
    <3> QED BY <3>1, <3>2
  <2>2. \A i \in D : i = 0 \/ i - 1 \in S => i \in S
    BY <2>1
  <2>3. D \subseteq S
    <3> HIDE DEF S, D
    <3> QED BY <1>1, <2>2, Induction
  <2>4. ASSUME NEW i \in D PROVE Below(i)
    <3>1. n - i \in D /\ n - (n - i) = i
      BY <1>1
    <3> HIDE DEF Below
    <3> QED BY <2>3, <3>1
  <2> QED BY <2>4
<1> DEFINE Equal(i) == Scaled(g[i], w) = Scaled(h[i], w)
           T        == {i \in D : Equal(i)}
<1>9. ASSUME NEW i \in D, i = 0 \/ i - 1 \in T PROVE Equal(i)
  <2>1. CASE i = 0
    BY <1>2, <1>3, <2>1 DEF Sums
  <2>2. CASE i # 0
    <3> DEFINE a == g[i - 1]
               b == s[i]
               c == h[i - 1]
               d == q[i]
               x == ExactSum(a, b)
               y == h[i]
    <3>1. i \in 1 .. n /\ i - 1 \in D
      BY <1>1, <2>2
    <3>2. /\ a \in Decimals(w) /\ b \in Decimals(w) /\ c \in Decimals(w) /\ d \in Decimals(w)
          /\ y \in Decimals(w) /\ y = ExactSum(c, d)
          /\ g[i] = Rounded(x) /\ Same(b, d)
      BY <1>2, <1>3, <1>4, <1>5, <3>1 DEF Plus, n
    <3>3. Scaled(a, w) = Scaled(c, w)
      BY <1>9, <2>2
    <3>4. y.places <= p /\ Scaled(y, p) <= e.coef
      BY <1>8
    <3> HIDE DEF a, b, c, d, y
    <3>5. Scaled(b, w) = Scaled(d, w)
      BY <3>2, SameScaled
    <3>6. x \in Decimals(w) /\ Scaled(x, w) = Scaled(a, w) + Scaled(b, w)
          /\ Scaled(y, w) = Scaled(c, w) + Scaled(d, w)
      BY <3>2, SumScaled
    <3> HIDE DEF x
    <3>7. p \in y.places .. w /\ y.places \in 0 .. w
      BY <1>6, <3>2, <3>4, DecimalsAre
    <3>8. Scaled(y, p) \in Nat /\ TenTo[Precision] \in Nat
      BY <3>2, <3>7, ScaledOn, TenToGrows, PrecisionAssumption
    <3>9. Scaled(y, p) < TenTo[Precision]
      BY <1>6, <1>7, <3>4, <3>8
    <3>10. Scaled(x, w) = Scaled(y, w)
      BY <3>3, <3>5, <3>6
    <3>11. Rounded(x) = x
      BY <3>2, <3>6, <3>7, <3>9, <3>10, EqualFits
    <3> QED BY <3>2, <3>10, <3>11 DEF y
  <2> QED BY <2>1, <2>2
<1>10. D \subseteq T
  <2>1. \A i \in D : i = 0 \/ i - 1 \in T => i \in T
    BY <1>9
  <2> HIDE DEF T, D
  <2> QED BY <1>1, <2>1, Induction
<1>11. n \in D /\ Equal(n)
  BY <1>1, <1>10
<1> QED BY <1>2, <1>3, <1>4, <1>11, SameScaled
=============================================================================

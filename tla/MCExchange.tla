----------------------------- MODULE MCExchange -----------------------------
EXTENDS Exchange, TLC

(* The form and the JSON of values that are nested to any depth.           *)
RECURSIVE AnyForm(_, _), AnyJson(_, _)
AnyForm(l, v) == Form(l, v, [p \in DOMAIN Parts(v) |-> AnyForm(l, Parts(v)[p])])
AnyJson(l, v) == Json(l, v, [p \in DOMAIN Parts(v) |-> AnyJson(l, Parts(v)[p])])

AllLanguages == {Python, TypeScript}
OnlyTypeScript == {TypeScript}

Plain   == {"grade", "astral"} \X {Absent, Text(5), Whole, Null, Object("grade" :> Text(5))}
Special == {"grade", "signature", "high", "astral"}
              \X {Absent, Text(5), WholeReal, Tiny, Object("signature" :> Text(5))}
Unusual == Special \cup {<<"grade", Undefined>>, <<"grade", Date(1)>>}

(* Python signs in the order it parses: one key outside ASCII shows as much as two.    *)
PlainMembers == [l \in AllLanguages |->
                   IF l = Python THEN {m \in Special : m[1] # "high"} ELSE Plain]
UnusualMembers == [l \in AllLanguages |-> Unusual]

AnyAlteration == {m \in Special : m[1] \in {"grade", "signature"}}
AnyRewriting  == {<<"recipient", Agent("other")>>, <<"inReplyTo", Null>>, <<"signature", Absent>>,
                  <<"extensions", Object(NoFields)>>, <<"createdAt", Time(0)>>}
AnyForgery == {<<"keyId", Text(5)>>, <<"keyId", String("key id", 9)>>, <<"keyId", Absent>>,
               <<"algorithm", Text(5)>>, <<"createdAt", Null>>, <<"createdAt", LocalTime>>,
               <<"createdAt", Time(0)>>, <<"value", Text(5)>>, <<"value", Whole>>,
               <<"note", Text(5)>>}
NoAlteration  == {}
=============================================================================

------------------------------- MODULE Models -------------------------------
(* acn_standard.models: the envelope a validator returns, and its wire form. *)
EXTENDS Wire

(* Defect: the reference to the answered message is lost.                  *)
ToWireUnlinked(e) == Drop(e, {"signature", "inReplyTo"})

(* isoformat() of a parsed time, "+00:00" written as "Z".                  *)
Isoformat(v) == TimeAs(v.at, "seconds")

(* CommerceEnvelope.to_wire of the fields that validate_envelope keeps: no *)
(* signature, and neither an empty inReplyTo nor empty extensions.         *)
ToWire(e) ==
    LET empty == {k \in {"inReplyTo", "extensions"} : ~Truthy(Get(e, k))}
        kept  == Drop(e, {"signature"} \cup empty)
    IN [k \in DOMAIN kept |-> IF k \in {"createdAt", "expiresAt"} THEN Isoformat(kept[k])
                              ELSE kept[k]]
=============================================================================

------------------------------ MODULE DnsWorld ------------------------------
(***************************************************************************)
(* The namespace the validator walks and the upstream answers it can get.  *)
(* This is the environment of src/src/validator/context.rs, not its code:  *)
(* the zone data, the trust anchors, and the abstract shape of the DS,     *)
(* DNSKEY and trust-anchor DNSKEY replies, with the verdict a correct      *)
(* validator owes every name (Expected).                                   *)
(*                                                                         *)
(* A record's `signed` field is TRUE when its RRSIG verifies under the key *)
(* of the zone that really owns it.  An attacker cannot produce such a     *)
(* signature, so where it answers it can only send unsigned (forged) records,  *)
(* failed replies, or genuine records replayed where they do not belong.   *)
(***************************************************************************)
EXTENDS Integers, Sequences, FiniteSets

CONSTANTS
    Names,          \* the domain names of the model
    Root,           \* the root name
    Parent,         \* [Names \ {Root} -> Names]
    TrustAnchors,   \* owners of configured trust anchors
    Kind,           \* [names below an anchor -> what the zone data says]
    TTLs,           \* RRset/signature TTLs an honest server uses
    Attack          \* the queries an on-path attacker may answer: a subset
                    \* of {"anchor", "ds", "dnskey"}

Kinds == {"Signed",       \* secure delegation: DS with a supported algorithm
          "Unsupported",  \* DS present, only unsupported algorithms
          "Unsigned",     \* insecure delegation, NSEC with NS and no DS
          "OptOut",       \* insecure delegation, covering NSEC3 with opt-out
          "Ent",          \* empty non-terminal, covering NSEC from the apex
          "Cname"}        \* a name owning a signed CNAME

ASSUME Root \in Names /\ TrustAnchors \subseteq Names
ASSUME Attack \subseteq {"anchor", "ds", "dnskey"}
ASSUME \A n \in DOMAIN Kind : Kind[n] \in Kinds

\* The strict ancestors of n, nearest first.
RECURSIVE AncestorsOf(_)
AncestorsOf(n) == IF n = Root THEN {} ELSE {Parent[n]} \cup AncestorsOf(Parent[n])

IsAncestorOrSelf(a, n) == a = n \/ a \in AncestorsOf(n)

\* TrustAnchors::find: the longest-suffix anchor for n, if any.
HasAnchor(n) == \E a \in TrustAnchors : IsAncestorOrSelf(a, n)
AnchorOf(n) == CHOOSE a \in TrustAnchors :
                  /\ IsAncestorOrSelf(a, n)
                  /\ \A b \in TrustAnchors : IsAncestorOrSelf(b, n) => IsAncestorOrSelf(b, a)

\* The apex of the zone that signs the DS (or its denial) for n: the nearest
\* strict ancestor that is an anchor or a secure delegation.
IsApex(a) == a \in TrustAnchors \/ (a \in DOMAIN Kind /\ Kind[a] = "Signed")
RECURSIVE ZoneOf(_)
ZoneOf(n) == IF IsApex(Parent[n]) \/ Parent[n] = Root THEN Parent[n] ELSE ZoneOf(Parent[n])

\* The verdict a correct validator owes n (spec sections 4.3-4.5, 8).
KindVerdict(k) ==
    IF k \in {"Signed", "Ent", "Cname"} THEN "Secure" ELSE "Insecure"

RECURSIVE Expected(_)
Expected(n) ==
    IF ~HasAnchor(n) THEN "Indeterminate"
    ELSE IF n = AnchorOf(n) THEN "Secure"
    ELSE IF Expected(Parent[n]) # "Secure" THEN Expected(Parent[n])
    ELSE KindVerdict(Kind[n])

-----------------------------------------------------------------------------
(* Replies.  Every record carries the TTL that bounds it: the minimum of   *)
(* its RRset TTL and its signature validity.                               *)

NsecTypes == {{}, {"NS"}, {"DS"}, {"SOA"}, {"NS", "SOA"}}

\* An NSEC record relative to the queried name: `match` is "exact" (owner =
\* name), "cover" (owner < name < next, next below name) or "other";
\* `ancestor` says the owner is a strict ancestor of the name.
Nsec(signed, match, ancestor, types, ttl) ==
    [signed |-> signed, match |-> match, ancestor |-> ancestor,
     types |-> types, optout |-> FALSE, iterOk |-> TRUE, ttl |-> ttl]

\* An NSEC3 record: `match` is "exact" (hash equal), "cover" (hash inside
\* the range), "other", or "zone" (from a zone that is not an ancestor).
Nsec3(signed, match, types, optout, iterOk, ttl) ==
    [signed |-> signed, match |-> match, ancestor |-> FALSE,
     types |-> types, optout |-> optout, iterOk |-> iterOk, ttl |-> ttl]

\* A reply to the DS query: "Fail" (no or unparsable reply), "DS", "CNAME"
\* at the name, or "NoDs" with the NSEC and NSEC3 groups of the authority.
DsReply(kind, signed, supported, ttl, nsec, nsec3) ==
    [kind |-> kind, signed |-> signed, supported |-> supported,
     ttl |-> ttl, nsec |-> nsec, nsec3 |-> nsec3]

FailReply == DsReply("Fail", FALSE, FALSE, 0, <<>>, <<>>)

\* A reply to the child DNSKEY query: `keymatch` says a key matches a
\* supported DS; `sig` is the first RRSIG with that key's tag.
DnskeyReply(kind, keymatch, sig, ttl) ==
    [kind |-> kind, keymatch |-> keymatch, sig |-> sig, ttl |-> ttl]

\* A reply to the trust anchor's DNSKEY query: for each anchor RR whether a
\* key of the RRset matches it, and the outcome of each RRSIG with that
\* key's tag, in order (TRUE: verifies).
TaReply(kind, rrs, ttl) == [kind |-> kind, rrs |-> rrs, ttl |-> ttl]

MinTTL == CHOOSE t \in TTLs : \A u \in TTLs : t <= u

HonestDs(n) ==
    LET k == Kind[n] IN
    { CASE k = "Signed"      -> DsReply("DS", TRUE, TRUE, t, <<>>, <<>>)
        [] k = "Unsupported" -> DsReply("DS", TRUE, FALSE, t, <<>>, <<>>)
        [] k = "Cname"       -> DsReply("CNAME", TRUE, FALSE, t, <<>>, <<>>)
        [] k = "Unsigned"    -> DsReply("NoDs", FALSE, FALSE, t,
                                   <<Nsec(TRUE, "exact", FALSE, {"NS"}, t)>>, <<>>)
        [] k = "Ent"         -> DsReply("NoDs", FALSE, FALSE, t,
                                   <<Nsec(TRUE, "cover", TRUE, {"NS", "SOA"}, t)>>, <<>>)
        [] k = "OptOut"      -> DsReply("NoDs", FALSE, FALSE, t, <<>>,
                                   <<Nsec3(TRUE, "other", {}, FALSE, TRUE, t),
                                     Nsec3(TRUE, "cover", {}, TRUE, TRUE, t)>>)
      : t \in TTLs }

\* What an on-path attacker can send instead: failures, empty denials,
\* forged (unsigned) records of every shape, and genuine records replayed
\* where they do not apply.
ForgedNsec == { Nsec(FALSE, m, a, ty, MinTTL) :
                  m \in {"exact", "cover", "other"}, a \in BOOLEAN, ty \in NsecTypes }
          \cup { Nsec(TRUE, "other", FALSE, {}, MinTTL) }
ForgedNsec3 == { Nsec3(FALSE, m, ty, o, TRUE, MinTTL) :
                   m \in {"exact", "cover"}, ty \in NsecTypes, o \in BOOLEAN }
          \cup { Nsec3(TRUE, m, {}, FALSE, TRUE, MinTTL) : m \in {"other", "zone"} }
          \cup { Nsec3(TRUE, "other", {}, FALSE, FALSE, MinTTL) }
AttackDs ==
    { FailReply, DsReply("NoDs", FALSE, FALSE, MinTTL, <<>>, <<>>) }
    \cup { DsReply("DS", FALSE, s, MinTTL, <<>>, <<>>) : s \in BOOLEAN }
    \cup { DsReply("CNAME", FALSE, FALSE, MinTTL, <<>>, <<>>) }
    \cup { DsReply("NoDs", FALSE, FALSE, MinTTL, <<r>>, <<>>) : r \in ForgedNsec }
    \cup { DsReply("NoDs", FALSE, FALSE, MinTTL, <<>>, <<r>>) : r \in ForgedNsec3 }

DsReplies(n) == HonestDs(n) \cup (IF "ds" \in Attack THEN AttackDs ELSE {})

DnskeyReplies ==
    { DnskeyReply("DNSKEY", TRUE, "good", t) : t \in TTLs }
    \cup (IF "dnskey" \in Attack
          THEN { DnskeyReply("Fail", FALSE, "none", MinTTL),
                 DnskeyReply("None", FALSE, "none", MinTTL) }
               \cup { DnskeyReply("DNSKEY", m, s, MinTTL) :
                        m \in BOOLEAN, s \in {"good", "bad", "none"} }
          ELSE {})

\* Sequences of RRSIG outcomes of length at most 2.
SigSeqs == {<<>>} \cup {<<s>> : s \in BOOLEAN} \cup {<<s, u>> : s, u \in BOOLEAN}
AnchorRRs == {[match |-> m, sigs |-> s] : m \in BOOLEAN, s \in SigSeqs}

TaReplies ==
    { TaReply("DNSKEY", <<[match |-> TRUE, sigs |-> <<TRUE>>]>>, t) : t \in TTLs }
    \cup (IF "anchor" \in Attack
          THEN { TaReply("None", <<>>, MinTTL) }
               \cup { TaReply("DNSKEY", <<r>>, MinTTL) : r \in AnchorRRs }
               \cup { TaReply("DNSKEY", <<r, q>>, MinTTL) : r, q \in AnchorRRs }
          ELSE {})
=============================================================================

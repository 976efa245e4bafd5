---------------------------- MODULE MCMiddleware ----------------------------
(***************************************************************************)
(* The components that are functions of one input, each checked over all  *)
(* of its bounded inputs: the XFR and cookie middleware decisions on one  *)
(* request, timestamp_ok on one pair of serials, the trust-anchor          *)
(* verification loop on one DNSKEY reply, the new_name name functions on  *)
(* one byte string or pair of names, and the algorithm layer of           *)
(* validate.rs on one algorithm or key, and validate_msg on one reply.  A *)
(* state holds one input of one of them; the others hold a fixed input of *)
(* their own.                                                              *)
(***************************************************************************)
EXTENDS XfrPreprocess, Cookies, TrustAnchor, NewName, KeyMatch, MessageValidator,
        SequencesExt

CONSTANT Bytes  \* the byte values names are built from

VARIABLES
    req,    \* a request to the XFR middleware
    creq,   \* a request to the cookies middleware
    clock,  \* <<now, serial>> given to timestamp_ok
    rrs,    \* a DNSKEY reply to the anchor query: per anchor RR, whether a
            \* key matches it and the outcomes of the key's RRSIG checks
    bytes,  \* a byte string given to UncertainName::from_bytes
    names,  \* <<name, suffix>> given to ends_with, parent, strip_suffix
    cnames, \* <<self, that>>, two absolute names given to cmp
    alg,    \* <<DNSSEC algorithm, DS digest type>>
    key,    \* <<algorithm, public key field>> of a DNSKEY
    keys,   \* two RSA public keys given to PartialEq
    vmsg,   \* a reply given to validate_msg, as its collaborators see it
    labels, \* three labels given to Label's eq, cmp and hash
    wc,     \* <<owner labels, RRSIG Labels field>> of a signed record
    km      \* <<algorithm and key tag per key material, the order of the
            \* DNSKEY RRset, an anchor or DS record>> for the key selection

vars == <<req, creq, clock, rrs, bytes, names, cnames, alg, key, keys, vmsg, labels, wc, km>>

CookieInputs == CookieRequests({0, 2^SERIAL_BITS - 3}, Serials)
ClockInputs == Serials \X Serials
Sigs3 == UNION {[1..n -> BOOLEAN] : n \in 0..3}
RRs == [match : BOOLEAN, sigs : Sigs3]
AnchorInputs == {<<>>} \cup {<<r>> : r \in RRs} \cup {<<r, q>> : r, q \in RRs}

\* Reference definition of the wire format (RFC 1035 3.1): a relative name
\* is a sequence of labels, each a length of 1..MAX_LABEL and that many
\* bytes of any value; an absolute name is a relative one and the root
\* label 0.  RelNames(k) are those of at most k bytes.
WireLabels == UNION {[1..n -> Bytes] : n \in 1..MAX_LABEL}
RECURSIVE RelNames(_)
RelNames(k) ==
    {<<>>} \cup UNION {{<<Len(l)>> \o l \o r : r \in RelNames(k - 1 - Len(l))} :
                       l \in {l \in WireLabels : 1 + Len(l) <= k}}
AbsNames(k) == {r \o <<0>> : r \in RelNames(k - 1)}
\* Labels, the root label included.
WireLabels0 == WireLabels \cup {<<>>}
UncertainNames == RelNames(NAME_MAX_SIZE) \cup AbsNames(NAME_MAX_SIZE)

ByteStrings == UNION {[1..n -> Bytes] : n \in 0..NAME_MAX_SIZE + 1}

\* DSA, the algorithms above, and ED448; GOST, SHA-1, SHA-256, SHA-384.
Algs == {3, RSASHA1, RSASHA1_NSEC3_SHA1, RSASHA256, RSASHA512,
         ECDSAP256SHA256, ECDSAP384SHA384, ED25519, 16}
DigestTypes == {SHA1, SHA256, 3, SHA384}
KeyBytes == UNION {[1..n -> 0..BYTE - 1] : n \in 0..7}
\* RSA keys with exponent and modulus of up to two bytes, zeros included.
RsaInts == UNION {[1..n -> 0..BYTE - 1] : n \in 0..2}
RsaKeys == [e : RsaInts, n : RsaInts]
\* Owner names of up to MaxOwnerLabels labels, with the wildcard label.
MaxOwnerLabels == 3
Owners == {l \o <<"">> : l \in UNION {[1..n -> {"*", "a", "b"}] : n \in 0..MaxOwnerLabels}}

\* Replies to validate_msg.  Every field not named in over keeps the value
\* of a plain signed reply; each class below varies the fields one stage of
\* validate_msg reads, together with the CNAME chain state.
VStates == {"Secure", "Insecure", "Bogus", "Indeterminate"}
MsgDefaults == [answers |-> {<<"Secure">>}, authorities |-> {<<"Secure">>},
                questions |-> {1}, cname |-> {"Secure"}, rcode |-> {"NOERROR"},
                answer |-> {<<>>}, soa |-> {"Secure"},
                nsecNodata |-> {"Nothing"}, nsecNodataWc |-> {"Nothing"},
                nsec3Nodata |-> {"Nothing"}, nsec3NotExists |-> {"Nothing"},
                starOk |-> {TRUE}, nsec3NodataStar |-> {"Nothing"},
                nsecNx |-> {"Nothing"}, nsec3Nx |-> {"Nothing"}]
Replies(over) ==
    LET s == over @@ MsgDefaults IN
    [answers : s.answers, authorities : s.authorities, questions : s.questions,
     cname : s.cname, rcode : s.rcode, answer : s.answer, soa : s.soa,
     nsecNodata : s.nsecNodata, nsecNodataWc : s.nsecNodataWc,
     nsec3Nodata : s.nsec3Nodata, nsec3NotExists : s.nsec3NotExists,
     starOk : s.starOk, nsec3NodataStar : s.nsec3NodataStar,
     nsecNx : s.nsecNx, nsec3Nx : s.nsec3Nx]
GroupSeqs == {<<>>} \cup {<<g>> : g \in GroupOutcomes}
             \cup {<<g, h>> : g, h \in {"Secure", "Bogus", "Error"}}
Answers == [state : VStates, ce : {"None", "BadStar", "Star", "Other"},
            wcOk : BOOLEAN, wcState : VStates]
Nsec3States == {"NoData", "Nothing", "NoDataInsecure", "Bogus"}
Nsec3NXStates == {"DoesNotExist", "DoesNotExistInsecure", "Bogus", "Insecure", "Nothing"}
MsgInputs ==
    \* the group checks and the question count, before any proof
    Replies([answers |-> GroupSeqs, authorities |-> GroupSeqs,
             questions |-> 0..2, cname |-> VStates])
    \* a positive answer, possibly a wildcard expansion
    \cup Replies([cname |-> VStates, answer |-> {<<a>> : a \in Answers}])
    \* NOERROR/NODATA: the SOA and the five proofs in their order
    \cup Replies([cname |-> VStates, soa |-> VStates \cup {"None"},
                  nsecNodata |-> {"NoData", "Nothing"},
                  nsecNodataWc |-> {"NoData", "Nothing"},
                  nsec3Nodata |-> Nsec3States, nsec3NotExists |-> Nsec3NXStates,
                  starOk |-> BOOLEAN, nsec3NodataStar |-> Nsec3States])
    \* NXDOMAIN, and other rcodes, which take the same path; an answer
    \* section is ignored there
    \cup Replies([rcode |-> {"NXDOMAIN", "SERVFAIL"}, cname |-> VStates,
                  soa |-> VStates \cup {"None"},
                  answer |-> {<<>>, <<[state |-> "Secure", ce |-> "None",
                                         wcOk |-> FALSE, wcState |-> "Secure"]>>},
                  nsecNx |-> {"Exists", "DoesNotExist", "Nothing"},
                  nsec3Nx |-> Nsec3NXStates])

\* Key selection: two key materials, whose algorithm and key tag are
\* chosen per input so that tags collide; the DNSKEY RRset of the anchor
\* or child owner "z" in class IN holds them in either order; an anchor
\* or DS record names any owner, class, algorithm, tag and digest type,
\* and carries the digest of one of the materials under one of the owners.
KeyMats == {1, 2}
KeyOrders == {<<>>, <<1>>, <<2>>, <<1, 2>>, <<2, 1>>}
KeyOwners == {"z", "y"}
KeyAlgs == {RSASHA256, ECDSAP256SHA256}
AnchorRRs ==
    [type : {"DNSKEY"}, owner : KeyOwners, class : {"IN", "CH"}, mat : KeyMats,
     alg : {0}, tag : {0}, dtype : {0}, digest : {<<>>}]
    \cup [type : {"DS"}, owner : KeyOwners, class : {"IN", "CH"}, mat : {0},
           alg : KeyAlgs, tag : {0, 1}, dtype : {SHA256, 3},
           digest : KeyOwners \X KeyMats]
KeyInputs == [KeyMats -> KeyAlgs] \X [KeyMats -> {0, 1}] \X KeyOrders \X AnchorRRs
\* The DNSKEY RRset of an input.
KeyGroup(in) ==
    [i \in 1..Len(in[3]) |->
        [owner |-> "z", class |-> "IN", mat |-> in[3][i],
         alg |-> in[1][in[3][i]], tag |-> in[2][in[3][i]]]]

Inputs == [req |-> Requests, creq |-> CookieInputs, clock |-> ClockInputs,
           rrs |-> AnchorInputs, bytes |-> ByteStrings,
           names |-> UncertainNames \X UncertainNames,
           cnames |-> AbsNames(NAME_MAX_SIZE) \X AbsNames(NAME_MAX_SIZE),
           alg |-> Algs \X DigestTypes, key |-> Algs \X KeyBytes,
           keys |-> RsaKeys \X RsaKeys, vmsg |-> MsgInputs,
           labels |-> WireLabels0 \X WireLabels0 \X WireLabels0,
           wc |-> Owners \X (0..MaxOwnerLabels + 1), km |-> KeyInputs]
Fixed == [req |-> CHOOSE r \in Requests : TRUE,
          creq |-> CHOOSE r \in CookieInputs : TRUE,
          clock |-> <<0, 0>>, rrs |-> <<>>, bytes |-> <<>>,
          names |-> <<<<0>>, <<0>>>>, cnames |-> <<<<0>>, <<0>>>>,
          alg |-> <<RSASHA256, SHA256>>, key |-> <<RSASHA256, <<>>>>,
          keys |-> <<[e |-> <<>>, n |-> <<>>], [e |-> <<>>, n |-> <<>>]>>,
          vmsg |-> CHOOSE r \in Replies(<<>>) : TRUE,
          labels |-> <<<<>>, <<>>, <<>>>>, wc |-> <<<<"">>, 0>>,
          km |-> CHOOSE x \in KeyInputs : TRUE]
\* The inputs of class c range over their set, the others are fixed.
In(c, x) == IF x = c THEN Inputs[x] ELSE {Fixed[x]}

Init ==
    \E c \in DOMAIN Inputs :
        /\ req \in In(c, "req") /\ creq \in In(c, "creq")
        /\ clock \in In(c, "clock") /\ rrs \in In(c, "rrs")
        /\ bytes \in In(c, "bytes") /\ names \in In(c, "names")
        /\ cnames \in In(c, "cnames")
        /\ alg \in In(c, "alg") /\ key \in In(c, "key")
        /\ keys \in In(c, "keys") /\ vmsg \in In(c, "vmsg")
        /\ labels \in In(c, "labels") /\ wc \in In(c, "wc")
        /\ km \in In(c, "km")
\* Each input is judged on its own: no step leads from one to another.
Next == UNCHANGED vars
Spec == Init /\ [][Next]_vars

-----------------------------------------------------------------------------
(* XfrMiddlewareSvc::preprocess                                            *)

\* A zone transfer (AXFR, IXFR, or the AXFR an IXFR falls back to) is only
\* streamed from a primary zone, to a client allow_xfr lists, signed with
\* exactly the TSIG key configured for it, and only in a form the client's
\* XfrStrategy permits.
XfrAuthorized ==
    LET out == Preprocess(req).kind IN
    out \in {"Axfr", "Ixfr"} =>
        /\ req.zone = "Primary" /\ req.caller # "Denied"
        /\ req.signedWith = req.key
        /\ out = "Ixfr" => req.caller # "AxfrOnly"
        /\ out = "Axfr" => \/ req.qtype = "AXFR" /\ req.caller # "IxfrOnly"
                           \/ req.qtype = "IXFR" /\ req.caller = "IxfrWithAxfrFallback"


-----------------------------------------------------------------------------
(* CookiesMiddlewareSvc::preprocess and timestamp_ok                        *)

\* Reference definition: the age now - serial, taken modulo the serial
\* space, is at most an hour, or the serial is at most five minutes ahead.
TimestampWindow(now, serial) ==
    LET age == (now - serial) % 2^SERIAL_BITS
    IN age <= HOUR \/ 2^SERIAL_BITS - age <= FIVE_MINUTES

\* timestamp_ok, with its two Serial additions and comparisons that wrap
\* around, accepts exactly the timestamps of the RFC 9018 window, also
\* where now + 5 minutes or serial + 1 hour crosses zero.
TimestampOkIsWindow == TimestampOk(clock[1], clock[2]) = TimestampWindow(clock[1], clock[2])

\* RFC 7873 with the deny list: a UDP request reaches the inner service only
\* with a server cookie this server issued within the window, or with no
\* cookie at all from an address the deny list does not name; a BADCOOKIE
\* answer always carries a fresh server cookie.
CookieGate ==
    LET out == CookiesPreprocess(creq) IN
    /\ out.kind = "Continue" /\ creq.udp =>
           \/ CheckServerHash(creq)
           \/ creq.cookie = "none" /\ ~creq.denied
    /\ out.kind = "Break" /\ out.rcode = "BADCOOKIE" => out.serverCookie

-----------------------------------------------------------------------------
(* Node::trust_anchor                                                      *)

\* The RRSIGs of all matching anchor RRs in the order the loop meets them,
\* and whether a good one is among the first MAX_BAD_SIGS + 1 of them.
Checked(s) == FlattenSeq([i \in 1..Len(s) |-> IF s[i].match THEN s[i].sigs ELSE <<>>])
GoodWithinBudget(s) ==
    \E i \in 1..Min({Len(Checked(s)), MAX_BAD_SIGS + 1}) : Checked(s)[i]

\* KeyTrap (CVE-2023-50387), the comment above bad_sigs: however many
\* anchor RRs, keys and signatures the reply carries, the loop calls
\* check_sig_cached at most MAX_BAD_SIGS + 1 times in all, and it finds
\* the RRset Secure exactly when one of those calls succeeds.  Whether an
\* exhausted budget ends in Bogus or in the todo!() is left open here.
KeyTrapBudget ==
    LET v == TaVerify(rrs, 0, 0) IN
    /\ v.checks <= MAX_BAD_SIGS + 1
    /\ (v.outcome = "Secure") = GoodWithinBudget(rrs)
-----------------------------------------------------------------------------
(* base/new_name: UncertainName                                             *)

\* The names the safety contract of from_bytes_unchecked admits: wire
\* format, at most NAME_MAX_SIZE bytes, and ending with the root label when
\* exactly NAME_MAX_SIZE bytes long.
ContractNames == RelNames(NAME_MAX_SIZE - 1) \cup AbsNames(NAME_MAX_SIZE)

\* A relative name of exactly NAME_MAX_SIZE bytes.
FullRelative(b) == Len(b) = NAME_MAX_SIZE /\ b \in RelNames(NAME_MAX_SIZE)

\* from_bytes passes to from_bytes_unchecked exactly the names its safety
\* contract admits: its loop rejects a label length of 64 or more, a label
\* running past the end, and anything after a root label.  The one string
\* it wrongly accepts, a relative name of exactly NAME_MAX_SIZE bytes, is
\* set aside here and recorded as a hazard of uncertain.rs:58.
FromBytesIsWireFormat ==
    ~FullRelative(bytes) => (FromBytes(bytes) = (bytes \in ContractNames))

\* The labels of a name, the root label excluded.
RECURSIVE LabelsOf(_)
LabelsOf(n) ==
    IF n = <<>> \/ n = <<0>> THEN <<>>
    ELSE <<SubSeq(n, 2, 1 + n[1])>> \o LabelsOf(SubSeq(n, 2 + n[1], Len(n)))
\* Absolute: labels and then the root label (a final 0 may be content).
IsAbsolute(n) == n \in AbsNames(Len(n))

\* Reference definition: s is a suffix of n when s is empty, or both are
\* absolute or both relative and the labels of s end those of n, ignoring
\* case.
LabelSuffix(n, s) ==
    LET ln == LabelsOf(n)
        ls == LabelsOf(s)
    IN \/ s = <<>>
       \/ /\ IsAbsolute(n) = IsAbsolute(s) /\ Len(ln) >= Len(ls)
          /\ \A i \in 1..Len(ls) : EqIgnoreCase(ln[Len(ln) - Len(ls) + i], ls[i])

\* ends_with, which compares the last bytes after walking label lengths to
\* find where they start, holds exactly when the suffix is a suffix of
\* labels: a byte match that starts inside a label does not count.
EndsWithIsLabelSuffix == EndsWith(names[1], names[2]) = LabelSuffix(names[1], names[2])

\* Reference definition: the canonical DNS name order of RFC 4034 6.1,
\* which the doc comment of UncertainName::cmp names: labels compared from
\* the root down, each as a lowercased byte string in which a missing
\* byte sorts first, and a name whose labels end the other's sorts first.
RECURSIVE LexCmp(_, _)
LexCmp(s, t) ==
    IF s = <<>> \/ t = <<>> THEN Ordering(Len(s), Len(t))
    ELSE IF Lower(Head(s)) # Lower(Head(t)) THEN Ordering(Lower(Head(s)), Lower(Head(t)))
    ELSE LexCmp(Tail(s), Tail(t))
RECURSIVE LabelSeqCmp(_, _)
LabelSeqCmp(s, t) ==
    IF s = <<>> \/ t = <<>> THEN Ordering(Len(s), Len(t))
    ELSE IF LexCmp(Head(s), Head(t)) # "Equal" THEN LexCmp(Head(s), Head(t))
    ELSE LabelSeqCmp(Tail(s), Tail(t))
CanonicalCmp(a, b) == LabelSeqCmp(Reverse(LabelsOf(a)), Reverse(LabelsOf(b)))

\* Ord::cmp of two absolute names returns their canonical order, and
\* returns at all.
NameCmpIsCanonical == NameCmp(cnames[1], cnames[2]) = CanonicalCmp(cnames[1], cnames[2])

\* The SAFETY comments of parent and strip_suffix, which build names from
\* bytes unchecked: the parent is a wire-format name holding every label
\* but the first, and what strip_suffix leaves is a wire-format name that
\* the suffix completes to the original, up to case.
UncheckedNamesWellFormed ==
    LET n == names[1]
        s == names[2]
    IN /\ Parent(n).ok =>
              /\ Parent(n).name \in UncertainNames
              /\ LabelsOf(Parent(n).name) = Tail(LabelsOf(n))
              /\ IsAbsolute(Parent(n).name) = IsAbsolute(n)
       /\ StripSuffix(n, s).ok =>
              /\ StripSuffix(n, s).name \in UncertainNames
              /\ EqIgnoreCase(StripSuffix(n, s).name \o s, n)
-----------------------------------------------------------------------------
(* validate.rs                                                             *)

\* The value of a big-endian byte string.
BigEndian(a) == FoldLeft(LAMBDA acc, b : acc * BYTE + b, 0, a)

\* Two RSA public keys compare equal exactly when their exponents and
\* moduli are equal as integers, however many leading zeros either
\* encoding carries.
RsaEqIsNumeric ==
    RsaEq(keys[1], keys[2]) =
        (BigEndian(keys[1].e) = BigEndian(keys[2].e) /\ BigEndian(keys[1].n) = BigEndian(keys[2].n))

\* An RSA key long enough for every check rsa_exponent_modulus makes.
GoodRsaKey == <<1, 1>> \o [i \in 1..RSA_MIN_BYTES |-> 1]

\* The comments above supported_algorithm and supported_digest: the
\* validator treats as supported exactly the algorithms verify_signed_data
\* can check and the digest types DnskeyExt::digest can compute, so that a
\* delegation is Insecure only when its DS algorithms are truly unusable.
AlgorithmSupportMatches ==
    /\ SupportedAlgorithm(alg[1]) = (VerifySignedData(alg[1], alg[1], GoodRsaKey, TRUE) = "Ok")
    /\ SupportedDigest(alg[2]) = (Digest(alg[2]) = "Ok")

\* A public key that RawPublicKey::from_dnskey parses for its algorithm
\* has that algorithm, and is written back by to_dnskey in a form
\* from_dnskey parses to an equal key: signer and validator agree on the
\* key.  ECDSA and EdDSA keys come back byte for byte; an RSA key comes
\* back with the same exponent and modulus, and rsa_exponent_modulus,
\* when it accepts the written form, splits it the same way.  An RSA key
\* with no modulus is left out: to_dnskey writes it in two bytes, which
\* from_dnskey, which wants three, rejects.
RawKeyRoundTrip ==
    LET a == key[1]
        parsed == RawFromDnskey(a, key[2])
        k == parsed.key
        wire == RawToDnskey(k)
        back == RawFromDnskey(a, wire)
        split == RsaExponentModulus(wire, 0)
    IN parsed.res = "Ok" /\ ~(a \in RsaAlgs /\ k.n = <<>>) =>
        /\ RawAlgorithm(k) = a
        /\ back.res = "Ok" /\ RawEq(back.key, k)
        /\ a \notin RsaAlgs => wire = key[2]
        /\ a \in RsaAlgs => back.key.e = k.e /\ back.key.n = k.n
        /\ a \in RsaAlgs /\ split.res = "Ok" => split.e = k.e /\ split.n = k.n

\* Reference definition (RFC 4035 5.3.2): the labels of a name, the root
\* label not counted, and the suffix of a name holding n of them.
LabelCount(owner) == Cardinality({i \in DOMAIN owner : owner[i] # ""})
SuffixWith(owner, n) ==
    {s \in {SubSeq(owner, i, Len(owner)) : i \in DOMAIN owner} : LabelCount(s) = n}

\* An RRSIG whose Labels field is below the owner's label count (the root
\* not counted) signed a wildcard: wildcard_closest_encloser then returns
\* the suffix of the owner with that many labels, and signed_data signs
\* "*." under it; otherwise there is no encloser and the owner itself is
\* signed.  Counting the root label would take a record owned by a name
\* of exactly Labels labels for a wildcard expansion, and make the proof
\* of nonexistence that validate_msg then demands start one label higher.
WildcardEncloserAgrees ==
    LET owner == wc[1]  sigLabels == wc[2]
        ce == WildcardClosestEncloser(owner, sigLabels)
    IN IF sigLabels < LabelCount(owner)
       THEN /\ ce # <<>> /\ ce[1] \in SuffixWith(owner, sigLabels)
            /\ SignedOwner(owner, sigLabels) = <<"*">> \o ce[1]
       ELSE ce = <<>> /\ SignedOwner(owner, sigLabels) = owner

-----------------------------------------------------------------------------
(* ValidationContext::validate_msg                                         *)

\* The answer is a positive one that is Secure, and a wildcard expansion
\* comes with a Secure proof that the query name itself does not exist.
SecureAnswer(a) ==
    /\ a.state = "Secure"
    /\ \/ a.ce \in {"None", "Star"}
       \/ a.ce = "Other" /\ a.wcOk /\ a.wcState = "Secure"

\* Some NODATA proof holds: by NSEC at the name or its wildcard, by NSEC3 at
\* the name, or by NSEC3 for the name's absence and the wildcard's NODATA.
NodataProved(r) ==
    \/ "NoData" \in {r.nsecNodata, r.nsecNodataWc, r.nsec3Nodata}
    \/ r.nsec3NotExists = "DoesNotExist" /\ r.starOk /\ r.nsec3NodataStar = "NoData"

\* An NSEC or NSEC3 record proves the name absent, and no NSEC record says
\* it exists.
NxdomainProved(r) ==
    \/ r.nsecNx = "DoesNotExist"
    \/ r.nsecNx = "Nothing" /\ r.nsec3Nx = "DoesNotExist"

\* validate_msg reports Secure only for a reply with one question, no Bogus
\* group, a Secure CNAME/DNAME chain, and either a Secure positive answer
\* (wildcards included) or a Secure SOA with a proof of the kind its rcode
\* needs: no Secure verdict comes from a missing, insecure or contradicted
\* link, whichever return path is taken.
MsgSecureNeedsProof ==
    ValidateMsg(vmsg) = "Secure" =>
        /\ vmsg.questions = 1 /\ vmsg.cname = "Secure"
        /\ Range(vmsg.answers \o vmsg.authorities) \cap {"Bogus", "Error"} = {}
        /\ \/ vmsg.rcode = "NOERROR" /\ vmsg.answer # <<>> /\ SecureAnswer(Head(vmsg.answer))
           \/ /\ vmsg.rcode # "NOERROR" \/ vmsg.answer = <<>>
              /\ vmsg.soa = "Secure"
              /\ IF vmsg.rcode = "NOERROR" THEN NodataProved(vmsg) ELSE NxdomainProved(vmsg)

\* validate_msg reports Insecure only on evidence that part of the reply is
\* unsigned: an insecure CNAME/DNAME link, an Insecure answer or wildcard
\* proof, an Insecure SOA, or an NSEC3 opt-out proof.  A reply that lacks
\* a proof, or whose proof fails, is never downgraded to Insecure.
MsgInsecureNeedsEvidence ==
    ValidateMsg(vmsg) = "Insecure" =>
        \/ vmsg.cname = "Insecure"
        \/ /\ vmsg.rcode = "NOERROR" /\ vmsg.answer # <<>>
           /\ LET a == Head(vmsg.answer) IN
              \/ a.state = "Insecure"
              \/ a.ce = "Other" /\ a.wcOk /\ a.wcState = "Insecure"
        \/ vmsg.soa = "Insecure"
        \/ vmsg.nsec3NotExists = "DoesNotExistInsecure"
        \/ vmsg.nsec3Nx = "DoesNotExistInsecure"

-----------------------------------------------------------------------------
(* Label: PartialEq, Ord and Hash                                           *)

Flip(o) == CASE o = "Less" -> "Greater" [] o = "Greater" -> "Less" [] OTHER -> o

\* Label's eq, cmp and hash obey the contract of Eq, Ord and Hash that
\* sorted maps and hash maps of labels rely on: cmp is Equal exactly when
\* eq holds, equal labels hash alike, and cmp is antisymmetric and
\* transitive, although each compares bytes ASCII-case-insensitively in
\* its own way.
LabelOrdEqHashAgree ==
    LET a == labels[1]  b == labels[2]  c == labels[3] IN
    /\ (LabelCmp(a, b) = "Equal") = LabelEq(a, b)
    /\ LabelEq(a, b) => LabelHash(a) = LabelHash(b)
    /\ LabelCmp(b, a) = Flip(LabelCmp(a, b))
    /\ LabelCmp(a, b) = "Less" /\ LabelCmp(b, c) = "Less" => LabelCmp(a, c) = "Less"
-----------------------------------------------------------------------------
(* has_key, has_ds and find_key_for_ds                                     *)

\* The key an anchor or DS record designates (RFC 4034 5.1.4, RFC 4035
\* 5.2): for a DNSKEY anchor the same record; for a DS, the key with the
\* DS's owner, algorithm and key tag whose digest, of a supported type,
\* the DS carries; the class only where the code can compare it.
Designates(r, k, withClass) ==
    /\ withClass => r.class = k.class
    /\ IF r.type = "DNSKEY"
       THEN r.owner = k.owner /\ r.mat = k.mat
       ELSE /\ r.owner = k.owner /\ r.alg = k.alg /\ r.tag = k.tag
            /\ SupportedDigest(r.dtype) /\ r.digest = <<k.owner, k.mat>>
DesignatedKeys(g, r, withClass) == {k \in ToSet(g) : Designates(r, k, withClass)}

\* Whatever the key tags, with two keys of one algorithm and tag in either
\* order: the key Node::trust_anchor picks for an anchor RR (has_key or
\* has_ds) is the key the anchor designates, and none when it designates
\* none.  For a DS of the RRset's class whose digest covers its own owner
\* (one the parent made for that delegation), find_key_for_ds in
\* create_child_node, which compares no owner, picks that same key.
KeySelectionIsDesignated ==
    LET g == KeyGroup(km)
        r == km[4]
        ta == TaKeyFor(g, r)
    IN /\ ToSet(ta) = DesignatedKeys(g, r, TRUE)
       /\ r.type = "DS" /\ r.class = "IN" /\ r.digest[1] = r.owner
          => FindKeyForDs(r, g) = ta
=============================================================================

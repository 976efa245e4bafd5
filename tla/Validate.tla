------------------------------- MODULE Validate -------------------------------
(***************************************************************************)
(* The algorithm layer of src/src/validate.rs that the validator relies   *)
(* on: which DNSSEC algorithms and DS digest types it claims to support,  *)
(* what verify_signed_data and DnskeyExt::digest actually do with them,   *)
(* and the two parsers of an RSA public key in DNSKEY format (RFC 3110).  *)
(* Algorithms and digest types are their IANA numbers.  A byte holds      *)
(* 0..BYTE-1 instead of 0..255, and RSA_MIN_BYTES stands for 1024 / 8.    *)
(* The cryptography itself is the input sigOk.                             *)
(***************************************************************************)
EXTENDS Naturals, Sequences, FiniteSetsExt

CONSTANTS
    BYTE, RSA_MIN_BYTES,
    P256_KEY, P384_KEY,        \* bytes of a stored ECDSA key, marker included
    ED25519_KEY, ED448_KEY     \* bytes of a stored EdDSA key

RSASHA1 == 5
RSASHA1_NSEC3_SHA1 == 7
RSASHA256 == 8
RSASHA512 == 10
ECDSAP256SHA256 == 13
ECDSAP384SHA384 == 14
ED25519 == 15
ED448 == 16
RsaAlgs == {RSASHA1, RSASHA1_NSEC3_SHA1, RSASHA256, RSASHA512}

SHA1 == 1
SHA256 == 2
SHA384 == 4

\* supported_algorithm, which the comment above it says must match the
\* algorithms verify_signed_data handles.
SupportedAlgorithm(a) == a \in RsaAlgs \cup {ECDSAP256SHA256}

\* supported_digest, which must match the digests DnskeyExt::digest handles.
SupportedDigest(d) == d \in {SHA1, SHA256, SHA384}

\* DnskeyExt::digest: a digest context for SHA-1, SHA-256 and SHA-384,
\* Unsupported for any other digest type.
Digest(d) == IF d \in {SHA1, SHA256, SHA384} THEN "Ok" ELSE "Unsupported"

\* rsa_exponent_modulus: the exponent length is one byte, or 0 and two
\* big-endian bytes; the key must hold pos + exp_len bytes after pos and at
\* least minLen bytes after pos.
RsaExponentModulus(key, minLen) ==
    IF Len(key) <= 3 THEN [res |-> "InvalidData"]
    ELSE LET pos == IF key[1] = 0 THEN 3 ELSE 1
             expLen == IF key[1] = 0 THEN key[2] * BYTE + key[3] ELSE key[1]
         IN IF Len(key) - pos < pos + expLen THEN [res |-> "InvalidData"]
            ELSE IF Len(key) - pos < minLen THEN [res |-> "Unsupported"]
            ELSE [res |-> "Ok", e |-> SubSeq(key, pos + 1, pos + expLen),
                  n |-> SubSeq(key, pos + expLen + 1, Len(key))]

\* verify_signed_data for an RRSIG of algorithm sigAlg and a DNSKEY of
\* algorithm keyAlg holding key: the algorithms must agree; RSA keys are
\* split by rsa_exponent_modulus; RSA, ECDSA P-256/P-384 and Ed25519 are
\* handed to ring, whose verdict is sigOk; anything else is Unsupported.
VerifySignedData(sigAlg, keyAlg, key, sigOk) ==
    LET verdict == IF sigOk THEN "Ok" ELSE "BadSig" IN
    IF sigAlg # keyAlg THEN "InvalidData"
    ELSE IF sigAlg \in RsaAlgs
         THEN LET split == RsaExponentModulus(key, RSA_MIN_BYTES)
              IN IF split.res = "Ok" THEN verdict ELSE split.res
    ELSE IF sigAlg \in {ECDSAP256SHA256, ECDSAP384SHA384, ED25519} THEN verdict
    ELSE "Unsupported"

\* RsaPublicKey::from_dnskey: the exponent length is one byte, or 0 and
\* two big-endian bytes that are not both 0; the exponent must be there,
\* and the rest is the modulus.
RsaFromDnskey(data) ==
    IF Len(data) < 3 THEN [ok |-> FALSE]
    ELSE IF data[1] = 0 /\ data[2] = 0 /\ data[3] = 0 THEN [ok |-> FALSE]
    ELSE LET off == IF data[1] # 0 THEN 1 ELSE 3
             expLen == IF data[1] # 0 THEN data[1] ELSE data[2] * BYTE + data[3]
         IN IF Len(data) - off < expLen THEN [ok |-> FALSE]
            ELSE [ok |-> TRUE, e |-> SubSeq(data, off + 1, off + expLen),
                  n |-> SubSeq(data, off + expLen + 1, Len(data))]

\* The bytes of a big-endian integer after its leading zeros.
StripLeading(a) ==
    LET nz == {i \in 1..Len(a) : a[i] # 0}
    IN IF nz = {} THEN <<>> ELSE SubSeq(a, Min(nz), Len(a))

\* Variant: cmp_without_leading strips the zeros of its first argument only.
CmpWithoutLeadingOneSided(a, b) == StripLeading(a) = b

\* cmp_without_leading: equal after stripping leading zeros (compared in
\* constant time when the lengths agree).
CmpWithoutLeading(a, b) == StripLeading(a) = StripLeading(b)

\* PartialEq for RsaPublicKey: equal moduli and equal exponents.
RsaEq(k1, k2) == CmpWithoutLeading(k1.n, k2.n) /\ CmpWithoutLeading(k1.e, k2.e)

\* Variant: the two-byte length written little-endian.
RsaToDnskeyLittleEndian(k) ==
    IF Len(k.e) < BYTE THEN <<Len(k.e)>> \o k.e \o k.n
    ELSE <<0, Len(k.e) % BYTE, Len(k.e) \div BYTE>> \o k.e \o k.n

\* RsaPublicKey::to_dnskey: a one-byte exponent length when it fits in a
\* u8, else 0 and the length as a big-endian u16 (an exponent of 64 KiB or
\* more is unreachable!, and the keys parsed here are shorter).
RsaToDnskey(k) ==
    IF Len(k.e) < BYTE THEN <<Len(k.e)>> \o k.e \o k.n
    ELSE <<0, Len(k.e) \div BYTE, Len(k.e) % BYTE>> \o k.e \o k.n

\* The RawPublicKey the algorithm of a DNSKEY selects: an RSA key (e, n),
\* or the key bytes of ECDSA, with its uncompressed-point marker, or EdDSA.
RawKey(alg, e, n, bytes) == [alg |-> alg, e |-> e, n |-> n, bytes |-> bytes]
KeySize == [a \in {ECDSAP256SHA256, ECDSAP384SHA384, ED25519, ED448} |->
              CASE a = ECDSAP256SHA256 -> P256_KEY
                [] a = ECDSAP384SHA384 -> P384_KEY
                [] a = ED25519 -> ED25519_KEY
                [] OTHER -> ED448_KEY]

\* RawPublicKey::algorithm: the algorithm of the variant.
RawAlgorithm(k) == k.alg

\* RawPublicKey::from_dnskey: RsaPublicKey::from_dnskey for the RSA
\* algorithms; for ECDSA the data must be one byte shorter than the stored
\* key, which gets the marker 0x04 in front; for EdDSA the data is the key
\* of its fixed size; any other algorithm is unsupported.
RawFromDnskey(alg, data) ==
    LET ok(k) == [res |-> "Ok", key |-> k]
        invalid == [res |-> "InvalidKey"]
    IN CASE alg \in RsaAlgs ->
              LET r == RsaFromDnskey(data)
              IN IF r.ok THEN ok(RawKey(alg, r.e, r.n, <<>>)) ELSE invalid
         [] alg \in {ECDSAP256SHA256, ECDSAP384SHA384} ->
              IF KeySize[alg] = 1 + Len(data)
              THEN ok(RawKey(alg, <<>>, <<>>, <<4>> \o data)) ELSE invalid
         [] alg \in {ED25519, ED448} ->
              IF Len(data) = KeySize[alg]
              THEN ok(RawKey(alg, <<>>, <<>>, data)) ELSE invalid
         [] OTHER -> [res |-> "UnsupportedAlgorithm"]

\* Variant: an ECDSA key written back with its marker byte.
RawToDnskeyWithMarker(k) ==
    IF k.alg \in RsaAlgs THEN RsaToDnskey(k) ELSE k.bytes

\* RawPublicKey::to_dnskey: RsaPublicKey::to_dnskey, the ECDSA key without
\* its marker byte, the EdDSA key as it is.
RawToDnskey(k) ==
    CASE k.alg \in RsaAlgs -> RsaToDnskey(k)
      [] k.alg \in {ECDSAP256SHA256, ECDSAP384SHA384} -> Tail(k.bytes)
      [] OTHER -> k.bytes

\* PartialEq for RawPublicKey: the same variant, and equal RSA keys or
\* equal key bytes (verify_slices_are_equal).
RawEq(k1, k2) ==
    /\ k1.alg = k2.alg
    /\ IF k1.alg \in RsaAlgs THEN RsaEq(k1, k2) ELSE k1.bytes = k2.bytes

\* An owner name is the sequence of its labels, the root label "" last.

\* Variant: the root label counted with the others.
FqdnLabelsWithRoot(owner) == Len(owner)

\* fqdn_labels: the label count less the root label.
FqdnLabels(owner) == Len(owner) - 1

\* The suffix of the owner that iter_suffixes().nth(fqdn_labels -
\* rrsig_labels) yields (the owner itself first, the root last), or the
\* owner when nth runs past the end.
EncloserSuffix(owner, sigLabels) ==
    LET k == FqdnLabels(owner) - sigLabels
    IN IF k < Len(owner) THEN SubSeq(owner, k + 1, Len(owner)) ELSE owner

\* RrsigExt::wildcard_closest_encloser: Some(encloser) when the owner has
\* more labels than the RRSIG's Labels field, else None (<<>>).
WildcardClosestEncloser(owner, sigLabels) ==
    IF sigLabels < FqdnLabels(owner) THEN <<EncloserSuffix(owner, sigLabels)>> ELSE <<>>

\* The owner name RrsigExt::signed_data writes for a record: "*." and the
\* same suffix for an expanded wildcard, else the owner itself.
SignedOwner(owner, sigLabels) ==
    IF sigLabels < FqdnLabels(owner) THEN <<"*">> \o EncloserSuffix(owner, sigLabels)
    ELSE owner
=============================================================================

------------------------------ MODULE KeyMatch -------------------------------
(***************************************************************************)
(* The selection of the DNSKEY that a trust anchor or a DS designates, in  *)
(* src/src/validator/context.rs: has_key and has_ds, which Node::           *)
(* trust_anchor applies to each anchor RR, and find_key_for_ds, which       *)
(* create_child_node applies to each DS of a delegation.  A DNSKEY record   *)
(* is a record of its owner, class, key material (`mat`: flags, protocol    *)
(* and public key), algorithm and key tag.  The key tag is a 16-bit         *)
(* checksum and may collide; the digest of DnskeyExt::digest is modelled by *)
(* what it hashes, the owner name and the key material, so digests collide *)
(* only when their inputs do.                                              *)
(***************************************************************************)
EXTENDS Validate, SequencesExt

\* The digest of a key that DnskeyExt::digest computes for a supported
\* digest type: a hash of the canonical owner and the RDATA.
KeyDigest(k) == <<k.owner, k.mat>>

\* The first record of a sequence that satisfies a test, as <<r>>, or <<>>
\* when none does: the `for ... { continue; ... return Some(..) } None`
\* loops of the three functions.
FirstMatch(s, Test(_)) ==
    LET i == SelectInSeq(s, Test) IN IF i = 0 THEN <<>> ELSE <<s[i]>>

\* has_key: the first DNSKEY of the group with the anchor's owner, class
\* and type whose RDATA equals the anchor's.
HasKey(keys, t) ==
    FirstMatch(keys, LAMBDA k: k.owner = t.owner /\ k.class = t.class /\ k.mat = t.mat)

\* has_ds: the first DNSKEY with the DS's owner and class, algorithm and
\* key tag, whose digest of the DS's digest type is computed without error
\* and equals the DS digest.
HasDs(keys, t) ==
    FirstMatch(keys, LAMBDA k:
        /\ k.owner = t.owner /\ k.class = t.class
        /\ k.alg = t.alg /\ k.tag = t.tag
        /\ Digest(t.dtype) = "Ok" /\ KeyDigest(k) = t.digest)

\* The anchor-RR dispatch of Node::trust_anchor: has_key for a DNSKEY
\* anchor, has_ds for a DS anchor, nothing for any other type.
TaKeyFor(keys, t) ==
    CASE t.type = "DNSKEY" -> HasKey(keys, t)
      [] t.type = "DS" -> HasDs(keys, t)
      [] OTHER -> <<>>

\* Variant: the key chosen by algorithm and key tag alone.
FindKeyForDsByTag(ds, keys) ==
    FirstMatch(keys, LAMBDA k: k.alg = ds.alg /\ k.tag = ds.tag)

\* find_key_for_ds: the first key with the DS's algorithm and key tag whose
\* digest, computed over the key's own owner, equals the DS digest.  It
\* checks neither owner nor class.
FindKeyForDs(ds, keys) ==
    FirstMatch(keys, LAMBDA k:
        /\ k.alg = ds.alg /\ k.tag = ds.tag
        /\ Digest(ds.dtype) = "Ok" /\ KeyDigest(k) = ds.digest)
=============================================================================

----------------------------- MODULE TrustAnchor -----------------------------
(***************************************************************************)
(* TrustAnchorResolver: Node::trust_anchor in src/src/validator/context.rs.*)
(* The DNSKEY RRset of the anchor owner is fetched; for every anchor RR a  *)
(* matching key is looked for (has_key for a DNSKEY anchor, has_ds for a   *)
(* DS anchor) and each RRSIG carrying that key's tag is verified until one *)
(* succeeds.  Failed verifications are counted against MAX_BAD_SIGS, the   *)
(* KeyTrap budget.                                                         *)
(***************************************************************************)
EXTENDS Node, Sequences

CONSTANT MAX_BAD_SIGS   \* MAX_BAD_SIGS of validator::group

\* The verification loop over the anchor RRs (outer for) and the RRSIGs
\* with a matching tag (inner for).  `bad` is bad_sigs; `checks` counts the
\* calls of check_sig_cached.  The result says how the loop ended and how
\* many signatures it verified.
RECURSIVE TaVerify(_, _, _), SigLoop(_, _, _, _)

\* Variant: bad_sigs restarted for every anchor RR.
TaVerifyResetBad(rrs, bad, checks) ==
    IF rrs = <<>> THEN [outcome |-> "Bogus", checks |-> checks]
    ELSE IF ~Head(rrs).match THEN TaVerify(Tail(rrs), 0, checks)
    ELSE SigLoop(Head(rrs).sigs, Tail(rrs), 0, checks)

TaVerify(rrs, bad, checks) ==
    IF rrs = <<>> THEN [outcome |-> "Bogus", checks |-> checks]
    ELSE IF ~Head(rrs).match THEN TaVerify(Tail(rrs), bad, checks)
    ELSE SigLoop(Head(rrs).sigs, Tail(rrs), bad, checks)

SigLoop(sigs, rest, bad, checks) ==
    IF sigs = <<>> THEN TaVerify(rest, bad, checks)
    ELSE IF Head(sigs) THEN [outcome |-> "Secure", checks |-> checks + 1]
    \* bad_sigs > MAX_BAD_SIGS reaches todo!()
    ELSE IF bad + 1 > MAX_BAD_SIGS THEN [outcome |-> "Panic", checks |-> checks + 1]
    ELSE SigLoop(Tail(sigs), rest, bad + 1, checks + 1)

\* The node Node::trust_anchor returns for `owner` on `reply`, or a panic.
TaNode(reply, owner, now) ==
    IF reply.kind # "DNSKEY"
    THEN NewDelegation(owner, "Bogus", {}, BOGUS_TTL, now)
    ELSE LET v == TaVerify(reply.rrs, 0, 0) IN
         CASE v.outcome = "Secure" ->
                NewDelegation(owner, "Secure", {owner},
                              MinD(MAX_NODE_VALID, reply.ttl), now)
           [] v.outcome = "Panic" -> PanicOutcome
           [] OTHER -> NewDelegation(owner, "Bogus", {}, BOGUS_TTL, now)
=============================================================================

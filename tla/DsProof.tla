------------------------------- MODULE DsProof -------------------------------
(***************************************************************************)
(* NegativeProofEvaluator, DS-absence specialisation: nsec_for_ds and      *)
(* nsec3_for_ds in src/src/validator/context.rs.  Each returns a CNsecState*)
(* and a TTL, or "Panic" where the code reaches todo!().                   *)
(***************************************************************************)
EXTENDS Node, Sequences

\* Group::validate_with_node (validator::group, not in this source tree):
\* a signature verifies when the record is genuinely signed by `zone` and
\* the node holds that zone's keys.  Wildcard expansion is not modelled.
ValidateWithNode(node, rec, zone) ==
    IF rec.signed /\ zone \in node.keys THEN "Secure" ELSE "Bogus"

Result(st, ttl) == [st |-> st, ttl |-> ttl]
Panic == Result("Panic", 0)

\* The bitmap rules shared by an exact NSEC and an exact NSEC3 match.
ExactMatch(v, g) ==
    IF v # "Secure" \/ "DS" \in g.types \/ "SOA" \in g.types THEN Panic
    ELSE IF "NS" \in g.types THEN Result("InsecureDelegation", g.ttl)
    ELSE Result("SecureIntermediate", g.ttl)

\* nsec_for_ds: only the first NSEC group is looked at, because every path
\* through the loop body returns or reaches todo!().
NsecForDs(nsecs, node, zone) ==
    IF nsecs = <<>> THEN Result("Nothing", MAX_NODE_VALID)
    ELSE LET g == Head(nsecs)
             v == ValidateWithNode(node, g, zone)
         IN IF g.match = "exact" THEN ExactMatch(v, g)
            \* the owner is an ancestor: reject Bogus and delegation NSECs
            ELSE IF g.ancestor /\ v = "Bogus" THEN Result("Bogus", g.ttl)
            ELSE IF g.ancestor /\ "NS" \in g.types /\ "SOA" \notin g.types THEN Panic
            \* name in range and next name below it: empty non-terminal
            ELSE IF g.match = "cover"
                 THEN IF v # "Secure" THEN Panic ELSE Result("SecureIntermediate", g.ttl)
            ELSE Panic

\* nsec3_for_ds: NSEC3 groups are tried in order until one matches.
RECURSIVE Nsec3ForDs(_, _, _)
Nsec3ForDs(nsec3s, node, zone) ==
    IF nsec3s = <<>> THEN Result("Nothing", MAX_NODE_VALID)
    ELSE LET g == Head(nsec3s)
             v == ValidateWithNode(node, g, zone)
         IN IF ~g.iterOk \/ g.match = "zone" THEN Panic  \* iteration limits, wrong zone
            ELSE IF g.match = "exact" THEN ExactMatch(v, g)
            ELSE IF g.match = "cover"
                 THEN IF v # "Secure" \/ ~g.optout THEN Panic
                      ELSE Result("InsecureDelegation", g.ttl)
            ELSE Nsec3ForDs(Tail(nsec3s), node, zone)
=============================================================================

--------------------------- MODULE MessageValidator ---------------------------
(***************************************************************************)
(* ValidationContext::validate_msg and validate_groups                     *)
(* (src/src/validator/context.rs) as operators over one reply.  The        *)
(* collaborators of validator/utilities.rs, validator/nsec.rs and          *)
(* validator/group.rs are not in this tree: a reply is given by what each *)
(* of them returns for it (the state of each RR group, the CNAME/DNAME     *)
(* chase, the answer and SOA states, the outcome of each NSEC and NSEC3    *)
(* proof); the answer is <<>> when get_answer_state finds none.  The      *)
(* extended errors are left out; a verdict is the ValidationState          *)
(* returned, FormError, or Panic for a panic!, an unwrap() of an error or *)
(* a todo!().                                                              *)
(***************************************************************************)
EXTENDS Sequences

\* What Group::validate_with_vc yields for one group: a state, or an error
\* that validate_groups unwraps.
GroupOutcomes == {"Secure", "Insecure", "Indeterminate", "Bogus", "Error"}

\* validate_groups: the groups in order; the first Bogus group ends the loop
\* with Err(Bogus), and an error from validate_with_vc panics in unwrap().
RECURSIVE ValidateGroups(_)
ValidateGroups(gs) ==
    IF gs = <<>> THEN "Ok"
    ELSE IF Head(gs) = "Error" THEN "Panic"
    ELSE IF Head(gs) = "Bogus" THEN "Bogus"
    ELSE ValidateGroups(Tail(gs))

\* map_maybe_secure (validator/utilities.rs): a Secure result takes the
\* state the CNAME/DNAME chain allows; any other result stands.
MapMaybeSecure(result, maybeSecure) ==
    IF result = "Secure" THEN maybeSecure ELSE result

\* A positive NOERROR answer (get_answer_state returned Some): its state if
\* that is not Secure or there is no wildcard; for a wildcard expansion the
\* query for the wildcard itself, or check_not_exists_for_wildcard deciding.
\* ce is the closest encloser: "None", "BadStar" when star_closest_encloser
\* fails, "Star" when sname is the wildcard name, "Other" otherwise.
AnswerVerdict(a, maybeSecure) ==
    IF a.state # "Secure" \/ a.ce = "None" THEN MapMaybeSecure(a.state, maybeSecure)
    ELSE IF a.ce = "BadStar" THEN "Bogus"
    ELSE IF a.ce = "Star" THEN MapMaybeSecure(a.state, maybeSecure)
    ELSE IF a.wcOk THEN MapMaybeSecure(a.wcState, maybeSecure)
    ELSE "Bogus"

\* Variant: the NSEC3 NODATA proof returns Secure without map_maybe_secure.
NodataVerdictUnmapped(r, maybeSecure) ==
    IF r.nsecNodata = "NoData" THEN MapMaybeSecure("Secure", maybeSecure)
    ELSE IF r.nsecNodataWc = "NoData" THEN MapMaybeSecure("Secure", maybeSecure)
    ELSE IF r.nsec3Nodata = "NoData" THEN "Secure"
    ELSE IF r.nsec3Nodata \in {"NoDataInsecure", "Bogus"} THEN "Panic"
    ELSE IF r.nsec3NotExists = "DoesNotExistInsecure" THEN "Insecure"
    ELSE IF r.nsec3NotExists = "Bogus" THEN "Bogus"
    ELSE IF r.nsec3NotExists \in {"Insecure", "Nothing"} THEN "Panic"
    ELSE IF ~r.starOk THEN "Bogus"
    ELSE IF r.nsec3NodataStar = "NoData" THEN MapMaybeSecure("Secure", maybeSecure)
    ELSE "Panic"

\* NOERROR without an answer: nsec_for_nodata, nsec_for_nodata_wildcard,
\* nsec3_for_nodata, then nsec3_for_not_exists followed by
\* nsec3_for_nodata of the wildcard at the closest encloser, first success
\* winning; every result the code leaves to todo!() panics.
NodataVerdict(r, maybeSecure) ==
    IF r.nsecNodata = "NoData" THEN MapMaybeSecure("Secure", maybeSecure)
    ELSE IF r.nsecNodataWc = "NoData" THEN MapMaybeSecure("Secure", maybeSecure)
    ELSE IF r.nsec3Nodata = "NoData" THEN MapMaybeSecure("Secure", maybeSecure)
    ELSE IF r.nsec3Nodata \in {"NoDataInsecure", "Bogus"} THEN "Panic"
    ELSE IF r.nsec3NotExists = "DoesNotExistInsecure" THEN "Insecure"
    ELSE IF r.nsec3NotExists = "Bogus" THEN "Bogus"
    ELSE IF r.nsec3NotExists \in {"Insecure", "Nothing"} THEN "Panic"
    ELSE IF ~r.starOk THEN "Bogus"
    ELSE IF r.nsec3NodataStar = "NoData" THEN MapMaybeSecure("Secure", maybeSecure)
    ELSE "Panic"

\* Variant: a reply without any NXDOMAIN proof is taken as unsigned.
NxdomainVerdictNoProofInsecure(r, maybeSecure) ==
    IF r.nsecNx = "Exists" THEN "Bogus"
    ELSE IF r.nsecNx = "DoesNotExist" THEN MapMaybeSecure("Secure", maybeSecure)
    ELSE IF r.nsec3Nx = "DoesNotExist" THEN MapMaybeSecure("Secure", maybeSecure)
    ELSE IF r.nsec3Nx = "DoesNotExistInsecure" THEN "Insecure"
    ELSE IF r.nsec3Nx = "Bogus" THEN "Bogus"
    ELSE IF r.nsec3Nx = "Insecure" THEN "Panic"
    ELSE "Insecure"

\* Any other rcode: nsec_for_nxdomain, then nsec3_for_nxdomain, else Bogus.
NxdomainVerdict(r, maybeSecure) ==
    IF r.nsecNx = "Exists" THEN "Bogus"
    ELSE IF r.nsecNx = "DoesNotExist" THEN MapMaybeSecure("Secure", maybeSecure)
    ELSE IF r.nsec3Nx = "DoesNotExist" THEN MapMaybeSecure("Secure", maybeSecure)
    ELSE IF r.nsec3Nx = "DoesNotExistInsecure" THEN "Insecure"
    ELSE IF r.nsec3Nx = "Bogus" THEN "Bogus"
    ELSE IF r.nsec3Nx = "Insecure" THEN "Panic"
    ELSE "Bogus"

\* Without a positive answer: get_soa_state decides first (no SOA is
\* Bogus, a SOA that is not Secure gives its own state), then the NODATA
\* proofs for NOERROR and the NXDOMAIN proofs for every other rcode.
NegativeVerdict(r, maybeSecure) ==
    IF r.soa = "None" THEN "Bogus"
    ELSE IF r.soa # "Secure" THEN r.soa
    ELSE IF r.rcode = "NOERROR" THEN NodataVerdict(r, maybeSecure)
    ELSE NxdomainVerdict(r, maybeSecure)

\* validate_msg: validate_groups on the answer, then the authority section
\* (a Bogus group makes the reply Bogus), then exactly one question, then
\* the CNAME/DNAME chase, whose state caps every Secure verdict.
ValidateMsg(r) ==
    LET ans == ValidateGroups(r.answers)
        auth == ValidateGroups(r.authorities)
        maybeSecure == MapMaybeSecure(r.cname, "Secure")
    IN IF ans # "Ok" THEN ans
       ELSE IF auth # "Ok" THEN auth
       ELSE IF r.questions # 1 THEN "FormError"
       ELSE IF maybeSecure = "Bogus" THEN "Bogus"
       ELSE IF r.rcode = "NOERROR" /\ r.answer # <<>> THEN AnswerVerdict(Head(r.answer), maybeSecure)
       ELSE NegativeVerdict(r, maybeSecure)
=============================================================================

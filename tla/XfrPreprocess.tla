---------------------------- MODULE XfrPreprocess ----------------------------
(***************************************************************************)
(* XfrMiddlewareSvc::preprocess (src/src/net/server/middleware/xfr.rs):    *)
(* what the middleware does with one request.  A request is abstracted to  *)
(* the facts the code branches on; the catalog's answers (the zone, its    *)
(* type, allow_xfr.get_caller, the diffs) are inputs of the request.      *)
(***************************************************************************)
EXTENDS Naturals

QTypes == {"SOA", "AXFR", "IXFR", "Other"}
Strategies == {"AxfrOnly", "IxfrOnly", "IxfrWithAxfrFallback"}
Keys == {"none", "k1", "k2"}

\* zone: get_zone's result and the zone type; caller: the XfrSettings
\* strategy get_caller returns for the client, or "Denied"; key: the TSIG
\* key configured for the caller; signedWith: the key the request carries.
Requests ==
    [qtype: QTypes, zone: {"Unknown", "Primary", "Secondary"},
     caller: Strategies \cup {"Denied"}, key: {"none", "k1"},
     signedWith: Keys, hasSoa: BOOLEAN, udp: BOOLEAN,
     mode: {"AxfrAndIxfr", "AxfrOnly"}, authSoas: 0..2,
     upToDate: BOOLEAN, diffs: BOOLEAN]

Continue == [kind |-> "Continue"]
Error(rcode) == [kind |-> "Error", rcode |-> rcode]
Stream(kind) == [kind |-> kind]

\* settings_for_client: the caller's settings and key, or none when the
\* zone is not primary, the client is not listed, or its strategy rules
\* out the query type.
SettingsForClient(r) ==
    IF \/ r.zone # "Primary"
       \/ r.caller = "Denied"
       \/ <<r.qtype, r.caller>> \in {<<"AXFR", "IxfrOnly">>, <<"IXFR", "AxfrOnly">>}
    THEN [strategy |-> "none", key |-> "none"]
    ELSE [strategy |-> r.caller, key |-> r.key]

\* Variant: only a missing signature is refused.
TsigMismatchUnsignedOnly(expected, actual) == expected # "none" /\ actual = "none"

\* The TSIG check: the request must be signed with exactly the expected
\* key, or unsigned when none is expected.
TsigMismatch(expected, actual) == expected # actual

\* do_ixfr and compute_ixfr up to the spawn of the batcher.
DoIxfr(r) ==
    IF r.mode = "AxfrOnly" THEN "Fallback"
    ELSE IF r.authSoas # 1 THEN "FORMERR"
    ELSE IF r.upToDate THEN "SoaOnly"
    ELSE IF ~r.diffs THEN "Fallback"
    ELSE "Ixfr"

\* preprocess: the response stream, or Continue to the next service.
Preprocess(r) ==
    LET s == SettingsForClient(r) IN
    IF r.qtype = "Other" THEN Continue
    ELSE IF r.zone = "Unknown" THEN Error("NOTAUTH")
    ELSE IF TsigMismatch(s.key, r.signedWith) THEN Error("NOTAUTH")
    ELSE IF ~r.hasSoa THEN Error("SERVFAIL")
    ELSE IF r.qtype = "SOA" THEN Stream("Soa")
    ELSE IF s.strategy = "none" THEN Error("REFUSED")
    ELSE IF r.qtype = "AXFR"
         THEN IF r.udp THEN Error("NOTIMP") ELSE Stream("Axfr")
    ELSE CASE DoIxfr(r) = "Ixfr" -> Stream("Ixfr")
           [] DoIxfr(r) = "SoaOnly" -> Stream("Soa")
           [] DoIxfr(r) = "FORMERR" -> Error("FORMERR")
           [] DoIxfr(r) = "Fallback" ->
                IF s.strategy # "IxfrWithAxfrFallback" THEN Error("REFUSED")
                ELSE Stream("Axfr")
=============================================================================

------------------------------- MODULE Cookies -------------------------------
(***************************************************************************)
(* CookiesMiddlewareSvc (src/src/net/server/middleware/cookies.rs): the    *)
(* DNS cookie gate in front of a service.  Serial numbers are the RFC 1982 *)
(* arithmetic of the Serial type, on SERIAL_BITS bits instead of 32, with  *)
(* the one-hour and five-minute windows scaled to HOUR and FIVE_MINUTES.   *)
(***************************************************************************)
EXTENDS Naturals

CONSTANTS SERIAL_BITS, HOUR, FIVE_MINUTES

Serials == 0..(2^SERIAL_BITS - 1)
Half == 2^(SERIAL_BITS - 1)

\* Serial::add: addition modulo 2^SERIAL_BITS.
SerialAdd(s, n) == (s + n) % 2^SERIAL_BITS

\* Serial's partial order (RFC 1982 section 3.2): two serials that differ
\* by exactly half the space are not comparable, and <= is then false.
SerialLt(a, b) == (a < b /\ b - a < Half) \/ (a > b /\ a - b > Half)
SerialLe(a, b) == a = b \/ SerialLt(a, b)

\* Variant: the two windows exchanged.
TimestampOkSwapped(now, serial) ==
    SerialLe(now, SerialAdd(serial, FIVE_MINUTES))
    /\ SerialLe(serial, SerialAdd(now, HOUR))

\* timestamp_ok: the cookie's timestamp is at most an hour in the past
\* and at most five minutes in the future, in serial arithmetic.
TimestampOk(now, serial) ==
    SerialLe(now, SerialAdd(serial, HOUR))
    /\ SerialLe(serial, SerialAdd(now, FIVE_MINUTES))

\* A request, abstracted to what preprocess branches on.  cookie is the
\* first COOKIE option: none, unparseable, a client cookie alone, or a
\* client and a server cookie; hashOk says the server cookie's hash is the
\* one this server computes for the client address, ts is its timestamp
\* and now the clock when the request is processed.
CookieRequests(Now, Ts) ==
    [cookie: {"none", "malformed", "client", "server"}, hashOk: BOOLEAN,
     ts: Ts, now: Now, udp: BOOLEAN, denied: BOOLEAN, qdcount0: BOOLEAN]

\* Cookie::check_server_hash: a server cookie whose hash verifies and whose
\* timestamp timestamp_ok accepts.
CheckServerHash(r) ==
    r.cookie = "server" /\ r.hashOk /\ TimestampOk(r.now, r.ts)

Pass == [kind |-> "Continue"]
\* A response preprocess breaks with; serverCookie says response_with_cookie
\* attached a fresh server cookie, tc is the truncation bit.
Reply(rcode, tc, serverCookie) ==
    [kind |-> "Break", rcode |-> rcode, tc |-> tc, serverCookie |-> serverCookie]

\* Variant: an invalid cookie on a query is let through on every transport.
CookieArmAllExempt(r) ==
    IF ~CheckServerHash(r)
    THEN IF r.qdcount0
         THEN Reply(IF r.cookie = "client" THEN "NOERROR" ELSE "BADCOOKIE", FALSE, TRUE)
         ELSE Pass
    ELSE IF r.qdcount0 THEN Reply("NOERROR", FALSE, TRUE) ELSE Pass

\* The Some(Ok(cookie)) arm of preprocess.  An invalid or missing server
\* cookie: a query without questions gets the prefetch response (no
\* server cookie sent) or BADCOOKIE (an invalid one), a UDP query gets
\* BADCOOKIE, and a TCP query flows on.  A valid one: a query without
\* questions gets the prefetch response, any other flows on.
CookieArm(r) ==
    IF ~CheckServerHash(r)
    THEN IF r.qdcount0
         THEN Reply(IF r.cookie = "client" THEN "NOERROR" ELSE "BADCOOKIE", FALSE, TRUE)
         ELSE IF r.udp THEN Reply("BADCOOKIE", FALSE, TRUE) ELSE Pass
    ELSE IF r.qdcount0 THEN Reply("NOERROR", FALSE, TRUE) ELSE Pass

\* preprocess, and call, which hands a Continue to the inner service and
\* answers a Break with the response alone.  No cookie: a UDP client on
\* the deny list is REFUSED with TC set; a malformed cookie is FORMERR.
CookiesPreprocess(r) ==
    CASE r.cookie = "none" ->
            IF r.udp /\ r.denied THEN Reply("REFUSED", TRUE, FALSE) ELSE Pass
      [] r.cookie = "malformed" -> Reply("FORMERR", FALSE, FALSE)
      [] OTHER -> CookieArm(r)
=============================================================================

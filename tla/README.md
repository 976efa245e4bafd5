# TLA+ models of `domain`: the DNSSEC chain-of-trust engine, the server middlewares and the new name types

This directory holds TLA+ models of the validator in
`src/src/validator/context.rs`, of the DNS cookie and zone-transfer (XFR)
server middlewares in `src/src/net/server/middleware/`, of the name types
in `src/src/base/new_name/`, the TLC
configurations that check them, and
`PROJECT.json`, which lists every component, run, mutant, source mapping,
finding and hazard.

## The system and its parts

`ValidationContext` answers the question "which keys sign name N, and is N
Secure, Insecure, Bogus or Indeterminate?" (`get_node`). It keeps a shared
node cache (moka, `MAX_NODE_CACHE` entries) of `Node`s and serves any number
of concurrent callers. Each call is one async future. The future suspends
only at upstream queries (`request_as_groups`), so other callers can change
the cache between any two of its queries.

| part | code | what it does |
|---|---|---|
| NodeCache | `Node`, `cache_lookup`, `node_cache` | Immutable nodes with `created_at`/`valid_for`. A lookup ignores expired entries. moka may evict entries at any time. |
| ChainWalker | `get_node`, `find_closest_node` | Climbs from N towards the trust-anchor owner until it finds a cached ancestor. Then it walks down, one `create_child_node` per name, and inserts every node it builds. |
| TrustAnchorResolver | `Node::trust_anchor` | Fetches the anchor owner's DNSKEY RRset. Verifies it against each anchor RR. Failed signature checks count against `MAX_BAD_SIGS` (the KeyTrap defence). |
| DelegationResolver | `create_child_node` | DS query. With no DS RRset it tries a CNAME, then an NSEC proof, then an NSEC3 proof. Filters supported algorithms, then runs a DNSKEY query and matches key and signature. The child's TTL is bounded by the parent's remaining `ttl()`. |
| NegativeProofEvaluator | `nsec_for_ds`, `nsec3_for_ds` | Classifies the proof that no DS exists: insecure delegation, secure intermediate (an empty non-terminal), Bogus, or nothing. |
| MessageValidator | `validate_msg`, `validate_groups` | Validates every RR group of a reply through `get_node`. It requires one question and follows the CNAME/DNAME chain. Then it classifies the reply as a positive answer (wildcards included), NODATA or NXDOMAIN by the SOA and the NSEC/NSEC3 proofs in the authority section. |

The server side has middlewares that wrap a service:

| part | code | what it does |
|---|---|---|
| Cookies | `CookiesMiddlewareSvc::preprocess`, `timestamp_ok`, `call` | Reads the first COOKIE option. Answers FORMERR for a malformed one, REFUSED+TC for a cookie-less UDP client on the deny list, BADCOOKIE (or NOERROR with a fresh cookie for a prefetch query) for an invalid one, and lets the rest through to the inner service. |
| XFR preprocess | `XfrMiddlewareSvc::preprocess`, `settings_for_client`, `do_ixfr` | Decides for an SOA/AXFR/IXFR query: NOTAUTH, REFUSED, NOTIMP, FORMERR, an SOA answer, an IXFR stream, or an AXFR stream (also as IXFR fallback). |
| AXFR stream | `do_axfr`, `RrBatcher::push` | Two tokio tasks joined by a 100-entry channel: the zone walker sends every RRset and then the SOA; the batcher packs their records into messages under a soft byte limit (and a hard limit of one record in compatibility mode) and sends them to the response stream. |
| IXFR stream | `do_ixfr`, `compute_ixfr` (the spawned task) | Packs the zone SOA, each diff's old SOA, deletions, new SOA and additions, and the zone SOA into messages with an `RrBatcher` that has no limits, and sends them on an unbounded response channel. |
| XFR concurrency | the semaphores of `XfrMiddlewareSvc::new` | Meant to bound the number of concurrent zone walks and batchers to `max_concurrency`. |

`base/new_name` holds `Label` and `UncertainName`, an absolute or relative
domain name kept in wire format: parsing (`from_bytes`), splitting, suffix
tests and the canonical order (`Ord::cmp`). Nothing else in this tree uses
them yet.

`validate.rs` holds the algorithm layer the validator calls: which DNSSEC
algorithms and digest types count as supported (`create_child_node`
filters DS records with these), signature verification through ring, and
the RFC 3110 encoding of RSA public keys.

Signing wrappers and example programs are listed under "What is not
modelled".

## Modules

* `Node.tla`: the `Node` record and its constructors (`NewDelegation`,
  `NewIntermediate`, `Indeterminate`), plus `Expired` and `Ttl` on the model
  clock. Keys are abstracted to the set of zone apexes whose DNSKEY RRset
  the node holds. `TtlPanics` marks the `Duration` underflow of `ttl()`.
* `DnsWorld.tla`: the environment, not code. It holds the namespace
  (`Names`, `Parent`, `Root`), the trust anchors and the real zone structure
  (`Kind`: Signed, Unsupported, Unsigned, OptOut, Ent, Cname). `Expected(n)`
  is the verdict the zone data supports. It also holds every upstream reply
  the model lets a query receive. The honest replies come from `Kind`. With
  `Attack` set, forged and replayed replies are added: failures, unsigned
  records, genuine records replayed at another name, and high-iteration
  NSEC3. A record's `signed` flag means the owning zone really signed it.
* `TrustAnchor.tla`: `Node::trust_anchor`. `TaVerify`/`SigLoop` are the two
  nested loops with their shared `bad_sigs`, as recursive operators. `TaNode`
  is the node (or panic) the function yields.
* `DsProof.tla`: `nsec_for_ds` and `nsec3_for_ds` as operators over the
  proof records of a DS reply. `ValidateWithNode` stands for
  `Group::validate_with_node`, whose source is not in this tree. A record
  verifies iff it is signed by its zone and the node holds that zone's keys.
* `ValidationContext.tla`: the concurrent callers.
  * Variables: `cache`, the clock `now`, and the locals of each suspended
    future: `pc`, `curr`, `names`, `node`, `signer`, `child`, `dsTtl`.
  * Actions: one per synchronous stretch between awaits.
    * `GetNode`: the cache hit, the no-anchor Indeterminate root, the
      direct-anchor query, or the start of the ascent.
    * `Ascend`: one iteration of `find_closest_node`.
    * `TaAnswer`: the anchor DNSKEY reply, the insert, then a return or the
      start of the walk.
    * `Walk`: the head of the `get_node` loop. An Insecure or Bogus node, or a
      Secure one with no name left (the plain `return Ok(node)` of
      context.rs:557-564), ends the call with that node; an Indeterminate one
      reaches the `todo!()` of context.rs:552; a Secure one with a name left
      pops it and sends its DS query.
    * `DsAnswer`: `create_child_node` up to the DNSKEY query, including
      `NoDsNode`/`CnameNode` and the insert in `Created`.
    * `DnskeyAnswer`: the rest of `create_child_node`.
    * `Tick` advances the clock. `Evict` is a moka eviction.
  * A `todo!()`, `expect()` or `Duration` underflow is modelled as a panic:
    the call returns `PanicOutcome` and its future is dropped.
* `MCValidationContext.tla`: a namespace with the anchor `ex`, the empty
  non-terminal `a.ex` above the secure delegation `b.a.ex`, the insecure
  delegation `c.ex`, and `org`, which no anchor covers.
* `Cookies.tla`: `timestamp_ok` over RFC 1982 serial arithmetic on
  `SERIAL_BITS` bits (`SerialAdd`, `SerialLe`), and `preprocess` as one
  operator `CookiesPreprocess(r)` (with `CookieArm` for a request that
  carries a parseable cookie) from an abstract request (cookie kind,
  hash verified, timestamp, clock, transport, deny list, empty question
  section) to Continue or a reply (rcode, TC, fresh server cookie). `Serial`
  and `Cookie::check_server_hash` live in domain-core, which this tree does
  not hold; they are modelled from RFC 1982 and RFC 9018.
* `XfrPreprocess.tla`: `preprocess` of the XFR middleware as
  `Preprocess(r)`, with `SettingsForClient`, the TSIG check `TsigMismatch`
  and `DoIxfr`. The catalog's answers are fields of the request.
* `AxfrStream.tla`: the two tasks of `do_axfr`. The walker (`WalkSend`)
  and the batcher loop, one action per stretch of it: `BatchStart`,
  `OuterTop` (`num_rrs_added = 0`), `InnerTop` (the SOA test), `Push` (one
  iteration of the `for` loop, on the outcome of `BatchPush`, which is
  `RrBatcher::push`), `InnerEnd` (final batch or `recv`), `Send` (the send,
  the re-slice or the stop), `Fetch` ("Fetching more records") and
  `Finish`. RRsets are numbers in walk order, records `Rec(set, i, ttl)`
  where the TTL names the RRset whose TTL was used.
* `AxfrSpec.tla`: what an AXFR promises (RFC 5936): the stream sent so far
  is a prefix of SOA, every record of the zone, SOA; it grows, and it ends
  complete unless the client goes away.
* `XfrConcurrency.tla`: transfers starting and their walker and batcher
  tasks acquiring and releasing the semaphores, with the permit dropped the
  way `if sem.acquire().await.is_err()` drops it.
* `NewName.tla`: `UncertainName::from_bytes` (the label loop `Scan`),
  `split_first`, `parent`, `ends_with` (the boundary walk `Align`),
  `strip_suffix` and `Ord::cmp`
  (`NameCmp` and its loop `CmpLoop`), and `Label`'s `cmp`, `eq` (`LabelEq`) and
  `hash` (`LabelHash`, the bytes given to the hasher), on byte strings.
  The `cmp` loop is given fuel; running out of it is `"Hang"`, and a
  `split_first` that yields None under `unwrap_unchecked` is
  `"Undefined"`.
* `Validate.tla`: the algorithm layer of `validate.rs`:
  `supported_algorithm`, `supported_digest`, `DnskeyExt::digest` (as its
  Ok/Unsupported outcome), the dispatch of `verify_signed_data` with
  `rsa_exponent_modulus`, and `RsaPublicKey::from_dnskey`/`to_dnskey` and its `PartialEq`
  (`CmpWithoutLeading`). `RawPublicKey` (`RawKey`, a record of algorithm,
  RSA exponent and modulus, and the stored bytes) with `algorithm`,
  `from_dnskey` (`RawFromDnskey`: the size checks of `KeySize`, and the
  0x04 marker byte added to ECDSA keys), `to_dnskey` and its `PartialEq`.
  The owner name `signed_data` writes for an expanded wildcard
  (`SignedOwner`) and `wildcard_closest_encloser`, on names given as
  sequences of labels with the root left out.
  Algorithms and digest types are their IANA numbers, a key is a byte
  sequence, and ring's signature check is the input `sigOk`.
* `MessageValidator.tla`: `validate_groups` (`ValidateGroups`) and
  `validate_msg` (`ValidateMsg`, with one operator per stage:
  `AnswerVerdict`, `NegativeVerdict`, `NodataVerdict`, `NxdomainVerdict`).
  The collaborators in `validator/utilities.rs`, `nsec.rs` and `group.rs`
  are not in this tree, so the model takes a reply as the collection of
  their results. `MapMaybeSecure` is `map_maybe_secure`, modelled from the
  spec. A `panic!`, an `unwrap()` of an error or a `todo!()` is the verdict
  `"Panic"`.
* `KeyMatch.tla`: how a DNSKEY is chosen for an anchor RR (`HasKey`,
  `HasDs`, and the dispatch `TaKeyFor` of `Node::trust_anchor`) and for a
  DS (`FindKeyForDs`), each as the first key of the RRset that passes the
  loop's checks (`FirstMatch`). A key is its owner, class, key material,
  algorithm and key tag. The digest is modelled by what it hashes, the
  owner and the key material (`KeyDigest`), so digests collide only when
  their inputs do. Key tags are free inputs, so they do collide.
* `MCMiddleware.tla`: checks the operator modules over every bounded input
  (requests, cookie timestamps around the wrap-around, anchor replies), each
  against a reference: the XFR authorization rules, the RFC 9018 window,
  the cookie gate, the trust-anchor loop, and the name functions against
  the RFC 1035 wire format and the RFC 4034 canonical order, the algorithm
  support lists against the verifier, and the RSA key encoding against a
  round trip, `validate_msg` against what a Secure or Insecure verdict
  needs, and the key selection against the key an anchor or DS designates
  (RFC 4034 5.1.4, RFC 4035 5.2).
* `IxfrStream.tla`: the IXFR task. `IxfrRRsets` is the RRset order the
  task builds from the diffs (`DiffSequence` per diff). One action per
  stretch of the task: `NextRRset` (the head of the `for` loop over RRsets),
  `InnerStart` (the head of `'inner`), `IxPush` (one iteration of the `for`
  loop over `records_to_process`: the end of the slice, a record that
  fits, a full message, or a record too large for an empty message, which
  sends SERVFAIL and goes on with the next RRset), `SliceEnd` (the
  re-slice), `IxSend` (the intermediate message, then `'outer` again) and
  `IxFinish` (the last batch and `EndTransaction`, whose `unwrap()` panics
  when the client is gone). `ClientGone` is the environment.
* `MCXfrStream.tla`: composes the AXFR and IXFR machines; `kind` picks
  which one runs and the other stays at its initial state. It holds the
  zones and diffs for the runs, the refinement mapping to `AxfrSpec`
  (`sent` is the records of the messages sent so far, the state is closed
  after `EndTransaction`, aborted when the client is gone) and the IXFR
  stream properties.

## Runs

| run | expect | what it shows |
|---|---|---|
| `walk_attack` (`MCVC_attack.cfg`) | pass | `Authentic`: an attacker answers the anchor, DS and DNSKEY queries. Two callers interleave with expiry and eviction. Neither ever returns nor caches a Secure/Insecure verdict that the zone data does not support. `CallsReturn`: every `get_node` call returns, under weak fairness of each caller's own steps. |
| `honest_verdict` | violation | With an honest upstream, `b.a.ex` is reported Bogus. The other caller had cached the intermediate node for `a.ex`, and `find_closest_node` returned it as signer (context.rs:541). |
| `ttl_underflow` | violation | The parent expires while the DS query is outstanding, and `node.ttl()` panics (context.rs:1344). |
| `child_ttl` | violation | A SecureIntermediate child from an NSEC proof outlives its parent (context.rs:747). |
| `ixfr_resend` | violation | `IxfrStreamIsDiff`: a diff adding an RRset of three records, with two records per message, sends record 1 of that RRset in two messages. After a full message the batcher restarts `'inner` over the same `records_to_process` (xfr.rs:1066), and the re-slice at xfr.rs:1051 runs only after a completed `for` loop. An RRset larger than one message is resent until the bound. The counterexample sends no oversized record, so it does not pass through the SERVFAIL-and-continue branch of xfr.rs:1046; `axfr_limits` reaches that branch. |
| `middleware` | pass | `XfrAuthorized`: a zone is streamed only to a client the zone's settings allow, signed with its key. `TimestampOkIsWindow`: `timestamp_ok` accepts exactly the timestamps at most an hour old and at most five minutes ahead, also across the wrap-around. `CookieGate`: a UDP request reaches the service only with a valid server cookie or with none from an allowed address, and BADCOOKIE always carries a fresh cookie. `KeyTrapBudget`: `TaVerify` counts every `check_sig_cached` call apart from `bad_sigs`. Over all anchor RRs together the loop makes at most MAX_BAD_SIGS+1 such calls, and it is Secure exactly when a good signature is among the first MAX_BAD_SIGS+1 that the anchor RRs' keys meet. A `bad_sigs` restarted per anchor RR breaks it. How an exhausted budget ends is left open: the code reaches `todo!()` (context.rs:1253) where its comment promises Bogus; that is recorded as a hazard, not checked. `FromBytesIsWireFormat`: `from_bytes` accepts exactly the names the safety contract of `from_bytes_unchecked` (uncertain.rs:29-31) admits: wire format, at most `NAME_MAX_SIZE` bytes, and ending in the root label when exactly that long. The one exception is stated in the property: `from_bytes` also accepts a relative name of exactly `NAME_MAX_SIZE` bytes (uncertain.rs:58 tests only `len > MAX_SIZE`), against that contract; without the exception TLC reports `<<1, 0, 1, 0>>`. This is a hazard of uncertain.rs:71. `EndsWithIsLabelSuffix`: `ends_with` holds exactly for suffixes of whole labels. `UncheckedNamesWellFormed`: `parent` and `strip_suffix`, which wrap byte slices with `from_bytes_unchecked`, always give wire-format names with the expected labels. `KeySelectionIsDesignated`: the key `has_key` or `has_ds` picks for an anchor RR is the one it designates, or none, whatever the tags and the RRset order. `find_key_for_ds` picks the same key for a DS of the RRset's class whose digest covers its own owner. It compares no owner, so only the digest ties the key to the DS owner. The property assumes that case, so it does not cover the hazard of context.rs:926, where the DNSKEY group's owner is never compared with the child name. `LabelOrdEqHashAgree`: for every three labels, `Label::cmp` is Equal exactly when `eq` holds, equal labels feed the hasher the same bytes, and `cmp` is antisymmetric and transitive. All three compare ASCII-case-insensitively, each in its own code. `RsaEqIsNumeric`: `PartialEq` for `RsaPublicKey` holds exactly when exponents and moduli are equal as integers. `RawKeyRoundTrip`: a key that `RawPublicKey::from_dnskey` accepts, for any of the eight algorithms, keeps its algorithm and is written back by `to_dnskey` to the same key field, and the two keys compare equal. For RSA, `RsaPublicKey::from_dnskey` and `rsa_exponent_modulus` read the written bytes back the same way, with the one-byte and the three-byte exponent length. `WildcardEncloserAgrees`: owners are label sequences ending in the root label. Against a reference that counts the non-root labels of the owner's suffixes (RFC 4035 5.3.2): when the RRSIG's Labels field is below the owner's label count, `wildcard_closest_encloser` returns the suffix with exactly Labels labels and `signed_data` signs `*.` under it; otherwise it returns None and the owner itself is signed. Counting the root label (the `- 1` of validate.rs:550 and 587) breaks it. `MsgSecureNeedsProof`: `validate_msg` returns Secure only when four things hold: the reply has one question, no group is Bogus, the CNAME/DNAME chain is Secure, and there is either a Secure answer (a wildcard only with a Secure non-existence proof) or a Secure SOA with a NODATA or NXDOMAIN proof, never contradicted by an NSEC that shows the name. `MsgInsecureNeedsEvidence`: Insecure only from an insecure CNAME link, answer, wildcard proof or SOA, or an NSEC3 opt-out proof, never from a missing or failed proof. |
| `alg_support` | violation | `AlgorithmSupportMatches`: `supported_algorithm` (validate.rs:685) leaves out ECDSA P-384 (14) and Ed25519 (15), which `verify_signed_data` verifies, although the comment above it says the two must match. `create_child_node` drops DS records of unsupported algorithms (context.rs:889, 956), so a zone signed only with one of these is treated as an Insecure delegation and its answers go unvalidated. `supported_digest` matches `digest`. |
| `axfr_whole` | pass | `AxfrRefinement`: with zones that fit one message, the walker and batcher, in any interleaving, with the client leaving at any send, implement `AxfrSpec`, including that the transfer completes. |
| `axfr_limits` | pass | `TypeOK` (the channel never exceeds its capacity) and `MessageWithinLimits`: with two records per message, compatibility mode and a record too large for any message, no message exceeds the soft limit, and in compatibility mode each holds one record; IXFR messages are never empty and hold at most `Cap` records. `IxfrClosedBySoa`: with IXFR diffs too, every `EndTransaction` the IXFR task sends follows, with no message between, a message ending in the closing zone SOA, so the final batch held by `batcher.take()` is never lost. |
| `axfr_split` | violation | `StreamIsZone`: zone `<<2>>` with two records per message sends SOA and the first record, skips the second (the re-slice at xfr.rs:704 uses the message's count), and sends the final SOA with that RRset's TTL (xfr.rs:722 stores the fetched RRset in `zone_soa_rrset`). |
| `name_cmp` | violation | `NameCmpIsCanonical`: `cmp` of `\000.` and `\001.` never returns. The loop's break test `this_len < suffix` fails when both tails are exactly the shared suffix (uncertain.rs:326). The code also takes both heads from `self` (uncertain.rs:321). With both fixed, TLC still finds `\002.` ordered before `\001\002.`, because a length byte matched a content byte. |
| `xfr_concurrency` | violation | `ConcurrencyBounded`: with `max_concurrency` 1 and two AXFR requests, two tasks run past one semaphore whose permit was dropped at the end of the `if` condition. It is either two zone walks (xfr.rs:520) or two batchers (xfr.rs:585), both with counterexamples of depth 5; TLC reports the one it meets first. |

Each property of a passing run has a mutant in `PROJECT.json`: a plausible
code bug, defined next to the operator it replaces, which TLC shows breaks
the property. Examples: a CNAME accepted without validation, the anchor check
skipped in the ascent, the queued name not popped, `bad_sigs` reset per anchor
RR, and an off-by-one in the budget test.

## Bounds

* Two callers (`Tasks`), one call each. That is the least that exposes
  cache sharing: one caller inserts what the other walks from.
* Six names, covering every kind of child the code handles:
  * a secure delegation below an empty non-terminal (two levels below the
    anchor, so both ascent and walk loop);
  * an insecure delegation;
  * a name with no anchor.
* Node TTLs 1..2 and `MAX_NODE_VALID = 2`. Clock bound 2 for the honest
  runs and 1 under attack. One tick is enough for a node to expire while a
  query is in flight, which is where the TTL arithmetic matters.
* `MAX_BAD_SIGS = 1` as in the code. Three signatures per key exceed the
  budget by one.
* Cookies: serials on 5 bits (32 values) with the hour scaled to 6 and five
  minutes to 2, so the window (9 values) is a small part of the space and
  both the wrap-around and the incomparable half-way point are reached; the
  clock is 0 and a value 3 below the wrap. Every combination of cookie kind,
  hash, transport, deny list and question count.
* AXFR: zones of one to three RRsets with one to three records. The stream
  is checked with room for six records per message (one message), the
  limits with two per message, with a channel of capacity one or two (the
  code's 100 only matters when full, and capacity 1 makes the walker block),
  one record larger than any message, and at most 8 stream items.
* Keys: key sizes 3, 5, 2 and 4 stand for 65, 97, 32 and 57 bytes
  (P-256, P-384, Ed25519, Ed448), so a key field one byte short or long
  of each size is among the inputs. Wildcard owners are every name of up
  to 3 labels over `*`, `a` and `b`, and the Labels field is 0..4, one
  more than any owner.
* Names: bytes `{0, 1, 2, 3, 65, 97, 98}`, with `Label::MAX_SIZE` 2 (so 3
  plays the part of a length of 64 or more) and `Name::MAX_SIZE` 4. Every
  byte string of up to 5 bytes, every pair of names of up to 4 bytes,
  every pair of absolute names, and every triple of labels (root label
  included). The bytes include the digits of label
  lengths as content, upper and lower case of one letter, and two letters.
* Validate: a byte holds 0..2 (`BYTE = 3`), so the three-byte exponent
  length (0, high, low) is reached by exponents of three bytes or more;
  `RSA_MIN_BYTES = 2` stands for 1024/8. Every key of up to 7 bytes, the
  algorithms 3, 5, 7, 8, 10, 13, 14, 15, 16 (each RSA one, each the
  verifier handles, and unassigned or unhandled ones around them) and the
  digest types 1 to 4. For `PartialEq`, every pair of keys whose exponent
  and modulus have up to two bytes, leading zeros included.
* IXFR: three diff lists (a replacement, an addition of three records,
  and an addition undone by the next diff), `Cap = 2`, so the three-record
  RRset fills a message in its middle, and one record too large for a
  message. `MaxPush = 8` bounds the pushes per RRset, because the resend
  loop never ends by itself.
* validate_msg: four classes of replies, each varying the collaborator
  results that one stage reads, with every CNAME-chain state:
  * the group checks and question count (up to two groups per section);
  * every positive answer and wildcard case;
  * every SOA state and every combination of the five NODATA proof results;
  * every SOA state and NSEC/NSEC3 NXDOMAIN result, for NXDOMAIN and for
    another rcode.
* Key selection: two key materials. Each gets one of two algorithms and
  one of two key tags, so every combination of collisions occurs. They
  form a DNSKEY RRset of owner `z` in either order, or the RRset holds
  one key or none. Anchor and DS records range over two owners, two
  classes, both algorithms and tags, a supported and an unsupported digest
  type, and the digest of either key under either owner. Two keys with
  one tag are the least that shows a choice made by tag alone.
* XFR concurrency: two transfers and `max_concurrency = 1`, the least that
  can exceed the bound.

## Fairness

Each caller's own steps (`Progress(t)`) are weakly fair. The executor polls
every ready future, and the upstream transport always completes a request:
with a reply, or with an error that `request_as_groups` turns into a failure
reply. No fairness is assumed for `Tick` or `Evict`.

In `AxfrStream` the walker and the batcher are each weakly fair: both are
spawned tokio tasks, and the runtime polls a task whose future is ready.
The walker's `blocking_send` runs on the blocking pool and proceeds when the
channel has room or the receiver is closed. The IXFR task is spawned the same
way and its response channel is unbounded, so its steps are weakly fair.

## What is not modelled

* Signature TTLs (`ttl_for_sig`), the EDE texts, wildcard answers, and the
  DS owner-name check. Replies are always for the queried name.
* The NSEC/NSEC3 proofs for answers, `do_cname_dname`, `get_answer_state`
  and `get_soa_state`. Their source (validator/utilities.rs, nsec.rs,
  group.rs) is not in this tree, so `MessageValidator` enumerates their
  results instead of computing them from records. `validate_msg` is not
  composed with `ValidationContext`: its groups' states are inputs.
* Known issues in `validate_msg` that the model reaches but that no run
  checks:
  * a NODATA reply with a Secure SOA and no proof at all reaches `todo!()`
    (context.rs:391), and so do NSEC3 results that are Bogus or opt-out
    (context.rs:364-365, 390, 423-425, 467);
  * an error from `validate_with_vc` panics in `validate_groups`
    (context.rs:1080).
  Also, §4.6 of the spec checks the groups before the question count, and
  the code follows that order. So a reply with two questions and a Bogus
  group is Bogus, while §8 says it is a structural error.
* `SigCache` and `Nsec3Cache`: memo caches that return what recomputation
  would, folded into `ValidateWithNode`.
* An IXFR hazard modelled but checked by no run, for want of runs:
  `EndTransaction`'s `unwrap()` panics once the client is gone
  (xfr.rs:1081, the `"panicked"` state).
  The re-slice branch of `SliceEnd` is unreachable: the `for` loop only
  completes when the whole slice fits.
* The forged-denial `todo!()` of `nsec_for_ds` (context.rs:1503), reached
  by an unsigned NSEC in a DS reply, is listed as a hazard; it no longer
  has a violation run of its own.
* In `do_axfr`, the `recv().unwrap()` panic (xfr.rs:682) and the SERVFAIL
  when the channel is closed (xfr.rs:711-721): the walker always sends the
  final SOA before it drops its senders and the batcher stops at that SOA,
  so neither is reached; the deadlock check of `axfr_limits` confirms it.
* UDP in `do_axfr`: the batcher's soft limit over UDP is the UDP response
  size, and a zone larger than one datagram is sent as several UDP messages
  (xfr.rs:571), although the comment at xfr.rs:477-481 says the transfer is
  aborted. `AxfrStream` has no transport; modelling it needs a second limit
  and a run of its own.
* In `validate.rs`: the canonical sort and the byte composition of
  `signed_data` (only the owner name it writes is modelled), the text
  parser `parse_dnskey_text`, and the cryptography. The contents of ECDSA
  and EdDSA keys are left out; only their lengths are checked.
  A degenerate RSA key with an empty modulus (`<<1, e>>`) is accepted by
  `from_dnskey` but its two-byte encoding is not; no DNSKEY of that shape
  verifies anything, so `RawKeyRoundTrip` excludes it.
* Byte sizes: a record takes one unit of the soft limit; the HMAC of a
  server cookie is a flag.
* In `base/new_name`: `starts_with`, `strip_prefix`, `Label::split_off`, `Label::is_ldh`, `canonicalize`, the hashing of names and the buffer copies.
  Each is a single slice operation with no loop or branch worth a check,
  and `split_off` has no caller in this tree.
* `LabelBuf::as_name` (label.rs:293) passes the whole 64-byte buffer, not
  the `1 + len` bytes of the label, to `from_bytes_unchecked`. For any
  label shorter than 63 bytes, the result is not a wire-format name: after
  `copy` it is the label followed by zero bytes, and after a shorter
  `replace_with` it ends in stale bytes. It is listed as a hazard. Checking
  it takes a violation run of its own, and every run slot is in use.
* Signing (`sign/common.rs`, `sign/ring.rs`): the two files are from
  different versions of the signing API. `common.rs` calls
  `ring::SecretKey::from_generic`, which `ring.rs` does not define, and
  the `generic` and `openssl` backends are missing. What remains is the
  backend choice and calls into the cryptographic libraries.
* The zonefile scanner, logging, rdata dispatch and the examples: I/O
  wrappers with no state to check.

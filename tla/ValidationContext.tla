-------------------------- MODULE ValidationContext --------------------------
(***************************************************************************)
(* ChainWalker, DelegationResolver and NodeCache of ValidationContext      *)
(* (src/src/validator/context.rs): concurrent get_node calls sharing one   *)
(* node cache.  Each task is one get_node future; it suspends only at an   *)
(* upstream query (the trust anchor's DNSKEY, a DS, a child DNSKEY), so    *)
(* every synchronous stretch between two queries is one action.  Cache    *)
(* lookups and inserts are atomic moka operations.  The clock advances    *)
(* by Tick at any time, in particular while a query is outstanding.       *)
(***************************************************************************)
EXTENDS DnsWorld, TrustAnchor, DsProof

CONSTANTS
    Tasks,      \* concurrent get_node callers
    MaxCalls,   \* get_node calls per task
    MaxTime,    \* bound of the model clock
    NoNode      \* an absent cache entry

VARIABLES
    now,        \* the clock (Instant::now)
    cache,      \* node_cache: Names -> Node or NoNode
    pc,         \* where each task's future is suspended
    target,     \* get_node's argument
    curr,       \* find_closest_node: the ancestor being examined
    names,      \* the VecDeque of names still to resolve, root-most first
    node,       \* get_node's `node`: the last node produced
    signer,     \* get_node's `signer_node`
    child,      \* the name create_child_node is resolving
    dsTtl,      \* create_child_node's `ttl` carried across the DNSKEY query
    result,     \* what the last get_node call of the task returned
    calls       \* get_node calls made by the task

vars == <<now, cache, pc, target, curr, names, node, signer, child, dsTtl,
          result, calls>>
taskVars == <<pc, target, curr, names, node, signer, child, dsTtl, result, calls>>

NoResult == [state |-> "None"]

-----------------------------------------------------------------------------
\* cache_lookup: a present entry that has not expired.
Cached(n) == cache[n] # NoNode /\ ~Expired(cache[n], now)

\* Return from get_node with `out` (a node or a panic); the future and its
\* locals are dropped.
Return(t, out) ==
    /\ result' = [result EXCEPT ![t] = out]
    /\ pc' = [pc EXCEPT ![t] = "idle"]
    /\ curr' = [curr EXCEPT ![t] = Root]
    /\ names' = [names EXCEPT ![t] = <<>>]
    /\ node' = [node EXCEPT ![t] = NoNode]
    /\ signer' = [signer EXCEPT ![t] = NoNode]
    /\ child' = [child EXCEPT ![t] = Root]
    /\ dsTtl' = [dsTtl EXCEPT ![t] = 0]

Init ==
    /\ now = 0
    /\ cache = [n \in Names |-> NoNode]
    /\ pc = [t \in Tasks |-> "idle"]
    /\ target = [t \in Tasks |-> Root]
    /\ curr = [t \in Tasks |-> Root]
    /\ names = [t \in Tasks |-> <<>>]
    /\ node = [t \in Tasks |-> NoNode]
    /\ signer = [t \in Tasks |-> NoNode]
    /\ child = [t \in Tasks |-> Root]
    /\ dsTtl = [t \in Tasks |-> 0]
    /\ result = [t \in Tasks |-> NoResult]
    /\ calls = [t \in Tasks |-> 0]

\* get_node(n) up to its first suspension: a cache hit, the Indeterminate
\* root node when no anchor covers n, the anchor's DNSKEY query when n is
\* the anchor owner, or the start of find_closest_node.
GetNode(t, n) ==
    /\ pc[t] = "idle"
    /\ calls[t] < MaxCalls
    /\ calls' = [calls EXCEPT ![t] = @ + 1]
    /\ target' = [target EXCEPT ![t] = n]
    /\ \/ /\ Cached(n)
          /\ Return(t, cache[n])
          /\ UNCHANGED cache
       \/ /\ ~Cached(n)
          /\ ~HasAnchor(n)
          /\ LET nd == Indeterminate(Root, MAX_NODE_VALID, now) IN
               /\ cache' = [cache EXCEPT ![Root] = nd]
               /\ Return(t, nd)
       \/ /\ ~Cached(n)
          /\ HasAnchor(n) /\ n = AnchorOf(n)
          /\ pc' = [pc EXCEPT ![t] = "taDirect"]
          /\ UNCHANGED <<cache, result, curr, names, node, signer, child, dsTtl>>
       \/ /\ ~Cached(n)
          /\ HasAnchor(n) /\ n # AnchorOf(n)
          /\ pc' = [pc EXCEPT ![t] = "ascend"]
          /\ curr' = [curr EXCEPT ![t] = Parent[n]]
          /\ names' = [names EXCEPT ![t] = <<n>>]
          /\ UNCHANGED <<cache, result, node, signer, child, dsTtl>>
    /\ UNCHANGED now

\* One iteration of find_closest_node: the anchor owner is checked before
\* the cache; a cached ancestor ends the ascent; otherwise curr is queued.
Ascend(t) ==
    LET c == curr[t] IN
    /\ pc[t] = "ascend"
    /\ \/ /\ c = AnchorOf(target[t])
          /\ pc' = [pc EXCEPT ![t] = "taClosest"]
          /\ UNCHANGED <<curr, names, node, signer>>
       \/ /\ c # AnchorOf(target[t])
          /\ Cached(c)
          /\ node' = [node EXCEPT ![t] = cache[c]]
          /\ signer' = [signer EXCEPT ![t] = cache[c]]
          /\ pc' = [pc EXCEPT ![t] = "walk"]
          /\ UNCHANGED <<curr, names>>
       \/ /\ c # AnchorOf(target[t])
          /\ ~Cached(c)
          /\ names' = [names EXCEPT ![t] = <<c>> \o @]
          /\ curr' = [curr EXCEPT ![t] = Parent[c]]
          /\ UNCHANGED <<pc, node, signer>>
    /\ UNCHANGED <<now, cache, target, child, dsTtl, result, calls>>

\* The anchor's DNSKEY reply arrives: Node::trust_anchor, the insert, and
\* either the return from get_node or the start of the downward walk.
TaAnswer(t) ==
    LET owner == AnchorOf(target[t]) IN
    /\ pc[t] \in {"taDirect", "taClosest"}
    /\ \E r \in TaReplies :
         LET nd == TaNode(r, owner, now) IN
         IF nd.state = "Panic"
         THEN Return(t, nd) /\ UNCHANGED cache
         ELSE /\ cache' = [cache EXCEPT ![owner] = nd]
              /\ IF pc[t] = "taDirect"
                 THEN Return(t, nd)
                 ELSE /\ node' = [node EXCEPT ![t] = nd]
                      /\ signer' = [signer EXCEPT ![t] = nd]
                      /\ pc' = [pc EXCEPT ![t] = "walk"]
                      /\ UNCHANGED <<result, curr, names, child, dsTtl>>
    /\ UNCHANGED <<now, target, calls>>

\* Variant: the queued name is read but not popped.
WalkNoPop(t) ==
    /\ pc[t] = "walk"
    /\ \/ /\ node[t].state # "Secure" \/ names[t] = <<>>
          /\ Return(t, IF node[t].state = "Indeterminate" THEN PanicOutcome
                                                         ELSE node[t])
       \/ /\ node[t].state = "Secure"
          /\ names[t] # <<>>
          /\ child' = [child EXCEPT ![t] = Head(names[t])]
          /\ pc' = [pc EXCEPT ![t] = "dsWait"]
          /\ UNCHANGED <<result, curr, names, node, signer, dsTtl>>
    /\ UNCHANGED <<now, cache, target, calls>>

\* The head of get_node's loop: an Insecure or Bogus node, and a Secure
\* one with no name left, end the walk with that node; an Indeterminate
\* one reaches todo!(); a Secure one with a name left sends the DS query
\* for it.
Walk(t) ==
    /\ pc[t] = "walk"
    /\ \/ /\ node[t].state # "Secure" \/ names[t] = <<>>
          /\ Return(t, IF node[t].state = "Indeterminate" THEN PanicOutcome
                                                         ELSE node[t])
       \/ /\ node[t].state = "Secure"
          /\ names[t] # <<>>
          /\ child' = [child EXCEPT ![t] = Head(names[t])]
          /\ names' = [names EXCEPT ![t] = Tail(@)]
          /\ pc' = [pc EXCEPT ![t] = "dsWait"]
          /\ UNCHANGED <<result, curr, node, signer, dsTtl>>
    /\ UNCHANGED <<now, cache, target, calls>>

\* The tail of the loop once create_child_node has produced `nd`: insert
\* it, make it the signer unless it is intermediate, return it when no
\* name is left.
Created(t, nd) ==
    /\ cache' = [cache EXCEPT ![child[t]] = nd]
    /\ IF names[t] = <<>>
       THEN Return(t, nd)
       ELSE /\ node' = [node EXCEPT ![t] = nd]
            /\ signer' = [signer EXCEPT ![t] = IF nd.intermediate THEN @ ELSE nd]
            /\ pc' = [pc EXCEPT ![t] = "walk"]
            /\ UNCHANGED <<result, curr, names, child, dsTtl>>

PanicTask(t) == Return(t, PanicOutcome) /\ UNCHANGED cache

\* Variant: a CNAME at the name is accepted without validating it.
CnameNodeUnchecked(r, p, n, pt) ==
    NewIntermediate("Secure", p.signer, MinD(pt, r.ttl), now)

\* A CNAME at the name instead of a DS RRset: a secure intermediate node
\* when the CNAME validates against the parent's keys, Bogus otherwise.
CnameNode(r, p, n, pt) ==
    LET ttl == MinD(pt, r.ttl) IN
    IF ValidateWithNode(p, r, ZoneOf(n)) = "Secure"
    THEN NewIntermediate("Secure", p.signer, ttl, now)
    ELSE NewDelegation(n, "Bogus", {}, ttl, now)

\* create_child_node when the reply has no DS RRset: a CNAME at the name,
\* then the NSEC proof, then the NSEC3 proof, else Bogus.
NoDsNode(r, p, n, pt) ==
    LET z == ZoneOf(n)
        ns == NsecForDs(r.nsec, p, z)
        n3 == Nsec3ForDs(r.nsec3, p, z)
        FromProof(pr, insecureTtl) ==
            CASE pr.st = "InsecureDelegation" ->
                   NewDelegation(n, "Insecure", {}, insecureTtl, now)
              [] pr.st = "SecureIntermediate" ->
                   NewIntermediate("Secure", p.signer, pr.ttl, now)
              [] pr.st = "Bogus" -> NewDelegation(n, "Bogus", {}, pr.ttl, now)
              [] pr.st = "Panic" -> PanicOutcome
    IN IF r.kind = "CNAME" THEN CnameNode(r, p, n, pt)
       ELSE IF ns.st # "Nothing" THEN FromProof(ns, MinD(pt, ns.ttl))
       ELSE IF n3.st # "Nothing" THEN FromProof(n3, n3.ttl)
       ELSE NewDelegation(n, "Bogus", {}, n3.ttl, now)

\* The DS reply arrives: create_child_node up to the DNSKEY query.
DsAnswer(t) ==
    LET p == signer[t]
        n == child[t]
    IN
    /\ pc[t] = "dsWait"
    /\ \E r \in DsReplies(n) :
         IF r.kind = "Fail"
         THEN Created(t, NewDelegation(n, "Bogus", {}, BOGUS_TTL, now))
         \* parent_ttl = node.ttl() is taken after the await
         ELSE IF TtlPanics(p, now) THEN PanicTask(t)
         ELSE LET pt == Ttl(p, now)
                  ttl == MinD(pt, r.ttl)
              IN IF r.kind # "DS"
                 THEN LET nd == NoDsNode(r, p, n, pt) IN
                      IF nd.state = "Panic" THEN PanicTask(t) ELSE Created(t, nd)
                 ELSE IF ValidateWithNode(p, r, ZoneOf(n)) = "Bogus"
                 THEN Created(t, NewDelegation(n, "Bogus", {}, ttl, now))
                 ELSE IF ~r.supported
                 THEN Created(t, NewDelegation(n, "Insecure", {}, ttl, now))
                 ELSE /\ dsTtl' = [dsTtl EXCEPT ![t] = ttl]
                      /\ pc' = [pc EXCEPT ![t] = "dnskeyWait"]
                      /\ UNCHANGED <<cache, result, curr, names, node, signer, child>>
    /\ UNCHANGED <<now, target, calls>>

\* The child's DNSKEY reply arrives: the rest of create_child_node.  The
\* first RRSIG with the tag of the key matching a supported DS decides.
DnskeyAnswer(t) ==
    LET n == child[t] IN
    /\ pc[t] = "dnskeyWait"
    /\ \E r \in DnskeyReplies :
         CASE r.kind = "Fail" ->
                Created(t, NewDelegation(n, "Bogus", {}, BOGUS_TTL, now))
           [] r.kind = "DNSKEY" /\ r.keymatch /\ r.sig = "good" ->
                Created(t, NewDelegation(n, "Secure", {n},
                                         MinD(dsTtl[t], r.ttl), now))
           \* no DNSKEY RRset, no key for any DS, a bad or no signature
           [] OTHER -> PanicTask(t)
    /\ UNCHANGED <<now, target, calls>>

\* Time passes.
Tick ==
    /\ now < MaxTime
    /\ now' = now + 1
    /\ UNCHANGED <<cache, taskVars>>

\* moka may drop any entry when the cache is under pressure.
Evict(n) ==
    /\ cache[n] # NoNode
    /\ cache' = [cache EXCEPT ![n] = NoNode]
    /\ UNCHANGED <<now, taskVars>>

\* Every caller has made its calls and all of them have returned.
Finished ==
    /\ \A t \in Tasks : pc[t] = "idle" /\ calls[t] = MaxCalls
    /\ UNCHANGED vars

\* The steps of a call in progress.  The executor polls every ready future
\* and the upstream transport always answers (possibly with a failure):
\* retries and timeouts are its business (spec section 6).
Progress(t) ==
    Ascend(t) \/ TaAnswer(t) \/ Walk(t) \/ DsAnswer(t) \/ DnskeyAnswer(t)

Next ==
    \/ \E t \in Tasks, n \in Names : GetNode(t, n)
    \/ \E t \in Tasks : Progress(t)
    \/ Tick
    \/ \E n \in Names : Evict(n)
    \/ Finished

Spec == Init /\ [][Next]_vars /\ \A t \in Tasks : WF_vars(Progress(t))

-----------------------------------------------------------------------------
(* Properties.                                                             *)

\* No forged or replayed answer makes the validator vouch for a name: every
\* Secure or Insecure verdict that get_node returns or that the node cache
\* holds, for any interleaving of callers, cache hits, expiries and
\* evictions, is the verdict the zone data really supports (spec 4.3-4.5).
Authentic ==
    /\ \A t \in Tasks : result[t].state \in {"Secure", "Insecure"}
                           => result[t].state = Expected(target[t])
    /\ \A n \in Names : cache[n] # NoNode /\ cache[n].state \in {"Secure", "Insecure"}
                           => cache[n].state = Expected(n)

\* Every get_node call returns (or panics): the walk neither loops nor
\* waits forever, whatever the other callers do to the cache.
CallsReturn == \A t \in Tasks : pc[t] # "idle" ~> pc[t] = "idle"

\* Spec section 8: with an honest upstream, get_node(n) reports the state
\* the zone data supports: Secure for a secure chain, Insecure below an
\* unsigned delegation.
HonestVerdict ==
    \A t \in Tasks : result[t].state \in States => result[t].state = Expected(target[t])

\* Spec section 7: the engine never panics on DNS content it is given.
NoPanic == \A t \in Tasks : result[t].state # "Panic"

\* Spec section 8: a Secure node created below a parent expires no later
\* than the parent whose keys it was derived from: get_node(B) has
\* TTL <= A's remaining TTL.
ChildTtlBounded ==
    [][\A n \in Names \ TrustAnchors :
         /\ cache'[n] # cache[n] /\ cache'[n] # NoNode
         /\ cache'[n].state = "Secure"
         => \E t \in Tasks : /\ child[t] = n
                             /\ pc[t] \in {"dsWait", "dnskeyWait"}
                             /\ Expiry(cache'[n]) <= Expiry(signer[t])]_vars
=============================================================================

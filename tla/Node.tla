-------------------------------- MODULE Node --------------------------------
(***************************************************************************)
(* Node (src/src/validator/context.rs, struct Node and its constructors):  *)
(* the immutable signing state kept for one name.  Keys are abstracted to  *)
(* the set of zone apexes whose DNSKEY RRset the node holds; `created` is  *)
(* the Instant of construction on the model clock, `valid` is valid_for.   *)
(***************************************************************************)
EXTENDS Integers, FiniteSetsExt

CONSTANTS
    MAX_NODE_VALID,  \* MAX_NODE_VALID (600 s in the code)
    BOGUS_TTL        \* BOGUS_TTL of validator::group

States == {"Secure", "Insecure", "Bogus", "Indeterminate"}

\* Node::new_delegation
NewDelegation(signer, state, keys, validFor, now) ==
    [state |-> state, keys |-> keys, signer |-> signer,
     intermediate |-> FALSE, created |-> now, valid |-> validFor]

\* Node::new_intermediate: no keys of its own, signer inherited.
NewIntermediate(state, signer, validFor, now) ==
    [state |-> state, keys |-> {}, signer |-> signer,
     intermediate |-> TRUE, created |-> now, valid |-> validFor]

\* Node::indeterminate
Indeterminate(name, validFor, now) ==
    [state |-> "Indeterminate", keys |-> {}, signer |-> name,
     intermediate |-> FALSE, created |-> now, valid |-> validFor]

\* Node::expired: elapsed > valid_for.
Expired(node, now) == now - node.created > node.valid

\* Node::ttl: valid_for - elapsed.  Duration subtraction panics when the
\* node has expired, so a caller must test TtlPanics first.
TtlPanics(node, now) == Expired(node, now)
Ttl(node, now) == node.valid - (now - node.created)

\* The instant a node stops being served from the cache.
Expiry(node) == node.created + node.valid

MinD(a, b) == Min({a, b})

\* What a call returns when it reaches todo!(), expect() or a Duration
\* underflow: the task panics and its future is dropped.
PanicOutcome == [state |-> "Panic"]
=============================================================================

---------------------------- MODULE MCXfrStream -----------------------------
(***************************************************************************)
(* The two transfer streams of the XFR middleware: the AXFR walker and   *)
(* batcher of do_axfr, and the IXFR task of do_ixfr.  A run picks the     *)
(* kinds of transfer in Kinds; the other stream stays in its initial      *)
(* state.  Zones of one to three RRsets besides the SOA, checked under the *)
(* TCP soft limit (a message holds Cap records) with and without          *)
(* compatibility mode.  An AXFR record carries the number of the RRset    *)
(* whose TTL it was sent with; the zone data says it must be its own.     *)
(***************************************************************************)
EXTENDS AxfrStream

CONSTANTS CompatModes, Kinds,
    IxTransfers, \* the IXFR diff lists
    IxOversize   \* IXFR records larger than an empty message

VARIABLES
    kind,       \* the transfer this behaviour serves: "AXFR" or "IXFR"
    rrsets, pos, from, ixK, ixNum, ixMsg, ixPending, ixOut, pc, gone

ixvars == <<rrsets, pos, from, ixK, ixNum, ixMsg, ixPending, ixOut, pc, gone>>
allvars == <<kind, vars, ixvars>>

Ix == INSTANCE IxfrStream WITH Transfers <- IxTransfers, Oversize <- IxOversize,
                               MaxPush <- MaxOut,
                               k <- ixK, num <- ixNum, msg <- ixMsg,
                               pending <- ixPending, out <- ixOut

\* Zone shapes: RRset sizes in walk order.
SmallZones == {<<1>>, <<2, 1>>, <<1, 2, 1>>}
SplitZones == {<<2>>, <<1, 2>>}
LimitZones == {<<2>>, <<1, 2>>, <<1, 1, 3>>}
\* The first record of the second RRset is too large for any message.
BigRecord == {<<2, 1>>}

\* IXFR diff lists: one diff that deletes one RRset of two records and adds
\* one of one; one that deletes nothing and adds one RRset of three; and
\* two diffs, the first adding one record, the second deleting it.
IxfrDiffs == {<<[removed |-> <<2>>, added |-> <<1>>]>>,
              <<[removed |-> <<>>, added |-> <<3>>]>>,
              <<[removed |-> <<>>, added |-> <<1>>], [removed |-> <<1>>, added |-> <<>>]>>}
\* The added record of the first diff (RRset 5 of its stream) is too large
\* for any message.
IxfrBigRecord == {<<5, 1>>}
\* No diffs: the stream of a run that checks AXFR only.
IxfrNone == {<<>>}

MCInit == /\ kind \in Kinds
          /\ Init /\ compat \in CompatModes
          /\ Ix!IxInit

AxfrStep(A) == kind = "AXFR" /\ A /\ UNCHANGED <<kind, ixvars>>
IxfrStep(A) == kind = "IXFR" /\ A /\ UNCHANGED <<kind, vars>>

MCNext == AxfrStep(Next) \/ IxfrStep(Ix!IxNext)

\* The tasks of the transfer being served are weakly fair, as in Spec.
MCSpec == /\ MCInit /\ [][MCNext]_allvars
          /\ WF_allvars(AxfrStep(WalkSend)) /\ WF_allvars(AxfrStep(Batcher))
          /\ WF_allvars(IxfrStep(Ix!IxBatcher))

Messages ==
    LET msgs == SelectSeq(out, LAMBDA m : m.kind = "Msg")
    IN [j \in 1..Len(msgs) |-> msgs[j].recs]

\* The records sent, in stream order.
Sent == FlattenSeq(Messages)

\* The response stream as the abstract AXFR stream sees it.
StreamState ==
    CASE bpc = "done" -> "closed"
      [] bpc = "gone" -> "aborted"
      [] OTHER -> "open"

Abstract == INSTANCE AxfrSpec WITH sent <- Sent, state <- StreamState

TypeOK ==
    /\ kind \in {"AXFR", "IXFR"} /\ Ix!IxTypeOK
    /\ zone \in Zones /\ compat \in BOOLEAN
    /\ chan \in Seq(0..Len(zone)) /\ Len(chan) <= ChanCap
    /\ wpos \in 1..Len(zone) + 2
    /\ bpc \in {"start", "outer", "innerTop", "push", "innerEnd", "send",
                "fetch", "end", "done", "gone", "panicked"}
    /\ soaSeen \in 0..3
    /\ Len(msg) <= Cap

\* What the batcher sends is always a prefix of the zone's AXFR: no record
\* is lost, repeated or sent out of order, and each goes out with its own
\* RRset's TTL, however the walker's blocking_send and the batcher's recv
\* interleave on the bounded channel and whenever the client goes away.
StreamIsZone == IsPrefix(Sent, Abstract!Transfer(zone))

\* The walker and batcher together implement the abstract AXFR stream:
\* every message carries the next records of the zone, EndTransaction
\* comes only after the final SOA, and the transfer always ends (closed,
\* or aborted by the client) instead of stopping in a panic or a wait.
AxfrRefinement == Abstract!Spec

IxMessages ==
    LET msgs == SelectSeq(ixOut, LAMBDA m : m.kind = "Msg")
    IN [j \in 1..Len(msgs) |-> msgs[j].recs]

\* The IXFR records sent, in stream order.
IxSent == FlattenSeq(IxMessages)

\* RFC 1995 section 4: what the IXFR task sends is always a prefix of the
\* zone SOA, the difference sequences oldest first, and the zone SOA: no
\* record is repeated, skipped or sent out of order, also when a message
\* fills up in the middle of an RRset.
IxfrStreamIsDiff == IsPrefix(IxSent, Ix!IxfrTransfer(rrsets))

\* The IXFR stream is closed only after the zone SOA that ends the
\* transfer: EndTransaction follows a message whose last record is the
\* final SOA, so that batcher.take() never loses the last batch.
IxfrClosedBySoa ==
    \A i \in DOMAIN ixOut :
        ixOut[i].kind = "End" =>
            \E j \in 1..i - 1 :
                /\ ixOut[j].kind = "Msg"
                /\ Last(ixOut[j].recs) = Ix!IxRec(Len(rrsets), 1)
                /\ \A l \in j + 1..i - 1 : ixOut[l].kind # "Msg"

\* Each message RrBatcher hands back holds at least one record, no more
\* than the soft byte limit admits, and exactly one in compatibility mode.
MessageWithinLimits ==
    /\ \A m \in Range(Messages) :
           /\ 1 <= Len(m) /\ Len(m) <= Cap
           /\ compat => Len(m) = 1
    /\ \A m \in Range(IxMessages) : 1 <= Len(m) /\ Len(m) <= Cap
=============================================================================

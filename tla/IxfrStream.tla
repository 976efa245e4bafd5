------------------------------ MODULE IxfrStream ------------------------------
(***************************************************************************)
(* The task do_ixfr spawns (src/src/net/server/middleware/xfr.rs) to      *)
(* stream an incremental zone transfer (RFC 1995): the zone SOA, then per  *)
(* diff the old SOA, the deleted RRsets, the new SOA and the added RRsets, *)
(* then the zone SOA again, packed into response messages by an RrBatcher  *)
(* with no hard RR limit and no soft byte limit set.  RRsets are numbered  *)
(* by their position in that sequence; a message holds Cap records, and    *)
(* the records in Oversize do not fit even into an empty message.  The    *)
(* response channel is unbounded; the client may drop it at any time.     *)
(***************************************************************************)
EXTENDS Naturals, Sequences, SequencesExt

CONSTANTS
    Transfers,  \* the diff lists a transfer may send: sequences of
                \* [removed |-> RRset sizes, added |-> RRset sizes]
    Cap,        \* records a response message holds
    Oversize,   \* records <<rrset, index>> larger than an empty message
    MaxPush     \* bound on the pushes for one RRset, for loops that never end

VARIABLES
    rrsets,     \* the RRset sizes of the transfer, in stream order
    pos,        \* the for loop over rrsets: the current RRset
    from,       \* records_to_process: the slice of it starting at from
    k,          \* the position in the slice of the for loop over records
    num,        \* num_rrs_added
    msg,        \* RrBatcher's answer: the records pushed so far
    pending,    \* the builder the inner loop broke with
    out,        \* the response stream: Begin, messages, SERVFAIL, End
    pc,         \* where the task is
    gone        \* the client dropped the response stream

ixvars == <<rrsets, pos, from, k, num, msg, pending, out, pc, gone>>

\* One difference sequence: the old SOA, the deleted non-SOA RRsets, the new
\* SOA and the added non-SOA RRsets; an SOA RRset holds one record.
DiffSequence(d) == <<1>> \o d.removed \o <<1>> \o d.added

\* The zone SOA, every diff's sequence oldest first, and the zone SOA.
IxfrRRsets(diffs) ==
    <<1>> \o FlattenSeq([i \in 1..Len(diffs) |-> DiffSequence(diffs[i])]) \o <<1>>

IxRec(s, i) == [set |-> s, i |-> i]
IxItem(kind, recs) == [kind |-> kind, recs |-> recs]

\* The records a correct transfer sends, in order.
IxfrTransfer(sizes) ==
    FlattenSeq([s \in 1..Len(sizes) |-> [i \in 1..sizes[s] |-> IxRec(s, i)]])

\* A send on the unbounded channel whose result is ignored: lost once the
\* client is gone.
Emit(item) == IF gone THEN out ELSE Append(out, item)

IxInit ==
    /\ rrsets \in {IxfrRRsets(d) : d \in Transfers}
    /\ pos = 1 /\ from = 1 /\ k = 1 /\ num = 0
    /\ msg = <<>> /\ pending = <<>>
    \* BeginTransaction is added before the task is spawned.
    /\ out = <<IxItem("Begin", <<>>)>>
    /\ pc = "rrset"
    /\ gone = FALSE

\* The head of the for loop over the RRsets: records_to_process is the whole
\* RRset and num_rrs_added = 0; after the last one, the final batch.
NextRRset ==
    /\ pc = "rrset"
    /\ IF pos <= Len(rrsets)
       THEN from' = 1 /\ num' = 0 /\ pc' = "inner"
       ELSE UNCHANGED <<from, num>> /\ pc' = "final"
    /\ UNCHANGED <<rrsets, pos, k, msg, pending, out, gone>>

\* The head of 'inner: the for loop starts over records_to_process.
InnerStart ==
    /\ pc = "inner"
    /\ k' = from /\ pc' = "push"
    /\ UNCHANGED <<rrsets, pos, from, num, msg, pending, out, gone>>

\* One iteration of the for loop over records_to_process: RrBatcher::push
\* of the record.  It fits, and the loop goes on; or the message is full
\* and the inner loop breaks with it; or it does not fit into an empty
\* message, and SERVFAIL is sent and 'outer is left for the next RRset.
\* The end of the slice leaves the for loop.
IxPush ==
    LET fits == <<pos, k>> \notin Oversize /\ Len(msg) < Cap IN
    /\ pc = "push"
    /\ \/ /\ k > rrsets[pos]
          /\ pc' = "sliceEnd"
          /\ UNCHANGED <<pos, k, num, msg, pending, out>>
       \/ /\ k <= rrsets[pos] /\ fits
          /\ msg' = Append(msg, IxRec(pos, k)) /\ num' = num + 1 /\ k' = k + 1
          /\ UNCHANGED <<pos, pending, out, pc>>
       \/ /\ k <= rrsets[pos] /\ ~fits /\ msg # <<>>
          /\ pending' = msg /\ msg' = <<>> /\ pc' = "send"
          /\ UNCHANGED <<pos, k, num, out>>
       \/ /\ k <= rrsets[pos] /\ ~fits /\ msg = <<>>
          /\ out' = Emit(IxItem("ServFail", <<>>))
          /\ pos' = pos + 1 /\ pc' = "rrset"
          /\ UNCHANGED <<k, num, msg, pending>>
    /\ UNCHANGED <<rrsets, from, gone>>

\* After the for loop: re-slice records_to_process after num_rrs_added and
\* run 'inner again while the RRset has more records, else leave 'outer.
SliceEnd ==
    /\ pc = "sliceEnd"
    /\ IF rrsets[pos] > num
       THEN from' = num + 1 /\ pc' = "inner" /\ UNCHANGED pos
       ELSE pos' = pos + 1 /\ pc' = "rrset" /\ UNCHANGED from
    /\ UNCHANGED <<rrsets, k, num, msg, pending, out, gone>>

\* Send the intermediate batch and loop 'outer, whose 'inner loop starts
\* over the same records_to_process.
IxSend ==
    /\ pc = "send"
    /\ num < MaxPush
    /\ out' = Emit(IxItem("Msg", pending))
    /\ pending' = <<>> /\ pc' = "inner"
    /\ UNCHANGED <<rrsets, pos, from, k, num, msg, gone>>

\* Variant: EndTransaction without the batch batcher.take() still holds.
IxFinishNoTake ==
    /\ pc = "final"
    /\ out' = Emit(IxItem("End", <<>>))
    /\ msg' = <<>>
    /\ pc' = IF gone THEN "panicked" ELSE "done"
    /\ UNCHANGED <<rrsets, pos, from, k, num, pending, gone>>

\* The final batch, if batcher.take() holds one, then EndTransaction with
\* add_to_stream, whose unwrap() panics once the client is gone.
IxFinish ==
    /\ pc = "final"
    /\ out' = IF gone \/ msg = <<>> THEN Emit(IxItem("End", <<>>))
              ELSE Append(Append(out, IxItem("Msg", msg)), IxItem("End", <<>>))
    /\ msg' = <<>>
    /\ pc' = IF gone THEN "panicked" ELSE "done"
    /\ UNCHANGED <<rrsets, pos, from, k, num, pending, gone>>

\* The client drops the response stream.
ClientGone ==
    /\ ~gone /\ pc \notin {"done", "panicked"}
    /\ gone' = TRUE
    /\ UNCHANGED <<rrsets, pos, from, k, num, msg, pending, out, pc>>

\* The task has ended, or one RRset reached the bound MaxPush.
IxStopped ==
    /\ \/ pc \in {"done", "panicked"}
       \/ pc = "send" /\ num >= MaxPush
    /\ UNCHANGED ixvars

IxBatcher == NextRRset \/ InnerStart \/ IxPush \/ SliceEnd \/ IxSend \/ IxFinish

IxNext == IxBatcher \/ ClientGone \/ IxStopped

IxTypeOK ==
    /\ pos \in 1..Len(rrsets) + 1
    /\ pc \in {"rrset", "inner", "push", "sliceEnd", "send", "final", "done", "panicked"}
    /\ Len(msg) <= Cap /\ Len(pending) <= Cap
    /\ gone \in BOOLEAN
=============================================================================

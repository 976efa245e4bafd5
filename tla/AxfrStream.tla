------------------------------ MODULE AxfrStream ------------------------------
(***************************************************************************)
(* The two tasks do_axfr spawns (src/src/net/server/middleware/xfr.rs):  *)
(* the zone walker, which sends every non-SOA RRset and then the SOA into  *)
(* a bounded channel, and the batcher, which packs their records into     *)
(* response messages with RrBatcher and sends them to the response stream.*)
(* The zone's RRsets are numbered in walk order; RRset 0 is the SOA.  Each *)
(* record takes one unit of the message's soft byte limit, except the      *)
(* records in Oversize, which do not fit even into an empty message.      *)
(***************************************************************************)
EXTENDS Naturals, Sequences, SequencesExt

CONSTANTS
    Zones,      \* the zones a transfer may read: RRset sizes in walk order
    Cap,        \* records a response message holds under the soft limit
    ChanCap,    \* capacity of the batcher channel (100 in the code)
    Oversize,   \* records <<rrset, index>> larger than an empty message
    MaxOut      \* bound on stream items, for loops that never end

VARIABLES
    zone,       \* the zone read for this transfer
    compat,     \* CompatibilityMode::BackwardCompatible for the client
    chan,       \* batcher_tx/batcher_rx: RRset numbers in flight
    wpos,       \* the walker: next RRset to send; Len(zone)+1 is the final SOA
    rxClosed,   \* batcher_rx closed or dropped
    bpc,        \* where the batcher task is
    cur,        \* current_rrset
    rtp,        \* records_to_process: the slice [set, from] of an RRset
    k,          \* the position in rtp of the for loop over its records
    num,        \* num_rrs_added
    soaSeen,    \* soa_seen_count
    msg,        \* RrBatcher's answer: the records pushed so far
    pending,    \* the builder the inner loop broke with
    out         \* the response stream: Begin, messages, End

vars == <<zone, compat, chan, wpos, rxClosed, bpc, cur, rtp, k, num, soaSeen,
          msg, pending, out>>

\* Records of RRset s: the SOA RRset holds one record.
RLen(s) == IF s = 0 THEN 1 ELSE zone[s]
Rec(s, i, ttlOf) == [set |-> s, i |-> i, ttl |-> ttlOf]
Slice(s, from) == [set |-> s, from |-> from]
SliceLen(sl) == RLen(sl.set) - sl.from + 1
WalkDone == wpos = Len(zone) + 2
\* An item of the response stream: transaction feedback or a response
\* message with its answer records.
Item(kind, recs) == [kind |-> kind, recs |-> recs]

Init ==
    /\ zone \in Zones
    /\ compat \in BOOLEAN
    \* do_axfr sends the zone SOA itself before spawning the tasks.
    /\ chan = <<0>>
    /\ wpos = 1
    /\ rxClosed = FALSE
    /\ bpc = "start"
    /\ cur = 0 /\ rtp = Slice(0, 1) /\ k = 1 /\ num = 0 /\ soaSeen = 0
    /\ msg = <<>> /\ pending = <<>>
    /\ out = <<Item("Begin", <<>>)>>

\* Variant: the walker forgets the final SOA.
WalkSendNoFinalSoa ==
    /\ wpos <= Len(zone) + 1
    /\ rxClosed \/ Len(chan) < ChanCap
    /\ chan' = IF rxClosed \/ wpos > Len(zone) THEN chan ELSE Append(chan, wpos)
    /\ wpos' = wpos + 1
    /\ UNCHANGED <<zone, compat, rxClosed, bpc, cur, rtp, k, num, soaSeen,
                   msg, pending, out>>

\* Variant: a send that does not wait when the channel holds ChanCap.
WalkSendUnbounded ==
    /\ wpos <= Len(zone) + 1
    /\ rxClosed \/ Len(chan) <= ChanCap
    /\ chan' = IF rxClosed THEN chan
               ELSE Append(chan, IF wpos <= Len(zone) THEN wpos ELSE 0)
    /\ wpos' = wpos + 1
    /\ UNCHANGED <<zone, compat, rxClosed, bpc, cur, rtp, k, num, soaSeen,
                   msg, pending, out>>

-----------------------------------------------------------------------------
(* The zone walker: blocking_send of each non-SOA RRset, then of the SOA.  *)
(* A send to a closed receiver fails at once and is ignored.  When the     *)
(* task ends every sender is dropped, which closes the channel.            *)

WalkSend ==
    /\ wpos <= Len(zone) + 1
    /\ rxClosed \/ Len(chan) < ChanCap
    /\ chan' = IF rxClosed THEN chan
               ELSE Append(chan, IF wpos <= Len(zone) THEN wpos ELSE 0)
    /\ wpos' = wpos + 1
    /\ UNCHANGED <<zone, compat, rxClosed, bpc, cur, rtp, k, num, soaSeen,
                   msg, pending, out>>

-----------------------------------------------------------------------------
(* The batcher task.                                                       *)

\* Acquire the batcher permit and receive the zone SOA.
BatchStart ==
    /\ bpc = "start" /\ chan # <<>>
    /\ cur' = Head(chan) /\ rtp' = Slice(Head(chan), 1)
    /\ chan' = Tail(chan)
    /\ bpc' = "outer"
    /\ UNCHANGED <<zone, compat, wpos, rxClosed, k, num, soaSeen, msg, pending, out>>

\* The head of 'outer: num_rrs_added = 0.
OuterTop ==
    /\ bpc = "outer"
    /\ num' = 0 /\ bpc' = "innerTop"
    /\ UNCHANGED <<zone, compat, chan, wpos, rxClosed, cur, rtp, k, soaSeen,
                   msg, pending, out>>

\* The head of 'inner: a slice equal to the SOA RRset's data counts as
\* seeing the SOA.
InnerTop ==
    /\ bpc = "innerTop"
    /\ soaSeen' = soaSeen + (IF rtp = Slice(0, 1) THEN 1 ELSE 0)
    /\ k' = rtp.from /\ bpc' = "push"
    /\ UNCHANGED <<zone, compat, chan, wpos, rxClosed, cur, rtp, num, msg,
                   pending, out>>

\* Variant: the hard RR limit is never reported.
BatchPushNoHardLimit(n, fits, hardLimit) ==
    CASE fits -> "PushedAndReadyForMore"
      [] n > 0 -> "NotPushedMessageFull"
      [] OTHER -> "Err"

\* RrBatcher::push into an answer holding n records: the outcome when the
\* record fits under the soft byte limit or not, with the hard RR limit
\* (1 in compatibility mode, else none) compared with the new ancount.
BatchPush(n, fits, hardLimit) ==
    IF fits /\ n + 1 = hardLimit THEN "PushedAndLimitReached"
    ELSE IF fits THEN "PushedAndReadyForMore"
    ELSE IF n > 0 THEN "NotPushedMessageFull"
    ELSE "Err"

\* One iteration of the for loop over records_to_process: push the record
\* with current_rrset's TTL and act on the outcome.
Push ==
    LET r == Rec(rtp.set, k, cur)
        res == BatchPush(Len(msg), <<rtp.set, k>> \notin Oversize /\ Len(msg) < Cap,
                         IF compat THEN 1 ELSE 0)
    IN
    /\ bpc = "push"
    /\ \/ /\ k > RLen(rtp.set)
          /\ bpc' = "innerEnd"
          /\ UNCHANGED <<k, num, msg, pending>>
       \/ /\ k <= RLen(rtp.set) /\ res = "PushedAndReadyForMore"
          /\ msg' = Append(msg, r) /\ num' = num + 1 /\ k' = k + 1
          /\ UNCHANGED <<bpc, pending>>
       \/ /\ k <= RLen(rtp.set) /\ res = "PushedAndLimitReached"
          /\ pending' = Append(msg, r) /\ msg' = <<>>
          /\ num' = num + 1 /\ bpc' = "send"
          /\ UNCHANGED k
       \/ /\ k <= RLen(rtp.set) /\ res = "NotPushedMessageFull"
          /\ pending' = msg /\ msg' = <<>> /\ bpc' = "send"
          /\ UNCHANGED <<k, num>>
       \/ /\ k <= RLen(rtp.set) /\ res = "Err"
          /\ msg' = <<>> /\ bpc' = "end"
          /\ UNCHANGED <<k, num, pending>>
    /\ UNCHANGED <<zone, compat, chan, wpos, rxClosed, cur, rtp, soaSeen, out>>

\* The end of the for loop: the final batch after the second SOA, else
\* the next RRset from the channel.  The walker sends the final SOA before
\* it drops its senders and that SOA is always counted, so recv() never
\* returns None here and its unwrap() never panics: a batcher waiting on an
\* empty closed channel would have no step, which the deadlock check rules
\* out.
InnerEnd ==
    /\ bpc = "innerEnd"
    /\ \/ /\ soaSeen = 2
          /\ pending' = msg /\ msg' = <<>> /\ bpc' = "send"
          /\ UNCHANGED <<chan, cur, rtp>>
       \/ /\ soaSeen # 2 /\ chan # <<>>
          /\ cur' = Head(chan) /\ rtp' = Slice(Head(chan), 1)
          /\ chan' = Tail(chan) /\ bpc' = "innerTop"
          /\ UNCHANGED <<msg, pending>>
    /\ UNCHANGED <<zone, compat, wpos, rxClosed, k, num, soaSeen, out>>

\* After 'inner: send the batch (a closed response stream ends the task),
\* then continue at num_rrs_added as an index into current_rrset (which
\* panics past its end), stop after the second SOA, or fetch the next RRset.
Send ==
    /\ bpc = "send"
    /\ Len(out) < MaxOut
    /\ pending' = <<>>
    /\ \/ /\ pending # <<>>
          /\ out' = out /\ bpc' = "gone" /\ rxClosed' = TRUE
          /\ UNCHANGED rtp
       \/ /\ out' = IF pending # <<>> THEN Append(out, Item("Msg", pending)) ELSE out
          /\ IF num < SliceLen(rtp)
             THEN IF num <= RLen(cur)
                  THEN rtp' = Slice(cur, 1 + num) /\ bpc' = "outer"
                  ELSE UNCHANGED rtp /\ bpc' = "panicked"
             ELSE UNCHANGED rtp /\ bpc' = IF soaSeen = 2 THEN "end" ELSE "fetch"
          /\ rxClosed' = (bpc' = "panicked")
    /\ UNCHANGED <<zone, compat, chan, wpos, cur, k, num, soaSeen, msg>>

\* "Fetching more records": the RRset received goes to zone_soa_rrset, so
\* records_to_process moves on while current_rrset stays.  As in InnerEnd,
\* the channel is never found closed here, so its SERVFAIL is never sent.
Fetch ==
    /\ bpc = "fetch" /\ chan # <<>>
    /\ rtp' = Slice(Head(chan), 1) /\ chan' = Tail(chan)
    /\ bpc' = "outer"
    /\ UNCHANGED <<zone, compat, wpos, rxClosed, cur, k, num, soaSeen, msg,
                   pending, out>>

\* EndTransaction, then batcher_rx.close().
Finish ==
    /\ bpc = "end"
    /\ out' = Append(out, Item("End", <<>>)) /\ bpc' = "done" /\ rxClosed' = TRUE
    /\ UNCHANGED <<zone, compat, chan, wpos, cur, rtp, k, num, soaSeen, msg, pending>>

\* Both tasks have ended.
Terminated ==
    /\ bpc \in {"done", "gone", "panicked"} /\ WalkDone
    /\ UNCHANGED vars

Batcher == BatchStart \/ OuterTop \/ InnerTop \/ Push \/ InnerEnd \/ Send \/ Fetch \/ Finish

Next == WalkSend \/ Batcher \/ Terminated

\* tokio runs both spawned tasks: each that can step eventually does.
Spec == Init /\ [][Next]_vars /\ WF_vars(WalkSend) /\ WF_vars(Batcher)
=============================================================================

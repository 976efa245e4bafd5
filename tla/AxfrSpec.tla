------------------------------- MODULE AxfrSpec -------------------------------
(***************************************************************************)
(* What an AXFR response stream promises its client (RFC 5936 2.2): the  *)
(* zone's records in order, in messages of one or more records, then the *)
(* end of the transaction once every record has been sent.  The client   *)
(* may go away at any time, which ends the stream early.                  *)
(***************************************************************************)
EXTENDS Naturals, Sequences, SequencesExt

CONSTANT Zones    \* zones as RRset sizes in walk order; RRset 0 is the SOA

VARIABLES
    zone,   \* the zone transferred
    sent,   \* the records the client has been sent so far
    state   \* "open", "closed" by EndTransaction, or "aborted"

vars == <<zone, sent, state>>

\* A record: its RRset, its index there, and the RRset whose TTL it carries.
\* The transfer of z: the SOA, every RRset in walk order, the SOA.
Transfer(z) ==
    LET rec(s, i) == [set |-> s, i |-> i, ttl |-> s]
    IN <<rec(0, 1)>>
       \o FlattenSeq([s \in 1..Len(z) |-> [i \in 1..z[s] |-> rec(s, i)]])
       \o <<rec(0, 1)>>

Records == Transfer(zone)

Init == zone \in Zones /\ sent = <<>> /\ state = "open"

\* One more message: the next records of the zone.
SendMore ==
    /\ state = "open"
    /\ \E n \in 1..(Len(Records) - Len(sent)) :
          sent' = SubSeq(Records, 1, Len(sent) + n)
    /\ UNCHANGED <<zone, state>>

\* EndTransaction, only after the last record.
Close ==
    /\ state = "open" /\ sent = Records
    /\ state' = "closed"
    /\ UNCHANGED <<zone, sent>>

\* The client's connection is gone.
Abort ==
    /\ state = "open"
    /\ state' = "aborted"
    /\ UNCHANGED <<zone, sent>>

Next == SendMore \/ Close \/ Abort

\* The server keeps sending until the transfer is closed or aborted.
Spec == Init /\ [][Next]_vars /\ WF_vars(SendMore \/ Close)
=============================================================================

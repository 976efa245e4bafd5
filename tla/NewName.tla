------------------------------- MODULE NewName -------------------------------
(***************************************************************************)
(* The new domain-name types of src/src/base/new_name: Label and           *)
(* UncertainName, an absolute or relative name in wire format.  A name is  *)
(* its byte string, a sequence of naturals: label lengths, then content    *)
(* bytes, and a final 0 for an absolute name.  Label::MAX_SIZE (63) and    *)
(* Name::MAX_SIZE (255) are the constants MAX_LABEL and NAME_MAX_SIZE.     *)
(***************************************************************************)
EXTENDS Integers, Sequences, SequencesExt

CONSTANTS MAX_LABEL, NAME_MAX_SIZE

\* to_ascii_lowercase of one byte, which eq_ignore_ascii_case applies to
\* both sides.
Lower(b) == IF b \in 65..90 THEN b + 32 ELSE b
EqIgnoreCase(s, t) ==
    Len(s) = Len(t) /\ \A i \in 1..Len(s) : Lower(s[i]) = Lower(t[i])

Ordering(x, y) == IF x < y THEN "Less" ELSE IF x = y THEN "Equal" ELSE "Greater"

\* Variant: the derived PartialEq, which compares the bytes exactly.
LabelEqDerived(a, b) == a = b

\* PartialEq for Label: eq_ignore_ascii_case of the bytes.
LabelEq(a, b) == EqIgnoreCase(a, b)

\* Hash for Label: what the hasher is given, the length as u8 and then
\* every byte lowercased.
LabelHash(a) == <<Len(a) % 256>> \o [i \in 1..Len(a) |-> Lower(a[i])]

\* Label::cmp: the first pair of bytes that differ ignoring case decides,
\* compared lowercased; if there is none, the shorter label is less.
LabelCmp(a, b) ==
    LET diff == {i \in 1..Min({Len(a), Len(b)}) : Lower(a[i]) # Lower(b[i])}
    IN IF diff = {} THEN Ordering(Len(a), Len(b))
       ELSE Ordering(Lower(a[Min(diff)]), Lower(b[Min(diff)]))

\* Variant: a label length is rejected only above 64.
RECURSIVE ScanOffByOne(_, _)
ScanOffByOne(b, i) ==
    IF i >= Len(b) THEN i
    ELSE IF b[i + 1] = 0 THEN i + 1
    ELSE IF b[i + 1] > MAX_LABEL + 1 THEN -1
    ELSE ScanOffByOne(b, i + 1 + b[i + 1])

\* The label loop of UncertainName::from_bytes from index i: the index it
\* stops at, or -1 for a label length of 64 or more.
RECURSIVE Scan(_, _)
Scan(b, i) ==
    IF i >= Len(b) THEN i
    ELSE IF b[i + 1] = 0 THEN i + 1
    ELSE IF b[i + 1] >= MAX_LABEL + 1 THEN -1
    ELSE Scan(b, i + 1 + b[i + 1])

\* UncertainName::from_bytes: at most NAME_MAX_SIZE bytes, and the loop
\* lands exactly at the end.
FromBytes(b) == Len(b) <= NAME_MAX_SIZE /\ Scan(b, 0) = Len(b)

IsRoot(n) == Len(n) = 1

\* UncertainName::split_first: the first label and the rest, or none for
\* the root and the empty name.
NoSplit == [label |-> <<>>, rest |-> <<>>, none |-> TRUE]
SplitFirst(n) ==
    IF n = <<>> \/ IsRoot(n) THEN NoSplit
    ELSE [label |-> SubSeq(n, 2, 1 + n[1]), rest |-> SubSeq(n, 2 + n[1], Len(n)),
          none |-> FALSE]

\* Variant: the parent starts one byte early, at the last content byte.
ParentOffByOne(n) ==
    IF n = <<>> \/ IsRoot(n) THEN [ok |-> FALSE]
    ELSE [ok |-> TRUE, name |-> SubSeq(n, 1 + n[1], Len(n))]

\* UncertainName::parent: none for the empty name and the root, else the
\* bytes after the first label, taken unchecked.
Parent(n) ==
    IF n = <<>> \/ IsRoot(n) THEN [ok |-> FALSE]
    ELSE [ok |-> TRUE, name |-> SubSeq(n, 2 + n[1], Len(n))]

\* The loop of ends_with that walks label boundaries up to offset.
RECURSIVE Align(_, _, _)
Align(n, i, offset) == IF i < offset THEN Align(n, i + 1 + n[i + 1], offset) ELSE i

\* Variant: the bytes are compared without checking the label boundary.
EndsWithUnaligned(n, s) ==
    Len(n) >= Len(s) /\ EqIgnoreCase(SubSeq(n, Len(n) - Len(s) + 1, Len(n)), s)

\* UncertainName::ends_with: the last Len(s) bytes start at a label
\* boundary and equal s ignoring case.
EndsWith(n, s) ==
    /\ Len(n) >= Len(s)
    /\ Align(n, 0, Len(n) - Len(s)) = Len(n) - Len(s)
    /\ EqIgnoreCase(SubSeq(n, Len(n) - Len(s) + 1, Len(n)), s)

\* UncertainName::strip_suffix: when ends_with holds, the bytes before the
\* suffix, taken unchecked.
StripSuffix(n, s) ==
    IF EndsWith(n, s) THEN [ok |-> TRUE, name |-> SubSeq(n, 1, Len(n) - Len(s))]
    ELSE [ok |-> FALSE]

\* The loop of UncertainName::cmp over the head labels and tails of both
\* names, with fuel for the iterations it may take.  A split_first of a
\* tail with no label left is an unwrap_unchecked of None.
RECURSIVE CmpLoop(_, _, _, _, _, _)
CmpLoop(thisHead, thisTail, thatHead, thatTail, suffix, fuel) ==
    LET thisLen == Len(thisTail)
        thatLen == Len(thatTail)
        this == IF thisLen > thatLen \/ thisLen > suffix THEN SplitFirst(thisTail)
                ELSE [label |-> thisHead, rest |-> thisTail, none |-> FALSE]
        that == IF thatLen > thisLen \/ thatLen > suffix THEN SplitFirst(thatTail)
                ELSE [label |-> thatHead, rest |-> thatTail, none |-> FALSE]
    IN IF thisLen = thatLen /\ thisLen < suffix THEN LabelCmp(thisHead, thatHead)
       ELSE IF fuel = 0 THEN "Hang"
       ELSE IF this.none \/ that.none THEN "Undefined"
       ELSE CmpLoop(this.label, this.rest, that.label, that.rest, suffix, fuel - 1)

\* UncertainName::cmp: the length of the shared suffix of bytes ignoring
\* case; none means the shorter is a suffix of the longer, and the length
\* decides.  Both head/tail pairs start from self.split_first().
NameCmp(a, b) ==
    LET ra == Reverse(a)
        rb == Reverse(b)
        diff == {i \in 1..Min({Len(a), Len(b)}) : Lower(ra[i]) # Lower(rb[i])}
        this == SplitFirst(a)
        that == SplitFirst(a)
    IN IF diff = {} THEN Ordering(Len(a), Len(b))
       ELSE CmpLoop(this.label, this.rest, that.label, that.rest, Min(diff) - 1,
                    Len(a) + Len(b))
=============================================================================

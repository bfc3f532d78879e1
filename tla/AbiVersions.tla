----------------------------- MODULE AbiVersions -----------------------------
(***************************************************************************)
(* Numeric versions (versions.py).  A version as it is written, "2.17.0",   *)
(* is the sequence of its numbers, <<2, 17, 0>>.  Text that is not numeric  *)
(* is no such sequence, and parsing it raises.                              *)
(***************************************************************************)
EXTENDS Integers, Sequences

CONSTANT None  \* no version; also any other field that is absent

\* AbiVersion.parse drops trailing zeros: "2.17.0" and "2.17" parse alike.
Parse(v) ==
  LET last == CHOOSE i \in 1 .. Len(v) :
        /\ i = 1 \/ v[i] # 0
        /\ \A j \in i + 1 .. Len(v) : v[j] = 0
  IN SubSeq(v, 1, last)

Same(v, w) == Parse(v) = Parse(w)

\* The order of the parsed tuples: at the first place where they differ, the one
\* that is smaller or has ended comes first.
Older(v, w) ==
  LET a == Parse(v)
      b == Parse(w)
      Equal(n) == \A i \in 1 .. n : a[i] = b[i]
  IN \/ \E i \in 1 .. Len(a) : i <= Len(b) /\ Equal(i - 1) /\ a[i] < b[i]
     \/ Len(a) < Len(b) /\ Equal(Len(a))

AtMost(v, w) == ~Older(w, v)
=============================================================================

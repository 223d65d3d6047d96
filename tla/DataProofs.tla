----------------------------- MODULE DataProofs -----------------------------
(***************************************************************************)
(* Proofs about Data: what its properties compare by examples, for every   *)
(* policy, offset and torrent, and every piece and sequence of writes.     *)
(***************************************************************************)
EXTENDS Data, CachePolicyProofs

-----------------------------------------------------------------------------
(* The policy in force *)

PolicyTyped ==
    /\ geometry \in [total : Nat \ {0}, len : Nat \ {0}]
    /\ asked \subseteq Int
    /\ policy \in Policies
    /\ offset \in Int
    /\ \A limit \in asked : LimitMib(policy) = Clamp(limit, 1, MaxLimitMib)

LEMMA PolicyTypedInit == DataInit => PolicyTyped
  <1> SUFFICES ASSUME DataInit PROVE PolicyTyped
    OBVIOUS
  <1>1. geometry \in [total : Nat \ {0}, len : Nat \ {0}]
    BY DataAssumption DEF DataInit
  <1>2. policy \in Policies /\ LimitMib(policy) = Clamp(1, 1, MaxLimitMib)
    BY LimitFits, LimitRoundTrip DEF DataInit
  <1> QED BY <1>1, <1>2 DEF DataInit, PolicyTyped

LEMMA PolicyTypedStep == PolicyTyped /\ [DataNext]_dataVars => PolicyTyped'
  <1> SUFFICES ASSUME PolicyTyped, [DataNext]_dataVars PROVE PolicyTyped'
    OBVIOUS
  <1>1. CASE PolicyNext
    <2>1. CASE SetLimit
      <3>1. PICK n \in Limits : /\ asked' = {n} /\ policy' = FromLimitMib(n)
                                /\ UNCHANGED <<geometry, offset>>
        BY <2>1 DEF SetLimit
      <3>2. n \in Int
        BY DataAssumption
      <3> QED BY <3>1, <3>2, LimitFits, LimitRoundTrip DEF PolicyTyped
    <2>2. CASE SetPolicy
      <3>1. PICK m, b, a \in Budgets : policy' = Normalize([max |-> m, before |-> b, after |-> a])
        BY <2>2 DEF SetPolicy
      <3>2. [max |-> m, before |-> b, after |-> a] \in RawPolicies
        BY DataAssumption DEF RawPolicies
      <3>3. policy' \in Policies
        BY <3>1, <3>2, NormalizeFits
      <3>4. asked' = {} /\ UNCHANGED <<geometry, offset>>
        BY <2>2 DEF SetPolicy
      <3> QED BY <3>3, <3>4 DEF PolicyTyped
    <2>3. CASE MoveReader
      BY <2>3, DataAssumption DEF MoveReader, PolicyTyped
    <2> QED BY <1>1, <2>1, <2>2, <2>3 DEF PolicyNext
  <1>2. CASE UNCHANGED policyVars
    BY <1>2 DEF policyVars, PolicyTyped
  <1> QED BY <1>1, <1>2 DEF DataNext, PieceNext, FilesNext, RailNext, dataVars

LEMMA PolicyAlwaysTyped == DataSpec => []PolicyTyped
  BY PolicyTypedInit, PolicyTypedStep, PTL DEF DataSpec

\* Whatever limits and budgets the settings and the callers ask for, the policy in force
\* fits the cache, is left alone by the normalisations that follow, and shows the limit
\* that was asked for (cache_policy.cpp:16-53).
THEOREM PolicyAlwaysFits == DataSpec => []PolicyInForce
  <1>1. PolicyTyped => PolicyInForce
    BY NormalizeIsStable DEF PolicyTyped, PolicyInForce
  <1> QED BY <1>1, PolicyAlwaysTyped, PTL

-----------------------------------------------------------------------------
(* The window *)

\* What RetainedWindow computes, for an offset at or after the start.
LEMMA WindowParts ==
    ASSUME NEW o \in Int, NEW total \in Nat \ {0}, NEW len \in Nat \ {0}, NEW p \in Policies
    PROVE  LET at == AtLeast(o, 0)
               lo == FirstByte(at, p) \div len
               hi == CeilDiv(EndByte(at, p), len)
               first == Clamp(lo, 0, total)
               end == Clamp(hi, 0, total)
           IN  /\ at \in Nat /\ FirstByte(at, p) \in Nat /\ FirstByte(at, p) <= at
               /\ EndByte(at, p) \in Nat \ {0} /\ at < EndByte(at, p)
               /\ lo \in Nat /\ hi \in Nat
               /\ RetainedWindow(o, total, len, p) =
                    [first |-> first, end |-> IF end <= first THEN AtMost(total, first + 1) ELSE end]
  <1> DEFINE at == AtLeast(o, 0)
             lo == FirstByte(at, p) \div len
             hi == CeilDiv(EndByte(at, p), len)
  <1>1. at \in Nat /\ p.before \in Nat /\ p.after \in Nat
    BY DEF AtLeast, Policies
  <1>2. /\ FirstByte(at, p) \in Nat /\ FirstByte(at, p) <= at
        /\ EndByte(at, p) \in Nat \ {0} /\ at < EndByte(at, p)
    BY <1>1 DEF FirstByte, EndByte, AtLeast
  <1>3. lo \in Nat /\ hi \in Nat
    BY <1>2, QuotientBounds, CeilBounds
  <1>4. RetainedWindow(o, total, len, p) = WindowAt(at, p, total, len)
    BY NormalizeIsStable DEF RetainedWindow
  <1> QED BY <1>1, <1>2, <1>3, <1>4 DEF WindowAt, FirstPiece, EndPiece

LEMMA QuotientIs ==
    ASSUME NEW n \in Nat, NEW d \in Nat \ {0}, NEW q \in Nat, q * d <= n, n < q * d + d
    PROVE  n \div d = q
  <1> DEFINE r == n \div d
  <1>1. r \in Nat /\ r * d <= n /\ n < r * d + d
    BY QuotientBounds
  <1>2. ~(r < q)
    <2> SUFFICES ASSUME r + 1 <= q PROVE FALSE
      BY <1>1
    <2>1. (r + 1) * d <= q * d /\ (r + 1) * d = r * d + d
      BY <1>1
    <2> HIDE DEF r
    <2> QED BY <1>1, <2>1
  <1>3. ~(q < r)
    <2> SUFFICES ASSUME q + 1 <= r PROVE FALSE
      BY <1>1
    <2>1. (q + 1) * d <= r * d /\ (q + 1) * d = q * d + d
      BY <1>1
    <2> HIDE DEF r
    <2> QED BY <1>1, <2>1
  <1> HIDE DEF r
  <1> QED BY <1>1, <1>2, <1>3 DEF r

\* A piece of the torrent is in the window when it holds a byte between the window's
\* first and its end.
LEMMA PieceHoldsByte ==
    ASSUME NEW x \in Nat, NEW y \in Nat \ {0}, NEW total \in Nat \ {0}, NEW len \in Nat \ {0},
           NEW q \in Nat, x < y, x < total * len,
           x \div len <= q, q < CeilDiv(y, len), q < total
    PROVE  LET b == AtLeast(x, q * len)
           IN  b \in Nat /\ x <= b /\ b < y /\ b < total * len /\ b \div len = q
  <1> DEFINE lo == x \div len
             hi == CeilDiv(y, len)
             m == q * len
             b == AtLeast(x, m)
  <1>1. lo \in Nat /\ lo * len <= x /\ x < lo * len + len
    BY QuotientBounds
  <1>2. hi \in Nat /\ hi * len < y + len
    BY CeilBounds
  <1>3. (lo + 0) * len <= q * len /\ m \in Nat
    BY <1>1
  <1>4. (q + 1) * len <= hi * len /\ (q + 1) * len = m + len
    BY <1>2
  <1>5. (q + 1) * len <= total * len
    OBVIOUS
  <1>6. lo * len \in Nat /\ hi * len \in Nat /\ total * len \in Nat
    BY <1>1, <1>2
  <1> HIDE DEF lo, hi, m
  <1>7. lo * len <= m
    BY <1>1, <1>3 DEF m
  <1>8. m < y /\ m < total * len /\ x < m + len
    BY <1>1, <1>2, <1>3, <1>4, <1>5, <1>6, <1>7
  <1>9. b \in Nat /\ m <= b /\ x <= b /\ b < y /\ b < total * len /\ b < m + len
    BY <1>3, <1>8 DEF AtLeast
  <1>10. b \div len = q
    <2>1. q * len <= b /\ b < q * len + len
      BY <1>9 DEF m
    <2> HIDE DEF b
    <2> QED BY <1>9, <2>1, QuotientIs
  <1>11. b \in Nat /\ x <= b /\ b < y /\ b < total * len /\ b \div len = q
    BY <1>9, <1>10
  <1>12. b = AtLeast(x, q * len)
    BY DEF m
  <1> QED BY <1>11, <1>12

\* And a byte between them is in a piece of the window.
LEMMA ByteInPiece ==
    ASSUME NEW x \in Nat, NEW y \in Nat \ {0}, NEW total \in Nat \ {0}, NEW len \in Nat \ {0},
           NEW b \in Nat, x <= b, b < y, b < total * len
    PROVE  /\ b \div len \in Nat
           /\ x \div len <= b \div len /\ b \div len < CeilDiv(y, len) /\ b \div len < total
  <1> DEFINE q == b \div len
             hi == CeilDiv(y, len)
  <1>1. q \in Nat /\ q * len <= b /\ b < q * len + len
    BY QuotientBounds
  <1>2. hi \in Nat /\ y <= hi * len
    BY CeilBounds
  <1>3. x \div len <= q
    BY QuotientMonotone
  <1>4. q * len \in Nat /\ hi * len \in Nat /\ total * len \in Nat
    BY <1>1, <1>2
  <1>5. q < hi
    <2> SUFFICES ASSUME hi <= q PROVE FALSE
      BY <1>1, <1>2
    <2>1. hi * len <= q * len
      BY <1>1, <1>2
    <2> HIDE DEF hi, q
    <2> QED BY <1>1, <1>2, <1>4, <2>1
  <1>6. q < total
    <2> SUFFICES ASSUME total <= q PROVE FALSE
      BY <1>1
    <2>1. total * len <= q * len
      BY <1>1
    <2> HIDE DEF hi, q
    <2> QED BY <1>1, <1>4, <2>1
  <1> QED BY <1>1, <1>3, <1>5, <1>6

\* The window cut to a file.
LEMMA CutIsExact ==
    ASSUME NEW w \in Windows, w.first <= w.end, NEW f \in Nat, NEW e \in Nat, f <= e
    PROVE  LET cut == ClampToFileWindow(w, f, e)
               shared == PiecesOf(w) \cap (f .. (e - 1))
           IN  /\ f <= cut.first /\ cut.first <= cut.end /\ cut.end <= e
               /\ shared # {} => PiecesOf(cut) = shared
               /\ f < e => PiecesOf(cut) # {}
  <1> DEFINE cut == ClampToFileWindow(w, f, e)
             c == CutToFile(w, f, e)
             shared == PiecesOf(w) \cap (f .. (e - 1))
  <1>1. w.first \in Nat /\ w.end \in Nat
    BY DEF Windows
  <1>2. /\ c.first = Clamp(w.first, f, e) /\ c.end = Clamp(w.end, c.first, e)
        /\ c = [first |-> c.first, end |-> c.end]
    BY DEF CutToFile
  <1>3. c.first \in Nat /\ c.end \in Nat /\ f <= c.first /\ c.first <= c.end /\ c.end <= e
    BY <1>1, <1>2 DEF Clamp
  <1>4. \A q \in Int : q \in shared <=> c.first <= q /\ q < c.end
    BY <1>1, <1>2, <1>3 DEF Clamp, PiecesOf
  <1> HIDE DEF c
  <1>5. CASE c.end <= c.first /\ f < e
    <2>1. cut = [first |-> f, end |-> AtMost(e, f + 1)]
      BY <1>5 DEF ClampToFileWindow, IsEmpty, c
    <2>2. cut.first = f /\ cut.end = f + 1
      BY <1>5, <2>1 DEF AtMost
    <2>3. shared = {}
      BY <1>1, <1>3, <1>4, <1>5 DEF PiecesOf
    <2>4. f \in PiecesOf(cut)
      BY <2>2 DEF PiecesOf
    <2> QED BY <1>5, <2>2, <2>3, <2>4
  <1>6. CASE ~(c.end <= c.first /\ f < e)
    <2>1. cut = c
      BY <1>2, <1>3, <1>6 DEF ClampToFileWindow, IsEmpty, c
    <2>2. PiecesOf(cut) = shared
      BY <1>1, <1>3, <1>4, <2>1 DEF PiecesOf
    <2>3. ASSUME f < e PROVE PiecesOf(cut) # {}
      BY <1>3, <1>6, <2>1, <2>3 DEF PiecesOf
    <2> QED BY <1>3, <2>1, <2>2, <2>3
  <1> QED BY <1>5, <1>6

\* Inside the torrent the window is its pieces between the first and the end.
LEMMA WindowInside ==
    ASSUME NEW o \in Nat, NEW total \in Nat \ {0}, NEW len \in Nat \ {0}, NEW p \in Policies,
           o < total * len
    PROVE  \A q \in Nat : Contains(RetainedWindow(o, total, len, p), q)
                <=> /\ FirstByte(o, p) \div len <= q
                    /\ q < CeilDiv(EndByte(o, p), len)
                    /\ q < total
  <1> DEFINE lo == FirstByte(o, p) \div len
             hi == CeilDiv(EndByte(o, p), len)
             first == Clamp(lo, 0, total)
             end == Clamp(hi, 0, total)
             w == RetainedWindow(o, total, len, p)
  <1>1. AtLeast(o, 0) = o
    BY DEF AtLeast
  <1>2. /\ FirstByte(o, p) \in Nat /\ EndByte(o, p) \in Nat \ {0}
        /\ FirstByte(o, p) <= o /\ o < EndByte(o, p)
        /\ lo \in Nat /\ hi \in Nat
        /\ w = [first |-> first, end |-> IF end <= first THEN AtMost(total, first + 1) ELSE end]
    <2>1. o \in Int
      OBVIOUS
    <2>2. /\ FirstByte(AtLeast(o, 0), p) \in Nat /\ EndByte(AtLeast(o, 0), p) \in Nat \ {0}
          /\ FirstByte(AtLeast(o, 0), p) <= AtLeast(o, 0) /\ AtLeast(o, 0) < EndByte(AtLeast(o, 0), p)
          /\ FirstByte(AtLeast(o, 0), p) \div len \in Nat
          /\ CeilDiv(EndByte(AtLeast(o, 0), p), len) \in Nat
      BY <2>1, WindowParts
    <2>3. w = [first |-> first, end |-> IF end <= first THEN AtMost(total, first + 1) ELSE end]
      BY <1>1, <2>1, WindowParts
    <2> QED BY <1>1, <2>2, <2>3
  <1>3. o \div len \in Nat /\ lo <= o \div len /\ o \div len < hi /\ o \div len < total
    BY <1>2, ByteInPiece
  <1> HIDE DEF lo, hi, w
  <1>4. first = lo /\ end = AtMost(hi, total) /\ w.first = lo /\ w.end = AtMost(hi, total)
    BY <1>2, <1>3 DEF Clamp, AtMost
  <1> QED BY <1>2, <1>4 DEF Contains, AtMost, lo, hi, w

LEMMA WindowIsPromise ==
    ASSUME NEW o \in Nat, NEW total \in Nat \ {0}, NEW len \in Nat \ {0}, NEW p \in Policies,
           o < total * len
    PROVE  PiecesOf(RetainedWindow(o, total, len, p)) =
             {b \div len : b \in {c \in 0 .. (total * len - 1) :
                                    /\ c >= o - p.before
                                    /\ c < o + AtLeast(1, p.after)}}
  <1> DEFINE x == FirstByte(o, p)
             y == EndByte(o, p)
             w == RetainedWindow(o, total, len, p)
             promised == {c \in 0 .. (total * len - 1) : /\ c >= o - p.before
                                                         /\ c < o + AtLeast(1, p.after)}
  <1>1. p.before \in Nat /\ p.after \in Nat /\ total * len \in Nat
    BY DEF Policies
  <1>2. x \in Nat /\ y \in Nat \ {0} /\ x < y /\ x < total * len
    BY <1>1 DEF FirstByte, EndByte, AtLeast
  <1>3. /\ promised \subseteq Nat
        /\ \A b \in Nat : b \in promised <=> x <= b /\ b < y /\ b < total * len
    BY <1>1 DEF FirstByte, EndByte, AtLeast
  <1>4. /\ PiecesOf(w) \subseteq Nat
        /\ \A q \in Nat : q \in PiecesOf(w) <=> Contains(w, q)
    <2>1. p \in RawPolicies
      BY DEF Policies, RawPolicies
    <2>2. w \in Windows
      BY <2>1, WindowInTorrent
    <2> HIDE DEF w
    <2> QED BY <2>2 DEF PiecesOf, Contains, Windows
  <1>5. \A q \in Nat : q \in PiecesOf(w) <=> x \div len <= q /\ q < CeilDiv(y, len) /\ q < total
    BY <1>4, WindowInside
  <1> HIDE DEF x, y, w, promised
  <1>6. ASSUME NEW q \in PiecesOf(w) PROVE \E b \in promised : b \div len = q
    <2>1. q \in Nat /\ x \div len <= q /\ q < CeilDiv(y, len) /\ q < total
      BY <1>4, <1>5
    <2> DEFINE b == AtLeast(x, q * len)
    <2>2. b \in Nat /\ x <= b /\ b < y /\ b < total * len /\ b \div len = q
      <3>1. x \in Nat /\ y \in Nat \ {0} /\ q \in Nat
        BY <1>2, <2>1
      <3>2. x < y /\ x < total * len /\ x \div len <= q /\ q < CeilDiv(y, len) /\ q < total
        BY <1>2, <2>1
      <3> QED BY <3>1, <3>2, PieceHoldsByte
    <2> HIDE DEF b
    <2> QED BY <1>3, <2>2
  <1>7. ASSUME NEW b \in promised PROVE b \div len \in PiecesOf(w)
    <2>1. b \in Nat /\ x <= b /\ b < y /\ b < total * len
      BY <1>3
    <2> QED BY <1>2, <1>5, <2>1, ByteInPiece
  <1>8. PiecesOf(w) = {b \div len : b \in promised}
    BY <1>6, <1>7
  <1> QED BY <1>8 DEF w, promised

\* The retained window is the pieces of the bytes promised around the reader, no more
\* and no less, for every policy, torrent and offset inside it; and its cut to a file
\* is their common part, or a piece of the file (cache_policy.cpp:55-87).
THEOREM WindowsAlwaysExact == DataSpec => []WindowsAreExact
  <1>1. PolicyTyped => WindowsAreExact
    <2> SUFFICES ASSUME PolicyTyped PROVE WindowsAreExact
      OBVIOUS
    <2> DEFINE total == geometry.total
               len == geometry.len
    <2>1. total \in Nat \ {0} /\ len \in Nat \ {0} /\ offset \in Int /\ policy \in Policies
      BY DEF PolicyTyped
    <2>2. policy \in RawPolicies
      BY <2>1 DEF Policies, RawPolicies
    <2>3. Window \in Windows /\ Window.first <= Window.end /\ Window.end <= total
      BY <2>1, <2>2, WindowInTorrent DEF Window
    <2>4. ASSUME offset \in 0 .. (total * len - 1)
          PROVE  PiecesOf(Window) = {b \div len : b \in PromisedBytes}
      <3>1. total * len \in Nat /\ offset \in Nat /\ offset < total * len
        BY <2>1, <2>4
      <3> QED BY <2>1, <3>1, WindowIsPromise DEF Window, PromisedBytes
    <2>5. ASSUME NEW f \in 0 .. total, NEW e \in f .. total
          PROVE  LET cut == ClampToFileWindow(Window, f, e)
                     shared == PiecesOf(Window) \cap (f .. (e - 1))
                 IN  /\ f <= cut.first /\ cut.first <= cut.end /\ cut.end <= e
                     /\ shared # {} => PiecesOf(cut) = shared
                     /\ f < e => PiecesOf(cut) # {}
      <3>1. f \in Nat /\ e \in Nat /\ f <= e
        BY <2>1
      <3> QED BY <2>3, <3>1, CutIsExact
    <2> QED BY <2>4, <2>5 DEF WindowsAreExact
  <1> QED BY <1>1, PolicyAlwaysTyped, PTL

LEMMA WindowMonotone ==
    ASSUME NEW o \in Int, NEW n \in Int, o <= n,
           NEW total \in Nat \ {0}, NEW len \in Nat \ {0}, NEW p \in Policies
    PROVE  LET w == RetainedWindow(o, total, len, p)
               v == RetainedWindow(n, total, len, p)
           IN  w.first <= v.first /\ w.end <= v.end
  <1> DEFINE lo(i) == FirstByte(AtLeast(i, 0), p) \div len
             hi(i) == CeilDiv(EndByte(AtLeast(i, 0), p), len)
             first(i) == Clamp(lo(i), 0, total)
             end(i) == Clamp(hi(i), 0, total)
             w(i) == RetainedWindow(i, total, len, p)
  <1>1. \A i \in Int :
          /\ FirstByte(AtLeast(i, 0), p) \in Nat /\ EndByte(AtLeast(i, 0), p) \in Nat \ {0}
          /\ lo(i) \in Nat /\ hi(i) \in Nat
          /\ w(i) = [first |-> first(i),
                     end |-> IF end(i) <= first(i) THEN AtMost(total, first(i) + 1) ELSE end(i)]
    BY WindowParts
  <1>2. /\ FirstByte(AtLeast(o, 0), p) <= FirstByte(AtLeast(n, 0), p)
        /\ EndByte(AtLeast(o, 0), p) <= EndByte(AtLeast(n, 0), p)
    <2>1. p.before \in Nat /\ p.after \in Nat
      BY DEF Policies
    <2> QED BY <2>1 DEF FirstByte, EndByte, AtLeast
  <1>3. lo(o) <= lo(n)
    BY <1>1, <1>2, QuotientMonotone
  <1>4. hi(o) <= hi(n)
    <2> DEFINE y == EndByte(AtLeast(o, 0), p)
               z == EndByte(AtLeast(n, 0), p)
    <2>1. y \in Nat \ {0} /\ z \in Nat \ {0} /\ y <= z
      BY <1>1, <1>2
    <2> HIDE DEF y, z
    <2>2. (y + len - 1) \div len <= (z + len - 1) \div len
      BY <2>1, QuotientMonotone
    <2> QED BY <2>2 DEF CeilDiv, y, z
  <1>5. lo(o) \in Nat /\ lo(n) \in Nat /\ hi(o) \in Nat /\ hi(n) \in Nat
    BY <1>1
  <1>6. /\ w(o) = [first |-> first(o),
                   end |-> IF end(o) <= first(o) THEN AtMost(total, first(o) + 1) ELSE end(o)]
        /\ w(n) = [first |-> first(n),
                   end |-> IF end(n) <= first(n) THEN AtMost(total, first(n) + 1) ELSE end(n)]
    BY <1>1
  <1> HIDE DEF lo, hi
  <1>7. /\ first(o) \in 0 .. total /\ end(o) \in 0 .. total /\ first(n) \in 0 .. total
        /\ end(n) \in 0 .. total /\ first(o) <= first(n) /\ end(o) <= end(n)
    BY <1>3, <1>4, <1>5 DEF Clamp
  <1> HIDE DEF first, end, w
  <1>8. w(o).first <= w(n).first /\ w(o).end <= w(n).end
    BY <1>6, <1>7 DEF AtMost
  <1> QED BY <1>8 DEF w

\* While the policy stays, a reader that goes forward takes the window forward, past the
\* end of the torrent too (cache_policy.cpp:55-77).
THEOREM WindowAlwaysFollows == DataSpec => WindowFollowsReader
  <1>1. PolicyTyped /\ [DataNext]_dataVars =>
          [ (policy' = policy /\ offset' >= offset)
                => Window.first <= Window'.first /\ Window.end <= Window'.end ]_dataVars
    <2> SUFFICES ASSUME PolicyTyped, DataNext, policy' = policy, offset' >= offset
                 PROVE  Window.first <= Window'.first /\ Window.end <= Window'.end
      OBVIOUS
    <2>1. UNCHANGED geometry
      BY DEF DataNext, PolicyNext, SetLimit, SetPolicy, MoveReader, PieceNext, FilesNext,
             RailNext, policyVars
    <2>2. offset' \in Int
      BY PolicyTypedStep DEF PolicyTyped
    <2>3. Window' = RetainedWindow(offset', geometry.total, geometry.len, policy)
      BY <2>1 DEF Window
    <2> QED BY <2>2, <2>3, WindowMonotone DEF Window, PolicyTyped
  <1> QED BY <1>1, PolicyAlwaysTyped, PTL DEF DataSpec, WindowFollowsReader

-----------------------------------------------------------------------------
(* The written ranges of a piece *)

NoneEmpty(ranges) == \A i \in DOMAIN ranges : ranges[i].begin < ranges[i].end
ByBegin(ranges) == \A i, j \in DOMAIN ranges : i < j => ranges[i].begin <= ranges[j].begin
Apart(ranges) == \A i, j \in DOMAIN ranges : i < j => ranges[i].end < ranges[j].begin

\* What a piece keeps of its writes.
Canonical(ranges) == ranges \in Seq(Ranges) /\ NoneEmpty(ranges) /\ Apart(ranges)

LEMMA CanonicalSorted ==
    ASSUME NEW s, Canonical(s)
    PROVE  /\ s \in Seq(Ranges) /\ Len(s) \in Nat /\ DOMAIN s = 1 .. Len(s)
           /\ \A i \in DOMAIN s : s[i] \in Ranges /\ s[i].begin \in Nat /\ s[i].end \in Nat
           /\ \A i, j \in DOMAIN s : i < j => s[i].begin < s[j].begin
  <1>1. s \in Seq(Ranges) /\ Len(s) \in Nat /\ DOMAIN s = 1 .. Len(s)
    BY DEF Canonical
  <1>2. \A i \in DOMAIN s : s[i] \in Ranges
    BY <1>1
  <1>3. \A i \in DOMAIN s : s[i].begin \in Nat /\ s[i].end \in Nat
    BY <1>2, MemoryPieceAssumption DEF Ranges
  <1>4. \A i, j \in DOMAIN s : i < j => s[i].begin < s[j].begin
    <2> TAKE i \in DOMAIN s, j \in DOMAIN s
    <2>1. s[i].begin \in Nat /\ s[i].end \in Nat /\ s[j].begin \in Nat /\ s[i].begin < s[i].end
      BY <1>3 DEF Canonical, NoneEmpty
    <2>2. i < j => s[i].end < s[j].begin
      BY DEF Canonical, Apart
    <2> QED BY <2>1, <2>2
  <1> QED BY <1>1, <1>2, <1>3, <1>4

\* Ranges in order with one more behind them can be put in order: the new one goes
\* before the first that begins later.
LEMMA OrderExists ==
    ASSUME NEW s, Canonical(s), NEW next \in Ranges
    PROVE  Orders(Append(s, next)) # {}
  <1> DEFINE n == Len(s)
             t == Append(s, next)
             later == {i \in 1 .. n : s[i].begin > next.begin}
  <1>1. /\ s \in Seq(Ranges) /\ n \in Nat /\ DOMAIN s = 1 .. n
        /\ \A i \in 1 .. n : s[i].begin \in Nat
        /\ \A i, j \in 1 .. n : i < j => s[i].begin < s[j].begin
    BY CanonicalSorted
  <1>2. /\ DOMAIN t = 1 .. (n + 1)
        /\ \A i \in 1 .. n : t[i] = s[i]
        /\ t[n + 1] = next /\ next.begin \in Nat
    BY <1>1, MemoryPieceAssumption DEF Ranges
  <1>3. PICK k \in 1 .. (n + 1) : /\ \A i \in 1 .. n : i < k => s[i].begin <= next.begin
                                  /\ \A i \in 1 .. n : i >= k => next.begin <= s[i].begin
    <2>1. CASE later = {}
      <3>1. \A i \in 1 .. n : s[i].begin <= next.begin
        BY <1>1, <1>2, <2>1
      <3> QED BY <1>1, <3>1
    <2>2. CASE later # {}
      <3>1. later \in SUBSET Nat
        BY <1>1
      <3>2. PICK k \in later : \A i \in later : k <= i
        BY <2>2, <3>1, LeastNatural
      <3>3. k \in 1 .. n /\ s[k].begin > next.begin
        OBVIOUS
      <3>4. ASSUME NEW i \in 1 .. n PROVE i < k => s[i].begin <= next.begin
        BY <1>1, <1>2, <3>2, <3>3
      <3>5. ASSUME NEW i \in 1 .. n PROVE i >= k => next.begin <= s[i].begin
        BY <1>1, <1>2, <3>3
      <3> QED BY <1>1, <3>3, <3>4, <3>5
    <2> QED BY <2>1, <2>2
  <1> DEFINE order == [i \in 1 .. (n + 1) |-> IF i < k THEN i ELSE IF i = k THEN n + 1 ELSE i - 1]
  <1>4. order \in [1 .. (n + 1) -> 1 .. (n + 1)]
    BY <1>1, <1>3
  <1>5. \A m \in 1 .. (n + 1) : \E i \in 1 .. (n + 1) : order[i] = m
    <2> TAKE m \in 1 .. (n + 1)
    <2>1. CASE m < k
      BY <1>1, <2>1
    <2>2. CASE m = n + 1
      <3>1. order[k] = n + 1
        BY <1>1, <1>3
      <3> QED BY <1>3, <2>2, <3>1
    <2>3. CASE m >= k /\ m < n + 1
      <3>1. m + 1 \in 1 .. (n + 1) /\ order[m + 1] = m
        BY <1>1, <1>3, <2>3
      <3> QED BY <3>1
    <2> QED BY <1>1, <1>3, <2>1, <2>2, <2>3
  <1> HIDE DEF t, n
  <1>6. \A i, j \in 1 .. (n + 1) : i < j => t[order[i]].begin <= t[order[j]].begin
    <2> TAKE i \in 1 .. (n + 1), j \in 1 .. (n + 1)
    <2> HAVE i < j
    <2>1. CASE j < k
      BY <1>1, <1>2, <1>3, <2>1
    <2>2. CASE j = k
      <3>1. order[j] = n + 1 /\ order[i] = i /\ i \in 1 .. n
        BY <1>1, <1>3, <2>2
      <3> HIDE DEF order
      <3> QED BY <1>1, <1>2, <1>3, <2>2, <3>1
    <2>3. CASE j > k
      <3>1. order[j] = j - 1 /\ j - 1 \in 1 .. n /\ j - 1 >= k
        BY <1>1, <1>3, <2>3
      <3>2. CASE i = k
        <4>1. order[i] = n + 1
          BY <1>1, <1>3, <3>2
        <4> HIDE DEF order
        <4> QED BY <1>1, <1>2, <1>3, <3>1, <4>1
      <3>3. CASE i < k
        <4>1. order[i] = i /\ i \in 1 .. n
          BY <1>1, <1>3, <3>3
        <4> HIDE DEF order
        <4> QED BY <1>1, <1>2, <1>3, <3>1, <3>3, <4>1
      <3>4. CASE i > k
        <4>1. order[i] = i - 1 /\ i - 1 \in 1 .. n /\ i - 1 < j - 1
          BY <1>1, <1>3, <3>4
        <4> HIDE DEF order
        <4> QED BY <1>1, <1>2, <3>1, <4>1
      <3> QED BY <3>2, <3>3, <3>4, <1>3
    <2> QED BY <2>1, <2>2, <2>3, <1>3
  <1> HIDE DEF order
  <1>7. order \in Orders(t)
    BY <1>2, <1>4, <1>5, <1>6 DEF Orders
  <1> QED BY <1>7 DEF t

\* What the sort leaves: the same ranges, by where they begin.
LEMMA SortSorts ==
    ASSUME NEW s \in Seq(Ranges), Orders(s) # {}
    PROVE  /\ Sorted(s) \in Seq(Ranges) /\ Len(Sorted(s)) = Len(s)
           /\ \A i \in 1 .. Len(s) : \E k \in 1 .. Len(s) : Sorted(s)[i] = s[k]
           /\ \A k \in 1 .. Len(s) : \E i \in 1 .. Len(s) : Sorted(s)[i] = s[k]
           /\ ByBegin(Sorted(s))
  <1> DEFINE order == CHOOSE o \in Orders(s) : TRUE
             n == Len(s)
  <1>1. order \in Orders(s)
    OBVIOUS
  <1>2. Sorted(s) = [i \in DOMAIN s |-> s[order[i]]]
    BY DEF Sorted
  <1> HIDE DEF order
  <1>3. n \in Nat /\ DOMAIN s = 1 .. n /\ \A i \in 1 .. n : s[i] \in Ranges
    OBVIOUS
  <1>4. /\ order \in [1 .. n -> 1 .. n]
        /\ \A k \in 1 .. n : \E i \in 1 .. n : order[i] = k
        /\ \A i, j \in 1 .. n : i < j => s[order[i]].begin <= s[order[j]].begin
    BY <1>1, <1>3 DEF Orders
  <1>5. Sorted(s) = [i \in 1 .. n |-> s[order[i]]]
    BY <1>2, <1>3
  <1>6. \A i \in 1 .. n : Sorted(s)[i] = s[order[i]] /\ Sorted(s)[i] \in Ranges
    BY <1>3, <1>4, <1>5
  <1>7. Sorted(s) \in Seq(Ranges) /\ Len(Sorted(s)) = n /\ DOMAIN Sorted(s) = 1 .. n
    <2> DEFINE f == Sorted(s)
    <2>1. n \in Nat /\ f = [i \in 1 .. n |-> f[i]] /\ \A i \in 1 .. n : f[i] \in Ranges
      BY <1>3, <1>5, <1>6
    <2> HIDE DEF f
    <2>2. f \in Seq(Ranges) /\ Len(f) = n /\ DOMAIN f = 1 .. n
      BY <2>1
    <2> QED BY <2>2 DEF f
  <1>8. ByBegin(Sorted(s))
    <2> SUFFICES ASSUME NEW i \in 1 .. n, NEW j \in 1 .. n, i < j
                 PROVE  Sorted(s)[i].begin <= Sorted(s)[j].begin
      BY <1>7 DEF ByBegin
    <2> QED BY <1>4, <1>6
  <1>9. \A k \in 1 .. n : \E i \in 1 .. n : Sorted(s)[i] = s[k]
    BY <1>4, <1>6
  <1>10. \A i \in 1 .. n : \E k \in 1 .. n : Sorted(s)[i] = s[k]
    BY <1>4, <1>6
  <1> QED BY <1>7, <1>8, <1>9, <1>10

\* The merging's step: the ranges stay apart, and hold what they held and the new one.
LEMMA StepMerges ==
    ASSUME NEW m, Canonical(m), NEW r \in Ranges, r.begin < r.end,
           m # <<>> => m[Len(m)].begin <= r.begin
    PROVE  LET s == MergeStep(m, r)
           IN  /\ Canonical(s) /\ s # <<>> /\ s[Len(s)].begin <= r.begin
               /\ BytesOf(s) = BytesOf(m) \cup BytesOfRange(r)
  <1> DEFINE n == Len(m)
             s == MergeStep(m, r)
  <1>1. /\ m \in Seq(Ranges) /\ n \in Nat /\ DOMAIN m = 1 .. n
        /\ \A i \in 1 .. n : m[i] \in Ranges /\ m[i].begin \in Nat /\ m[i].end \in Nat
                             /\ m[i].begin < m[i].end
        /\ \A i, j \in 1 .. n : i < j => m[i].end < m[j].begin
    BY CanonicalSorted DEF Canonical, NoneEmpty, Apart
  <1>2. r.begin \in Nat /\ r.end \in Nat
    BY MemoryPieceAssumption DEF Ranges
  <1>3. m # <<>> => n \in 1 .. n
    BY <1>1
  <1>4. \A i \in 1 .. n : i < n => m[i].end < m[n].begin
    BY <1>1
  <1>5. CASE m = <<>> \/ m[n].end < r.begin
    <2>1. s = Append(m, r)
      BY <1>5 DEF MergeStep
    <2> HIDE DEF s
    <2>2. /\ s \in Seq(Ranges) /\ Len(s) = n + 1 /\ DOMAIN s = 1 .. (n + 1)
          /\ \A i \in 1 .. n : s[i] = m[i]
          /\ s[n + 1] = r
      BY <1>1, <2>1
    <2> HIDE DEF n
    <2>3. NoneEmpty(s)
      BY <1>1, <2>2 DEF NoneEmpty
    <2>4. \A i \in 1 .. n : m[i].end < r.begin
      <3> TAKE i \in 1 .. n
      <3>1. m # <<>> /\ m[n].end < r.begin
        BY <1>1, <1>5 DEF n
      <3>2. n \in 1 .. n
        BY <1>3, <3>1
      <3>3. CASE i = n
        BY <3>1, <3>3
      <3>4. CASE i < n
        BY <1>1, <1>2, <1>4, <3>1, <3>2, <3>4
      <3> QED BY <1>1, <3>3, <3>4
    <2>5. Apart(s)
      <3> SUFFICES ASSUME NEW i \in 1 .. (n + 1), NEW j \in 1 .. (n + 1), i < j
                   PROVE  s[i].end < s[j].begin
        BY <2>2 DEF Apart
      <3>1. i \in 1 .. n /\ s[i] = m[i]
        BY <1>1, <2>2
      <3>2. CASE j = n + 1
        BY <2>2, <2>4, <3>1, <3>2
      <3>3. CASE j \in 1 .. n
        BY <1>1, <2>2, <3>1, <3>3
      <3> QED BY <1>1, <3>2, <3>3
    <2>6. BytesOf(s) = BytesOf(m) \cup BytesOfRange(r)
      <3>1. \A b : b \in BytesOf(s) <=> \E i \in 1 .. (n + 1) : b \in BytesOfRange(s[i])
        BY <2>2 DEF BytesOf
      <3>2. \A b : b \in BytesOf(m) <=> \E i \in 1 .. n : b \in BytesOfRange(m[i])
        BY <1>1 DEF BytesOf
      <3>3. \A b : b \in BytesOf(s) => b \in BytesOf(m) \cup BytesOfRange(r)
        <4> TAKE b
        <4> HAVE b \in BytesOf(s)
        <4>1. PICK i \in 1 .. (n + 1) : b \in BytesOfRange(s[i])
          BY <3>1
        <4>2. CASE i = n + 1
          BY <2>2, <4>1, <4>2
        <4>3. CASE i \in 1 .. n
          BY <2>2, <3>2, <4>1, <4>3
        <4> QED BY <1>1, <4>2, <4>3
      <3>4. \A b : b \in BytesOf(m) => b \in BytesOf(s)
        <4> TAKE b
        <4> HAVE b \in BytesOf(m)
        <4>1. PICK i \in 1 .. n : b \in BytesOfRange(m[i])
          BY <3>2
        <4>2. i \in 1 .. (n + 1) /\ s[i] = m[i]
          BY <1>1, <2>2
        <4> QED BY <3>1, <4>1, <4>2
      <3>5. \A b : b \in BytesOfRange(r) => b \in BytesOf(s)
        <4>1. n + 1 \in 1 .. (n + 1)
          BY <1>1
        <4> QED BY <2>2, <3>1, <4>1
      <3> QED BY <3>3, <3>4, <3>5
    <2>7. s # <<>> /\ s[Len(s)].begin <= r.begin
      BY <1>1, <1>2, <2>2
    <2> QED BY <2>2, <2>3, <2>5, <2>6, <2>7 DEF Canonical, s
  <1>6. CASE m # <<>> /\ ~(m[n].end < r.begin)
    <2> DEFINE e == IF r.end > m[n].end THEN r.end ELSE m[n].end
    <2>1. s = [m EXCEPT ![n].end = e]
      BY <1>6 DEF MergeStep
    <2>2. n \in 1 .. n /\ m[n].begin <= r.begin /\ r.begin <= m[n].end
      BY <1>1, <1>2, <1>3, <1>6
    <2>3. e \in Nat /\ e \in 0 .. Size /\ m[n].begin < e /\ m[n].end <= e
      BY <1>1, <1>2, <2>2 DEF Ranges
    <2>4. \A b \in Int : (b >= m[n].begin /\ b < e)
                            <=> (b >= m[n].begin /\ b < m[n].end) \/ (b >= r.begin /\ b < r.end)
      BY <1>1, <1>2, <2>2
    <2> HIDE DEF e, s
    <2>5. /\ DOMAIN s = 1 .. n
          /\ \A i \in 1 .. n : i # n => s[i] = m[i]
          /\ s[n] = [m[n] EXCEPT !.end = e]
      BY <1>1, <2>1, <2>2
    <2>6. s[n] = [begin |-> m[n].begin, end |-> e]
      BY <1>1, <2>2, <2>5 DEF Ranges
    <2>7. s[n] \in Ranges /\ s[n].begin = m[n].begin /\ s[n].end = e
      <3>1. m[n].begin \in 0 .. Size
        BY <1>1, <2>2 DEF Ranges
      <3> QED BY <2>3, <2>6, <3>1 DEF Ranges
    <2>8. s \in Seq(Ranges) /\ Len(s) = n
      <3>1. \A i \in 1 .. n : s[i] \in Ranges
        BY <1>1, <2>5, <2>7
      <3>2. s = [i \in 1 .. n |-> s[i]]
        BY <1>1, <2>1
      <3> QED BY <1>1, <3>1, <3>2
    <2> HIDE DEF n
    <2>9. NoneEmpty(s)
      <3> SUFFICES ASSUME NEW i \in 1 .. n PROVE s[i].begin < s[i].end
        BY <2>5 DEF NoneEmpty
      <3>1. CASE i = n
        BY <2>3, <2>7, <3>1
      <3>2. CASE i # n
        BY <1>1, <2>5, <3>2
      <3> QED BY <3>1, <3>2
    <2>10. Apart(s)
      <3> SUFFICES ASSUME NEW i \in 1 .. n, NEW j \in 1 .. n, i < j
                   PROVE  s[i].end < s[j].begin
        BY <2>5 DEF Apart
      <3>1. i # n /\ s[i] = m[i]
        BY <1>1, <2>5
      <3>2. m[i].end < m[j].begin /\ s[j].begin = m[j].begin
        BY <1>1, <2>5, <2>7
      <3> QED BY <3>1, <3>2
    <2>11. BytesOf(s) = BytesOf(m) \cup BytesOfRange(r)
      <3>1. \A b : b \in BytesOf(s) <=> \E i \in 1 .. n : b \in BytesOfRange(s[i])
        BY <2>5 DEF BytesOf
      <3>2. \A b : b \in BytesOf(m) <=> \E i \in 1 .. n : b \in BytesOfRange(m[i])
        BY <1>1 DEF BytesOf
      <3>3. BytesOfRange(s[n]) = BytesOfRange(m[n]) \cup BytesOfRange(r)
        <4>1. /\ \A b : b \in BytesOfRange(s[n]) <=> b \in Int /\ b >= m[n].begin /\ b < e
              /\ \A b : b \in BytesOfRange(m[n]) <=> b \in Int /\ b >= m[n].begin /\ b < m[n].end
              /\ \A b : b \in BytesOfRange(r) <=> b \in Int /\ b >= r.begin /\ b < r.end
          BY <1>1, <1>2, <2>2, <2>3, <2>7 DEF BytesOfRange
        <4> QED BY <2>4, <4>1
      <3> QED BY <2>2, <2>5, <3>1, <3>2, <3>3
    <2>12. s # <<>> /\ s[Len(s)].begin <= r.begin
      BY <1>1, <2>2, <2>7, <2>8
    <2> QED BY <2>8, <2>9, <2>10, <2>11, <2>12 DEF Canonical, s
  <1> QED BY <1>5, <1>6

\* The loop computes what its recursion says: one is found for every number of steps.
LEMMA MergingIs ==
    ASSUME NEW s \in Seq(Ranges)
    PROVE  \A n \in 0 .. Len(s) :
             Merging(s)[n] = IF n = 0 THEN <<>> ELSE MergeStep(Merging(s)[n - 1], s[n])
  <1> DEFINE Runs(f, l) == f = [n \in 0 .. l |-> IF n = 0 THEN <<>> ELSE MergeStep(f[n - 1], s[n])]
             reach == {l \in Nat : \E f : Runs(f, l)}
  <1>1. 0 \in reach
    <2>1. [n \in {0} |-> <<>>] = [n \in 0 .. 0 |-> IF n = 0 THEN <<>>
                                    ELSE MergeStep([k \in {0} |-> <<>>][n - 1], s[n])]
      OBVIOUS
    <2> QED BY <2>1
  <1>2. ASSUME NEW l \in Nat, l \in reach PROVE l + 1 \in reach
    <2>1. PICK f : Runs(f, l)
      BY <1>2
    <2> DEFINE g == [n \in 0 .. (l + 1) |-> IF n = l + 1 THEN MergeStep(f[l], s[l + 1]) ELSE f[n]]
    <2>2. \A n \in 0 .. (l + 1) : g[n] = IF n = 0 THEN <<>> ELSE MergeStep(g[n - 1], s[n])
      <3> TAKE n \in 0 .. (l + 1)
      <3>1. CASE n = 0
        BY <2>1, <3>1
      <3>2. CASE n = l + 1
        <4>1. g[n] = MergeStep(f[l], s[l + 1]) /\ g[n - 1] = f[l]
          BY <3>2
        <4> HIDE DEF g
        <4> QED BY <3>2, <4>1
      <3>3. CASE n \in 1 .. l
        <4>1. g[n] = f[n] /\ g[n - 1] = f[n - 1]
          BY <3>3
        <4>2. f[n] = MergeStep(f[n - 1], s[n])
          BY <2>1, <3>3
        <4> HIDE DEF g
        <4> QED BY <3>3, <4>1, <4>2
      <3> QED BY <3>1, <3>2, <3>3
    <2>3. g = [n \in 0 .. (l + 1) |-> g[n]]
      OBVIOUS
    <2> HIDE DEF g
    <2>4. Runs(g, l + 1)
      BY <2>2, <2>3
    <2> HIDE DEF Runs
    <2> QED BY <2>4
  <1> HIDE DEF Runs
  <1>3. Nat \subseteq reach
    <2>1. \A l \in Nat : l \in reach => l + 1 \in reach
      BY <1>2
    <2> HIDE DEF reach
    <2> QED BY <1>1, <2>1, NaturalsIn
  <1>4. \E f : Runs(f, Len(s))
    BY <1>3
  <1>5. Runs(Merging(s), Len(s))
    BY <1>4 DEF Runs, Merging
  <1> QED BY <1>5 DEF Runs

\* After every step of the loop the merged ranges are canonical and hold the bytes of
\* the ranges gone through.
LEMMA LoopMerges ==
    ASSUME NEW s \in Seq(Ranges), NoneEmpty(s), ByBegin(s)
    PROVE  \A n \in 0 .. Len(s) :
             LET m == Merging(s)[n]
             IN  /\ Canonical(m)
                 /\ n = 0 => m = <<>>
                 /\ n > 0 => m # <<>> /\ m[Len(m)].begin <= s[n].begin
                 /\ \A b : b \in BytesOf(m) <=> \E i \in 1 .. n : b \in BytesOfRange(s[i])
  <1> DEFINE M(n) == Merging(s)[n]
             Good(n) == /\ Canonical(M(n))
                        /\ n = 0 => M(n) = <<>>
                        /\ n > 0 => M(n) # <<>> /\ M(n)[Len(M(n))].begin <= s[n].begin
                        /\ \A b : b \in BytesOf(M(n)) <=> \E i \in 1 .. n : b \in BytesOfRange(s[i])
             good == {n \in Nat : n <= Len(s) => Good(n)}
  <1>1. /\ Len(s) \in Nat /\ DOMAIN s = 1 .. Len(s)
        /\ \A i \in 1 .. Len(s) : s[i] \in Ranges
    OBVIOUS
  <1>2. M(0) = <<>>
    BY <1>1, MergingIs
  <1>3. \A n \in 1 .. Len(s) : M(n) = MergeStep(M(n - 1), s[n])
    BY <1>1, MergingIs
  <1>4. \A i \in 1 .. Len(s) : s[i].begin \in Nat /\ s[i].begin < s[i].end
    BY <1>1, MemoryPieceAssumption DEF NoneEmpty, Ranges
  <1>5. \A i, j \in 1 .. Len(s) : i < j => s[i].begin <= s[j].begin
    BY <1>1 DEF ByBegin
  <1> HIDE DEF M
  <1>6. Good(0)
    <2>1. Canonical(<<>>)
      BY DEF Canonical, NoneEmpty, Apart
    <2>2. BytesOf(<<>>) = {}
      BY DEF BytesOf
    <2> QED BY <1>2, <2>1, <2>2
  <1>7. ASSUME NEW n \in Nat, n + 1 <= Len(s), Good(n) PROVE Good(n + 1)
    <2>1. n + 1 \in 1 .. Len(s) /\ M(n + 1) = MergeStep(M(n), s[n + 1])
      BY <1>1, <1>3, <1>7
    <2>2. M(n) # <<>> => M(n)[Len(M(n))].begin <= s[n + 1].begin
      <3> SUFFICES ASSUME M(n) # <<>> PROVE M(n)[Len(M(n))].begin <= s[n + 1].begin
        OBVIOUS
      <3>1. n > 0
        BY <1>7
      <3>2. n \in 1 .. Len(s) /\ s[n].begin <= s[n + 1].begin
        BY <1>1, <1>5, <1>7, <2>1, <3>1
      <3>3. M(n)[Len(M(n))].begin <= s[n].begin
        BY <1>7, <3>1
      <3>4. Len(M(n)) \in DOMAIN M(n) /\ M(n)[Len(M(n))].begin \in Nat
        BY <1>7, CanonicalSorted
      <3> QED BY <1>4, <2>1, <3>2, <3>3, <3>4
    <2>3. Canonical(M(n)) /\ s[n + 1] \in Ranges /\ s[n + 1].begin < s[n + 1].end
      BY <1>1, <1>4, <1>7, <2>1
    <2>4. /\ Canonical(M(n + 1)) /\ M(n + 1) # <<>>
          /\ M(n + 1)[Len(M(n + 1))].begin <= s[n + 1].begin
          /\ BytesOf(M(n + 1)) = BytesOf(M(n)) \cup BytesOfRange(s[n + 1])
      BY <2>1, <2>2, <2>3, StepMerges
    <2>5. \A b : b \in BytesOf(M(n + 1)) <=> \E i \in 1 .. (n + 1) : b \in BytesOfRange(s[i])
      <3> TAKE b
      <3>1. b \in BytesOf(M(n)) <=> \E i \in 1 .. n : b \in BytesOfRange(s[i])
        BY <1>7
      <3>2. \A i : i \in 1 .. (n + 1) <=> i \in 1 .. n \/ i = n + 1
        OBVIOUS
      <3> QED BY <2>4, <3>1, <3>2
    <2> QED BY <2>4, <2>5
  <1> HIDE DEF Good
  <1>8. Nat \subseteq good
    <2>1. 0 \in good
      BY <1>6
    <2>2. \A n \in Nat : n \in good => n + 1 \in good
      BY <1>1, <1>7
    <2> HIDE DEF good
    <2> QED BY <2>1, <2>2, NaturalsIn
  <1>9. \A n \in 0 .. Len(s) : Good(n)
    BY <1>1, <1>8
  <1> QED BY <1>9 DEF Good, M

\* A write leaves the ranges canonical, and with the bytes it wrote.
LEMMA WriteMerges ==
    ASSUME NEW s, Canonical(s), NEW next \in Ranges
    PROVE  LET w == MergeWrittenRange(s, next)
           IN  Canonical(w) /\ BytesOf(w) = BytesOf(s) \cup BytesOfRange(next)
  <1> DEFINE t == Append(s, next)
             n == Len(s)
             o == Sorted(t)
             w == MergeWrittenRange(s, next)
  <1>0. next.begin \in Nat /\ next.end \in Nat
    BY MemoryPieceAssumption DEF Ranges
  <1>1. CASE next.begin >= next.end
    <2>1. BytesOfRange(next) = {}
      BY <1>0, <1>1 DEF BytesOfRange
    <2> QED BY <1>1, <2>1 DEF MergeWrittenRange
  <1>2. CASE next.begin < next.end
    <2>1. /\ s \in Seq(Ranges) /\ n \in Nat /\ DOMAIN s = 1 .. n
          /\ \A i \in 1 .. n : s[i] \in Ranges /\ s[i].begin < s[i].end
      BY CanonicalSorted DEF Canonical, NoneEmpty
    <2>2. /\ t \in Seq(Ranges) /\ Len(t) = n + 1
          /\ \A i \in 1 .. n : t[i] = s[i]
          /\ t[n + 1] = next
      BY <2>1
    <2>3. Orders(t) # {}
      BY OrderExists
    <2>4. w = Merging(o)[Len(o)]
      BY <1>0, <1>2 DEF MergeWrittenRange
    <2> HIDE DEF t, n
    <2>5. /\ o \in Seq(Ranges) /\ Len(o) = n + 1
          /\ \A i \in 1 .. (n + 1) : \E k \in 1 .. (n + 1) : o[i] = t[k]
          /\ \A k \in 1 .. (n + 1) : \E i \in 1 .. (n + 1) : o[i] = t[k]
          /\ ByBegin(o)
      <3>1. /\ o \in Seq(Ranges) /\ Len(o) = Len(t)
            /\ \A i \in 1 .. Len(t) : \E k \in 1 .. Len(t) : o[i] = t[k]
            /\ \A k \in 1 .. Len(t) : \E i \in 1 .. Len(t) : o[i] = t[k]
            /\ ByBegin(o)
        BY <2>2, <2>3, SortSorts
      <3> HIDE DEF o
      <3> QED BY <2>2, <3>1
    <2> HIDE DEF o, w
    <2>6. \A k \in 1 .. (n + 1) : t[k].begin < t[k].end
      <3> TAKE k \in 1 .. (n + 1)
      <3>1. k \in 1 .. n \/ k = n + 1
        BY <2>1
      <3> QED BY <1>2, <2>1, <2>2, <3>1
    <2>7. NoneEmpty(o)
      <3>1. DOMAIN o = 1 .. (n + 1)
        BY <2>5
      <3>2. \A i \in 1 .. (n + 1) : o[i].begin < o[i].end
        BY <2>5, <2>6
      <3> QED BY <3>1, <3>2 DEF NoneEmpty
    <2>8. n + 1 \in 0 .. Len(o)
      BY <2>1, <2>5
    <2>9. /\ Canonical(w)
          /\ \A b : b \in BytesOf(w) <=> \E i \in 1 .. (n + 1) : b \in BytesOfRange(o[i])
      BY <2>4, <2>5, <2>7, <2>8, LoopMerges
    <2>10. \A b : b \in BytesOf(w) <=> \E k \in 1 .. (n + 1) : b \in BytesOfRange(t[k])
      <3> TAKE b
      <3>1. ASSUME NEW i \in 1 .. (n + 1), b \in BytesOfRange(o[i])
            PROVE  \E k \in 1 .. (n + 1) : b \in BytesOfRange(t[k])
        BY <2>5, <3>1
      <3>2. ASSUME NEW k \in 1 .. (n + 1), b \in BytesOfRange(t[k])
            PROVE  \E i \in 1 .. (n + 1) : b \in BytesOfRange(o[i])
        BY <2>5, <3>2
      <3> QED BY <2>9, <3>1, <3>2
    <2>11. \A b : b \in BytesOf(s) <=> \E i \in 1 .. n : b \in BytesOfRange(s[i])
      BY <2>1 DEF BytesOf
    <2>12. \A k : k \in 1 .. (n + 1) <=> k \in 1 .. n \/ k = n + 1
      BY <2>1
    <2>13. \A b : b \in BytesOf(w) <=> b \in BytesOf(s) \/ b \in BytesOfRange(next)
      BY <2>2, <2>10, <2>11, <2>12
    <2> QED BY <2>9, <2>13 DEF w
  <1> QED BY <1>0, <1>1, <1>2

\* On canonical ranges covers_range is the subset test.
LEMMA CoversIsSubset ==
    ASSUME NEW s, Canonical(s), NEW begin \in Nat, NEW end \in Nat
    PROVE  CoversRange(s, begin, end) <=> (begin .. (end - 1)) \subseteq BytesOf(s)
  <1> DEFINE n == Len(s)
  <1>1. /\ s \in Seq(Ranges) /\ n \in Nat /\ DOMAIN s = 1 .. n
        /\ \A i \in 1 .. n : s[i].begin \in Nat /\ s[i].end \in Nat /\ s[i].begin < s[i].end
        /\ \A i, j \in 1 .. n : i < j => s[i].end < s[j].begin
        /\ \A i, j \in 1 .. n : i < j => s[i].begin < s[j].begin
    BY CanonicalSorted DEF Canonical, NoneEmpty, Apart
  <1>2. \A b \in Nat : b \in BytesOf(s) <=> \E i \in 1 .. n : s[i].begin <= b /\ b < s[i].end
    <2>1. \A b : b \in BytesOf(s) <=> \E i \in 1 .. n : b \in BytesOfRange(s[i])
      BY <1>1 DEF BytesOf
    <2>2. \A b \in Nat : \A i \in 1 .. n :
            b \in BytesOfRange(s[i]) <=> s[i].begin <= b /\ b < s[i].end
      BY <1>1 DEF BytesOfRange
    <2> QED BY <2>1, <2>2
  <1>3. CoversRange(s, begin, end)
          <=> \/ begin >= end
              \/ \E i \in 1 .. n : /\ s[i].begin <= begin /\ s[i].end >= end
                                   /\ \A j \in 1 .. (i - 1) : s[j].begin <= begin
    BY <1>1 DEF CoversRange
  <1> HIDE DEF n
  <1>4. ASSUME CoversRange(s, begin, end), NEW b \in begin .. (end - 1) PROVE b \in BytesOf(s)
    <2>1. PICK i \in 1 .. n : s[i].begin <= begin /\ s[i].end >= end
      BY <1>3, <1>4
    <2>2. b \in Nat /\ s[i].begin <= b /\ b < s[i].end
      BY <1>1, <2>1
    <2> QED BY <1>2, <2>2
  <1>5. ASSUME (begin .. (end - 1)) \subseteq BytesOf(s), begin < end
        PROVE  CoversRange(s, begin, end)
    <2>1. begin \in BytesOf(s)
      BY <1>5
    <2>2. PICK i \in 1 .. n : s[i].begin <= begin /\ begin < s[i].end
      BY <1>2, <2>1
    <2>3. s[i].end >= end
      <3> SUFFICES ASSUME s[i].end < end PROVE FALSE
        BY <1>1
      <3>1. s[i].end \in Nat /\ s[i].end \in BytesOf(s)
        BY <1>1, <1>5, <2>2
      <3>2. PICK j \in 1 .. n : s[j].begin <= s[i].end /\ s[i].end < s[j].end
        BY <1>2, <3>1
      <3>3. CASE i = j
        BY <1>1, <3>2, <3>3
      <3>4. CASE i < j
        BY <1>1, <3>2, <3>4
      <3>5. CASE j < i
        BY <1>1, <3>2, <3>5
      <3> QED BY <3>3, <3>4, <3>5
    <2>4. ASSUME NEW j \in 1 .. (i - 1) PROVE s[j].begin <= begin
      <3>1. j \in 1 .. n /\ j < i
        BY <1>1
      <3> QED BY <1>1, <2>2, <3>1
    <2> QED BY <1>3, <2>2, <2>3, <2>4
  <1>6. CASE begin >= end
    BY <1>3, <1>6
  <1>7. CASE begin < end
    BY <1>4, <1>5, <1>7
  <1> QED BY <1>6, <1>7

-----------------------------------------------------------------------------
(* The piece and the partial map it implements *)

\* What the piece always satisfies: its ranges are canonical, and a byte in one of them
\* is one that a write has stored.
PieceOK ==
    /\ TypeOK
    /\ Canonical(written)
    /\ \A b \in BytesOf(written) : b \in Byte /\ bytes[b] \in Values

LEMMA PieceInit == Init => PieceOK
  <1> SUFFICES ASSUME Init PROVE PieceOK
    OBVIOUS
  <1>1. Canonical(<<>>)
    BY DEF Canonical, NoneEmpty, Apart
  <1>2. BytesOf(<<>>) = {}
    BY DEF BytesOf
  <1>3. bytes \in [Byte -> Values \cup {Zero}]
    BY DEF Init, Empty
  <1> QED BY <1>1, <1>2, <1>3 DEF Init, PieceOK, TypeOK, Canonical

\* What a write inside the piece does to it.
LEMMA WriteStores ==
    ASSUME PieceOK, NEW start \in Int, NEW length \in Int, NEW v \in Values,
           Write(start, length, v)
    PROVE  /\ start \in Nat /\ length \in Nat /\ start + length \in 0 .. Size
           /\ PieceOK'
           /\ \A b \in Byte : b \in BytesOf(written')
                    <=> b \in BytesOf(written) \/ b \in start .. (start + length - 1)
           /\ \A b \in Byte : bytes'[b] = IF b \in start .. (start + length - 1) THEN v ELSE bytes[b]
  <1> DEFINE next == [begin |-> start, end |-> start + length]
  <1>1. start \in Nat /\ length \in Nat /\ start + length \in 0 .. Size /\ start \in 0 .. Size
    BY MemoryPieceAssumption DEF Write, ValidRequest
  <1>2. next \in Ranges /\ next.begin = start /\ next.end = start + length
    BY <1>1 DEF Ranges
  <1>3. written' = MergeWrittenRange(written, next) /\ held' = TRUE
    BY DEF Write
  <1>4. \A b \in Byte : bytes'[b] = IF b \in start .. (start + length - 1) THEN v ELSE bytes[b]
    BY DEF Write
  <1>5. bytes' \in [Byte -> Values \cup {Zero}]
    BY DEF Write, PieceOK, TypeOK
  <1> HIDE DEF next
  <1>6. Canonical(written') /\ BytesOf(written') = BytesOf(written) \cup BytesOfRange(next)
    BY <1>2, <1>3, WriteMerges DEF PieceOK
  <1>7. BytesOfRange(next) = start .. (start + length - 1)
    BY <1>2 DEF BytesOfRange
  <1>8. \A b \in start .. (start + length - 1) : b \in Byte
    BY <1>1, MemoryPieceAssumption DEF Byte
  <1>9. \A b \in BytesOf(written') : b \in Byte /\ bytes'[b] \in Values
    BY <1>4, <1>6, <1>7, <1>8 DEF PieceOK
  <1>10. PieceOK'
    BY <1>3, <1>5, <1>6, <1>9 DEF PieceOK, TypeOK, Canonical
  <1> QED BY <1>1, <1>4, <1>6, <1>7, <1>10

LEMMA LookupKeeps == ASSUME PieceOK, UNCHANGED <<held, bytes, written>> PROVE PieceOK'
  BY DEF PieceOK, TypeOK

LEMMA EvictKeeps == ASSUME PieceOK, Evict PROVE PieceOK' /\ BytesOf(written') = {}
  <1>1. Canonical(<<>>)
    BY DEF Canonical, NoneEmpty, Apart
  <1>2. BytesOf(<<>>) = {}
    BY DEF BytesOf
  <1>3. Empty \in [Byte -> Values \cup {Zero}]
    BY DEF Empty
  <1> QED BY <1>1, <1>2, <1>3 DEF Evict, PieceOK, TypeOK, Canonical

LEMMA AskedAreIntegers == Asked \subseteq Int /\ Byte \subseteq Int
  BY MemoryPieceAssumption DEF Asked, Byte

LEMMA PieceStep == PieceOK /\ [Next]_vars => PieceOK'
  <1> SUFFICES ASSUME PieceOK, [Next]_vars PROVE PieceOK'
    OBVIOUS
  <1>1. ASSUME NEW start \in Asked, NEW length \in Asked, NEW v \in Values, Write(start, length, v)
        PROVE  PieceOK'
    BY <1>1, AskedAreIntegers, WriteStores
  <1>2. ASSUME NEW start \in Asked, NEW length \in Asked, Read(start, length) PROVE PieceOK'
    BY <1>2, LookupKeeps DEF Read, Lookup
  <1>3. ASSUME NEW start \in Asked, NEW length \in Asked, Refuse(start, length) PROVE PieceOK'
    BY <1>3, LookupKeeps DEF Refuse
  <1>4. CASE Hash
    BY <1>4, LookupKeeps DEF Hash, Lookup
  <1>5. ASSUME NEW o \in Byte, Hash2(o) PROVE PieceOK'
    BY <1>5, LookupKeeps DEF Hash2, Lookup
  <1>6. CASE Evict
    BY <1>6, EvictKeeps
  <1>7. CASE UNCHANGED vars
    BY <1>7, LookupKeeps DEF vars
  <1> QED BY <1>1, <1>2, <1>3, <1>4, <1>5, <1>6, <1>7 DEF Next

LEMMA PieceAlwaysOK == DataSpec => []PieceOK
  <1>1. DataInit => PieceOK
    BY PieceInit DEF DataInit
  <1>2. PieceOK /\ [DataNext]_dataVars => PieceOK'
    <2> SUFFICES ASSUME PieceOK, [DataNext]_dataVars PROVE PieceOK'
      OBVIOUS
    <2>1. [Next]_vars
      BY DEF DataNext, PolicyNext, PieceNext, FilesNext, RailNext, dataVars
    <2> QED BY <2>1, PieceStep
  <1> QED BY <1>1, <1>2, PTL DEF DataSpec

\* However a piece is written, in parts of any size, order and overlap, its ranges stay
\* sorted, apart and none empty, and covers_range is the subset test it stands for
\* (memory_disk_io.cpp:56-93).
THEOREM RangesAlwaysExact == DataSpec => []RangesExact
  <1>1. PieceOK => RangesExact
    <2> SUFFICES ASSUME PieceOK PROVE RangesExact
      OBVIOUS
    <2>1. TypeOK /\ Canonical(written)
      BY DEF PieceOK
    <2>2. \A begin, end \in 0 .. Size :
            CoversRange(written, begin, end) <=> (begin .. (end - 1)) \subseteq BytesOf(written)
      <3> TAKE begin \in 0 .. Size, end \in 0 .. Size
      <3>1. begin \in Nat /\ end \in Nat
        BY MemoryPieceAssumption
      <3> QED BY <2>1, <3>1, CoversIsSubset
    <2> QED BY <2>1, <2>2 DEF RangesExact, Canonical, NoneEmpty, Apart
  <1> QED BY <1>1, PieceAlwaysOK, PTL

\* The map a piece stands for.
Content == [b \in Byte |-> IF b \in BytesOf(written) THEN bytes[b] ELSE Absent]

LEMMA ContentIs ==
    ASSUME PieceOK
    PROVE  /\ \A b \in Byte : b \in BytesOf(written) <=> Content[b] # Absent
           /\ \A b \in Byte : b \in BytesOf(written) => Content[b] = bytes[b]
  BY MemoryPieceAssumption DEF Content, PieceOK

\* An answer is the map's answer to the same request.
LEMMA LookupIsRead ==
    ASSUME PieceOK, NEW start \in Nat, NEW length \in Nat, start + length \in 0 .. Size,
           Lookup(start, length)
    PROVE  Stored!Read
  <1> DEFINE end == start + length
             some == \E b \in start .. (end - 1) : Content[b] = Absent
  <1>1. start \in 0 .. Size /\ end \in start .. Size /\ end \in Nat
    BY MemoryPieceAssumption
  <1>2. CoversRange(written, start, end) <=> (start .. (end - 1)) \subseteq BytesOf(written)
    BY <1>1, CoversIsSubset DEF PieceOK
  <1>3. \A b \in start .. (end - 1) : b \in Byte
    BY <1>1, MemoryPieceAssumption DEF Byte
  <1>4. CoversRange(written, start, end) <=> ~some
    BY <1>2, <1>3, ContentIs
  <1>5. ~held => \A b : b \notin BytesOf(written)
    BY DEF PieceOK, TypeOK, BytesOf
  <1>6. Stored!Read <=>
          /\ UNCHANGED Content
          /\ \E from \in 0 .. Size : \E to \in from .. Size :
                answer' \in (IF \E b \in from .. (to - 1) : Content[b] = Absent
                             THEN {Stored!Miss}
                             ELSE IF from = to THEN {Stored!Data(from, to), Stored!Miss}
                                  ELSE {Stored!Data(from, to)})
    BY DEF Stored!Read, Content
  <1>7. UNCHANGED Content
    BY DEF Lookup, Content
  <1>8. answer' \in (IF some THEN {Stored!Miss}
                     ELSE IF start = end THEN {Stored!Data(start, end), Stored!Miss}
                          ELSE {Stored!Data(start, end)})
    <2>1. CASE held /\ CoversRange(written, start, end)
      <3>1. answer' = Data(start, end)
        BY <2>1 DEF Lookup
      <3>2. \A b \in start .. (end - 1) : Content[b] = bytes[b]
        BY <1>2, <1>3, <2>1, ContentIs
      <3>3. Data(start, end) = Stored!Data(start, end)
        <4>1. [b \in start .. (end - 1) |-> bytes[b]] = [b \in start .. (end - 1) |-> Content[b]]
          BY <3>2
        <4> QED BY <4>1 DEF Data, Stored!Data, Content
      <3> QED BY <1>4, <2>1, <3>1, <3>3
    <2>2. CASE ~(held /\ CoversRange(written, start, end))
      <3>1. answer' = Stored!Miss
        BY <2>2 DEF Lookup, Miss, Stored!Miss
      <3>2. some \/ start = end
        <4>1. CASE ~CoversRange(written, start, end)
          BY <1>4, <4>1
        <4>2. CASE ~held /\ start < end
          <5>1. start \in start .. (end - 1)
            BY <1>1, <4>2
          <5>2. start \in Byte /\ Content[start] = Absent
            BY <1>3, <1>5, <4>2, <5>1, ContentIs
          <5> QED BY <5>1, <5>2
        <4> QED BY <1>1, <2>2, <4>1, <4>2
      <3> QED BY <3>1, <3>2
    <2> QED BY <2>1, <2>2
  <1> QED BY <1>1, <1>6, <1>7, <1>8

LEMMA WriteIsWrite ==
    ASSUME PieceOK, NEW start \in Int, NEW length \in Int, NEW v \in Values,
           Write(start, length, v)
    PROVE  Stored!Write
  <1>1. start \in Nat /\ length \in Nat /\ start + length \in 0 .. Size
    BY WriteStores
  <1>2. \A b \in Byte : b \in BytesOf(written')
                    <=> b \in BytesOf(written) \/ b \in start .. (start + length - 1)
    BY WriteStores
  <1>3. \A b \in Byte : bytes'[b] = IF b \in start .. (start + length - 1) THEN v ELSE bytes[b]
    BY WriteStores
  <1>4. PICK end \in start .. Size : end = start + length
    BY <1>1, MemoryPieceAssumption
  <1>5. start \in 0 .. Size
    BY <1>1, MemoryPieceAssumption
  <1>6. Content' = [b \in Byte |-> IF b \in start .. (end - 1) THEN v ELSE Content[b]]
    BY <1>2, <1>3, <1>4 DEF Content
  <1>7. answer' = Stored!Done
    BY DEF Write, Done, Stored!Done
  <1>8. Stored!Write <=>
          /\ answer' = Stored!Done
          /\ \E from \in 0 .. Size : \E to \in from .. Size : \E u \in Values :
                Content' = [b \in Byte |-> IF b \in from .. (to - 1) THEN u ELSE Content[b]]
    BY DEF Stored!Write, Content, Byte, Stored!Byte
  <1> QED BY <1>4, <1>5, <1>6, <1>7, <1>8

\* A piece is the partial map ByteMap specifies, whatever the writes, reads, hashes and
\* evictions it sees: nothing that was not written is ever answered, and nothing stored
\* is missed (memory_disk_io.cpp:99-365).
THEOREM PieceImplementsByteMap == DataSpec => ImplementsByteMap
  <1>1. DataInit => Stored!Init
    <2> SUFFICES ASSUME DataInit PROVE Stored!Init
      OBVIOUS
    <2>1. BytesOf(written) = {} /\ answer = None
      BY DEF DataInit, Init, BytesOf
    <2> QED BY <2>1 DEF Stored!Init, Stored!None, None, Stored!Byte, Byte
  <1>2. PieceOK /\ [DataNext]_dataVars => [Stored!Next]_(Stored!vars)
    <2> SUFFICES ASSUME PieceOK, [DataNext]_dataVars PROVE [Stored!Next]_(Stored!vars)
      OBVIOUS
    <2>1. [Next]_vars
      BY DEF DataNext, PolicyNext, PieceNext, FilesNext, RailNext, dataVars
    <2>2. ASSUME NEW start \in Asked, NEW length \in Asked, NEW v \in Values, Write(start, length, v)
          PROVE  Stored!Next
      BY <2>2, AskedAreIntegers, WriteIsWrite DEF Stored!Next
    <2>3. ASSUME NEW start \in Asked, NEW length \in Asked, Read(start, length) PROVE Stored!Next
      <3>1. start \in Int /\ length \in Int /\ Size \in Nat
        BY AskedAreIntegers, MemoryPieceAssumption
      <3>2. start \in Nat /\ length \in Nat /\ start + length \in 0 .. Size /\ Lookup(start, length)
        BY <2>3, <3>1 DEF Read, ValidRequest
      <3> QED BY <3>2, LookupIsRead DEF Stored!Next
    <2>4. ASSUME NEW start \in Asked, NEW length \in Asked, Refuse(start, length) PROVE Stored!Next
      <3>1. answer' = Stored!Refused /\ UNCHANGED Content
        BY <2>4 DEF Refuse, Refused, Stored!Refused, Content
      <3> QED BY <3>1 DEF Stored!Next, Stored!Refuse, Content
    <2>5. CASE Hash
      <3>1. 0 \in Nat /\ Size \in Nat /\ 0 + Size \in 0 .. Size /\ Lookup(0, Size)
        BY <2>5, MemoryPieceAssumption DEF Hash
      <3> QED BY <3>1, LookupIsRead DEF Stored!Next
    <2>6. ASSUME NEW o \in Byte, Hash2(o) PROVE Stored!Next
      <3> DEFINE length == IF Block < Size - o THEN Block ELSE Size - o
      <3>1. o \in Nat /\ length \in Nat /\ o + length \in 0 .. Size
        BY MemoryPieceAssumption DEF Byte
      <3>2. Lookup(o, length)
        BY <2>6 DEF Hash2
      <3> HIDE DEF length
      <3> QED BY <3>1, <3>2, LookupIsRead DEF Stored!Next
    <2>7. CASE Evict
      <3>1. BytesOf(written') = {}
        BY <2>7, EvictKeeps
      <3>2. Content' = [b \in Byte |-> Absent] /\ answer' = Stored!None
        BY <2>7, <3>1 DEF Content, Evict, None, Stored!None
      <3> QED BY <3>2 DEF Stored!Next, Stored!Lose, Content, Stored!Byte, Byte
    <2>8. CASE UNCHANGED vars
      <3>1. UNCHANGED <<Content, answer>>
        BY <2>8 DEF vars, Content
      <3> QED BY <3>1 DEF Stored!vars, Content
    <2> QED BY <2>1, <2>2, <2>3, <2>4, <2>5, <2>6, <2>7, <2>8 DEF Next
  <1> QED BY <1>1, <1>2, PieceAlwaysOK, PTL DEF DataSpec, ImplementsByteMap, Stored!Spec

-----------------------------------------------------------------------------
(* The rail *)

States == {"failed", "requested", "retained", "evictable", "evicted", "missing"}

LEMMA RankOfStates == \A s \in States : Rank[s] \in 0 .. 7
  BY DEF Rank, States

LEMMA StateOfFacts == \A f : PieceState(f) \in States
  BY DEF PieceState, States

\* The piece a segment takes its colour from exists, and none of the segment outranks it.
LEMMA DominantIs ==
    ASSUME NEW states \in Seq(States), NEW begin \in Nat, NEW end \in Nat,
           begin < end, end <= Len(states)
    PROVE  \E best \in begin .. (end - 1) :
             /\ DominantPieceState(states, begin, end) = states[best + 1]
             /\ \A j \in begin .. (end - 1) : Rank[states[j + 1]] <= Rank[states[best + 1]]
  <1> DEFINE pieces == begin .. (end - 1)
             R(i) == Rank[states[i + 1]]
             Short(i) == 7 - R(i)
             Best(i) == /\ \A j \in pieces : R(j) <= R(i)
                        /\ \A j \in begin .. (i - 1) : R(j) < R(i)
             shorts == {n \in Nat : \E i \in pieces : Short(i) = n}
  <1>1. \A i \in pieces : i \in Nat /\ R(i) \in 0 .. 7 /\ Short(i) \in Nat
    <2> TAKE i \in pieces
    <2>1. i \in Nat /\ i + 1 \in 1 .. Len(states)
      OBVIOUS
    <2>2. states[i + 1] \in States
      BY <2>1
    <2>3. R(i) \in 0 .. 7
      BY <2>2, RankOfStates
    <2> HIDE DEF R
    <2> QED BY <2>1, <2>3
  <1>2. begin \in pieces
    OBVIOUS
  <1> HIDE DEF R
  <1>3. PICK n \in shorts : \A m \in shorts : n <= m
    <2>1. shorts # {}
      BY <1>1, <1>2
    <2>2. shorts \in SUBSET Nat
      OBVIOUS
    <2> HIDE DEF shorts
    <2> QED BY <2>1, <2>2, LeastNatural
  <1> DEFINE dominant == {i \in pieces : Short(i) = n}
  <1>4. PICK b \in dominant : \A i \in dominant : b <= i
    <2>1. dominant # {} /\ dominant \in SUBSET Nat
      BY <1>1, <1>3
    <2> HIDE DEF dominant
    <2> QED BY <2>1, LeastNatural
  <1>5. \A j \in pieces : R(j) <= R(b)
    <2> TAKE j \in pieces
    <2>1. Short(j) \in shorts
      BY <1>1
    <2>2. n <= Short(j)
      BY <1>3, <2>1
    <2>3. b \in pieces /\ n = Short(b)
      OBVIOUS
    <2>4. Short(b) <= Short(j)
      BY <2>2, <2>3
    <2>5. R(b) \in 0 .. 7 /\ R(j) \in 0 .. 7
      BY <1>1, <2>3
    <2> QED BY <2>4, <2>5
  <1>6. \A j \in begin .. (b - 1) : R(j) < R(b)
    <2> TAKE j \in begin .. (b - 1)
    <2>1. j \in pieces /\ j < b
      BY <1>1, <1>4
    <2>2. j \notin dominant
      BY <1>1, <1>4, <2>1
    <2> QED BY <1>1, <1>4, <1>5, <2>1, <2>2
  <1>7. b \in pieces /\ Best(b)
    BY <1>4, <1>5, <1>6
  <1> HIDE DEF pieces, Best
  <1> DEFINE best == CHOOSE i \in pieces : Best(i)
  <1>8. best \in pieces /\ Best(best)
    BY <1>7
  <1>9. DominantPieceState(states, begin, end) = states[best + 1]
    BY DEF DominantPieceState, Best, pieces, R
  <1> HIDE DEF best
  <1> QED BY <1>8, <1>9 DEF Best, pieces, R

\* Segments no more than the pieces divide them: the first begins at the first piece, the
\* last ends at the last, and each begins where the one before ends and is not empty.
LEMMA SegmentsDivide ==
    ASSUME NEW pieces \in Nat \ {0}, NEW segments \in Nat \ {0}, segments <= pieces
    PROVE  /\ SegmentBegin(0, pieces, segments) = 0
           /\ SegmentBegin(segments, pieces, segments) = pieces
           /\ \A k \in Nat : /\ SegmentBegin(k, pieces, segments) \in Nat
                             /\ SegmentBegin(k, pieces, segments) < SegmentBegin(k + 1, pieces, segments)
                             /\ SegmentEnd(k, pieces, segments) = SegmentBegin(k + 1, pieces, segments)
  <1> DEFINE B(k) == SegmentBegin(k, pieces, segments)
  <1>1. \A k \in Nat : B(k) = (k * pieces) \div segments /\ k * pieces \in Nat
    BY DEF SegmentBegin
  <1>2. B(0) = 0
    BY <1>1
  <1>3. B(segments) = pieces
    <2>1. segments * pieces = pieces * segments /\ pieces * segments \in Nat
      OBVIOUS
    <2>2. (pieces * segments) \div segments = pieces
      <3> DEFINE n == pieces * segments
      <3>1. n \in Nat /\ pieces * segments <= n /\ n < pieces * segments + segments
        BY <2>1
      <3> HIDE DEF n
      <3>2. n \div segments = pieces
        BY <3>1, QuotientIs
      <3> QED BY <3>2 DEF n
    <2> QED BY <1>1, <2>1, <2>2
  <1>4. ASSUME NEW k \in Nat PROVE B(k) \in Nat /\ B(k) + 1 <= B(k + 1)
    <2> DEFINE n == k * pieces
               m == (k + 1) * pieces
    <2>1. n \in Nat /\ m \in Nat /\ n + segments <= m
      <3>1. m = n + pieces
        OBVIOUS
      <3>2. n \in Nat
        OBVIOUS
      <3> HIDE DEF n, m
      <3> QED BY <3>1, <3>2
    <2>2. B(k) = n \div segments /\ B(k + 1) = m \div segments
      BY <1>1
    <2> HIDE DEF n, m
    <2> DEFINE q == n \div segments
               r == m \div segments
    <2>3. q \in Nat /\ q * segments <= n
      BY <2>1, QuotientBounds
    <2>4. r \in Nat /\ m < r * segments + segments
      BY <2>1, QuotientBounds
    <2>5. q + 1 <= r
      <3> SUFFICES ASSUME r <= q PROVE FALSE
        BY <2>3, <2>4
      <3>1. r * segments <= q * segments
        BY <2>3, <2>4
      <3>2. r * segments \in Nat /\ q * segments \in Nat
        BY <2>3, <2>4
      <3> HIDE DEF q, r
      <3> QED BY <2>1, <2>3, <2>4, <3>1, <3>2
    <2> QED BY <2>2, <2>3, <2>4, <2>5
  <1>5. ASSUME NEW k \in Nat PROVE SegmentEnd(k, pieces, segments) = B(k + 1)
    <2>1. SegmentEnd(k, pieces, segments) = IF B(k + 1) > B(k) THEN B(k + 1) ELSE B(k) + 1
      BY <1>1 DEF SegmentEnd
    <2>2. B(k) \in Nat /\ B(k + 1) \in Nat /\ B(k) + 1 <= B(k + 1)
      BY <1>4
    <2> HIDE DEF B
    <2> QED BY <2>1, <2>2
  <1>6. ASSUME NEW k \in Nat PROVE B(k) < B(k + 1)
    <2>1. B(k) \in Nat /\ B(k + 1) \in Nat /\ B(k) + 1 <= B(k + 1)
      BY <1>4
    <2> HIDE DEF B
    <2> QED BY <2>1
  <1> QED BY <1>2, <1>3, <1>4, <1>5, <1>6

\* A segment later begins no earlier than one before it.
LEMMA SegmentsInOrder ==
    ASSUME NEW pieces \in Nat \ {0}, NEW segments \in Nat \ {0}, segments <= pieces
    PROVE  \A k, l \in Nat : k <= l => SegmentBegin(k, pieces, segments) <= SegmentBegin(l, pieces, segments)
  <1> DEFINE B(k) == SegmentBegin(k, pieces, segments)
  <1> SUFFICES ASSUME NEW k \in Nat PROVE \A l \in Nat : k <= l => B(k) <= B(l)
    OBVIOUS
  <1>0. \A n \in Nat : B(n) \in Nat /\ B(n + 1) \in Nat /\ B(n) < B(n + 1)
    BY SegmentsDivide
  <1> HIDE DEF B
  <1> DEFINE S == {l \in Nat : k <= l => B(k) <= B(l)}
  <1>1. 0 \in S
    BY <1>0
  <1>2. \A l \in Nat : l \in S => l + 1 \in S
    <2> TAKE l \in Nat
    <2> HAVE l \in S
    <2>1. CASE k <= l
      BY <1>0, <2>1
    <2>2. CASE k = l + 1
      BY <1>0, <2>2
    <2>3. CASE k > l + 1
      BY <2>3
    <2> QED BY <2>1, <2>2, <2>3
  <1>3. Nat \subseteq S
    <2> HIDE DEF S
    <2> QED BY <1>1, <1>2, NaturalsIn
  <1> QED BY <1>3

\* Every piece is in one segment: the first that ends at or after it.
LEMMA SegmentsCover ==
    ASSUME NEW pieces \in Nat \ {0}, NEW segments \in Nat \ {0}, segments <= pieces,
           NEW p \in 1 .. pieces
    PROVE  \E k \in 1 .. segments : /\ SegmentBegin(k - 1, pieces, segments) < p
                                    /\ p <= SegmentBegin(k, pieces, segments)
  <1> DEFINE B(k) == SegmentBegin(k, pieces, segments)
             reach == {k \in Nat : p <= B(k)}
  <1>1. B(0) = 0 /\ B(segments) = pieces /\ \A k \in Nat : B(k) \in Nat
    BY SegmentsDivide
  <1> HIDE DEF B
  <1>2. segments \in reach /\ reach \in SUBSET Nat
    BY <1>1
  <1>3. PICK k \in reach : \A l \in reach : k <= l
    <2> HIDE DEF reach
    <2> QED BY <1>2, LeastNatural
  <1>4. k \in Nat /\ p <= B(k) /\ k <= segments
    BY <1>2, <1>3
  <1>5. k # 0
    BY <1>1, <1>4
  <1>6. k - 1 \in Nat /\ k - 1 \notin reach
    BY <1>3, <1>4, <1>5
  <1>7. B(k - 1) < p
    BY <1>1, <1>6
  <1> QED BY <1>4, <1>5, <1>7 DEF B

RailTyped == facts \in Seq(PieceFacts) /\ width \in Int

LEMMA RailAlwaysTyped == DataSpec => []RailTyped
  <1>1. DataInit => RailTyped
    BY DEF DataInit, RailTyped
  <1>2. RailTyped /\ [DataNext]_dataVars => RailTyped'
    <2> SUFFICES ASSUME RailTyped, [DataNext]_dataVars PROVE RailTyped'
      OBVIOUS
    <2>1. CASE RailNext
      <3>1. width' \in Int
        BY <2>1, DataAssumption DEF RailNext
      <3>2. facts \in Seq(PieceFacts)
        BY DEF RailTyped
      <3>3. (\E f \in PieceFacts : facts' = Append(facts, f)) \/ facts' = <<>>
        BY <2>1 DEF RailNext
      <3>4. facts' \in Seq(PieceFacts)
        <4>1. CASE facts' = <<>>
          BY <4>1
        <4>2. ASSUME NEW f \in PieceFacts, facts' = Append(facts, f)
              PROVE  facts' \in Seq(PieceFacts)
          BY <3>2, <4>2
        <4> QED BY <3>3, <4>1, <4>2
      <3> QED BY <3>1, <3>4 DEF RailTyped
    <2>2. CASE UNCHANGED railVars
      BY <2>2 DEF railVars, RailTyped
    <2> QED BY <2>1, <2>2 DEF DataNext, PolicyNext, PieceNext, FilesNext, dataVars
  <1> QED BY <1>1, <1>2, PTL DEF DataSpec

LEMMA SegmentsFit ==
    ASSUME NEW pieces \in Nat, NEW w \in Int
    PROVE  /\ Segments(pieces, w) \in Nat /\ Segments(pieces, w) <= pieces
           /\ pieces > 0 => Segments(pieces, w) > 0
  <1>1. w \div SegmentWidth \in Int
    BY RailAssumption
  <1> QED BY <1>1, RailAssumption DEF Segments

\* However many pieces a file has and however narrow the window is, the rail shows every
\* piece once, and in the colour of a piece of its segment that none there outranks
\* (player_overlay.cpp, torrent_service.cpp).
THEOREM RailAlwaysShows == DataSpec => []RailShowsAll
  <1>1. RailTyped => RailShowsAll
    <2> SUFFICES ASSUME RailTyped PROVE RailShowsAll
      OBVIOUS
    <2> DEFINE states == [i \in DOMAIN facts |-> PieceState(facts[i])]
               pieces == Len(states)
               segments == Segments(pieces, width)
               rail == Rail(states, width)
               B(k) == SegmentBegin(k, pieces, segments)
               in(k) == {p \in 1 .. pieces : /\ p > SegmentBegin(k - 1, pieces, Len(rail))
                                             /\ p <= SegmentEnd(k - 1, pieces, Len(rail))}
    <2>1. states \in Seq(States) /\ pieces \in Nat /\ width \in Int
      <3>1. facts \in Seq(PieceFacts) /\ width \in Int
        BY DEF RailTyped
      <3>2. Len(facts) \in Nat /\ states = [i \in 1 .. Len(facts) |-> states[i]]
        BY <3>1
      <3>3. \A i \in 1 .. Len(facts) : states[i] \in States
        BY <3>1, StateOfFacts
      <3> HIDE DEF states
      <3> QED BY <3>1, <3>2, <3>3
    <2> HIDE DEF states, pieces
    <2>2. segments \in Nat /\ segments <= pieces /\ (pieces > 0 => segments > 0)
      BY <2>1, SegmentsFit
    <2>3. rail = [k \in 1 .. segments |->
                    DominantPieceState(states, SegmentBegin(k - 1, pieces, segments),
                                               SegmentEnd(k - 1, pieces, segments))]
      BY DEF Rail, pieces
    <2> HIDE DEF segments, rail
    <2>4. DOMAIN rail = 1 .. segments /\ Len(rail) = segments
      BY <2>2, <2>3
    <2>5. CASE pieces = 0
      <3>1. DOMAIN rail = {} /\ 1 .. pieces = {}
        BY <2>2, <2>4, <2>5
      <3> QED BY <3>1 DEF RailShowsAll, rail, states, pieces
    <2>6. CASE pieces > 0
      <3>1. pieces \in Nat \ {0} /\ segments \in Nat \ {0} /\ segments <= pieces
        BY <2>1, <2>2, <2>6
      <3>2. /\ B(0) = 0 /\ B(segments) = pieces
            /\ \A k \in Nat : B(k) \in Nat /\ B(k) < B(k + 1) /\ SegmentEnd(k, pieces, segments) = B(k + 1)
        BY <3>1, SegmentsDivide
      <3>3. \A k, l \in Nat : k <= l => B(k) <= B(l)
        BY <3>1, SegmentsInOrder
      <3>4. \A p \in 1 .. pieces : \E k \in 1 .. segments : B(k - 1) < p /\ p <= B(k)
        BY <3>1, SegmentsCover
      <3> HIDE DEF B
      <3>5. ASSUME NEW k \in 1 .. segments
            PROVE  /\ k - 1 \in Nat /\ B(k - 1) \in Nat /\ B(k) \in Nat
                   /\ B(k - 1) < B(k) /\ B(k) <= pieces
                   /\ in(k) = {p \in 1 .. pieces : p > B(k - 1) /\ p <= B(k)}
                   /\ rail[k] = DominantPieceState(states, B(k - 1), B(k))
        <4>1. k \in Nat /\ k - 1 \in Nat /\ (k - 1) + 1 = k /\ k <= segments
          BY <3>1
        <4>2. /\ B(k - 1) \in Nat /\ B(k) \in Nat /\ B(k - 1) < B(k)
              /\ SegmentEnd(k - 1, pieces, segments) = B(k)
          BY <3>2, <4>1
        <4>3. B(k) <= pieces
          BY <3>1, <3>2, <3>3, <4>1
        <4>4. SegmentBegin(k - 1, pieces, segments) = B(k - 1)
          BY DEF B
        <4>5. in(k) = {p \in 1 .. pieces : p > B(k - 1) /\ p <= B(k)}
          BY <2>4, <4>2, <4>4
        <4>6. rail[k] = DominantPieceState(states, B(k - 1), B(k))
          BY <2>3, <4>2, <4>4
        <4> QED BY <4>1, <4>2, <4>3, <4>5, <4>6
      <3> HIDE DEF in
      <3>6. UNION {in(k) : k \in DOMAIN rail} = 1 .. pieces
        <4>1. ASSUME NEW p \in 1 .. pieces PROVE \E k \in DOMAIN rail : p \in in(k)
          <5>1. PICK k \in 1 .. segments : B(k - 1) < p /\ p <= B(k)
            BY <3>4
          <5>2. p \in in(k)
            BY <3>5, <5>1
          <5> QED BY <2>4, <5>2
        <4>2. \A k \in DOMAIN rail : in(k) \subseteq 1 .. pieces
          BY DEF in
        <4> QED BY <4>1, <4>2
      <3>7. ASSUME NEW k \in DOMAIN rail, NEW l \in DOMAIN rail, k # l
            PROVE  in(k) \cap in(l) = {}
        <4>1. ASSUME NEW i \in 1 .. segments, NEW j \in 1 .. segments, i < j
              PROVE  in(i) \cap in(j) = {}
          <5>1. i \in Nat /\ j - 1 \in Nat /\ i <= j - 1
            BY <3>1, <4>1
          <5>2. B(i) <= B(j - 1)
            BY <3>3, <5>1
          <5>3. \A p \in in(i) : p \in Int /\ p <= B(i)
            BY <3>5
          <5>4. \A p \in in(j) : p \in Int /\ p > B(j - 1)
            BY <3>5
          <5>5. B(i) \in Nat /\ B(j - 1) \in Nat
            BY <3>5
          <5> QED BY <5>2, <5>3, <5>4, <5>5
        <4>2. k \in 1 .. segments /\ l \in 1 .. segments /\ (k < l \/ l < k)
          BY <2>4, <3>1, <3>7
        <4> QED BY <4>1, <4>2
      <3>8. ASSUME NEW k \in DOMAIN rail
            PROVE  /\ \A p \in in(k) : Rank[states[p]] <= Rank[rail[k]]
                   /\ \E p \in in(k) : states[p] = rail[k]
        <4>1. k \in 1 .. segments
          BY <2>4
        <4>2. /\ B(k - 1) \in Nat /\ B(k) \in Nat /\ B(k - 1) < B(k) /\ B(k) <= Len(states)
              /\ in(k) = {p \in 1 .. pieces : p > B(k - 1) /\ p <= B(k)}
              /\ rail[k] = DominantPieceState(states, B(k - 1), B(k))
          BY <3>5, <4>1 DEF pieces
        <4> DEFINE begin == B(k - 1)
                   end == B(k)
        <4>3. begin \in Nat /\ end \in Nat /\ begin < end /\ end <= Len(states)
          BY <4>2
        <4> HIDE DEF begin, end
        <4>4. PICK best \in begin .. (end - 1) :
                /\ DominantPieceState(states, begin, end) = states[best + 1]
                /\ \A j \in begin .. (end - 1) : Rank[states[j + 1]] <= Rank[states[best + 1]]
          BY <2>1, <4>3, DominantIs
        <4>5. rail[k] = states[best + 1]
          BY <4>2, <4>4 DEF begin, end
        <4>6. in(k) = {p \in 1 .. pieces : p > begin /\ p <= end}
          BY <4>2 DEF begin, end
        <4>7. best + 1 \in in(k)
          BY <4>3, <4>6 DEF pieces
        <4>8. ASSUME NEW p \in in(k) PROVE Rank[states[p]] <= Rank[rail[k]]
          <5>1. p - 1 \in begin .. (end - 1) /\ (p - 1) + 1 = p
            BY <4>3, <4>6
          <5> QED BY <4>4, <4>5, <5>1
        <4> QED BY <4>5, <4>7, <4>8
      <3> QED BY <3>6, <3>7, <3>8 DEF RailShowsAll, in, rail, pieces, states
    <2> QED BY <2>1, <2>5, <2>6
  <1> QED BY <1>1, RailAlwaysTyped, PTL
=============================================================================

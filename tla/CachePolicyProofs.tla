------------------------- MODULE CachePolicyProofs -------------------------
(***************************************************************************)
(* What the policy arithmetic guarantees for every limit, budget, offset   *)
(* and geometry.                                                           *)
(***************************************************************************)
EXTENDS CachePolicy, WellFoundedInduction, TLAPS

-----------------------------------------------------------------------------
(* Natural numbers *)

\* Every set of them has a least element, if any: what replaces induction, since the
\* theorems of induction take an operator, which no prover here can instantiate.
LEMMA LeastNatural ==
    ASSUME NEW T \in SUBSET Nat, T # {}
    PROVE  \E m \in T : \A n \in T : m <= n
  <1>1. \E R : IsWellFoundedOn(R, Nat) /\ \A m, n \in Nat : <<n, m>> \in R <=> n < m
    <2>1. \A m, n \in Nat : <<n, m>> \in OpToRel(<, Nat) <=> n < m
      BY DEF OpToRel
    <2> QED BY <2>1, NatLessThanWellFounded
  <1>2. PICK R : IsWellFoundedOn(R, Nat) /\ \A m, n \in Nat : <<n, m>> \in R <=> n < m
    BY <1>1
  <1>3. \E m \in T : \A n \in T : ~ (<<n, m>> \in R)
    BY <1>2, WFMin
  <1>4. \A m, n \in T : ~ (<<n, m>> \in R) => m <= n
    <2> TAKE m \in T, n \in T
    <2>1. m \in Nat /\ n \in Nat
      OBVIOUS
    <2>2. <<n, m>> \in R <=> n < m
      BY <1>2, <2>1
    <2> QED BY <2>1, <2>2
  <1> QED BY <1>3, <1>4

\* Induction, said of a set.
LEMMA NaturalsIn ==
    ASSUME NEW S, 0 \in S, \A n \in Nat : n \in S => n + 1 \in S
    PROVE  Nat \subseteq S
  <1> DEFINE T == Nat \ S
  <1>1. SUFFICES ASSUME T # {} PROVE FALSE
    OBVIOUS
  <1>2. PICK n \in T : \A m \in T : n <= m
    BY <1>1, LeastNatural
  <1>3. n # 0 /\ n - 1 \in Nat /\ n - 1 \notin T
    BY <1>2
  <1> QED BY <1>2, <1>3

-----------------------------------------------------------------------------
(* Division *)

LEMMA ProductMonotone ==
    ASSUME NEW m \in Nat, NEW b \in Nat, NEW t \in Nat, b <= t
    PROVE  m * b \in Nat /\ m * t \in Nat /\ m * b <= m * t
  OBVIOUS

LEMMA QuotientBounds ==
    ASSUME NEW n \in Nat, NEW d \in Nat \ {0}
    PROVE  /\ n \div d \in Nat
           /\ (n \div d) * d <= n
           /\ n < (n \div d) * d + d
  OBVIOUS

LEMMA QuotientAtMost ==
    ASSUME NEW m \in Nat, NEW d \in Nat \ {0}, NEW n \in Nat, n <= m * d
    PROVE  n \div d \in Nat /\ n \div d <= m
  <1> DEFINE q == n \div d
  <1>1. q \in Nat /\ q * d <= n
    BY QuotientBounds
  <1>2. SUFFICES ASSUME q > m PROVE FALSE
    BY <1>1
  <1>3. (m + 1) * d <= q * d
    BY <1>1, <1>2
  <1> QED BY <1>1, <1>3

-----------------------------------------------------------------------------
(* Policies *)

\* A budget larger than the cache is scaled to it exactly (cache_policy.cpp:47-51).
LEMMA ScaledFits ==
    ASSUME NEW p \in [max : Nat \ {0}, before : Nat, after : Nat],
           p.before + p.after > 0
    PROVE  ScaleToMax(p) \in Policies
  <1> DEFINE t == p.before + p.after
             before == (p.max * p.before) \div t
  <1>1. t \in Nat \ {0} /\ p.before <= t
    OBVIOUS
  <1>2. p.max * p.before \in Nat /\ p.max * p.before <= p.max * t
    BY <1>1, ProductMonotone
  <1>3. before \in Nat /\ before <= p.max
    BY <1>1, <1>2, QuotientAtMost
  <1>4. ScaleToMax(p) = [max |-> p.max, before |-> before, after |-> p.max - before]
    BY DEF ScaleToMax
  <1> QED BY <1>3, <1>4 DEF Policies

\* normalize_cache_policy answers a policy whose window budget is positive and fits
\* the cache, whatever it is given (cache_policy.cpp:36-53).
THEOREM NormalizeFits ==
    ASSUME NEW raw \in RawPolicies
    PROVE  Normalize(raw) \in Policies
  <1> DEFINE q == [max    |-> AtLeast(raw.max, 1),
                   before |-> AtLeast(raw.before, 0),
                   after  |-> AtLeast(raw.after, 0)]
  <1>1. q \in [max : Nat \ {0}, before : Nat, after : Nat]
    BY DEF RawPolicies, AtLeast
  <1>2. CASE q.before + q.after = 0
    <2>1. Normalize(raw) = [q EXCEPT !.after = q.max]
      BY <1>2 DEF Normalize
    <2> QED BY <1>1, <1>2, <2>1 DEF Policies
  <1>3. CASE q.before + q.after # 0 /\ q.before + q.after > q.max
    <2>1. Normalize(raw) = ScaleToMax(q)
      BY <1>3 DEF Normalize
    <2> QED BY <1>1, <1>3, <2>1, ScaledFits
  <1>4. CASE q.before + q.after # 0 /\ ~(q.before + q.after > q.max)
    <2>1. Normalize(raw) = q
      BY <1>4 DEF Normalize
    <2> QED BY <1>1, <1>4, <2>1 DEF Policies
  <1> QED BY <1>2, <1>3, <1>4

\* A policy that fits is normalised to itself: normalising twice, as the service and
\* then every storage do, gives the same policy as normalising once.
THEOREM NormalizeIsStable ==
    ASSUME NEW p \in Policies
    PROVE  Normalize(p) = p
  <1>1. p \in [max : Nat \ {0}, before : Nat, after : Nat]
    BY DEF Policies
  <1>2. p.before + p.after <= p.max /\ p.before + p.after > 0
    BY DEF Policies
  <1> DEFINE q == [max    |-> AtLeast(p.max, 1),
                   before |-> AtLeast(p.before, 0),
                   after  |-> AtLeast(p.after, 0)]
  <1>3. q = p
    BY <1>1 DEF AtLeast
  <1> QED BY <1>1, <1>2, <1>3 DEF Normalize

\* Every limit gives a policy that needs no normalising, of the whole cache: a quarter
\* behind the reader and the rest ahead.
THEOREM LimitFits ==
    ASSUME NEW n \in Int
    PROVE  /\ FromLimitMib(n) \in Policies
           /\ Normalize(FromLimitMib(n)) = FromLimitMib(n)
  <1> DEFINE max == Clamp(n, 1, MaxLimitMib) * Mib
  <1>1. max \in Nat \ {0}
    BY CachePolicyAssumption DEF Clamp
  <1>2. max \div 4 \in Nat /\ max \div 4 <= max
    BY <1>1
  <1>3. FromLimitMib(n) = [max |-> max, before |-> max \div 4, after |-> max - (max \div 4)]
    BY DEF FromLimitMib
  <1> HIDE DEF max
  <1>4. FromLimitMib(n) \in Policies
    BY <1>1, <1>2, <1>3 DEF Policies
  <1> QED BY <1>4, NormalizeIsStable

\* limit_mib undoes from_limit_mib, up to the accepted range.
THEOREM LimitRoundTrip ==
    ASSUME NEW n \in Int
    PROVE  LimitMib(FromLimitMib(n)) = Clamp(n, 1, MaxLimitMib)
  <1> DEFINE c == Clamp(n, 1, MaxLimitMib)
  <1>1. c \in Nat
    BY CachePolicyAssumption DEF Clamp
  <1>2. FromLimitMib(n).max = c * Mib
    BY DEF FromLimitMib
  <1>3. (2 * (c * Mib) + Mib) \div (2 * Mib) = c
    <2>1. 2 * Mib \in Nat \ {0} /\ 2 * (c * Mib) + Mib \in Nat
      BY <1>1, CachePolicyAssumption
    <2> DEFINE q == (2 * (c * Mib) + Mib) \div (2 * Mib)
    <2>2. /\ q \in Nat
          /\ q * (2 * Mib) <= 2 * (c * Mib) + Mib
          /\ 2 * (c * Mib) + Mib < q * (2 * Mib) + 2 * Mib
      BY <2>1, QuotientBounds
    <2>3. /\ q * (2 * Mib) = 2 * (q * Mib)
          /\ q * Mib \in Nat /\ c * Mib \in Nat
      BY <1>1, <2>2, CachePolicyAssumption
    <2>4. ~(q > c)
      <3> SUFFICES ASSUME q >= c + 1 PROVE FALSE
        BY <1>1, <2>2
      <3>1. q * Mib >= (c + 1) * Mib
        BY <1>1, <2>2, CachePolicyAssumption
      <3>2. (c + 1) * Mib = c * Mib + Mib
        BY <1>1, CachePolicyAssumption
      <3> HIDE DEF q, c
      <3> QED BY <3>1, <3>2, <2>2, <2>3, CachePolicyAssumption
    <2>5. ~(q < c)
      <3> SUFFICES ASSUME q + 1 <= c PROVE FALSE
        BY <1>1, <2>2
      <3>1. (q + 1) * Mib <= c * Mib
        BY <1>1, <2>2, CachePolicyAssumption
      <3>2. (q + 1) * Mib = q * Mib + Mib
        BY <2>2, CachePolicyAssumption
      <3> HIDE DEF q, c
      <3> QED BY <3>1, <3>2, <2>2, <2>3, CachePolicyAssumption
    <2> QED BY <1>1, <2>2, <2>4, <2>5
  <1> QED BY <1>2, <1>3 DEF LimitMib

-----------------------------------------------------------------------------
(* Windows *)

LEMMA QuotientMonotone ==
    ASSUME NEW m \in Nat, NEW n \in Nat, NEW d \in Nat \ {0}, m <= n
    PROVE  m \div d <= n \div d
  <1> DEFINE q == m \div d
             r == n \div d
  <1>1. /\ q \in Nat /\ q * d <= m
        /\ r \in Nat /\ n < r * d + d
    BY QuotientBounds
  <1>2. SUFFICES ASSUME r + 1 <= q PROVE FALSE
    BY <1>1
  <1>3. (r + 1) * d <= q * d /\ (r + 1) * d = r * d + d
    BY <1>1, <1>2
  <1> HIDE DEF q, r
  <1> QED BY <1>1, <1>3

LEMMA CeilBounds ==
    ASSUME NEW n \in Nat \ {0}, NEW d \in Nat \ {0}
    PROVE  /\ CeilDiv(n, d) \in Nat \ {0}
           /\ n <= CeilDiv(n, d) * d
           /\ CeilDiv(n, d) * d < n + d
  <1> DEFINE q == (n + d - 1) \div d
  <1>1. n + d - 1 \in Nat
    OBVIOUS
  <1>2. q \in Nat /\ q * d <= n + d - 1 /\ n + d - 1 < q * d + d
    BY <1>1, QuotientBounds
  <1>3. q # 0
    BY <1>2
  <1> HIDE DEF q
  <1>4. q * d \in Nat
    BY <1>2
  <1>5. CeilDiv(n, d) = q
    BY DEF CeilDiv, q
  <1> QED BY <1>2, <1>3, <1>4, <1>5

\* Inside the torrent the window is never empty and holds the piece of the offset it
\* was computed for: the piece a reader waits for is retained (cache_policy.cpp:55-77).
THEOREM WindowHoldsReader ==
    ASSUME NEW offset \in Nat, NEW total \in Nat \ {0}, NEW len \in Nat \ {0},
           NEW raw \in RawPolicies, offset < total * len
    PROVE  Contains(RetainedWindow(offset, total, len, raw), offset \div len)
  <1> DEFINE p == Normalize(raw)
             piece == offset \div len
             lo == FirstByte(offset, p) \div len
             hi == CeilDiv(EndByte(offset, p), len)
             first == FirstPiece(offset, p, total, len)
             end == EndPiece(offset, p, total, len)
  <1>1. p \in Policies /\ p.before \in Nat /\ p.after \in Nat
    BY NormalizeFits DEF Policies
  <1>2. /\ FirstByte(offset, p) \in Nat /\ FirstByte(offset, p) <= offset
        /\ EndByte(offset, p) \in Nat \ {0} /\ offset < EndByte(offset, p)
    BY <1>1 DEF FirstByte, EndByte, AtLeast
  <1>3. piece \in Nat /\ piece * len <= offset /\ offset < piece * len + len
    BY QuotientBounds
  <1>4. lo \in Nat /\ lo <= piece
    BY <1>2, QuotientBounds, QuotientMonotone
  <1>5. piece < total
    <2> SUFFICES ASSUME total <= piece PROVE FALSE
      BY <1>3
    <2>1. total * len <= piece * len
      BY <1>3
    <2> QED BY <1>3, <2>1
  <1>6. hi \in Nat /\ piece < hi
    <2>1. hi \in Nat \ {0} /\ EndByte(offset, p) <= hi * len
      BY <1>2, CeilBounds
    <2> SUFFICES ASSUME hi <= piece PROVE FALSE
      BY <1>3, <2>1
    <2>2. hi * len <= piece * len
      BY <1>3, <2>1
    <2> HIDE DEF hi, piece
    <2>3. hi * len \in Nat /\ piece * len \in Nat
      BY <1>3, <2>1
    <2> QED BY <1>2, <1>3, <2>1, <2>2, <2>3
  <1>7. first = Clamp(lo, 0, total) /\ end = Clamp(hi, 0, total)
    BY DEF FirstPiece, EndPiece
  <1> HIDE DEF piece, lo, hi, first, end
  <1>8. first <= piece /\ piece < end /\ first \in Nat /\ end \in Nat
    BY <1>3, <1>4, <1>5, <1>6, <1>7 DEF Clamp
  <1>9. RetainedWindow(offset, total, len, raw) = [first |-> first, end |-> end]
    <2>1. RetainedWindow(offset, total, len, raw) = WindowAt(offset, p, total, len)
      BY DEF RetainedWindow, AtLeast
    <2>2. WindowAt(offset, p, total, len) =
            [first |-> first, end |-> IF end <= first THEN AtMost(total, first + 1) ELSE end]
      BY DEF WindowAt, first, end
    <2>3. ~(end <= first)
      BY <1>3, <1>8
    <2> QED BY <2>1, <2>2, <2>3
  <1> QED BY <1>8, <1>9 DEF Contains, piece

\* Whatever the inputs, the window lies in the torrent.
THEOREM WindowInTorrent ==
    ASSUME NEW offset \in Int, NEW total \in Nat, NEW len \in Nat,
           NEW raw \in RawPolicies
    PROVE  LET w == RetainedWindow(offset, total, len, raw)
           IN  w \in Windows /\ w.first <= w.end /\ w.end <= total
  <1>1. CASE total <= 0 \/ len <= 0
    BY <1>1 DEF RetainedWindow, EmptyWindow, Windows
  <1>2. CASE total > 0 /\ len > 0
    <2> DEFINE p == Normalize(raw)
               at == AtLeast(offset, 0)
               lo == FirstByte(at, p) \div len
               hi == CeilDiv(EndByte(at, p), len)
               first == FirstPiece(at, p, total, len)
               end == EndPiece(at, p, total, len)
    <2>1. p \in Policies /\ p.before \in Nat /\ p.after \in Nat /\ at \in Nat
      BY NormalizeFits DEF Policies, AtLeast
    <2>2. FirstByte(at, p) \in Nat /\ EndByte(at, p) \in Nat \ {0}
      BY <2>1 DEF FirstByte, EndByte, AtLeast
    <2>3. lo \in Nat /\ hi \in Nat
      <3>1. len \in Nat \ {0}
        BY <1>2
      <3>2. lo \in Nat
        BY <2>2, <3>1, QuotientBounds
      <3>3. hi \in Nat
        BY <2>2, <3>1, CeilBounds
      <3> QED BY <3>2, <3>3
    <2>4. first = Clamp(lo, 0, total) /\ end = Clamp(hi, 0, total)
      BY DEF FirstPiece, EndPiece
    <2> HIDE DEF lo, hi, first, end
    <2>5. first \in 0 .. total /\ end \in 0 .. total
      BY <2>3, <2>4 DEF Clamp
    <2>6. RetainedWindow(offset, total, len, raw) =
            [first |-> first, end |-> IF end <= first THEN AtMost(total, first + 1) ELSE end]
      BY <1>2 DEF RetainedWindow, WindowAt, first, end
    <2> QED BY <2>5, <2>6 DEF Windows, AtMost
  <1> QED BY <1>1, <1>2

\* A window keeps at most the policy's budget and less than two pieces more, the parts
\* of the pieces at its edges that lie outside it; so a cache can exceed its limit, but
\* by less than two pieces while one reader's window is all it holds.
THEOREM WindowWithinBudget ==
    ASSUME NEW offset \in Nat, NEW total \in Nat \ {0}, NEW len \in Nat \ {0},
           NEW raw \in RawPolicies, offset < total * len
    PROVE  LET w == RetainedWindow(offset, total, len, raw)
           IN  (w.end - w.first) * len < Normalize(raw).max + 2 * len
  <1> DEFINE p == Normalize(raw)
             lo == FirstByte(offset, p) \div len
             hi == CeilDiv(EndByte(offset, p), len)
             first == FirstPiece(offset, p, total, len)
             end == EndPiece(offset, p, total, len)
             w == RetainedWindow(offset, total, len, raw)
  <1>1. /\ p.before \in Nat /\ p.after \in Nat /\ p.max \in Nat \ {0}
        /\ p.before + p.after <= p.max
    BY NormalizeFits DEF Policies
  <1>2. /\ FirstByte(offset, p) \in Nat /\ EndByte(offset, p) \in Nat \ {0}
        /\ EndByte(offset, p) <= FirstByte(offset, p) + p.max + 1
    BY <1>1 DEF FirstByte, EndByte, AtLeast
  <1>3. /\ lo \in Nat /\ lo * len <= FirstByte(offset, p)
        /\ FirstByte(offset, p) < lo * len + len
        /\ hi \in Nat /\ EndByte(offset, p) <= hi * len
        /\ hi * len < EndByte(offset, p) + len
    BY <1>2, QuotientBounds, CeilBounds
  <1>4. first = Clamp(lo, 0, total) /\ end = Clamp(hi, 0, total)
    BY DEF FirstPiece, EndPiece
  <1>5. w = [first |-> first, end |-> IF end <= first THEN AtMost(total, first + 1) ELSE end]
    <2>1. w = WindowAt(offset, p, total, len)
      BY DEF RetainedWindow, AtLeast
    <2> QED BY <2>1 DEF WindowAt
  <1> DEFINE piece == offset \div len
  <1>6. piece \in Nat /\ w.first <= piece /\ piece < w.end
    BY WindowHoldsReader, QuotientBounds DEF Contains
  <1>7. FirstByte(offset, p) < EndByte(offset, p)
    BY <1>1 DEF FirstByte, EndByte, AtLeast
  <1> DEFINE x == FirstByte(offset, p)
             y == EndByte(offset, p)
             m == p.max
             a == lo * len
             b == hi * len
  <1>8. a \in Nat /\ b \in Nat
    BY <1>3
  <1>9. lo < hi
    <2> SUFFICES ASSUME hi <= lo PROVE FALSE
      BY <1>3
    <2>1. hi * len <= lo * len
      BY <1>3
    <2> HIDE DEF lo, hi
    <2> QED BY <1>2, <1>3, <1>7, <1>8, <2>1
  <1> HIDE DEF lo, hi, first, end, w, piece
  <1>10. w.first = lo /\ w.end \in Nat /\ w.end <= hi
    BY <1>3, <1>4, <1>5, <1>6, <1>9 DEF Clamp, AtMost
  <1>11. (hi - lo) * len = b - a
    BY <1>3 DEF a, b
  <1>12. (w.end - w.first) * len <= (hi - lo) * len
    BY <1>3, <1>6, <1>10
  <1>13. b - a < m + 2 * len
    BY <1>1, <1>2, <1>3, <1>8
  <1>14. (w.end - w.first) * len \in Int /\ 2 * len \in Int
    BY <1>3, <1>10
  <1> QED BY <1>1, <1>8, <1>11, <1>12, <1>13, <1>14 DEF w
=============================================================================

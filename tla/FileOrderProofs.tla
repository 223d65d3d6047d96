-------------------------- MODULE FileOrderProofs --------------------------
(***************************************************************************)
(* The order in which the browser lists the files, for every torrent: what *)
(* the code compares step by step, two runs of digits by the zeros, the    *)
(* lengths and the digits they have, is the order of the numbers and the   *)
(* letters a reader sees.                                                  *)
(***************************************************************************)
EXTENDS Data, CachePolicyProofs, FiniteSetTheorems

-----------------------------------------------------------------------------
(* The numbers in a path *)

Paths == Seq(0 .. 255)
Runs == Seq(48 .. 57)

\* The function of NumberUpTo exists: a partial one for every length, up to the whole.
LEMMA NumberIs ==
    ASSUME NEW run \in Runs
    PROVE  \A k \in 0 .. Len(run) :
             NumberUpTo(run)[k] = IF k = 0 THEN 0 ELSE 10 * NumberUpTo(run)[k - 1] + (run[k] - 48)
  <1> DEFINE Grows(f, l) == f = [k \in 0 .. l |-> IF k = 0 THEN 0 ELSE 10 * f[k - 1] + (run[k] - 48)]
             reach == {l \in Nat : \E f : Grows(f, l)}
  <1>1. 0 \in reach
    <2>1. [k \in {0} |-> 0] = [k \in 0 .. 0 |-> IF k = 0 THEN 0
                                 ELSE 10 * [j \in {0} |-> 0][k - 1] + (run[k] - 48)]
      OBVIOUS
    <2> QED BY <2>1
  <1>2. ASSUME NEW l \in Nat, l \in reach PROVE l + 1 \in reach
    <2>1. PICK f : Grows(f, l)
      BY <1>2
    <2> DEFINE g == [k \in 0 .. (l + 1) |-> IF k = l + 1 THEN 10 * f[l] + (run[l + 1] - 48) ELSE f[k]]
    <2>2. \A k \in 0 .. (l + 1) : g[k] = IF k = 0 THEN 0 ELSE 10 * g[k - 1] + (run[k] - 48)
      <3> TAKE k \in 0 .. (l + 1)
      <3>1. CASE k = 0
        BY <2>1, <3>1
      <3>2. CASE k = l + 1
        <4>1. g[k] = 10 * f[l] + (run[l + 1] - 48) /\ g[k - 1] = f[l]
          BY <3>2
        <4> HIDE DEF g
        <4> QED BY <3>2, <4>1
      <3>3. CASE k \in 1 .. l
        <4>1. g[k] = f[k] /\ g[k - 1] = f[k - 1]
          BY <3>3
        <4>2. f[k] = 10 * f[k - 1] + (run[k] - 48)
          BY <2>1, <3>3
        <4> HIDE DEF g
        <4> QED BY <3>3, <4>1, <4>2
      <3> QED BY <3>1, <3>2, <3>3
    <2>3. g = [k \in 0 .. (l + 1) |-> g[k]]
      OBVIOUS
    <2> HIDE DEF g
    <2>4. Grows(g, l + 1)
      BY <2>2, <2>3
    <2> HIDE DEF Grows
    <2> QED BY <2>4
  <1> HIDE DEF Grows
  <1>3. Nat \subseteq reach
    <2>1. \A l \in Nat : l \in reach => l + 1 \in reach
      BY <1>2
    <2> HIDE DEF reach
    <2> QED BY <1>1, <2>1, NaturalsIn
  <1>4. \E f : Grows(f, Len(run))
    BY <1>3 DEF Runs
  <1>5. Grows(NumberUpTo(run), Len(run))
    BY <1>4 DEF Grows, NumberUpTo
  <1> QED BY <1>5 DEF Grows

\* What digits write is a natural number.
LEMMA NumberTyped ==
    ASSUME NEW run \in Runs
    PROVE  \A k \in 0 .. Len(run) : NumberUpTo(run)[k] \in Nat
  <1> DEFINE typed == {k \in Nat : k <= Len(run) => NumberUpTo(run)[k] \in Nat}
  <1>1. Len(run) \in Nat /\ \A k \in 1 .. Len(run) : run[k] \in 48 .. 57
    BY DEF Runs
  <1>2. 0 \in typed
    BY <1>1, NumberIs
  <1>3. \A k \in Nat : k \in typed => k + 1 \in typed
    <2> SUFFICES ASSUME NEW k \in Nat, k \in typed, k + 1 <= Len(run)
                 PROVE  NumberUpTo(run)[k + 1] \in Nat
      OBVIOUS
    <2>1. k \in 0 .. Len(run) /\ k + 1 \in 1 .. Len(run) /\ NumberUpTo(run)[k] \in Nat
      BY <1>1
    <2>2. NumberUpTo(run)[k + 1] = 10 * NumberUpTo(run)[k] + (run[k + 1] - 48)
      BY <1>1, <2>1, NumberIs
    <2>3. run[k + 1] - 48 \in Nat
      BY <1>1, <2>1
    <2> QED BY <2>1, <2>2, <2>3
  <1>4. Nat \subseteq typed
    <2> HIDE DEF typed
    <2> QED BY <1>2, <1>3, NaturalsIn
  <1> QED BY <1>1, <1>4

\* One more digit.
LEMMA NumberStep ==
    ASSUME NEW run \in Runs, NEW k \in 1 .. Len(run)
    PROVE  /\ NumberUpTo(run)[k] \in Nat /\ NumberUpTo(run)[k - 1] \in Nat
           /\ run[k] \in 48 .. 57
           /\ NumberUpTo(run)[k] = 10 * NumberUpTo(run)[k - 1] + (run[k] - 48)
  <1>1. Len(run) \in Nat /\ run[k] \in 48 .. 57 /\ k \in 0 .. Len(run) /\ k - 1 \in 0 .. Len(run) /\ k # 0
    BY DEF Runs
  <1> QED BY <1>1, NumberIs, NumberTyped

\* A number that is ahead stays ahead, whatever digits follow in both.
LEMMA AheadStays ==
    ASSUME NEW left \in Runs, NEW right \in Runs,
           NEW k \in 0 .. Len(left), NEW m \in 0 .. Len(right),
           Len(left) - k = Len(right) - m,
           NumberUpTo(left)[k] < NumberUpTo(right)[m]
    PROVE  Number(left) < Number(right)
  <1> DEFINE A(d) == NumberUpTo(left)[k + d]
             B(d) == NumberUpTo(right)[m + d]
             ahead == {d \in Nat : k + d <= Len(left) => A(d) < B(d)}
  <1>1. Len(left) \in Nat /\ Len(right) \in Nat
    BY DEF Runs
  <1>2. 0 \in ahead
    BY <1>1
  <1>3. \A d \in Nat : d \in ahead => d + 1 \in ahead
    <2> SUFFICES ASSUME NEW d \in Nat, A(d) < B(d), k + (d + 1) <= Len(left)
                 PROVE  A(d + 1) < B(d + 1)
      BY <1>1
    <2>1. k + (d + 1) \in 1 .. Len(left) /\ m + (d + 1) \in 1 .. Len(right)
      BY <1>1
    <2>2. /\ A(d + 1) \in Nat /\ A(d) \in Nat
          /\ A(d + 1) <= 10 * A(d) + 9
      <3> DEFINE i == k + (d + 1)
      <3>1. i \in 1 .. Len(left) /\ i - 1 = k + d
        BY <1>1, <2>1
      <3> HIDE DEF i
      <3>2. /\ NumberUpTo(left)[i] \in Nat /\ NumberUpTo(left)[i - 1] \in Nat
            /\ left[i] \in 48 .. 57
            /\ NumberUpTo(left)[i] = 10 * NumberUpTo(left)[i - 1] + (left[i] - 48)
        BY <3>1, NumberStep
      <3> DEFINE n == NumberUpTo(left)[i]
                  p == NumberUpTo(left)[i - 1]
                  c == left[i]
      <3>4. p = NumberUpTo(left)[k + d]
        BY <3>1
      <3>5. n \in Nat /\ p \in Nat /\ c \in 48 .. 57 /\ n = 10 * p + (c - 48)
        BY <3>2
      <3>6. n \in Nat /\ p \in Nat /\ n <= 10 * p + 9
        <4> HIDE DEF n, p, c
        <4> QED BY <3>5
      <3>3. /\ NumberUpTo(left)[i] \in Nat /\ NumberUpTo(left)[k + d] \in Nat
            /\ NumberUpTo(left)[i] <= 10 * NumberUpTo(left)[k + d] + 9
        BY <3>4, <3>6
      <3> QED BY <3>3 DEF i
    <2>3. /\ B(d + 1) \in Nat /\ B(d) \in Nat
          /\ B(d + 1) >= 10 * B(d)
      <3> DEFINE i == m + (d + 1)
      <3>1. i \in 1 .. Len(right) /\ i - 1 = m + d
        BY <1>1, <2>1
      <3> HIDE DEF i
      <3>2. /\ NumberUpTo(right)[i] \in Nat /\ NumberUpTo(right)[i - 1] \in Nat
            /\ right[i] \in 48 .. 57
            /\ NumberUpTo(right)[i] = 10 * NumberUpTo(right)[i - 1] + (right[i] - 48)
        BY <3>1, NumberStep
      <3> DEFINE n == NumberUpTo(right)[i]
                  p == NumberUpTo(right)[i - 1]
                  c == right[i]
      <3>4. p = NumberUpTo(right)[m + d]
        BY <3>1
      <3>5. n \in Nat /\ p \in Nat /\ c \in 48 .. 57 /\ n = 10 * p + (c - 48)
        BY <3>2
      <3>6. n \in Nat /\ p \in Nat /\ n >= 10 * p
        <4> HIDE DEF n, p, c
        <4> QED BY <3>5
      <3>3. /\ NumberUpTo(right)[i] \in Nat /\ NumberUpTo(right)[m + d] \in Nat
            /\ NumberUpTo(right)[i] >= 10 * NumberUpTo(right)[m + d]
        BY <3>4, <3>6
      <3> QED BY <3>3 DEF i
    <2> HIDE DEF A, B
    <2> QED BY <2>2, <2>3
  <1>4. Nat \subseteq ahead
    <2> HIDE DEF ahead
    <2> QED BY <1>2, <1>3, NaturalsIn
  <1>5. Len(left) - k \in Nat
    BY <1>1
  <1>6. A(Len(left) - k) < B(Len(left) - k)
    <2>1. Len(left) - k \in ahead
      <3> HIDE DEF ahead
      <3> QED BY <1>4, <1>5
    <2>2. k + (Len(left) - k) <= Len(left)
      BY <1>1
    <2> QED BY <2>1, <2>2
  <1>7. k + (Len(left) - k) = Len(left) /\ m + (Len(left) - k) = Len(right)
    BY <1>1
  <1> QED BY <1>6, <1>7 DEF Number

\* What two runs begin with alike gives one number.
LEMMA AlikeSoFar ==
    ASSUME NEW left \in Runs, NEW right \in Runs,
           NEW n \in 0 .. Len(left), n <= Len(right),
           \A i \in 1 .. n : left[i] = right[i]
    PROVE  NumberUpTo(left)[n] = NumberUpTo(right)[n]
  <1> DEFINE alike == {k \in Nat : k <= n => NumberUpTo(left)[k] = NumberUpTo(right)[k]}
  <1>1. Len(left) \in Nat /\ Len(right) \in Nat
    BY DEF Runs
  <1>2. 0 \in alike
    BY <1>1, NumberIs
  <1>3. \A k \in Nat : k \in alike => k + 1 \in alike
    <2> SUFFICES ASSUME NEW k \in Nat, NumberUpTo(left)[k] = NumberUpTo(right)[k], k + 1 <= n
                 PROVE  NumberUpTo(left)[k + 1] = NumberUpTo(right)[k + 1]
      BY <1>1
    <2>1. k + 1 \in 1 .. Len(left) /\ k + 1 \in 1 .. Len(right) /\ left[k + 1] = right[k + 1]
      BY <1>1
    <2>2. (k + 1) - 1 = k
      OBVIOUS
    <2> QED BY <2>1, <2>2, NumberStep
  <1>4. Nat \subseteq alike
    <2> HIDE DEF alike
    <2> QED BY <1>2, <1>3, NaturalsIn
  <1> QED BY <1>1, <1>4

\* What stands from after one position to another.
LEMMA SliceIs ==
    ASSUME NEW C, NEW path \in Seq(C), NEW a \in 0 .. Len(path), NEW n \in 0 .. (Len(path) - a)
    PROVE  /\ SubSeq(path, a + 1, a + n) \in Seq(C)
           /\ Len(SubSeq(path, a + 1, a + n)) = n
           /\ \A i \in 1 .. n : SubSeq(path, a + 1, a + n)[i] = path[a + i]
  <1>1. Len(path) \in Nat /\ a + 1 \in Int /\ a + n \in Int /\ a + n <= Len(path)
    OBVIOUS
  <1>2. \A i \in (a + 1) .. (a + n) : path[i] \in C
    BY <1>1
  <1> DEFINE from == a + 1
             to == a + n
  <1>3. to - from + 1 = n /\ (from <= to <=> n > 0)
    BY <1>1
  <1>4. \A i \in 1 .. n : from + i - 1 = a + i
    BY <1>1
  <1>5. from \in Int /\ to \in Int /\ \A i \in from .. to : path[i] \in C
    BY <1>1, <1>2
  <1> HIDE DEF from, to
  <1>6. /\ SubSeq(path, from, to) \in Seq(C)
        /\ Len(SubSeq(path, from, to)) = IF from <= to THEN to - from + 1 ELSE 0
        /\ \A i \in 1 .. (to - from + 1) : SubSeq(path, from, to)[i] = path[from + i - 1]
    <2>1. SubSeq(path, from, to) \in Seq(C)
      BY <1>5
    <2>2. Len(SubSeq(path, from, to)) = IF from <= to THEN to - from + 1 ELSE 0
      BY <1>5
    <2>3. \A i \in 1 .. (to - from + 1) : SubSeq(path, from, to)[i] = path[from + i - 1]
      BY <1>5
    <2> QED BY <2>1, <2>2, <2>3
  <1>7. Len(SubSeq(path, from, to)) = n
    BY <1>3, <1>6
  <1>8. \A i \in 1 .. n : SubSeq(path, from, to)[i] = path[a + i]
    BY <1>3, <1>4, <1>6
  <1> QED BY <1>6, <1>7, <1>8 DEF from, to

\* What follows the first characters.
LEMMA RestIs ==
    ASSUME NEW C, NEW path \in Seq(C), NEW n \in 0 .. Len(path)
    PROVE  /\ Rest(path, n) \in Seq(C)
           /\ Len(Rest(path, n)) = Len(path) - n
           /\ \A i \in 1 .. (Len(path) - n) : Rest(path, n)[i] = path[n + i]
  <1> DEFINE m == Len(path) - n
  <1>1. m \in 0 .. (Len(path) - n) /\ n + m = Len(path)
    OBVIOUS
  <1> HIDE DEF m
  <1>2. Rest(path, n) = SubSeq(path, n + 1, n + m)
    BY <1>1 DEF Rest
  <1>3. /\ SubSeq(path, n + 1, n + m) \in Seq(C)
        /\ Len(SubSeq(path, n + 1, n + m)) = m
        /\ \A i \in 1 .. m : SubSeq(path, n + 1, n + m)[i] = path[n + i]
    BY <1>1, SliceIs
  <1> QED BY <1>2, <1>3 DEF m

\* The zeros ahead are all there are.
LEMMA ZerosAheadIs ==
    ASSUME NEW run \in Runs
    PROVE  /\ ZerosAhead(run) \in 0 .. Len(run)
           /\ \A i \in 1 .. ZerosAhead(run) : run[i] = 48
           /\ ZerosAhead(run) < Len(run) => run[ZerosAhead(run) + 1] # 48
  <1> DEFINE other == {n \in Nat : n = Len(run) \/ (n < Len(run) /\ run[n + 1] # 48)}
  <1>1. Len(run) \in Nat
    BY DEF Runs
  <1>2. PICK z \in other : \A n \in other : z <= n
    <2>1. other \in SUBSET Nat /\ Len(run) \in other
      BY <1>1
    <2> HIDE DEF other
    <2> QED BY <2>1, LeastNatural
  <1>3. z \in 0 .. Len(run) /\ (z < Len(run) => run[z + 1] # 48)
    BY <1>1, <1>2
  <1>4. \A i \in 1 .. z : run[i] = 48
    <2> SUFFICES ASSUME NEW i \in 1 .. z, run[i] # 48 PROVE FALSE
      OBVIOUS
    <2>1. i - 1 \in Nat /\ i - 1 < Len(run) /\ (i - 1) + 1 = i /\ i - 1 < z
      BY <1>1, <1>3
    <2>2. i - 1 \in other
      BY <2>1
    <2> QED BY <1>1, <1>2, <1>3, <2>1, <2>2
  <1> QED BY <1>3, <1>4 DEF ZerosAhead

\* Zeros ahead do not count.
LEMMA ZerosAreNothing ==
    ASSUME NEW run \in Runs
    PROVE  /\ Rest(run, ZerosAhead(run)) \in Runs
           /\ Number(Rest(run, ZerosAhead(run))) = Number(run)
           /\ Len(Rest(run, ZerosAhead(run))) > 0 => Rest(run, ZerosAhead(run))[1] # 48
  <1> DEFINE z == ZerosAhead(run)
             rest == Rest(run, z)
  <1>1. Len(run) \in Nat /\ z \in 0 .. Len(run) /\ \A i \in 1 .. z : run[i] = 48
    BY ZerosAheadIs DEF Runs
  <1>2. /\ rest \in Runs /\ Len(rest) = Len(run) - z
        /\ \A i \in 1 .. (Len(run) - z) : rest[i] = run[z + i]
    BY <1>1, RestIs DEF Runs
  <1>3. z < Len(run) => run[z + 1] # 48
    BY ZerosAheadIs
  <1> HIDE DEF z, rest
  <1>4. \A k \in Nat : k <= z => NumberUpTo(run)[k] = 0
    <2> DEFINE zero == {k \in Nat : k <= z => NumberUpTo(run)[k] = 0}
    <2>1. 0 \in zero
      BY <1>1, NumberIs
    <2>2. \A k \in Nat : k \in zero => k + 1 \in zero
      <3> SUFFICES ASSUME NEW k \in Nat, NumberUpTo(run)[k] = 0, k + 1 <= z
                   PROVE  NumberUpTo(run)[k + 1] = 0
        BY <1>1
      <3>1. k + 1 \in 1 .. Len(run) /\ (k + 1) - 1 = k /\ run[k + 1] = 48
        BY <1>1
      <3>2. NumberUpTo(run)[k + 1] = 10 * NumberUpTo(run)[(k + 1) - 1] + (run[k + 1] - 48)
        BY <3>1, NumberStep
      <3> QED BY <3>1, <3>2
    <2>3. Nat \subseteq zero
      <3> HIDE DEF zero
      <3> QED BY <2>1, <2>2, NaturalsIn
    <2> QED BY <2>3
  <1>5. \A k \in Nat : k <= Len(rest) => NumberUpTo(rest)[k] = NumberUpTo(run)[z + k]
    <2> DEFINE same == {k \in Nat : k <= Len(rest) => NumberUpTo(rest)[k] = NumberUpTo(run)[z + k]}
    <2>1. 0 \in same
      <3>1. NumberUpTo(rest)[0] = 0
        BY <1>1, <1>2, NumberIs
      <3>2. z + 0 = z /\ NumberUpTo(run)[z] = 0
        BY <1>1, <1>4
      <3> QED BY <3>1, <3>2
    <2>2. \A k \in Nat : k \in same => k + 1 \in same
      <3> SUFFICES ASSUME NEW k \in Nat, NumberUpTo(rest)[k] = NumberUpTo(run)[z + k],
                          k + 1 <= Len(rest)
                   PROVE  NumberUpTo(rest)[k + 1] = NumberUpTo(run)[z + (k + 1)]
        BY <1>1, <1>2
      <3>1. k + 1 \in 1 .. Len(rest) /\ (k + 1) - 1 = k
        BY <1>1, <1>2
      <3>2. z + (k + 1) \in 1 .. Len(run) /\ (z + (k + 1)) - 1 = z + k /\ rest[k + 1] = run[z + (k + 1)]
        BY <1>1, <1>2
      <3>3. NumberUpTo(rest)[k + 1] = 10 * NumberUpTo(rest)[k] + (rest[k + 1] - 48)
        BY <1>2, <3>1, NumberStep
      <3>4. NumberUpTo(run)[z + (k + 1)] = 10 * NumberUpTo(run)[z + k] + (run[z + (k + 1)] - 48)
        <4> DEFINE i == z + (k + 1)
        <4>1. i \in 1 .. Len(run) /\ i - 1 = z + k
          BY <3>2
        <4> HIDE DEF i
        <4>2. NumberUpTo(run)[i] = 10 * NumberUpTo(run)[z + k] + (run[i] - 48)
          BY <4>1, NumberStep
        <4> QED BY <4>2 DEF i
      <3> QED BY <3>2, <3>3, <3>4
    <2>3. Nat \subseteq same
      <3> HIDE DEF same
      <3> QED BY <2>1, <2>2, NaturalsIn
    <2> QED BY <2>3
  <1>6. Number(rest) = Number(run)
    <2>1. Len(rest) \in Nat /\ z + Len(rest) = Len(run)
      BY <1>1, <1>2
    <2> QED BY <1>5, <2>1 DEF Number
  <1>7. Len(rest) > 0 => rest[1] # 48
    BY <1>1, <1>2, <1>3
  <1> QED BY <1>2, <1>6, <1>7 DEF z, rest

\* Of two runs of one length the first difference tells which number is less.
LEMMA DigitsDecide ==
    ASSUME NEW left \in Runs, NEW right \in Runs, Len(left) = Len(right)
    PROVE  \/ CompareDigits(left, right) = 0 /\ Number(left) = Number(right)
           \/ CompareDigits(left, right) = -1 /\ Number(left) < Number(right)
           \/ CompareDigits(left, right) = 1 /\ Number(right) < Number(left)
  <1> DEFINE differ == {i \in DOMAIN left : left[i] # right[i]}
             first == CHOOSE i \in differ : \A j \in differ : i <= j
  <1>1. Len(left) \in Nat /\ DOMAIN left = 1 .. Len(left) /\ Len(left) \in 0 .. Len(left)
    BY DEF Runs
  <1>2. CASE differ = {}
    <2>1. CompareDigits(left, right) = 0
      BY <1>2 DEF CompareDigits
    <2>2. \A i \in 1 .. Len(left) : left[i] = right[i]
      BY <1>1, <1>2
    <2>3. NumberUpTo(left)[Len(left)] = NumberUpTo(right)[Len(left)]
      BY <1>1, <2>2, AlikeSoFar
    <2> QED BY <2>1, <2>3 DEF Number
  <1>3. CASE differ # {}
    <2>1. first \in differ /\ \A j \in differ : first <= j
      <3>1. differ \in SUBSET Nat
        BY <1>1
      <3> HIDE DEF differ
      <3>2. \E i \in differ : \A j \in differ : i <= j
        BY <1>3, <3>1, LeastNatural
      <3> QED BY <3>2
    <2>2. CompareDigits(left, right) = Sign(left[first] - right[first])
      BY <1>3 DEF CompareDigits
    <2> HIDE DEF first
    <2>3. first \in 1 .. Len(left) /\ first \in 1 .. Len(right) /\ left[first] # right[first]
      BY <1>1, <2>1
    <2>4. \A i \in 1 .. (first - 1) : left[i] = right[i]
      BY <1>1, <2>1, <2>3
    <2>5. first - 1 \in 0 .. Len(left) /\ first - 1 <= Len(right)
      BY <1>1, <2>3
    <2>6. NumberUpTo(left)[first - 1] = NumberUpTo(right)[first - 1]
      BY <2>4, <2>5, AlikeSoFar
    <2> DEFINE p == NumberUpTo(left)[first - 1]
               l == left[first]
               r == right[first]
    <2>7. /\ l \in 48 .. 57 /\ p \in Nat /\ NumberUpTo(left)[first] = 10 * p + (l - 48)
          /\ r \in 48 .. 57 /\ NumberUpTo(right)[first] = 10 * p + (r - 48)
      BY <2>3, <2>6, NumberStep
    <2>8. CASE l < r
      <3>1. NumberUpTo(left)[first] < NumberUpTo(right)[first]
        <4> HIDE DEF p, l, r
        <4> QED BY <2>7, <2>8
      <3>2. first \in 0 .. Len(left) /\ first \in 0 .. Len(right) /\ Len(left) - first = Len(right) - first
        BY <1>1, <2>3
      <3>3. Number(left) < Number(right)
        BY <3>1, <3>2, AheadStays
      <3>4. Sign(l - r) = -1
        <4> HIDE DEF l, r
        <4> QED BY <2>7, <2>8 DEF Sign
      <3> QED BY <2>2, <3>3, <3>4
    <2>9. CASE r < l
      <3>1. NumberUpTo(right)[first] < NumberUpTo(left)[first]
        <4> HIDE DEF p, l, r
        <4> QED BY <2>7, <2>9
      <3>2. first \in 0 .. Len(left) /\ first \in 0 .. Len(right) /\ Len(right) - first = Len(left) - first
        BY <1>1, <2>3
      <3>3. Number(right) < Number(left)
        BY <3>1, <3>2, AheadStays
      <3>4. Sign(l - r) = 1
        <4> HIDE DEF l, r
        <4> QED BY <2>7, <2>9 DEF Sign
      <3> QED BY <2>2, <3>3, <3>4
    <2>10. l < r \/ r < l
      BY <2>3, <2>7
    <2> QED BY <2>8, <2>9, <2>10
  <1> QED BY <1>2, <1>3

\* A longer run without a zero ahead is a greater number.
LEMMA LongerIsGreater ==
    ASSUME NEW left \in Runs, NEW right \in Runs, Len(left) < Len(right), right[1] # 48
    PROVE  Number(left) < Number(right)
  <1> DEFINE d == Len(right) - Len(left)
  <1>1. Len(left) \in Nat /\ Len(right) \in Nat /\ d \in 1 .. Len(right) /\ 1 \in 1 .. Len(right)
    BY DEF Runs
  <1> HIDE DEF d
  <1>2. NumberUpTo(right)[1] > 0
    <2>1. NumberUpTo(right)[0] = 0
      BY <1>1, NumberIs
    <2>2. /\ right[1] \in 48 .. 57
          /\ NumberUpTo(right)[1] = 10 * NumberUpTo(right)[1 - 1] + (right[1] - 48)
      BY <1>1, NumberStep
    <2>3. NumberUpTo(right)[1 - 1] = 0
      BY <2>1
    <2> QED BY <2>2, <2>3
  <1>3. NumberUpTo(right)[d] > 0
    <2> DEFINE some == {k \in Nat : k + 1 <= Len(right) => NumberUpTo(right)[k + 1] > 0}
    <2>1. 0 \in some
      BY <1>2
    <2>2. \A k \in Nat : k \in some => k + 1 \in some
      <3> SUFFICES ASSUME NEW k \in Nat, NumberUpTo(right)[k + 1] > 0, (k + 1) + 1 <= Len(right)
                   PROVE  NumberUpTo(right)[(k + 1) + 1] > 0
        BY <1>1
      <3> DEFINE i == (k + 1) + 1
      <3>1. i \in 1 .. Len(right) /\ i - 1 = k + 1
        BY <1>1
      <3> HIDE DEF i
      <3>2. /\ NumberUpTo(right)[i - 1] \in Nat /\ right[i] \in 48 .. 57
            /\ NumberUpTo(right)[i] = 10 * NumberUpTo(right)[i - 1] + (right[i] - 48)
        BY <3>1, NumberStep
      <3>3. NumberUpTo(right)[i - 1] > 0
        BY <3>1
      <3>4. NumberUpTo(right)[i] > 0
        <4> DEFINE n == NumberUpTo(right)[i]
                   p == NumberUpTo(right)[i - 1]
                   c == right[i]
        <4>1. p \in Nat /\ p > 0 /\ c \in 48 .. 57 /\ n = 10 * p + (c - 48)
          BY <3>2, <3>3
        <4>2. n > 0
          <5> HIDE DEF n, p, c
          <5> QED BY <4>1
        <4> QED BY <4>2
      <3> QED BY <3>4 DEF i
    <2>3. Nat \subseteq some
      <3> HIDE DEF some
      <3> QED BY <2>1, <2>2, NaturalsIn
    <2>4. d - 1 \in Nat /\ (d - 1) + 1 = d
      BY <1>1
    <2> QED BY <1>1, <2>3, <2>4
  <1>4. NumberUpTo(left)[0] = 0
    BY <1>1, NumberIs
  <1>5. 0 \in 0 .. Len(left) /\ d \in 0 .. Len(right) /\ Len(left) - 0 = Len(right) - d
    BY <1>1 DEF d
  <1>6. NumberUpTo(left)[0] < NumberUpTo(right)[d]
    BY <1>3, <1>4
  <1> QED BY <1>5, <1>6, AheadStays

\* CompareRuns puts two runs of digits in the order of their numbers, and one number in
\* the order of the digits it is written with (torrent_service.cpp:311-350).
LEMMA RunsCompare ==
    ASSUME NEW left \in Runs, NEW right \in Runs
    PROVE  \/ /\ CompareRuns(left, right) = 0
              /\ Number(left) = Number(right) /\ Len(left) = Len(right)
           \/ /\ CompareRuns(left, right) = -1
              /\ \/ Number(left) < Number(right)
                 \/ Number(left) = Number(right) /\ Len(left) < Len(right)
           \/ /\ CompareRuns(left, right) = 1
              /\ \/ Number(right) < Number(left)
                 \/ Number(left) = Number(right) /\ Len(right) < Len(left)
  <1> DEFINE l == Rest(left, ZerosAhead(left))
             r == Rest(right, ZerosAhead(right))
  <1>1. /\ l \in Runs /\ Number(l) = Number(left) /\ (Len(l) > 0 => l[1] # 48)
        /\ r \in Runs /\ Number(r) = Number(right) /\ (Len(r) > 0 => r[1] # 48)
    BY ZerosAreNothing
  <1>2. Len(l) \in Nat /\ Len(r) \in Nat /\ Len(left) \in Nat /\ Len(right) \in Nat
    BY <1>1 DEF Runs
  <1>3. CompareRuns(left, right) =
          IF Len(l) # Len(r) THEN Sign(Len(l) - Len(r))
          ELSE IF CompareDigits(l, r) # 0 THEN CompareDigits(l, r)
          ELSE Sign(Len(left) - Len(right))
    BY DEF CompareRuns
  <1> HIDE DEF l, r
  <1>4. CASE Len(l) < Len(r)
    <2>1. Number(l) < Number(r)
      BY <1>1, <1>2, <1>4, LongerIsGreater
    <2>2. CompareRuns(left, right) = -1
      BY <1>2, <1>3, <1>4 DEF Sign
    <2> QED BY <1>1, <2>1, <2>2
  <1>5. CASE Len(r) < Len(l)
    <2>1. Number(r) < Number(l)
      BY <1>1, <1>2, <1>5, LongerIsGreater
    <2>2. CompareRuns(left, right) = 1
      BY <1>2, <1>3, <1>5 DEF Sign
    <2> QED BY <1>1, <2>1, <2>2
  <1>6. CASE Len(l) = Len(r)
    <2>1. \/ CompareDigits(l, r) = 0 /\ Number(l) = Number(r)
          \/ CompareDigits(l, r) = -1 /\ Number(l) < Number(r)
          \/ CompareDigits(l, r) = 1 /\ Number(r) < Number(l)
      BY <1>1, <1>6, DigitsDecide
    <2>2. \/ Sign(Len(left) - Len(right)) = 0 /\ Len(left) = Len(right)
          \/ Sign(Len(left) - Len(right)) = -1 /\ Len(left) < Len(right)
          \/ Sign(Len(left) - Len(right)) = 1 /\ Len(right) < Len(left)
      BY <1>2 DEF Sign
    <2> QED BY <1>1, <1>3, <1>6, <2>1, <2>2
  <1> QED BY <1>2, <1>4, <1>5, <1>6

-----------------------------------------------------------------------------
(* The signs of a path *)

SignSet == [letter : Int, number : Nat, digits : Nat]

\* Position i stands between two digits of one number.
Inside(path, i) == i >= 1 /\ i < Len(path) /\ IsDigit(path[i]) /\ IsDigit(path[i + 1])

\* The digits ahead are all there are.
LEMMA DigitsAheadIs ==
    ASSUME NEW path \in Paths
    PROVE  /\ DigitsAhead(path) \in 0 .. Len(path)
           /\ \A i \in 1 .. DigitsAhead(path) : IsDigit(path[i])
           /\ DigitsAhead(path) < Len(path) => ~IsDigit(path[DigitsAhead(path) + 1])
  <1> DEFINE other == {n \in Nat : n = Len(path) \/ (n < Len(path) /\ ~IsDigit(path[n + 1]))}
  <1>1. Len(path) \in Nat
    BY DEF Paths
  <1>2. PICK z \in other : \A n \in other : z <= n
    <2>1. other \in SUBSET Nat /\ Len(path) \in other
      BY <1>1
    <2> HIDE DEF other
    <2> QED BY <2>1, LeastNatural
  <1>3. z \in 0 .. Len(path) /\ (z < Len(path) => ~IsDigit(path[z + 1]))
    BY <1>1, <1>2
  <1>4. \A i \in 1 .. z : IsDigit(path[i])
    <2> SUFFICES ASSUME NEW i \in 1 .. z, ~IsDigit(path[i]) PROVE FALSE
      OBVIOUS
    <2>1. i - 1 \in Nat /\ i - 1 < Len(path) /\ (i - 1) + 1 = i /\ i - 1 < z
      BY <1>1, <1>3
    <2>2. i - 1 \in other
      BY <2>1
    <2> QED BY <1>1, <1>2, <1>3, <2>1, <2>2
  <1> QED BY <1>3, <1>4 DEF DigitsAhead

\* The digits from a position on are all there are.
LEMMA RunAtIs ==
    ASSUME NEW path \in Paths, NEW i \in 0 .. Len(path)
    PROVE  /\ RunAt(path, i) \in Runs
           /\ Len(RunAt(path, i)) \in 0 .. (Len(path) - i)
           /\ RunAt(path, i) = SubSeq(path, i + 1, i + Len(RunAt(path, i)))
           /\ \A k \in (i + 1) .. (i + Len(RunAt(path, i))) : IsDigit(path[k])
           /\ i + Len(RunAt(path, i)) < Len(path) => ~IsDigit(path[i + Len(RunAt(path, i)) + 1])
  <1> DEFINE rest == Rest(path, i)
             n == DigitsAhead(rest)
  <1>1. Len(path) \in Nat
    BY DEF Paths
  <1>2. /\ rest \in Paths /\ Len(rest) = Len(path) - i
        /\ \A k \in 1 .. (Len(path) - i) : rest[k] = path[i + k]
    BY RestIs DEF Paths
  <1>3. n \in 0 .. Len(rest) /\ (\A k \in 1 .. n : IsDigit(rest[k])) /\ (n < Len(rest) => ~IsDigit(rest[n + 1]))
    BY <1>2, DigitsAheadIs
  <1>4. RunAt(path, i) = SubSeq(path, i + 1, i + n)
    BY DEF RunAt
  <1> HIDE DEF n, rest
  <1>5. n \in 0 .. (Len(path) - i)
    BY <1>2, <1>3
  <1>6. /\ RunAt(path, i) \in Seq(0 .. 255) /\ Len(RunAt(path, i)) = n
        /\ \A k \in 1 .. n : RunAt(path, i)[k] = path[i + k]
    <2>1. path \in Seq(0 .. 255)
      BY DEF Paths
    <2>2. /\ SubSeq(path, i + 1, i + n) \in Seq(0 .. 255)
          /\ Len(SubSeq(path, i + 1, i + n)) = n
          /\ \A k \in 1 .. n : SubSeq(path, i + 1, i + n)[k] = path[i + k]
      BY <1>5, <2>1, SliceIs
    <2> QED BY <1>4, <2>2
  <1>7. \A k \in (i + 1) .. (i + n) : IsDigit(path[k])
    <2> TAKE k \in (i + 1) .. (i + n)
    <2>1. k - i \in 1 .. n /\ k - i \in 1 .. (Len(path) - i) /\ i + (k - i) = k
      BY <1>1, <1>5
    <2> QED BY <1>2, <1>3, <2>1
  <1>8. i + n < Len(path) => ~IsDigit(path[i + n + 1])
    <2> SUFFICES ASSUME i + n < Len(path) PROVE ~IsDigit(path[i + n + 1])
      OBVIOUS
    <2>1. n + 1 \in 1 .. (Len(path) - i) /\ i + (n + 1) = i + n + 1 /\ n < Len(rest)
      BY <1>1, <1>2, <1>5
    <2> QED BY <1>2, <1>3, <2>1
  <1>9. RunAt(path, i) \in Runs
    <2>1. \A k \in 1 .. n : RunAt(path, i)[k] \in 48 .. 57
      <3> TAKE k \in 1 .. n
      <3>1. i + k \in (i + 1) .. (i + n)
        BY <1>1, <1>5
      <3> QED BY <1>6, <1>7, <3>1 DEF IsDigit
    <2> QED BY <1>5, <1>6, <2>1 DEF Runs
  <1> QED BY <1>4, <1>5, <1>6, <1>7, <1>8, <1>9

\* What a path shows at a position that is not inside a number.
LEMMA SignIs ==
    ASSUME NEW path \in Paths, NEW i \in 0 .. (Len(path) - 1), ~Inside(path, i)
    PROVE  /\ ~IsDigit(path[i + 1]) =>
                 Signs(path)[i + 1] = [letter |-> Folded(path[i + 1]), number |-> 0, digits |-> 0]
           /\ IsDigit(path[i + 1]) =>
                 LET run == RunAt(path, i)
                 IN  /\ Len(run) > 0
                     /\ Signs(path)[i + 1] = [letter |-> 48, number |-> Number(run), digits |-> Len(run)]
                     /\ \A k \in (i + 2) .. (i + Len(run)) :
                            Signs(path)[k] = [letter |-> 48, number |-> 0, digits |-> 0]
  <1> DEFINE run == RunAt(path, i)
             n == Len(run)
  <1>1. Len(path) \in Nat /\ DOMAIN path = 1 .. Len(path) /\ i + 1 \in 1 .. Len(path) /\ i \in 0 .. Len(path)
    BY DEF Paths
  <1>2. /\ n \in 0 .. (Len(path) - i) /\ run = SubSeq(path, i + 1, i + n)
        /\ \A k \in (i + 1) .. (i + n) : IsDigit(path[k])
        /\ i + n < Len(path) => ~IsDigit(path[i + n + 1])
    BY <1>1, RunAtIs
  <1>3. ~(i + 1 > 1 /\ IsDigit(path[(i + 1) - 1])) \/ ~IsDigit(path[i + 1])
    <2>1. (i + 1) - 1 = i
      BY <1>1
    <2> QED BY <1>1, <2>1 DEF Inside
  <1> HIDE DEF run, n
  <1>4. ASSUME ~IsDigit(path[i + 1])
        PROVE  Signs(path)[i + 1] = [letter |-> Folded(path[i + 1]), number |-> 0, digits |-> 0]
    BY <1>1, <1>4 DEF Signs
  <1>5. ASSUME IsDigit(path[i + 1])
        PROVE  /\ n > 0
               /\ Signs(path)[i + 1] = [letter |-> 48, number |-> Number(run), digits |-> n]
               /\ \A k \in (i + 2) .. (i + n) : Signs(path)[k] = [letter |-> 48, number |-> 0, digits |-> 0]
    <2>1. n > 0
      <3> SUFFICES ASSUME n = 0 PROVE FALSE
        BY <1>2
      <3>1. i + n + 1 = i + 1 /\ i + n < Len(path)
        BY <1>1
      <3> QED BY <1>2, <1>5, <3>1
    <2>2. EndOfNumber(path, i + 1) = i + n
      <3> DEFINE Ends(j) == /\ \A k \in (i + 1) .. j : IsDigit(path[k])
                            /\ j < Len(path) => ~IsDigit(path[j + 1])
      <3>1. i + n \in (i + 1) .. Len(path) /\ Ends(i + n)
        BY <1>1, <1>2, <2>1
      <3>2. ASSUME NEW j \in (i + 1) .. Len(path), Ends(j), j < i + n PROVE FALSE
        <4>1. j + 1 \in (i + 1) .. (i + n) /\ j < Len(path)
          BY <1>1, <1>2, <3>2
        <4> QED BY <1>2, <3>2, <4>1
      <3>3. ASSUME NEW j \in (i + 1) .. Len(path), Ends(j), i + n < j PROVE FALSE
        <4>1. i + n + 1 \in (i + 1) .. j /\ i + n < Len(path)
          BY <1>1, <1>2, <3>3
        <4> QED BY <1>2, <3>3, <4>1
      <3>4. \A j \in (i + 1) .. Len(path) : Ends(j) => j = i + n
        BY <1>1, <1>2, <3>2, <3>3
      <3>5. EndOfNumber(path, i + 1) = CHOOSE j \in (i + 1) .. Len(path) : Ends(j)
        BY DEF EndOfNumber
      <3> HIDE DEF Ends
      <3> QED BY <3>1, <3>4, <3>5
    <2>3. Signs(path)[i + 1] = [letter |-> 48, number |-> Number(run), digits |-> n]
      <3>1. SubSeq(path, i + 1, EndOfNumber(path, i + 1)) = run
        BY <1>2, <2>2
      <3>2. Signs(path)[i + 1] = [letter |-> 48,
                 number |-> Number(SubSeq(path, i + 1, EndOfNumber(path, i + 1))),
                 digits |-> Len(SubSeq(path, i + 1, EndOfNumber(path, i + 1)))]
        BY <1>1, <1>3, <1>5 DEF Signs
      <3> QED BY <3>1, <3>2 DEF n
    <2>4. ASSUME NEW k \in (i + 2) .. (i + n)
          PROVE  Signs(path)[k] = [letter |-> 48, number |-> 0, digits |-> 0]
      <3>1. k \in (i + 1) .. (i + n) /\ k - 1 \in (i + 1) .. (i + n) /\ k > 1 /\ k \in 1 .. Len(path)
        BY <1>1, <1>2, <2>4
      <3>2. IsDigit(path[k]) /\ IsDigit(path[k - 1])
        BY <1>2, <3>1
      <3> QED BY <1>1, <3>1, <3>2 DEF Signs
    <2> QED BY <2>1, <2>3, <2>4
  <1> QED BY <1>4, <1>5 DEF run, n

\* The bytes of a path, and how they fold.
LEMMA BytesOfPath ==
    ASSUME NEW path \in Paths, NEW j \in 1 .. Len(path)
    PROVE  path[j] \in 0 .. 255 /\ Folded(path[j]) \in Int
  <1> DEFINE B == 0 .. 255
  <1>1. path \in Seq(B)
    BY DEF Paths
  <1>2. path[j] \in B
    <2> HIDE DEF B
    <2> QED BY <1>1
  <1> DEFINE c == path[j]
  <1>3. c \in 0 .. 255
    BY <1>2
  <1> HIDE DEF c
  <1>4. Folded(c) \in Int
    BY <1>3 DEF Folded
  <1> QED BY <1>3, <1>4 DEF c

\* A path has a sign for each byte.
LEMMA SignsTyped ==
    ASSUME NEW path \in Paths
    PROVE  Signs(path) \in Seq(SignSet) /\ Len(Signs(path)) = Len(path)
  <1>1. Len(path) \in Nat /\ DOMAIN path = 1 .. Len(path)
    BY DEF Paths
  <1>2. ASSUME NEW j \in 1 .. Len(path) PROVE Signs(path)[j] \in SignSet
    <2> DEFINE i == j - 1
    <2>1. i \in 0 .. (Len(path) - 1) /\ i + 1 = j /\ i \in 0 .. Len(path)
      BY <1>1
    <2> HIDE DEF i
    <2>2. CASE Inside(path, i)
      <3>1. IsDigit(path[j]) /\ IsDigit(path[j - 1]) /\ j > 1
        BY <1>1, <2>1, <2>2 DEF Inside
      <3>2. Signs(path)[j] = [letter |-> 48, number |-> 0, digits |-> 0]
        BY <1>1, <3>1 DEF Signs
      <3> QED BY <3>2 DEF SignSet
    <2>3. CASE ~Inside(path, i) /\ ~IsDigit(path[j])
      <3>1. Signs(path)[j] = [letter |-> Folded(path[j]), number |-> 0, digits |-> 0]
        BY <2>1, <2>3, SignIs
      <3>2. Folded(path[j]) \in Int
        BY BytesOfPath
      <3> QED BY <3>1, <3>2 DEF SignSet
    <2>4. CASE ~Inside(path, i) /\ IsDigit(path[j])
      <3>1. Signs(path)[j] = [letter |-> 48, number |-> Number(RunAt(path, i)), digits |-> Len(RunAt(path, i))]
        BY <2>1, <2>4, SignIs
      <3>2. RunAt(path, i) \in Runs
        BY <2>1, RunAtIs
      <3>3. Len(RunAt(path, i)) \in 0 .. Len(RunAt(path, i)) /\ Len(RunAt(path, i)) \in Nat
        BY <3>2 DEF Runs
      <3>4. Number(RunAt(path, i)) \in Nat
        BY <3>2, <3>3, NumberTyped DEF Number
      <3> QED BY <3>1, <3>3, <3>4 DEF SignSet
    <2> QED BY <2>2, <2>3, <2>4
  <1>3. Signs(path) = [j \in 1 .. Len(path) |-> Signs(path)[j]]
    BY <1>1 DEF Signs
  <1> QED BY <1>1, <1>2, <1>3

\* What one step of the loop decides is the order of the two signs.
LEMMA OrderIs ==
    ASSUME NEW left \in Paths, NEW right \in Paths, NEW i \in Nat,
           i < Len(left), i < Len(right), ~Inside(left, i), ~Inside(right, i)
    PROVE  LET s == Signs(left)[i + 1]
               t == Signs(right)[i + 1]
           IN  \/ OrderAt(left, right, i) = 0 /\ s = t
               \/ OrderAt(left, right, i) = -1 /\ LessSign(s, t)
               \/ OrderAt(left, right, i) = 1 /\ LessSign(t, s)
  <1> DEFINE s == Signs(left)[i + 1]
             t == Signs(right)[i + 1]
             c == left[i + 1]
             d == right[i + 1]
  <1>1. /\ Len(left) \in Nat /\ i + 1 \in 1 .. Len(left) /\ i \in 0 .. (Len(left) - 1) /\ i \in 0 .. Len(left)
        /\ Len(right) \in Nat /\ i + 1 \in 1 .. Len(right) /\ i \in 0 .. (Len(right) - 1) /\ i \in 0 .. Len(right)
    BY DEF Paths
  <1>2. c \in 0 .. 255 /\ d \in 0 .. 255
    BY <1>1, BytesOfPath
  <1>3. /\ ~IsDigit(c) => s = [letter |-> Folded(c), number |-> 0, digits |-> 0]
        /\ IsDigit(c) => s = [letter |-> 48, number |-> Number(RunAt(left, i)), digits |-> Len(RunAt(left, i))]
    BY <1>1, SignIs
  <1>4. /\ ~IsDigit(d) => t = [letter |-> Folded(d), number |-> 0, digits |-> 0]
        /\ IsDigit(d) => t = [letter |-> 48, number |-> Number(RunAt(right, i)), digits |-> Len(RunAt(right, i))]
    BY <1>1, SignIs
  <1>5. OrderAt(left, right, i) =
           IF IsDigit(c) /\ IsDigit(d) THEN CompareRuns(RunAt(left, i), RunAt(right, i))
           ELSE Sign(Folded(c) - Folded(d))
    BY DEF OrderAt, BothDigits
  <1> HIDE DEF s, t, c, d
  <1>6. CASE IsDigit(c) /\ IsDigit(d)
    <2> DEFINE l == RunAt(left, i)
               r == RunAt(right, i)
    <2>1. l \in Runs /\ r \in Runs
      BY <1>1, RunAtIs
    <2> HIDE DEF l, r
    <2>2. \/ /\ CompareRuns(l, r) = 0
             /\ Number(l) = Number(r) /\ Len(l) = Len(r)
          \/ /\ CompareRuns(l, r) = -1
             /\ \/ Number(l) < Number(r)
                \/ Number(l) = Number(r) /\ Len(l) < Len(r)
          \/ /\ CompareRuns(l, r) = 1
             /\ \/ Number(r) < Number(l)
                \/ Number(l) = Number(r) /\ Len(r) < Len(l)
      BY <2>1, RunsCompare
    <2>3. /\ OrderAt(left, right, i) = CompareRuns(l, r)
          /\ s = [letter |-> 48, number |-> Number(l), digits |-> Len(l)]
          /\ t = [letter |-> 48, number |-> Number(r), digits |-> Len(r)]
      BY <1>3, <1>4, <1>5, <1>6 DEF l, r
    <2>4. CASE CompareRuns(l, r) = 0 /\ Number(l) = Number(r) /\ Len(l) = Len(r)
      BY <2>3, <2>4 DEF s, t
    <2>5. CASE /\ CompareRuns(l, r) = -1
               /\ Number(l) < Number(r) \/ (Number(l) = Number(r) /\ Len(l) < Len(r))
      <3>1. LessSign(s, t)
        BY <2>3, <2>5 DEF LessSign
      <3> QED BY <2>3, <2>5, <3>1 DEF s, t
    <2>6. CASE /\ CompareRuns(l, r) = 1
               /\ Number(r) < Number(l) \/ (Number(l) = Number(r) /\ Len(r) < Len(l))
      <3>1. LessSign(t, s)
        BY <2>3, <2>6 DEF LessSign
      <3> QED BY <2>3, <2>6, <3>1 DEF s, t
    <2> QED BY <2>2, <2>4, <2>5, <2>6
  <1>7. CASE ~(IsDigit(c) /\ IsDigit(d))
    <2>1. OrderAt(left, right, i) = Sign(Folded(c) - Folded(d))
      BY <1>5, <1>7
    <2>2. /\ s.letter = IF IsDigit(c) THEN 48 ELSE Folded(c)
          /\ t.letter = IF IsDigit(d) THEN 48 ELSE Folded(d)
      BY <1>3, <1>4
    <2>3. CASE Folded(c) < Folded(d)
      <3>1. s.letter < t.letter /\ Sign(Folded(c) - Folded(d)) = -1
        BY <1>2, <1>7, <2>2, <2>3 DEF Folded, IsDigit, Sign
      <3> QED BY <2>1, <3>1 DEF LessSign, s, t
    <2>4. CASE Folded(d) < Folded(c)
      <3>1. t.letter < s.letter /\ Sign(Folded(c) - Folded(d)) = 1
        BY <1>2, <1>7, <2>2, <2>4 DEF Folded, IsDigit, Sign
      <3> QED BY <2>1, <3>1 DEF LessSign, s, t
    <2>5. CASE Folded(c) = Folded(d)
      <3>1. ~IsDigit(c) /\ ~IsDigit(d) /\ Sign(Folded(c) - Folded(d)) = 0
        BY <1>2, <1>7, <2>5 DEF Folded, IsDigit, Sign
      <3> QED BY <1>3, <1>4, <2>1, <2>5, <3>1 DEF s, t
    <2>6. Folded(c) \in Int /\ Folded(d) \in Int
      BY <1>2 DEF Folded
    <2> QED BY <2>3, <2>4, <2>5, <2>6
  <1> QED BY <1>6, <1>7

\* The order of signs is strict and total.
LEMMA LessSignOrders ==
    /\ \A a \in SignSet : ~LessSign(a, a)
    /\ \A a, b, c \in SignSet : LessSign(a, b) /\ LessSign(b, c) => LessSign(a, c)
    /\ \A a, b \in SignSet : LessSign(a, b) \/ LessSign(b, a) \/ a = b
  <1>1. \A a \in SignSet : ~LessSign(a, a)
    BY DEF LessSign, SignSet
  <1>2. \A a, b, c \in SignSet : LessSign(a, b) /\ LessSign(b, c) => LessSign(a, c)
    BY DEF LessSign, SignSet
  <1>3. ASSUME NEW a \in SignSet, NEW b \in SignSet PROVE LessSign(a, b) \/ LessSign(b, a) \/ a = b
    <2>1. /\ a.letter \in Int /\ a.number \in Nat /\ a.digits \in Nat
          /\ b.letter \in Int /\ b.number \in Nat /\ b.digits \in Nat
      BY DEF SignSet
    <2>2. a.letter = b.letter /\ a.number = b.number /\ a.digits = b.digits => a = b
      BY DEF SignSet
    <2> QED BY <2>1, <2>2 DEF LessSign
  <1> QED BY <1>1, <1>2, <1>3

\* No path stands before itself in the dictionary.
LEMMA ComesIrreflexive ==
    ASSUME NEW s \in Seq(SignSet)
    PROVE  ~Comes(s, s)
  <1> SUFFICES ASSUME NEW k \in 1 .. Len(s), k > Len(s) \/ LessSign(s[k], s[k]) PROVE FALSE
    BY DEF Comes
  <1>1. Len(s) \in Nat /\ s[k] \in SignSet
    OBVIOUS
  <1> QED BY <1>1, LessSignOrders

\* Nor does the dictionary go round.
LEMMA ComesTransitive ==
    ASSUME NEW s \in Seq(SignSet), NEW t \in Seq(SignSet), NEW u \in Seq(SignSet),
           Comes(s, t), Comes(t, u)
    PROVE  Comes(s, u)
  <1>1. Len(s) \in Nat /\ Len(t) \in Nat /\ Len(u) \in Nat
    OBVIOUS
  <1>2. PICK k \in 1 .. Len(t) : /\ \A i \in 1 .. (k - 1) : i <= Len(s) /\ s[i] = t[i]
                                 /\ k > Len(s) \/ LessSign(s[k], t[k])
    BY DEF Comes
  <1>3. PICK m \in 1 .. Len(u) : /\ \A i \in 1 .. (m - 1) : i <= Len(t) /\ t[i] = u[i]
                                 /\ m > Len(t) \/ LessSign(t[m], u[m])
    BY DEF Comes
  <1>4. CASE k < m
    <2>1. k \in 1 .. Len(u) /\ k \in 1 .. (m - 1) /\ t[k] = u[k]
      BY <1>1, <1>3, <1>4
    <2>2. \A i \in 1 .. (k - 1) : i <= Len(s) /\ s[i] = u[i]
      <3> TAKE i \in 1 .. (k - 1)
      <3>1. i \in 1 .. (m - 1)
        BY <1>1, <1>4
      <3> QED BY <1>2, <1>3, <3>1
    <2>3. k > Len(s) \/ LessSign(s[k], u[k])
      BY <1>2, <2>1
    <2> QED BY <2>1, <2>2, <2>3 DEF Comes
  <1>5. CASE m < k
    <2>1. m \in 1 .. (k - 1) /\ m <= Len(s) /\ s[m] = t[m] /\ ~(m > Len(t))
      BY <1>1, <1>2, <1>5
    <2>2. LessSign(s[m], u[m])
      BY <1>3, <2>1
    <2>3. \A i \in 1 .. (m - 1) : i <= Len(s) /\ s[i] = u[i]
      <3> TAKE i \in 1 .. (m - 1)
      <3>1. i \in 1 .. (k - 1)
        BY <1>1, <1>5
      <3> QED BY <1>2, <1>3, <3>1
    <2> QED BY <2>2, <2>3 DEF Comes
  <1>6. CASE k = m
    <2>1. LessSign(t[k], u[k])
      BY <1>1, <1>3, <1>6
    <2>2. \A i \in 1 .. (k - 1) : i <= Len(s) /\ s[i] = u[i]
      BY <1>2, <1>3, <1>6
    <2>3. k > Len(s) \/ LessSign(s[k], u[k])
      <3> SUFFICES ASSUME ~(k > Len(s)) PROVE LessSign(s[k], u[k])
        OBVIOUS
      <3>1. LessSign(s[k], t[k]) /\ k \in 1 .. Len(s) /\ k \in 1 .. Len(u)
        BY <1>1, <1>2, <1>6
      <3>2. s[k] \in SignSet /\ t[k] \in SignSet /\ u[k] \in SignSet
        BY <3>1
      <3> QED BY <2>1, <3>1, <3>2, LessSignOrders
    <2> QED BY <1>6, <2>2, <2>3 DEF Comes
  <1> QED BY <1>1, <1>4, <1>5, <1>6

\* Of two different paths one stands before the other.
LEMMA ComesTotal ==
    ASSUME NEW s \in Seq(SignSet), NEW t \in Seq(SignSet), s # t
    PROVE  Comes(s, t) \/ Comes(t, s)
  <1> DEFINE apart == {k \in Nat : k >= 1 /\ (k > Len(s) \/ k > Len(t) \/ s[k] # t[k])}
  <1>1. Len(s) \in Nat /\ Len(t) \in Nat
    OBVIOUS
  <1>2. PICK k \in apart : \A i \in apart : k <= i
    <2>1. apart \in SUBSET Nat /\ Len(s) + 1 \in apart
      BY <1>1
    <2> HIDE DEF apart
    <2> QED BY <2>1, LeastNatural
  <1>3. \A i \in 1 .. (k - 1) : i <= Len(s) /\ i <= Len(t) /\ s[i] = t[i]
    <2> TAKE i \in 1 .. (k - 1)
    <2>1. i \in Nat /\ i >= 1 /\ ~(k <= i)
      OBVIOUS
    <2>2. i \notin apart
      BY <1>2, <2>1
    <2> QED BY <1>1, <2>1, <2>2
  <1>4. k \in Nat /\ k >= 1 /\ (k > Len(s) \/ k > Len(t) \/ s[k] # t[k])
    BY <1>2
  <1> HIDE DEF apart
  <1>5. CASE k > Len(s) /\ k > Len(t)
    <2>1. Len(s) <= k - 1 /\ Len(t) <= k - 1 /\ (k - 1 >= 1 => k - 1 \in 1 .. (k - 1))
      BY <1>1, <1>4, <1>5
    <2>2. Len(s) = k - 1 /\ Len(t) = k - 1
      BY <1>1, <1>3, <1>4, <2>1
    <2>3. \A i \in 1 .. Len(s) : s[i] = t[i]
      BY <1>3, <2>2
    <2>4. s = t
      BY <2>2, <2>3
    <2> QED BY <2>4
  <1>6. CASE k > Len(s) /\ ~(k > Len(t))
    <2>1. k \in 1 .. Len(t)
      BY <1>1, <1>4, <1>6
    <2> QED BY <1>3, <1>6, <2>1 DEF Comes
  <1>7. CASE ~(k > Len(s)) /\ k > Len(t)
    <2>1. k \in 1 .. Len(s)
      BY <1>1, <1>4, <1>7
    <2>2. \A i \in 1 .. (k - 1) : i <= Len(t) /\ t[i] = s[i]
      BY <1>3
    <2> QED BY <1>7, <2>1, <2>2 DEF Comes
  <1>8. CASE ~(k > Len(s)) /\ ~(k > Len(t))
    <2>1. k \in 1 .. Len(s) /\ k \in 1 .. Len(t) /\ s[k] # t[k]
      BY <1>1, <1>4, <1>8
    <2>2. s[k] \in SignSet /\ t[k] \in SignSet
      BY <2>1
    <2>3. LessSign(s[k], t[k]) \/ LessSign(t[k], s[k])
      BY <2>1, <2>2, LessSignOrders
    <2>4. \A i \in 1 .. (k - 1) : i <= Len(t) /\ t[i] = s[i]
      BY <1>3
    <2> QED BY <1>3, <2>1, <2>3, <2>4 DEF Comes
  <1> QED BY <1>5, <1>6, <1>7, <1>8

-----------------------------------------------------------------------------
(* The comparison of two paths *)

\* A step of the loop goes forward and not beyond the end.
LEMMA AfterIs ==
    ASSUME NEW left \in Paths, NEW right \in Paths, NEW i \in Nat, i < Len(left), i < Len(right)
    PROVE  After(left, right, i) \in (i + 1) .. Len(left)
  <1> DEFINE n == Len(RunAt(left, i))
  <1>1. Len(left) \in Nat /\ i \in 0 .. Len(left)
    BY DEF Paths
  <1>2. n \in 0 .. (Len(left) - i) /\ (i + n < Len(left) => ~IsDigit(left[i + n + 1]))
    BY <1>1, RunAtIs
  <1>3. After(left, right, i) = IF BothDigits(left, right, i) THEN i + n ELSE i + 1
    BY DEF After
  <1> HIDE DEF n
  <1>4. CASE BothDigits(left, right, i)
    <2>1. n # 0
      <3> SUFFICES ASSUME n = 0 PROVE FALSE
        OBVIOUS
      <3>1. i + n + 1 = i + 1 /\ i + n < Len(left)
        BY <1>1
      <3> QED BY <1>2, <1>4, <3>1 DEF BothDigits
    <2> QED BY <1>1, <1>2, <1>3, <1>4, <2>1
  <1>5. CASE ~BothDigits(left, right, i)
    BY <1>1, <1>3, <1>5
  <1> QED BY <1>4, <1>5

\* The function of Comparing exists, from the end of the left path backward.
LEMMA ComparingIs ==
    ASSUME NEW left \in Paths, NEW right \in Paths
    PROVE  \A i \in 0 .. Len(left) :
             Comparing(left, right)[i] =
               IF i >= Len(left) \/ i >= Len(right) THEN Sign(Len(left) - Len(right))
               ELSE IF OrderAt(left, right, i) # 0 THEN OrderAt(left, right, i)
               ELSE Comparing(left, right)[After(left, right, i)]
  <1> DEFINE L == Len(left)
             Body(f, i) == IF i >= L \/ i >= Len(right) THEN Sign(L - Len(right))
                           ELSE IF OrderAt(left, right, i) # 0 THEN OrderAt(left, right, i)
                           ELSE f[After(left, right, i)]
             Goes(f, l) == f = [i \in (L - l) .. L |-> Body(f, i)]
             reach == {l \in Nat : l <= L => \E f : Goes(f, l)}
  <1>1. L \in Nat /\ Len(right) \in Nat
    BY DEF Paths
  <1>2. \A i \in 0 .. L : ~(i >= L \/ i >= Len(right)) => After(left, right, i) \in (i + 1) .. L
    BY <1>1, AfterIs
  <1>3. 0 \in reach
    <2> DEFINE f == [i \in (L - 0) .. L |-> Sign(L - Len(right))]
    <2>1. \A i \in (L - 0) .. L : Body(f, i) = Sign(L - Len(right))
      BY <1>1
    <2> HIDE DEF Body
    <2>2. f = [i \in (L - 0) .. L |-> Body(f, i)]
      BY <2>1
    <2> QED BY <2>2
  <1>4. ASSUME NEW l \in Nat, l \in reach PROVE l + 1 \in reach
    <2> SUFFICES ASSUME l + 1 <= L PROVE \E g : Goes(g, l + 1)
      OBVIOUS
    <2>1. PICK f : Goes(f, l)
      BY <1>1, <1>4
    <2> DEFINE first == L - (l + 1)
               g == [i \in first .. L |-> IF i = first THEN Body(f, i) ELSE f[i]]
    <2>2. first \in 0 .. L /\ \A i \in first .. L : i # first => i \in (L - l) .. L
      BY <1>1
    <2>3. \A i \in first .. L : ~(i >= L \/ i >= Len(right)) => g[After(left, right, i)] = f[After(left, right, i)]
      <3> TAKE i \in first .. L
      <3> HAVE ~(i >= L \/ i >= Len(right))
      <3>1. After(left, right, i) \in (i + 1) .. L
        BY <1>1, <1>2, <2>2
      <3>2. After(left, right, i) \in first .. L /\ After(left, right, i) # first
        <4> DEFINE a == After(left, right, i)
        <4> HIDE DEF a, first
        <4>1. a \in first .. L /\ a # first
          BY <1>1, <2>2, <3>1 DEF a
        <4> QED BY <4>1 DEF a
      <3> HIDE DEF first
      <3> QED BY <3>2
    <2>4. \A i \in first .. L : Body(g, i) = Body(f, i)
      BY <2>3
    <2>5. \A i \in first .. L : g[i] = Body(g, i)
      <3> TAKE i \in first .. L
      <3>1. CASE i = first
        <4>1. g[i] = Body(f, i)
          BY <3>1
        <4> HIDE DEF g, Body
        <4> QED BY <2>4, <4>1
      <3>2. CASE i # first
        <4>1. g[i] = f[i]
          BY <3>2
        <4>2. i \in (L - l) .. L
          BY <2>2, <3>2
        <4> HIDE DEF g, Body, first
        <4>3. f[i] = Body(f, i)
          BY <2>1, <4>2
        <4> QED BY <2>4, <4>1, <4>3
      <3> QED BY <3>1, <3>2
    <2>6. g = [i \in (L - (l + 1)) .. L |-> g[i]]
      OBVIOUS
    <2> HIDE DEF g, Body
    <2>7. Goes(g, l + 1)
      BY <2>5, <2>6
    <2> HIDE DEF Goes
    <2> QED BY <2>7
  <1> HIDE DEF Goes
  <1>5. Nat \subseteq reach
    <2>1. \A l \in Nat : l \in reach => l + 1 \in reach
      BY <1>4
    <2> HIDE DEF reach
    <2> QED BY <1>3, <2>1, NaturalsIn
  <1>6. PICK f : Goes(f, L)
    BY <1>1, <1>5
  <1>7. L - L = 0
    BY <1>1
  <1>8. f = [i \in 0 .. L |-> Body(f, i)]
    BY <1>6, <1>7 DEF Goes
  <1>9. Comparing(left, right) = CHOOSE h : h = [i \in 0 .. L |-> Body(h, i)]
    BY DEF Comparing
  <1> HIDE DEF Body
  <1>10. Comparing(left, right) = [i \in 0 .. L |-> Body(Comparing(left, right), i)]
    BY <1>8, <1>9
  <1>11. \A i \in 0 .. L : Comparing(left, right)[i] = Body(Comparing(left, right), i)
    BY <1>10
  <1> QED BY <1>11 DEF Body

\* Two paths show the same up to a position that is inside no number of theirs.
Aligned(left, right, i) ==
    /\ i \in 0 .. Len(left) /\ i <= Len(right)
    /\ \A k \in 1 .. i : Signs(left)[k] = Signs(right)[k]
    /\ ~Inside(left, i) /\ ~Inside(right, i)

\* Where a step finds no order the paths have shown the same.
LEMMA AlignedStays ==
    ASSUME NEW left \in Paths, NEW right \in Paths, NEW i \in Nat, i < Len(left), i < Len(right),
           Aligned(left, right, i), OrderAt(left, right, i) = 0
    PROVE  Aligned(left, right, After(left, right, i))
  <1> DEFINE n == Len(RunAt(left, i))
             m == Len(RunAt(right, i))
             Plain == [letter |-> 48, number |-> 0, digits |-> 0]
  <1>1. /\ Len(left) \in Nat /\ i + 1 \in 1 .. Len(left) /\ i \in 0 .. (Len(left) - 1) /\ i \in 0 .. Len(left)
        /\ Len(right) \in Nat /\ i + 1 \in 1 .. Len(right) /\ i \in 0 .. (Len(right) - 1) /\ i \in 0 .. Len(right)
    BY DEF Paths
  <1>2. ~Inside(left, i) /\ ~Inside(right, i) /\ \A k \in 1 .. i : Signs(left)[k] = Signs(right)[k]
    BY DEF Aligned
  <1>3. Signs(left)[i + 1] = Signs(right)[i + 1]
    BY <1>2, OrderIs
  <1>4. /\ n \in 0 .. (Len(left) - i) /\ (i + n < Len(left) => ~IsDigit(left[i + n + 1]))
        /\ m \in 0 .. (Len(right) - i) /\ (i + m < Len(right) => ~IsDigit(right[i + m + 1]))
    BY <1>1, RunAtIs
  <1>5. /\ ~IsDigit(left[i + 1]) => Signs(left)[i + 1].digits = 0
        /\ IsDigit(left[i + 1]) =>
              /\ n > 0 /\ Signs(left)[i + 1].digits = n
              /\ \A k \in (i + 2) .. (i + n) : Signs(left)[k] = Plain
    <2>1. ~IsDigit(left[i + 1]) =>
            Signs(left)[i + 1] = [letter |-> Folded(left[i + 1]), number |-> 0, digits |-> 0]
      BY <1>1, <1>2, SignIs
    <2>2. IsDigit(left[i + 1]) =>
            /\ n > 0
            /\ Signs(left)[i + 1] = [letter |-> 48, number |-> Number(RunAt(left, i)), digits |-> n]
      BY <1>1, <1>2, SignIs
    <2>3. IsDigit(left[i + 1]) => \A k \in (i + 2) .. (i + n) : Signs(left)[k] = Plain
      BY <1>1, <1>2, SignIs
    <2> HIDE DEF n, Plain
    <2> QED BY <2>1, <2>2, <2>3
  <1>6. /\ ~IsDigit(right[i + 1]) => Signs(right)[i + 1].digits = 0
        /\ IsDigit(right[i + 1]) =>
              /\ m > 0 /\ Signs(right)[i + 1].digits = m
              /\ \A k \in (i + 2) .. (i + m) : Signs(right)[k] = Plain
    <2>1. ~IsDigit(right[i + 1]) =>
            Signs(right)[i + 1] = [letter |-> Folded(right[i + 1]), number |-> 0, digits |-> 0]
      BY <1>1, <1>2, SignIs
    <2>2. IsDigit(right[i + 1]) =>
            /\ m > 0
            /\ Signs(right)[i + 1] = [letter |-> 48, number |-> Number(RunAt(right, i)), digits |-> m]
      BY <1>1, <1>2, SignIs
    <2>3. IsDigit(right[i + 1]) => \A k \in (i + 2) .. (i + m) : Signs(right)[k] = Plain
      BY <1>1, <1>2, SignIs
    <2> HIDE DEF m, Plain
    <2> QED BY <2>1, <2>2, <2>3
  <1>7. After(left, right, i) = IF BothDigits(left, right, i) THEN i + n ELSE i + 1
    BY DEF After
  <1> HIDE DEF n, m, Plain
  <1>8. CASE BothDigits(left, right, i)
    <2>1. n = m /\ n > 0
      BY <1>3, <1>5, <1>6, <1>8 DEF BothDigits
    <2>2. i + n \in 0 .. Len(left) /\ i + n <= Len(right) /\ i + n \in Nat
      BY <1>1, <1>4, <2>1
    <2>3. ASSUME NEW k \in 1 .. (i + n) PROVE Signs(left)[k] = Signs(right)[k]
      <3>1. k \in 1 .. i \/ k = i + 1 \/ k \in (i + 2) .. (i + n)
        BY <1>1, <1>4
      <3>2. k \in (i + 2) .. (i + n) => Signs(left)[k] = Plain /\ Signs(right)[k] = Plain
        BY <1>5, <1>6, <1>8, <2>1 DEF BothDigits
      <3> QED BY <1>2, <1>3, <3>1, <3>2
    <2>4. ~Inside(left, i + n) /\ ~Inside(right, i + n)
      BY <1>4, <2>1 DEF Inside
    <2> QED BY <1>7, <1>8, <2>2, <2>3, <2>4 DEF Aligned
  <1>9. CASE ~BothDigits(left, right, i)
    <2>1. ~IsDigit(left[i + 1]) /\ ~IsDigit(right[i + 1])
      <3>1. CASE IsDigit(left[i + 1])
        <4>1. ~IsDigit(right[i + 1])
          BY <1>9, <3>1 DEF BothDigits
        <4>2. n = 0 /\ n > 0
          BY <1>3, <1>5, <1>6, <3>1, <4>1
        <4> QED BY <1>4, <4>2
      <3>2. CASE IsDigit(right[i + 1])
        <4>1. ~IsDigit(left[i + 1])
          BY <1>9, <3>2 DEF BothDigits
        <4>2. m = 0 /\ m > 0
          BY <1>3, <1>5, <1>6, <3>2, <4>1
        <4> QED BY <1>4, <4>2
      <3> QED BY <3>1, <3>2
    <2>2. i + 1 \in 0 .. Len(left) /\ i + 1 <= Len(right)
      BY <1>1
    <2>3. \A k \in 1 .. (i + 1) : Signs(left)[k] = Signs(right)[k]
      <3>1. \A k \in 1 .. (i + 1) : k \in 1 .. i \/ k = i + 1
        OBVIOUS
      <3> QED BY <1>2, <1>3, <3>1
    <2>4. ~Inside(left, i + 1) /\ ~Inside(right, i + 1)
      BY <2>1 DEF Inside
    <2> QED BY <1>7, <1>9, <2>2, <2>3, <2>4 DEF Aligned
  <1> QED BY <1>8, <1>9

\* compare_natural_path decides as one reads: letter by letter, a number at a time
\* (torrent_service.cpp:311-377).
LEMMA ComparesAsRead ==
    ASSUME NEW left \in Paths, NEW right \in Paths
    PROVE  \/ CompareNaturalPath(left, right) = 0 /\ Signs(left) = Signs(right)
           \/ CompareNaturalPath(left, right) = -1 /\ Comes(Signs(left), Signs(right))
           \/ CompareNaturalPath(left, right) = 1 /\ Comes(Signs(right), Signs(left))
  <1> DEFINE C(i) == Comparing(left, right)[i]
             S == Signs(left)
             T == Signs(right)
             Good(i) == \/ C(i) = 0 /\ S = T
                        \/ C(i) = -1 /\ Comes(S, T)
                        \/ C(i) = 1 /\ Comes(T, S)
             good == {n \in Nat : \A i \in 0 .. Len(left) :
                                    Len(left) - i <= n /\ Aligned(left, right, i) => Good(i)}
  <1>1. Len(left) \in Nat /\ Len(right) \in Nat
    BY DEF Paths
  <1>2. S \in Seq(SignSet) /\ Len(S) = Len(left) /\ T \in Seq(SignSet) /\ Len(T) = Len(right)
    BY SignsTyped
  <1> HIDE DEF C, S, T
  <1>3. ASSUME NEW i \in 0 .. Len(left), Aligned(left, right, i), i >= Len(left) \/ i >= Len(right)
        PROVE  Good(i)
    <2>1. C(i) = Sign(Len(left) - Len(right))
      BY <1>3, ComparingIs DEF C
    <2>2. i <= Len(right) /\ \A k \in 1 .. i : S[k] = T[k]
      BY <1>3 DEF Aligned, S, T
    <2>3. CASE Len(left) < Len(right)
      <3>1. i = Len(left) /\ i + 1 \in 1 .. Len(T) /\ i + 1 > Len(S)
        BY <1>1, <1>2, <1>3, <2>3
      <3>2. \A k \in 1 .. ((i + 1) - 1) : k <= Len(S) /\ S[k] = T[k]
        BY <1>1, <1>2, <2>2, <3>1
      <3>3. Comes(S, T)
        BY <3>1, <3>2 DEF Comes
      <3>4. C(i) = -1
        BY <1>1, <2>1, <2>3 DEF Sign
      <3> QED BY <3>3, <3>4
    <2>4. CASE Len(right) < Len(left)
      <3>1. i = Len(right) /\ i + 1 \in 1 .. Len(S) /\ i + 1 > Len(T)
        BY <1>1, <1>2, <1>3, <2>2, <2>4
      <3>2. \A k \in 1 .. ((i + 1) - 1) : k <= Len(T) /\ T[k] = S[k]
        BY <1>1, <1>2, <2>2, <3>1
      <3>3. Comes(T, S)
        BY <3>1, <3>2 DEF Comes
      <3>4. C(i) = 1
        BY <1>1, <2>1, <2>4 DEF Sign
      <3> QED BY <3>3, <3>4
    <2>5. CASE Len(left) = Len(right)
      <3>1. i = Len(left)
        BY <1>1, <1>3, <2>5
      <3>2. S = T
        BY <1>1, <1>2, <2>2, <2>5, <3>1
      <3>3. C(i) = 0
        BY <1>1, <2>1, <2>5 DEF Sign
      <3> QED BY <3>2, <3>3
    <2> QED BY <1>1, <2>3, <2>4, <2>5
  <1>4. ASSUME NEW i \in 0 .. Len(left), Aligned(left, right, i), i < Len(left), i < Len(right),
               OrderAt(left, right, i) # 0
        PROVE  Good(i)
    <2>1. C(i) = OrderAt(left, right, i)
      BY <1>1, <1>4, ComparingIs DEF C
    <2>2. /\ ~Inside(left, i) /\ ~Inside(right, i)
          /\ \A k \in 1 .. i : S[k] = T[k]
      BY <1>4 DEF Aligned, S, T
    <2>3. \/ OrderAt(left, right, i) = -1 /\ LessSign(S[i + 1], T[i + 1])
          \/ OrderAt(left, right, i) = 1 /\ LessSign(T[i + 1], S[i + 1])
      BY <1>1, <1>4, <2>2, OrderIs DEF S, T
    <2>4. i + 1 \in 1 .. Len(S) /\ i + 1 \in 1 .. Len(T)
      BY <1>1, <1>2, <1>4
    <2>5. \A k \in 1 .. ((i + 1) - 1) : k <= Len(S) /\ k <= Len(T) /\ S[k] = T[k] /\ T[k] = S[k]
      BY <1>1, <1>2, <1>4, <2>2
    <2>6. CASE OrderAt(left, right, i) = -1 /\ LessSign(S[i + 1], T[i + 1])
      <3>1. Comes(S, T)
        BY <2>4, <2>5, <2>6 DEF Comes
      <3> QED BY <2>1, <2>6, <3>1
    <2>7. CASE OrderAt(left, right, i) = 1 /\ LessSign(T[i + 1], S[i + 1])
      <3>1. Comes(T, S)
        BY <2>4, <2>5, <2>7 DEF Comes
      <3> QED BY <2>1, <2>7, <3>1
    <2> QED BY <2>3, <2>6, <2>7
  <1>5. ASSUME NEW i \in 0 .. Len(left), Aligned(left, right, i), i < Len(left), i < Len(right),
               OrderAt(left, right, i) = 0
        PROVE  /\ After(left, right, i) \in (i + 1) .. Len(left)
               /\ Aligned(left, right, After(left, right, i))
               /\ C(i) = C(After(left, right, i))
    <2>1. After(left, right, i) \in (i + 1) .. Len(left)
      BY <1>1, <1>5, AfterIs
    <2>2. Aligned(left, right, After(left, right, i))
      BY <1>1, <1>5, AlignedStays
    <2>3. C(i) = C(After(left, right, i))
      BY <1>1, <1>5, ComparingIs DEF C
    <2> QED BY <2>1, <2>2, <2>3
  <1> HIDE DEF Good
  <1>6. 0 \in good
    <2>1. ASSUME NEW i \in 0 .. Len(left), Len(left) - i <= 0 PROVE i >= Len(left)
      BY <1>1, <2>1
    <2> QED BY <1>3, <2>1
  <1>7. ASSUME NEW n \in Nat, n \in good PROVE n + 1 \in good
    <2> SUFFICES ASSUME NEW i \in 0 .. Len(left), Len(left) - i <= n + 1, Aligned(left, right, i)
                 PROVE  Good(i)
      OBVIOUS
    <2>1. CASE i >= Len(left) \/ i >= Len(right)
      BY <1>3, <2>1
    <2>2. CASE i < Len(left) /\ i < Len(right) /\ OrderAt(left, right, i) # 0
      BY <1>4, <2>2
    <2>3. CASE i < Len(left) /\ i < Len(right) /\ OrderAt(left, right, i) = 0
      <3> DEFINE a == After(left, right, i)
      <3>1. a \in (i + 1) .. Len(left) /\ Aligned(left, right, a) /\ C(i) = C(a)
        BY <1>5, <2>3
      <3> HIDE DEF a
      <3>2. a \in 0 .. Len(left) /\ Len(left) - a <= n
        BY <1>1, <3>1
      <3>3. Good(a)
        BY <1>7, <3>1, <3>2
      <3> QED BY <3>1, <3>3 DEF Good
    <2> QED BY <1>1, <2>1, <2>2, <2>3
  <1>8. Nat \subseteq good
    <2>1. \A n \in Nat : n \in good => n + 1 \in good
      BY <1>7
    <2> HIDE DEF good
    <2> QED BY <1>6, <2>1, NaturalsIn
  <1>9. 0 \in 0 .. Len(left) /\ Aligned(left, right, 0) /\ Len(left) - 0 <= Len(left)
    BY <1>1 DEF Aligned, Inside
  <1>10. Good(0)
    BY <1>1, <1>8, <1>9
  <1> QED BY <1>10 DEF Good, C, S, T, CompareNaturalPath

-----------------------------------------------------------------------------
(* The rows of the browser *)

Files == [index : Nat, path : Paths, likely_video : BOOLEAN]

\* The sort of the browser and the order of its rows are one order, a strict one, and
\* two files of a torrent are never tied in it.
LEMMA BeforeIsPrecedes ==
    \A f, g \in Files : Before(f, g) <=> Precedes(f, g)
  <1> TAKE f \in Files, g \in Files
  <1> DEFINE c == CompareNaturalPath(f.path, g.path)
             s == Signs(f.path)
             t == Signs(g.path)
  <1>1. f.path \in Paths /\ g.path \in Paths
    BY DEF Files
  <1>2. \/ c = 0 /\ s = t
        \/ c = -1 /\ Comes(s, t)
        \/ c = 1 /\ Comes(t, s)
    BY <1>1, ComparesAsRead
  <1>3. s \in Seq(SignSet) /\ t \in Seq(SignSet)
    BY <1>1, SignsTyped
  <1>4. Before(f, g) <=> IF c # 0 THEN c < 0 ELSE f.index < g.index
    BY DEF Before
  <1>5. Precedes(f, g) <=> Comes(s, t) \/ (s = t /\ f.index < g.index)
    BY DEF Precedes
  <1> HIDE DEF c, s, t
  <1>6. ~Comes(s, s) /\ ~(Comes(s, t) /\ Comes(t, s))
    BY <1>3, ComesIrreflexive, ComesTransitive
  <1>7. CASE c = 0 /\ s = t
    BY <1>4, <1>5, <1>6, <1>7
  <1>8. CASE c = -1 /\ Comes(s, t)
    BY <1>4, <1>5, <1>8
  <1>9. CASE c = 1 /\ Comes(t, s)
    BY <1>4, <1>5, <1>6, <1>9
  <1> QED BY <1>2, <1>7, <1>8, <1>9

\* That order is strict, and decides between any two files.
LEMMA PrecedesOrders ==
    /\ \A f \in Files : ~Precedes(f, f)
    /\ \A f, g, h \in Files : Precedes(f, g) /\ Precedes(g, h) => Precedes(f, h)
    /\ \A f, g \in Files : f.index # g.index => Precedes(f, g) \/ Precedes(g, f)
  <1>1. \A f \in Files : f.index \in Nat /\ f.path \in Paths /\ Signs(f.path) \in Seq(SignSet)
    BY SignsTyped DEF Files
  <1>2. \A f \in Files : ~Precedes(f, f)
    BY <1>1, ComesIrreflexive DEF Precedes
  <1>3. ASSUME NEW f \in Files, NEW g \in Files, NEW h \in Files, Precedes(f, g), Precedes(g, h)
        PROVE  Precedes(f, h)
    <2> DEFINE s == Signs(f.path)
               t == Signs(g.path)
               u == Signs(h.path)
    <2>1. s \in Seq(SignSet) /\ t \in Seq(SignSet) /\ u \in Seq(SignSet)
      BY <1>1
    <2>2. /\ Comes(s, t) \/ (s = t /\ f.index < g.index)
          /\ Comes(t, u) \/ (t = u /\ g.index < h.index)
      BY <1>3 DEF Precedes
    <2>3. (Comes(s, u) \/ (s = u /\ f.index < h.index)) => Precedes(f, h)
      BY DEF Precedes
    <2> HIDE DEF s, t, u
    <2>4. CASE Comes(s, t) /\ Comes(t, u)
      BY <2>1, <2>3, <2>4, ComesTransitive
    <2>5. CASE s = t \/ t = u
      <3>1. f.index < g.index /\ g.index < h.index => f.index < h.index
        BY <1>1
      <3> QED BY <2>2, <2>3, <2>5, <3>1
    <2> QED BY <2>2, <2>4, <2>5
  <1>4. ASSUME NEW f \in Files, NEW g \in Files, f.index # g.index
        PROVE  Precedes(f, g) \/ Precedes(g, f)
    <2>1. CASE Signs(f.path) = Signs(g.path)
      BY <1>1, <1>4, <2>1 DEF Precedes
    <2>2. CASE Signs(f.path) # Signs(g.path)
      BY <1>1, <2>2, ComesTotal DEF Precedes
    <2> QED BY <2>1, <2>2
  <1> QED BY <1>2, <1>3, <1>4

\* What std::sort requires of the comparison it is given: a strict order, transitive, in
\* which only a file's equals are tied with it (torrent_service.cpp:387-393).
THEOREM BeforeIsStrictOrder ==
    /\ \A f \in Files : ~Before(f, f)
    /\ \A f, g, h \in Files : Before(f, g) /\ Before(g, h) => Before(f, h)
    /\ \A f, g \in Files : f.index # g.index => Before(f, g) \/ Before(g, f)
  BY BeforeIsPrecedes, PrecedesOrders

\* Files that have each an index of their own can be sorted: each goes to the row after
\* as many as precede it.
LEMMA CanBeSorted ==
    ASSUME NEW V \in SUBSET Files, IsFiniteSet(V),
           \A f, g \in V : f # g => f.index # g.index
    PROVE  \E rows \in [1 .. Cardinality(V) -> V] :
              /\ \A f \in V : \E i \in DOMAIN rows : rows[i] = f
              /\ \A i, j \in DOMAIN rows : i < j => ~Before(rows[j], rows[i])
  <1> DEFINE n == Cardinality(V)
             Below(f) == {g \in V : Precedes(g, f)}
             rank == [f \in V |-> Cardinality(Below(f)) + 1]
  <1>1. n \in Nat
    BY FS_CardinalityType
  <1>2. ASSUME NEW f \in V
        PROVE  /\ IsFiniteSet(Below(f)) /\ Cardinality(Below(f)) \in Nat
               /\ Cardinality(Below(f)) < n
    <2>1. Below(f) \in SUBSET V
      OBVIOUS
    <2>2. f \notin Below(f)
      BY PrecedesOrders
    <2> HIDE DEF Below
    <2>3. /\ IsFiniteSet(Below(f)) /\ Cardinality(Below(f)) <= n
          /\ n = Cardinality(Below(f)) => V = Below(f)
      BY <2>1, FS_Subset
    <2>4. Cardinality(Below(f)) \in Nat
      BY <2>3, FS_CardinalityType
    <2> QED BY <1>1, <2>2, <2>3, <2>4
  <1>3. ASSUME NEW f \in V, NEW g \in V, Precedes(f, g)
        PROVE  rank[f] < rank[g]
    <2>1. Below(f) \in SUBSET Below(g) /\ f \in Below(g)
      BY <1>3, PrecedesOrders
    <2>2. f \notin Below(f)
      BY PrecedesOrders
    <2>3. /\ IsFiniteSet(Below(g)) /\ Cardinality(Below(g)) \in Nat
          /\ Cardinality(Below(f)) \in Nat
      BY <1>2
    <2>4. rank[f] = Cardinality(Below(f)) + 1 /\ rank[g] = Cardinality(Below(g)) + 1
      OBVIOUS
    <2> HIDE DEF Below, rank
    <2>5. /\ Cardinality(Below(f)) <= Cardinality(Below(g))
          /\ Cardinality(Below(g)) = Cardinality(Below(f)) => Below(g) = Below(f)
      BY <2>1, <2>3, FS_Subset
    <2> QED BY <2>1, <2>2, <2>3, <2>4, <2>5
  <1>4. rank \in [V -> 1 .. n]
    <2>1. \A f \in V : Cardinality(Below(f)) + 1 \in 1 .. n
      <3> TAKE f \in V
      <3> DEFINE c == Cardinality(Below(f))
      <3>1. c \in Nat /\ c < n
        BY <1>2
      <3> HIDE DEF c, n
      <3>2. c + 1 \in 1 .. n
        BY <1>1, <3>1
      <3> QED BY <3>2 DEF c
    <2> QED BY <2>1
  <1> HIDE DEF rank, Below
  <1>5. \A f, g \in V : rank[f] = rank[g] => f = g
    <2> SUFFICES ASSUME NEW f \in V, NEW g \in V, rank[f] = rank[g], f # g PROVE FALSE
      OBVIOUS
    <2>1. Precedes(f, g) \/ Precedes(g, f)
      BY PrecedesOrders
    <2>2. rank[f] \in 1 .. n /\ rank[g] \in 1 .. n
      BY <1>4
    <2> QED BY <1>1, <1>3, <2>1, <2>2
  <1>6. \A i \in 1 .. n : \E f \in V : rank[f] = i
    <2>1. rank \in Injection(V, 1 .. n)
      BY <1>4, <1>5 DEF Injection, IsInjective
    <2>2. IsFiniteSet(1 .. n) /\ Cardinality(1 .. n) = n
      BY <1>1, FS_Interval
    <2>3. rank \in Surjection(V, 1 .. n)
      BY <2>1, <2>2, FS_Injection
    <2> QED BY <2>3 DEF Surjection
  <1> DEFINE rows == [i \in 1 .. n |-> CHOOSE f \in V : rank[f] = i]
  <1>7. \A i \in 1 .. n : rows[i] \in V /\ rank[rows[i]] = i
    BY <1>6
  <1>8. rows \in [1 .. n -> V]
    BY <1>6
  <1> HIDE DEF rows, n
  <1>9. \A f \in V : \E i \in DOMAIN rows : rows[i] = f
    <2> TAKE f \in V
    <2>1. rank[f] \in 1 .. n
      BY <1>4
    <2>2. rows[rank[f]] \in V /\ rank[rows[rank[f]]] = rank[f]
      BY <1>7, <2>1
    <2>3. rows[rank[f]] = f
      BY <1>5, <2>2
    <2> QED BY <1>8, <2>1, <2>3
  <1>10. \A i, j \in DOMAIN rows : i < j => ~Before(rows[j], rows[i])
    <2> SUFFICES ASSUME NEW i \in 1 .. n, NEW j \in 1 .. n, i < j, Before(rows[j], rows[i]) PROVE FALSE
      BY <1>8
    <2>1. rows[i] \in V /\ rank[rows[i]] = i /\ rows[j] \in V /\ rank[rows[j]] = j
      BY <1>7
    <2>2. Precedes(rows[j], rows[i])
      BY <2>1, BeforeIsPrecedes
    <2>3. j < i
      BY <1>3, <2>1, <2>2
    <2> QED BY <1>1, <2>3 DEF n
  <1> QED BY <1>8, <1>9, <1>10 DEF n

Videos(files) == {files[i] : i \in {j \in DOMAIN files : files[j].likely_video}}

\* What filter_video_files returns.
LEMMA FilterIs ==
    ASSUME NEW files \in Seq(Files), \A i, j \in DOMAIN files : i # j => files[i].index # files[j].index
    PROVE  LET rows == FilterVideoFiles(files)
           IN  /\ rows \in [1 .. Cardinality(Videos(files)) -> Videos(files)]
               /\ Videos(files) = {} <=> rows = <<>>
               /\ {rows[i] : i \in DOMAIN rows} = Videos(files)
               /\ \A i, j \in DOMAIN rows : i < j => Precedes(rows[i], rows[j])
  <1> DEFINE V == Videos(files)
             n == Cardinality(V)
             D == {j \in DOMAIN files : files[j].likely_video}
             rows == FilterVideoFiles(files)
  <1>1. Len(files) \in Nat /\ DOMAIN files = 1 .. Len(files) /\ \A i \in 1 .. Len(files) : files[i] \in Files
    OBVIOUS
  <1>2. IsFiniteSet(V)
    <2>1. IsFiniteSet(1 .. Len(files)) /\ D \in SUBSET (1 .. Len(files))
      BY <1>1, FS_Interval
    <2>2. IsFiniteSet(D)
      <3> HIDE DEF D
      <3> QED BY <2>1, FS_Subset
    <2> DEFINE f == [i \in D |-> files[i]]
    <2>3. f \in Surjection(D, V)
      BY DEF Surjection, Videos
    <2> HIDE DEF D, V, f
    <2> QED BY <2>2, <2>3, FS_Surjection
  <1>3. V \in SUBSET Files
    BY <1>1 DEF Videos
  <1>4. \A f, g \in V : f # g => f.index # g.index
    BY <1>1 DEF Videos
  <1>5. /\ rows \in [1 .. n -> V]
        /\ \A f \in V : \E i \in DOMAIN rows : rows[i] = f
        /\ \A i, j \in DOMAIN rows : i < j => ~Before(rows[j], rows[i])
    <2> DEFINE IsSorted(r) == /\ \A f \in V : \E i \in DOMAIN r : r[i] = f
                             /\ \A i, j \in DOMAIN r : i < j => ~Before(r[j], r[i])
    <2>1. rows = CHOOSE r \in [1 .. n -> V] : IsSorted(r)
      BY DEF FilterVideoFiles, Videos
    <2>2. \E r \in [1 .. n -> V] : IsSorted(r)
      <3> HIDE DEF V
      <3> QED BY <1>2, <1>3, <1>4, CanBeSorted
    <2> HIDE DEF rows, IsSorted, n, V
    <2>3. rows \in [1 .. n -> V] /\ IsSorted(rows)
      BY <2>1, <2>2
    <2> QED BY <2>3 DEF IsSorted
  <1>6. n \in Nat /\ (n = 0 <=> V = {})
    BY <1>2, FS_CardinalityType, FS_EmptySet
  <1> HIDE DEF V, n, rows
  <1>7. DOMAIN rows = 1 .. n
    BY <1>5
  <1>8. V = {} <=> rows = <<>>
    <2>1. V = {} => rows = <<>>
      <3> SUFFICES ASSUME V = {} PROVE rows = <<>>
        OBVIOUS
      <3>1. 1 .. n = {}
        BY <1>6
      <3>2. rows = [i \in 1 .. n |-> rows[i]]
        BY <1>5
      <3> QED BY <3>1, <3>2
    <2>2. rows = <<>> => V = {}
      BY <1>5
    <2> QED BY <2>1, <2>2
  <1>9. {rows[i] : i \in DOMAIN rows} = V
    BY <1>5, <1>7
  <1>10. \A i, j \in 1 .. n : rows[i] = rows[j] => i = j
    <2>1. rows \in Surjection(1 .. n, V)
      BY <1>5, <1>7 DEF Surjection
    <2>2. IsFiniteSet(1 .. n) /\ Cardinality(1 .. n) = n
      BY <1>6, FS_Interval
    <2>3. rows \in Injection(1 .. n, V)
      BY <2>1, <2>2, FS_SurjSameCardinalityImpliesInj DEF n
    <2> QED BY <1>7, <2>3 DEF Injection, IsInjective
  <1>11. \A i, j \in DOMAIN rows : i < j => Precedes(rows[i], rows[j])
    <2> SUFFICES ASSUME NEW i \in 1 .. n, NEW j \in 1 .. n, i < j PROVE Precedes(rows[i], rows[j])
      BY <1>7
    <2>1. rows[i] \in V /\ rows[j] \in V /\ rows[i] # rows[j]
      BY <1>5, <1>6, <1>10
    <2>2. ~Precedes(rows[j], rows[i])
      BY <1>3, <1>5, <1>7, <2>1, BeforeIsPrecedes
    <2>3. rows[i].index # rows[j].index
      BY <1>4, <2>1
    <2> QED BY <1>3, <2>1, <2>2, <2>3, PrecedesOrders
  <1> QED BY <1>5, <1>8, <1>9, <1>11 DEF V, n, rows

FilesTyped == storage \in Seq(StoredFiles)

\* The files are files that may be stored.
LEMMA FilesTypedAlways == DataSpec => []FilesTyped
  <1>1. DataInit => FilesTyped
    BY DEF DataInit, FilesTyped
  <1>2. FilesTyped /\ [DataNext]_dataVars => FilesTyped'
    <2> SUFFICES ASSUME FilesTyped, [DataNext]_dataVars PROVE FilesTyped'
      OBVIOUS
    <2>1. storage' = storage => FilesTyped'
      BY DEF FilesTyped
    <2>2. CASE PolicyNext
      BY <2>1, <2>2 DEF PolicyNext
    <2>3. CASE PieceNext
      BY <2>1, <2>3 DEF PieceNext
    <2>4. CASE FilesNext
      <3>1. CASE storage' = <<>>
        BY <3>1 DEF FilesTyped
      <3>2. ASSUME NEW f \in StoredFiles, storage' = Append(storage, f) PROVE FilesTyped'
        BY <3>2 DEF FilesTyped
      <3> QED BY <2>4, <3>1, <3>2 DEF FilesNext
    <2>5. CASE RailNext
      BY <2>1, <2>5 DEF RailNext
    <2>6. CASE UNCHANGED dataVars
      BY <2>1, <2>6 DEF dataVars
    <2> QED BY <2>2, <2>3, <2>4, <2>5, <2>6 DEF DataNext
  <1> QED BY <1>1, <1>2, PTL DEF DataSpec

\* The browser's order, for every torrent: each video once, by path as a reader takes
\* it, numbers by their value (torrent_service.cpp:311-395).
THEOREM FilesAlwaysInOrder == DataSpec => []FilesInOrder
  <1>1. FilesTyped => FilesInOrder
    <2> SUFFICES ASSUME FilesTyped PROVE FilesInOrder
      OBVIOUS
    <2> DEFINE files == ExtractFiles(storage)
               filtered == FilterVideoFiles(files)
               rows == Rows(files)
    <2>1. /\ Len(storage) \in Nat /\ DOMAIN storage = 1 .. Len(storage)
          /\ \A i \in 1 .. Len(storage) : storage[i] \in StoredFiles
      BY DEF FilesTyped
    <2>2. \A i \in 1 .. Len(storage) : /\ storage[i].path \in Paths
                                       /\ storage[i].pad \in BOOLEAN /\ storage[i].media \in BOOLEAN
      BY <2>1, DataAssumption DEF Paths
    <2>3. /\ DOMAIN files = 1 .. Len(storage)
          /\ \A i \in 1 .. Len(storage) : files[i] \in Files /\ files[i].index = i - 1
      <3>1. files = [i \in 1 .. Len(storage) |->
                        [index |-> i - 1, path |-> storage[i].path,
                         likely_video |-> ~storage[i].pad /\ storage[i].media]]
        BY <2>1 DEF ExtractFiles
      <3>2. ASSUME NEW i \in 1 .. Len(storage) PROVE files[i] \in Files /\ files[i].index = i - 1
        <4>1. files[i] = [index |-> i - 1, path |-> storage[i].path,
                          likely_video |-> ~storage[i].pad /\ storage[i].media]
          BY <3>1
        <4>2. i - 1 \in Nat /\ storage[i].path \in Paths /\ (~storage[i].pad /\ storage[i].media) \in BOOLEAN
          BY <2>1, <2>2
        <4> HIDE DEF files
        <4> QED BY <4>1, <4>2 DEF Files
      <3> HIDE DEF files
      <3> QED BY <3>1, <3>2
    <2>4. files = [i \in 1 .. Len(storage) |-> files[i]]
      BY <2>1 DEF ExtractFiles
    <2> HIDE DEF files
    <2>5. files \in Seq(Files)
      BY <2>1, <2>3, <2>4
    <2>6. \A i, j \in DOMAIN files : i # j => files[i].index # files[j].index
      BY <2>1, <2>3
    <2>7. /\ Videos(files) = {} <=> filtered = <<>>
          /\ {filtered[i] : i \in DOMAIN filtered} = Videos(files)
          /\ \A i, j \in DOMAIN filtered : i < j => Precedes(filtered[i], filtered[j])
      BY <2>5, <2>6, FilterIs
    <2>8. rows = IF filtered = <<>> THEN files ELSE filtered
      BY DEF Rows
    <2> HIDE DEF filtered, rows
    <2>9. /\ {rows[i] : i \in DOMAIN rows}
                = (IF Videos(files) = {} THEN {files[i] : i \in DOMAIN files} ELSE Videos(files))
          /\ \A i, j \in DOMAIN rows : i < j =>
                IF Videos(files) = {} THEN rows[i].index < rows[j].index ELSE Precedes(rows[i], rows[j])
      <3>1. CASE Videos(files) = {}
        <4>1. rows = files
          BY <2>7, <2>8, <3>1
        <4>2. \A i, j \in DOMAIN files : i < j => files[i].index < files[j].index
          BY <2>1, <2>3
        <4> QED BY <3>1, <4>1, <4>2
      <3>2. CASE Videos(files) # {}
        <4>1. rows = filtered
          BY <2>7, <2>8, <3>2
        <4> QED BY <2>7, <3>2, <4>1
      <3> QED BY <3>1, <3>2
    <2> QED BY <2>9 DEF FilesInOrder, Videos, files, rows
  <1> QED BY <1>1, FilesTypedAlways, PTL
=============================================================================

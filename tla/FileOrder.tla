----------------------------- MODULE FileOrder -----------------------------
(***************************************************************************)
(* The files of a torrent as the browser lists them: the videos by path,   *)
(* the case of letters aside and the numbers in a path compared as         *)
(* numbers, then by index.  A path is the sequence of its bytes.           *)
(***************************************************************************)
EXTENDS Integers, Sequences, FiniteSets

IsDigit(c) == c \in 48 .. 57

\* tolower in the C locale, as a signed char: bytes from 128 up sort first.
Folded(c) ==
    IF c \in 65 .. 90 THEN c + 32 ELSE IF c > 127 THEN c - 256 ELSE c

\* What follows the first n characters.
Rest(path, n) == SubSeq(path, n + 1, Len(path))

\* How many characters at the start of the path satisfy a test.
DigitsAhead(path) ==
    CHOOSE n \in 0 .. Len(path) :
        /\ \A i \in 1 .. n : IsDigit(path[i])
        /\ n < Len(path) => ~IsDigit(path[n + 1])

ZerosAhead(run) ==
    CHOOSE n \in 0 .. Len(run) :
        /\ \A i \in 1 .. n : run[i] = 48
        /\ n < Len(run) => run[n + 1] # 48

Sign(n) == IF n < 0 THEN -1 ELSE IF n > 0 THEN 1 ELSE 0

\* The first position at which two runs of one length differ decides.
CompareDigits(left, right) ==
    LET differ == {i \in DOMAIN left : left[i] # right[i]}
        first == CHOOSE i \in differ : \A j \in differ : i <= j
    IN  IF differ = {} THEN 0 ELSE Sign(left[first] - right[first])

\* Mutant: the zeros ahead count as digits.
CompareRunsPadded(left, right) ==
    IF Len(left) # Len(right) THEN Sign(Len(left) - Len(right)) ELSE CompareDigits(left, right)

\* Two runs of digits: by their significant length, their digits, their whole length.
CompareRuns(left, right) ==
    LET l == Rest(left, ZerosAhead(left))
        r == Rest(right, ZerosAhead(right))
    IN  IF Len(l) # Len(r) THEN Sign(Len(l) - Len(r))
        ELSE IF CompareDigits(l, r) # 0 THEN CompareDigits(l, r)
        ELSE Sign(Len(left) - Len(right))

\* The digits that stand from a position on.
RunAt(path, i) == SubSeq(path, i + 1, i + DigitsAhead(Rest(path, i)))

BothDigits(left, right, i) == IsDigit(left[i + 1]) /\ IsDigit(right[i + 1])

\* What is compared at a position: two numbers, or two characters.
OrderAt(left, right, i) ==
    IF BothDigits(left, right, i) THEN CompareRuns(RunAt(left, i), RunAt(right, i))
    ELSE Sign(Folded(left[i + 1]) - Folded(right[i + 1]))

After(left, right, i) ==
    IF BothDigits(left, right, i) THEN i + Len(RunAt(left, i)) ELSE i + 1

\* The loop: what two paths have gone through when no order is found is as long in both,
\* equal characters or runs of digits that CompareRuns finds no order of.
Comparing(left, right) ==
    LET compare[i \in 0 .. Len(left)] ==
            IF i >= Len(left) \/ i >= Len(right) THEN Sign(Len(left) - Len(right))
            ELSE IF OrderAt(left, right, i) # 0 THEN OrderAt(left, right, i)
            ELSE compare[After(left, right, i)]
    IN  compare

CompareNaturalPath(left, right) == Comparing(left, right)[0]

\* A file of the torrent: what extract_files makes of its storage.
ExtractFiles(storage) ==
    [i \in DOMAIN storage |->
        [index |-> i - 1, path |-> storage[i].path,
         likely_video |-> ~storage[i].pad /\ storage[i].media]]

Before(f, g) ==
    LET order == CompareNaturalPath(f.path, g.path)
    IN  IF order # 0 THEN order < 0 ELSE f.index < g.index

\* The videos, sorted: none stands before one that Before puts ahead of it.
FilterVideoFiles(files) ==
    LET videos == {files[i] : i \in {j \in DOMAIN files : files[j].likely_video}}
    IN  CHOOSE rows \in [1 .. Cardinality(videos) -> videos] :
            /\ \A f \in videos : \E i \in DOMAIN rows : rows[i] = f
            /\ \A i, j \in DOMAIN rows : i < j => ~Before(rows[j], rows[i])

\* The rows of the browser: the videos, or every file when there is none.
Rows(files) ==
    IF FilterVideoFiles(files) = <<>> THEN files ELSE FilterVideoFiles(files)
=============================================================================

------------------------------ MODULE Strings ------------------------------
(***************************************************************************)
(* libk/string.c: the loops over bytes, as functions of the memory, and    *)
(* what the C standard says of them.  Memory is a function from addresses  *)
(* to bytes; a string ends at its first 0.                                 *)
(***************************************************************************)
EXTENDS Integers, Sequences, SequencesExt, FiniteSetsExt

\* The indices of a loop of n turns; the memory after the loop is a fold.
Upto(n) == [i \in 1..n |-> i - 1]

memcpy(m, dest, src, n) ==
    FoldLeft(LAMBDA mm, i : [mm EXCEPT ![dest + i] = mm[src + i]], m, Upto(n))

\* Bytes until the address is aligned, whole words, and the bytes left over.
Fill(m, p, c, n) == FoldLeft(LAMBDA mm, i : [mm EXCEPT ![p + i] = c], m, Upto(n))
FillWords(m, p, val64, words) ==
    FoldLeft(LAMBDA mm, i : [a \in DOMAIN mm |-> IF a - p - 8 * i \in 0..7 THEN val64[a - p - 8 * i] ELSE mm[a]],
             m, Upto(words))

\* A word by its bytes, the lowest first, or-ed with itself some bytes higher: where both
\* have a byte one of them is 0.
OrShifted(word, k) == [i \in 0..7 |-> Max({word[i], IF i >= k THEN word[i - k] ELSE 0})]
Val64(byte) == OrShifted(OrShifted(OrShifted([i \in 0..7 |-> IF i = 0 THEN byte ELSE 0], 1), 2), 4)

\* The lowest byte of c counts.
memset(m, s, c, n) ==
    LET byte  == c % 256
        head  == IF n < 8 THEN n ELSE (8 - (s % 8)) % 8
        words == IF n < 8 THEN 0 ELSE (n - head) \div 8
        tail  == n - head - 8 * words
    IN Fill(FillWords(Fill(m, s, byte, head), s + head, Val64(byte), words), s + head + 8 * words, byte, tail)

\* Mutant: the loop always goes up.
memmove_Up(m, dest, src, n) == memcpy(m, dest, src, n)

\* The direction of the loop is what lets the two regions overlap.
memmove(m, dest, src, n) ==
    LET move(mm, i) == [mm EXCEPT ![dest + i] = mm[src + i]] IN
    CASE src > dest -> FoldLeft(move, m, Upto(n))
      [] src < dest -> FoldLeft(move, m, Reverse(Upto(n)))
      [] OTHER      -> m

\* The index at which a loop of at most n turns stops: the first of a set, or n.
FirstIndex(set, n) == Min(set \cup {n})

memcmp(m, s1, s2, n) ==
    LET i == FirstIndex({j \in 0..(n - 1) : m[s1 + j] # m[s2 + j]}, n) IN
    CASE i = n -> 0
      [] m[s1 + i] < m[s2 + i] -> -1
      [] OTHER -> 1

strlen(m, s) == CHOOSE n \in 0..Max(DOMAIN m) :
    /\ m[s + n] = 0
    /\ \A i \in 0..(n - 1) : m[s + i] # 0

\* Both loops stop at a difference or at the end of the first string.
strcmp(m, s1, s2) ==
    LET i == CHOOSE j \in 0..strlen(m, s1) :
                 /\ m[s1 + j] # m[s2 + j] \/ m[s1 + j] = 0
                 /\ \A k \in 0..(j - 1) : m[s1 + k] = m[s2 + k] /\ m[s1 + k] # 0
    IN m[s1 + i] - m[s2 + i]

strncmp(m, s1, s2, n) ==
    LET i == FirstIndex({j \in 0..(n - 1) : m[s1 + j] # m[s2 + j] \/ m[s1 + j] = 0}, n) IN
    IF i = n THEN 0 ELSE m[s1 + i] - m[s2 + i]

strcpy(m, dest, src) == memcpy(m, dest, src, strlen(m, src) + 1)

----------------------------------------------------------------------------
(* What they should do.                                                    *)

Moved(m, dest, src, n) == [a \in DOMAIN m |-> IF a \in dest..(dest + n - 1) THEN m[src + a - dest] ELSE m[a]]
Filled(m, s, c, n) == [a \in DOMAIN m |-> IF a \in s..(s + n - 1) THEN c ELSE m[a]]

\* The string at an address as a sequence, without its end, and the order of
\* two of them by their first difference, the end being less than any byte.
StringAt(m, s) == [i \in 1..strlen(m, s) |-> m[s + i - 1]]
Sign(x) == CASE x < 0 -> -1 [] x = 0 -> 0 [] OTHER -> 1
Less(x, y) == \/ IsStrictPrefix(x, y)
              \/ \E i \in 1..Min({Len(x), Len(y)}) :
                    SubSeq(x, 1, i - 1) = SubSeq(y, 1, i - 1) /\ x[i] < y[i]
Order(x, y) == CASE x = y -> 0 [] Less(x, y) -> -1 [] OTHER -> 1
FirstBytes(x, n) == SubSeq(x, 1, Min({n, Len(x)}))

\* memset over every alignment and length of up to two words and a half, with a value
\* that is more than a byte and a negative one.
SetsRight ==
    LET m == [a \in 0..31 |-> 0] IN
    \A s \in 0..8, n \in 0..20, c \in {300, -1} : memset(m, s, c, n) = Filled(m, s, c % 256, n)

\* memmove over every overlap, memcpy where the regions are apart.
MovesRight ==
    LET m == [a \in 0..7 |-> a] IN
    \A dest, src \in 0..4, n \in 0..4 :
        /\ memmove(m, dest, src, n) = Moved(m, dest, src, n)
        /\ dest + n <= src \/ src + n <= dest => memcpy(m, dest, src, n) = Moved(m, dest, src, n)

\* The comparisons over all pairs of strings of up to three bytes, one of
\* them in the upper half of the byte's range.
ComparesRight ==
    \A x, y \in [1..3 -> {0, 1, 200}] :
        LET m == [a \in 0..11 |-> CASE a < 3 -> x[a + 1] [] a \in 4..6 -> y[a - 3] [] OTHER -> 0]
            s == StringAt(m, 0)
            t == StringAt(m, 4)
        IN /\ Sign(strcmp(m, 0, 4)) = Order(s, t)
           /\ \A n \in 0..4 :
                 /\ Sign(strncmp(m, 0, 4, n)) = Order(FirstBytes(s, n), FirstBytes(t, n))
                 /\ memcmp(m, 0, 4, n) = Order([i \in 1..n |-> m[i - 1]], [i \in 1..n |-> m[i + 3]])
           /\ strcpy(m, 8, 0) = Moved(m, 8, 0, Len(s) + 1)

=============================================================================

------------------------- MODULE ChangeSetNamesProofs -------------------------
(***************************************************************************)
(* Theorems about ChangeSetNames, for revisions of any length over any     *)
(* alphabet, any generations and any limit on the length of names.         *)
(***************************************************************************)
EXTENDS ChangeSetNames, SequenceTheorems, WellFoundedInduction, TLAPS

-----------------------------------------------------------------------------
(* Induction: a set of numbers has a least one.                             *)

LEMMA LeastNumber ==
  ASSUME NEW T, T \subseteq Nat, T # {}
  PROVE  \E n \in T : \A m \in T : n <= m
<1>1. IsWellFoundedOn(OpToRel(<, Nat), Nat)
  BY NatLessThanWellFounded
<1>2. PICK n \in T : \A m \in T : ~ (<<m, n>> \in OpToRel(<, Nat))
  BY <1>1, WFMin
<1>3. ASSUME NEW m \in T PROVE n <= m
  <2>1. m \in Nat /\ n \in Nat
    OBVIOUS
  <2>2. ~ (<<m, n>> \in OpToRel(<, Nat))
    BY <1>2
  <2>3. ~ (m < n)
    BY <2>1, <2>2 DEF OpToRel
  <2>4. QED
    BY <2>1, <2>3
<1>4. QED
  BY <1>3

\* What holds of the empty sequence and, when of a sequence, of it with one more
\* element, holds of all sequences.
LEMMA SequencesByAppending ==
  ASSUME NEW S, NEW T, <<>> \in T,
         \A s \in Seq(S) : \A e \in S : s \in T => Append(s, e) \in T
  PROVE  Seq(S) \subseteq T
<1> DEFINE Bad == {n \in Nat : \E s \in Seq(S) : Len(s) = n /\ s \notin T}
<1>1. SUFFICES ASSUME Bad # {} PROVE FALSE
  OBVIOUS
<1>2. PICK n \in Bad : \A m \in Bad : n <= m
  BY <1>1, LeastNumber
<1>3. PICK s \in Seq(S) : Len(s) = n /\ s \notin T
  BY <1>2
<1>4. s # <<>> /\ n \in Nat \ {0}
  BY <1>3, EmptySeq
<1> DEFINE front == SubSeq(s, 1, n - 1)
<1>5. front \in Seq(S) /\ Len(front) = n - 1 /\ s[n] \in S /\ s = Append(front, s[n])
  BY <1>3, <1>4
<1>6. front \in T
  <2>1. SUFFICES ASSUME front \notin T PROVE FALSE
    OBVIOUS
  <2>2. n - 1 \in Nat
    BY <1>4
  <2>3. n - 1 \in Bad
    BY <1>5, <2>1, <2>2
  <2>4. QED
    BY <1>2, <1>4, <2>3
<1>7. QED
  BY <1>3, <1>5, <1>6

-----------------------------------------------------------------------------
(* FlattenSeq, which ReplaceSpecials and LettersOf are built from.          *)

\* The function FlattenSeq chooses: at i, the first i sequences joined.
Joins(f, ss) == f = [i \in 1..Len(ss) |-> IF i = 1 THEN ss[i] ELSE f[i - 1] \o ss[i]]

LEMMA JoinsAt ==
  ASSUME NEW f, NEW ss, Joins(f, ss), NEW i \in 1..Len(ss)
  PROVE  f[i] = IF i = 1 THEN ss[i] ELSE f[i - 1] \o ss[i]
<1> DEFINE e(j) == IF j = 1 THEN ss[j] ELSE f[j - 1] \o ss[j]
<1>1. f = [j \in 1..Len(ss) |-> e(j)]
  BY DEF Joins
<1> HIDE DEF e
<1>2. f[i] = e(i)
  BY <1>1
<1>3. QED
  BY <1>2 DEF e

LEMMA JoinsExist ==
  ASSUME NEW S
  PROVE  \A ss \in Seq(Seq(S)) : \E f : Joins(f, ss)
<1> DEFINE T == {ss \in Seq(Seq(S)) : \E f : Joins(f, ss)}
<1>1. <<>> \in T
  <2>1. Joins(<<>>, <<>>)
    BY DEF Joins
  <2>2. QED
    BY <2>1
<1>2. ASSUME NEW ss \in Seq(Seq(S)), NEW t \in Seq(S), ss \in T
      PROVE  Append(ss, t) \in T
  <2>1. PICK f : Joins(f, ss)
    BY <1>2
  <2> DEFINE n == Len(ss)
             longer == Append(ss, t)
             g == [i \in 1..(n + 1) |-> IF i <= n THEN f[i] ELSE IF i = 1 THEN t ELSE f[n] \o t]
  <2>2. n \in Nat /\ Len(longer) = n + 1 /\ longer[n + 1] = t
        /\ \A i \in 1..n : longer[i] = ss[i]
    BY AppendProperties
  <2>3. ASSUME NEW i \in 1..(n + 1)
        PROVE  g[i] = IF i = 1 THEN longer[i] ELSE g[i - 1] \o longer[i]
    <3>1. CASE i <= n
      <4>1. i \in 1..Len(ss)
        BY <2>2, <3>1
      <4>2. f[i] = IF i = 1 THEN ss[i] ELSE f[i - 1] \o ss[i]
        BY <2>1, <4>1, JoinsAt
      <4>3. QED
        BY <2>2, <3>1, <4>1, <4>2
    <3>2. CASE i = n + 1
      BY <2>2, <3>2
    <3>3. QED
      BY <2>2, <3>1, <3>2
  <2>4. Joins(g, longer)
    BY <2>2, <2>3 DEF Joins
  <2>5. QED
    BY <2>4
<1>3. QED
  BY <1>1, <1>2, SequencesByAppending

LEMMA JoinsAgree ==
  ASSUME NEW S, NEW ss \in Seq(Seq(S)), NEW t \in Seq(S),
         NEW f, NEW g, Joins(f, ss), Joins(g, Append(ss, t))
  PROVE  \A i \in 1..Len(ss) : f[i] = g[i]
<1> DEFINE Bad == {i \in 1..Len(ss) : f[i] # g[i]}
<1>1. SUFFICES ASSUME Bad # {} PROVE FALSE
  OBVIOUS
<1>2. PICK i \in Bad : \A j \in Bad : i <= j
  <2>1. Bad \subseteq Nat
    OBVIOUS
  <2> HIDE DEF Bad
  <2>2. QED
    BY <1>1, <2>1, LeastNumber
<1>3. i \in 1..Len(ss) /\ Len(ss) \in Nat /\ f[i] # g[i]
  OBVIOUS
<1>4. f[i] = IF i = 1 THEN ss[i] ELSE f[i - 1] \o ss[i]
  BY <1>3, JoinsAt
<1>5. g[i] = IF i = 1 THEN ss[i] ELSE g[i - 1] \o ss[i]
  <2> DEFINE longer == Append(ss, t)
  <2>1. i \in 1..Len(longer) /\ longer[i] = ss[i]
    BY <1>3, AppendProperties
  <2> HIDE DEF longer
  <2>2. g[i] = IF i = 1 THEN longer[i] ELSE g[i - 1] \o longer[i]
    BY <2>1, JoinsAt DEF longer
  <2>3. QED
    BY <2>1, <2>2
<1>6. i # 1
  BY <1>3, <1>4, <1>5
<1>7. i - 1 \in 1..Len(ss) /\ i - 1 < i
  BY <1>3, <1>6
<1>8. f[i - 1] = g[i - 1]
  BY <1>2, <1>3, <1>7
<1>9. QED
  BY <1>3, <1>4, <1>5, <1>6, <1>8

LEMMA FlattenIsJoined ==
  ASSUME NEW S, NEW ss \in Seq(Seq(S)), ss # <<>>
  PROVE  \E f : Joins(f, ss) /\ FlattenSeq(ss) = f[Len(ss)]
<1> DEFINE f == CHOOSE g : Joins(g, ss)
<1>1. Joins(f, ss)
  BY JoinsExist
<1>2. FlattenSeq(ss) = f[Len(ss)]
  BY DEF FlattenSeq, Joins
<1>3. QED
  BY <1>1, <1>2

LEMMA FlattenEmpty == FlattenSeq(<<>>) = <<>>
BY DEF FlattenSeq

LEMMA FlattenAppend ==
  ASSUME NEW S, NEW ss \in Seq(Seq(S)), NEW t \in Seq(S)
  PROVE  FlattenSeq(Append(ss, t)) = FlattenSeq(ss) \o t
<1> DEFINE longer == Append(ss, t)
<1>1. longer \in Seq(Seq(S)) /\ longer # <<>> /\ Len(longer) = Len(ss) + 1
      /\ longer[Len(ss) + 1] = t /\ Len(ss) \in Nat
  BY AppendProperties
<1>2. PICK g : Joins(g, longer) /\ FlattenSeq(longer) = g[Len(longer)]
  BY <1>1, FlattenIsJoined
<1>3. g[Len(longer)] = IF ss = <<>> THEN t ELSE g[Len(ss)] \o t
  <2>1. Len(longer) \in 1..Len(longer)
    BY <1>1
  <2>2. g[Len(longer)] = IF Len(longer) = 1 THEN longer[Len(longer)]
                         ELSE g[Len(longer) - 1] \o longer[Len(longer)]
    BY <1>2, <2>1, JoinsAt
  <2>3. QED
    BY <1>1, <2>2
<1>4. CASE ss = <<>>
  BY <1>2, <1>3, <1>4, FlattenEmpty
<1>5. CASE ss # <<>>
  <2>1. PICK f : Joins(f, ss) /\ FlattenSeq(ss) = f[Len(ss)]
    BY <1>5, FlattenIsJoined
  <2>2. Len(ss) \in 1..Len(ss)
    BY <1>5, <1>1
  <2>3. f[Len(ss)] = g[Len(ss)]
    BY <1>2, <2>1, <2>2, JoinsAgree
  <2>4. QED
    BY <1>2, <1>3, <1>5, <2>1, <2>3
<1>6. QED
  BY <1>4, <1>5

LEMMA FlattenType ==
  ASSUME NEW S
  PROVE  \A ss \in Seq(Seq(S)) : FlattenSeq(ss) \in Seq(S)
<1> DEFINE T == {ss \in Seq(Seq(S)) : FlattenSeq(ss) \in Seq(S)}
<1>1. <<>> \in T
  <2>1. <<>> \in Seq(Seq(S)) /\ <<>> \in Seq(S)
    OBVIOUS
  <2>2. QED
    BY <2>1, FlattenEmpty
<1>2. ASSUME NEW ss \in Seq(Seq(S)), NEW t \in Seq(S), ss \in T
      PROVE  Append(ss, t) \in T
  <2>1. Append(ss, t) \in Seq(Seq(S))
    BY AppendProperties
  <2>2. FlattenSeq(ss) \o t \in Seq(S)
    BY <1>2
  <2>3. QED
    BY <2>1, <2>2, FlattenAppend
<1>3. QED
  BY <1>1, <1>2, SequencesByAppending

-----------------------------------------------------------------------------
(* ReplaceSpecials and LettersOf, one character at a time.                  *)

Digits == {Digit[i] : i \in 1..10}

Alphabet == Characters \cup Digits \cup {"f", "l", "u", "x", "-"}

EndsSpecial(s) == s # <<>> /\ Special(s[Len(s)])

LEMMA AlphabetHas ==
  /\ "-" \in Alphabet /\ "f" \in Alphabet /\ "l" \in Alphabet /\ "u" \in Alphabet
  /\ "x" \in Alphabet /\ Digits \subseteq Alphabet /\ Characters \subseteq Alphabet
  /\ Special("-") /\ Special("/")
  /\ ~Special("f") /\ ~Special("l") /\ ~Special("u") /\ ~Special("x")
BY NameConstants DEF Alphabet, Special

LEMMA DigitsAreWords == \A d \in Digits : ~Special(d)
<1>1. \A i \in 1..10 :
        Digit[i] \in {"0", "1", "2", "3", "4", "5", "6", "7", "8", "9"}
  BY DEF Digit
<1>2. QED
  BY <1>1, NameConstants DEF Digits, Special

LEMMA DigitsDiffer == \A i, j \in 1..10 : Digit[i] = Digit[j] => i = j
BY DEF Digit

LEMMA AppendMaps ==
  ASSUME NEW S, NEW n \in Nat, NEW m \in [1..n -> S], NEW longer \in [1..(n + 1) -> S],
         \A i \in 1..n : longer[i] = m[i]
  PROVE  m \in Seq(S) /\ longer[n + 1] \in S /\ longer = Append(m, longer[n + 1])
<1>1. /\ m \in Seq(S) /\ Len(m) = n
      /\ longer \in Seq(S) /\ Len(longer) = n + 1 /\ longer[n + 1] \in S
  OBVIOUS
<1> DEFINE a == Append(m, longer[n + 1])
<1>2. a \in Seq(S) /\ Len(a) = n + 1 /\ a[n + 1] = longer[n + 1] /\ \A i \in 1..n : a[i] = m[i]
  BY <1>1, AppendProperties
<1> HIDE DEF a
<1>3. \A i \in 1..(n + 1) : a[i] = longer[i]
  BY <1>2
<1>4. a = longer
  BY <1>1, <1>2, <1>3, SeqEqual
<1>5. QED
  BY <1>1, <1>4 DEF a

LEMMA ReplaceEmpty == ReplaceSpecials(<<>>) = <<>> /\ LettersOf(<<>>) = <<>>
<1>1. [i \in DOMAIN <<>> |-> Replacement(<<>>, i)] = <<>>
  OBVIOUS
<1>2. [i \in DOMAIN <<>> |-> IF Special(<<>>[i]) THEN <<>> ELSE << <<>>[i] >>] = <<>>
  OBVIOUS
<1>3. QED
  BY <1>1, <1>2, FlattenEmpty DEF ReplaceSpecials, LettersOf

LEMMA ReplacementType ==
  ASSUME NEW s \in Seq(Alphabet), NEW i \in DOMAIN s
  PROVE  Replacement(s, i) \in Seq(Alphabet)
BY AlphabetHas DEF Replacement

\* A character is kept; a special one becomes a hyphen unless another comes before it.
LEMMA ReplaceAppend ==
  ASSUME NEW s \in Seq(Alphabet), NEW c \in Alphabet
  PROVE  ReplaceSpecials(Append(s, c)) =
           ReplaceSpecials(s) \o (IF ~Special(c) THEN <<c>>
                                  ELSE IF EndsSpecial(s) THEN <<>> ELSE <<"-">>)
<1> DEFINE n == Len(s)
           longer == Append(s, c)
           piece == IF ~Special(c) THEN <<c>>
                    ELSE IF EndsSpecial(s) THEN <<>> ELSE <<"-">>
           m == [i \in DOMAIN s |-> Replacement(s, i)]
           ml == [i \in DOMAIN longer |-> Replacement(longer, i)]
<1>1. n \in Nat /\ DOMAIN s = 1..n /\ DOMAIN longer = 1..(n + 1) /\ longer[n + 1] = c
      /\ \A i \in 1..n : longer[i] = s[i]
  OBVIOUS
<1>2. piece \in Seq(Alphabet)
  BY AlphabetHas
<1>3. m \in [1..n -> Seq(Alphabet)]
  BY <1>1, ReplacementType
<1>4. Replacement(longer, n + 1) = piece
  <2>1. s # <<>> <=> n + 1 > 1
    BY <1>1
  <2> HIDE DEF longer, n
  <2>2. n + 1 > 1 => n + 1 - 1 = n /\ n \in 1..n /\ longer[n + 1 - 1] = s[n]
    BY <1>1
  <2> USE DEF n
  <2>3. QED
    BY <1>1, <2>1, <2>2 DEF Replacement, EndsSpecial
<1>5. ASSUME NEW i \in 1..n PROVE Replacement(longer, i) = Replacement(s, i)
  <2>1. longer[i] = s[i] /\ (i > 1 => longer[i - 1] = s[i - 1])
    BY <1>1
  <2>2. QED
    BY <2>1 DEF Replacement
<1>6. /\ ml \in [1..(n + 1) -> Seq(Alphabet)] /\ ml[n + 1] = piece
      /\ \A i \in 1..n : ml[i] = m[i]
  <2>1. longer \in Seq(Alphabet)
    OBVIOUS
  <2> HIDE DEF piece, longer, n
  <2>2. \A i \in 1..(n + 1) : Replacement(longer, i) \in Seq(Alphabet)
    BY <1>1, <2>1, ReplacementType
  <2>3. QED
    BY <1>1, <1>4, <1>5, <2>2
<1> HIDE DEF piece, m, ml, n, longer
<1>7. m \in Seq(Seq(Alphabet)) /\ ml = Append(m, piece)
  <2>1. n \in Nat
    BY <1>1
  <2>2. m \in Seq(Seq(Alphabet)) /\ ml = Append(m, ml[n + 1])
    BY <1>3, <1>6, <2>1, AppendMaps
  <2>3. QED
    BY <1>6, <2>2
<1>8. FlattenSeq(ml) = FlattenSeq(m) \o piece
  BY <1>2, <1>7, FlattenAppend
<1>9. QED
  BY <1>8 DEF ReplaceSpecials, m, ml, piece, longer

LEMMA LettersAppend ==
  ASSUME NEW s \in Seq(Alphabet), NEW c \in Alphabet
  PROVE  LettersOf(Append(s, c)) = LettersOf(s) \o (IF Special(c) THEN <<>> ELSE <<c>>)
<1> DEFINE n == Len(s)
           longer == Append(s, c)
           Letter(x) == IF Special(x) THEN <<>> ELSE <<x>>
           m == [i \in DOMAIN s |-> Letter(s[i])]
           ml == [i \in DOMAIN longer |-> Letter(longer[i])]
<1>1. n \in Nat /\ DOMAIN s = 1..n /\ DOMAIN longer = 1..(n + 1) /\ longer[n + 1] = c
      /\ \A i \in 1..n : longer[i] = s[i] /\ s[i] \in Alphabet
  OBVIOUS
<1>2. \A x \in Alphabet : Letter(x) \in Seq(Alphabet)
  OBVIOUS
<1> HIDE DEF Letter
<1>3. m \in [1..n -> Seq(Alphabet)]
  BY <1>1, <1>2
<1>4. /\ ml \in [1..(n + 1) -> Seq(Alphabet)] /\ ml[n + 1] = Letter(c)
      /\ \A i \in 1..n : ml[i] = m[i]
  <2>1. \A i \in 1..(n + 1) : longer[i] \in Alphabet
    BY <1>1
  <2> HIDE DEF longer, n
  <2>2. QED
    BY <1>1, <1>2, <2>1
<1> HIDE DEF m, ml, n, longer
<1>5. m \in Seq(Seq(Alphabet)) /\ ml = Append(m, Letter(c))
  BY <1>1, <1>3, <1>4, AppendMaps
<1>6. FlattenSeq(ml) = FlattenSeq(m) \o Letter(c)
  BY <1>2, <1>5, FlattenAppend
<1>7. QED
  BY <1>6 DEF LettersOf, m, ml, Letter, longer

-----------------------------------------------------------------------------
(* Decimal: different numbers have different digits.                        *)

\* The definition of Decimal, for the numbers up to m.
Counts(f, m) ==
  f = [n \in 0..m |-> IF n < 10 THEN <<Digit[n + 1]>>
                      ELSE Append(f[n \div 10], Digit[(n % 10) + 1])]

LEMMA CountsAt ==
  ASSUME NEW f, NEW m, Counts(f, m), NEW n \in 0..m
  PROVE  f[n] = IF n < 10 THEN <<Digit[n + 1]>>
                ELSE Append(f[n \div 10], Digit[(n % 10) + 1])
<1> DEFINE e(j) == IF j < 10 THEN <<Digit[j + 1]>>
                   ELSE Append(f[j \div 10], Digit[(j % 10) + 1])
<1>1. f = [j \in 0..m |-> e(j)]
  BY DEF Counts
<1> HIDE DEF e
<1>2. f[n] = e(n)
  BY <1>1
<1>3. QED
  BY <1>2 DEF e

LEMMA Shorter == \A n \in Nat : n >= 10 => n \div 10 \in 0..(n - 1) /\ n % 10 \in 0..9
OBVIOUS

LEMMA CountsExist == \A m \in Nat : \E f : Counts(f, m)
<1> DEFINE Bad == {m \in Nat : ~ \E f : Counts(f, m)}
<1>1. SUFFICES ASSUME Bad # {} PROVE FALSE
  OBVIOUS
<1>2. PICK m \in Bad : \A k \in Bad : m <= k
  <2>1. Bad \subseteq Nat
    OBVIOUS
  <2> HIDE DEF Bad
  <2>2. QED
    BY <1>1, <2>1, LeastNumber
<1>3. \E f : Counts(f, m)
  <2> DEFINE last(f) == IF m < 10 THEN <<Digit[m + 1]>>
                        ELSE Append(f[m \div 10], Digit[(m % 10) + 1])
  <2>1. \E f : m > 0 => Counts(f, m - 1)
    <3>1. m > 0 => m - 1 \in Nat /\ m - 1 \notin Bad
      BY <1>2
    <3>2. QED
      BY <3>1
  <2>2. PICK f : m > 0 => Counts(f, m - 1)
    BY <2>1
  <2> DEFINE g == [n \in 0..m |-> IF n = m THEN last(f) ELSE f[n]]
  <2>3. ASSUME NEW n \in 0..m
        PROVE  g[n] = IF n < 10 THEN <<Digit[n + 1]>>
                      ELSE Append(g[n \div 10], Digit[(n % 10) + 1])
    <3>1. n \in Nat /\ m \in Nat
      OBVIOUS
    <3>2. n >= 10 => n \div 10 \in 0..(n - 1)
      BY <3>1, Shorter
    <3>3. n >= 10 => g[n \div 10] = f[n \div 10]
      BY <3>1, <3>2
    <3>4. CASE n = m
      BY <3>1, <3>3, <3>4
    <3>5. CASE n # m
      <4>1. m > 0 /\ n \in 0..(m - 1)
        BY <3>1, <3>5
      <4>2. f[n] = IF n < 10 THEN <<Digit[n + 1]>>
                   ELSE Append(f[n \div 10], Digit[(n % 10) + 1])
        BY <2>2, <4>1, CountsAt
      <4>3. g[n] = f[n]
        BY <3>5
      <4>4. QED
        BY <3>1, <3>3, <4>2, <4>3
    <3>6. QED
      BY <3>4, <3>5
  <2>4. Counts(g, m)
    BY <2>3 DEF Counts
  <2>5. QED
    BY <2>4
<1>4. QED
  BY <1>3

LEMMA CountsAgree ==
  ASSUME NEW k \in Nat, NEW m \in Nat, NEW f, NEW g, Counts(f, k), Counts(g, m)
  PROVE  \A n \in Nat : n <= k /\ n <= m => f[n] = g[n]
<1> DEFINE Bad == {n \in Nat : n <= k /\ n <= m /\ f[n] # g[n]}
<1>1. SUFFICES ASSUME Bad # {} PROVE FALSE
  OBVIOUS
<1>2. PICK n \in Bad : \A j \in Bad : n <= j
  <2>1. Bad \subseteq Nat
    OBVIOUS
  <2> HIDE DEF Bad
  <2>2. QED
    BY <1>1, <2>1, LeastNumber
<1>3. n \in Nat /\ n \in 0..k /\ n \in 0..m /\ f[n] # g[n]
  OBVIOUS
<1>4. f[n] = IF n < 10 THEN <<Digit[n + 1]>> ELSE Append(f[n \div 10], Digit[(n % 10) + 1])
  BY <1>3, CountsAt
<1>5. g[n] = IF n < 10 THEN <<Digit[n + 1]>> ELSE Append(g[n \div 10], Digit[(n % 10) + 1])
  BY <1>3, CountsAt
<1>6. n >= 10
  BY <1>3, <1>4, <1>5
<1>7. n \div 10 \in 0..(n - 1)
  BY <1>3, <1>6, Shorter
<1>8. f[n \div 10] = g[n \div 10]
  BY <1>2, <1>3, <1>7
<1>9. QED
  BY <1>3, <1>4, <1>5, <1>8

LEMMA DecimalUnfolds ==
  ASSUME NEW n \in Nat
  PROVE  Decimal[n] = IF n < 10 THEN <<Digit[n + 1]>>
                      ELSE Append(Decimal[n \div 10], Digit[(n % 10) + 1])
<1> DEFINE to(m) == CHOOSE f : Counts(f, m)
           d == [m \in Nat |-> to(m)[m]]
           e(f, m) == IF m < 10 THEN <<Digit[m + 1]>>
                      ELSE Append(f[m \div 10], Digit[(m % 10) + 1])
<1>1. \A m \in Nat : Counts(to(m), m)
  BY CountsExist
<1> HIDE DEF to
<1>2. ASSUME NEW m \in Nat PROVE d[m] = e(d, m)
  <2>1. to(m)[m] = e(to(m), m)
    BY <1>1, CountsAt
  <2>2. CASE m < 10
    BY <2>1, <2>2
  <2>3. CASE m >= 10
    <3>1. m \div 10 \in Nat /\ m \div 10 <= m
      BY <2>3, Shorter
    <3>2. to(m)[m \div 10] = to(m \div 10)[m \div 10]
      BY <1>1, <3>1, CountsAgree
    <3>3. QED
      BY <2>1, <2>3, <3>1, <3>2
  <2>4. QED
    BY <2>2, <2>3
<1>3. d = [m \in Nat |-> e(d, m)]
  BY <1>2
<1>4. \E f : f = [m \in Nat |-> e(f, m)]
  BY <1>3
<1>5. Decimal = [m \in Nat |-> e(Decimal, m)]
  BY <1>4 DEF Decimal
<1> HIDE DEF e
<1>6. Decimal[n] = e(Decimal, n)
  BY <1>5
<1>7. QED
  BY <1>6 DEF e

LEMMA DecimalType == \A n \in Nat : Decimal[n] \in Seq(Digits) /\ Decimal[n] # <<>>
<1> DEFINE Good(n) == Decimal[n] \in Seq(Digits) /\ Decimal[n] # <<>>
           Bad == {n \in Nat : ~Good(n)}
<1>1. SUFFICES ASSUME Bad # {} PROVE FALSE
  OBVIOUS
<1>2. PICK n \in Bad : \A k \in Bad : n <= k
  <2>1. Bad \subseteq Nat
    OBVIOUS
  <2> HIDE DEF Bad
  <2>2. QED
    BY <1>1, <2>1, LeastNumber
<1>3. n \in Nat /\ ~Good(n)
  OBVIOUS
<1>4. Decimal[n] = IF n < 10 THEN <<Digit[n + 1]>>
                   ELSE Append(Decimal[n \div 10], Digit[(n % 10) + 1])
  BY <1>3, DecimalUnfolds
<1>5. \A i \in 0..9 : Digit[i + 1] \in Digits
  BY DEF Digits
<1>6. CASE n < 10
  BY <1>3, <1>4, <1>5, <1>6
<1>7. CASE n >= 10
  <2>1. n \div 10 \in Nat /\ n \div 10 < n /\ n % 10 \in 0..9
    BY <1>3, <1>7, Shorter
  <2>2. Good(n \div 10)
    BY <1>2, <1>3, <2>1
  <2>3. QED
    BY <1>3, <1>4, <1>5, <1>7, <2>1, <2>2
<1>8. QED
  BY <1>3, <1>6, <1>7

LEMMA DecimalDiffers == \A n, m \in Nat : Decimal[n] = Decimal[m] => n = m
<1> DEFINE Bad == {n \in Nat : \E m \in Nat : Decimal[n] = Decimal[m] /\ n # m}
<1>1. SUFFICES ASSUME Bad # {} PROVE FALSE
  OBVIOUS
<1>2. PICK n \in Bad : \A k \in Bad : n <= k
  <2>1. Bad \subseteq Nat
    OBVIOUS
  <2> HIDE DEF Bad
  <2>2. QED
    BY <1>1, <2>1, LeastNumber
<1>3. n \in Nat
  OBVIOUS
<1>4. PICK m \in Nat : Decimal[n] = Decimal[m] /\ n # m
  OBVIOUS
<1> DEFINE first(k) == Decimal[k \div 10]
           last(k) == Digit[(k % 10) + 1]
<1>5. \A k \in Nat : k < 10 => Decimal[k] = <<Digit[k + 1]>>
  BY DecimalUnfolds
<1>6. ASSUME NEW k \in Nat, k >= 10
      PROVE  /\ Decimal[k] = Append(first(k), last(k))
             /\ first(k) \in Seq(Digits) /\ first(k) # <<>> /\ last(k) \in Digits
             /\ k \div 10 \in Nat /\ k \div 10 < k /\ k % 10 \in 0..9
  <2>1. k \div 10 \in Nat /\ k \div 10 < k /\ k % 10 \in 0..9
    BY <1>6, Shorter
  <2>2. Decimal[k] = Append(first(k), last(k))
    <3>1. Decimal[k] = IF k < 10 THEN <<Digit[k + 1]>>
                       ELSE Append(Decimal[k \div 10], Digit[(k % 10) + 1])
      BY DecimalUnfolds
    <3>2. QED
      BY <1>6, <3>1
  <2>3. last(k) \in Digits
    BY <2>1 DEF Digits
  <2>4. QED
    BY <2>1, <2>2, <2>3, DecimalType
<1>7. \A k, j \in Nat : k < 10 /\ j >= 10 => Decimal[k] # Decimal[j]
  <2>1. SUFFICES ASSUME NEW k \in Nat, NEW j \in Nat, k < 10, j >= 10,
                        Decimal[k] = Decimal[j]
                 PROVE  FALSE
    OBVIOUS
  <2>2. Len(Decimal[k]) = 1
    BY <1>5, <2>1
  <2>3. Len(Append(first(j), last(j))) > 1
    <3>1. first(j) \in Seq(Digits) /\ first(j) # <<>> /\ last(j) \in Digits
      BY <1>6, <2>1
    <3> HIDE DEF first, last
    <3>2. QED
      BY <3>1, AppendProperties, EmptySeq
  <2>4. QED
    BY <1>6, <2>1, <2>2, <2>3
<1>8. CASE n < 10 /\ m < 10
  <2>1. Digit[n + 1] = Digit[m + 1]
    BY <1>3, <1>4, <1>5, <1>8
  <2>2. n + 1 \in 1..10 /\ m + 1 \in 1..10
    BY <1>3, <1>8
  <2>3. n + 1 = m + 1
    BY <2>1, <2>2, DigitsDiffer
  <2>4. QED
    BY <1>3, <1>4, <2>3
<1>9. CASE n >= 10 /\ m >= 10
  <2>1. Append(first(n), last(n)) = Append(first(m), last(m))
    BY <1>3, <1>4, <1>6, <1>9
  <2>2. first(n) = first(m) /\ last(n) = last(m)
    <3>1. /\ first(n) \in Seq(Digits) /\ last(n) \in Digits
          /\ first(m) \in Seq(Digits) /\ last(m) \in Digits
      BY <1>3, <1>4, <1>6, <1>9
    <3> HIDE DEF first, last
    <3>2. QED
      BY <2>1, <3>1, AppendInjective
  <2>3. /\ n \div 10 \in Nat /\ n \div 10 < n /\ n % 10 \in 0..9
        /\ m \div 10 \in Nat /\ m % 10 \in 0..9
    BY <1>3, <1>4, <1>6, <1>9
  <2>4. n \div 10 = m \div 10
    BY <1>2, <1>3, <2>2, <2>3
  <2>5. n % 10 = m % 10
    <3>1. (n % 10) + 1 \in 1..10 /\ (m % 10) + 1 \in 1..10
      BY <2>3
    <3>2. (n % 10) + 1 = (m % 10) + 1
      BY <2>2, <3>1, DigitsDiffer
    <3>3. QED
      BY <2>3, <3>2
  <2>6. n = 10 * (n \div 10) + (n % 10) /\ m = 10 * (m \div 10) + (m % 10)
    BY <1>3, <1>4
  <2>7. QED
    BY <1>4, <2>4, <2>5, <2>6
<1>10. QED
  BY <1>3, <1>4, <1>7, <1>8, <1>9

-----------------------------------------------------------------------------
(* What a name begins with and what it is made of.                          *)

LEMMA ReplaceType ==
  \A s \in Seq(Alphabet) :
    /\ ReplaceSpecials(s) \in Seq(Alphabet)
    /\ \A i \in 1..Len(ReplaceSpecials(s)) :
         Special(ReplaceSpecials(s)[i]) => ReplaceSpecials(s)[i] = "-"
<1> DEFINE Good(r) == r \in Seq(Alphabet) /\ \A i \in 1..Len(r) : Special(r[i]) => r[i] = "-"
           T == {s \in Seq(Alphabet) : Good(ReplaceSpecials(s))}
<1>1. <<>> \in T
  <2>1. <<>> \in Seq(Alphabet) /\ Good(<<>>)
    OBVIOUS
  <2>2. QED
    BY <2>1, ReplaceEmpty
<1>2. ASSUME NEW s \in Seq(Alphabet), NEW c \in Alphabet, s \in T
      PROVE  Append(s, c) \in T
  <2> DEFINE r == ReplaceSpecials(s)
             t == IF ~Special(c) THEN <<c>> ELSE IF EndsSpecial(s) THEN <<>> ELSE <<"-">>
  <2>1. Good(r)
    BY <1>2
  <2>2. Good(t)
    BY AlphabetHas
  <2> HIDE DEF r, t
  <2>3. /\ r \o t \in Seq(Alphabet) /\ Len(r \o t) = Len(r) + Len(t)
        /\ Len(r) \in Nat /\ Len(t) \in Nat
        /\ \A i \in 1..Len(r \o t) : (r \o t)[i] = IF i <= Len(r) THEN r[i] ELSE t[i - Len(r)]
    BY <2>1, <2>2, ConcatProperties
  <2>4. \A i \in 1..Len(r \o t) : i <= Len(r) \/ i - Len(r) \in 1..Len(t)
    BY <2>3
  <2>5. Good(r \o t)
    BY <2>1, <2>2, <2>3, <2>4
  <2>6. Append(s, c) \in Seq(Alphabet)
    OBVIOUS
  <2>7. QED
    BY <2>5, <2>6, ReplaceAppend DEF r, t
<1>3. Seq(Alphabet) \subseteq T
  BY <1>1, <1>2, SequencesByAppending
<1>4. QED
  BY <1>3

LEMMA ConcatAppend ==
  ASSUME NEW S, NEW p \in Seq(S), NEW s \in Seq(S), NEW c \in S
  PROVE  /\ p \o Append(s, c) = Append(p \o s, c)
         /\ Append(p, c) = p \o <<c>> /\ p \o <<>> = p /\ <<>> \o p = p
<1>1. Append(s, c) = s \o <<c>> /\ Append(p \o s, c) = (p \o s) \o <<c>>
      /\ <<c>> \in Seq(S) /\ Append(p, c) = p \o <<c>>
  BY AppendIsConcat
<1>2. QED
  BY <1>1, ConcatAssociative, ConcatEmptySeq

LEMMA Associative == \A u, v, w \in Seq(Alphabet) : (u \o v) \o w = u \o (v \o w)
BY ConcatAssociative

\* What a sequence becomes is what any continuation of it begins with.
LEMMA ReplaceContinues ==
  ASSUME NEW p \in Seq(Alphabet)
  PROVE  \A s \in Seq(Alphabet) :
           \E t \in Seq(Alphabet) : ReplaceSpecials(p \o s) = ReplaceSpecials(p) \o t
<1> DEFINE T == {s \in Seq(Alphabet) :
                   \E t \in Seq(Alphabet) : ReplaceSpecials(p \o s) = ReplaceSpecials(p) \o t}
<1>1. <<>> \in T
  <2>1. ReplaceSpecials(p) \in Seq(Alphabet) /\ <<>> \in Seq(Alphabet)
    BY ReplaceType
  <2>2. ReplaceSpecials(p \o <<>>) = ReplaceSpecials(p) \o <<>>
    BY <2>1, ConcatEmptySeq
  <2>3. QED
    BY <2>1, <2>2
<1>2. ASSUME NEW s \in Seq(Alphabet), NEW c \in Alphabet, s \in T
      PROVE  Append(s, c) \in T
  <2>1. PICK t \in Seq(Alphabet) : ReplaceSpecials(p \o s) = ReplaceSpecials(p) \o t
    BY <1>2
  <2>2. PICK u \in Seq(Alphabet) :
          ReplaceSpecials(Append(p \o s, c)) = ReplaceSpecials(p \o s) \o u
    <3>1. p \o s \in Seq(Alphabet)
      OBVIOUS
    <3>2. (IF ~Special(c) THEN <<c>> ELSE IF EndsSpecial(p \o s) THEN <<>> ELSE <<"-">>)
            \in Seq(Alphabet)
      BY AlphabetHas
    <3>3. QED
      BY <3>1, <3>2, ReplaceAppend
  <2>3. ReplaceSpecials(p) \in Seq(Alphabet)
    BY ReplaceType
  <2>4. ReplaceSpecials(p \o Append(s, c)) = ReplaceSpecials(p) \o (t \o u)
    <3>1. p \o Append(s, c) = Append(p \o s, c)
      BY ConcatAppend
    <3>2. (ReplaceSpecials(p) \o t) \o u = ReplaceSpecials(p) \o (t \o u)
      BY <2>3, ConcatAssociative
    <3>3. QED
      BY <2>1, <2>2, <3>1, <3>2
  <2>5. t \o u \in Seq(Alphabet) /\ Append(s, c) \in Seq(Alphabet)
    OBVIOUS
  <2>6. QED
    BY <2>4, <2>5
<1>3. Seq(Alphabet) \subseteq T
  BY <1>1, <1>2, SequencesByAppending
<1>4. QED
  BY <1>3

\* Only hyphens, and no two in a row: nothing to replace.
Clean(s) ==
  \A i \in 1..Len(s) :
    Special(s[i]) => s[i] = "-" /\ (i > 1 => ~Special(s[i - 1]))

LEMMA ReplaceClean == \A s \in Seq(Alphabet) : Clean(s) => ReplaceSpecials(s) = s
<1> DEFINE T == {s \in Seq(Alphabet) : Clean(s) => ReplaceSpecials(s) = s}
<1>1. <<>> \in T
  BY ReplaceEmpty
<1>2. ASSUME NEW s \in Seq(Alphabet), NEW c \in Alphabet, s \in T
      PROVE  Append(s, c) \in T
  <2> DEFINE n == Len(s)
             longer == Append(s, c)
  <2>1. /\ longer \in Seq(Alphabet) /\ n \in Nat /\ Len(longer) = n + 1 /\ longer[n + 1] = c
        /\ \A i \in 1..n : longer[i] = s[i]
    OBVIOUS
  <2>2. SUFFICES ASSUME Clean(longer) PROVE ReplaceSpecials(longer) = longer
    BY <2>1
  <2> HIDE DEF longer
  <2>3. Clean(s)
    <3>1. ASSUME NEW i \in 1..n, Special(s[i])
          PROVE  s[i] = "-" /\ (i > 1 => ~Special(s[i - 1]))
      <4>1. i \in 1..(n + 1) /\ longer[i] = s[i] /\ (i > 1 => longer[i - 1] = s[i - 1])
        BY <2>1
      <4>2. QED
        BY <2>1, <2>2, <3>1, <4>1 DEF Clean
    <3>2. QED
      BY <3>1 DEF Clean
  <2>4. Special(c) => c = "-" /\ ~EndsSpecial(s)
    <3>1. n + 1 \in 1..Len(longer)
      BY <2>1
    <3>2. Special(c) => c = "-" /\ (n + 1 > 1 => ~Special(longer[n + 1 - 1]))
      BY <2>1, <2>2, <3>1 DEF Clean
    <3>3. s # <<>> => n + 1 > 1 /\ n + 1 - 1 = n /\ longer[n + 1 - 1] = s[n]
      BY <2>1
    <3>4. QED
      BY <3>2, <3>3 DEF EndsSpecial
  <2>5. ReplaceSpecials(longer) = s \o <<c>>
    BY <1>2, <2>3, <2>4, ReplaceAppend DEF longer
  <2>6. QED
    BY <2>5, ConcatAppend DEF longer
<1>3. Seq(Alphabet) \subseteq T
  BY <1>1, <1>2, SequencesByAppending
<1>4. QED
  BY <1>3

Prefix(gen) == <<"f", "l", "u", "x", "-">> \o Decimal[gen] \o <<"-">>

LEMMA PrefixFacts ==
  ASSUME NEW gen \in Nat
  PROVE  LET d == Decimal[gen]
             p == Prefix(gen)
         IN /\ d \in Seq(Digits) /\ Len(d) \in Nat \ {0}
            /\ p \in Seq(Alphabet) /\ Len(p) = Len(d) + 6
            /\ p[1] = "f" /\ p[Len(d) + 6] = "-"
            /\ \A i \in 1..Len(d) : p[i + 5] = d[i]
            /\ ReplaceSpecials(p) = p
<1> DEFINE d == Decimal[gen]
           p == Prefix(gen)
           flux == <<"f", "l", "u", "x", "-">>
<1>1. d \in Seq(Digits) /\ d # <<>>
  BY DecimalType
<1>2. d \in Seq(Alphabet) /\ Len(d) \in Nat \ {0} /\ \A i \in 1..Len(d) : d[i] \in Digits
  BY <1>1, AlphabetHas
<1>3. /\ flux \in Seq(Alphabet) /\ Len(flux) = 5 /\ flux[1] = "f" /\ flux[5] = "-"
      /\ flux[2] = "l" /\ flux[3] = "u" /\ flux[4] = "x"
      /\ <<"-">> \in Seq(Alphabet) /\ Len(<<"-">>) = 1 /\ <<"-">>[1] = "-"
  BY AlphabetHas
<1> HIDE DEF flux, d
<1>4. /\ flux \o d \in Seq(Alphabet) /\ Len(flux \o d) = Len(d) + 5
      /\ \A i \in 1..(Len(d) + 5) : (flux \o d)[i] = IF i <= 5 THEN flux[i] ELSE d[i - 5]
  <2>1. /\ flux \o d \in Seq(Alphabet) /\ Len(flux \o d) = 5 + Len(d)
        /\ \A i \in 1..(5 + Len(d)) : (flux \o d)[i] = IF i <= 5 THEN flux[i] ELSE d[i - 5]
    <3>1. flux \in Seq(Alphabet) /\ d \in Seq(Alphabet) /\ Len(flux) = 5
      BY <1>2, <1>3
    <3>2. /\ flux \o d \in Seq(Alphabet) /\ Len(flux \o d) = Len(flux) + Len(d)
          /\ \A i \in 1..(Len(flux) + Len(d)) :
               (flux \o d)[i] = IF i <= Len(flux) THEN flux[i] ELSE d[i - Len(flux)]
      BY <3>1, ConcatProperties
    <3>3. QED
      BY <3>1, <3>2
  <2>2. 5 + Len(d) = Len(d) + 5
    BY <1>2
  <2>3. QED
    BY <2>1, <2>2
<1>5. /\ p \in Seq(Alphabet) /\ Len(p) = Len(d) + 6
      /\ \A i \in 1..(Len(d) + 6) : p[i] = IF i <= Len(d) + 5 THEN (flux \o d)[i] ELSE "-"
  <2>1. p = (flux \o d) \o <<"-">>
    BY DEF Prefix, flux, d
  <2>2. /\ p \in Seq(Alphabet) /\ Len(p) = Len(d) + 6
        /\ \A i \in 1..(Len(d) + 6) :
             p[i] = IF i <= Len(d) + 5 THEN (flux \o d)[i] ELSE <<"-">>[i - (Len(d) + 5)]
    BY <1>2, <1>3, <1>4, <2>1, ConcatProperties
  <2>3. \A i \in 1..(Len(d) + 6) : i <= Len(d) + 5 \/ i - (Len(d) + 5) = 1
    BY <1>2
  <2>4. QED
    BY <1>3, <2>2, <2>3
<1> HIDE DEF p
<1>6. /\ \A i \in 1..5 : p[i] = flux[i]
      /\ \A i \in 1..Len(d) : p[i + 5] = d[i]
      /\ p[Len(d) + 6] = "-"
  <2>1. \A i \in 1..5 : i \in 1..(Len(d) + 5) /\ i \in 1..(Len(d) + 6) /\ i <= Len(d) + 5
    BY <1>2
  <2>2. \A i \in 1..Len(d) :
          /\ i + 5 \in 1..(Len(d) + 5) /\ i + 5 \in 1..(Len(d) + 6) /\ i + 5 <= Len(d) + 5
          /\ ~(i + 5 <= 5) /\ (i + 5) - 5 = i
    BY <1>2
  <2>3. Len(d) + 6 \in 1..(Len(d) + 6) /\ ~(Len(d) + 6 <= Len(d) + 5)
    BY <1>2
  <2>4. \A i \in 1..5 : p[i] = flux[i]
    BY <1>4, <1>5, <2>1
  <2>5. \A i \in 1..Len(d) : p[i + 5] = d[i]
    BY <1>4, <1>5, <2>2
  <2>6. QED
    BY <1>5, <2>3, <2>4, <2>5
<1>7. Clean(p)
  <2>1. SUFFICES ASSUME NEW i \in 1..Len(p), Special(p[i])
                 PROVE  p[i] = "-" /\ (i > 1 => ~Special(p[i - 1]))
    BY DEF Clean
  <2>2. i \in 1..5 \/ i - 5 \in 1..Len(d) \/ i = Len(d) + 6
    BY <1>2, <1>5
  <2>3. ~Special(p[1]) /\ ~Special(p[2]) /\ ~Special(p[3]) /\ ~Special(p[4]) /\ p[5] = "-"
    BY <1>3, <1>6, AlphabetHas
  <2>4. \A j \in 1..Len(d) : ~Special(p[j + 5])
    BY <1>2, <1>6, DigitsAreWords
  <2>5. CASE i \in 1..5
    <3>1. i = 5
      BY <2>1, <2>3, <2>5
    <3>2. QED
      BY <2>3, <3>1
  <2>6. CASE i - 5 \in 1..Len(d)
    <3>1. ~Special(p[(i - 5) + 5]) /\ (i - 5) + 5 = i
      BY <2>4, <2>6
    <3>2. QED
      BY <2>1, <3>1
  <2>7. CASE i = Len(d) + 6
    <3>1. Len(d) \in 1..Len(d) /\ i - 1 = Len(d) + 5
      BY <1>2, <2>7
    <3>2. QED
      BY <1>6, <2>4, <2>7, <3>1
  <2>8. QED
    BY <2>2, <2>5, <2>6, <2>7
<1>8. ReplaceSpecials(p) = p
  BY <1>5, <1>7, ReplaceClean
<1>9. p[1] = "f"
  BY <1>3, <1>6
<1>10. QED
  BY <1>1, <1>2, <1>5, <1>6, <1>8, <1>9 DEF p, d

LEMMA NameFacts ==
  ASSUME NEW gen \in Generations, NEW revision \in Seq(Characters)
  PROVE  LET name == GetChangeSetName(gen, revision)
             p == Prefix(gen)
         IN /\ name \in Seq(Alphabet) /\ Len(p) \in Nat \ {0}
            /\ Len(p) <= Len(name) /\ Len(name) <= MaxLength
            /\ \A i \in 1..Len(p) : name[i] = p[i]
            /\ \A i \in 1..Len(name) : Special(name[i]) => name[i] = "-"
<1> DEFINE p == Prefix(gen)
           full == ReplaceSpecials(Format(gen, revision))
           n == IF Len(full) <= MaxLength THEN Len(full) ELSE MaxLength
           name == SubSeq(full, 1, n)
<1>1. gen \in Nat /\ MaxLength \in Nat
  BY NameConstants
<1>2. p \in Seq(Alphabet) /\ Len(p) \in Nat \ {0} /\ Len(p) <= MaxLength /\ ReplaceSpecials(p) = p
  <2>1. Len(Decimal[gen]) \in Nat /\ Len(p) = Len(Decimal[gen]) + 6
        /\ p \in Seq(Alphabet) /\ ReplaceSpecials(p) = p
    BY <1>1, PrefixFacts
  <2>2. Len(Decimal[gen]) + 6 <= MaxLength
    BY NumbersFit
  <2> HIDE DEF p
  <2>3. QED
    BY <1>1, <2>1, <2>2
<1>3. revision \in Seq(Alphabet)
  BY AlphabetHas, SeqMonotonic
<1>4. Format(gen, revision) = p \o revision /\ Format(gen, revision) \in Seq(Alphabet)
  <2>1. Format(gen, revision) = p \o revision
    BY DEF Format, Prefix
  <2>2. QED
    BY <1>2, <1>3, <2>1, ConcatProperties
<1>5. PICK t \in Seq(Alphabet) : full = p \o t
  <2> HIDE DEF p
  <2>1. \E t \in Seq(Alphabet) : ReplaceSpecials(p \o revision) = ReplaceSpecials(p) \o t
    BY <1>2, <1>3, ReplaceContinues
  <2>2. QED
    BY <1>2, <1>4, <2>1
<1>6. full \in Seq(Alphabet) /\ \A i \in 1..Len(full) : Special(full[i]) => full[i] = "-"
  BY <1>4, ReplaceType
<1> HIDE DEF p, full
<1>7. Len(p) <= Len(full) /\ \A i \in 1..Len(p) : full[i] = p[i]
  <2>1. /\ Len(full) = Len(p) + Len(t) /\ Len(t) \in Nat
        /\ \A i \in 1..(Len(p) + Len(t)) :
             full[i] = IF i <= Len(p) THEN p[i] ELSE t[i - Len(p)]
    BY <1>2, <1>5, ConcatProperties
  <2>2. \A i \in 1..Len(p) : i \in 1..(Len(p) + Len(t)) /\ i <= Len(p)
    BY <1>2, <2>1
  <2>3. QED
    BY <1>2, <2>1, <2>2
<1>8. n \in Nat /\ Len(p) <= n /\ n <= Len(full) /\ n <= MaxLength
  BY <1>1, <1>2, <1>6, <1>7
<1> HIDE DEF n
<1>9. name \in Seq(Alphabet) /\ Len(name) = n /\ \A i \in 1..n : name[i] = full[i]
  BY <1>6, <1>8
<1> HIDE DEF name
<1>10. \A i \in 1..Len(p) : name[i] = p[i]
  BY <1>2, <1>7, <1>8, <1>9
<1>11. \A i \in 1..Len(name) : Special(name[i]) => name[i] = "-"
  BY <1>6, <1>8, <1>9
<1>12. GetChangeSetName(gen, revision) = name
  BY DEF GetChangeSetName, name, n, full
<1>13. QED
  BY <1>2, <1>8, <1>9, <1>10, <1>11, <1>12 DEF p

\* The text between the first two slashes of an ARN.
LEMMA ExtractInvertsArn ==
  ASSUME NEW name \in Seq(Alphabet),
         \A i \in 1..Len(name) : Special(name[i]) => name[i] = "-"
  PROVE  ExtractChangeSetName(Arn(name)) = name
<1> DEFINE n == Len(name)
           arn == Arn(name)
           All == Alphabet \cup {"c", "/", "i", "d"}
           slashes == {i \in DOMAIN arn : arn[i] = "/"}
<1>1. name \in Seq(All) /\ n \in Nat
  BY SeqMonotonic
<1>2. ASSUME NEW i \in 1..n PROVE name[i] # "/"
  BY AlphabetHas
<1>3. /\ arn \in Seq(All) /\ Len(arn) = n + 5
      /\ \A i \in 1..(n + 5) :
           arn[i] = IF i <= 2 THEN <<"c", "/">>[i]
                    ELSE IF i <= n + 2 THEN name[i - 2] ELSE <<"/", "i", "d">>[i - (n + 2)]
  BY <1>1 DEF Arn
<1>4. arn[1] # "/" /\ arn[2] = "/" /\ arn[n + 3] = "/" /\ arn[n + 4] # "/" /\ arn[n + 5] # "/"
  <2>1. /\ 1 \in 1..(n + 5) /\ 2 \in 1..(n + 5) /\ n + 3 \in 1..(n + 5)
        /\ n + 4 \in 1..(n + 5) /\ n + 5 \in 1..(n + 5)
    BY <1>1
  <2>2. arn[1] = "c" /\ arn[2] = "/"
    BY <1>3, <2>1
  <2>3. (n + 3) - (n + 2) = 1 /\ (n + 4) - (n + 2) = 2 /\ (n + 5) - (n + 2) = 3
    BY <1>1
  <2>4. arn[n + 3] = "/" /\ arn[n + 4] = "i" /\ arn[n + 5] = "d"
    BY <1>1, <1>3, <2>1, <2>3
  <2>5. QED
    BY <2>2, <2>4
<1>5. \A i \in 1..n : arn[i + 2] = name[i]
  <2>1. \A i \in 1..n : i + 2 \in 1..(n + 5) /\ ~(i + 2 <= 2) /\ i + 2 <= n + 2 /\ (i + 2) - 2 = i
    BY <1>1
  <2>2. QED
    BY <1>3, <2>1
<1>6. slashes = {2, n + 3}
  <2>1. DOMAIN arn = 1..(n + 5)
    BY <1>3
  <2>2. ASSUME NEW i \in 1..(n + 5), i # 2, i # n + 3 PROVE arn[i] # "/"
    <3>1. i = 1 \/ i - 2 \in 1..n \/ i = n + 4 \/ i = n + 5
      BY <1>1, <2>2
    <3>2. CASE i - 2 \in 1..n
      <4>1. arn[(i - 2) + 2] # "/" /\ (i - 2) + 2 = i
        BY <1>2, <1>5, <3>2
      <4>2. QED
        BY <4>1
    <3>3. QED
      BY <1>4, <3>1, <3>2
  <2>3. 2 \in 1..(n + 5) /\ n + 3 \in 1..(n + 5)
    BY <1>1
  <2> HIDE DEF arn
  <2>4. QED
    BY <1>4, <2>1, <2>2, <2>3
<1> HIDE DEF arn, slashes
<1>7. Min(slashes) = 2
  <2>1. \A i \in slashes : 2 <= i
    BY <1>1, <1>6
  <2>2. \A i \in slashes : (\A j \in slashes : i <= j) => i = 2
    BY <1>1, <1>6
  <2>3. QED
    BY <1>6, <2>1, <2>2 DEF Min
<1>8. Min((slashes \ {2}) \cup {Len(arn) + 1}) = n + 3
  <2>1. (slashes \ {2}) \cup {Len(arn) + 1} = {n + 3, n + 6}
    BY <1>1, <1>3, <1>6
  <2>2. \A i \in {n + 3, n + 6} : (\A j \in {n + 3, n + 6} : i <= j) <=> i = n + 3
    BY <1>1
  <2>3. QED
    BY <2>1, <2>2 DEF Min
<1>9. ExtractChangeSetName(arn) = SubSeq(arn, 3, n + 2)
  <2>1. slashes # {} /\ 2 + 1 = 3 /\ (n + 3) - 1 = n + 2
    BY <1>1, <1>6
  <2>2. QED
    BY <1>7, <1>8, <2>1 DEF ExtractChangeSetName, slashes
<1>10. SubSeq(arn, 3, n + 2) = name
  <2> DEFINE sub == SubSeq(arn, 3, n + 2)
  <2>1. sub \in Seq(All) /\ Len(sub) = n /\ \A i \in 1..n : sub[i] = arn[i + 2]
    BY <1>1, <1>3
  <2> HIDE DEF sub
  <2>2. \A i \in 1..n : sub[i] = name[i]
    BY <1>5, <2>1
  <2>3. sub = name
    BY <1>1, <2>1, <2>2, SeqEqual
  <2>4. QED
    BY <2>3 DEF sub
<1>11. QED
  BY <1>9, <1>10 DEF arn

-----------------------------------------------------------------------------
(* What is left of the words when special characters are replaced.          *)

BreaksIn(s) == {Len(LettersOf(SubSeq(s, 1, i))) : i \in {j \in DOMAIN s : Special(s[j])}}

LEMMA LettersType == \A s \in Seq(Alphabet) : LettersOf(s) \in Seq(Alphabet)
<1> DEFINE T == {s \in Seq(Alphabet) : LettersOf(s) \in Seq(Alphabet)}
<1>1. <<>> \in T
  <2>1. <<>> \in Seq(Alphabet)
    OBVIOUS
  <2>2. QED
    BY <2>1, ReplaceEmpty
<1>2. ASSUME NEW s \in Seq(Alphabet), NEW c \in Alphabet, s \in T
      PROVE  Append(s, c) \in T
  <2> DEFINE x == IF Special(c) THEN <<>> ELSE <<c>>
  <2>1. x \in Seq(Alphabet) /\ Append(s, c) \in Seq(Alphabet)
    OBVIOUS
  <2>2. LettersOf(Append(s, c)) = LettersOf(s) \o x
    BY LettersAppend
  <2> HIDE DEF x
  <2>3. LettersOf(s) \o x \in Seq(Alphabet)
    BY <1>2, <2>1
  <2>4. QED
    BY <2>1, <2>2, <2>3
<1>3. Seq(Alphabet) \subseteq T
  BY <1>1, <1>2, SequencesByAppending
<1>4. QED
  BY <1>3

LEMMA LettersGrow ==
  ASSUME NEW s \in Seq(Alphabet), NEW c \in Alphabet
  PROVE  /\ Special(c) => LettersOf(Append(s, c)) = LettersOf(s)
         /\ ~Special(c) => /\ LettersOf(Append(s, c)) = Append(LettersOf(s), c)
                           /\ Len(LettersOf(Append(s, c))) = Len(LettersOf(s)) + 1
         /\ LettersOf(s) \in Seq(Alphabet) /\ Len(LettersOf(s)) \in Nat
<1>1. LettersOf(s) \in Seq(Alphabet)
  BY LettersType
<1>2. LettersOf(Append(s, c)) = LettersOf(s) \o (IF Special(c) THEN <<>> ELSE <<c>>)
  BY LettersAppend
<1> DEFINE l == LettersOf(s)
<1> HIDE DEF l
<1>3. l \in Seq(Alphabet)
  BY <1>1 DEF l
<1>4. l \o <<>> = l /\ l \o <<c>> = Append(l, c) /\ Len(Append(l, c)) = Len(l) + 1
  BY <1>3, ConcatEmptySeq, AppendIsConcat, AppendProperties
<1>5. Len(l) \in Nat
  BY <1>3
<1>6. QED
  BY <1>2, <1>3, <1>4, <1>5 DEF l

LEMMA BreaksEmpty == BreaksIn(<<>>) = {}
BY DEF BreaksIn

LEMMA BreaksAppend ==
  ASSUME NEW s \in Seq(Alphabet), NEW c \in Alphabet
  PROVE  BreaksIn(Append(s, c)) =
           BreaksIn(s) \cup (IF Special(c) THEN {Len(LettersOf(s))} ELSE {})
<1> DEFINE n == Len(s)
           longer == Append(s, c)
           I == {j \in DOMAIN s : Special(s[j])}
           IL == {j \in DOMAIN longer : Special(longer[j])}
<1>1. /\ n \in Nat /\ DOMAIN s = 1..n /\ DOMAIN longer = 1..(n + 1) /\ longer[n + 1] = c
      /\ \A i \in 1..n : longer[i] = s[i]
  OBVIOUS
<1>2. \A i \in 1..n : SubSeq(longer, 1, i) = SubSeq(s, 1, i)
  <2>1. ASSUME NEW i \in 1..n PROVE SubSeq(longer, 1, i) = SubSeq(s, 1, i)
    OBVIOUS
  <2>2. QED
    BY <2>1
<1>3. SubSeq(longer, 1, n + 1) = longer
  <2>1. longer \in Seq(Alphabet) /\ Len(longer) = n + 1
    OBVIOUS
  <2>2. QED
    BY <2>1, SubSeqFull
<1>4. Special(c) => LettersOf(longer) = LettersOf(s)
  BY LettersGrow
<1> HIDE DEF n, longer
<1>5. IL = I \cup (IF Special(c) THEN {n + 1} ELSE {})
  BY <1>1
<1>6. I \subseteq 1..n
  BY <1>1
<1> HIDE DEF I, IL
<1>7. {Len(LettersOf(SubSeq(longer, 1, i))) : i \in IL} =
        {Len(LettersOf(SubSeq(s, 1, i))) : i \in I}
          \cup (IF Special(c) THEN {Len(LettersOf(s))} ELSE {})
  BY <1>2, <1>3, <1>4, <1>5, <1>6
<1>8. QED
  BY <1>7 DEF BreaksIn, I, IL, longer

LEMMA BreaksBound ==
  \A s \in Seq(Alphabet) :
    /\ BreaksIn(s) \subseteq 0..Len(LettersOf(s))
    /\ EndsSpecial(s) => Len(LettersOf(s)) \in BreaksIn(s)
<1> DEFINE T == {s \in Seq(Alphabet) :
                   /\ BreaksIn(s) \subseteq 0..Len(LettersOf(s))
                   /\ EndsSpecial(s) => Len(LettersOf(s)) \in BreaksIn(s)}
<1>1. <<>> \in T
  <2>1. <<>> \in Seq(Alphabet) /\ ~EndsSpecial(<<>>)
    BY DEF EndsSpecial
  <2>2. QED
    BY <2>1, BreaksEmpty
<1>2. ASSUME NEW s \in Seq(Alphabet), NEW c \in Alphabet, s \in T
      PROVE  Append(s, c) \in T
  <2> DEFINE longer == Append(s, c)
  <2>1. longer \in Seq(Alphabet) /\ longer[Len(longer)] = c
    OBVIOUS
  <2>2. EndsSpecial(longer) => Special(c)
    BY <2>1 DEF EndsSpecial
  <2>3. CASE Special(c)
    BY <1>2, <2>1, <2>3, LettersGrow, BreaksAppend
  <2>4. CASE ~Special(c)
    BY <1>2, <2>1, <2>2, <2>4, LettersGrow, BreaksAppend
  <2>5. QED
    BY <2>3, <2>4
<1>3. Seq(Alphabet) \subseteq T
  BY <1>1, <1>2, SequencesByAppending
<1>4. QED
  BY <1>3

LEMMA ReplaceKeepsWords ==
  \A s \in Seq(Alphabet) :
    /\ LettersOf(ReplaceSpecials(s)) = LettersOf(s)
    /\ BreaksIn(ReplaceSpecials(s)) = BreaksIn(s)
<1> DEFINE Same(r, s) == LettersOf(r) = LettersOf(s) /\ BreaksIn(r) = BreaksIn(s)
           T == {s \in Seq(Alphabet) : Same(ReplaceSpecials(s), s)}
<1>1. <<>> \in T
  <2>1. <<>> \in Seq(Alphabet)
    OBVIOUS
  <2>2. QED
    BY <2>1, ReplaceEmpty
<1>2. ASSUME NEW s \in Seq(Alphabet), NEW c \in Alphabet, s \in T
      PROVE  Append(s, c) \in T
  <2> DEFINE r == ReplaceSpecials(s)
             longer == Append(s, c)
             rl == ReplaceSpecials(longer)
  <2>1. r \in Seq(Alphabet) /\ longer \in Seq(Alphabet) /\ Same(r, s)
    BY <1>2, ReplaceType
  <2>2. rl = r \o (IF ~Special(c) THEN <<c>> ELSE IF EndsSpecial(s) THEN <<>> ELSE <<"-">>)
    BY ReplaceAppend
  <2>3. /\ LettersOf(longer) = LettersOf(s) \o (IF Special(c) THEN <<>> ELSE <<c>>)
        /\ BreaksIn(longer) = BreaksIn(s) \cup (IF Special(c) THEN {Len(LettersOf(s))} ELSE {})
    BY LettersAppend, BreaksAppend
  <2> HIDE DEF r, rl, longer, Same
  <2>4. CASE ~Special(c)
    <3>1. rl = Append(r, c)
      BY <2>1, <2>2, <2>4, AppendIsConcat
    <3>2. QED
      BY <2>1, <2>3, <2>4, <3>1, LettersAppend, BreaksAppend DEF Same, rl, longer
  <2>5. CASE Special(c) /\ EndsSpecial(s)
    <3>1. rl = r
      BY <2>1, <2>2, <2>5, ConcatEmptySeq
    <3>2. LettersOf(longer) = LettersOf(s) /\ BreaksIn(longer) = BreaksIn(s)
      BY <2>3, <2>5, LettersGrow, BreaksBound DEF longer
    <3>3. QED
      BY <2>1, <3>1, <3>2 DEF Same, rl, longer
  <2>6. CASE Special(c) /\ ~EndsSpecial(s)
    <3>1. rl = Append(r, "-") /\ "-" \in Alphabet /\ Special("-")
      BY <2>1, <2>2, <2>6, AppendIsConcat, AlphabetHas
    <3>2. QED
      BY <2>1, <2>3, <2>6, <3>1, LettersAppend, BreaksAppend DEF Same, rl, longer
  <2>7. QED
    BY <2>4, <2>5, <2>6
<1>3. Seq(Alphabet) \subseteq T
  BY <1>1, <1>2, SequencesByAppending
<1>4. QED
  BY <1>3

LEMMA WordsOfConcat ==
  ASSUME NEW p \in Seq(Alphabet)
  PROVE  \A s \in Seq(Alphabet) :
           /\ LettersOf(p \o s) = LettersOf(p) \o LettersOf(s)
           /\ BreaksIn(p \o s) = BreaksIn(p) \cup {Len(LettersOf(p)) + b : b \in BreaksIn(s)}
<1> DEFINE L(s) == LettersOf(p \o s) = LettersOf(p) \o LettersOf(s)
           B(s) == BreaksIn(p \o s) = BreaksIn(p) \cup {Len(LettersOf(p)) + b : b \in BreaksIn(s)}
           T == {s \in Seq(Alphabet) : L(s) /\ B(s)}
<1>1. <<>> \in T
  <2>1. <<>> \in Seq(Alphabet) /\ p \o <<>> = p /\ LettersOf(p) \o <<>> = LettersOf(p)
    BY ConcatEmptySeq, LettersType
  <2>2. QED
    BY <2>1, ReplaceEmpty, BreaksEmpty
<1>2. ASSUME NEW s \in Seq(Alphabet), NEW c \in Alphabet, s \in T
      PROVE  Append(s, c) \in T
  <2> DEFINE x == IF Special(c) THEN <<>> ELSE <<c>>
  <2>1. /\ p \o s \in Seq(Alphabet) /\ Append(s, c) \in Seq(Alphabet) /\ x \in Seq(Alphabet)
        /\ p \o Append(s, c) = Append(p \o s, c)
    BY ConcatAppend
  <2>2. L(s) /\ B(s)
    BY <1>2
  <2>3. /\ LettersOf(p) \in Seq(Alphabet) /\ LettersOf(s) \in Seq(Alphabet)
        /\ LettersOf(p \o s) \in Seq(Alphabet)
    BY <2>1, LettersType
  <2>4. L(Append(s, c))
    <3>1. LettersOf(Append(p \o s, c)) = LettersOf(p \o s) \o x
      BY <2>1, LettersAppend
    <3>2. LettersOf(Append(s, c)) = LettersOf(s) \o x
      BY LettersAppend
    <3> HIDE DEF x
    <3>3. (LettersOf(p) \o LettersOf(s)) \o x = LettersOf(p) \o (LettersOf(s) \o x)
      <4>1. LettersOf(p) \in Seq(Alphabet) /\ LettersOf(s) \in Seq(Alphabet) /\ x \in Seq(Alphabet)
        BY <2>1, <2>3
      <4>2. QED
        BY <4>1, Associative
    <3>4. QED
      BY <2>1, <2>2, <3>1, <3>2, <3>3
  <2>5. B(Append(s, c))
    <3>1. Len(LettersOf(p \o s)) = Len(LettersOf(p)) + Len(LettersOf(s))
      BY <2>2, <2>3, ConcatProperties
    <3>2. BreaksIn(Append(p \o s, c)) =
            BreaksIn(p \o s) \cup (IF Special(c) THEN {Len(LettersOf(p \o s))} ELSE {})
      BY <2>1, BreaksAppend
    <3>3. BreaksIn(Append(s, c)) =
            BreaksIn(s) \cup (IF Special(c) THEN {Len(LettersOf(s))} ELSE {})
      BY BreaksAppend
    <3> DEFINE shift(b) == Len(LettersOf(p)) + b
    <3>4. {shift(b) : b \in BreaksIn(Append(s, c))} =
            {shift(b) : b \in BreaksIn(s)}
              \cup (IF Special(c) THEN {shift(Len(LettersOf(s)))} ELSE {})
      BY <3>3
    <3>5. BreaksIn(p \o Append(s, c)) =
            BreaksIn(p) \cup {shift(b) : b \in BreaksIn(s)}
              \cup (IF Special(c) THEN {shift(Len(LettersOf(s)))} ELSE {})
      BY <2>1, <2>2, <3>1, <3>2
    <3>6. QED
      BY <3>4, <3>5
  <2>6. QED
    BY <2>1, <2>4, <2>5
<1>3. Seq(Alphabet) \subseteq T
  BY <1>1, <1>2, SequencesByAppending
<1>4. QED
  BY <1>3

-----------------------------------------------------------------------------
(* The properties of names, for any two attempts.                           *)

Attempts == [gen : Generations, revision : Seq(Characters)]

TypeOK == one \in Attempts /\ two \in Attempts

LEMMA EveryNameIsValid ==
  ASSUME NEW a \in Attempts
  PROVE  /\ Len(Name(a)) \in 1..MaxLength
         /\ \A i \in DOMAIN Name(a) : Special(Name(a)[i]) => i > 1 /\ Name(a)[i] = "-"
<1>1. a.gen \in Generations /\ a.revision \in Seq(Characters) /\ a.gen \in Nat
  BY NameConstants DEF Attempts
<1> DEFINE name == GetChangeSetName(a.gen, a.revision)
           p == Prefix(a.gen)
<1>2. /\ name \in Seq(Alphabet) /\ Len(p) \in Nat \ {0}
      /\ Len(p) <= Len(name) /\ Len(name) <= MaxLength
      /\ \A i \in 1..Len(p) : name[i] = p[i]
      /\ \A i \in 1..Len(name) : Special(name[i]) => name[i] = "-"
  BY <1>1, NameFacts
<1>3. p[1] = "f"
  BY <1>1, PrefixFacts
<1> HIDE DEF name, p
<1>4. Len(name) \in Nat /\ DOMAIN name = 1..Len(name) /\ MaxLength \in Nat
  BY <1>2, NameConstants
<1>5. name[1] = "f" /\ ~Special(name[1])
  BY <1>2, <1>3, AlphabetHas
<1>6. /\ Len(name) \in 1..MaxLength
      /\ \A i \in DOMAIN name : Special(name[i]) => i > 1 /\ name[i] = "-"
  BY <1>2, <1>4, <1>5
<1>7. QED
  BY <1>6 DEF Name, name

LEMMA EveryNameIsRecognised ==
  ASSUME NEW a \in Attempts
  PROVE  ExtractChangeSetName(Arn(Name(a))) = Name(a)
<1>1. a.gen \in Generations /\ a.revision \in Seq(Characters)
  BY DEF Attempts
<1> DEFINE name == GetChangeSetName(a.gen, a.revision)
<1>2. name \in Seq(Alphabet) /\ \A i \in 1..Len(name) : Special(name[i]) => name[i] = "-"
  BY <1>1, NameFacts
<1> HIDE DEF name
<1>3. ExtractChangeSetName(Arn(name)) = name
  BY <1>2, ExtractInvertsArn
<1>4. QED
  BY <1>3 DEF Name, name

\* The digits of a generation end at a hyphen, so a shorter number shows in the name.
LEMMA EveryGenerationShows ==
  ASSUME NEW a \in Attempts, NEW b \in Attempts, Name(a) = Name(b)
  PROVE  a.gen = b.gen
<1>1. /\ a.gen \in Generations /\ a.revision \in Seq(Characters) /\ a.gen \in Nat
      /\ b.gen \in Generations /\ b.revision \in Seq(Characters) /\ b.gen \in Nat
  BY NameConstants DEF Attempts
<1> DEFINE name == Name(a)
           d == Decimal[a.gen]
           e == Decimal[b.gen]
           p == Prefix(a.gen)
           q == Prefix(b.gen)
<1>2. (\A i \in 1..Len(p) : name[i] = p[i]) /\ (\A i \in 1..Len(q) : name[i] = q[i])
  BY <1>1, NameFacts DEF Name
<1>3. /\ d \in Seq(Digits) /\ Len(d) \in Nat \ {0} /\ Len(p) = Len(d) + 6
      /\ p[Len(d) + 6] = "-" /\ \A i \in 1..Len(d) : p[i + 5] = d[i]
  BY <1>1, PrefixFacts
<1>4. /\ e \in Seq(Digits) /\ Len(e) \in Nat \ {0} /\ Len(q) = Len(e) + 6
      /\ q[Len(e) + 6] = "-" /\ \A i \in 1..Len(e) : q[i + 5] = e[i]
  BY <1>1, PrefixFacts
<1> HIDE DEF name, d, e, p, q
<1>5. /\ name[Len(d) + 6] = "-" /\ \A i \in 1..Len(d) : name[i + 5] = d[i] /\ d[i] # "-"
  <2>1. Len(d) + 6 \in 1..Len(p) /\ \A i \in 1..Len(d) : i + 5 \in 1..Len(p)
    BY <1>3
  <2>2. \A i \in 1..Len(d) : d[i] \in Digits
    BY <1>3
  <2>3. \A c \in Digits : c # "-"
    BY DigitsAreWords, AlphabetHas
  <2>4. QED
    BY <1>2, <1>3, <2>1, <2>2, <2>3
<1>6. /\ name[Len(e) + 6] = "-" /\ \A i \in 1..Len(e) : name[i + 5] = e[i] /\ e[i] # "-"
  <2>1. Len(e) + 6 \in 1..Len(q) /\ \A i \in 1..Len(e) : i + 5 \in 1..Len(q)
    BY <1>4
  <2>2. \A i \in 1..Len(e) : e[i] \in Digits
    BY <1>4
  <2>3. \A c \in Digits : c # "-"
    BY DigitsAreWords, AlphabetHas
  <2>4. QED
    BY <1>2, <1>4, <2>1, <2>2, <2>3
<1>7. Len(d) = Len(e)
  <2>1. CASE Len(d) < Len(e)
    <3>1. Len(d) + 1 \in 1..Len(e) /\ (Len(d) + 1) + 5 = Len(d) + 6
      BY <1>3, <1>4, <2>1
    <3>2. name[(Len(d) + 1) + 5] # "-"
      BY <1>6, <3>1
    <3>3. QED
      BY <1>5, <3>1, <3>2
  <2>2. CASE Len(e) < Len(d)
    <3>1. Len(e) + 1 \in 1..Len(d) /\ (Len(e) + 1) + 5 = Len(e) + 6
      BY <1>3, <1>4, <2>2
    <3>2. name[(Len(e) + 1) + 5] # "-"
      BY <1>5, <3>1
    <3>3. QED
      BY <1>6, <3>1, <3>2
  <2>3. QED
    BY <1>3, <1>4, <2>1, <2>2
<1>8. \A i \in 1..Len(d) : d[i] = e[i]
  BY <1>5, <1>6, <1>7
<1>9. d = e
  BY <1>3, <1>4, <1>7, <1>8, SeqEqual
<1>10. QED
  BY <1>1, <1>9, DecimalDiffers DEF d, e

LEMMA EveryWordShows ==
  ASSUME NEW a \in Attempts, NEW b \in Attempts, Name(a) = Name(b), ~Cut(a), ~Cut(b)
  PROVE  /\ LettersOf(a.revision) = LettersOf(b.revision)
         /\ Breaks(a.revision) = Breaks(b.revision)
<1> DEFINE r == a.revision
           s == b.revision
           p == Prefix(a.gen)
<1>1. /\ a.gen \in Nat /\ a.gen = b.gen /\ r \in Seq(Alphabet) /\ s \in Seq(Alphabet)
  <2>1. a.gen \in Nat /\ r \in Seq(Characters) /\ s \in Seq(Characters)
    BY NameConstants DEF Attempts
  <2>2. QED
    BY <2>1, EveryGenerationShows, AlphabetHas, SeqMonotonic
<1>2. Format(a.gen, r) = p \o r /\ Format(b.gen, s) = p \o s
  BY <1>1 DEF Format, Prefix
<1>3. p \in Seq(Alphabet)
  BY <1>1, PrefixFacts
<1>4. EndsSpecial(p)
  <2>1. Len(p) \in Nat \ {0} /\ p[Len(p)] = "-"
    <3> DEFINE n == Len(Decimal[a.gen])
    <3>1. n \in Nat \ {0} /\ Len(p) = n + 6 /\ p[n + 6] = "-"
      BY <1>1, PrefixFacts
    <3> HIDE DEF n, p
    <3>2. QED
      BY <3>1
  <2>2. p # <<>>
    BY <2>1
  <2>3. QED
    BY <2>1, <2>2, AlphabetHas DEF EndsSpecial
<1> HIDE DEF p, r, s
<1>5. p \o r \in Seq(Alphabet) /\ p \o s \in Seq(Alphabet)
  BY <1>1, <1>3
<1>6. ReplaceSpecials(p \o r) = ReplaceSpecials(p \o s)
  <2> DEFINE x == ReplaceSpecials(p \o r)
             y == ReplaceSpecials(p \o s)
  <2>1. x \in Seq(Alphabet) /\ y \in Seq(Alphabet)
    BY <1>5, ReplaceType
  <2>2. MaxLength \in Nat /\ Len(x) <= MaxLength /\ Len(y) <= MaxLength
    <3>1. Len(x) \in Nat /\ Len(y) \in Nat /\ MaxLength \in Nat
      BY <2>1, NameConstants
    <3>2. ~(Len(x) > MaxLength) /\ ~(Len(y) > MaxLength)
      BY <1>2 DEF Cut, r, s
    <3>3. QED
      BY <3>1, <3>2
  <2>3. Name(a) = SubSeq(x, 1, Len(x)) /\ Name(b) = SubSeq(y, 1, Len(y))
    BY <1>2, <2>2 DEF Name, GetChangeSetName, r, s
  <2> HIDE DEF x, y
  <2>4. x = y
    BY <2>1, <2>3, SubSeqFull
  <2>5. QED
    BY <2>4 DEF x, y
<1>7. LettersOf(p \o r) = LettersOf(p \o s) /\ BreaksIn(p \o r) = BreaksIn(p \o s)
  BY <1>5, <1>6, ReplaceKeepsWords
<1>8. /\ LettersOf(p) \in Seq(Alphabet) /\ LettersOf(r) \in Seq(Alphabet)
      /\ LettersOf(s) \in Seq(Alphabet)
  BY <1>1, <1>3, LettersType
<1>9. LettersOf(r) = LettersOf(s)
  <2>1. LettersOf(p) \o LettersOf(r) = LettersOf(p) \o LettersOf(s)
    BY <1>1, <1>3, <1>7, WordsOfConcat
  <2>2. QED
    BY <1>8, <2>1, ConcatSimplifications
<1>10. BreaksIn(r) \ {0} = BreaksIn(s) \ {0}
  <2> DEFINE n == Len(LettersOf(p))
             shift(x) == {n + i : i \in BreaksIn(x)}
  <2>1. n \in Nat
    BY <1>8
  <2>2. /\ BreaksIn(p) \subseteq 0..n
        /\ BreaksIn(r) \subseteq Nat /\ BreaksIn(s) \subseteq Nat
    <3>1. /\ BreaksIn(p) \subseteq 0..n
          /\ BreaksIn(r) \subseteq 0..Len(LettersOf(r))
          /\ BreaksIn(s) \subseteq 0..Len(LettersOf(s))
      BY <1>1, <1>3, BreaksBound
    <3>2. QED
      BY <1>8, <3>1
  <2>3. BreaksIn(p) \cup shift(r) = BreaksIn(p) \cup shift(s)
    BY <1>1, <1>3, <1>7, WordsOfConcat
  <2> HIDE DEF n
  <2>4. ASSUME NEW x, NEW y, BreaksIn(x) \subseteq Nat, BreaksIn(y) \subseteq Nat,
               shift(x) \subseteq BreaksIn(p) \cup shift(y)
        PROVE  BreaksIn(x) \ {0} \subseteq BreaksIn(y)
    <3>1. SUFFICES ASSUME NEW m \in BreaksIn(x), m # 0 PROVE m \in BreaksIn(y)
      OBVIOUS
    <3>2. m \in Nat /\ n + m \in shift(x) /\ n + m \notin 0..n
      BY <2>1, <2>4, <3>1
    <3>3. PICK k \in BreaksIn(y) : n + m = n + k
      BY <2>2, <2>4, <3>2
    <3>4. k \in Nat
      BY <2>4
    <3>5. m = k
      BY <2>1, <3>2, <3>3, <3>4
    <3>6. QED
      BY <3>3, <3>5
  <2>5. shift(r) \subseteq BreaksIn(p) \cup shift(s) /\ shift(s) \subseteq BreaksIn(p) \cup shift(r)
    BY <2>3
  <2> HIDE DEF shift
  <2>6. BreaksIn(r) \ {0} \subseteq BreaksIn(s) /\ BreaksIn(s) \ {0} \subseteq BreaksIn(r)
    BY <2>2, <2>4, <2>5
  <2>7. QED
    BY <2>6
<1>11. Breaks(r) = Breaks(s)
  BY <1>9, <1>10 DEF Breaks, BreaksIn
<1>12. QED
  BY <1>9, <1>11 DEF r, s

-----------------------------------------------------------------------------
(* What tells one source revision from another: its last word.              *)

Word(s) == \A i \in 1..Len(s) : ~Special(s[i])

LEMMA LettersOfWord ==
  \A s \in Seq(Alphabet) : Word(s) => LettersOf(s) = s /\ BreaksIn(s) = {}
<1> DEFINE T == {s \in Seq(Alphabet) : Word(s) => LettersOf(s) = s}
<1>1. <<>> \in T
  BY ReplaceEmpty
<1>2. ASSUME NEW s \in Seq(Alphabet), NEW c \in Alphabet, s \in T
      PROVE  Append(s, c) \in T
  <2> DEFINE longer == Append(s, c)
  <2>1. /\ longer \in Seq(Alphabet) /\ Len(s) \in Nat /\ Len(longer) = Len(s) + 1
        /\ longer[Len(s) + 1] = c /\ \A i \in 1..Len(s) : longer[i] = s[i]
    OBVIOUS
  <2>2. SUFFICES ASSUME Word(longer) PROVE LettersOf(longer) = longer
    BY <2>1
  <2> HIDE DEF longer
  <2>3. Word(s) /\ ~Special(c)
    <3>1. Len(s) + 1 \in 1..Len(longer) /\ \A i \in 1..Len(s) : i \in 1..Len(longer)
      BY <2>1
    <3>2. QED
      BY <2>1, <2>2, <3>1 DEF Word
  <2>4. QED
    BY <1>2, <2>3, LettersGrow DEF longer
<1>3. Seq(Alphabet) \subseteq T
  BY <1>1, <1>2, SequencesByAppending
<1>4. \A s \in Seq(Alphabet) : Word(s) => BreaksIn(s) = {}
  BY DEF Word, BreaksIn
<1>5. QED
  BY <1>3, <1>4

\* After something special, a word: where it begins is the last break, unless nothing
\* but special characters comes before it.
LEMMA LastBreak ==
  ASSUME NEW x \in Seq(Alphabet), EndsSpecial(x), NEW d \in Seq(Alphabet), Word(d), d # <<>>
  PROVE  LET n == Len(LettersOf(x))
         IN /\ n \in Nat /\ LettersOf(x) \in Seq(Alphabet)
            /\ LettersOf(x \o d) = LettersOf(x) \o d
            /\ Breaks(x \o d) \subseteq 1..n
            /\ n = 0 \/ n \in Breaks(x \o d)
<1> DEFINE n == Len(LettersOf(x))
<1>1. LettersOf(x) \in Seq(Alphabet) /\ n \in Nat
  BY LettersType
<1>2. LettersOf(d) = d /\ BreaksIn(d) = {}
  BY LettersOfWord
<1>3. LettersOf(x \o d) = LettersOf(x) \o d
  BY <1>2, WordsOfConcat
<1>4. BreaksIn(x \o d) = BreaksIn(x)
  <2>1. BreaksIn(x \o d) = BreaksIn(x) \cup {Len(LettersOf(x)) + b : b \in BreaksIn(d)}
    BY WordsOfConcat
  <2>2. QED
    BY <1>2, <2>1
<1>5. BreaksIn(x) \subseteq 0..n /\ n \in BreaksIn(x)
  BY BreaksBound
<1>6. Len(LettersOf(x \o d)) > n
  <2>1. Len(d) \in Nat \ {0}
    BY EmptySeq
  <2>2. Len(LettersOf(x) \o d) = n + Len(d)
    BY <1>1, ConcatProperties
  <2>3. QED
    BY <1>1, <1>3, <2>1, <2>2
<1>7. Breaks(x \o d) = BreaksIn(x \o d) \ {0, Len(LettersOf(x \o d))}
  BY DEF Breaks, BreaksIn
<1> HIDE DEF n
<1>8. Breaks(x \o d) \subseteq 1..n /\ (n = 0 \/ n \in Breaks(x \o d))
  BY <1>1, <1>4, <1>5, <1>6, <1>7
<1>9. QED
  BY <1>1, <1>3, <1>8 DEF n

-----------------------------------------------------------------------------
(* The theorems.                                                            *)

\* The attempts are made of a generation and of any revision.
THEOREM NamesType == Spec => []TypeOK
<1>1. Init => TypeOK
  <2>1. <<>> \in Seq(Characters)
    OBVIOUS
  <2>2. [gen : Generations, revision : {<<>>}] \subseteq Attempts
    BY <2>1 DEF Attempts
  <2>3. QED
    BY <2>2 DEF Init, TypeOK
<1>2. ASSUME TypeOK, [Next]_vars PROVE TypeOK'
  <2>1. ASSUME NEW a \in Attempts, NEW b \in Longer(a) PROVE b \in Attempts
    <3>1. PICK c \in Characters : b = [a EXCEPT !.revision = Append(@, c)]
      BY <2>1 DEF Longer
    <3>2. a.revision \in Seq(Characters)
      BY DEF Attempts
    <3>3. Append(a.revision, c) \in Seq(Characters)
      BY <3>2
    <3>4. QED
      BY <3>1, <3>3 DEF Attempts
  <2>2. CASE Next
    BY <1>2, <2>1, <2>2 DEF TypeOK, Next
  <2>3. CASE UNCHANGED vars
    BY <1>2, <2>3 DEF TypeOK, vars
  <2>4. QED
    BY <1>2, <2>2, <2>3
<1>3. QED
  BY <1>1, <1>2, PTL DEF Spec

\* Whatever the revision holds, GetChangeSetName returns a name the service takes.
THEOREM NamesAreValidHolds == Spec => []NamesAreValid
<1>1. TypeOK => NamesAreValid
  BY EveryNameIsValid DEF TypeOK, NamesAreValid
<1>2. QED
  BY <1>1, NamesType, PTL

\* What ExtractChangeSetName finds in an ARN is the name its change set was created with.
THEOREM RecognisesItsOwnHolds == Spec => []RecognisesItsOwn
<1>1. TypeOK => RecognisesItsOwn
  BY EveryNameIsRecognised DEF TypeOK, RecognisesItsOwn
<1>2. QED
  BY <1>1, NamesType, PTL

\* Names of different generations differ, cut or not.
THEOREM GenerationsDifferHolds == Spec => []GenerationsDiffer
<1>1. TypeOK => GenerationsDiffer
  BY EveryGenerationShows DEF TypeOK, GenerationsDiffer
<1>2. QED
  BY <1>1, NamesType, PTL

\* Uncut names are only the same for revisions of the same words.
THEOREM SameNameSameWordsHolds == Spec => []SameNameSameWords
<1>1. TypeOK => SameNameSameWords
  BY EveryWordShows DEF TypeOK, SameNameSameWords
<1>2. QED
  BY <1>1, NamesType, PTL

\* Source revisions end in a digest after a colon: two attempts with the same uncut name
\* are of the same generation and the same digest, whatever the branches are called.
THEOREM SameNameSameDigest ==
  ASSUME NEW a \in Attempts, NEW b \in Attempts, Name(a) = Name(b), ~Cut(a), ~Cut(b),
         NEW x \in Seq(Alphabet), EndsSpecial(x), NEW d \in Seq(Alphabet), Word(d), d # <<>>,
         NEW y \in Seq(Alphabet), EndsSpecial(y), NEW e \in Seq(Alphabet), Word(e), e # <<>>,
         a.revision = x \o d, b.revision = y \o e
  PROVE  a.gen = b.gen /\ d = e
<1> DEFINE n == Len(LettersOf(x))
           m == Len(LettersOf(y))
<1>1. a.gen = b.gen
  BY EveryGenerationShows
<1>2. LettersOf(x \o d) = LettersOf(y \o e) /\ Breaks(x \o d) = Breaks(y \o e)
  BY EveryWordShows
<1>3. /\ n \in Nat /\ LettersOf(x) \in Seq(Alphabet) /\ LettersOf(x \o d) = LettersOf(x) \o d
      /\ Breaks(x \o d) \subseteq 1..n /\ (n = 0 \/ n \in Breaks(x \o d))
  BY LastBreak
<1>4. /\ m \in Nat /\ LettersOf(y) \in Seq(Alphabet) /\ LettersOf(y \o e) = LettersOf(y) \o e
      /\ Breaks(y \o e) \subseteq 1..m /\ (m = 0 \/ m \in Breaks(y \o e))
  BY LastBreak
<1> HIDE DEF n, m
<1>5. n = m
  BY <1>2, <1>3, <1>4
<1>6. d = e
  <2> DEFINE u == LettersOf(x)
             v == LettersOf(y)
  <2>1. u \o d = v \o e /\ Len(u) = Len(v) /\ u \in Seq(Alphabet) /\ v \in Seq(Alphabet)
    BY <1>2, <1>3, <1>4, <1>5 DEF n, m
  <2> HIDE DEF u, v
  <2>2. d = SubSeq(u \o d, Len(u) + 1, Len(u \o d)) /\ e = SubSeq(v \o e, Len(v) + 1, Len(v \o e))
    BY <2>1
  <2>3. QED
    BY <2>1, <2>2
<1>7. QED
  BY <1>1, <1>6

\* Replacing makes nothing longer.
LEMMA ReplaceShortens == \A s \in Seq(Alphabet) : Len(ReplaceSpecials(s)) <= Len(s)
<1> DEFINE T == {s \in Seq(Alphabet) : Len(ReplaceSpecials(s)) <= Len(s)}
<1>1. <<>> \in T
  <2>1. <<>> \in Seq(Alphabet)
    OBVIOUS
  <2>2. QED
    BY <2>1, ReplaceEmpty
<1>2. ASSUME NEW s \in Seq(Alphabet), NEW c \in Alphabet, s \in T
      PROVE  Append(s, c) \in T
  <2> DEFINE r == ReplaceSpecials(s)
             x == IF ~Special(c) THEN <<c>> ELSE IF EndsSpecial(s) THEN <<>> ELSE <<"-">>
  <2>1. ReplaceSpecials(Append(s, c)) = r \o x
    BY ReplaceAppend
  <2>2. x \in Seq(Alphabet) /\ Len(x) <= 1
    BY AlphabetHas
  <2>3. r \in Seq(Alphabet) /\ Len(r) <= Len(s)
    BY <1>2, ReplaceType
  <2> HIDE DEF r, x
  <2>4. Len(r \o x) = Len(r) + Len(x) /\ Len(r) \in Nat /\ Len(x) \in Nat
    BY <2>2, <2>3, ConcatProperties
  <2>5. Append(s, c) \in Seq(Alphabet) /\ Len(Append(s, c)) = Len(s) + 1 /\ Len(s) \in Nat
    BY AppendProperties
  <2>6. QED
    BY <2>1, <2>2, <2>3, <2>4, <2>5
<1>3. Seq(Alphabet) \subseteq T
  BY <1>1, <1>2, SequencesByAppending
<1>4. QED
  BY <1>3

\* No name is cut of a revision that fits beside the generation.
THEOREM ShortRevisionsAreUncut ==
  ASSUME NEW a \in Attempts, Len(Decimal[a.gen]) + 6 + Len(a.revision) <= MaxLength
  PROVE  ~Cut(a)
<1> DEFINE p == Prefix(a.gen)
           r == a.revision
           n == Len(Decimal[a.gen])
<1>1. a.gen \in Nat /\ r \in Seq(Alphabet)
  <2>1. a.gen \in Nat /\ r \in Seq(Characters)
    BY NameConstants DEF Attempts
  <2>2. QED
    BY <2>1, AlphabetHas, SeqMonotonic
<1>2. p \in Seq(Alphabet) /\ Len(p) = n + 6 /\ n \in Nat
  BY <1>1, PrefixFacts
<1>3. Format(a.gen, r) = p \o r
  BY DEF Format, Prefix
<1> HIDE DEF p, r
<1>4. p \o r \in Seq(Alphabet) /\ Len(p \o r) = Len(p) + Len(r) /\ Len(r) \in Nat
  <2>1. p \in Seq(Alphabet) /\ r \in Seq(Alphabet)
    BY <1>1, <1>2
  <2>2. QED
    BY <2>1
<1>5. Len(ReplaceSpecials(p \o r)) <= Len(p \o r) /\ Len(ReplaceSpecials(p \o r)) \in Nat
  <2> DEFINE s == p \o r
  <2>1. s \in Seq(Alphabet)
    BY <1>4
  <2> HIDE DEF s
  <2>2. Len(ReplaceSpecials(s)) <= Len(s) /\ ReplaceSpecials(s) \in Seq(Alphabet)
    BY <2>1, ReplaceShortens, ReplaceType
  <2>3. QED
    BY <2>2 DEF s
<1>6. n + 6 + Len(r) <= MaxLength /\ MaxLength \in Nat
  BY NameConstants DEF r
<1> HIDE DEF n
<1>7. ~(Len(ReplaceSpecials(p \o r)) > MaxLength)
  BY <1>2, <1>4, <1>5, <1>6
<1>8. QED
  BY <1>3, <1>7 DEF Cut, r

\* And every name is cut of two revisions that begin with as much as a name holds: two
\* commits of a branch with a long name share their change set's name.
THEOREM LongBranchesShareNames ==
  ASSUME NEW a \in Attempts, NEW b \in Attempts, a.gen = b.gen,
         NEW x \in Seq(Alphabet), NEW d \in Seq(Alphabet), NEW e \in Seq(Alphabet),
         a.revision = x \o d, b.revision = x \o e,
         Len(ReplaceSpecials(Format(a.gen, x))) >= MaxLength
  PROVE  Name(a) = Name(b)
<1> DEFINE p == Prefix(a.gen)
           full(s) == ReplaceSpecials(p \o (x \o s))
           begin == ReplaceSpecials(p \o x)
<1>1. p \in Seq(Alphabet) /\ MaxLength \in Nat
  <2>1. a.gen \in Nat /\ MaxLength \in Nat
    BY NameConstants DEF Attempts
  <2>2. QED
    BY <2>1, PrefixFacts
<1>2. /\ Format(a.gen, x) = p \o x
      /\ Format(a.gen, a.revision) = p \o (x \o d)
      /\ Format(b.gen, b.revision) = p \o (x \o e)
  BY DEF Format, Prefix
<1> HIDE DEF p
<1>3. p \o x \in Seq(Alphabet) /\ begin \in Seq(Alphabet) /\ Len(begin) >= MaxLength
  <2> DEFINE s == p \o x
  <2>1. s \in Seq(Alphabet) /\ Len(ReplaceSpecials(s)) >= MaxLength
    BY <1>1, <1>2
  <2> HIDE DEF s
  <2>2. ReplaceSpecials(s) \in Seq(Alphabet)
    BY <2>1, ReplaceType
  <2>3. QED
    BY <2>1, <2>2 DEF s
<1>4. ASSUME NEW s \in Seq(Alphabet)
      PROVE  /\ Len(full(s)) \in Nat /\ Len(full(s)) >= MaxLength
             /\ SubSeq(full(s), 1, MaxLength) = SubSeq(begin, 1, MaxLength)
  <2>1. p \o (x \o s) = (p \o x) \o s
    <3>1. p \in Seq(Alphabet) /\ x \in Seq(Alphabet) /\ s \in Seq(Alphabet)
      BY <1>1
    <3>2. QED
      BY <3>1, Associative
  <2>2. PICK t \in Seq(Alphabet) : full(s) = begin \o t
    <3> DEFINE q == p \o x
    <3>1. q \in Seq(Alphabet)
      BY <1>3
    <3> HIDE DEF q
    <3>2. PICK t \in Seq(Alphabet) : ReplaceSpecials(q \o s) = ReplaceSpecials(q) \o t
      BY <3>1, ReplaceContinues
    <3>3. QED
      BY <2>1, <3>2 DEF q
  <2> HIDE DEF begin, full
  <2>3. /\ Len(begin \o t) = Len(begin) + Len(t) /\ Len(begin) \in Nat /\ Len(t) \in Nat
        /\ begin \o t \in Seq(Alphabet)
        /\ \A i \in 1..Len(begin) : (begin \o t)[i] = begin[i]
    BY <1>3
  <2>4. SubSeq(begin \o t, 1, MaxLength) = SubSeq(begin, 1, MaxLength)
    BY <1>1, <1>3, <2>3
  <2>5. QED
    BY <1>1, <1>3, <2>2, <2>3, <2>4
<1> HIDE DEF full, begin
<1>5. /\ Len(full(d)) = MaxLength \/ ~(Len(full(d)) <= MaxLength)
      /\ Len(full(e)) = MaxLength \/ ~(Len(full(e)) <= MaxLength)
  BY <1>1, <1>4
<1>6. /\ Name(a) = SubSeq(full(d), 1, MaxLength)
      /\ Name(b) = SubSeq(full(e), 1, MaxLength)
  BY <1>2, <1>5 DEF Name, GetChangeSetName, full
<1>7. QED
  BY <1>4, <1>6

==============================================================================

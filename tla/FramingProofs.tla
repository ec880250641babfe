---------------------------- MODULE FramingProofs ---------------------------
(* That a cut text leaves the stream in step and the list box true, for bodies of any
   length up to 999 characters, all lists of lobbies and any number of them: a text, a
   list and a number are gone through from left to right, each by a loop of as many turns
   as it has parts, and the stream is the messages one behind the other. *)
EXTENDS Framing, WellFoundedInduction, SequenceTheorems, TLAPS

-----------------------------------------------------------------------------
(* Induction is by the least turn of a loop that is not where it should be. *)
LEMMA LeastNatural ==
    ASSUME NEW T \in SUBSET Nat, T # {}
    PROVE  \E n \in T : \A m \in T : n <= m
<1> DEFINE R == OpToRel(<, Nat)
<1>1. IsWellFoundedOn(R, Nat)
  BY NatLessThanWellFounded
<1>2. \A m, n \in Nat : m < n => <<m, n>> \in R
  BY DEF OpToRel
<1> HIDE DEF R
<1>3. PICK n \in T : \A m \in T : <<m, n>> \notin R
  BY <1>1, WFMin
<1>4. n \in Nat
  OBVIOUS
<1>5. ASSUME NEW m \in T PROVE n <= m
  <2>1. m \in Nat /\ ~(m < n)
    BY <1>2, <1>3, <1>4
  <2> QED
    BY <1>4, <2>1
<1> QED
  BY <1>5

(* A set of numbers that holds 0, and with each number below last the next. *)
LEMMA EveryTurn ==
    ASSUME NEW last \in Nat, NEW T \in SUBSET Nat, 0 \in T,
           \A n \in Nat : n < last /\ n \in T => n + 1 \in T
    PROVE  0 .. last \subseteq T
<1> SUFFICES ASSUME (0 .. last) \ T # {} PROVE FALSE
  OBVIOUS
<1>1. PICK n \in (0 .. last) \ T : \A m \in (0 .. last) \ T : n <= m
  <2> DEFINE U == (0 .. last) \ T
  <2>1. U \in SUBSET Nat /\ U # {}
    OBVIOUS
  <2> HIDE DEF U
  <2>2. \E n \in U : \A m \in U : n <= m
    BY <2>1, LeastNatural
  <2> QED
    BY <2>2 DEF U
<1>2. n \in 1 .. last /\ n - 1 \in 0 .. last /\ n - 1 < last
  BY <1>1
<1>3. n - 1 \in T
  BY <1>1, <1>2
<1>4. n - 1 \in Nat /\ (n - 1) + 1 = n /\ n \notin T
  BY <1>1, <1>2
<1> QED
  BY <1>2, <1>3, <1>4

Course(g, start, step, text) ==
    g = [i \in 0 .. Len(text) |-> IF i = 0 THEN start ELSE step[<<g[i - 1], text[i]>>]]

(* A loop through a text, from a given start, has a course. *)
LEMMA LoopRuns ==
    ASSUME NEW D, NEW start \in D, NEW C, NEW step \in [D \X C -> D], NEW text \in Seq(C)
    PROVE  \E g \in [0 .. Len(text) -> D] : Course(g, start, step, text)
<1> DEFINE Runs(k) == \E g \in [0 .. k -> D] :
               g = [i \in 0 .. k |-> IF i = 0 THEN start ELSE step[<<g[i - 1], text[i]>>]]
           T == {k \in Nat : k <= Len(text) => Runs(k)}
<1>1. 0 \in T
  <2> DEFINE g == [n \in 0 .. 0 |-> start]
  <2>1. g \in [0 .. 0 -> D]
    OBVIOUS
  <2>2. g = [i \in 0 .. 0 |-> IF i = 0 THEN start ELSE step[<<g[i - 1], text[i]>>]]
    OBVIOUS
  <2> QED
    BY <2>1, <2>2
<1>2. ASSUME NEW k \in Nat, k < Len(text), k \in T PROVE k + 1 \in T
  <2>1. PICK g \in [0 .. k -> D] :
            g = [i \in 0 .. k |-> IF i = 0 THEN start ELSE step[<<g[i - 1], text[i]>>]]
    BY <1>2
  <2> DEFINE h == [n \in 0 .. k + 1 |-> IF n = k + 1 THEN step[<<g[k], text[k + 1]>>] ELSE g[n]]
  <2>2. h \in [0 .. k + 1 -> D]
    <3>1. k + 1 \in 1 .. Len(text) /\ k \in 0 .. k
      BY <1>2
    <3>2. <<g[k], text[k + 1]>> \in D \X C
      BY <3>1
    <3>3. step[<<g[k], text[k + 1]>>] \in D
      BY <3>2
    <3>4. \A n \in 0 .. k + 1 : n # k + 1 => g[n] \in D
      OBVIOUS
    <3> QED
      BY <3>3, <3>4
  <2>3. ASSUME NEW n \in 0 .. k + 1
        PROVE  h[n] = IF n = 0 THEN start ELSE step[<<h[n - 1], text[n]>>]
    <3>1. CASE n = k + 1
      <4>1. n # 0 /\ n - 1 = k /\ k \in 0 .. k + 1 /\ k # k + 1
        BY <3>1
      <4>2. h[k] = g[k] /\ h[n] = step[<<g[k], text[n]>>]
        BY <3>1, <4>1
      <4> HIDE DEF h
      <4> QED
        BY <4>1, <4>2
    <3>2. CASE n # k + 1
      <4>1. n \in 0 .. k /\ h[n] = g[n] /\ (n # 0 => h[n - 1] = g[n - 1])
        BY <3>2
      <4>2. g[n] = IF n = 0 THEN start ELSE step[<<g[n - 1], text[n]>>]
        BY <2>1, <4>1
      <4> HIDE DEF h
      <4> QED
        BY <4>1, <4>2
    <3> QED
      BY <3>1, <3>2
  <2>4. h = [i \in 0 .. k + 1 |-> IF i = 0 THEN start ELSE step[<<h[i - 1], text[i]>>]]
    <3>1. h = [n \in 0 .. k + 1 |-> h[n]]
      OBVIOUS
    <3> HIDE DEF h
    <3> QED
      BY <2>3, <3>1
  <2> HIDE DEF h
  <2>5. Runs(k + 1)
    BY <2>2, <2>4
  <2> HIDE DEF Runs
  <2> QED
    BY <2>5
<1>3. T \in SUBSET Nat /\ Len(text) \in Nat
  OBVIOUS
<1>4. Len(text) \in T
  <2> HIDE DEF T
  <2>1. \A k \in Nat : k < Len(text) /\ k \in T => k + 1 \in T
    BY <1>2
  <2>2. 0 .. Len(text) \subseteq T
    BY <1>1, <1>3, <2>1, EveryTurn
  <2> QED
    BY <1>3, <2>2
<1> QED
  BY <1>3, <1>4 DEF Course

-----------------------------------------------------------------------------
(* Numbers and their texts. *)
AtoiValue(v, text) ==
    v = [i \in 0 .. Len(text) |->
            IF i = 0 THEN 0
            ELSE IF text[i] \in Digit THEN 10 * v[i - 1] + text[i] - Zero
            ELSE v[i - 1]]

LEMMA AtoiRuns ==
    ASSUME NEW text \in Seq(Int)
    PROVE  \E v \in [0 .. Len(text) -> Int] : AtoiValue(v, text) /\ Atoi(text) = v[Len(text)]
<1> DEFINE step == [x \in Int \X Int |->
                       IF x[2] \in Digit THEN 10 * x[1] + x[2] - Zero ELSE x[1]]
           v == CHOOSE v : AtoiValue(v, text)
           T == {i \in Nat : i <= Len(text) => v[i] \in Int}
<1>1. Len(text) \in Nat /\ \A i \in 1 .. Len(text) : text[i] \in Int
  OBVIOUS
<1>2. \E g : AtoiValue(g, text)
  <2>1. step \in [Int \X Int -> Int]
    BY DEF Zero
  <2>2. PICK g \in [0 .. Len(text) -> Int] : Course(g, 0, step, text)
    <3> DEFINE D == Int
    <3>1. 0 \in D /\ step \in [D \X Int -> D]
      BY <2>1
    <3> HIDE DEF step, D
    <3>2. \E g \in [0 .. Len(text) -> D] : Course(g, 0, step, text)
      BY <3>1, LoopRuns
    <3> QED
      BY <3>2 DEF D
  <2>3. ASSUME NEW i \in 0 .. Len(text)
        PROVE  g[i] = IF i = 0 THEN 0
                      ELSE IF text[i] \in Digit THEN 10 * g[i - 1] + text[i] - Zero
                      ELSE g[i - 1]
    <3>1. CASE i = 0
      <4> HIDE DEF step
      <4> QED
        BY <2>2, <3>1 DEF Course
    <3>2. CASE i # 0
      <4>1. i \in 1 .. Len(text) /\ i - 1 \in 0 .. Len(text)
        BY <1>1, <3>2
      <4>2. g[i] = step[<<g[i - 1], text[i]>>] /\ <<g[i - 1], text[i]>> \in Int \X Int
        <5> HIDE DEF step
        <5> QED
          BY <1>1, <2>2, <3>2, <4>1 DEF Course
      <4> QED
        BY <3>2, <4>2
    <3> QED
      BY <3>1, <3>2
  <2>4. g = [i \in 0 .. Len(text) |-> g[i]]
    BY <2>2
  <2>5. AtoiValue(g, text)
    <3> HIDE DEF step
    <3> QED
      BY <2>3, <2>4 DEF AtoiValue
  <2> QED
    BY <2>5
<1>3. AtoiValue(v, text)
  BY <1>2
<1>4. Atoi(text) = v[Len(text)]
  BY DEF Atoi, AtoiValue
<1> HIDE DEF v
<1>5. 0 \in T
  BY <1>1, <1>3 DEF AtoiValue
<1>6. ASSUME NEW n \in Nat, n < Len(text), n \in T PROVE n + 1 \in T
  <2>1. n + 1 \in 0 .. Len(text) /\ n + 1 \in 1 .. Len(text) /\ n + 1 # 0 /\ (n + 1) - 1 = n /\ v[n] \in Int
    BY <1>1, <1>6
  <2>2. v[n + 1] = IF text[n + 1] \in Digit THEN 10 * v[n] + text[n + 1] - Zero ELSE v[n]
    BY <1>3, <2>1 DEF AtoiValue
  <2>3. v[n + 1] \in Int
    BY <1>1, <2>1, <2>2 DEF Zero
  <2> QED
    BY <2>3
<1>7. 0 .. Len(text) \subseteq T
  <2>1. T \in SUBSET Nat
    OBVIOUS
  <2> HIDE DEF T
  <2> QED
    BY <1>1, <1>5, <1>6, <2>1, EveryTurn
<1>8. v \in [0 .. Len(text) -> Int]
  <2>1. \A i \in 0 .. Len(text) : v[i] \in Int
    BY <1>1, <1>7
  <2>2. v = [i \in 0 .. Len(text) |-> v[i]]
    BY <1>3 DEF AtoiValue
  <2> QED
    BY <2>1, <2>2
<1> QED
  BY <1>3, <1>4, <1>8

(* The digits of a number, and what they are worth. *)
LEMMA Digits ==
    ASSUME NEW n \in Number
    PROVE  /\ Decimal(n) \in Seq(Digit) /\ Len(Decimal(n)) \in 1 .. 3
           /\ Decimal(n) \in Seq(Int)
           /\ Len(Decimal(n)) = 1 => n = Decimal(n)[1] - Zero
           /\ Len(Decimal(n)) = 2 => n = 10 * (Decimal(n)[1] - Zero) + Decimal(n)[2] - Zero
           /\ Len(Decimal(n)) = 3 =>
                  n = 100 * (Decimal(n)[1] - Zero) + 10 * (Decimal(n)[2] - Zero)
                          + Decimal(n)[3] - Zero
<1>1. CASE n < 10
  <2>1. Decimal(n) = <<Zero + n>>
    BY <1>1 DEF Decimal
  <2>2. Zero + n \in Digit /\ Zero + n \in Int
    BY <1>1 DEF Digit, Zero, Number
  <2> QED
    BY <2>1, <2>2 DEF Zero, Number
<1>2. CASE n >= 10 /\ n < 100
  <2> DEFINE a == n \div 10
             b == n % 10
  <2>1. Decimal(n) = <<Zero + a, Zero + b>>
    BY <1>2 DEF Decimal, Number
  <2>2. a \in 0 .. 9 /\ b \in 0 .. 9 /\ n = 10 * a + b
    BY <1>2 DEF Number
  <2> HIDE DEF a, b
  <2>3. Zero + a \in Digit /\ Zero + b \in Digit /\ Zero + a \in Int /\ Zero + b \in Int
    BY <2>2 DEF Digit, Zero
  <2> QED
    BY <2>1, <2>2, <2>3 DEF Zero
<1>3. CASE n >= 100
  <2> DEFINE a == n \div 100
             b == (n \div 10) % 10
             c == n % 10
  <2>1. Decimal(n) = <<Zero + a, Zero + b, Zero + c>>
    BY <1>3 DEF Decimal, Number
  <2>2. a \in 0 .. 9 /\ b \in 0 .. 9 /\ c \in 0 .. 9 /\ n = 100 * a + 10 * b + c
    BY <1>3 DEF Number
  <2> HIDE DEF a, b, c
  <2>3. /\ Zero + a \in Digit /\ Zero + b \in Digit /\ Zero + c \in Digit
        /\ Zero + a \in Int /\ Zero + b \in Int /\ Zero + c \in Int
    BY <2>2 DEF Digit, Zero
  <2> QED
    BY <2>1, <2>2, <2>3 DEF Zero
<1> QED
  BY <1>1, <1>2, <1>3 DEF Number

LEMMA AtoiDecimal ==
    ASSUME NEW n \in Number
    PROVE  Atoi(Decimal(n)) = n
<1> DEFINE text == Decimal(n)
<1>1. /\ text \in Seq(Int) /\ Len(text) \in 1 .. 3 /\ \A i \in 1 .. Len(text) : text[i] \in Digit
      /\ \A i \in 1 .. Len(text) : text[i] \in Int
      /\ Len(text) = 1 => n = text[1] - Zero
      /\ Len(text) = 2 => n = 10 * (text[1] - Zero) + text[2] - Zero
      /\ Len(text) = 3 => n = 100 * (text[1] - Zero) + 10 * (text[2] - Zero) + text[3] - Zero
  BY Digits
<1> HIDE DEF text
<1>2. PICK v \in [0 .. Len(text) -> Int] : AtoiValue(v, text) /\ Atoi(text) = v[Len(text)]
  BY <1>1, AtoiRuns
<1>3. v[0] = 0 /\ \A i \in 1 .. Len(text) : v[i] = 10 * v[i - 1] + text[i] - Zero
  BY <1>1, <1>2 DEF AtoiValue
<1>4. v[1] = 10 * v[0] + text[1] - Zero
  BY <1>1, <1>3
<1>5. Len(text) >= 2 => v[2] = 10 * v[1] + text[2] - Zero
  BY <1>1, <1>3
<1>6. Len(text) = 3 => v[3] = 10 * v[2] + text[3] - Zero
  BY <1>1, <1>3
<1>7. CASE Len(text) = 1
  BY <1>1, <1>2, <1>3, <1>4, <1>7 DEF text, Zero
<1>8. CASE Len(text) = 2
  BY <1>1, <1>2, <1>3, <1>4, <1>5, <1>8 DEF text, Zero
<1>9. CASE Len(text) = 3
  <2>1. text[1] \in Int /\ text[2] \in Int /\ text[3] \in Int
    BY <1>1, <1>9
  <2>2. v[3] = 100 * (text[1] - Zero) + 10 * (text[2] - Zero) + text[3] - Zero
    BY <1>3, <1>4, <1>5, <1>6, <1>9, <2>1 DEF Zero
  <2> QED
    BY <1>1, <1>2, <1>9, <2>2 DEF text
<1> QED
  BY <1>1, <1>7, <1>8, <1>9

(* What encode_header writes, decode_header reads. *)
LEMMA AtoiHeader ==
    ASSUME NEW n \in Number
    PROVE  Header(n) \in Seq(Int) /\ Len(Header(n)) = header_length /\ Atoi(Header(n)) = n
<1> DEFINE d == Decimal(n)
           blanks == [i \in 1 .. header_length - Len(d) |-> Blank]
           h == Header(n)
<1>1. /\ d \in Seq(Int) /\ Len(d) \in 1 .. 3
      /\ \A i \in 1 .. Len(d) : d[i] \in Digit /\ d[i] \in Int
      /\ Len(d) = 1 => n = d[1] - Zero
      /\ Len(d) = 2 => n = 10 * (d[1] - Zero) + d[2] - Zero
      /\ Len(d) = 3 => n = 100 * (d[1] - Zero) + 10 * (d[2] - Zero) + d[3] - Zero
  BY Digits
<1>2. h = blanks \o d
  BY DEF Header
<1> HIDE DEF d, h
<1>3. blanks \in Seq(Int) /\ Len(blanks) = 4 - Len(d)
      /\ \A i \in 1 .. 4 - Len(d) : blanks[i] = Blank
  <2> DEFINE k == 4 - Len(d)
  <2>1. k \in Nat /\ k = header_length - Len(d)
    BY <1>1 DEF header_length
  <2>2. blanks = [i \in 1 .. k |-> Blank] /\ Blank \in Int
    BY <2>1 DEF Blank
  <2> HIDE DEF k, blanks
  <2>3. blanks \in Seq(Int) /\ Len(blanks) = k /\ \A i \in 1 .. k : blanks[i] = Blank
    BY <2>1, <2>2
  <2> QED
    BY <2>3 DEF k
<1> HIDE DEF blanks
<1>4. /\ h \in Seq(Int) /\ Len(h) = 4
      /\ \A i \in 1 .. 4 - Len(d) : h[i] = Blank
      /\ \A i \in 1 .. 4 : i > 4 - Len(d) => h[i] = d[i - (4 - Len(d))]
  <2>1. Len(blanks) + Len(d) = 4
    BY <1>1, <1>3
  <2>2. h \in Seq(Int) /\ Len(h) = 4
    BY <1>1, <1>2, <1>3, <2>1, ConcatProperties
  <2>3. \A i \in 1 .. 4 : h[i] = IF i <= Len(blanks) THEN blanks[i] ELSE d[i - Len(blanks)]
    BY <1>1, <1>2, <1>3, <2>1, ConcatProperties
  <2>4. ASSUME NEW i \in 1 .. 4 - Len(d) PROVE h[i] = Blank
    <3>1. i \in 1 .. 4 /\ i <= Len(blanks)
      BY <1>1, <1>3
    <3> QED
      BY <1>3, <2>3, <3>1
  <2>5. ASSUME NEW i \in 1 .. 4, i > 4 - Len(d) PROVE h[i] = d[i - (4 - Len(d))]
    <3>1. ~(i <= Len(blanks))
      BY <1>1, <1>3, <2>5
    <3> QED
      BY <1>3, <2>3, <3>1
  <2> QED
    BY <2>2, <2>4, <2>5
<1>5. PICK v \in [0 .. 4 -> Int] : AtoiValue(v, h) /\ Atoi(h) = v[4]
  BY <1>4, AtoiRuns
<1>6. v[0] = 0 /\ \A i \in 1 .. 4 : v[i] =
          IF h[i] \in Digit THEN 10 * v[i - 1] + h[i] - Zero ELSE v[i - 1]
  BY <1>4, <1>5 DEF AtoiValue
<1>7. Blank \notin Digit
  BY DEF Blank, Digit, Zero
<1>8. /\ v[1] = IF h[1] \in Digit THEN 10 * v[0] + h[1] - Zero ELSE v[0]
      /\ v[2] = IF h[2] \in Digit THEN 10 * v[1] + h[2] - Zero ELSE v[1]
      /\ v[3] = IF h[3] \in Digit THEN 10 * v[2] + h[3] - Zero ELSE v[2]
      /\ v[4] = IF h[4] \in Digit THEN 10 * v[3] + h[4] - Zero ELSE v[3]
  BY <1>6
<1>9. Atoi(h) = n
  <2>1. CASE Len(d) = 1
    <3>1. h[1] = Blank /\ h[2] = Blank /\ h[3] = Blank /\ h[4] = d[1]
      BY <1>4, <2>1
    <3>2. d[1] \in Digit /\ d[1] \in Int
      BY <1>1, <2>1
    <3>3. v[3] = 0
      BY <1>6, <1>7, <1>8, <3>1
    <3> QED
      BY <1>1, <1>5, <1>8, <2>1, <3>1, <3>2, <3>3 DEF Zero
  <2>2. CASE Len(d) = 2
    <3>1. h[1] = Blank /\ h[2] = Blank /\ h[3] = d[1] /\ h[4] = d[2]
      BY <1>4, <2>2
    <3>2. d[1] \in Digit /\ d[1] \in Int /\ d[2] \in Digit /\ d[2] \in Int
      BY <1>1, <2>2
    <3>3. v[2] = 0
      BY <1>6, <1>7, <1>8, <3>1
    <3>4. v[3] = d[1] - Zero
      BY <1>8, <3>1, <3>2, <3>3 DEF Zero
    <3> QED
      BY <1>1, <1>5, <1>8, <2>2, <3>1, <3>2, <3>4 DEF Zero
  <2>3. CASE Len(d) = 3
    <3>1. h[1] = Blank /\ h[2] = d[1] /\ h[3] = d[2] /\ h[4] = d[3]
      BY <1>4, <2>3
    <3>2. /\ d[1] \in Digit /\ d[1] \in Int /\ d[2] \in Digit /\ d[2] \in Int
          /\ d[3] \in Digit /\ d[3] \in Int
      BY <1>1, <2>3
    <3>3. v[1] = 0
      BY <1>6, <1>7, <1>8, <3>1
    <3>4. v[2] = d[1] - Zero
      BY <1>8, <3>1, <3>2, <3>3 DEF Zero
    <3>5. v[3] = 10 * (d[1] - Zero) + d[2] - Zero
      BY <1>8, <3>1, <3>2, <3>4 DEF Zero
    <3>6. v[4] = 10 * v[3] + d[3] - Zero
      BY <1>8, <3>1, <3>2
    <3> QED
      <4> DEFINE a == d[1]
                 b == d[2]
                 e == d[3]
      <4>1. a \in Int /\ b \in Int /\ e \in Int
        BY <3>2
      <4>2. /\ v[4] = 10 * v[3] + e - Zero /\ v[3] = 10 * (a - Zero) + b - Zero
            /\ n = 100 * (a - Zero) + 10 * (b - Zero) + e - Zero
        BY <1>1, <2>3, <3>5, <3>6
      <4> HIDE DEF a, b, e
      <4>3. v[4] = n
        BY <4>1, <4>2 DEF Zero
      <4> QED
        BY <1>5, <4>3
  <2> QED
    BY <1>1, <2>1, <2>2, <2>3
<1> QED
  BY <1>4, <1>9 DEF h, header_length

-----------------------------------------------------------------------------
(* A list of texts, one behind the other. *)
Joined(g, seqs) == g[0] = <<>> /\ \A i \in 1 .. Len(seqs) : g[i] = g[i - 1] \o seqs[i]

LEMMA FlattenRuns ==
    ASSUME NEW C, NEW seqs \in Seq(Seq(C))
    PROVE  \E g \in [0 .. Len(seqs) -> Seq(C)] :
               Joined(g, seqs) /\ FlattenSeq(seqs) = g[Len(seqs)]
<1> DEFINE n == Len(seqs)
           step == [x \in Seq(C) \X Seq(C) |-> x[1] \o x[2]]
           Flat(f) == f = [i \in 1 .. n |-> IF i = 1 THEN seqs[i] ELSE f[i - 1] \o seqs[i]]
           f == CHOOSE f : Flat(f)
           T == {i \in Nat : 1 <= i /\ i <= n => f[i] \in Seq(C)}
           h == [i \in 0 .. n |-> IF i = 0 THEN <<>> ELSE f[i]]
<1>1. n \in Nat /\ \A i \in 1 .. n : seqs[i] \in Seq(C)
  OBVIOUS
<1>2. <<>> \in Seq(C) /\ \A s, t \in Seq(C) : s \o t \in Seq(C) /\ <<>> \o t = t
  BY ConcatProperties, ConcatEmptySeq
<1>3. \E g : Flat(g)
  <2>1. step \in [Seq(C) \X Seq(C) -> Seq(C)]
    BY <1>2
  <2>2. PICK g \in [0 .. n -> Seq(C)] : Course(g, <<>>, step, seqs)
    <3> DEFINE D == Seq(C)
    <3>1. <<>> \in D /\ step \in [D \X D -> D] /\ seqs \in Seq(D)
      BY <1>2, <2>1
    <3> HIDE DEF step, D
    <3>2. \E g \in [0 .. Len(seqs) -> D] : Course(g, <<>>, step, seqs)
      BY <3>1, LoopRuns
    <3> QED
      BY <3>2 DEF D
  <2>3. g[0] = <<>> /\ \A i \in 1 .. n : g[i] = g[i - 1] \o seqs[i]
    <3>1. g[0] = <<>> /\ \A i \in 1 .. n : g[i] = step[<<g[i - 1], seqs[i]>>]
      <4> HIDE DEF step
      <4> QED
        BY <1>1, <2>2 DEF Course
    <3>2. ASSUME NEW i \in 1 .. n PROVE <<g[i - 1], seqs[i]>> \in Seq(C) \X Seq(C)
      <4>1. i - 1 \in 0 .. n /\ seqs[i] \in Seq(C)
        BY <1>1
      <4>2. g[i - 1] \in Seq(C)
        BY <2>2, <4>1
      <4> QED
        BY <4>1, <4>2
    <3> QED
      BY <3>1, <3>2
  <2> DEFINE k == [i \in 1 .. n |-> g[i]]
  <2>4. \A i \in 1 .. n : k[i] = IF i = 1 THEN seqs[i] ELSE k[i - 1] \o seqs[i]
    <3> SUFFICES ASSUME NEW i \in 1 .. n
                 PROVE  k[i] = IF i = 1 THEN seqs[i] ELSE k[i - 1] \o seqs[i]
      OBVIOUS
    <3>1. k[i] = g[i - 1] \o seqs[i] /\ seqs[i] \in Seq(C)
      BY <1>1, <2>3
    <3>2. CASE i = 1
      <4>1. k[i] = <<>> \o seqs[i]
        <5>1. i - 1 = 0
          BY <3>2
        <5>2. g[i - 1] = <<>>
          BY <2>3, <5>1
        <5> QED
          BY <3>1, <5>2
      <4> QED
        BY <1>2, <3>1, <3>2, <4>1
    <3>3. CASE i # 1
      <4>1. i - 1 \in 1 .. n
        BY <1>1, <3>3
      <4>2. k[i - 1] = g[i - 1]
        BY <4>1
      <4> QED
        BY <3>1, <3>3, <4>2
    <3> QED
      BY <3>2, <3>3
  <2>5. k = [i \in 1 .. n |-> k[i]]
    OBVIOUS
  <2> HIDE DEF k
  <2>6. Flat(k)
    BY <2>4, <2>5
  <2> QED
    BY <2>6
<1>4. Flat(f)
  <2> HIDE DEF Flat
  <2> QED
    BY <1>3
<1>5. n # 0 => FlattenSeq(seqs) = f[n]
  BY DEF FlattenSeq
<1>6. n = 0 => FlattenSeq(seqs) = <<>>
  BY DEF FlattenSeq
<1> HIDE DEF f
<1>7. \A i \in 1 .. n : f[i] = IF i = 1 THEN seqs[i] ELSE f[i - 1] \o seqs[i]
  BY <1>4
<1>8. 0 .. n \subseteq T
  <2>1. 0 \in T /\ T \in SUBSET Nat
    OBVIOUS
  <2>2. ASSUME NEW i \in Nat, i < n, i \in T PROVE i + 1 \in T
    <3>1. i + 1 \in 1 .. n /\ (i + 1) - 1 = i /\ seqs[i + 1] \in Seq(C)
      BY <1>1, <2>2
    <3>2. CASE i = 0
      BY <1>7, <3>1, <3>2
    <3>3. CASE i # 0
      <4>1. f[i] \in Seq(C)
        BY <1>1, <2>2, <3>3
      <4>2. i + 1 # 1
        BY <3>3
      <4>3. f[i + 1] = f[i] \o seqs[i + 1]
        BY <1>7, <3>1, <4>2
      <4>4. f[i + 1] \in Seq(C)
        BY <1>2, <3>1, <4>1, <4>3
      <4> QED
        BY <4>4
    <3> QED
      BY <3>2, <3>3
  <2> HIDE DEF T
  <2> QED
    BY <1>1, <2>1, <2>2, EveryTurn
<1>9. \A i \in 1 .. n : f[i] \in Seq(C)
  <2> SUFFICES ASSUME NEW i \in 1 .. n PROVE f[i] \in Seq(C)
    OBVIOUS
  <2>1. i \in 0 .. n /\ 1 <= i /\ i <= n
    BY <1>1
  <2>2. i \in T
    BY <1>8, <2>1
  <2> QED
    BY <2>1, <2>2
<1>10. h \in [0 .. n -> Seq(C)]
  BY <1>1, <1>2, <1>9
<1>11. Joined(h, seqs)
  <2> SUFFICES ASSUME NEW i \in 1 .. n PROVE h[i] = h[i - 1] \o seqs[i]
    <3>1. h[0] = <<>>
      BY <1>1
    <3> HIDE DEF h
    <3> QED
      BY <3>1 DEF Joined
  <2>1. h[i] = f[i] /\ i - 1 \in 0 .. n
    BY <1>1
  <2>2. CASE i = 1
    BY <1>1, <1>2, <1>7, <2>1, <2>2
  <2>3. CASE i # 1
    <3>1. h[i - 1] = f[i - 1]
      BY <1>1, <2>1, <2>3
    <3> HIDE DEF h
    <3> QED
      BY <1>7, <2>1, <2>3, <3>1
  <2> QED
    BY <2>2, <2>3
<1>12. FlattenSeq(seqs) = h[n]
  BY <1>1, <1>5, <1>6
<1> HIDE DEF h
<1> QED
  BY <1>10, <1>11, <1>12

LEMMA WidthRuns ==
    ASSUME NEW ids \in Seq(Number)
    PROVE  /\ Width(ids) \in [0 .. Len(ids) -> Nat] /\ Width(ids)[0] = 0
           /\ \A i \in 1 .. Len(ids) :
                  Width(ids)[i] = Width(ids)[i - 1] + Len(Decimal(ids[i])) + 1
<1> DEFINE n == Len(ids)
           step == [x \in Nat \X Number |-> x[1] + Len(Decimal(x[2])) + 1]
           Wide(w) == w = [i \in 0 .. n |-> IF i = 0 THEN 0
                                            ELSE w[i - 1] + Len(Decimal(ids[i])) + 1]
           w == CHOOSE w : Wide(w)
           T == {i \in Nat : i <= n => w[i] \in Nat}
<1>1. n \in Nat /\ \A i \in 1 .. n : ids[i] \in Number
  OBVIOUS
<1>2. \A m \in Number : Len(Decimal(m)) \in Nat
  BY Digits
<1>3. \E g : Wide(g)
  <2>1. step \in [Nat \X Number -> Nat]
    BY <1>2
  <2>2. PICK g \in [0 .. n -> Nat] : Course(g, 0, step, ids)
    <3> DEFINE D == Nat
    <3>1. 0 \in D /\ step \in [D \X Number -> D]
      BY <2>1
    <3> HIDE DEF step, D
    <3>2. \E g \in [0 .. Len(ids) -> D] : Course(g, 0, step, ids)
      BY <3>1, LoopRuns
    <3> QED
      BY <3>2 DEF D
  <2>3. g[0] = 0 /\ \A i \in 1 .. n : g[i] = step[<<g[i - 1], ids[i]>>]
    <3> HIDE DEF step
    <3> QED
      BY <1>1, <2>2 DEF Course
  <2>4. ASSUME NEW i \in 0 .. n
        PROVE  g[i] = IF i = 0 THEN 0 ELSE g[i - 1] + Len(Decimal(ids[i])) + 1
    <3>1. CASE i = 0
      BY <2>3, <3>1
    <3>2. CASE i # 0
      <4>1. i \in 1 .. n /\ i - 1 \in 0 .. n
        BY <1>1, <3>2
      <4>2. <<g[i - 1], ids[i]>> \in Nat \X Number
        BY <1>1, <2>2, <4>1
      <4> QED
        BY <2>3, <3>2, <4>1, <4>2
    <3> QED
      BY <3>1, <3>2
  <2>5. g = [i \in 0 .. n |-> g[i]]
    BY <2>2
  <2>6. Wide(g)
    <3> HIDE DEF step
    <3> QED
      BY <2>4, <2>5
  <2> QED
    BY <2>6
<1>4. Wide(w)
  <2> HIDE DEF Wide
  <2> QED
    BY <1>3
<1>5. Width(ids) = w
  BY DEF Width
<1> HIDE DEF w
<1>6. w[0] = 0 /\ \A i \in 1 .. n : w[i] = w[i - 1] + Len(Decimal(ids[i])) + 1
  BY <1>1, <1>4
<1>7. 0 .. n \subseteq T
  <2>1. 0 \in T /\ T \in SUBSET Nat
    BY <1>6
  <2>2. ASSUME NEW i \in Nat, i < n, i \in T PROVE i + 1 \in T
    <3>1. i + 1 \in 1 .. n /\ (i + 1) - 1 = i /\ w[i] \in Nat
      BY <1>1, <2>2
    <3>2. w[i + 1] = w[i] + Len(Decimal(ids[i + 1])) + 1 /\ Len(Decimal(ids[i + 1])) \in Nat
      BY <1>1, <1>2, <1>6, <3>1
    <3>3. w[i + 1] \in Nat
      BY <3>1, <3>2
    <3> QED
      BY <3>3
  <2> HIDE DEF T
  <2> QED
    BY <1>1, <2>1, <2>2, EveryTurn
<1>8. w \in [0 .. n -> Nat]
  <2>1. \A i \in 0 .. n : w[i] \in Nat
    BY <1>1, <1>7
  <2>2. w = [i \in 0 .. n |-> w[i]]
    BY <1>4
  <2> QED
    BY <2>1, <2>2
<1> QED
  BY <1>5, <1>6, <1>8

(* Later numbers are further right. *)
LEMMA WidthGrows ==
    ASSUME NEW ids \in Seq(Number), NEW j \in 0 .. Len(ids), NEW i \in 0 .. j
    PROVE  Width(ids)[i] <= Width(ids)[j] /\ (i < j => Width(ids)[i] < Width(ids)[j])
<1> DEFINE n == Len(ids)
           w == Width(ids)
           T == {m \in Nat : m <= n /\ i <= m => w[i] <= w[m] /\ (i < m => w[i] < w[m])}
<1>1. n \in Nat /\ \A m \in 1 .. n : ids[m] \in Number
  OBVIOUS
<1>2. /\ w \in [0 .. n -> Nat]
      /\ \A m \in 1 .. n : w[m] = w[m - 1] + Len(Decimal(ids[m])) + 1
  BY WidthRuns
<1>3. \A m \in 1 .. n : Len(Decimal(ids[m])) \in Nat
  BY <1>1, Digits
<1> HIDE DEF w
<1>4. 0 .. n \subseteq T
  <2>1. 0 \in T /\ T \in SUBSET Nat
    BY <1>1, <1>2
  <2>2. ASSUME NEW m \in Nat, m < n, m \in T PROVE m + 1 \in T
    <3>1. m + 1 \in 1 .. n /\ (m + 1) - 1 = m /\ m \in 0 .. n /\ m + 1 \in 0 .. n
      BY <1>1, <2>2
    <3>2. w[m + 1] = w[m] + Len(Decimal(ids[m + 1])) + 1 /\ Len(Decimal(ids[m + 1])) \in Nat
      BY <1>2, <1>3, <3>1
    <3>3. w[m] \in Nat /\ w[m + 1] \in Nat /\ w[m] < w[m + 1]
      BY <1>2, <3>1, <3>2
    <3>4. i \in 0 .. n /\ w[i] \in Nat
      <4>1. j \in Nat /\ j <= n /\ i \in Nat /\ i <= j
        BY <1>1
      <4>2. i \in 0 .. n
        BY <1>1, <4>1
      <4> QED
        BY <1>2, <4>2
    <3>5. i <= m + 1 => w[i] <= w[m + 1] /\ (i < m + 1 => w[i] < w[m + 1])
      <4>1. CASE i = m + 1
        BY <3>3, <3>4, <4>1
      <4>2. CASE i <= m
        <5>1. w[i] <= w[m]
          BY <2>2, <4>2
        <5> QED
          BY <3>3, <3>4, <5>1
      <4>3. i \in Nat /\ m \in Nat
        BY <1>1
      <4> QED
        BY <4>1, <4>2, <4>3
    <3> QED
      BY <3>5
  <2> HIDE DEF T
  <2> QED
    BY <1>1, <2>1, <2>2, EveryTurn
<1>5. j \in T /\ i <= j /\ j <= n
  BY <1>1, <1>4
<1> QED
  BY <1>5 DEF w

LEMMA JoinAt ==
    ASSUME NEW C, NEW s \in Seq(C), NEW t \in Seq(C)
    PROVE  /\ s \o t \in Seq(C) /\ Len(s \o t) = Len(s) + Len(t)
           /\ \A m \in 1 .. Len(s) : (s \o t)[m] = s[m]
           /\ \A k \in 1 .. Len(t) : (s \o t)[Len(s) + k] = t[k]
<1>1. /\ s \o t \in Seq(C) /\ Len(s \o t) = Len(s) + Len(t)
      /\ \A i \in 1 .. Len(s) + Len(t) :
             (s \o t)[i] = IF i <= Len(s) THEN s[i] ELSE t[i - Len(s)]
  BY ConcatProperties
<1>2. Len(s) \in Nat /\ Len(t) \in Nat
  OBVIOUS
<1>3. ASSUME NEW m \in 1 .. Len(s) PROVE (s \o t)[m] = s[m]
  <2>1. m \in 1 .. Len(s) + Len(t) /\ m <= Len(s)
    BY <1>2
  <2> QED
    BY <1>1, <2>1
<1>4. ASSUME NEW k \in 1 .. Len(t) PROVE (s \o t)[Len(s) + k] = t[k]
  <2>1. /\ Len(s) + k \in 1 .. Len(s) + Len(t) /\ ~(Len(s) + k <= Len(s))
        /\ (Len(s) + k) - Len(s) = k
    BY <1>2
  <2> QED
    BY <1>1, <2>1
<1> QED
  BY <1>1, <1>3, <1>4

(* The numbers of a list as they stand in its text. *)
LEMMA TextParts ==
    ASSUME NEW ids \in Seq(Number)
    PROVE  /\ ListText(ids) \in Seq(Int)
           /\ Len(ListText(ids)) = Width(ids)[Len(ids)] + 4
           /\ \A i \in 1 .. Len(ids) :
                  /\ \A k \in 1 .. Len(Decimal(ids[i])) :
                         ListText(ids)[2 + Width(ids)[i - 1] + k] = Decimal(ids[i])[k]
                  /\ ListText(ids)[2 + Width(ids)[i]] = Blank
           /\ ListText(ids)[2 + Width(ids)[Len(ids)] + 1] = Blank
           /\ ListText(ids)[2 + Width(ids)[Len(ids)] + 2] = 110
<1> DEFINE n == Len(ids)
           w == Width(ids)
           seqs == [i \in DOMAIN ids |-> Append(Decimal(ids[i]), Blank)]
           all == FlattenSeq(seqs)
           text == ListText(ids)
           Here(s, i) == \A k \in 1 .. Len(seqs[i]) : s[w[i - 1] + k] = seqs[i][k]
<1>1. n \in Nat /\ \A i \in 1 .. n : ids[i] \in Number
  OBVIOUS
<1>2. /\ w \in [0 .. n -> Nat] /\ w[0] = 0
      /\ \A i \in 1 .. n : w[i] = w[i - 1] + Len(Decimal(ids[i])) + 1
  BY WidthRuns
<1>3. \A i \in 1 .. n : Decimal(ids[i]) \in Seq(Int) /\ Len(Decimal(ids[i])) \in 1 .. 3
  BY <1>1, Digits
<1>4. /\ seqs \in Seq(Seq(Int)) /\ Len(seqs) = n
      /\ \A i \in 1 .. n :
             /\ seqs[i] \in Seq(Int) /\ Len(seqs[i]) = Len(Decimal(ids[i])) + 1
             /\ \A k \in 1 .. Len(Decimal(ids[i])) : seqs[i][k] = Decimal(ids[i])[k]
             /\ seqs[i][Len(Decimal(ids[i])) + 1] = Blank
  <2>1. DOMAIN ids = 1 .. n /\ Blank \in Int
    BY DEF Blank
  <2>2. ASSUME NEW i \in 1 .. n
        PROVE  /\ seqs[i] = Append(Decimal(ids[i]), Blank)
               /\ seqs[i] \in Seq(Int) /\ Len(seqs[i]) = Len(Decimal(ids[i])) + 1
               /\ \A k \in 1 .. Len(Decimal(ids[i])) : seqs[i][k] = Decimal(ids[i])[k]
               /\ seqs[i][Len(Decimal(ids[i])) + 1] = Blank
    <3> DEFINE d == Decimal(ids[i])
    <3>1. d \in Seq(Int) /\ Len(d) \in Nat /\ seqs[i] = Append(d, Blank)
      BY <1>3, <2>1
    <3> HIDE DEF d, seqs
    <3>2. /\ Append(d, Blank) \in Seq(Int) /\ Len(Append(d, Blank)) = Len(d) + 1
          /\ \A k \in 1 .. Len(d) : Append(d, Blank)[k] = d[k]
          /\ Append(d, Blank)[Len(d) + 1] = Blank
      BY <2>1, <3>1, AppendProperties
    <3> QED
      BY <3>1, <3>2 DEF d
  <2>3. seqs \in [1 .. n -> Seq(Int)]
    BY <2>1, <2>2
  <2> HIDE DEF seqs
  <2>4. seqs \in Seq(Seq(Int)) /\ Len(seqs) = n
    BY <1>1, <2>3
  <2> QED
    BY <2>2, <2>4
<1> HIDE DEF seqs, w, n
<1>10. ASSUME NEW i \in 1 .. n
       PROVE  /\ i \in 0 .. n /\ i - 1 \in 0 .. n
              /\ w[i - 1] \in Nat /\ w[i] \in Nat /\ Len(seqs[i]) \in Nat
              /\ w[i] = w[i - 1] + Len(seqs[i])
  <2>1. Len(Decimal(ids[i])) \in Nat /\ Len(seqs[i]) = Len(Decimal(ids[i])) + 1
    BY <1>3, <1>4
  <2>2. i \in 0 .. n /\ i - 1 \in 0 .. n
    BY <1>1
  <2>3. w[i - 1] \in Nat /\ w[i] = w[i - 1] + Len(Decimal(ids[i])) + 1
    BY <1>2, <2>2
  <2> HIDE DEF n
  <2> QED
    BY <2>1, <2>2, <2>3
<1>5. PICK g \in [0 .. n -> Seq(Int)] : Joined(g, seqs) /\ all = g[n]
  BY <1>4, FlattenRuns
<1>6. g[0] = <<>> /\ \A i \in 1 .. n : g[i] = g[i - 1] \o seqs[i]
  BY <1>4, <1>5 DEF Joined
<1>7. \A j \in 0 .. n, i \in 0 .. n : i <= j => w[i] <= w[j]
  BY <1>1, WidthGrows DEF w, n
<1>8. \A j \in 0 .. n : Len(g[j]) = w[j] /\ \A i \in 1 .. j : Here(g[j], i)
  <2> DEFINE T == {j \in Nat : j <= n => Len(g[j]) = w[j] /\ \A i \in 1 .. j : Here(g[j], i)}
  <2>1. 0 \in T /\ T \in SUBSET Nat
    BY <1>2, <1>6
  <2>2. ASSUME NEW j \in Nat, j < n, j \in T PROVE j + 1 \in T
    <3>1. j + 1 \in 1 .. n /\ (j + 1) - 1 = j /\ j \in 0 .. n /\ j + 1 \in 0 .. n
      BY <1>1, <2>2
    <3>2. Len(g[j]) = w[j] /\ \A i \in 1 .. j : Here(g[j], i)
      <4>1. j <= n
        BY <1>1, <2>2
      <4> HIDE DEF Here
      <4> QED
        BY <2>2, <4>1
    <3>3. g[j] \in Seq(Int) /\ seqs[j + 1] \in Seq(Int) /\ g[j + 1] = g[j] \o seqs[j + 1]
      <4>1. g[j] \in Seq(Int)
        BY <1>5, <3>1
      <4>2. seqs[j + 1] \in Seq(Int)
        BY <1>4, <3>1
      <4>3. g[j + 1] = g[j] \o seqs[j + 1]
        BY <1>6, <3>1
      <4> QED
        BY <4>1, <4>2, <4>3
    <3>4. w[j] \in Nat /\ w[j + 1] = w[j] + Len(seqs[j + 1]) /\ Len(seqs[j + 1]) \in Nat
      BY <1>10, <3>1
    <3>5. /\ Len(g[j + 1]) = w[j + 1]
          /\ \A m \in 1 .. w[j] : g[j + 1][m] = g[j][m]
          /\ \A k \in 1 .. Len(seqs[j + 1]) : g[j + 1][w[j] + k] = seqs[j + 1][k]
      <4> DEFINE a == g[j]
                 b == seqs[j + 1]
      <4>1. a \in Seq(Int) /\ b \in Seq(Int)
        BY <3>3
      <4> HIDE DEF a, b
      <4>2. /\ Len(a \o b) = Len(a) + Len(b)
            /\ \A m \in 1 .. Len(a) : (a \o b)[m] = a[m]
            /\ \A k \in 1 .. Len(b) : (a \o b)[Len(a) + k] = b[k]
        BY <4>1, JoinAt
      <4>3. g[j + 1] = a \o b /\ Len(a) = w[j] /\ Len(a) + Len(b) = w[j + 1]
        BY <3>2, <3>3, <3>4 DEF a, b
      <4> QED
        BY <4>2, <4>3 DEF a, b
    <3>6. ASSUME NEW i \in 1 .. j + 1 PROVE Here(g[j + 1], i)
      <4> SUFFICES ASSUME NEW k \in 1 .. Len(seqs[i])
                   PROVE  g[j + 1][w[i - 1] + k] = seqs[i][k]
        OBVIOUS
      <4>0. i \in 1 .. n
        BY <1>1, <3>1
      <4>1. /\ w[i - 1] \in Nat /\ w[i] \in Nat /\ Len(seqs[i]) \in Nat
            /\ w[i] = w[i - 1] + Len(seqs[i]) /\ i \in 0 .. n
        BY <1>10, <4>0
      <4>2. CASE i = j + 1
        BY <3>1, <3>5, <4>2
      <4>3. CASE i # j + 1
        <5>1. i \in 1 .. j
          BY <4>3
        <5>2. w[i] <= w[j]
          BY <1>7, <3>1, <4>1, <5>1
        <5>3. w[i - 1] + k \in 1 .. w[j]
          BY <3>4, <4>1, <5>2
        <5>4. g[j][w[i - 1] + k] = seqs[i][k]
          BY <3>2, <5>1
        <5> QED
          BY <3>5, <5>3, <5>4
      <4> QED
        BY <4>2, <4>3
    <3> HIDE DEF Here
    <3> QED
      BY <3>5, <3>6
  <2>3. 0 .. n \subseteq T
    <3> HIDE DEF T
    <3> QED
      BY <1>1, <2>1, <2>2, EveryTurn
  <2> QED
    BY <1>1, <2>3
<1>9. /\ all \in Seq(Int) /\ Len(all) = w[n] /\ w[n] \in Nat
      /\ \A i \in 1 .. n : Here(all, i)
  <2>1. n \in 0 .. n
    BY <1>1
  <2>2. Len(g[n]) = w[n] /\ \A i \in 1 .. n : Here(g[n], i)
    <3> HIDE DEF Here
    <3> QED
      BY <1>8, <2>1
  <2> HIDE DEF Here, all
  <2> QED
    BY <1>2, <1>5, <2>1, <2>2
<1> HIDE DEF all
<1> DEFINE open == <<108, Blank>>
           close == <<Blank, 110>>
           most == open \o all
<1>17. open \in Seq(Int) /\ Len(open) = 2 /\ close \in Seq(Int) /\ Len(close) = 2
       /\ close[1] = Blank /\ close[2] = 110
  BY DEF Blank
<1>11. text = most \o close
  BY DEF ListText, all, seqs
<1>18. w[n] \in Nat
  BY <1>9
<1> HIDE DEF open, close, text
<1>12. /\ most \in Seq(Int) /\ Len(most) = w[n] + 2
       /\ \A m \in 1 .. w[n] : most[2 + m] = all[m]
  <2>0. /\ open \in Seq(Int) /\ all \in Seq(Int) /\ Len(open) = 2 /\ Len(all) = w[n]
        /\ most = open \o all /\ w[n] \in Nat
    BY <1>9, <1>17
  <2> HIDE DEF most
  <2>3. /\ most \in Seq(Int) /\ Len(most) = Len(open) + Len(all)
        /\ \A k \in 1 .. Len(all) : most[Len(open) + k] = all[k]
    <3>1. /\ open \o all \in Seq(Int) /\ Len(open \o all) = Len(open) + Len(all)
          /\ \A k \in 1 .. Len(all) : (open \o all)[Len(open) + k] = all[k]
      <4>1. open \in Seq(Int) /\ all \in Seq(Int)
        BY <2>0
      <4> QED
        BY <4>1, JoinAt
    <3> QED
      BY <2>0, <3>1
  <2>1. most \in Seq(Int) /\ Len(most) = w[n] + 2
    BY <2>0, <2>3
  <2>2. ASSUME NEW m \in 1 .. w[n] PROVE most[2 + m] = all[m]
    <3>1. m \in 1 .. Len(all)
      BY <2>0
    <3>2. most[Len(open) + m] = all[m]
      BY <2>3, <3>1
    <3> QED
      BY <2>0, <3>2
  <2> QED
    BY <2>1, <2>2
<1> HIDE DEF most
<1>13. /\ text \in Seq(Int) /\ Len(text) = w[n] + 4
       /\ \A m \in 1 .. w[n] + 2 : text[m] = most[m]
       /\ \A k \in 1 .. 2 : text[w[n] + 2 + k] = close[k]
  <2>1. (w[n] + 2) + 2 = w[n] + 4
    BY <1>9
  <2>2. text = most \o close /\ Len(most) = w[n] + 2 /\ Len(close) = 2 /\ most \in Seq(Int) /\ close \in Seq(Int)
    BY <1>11, <1>12, <1>17
  <2>3. /\ text \in Seq(Int) /\ Len(text) = Len(most) + Len(close)
        /\ \A m \in 1 .. Len(most) : text[m] = most[m]
        /\ \A k \in 1 .. Len(close) : text[Len(most) + k] = close[k]
    <3>1. /\ most \o close \in Seq(Int) /\ Len(most \o close) = Len(most) + Len(close)
          /\ \A m \in 1 .. Len(most) : (most \o close)[m] = most[m]
          /\ \A k \in 1 .. Len(close) : (most \o close)[Len(most) + k] = close[k]
      <4>1. most \in Seq(Int) /\ close \in Seq(Int)
        BY <2>2
      <4> QED
        BY <4>1, JoinAt
    <3> QED
      BY <2>2, <3>1
  <2> QED
    BY <2>1, <2>2, <2>3
<1>14. \A m \in 1 .. w[n] : text[2 + m] = all[m]
  <2> SUFFICES ASSUME NEW m \in 1 .. w[n] PROVE text[2 + m] = all[m]
    OBVIOUS
  <2>1. 2 + m \in 1 .. w[n] + 2
    BY <1>9
  <2> QED
    BY <1>12, <1>13, <2>1
<1>15. text[2 + w[n] + 1] = Blank /\ text[2 + w[n] + 2] = 110
  <2>1. 2 + w[n] + 1 = w[n] + 2 + 1 /\ 2 + w[n] + 2 = w[n] + 2 + 2 /\ 1 \in 1 .. 2 /\ 2 \in 1 .. 2
    BY <1>9
  <2> QED
    BY <1>13, <1>17, <2>1
<1>16. ASSUME NEW i \in 1 .. n
       PROVE  /\ \A k \in 1 .. Len(Decimal(ids[i])) :
                     text[2 + w[i - 1] + k] = Decimal(ids[i])[k]
              /\ text[2 + w[i]] = Blank
  <2> DEFINE d == Decimal(ids[i])
  <2>1. /\ Len(d) \in Nat /\ Len(seqs[i]) = Len(d) + 1
        /\ \A k \in 1 .. Len(d) : seqs[i][k] = d[k]
        /\ seqs[i][Len(d) + 1] = Blank
    BY <1>3, <1>4
  <2>2. /\ w[i - 1] \in Nat /\ w[i] = w[i - 1] + Len(d) + 1 /\ w[i] <= w[n]
    <3>1. i \in 0 .. n /\ i - 1 \in 0 .. n /\ n \in 0 .. n /\ i <= n
      BY <1>1
    <3> QED
      BY <1>2, <1>7, <3>1
  <2> HIDE DEF d
  <2>3. ASSUME NEW k \in 1 .. Len(d) + 1 PROVE text[2 + w[i - 1] + k] = seqs[i][k]
    <3>1. w[i - 1] + k \in 1 .. w[n] /\ 2 + (w[i - 1] + k) = 2 + w[i - 1] + k
      BY <1>18, <2>1, <2>2
    <3>2. all[w[i - 1] + k] = seqs[i][k]
      BY <1>9, <2>1
    <3> QED
      BY <1>14, <3>1, <3>2
  <2>4. 2 + w[i] = 2 + w[i - 1] + (Len(d) + 1) /\ Len(d) + 1 \in 1 .. Len(d) + 1
    BY <2>1, <2>2
  <2>5. text[2 + w[i]] = Blank
    BY <2>1, <2>3, <2>4
  <2>6. \A k \in 1 .. Len(d) : text[2 + w[i - 1] + k] = d[k]
    <3> SUFFICES ASSUME NEW k \in 1 .. Len(d) PROVE text[2 + w[i - 1] + k] = d[k]
      OBVIOUS
    <3>1. k \in 1 .. Len(d) + 1
      BY <2>1
    <3> QED
      BY <2>1, <2>3, <3>1
  <2> QED
    BY <2>5, <2>6 DEF d
<1> QED
  BY <1>13, <1>15, <1>16 DEF text, w, n

-----------------------------------------------------------------------------
(* What the client reads of a list. *)
Readings == [numbers : SUBSET Int, word : Seq(Int)]

LEMMA ReadOnType ==
    ASSUME NEW before \in Readings, NEW char \in Int
    PROVE  ReadOn(before, char) \in Readings
<1>1. before.numbers \in SUBSET Int /\ before.word \in Seq(Int)
  BY DEF Readings
<1>2. Append(before.word, char) \in Seq(Int)
  BY <1>1, AppendProperties
<1>3. Atoi(before.word) \in Int
  <2>1. PICK v \in [0 .. Len(before.word) -> Int] : Atoi(before.word) = v[Len(before.word)]
    BY <1>1, AtoiRuns
  <2>2. Len(before.word) \in 0 .. Len(before.word)
    BY <1>1
  <2> QED
    BY <2>1, <2>2
<1>4. CASE char \in Digit
  BY <1>1, <1>2, <1>4 DEF ReadOn, Readings
<1>5. CASE char \notin Digit
  BY <1>1, <1>3, <1>5 DEF ReadOn, Readings
<1> QED
  BY <1>4, <1>5

LEMMA ExtractionRuns ==
    ASSUME NEW text \in Seq(Int)
    PROVE  \E r \in [0 .. Len(text) -> Readings] :
               /\ r[0] = [numbers |-> {}, word |-> <<>>]
               /\ \A i \in 1 .. Len(text) : r[i] = ReadOn(r[i - 1], text[i])
               /\ Extraction(text) = r[Len(text)]
<1> DEFINE n == Len(text)
           none == [numbers |-> {}, word |-> <<>>]
           step == [x \in Readings \X Int |-> ReadOn(x[1], x[2])]
           Read(r) == r = [i \in 0 .. n |-> IF i = 0 THEN none ELSE ReadOn(r[i - 1], text[i])]
           r == CHOOSE r : Read(r)
           T == {i \in Nat : i <= n => r[i] \in Readings}
<1>1. n \in Nat /\ \A i \in 1 .. n : text[i] \in Int
  OBVIOUS
<1>2. none \in Readings
  BY EmptySeq DEF Readings
<1>3. \E g : Read(g)
  <2>1. step \in [Readings \X Int -> Readings]
    BY ReadOnType
  <2>2. PICK g \in [0 .. n -> Readings] : Course(g, none, step, text)
    <3> HIDE DEF step, none
    <3>1. \E g \in [0 .. Len(text) -> Readings] : Course(g, none, step, text)
      BY <1>2, <2>1, LoopRuns
    <3> QED
      BY <3>1
  <2>3. g[0] = none /\ \A i \in 1 .. n : g[i] = step[<<g[i - 1], text[i]>>]
    <3> HIDE DEF step, none
    <3> QED
      BY <1>1, <2>2 DEF Course
  <2>4. ASSUME NEW i \in 0 .. n
        PROVE  g[i] = IF i = 0 THEN none ELSE ReadOn(g[i - 1], text[i])
    <3> HIDE DEF none
    <3>1. CASE i = 0
      BY <2>3, <3>1
    <3>2. CASE i # 0
      <4>1. i \in 1 .. n /\ i - 1 \in 0 .. n
        BY <1>1, <3>2
      <4>2. <<g[i - 1], text[i]>> \in Readings \X Int
        BY <1>1, <2>2, <4>1
      <4> QED
        BY <2>3, <3>2, <4>1, <4>2
    <3> QED
      BY <3>1, <3>2
  <2>5. g = [i \in 0 .. n |-> g[i]]
    BY <2>2
  <2>6. Read(g)
    <3> HIDE DEF step, none
    <3> QED
      BY <2>4, <2>5
  <2> QED
    BY <2>6
<1>4. Read(r)
  <2> HIDE DEF Read
  <2> QED
    BY <1>3
<1>5. Extraction(text) = r[n]
  BY DEF Extraction
<1> HIDE DEF r, none
<1>6. r[0] = none /\ \A i \in 1 .. n : r[i] = ReadOn(r[i - 1], text[i])
  BY <1>1, <1>4
<1>7. 0 .. n \subseteq T
  <2>1. 0 \in T /\ T \in SUBSET Nat
    BY <1>2, <1>6
  <2>2. ASSUME NEW i \in Nat, i < n, i \in T PROVE i + 1 \in T
    <3>1. i + 1 \in 1 .. n /\ (i + 1) - 1 = i /\ r[i] \in Readings
      BY <1>1, <2>2
    <3>2. r[i + 1] = ReadOn(r[i], text[i + 1]) /\ text[i + 1] \in Int
      BY <1>1, <1>6, <3>1
    <3>3. r[i + 1] \in Readings
      BY <3>1, <3>2, ReadOnType
    <3> QED
      BY <3>3
  <2> HIDE DEF T
  <2> QED
    BY <1>1, <2>1, <2>2, EveryTurn
<1>8. r \in [0 .. n -> Readings]
  <2>1. \A i \in 0 .. n : r[i] \in Readings
    BY <1>1, <1>7
  <2>2. r = [i \in 0 .. n |-> r[i]]
    BY <1>4
  <2> QED
    BY <2>1, <2>2
<1> QED
  BY <1>5, <1>6, <1>8 DEF none

(* The course of a reading through the first characters of a text. *)
ReadThrough(r, text, last) ==
    /\ r \in [0 .. last -> Readings]
    /\ \A i \in 1 .. last : r[i] = ReadOn(r[i - 1], text[i])

(* A text goes on, behind a place, with the first characters of a word. *)
Spells(text, p, d, k) == \A m \in 1 .. k : text[p + m] = d[m]

(* The digits of a word, one after the other. *)
LEMMA WordRead ==
    ASSUME NEW last \in Nat, NEW text, NEW r, ReadThrough(r, text, last),
           NEW p \in 0 .. last, r[p].word = <<>>,
           NEW d \in Seq(Digit), NEW k \in 0 .. Len(d), p + k <= last, Spells(text, p, d, k)
    PROVE  r[p + k] = [numbers |-> r[p].numbers, word |-> SubSeq(d, 1, k)]
<1> DEFINE R(m) == [numbers |-> r[p].numbers, word |-> SubSeq(d, 1, m)]
           T == {m \in Nat : m <= k => r[p + m] = R(m)}
<1>1. k \in Nat /\ p \in Nat /\ Len(d) \in Nat /\ k <= Len(d)
  OBVIOUS
<1>2. r[p] \in Readings /\ p + 0 = p
  BY <1>1 DEF ReadThrough
<1>3. SubSeq(d, 1, 0) = <<>>
  BY SubSeqEmpty
<1>4. r[p] = R(0)
  BY <1>2, <1>3 DEF Readings
<1>5. 0 .. k \subseteq T
  <2>1. 0 \in T /\ T \in SUBSET Nat
    BY <1>2, <1>4
  <2>2. ASSUME NEW m \in Nat, m < k, m \in T PROVE m + 1 \in T
    <3>1. /\ p + (m + 1) \in 1 .. last /\ (p + (m + 1)) - 1 = p + m /\ m + 1 \in 1 .. k
          /\ m + 1 \in 1 .. Len(d) /\ m <= Len(d)
      BY <1>1, <2>2
    <3>2. r[p + (m + 1)] = ReadOn(r[p + m], d[m + 1]) /\ d[m + 1] \in Digit
      <4>1. text[p + (m + 1)] = d[m + 1] /\ d[m + 1] \in Digit
        BY <3>1 DEF Spells
      <4>2. r[p + (m + 1)] = ReadOn(r[(p + (m + 1)) - 1], text[p + (m + 1)])
        BY <3>1 DEF ReadThrough
      <4> QED
        BY <3>1, <4>1, <4>2
    <3>3. r[p + m] = R(m)
      BY <1>1, <2>2
    <3>4. SubSeq(d, 1, m + 1) = Append(SubSeq(d, 1, m), d[m + 1])
      <4>1. 1 \in 1 .. Len(d) /\ (m + 1) - 1 = m
        BY <1>1, <3>1
      <4>2. SubSeq(d, 1, m + 1) = SubSeq(d, 1, (m + 1) - 1) \o <<d[m + 1]>>
        BY <3>1, <4>1, SubSeqRecursiveSecond
      <4>3. SubSeq(d, 1, m) \in Seq(Digit) /\ d[m + 1] \in Digit
        BY <1>1, <3>1, SubSeqProperties
      <4> QED
        BY <4>1, <4>2, <4>3, AppendIsConcat
    <3>5. ReadOn(R(m), d[m + 1]) = R(m + 1)
      BY <3>2, <3>4 DEF ReadOn
    <3> HIDE DEF R
    <3>6. r[p + (m + 1)] = R(m + 1)
      BY <3>2, <3>3, <3>5
    <3> QED
      BY <3>6
  <2> HIDE DEF T
  <2> QED
    BY <1>1, <2>1, <2>2, EveryTurn
<1>6. k \in T
  BY <1>1, <1>5
<1> QED
  BY <1>6

LEMMA DigitsSome ==
    ASSUME NEW n \in Number
    PROVE  Decimal(n) # <<>>
<1>1. Decimal(n) \in Seq(Digit) /\ Len(Decimal(n)) \in 1 .. 3
  BY Digits
<1>2. Len(Decimal(n)) # 0 /\ Len(<<>>) = 0
  BY <1>1
<1> QED
  BY <1>2

(* The first numbers of a list. *)
FirstOf(ids, i) == {ids[m] : m \in 1 .. i}

(* The text a client looks at is that of a list from its third character on. *)
Cut(text, last, ids) == \A m \in 1 .. last : text[m] = ListText(ids)[2 + m]

(* From the end of one number to the end of the next, if that is in the text. *)
LEMMA NumberRead ==
    ASSUME NEW ids \in Seq(Number), NEW i \in 1 .. Len(ids), NEW last \in Nat, NEW text,
           NEW r, ReadThrough(r, text, last), Cut(text, last, ids),
           Width(ids)[i - 1] <= last,
           r[Width(ids)[i - 1]] = [numbers |-> FirstOf(ids, i - 1), word |-> <<>>]
    PROVE  /\ Width(ids)[i] <= last =>
                  r[Width(ids)[i]] = [numbers |-> FirstOf(ids, i), word |-> <<>>]
           /\ Width(ids)[i] > last => r[last].numbers = FirstOf(ids, i - 1)
<1> DEFINE w == Width(ids)
           d == Decimal(ids[i])
           p == w[i - 1]
           before == FirstOf(ids, i - 1)
<1>1. ids[i] \in Number /\ i - 1 \in 0 .. Len(ids) /\ i \in 0 .. Len(ids) /\ Len(ids) \in Nat
  OBVIOUS
<1>2. d \in Seq(Digit) /\ Len(d) \in 1 .. 3 /\ Atoi(d) = ids[i]
  BY <1>1, Digits, AtoiDecimal
<1>3. p \in Nat /\ w[i] = p + Len(d) + 1 /\ w[i] \in Nat
  BY <1>1, WidthRuns
<1>4. /\ \A k \in 1 .. Len(d) : ListText(ids)[2 + p + k] = d[k]
      /\ ListText(ids)[2 + w[i]] = Blank
  BY TextParts
<1>5. p <= last /\ r[p] = [numbers |-> before, word |-> <<>>]
  OBVIOUS
<1>9. d # <<>>
  BY <1>1, DigitsSome
<1> HIDE DEF w, d, p, before
<1>6. ASSUME NEW k \in 0 .. Len(d), p + k <= last
      PROVE  r[p + k] = [numbers |-> before, word |-> SubSeq(d, 1, k)]
  <2>1. ASSUME NEW m \in 1 .. k PROVE text[p + m] = d[m]
    <3>1. p + m \in 1 .. last /\ m \in 1 .. Len(d) /\ 2 + (p + m) = 2 + p + m
      BY <1>2, <1>3, <1>6
    <3> QED
      BY <1>4, <3>1 DEF Cut
  <2>2. p \in 0 .. last /\ r[p].word = <<>> /\ r[p].numbers = before
    BY <1>3, <1>5
  <2>3. r[p + k] = [numbers |-> r[p].numbers, word |-> SubSeq(d, 1, k)]
    <3>1. /\ last \in Nat /\ ReadThrough(r, text, last) /\ p \in 0 .. last /\ r[p].word = <<>>
          /\ d \in Seq(Digit) /\ k \in 0 .. Len(d) /\ p + k <= last
          /\ Spells(text, p, d, k)
      BY <1>2, <1>6, <2>1, <2>2 DEF Spells
    <3> QED
      BY <3>1, WordRead
  <2> QED
    BY <2>2, <2>3
<1>7. ASSUME w[i] <= last PROVE r[w[i]] = [numbers |-> FirstOf(ids, i), word |-> <<>>]
  <2>1. /\ p + Len(d) <= last /\ Len(d) \in 0 .. Len(d) /\ w[i] \in 1 .. last
        /\ w[i] - 1 = p + Len(d)
    BY <1>2, <1>3, <1>7
  <2>2. r[p + Len(d)] = [numbers |-> before, word |-> d]
    BY <1>2, <1>6, <2>1, SubSeqFull
  <2>3. text[w[i]] = Blank
    BY <1>4, <2>1 DEF Cut
  <2>4. r[w[i]] = ReadOn([numbers |-> before, word |-> d], Blank)
    BY <2>1, <2>2, <2>3 DEF ReadThrough
  <2>5. d # <<>> /\ Blank \notin Digit
    BY <1>9 DEF Blank, Digit, Zero
  <2>6. r[w[i]] = [numbers |-> before \cup {ids[i]}, word |-> <<>>]
    BY <1>2, <2>4, <2>5 DEF ReadOn
  <2>7. FirstOf(ids, i) = before \cup {ids[i]}
    <3>1. 1 .. i = (1 .. i - 1) \cup {i}
      BY <1>1
    <3> QED
      BY <3>1 DEF FirstOf, before
  <2> QED
    BY <2>6, <2>7
<1>8. ASSUME w[i] > last PROVE r[last].numbers = before
  <2> DEFINE k == last - p
  <2>1. k \in 0 .. Len(d) /\ p + k = last
    BY <1>2, <1>3, <1>5, <1>8
  <2> HIDE DEF k
  <2>2. r[p + k] = [numbers |-> before, word |-> SubSeq(d, 1, k)]
    BY <1>6, <2>1
  <2> QED
    BY <2>1, <2>2
<1> QED
  BY <1>7, <1>8 DEF w, before

(* Of the text of a list, as much as a body holds: what is read are the numbers that end in it. *)
LEMMA ListRead ==
    ASSUME FramingAssumption, NEW ids \in Seq(Number), NEW seen \in Seq(Int),
           NEW length, length = body_length(Len(ListText(ids))),
           Len(seen) = (IF 3 <= length THEN length - 2 ELSE 0), Cut(seen, Len(seen), ids)
    PROVE  Numbers(seen) =
               {ids[i] : i \in {m \in DOMAIN ids : 2 + Width(ids)[m] <= max_body_length}}
<1> DEFINE n == Len(ids)
           w == Width(ids)
           text == ListText(ids)
           last == Len(seen)
           Known(i) == [numbers |-> FirstOf(ids, i), word |-> <<>>]
<1>1. n \in Nat /\ DOMAIN ids = 1 .. n /\ last \in Nat
  OBVIOUS
<1>2. /\ w \in [0 .. n -> Nat] /\ w[0] = 0
      /\ Len(text) = w[n] + 4 /\ text[2 + w[n] + 1] = Blank /\ text[2 + w[n] + 2] = 110
  BY WidthRuns, TextParts
<1>3. \A j \in 0 .. n, i \in 0 .. n : (i <= j => w[i] <= w[j]) /\ (i < j => w[i] < w[j])
  BY <1>1, WidthGrows
<1>4. PICK r : /\ ReadThrough(r, seen, last) /\ r[0] = [numbers |-> {}, word |-> <<>>]
               /\ Extraction(seen) = r[last]
  BY ExtractionRuns DEF ReadThrough
<1>5. w[n] \in Nat /\ max_body_length \in Nat
      /\ length = IF w[n] + 4 > max_body_length THEN max_body_length ELSE w[n] + 4
  BY <1>1, <1>2 DEF body_length, FramingAssumption
<1> HIDE DEF w, text, last
<1>6. last = (IF 3 <= length THEN length - 2 ELSE 0) /\ Cut(seen, last, ids)
  BY DEF last
<1> HIDE DEF n
<1>12. n = Len(ids)
  BY DEF n
<1>7. ASSUME NEW i \in 0 .. n PROVE w[i] <= last => r[w[i]] = Known(i)
  <2> DEFINE U == {j \in Nat : j <= n /\ w[j] <= last => r[w[j]] = Known(j)}
  <2>1. 0 \in U /\ U \in SUBSET Nat
    <3>1. FirstOf(ids, 0) = {}
      BY DEF FirstOf
    <3>2. r[w[0]] = Known(0)
      BY <1>2, <1>4, <3>1
    <3> HIDE DEF Known
    <3> QED
      BY <3>2
  <2>2. ASSUME NEW j \in Nat, j < n, j \in U PROVE j + 1 \in U
    <3>1. /\ j + 1 \in 1 .. n /\ (j + 1) - 1 = j /\ j \in 0 .. n /\ j + 1 \in 0 .. n
          /\ j < j + 1 /\ j <= n
      BY <1>1, <2>2
    <3> SUFFICES ASSUME w[j + 1] <= last PROVE r[w[j + 1]] = Known(j + 1)
      BY <3>1
    <3>2. w[j] <= last
      BY <1>1, <1>2, <1>3, <3>1
    <3>3. r[w[j]] = [numbers |-> FirstOf(ids, j), word |-> <<>>]
      BY <2>2, <3>1, <3>2
    <3>5. /\ Width(ids)[(j + 1) - 1] <= last /\ Width(ids)[j + 1] <= last
          /\ r[Width(ids)[(j + 1) - 1]] = [numbers |-> FirstOf(ids, (j + 1) - 1), word |-> <<>>]
      BY <3>1, <3>2, <3>3 DEF w
    <3>6. j + 1 \in 1 .. Len(ids)
      BY <1>12, <3>1
    <3>7. r[Width(ids)[j + 1]] = [numbers |-> FirstOf(ids, j + 1), word |-> <<>>]
      BY <1>1, <1>4, <1>6, <3>5, <3>6, NumberRead
    <3> QED
      BY <3>7 DEF w
  <2>3. 0 .. n \subseteq U
    <3> HIDE DEF U
    <3> QED
      BY <1>1, <2>1, <2>2, EveryTurn
  <2> QED
    BY <1>1, <2>3
<1>8. PICK i \in 0 .. n : w[i] <= last /\ (i < n => w[i + 1] > last)
  <2> SUFFICES ASSUME \A i \in 0 .. n : w[i] <= last => i < n /\ ~(w[i + 1] > last)
               PROVE  FALSE
    OBVIOUS
  <2> DEFINE U == {j \in Nat : j <= n => w[j] <= last}
  <2>1. 0 \in U /\ U \in SUBSET Nat
    BY <1>1, <1>2
  <2>2. ASSUME NEW j \in Nat, j < n, j \in U PROVE j + 1 \in U
    <3>1. j \in 0 .. n /\ j + 1 \in 0 .. n
      BY <1>1, <2>2
    <3>2. w[j] <= last
      BY <1>1, <2>2
    <3>3. ~(w[j + 1] > last) /\ w[j + 1] \in Nat
      BY <1>2, <3>1, <3>2
    <3> QED
      BY <1>1, <3>3
  <2>3. 0 .. n \subseteq U
    <3> HIDE DEF U
    <3> QED
      BY <1>1, <2>1, <2>2, EveryTurn
  <2>4. n \in 0 .. n /\ w[n] <= last
    BY <1>1, <2>3
  <2> QED
    BY <1>1, <2>4
<1>9. r[last].numbers = FirstOf(ids, i)
  <2>0. r[w[i]] = Known(i)
    BY <1>7, <1>8
  <2>1. CASE i < n
    <3>1. /\ i + 1 \in 1 .. Len(ids) /\ (i + 1) - 1 = i
      BY <1>1, <1>12, <2>1
    <3>3. /\ Width(ids)[(i + 1) - 1] <= last /\ Width(ids)[i + 1] > last
          /\ r[Width(ids)[(i + 1) - 1]] = [numbers |-> FirstOf(ids, (i + 1) - 1), word |-> <<>>]
      BY <1>8, <2>0, <2>1, <3>1 DEF w
    <3>4. r[last].numbers = FirstOf(ids, (i + 1) - 1)
      <4>1. last \in Nat /\ ReadThrough(r, seen, last) /\ Cut(seen, last, ids)
        BY <1>1, <1>4, <1>6
      <4> QED
        BY <3>1, <3>3, <4>1, NumberRead
    <3> QED
      BY <3>1, <3>4
  <2>2. CASE i = n
    <3> DEFINE b == w[n]
    <3>1. b \in Nat /\ last \in Nat /\ b <= last /\ last <= b + 2
      BY <1>1, <1>5, <1>6, <1>8, <2>2
    <3>2. Blank \notin Digit /\ 110 \notin Digit
      BY DEF Blank, Digit, Zero
    <3>3. r[w[n]] = Known(n)
      BY <2>0, <2>2
    <3>4. last >= w[n] + 1 => r[w[n] + 1] = Known(n)
      <4> SUFFICES ASSUME last >= w[n] + 1 PROVE r[w[n] + 1] = Known(n)
        OBVIOUS
      <4>1. w[n] + 1 \in 1 .. last /\ (w[n] + 1) - 1 = w[n] /\ 2 + (w[n] + 1) = 2 + w[n] + 1
        <5>2. last >= b + 1
          OBVIOUS
        <5> HIDE DEF b
        <5>1. b + 1 \in 1 .. last /\ (b + 1) - 1 = b /\ 2 + (b + 1) = 2 + b + 1
          BY <3>1, <5>2
        <5> QED
          BY <5>1 DEF b
      <4>2. seen[w[n] + 1] = Blank
        BY <1>2, <1>6, <4>1 DEF Cut, text
      <4>3. r[w[n] + 1] = ReadOn(r[w[n]], Blank)
        BY <1>4, <4>1, <4>2 DEF ReadThrough
      <4> QED
        BY <3>2, <3>3, <4>3 DEF ReadOn
    <3>5. last >= w[n] + 2 => r[w[n] + 2] = Known(n)
      <4> SUFFICES ASSUME last >= w[n] + 2 PROVE r[w[n] + 2] = Known(n)
        OBVIOUS
      <4>1. /\ w[n] + 2 \in 1 .. last /\ (w[n] + 2) - 1 = w[n] + 1
            /\ 2 + (w[n] + 2) = 2 + w[n] + 2 /\ last >= w[n] + 1
        <5> HIDE DEF b
        <5>1. /\ b + 2 \in 1 .. last /\ (b + 2) - 1 = b + 1 /\ 2 + (b + 2) = 2 + b + 2
              /\ last >= b + 1
          BY <3>1 DEF b
        <5> QED
          BY <5>1 DEF b
      <4>2. seen[w[n] + 2] = 110
        <5>1. seen[w[n] + 2] = text[2 + (w[n] + 2)]
          BY <1>6, <4>1 DEF Cut, text
        <5> QED
          BY <1>2, <4>1, <5>1
      <4>3. r[w[n] + 2] = ReadOn(r[w[n] + 1], 110)
        BY <1>4, <4>1, <4>2 DEF ReadThrough
      <4> QED
        BY <3>2, <3>4, <4>1, <4>3 DEF ReadOn
    <3>6. last = w[n] \/ last = w[n] + 1 \/ last = w[n] + 2
      <4> HIDE DEF b
      <4>1. last = b \/ last = b + 1 \/ last = b + 2
        BY <3>1
      <4> QED
        BY <4>1 DEF b
    <3>7. r[last] = Known(n)
      <4> HIDE DEF Known
      <4> QED
        BY <1>5, <3>3, <3>4, <3>5, <3>6
    <3> QED
      BY <2>2, <3>7
  <2> QED
    BY <1>1, <2>1, <2>2
<1>10. ASSUME NEW m \in 1 .. n PROVE m <= i <=> 2 + w[m] <= max_body_length
  <2>1. m \in 0 .. n /\ 0 \in 0 .. n /\ 0 < m /\ i \in Nat /\ m \in Nat
    BY <1>1
  <2>2. w[m] \in Nat /\ w[m] >= 1 /\ w[m] <= w[n]
    <3>1. n \in 0 .. n /\ m <= n
      BY <1>1
    <3>2. w[0] < w[m] /\ w[m] <= w[n]
      BY <1>3, <2>1, <3>1
    <3>3. w[m] \in Nat /\ w[0] = 0
      BY <1>2, <2>1
    <3> QED
      BY <3>2, <3>3
  <2>3. w[m] <= last <=> 2 + w[m] <= max_body_length
    <3> DEFINE a == w[m]
               b == w[n]
    <3>1. /\ a \in Nat /\ b \in Nat /\ a >= 1 /\ a <= b /\ max_body_length \in Nat
          /\ last = (IF 3 <= length THEN length - 2 ELSE 0)
          /\ length = IF b + 4 > max_body_length THEN max_body_length ELSE b + 4
      BY <1>5, <1>6, <2>2
    <3> HIDE DEF a, b
    <3>2. a <= last <=> 2 + a <= max_body_length
      BY <3>1
    <3> QED
      BY <3>2 DEF a
  <2>4. m <= i => w[m] <= last
    <3>1. m <= i => w[m] <= w[i]
      BY <1>3, <2>1
    <3>2. w[i] \in Nat
      BY <1>2
    <3> QED
      BY <1>1, <1>8, <2>2, <3>1, <3>2
  <2>5. ~(m <= i) => ~(w[m] <= last)
    <3> SUFFICES ASSUME ~(m <= i) PROVE ~(w[m] <= last)
      OBVIOUS
    <3>1. i < n /\ i + 1 \in 0 .. n /\ i + 1 <= m
      BY <1>1, <2>1
    <3>2. w[i + 1] <= w[m] /\ w[i + 1] > last /\ w[i + 1] \in Nat
      BY <1>2, <1>3, <1>8, <2>1, <3>1
    <3> QED
      BY <1>1, <2>2, <3>2
  <2> QED
    BY <2>3, <2>4, <2>5
<1>11. 1 .. i = {m \in DOMAIN ids : 2 + w[m] <= max_body_length}
  <2>1. \A m : m \in 1 .. i <=> m \in 1 .. n /\ m <= i
    BY <1>1
  <2> QED
    BY <1>1, <1>10, <2>1
<1> QED
  BY <1>4, <1>9, <1>11 DEF Numbers, FirstOf, w

-----------------------------------------------------------------------------
(* The stream.  What was read of a message put back in front of it, it is the messages
   listed, one behind the other. *)
Length(ids) == body_length(Len(ListText(ids)))

Frame(ids) == Encoded(ListText(ids))

LEMMA FrameParts ==
    ASSUME FramingAssumption, NEW ids \in Seq(Number)
    PROVE  /\ Length(ids) \in Number /\ Length(ids) \in 1 .. max_body_length
           /\ Length(ids) <= Len(ListText(ids))
           /\ Frame(ids) \in Seq(Int) /\ Len(Frame(ids)) = 4 + Length(ids)
           /\ \A j \in 1 .. 4 : Frame(ids)[j] = Header(Length(ids))[j]
           /\ \A j \in 1 .. Length(ids) : Frame(ids)[4 + j] = ListText(ids)[j]
           /\ Header(Length(ids)) \in Seq(Int) /\ Len(Header(Length(ids))) = 4
           /\ Atoi(Header(Length(ids))) = Length(ids)
<1> DEFINE text == ListText(ids)
           length == Length(ids)
           head == Header(length)
           body == SubSeq(text, 1, length)
<1>1. text \in Seq(Int) /\ Len(text) \in Nat /\ Len(text) >= 4
  <2>1. Width(ids)[Len(ids)] \in Nat
    BY WidthRuns
  <2> QED
    BY <2>1, TextParts
<1>2. max_body_length \in 1 .. 999
  BY DEF FramingAssumption
<1>3. length = IF Len(text) > max_body_length THEN max_body_length ELSE Len(text)
  BY DEF Length, body_length
<1> HIDE DEF text, length
<1>4. length \in Number /\ length \in 1 .. max_body_length /\ length <= Len(text)
  <2> DEFINE k == Len(text)
  <2>1. /\ max_body_length \in Nat /\ max_body_length >= 1 /\ max_body_length <= 999
        /\ k \in Nat /\ k >= 4
        /\ length = IF k > max_body_length THEN max_body_length ELSE k
    BY <1>1, <1>2, <1>3
  <2> HIDE DEF k
  <2>2. length \in 0 .. 999 /\ length \in 1 .. max_body_length /\ length <= k
    BY <2>1
  <2> QED
    BY <2>2 DEF k, Number
<1>5. head \in Seq(Int) /\ Len(head) = 4 /\ Atoi(head) = length
  BY <1>4, AtoiHeader DEF header_length
<1>6. body \in Seq(Int) /\ Len(body) = length /\ \A j \in 1 .. length : body[j] = text[j]
  <2>1. length \in Nat /\ \A j \in 1 .. length : text[j] \in Int
    BY <1>1, <1>2, <1>4
  <2>2. /\ SubSeq(text, 1, length) \in Seq(Int)
        /\ Len(SubSeq(text, 1, length)) = IF 1 <= length THEN length - 1 + 1 ELSE 0
        /\ \A i \in 1 .. length - 1 + 1 : SubSeq(text, 1, length)[i] = text[1 + i - 1]
    BY <2>1, SubSeqProperties
  <2> QED
    BY <1>4, <2>1, <2>2
<1>7. Frame(ids) = head \o body
  BY DEF Frame, Encoded, length, Length, text
<1> HIDE DEF head, body
<1>8. /\ head \o body \in Seq(Int) /\ Len(head \o body) = Len(head) + Len(body)
      /\ \A m \in 1 .. Len(head) : (head \o body)[m] = head[m]
      /\ \A k \in 1 .. Len(body) : (head \o body)[Len(head) + k] = body[k]
  <2>1. head \in Seq(Int) /\ body \in Seq(Int)
    BY <1>5, <1>6
  <2> QED
    BY <2>1, JoinAt
<1>9. /\ Frame(ids) \in Seq(Int) /\ Len(Frame(ids)) = 4 + length
      /\ \A j \in 1 .. 4 : Frame(ids)[j] = head[j]
      /\ \A j \in 1 .. length : Frame(ids)[4 + j] = text[j]
  BY <1>5, <1>6, <1>7, <1>8
<1> QED
  BY <1>4, <1>5, <1>9 DEF text, length, head

Places(at, bytes, lists) ==
    /\ at \in [0 .. Len(lists) -> Nat]
    /\ at[0] = 0 /\ at[Len(lists)] = Len(bytes)
    /\ \A i \in 1 .. Len(lists) :
           /\ at[i] = at[i - 1] + Len(Frame(lists[i]))
           /\ \A j \in 1 .. Len(Frame(lists[i])) : bytes[at[i - 1] + j] = Frame(lists[i])[j]

Framed(bytes, lists) == \E at : Places(at, bytes, lists)

LEMMA FrameLength ==
    ASSUME FramingAssumption, NEW lists \in Seq(Listed), NEW i \in 1 .. Len(lists)
    PROVE  /\ lists[i] \in Seq(Number) /\ Len(Frame(lists[i])) \in Nat
           /\ Len(Frame(lists[i])) >= 5 /\ Frame(lists[i]) \in Seq(Int)
<1>1. lists[i] \in Seq(Number)
  BY DEF FramingAssumption
<1>2. Frame(lists[i]) \in Seq(Int) /\ Len(Frame(lists[i])) = 4 + Length(lists[i])
      /\ Length(lists[i]) \in 1 .. max_body_length
  BY <1>1, FrameParts
<1>3. max_body_length \in Nat
  BY DEF FramingAssumption
<1> QED
  BY <1>1, <1>2, <1>3

LEMMA PlacesGrow ==
    ASSUME FramingAssumption, NEW lists \in Seq(Listed), NEW bytes, NEW at,
           Places(at, bytes, lists), NEW j \in 0 .. Len(lists), NEW i \in 0 .. j
    PROVE  at[i] <= at[j]
<1> DEFINE n == Len(lists)
           T == {m \in Nat : m <= n /\ i <= m => at[i] <= at[m]}
<1>1. n \in Nat /\ i \in Nat /\ j \in Nat /\ i <= j /\ j <= n
  OBVIOUS
<1>2. /\ \A m \in 0 .. n : at[m] \in Nat
      /\ \A m \in 1 .. n : at[m] = at[m - 1] + Len(Frame(lists[m]))
  BY DEF Places
<1>3. \A m \in 1 .. n : Len(Frame(lists[m])) \in Nat
  BY FrameLength
<1> HIDE DEF n
<1>4. i \in 0 .. n /\ at[i] \in Nat
  BY <1>1, <1>2
<1>5. 0 .. n \subseteq T
  <2>1. 0 \in T /\ T \in SUBSET Nat
    BY <1>1, <1>4
  <2>2. ASSUME NEW m \in Nat, m < n, m \in T PROVE m + 1 \in T
    <3>1. m + 1 \in 1 .. n /\ (m + 1) - 1 = m /\ m \in 0 .. n /\ m + 1 \in 0 .. n /\ m <= n
      BY <1>1, <2>2
    <3>2. at[m + 1] = at[m] + Len(Frame(lists[m + 1])) /\ at[m] \in Nat
          /\ Len(Frame(lists[m + 1])) \in Nat
      BY <1>2, <1>3, <3>1
    <3>3. at[m] <= at[m + 1] /\ at[m + 1] \in Nat
      BY <3>2
    <3>4. i <= m => at[i] <= at[m]
      BY <2>2, <3>1
    <3>5. i <= m + 1 => at[i] <= at[m + 1]
      <4>1. CASE i <= m
        BY <1>4, <3>2, <3>3, <3>4, <4>1
      <4>2. CASE i = m + 1
        BY <3>3, <4>2
      <4>3. i <= m + 1 => i <= m \/ i = m + 1
        BY <1>1
      <4> QED
        BY <4>1, <4>2, <4>3
    <3> QED
      BY <3>5
  <2> HIDE DEF T
  <2> QED
    BY <1>1, <2>1, <2>2, EveryTurn
<1> QED
  BY <1>1, <1>5

LEMMA FramedNone == Framed(<<>>, <<>>)
<1> DEFINE at == [i \in 0 .. 0 |-> 0]
<1>1. Len(<<>>) = 0 /\ 1 .. 0 = {}
  OBVIOUS
<1>2. at \in [0 .. Len(<<>>) -> Nat] /\ at[0] = 0 /\ at[Len(<<>>)] = 0
  BY <1>1
<1> HIDE DEF at
<1>3. Places(at, <<>>, <<>>)
  BY <1>1, <1>2 DEF Places
<1> QED
  BY <1>3 DEF Framed

LEMMA FramedMore ==
    ASSUME FramingAssumption, NEW bytes \in Seq(Int), NEW lists \in Seq(Listed),
           Framed(bytes, lists), NEW ids \in Listed
    PROVE  Framed(bytes \o Frame(ids), Append(lists, ids))
<1> DEFINE n == Len(lists)
           more == Append(lists, ids)
           f == Frame(ids)
           b2 == bytes \o f
<1>1. PICK at : Places(at, bytes, lists)
  BY DEF Framed
<1> DEFINE at2 == [i \in 0 .. n + 1 |-> IF i = n + 1 THEN at[n] + Len(f) ELSE at[i]]
<1>2. /\ n \in Nat /\ more \in Seq(Listed) /\ Len(more) = n + 1
      /\ \A i \in 1 .. n : more[i] = lists[i]
      /\ more[n + 1] = ids
  BY AppendProperties
<1>3. f \in Seq(Int) /\ Len(f) \in Nat
  <2>1. ids \in Seq(Number)
    BY DEF FramingAssumption
  <2> QED
    BY <2>1, FrameParts
<1>4. /\ \A i \in 0 .. n : at[i] \in Nat
      /\ at[0] = 0 /\ at[n] = Len(bytes)
      /\ \A i \in 1 .. n :
             /\ at[i] = at[i - 1] + Len(Frame(lists[i]))
             /\ \A j \in 1 .. Len(Frame(lists[i])) : bytes[at[i - 1] + j] = Frame(lists[i])[j]
  BY <1>1 DEF Places
<1>5. \A i \in 0 .. n : at[i] <= Len(bytes)
  <2> SUFFICES ASSUME NEW i \in 0 .. n PROVE at[i] <= Len(bytes)
    OBVIOUS
  <2>1. n \in 0 .. Len(lists) /\ i \in 0 .. n
    BY <1>2
  <2>2. at[i] <= at[n]
    BY <1>1, <2>1, PlacesGrow
  <2> QED
    BY <1>4, <2>2
<1>6. \A i \in 1 .. n : Len(Frame(lists[i])) \in Nat
  BY FrameLength
<1> HIDE DEF n, more, f
<1>7. /\ b2 \in Seq(Int) /\ Len(b2) = Len(bytes) + Len(f)
      /\ \A m \in 1 .. Len(bytes) : b2[m] = bytes[m]
      /\ \A k \in 1 .. Len(f) : b2[Len(bytes) + k] = f[k]
  <2>1. bytes \in Seq(Int) /\ f \in Seq(Int)
    BY <1>3
  <2>2. /\ bytes \o f \in Seq(Int) /\ Len(bytes \o f) = Len(bytes) + Len(f)
        /\ \A m \in 1 .. Len(bytes) : (bytes \o f)[m] = bytes[m]
        /\ \A k \in 1 .. Len(f) : (bytes \o f)[Len(bytes) + k] = f[k]
    BY <2>1, JoinAt
  <2> QED
    BY <2>2
<1> HIDE DEF b2
<1>8. /\ at2[n + 1] = at[n] + Len(f) /\ \A i \in 0 .. n : at2[i] = at[i]
      /\ at2 \in [0 .. n + 1 -> Nat]
  <2>1. at[n] \in Nat /\ n \in 0 .. n /\ n + 1 \in 0 .. n + 1
    BY <1>2, <1>4
  <2>2. \A i \in 0 .. n : i # n + 1 /\ i \in 0 .. n + 1
    BY <1>2
  <2>3. \A i \in 0 .. n + 1 : i # n + 1 => i \in 0 .. n
    BY <1>2
  <2>4. at[n] + Len(f) \in Nat
    BY <1>3, <2>1
  <2>5. \A i \in 0 .. n + 1 : at2[i] \in Nat
    BY <1>4, <2>3, <2>4
  <2> QED
    BY <2>1, <2>2, <2>5
<1> HIDE DEF at2
<1>9. ASSUME NEW i \in 1 .. n + 1
      PROVE  /\ at2[i] = at2[i - 1] + Len(Frame(more[i]))
             /\ \A j \in 1 .. Len(Frame(more[i])) : b2[at2[i - 1] + j] = Frame(more[i])[j]
  <2>1. CASE i = n + 1
    <3>1. more[i] = ids /\ i - 1 = n /\ n \in 0 .. n
      BY <1>2, <2>1
    <3>2. Frame(more[i]) = f /\ at2[i - 1] = at[n] /\ at2[i] = at[n] + Len(f)
      BY <1>8, <2>1, <3>1 DEF f
    <3> QED
      BY <1>4, <1>7, <3>2
  <2>2. CASE i # n + 1
    <3>1. i \in 1 .. n /\ i \in 0 .. n /\ i - 1 \in 0 .. n
      BY <1>2, <2>2
    <3>2. more[i] = lists[i] /\ at2[i] = at[i] /\ at2[i - 1] = at[i - 1]
      BY <1>2, <1>8, <3>1
    <3> DEFINE g == Frame(lists[i])
    <3>3. /\ at[i] = at[i - 1] + Len(g) /\ at[i - 1] \in Nat /\ at[i] \in Nat /\ Len(g) \in Nat
          /\ at[i] <= Len(bytes) /\ \A j \in 1 .. Len(g) : bytes[at[i - 1] + j] = g[j]
      BY <1>4, <1>5, <1>6, <3>1
    <3> HIDE DEF g
    <3>4. ASSUME NEW j \in 1 .. Len(g) PROVE b2[at[i - 1] + j] = g[j]
      <4>1. at[i - 1] + j \in 1 .. Len(bytes)
        BY <3>3
      <4> QED
        BY <1>7, <3>3, <4>1
    <3> QED
      BY <3>2, <3>3, <3>4 DEF g
  <2> QED
    BY <2>1, <2>2
<1>10. at2[0] = 0 /\ at2[n + 1] = Len(b2)
  <2>1. 0 \in 0 .. n
    BY <1>2
  <2> QED
    BY <1>4, <1>7, <1>8, <2>1
<1>11. Places(at2, b2, more)
  BY <1>2, <1>8, <1>9, <1>10 DEF Places
<1> QED
  BY <1>11 DEF Framed, b2, f, more

LEMMA FramedHead ==
    ASSUME FramingAssumption, NEW bytes \in Seq(Int), NEW lists \in Seq(Listed),
           Framed(bytes, lists), lists # <<>>
    PROVE  /\ Len(Frame(Head(lists))) \in Nat
           /\ Len(bytes) >= Len(Frame(Head(lists)))
           /\ \A j \in 1 .. Len(Frame(Head(lists))) : bytes[j] = Frame(Head(lists))[j]
           /\ Framed(SubSeq(bytes, Len(Frame(Head(lists))) + 1, Len(bytes)), Tail(lists))
<1> DEFINE n == Len(lists)
           rest == Tail(lists)
           k == Len(Frame(Head(lists)))
           b2 == SubSeq(bytes, k + 1, Len(bytes))
<1>1. PICK at : Places(at, bytes, lists)
  BY DEF Framed
<1> DEFINE at2 == [i \in 0 .. n - 1 |-> at[i + 1] - k]
<1>2. /\ n \in Nat /\ n >= 1 /\ Head(lists) = lists[1]
      /\ rest \in Seq(Listed) /\ Len(rest) = n - 1
      /\ \A i \in 1 .. n - 1 : rest[i] = lists[i + 1]
  BY HeadTailProperties
<1>3. /\ \A i \in 0 .. n : at[i] \in Nat
      /\ at[0] = 0 /\ at[n] = Len(bytes)
      /\ \A i \in 1 .. n :
             /\ at[i] = at[i - 1] + Len(Frame(lists[i]))
             /\ \A j \in 1 .. Len(Frame(lists[i])) : bytes[at[i - 1] + j] = Frame(lists[i])[j]
  BY <1>1 DEF Places
<1>4. \A i \in 1 .. n : Len(Frame(lists[i])) \in Nat
  BY FrameLength
<1>5. k \in Nat /\ at[1] = k /\ 1 \in 1 .. n
  <2>1. 1 \in 1 .. n /\ 1 - 1 = 0
    BY <1>2
  <2>2. k \in Nat /\ k = Len(Frame(lists[1]))
    BY <1>2, <1>4, <2>1
  <2>3. at[1] = at[0] + Len(Frame(lists[1]))
    BY <1>3, <2>1
  <2> HIDE DEF k
  <2> QED
    BY <1>3, <2>1, <2>2, <2>3
<1>6. \A i \in 1 .. n : k <= at[i] /\ at[i] <= Len(bytes)
  <2> SUFFICES ASSUME NEW i \in 1 .. n PROVE k <= at[i] /\ at[i] <= Len(bytes)
    OBVIOUS
  <2>1. n \in 0 .. Len(lists) /\ i \in 0 .. n /\ i \in 0 .. Len(lists) /\ 1 \in 0 .. i
    BY <1>2
  <2>2. at[1] <= at[i] /\ at[i] <= at[n]
    <3>1. at[1] <= at[i]
      BY <1>1, <2>1, PlacesGrow
    <3>2. at[i] <= at[n]
      BY <1>1, <2>1, PlacesGrow
    <3> QED
      BY <3>1, <3>2
  <2> QED
    BY <1>3, <1>5, <2>2
<1>7. Len(bytes) \in Nat /\ k <= Len(bytes) /\ \A m \in 1 .. Len(bytes) : bytes[m] \in Int
  BY <1>5, <1>6
<1>8. \A j \in 1 .. k : bytes[j] = Frame(Head(lists))[j]
  <2> SUFFICES ASSUME NEW j \in 1 .. Len(Frame(lists[1])) PROVE bytes[j] = Frame(lists[1])[j]
    BY <1>2
  <2>1. 1 - 1 = 0 /\ 0 + j = j
    BY <1>2, <1>4, <1>5
  <2> QED
    BY <1>3, <1>5, <2>1
<1> HIDE DEF n, rest, k
<1>9. /\ b2 \in Seq(Int) /\ Len(b2) = Len(bytes) - k
      /\ \A m \in 1 .. Len(bytes) - k : b2[m] = bytes[k + m]
  <2> DEFINE l == Len(bytes)
  <2>1. /\ l \in Nat /\ k \in Nat /\ k <= l /\ k + 1 \in Int /\ \A m \in k + 1 .. l : bytes[m] \in Int
    BY <1>5, <1>7
  <2> HIDE DEF l
  <2>2. /\ SubSeq(bytes, k + 1, l) \in Seq(Int)
        /\ Len(SubSeq(bytes, k + 1, l)) = IF k + 1 <= l THEN l - (k + 1) + 1 ELSE 0
        /\ \A i \in 1 .. l - (k + 1) + 1 : SubSeq(bytes, k + 1, l)[i] = bytes[k + 1 + i - 1]
    BY <2>1, SubSeqProperties
  <2>3. l - (k + 1) + 1 = l - k /\ (k + 1 <= l \/ l = k)
    BY <2>1
  <2>4. Len(SubSeq(bytes, k + 1, l)) = l - k
    BY <2>1, <2>2, <2>3
  <2>5. ASSUME NEW m \in 1 .. l - k PROVE SubSeq(bytes, k + 1, l)[m] = bytes[k + m]
    <3>1. k + 1 + m - 1 = k + m /\ m \in 1 .. l - (k + 1) + 1
      BY <2>1, <2>3
    <3> QED
      BY <2>2, <3>1
  <2> QED
    BY <2>2, <2>4, <2>5 DEF l
<1> HIDE DEF b2
<1>10. /\ at2 \in [0 .. n - 1 -> Nat] /\ \A i \in 0 .. n - 1 : at2[i] = at[i + 1] - k
  <2>1. ASSUME NEW i \in 0 .. n - 1 PROVE at[i + 1] - k \in Nat
    <3>1. i + 1 \in 1 .. n /\ i + 1 \in 0 .. n
      BY <1>2
    <3>2. at[i + 1] \in Nat /\ k <= at[i + 1]
      BY <1>3, <1>6, <3>1
    <3> QED
      BY <1>5, <3>2
  <2> QED
    BY <2>1
<1> HIDE DEF at2
<1>11. at2[0] = 0 /\ at2[n - 1] = Len(b2)
  <2>1. 0 \in 0 .. n - 1 /\ n - 1 \in 0 .. n - 1 /\ (n - 1) + 1 = n /\ 0 + 1 = 1
    BY <1>2
  <2>2. at2[0] = at[1] - k /\ at2[n - 1] = at[n] - k
    BY <1>10, <2>1
  <2> QED
    BY <1>3, <1>5, <1>9, <2>2
<1>12. ASSUME NEW i \in 1 .. n - 1
       PROVE  /\ at2[i] = at2[i - 1] + Len(Frame(rest[i]))
              /\ \A j \in 1 .. Len(Frame(rest[i])) : b2[at2[i - 1] + j] = Frame(rest[i])[j]
  <2> DEFINE g == Frame(lists[i + 1])
  <2>1. /\ i + 1 \in 1 .. n /\ (i + 1) - 1 = i /\ i \in 0 .. n - 1 /\ i - 1 \in 0 .. n - 1
        /\ i \in 0 .. n /\ i + 1 \in 0 .. n /\ (i - 1) + 1 = i /\ i \in 1 .. n
    BY <1>2
  <2>2. /\ rest[i] = lists[i + 1] /\ at2[i] = at[i + 1] - k /\ at2[i - 1] = at[i] - k
    BY <1>2, <1>10, <2>1
  <2>3. /\ at[i + 1] = at[i] + Len(g) /\ \A j \in 1 .. Len(g) : bytes[at[i] + j] = g[j]
        /\ at[i] \in Nat /\ at[i + 1] \in Nat /\ Len(g) \in Nat
        /\ k <= at[i] /\ at[i + 1] <= Len(bytes)
    BY <1>3, <1>4, <1>6, <2>1
  <2> HIDE DEF g
  <2>4. at2[i] = at2[i - 1] + Len(g)
    BY <1>5, <2>2, <2>3
  <2>5. ASSUME NEW j \in 1 .. Len(g) PROVE b2[at2[i - 1] + j] = g[j]
    <3>1. at2[i - 1] + j \in 1 .. Len(bytes) - k /\ k + (at2[i - 1] + j) = at[i] + j
      <4> DEFINE a == at[i]
                 a2 == at2[i - 1]
                 l == Len(bytes)
                 h == Len(g)
      <4>1. /\ a \in Nat /\ l \in Nat /\ h \in Nat /\ k \in Nat /\ j \in 1 .. h
            /\ k <= a /\ a + h <= l /\ a2 = a - k
        BY <1>5, <1>7, <2>2, <2>3
      <4> HIDE DEF a, a2, l, h
      <4>2. a2 + j \in 1 .. l - k /\ k + (a2 + j) = a + j
        BY <4>1
      <4> QED
        BY <4>2 DEF a, a2, l
    <3>2. b2[at2[i - 1] + j] = bytes[k + (at2[i - 1] + j)]
      BY <1>9, <3>1
    <3> QED
      BY <2>3, <3>1, <3>2
  <2> QED
    BY <2>2, <2>4, <2>5 DEF g
<1>13. Places(at2, b2, rest)
  BY <1>2, <1>10, <1>11, <1>12 DEF Places
<1>14. Framed(b2, rest)
  BY <1>13 DEF Framed
<1> QED
  BY <1>5, <1>7, <1>8, <1>14 DEF b2, k, rest

(* Without a list no bytes. *)
LEMMA FramedEmpty ==
    ASSUME NEW bytes \in Seq(Int), Framed(bytes, <<>>)
    PROVE  Len(bytes) = 0
<1>1. PICK at : Places(at, bytes, <<>>)
  BY DEF Framed
<1>2. Len(<<>>) = 0
  OBVIOUS
<1> QED
  BY <1>1, <1>2 DEF Places

(* What the bytes in front are, part by part. *)
LEMMA InFront ==
    ASSUME FramingAssumption, NEW bytes \in Seq(Int), NEW lists \in Seq(Listed),
           Framed(bytes, lists), lists # <<>>
    PROVE  /\ Head(lists) \in Listed /\ Head(lists) \in Seq(Number)
           /\ Length(Head(lists)) \in Number /\ Length(Head(lists)) \in 1 .. max_body_length
           /\ Len(bytes) >= 4 + Length(Head(lists))
           /\ \A j \in 1 .. 4 : bytes[j] = Header(Length(Head(lists)))[j]
           /\ \A j \in 1 .. Length(Head(lists)) : bytes[4 + j] = ListText(Head(lists))[j]
           /\ Framed(SubSeq(bytes, 4 + Length(Head(lists)) + 1, Len(bytes)), Tail(lists))
<1> DEFINE ids == Head(lists)
           l == Length(ids)
<1>1. ids \in Listed /\ ids \in Seq(Number)
  <2>1. ids \in Listed
    BY HeadTailProperties
  <2> QED
    BY <2>1 DEF FramingAssumption
<1>2. /\ l \in Number /\ l \in 1 .. max_body_length
      /\ Len(Frame(ids)) = 4 + l
      /\ \A j \in 1 .. 4 : Frame(ids)[j] = Header(l)[j]
      /\ \A j \in 1 .. l : Frame(ids)[4 + j] = ListText(ids)[j]
  BY <1>1, FrameParts
<1>3. /\ Len(bytes) >= Len(Frame(ids))
      /\ \A j \in 1 .. Len(Frame(ids)) : bytes[j] = Frame(ids)[j]
      /\ Framed(SubSeq(bytes, Len(Frame(ids)) + 1, Len(bytes)), Tail(lists))
  BY FramedHead
<1> HIDE DEF ids, l
<1>4. l \in Nat
  BY <1>2 DEF Number
<1>5. \A j \in 1 .. 4 : j \in 1 .. 4 + l
  BY <1>4
<1>6. \A j \in 1 .. l : 4 + j \in 1 .. 4 + l
  BY <1>4
<1>7. /\ \A j \in 1 .. 4 : bytes[j] = Header(l)[j]
      /\ \A j \in 1 .. l : bytes[4 + j] = ListText(ids)[j]
  BY <1>2, <1>3, <1>5, <1>6
<1> QED
  BY <1>1, <1>2, <1>3, <1>7 DEF ids, l

-----------------------------------------------------------------------------
(* What was read of a message, put back in front of the stream. *)
Unread == IF expected = -1 THEN stream ELSE Header(expected) \o stream

FramingInv ==
    /\ stream \in Seq(Int) /\ expected \in Number \cup {-1}
    /\ listed \in Seq(Listed) /\ asked \in Listed \cup {<<>>}
    /\ ~refused
    /\ Framed(Unread, listed)
    /\ expected # -1 => listed # <<>> /\ expected = Length(Head(listed))
    /\ ListIsTrue

LEMMA UnreadSeq ==
    ASSUME FramingInv
    PROVE  /\ Unread \in Seq(Int) /\ Len(stream) \in Nat
           /\ expected = -1 => Unread = stream
           /\ expected # -1 =>
                  /\ expected \in Number /\ Unread = Header(expected) \o stream
                  /\ Header(expected) \in Seq(Int) /\ Len(Header(expected)) = 4
                  /\ Len(Unread) = 4 + Len(stream)
                  /\ \A k \in 1 .. Len(stream) : Unread[4 + k] = stream[k]
<1>1. stream \in Seq(Int) /\ expected \in Number \cup {-1}
  BY DEF FramingInv
<1>2. CASE expected = -1
  BY <1>1, <1>2 DEF Unread
<1>3. CASE expected # -1
  <2>1. expected \in Number
    BY <1>1, <1>3
  <2> DEFINE head == Header(expected)
  <2>2. head \in Seq(Int) /\ Len(head) = 4
    BY <2>1, AtoiHeader DEF header_length
  <2> HIDE DEF head
  <2>3. head \in Seq(Int) /\ stream \in Seq(Int)
    BY <1>1, <2>2
  <2>4. /\ head \o stream \in Seq(Int) /\ Len(head \o stream) = Len(head) + Len(stream)
        /\ \A k \in 1 .. Len(stream) : (head \o stream)[Len(head) + k] = stream[k]
    BY <2>3, JoinAt
  <2>5. Unread = head \o stream
    BY <1>3 DEF Unread, head
  <2> QED
    BY <1>1, <1>3, <2>1, <2>2, <2>4, <2>5 DEF head
<1> QED
  BY <1>2, <1>3

LEMMA FramingStarts ==
    ASSUME FramingAssumption, Init
    PROVE  FramingInv
<1>1. /\ stream = <<>> /\ expected = -1 /\ listed = <<>> /\ shown = {} /\ asked = <<>>
      /\ ~refused
  BY DEF Init
<1>2. stream \in Seq(Int) /\ listed \in Seq(Listed)
  BY <1>1
<1>3. Framed(Unread, listed)
  BY <1>1, FramedNone DEF Unread
<1>4. ListIsTrue
  <2>1. DOMAIN asked = {}
    BY <1>1
  <2> QED
    BY <1>1, <2>1 DEF ListIsTrue
<1> QED
  BY <1>1, <1>2, <1>3, <1>4 DEF FramingInv

LEMMA ListKept ==
    ASSUME ListIsTrue, UNCHANGED <<shown, asked>>
    PROVE  ListIsTrue'
<1>1. asked' = asked /\ shown' = shown
  OBVIOUS
<1>2. Width(asked)' = Width(asked)
  BY <1>1 DEF Width
<1> QED
  BY <1>1, <1>2 DEF ListIsTrue

LEMMA SendListKeeps ==
    ASSUME FramingAssumption, FramingInv, NEW ids \in Listed, SendList(ids)
    PROVE  FramingInv'
<1> DEFINE f == Frame(ids)
<1>1. /\ stream' = stream \o f /\ listed' = Append(listed, ids)
      /\ UNCHANGED <<expected, shown, asked, refused>>
  BY DEF SendList, Frame
<1>2. /\ stream \in Seq(Int) /\ listed \in Seq(Listed) /\ expected \in Number \cup {-1}
      /\ asked \in Listed \cup {<<>>} /\ ~refused /\ Framed(Unread, listed)
      /\ expected # -1 => listed # <<>> /\ expected = Length(Head(listed))
      /\ ListIsTrue
  BY DEF FramingInv
<1>3. f \in Seq(Int)
  <2>1. ids \in Seq(Number)
    BY DEF FramingAssumption
  <2> QED
    BY <2>1, FrameParts
<1>4. Unread \in Seq(Int)
  BY UnreadSeq
<1>5. Framed(Unread \o f, Append(listed, ids))
  BY <1>2, <1>4, FramedMore
<1> HIDE DEF f
<1>6. Unread' = Unread \o f
  <2>1. CASE expected = -1
    BY <1>1, <2>1 DEF Unread
  <2>2. CASE expected # -1
    <3> DEFINE head == Header(expected)
    <3>1. head \in Seq(Int) /\ stream \in Seq(Int) /\ f \in Seq(Int)
      BY <1>2, <1>3, <2>2, UnreadSeq
    <3>2. Unread = head \o stream /\ Unread' = head \o (stream \o f)
      BY <1>1, <2>2 DEF Unread
    <3> HIDE DEF head
    <3>3. (head \o stream) \o f = head \o (stream \o f)
      BY <3>1, ConcatAssociative
    <3> QED
      BY <3>2, <3>3
  <2> QED
    BY <2>1, <2>2
<1>7. stream' \in Seq(Int)
  <2>1. stream \o f \in Seq(Int)
    BY <1>2, <1>3, ConcatProperties
  <2> QED
    BY <1>1, <2>1
<1>8. /\ listed' \in Seq(Listed)
      /\ listed # <<>> => listed' # <<>> /\ Head(listed') = Head(listed)
  <2>1. Append(listed, ids) \in Seq(Listed) /\ Len(Append(listed, ids)) = Len(listed) + 1
        /\ \A i \in 1 .. Len(listed) : Append(listed, ids)[i] = listed[i]
    BY <1>2, AppendProperties
  <2>2. listed # <<>> => Len(listed) \in Nat /\ Len(listed) >= 1
    BY <1>2
  <2>3. Append(listed, ids) # <<>>
    BY <1>2, <2>1
  <2> QED
    BY <1>1, <1>2, <2>1, <2>2, <2>3
<1>9. ListIsTrue'
  BY <1>1, <1>2, ListKept
<1>10. expected' # -1 => listed' # <<>> /\ expected' = Length(Head(listed'))
  BY <1>1, <1>2, <1>8
<1>11. Framed(Unread', listed')
  BY <1>1, <1>5, <1>6
<1> QED
  BY <1>1, <1>2, <1>7, <1>8, <1>9, <1>10, <1>11 DEF FramingInv

LEMMA ReadHeaderKeeps ==
    ASSUME FramingAssumption, FramingInv, ReadHeader
    PROVE  FramingInv'
<1> DEFINE l == Length(Head(listed))
           four == SubSeq(stream, 1, 4)
           rest == SubSeq(stream, 5, Len(stream))
<1>1. /\ stream \in Seq(Int) /\ listed \in Seq(Listed) /\ expected = -1 /\ Len(stream) >= 4
      /\ asked \in Listed \cup {<<>>} /\ ~refused /\ Framed(stream, listed) /\ ListIsTrue
  BY DEF FramingInv, ReadHeader, Unread, header_length
<1>2. /\ IF Atoi(four) > max_body_length
         THEN refused' = TRUE /\ UNCHANGED expected
         ELSE expected' = Atoi(four) /\ UNCHANGED refused
      /\ stream' = rest
      /\ UNCHANGED <<listed, shown, asked>>
  <2>1. header_length = 4 /\ 4 + 1 = 5
    BY DEF header_length
  <2> QED
    BY <2>1 DEF ReadHeader
<1>3. listed # <<>>
  <2> SUFFICES ASSUME listed = <<>> PROVE FALSE
    OBVIOUS
  <2>1. Framed(stream, <<>>)
    BY <1>1
  <2>2. Len(stream) = 0
    BY <1>1, <2>1, FramedEmpty
  <2> QED
    BY <1>1, <2>2
<1>4. /\ l \in Number /\ l \in 1 .. max_body_length
      /\ \A j \in 1 .. 4 : stream[j] = Header(l)[j]
  BY <1>1, <1>3, InFront
<1> HIDE DEF l
<1>5. Header(l) \in Seq(Int) /\ Len(Header(l)) = 4 /\ Atoi(Header(l)) = l
  BY <1>4, AtoiHeader DEF header_length
<1> DEFINE k == Len(stream)
<1>6. k \in Nat /\ k >= 4 /\ \A j \in 1 .. k : stream[j] \in Int
  BY <1>1
<1>7. four = Header(l)
  <2>1. \A j \in 1 .. 4 : stream[j] \in Int
    <3>1. \A j \in 1 .. 4 : j \in 1 .. k
      BY <1>6
    <3> QED
      BY <1>6, <3>1
  <2>2. four \in Seq(Int) /\ Len(four) = 4 /\ \A i \in 1 .. 4 : four[i] = stream[i]
    <3>1. /\ SubSeq(stream, 1, 4) \in Seq(Int)
          /\ Len(SubSeq(stream, 1, 4)) = IF 1 <= 4 THEN 4 - 1 + 1 ELSE 0
          /\ \A i \in 1 .. 4 - 1 + 1 : SubSeq(stream, 1, 4)[i] = stream[1 + i - 1]
      BY <2>1, SubSeqProperties
    <3> QED
      BY <3>1
  <2> HIDE DEF four
  <2>3. \A i \in 1 .. Len(four) : four[i] = Header(l)[i]
    BY <1>4, <2>2
  <2> QED
    BY <1>5, <2>2, <2>3, SeqEqual
<1>8. expected' = l /\ refused' = refused
  <2> HIDE DEF four, rest, k
  <2>1. max_body_length \in 1 .. 999
    BY DEF FramingAssumption
  <2>2. ~(l > max_body_length)
    BY <1>4, <2>1
  <2>3. Atoi(four) = l
    BY <1>5, <1>7
  <2>4. IF l > max_body_length
        THEN refused' = TRUE /\ UNCHANGED expected
        ELSE expected' = l /\ UNCHANGED refused
    BY <1>2, <2>3
  <2> QED
    BY <2>2, <2>4
<1>9. four \o rest = stream
  <2>1. 1 \in 1 .. k + 1 /\ 4 \in 1 - 1 .. k /\ k \in 4 .. k /\ 4 + 1 = 5
    BY <1>6
  <2>2. SubSeq(stream, 1, 4) \o SubSeq(stream, 4 + 1, k) = SubSeq(stream, 1, k)
    BY <1>1, <2>1, ConcatAdjacentSubSeq
  <2>3. SubSeq(stream, 1, Len(stream)) = stream
    BY <1>1, SubSeqFull
  <2> QED
    BY <2>1, <2>2, <2>3
<1>10. rest \in Seq(Int)
  <2>1. \A j \in 5 .. k : stream[j] \in Int
    BY <1>6
  <2> QED
    BY <1>6, <2>1, SubSeqProperties
<1> HIDE DEF four, rest, k
<1>11. expected' # -1
  <2>1. l # -1
    BY <1>4 DEF Number
  <2> QED
    BY <1>8, <2>1
<1>12. Framed(Unread', listed')
  <2>1. Unread' = Header(l) \o rest
    BY <1>2, <1>8, <1>11 DEF Unread
  <2> QED
    BY <1>1, <1>2, <1>7, <1>9, <2>1
<1>13. ListIsTrue'
  BY <1>1, <1>2, ListKept
<1>14. listed' # <<>> /\ expected' = Length(Head(listed'))
  BY <1>2, <1>3, <1>8 DEF l
<1> QED
  BY <1>1, <1>2, <1>4, <1>8, <1>10, <1>12, <1>13, <1>14 DEF FramingInv

LEMMA ReadBodyKeeps ==
    ASSUME FramingAssumption, FramingInv, ReadBody
    PROVE  FramingInv'
<1> DEFINE ids == Head(listed)
           k == Len(stream)
           seen == SubSeq(stream, 3, expected)
           rest == SubSeq(stream, expected + 1, k)
<1>1. /\ stream \in Seq(Int) /\ listed \in Seq(Listed) /\ expected \in 0 .. k /\ ~refused
      /\ Framed(Unread, listed)
      /\ expected # -1 => listed # <<>> /\ expected = Length(ids)
  BY DEF FramingInv, ReadBody
<1>2. /\ shown' = Numbers(seen) /\ asked' = ids /\ listed' = Tail(listed)
      /\ stream' = rest /\ expected' = -1 /\ UNCHANGED refused
  BY DEF ReadBody
<1>3. /\ k \in Nat /\ expected \in Nat /\ expected <= k /\ expected # -1
      /\ \A j \in 1 .. k : stream[j] \in Int
  BY <1>1
<1>4. listed # <<>> /\ expected = Length(ids)
  <2>1. expected # -1
    BY <1>3
  <2> HIDE DEF ids, k
  <2> QED
    BY <1>1, <2>1
<1>5. /\ Unread \in Seq(Int) /\ Len(Unread) = 4 + k
      /\ \A j \in 1 .. k : Unread[4 + j] = stream[j]
  BY <1>3, UnreadSeq
<1>6. /\ ids \in Listed /\ ids \in Seq(Number)
      /\ \A j \in 1 .. expected : Unread[4 + j] = ListText(ids)[j]
      /\ Framed(SubSeq(Unread, 4 + expected + 1, 4 + k), Tail(listed))
  <2>1. /\ ids \in Listed /\ ids \in Seq(Number)
        /\ \A j \in 1 .. Length(ids) : Unread[4 + j] = ListText(ids)[j]
        /\ Framed(SubSeq(Unread, 4 + Length(ids) + 1, Len(Unread)), Tail(listed))
    <3>1. Unread \in Seq(Int) /\ listed \in Seq(Listed) /\ Framed(Unread, listed) /\ listed # <<>>
      BY <1>1, <1>4, <1>5
    <3> QED
      BY <3>1, InFront
  <2> HIDE DEF ids, k
  <2> QED
    BY <1>4, <1>5, <2>1
<1>7. expected = body_length(Len(ListText(ids)))
  BY <1>4 DEF Length
<1>8. Tail(listed) \in Seq(Listed)
  BY <1>1, <1>4, HeadTailProperties
<1> HIDE DEF ids, k
<1>9. rest \in Seq(Int) /\ rest = SubSeq(Unread, 4 + expected + 1, 4 + k)
  <2> DEFINE a == expected + 1
             b == SubSeq(Unread, 4 + expected + 1, 4 + k)
  <2>1. \A j \in a .. k : j \in 1 .. k
    BY <1>3
  <2>2. \A j \in a .. k : stream[j] \in Int
    BY <1>3, <2>1
  <2>3. a \in Int /\ k \in Int
    BY <1>3
  <2>4. /\ rest \in Seq(Int) /\ Len(rest) = IF a <= k THEN k - a + 1 ELSE 0
        /\ \A i \in 1 .. k - a + 1 : rest[i] = stream[a + i - 1]
    <3> HIDE DEF a
    <3>1. /\ SubSeq(stream, a, k) \in Seq(Int)
          /\ Len(SubSeq(stream, a, k)) = IF a <= k THEN k - a + 1 ELSE 0
          /\ \A i \in 1 .. k - a + 1 : SubSeq(stream, a, k)[i] = stream[a + i - 1]
      BY <2>2, <2>3, SubSeqProperties
    <3> QED
      BY <3>1 DEF a
  <2> DEFINE c == 4 + expected + 1
             d == 4 + k
  <2>5. c \in Int /\ d \in Int /\ \A j \in c .. d : Unread[j] \in Int
    <3>1. \A j \in c .. d : j \in 1 .. 4 + k
      BY <1>3
    <3>2. \A j \in 1 .. 4 + k : Unread[j] \in Int
      BY <1>5
    <3> QED
      BY <1>3, <3>1, <3>2
  <2>6. /\ b \in Seq(Int) /\ Len(b) = IF c <= d THEN d - c + 1 ELSE 0
        /\ \A i \in 1 .. d - c + 1 : b[i] = Unread[c + i - 1]
    <3> HIDE DEF c, d
    <3>1. /\ SubSeq(Unread, c, d) \in Seq(Int)
          /\ Len(SubSeq(Unread, c, d)) = IF c <= d THEN d - c + 1 ELSE 0
          /\ \A i \in 1 .. d - c + 1 : SubSeq(Unread, c, d)[i] = Unread[c + i - 1]
      BY <2>5, SubSeqProperties
    <3> QED
      BY <3>1 DEF c, d
  <2>7. d - c + 1 = k - expected /\ k - a + 1 = k - expected /\ (c <= d <=> a <= k)
    BY <1>3
  <2> HIDE DEF rest, b
  <2>8. Len(rest) = Len(b)
    BY <2>4, <2>6, <2>7
  <2>9. \A i \in 1 .. Len(rest) : rest[i] = b[i]
    <3> SUFFICES ASSUME NEW i \in 1 .. Len(rest) PROVE rest[i] = b[i]
      OBVIOUS
    <3>1. i \in Nat /\ i >= 1 /\ i <= k - expected
      <4>1. Len(rest) <= k - expected
        BY <1>3, <2>4, <2>7
      <4> QED
        BY <1>3, <2>4, <4>1
    <3>2. i \in 1 .. k - a + 1 /\ i \in 1 .. d - c + 1
      BY <1>3, <2>7, <3>1
    <3>3. rest[i] = stream[a + i - 1] /\ b[i] = Unread[c + i - 1]
      BY <2>4, <2>6, <3>2
    <3>4. c + i - 1 = 4 + (a + i - 1) /\ a + i - 1 \in 1 .. k
      BY <1>3, <3>1
    <3> QED
      BY <1>5, <3>3, <3>4
  <2>10. rest = b
    BY <2>4, <2>6, <2>8, <2>9, SeqEqual
  <2> QED
    BY <2>4, <2>10 DEF b
<1>10. /\ seen \in Seq(Int) /\ Len(seen) = IF 3 <= expected THEN expected - 2 ELSE 0
       /\ \A i \in 1 .. Len(seen) : 2 + i \in 1 .. expected /\ seen[i] = stream[2 + i]
  <2>1. \A j \in 3 .. expected : stream[j] \in Int
    BY <1>3
  <2>2. 3 \in Int /\ expected \in Int
    BY <1>3
  <2>3. /\ SubSeq(stream, 3, expected) \in Seq(Int)
        /\ Len(SubSeq(stream, 3, expected)) = IF 3 <= expected THEN expected - 3 + 1 ELSE 0
        /\ \A i \in 1 .. expected - 3 + 1 : SubSeq(stream, 3, expected)[i] = stream[3 + i - 1]
    BY <2>1, <2>2, SubSeqProperties
  <2> HIDE DEF seen
  <2>4. /\ seen \in Seq(Int) /\ Len(seen) = IF 3 <= expected THEN expected - 2 ELSE 0
        /\ \A i \in 1 .. expected - 3 + 1 : seen[i] = stream[3 + i - 1]
    BY <1>3, <2>3 DEF seen
  <2>5. ASSUME NEW i \in 1 .. Len(seen)
        PROVE  2 + i \in 1 .. expected /\ seen[i] = stream[2 + i]
    <3>1. 3 <= expected /\ i \in 1 .. expected - 2
      BY <1>3, <2>4
    <3>2. i \in 1 .. expected - 3 + 1 /\ 3 + i - 1 = 2 + i /\ 2 + i \in 1 .. expected
      BY <1>3, <3>1
    <3> QED
      BY <2>4, <3>2
  <2> QED
    BY <2>4, <2>5
<1> HIDE DEF seen, rest
<1>11. Cut(seen, Len(seen), ids)
  <2>1. ASSUME NEW m \in 1 .. Len(seen) PROVE seen[m] = ListText(ids)[2 + m]
    <3>1. 2 + m \in 1 .. expected /\ seen[m] = stream[2 + m]
      BY <1>10
    <3>2. 2 + m \in 1 .. k
      BY <1>3, <3>1
    <3>3. stream[2 + m] = Unread[4 + (2 + m)]
      BY <1>5, <3>2
    <3> QED
      BY <1>6, <3>1, <3>3
  <2> QED
    BY <2>1 DEF Cut
<1>12. Numbers(seen) = {ids[i] : i \in {m \in DOMAIN ids : 2 + Width(ids)[m] <= max_body_length}}
  BY <1>6, <1>7, <1>10, <1>11, ListRead
<1>13. ListIsTrue'
  <2>1. asked' = ids /\ shown' = Numbers(seen)
    BY <1>2
  <2>2. Width(asked)' = Width(ids)
    BY <2>1 DEF Width
  <2> QED
    BY <1>12, <2>1, <2>2 DEF ListIsTrue
<1>14. Framed(Unread', listed')
  <2>1. Unread' = rest
    BY <1>2 DEF Unread
  <2> QED
    BY <1>2, <1>6, <1>9, <2>1
<1> QED
  BY <1>1, <1>2, <1>6, <1>8, <1>9, <1>13, <1>14 DEF FramingInv

LEMMA FramingStep ==
    ASSUME FramingAssumption, FramingInv, [Next]_framing
    PROVE  FramingInv'
<1>1. ASSUME NEW ids \in Listed, SendList(ids) PROVE FramingInv'
  BY <1>1, SendListKeeps
<1>2. CASE ReadHeader
  BY <1>2, ReadHeaderKeeps
<1>3. CASE ReadBody
  BY <1>3, ReadBodyKeeps
<1>4. CASE UNCHANGED framing
  <2>1. UNCHANGED <<stream, expected, listed, shown, asked, refused>>
    BY <1>4 DEF framing
  <2>2. Unread' = Unread
    BY <2>1 DEF Unread
  <2>3. ListIsTrue'
    BY <2>1, ListKept DEF FramingInv
  <2>4. /\ stream \in Seq(Int) /\ expected \in Number \cup {-1}
        /\ listed \in Seq(Listed) /\ asked \in Listed \cup {<<>>}
        /\ ~refused
        /\ Framed(Unread, listed)
        /\ expected # -1 => listed # <<>> /\ expected = Length(Head(listed))
    BY DEF FramingInv
  <2> QED
    BY <2>1, <2>2, <2>3, <2>4 DEF FramingInv
<1> QED
  BY <1>1, <1>2, <1>3, <1>4 DEF Next

LEMMA FramingSteady == Spec => []FramingInv
<1>1. FramingAssumption
  BY FramingAssumption
<1>2. Init => FramingInv
  BY <1>1, FramingStarts
<1>3. FramingInv /\ [Next]_framing => FramingInv'
  BY <1>1, FramingStep
<1> QED
  BY <1>2, <1>3, PTL DEF Spec

(* A text cut to what a body holds leaves the stream in step, whatever the lists, however
   many of them follow each other and however large a body is: no reader gives up on a
   header, and when all bytes are read all messages are (body_length and encode_header in
   message.hpp, set_msg of the server, and the client's reading of headers and bodies). *)
THEOREM FramingInStep == Spec => []InStep
<1>1. FramingInv => InStep
  <2> SUFFICES ASSUME FramingInv, stream = <<>> PROVE listed = <<>> /\ expected = -1
    BY DEF InStep, FramingInv
  <2>1. /\ listed \in Seq(Listed) /\ Framed(Unread, listed) /\ Unread \in Seq(Int)
        /\ expected # -1 => listed # <<>> /\ expected = Length(Head(listed))
    BY UnreadSeq DEF FramingInv
  <2>2. Len(stream) = 0
    OBVIOUS
  <2>3. Len(Unread) \in {0, 4}
    BY <2>2, UnreadSeq
  <2>4. Len(Unread) = 4 => expected # -1
    BY <2>2, UnreadSeq
  <2>5. max_body_length \in 1 .. 999
    BY FramingAssumption DEF FramingAssumption
  <2>6. listed = <<>>
    <3> SUFFICES ASSUME listed # <<>> PROVE FALSE
      OBVIOUS
    <3> DEFINE l == Length(Head(listed))
    <3>1. Unread \in Seq(Int) /\ listed \in Seq(Listed) /\ Framed(Unread, listed)
      BY <2>1
    <3>2. FramingAssumption
      BY FramingAssumption
    <3>3. Len(Unread) >= 4 + l /\ l \in 1 .. max_body_length
      BY <3>1, <3>2, InFront
    <3> DEFINE u == Len(Unread)
    <3>4. u \in {0, 4} /\ u >= 4 + l /\ l \in 1 .. max_body_length
      BY <2>3, <3>3
    <3> HIDE DEF l, u
    <3>5. l \in Nat /\ l >= 1
      BY <2>5, <3>4
    <3> QED
      BY <3>4, <3>5
  <2>7. expected = -1
    BY <2>1, <2>6
  <2> QED
    BY <2>6, <2>7
<1> QED
  BY <1>1, FramingSteady, PTL

(* The client's list box shows lobbies that there were when the list was asked for, the
   lowest numbers that a body has room for with the blank behind them: never a piece of a
   number that the cut went through (UpdateList in Main.cpp, the answer to "list" in
   server.cpp). *)
THEOREM FramingListIsTrue == Spec => []ListIsTrue
<1>1. FramingInv => ListIsTrue
  BY DEF FramingInv
<1> QED
  BY <1>1, FramingSteady, PTL
=============================================================================

---------------------------- MODULE VarintProofs ----------------------------
(* The proofs about Varint.  Words are sets of bits, so that each step of the  *)
(* arithmetic is a statement about where a bit comes from.                     *)
EXTENDS Varint, DataInduction, SequenceTheorems

------------------------------------------------------------------------------
(* Bits. *)

\* A shift moves every bit that stays in the word.
LEMMA ShlAt ==
    ASSUME NEW w \in Word, NEW k \in Nat, NEW x \in Int
    PROVE  x \in Shl(w, k) <=> x \in Bits /\ x - k \in w
BY DEF Shl, Word, Bits

\* Downwards as well.
LEMMA ShrAt ==
    ASSUME NEW w \in Word, NEW k \in Nat, NEW x \in Int
    PROVE  x \in Shr(w, k) <=> x \in Bits /\ x + k \in w
BY DEF Shr, Word, Bits

\* Nothing is carried into the lowest bit, and into a higher one where two of the three
\* bits below it are set: the carry of a binary addition.
LEMMA CarryStep ==
    ASSUME NEW v \in Word, NEW w \in Word
    PROVE  /\ 0 \notin Carried(v, w)
           /\ \A i \in 0..62 :
                  i + 1 \in Carried(v, w) <=>
                      \/ i \in v /\ i \in w
                      \/ i \in Carried(v, w) /\ (i \in v \/ i \in w)
<1>1. 0 \notin Carried(v, w)
    BY DEF Carried, Word, Bits
<1>2. ASSUME NEW i \in 0..62, i + 1 \in Carried(v, w), ~(i \in v /\ i \in w)
      PROVE  i \in Carried(v, w) /\ (i \in v \/ i \in w)
    <2>1. PICK j \in v \cap w : j < i + 1 /\ (j + 1)..((i + 1) - 1) \subseteq v \cup w
        BY <1>2 DEF Carried
    <2>2. j \in Int /\ j < i
        BY <1>2, <2>1 DEF Word, Bits
    <2>3. i \in (j + 1)..((i + 1) - 1) /\ (j + 1)..(i - 1) \subseteq (j + 1)..((i + 1) - 1)
        BY <2>2
    <2>4. i \in Bits
        BY DEF Bits
    <2>. QED  BY <2>1, <2>2, <2>3, <2>4 DEF Carried
<1>3. ASSUME NEW i \in 0..62, i \in v, i \in w
      PROVE  i + 1 \in Carried(v, w)
    <2>1. i + 1 \in Bits /\ (i + 1)..((i + 1) - 1) = {}
        BY DEF Bits
    <2>. QED  BY <1>3, <2>1 DEF Carried
<1>4. ASSUME NEW i \in 0..62, i \in Carried(v, w), i \in v \/ i \in w
      PROVE  i + 1 \in Carried(v, w)
    <2>1. PICK j \in v \cap w : j < i /\ (j + 1)..(i - 1) \subseteq v \cup w
        BY <1>4 DEF Carried
    <2>2. j \in Int /\ j < i + 1
        BY <2>1 DEF Word, Bits
    <2>3. \A x \in (j + 1)..((i + 1) - 1) : x = i \/ x \in (j + 1)..(i - 1)
        BY <2>2
    <2>4. i + 1 \in Bits
        BY DEF Bits
    <2>. QED  BY <1>4, <2>1, <2>2, <2>3, <2>4 DEF Carried
<1>. QED  BY <1>1, <1>2, <1>3, <1>4

\* The bits of a sum.
LEMMA AddAt ==
    ASSUME NEW v \in Word, NEW w \in Word
    PROVE  /\ Add(v, w) \in Word
           /\ \A x \in Bits : x \in Add(v, w) <=>
                  ((x \in v <=> x \in w) <=> x \in Carried(v, w))
BY DEF Add, SymDiff, Carried, Word

\* w + (w & move), where what moves finds the bit above it free, shifts that part by one.
LEMMA AddMoved ==
    ASSUME NEW u \in Word, NEW m \in Word,
           \A i \in m : i \notin u /\ i + 1 \notin u
    PROVE  Add(u \cup m, m) = u \cup Shl(m, 1)
<1>. u \cup m \in Word
    BY DEF Word
<1>1. PICK c : c = Carried(u \cup m, m)
    OBVIOUS
<1>. DEFINE S == {i \in Bits : i \in c <=> i - 1 \in m}
<1>2. 0 \notin c /\ \A i \in 0..62 : i + 1 \in c <=> i \in m \/ (i \in c /\ (i \in u \/ i \in m))
    BY <1>1, CarryStep
<1>3. 0 \in S
    BY <1>2 DEF Word, Bits
<1>4. ASSUME NEW i \in 1..63, i - 1 \in S PROVE i \in S
    <2>1. PICK j \in 0..62 : j = i - 1
        OBVIOUS
    <2>2. i = j + 1 /\ i \in Bits /\ j \in Bits /\ (j - 1) + 1 = j
        BY <2>1 DEF Bits
    <2>3. j \in c <=> j - 1 \in m
        BY <1>4, <2>1
    <2>4. i \in c <=> j \in m \/ (j \in c /\ (j \in u \/ j \in m))
        BY <1>2, <2>2
    <2>5. j - 1 \in m => j \notin u
        BY <2>2
    <2>. QED  BY <2>1, <2>2, <2>3, <2>4, <2>5
<1>. HIDE DEF S
<1>5. 0..63 \subseteq S
    BY <1>3, <1>4, IntervalInduction
<1>6. ASSUME NEW x \in Bits PROVE x \in Add(u \cup m, m) <=> x \in u \cup Shl(m, 1)
    <2>1. x \in c <=> x - 1 \in m
        BY <1>5 DEF S, Bits
    <2>2. x \in Add(u \cup m, m) <=> ((x \in u \cup m <=> x \in m) <=> x \in c)
        BY <1>1, AddAt
    <2>3. x \in Shl(m, 1) <=> x - 1 \in m
        BY ShlAt DEF Bits
    <2>4. x - 1 \in m => x \notin u
        BY DEF Bits
    <2>5. x \in m => x \notin u
        OBVIOUS
    <2>. QED  BY <2>1, <2>2, <2>3, <2>4, <2>5
<1>7. Add(u \cup m, m) \in Word /\ u \cup Shl(m, 1) \in Word
    BY AddAt DEF Word, Shl
<1>. QED  BY <1>6, <1>7 DEF Word

\* w + 3 * (w & move), where it finds the two bits above it free, shifts that part by two.
LEMMA AddMovedTwice ==
    ASSUME NEW u \in Word, NEW m \in Word,
           \A i \in m : i \notin u /\ i + 1 \notin u /\ i + 2 \notin u
    PROVE  Add(u \cup m, Add(m, Shl(m, 1))) = u \cup Shl(m, 2)
<1>. u \cup m \in Word /\ Shl(m, 1) \in Word
    BY DEF Word, Shl
<1>1. PICK t \in Word : t = Add(m, Shl(m, 1))
    BY AddAt
<1>2. PICK c, d : c = Carried(m, Shl(m, 1)) /\ d = Carried(u \cup m, t)
    OBVIOUS
\* Of both carries together, what three times the part needs to become four times it.
<1>. DEFINE S == {i \in Bits : /\ i \in c /\ i \in d <=> i - 1 \in m /\ i - 2 \in m
                               /\ i \in c \/ i \in d <=> i - 1 \in m \/ i - 2 \in m}
<1>3. \A x \in Bits : x \in Shl(m, 1) <=> x - 1 \in m
    BY ShlAt DEF Bits
<1>4. \A x \in Bits : x \in t <=> ((x \in m <=> x - 1 \in m) <=> x \in c)
    BY <1>1, <1>2, <1>3, AddAt
<1>5. 0 \notin c /\ 0 \notin d
    BY <1>1, <1>2, CarryStep
<1>6. 0 \in S
    BY <1>5 DEF Word, Bits
<1>7. ASSUME NEW i \in 1..63, i - 1 \in S PROVE i \in S
    <2>1. PICK j \in 0..62 : j = i - 1
        OBVIOUS
    <2>2. i = j + 1 /\ i \in Bits /\ j \in Bits /\ i - 2 = j - 1 /\ (j - 1) + 1 = j /\ (j - 2) + 2 = j
        BY <2>1 DEF Bits
    <2>3. /\ j \in c /\ j \in d <=> j - 1 \in m /\ j - 2 \in m
          /\ j \in c \/ j \in d <=> j - 1 \in m \/ j - 2 \in m
        BY <1>7, <2>1
    <2>4. i \in c <=> (j \in m /\ j - 1 \in m) \/ (j \in c /\ (j \in m \/ j - 1 \in m))
        BY <1>2, <1>3, <2>2, CarryStep
    <2>5. i \in d <=> (j \in u \cup m /\ j \in t) \/ (j \in d /\ (j \in u \cup m \/ j \in t))
        BY <1>2, <1>1, <2>2, CarryStep
    <2>6. j \in t <=> ((j \in m <=> j - 1 \in m) <=> j \in c)
        BY <1>4, <2>2
    <2>7. j \in u => j \notin m /\ j - 1 \notin m /\ j - 2 \notin m
        BY <2>2
    <2>8. /\ i \in c /\ i \in d <=> j \in m /\ j - 1 \in m
          /\ i \in c \/ i \in d <=> j \in m \/ j - 1 \in m
        BY <2>3, <2>4, <2>5, <2>6, <2>7
    <2>. QED  BY <2>1, <2>2, <2>8
<1>. HIDE DEF S
<1>8. 0..63 \subseteq S
    BY <1>6, <1>7, IntervalInduction
<1>9. ASSUME NEW x \in Bits PROVE x \in Add(u \cup m, t) <=> x \in u \cup Shl(m, 2)
    <2>1. /\ x \in c /\ x \in d <=> x - 1 \in m /\ x - 2 \in m
          /\ x \in c \/ x \in d <=> x - 1 \in m \/ x - 2 \in m
        BY <1>8 DEF S, Bits
    <2>2. x \in Add(u \cup m, t) <=> ((x \in u \cup m <=> x \in t) <=> x \in d)
        BY <1>1, <1>2, AddAt
    <2>3. x \in Shl(m, 2) <=> x - 2 \in m
        BY ShlAt DEF Bits
    <2>4. x \in t <=> ((x \in m <=> x - 1 \in m) <=> x \in c)
        BY <1>4
    <2>5. x \in Int /\ (x - 1) + 1 = x /\ (x - 2) + 2 = x
        BY DEF Bits
    <2>6. x \in u => x \notin m /\ x - 1 \notin m /\ x - 2 \notin m
        BY <2>5
    <2>. QED  BY <2>1, <2>2, <2>3, <2>4, <2>6
<1>10. Add(u \cup m, t) \in Word /\ u \cup Shl(m, 2) \in Word
    BY <1>1, AddAt DEF Word, Shl
<1>. QED  BY <1>1, <1>9, <1>10 DEF Word

\* The masks.
LEMMA PairMask ==
    ASSUME NEW a \in Int, NEW b \in Int, NEW n \in Nat, NEW x \in Int
    PROVE  x \in From({a, b}, n) <=> (a <= x /\ x < a + n) \/ (b <= x /\ x < b + n)
BY DEF From

\* Of four places.
LEMMA QuadMask ==
    ASSUME NEW a \in Int, NEW b \in Int, NEW c \in Int, NEW d \in Int, NEW n \in Nat, NEW x \in Int
    PROVE  x \in From({a, b, c, d}, n) <=>
               \/ (a <= x /\ x < a + n) \/ (b <= x /\ x < b + n)
               \/ (c <= x /\ x < c + n) \/ (d <= x /\ x < d + n)
BY DEF From

\* Of one.
LEMMA OneMask ==
    ASSUME NEW a \in Int, NEW n \in Nat, NEW x \in Int
    PROVE  x \in From({a}, n) <=> a <= x /\ x < a + n
BY DEF From

\* Of every byte's highest bit.
LEMMA MarkMask ==
    ASSUME NEW x \in Bits
    PROVE  x \in From({8 * i + 7 : i \in 0..7}, 1) <=> x % 8 = 7
<1>1. x \in From({8 * i + 7 : i \in 0..7}, 1) <=> \E i \in 0..7 : x = 8 * i + 7
    BY DEF From, Bits
<1>2. x % 8 = 7 => x = 8 * (x \div 8) + 7 /\ x \div 8 \in 0..7
    BY DEF Bits
<1>3. \A i \in 0..7 : (8 * i + 7) % 8 = 7
    OBVIOUS
<1>. QED  BY <1>1, <1>2, <1>3

\* spread7 puts bit b into byte b / 7, bit b % 7 of it: at 8 * (b / 7) + b % 7.
LEMMA SpreadAt ==
    ASSUME NEW v \in Word
    PROVE  /\ spread7(v) \in Word
           /\ \A x \in Bits : x \in spread7(v) <=> x % 8 # 7 /\ x - (x \div 8) \in v
<1>1. PICK w28 : w28 = (v \cap 0..27) \cup Shl(v \cap 28..55, 4)
    OBVIOUS
<1>2. \A x \in Bits : x \in w28 <=> (x \in v /\ x <= 27) \/ (x - 4 \in v /\ 32 <= x /\ x <= 59)
    <2>1. v \cap 28..55 \in Word
        BY DEF Word
    <2>2. \A x \in Bits : x \in Shl(v \cap 28..55, 4) <=> x - 4 \in v /\ 32 <= x /\ x <= 59
        BY <2>1, ShlAt DEF Bits, Word
    <2>. QED  BY <1>1, <2>2 DEF Bits
<1>3. w28 \in Word
    BY <1>1 DEF Word, Shl
<1>4. PICK m14 : m14 = w28 \cap From({14, 46}, 14)
    OBVIOUS
<1>5. PICK u14 : u14 = w28 \ m14
    OBVIOUS
<1>6. m14 \in Word /\ u14 \in Word /\ w28 = u14 \cup m14
    BY <1>3, <1>4, <1>5 DEF Word
<1>7. \A x \in Bits : x \in m14 <=>
          (x \in v /\ 14 <= x /\ x <= 27) \/ (x - 4 \in v /\ 46 <= x /\ x <= 59)
    BY <1>2, <1>4, PairMask DEF Bits
<1>8. \A x \in Bits : x \in u14 <=>
          (x \in v /\ x <= 13) \/ (x - 4 \in v /\ 32 <= x /\ x <= 45)
    BY <1>2, <1>5, <1>7 DEF Bits
<1>9. \A i \in m14 : i \notin u14 /\ i + 1 \notin u14 /\ i + 2 \notin u14
    BY <1>6, <1>7, <1>8 DEF Word, Bits
<1>10. PICK w14 : w14 = u14 \cup Shl(m14, 2)
    OBVIOUS
<1>11. w14 = Add(w28, Add(m14, Shl(m14, 1))) /\ w14 \in Word
    BY <1>6, <1>9, <1>10, AddMovedTwice DEF Word, Shl
<1>12. \A x \in Bits : x \in w14 <=>
          \/ x \in v /\ x <= 13
          \/ x - 2 \in v /\ 16 <= x /\ x <= 29
          \/ x - 4 \in v /\ 32 <= x /\ x <= 45
          \/ x - 6 \in v /\ 48 <= x /\ x <= 61
    <2>1. \A x \in Bits : x \in Shl(m14, 2) <=>
              (x - 2 \in v /\ 16 <= x /\ x <= 29) \/ (x - 6 \in v /\ 48 <= x /\ x <= 61)
        BY <1>6, <1>7, ShlAt DEF Bits, Word
    <2>. QED  BY <1>8, <1>10, <2>1
<1>13. PICK m7 : m7 = w14 \cap From({7, 23, 39, 55}, 7)
    OBVIOUS
<1>14. PICK u7 : u7 = w14 \ m7
    OBVIOUS
<1>15. m7 \in Word /\ u7 \in Word /\ w14 = u7 \cup m7
    BY <1>11, <1>13, <1>14 DEF Word
<1>16. \A x \in Bits : x \in m7 <=>
          \/ x \in v /\ 7 <= x /\ x <= 13
          \/ x - 2 \in v /\ 23 <= x /\ x <= 29
          \/ x - 4 \in v /\ 39 <= x /\ x <= 45
          \/ x - 6 \in v /\ 55 <= x /\ x <= 61
    <2>1. \A x \in Bits : x \in From({7, 23, 39, 55}, 7) <=>
              \/ (7 <= x /\ x <= 13) \/ (23 <= x /\ x <= 29)
              \/ (39 <= x /\ x <= 45) \/ (55 <= x /\ x <= 61)
        BY DEF From, Bits
    <2>2. \A x \in Bits : x \in m7 <=> x \in w14 /\ x \in From({7, 23, 39, 55}, 7)
        BY <1>13
    <2>3. ASSUME NEW x \in Bits
          PROVE  x \in m7 <=> \/ (x \in v /\ 7 <= x /\ x <= 13) \/ (x - 2 \in v /\ 23 <= x /\ x <= 29)
                              \/ (x - 4 \in v /\ 39 <= x /\ x <= 45) \/ (x - 6 \in v /\ 55 <= x /\ x <= 61)
        BY <1>12, <2>1, <2>2 DEF Bits
    <2>. QED  BY <2>3
<1>17. \A x \in Bits : x \in u7 <=>
          \/ x \in v /\ x <= 6
          \/ x - 2 \in v /\ 16 <= x /\ x <= 22
          \/ x - 4 \in v /\ 32 <= x /\ x <= 38
          \/ x - 6 \in v /\ 48 <= x /\ x <= 54
    BY <1>12, <1>14, <1>16 DEF Bits
<1>18. \A i \in m7 : i \notin u7 /\ i + 1 \notin u7
    BY <1>15, <1>16, <1>17 DEF Word, Bits
<1>19. spread7(v) = u7 \cup Shl(m7, 1)
    <2>1. Add(w14, m7) = u7 \cup Shl(m7, 1)
        BY <1>15, <1>18, AddMoved
    <2>. QED  BY <1>1, <1>4, <1>11, <1>13, <2>1 DEF spread7
<1>20. \A x \in Bits : x \in spread7(v) <=>
          \/ (x \in v /\ x <= 6) \/ (x - 1 \in v /\ 8 <= x /\ x <= 14)
          \/ (x - 2 \in v /\ 16 <= x /\ x <= 22) \/ (x - 3 \in v /\ 24 <= x /\ x <= 30)
          \/ (x - 4 \in v /\ 32 <= x /\ x <= 38) \/ (x - 5 \in v /\ 40 <= x /\ x <= 46)
          \/ (x - 6 \in v /\ 48 <= x /\ x <= 54) \/ (x - 7 \in v /\ 56 <= x /\ x <= 62)
    <2>1. \A x \in Bits : x \in Shl(m7, 1) <=>
              \/ (x - 1 \in v /\ 8 <= x /\ x <= 14) \/ (x - 3 \in v /\ 24 <= x /\ x <= 30)
              \/ (x - 5 \in v /\ 40 <= x /\ x <= 46) \/ (x - 7 \in v /\ 56 <= x /\ x <= 62)
        BY <1>15, <1>16, ShlAt DEF Bits, Word
    <2>. QED  BY <1>17, <1>19, <2>1
<1>21. spread7(v) \in Word
    BY <1>15, <1>19 DEF Word, Shl
<1>22. ASSUME NEW x \in Bits PROVE x \in spread7(v) <=> x % 8 # 7 /\ x - (x \div 8) \in v
    BY <1>20, <1>22 DEF Bits
<1>. QED  BY <1>21, <1>22

\* gather7 takes it back from there.
LEMMA GatherAt ==
    ASSUME NEW w \in Word
    PROVE  /\ gather7(w) \in Word
           /\ \A x \in Bits : x \in gather7(w) <=> x <= 55 /\ x + (x \div 7) \in w
<1>1. PICK w14 : w14 = (w \cap From({0, 16, 32, 48}, 7)) \cup Shr(w \cap From({8, 24, 40, 56}, 7), 1)
    OBVIOUS
<1>2. \A x \in Bits : x \in w14 <=>
          \/ (x \in w /\ x <= 6) \/ (x \in w /\ 16 <= x /\ x <= 22)
          \/ (x \in w /\ 32 <= x /\ x <= 38) \/ (x \in w /\ 48 <= x /\ x <= 54)
          \/ (x + 1 \in w /\ 7 <= x /\ x <= 13) \/ (x + 1 \in w /\ 23 <= x /\ x <= 29)
          \/ (x + 1 \in w /\ 39 <= x /\ x <= 45) \/ (x + 1 \in w /\ 55 <= x /\ x <= 61)
    <2>1. PICK h : h = w \cap From({8, 24, 40, 56}, 7)
        OBVIOUS
    <2>2. h \in Word /\ \A x \in Int : x \in h <=> x \in w /\
              (\/ (8 <= x /\ x < 15) \/ (24 <= x /\ x < 31) \/ (40 <= x /\ x < 47) \/ (56 <= x /\ x < 63))
        BY <2>1, QuadMask DEF Word
    <2>3. \A x \in Bits : x \in Shr(h, 1) <=>
              \/ (x + 1 \in w /\ 7 <= x /\ x <= 13) \/ (x + 1 \in w /\ 23 <= x /\ x <= 29)
              \/ (x + 1 \in w /\ 39 <= x /\ x <= 45) \/ (x + 1 \in w /\ 55 <= x /\ x <= 61)
        BY <2>2, ShrAt DEF Bits
    <2>4. \A x \in Bits : x \in From({0, 16, 32, 48}, 7) <=>
              \/ x <= 6 \/ (16 <= x /\ x <= 22) \/ (32 <= x /\ x <= 38) \/ (48 <= x /\ x <= 54)
        BY DEF From, Bits
    <2>. QED  BY <1>1, <2>1, <2>3, <2>4
<1>3. w14 \in Word
    BY <1>1 DEF Word, Shr
<1>4. PICK w28 : w28 = (w14 \cap From({0, 32}, 14)) \cup Shr(w14 \cap From({16, 48}, 14), 2)
    OBVIOUS
<1>5. \A x \in Bits : x \in w28 <=>
          \/ (x \in w14 /\ x <= 13) \/ (x \in w14 /\ 32 <= x /\ x <= 45)
          \/ (x + 2 \in w14 /\ 14 <= x /\ x <= 27) \/ (x + 2 \in w14 /\ 46 <= x /\ x <= 59)
    <2>1. PICK h : h = w14 \cap From({16, 48}, 14)
        OBVIOUS
    <2>2. h \in Word /\ \A x \in Int : x \in h <=> x \in w14 /\
              ((16 <= x /\ x < 30) \/ (48 <= x /\ x < 62))
        BY <1>3, <2>1, PairMask DEF Word
    <2>3. \A x \in Bits : x \in Shr(h, 2) <=>
              \/ (x + 2 \in w14 /\ 14 <= x /\ x <= 27) \/ (x + 2 \in w14 /\ 46 <= x /\ x <= 59)
        BY <2>2, ShrAt DEF Bits
    <2>4. \A x \in Bits : x \in From({0, 32}, 14) <=> x <= 13 \/ (32 <= x /\ x <= 45)
        BY PairMask DEF Bits
    <2>. QED  BY <1>4, <2>1, <2>3, <2>4
<1>6. w28 \in Word
    BY <1>3, <1>4 DEF Word, Shr
<1>7. \A x \in Bits : x \in gather7(w) <=>
          (x \in w28 /\ x <= 27) \/ (x + 4 \in w28 /\ 28 <= x /\ x <= 55)
    <2>1. PICK h : h = w28 \cap From({32}, 28)
        OBVIOUS
    <2>2. h \in Word /\ \A x \in Int : x \in h <=> x \in w28 /\ 32 <= x /\ x < 60
        BY <1>6, <2>1, OneMask DEF Word
    <2>3. \A x \in Bits : x \in Shr(h, 4) <=> x + 4 \in w28 /\ 28 <= x /\ x <= 55
        BY <2>2, ShrAt DEF Bits
    <2>4. \A x \in Bits : x \in From({0}, 28) <=> x <= 27
        BY OneMask DEF Bits
    <2>5. gather7(w) = (w28 \cap From({0}, 28)) \cup Shr(h, 4)
        BY <1>1, <1>4, <2>1 DEF gather7
    <2>. QED  BY <2>3, <2>4, <2>5
<1>8. gather7(w) \in Word
    BY <1>1, <1>4, <1>6 DEF gather7, Word, Shr
<1>9. \A x \in Bits : x \in gather7(w) <=>
          \/ (x \in w /\ x <= 6) \/ (x + 1 \in w /\ 7 <= x /\ x <= 13)
          \/ (x + 2 \in w /\ 14 <= x /\ x <= 20) \/ (x + 3 \in w /\ 21 <= x /\ x <= 27)
          \/ (x + 4 \in w /\ 28 <= x /\ x <= 34) \/ (x + 5 \in w /\ 35 <= x /\ x <= 41)
          \/ (x + 6 \in w /\ 42 <= x /\ x <= 48) \/ (x + 7 \in w /\ 49 <= x /\ x <= 55)
    BY <1>2, <1>5, <1>7 DEF Bits
<1>10. ASSUME NEW x \in Bits PROVE x \in gather7(w) <=> x <= 55 /\ x + (x \div 7) \in w
    BY <1>9, <1>10 DEF Bits
<1>. QED  BY <1>8, <1>10

\* The windowed reader's gather undoes the windowed encoder's spread, of any 56 bits
\* (sofab.hpp:325-366).
THEOREM GatherUndoesSpread ==
    ASSUME NEW v \in Word
    PROVE  gather7(spread7(v)) = v \cap 0..55
<1>1. PICK w \in Word : w = spread7(v)
    BY SpreadAt
<1>2. ASSUME NEW x \in Bits PROVE x \in gather7(w) <=> x \in v \cap 0..55
    <2>1. CASE x <= 55
        <3>1. PICK y \in Bits : y = x + (x \div 7)
            BY <2>1 DEF Bits
        <3>2. y % 8 # 7 /\ y - (y \div 8) = x
            BY <2>1, <3>1 DEF Bits
        <3>3. y \in w <=> x \in v
            BY <1>1, <3>2, SpreadAt
        <3>. QED  BY <2>1, <3>1, <3>3, GatherAt DEF Bits
    <2>2. CASE x > 55
        BY <2>2, GatherAt DEF Bits
    <2>. QED  BY <2>1, <2>2 DEF Bits
<1>3. gather7(w) \subseteq Bits /\ v \subseteq Bits
    BY GatherAt DEF Word
<1>. QED  BY <1>1, <1>2, <1>3

------------------------------------------------------------------------------
(* Words in memory. *)

Octet(w, i) == {b \in 0..7 : 8 * i + b \in w}
Packed(bytes) == {x \in Bits : x % 8 \in bytes[(x \div 8) + 1]}

\* On either host the bytes of a word are stored the lowest first.
LEMMA StoreIs ==
    ASSUME NEW w \in Word, host \in {"little", "big"}
    PROVE  /\ storeLittle64(w) = [i \in 1..8 |-> Octet(w, i - 1)]
           /\ storeLittleBits(w) = [i \in 1..8 |-> Octet(w, i - 1)]
<1>1. \A k \in 0..7, u \in Word : Shr(u, 8 * k) \cap 0..7 = Octet(u, k)
    <2>1. ASSUME NEW k \in 0..7, NEW u \in Word, NEW x \in 0..7
          PROVE  x \in Shr(u, 8 * k) <=> 8 * k + x \in u
        <3>1. 8 * k \in Nat /\ x \in Bits /\ x + 8 * k = 8 * k + x
            BY DEF Bits
        <3>. QED  BY <3>1, ShrAt
    <2>. QED  BY <2>1 DEF Octet
<1>2. /\ Reversed(w) \in Word
      /\ \A k \in 0..7 : Octet(Reversed(w), 7 - k) = Octet(w, k)
    <2>1. \A x \in Bits : /\ 56 - 8 * (x \div 8) + (x % 8) \in Bits
                          /\ (56 - 8 * (x \div 8) + (x % 8)) \div 8 = 7 - x \div 8
                          /\ (56 - 8 * (x \div 8) + (x % 8)) % 8 = x % 8
                          /\ x = 8 * (x \div 8) + (x % 8)
        BY DEF Bits
    <2>2. Reversed(w) \in Word
        BY <2>1 DEF Reversed, Word
    <2>3. ASSUME NEW k \in 0..7, NEW b \in 0..7
          PROVE  8 * (7 - k) + b \in Reversed(w) <=> 8 * k + b \in w
        <3>1. 8 * k + b \in Bits /\ (8 * k + b) \div 8 = k /\ (8 * k + b) % 8 = b
            BY DEF Bits
        <3>2. 56 - 8 * ((8 * k + b) \div 8) + ((8 * k + b) % 8) = 8 * (7 - k) + b
            BY <3>1
        <3>3. 8 * k + b \in w => 8 * (7 - k) + b \in Reversed(w)
            BY <3>2 DEF Reversed
        <3>4. ASSUME 8 * (7 - k) + b \in Reversed(w) PROVE 8 * k + b \in w
            <4>1. PICK x \in w : 8 * (7 - k) + b = 56 - 8 * (x \div 8) + (x % 8)
                BY <3>4 DEF Reversed
            <4>2. x \in Bits /\ x % 8 \in 0..7 /\ x \div 8 \in 0..7 /\ x = 8 * (x \div 8) + (x % 8)
                BY DEF Word, Bits
            <4>3. x = 8 * k + b
                BY <4>1, <4>2
            <4>. QED  BY <4>3
        <3>. QED  BY <3>3, <3>4
    <2>4. \A k \in 0..7 : 7 - k \in 0..7
        OBVIOUS
    <2>. QED  BY <2>2, <2>3 DEF Octet
<1>3. ASSUME NEW u \in Word, host = "little"
      PROVE  Memory(u) = [i \in 1..8 |-> Octet(u, i - 1)]
    BY <1>1, <1>3 DEF Memory
<1>4. ASSUME NEW u \in Word, host = "big"
      PROVE  Memory(u) = [i \in 1..8 |-> Octet(u, 8 - i)]
    BY <1>1, <1>4 DEF Memory
<1>5. \A i \in 1..8 : i - 1 \in 0..7 /\ 8 - i = 7 - (i - 1)
    OBVIOUS
<1>6. CASE host = "little"
    BY <1>3, <1>6 DEF storeLittle64, storeLittleBits, Native
<1>7. CASE host = "big"
    <2>1. [i \in 1..8 |-> Octet(Reversed(w), 8 - i)] = [i \in 1..8 |-> Octet(w, i - 1)]
        BY <1>2, <1>5
    <2>2. storeLittle64(w) = [i \in 1..8 |-> Octet(Reversed(w), 8 - i)]
        BY <1>2, <1>4, <1>7 DEF storeLittle64, Native
    <2>3. storeLittleBits(w) = [i \in 1..8 |-> Octet(w, i - 1)]
        BY <1>1, <1>5, <1>7 DEF storeLittleBits
    <2>. QED  BY <2>1, <2>2, <2>3
<1>. QED  BY <1>6, <1>7

\* On either host the lowest byte of a word is read first.
LEMMA LoadIs ==
    ASSUME NEW bytes \in [1..8 -> Byte], host \in {"little", "big"}
    PROVE  /\ loadLittle64(bytes) = Packed(bytes)
           /\ loadLittleBits(bytes) = Packed(bytes)
<1>1. \A i \in 1..8 : bytes[i] \in Word /\ bytes[i] \subseteq 0..7
    BY DEF Byte, Word, Bits
<1>2. ASSUME NEW i \in 1..8, NEW k \in 0..7, NEW x \in Bits
      PROVE  x \in Shl(bytes[i], 8 * k) <=> x \div 8 = k /\ x % 8 \in bytes[i]
    <2>1. 8 * k \in Nat /\ x \in Int
        BY DEF Bits
    <2>2. x \in Shl(bytes[i], 8 * k) <=> x - 8 * k \in bytes[i]
        BY <1>1, <2>1, ShlAt
    <2>3. x - 8 * k \in 0..7 <=> x \div 8 = k
        BY DEF Bits
    <2>4. x \div 8 = k => x - 8 * k = x % 8
        BY DEF Bits
    <2>. QED  BY <1>1, <2>2, <2>3, <2>4
<1>3. \A i \in 1..8, k \in 0..7 : Shl(bytes[i], 8 * k) \subseteq Bits
    BY DEF Shl
<1>4. \A x \in Bits : (x \div 8) + 1 \in 1..8 /\ 8 - (x \div 8) \in 1..8
    BY DEF Bits
<1>5. UNION {Shl(bytes[i], 8 * (i - 1)) : i \in 1..8} = Packed(bytes)
    <2>1. \A i \in 1..8 : i - 1 \in 0..7
        OBVIOUS
    <2>2. ASSUME NEW x \in Bits
          PROVE  (\E i \in 1..8 : x \in Shl(bytes[i], 8 * (i - 1))) <=> x \in Packed(bytes)
        <3>1. \A i \in 1..8 : x \in Shl(bytes[i], 8 * (i - 1)) <=> x \div 8 = i - 1 /\ x % 8 \in bytes[i]
            BY <1>2, <2>1
        <3>2. \A i \in 1..8 : x \div 8 = i - 1 <=> i = (x \div 8) + 1
            BY DEF Bits
        <3>. QED  BY <1>4, <3>1, <3>2 DEF Packed
    <2>3. \A i \in 1..8 : Shl(bytes[i], 8 * (i - 1)) \subseteq Bits
        BY <1>3, <2>1
    <2>. QED  BY <2>2, <2>3 DEF Packed
<1>6. CASE host = "little"
    <2>1. Object(bytes) = UNION {Shl(bytes[i], 8 * (i - 1)) : i \in 1..8}
        BY <1>6 DEF Object
    <2>. QED  BY <1>5, <1>6, <2>1 DEF loadLittle64, loadLittleBits, Native
<1>7. CASE host = "big"
    <2>1. Object(bytes) = UNION {Shl(bytes[i], 8 * (8 - i)) : i \in 1..8}
        BY <1>7 DEF Object
    <2>2. \A i \in 1..8 : 8 - i \in 0..7
        OBVIOUS
    <2>3. ASSUME NEW x \in Bits
          PROVE  x \in Object(bytes) <=> x % 8 \in bytes[8 - (x \div 8)]
        <3>1. \A i \in 1..8 : x \in Shl(bytes[i], 8 * (8 - i)) <=> x \div 8 = 8 - i /\ x % 8 \in bytes[i]
            BY <1>2, <2>2
        <3>2. \A i \in 1..8 : x \div 8 = 8 - i <=> i = 8 - (x \div 8)
            BY DEF Bits
        <3>3. x \in Object(bytes) <=> \E i \in 1..8 : x \in Shl(bytes[i], 8 * (8 - i))
            BY <2>1
        <3>. QED  BY <1>4, <3>1, <3>2, <3>3
    <2>4. Object(bytes) \subseteq Bits
        BY <1>3, <2>1, <2>2
    <2>5. \A x \in Bits : /\ 56 - 8 * (x \div 8) + (x % 8) \in Bits
                          /\ (56 - 8 * (x \div 8) + (x % 8)) \div 8 = 7 - x \div 8
                          /\ (56 - 8 * (x \div 8) + (x % 8)) % 8 = x % 8
                          /\ x = 8 * (x \div 8) + (x % 8)
        BY DEF Bits
    <2>6. ASSUME NEW x \in Bits PROVE x \in Reversed(Object(bytes)) <=> x \in Packed(bytes)
        <3>1. PICK y \in Bits : y = 56 - 8 * (x \div 8) + (x % 8)
            BY <2>5
        <3>2. y \div 8 = 7 - x \div 8 /\ y % 8 = x % 8 /\ x = 56 - 8 * (y \div 8) + (y % 8)
            BY <2>5, <3>1 DEF Bits
        <3>3. 8 - (y \div 8) = (x \div 8) + 1
            BY <3>2 DEF Bits
        <3>4. y \in Object(bytes) <=> x \in Packed(bytes)
            BY <2>3, <3>2, <3>3 DEF Packed
        <3>5. x \in Reversed(Object(bytes)) <=> y \in Object(bytes)
            <4>1. y \in Object(bytes) => x \in Reversed(Object(bytes))
                BY <3>2 DEF Reversed
            <4>2. ASSUME x \in Reversed(Object(bytes)) PROVE y \in Object(bytes)
                <5>1. PICK z \in Object(bytes) : x = 56 - 8 * (z \div 8) + (z % 8)
                    BY <4>2 DEF Reversed
                <5>2. z \in Bits
                    BY <2>4
                <5>3. x \div 8 = 7 - z \div 8 /\ x % 8 = z % 8 /\ z = 8 * (z \div 8) + (z % 8)
                    BY <2>5, <5>1, <5>2
                <5>4. y = z
                    BY <3>1, <5>2, <5>3 DEF Bits
                <5>. QED  BY <5>4
            <4>. QED  BY <4>1, <4>2
        <3>. QED  BY <3>4, <3>5
    <2>7. Reversed(Object(bytes)) \subseteq Bits
        BY <2>4, <2>5 DEF Reversed
    <2>8. loadLittle64(bytes) = Packed(bytes)
        BY <1>7, <2>6, <2>7 DEF loadLittle64, Native, Packed
    <2>. QED  BY <1>5, <1>7, <2>8 DEF loadLittleBits
<1>. QED  BY <1>6, <1>7

------------------------------------------------------------------------------
(* The encoders. *)

\* The groups of seven bits of a word; how many it has, which may be one with no bits;
\* and the bytes that hold so many of them.
Group(v, i) == {b \in 0..6 : 7 * i + b \in v}
Has(v, n) == n \in 1..10 /\ (\A b \in v : b < 7 * n) /\ (n = 1 \/ \E b \in v : b >= 7 * (n - 1))
Marked(v, i, n) == Group(v, i - 1) \cup (IF i < n THEN {7} ELSE {})
Coded(v, n) == [i \in 1..n |-> Marked(v, i, n)]

\* Every word has a number of groups, one to ten.
LEMMA HasGroups ==
    ASSUME NEW v \in Word
    PROVE  \E n \in 1..10 : Has(v, n)
<1>. DEFINE T == {n \in 1..10 : \A b \in v : b < 7 * n}
<1>1. 10 \in T /\ T \subseteq Nat
    BY DEF Word, Bits
<1>2. PICK n \in T : \A m \in T : n <= m
    BY <1>1, LeastElement
<1>3. CASE n = 1
    BY <1>2, <1>3 DEF Has
<1>4. CASE n # 1
    <2>1. n - 1 \in 1..10 /\ n - 1 \notin T
        BY <1>2, <1>4
    <2>2. PICK b \in v : ~(b < 7 * (n - 1))
        BY <2>1
    <2>3. b >= 7 * (n - 1)
        BY <1>2, <2>2 DEF Word, Bits
    <2>. QED  BY <1>2, <2>3 DEF Has
<1>. QED  BY <1>3, <1>4

\* And only one.
LEMMA HasOne ==
    ASSUME NEW v \in Word, NEW n, Has(v, n), NEW m, Has(v, m)
    PROVE  n = m
<1>1. n \in 1..10 /\ m \in 1..10
    BY DEF Has
<1>2. ASSUME NEW i \in 1..10, NEW j \in 1..10, Has(v, i), Has(v, j), i < j PROVE FALSE
    <2>1. PICK b \in v : b >= 7 * (j - 1)
        BY <1>2 DEF Has
    <2>2. b < 7 * i /\ b \in Int
        BY <1>2 DEF Has, Word, Bits
    <2>. QED  BY <1>2, <2>1, <2>2
<1>. QED  BY <1>1, <1>2

\* The bytes of a word, and the sequence of what is left of it after the first.
LEMMA CodedIs ==
    ASSUME NEW v \in Word, NEW n, Has(v, n)
    PROVE  /\ Coded(v, n) \in Seq(Byte) /\ Len(Coded(v, n)) = n /\ n \in 1..10
           /\ v \cap 7..63 = {} => n = 1 /\ Coded(v, n) = <<v>>
           /\ v \cap 7..63 # {} =>
                  /\ n > 1 /\ Shr(v, 7) \in Word /\ Has(Shr(v, 7), n - 1)
                  /\ Coded(v, n) = <<(v \cap 0..7) \cup {7}>> \o Coded(Shr(v, 7), n - 1)
<1>1. n \in 1..10
    BY DEF Has
<1>2. \A i \in 1..n : Marked(v, i, n) \in Byte
    BY DEF Marked, Group, Byte
<1>3. Coded(v, n) \in Seq(Byte) /\ Len(Coded(v, n)) = n
    BY <1>1, <1>2 DEF Coded
<1>4. ASSUME v \cap 7..63 = {} PROVE n = 1 /\ Coded(v, n) = <<v>>
    <2>1. \A b \in v : b \in 0..6
        BY <1>4 DEF Word, Bits
    <2>2. n = 1
        BY <1>1, <2>1 DEF Has
    <2>3. Marked(v, 1, 1) = v
        BY <2>1 DEF Marked, Group
    <2>. QED  BY <2>2, <2>3 DEF Coded
<1>5. ASSUME v \cap 7..63 # {}
      PROVE  /\ n > 1 /\ Shr(v, 7) \in Word /\ Has(Shr(v, 7), n - 1)
             /\ Coded(v, n) = <<(v \cap 0..7) \cup {7}>> \o Coded(Shr(v, 7), n - 1)
    <2>1. PICK w \in Word : w = Shr(v, 7)
        BY DEF Shr, Word
    <2>2. \A x \in Int : x \in w <=> x \in Bits /\ x + 7 \in v
        BY <2>1, ShrAt
    <2>3. n > 1
        BY <1>1, <1>5 DEF Has
    <2>4. Has(w, n - 1)
        <3>1. n - 1 \in 1..10
            BY <1>1, <2>3
        <3>2. \A b \in w : b < 7 * (n - 1)
            BY <1>1, <2>2 DEF Has, Word, Bits
        <3>3. n - 1 = 1 \/ \E b \in w : b >= 7 * ((n - 1) - 1)
            <4>1. PICK b \in v : b >= 7 * (n - 1)
                BY <2>3 DEF Has
            <4>2. b \in Bits /\ b >= 7
                BY <1>1, <2>3, <4>1 DEF Word, Bits
            <4>3. b - 7 \in Bits /\ (b - 7) + 7 = b /\ b - 7 >= 7 * ((n - 1) - 1)
                BY <1>1, <4>1, <4>2 DEF Bits
            <4>. QED  BY <2>2, <4>3 DEF Bits
        <3>. QED  BY <3>1, <3>2, <3>3 DEF Has
    <2>5. Marked(v, 1, n) = (v \cap 0..7) \cup {7}
        BY <1>1, <2>3 DEF Marked, Group
    <2>6. \A i \in 2..n : Marked(v, i, n) = Marked(w, i - 1, n - 1)
        <3>1. ASSUME NEW i \in 2..n, NEW b \in 0..6
              PROVE  7 * (i - 1) + b \in v <=> 7 * ((i - 1) - 1) + b \in w
            <4>1. 7 * ((i - 1) - 1) + b \in Int
                  /\ (7 * ((i - 1) - 1) + b) + 7 = 7 * (i - 1) + b
                BY <1>1
            <4>2. 7 * (i - 1) + b \in v => 7 * ((i - 1) - 1) + b \in Bits
                BY <1>1 DEF Word, Bits
            <4>. QED  BY <2>2, <4>1, <4>2
        <3>2. \A i \in 2..n : Group(v, i - 1) = Group(w, (i - 1) - 1)
            BY <3>1 DEF Group
        <3>3. \A i \in 2..n : i < n <=> i - 1 < n - 1
            BY <1>1
        <3>. QED  BY <3>2, <3>3 DEF Marked
    <2>7. PICK s : s = Coded(w, n - 1)
        OBVIOUS
    <2>8. s \in Seq(Byte) /\ Len(s) = n - 1 /\ \A i \in 1..(n - 1) : s[i] = Marked(w, i, n - 1)
        <3>1. \A i \in 1..(n - 1) : Marked(w, i, n - 1) \in Byte
            BY DEF Marked, Group, Byte
        <3>. QED  BY <1>1, <2>3, <2>7, <3>1 DEF Coded
    <2>9. PICK h \in Byte : h = (v \cap 0..7) \cup {7}
        <3>1. (v \cap 0..7) \cup {7} \subseteq 0..7
            OBVIOUS
        <3>. QED  BY <3>1 DEF Byte
    <2>10. \A i \in 1..n : Coded(v, n)[i] = (<<h>> \o s)[i]
        <3>1. ASSUME NEW i \in 1..n PROVE Coded(v, n)[i] = (<<h>> \o s)[i]
            <4>1. CASE i = 1
                BY <2>5, <2>8, <2>9, <4>1 DEF Coded
            <4>2. CASE i # 1
                <5>1. i \in 2..n /\ i - 1 \in 1..(n - 1)
                    BY <1>1, <4>2
                <5>2. (<<h>> \o s)[i] = s[i - 1]
                    BY <1>1, <2>8, <5>1
                <5>. QED  BY <2>6, <2>8, <5>1, <5>2 DEF Coded
            <4>. QED  BY <4>1, <4>2
        <3>. QED  BY <3>1
    <2>11. <<h>> \o s \in Seq(Byte) /\ Len(<<h>> \o s) = n
        BY <1>1, <2>3, <2>8
    <2>12. Coded(v, n) = <<h>> \o s
        BY <1>1, <1>3, <2>10, <2>11
    <2>. QED  BY <2>1, <2>3, <2>4, <2>7, <2>9, <2>12
<1>. QED  BY <1>1, <1>3, <1>4, <1>5

\* The loop of encodeVarint is a function, and writes the groups of the number.
LEMMA EncodeIs ==
    ASSUME NEW v \in Word, NEW n, Has(v, n)
    PROVE  encodeVarint[v] = Coded(v, n)
<1>. DEFINE Count(w) == CHOOSE k \in 1..10 : Has(w, k)
            Equation(e) == e = [w \in Word |->
                IF w \cap 7..63 = {} THEN <<w>>
                ELSE <<(w \cap 0..7) \cup {7}>> \o e[Shr(w, 7)]]
<1>1. \A w \in Word : Has(w, Count(w)) /\ \A k : Has(w, k) => k = Count(w)
    <2>1. ASSUME NEW w \in Word PROVE Has(w, Count(w))
        BY HasGroups
    <2>. QED  BY <2>1, HasOne
<1>. HIDE DEF Count
<1>2. PICK f : f = [w \in Word |-> Coded(w, Count(w))]
    OBVIOUS
<1>3. Equation(f)
    <2>1. ASSUME NEW w \in Word
          PROVE  f[w] = IF w \cap 7..63 = {} THEN <<w>>
                        ELSE <<(w \cap 0..7) \cup {7}>> \o f[Shr(w, 7)]
        <3>1. PICK k : k = Count(w) /\ Has(w, k)
            BY <1>1
        <3>2. CASE w \cap 7..63 = {}
            BY <1>2, <3>1, <3>2, CodedIs
        <3>3. CASE w \cap 7..63 # {}
            <4>1. Shr(w, 7) \in Word /\ Has(Shr(w, 7), k - 1)
                  /\ Coded(w, k) = <<(w \cap 0..7) \cup {7}>> \o Coded(Shr(w, 7), k - 1)
                BY <3>1, <3>3, CodedIs
            <4>2. Count(Shr(w, 7)) = k - 1
                BY <1>1, <4>1
            <4>. QED  BY <1>2, <3>1, <3>3, <4>1, <4>2
        <3>. QED  BY <3>2, <3>3
    <2>. QED  BY <1>2, <2>1
<1>4. Equation(encodeVarint)
    <2>1. encodeVarint = CHOOSE e : Equation(e)
        BY DEF encodeVarint
    <2>. HIDE DEF Equation
    <2>. QED  BY <1>3, <2>1
<1>5. \A w \in Word : encodeVarint[w] = IF w \cap 7..63 = {} THEN <<w>>
                                        ELSE <<(w \cap 0..7) \cup {7}>> \o encodeVarint[Shr(w, 7)]
    BY <1>4
<1>. DEFINE S == {k \in 0..10 : k > 0 => \A w \in Word : Has(w, k) => encodeVarint[w] = Coded(w, k)}
<1>6. 0 \in S
    OBVIOUS
<1>7. ASSUME NEW k \in 1..10, k - 1 \in S PROVE k \in S
    <2>1. ASSUME NEW w \in Word, Has(w, k) PROVE encodeVarint[w] = Coded(w, k)
        <3>1. CASE w \cap 7..63 = {}
            BY <1>5, <2>1, <3>1, CodedIs
        <3>2. CASE w \cap 7..63 # {}
            <4>1. /\ k > 1 /\ Shr(w, 7) \in Word /\ Has(Shr(w, 7), k - 1)
                  /\ Coded(w, k) = <<(w \cap 0..7) \cup {7}>> \o Coded(Shr(w, 7), k - 1)
                BY <2>1, <3>2, CodedIs
            <4>2. encodeVarint[Shr(w, 7)] = Coded(Shr(w, 7), k - 1)
                BY <1>7, <4>1
            <4>. QED  BY <1>5, <3>2, <4>1, <4>2
        <3>. QED  BY <3>1, <3>2
    <2>. QED  BY <2>1
<1>. HIDE DEF S
<1>8. 0..10 \subseteq S
    BY <1>6, <1>7, IntervalInduction
<1>9. n \in 1..10
    BY DEF Has
<1>. QED  BY <1>8, <1>9 DEF S

\* The multiplication that divides by seven is exact for every width of a word.
LEMMA LengthIs ==
    ASSUME NEW v \in Word, v # {}, NEW n, Has(v, n)
    PROVE  VarintLength(v) = n
<1>1. \E b \in v : \A c \in v : b >= c
    <2>. DEFINE T == {63 - b : b \in v}
    <2>1. T \subseteq Nat /\ T # {}
        <3>1. \A b \in v : 63 - b \in Nat
            BY DEF Word, Bits
        <3>2. PICK b \in v : TRUE
            OBVIOUS
        <3>3. 63 - b \in T
            OBVIOUS
        <3>. QED  BY <3>1, <3>3
    <2>2. PICK t \in T : \A y \in T : t <= y
        BY <2>1, LeastElement
    <2>3. PICK b \in v : t = 63 - b
        BY <2>2
    <2>4. \A c \in v : 63 - c \in T /\ c \in Int /\ b \in Int
        BY DEF Word, Bits
    <2>5. \A c \in v : b >= c
        BY <2>2, <2>3, <2>4
    <2>. QED  BY <2>5
<1>2. PICK b \in v : b = Max(v) /\ \A c \in v : b >= c
    BY <1>1 DEF Max
<1>3. b \in 0..63 /\ n \in 1..10 /\ b < 7 * n
    BY <1>2 DEF Word, Bits, Has
<1>4. b >= 7 * (n - 1)
    BY <1>2, <1>3 DEF Has, Word, Bits
<1>. QED  BY <1>2, <1>3, <1>4 DEF VarintLength

\* One piece of bytes behind another.
LEMMA JoinIs ==
    ASSUME NEW m \in Seq(Byte), NEW t \in Seq(Byte), NEW all, all = m \o t
    PROVE  /\ all \in Seq(Byte) /\ Len(all) = Len(m) + Len(t)
           /\ \A i \in 1..Len(m) : all[i] = m[i]
           /\ \A i \in 1..Len(t) : all[Len(m) + i] = t[i]
BY ConcatProperties

\* The padded encoder stores up to ten bytes, the first of them those that count.
LEMMA PaddedIs ==
    ASSUME NEW v \in Word, NEW n, Has(v, n), host \in {"little", "big"},
           NEW e, e = encodeVarintPadded(v)
    PROVE  /\ e.n = n /\ e.bytes \in Seq(Byte) /\ n <= Len(e.bytes) /\ Len(e.bytes) <= 10
           /\ \A i \in 1..n : e.bytes[i] = Marked(v, i, n)
<1>0. n \in 1..10
    BY DEF Has
<1>1. CASE v \cap 7..63 = {}
    <2>1. e.n = 1 /\ e.bytes = <<v>>
        BY <1>1 DEF encodeVarintPadded
    <2>2. n = 1 /\ Coded(v, n) = <<v>> /\ Coded(v, n) \in Seq(Byte) /\ Len(Coded(v, n)) = n
        BY <1>1, CodedIs
    <2>3. \A i \in 1..n : Coded(v, n)[i] = Marked(v, i, n)
        BY DEF Coded
    <2>. QED  BY <2>1, <2>2, <2>3
<1>2. CASE v \cap 7..63 # {}
    <2>. DEFINE marks == From({8 * i + 7 : i \in 0..7}, 1)
                ninth == (Shr(v, 56) \cap 0..6) \cup {7}
    <2>1. PICK w \in Word : w = spread7(v) \cup marks
        <3>1. marks \subseteq Bits
            BY DEF From, Bits
        <3>. HIDE DEF marks
        <3>. QED  BY <3>1, SpreadAt DEF Word
    <2>2. PICK all : all = storeLittle64(w) \o <<ninth, Shr(v, 63)>>
        OBVIOUS
    <2>3. e.n = n /\ e.bytes = [all EXCEPT ![n] = @ \cap 0..6]
        <3>1. VarintLength(v) = n
            BY <1>2, LengthIs
        <3>. QED  BY <1>2, <2>1, <2>2, <3>1 DEF encodeVarintPadded
    <2>4. \A i \in 0..7 : Octet(w, i) = Group(v, i) \cup {7}
        <3>1. ASSUME NEW i \in 0..7, NEW b \in 0..7
              PROVE  8 * i + b \in w <=> b = 7 \/ (b \in 0..6 /\ 7 * i + b \in v)
            <4>1. PICK x \in Bits : x = 8 * i + b
                BY DEF Bits
            <4>2. x % 8 = b /\ x \div 8 = i /\ x - (x \div 8) = 7 * i + b
                BY <4>1
            <4>3. x \in marks <=> b = 7
                BY <4>2, MarkMask
            <4>4. x \in spread7(v) <=> b # 7 /\ 7 * i + b \in v
                BY <4>2, SpreadAt
            <4>. QED  BY <2>1, <4>1, <4>3, <4>4
        <3>. QED  BY <3>1 DEF Octet, Group
    <2>5. ninth = Group(v, 8) \cup {7}
        <3>1. \A b \in 0..6 : b \in Shr(v, 56) <=> 7 * 8 + b \in v
            BY ShrAt DEF Bits
        <3>. QED  BY <3>1 DEF Group
    <2>6. Shr(v, 63) = Group(v, 9) /\ Shr(v, 63) \subseteq 0..6
        <3>1. \A b \in Bits : b \in Shr(v, 63) <=> 7 * 9 + b \in v
            BY ShrAt DEF Bits
        <3>2. \A b \in Bits : 7 * 9 + b \in v => b = 0
            BY DEF Word, Bits
        <3>3. Shr(v, 63) \subseteq Bits
            BY DEF Shr
        <3>. QED  BY <3>1, <3>2, <3>3 DEF Group, Bits
    <2>7. PICK m : m = storeLittle64(w)
        OBVIOUS
    <2>8. m = [i \in 1..8 |-> Octet(w, i - 1)]
        BY <2>7, StoreIs
    <2>9. \A i \in 1..8 : m[i] = Group(v, i - 1) \cup {7}
        BY <2>4, <2>8
    <2>10. \A i \in 0..9 : Group(v, i) \subseteq 0..6
        BY DEF Group
    <2>11. m \in Seq(Byte) /\ Len(m) = 8 /\ ninth \in Byte /\ Shr(v, 63) \in Byte
        <3>1. \A i \in 1..8 : Octet(w, i - 1) \in Byte
            BY DEF Octet, Byte
        <3>2. ninth \subseteq 0..7 /\ Shr(v, 63) \subseteq 0..7
            BY <2>6
        <3>. QED  BY <2>8, <3>1, <3>2 DEF Byte
    <2>12. PICK c \in Byte, d \in Byte : c = ninth /\ d = Shr(v, 63)
        BY <2>11
    <2>13. /\ all \in [1..10 -> Byte] /\ Len(all) = 10
           /\ \A i \in 1..8 : all[i] = m[i]
           /\ all[9] = c /\ all[10] = d
        <3>1. PICK t : t = <<c, d>>
            OBVIOUS
        <3>2. t \in Seq(Byte) /\ Len(t) = 2 /\ t[1] = c /\ t[2] = d
            BY <3>1
        <3>3. t \in Seq(Byte) /\ m \in Seq(Byte) /\ all = m \o t
            BY <2>2, <2>7, <2>11, <2>12, <3>1, <3>2
        <3>4. /\ all \in Seq(Byte) /\ Len(all) = Len(m) + Len(t)
              /\ \A i \in 1..Len(m) : all[i] = m[i]
              /\ \A i \in 1..Len(t) : all[Len(m) + i] = t[i]
            BY <3>3, JoinIs
        <3>5. Len(all) = 10 /\ \A i \in 1..8 : all[i] = m[i]
            BY <2>11, <3>2, <3>4
        <3>6. all[8 + 1] = t[1] /\ all[8 + 2] = t[2]
            BY <2>11, <3>2, <3>4
        <3>7. all \in Seq(Byte)
            BY <3>4
        <3>8. all \in [1..Len(all) -> Byte]
            BY <3>7
        <3>9. Len(all) = 10
            BY <3>5
        <3>10. all \in [1..10 -> Byte]
            BY <3>8, <3>9
        <3>. QED  BY <3>2, <3>5, <3>6, <3>10
    <2>14. \A i \in 1..10 : all[i] = Group(v, i - 1) \cup (IF i < 10 THEN {7} ELSE {})
        <3>1. ASSUME NEW i \in 1..10
              PROVE  all[i] = Group(v, i - 1) \cup (IF i < 10 THEN {7} ELSE {})
            <4>1. CASE i <= 8
                <5>1. i \in 1..8
                    BY <4>1
                <5>2. all[i] = m[i]
                    BY <2>13, <5>1
                <5>. QED  BY <2>9, <4>1, <5>1, <5>2
            <4>2. CASE i = 9
                BY <2>5, <2>12, <2>13, <4>2
            <4>3. CASE i = 10
                BY <2>6, <2>12, <2>13, <4>3
            <4>. QED  BY <4>1, <4>2, <4>3
        <3>. QED  BY <3>1
    <2>15. e.bytes \in Seq(Byte) /\ Len(e.bytes) = 10
           /\ \A i \in 1..10 : e.bytes[i] = IF i = n THEN all[i] \cap 0..6 ELSE all[i]
        <3>2. \A i \in 1..10 : all[i] \in Byte /\ all[i] \cap 0..6 \in Byte
            BY <2>13 DEF Byte
        <3>3. e.bytes = [i \in 1..10 |-> IF i = n THEN all[i] \cap 0..6 ELSE all[i]]
            BY <1>0, <2>3, <2>13
        <3>4. e.bytes \in [1..10 -> Byte]
            BY <3>2, <3>3
        <3>. QED  BY <3>3, <3>4
    <2>16. ASSUME NEW i \in 1..n PROVE e.bytes[i] = Marked(v, i, n)
        <3>1. i \in 1..10 /\ i - 1 \in 0..9 /\ 7 \notin 0..6
            BY <1>0
        <3>2. CASE i = n
            <4>1. e.bytes[i] = all[i] \cap 0..6 /\ Group(v, i - 1) \subseteq 0..6
                BY <2>10, <2>15, <3>1, <3>2
            <4>2. (Group(v, i - 1) \cup (IF i < 10 THEN {7} ELSE {})) \cap 0..6 = Group(v, i - 1)
                BY <3>1, <4>1
            <4>3. Marked(v, i, n) = Group(v, i - 1)
                BY <1>0, <3>2 DEF Marked
            <4>. QED  BY <2>14, <3>1, <4>1, <4>2, <4>3
        <3>3. CASE i # n
            <4>1. i < n /\ i < 10
                BY <1>0, <3>3
            <4>. QED  BY <2>14, <2>15, <3>1, <3>3, <4>1 DEF Marked
        <3>. QED  BY <3>2, <3>3
    <2>. QED  BY <1>0, <2>3, <2>15, <2>16
<1>. QED  BY <1>1, <1>2

------------------------------------------------------------------------------
(* Zig-zag. *)

\* The sign goes to the lowest bit, and inverts the others.
Zigzag(v) ==
    {0 : b \in v \cap {63}} \cup {b + 1 : b \in IF 63 \in v THEN Bits \ v ELSE v}

\* The encoder's sign trick moves every bit up, complemented if the number is negative.
LEMMA ZigzagAt ==
    ASSUME NEW v \in Word
    PROVE  /\ zigzagEncode(v) \in Word
           /\ zigzagEncode(v) = Zigzag(v)
           /\ \A x \in Bits : x \in zigzagEncode(v) <=>
                  IF x = 0 THEN 63 \in v ELSE (x - 1 \in v <=> 63 \notin v)
<1>1. \A x \in Bits : x \in Shl(v, 1) <=> x # 0 /\ x - 1 \in v
    <2>1. \A x \in Bits : x \in Shl(v, 1) <=> x - 1 \in v
        BY ShlAt DEF Bits
    <2>2. 0 - 1 \notin v
        BY DEF Word, Bits
    <2>. QED  BY <2>1, <2>2
<1>2. Shl(v, 1) \subseteq Bits
    BY DEF Shl
<1>3. zigzagEncode(v) \in Word
    BY <1>2 DEF zigzagEncode, SymDiff, Word
<1>4. \A x \in Bits : x \in zigzagEncode(v) <=>
          IF x = 0 THEN 63 \in v ELSE (x - 1 \in v <=> 63 \notin v)
    BY <1>1 DEF zigzagEncode, SymDiff
<1>5. \A x \in Bits : x \in Zigzag(v) <=>
          IF x = 0 THEN 63 \in v ELSE (x - 1 \in v <=> 63 \notin v)
    <2>1. ASSUME NEW x \in Bits, x = 0 PROVE x \in Zigzag(v) <=> 63 \in v
        <3>1. \A b \in Bits : b + 1 # 0
            BY DEF Bits
        <3>. QED  BY <2>1, <3>1 DEF Zigzag, Word
    <2>2. ASSUME NEW x \in Bits, x # 0 PROVE x \in Zigzag(v) <=> (x - 1 \in v <=> 63 \notin v)
        <3>1. x - 1 \in Bits /\ (x - 1) + 1 = x /\ \A b \in Bits : x = b + 1 <=> b = x - 1
            BY <2>2 DEF Bits
        <3>2. x \in Zigzag(v) <=> x - 1 \in IF 63 \in v THEN Bits \ v ELSE v
            BY <2>2, <3>1 DEF Zigzag, Word
        <3>. QED  BY <3>1, <3>2
    <2>. QED  BY <2>1, <2>2
<1>6. Zigzag(v) \in Word
    <2>1. ASSUME NEW b \in IF 63 \in v THEN Bits \ v ELSE v PROVE b + 1 \in Bits
        <3>1. b \in Bits /\ b # 63
            BY <2>1 DEF Word
        <3>. QED  BY <3>1 DEF Bits
    <2>2. 0 \in Bits
        BY DEF Bits
    <2>. QED  BY <2>1, <2>2 DEF Zigzag, Word
<1>. QED  BY <1>3, <1>4, <1>5, <1>6 DEF Word

\* The two's complement of the lowest bit is all bits or none.
LEMMA NegatedBit ==
    ASSUME NEW u \in Word
    PROVE  Add(Bits \ (u \cap {0}), {0}) = IF 0 \in u THEN Bits ELSE {}
<1>1. 0 \in Bits /\ {0} \in Word /\ Bits \ (u \cap {0}) \in Word
    BY DEF Bits, Word
<1>2. CASE 0 \in u
    <2>1. Carried(Bits \ (u \cap {0}), {0}) = {}
        BY <1>2 DEF Carried
    <2>. QED  BY <1>1, <1>2, <2>1 DEF Add, SymDiff
<1>3. CASE 0 \notin u
    <2>1. Bits \ (u \cap {0}) = Bits
        BY <1>3
    <2>2. ASSUME NEW i \in Bits, i # 0 PROVE i \in Carried(Bits, {0})
        <3>1. 0 < i /\ (0 + 1)..(i - 1) \subseteq Bits
            BY <2>2 DEF Bits
        <3>. QED  BY <1>1, <3>1 DEF Carried
    <2>3. 0 \notin Carried(Bits, {0})
        BY DEF Carried
    <2>4. Carried(Bits, {0}) = Bits \ {0}
        BY <2>2, <2>3 DEF Carried
    <2>. QED  BY <1>1, <1>3, <2>1, <2>4 DEF Add, SymDiff
<1>. QED  BY <1>2, <1>3

\* Zig-zag is undone, by a subtraction that wraps around.
LEMMA ZigzagInverse ==
    ASSUME NEW v \in Word
    PROVE  zigzagDecode(zigzagEncode(v)) = v
<1>1. PICK u \in Word : u = zigzagEncode(v)
    BY ZigzagAt
<1>2. zigzagDecode(u) = SymDiff(Shr(u, 1), IF 0 \in u THEN Bits ELSE {})
    BY NegatedBit DEF zigzagDecode
<1>3. 0 \in u <=> 63 \in v
    BY <1>1, ZigzagAt DEF Bits
<1>4. ASSUME NEW x \in Bits PROVE x \in zigzagDecode(u) <=> x \in v
    <2>1. x \in zigzagDecode(u) <=> (x \in Shr(u, 1) <=> 0 \notin u)
        BY <1>2 DEF SymDiff
    <2>2. x \in Shr(u, 1) <=> x + 1 \in u
        BY ShrAt DEF Bits
    <2>3. CASE x = 63
        <3>1. x + 1 \notin u
            BY <2>3 DEF Word, Bits
        <3>. QED  BY <1>3, <2>1, <2>2, <2>3, <3>1
    <2>4. CASE x # 63
        <3>1. x + 1 \in Bits /\ x + 1 # 0 /\ (x + 1) - 1 = x
            BY <2>4 DEF Bits
        <3>2. x + 1 \in u <=> (x \in v <=> 63 \notin v)
            BY <1>1, <3>1, ZigzagAt
        <3>. QED  BY <1>3, <2>1, <2>2, <3>2
    <2>. QED  BY <2>3, <2>4
<1>5. zigzagDecode(u) \subseteq Bits
    BY <1>2 DEF SymDiff, Shr
<1>. QED  BY <1>1, <1>4, <1>5 DEF Word

------------------------------------------------------------------------------
(* The decoder, on the bytes it stands before. *)

\* What the decoder is given: bytes up to the end of what arrived, and its cursor.
Given ==
    /\ host \in {"little", "big"} /\ p \in Nat /\ end \in Nat /\ p <= end
    /\ \A i \in 0..(end - 1) : out[i] \in Byte

\* The n-th byte from here is the first without a mark.
First(at, seen, n) ==
    /\ n \in 1..10 /\ n <= seen /\ 7 \notin out[at + n - 1]
    /\ \A i \in 0..(n - 2) : 7 \in out[at + i]
NoneOf(at, seen) == \A i \in 0..9 : i < seen => 7 \in out[at + i]

\* The least of a set, by CHOOSE, is whatever is below all of it.
LEMMA MinIs ==
    ASSUME NEW S, NEW x \in S, \A y \in S : x <= y, S \subseteq Int
    PROVE  Min(S) = x
<1>1. \A z \in S : (\A y \in S : z <= y) => z = x
    OBVIOUS
<1>. QED  BY <1>1 DEF Min

\* The lesser of two.
LEMMA MinOfTwo ==
    ASSUME NEW a \in Int, NEW b \in Int
    PROVE  Min({a, b}) = IF a <= b THEN a ELSE b
<1>1. CASE a <= b
    BY <1>1, MinIs
<1>2. CASE ~(a <= b)
    BY <1>2, MinIs
<1>. QED  BY <1>1, <1>2

\* There is a first byte without a mark within reach, or none at all.
LEMMA FirstOrNone ==
    ASSUME NEW at \in Nat, NEW seen \in Nat
    PROVE  NoneOf(at, seen) \/ \E n \in 1..10 : First(at, seen, n)
<1>. SUFFICES ASSUME ~NoneOf(at, seen) PROVE \E n \in 1..10 : First(at, seen, n)
    OBVIOUS
<1>. DEFINE T == {i \in 0..9 : i < seen /\ 7 \notin out[at + i]}
<1>1. T \subseteq Nat /\ T # {}
    <2>1. PICK i \in 0..9 : i < seen /\ 7 \notin out[at + i]
        BY DEF NoneOf
    <2>2. i \in T
        BY <2>1
    <2>. QED  BY <2>2
<1>2. PICK i \in T : \A j \in T : i <= j
    BY <1>1, LeastElement
<1>3. \A j \in 0..((i + 1) - 2) : 7 \in out[at + j]
    BY <1>2
<1>4. i + 1 \in 1..10 /\ i + 1 <= seen /\ at + (i + 1) - 1 = at + i
    BY <1>2
<1>. QED  BY <1>2, <1>3, <1>4 DEF First

\* A bit of the groups is a bit of one byte.
LEMMA GroupsAtIs ==
    ASSUME NEW at \in Nat, NEW n \in 1..10
    PROVE  /\ GroupsAt(at, n) \subseteq 0..69
           /\ \A x \in 0..69 : x \in GroupsAt(at, n) <=>
                  x \div 7 < n /\ x % 7 \in out[at + (x \div 7)]
<1>1. \A i \in 0..(n - 1), b \in 0..6 : /\ 7 * i + b \in 0..69
                                        /\ (7 * i + b) \div 7 = i /\ (7 * i + b) % 7 = b
    OBVIOUS
<1>2. GroupsAt(at, n) \subseteq 0..69
    BY <1>1 DEF GroupsAt
<1>3. ASSUME NEW x \in 0..69
      PROVE  x \in GroupsAt(at, n) <=> x \div 7 < n /\ x % 7 \in out[at + (x \div 7)]
    <2>1. x \in GroupsAt(at, n) <=>
              \E i \in 0..(n - 1) : \E b \in out[at + i] \cap 0..6 : x = 7 * i + b
        BY DEF GroupsAt
    <2>2. x % 7 \in 0..6 /\ x \div 7 \in 0..9 /\ x = 7 * (x \div 7) + (x % 7)
        OBVIOUS
    <2>3. \A i \in 0..(n - 1), b \in 0..6 : x = 7 * i + b => x \div 7 = i /\ x % 7 = b
        BY <1>1
    <2>4. x \div 7 < n => x \div 7 \in 0..(n - 1)
        BY <2>2
    <2>. QED  BY <2>1, <2>2, <2>3, <2>4
<1>. QED  BY <1>2, <1>3

\* Only the tenth byte can have bits that are not in a word: all but its lowest.
LEMMA GroupsFit ==
    ASSUME NEW at \in Nat, NEW n \in 1..10
    PROVE  /\ n < 10 => GroupsAt(at, n) \subseteq Bits
           /\ n = 10 => (GroupsAt(at, n) \subseteq Bits <=> out[at + 9] \cap 1..6 = {})
<1>1. ASSUME n < 10, NEW x \in GroupsAt(at, n) PROVE x \in Bits
    <2>1. x \in 0..69 /\ x \div 7 < n
        BY GroupsAtIs
    <2>. QED  BY <1>1, <2>1 DEF Bits
<1>2. ASSUME n = 10, out[at + 9] \cap 1..6 = {} PROVE GroupsAt(at, n) \subseteq Bits
    <2>1. ASSUME NEW x \in GroupsAt(at, n) PROVE x \in Bits
        <3>1. x \in 0..69 /\ x % 7 \in out[at + (x \div 7)]
            BY GroupsAtIs
        <3>2. x \div 7 = 9 => ~(x % 7 \in 1..6)
            BY <1>2, <3>1
        <3>. QED  BY <3>1, <3>2 DEF Bits
    <2>. QED  BY <2>1
<1>3. ASSUME n = 10, NEW b \in out[at + 9] \cap 1..6 PROVE ~(GroupsAt(at, n) \subseteq Bits)
    <2>1. 63 + b \in 0..69 /\ (63 + b) \div 7 = 9 /\ (63 + b) % 7 = b /\ 63 + b \notin Bits
        BY DEF Bits
    <2>. QED  BY <1>3, <2>1, GroupsAtIs
<1>. QED  BY <1>1, <1>2, <1>3

\* The reference, of a varint that ends within reach, and of one that does not.
LEMMA ExpectedIs ==
    ASSUME NEW at \in Nat, NEW seen \in Nat
    PROVE  /\ \A n \in 1..10 : First(at, seen, n) =>
                  /\ Min(LastAt(at, seen)) = n /\ LastAt(at, seen) # {}
                  /\ Expected(at, seen) =
                         IF GroupsAt(at, n) \subseteq Bits
                         THEN [verdict |-> "value", next |-> at + n]
                         ELSE [verdict |-> "overflow", next |-> at + 10]
           /\ NoneOf(at, seen) =>
                  Expected(at, seen) = IF seen >= 10
                                       THEN [verdict |-> "overflow", next |-> at + 10]
                                       ELSE [verdict |-> "incomplete", next |-> at]
<1>1. PICK most : most = IF seen <= 10 THEN seen ELSE 10
    OBVIOUS
<1>2. most \in 0..10 /\ Min({seen, VARINT_MAX_BYTES}) = most
    BY <1>1, MinOfTwo DEF VARINT_MAX_BYTES
<1>3. LastAt(at, seen) = {n \in 1..most : 7 \notin out[at + n - 1]}
    BY <1>2 DEF LastAt
<1>4. ASSUME NEW n \in 1..10, First(at, seen, n)
      PROVE  /\ Min(LastAt(at, seen)) = n /\ LastAt(at, seen) # {}
             /\ Expected(at, seen) = IF GroupsAt(at, n) \subseteq Bits
                                     THEN [verdict |-> "value", next |-> at + n]
                                     ELSE [verdict |-> "overflow", next |-> at + 10]
    <2>1. n \in LastAt(at, seen) /\ LastAt(at, seen) \subseteq Int
        BY <1>1, <1>3, <1>4 DEF First
    <2>2. ASSUME NEW m \in LastAt(at, seen), m < n PROVE FALSE
        <3>1. m \in 1..10 /\ 7 \notin out[at + m - 1]
            BY <1>2, <1>3
        <3>2. m - 1 \in 0..(n - 2) /\ at + m - 1 = at + (m - 1)
            BY <2>2, <3>1
        <3>. QED  BY <1>4, <3>1, <3>2 DEF First
    <2>3. \A m \in LastAt(at, seen) : n <= m
        BY <2>1, <2>2
    <2>4. Min(LastAt(at, seen)) = n
        BY <2>1, <2>3, MinIs
    <2>. QED  BY <2>1, <2>4 DEF Expected, VARINT_MAX_BYTES
<1>5. ASSUME NoneOf(at, seen)
      PROVE  Expected(at, seen) = IF seen >= 10
                                  THEN [verdict |-> "overflow", next |-> at + 10]
                                  ELSE [verdict |-> "incomplete", next |-> at]
    <2>1. ASSUME NEW n \in LastAt(at, seen) PROVE FALSE
        <3>1. n \in 1..10 /\ n <= seen /\ 7 \notin out[at + n - 1]
            BY <1>1, <1>3
        <3>2. n - 1 \in 0..9 /\ n - 1 < seen /\ at + n - 1 = at + (n - 1)
            BY <3>1
        <3>. QED  BY <1>5, <3>1, <3>2 DEF NoneOf
    <2>2. LastAt(at, seen) = {}
        BY <2>1
    <2>. QED  BY <2>2 DEF Expected, VARINT_MAX_BYTES
<1>. QED  BY <1>4, <1>5

\* The windowed reader's word.
LEMMA WindowIs ==
    ASSUME Given, end - p >= 10
    PROVE  /\ loadLittle64(Window) \in Word
           /\ readFixed = Finished(8, loadLittle64(Window))
           /\ loadLittle64(Window) = {x \in Bits : x % 8 \in out[p + (x \div 8)]}
<1>1. \A i \in 0..9 : p + i \in 0..(end - 1)
    BY DEF Given
<1>2. Window = [i \in 1..8 |-> out[p + (i - 1)]]
    BY DEF Window, At
<1>3. Window \in [1..8 -> Byte]
    <2>1. \A i \in 1..8 : out[p + (i - 1)] \in Byte
        BY <1>1 DEF Given
    <2>. QED  BY <1>2, <2>1
<1>4. loadLittle64(Window) = Packed(Window) /\ loadLittleBits(Window) = Packed(Window)
    BY <1>3, LoadIs DEF Given
<1>5. \A x \in Bits : Window[(x \div 8) + 1] = out[p + (x \div 8)]
    BY <1>2 DEF Bits
<1>. QED  BY <1>4, <1>5 DEF Packed, Word, readFixed, Left, Given

\* The first byte without a mark in the word of the windowed reader.
LEMMA TermIs ==
    ASSUME Given, end - p >= 10, NEW term,
           term = (Bits \ loadLittle64(Window)) \cap From({8 * i + 7 : i \in 0..7}, 1)
    PROVE  /\ \A n \in 1..8 : First(p, end - p, n) => term # {} /\ Min(term) \div 8 = n - 1
           /\ (\A i \in 0..7 : 7 \in out[p + i]) => term = {}
<1>1. \A x \in Bits : x \in term <=> x % 8 = 7 /\ 7 \notin out[p + (x \div 8)]
    BY WindowIs, MarkMask
<1>2. term \subseteq Bits
    OBVIOUS
<1>3. ASSUME NEW n \in 1..8, First(p, end - p, n)
      PROVE  term # {} /\ Min(term) \div 8 = n - 1
    <2>1. PICK x \in Bits : x = 8 * (n - 1) + 7
        BY DEF Bits
    <2>2. x % 8 = 7 /\ x \div 8 = n - 1 /\ p + (n - 1) = p + n - 1
        BY <2>1 DEF Given
    <2>3. x \in term
        BY <1>1, <1>3, <2>2 DEF First
    <2>4. ASSUME NEW y \in term PROVE x <= y
        <3>1. y \in Bits /\ y % 8 = 7 /\ 7 \notin out[p + (y \div 8)]
            BY <1>1, <1>2
        <3>2. y \div 8 \in 0..7 /\ y = 8 * (y \div 8) + 7
            BY <3>1 DEF Bits
        <3>3. ~(y \div 8 \in 0..(n - 2))
            BY <1>3, <3>1 DEF First
        <3>. QED  BY <2>1, <3>2, <3>3
    <2>5. Min(term) = x
        BY <1>2, <2>3, <2>4, MinIs DEF Bits
    <2>. QED  BY <2>2, <2>3, <2>5
<1>4. ASSUME \A i \in 0..7 : 7 \in out[p + i], NEW x \in term PROVE FALSE
    <2>1. x \div 8 \in 0..7 /\ 7 \notin out[p + (x \div 8)]
        BY <1>1, <1>2 DEF Bits
    <2>. QED  BY <1>4, <2>1
<1>. QED  BY <1>3, <1>4

\* What the gather makes of the first bytes of the window.
LEMMA GatheredIs ==
    ASSUME Given, end - p >= 10, NEW n \in 1..8
    PROVE  gather7(loadLittle64(Window) \cap 0..(8 * n - 1)) = GroupsAt(p, n)
<1>1. PICK w \in Word : w = loadLittle64(Window) \cap 0..(8 * n - 1)
    BY WindowIs DEF Word
<1>2. \A x \in Bits : x \in w <=> x <= 8 * n - 1 /\ x % 8 \in out[p + (x \div 8)]
    BY <1>1, WindowIs DEF Bits
<1>3. ASSUME NEW x \in Bits PROVE x \in gather7(w) <=> x \in GroupsAt(p, n)
    <2>1. x \in gather7(w) <=> x <= 55 /\ x + (x \div 7) \in w
        BY GatherAt
    <2>2. x \in GroupsAt(p, n) <=> x \div 7 < n /\ x % 7 \in out[p + (x \div 7)]
        <3>1. p \in Nat /\ n \in 1..10 /\ x \in 0..69
            BY DEF Given, Bits
        <3>. QED  BY <3>1, GroupsAtIs
    <2>3. ASSUME x <= 55
          PROVE  x + (x \div 7) \in w <=> x \div 7 < n /\ x % 7 \in out[p + (x \div 7)]
        <3>1. /\ x + (x \div 7) \in Bits /\ (x + (x \div 7)) \div 8 = x \div 7
              /\ (x + (x \div 7)) % 8 = x % 7
            BY <2>3 DEF Bits
        <3>2. x + (x \div 7) <= 8 * n - 1 <=> x \div 7 < n
            BY <2>3 DEF Bits
        <3>. QED  BY <1>2, <3>1, <3>2
    <2>4. x > 55 => ~(x \div 7 < n)
        BY DEF Bits
    <2>5. x <= 55 \/ x > 55
        BY DEF Bits
    <2>. QED  BY <2>1, <2>2, <2>3, <2>4, <2>5
<1>4. gather7(w) \subseteq Bits /\ GroupsAt(p, n) \subseteq Bits
    BY GatherAt, GroupsFit DEF Word, Given
<1>. QED  BY <1>1, <1>3, <1>4

\* One byte more is one group more.
LEMMA GroupsGrow ==
    ASSUME NEW at \in Nat, NEW n \in 1..9
    PROVE  GroupsAt(at, n + 1) = GroupsAt(at, n) \cup {7 * n + b : b \in out[at + n] \cap 0..6}
<1>1. \A i : i \in 0..((n + 1) - 1) <=> i \in 0..(n - 1) \/ i = n
    OBVIOUS
<1>. QED  BY <1>1 DEF GroupsAt

\* A group shifted to its place.
LEMMA ShlGroup ==
    ASSUME NEW bits, NEW i \in 0..9, \A b \in bits \cap 0..6 : 7 * i + b \in Bits
    PROVE  Shl(bits \cap 0..6, 7 * i) = {7 * i + b : b \in bits \cap 0..6}
<1>1. \A b \in bits \cap 0..6 : b + 7 * i = 7 * i + b
    OBVIOUS
<1>2. {b + 7 * i : b \in bits \cap 0..6} = {7 * i + b : b \in bits \cap 0..6}
    BY <1>1
<1>. QED  BY <1>2 DEF Shl

\* The ninth byte, taken by itself.
LEMMA NineAre ==
    ASSUME Given
    PROVE  GroupsAt(p, 8) \cup Shl(At(8) \cap 0..6, 56) = GroupsAt(p, 9)
<1>1. PICK n \in 1..9 : n = 8
    OBVIOUS
<1>2. GroupsAt(p, n + 1) = GroupsAt(p, n) \cup {7 * n + b : b \in out[p + n] \cap 0..6}
    BY GroupsGrow DEF Given
<1>3. Shl(out[p + n] \cap 0..6, 7 * n) = {7 * n + b : b \in out[p + n] \cap 0..6}
    <2>1. n \in 0..9 /\ \A b \in out[p + n] \cap 0..6 : 7 * n + b \in Bits
        BY <1>1 DEF Bits
    <2>. QED  BY <2>1, ShlGroup
<1>4. n + 1 = 9 /\ 7 * n = 56
    BY <1>1
<1>. QED  BY <1>1, <1>2, <1>3, <1>4 DEF At

\* And the tenth, of which only the lowest bit is part of a word.
LEMMA TenAre ==
    ASSUME Given, end - p >= 10, At(9) \cap 1..7 = {}
    PROVE  GroupsAt(p, 9) \cup Shl(At(9), 63) = GroupsAt(p, 10)
<1>1. PICK n \in 1..9 : n = 9
    OBVIOUS
<1>2. GroupsAt(p, n + 1) = GroupsAt(p, n) \cup {7 * n + b : b \in out[p + n] \cap 0..6}
    BY GroupsGrow DEF Given
<1>3. \A b \in out[p + n] : b = 0
    <2>1. p + n \in 0..(end - 1)
        BY <1>1 DEF Given
    <2>2. out[p + n] \subseteq 0..7
        BY <2>1 DEF Given, Byte
    <2>. QED  BY <1>1, <2>2 DEF At
<1>4. Shl(out[p + n] \cap 0..6, 7 * n) = {7 * n + b : b \in out[p + n] \cap 0..6}
    <2>1. n \in 0..9 /\ \A b \in out[p + n] \cap 0..6 : 7 * n + b \in Bits
        BY <1>1, <1>3 DEF Bits
    <2>. QED  BY <2>1, ShlGroup
<1>5. out[p + n] \cap 0..6 = out[p + n]
    BY <1>3
<1>6. n + 1 = 10 /\ 7 * n = 63
    BY <1>1
<1>. QED  BY <1>1, <1>2, <1>4, <1>5, <1>6 DEF At

\* The windowed reader and the windowed skip, on every ten bytes.
LEMMA WindowedIs ==
    ASSUME Given, end - p >= 10, ~OneByte
    PROVE  /\ \A n \in 1..10 : First(p, end - p, n) =>
                  IF GroupsAt(p, n) \subseteq Bits
                  THEN /\ getVarintWindowed = Finished(n, GroupsAt(p, n))
                       /\ skipVarintWindowed = Finished(n, {})
                  ELSE getVarintWindowed = Overflow /\ skipVarintWindowed = Overflow
           /\ NoneOf(p, end - p) => getVarintWindowed = Overflow /\ skipVarintWindowed = Overflow
<1>. p \in Nat /\ end \in Nat
    BY DEF Given
<1>. DEFINE marks == From({8 * i + 7 : i \in 0..7}, 1)
<1>1. PICK w \in Word : w = loadLittle64(Window)
    BY WindowIs
<1>2. PICK term : term = (Bits \ w) \cap marks
    OBVIOUS
<1>3. 7 \in w /\ 7 \in out[p + 0]
    <2>1. 7 \in out[p + 0]
        BY DEF OneByte, Left, At
    <2>2. 7 \in Bits /\ 7 % 8 = 7 /\ 7 \div 8 = 0
        BY DEF Bits
    <2>. QED  BY <1>1, <2>1, <2>2, WindowIs
<1>4. /\ \A n \in 1..8 : First(p, end - p, n) => term # {} /\ Min(term) \div 8 = n - 1
      /\ (\A i \in 0..7 : 7 \in out[p + i]) => term = {}
    BY <1>1, <1>2, TermIs
<1>5. \A n \in 1..8 : gather7(w \cap 0..(8 * n - 1)) = GroupsAt(p, n)
    BY <1>1, GatheredIs
<1>6. gather7(w) = GroupsAt(p, 8)
    <2>1. PICK n \in 1..8 : n = 8
        OBVIOUS
    <2>2. \A x \in w : x \in 0..(8 * n - 1)
        BY <2>1 DEF Word, Bits
    <2>3. w \cap 0..(8 * n - 1) = w
        BY <2>2
    <2>. QED  BY <1>5, <2>1, <2>3
<1>7. getVarintWindowed =
          IF term # {} THEN Finished((Min(term) \div 8) + 1,
                                     gather7(w \cap 0..(8 * ((Min(term) \div 8) + 1) - 1)))
          ELSE IF 7 \notin At(8) THEN Finished(9, GroupsAt(p, 8) \cup Shl(At(8) \cap 0..6, 56))
          ELSE IF TooWide(At(9)) THEN Overflow
          ELSE Finished(10, (GroupsAt(p, 8) \cup Shl(At(8) \cap 0..6, 56)) \cup Shl(At(9), 63))
    BY <1>1, <1>2, <1>3, <1>6 DEF getVarintWindowed
<1>8. skipVarintWindowed =
          IF term # {} THEN Finished((Min(term) \div 8) + 1, {})
          ELSE IF 7 \notin At(8) THEN Finished(9, {})
          ELSE IF TooWide(At(9)) THEN Overflow ELSE Finished(10, {})
    BY <1>1, <1>2 DEF skipVarintWindowed
<1>. HIDE DEF marks
<1>9. ASSUME NEW n \in 1..8, First(p, end - p, n)
      PROVE  /\ GroupsAt(p, n) \subseteq Bits
             /\ getVarintWindowed = Finished(n, GroupsAt(p, n))
             /\ skipVarintWindowed = Finished(n, {})
    <2>1. term # {} /\ Min(term) \div 8 = n - 1 /\ (n - 1) + 1 = n
        BY <1>4, <1>9
    <2>2. GroupsAt(p, n) \subseteq Bits
        BY GroupsFit
    <2>. QED  BY <1>5, <1>7, <1>8, <2>1, <2>2
<1>10. ASSUME First(p, end - p, 9)
       PROVE  /\ GroupsAt(p, 9) \subseteq Bits
              /\ getVarintWindowed = Finished(9, GroupsAt(p, 9))
              /\ skipVarintWindowed = Finished(9, {})
    <2>1. term = {} /\ 7 \notin At(8)
        BY <1>4, <1>10 DEF First, At
    <2>2. GroupsAt(p, 9) \subseteq Bits
        BY GroupsFit
    <2>. QED  BY <1>7, <1>8, <2>1, <2>2, NineAre
<1>11. ASSUME 7 \in At(8), \A i \in 0..7 : 7 \in out[p + i]
       PROVE  IF TooWide(At(9))
              THEN getVarintWindowed = Overflow /\ skipVarintWindowed = Overflow
              ELSE /\ getVarintWindowed = Finished(10, GroupsAt(p, 10))
                   /\ skipVarintWindowed = Finished(10, {})
    <2>1. term = {}
        BY <1>4, <1>11
    <2>2. CASE TooWide(At(9))
        BY <1>7, <1>8, <1>11, <2>1, <2>2
    <2>3. CASE ~TooWide(At(9))
        <3>1. GroupsAt(p, 9) \cup Shl(At(9), 63) = GroupsAt(p, 10)
            BY <2>3, TenAre DEF TooWide
        <3>2. (GroupsAt(p, 8) \cup Shl(At(8) \cap 0..6, 56)) \cup Shl(At(9), 63) = GroupsAt(p, 10)
            BY <3>1, NineAre
        <3>. QED  BY <1>7, <1>8, <1>11, <2>1, <2>3, <3>2
    <2>. QED  BY <2>2, <2>3
<1>12. ASSUME First(p, end - p, 10)
       PROVE  IF GroupsAt(p, 10) \subseteq Bits
              THEN /\ getVarintWindowed = Finished(10, GroupsAt(p, 10))
                   /\ skipVarintWindowed = Finished(10, {})
              ELSE getVarintWindowed = Overflow /\ skipVarintWindowed = Overflow
    <2>1. 7 \in At(8) /\ 7 \notin At(9) /\ \A i \in 0..7 : 7 \in out[p + i]
        <3>1. p + 10 - 1 = p + 9
            OBVIOUS
        <3>. QED  BY <1>12, <3>1 DEF First, At
    <2>2. TooWide(At(9)) <=> ~(out[p + 9] \cap 1..6 = {})
        <3>1. \A b \in 1..7 : b = 7 \/ b \in 1..6
            OBVIOUS
        <3>2. 1..6 \subseteq 1..7
            OBVIOUS
        <3>. QED  BY <2>1, <3>1, <3>2 DEF TooWide, At
    <2>3. TooWide(At(9)) <=> ~(GroupsAt(p, 10) \subseteq Bits)
        BY <2>2, GroupsFit
    <2>. QED  BY <1>11, <2>1, <2>3
<1>13. ASSUME NoneOf(p, end - p)
       PROVE  getVarintWindowed = Overflow /\ skipVarintWindowed = Overflow
    <2>1. \A i \in 0..9 : 7 \in out[p + i]
        BY <1>13 DEF NoneOf
    <2>2. TooWide(At(9))
        <3>1. 7 \in out[p + 9] /\ 7 \in 1..7
            BY <2>1
        <3>. QED  BY <3>1 DEF TooWide, At
    <2>. QED  BY <1>11, <2>1, <2>2 DEF At
<1>14. \A n \in 1..10 : n \in 1..8 \/ n = 9 \/ n = 10
    OBVIOUS
<1>. QED  BY <1>9, <1>10, <1>12, <1>13, <1>14

\* The bytes taken one by one, where fewer than ten are left.
LEMMA TailIs ==
    ASSUME Given, end - p < 10
    PROVE  /\ \A n \in 1..10 : First(p, end - p, n) =>
                  /\ Terminators # {} /\ Min(Terminators) = n - 1
                  /\ GroupsAt(p, n) \subseteq Bits
                  /\ GetTail = Finished(n, GroupsAt(p, n))
           /\ NoneOf(p, end - p) => Terminators = {}
<1>. p \in Nat /\ end \in Nat
    BY DEF Given
<1>1. Terminators = {i \in 0..((end - p) - 1) : 7 \notin out[p + i]}
    BY DEF Terminators, Left, At
<1>2. ASSUME NEW n \in 1..10, First(p, end - p, n)
      PROVE  /\ Terminators # {} /\ Min(Terminators) = n - 1
             /\ GroupsAt(p, n) \subseteq Bits
             /\ GetTail = Finished(n, GroupsAt(p, n))
    <2>1. n <= end - p /\ n <= 9 /\ p + n - 1 = p + (n - 1)
        BY <1>2 DEF First
    <2>2. n - 1 \in Terminators
        BY <1>1, <1>2, <2>1 DEF First
    <2>3. ASSUME NEW i \in Terminators PROVE n - 1 <= i
        <3>1. i \in Nat /\ 7 \notin out[p + i]
            BY <1>1
        <3>2. ~(i \in 0..(n - 2))
            BY <1>2, <3>1 DEF First
        <3>. QED  BY <3>1, <3>2
    <2>4. Min(Terminators) = n - 1
        <3>1. Terminators \subseteq Int
            BY <1>1
        <3>. QED  BY <2>2, <2>3, <3>1, MinIs
    <2>5. PICK last \in 0..8 : last = n - 1
        BY <2>1
    <2>. DEFINE shifted(i) == Shl(At(i) \cap 0..6, 7 * i)
                group(i) == {7 * i + b : b \in out[p + i] \cap 0..6}
    <2>6. \A i \in 0..last : shifted(i) = group(i)
        <3>1. ASSUME NEW i \in 0..last
              PROVE  i \in 0..9 /\ \A b \in out[p + i] \cap 0..6 : 7 * i + b \in Bits
            BY <2>5 DEF Bits
        <3>. QED  BY <3>1, ShlGroup DEF At
    <2>7. GetTail = Finished(last + 1, UNION {shifted(i) : i \in 0..last})
        BY <2>2, <2>4, <2>5 DEF GetTail
    <2>8. UNION {shifted(i) : i \in 0..last} = GroupsAt(p, n)
        <3>1. GroupsAt(p, n) = UNION {group(i) : i \in 0..last}
            BY <2>5 DEF GroupsAt
        <3>. HIDE DEF shifted, group
        <3>2. {shifted(i) : i \in 0..last} = {group(i) : i \in 0..last}
            BY <2>6
        <3>. QED  BY <3>1, <3>2
    <2>. HIDE DEF shifted, group
    <2>9. last + 1 = n /\ n < 10
        BY <2>1, <2>5
    <2>. QED  BY <2>2, <2>4, <2>7, <2>8, <2>9, GroupsFit
<1>3. ASSUME NoneOf(p, end - p), NEW i \in Terminators PROVE FALSE
    <2>1. i \in 0..9 /\ i < end - p /\ 7 \notin out[p + i]
        BY <1>1
    <2>. QED  BY <1>3, <2>1 DEF NoneOf
<1>. QED  BY <1>2, <1>3

\* A byte without a mark is a number by itself.
LEMMA OneByteIs ==
    ASSUME Given, OneByte
    PROVE  /\ \A n \in 1..10 : First(p, end - p, n) => n = 1
           /\ GroupsAt(p, 1) = At(0) /\ GroupsAt(p, 1) \subseteq Bits
           /\ ~NoneOf(p, end - p)
<1>. p \in Nat /\ end \in Nat
    BY DEF Given
<1>1. end - p > 0 /\ 7 \notin out[p + 0]
    BY DEF OneByte, Left, At
<1>2. ASSUME NEW n \in 1..10, First(p, end - p, n) PROVE n = 1
    <2>1. ~(0 \in 0..(n - 2))
        BY <1>1, <1>2 DEF First
    <2>. QED  BY <2>1
<1>3. out[p + 0] \subseteq 0..6
    <2>1. p + 0 \in 0..(end - 1)
        BY <1>1
    <2>2. out[p + 0] \subseteq 0..7
        BY <2>1 DEF Given, Byte
    <2>3. \A b \in 0..7 : b # 7 => b \in 0..6
        OBVIOUS
    <2>. QED  BY <1>1, <2>2, <2>3
<1>4. {7 * 0 + b : b \in out[p + 0] \cap 0..6} = out[p + 0]
    <2>1. \A b \in out[p + 0] : 7 * 0 + b = b /\ b \in 0..6
        BY <1>3
    <2>. QED  BY <2>1
<1>5. GroupsAt(p, 1) = out[p + 0]
    <2>1. \A i : i \in 0..(1 - 1) <=> i = 0
        OBVIOUS
    <2>. QED  BY <1>4, <2>1 DEF GroupsAt
<1>6. ~NoneOf(p, end - p)
    <2>1. 0 \in 0..9 /\ 0 < end - p
        BY <1>1
    <2>. QED  BY <1>1, <2>1 DEF NoneOf
<1>7. out[p + 0] \subseteq Bits
    BY <1>3 DEF Bits
<1>. QED  BY <1>2, <1>5, <1>6, <1>7 DEF At

\* Whichever way the bytes are taken, they are taken for the same.
LEMMA ReadersAre ==
    ASSUME Given
    PROVE  /\ \A n \in 1..10 : First(p, end - p, n) =>
                  IF GroupsAt(p, n) \subseteq Bits
                  THEN /\ getVarint = Finished(n, GroupsAt(p, n))
                       /\ skipVarint = Finished(n, {})
                  ELSE getVarint = Overflow /\ skipVarint = Overflow
           /\ NoneOf(p, end - p) =>
                  IF end - p >= 10
                  THEN getVarint = Overflow /\ skipVarint = Overflow
                  ELSE getVarint = Truncated /\ skipVarint = Truncated
<1>. p \in Nat /\ end \in Nat
    BY DEF Given
<1>1. CASE OneByte
    <2>1. getVarint = Finished(1, At(0)) /\ skipVarint = Finished(1, {})
        BY <1>1 DEF getVarint, skipVarint
    <2>. QED  BY <1>1, <2>1, OneByteIs
<1>2. CASE ~OneByte /\ Wide
    <2>1. getVarint = getVarintWindowed /\ skipVarint = skipVarintWindowed
        BY <1>2 DEF getVarint, skipVarint
    <2>2. end - p >= 10
        BY <1>2 DEF Wide, Left, VARINT_MAX_BYTES
    <2>. QED  BY <1>2, <2>1, <2>2, WindowedIs
<1>3. CASE ~OneByte /\ ~Wide
    <2>1. getVarint = GetTail
        BY <1>3 DEF getVarint
    <2>2. skipVarint = IF Terminators = {} THEN Truncated
                       ELSE Finished(Min(Terminators) + 1, {})
        BY <1>3 DEF skipVarint
    <2>3. end - p < 10 /\ ~(end - p >= 10)
        BY <1>3 DEF Wide, Left, VARINT_MAX_BYTES
    <2>4. ASSUME NEW n \in 1..10, First(p, end - p, n)
          PROVE  /\ GroupsAt(p, n) \subseteq Bits
                 /\ getVarint = Finished(n, GroupsAt(p, n)) /\ skipVarint = Finished(n, {})
        <3>1. (n - 1) + 1 = n
            OBVIOUS
        <3>. QED  BY <2>1, <2>2, <2>3, <2>4, <3>1, TailIs
    <2>5. NoneOf(p, end - p) => getVarint = Truncated /\ skipVarint = Truncated
        BY <2>1, <2>2, <2>3, TailIs DEF GetTail
    <2>. QED  BY <2>3, <2>4, <2>5
<1>. QED  BY <1>1, <1>2, <1>3

------------------------------------------------------------------------------
(* The inductive invariant. *)

Numbered == [at : Nat, kind : {"unsigned", "signed", "fixed"}, value : Word]
Foreign == [at : Nat, kind : {"strange"}]

\* The varint of a piece, as a number.
Meant(piece) == IF piece.kind = "signed" THEN Zigzag(piece.value) ELSE piece.value

\* The n bytes of a piece are those of its value, and nothing written later was stored over them.
OnWire(piece, n) ==
    /\ n \in Nat \ {0}
    /\ piece.kind \in {"unsigned", "signed"} =>
           /\ Has(Meant(piece), n)
           /\ \A j \in 1..n : out[piece.at + j - 1] = Marked(Meant(piece), j, n)
    /\ piece.kind = "fixed" => n = 8 /\ \A j \in 0..7 : out[piece.at + j] = Octet(piece.value, j)

\* Everything that counts is stored, and within the buffers.
Buffers ==
    /\ host \in {"little", "big"}
    /\ cursor \in Nat /\ limit \in Nat /\ cursor <= limit
    /\ DOMAIN out \subseteq 0..(limit - 1) /\ 0..(cursor - 1) \subseteq DOMAIN out
    /\ \A i \in DOMAIN out : out[i] \in Byte
    /\ end \in 0..cursor /\ p \in 0..end

\* The pieces lie one behind the other.
Laid ==
    /\ pieces \in Seq(Numbered \cup Foreign)
    /\ \A i \in DOMAIN pieces :
           pieces[i].at < cursor /\ OnWire(pieces[i], Ends(i) - pieces[i].at)
    /\ \A i, j \in DOMAIN pieces : i < j => pieces[i].at < pieces[j].at

\* Nothing is written once something was read.
Asked ==
    /\ answer.of \in {"nothing", "read", "skip"}
    /\ answer.of # "nothing" => end > 0

IInv == Buffers /\ Laid /\ Asked /\ RoundTrip /\ VerdictOfTheBytes

\* The bytes of one number stored: those that count are there, and none before them changed.
LEMMA StoredIs ==
    ASSUME Buffers, NEW bytes \in Seq(Byte), NEW n \in 1..Len(bytes), Stored(bytes, n),
           NEW room \in Nat, limit' = room, limit <= room, cursor + Len(bytes) <= room,
           UNCHANGED <<host, p, end>>
    PROVE  /\ Buffers' /\ cursor' = cursor + n
           /\ \A i \in 0..(cursor - 1) : out'[i] = out[i]
           /\ \A j \in 1..n : out'[cursor + j - 1] = bytes[j]
<1>. cursor \in Nat /\ limit \in Nat
    BY DEF Buffers
<1>. PICK len \in Nat : len = Len(bytes)
    OBVIOUS
<1>1. PICK over : over = cursor..(cursor + len - 1)
    OBVIOUS
<1>2. out' = [i \in DOMAIN out \cup over |->
                  IF i \in over THEN bytes[i - cursor + 1] ELSE out[i]] /\ cursor' = cursor + n
    BY <1>1 DEF Stored, StoredAt
<1>3. bytes \in [1..len -> Byte]
    OBVIOUS
<1>4. DOMAIN out' = DOMAIN out \cup over
    BY <1>2
<1>5. ASSUME NEW i \in over
      PROVE  i \in Nat /\ i - cursor + 1 \in 1..len /\ i <= room - 1
    <2>1. i \in Int /\ cursor <= i /\ i <= cursor + len - 1
        BY <1>1
    <2>. QED  BY <2>1
<1>6. \A i \in DOMAIN out' : out'[i] \in Byte
    BY <1>2, <1>3, <1>4, <1>5 DEF Buffers
<1>7. DOMAIN out' \subseteq 0..(limit' - 1)
    BY <1>4, <1>5 DEF Buffers
<1>8. 0..(cursor' - 1) \subseteq DOMAIN out'
    <2>1. ASSUME NEW i \in 0..(cursor' - 1) PROVE i \in 0..(cursor - 1) \/ i \in over
        BY <1>1, <1>2
    <2>. QED  BY <1>4, <2>1 DEF Buffers
<1>9. Buffers'
    <2>1. cursor' \in Nat /\ cursor' <= limit' /\ end' \in 0..cursor' /\ p' \in 0..end'
        BY <1>2 DEF Buffers
    <2>. QED  BY <1>6, <1>7, <1>8, <2>1 DEF Buffers
<1>10. ASSUME NEW i \in 0..(cursor - 1) PROVE out'[i] = out[i]
    <2>1. i \in DOMAIN out /\ i \notin over
        BY <1>1 DEF Buffers
    <2>. QED  BY <1>2, <2>1
<1>11. ASSUME NEW j \in 1..n PROVE out'[cursor + j - 1] = bytes[j]
    <2>1. cursor + j - 1 \in over /\ (cursor + j - 1) - cursor + 1 = j
        BY <1>1
    <2>. QED  BY <1>2, <2>1
<1>. QED  BY <1>2, <1>9, <1>10, <1>11

\* One piece more, behind the others.
LEMMA LaidBehind ==
    ASSUME Buffers, Laid, NEW piece \in Numbered \cup Foreign, NEW n \in Nat \ {0},
           piece.at = cursor, cursor' = cursor + n, OnWire(piece, n)',
           pieces' = Append(pieces, piece), \A i \in 0..(cursor - 1) : out'[i] = out[i]
    PROVE  Laid'
<1>. cursor \in Nat /\ cursor' \in Nat
    BY DEF Buffers
<1>. PICK m \in Nat : m = Len(pieces)
    BY DEF Laid
<1>1. pieces' \in Seq(Numbered \cup Foreign) /\ Len(pieces') = m + 1
    BY DEF Laid
<1>2. DOMAIN pieces = 1..m /\ DOMAIN pieces' = 1..(m + 1)
    BY <1>1 DEF Laid
<1>3. /\ \A i \in 1..m : pieces'[i] = pieces[i]
      /\ pieces'[m + 1] = piece
    BY DEF Laid
<1>4. /\ \A i \in 1..m : Ends(i)' = Ends(i)
      /\ Ends(m + 1)' = cursor'
    <2>1. ASSUME NEW i \in 1..m PROVE Ends(i)' = Ends(i)
        <3>1. CASE i = m
            BY <1>1, <1>3, <3>1 DEF Ends
        <3>2. CASE i # m
            <4>1. i + 1 \in 1..m /\ i # m + 1
                BY <1>1, <3>2
            <4>. QED  BY <1>1, <1>3, <3>2, <4>1 DEF Ends
        <3>. QED  BY <3>1, <3>2
    <2>. QED  BY <1>1, <2>1 DEF Ends
<1>5. ASSUME NEW i \in 1..m
      PROVE  /\ pieces[i].at \in Nat /\ Ends(i) \in Nat /\ Ends(i) <= cursor
             /\ pieces[i].at < cursor
    <2>1. \A k \in 1..m : pieces[k].at \in Nat /\ pieces[k].at < cursor
        BY <1>2 DEF Laid, Numbered, Foreign
    <2>2. i # m => i + 1 \in 1..m
        OBVIOUS
    <2>. QED  BY <2>1, <2>2 DEF Ends
<1>6. ASSUME NEW i \in 1..m
      PROVE  (pieces[i].at < cursor /\ OnWire(pieces[i], Ends(i) - pieces[i].at))'
    <2>1. PICK q : q = pieces[i]
        OBVIOUS
    <2>2. PICK k : k = Ends(i) - q.at
        OBVIOUS
    <2>3. /\ q.at \in Nat /\ k \in Nat \ {0} /\ q.at + k <= cursor /\ OnWire(q, k)
          /\ q.at < cursor
        <3>1. OnWire(q, k)
            BY <1>2, <2>1, <2>2 DEF Laid
        <3>2. k \in Nat \ {0}
            BY <3>1 DEF OnWire
        <3>. QED  BY <1>5, <2>1, <2>2, <3>1, <3>2
    <2>4. \A j \in 1..k : out'[q.at + j - 1] = out[q.at + j - 1]
        <3>1. \A j \in 1..k : q.at + j - 1 \in 0..(cursor - 1)
            BY <2>3
        <3>. QED  BY <3>1
    <2>5. k = 8 => \A j \in 0..7 : out'[q.at + j] = out[q.at + j]
        <3>1. k = 8 => \A j \in 0..7 : q.at + j \in 0..(cursor - 1)
            BY <2>3
        <3>. QED  BY <3>1
    <2>6. OnWire(q, k)'
        BY <2>3, <2>4, <2>5 DEF OnWire
    <2>7. pieces'[i] = q /\ Ends(i)' - pieces'[i].at = k
        BY <1>3, <1>4, <2>1, <2>2
    <2>8. pieces'[i].at < cursor'
        BY <2>3, <2>7
    <2>9. OnWire(pieces[i], Ends(i) - pieces[i].at)'
        BY <2>6, <2>7, Zenon DEF OnWire
    <2>. QED  BY <2>8, <2>9
<1>7. ASSUME NEW i, i = m + 1
      PROVE  (pieces[i].at < cursor /\ OnWire(pieces[i], Ends(i) - pieces[i].at))'
    <2>1. pieces'[i] = piece /\ Ends(i)' = cursor' /\ cursor' - piece.at = n
          /\ piece.at < cursor'
        BY <1>3, <1>4, <1>7
    <2>. QED  BY <2>1 DEF OnWire
<1>8. \A i, j \in DOMAIN pieces' : i < j => pieces'[i].at < pieces'[j].at
    BY <1>2, <1>3, <1>5 DEF Laid
<1>9. \A i \in 1..(m + 1) : i \in 1..m \/ i = m + 1
    OBVIOUS
<1>. QED  BY <1>1, <1>2, <1>6, <1>7, <1>8, <1>9 DEF Laid

\* A buffer that is filled is flushed, and the next one has room for what is left.
LEMMA PushIs ==
    ASSUME Buffers, NEW bytes \in Seq(Byte), NEW n \in 1..CAP, n = Len(bytes), PushBytes(bytes),
           UNCHANGED <<host, p, end>>
    PROVE  /\ Buffers' /\ cursor' = cursor + n
           /\ \A i \in 0..(cursor - 1) : out'[i] = out[i]
           /\ \A j \in 1..n : out'[cursor + j - 1] = bytes[j]
<1>. cursor \in Nat /\ limit \in Nat /\ cursor <= limit /\ CAP \in Nat
    BY VarintAssumption DEF Buffers
<1>1. Stored(bytes, n) /\ limit' = IF cursor' > limit THEN limit + CAP ELSE limit
    BY DEF PushBytes
<1>2. cursor' = cursor + n
    BY <1>1 DEF Stored
<1>3. PICK room \in Nat : room = IF cursor + n > limit THEN limit + CAP ELSE limit
    OBVIOUS
<1>4. limit' = room /\ limit <= room /\ cursor + n <= room
    BY <1>1, <1>2, <1>3
<1>5. n \in 1..Len(bytes) /\ cursor + Len(bytes) <= room
    BY <1>4
<1>. QED  BY <1>1, <1>2, <1>4, <1>5, StoredIs

\* A number is put as its groups of seven bits, by whichever of the two encoders.
LEMMA PutVarintIs ==
    ASSUME Buffers, NEW v \in Word, NEW n, Has(v, n), PutVarint(v), UNCHANGED <<host, p, end>>
    PROVE  /\ Buffers' /\ cursor' = cursor + n
           /\ \A i \in 0..(cursor - 1) : out'[i] = out[i]
           /\ \A j \in 1..n : out'[cursor + j - 1] = Marked(v, j, n)
<1>. cursor \in Nat /\ limit \in Nat /\ cursor <= limit /\ CAP \in Nat /\ CAP >= 10
    BY VarintAssumption DEF Buffers, VARINT_MAX_BYTES
<1>. n \in 1..10
    BY DEF Has
<1>1. CASE FullWindow(v)
    <2>1. PICK e : e = encodeVarintPadded(v)
        OBVIOUS
    <2>2. Stored(e.bytes, e.n) /\ limit' = limit
        BY <1>1, <2>1 DEF PutVarint
    <2>3. /\ e.n = n /\ e.bytes \in Seq(Byte) /\ n <= Len(e.bytes) /\ Len(e.bytes) <= 10
          /\ \A j \in 1..n : e.bytes[j] = Marked(v, j, n)
        <3>1. host \in {"little", "big"}
            BY DEF Buffers
        <3>. QED  BY <2>1, <3>1, PaddedIs
    <2>4. PICK bytes \in Seq(Byte) : bytes = e.bytes
        BY <2>3
    <2>5. limit - cursor >= 10
        BY <1>1 DEF FullWindow, VARINT_MAX_BYTES
    <2>6. n \in 1..Len(bytes) /\ cursor + Len(bytes) <= limit
        <3>1. Len(bytes) \in Nat /\ n <= Len(bytes) /\ Len(bytes) <= 10
            BY <2>3, <2>4
        <3>. QED  BY <2>5, <3>1
    <2>7. Stored(bytes, n)
        BY <2>2, <2>3, <2>4
    <2>. QED  BY <2>2, <2>3, <2>4, <2>6, <2>7, StoredIs
<1>2. CASE ~FullWindow(v)
    <2>1. PICK bytes : bytes = Coded(v, n)
        OBVIOUS
    <2>2. bytes \in Seq(Byte) /\ Len(bytes) = n
        BY <2>1, CodedIs
    <2>3. PushBytes(bytes)
        BY <1>2, <2>1, EncodeIs DEF PutVarint
    <2>4. n \in 1..CAP
        OBVIOUS
    <2>5. \A j \in 1..n : bytes[j] = Marked(v, j, n)
        BY <2>1 DEF Coded
    <2>. QED  BY <2>2, <2>3, <2>4, <2>5, PushIs
<1>. QED  BY <1>1, <1>2

\* Whatever is written is laid behind what was.
LEMMA PutIs ==
    ASSUME IInv, NEW kind \in {"unsigned", "signed", "fixed"}, NEW v \in Word, Put(kind, v)
    PROVE  Buffers' /\ Laid'
<1>. Buffers /\ Laid /\ UNCHANGED <<host, p, end>> /\ cursor \in Nat
    BY DEF IInv, Put, Buffers
<1>1. PICK piece : piece = [at |-> cursor, kind |-> kind, value |-> v]
    OBVIOUS
<1>2. /\ piece \in Numbered \cup Foreign /\ piece.at = cursor
      /\ piece.kind = kind /\ piece.value = v /\ pieces' = Append(pieces, piece)
    BY <1>1 DEF Numbered, Put
<1>3. CASE kind \in {"unsigned", "signed"}
    <2>1. PICK u \in Word : u = Meant(piece) /\ PutVarint(u)
        BY <1>2, <1>3, ZigzagAt DEF Put, Meant
    <2>2. PICK n : Has(u, n)
        BY HasGroups
    <2>3. n \in Nat \ {0} /\ cursor' = cursor + n /\ Buffers'
          /\ \A i \in 0..(cursor - 1) : out'[i] = out[i]
        BY <2>1, <2>2, PutVarintIs DEF Has
    <2>4. \A j \in 1..n : out'[cursor + j - 1] = Marked(u, j, n)
        BY <2>1, <2>2, PutVarintIs
    <2>5. OnWire(piece, n)'
        BY <1>2, <1>3, <2>1, <2>2, <2>3, <2>4 DEF OnWire
    <2>. QED  BY <1>2, <2>3, <2>5, LaidBehind
<1>4. CASE kind = "fixed"
    <2>1. PICK bytes : bytes = storeLittleBits(v)
        OBVIOUS
    <2>2. /\ PushBytes(bytes) /\ bytes \in Seq(Byte) /\ Len(bytes) = 8
          /\ \A i \in 1..8 : bytes[i] = Octet(v, i - 1)
        <3>1. bytes = [i \in 1..8 |-> Octet(v, i - 1)]
            BY <2>1, StoreIs DEF Buffers
        <3>2. \A i \in 1..8 : Octet(v, i - 1) \in Byte
            BY DEF Octet, Byte
        <3>3. PushBytes(bytes)
            BY <1>4, <2>1 DEF Put
        <3>4. PICK n \in Nat : n = 8
            OBVIOUS
        <3>5. bytes \in [1..n -> Byte]
            BY <3>1, <3>2, <3>4
        <3>6. bytes \in Seq(Byte) /\ Len(bytes) = n
            BY <3>5
        <3>. QED  BY <3>1, <3>3, <3>4, <3>6
    <2>3. PICK n \in 1..CAP : n = 8
        BY VarintAssumption DEF VARINT_MAX_BYTES
    <2>4. /\ Buffers' /\ cursor' = cursor + n
          /\ \A i \in 0..(cursor - 1) : out'[i] = out[i]
          /\ \A j \in 1..n : out'[cursor + j - 1] = bytes[j]
        BY <2>2, <2>3, PushIs
    <2>5. \A j \in 0..7 : out'[cursor + j] = Octet(v, j)
        <3>1. ASSUME NEW j \in 0..7 PROVE out'[cursor + j] = Octet(v, j)
            <4>1. PICK k \in 1..8 : k = j + 1
                OBVIOUS
            <4>2. cursor + k - 1 = cursor + j /\ k - 1 = j
                BY <4>1
            <4>3. out'[cursor + k - 1] = bytes[k] /\ bytes[k] = Octet(v, k - 1)
                BY <2>2, <2>3, <2>4
            <4>. QED  BY <4>2, <4>3
        <3>. QED  BY <3>1
    <2>6. OnWire(piece, n)'
        BY <1>2, <1>4, <2>3, <2>5 DEF OnWire
    <2>. QED  BY <1>2, <2>3, <2>4, <2>6, LaidBehind
<1>. QED  BY <1>3, <1>4

\* What was written as a varint is one, and of no other number.
LEMMA WireIs ==
    ASSUME NEW at \in Nat, NEW v \in Word, NEW n, Has(v, n),
           \A j \in 1..n : out[at + j - 1] = Marked(v, j, n)
    PROVE  /\ n \in 1..10 /\ GroupsAt(at, n) = v
           /\ 7 \notin out[at + n - 1] /\ \A i \in 0..(n - 2) : 7 \in out[at + i]
           /\ \A seen \in Nat : IF seen < n THEN NoneOf(at, seen) ELSE First(at, seen, n)
<1>. n \in 1..10
    BY DEF Has
<1>1. ASSUME NEW j \in 1..n
      PROVE  /\ 7 \in out[at + j - 1] <=> j < n
             /\ \A b \in 0..6 : b \in out[at + j - 1] <=> 7 * (j - 1) + b \in v
    <2>1. out[at + j - 1] = Marked(v, j, n)
        OBVIOUS
    <2>2. 7 \notin 0..6 /\ \A b \in 0..6 : b # 7
        OBVIOUS
    <2>. QED  BY <2>1, <2>2 DEF Marked, Group
<1>2. ASSUME NEW i \in 0..(n - 1)
      PROVE  /\ 7 \in out[at + i] <=> i + 1 < n
             /\ \A b \in 0..6 : b \in out[at + i] <=> 7 * i + b \in v
    <2>1. PICK j \in 1..n : j = i + 1
        OBVIOUS
    <2>2. at + j - 1 = at + i /\ j - 1 = i
        BY <2>1
    <2>. QED  BY <1>1, <2>1, <2>2
<1>3. 7 \notin out[at + n - 1] /\ \A i \in 0..(n - 2) : 7 \in out[at + i]
    <2>1. at + n - 1 = at + (n - 1) /\ n - 1 \in 0..(n - 1) /\ ~((n - 1) + 1 < n)
        OBVIOUS
    <2>2. \A i \in 0..(n - 2) : i \in 0..(n - 1) /\ i + 1 < n
        OBVIOUS
    <2>. QED  BY <1>2, <2>1, <2>2
<1>4. GroupsAt(at, n) = v
    <2>1. ASSUME NEW x \in 0..69 PROVE x \in GroupsAt(at, n) <=> x \in v
        <3>1. x \in GroupsAt(at, n) <=> x \div 7 < n /\ x % 7 \in out[at + (x \div 7)]
            BY GroupsAtIs
        <3>2. x \in v => x \div 7 < n
            BY DEF Has
        <3>3. x \div 7 \in Nat /\ x % 7 \in 0..6 /\ 7 * (x \div 7) + (x % 7) = x
            OBVIOUS
        <3>4. x \div 7 < n => x \div 7 \in 0..(n - 1)
            BY <3>3
        <3>5. x \div 7 < n => (x % 7 \in out[at + (x \div 7)] <=> x \in v)
            BY <1>2, <3>3, <3>4
        <3>. QED  BY <3>1, <3>2, <3>5
    <2>2. v \subseteq 0..69
        BY DEF Word, Bits
    <2>. QED  BY <2>1, <2>2, GroupsAtIs
<1>5. ASSUME NEW seen \in Nat PROVE IF seen < n THEN NoneOf(at, seen) ELSE First(at, seen, n)
    <2>1. CASE seen < n
        <3>1. \A i \in 0..9 : i < seen => i \in 0..(n - 2)
            BY <2>1
        <3>. QED  BY <1>3, <2>1, <3>1 DEF NoneOf
    <2>2. CASE ~(seen < n)
        BY <1>3, <2>2 DEF First
    <2>. QED  BY <2>1, <2>2
<1>. QED  BY <1>3, <1>4, <1>5

\* And what is read or skipped has the verdict of the reference.
LEMMA VerdictIs ==
    ASSUME Given
    PROVE  /\ getVarint.verdict = Expected(p, end - p).verdict
           /\ getVarint.next = Expected(p, end - p).next /\ getVarint.next \in p..end
           /\ getVarint.verdict = "value" => getVarint.value = GroupsAt(p, getVarint.next - p)
           /\ skipVarint.verdict = Expected(p, end - p).verdict
           /\ skipVarint.next = Expected(p, end - p).next /\ skipVarint.next \in p..end
<1>. p \in Nat /\ end \in Nat /\ end - p \in Nat
    BY DEF Given
<1>1. ASSUME NEW n \in 1..10, First(p, end - p, n), GroupsAt(p, n) \subseteq Bits
      PROVE  /\ getVarint = Finished(n, GroupsAt(p, n)) /\ skipVarint = Finished(n, {})
             /\ Expected(p, end - p) = [verdict |-> "value", next |-> p + n]
             /\ p + n \in p..end /\ (p + n) - p = n
    <2>1. n <= end - p
        BY <1>1 DEF First
    <2>2. p + n \in p..end /\ (p + n) - p = n
        BY <2>1
    <2>. QED  BY <1>1, <2>2, ReadersAre, ExpectedIs
<1>2. ASSUME NEW n \in 1..10, First(p, end - p, n), ~(GroupsAt(p, n) \subseteq Bits)
      PROVE  /\ getVarint = Overflow /\ skipVarint = Overflow
             /\ Expected(p, end - p) = [verdict |-> "overflow", next |-> p + 10]
             /\ p + 10 \in p..end
    <2>1. n = 10
        BY <1>2, GroupsFit
    <2>2. p + 10 \in p..end
        BY <1>2, <2>1 DEF First
    <2>. QED  BY <1>2, <2>2, ReadersAre, ExpectedIs
<1>3. ASSUME NoneOf(p, end - p), end - p >= 10
      PROVE  /\ getVarint = Overflow /\ skipVarint = Overflow
             /\ Expected(p, end - p) = [verdict |-> "overflow", next |-> p + 10]
             /\ p + 10 \in p..end
    BY <1>3, ReadersAre, ExpectedIs
<1>4. ASSUME NoneOf(p, end - p), ~(end - p >= 10)
      PROVE  /\ getVarint = Truncated /\ skipVarint = Truncated
             /\ Expected(p, end - p) = [verdict |-> "incomplete", next |-> p]
             /\ p \in p..end
    <2>1. p \in p..end
        BY DEF Given
    <2>. QED  BY <1>4, <2>1, ReadersAre, ExpectedIs
<1>5. CASE \E n \in 1..10 : First(p, end - p, n) /\ GroupsAt(p, n) \subseteq Bits
    BY <1>1, <1>5 DEF Finished
<1>6. CASE \E n \in 1..10 : First(p, end - p, n) /\ ~(GroupsAt(p, n) \subseteq Bits)
    BY <1>2, <1>6 DEF Overflow
<1>7. CASE NoneOf(p, end - p)
    BY <1>3, <1>4, <1>7 DEF Overflow, Truncated
<1>. QED  BY <1>5, <1>6, <1>7, FirstOrNone

\* A word of eight bytes is read as it was written.
LEMMA FixedIs ==
    ASSUME Given, end - p >= 8, NEW v \in Word, \A j \in 0..7 : out[p + j] = Octet(v, j)
    PROVE  loadLittleBits(Window) = v
<1>1. \A i \in 1..8 : p + (i - 1) \in 0..(end - 1)
    BY DEF Given
<1>2. Window = [i \in 1..8 |-> out[p + (i - 1)]]
    BY DEF Window, At
<1>3. Window \in [1..8 -> Byte]
    BY <1>1, <1>2 DEF Given
<1>4. loadLittleBits(Window) = Packed(Window)
    BY <1>3, LoadIs DEF Given
<1>5. ASSUME NEW x \in Bits PROVE x \in Packed(Window) <=> x \in v
    <2>1. x \div 8 \in 0..7 /\ x % 8 \in 0..7 /\ 8 * (x \div 8) + (x % 8) = x
        BY DEF Bits
    <2>2. PICK i \in 1..8 : i = (x \div 8) + 1
        BY <2>1
    <2>3. i - 1 = x \div 8 /\ p + (i - 1) = p + (x \div 8)
        BY <2>1, <2>2
    <2>4. Window[i] = Octet(v, x \div 8)
        BY <1>2, <2>1, <2>3
    <2>. QED  BY <2>1, <2>2, <2>4 DEF Packed, Octet
<1>6. Packed(Window) \subseteq Bits /\ v \subseteq Bits
    BY DEF Packed, Word
<1>. QED  BY <1>4, <1>5, <1>6

\* What the two properties ask of an answer about a piece, before it is given.
Right(what, i, a) ==
    /\ a.next \in p..end
    /\ what = "read" /\ pieces[i].kind # "strange" =>
           IF end - p < Ends(i) - p
           THEN a.verdict = "incomplete" /\ a.next = p
           ELSE a.verdict = "value" /\ a.next = Ends(i) /\ a.value = pieces[i].value
    /\ pieces[i].kind # "fixed" =>
           /\ a.verdict = Expected(p, end - p).verdict /\ a.next = Expected(p, end - p).next
           /\ what = "read" /\ a.verdict = "value" /\ pieces[i].kind = "strange" =>
                  a.value = GroupsAt(p, a.next - p)

\* What stands before the decoder.
LEMMA StandingIs ==
    ASSUME Buffers, Laid, NEW i \in Standing
    PROVE  /\ Given /\ p < end /\ i \in DOMAIN pieces /\ pieces[i].at = p
           /\ pieces[i] \in Numbered \cup Foreign /\ OnWire(pieces[i], Ends(i) - p)
           /\ Ends(i) - p \in Nat /\ p + (Ends(i) - p) = Ends(i)
           /\ \A j \in DOMAIN pieces : pieces[j].at = p => j = i
<1>1. i \in DOMAIN pieces /\ pieces[i].at = p /\ p < end
    BY DEF Standing
<1>2. Given
    <2>1. p \in Nat /\ end \in Nat /\ p <= end
        BY DEF Buffers
    <2>2. \A k \in 0..(end - 1) : out[k] \in Byte
        <3>1. ASSUME NEW k \in 0..(end - 1) PROVE k \in 0..(cursor - 1)
            BY DEF Buffers
        <3>. QED  BY <3>1 DEF Buffers
    <2>. QED  BY <2>1, <2>2 DEF Given, Buffers
<1>3. pieces[i] \in Numbered \cup Foreign /\ OnWire(pieces[i], Ends(i) - p)
    BY <1>1 DEF Laid
<1>4. Ends(i) - p \in Nat /\ p + (Ends(i) - p) = Ends(i)
    <2>1. Len(pieces) \in Nat /\ DOMAIN pieces = 1..Len(pieces)
        BY DEF Laid
    <2>2. \A k \in DOMAIN pieces : pieces[k].at \in Nat
        BY DEF Laid, Numbered, Foreign
    <2>3. i # Len(pieces) => i + 1 \in DOMAIN pieces
        BY <1>1, <2>1
    <2>4. Ends(i) \in Nat
        BY <2>2, <2>3 DEF Ends, Buffers
    <2>5. Ends(i) - p \in Nat
        BY <1>3 DEF OnWire
    <2>6. p \in Nat
        BY <1>2 DEF Given
    <2>. QED  BY <2>4, <2>5, <2>6
<1>5. ASSUME NEW j \in DOMAIN pieces, pieces[j].at = p PROVE j = i
    <2>1. DOMAIN pieces = 1..Len(pieces) /\ p \in Nat
        BY <1>2 DEF Laid, Given
    <2>2. ~(i < j) /\ ~(j < i)
        <3>1. ~(p < p)
            BY <2>1
        <3>. QED  BY <1>1, <1>5, <3>1 DEF Laid
    <2>. QED  BY <1>1, <2>1, <2>2
<1>. QED  BY <1>1, <1>2, <1>3, <1>4, <1>5

\* A varint that the library wrote is read as its number, and only as a whole.
LEMMA MeantIs ==
    ASSUME Buffers, Laid, NEW i \in Standing, pieces[i].kind \in {"unsigned", "signed"}
    PROVE  IF end - p < Ends(i) - p
           THEN getVarint.verdict = "incomplete" /\ getVarint.next = p
           ELSE getVarint = Finished(Ends(i) - p, Meant(pieces[i]))
<1>. p \in Nat /\ end \in Nat /\ end - p \in Nat
    BY StandingIs DEF Given
<1>1. PICK n : n = Ends(i) - p
    OBVIOUS
<1>2. PICK v \in Word : v = Meant(pieces[i])
    <2>1. pieces[i].value \in Word
        BY StandingIs DEF Numbered, Foreign
    <2>. QED  BY <2>1, ZigzagAt DEF Meant
<1>3. Has(v, n) /\ \A j \in 1..n : out[p + j - 1] = Marked(v, j, n)
    BY <1>1, <1>2, StandingIs DEF OnWire
<1>4. n \in 1..10 /\ GroupsAt(p, n) = v /\ v \subseteq Bits
    BY <1>3, WireIs DEF Word
<1>5. IF end - p < n THEN NoneOf(p, end - p) ELSE First(p, end - p, n)
    BY <1>3, WireIs
<1>6. CASE end - p < n
    <2>1. ~(end - p >= 10)
        BY <1>4, <1>6
    <2>2. getVarint = Truncated
        BY <1>5, <1>6, <2>1, ReadersAre, StandingIs
    <2>. QED  BY <1>1, <1>6, <2>2 DEF Truncated
<1>7. CASE ~(end - p < n)
    <2>1. getVarint = Finished(n, GroupsAt(p, n))
        BY <1>4, <1>5, <1>7, ReadersAre, StandingIs
    <2>. QED  BY <1>1, <1>2, <1>4, <1>7, <2>1
<1>. QED  BY <1>6, <1>7

\* Every read gives the right answer, of whatever kind the number is.
LEMMA ReadIs ==
    ASSUME Buffers, Laid, NEW i \in Standing, NEW a,
           a = IF pieces[i].kind = "fixed" THEN readFixed
               ELSE IF pieces[i].kind = "signed" THEN readSigned ELSE getVarint
    PROVE  Right("read", i, a)
<1>. p \in Nat /\ end \in Nat /\ end - p \in Nat /\ Given
    BY StandingIs DEF Given
<1>. PICK n \in Nat : n = Ends(i) - p /\ p + n = Ends(i)
    BY StandingIs
<1>1. pieces[i].kind \in {"unsigned", "signed", "fixed", "strange"}
      /\ (pieces[i].kind # "strange" => pieces[i].value \in Word)
    BY StandingIs DEF Numbered, Foreign
<1>2. CASE pieces[i].kind = "fixed"
    <2>1. n = 8 /\ \A j \in 0..7 : out[p + j] = Octet(pieces[i].value, j)
        BY <1>2, StandingIs DEF OnWire
    <2>2. CASE end - p < 8
        <3>1. a = Truncated /\ p \in p..end
            BY <1>2, <2>2 DEF readFixed, Left, Given
        <3>. QED  BY <1>2, <2>1, <2>2, <3>1 DEF Right, Truncated
    <2>3. CASE ~(end - p < 8)
        <3>1. a = Finished(8, loadLittleBits(Window))
            BY <1>2, <2>3 DEF readFixed, Left
        <3>2. loadLittleBits(Window) = pieces[i].value
            BY <1>1, <1>2, <2>1, <2>3, FixedIs
        <3>3. p + 8 \in p..end /\ p + 8 = Ends(i)
            BY <2>1, <2>3
        <3>. QED  BY <1>2, <2>1, <2>3, <3>1, <3>2, <3>3 DEF Right, Finished
    <2>. QED  BY <2>2, <2>3
<1>3. CASE pieces[i].kind \in {"unsigned", "strange"}
    <2>1. a = getVarint
        BY <1>3
    <2>2. pieces[i].kind = "unsigned" =>
              IF end - p < n THEN a.verdict = "incomplete" /\ a.next = p
              ELSE a.verdict = "value" /\ a.next = Ends(i) /\ a.value = pieces[i].value
        BY <2>1, MeantIs DEF Meant, Finished
    <2>. QED  BY <1>3, <2>1, <2>2, VerdictIs DEF Right
<1>4. CASE pieces[i].kind = "signed"
    <2>1. a = readSigned
        BY <1>4
    <2>2. PICK g : g = getVarint
        OBVIOUS
    <2>3. IF end - p < n THEN g.verdict = "incomplete" /\ g.next = p
          ELSE g = Finished(n, Zigzag(pieces[i].value))
        BY <1>4, <2>2, MeantIs DEF Meant
    <2>4. CASE end - p < n
        <3>1. a = g
            BY <2>1, <2>2, <2>3, <2>4 DEF readSigned
        <3>. QED  BY <1>4, <2>2, <2>3, <2>4, <3>1, VerdictIs DEF Right
    <2>5. CASE ~(end - p < n)
        <3>1. g = [verdict |-> "value", next |-> p + n, value |-> Zigzag(pieces[i].value)]
            BY <2>3, <2>5 DEF Finished
        <3>2. a = [g EXCEPT !.value = zigzagDecode(g.value)]
            BY <2>1, <2>2, <3>1 DEF readSigned
        <3>3. zigzagDecode(Zigzag(pieces[i].value)) = pieces[i].value
            BY <1>1, <1>4, ZigzagAt, ZigzagInverse
        <3>4. a.verdict = "value" /\ a.next = p + n /\ a.value = pieces[i].value
              /\ g.verdict = "value" /\ g.next = p + n
            BY <3>1, <3>2, <3>3
        <3>. QED  BY <1>4, <2>2, <2>5, <3>4, VerdictIs DEF Right
    <2>. QED  BY <2>4, <2>5
<1>. QED  BY <1>1, <1>2, <1>3, <1>4

\* And every skip the right verdict.
LEMMA SkipIs ==
    ASSUME Buffers, Laid, NEW i \in Standing
    PROVE  Right("skip", i, skipVarint)
BY StandingIs, VerdictIs DEF Right

\* An answer that is right keeps the invariant.
LEMMA AnswerIs ==
    ASSUME IInv, NEW i \in Standing, NEW what \in {"read", "skip"}, NEW a, Right(what, i, a),
           Moves(what, a)
    PROVE  IInv'
<1>. Buffers /\ Laid /\ UNCHANGED <<host, out, cursor, limit, pieces, end>>
    BY DEF IInv, Moves
<1>1. answer' = [of |-> what, from |-> p, seen |-> end - p, is |-> a] /\ p' = a.next
    BY DEF Moves, Left
<1>2. /\ answer'.of = what /\ answer'.from = p /\ answer'.seen = end - p /\ answer'.is = a
    BY <1>1
<1>3. p \in Nat /\ end \in Nat /\ p < end
      /\ \A j \in DOMAIN pieces : pieces[j].at = p => j = i
    BY StandingIs DEF Given
<1>4. Buffers'
    <2>1. p' \in 0..end
        BY <1>1, <1>3 DEF Right
    <2>. QED  BY <2>1 DEF Buffers
<1>5. Laid'
    BY DEF Laid, OnWire, Ends
<1>6. Asked'
    BY <1>2, <1>3 DEF Asked
<1>7. \A j : Ends(j)' = Ends(j)
    BY DEF Ends
<1>8. RoundTrip'
    <2>. SUFFICES ASSUME what = "read", NEW j \in DOMAIN pieces, pieces[j].at = p,
                         pieces[j].kind # "strange"
                  PROVE  IF end - p < Ends(j)' - p
                         THEN a.verdict = "incomplete" /\ a.next = p
                         ELSE a.verdict = "value" /\ a.next = Ends(j)' /\ a.value = pieces[j].value
        BY <1>2 DEF RoundTrip
    <2>. QED  BY <1>3, <1>7 DEF Right
<1>9. \A at, seen : Expected(at, seen)' = Expected(at, seen)
    BY DEF Expected, LastAt, GroupsAt
<1>10. \A at, n : GroupsAt(at, n)' = GroupsAt(at, n)
    BY DEF GroupsAt
<1>11. VerdictOfTheBytes'
    <2>. SUFFICES ASSUME NEW j \in DOMAIN pieces, pieces[j].at = p, pieces[j].kind # "fixed",
                         NEW e, e = Expected(p, end - p)
                  PROVE  /\ a.verdict = e.verdict /\ a.next = e.next
                         /\ what = "read" /\ e.verdict = "value" /\ pieces[j].kind = "strange" =>
                                a.value = GroupsAt(p, e.next - p)
        BY <1>2, <1>9, <1>10 DEF VerdictOfTheBytes
    <2>. QED  BY <1>3 DEF Right
<1>. QED  BY <1>4, <1>5, <1>6, <1>8, <1>11 DEF IInv

\* Another writer's varint is laid as it is.
LEMMA InjectIs ==
    ASSUME IInv, NEW bytes \in Strange, Inject(bytes)
    PROVE  Buffers' /\ Laid'
<1>. Buffers /\ Laid /\ UNCHANGED <<host, p, end>> /\ cursor \in Nat /\ CAP \in Nat
    BY VarintAssumption DEF IInv, Inject, Buffers
<1>1. bytes \in Seq(Byte) /\ Len(bytes) \in 1..CAP
    BY VarintAssumption
<1>2. PICK n \in 1..CAP : n = Len(bytes)
    BY <1>1
<1>3. /\ Buffers' /\ cursor' = cursor + n
      /\ \A i \in 0..(cursor - 1) : out'[i] = out[i]
    BY <1>1, <1>2, PushIs DEF Inject
<1>4. PICK piece : piece = [at |-> cursor, kind |-> "strange"]
    OBVIOUS
<1>5. /\ piece \in Numbered \cup Foreign /\ piece.at = cursor /\ piece.kind = "strange"
      /\ pieces' = Append(pieces, piece)
    BY <1>4 DEF Foreign, Inject
<1>6. n \in Nat \ {0} /\ OnWire(piece, n)'
    BY <1>5 DEF OnWire
<1>. QED  BY <1>3, <1>5, <1>6, LaidBehind

\* The invariant holds before anything is written.
LEMMA InitKeeps == Init => IInv
<1>. SUFFICES ASSUME Init PROVE IInv
    OBVIOUS
<1>1. Buffers
    <2>1. limit \in Nat /\ limit >= 0
        BY VarintAssumption DEF Init
    <2>2. DOMAIN out = {} /\ 0..(cursor - 1) = {}
        BY DEF Init
    <2>. QED  BY <2>1, <2>2 DEF Init, Buffers
<1>2. Laid
    BY DEF Init, Laid
<1>3. answer.of = "nothing"
    BY DEF Init
<1>. QED  BY <1>1, <1>2, <1>3 DEF IInv, Asked, RoundTrip, VerdictOfTheBytes

\* Of these parts, nothing but what is written and what is answered decides.
LEMMA SameParts ==
    ASSUME Laid, RoundTrip, VerdictOfTheBytes, UNCHANGED <<out, cursor, pieces, answer>>
    PROVE  Laid' /\ RoundTrip' /\ VerdictOfTheBytes'
<1>. UNCHANGED out /\ UNCHANGED cursor /\ UNCHANGED pieces /\ UNCHANGED answer
    OBVIOUS
<1>1. Laid'
    BY DEF Laid, OnWire, Ends
<1>2. \A i : Ends(i)' = Ends(i)
    BY DEF Ends
<1>3. RoundTrip'
    BY <1>2 DEF RoundTrip
<1>4. /\ \A at, seen : Expected(at, seen)' = Expected(at, seen)
      /\ \A at, n : GroupsAt(at, n)' = GroupsAt(at, n)
    BY DEF Expected, LastAt, GroupsAt
<1>5. VerdictOfTheBytes'
    BY <1>4 DEF VerdictOfTheBytes
<1>. QED  BY <1>1, <1>3, <1>5

\* Every step keeps the invariant.
LEMMA NextKeeps == IInv /\ [Next]_vars => IInv'
<1>. SUFFICES ASSUME IInv, [Next]_vars PROVE IInv'
    OBVIOUS
<1>. Buffers /\ Laid /\ Asked /\ RoundTrip /\ VerdictOfTheBytes
    BY DEF IInv
\* While numbers are written, nothing has been asked.
<1>1. ASSUME end = 0, UNCHANGED <<end, answer>>, Buffers', Laid' PROVE IInv'
    <2>1. answer.of = "nothing" /\ answer'.of = "nothing"
        BY <1>1 DEF Asked
    <2>. QED  BY <1>1, <2>1 DEF IInv, Asked, RoundTrip, VerdictOfTheBytes
<1>2. ASSUME NEW kind \in {"unsigned", "signed", "fixed"},
             NEW v \in Values \cup Fixed \cup Others, Put(kind, v)
      PROVE  IInv'
    <2>1. v \in Word
        BY VarintAssumption
    <2>2. end = 0 /\ UNCHANGED <<end, answer>>
        BY <1>2 DEF Put
    <2>. QED  BY <1>1, <1>2, <2>1, <2>2, PutIs
<1>3. ASSUME NEW bytes \in Strange, Inject(bytes) PROVE IInv'
    <2>1. end = 0 /\ UNCHANGED <<end, answer>>
        BY <1>3 DEF Inject
    <2>. QED  BY <1>1, <1>3, <2>1, InjectIs
<1>4. CASE Arrive
    <2>. UNCHANGED <<host, out, cursor, limit, pieces, p, answer>> /\ end' = end + 1
         /\ end < cursor
        BY <1>4 DEF Arrive
    <2>1. Buffers'
        BY DEF Buffers
    <2>2. Asked'
        BY DEF Asked, Buffers
    <2>. QED  BY <2>1, <2>2, SameParts DEF IInv
<1>5. ASSUME NEW i \in Standing, Read(pieces[i]) PROVE IInv'
    BY <1>5, ReadIs, AnswerIs DEF Read
<1>6. ASSUME NEW i \in Standing, Skip(pieces[i]) PROVE IInv'
    BY <1>6, SkipIs, AnswerIs DEF Skip
<1>7. CASE UNCHANGED vars
    <2>. UNCHANGED <<host, out, cursor, limit, pieces, p, end, answer>>
        BY <1>7 DEF vars
    <2>1. Buffers' /\ Asked'
        BY DEF Buffers, Asked
    <2>. QED  BY <2>1, SameParts DEF IInv
<1>. QED  BY <1>2, <1>3, <1>4, <1>5, <1>6, <1>7 DEF Next

------------------------------------------------------------------------------
(* The theorems. *)

\* The types hold in every state, nothing is stored behind the buffer in hand, and the
\* decoder stays within what arrived.
THEOREM TypeCorrect == Spec => []TypeOK
<1>1. IInv => TypeOK
    BY DEF IInv, Buffers, Asked, TypeOK
<1>. QED  BY <1>1, InitKeeps, NextKeeps, PTL DEF Spec

\* However a number was written and however its bytes arrive, it is read as it was once all
\* of them are there, and not before: every word, on either host.
THEOREM ReadAsWritten == Spec => []RoundTrip
<1>1. IInv => RoundTrip
    BY DEF IInv
<1>. QED  BY <1>1, InitKeeps, NextKeeps, PTL DEF Spec

\* The fast path, the windowed reader, the byte loop and the skip are one decoder, of every
\* varint that any writer may have put there.
THEOREM OneDecoder == Spec => []VerdictOfTheBytes
<1>1. IInv => VerdictOfTheBytes
    BY DEF IInv
<1>. QED  BY <1>1, InitKeeps, NextKeeps, PTL DEF Spec

\* Both encoders write every word in the fewest groups that hold it, and it keeps its bytes.
THEOREM WrittenCanonical == Spec => []Canonical
<1>. DEFINE Number(piece) ==
                IF piece.kind = "signed"
                THEN {0 : b \in piece.value \cap {63}} \cup
                     {b + 1 : b \in IF 63 \in piece.value THEN Bits \ piece.value ELSE piece.value}
                ELSE piece.value
            Fewest(piece, n, v) ==
                /\ piece.kind \in {"unsigned", "signed"} =>
                       /\ LastAt(piece.at, n) = {n} /\ GroupsAt(piece.at, n) = v
                       /\ n = 1 \/ v \cap (7 * (n - 1))..63 # {}
                /\ piece.kind = "fixed" =>
                       /\ n = 8
                       /\ v = UNION {{8 * i8 + b : b \in out[piece.at + i8]} : i8 \in 0..7}
<1>1. ASSUME Buffers, Laid, NEW i \in DOMAIN pieces,
             NEW n, n = Ends(i) - pieces[i].at, NEW v, v = Number(pieces[i])
      PROVE  Fewest(pieces[i], n, v)
    <2>1. PICK at \in Nat : at = pieces[i].at
        BY <1>1 DEF Laid, Numbered, Foreign
    <2>2. v = Meant(pieces[i]) /\ OnWire(pieces[i], n) /\ pieces[i] \in Numbered \cup Foreign
        BY <1>1 DEF Laid, Meant, Zigzag
    <2>3. CASE pieces[i].kind \in {"unsigned", "signed"}
        <3>1. v \in Word
            <4>1. pieces[i].value \in Word
                BY <2>2, <2>3 DEF Numbered, Foreign
            <4>. QED  BY <2>2, <2>3, <4>1, ZigzagAt DEF Meant
        <3>2. Has(v, n) /\ \A j \in 1..n : out[at + j - 1] = Marked(v, j, n)
            BY <2>1, <2>2, <2>3 DEF OnWire
        <3>3. /\ n \in 1..10 /\ GroupsAt(at, n) = v /\ First(at, n, n)
              /\ 7 \notin out[at + n - 1] /\ \A k \in 0..(n - 2) : 7 \in out[at + k]
            <4>1. /\ n \in 1..10 /\ GroupsAt(at, n) = v
                  /\ 7 \notin out[at + n - 1] /\ \A k \in 0..(n - 2) : 7 \in out[at + k]
                BY <3>1, <3>2, WireIs
            <4>2. First(at, n, n)
                BY <4>1 DEF First
            <4>. QED  BY <4>1, <4>2
        <3>4. Min(LastAt(at, n)) = n /\ LastAt(at, n) # {}
            BY <3>3, ExpectedIs
        <3>5. LastAt(at, n) = {n}
            <4>1. Min({n, VARINT_MAX_BYTES}) = n
                <5>1. VARINT_MAX_BYTES \in Int /\ n <= VARINT_MAX_BYTES /\ n \in Int
                    BY <3>3 DEF VARINT_MAX_BYTES
                <5>. QED  BY <5>1, MinOfTwo
            <4>2. LastAt(at, n) = {m \in 1..n : 7 \notin out[at + m - 1]}
                BY <4>1 DEF LastAt
            <4>3. ASSUME NEW m \in 1..n, m # n PROVE 7 \in out[at + m - 1]
                <5>1. m - 1 \in 0..(n - 2) /\ at + m - 1 = at + (m - 1)
                    BY <3>3, <4>3
                <5>. QED  BY <3>3, <5>1
            <4>4. n \in 1..n
                BY <3>3
            <4>. QED  BY <3>3, <4>2, <4>3, <4>4
        <3>6. n = 1 \/ v \cap (7 * (n - 1))..63 # {}
            <4>1. ASSUME NEW b \in v, b >= 7 * (n - 1) PROVE b \in (7 * (n - 1))..63
                BY <3>1, <3>3, <4>1 DEF Word, Bits
            <4>. QED  BY <3>2, <4>1 DEF Has
        <3>. QED  BY <2>1, <2>3, <3>3, <3>5, <3>6
    <2>4. CASE pieces[i].kind = "fixed"
        <3>1. v \in Word /\ n = 8 /\ \A j \in 0..7 : out[at + j] = Octet(v, j)
            BY <2>1, <2>2, <2>4 DEF OnWire, Numbered, Foreign, Meant
        <3>2. \A j \in 0..7 : {8 * j + b : b \in out[at + j]} = {x \in v : x \div 8 = j}
            <4>1. ASSUME NEW j \in 0..7, NEW x \in v, x \div 8 = j
                  PROVE  x \in {8 * j + b : b \in out[at + j]}
                <5>1. x % 8 \in 0..7 /\ x = 8 * j + (x % 8)
                    BY <3>1, <4>1 DEF Word, Bits
                <5>. QED  BY <3>1, <5>1 DEF Octet
            <4>2. ASSUME NEW j \in 0..7, NEW b \in out[at + j]
                  PROVE  8 * j + b \in v /\ (8 * j + b) \div 8 = j
                BY <3>1 DEF Octet
            <4>. QED  BY <4>1, <4>2
        <3>3. UNION {{8 * j + b : b \in out[at + j]} : j \in 0..7} = v
            <4>1. \A x \in v : x \div 8 \in 0..7
                BY <3>1 DEF Word, Bits
            <4>. QED  BY <3>2, <4>1
        <3>. QED  BY <2>1, <2>4, <3>1, <3>3
    <2>. QED  BY <2>3, <2>4
<1>2. ASSUME IInv PROVE Canonical
    <2>. SUFFICES ASSUME NEW i \in DOMAIN pieces
                  PROVE  Fewest(pieces[i], Ends(i) - pieces[i].at, Number(pieces[i]))
        BY DEF Canonical
    <2>. HIDE DEF Fewest, Number
    <2>. QED  BY <1>1, <1>2 DEF IInv
<1>. QED  BY <1>2, InitKeeps, NextKeeps, PTL DEF Spec
=============================================================================

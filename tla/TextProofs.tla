----------------------------- MODULE TextProofs -----------------------------
(* What holds of strings, for every capacity, every payload and every way of   *)
(* cutting it: the validator accepts what is UTF-8 and nothing else.           *)
EXTENDS Text, DataInduction

------------------------------------------------------------------------------
(* One byte. *)

\* An edge is where the automaton goes, for only one leads on from a state.
LEMMA EdgeIsStep ==
    ASSUME NEW t \in State, NEW b \in Byte, NEW next, Edge(t, b, next)
    PROVE  Step(t, b) = next /\ next \in State
<1>1. next \in State
    BY DEF Edge, State, AfterED
<1>2. ASSUME NEW other, Edge(t, b, other) PROVE other = next
    BY <1>2 DEF Edge, State, AfterED
<1>3. (CHOOSE n \in State : Edge(t, b, n)) = next
    BY <1>1, <1>2
<1>. QED  BY <1>1, <1>3 DEF Step, utf8Dfa

\* Where there is none, it rejects.
LEMMA NoEdge ==
    ASSUME NEW t \in State, NEW b \in Byte, \A next \in State : ~Edge(t, b, next)
    PROVE  Step(t, b) = UTF8_REJECT
BY DEF Step, utf8Dfa

\* Where the automaton goes from a state in which no sequence is open.
LEMMA Leading ==
    ASSUME NEW b \in Byte
    PROVE  /\ Step(0, b) \in State
           /\ Step(0, b) = 0 <=> (0 <= b /\ b <= 127)
           /\ Step(0, b) = 24 <=> (194 <= b /\ b <= 223)
           /\ Step(0, b) = 36 <=> (225 <= b /\ b <= 239) /\ b # 237
           /\ Step(0, b) = 48 <=> b = 224
           /\ Step(0, b) = 60 <=> b = 237
           /\ Step(0, b) = 72 <=> b = 240
           /\ Step(0, b) = 84 <=> (241 <= b /\ b <= 243)
           /\ Step(0, b) = 96 <=> b = 244
<1>. 0 \in State /\ UTF8_REJECT \in State
    BY DEF State, UTF8_REJECT
<1>. DEFINE on == b \in 0..127 \/ b \in 194..244
<1>1. CASE on
    <2>1. \E next : Edge(0, b, next)
        BY <1>1 DEF Edge
    <2>2. PICK next : Edge(0, b, next)
        BY <2>1
    <2>3. Step(0, b) = next /\ next \in State
        BY <2>2, EdgeIsStep
    <2>. QED  BY <1>1, <2>2, <2>3 DEF Edge, Byte
<1>2. CASE ~on
    <2>1. Step(0, b) = UTF8_REJECT
        BY <1>2, NoEdge DEF Edge
    <2>. QED  BY <1>2, <2>1 DEF UTF8_REJECT, Byte
<1>. QED  BY <1>1, <1>2

\* Where it goes within one.
LEMMA Following ==
    ASSUME NEW b \in Byte
    PROVE  /\ Step(12, b) = 12
           /\ Step(24, b) = IF (128 <= b /\ b <= 191) THEN 0 ELSE 12
           /\ Step(36, b) = IF (128 <= b /\ b <= 191) THEN 24 ELSE 12
           /\ Step(48, b) = IF (160 <= b /\ b <= 191) THEN 24 ELSE 12
           /\ Step(60, b) = IF (128 <= b /\ b <= 159) THEN 24 ELSE 12
           /\ Step(72, b) = IF (144 <= b /\ b <= 191) THEN 36 ELSE 12
           /\ Step(84, b) = IF (128 <= b /\ b <= 191) THEN 36 ELSE 12
           /\ Step(96, b) = IF (128 <= b /\ b <= 143) THEN 36 ELSE 12
<1>1. Step(12, b) = 12
    BY NoEdge DEF Edge, UTF8_REJECT, State
<1>2. /\ b \in 128..191 => Edge(24, b, 0)
      /\ b \in 128..191 => Edge(36, b, 24)
      /\ b \in 160..191 => Edge(48, b, 24)
      /\ b \in 128..159 => Edge(60, b, 24)
      /\ b \in 144..191 => Edge(72, b, 36)
      /\ b \in 128..191 => Edge(84, b, 36)
      /\ b \in 128..143 => Edge(96, b, 36)
    BY DEF Edge, AfterED
<1>3. ASSUME NEW next
      PROVE  /\ Edge(24, b, next) => (128 <= b /\ b <= 191)
             /\ Edge(36, b, next) => (128 <= b /\ b <= 191)
             /\ Edge(48, b, next) => (160 <= b /\ b <= 191)
             /\ Edge(60, b, next) => (128 <= b /\ b <= 159)
             /\ Edge(72, b, next) => (144 <= b /\ b <= 191)
             /\ Edge(84, b, next) => (128 <= b /\ b <= 191)
             /\ Edge(96, b, next) => (128 <= b /\ b <= 143)
    BY DEF Edge, AfterED
<1>4. /\ 24 \in State /\ 36 \in State /\ 48 \in State /\ 60 \in State
      /\ 72 \in State /\ 84 \in State /\ 96 \in State
    BY DEF State
<1>5. /\ (128 <= b /\ b <= 191) => Step(24, b) = 0
      /\ (128 <= b /\ b <= 191) => Step(36, b) = 24
      /\ (160 <= b /\ b <= 191) => Step(48, b) = 24
      /\ (128 <= b /\ b <= 159) => Step(60, b) = 24
      /\ (144 <= b /\ b <= 191) => Step(72, b) = 36
      /\ (128 <= b /\ b <= 191) => Step(84, b) = 36
      /\ (128 <= b /\ b <= 143) => Step(96, b) = 36
    BY <1>2, <1>4, EdgeIsStep DEF Byte
<1>6. /\ ~(128 <= b /\ b <= 191) => Step(24, b) = 12
      /\ ~(128 <= b /\ b <= 191) => Step(36, b) = 12
      /\ ~(160 <= b /\ b <= 191) => Step(48, b) = 12
      /\ ~(128 <= b /\ b <= 159) => Step(60, b) = 12
      /\ ~(144 <= b /\ b <= 191) => Step(72, b) = 12
      /\ ~(128 <= b /\ b <= 191) => Step(84, b) = 12
      /\ ~(128 <= b /\ b <= 143) => Step(96, b) = 12
    BY <1>3, <1>4, NoEdge DEF UTF8_REJECT
<1>. QED  BY <1>1, <1>5, <1>6

\* The states are those of the table.
LEMMA StepsAreStates ==
    ASSUME NEW t \in State, NEW b \in Byte
    PROVE  Step(t, b) \in State
BY Leading, Following DEF State

\* Which states lead to one within a sequence.
LEMMA Before ==
    ASSUME NEW t \in State, NEW b \in Byte, t # 0
    PROVE  /\ Step(t, b) = 0 => t = 24
           /\ Step(t, b) = 24 => t \in {36, 48, 60}
           /\ Step(t, b) = 36 => t \in {72, 84, 96}
           /\ Step(t, b) \in {0, 12, 24, 36}
BY Following DEF State

\* A byte continues a sequence exactly where one is open.
LEMMA ContinuesOpen ==
    ASSUME NEW t \in State, NEW b \in Byte, Step(t, b) # UTF8_REJECT
    PROVE  t = UTF8_ACCEPT <=> ~(b \div 64 = 2)
<1>1. b \div 64 = 2 <=> (128 <= b /\ b <= 191)
    BY DEF Byte
<1>2. CASE t = 0
    <2>1. Step(0, b) # 12 /\ Step(0, b) \in State
        BY <1>2, Leading DEF UTF8_REJECT
    <2>2. b <= 127 \/ b >= 194
        BY <2>1, Leading DEF State, Byte
    <2>. QED  BY <1>1, <1>2, <2>2 DEF UTF8_ACCEPT, Byte
<1>3. CASE t # 0
    <2>1. 128 <= b /\ b <= 191
        BY <1>3, Following DEF State, UTF8_REJECT, Byte
    <2>. QED  BY <1>1, <1>3, <2>1 DEF UTF8_ACCEPT
<1>. QED  BY <1>2, <1>3

------------------------------------------------------------------------------
(* One character. *)

\* A text is of bytes.
LEMMA BytesAre ==
    ASSUME NEW s \in Seq(Byte), NEW i \in 1..Len(s)
    PROVE  s[i] \in Byte /\ s[i] \in Nat /\ s[i] <= 255
<1>1. PICK b : b = s[i]
    OBVIOUS
<1>2. b \in Byte
    BY <1>1
<1>3. b \in Nat /\ b <= 255
    BY <1>2 DEF Byte
<1>. QED  BY <1>1, <1>2, <1>3

\* The digit in a byte, and when the byte is no more than its digit behind a mark.
LEMMA DigitOf ==
    ASSUME NEW b \in Nat, b <= 255
    PROVE  /\ b % 64 \in Nat /\ b % 64 <= 63
           /\ b = 128 + (b % 64) <=> 128 <= b /\ b <= 191
           /\ b % 32 \in Nat /\ b % 32 <= 31
           /\ b = 192 + (b % 32) <=> 192 <= b /\ b <= 223
           /\ b % 16 \in Nat /\ b % 16 <= 15
           /\ b = 224 + (b % 16) <=> 224 <= b /\ b <= 239
           /\ b % 8 \in Nat /\ b % 8 <= 7
           /\ b = 240 + (b % 8) <=> 240 <= b /\ b <= 247
BY SMT

\* One byte.
LEMMA OneByte ==
    ASSUME NEW s \in Seq(Byte), Len(s) = 1
    PROVE  Character(s) <=> Step(0, s[1]) = 0
<1>1. PICK a : a = s[1]
    OBVIOUS
<1>2. a \in Byte /\ a \in Nat /\ a <= 255
    <2>1. 1 \in 1..Len(s)
        OBVIOUS
    <2>. QED  BY <1>1, <2>1, BytesAre
<1>3. CodePoint(s) = a
    BY <1>1, SMT DEF CodePoint
<1>4. Encodes(s, a) <=> a <= 127
    BY <1>1, <1>2, SMT DEF Encodes
<1>5. a <= 127 => Scalar(a)
    BY <1>2, SMT DEF Scalar
<1>6. Step(0, a) = 0 <=> a <= 127
    BY <1>2, Leading
<1>7. Character(s) <=> a <= 127
    BY <1>3, <1>4, <1>5 DEF Character
<1>. QED  BY <1>1, <1>6, <1>7

\* Two bytes.
LEMMA TwoBytes ==
    ASSUME NEW s \in Seq(Byte), Len(s) = 2
    PROVE  Character(s) <=> Step(0, s[1]) = 24 /\ Step(24, s[2]) = 0
<1>1. PICK a : a = s[1]
    OBVIOUS
<1>2. PICK b : b = s[2]
    OBVIOUS
<1>3. a \in Byte /\ a \in Nat /\ a <= 255 /\ b \in Byte /\ b \in Nat /\ b <= 255
    <2>1. 1 \in 1..Len(s) /\ 2 \in 1..Len(s)
        OBVIOUS
    <2>. QED  BY <1>1, <1>2, <2>1, BytesAre
<1>4. PICK w : w = a % 32
    OBVIOUS
<1>5. PICK z : z = b % 64
    OBVIOUS
<1>6. /\ w \in Nat /\ w <= 31 /\ (a = 192 + w <=> 192 <= a /\ a <= 223)
      /\ z \in Nat /\ z <= 63 /\ (b = 128 + z <=> 128 <= b /\ b <= 191)
    BY <1>3, <1>4, <1>5, DigitOf
<1>7. PICK c \in Nat : c = 64 * w + z
    BY <1>6, SMT
<1>8. CodePoint(s) = c
    BY <1>1, <1>2, <1>4, <1>5, <1>7, SMT DEF CodePoint
<1>9. c \div 64 = w /\ (c \div 1) % 64 = z
    BY <1>6, <1>7, SMT
<1>10. Scalar(c) /\ (128 <= c <=> w >= 2) /\ c <= 2047
    BY <1>6, <1>7, SMT DEF Scalar
<1>11. Encodes(s, c) <=> w >= 2 /\ a = 192 + w /\ b = 128 + z
    BY <1>1, <1>2, <1>7, <1>9, <1>10, SMT DEF Encodes
<1>12. Character(s) <=> 194 <= a /\ a <= 223 /\ 128 <= b /\ b <= 191
    BY <1>3, <1>6, <1>8, <1>10, <1>11 DEF Character
<1>13. Step(0, a) = 24 <=> 194 <= a /\ a <= 223
    BY <1>3, Leading
<1>14. Step(24, b) = 0 <=> 128 <= b /\ b <= 191
    BY <1>3, Following
<1>. QED  BY <1>1, <1>2, <1>12, <1>13, <1>14

\* Three bytes.
LEMMA ThreeBytes ==
    ASSUME NEW s \in Seq(Byte), Len(s) = 3
    PROVE  Character(s) <=> /\ Step(0, s[1]) \in {36, 48, 60}
                            /\ Step(Step(0, s[1]), s[2]) = 24 /\ Step(24, s[3]) = 0
<1>1. PICK a : a = s[1]
    OBVIOUS
<1>2. PICK b : b = s[2]
    OBVIOUS
<1>3. PICK d : d = s[3]
    OBVIOUS
<1>4. /\ a \in Byte /\ a \in Nat /\ a <= 255 /\ b \in Byte /\ b \in Nat /\ b <= 255
      /\ d \in Byte /\ d \in Nat /\ d <= 255
    <2>1. 1 \in 1..Len(s) /\ 2 \in 1..Len(s) /\ 3 \in 1..Len(s)
        OBVIOUS
    <2>. QED  BY <1>1, <1>2, <1>3, <2>1, BytesAre
<1>5. PICK w : w = a % 16
    OBVIOUS
<1>6. PICK y : y = b % 64
    OBVIOUS
<1>7. PICK z : z = d % 64
    OBVIOUS
<1>8. /\ w \in Nat /\ w <= 15 /\ (a = 224 + w <=> 224 <= a /\ a <= 239)
      /\ y \in Nat /\ y <= 63 /\ (b = 128 + y <=> 128 <= b /\ b <= 191)
      /\ z \in Nat /\ z <= 63 /\ (d = 128 + z <=> 128 <= d /\ d <= 191)
    BY <1>4, <1>5, <1>6, <1>7, DigitOf
<1>9. PICK c \in Nat : c = 4096 * w + 64 * y + z
    BY <1>8, SMT
<1>10. /\ c \in Nat /\ (c \div 1) % 64 = z /\ (c \div 64) % 64 = y /\ c \div 4096 = w
    <2>1. c \div 64 = 64 * w + y /\ c \div 4096 = w /\ (c \div 1) % 64 = z
        BY <1>8, <1>9, SMT
    <2>2. (64 * w + y) % 64 = y
        BY <1>8, SMT
    <2>. QED  BY <2>1, <2>2, SMT
<1>11. CodePoint(s) = c
    BY <1>1, <1>2, <1>3, <1>5, <1>6, <1>7, <1>9, SMT DEF CodePoint
<1>12. /\ c <= 65535 /\ (2048 <= c <=> w >= 1 \/ y >= 32)
       /\ Scalar(c) <=> ~(w = 13 /\ y >= 32)
    BY <1>8, <1>9, <1>10, SMT DEF Scalar
<1>13. Encodes(s, c) <=> 2048 <= c /\ a = 224 + w /\ b = 128 + y /\ d = 128 + z
    BY <1>1, <1>2, <1>3, <1>10, <1>12, SMT DEF Encodes
<1>14. Character(s) <=> /\ 224 <= a /\ a <= 239 /\ 128 <= b /\ b <= 191 /\ 128 <= d /\ d <= 191
                        /\ (w >= 1 \/ y >= 32) /\ ~(w = 13 /\ y >= 32)
    BY <1>4, <1>8, <1>11, <1>12, <1>13 DEF Character
<1>15. Character(s) <=> /\ 224 <= a /\ a <= 239 /\ 128 <= b /\ b <= 191 /\ 128 <= d /\ d <= 191
                        /\ (a = 224 => 160 <= b) /\ (a = 237 => b <= 159)
    BY <1>4, <1>8, <1>14, SMT
<1>16. Step(24, d) = 0 <=> 128 <= d /\ d <= 191
    BY <1>4, Following
<1>17. /\ Step(0, a) = 36 <=> (225 <= a /\ a <= 239) /\ a # 237
       /\ Step(0, a) = 48 <=> a = 224
       /\ Step(0, a) = 60 <=> a = 237
    BY <1>4, Leading
<1>18. /\ Step(36, b) = 24 <=> 128 <= b /\ b <= 191
       /\ Step(48, b) = 24 <=> 160 <= b /\ b <= 191
       /\ Step(60, b) = 24 <=> 128 <= b /\ b <= 159
    BY <1>4, Following
<1>19. /\ Step(0, a) \in {36, 48, 60} <=> 224 <= a /\ a <= 239
       /\ 224 <= a /\ a <= 239 =>
            (Step(Step(0, a), b) = 24 <=> /\ 128 <= b /\ b <= 191
                                          /\ (a = 224 => 160 <= b) /\ (a = 237 => b <= 159))
    BY <1>4, <1>17, <1>18
<1>. QED  BY <1>1, <1>2, <1>3, <1>15, <1>16, <1>19

\* Four bytes.
LEMMA FourBytes ==
    ASSUME NEW s \in Seq(Byte), Len(s) = 4
    PROVE  Character(s) <=> /\ Step(0, s[1]) \in {72, 84, 96}
                            /\ Step(Step(0, s[1]), s[2]) = 36
                            /\ Step(36, s[3]) = 24 /\ Step(24, s[4]) = 0
<1>1. PICK a : a = s[1]
    OBVIOUS
<1>2. PICK b : b = s[2]
    OBVIOUS
<1>3. PICK d : d = s[3]
    OBVIOUS
<1>4. PICK e : e = s[4]
    OBVIOUS
<1>5. /\ a \in Byte /\ a \in Nat /\ a <= 255 /\ b \in Byte /\ b \in Nat /\ b <= 255
      /\ d \in Byte /\ d \in Nat /\ d <= 255 /\ e \in Byte /\ e \in Nat /\ e <= 255
    <2>1. 1 \in 1..Len(s) /\ 2 \in 1..Len(s) /\ 3 \in 1..Len(s) /\ 4 \in 1..Len(s)
        OBVIOUS
    <2>. QED  BY <1>1, <1>2, <1>3, <1>4, <2>1, BytesAre
<1>6. PICK w : w = a % 8
    OBVIOUS
<1>7. PICK x : x = b % 64
    OBVIOUS
<1>8. PICK y : y = d % 64
    OBVIOUS
<1>9. PICK z : z = e % 64
    OBVIOUS
<1>10. /\ w \in Nat /\ w <= 7 /\ (a = 240 + w <=> 240 <= a /\ a <= 247)
       /\ x \in Nat /\ x <= 63 /\ (b = 128 + x <=> 128 <= b /\ b <= 191)
       /\ y \in Nat /\ y <= 63 /\ (d = 128 + y <=> 128 <= d /\ d <= 191)
       /\ z \in Nat /\ z <= 63 /\ (e = 128 + z <=> 128 <= e /\ e <= 191)
    BY <1>5, <1>6, <1>7, <1>8, <1>9, DigitOf
<1>11. PICK c \in Nat : c = 262144 * w + 4096 * x + 64 * y + z
    BY <1>10, SMT
<1>12. /\ c \in Nat /\ (c \div 1) % 64 = z /\ (c \div 64) % 64 = y
       /\ (c \div 4096) % 64 = x /\ c \div 262144 = w
    <2>1. c \div 64 = 4096 * w + 64 * x + y /\ c \div 4096 = 64 * w + x
        BY <1>10, <1>11, SMT
    <2>2. (4096 * w + 64 * x + y) % 64 = y /\ (64 * w + x) % 64 = x
        BY <1>10, SMT
    <2>3. c \div 262144 = w /\ (c \div 1) % 64 = z
        BY <1>10, <1>11, SMT
    <2>. QED  BY <2>1, <2>2, <2>3, SMT
<1>13. CodePoint(s) = c
    BY <1>1, <1>2, <1>3, <1>4, <1>6, <1>7, <1>8, <1>9, <1>11, SMT DEF CodePoint
<1>14. /\ c > 65535 <=> w >= 1 \/ x >= 16
       /\ w >= 1 \/ x >= 16 => (Scalar(c) <=> w <= 3 \/ (w = 4 /\ x <= 15))
    BY <1>10, <1>12, <1>11, SMT DEF Scalar
<1>15. Encodes(s, c) <=> /\ c > 65535 /\ a = 240 + w
                         /\ b = 128 + x /\ d = 128 + y /\ e = 128 + z
    BY <1>1, <1>2, <1>3, <1>4, <1>12, SMT DEF Encodes
<1>16. Character(s) <=> /\ 240 <= a /\ a <= 247 /\ 128 <= b /\ b <= 191
                        /\ 128 <= d /\ d <= 191 /\ 128 <= e /\ e <= 191
                        /\ (w >= 1 \/ x >= 16) /\ (w <= 3 \/ (w = 4 /\ x <= 15))
    BY <1>5, <1>10, <1>13, <1>14, <1>15 DEF Character
<1>17. Character(s) <=> /\ 240 <= a /\ a <= 244 /\ 128 <= b /\ b <= 191
                        /\ 128 <= d /\ d <= 191 /\ 128 <= e /\ e <= 191
                        /\ (a = 240 => 144 <= b) /\ (a = 244 => b <= 143)
    BY <1>5, <1>10, <1>16, SMT
<1>18. /\ Step(24, e) = 0 <=> 128 <= e /\ e <= 191
       /\ Step(36, d) = 24 <=> 128 <= d /\ d <= 191
    BY <1>5, Following
<1>19. /\ Step(0, a) = 72 <=> a = 240
       /\ Step(0, a) = 84 <=> (241 <= a /\ a <= 243)
       /\ Step(0, a) = 96 <=> a = 244
    BY <1>5, Leading
<1>20. /\ Step(72, b) = 36 <=> 144 <= b /\ b <= 191
       /\ Step(84, b) = 36 <=> 128 <= b /\ b <= 191
       /\ Step(96, b) = 36 <=> 128 <= b /\ b <= 143
    BY <1>5, Following
<1>21. /\ Step(0, a) \in {72, 84, 96} <=> 240 <= a /\ a <= 244
       /\ 240 <= a /\ a <= 244 =>
            (Step(Step(0, a), b) = 36 <=> /\ 128 <= b /\ b <= 191
                                          /\ (a = 240 => 144 <= b) /\ (a = 244 => b <= 143))
    BY <1>5, <1>19, <1>20
<1>. QED  BY <1>1, <1>2, <1>3, <1>4, <1>17, <1>18, <1>21

------------------------------------------------------------------------------
(* A text. *)

\* The state behind each of the bytes follows from the one before it.
LEMMA AfterSteps ==
    ASSUME NEW t \in State, NEW d \in Seq(Byte)
    PROVE  /\ After(t, d) \in [0..Len(d) -> State]
           /\ After(t, d)[0] = t
           /\ \A i \in 1..Len(d) : After(t, d)[i] = Step(After(t, d)[i - 1], d[i])
<1>1. PICK n \in Nat : n = Len(d)
    OBVIOUS
<1>2. \A i \in 1..n : d[i] \in Byte
    BY <1>1
<1>3. PICK step : step = [a \in State \X (1..n) |-> Step(a[1], d[a[2]])]
    OBVIOUS
<1>4. step \in [State \X (1..n) -> State]
    BY <1>2, <1>3, StepsAreStates
<1>5. PICK f \in [0..n -> State] : Recursive(f, n, t, step)
    BY <1>4, RecursionExists
<1>6. \A i \in 1..n : f[i] = Step(f[i - 1], d[i])
    <2>. SUFFICES ASSUME NEW i \in 1..n PROVE f[i] = Step(f[i - 1], d[i])
        OBVIOUS
    <2>1. f[i - 1] \in State
        BY <1>5
    <2>. QED  BY <1>3, <1>5, <2>1 DEF Recursive
<1>7. f = [i \in 0..Len(d) |-> IF i = 0 THEN t ELSE Step(f[i - 1], d[i])]
    <2>1. ASSUME NEW i \in 0..n PROVE f[i] = IF i = 0 THEN t ELSE Step(f[i - 1], d[i])
        <3>1. i = 0 \/ i \in 1..n
            OBVIOUS
        <3>. QED  BY <1>5, <1>6, <3>1 DEF Recursive
    <2>. QED  BY <1>1, <1>5, <2>1
<1>8. PICK e : e = After(t, d)
    OBVIOUS
<1>9. e = [i \in 0..Len(d) |-> IF i = 0 THEN t ELSE Step(e[i - 1], d[i])]
    BY <1>7, <1>8 DEF After
<1>10. e[0] = t /\ \A i \in 1..n : e[i] = Step(e[i - 1], d[i])
    BY <1>1, <1>9
<1>11. 0..n \subseteq {i \in 0..n : e[i] \in State}
    <2>1. ASSUME NEW i \in 1..n, i - 1 \in {k \in 0..n : e[k] \in State}
          PROVE  i \in {k \in 0..n : e[k] \in State}
        <3>1. e[i - 1] \in State /\ d[i] \in Byte /\ i \in 0..n
            BY <1>2, <2>1
        <3>. QED  BY <1>10, <3>1, StepsAreStates
    <2>2. 0 \in {i \in 0..n : e[i] \in State}
        BY <1>10
    <2>. QED  BY <2>1, <2>2, IntervalInduction
<1>12. e \in [0..n -> State]
    BY <1>1, <1>9, <1>11
<1>. QED  BY <1>1, <1>8, <1>10, <1>12

\* What a text is made of, the automaton goes through as it does through the text.
LEMMA Within ==
    ASSUME NEW t \in State, NEW d \in Seq(Byte), NEW o \in 0..Len(d),
           NEW e \in Seq(Byte), o + Len(e) <= Len(d),
           \A k \in 1..Len(e) : e[k] = d[o + k]
    PROVE  \A k \in 0..Len(e) : After(After(t, d)[o], e)[k] = After(t, d)[o + k]
<1>1. PICK f : f = After(t, d)
    OBVIOUS
<1>2. PICK u : u = f[o]
    OBVIOUS
<1>3. PICK g : g = After(u, e)
    OBVIOUS
<1>4. PICK n \in Nat : n = Len(e)
    OBVIOUS
<1>5. /\ f \in [0..Len(d) -> State] /\ u \in State
      /\ \A i \in 1..Len(d) : f[i] = Step(f[i - 1], d[i])
    BY <1>1, <1>2, AfterSteps
<1>6. g[0] = u /\ \A k \in 1..n : g[k] = Step(g[k - 1], e[k])
    BY <1>3, <1>4, <1>5, AfterSteps
<1>7. PICK S : S = {k \in 0..n : g[k] = f[o + k]}
    OBVIOUS
<1>8. 0 \in S
    BY <1>2, <1>6, <1>7
<1>9. ASSUME NEW k \in 1..n, k - 1 \in S PROVE k \in S
    <2>1. o + k \in 1..Len(d) /\ (o + k) - 1 = o + (k - 1) /\ k \in 0..n
        BY <1>4
    <2>2. f[o + k] = Step(f[o + (k - 1)], d[o + k])
        BY <1>5, <2>1
    <2>3. g[k - 1] = f[o + (k - 1)] /\ e[k] = d[o + k]
        BY <1>4, <1>7, <1>9
    <2>. QED  BY <1>6, <1>7, <2>1, <2>2, <2>3
<1>10. 0..n \subseteq S
    BY <1>8, <1>9, IntervalInduction
<1>. QED  BY <1>1, <1>2, <1>3, <1>4, <1>7, <1>10

\* A part of a text.
LEMMA Part ==
    ASSUME NEW d \in Seq(Byte), NEW i \in 0..Len(d), NEW j \in i..Len(d),
           After(0, d)[i] = 0
    PROVE  /\ SubSeq(d, i + 1, j) \in Seq(Byte) /\ Len(SubSeq(d, i + 1, j)) = j - i
           /\ \A k \in 1..(j - i) : SubSeq(d, i + 1, j)[k] = d[i + k]
           /\ \A k \in 0..(j - i) : After(0, SubSeq(d, i + 1, j))[k] = After(0, d)[i + k]
           /\ utf8Advance(0, SubSeq(d, i + 1, j)) = After(0, d)[j]
<1>1. PICK e : e = SubSeq(d, i + 1, j)
    OBVIOUS
<1>2. /\ e \in Seq(Byte) /\ Len(e) = j - i
      /\ \A k \in 1..(j - i) : e[k] = d[i + k]
    BY <1>1
<1>3. 0 \in State /\ j - i \in 0..Len(e) /\ i + (j - i) = j /\ i + Len(e) <= Len(d)
    BY <1>2 DEF State
<1>4. \A k \in 0..Len(e) : After(0, e)[k] = After(0, d)[i + k]
    BY <1>2, <1>3, Within
<1>. QED  BY <1>1, <1>2, <1>3, <1>4 DEF utf8Advance

\* The pieces of a text, one after the other.
LEMMA Pieces ==
    ASSUME NEW d \in Seq(Byte), NEW e \in Seq(Byte)
    PROVE  utf8Advance(0, d \o e) = utf8Advance(utf8Advance(0, d), e)
<1>1. PICK w : w = d \o e
    OBVIOUS
<1>2. /\ w \in Seq(Byte) /\ Len(w) = Len(d) + Len(e)
      /\ \A k \in 1..Len(d) : d[k] = w[0 + k]
      /\ \A k \in 1..Len(e) : e[k] = w[Len(d) + k]
    BY <1>1
<1>3. /\ 0 \in State /\ Len(d) \in Nat /\ Len(e) \in Nat /\ 0 \in 0..Len(w) /\ Len(d) \in 0..Len(w)
      /\ 0 + Len(d) <= Len(w) /\ Len(d) + Len(e) <= Len(w)
    BY <1>2 DEF State
<1>4. After(0, w)[0] = 0
    BY <1>2, <1>3, AfterSteps
<1>5. \A k \in 0..Len(d) : After(After(0, w)[0], d)[k] = After(0, w)[0 + k]
    BY <1>2, <1>3, Within
<1>6. After(0, d)[Len(d)] = After(0, w)[Len(d)]
    BY <1>3, <1>4, <1>5
<1>7. \A k \in 0..Len(e) : After(After(0, w)[Len(d)], e)[k] = After(0, w)[Len(d) + k]
    BY <1>2, <1>3, Within
<1>8. After(After(0, w)[Len(d)], e)[Len(e)] = After(0, w)[Len(d) + Len(e)]
    BY <1>3, <1>7
<1>. QED  BY <1>1, <1>2, <1>6, <1>8 DEF utf8Advance

\* What was rejected once stays so.
LEMMA RejectedStays ==
    ASSUME NEW d \in Seq(Byte), NEW i \in 0..Len(d), After(0, d)[i] = UTF8_REJECT
    PROVE  After(0, d)[Len(d)] = UTF8_REJECT
<1>1. PICK f : f = After(0, d)
    OBVIOUS
<1>2. PICK n \in Nat : n = Len(d)
    OBVIOUS
<1>3. 0 \in State /\ \A k \in 1..n : d[k] \in Byte
    BY <1>2 DEF State
<1>4. \A k \in 1..n : f[k] = Step(f[k - 1], d[k])
    BY <1>1, <1>2, <1>3, AfterSteps
<1>5. PICK S : S = {k \in 0..n : k >= i => f[k] = 12}
    OBVIOUS
<1>6. f[i] = 12 /\ i \in 0..n
    BY <1>1, <1>2 DEF UTF8_REJECT
<1>7. 0 \in S
    BY <1>5, <1>6
<1>8. ASSUME NEW k \in 1..n, k - 1 \in S PROVE k \in S
    <2>1. k - 1 \in 0..n /\ k \in 0..n /\ i \in 0..n /\ (k >= i => k - 1 >= i \/ k = i)
        BY <1>2
    <2>2. k - 1 >= i => f[k] = 12
        <3>1. k - 1 >= i => f[k - 1] = 12
            BY <1>5, <1>8
        <3>2. Step(12, d[k]) = 12
            BY <1>3, Following
        <3>. QED  BY <1>4, <3>1, <3>2
    <2>. QED  BY <1>5, <1>6, <2>1, <2>2
<1>9. 0..n \subseteq S
    BY <1>7, <1>8, IntervalInduction
<1>10. n \in S /\ n >= i
    BY <1>2, <1>9
<1>. QED  BY <1>1, <1>2, <1>5, <1>10 DEF UTF8_REJECT

------------------------------------------------------------------------------
(* Texts of characters. *)

\* A character is where the automaton accepts for the first time.
LEMMA FirstAccepted ==
    ASSUME NEW s \in Seq(Byte), Len(s) \in 1..4
    PROVE  Character(s) <=> /\ After(0, s)[Len(s)] = 0
                            /\ \A k \in 1..(Len(s) - 1) : After(0, s)[k] # 0
<1>1. PICK f : f = After(0, s)
    OBVIOUS
<1>2. PICK n : n = Len(s)
    OBVIOUS
<1>3. 0 \in State /\ n \in 1..4
    BY <1>2 DEF State
<1>4. /\ f \in [0..n -> State] /\ f[0] = 0
      /\ \A k \in 1..n : f[k] = Step(f[k - 1], s[k]) /\ s[k] \in Byte
    BY <1>1, <1>2, <1>3, AfterSteps
<1>5. f[1] = Step(0, s[1]) /\ s[1] \in Byte /\ f[1] \in State
    <2>1. 1 \in 1..n /\ 1 - 1 = 0 /\ 1 \in 0..n
        BY <1>3
    <2>. QED  BY <1>4, <2>1
<1>6. n >= 2 => f[2] = Step(f[1], s[2]) /\ s[2] \in Byte /\ f[2] \in State
    <2>1. n >= 2 => 2 \in 1..n /\ 2 - 1 = 1 /\ 2 \in 0..n
        BY <1>3
    <2>. QED  BY <1>4, <2>1
<1>7. n >= 3 => f[3] = Step(f[2], s[3]) /\ s[3] \in Byte /\ f[3] \in State
    <2>1. n >= 3 => 3 \in 1..n /\ 3 - 1 = 2 /\ 3 \in 0..n
        BY <1>3
    <2>. QED  BY <1>4, <2>1
<1>8. n >= 4 => f[4] = Step(f[3], s[4]) /\ s[4] \in Byte
    <2>1. n >= 4 => 4 \in 1..n /\ 4 - 1 = 3
        BY <1>3
    <2>. QED  BY <1>4, <2>1
<1>9. CASE n = 1
    <2>1. Character(s) <=> f[1] = 0
        BY <1>2, <1>5, <1>9, OneByte
    <2>2. 1..(n - 1) = {}
        BY <1>9
    <2>. QED  BY <1>1, <1>2, <1>9, <2>1, <2>2
<1>10. CASE n = 2
    <2>1. Character(s) <=> f[1] = 24 /\ Step(24, s[2]) = 0
        BY <1>2, <1>5, <1>10, TwoBytes
    <2>2. f[1] # 0 /\ f[2] = 0 => f[1] = 24
        BY <1>5, <1>6, <1>10, Before
    <2>3. Character(s) <=> f[2] = 0 /\ f[1] # 0
        BY <1>6, <1>10, <2>1, <2>2
    <2>4. 1..(n - 1) = {1}
        BY <1>10
    <2>. QED  BY <1>1, <1>2, <1>10, <2>3, <2>4
<1>11. CASE n = 3
    <2>1. Character(s) <=> f[1] \in {36, 48, 60} /\ f[2] = 24 /\ Step(24, s[3]) = 0
        <3>1. f[1] = Step(0, s[1]) /\ f[2] = Step(Step(0, s[1]), s[2])
            BY <1>5, <1>6, <1>11
        <3>. QED  BY <1>2, <1>11, <3>1, ThreeBytes
    <2>2. f[2] # 0 /\ f[3] = 0 => f[2] = 24
        BY <1>6, <1>7, <1>11, Before
    <2>3. f[1] # 0 /\ f[2] = 24 => f[1] \in {36, 48, 60}
        BY <1>5, <1>6, <1>11, Before
    <2>4. Character(s) <=> f[3] = 0 /\ f[1] # 0 /\ f[2] # 0
        BY <1>7, <1>11, <2>1, <2>2, <2>3
    <2>5. 1..(n - 1) = {1, 2}
        BY <1>11
    <2>. QED  BY <1>1, <1>2, <1>11, <2>4, <2>5
<1>12. CASE n = 4
    <2>1. Character(s) <=> /\ f[1] \in {72, 84, 96} /\ f[2] = 36
                           /\ Step(36, s[3]) = 24 /\ Step(24, s[4]) = 0
        <3>1. f[1] = Step(0, s[1]) /\ f[2] = Step(Step(0, s[1]), s[2])
            BY <1>5, <1>6, <1>12
        <3>. QED  BY <1>2, <1>12, <3>1, FourBytes
    <2>2. f[3] # 0 /\ f[4] = 0 => f[3] = 24
        BY <1>7, <1>8, <1>12, Before
    <2>3. f[2] # 0 /\ f[3] = 24 => f[2] \in {36, 48, 60}
        BY <1>6, <1>7, <1>12, Before
    <2>4. f[1] # 0 /\ f[2] \in {36, 48, 60} => f[1] \in {72, 84, 96} /\ f[2] = 36
        BY <1>5, <1>6, <1>12, Before
    <2>5. Character(s) <=> f[4] = 0 /\ f[1] # 0 /\ f[2] # 0 /\ f[3] # 0
        BY <1>7, <1>8, <1>12, <2>1, <2>2, <2>3, <2>4
    <2>6. 1..(n - 1) = {1, 2, 3}
        BY <1>12
    <2>. QED  BY <1>1, <1>2, <1>12, <2>5, <2>6
<1>. QED  BY <1>3, <1>9, <1>10, <1>11, <1>12

\* In a text that is accepted, no sequence is longer than four bytes.
LEMMA NextAccepted ==
    ASSUME NEW d \in Seq(Byte), After(0, d)[Len(d)] = 0,
           NEW i \in 0..(Len(d) - 1), After(0, d)[i] = 0
    PROVE  \E k \in 1..4 : /\ i + k <= Len(d) /\ After(0, d)[i + k] = 0
                           /\ \A m \in 1..(k - 1) : After(0, d)[i + m] # 0
<1>1. PICK f : f = After(0, d)
    OBVIOUS
<1>2. PICK n \in Nat : n = Len(d)
    OBVIOUS
<1>3. 0 \in State /\ f[n] = 0 /\ f[i] = 0 /\ i \in 0..(n - 1)
    BY <1>1, <1>2 DEF State
<1>4. /\ f \in [0..n -> State]
      /\ \A k \in 1..n : f[k] = Step(f[k - 1], d[k]) /\ d[k] \in Byte
    <2>1. f \in [0..n -> State] /\ \A k \in 1..n : f[k] = Step(f[k - 1], d[k])
        BY <1>1, <1>2, <1>3, AfterSteps
    <2>2. \A k \in 1..n : d[k] \in Byte
        BY <1>2
    <2>. QED  BY <2>1, <2>2
<1>5. \A k \in 0..n : f[k] # 12
    BY <1>1, <1>2, <1>3, RejectedStays DEF UTF8_REJECT
<1>6. \A k \in 0..(n - 1) : k + 1 \in 0..n /\ (k + 1) - 1 = k /\ k + 1 \in 1..n /\ k \in 0..n
    OBVIOUS
<1>7. \A k \in 0..(n - 1) : f[k + 1] = Step(f[k], d[k + 1]) /\ d[k + 1] \in Byte /\ f[k + 1] # 12
    BY <1>4, <1>5, <1>6
<1>8. \A k \in 0..(n - 1) : f[k] = 24 => f[k + 1] = 0
    BY <1>7, Following
<1>9. \A k \in 0..(n - 1) : f[k] \in {36, 48, 60} => f[k + 1] = 24
    BY <1>7, Following
<1>10. \A k \in 0..(n - 1) : f[k] \in {72, 84, 96} => f[k + 1] = 36
    BY <1>7, Following
<1>11. f[i + 1] \in State /\ f[i + 1] # 12 /\ i + 1 \in 0..n
    BY <1>3, <1>4, <1>5, <1>6
<1>12. CASE f[i + 1] = 0
    <2>1. 1..(1 - 1) = {} /\ i + 1 <= n
        BY <1>3
    <2>. QED  BY <1>1, <1>2, <1>12, <2>1
<1>13. CASE f[i + 1] = 24
    <2>1. i + 1 \in 0..(n - 1) /\ i + 2 = (i + 1) + 1 /\ i + 2 <= n
        BY <1>3, <1>11, <1>13
    <2>2. f[i + 2] = 0
        BY <1>8, <1>13, <2>1
    <2>3. 1..(2 - 1) = {1}
        OBVIOUS
    <2>. QED  BY <1>1, <1>2, <1>13, <2>1, <2>2, <2>3
<1>14. CASE f[i + 1] \in {36, 48, 60}
    <2>1. i + 1 \in 0..(n - 1) /\ i + 2 = (i + 1) + 1 /\ i + 2 <= n
        BY <1>3, <1>11, <1>14
    <2>2. f[i + 2] = 24
        BY <1>9, <1>14, <2>1
    <2>3. i + 2 \in 0..(n - 1) /\ i + 3 = (i + 2) + 1 /\ i + 3 <= n
        BY <1>3, <2>1, <2>2
    <2>4. f[i + 3] = 0
        BY <1>8, <2>2, <2>3
    <2>5. 1..(3 - 1) = {1, 2}
        OBVIOUS
    <2>. QED  BY <1>1, <1>2, <1>14, <2>2, <2>3, <2>4, <2>5
<1>15. CASE f[i + 1] \in {72, 84, 96}
    <2>1. i + 1 \in 0..(n - 1) /\ i + 2 = (i + 1) + 1 /\ i + 2 <= n
        BY <1>3, <1>11, <1>15
    <2>2. f[i + 2] = 36
        BY <1>10, <1>15, <2>1
    <2>3. i + 2 \in 0..(n - 1) /\ i + 3 = (i + 2) + 1 /\ i + 3 <= n
        BY <1>3, <2>1, <2>2
    <2>4. f[i + 3] = 24
        BY <1>9, <2>2, <2>3
    <2>5. i + 3 \in 0..(n - 1) /\ i + 4 = (i + 3) + 1 /\ i + 4 <= n
        BY <1>3, <2>3, <2>4
    <2>6. f[i + 4] = 0
        BY <1>8, <2>4, <2>5
    <2>7. 1..(4 - 1) = {1, 2, 3}
        OBVIOUS
    <2>. QED  BY <1>1, <1>2, <1>15, <2>2, <2>4, <2>5, <2>6, <2>7
<1>. QED  BY <1>11, <1>12, <1>13, <1>14, <1>15 DEF State

\* A text is UTF-8 exactly if the automaton accepts it.
LEMMA AcceptedIsWellFormed ==
    ASSUME NEW s \in Seq(Byte)
    PROVE  WellFormed(s) <=> utf8Advance(0, s) = 0
<1>1. PICK f : f = After(0, s)
    OBVIOUS
<1>2. PICK n \in Nat : n = Len(s)
    OBVIOUS
<1>3. f[0] = 0
    BY <1>1, AfterSteps DEF State
<1>4. ASSUME WellFormed(s) PROVE f[n] = 0
    <2>1. PICK inner \in SUBSET (1..(n - 1)) :
              \A i \in (inner \cup {0, n}) \ {n} : \E k \in 1..4 :
                  i + k \in (inner \cup {0, n}) /\ Character(SubSeq(s, i + 1, i + k))
        BY <1>2, <1>4 DEF WellFormed
    <2>2. PICK cuts : cuts = inner \cup {0, n}
        OBVIOUS
    <2>3. cuts \subseteq 0..n /\ 0 \in cuts
        BY <2>1, <2>2
    <2>4. PICK S : S = {i \in 0..n : \E c \in cuts : i <= c /\ f[c] = 0}
        OBVIOUS
    <2>5. 0 \in S
        BY <1>3, <2>3, <2>4
    <2>6. ASSUME NEW i \in 1..n, i - 1 \in S PROVE i \in S
        <3>1. PICK c \in cuts : i - 1 <= c /\ f[c] = 0
            BY <2>4, <2>6
        <3>2. CASE i <= c
            BY <2>4, <3>1, <3>2
        <3>3. CASE ~(i <= c)
            <4>1. c \in 0..(n - 1) /\ c = i - 1
                BY <2>3, <3>1, <3>3
            <4>2. PICK k \in 1..4 : c + k \in cuts /\ Character(SubSeq(s, c + 1, c + k))
                BY <2>1, <2>2, <4>1
            <4>3. PICK j \in cuts : j = c + k
                BY <4>2
            <4>4. j \in c..n /\ j - c = k /\ c \in 0..n /\ i <= j
                BY <2>3, <4>1, <4>2, <4>3
            <4>5. PICK e : e = SubSeq(s, c + 1, j)
                OBVIOUS
            <4>6. e \in Seq(Byte) /\ Len(e) = k /\ utf8Advance(0, e) = f[j]
                BY <1>1, <1>2, <3>1, <4>4, <4>5, Part
            <4>7. After(0, e)[Len(e)] = 0
                BY <4>2, <4>3, <4>5, <4>6, FirstAccepted
            <4>8. f[j] = 0
                BY <4>6, <4>7 DEF utf8Advance
            <4>. QED  BY <2>4, <4>4, <4>8
        <3>. QED  BY <3>2, <3>3
    <2>7. 0..n \subseteq S
        BY <2>5, <2>6, IntervalInduction
    <2>8. PICK c \in cuts : n <= c /\ f[c] = 0
        <3>1. n \in S
            BY <2>7
        <3>. QED  BY <2>4, <3>1
    <2>. QED  BY <2>3, <2>8
<1>5. ASSUME f[n] = 0 PROVE WellFormed(s)
    <2>1. PICK inner : inner = {i \in 1..(n - 1) : f[i] = 0}
        OBVIOUS
    <2>2. PICK cuts : cuts = inner \cup {0, n}
        OBVIOUS
    <2>3. inner \in SUBSET (1..(n - 1))
        BY <2>1
    <2>4. \A i \in 0..n : i \in cuts <=> f[i] = 0
        BY <1>3, <1>5, <2>1, <2>2
    <2>5. ASSUME NEW i \in cuts \ {n}
          PROVE  \E k \in 1..4 : i + k \in cuts /\ Character(SubSeq(s, i + 1, i + k))
        <3>1. i \in 0..(n - 1) /\ f[i] = 0
            BY <1>3, <2>1, <2>2, <2>5
        <3>2. PICK k \in 1..4 : /\ i + k <= n /\ f[i + k] = 0
                                /\ \A m \in 1..(k - 1) : f[i + m] # 0
            BY <1>1, <1>2, <1>5, <3>1, NextAccepted
        <3>3. PICK j : j = i + k
            OBVIOUS
        <3>4. j \in i..n /\ i \in 0..n /\ j \in 0..n /\ j - i = k
            BY <3>1, <3>2, <3>3
        <3>5. PICK e : e = SubSeq(s, i + 1, j)
            OBVIOUS
        <3>6. /\ e \in Seq(Byte) /\ Len(e) = k
              /\ \A m \in 0..k : After(0, e)[m] = f[i + m]
            BY <1>1, <1>2, <3>1, <3>4, <3>5, Part
        <3>7. \A m \in 1..(k - 1) : m \in 0..k
            OBVIOUS
        <3>8. /\ After(0, e)[Len(e)] = 0
              /\ \A m \in 1..(Len(e) - 1) : After(0, e)[m] # 0
            BY <3>2, <3>6, <3>7
        <3>9. Character(e)
            BY <3>6, <3>8, FirstAccepted
        <3>10. j \in cuts
            BY <2>4, <3>2, <3>3, <3>4
        <3>. QED  BY <3>3, <3>5, <3>9, <3>10
    <2>. QED  BY <1>2, <2>2, <2>3, <2>5 DEF WellFormed
<1>. QED  BY <1>1, <1>2, <1>4, <1>5 DEF utf8Advance

------------------------------------------------------------------------------
(* The validator that skips ASCII. *)

\* The ends of a set of numbers between two others.
LEMMA EndsOfSet ==
    ASSUME NEW n \in Nat, NEW T, T \subseteq 0..n, T # {}
    PROVE  /\ Max(T) \in T /\ \A x \in T : x <= Max(T)
           /\ Min(T) \in T /\ \A x \in T : Min(T) <= x
<1>1. T \subseteq Nat
    OBVIOUS
<1>2. PICK low \in T : \A x \in T : low <= x
    BY <1>1, LeastElement
<1>3. PICK U : U = {n - x : x \in T}
    OBVIOUS
<1>4. U \subseteq Nat /\ U # {}
    BY <1>3
<1>5. PICK u \in U : \A x \in U : u <= x
    BY <1>4, LeastElement
<1>6. PICK high \in T : u = n - high
    BY <1>3, <1>5
<1>7. ASSUME NEW x \in T PROVE x <= high
    <2>1. n - x \in U /\ x \in Nat /\ high \in Nat /\ n - high <= n - x
        BY <1>1, <1>3, <1>5, <1>6
    <2>. QED  BY <2>1
<1>8. Max(T) \in T /\ \A x \in T : x <= Max(T)
    <2>1. \E m \in T : \A x \in T : m >= x
        BY <1>1, <1>7
    <2>. QED  BY <1>1, <2>1 DEF Max
<1>9. Min(T) \in T /\ \A x \in T : Min(T) <= x
    BY <1>2 DEF Min
<1>. QED  BY <1>8, <1>9

\* Over ASCII the automaton stays where it accepts.
LEMMA AsciiAccepted ==
    ASSUME NEW d \in Seq(Byte), NEW i \in 0..Len(d), After(0, d)[i] = 0,
           NEW j \in i..Len(d), \A k \in (i + 1)..j : d[k] < 128
    PROVE  After(0, d)[j] = 0
<1>1. PICK f : f = After(0, d)
    OBVIOUS
<1>2. PICK n \in Nat : n = Len(d)
    OBVIOUS
<1>3. \A k \in 1..n : f[k] = Step(f[k - 1], d[k])
    BY <1>1, <1>2, AfterSteps DEF State
<1>4. \A k \in 1..n : d[k] \in Byte
    BY <1>2
<1>5. PICK S : S = {k \in 0..n : i <= k /\ k <= j => f[k] = 0}
    OBVIOUS
<1>6. f[0] = 0
    BY <1>1, AfterSteps DEF State
<1>7. 0 \in S
    BY <1>5, <1>6
<1>8. ASSUME NEW k \in 1..n, k - 1 \in S PROVE k \in S
    <2>. SUFFICES ASSUME i <= k, k <= j PROVE f[k] = 0
        BY <1>5
    <2>1. CASE k = i
        BY <1>1, <2>1
    <2>2. CASE k # i
        <3>1. k \in (i + 1)..j /\ i <= k - 1 /\ k - 1 <= j
            BY <1>2, <2>2
        <3>2. f[k - 1] = 0 /\ d[k] < 128 /\ d[k] \in Byte
            BY <1>4, <1>5, <1>8, <3>1
        <3>3. PICK b \in Byte : b = d[k]
            BY <3>2
        <3>4. b < 128
            BY <3>2, <3>3
        <3>5. b \in Nat
            BY DEF Byte
        <3>6. 0 <= b /\ b <= 127
            BY <3>4, <3>5
        <3>. QED  BY <1>3, <3>2, <3>3, <3>6, Leading
    <2>. QED  BY <2>1, <2>2
<1>9. 0..n \subseteq S
    BY <1>7, <1>8, IntervalInduction
<1>10. j \in S /\ i <= j /\ j <= j
    BY <1>2, <1>9
<1>. QED  BY <1>1, <1>5, <1>10

\* How far the run goes.
LEMMA RunIsAscii ==
    ASSUME NEW d \in Seq(Byte), NEW i \in 0..Len(d)
    PROVE  /\ Words(d, i) \in i..Len(d) /\ \A k \in (i + 1)..Words(d, i) : d[k] < 128
           /\ Ascii(d, i) \in i..Len(d) /\ \A k \in (i + 1)..Ascii(d, i) : d[k] < 128
<1>1. PICK n \in Nat : n = Len(d)
    OBVIOUS
<1>2. PICK T : T = {j \in i..n : \A k \in (i + 1)..j : d[k] < 128}
    OBVIOUS
<1>3. PICK U : U = {j \in i..n : (j - i) % WORD = 0 /\ \A k \in (i + 1)..j : d[k] < 128}
    OBVIOUS
<1>4. i \in 0..n /\ i \in i..n /\ (i + 1)..i = {} /\ (i - i) % WORD = 0
    <2>1. (i - i) % WORD = 0
        BY TextAssumption
    <2>. QED  BY <1>1, <2>1
<1>5. T \subseteq 0..n /\ i \in T /\ U \subseteq 0..n /\ i \in U
    BY <1>2, <1>3, <1>4
<1>6. Max(T) \in T /\ Max(U) \in U
    BY <1>5, EndsOfSet
<1>7. Words(d, i) = Max(U) /\ Ascii(d, i) = Max(T)
    BY <1>1, <1>2, <1>3 DEF Words, Ascii
<1>. QED  BY <1>1, <1>2, <1>3, <1>6, <1>7

\* A turn gets on, to where the automaton accepts, unless the text is not accepted.
LEMMA TurnIs ==
    ASSUME NEW d \in Seq(Byte), NEW i \in 0..(Len(d) - 1), After(0, d)[i] = 0
    PROVE  \/ Turn(d, i) = Invalid /\ After(0, d)[Len(d)] # 0
           \/ Turn(d, i) \in (i + 1)..Len(d) /\ After(0, d)[Turn(d, i)] = 0
<1>1. PICK f : f = After(0, d)
    OBVIOUS
<1>2. PICK n \in Nat : n = Len(d)
    OBVIOUS
<1>3. PICK word : word = Words(d, i)
    OBVIOUS
<1>4. PICK begin : begin = Ascii(d, word)
    OBVIOUS
<1>5. word \in i..n /\ f[word] = 0
    <2>1. i \in 0..Len(d)
        OBVIOUS
    <2>. QED  BY <1>1, <1>2, <1>3, <2>1, RunIsAscii, AsciiAccepted
<1>6. begin \in word..n /\ f[begin] = 0
    <2>1. word \in 0..Len(d)
        BY <1>2, <1>5
    <2>. QED  BY <1>1, <1>2, <1>4, <1>5, <2>1, RunIsAscii, AsciiAccepted
<1>7. begin \in i..n /\ begin \in 0..n
    BY <1>2, <1>5, <1>6
<1>8. PICK stops : stops = {j \in (begin + 1)..n :
                              utf8Advance(0, SubSeq(d, begin + 1, j)) \in {0, 12}}
    OBVIOUS
<1>9. \A j \in (begin + 1)..n : utf8Advance(0, SubSeq(d, begin + 1, j)) = f[j]
    <2>. SUFFICES ASSUME NEW j \in (begin + 1)..n
                  PROVE  utf8Advance(0, SubSeq(d, begin + 1, j)) = f[j]
        OBVIOUS
    <2>1. j \in begin..Len(d) /\ begin \in 0..Len(d)
        BY <1>2, <1>7
    <2>. QED  BY <1>1, <1>6, <2>1, Part
<1>10. Turn(d, i) =
          IF begin = n THEN begin
          ELSE IF stops # {} /\ utf8Advance(0, SubSeq(d, begin + 1, Min(stops))) = 0
          THEN Min(stops) ELSE Invalid
    BY <1>2, <1>3, <1>4, <1>8 DEF Turn, UTF8_ACCEPT, UTF8_REJECT
<1>11. CASE begin = n
    BY <1>1, <1>2, <1>6, <1>7, <1>10, <1>11
<1>12. CASE begin # n /\ stops = {}
    <2>1. n \in (begin + 1)..n
        BY <1>7, <1>12
    <2>2. f[n] # 0
        BY <1>8, <1>9, <1>12, <2>1
    <2>. QED  BY <1>1, <1>2, <1>10, <1>12, <2>2
<1>13. CASE begin # n /\ stops # {}
    <2>1. stops \subseteq 0..n
        BY <1>7, <1>8
    <2>2. PICK j : j = Min(stops)
        OBVIOUS
    <2>3. j \in stops
        BY <1>13, <2>1, <2>2, EndsOfSet
    <2>4. j \in (begin + 1)..n /\ f[j] \in {0, 12}
        BY <1>8, <1>9, <2>3
    <2>5. CASE f[j] = 0
        BY <1>1, <1>2, <1>7, <1>9, <1>10, <1>13, <2>2, <2>4, <2>5
    <2>6. CASE f[j] = 12
        <3>1. j \in 0..Len(d)
            BY <1>2, <1>7, <2>4
        <3>2. f[n] = 12
            BY <1>1, <1>2, <2>6, <3>1, RejectedStays DEF UTF8_REJECT
        <3>. QED  BY <1>1, <1>2, <1>9, <1>10, <1>13, <2>2, <2>4, <2>6, <3>2
    <2>. QED  BY <2>4, <2>5, <2>6
<1>. QED  BY <1>11, <1>12, <1>13

\* Where the loop is after so many turns: the text is refused, or it got on.
LEMMA TurnsAre ==
    ASSUME NEW d \in Seq(Byte)
    PROVE  \A m \in 0..Len(d) :
               \/ Turns(d)[m] = Invalid /\ After(0, d)[Len(d)] # 0
               \/ Turns(d)[m] \in m..Len(d) /\ After(0, d)[Turns(d)[m]] = 0
<1>1. PICK f : f = After(0, d)
    OBVIOUS
<1>2. PICK n \in Nat : n = Len(d)
    OBVIOUS
<1>3. f[0] = 0
    BY <1>1, AfterSteps DEF State
<1>4. \A i \in 0..(n - 1) : f[i] = 0 =>
          \/ Turn(d, i) = Invalid /\ f[n] # 0
          \/ Turn(d, i) \in (i + 1)..n /\ f[Turn(d, i)] = 0
    BY <1>1, <1>2, TurnIs
<1>5. PICK T : T = {Invalid} \cup {i \in 0..n : f[i] = 0}
    OBVIOUS
<1>6. PICK step : step = [a \in T \X (1..n) |->
                             IF a[1] \in {Invalid, n} THEN a[1] ELSE Turn(d, a[1])]
    OBVIOUS
<1>7. \A i \in T : i \notin {Invalid, n} => i \in 0..(n - 1) /\ f[i] = 0 /\ Turn(d, i) \in T
    <2>. SUFFICES ASSUME NEW i \in T, i \notin {Invalid, n}
                  PROVE  i \in 0..(n - 1) /\ f[i] = 0 /\ Turn(d, i) \in T
        OBVIOUS
    <2>1. i \in 0..(n - 1) /\ f[i] = 0
        BY <1>5
    <2>2. Turn(d, i) = Invalid \/ (Turn(d, i) \in 0..n /\ f[Turn(d, i)] = 0)
        BY <1>4, <2>1
    <2>. QED  BY <1>5, <2>1, <2>2
<1>8. step \in [T \X (1..n) -> T] /\ 0 \in T
    BY <1>3, <1>5, <1>6, <1>7
<1>9. PICK g \in [0..n -> T] : Recursive(g, n, 0, step)
    BY <1>8, RecursionExists
<1>10. \A m \in 1..n : g[m] = IF g[m - 1] \in {Invalid, n} THEN g[m - 1] ELSE Turn(d, g[m - 1])
    <2>. SUFFICES ASSUME NEW m \in 1..n
                  PROVE  g[m] = IF g[m - 1] \in {Invalid, n} THEN g[m - 1] ELSE Turn(d, g[m - 1])
        OBVIOUS
    <2>1. g[m - 1] \in T
        BY <1>9
    <2>. QED  BY <1>6, <1>9, <2>1 DEF Recursive
<1>11. g = [m \in 0..Len(d) |->
               IF m = 0 THEN 0
               ELSE IF g[m - 1] \in {Invalid, Len(d)} THEN g[m - 1] ELSE Turn(d, g[m - 1])]
    <2>1. ASSUME NEW m \in 0..n
          PROVE  g[m] = IF m = 0 THEN 0
                        ELSE IF g[m - 1] \in {Invalid, n} THEN g[m - 1] ELSE Turn(d, g[m - 1])
        <3>1. m = 0 \/ m \in 1..n
            OBVIOUS
        <3>. QED  BY <1>9, <1>10, <3>1 DEF Recursive
    <2>. QED  BY <1>2, <1>9, <2>1
<1>12. PICK at : at = Turns(d)
    OBVIOUS
<1>13. at = [m \in 0..Len(d) |->
                IF m = 0 THEN 0
                ELSE IF at[m - 1] \in {Invalid, Len(d)} THEN at[m - 1] ELSE Turn(d, at[m - 1])]
    BY <1>11, <1>12 DEF Turns
<1>14. /\ at[0] = 0
       /\ \A m \in 1..n : at[m] = IF at[m - 1] \in {Invalid, n} THEN at[m - 1]
                                  ELSE Turn(d, at[m - 1])
    BY <1>2, <1>13
<1>15. PICK S : S = {m \in 0..n : \/ at[m] = Invalid /\ f[n] # 0
                                  \/ at[m] \in m..n /\ f[at[m]] = 0}
    OBVIOUS
<1>16. 0 \in S
    BY <1>3, <1>14, <1>15
<1>17. ASSUME NEW m \in 1..n, m - 1 \in S PROVE m \in S
    <2>1. PICK i : i = at[m - 1]
        OBVIOUS
    <2>2. \/ i = Invalid /\ f[n] # 0
          \/ i \in (m - 1)..n /\ f[i] = 0
        BY <1>15, <1>17, <2>1
    <2>3. at[m] = IF i \in {Invalid, n} THEN i ELSE Turn(d, i)
        BY <1>14, <2>1
    <2>4. CASE i = Invalid /\ f[n] # 0
        BY <1>15, <2>3, <2>4
    <2>5. CASE i = n /\ f[i] = 0
        <3>1. at[m] = n /\ n \in m..n /\ f[n] = 0
            BY <2>3, <2>5
        <3>. QED  BY <1>15, <3>1
    <2>6. CASE i \in (m - 1)..n /\ i # n /\ f[i] = 0
        <3>1. i \in 0..(n - 1) /\ i # Invalid
            BY <2>6 DEF Invalid
        <3>2. at[m] = Turn(d, i)
            BY <2>3, <2>6, <3>1
        <3>3. \/ at[m] = Invalid /\ f[n] # 0
              \/ at[m] \in (i + 1)..n /\ f[at[m]] = 0
            BY <1>4, <2>6, <3>1, <3>2
        <3>4. \A j \in (i + 1)..n : j \in m..n
            BY <2>6
        <3>. QED  BY <1>15, <3>3, <3>4
    <2>. QED  BY <2>2, <2>4, <2>5, <2>6
<1>18. 0..n \subseteq S
    BY <1>16, <1>17, IntervalInduction
<1>. QED  BY <1>1, <1>2, <1>12, <1>15, <1>18

\* The validator that skips ASCII a word at a time says of every text what the
\* automaton says that steps through each of its bytes (560-605).
LEMMA SkippingIsSound ==
    ASSUME NEW d \in Seq(Byte)
    PROVE  utf8Valid(d) <=> utf8Advance(0, d) = 0
<1>1. PICK n \in Nat : n = Len(d)
    OBVIOUS
<1>2. PICK at : at = Turns(d)[n]
    OBVIOUS
<1>3. \/ at = Invalid /\ After(0, d)[n] # 0
      \/ at \in n..n /\ After(0, d)[at] = 0
    <2>1. n \in 0..Len(d)
        BY <1>1
    <2>. QED  BY <1>1, <1>2, <2>1, TurnsAre
<1>4. at = n <=> After(0, d)[n] = 0
    BY <1>3 DEF Invalid
<1>. QED  BY <1>1, <1>2, <1>4 DEF utf8Valid, utf8Advance

\* For every text, however long and wherever its ASCII runs lie, the validator says
\* whether it is UTF-8: no overlong encoding, no surrogate and nothing past the last
\* scalar value passes, and every text that has none of them does (509-605).
THEOREM ValidatorExact ==
    ASSUME NEW d \in Seq(Byte)
    PROVE  utf8Valid(d) <=> WellFormed(d)
BY SkippingIsSound, AcceptedIsWellFormed

------------------------------------------------------------------------------
(* What a buffer holds. *)

\* A buffer of bytes, with the NUL that nothing is written over in its last slot.
Buffer == {b \in [0..N -> Byte] : b[N] = 0}

\* The smaller of two.
LEMMA MinOfTwo ==
    ASSUME NEW a \in Nat, NEW b \in Nat
    PROVE  Min({a, b}) = IF a <= b THEN a ELSE b
<1>1. PICK m : m = Min({a, b})
    OBVIOUS
<1>2. \E x \in {a, b} : \A y \in {a, b} : x <= y
    OBVIOUS
<1>3. m \in {a, b} /\ \A y \in {a, b} : m <= y
    BY <1>1, <1>2 DEF Min
<1>. QED  BY <1>1, <1>3

\* How far a value that is too long is cut back: to the first byte from the end of
\* the buffer that continues no sequence.
LEMMA CutBackIs ==
    ASSUME NEW sv \in Seq(Byte), Len(sv) > N
    PROVE  /\ utf8Prefix(sv) \in 0..N
           /\ utf8Prefix(sv) # 0 => ~(sv[utf8Prefix(sv) + 1] \div 64 = 2)
           /\ \A k \in (utf8Prefix(sv) + 1)..N : sv[k + 1] \div 64 = 2
<1>. N \in Nat
    BY TextAssumption
<1>1. PICK C : C = {i \in 1..N : sv[i + 1] \div 64 = 2}
    OBVIOUS
<1>2. PICK step : step = [a \in (0..N) \X (1..N) |-> IF a[2] \in C THEN a[1] ELSE a[2]]
    OBVIOUS
<1>3. step \in [(0..N) \X (1..N) -> 0..N] /\ 0 \in 0..N
    BY <1>2
<1>4. PICK g \in [0..N -> 0..N] : Recursive(g, N, 0, step)
    BY <1>3, RecursionExists
<1>5. \A n \in 1..N : g[n] = IF n \in C THEN g[n - 1] ELSE n
    <2>. SUFFICES ASSUME NEW n \in 1..N PROVE g[n] = IF n \in C THEN g[n - 1] ELSE n
        OBVIOUS
    <2>1. g[n - 1] \in 0..N
        BY <1>4
    <2>. QED  BY <1>2, <1>4, <2>1 DEF Recursive
<1>6. g = [n \in 0..N |-> IF n > 0 /\ sv[n + 1] \div 64 = 2 THEN g[n - 1] ELSE n]
    <2>1. ASSUME NEW n \in 0..N
          PROVE  g[n] = IF n > 0 /\ sv[n + 1] \div 64 = 2 THEN g[n - 1] ELSE n
        <3>1. CASE n = 0
            BY <1>4, <3>1 DEF Recursive
        <3>2. CASE n \in 1..N
            <4>1. n > 0 /\ (n \in C <=> sv[n + 1] \div 64 = 2)
                BY <1>1, <3>2
            <4>2. g[n] = IF n \in C THEN g[n - 1] ELSE n
                BY <1>5, <3>2
            <4>. QED  BY <4>1, <4>2
        <3>. QED  BY <3>1, <3>2
    <2>. QED  BY <1>4, <2>1
<1>7. PICK back : back = CutBack(sv)
    OBVIOUS
<1>8. back = [n \in 0..N |-> IF n > 0 /\ sv[n + 1] \div 64 = 2 THEN back[n - 1] ELSE n]
    BY <1>6, <1>7 DEF CutBack
<1>9. /\ back[0] = 0
      /\ \A n \in 1..N : back[n] = IF n \in C THEN back[n - 1] ELSE n
    <2>1. back[0] = 0
        BY <1>8
    <2>2. ASSUME NEW n \in 1..N PROVE back[n] = IF n \in C THEN back[n - 1] ELSE n
        <3>1. n \in C <=> sv[n + 1] \div 64 = 2
            BY <1>1
        <3>2. n \in 0..N /\ n > 0
            OBVIOUS
        <3>. QED  BY <1>8, <3>1, <3>2
    <2>. QED  BY <2>1, <2>2
<1>10. PICK S : S = {n \in 0..N : /\ back[n] \in 0..n /\ back[n] \notin C
                                  /\ \A k \in (back[n] + 1)..n : k \in C}
    OBVIOUS
<1>11. 0 \in S
    BY <1>1, <1>9, <1>10
<1>12. ASSUME NEW n \in 1..N, n - 1 \in S PROVE n \in S
    <2>1. PICK m : m = back[n]
        OBVIOUS
    <2>2. m \in 0..n /\ m \notin C /\ \A k \in (m + 1)..n : k \in C
        <3>1. CASE n \in C
            <4>1. m = back[n - 1]
                BY <1>9, <2>1, <3>1
            <4>2. m \in 0..(n - 1) /\ m \notin C /\ \A k \in (m + 1)..(n - 1) : k \in C
                BY <1>10, <1>12, <4>1
            <4>3. ASSUME NEW k \in (m + 1)..n PROVE k \in C
                <5>1. k = n \/ k \in (m + 1)..(n - 1)
                    BY <4>2
                <5>. QED  BY <3>1, <4>2, <5>1
            <4>4. m \in 0..n
                BY <4>2
            <4>. QED  BY <4>2, <4>3, <4>4
        <3>2. CASE n \notin C
            <4>1. m = n /\ n \in 0..n /\ (n + 1)..n = {}
                BY <1>9, <2>1, <3>2
            <4>. QED  BY <3>2, <4>1
        <3>. QED  BY <3>1, <3>2
    <2>3. n \in 0..N
        OBVIOUS
    <2>. QED  BY <1>10, <2>1, <2>2, <2>3
<1>13. 0..N \subseteq S
    BY <1>11, <1>12, IntervalInduction
<1>14. PICK m : m = back[N]
    OBVIOUS
<1>15. m \in 0..N /\ m \notin C /\ \A k \in (m + 1)..N : k \in C
    BY <1>10, <1>13, <1>14
<1>16. (m # 0 => ~(sv[m + 1] \div 64 = 2)) /\ \A k \in (m + 1)..N : sv[k + 1] \div 64 = 2
    BY <1>1, <1>15
<1>. QED  BY <1>7, <1>14, <1>15, <1>16 DEF utf8Prefix

\* What is kept of a value that is UTF-8 is its longest prefix that fits and is UTF-8.
LEMMA CutBetween ==
    ASSUME NEW sv \in Seq(Byte), Len(sv) > N, WellFormed(sv),
           NEW m, m = utf8Prefix(sv)
    PROVE  /\ WellFormed(SubSeq(sv, 1, m))
           /\ \A n \in (m + 1)..N : ~WellFormed(SubSeq(sv, 1, n))
<1>. N \in Nat /\ Len(sv) \in Nat
    BY TextAssumption
<1>1. PICK f : f = After(0, sv)
    OBVIOUS
<1>2. /\ f \in [0..Len(sv) -> State] /\ f[0] = 0
      /\ \A i \in 1..Len(sv) : f[i] = Step(f[i - 1], sv[i])
    BY <1>1, AfterSteps DEF State
<1>3. \A i \in 0..Len(sv) : f[i] # 12
    <2>1. f[Len(sv)] = 0
        BY <1>1, AcceptedIsWellFormed DEF utf8Advance
    <2>. QED  BY <1>1, <2>1, RejectedStays DEF UTF8_REJECT
<1>4. \A n \in 0..N : f[n] = 0 <=> ~(sv[n + 1] \div 64 = 2)
    <2>. SUFFICES ASSUME NEW n \in 0..N PROVE f[n] = 0 <=> ~(sv[n + 1] \div 64 = 2)
        OBVIOUS
    <2>1. n + 1 \in 1..Len(sv) /\ (n + 1) - 1 = n /\ n \in 0..Len(sv) /\ n + 1 \in 0..Len(sv)
        OBVIOUS
    <2>2. f[n + 1] = Step(f[n], sv[n + 1]) /\ f[n + 1] # 12 /\ f[n] \in State
        BY <1>2, <1>3, <2>1
    <2>3. sv[n + 1] \in Byte
        BY <2>1
    <2>. QED  BY <2>2, <2>3, ContinuesOpen DEF UTF8_ACCEPT, UTF8_REJECT
<1>5. m \in 0..N /\ f[m] = 0 /\ \A n \in (m + 1)..N : f[n] # 0
    <2>1. m \in 0..N /\ (m # 0 => ~(sv[m + 1] \div 64 = 2))
        BY CutBackIs
    <2>2. \A n \in (m + 1)..N : n \in 0..N /\ sv[n + 1] \div 64 = 2
        BY <2>1, CutBackIs
    <2>. QED  BY <1>2, <1>4, <2>1, <2>2
<1>6. \A n \in 0..N : WellFormed(SubSeq(sv, 1, n)) <=> f[n] = 0
    <2>. SUFFICES ASSUME NEW n \in 0..N PROVE WellFormed(SubSeq(sv, 1, n)) <=> f[n] = 0
        OBVIOUS
    <2>1. 0 \in 0..Len(sv) /\ n \in 0..Len(sv) /\ 0 + 1 = 1
        OBVIOUS
    <2>2. SubSeq(sv, 1, n) \in Seq(Byte) /\ utf8Advance(0, SubSeq(sv, 1, n)) = f[n]
        BY <1>1, <1>2, <2>1, Part
    <2>. QED  BY <2>2, AcceptedIsWellFormed
<1>. QED  BY <1>5, <1>6

\* What an assignment leaves in a buffer.
LEMMA AssignedIs ==
    ASSUME NEW b \in Buffer, NEW sv \in Seq(Byte), NEW n, n = Assigned(b, sv).len,
           NEW c, c = Assigned(b, sv).buf
    PROVE  /\ n \in 0..N /\ n <= Len(sv) /\ c \in Buffer /\ c[n] = 0
           /\ \A i \in 1..n : c[i - 1] = sv[i]
           /\ n = IF Len(sv) <= N THEN Len(sv) ELSE utf8Prefix(sv)
<1>. N \in Nat /\ Len(sv) \in Nat
    BY TextAssumption
<1>1. n = IF Len(sv) <= N THEN Len(sv) ELSE utf8Prefix(sv)
    BY DEF Assigned
<1>2. n \in 0..N /\ n <= Len(sv)
    BY <1>1, CutBackIs
<1>3. c = [i \in 0..N |-> IF i < n THEN sv[i + 1] ELSE IF i = n THEN 0 ELSE b[i]]
    BY <1>1 DEF Assigned
<1>4. b \in [0..N -> Byte] /\ b[N] = 0 /\ 0 \in Byte
    BY DEF Buffer, Byte
<1>5. \A i \in 0..N : i < n => i + 1 \in 1..Len(sv)
    BY <1>2
<1>6. c \in [0..N -> Byte]
    BY <1>2, <1>3, <1>4, <1>5
<1>7. N \in 0..N /\ ~(N < n) /\ n \in 0..N /\ ~(n < n)
    BY <1>2
<1>8. c[N] = 0 /\ c[n] = 0
    BY <1>3, <1>4, <1>7
<1>9. \A i \in 1..n : c[i - 1] = sv[i]
    <2>. SUFFICES ASSUME NEW i \in 1..n PROVE c[i - 1] = sv[i]
        OBVIOUS
    <2>1. i - 1 \in 0..N /\ i - 1 < n /\ (i - 1) + 1 = i
        BY <1>2
    <2>. QED  BY <1>3, <2>1
<1>. QED  BY <1>1, <1>2, <1>6, <1>8, <1>9 DEF Buffer

\* What arriving bytes leave in one.
LEMMA CopiedIs ==
    ASSUME NEW b \in Buffer, NEW at \in Nat, NEW d \in Seq(Byte), at + Len(d) <= N,
           NEW c, c = Copied(b, at, d)
    PROVE  /\ c \in Buffer
           /\ \A i \in 0..(at - 1) : c[i] = b[i]
           /\ \A i \in 1..Len(d) : c[(at + i) - 1] = d[i]
<1>. N \in Nat /\ Len(d) \in Nat
    BY TextAssumption
<1>1. c = [i \in 0..N |-> IF i \in at..(at + Len(d) - 1) THEN d[i - at + 1] ELSE b[i]]
    BY DEF Copied
<1>2. b \in [0..N -> Byte] /\ b[N] = 0
    BY DEF Buffer
<1>3. \A i \in at..(at + Len(d) - 1) : i - at + 1 \in 1..Len(d)
    OBVIOUS
<1>4. c \in [0..N -> Byte]
    BY <1>1, <1>2, <1>3
<1>5. N \in 0..N /\ N \notin at..(at + Len(d) - 1)
    OBVIOUS
<1>6. c[N] = 0
    BY <1>1, <1>2, <1>5
<1>7. \A i \in 0..(at - 1) : c[i] = b[i]
    <2>1. \A i \in 0..(at - 1) : i \in 0..N /\ i \notin at..(at + Len(d) - 1)
        OBVIOUS
    <2>. QED  BY <1>1, <2>1
<1>8. \A i \in 1..Len(d) : c[(at + i) - 1] = d[i]
    <2>. SUFFICES ASSUME NEW i \in 1..Len(d) PROVE c[(at + i) - 1] = d[i]
        OBVIOUS
    <2>1. PICK j : j = (at + i) - 1
        OBVIOUS
    <2>2. j \in 0..N /\ j \in at..(at + Len(d) - 1) /\ j - at + 1 = i
        BY <2>1
    <2>. QED  BY <1>1, <2>1, <2>2
<1>. QED  BY <1>4, <1>6, <1>7, <1>8 DEF Buffer

\* What setting the length does.
LEMMA set_lenIs ==
    ASSUME NEW b \in Buffer, NEW n \in 0..N, NEW t, t = set_len(b, n)
    PROVE  /\ t.len = n /\ t.buf \in Buffer /\ t.buf[n] = 0
           /\ \A i \in 0..N : i # n => t.buf[i] = b[i]
<1>. N \in Nat /\ n \in Nat
    BY TextAssumption
<1>1. Min({n, N}) = n
    BY MinOfTwo
<1>2. t.len = n /\ t.buf = [b EXCEPT ![n] = 0]
    BY <1>1 DEF set_len
<1>3. b \in [0..N -> Byte] /\ b[N] = 0 /\ 0 \in Byte
    BY DEF Buffer, Byte
<1>. QED  BY <1>2, <1>3 DEF Buffer

------------------------------------------------------------------------------
(* The invariant. *)

\* While a payload arrives, the state is the automaton's behind what is there, and the
\* buffer begins with it.
Reading ==
    outcome = "reading" =>
        /\ utf8State = utf8Advance(0, payload)
        /\ announced > N => payload = <<>>
        /\ announced <= N => \A i \in 1..Len(payload) : buf[i - 1] = payload[i]

IInv ==
    /\ TypeOK
    /\ Terminated
    /\ Reading
    /\ VerdictOfTheWhole
    /\ KeepsCharacters

\* What the type of a text says.
LEMMA Typed ==
    ASSUME TypeOK
    PROVE  /\ N \in Nat /\ len \in 0..N /\ len \in Nat /\ buf \in Buffer
           /\ announced \in Nat /\ payload \in Seq(Byte) /\ Len(payload) \in Nat
           /\ utf8State \in State /\ assigned \in Seq(Seq(Byte)) /\ Len(assigned) <= 1
BY TextAssumption DEF TypeOK, Buffer

\* The automaton is where it begins, before a byte.
LEMMA NothingAdvanced == utf8Advance(0, <<>>) = 0
<1>1. <<>> \in Seq(Byte) /\ Len(<<>>) = 0 /\ 0 \in State
    BY DEF State
<1>2. After(0, <<>>)[0] = 0
    BY <1>1, AfterSteps
<1>. QED  BY <1>1, <1>2 DEF utf8Advance

\* The value while the buffer and the length stay.
LEMMA SameText ==
    ASSUME IInv, UNCHANGED <<buf, len, assigned>>
    PROVE  KeepsCharacters'
<1>1. Value' = Value
    BY DEF Value
<1>. QED  BY <1>1 DEF IInv, KeepsCharacters

\* What the invariant says of a text that was not assigned.
LEMMA NotAssigned ==
    ASSUME assigned' = <<>>
    PROVE  KeepsCharacters' /\ (outcome' # "read" => Terminated')
BY DEF KeepsCharacters, Terminated, Whole

\* At the start.
LEMMA InitIInv == Init => IInv
<1>. SUFFICES ASSUME Init PROVE IInv
    OBVIOUS
<1>. N \in Nat /\ 0 \in Byte /\ <<>> \in Seq(Byte) /\ Len(<<>>) = 0
    BY TextAssumption DEF Byte
<1>1. /\ buf = [i \in 0..N |-> 0] /\ len = 0 /\ announced = 0 /\ utf8State = 0
      /\ payload = <<>> /\ outcome = "none" /\ assigned = << <<>> >>
    BY DEF Init, Blank, UTF8_ACCEPT
<1>2. buf \in [0..N -> Byte] /\ buf[N] = 0 /\ buf[0] = 0
    BY <1>1
<1>3. TypeOK
    BY <1>1, <1>2 DEF TypeOK, State
<1>4. Terminated /\ Reading /\ VerdictOfTheWhole
    BY <1>1, <1>2 DEF Terminated, Reading, VerdictOfTheWhole
<1>5. Value = <<>>
    BY <1>1 DEF Value
<1>6. KeepsCharacters
    <2>1. assigned[1] = <<>> /\ SubSeq(<<>>, 1, 0) = <<>>
        BY <1>1
    <2>2. Min({N, 0}) = 0 /\ (0 + 1)..0 = {}
        BY MinOfTwo
    <2>. QED  BY <1>1, <1>5, <2>1, <2>2 DEF KeepsCharacters
<1>. QED  BY <1>3, <1>4, <1>6 DEF IInv

\* The program assigns.
LEMMA AssignKeeps ==
    ASSUME IInv, NEW sv \in Assignable, Assign(sv)
    PROVE  IInv'
<1>. /\ N \in Nat /\ buf \in Buffer /\ payload \in Seq(Byte) /\ utf8State \in State
     /\ sv \in Seq(Byte) /\ Len(sv) \in Nat
    BY Typed, TextAssumption DEF IInv
<1>1. /\ outcome' = "none" /\ announced' = 0 /\ utf8State' = utf8State /\ payload' = <<>>
      /\ buf' = Assigned(buf, sv).buf /\ len' = Assigned(buf, sv).len /\ assigned' = <<sv>>
    BY DEF Assign, InUse, Becomes
<1>2. /\ len' \in 0..N /\ len' <= Len(sv) /\ buf' \in Buffer /\ buf'[len'] = 0
      /\ \A i \in 1..len' : buf'[i - 1] = sv[i]
      /\ len' = IF Len(sv) <= N THEN Len(sv) ELSE utf8Prefix(sv)
    BY <1>1, AssignedIs
<1>3. TypeOK'
    <2>1. <<>> \in Seq(Byte) /\ Len(<<>>) = 0 /\ <<sv>> \in Seq(Seq(Byte)) /\ Len(<<sv>>) = 1
        OBVIOUS
    <2>. QED  BY <1>1, <1>2, <2>1 DEF TypeOK, Buffer
<1>4. Terminated' /\ Reading' /\ VerdictOfTheWhole'
    BY <1>1, <1>2 DEF Terminated, Reading, VerdictOfTheWhole
<1>5. PICK s : s = SubSeq(sv, 1, len')
    OBVIOUS
<1>6. /\ s \in Seq(Byte) /\ Len(s) = len' /\ \A i \in 1..len' : s[i] = sv[i]
    BY <1>2, <1>5
<1>7. Value' = s
    <2>1. s = [i \in 1..len' |-> s[i]]
        BY <1>6
    <2>. QED  BY <1>2, <1>6, <2>1 DEF Value
<1>8. Len(sv) <= N => s = sv
    BY <1>2, <1>5, <1>6
<1>9. PICK low : low = Min({N, Len(sv)})
    OBVIOUS
<1>10. low = IF N <= Len(sv) THEN N ELSE Len(sv)
    BY <1>9, MinOfTwo
<1>11. WellFormed(sv) => /\ WellFormed(s)
                         /\ \A n \in (len' + 1)..low : ~WellFormed(SubSeq(sv, 1, n))
    <2>1. CASE Len(sv) <= N
        <3>1. (len' + 1)..low = {}
            BY <1>2, <1>10, <2>1
        <3>. QED  BY <1>8, <2>1, <3>1
    <2>2. CASE Len(sv) > N
        <3>1. low = N /\ len' = utf8Prefix(sv)
            BY <1>2, <1>10, <2>2
        <3>. QED  BY <1>5, <2>2, <3>1, CutBetween
    <2>. QED  BY <2>1, <2>2
<1>12. KeepsCharacters'
    <2>1. assigned'[1] = sv
        BY <1>1
    <2>. QED  BY <1>5, <1>7, <1>8, <1>9, <1>11, <2>1 DEF KeepsCharacters
<1>. QED  BY <1>3, <1>4, <1>12 DEF IInv

\* The program clears the text.
LEMMA ClearKeeps ==
    ASSUME IInv, Clear
    PROVE  IInv'
<1>. N \in Nat /\ buf \in Buffer /\ utf8State \in State
    BY Typed DEF IInv
<1>1. /\ outcome' = "none" /\ announced' = 0 /\ utf8State' = utf8State /\ payload' = <<>>
      /\ buf' = [buf EXCEPT ![0] = 0] /\ len' = 0 /\ assigned' = << <<>> >>
    BY DEF Clear, InUse
<1>2. buf' \in [0..N -> Byte] /\ buf'[N] = 0 /\ buf'[0] = 0
    BY <1>1 DEF Buffer, Byte
<1>3. TypeOK'
    <2>1. <<>> \in Seq(Byte) /\ Len(<<>>) = 0 /\ << <<>> >> \in Seq(Seq(Byte))
        OBVIOUS
    <2>. QED  BY <1>1, <1>2, <2>1 DEF TypeOK
<1>4. Terminated' /\ Reading' /\ VerdictOfTheWhole'
    BY <1>1, <1>2 DEF Terminated, Reading, VerdictOfTheWhole
<1>5. Value' = <<>>
    BY <1>1 DEF Value
<1>6. KeepsCharacters'
    <2>1. assigned'[1] = <<>> /\ SubSeq(<<>>, 1, 0) = <<>> /\ Len(<<>>) = 0
        BY <1>1
    <2>2. Min({N, 0}) = 0 /\ (0 + 1)..0 = {}
        BY MinOfTwo
    <2>. QED  BY <1>1, <1>5, <2>1, <2>2 DEF KeepsCharacters
<1>. QED  BY <1>3, <1>4, <1>6 DEF IInv

\* The program writes a byte within the length.
LEMMA WriteKeeps ==
    ASSUME IInv, NEW i \in 0..(N - 1), NEW b \in Bytes, Write(i, b)
    PROVE  IInv'
<1>. /\ N \in Nat /\ buf \in Buffer /\ utf8State \in State /\ len \in 0..N
     /\ b \in Byte /\ i \in 0..N /\ i < len
    BY Typed, TextAssumption DEF IInv, Write
<1>1. /\ outcome' = "none" /\ announced' = 0 /\ utf8State' = utf8State /\ payload' = <<>>
      /\ buf' = [buf EXCEPT ![i] = b] /\ len' = len
      /\ assigned' = IF Whole THEN <<[Value EXCEPT ![i + 1] = b]>> ELSE <<>>
    BY DEF Write, InUse
<1>2. PICK sv : sv = [Value EXCEPT ![i + 1] = b]
    OBVIOUS
<1>3. buf' \in [0..N -> Byte] /\ buf'[N] = 0
    BY <1>1 DEF Buffer
<1>4. Value \in Seq(Byte) /\ Len(Value) = len
    <2>1. \A k \in 1..len : k - 1 \in 0..N
        OBVIOUS
    <2>2. Value \in [1..len -> Byte]
        BY <2>1 DEF Value, Buffer
    <2>. QED  BY <2>2
<1>5. sv \in Seq(Byte) /\ Len(sv) = len
    BY <1>2, <1>4
<1>6. Value' = sv
    <2>1. \A k \in 1..len : buf'[k - 1] = sv[k]
        <3>. SUFFICES ASSUME NEW k \in 1..len PROVE buf'[k - 1] = sv[k]
            OBVIOUS
        <3>1. k - 1 \in 0..N /\ (k - 1 = i <=> k = i + 1)
            OBVIOUS
        <3>2. Value = [m \in 1..len |-> buf[m - 1]]
            BY DEF Value
        <3>. QED  BY <1>1, <1>2, <3>1, <3>2 DEF Buffer
    <2>2. sv = [k \in 1..len |-> sv[k]]
        BY <1>5
    <2>. QED  BY <1>1, <2>1, <2>2 DEF Value
<1>7. TypeOK'
    <2>1. /\ <<>> \in Seq(Byte) /\ Len(<<>>) = 0
          /\ <<sv>> \in Seq(Seq(Byte)) /\ Len(<<sv>>) = 1 /\ <<>> \in Seq(Seq(Byte))
        BY <1>5
    <2>2. assigned' \in Seq(Seq(Byte)) /\ Len(assigned') <= 1
        BY <1>1, <1>2, <2>1
    <2>. QED  BY <1>1, <1>3, <2>1, <2>2 DEF TypeOK
<1>8. Terminated'
    <2>1. Whole' => Whole
        BY <1>1 DEF Whole
    <2>2. Whole => buf[len] = 0
        BY DEF IInv, Terminated
    <2>3. buf'[len'] = buf[len]
        BY <1>1 DEF Buffer
    <2>. QED  BY <2>1, <2>2, <2>3 DEF Terminated
<1>9. Reading' /\ VerdictOfTheWhole'
    BY <1>1 DEF Reading, VerdictOfTheWhole
<1>10. KeepsCharacters'
    <2>. SUFFICES ASSUME assigned' # <<>> PROVE KeepsCharacters'
        BY NotAssigned
    <2>1. assigned' = <<sv>> /\ assigned'[1] = sv
        BY <1>1, <1>2
    <2>2. SubSeq(sv, 1, len') = sv
        BY <1>1, <1>5
    <2>3. Min({N, Len(sv)}) = len /\ (len' + 1)..len = {}
        BY <1>1, <1>5, MinOfTwo
    <2>. QED  BY <1>1, <1>5, <1>6, <2>1, <2>2, <2>3 DEF KeepsCharacters
<1>. QED  BY <1>7, <1>8, <1>9, <1>10 DEF IInv

\* A string field begins.
LEMMA AnnounceKeeps ==
    ASSUME IInv, NEW n \in Payloads, Announce(n)
    PROVE  IInv'
<1>. N \in Nat /\ n \in Nat
    BY TextAssumption
<1>1. /\ outcome \in {"none", "read"} /\ announced' = n /\ utf8State' = 0 /\ payload' = <<>>
      /\ outcome' = "reading" /\ UNCHANGED <<buf, len, assigned>>
    BY DEF Announce, UTF8_ACCEPT
<1>2. <<>> \in Seq(Byte) /\ Len(<<>>) = 0 /\ 0 \in State
    BY DEF State
<1>3. TypeOK'
    BY <1>1, <1>2 DEF IInv, TypeOK
<1>4. Terminated'
    BY <1>1 DEF IInv, Terminated, Whole
<1>5. Reading'
    <2>1. utf8Advance(0, payload') = 0 /\ 1..Len(payload') = {}
        BY <1>1, <1>2, NothingAdvanced
    <2>. QED  BY <1>1, <2>1 DEF Reading
<1>6. VerdictOfTheWhole'
    BY <1>1 DEF VerdictOfTheWhole
<1>. QED  BY <1>1, <1>3, <1>4, <1>5, <1>6, SameText DEF IInv

\* It does not fit.
LEMMA TooLongKeeps ==
    ASSUME IInv, TooLong
    PROVE  IInv'
<1>1. /\ outcome = "reading" /\ outcome' = "InvalidArgument"
      /\ UNCHANGED <<buf, len, announced, utf8State, payload, assigned>>
    BY DEF TooLong
<1>2. TypeOK' /\ Terminated' /\ Reading' /\ VerdictOfTheWhole'
    BY <1>1 DEF IInv, TypeOK, Terminated, Whole, Reading, VerdictOfTheWhole
<1>. QED  BY <1>1, <1>2, SameText DEF IInv

\* The decoder is reset.
LEMMA ResetKeeps ==
    ASSUME IInv, Reset
    PROVE  IInv'
<1>1. /\ announced' = 0 /\ utf8State' = 0 /\ payload' = <<>> /\ outcome' = "none"
      /\ UNCHANGED <<buf, len, assigned>>
    BY DEF Reset, UTF8_ACCEPT
<1>2. <<>> \in Seq(Byte) /\ Len(<<>>) = 0 /\ 0 \in State
    BY DEF State
<1>3. TypeOK' /\ Terminated' /\ Reading' /\ VerdictOfTheWhole'
    BY <1>1, <1>2 DEF IInv, TypeOK, Terminated, Whole, Reading, VerdictOfTheWhole
<1>. QED  BY <1>1, <1>3, SameText DEF IInv

\* What the next bytes of a payload make of it.
LEMMA Arriving ==
    ASSUME IInv, NEW n \in Missing, NEW d \in [1..n -> Bytes], Arrives(d)
    PROVE  /\ outcome = "reading" /\ announced <= N /\ announced \in Nat /\ d \in Seq(Byte)
           /\ payload \in Seq(Byte) /\ payload' \in Seq(Byte) /\ payload' = payload \o d
           /\ Len(payload') = Len(payload) + Len(d) /\ Len(payload') <= announced
           /\ \A i \in 1..Len(payload) : payload'[i] = payload[i]
           /\ \A i \in 1..Len(d) : payload'[Len(payload) + i] = d[i]
           /\ announced' = announced /\ assigned' = <<>>
<1>1. outcome = "reading" /\ announced <= N /\ n \in 0..(announced - Len(payload))
    BY DEF Missing
<1>2. announced \in Nat /\ payload \in Seq(Byte) /\ Len(payload) \in Nat
    BY Typed DEF IInv
<1>3. d \in Seq(Byte) /\ Len(d) = n
    <2>1. d \in [1..n -> Byte] /\ n \in Nat
        BY <1>1, <1>2, TextAssumption
    <2>. QED  BY <2>1
<1>4. payload' = payload \o d /\ announced' = announced /\ assigned' = <<>>
    BY DEF Arrives
<1>5. /\ payload' \in Seq(Byte) /\ Len(payload') = Len(payload) + Len(d)
      /\ \A i \in 1..Len(payload) : payload'[i] = payload[i]
      /\ \A i \in 1..Len(d) : payload'[Len(payload) + i] = d[i]
    <2>1. PICK e \in Seq(Byte) : e = d
        BY <1>3
    <2>2. PICK w : w = payload \o e
        OBVIOUS
    <2>3. /\ w \in Seq(Byte) /\ Len(w) = Len(payload) + Len(e)
          /\ \A i \in 1..Len(payload) : w[i] = payload[i]
          /\ \A i \in 1..Len(e) : w[Len(payload) + i] = e[i]
        BY <1>2, <2>2
    <2>. QED  BY <1>4, <2>1, <2>2, <2>3
<1>. QED  BY <1>1, <1>2, <1>3, <1>4, <1>5

\* Copied behind what was there, they leave a buffer that begins with the payload.
LEMMA CopiedBehind ==
    ASSUME IInv, NEW n \in Missing, NEW d \in [1..n -> Bytes], Arrives(d),
           NEW c, c = Copied(buf, Len(payload), d)
    PROVE  c \in Buffer /\ \A i \in 1..Len(payload') : c[i - 1] = payload'[i]
<1>. /\ N \in Nat /\ buf \in Buffer /\ payload \in Seq(Byte) /\ d \in Seq(Byte)
     /\ Len(payload) \in Nat /\ Len(d) \in Nat
    BY Typed, Arriving DEF IInv
<1>1. /\ outcome = "reading" /\ announced <= N /\ announced \in Nat
      /\ Len(payload') = Len(payload) + Len(d) /\ Len(payload') <= announced
      /\ \A i \in 1..Len(payload) : payload'[i] = payload[i]
      /\ \A i \in 1..Len(d) : payload'[Len(payload) + i] = d[i]
    BY Arriving
<1>2. /\ c \in Buffer
      /\ \A i \in 0..(Len(payload) - 1) : c[i] = buf[i]
      /\ \A i \in 1..Len(d) : c[(Len(payload) + i) - 1] = d[i]
    <2>1. PICK at \in Nat : at = Len(payload)
        OBVIOUS
    <2>2. PICK e \in Seq(Byte) : e = d
        OBVIOUS
    <2>3. PICK b \in Buffer : b = buf
        OBVIOUS
    <2>4. at + Len(e) <= N /\ c = Copied(b, at, e)
        BY <1>1, <2>1, <2>2, <2>3
    <2>5. /\ c \in Buffer
          /\ \A i \in 0..(at - 1) : c[i] = b[i]
          /\ \A i \in 1..Len(e) : c[(at + i) - 1] = e[i]
        BY <2>4, CopiedIs
    <2>. QED  BY <2>1, <2>2, <2>3, <2>5
<1>3. \A i \in 1..Len(payload) : buf[i - 1] = payload[i]
    BY <1>1 DEF IInv, Reading
<1>4. ASSUME NEW i \in 1..Len(payload') PROVE c[i - 1] = payload'[i]
    <2>1. CASE i <= Len(payload)
        <3>1. i \in 1..Len(payload) /\ i - 1 \in 0..(Len(payload) - 1)
            BY <1>1, <2>1
        <3>. QED  BY <1>1, <1>2, <1>3, <3>1
    <2>2. CASE i > Len(payload)
        <3>1. PICK k \in 1..Len(d) : i = Len(payload) + k
            <4>1. i - Len(payload) \in 1..Len(d) /\ i = Len(payload) + (i - Len(payload))
                BY <1>1, <2>2
            <4>. QED  BY <4>1
        <3>. QED  BY <1>1, <1>2, <3>1
    <2>. QED  BY <1>1, <2>1, <2>2
<1>. QED  BY <1>2, <1>4

\* The payload becomes the text.
LEMMA Finished ==
    ASSUME NEW c \in Buffer, payload' \in Seq(Byte), announced \in Nat, announced <= N,
           Len(payload') = announced, \A i \in 1..Len(payload') : c[i - 1] = payload'[i],
           Becomes(set_len(c, announced))
    PROVE  len' = announced /\ buf' \in Buffer /\ buf'[len'] = 0 /\ Value' = payload'
<1>. N \in Nat
    BY TextAssumption
<1>1. announced \in 0..N
    OBVIOUS
<1>2. /\ len' = announced /\ buf' \in Buffer /\ buf'[announced] = 0
      /\ \A i \in 0..N : i # announced => buf'[i] = c[i]
    BY <1>1, set_lenIs DEF Becomes
<1>3. \A i \in 1..announced : buf'[i - 1] = payload'[i]
    <2>. SUFFICES ASSUME NEW i \in 1..announced PROVE buf'[i - 1] = payload'[i]
        OBVIOUS
    <2>1. i - 1 \in 0..N /\ i - 1 # announced
        OBVIOUS
    <2>. QED  BY <1>2, <2>1
<1>4. Value' = payload'
    <2>1. payload' = [i \in 1..announced |-> payload'[i]]
        OBVIOUS
    <2>. QED  BY <1>2, <1>3, <2>1 DEF Value
<1>. QED  BY <1>2, <1>4

\* The payload arrives in one piece.
LEMMA ReadWholeKeeps ==
    ASSUME IInv, NEW n \in Missing, NEW d \in [1..n -> Bytes], ReadWhole(d)
    PROVE  IInv'
<1>. N \in Nat /\ buf \in Buffer /\ len \in 0..N /\ utf8State \in State
    BY Typed DEF IInv
<1>1. /\ Arrives(d) /\ payload = <<>> /\ Len(d) = announced /\ utf8State' = utf8State
      /\ IF utf8Valid(d)
         THEN outcome' = "read" /\ Becomes(set_len(Copied(buf, 0, d), announced))
         ELSE outcome' = "InvalidMessage" /\ UNCHANGED <<buf, len>>
    BY DEF ReadWhole, InOnePiece
<1>2. /\ announced <= N /\ announced \in Nat /\ d \in Seq(Byte) /\ payload' \in Seq(Byte)
      /\ payload' = payload \o d /\ Len(payload') <= announced
      /\ announced' = announced /\ assigned' = <<>>
    BY <1>1, Arriving
<1>3. payload' = d /\ Len(payload) = 0
    BY <1>1, <1>2
<1>4. utf8Valid(d) <=> WellFormed(payload')
    BY <1>2, <1>3, ValidatorExact
<1>5. CASE utf8Valid(d)
    <2>1. PICK c : c = Copied(buf, 0, d)
        OBVIOUS
    <2>2. c \in Buffer /\ \A i \in 1..Len(payload') : c[i - 1] = payload'[i]
        BY <1>1, <1>3, <2>1, CopiedBehind
    <2>3. outcome' = "read" /\ Becomes(set_len(c, announced))
        BY <1>1, <1>5, <2>1
    <2>4. len' = announced /\ buf' \in Buffer /\ buf'[len'] = 0 /\ Value' = payload'
        BY <1>1, <1>2, <1>3, <2>2, <2>3, Finished
    <2>5. TypeOK'
        BY <1>1, <1>2, <2>3, <2>4 DEF IInv, TypeOK, Buffer
    <2>6. Terminated' /\ Reading'
        BY <2>3, <2>4 DEF Terminated, Reading
    <2>7. VerdictOfTheWhole'
        BY <1>1, <1>2, <1>3, <1>4, <1>5, <2>3, <2>4 DEF VerdictOfTheWhole
    <2>. QED  BY <1>2, <2>5, <2>6, <2>7, NotAssigned DEF IInv
<1>6. CASE ~utf8Valid(d)
    <2>1. outcome' = "InvalidMessage" /\ UNCHANGED <<buf, len>>
        BY <1>1, <1>6
    <2>2. TypeOK'
        BY <1>1, <1>2, <2>1 DEF IInv, TypeOK
    <2>3. Reading'
        BY <2>1 DEF Reading
    <2>4. VerdictOfTheWhole'
        BY <1>1, <1>2, <1>3, <1>4, <1>6, <2>1 DEF VerdictOfTheWhole
    <2>. QED  BY <1>2, <2>1, <2>2, <2>3, <2>4, NotAssigned DEF IInv
<1>. QED  BY <1>5, <1>6

\* A piece of it arrives.
LEMMA ReadPieceKeeps ==
    ASSUME IInv, NEW n \in Missing, NEW d \in [1..n -> Bytes], ReadPiece(d)
    PROVE  IInv'
<1>. N \in Nat /\ buf \in Buffer /\ len \in 0..N /\ utf8State \in State
    BY Typed DEF IInv
<1>1. PICK state : state = utf8Advance(utf8State, d)
    OBVIOUS
<1>2. PICK c : c = Copied(buf, Len(payload), d)
    OBVIOUS
<1>3. /\ Arrives(d)
      /\ IF Len(payload') < announced
         THEN utf8State' = state /\ buf' = c /\ UNCHANGED <<len, outcome>>
         ELSE IF state # UTF8_ACCEPT
         THEN utf8State' = state /\ buf' = c /\ outcome' = "InvalidMessage" /\ UNCHANGED len
         ELSE utf8State' = UTF8_ACCEPT /\ outcome' = "read" /\ Becomes(set_len(c, announced))
    BY <1>1, <1>2 DEF ReadPiece
<1>4. /\ outcome = "reading" /\ announced <= N /\ announced \in Nat /\ d \in Seq(Byte)
      /\ payload \in Seq(Byte) /\ payload' \in Seq(Byte) /\ payload' = payload \o d
      /\ Len(payload') <= announced /\ announced' = announced /\ assigned' = <<>>
    BY <1>3, Arriving
<1>5. c \in Buffer /\ \A i \in 1..Len(payload') : c[i - 1] = payload'[i]
    BY <1>2, <1>3, CopiedBehind
<1>6. state = utf8Advance(0, payload')
    <2>1. utf8State = utf8Advance(0, payload)
        BY <1>4 DEF IInv, Reading
    <2>. QED  BY <1>1, <1>4, <2>1, Pieces
<1>7. state \in State
    <2>1. Len(d) \in 0..Len(d)
        BY <1>4
    <2>. QED  BY <1>1, <1>4, <2>1, AfterSteps DEF utf8Advance
<1>8. state = 0 <=> WellFormed(payload')
    BY <1>4, <1>6, AcceptedIsWellFormed
<1>9. CASE Len(payload') < announced
    <2>1. utf8State' = state /\ buf' = c /\ len' = len /\ outcome' = "reading"
        BY <1>3, <1>4, <1>9
    <2>2. TypeOK'
        BY <1>4, <1>5, <1>7, <2>1 DEF IInv, TypeOK, Buffer
    <2>3. Reading'
        BY <1>4, <1>5, <1>6, <2>1 DEF Reading
    <2>4. VerdictOfTheWhole'
        BY <1>4, <1>9, <2>1 DEF VerdictOfTheWhole
    <2>. QED  BY <1>4, <2>1, <2>2, <2>3, <2>4, NotAssigned DEF IInv
<1>10. CASE ~(Len(payload') < announced) /\ state # 0
    <2>1. utf8State' = state /\ buf' = c /\ len' = len /\ outcome' = "InvalidMessage"
        BY <1>3, <1>10 DEF UTF8_ACCEPT
    <2>2. TypeOK'
        BY <1>4, <1>5, <1>7, <2>1 DEF IInv, TypeOK, Buffer
    <2>3. Reading'
        BY <2>1 DEF Reading
    <2>4. Len(payload') = announced
        <3>1. Len(payload') \in Nat
            BY <1>4
        <3>. QED  BY <1>4, <1>10, <3>1
    <2>5. VerdictOfTheWhole'
        BY <1>4, <1>8, <1>10, <2>1, <2>4 DEF VerdictOfTheWhole
    <2>. QED  BY <1>4, <2>1, <2>2, <2>3, <2>5, NotAssigned DEF IInv
<1>11. CASE ~(Len(payload') < announced) /\ state = 0
    <2>1. utf8State' = 0 /\ outcome' = "read" /\ Becomes(set_len(c, announced))
        BY <1>3, <1>11 DEF UTF8_ACCEPT
    <2>2. Len(payload') = announced
        <3>1. Len(payload') \in Nat
            BY <1>4
        <3>. QED  BY <1>4, <1>11, <3>1
    <2>3. len' = announced /\ buf' \in Buffer /\ buf'[len'] = 0 /\ Value' = payload'
        BY <1>4, <1>5, <2>1, <2>2, Finished
    <2>4. TypeOK'
        BY <1>4, <1>7, <1>11, <2>1, <2>3 DEF IInv, TypeOK, Buffer
    <2>5. Terminated' /\ Reading'
        BY <2>1, <2>3 DEF Terminated, Reading
    <2>6. VerdictOfTheWhole'
        BY <1>4, <1>8, <1>11, <2>1, <2>2, <2>3 DEF VerdictOfTheWhole
    <2>. QED  BY <1>4, <2>4, <2>5, <2>6, NotAssigned DEF IInv
<1>. QED  BY <1>9, <1>10, <1>11

\* Every step keeps the invariant.
LEMMA NextIInv == IInv /\ [Next]_vars => IInv'
<1>. SUFFICES ASSUME IInv, [Next]_vars PROVE IInv'
    OBVIOUS
<1>1. CASE UNCHANGED vars
    <2>1. Value' = Value
        BY <1>1 DEF vars, Value
    <2>. QED  BY <1>1, <2>1
              DEF vars, IInv, TypeOK, Terminated, Whole, Reading, VerdictOfTheWhole, KeepsCharacters
<1>2. ASSUME NEW sv \in Assignable, Assign(sv) PROVE IInv'
    BY <1>2, AssignKeeps
<1>3. ASSUME NEW i \in 0..(N - 1), NEW b \in Bytes, Write(i, b) PROVE IInv'
    BY <1>3, WriteKeeps
<1>4. CASE Clear
    BY <1>4, ClearKeeps
<1>5. CASE TooLong
    BY <1>5, TooLongKeeps
<1>6. CASE Reset
    BY <1>6, ResetKeeps
<1>7. ASSUME NEW n \in Payloads, Announce(n) PROVE IInv'
    BY <1>7, AnnounceKeeps
<1>8. ASSUME NEW n \in Missing, NEW d \in [1..n -> Bytes], ReadWhole(d) \/ ReadPiece(d)
      PROVE  IInv'
    BY <1>8, ReadWholeKeeps, ReadPieceKeeps
<1>. QED  BY <1>1, <1>2, <1>3, <1>4, <1>5, <1>6, <1>7, <1>8 DEF Next

------------------------------------------------------------------------------
(* What the runs check, for every capacity, every payload and every cut of it.  *)

\* The invariant holds.
THEOREM TextInvariant == Spec => []IInv
BY InitIInv, NextIInv, PTL DEF Spec

\* No text is longer than its buffer, and its last slot holds a NUL (779-783).
THEOREM TextTyped == Spec => []TypeOK
<1>1. IInv => TypeOK
    BY DEF IInv
<1>. QED  BY <1>1, TextInvariant, PTL

\* A text that was assigned, cleared or read whole ends in a NUL (782-783).
THEOREM TextTerminated == Spec => []Terminated
<1>1. IInv => Terminated
    BY DEF IInv
<1>. QED  BY <1>1, TextInvariant, PTL

\* However a payload is cut, it is read exactly if it is UTF-8, and then the text is
\* what arrived (535-547, 3565-3667).
THEOREM VerdictIsOfTheWhole == Spec => []VerdictOfTheWhole
<1>1. IInv => VerdictOfTheWhole
    BY DEF IInv
<1>. QED  BY <1>1, TextInvariant, PTL

\* Between two pieces the state tells the prefixes that are UTF-8 from the others,
\* with the byte that comes next too (552-558).
THEOREM StateIsOfThePrefix == Spec => []StateOfThePrefix
<1>1. ASSUME IInv PROVE StateOfThePrefix
    <2>. SUFFICES ASSUME outcome = "reading"
                  PROVE  /\ utf8State = 0 <=> WellFormed(payload)
                         /\ \A b \in Byte : Step(utf8State, b) = 0 <=> WellFormed(Append(payload, b))
        BY DEF StateOfThePrefix, UTF8_ACCEPT
    <2>. payload \in Seq(Byte) /\ utf8State = utf8Advance(0, payload) /\ utf8State \in State
        BY <1>1, Typed DEF IInv, Reading
    <2>1. ASSUME NEW b \in Byte
          PROVE  Step(utf8State, b) = 0 <=> WellFormed(Append(payload, b))
        <3>1. PICK d : d = <<b>>
            OBVIOUS
        <3>2. d \in Seq(Byte) /\ Len(d) = 1 /\ d[1] = b
            BY <3>1
        <3>3. Append(payload, b) = payload \o d /\ payload \o d \in Seq(Byte)
            BY <3>1
        <3>4. After(utf8State, d)[1] = Step(utf8State, b)
            <4>1. 1 \in 1..Len(d) /\ 1 - 1 = 0
                BY <3>2
            <4>. QED  BY <3>2, <4>1, AfterSteps
        <3>5. utf8Advance(0, payload \o d) = Step(utf8State, b)
            BY <3>2, <3>4, Pieces DEF utf8Advance
        <3>. QED  BY <3>3, <3>5, AcceptedIsWellFormed
    <2>. QED  BY <2>1, AcceptedIsWellFormed
<1>. QED  BY <1>1, TextInvariant, PTL

\* What is kept of a text that is too long is its longest prefix that fits and is
\* UTF-8, if the text is (866-869).
THEOREM CutsBetweenCharacters == Spec => []KeepsCharacters
<1>1. IInv => KeepsCharacters
    BY DEF IInv
<1>. QED  BY <1>1, TextInvariant, PTL

=============================================================================

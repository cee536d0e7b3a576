------------------------- MODULE ChatProtocolProofs -------------------------
(* The messages of ChatProtocol come out of the connection whole and in     *)
(* order, whatever pieces they travel in: for any width of a byte and of a  *)
(* word, any characters, any longest message and any window.                *)
EXTENDS ChatProtocol, MessageParserProofs

-----------------------------------------------------------------------------
(* Functions defined step by step                                           *)

LEMMA NatMin ==
    ASSUME NEW N \in Nat, NEW S \in SUBSET (0 .. N), 0 \in S,
           \A i \in 1 .. N : i - 1 \in S => i \in S
    PROVE  S = 0 .. N
<1> SUFFICES ASSUME 0 .. N \ S # {} PROVE FALSE
  OBVIOUS
<1>1. PICK m \in 0 .. N \ S : \A j \in 0 .. N \ S : m <= j
  <2> DEFINE D == 0 .. N \ S
  <2>1. D \subseteq Nat /\ D # {}
    OBVIOUS
  <2> HIDE DEF D
  <2>2. \E i \in D : \A j \in D : i <= j
    BY <2>1, LeastOf
  <2> QED BY <2>2 DEF D
<1>2. m \in 1 .. N /\ m - 1 \in 0 .. N
  BY <1>1
<1>3. m - 1 \in S
  BY <1>1, <1>2
<1> QED BY <1>1, <1>2, <1>3

\* f begins with v, and every value is made from the one before it.
IsByStep(f, N, V, v, step) ==
    /\ f \in [0 .. N -> V]
    /\ f[0] = v
    /\ \A i \in 1 .. N : f[i] = step[i][f[i - 1]]

LEMMA StepByStep ==
    ASSUME NEW N \in Nat, NEW V, NEW v \in V, NEW step \in [1 .. N -> [V -> V]]
    PROVE  \E f : IsByStep(f, N, V, v, step)
<1> DEFINE Upto(n, f) == f[0] = v /\ \A i \in 1 .. n : f[i] = step[i][f[i - 1]]
           S == {n \in 0 .. N : \E f \in [0 .. n -> V] : Upto(n, f)}
<1>1. 0 \in S
  <2> DEFINE f == [i \in 0 .. 0 |-> v]
  <2>1. f \in [0 .. 0 -> V] /\ f[0] = v
    OBVIOUS
  <2>2. 1 .. 0 = {}
    OBVIOUS
  <2> HIDE DEF f
  <2>3. Upto(0, f)
    BY <2>1, <2>2
  <2> QED BY <2>1, <2>3
<1>2. ASSUME NEW n \in 1 .. N, n - 1 \in S PROVE n \in S
  <2>1. PICK f \in [0 .. n - 1 -> V] : Upto(n - 1, f)
    BY <1>2
  <2>2. /\ n \in Nat /\ 0 \in 0 .. n /\ 0 # n /\ n \in 0 .. n /\ n - 1 \in 0 .. n
        /\ n - 1 # n /\ n - 1 \in 0 .. n - 1 /\ 0 \in 0 .. n - 1
    OBVIOUS
  <2> DEFINE u == step[n][f[n - 1]]
             g == [i \in 0 .. n |-> IF i = n THEN u ELSE f[i]]
  <2>3. u \in V
    <3>1. f[n - 1] \in V
      BY <2>2
    <3> QED BY <3>1
  <2> HIDE DEF u
  <2>4. g \in [0 .. n -> V]
    BY <2>3
  <2>5. g[0] = v
    <3>1. g[0] = f[0]
      BY <2>2
    <3> QED BY <2>1, <3>1
  <2>6. g[n] = u /\ g[n - 1] = f[n - 1]
    BY <2>2
  <2>7. ASSUME NEW i \in 1 .. n PROVE g[i] = step[i][g[i - 1]]
    <3>1. CASE i = n
      BY <2>6, <3>1 DEF u
    <3>2. CASE i # n
      <4>1. /\ i \in 1 .. n - 1 /\ i \in 0 .. n /\ i - 1 \in 0 .. n /\ i - 1 # n
        BY <2>2, <3>2
      <4>2. g[i] = f[i] /\ g[i - 1] = f[i - 1]
        BY <3>2, <4>1
      <4>3. f[i] = step[i][f[i - 1]]
        BY <2>1, <4>1
      <4> QED BY <4>2, <4>3
    <3> QED BY <3>1, <3>2
  <2> HIDE DEF g
  <2>8. Upto(n, g)
    BY <2>5, <2>7
  <2>9. n \in 0 .. N
    OBVIOUS
  <2> QED BY <2>4, <2>8, <2>9
<1> HIDE DEF S
<1>3. S \in SUBSET (0 .. N)
  BY DEF S
<1>4. N \in S
  BY <1>1, <1>2, <1>3, NatMin
<1> QED BY <1>4 DEF S, IsByStep

-----------------------------------------------------------------------------
(* The bytes of a word                                                      *)

ByteSet == 0 .. BYTE - 1
Bytes == [1 .. WORD_BYTES -> ByteSet]

LEMMA Sizes ==
    /\ BYTE \in Nat \ {0} /\ WORD_BYTES \in Nat \ {0}
    /\ MESSAGE_MAXLENGTH \in Nat \ {0} /\ MESSAGE_MAXLENGTH < WORD \div 2
    /\ Window \in Nat \ {0} /\ MaxTyped \in Nat
BY ProtocolAssumption

LEMMA DivisionUnique ==
    ASSUME NEW b \in Nat \ {0}, NEW q \in Nat, NEW r \in 0 .. b - 1
    PROVE  /\ b * q + r \in Nat
           /\ (b * q + r) \div b = q /\ (b * q + r) % b = r
OBVIOUS

LEMMA Division ==
    ASSUME NEW a \in Nat, NEW b \in Nat \ {0}
    PROVE  /\ a \div b \in Nat /\ a % b \in 0 .. b - 1
           /\ a = b * (a \div b) + (a % b)
<1>1. a \div b \in Nat
  OBVIOUS
<1>2. a % b \in 0 .. b - 1
  OBVIOUS
<1>3. a = b * (a \div b) + (a % b)
  OBVIOUS
<1> QED BY <1>1, <1>2, <1>3

LEMMA ProductMonotone ==
    ASSUME NEW a \in Nat, NEW m \in Nat, NEW n \in Nat, m <= n
    PROVE  a * m \in Nat /\ a * n \in Nat /\ a * m <= a * n
<1>1. PICK d \in Nat : n = m + d
  <2>1. n - m \in Nat /\ n = m + (n - m)
    OBVIOUS
  <2> QED BY <2>1
<1>2. a * m \in Nat /\ a * d \in Nat
  OBVIOUS
<1>3. a * (m + d) = a * m + a * d
  OBVIOUS
<1> QED BY <1>1, <1>2, <1>3

LEMMA ValuesByStep ==
    /\ Values \in [0 .. WORD_BYTES -> Nat] /\ Values[0] = 1
    /\ \A i \in 1 .. WORD_BYTES : Values[i] = BYTE * Values[i - 1]
<1> DEFINE F(f) == [i \in 0 .. WORD_BYTES |-> IF i = 0 THEN 1 ELSE BYTE * f[i - 1]]
           step == [i \in 1 .. WORD_BYTES |-> [x \in Nat |-> BYTE * x]]
           values == CHOOSE f : f = F(f)
<1>1. step \in [1 .. WORD_BYTES -> [Nat -> Nat]]
  BY Sizes
<1>2. \A i \in 1 .. WORD_BYTES : \A x \in Nat : step[i][x] = BYTE * x
  OBVIOUS
<1> HIDE DEF step
<1>3. PICK f : IsByStep(f, WORD_BYTES, Nat, 1, step)
  <2>1. WORD_BYTES \in Nat /\ 1 \in Nat
    BY Sizes
  <2> QED BY <1>1, <2>1, StepByStep
<1>4. \A i \in 0 .. WORD_BYTES : f[i] = IF i = 0 THEN 1 ELSE BYTE * f[i - 1]
  <2> TAKE i \in 0 .. WORD_BYTES
  <2>1. i # 0 => i \in 1 .. WORD_BYTES /\ i - 1 \in 0 .. WORD_BYTES
    BY Sizes
  <2> QED BY <1>2, <1>3, <2>1 DEF IsByStep
<1>5. f = F(f)
  BY <1>3, <1>4 DEF IsByStep
<1>6. values = F(values) /\ Values = values
  BY <1>5 DEF Values
<1>7. Values = F(Values)
  BY <1>6
<1>8. \A i \in 0 .. WORD_BYTES : Values[i] = IF i = 0 THEN 1 ELSE BYTE * Values[i - 1]
  BY <1>7
<1>9. {i \in 0 .. WORD_BYTES : Values[i] \in Nat} = 0 .. WORD_BYTES
  <2> DEFINE S == {i \in 0 .. WORD_BYTES : Values[i] \in Nat}
  <2>1. 0 \in S
    BY <1>8, Sizes
  <2>2. ASSUME NEW i \in 1 .. WORD_BYTES, i - 1 \in S PROVE i \in S
    <3>1. i \in 0 .. WORD_BYTES /\ i # 0
      BY Sizes
    <3>2. Values[i] = BYTE * Values[i - 1]
      BY <1>8, <3>1
    <3>3. BYTE * Values[i - 1] \in Nat
      BY <2>2, Sizes
    <3> QED BY <3>1, <3>2, <3>3
  <2>3. S \in SUBSET (0 .. WORD_BYTES) /\ WORD_BYTES \in Nat
    BY Sizes
  <2> HIDE DEF S
  <2>4. S = 0 .. WORD_BYTES
    BY <2>1, <2>2, <2>3, NatMin
  <2> QED BY <2>4 DEF S
<1>10. Values \in [0 .. WORD_BYTES -> Nat]
  BY <1>7, <1>9
<1> QED BY <1>8, <1>10, Sizes

\* What is left of n when bytes have been taken from it, one after the other,
\* and the number that bytes make, the highest first.
IsRest(f, n) ==
    /\ f \in [0 .. WORD_BYTES -> Nat] /\ f[0] = n
    /\ \A i \in 1 .. WORD_BYTES : f[i] = f[i - 1] \div BYTE
IsSum(f, bytes) ==
    /\ f \in [0 .. WORD_BYTES -> Nat] /\ f[0] = 0
    /\ \A i \in 1 .. WORD_BYTES : f[i] = BYTE * f[i - 1] + bytes[WORD_BYTES + 1 - i]

LEMMA BytesByStep ==
    ASSUME NEW n \in Nat
    PROVE  \E f : IsRest(f, n) /\ BytesOf(n) = [i \in 1 .. WORD_BYTES |-> f[i - 1] % BYTE]
<1> DEFINE F(f) == [i \in 0 .. WORD_BYTES |-> IF i = 0 THEN n ELSE f[i - 1] \div BYTE]
           step == [i \in 1 .. WORD_BYTES |-> [x \in Nat |-> x \div BYTE]]
           rest == CHOOSE f : f = F(f)
<1>1. step \in [1 .. WORD_BYTES -> [Nat -> Nat]]
  <2>1. \A x \in Nat : x \div BYTE \in Nat
    BY Sizes, Division
  <2> QED BY <2>1
<1>2. \A i \in 1 .. WORD_BYTES : \A x \in Nat : step[i][x] = x \div BYTE
  OBVIOUS
<1> HIDE DEF step
<1>3. PICK f : IsByStep(f, WORD_BYTES, Nat, n, step)
  <2>1. WORD_BYTES \in Nat
    BY Sizes
  <2> QED BY <1>1, <2>1, StepByStep
<1>4. \A i \in 1 .. WORD_BYTES : f[i] = f[i - 1] \div BYTE
  <2> TAKE i \in 1 .. WORD_BYTES
  <2>1. i - 1 \in 0 .. WORD_BYTES
    BY Sizes
  <2> QED BY <1>2, <1>3, <2>1 DEF IsByStep
<1>5. IsRest(f, n)
  BY <1>3, <1>4 DEF IsByStep, IsRest
<1>6. \A i \in 0 .. WORD_BYTES : f[i] = IF i = 0 THEN n ELSE f[i - 1] \div BYTE
  <2> TAKE i \in 0 .. WORD_BYTES
  <2>1. i # 0 => i \in 1 .. WORD_BYTES
    BY Sizes
  <2> QED BY <1>5, <2>1 DEF IsRest
<1>7. f = F(f)
  BY <1>5, <1>6 DEF IsRest
<1>8. rest = F(rest)
  BY <1>7
<1>9. BytesOf(n) = [i \in 1 .. WORD_BYTES |-> rest[i - 1] % BYTE]
  BY DEF BytesOf
<1> HIDE DEF rest
<1>10. \A i \in 0 .. WORD_BYTES : rest[i] = IF i = 0 THEN n ELSE rest[i - 1] \div BYTE
  BY <1>8
<1>11. {i \in 0 .. WORD_BYTES : rest[i] \in Nat} = 0 .. WORD_BYTES
  <2> DEFINE S == {i \in 0 .. WORD_BYTES : rest[i] \in Nat}
  <2>1. 0 \in S
    BY <1>10, Sizes
  <2>2. ASSUME NEW i \in 1 .. WORD_BYTES, i - 1 \in S PROVE i \in S
    <3>1. i \in 0 .. WORD_BYTES /\ i # 0
      BY Sizes
    <3>2. rest[i] = rest[i - 1] \div BYTE
      BY <1>10, <3>1
    <3>3. rest[i - 1] \div BYTE \in Nat
      BY <2>2, Division, Sizes
    <3> QED BY <3>1, <3>2, <3>3
  <2>3. S \in SUBSET (0 .. WORD_BYTES) /\ WORD_BYTES \in Nat
    BY Sizes
  <2> HIDE DEF S
  <2>4. S = 0 .. WORD_BYTES
    BY <2>1, <2>2, <2>3, NatMin
  <2> QED BY <2>4 DEF S
<1>12. rest \in [0 .. WORD_BYTES -> Nat]
  BY <1>8, <1>11
<1>13. \A i \in 1 .. WORD_BYTES : rest[i] = rest[i - 1] \div BYTE
  BY <1>10, Sizes
<1>14. IsRest(rest, n)
  BY <1>10, <1>12, <1>13, Sizes DEF IsRest
<1> QED BY <1>9, <1>14

LEMMA ValueByStep ==
    ASSUME NEW bytes \in Bytes
    PROVE  \E f : IsSum(f, bytes) /\ ValueOf(bytes) = f[WORD_BYTES]
<1> DEFINE B(i) == bytes[WORD_BYTES + 1 - i]
           F(f) == [i \in 0 .. WORD_BYTES |-> IF i = 0 THEN 0 ELSE BYTE * f[i - 1] + B(i)]
           step == [i \in 1 .. WORD_BYTES |-> [x \in Nat |-> BYTE * x + B(i)]]
           sum == CHOOSE f : f = F(f)
<1>1. ASSUME NEW i \in 1 .. WORD_BYTES, NEW x \in Nat PROVE BYTE * x + B(i) \in Nat
  <2>1. WORD_BYTES + 1 - i \in 1 .. WORD_BYTES
    BY Sizes
  <2>2. B(i) \in Nat
    BY <2>1, Sizes DEF Bytes, ByteSet
  <2>3. BYTE * x \in Nat
    BY Sizes
  <2> QED BY <2>2, <2>3
<1>2. step \in [1 .. WORD_BYTES -> [Nat -> Nat]]
  BY <1>1
<1>3. \A i \in 1 .. WORD_BYTES : \A x \in Nat : step[i][x] = BYTE * x + B(i)
  OBVIOUS
<1> HIDE DEF step
<1>4. PICK f : IsByStep(f, WORD_BYTES, Nat, 0, step)
  <2>1. WORD_BYTES \in Nat /\ 0 \in Nat
    BY Sizes
  <2> QED BY <1>2, <2>1, StepByStep
<1>5. \A i \in 1 .. WORD_BYTES : f[i] = BYTE * f[i - 1] + B(i)
  <2> TAKE i \in 1 .. WORD_BYTES
  <2>1. i - 1 \in 0 .. WORD_BYTES
    BY Sizes
  <2>2. f[i] = step[i][f[i - 1]] /\ f[i - 1] \in Nat
    BY <1>4, <2>1 DEF IsByStep
  <2> HIDE DEF B
  <2> QED BY <1>3, <2>2
<1> HIDE DEF B
<1>6. \A i \in 0 .. WORD_BYTES : f[i] = IF i = 0 THEN 0 ELSE BYTE * f[i - 1] + B(i)
  <2> TAKE i \in 0 .. WORD_BYTES
  <2>1. i # 0 => i \in 1 .. WORD_BYTES
    BY Sizes
  <2> QED BY <1>4, <1>5, <2>1 DEF IsByStep
<1>7. f = F(f)
  BY <1>4, <1>6 DEF IsByStep
<1>8. sum = F(sum)
  BY <1>7
<1>9. ValueOf(bytes) = sum[WORD_BYTES]
  BY DEF ValueOf, B
<1> HIDE DEF sum
<1>10. \A i \in 0 .. WORD_BYTES : sum[i] = IF i = 0 THEN 0 ELSE BYTE * sum[i - 1] + B(i)
  BY <1>8
<1>11. {i \in 0 .. WORD_BYTES : sum[i] \in Nat} = 0 .. WORD_BYTES
  <2> DEFINE S == {i \in 0 .. WORD_BYTES : sum[i] \in Nat}
  <2>1. 0 \in S
    BY <1>10, Sizes
  <2>2. ASSUME NEW i \in 1 .. WORD_BYTES, i - 1 \in S PROVE i \in S
    <3>1. i \in 0 .. WORD_BYTES /\ i # 0
      BY Sizes
    <3>2. sum[i] = BYTE * sum[i - 1] + B(i)
      BY <1>10, <3>1
    <3>3. BYTE * sum[i - 1] + B(i) \in Nat
      BY <1>1, <2>2
    <3> QED BY <3>1, <3>2, <3>3
  <2>3. S \in SUBSET (0 .. WORD_BYTES) /\ WORD_BYTES \in Nat
    BY Sizes
  <2> HIDE DEF S
  <2>4. S = 0 .. WORD_BYTES
    BY <2>1, <2>2, <2>3, NatMin
  <2> QED BY <2>4 DEF S
<1>12. sum \in [0 .. WORD_BYTES -> Nat]
  BY <1>8, <1>11
<1>13. \A i \in 1 .. WORD_BYTES : sum[i] = BYTE * sum[i - 1] + B(i)
  BY <1>10, Sizes
<1>14. IsSum(sum, bytes)
  BY <1>10, <1>12, <1>13, Sizes DEF IsSum, B
<1> QED BY <1>9, <1>14

LEMMA BytesOfType ==
    ASSUME NEW n \in Nat
    PROVE  BytesOf(n) \in Bytes
<1>1. PICK f : IsRest(f, n) /\ BytesOf(n) = [i \in 1 .. WORD_BYTES |-> f[i - 1] % BYTE]
  BY BytesByStep
<1>2. ASSUME NEW i \in 1 .. WORD_BYTES PROVE f[i - 1] % BYTE \in ByteSet
  <2>1. i - 1 \in 0 .. WORD_BYTES
    BY Sizes
  <2>2. f[i - 1] \in Nat
    BY <1>1, <2>1 DEF IsRest
  <2> QED BY <2>2, Division, Sizes DEF ByteSet
<1> QED BY <1>1, <1>2 DEF Bytes

LEMMA WordIsValues == WORD = Values[WORD_BYTES] /\ WORD \in Nat \ {0}
BY ProtocolAssumption, ParserAssumption

LEMMA ValueOfType ==
    ASSUME NEW bytes \in Bytes
    PROVE  ValueOf(bytes) \in 0 .. WORD - 1
<1>1. PICK f : IsSum(f, bytes) /\ ValueOf(bytes) = f[WORD_BYTES]
  BY ValueByStep
<1> DEFINE S == {i \in 0 .. WORD_BYTES : f[i] + 1 <= Values[i]}
<1>2. 0 \in S
  BY <1>1, ValuesByStep, Sizes DEF IsSum
<1>3. ASSUME NEW i \in 1 .. WORD_BYTES, i - 1 \in S PROVE i \in S
  <2>1. i \in 0 .. WORD_BYTES /\ i - 1 \in 0 .. WORD_BYTES /\ WORD_BYTES + 1 - i \in 1 .. WORD_BYTES
    BY Sizes
  <2>2. /\ f[i - 1] \in Nat /\ f[i] = BYTE * f[i - 1] + bytes[WORD_BYTES + 1 - i]
        /\ Values[i - 1] \in Nat /\ Values[i] = BYTE * Values[i - 1]
    BY <1>1, <2>1, ValuesByStep DEF IsSum
  <2>3. bytes[WORD_BYTES + 1 - i] \in 0 .. BYTE - 1
    BY <2>1 DEF Bytes, ByteSet
  <2>4. f[i - 1] + 1 <= Values[i - 1]
    BY <1>3
  <2>5. BYTE * (f[i - 1] + 1) <= BYTE * Values[i - 1]
    <3>1. f[i - 1] + 1 \in Nat /\ BYTE \in Nat
      BY <2>2, Sizes
    <3> QED BY <2>2, <2>4, <3>1, ProductMonotone
  <2>6. BYTE * (f[i - 1] + 1) = BYTE * f[i - 1] + BYTE
    BY <2>2, Sizes
  <2>7. BYTE * f[i - 1] \in Nat /\ BYTE * Values[i - 1] \in Nat /\ BYTE \in Nat
    BY <2>2, Sizes
  <2>8. f[i] + 1 <= Values[i]
    <3> HIDE DEF S
    <3> QED BY <2>2, <2>3, <2>5, <2>6, <2>7
  <2> QED BY <2>1, <2>8
<1>4. S \in SUBSET (0 .. WORD_BYTES) /\ WORD_BYTES \in Nat
  BY Sizes
<1>5. S = 0 .. WORD_BYTES
  <2> HIDE DEF S
  <2> QED BY <1>2, <1>3, <1>4, NatMin
<1>6. WORD_BYTES \in 0 .. WORD_BYTES
  BY Sizes
<1>7. f[WORD_BYTES] \in Nat /\ f[WORD_BYTES] + 1 <= Values[WORD_BYTES]
  BY <1>1, <1>5, <1>6 DEF IsSum
<1> QED BY <1>1, <1>7, WordIsValues

\* The bytes of a number that fits a word are all that there is of it.
LEMMA NothingIsLeft ==
    ASSUME NEW n \in 0 .. WORD - 1, NEW f, IsRest(f, n)
    PROVE  f[WORD_BYTES] = 0
<1> DEFINE S == {i \in 0 .. WORD_BYTES : f[i] + 1 <= Values[WORD_BYTES - i]}
<1>1. 0 \in S
  <2>1. WORD_BYTES - 0 = WORD_BYTES /\ 0 \in 0 .. WORD_BYTES
    BY Sizes
  <2>2. f[0] + 1 <= Values[WORD_BYTES]
    BY WordIsValues DEF IsRest
  <2> QED BY <2>1, <2>2
<1>2. ASSUME NEW i \in 1 .. WORD_BYTES, i - 1 \in S PROVE i \in S
  <2> DEFINE j == WORD_BYTES + 1 - i
  <2>1. /\ i \in 0 .. WORD_BYTES /\ i - 1 \in 0 .. WORD_BYTES /\ j \in 1 .. WORD_BYTES
        /\ WORD_BYTES - (i - 1) = j /\ WORD_BYTES - i = j - 1 /\ j - 1 \in 0 .. WORD_BYTES
    BY Sizes
  <2>2. f[i - 1] + 1 <= Values[j]
    BY <1>2, <2>1
  <2> HIDE DEF S, j
  <2>3. /\ f[i - 1] \in Nat /\ f[i] = f[i - 1] \div BYTE
        /\ Values[j - 1] \in Nat /\ Values[j] = BYTE * Values[j - 1]
    BY <2>1, ValuesByStep DEF IsRest
  <2>4. /\ f[i] \in Nat /\ f[i - 1] % BYTE \in 0 .. BYTE - 1
        /\ f[i - 1] = BYTE * f[i] + (f[i - 1] % BYTE)
    BY <2>3, Division, Sizes
  <2>5. SUFFICES ASSUME Values[j - 1] <= f[i] PROVE FALSE
    <3>1. f[i] + 1 <= Values[j - 1] => i \in S
      BY <2>1 DEF S
    <3> QED BY <2>3, <2>4, <3>1
  <2>6. /\ BYTE * Values[j - 1] \in Nat /\ BYTE * f[i] \in Nat
        /\ BYTE * Values[j - 1] <= BYTE * f[i]
    <3>1. PICK v \in Nat, u \in Nat : v = Values[j - 1] /\ u = f[i] /\ v <= u
      BY <2>3, <2>4, <2>5
    <3>2. BYTE \in Nat
      BY Sizes
    <3>3. BYTE * v \in Nat /\ BYTE * u \in Nat /\ BYTE * v <= BYTE * u
      BY <3>1, <3>2, ProductMonotone
    <3> QED BY <3>1, <3>3
  <2> QED BY <2>2, <2>3, <2>4, <2>6
<1>3. S \in SUBSET (0 .. WORD_BYTES) /\ WORD_BYTES \in Nat
  BY Sizes
<1>4. S = 0 .. WORD_BYTES
  <2> HIDE DEF S
  <2> QED BY <1>1, <1>2, <1>3, NatMin
<1>5. WORD_BYTES \in 0 .. WORD_BYTES /\ WORD_BYTES - WORD_BYTES = 0
  BY Sizes
<1>6. f[WORD_BYTES] \in Nat /\ f[WORD_BYTES] + 1 <= Values[0]
  BY <1>4, <1>5 DEF IsRest
<1> QED BY <1>6, ValuesByStep

\* A number is what its bytes say.
LEMMA ValueOfBytesOf ==
    ASSUME NEW n \in 0 .. WORD - 1
    PROVE  ValueOf(BytesOf(n)) = n
<1>1. n \in Nat
  BY WordIsValues
<1>2. PICK f : IsRest(f, n) /\ BytesOf(n) = [i \in 1 .. WORD_BYTES |-> f[i - 1] % BYTE]
  BY <1>1, BytesByStep
<1>3. PICK g : IsSum(g, BytesOf(n)) /\ ValueOf(BytesOf(n)) = g[WORD_BYTES]
  BY <1>1, BytesOfType, ValueByStep
<1> DEFINE S == {i \in 0 .. WORD_BYTES : g[i] = f[WORD_BYTES - i]}
<1>4. 0 \in S
  <2>1. WORD_BYTES - 0 = WORD_BYTES /\ 0 \in 0 .. WORD_BYTES
    BY Sizes
  <2>2. f[WORD_BYTES] = 0 /\ g[0] = 0
    BY <1>2, <1>3, NothingIsLeft DEF IsSum
  <2> QED BY <2>1, <2>2
<1>5. ASSUME NEW i \in 1 .. WORD_BYTES, i - 1 \in S PROVE i \in S
  <2> DEFINE j == WORD_BYTES + 1 - i
  <2>1. /\ i \in 0 .. WORD_BYTES /\ i - 1 \in 0 .. WORD_BYTES /\ j \in 1 .. WORD_BYTES
        /\ WORD_BYTES - (i - 1) = j /\ WORD_BYTES - i = j - 1 /\ j - 1 \in 0 .. WORD_BYTES
    BY Sizes
  <2>2. g[i - 1] = f[j] /\ g[i] = BYTE * g[i - 1] + BytesOf(n)[j]
    BY <1>3, <1>5, <2>1 DEF IsSum
  <2>3. i \in S <=> g[i] = f[j - 1]
    BY <2>1
  <2> HIDE DEF S, j
  <2>4. BytesOf(n)[j] = f[j - 1] % BYTE /\ f[j] = f[j - 1] \div BYTE /\ f[j - 1] \in Nat
    BY <1>2, <2>1 DEF IsRest
  <2>5. f[j - 1] = BYTE * (f[j - 1] \div BYTE) + (f[j - 1] % BYTE)
    BY <2>4, Division, Sizes
  <2> QED BY <2>2, <2>3, <2>4, <2>5
<1>6. S \in SUBSET (0 .. WORD_BYTES) /\ WORD_BYTES \in Nat
  BY Sizes
<1>7. S = 0 .. WORD_BYTES
  <2> HIDE DEF S
  <2> QED BY <1>4, <1>5, <1>6, NatMin
<1>8. WORD_BYTES \in 0 .. WORD_BYTES /\ WORD_BYTES - WORD_BYTES = 0
  BY Sizes
<1>9. g[WORD_BYTES] = f[0]
  BY <1>7, <1>8
<1> QED BY <1>2, <1>3, <1>9 DEF IsRest

\* Bytes are what the number they make is made of.
LEMMA BytesOfValueOf ==
    ASSUME NEW bytes \in Bytes
    PROVE  BytesOf(ValueOf(bytes)) = bytes
<1> DEFINE n == ValueOf(bytes)
<1>1. n \in Nat
  BY ValueOfType, WordIsValues
<1>2. PICK g : IsSum(g, bytes) /\ n = g[WORD_BYTES]
  BY ValueByStep
<1> HIDE DEF n
<1>3. PICK f : IsRest(f, n) /\ BytesOf(n) = [i \in 1 .. WORD_BYTES |-> f[i - 1] % BYTE]
  BY <1>1, BytesByStep
<1>4. ASSUME NEW i \in 1 .. WORD_BYTES, f[i - 1] = g[WORD_BYTES + 1 - i]
      PROVE  f[i] = g[WORD_BYTES - i] /\ f[i - 1] % BYTE = bytes[i]
  <2> DEFINE j == WORD_BYTES + 1 - i
  <2>1. /\ i \in 0 .. WORD_BYTES /\ i - 1 \in 0 .. WORD_BYTES /\ j \in 1 .. WORD_BYTES
        /\ WORD_BYTES + 1 - j = i /\ WORD_BYTES - i = j - 1 /\ j - 1 \in 0 .. WORD_BYTES
    BY Sizes
  <2>2. f[i - 1] = g[j]
    BY <1>4
  <2> HIDE DEF j
  <2>3. /\ g[j] = BYTE * g[j - 1] + bytes[i] /\ g[j - 1] \in Nat
        /\ f[i] = f[i - 1] \div BYTE
    BY <1>2, <1>3, <2>1 DEF IsSum, IsRest
  <2>4. bytes[i] \in 0 .. BYTE - 1
    BY DEF Bytes, ByteSet
  <2>5. /\ (BYTE * g[j - 1] + bytes[i]) \div BYTE = g[j - 1]
        /\ (BYTE * g[j - 1] + bytes[i]) % BYTE = bytes[i]
    <3>1. \A q \in Nat : \A r \in 0 .. BYTE - 1 :
              (BYTE * q + r) \div BYTE = q /\ (BYTE * q + r) % BYTE = r
      BY DivisionUnique, Sizes
    <3> QED BY <2>3, <2>4, <3>1
  <2> QED BY <2>1, <2>2, <2>3, <2>5
<1> DEFINE S == {i \in 0 .. WORD_BYTES : f[i] = g[WORD_BYTES - i]}
<1>5. 0 \in S
  <2>1. WORD_BYTES - 0 = WORD_BYTES /\ 0 \in 0 .. WORD_BYTES
    BY Sizes
  <2> QED BY <1>2, <1>3, <2>1 DEF IsRest
<1>6. ASSUME NEW i \in 1 .. WORD_BYTES, i - 1 \in S PROVE i \in S
  <2>1. WORD_BYTES - (i - 1) = WORD_BYTES + 1 - i /\ i \in 0 .. WORD_BYTES
    BY Sizes
  <2> QED BY <1>4, <1>6, <2>1
<1>7. S \in SUBSET (0 .. WORD_BYTES) /\ WORD_BYTES \in Nat
  BY Sizes
<1>8. S = 0 .. WORD_BYTES
  <2> HIDE DEF S
  <2> QED BY <1>5, <1>6, <1>7, NatMin
<1>9. ASSUME NEW i \in 1 .. WORD_BYTES PROVE f[i - 1] % BYTE = bytes[i]
  <2>1. i - 1 \in 0 .. WORD_BYTES /\ WORD_BYTES - (i - 1) = WORD_BYTES + 1 - i
    BY Sizes
  <2>2. f[i - 1] = g[WORD_BYTES + 1 - i]
    BY <1>8, <2>1
  <2> QED BY <1>4, <2>2
<1>10. [i \in 1 .. WORD_BYTES |-> f[i - 1] % BYTE] = bytes
  BY <1>9 DEF Bytes
<1> QED BY <1>3, <1>10 DEF n

\* htonl and ntohl undo each other, and both stay within the word.
LEMMA SwapBytesTwice ==
    ASSUME NEW n \in 0 .. WORD - 1
    PROVE  SwapBytes(n) \in 0 .. WORD - 1 /\ SwapBytes(SwapBytes(n)) = n
<1> DEFINE Back(b) == [i \in 1 .. WORD_BYTES |-> b[WORD_BYTES + 1 - i]]
           b == BytesOf(n)
<1>1. b \in Bytes
  BY BytesOfType, WordIsValues
<1> HIDE DEF b
<1>2. ASSUME NEW i \in 1 .. WORD_BYTES
      PROVE  WORD_BYTES + 1 - i \in 1 .. WORD_BYTES /\ WORD_BYTES + 1 - (WORD_BYTES + 1 - i) = i
  BY Sizes
<1>3. Back(b) \in Bytes
  BY <1>1, <1>2 DEF Bytes
<1>4. Back(Back(b)) = b
  BY <1>1, <1>2 DEF Bytes
<1>5. SwapBytes(n) = ValueOf(Back(b))
  BY DEF SwapBytes, b
<1>6. SwapBytes(n) \in 0 .. WORD - 1
  BY <1>3, <1>5, ValueOfType
<1>7. BytesOf(SwapBytes(n)) = Back(b)
  BY <1>3, <1>5, BytesOfValueOf
<1>8. SwapBytes(SwapBytes(n)) = ValueOf(Back(Back(b)))
  BY <1>7 DEF SwapBytes
<1>9. ValueOf(b) = n
  BY ValueOfBytesOf DEF b
<1> QED BY <1>4, <1>6, <1>8, <1>9

-----------------------------------------------------------------------------
(* Messages on the wire                                                     *)

\* The j-th byte of message m on the wire, and how many there are.
ByteOf(m, j) == IF j <= HEADER_SIZE THEN HeaderOf(m)[j] ELSE m[j - HEADER_SIZE]
SizeOf(m) == HEADER_SIZE + Len(m)

\* The lines that become messages.
Lines == {m \in Seq(ByteSet) : Len(m) \in 1 .. MESSAGE_MAXLENGTH /\ m[Len(m)] = Nul}

LEMMA BytesAreSequences ==
    ASSUME NEW b \in Bytes
    PROVE  b \in Seq(ByteSet) /\ Len(b) = WORD_BYTES
<1>1. WORD_BYTES \in Nat
  BY Sizes
<1>2. b \in Seq(ByteSet)
  BY <1>1, SeqDef DEF Bytes
<1>3. DOMAIN b = 1 .. Len(b) /\ Len(b) \in Nat /\ DOMAIN b = 1 .. WORD_BYTES
  BY <1>2, LenProperties DEF Bytes
<1>4. WORD_BYTES \in 1 .. WORD_BYTES /\ WORD_BYTES + 1 \notin 1 .. WORD_BYTES
  BY Sizes
<1>5. WORD_BYTES <= Len(b) /\ ~(WORD_BYTES + 1 <= Len(b))
  BY <1>1, <1>3, <1>4
<1>6. Len(b) \in Nat
  BY <1>2, LenProperties
<1>7. Len(b) = WORD_BYTES
  BY <1>1, <1>5, <1>6
<1> QED BY <1>2, <1>7

LEMMA HeaderSize == HEADER_SIZE \in Nat /\ HEADER_SIZE > WORD_BYTES /\ HEADER_SIZE - 1 = WORD_BYTES
BY Sizes DEF HEADER_SIZE

\* The header of a line carries its length, through htonl and ntohl.
LEMMA HeaderOfLine ==
    ASSUME NEW m \in Lines
    PROVE  /\ HeaderOf(m) \in Seq(ByteSet) /\ Len(HeaderOf(m)) = HEADER_SIZE
           /\ BodyLength(HeaderOf(m)) = Len(m)
<1> DEFINE n == htonl(Len(m))
           b == BytesOf(n)
           header == <<USER_MESSAGE>> \o b
<1>1. Len(m) \in 0 .. WORD - 1
  BY Sizes, WordIsValues DEF Lines
<1>2. n \in 0 .. WORD - 1 /\ ntohl(n) = Len(m)
  BY <1>1, SwapBytesTwice DEF htonl, ntohl
<1>3. HeaderOf(m) = header
  BY DEF HeaderOf, Header
<1> HIDE DEF n
<1>4. b \in Seq(ByteSet) /\ Len(b) = WORD_BYTES /\ ValueOf(b) = n
  <2>1. n \in Nat
    BY <1>2, WordIsValues
  <2> QED BY <1>2, <2>1, BytesOfType, BytesAreSequences, ValueOfBytesOf
<1> HIDE DEF b
<1>5. <<USER_MESSAGE>> \in Seq(ByteSet) /\ Len(<<USER_MESSAGE>>) = 1
  <2>1. USER_MESSAGE \in ByteSet
    <3>1. Nul \in 0 .. BYTE - 1 /\ Slash \in 0 .. BYTE - 1 /\ Nul # Slash /\ BYTE \in Nat
      BY ParserAssumption, ProtocolAssumption
    <3>2. 1 \in 0 .. BYTE - 1
      BY <3>1
    <3> QED BY <3>2 DEF USER_MESSAGE, ByteSet
  <2> QED BY <2>1
<1>6. /\ header \in Seq(ByteSet) /\ Len(header) = 1 + Len(b)
      /\ \A i \in 1 .. 1 + Len(b) :
             header[i] = IF i <= 1 THEN <<USER_MESSAGE>>[i] ELSE b[i - 1]
  BY <1>4, <1>5, ConcatProperties
<1> HIDE DEF header
<1>7. Len(b) \in Nat /\ header # <<>>
  BY <1>4, <1>6, Sizes
<1>8. Tail(header) = b
  <2>1. /\ Tail(header) \in Seq(ByteSet) /\ Len(Tail(header)) = Len(b)
        /\ \A i \in 1 .. Len(b) : Tail(header)[i] = header[i + 1]
    BY <1>6, <1>7, HeadTailProperties
  <2>2. ASSUME NEW i \in 1 .. Len(b) PROVE Tail(header)[i] = b[i]
    <3>1. i + 1 \in 1 .. 1 + Len(b) /\ ~(i + 1 <= 1) /\ (i + 1) - 1 = i
      BY <1>7
    <3> QED BY <1>6, <2>1, <3>1
  <2> QED BY <1>4, <2>1, <2>2, SeqEqual
<1>9. BodyLength(header) = Len(m)
  BY <1>2, <1>4, <1>8 DEF BodyLength, BodyLengthField
<1> QED BY <1>3, <1>4, <1>6, <1>9 DEF HEADER_SIZE

LEMMA BytesOfLine ==
    ASSUME NEW m \in Lines
    PROVE  /\ SizeOf(m) \in Nat /\ SizeOf(m) > HEADER_SIZE
           /\ \A j \in 1 .. SizeOf(m) : ByteOf(m, j) \in ByteSet
<1>1. m \in Seq(ByteSet) /\ Len(m) \in Nat \ {0}
  BY Sizes DEF Lines
<1>2. SizeOf(m) \in Nat /\ SizeOf(m) > HEADER_SIZE
  BY <1>1, HeaderSize DEF SizeOf
<1>3. ASSUME NEW j \in 1 .. SizeOf(m) PROVE ByteOf(m, j) \in ByteSet
  <2>1. CASE j <= HEADER_SIZE
    <3>1. j \in 1 .. Len(HeaderOf(m))
      BY <1>2, <2>1, HeaderOfLine
    <3>2. HeaderOf(m)[j] \in ByteSet
      BY <3>1, HeaderOfLine, ElementOfSeq
    <3> QED BY <2>1, <3>2 DEF ByteOf
  <2>2. CASE ~(j <= HEADER_SIZE)
    <3>1. j - HEADER_SIZE \in 1 .. Len(m)
      BY <1>1, <2>2, HeaderSize DEF SizeOf
    <3>2. m[j - HEADER_SIZE] \in ByteSet
      BY <1>1, <3>1, ElementOfSeq
    <3> QED BY <2>2, <3>2 DEF ByteOf
  <2> QED BY <2>1, <2>2
<1> QED BY <1>2, <1>3

\* What one send() or recv() of k bytes takes from a sequence, and leaves of it.
LEMMA TakeAndLeave ==
    ASSUME NEW S, NEW q \in Seq(S), NEW k \in 1 .. Len(q)
    PROVE  /\ SubSeq(q, 1, k) \in Seq(S) /\ Len(SubSeq(q, 1, k)) = k
           /\ \A j \in 1 .. k : SubSeq(q, 1, k)[j] = q[j]
           /\ SubSeq(q, k + 1, Len(q)) \in Seq(S)
           /\ Len(SubSeq(q, k + 1, Len(q))) = Len(q) - k
           /\ \A j \in 1 .. Len(q) - k : SubSeq(q, k + 1, Len(q))[j] = q[k + j]
<1>1. Len(q) \in Nat /\ \A i \in 1 .. Len(q) : q[i] \in S
  BY LenProperties, ElementOfSeq
<1>2. 1 \in Int /\ k \in Int /\ k + 1 \in Int /\ Len(q) \in Int
  BY <1>1
<1>3. (\A i \in 1 .. k : q[i] \in S) /\ (\A i \in k + 1 .. Len(q) : q[i] \in S)
  BY <1>1
<1>4. /\ SubSeq(q, 1, k) \in Seq(S)
      /\ Len(SubSeq(q, 1, k)) = IF 1 <= k THEN k - 1 + 1 ELSE 0
      /\ \A i \in 1 .. k - 1 + 1 : SubSeq(q, 1, k)[i] = q[1 + i - 1]
  BY <1>2, <1>3, SubSeqProperties
<1>5. /\ SubSeq(q, k + 1, Len(q)) \in Seq(S)
      /\ Len(SubSeq(q, k + 1, Len(q))) =
             IF k + 1 <= Len(q) THEN Len(q) - (k + 1) + 1 ELSE 0
      /\ \A i \in 1 .. Len(q) - (k + 1) + 1 :
             SubSeq(q, k + 1, Len(q))[i] = q[k + 1 + i - 1]
  BY <1>2, <1>3, SubSeqProperties
<1>6. k - 1 + 1 = k /\ Len(q) - (k + 1) + 1 = Len(q) - k
  BY <1>1
<1>7. ASSUME NEW j \in 1 .. k PROVE SubSeq(q, 1, k)[j] = q[j]
  <2>1. 1 + j - 1 = j /\ j \in 1 .. k - 1 + 1
    BY <1>6
  <2> QED BY <1>4, <2>1
<1>8. ASSUME NEW j \in 1 .. Len(q) - k PROVE SubSeq(q, k + 1, Len(q))[j] = q[k + j]
  <2>1. k + 1 + j - 1 = k + j /\ j \in 1 .. Len(q) - (k + 1) + 1
    BY <1>6
  <2>2. SubSeq(q, k + 1, Len(q))[j] = q[k + 1 + j - 1]
    BY <1>5, <2>1
  <2> QED BY <2>1, <2>2
<1>9. Len(SubSeq(q, 1, k)) = k
  BY <1>4, <1>6
<1>10. Len(SubSeq(q, k + 1, Len(q))) = Len(q) - k
  BY <1>1, <1>5
<1> QED BY <1>4, <1>5, <1>7, <1>8, <1>9, <1>10

-----------------------------------------------------------------------------
(* The invariant                                                            *)

Sending == console_pc \in {"send_header", "send_body"}

\* The message after the first k - 1; the last one may be only partly sent.
Message(k) == IF k <= Len(sent) THEN sent[k] ELSE line

\* What each variable holds, and what was delivered so far.
Shapes ==
    /\ console_pc \in {"read", "send_header", "send_body", "parse", "quit", "failed", "crashed"}
    /\ line \in Seq(ByteSet) /\ Len(line) <= MESSAGE_MAXLENGTH + 1
    /\ n_read \in Nat /\ overrun \in BOOLEAN /\ typed \in 0 .. MaxTyped
    /\ console_pc = "read" =>
           Len(line) = IF n_read <= MESSAGE_MAXLENGTH + 1 THEN n_read ELSE MESSAGE_MAXLENGTH + 1
    /\ unsent \in Seq(ByteSet)
    /\ Sending => line \in Lines /\ unsent # <<>>
    /\ connection \in {"open", "closed", "reset"}
    /\ in_flight \in Seq(ByteSet) /\ (connection = "reset" => in_flight = <<>>)
    /\ handler_pc \in {"header", "body", "stopped"}
    /\ buffer \in Seq(ByteSet) /\ buffer_size \in Nat /\ Len(buffer) <= buffer_size
    /\ Receives => Len(buffer) < buffer_size
    /\ handler_pc = "header" => buffer_size = HEADER_SIZE
    /\ sent \in Seq(Lines)
    /\ delivered \in Seq(Lines) /\ Len(delivered) <= Len(sent)
    /\ \A k \in 1 .. Len(delivered) : delivered[k] = sent[k]
    /\ server_parsed # NoResult =>
           /\ delivered # <<>>
           /\ LET last == delivered[Len(delivered)]
              IN  server_parsed = ParseMessage(last, Len(last))

\* q lies on the wire after byte at; the p bytes after start are the first of
\* message m; q holds the bytes of m after the first p.
LiesAt(q, wire, at) == \A j \in 1 .. Len(q) : q[j] = wire[at + j]
HoldsFirst(wire, start, p, m) == \A j \in 1 .. p : wire[start + j] = ByteOf(m, j)
GoesOn(q, m, p) == \A j \in 1 .. Len(q) : q[j] = ByteOf(m, p + j)

\* The first n bytes of wire are what the client has put on the connection;
\* the k-th of the messages ends at byte cut[k].
Wire(wire, n, cut, messages) ==
    /\ wire \in [Nat -> ByteSet] /\ n \in Nat /\ cut \in [Nat -> Nat]
    /\ \A k \in 0 .. Len(messages) : cut[k] <= n
    /\ \A k \in 1 .. Len(messages) :
           /\ cut[k] = cut[k - 1] + SizeOf(messages[k])
           /\ HoldsFirst(wire, cut[k - 1], SizeOf(messages[k]), messages[k])

\* The p bytes after the last message are the first of the line being sent,
\* and unsent goes on from there.
SentSoFar(wire, p, start) ==
    IF Sending
    THEN /\ p \in Nat
         /\ p + Len(unsent) = IF console_pc = "send_header" THEN HEADER_SIZE ELSE SizeOf(line)
         /\ HoldsFirst(wire, start, p, line)
         /\ GoesOn(unsent, line, p)
    ELSE p = 0

\* What is received of a message, before which the bytes up to start were
\* received, and what is in flight lie one after the other on the wire.
ReceivedSoFar(wire, n, start) ==
    LET begin == start + (IF handler_pc = "body" THEN HEADER_SIZE ELSE 0)
    IN  /\ n = begin + Len(buffer) + Len(in_flight)
        /\ LiesAt(buffer, wire, begin)
        /\ LiesAt(in_flight, wire, begin + Len(buffer))
        /\ handler_pc = "body" => buffer_size = Len(Message(Len(delivered) + 1))

OnTheWire(wire, n, cut) ==
    /\ Wire(wire, n, cut, sent)
    /\ SentSoFar(wire, n - cut[Len(sent)], cut[Len(sent)])
    /\ Receives => ReceivedSoFar(wire, n, cut[Len(delivered)])

Inv == Shapes /\ (connection # "reset" => \E wire, n, cut : OnTheWire(wire, n, cut))

LEMMA Lengths ==
    ASSUME Shapes
    PROVE  /\ Len(line) \in Nat /\ Len(unsent) \in Nat /\ Len(in_flight) \in Nat
           /\ Len(buffer) \in Nat /\ Len(sent) \in Nat /\ Len(delivered) \in 0 .. Len(sent)
           /\ \A k \in 1 .. Len(sent) : sent[k] \in Lines
<1>1. Len(line) \in Nat /\ Len(unsent) \in Nat /\ Len(in_flight) \in Nat
  BY LenProperties DEF Shapes
<1>2. Len(buffer) \in Nat /\ Len(sent) \in Nat /\ Len(delivered) \in Nat
  BY LenProperties DEF Shapes
<1>3. \A k \in 1 .. Len(sent) : sent[k] \in Lines
  BY ElementOfSeq DEF Shapes
<1> QED BY <1>1, <1>2, <1>3 DEF Shapes

\* When x bytes after the first d messages are on the wire, they are the first
\* of message d + 1, which was sent whole if that is all of it.
LEMMA NextMessage ==
    ASSUME Shapes, NEW wire, NEW n, NEW cut, OnTheWire(wire, n, cut),
           NEW d \in 0 .. Len(sent), NEW x \in Nat \ {0}, cut[d] + x <= n
    PROVE  /\ Message(d + 1) \in Lines
           /\ \A j \in 1 .. SizeOf(Message(d + 1)) :
                  j <= x => wire[cut[d] + j] = ByteOf(Message(d + 1), j)
           /\ d = Len(sent) => Sending /\ x < SizeOf(line)
           /\ d < Len(sent) => cut[d + 1] = cut[d] + SizeOf(sent[d + 1])
<1>1. Len(sent) \in Nat /\ d \in Nat /\ n \in Nat /\ cut[d] \in Nat
  BY Lengths DEF OnTheWire, Wire
<1>2. CASE d < Len(sent)
  <2>1. d + 1 \in 1 .. Len(sent) /\ (d + 1) - 1 = d /\ d + 1 <= Len(sent)
    BY <1>1, <1>2
  <2>2. /\ cut[d + 1] = cut[d] + SizeOf(sent[d + 1])
        /\ \A j \in 1 .. SizeOf(sent[d + 1]) : wire[cut[d] + j] = ByteOf(sent[d + 1], j)
    BY <2>1 DEF OnTheWire, Wire, HoldsFirst
  <2>3. Message(d + 1) = sent[d + 1] /\ sent[d + 1] \in Lines
    BY <2>1, Lengths DEF Message
  <2> QED BY <1>1, <1>2, <2>2, <2>3
<1>3. CASE d = Len(sent)
  <2> DEFINE p == n - cut[d]
  <2>1. p \in Nat \ {0} /\ x <= p /\ SentSoFar(wire, p, cut[d])
    BY <1>1, <1>3 DEF OnTheWire
  <2> HIDE DEF p
  <2>2. Sending
    BY <2>1 DEF SentSoFar
  <2>3. line \in Lines /\ unsent # <<>> /\ Len(unsent) \in Nat \ {0}
    BY <2>2, EmptySeq DEF Shapes
  <2>4. Message(d + 1) = line
    BY <1>1, <1>3 DEF Message
  <2>5. SizeOf(line) \in Nat /\ SizeOf(line) > HEADER_SIZE /\ HEADER_SIZE \in Nat
    BY <2>3, BytesOfLine, HeaderSize
  <2>6. p < SizeOf(line)
    BY <2>1, <2>2, <2>3, <2>5 DEF SentSoFar
  <2>7. \A j \in 1 .. p : wire[cut[d] + j] = ByteOf(line, j)
    BY <2>1, <2>2 DEF SentSoFar, HoldsFirst
  <2>8. \A j \in 1 .. SizeOf(line) : j <= x => j \in 1 .. p
    BY <2>1, <2>5
  <2> QED BY <1>3, <2>1, <2>2, <2>3, <2>4, <2>5, <2>6, <2>7, <2>8
<1> QED BY <1>1, <1>2, <1>3

\* While the body of a message is received that was not sent whole, the client
\* is sending it.
LEMMA BodyIsBeingSent ==
    ASSUME Shapes, NEW wire, NEW n, NEW cut, OnTheWire(wire, n, cut),
           handler_pc = "body", Len(delivered) = Len(sent)
    PROVE  Sending
<1>1. /\ n = cut[Len(delivered)] + HEADER_SIZE + Len(buffer) + Len(in_flight)
      /\ n \in Nat /\ cut[Len(delivered)] \in Nat
  BY Lengths DEF OnTheWire, Wire, ReceivedSoFar, Receives
<1>2. HEADER_SIZE \in Nat \ {0}
  BY HeaderSize, Sizes
<1>3. n - cut[Len(sent)] # 0
  BY <1>1, <1>2, Lengths
<1> QED BY <1>3 DEF OnTheWire, SentSoFar

LEMMA TypeFollows == Inv => TypeInvariant
<1> SUFFICES ASSUME Inv PROVE TypeInvariant
  OBVIOUS
<1>1. delivered \in Seq(Seq(ByteSet))
  <2>1. Lines \subseteq Seq(ByteSet)
    BY DEF Lines
  <2> QED BY <2>1, SeqMonotonic DEF Inv, Shapes
<1> QED BY <1>1 DEF Inv, Shapes, TypeInvariant, ByteSet

LEMMA InitInv == Init => Inv
<1> SUFFICES ASSUME Init PROVE Inv
  OBVIOUS
<1>1. HEADER_SIZE \in Nat \ {0} /\ 0 \in 0 .. MaxTyped
  BY HeaderSize, Sizes
<1>2. Shapes
  <2>1. <<>> \in Seq(ByteSet) /\ <<>> \in Seq(Lines) /\ Len(<<>>) = 0
    BY EmptySeq
  <2>2. overrun \in BOOLEAN /\ n_read = 0 /\ 0 <= MESSAGE_MAXLENGTH + 1
    <3>1. 0 <= MESSAGE_MAXLENGTH + 1
      BY ProtocolAssumption
    <3> QED BY <3>1 DEF Init
  <2>3. sent \in Seq(Lines) /\ delivered \in Seq(Lines) /\ sent = <<>> /\ delivered = <<>>
    BY <2>1 DEF Init
  <2>4. ~Sending /\ console_pc = "read" /\ handler_pc = "header" /\ server_parsed = NoResult
    BY DEF Init, Sending
  <2>5. /\ line = <<>> /\ unsent = <<>> /\ in_flight = <<>> /\ buffer = <<>>
        /\ connection = "open" /\ buffer_size = HEADER_SIZE /\ typed = 0
    BY DEF Init
  <2> HIDE DEF Init
  <2> QED BY <1>1, <2>1, <2>2, <2>3, <2>4, <2>5, Sizes DEF Shapes, Receives
<1> DEFINE wire == [i \in Nat |-> Nul]
           cut == [i \in Nat |-> 0]
<1>3. wire \in [Nat -> ByteSet] /\ cut \in [Nat -> Nat] /\ cut[0] = 0
  BY ProtocolAssumption DEF ByteSet
<1> HIDE DEF wire, cut
<1>4. Len(sent) = 0 /\ Len(delivered) = 0 /\ Len(buffer) = 0 /\ Len(in_flight) = 0
  BY DEF Init
<1>5. Wire(wire, 0, cut, sent)
  BY <1>3, <1>4 DEF Wire
<1>6. SentSoFar(wire, 0 - cut[Len(sent)], cut[Len(sent)])
  BY <1>3, <1>4 DEF SentSoFar, Sending, Init
<1>7. ReceivedSoFar(wire, 0, cut[Len(delivered)])
  BY <1>3, <1>4 DEF ReceivedSoFar, LiesAt, Init
<1> QED BY <1>2, <1>5, <1>6, <1>7 DEF Inv, OnTheWire

-----------------------------------------------------------------------------
(* The console reader                                                       *)

\* A console reader that is not sending may go on or begin to send a line.
LEMMA ConsoleKeepsWire ==
    ASSUME Shapes, NEW wire, NEW n, NEW cut, OnTheWire(wire, n, cut),
           ~Sending, UNCHANGED <<connection, in_flight, handlerVars, sent>>,
           SentSoFar(wire, 0, cut[Len(sent)])'
    PROVE  OnTheWire(wire, n, cut)'
<1>1. Wire(wire, n, cut, sent)'
  BY DEF OnTheWire, Wire
<1>2. SentSoFar(wire, n - cut[Len(sent)], cut[Len(sent)])'
  <2>1. n - cut[Len(sent)] = 0
    BY DEF OnTheWire, SentSoFar
  <2> QED BY <2>1
<1>3. ASSUME Receives' PROVE ReceivedSoFar(wire, n, cut[Len(delivered)])'
  <2>1. Receives /\ ReceivedSoFar(wire, n, cut[Len(delivered)])
    BY <1>3 DEF OnTheWire, Receives, handlerVars
  <2>2. handler_pc = "body" => Len(delivered) + 1 <= Len(sent)
    BY BodyIsBeingSent, Lengths
  <2>3. handler_pc = "body" => Message(Len(delivered) + 1)' = Message(Len(delivered) + 1)
    BY <2>2 DEF Message, handlerVars
  <2> QED BY <2>1, <2>3 DEF ReceivedSoFar, handlerVars
<1> QED BY <1>1, <1>2, <1>3 DEF OnTheWire

LEMMA InvFromParts ==
    ASSUME Inv, Shapes',
           connection' # "reset" => connection # "reset",
           \A wire, n, cut : connection' # "reset" /\ OnTheWire(wire, n, cut)
               => \E w, m, c : OnTheWire(w, m, c)'
    PROVE  Inv'
BY DEF Inv

LEMMA CharactersFit ==
    /\ Keys \subseteq ByteSet /\ Nul \in ByteSet
    /\ MESSAGE_MAXLENGTH \in Nat \ {0} /\ MaxTyped \in Nat
BY ProtocolAssumption DEF ByteSet

LEMMA ReadCharacterInv ==
    ASSUME Inv, NEW c \in Keys, ReadCharacter(c),
           UNCHANGED <<connection, in_flight, handlerVars>>
    PROVE  Inv'
<1> USE DEF ReadCharacter, handlerVars
<1>1. Shapes /\ Len(line) \in Nat
  BY Lengths DEF Inv
<1>2. typed' \in 0 .. MaxTyped
  BY <1>1, CharactersFit DEF Shapes
<1>3. Append(line, c) \in Seq(ByteSet) /\ Len(Append(line, c)) = Len(line) + 1
  BY <1>1, CharactersFit, AppendProperties DEF Shapes
<1>4. /\ line' \in Seq(ByteSet) /\ Len(line') <= MESSAGE_MAXLENGTH + 1
      /\ n_read' \in Nat
      /\ Len(line') = IF n_read' <= MESSAGE_MAXLENGTH + 1 THEN n_read' ELSE MESSAGE_MAXLENGTH + 1
  BY <1>1, <1>3, CharactersFit DEF Shapes, HasRoom
<1>5. Shapes'
  BY <1>1, <1>2, <1>4 DEF Shapes, Sending, Receives
<1>6. ASSUME NEW wire, NEW n, NEW cut, OnTheWire(wire, n, cut) PROVE OnTheWire(wire, n, cut)'
  BY <1>1, <1>6, ConsoleKeepsWire DEF Sending, SentSoFar
<1> QED BY <1>5, <1>6, InvFromParts

LEMMA ReadNewlineInv ==
    ASSUME Inv, ReadNewline, UNCHANGED <<connection, in_flight, handlerVars>>
    PROVE  Inv'
<1> USE DEF handlerVars
<1>1. Shapes /\ Len(line) \in Nat /\ ~Sending
  BY Lengths DEF Inv, ReadNewline, Sending
<1>2. typed' \in 0 .. MaxTyped /\ overrun' \in BOOLEAN /\ UNCHANGED sent
  BY <1>1, CharactersFit DEF Shapes, ReadNewline
<1>3. CASE /\ ~IsTooLong(n_read + 1)
           /\ line' = (IF HasRoom(n_read) THEN Append(line, Nul) ELSE line)
           /\ n_read' = n_read + 1
           /\ unsent' = HeaderOf(line')
           /\ ConsoleGoto("send_header")
  <2> USE DEF ConsoleGoto
  <2>1. Append(line, Nul) \in Seq(ByteSet) /\ Len(Append(line, Nul)) = Len(line) + 1
    BY <1>1, CharactersFit, AppendProperties DEF Shapes
  <2>2. Len(line) = n_read /\ n_read + 1 <= MESSAGE_MAXLENGTH /\ line' = Append(line, Nul)
    BY <1>1, <1>3, CharactersFit DEF Shapes, ReadNewline, IsTooLong, HasRoom
  <2>3. line' \in Lines /\ line' \in Seq(ByteSet) /\ Len(line') <= MESSAGE_MAXLENGTH + 1
    <3>1. Append(line, Nul)[Len(line) + 1] = Nul
      BY <1>1, CharactersFit, AppendProperties DEF Shapes
    <3>2. Len(Append(line, Nul)) \in 1 .. MESSAGE_MAXLENGTH
      BY <1>1, <2>1, <2>2, CharactersFit
    <3> DEFINE stored == Append(line, Nul)
    <3>3. stored[Len(stored)] = Nul
      BY <2>1, <3>1
    <3>4. stored \in Seq(ByteSet) /\ Len(stored) \in 1 .. MESSAGE_MAXLENGTH /\ line' = stored
      BY <2>1, <2>2, <3>2
    <3> HIDE DEF stored
    <3> QED BY <3>3, <3>4, CharactersFit DEF Lines
  <2>4. unsent' \in Seq(ByteSet) /\ Len(unsent') = HEADER_SIZE /\ unsent' # <<>>
    BY <1>3, <2>3, HeaderOfLine, HeaderSize, Sizes, EmptySeq
  <2>5. Shapes'
    BY <1>1, <1>2, <1>3, <2>3, <2>4 DEF Shapes, Sending, Receives
  <2>6. ASSUME NEW wire, NEW n, NEW cut, OnTheWire(wire, n, cut) PROVE OnTheWire(wire, n, cut)'
    <3>1. HEADER_SIZE \in Nat
      BY HeaderSize
    <3>2. \A j \in 1 .. Len(unsent') : unsent'[j] = ByteOf(line', 0 + j)
      BY <1>3, <2>4, <3>1 DEF ByteOf
    <3>3. SentSoFar(wire, 0, cut[Len(sent)])'
      BY <1>3, <2>4, <3>1, <3>2 DEF SentSoFar, HoldsFirst, GoesOn
    <3> QED BY <1>1, <1>2, <2>6, <3>3, ConsoleKeepsWire
  <2> QED BY <2>5, <2>6, InvFromParts
<1>4. CASE line' = <<>> /\ n_read' = 0 /\ UNCHANGED unsent /\ console_pc' \in {"read", "crashed"}
  <2>1. line' \in Seq(ByteSet) /\ Len(line') = 0
    BY <1>4, EmptySeq
  <2>2. Shapes'
    BY <1>1, <1>2, <1>4, <2>1, CharactersFit DEF Shapes, Sending, Receives
  <2>3. ASSUME NEW wire, NEW n, NEW cut, OnTheWire(wire, n, cut) PROVE OnTheWire(wire, n, cut)'
    BY <1>1, <1>2, <1>4, <2>3, ConsoleKeepsWire DEF Sending, SentSoFar
  <2> QED BY <2>2, <2>3, InvFromParts
<1> QED BY <1>3, <1>4 DEF ReadNewline, ConsoleGoto

LEMMA ReadEofInv ==
    ASSUME Inv, ReadEof, UNCHANGED <<connection, in_flight, handlerVars>>
    PROVE  Inv'
<1> USE DEF ReadEof, ConsoleReturns, ConsoleGoto, handlerVars
<1>1. Shapes
  BY DEF Inv
<1>2. Shapes'
  BY <1>1 DEF Shapes, Sending, Receives
<1>3. ASSUME NEW wire, NEW n, NEW cut, OnTheWire(wire, n, cut) PROVE OnTheWire(wire, n, cut)'
  BY <1>1, <1>3, ConsoleKeepsWire DEF Sending, SentSoFar
<1> QED BY <1>2, <1>3, InvFromParts

LEMMA ClientParseInv ==
    ASSUME Inv, ClientParse, UNCHANGED <<connection, in_flight, handlerVars>>
    PROVE  Inv'
<1> USE DEF handlerVars
<1>1. Shapes
  BY DEF Inv
<1>2. /\ console_pc = "parse" /\ console_pc' \in {"read", "quit", "failed", "crashed"}
      /\ line' = <<>> /\ n_read' = 0 /\ UNCHANGED <<overrun, typed, unsent, sent>>
  BY DEF ClientParse, ConsoleReturns, ConsoleGoto
<1>3. line' \in Seq(ByteSet) /\ Len(line') = 0
  BY <1>2, EmptySeq
<1>4. Shapes'
  BY <1>1, <1>2, <1>3, CharactersFit DEF Shapes, Sending, Receives
<1>5. ASSUME NEW wire, NEW n, NEW cut, OnTheWire(wire, n, cut) PROVE OnTheWire(wire, n, cut)'
  BY <1>1, <1>2, <1>5, ConsoleKeepsWire DEF Sending, SentSoFar
<1> QED BY <1>4, <1>5, InvFromParts

LEMMA SendFailsInv ==
    ASSUME Inv, SendFails, UNCHANGED <<connection, handlerVars>>
    PROVE  Inv'
<1> USE DEF SendFails, ConsoleReturns, ConsoleGoto, handlerVars
<1>1. Shapes
  BY DEF Inv
<1>2. Shapes'
  BY <1>1 DEF Shapes, Sending, Receives
<1> QED BY <1>2, InvFromParts

LEMMA LongerWire ==
    ASSUME NEW wire \in [Nat -> ByteSet], NEW n \in Nat, NEW q \in Seq(ByteSet)
    PROVE  \E w \in [Nat -> ByteSet] :
               /\ \A i \in 0 .. n : w[i] = wire[i]
               /\ \A j \in 1 .. Len(q) : w[n + j] = q[j]
<1>1. Len(q) \in Nat /\ \A j \in 1 .. Len(q) : q[j] \in ByteSet
  BY LenProperties, ElementOfSeq
<1> DEFINE w == [i \in Nat |-> IF i \in n + 1 .. n + Len(q) THEN q[i - n] ELSE wire[i]]
<1>2. ASSUME NEW i \in n + 1 .. n + Len(q) PROVE q[i - n] \in ByteSet
  <2>1. i - n \in 1 .. Len(q)
    BY <1>1
  <2> QED BY <1>1, <2>1
<1>3. w \in [Nat -> ByteSet]
  BY <1>2
<1>4. \A i \in 0 .. n : w[i] = wire[i]
  BY <1>1
<1>5. ASSUME NEW j \in 1 .. Len(q) PROVE w[n + j] = q[j]
  <2>1. n + j \in Nat /\ n + j \in n + 1 .. n + Len(q) /\ (n + j) - n = j
    BY <1>1
  <2> QED BY <2>1
<1> HIDE DEF w
<1> QED BY <1>3, <1>4, <1>5

\* w holds what wire does up to its byte n.
Extends(w, wire, n) ==
    w \in [Nat -> ByteSet] /\ \A i \in 0 .. n : w[i] = wire[i]

LEMMA WireExtends ==
    ASSUME NEW messages \in Seq(Lines), NEW wire, NEW n, NEW cut, Wire(wire, n, cut, messages),
           NEW w, Extends(w, wire, n), NEW m \in Nat, n <= m
    PROVE  Wire(w, m, cut, messages)
<1>1. /\ n \in Nat /\ cut \in [Nat -> Nat] /\ Len(messages) \in Nat
      /\ \A i \in 1 .. Len(messages) : messages[i] \in Lines
  BY LenProperties, ElementOfSeq DEF Wire
<1>2. ASSUME NEW i \in 0 .. Len(messages) PROVE cut[i] <= m
  <2>1. i \in Nat
    BY <1>1
  <2>2. cut[i] \in Nat /\ cut[i] <= n
    BY <1>1, <2>1 DEF Wire
  <2> QED BY <1>1, <2>2
<1>3. ASSUME NEW i \in 1 .. Len(messages)
      PROVE  HoldsFirst(w, cut[i - 1], SizeOf(messages[i]), messages[i])
  <2> SUFFICES ASSUME NEW j \in 1 .. SizeOf(messages[i])
               PROVE  w[cut[i - 1] + j] = ByteOf(messages[i], j)
    BY DEF HoldsFirst
  <2>1. i \in 0 .. Len(messages) /\ i - 1 \in 0 .. Len(messages) /\ i - 1 \in Nat /\ i \in Nat
    BY <1>1
  <2>2. cut[i] = cut[i - 1] + SizeOf(messages[i]) /\ cut[i] <= n
    BY <2>1 DEF Wire
  <2>3. SizeOf(messages[i]) \in Nat /\ cut[i - 1] \in Nat /\ cut[i] \in Nat
    BY <1>1, <2>1, BytesOfLine
  <2>4. cut[i - 1] + j \in 0 .. n
    <3>1. PICK a \in Nat, b \in Nat : a = cut[i - 1] /\ b = SizeOf(messages[i])
      BY <2>3
    <3>2. a + b <= n /\ j \in 1 .. b /\ n \in Nat
      BY <1>1, <2>2, <3>1
    <3>3. a + j \in 0 .. n
      BY <3>2
    <3> QED BY <3>1, <3>3
  <2>5. w[cut[i - 1] + j] = wire[cut[i - 1] + j]
    BY <2>4 DEF Extends
  <2> QED BY <2>5 DEF Wire, HoldsFirst
<1> QED BY <1>1, <1>2, <1>3 DEF Wire, Extends

LEMMA WireCompletes ==
    ASSUME NEW messages \in Seq(Lines), NEW wire, NEW n, NEW cut, Wire(wire, n, cut, messages),
           NEW m \in Lines, n = cut[Len(messages)] + SizeOf(m),
           HoldsFirst(wire, cut[Len(messages)], SizeOf(m), m)
    PROVE  \E c : /\ Wire(wire, n, c, Append(messages, m))
                  /\ \A i \in 0 .. Len(messages) : c[i] = cut[i]
                  /\ c[Len(messages) + 1] = n
<1>1. PICK k \in Nat : k = Len(messages)
  BY LenProperties
<1> DEFINE all == Append(messages, m)
           c == [i \in Nat |-> IF i = k + 1 THEN n ELSE cut[i]]
<1>2. n \in Nat /\ cut \in [Nat -> Nat] /\ wire \in [Nat -> ByteSet]
  BY DEF Wire
<1>3. /\ Len(all) = k + 1 /\ all[k + 1] = m
      /\ \A i \in 1 .. k : all[i] = messages[i]
  BY <1>1, AppendProperties
<1>4. k + 1 \in Nat /\ \A i \in 0 .. k : i \in Nat /\ i # k + 1
  OBVIOUS
<1>5. /\ c \in [Nat -> Nat] /\ c[k + 1] = n
      /\ \A i \in 0 .. k : c[i] = cut[i]
  BY <1>2, <1>4
<1> HIDE DEF c, all
<1>6. ASSUME NEW i \in 0 .. Len(all) PROVE c[i] <= n
  <2>1. CASE i = k + 1
    BY <1>2, <1>5, <2>1
  <2>2. CASE i # k + 1
    <3>1. i \in 0 .. k
      BY <1>3, <2>2
    <3>2. cut[i] <= n
      BY <1>1, <3>1 DEF Wire
    <3> QED BY <1>5, <3>1, <3>2
  <2> QED BY <2>1, <2>2
<1>7. ASSUME NEW i \in 1 .. Len(all)
      PROVE  /\ c[i] = c[i - 1] + SizeOf(all[i])
             /\ HoldsFirst(wire, c[i - 1], SizeOf(all[i]), all[i])
  <2>1. CASE i = k + 1
    <3>1. i - 1 = k /\ k \in 0 .. k
      BY <1>1, <2>1
    <3>2. all[i] = m /\ c[i] = n /\ c[i - 1] = cut[Len(messages)]
      BY <1>1, <1>3, <1>5, <2>1, <3>1
    <3> QED BY <3>2
  <2>2. CASE i # k + 1
    <3>1. i \in 1 .. k
      BY <1>3, <2>2
    <3>2. i \in 0 .. k /\ i - 1 \in 0 .. k
      BY <3>1
    <3>3. all[i] = messages[i] /\ c[i] = cut[i] /\ c[i - 1] = cut[i - 1]
      BY <1>3, <1>5, <3>1, <3>2
    <3>4. /\ cut[i] = cut[i - 1] + SizeOf(messages[i])
          /\ HoldsFirst(wire, cut[i - 1], SizeOf(messages[i]), messages[i])
      BY <1>1, <3>1 DEF Wire
    <3> QED BY <3>3, <3>4
  <2> QED BY <2>1, <2>2
<1>8. Wire(wire, n, c, all)
  BY <1>2, <1>5, <1>6, <1>7 DEF Wire
<1> QED BY <1>1, <1>5, <1>8 DEF all

\* The piece of the line that one send() puts on the wire.
LEMMA PieceOfLine ==
    ASSUME NEW start \in Nat, NEW p \in Nat, NEW wire, NEW w, Extends(w, wire, start + p), NEW m,
           NEW rest \in Seq(ByteSet), NEW piece \in Seq(ByteSet), Len(piece) <= Len(rest),
           \A j \in 1 .. Len(piece) : piece[j] = rest[j],
           HoldsFirst(wire, start, p, m), GoesOn(rest, m, p), LiesAt(piece, w, start + p)
    PROVE  HoldsFirst(w, start, p + Len(piece), m)
<1> SUFFICES ASSUME NEW j \in 1 .. p + Len(piece) PROVE w[start + j] = ByteOf(m, j)
  BY DEF HoldsFirst
<1>1. Len(rest) \in Nat /\ Len(piece) \in Nat
  BY LenProperties
<1>2. CASE j <= p
  <2>1. j \in 1 .. p /\ start + j \in 0 .. start + p
    BY <1>2
  <2> QED BY <2>1 DEF Extends, HoldsFirst
<1>3. CASE ~(j <= p)
  <2>1. PICK i \in 1 .. Len(piece) : j = p + i
    <3>1. j - p \in 1 .. Len(piece) /\ j = p + (j - p)
      BY <1>1, <1>3
    <3> QED BY <3>1
  <2>2. start + j = start + p + i /\ i \in 1 .. Len(rest)
    BY <1>1, <2>1
  <2>3. w[start + p + i] = rest[i] /\ rest[i] = ByteOf(m, p + i)
    BY <2>2 DEF GoesOn, LiesAt
  <2> QED BY <2>1, <2>2, <2>3
<1> QED BY <1>2, <1>3

\* What is received and in flight, when q follows it.
LEMMA MoreInFlight ==
    ASSUME NEW begin \in Nat, NEW n, NEW wire, NEW w, Extends(w, wire, n),
           NEW b \in Seq(ByteSet), NEW f \in Seq(ByteSet), NEW q \in Seq(ByteSet),
           n = begin + Len(b) + Len(f), LiesAt(b, wire, begin),
           LiesAt(f, wire, begin + Len(b)), LiesAt(q, w, n)
    PROVE  /\ n + Len(q) = begin + Len(b) + Len(f \o q)
           /\ LiesAt(b, w, begin) /\ LiesAt(f \o q, w, begin + Len(b))
<1>1. Len(b) \in Nat /\ Len(f) \in Nat /\ Len(q) \in Nat /\ n \in Nat
  BY LenProperties
<1>2. /\ Len(f \o q) = Len(f) + Len(q)
      /\ \A j \in 1 .. Len(f) + Len(q) :
             (f \o q)[j] = IF j <= Len(f) THEN f[j] ELSE q[j - Len(f)]
  BY ConcatProperties
<1>3. ASSUME NEW j \in 1 .. Len(b) PROVE b[j] = w[begin + j]
  <2>1. begin + j \in 0 .. n
    BY <1>1
  <2> QED BY <2>1 DEF Extends, LiesAt
<1>4. ASSUME NEW j \in 1 .. Len(f) + Len(q) PROVE (f \o q)[j] = w[begin + Len(b) + j]
  <2>1. CASE j <= Len(f)
    <3>1. j \in 1 .. Len(f) /\ begin + Len(b) + j \in 0 .. n
      BY <1>1, <2>1
    <3>2. (f \o q)[j] = f[j] /\ f[j] = wire[begin + Len(b) + j]
      BY <1>2, <2>1, <3>1 DEF LiesAt
    <3> QED BY <3>1, <3>2 DEF Extends
  <2>2. CASE ~(j <= Len(f))
    <3>1. j - Len(f) \in 1 .. Len(q) /\ begin + Len(b) + j = n + (j - Len(f))
      BY <1>1, <2>2
    <3>2. (f \o q)[j] = q[j - Len(f)]
      BY <1>2, <2>2
    <3> QED BY <3>1, <3>2 DEF LiesAt
  <2> QED BY <2>1, <2>2
<1>5. n + Len(q) = begin + Len(b) + (Len(f) + Len(q))
  BY <1>1
<1> QED BY <1>2, <1>3, <1>4, <1>5 DEF LiesAt

LEMMA SendBytesInv ==
    ASSUME Inv, NEW k \in 1 .. Len(unsent), SendBytes(k), UNCHANGED <<connection, handlerVars>>
    PROVE  Inv'
<1> USE DEF handlerVars
<1> DEFINE q == SubSeq(unsent, 1, k)
           left == SubSeq(unsent, k + 1, Len(unsent))
<1>1. Shapes /\ Sending /\ line \in Lines /\ connection = "open"
  BY DEF Inv, Shapes, SendBytes, Sending
<1>2. /\ Len(unsent) \in Nat /\ Len(in_flight) \in Nat /\ Len(sent) \in Nat
      /\ Len(delivered) \in 0 .. Len(sent) /\ Len(buffer) \in Nat /\ Len(line) \in Nat
      /\ k \in Nat /\ Len(unsent) - k \in Nat
  BY <1>1, Lengths
<1>3. /\ q \in Seq(ByteSet) /\ Len(q) = k /\ \A j \in 1 .. k : q[j] = unsent[j]
      /\ left \in Seq(ByteSet) /\ Len(left) = Len(unsent) - k
      /\ \A j \in 1 .. Len(unsent) - k : left[j] = unsent[k + j]
  BY <1>1, TakeAndLeave DEF Shapes
<1>4. in_flight' = in_flight \o q
  BY DEF SendBytes
<1>5. in_flight' \in Seq(ByteSet)
  BY <1>1, <1>3, <1>4, ConcatProperties DEF Shapes
<1>6. UNCHANGED <<line, n_read, overrun, typed>>
  BY DEF SendBytes
<1> DEFINE Goes == ~BufferIsSent(k) /\ unsent' = left /\ UNCHANGED <<console_pc, sent>>
           Turns == /\ BufferIsSent(k) /\ console_pc = "send_header" /\ console_pc' = "send_body"
                    /\ unsent' = line /\ UNCHANGED sent
           Ends == /\ BufferIsSent(k) /\ console_pc = "send_body" /\ console_pc' = "parse"
                   /\ unsent' = <<>> /\ sent' = Append(sent, line)
<1>7. Goes \/ Turns \/ Ends
  BY DEF SendBytes, ConsoleGoto
<1> HIDE DEF q, left
<1>8. /\ Append(sent, line) \in Seq(Lines) /\ Len(Append(sent, line)) = Len(sent) + 1
      /\ \A i \in 1 .. Len(sent) : Append(sent, line)[i] = sent[i]
      /\ Append(sent, line)[Len(sent) + 1] = line
  BY <1>1, AppendProperties DEF Shapes
<1>9. /\ sent' \in Seq(Lines) /\ Len(delivered) <= Len(sent')
      /\ \A i \in 1 .. Len(delivered) : delivered[i] = sent'[i]
  <2>1. CASE sent' = sent
    BY <1>1, <2>1 DEF Shapes
  <2>2. CASE sent' = Append(sent, line)
    BY <1>1, <1>2, <1>8, <2>2 DEF Shapes
  <2> QED BY <1>7, <2>1, <2>2
<1>10. unsent' \in Seq(ByteSet) /\ (Sending' => unsent' # <<>>)
  <2>1. CASE Goes
    <3>1. Len(left) # 0
      BY <1>2, <1>3, <2>1 DEF BufferIsSent
    <3> QED BY <1>3, <2>1, <3>1, EmptySeq
  <2>2. CASE Turns
    <3>1. Len(line) # 0
      BY <1>1, <1>2 DEF Lines
    <3> QED BY <1>1, <2>2, <3>1, EmptySeq DEF Shapes
  <2>3. CASE Ends
    BY <2>3, EmptySeq DEF Sending
  <2> QED BY <1>7, <2>1, <2>2, <2>3
<1>11. console_pc' \in {"send_header", "send_body", "parse"}
  BY <1>1, <1>7 DEF Sending
<1>12. Shapes'
  BY <1>1, <1>5, <1>6, <1>9, <1>10, <1>11 DEF Shapes, Sending, Receives
<1>13. Message(Len(delivered) + 1)' = Message(Len(delivered) + 1)
  <2>1. UNCHANGED <<line, delivered>>
    BY <1>6
  <2>2. CASE sent' = sent
    BY <2>1, <2>2 DEF Message
  <2>3. CASE sent' = Append(sent, line)
    <3>1. PICK d \in 1 .. Len(sent) + 1 : d = Len(delivered) + 1
      BY <1>2
    <3>2. CASE d \in 1 .. Len(sent)
      BY <1>2, <1>8, <2>1, <2>3, <3>1, <3>2 DEF Message
    <3>3. CASE d = Len(sent) + 1
      <4>1. ~(Len(sent) + 1 <= Len(sent)) /\ Len(sent) + 1 <= Len(sent) + 1
        BY <1>2
      <4> QED BY <1>8, <2>1, <2>3, <3>1, <3>3, <4>1 DEF Message
    <3> QED BY <1>2, <3>2, <3>3
  <2> QED BY <1>7, <2>2, <2>3
<1>14. ASSUME NEW wire, NEW n, NEW cut, OnTheWire(wire, n, cut)
       PROVE  \E w, m, c : OnTheWire(w, m, c)'
  <2>1. Wire(wire, n, cut, sent) /\ wire \in [Nat -> ByteSet] /\ n \in Nat /\ cut \in [Nat -> Nat]
    BY <1>14 DEF OnTheWire, Wire
  <2>2. PICK start \in Nat : start = cut[Len(sent)]
    BY <1>2, <2>1
  <2>3. PICK p \in Nat : n = start + p /\ SentSoFar(wire, p, start)
    <3>1. start <= n
      <4>1. Len(sent) \in 0 .. Len(sent)
        BY <1>2
      <4> QED BY <2>1, <2>2, <4>1 DEF Wire
    <3>2. n - start \in Nat /\ n = start + (n - start)
      BY <2>1, <3>1
    <3> QED BY <1>14, <2>2, <3>2 DEF OnTheWire
  <2>4. /\ p + Len(unsent) = IF console_pc = "send_header" THEN HEADER_SIZE ELSE SizeOf(line)
        /\ HoldsFirst(wire, start, p, line) /\ GoesOn(unsent, line, p)
    BY <1>1, <2>3 DEF SentSoFar
  <2>5. PICK w : Extends(w, wire, n) /\ LiesAt(q, w, n)
    <3>1. q \in Seq(ByteSet)
      BY <1>3
    <3>2. \E w \in [Nat -> ByteSet] :
              (\A i \in 0 .. n : w[i] = wire[i]) /\ (\A j \in 1 .. Len(q) : w[n + j] = q[j])
      BY <2>1, <3>1, LongerWire
    <3> QED BY <3>2 DEF Extends, LiesAt
  <2>6. PICK m \in Nat : m = n + k
    BY <1>2, <2>1
  <2>7. HoldsFirst(w, start, p + k, line)
    <3>1. q \in Seq(ByteSet) /\ Len(q) <= Len(unsent) /\ \A j \in 1 .. Len(q) : q[j] = unsent[j]
      BY <1>2, <1>3
    <3>2. unsent \in Seq(ByteSet)
      BY <1>1 DEF Shapes
    <3>3. Extends(w, wire, start + p) /\ LiesAt(q, w, start + p)
      BY <2>3, <2>5
    <3>4. HoldsFirst(w, start, p + Len(q), line)
      BY <2>4, <3>1, <3>2, <3>3, PieceOfLine
    <3> QED BY <1>3, <3>4
  <2>8. PICK p1 \in Nat : p1 = p + k
    BY <1>2
  <2>9. m = start + p1 /\ n <= m /\ m - start = p1
    BY <1>2, <2>1, <2>3, <2>6, <2>8
  <2>10. Wire(w, m, cut, sent)
    BY <1>1, <2>1, <2>5, <2>9, WireExtends DEF Shapes
  <2>11. ASSUME NEW c, \A i \in 0 .. Len(sent) : c[i] = cut[i], Receives'
         PROVE  ReceivedSoFar(w, m, c[Len(delivered)])'
    <3>1. ReceivedSoFar(wire, n, cut[Len(delivered)])
      BY <1>14, <2>11 DEF OnTheWire, Receives
    <3>2. PICK at \in Nat : at = cut[Len(delivered)] /\ at = c[Len(delivered)]
      <4>1. Len(delivered) \in Nat /\ cut[Len(delivered)] = c[Len(delivered)]
        BY <1>2, <2>11
      <4>2. cut[Len(delivered)] \in Nat
        BY <2>1, <4>1
      <4> QED BY <4>1, <4>2
    <3>3. PICK begin \in Nat : begin = at + (IF handler_pc = "body" THEN HEADER_SIZE ELSE 0)
      BY <3>2, HeaderSize
    <3>4. /\ n = begin + Len(buffer) + Len(in_flight)
          /\ LiesAt(buffer, wire, begin) /\ LiesAt(in_flight, wire, begin + Len(buffer))
          /\ handler_pc = "body" => buffer_size = Len(Message(Len(delivered) + 1))
      BY <3>1, <3>2, <3>3 DEF ReceivedSoFar
    <3>5. buffer \in Seq(ByteSet) /\ in_flight \in Seq(ByteSet) /\ q \in Seq(ByteSet)
      BY <1>1, <1>3 DEF Shapes
    <3>6. /\ n + Len(q) = begin + Len(buffer) + Len(in_flight \o q)
          /\ LiesAt(buffer, w, begin) /\ LiesAt(in_flight \o q, w, begin + Len(buffer))
      BY <2>5, <3>4, <3>5, MoreInFlight
    <3>7. m = n + Len(q)
      BY <1>3, <2>6
    <3> QED BY <1>4, <1>13, <3>2, <3>3, <3>4, <3>6, <3>7 DEF ReceivedSoFar, LiesAt
  <2>12. CASE Goes
    <3>1. SentSoFar(w, p1, start)'
      <4>1. p1 + Len(unsent') = p + Len(unsent)
        BY <1>2, <1>3, <2>8, <2>12
      <4>2. ASSUME NEW j \in 1 .. Len(unsent') PROVE unsent'[j] = ByteOf(line, p1 + j)
        <5>1. j \in 1 .. Len(unsent) - k
          BY <1>3, <2>12
        <5>2. k + j \in 1 .. Len(unsent) /\ p + (k + j) = p1 + j
          BY <1>2, <2>8, <5>1
        <5>3. unsent'[j] = unsent[k + j]
          BY <1>3, <2>12, <5>1
        <5>4. unsent[k + j] = ByteOf(line, p + (k + j))
          BY <2>4, <5>2 DEF GoesOn
        <5> QED BY <5>2, <5>3, <5>4
      <4>3. HoldsFirst(w, start, p1, line)
        BY <2>7, <2>8
      <4>4. Sending' /\ UNCHANGED <<line, console_pc>>
        BY <1>1, <1>6, <2>12 DEF Sending
      <4>5. p1 + Len(unsent') = IF console_pc' = "send_header" THEN HEADER_SIZE ELSE SizeOf(line')
        BY <2>4, <4>1, <4>4
      <4> QED BY <4>2, <4>3, <4>4, <4>5 DEF SentSoFar, HoldsFirst, GoesOn
    <3>2. UNCHANGED sent
      BY <2>12
    <3> QED BY <2>2, <2>9, <2>10, <2>11, <3>1, <3>2 DEF OnTheWire
  <2>13. CASE Turns
    <3>1. SentSoFar(w, p1, start)'
      <4>1. p1 = HEADER_SIZE
        BY <1>2, <2>4, <2>8, <2>13 DEF BufferIsSent
      <4>2. p1 + Len(unsent') = SizeOf(line)
        BY <2>13, <4>1 DEF SizeOf
      <4>3. ASSUME NEW j \in 1 .. Len(line) PROVE line[j] = ByteOf(line, p1 + j)
        <5>1. ~(p1 + j <= HEADER_SIZE) /\ (p1 + j) - HEADER_SIZE = j
          BY <1>2, <4>1, HeaderSize
        <5> QED BY <5>1 DEF ByteOf
      <4>4. HoldsFirst(w, start, p1, line)
        BY <2>7, <2>8
      <4>5. Sending' /\ console_pc' = "send_body" /\ unsent' = line /\ line' = line
        BY <1>6, <2>13 DEF Sending
      <4> QED BY <4>2, <4>3, <4>4, <4>5 DEF SentSoFar, HoldsFirst, GoesOn
    <3>2. UNCHANGED sent
      BY <2>13
    <3> QED BY <2>2, <2>9, <2>10, <2>11, <3>1, <3>2 DEF OnTheWire
  <2>14. CASE Ends
    <3>1. p1 = SizeOf(line)
      BY <1>2, <2>4, <2>8, <2>14 DEF BufferIsSent
    <3>2. HoldsFirst(w, cut[Len(sent)], SizeOf(line), line)
      BY <2>2, <2>7, <2>8, <3>1
    <3>3. m = cut[Len(sent)] + SizeOf(line)
      BY <2>2, <2>9, <3>1
    <3>4. PICK c : /\ Wire(w, m, c, Append(sent, line))
                   /\ \A i \in 0 .. Len(sent) : c[i] = cut[i]
                   /\ c[Len(sent) + 1] = m
      <4>1. sent \in Seq(Lines) /\ line \in Lines
        BY <1>1 DEF Shapes
      <4> QED BY <2>10, <3>2, <3>3, <4>1, WireCompletes
    <3>5. Wire(w, m, c, sent')
      BY <2>14, <3>4
    <3>6. m - c[Len(sent')] = 0
      BY <1>8, <2>6, <2>14, <3>4
    <3>7. SentSoFar(w, m - c[Len(sent)], c[Len(sent)])'
      BY <2>14, <3>6 DEF SentSoFar, Sending
    <3>8. Receives' => ReceivedSoFar(w, m, c[Len(delivered)])'
      BY <2>11, <3>4
    <3> QED BY <3>5, <3>7, <3>8 DEF OnTheWire
  <2> QED BY <1>7, <2>12, <2>13, <2>14
<1> QED BY <1>1, <1>12, <1>14, InvFromParts

-----------------------------------------------------------------------------
(* The handler                                                              *)

LEMMA ReceivedPiece ==
    ASSUME NEW begin \in Nat, NEW wire, NEW b \in Seq(ByteSet), NEW f \in Seq(ByteSet),
           NEW k \in 1 .. Len(f), LiesAt(b, wire, begin), LiesAt(f, wire, begin + Len(b))
    PROVE  LET bytes == b \o SubSeq(f, 1, k)
               left == SubSeq(f, k + 1, Len(f))
           IN  /\ bytes \in Seq(ByteSet) /\ Len(bytes) = Len(b) + k
               /\ left \in Seq(ByteSet) /\ Len(left) = Len(f) - k
               /\ LiesAt(bytes, wire, begin) /\ LiesAt(left, wire, begin + (Len(b) + k))
<1> DEFINE q == SubSeq(f, 1, k)
           bytes == b \o q
           left == SubSeq(f, k + 1, Len(f))
<1>1. Len(b) \in Nat /\ Len(f) \in Nat
  BY LenProperties
<1>2. /\ q \in Seq(ByteSet) /\ Len(q) = k /\ \A j \in 1 .. k : q[j] = f[j]
      /\ left \in Seq(ByteSet) /\ Len(left) = Len(f) - k
      /\ \A j \in 1 .. Len(f) - k : left[j] = f[k + j]
  BY TakeAndLeave
<1> HIDE DEF q, left
<1>3. /\ bytes \in Seq(ByteSet) /\ Len(bytes) = Len(b) + k
      /\ \A j \in 1 .. Len(b) + k : bytes[j] = IF j <= Len(b) THEN b[j] ELSE q[j - Len(b)]
  <2>1. q \in Seq(ByteSet) /\ Len(q) = k
    BY <1>2
  <2>2. /\ b \o q \in Seq(ByteSet) /\ Len(b \o q) = Len(b) + Len(q)
        /\ \A j \in 1 .. Len(b) + Len(q) :
               (b \o q)[j] = IF j <= Len(b) THEN b[j] ELSE q[j - Len(b)]
    BY <2>1, ConcatProperties
  <2> QED BY <2>1, <2>2
<1> HIDE DEF bytes
<1>4. ASSUME NEW j \in 1 .. Len(b) + k PROVE bytes[j] = wire[begin + j]
  <2>1. CASE j <= Len(b)
    <3>1. j \in 1 .. Len(b)
      BY <1>1, <2>1
    <3> QED BY <1>3, <2>1, <3>1 DEF LiesAt
  <2>2. CASE ~(j <= Len(b))
    <3>1. PICK i \in 1 .. k : j = Len(b) + i
      <4>1. j - Len(b) \in 1 .. k /\ j = Len(b) + (j - Len(b))
        BY <1>1, <2>2
      <4> QED BY <4>1
    <3>2. j - Len(b) = i /\ i \in 1 .. Len(f) /\ begin + j = begin + Len(b) + i
      BY <1>1, <3>1
    <3>3. bytes[j] = q[i] /\ q[i] = f[i]
      BY <1>2, <1>3, <2>2, <3>2
    <3> QED BY <3>2, <3>3 DEF LiesAt
  <2> QED BY <2>1, <2>2
<1>5. ASSUME NEW j \in 1 .. Len(f) - k PROVE left[j] = wire[begin + (Len(b) + k) + j]
  <2>1. k + j \in 1 .. Len(f) /\ begin + (Len(b) + k) + j = begin + Len(b) + (k + j)
    BY <1>1
  <2>2. left[j] = f[k + j] /\ f[k + j] = wire[begin + Len(b) + (k + j)]
    BY <1>2, <2>1 DEF LiesAt
  <2> QED BY <2>1, <2>2
<1> QED BY <1>2, <1>3, <1>4, <1>5 DEF LiesAt, bytes, left, q

LEMMA ReceiveBytesInv ==
    ASSUME Inv, NEW k \in 1 .. Len(in_flight), ReceiveBytes(k)
    PROVE  Inv'
<1> DEFINE bytes == buffer \o SubSeq(in_flight, 1, k)
           left == SubSeq(in_flight, k + 1, Len(in_flight))
           d == Len(delivered)
           size == IF handler_pc = "body" THEN HEADER_SIZE ELSE 0
<1>1. Shapes
  BY DEF Inv
<1>2. /\ Len(in_flight) \in Nat /\ Len(buffer) \in Nat /\ Len(sent) \in Nat
      /\ d \in Nat /\ d <= Len(sent) /\ buffer_size \in Nat
      /\ \A i \in 1 .. Len(sent) : sent[i] \in Lines
  BY <1>1, Lengths DEF Shapes
<1>3. connection # "reset" /\ Receives
  <2>1. in_flight # <<>>
    BY <1>2, EmptySeq
  <2> QED BY <1>1, <2>1 DEF Shapes, ReceiveBytes
<1>4. PICK wire, n, cut : OnTheWire(wire, n, cut)
  BY <1>3 DEF Inv
<1>5. /\ Wire(wire, n, cut, sent) /\ ReceivedSoFar(wire, n, cut[d])
      /\ n \in Nat /\ cut \in [Nat -> Nat]
  BY <1>3, <1>4 DEF OnTheWire, Wire
<1>6. PICK at \in Nat : at = cut[d]
  BY <1>2, <1>5
<1>7. PICK begin \in Nat : begin = at + size
  BY HeaderSize
<1>8. /\ n = begin + Len(buffer) + Len(in_flight)
      /\ LiesAt(buffer, wire, begin) /\ LiesAt(in_flight, wire, begin + Len(buffer))
      /\ handler_pc = "body" => buffer_size = Len(Message(d + 1))
  BY <1>5, <1>6, <1>7 DEF ReceivedSoFar
<1>9. /\ bytes \in Seq(ByteSet) /\ Len(bytes) = Len(buffer) + k
      /\ left \in Seq(ByteSet) /\ Len(left) = Len(in_flight) - k
      /\ LiesAt(bytes, wire, begin) /\ LiesAt(left, wire, begin + (Len(buffer) + k))
  <2>1. buffer \in Seq(ByteSet) /\ in_flight \in Seq(ByteSet)
    BY <1>1 DEF Shapes
  <2> QED BY <1>8, <2>1, ReceivedPiece
<1>10. /\ k <= buffer_size - Len(buffer)
       /\ in_flight' = left
       /\ \/ /\ ~BufferIsFull(bytes) /\ buffer' = bytes
             /\ UNCHANGED <<handler_pc, buffer_size, server_parsed, delivered>>
          \/ BufferIsFull(bytes) /\ handler_pc = "header" /\ ReceiveHeader(bytes)
          \/ BufferIsFull(bytes) /\ handler_pc = "body" /\ ReceiveBody(bytes)
       /\ UNCHANGED <<consoleVars, connection>>
  BY DEF ReceiveBytes
<1> HIDE DEF bytes, left
<1>11. PICK got \in Nat : got = Len(bytes)
  BY <1>2, <1>9
<1>12. n = begin + got + Len(left) /\ LiesAt(left, wire, begin + got) /\ got >= 1 /\ got <= buffer_size
       /\ begin + got <= n
  <2>1. got = Len(buffer) + k /\ k <= buffer_size - Len(buffer) /\ Len(left) = Len(in_flight) - k
    BY <1>9, <1>10, <1>11
  <2>2. n = begin + Len(buffer) + Len(in_flight)
    BY <1>8
  <2>3. LiesAt(left, wire, begin + got)
    BY <1>9, <2>1
  <2> QED BY <1>2, <2>1, <2>2, <2>3
<1>13. UNCHANGED <<console_pc, line, n_read, overrun, typed, unsent, sent, connection>>
  BY <1>10 DEF consoleVars
<1>14. Wire(wire, n, cut, sent)'
  BY <1>5, <1>13
<1>15. SentSoFar(wire, n - cut[Len(sent)], cut[Len(sent)])'
  BY <1>4, <1>13 DEF OnTheWire, SentSoFar, Sending
<1>16. /\ in_flight' \in Seq(ByteSet) /\ connection' # "reset"
  BY <1>3, <1>9, <1>10, <1>13
<1>17. PICK x \in Nat \ {0} : x = size + got /\ at + x = begin + got
  <2>1. PICK z \in Nat : z = size
    BY HeaderSize
  <2>2. begin = at + z /\ z + got \in Nat \ {0} /\ at + (z + got) = begin + got
    BY <1>7, <1>12, <2>1
  <2> HIDE DEF size
  <2> QED BY <2>1, <2>2
<1>18. /\ Message(d + 1) \in Lines
       /\ \A j \in 1 .. SizeOf(Message(d + 1)) :
              j <= x => wire[at + j] = ByteOf(Message(d + 1), j)
       /\ d = Len(sent) => Sending /\ x < SizeOf(line)
       /\ d < Len(sent) => cut[d + 1] = at + SizeOf(sent[d + 1])
  <2>1. d \in 0 .. Len(sent) /\ cut[d] + x <= n
    BY <1>2, <1>6, <1>12, <1>17
  <2> HIDE DEF d
  <2> QED BY <1>1, <1>4, <1>6, <2>1, NextMessage
<1>19. PICK m \in Lines : m = Message(d + 1)
  BY <1>18
<1>20. /\ m \in Seq(ByteSet) /\ Len(m) \in Nat \ {0} /\ SizeOf(m) = HEADER_SIZE + Len(m)
       /\ HEADER_SIZE \in Nat \ {0} /\ SizeOf(m) \in Nat
  BY HeaderSize, Sizes, BytesOfLine DEF Lines, SizeOf
<1>21. CASE /\ ~BufferIsFull(bytes) /\ buffer' = bytes
            /\ UNCHANGED <<handler_pc, buffer_size, server_parsed, delivered>>
  <2>1. got < buffer_size
    BY <1>2, <1>11, <1>12, <1>21 DEF BufferIsFull
  <2>2. Shapes'
    BY <1>1, <1>9, <1>11, <1>12, <1>13, <1>16, <1>21, <2>1 DEF Shapes, Sending, Receives
  <2>3. ReceivedSoFar(wire, n, cut[Len(delivered)])'
    <3>1. Message(Len(delivered) + 1)' = Message(d + 1)
      BY <1>13, <1>21 DEF Message
    <3>2. LiesAt(bytes, wire, begin) /\ LiesAt(left, wire, begin + Len(bytes))
      BY <1>9, <1>11, <1>12
    <3>3. n = begin + Len(bytes) + Len(left)
      BY <1>11, <1>12
    <3> QED BY <1>6, <1>7, <1>8, <1>10, <1>21, <3>1, <3>2, <3>3 DEF ReceivedSoFar, LiesAt
  <2> QED BY <1>14, <1>15, <2>2, <2>3 DEF Inv, OnTheWire
<1>22. CASE BufferIsFull(bytes) /\ handler_pc = "header" /\ ReceiveHeader(bytes)
  <2>1. got = HEADER_SIZE /\ begin = at /\ x = HEADER_SIZE /\ Len(bytes) = HEADER_SIZE
    BY <1>1, <1>7, <1>11, <1>17, <1>22, HeaderSize DEF BufferIsFull, Shapes
  <2>2. bytes = HeaderOf(m)
    <3>1. HeaderOf(m) \in Seq(ByteSet) /\ Len(HeaderOf(m)) = HEADER_SIZE
      BY HeaderOfLine
    <3>2. ASSUME NEW j \in 1 .. HEADER_SIZE PROVE bytes[j] = HeaderOf(m)[j]
      <4>1. j \in 1 .. SizeOf(m) /\ j <= x /\ j <= HEADER_SIZE
        BY <1>20, <2>1
      <4>2. wire[at + j] = HeaderOf(m)[j]
        BY <1>18, <1>19, <4>1 DEF ByteOf
      <4>3. bytes[j] = wire[at + j]
        BY <1>9, <2>1 DEF LiesAt
      <4> QED BY <4>2, <4>3
    <3> QED BY <1>9, <2>1, <3>1, <3>2, SeqEqual
  <2>3. /\ buffer' = <<>> /\ Len(buffer') = 0 /\ buffer_size' = Len(m) /\ handler_pc' = "body"
        /\ UNCHANGED <<delivered, server_parsed>>
    BY <1>20, <1>22, <2>2, HeaderOfLine, EmptySeq DEF ReceiveHeader
  <2>4. buffer' \in Seq(ByteSet)
    BY <2>3, EmptySeq
  <2>5. Shapes'
    BY <1>1, <1>13, <1>16, <1>20, <2>3, <2>4 DEF Shapes, Sending, Receives
  <2>6. ReceivedSoFar(wire, n, cut[Len(delivered)])'
    <3>1. Message(Len(delivered) + 1)' = m
      BY <1>13, <1>19, <2>3 DEF Message
    <3>2. n = at + HEADER_SIZE + 0 + Len(left) /\ at + HEADER_SIZE + 0 = begin + got
      BY <1>12, <2>1
    <3>3. LiesAt(left, wire, at + HEADER_SIZE + 0)
      BY <1>12, <3>2
    <3> QED BY <1>6, <1>10, <2>3, <3>1, <3>2, <3>3 DEF ReceivedSoFar, LiesAt
  <2> QED BY <1>14, <1>15, <2>5, <2>6 DEF Inv, OnTheWire
<1>23. CASE BufferIsFull(bytes) /\ handler_pc = "body" /\ ReceiveBody(bytes)
  <2>1. /\ got = Len(m) /\ begin = at + HEADER_SIZE /\ x = SizeOf(m) /\ Len(bytes) = Len(m)
    BY <1>7, <1>8, <1>11, <1>17, <1>19, <1>20, <1>23 DEF BufferIsFull
  <2>2. d < Len(sent) /\ m = sent[d + 1]
    <3>1. d = Len(sent) => m = line
      BY <1>2, <1>19 DEF Message
    <3>2. d # Len(sent)
      BY <1>18, <1>20, <2>1, <3>1
    <3>3. d < Len(sent) /\ d + 1 <= Len(sent)
      BY <1>2, <3>2
    <3> QED BY <1>19, <3>3 DEF Message
  <2>3. bytes = m
    <3>1. ASSUME NEW j \in 1 .. Len(m) PROVE bytes[j] = m[j]
      <4>1. PICK i \in 1 .. SizeOf(m) : i = HEADER_SIZE + j
        BY <1>20
      <4>2. i <= x /\ ~(i <= HEADER_SIZE) /\ i - HEADER_SIZE = j /\ at + i = begin + j
        BY <1>20, <2>1, <4>1
      <4>3. wire[at + i] = m[j]
        BY <1>18, <1>19, <4>2 DEF ByteOf
      <4>4. bytes[j] = wire[begin + j]
        BY <1>9, <2>1 DEF LiesAt
      <4> QED BY <4>2, <4>3, <4>4
    <3> QED BY <1>9, <1>20, <2>1, <3>1, SeqEqual
  <2>4. /\ delivered' = Append(delivered, m)
        /\ server_parsed' = ParseMessage(m, Len(m))
        /\ handler_pc' \in {"header", "stopped"}
        /\ buffer' = <<>> /\ buffer_size' = HEADER_SIZE
    BY <1>23, <2>3 DEF ReceiveBody
  <2>5. /\ delivered' \in Seq(Lines) /\ Len(delivered') = d + 1 /\ delivered' # <<>>
        /\ (\A i \in 1 .. d : delivered'[i] = delivered[i]) /\ delivered'[d + 1] = m
    <3>1. delivered \in Seq(Lines)
      BY <1>1 DEF Shapes
    <3>2. /\ Append(delivered, m) \in Seq(Lines) /\ Append(delivered, m) # <<>>
          /\ Len(Append(delivered, m)) = d + 1
          /\ \A i \in 1 .. d : Append(delivered, m)[i] = delivered[i]
          /\ Append(delivered, m)[d + 1] = m
      BY <3>1, AppendProperties
    <3> QED BY <2>4, <3>2
  <2>6. \A i \in 1 .. Len(delivered') : delivered'[i] = sent[i]
    <3> SUFFICES ASSUME NEW i \in 1 .. d + 1 PROVE delivered'[i] = sent[i]
      BY <2>5
    <3>1. CASE i = d + 1
      BY <2>2, <2>5, <3>1
    <3>2. CASE i # d + 1
      <4>1. i \in 1 .. d
        BY <1>2, <3>2
      <4> QED BY <1>1, <2>5, <4>1 DEF Shapes
    <3> QED BY <3>1, <3>2
  <2>7. /\ Len(delivered') <= Len(sent)
        /\ LET last == delivered'[Len(delivered')] IN server_parsed' = ParseMessage(last, Len(last))
    BY <1>2, <2>2, <2>4, <2>5
  <2>8. buffer' \in Seq(ByteSet) /\ Len(buffer') = 0
    BY <2>4, EmptySeq
  <2>9. Shapes'
    <3>1. UNCHANGED <<console_pc, line, n_read, overrun, typed, unsent, sent, connection>>
      BY <1>13
    <3>2. /\ handler_pc' \in {"header", "body", "stopped"} /\ Len(buffer') <= buffer_size'
          /\ Len(buffer') < buffer_size' /\ buffer_size' \in Nat /\ buffer_size' = HEADER_SIZE
      BY <1>20, <2>4, <2>8
    <3> QED BY <1>1, <1>16, <2>5, <2>6, <2>7, <2>8, <3>1, <3>2 DEF Shapes, Sending, Receives
  <2>10. ASSUME Receives' PROVE ReceivedSoFar(wire, n, cut[Len(delivered)])'
    <3>1. cut[Len(delivered')] = begin + got
      BY <1>6, <1>18, <1>20, <2>1, <2>2, <2>5
    <3>2. handler_pc' = "header"
      BY <2>4, <2>10 DEF Receives
    <3>3. n = (begin + got) + 0 + Len(left) /\ (begin + got) + 0 = begin + got
      BY <1>12
    <3>4. LiesAt(left, wire, (begin + got) + 0)
      BY <1>12, <3>3
    <3>5. PICK start \in Nat : start = begin + got
      OBVIOUS
    <3>6. start + 0 = start /\ n = start + 0 + Len(left) /\ LiesAt(left, wire, start + 0)
      BY <3>3, <3>4, <3>5
    <3> QED BY <1>10, <2>8, <3>1, <3>2, <3>5, <3>6 DEF ReceivedSoFar, LiesAt
  <2> QED BY <1>14, <1>15, <2>9, <2>10 DEF Inv, OnTheWire
<1> QED BY <1>10, <1>21, <1>22, <1>23

LEMMA ReceiveFailsInv ==
    ASSUME Inv, ReceiveFails
    PROVE  Inv'
<1> USE DEF ReceiveFails, consoleVars
<1>1. Shapes
  BY DEF Inv
<1>2. buffer' \in Seq(ByteSet) /\ Len(buffer') = 0
  BY EmptySeq
<1>3. Shapes'
  BY <1>1, <1>2 DEF Shapes, Sending, Receives
<1>4. ASSUME NEW wire, NEW n, NEW cut, OnTheWire(wire, n, cut) PROVE OnTheWire(wire, n, cut)'
  BY <1>4 DEF OnTheWire, Wire, SentSoFar, Sending, Receives
<1> QED BY <1>3, <1>4, InvFromParts

-----------------------------------------------------------------------------
(* The connection                                                           *)

LEMMA CloseConnectionInv ==
    ASSUME Inv, CloseConnection
    PROVE  Inv'
<1> USE DEF CloseConnection, consoleVars, handlerVars
<1>1. Shapes
  BY DEF Inv
<1>2. Shapes'
  BY <1>1 DEF Shapes, Sending, Receives
<1>3. ASSUME NEW wire, NEW n, NEW cut, OnTheWire(wire, n, cut) PROVE OnTheWire(wire, n, cut)'
  BY <1>3 DEF OnTheWire, Wire, SentSoFar, Sending, Receives, ReceivedSoFar, Message
<1> QED BY <1>2, <1>3, InvFromParts

LEMMA ResetConnectionInv ==
    ASSUME Inv, ResetConnection
    PROVE  Inv'
<1> USE DEF ResetConnection, consoleVars, handlerVars
<1>1. Shapes /\ in_flight' \in Seq(ByteSet)
  BY EmptySeq DEF Inv
<1>2. Shapes'
  BY <1>1 DEF Shapes, Sending, Receives
<1> QED BY <1>2, InvFromParts

LEMMA StutterInv ==
    ASSUME Inv, UNCHANGED vars
    PROVE  Inv'
<1> USE DEF vars, consoleVars, handlerVars
<1>1. Shapes
  BY DEF Inv
<1>2. Shapes'
  BY <1>1 DEF Shapes, Sending, Receives
<1>3. ASSUME NEW wire, NEW n, NEW cut, OnTheWire(wire, n, cut) PROVE OnTheWire(wire, n, cut)'
  BY <1>3 DEF OnTheWire, Wire, SentSoFar, Sending, Receives, ReceivedSoFar, Message
<1> QED BY <1>2, <1>3, InvFromParts

LEMMA NextInv == Inv /\ [Next]_vars => Inv'
<1> SUFFICES ASSUME Inv, [Next]_vars PROVE Inv'
  OBVIOUS
<1>1. CASE ConsoleNext
  <2> USE <1>1 DEF ConsoleNext
  <2>1. CASE (\E c \in Keys : ReadCharacter(c)) /\ UNCHANGED in_flight
    BY <2>1, ReadCharacterInv
  <2>2. CASE ReadNewline /\ UNCHANGED in_flight
    BY <2>2, ReadNewlineInv
  <2>3. CASE ReadEof /\ UNCHANGED in_flight
    BY <2>3, ReadEofInv
  <2>4. CASE ClientParse /\ UNCHANGED in_flight
    BY <2>4, ClientParseInv
  <2>5. CASE \E k \in 1 .. Len(unsent) : SendBytes(k)
    BY <2>5, SendBytesInv
  <2>6. CASE SendFails
    BY <2>6, SendFailsInv
  <2> QED BY <2>1, <2>2, <2>3, <2>4, <2>5, <2>6
<1>2. CASE CloseConnection
  BY <1>2, CloseConnectionInv
<1>3. CASE ResetConnection
  BY <1>3, ResetConnectionInv
<1>4. CASE HandlerNext
  BY <1>4, ReceiveBytesInv, ReceiveFailsInv DEF HandlerNext
<1>5. CASE Terminated \/ UNCHANGED vars
  BY <1>5, StutterInv DEF Terminated
<1> QED BY <1>1, <1>2, <1>3, <1>4, <1>5 DEF Next

\* What is in the buffers of both ends and on the connection at any time are the
\* bytes of the lines, in their order.
THEOREM InvHolds == Spec => []Inv
<1>1. Init => Inv
  BY InitInv
<1>2. Inv /\ [Next]_vars => Inv'
  BY NextInv
<1> QED BY <1>1, <1>2, PTL DEF Spec

-----------------------------------------------------------------------------
(* The theorems                                                             *)

\* ReceiveBuffer never holds more than what was allocated for the header, or
\* for the message whose header it read.
THEOREM TypeTheorem == Spec => []TypeInvariant
<1>1. Inv => TypeInvariant
  BY TypeFollows
<1> QED BY <1>1, InvHolds, PTL

\* What is sent always fits a message and is terminated, though the reader
\* stores the '\0' of a longer line behind its array.
THEOREM SentLinesTheorem == Spec => []SentLinesAreTerminated
<1>1. Inv => SentLinesAreTerminated
  <2> SUFFICES ASSUME Inv, NEW i \in DOMAIN sent
               PROVE  Len(sent[i]) \in 1 .. MESSAGE_MAXLENGTH /\ sent[i][Len(sent[i])] = Nul
    BY DEF SentLinesAreTerminated
  <2>1. sent[i] \in Lines
    BY ElementOfSeq, LenProperties DEF Inv, Shapes
  <2> QED BY <2>1 DEF Lines
<1> QED BY <1>1, InvHolds, PTL

\* SendChatMessage and ReceiveChatMessage over a stream of bytes are a channel
\* of messages: whatever pieces send and recv move, what is received are the
\* lines sent, whole, in order, none twice.
THEOREM ChannelTheorem == Spec => ImplementsChannel
<1>1. Init => Channel!Init
  BY DEF Init, Channel!Init
<1>2. Inv /\ Inv' /\ [Next]_vars => [Channel!Next]_(Channel!vars)
  <2> SUFFICES ASSUME Inv, Inv', [Next]_vars
               PROVE  Channel!Send \/ Channel!Deliver \/ UNCHANGED <<sent, delivered>>
    BY DEF Channel!Next, Channel!vars
  <2>1. Shapes /\ Shapes' /\ Len(delivered) \in Nat /\ Len(sent) \in Nat
    BY Lengths DEF Inv
  <2>2. CASE sent' = Append(sent, line) /\ line \in Lines /\ UNCHANGED delivered
    <3>1. /\ Append(sent, line) \in Seq(Lines) /\ Len(Append(sent, line)) = Len(sent) + 1
          /\ \A i \in 1 .. Len(sent) : Append(sent, line)[i] = sent[i]
      BY <2>1, <2>2, AppendProperties DEF Shapes
    <3>2. SubSeq(Append(sent, line), 1, Len(sent)) = sent
      <4>1. \A i \in 1 .. Len(sent) : Append(sent, line)[i] \in Lines
        BY <2>1, <3>1, Lengths
      <4>2. 1 \in Int /\ Len(sent) \in Int
        BY <2>1
      <4> DEFINE front == SubSeq(Append(sent, line), 1, Len(sent))
      <4>3. /\ front \in Seq(Lines)
            /\ Len(front) = IF 1 <= Len(sent) THEN Len(sent) - 1 + 1 ELSE 0
            /\ \A i \in 1 .. Len(sent) - 1 + 1 : front[i] = Append(sent, line)[1 + i - 1]
        BY <4>1, <4>2, SubSeqProperties
      <4> HIDE DEF front
      <4>4. Len(front) = Len(sent)
        BY <2>1, <4>3
      <4>5. ASSUME NEW i \in 1 .. Len(sent) PROVE front[i] = sent[i]
        <5>1. i \in 1 .. Len(sent) - 1 + 1 /\ 1 + i - 1 = i
          BY <2>1
        <5>2. front[i] = Append(sent, line)[1 + i - 1]
          BY <4>3, <5>1
        <5> QED BY <3>1, <5>1, <5>2
      <4>6. sent \in Seq(Lines)
        BY <2>1 DEF Shapes
      <4>7. front = sent
        BY <4>3, <4>4, <4>5, <4>6, SeqEqual
      <4> QED BY <4>7 DEF front
    <3> QED BY <2>2, <3>1, <3>2 DEF Channel!Send
  <2>3. CASE /\ UNCHANGED sent /\ Len(delivered') = Len(delivered) + 1
             /\ \E body : delivered' = Append(delivered, body)
    <3>1. PICK body : delivered' = Append(delivered, body)
      BY <2>3
    <3>2. Len(delivered) < Len(sent) /\ Len(delivered) + 1 \in 1 .. Len(delivered')
      <4>1. Len(delivered') <= Len(sent)
        BY <2>1, <2>3 DEF Shapes
      <4> QED BY <2>1, <2>3, <4>1
    <3>3. body = delivered'[Len(delivered) + 1]
      <4>1. delivered \in Seq(Lines \cup {body})
        <5>1. Lines \subseteq Lines \cup {body} /\ delivered \in Seq(Lines)
          BY <2>1 DEF Shapes
        <5> QED BY <5>1, SeqMonotonic
      <4>2. body \in Lines \cup {body}
        OBVIOUS
      <4> QED BY <3>1, <4>1, <4>2, AppendProperties
    <3>4. delivered'[Len(delivered) + 1] = sent[Len(delivered) + 1]
      BY <2>1, <2>3, <3>2 DEF Shapes
    <3> QED BY <2>3, <3>1, <3>2, <3>3, <3>4 DEF Channel!Deliver
  <2>4. CASE ConsoleNext
    <3>1. UNCHANGED delivered
      BY <2>4 DEF ConsoleNext, handlerVars
    <3>2. UNCHANGED sent \/ (sent' = Append(sent, line) /\ Sending)
      <4>1. CASE \E c \in Keys : ReadCharacter(c)
        BY <4>1 DEF ReadCharacter
      <4>2. CASE ReadNewline
        BY <4>2 DEF ReadNewline
      <4>3. CASE ReadEof
        BY <4>3 DEF ReadEof
      <4>4. CASE ClientParse
        BY <4>4 DEF ClientParse
      <4>5. CASE \E k \in 1 .. Len(unsent) : SendBytes(k)
        BY <4>5 DEF SendBytes, Sending
      <4>6. CASE SendFails
        BY <4>6 DEF SendFails
      <4> QED BY <2>4, <4>1, <4>2, <4>3, <4>4, <4>5, <4>6 DEF ConsoleNext
    <3>3. Sending => line \in Lines
      BY <2>1 DEF Shapes
    <3> QED BY <2>2, <3>1, <3>2, <3>3
  <2>5. CASE HandlerNext
    <3>1. UNCHANGED sent
      BY <2>5 DEF HandlerNext, ReceiveBytes, ReceiveFails, consoleVars
    <3>2. UNCHANGED delivered \/ \E body : delivered' = Append(delivered, body)
      BY <2>5 DEF HandlerNext, ReceiveBytes, ReceiveFails, ReceiveHeader, ReceiveBody
    <3>3. ASSUME NEW body, delivered' = Append(delivered, body)
          PROVE  Len(delivered') = Len(delivered) + 1
      <4>1. delivered \in Seq(Lines \cup {body})
        <5>1. Lines \subseteq Lines \cup {body} /\ delivered \in Seq(Lines)
          BY <2>1 DEF Shapes
        <5> QED BY <5>1, SeqMonotonic
      <4>2. body \in Lines \cup {body}
        OBVIOUS
      <4> QED BY <3>3, <4>1, <4>2, AppendProperties
    <3> QED BY <2>3, <3>1, <3>2, <3>3
  <2>6. CASE CloseConnection \/ ResetConnection \/ Terminated \/ UNCHANGED vars
    BY <2>6 DEF CloseConnection, ResetConnection, Terminated, vars, consoleVars, handlerVars
  <2> QED BY <2>4, <2>5, <2>6 DEF Next
<1> QED BY <1>1, <1>2, InvHolds, PTL DEF Spec, ImplementsChannel, Channel!Spec

\* The parser of the server is given the line as it was typed, with its length
\* as it was sent: it overflows an array only for a line with a word too long
\* for it, and understands every other line as the grammar means it, unless its
\* word extends a command.
THEOREM UnderstandsTheorem == Spec => []ServerUnderstands
<1>1. Inv => ServerUnderstands
  <2> SUFFICES ASSUME Inv, server_parsed # NoResult PROVE ServerUnderstands
    BY DEF ServerUnderstands
  <2>1. Shapes /\ Len(delivered) \in 0 .. Len(sent) /\ delivered # <<>>
    BY Lengths DEF Inv, Shapes
  <2>2. Len(delivered) \in 1 .. Len(delivered) /\ Len(delivered) \in 1 .. Len(sent)
    <3>1. Len(delivered) \in Nat \ {0} /\ Len(sent) \in Nat
      BY <2>1, EmptySeq, Lengths DEF Shapes
    <3> QED BY <2>1, <3>1
  <2>3. PICK m \in Lines : m = sent[Len(delivered)]
    BY <2>1, <2>2, Lengths
  <2>4. server_parsed = ParseMessage(m, Len(m))
    BY <2>1, <2>2, <2>3 DEF Shapes
  <2>5. m \in Seq(Int) /\ m # <<>> /\ Len(m) < WORD \div 2
    <3>1. m \in Seq(ByteSet) /\ Len(m) \in 1 .. MESSAGE_MAXLENGTH
      BY DEF Lines
    <3>2. ByteSet \subseteq Int
      BY Sizes DEF ByteSet
    <3>3. WORD \div 2 \in Nat
      BY WordIsValues, Division
    <3>4. m \in Seq(Int)
      BY <3>1, <3>2, SeqMonotonic
    <3>5. m # <<>>
      BY <3>1, EmptySeq
    <3>6. Len(m) < WORD \div 2
      BY <3>1, <3>3, Sizes
    <3> QED BY <3>4, <3>5, <3>6
  <2>6. IF Overflows(m) THEN server_parsed = Overflowed
        ELSE /\ server_parsed # Overflowed
             /\ ~ExtendsCommand(m) => Means(m, Request(server_parsed))
    BY <2>4, <2>5, ParserUnderstands
  <2> QED BY <2>3, <2>6 DEF ServerUnderstands
<1> QED BY <1>1, InvHolds, PTL
=============================================================================

-------------------------- MODULE RegisterWriteProofs -------------------------
(***************************************************************************)
(* Theorems about RegisterWrite, for every width of a register, number of  *)
(* tries and set of errors, and about RegisterCodec, for every table whose *)
(* windows contain its registers, every memory and every payload.          *)
(***************************************************************************)
EXTENDS MCRegisterWrite, FiniteSetTheorems, TLAPS

(* Under way: a try is left, the others are counted, the device holds the  *)
(* new value or the old one, and only after a time-out perhaps the new.    *)
UnderWay ==
  phase = "writing" =>
    /\ retries > 0
    /\ transactions = maxModbusReadRetries - retries
    /\ applied => timedOut

(* applied tells which of the two values the device holds.                 *)
OldOrNew == holding = IF applied THEN value ELSE before

IInv == /\ TypeOK
        /\ UnderWay
        /\ OldOrNew
        /\ SuccessIsTrue
        /\ RefusalIsTrue
        /\ WriteIsBounded

-------------------------------------------------------------------------------
USE DEF TryLeft, OneTryLess, Retried, Returned

(* The initial state satisfies the invariant.                              *)
LEMMA InitInv == Init => IInv
<1> SUFFICES ASSUME Init PROVE IInv
  OBVIOUS
<1>1. TypeOK
  <2>1. retries \in 0..maxModbusReadRetries /\ transactions \in 0..(maxModbusReadRetries + 1)
    BY RetriesAssumption DEF Init
  <2>2. commands \in 0..MaxCommands /\ answers \in Nat
    BY CommandsAssumption DEF Init
  <2>3. /\ phase \in {"idle", "writing"} /\ answer \in Results \cup {"none"}
        /\ applied \in BOOLEAN /\ timedOut \in BOOLEAN
    BY DEF Init
  <2>4. value \in Value /\ holding \in Value /\ before \in Value
    BY DEF Init
  <2> QED
    BY <2>1, <2>2, <2>3, <2>4 DEF TypeOK
<1>2. UnderWay /\ OldOrNew /\ SuccessIsTrue /\ RefusalIsTrue
  BY DEF Init, UnderWay, OldOrNew, SuccessIsTrue, RefusalIsTrue
<1>3. WriteIsBounded
  BY RetriesAssumption DEF Init, WriteIsBounded
<1> QED
  BY <1>1, <1>2, <1>3 DEF IInv

(* A transaction: what it may do to the device and to the histories.       *)
LEMMA TransactEffect ==
  ASSUME TypeOK, UnderWay, OldOrNew, phase = "writing",
         NEW r \in Results, Transact(r)
  PROVE  /\ holding' \in Value /\ applied' \in BOOLEAN /\ timedOut' \in BOOLEAN
         /\ holding' = IF applied' THEN value ELSE before
         /\ r = "Success" => applied'
         /\ r = "TimedOut" => timedOut'
         /\ r \in Refusals /\ ~timedOut' => ~applied'
         /\ transactions' = maxModbusReadRetries - retries + 1
<1>0. CarriedOut \/ Ignored
  BY DEF Transact, Outcome
<1>1. /\ holding' \in Value /\ applied' \in BOOLEAN /\ timedOut' \in BOOLEAN
      /\ holding' = IF applied' THEN value ELSE before
  <2>1. timedOut' \in BOOLEAN
    BY DEF Transact
  <2>2. CASE CarriedOut
    BY <2>1, <2>2 DEF TypeOK, CarriedOut
  <2>3. CASE Ignored
    BY <2>1, <2>3 DEF TypeOK, OldOrNew, Ignored
  <2> QED
    BY <1>0, <2>2, <2>3
<1>2. r = "TimedOut" => timedOut'
  BY DEF Transact
<1>3. r = "Success" => applied'
  BY ErrorsAssumption DEF Transact, Outcome, CarriedOut
<1>4. r \in Refusals => (applied' <=> applied)
  BY ErrorsAssumption DEF Transact, Outcome, Ignored, CarriedOut
<1>5. ~timedOut' => ~timedOut
  BY DEF TypeOK, Transact
<1>6. r \in Refusals /\ ~timedOut' => ~applied'
  BY <1>4, <1>5 DEF UnderWay
<1>7. transactions' = maxModbusReadRetries - retries + 1
  BY RetriesAssumption DEF TypeOK, UnderWay, Transact
<1> QED
  BY <1>1, <1>2, <1>3, <1>6, <1>7

(* Every step keeps the invariant.                                         *)
LEMMA StepInv == IInv /\ [Next]_vars => IInv'
<1> SUFFICES ASSUME IInv, [Next]_vars PROVE IInv'
  OBVIOUS
<1> USE RetriesAssumption, CommandsAssumption
<1>1. ASSUME NEW v \in Value, writePayload(v) PROVE IInv'
  <2>1. TypeOK'
    <3>1. /\ retries' \in 0..maxModbusReadRetries /\ commands' \in 0..MaxCommands
          /\ transactions' \in 0..(maxModbusReadRetries + 1)
      BY <1>1 DEF writePayload, IInv, TypeOK
    <3>2. /\ phase' \in {"idle", "writing"} /\ answer' \in Results \cup {"none"}
          /\ applied' \in BOOLEAN /\ timedOut' \in BOOLEAN /\ answers' \in Nat
      BY <1>1 DEF writePayload, IInv, TypeOK
    <3>3. value' \in Value /\ holding' \in Value /\ before' \in Value
      BY <1>1 DEF writePayload, IInv, TypeOK
    <3> QED
      BY <3>1, <3>2, <3>3 DEF TypeOK
  <2>2. UnderWay' /\ OldOrNew' /\ WriteIsBounded'
    BY <1>1 DEF writePayload, UnderWay, OldOrNew, WriteIsBounded
  <2>3. SuccessIsTrue' /\ RefusalIsTrue'
    BY <1>1 DEF writePayload, SuccessIsTrue, RefusalIsTrue
  <2> QED
    BY <2>1, <2>2, <2>3 DEF IInv
<1>2. ASSUME NEW r \in Results, Retry(r) PROVE IInv'
  <2>1. TypeOK'
    BY <1>2, TransactEffect DEF Retry, IInv, TypeOK
  <2>2. UnderWay' /\ OldOrNew' /\ WriteIsBounded'
    BY <1>2, TransactEffect DEF Retry, IInv, TypeOK, UnderWay, OldOrNew, WriteIsBounded
  <2>3. SuccessIsTrue' /\ RefusalIsTrue'
    BY <1>2 DEF Retry, SuccessIsTrue, RefusalIsTrue
  <2> QED
    BY <2>1, <2>2, <2>3 DEF IInv
<1>3. ASSUME NEW r \in Results, Publish(r) PROVE IInv'
  <2>0. retries > 0
    BY <1>3 DEF Publish, IInv, UnderWay
  <2>1. TypeOK'
    BY <1>3, <2>0, TransactEffect DEF Publish, IInv, TypeOK
  <2>2. UnderWay' /\ OldOrNew' /\ WriteIsBounded'
    BY <1>3, <2>0, TransactEffect
       DEF Publish, IInv, TypeOK, UnderWay, OldOrNew, WriteIsBounded
  <2>3. SuccessIsTrue' /\ RefusalIsTrue'
    BY <1>3, TransactEffect DEF Publish, IInv, SuccessIsTrue, RefusalIsTrue
  <2> QED
    BY <2>1, <2>2, <2>3 DEF IInv
<1>4. CASE UNCHANGED vars
  BY <1>4 DEF vars, IInv, TypeOK, UnderWay, OldOrNew, SuccessIsTrue, RefusalIsTrue,
              WriteIsBounded
<1> QED
  BY <1>1, <1>2, <1>3, <1>4 DEF Next, Step

(* The inductive invariant holds in every behaviour.                       *)
THEOREM Invariant == Spec => []IInv
BY InitInv, StepInv, PTL DEF Spec

(* Every variable stays in its type (writePayload, writeHoldingRegister).  *)
THEOREM TypeCorrect == Spec => []TypeOK
BY Invariant, PTL DEF IInv

(* Success is published only of what the device holds (SuccessIsTrue).     *)
THEOREM SuccessIsHeld == Spec => []SuccessIsTrue
BY Invariant, PTL DEF IInv

(* A refusal without a time-out before it has changed nothing.             *)
THEOREM RefusalChangesNothing == Spec => []RefusalIsTrue
BY Invariant, PTL DEF IInv

(* What the sender of a command is told is true.                           *)
THEOREM AnswersAreTrue == Spec => []AnswerIsTrue
BY SuccessIsHeld, RefusalChangesNothing, PTL DEF AnswerIsTrue

(* The bus is held for a bounded number of transactions (WriteIsBounded).  *)
THEOREM CommandIsBounded == Spec => []WriteIsBounded
BY Invariant, PTL DEF IInv

-------------------------------------------------------------------------------
(* Every step is one of AtomicWrite or does not show.                      *)
LEMMA StepIsAtomic == IInv /\ [Next]_vars => [Abstract!Next]_(Abstract!vars)
<1> SUFFICES ASSUME IInv, [Next]_vars PROVE [Abstract!Next]_(Abstract!vars)
  OBVIOUS
<1> USE DEF Abstract!vars
<1>1. ASSUME NEW v \in Value, writePayload(v) PROVE Abstract!Ask(v)
  BY <1>1 DEF writePayload, Abstract!Ask
<1>2. ASSUME NEW r \in Results, Retry(r) PROVE Abstract!TakeEffect \/ UNCHANGED Abstract!vars
  <2>1. CASE applied
    BY <1>2, <2>1 DEF Retry, Transact, Outcome, CarriedOut, Ignored, IInv, OldOrNew
  <2>2. CASE ~applied
    BY <1>2, <2>2
       DEF Retry, Transact, Outcome, CarriedOut, Ignored, Abstract!TakeEffect
  <2> QED
    BY <2>1, <2>2
<1>3. ASSUME NEW r \in Results, Publish(r) PROVE Abstract!Answer(r)
  <2>1. r = "Success" => holding' = value
    BY <1>3, ErrorsAssumption DEF Publish, Transact, Outcome, CarriedOut
  <2>2. holding' \in IF ~applied THEN {holding, value} ELSE {holding}
    BY <1>3 DEF Publish, Transact, Outcome, CarriedOut, Ignored, IInv, OldOrNew
  <2> QED
    BY <1>3, <2>1, <2>2 DEF Publish, Abstract!Answer
<1>4. CASE UNCHANGED vars
  BY <1>4 DEF vars
<1> QED
  BY <1>1, <1>2, <1>3, <1>4 DEF Next, Step, Abstract!Next

(* Commands with their retries implement AtomicWrite (WriteIsAtomic).      *)
THEOREM WriteRefinesAtomicWrite == Spec => WriteIsAtomic
<1>1. Init => Abstract!Init
  BY DEF Init, Abstract!Init
<1> QED
  BY <1>1, StepIsAtomic, Invariant, PTL DEF Spec, WriteIsAtomic, Abstract!Spec
-------------------------------------------------------------------------------
(* A set with 0 and the next of each of its numbers has them all.          *)
LEMMA SetInduction ==
  ASSUME NEW T, 0 \in T, \A n \in Nat : n \in T => n + 1 \in T
  PROVE  Nat \subseteq T
<1> SUFFICES ASSUME NEW n \in Nat, n \notin T PROVE FALSE
  OBVIOUS
<1> DEFINE A == 0..n \cap T
           f == [x \in A |-> x + 1]
<1>1. IsFiniteSet(A) /\ 0 \in A
  <2>1. IsFiniteSet(0..n)
    BY FS_Interval
  <2>2. A \subseteq 0..n
    OBVIOUS
  <2> QED BY <2>1, <2>2, FS_Subset
<1>2. /\ IsFiniteSet(A \ {0}) /\ Cardinality(A) \in Nat
      /\ Cardinality(A \ {0}) = Cardinality(A) - 1
  BY <1>1, FS_RemoveElement, FS_CardinalityType
<1>3. f \in [A -> A \ {0}]
  <2> SUFFICES ASSUME NEW x \in A PROVE x + 1 \in A \ {0}
    OBVIOUS
  <2>1. x # n /\ x \in Nat /\ x + 1 \in T
    OBVIOUS
  <2> QED BY <2>1
<1>4. \E x, y \in A : x # y /\ f[x] = f[y]
  <2> HIDE DEF A, f
  <2>1. Cardinality(A \ {0}) < Cardinality(A)
    BY <1>2
  <2> QED BY <1>1, <1>2, <1>3, <2>1, FS_PigeonHole
<1> QED BY <1>4

(* The powers of two of a word.                                            *)
LEMMA Powers ==
  ASSUME NEW k \in 0..15
  PROVE  2^(k + 1) = 2 * 2^k /\ 2^k \in Nat \ {0} /\ 2^(k + 1) <= 2^16 /\ 2^(k + 1) \in Nat
<1>0. CASE k = 0
  BY <1>0
<1>1. CASE k = 1
  BY <1>1
<1>2. CASE k = 2
  BY <1>2
<1>3. CASE k = 3
  BY <1>3
<1>4. CASE k = 4
  BY <1>4
<1>5. CASE k = 5
  BY <1>5
<1>6. CASE k = 6
  BY <1>6
<1>7. CASE k = 7
  BY <1>7
<1>8. CASE k = 8
  BY <1>8
<1>9. CASE k = 9
  BY <1>9
<1>10. CASE k = 10
  BY <1>10
<1>11. CASE k = 11
  BY <1>11
<1>12. CASE k = 12
  BY <1>12
<1>13. CASE k = 13
  BY <1>13
<1>14. CASE k = 14
  BY <1>14
<1>15. CASE k = 15
  BY <1>15
<1> QED
  BY <1>0, <1>1, <1>2, <1>3, <1>4, <1>5, <1>6, <1>7, <1>8, <1>9, <1>10,
     <1>11, <1>12, <1>13, <1>14, <1>15

(* The sums of the bits of a word: t[i] is that of the first i bits, which *)
(* m holds from address a on.                                              *)
IsSum(m, a, n, t) ==
  t = [i \in 0..n |-> IF i = 0 THEN 0 ELSE t[i - 1] + m[a + i - 1] * 2^(i - 1)]
SumOf(m, a, n) == CHOOSE t : IsSum(m, a, n, t)

LEMMA SumsAreDefined ==
  ASSUME NEW m, NEW a, NEW n \in Nat
  PROVE  IsSum(m, a, n, SumOf(m, a, n))
<1> DEFINE T == {k \in Nat : \E t : IsSum(m, a, k, t)}
<1>1. 0 \in T
  <2> DEFINE t == [i \in 0..0 |-> 0]
  <2>1. IsSum(m, a, 0, t)
    BY DEF IsSum
  <2> QED BY <2>1
<1>2. ASSUME NEW l \in Nat, l \in T PROVE l + 1 \in T
  <2>1. PICK t : IsSum(m, a, l, t)
    BY <1>2
  <2> DEFINE u == [i \in 0..(l + 1) |->
                     IF i = l + 1 THEN t[l] + m[a + (l + 1) - 1] * 2^((l + 1) - 1) ELSE t[i]]
             v == [i \in 0..(l + 1) |-> IF i = 0 THEN 0
                                        ELSE u[i - 1] + m[a + i - 1] * 2^(i - 1)]
  <2>2. ASSUME NEW i \in 0..(l + 1) PROVE u[i] = v[i]
    <3>1. CASE i = l + 1
      <4>1. i # 0 /\ i - 1 = l /\ l \in 0..(l + 1) /\ l # l + 1
        BY <3>1
      <4>2. u[l] = t[l]
        BY <4>1
      <4>3. v[i] = u[i - 1] + m[a + i - 1] * 2^(i - 1)
        BY <4>1
      <4>4. u[i] = t[l] + m[a + i - 1] * 2^(i - 1)
        BY <3>1
      <4> QED BY <4>1, <4>2, <4>3, <4>4
    <3>2. CASE i # l + 1
      <4>1. i \in 0..l
        BY <3>2
      <4>2. t[i] = IF i = 0 THEN 0 ELSE t[i - 1] + m[a + i - 1] * 2^(i - 1)
        BY <2>1, <4>1 DEF IsSum
      <4>3. i # 0 => i - 1 \in 0..(l + 1) /\ i - 1 # l + 1
        BY <4>1
      <4> QED BY <3>2, <4>2, <4>3
    <3> QED BY <3>1, <3>2
  <2>3. u = v
    BY <2>2
  <2>4. IsSum(m, a, l + 1, u)
    BY <2>3 DEF IsSum
  <2> QED BY <2>4
<1>3. n \in T
  <2> HIDE DEF T
  <2> QED BY <1>1, <1>2, SetInduction
<1> QED BY <1>3 DEF SumOf

(* The bits below k add up to less than 2^k, those above to a multiple of  *)
(* 2^(k+1).                                                                *)
LEMMA SumOfBits ==
  ASSUME NEW m, NEW a \in Int, NEW n \in 1..16, NEW t, IsSum(m, a, n, t),
         \A i \in 0..(n - 1) : m[a + i] \in {0, 1}
  PROVE  \A k \in 0..n : t[k] \in Nat /\ t[k] < 2^k
<1> DEFINE T == {k \in Nat : k <= n => t[k] \in Nat /\ t[k] < 2^k}
<1>1. 0 \in T
  <2>1. t[0] = 0
    BY DEF IsSum
  <2>2. 2^0 = 1
    OBVIOUS
  <2> QED BY <2>1, <2>2
<1>2. ASSUME NEW k \in Nat, k \in T PROVE k + 1 \in T
  <2> SUFFICES ASSUME k + 1 <= n PROVE t[k + 1] \in Nat /\ t[k + 1] < 2^(k + 1)
    OBVIOUS
  <2>1. k + 1 \in 0..n /\ k + 1 # 0 /\ (k + 1) - 1 = k /\ a + (k + 1) - 1 = a + k
        /\ k \in 0..15 /\ k \in 0..(n - 1)
    OBVIOUS
  <2>2. t[k + 1] = t[k] + m[a + k] * 2^k
    BY <2>1 DEF IsSum
  <2>3. t[k] \in Nat /\ t[k] < 2^k
    BY <1>2, <2>1
  <2> DEFINE p == 2^k
             q == 2^(k + 1)
  <2>4. p \in Nat /\ q = 2 * p
    BY <2>1, Powers
  <2>5. m[a + k] \in {0, 1}
    BY <2>1
  <2> HIDE DEF p, q, T
  <2>6. t[k + 1] \in Nat /\ t[k + 1] < q
    <3>1. t[k + 1] = t[k] + m[a + k] * p /\ t[k] < p
      BY <2>2, <2>3 DEF p
    <3> QED BY <2>3, <2>4, <2>5, <3>1
  <2> QED BY <2>6 DEF q
<1>3. Nat \subseteq T
  <2> HIDE DEF T
  <2> QED BY <1>1, <1>2, SetInduction
<1> QED BY <1>3

Above(t, n, o) == \E x \in Nat : t[n] = t[o + 1] + x * 2^(o + 1)

LEMMA HigherBits ==
  ASSUME NEW m, NEW a \in Int, NEW n \in 1..16, NEW t, IsSum(m, a, n, t),
         \A i \in 0..(n - 1) : m[a + i] \in {0, 1},
         NEW o \in 0..(n - 1)
  PROVE  Above(t, n, o)
<1> DEFINE c == 2^(o + 1)
           T == {k \in Nat : o + 1 + k <= n =>
                   \E x, y \in Nat : t[o + 1 + k] = t[o + 1] + x * c /\ 2^(o + 1 + k) = y * c}
<1>0. c \in Nat /\ \A k \in 0..n : t[k] \in Nat
  <2> HIDE DEF T
  <2>1. o \in 0..15
    OBVIOUS
  <2>2. c \in Nat
    BY <2>1, Powers
  <2> HIDE DEF c
  <2> QED BY <2>2, SumOfBits
<1>1. 0 \in T
  <2>1. o + 1 + 0 = o + 1 /\ t[o + 1] \in Nat
    BY <1>0
  <2>2. t[o + 1] = t[o + 1] + 0 * c /\ 2^(o + 1) = 1 * c
    <3> HIDE DEF T
    <3> QED BY <1>0, <2>1 DEF c
  <2> HIDE DEF c
  <2> QED BY <2>1, <2>2
<1>2. ASSUME NEW k \in Nat, k \in T PROVE k + 1 \in T
  <2> HIDE DEF c
  <2> SUFFICES ASSUME o + 1 + (k + 1) <= n
               PROVE  \E x, y \in Nat : /\ t[o + 1 + (k + 1)] = t[o + 1] + x * c
                                        /\ 2^(o + 1 + (k + 1)) = y * c
    OBVIOUS
  <2> DEFINE j == o + 1 + k
             p == 2^j
  <2>1. o + 1 + (k + 1) = j + 1 /\ j + 1 \in 0..n /\ j + 1 # 0 /\ (j + 1) - 1 = j
        /\ a + (j + 1) - 1 = a + j /\ j \in 0..15 /\ j \in 0..(n - 1) /\ j <= n
    OBVIOUS
  <2>2. PICK x \in Nat, y \in Nat : t[j] = t[o + 1] + x * c /\ p = y * c
    BY <1>2, <2>1
  <2> HIDE DEF j, T
  <2>3. t[j + 1] = t[j] + m[a + j] * p
    BY <2>1 DEF IsSum
  <2>4. 2^(j + 1) = 2 * p
    BY <2>1, Powers
  <2>5. m[a + j] \in {0, 1} /\ t[o + 1] \in Nat
    BY <1>0, <2>1
  <2> HIDE DEF p
  <2>6. t[j + 1] = t[o + 1] + (x + m[a + j] * y) * c
    BY <1>0, <2>2, <2>3, <2>5
  <2>7. 2^(j + 1) = (2 * y) * c
    BY <1>0, <2>2, <2>4
  <2>8. x + m[a + j] * y \in Nat /\ 2 * y \in Nat
    BY <2>5
  <2> QED BY <2>1, <2>6, <2>7, <2>8
<1>3. Nat \subseteq T
  <2> HIDE DEF T
  <2> QED BY <1>1, <1>2, SetInduction
<1> DEFINE l == n - (o + 1)
<1>4. l \in Nat /\ o + 1 + l = n
  OBVIOUS
<1>5. \E x, y \in Nat : t[o + 1 + l] = t[o + 1] + x * c /\ 2^(o + 1 + l) = y * c
  <2>1. l \in T
    <3> HIDE DEF T, l
    <3> QED BY <1>3, <1>4
  <2> HIDE DEF c, l
  <2> QED BY <1>4, <2>1
<1> HIDE DEF l, c, T
<1>6. \E x \in Nat : t[n] = t[o + 1] + x * c
  BY <1>4, <1>5
<1> QED BY <1>6 DEF c, Above

(* Bit o of a word of n bits.                                              *)
LEMMA BitOfSum ==
  ASSUME NEW m, NEW a \in Int, NEW n \in 1..16, NEW t, IsSum(m, a, n, t),
         \A i \in 0..(n - 1) : m[a + i] \in {0, 1},
         NEW o \in 0..(n - 1)
  PROVE  ((t[n] % 2^16) \div 2^o) % 2 = m[a + o]
<1> DEFINE p == 2^o
           b == m[a + o]
<1>1. t[n] \in Nat /\ t[n] < 2^n /\ t[o] \in Nat /\ t[o] < p
  <2>1. n \in 0..n /\ o \in 0..n
    OBVIOUS
  <2>2. \A k \in 0..n : t[k] \in Nat /\ t[k] < 2^k
    BY SumOfBits
  <2> QED BY <2>1, <2>2
<1>2. 2^n <= 2^16 /\ 2^n \in Nat
  <2>1. n - 1 \in 0..15 /\ (n - 1) + 1 = n
    OBVIOUS
  <2>2. 2^((n - 1) + 1) <= 2^16 /\ 2^((n - 1) + 1) \in Nat
    BY <2>1, Powers
  <2> QED BY <2>1, <2>2
<1>3. t[n] % 2^16 = t[n]
  <2> DEFINE h == 2^n
  <2>1. h \in Nat /\ h <= 65536 /\ t[n] < h /\ 2^16 = 65536
    BY <1>1, <1>2
  <2> HIDE DEF h
  <2> QED BY <1>1, <2>1
<1>4. PICK x \in Nat : t[n] = t[o + 1] + x * 2^(o + 1)
  <2> HIDE DEF p, b
  <2>1. Above(t, n, o)
    BY HigherBits
  <2> QED BY <2>1 DEF Above
<1>5. t[o + 1] = t[o] + b * p
  <2>1. o + 1 \in 0..n /\ o + 1 # 0 /\ (o + 1) - 1 = o /\ a + (o + 1) - 1 = a + o
    OBVIOUS
  <2> QED BY <2>1 DEF IsSum
<1>6. p \in Nat /\ p > 0 /\ 2^(o + 1) = 2 * p /\ b \in {0, 1}
  <2>1. o \in 0..15
    OBVIOUS
  <2>2. p \in Nat /\ p > 0
    <3>1. p \in Nat \ {0}
      BY <2>1, Powers
    <3> HIDE DEF p
    <3> QED BY <3>1
  <2>3. 2^(o + 1) = 2 * p
    BY <2>1, Powers
  <2> QED BY <2>2, <2>3
<1> HIDE DEF p, b
<1> DEFINE w == b + 2 * x
<1>7. t[n] = t[o] + w * p
  <2>1. t[n] = (t[o] + b * p) + x * (2 * p)
    BY <1>4, <1>5, <1>6
  <2> QED BY <1>1, <1>6, <2>1
<1>8. w \in Nat /\ w % 2 = b
  BY <1>6
<1> HIDE DEF w
<1>9. t[n] \div p = w
  BY <1>1, <1>6, <1>7, <1>8
<1> QED BY <1>3, <1>8, <1>9 DEF p, b

(* What the model computes for the discrete inputs of a set.               *)
LEMMA BitRead ==
  ASSUME NEW type \in Codec!Types, NEW a \in Int, NEW n \in 1..16,
         \A i \in 0..(n - 1) : memory[type][a + i] \in {0, 1},
         NEW o \in 0..(n - 1)
  PROVE  (Codec!Bits(type, a, n) \div 2^o) % 2 = memory[type][a + o]
<1> DEFINE m == memory[type]
<1>1. Codec!Bits(type, a, n) = SumOf(m, a, n)[n] % 2^16
  BY DEF Codec!Bits, SumOf, IsSum
<1>2. IsSum(m, a, n, SumOf(m, a, n))
  BY SumsAreDefined
<1> HIDE DEF m
<1>3. ASSUME NEW t, IsSum(m, a, n, t) PROVE ((t[n] % 2^16) \div 2^o) % 2 = m[a + o]
  BY <1>3, BitOfSum DEF m
<1> QED BY <1>1, <1>2, <1>3 DEF m
-------------------------------------------------------------------------------
(* The device of the codec holds words wherever it is polled.              *)
Word == 0..(WordMod - 1)
InTables(d, s) ==
  /\ d.type \in Codec!Types /\ d.offset \in Int /\ s.startAddress \in Int
  /\ s.registerCount \in 1..(IF d.type = "DiscreteInputs" THEN 16 ELSE BufferWords)
RegisterIn(d, s, r) ==
  /\ r.address - s.startAddress \in 0..(s.registerCount - Width(r.type))
  /\ r.address \in Int /\ r.den \in Nat \ {0}
  /\ r.type = "BCD" => r.den = 1
  /\ d.type = "DiscreteInputs" => r.type = "DI"
  /\ d.type = "HoldingRegisters" => r.type \in {"U16", "BCD"}
  /\ d.type = "InputRegisters" => r.type \in {"U16", "S16", "U32", "S32", "Float", "BCD"}

MemoryHolds ==
  /\ slave \in Slaves
  /\ DOMAIN memory = Codec!Types
  /\ \A t \in Codec!Types :
       /\ DOMAIN memory[t] = Codec!Polled(t)
       /\ \A a \in Codec!Polled(t) : memory[t][a] \in Word
       /\ t = "DiscreteInputs" => \A a \in Codec!Polled(t) : memory[t][a] \in {0, 1}

LEMMA Tables ==
  ASSUME NEW devices \in Slaves, NEW d \in devices, NEW s \in Codec!Sets(d)
  PROVE  InTables(d, s) /\ \A r \in s.registers : RegisterIn(d, s, r)
<1>1. InTables(d, s)
  BY TablesAssumption DEF InTables
<1>2. ASSUME NEW r \in s.registers PROVE RegisterIn(d, s, r)
  <2>1. d.type \in {"InputRegisters", "HoldingRegisters", "DiscreteInputs"}
    BY <1>1 DEF InTables, Codec!Types
  <2>2. r.type \in CASE d.type = "DiscreteInputs"   -> {"DI"}
                     [] d.type = "HoldingRegisters" -> {"U16", "BCD"}
                     [] d.type = "InputRegisters"   ->
                          {"U16", "S16", "U32", "S32", "Float", "BCD"}
    BY TablesAssumption
  <2>3. /\ r.address - s.startAddress \in 0..(s.registerCount - Width(r.type))
        /\ r.address \in Int /\ r.den \in Nat \ {0}
        /\ r.type = "BCD" => r.den = 1
    BY TablesAssumption
  <2> QED BY <2>1, <2>2, <2>3 DEF RegisterIn
<1> QED BY <1>1, <1>2

(* What is at an address of a set's window is a word.                      *)
LEMMA WindowHolds ==
  ASSUME MemoryHolds, NEW d \in slave, NEW s \in Codec!Sets(d),
         NEW i \in 0..(s.registerCount - 1)
  PROVE  LET a == s.startAddress - d.offset + i
         IN  /\ a \in Int /\ a \in Codec!Polled(d.type) /\ memory[d.type][a] \in Word
             /\ d.type = "DiscreteInputs" => memory[d.type][a] \in {0, 1}
<1> DEFINE a == s.startAddress - d.offset + i
<1>1. InTables(d, s)
  BY Tables DEF MemoryHolds
<1>2. a \in Codec!Window(d, s)
  BY DEF Codec!Window
<1>3. a \in Codec!Polled(d.type)
  <2> HIDE DEF a
  <2> QED BY <1>2 DEF Codec!Polled
<1>4. a \in Int
  <2>1. s.startAddress \in Int /\ d.offset \in Int /\ i \in Int
    BY <1>1 DEF InTables
  <2> QED BY <2>1
<1> HIDE DEF a
<1>5. d.type \in Codec!Types
  BY <1>1 DEF InTables
<1>6. memory[d.type][a] \in Word /\ (d.type = "DiscreteInputs" => memory[d.type][a] \in {0, 1})
  BY <1>3, <1>5 DEF MemoryHolds
<1> QED BY <1>3, <1>4, <1>6 DEF a

(* The words of the answer that was read.                                  *)
LEMMA WordRead ==
  ASSUME MemoryHolds, NEW d \in slave, NEW s \in Codec!Sets(d),
         d.type # "DiscreteInputs", NEW i \in 0..(s.registerCount - 1)
  PROVE  Codec!getResponseBuffer(Codec!readRegisters(d, s), i)
           = memory[d.type][s.startAddress - d.offset + i]
<1>1. InTables(d, s)
  BY Tables DEF MemoryHolds
<1>2. i < BufferWords /\ i \in 0..(BufferWords - 1) /\ i < s.registerCount
  BY <1>1, WordAssumption DEF InTables
<1>3. Codec!readRegisters(d, s)[i] = memory[d.type][s.startAddress - d.offset + i]
  BY <1>2 DEF Codec!readRegisters
<1> QED BY <1>2, <1>3 DEF Codec!getResponseBuffer

LEMMA BitsRead ==
  ASSUME MemoryHolds, NEW d \in slave, NEW s \in Codec!Sets(d), d.type = "DiscreteInputs"
  PROVE  Codec!getResponseBuffer(Codec!readRegisters(d, s), 0)
           = Codec!Bits(d.type, s.startAddress - d.offset, s.registerCount)
<1>1. 0 < BufferWords /\ 0 \in 0..(BufferWords - 1)
  BY WordAssumption
<1>2. Codec!readRegisters(d, s)[0] = Codec!Bits(d.type, s.startAddress - d.offset, s.registerCount)
  BY <1>1 DEF Codec!readRegisters
<1> QED BY <1>1, <1>2 DEF Codec!getResponseBuffer
(* The sign of a word, and of two words.                                   *)
LEMMA SignOfWord ==
  ASSUME NEW w \in Word
  PROVE  Codec!signed(w, WordMod) = IF 2 * w < WordMod THEN w ELSE w - WordMod
BY WordAssumption DEF Word, Codec!signed

LEMMA SignOfLong ==
  ASSUME NEW w \in Word, NEW v \in Word
  PROVE  Codec!signed(w * WordMod + v, WordMod * WordMod)
           = (IF 2 * w < WordMod THEN w ELSE w - WordMod) * WordMod + v
<1> DEFINE h == WordMod \div 2
           n == w * WordMod + v
           b == h * WordMod
<1>1. h \in Nat /\ WordMod = 2 * h /\ WordMod \in Nat /\ w \in Nat /\ v \in Nat /\ v < WordMod
  BY WordAssumption DEF Word
<1>2. n \in Nat /\ b \in Nat /\ WordMod * WordMod = 2 * b
  BY <1>1
<1>3. n >= b <=> w >= h
  <2>1. CASE w >= h
    <3>1. PICK k \in Nat : w = h + k
      <4>1. w - h \in Nat /\ w = h + (w - h)
        BY <1>1, <2>1
      <4> QED BY <4>1
    <3> DEFINE e == k * WordMod
    <3>2. n = b + e + v /\ e \in Nat
      BY <1>1, <3>1
    <3> HIDE DEF e, n, b
    <3> QED BY <1>1, <1>2, <2>1, <3>2
  <2>2. CASE ~(w >= h)
    <3>1. PICK k \in Nat : h = w + 1 + k
      <4>1. h - w - 1 \in Nat /\ h = w + 1 + (h - w - 1)
        BY <1>1, <2>2
      <4> QED BY <4>1
    <3> DEFINE e == k * WordMod
               f == w * WordMod
    <3>2. b = f + WordMod + e /\ e \in Nat /\ f \in Nat /\ n = f + v
      BY <1>1, <3>1
    <3> HIDE DEF e, f, n, b
    <3> QED BY <1>1, <1>2, <2>2, <3>2
  <2> QED BY <2>1, <2>2
<1>4. (WordMod * WordMod) \div 2 = b
  <2> HIDE DEF b
  <2> QED BY <1>2
<1>5. 2 * w < WordMod <=> ~(w >= h)
  BY <1>1
<1>6. Codec!signed(n, WordMod * WordMod) = IF w >= h THEN n - WordMod * WordMod ELSE n
  <2> HIDE DEF n, b
  <2> QED BY <1>3, <1>4 DEF Codec!signed
<1>7. (w - WordMod) * WordMod + v = n - WordMod * WordMod
  BY <1>1
<1> QED BY <1>5, <1>6, <1>7

(* A byte of two decimal digits.                                           *)
LEMMA BcdOfWord ==
  ASSUME NEW w \in Word
  PROVE  /\ Codec!bcdToDec(w % 256) % 256 = 10 * ((w % 256) \div 16) + (w % 16)
<1>1. w \in Nat
  BY WordAssumption DEF Word
<1>2. (w % 256) % 16 = w % 16 /\ (w % 256) \div 16 \in 0..15 /\ w % 16 \in 0..15
  BY <1>1
<1> DEFINE t == (w % 256) \div 16
           u == w % 16
<1>3. Codec!bcdToDec(w % 256) = t * 10 + u
  BY <1>2 DEF Codec!bcdToDec
<1>4. t \in 0..15 /\ u \in 0..15
  BY <1>2
<1> HIDE DEF t, u
<1>5. (t * 10 + u) % 256 = 10 * t + u
  BY <1>4
<1> QED BY <1>3, <1>5 DEF t, u

LEMMA DecimalOfBcd ==
  ASSUME NEW n \in 0..99
  PROVE  LET w == Codec!decToBcd(n % 256)
         IN  w \in Word /\ 10 * ((w % 256) \div 16) + (w % 16) = n
<1> DEFINE t == n \div 10
           u == n % 10
           w == t * 16 + u
<1>1. n = 10 * t + u /\ t \in 0..9 /\ u \in 0..9 /\ n % 256 = n
  OBVIOUS
<1>2. Codec!decToBcd(n % 256) = w % 256
  BY <1>1 DEF Codec!decToBcd
<1> HIDE DEF t, u
<1>3. w \in 0..255 /\ w % 256 = w /\ w \div 16 = t /\ w % 16 = u
  BY <1>1
<1> HIDE DEF w
<1> QED BY <1>1, <1>2, <1>3, WordAssumption DEF Word
(* What is published of an answer is what the device holds.                *)
LEMMA ReadIsHeld ==
  ASSUME MemoryHolds, NEW d \in slave, NEW s \in Codec!Sets(d), NEW r \in s.registers
  PROVE  Codec!getRepresentation(
           Codec!regToValue(Codec!readRegisters(d, s), r.address - s.startAddress, r.type), r)
         = Codec!Held(d, r)
<1> DEFINE buf == Codec!readRegisters(d, s)
           o == r.address - s.startAddress
           a == r.address - d.offset
           word(i) == Codec!getResponseBuffer(buf, i)
           v == Codec!regToValue(buf, o, r.type)
           m == memory[d.type]
<1>1. InTables(d, s) /\ RegisterIn(d, s, r)
  BY Tables DEF MemoryHolds
<1>2. /\ s.startAddress - d.offset + o = a /\ s.startAddress - d.offset + (o + 1) = a + 1
      /\ o \in Nat /\ o \in 0..(s.registerCount - 1) /\ a \in Int
      /\ r.type \in {"U32", "S32", "Float"} => o + 1 \in 0..(s.registerCount - 1)
  BY <1>1 DEF InTables, RegisterIn, Width
<1> HIDE DEF buf, o, a, v, m
<1>3. CASE d.type = "DiscreteInputs"
  <2>1. r.type = "DI" /\ s.registerCount \in 1..16 /\ s.startAddress - d.offset \in Int
        /\ d.type \in Codec!Types
    BY <1>1, <1>3 DEF InTables, RegisterIn
  <2>2. ASSUME NEW i \in 0..(s.registerCount - 1)
        PROVE  memory[d.type][s.startAddress - d.offset + i] \in {0, 1}
    BY <1>3, WindowHolds
  <2>3. word(0) = Codec!Bits(d.type, s.startAddress - d.offset, s.registerCount)
    BY <1>3, BitsRead DEF buf
  <2>4. (word(0) \div 2^o) % 2 = m[a]
    BY <1>2, <2>1, <2>2, <2>3, BitRead DEF m
  <2>5. v = m[a]
    BY <2>1, <2>4 DEF Codec!regToValue, v
  <2>6. m[a] \in {0, 1}
    BY <1>2, <2>2 DEF m
  <2>7. Codec!getRepresentation(v, r) = m[a]
    BY <2>1, <2>5, <2>6 DEF Codec!getRepresentation
  <2>8. Codec!Held(d, r) = m[a]
    BY <2>1 DEF Codec!Held, m, a
  <2> QED BY <2>7, <2>8 DEF v, buf, o
<1>4. CASE d.type # "DiscreteInputs"
  <2>1. word(o) = m[a] /\ m[a] \in Word
    BY <1>2, <1>4, WordRead, WindowHolds DEF buf, m
  <2>2. r.type \in {"U32", "S32", "Float"} => word(o + 1) = m[a + 1] /\ m[a + 1] \in Word
    BY <1>2, <1>4, WordRead, WindowHolds DEF buf, m
  <2>3. r.type \in {"U16", "S16", "U32", "S32", "Float", "BCD"}
    BY <1>1, <1>4 DEF InTables, RegisterIn, Codec!Types
  <2> DEFINE w == m[a]
             u == m[a + 1]
  <2>4. WordMod \in Nat /\ w \in Nat /\ w < WordMod
    BY <2>1, WordAssumption DEF Word
  <2>5. CASE r.type = "U16"
    <3>1. v = w /\ Codec!Held(d, r) = w
      BY <2>1, <2>5 DEF Codec!regToValue, v, Codec!Held, m, a
    <3> HIDE DEF w
    <3>2. w % WordMod = w
      BY <2>4
    <3>3. Codec!getRepresentation(v, r) = w
      BY <2>5, <3>1, <3>2 DEF Codec!getRepresentation
    <3> QED BY <3>1, <3>3 DEF v, buf, o
  <2>6. CASE r.type = "S16"
    <3> DEFINE n == IF 2 * w < WordMod THEN w ELSE w - WordMod
    <3>1. v = Codec!signed(w, WordMod)
      BY <2>1, <2>6 DEF Codec!regToValue, v
    <3>2. Codec!Held(d, r) = n
      BY <2>6 DEF Codec!Held, m, a
    <3>3. Codec!signed(w, WordMod) = n
      BY <2>1, SignOfWord
    <3> HIDE DEF w
    <3>4. n % WordMod = w
      BY <2>4
    <3> HIDE DEF n
    <3>5. Codec!getRepresentation(v, r) = n
      BY <2>6, <3>1, <3>3, <3>4 DEF Codec!getRepresentation
    <3> QED BY <3>2, <3>5 DEF v, buf, o
  <2>7. CASE r.type \in {"U32", "Float"}
    <3>1. v = w * WordMod + u /\ Codec!Held(d, r) = WordMod * w + u
      BY <2>1, <2>2, <2>7 DEF Codec!regToValue, v, Codec!Held, m, a
    <3>2. u \in Nat
      BY <2>2, <2>7, WordAssumption DEF Word
    <3> HIDE DEF w, u
    <3>3. w * WordMod + u = WordMod * w + u
      BY <2>4, <3>2
    <3>4. Codec!getRepresentation(v, r) = v
      BY <2>7 DEF Codec!getRepresentation
    <3> QED BY <3>1, <3>3, <3>4 DEF v, buf, o
  <2>8. CASE r.type = "S32"
    <3>1. v = Codec!signed(w * WordMod + u, WordMod * WordMod)
      BY <2>1, <2>2, <2>8 DEF Codec!regToValue, v
    <3>2. Codec!Held(d, r) = (IF 2 * w < WordMod THEN w ELSE w - WordMod) * WordMod + u
      BY <2>8 DEF Codec!Held, m, a
    <3>3. v = Codec!Held(d, r)
      BY <2>1, <2>2, <2>8, <3>1, <3>2, SignOfLong
    <3>4. Codec!getRepresentation(v, r) = v
      BY <2>8 DEF Codec!getRepresentation
    <3> QED BY <3>3, <3>4 DEF v, buf, o
  <2>9. CASE r.type = "BCD"
    <3>1. v = Codec!bcdToDec(w % 256)
      BY <2>1, <2>9 DEF Codec!regToValue, v
    <3>2. Codec!Held(d, r) = 10 * ((w % 256) \div 16) + (w % 16)
      BY <2>9 DEF Codec!Held, m, a
    <3>3. Codec!getRepresentation(v, r) = v % 256
      BY <2>9 DEF Codec!getRepresentation
    <3>4. v % 256 = 10 * ((w % 256) \div 16) + (w % 16)
      BY <2>1, <3>1, BcdOfWord
    <3> QED BY <3>2, <3>3, <3>4 DEF v, buf, o
  <2> QED BY <2>3, <2>5, <2>6, <2>7, <2>8, <2>9
<1> QED BY <1>3, <1>4
-------------------------------------------------------------------------------
(* What strtol makes of a payload is a number, and the whole part of one   *)
(* that is not negative and whose whole part is no larger than a word.     *)
LEMMA StrtolIsInt ==
  ASSUME NEW payload \in Int
  PROVE  Codec!strtol(payload) \in Int
<1>1. Parts \in Nat \ {0} /\ LongMax \in Nat
  BY WordAssumption
<1> DEFINE up == payload \div Parts
           down == (-payload) \div Parts
<1>2. up \in Int /\ down \in Int
  BY <1>1
<1> HIDE DEF up, down
<1> DEFINE digits == IF payload >= 0 THEN up ELSE -down
<1>3. digits \in Int
  BY <1>2
<1>4. Codec!strtol(payload) = IF digits > LongMax THEN LongMax
                              ELSE IF digits < -LongMax THEN -LongMax - 1 ELSE digits
  BY DEF Codec!strtol, up, down
<1> HIDE DEF digits
<1> QED BY <1>1, <1>3, <1>4

LEMMA StrtolOfSetting ==
  ASSUME NEW payload \in Int, payload >= 0, Codec!Whole(payload) <= WordMod - 1
  PROVE  Codec!strtol(payload) = Codec!Whole(payload) /\ Codec!Whole(payload) \in Nat
<1>1. Parts \in Nat \ {0} /\ LongMax \in Nat /\ LongMax >= WordMod - 1 /\ WordMod \in Nat
  BY WordAssumption
<1> DEFINE w == payload \div Parts
<1>2. Codec!Whole(payload) = w
  BY DEF Codec!Whole
<1>3. w \in Nat
  BY <1>1
<1>4. Codec!strtol(payload) = IF w > LongMax THEN LongMax
                              ELSE IF w < -LongMax THEN -LongMax - 1 ELSE w
  BY DEF Codec!strtol
<1> HIDE DEF w
<1> QED BY <1>1, <1>2, <1>3, <1>4

(* A value to write is a word.                                             *)
LEMMA ValueIsWord ==
  ASSUME NEW d, NEW s, NEW r, RegisterIn(d, s, r), NEW payload \in Payloads,
         r.type \in {"DI", "U16", "S16", "U32", "S32", "Float", "BCD"},
         NEW n \in Codec!getValue(r, payload)
  PROVE  n \in Word
<1> DEFINE number == Codec!strtol(payload)
<1>1. number \in Int /\ WordMod \in Nat /\ WordMod >= 256 /\ r.den \in Nat
  BY WordAssumption, StrtolIsInt DEF RegisterIn
<1>2. CASE r.type = "BCD"
  <2>1. n = Codec!decToBcd(number % 256)
    BY <1>2 DEF Codec!getValue
  <2> DEFINE w == ((number % 256) \div 10) * 16 + ((number % 256) % 10)
  <2>2. n = w % 256
    BY <2>1 DEF Codec!decToBcd
  <2>3. w \in Int
    BY <1>1
  <2> HIDE DEF w
  <2>4. n \in 0..255
    BY <2>2, <2>3
  <2> QED BY <1>1, <2>4 DEF Word
<1>3. CASE r.type # "BCD" /\ r.den = 1
  <2>1. n = number % WordMod
    BY <1>3 DEF Codec!getValue
  <2> QED BY <1>1, <2>1 DEF Word
<1>4. CASE r.type # "BCD" /\ r.den # 1
  <2> DEFINE x == number * r.den
  <2>1. n \in IF x \in 0..(WordMod - 1) THEN {x} ELSE {0, x % WordMod, WordMod - 1}
    BY <1>4 DEF Codec!getValue
  <2>2. x \in Int
    BY <1>1
  <2> HIDE DEF x
  <2> QED BY <1>1, <2>1, <2>2 DEF Word
<1> QED BY <1>2, <1>3, <1>4

(* A register of a device is one of a set of its tables, and polled.       *)
LEMMA RegisterPolled ==
  ASSUME MemoryHolds, NEW d \in slave, NEW r \in Codec!Registers(d)
  PROVE  /\ r.address - d.offset \in Codec!Polled(d.type) /\ r.address - d.offset \in Int
         /\ \E s : RegisterIn(d, s, r)
         /\ r.type \in {"DI", "U16", "S16", "U32", "S32", "Float", "BCD"}
<1>1. PICK s \in Codec!Sets(d) : r \in s.registers
  BY DEF Codec!Registers
<1>2. InTables(d, s) /\ RegisterIn(d, s, r)
  BY <1>1, Tables DEF MemoryHolds
<1> DEFINE o == r.address - s.startAddress
<1>3. o \in 0..(s.registerCount - 1) /\ s.startAddress - d.offset + o = r.address - d.offset
  BY <1>2 DEF InTables, RegisterIn, Width
<1> HIDE DEF o
<1>4. r.address - d.offset \in Codec!Polled(d.type) /\ r.address - d.offset \in Int
  BY <1>3, WindowHolds
<1>5. r.type \in {"DI", "U16", "S16", "U32", "S32", "Float", "BCD"}
  BY <1>2 DEF InTables, RegisterIn, Codec!Types
<1> QED BY <1>2, <1>4, <1>5

(* The set that was read last is one of a device's, and the last command's *)
(* register holds what was written for its payload.                        *)
LastIsRead ==
  last # <<>> => \E d \in slave : \E s \in Codec!Sets(d) : last = <<d, s>>
Commanded(d, r, payload) ==
  /\ command = <<d, r, payload>> /\ d.type = "HoldingRegisters"
  /\ memory["HoldingRegisters"][r.address - d.offset] \in Codec!getValue(r, payload)
CommandIsHeld ==
  command # <<>> =>
    \E d \in slave : \E r \in Codec!Registers(d), payload \in Payloads : Commanded(d, r, payload)

CodecInv == MemoryHolds /\ LastIsRead /\ PublishedIsHeld /\ CommandIsHeld

LEMMA CodecInitially == Codec!Init => CodecInv
<1> SUFFICES ASSUME Codec!Init PROVE CodecInv
  OBVIOUS
<1>1. PICK p \in Patterns :
        memory = [t \in Codec!Types |-> [a \in Codec!Polled(t) |->
                    IF t = "DiscreteInputs" THEN Content(p, a) % 2 ELSE Content(p, a)]]
  BY DEF Codec!Init
<1>2. slave \in Slaves /\ last = <<>> /\ command = <<>>
  BY DEF Codec!Init
<1>3. ASSUME NEW t \in Codec!Types, NEW a \in Codec!Polled(t)
      PROVE  /\ memory[t][a] \in Word
             /\ t = "DiscreteInputs" => memory[t][a] \in {0, 1}
  <2>1. PICK d \in slave : \E s \in Codec!Sets(d) : a \in Codec!Window(d, s)
    BY DEF Codec!Polled
  <2>2. Content(p, a) \in Word
    BY <1>2, <2>1, ContentAssumption DEF Word
  <2>3. memory[t][a] = IF t = "DiscreteInputs" THEN Content(p, a) % 2 ELSE Content(p, a)
    BY <1>1
  <2> DEFINE c == Content(p, a)
  <2>4. c \in Nat /\ c \in Word
    BY <2>2, WordAssumption DEF Word
  <2> HIDE DEF c
  <2>5. c % 2 \in {0, 1} /\ c % 2 \in Word
    BY <2>4, WordAssumption DEF Word
  <2> QED BY <2>3, <2>4, <2>5 DEF c
<1>4. DOMAIN memory = Codec!Types /\ \A t \in Codec!Types : DOMAIN memory[t] = Codec!Polled(t)
  BY <1>1
<1>5. MemoryHolds
  BY <1>2, <1>3, <1>4 DEF MemoryHolds
<1>6. LastIsRead /\ PublishedIsHeld /\ CommandIsHeld
  BY <1>2 DEF LastIsRead, PublishedIsHeld, Codec!PublishedIsHeld, CommandIsHeld
<1> QED BY <1>5, <1>6 DEF CodecInv

LEMMA ReadKeeps ==
  ASSUME CodecInv, NEW d \in slave, NEW s \in Codec!Sets(d), Codec!ReadSet(d, s)
  PROVE  CodecInv'
<1>1. /\ last' = <<d, s>> /\ slave' = slave /\ memory' = memory /\ command' = command
      /\ values' = [r \in s.registers |->
                      Codec!regToValue(Codec!readRegisters(d, s), r.address - s.startAddress, r.type)]
  BY DEF Codec!ReadSet
<1>2. MemoryHolds /\ CommandIsHeld
  BY DEF CodecInv
<1>3. MemoryHolds'
  BY <1>1, <1>2 DEF MemoryHolds, Codec!Polled
<1>4. LastIsRead'
  BY <1>1 DEF LastIsRead
<1>5. ASSUME NEW r \in s.registers
      PROVE  Codec!getRepresentation(values'[r], r) = Codec!Held(d, r)'
  <2>1. Codec!getRepresentation(values'[r], r) = Codec!Held(d, r)
    BY <1>1, <1>2, ReadIsHeld
  <2>2. Codec!Held(d, r)' = Codec!Held(d, r)
    BY <1>1 DEF Codec!Held
  <2> QED BY <2>1, <2>2
<1>6. PublishedIsHeld'
  <2>1. last'[1] = d /\ last'[2] = s
    BY <1>1
  <2> QED BY <1>5, <2>1 DEF PublishedIsHeld, Codec!PublishedIsHeld
<1>7. CommandIsHeld'
  BY <1>1, <1>2 DEF CommandIsHeld, Commanded
<1> QED BY <1>3, <1>4, <1>6, <1>7 DEF CodecInv

LEMMA WriteKeeps ==
  ASSUME CodecInv, NEW d \in slave, NEW r \in Codec!Registers(d), NEW payload \in Payloads,
         Codec!WriteRegister(d, r, payload)
  PROVE  CodecInv'
<1>1. MemoryHolds /\ CommandIsHeld
  BY DEF CodecInv
<1> DEFINE a == r.address - d.offset
           hr == memory["HoldingRegisters"]
<1>2. PICK n \in Codec!getValue(r, payload) :
        memory' = [memory EXCEPT !["HoldingRegisters"] =
                     [x \in DOMAIN hr |-> IF x = a THEN n ELSE hr[x]]]
  BY DEF Codec!WriteRegister
<1>3. /\ slave' = slave /\ last' = <<>>
      /\ command' = IF d.type = "HoldingRegisters" THEN <<d, r, payload>> ELSE command
  BY DEF Codec!WriteRegister
<1>4. n \in Word
  BY <1>1, RegisterPolled, ValueIsWord
<1>5. "HoldingRegisters" \in Codec!Types /\ DOMAIN memory = Codec!Types
      /\ DOMAIN hr = Codec!Polled("HoldingRegisters")
  BY <1>1 DEF MemoryHolds, Codec!Types
<1>6. /\ DOMAIN memory' = Codec!Types
      /\ DOMAIN memory'["HoldingRegisters"] = Codec!Polled("HoldingRegisters")
      /\ \A x \in Codec!Polled("HoldingRegisters") :
           memory'["HoldingRegisters"][x] = IF x = a THEN n ELSE hr[x]
      /\ \A t \in Codec!Types : t # "HoldingRegisters" => memory'[t] = memory[t]
  <2> HIDE DEF a, hr
  <2>1. memory'["HoldingRegisters"] = [x \in DOMAIN hr |-> IF x = a THEN n ELSE hr[x]]
    BY <1>2, <1>5
  <2> QED BY <1>2, <1>5, <2>1
<1> HIDE DEF a
<1>7. MemoryHolds'
  <2>1. \A t \in Codec!Types : Codec!Polled(t)' = Codec!Polled(t)
    BY <1>3 DEF Codec!Polled
  <2>2. ASSUME NEW t \in Codec!Types
        PROVE  /\ DOMAIN memory'[t] = Codec!Polled(t)
               /\ \A x \in Codec!Polled(t) : memory'[t][x] \in Word
               /\ t = "DiscreteInputs" => \A x \in Codec!Polled(t) : memory'[t][x] \in {0, 1}
    <3>1. CASE t = "HoldingRegisters"
      <4>1. \A x \in Codec!Polled(t) : hr[x] \in Word
        BY <1>1, <1>5, <3>1 DEF MemoryHolds
      <4> HIDE DEF hr
      <4> QED BY <1>4, <1>6, <3>1, <4>1
    <3>2. CASE t # "HoldingRegisters"
      BY <1>1, <1>6, <3>2 DEF MemoryHolds
    <3> QED BY <3>1, <3>2
  <2>3. slave' \in Slaves /\ DOMAIN memory' = Codec!Types
    BY <1>1, <1>3, <1>6 DEF MemoryHolds
  <2> QED BY <2>1, <2>2, <2>3 DEF MemoryHolds
<1>8. LastIsRead' /\ PublishedIsHeld'
  BY <1>3 DEF LastIsRead, PublishedIsHeld, Codec!PublishedIsHeld
<1>9. CommandIsHeld'
  <2>1. CASE d.type = "HoldingRegisters"
    <3>1. a \in Codec!Polled("HoldingRegisters")
      BY <1>1, <2>1, RegisterPolled DEF a
    <3>2. memory'["HoldingRegisters"][a] = n
      BY <1>6, <3>1
    <3>3. Commanded(d, r, payload)'
      BY <1>3, <2>1, <3>2 DEF Commanded, a
    <3>4. d \in slave' /\ r \in Codec!Registers(d)
      BY <1>3
    <3> QED BY <3>3, <3>4 DEF CommandIsHeld
  <2>2. CASE d.type # "HoldingRegisters"
    <3> SUFFICES ASSUME command # <<>>
                 PROVE  \E e \in slave' : \E x \in Codec!Registers(e), q \in Payloads :
                          Commanded(e, x, q)'
      BY <1>3, <2>2 DEF CommandIsHeld
    <3>0. PICK e \in slave : \E x \in Codec!Registers(e), q \in Payloads : Commanded(e, x, q)
      BY <1>1 DEF CommandIsHeld
    <3>1. PICK x \in Codec!Registers(e), q \in Payloads : Commanded(e, x, q)
      BY <3>0
    <3> DEFINE b == x.address - e.offset
    <3>2. e.type = "HoldingRegisters" /\ command = <<e, x, q>>
          /\ hr[b] \in Codec!getValue(x, q)
      BY <3>1 DEF Commanded
    <3>3. b \in Codec!Polled("HoldingRegisters")
      BY <1>1, <3>2, RegisterPolled
    <3>4. b # a
      BY <1>1, <2>2, <3>2, AddressesAssumption DEF MemoryHolds, a
    <3> HIDE DEF b
    <3>5. memory'["HoldingRegisters"][b] = hr[b]
      BY <1>6, <3>3, <3>4
    <3>6. Commanded(e, x, q)'
      BY <1>3, <2>2, <3>2, <3>5 DEF Commanded, b
    <3> QED BY <1>3, <3>6
  <2> QED BY <2>1, <2>2
<1> QED BY <1>7, <1>8, <1>9 DEF CodecInv

(* The whole part of a setting that the register can hold is shown by the  *)
(* next poll.                                                              *)
LEMMA SettingIsShown == CodecInv => CommandIsShown
<1> SUFFICES ASSUME CodecInv, last # <<>>, command # <<>>, last[1] = command[1],
                    command[2] \in last[2].registers,
                    Codec!Settable(command[2], command[3])
             PROVE  Codec!getRepresentation(values[command[2]], command[2])
                      = Codec!Whole(command[3]) * command[2].den
  BY DEF CommandIsShown, Codec!CommandIsShown
<1>1. MemoryHolds /\ LastIsRead /\ PublishedIsHeld /\ CommandIsHeld
  BY DEF CodecInv
<1>0. PICK d \in slave :
        \E r \in Codec!Registers(d), payload \in Payloads : Commanded(d, r, payload)
  BY <1>1 DEF CommandIsHeld
<1>2. PICK r \in Codec!Registers(d), payload \in Payloads : Commanded(d, r, payload)
  BY <1>0
<1>3. command[1] = d /\ command[2] = r /\ command[3] = payload /\ d.type = "HoldingRegisters"
      /\ memory["HoldingRegisters"][r.address - d.offset] \in Codec!getValue(r, payload)
  BY <1>2 DEF Commanded
<1>4. Codec!getRepresentation(values[r], r) = Codec!Held(d, r)
  BY <1>1, <1>3 DEF PublishedIsHeld, Codec!PublishedIsHeld
<1>5. PICK s : RegisterIn(d, s, r)
  BY <1>1, RegisterPolled
<1>6. r.type \in {"U16", "BCD"} /\ r.den \in Nat \ {0} /\ (r.type = "BCD" => r.den = 1)
  BY <1>3, <1>5 DEF RegisterIn
<1> DEFINE w == memory["HoldingRegisters"][r.address - d.offset]
<1>7. payload \in Int /\ Codec!Settable(r, payload) /\ w \in Codec!getValue(r, payload)
  BY <1>3, WordAssumption
<1> DEFINE whole == Codec!Whole(payload)
<1>8. whole * r.den <= (IF r.type = "BCD" THEN 99 ELSE WordMod - 1) /\ payload >= 0
  BY <1>7 DEF Codec!Settable
<1>9. WordMod \in Nat /\ WordMod >= 256 /\ Parts \in Nat \ {0}
  BY WordAssumption
<1>10. whole \in Nat
  <2>1. payload \div Parts \in Nat
    BY <1>7, <1>8, <1>9
  <2> QED BY <2>1 DEF Codec!Whole
<1> HIDE DEF whole, w
<1>11. whole <= whole * r.den /\ whole * r.den \in Nat
  BY <1>6, <1>10
<1>12. whole <= WordMod - 1
  BY <1>8, <1>9, <1>10, <1>11
<1>13. Codec!strtol(payload) = whole
  BY <1>7, <1>8, <1>12, StrtolOfSetting DEF whole
<1>14. CASE r.type = "U16"
  <2>1. Codec!Held(d, r) = w
    BY <1>3, <1>14 DEF Codec!Held, w
  <2>2. whole * r.den \in 0..(WordMod - 1)
    BY <1>8, <1>9, <1>11, <1>14
  <2>3. CASE r.den = 1
    <3>1. w = whole % WordMod
      BY <1>7, <1>13, <1>14, <2>3 DEF Codec!getValue
    <3>2. whole * r.den = whole
      BY <1>10, <2>3
    <3>3. whole % WordMod = whole
      BY <1>9, <1>10, <1>12
    <3>4. w = whole
      BY <3>1, <3>3
    <3> QED BY <1>3, <1>4, <2>1, <3>2, <3>4 DEF whole
  <2>4. CASE r.den # 1
    <3>1. w = whole * r.den
      BY <1>7, <1>13, <1>14, <2>2, <2>4 DEF Codec!getValue
    <3> QED BY <1>3, <1>4, <2>1, <3>1 DEF whole
  <2> QED BY <2>3, <2>4
<1>15. CASE r.type = "BCD"
  <2>1. Codec!Held(d, r) = 10 * ((w % 256) \div 16) + (w % 16)
    BY <1>3, <1>15 DEF Codec!Held, w
  <2>2. whole \in 0..99
    BY <1>6, <1>8, <1>10, <1>11, <1>15
  <2>3. w = Codec!decToBcd(whole % 256)
    BY <1>7, <1>13, <1>15 DEF Codec!getValue
  <2>4. Codec!Held(d, r) = whole
    BY <2>1, <2>2, <2>3, DecimalOfBcd
  <2>5. whole * r.den = whole
    BY <1>6, <1>10, <1>15
  <2> QED BY <1>3, <1>4, <2>4, <2>5 DEF whole
<1> QED BY <1>6, <1>14, <1>15

-------------------------------------------------------------------------------
(* Words, the set that was read and the register that was set fit the      *)
(* memory of the device: the inductive invariant of RegisterCodec.         *)
THEOREM CodecInvariant == MCSpec => []CodecInv
<1>1. MCInit => CodecInv
  BY CodecInitially DEF MCInit
<1>2. CodecInv /\ [MCNext]_MCvars => CodecInv'
  <2> SUFFICES ASSUME CodecInv, [MCNext]_MCvars PROVE CodecInv'
    OBVIOUS
  <2>1. CASE Codec!Next
    <3>1. ASSUME NEW d \in slave, NEW s \in Codec!Sets(d), Codec!ReadSet(d, s) PROVE CodecInv'
      BY <3>1, ReadKeeps
    <3>2. ASSUME NEW d \in slave, NEW r \in Codec!Registers(d), NEW payload \in Payloads,
                 Codec!WriteRegister(d, r, payload)
          PROVE  CodecInv'
      BY <3>2, WriteKeeps
    <3> QED BY <2>1, <3>1, <3>2 DEF Codec!Next
  <2>2. CASE UNCHANGED codecVars
    <3>1. slave' = slave /\ memory' = memory /\ last' = last /\ values' = values
          /\ command' = command
      BY <2>2 DEF codecVars
    <3>2. MemoryHolds'
      BY <3>1 DEF CodecInv, MemoryHolds, Codec!Polled
    <3>3. LastIsRead'
      BY <3>1 DEF CodecInv, LastIsRead
    <3>4. PublishedIsHeld'
      <4>1. ASSUME NEW d, NEW r PROVE Codec!Held(d, r)' = Codec!Held(d, r)
        BY <3>1 DEF Codec!Held
      <4> QED BY <3>1, <4>1 DEF CodecInv, PublishedIsHeld, Codec!PublishedIsHeld
    <3>5. CommandIsHeld'
      BY <3>1 DEF CodecInv, CommandIsHeld, Commanded
    <3> QED BY <3>2, <3>3, <3>4, <3>5 DEF CodecInv
  <2> QED BY <2>1, <2>2 DEF MCNext, MCvars
<1> QED BY <1>1, <1>2, PTL DEF MCSpec

(* Every register of every set is published as what the device holds in    *)
(* it, for every table whose windows contain its registers.                *)
THEOREM PublishedIsHeldAlways == MCSpec => []PublishedIsHeld
<1>1. CodecInv => PublishedIsHeld
  BY DEF CodecInv
<1> QED BY <1>1, CodecInvariant, PTL

(* The poll after a command shows the whole part of the number that was    *)
(* commanded, whatever commands for other registers come in between.       *)
THEOREM CommandIsShownAlways == MCSpec => []CommandIsShown
BY SettingIsShown, CodecInvariant, PTL
===============================================================================

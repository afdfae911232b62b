------------------------- MODULE ModbusFramesProofs -------------------------
(***************************************************************************)
(* What can be said of the frames, for every command and every content of  *)
(* the registers, and of the controls, for every payload and model.        *)
(*                                                                         *)
(* The checksum comes first: that the loop of modbusCrc computes what      *)
(* MODBUS asks for, and that no burst of at most 16 bits goes unnoticed.   *)
(* Its numbers are seen as their bits, and its loops, which the model      *)
(* states as recursive functions, as the values that they go through.      *)
(*                                                                         *)
(* Of the models' tables TablesAssumption is used, and where it says so    *)
(* that the tables fit together.                                           *)
(***************************************************************************)
EXTENDS ModbusFrames, DeviceControl, SequenceTheorems, FiniteSetTheorems,
        WellFoundedInduction, TLAPS
-----------------------------------------------------------------------------
(* Loops.                                                                  *)

\* What holds at 0 and is handed on holds everywhere: the least number at which it
\* does not is the end of the smallest of some finite intervals.
LEMMA Inductive ==
  ASSUME NEW T, 0 \in T, \A n \in Nat : n \in T => n + 1 \in T
  PROVE  Nat \subseteq T
<1> DEFINE Missed == Nat \ T
           Upto == {0 .. n : n \in Missed}
<1>1. SUFFICES ASSUME Missed # {} PROVE FALSE
  OBVIOUS
<1>2. Upto \subseteq FiniteSubsetsOf(Nat) /\ Upto # {}
  <2>1. \A n \in Nat : 0 .. n \subseteq Nat /\ IsFiniteSet(0 .. n)
    BY FS_Interval
  <2>2. Upto \subseteq FiniteSubsetsOf(Nat)
    BY <2>1 DEF FiniteSubsetsOf
  <2> QED
    BY <1>1, <2>2
<1>3. PICK least \in Upto : \A other \in Upto : <<other, least>> \notin StrictSubsetOrdering(Nat)
  <2> HIDE DEF Upto
  <2>1. IsWellFoundedOn(StrictSubsetOrdering(Nat), FiniteSubsetsOf(Nat))
    BY FS_StrictSubsetOrderingWellFounded
  <2> QED
    BY <1>2, <2>1, WFMin, Zenon
<1>4. PICK m \in Missed : least = 0 .. m
  OBVIOUS
<1>5. m \in Nat \ {0} /\ m - 1 \in Nat
  OBVIOUS
<1>6. m - 1 \in Missed
  <2>1. m - 1 \notin T
    <3>1. (m - 1) + 1 = m
      BY <1>5
    <3> QED
      BY <1>5, <3>1
  <2> QED
    BY <1>5, <2>1
<1>7. 0 .. m - 1 \subseteq 0 .. m /\ m \in 0 .. m /\ m \notin 0 .. m - 1
  BY <1>5
<1>8. 0 .. m - 1 \in Upto /\ <<0 .. m - 1, least>> \in StrictSubsetOrdering(Nat)
  <2>1. 0 .. m - 1 \in SUBSET Nat /\ 0 .. m \in SUBSET Nat /\ 0 .. m - 1 # 0 .. m
    BY <1>5, <1>7
  <2> QED
    BY <1>4, <1>6, <1>7, <2>1 DEF StrictSubsetOrdering
<1> QED
  BY <1>3, <1>8

\* The values a loop of n rounds goes through.
Runs(S, n, initial, step, run) ==
  /\ run \in [0 .. n -> S]
  /\ run[0] = initial
  /\ \A i \in 1 .. n : run[i] = step[i][run[i - 1]]

\* A loop can be run: its values are a function of the rounds that are over.
LEMMA LoopRuns ==
  ASSUME NEW S, NEW n \in Nat, NEW initial \in S, NEW step \in [1 .. n -> [S -> S]]
  PROVE  \E run : Runs(S, n, initial, step, run)
<1> DEFINE Starts(m, run) == run[0] = initial /\ \A i \in 1 .. m : run[i] = step[i][run[i - 1]]
           T == {m \in Nat : m <= n => \E run \in [0 .. m -> S] : Starts(m, run)}
<1>1. 0 \in T
  <2>1. [i \in 0 .. 0 |-> initial] \in [0 .. 0 -> S] /\ Starts(0, [i \in 0 .. 0 |-> initial])
    OBVIOUS
  <2> QED
    BY <2>1
<1>2. ASSUME NEW m \in Nat, m \in T PROVE m + 1 \in T
  <2> SUFFICES ASSUME m + 1 <= n PROVE \E run \in [0 .. m + 1 -> S] : Starts(m + 1, run)
    OBVIOUS
  <2>1. PICK run \in [0 .. m -> S] : Starts(m, run)
    BY <1>2
  <2> DEFINE more == [i \in 0 .. m + 1 |-> IF i <= m THEN run[i] ELSE step[m + 1][run[m]]]
  <2>2. m + 1 \in 1 .. n /\ m \in 0 .. m
    OBVIOUS
  <2>3. step[m + 1] \in [S -> S] /\ run[m] \in S
    BY <2>2
  <2>4. more \in [0 .. m + 1 -> S]
    BY <2>3
  <2>5. more[0] = initial
    BY <2>1
  <2>6. ASSUME NEW i \in 1 .. m + 1 PROVE more[i] = step[i][more[i - 1]]
    <3>1. CASE i = m + 1
      BY <3>1
    <3>2. CASE i <= m
      <4>1. i \in 1 .. m /\ i \in 0 .. m + 1 /\ i - 1 \in 0 .. m + 1 /\ i - 1 <= m
        BY <3>2
      <4>2. more[i] = run[i] /\ more[i - 1] = run[i - 1]
        BY <3>2, <4>1
      <4> QED
        BY <2>1, <4>1, <4>2
    <3> QED
      BY <3>1, <3>2
  <2> HIDE DEF more
  <2> QED
    BY <2>4, <2>5, <2>6
<1>3. n \in T
  <2> HIDE DEF T
  <2> QED
    BY <1>1, <1>2, Inductive
<1> QED
  BY <1>3 DEF Runs

-----------------------------------------------------------------------------
(* Bits.                                                                  *)

\* The powers of two that a 16-bit number is made of.
LEMMA Powers ==
  ASSUME NEW n \in 0 .. 15
  PROVE  2^n \in Nat \ {0} /\ 2^(n + 1) = 2 * 2^n
<1> DEFINE Power(m) == 2^m
<1>1. /\ Power(0) = 1 /\ Power(1) = 2 /\ Power(2) = 4 /\ Power(3) = 8 /\ Power(4) = 16
      /\ Power(5) = 32 /\ Power(6) = 64 /\ Power(7) = 128 /\ Power(8) = 256 /\ Power(9) = 512
      /\ Power(10) = 1024 /\ Power(11) = 2048 /\ Power(12) = 4096 /\ Power(13) = 8192
      /\ Power(14) = 16384 /\ Power(15) = 32768 /\ Power(16) = 65536
  OBVIOUS
<1>2. Power(n) \in Nat \ {0} /\ Power(n + 1) = 2 * Power(n)
  <2> HIDE DEF Power
  <2> QED
    BY <1>1
<1> QED
  BY <1>2

\* A number without its n lowest bits.
Above(x, n) == x \div 2^n

\* Such a number is twice the next one and a bit.
LEMMA AboveFacts ==
  ASSUME NEW x \in Nat, NEW n \in 0 .. 15
  PROVE  /\ Above(x, n) \in Nat /\ Above(x, n + 1) = Above(x, n) \div 2
         /\ Bit(x, n) = Above(x, n) % 2 /\ Bit(x, n) \in {0, 1}
         /\ Above(x, n) = 2 * Above(x, n + 1) + Bit(x, n)
<1> DEFINE power == 2^n
<1>1. power \in Nat \ {0} /\ 2^(n + 1) = 2 * power
  BY Powers
<1>2. x \div power \in Nat /\ x \div (2 * power) = (x \div power) \div 2
  <2> HIDE DEF power
  <2> QED
    BY <1>1
<1>3. /\ Above(x, n) \in Nat /\ Above(x, n + 1) = Above(x, n) \div 2
      /\ Bit(x, n) = Above(x, n) % 2
  BY <1>1, <1>2 DEF Bit, Above
<1> QED
  BY <1>3

\* Nothing is left of a number that is small enough.
LEMMA AboveZero ==
  ASSUME NEW x \in Nat, NEW n \in 0 .. 15
  PROVE  Above(x, n) = 0 <=> x < 2^n
<1> DEFINE power == 2^n
<1>1. power \in Nat \ {0}
  BY Powers
<1>2. x \div power = 0 <=> x < power
  <2> HIDE DEF power
  <2> QED
    BY <1>1
<1> QED
  BY <1>2 DEF Above

\* A 16-bit number has 16 bits.
LEMMA AboveAll ==
  ASSUME NEW x \in Nat
  PROVE  /\ Above(x, 0) = x /\ (x \in Uint16 <=> Above(x, 16) = 0)
         /\ (x \in Uint16 <=> x < 2^16)
<1> DEFINE all == 2^16
<1>1. Above(x, 0) = x
  BY DEF Above
<1>2. x \in Uint16 <=> x < all
  BY SMT DEF Uint16
<1>3. all \in Nat \ {0}
  BY SMT
<1>4. x < all <=> x \div all = 0
  <2> HIDE DEF all
  <2> QED
    BY SMT, <1>3
<1> QED
  BY <1>1, <1>2, <1>4, SMT DEF Above

\* The recursive functions of the model are such loops.
LEMMA XorRuns ==
  ASSUME NEW x \in Nat, NEW y \in Nat
  PROVE  \E from \in [0 .. 16 -> Nat] :
           /\ from[0] = 0 /\ Xor(x, y) = from[16]
           /\ \A n \in 1 .. 16 : from[n] = 2 * from[n - 1] + ((Bit(x, 16 - n) + Bit(y, 16 - n)) % 2)
<1> DEFINE digit(n) == (Bit(x, 16 - n) + Bit(y, 16 - n)) % 2
           Is(f) == f = [n \in 0 .. 16 |-> IF n = 0 THEN 0 ELSE 2 * f[n - 1] + digit(n)]
           from == CHOOSE f : Is(f)
           step == [n \in 1 .. 16 |-> [v \in Nat |-> 2 * v + digit(n)]]
<1>1. Xor(x, y) = from[16]
  BY DEF Xor
<1>2. \A n \in 1 .. 16 : digit(n) \in Nat
  <2> SUFFICES ASSUME NEW n \in 1 .. 16 PROVE digit(n) \in Nat
    OBVIOUS
  <2>1. 16 - n \in 0 .. 15
    OBVIOUS
  <2>2. Bit(x, 16 - n) \in {0, 1} /\ Bit(y, 16 - n) \in {0, 1}
    BY <2>1, AboveFacts
  <2> QED
    BY <2>2
<1> HIDE DEF digit
<1>3. step \in [1 .. 16 -> [Nat -> Nat]]
  BY <1>2
<1>4. PICK run : Runs(Nat, 16, 0, step, run)
  <2> HIDE DEF step, from, Is
  <2> QED
    BY <1>3, LoopRuns
<1>5. \A i \in 1 .. 16 : run[i - 1] \in Nat /\ run[i] = 2 * run[i - 1] + digit(i)
  <2>1. \A i \in 1 .. 16 : i - 1 \in 0 .. 16
    OBVIOUS
  <2>2. run \in [0 .. 16 -> Nat] /\ \A i \in 1 .. 16 : run[i] = step[i][run[i - 1]]
    BY <1>4 DEF Runs
  <2> QED
    BY <2>1, <2>2
<1>6. Is(run)
  BY <1>4, <1>5 DEF Runs
<1>7. Is(from)
  BY <1>6
<1> HIDE DEF from, step
<1>8. \A i \in 0 .. 16 : from[i] = run[i]
  <2> DEFINE T == {n \in Nat : n <= 16 => from[n] = run[n]}
  <2>1. 0 \in T
    BY <1>4, <1>7 DEF Runs
  <2>2. ASSUME NEW n \in Nat, n \in T PROVE n + 1 \in T
    BY <1>5, <1>7, <2>2
  <2>3. Nat \subseteq T
    <3> HIDE DEF T
    <3> QED
      BY <2>1, <2>2, Inductive
  <2> QED
    BY <2>3
<1>9. from = run
  BY <1>4, <1>7, <1>8 DEF Runs
<1> QED
  BY <1>1, <1>4, <1>5, <1>9 DEF digit, Runs

\* What a 16-bit number is; its bound is best not seen by the provers elsewhere.
LEMMA WordsAreNaturals ==
  /\ \A x \in Uint16 : x \in Nat
  /\ \A x \in Uint16, y \in Nat : y <= x => y \in Uint16
  /\ \A x \in Byte : x \in Nat /\ x \in Uint16
  /\ 0 \in Uint16 /\ 65535 \in Uint16
<1>1. \A x \in Uint16 : x \in Nat
  BY SMT DEF Uint16
<1>2. \A x \in Byte : x \in Nat /\ x \in Uint16
  BY SMT DEF Uint16, Byte
<1>3. 0 \in Uint16 /\ 65535 \in Uint16
  BY SMT DEF Uint16
<1>4. ASSUME NEW x \in Uint16, NEW y \in Nat, y <= x PROVE y \in Uint16
  <2> DEFINE all == 2^16
  <2>1. x < all /\ (y \in Uint16 <=> y < all) /\ x \in Nat
    BY <1>1, AboveAll
  <2>2. all \in Nat
    BY SMT
  <2> HIDE DEF all
  <2> QED
    BY <1>4, <2>1, <2>2
<1> QED
  BY <1>1, <1>2, <1>3, <1>4

\* A bit that is appended can be taken off again.
LEMMA Doubled ==
  ASSUME NEW v \in Nat, NEW d \in {0, 1}
  PROVE  2 * v + d \in Nat /\ (2 * v + d) % 2 = d /\ (2 * v + d) \div 2 = v
  OBVIOUS

\* The exclusive or of two numbers is that of their bits.
LEMMA XorBits ==
  ASSUME NEW x \in Nat, NEW y \in Nat
  PROVE  /\ Xor(x, y) \in Uint16
         /\ \A n \in 0 .. 15 : Bit(Xor(x, y), n) = (Bit(x, n) + Bit(y, n)) % 2
<1> DEFINE digit(n) == (Bit(x, 16 - n) + Bit(y, 16 - n)) % 2
<1>1. PICK from \in [0 .. 16 -> Nat] :
        from[0] = 0 /\ Xor(x, y) = from[16] /\ \A n \in 1 .. 16 : from[n] = 2 * from[n - 1] + digit(n)
  BY XorRuns
<1>2. \A n \in 1 .. 16 : digit(n) \in {0, 1}
  <2> SUFFICES ASSUME NEW n \in 1 .. 16 PROVE digit(n) \in {0, 1}
    OBVIOUS
  <2>1. 16 - n \in 0 .. 15
    OBVIOUS
  <2>2. Bit(x, 16 - n) \in {0, 1} /\ Bit(y, 16 - n) \in {0, 1}
    BY <2>1, AboveFacts
  <2> QED
    BY <2>2
<1>3. \A n \in 0 .. 15 : digit(16 - n) = (Bit(x, n) + Bit(y, n)) % 2
  <2> SUFFICES ASSUME NEW n \in 0 .. 15 PROVE digit(16 - n) = (Bit(x, n) + Bit(y, n)) % 2
    OBVIOUS
  <2>1. 16 - (16 - n) = n
    OBVIOUS
  <2> QED
    BY <2>1
<1> HIDE DEF digit
<1>4. \A n \in 1 .. 16 : from[n] % 2 = digit(n) /\ from[n] \div 2 = from[n - 1]
  <2> SUFFICES ASSUME NEW n \in 1 .. 16
      PROVE from[n] % 2 = digit(n) /\ from[n] \div 2 = from[n - 1]
    OBVIOUS
  <2>1. from[n - 1] \in Nat /\ digit(n) \in {0, 1} /\ from[n] = 2 * from[n - 1] + digit(n)
    <3>1. n - 1 \in 0 .. 16
      OBVIOUS
    <3> QED
      BY <1>1, <1>2, <3>1
  <2> QED
    BY <2>1, Doubled
<1> DEFINE z == from[16]
<1>5. z \in Nat
  BY <1>1
<1>6. \A k \in Nat : k <= 16 => Above(z, k) = from[16 - k]
  <2> DEFINE T == {k \in Nat : k <= 16 => Above(z, k) = from[16 - k]}
  <2>1. 0 \in T
    BY <1>5, AboveAll
  <2>2. ASSUME NEW k \in Nat, k \in T PROVE k + 1 \in T
    <3> SUFFICES ASSUME k + 1 <= 16 PROVE Above(z, k + 1) = from[16 - (k + 1)]
      OBVIOUS
    <3>1. k \in 0 .. 15 /\ 16 - k \in 1 .. 16 /\ (16 - k) - 1 = 16 - (k + 1)
      OBVIOUS
    <3>2. Above(z, k + 1) = Above(z, k) \div 2
      BY <1>5, <3>1, AboveFacts
    <3>3. Above(z, k) = from[16 - k]
      BY <2>2, <3>1
    <3> QED
      BY <1>4, <3>1, <3>2, <3>3
  <2>3. Nat \subseteq T
    <3> HIDE DEF T
    <3> QED
      BY <2>1, <2>2, Inductive
  <2> QED
    BY <2>3
<1> HIDE DEF z
<1>7. z \in Uint16
  <2>1. Above(z, 16) = from[0]
    BY <1>6
  <2> QED
    BY <1>1, <1>5, <2>1, AboveAll
<1>8. \A n \in 0 .. 15 : Bit(z, n) = digit(16 - n)
  <2> SUFFICES ASSUME NEW n \in 0 .. 15 PROVE Bit(z, n) = digit(16 - n)
    OBVIOUS
  <2>1. 16 - n \in 1 .. 16 /\ n \in Nat /\ n <= 16
    OBVIOUS
  <2>2. Bit(z, n) = Above(z, n) % 2
    BY <1>5, AboveFacts
  <2> QED
    BY <1>4, <1>6, <2>1, <2>2
<1> QED
  BY <1>1, <1>3, <1>7, <1>8 DEF z

\* A 16-bit number is what its bits are.
LEMMA SameBits ==
  ASSUME NEW x \in Uint16, NEW y \in Uint16, \A n \in 0 .. 15 : Bit(x, n) = Bit(y, n)
  PROVE  x = y
<1> DEFINE T == {k \in Nat : k <= 16 => Above(x, 16 - k) = Above(y, 16 - k)}
<1>1. x \in Nat /\ y \in Nat
  BY WordsAreNaturals
<1>2. 0 \in T
  BY <1>1, AboveAll
<1>3. ASSUME NEW k \in Nat, k \in T PROVE k + 1 \in T
  <2> SUFFICES ASSUME k + 1 <= 16 PROVE Above(x, 16 - (k + 1)) = Above(y, 16 - (k + 1))
    OBVIOUS
  <2> DEFINE n == 16 - (k + 1)
  <2>1. n \in 0 .. 15 /\ n + 1 = 16 - k
    OBVIOUS
  <2> HIDE DEF n
  <2>2. Above(x, n + 1) = Above(y, n + 1)
    BY <1>3, <2>1
  <2>3. Above(x, n) = 2 * Above(x, n + 1) + Bit(x, n) /\ Above(y, n) = 2 * Above(y, n + 1) + Bit(y, n)
    BY <1>1, <2>1, AboveFacts
  <2>4. Bit(x, n) = Bit(y, n)
    BY <2>1
  <2>5. Above(x, n) = Above(y, n)
    BY <2>2, <2>3, <2>4
  <2> QED
    BY <2>5 DEF n
<1>4. Nat \subseteq T
  <2> HIDE DEF T
  <2> QED
    BY <1>2, <1>3, Inductive
<1>5. Above(x, 0) = Above(y, 0)
  <2>1. 16 \in Nat
    OBVIOUS
  <2>2. 16 \in T
    BY <1>4, <2>1
  <2> QED
    BY <2>2
<1> QED
  BY <1>1, <1>5, AboveAll

\* A shift to the right.
LEMMA HalfBits ==
  ASSUME NEW x \in Uint16
  PROVE  /\ x \div 2 \in Uint16
         /\ \A n \in 0 .. 15 : Bit(x \div 2, n) = IF n = 15 THEN 0 ELSE Bit(x, n + 1)
<1> DEFINE half == x \div 2
<1>1. x \in Nat
  BY WordsAreNaturals
<1>2. half \in Nat /\ half <= x
  BY <1>1
<1>3. half \in Uint16
  <2> HIDE DEF half
  <2> QED
    BY <1>2, WordsAreNaturals
<1>4. \A n \in Nat : n <= 15 => Above(half, n) = Above(x, n + 1)
  <2> DEFINE T == {n \in Nat : n <= 15 => Above(half, n) = Above(x, n + 1)}
  <2>1. 0 \in T
    <3>1. 0 \in 0 .. 15 /\ 0 + 1 = 1
      OBVIOUS
    <3>2. Above(x, 0) = x /\ Above(x, 0 + 1) = Above(x, 0) \div 2 /\ Above(half, 0) = half
      BY <1>1, <1>2, <3>1, AboveFacts, AboveAll
    <3> QED
      BY <3>1, <3>2
  <2>2. ASSUME NEW n \in Nat, n \in T PROVE n + 1 \in T
    <3> SUFFICES ASSUME n + 1 <= 15 PROVE Above(half, n + 1) = Above(x, (n + 1) + 1)
      OBVIOUS
    <3>1. n \in 0 .. 15 /\ n + 1 \in 0 .. 15
      OBVIOUS
    <3>2. Above(half, n + 1) = Above(half, n) \div 2 /\ Above(x, (n + 1) + 1) = Above(x, n + 1) \div 2
      <4> HIDE DEF half
      <4> QED
        BY <1>1, <1>2, <3>1, AboveFacts
    <3> QED
      BY <2>2, <3>1, <3>2
  <2>3. Nat \subseteq T
    <3> HIDE DEF T
    <3> QED
      BY <2>1, <2>2, Inductive
  <2> QED
    BY <2>3
<1> HIDE DEF half
<1>5. ASSUME NEW n \in 0 .. 15 PROVE Bit(half, n) = IF n = 15 THEN 0 ELSE Bit(x, n + 1)
  <2>1. Bit(half, n) = Above(half, n) % 2 /\ Above(half, n) = Above(x, n + 1)
    <3>1. n \in Nat /\ n <= 15
      OBVIOUS
    <3>2. Bit(half, n) = Above(half, n) % 2
      BY <1>2, AboveFacts
    <3> QED
      BY <1>4, <3>1, <3>2
  <2>2. CASE n = 15
    <3>1. Above(x, n + 1) = 0
      BY <2>2, <1>1, AboveAll
    <3> QED
      BY <2>1, <2>2, <3>1
  <2>3. CASE n # 15
    <3>1. n + 1 \in 0 .. 15
      BY <2>3
    <3>2. Bit(x, n + 1) = Above(x, n + 1) % 2
      BY <1>1, <3>1, AboveFacts
    <3> QED
      BY <2>1, <2>3, <3>2
  <2> QED
    BY <2>2, <2>3
<1> QED
  BY <1>3, <1>5 DEF half

\* Half of a sum with an even number.
LEMMA TwiceMore ==
  ASSUME NEW a \in Nat, NEW b \in Nat
  PROVE  (a + 2 * b) \div 2 = (a \div 2) + b /\ (a + 2 * b) % 2 = a % 2
  OBVIOUS

\* The bits below those that are added.
LEMMA LowBits ==
  ASSUME NEW x \in Nat, NEW k \in 0 .. 16, NEW w \in [0 .. k -> Nat],
         \A n \in 0 .. k : n < k => w[n] = 2 * w[n + 1]
  PROVE  /\ \A n \in 0 .. k : Above(x + w[0], n) = Above(x, n) + w[n]
         /\ \A n \in 0 .. k : n < k => Bit(x + w[0], n) = Bit(x, n)
<1> DEFINE z == x + w[0]
           T == {n \in Nat : n <= k => Above(z, n) = Above(x, n) + w[n]}
<1>1. z \in Nat
  OBVIOUS
<1>2. 0 \in T
  BY <1>1, AboveAll
<1> HIDE DEF z
<1>3. ASSUME NEW n \in Nat, n < k, Above(z, n) = Above(x, n) + w[n]
      PROVE  Above(z, n + 1) = Above(x, n + 1) + w[n + 1] /\ Bit(z, n) = Bit(x, n)
  <2>1. n \in 0 .. 15 /\ n \in 0 .. k /\ n + 1 \in 0 .. k
    BY <1>3
  <2>2. /\ Above(z, n + 1) = Above(z, n) \div 2 /\ Bit(z, n) = Above(z, n) % 2
        /\ Above(x, n + 1) = Above(x, n) \div 2 /\ Bit(x, n) = Above(x, n) % 2 /\ Above(x, n) \in Nat
    BY <1>1, <2>1, AboveFacts
  <2>3. w[n] = 2 * w[n + 1] /\ w[n + 1] \in Nat
    BY <1>3, <2>1
  <2>5. Above(z, n) = Above(x, n) + 2 * w[n + 1]
    BY <1>3, <2>3
  <2>6. Above(z, n) \div 2 = (Above(x, n) \div 2) + w[n + 1] /\ Above(z, n) % 2 = Above(x, n) % 2
    <3> DEFINE a == Above(x, n)
               b == w[n + 1]
    <3>1. a \in Nat /\ b \in Nat /\ Above(z, n) = a + 2 * b
      BY <2>2, <2>3, <2>5
    <3> HIDE DEF a, b
    <3>2. (a + 2 * b) \div 2 = (a \div 2) + b /\ (a + 2 * b) % 2 = a % 2
      BY <3>1, TwiceMore
    <3> QED
      BY <3>1, <3>2 DEF a, b
  <2>7. Above(z, n + 1) = Above(x, n + 1) + w[n + 1]
    BY <2>2, <2>6
  <2> QED
    BY <2>2, <2>6, <2>7
<1>4. ASSUME NEW n \in Nat, n \in T PROVE n + 1 \in T
  BY <1>3, <1>4
<1>5. Nat \subseteq T
  <2> HIDE DEF T
  <2> QED
    BY <1>2, <1>4, Inductive
<1>6. \A n \in 0 .. k : Above(z, n) = Above(x, n) + w[n]
  BY <1>5
<1> HIDE DEF T
<1> QED
  BY <1>3, <1>6 DEF z

\* The two polynomials, each the other one's mirror image, and the initial value.
LEMMA Constants ==
  /\ Polynomial \in Nat /\ 32773 \in Nat
  /\ \A n \in 0 .. 15 : Bit(Polynomial, n) = IF n \in {0, 13, 15} THEN 1 ELSE 0
  /\ \A n \in 0 .. 15 : Bit(32773, n) = IF n \in {0, 2, 15} THEN 1 ELSE 0
  /\ \A n \in 0 .. 15 : Bit(65535, n) = 1
<1> DEFINE P(n) == Bit(Polynomial, n)
           Q(n) == Bit(32773, n)
           R(n) == Bit(65535, n)
<1>1. /\ P(0) = 1 /\ P(1) = 0 /\ P(2) = 0 /\ P(3) = 0 /\ P(4) = 0 /\ P(5) = 0 /\ P(6) = 0 /\ P(7) = 0
      /\ P(8) = 0 /\ P(9) = 0 /\ P(10) = 0 /\ P(11) = 0 /\ P(12) = 0 /\ P(13) = 1 /\ P(14) = 0 /\ P(15) = 1
  BY SMT DEF Bit, Polynomial
<1>2. /\ Q(0) = 1 /\ Q(1) = 0 /\ Q(2) = 1 /\ Q(3) = 0 /\ Q(4) = 0 /\ Q(5) = 0 /\ Q(6) = 0 /\ Q(7) = 0
      /\ Q(8) = 0 /\ Q(9) = 0 /\ Q(10) = 0 /\ Q(11) = 0 /\ Q(12) = 0 /\ Q(13) = 0 /\ Q(14) = 0 /\ Q(15) = 1
  BY SMT DEF Bit
<1>3. /\ R(0) = 1 /\ R(1) = 1 /\ R(2) = 1 /\ R(3) = 1 /\ R(4) = 1 /\ R(5) = 1 /\ R(6) = 1 /\ R(7) = 1
      /\ R(8) = 1 /\ R(9) = 1 /\ R(10) = 1 /\ R(11) = 1 /\ R(12) = 1 /\ R(13) = 1 /\ R(14) = 1 /\ R(15) = 1
  BY SMT DEF Bit
<1>4. Polynomial \in Nat /\ 32773 \in Nat
  BY SMT DEF Polynomial
<1> HIDE DEF P, Q, R
<1>5. \A n \in 0 .. 15 : P(n) = IF n \in {0, 13, 15} THEN 1 ELSE 0
  BY <1>1, SMT
<1>6. \A n \in 0 .. 15 : Q(n) = IF n \in {0, 2, 15} THEN 1 ELSE 0
  BY <1>2, SMT
<1>7. \A n \in 0 .. 15 : R(n) = 1
  BY <1>3, SMT
<1> QED
  BY <1>4, <1>5, <1>6, <1>7 DEF P, Q, R

\* The tests on a single bit of the register.
LEMMA TopBit == ASSUME NEW x \in Uint16 PROVE x >= 32768 <=> Bit(x, 15) = 1
<1> DEFINE half == 2^15
<1>1. x \in Nat /\ 15 \in 0 .. 15 /\ 15 + 1 = 16
  BY WordsAreNaturals
<1>2. Above(x, 16) = 0 /\ Above(x, 15) = 2 * Above(x, 16) + Bit(x, 15) /\ Bit(x, 15) \in {0, 1}
  BY <1>1, AboveFacts, AboveAll
<1>3. Above(x, 15) = 0 <=> x < half
  BY <1>1, AboveZero
<1>4. half \in Nat
  BY SMT
<1>5. x >= half <=> Bit(x, 15) = 1
  <2> HIDE DEF half
  <2> QED
    BY <1>1, <1>2, <1>3, <1>4
<1> QED
  BY <1>5, SMT

\* The lowest one.
LEMMA ParityBit == ASSUME NEW x \in Nat PROVE Bit(x, 0) = x % 2
<1>1. 0 \in 0 .. 15
  OBVIOUS
<1> QED
  BY <1>1, AboveFacts, AboveAll

\* A byte has no bits above the eighth.
LEMMA ByteBits ==
  ASSUME NEW x \in Uint16
  PROVE  x \in Byte <=> \A n \in 8 .. 15 : Bit(x, n) = 0
<1>1. x \in Nat /\ 8 \in 0 .. 15
  BY WordsAreNaturals
<1>2. x \in Byte <=> Above(x, 8) = 0
  <2>1. Above(x, 8) = 0 <=> x < 2^8
    BY <1>1, AboveZero
  <2>2. x \in Byte <=> x < 256
    BY <1>1, SMT DEF Byte
  <2>3. 2^8 = 256
    BY SMT
  <2> QED
    BY <2>1, <2>2, <2>3
<1>3. \A n \in 8 .. 15 : Above(x, n) = 2 * Above(x, n + 1) + Bit(x, n) /\ Above(x, n) \in Nat /\ Bit(x, n) \in {0, 1}
  <2> SUFFICES ASSUME NEW n \in 8 .. 15
      PROVE Above(x, n) = 2 * Above(x, n + 1) + Bit(x, n) /\ Above(x, n) \in Nat /\ Bit(x, n) \in {0, 1}
    OBVIOUS
  <2>1. n \in 0 .. 15
    OBVIOUS
  <2> QED
    BY <1>1, <2>1, AboveFacts
<1>4. Above(x, 16) = 0
  BY <1>1, AboveAll
<1> DEFINE A(n) == Above(x, n)
           B(n) == Bit(x, n)
<1>5. A(8) = 0 <=> B(8) = 0 /\ B(9) = 0 /\ B(10) = 0 /\ B(11) = 0 /\ B(12) = 0 /\ B(13) = 0 /\ B(14) = 0 /\ B(15) = 0
  <2>1. \A n \in 8 .. 15 : A(n) = 0 <=> A(n + 1) = 0 /\ B(n) = 0
    <3> SUFFICES ASSUME NEW n \in 8 .. 15 PROVE A(n) = 0 <=> A(n + 1) = 0 /\ B(n) = 0
      OBVIOUS
    <3>1. A(n + 1) \in Nat
      <4>1. n = 15 \/ n + 1 \in 8 .. 15
        OBVIOUS
      <4>2. CASE n = 15
        BY <1>4, <4>2
      <4>3. CASE n + 1 \in 8 .. 15
        BY <1>3, <4>3
      <4> QED
        BY <4>1, <4>2, <4>3
    <3>2. A(n) = 2 * A(n + 1) + B(n) /\ B(n) \in {0, 1}
      BY <1>3
    <3> HIDE DEF A, B
    <3> QED
      BY <3>1, <3>2
  <2>2. A(16) = 0
    BY <1>4
  <2> HIDE DEF A, B
  <2> QED
    BY <2>1, <2>2
<1>6. B(8) = 0 /\ B(9) = 0 /\ B(10) = 0 /\ B(11) = 0 /\ B(12) = 0 /\ B(13) = 0 /\ B(14) = 0 /\ B(15) = 0
        <=> \A n \in 8 .. 15 : B(n) = 0
  <2> HIDE DEF B
  <2> QED OBVIOUS
<1> QED
  BY <1>2, <1>5, <1>6

\* The sum of two bits without its carry.
LEMMA AddedBits ==
  ASSUME NEW a \in {0, 1}, NEW b \in {0, 1}
  PROVE  (a + b) % 2 \in {0, 1} /\ ((a + b) % 2 = 0 <=> a = b) /\ (a + 0) % 2 = a /\ (a + 1) % 2 = 1 - a
  OBVIOUS

\* What a round of the checksum's inner loop makes of the register.
LEMMA ShiftBits ==
  ASSUME NEW x \in Uint16
  PROVE  /\ Shift(x) \in Uint16
         /\ \A n \in 0 .. 15 :
              Bit(Shift(x), n) = ((IF n = 15 THEN 0 ELSE Bit(x, n + 1))
                                  + (IF n \in {0, 13, 15} THEN Bit(x, 0) ELSE 0)) % 2
<1> DEFINE half == x \div 2
           upper(n) == IF n = 15 THEN 0 ELSE Bit(x, n + 1)
<1>1. x \in Nat /\ Bit(x, 0) = x % 2 /\ Bit(x, 0) \in {0, 1}
  <2>1. 0 \in 0 .. 15 /\ x \in Nat
    BY WordsAreNaturals
  <2> QED
    BY <2>1, AboveFacts, ParityBit
<1>2. half \in Uint16 /\ half \in Nat /\ \A n \in 0 .. 15 : Bit(half, n) = upper(n) /\ Bit(half, n) \in {0, 1}
  <2>1. half \in Uint16 /\ \A n \in 0 .. 15 : Bit(half, n) = upper(n)
    BY HalfBits
  <2> HIDE DEF half, upper
  <2>2. half \in Nat
    BY <2>1, WordsAreNaturals
  <2>3. \A n \in 0 .. 15 : Bit(half, n) \in {0, 1}
    BY <2>2, AboveFacts
  <2> QED
    BY <2>1, <2>2, <2>3
<1>3. /\ Xor(half, Polynomial) \in Uint16
      /\ \A n \in 0 .. 15 : Bit(Xor(half, Polynomial), n) = (Bit(half, n) + Bit(Polynomial, n)) % 2
  <2> HIDE DEF half
  <2> QED
    BY <1>2, Constants, XorBits
<1>4. Shift(x) = IF Bit(x, 0) = 1 THEN Xor(half, Polynomial) ELSE half
  BY <1>1 DEF Shift
<1> HIDE DEF half, upper
<1>5. Shift(x) \in Uint16
  BY <1>2, <1>3, <1>4
<1>6. ASSUME NEW n \in 0 .. 15
      PROVE  Bit(Shift(x), n) = (upper(n) + (IF n \in {0, 13, 15} THEN Bit(x, 0) ELSE 0)) % 2
  <2>1. upper(n) = Bit(half, n) /\ upper(n) \in {0, 1} /\ (upper(n) + 0) % 2 = upper(n)
    BY <1>2, AddedBits
  <2>2. CASE Bit(x, 0) = 1
    <3>1. Bit(Shift(x), n) = (upper(n) + (IF n \in {0, 13, 15} THEN 1 ELSE 0)) % 2
      BY <1>3, <1>4, <2>1, <2>2, Constants
    <3> QED
      BY <2>2, <3>1
  <2>3. CASE Bit(x, 0) = 0
    <3>1. Bit(Shift(x), n) = (upper(n) + 0) % 2
      BY <1>4, <2>1, <2>3
    <3> QED
      BY <2>3, <3>1
  <2> QED
    BY <1>1, <2>2, <2>3
<1> QED
  BY <1>5, <1>6 DEF upper

\* The next bit is appended.
Double(x, b) == 2 * x + b

\* A shift to the left moves each bit up, the highest one out of the register.
LEMMA DoubleBits ==
  ASSUME NEW x \in Uint16, NEW b \in {0, 1}
  PROVE  /\ Double(x, b) \in Nat
         /\ \A n \in 0 .. 15 : Bit(Double(x, b), n) = IF n = 0 THEN b ELSE Bit(x, n - 1)
         /\ Above(Double(x, b), 16) = Bit(x, 15)
         /\ x < 32768 => Double(x, b) \in Uint16
<1> DEFINE double == Double(x, b)
<1>1. x \in Nat
  BY WordsAreNaturals
<1>2. double \in Nat /\ double % 2 = b /\ double \div 2 = x
  BY <1>1, Doubled DEF Double
<1> HIDE DEF double
<1>3. \A n \in Nat : n <= 15 => Above(double, n + 1) = Above(x, n)
  <2> DEFINE T == {n \in Nat : n <= 15 => Above(double, n + 1) = Above(x, n)}
  <2>1. 0 \in T
    <3>1. 0 \in 0 .. 15 /\ 0 + 1 = 1
      OBVIOUS
    <3>2. Above(x, 0) = x /\ Above(double, 0 + 1) = Above(double, 0) \div 2 /\ Above(double, 0) = double
      BY <1>1, <1>2, <3>1, AboveFacts, AboveAll
    <3> QED
      BY <1>2, <3>1, <3>2
  <2>2. ASSUME NEW n \in Nat, n \in T PROVE n + 1 \in T
    <3> SUFFICES ASSUME n + 1 <= 15 PROVE Above(double, (n + 1) + 1) = Above(x, n + 1)
      OBVIOUS
    <3>1. n \in 0 .. 15 /\ n + 1 \in 0 .. 15
      OBVIOUS
    <3>2. Above(x, n + 1) = Above(x, n) \div 2 /\ Above(double, (n + 1) + 1) = Above(double, n + 1) \div 2
      BY <1>1, <1>2, <3>1, AboveFacts
    <3> QED
      BY <2>2, <3>1, <3>2
  <2>3. Nat \subseteq T
    <3> HIDE DEF T
    <3> QED
      BY <2>1, <2>2, Inductive
  <2> QED
    BY <2>3
<1>4. ASSUME NEW n \in 0 .. 15 PROVE Bit(double, n) = IF n = 0 THEN b ELSE Bit(x, n - 1)
  <2>1. CASE n = 0
    BY <1>2, <2>1, ParityBit
  <2>2. CASE n # 0
    <3>1. n - 1 \in 0 .. 15 /\ n - 1 \in Nat /\ n - 1 <= 15 /\ (n - 1) + 1 = n
      BY <2>2
    <3>2. Bit(double, n) = Above(double, n) % 2 /\ Bit(x, n - 1) = Above(x, n - 1) % 2
      BY <1>1, <1>2, <3>1, AboveFacts
    <3>3. Above(double, n) = Above(x, n - 1)
      BY <1>3, <3>1
    <3> QED
      BY <2>2, <3>2, <3>3
  <2> QED
    BY <2>1, <2>2
<1>5. Above(double, 16) = Bit(x, 15) /\ (x >= 32768 <=> Bit(x, 15) = 1) /\ Bit(x, 15) \in {0, 1}
  <2>1. 15 \in 0 .. 15 /\ 15 \in Nat /\ 15 <= 15 /\ 15 + 1 = 16
    OBVIOUS
  <2>2. Above(x, 15) = 2 * Above(x, 16) + Bit(x, 15) /\ Bit(x, 15) \in {0, 1} /\ Above(x, 16) = 0
    BY <1>1, <2>1, AboveFacts, AboveAll
  <2>3. Above(double, 16) = Above(x, 15)
    BY <1>3, <2>1
  <2> QED
    BY <2>2, <2>3, TopBit
<1>6. ASSUME x < 32768 PROVE double \in Uint16
  <2>1. Bit(x, 15) = 0
    BY <1>1, <1>5, <1>6, SMT
  <2> QED
    BY <1>2, <1>5, <2>1, AboveAll
<1> QED
  BY <1>2, <1>4, <1>5, <1>6 DEF double

\* The 16 lowest bits.
Low16(x) == x % 65536

\* A number of 17 bits without its highest one.
LEMMA Low16Bits ==
  ASSUME NEW x \in Nat, Above(x, 16) = 1
  PROVE  Low16(x) \in Uint16 /\ \A n \in 0 .. 15 : Bit(Low16(x), n) = Bit(x, n)
<1> DEFINE all == 2^16
           rest == x % all
           w == [n \in 0 .. 16 |-> 2^(16 - n)]
<1>1. all \in Nat \ {0} /\ Low16(x) = rest
  BY SMT DEF Low16
<1>2. x \div all = 1
  BY DEF Above
<1>3. rest \in Nat /\ rest < all /\ x = rest + all
  <2> HIDE DEF all
  <2>1. x = all * (x \div all) + (x % all) /\ x % all \in Nat /\ x % all < all
    BY <1>1
  <2> QED
    BY <1>1, <1>2, <2>1
<1>4. rest \in Uint16
  <2> HIDE DEF rest
  <2> QED
    BY <1>3, AboveAll
<1>5. w \in [0 .. 16 -> Nat] /\ w[0] = all /\ \A n \in 0 .. 16 : n < 16 => w[n] = 2 * w[n + 1]
  <2>1. \A n \in 0 .. 15 : 2^n \in Nat /\ 2^(n + 1) = 2 * 2^n
    BY Powers
  <2> DEFINE power(n) == 2^n
  <2>2. power(16) \in Nat
    BY SMT
  <2>3. \A n \in 0 .. 15 : power(n) \in Nat /\ power(n + 1) = 2 * power(n)
    BY <2>1
  <2>4. w = [n \in 0 .. 16 |-> power(16 - n)] /\ all = power(16)
    OBVIOUS
  <2> HIDE DEF power, w, all
  <2>5. \A n \in 0 .. 16 : power(16 - n) \in Nat
    <3>1. \A n \in 0 .. 16 : n = 0 \/ 16 - n \in 0 .. 15
      OBVIOUS
    <3> QED
      BY <2>2, <2>3, <3>1
  <2>6. w \in [0 .. 16 -> Nat] /\ w[0] = all
    BY <2>4, <2>5
  <2>7. ASSUME NEW n \in 0 .. 16, n < 16 PROVE w[n] = 2 * w[n + 1]
    <3>1. 16 - (n + 1) \in 0 .. 15 /\ (16 - (n + 1)) + 1 = 16 - n /\ n + 1 \in 0 .. 16
      BY <2>7
    <3> QED
      BY <2>3, <2>4, <3>1
  <2> QED
    BY <2>6, <2>7
<1> HIDE DEF w, all, rest
<1>6. 16 \in 0 .. 16
  OBVIOUS
<1>7. \A n \in 0 .. 16 : n < 16 => Bit(rest + w[0], n) = Bit(rest, n)
  BY <1>3, <1>5, <1>6, LowBits
<1>8. \A n \in 0 .. 15 : n \in 0 .. 16 /\ n < 16
  OBVIOUS
<1> QED
  BY <1>1, <1>3, <1>4, <1>5, <1>7, <1>8
-----------------------------------------------------------------------------
(* A step of the division, and its loops and those of the checksum.        *)

\* What a step of the division makes of the remainder.
LEMMA DivideBits ==
  ASSUME NEW r \in Uint16, NEW b \in {0, 1}
  PROVE  /\ Divide(r, b) \in Uint16
         /\ \A n \in 0 .. 15 :
              Bit(Divide(r, b), n) = ((IF n = 0 THEN b ELSE Bit(r, n - 1))
                                      + (IF n \in {0, 2, 15} THEN Bit(r, 15) ELSE 0)) % 2
<1> DEFINE double == Double(r, b)
           rest == Low16(double)
           lower(n) == IF n = 0 THEN b ELSE Bit(r, n - 1)
           top == Bit(r, 15)
<1>1. /\ double \in Nat /\ \A n \in 0 .. 15 : Bit(double, n) = lower(n)
      /\ Above(double, 16) = top
      /\ r < 32768 => double \in Uint16
  BY DoubleBits
<1>2. Divide(r, b) = IF r >= 32768 THEN Xor(rest, 32773) ELSE double
  BY DEF Divide, Low16, Double
<1>3. r \in Nat /\ (r >= 32768 <=> top = 1) /\ top \in {0, 1} /\ (r >= 32768 \/ r < 32768)
  <2>1. 15 \in 0 .. 15 /\ r \in Nat
    BY WordsAreNaturals
  <2>2. r >= 32768 \/ r < 32768
    BY <2>1, SMT
  <2> QED
    BY <2>1, <2>2, TopBit, AboveFacts
<1>4. \A n \in 0 .. 15 : lower(n) \in {0, 1}
  <2>1. \A n \in 0 .. 15 : Bit(double, n) \in {0, 1}
    <3> HIDE DEF double
    <3>1. double \in Nat
      BY <1>1
    <3> QED
      BY <3>1, AboveFacts
  <2> QED
    BY <1>1, <2>1
<1> HIDE DEF double, rest, lower, top
<1>5. CASE r >= 32768
  <2>0. rest \in Uint16 /\ \A n \in 0 .. 15 : Bit(rest, n) = Bit(double, n)
    <3>1. double \in Nat /\ Above(double, 16) = 1
      BY <1>1, <1>3, <1>5
    <3> QED
      BY <3>1, Low16Bits DEF rest
  <2>1. rest \in Uint16 /\ rest \in Nat /\ Divide(r, b) = Xor(rest, 32773) /\ top = 1
    <3>1. rest \in Uint16 /\ Divide(r, b) = Xor(rest, 32773) /\ top = 1
      BY <1>2, <1>3, <1>5, <2>0
    <3> QED
      BY <3>1, WordsAreNaturals
  <2>2. /\ Xor(rest, 32773) \in Uint16
        /\ \A n \in 0 .. 15 : Bit(Xor(rest, 32773), n) = (Bit(rest, n) + Bit(32773, n)) % 2
    BY <2>1, Constants, XorBits
  <2>3. ASSUME NEW n \in 0 .. 15
        PROVE  Bit(Divide(r, b), n) = (lower(n) + (IF n \in {0, 2, 15} THEN 1 ELSE 0)) % 2
    <3>1. Bit(rest, n) = lower(n) /\ Bit(32773, n) = IF n \in {0, 2, 15} THEN 1 ELSE 0
      BY <1>1, <2>0, Constants
    <3> QED
      BY <2>1, <2>2, <3>1
  <2> QED
    BY <2>1, <2>2, <2>3 DEF lower, top
<1>6. CASE r < 32768
  <2>1. Divide(r, b) = double /\ double \in Uint16 /\ top = 0
    <3>1. ~(r >= 32768)
      BY <1>3, <1>6, SMT
    <3> QED
      BY <1>1, <1>2, <1>3, <1>6, <3>1
  <2>2. ASSUME NEW n \in 0 .. 15
        PROVE  Bit(Divide(r, b), n) = (lower(n) + (IF n \in {0, 2, 15} THEN 0 ELSE 0)) % 2
    <3>1. lower(n) \in {0, 1} /\ Bit(double, n) = lower(n) /\ (lower(n) + 0) % 2 = lower(n)
      BY <1>1, <1>4, AddedBits
    <3> QED
      BY <2>1, <3>1
  <2> QED
    BY <2>1, <2>2 DEF lower, top
<1> QED
  BY <1>3, <1>5, <1>6

\* The bits of two bytes taken together.
LEMMA WordBits ==
  ASSUME NEW high \in Byte, NEW low \in Byte
  PROVE  /\ 256 * high + low \in Uint16
         /\ \A n \in 0 .. 15 : Bit(256 * high + low, n) = IF n < 8 THEN Bit(low, n) ELSE Bit(high, n - 8)
<1> DEFINE w == [n \in 0 .. 8 |-> high * 2^(8 - n)]
           word == low + w[0]
<1>1. high \in Nat /\ high < 256 /\ low \in Nat /\ low < 256
  BY DEF Byte
<1>2. /\ w \in [0 .. 8 -> Nat] /\ w[0] = 256 * high /\ w[8] = high
      /\ \A n \in 0 .. 8 : n < 8 => w[n] = 2 * w[n + 1]
  <2> DEFINE power(n) == 2^n
  <2>1. \A n \in 0 .. 15 : power(n) \in Nat /\ power(n + 1) = 2 * power(n)
    BY Powers
  <2>2. power(8) = 256 /\ power(0) = 1
    BY SMT
  <2>3. w = [n \in 0 .. 8 |-> high * power(8 - n)]
    OBVIOUS
  <2> HIDE DEF power, w
  <2>4. \A n \in 0 .. 8 : 8 - n \in 0 .. 15
    OBVIOUS
  <2>5. w \in [0 .. 8 -> Nat]
    BY <1>1, <2>1, <2>3, <2>4
  <2>6. w[0] = 256 * high /\ w[8] = high
    BY <1>1, <2>2, <2>3
  <2>7. ASSUME NEW n \in 0 .. 8, n < 8 PROVE w[n] = 2 * w[n + 1]
    <3>1. 8 - (n + 1) \in 0 .. 15 /\ (8 - (n + 1)) + 1 = 8 - n /\ n + 1 \in 0 .. 8
      BY <2>7
    <3> DEFINE p == power(8 - (n + 1))
    <3>2. p \in Nat /\ power(8 - n) = 2 * p
      BY <2>1, <3>1
    <3>3. w[n] = high * power(8 - n) /\ w[n + 1] = high * p
      BY <2>3, <3>1
    <3> HIDE DEF p
    <3>4. high * (2 * p) = 2 * (high * p)
      BY <1>1, <3>2
    <3> QED
      BY <3>2, <3>3, <3>4
  <2> QED
    BY <2>5, <2>6, <2>7
<1>3. word = 256 * high + low /\ word \in Nat
  BY <1>1, <1>2
<1>4. /\ \A n \in 0 .. 8 : Above(word, n) = Above(low, n) + w[n]
      /\ \A n \in 0 .. 8 : n < 8 => Bit(word, n) = Bit(low, n)
  <2>1. 8 \in 0 .. 16
    OBVIOUS
  <2> HIDE DEF w
  <2> QED
    BY <1>1, <1>2, <2>1, LowBits
<1> HIDE DEF w, word
<1>5. Above(word, 8) = high
  <2>1. 8 \in 0 .. 8 /\ 8 \in 0 .. 15
    OBVIOUS
  <2>2. low < 2^8
    BY <1>1, SMT
  <2>3. Above(low, 8) = 0
    BY <1>1, <2>1, <2>2, AboveZero
  <2> QED
    BY <1>1, <1>2, <1>4, <2>1, <2>3
<1>6. \A m \in Nat : m <= 8 => Above(word, 8 + m) = Above(high, m)
  <2> DEFINE T == {m \in Nat : m <= 8 => Above(word, 8 + m) = Above(high, m)}
  <2>1. 0 \in T
    <3>1. Above(high, 0) = high
      BY <1>1, AboveAll
    <3> QED
      BY <1>5, <3>1
  <2>2. ASSUME NEW m \in Nat, m \in T PROVE m + 1 \in T
    <3> SUFFICES ASSUME m + 1 <= 8 PROVE Above(word, 8 + (m + 1)) = Above(high, m + 1)
      OBVIOUS
    <3>1. m \in 0 .. 15 /\ 8 + m \in 0 .. 15 /\ 8 + (m + 1) = (8 + m) + 1
      OBVIOUS
    <3>2. Above(high, m + 1) = Above(high, m) \div 2
      BY <1>1, <3>1, AboveFacts
    <3>3. Above(word, (8 + m) + 1) = Above(word, 8 + m) \div 2
      <4>1. word \in Nat
        BY <1>3
      <4> QED
        BY <3>1, <4>1, AboveFacts, Zenon
    <3> QED
      BY <2>2, <3>1, <3>2, <3>3
  <2>3. Nat \subseteq T
    <3> HIDE DEF T
    <3> QED
      BY <2>1, <2>2, Inductive
  <2> QED
    BY <2>3
<1>7. ASSUME NEW n \in 0 .. 15, ~(n < 8) PROVE Bit(word, n) = Bit(high, n - 8)
  <2>1. n - 8 \in 0 .. 15 /\ n - 8 \in Nat /\ n - 8 <= 8 /\ 8 + (n - 8) = n
    BY <1>7
  <2>2. Bit(word, n) = Above(word, n) % 2 /\ Bit(high, n - 8) = Above(high, n - 8) % 2
    <3>1. Bit(word, n) = Above(word, n) % 2
      <4>1. word \in Nat
        BY <1>3
      <4> QED
        BY <4>1, AboveFacts, Zenon
    <3>2. Bit(high, n - 8) = Above(high, n - 8) % 2
      BY <1>1, <2>1, AboveFacts
    <3> QED
      BY <3>1, <3>2
  <2> QED
    BY <1>6, <2>1, <2>2
<1>8. word \in Uint16
  <2>1. 8 \in Nat /\ 8 <= 8 /\ 8 + 8 = 16 /\ 8 \in 0 .. 15
    OBVIOUS
  <2>2. high < 2^8
    BY <1>1, SMT
  <2>3. Above(high, 8) = 0
    BY <1>1, <2>1, <2>2, AboveZero
  <2>4. Above(word, 16) = 0
    BY <1>6, <2>1, <2>3
  <2> QED
    BY <1>3, <2>4, AboveAll
<1>9. \A n \in 0 .. 15 : n < 8 => n \in 0 .. 8
  OBVIOUS
<1>10. \A n \in 0 .. 15 : Bit(word, n) = IF n < 8 THEN Bit(low, n) ELSE Bit(high, n - 8)
  BY <1>4, <1>7, <1>9
<1> QED
  BY <1>3, <1>8, <1>10

\* The inner loop.
LEMMA AddByteRuns ==
  ASSUME NEW crc \in Uint16, NEW byte \in Byte
  PROVE  \E shifted \in [0 .. 8 -> Uint16] :
           /\ shifted[0] = Xor(crc, byte) /\ AddByte(crc, byte) = shifted[8]
           /\ \A n \in 1 .. 8 : shifted[n] = Shift(shifted[n - 1])
<1> DEFINE start == Xor(crc, byte)
           Is(f) == f = [n \in 0 .. 8 |-> IF n = 0 THEN start ELSE Shift(f[n - 1])]
           shifted == CHOOSE f : Is(f)
           step == [n \in 1 .. 8 |-> [v \in Uint16 |-> Shift(v)]]
<1>1. AddByte(crc, byte) = shifted[8]
  BY DEF AddByte
<1>2. start \in Uint16
  <2>1. crc \in Nat /\ byte \in Nat
    BY WordsAreNaturals
  <2> QED
    BY <2>1, XorBits
<1> HIDE DEF start
<1>3. step \in [1 .. 8 -> [Uint16 -> Uint16]]
  BY ShiftBits
<1>4. PICK run : Runs(Uint16, 8, start, step, run)
  <2> HIDE DEF step, shifted, Is
  <2>1. 8 \in Nat
    OBVIOUS
  <2> QED
    BY <1>2, <1>3, <2>1, LoopRuns
<1>5. run \in [0 .. 8 -> Uint16] /\ run[0] = start
  BY <1>4 DEF Runs
<1>6. \A i \in 1 .. 8 : run[i - 1] \in Uint16 /\ run[i] = Shift(run[i - 1])
  <2> SUFFICES ASSUME NEW i \in 1 .. 8 PROVE run[i - 1] \in Uint16 /\ run[i] = Shift(run[i - 1])
    OBVIOUS
  <2>1. run[i - 1] \in Uint16
    BY <1>5
  <2>2. run[i] = step[i][run[i - 1]]
    BY <1>4 DEF Runs
  <2> QED
    BY <2>1, <2>2
<1>7. Is(run)
  BY <1>5, <1>6
<1>8. Is(shifted)
  BY <1>7
<1> HIDE DEF shifted, step
<1>9. \A i \in 0 .. 8 : shifted[i] = run[i]
  <2> DEFINE T == {n \in Nat : n <= 8 => shifted[n] = run[n]}
  <2>1. 0 \in T
    BY <1>5, <1>8
  <2>2. ASSUME NEW n \in Nat, n \in T PROVE n + 1 \in T
    BY <1>6, <1>8, <2>2
  <2>3. Nat \subseteq T
    <3> HIDE DEF T
    <3> QED
      BY <2>1, <2>2, Inductive
  <2> QED
    BY <2>3
<1>10. shifted = run
  BY <1>5, <1>8, <1>9
<1> QED
  BY <1>1, <1>5, <1>6, <1>10 DEF start

\* The middle of a part lies in it.
LEMMA Middle ==
  ASSUME NEW a \in Nat, NEW b \in Nat
  PROVE  /\ (a + b) \div 2 \in Nat
         /\ a < b => a <= (a + b) \div 2 /\ (a + b) \div 2 < b
         /\ b < a => b <= (a + b) \div 2 /\ (a + b) \div 2 < a
  OBVIOUS

\* The values a loop over a sequence goes through.
Processes(run, round, data, initial) ==
  /\ run \in [0 .. Len(data) -> Uint16]
  /\ run[0] = initial
  /\ \A i \in 1 .. Len(data) : run[i] = round[data[i]][run[i - 1]]
  /\ InOrder(round, data, initial) = run[Len(data)]

\* A loop over a sequence by halves is the loop.
LEMMA InOrderRuns ==
  ASSUME NEW T, NEW data \in Seq(T), data # <<>>, NEW round \in [T -> [Uint16 -> Uint16]],
         NEW initial \in Uint16
  PROVE  \E run : Processes(run, round, data, initial)
<1> DEFINE L == Len(data)
           Part == [first : DOMAIN data, last : DOMAIN data, value : Uint16]
           Of(a, b, v) == [first |-> a, last |-> b, value |-> v]
           Goes(f, part) ==
             LET middle == (part.first + part.last) \div 2
                 half == f[[first |-> part.first, last |-> middle, value |-> part.value]]
             IN  IF part.first = part.last
                 THEN round[data[part.first]][part.value]
                 ELSE f[[first |-> middle + 1, last |-> part.last, value |-> half]]
           Is(f) == f = [part \in Part |-> Goes(f, part)]
           over == CHOOSE f : Is(f)
           step(a) == [i \in 1 .. L |-> IF i < a THEN [v \in Uint16 |-> v] ELSE round[data[i]]]
           path(a, v) == CHOOSE run : Runs(Uint16, L, v, step(a), run)
           way == [part \in Part |-> path(part.first, part.value)[part.last]]
<1>1. InOrder(round, data, initial) = over[Of(1, L, initial)]
  BY DEF InOrder
<1>2. L \in Nat \ {0} /\ DOMAIN data = 1 .. L /\ \A i \in 1 .. L : data[i] \in T
  BY EmptySeq
<1> HIDE DEF L
<1>3. \A a \in Nat : step(a) \in [1 .. L -> [Uint16 -> Uint16]]
  BY <1>2
<1>4. \A a \in Nat, v \in Uint16 : Runs(Uint16, L, v, step(a), path(a, v))
  <2> SUFFICES ASSUME NEW a \in Nat, NEW v \in Uint16 PROVE Runs(Uint16, L, v, step(a), path(a, v))
    OBVIOUS
  <2>1. step(a) \in [1 .. L -> [Uint16 -> Uint16]] /\ L \in Nat
    BY <1>2, <1>3
  <2> HIDE DEF step
  <2>2. \E run : Runs(Uint16, L, v, step(a), run)
    BY <2>1, LoopRuns
  <2> QED
    BY <2>2
<1> HIDE DEF path
<1>5. ASSUME NEW a \in Nat, NEW v \in Uint16
      PROVE  /\ path(a, v) \in [0 .. L -> Uint16] /\ path(a, v)[0] = v
             /\ \A i \in 1 .. L : /\ i < a => path(a, v)[i] = path(a, v)[i - 1]
                                  /\ i >= a => path(a, v)[i] = round[data[i]][path(a, v)[i - 1]]
  <2>1. /\ path(a, v) \in [0 .. L -> Uint16] /\ path(a, v)[0] = v
        /\ \A i \in 1 .. L : path(a, v)[i] = step(a)[i][path(a, v)[i - 1]]
    <3> HIDE DEF step
    <3> QED
      BY <1>4 DEF Runs
  <2>2. \A i \in 1 .. L : i - 1 \in 0 .. L
    BY <1>2
  <2>3. ASSUME NEW i \in 1 .. L, i < a PROVE path(a, v)[i] = path(a, v)[i - 1]
    BY <2>1, <2>2, <2>3
  <2>4. ASSUME NEW i \in 1 .. L, i >= a PROVE path(a, v)[i] = round[data[i]][path(a, v)[i - 1]]
    <3>1. ~(i < a)
      BY <2>4
    <3> QED
      BY <2>1, <3>1
  <2> QED
    BY <2>1, <2>3, <2>4
<1> HIDE DEF step
<1>6. ASSUME NEW a \in Nat, NEW v \in Uint16, NEW i \in 0 .. L, i < a PROVE path(a, v)[i] = v
  <2> DEFINE R == {n \in Nat : n <= L /\ n < a => path(a, v)[n] = v}
  <2>1. 0 \in R
    BY <1>5
  <2>2. ASSUME NEW n \in Nat, n \in R PROVE n + 1 \in R
    <3> SUFFICES ASSUME n + 1 <= L, n + 1 < a PROVE path(a, v)[n + 1] = v
      OBVIOUS
    <3>1. n + 1 \in 1 .. L /\ (n + 1) - 1 = n /\ n <= L /\ n < a
      BY <1>2
    <3>2. path(a, v)[n + 1] = path(a, v)[n]
      BY <1>5, <3>1
    <3> QED
      BY <2>2, <3>1, <3>2
  <2>3. Nat \subseteq R
    <3> HIDE DEF R
    <3> QED
      BY <2>1, <2>2, Inductive
  <2> QED
    BY <1>2, <1>6, <2>3
<1>7. ASSUME NEW a \in Nat, NEW v \in Uint16, NEW b \in 0 .. L, NEW i \in 0 .. L, a <= b + 1, b <= i
      PROVE  path(b + 1, path(a, v)[b])[i] = path(a, v)[i]
  <2> DEFINE w == path(a, v)[b]
             R == {n \in Nat : b + n <= L => path(b + 1, w)[b + n] = path(a, v)[b + n]}
  <2>1. b \in Nat /\ b + 1 \in Nat /\ w \in Uint16
    <3>1. path(a, v) \in [0 .. L -> Uint16]
      BY <1>5
    <3> QED
      BY <1>2, <3>1
  <2>2. 0 \in R
    <3>1. path(b + 1, w)[b] = w
      BY <1>6, <2>1
    <3> QED
      BY <2>1, <3>1
  <2> HIDE DEF w
  <2>3. ASSUME NEW n \in Nat, n \in R PROVE n + 1 \in R
    <3> DEFINE m == b + n
    <3> SUFFICES ASSUME b + (n + 1) <= L PROVE path(b + 1, w)[b + (n + 1)] = path(a, v)[b + (n + 1)]
      OBVIOUS
    <3>1. b + (n + 1) = m + 1 /\ m + 1 \in 1 .. L /\ (m + 1) - 1 = m /\ m <= L /\ m + 1 >= a /\ m + 1 >= b + 1
      BY <1>2, <1>7, <2>1
    <3>2. path(b + 1, w)[m] = path(a, v)[m]
      BY <2>3, <3>1
    <3> HIDE DEF m
    <3>3. path(b + 1, w)[m + 1] = round[data[m + 1]][path(b + 1, w)[m]]
      BY <1>5, <2>1, <3>1
    <3>4. path(a, v)[m + 1] = round[data[m + 1]][path(a, v)[m]]
      BY <1>5, <3>1
    <3> QED
      BY <3>1, <3>2, <3>3, <3>4
  <2>4. Nat \subseteq R
    <3> HIDE DEF R
    <3> QED
      BY <2>2, <2>3, Inductive
  <2>5. i - b \in Nat /\ b + (i - b) = i /\ i <= L
    BY <1>2, <1>7
  <2>6. path(b + 1, w)[i] = path(a, v)[i]
    BY <2>4, <2>5
  <2> QED
    BY <2>6 DEF w
<1>8. ASSUME NEW a \in 1 .. L, NEW b \in 1 .. L, a # b
      PROVE  LET middle == (a + b) \div 2
             IN  /\ middle \in 1 .. L /\ middle + 1 \in 1 .. L
                 /\ a < b => a <= middle /\ middle < b
                 /\ b < a => b <= middle /\ middle < a
  BY <1>2, <1>8, Middle
<1>9. \A a, b \in 1 .. L, v \in Uint16 : Of(a, b, v) \in Part /\ way[Of(a, b, v)] = path(a, v)[b]
  BY <1>2
<1>10. Is(way)
  <2> SUFFICES ASSUME NEW part \in Part PROVE way[part] = Goes(way, part)
    OBVIOUS
  <2>1. PICK a \in 1 .. L, b \in 1 .. L, v \in Uint16 : part = Of(a, b, v)
    BY <1>2
  <2>2. way[part] = path(a, v)[b]
    BY <1>9, <2>1
  <2>3. part.first = a /\ part.last = b /\ part.value = v
    BY <2>1
  <2>4. CASE a = b
    <3>1. a \in Nat /\ a - 1 \in 0 .. L /\ a - 1 < a
      BY <1>2
    <3>2. path(a, v)[a] = round[data[a]][v]
      <4>1. path(a, v)[a - 1] = v
        BY <1>6, <3>1
      <4>2. path(a, v)[a] = round[data[a]][path(a, v)[a - 1]]
        BY <1>5, <3>1
      <4> QED
        BY <4>1, <4>2
    <3> QED
      BY <2>2, <2>3, <2>4, <3>2
  <2>5. CASE a # b
    <3> DEFINE middle == (a + b) \div 2
               half == path(a, v)[middle]
    <3>1. /\ middle \in 1 .. L /\ middle + 1 \in 1 .. L
          /\ a < b => a <= middle /\ middle < b
          /\ b < a => b <= middle /\ middle < a
      BY <1>8, <2>5
    <3> HIDE DEF middle, way
    <3>2. a \in Nat /\ half \in Uint16 /\ way[Of(a, middle, v)] = half
      <4>1. a \in Nat /\ middle \in 0 .. L
        BY <1>2, <3>1
      <4>2. path(a, v) \in [0 .. L -> Uint16]
        BY <1>5, <4>1
      <4>3. way[Of(a, middle, v)] = half
        BY <1>9, <3>1
      <4> QED
        BY <4>1, <4>2, <4>3
    <3>3. Goes(way, part) = way[Of(middle + 1, b, half)]
      BY <2>3, <2>5, <3>2 DEF middle
    <3>4. way[Of(middle + 1, b, half)] = path(middle + 1, half)[b]
      BY <1>9, <3>1, <3>2
    <3>5. CASE a < b
      <4>1. middle \in 0 .. L /\ b \in 0 .. L /\ a <= middle + 1 /\ middle <= b
        BY <1>2, <3>1, <3>5
      <4>2. path(middle + 1, half)[b] = path(a, v)[b]
        BY <1>7, <3>2, <4>1
      <4> QED
        BY <2>2, <3>3, <3>4, <4>2
    <3>6. CASE b < a
      <4>1. middle \in 0 .. L /\ b \in 0 .. L /\ middle < a /\ b < middle + 1 /\ middle + 1 \in Nat
        BY <1>2, <3>1, <3>6
      <4>2. half = v /\ path(a, v)[b] = v
        BY <1>6, <3>2, <3>6, <4>1
      <4>3. path(middle + 1, half)[b] = half
        BY <1>6, <3>2, <4>1
      <4> QED
        BY <2>2, <3>3, <3>4, <4>2, <4>3
    <3> QED
      BY <2>5, <3>5, <3>6
  <2> QED
    BY <2>4, <2>5
<1>11. Is(over)
  <2> HIDE DEF Is, way
  <2> QED
    BY <1>10
<1> HIDE DEF over
<1>12. \A a, b \in 1 .. L, v \in Uint16 : a <= b => over[Of(a, b, v)] = path(a, v)[b]
  <2> DEFINE R == {n \in Nat : \A a, b \in 1 .. L, v \in Uint16 :
                                 a <= b /\ b - a <= n => over[Of(a, b, v)] = path(a, v)[b]}
  <2>1. ASSUME NEW a \in 1 .. L, NEW b \in 1 .. L, NEW v \in Uint16, a = b
        PROVE  over[Of(a, b, v)] = path(a, v)[b]
    <3>1. Of(a, b, v) \in Part /\ Of(a, b, v).first = a /\ Of(a, b, v).last = b /\ Of(a, b, v).value = v
      BY <1>2, SMTT(30)
    <3>2. over[Of(a, b, v)] = Goes(over, Of(a, b, v))
      BY <1>11, <3>1, Zenon
    <3>3. over[Of(a, b, v)] = round[data[a]][v]
      BY <2>1, <3>1, <3>2
    <3>4. a \in Nat /\ a - 1 \in 0 .. L /\ a - 1 < a
      BY <1>2
    <3>5. path(a, v)[a] = round[data[a]][v]
      <4>1. path(a, v)[a - 1] = v
        BY <1>6, <3>4
      <4>2. path(a, v)[a] = round[data[a]][path(a, v)[a - 1]]
        BY <1>5, <3>4
      <4> QED
        BY <4>1, <4>2
    <3> QED
      BY <2>1, <3>3, <3>5
  <2>2. 0 \in R
    <3>1. \A a, b \in 1 .. L : a <= b /\ b - a <= 0 => a = b
      BY <1>2
    <3> QED
      BY <2>1, <3>1
  <2>3. ASSUME NEW n \in Nat, n \in R PROVE n + 1 \in R
    <3> SUFFICES ASSUME NEW a \in 1 .. L, NEW b \in 1 .. L, NEW v \in Uint16, a <= b, b - a <= n + 1
        PROVE over[Of(a, b, v)] = path(a, v)[b]
      OBVIOUS
    <3>1. CASE a = b
      BY <2>1, <3>1
    <3>2. CASE a # b
      <4> DEFINE middle == (a + b) \div 2
                 half == path(a, v)[middle]
      <4>1. /\ middle \in 1 .. L /\ middle + 1 \in 1 .. L
            /\ a < b => a <= middle /\ middle < b
        BY <1>8, <3>2
      <4>2. Of(a, b, v) \in Part /\ Of(a, b, v).first = a /\ Of(a, b, v).last = b /\ Of(a, b, v).value = v
        BY <1>2, SMTT(30)
      <4>3. over[Of(a, b, v)] = Goes(over, Of(a, b, v))
        BY <1>11, <4>2, Zenon
      <4>4. over[Of(a, b, v)] = over[Of(middle + 1, b, over[Of(a, middle, v)])]
        BY <3>2, <4>2, <4>3
      <4> HIDE DEF middle
      <4>5. /\ a <= middle /\ middle - a <= n /\ middle + 1 <= b /\ b - (middle + 1) <= n
            /\ a \in Nat /\ middle \in 0 .. L /\ b \in 0 .. L /\ a <= middle + 1 /\ middle <= b
        BY <1>2, <3>2, <4>1
      <4>6. half \in Uint16
        <5>1. path(a, v) \in [0 .. L -> Uint16]
          BY <1>5, <4>5
        <5> QED
          BY <4>5, <5>1
      <4> HIDE DEF half
      <4>7. over[Of(a, middle, v)] = half
        BY <2>3, <4>1, <4>5 DEF half
      <4>8. over[Of(middle + 1, b, half)] = path(middle + 1, half)[b]
        BY <2>3, <4>1, <4>5, <4>6
      <4>9. path(middle + 1, half)[b] = path(a, v)[b]
        BY <1>7, <4>5 DEF half
      <4> QED
        BY <4>4, <4>7, <4>8, <4>9
    <3> QED
      BY <3>1, <3>2
  <2>4. Nat \subseteq R
    <3> HIDE DEF R
    <3> QED
      BY <2>2, <2>3, Inductive
  <2> SUFFICES ASSUME NEW a \in 1 .. L, NEW b \in 1 .. L, NEW v \in Uint16, a <= b
      PROVE over[Of(a, b, v)] = path(a, v)[b]
    OBVIOUS
  <2>5. b - a \in Nat /\ b - a <= b - a
    BY <1>2
  <2> QED
    BY <2>4, <2>5
<1>13. over[Of(1, L, initial)] = path(1, initial)[L]
  <2>1. 1 \in 1 .. L /\ L \in 1 .. L /\ 1 <= L
    BY <1>2
  <2> QED
    BY <1>12, <2>1
<1>14. /\ path(1, initial) \in [0 .. L -> Uint16] /\ path(1, initial)[0] = initial
       /\ \A i \in 1 .. L : path(1, initial)[i] = round[data[i]][path(1, initial)[i - 1]]
  <2>1. 1 \in Nat /\ \A i \in 1 .. L : i >= 1
    BY <1>2
  <2> QED
    BY <1>5, <2>1
<1> QED
  BY <1>1, <1>13, <1>14 DEF L, Processes
-----------------------------------------------------------------------------
(* The checksum is the mirror image of the remainder.                      *)

\* The order in which bits are added is of no importance.
LEMMA ThreeBits ==
  ASSUME NEW a \in {0, 1}, NEW b \in {0, 1}, NEW c \in {0, 1}
  PROVE  (((a + b) % 2) + c) % 2 = (((a + c) % 2) + b) % 2
  OBVIOUS

\* A bit is 0 or 1.
LEMMA BitOfWord == ASSUME NEW x \in Uint16, NEW n \in 0 .. 15 PROVE Bit(x, n) \in {0, 1}
<1>1. x \in Nat
  BY WordsAreNaturals
<1> QED
  BY <1>1, AboveFacts

\* The remainder and the register of the checksum are mirror images, but for the bits of
\* the message that the division has taken in and the checksum has not; a step of the
\* one and a round of the other keep that.
LEMMA MirrorStep ==
  ASSUME NEW r \in Uint16, NEW s \in Uint16, NEW m \in [1 .. 17 -> {0, 1}], NEW k \in 1 .. 8,
         \A q \in 1 .. 16 : Bit(r, 16 - q) = (Bit(s, q - 1) + (IF q <= k THEN 0 ELSE m[q])) % 2
  PROVE  \A q \in 1 .. 16 :
           Bit(Divide(r, m[17]), 16 - q) = (Bit(Shift(s), q - 1) + (IF q <= k - 1 THEN 0 ELSE m[q + 1])) % 2
<1> SUFFICES ASSUME NEW q \in 1 .. 16
    PROVE Bit(Divide(r, m[17]), 16 - q) = (Bit(Shift(s), q - 1) + (IF q <= k - 1 THEN 0 ELSE m[q + 1])) % 2
  OBVIOUS
<1> DEFINE taken == IF q <= k - 1 THEN 0 ELSE m[q + 1]
           flip == IF q \in {1, 14, 16} THEN Bit(s, 0) ELSE 0
<1>1. m[17] \in {0, 1} /\ taken \in {0, 1} /\ 16 - q \in 0 .. 15 /\ q - 1 \in 0 .. 15
  <2>1. 17 \in 1 .. 17 /\ q + 1 \in 1 .. 17
    OBVIOUS
  <2> QED
    BY <2>1
<1>2. Bit(r, 15) = Bit(s, 0) /\ Bit(s, 0) \in {0, 1}
  <2>1. 0 \in 0 .. 15 /\ 1 \in 1 .. 16 /\ 1 <= k /\ 16 - 1 = 15 /\ 1 - 1 = 0
    OBVIOUS
  <2>2. Bit(s, 0) \in {0, 1}
    BY <2>1, BitOfWord
  <2>3. Bit(r, 15) = (Bit(s, 0) + 0) % 2
    BY <2>1
  <2> QED
    BY <2>2, <2>3
<1>3. Bit(Divide(r, m[17]), 16 - q) = ((IF q = 16 THEN m[17] ELSE Bit(r, 16 - q - 1)) + flip) % 2
  <2>1. Bit(Divide(r, m[17]), 16 - q) = ((IF 16 - q = 0 THEN m[17] ELSE Bit(r, 16 - q - 1))
                                         + (IF 16 - q \in {0, 2, 15} THEN Bit(r, 15) ELSE 0)) % 2
    BY <1>1, DivideBits
  <2>2. (16 - q = 0 <=> q = 16) /\ (16 - q \in {0, 2, 15} <=> q \in {1, 14, 16})
    OBVIOUS
  <2> QED
    BY <1>2, <2>1, <2>2
<1>4. Bit(Shift(s), q - 1) = ((IF q = 16 THEN 0 ELSE Bit(s, q)) + flip) % 2
  <2>1. Bit(Shift(s), q - 1) = ((IF q - 1 = 15 THEN 0 ELSE Bit(s, q - 1 + 1))
                                + (IF q - 1 \in {0, 13, 15} THEN Bit(s, 0) ELSE 0)) % 2
    BY <1>1, ShiftBits
  <2>2. (q - 1 = 15 <=> q = 16) /\ (q - 1 \in {0, 13, 15} <=> q \in {1, 14, 16}) /\ q - 1 + 1 = q
    OBVIOUS
  <2> QED
    BY <2>1, <2>2
<1>5. flip \in {0, 1}
  BY <1>2
<1>6. CASE q = 16
  <2>1. taken = m[17]
    BY <1>6
  <2> HIDE DEF taken, flip
  <2>2. Bit(Divide(r, m[17]), 16 - q) = (taken + flip) % 2 /\ Bit(Shift(s), q - 1) = (0 + flip) % 2
    BY <1>3, <1>4, <1>6, <2>1
  <2>3. (((0 + flip) % 2) + taken) % 2 = (taken + flip) % 2
    BY <1>1, <1>5
  <2> QED
    BY <2>2, <2>3 DEF taken
<1>7. CASE q # 16
  <2>1. q + 1 \in 1 .. 16 /\ 16 - (q + 1) = 16 - q - 1 /\ (q + 1) - 1 = q /\ q \in 0 .. 15
    BY <1>7
  <2>2. q + 1 <= k <=> q <= k - 1
    OBVIOUS
  <2>3. Bit(r, 16 - q - 1) = (Bit(s, q) + taken) % 2
    BY <2>1, <2>2
  <2>4. Bit(s, q) \in {0, 1}
    BY <2>1, BitOfWord
  <2> HIDE DEF taken, flip
  <2>5. /\ Bit(Divide(r, m[17]), 16 - q) = (((Bit(s, q) + taken) % 2) + flip) % 2
        /\ Bit(Shift(s), q - 1) = (Bit(s, q) + flip) % 2
    BY <1>3, <1>4, <1>7, <2>3
  <2>6. (((Bit(s, q) + taken) % 2) + flip) % 2 = (((Bit(s, q) + flip) % 2) + taken) % 2
    BY <1>1, <1>5, <2>4, ThreeBits
  <2>7. Bit(Divide(r, m[17]), 16 - q) = (Bit(Shift(s), q - 1) + taken) % 2
    BY <2>5, <2>6
  <2> QED
    BY <2>7 DEF taken
<1> QED
  BY <1>6, <1>7

\* So do the eight steps and rounds that one byte takes.
LEMMA MirrorByte ==
  ASSUME NEW r \in [0 .. 8 -> Uint16], NEW crc \in Uint16, NEW byte \in Byte, NEW m \in [1 .. 24 -> {0, 1}],
         \A i \in 1 .. 8 : r[i] = Divide(r[i - 1], m[16 + i]),
         \A q \in 1 .. 8 : m[q] = Bit(byte, q - 1),
         \A q \in 1 .. 16 : Bit(r[0], 16 - q) = (Bit(crc, q - 1) + m[q]) % 2
  PROVE  /\ AddByte(crc, byte) \in Uint16
         /\ \A q \in 1 .. 16 : Bit(r[8], 16 - q) = (Bit(AddByte(crc, byte), q - 1) + m[8 + q]) % 2
<1>1. PICK s \in [0 .. 8 -> Uint16] :
        /\ s[0] = Xor(crc, byte) /\ AddByte(crc, byte) = s[8]
        /\ \A n \in 1 .. 8 : s[n] = Shift(s[n - 1])
  BY AddByteRuns
<1> DEFINE rest(i, q) == IF q <= 8 - i THEN 0 ELSE m[i + q]
           Mirrors(i) == \A q \in 1 .. 16 : Bit(r[i], 16 - q) = (Bit(s[i], q - 1) + rest(i, q)) % 2
           T == {i \in Nat : i <= 8 => Mirrors(i)}
<1>2. Mirrors(0)
  <2> SUFFICES ASSUME NEW q \in 1 .. 16 PROVE Bit(r[0], 16 - q) = (Bit(s[0], q - 1) + rest(0, q)) % 2
    OBVIOUS
  <2>1. q - 1 \in 0 .. 15 /\ q \in 1 .. 24 /\ crc \in Nat /\ byte \in Nat /\ byte \in Uint16
    BY WordsAreNaturals
  <2>2. Bit(s[0], q - 1) = (Bit(crc, q - 1) + Bit(byte, q - 1)) % 2
    BY <1>1, <2>1, XorBits
  <2>3. Bit(r[0], 16 - q) = (Bit(crc, q - 1) + m[q]) % 2
    OBVIOUS
  <2>4. Bit(crc, q - 1) \in {0, 1} /\ m[q] \in {0, 1}
    BY <2>1, BitOfWord
  <2>5. CASE q <= 8
    <3>1. m[q] = Bit(byte, q - 1) /\ rest(0, q) = 0
      BY <2>5
    <3>2. Bit(s[0], q - 1) = Bit(r[0], 16 - q)
      BY <2>2, <2>3, <3>1
    <3>3. Bit(s[0], q - 1) \in {0, 1}
      BY <2>3, <2>4, <3>2
    <3> QED
      BY <3>1, <3>2, <3>3
  <2>6. CASE ~(q <= 8)
    <3>1. rest(0, q) = m[q] /\ q - 1 \in 8 .. 15
      BY <2>6
    <3>2. Bit(byte, q - 1) = 0
      BY <2>1, <3>1, ByteBits
    <3>3. Bit(s[0], q - 1) = Bit(crc, q - 1)
      BY <2>2, <2>4, <3>2
    <3> QED
      BY <2>3, <3>1, <3>3
  <2> QED
    BY <2>5, <2>6
<1>3. ASSUME NEW i \in Nat, i + 1 <= 8, Mirrors(i) PROVE Mirrors(i + 1)
  <2> DEFINE next == [q \in 1 .. 17 |-> m[i + q]]
             k == 8 - i
  <2>1. k \in 1 .. 8 /\ i \in 0 .. 8 /\ i + 1 \in 1 .. 8 /\ (i + 1) - 1 = i
    BY <1>3
  <2>2. next \in [1 .. 17 -> {0, 1}] /\ next[17] = m[16 + (i + 1)]
    <3>1. \A q \in 1 .. 17 : i + q \in 1 .. 24
      BY <2>1
    <3>2. i + 17 = 16 + (i + 1) /\ 17 \in 1 .. 17
      OBVIOUS
    <3> QED
      BY <3>1, <3>2
  <2>3. r[i] \in Uint16 /\ s[i] \in Uint16
    BY <1>1, <2>1
  <2>4. \A q \in 1 .. 16 : Bit(r[i], 16 - q) = (Bit(s[i], q - 1) + (IF q <= k THEN 0 ELSE next[q])) % 2
    <3>1. \A q \in 1 .. 16 : next[q] = m[i + q]
      OBVIOUS
    <3> HIDE DEF next
    <3> QED
      BY <1>3, <3>1
  <2> HIDE DEF next, k
  <2>5. \A q \in 1 .. 16 :
          Bit(Divide(r[i], next[17]), 16 - q)
            = (Bit(Shift(s[i]), q - 1) + (IF q <= k - 1 THEN 0 ELSE next[q + 1])) % 2
    <3>1. k \in 1 .. 8 /\ next \in [1 .. 17 -> {0, 1}]
      BY <2>1, <2>2
    <3> QED
      BY <2>3, <2>4, <3>1, MirrorStep, Zenon
  <2>6. r[i + 1] = Divide(r[i], next[17]) /\ s[i + 1] = Shift(s[i])
    BY <1>1, <2>1, <2>2
  <2>7. \A q \in 1 .. 16 : (IF q <= k - 1 THEN 0 ELSE next[q + 1]) = rest(i + 1, q)
    <3>1. k - 1 = 8 - (i + 1) /\ \A q \in 1 .. 16 : q + 1 \in 1 .. 17 /\ i + (q + 1) = (i + 1) + q
      BY DEF k
    <3> QED
      BY <3>1 DEF next
  <2> QED
    BY <2>5, <2>6, <2>7
<1>4. Mirrors(8)
  <2>1. 0 \in T
    BY <1>2
  <2>2. ASSUME NEW i \in Nat, i \in T PROVE i + 1 \in T
    <3> HIDE DEF Mirrors
    <3>1. i + 1 <= 8 => i <= 8
      OBVIOUS
    <3> QED
      BY <1>3, <2>2, <3>1
  <2>3. Nat \subseteq T
    <3> HIDE DEF T
    <3> QED
      BY <2>1, <2>2, Inductive
  <2>4. 8 \in Nat /\ 8 <= 8
    OBVIOUS
  <2> HIDE DEF Mirrors
  <2> QED
    BY <2>3, <2>4
<1>5. \A q \in 1 .. 16 : rest(8, q) = m[8 + q]
  OBVIOUS
<1> QED
  BY <1>1, <1>4, <1>5

AllOnes == 65535

\* The first 16 bits go in one by one, complemented.
LEMMA FirstBits ==
  ASSUME NEW g \in [0 .. 16 -> Uint16], NEW m \in [1 .. 16 -> {0, 1}],
         g[0] = 0, \A n \in 1 .. 16 : g[n] = Divide(g[n - 1], 1 - m[n])
  PROVE  \A q \in 1 .. 16 : Bit(g[16], 16 - q) = (Bit(AllOnes, q - 1) + m[q]) % 2
<1> DEFINE Holds(n) == \A p \in 0 .. 15 : Bit(g[n], p) = IF p < n THEN 1 - m[n - p] ELSE 0
           T == {n \in Nat : n <= 16 => Holds(n)}
<1>1. Holds(0)
  <2>1. \A p \in 0 .. 15 : Bit(0, p) = 0
    <3> SUFFICES ASSUME NEW p \in 0 .. 15 PROVE Bit(0, p) = 0
      OBVIOUS
    <3> DEFINE power == 2^p
    <3>1. power \in Nat \ {0}
      BY Powers
    <3>2. (0 \div power) % 2 = 0
      <4> HIDE DEF power
      <4> QED
        BY <3>1
    <3> QED
      BY <3>2 DEF Bit
  <2> QED
    BY <2>1
<1>2. ASSUME NEW n \in Nat, n + 1 <= 16, Holds(n) PROVE Holds(n + 1)
  <2>1. n \in 0 .. 16 /\ n + 1 \in 1 .. 16 /\ (n + 1) - 1 = n /\ 15 \in 0 .. 15 /\ ~(15 < n)
    BY <1>2
  <2>2. g[n] \in Uint16 /\ 1 - m[n + 1] \in {0, 1} /\ g[n + 1] = Divide(g[n], 1 - m[n + 1]) /\ Bit(g[n], 15) = 0
    BY <1>2, <2>1
  <2> SUFFICES ASSUME NEW p \in 0 .. 15 PROVE Bit(g[n + 1], p) = IF p < n + 1 THEN 1 - m[n + 1 - p] ELSE 0
    OBVIOUS
  <2> DEFINE b == 1 - m[n + 1]
             lower == IF p = 0 THEN b ELSE Bit(g[n], p - 1)
  <2>3. Bit(g[n + 1], p) = (lower + 0) % 2
    <3>1. Bit(Divide(g[n], b), p) = (lower + (IF p \in {0, 2, 15} THEN Bit(g[n], 15) ELSE 0)) % 2
      <4> HIDE DEF b
      <4> QED
        BY <2>2, DivideBits DEF b
    <3> HIDE DEF b, lower
    <3> QED
      BY <2>2, <3>1 DEF b
  <2>4. lower = IF p < n + 1 THEN 1 - m[n + 1 - p] ELSE 0
    <3>1. CASE p = 0
      BY <2>1, <3>1
    <3>2. CASE p # 0
      <4>1. p - 1 \in 0 .. 15 /\ (p - 1 < n <=> p < n + 1) /\ n - (p - 1) = n + 1 - p
        BY <3>2
      <4> QED
        BY <1>2, <3>2, <4>1
    <3> QED
      BY <3>1, <3>2
  <2>5. lower \in {0, 1}
    <3>1. p < n + 1 => n + 1 - p \in 1 .. 16
      BY <2>1
    <3> HIDE DEF lower
    <3> QED
      BY <2>4, <3>1
  <2> HIDE DEF lower
  <2> QED
    BY <2>3, <2>4, <2>5
<1>3. Holds(16)
  <2>1. 0 \in T
    BY <1>1
  <2>2. ASSUME NEW n \in Nat, n \in T PROVE n + 1 \in T
    <3> HIDE DEF Holds
    <3>1. n + 1 <= 16 => n <= 16
      OBVIOUS
    <3> QED
      BY <1>2, <2>2, <3>1
  <2>3. Nat \subseteq T
    <3> HIDE DEF T
    <3> QED
      BY <2>1, <2>2, Inductive
  <2>4. 16 \in Nat /\ 16 <= 16
    OBVIOUS
  <2> HIDE DEF Holds
  <2> QED
    BY <2>3, <2>4
<1> SUFFICES ASSUME NEW q \in 1 .. 16 PROVE Bit(g[16], 16 - q) = (Bit(AllOnes, q - 1) + m[q]) % 2
  OBVIOUS
<1>4. 16 - q \in 0 .. 15 /\ 16 - q < 16 /\ 16 - (16 - q) = q /\ q - 1 \in 0 .. 15
  OBVIOUS
<1>5. Bit(g[16], 16 - q) = 1 - m[q]
  BY <1>3, <1>4
<1>6. Bit(AllOnes, q - 1) = 1
  BY <1>4, Constants DEF AllOnes
<1>7. m[q] \in {0, 1} /\ (1 + m[q]) % 2 = 1 - m[q]
  OBVIOUS
<1> HIDE DEF Holds
<1> DEFINE ones == Bit(AllOnes, q - 1)
<1>8. ones = 1
  BY <1>6
<1> HIDE DEF ones
<1>9. Bit(g[16], 16 - q) = (ones + m[q]) % 2
  BY <1>5, <1>7, <1>8
<1> QED
  BY <1>9 DEF ones

\* The n-th bit that is sent, the lowest bit of a byte first.
StreamBit(bytes, n) == Bit(bytes[((n - 1) \div 8) + 1], (n - 1) % 8)

\* Where a bit of a byte is in the stream, and which bit of which byte is there.
LEMMA Octets ==
  ASSUME NEW j \in Nat, NEW q \in 1 .. 8
  PROVE  (8 * j + q - 1) \div 8 = j /\ (8 * j + q - 1) % 8 = q - 1
  OBVIOUS

\* The converse.
LEMMA InOctets ==
  ASSUME NEW n \in Nat \ {0}
  PROVE  /\ (n - 1) \div 8 \in Nat /\ (n - 1) % 8 \in 0 .. 7
         /\ \A L \in Nat : n <= 8 * L => ((n - 1) \div 8) + 1 \in 1 .. L
  OBVIOUS

\* The stream is made of the bits of the bytes.
LEMMA StreamFacts ==
  ASSUME NEW bytes \in Seq(Byte)
  PROVE  /\ \A n \in 1 .. 8 * Len(bytes) : StreamBit(bytes, n) \in {0, 1}
         /\ \A j \in 0 .. Len(bytes) - 1, q \in 1 .. 8 :
              StreamBit(bytes, 8 * j + q) = Bit(bytes[j + 1], q - 1) /\ 8 * j + q \in 1 .. 8 * Len(bytes)
<1> DEFINE L == Len(bytes)
<1>1. L \in Nat /\ \A i \in 1 .. L : bytes[i] \in Byte
  OBVIOUS
<1> HIDE DEF L
<1>2. ASSUME NEW n \in 1 .. 8 * L PROVE StreamBit(bytes, n) \in {0, 1}
  <2> DEFINE i == ((n - 1) \div 8) + 1
             p == (n - 1) % 8
  <2>1. i \in 1 .. L /\ p \in 0 .. 7
    BY <1>1, InOctets
  <2>2. bytes[i] \in Uint16 /\ p \in 0 .. 15
    <3> HIDE DEF i, p
    <3>1. bytes[i] \in Byte
      BY <1>1, <2>1
    <3> QED
      BY <2>1, <3>1, WordsAreNaturals
  <2>3. Bit(bytes[i], p) \in {0, 1}
    <3> HIDE DEF i, p
    <3> QED
      BY <2>2, BitOfWord
  <2> QED
    BY <2>3 DEF StreamBit
<1>3. ASSUME NEW j \in 0 .. L - 1, NEW q \in 1 .. 8
      PROVE  StreamBit(bytes, 8 * j + q) = Bit(bytes[j + 1], q - 1) /\ 8 * j + q \in 1 .. 8 * L
  <2>1. j \in Nat /\ 8 * j + q \in 1 .. 8 * L
    BY <1>1
  <2>2. (8 * j + q - 1) \div 8 = j /\ (8 * j + q - 1) % 8 = q - 1
    BY <2>1, Octets
  <2> QED
    BY <2>1, <2>2 DEF StreamBit
<1> QED
  BY <1>2, <1>3 DEF L

\* The message as it is divided.
Dividend(bytes, n) == IF n <= 16 THEN 1 - StreamBit(bytes, n) ELSE StreamBit(bytes, n)

\* The division is a loop over the stream.
LEMMA RemainderRuns ==
  ASSUME NEW bytes \in Seq(Byte), bytes # <<>>
  PROVE  \E g \in [0 .. 8 * Len(bytes) -> Uint16] :
           /\ g[0] = 0 /\ Remainder(Bits(bytes)) = g[8 * Len(bytes)]
           /\ \A n \in 1 .. 8 * Len(bytes) :
                Dividend(bytes, n) \in {0, 1} /\ g[n] = Divide(g[n - 1], Dividend(bytes, n))
<1> DEFINE L == Len(bytes)
           N == 8 * L
           round == [bit \in {0, 1} |-> [r \in Uint16 |-> Divide(r, bit)]]
<1>1. L \in Nat \ {0}
  BY EmptySeq
<1>2. Bits(bytes) = [n \in 1 .. N |-> Dividend(bytes, n)]
  BY DEF Bits, Dividend, StreamBit
<1>3. \A n \in 1 .. N : Dividend(bytes, n) \in {0, 1}
  <2> SUFFICES ASSUME NEW n \in 1 .. N PROVE Dividend(bytes, n) \in {0, 1}
    OBVIOUS
  <2>1. StreamBit(bytes, n) \in {0, 1}
    BY StreamFacts
  <2> QED
    BY <2>1 DEF Dividend
<1> HIDE DEF L
<1>4. N \in Nat \ {0}
  BY <1>1
<1> HIDE DEF N
<1>5. Bits(bytes) \in Seq({0, 1}) /\ Len(Bits(bytes)) = N /\ Bits(bytes) # <<>>
  BY <1>2, <1>3, <1>4
<1>6. round \in [{0, 1} -> [Uint16 -> Uint16]] /\ 0 \in Uint16
  BY DivideBits, WordsAreNaturals
<1>7. Remainder(Bits(bytes)) = InOrder(round, Bits(bytes), 0)
  BY DEF Remainder
<1>8. \A bit \in {0, 1}, r \in Uint16 : round[bit][r] = Divide(r, bit)
  OBVIOUS
<1> DEFINE bits == Bits(bytes)
<1>9. bits \in Seq({0, 1}) /\ Len(bits) = N /\ bits # <<>> /\ \A n \in 1 .. N : bits[n] = Dividend(bytes, n)
  BY <1>2, <1>5
<1> HIDE DEF round, bits
<1>10. PICK g \in [0 .. N -> Uint16] :
        /\ g[0] = 0 /\ InOrder(round, bits, 0) = g[N]
        /\ \A n \in 1 .. N : g[n] = round[bits[n]][g[n - 1]]
  <2>1. PICK run : Processes(run, round, bits, 0)
    BY <1>6, <1>9, InOrderRuns
  <2> QED
    BY <1>9, <2>1 DEF Processes
<1>11. \A n \in 1 .. N : g[n - 1] \in Uint16
  BY <1>4
<1>12. ASSUME NEW n \in 1 .. N PROVE g[n] = Divide(g[n - 1], Dividend(bytes, n))
  <2>1. bits[n] = Dividend(bytes, n) /\ Dividend(bytes, n) \in {0, 1}
    BY <1>3, <1>9
  <2>2. g[n] = round[bits[n]][g[n - 1]] /\ g[n - 1] \in Uint16
    BY <1>10, <1>11
  <2> QED
    BY <1>8, <2>1, <2>2, Zenon
<1>13. Remainder(Bits(bytes)) = g[N]
  BY <1>7, <1>10 DEF bits
<1> QED
  BY <1>3, <1>10, <1>12, <1>13 DEF N, L

\* The register keeps to its 16 bits.
LEMMA AddByteIsWord == ASSUME NEW crc \in Uint16, NEW byte \in Byte PROVE AddByte(crc, byte) \in Uint16
<1>1. PICK shifted \in [0 .. 8 -> Uint16] : AddByte(crc, byte) = shifted[8]
  BY AddByteRuns
<1> QED
  BY <1>1

\* The outer loop.
LEMMA CrcRuns ==
  ASSUME NEW data \in Seq(Byte), data # <<>>
  PROVE  \E h \in [0 .. Len(data) -> Uint16] :
           /\ h[0] = AllOnes /\ ModbusCrc(data) = h[Len(data)]
           /\ \A i \in 1 .. Len(data) : h[i] = AddByte(h[i - 1], data[i])
<1> DEFINE L == Len(data)
           round == [byte \in Byte |-> [crc \in Uint16 |-> AddByte(crc, byte)]]
           all == AllOnes
<1>1. L \in Nat \ {0} /\ \A i \in 1 .. L : data[i] \in Byte
  BY EmptySeq
<1>2. ModbusCrc(data) = InOrder(round, data, all)
  BY DEF ModbusCrc, AllOnes
<1>3. all \in Uint16
  BY WordsAreNaturals DEF AllOnes
<1>4. round \in [Byte -> [Uint16 -> Uint16]]
  BY AddByteIsWord
<1>5. \A byte \in Byte, crc \in Uint16 : round[byte][crc] = AddByte(crc, byte)
  OBVIOUS
<1> HIDE DEF round, all
<1>6. PICK h : Processes(h, round, data, all)
  BY <1>3, <1>4, InOrderRuns
<1>7. h \in [0 .. L -> Uint16] /\ \A i \in 1 .. L : h[i] = round[data[i]][h[i - 1]]
  BY <1>6 DEF Processes
<1> HIDE DEF L
<1>8. \A i \in 1 .. L : h[i - 1] \in Uint16
  BY <1>1, <1>7
<1>9. \A i \in 1 .. L : h[i] = AddByte(h[i - 1], data[i])
  BY <1>1, <1>5, <1>7, <1>8
<1> QED
  BY <1>2, <1>6, <1>9 DEF L, all, Processes

\* No bit of 0 is set.
LEMMA ZeroBits == \A n \in 0 .. 15 : Bit(0, n) = 0
<1> SUFFICES ASSUME NEW p \in 0 .. 15 PROVE Bit(0, p) = 0
  OBVIOUS
<1> DEFINE power == 2^p
<1>1. power \in Nat \ {0}
  BY Powers
<1>2. (0 \div power) % 2 = 0
  <2> HIDE DEF power
  <2> QED
    BY <1>1
<1> QED
  BY <1>2 DEF Bit

\* The remainders g of a division and the registers h of a checksum.
DividesAndSums(bytes, g, h) ==
  /\ Len(bytes) >= 3
  /\ g \in [0 .. 8 * Len(bytes) -> Uint16]
  /\ g[0] = 0
  /\ \A n \in 1 .. 8 * Len(bytes) : g[n] = Divide(g[n - 1], Dividend(bytes, n))
  /\ h \in [0 .. Len(bytes) - 2 -> Uint16]
  /\ h[0] = AllOnes
  /\ \A i \in 1 .. Len(bytes) - 2 : h[i] = AddByte(h[i - 1], bytes[i])

\* The checksum so far is the mirror image of the remainder 16 bits later, when the
\* division has taken in the two bytes that follow.
LEMMA Mirror ==
  ASSUME NEW bytes \in Seq(Byte), NEW g, NEW h, DividesAndSums(bytes, g, h),
         NEW j \in 0 .. Len(bytes) - 2
  PROVE  \A q \in 1 .. 16 :
           Bit(g[8 * j + 16], 16 - q) = (Bit(h[j], q - 1) + StreamBit(bytes, 8 * j + q)) % 2
<1> DEFINE L == Len(bytes)
           S(n) == StreamBit(bytes, n)
           Mirrors(k) == \A p \in 1 .. 16 :
                           Bit(g[8 * k + 16], 16 - p) = (Bit(h[k], p - 1) + S(8 * k + p)) % 2
           T == {k \in Nat : k <= L - 2 => Mirrors(k)}
<1>1. L \in Nat /\ L >= 3 /\ \A i \in 1 .. L : bytes[i] \in Byte
  BY DEF DividesAndSums
<1>2. \A n \in 1 .. 8 * L : S(n) \in {0, 1}
  BY StreamFacts
<1>3. \A k \in 0 .. L - 1, p \in 1 .. 8 : S(8 * k + p) = Bit(bytes[k + 1], p - 1)
  BY StreamFacts
<1>4. /\ g \in [0 .. 8 * L -> Uint16] /\ h \in [0 .. L - 2 -> Uint16]
      /\ \A n \in 1 .. 8 * L : g[n] = Divide(g[n - 1], IF n <= 16 THEN 1 - S(n) ELSE S(n))
      /\ \A i \in 1 .. L - 2 : h[i] = AddByte(h[i - 1], bytes[i])
      /\ g[0] = 0 /\ h[0] = AllOnes /\ j \in 0 .. L - 2
  BY DEF Dividend, DividesAndSums
<1> HIDE DEF L, S
<1>5. Mirrors(0)
  <2> DEFINE first == [n \in 0 .. 16 |-> g[n]]
             m == [n \in 1 .. 16 |-> S(n)]
  <2>1. \A n \in 0 .. 16 : n \in 0 .. 8 * L
    BY <1>1
  <2>2. \A n \in 1 .. 16 : n \in 1 .. 8 * L /\ n - 1 \in 0 .. 16 /\ n <= 16
    BY <1>1
  <2>3. first \in [0 .. 16 -> Uint16] /\ first[0] = 0 /\ m \in [1 .. 16 -> {0, 1}]
    <3>1. \A n \in 0 .. 16 : g[n] \in Uint16
      BY <1>4, <2>1
    <3>2. \A n \in 1 .. 16 : S(n) \in {0, 1}
      BY <1>2, <2>2
    <3>3. g[0] = 0 /\ 0 \in 0 .. 16
      BY <1>4
    <3> QED
      BY <3>1, <3>2, <3>3
  <2>4. \A n \in 1 .. 16 : first[n] = Divide(first[n - 1], 1 - m[n])
    <3> SUFFICES ASSUME NEW n \in 1 .. 16 PROVE first[n] = Divide(first[n - 1], 1 - m[n])
      OBVIOUS
    <3>1. n \in 1 .. 8 * L /\ n - 1 \in 0 .. 16 /\ n <= 16 /\ n \in 0 .. 16
      BY <2>2
    <3>2. g[n] = Divide(g[n - 1], 1 - S(n))
      BY <1>4, <3>1
    <3>3. first[n] = g[n] /\ first[n - 1] = g[n - 1] /\ m[n] = S(n)
      BY <3>1
    <3> HIDE DEF first, m
    <3> QED
      BY <3>2, <3>3
  <2>5. first[16] = g[16] /\ \A p \in 1 .. 16 : m[p] = S(p)
    OBVIOUS
  <2> HIDE DEF first, m
  <2>6. \A p \in 1 .. 16 : Bit(first[16], 16 - p) = (Bit(AllOnes, p - 1) + m[p]) % 2
    BY <2>3, <2>4, FirstBits
  <2>7. 8 * 0 + 16 = 16 /\ \A p \in 1 .. 16 : 8 * 0 + p = p
    OBVIOUS
  <2>8. \A p \in 1 .. 16 : Bit(g[16], 16 - p) = (Bit(h[0], p - 1) + S(p)) % 2
    BY <1>4, <2>5, <2>6
  <2> QED
    BY <2>7, <2>8
<1>6. ASSUME NEW k \in Nat, k + 1 <= L - 2, Mirrors(k) PROVE Mirrors(k + 1)
  <2> DEFINE r == [i \in 0 .. 8 |-> g[8 * k + 16 + i]]
             m == [p \in 1 .. 24 |-> S(8 * k + p)]
             byte == bytes[k + 1]
             crc == h[k]
  <2>0. L \in Nat /\ L >= 3 /\ k + 1 <= L - 2
    BY <1>1, <1>6
  <2>1. k \in 0 .. L - 1 /\ k \in 0 .. L - 2 /\ k + 1 \in 1 .. L - 2 /\ k + 1 \in 1 .. L /\ (k + 1) - 1 = k
    BY <2>0
  <2>2. \A i \in 0 .. 8 : 8 * k + 16 + i \in 0 .. 8 * L
    BY <2>0
  <2>3. \A p \in 1 .. 24 : 8 * k + p \in 1 .. 8 * L
    BY <2>0
  <2>4. r \in [0 .. 8 -> Uint16] /\ m \in [1 .. 24 -> {0, 1}] /\ byte \in Byte /\ crc \in Uint16
    BY <1>1, <1>2, <1>4, <2>1, <2>2, <2>3
  <2>5. \A i \in 1 .. 8 : r[i] = Divide(r[i - 1], m[16 + i])
    <3> SUFFICES ASSUME NEW i \in 1 .. 8 PROVE r[i] = Divide(r[i - 1], m[16 + i])
      OBVIOUS
    <3>1. /\ 8 * k + 16 + i \in 1 .. 8 * L /\ ~(8 * k + 16 + i <= 16)
          /\ 8 * k + (16 + i) = 8 * k + 16 + i /\ 8 * k + 16 + (i - 1) = 8 * k + 16 + i - 1
          /\ 16 + i \in 1 .. 24 /\ i - 1 \in 0 .. 8 /\ i \in 0 .. 8
      BY <2>0
    <3>2. g[8 * k + 16 + i] = Divide(g[8 * k + 16 + i - 1], S(8 * k + 16 + i))
      BY <1>4, <3>1
    <3>3. r[i] = g[8 * k + 16 + i] /\ r[i - 1] = g[8 * k + 16 + i - 1] /\ m[16 + i] = S(8 * k + 16 + i)
      BY <3>1
    <3> QED
      BY <3>2, <3>3
  <2>6. \A p \in 1 .. 8 : m[p] = Bit(byte, p - 1)
    <3>1. \A p \in 1 .. 8 : m[p] = S(8 * k + p)
      OBVIOUS
    <3> HIDE DEF m
    <3> QED
      BY <1>3, <2>1, <3>1
  <2>7. \A p \in 1 .. 16 : Bit(r[0], 16 - p) = (Bit(crc, p - 1) + m[p]) % 2
    <3>1. r[0] = g[8 * k + 16] /\ \A p \in 1 .. 16 : m[p] = S(8 * k + p)
      OBVIOUS
    <3> HIDE DEF r, m
    <3> QED
      BY <1>6, <3>1
  <2>8. /\ r[8] = g[8 * (k + 1) + 16] /\ \A p \in 1 .. 16 : m[8 + p] = S(8 * (k + 1) + p)
        /\ h[k + 1] = AddByte(crc, byte)
    <3>1. 8 * k + 16 + 8 = 8 * (k + 1) + 16 /\ 8 \in 0 .. 8
      OBVIOUS
    <3>2. \A p \in 1 .. 16 : 8 * k + (8 + p) = 8 * (k + 1) + p /\ 8 + p \in 1 .. 24
      OBVIOUS
    <3> QED
      BY <1>4, <2>1, <3>1, <3>2
  <2> HIDE DEF r, m, byte, crc
  <2>9. \A p \in 1 .. 16 : Bit(r[8], 16 - p) = (Bit(AddByte(crc, byte), p - 1) + m[8 + p]) % 2
    BY <2>4, <2>5, <2>6, <2>7, MirrorByte
  <2> QED
    BY <2>8, <2>9
<1>7. Nat \subseteq T
  <2> HIDE DEF Mirrors
  <2>1. 0 \in T
    BY <1>5
  <2>2. ASSUME NEW k \in Nat, k \in T PROVE k + 1 \in T
    <3>1. k + 1 <= L - 2 => k <= L - 2
      BY <1>1
    <3> QED
      BY <1>6, <2>2, <3>1
  <2> HIDE DEF T
  <2> QED
    BY <2>1, <2>2, Inductive
<1>8. Mirrors(j)
  <2> HIDE DEF Mirrors
  <2>1. j \in Nat /\ j <= L - 2
    BY <1>1, <1>4
  <2> QED
    BY <1>7, <2>1
<1> QED
  BY <1>8 DEF S

\* Two bytes and the word they are the checksum of.
LEMMA CrcBytes ==
  ASSUME NEW low \in Byte, NEW high \in Byte, NEW word \in Nat
  PROVE  low = word % 256 /\ high = word \div 256 <=> word = 256 * high + low
  BY DEF Byte

\* Whatever the bytes are, hasValidModbusCrc, which compares their last two with what the
\* loop of modbusCrc computes, says whether they are what MODBUS calls a valid frame.
THEOREM ValidIsCodeword ==
  ASSUME NEW bytes \in Seq(Byte), Len(bytes) >= 3
  PROVE  HasValidCrc(bytes) <=> IsCodeword(bytes)
<1> DEFINE L == Len(bytes)
           body == SubSeq(bytes, 1, L - 2)
           S(n) == StreamBit(bytes, n)
<1>1. L \in Nat /\ L >= 3 /\ L - 2 \in 1 .. L /\ \A i \in 1 .. L : bytes[i] \in Byte
  OBVIOUS
<1>2. body \in Seq(Byte) /\ Len(body) = L - 2 /\ body # <<>> /\ \A i \in 1 .. L - 2 : body[i] = bytes[i]
  <2> DEFINE m == L - 2
  <2>1. m \in Int /\ 1 <= m /\ \A i \in 1 .. m : bytes[i] \in Byte
    BY <1>1
  <2> HIDE DEF m, L
  <2>2. /\ SubSeq(bytes, 1, m) \in Seq(Byte)
        /\ Len(SubSeq(bytes, 1, m)) = IF 1 <= m THEN m - 1 + 1 ELSE 0
        /\ \A i \in 1 .. m - 1 + 1 : SubSeq(bytes, 1, m)[i] = bytes[1 + i - 1]
    BY <2>1, SubSeqProperties
  <2>3. Len(SubSeq(bytes, 1, m)) = m /\ \A i \in 1 .. m : SubSeq(bytes, 1, m)[i] = bytes[i]
    BY <2>1, <2>2
  <2>4. SubSeq(bytes, 1, m) # <<>>
    BY <2>1, <2>3, EmptySeq
  <2> QED
    BY <2>2, <2>3, <2>4 DEF m
<1>3. PICK g \in [0 .. 8 * L -> Uint16] :
        /\ g[0] = 0 /\ Remainder(Bits(bytes)) = g[8 * L]
        /\ \A n \in 1 .. 8 * L : g[n] = Divide(g[n - 1], Dividend(bytes, n))
  <2>1. bytes # <<>>
    BY <1>1
  <2> QED
    BY <2>1, RemainderRuns
<1>4. PICK h \in [0 .. L - 2 -> Uint16] :
        /\ h[0] = AllOnes /\ ModbusCrc(body) = h[L - 2]
        /\ \A i \in 1 .. L - 2 : h[i] = AddByte(h[i - 1], bytes[i])
  <2> HIDE DEF body, L
  <2>1. PICK h \in [0 .. Len(body) -> Uint16] :
          /\ h[0] = AllOnes /\ ModbusCrc(body) = h[Len(body)]
          /\ \A i \in 1 .. Len(body) : h[i] = AddByte(h[i - 1], body[i])
    BY <1>2, CrcRuns
  <2> QED
    BY <1>2, <2>1
<1> DEFINE low == bytes[L - 1]
           high == bytes[L]
           word == 256 * high + low
           crc == h[L - 2]
           rest == g[8 * L]
<1>5. \A q \in 1 .. 16 : Bit(rest, 16 - q) = (Bit(crc, q - 1) + S(8 * (L - 2) + q)) % 2
  <2>1. L - 2 \in 0 .. L - 2 /\ 8 * (L - 2) + 16 = 8 * L
    BY <1>1
  <2>2. \A q \in 1 .. 16 : Bit(g[8 * (L - 2) + 16], 16 - q) = (Bit(crc, q - 1) + S(8 * (L - 2) + q)) % 2
    <3>1. DividesAndSums(bytes, g, h)
      BY <1>1, <1>3, <1>4 DEF DividesAndSums
    <3> DEFINE j == L - 2
    <3>2. j \in 0 .. Len(bytes) - 2
      BY <2>1
    <3> HIDE DEF j
    <3>3. \A q \in 1 .. 16 : Bit(g[8 * j + 16], 16 - q) = (Bit(h[j], q - 1) + StreamBit(bytes, 8 * j + q)) % 2
      BY <3>1, <3>2, Mirror
    <3> QED
      BY <3>3 DEF j
  <2> QED
    BY <2>1, <2>2
<1>6. low \in Byte /\ high \in Byte /\ crc \in Uint16 /\ rest \in Uint16
  <2>1. L - 1 \in 1 .. L /\ L \in 1 .. L /\ L - 2 \in 0 .. L - 2 /\ 8 * L \in 0 .. 8 * L
    BY <1>1
  <2> QED
    BY <1>1, <1>3, <1>4, <2>1
<1>7. \A k \in 0 .. L - 1, p \in 1 .. 8 : S(8 * k + p) = Bit(bytes[k + 1], p - 1)
  BY StreamFacts
<1> HIDE DEF S, crc, rest
<1>8. /\ word \in Uint16
      /\ \A n \in 0 .. 15 : Bit(word, n) = IF n < 8 THEN Bit(low, n) ELSE Bit(high, n - 8)
  <2> HIDE DEF low, high
  <2> QED
    BY <1>6, WordBits
<1>9. \A q \in 1 .. 16 : S(8 * (L - 2) + q) = Bit(word, q - 1)
  <2> SUFFICES ASSUME NEW q \in 1 .. 16 PROVE S(8 * (L - 2) + q) = Bit(word, q - 1)
    OBVIOUS
  <2>1. q - 1 \in 0 .. 15 /\ L - 2 \in 0 .. L - 1 /\ L - 1 \in 0 .. L - 1 /\ (L - 2) + 1 = L - 1 /\ (L - 1) + 1 = L
    BY <1>1
  <2> HIDE DEF word
  <2>2. CASE q <= 8
    <3>1. q \in 1 .. 8 /\ q - 1 < 8
      BY <2>2
    <3>2. S(8 * (L - 2) + q) = Bit(low, q - 1)
      BY <1>7, <2>1, <3>1
    <3> QED
      BY <1>8, <2>1, <3>1, <3>2
  <2>3. CASE ~(q <= 8)
    <3>1. q - 8 \in 1 .. 8 /\ ~(q - 1 < 8) /\ 8 * (L - 1) + (q - 8) = 8 * (L - 2) + q /\ (q - 8) - 1 = q - 1 - 8
      BY <1>1, <2>3
    <3>2. S(8 * (L - 1) + (q - 8)) = Bit(high, (q - 8) - 1)
      BY <1>7, <2>1, <3>1
    <3> QED
      BY <1>8, <2>1, <3>1, <3>2
  <2> QED
    BY <2>2, <2>3
<1> HIDE DEF word
<1>10. \A q \in 1 .. 16 : Bit(rest, 16 - q) = 0 <=> Bit(crc, q - 1) = Bit(word, q - 1)
  <2> SUFFICES ASSUME NEW q \in 1 .. 16 PROVE Bit(rest, 16 - q) = 0 <=> Bit(crc, q - 1) = Bit(word, q - 1)
    OBVIOUS
  <2>1. q - 1 \in 0 .. 15
    OBVIOUS
  <2>2. Bit(crc, q - 1) \in {0, 1} /\ Bit(word, q - 1) \in {0, 1}
    BY <1>6, <1>8, <2>1, BitOfWord
  <2>3. Bit(rest, 16 - q) = (Bit(crc, q - 1) + Bit(word, q - 1)) % 2
    BY <1>5, <1>9
  <2> QED
    BY <2>2, <2>3, AddedBits
<1>11. rest = 0 <=> crc = word
  <2>1. \A n \in 0 .. 15 : 16 - n \in 1 .. 16 /\ 16 - (16 - n) = n /\ n + 1 \in 1 .. 16 /\ (n + 1) - 1 = n
    OBVIOUS
  <2>2. ASSUME rest = 0 PROVE crc = word
    <3>1. \A q \in 1 .. 16 : 16 - q \in 0 .. 15
      OBVIOUS
    <3>2. \A q \in 1 .. 16 : Bit(crc, q - 1) = Bit(word, q - 1)
      BY <1>10, <2>2, <3>1, ZeroBits
    <3>3. \A n \in 0 .. 15 : Bit(crc, n) = Bit(word, n)
      BY <2>1, <3>2
    <3> QED
      BY <1>6, <1>8, <3>3, SameBits
  <2>3. ASSUME crc = word PROVE rest = 0
    <3>1. \A n \in 0 .. 15 : Bit(rest, n) = Bit(0, n)
      BY <1>10, <2>1, <2>3, ZeroBits
    <3> QED
      BY <1>6, <3>1, SameBits, WordsAreNaturals
  <2> QED
    BY <2>2, <2>3
<1>12. IsCodeword(bytes) <=> rest = 0
  BY <1>3 DEF IsCodeword, rest
<1>13. HasValidCrc(bytes) <=> low = crc % 256 /\ high = crc \div 256
  BY <1>1, <1>4 DEF HasValidCrc, crc
<1>14. low = crc % 256 /\ high = crc \div 256 <=> crc = word
  <2>1. crc \in Nat
    BY <1>6, WordsAreNaturals
  <2> HIDE DEF low, high
  <2> QED
    BY <1>6, <2>1, CrcBytes DEF word
<1> QED
  BY <1>11, <1>12, <1>13, <1>14
-----------------------------------------------------------------------------
(* Bursts.                                                                 *)

\* A flip can be undone.
LEMMA SameFlip ==
  ASSUME NEW a \in {0, 1}, NEW b \in {0, 1}, NEW c \in {0, 1}
  PROVE  (a + c) % 2 = (b + c) % 2 <=> a = b
  OBVIOUS

\* A step of the division with a given bit loses nothing.
LEMMA DivideKeepsApart ==
  ASSUME NEW r \in Uint16, NEW s \in Uint16, NEW b \in {0, 1}, Divide(r, b) = Divide(s, b)
  PROVE  r = s
<1> DEFINE flip(x, n) == IF n \in {0, 2, 15} THEN Bit(x, 15) ELSE 0
           lower(x, n) == IF n = 0 THEN b ELSE Bit(x, n - 1)
<1>1. \A x \in Uint16, n \in 0 .. 15 : Bit(Divide(x, b), n) = (lower(x, n) + flip(x, n)) % 2
  BY DivideBits
<1>2. \A x \in Uint16, n \in 0 .. 15 : Bit(x, n) \in {0, 1}
  BY BitOfWord
<1>3. \A x \in Uint16, n \in 0 .. 15 : lower(x, n) \in {0, 1} /\ flip(x, n) \in {0, 1}
  <2> SUFFICES ASSUME NEW x \in Uint16, NEW n \in 0 .. 15 PROVE lower(x, n) \in {0, 1} /\ flip(x, n) \in {0, 1}
    OBVIOUS
  <2>1. n = 0 \/ n - 1 \in 0 .. 15
    OBVIOUS
  <2>2. 15 \in 0 .. 15
    OBVIOUS
  <2> QED
    BY <1>2, <2>1, <2>2
<1>4. Bit(r, 15) = Bit(s, 15)
  <2>1. 0 \in 0 .. 15 /\ lower(r, 0) = b /\ lower(s, 0) = b /\ flip(r, 0) = Bit(r, 15) /\ flip(s, 0) = Bit(s, 15)
    OBVIOUS
  <2>2. (b + flip(r, 0)) % 2 = (b + flip(s, 0)) % 2 /\ flip(r, 0) \in {0, 1} /\ flip(s, 0) \in {0, 1}
    <3> HIDE DEF lower, flip
    <3> QED
      BY <1>1, <1>3, <2>1
  <2>3. \A u, v \in {0, 1} : (b + u) % 2 = (b + v) % 2 => u = v
    OBVIOUS
  <2> HIDE DEF lower, flip
  <2> QED
    BY <2>1, <2>2, <2>3
<1>5. ASSUME NEW n \in 0 .. 15 PROVE Bit(r, n) = Bit(s, n)
  <2>1. CASE n = 15
    BY <1>4, <2>1
  <2>2. CASE n # 15
    <3>1. n + 1 \in 0 .. 15 /\ n + 1 # 0 /\ (n + 1) - 1 = n
      BY <2>2
    <3>2. flip(r, n + 1) = flip(s, n + 1) /\ lower(r, n + 1) = Bit(r, n) /\ lower(s, n + 1) = Bit(s, n)
      BY <1>4, <3>1
    <3> HIDE DEF lower, flip
    <3>3. (lower(r, n + 1) + flip(r, n + 1)) % 2 = (lower(s, n + 1) + flip(r, n + 1)) % 2
      BY <1>1, <3>1, <3>2
    <3>4. lower(r, n + 1) = lower(s, n + 1)
      BY <1>3, <3>1, <3>3, SameFlip
    <3> QED
      BY <3>2, <3>4
  <2> QED
    BY <2>1, <2>2
<1> QED
  BY <1>5, SameBits

\* Two divisions that have come to the same remainder do so again within 16 steps only
\* if the bits they take in are the same.
LEMMA WindowKeepsApart ==
  ASSUME NEW f \in [0 .. 16 -> Uint16], NEW g \in [0 .. 16 -> Uint16],
         NEW l \in [1 .. 16 -> {0, 1}], NEW m \in [1 .. 16 -> {0, 1}],
         f[0] = g[0], f[16] = g[16],
         \A n \in 1 .. 16 : f[n] = Divide(f[n - 1], l[n]) /\ g[n] = Divide(g[n - 1], m[n])
  PROVE  l = m
<1> DEFINE Apart(n) == \A p \in 0 .. 15 : Bit(f[n], p) = Bit(g[n], p) <=> (p < n => l[n - p] = m[n - p])
           T == {n \in Nat : n <= 16 => Apart(n)}
<1>1. Apart(0)
  OBVIOUS
<1>2. ASSUME NEW n \in Nat, n + 1 <= 16, Apart(n) PROVE Apart(n + 1)
  <2>1. n \in 0 .. 16 /\ n + 1 \in 1 .. 16 /\ (n + 1) - 1 = n /\ 15 \in 0 .. 15 /\ ~(15 < n)
    BY <1>2
  <2>2. /\ f[n] \in Uint16 /\ g[n] \in Uint16 /\ l[n + 1] \in {0, 1} /\ m[n + 1] \in {0, 1}
        /\ f[n + 1] = Divide(f[n], l[n + 1]) /\ g[n + 1] = Divide(g[n], m[n + 1])
    BY <2>1
  <2>3. Bit(f[n], 15) = Bit(g[n], 15)
    BY <1>2, <2>1
  <2> SUFFICES ASSUME NEW p \in 0 .. 15
      PROVE Bit(f[n + 1], p) = Bit(g[n + 1], p) <=> (p < n + 1 => l[n + 1 - p] = m[n + 1 - p])
    OBVIOUS
  <2> DEFINE flip == IF p \in {0, 2, 15} THEN Bit(f[n], 15) ELSE 0
             one == IF p = 0 THEN l[n + 1] ELSE Bit(f[n], p - 1)
             other == IF p = 0 THEN m[n + 1] ELSE Bit(g[n], p - 1)
  <2>4. Bit(f[n + 1], p) = (one + flip) % 2
    <3>1. \A r \in Uint16, b \in {0, 1} :
            Bit(Divide(r, b), p) = ((IF p = 0 THEN b ELSE Bit(r, p - 1))
                                    + (IF p \in {0, 2, 15} THEN Bit(r, 15) ELSE 0)) % 2
      BY DivideBits
    <3>2. Bit(Divide(f[n], l[n + 1]), p) = (one + flip) % 2
      BY <2>2, <3>1
    <3> HIDE DEF one, flip
    <3> QED
      BY <2>2, <3>2
  <2>5. Bit(g[n + 1], p) = (other + flip) % 2
    <3>1. \A r \in Uint16, b \in {0, 1} :
            Bit(Divide(r, b), p) = ((IF p = 0 THEN b ELSE Bit(r, p - 1))
                                    + (IF p \in {0, 2, 15} THEN Bit(r, 15) ELSE 0)) % 2
      BY DivideBits
    <3>2. Bit(Divide(g[n], m[n + 1]), p) = (other + flip) % 2
      BY <2>2, <2>3, <3>1
    <3> HIDE DEF other, flip
    <3> QED
      BY <2>2, <3>2
  <2>6. one \in {0, 1} /\ other \in {0, 1} /\ flip \in {0, 1}
    <3>1. p = 0 \/ p - 1 \in 0 .. 15
      OBVIOUS
    <3>2. Bit(f[n], 15) \in {0, 1}
      BY <2>1, <2>2, BitOfWord
    <3>3. p # 0 => Bit(f[n], p - 1) \in {0, 1} /\ Bit(g[n], p - 1) \in {0, 1}
      BY <2>2, <3>1, BitOfWord
    <3> QED
      BY <2>2, <3>2, <3>3
  <2>7. Bit(f[n + 1], p) = Bit(g[n + 1], p) <=> one = other
    <3> HIDE DEF flip, one, other
    <3> QED
      BY <2>4, <2>5, <2>6, SameFlip
  <2>8. one = other <=> (p < n + 1 => l[n + 1 - p] = m[n + 1 - p])
    <3>1. CASE p = 0
      <4>1. n + 1 - p = n + 1 /\ p < n + 1
        BY <3>1
      <4> QED
        BY <3>1, <4>1
    <3>2. CASE p # 0
      <4>1. p - 1 \in 0 .. 15 /\ (p - 1 < n <=> p < n + 1) /\ n - (p - 1) = n + 1 - p
        BY <3>2
      <4> QED
        BY <1>2, <3>2, <4>1
    <3> QED
      BY <3>1, <3>2
  <2> HIDE DEF one, other
  <2> QED
    BY <2>7, <2>8
<1>3. Nat \subseteq T
  <2> HIDE DEF Apart
  <2>1. 0 \in T
    BY <1>1
  <2>2. ASSUME NEW n \in Nat, n \in T PROVE n + 1 \in T
    <3>1. n + 1 <= 16 => n <= 16
      OBVIOUS
    <3> QED
      BY <1>2, <2>2, <3>1
  <2> HIDE DEF T
  <2> QED
    BY <2>1, <2>2, Inductive
<1>4. Apart(16)
  <2> HIDE DEF Apart
  <2>1. 16 \in Nat /\ 16 <= 16
    OBVIOUS
  <2> QED
    BY <1>3, <2>1
<1>5. ASSUME NEW q \in 1 .. 16 PROVE l[q] = m[q]
  <2>1. 16 - q \in 0 .. 15 /\ 16 - q < 16 /\ 16 - (16 - q) = q
    OBVIOUS
  <2> QED
    BY <1>4, <2>1
<1> QED
  BY <1>5

\* Two bytes with the same bits are the same.
LEMMA SameByte ==
  ASSUME NEW x \in Byte, NEW y \in Byte, \A n \in 0 .. 7 : Bit(x, n) = Bit(y, n)
  PROVE  x = y
<1>1. x \in Uint16 /\ y \in Uint16
  BY WordsAreNaturals
<1>2. \A n \in 8 .. 15 : Bit(x, n) = 0 /\ Bit(y, n) = 0
  BY <1>1, ByteBits
<1>3. \A n \in 0 .. 15 : n \in 0 .. 7 \/ n \in 8 .. 15
  OBVIOUS
<1>4. \A n \in 0 .. 15 : Bit(x, n) = Bit(y, n)
  BY <1>2, <1>3
<1> QED
  BY <1>1, <1>4, SameBits

\* Two frames of one length that hasValidModbusCrc accepts do not differ in two adjacent
\* bytes alone: no burst within two bytes goes unnoticed.
THEOREM BurstIsDetected ==
  ASSUME NEW x \in Seq(Byte), NEW y \in Seq(Byte), Len(x) = Len(y), IsCodeword(x), IsCodeword(y),
         NEW a \in 0 .. Len(x) - 2, \A i \in 1 .. Len(x) : i # a + 1 /\ i # a + 2 => x[i] = y[i]
  PROVE  x = y
<1> DEFINE L == Len(x)
           N == 8 * L
           D(n) == Dividend(x, n)
           E(n) == Dividend(y, n)
           from == 8 * a
           till == 8 * a + 16
<1>1. /\ L \in Nat /\ L >= 2 /\ Len(y) = L /\ a \in 0 .. L - 2
      /\ \A i \in 1 .. L : x[i] \in Byte /\ y[i] \in Byte
      /\ \A i \in 1 .. L : i # a + 1 /\ i # a + 2 => x[i] = y[i]
  OBVIOUS
<1>2. PICK f \in [0 .. N -> Uint16] :
        f[0] = 0 /\ f[N] = 0 /\ \A n \in 1 .. N : D(n) \in {0, 1} /\ f[n] = Divide(f[n - 1], D(n))
  <2>1. x # <<>>
    BY <1>1
  <2>2. PICK f \in [0 .. 8 * Len(x) -> Uint16] :
          /\ f[0] = 0 /\ Remainder(Bits(x)) = f[8 * Len(x)]
          /\ \A n \in 1 .. 8 * Len(x) :
               Dividend(x, n) \in {0, 1} /\ f[n] = Divide(f[n - 1], Dividend(x, n))
    BY <2>1, RemainderRuns
  <2> QED
    BY <2>2 DEF IsCodeword
<1>3. PICK g \in [0 .. N -> Uint16] :
        g[0] = 0 /\ g[N] = 0 /\ \A n \in 1 .. N : E(n) \in {0, 1} /\ g[n] = Divide(g[n - 1], E(n))
  <2>1. y # <<>>
    BY <1>1
  <2>2. PICK g \in [0 .. 8 * Len(y) -> Uint16] :
          /\ g[0] = 0 /\ Remainder(Bits(y)) = g[8 * Len(y)]
          /\ \A n \in 1 .. 8 * Len(y) :
               Dividend(y, n) \in {0, 1} /\ g[n] = Divide(g[n - 1], Dividend(y, n))
    BY <2>1, RemainderRuns
  <2> QED
    BY <2>2 DEF IsCodeword
<1>4. \A n \in 1 .. N : n <= from \/ n > till => D(n) = E(n)
  <2> SUFFICES ASSUME NEW n \in 1 .. N, n <= from \/ n > till PROVE D(n) = E(n)
    OBVIOUS
  <2> DEFINE i == ((n - 1) \div 8) + 1
  <2>1. i \in 1 .. L /\ i # a + 1 /\ i # a + 2
    <3>1. n \in Nat \ {0} /\ n <= 8 * L
      BY <1>1
    <3>2. i \in 1 .. L
      BY <1>1, <3>1, InOctets
    <3>3. \A j \in Nat : (n - 1) \div 8 = j => 8 * j + 1 <= n /\ n <= 8 * j + 8
      BY <3>1
    <3>4. a \in Nat /\ a + 1 \in Nat
      BY <1>1
    <3>5. (n - 1) \div 8 # a /\ (n - 1) \div 8 # a + 1
      BY <3>1, <3>3, <3>4
    <3>6. (n - 1) \div 8 \in Nat
      BY <3>1, InOctets
    <3> HIDE DEF D, E, L
    <3> QED
      BY <3>2, <3>4, <3>5, <3>6
  <2>2. x[i] = y[i]
    <3> HIDE DEF i, L
    <3> QED
      BY <1>1, <2>1
  <2> QED
    BY <2>2 DEF Dividend, StreamBit
<1>5. ASSUME \A n \in 1 .. N : D(n) = E(n) PROVE x = y
  <2>1. \A n \in 1 .. N : StreamBit(x, n) = StreamBit(y, n)
    <3> SUFFICES ASSUME NEW n \in 1 .. N PROVE StreamBit(x, n) = StreamBit(y, n)
      OBVIOUS
    <3>1. StreamBit(x, n) \in {0, 1} /\ StreamBit(y, n) \in {0, 1}
      BY StreamFacts
    <3>2. D(n) = E(n)
      BY <1>5
    <3> QED
      BY <3>1, <3>2 DEF Dividend
  <2>2. ASSUME NEW i \in 1 .. L PROVE x[i] = y[i]
    <3>1. i - 1 \in 0 .. L - 1 /\ (i - 1) + 1 = i
      BY <1>1
    <3>2. ASSUME NEW p \in 0 .. 7 PROVE Bit(x[i], p) = Bit(y[i], p)
      <4>1. p + 1 \in 1 .. 8 /\ (p + 1) - 1 = p
        OBVIOUS
      <4>2. /\ StreamBit(x, 8 * (i - 1) + (p + 1)) = Bit(x[i], p)
            /\ 8 * (i - 1) + (p + 1) \in 1 .. N
        BY <3>1, <4>1, StreamFacts
      <4>3. StreamBit(y, 8 * (i - 1) + (p + 1)) = Bit(y[i], p)
        <5>1. i - 1 \in 0 .. Len(y) - 1
          BY <1>1, <3>1
        <5> QED
          BY <3>1, <4>1, <5>1, StreamFacts
      <4> QED
        BY <2>1, <4>2, <4>3
    <3> QED
      BY <1>1, <3>2, SameByte
  <2> QED
    BY <1>1, <2>2, SeqEqual
<1> HIDE DEF D, E, L
<1>6. N \in Nat /\ from \in 0 .. N /\ till \in 0 .. N /\ till = from + 16
  BY <1>1
<1> HIDE DEF N, from, till
<1>7. f[from] = g[from]
  <2> DEFINE T == {n \in Nat : n <= from => f[n] = g[n]}
  <2>1. 0 \in T
    BY <1>2, <1>3
  <2>2. ASSUME NEW n \in Nat, n \in T PROVE n + 1 \in T
    <3> SUFFICES ASSUME n + 1 <= from PROVE f[n + 1] = g[n + 1]
      OBVIOUS
    <3>1. n + 1 \in 1 .. N /\ (n + 1) - 1 = n /\ n <= from
      BY <1>6
    <3>2. f[n + 1] = Divide(f[n], D(n + 1)) /\ g[n + 1] = Divide(g[n], E(n + 1)) /\ D(n + 1) = E(n + 1)
      BY <1>2, <1>3, <1>4, <3>1
    <3> QED
      BY <2>2, <3>1, <3>2
  <2>3. Nat \subseteq T
    <3> HIDE DEF T
    <3> QED
      BY <2>1, <2>2, Inductive
  <2> QED
    BY <1>6, <2>3
<1>8. f[till] = g[till]
  <2> DEFINE T == {k \in Nat : k <= N - till => f[N - k] = g[N - k]}
  <2>1. 0 \in T
    BY <1>2, <1>3, <1>6
  <2>2. ASSUME NEW k \in Nat, k \in T PROVE k + 1 \in T
    <3> SUFFICES ASSUME k + 1 <= N - till PROVE f[N - (k + 1)] = g[N - (k + 1)]
      OBVIOUS
    <3> DEFINE n == N - k
    <3>1. n \in 1 .. N /\ n > till /\ n - 1 = N - (k + 1) /\ n - 1 \in 0 .. N /\ k <= N - till
      BY <1>6
    <3>2. f[n] = g[n]
      BY <2>2, <3>1
    <3> HIDE DEF n
    <3>3. /\ f[n] = Divide(f[n - 1], D(n)) /\ g[n] = Divide(g[n - 1], E(n)) /\ D(n) = E(n) /\ D(n) \in {0, 1}
          /\ f[n - 1] \in Uint16 /\ g[n - 1] \in Uint16
      BY <1>2, <1>3, <1>4, <3>1
    <3>4. Divide(f[n - 1], D(n)) = Divide(g[n - 1], D(n))
      BY <3>2, <3>3
    <3>5. f[n - 1] = g[n - 1]
      BY <3>3, <3>4, DivideKeepsApart
    <3> QED
      BY <3>1, <3>5
  <2>3. Nat \subseteq T
    <3> HIDE DEF T
    <3> QED
      BY <2>1, <2>2, Inductive
  <2>4. N - till \in Nat /\ N - (N - till) = till
    BY <1>6
  <2> QED
    BY <2>3, <2>4
<1>9. \A q \in 1 .. 16 : D(from + q) = E(from + q)
  <2> DEFINE ff == [n \in 0 .. 16 |-> f[from + n]]
             gg == [n \in 0 .. 16 |-> g[from + n]]
             l == [n \in 1 .. 16 |-> D(from + n)]
             m == [n \in 1 .. 16 |-> E(from + n)]
  <2>1. \A n \in 0 .. 16 : from + n \in 0 .. N
    BY <1>6
  <2>2. \A n \in 1 .. 16 : from + n \in 1 .. N /\ (from + n) - 1 = from + (n - 1) /\ n - 1 \in 0 .. 16
    BY <1>6
  <2>3. ff \in [0 .. 16 -> Uint16] /\ gg \in [0 .. 16 -> Uint16]
    <3>1. \A n \in 0 .. 16 : f[from + n] \in Uint16 /\ g[from + n] \in Uint16
      BY <2>1
    <3> QED
      BY <3>1
  <2>4. l \in [1 .. 16 -> {0, 1}] /\ m \in [1 .. 16 -> {0, 1}]
    <3>1. \A n \in 1 .. 16 : D(from + n) \in {0, 1} /\ E(from + n) \in {0, 1}
      BY <1>2, <1>3, <2>2
    <3> QED
      BY <3>1
  <2>5. ff[0] = gg[0] /\ ff[16] = gg[16]
    BY <1>6, <1>7, <1>8
  <2>6. \A n \in 1 .. 16 : ff[n] = Divide(ff[n - 1], l[n]) /\ gg[n] = Divide(gg[n - 1], m[n])
    <3> SUFFICES ASSUME NEW n \in 1 .. 16
        PROVE ff[n] = Divide(ff[n - 1], l[n]) /\ gg[n] = Divide(gg[n - 1], m[n])
      OBVIOUS
    <3>1. /\ f[from + n] = Divide(f[from + (n - 1)], D(from + n))
          /\ g[from + n] = Divide(g[from + (n - 1)], E(from + n))
      BY <1>2, <1>3, <2>2
    <3>2. /\ ff[n] = f[from + n] /\ ff[n - 1] = f[from + (n - 1)] /\ l[n] = D(from + n)
          /\ gg[n] = g[from + n] /\ gg[n - 1] = g[from + (n - 1)] /\ m[n] = E(from + n)
      <4>1. n \in 0 .. 16 /\ n - 1 \in 0 .. 16
        OBVIOUS
      <4> QED
        BY <4>1
    <3> HIDE DEF ff, gg, l, m
    <3> QED
      BY <3>1, <3>2
  <2>7. l = m
    <3> HIDE DEF ff, gg, l, m
    <3> QED
      BY <2>3, <2>4, <2>5, <2>6, WindowKeepsApart
  <2> SUFFICES ASSUME NEW q \in 1 .. 16 PROVE D(from + q) = E(from + q)
    OBVIOUS
  <2>8. l[q] = D(from + q) /\ m[q] = E(from + q)
    OBVIOUS
  <2> HIDE DEF l, m
  <2> QED
    BY <2>7, <2>8
<1>10. \A n \in 1 .. N : D(n) = E(n)
  <2> SUFFICES ASSUME NEW n \in 1 .. N PROVE D(n) = E(n)
    OBVIOUS
  <2>1. CASE n <= from \/ n > till
    BY <1>4, <2>1
  <2>2. CASE ~(n <= from \/ n > till)
    <3>1. n - from \in 1 .. 16 /\ from + (n - from) = n
      BY <1>6, <2>2
    <3> QED
      BY <1>9, <3>1
  <2> QED
    BY <2>1, <2>2
<1> QED
  BY <1>5, <1>10

\* A byte and a mask.
LEMMA XorByte ==
  ASSUME NEW x \in Byte, NEW y \in Byte
  PROVE  Xor(x, y) \in Byte /\ (Xor(x, y) = x => y = 0)
<1>1. x \in Uint16 /\ y \in Uint16 /\ x \in Nat /\ y \in Nat /\ 0 \in Uint16
  BY WordsAreNaturals
<1>2. /\ Xor(x, y) \in Uint16
      /\ \A n \in 0 .. 15 : Bit(Xor(x, y), n) = (Bit(x, n) + Bit(y, n)) % 2
  BY <1>1, XorBits
<1>3. \A n \in 0 .. 15 : Bit(x, n) \in {0, 1} /\ Bit(y, n) \in {0, 1}
  BY <1>1, BitOfWord
<1>4. Xor(x, y) \in Byte
  <2>1. ASSUME NEW n \in 8 .. 15 PROVE Bit(Xor(x, y), n) = 0
    <3>1. n \in 0 .. 15
      OBVIOUS
    <3>2. Bit(x, n) = 0 /\ Bit(y, n) = 0
      BY <1>1, ByteBits
    <3>3. (0 + 0) % 2 = 0
      OBVIOUS
    <3> QED
      BY <1>2, <3>1, <3>2, <3>3
  <2> QED
    BY <1>2, <2>1, ByteBits
<1>5. ASSUME Xor(x, y) = x PROVE y = 0
  <2>1. ASSUME NEW n \in 0 .. 15 PROVE Bit(y, n) = 0
    <3>1. \A a \in {0, 1}, b \in {0, 1} : (a + b) % 2 = a => b = 0
      OBVIOUS
    <3>2. (Bit(x, n) + Bit(y, n)) % 2 = Bit(x, n)
      BY <1>2, <1>5
    <3> QED
      BY <1>3, <3>1, <3>2
  <2> QED
    BY <1>1, <2>1, ZeroBits, SameBits
<1> QED
  BY <1>4, <1>5
-----------------------------------------------------------------------------
(* Frames.                                                                 *)

\* A body with its checksum begins with the body and passes the comparison.
LEMMA CrcAppended ==
  ASSUME NEW S, NEW body \in Seq(S), body # <<>>
  PROVE  /\ \E T : AppendCrc(body) \in Seq(T)
         /\ Len(AppendCrc(body)) = Len(body) + 2
         /\ \A i \in 1 .. Len(body) : AppendCrc(body)[i] = body[i]
         /\ SubSeq(AppendCrc(body), 1, Len(body)) = body
         /\ HasValidCrc(AppendCrc(body))
<1> DEFINE low == ModbusCrc(body) % 256
           high == ModbusCrc(body) \div 256
           T == S \cup {low, high}
           bytes == AppendCrc(body)
<1>1. bytes = body \o <<low, high>>
  BY DEF AppendCrc
<1>2. body \in Seq(T) /\ <<low, high>> \in Seq(T)
  <2>1. body \in Seq(T)
    BY SeqMonotonic
  <2>2. low \in T /\ high \in T
    OBVIOUS
  <2> HIDE DEF T, low, high
  <2> QED
    BY <2>1, <2>2
<1>3. Len(body) \in Nat \ {0}
  BY EmptySeq
<1> HIDE DEF T, low, high, bytes
<1>4. Len(<<low, high>>) = 2 /\ <<low, high>>[1] = low /\ <<low, high>>[2] = high
  OBVIOUS
<1>5. /\ bytes \in Seq(T)
      /\ Len(bytes) = Len(body) + 2
      /\ \A i \in 1 .. Len(body) + 2 :
           bytes[i] = IF i <= Len(body) THEN body[i] ELSE <<low, high>>[i - Len(body)]
  BY <1>1, <1>2, <1>4, ConcatProperties
<1>6. \A i \in 1 .. Len(body) : bytes[i] = body[i]
  BY <1>3, <1>5
<1>7. SubSeq(bytes, 1, Len(body)) = body
  <2>1. 1 \in 1 .. Len(body) /\ Len(body) \in 1 .. Len(body)
    BY <1>3
  <2>2. SubSeq(bytes, 1, Len(body)) = SubSeq(body, 1, Len(body))
    BY <1>1, <1>2, <2>1, SubSeqOfConcat1
  <2> QED
    BY <1>2, <2>2, SubSeqFull
<1>8. HasValidCrc(bytes)
  <2>1. bytes[Len(bytes) - 1] = low /\ bytes[Len(bytes)] = high
    BY <1>3, <1>4, <1>5
  <2>2. Len(bytes) - 2 = Len(body) /\ Len(bytes) >= 3
    BY <1>3, <1>5
  <2> QED
    BY <1>7, <2>1, <2>2 DEF HasValidCrc, low, high
<1> QED
  BY <1>5, <1>6, <1>7, <1>8 DEF bytes

\* A concatenation holds what is concatenated.
LEMMA Joined ==
  ASSUME NEW S, NEW s \in Seq(S), NEW t \in Seq(S)
  PROVE  /\ s \o t \in Seq(S)
         /\ Len(s \o t) = Len(s) + Len(t)
         /\ \A i \in 1 .. Len(s) : (s \o t)[i] = s[i]
         /\ \A i \in 1 .. Len(t) : (s \o t)[Len(s) + i] = t[i]
<1> DEFINE u == s \o t
           n == Len(s)
<1>1. n \in Nat /\ Len(t) \in Nat
  OBVIOUS
<1>2. /\ u \in Seq(S)
      /\ Len(u) = n + Len(t)
      /\ \A i \in 1 .. n + Len(t) : u[i] = IF i <= n THEN s[i] ELSE t[i - n]
  BY ConcatProperties
<1> HIDE DEF u, n
<1>3. \A i \in 1 .. n : u[i] = s[i]
  BY <1>1, <1>2
<1>4. ASSUME NEW i \in 1 .. Len(t) PROVE u[n + i] = t[i]
  <2>1. n + i \in 1 .. n + Len(t) /\ ~(n + i <= n) /\ (n + i) - n = i
    BY <1>1
  <2> QED
    BY <1>2, <2>1
<1> QED
  BY <1>2, <1>3, <1>4 DEF u, n

\* The part of a sequence that agrees with another one.
LEMMA Extract ==
  ASSUME NEW S, NEW s \in Seq(S), NEW first \in Nat \ {0}, NEW last \in Nat, last <= Len(s),
         NEW t \in Seq(S), last = first + Len(t) - 1,
         \A i \in 1 .. Len(t) : s[first + i - 1] = t[i]
  PROVE  SubSeq(s, first, last) = t
<1>1. Len(t) \in Nat /\ Len(s) \in Nat
  OBVIOUS
<1>2. ASSUME NEW i \in first .. last PROVE s[i] \in S
  <2>1. i \in 1 .. Len(s)
    BY <1>1, <1>2
  <2> QED
    BY <2>1, ElementOfSeq
<1> DEFINE u == SubSeq(s, first, last)
<1>3. first \in Int /\ last \in Int
  OBVIOUS
<1>4. /\ u \in Seq(S)
      /\ Len(u) = IF first <= last THEN last - first + 1 ELSE 0
      /\ \A i \in 1 .. last - first + 1 : u[i] = s[first + i - 1]
  BY <1>2, <1>3, SubSeqProperties
<1> HIDE DEF u
<1>5. last - first + 1 = Len(t) /\ Len(u) = Len(t)
  BY <1>1, <1>4
<1>6. \A i \in 1 .. Len(u) : u[i] = t[i]
  BY <1>4, <1>5
<1>7. u = t
  BY <1>4, <1>5, <1>6, SeqEqual
<1> QED
  BY <1>7 DEF u

LEMMA DivMod ==
  ASSUME NEW n \in Nat
  PROVE  n \div 256 \in Nat /\ n % 256 \in 0 .. 255 /\ 256 * (n \div 256) + (n % 256) = n
  OBVIOUS

LEMMA QuotientSmall ==
  ASSUME NEW n \in Int, NEW q \in Int, NEW r \in Int, 0 <= r, 256 * q + r = n, n <= 65535
  PROVE  q <= 255
  OBVIOUS

LEMMA ModSmall ==
  ASSUME NEW n \in 0 .. 255
  PROVE  n % 256 = n
  OBVIOUS

LEMMA Half ==
  ASSUME NEW n \in Nat
  PROVE  n \div 2 \in Nat /\ n % 2 \in {0, 1} /\ 2 * (n \div 2) + (n % 2) = n
  OBVIOUS

TwoBytes == {pair \in Seq(Byte) : Len(pair) = 2}

LEMMA SmallSequences ==
  /\ \A pair \in TwoBytes : pair \in Seq(Byte) /\ Len(pair) = 2
  /\ \A b \in Byte : <<b>> \in Seq(Byte) /\ Len(<<b>>) = 1 /\ <<b>>[1] = b
  BY DEF TwoBytes

\* What two bytes stand for.
Word(high, low) == 256 * high + low

\* A word and the two bytes that carry it.
LEMMA Uint16Facts ==
  ASSUME NEW n \in Uint16
  PROVE  /\ Uint16Bytes(n) \in TwoBytes
         /\ Word(Uint16Bytes(n)[1], Uint16Bytes(n)[2]) = n
<1>1. n \div 256 \in Nat /\ n % 256 \in 0 .. 255 /\ 256 * (n \div 256) + (n % 256) = n
  BY DivMod DEF Uint16
<1>2. n \in Int /\ n <= 65535 /\ n \div 256 \in Int /\ n % 256 \in Int /\ 0 <= n % 256
  BY <1>1 DEF Uint16
<1>3. n \div 256 <= 255
  BY <1>1, <1>2, QuotientSmall
<1>4. n \div 256 \in 0 .. 255
  BY <1>1, <1>3
<1>5. (n \div 256) % 256 = n \div 256
  BY <1>4, ModSmall
<1> DEFINE q == n \div 256
           r == n % 256
<1>6. Uint16Bytes(n) = <<q, r>>
  BY <1>5 DEF Uint16Bytes
<1>7. q \in Byte /\ r \in Byte /\ Word(q, r) = n
  BY <1>1, <1>4 DEF Byte, Word
<1> HIDE DEF q, r
<1>8. <<q, r>> \in TwoBytes
  BY <1>7 DEF TwoBytes
<1> QED
  BY <1>6, <1>7, <1>8

\* Bytes with their checksum are bytes.
LEMMA CrcIsBytes ==
  ASSUME NEW body \in Seq(Byte), body # <<>>
  PROVE  AppendCrc(body) \in Seq(Byte)
<1> DEFINE crc == ModbusCrc(body)
<1>1. crc \in Uint16
  <2>1. PICK h \in [0 .. Len(body) -> Uint16] : crc = h[Len(body)]
    BY CrcRuns
  <2>2. Len(body) \in 0 .. Len(body)
    OBVIOUS
  <2> QED
    BY <2>1, <2>2
<1> HIDE DEF crc
<1>2. crc \div 256 \in Byte /\ crc % 256 \in Byte
  <2>1. crc \in Nat /\ crc <= 65535
    BY <1>1 DEF Uint16
  <2>2. crc \div 256 \in Nat /\ crc % 256 \in 0 .. 255 /\ 256 * (crc \div 256) + (crc % 256) = crc
    BY <2>1, DivMod
  <2>3. crc \div 256 <= 255
    BY <2>1, <2>2, QuotientSmall
  <2>4. \A n \in Nat : n <= 255 => n \in Byte
    BY DEF Byte
  <2>5. crc % 256 \in Byte
    BY <2>2, Zenon DEF Byte
  <2> QED
    BY <2>2, <2>3, <2>4, <2>5, Zenon
<1> DEFINE low == crc % 256
           high == crc \div 256
<1>3. AppendCrc(body) = body \o <<low, high>>
  BY DEF AppendCrc, crc
<1>4. low \in Byte /\ high \in Byte
  BY <1>2
<1> HIDE DEF low, high
<1>5. <<low, high>> \in Seq(Byte)
  BY <1>4
<1> QED
  BY <1>3, <1>5, Joined

\* What a constructor leaves room for.
LEMMA InRangeFacts ==
  ASSUME NEW c \in Command, InRange(c)
  PROVE  /\ c \in Constructor
         /\ c.kind \in {"read", "write", "writeMany"}
         /\ c.address \in Uint16
         /\ c.kind = "read" => c.quantity \in 1 .. 125
         /\ c.kind = "write" => c.value \in Uint16
         /\ c.kind = "writeMany" => /\ c.data \in Seq(Byte)
                                    /\ Len(c.data) \in 2 .. 247
                                    /\ Len(c.data) % 2 = 0
         /\ FunctionCode(c) = IF c.kind = "read" THEN 3 ELSE IF c.kind = "write" THEN 6 ELSE 16
<1>1. c \in Constructor
  BY FramesAssumption DEF FramesAssumption
<1>2. c.kind \in {"read", "write", "writeMany"} /\ (c.kind = "writeMany" => c.data \in Seq(Byte))
  BY <1>1 DEF Constructor
<1>3. ASSUME c.kind = "writeMany" PROVE Len(c.data) \in 2 .. 247 /\ Len(c.data) % 2 = 0
  <2>1. Len(c.data) \in Nat /\ Len(c.data) % 2 = 0 /\ Len(c.data) \div 2 \in 1 .. 123
    <3>1. Len(c.data) \in Nat
      BY <1>2, <1>3
    <3>2. Len(c.data) % 2 = 0 /\ Len(c.data) \div 2 \in 1 .. 123
      BY <1>3, Zenon DEF InRange
    <3> QED
      BY <3>1, <3>2
  <2>2. 2 * (Len(c.data) \div 2) + (Len(c.data) % 2) = Len(c.data)
    BY <2>1, Half
  <2> DEFINE n == Len(c.data)
             h == n \div 2
  <2>3. n \in Nat /\ n % 2 = 0 /\ h \in 1 .. 123 /\ 2 * h + 0 = n
    BY <2>1, <2>2
  <2> HIDE DEF n, h
  <2>4. n \in 2 .. 247
    BY <2>3
  <2> QED
    BY <2>1, <2>4 DEF n
<1>4. /\ c.address \in Uint16
      /\ c.kind = "read" => c.quantity \in 1 .. 125
      /\ c.kind = "write" => c.value \in Uint16
  BY DEF InRange
<1>5. FunctionCode(c) = IF c.kind = "read" THEN 3 ELSE IF c.kind = "write" THEN 6 ELSE 16
  BY <1>2 DEF FunctionCode
<1> QED
  BY <1>1, <1>2, <1>3, <1>4, <1>5

\* What follows a pair of bytes.
LEMMA AfterPair ==
  ASSUME NEW w \in TwoBytes, NEW t \in Seq(Byte)
  PROVE  /\ w \o t \in Seq(Byte)
         /\ Len(w \o t) = 2 + Len(t)
         /\ (w \o t)[1] = w[1]
         /\ (w \o t)[2] = w[2]
         /\ \A i \in 1 .. Len(t) : (w \o t)[2 + i] = t[i]
<1> DEFINE u == w \o t
<1>1. w \in Seq(Byte)
  BY DEF TwoBytes
<1>2. /\ u \in Seq(Byte) /\ Len(u) = Len(w) + Len(t)
      /\ \A i \in 1 .. Len(w) : u[i] = w[i]
      /\ \A i \in 1 .. Len(t) : u[Len(w) + i] = t[i]
  BY <1>1, Joined
<1> HIDE DEF u
<1>3. Len(w) = 2
  BY DEF TwoBytes
<1>4. /\ u \in Seq(Byte) /\ Len(u) = 2 + Len(t) /\ u[1] = w[1] /\ u[2] = w[2]
      /\ \A i \in 1 .. Len(t) : u[2 + i] = t[i]
  BY <1>2, <1>3
<1> QED
  BY <1>4 DEF u

\* The bytes of a request in front of its checksum.
Preamble(c) == <<1, FunctionCode(c)>> \o Payload(c)

\* Function code, address, a word, and what follows it.
Laid(code, a, w, t) == <<1, code>> \o (a \o (w \o t))

IsLaid(p, code, a, w, t) ==
  /\ p \in Seq(Byte)
  /\ Len(p) = 6 + Len(t)
  /\ p[1] = 1 /\ p[2] = code
  /\ p[3] = a[1] /\ p[4] = a[2] /\ p[5] = w[1] /\ p[6] = w[2]
  /\ \A i \in 1 .. Len(t) : p[6 + i] = t[i]

LEMMA Layout ==
  ASSUME NEW code \in Byte, NEW a \in TwoBytes, NEW w \in TwoBytes, NEW t \in Seq(Byte)
  PROVE  IsLaid(Laid(code, a, w, t), code, a, w, t)
<1>1. Len(t) \in Nat
  OBVIOUS
<1> DEFINE h == <<1, code>>
           wt == w \o t
           awt == a \o wt
           all == h \o awt
<1>2. h \in TwoBytes /\ h[1] = 1 /\ h[2] = code
  BY DEF Byte, TwoBytes
<1>3. /\ wt \in Seq(Byte) /\ Len(wt) = 2 + Len(t) /\ wt[1] = w[1] /\ wt[2] = w[2]
      /\ \A i \in 1 .. Len(t) : wt[2 + i] = t[i]
  BY AfterPair
<1> HIDE DEF h, wt
<1>4. /\ awt \in Seq(Byte) /\ Len(awt) = 2 + Len(wt) /\ awt[1] = a[1] /\ awt[2] = a[2]
      /\ \A i \in 1 .. Len(wt) : awt[2 + i] = wt[i]
  BY <1>3, AfterPair
<1> HIDE DEF awt
<1>5. /\ all \in Seq(Byte) /\ Len(all) = 2 + Len(awt) /\ all[1] = h[1] /\ all[2] = h[2]
      /\ \A i \in 1 .. Len(awt) : all[2 + i] = awt[i]
  BY <1>2, <1>4, AfterPair
<1> HIDE DEF all
<1>6. Laid(code, a, w, t) = all
  BY DEF Laid, all, awt, wt, h
<1>7. Len(wt) = 2 + Len(t) /\ Len(awt) = 4 + Len(t) /\ Len(all) = 6 + Len(t)
  BY <1>1, <1>3, <1>4, <1>5
<1>8. all[3] = a[1] /\ all[4] = a[2]
  <2>1. all[2 + 1] = awt[1] /\ all[2 + 2] = awt[2]
    BY <1>1, <1>5, <1>7
  <2> QED
    BY <1>4, <2>1
<1>9. all[5] = w[1] /\ all[6] = w[2]
  <2>1. all[2 + 3] = awt[3] /\ all[2 + 4] = awt[4]
    BY <1>1, <1>5, <1>7
  <2>2. awt[2 + 1] = wt[1] /\ awt[2 + 2] = wt[2]
    BY <1>1, <1>4, <1>7
  <2> QED
    BY <1>3, <2>1, <2>2
<1>10. ASSUME NEW i \in 1 .. Len(t) PROVE all[6 + i] = t[i]
  <2>1. 2 + i \in 1 .. Len(wt) /\ 4 + i \in 1 .. Len(awt)
    BY <1>1, <1>7
  <2>2. all[2 + (4 + i)] = awt[4 + i]
    BY <1>5, <2>1
  <2>3. awt[2 + (2 + i)] = wt[2 + i]
    BY <1>4, <2>1
  <2>4. wt[2 + i] = t[i]
    BY <1>3
  <2>5. 2 + (4 + i) = 6 + i /\ 2 + (2 + i) = 4 + i
    BY <2>1
  <2> QED
    BY <2>2, <2>3, <2>4, <2>5
<1>11. all[1] = 1 /\ all[2] = code
  BY <1>2, <1>5
<1>12. IsLaid(all, code, a, w, t)
  BY <1>5, <1>7, <1>8, <1>9, <1>10, <1>11 DEF IsLaid
<1> QED
  BY <1>6, <1>12

LEMMA PreambleFacts ==
  ASSUME NEW c \in Command, InRange(c)
  PROVE  /\ Preamble(c) \in Seq(Byte)
         /\ Len(Preamble(c)) = IF c.kind = "writeMany" THEN 7 + Len(c.data) ELSE 6
         /\ Preamble(c)[1] = 1 /\ Preamble(c)[2] = FunctionCode(c)
         /\ Word(Preamble(c)[3], Preamble(c)[4]) = c.address
         /\ c.kind = "read" => Word(Preamble(c)[5], Preamble(c)[6]) = c.quantity
         /\ c.kind = "write" => /\ Word(Preamble(c)[5], Preamble(c)[6]) = c.value
                                /\ SubSeq(Preamble(c), 5, 6) = Uint16Bytes(c.value)
         /\ c.kind = "writeMany" => /\ Word(Preamble(c)[5], Preamble(c)[6]) = Len(c.data) \div 2
                                    /\ Preamble(c)[7] = Len(c.data)
                                    /\ \A i \in 1 .. Len(c.data) : Preamble(c)[7 + i] = c.data[i]
<1> DEFINE code == FunctionCode(c)
           a == Uint16Bytes(c.address)
           p == Preamble(c)
<1>1. c.kind \in {"read", "write", "writeMany"} /\ code \in Byte
  <2>1. code \in {3, 6, 16} /\ c.kind \in {"read", "write", "writeMany"}
    BY InRangeFacts
  <2> QED
    BY <2>1 DEF Byte
<1>2. a \in TwoBytes /\ Word(a[1], a[2]) = c.address
  BY InRangeFacts, Uint16Facts
<1>3. Preamble(c) = <<1, code>> \o Payload(c)
  BY DEF Preamble
<1> HIDE DEF code
<1>4. CASE c.kind \in {"read", "write"}
  <2> DEFINE word == IF c.kind = "read" THEN c.quantity ELSE c.value
             w == Uint16Bytes(word)
  <2>1. word \in Uint16
    <3>1. ASSUME NEW n \in 1 .. 125 PROVE n \in Uint16
      BY DEF Uint16
    <3>2. CASE c.kind = "read"
      BY <3>1, <3>2, InRangeFacts
    <3>3. CASE c.kind = "write"
      BY <3>3, InRangeFacts
    <3> QED
      BY <1>4, <3>2, <3>3
  <2>2. w \in TwoBytes /\ Word(w[1], w[2]) = word
    BY <2>1, Uint16Facts
  <2>3. Payload(c) = a \o w
    BY <1>4 DEF Payload
  <2>4. c.kind = "write" => w = Uint16Bytes(c.value)
    OBVIOUS
  <2>5. (c.kind = "read" => word = c.quantity) /\ (c.kind = "write" => word = c.value)
    OBVIOUS
  <2> HIDE DEF w, word, a
  <2>6. w = w \o <<>> /\ <<>> \in Seq(Byte) /\ Len(<<>>) = 0
    BY <2>2, ConcatEmptySeq
  <2>7. p = Laid(code, a, w, <<>>)
    BY <1>3, <2>3, <2>6 DEF Laid
  <2> IsLaid(p, code, a, w, <<>>)
    BY <1>1, <1>2, <2>2, <2>6, <2>7, Layout
  <2> HIDE DEF p
  <2>8. /\ p \in Seq(Byte) /\ Len(p) = 6 + Len(<<>>) /\ p[1] = 1 /\ p[2] = code
        /\ p[3] = a[1] /\ p[4] = a[2] /\ p[5] = w[1] /\ p[6] = w[2]
    BY DEF IsLaid
  <2>9. Len(p) = 6
    BY <2>6, <2>8
  <2>10. SubSeq(p, 5, 6) = w
    <3>1. w \in Seq(Byte) /\ Len(w) = 2
      BY <2>2, SmallSequences
    <3>2. \A i \in 1 .. Len(w) : p[5 + i - 1] = w[i]
      BY <2>8, <3>1
    <3>3. 5 \in Nat \ {0} /\ 6 \in Nat /\ 6 <= Len(p) /\ 6 = 5 + Len(w) - 1
      BY <2>9, <3>1
    <3> QED
      BY <2>8, <3>1, <3>2, <3>3, Extract
  <2>11. Word(p[3], p[4]) = c.address /\ Word(p[5], p[6]) = word
    BY <1>2, <2>2, <2>8 DEF a
  <2>12. c.kind # "writeMany"
    BY <1>4
  <2> QED
    BY <2>4, <2>5, <2>8, <2>9, <2>10, <2>11, <2>12 DEF p, code
<1>5. CASE c.kind = "writeMany"
  <2> DEFINE n == Len(c.data)
             w == Uint16Bytes(n \div 2)
             s == <<n % 256>>
             t == s \o c.data
  <2>1. c.data \in Seq(Byte) /\ n \in 2 .. 247
    BY <1>5, InRangeFacts
  <2>2. n \div 2 \in Uint16 /\ n % 256 = n /\ n \in Byte
    <3>1. n \div 2 \in 1 .. 123
      BY <1>5, Zenon DEF InRange
    <3>2. n \in 0 .. 255
      BY <2>1
    <3>3. ASSUME NEW m \in 1 .. 123 PROVE m \in Uint16
      BY DEF Uint16
    <3>4. n \div 2 \in Uint16
      BY <3>1, <3>3
    <3>5. n % 256 = n
      BY <3>2, ModSmall
    <3>6. n \in Byte
      BY <3>2 DEF Byte
    <3> QED
      BY <3>4, <3>5, <3>6
  <2>3. w \in TwoBytes /\ Word(w[1], w[2]) = n \div 2
    BY <2>2, Uint16Facts
  <2>4. s \in Seq(Byte) /\ Len(s) = 1 /\ s[1] = n
    <3>1. s = <<n>>
      BY <2>2
    <3> QED
      BY <2>2, <3>1, SmallSequences
  <2>5. Payload(c) = a \o ((w \o s) \o c.data)
    BY <1>5 DEF Payload
  <2> HIDE DEF w, s, a
  <2>6. /\ t \in Seq(Byte) /\ Len(t) = 1 + n /\ t[1] = n
        /\ \A i \in 1 .. n : t[1 + i] = c.data[i]
    <3>1. /\ t \in Seq(Byte) /\ Len(t) = 1 + n
          /\ \A i \in 1 .. 1 : t[i] = s[i]
          /\ \A i \in 1 .. n : t[1 + i] = c.data[i]
      BY <2>1, <2>4, Joined
    <3> QED
      BY <2>4, <3>1
  <2>7. (w \o s) \o c.data = w \o t
    <3>1. w \in Seq(Byte)
      BY <2>3, SmallSequences
    <3> DEFINE data == c.data
    <3>2. data \in Seq(Byte)
      BY <2>1
    <3> HIDE DEF data
    <3>3. (w \o s) \o data = w \o (s \o data)
      BY <2>4, <3>1, <3>2, ConcatAssociative
    <3> QED
      BY <3>3 DEF data, t
  <2> HIDE DEF t
  <2>8. p = Laid(code, a, w, t)
    BY <1>3, <2>5, <2>7 DEF Laid
  <2> IsLaid(p, code, a, w, t)
    BY <1>1, <1>2, <2>3, <2>6, <2>8, Layout
  <2> HIDE DEF p
  <2>9. /\ p \in Seq(Byte) /\ Len(p) = 6 + Len(t) /\ p[1] = 1 /\ p[2] = code
        /\ p[3] = a[1] /\ p[4] = a[2] /\ p[5] = w[1] /\ p[6] = w[2]
        /\ \A i \in 1 .. Len(t) : p[6 + i] = t[i]
    BY DEF IsLaid
  <2>10. Word(p[3], p[4]) = c.address /\ Word(p[5], p[6]) = n \div 2
    BY <1>2, <2>3, <2>9 DEF a
  <2>11. Len(p) = 7 + n
    BY <2>1, <2>6, <2>9
  <2>12. p[7] = n
    <3>1. p[6 + 1] = t[1]
      BY <2>1, <2>6, <2>9
    <3> QED
      BY <2>6, <3>1
  <2>13. ASSUME NEW i \in 1 .. n PROVE p[7 + i] = c.data[i]
    <3>1. p[6 + (1 + i)] = t[1 + i]
      BY <2>1, <2>6, <2>9
    <3> QED
      BY <2>1, <2>6, <3>1
  <2> QED
    BY <1>5, <2>9, <2>10, <2>11, <2>12, <2>13 DEF p, code
<1> QED
  BY <1>1, <1>4, <1>5

LEMMA PreambleLength ==
  ASSUME NEW c \in Command, InRange(c)
  PROVE  Preamble(c) \in Seq(Byte) /\ Len(Preamble(c)) \in Nat /\ Len(Preamble(c)) >= 6
<1>1. Preamble(c) \in Seq(Byte)
  BY PreambleFacts
<1>2. Len(Preamble(c)) = IF c.kind = "writeMany" THEN 7 + Len(c.data) ELSE 6
  BY PreambleFacts
<1>3. CASE c.kind = "writeMany"
  <2> DEFINE n == Len(c.data)
  <2>1. n \in 2 .. 247
    BY <1>3, InRangeFacts
  <2>2. Len(Preamble(c)) = 7 + n
    BY <1>2, <1>3
  <2> HIDE DEF n
  <2> QED
    BY <1>1, <2>1, <2>2
<1>4. CASE c.kind # "writeMany"
  BY <1>1, <1>2, <1>4
<1> QED
  BY <1>3, <1>4

\* A request frame is its preamble and a checksum.
LEMMA FrameFacts ==
  ASSUME NEW c \in Command, InRange(c)
  PROVE  /\ \E T : Frame(c) \in Seq(T)
         /\ Len(Frame(c)) = Len(Preamble(c)) + 2
         /\ \A i \in 1 .. Len(Preamble(c)) : Frame(c)[i] = Preamble(c)[i]
         /\ HasValidCrc(Frame(c))
<1>1. Preamble(c) \in Seq(Byte) /\ Len(Preamble(c)) # 0
  BY PreambleLength
<1>2. Preamble(c) # <<>>
  BY <1>1
<1>3. Frame(c) = AppendCrc(Preamble(c))
  BY DEF Frame, Preamble
<1> QED
  BY <1>1, <1>2, <1>3, CrcAppended

\* What a write is acknowledged with: the first six bytes of the request.
Echoed(c) == SubSeq(Frame(c), 1, 6)

LEMMA EchoedFacts ==
  ASSUME NEW c \in Command, InRange(c)
  PROVE  /\ Echoed(c) \in Seq(Byte)
         /\ Len(Echoed(c)) = 6
         /\ \A i \in 1 .. 6 : Echoed(c)[i] = Preamble(c)[i]
<1>1. Preamble(c) \in Seq(Byte) /\ Len(Preamble(c)) >= 6 /\ Len(Preamble(c)) \in Nat
  BY PreambleLength
<1>2. \A i \in 1 .. 6 : Frame(c)[i] = Preamble(c)[i] /\ Preamble(c)[i] \in Byte
  <2> SUFFICES ASSUME NEW i \in 1 .. 6
               PROVE  Frame(c)[i] = Preamble(c)[i] /\ Preamble(c)[i] \in Byte
    OBVIOUS
  <2>1. i \in 1 .. Len(Preamble(c))
    BY <1>1
  <2> QED
    BY <1>1, <2>1, FrameFacts, ElementOfSeq
<1>3. \A i \in 1 .. 6 : Frame(c)[i] \in Byte
  BY <1>2
<1>4. /\ SubSeq(Frame(c), 1, 6) \in Seq(Byte)
      /\ Len(SubSeq(Frame(c), 1, 6)) = 6
      /\ \A i \in 1 .. 6 : SubSeq(Frame(c), 1, 6)[i] = Frame(c)[i]
  <2> DEFINE u == SubSeq(Frame(c), 1, 6)
  <2>1. /\ u \in Seq(Byte)
        /\ Len(u) = IF 1 <= 6 THEN 6 - 1 + 1 ELSE 0
        /\ \A i \in 1 .. 6 - 1 + 1 : u[i] = Frame(c)[1 + i - 1]
    BY <1>3, SubSeqProperties
  <2> HIDE DEF u
  <2>2. u \in Seq(Byte) /\ Len(u) = 6 /\ \A i \in 1 .. 6 : u[i] = Frame(c)[i]
    BY <2>1
  <2> QED
    BY <2>2 DEF u
<1> QED
  BY <1>2, <1>4 DEF Echoed

\* The registers that a device answers with, whatever they hold.
LEMMA RegistersFacts ==
  ASSUME NEW a, NEW n \in 1 .. 125
  PROVE  /\ \E S : Registers(a, n) \in Seq(S)
         /\ Len(Registers(a, n)) = 2 * n
<1> DEFINE word(i) == Uint16Bytes(Register(a + (i - 1) \div 2))[((i - 1) % 2) + 1]
           m == 2 * n
           S == {word(i) : i \in 1 .. m}
           all == [i \in 1 .. m |-> word(i)]
<1>1. Registers(a, n) = all
  BY DEF Registers
<1>2. m \in Nat
  OBVIOUS
<1> HIDE DEF m, word
<1>3. all \in [1 .. m -> S] /\ DOMAIN all = 1 .. m
  OBVIOUS
<1> HIDE DEF all, S
<1>4. all \in Seq(S)
  BY <1>2, <1>3, SeqDef
<1>5. Len(all) = m
  BY <1>2, <1>3, <1>4, LenProperties
<1> QED
  BY <1>1, <1>4, <1>5 DEF m

\* The answer to a read.
LEMMA ReadAnswer ==
  ASSUME NEW c \in Command, InRange(c), c.kind = "read"
  PROVE  /\ \E T : Answer(c) \in Seq(T)
         /\ Len(Answer(c)) = 2 * c.quantity + 5
         /\ Answer(c)[1] = 1 /\ Answer(c)[2] = 3 /\ Answer(c)[3] = 2 * c.quantity
         /\ HasValidCrc(Answer(c))
         /\ SubSeq(Answer(c), 4, Len(Answer(c)) - 2) = Registers(c.address, c.quantity)
<1> DEFINE n == 2 * c.quantity
           held == Registers(c.address, c.quantity)
           h == <<1, 3, n % 256>>
           body == h \o held
<1>1. c.quantity \in 1 .. 125 /\ n \in 2 .. 250 /\ n \in 0 .. 255
  <2>1. c.quantity \in 1 .. 125
    BY InRangeFacts
  <2>2. ASSUME NEW q \in 1 .. 125 PROVE 2 * q \in 2 .. 250 /\ 2 * q \in 0 .. 255
    OBVIOUS
  <2> QED
    BY <2>1, <2>2
<1>2. n % 256 = n
  BY <1>1, ModSmall
<1>3. PICK S : held \in Seq(S) /\ Len(held) = n
  BY <1>1, RegistersFacts
<1>4. Answer(c) = AppendCrc(body)
  BY DEF Answer
<1> HIDE DEF n, held
<1> DEFINE U == S \cup {1, 3, n}
<1>5. /\ h \in Seq(U) /\ Len(h) = 3 /\ h[1] = 1 /\ h[2] = 3 /\ h[3] = n
      /\ held \in Seq(U)
  <2>1. 1 \in U /\ 3 \in U /\ n \in U
    OBVIOUS
  <2>2. held \in Seq(U)
    BY <1>3, SeqMonotonic
  <2>3. h = <<1, 3, n>>
    BY <1>2
  <2> HIDE DEF U, h
  <2> QED
    BY <2>1, <2>2, <2>3
<1> HIDE DEF U, h
<1>6. /\ body \in Seq(U)
      /\ Len(body) = Len(h) + Len(held)
      /\ \A i \in 1 .. Len(h) : body[i] = h[i]
      /\ \A i \in 1 .. Len(held) : body[Len(h) + i] = held[i]
  <2>1. h \in Seq(U) /\ held \in Seq(U)
    BY <1>5
  <2> QED
    BY <2>1, Joined
<1> HIDE DEF body
<1>7. /\ Len(body) = n + 3
      /\ body[1] = 1 /\ body[2] = 3 /\ body[3] = n
      /\ \A i \in 1 .. n : body[3 + i] = held[i]
  BY <1>1, <1>3, <1>5, <1>6
<1>8. body # <<>>
  BY <1>1, <1>7
<1> DEFINE all == AppendCrc(body)
<1>9. /\ \E T : all \in Seq(T)
      /\ Len(all) = Len(body) + 2
      /\ \A i \in 1 .. Len(body) : all[i] = body[i]
      /\ SubSeq(all, 1, Len(body)) = body
      /\ HasValidCrc(all)
  BY <1>6, <1>8, CrcAppended
<1> HIDE DEF all
<1>10. Len(all) = n + 5 /\ all[1] = 1 /\ all[2] = 3 /\ all[3] = n
  BY <1>1, <1>7, <1>9
<1>11. SubSeq(all, 4, Len(all) - 2) = held
  <2>1. PICK T : all \in Seq(T)
    BY <1>9
  <2>2. all \in Seq(T \cup U) /\ held \in Seq(T \cup U)
    BY <1>5, <2>1, SeqMonotonic
  <2>3. ASSUME NEW i \in 1 .. Len(held) PROVE all[4 + i - 1] = held[i]
    <3>1. 3 + i \in 1 .. Len(body) /\ 4 + i - 1 = 3 + i /\ i \in 1 .. n
      BY <1>1, <1>3, <1>7
    <3> QED
      BY <1>7, <1>9, <3>1
  <2>4. /\ 4 \in Nat \ {0} /\ Len(all) - 2 \in Nat /\ Len(all) - 2 <= Len(all)
        /\ Len(all) - 2 = 4 + Len(held) - 1
    BY <1>1, <1>3, <1>10
  <2> QED
    BY <2>2, <2>3, <2>4, Extract
<1> QED
  BY <1>4, <1>9, <1>10, <1>11 DEF all, n, held

\* The acknowledgement of a write.
LEMMA WriteAnswer ==
  ASSUME NEW c \in Command, InRange(c), c.kind # "read"
  PROVE  /\ \E T : Answer(c) \in Seq(T)
         /\ Len(Answer(c)) = 8
         /\ Answer(c)[1] = 1 /\ Answer(c)[2] = FunctionCode(c)
         /\ HasValidCrc(Answer(c))
         /\ SubSeq(Answer(c), 1, 6) = Echoed(c)
         /\ c.kind = "write" => SubSeq(Answer(c), 5, 6) = Uint16Bytes(c.value)
<1> DEFINE body == Echoed(c)
           all == AppendCrc(body)
<1>1. /\ body \in Seq(Byte) /\ Len(body) = 6
      /\ \A i \in 1 .. 6 : body[i] = Preamble(c)[i]
  BY EchoedFacts
<1>2. Answer(c) = all
  BY DEF Answer, Echoed
<1> HIDE DEF body
<1>3. /\ \E T : all \in Seq(T)
      /\ Len(all) = Len(body) + 2
      /\ \A i \in 1 .. Len(body) : all[i] = body[i]
      /\ SubSeq(all, 1, Len(body)) = body
      /\ HasValidCrc(all)
  <2>1. body \in Seq(Byte) /\ body # <<>>
    BY <1>1, EmptySeq
  <2> QED
    BY <2>1, CrcAppended
<1> HIDE DEF all
<1>4. \A i \in 1 .. 6 : all[i] = Preamble(c)[i]
  BY <1>1, <1>3
<1>5. Preamble(c)[1] = 1 /\ Preamble(c)[2] = FunctionCode(c)
  BY PreambleFacts
<1>6. c.kind = "write" => SubSeq(all, 5, 6) = Uint16Bytes(c.value)
  <2> SUFFICES ASSUME c.kind = "write" PROVE SubSeq(all, 5, 6) = Uint16Bytes(c.value)
    OBVIOUS
  <2> DEFINE w == Uint16Bytes(c.value)
  <2>1. w \in TwoBytes
    BY InRangeFacts, Uint16Facts
  <2>2. SubSeq(Preamble(c), 5, 6) = w
    BY PreambleFacts
  <2> HIDE DEF w
  <2>3. PICK T : all \in Seq(T)
    BY <1>3
  <2>4. w \in Seq(Byte) /\ Len(w) = 2
    BY <2>1, SmallSequences
  <2>5. all \in Seq(T \cup Byte) /\ w \in Seq(T \cup Byte)
    BY <2>3, <2>4, SeqMonotonic
  <2>6. \A i \in 1 .. 2 : w[i] = Preamble(c)[4 + i]
    <3> DEFINE p == Preamble(c)
    <3>1. p \in Seq(Byte) /\ Len(p) \in Nat /\ Len(p) >= 6
      BY PreambleLength
    <3> HIDE DEF p
    <3>2. \A i \in 5 .. 6 : p[i] \in Byte
      BY <3>1, ElementOfSeq
    <3>3. \A i \in 1 .. 6 - 5 + 1 : SubSeq(p, 5, 6)[i] = p[5 + i - 1]
      BY <3>2, SubSeqProperties
    <3>4. SubSeq(p, 5, 6) = w
      BY <2>2 DEF p
    <3>5. \A i \in 1 .. 2 : w[i] = p[4 + i]
      BY <3>3, <3>4
    <3> QED
      BY <3>5 DEF p
  <2>7. \A i \in 1 .. Len(w) : all[5 + i - 1] = w[i]
    BY <1>4, <2>4, <2>6
  <2>8. 5 \in Nat \ {0} /\ 6 \in Nat /\ 6 <= Len(all) /\ 6 = 5 + Len(w) - 1
    BY <1>1, <1>3, <2>4
  <2>9. SubSeq(all, 5, 6) = w
    BY <2>5, <2>7, <2>8, Extract
  <2> QED
    BY <2>9 DEF w
<1> QED
  BY <1>1, <1>2, <1>3, <1>4, <1>5, <1>6 DEF body

\* What the code of a function can be.
LEMMA FunctionCodes ==
  /\ \A c \in Command : InRange(c) => FunctionCode(c) \in {3, 6, 16}
  /\ \A c, o \in Command : InRange(c) /\ InRange(o) =>
       /\ FunctionCode(c) = FunctionCode(o) <=> c.kind = o.kind
       /\ FunctionCode(c) + 128 # FunctionCode(o)
       /\ FunctionCode(c) + 128 = FunctionCode(o) + 128 <=> c.kind = o.kind
<1>1. \A c \in Command : InRange(c) =>
        /\ c.kind \in {"read", "write", "writeMany"}
        /\ FunctionCode(c) = IF c.kind = "read" THEN 3 ELSE IF c.kind = "write" THEN 6 ELSE 16
  BY InRangeFacts
<1> QED
  BY <1>1

LEMMA AnswerFacts ==
  ASSUME NEW c \in Command, InRange(c)
  PROVE  /\ \E T : Answer(c) \in Seq(T)
         /\ Len(Answer(c)) = ResponseSize(c)
         /\ ResponseSize(c) \in Nat /\ ResponseSize(c) >= 7
         /\ Answer(c)[1] = 1 /\ Answer(c)[2] = FunctionCode(c)
         /\ HasValidCrc(Answer(c))
<1>1. CASE c.kind = "read"
  <2>1. ResponseSize(c) = 2 * c.quantity + 5
    BY <1>1 DEF ResponseSize
  <2>2. c.quantity \in 1 .. 125 /\ FunctionCode(c) = 3
    BY <1>1, InRangeFacts
  <2>3. ASSUME NEW q \in 1 .. 125 PROVE 2 * q + 5 \in Nat /\ 2 * q + 5 >= 7
    OBVIOUS
  <2> QED
    BY <1>1, <2>1, <2>2, <2>3, ReadAnswer
<1>2. CASE c.kind # "read"
  <2>1. ResponseSize(c) = 8
    BY <1>2 DEF ResponseSize
  <2> QED
    BY <1>2, <2>1, WriteAnswer
<1> QED
  BY <1>1, <1>2

LEMMA ExceptionFacts ==
  ASSUME NEW c \in Command, InRange(c), NEW code \in ExceptionCode
  PROVE  /\ \E T : Exception(c, code) \in Seq(T)
         /\ Len(Exception(c, code)) = 5
         /\ Exception(c, code)[1] = 1 /\ Exception(c, code)[2] = FunctionCode(c) + 128
         /\ HasValidCrc(Exception(c, code))
<1> DEFINE body == <<1, FunctionCode(c) + 128, code>>
           all == AppendCrc(body)
<1>1. FunctionCode(c) \in {3, 6, 16} /\ code \in Byte
  BY FunctionCodes, FramesAssumption DEF FramesAssumption
<1>2. /\ body \in Seq(Byte) /\ Len(body) = 3
      /\ body[1] = 1 /\ body[2] = FunctionCode(c) + 128 /\ body # <<>>
  BY <1>1 DEF Byte
<1>3. Exception(c, code) = all
  BY DEF Exception
<1> HIDE DEF body
<1>4. /\ \E T : all \in Seq(T)
      /\ Len(all) = Len(body) + 2
      /\ \A i \in 1 .. Len(body) : all[i] = body[i]
      /\ HasValidCrc(all)
  BY <1>2, CrcAppended
<1> HIDE DEF all
<1> QED
  BY <1>2, <1>3, <1>4

\* What the device sends, and the frame it was sent, are bytes and valid.
LEMMA FrameIsFrame ==
  ASSUME NEW c \in Command, InRange(c)
  PROVE  Frame(c) \in Seq(Byte) /\ IsCodeword(Frame(c))
<1>1. Preamble(c) \in Seq(Byte) /\ Len(Preamble(c)) >= 6 /\ Len(Preamble(c)) \in Nat
  BY PreambleLength
<1>2. Preamble(c) # <<>>
  BY <1>1, EmptySeq
<1>3. Frame(c) = AppendCrc(Preamble(c))
  BY DEF Frame, Preamble
<1>4. Frame(c) \in Seq(Byte)
  BY <1>1, <1>2, <1>3, CrcIsBytes
<1>5. Len(Frame(c)) >= 3 /\ HasValidCrc(Frame(c))
  BY <1>1, FrameFacts
<1> QED
  BY <1>4, <1>5, ValidIsCodeword

LEMMA AnswerIsFrame ==
  ASSUME NEW c \in Command, InRange(c)
  PROVE  Answer(c) \in Seq(Byte) /\ IsCodeword(Answer(c))
<1>1. CASE c.kind = "read"
  <2> DEFINE q == c.quantity
             all == [i \in 1 .. 2 * q |-> Uint16Bytes(Register(c.address + (i - 1) \div 2))[((i - 1) % 2) + 1]]
             head == <<1, 3, (2 * q) % 256>>
  <2>1. q \in 1 .. 125
    BY <1>1, InRangeFacts
  <2>2. ASSUME NEW i \in 1 .. 2 * q
        PROVE  Uint16Bytes(Register(c.address + (i - 1) \div 2))[((i - 1) % 2) + 1] \in Byte
    <3> DEFINE n == (i - 1) \div 2
               pair == Uint16Bytes(Register(c.address + n))
    <3>1. n \in 0 .. q - 1 /\ (i - 1) % 2 \in {0, 1}
      BY <2>1
    <3>2. Register(c.address + n) \in Uint16
      BY <1>1, <3>1, FramesAssumption DEF FramesAssumption
    <3>3. pair \in TwoBytes
      BY <3>2, Uint16Facts
    <3> HIDE DEF n, pair
    <3>4. pair[1] \in Byte /\ pair[2] \in Byte
      <4>1. pair \in Seq(Byte) /\ Len(pair) = 2
        BY <3>3, SmallSequences
      <4>2. 1 \in 1 .. Len(pair) /\ 2 \in 1 .. Len(pair)
        BY <4>1
      <4> QED
        BY <4>1, <4>2, ElementOfSeq
    <3>5. ((i - 1) % 2) + 1 \in {1, 2}
      BY <3>1
    <3>6. pair[((i - 1) % 2) + 1] \in Byte
      BY <3>4, <3>5
    <3> QED
      BY <3>6 DEF n, pair
  <2>3. Registers(c.address, q) = all
    BY DEF Registers
  <2>4. all \in [1 .. 2 * q -> Byte] /\ 2 * q \in Nat
    BY <2>1, <2>2
  <2>5. (2 * q) % 256 \in Byte
    BY <2>1, DivMod DEF Byte
  <2>6. Answer(c) = AppendCrc(head \o all)
    BY <1>1, <2>3 DEF Answer
  <2>7. head \in Seq(Byte) /\ Len(head) = 3
    BY <2>5 DEF Byte
  <2> HIDE DEF all, head, q
  <2>8. all \in Seq(Byte)
    BY <2>4, SeqDef
  <2>9. head \o all \in Seq(Byte) /\ Len(head \o all) = Len(head) + Len(all)
    <3>1. head \in Seq(Byte)
      BY <2>7
    <3> QED
      BY <2>8, <3>1, Joined
  <2>10. head \o all # <<>>
    <3>1. Len(all) \in Nat
      BY <2>8, LenProperties
    <3> QED
      BY <2>7, <2>9, <3>1, EmptySeq
  <2>11. Answer(c) \in Seq(Byte)
    BY <2>6, <2>9, <2>10, CrcIsBytes
  <2>12. HasValidCrc(Answer(c))
    BY <1>1, ReadAnswer
  <2> QED
    BY <2>11, <2>12, ValidIsCodeword DEF HasValidCrc
<1>2. CASE c.kind # "read"
  <2>1. Echoed(c) \in Seq(Byte) /\ Len(Echoed(c)) = 6
    BY EchoedFacts
  <2>2. Echoed(c) # <<>>
    BY <2>1, EmptySeq
  <2>3. Answer(c) = AppendCrc(Echoed(c))
    BY <1>2 DEF Answer, Echoed
  <2>4. Answer(c) \in Seq(Byte)
    BY <2>1, <2>2, <2>3, CrcIsBytes
  <2>5. HasValidCrc(Answer(c))
    BY <1>2, WriteAnswer
  <2> QED
    BY <2>4, <2>5, ValidIsCodeword DEF HasValidCrc
<1> QED
  BY <1>1, <1>2

LEMMA ExceptionIsFrame ==
  ASSUME NEW c \in Command, InRange(c), NEW code \in ExceptionCode
  PROVE  Exception(c, code) \in Seq(Byte) /\ IsCodeword(Exception(c, code))
<1> DEFINE body == <<1, FunctionCode(c) + 128, code>>
<1>1. FunctionCode(c) \in {3, 6, 16} /\ code \in Byte
  BY FunctionCodes, FramesAssumption DEF FramesAssumption
<1>2. body \in Seq(Byte) /\ body # <<>>
  BY <1>1 DEF Byte
<1>3. Exception(c, code) = AppendCrc(body)
  BY DEF Exception
<1> HIDE DEF body
<1>4. Exception(c, code) \in Seq(Byte)
  BY <1>2, <1>3, CrcIsBytes
<1>5. HasValidCrc(Exception(c, code))
  BY ExceptionFacts
<1> QED
  BY <1>4, <1>5, ValidIsCodeword DEF HasValidCrc
-----------------------------------------------------------------------------
(* Replies that arrive in pieces.                                          *)

\* What has arrived of a sequence of bytes.
LEMMA Arrived ==
  ASSUME NEW T, NEW bytes \in Seq(T), NEW k \in 1 .. Len(bytes)
  PROVE  /\ Len(SubSeq(bytes, 1, k)) = k
         /\ \A i \in 1 .. k : SubSeq(bytes, 1, k)[i] = bytes[i]
         /\ k = Len(bytes) => SubSeq(bytes, 1, k) = bytes
         /\ \A i \in 1 .. k : SubSeq(SubSeq(bytes, 1, k), 1, i) = SubSeq(bytes, 1, i)
<1>1. Len(bytes) \in Nat /\ k \in Nat \ {0}
  OBVIOUS
<1>2. \A i \in 1 .. k : bytes[i] \in T
  BY <1>1, ElementOfSeq
<1> DEFINE u == SubSeq(bytes, 1, k)
<1>3. /\ u \in Seq(T)
      /\ Len(u) = IF 1 <= k THEN k - 1 + 1 ELSE 0
      /\ \A i \in 1 .. k - 1 + 1 : u[i] = bytes[1 + i - 1]
  BY <1>1, <1>2, SubSeqProperties
<1> HIDE DEF u
<1>4. u \in Seq(T) /\ Len(u) = k /\ \A i \in 1 .. k : u[i] = bytes[i]
  BY <1>1, <1>3
<1>5. k = Len(bytes) => u = bytes
  BY SubSeqFull DEF u
<1>6. ASSUME NEW i \in 1 .. k PROVE SubSeq(u, 1, i) = SubSeq(bytes, 1, i)
  <2> DEFINE v == SubSeq(bytes, 1, i)
  <2>1. i \in Nat \ {0} /\ \A j \in 1 .. i : bytes[j] \in T
    BY <1>1, <1>2
  <2>2. /\ v \in Seq(T)
        /\ Len(v) = IF 1 <= i THEN i - 1 + 1 ELSE 0
        /\ \A j \in 1 .. i - 1 + 1 : v[j] = bytes[1 + j - 1]
    BY <2>1, SubSeqProperties
  <2> HIDE DEF v
  <2>3. v \in Seq(T) /\ Len(v) = i /\ \A j \in 1 .. i : v[j] = bytes[j]
    BY <2>1, <2>2
  <2>4. \A j \in 1 .. Len(v) : u[1 + j - 1] = v[j]
    BY <1>1, <1>4, <2>1, <2>3
  <2>5. 1 \in Nat \ {0} /\ i \in Nat /\ i <= Len(u) /\ i = 1 + Len(v) - 1
    BY <1>1, <1>4, <2>1, <2>3
  <2>6. SubSeq(u, 1, i) = v
    BY <1>4, <2>3, <2>4, <2>5, Extract
  <2> QED
    BY <2>6 DEF v
<1> QED
  BY <1>4, <1>5, <1>6 DEF u

\* The answer to a command completes it with its last byte, and no earlier.
LEMMA AnswerOutcome ==
  ASSUME NEW c \in Command, InRange(c), NEW k \in 1 .. Len(Answer(c))
  PROVE  OutcomeOf(c, SubSeq(Answer(c), 1, k)) = IF k < Len(Answer(c)) THEN "sent" ELSE "completed"
<1> DEFINE all == Answer(c)
           n == ResponseSize(c)
           bytes == SubSeq(all, 1, k)
<1>1. /\ Len(all) = n /\ n \in Nat /\ n >= 7
      /\ all[1] = 1 /\ all[2] = FunctionCode(c) /\ HasValidCrc(all)
  BY AnswerFacts
<1>2. PICK T : all \in Seq(T)
  BY AnswerFacts
<1>3. /\ Len(bytes) = k
      /\ \A i \in 1 .. k : bytes[i] = all[i]
      /\ k = Len(all) => bytes = all
      /\ \A i \in 1 .. k : SubSeq(bytes, 1, i) = SubSeq(all, 1, i)
  BY <1>2, Arrived
<1>4. k \in 1 .. n
  BY <1>1
<1> HIDE DEF all, n, bytes
<1>5. ~IsExceptionResponse(c, bytes)
  <2> SUFFICES ASSUME Len(bytes) = 5, bytes[2] = FunctionCode(c) + 128
               PROVE  FALSE
    BY DEF IsExceptionResponse
  <2>1. 2 \in 1 .. k
    BY <1>3
  <2>2. bytes[2] = FunctionCode(c)
    BY <1>1, <1>3, <2>1
  <2> QED
    BY <2>2, FunctionCodes
<1>6. CASE k < n
  <2>1. Len(bytes) # n /\ ~(Len(bytes) > n)
    BY <1>1, <1>3, <1>4, <1>6
  <2>2. OutcomeOf(c, bytes) = "sent"
    BY <1>5, <2>1 DEF OutcomeOf, n
  <2> QED
    BY <1>1, <1>6, <2>2 DEF all, bytes
<1>7. CASE k = n
  <2>1. bytes = all /\ Len(bytes) = n
    BY <1>1, <1>3, <1>7
  <2>2. IF c.kind = "read" THEN bytes[3] = 2 * c.quantity
                           ELSE SubSeq(bytes, 1, 6) = SubSeq(Frame(c), 1, 6)
    <3>1. CASE c.kind = "read"
      BY <2>1, <3>1, ReadAnswer DEF all
    <3>2. CASE c.kind # "read"
      BY <2>1, <3>2, WriteAnswer DEF all, Echoed
    <3> QED
      BY <3>1, <3>2
  <2>3. IsValidResponse(c, bytes)
    BY <1>1, <2>1, <2>2 DEF IsValidResponse, n
  <2>4. OutcomeOf(c, bytes) = "completed"
    BY <1>5, <2>1, <2>3 DEF OutcomeOf, n
  <2> QED
    BY <1>1, <1>7, <2>4 DEF all, bytes
<1> QED
  BY <1>1, <1>4, <1>6, <1>7

\* And so does an exception.
LEMMA ExceptionOutcome ==
  ASSUME NEW c \in Command, InRange(c), NEW code \in ExceptionCode, NEW k \in 1 .. 5
  PROVE  OutcomeOf(c, SubSeq(Exception(c, code), 1, k)) = IF k < 5 THEN "sent" ELSE "exception"
<1> DEFINE all == Exception(c, code)
           bytes == SubSeq(all, 1, k)
<1>1. Len(all) = 5 /\ all[1] = 1 /\ all[2] = FunctionCode(c) + 128 /\ HasValidCrc(all)
  BY ExceptionFacts
<1>2. PICK T : all \in Seq(T)
  BY ExceptionFacts
<1>3. k \in 1 .. Len(all)
  BY <1>1
<1>4. Len(bytes) = k /\ (k = Len(all) => bytes = all)
  BY <1>2, <1>3, Arrived
<1>5. ResponseSize(c) \in Nat /\ ResponseSize(c) >= 7
  BY AnswerFacts
<1> HIDE DEF all, bytes
<1>6. CASE k < 5
  <2>1. ~IsExceptionResponse(c, bytes)
    BY <1>4, <1>6 DEF IsExceptionResponse
  <2>2. Len(bytes) # ResponseSize(c) /\ ~(Len(bytes) > ResponseSize(c))
    BY <1>4, <1>5
  <2>3. OutcomeOf(c, bytes) = "sent"
    BY <2>1, <2>2 DEF OutcomeOf
  <2> QED
    BY <1>6, <2>3 DEF all, bytes
<1>7. CASE k = 5
  <2>1. bytes = all
    BY <1>1, <1>4, <1>7
  <2>2. IsExceptionResponse(c, bytes)
    BY <1>1, <2>1 DEF IsExceptionResponse
  <2>3. OutcomeOf(c, bytes) = "exception"
    BY <2>2 DEF OutcomeOf
  <2> QED
    BY <1>7, <2>3 DEF all, bytes
<1> QED
  BY <1>6, <1>7

\* What becomes of a command says how its bytes were taken.
LEMMA OutcomeMeans ==
  ASSUME NEW c, NEW bytes
  PROVE  /\ OutcomeOf(c, bytes) \in {"sent", "malformed", "completed", "exception"}
         /\ OutcomeOf(c, bytes) = "exception" => IsExceptionResponse(c, bytes)
         /\ OutcomeOf(c, bytes) = "completed" => IsValidResponse(c, bytes)
<1>1. CASE IsExceptionResponse(c, bytes)
  <2>1. OutcomeOf(c, bytes) = "exception"
    BY <1>1, Zenon DEF OutcomeOf
  <2> QED
    BY <1>1, <2>1
<1>2. CASE ~IsExceptionResponse(c, bytes)
  BY <1>2 DEF OutcomeOf
<1> QED
  BY <1>1, <1>2

\* Two writes of a kind that are acknowledged alike.
LEMMA SameEcho ==
  ASSUME NEW c \in Command, InRange(c), NEW o \in Command, InRange(o),
         c.kind = o.kind, c.kind # "read", Echoed(c) = Echoed(o)
  PROVE  /\ o.address = c.address
         /\ c.kind = "write" => o = c
         /\ c.kind = "writeMany" => Len(o.data) = Len(c.data)
<1>1. \A i \in 1 .. 6 : Preamble(c)[i] = Preamble(o)[i]
  BY EchoedFacts
<1>2. Word(Preamble(c)[3], Preamble(c)[4]) = Word(Preamble(o)[3], Preamble(o)[4])
  BY <1>1
<1>3. Word(Preamble(c)[5], Preamble(c)[6]) = Word(Preamble(o)[5], Preamble(o)[6])
  BY <1>1
<1>4. o.address = c.address
  BY <1>2, PreambleFacts
<1>5. ASSUME c.kind = "write" PROVE o = c
  <2>1. o.value = c.value
    BY <1>3, <1>5, PreambleFacts
  <2>2. c \in Constructor /\ o \in Constructor
    BY InRangeFacts
  <2>3. /\ c \in [kind : {"write"}, address : Int, value : Int]
        /\ o \in [kind : {"write"}, address : Int, value : Int]
    BY <1>5, <2>2 DEF Constructor
  <2> QED
    BY <1>4, <2>1, <2>3
<1>6. ASSUME c.kind = "writeMany" PROVE Len(o.data) = Len(c.data)
  <2> DEFINE m == Len(o.data)
             n == Len(c.data)
  <2>1. m \div 2 = n \div 2
    BY <1>3, <1>6, PreambleFacts
  <2>2. m \in 2 .. 247 /\ m % 2 = 0 /\ n \in 2 .. 247 /\ n % 2 = 0
    BY <1>6, InRangeFacts
  <2> HIDE DEF m, n
  <2>3. 2 * (m \div 2) + (m % 2) = m /\ 2 * (n \div 2) + (n % 2) = n /\ m \div 2 \in Nat
    BY <2>2, Half
  <2>4. m = n
    BY <2>1, <2>2, <2>3
  <2> QED
    BY <2>4 DEF m, n
<1> QED
  BY <1>4, <1>5, <1>6

\* The reply to a command that another command takes for its own.
LEMMA AnswerTaken ==
  ASSUME NEW c \in Command, InRange(c), NEW o \in Command, InRange(o),
         NEW k \in 1 .. Len(Answer(o)),
         OutcomeOf(c, SubSeq(Answer(o), 1, k)) \in {"completed", "exception"}
  PROVE  /\ OutcomeOf(c, SubSeq(Answer(o), 1, k)) = "completed"
         /\ o.kind = c.kind
         /\ c.kind = "read" => o.quantity = c.quantity
         /\ c.kind # "read" => Echoed(c) = Echoed(o)
<1> DEFINE all == Answer(o)
           bytes == SubSeq(all, 1, k)
<1>1. PICK T : all \in Seq(T)
  BY AnswerFacts
<1>2. Len(all) \in Nat /\ all[2] = FunctionCode(o)
  BY <1>1, AnswerFacts
<1>3. /\ Len(bytes) = k
      /\ \A i \in 1 .. k : bytes[i] = all[i]
      /\ \A i \in 1 .. k : SubSeq(bytes, 1, i) = SubSeq(all, 1, i)
  BY <1>1, Arrived
<1>4. k \in Nat
  BY <1>2
<1> HIDE DEF all, bytes
<1>5. ~IsExceptionResponse(c, bytes)
  <2> SUFFICES ASSUME Len(bytes) = 5, bytes[2] = FunctionCode(c) + 128
               PROVE  FALSE
    BY DEF IsExceptionResponse
  <2>1. 2 \in 1 .. k
    BY <1>3
  <2>2. bytes[2] = FunctionCode(o)
    BY <1>2, <1>3, <2>1
  <2> QED
    BY <2>2, FunctionCodes
<1>6. OutcomeOf(c, bytes) = "completed" /\ IsValidResponse(c, bytes)
  BY <1>5, OutcomeMeans DEF bytes, all
<1>7. k = ResponseSize(c) /\ k >= 7
  BY <1>3, <1>6, AnswerFacts DEF IsValidResponse
<1>8. o.kind = c.kind
  <2>1. bytes[2] = FunctionCode(o)
    BY <1>2, <1>3, <1>4, <1>7
  <2>2. bytes[2] = FunctionCode(c)
    BY <1>6 DEF IsValidResponse
  <2> QED
    BY <2>1, <2>2, FunctionCodes
<1>9. ASSUME c.kind = "read" PROVE o.quantity = c.quantity
  <2>1. bytes[3] = 2 * c.quantity
    BY <1>6, <1>9 DEF IsValidResponse
  <2>2. bytes[3] = 2 * o.quantity
    <3>1. all[3] = 2 * o.quantity
      BY <1>8, <1>9, ReadAnswer DEF all
    <3>2. 3 \in 1 .. k
      BY <1>4, <1>7
    <3> QED
      BY <1>3, <3>1, <3>2
  <2>3. c.quantity \in 1 .. 125 /\ o.quantity \in 1 .. 125
    BY <1>8, <1>9, InRangeFacts
  <2>4. ASSUME NEW p \in 1 .. 125, NEW q \in 1 .. 125, 2 * p = 2 * q PROVE p = q
    BY <2>4
  <2> QED
    BY <2>1, <2>2, <2>3, <2>4
<1>10. ASSUME c.kind # "read" PROVE Echoed(c) = Echoed(o)
  <2>1. SubSeq(bytes, 1, 6) = Echoed(c)
    BY <1>6, <1>10 DEF IsValidResponse, Echoed
  <2>2. SubSeq(bytes, 1, 6) = SubSeq(all, 1, 6)
    BY <1>3, <1>4, <1>7
  <2>3. SubSeq(all, 1, 6) = Echoed(o)
    BY <1>8, <1>10, WriteAnswer DEF all
  <2> QED
    BY <2>1, <2>2, <2>3
<1> QED
  BY <1>6, <1>8, <1>9, <1>10 DEF all, bytes

LEMMA ExceptionTaken ==
  ASSUME NEW c \in Command, InRange(c), NEW o \in Command, InRange(o),
         NEW code \in ExceptionCode, NEW k \in 1 .. 5,
         OutcomeOf(c, SubSeq(Exception(o, code), 1, k)) \in {"completed", "exception"}
  PROVE  OutcomeOf(c, SubSeq(Exception(o, code), 1, k)) = "exception" /\ o.kind = c.kind
<1> DEFINE all == Exception(o, code)
           bytes == SubSeq(all, 1, k)
<1>1. PICK T : all \in Seq(T) /\ Len(all) = 5 /\ all[2] = FunctionCode(o) + 128
  BY ExceptionFacts
<1>2. k \in 1 .. Len(all)
  BY <1>1
<1>3. Len(bytes) = k /\ \A i \in 1 .. k : bytes[i] = all[i]
  BY <1>1, <1>2, Arrived
<1>4. ResponseSize(c) >= 7 /\ ResponseSize(c) \in Nat
  BY AnswerFacts
<1> HIDE DEF all, bytes
<1>5. ~IsValidResponse(c, bytes)
  BY <1>3, <1>4 DEF IsValidResponse
<1>6. OutcomeOf(c, bytes) = "exception" /\ IsExceptionResponse(c, bytes)
  BY <1>5, OutcomeMeans DEF bytes, all
<1>7. k = 5 /\ bytes[2] = FunctionCode(c) + 128
  BY <1>3, <1>6 DEF IsExceptionResponse
<1>8. bytes[2] = FunctionCode(o) + 128
  BY <1>1, <1>3, <1>7
<1> QED
  BY <1>6, <1>7, <1>8, FunctionCodes DEF bytes, all
-----------------------------------------------------------------------------
(* The invariant.  What becomes of a damaged reply is said by NoiseInv.    *)

Reachable == {"new", "refused", "sent", "completed", "exception", "malformed"}

FrameInv ==
  /\ command \in Command
  /\ outcome \in Reachable
  /\ outcome \in {"new", "refused"} => frame = <<>> /\ reply = <<>>
  /\ outcome \notin {"new", "refused"} => InRange(command) /\ frame = Frame(command)

OriginInv ==
  /\ origin \in [of : Command, how : {"none", "answer", "exception"}, damaged : BOOLEAN]
  /\ origin.damaged => reply # <<>>
  /\ origin.how = "none" => reply = <<>>

\* The reply is one that the device gives, and the outcome is what the bytes that
\* have arrived make of it.
ReplyInv ==
  ~origin.damaged =>
    /\ reply = <<>> => origin.how = "none" /\ received = 0
    /\ reply # <<>> =>
         /\ origin.of \in Command /\ InRange(origin.of)
         /\ \/ origin.how = "answer" /\ reply = Answer(origin.of)
            \/ /\ origin.how = "exception"
               /\ \E code \in ExceptionCode : reply = Exception(origin.of, code)
         /\ received \in 0 .. Len(reply)
    /\ outcome = IF received = 0
                 THEN IF outcome \in {"new", "refused"} THEN outcome ELSE "sent"
                 ELSE OutcomeOf(command, SubSeq(reply, 1, received))

FInv == FrameInv /\ OriginInv /\ ReplyInv

LEMMA InitFInv == ASSUME Init PROVE FInv
<1>1. FrameInv
  BY DEF Init, FrameInv, Reachable
<1>2. origin = [of |-> command, how |-> "none", damaged |-> FALSE] /\ command \in Command
  BY DEF Init, NoOrigin
<1>3. OriginInv
  BY <1>2 DEF Init, OriginInv
<1>4. ReplyInv
  BY <1>2 DEF Init, ReplyInv
<1> QED
  BY <1>1, <1>3, <1>4 DEF FInv

\* A reply has a beginning.
LEMMA GivenIsBytes ==
  ASSUME NEW c \in Command, InRange(c), NEW bytes,
         bytes = Answer(c) \/ \E code \in ExceptionCode : bytes = Exception(c, code)
  PROVE  \E T : bytes \in Seq(T) /\ Len(bytes) \in Nat /\ Len(bytes) >= 5
<1>1. CASE bytes = Answer(c)
  <2>1. Len(bytes) \in Nat /\ Len(bytes) >= 7
    BY <1>1, AnswerFacts
  <2>2. \E T : bytes \in Seq(T)
    BY <1>1, AnswerFacts
  <2> QED
    BY <2>1, <2>2
<1>2. ASSUME NEW code \in ExceptionCode, bytes = Exception(c, code)
      PROVE  \E T : bytes \in Seq(T) /\ Len(bytes) \in Nat /\ Len(bytes) >= 5
  <2>1. Len(bytes) = 5
    BY <1>2, ExceptionFacts
  <2>2. \E T : bytes \in Seq(T)
    BY <1>2, ExceptionFacts
  <2> QED
    BY <2>1, <2>2
<1> QED
  BY <1>1, <1>2

LEMMA ReplyIsBytes ==
  ASSUME FInv, ~origin.damaged, reply # <<>>
  PROVE  \E T : reply \in Seq(T) /\ Len(reply) \in Nat /\ Len(reply) >= 5
<1>1. origin.of \in Command /\ InRange(origin.of)
  BY DEF FInv, ReplyInv
<1>2. reply = Answer(origin.of) \/ \E code \in ExceptionCode : reply = Exception(origin.of, code)
  BY DEF FInv, ReplyInv
<1> QED
  BY <1>1, <1>2, GivenIsBytes

LEMMA ConstructStep == ASSUME FInv, Construct PROVE FInv'
<1>1. FrameInv'
  BY DEF FInv, FrameInv, Construct, Reachable
<1>2. OriginInv' /\ ReplyInv'
  BY DEF FInv, FrameInv, OriginInv, ReplyInv, Construct
<1> QED
  BY <1>1, <1>2 DEF FInv

LEMMA ReplyStep ==
  ASSUME FInv, NEW c \in Command, InRange(c), NEW how, NEW bytes, DeviceReplies(c, how, bytes),
         \/ how = "answer" /\ bytes = Answer(c)
         \/ how = "exception" /\ \E code \in ExceptionCode : bytes = Exception(c, code)
  PROVE  FInv'
<1>1. Len(bytes) \in Nat /\ Len(bytes) >= 5
  BY GivenIsBytes
<1>2. bytes # <<>>
  BY <1>1, EmptySeq
<1>3. ~origin.damaged /\ received = 0 /\ outcome = "sent"
  BY DEF FInv, OriginInv, ReplyInv, DeviceReplies
<1>4. /\ reply' = bytes /\ received' = 0 /\ outcome' = "sent"
      /\ origin' = [of |-> c, how |-> how, damaged |-> FALSE]
      /\ UNCHANGED <<command, frame>>
  BY <1>3 DEF DeviceReplies
<1>5. FrameInv'
  BY <1>3, <1>4 DEF FInv, FrameInv
<1>6. OriginInv'
  BY <1>2, <1>4 DEF OriginInv
<1>7. ReplyInv'
  BY <1>1, <1>2, <1>4 DEF ReplyInv
<1> QED
  BY <1>5, <1>6, <1>7 DEF FInv

LEMMA NoiseStep ==
  ASSUME FInv, NEW i \in DamageAt, NEW masks \in Damage, Noise(i, masks)
  PROVE  FInv'
<1>1. ~origin.damaged /\ received = 0 /\ i \in Nat \ {0}
  BY FramesAssumption DEF FramesAssumption, Noise
<1>2. i < Len(reply)
  BY DEF Noise
<1>3. reply # <<>>
  BY <1>1, <1>2, EmptySeq
<1>4. PICK T : reply \in Seq(T) /\ Len(reply) \in Nat /\ Len(reply) >= 5
  BY <1>1, <1>3, ReplyIsBytes
<1>5. PICK x, y : reply' = [reply EXCEPT ![i] = x, ![i + 1] = y]
  BY Zenon DEF Noise
<1>6. reply' # <<>>
  <2>1. DOMAIN reply' = DOMAIN reply
    BY <1>5
  <2>2. 1 \in DOMAIN reply
    BY <1>4
  <2> QED
    BY <2>1, <2>2
<1>7. outcome \notin {"new", "refused"}
  BY <1>3 DEF FInv, FrameInv
<1>8. UNCHANGED <<command, frame, received, outcome>> /\ origin' = [origin EXCEPT !.damaged = TRUE]
  BY DEF Noise
<1>9. FrameInv'
  BY <1>7, <1>8 DEF FInv, FrameInv
<1>10. /\ origin'.damaged = TRUE /\ origin'.how = origin.how
       /\ origin' \in [of : Command, how : {"none", "answer", "exception"}, damaged : BOOLEAN]
  BY <1>8 DEF FInv, OriginInv
<1>11. OriginInv' /\ ReplyInv'
  BY <1>3, <1>6, <1>10 DEF FInv, OriginInv, ReplyInv
<1> QED
  BY <1>9, <1>11 DEF FInv

LEMMA MinOfTwo ==
  ASSUME NEW a \in Int, NEW b \in Int
  PROVE  Min({a, b}) = IF a <= b THEN a ELSE b
<1> DEFINE m == IF a <= b THEN a ELSE b
<1>1. m \in {a, b} /\ \A x \in {a, b} : m <= x
  OBVIOUS
<1>2. \A y \in {a, b} : (\A x \in {a, b} : y <= x) => y = m
  OBVIOUS
<1> HIDE DEF m
<1>3. Min({a, b}) = m
  BY <1>1, <1>2 DEF Min
<1> QED
  BY <1>3 DEF m

LEMMA NotificationStep ==
  ASSUME FInv, NEW size \in ChunkSize, HandleNotification(size)
  PROVE  FInv'
<1>1. outcome' \in {"sent", "malformed", "completed", "exception"}
  BY OutcomeMeans DEF HandleNotification
<1>2. UNCHANGED <<command, frame, reply, origin>> /\ outcome = "sent"
  BY DEF HandleNotification
<1>3. FrameInv'
  BY <1>1, <1>2 DEF FInv, FrameInv, Reachable
<1>4. OriginInv'
  BY <1>2 DEF FInv, OriginInv
<1>5. ReplyInv'
  <2> SUFFICES ASSUME ~origin.damaged PROVE ReplyInv'
    BY <1>2 DEF ReplyInv
  <2>1. reply # <<>> /\ received \in 0 .. Len(reply) /\ received < Len(reply)
    <3>1. reply = <<>> => received = 0 /\ Len(reply) = 0
      BY EmptySeq DEF FInv, ReplyInv
    <3>2. received < Len(reply)
      BY DEF HandleNotification
    <3>3. reply # <<>>
      BY <3>1, <3>2
    <3> QED
      BY <3>2, <3>3 DEF FInv, ReplyInv
  <2>2. Len(reply) \in Nat /\ size \in Nat \ {0} /\ received \in Nat
    BY <2>1, ReplyIsBytes, FramesAssumption DEF FramesAssumption
  <2>3. received' = Min({received + size, Len(reply)})
    BY DEF HandleNotification
  <2>4. received' = IF received + size <= Len(reply) THEN received + size ELSE Len(reply)
    BY <2>2, <2>3, MinOfTwo
  <2>5. received' \in 1 .. Len(reply)
    BY <2>1, <2>2, <2>4
  <2>6. outcome' = OutcomeOf(command, SubSeq(reply, 1, received'))
    BY DEF HandleNotification
  <2>7. reply' = reply /\ origin' = origin /\ command' = command
    BY <1>2
  <2>8. received' \in 0 .. Len(reply') /\ received' # 0
    BY <2>5, <2>7
  <2> QED
    BY <2>1, <2>6, <2>7, <2>8 DEF FInv, ReplyInv
<1> QED
  BY <1>3, <1>4, <1>5 DEF FInv

LEMMA FramesStep == ASSUME FInv, [Next]_vars PROVE FInv'
<1>1. CASE Construct
  BY <1>1, ConstructStep
<1>2. ASSUME NEW c \in Command, InRange(c) /\ DeviceReplies(c, "answer", Answer(c)) PROVE FInv'
  BY <1>2, ReplyStep
<1>3. ASSUME NEW c \in Command, NEW code \in ExceptionCode,
             DeviceReplies(c, "exception", Exception(c, code))
      PROVE  FInv'
  <2>1. InRange(c)
    BY <1>3 DEF DeviceReplies
  <2> QED
    BY <1>3, <2>1, ReplyStep
<1>4. CASE \E i \in DamageAt, masks \in Damage : Noise(i, masks)
  BY <1>4, NoiseStep
<1>5. CASE \E size \in ChunkSize : HandleNotification(size)
  BY <1>5, NotificationStep
<1>6. CASE UNCHANGED vars
  BY <1>6 DEF vars, FInv, FrameInv, OriginInv, ReplyInv
<1> QED
  BY <1>1, <1>2, <1>3, <1>4, <1>5, <1>6 DEF Next

LEMMA FramesInvariant == Spec => []FInv
  BY InitFInv, FramesStep, PTL DEF Spec
-----------------------------------------------------------------------------
(* Noise.  A damaged reply is a frame of the device that one burst has hit. *)

Replies(c, how) ==
  IF how = "answer" THEN {Answer(c)} ELSE {Exception(c, code) : code \in ExceptionCode}

Hit(bytes, i, masks) == [bytes EXCEPT ![i] = Xor(@, masks[1]), ![i + 1] = Xor(@, masks[2])]

NoiseInv ==
  origin.damaged =>
    /\ origin.of \in Command /\ InRange(origin.of) /\ origin.how \in {"answer", "exception"}
    /\ \E bytes \in Replies(origin.of, origin.how), i \in DamageAt, masks \in Damage :
         i < Len(bytes) /\ reply = Hit(bytes, i, masks)
    /\ received \in 0 .. Len(reply)
    /\ outcome = IF received = 0 THEN "sent" ELSE OutcomeOf(command, SubSeq(reply, 1, received))

\* What the device sends is a valid frame.
LEMMA RepliesAreFrames ==
  ASSUME NEW c \in Command, InRange(c), NEW how, NEW bytes \in Replies(c, how)
  PROVE  bytes \in Seq(Byte) /\ Len(bytes) >= 5 /\ IsCodeword(bytes)
<1>1. bytes = Answer(c) \/ \E code \in ExceptionCode : bytes = Exception(c, code)
  BY DEF Replies
<1>2. Len(bytes) >= 5
  BY <1>1, GivenIsBytes
<1> QED
  BY <1>1, <1>2, AnswerIsFrame, ExceptionIsFrame

\* A burst changes two bytes at most, and at least one.
LEMMA HitFacts ==
  ASSUME NEW bytes \in Seq(Byte), NEW i \in Nat \ {0}, i < Len(bytes), NEW masks \in Damage
  PROVE  /\ Hit(bytes, i, masks) \in Seq(Byte) /\ Len(Hit(bytes, i, masks)) = Len(bytes)
         /\ \A n \in 1 .. Len(bytes) : n # i /\ n # i + 1 => bytes[n] = Hit(bytes, i, masks)[n]
         /\ Hit(bytes, i, masks) # bytes
<1> DEFINE L == Len(bytes)
           one == Xor(bytes[i], masks[1])
           two == Xor(bytes[i + 1], masks[2])
           hit == Hit(bytes, i, masks)
<1>1. masks[1] \in Byte /\ masks[2] \in Byte /\ (masks[1] # 0 \/ masks[2] # 0)
  BY FramesAssumption DEF FramesAssumption
<1>2. L \in Nat /\ i \in 1 .. L /\ i + 1 \in 1 .. L /\ i # i + 1
  OBVIOUS
<1>3. bytes[i] \in Byte /\ bytes[i + 1] \in Byte
  BY <1>2, ElementOfSeq
<1>4. /\ one \in Byte /\ (one = bytes[i] => masks[1] = 0)
      /\ two \in Byte /\ (two = bytes[i + 1] => masks[2] = 0)
  BY <1>1, <1>3, XorByte
<1>5. bytes \in [1 .. L -> Byte]
  BY LenProperties
<1>6. hit = [bytes EXCEPT ![i] = one, ![i + 1] = two]
  BY Zenon DEF Hit
<1> HIDE DEF L, one, two, hit
<1>9. /\ hit \in [1 .. L -> Byte]
      /\ \A n \in 1 .. L : n # i /\ n # i + 1 => bytes[n] = hit[n]
      /\ hit[i] = one /\ hit[i + 1] = two
  BY <1>2, <1>4, <1>5, <1>6
<1>10. hit \in Seq(Byte)
  BY <1>2, <1>9, SeqDef
<1>11. Len(hit) = L
  BY <1>2, <1>9, <1>10, LenProperties
<1>12. hit # bytes
  BY <1>1, <1>4, <1>9
<1> QED
  BY <1>9, <1>10, <1>11, <1>12 DEF hit, L

\* No burst makes a valid frame of a valid frame.
LEMMA HitIsDetected ==
  ASSUME NEW bytes \in Seq(Byte), IsCodeword(bytes), NEW i \in Nat \ {0}, i < Len(bytes),
         NEW masks \in Damage
  PROVE  ~HasValidCrc(Hit(bytes, i, masks))
<1> DEFINE hit == Hit(bytes, i, masks)
           a == i - 1
<1>1. SUFFICES ASSUME HasValidCrc(hit) PROVE FALSE
  OBVIOUS
<1>2. /\ hit \in Seq(Byte) /\ Len(hit) = Len(bytes) /\ hit # bytes
      /\ \A n \in 1 .. Len(bytes) : n # i /\ n # i + 1 => bytes[n] = hit[n]
  BY HitFacts
<1> HIDE DEF hit
<1>3. IsCodeword(hit)
  <2>1. Len(hit) >= 3
    BY <1>1 DEF HasValidCrc
  <2> QED
    BY <1>1, <1>2, <2>1, ValidIsCodeword
<1>4. a \in 0 .. Len(bytes) - 2 /\ a + 1 = i /\ a + 2 = i + 1
  BY LenProperties
<1> HIDE DEF a
<1>5. \A n \in 1 .. Len(bytes) : n # a + 1 /\ n # a + 2 => bytes[n] = hit[n]
  BY <1>2, <1>4
<1>6. bytes = hit
  BY <1>2, <1>3, <1>4, <1>5, BurstIsDetected
<1> QED
  BY <1>2, <1>6

LEMMA InitNoise == ASSUME Init PROVE NoiseInv
  BY DEF Init, NoOrigin, NoiseInv

LEMMA NoiseHits ==
  ASSUME FInv, NEW i \in DamageAt, NEW masks \in Damage, Noise(i, masks)
  PROVE  NoiseInv'
<1>1. /\ ~origin.damaged /\ received = 0 /\ i < Len(reply) /\ i \in Nat \ {0}
      /\ UNCHANGED <<command, frame, received, outcome>> /\ origin' = [origin EXCEPT !.damaged = TRUE]
  BY FramesAssumption DEF FramesAssumption, Noise
<1>2. reply # <<>>
  BY <1>1, EmptySeq
<1>3. reply' = Hit(reply, i, masks)
  BY Zenon DEF Noise, Hit
<1>4. /\ origin.of \in Command /\ InRange(origin.of) /\ origin.how \in {"answer", "exception"}
      /\ reply \in Replies(origin.of, origin.how)
  BY <1>1, <1>2 DEF FInv, ReplyInv, Replies
<1>5. origin'.of = origin.of /\ origin'.how = origin.how
  BY <1>1 DEF FInv, OriginInv
<1>6. reply \in Seq(Byte) /\ Len(reply) >= 5
  BY <1>4, RepliesAreFrames
<1>7. received' = 0 /\ received' \in 0 .. Len(reply')
  <2>1. Len(reply') = Len(reply) /\ Len(reply) \in Nat
    BY <1>1, <1>3, <1>6, HitFacts, LenProperties
  <2> QED
    BY <1>1, <2>1
<1>8. outcome' = "sent"
  BY <1>1, <1>2 DEF FInv, FrameInv, ReplyInv
<1>9. Replies(origin.of, origin.how)' = Replies(origin.of, origin.how)
  BY <1>5, Zenon DEF Replies
<1>10. InRange(origin.of)'
  BY <1>4, <1>5, Zenon DEF InRange
<1>11. \E bytes \in Replies(origin.of, origin.how)', j \in DamageAt, m \in Damage :
         j < Len(bytes) /\ reply' = Hit(bytes, j, m)
  BY <1>1, <1>3, <1>4, <1>9
<1> QED
  BY <1>4, <1>5, <1>7, <1>8, <1>10, <1>11 DEF NoiseInv

LEMMA NoiseArrives ==
  ASSUME NoiseInv, NEW size \in ChunkSize, HandleNotification(size)
  PROVE  NoiseInv'
<1> SUFFICES ASSUME origin.damaged PROVE NoiseInv'
  BY DEF NoiseInv, HandleNotification
<1>1. /\ UNCHANGED <<command, frame, reply, origin>> /\ received < Len(reply)
      /\ received' = Min({received + size, Len(reply)})
      /\ outcome' = OutcomeOf(command, SubSeq(reply, 1, received'))
  BY DEF HandleNotification
<1>2. /\ origin.of \in Command /\ InRange(origin.of) /\ origin.how \in {"answer", "exception"}
      /\ received \in 0 .. Len(reply)
  BY DEF NoiseInv
<1>3. PICK bytes \in Replies(origin.of, origin.how), i \in DamageAt, masks \in Damage :
        i < Len(bytes) /\ reply = Hit(bytes, i, masks)
  BY DEF NoiseInv
<1>4. Len(reply) \in Nat /\ size \in Nat \ {0} /\ received \in Nat
  <2>1. bytes \in Seq(Byte)
    BY <1>2, RepliesAreFrames
  <2>2. i \in Nat \ {0} /\ size \in Nat \ {0}
    BY FramesAssumption DEF FramesAssumption
  <2>3. reply \in Seq(Byte)
    BY <1>3, <2>1, <2>2, HitFacts
  <2> QED
    BY <1>2, <2>2, <2>3, LenProperties
<1>5. received' = IF received + size <= Len(reply) THEN received + size ELSE Len(reply)
  BY <1>1, <1>4, MinOfTwo
<1>6. received' \in 0 .. Len(reply) /\ received' # 0
  BY <1>1, <1>4, <1>5
<1> QED
  BY <1>1, <1>6 DEF NoiseInv

LEMMA NoiseStays == ASSUME FInv, NoiseInv, [Next]_vars PROVE NoiseInv'
<1>1. CASE Construct
  <2>1. ~origin.damaged /\ origin' = origin
    BY <1>1 DEF FInv, FrameInv, OriginInv, Construct
  <2> QED
    BY <2>1 DEF NoiseInv
<1>2. ASSUME NEW c, NEW how, NEW bytes, DeviceReplies(c, how, bytes) PROVE NoiseInv'
  BY <1>2 DEF NoiseInv, DeviceReplies
<1>3. CASE \E i \in DamageAt, masks \in Damage : Noise(i, masks)
  BY <1>3, NoiseHits
<1>4. CASE \E size \in ChunkSize : HandleNotification(size)
  BY <1>4, NoiseArrives
<1>5. CASE UNCHANGED vars
  BY <1>5 DEF vars, NoiseInv
<1> QED
  BY <1>1, <1>2, <1>3, <1>4, <1>5 DEF Next

LEMMA NoiseInvariant == Spec => [](FInv /\ NoiseInv)
<1>1. Init => NoiseInv
  BY InitNoise
<1>2. FInv /\ NoiseInv /\ [Next]_vars => NoiseInv'
  BY NoiseStays
<1> QED
  BY <1>1, <1>2, FramesInvariant, PTL DEF Spec

\* The bytes that tell the receiver how long the reply is have come through, or the
\* whole reply has arrived: noise that hits the function code or the byte count can
\* make handleNotification take the first bytes for all of it, and whether their last
\* two pass for a checksum then depends on what the registers hold.
LengthIsTold ==
  origin.damaged /\ received < Len(reply) =>
    /\ reply[2] = FunctionCode(origin.of) + (IF origin.how = "exception" THEN 128 ELSE 0)
    /\ origin.how = "answer" /\ origin.of.kind = "read" => reply[3] = 2 * origin.of.quantity

\* Bytes that are accepted are as many as the command expects.
LEMMA AcceptedWhole ==
  ASSUME NEW c \in Command, InRange(c), NEW o \in Command, InRange(o),
         NEW how \in {"answer", "exception"}, NEW bytes \in Replies(o, how), NEW got,
         got[2] = FunctionCode(o) + (IF how = "exception" THEN 128 ELSE 0),
         how = "answer" /\ o.kind = "read" => got[3] = 2 * o.quantity,
         OutcomeOf(c, got) \in {"completed", "exception"}
  PROVE  Len(got) = Len(bytes)
<1>1. /\ FunctionCode(c) \in {3, 6, 16} /\ FunctionCode(o) \in {3, 6, 16}
      /\ FunctionCode(c) = FunctionCode(o) <=> c.kind = o.kind
  BY FunctionCodes
<1>2. CASE OutcomeOf(c, got) = "exception"
  <2>1. Len(got) = 5 /\ got[2] = FunctionCode(c) + 128
    BY <1>2, OutcomeMeans DEF IsExceptionResponse
  <2>2. how = "exception"
    BY <1>1, <2>1
  <2> QED
    BY <2>1, <2>2, ExceptionFacts DEF Replies
<1>3. CASE OutcomeOf(c, got) = "completed"
  <2>1. /\ Len(got) = ResponseSize(c) /\ got[2] = FunctionCode(c)
        /\ c.kind = "read" => got[3] = 2 * c.quantity
    BY <1>3, OutcomeMeans DEF IsValidResponse
  <2>2. how = "answer" /\ c.kind = o.kind
    BY <1>1, <2>1
  <2>3. Len(bytes) = ResponseSize(o)
    BY <2>2, AnswerFacts DEF Replies
  <2>4. ResponseSize(o) = ResponseSize(c)
    <3>1. c.kind = "read" => 2 * c.quantity = 2 * o.quantity
      BY <2>1, <2>2
    <3> QED
      BY <2>2, <3>1 DEF ResponseSize
  <2> QED
    BY <2>1, <2>3, <2>4
<1> QED
  BY <1>2, <1>3

\* Noise never passes for a response or an exception, whatever the device holds and
\* wherever a burst of at most 16 bits hits its reply (isValidResponse,
\* isExceptionResponse, hasValidModbusCrc), once the length of the reply is told.
THEOREM NoiseIsDetected == Spec => [](LengthIsTold => NoiseIsRejected)
<1>1. ASSUME FInv, NoiseInv, LengthIsTold, origin.damaged, outcome \notin {"sent", "malformed"}
      PROVE  FALSE
  <2> DEFINE c == command
             o == origin.of
             got == SubSeq(reply, 1, received)
  <2>1. /\ o \in Command /\ InRange(o) /\ origin.how \in {"answer", "exception"}
        /\ received \in 0 .. Len(reply) /\ received # 0 /\ outcome = OutcomeOf(c, got)
    BY <1>1 DEF NoiseInv
  <2>2. outcome \in {"completed", "exception"}
    BY <1>1, <2>1, OutcomeMeans
  <2>3. c \in Command /\ InRange(c)
    BY <1>1, <2>2 DEF FInv, FrameInv
  <2>4. PICK bytes \in Replies(o, origin.how), i \in DamageAt, masks \in Damage :
          i < Len(bytes) /\ reply = Hit(bytes, i, masks)
    BY <1>1 DEF NoiseInv
  <2>5. bytes \in Seq(Byte) /\ IsCodeword(bytes) /\ Len(bytes) >= 5 /\ i \in Nat \ {0}
    BY <2>1, RepliesAreFrames, FramesAssumption DEF FramesAssumption
  <2>6. reply \in Seq(Byte) /\ Len(reply) = Len(bytes) /\ Len(reply) \in Nat /\ ~HasValidCrc(reply)
    BY <2>4, <2>5, HitFacts, HitIsDetected, LenProperties
  <2>7. received \in 1 .. Len(reply)
    BY <2>1, <2>6
  <2>8. /\ Len(got) = received
        /\ \A n \in 1 .. received : got[n] = reply[n]
        /\ received = Len(reply) => got = reply
    <3>1. reply \in Seq(Byte)
      BY <2>6
    <3> QED
      BY <2>7, <3>1, Arrived
  <2> HIDE DEF c, o, got
  <2>9. received >= 5 /\ HasValidCrc(got)
    <3>1. ResponseSize(c) \in Nat /\ ResponseSize(c) >= 7
      BY <2>3, AnswerFacts
    <3>2. CASE IsExceptionResponse(c, got)
      BY <2>8, <3>2 DEF IsExceptionResponse
    <3>3. CASE IsValidResponse(c, got)
      BY <2>8, <3>1, <3>3 DEF IsValidResponse
    <3> QED
      BY <2>1, <2>2, <3>2, <3>3, OutcomeMeans
  <2>10. received = Len(reply)
    <3>1. SUFFICES ASSUME received < Len(reply) PROVE FALSE
      BY <2>6, <2>7
    <3>2. /\ reply[2] = FunctionCode(o) + (IF origin.how = "exception" THEN 128 ELSE 0)
          /\ origin.how = "answer" /\ o.kind = "read" => reply[3] = 2 * o.quantity
      BY <1>1, <3>1 DEF LengthIsTold, o
    <3>3. got[2] = reply[2] /\ got[3] = reply[3]
      BY <2>6, <2>7, <2>8, <2>9
    <3>4. Len(got) = Len(bytes)
      BY <2>1, <2>2, <2>3, <2>4, <3>2, <3>3, AcceptedWhole
    <3> QED
      BY <2>6, <2>8, <3>1, <3>4
  <2> QED
    BY <2>6, <2>8, <2>9, <2>10
<1>2. FInv /\ NoiseInv => (LengthIsTold => NoiseIsRejected)
  BY <1>1 DEF NoiseIsRejected
<1> QED
  BY <1>2, NoiseInvariant, PTL
-----------------------------------------------------------------------------
\* An accepted command's frame says what was asked for, no field truncated and no
\* length at odds with another, and its checksum is what MODBUS asks for
\* (commands.ts, appendModbusCrc).
THEOREM FrameIsDecoded == Spec => []FrameSaysCommand
<1>1. ASSUME FrameInv, frame # <<>> PROVE FrameSaysCommand
  <2> DEFINE c == command
             p == Preamble(c)
             f == frame
  <2>1. c \in Command /\ InRange(c) /\ f = Frame(c)
    BY <1>1 DEF FrameInv
  <2> IsCodeword(f)
    BY <2>1, FrameIsFrame
  <2>2. /\ \E T : f \in Seq(T)
        /\ Len(f) = Len(p) + 2
        /\ \A i \in 1 .. Len(p) : f[i] = p[i]
    BY <2>1, FrameFacts
  <2>3. p \in Seq(Byte) /\ Len(p) \in Nat /\ Len(p) >= 6
    BY <2>1, PreambleLength
  <2>4. Word(p[3], p[4]) = c.address
    BY <2>1, PreambleFacts
  <2>5. c.kind \in {"read", "write", "writeMany"}
    BY <2>1, InRangeFacts
  <2>6. c.kind = "read" => Word(p[5], p[6]) = c.quantity /\ c.quantity \in 1 .. 125
    BY <2>1, PreambleFacts, InRangeFacts
  <2>7. c.kind = "write" => Word(p[5], p[6]) = c.value
    BY <2>1, PreambleFacts
  <2>8. ASSUME c.kind = "writeMany"
        PROVE  /\ 2 * Word(p[5], p[6]) = f[7] /\ Len(f) = f[7] + 9
               /\ SubSeq(f, 8, Len(f) - 2) = c.data
    <3> DEFINE n == Len(c.data)
    <3>1. /\ Word(p[5], p[6]) = n \div 2 /\ p[7] = n /\ Len(p) = 7 + n
          /\ \A i \in 1 .. n : p[7 + i] = c.data[i]
      BY <2>1, <2>8, PreambleFacts
    <3>2. c.data \in Seq(Byte) /\ n \in 2 .. 247 /\ n % 2 = 0
      BY <2>1, <2>8, InRangeFacts
    <3> HIDE DEF n, p, c, f
    <3>3. 2 * (n \div 2) = n
      <4>1. n \div 2 \in Nat /\ 2 * (n \div 2) + (n % 2) = n
        BY <3>2, Half
      <4> QED
        BY <3>2, <4>1
    <3>4. f[7] = n /\ Len(f) = n + 9
      BY <2>2, <3>1, <3>2
    <3>5. \A i \in 1 .. n : f[8 + i - 1] = c.data[i]
      <4> SUFFICES ASSUME NEW i \in 1 .. n PROVE f[8 + i - 1] = c.data[i]
        OBVIOUS
      <4>1. 7 + i \in 1 .. Len(p) /\ 8 + i - 1 = 7 + i
        BY <3>1, <3>2
      <4> QED
        BY <2>2, <3>1, <4>1
    <3>6. SubSeq(f, 8, Len(f) - 2) = c.data
      <4>1. PICK T : f \in Seq(T)
        BY <2>2
      <4>2. f \in Seq(T \cup Byte) /\ c.data \in Seq(T \cup Byte)
        BY <3>2, <4>1, SeqMonotonic
      <4>3. /\ 8 \in Nat \ {0} /\ Len(f) - 2 \in Nat /\ Len(f) - 2 <= Len(f)
            /\ Len(f) - 2 = 8 + n - 1
        BY <3>2, <3>4
      <4>4. Len(c.data) = n
        BY DEF n
      <4> QED
        BY <3>5, <4>2, <4>3, <4>4, Extract
    <3> QED
      BY <3>1, <3>3, <3>4, <3>6 DEF n
  <2>9. f[3] = p[3] /\ f[4] = p[4] /\ f[5] = p[5] /\ f[6] = p[6]
    BY <2>2, <2>3
  <2> HIDE DEF p
  <2>10. 256 * f[3] + f[3 + 1] = c.address
    BY <2>4, <2>9 DEF Word
  <2>11. 256 * f[5] + f[5 + 1] = Word(p[5], p[6])
    BY <2>9 DEF Word
  <2>12. CASE c.kind = "read"
    <3>1. 256 * f[5] + f[5 + 1] = c.quantity /\ 2 * (256 * f[5] + f[5 + 1]) <= 255
      BY <2>6, <2>11, <2>12
    <3> QED
      BY <1>1, <2>10, <2>12, <3>1 DEF FrameSaysCommand
  <2>13. CASE c.kind = "write"
    BY <1>1, <2>7, <2>10, <2>11, <2>13 DEF FrameSaysCommand
  <2>14. CASE c.kind = "writeMany"
    BY <1>1, <2>8, <2>10, <2>11, <2>14 DEF FrameSaysCommand
  <2> QED
    BY <2>5, <2>12, <2>13, <2>14
<1>2. FInv => FrameSaysCommand
  <2>1. frame = <<>> => FrameSaysCommand
    BY DEF FrameSaysCommand
  <2> QED
    BY <1>1, <2>1 DEF FInv
<1> QED
  BY <1>2, FramesInvariant, PTL

\* The intact reply to the command in flight decides it with its last byte, however
\* it is split, and what is parsed is what the device holds (handleNotification,
\* isValidResponse, isExceptionResponse, parseResponse).
THEOREM DecidesWhenWhole == Spec => []IntactReplyDecidesWhenWhole
<1>1. ASSUME FInv, origin.how # "none", origin.of = command, ~origin.damaged
      PROVE  /\ outcome = IF received < Len(reply) THEN "sent"
                          ELSE IF origin.how = "answer" THEN "completed" ELSE "exception"
             /\ outcome = "completed" => ParseResponse(command, reply) = Expected(command)
  <2>1. /\ command \in Command /\ InRange(command) /\ reply # <<>>
        /\ \/ origin.how = "answer" /\ reply = Answer(command)
           \/ /\ origin.how = "exception"
              /\ \E code \in ExceptionCode : reply = Exception(command, code)
        /\ received \in 0 .. Len(reply)
        /\ outcome \notin {"new", "refused"}
    BY <1>1 DEF FInv, FrameInv, ReplyInv
  <2>2. Len(reply) \in Nat /\ Len(reply) >= 5
    BY <1>1, <2>1, ReplyIsBytes
  <2>3. outcome = IF received = 0 THEN "sent" ELSE OutcomeOf(command, SubSeq(reply, 1, received))
    BY <1>1, <2>1 DEF FInv, ReplyInv
  <2>4. CASE received = 0
    BY <2>2, <2>3, <2>4
  <2>5. CASE received # 0 /\ origin.how = "answer"
    <3>1. reply = Answer(command) /\ received \in 1 .. Len(reply)
      BY <2>1, <2>2, <2>5
    <3>2. outcome = IF received < Len(reply) THEN "sent" ELSE "completed"
      BY <2>1, <2>3, <2>5, <3>1, AnswerOutcome
    <3>3. ParseResponse(command, reply) = Expected(command)
      <4>1. command.kind \in {"read", "write", "writeMany"}
        BY <2>1, InRangeFacts
      <4>2. CASE command.kind = "read"
        BY <2>1, <3>1, <4>2, ReadAnswer DEF ParseResponse, Expected
      <4>3. CASE command.kind = "write"
        BY <2>1, <3>1, <4>3, WriteAnswer DEF ParseResponse, Expected
      <4>4. CASE command.kind = "writeMany"
        BY <4>4 DEF ParseResponse, Expected
      <4> QED
        BY <4>1, <4>2, <4>3, <4>4
    <3> QED
      BY <2>5, <3>2, <3>3
  <2>6. CASE received # 0 /\ origin.how = "exception"
    <3>1. PICK code \in ExceptionCode : reply = Exception(command, code)
      BY <2>1, <2>6
    <3>2. Len(reply) = 5
      BY <2>1, <3>1, ExceptionFacts
    <3>3. received \in 1 .. 5
      BY <2>1, <2>6, <3>2
    <3>4. outcome = IF received < 5 THEN "sent" ELSE "exception"
      BY <2>1, <2>3, <2>6, <3>1, <3>3, ExceptionOutcome
    <3> QED
      BY <2>6, <3>2, <3>4
  <2> QED
    BY <2>1, <2>4, <2>5, <2>6
<1>2. FInv => IntactReplyDecidesWhenWhole
  BY <1>1 DEF IntactReplyDecidesWhenWhole
<1> QED
  BY <1>2, FramesInvariant, PTL

LEMMA LookalikesTaken ==
  ASSUME FInv, NoiseIsRejected, outcome \in {"completed", "exception"}
  PROVE  ConfusesOnlyLookalikes
<1> DEFINE c == command
           o == origin.of
<1>1. ~origin.damaged
  BY DEF NoiseIsRejected
<1>2. received # 0 /\ outcome = OutcomeOf(c, SubSeq(reply, 1, received))
  BY <1>1 DEF FInv, ReplyInv
<1>3. /\ c \in Command /\ InRange(c) /\ o \in Command /\ InRange(o)
      /\ \/ origin.how = "answer" /\ reply = Answer(o)
         \/ /\ origin.how = "exception"
            /\ \E code \in ExceptionCode : reply = Exception(o, code)
      /\ received \in 0 .. Len(reply)
  BY <1>1, <1>2 DEF FInv, FrameInv, ReplyInv
<1>4. CASE origin.how = "answer"
  <2>1. reply = Answer(o) /\ received \in 1 .. Len(reply)
    BY <1>2, <1>3, <1>4
  <2>2. /\ outcome = "completed"
        /\ o.kind = c.kind
        /\ c.kind = "read" => o.quantity = c.quantity
        /\ c.kind # "read" => Echoed(c) = Echoed(o)
    BY <1>2, <1>3, <2>1, AnswerTaken
  <2>3. c.kind # "read" =>
          /\ o.address = c.address
          /\ c.kind = "write" => o = c
          /\ c.kind = "writeMany" => Len(o.data) = Len(c.data)
    BY <1>3, <2>2, SameEcho
  <2>4. c.kind \in {"read", "write", "writeMany"}
    BY <1>3, InRangeFacts
  <2> QED
    BY <1>4, <2>2, <2>3, <2>4 DEF ConfusesOnlyLookalikes
<1>5. CASE origin.how = "exception"
  <2>1. PICK code \in ExceptionCode : reply = Exception(o, code)
    BY <1>3, <1>5
  <2>2. Len(reply) = 5
    BY <1>3, <2>1, ExceptionFacts
  <2>3. received \in 1 .. 5
    BY <1>2, <1>3, <2>2
  <2>4. outcome = "exception" /\ o.kind = c.kind
    BY <1>2, <1>3, <2>1, <2>3, ExceptionTaken
  <2> QED
    BY <1>5, <2>4 DEF ConfusesOnlyLookalikes
<1> QED
  BY <1>3, <1>4, <1>5

\* A command takes no reply but its own and those that look the same (commands.ts
\* isValidResponse): two reads of one length, two writes to the same registers, or
\* the exceptions of one function.
THEOREM TakesOnlyLookalikes == Spec => [](LengthIsTold => ConfusesOnlyLookalikes)
<1>1. FInv /\ NoiseIsRejected => ConfusesOnlyLookalikes
  <2>1. outcome \notin {"completed", "exception"} => ConfusesOnlyLookalikes
    BY DEF ConfusesOnlyLookalikes
  <2> QED
    BY <2>1, LookalikesTaken
<1> QED
  BY <1>1, FramesInvariant, NoiseIsDetected, PTL
-----------------------------------------------------------------------------
(* Controls.  A write in the queue belongs to a field that can be set, and *)
(* carries what a read will show of it; so does a register that was        *)
(* written, until the device changes it.                                   *)

\* The values that a register of the field holds, and what is published of one.
Accepts(field) == {v \in RegisterValue : field.kind = "bool" => v \in {0, 1}}
Says(field, value) == Serialize(field, <<value>>)

Writes ==
  UNION {{[address |-> Struct[k].address, value |-> v, asked |-> Says(Struct[k], v)] : v \in Accepts(Struct[k])} :
           k \in Setters(TheDefinition, control)}

ControlTypeInv ==
  /\ model \in Models
  /\ DOMAIN registers = AddressesOf(model, control)
  /\ DOMAIN asked = AddressesOf(model, control)

AskedInv ==
  \A a \in DOMAIN asked :
    asked[a] # Nothing =>
      \E k \in Setters(TheDefinition, control) :
        Struct[k].address = a /\ Says(Struct[k], registers[a]) = asked[a]

RefusedInv ==
  \A j \in DOMAIN Struct :
    Struct[j].name = control /\ refused[1] \in OptionsOf(Struct[j]) => refused = Text("OFF")

ControlInv ==
  /\ ControlTypeInv
  /\ queue \in Seq(Writes)
  /\ AskedInv
  /\ RefusedInv
-----------------------------------------------------------------------------
LEMMA NotARegisterValue == -1 \notin RegisterValue /\ 0 \in RegisterValue /\ 1 \in RegisterValue
  BY DEF RegisterValue

LEMMA TableFacts ==
  ASSUME model \in Models
  PROVE  /\ \A i \in DOMAIN Struct : i \in Nat /\ IsField(Struct[i])
         /\ \A i \in Setters(TheDefinition, control) :
              /\ i \in DOMAIN Struct /\ Struct[i].name = control
              /\ IsAddressWritable(TheDefinition, Struct[i].address)
              /\ IsOneRegister(Struct[i])
              /\ \A j \in DOMAIN Struct :
                   Struct[j].name = control => Struct[j].kind = Struct[i].kind /\ Struct[j].of = Struct[i].of
         /\ \A window \in Windows : IsWindow(window)
<1>1. \A i \in Setters(TheDefinition, control) :
        /\ i \in DOMAIN Struct /\ Struct[i].name = control
        /\ IsAddressWritable(TheDefinition, Struct[i].address)
  BY DEF Setters, Struct
<1>2. \A i \in DOMAIN Struct : i \in Nat /\ IsField(Struct[i])
  BY TablesAssumption, Zenon DEF TablesAssumption, Struct, TheDefinition
<1>3. \A window \in Windows : IsWindow(window)
  BY TablesAssumption, Zenon DEF TablesAssumption, Windows, TheDefinition
<1>4. \A i \in DOMAIN Struct :
        IsAddressWritable(TheDefinition, Struct[i].address) =>
           /\ IsOneRegister(Struct[i])
           /\ \A j \in DOMAIN Struct :
                Struct[j].name = Struct[i].name => Struct[j].kind = Struct[i].kind /\ Struct[j].of = Struct[i].of
  BY TablesAssumption, Zenon DEF TablesAssumption, Struct, TheDefinition
<1> QED BY <1>1, <1>2, <1>3, <1>4, Zenon

\* A table of the model does not change with the state of its control.
LEMMA SameTables ==
  ASSUME model' = model, control' = control
  PROVE  /\ TheDefinition' = TheDefinition /\ Struct' = Struct /\ Windows' = Windows
         /\ Setters(TheDefinition, control)' = Setters(TheDefinition, control)
         /\ Writes' = Writes
<1>1. TheDefinition' = TheDefinition /\ Struct' = Struct
  BY DEF TheDefinition, Struct
<1>2. Windows' = Windows
  BY <1>1 DEF Windows
<1>3. Setters(TheDefinition, control)' = Setters(TheDefinition, control)
  BY <1>1
<1>4. Writes' = Writes
  BY <1>1, <1>3 DEF Writes
<1> QED BY <1>1, <1>2, <1>3, <1>4

\* A payload is what the value it is encoded to reads back as, where it is accepted,
\* and where it is not, it is no option of the field but the text OFF.
LEMMA EncodedIsEchoed ==
  ASSUME model \in Models, NEW k \in Setters(TheDefinition, control),
         NEW i \in DOMAIN Struct, Struct[i].name = control, NEW payload \in Payloads(Struct[i])
  PROVE  /\ IsUint16(Encode(Struct[k], payload)) =>
              /\ Encode(Struct[k], payload) \in Accepts(Struct[k])
              /\ Says(Struct[k], Encode(Struct[k], payload)) = Echo(Struct[k], payload)
         /\ ~IsUint16(Encode(Struct[k], payload)) =>
              \A j \in DOMAIN Struct :
                Struct[j].name = control /\ payload[1] \in OptionsOf(Struct[j]) => payload = Text("OFF")
<1> DEFINE field == Struct[k]
           value == Encode(field, payload)
           Goal == /\ IsUint16(value) => value \in Accepts(field) /\ Says(field, value) = Echo(field, payload)
                   /\ ~IsUint16(value) => (payload[1] \in OptionsOf(field) => payload = Text("OFF"))
<1>1. IsField(field) /\ IsOneRegister(field)
  BY TableFacts
<1>10. \A j \in DOMAIN Struct : Struct[j].name = control => OptionsOf(Struct[j]) = OptionsOf(field)
  BY TableFacts DEF OptionsOf
<1> HIDE DEF field
<1>11. field.kind = "uint" \/ field.kind = "bool" \/ field.kind = "enum"
  BY <1>1 DEF IsOneRegister
<1>12. ASSUME NEW name \in OptionsOf(field)
       PROVE  /\ field.kind = "enum" /\ name \in DOMAIN field.of /\ AreOptions(field.of)
              /\ name # "ON" /\ name # "digits"
  BY <1>1 DEF OptionsOf, IsField, AreOptions
<1>2. payload \in {Text("ON"), Text("OFF")} \cup {Digits(<<n>>) : n \in Sample} \cup {Text(name) : name \in OptionsOf(field)}
  BY <1>10, Zenon DEF Payloads
<1>3. ASSUME NEW n \in Sample, payload = Digits(<<n>>) PROVE Goal
  <2>1. payload[1] = "digits" /\ payload[2][1] = n /\ IsNumber(payload)
    BY <1>3 DEF Digits, IsNumber
  <2>2. payload[1] \notin OptionsOf(field)
    BY <1>12, <2>1
  <2>3. CASE field.kind = "bool"
    BY <2>1, <2>2, <2>3, NotARegisterValue DEF Encode, IsUint16
  <2>4. CASE field.kind = "uint"
    <3>1. value = n
      BY <2>1, <2>4 DEF Encode
    <3>2. Says(field, n) = payload /\ Echo(field, payload) = payload
      BY <1>3, <2>4 DEF Says, Serialize, Echo
    <3> QED BY <2>2, <2>4, <3>1, <3>2 DEF Accepts, IsUint16
  <2>5. CASE field.kind = "enum"
    <3>1. value = n
      BY <2>1, <2>5 DEF Encode
    <3>2. Says(field, n) = Echo(field, payload)
      BY <2>1, <2>5 DEF Says, Serialize, Echo
    <3> QED BY <2>2, <2>5, <3>1, <3>2 DEF Accepts, IsUint16
  <2> QED BY <1>11, <2>3, <2>4, <2>5
<1>4. ASSUME NEW t, payload = Text(t), t # "digits" PROVE ~IsNumber(payload) /\ payload[1] = t /\ Echo(field, payload) = payload
  BY <1>4 DEF Text, IsNumber, Echo
<1>5. \A s, t : Text(s) = Text(t) => s = t
  BY DEF Text
<1>6. ASSUME payload \in {Text("ON"), Text("OFF")} PROVE Goal
  <2>1. PICK t \in {"ON", "OFF"} : payload = Text(t)
    BY <1>6
  <2>2. ~IsNumber(payload) /\ payload[1] = t /\ Echo(field, payload) = payload /\ IsBoolean(payload)
    BY <1>4, <1>6, <2>1 DEF IsBoolean
  <2>3. CASE field.kind = "bool"
    <3>1. value = IF t = "ON" THEN 1 ELSE 0
      BY <1>5, <2>1, <2>2, <2>3 DEF Encode
    <3>2. Says(field, value) = Text(t)
      BY <2>1, <2>3, <3>1 DEF Says, Serialize, SerializeBool
    <3>3. value \in {0, 1}
      BY <3>1
    <3> QED BY <2>1, <2>2, <3>2, <3>3, NotARegisterValue DEF Accepts, IsUint16
  <2>4. CASE field.kind # "bool"
    <3>1. ~IsUint16(value)
      BY <2>2, <2>4, NotARegisterValue DEF Encode, IsUint16
    <3>2. t # "ON" \/ payload[1] \notin OptionsOf(field)
      BY <1>12, <2>2
    <3> QED BY <2>1, <3>1, <3>2
  <2> QED BY <2>3, <2>4
<1>7. ASSUME NEW name \in OptionsOf(field), payload = Text(name), payload \notin {Text("ON"), Text("OFF")} PROVE Goal
  <2>1. field.kind = "enum" /\ name \in DOMAIN field.of /\ name # "digits" /\ AreOptions(field.of)
    BY <1>12
  <2>2. ~IsNumber(payload) /\ payload[1] = name /\ Echo(field, payload) = payload /\ ~IsBoolean(payload)
    BY <1>4, <1>7, <2>1 DEF IsBoolean
  <2>3. value = field.of[name]
    BY <2>1, <2>2 DEF Encode
  <2>4. value \in RegisterValue
    BY <2>1, <2>3 DEF AreOptions
  <2>5. Says(field, value) = SerializeEnum(field.of, value)
    BY <2>1 DEF Says, Serialize
  <2>6. (CHOOSE other \in DOMAIN field.of : field.of[other] = value) = name
    BY <2>1, <2>3 DEF AreOptions
  <2>7. Says(field, value) = Text(name)
    BY <2>1, <2>3, <2>5, <2>6 DEF SerializeEnum
  <2> QED BY <1>7, <2>1, <2>2, <2>4, <2>7 DEF Accepts, IsUint16
<1>8. Goal
  BY <1>2, <1>3, <1>6, <1>7
<1> QED BY <1>8, <1>10 DEF field
-----------------------------------------------------------------------------
LEMMA ControlInitInv == ControlInit => ControlInv
<1> SUFFICES ASSUME ControlInit PROVE ControlInv
  OBVIOUS
<1>1. ControlTypeInv
  BY DEF ControlInit, ControlTypeInv
<1>2. queue \in Seq(Writes)
  BY DEF ControlInit
<1>3. AskedInv
  BY DEF ControlInit, AskedInv
<1>4. RefusedInv
  <2>1. refused[1] = ""
    BY DEF ControlInit, Nothing, Text
  <2>2. ASSUME NEW j \in DOMAIN Struct PROVE "" \notin OptionsOf(Struct[j])
    <3>1. IsField(Struct[j])
      BY <1>1, TableFacts DEF ControlTypeInv
    <3> QED BY <3>1 DEF OptionsOf, IsField, AreOptions
  <2> QED BY <2>1, <2>2 DEF RefusedInv
<1> QED BY <1>1, <1>2, <1>3, <1>4 DEF ControlInv

\* What holds of the tables, the queue and the registers while they stay as they are.
LEMMA KeptParts ==
  ASSUME ControlInv, model' = model, control' = control
  PROVE  /\ UNCHANGED <<registers, asked>> => ControlTypeInv' /\ AskedInv'
         /\ queue' \in Seq(Writes) => queue' \in Seq(Writes)'
         /\ UNCHANGED refused => RefusedInv'
<1>1. ASSUME UNCHANGED <<registers, asked>> PROVE ControlTypeInv' /\ AskedInv'
  BY <1>1, SameTables DEF ControlInv, ControlTypeInv, AskedInv, AddressesOf
<1>2. ASSUME queue' \in Seq(Writes) PROVE queue' \in Seq(Writes)'
  BY <1>2, SameTables
<1>3. ASSUME UNCHANGED refused PROVE RefusedInv'
  BY <1>3, SameTables DEF ControlInv, RefusedInv
<1> QED BY <1>1, <1>2, <1>3

LEMMA CommandKeeps ==
  ASSUME ControlInv, NEW i \in DOMAIN Struct, Struct[i].name = control,
         NEW payload \in Payloads(Struct[i]), HandleIncomingCommand(payload)
  PROVE  ControlInv'
<1>1. PICK position \in Setters(TheDefinition, control) :
        IF IsUint16(Encode(Struct[position], payload))
        THEN /\ queue' = Append(queue, [address |-> Struct[position].address,
                                        value |-> Encode(Struct[position], payload),
                                        asked |-> Echo(Struct[position], payload)])
             /\ UNCHANGED refused
        ELSE refused' = payload /\ UNCHANGED queue
  BY DEF HandleIncomingCommand
<1>2. model \in Models /\ queue \in Seq(Writes) /\ UNCHANGED <<model, control, registers, asked>>
  BY DEF HandleIncomingCommand, ControlInv, ControlTypeInv
<1>3. ControlTypeInv' /\ AskedInv'
  BY <1>2, KeptParts
<1>4. CASE IsUint16(Encode(Struct[position], payload))
  <2> DEFINE write == [address |-> Struct[position].address,
                       value |-> Encode(Struct[position], payload),
                       asked |-> Echo(Struct[position], payload)]
  <2>1. write \in Writes
    <3>1. Encode(Struct[position], payload) \in Accepts(Struct[position])
          /\ Says(Struct[position], Encode(Struct[position], payload)) = Echo(Struct[position], payload)
      BY <1>2, <1>4, EncodedIsEchoed
    <3>2. PICK v \in Accepts(Struct[position]) :
            v = Encode(Struct[position], payload) /\ Says(Struct[position], v) = Echo(Struct[position], payload)
      BY <3>1
    <3>3. write = [address |-> Struct[position].address, value |-> v, asked |-> Says(Struct[position], v)]
      BY <3>2
    <3> HIDE DEF write
    <3> QED BY <3>3 DEF Writes
  <2>2. queue' = Append(queue, write) /\ UNCHANGED refused
    BY <1>1, <1>4
  <2> HIDE DEF write
  <2>3. queue' \in Seq(Writes)
    BY <1>2, <2>1, <2>2, AppendProperties
  <2> QED BY <1>2, <1>3, <2>2, <2>3, KeptParts DEF ControlInv
<1>5. CASE ~IsUint16(Encode(Struct[position], payload))
  <2>1. refused' = payload /\ UNCHANGED queue
    BY <1>1, <1>5
  <2>2. \A j \in DOMAIN Struct :
          Struct[j].name = control /\ payload[1] \in OptionsOf(Struct[j]) => payload = Text("OFF")
    BY <1>2, <1>5, EncodedIsEchoed
  <2>3. RefusedInv'
    BY <1>2, <2>1, <2>2, SameTables DEF RefusedInv
  <2> QED BY <1>2, <1>3, <2>1, <2>3, KeptParts DEF ControlInv
<1> QED BY <1>4, <1>5

LEMMA PerformWriteKeeps == ControlInv /\ PerformWrite => ControlInv'
<1> SUFFICES ASSUME ControlInv, PerformWrite PROVE ControlInv'
  OBVIOUS
<1> DEFINE write == Head(queue)
<1>1. queue \in Seq(Writes) /\ queue # <<>> /\ queue' = Tail(queue) /\ UNCHANGED <<model, control, refused>>
  BY DEF PerformWrite, ControlInv
<1>2. queue' \in Seq(Writes) /\ write \in Writes
  BY <1>1, HeadTailProperties
<1>3. \/ /\ registers' = [registers EXCEPT ![write.address] = write.value]
         /\ asked' = [asked EXCEPT ![write.address] = write.asked]
      \/ UNCHANGED <<registers, asked>>
  BY DEF PerformWrite
<1> HIDE DEF write
<1>4. ASSUME registers' = [registers EXCEPT ![write.address] = write.value],
             asked' = [asked EXCEPT ![write.address] = write.asked]
      PROVE  ControlTypeInv' /\ AskedInv'
  <2>1. PICK k \in Setters(TheDefinition, control), v \in RegisterValue :
          write = [address |-> Struct[k].address, value |-> v, asked |-> Says(Struct[k], v)]
    BY <1>2 DEF Writes, Accepts
  <2>2. DOMAIN registers = AddressesOf(model, control) /\ DOMAIN asked = AddressesOf(model, control) /\ model \in Models
    BY DEF ControlInv, ControlTypeInv
  <2>3. ControlTypeInv'
    BY <1>1, <1>4, <2>2 DEF ControlTypeInv, AddressesOf
  <2>4. write.address = Struct[k].address /\ write.asked = Says(Struct[k], write.value)
    BY <2>1
  <2>5. ASSUME NEW a \in DOMAIN asked, asked'[a] # Nothing
        PROVE  \E l \in Setters(TheDefinition, control) :
                 Struct[l].address = a /\ Says(Struct[l], registers'[a]) = asked'[a]
    <3>1. CASE a = write.address
      BY <1>4, <2>2, <2>4, <3>1
    <3>2. CASE a # write.address
      <4>1. asked'[a] = asked[a] /\ registers'[a] = registers[a]
        BY <1>4, <2>2, <3>2
      <4> QED BY <2>5, <4>1 DEF ControlInv, AskedInv
    <3> QED BY <3>1, <3>2
  <2>6. DOMAIN asked' = DOMAIN asked
    BY <1>4
  <2>7. AskedInv'
    BY <1>1, <2>5, <2>6, SameTables DEF AskedInv
  <2> QED BY <2>3, <2>7
<1>5. ControlTypeInv' /\ AskedInv'
  BY <1>1, <1>3, <1>4, KeptParts
<1> QED BY <1>1, <1>2, <1>5, KeptParts DEF ControlInv

LEMMA DeviceChangesKeeps ==
  ASSUME ControlInv, NEW a \in DOMAIN registers, DeviceChanges(a) PROVE ControlInv'
<1>1. PICK value : registers' = [registers EXCEPT ![a] = value]
  BY DEF DeviceChanges
<1>2. asked' = [asked EXCEPT ![a] = Nothing] /\ UNCHANGED <<model, control, queue, refused>>
  BY DEF DeviceChanges
<1>3. DOMAIN registers = AddressesOf(model, control) /\ DOMAIN asked = AddressesOf(model, control)
      /\ model \in Models /\ queue \in Seq(Writes)
  BY DEF ControlInv, ControlTypeInv
<1>4. ControlTypeInv'
  BY <1>1, <1>2, <1>3 DEF ControlTypeInv, AddressesOf
<1>5. AskedInv'
  <2>1. ASSUME NEW b \in DOMAIN asked, asked'[b] # Nothing
        PROVE  \E l \in Setters(TheDefinition, control) :
                 Struct[l].address = b /\ Says(Struct[l], registers'[b]) = asked'[b]
    <3>1. b # a
      BY <1>2, <2>1
    <3>2. asked'[b] = asked[b] /\ registers'[b] = registers[b]
      BY <1>1, <1>2, <1>3, <3>1
    <3> QED BY <2>1, <3>2 DEF ControlInv, AskedInv
  <2>2. DOMAIN asked' = DOMAIN asked
    BY <1>2
  <2> QED BY <1>2, <2>1, <2>2, SameTables DEF AskedInv
<1> QED BY <1>2, <1>3, <1>4, <1>5, KeptParts DEF ControlInv

LEMMA ControlStepInv == ControlInv /\ [ControlNext]_controlVars => ControlInv'
<1> SUFFICES ASSUME ControlInv, [ControlNext]_controlVars PROVE ControlInv'
  OBVIOUS
<1>1. ASSUME NEW i \in DOMAIN Struct, Struct[i].name = control, NEW payload \in Payloads(Struct[i]),
             HandleIncomingCommand(payload)
      PROVE  ControlInv'
  BY <1>1, CommandKeeps
<1>2. CASE PerformWrite
  BY <1>2, PerformWriteKeeps
<1>3. ASSUME UNCHANGED <<model, control, registers, queue, asked, refused>> PROVE ControlInv'
  BY <1>3, KeptParts DEF ControlInv
<1>4. ASSUME NEW window \in Windows, Read(window) PROVE ControlInv'
  BY <1>3, <1>4 DEF Read
<1>5. ASSUME NEW a \in DOMAIN registers, DeviceChanges(a) PROVE ControlInv'
  BY <1>5, DeviceChangesKeeps
<1>6. CASE UNCHANGED controlVars
  BY <1>3, <1>6 DEF controlVars
<1> QED BY <1>1, <1>2, <1>4, <1>5, <1>6 DEF ControlNext

LEMMA ControlInvariant == ControlSpec => []ControlInv
BY ControlInitInv, ControlStepInv, PTL DEF ControlSpec

\* What is sent for a control (buildSetterCommand): a write that waits in the queue
\* goes to a writable register of a field of that name, with a value it can take,
\* and of an enum's names only OFF is refused, for every payload and any number of them.
THEOREM WritesTheField == ControlSpec => []CommandWritesItsField
<1>1. ControlInv => CommandWritesItsField
  <2> SUFFICES ASSUME ControlInv PROVE CommandWritesItsField
    OBVIOUS
  <2>1. ASSUME NEW i \in DOMAIN queue
        PROVE  /\ IsAddressWritable(TheDefinition, queue[i].address)
               /\ \E j \in DOMAIN Struct :
                    /\ Struct[j].name = control
                    /\ Struct[j].address = queue[i].address
                    /\ Struct[j].kind = "bool" => queue[i].value \in {0, 1}
    <3>1. queue[i] \in Writes
      BY LenProperties DEF ControlInv
    <3>2. PICK k \in Setters(TheDefinition, control) : \E v \in Accepts(Struct[k]) :
            queue[i] = [address |-> Struct[k].address, value |-> v, asked |-> Says(Struct[k], v)]
      BY <3>1 DEF Writes
    <3>3. queue[i].address = Struct[k].address /\ queue[i].value \in Accepts(Struct[k])
      BY <3>2
    <3>4. k \in DOMAIN Struct /\ Struct[k].name = control /\ IsAddressWritable(TheDefinition, Struct[k].address)
      BY TableFacts DEF ControlInv, ControlTypeInv
    <3>5. Struct[k].kind = "bool" => queue[i].value \in {0, 1}
      BY <3>3 DEF Accepts
    <3> QED BY <3>3, <3>4, <3>5
  <2> QED BY <2>1 DEF CommandWritesItsField, ControlInv, RefusedInv
<1> QED BY <1>1, ControlInvariant, PTL
-----------------------------------------------------------------------------
(* What a read shows.                                                      *)

LEMMA OneWord == ASSUME NEW s, NEW d \in Int PROVE SubSeq(s, d, d) = <<s[d]>>
<1> DEFINE part == SubSeq(s, d, d)
<1>1. \A i \in d .. d : s[i] \in {s[d]}
  OBVIOUS
<1>2. part \in Seq({s[d]}) /\ Len(part) = 1 /\ part[1] = s[d]
  <2>1. /\ part \in Seq({s[d]})
        /\ Len(part) = IF d <= d THEN d - d + 1 ELSE 0
        /\ \A i \in 1 .. d - d + 1 : part[i] = s[d + i - 1]
    BY <1>1, SubSeqProperties
  <2> HIDE DEF part
  <2> QED BY <2>1
<1> HIDE DEF part
<1>3. part = <<s[d]>>
  BY <1>2
<1> QED BY <1>3 DEF part

\* A window of the polling cycle shows each name once.
LEMMA WindowFacts ==
  ASSUME SchemaFitsWindows, model \in Models, NEW window \in Windows
  PROVE  /\ window[1] \in Nat /\ window[2] \in Nat
         /\ \A j, k \in DOMAIN Struct :
              Struct[j].name = Struct[k].name /\ Covers(window, Struct[j]) /\ Covers(window, Struct[k]) => j = k
<1>1. IsWindow(window)
  BY TableFacts
<1>2. \A j, k \in DOMAIN Struct :
        Struct[j].name = Struct[k].name /\ Covers(window, Struct[j]) /\ Covers(window, Struct[k]) => j = k
  BY Zenon DEF SchemaFitsWindows, Fits, Windows, TheDefinition, Struct
<1> QED BY <1>1, <1>2 DEF IsWindow

LEMMA AddressOfControl ==
  ASSUME NEW j \in DOMAIN Struct, Struct[j].name = control
  PROVE  Struct[j].address \in AddressesOf(model, control)
<1>1. Struct[j] \in ToSet(Definitions[model].struct)
  BY DEF ToSet, Struct, TheDefinition
<1> QED BY <1>1 DEF AddressesOf

\* The words that a read hands to the field of one register are that register's.
LEMMA WordOfRegister ==
  ASSUME ControlTypeInv, NEW window, window[1] \in Nat, window[2] \in Nat, NEW j \in DOMAIN Struct,
         Struct[j].name = control, Struct[j].size = 1, Struct[j].address \in Nat, Covers(window, Struct[j])
  PROVE  Slice(window, Words(window), Struct[j]) = <<registers[Struct[j].address]>>
<1> DEFINE at == Struct[j].address - window[1] + 1
<1>1. at \in 1 .. window[2] /\ window[1] + at - 1 = Struct[j].address /\ Struct[j].address - window[1] + Struct[j].size = at
  BY DEF Covers
<1>2. Slice(window, Words(window), Struct[j]) = SubSeq(Words(window), at, at)
  BY <1>1 DEF Slice
<1>3. Struct[j].address \in DOMAIN registers
  BY AddressOfControl DEF ControlTypeInv
<1> HIDE DEF at
<1>4. Words(window)[at] = registers[Struct[j].address]
  BY <1>1, <1>3 DEF Words
<1>5. at \in Int
  BY <1>1
<1>6. SubSeq(Words(window), at, at) = <<Words(window)[at]>>
  BY <1>5, OneWord
<1> QED BY <1>2, <1>4, <1>6

LEMMA ReadShows ==
  ASSUME ControlInv, SchemaFitsWindows, NEW window \in Windows, Read(window),
         NEW j \in DOMAIN Struct, Struct[j].name = control, asked[Struct[j].address] # Nothing,
         Covers(window, Struct[j])
  PROVE  topic' = asked[Struct[j].address]
<1> DEFINE a == Struct[j].address
           shown == {i \in Parsed(Struct, window, Words(window)) : Struct[i].name = control}
<1>1. ControlTypeInv /\ model \in Models
  BY DEF ControlInv, ControlTypeInv
<1>2. window[1] \in Nat /\ window[2] \in Nat
      /\ \A i, k \in DOMAIN Struct :
           Struct[i].name = Struct[k].name /\ Covers(window, Struct[i]) /\ Covers(window, Struct[k]) => i = k
  BY <1>1, WindowFacts
<1>3. a \in Nat /\ Struct[j].size \in Nat \ {0} /\ j \in Nat
  BY <1>1, TableFacts DEF IsField
<1>4. a \in DOMAIN asked
  BY <1>1, AddressOfControl DEF ControlTypeInv
<1>5. PICK k \in Setters(TheDefinition, control) : Struct[k].address = a /\ Says(Struct[k], registers[a]) = asked[a]
  BY <1>4 DEF ControlInv, AskedInv
<1>6. k \in DOMAIN Struct /\ Struct[k].name = control /\ Struct[k].size = 1 /\ Struct[k].kind # "decimal"
  BY <1>1, TableFacts DEF IsOneRegister
<1>7. Covers(window, Struct[k])
  BY <1>2, <1>3, <1>5, <1>6 DEF Covers
<1>8. k = j
  BY <1>2, <1>6, <1>7
<1>9. Slice(window, Words(window), Struct[j]) = <<registers[a]>>
  BY <1>1, <1>2, <1>3, <1>6, <1>8, WordOfRegister
<1>10. shown = {j}
  <2>1. j \in shown
    BY <1>6, <1>8 DEF Parsed, IsInRange
  <2>2. \A i \in shown : i = j
    BY <1>2 DEF Parsed
  <2> QED BY <2>1, <2>2
<1>11. topic' = IF shown = {} THEN topic
                ELSE Serialize(Struct[Max(shown)], Slice(window, Words(window), Struct[Max(shown)]))
  BY DEF Read
<1> HIDE DEF shown
<1>12. Max({j}) = j
  BY <1>3 DEF Max
<1>13. topic' = Serialize(Struct[j], Slice(window, Words(window), Struct[j]))
  BY <1>10, <1>11, <1>12
<1> QED BY <1>5, <1>8, <1>9, <1>13 DEF Says

\* What a command says is what the state topic shows after the next read that covers
\* the register, whatever came in between and whatever the payloads were, unless the
\* device has changed it; TLC finds the premise true of every table.
THEOREM ReadFollowsWrite == ControlSpec /\ []SchemaFitsWindows => StateFollowsCommand
<1> DEFINE Step ==
      \A window \in Windows : Read(window) =>
        \A j \in DOMAIN Struct :
          /\ Struct[j].name = control
          /\ asked[Struct[j].address] # Nothing
          /\ Covers(window, Struct[j])
          => topic' = asked[Struct[j].address]
<1>1. ControlInv /\ SchemaFitsWindows => Step
  BY ReadShows
<1>2. StateFollowsCommand <=> [][Step]_controlVars
  BY DEF StateFollowsCommand
<1> HIDE DEF Step
<1> QED BY <1>1, <1>2, ControlInvariant, PTL
=============================================================================

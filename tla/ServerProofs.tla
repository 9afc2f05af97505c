---------------------------- MODULE ServerProofs ----------------------------
(***************************************************************************)
(* The life of a server for any number of handles, services and threads:   *)
(* who keeps the Executor alive, and which objects a call may rely on.     *)
(* The first half is about the addresses and the names: what the functions *)
(* of Endpoint compute for every text, by induction over a number in the   *)
(* form of its least counterexample, and what pretty_name finds.           *)
(***************************************************************************)
EXTENDS Server, WellFoundedInduction, SequenceTheorems, FiniteSetTheorems,
        LoggingProofs, TLAPS

(* A set of natural numbers that is not empty has a least element.         *)
LEMMA LeastElement ==
  ASSUME NEW T, T \subseteq Nat, T # {}
  PROVE  \E m \in T : \A k \in T : m <= k
<1> DEFINE R == {p \in Nat \X Nat : p[1] < p[2]}
<1>1. IsWellFoundedOn(R, Nat)
    BY NatLessThanWellFounded DEF OpToRel
<1> HIDE DEF R
<1>2. PICK m \in T : \A k \in T : ~ (<<k, m>> \in R)
    BY <1>1, WFMin
<1>3. \A k \in T : k < m => <<k, m>> \in R
    BY DEF R
<1>4. \A k \in T : ~(k < m)
    BY <1>2, <1>3, Zenon
<1> QED BY <1>4

(* What an element of a set of integers needs to be Max or Min of it.      *)
LEMMA MaxIs ==
  ASSUME NEW S, S \subseteq Int, NEW m \in S, \A k \in S : k <= m
  PROVE  Max(S) = m
<1>1. \A x \in S : (\A y \in S : x >= y) => x = m
    OBVIOUS
<1>2. \A y \in S : m >= y
    OBVIOUS
<1> QED BY <1>1, <1>2 DEF Max

(* The same for the least element.                                         *)
LEMMA MinIs ==
  ASSUME NEW S, S \subseteq Int, NEW m \in S, \A k \in S : m <= k
  PROVE  Min(S) = m
<1>1. \A x \in S : (\A y \in S : x =< y) => x = m
    OBVIOUS
<1>2. \A y \in S : m =< y
    OBVIOUS
<1> QED BY <1>1, <1>2 DEF Min

(* A set of natural numbers up to n that is not empty has a maximum.       *)
LEMMA MaxIn ==
  ASSUME NEW n \in Nat, NEW S, S \subseteq 0 .. n, S # {}
  PROVE  Max(S) \in S /\ \A k \in S : k <= Max(S)
<1> DEFINE T == {j \in 0 .. n : n - j \in S}
<1>1. PICK k \in S : TRUE
    OBVIOUS
<1>2. n - k \in T
    BY <1>1
<1>3. PICK m \in T : \A j \in T : m <= j
    <2>1. T \subseteq Nat
        OBVIOUS
    <2> HIDE DEF T
    <2> QED BY <1>2, <2>1, LeastElement
<1>4. \A x \in S : n - x \in T
    OBVIOUS
<1>5. n - m \in S /\ S \subseteq Int /\ \A x \in S : x <= n - m
    BY <1>3, <1>4
<1>6. Max(S) = n - m
    <2> HIDE DEF T
    <2> QED BY <1>5, MaxIs
<1> QED BY <1>5, <1>6

(* A set of natural numbers that is not empty has a minimum.               *)
LEMMA MinIn ==
  ASSUME NEW S, S \subseteq Nat, S # {}
  PROVE  Min(S) \in S /\ \A k \in S : Min(S) <= k
<1>1. PICK m \in S : \A k \in S : m <= k
    BY LeastElement
<1>2. S \subseteq Int
    OBVIOUS
<1>3. Min(S) = m
    BY <1>1, <1>2, MinIs
<1> QED BY <1>1, <1>3

-----------------------------------------------------------------------------
(* The values of the beginnings of a text, as Numeral computes them.       *)
Step(s, v) == [k \in 0 .. Len(s) |-> IF k = 0 THEN 0 ELSE v[k - 1] * Base + ValueOf(s[k])]
(* The function that Numeral chooses.                                      *)
Values(s) == CHOOSE v : v = Step(s, v)

(* Numeral is the last of these values.                                    *)
LEMMA NumeralIsLast ==
  ASSUME NEW s
  PROVE  Numeral(s) = Values(s)[Len(s)]
BY DEF Numeral, Values, Step

(* The recursion of Numeral is well founded: such a function exists.       *)
LEMMA ValuesExist ==
  ASSUME NEW s \in Seq(STRING)
  PROVE  Values(s) = Step(s, Values(s))
<1> DEFINE Good(n, v) == v = [k \in 0 .. n |-> IF k = 0 THEN 0 ELSE v[k - 1] * Base + ValueOf(s[k])]
           Bad == {n \in Nat : \A v : ~Good(n, v)}
<1>1. Bad = {}
    <2> SUFFICES ASSUME Bad # {} PROVE FALSE
        OBVIOUS
    <2>1. PICK n \in Bad : \A k \in Bad : n <= k
        <3>1. Bad \subseteq Nat
            OBVIOUS
        <3> HIDE DEF Bad
        <3> QED BY <3>1, LeastElement
    <2>2. CASE n = 0
        <3>1. Good(0, [k \in 0 .. 0 |-> 0])
            OBVIOUS
        <3> QED BY <2>1, <2>2, <3>1
    <2>3. CASE n # 0
        <3>1. n \in Nat /\ n - 1 \in Nat
            BY <2>3
        <3>2. n - 1 \notin Bad
            <4> HIDE DEF Bad
            <4> QED BY <2>1, <3>1
        <3>3. PICK v : Good(n - 1, v)
            BY <3>1, <3>2
        <3> DEFINE w == [k \in 0 .. n |-> IF k = n THEN v[n - 1] * Base + ValueOf(s[n]) ELSE v[k]]
        <3>4. \A k \in 0 .. n : w[k] = IF k = 0 THEN 0 ELSE w[k - 1] * Base + ValueOf(s[k])
            BY <2>3, <3>1, <3>3
        <3>5. Good(n, w)
            BY <3>4
        <3> QED BY <2>1, <3>5
    <2> QED BY <2>2, <2>3
<1>2. \E v : v = Step(s, v)
    BY <1>1 DEF Step
<1> QED BY <1>2, Zenon DEF Values

(* The recursion, one digit at a time.                                     *)
LEMMA ValuesStep ==
  ASSUME NEW s \in Seq(STRING)
  PROVE  /\ Values(s)[0] = 0
         /\ \A k \in 1 .. Len(s) : Values(s)[k] = Values(s)[k - 1] * Base + ValueOf(s[k])
<1>1. \A k \in 0 .. Len(s) :
        Values(s)[k] = IF k = 0 THEN 0 ELSE Values(s)[k - 1] * Base + ValueOf(s[k])
    <2> DEFINE v == Values(s)
    <2>1. v = Step(s, v)
        BY ValuesExist
    <2> HIDE DEF v
    <2>2. v = [k \in 0 .. Len(s) |-> IF k = 0 THEN 0 ELSE v[k - 1] * Base + ValueOf(s[k])]
        BY <2>1 DEF Step
    <2>3. \A k \in 0 .. Len(s) : v[k] = IF k = 0 THEN 0 ELSE v[k - 1] * Base + ValueOf(s[k])
        BY <2>2
    <2> QED BY <2>3 DEF v
<1>2. Len(s) \in Nat
    OBVIOUS
<1> QED BY <1>1, <1>2

(* A text without digits has the value 0.                                  *)
LEMMA NumeralEmpty == Numeral(<< >>) = 0
<1>1. << >> \in Seq(STRING) /\ Len(<< >>) = 0
    OBVIOUS
<1> QED BY <1>1, NumeralIsLast, ValuesStep

(* A digit added at the end.                                               *)
LEMMA NumeralAppend ==
  ASSUME NEW s \in Seq(STRING), NEW ch \in STRING
  PROVE  Numeral(Append(s, ch)) = Numeral(s) * Base + ValueOf(ch)
<1> DEFINE t == Append(s, ch)
           Bad == {k \in 0 .. Len(s) : Values(t)[k] # Values(s)[k]}
<1>1. t \in Seq(STRING) /\ Len(t) = Len(s) + 1 /\ t[Len(s) + 1] = ch /\ Len(s) \in Nat
    <2>1. t \in Seq(STRING)
        BY AppendProperties
    <2>2. Len(t) = Len(s) + 1 /\ Len(s) \in Nat
        BY AppendProperties
    <2>3. t[Len(s) + 1] = ch
        BY AppendProperties
    <2> QED BY <2>1, <2>2, <2>3
<1>2. \A k \in 1 .. Len(s) : t[k] = s[k]
    BY AppendProperties
<1> HIDE DEF t
<1>3. Bad = {}
    <2> SUFFICES ASSUME Bad # {} PROVE FALSE
        OBVIOUS
    <2>1. PICK k \in Bad : \A j \in Bad : k <= j
        <3>1. Bad \subseteq Nat
            BY <1>1
        <3> HIDE DEF Bad
        <3> QED BY <3>1, LeastElement
    <2>2. k \in 0 .. Len(s) /\ Values(t)[k] # Values(s)[k]
        OBVIOUS
    <2>3. k # 0
        BY <2>2, <1>1, ValuesStep
    <2>4. k - 1 \in 0 .. Len(s) /\ k \in 1 .. Len(s) /\ k \in 1 .. Len(t)
        BY <2>2, <2>3, <1>1
    <2>5. k - 1 \notin Bad
        <3> HIDE DEF Bad
        <3> QED BY <2>1, <2>4
    <2>6. Values(t)[k - 1] = Values(s)[k - 1]
        BY <2>4, <2>5
    <2> QED BY <2>2, <2>4, <2>6, <1>1, <1>2, ValuesStep
<1>4. Values(t)[Len(s)] = Values(s)[Len(s)]
    BY <1>1, <1>3
<1>5. Values(t)[Len(s) + 1] = Values(t)[Len(s)] * Base + ValueOf(ch)
    <2>1. Len(s) + 1 \in 1 .. Len(t) /\ (Len(s) + 1) - 1 = Len(s)
        BY <1>1
    <2> QED BY <2>1, <1>1, ValuesStep
<1> QED BY <1>1, <1>4, <1>5, NumeralIsLast DEF t

-----------------------------------------------------------------------------
(* Every character of s is a digit.                                        *)
AllDigits(s) == \A i \in DOMAIN s : IsDigit(s[i])

(* There are at least two digits.                                          *)
LEMMA BaseType == Base \in Nat /\ Base > 1
BY DigitsAssumption DEF Base

(* A digit has a value below the base, and each such value has its digit.  *)
LEMMA DigitValue ==
  /\ \A ch \in STRING : IsDigit(ch) => ValueOf(ch) \in 0 .. Base - 1
  /\ \A n \in 0 .. Base - 1 : /\ Digits[n + 1] \in STRING
                              /\ IsDigit(Digits[n + 1])
                              /\ ValueOf(Digits[n + 1]) = n
<1>1. ASSUME NEW ch \in STRING, IsDigit(ch)
      PROVE  ValueOf(ch) \in 0 .. Base - 1
    <2>1. PICK d \in DOMAIN Digits : d = CHOOSE e \in DOMAIN Digits : Digits[e] = ch
        BY <1>1 DEF IsDigit
    <2>2. d \in 1 .. Len(Digits) /\ Len(Digits) \in Nat
        BY DigitsAssumption
    <2>3. ValueOf(ch) = d - 1
        BY <2>1, Zenon DEF ValueOf
    <2> QED BY <2>2, <2>3 DEF Base
<1>2. ASSUME NEW n \in 0 .. Base - 1
      PROVE  Digits[n + 1] \in STRING /\ IsDigit(Digits[n + 1]) /\ ValueOf(Digits[n + 1]) = n
    <2>1. n + 1 \in DOMAIN Digits /\ Digits[n + 1] \in STRING /\ n \in Nat
        BY DigitsAssumption DEF Base
    <2>2. (CHOOSE e \in DOMAIN Digits : Digits[e] = Digits[n + 1]) = n + 1
        BY <2>1, DigitsAssumption
    <2>3. IsDigit(Digits[n + 1])
        BY <2>1 DEF IsDigit
    <2>4. ValueOf(Digits[n + 1]) = (n + 1) - 1
        BY <2>2 DEF ValueOf
    <2> QED BY <2>1, <2>3, <2>4
<1> QED BY <1>1, <1>2

(* The value of a sequence of digits is a natural number.                  *)
LEMMA NumeralType ==
  ASSUME NEW s \in Seq(STRING), AllDigits(s)
  PROVE  Numeral(s) \in Nat
<1> DEFINE Bad == {k \in 0 .. Len(s) : Values(s)[k] \notin Nat}
<1>1. Bad = {}
    <2> SUFFICES ASSUME Bad # {} PROVE FALSE
        OBVIOUS
    <2>1. PICK k \in Bad : \A j \in Bad : k <= j
        <3>1. Bad \subseteq Nat
            OBVIOUS
        <3> HIDE DEF Bad
        <3> QED BY <3>1, LeastElement
    <2>2. k \in 0 .. Len(s) /\ Values(s)[k] \notin Nat
        OBVIOUS
    <2>3. k # 0
        BY <2>2, ValuesStep
    <2>4. k - 1 \in 0 .. Len(s) /\ k \in 1 .. Len(s)
        BY <2>2, <2>3
    <2>5. k - 1 \notin Bad
        <3> HIDE DEF Bad
        <3> QED BY <2>1, <2>4
    <2>6. Values(s)[k - 1] \in Nat
        BY <2>4, <2>5
    <2>7. ValueOf(s[k]) \in Nat
        <3>1. s[k] \in STRING /\ IsDigit(s[k])
            BY <2>4 DEF AllDigits
        <3>2. ValueOf(s[k]) \in 0 .. Base - 1
            BY <3>1, DigitValue
        <3> QED BY <3>2, BaseType
    <2>8. Values(s)[k] = Values(s)[k - 1] * Base + ValueOf(s[k])
        BY <2>4, ValuesStep
    <2> QED BY <2>2, <2>6, <2>7, <2>8, BaseType
<1>2. Len(s) \in 0 .. Len(s)
    OBVIOUS
<1> QED BY <1>1, <1>2, NumeralIsLast

-----------------------------------------------------------------------------
(* Quotient and last digit of a number.                                    *)
LEMMA Division ==
  ASSUME NEW n \in Nat
  PROVE  /\ n \div Base \in Nat
         /\ n % Base \in 0 .. Base - 1
         /\ n = (n \div Base) * Base + (n % Base)
         /\ n >= Base => n \div Base < n
<1> DEFINE b == Base
<1>1. b \in Nat /\ b > 1
    BY BaseType
<1> HIDE DEF b
<1>2. n \div b \in Int /\ n % b \in 0 .. b - 1 /\ n = b * (n \div b) + (n % b)
    BY <1>1
<1>3. n \div b \in Nat
    BY <1>1, <1>2
<1>4. ASSUME n >= b PROVE n \div b < n
    <2> DEFINE q == n \div b
    <2>1. q \in Nat /\ n >= b * q
        BY <1>1, <1>2, <1>3
    <2> HIDE DEF q
    <2>2. b * q >= 2 * q
        BY <1>1, <2>1
    <2>3. q < n
        BY <1>1, <1>4, <2>1, <2>2
    <2> QED BY <2>3 DEF q
<1>5. b * (n \div b) = (n \div b) * b
    BY <1>1, <1>3
<1> QED BY <1>2, <1>3, <1>4, <1>5 DEF b

(* The texts of the numbers up to n, as to_string computes them.           *)
Spell(n, d) ==
  [k \in 0 .. n |-> IF k < Base THEN <<Digits[k + 1]>>
                    ELSE Append(d[k \div Base], Digits[(k % Base) + 1])]
(* The function that to_string chooses.                                    *)
Spellings(n) == CHOOSE d : d = Spell(n, d)

(* to_string is the last of these texts.                                   *)
LEMMA ToStringIsLast ==
  ASSUME NEW n
  PROVE  to_string(n) = Spellings(n)[n]
BY DEF to_string, Spellings, Spell

(* The recursion of to_string is well founded: such a function exists.     *)
LEMMA SpellingsExist ==
  ASSUME NEW n \in Nat
  PROVE  Spellings(n) = Spell(n, Spellings(n))
<1> DEFINE Bad == {m \in Nat : \A d : d # Spell(m, d)}
<1>1. Bad = {}
    <2> SUFFICES ASSUME Bad # {} PROVE FALSE
        OBVIOUS
    <2>1. PICK m \in Bad : \A k \in Bad : m <= k
        <3>1. Bad \subseteq Nat
            OBVIOUS
        <3> HIDE DEF Bad
        <3> QED BY <3>1, LeastElement
    <2>2. CASE m = 0
        <3> DEFINE w == [k \in 0 .. m |-> <<Digits[k + 1]>>]
        <3>1. \A k \in 0 .. m : k < Base
            BY <2>2, BaseType
        <3>2. w = Spell(m, w)
            BY <3>1 DEF Spell
        <3> QED BY <2>1, <3>2
    <2>3. CASE m # 0
        <3>1. m \in Nat /\ m - 1 \in Nat
            BY <2>3
        <3>2. m - 1 \notin Bad
            <4> HIDE DEF Bad
            <4> QED BY <2>1, <3>1
        <3>3. PICK d : d = Spell(m - 1, d)
            BY <3>1, <3>2
        <3> DEFINE last == IF m < Base THEN <<Digits[m + 1]>>
                           ELSE Append(d[m \div Base], Digits[(m % Base) + 1])
                   w == [k \in 0 .. m |-> IF k = m THEN last ELSE d[k]]
        <3>4. ASSUME NEW k \in 0 .. m
              PROVE  w[k] = IF k < Base THEN <<Digits[k + 1]>>
                            ELSE Append(w[k \div Base], Digits[(k % Base) + 1])
            <4>1. k \in Nat /\ (k >= Base => k \div Base \in 0 .. m /\ k \div Base # m)
                BY <3>1, Division, BaseType
            <4>2. k >= Base => w[k \div Base] = d[k \div Base]
                BY <4>1
            <4>3. CASE k = m
                <5>1. w[k] = last
                    BY <4>3
                <5> HIDE DEF w
                <5> QED BY <4>1, <4>2, <4>3, <5>1, BaseType
            <4>4. CASE k # m
                <5>1. w[k] = d[k] /\ k \in 0 .. m - 1
                    BY <4>4, <3>1
                <5> HIDE DEF w
                <5>2. d[k] = IF k < Base THEN <<Digits[k + 1]>>
                             ELSE Append(d[k \div Base], Digits[(k % Base) + 1])
                    BY <3>3, <5>1 DEF Spell
                <5> QED BY <4>1, <4>2, <5>1, <5>2, BaseType
            <4> QED BY <4>3, <4>4
        <3>5. w = Spell(m, w)
            <4>1. Spell(m, w) = [k \in 0 .. m |-> w[k]]
                <5> HIDE DEF w
                <5> QED BY <3>4 DEF Spell
            <4> QED BY <4>1
        <3> QED BY <2>1, <3>5
    <2> QED BY <2>2, <2>3
<1>2. \E d : d = Spell(n, d)
    BY <1>1
<1> QED BY <1>2, Zenon DEF Spellings

(* The text of a number is that of its quotient and its last digit.        *)
LEMMA SpellingsStep ==
  ASSUME NEW n \in Nat, NEW k \in 0 .. n
  PROVE  Spellings(n)[k] = IF k < Base THEN <<Digits[k + 1]>>
                           ELSE Append(Spellings(n)[k \div Base], Digits[(k % Base) + 1])
<1> DEFINE d == Spellings(n)
<1>1. d = Spell(n, d)
    BY SpellingsExist
<1> HIDE DEF d
<1>2. d[k] = IF k < Base THEN <<Digits[k + 1]>>
             ELSE Append(d[k \div Base], Digits[(k % Base) + 1])
    BY <1>1 DEF Spell
<1> QED BY <1>2 DEF d

(* The text of m does not depend on the number to_string was called for.   *)
LEMMA SpellingsAgree ==
  ASSUME NEW n \in Nat, NEW m \in 0 .. n
  PROVE  Spellings(n)[m] = Spellings(m)[m]
<1> DEFINE Bad == {k \in 0 .. m : Spellings(n)[k] # Spellings(m)[k]}
<1>1. Bad = {}
    <2> SUFFICES ASSUME Bad # {} PROVE FALSE
        OBVIOUS
    <2>1. PICK k \in Bad : \A j \in Bad : k <= j
        <3>1. Bad \subseteq Nat
            OBVIOUS
        <3> HIDE DEF Bad
        <3> QED BY <3>1, LeastElement
    <2>2. k \in 0 .. m /\ Spellings(n)[k] # Spellings(m)[k]
        OBVIOUS
    <2>3. k \in Nat /\ m \in Nat /\ k \in 0 .. n
        BY <2>2
    <2>4. ~(k < Base)
        BY <2>2, <2>3, SpellingsStep
    <2>5. k \div Base \in 0 .. m /\ k \div Base < k /\ k \div Base \in Nat
        BY <2>2, <2>3, <2>4, Division, BaseType
    <2>6. k \div Base \notin Bad
        <3> HIDE DEF Bad
        <3> QED BY <2>1, <2>3, <2>5
    <2>7. Spellings(n)[k \div Base] = Spellings(m)[k \div Base]
        BY <2>5, <2>6
    <2> QED BY <2>2, <2>3, <2>4, <2>7, SpellingsStep
<1> QED BY <1>1

(* The recursion of to_string.                                             *)
LEMMA ToStringStep ==
  ASSUME NEW n \in Nat
  PROVE  to_string(n) = IF n < Base THEN <<Digits[n + 1]>>
                        ELSE Append(to_string(n \div Base), Digits[(n % Base) + 1])
<1>1. n \in 0 .. n
    OBVIOUS
<1>2. CASE n < Base
    BY <1>1, <1>2, SpellingsStep, ToStringIsLast
<1>3. CASE ~(n < Base)
    <2>1. n \div Base \in 0 .. n
        BY <1>3, Division, BaseType
    <2>2. Spellings(n)[n \div Base] = to_string(n \div Base)
        BY <2>1, SpellingsAgree, ToStringIsLast
    <2>3. Spellings(n)[n] = Append(Spellings(n)[n \div Base], Digits[(n % Base) + 1])
        BY <1>1, <1>3, SpellingsStep
    <2> QED BY <1>3, <2>2, <2>3, ToStringIsLast
<1> QED BY <1>2, <1>3

(* The text of a number is a sequence of digits, not empty, and its value  *)
(* is the number.                                                          *)
IsSpelling(s, n) == /\ s \in Seq(STRING) /\ s # << >>
                    /\ AllDigits(s)
                    /\ Numeral(s) = n

(* std::to_string spells every natural number.                             *)
LEMMA ToStringSpells ==
  ASSUME NEW n \in Nat
  PROVE  IsSpelling(to_string(n), n)
<1> DEFINE Bad == {k \in Nat : ~IsSpelling(to_string(k), k)}
<1>1. Bad = {}
    <2> SUFFICES ASSUME Bad # {} PROVE FALSE
        OBVIOUS
    <2>1. PICK k \in Bad : \A j \in Bad : k <= j
        <3>1. Bad \subseteq Nat
            OBVIOUS
        <3> HIDE DEF Bad
        <3> QED BY <3>1, LeastElement
    <2>2. k \in Nat /\ ~IsSpelling(to_string(k), k)
        OBVIOUS
    <2>3. CASE k < Base
        <3> DEFINE ch == Digits[k + 1]
        <3>1. ch \in STRING /\ IsDigit(ch) /\ ValueOf(ch) = k
            <4>1. k \in 0 .. Base - 1
                BY <2>2, <2>3, BaseType
            <4> QED BY <4>1, DigitValue
        <3>2. to_string(k) = <<ch>>
            BY <2>2, <2>3, ToStringStep
        <3> HIDE DEF ch
        <3>3. <<ch>> \in Seq(STRING) /\ <<ch>> # << >> /\ AllDigits(<<ch>>)
            <4>1. <<ch>> \in Seq(STRING)
                <5>1. << >> \in Seq(STRING) /\ Append(<< >>, ch) = <<ch>>
                    OBVIOUS
                <5> QED BY <3>1, <5>1, AppendProperties
            <4>2. <<ch>> # << >> /\ DOMAIN <<ch>> = {1} /\ <<ch>>[1] = ch
                OBVIOUS
            <4>3. AllDigits(<<ch>>)
                BY <3>1, <4>2 DEF AllDigits
            <4> QED BY <4>1, <4>2, <4>3
        <3>4. Numeral(<<ch>>) = k
            <4>1. << >> \in Seq(STRING) /\ Append(<< >>, ch) = <<ch>>
                BY <3>1
            <4>2. Numeral(<<ch>>) = Numeral(<< >>) * Base + ValueOf(ch)
                BY <3>1, <4>1, NumeralAppend
            <4> QED BY <2>2, <3>1, <4>2, NumeralEmpty, BaseType
        <3> QED BY <2>2, <3>2, <3>3, <3>4 DEF IsSpelling
    <2>4. CASE ~(k < Base)
        <3> DEFINE q == k \div Base
                   r == k % Base
                   ch == Digits[r + 1]
                   s == to_string(q)
        <3>1. q \in Nat /\ q < k /\ r \in 0 .. Base - 1 /\ k = q * Base + r
            BY <2>2, <2>4, Division, BaseType
        <3>2. to_string(k) = Append(s, ch)
            BY <2>2, <2>4, ToStringStep
        <3> HIDE DEF q, r
        <3>3. IsSpelling(s, q)
            <4>1. q \notin Bad
                <5> HIDE DEF Bad
                <5> QED BY <2>1, <2>2, <3>1
            <4> QED BY <3>1, <4>1
        <3>4. ch \in STRING /\ IsDigit(ch) /\ ValueOf(ch) = r
            BY <3>1, DigitValue
        <3> HIDE DEF s, ch
        <3>5. s \in Seq(STRING) /\ AllDigits(s) /\ Numeral(s) = q
            BY <3>3 DEF IsSpelling
        <3>6. Append(s, ch) \in Seq(STRING) /\ Append(s, ch) # << >>
            <4>1. ASSUME NEW S, NEW t \in Seq(S), NEW e \in S
                  PROVE  Append(t, e) \in Seq(S) /\ Append(t, e) # << >>
                OBVIOUS
            <4> QED BY <3>4, <3>5, <4>1
        <3>7. AllDigits(Append(s, ch))
            <4> SUFFICES ASSUME NEW i \in DOMAIN Append(s, ch)
                         PROVE  IsDigit(Append(s, ch)[i])
                BY DEF AllDigits
            <4>1. i \in 1 .. Len(s) + 1 /\ Len(s) \in Nat
                BY <3>4, <3>5, AppendProperties
            <4>2. CASE i = Len(s) + 1
                <5>1. Append(s, ch)[i] = ch
                    BY <3>4, <3>5, <4>2, AppendProperties
                <5> QED BY <3>4, <5>1
            <4>3. CASE i # Len(s) + 1
                <5>1. i \in 1 .. Len(s) /\ i \in DOMAIN s
                    BY <3>5, <4>1, <4>3
                <5>2. Append(s, ch)[i] = s[i]
                    BY <3>4, <3>5, <5>1, AppendProperties
                <5> QED BY <3>5, <5>1, <5>2 DEF AllDigits
            <4> QED BY <4>2, <4>3
        <3>8. Numeral(Append(s, ch)) = k
            BY <3>1, <3>4, <3>5, NumeralAppend
        <3> QED BY <2>2, <3>2, <3>6, <3>7, <3>8 DEF IsSpelling
    <2> QED BY <2>3, <2>4
<1> QED BY <1>1

-----------------------------------------------------------------------------
(* stoi of a text that is all digits and no larger than an int.            *)
LEMMA StoiOfDigits ==
  ASSUME NEW s \in Seq(STRING), s # << >>, AllDigits(s), Numeral(s) < IntSpace
  PROVE  stoi(s) = <<Numeral(s)>>
<1> DEFINE Prefixes == {k \in 0 .. Len(s) : \A i \in 1 .. k : IsDigit(s[i])}
<1>1. Len(s) \in Nat /\ Len(s) # 0 /\ 1 \in DOMAIN s
    OBVIOUS
<1>2. s[1] # "-"
    <2>1. IsDigit(s[1])
        BY <1>1 DEF AllDigits
    <2> QED BY <2>1, DigitsAssumption DEF IsDigit
<1>3. Max(Prefixes) = Len(s)
    <2>1. Prefixes \subseteq Int /\ \A k \in Prefixes : k <= Len(s)
        BY <1>1
    <2>2. Len(s) \in Prefixes
        BY <1>1 DEF AllDigits
    <2> HIDE DEF Prefixes
    <2> QED BY <2>1, <2>2, MaxIs
<1>4. SubSeq(s, 1, Len(s)) = s
    BY <1>1
<1>5. Numeral(s) \in Nat /\ ~(Numeral(s) > IntSpace - 1)
    BY NumeralType, SpaceAssumption
<1> HIDE DEF Prefixes
<1> QED
    <2> DEFINE negative == s # << >> /\ s[1] = "-"
    <2>1. negative = FALSE
        BY <1>2
    <2> HIDE DEF negative
    <2> QED BY <1>1, <1>3, <1>4, <1>5, <2>1 DEF stoi, Prefixes, negative

(* stoi gives an int or, where it throws, nothing.                         *)
LEMMA StoiType ==
  ASSUME NEW s \in Seq(STRING)
  PROVE  stoi(s) = << >> \/ \E v \in Int : stoi(s) = <<v>>
<1> DEFINE negative == s # << >> /\ s[1] = "-"
           t == IF negative THEN Tail(s) ELSE s
           Prefixes == {k \in 0 .. Len(t) : \A i \in 1 .. k : IsDigit(t[i])}
           n == Max(Prefixes)
           u == SubSeq(t, 1, n)
           v == Numeral(u)
<1>1. t \in Seq(STRING)
    <2>1. CASE negative
        BY <2>1
    <2>2. CASE ~negative
        BY <2>2
    <2> QED BY <2>1, <2>2
<1>2. stoi(s) = IF n = 0 \/ v > IntSpace - (IF negative THEN 0 ELSE 1) THEN << >>
                ELSE <<IF negative THEN -v ELSE v>>
    BY DEF stoi
<1> HIDE DEF t, negative
<1>3. n \in Prefixes
    <2>1. 0 \in Prefixes /\ Prefixes \subseteq 0 .. Len(t) /\ Len(t) \in Nat
        BY <1>1
    <2> HIDE DEF Prefixes
    <2> QED BY <2>1, MaxIn
<1>4. n \in 0 .. Len(t) /\ \A i \in 1 .. n : IsDigit(t[i])
    BY <1>3
<1> HIDE DEF n
<1>5. u \in Seq(STRING) /\ AllDigits(u)
    <2>1. u \in Seq(STRING) /\ DOMAIN u = 1 .. n
        BY <1>1, <1>4, SubSeqProperties
    <2>2. \A i \in 1 .. n : u[i] = t[i]
        BY <1>1, <1>4, SubSeqProperties
    <2> QED BY <1>4, <2>1, <2>2 DEF AllDigits
<1>6. v \in Nat
    BY <1>5, NumeralType
<1> HIDE DEF v
<1>7. -v \in Int /\ v \in Int
    BY <1>6
<1> QED BY <1>2, <1>7, Zenon

-----------------------------------------------------------------------------
(* s has no colon.                                                         *)
NoColon(s) == \A i \in DOMAIN s : s[i] # ":"

(* std::string::find returns the first colon, if there is one.             *)
LEMMA FindFirst ==
  ASSUME NEW s \in Seq(STRING)
  PROVE  /\ find(s) \in 0 .. Len(s)
         /\ \A i \in 1 .. find(s) - 1 : s[i] # ":"
         /\ find(s) = 0 => NoColon(s)
<1> DEFINE colons == {i \in DOMAIN s : s[i] = ":"}
<1>1. find(s) = IF colons = {} THEN 0 ELSE Min(colons)
    BY DEF find
<1>2. DOMAIN s = 1 .. Len(s) /\ Len(s) \in Nat
    OBVIOUS
<1>3. colons \subseteq 1 .. Len(s)
    BY <1>2
<1>4. CASE colons = {}
    <2>1. NoColon(s)
        BY <1>4 DEF NoColon
    <2> HIDE DEF colons
    <2> QED BY <1>1, <1>2, <1>4, <2>1
<1>5. CASE colons # {}
    <2> DEFINE m == Min(colons)
    <2>1. m \in colons /\ \A k \in colons : m <= k
        <3> HIDE DEF colons
        <3>1. colons \subseteq Nat
            BY <1>2, <1>3
        <3> QED BY <1>5, <3>1, MinIn
    <2> HIDE DEF m
    <2>2. m \in 1 .. Len(s)
        BY <1>3, <2>1
    <2>3. ASSUME NEW i \in 1 .. m - 1 PROVE s[i] # ":"
        <3>1. i \in DOMAIN s /\ ~(m <= i)
            BY <1>2, <2>2
        <3> QED BY <2>1, <3>1
    <2> HIDE DEF colons
    <2>4. find(s) = m
        BY <1>1, <1>5 DEF m
    <2> QED BY <1>2, <2>2, <2>3, <2>4
<1> QED BY <1>4, <1>5

(* The conversion of the port.                                             *)
LEMMA NarrowType ==
  ASSUME NEW v \in Int
  PROVE  narrow(v) \in 0 .. PortSpace - 1
BY SpaceAssumption DEF narrow

(* A port that fits is not changed.                                        *)
LEMMA NarrowKeeps ==
  ASSUME NEW v \in 0 .. PortSpace - 1
  PROVE  narrow(v) = v
<1>1. PortSpace \in Nat /\ PortSpace > 0
    BY SpaceAssumption
<1> QED BY <1>1 DEF narrow

(* What Parse returns, if it returns: a host without a colon and a port.   *)
LEMMA ParseType ==
  ASSUME NEW text \in Seq(STRING), Parse(text) # << >>
  PROVE  \E host \in Seq(STRING), port \in 0 .. PortSpace - 1 :
           NoColon(host) /\ Parse(text) = <<[host_ |-> host, port_ |-> port]>>
<1> DEFINE f == find(text)
           port == stoi(PortText(text))
           host == IF f = 0 THEN text ELSE SubSeq(text, 1, f - 1)
<1>1. f \in 0 .. Len(text) /\ (\A i \in 1 .. f - 1 : text[i] # ":")
        /\ (f = 0 => NoColon(text)) /\ Len(text) \in Nat
    BY FindFirst
<1>2. Parse(text) = IF port = << >> THEN << >> ELSE <<[host_ |-> host, port_ |-> narrow(port[1])]>>
    BY DEF Parse
<1>3. PortText(text) \in Seq(STRING)
    <2>1. \A i \in f + 1 .. Len(text) : text[i] \in STRING
        BY <1>1
    <2> HIDE DEF f
    <2>2. SubSeq(text, f + 1, Len(text)) \in Seq(STRING)
        BY <1>1, <2>1, SubSeqProperties
    <2> QED BY <2>2 DEF PortText, f
<1>4. PICK v \in Int : port = <<v>>
    BY <1>2, <1>3, StoiType
<1> HIDE DEF f
<1>5. host \in Seq(STRING) /\ NoColon(host)
    <2>1. CASE f = 0
        BY <1>1, <2>1
    <2>2. CASE f # 0
        <3>1. \A i \in 1 .. f - 1 : text[i] \in STRING
            BY <1>1
        <3>2. SubSeq(text, 1, f - 1) \in Seq(STRING)
            BY <1>1, <3>1, SubSeqProperties
        <3>3. DOMAIN SubSeq(text, 1, f - 1) = 1 .. f - 1
            BY <1>1, <2>2
        <3>4. \A i \in 1 .. f - 1 : SubSeq(text, 1, f - 1)[i] = text[i]
            BY <1>1
        <3>5. NoColon(SubSeq(text, 1, f - 1))
            BY <1>1, <3>3, <3>4 DEF NoColon
        <3> QED BY <2>2, <3>2, <3>5
    <2> QED BY <2>1, <2>2
<1> HIDE DEF host, port
<1>6. narrow(v) \in 0 .. PortSpace - 1
    BY NarrowType
<1>7. port # << >> /\ port[1] = v
    BY <1>4
<1>8. Parse(text) = <<[host_ |-> host, port_ |-> narrow(v)]>>
    BY <1>2, <1>7
<1> QED BY <1>5, <1>6, <1>8

(* A host without a colon, a colon and the text of a port is parsed to     *)
(* that host and port.                                                     *)
LEMMA ParseJoined ==
  ASSUME NEW host \in Seq(STRING), NoColon(host), NEW port \in 0 .. PortSpace - 1
  PROVE  Parse(host \o <<":">> \o to_string(port)) = <<[host_ |-> host, port_ |-> port]>>
<1> DEFINE d == to_string(port)
           n == Len(host)
           a == host \o <<":">> \o d
<1>1. port \in Nat /\ port < IntSpace
    BY SpaceAssumption
<1>2. d \in Seq(STRING) /\ d # << >> /\ AllDigits(d) /\ Numeral(d) = port
    BY <1>1, ToStringSpells DEF IsSpelling
<1> HIDE DEF d
<1>3. stoi(d) = <<port>>
    BY <1>1, <1>2, StoiOfDigits
<1>4. n \in Nat /\ Len(d) \in Nat /\ Len(a) = n + 1 + Len(d) /\ DOMAIN a = 1 .. n + 1 + Len(d)
    BY <1>2
<1>5. /\ \A i \in 1 .. n : a[i] = host[i]
      /\ a[n + 1] = ":"
      /\ \A i \in 1 .. Len(d) : a[n + 1 + i] = d[i]
    BY <1>2
<1>6. find(a) = n + 1
    <2> DEFINE colons == {i \in DOMAIN a : a[i] = ":"}
    <2>1. colons \subseteq Int /\ n + 1 \in colons
        BY <1>4, <1>5
    <2>2. ASSUME NEW i \in colons PROVE n + 1 <= i
        <3> SUFFICES ASSUME ~(n + 1 <= i) PROVE FALSE
            OBVIOUS
        <3>1. i \in 1 .. n /\ a[i] = ":"
            BY <1>4
        <3> QED BY <1>5, <3>1 DEF NoColon
    <2>3. Min(colons) = n + 1
        <3> HIDE DEF colons
        <3> QED BY <2>1, <2>2, MinIs
    <2> QED BY <2>1, <2>3 DEF find
<1>7. SubSeq(a, n + 2, Len(a)) = d
    BY <1>2, <1>4, <1>5
<1>8. SubSeq(a, 1, n) = host
    BY <1>4, <1>5
<1> HIDE DEF a, n
<1>9. PortText(a) = d
    <2>1. (n + 1) + 1 = n + 2
        BY <1>4
    <2> QED BY <1>6, <1>7, <2>1 DEF PortText
<1>10. (n + 1) - 1 = n /\ n + 1 # 0
    BY <1>4
<1>11. narrow(port) = port /\ <<port>> # << >> /\ <<port>>[1] = port
    BY NarrowKeeps
<1>12. Parse(a) = <<[host_ |-> host, port_ |-> port]>>
    BY <1>3, <1>6, <1>8, <1>9, <1>10, <1>11 DEF Parse
<1> QED BY <1>12 DEF a, d

(* Writing an endpoint as text and parsing it again gives the same         *)
(* endpoint, for every text that Endpoint(address) accepts.                *)
THEOREM ParsesItsOwnText ==
  ASSUME NEW text \in Seq(STRING), Parse(text) # << >>
  PROVE  Parse(EndpointString(Parse(text)[1])) = Parse(text)
<1>1. PICK host \in Seq(STRING), port \in 0 .. PortSpace - 1 :
        NoColon(host) /\ Parse(text) = <<[host_ |-> host, port_ |-> port]>>
    BY ParseType
<1>2. EndpointString(Parse(text)[1]) = host \o <<":">> \o to_string(port)
    BY <1>1 DEF EndpointString
<1> QED BY <1>1, <1>2, ParseJoined

(* A text that denotes a port is parsed to that port.                      *)
LEMMA ParsesDenoted ==
  ASSUME NEW text \in Seq(STRING), NEW port \in 0 .. PortSpace - 1, Denotes(text, port)
  PROVE  Parse(text) # << >> /\ Parse(text)[1].port_ = port
<1>1. PICK n \in 0 .. Len(text) :
        /\ \A i \in 1 .. n : text[i] # ":"
        /\ text = SubSeq(text, 1, n) \o <<":">> \o to_string(port)
    BY DEF Denotes
<1> DEFINE host == SubSeq(text, 1, n)
<1>2. Len(text) \in Nat /\ \A i \in 1 .. n : text[i] \in STRING
    OBVIOUS
<1>3. host \in Seq(STRING) /\ Len(host) = n /\ \A i \in 1 .. n : host[i] = text[i]
    BY <1>2, SubSeqProperties
<1>4. NoColon(host)
    BY <1>1, <1>3 DEF NoColon
<1> HIDE DEF host
<1>5. Parse(host \o <<":">> \o to_string(port)) = <<[host_ |-> host, port_ |-> port]>>
    BY <1>3, <1>4, ParseJoined
<1>6. Parse(text) = <<[host_ |-> host, port_ |-> port]>>
    BY <1>1, <1>5 DEF host
<1> QED BY <1>6

(* None of the characters of s is one of B.                                *)
Free(s, B) == \A i \in DOMAIN s : s[i] \notin B
(* The characters that pretty_name takes for brackets.                     *)
Brackets == {"(", ")", "<", ">"}
(* The characters of identifiers.                                          *)
Word == Letters \cup Numbers

(* All characters.                                                         *)
Char == STRING \cup Brackets

(* The two shapes of the expressions in the programs that use dousi:       *)
(* &q::m and &q::m<b>, with a method m, a qualifier and template arguments *)
(* of any length that have no brackets of their own.                       *)
Plain(text, m) ==
  /\ m \in Seq(Word) /\ m # << >> /\ m[1] \in Letters
  /\ \E q, b \in Seq(Char) :
       /\ q # << >> /\ q[1] = "&" /\ q[Len(q)] \notin Word
       /\ Free(q, Brackets) /\ Free(b, Brackets)
       /\ text \in {q \o m, q \o m \o <<"<">> \o b \o <<">">>}

(* A text without brackets: the backward loop stops at its end.            *)
LEMMA NoBrackets ==
  ASSUME NEW name \in Seq(Char), name # << >>, NEW open, NEW close, Free(name, {open, close})
  PROVE  BeforeBrackets(name, open, close) = Len(name)
<1> DEFINE n == Len(name)
           After(ch, i) == {k \in i + 1 .. n : name[k] = ch}
           S == {0} \cup {i \in DOMAIN name : /\ name[i] \notin {open, close}
                                              /\ Cardinality(After(open, i)) = Cardinality(After(close, i))}
<1>1. n \in Nat /\ n > 0 /\ DOMAIN name = 1 .. n
    OBVIOUS
<1>2. After(open, n) = {} /\ After(close, n) = {}
    BY <1>1
<1>a. BeforeBrackets(name, open, close) = Max(S)
    BY DEF BeforeBrackets
<1> HIDE DEF After
<1>3. n \in S
    <2>1. n \in DOMAIN name
        BY <1>1
    <2>2. name[n] \notin {open, close}
        BY <2>1 DEF Free
    <2>3. Cardinality(After(open, n)) = Cardinality(After(close, n))
        BY <1>2
    <2> QED BY <2>1, <2>2, <2>3
<1>4. S \subseteq Int /\ \A k \in S : k <= n
    BY <1>1
<1> HIDE DEF S
<1> QED BY <1>3, <1>4, <1>a, MaxIs

(* name has one pair of brackets: the first after e characters, the other  *)
(* at its end.                                                             *)
Pair(name, open, close, e) ==
  \A k \in 1 .. Len(name) : (name[k] = open <=> k = e + 1) /\ (name[k] = close <=> k = Len(name))

(* A text that ends in one pair of brackets: it stops before them.         *)
LEMMA OnePair ==
  ASSUME NEW name \in Seq(Char), NEW open, NEW close, NEW e \in 1 .. Len(name) - 2,
         Pair(name, open, close, e)
  PROVE  BeforeBrackets(name, open, close) = e
<1> DEFINE n == Len(name)
           After(ch, i) == {k \in i + 1 .. n : name[k] = ch}
           S == {0} \cup {i \in DOMAIN name : /\ name[i] \notin {open, close}
                                              /\ Cardinality(After(open, i)) = Cardinality(After(close, i))}
<1>1. n \in Nat /\ e \in Nat /\ 1 <= e /\ e + 2 <= n /\ DOMAIN name = 1 .. n
    OBVIOUS
<1>3. \A k \in 1 .. n : (name[k] = open <=> k = e + 1) /\ (name[k] = close <=> k = n)
    BY DEF Pair
<1>4. ASSUME NEW i \in 1 .. n
      PROVE  /\ After(open, i) = IF i <= e THEN {e + 1} ELSE {}
             /\ After(close, i) = IF i < n THEN {n} ELSE {}
    <2>1. \A k : k \in After(open, i) <=> k = e + 1 /\ i <= e
        <3>1. \A k \in i + 1 .. n : k \in 1 .. n /\ k > i
            BY <1>1
        <3>2. i <= e => e + 1 \in i + 1 .. n
            BY <1>1
        <3>3. e + 1 > i => i <= e
            BY <1>1
        <3> QED BY <1>3, <3>1, <3>2, <3>3
    <2>2. \A k : k \in After(close, i) <=> k = n /\ i < n
        <3>1. \A k \in i + 1 .. n : k \in 1 .. n /\ i < k
            BY <1>1
        <3>2. i < n => n \in i + 1 .. n
            BY <1>1
        <3> QED BY <1>3, <3>1, <3>2
    <2> HIDE DEF After
    <2>3. After(open, i) = IF i <= e THEN {e + 1} ELSE {}
        BY <2>1
    <2>4. After(close, i) = IF i < n THEN {n} ELSE {}
        BY <2>2
    <2> QED BY <2>3, <2>4
<1>5. Cardinality({}) = 0 /\ \A x : Cardinality({x}) = 1
    BY FS_EmptySet, FS_Singleton
<1>a. BeforeBrackets(name, open, close) = Max(S)
    BY DEF BeforeBrackets
<1> HIDE DEF After
<1>6. e \in S
    <2>1. e \in 1 .. n /\ e # n /\ e # e + 1 /\ e < n /\ e <= e
        <3> HIDE DEF n
        <3> QED BY <1>1
    <2>2. name[e] \notin {open, close}
        BY <1>3, <2>1
    <2>3. After(open, e) = {e + 1} /\ After(close, e) = {n}
        BY <1>4, <2>1
    <2>4. Cardinality(After(open, e)) = Cardinality(After(close, e))
        BY <1>5, <2>3
    <2> QED BY <1>1, <2>1, <2>2, <2>4
<1>7. ASSUME NEW i \in S PROVE i <= e
    <2>0. i = 0 \/ (i \in 1 .. n /\ name[i] \notin {open, close}
                      /\ Cardinality(After(open, i)) = Cardinality(After(close, i)))
        BY <1>1
    <2>1. CASE i = 0
        BY <1>1, <2>1
    <2>2. CASE i # 0
        <3>1. i \in 1 .. n /\ name[i] # close /\ Cardinality(After(open, i)) = Cardinality(After(close, i))
            BY <2>0, <2>2
        <3>2. i # n
            BY <1>1, <1>3, <3>1
        <3>3. i < n
            <4> HIDE DEF n, S
            <4> QED BY <1>1, <3>1, <3>2
        <3>4. Cardinality(After(close, i)) = 1
            BY <1>4, <1>5, <3>1, <3>3
        <3>5. ~(i <= e) => Cardinality(After(open, i)) = 0
            BY <1>4, <1>5, <3>1
        <3> QED BY <3>1, <3>4, <3>5
    <2> QED BY <2>1, <2>2
<1>8. S \subseteq Int
    BY <1>1
<1> HIDE DEF S
<1> QED BY <1>1, <1>6, <1>7, <1>8, <1>a, MaxIs

(* Two texts, one after the other.                                         *)
LEMMA Joined ==
  ASSUME NEW C, NEW a \in Seq(C), NEW b \in Seq(C)
  PROVE  /\ a \o b \in Seq(C) /\ Len(a \o b) = Len(a) + Len(b)
         /\ \A i \in 1 .. Len(a) : (a \o b)[i] = a[i]
         /\ \A i \in 1 .. Len(b) : (a \o b)[Len(a) + i] = b[i]
OBVIOUS

(* A text and one more character.                                          *)
LEMMA Longer ==
  ASSUME NEW C, NEW a \in Seq(C), NEW c \in C
  PROVE  /\ a \o <<c>> \in Seq(C) /\ Len(a \o <<c>>) = Len(a) + 1
         /\ \A i \in 1 .. Len(a) : (a \o <<c>>)[i] = a[i]
         /\ (a \o <<c>>)[Len(a) + 1] = c
OBVIOUS

(* The last word before the end that the loops have found is the name.     *)
LEMMA LastWord ==
  ASSUME NEW name \in Seq(Char), NEW m \in Seq(Word), m # << >>, m[1] \in Letters,
         NEW s \in Nat, s > 0, s + Len(m) <= Len(name),
         name[1] = "&", name[s] \notin Word,
         \A k \in 1 .. Len(m) : name[s + k] = m[k],
         Free(name, {"(", ")"}), BeforeBrackets(name, "<", ">") = s + Len(m)
  PROVE  pretty_name(name) = m
<1> DEFINE n == Len(name)
           e == s + Len(m)
           S == {0} \cup {i \in 1 .. e : name[i] \notin Word}
<1>1. n \in Nat /\ Len(m) \in Nat /\ Len(m) > 0 /\ e \in Nat /\ e <= n /\ name # << >>
    OBVIOUS
<1>2. WithoutCall(name) = name
    <2>1. BeforeBrackets(name, "(", ")") = n
        BY <1>1, NoBrackets
    <2>2. SubSeq(name, 1, n) = name
        BY SubSeqFull
    <2> QED BY <1>1, <2>1, <2>2 DEF WithoutCall
<1>3. Max(S) = s
    <2>1. s \in S
        BY <1>1
    <2>2. S \subseteq Int
        BY <1>1
    <2>3. ASSUME NEW i \in S PROVE i <= s
        <3> SUFFICES ASSUME s < i PROVE FALSE
            BY <1>1
        <3>1. i \in 1 .. e /\ name[i] \notin Word
            OBVIOUS
        <3>2. i - s \in 1 .. Len(m) /\ s + (i - s) = i
            BY <1>1, <3>1
        <3>3. name[i] = m[i - s] /\ m[i - s] \in Word
            BY <3>2
        <3> QED BY <3>1, <3>3
    <2> HIDE DEF S
    <2> QED BY <2>1, <2>2, <2>3, MaxIs
<1>4. LastIdentifier(name) = SubSeq(name, s + 1, e)
    BY <1>3 DEF LastIdentifier, Word
<1>5. SubSeq(name, s + 1, e) = m
    <2>1. \A i \in s + 1 .. e : name[i] \in Char
        BY <1>1
    <2>2. /\ SubSeq(name, s + 1, e) \in Seq(Char) /\ Len(SubSeq(name, s + 1, e)) = Len(m)
          /\ \A i \in 1 .. Len(m) : SubSeq(name, s + 1, e)[i] = name[s + i]
        <3> DEFINE t == SubSeq(name, s + 1, e)
        <3>1. /\ t \in Seq(Char) /\ Len(t) = IF s + 1 <= e THEN e - (s + 1) + 1 ELSE 0
              /\ \A i \in 1 .. e - (s + 1) + 1 : t[i] = name[(s + 1) + i - 1]
            <4>1. s + 1 \in Int /\ e \in Int
                BY <1>1
            <4> HIDE DEF e
            <4> QED BY <2>1, <4>1, SubSeqProperties
        <3>2. s + 1 <= e /\ e - (s + 1) + 1 = Len(m) /\ \A i \in 1 .. Len(m) : (s + 1) + i - 1 = s + i
            BY <1>1
        <3> HIDE DEF t, e
        <3>3. Len(t) = Len(m) /\ \A i \in 1 .. Len(m) : t[i] = name[s + i]
            BY <3>1, <3>2
        <3> QED BY <3>1, <3>3 DEF t
    <2>3. m \in Seq(Char)
        <3>1. \A i \in 1 .. Len(m) : m[i] \in Char
            <4> SUFFICES ASSUME NEW i \in 1 .. Len(m) PROVE name[s + i] \in Char
                OBVIOUS
            <4>1. s + i \in 1 .. n
                BY <1>1
            <4> QED BY <4>1
        <3> QED BY <3>1
    <2> HIDE DEF e
    <2> QED BY <2>2, <2>3, SeqEqual
<1>6. ~IsLiteral(name)
    BY CharacterAssumption DEF IsLiteral, IsQuote
<1> QED BY <1>2, <1>4, <1>5, <1>6 DEF pretty_name

(* pretty_name finds the method in every plain expression.                 *)
LEMMA FindsName ==
  ASSUME NEW text, NEW m, Plain(text, m)
  PROVE  pretty_name(text) = m
<1>1. m \in Seq(Word) /\ m # << >> /\ m[1] \in Letters
    BY DEF Plain
<1>2. PICK q \in Seq(Char), b \in Seq(Char) :
        /\ q # << >> /\ q[1] = "&" /\ q[Len(q)] \notin Word
        /\ Free(q, Brackets) /\ Free(b, Brackets)
        /\ text \in {q \o m, q \o m \o <<"<">> \o b \o <<">">>}
    BY DEF Plain
<1> DEFINE s == Len(q)
           p == q \o m
           e == Len(p)
<1>3. s \in Nat /\ s > 0 /\ Len(m) \in Nat /\ Len(m) > 0
    BY <1>1, <1>2
<1>4. m \in Seq(Char) /\ Free(m, Brackets)
    <2>1. \A i \in 1 .. Len(m) : m[i] \in Char /\ m[i] \notin Brackets
        BY <1>1, CharacterAssumption DEF Word, Brackets, Char
    <2> QED BY <1>1, <2>1 DEF Free
<1>5. /\ p \in Seq(Char) /\ e = s + Len(m) /\ DOMAIN p = 1 .. e
      /\ \A i \in 1 .. s : p[i] = q[i]
      /\ \A i \in 1 .. Len(m) : p[s + i] = m[i]
    BY <1>1, <1>2, <1>4
<1>6. Free(p, Brackets)
    <2> SUFFICES ASSUME NEW i \in 1 .. e PROVE p[i] \notin Brackets
        BY <1>5 DEF Free
    <2>1. CASE i <= s
        BY <1>2, <1>5, <2>1 DEF Free
    <2>2. CASE i > s
        <3>1. i - s \in 1 .. Len(m) /\ s + (i - s) = i
            BY <1>3, <1>5, <2>2
        <3> QED BY <1>4, <1>5, <3>1 DEF Free
    <2> QED BY <1>3, <2>1, <2>2
<1>7. p[1] = "&" /\ p[s] \notin Word /\ p # << >>
    BY <1>2, <1>3, <1>5
<1> HIDE DEF s, p, e
<1>8. CASE text = p
    <2>1. Free(p, {"<", ">"}) /\ Free(p, {"(", ")"})
        BY <1>6 DEF Free, Brackets
    <2>2. BeforeBrackets(p, "<", ">") = s + Len(m)
        BY <1>5, <1>7, <2>1, NoBrackets DEF e
    <2>3. s + Len(m) <= Len(p)
        BY <1>3, <1>5 DEF e
    <2>4. pretty_name(p) = m
        BY <1>1, <1>3, <1>5, <1>7, <2>1, <2>2, <2>3, LastWord
    <2> QED BY <1>8, <2>4
<1>9. CASE text = p \o <<"<">> \o b \o <<">">>
    <2> DEFINE lb == Len(b)
               n == Len(text)
    <2>1. lb \in Nat /\ e \in Nat /\ e > 0
        BY <1>2, <1>3, <1>5
    <2>2. /\ text \in Seq(Char) /\ n = e + lb + 2
          /\ \A i \in 1 .. e : text[i] = p[i]
          /\ text[e + 1] = "<"
          /\ \A i \in 1 .. lb : text[e + 1 + i] = b[i]
          /\ text[n] = ">"
        <3> DEFINE u == p \o <<"<">>
                   v == u \o b
        <3>1. /\ u \in Seq(Char) /\ Len(u) = e + 1 /\ u[e + 1] = "<"
              /\ \A i \in 1 .. e : u[i] = p[i]
            <4>1. "<" \in Char
                BY DEF Char, Brackets
            <4> QED BY <1>5, <4>1, Longer DEF e
        <3> HIDE DEF u
        <3>2. /\ v \in Seq(Char) /\ Len(v) = e + 1 + lb
              /\ \A i \in 1 .. e + 1 : v[i] = u[i]
              /\ \A i \in 1 .. lb : v[e + 1 + i] = b[i]
            <4>1. Len(u) + Len(b) = e + 1 + lb
                BY <3>1
            <4>2. /\ v \in Seq(Char) /\ Len(v) = Len(u) + Len(b)
                  /\ \A i \in 1 .. Len(u) : v[i] = u[i]
                  /\ \A i \in 1 .. Len(b) : v[Len(u) + i] = b[i]
                <5>1. u \in Seq(Char) /\ b \in Seq(Char)
                    BY <1>2, <3>1
                <5> HIDE DEF v
                <5> QED BY <5>1, Joined DEF v
            <4> HIDE DEF v
            <4> QED BY <3>1, <4>1, <4>2
        <3> HIDE DEF v
        <3>3. text = v \o <<">">>
            BY <1>9 DEF u, v
        <3>4. /\ text \in Seq(Char) /\ n = e + 1 + lb + 1
              /\ \A i \in 1 .. e + 1 + lb : text[i] = v[i]
              /\ text[e + 1 + lb + 1] = ">"
            <4>1. ">" \in Char
                BY DEF Char, Brackets
            <4>2. Len(v) + 1 = e + 1 + lb + 1
                BY <2>1, <3>2
            <4> HIDE DEF lb
            <4> QED BY <3>2, <3>3, <4>1, <4>2, Longer
        <3> HIDE DEF n, lb
        <3>5. n = e + lb + 2 /\ e + 1 + lb + 1 = n
            BY <2>1, <3>4
        <3>6. ASSUME NEW i \in 1 .. e PROVE text[i] = p[i]
            <4>1. i \in 1 .. e + 1 /\ i \in 1 .. e + 1 + lb
                BY <2>1
            <4> QED BY <3>1, <3>2, <3>4, <4>1
        <3>7. text[e + 1] = "<"
            <4>1. e + 1 \in 1 .. e + 1 /\ e + 1 \in 1 .. e + 1 + lb
                BY <2>1
            <4> QED BY <3>1, <3>2, <3>4, <4>1
        <3>8. ASSUME NEW i \in 1 .. lb PROVE text[e + 1 + i] = b[i]
            <4>1. e + 1 + i \in 1 .. e + 1 + lb
                BY <2>1
            <4> QED BY <3>2, <3>4, <4>1
        <3> QED BY <3>4, <3>5, <3>6, <3>7, <3>8
    <2> HIDE DEF n, lb
    <2>3. ASSUME NEW i \in 1 .. n, i # e + 1, i # n PROVE text[i] \notin Brackets
        <3>1. CASE i <= e
            <4>1. i \in 1 .. e /\ i \in DOMAIN p
                BY <1>5, <2>1, <3>1
            <4> QED BY <1>6, <2>2, <4>1 DEF Free
        <3>2. CASE ~(i <= e)
            <4> DEFINE j == i - (e + 1)
            <4>1. j \in 1 .. lb /\ e + 1 + j = i
                BY <2>1, <2>2, <2>3, <3>2
            <4>2. j \in DOMAIN b
                BY <1>2, <4>1 DEF lb
            <4> HIDE DEF j
            <4> QED BY <1>2, <2>2, <4>1, <4>2 DEF Free
        <3> QED BY <3>1, <3>2
    <2>4. Free(text, {"(", ")"})
        <3> SUFFICES ASSUME NEW i \in 1 .. n PROVE text[i] \notin {"(", ")"}
            BY <2>2 DEF Free, n
        <3>1. CASE i = e + 1 \/ i = n
            BY <2>2, <3>1
        <3>2. CASE i # e + 1 /\ i # n
            BY <2>3, <3>2 DEF Brackets
        <3> QED BY <3>1, <3>2
    <2>5. BeforeBrackets(text, "<", ">") = e
        <3>1. e \in 1 .. n - 2
            BY <2>1, <2>2
        <3>2. \A i \in 1 .. n : i # e + 1 /\ i # n => text[i] # "<" /\ text[i] # ">"
            BY <2>3 DEF Brackets
        <3>3. e + 1 # n
            BY <2>1, <2>2
        <3>4. Pair(text, "<", ">", e)
            <4> SUFFICES ASSUME NEW k \in 1 .. n
                         PROVE  (text[k] = "<" <=> k = e + 1) /\ (text[k] = ">" <=> k = n)
                BY DEF Pair, n
            <4>1. text[e + 1] = "<" /\ text[n] = ">" /\ "<" # ">"
                BY <2>2
            <4> QED BY <3>2, <3>3, <4>1
        <3> QED BY <2>2, <3>1, <3>4, OnePair DEF n
    <2>6. text[1] = "&" /\ text[s] \notin Word
        <3>1. 1 \in 1 .. e /\ s \in 1 .. e
            BY <1>3, <1>5, <2>1
        <3> QED BY <1>7, <2>2, <3>1
    <2>7. \A k \in 1 .. Len(m) : text[s + k] = m[k]
        <3> SUFFICES ASSUME NEW k \in 1 .. Len(m) PROVE text[s + k] = m[k]
            OBVIOUS
        <3>1. s + k \in 1 .. e
            BY <1>3, <1>5
        <3> QED BY <1>5, <2>2, <3>1
    <2>8. s + Len(m) <= Len(text)
        BY <1>5, <2>1, <2>2 DEF n
    <2> QED BY <1>1, <1>3, <1>5, <2>2, <2>4, <2>5, <2>6, <2>7, <2>8, LastWord
<1> QED BY <1>2, <1>8, <1>9 DEF p

-----------------------------------------------------------------------------
(* The Executor is alive exactly while a shared pointer to it remains, and *)
(* the owners are the server, while it exists, and the handles in scope.   *)
Ownership ==
  /\ \A h \in DOMAIN handles : Alive(h) <=> h \in owners
  /\ SERVER \in owners <=> server \in {"starting", "up"}
  /\ server = "none" => handles = << >>
  /\ owners # {} => executor = "alive"
  /\ executor # "freed"

(* A method that runs was found bound to a handle; one that a thread has   *)
(* found and not yet called may be the empty function.                     *)
CallsBound ==
  \A t \in WorkThreads :
    /\ call[t].at = "inside" => call[t].handle \in DOMAIN handles
    /\ call[t].at = "found" => call[t].handle \in {EmptyFunction.handle} \cup DOMAIN handles

(* created_services_ holds the object of every handle that has not been    *)
(* superseded by a later one of its service.                               *)
ObjectsKept ==
  \A h \in DOMAIN handles :
    \/ created_services_[handles[h].service] = h
    \/ \E g \in DOMAIN handles : g > h /\ handles[g].service = handles[h].service

(* The acceptor stays null until the constructor has succeeded, which is   *)
(* all the while that its argument matters.                                *)
AcceptorUntouched ==
  /\ server \in {"none", "starting", "failed"} => acceptor_.is = "null"
  /\ server # "starting" => address = << >>

(* The inductive invariant.                                                *)
Inv ==
  /\ TypeOK
  /\ Ownership
  /\ CallsBound
  /\ ObjectsKept
  /\ AcceptorUntouched

-----------------------------------------------------------------------------
(* The thread that constructs the server logs.                             *)
LEMMA MainLogs == Main \in LogThreads
BY ThreadsAssumption DEF Main

(* The address is a text.                                                  *)
LEMMA AddressIsText ==
  ASSUME TypeOK
  PROVE  address \in Seq(STRING)
<1>1. << >> \in Seq(STRING)
    OBVIOUS
<1> QED BY <1>1, AddressesAssumption DEF TypeOK

(* The threads of the write pool never end, so neither does ~Executor.     *)
LEMMA NeverFreed ==
  ASSUME NEW left
  PROVE  Destructor(left) = IF left # {} THEN executor ELSE "joining"
BY ThreadsAssumption DEF Destructor

(* The invariant holds initially.                                          *)
LEMMA InitInv == Init => Inv
<1> SUFFICES ASSUME Init PROVE Inv
    OBVIOUS
<1>1. LogTypeOK
    BY LogInitType DEF Init
<1>2. TypeOK
    <2>1. DOMAIN handles = {} /\ Len(handles) = 0 /\ DOMAIN registered_methods_ = {}
        BY DEF Init
    <2>2. 0 \in Ports
        BY SpaceAssumption DEF Ports
    <2>3. handles \in Seq([service : Services, alive : BOOLEAN])
        BY DEF Init
    <2>4. acceptor_ \in [is : {"null", "open", "closed"}, port : Ports]
        BY <2>2 DEF Init
    <2>5. call \in [WorkThreads -> [at : {"idle", "found", "inside"}, handle : {0} \cup Handles]]
        BY DEF Init, NoCall
    <2>6. created_services_ \in [Services -> {0} \cup DOMAIN handles]
        BY DEF Init
    <2>7. Len(handles) <= MaxHandles
        BY <2>1, HandlesAssumption
    <2> QED BY <1>1, <2>1, <2>3, <2>4, <2>5, <2>6, <2>7 DEF Init, LogInit, TypeOK
<1>3. Ownership /\ CallsBound /\ ObjectsKept /\ AcceptorUntouched
    BY DEF Init, Ownership, CallsBound, ObjectsKept, AcceptorUntouched, NoCall, SERVER
<1> QED BY <1>2, <1>3 DEF Inv

-----------------------------------------------------------------------------
(* The steps of the constructor's thread in StartDousiLog.                 *)
LogOnly == StartNext(Main) /\ UNCHANGED <<lifeVars, netVars, tableVars, call>>

(* Every step preserves the types.                                         *)
LEMMA TypeStep ==
  ASSUME TypeOK, [Next]_vars
  PROVE  TypeOK'
<1> USE DEF logVars, lifeVars, netVars, tableVars
<1>a. ASSUME UNCHANGED logVars PROVE LogTypeOK' /\ process' \in {"running", "dangling handle", "empty function"}
    BY <1>a DEF TypeOK, LogTypeOK
<1>b. handles \in Seq([service : Services, alive : BOOLEAN])
    BY DEF TypeOK
<1>c. DOMAIN handles = 1 .. Len(handles) /\ Len(handles) \in Nat
    BY <1>b
<1>d. NoCall \in [at : {"idle", "found", "inside"}, handle : {0} \cup Handles]
    BY DEF NoCall
<1>e. ASSUME LogTypeOK', process' \in {"running", "dangling handle", "empty function"},
             UNCHANGED <<lifeVars, netVars, tableVars, call>>
      PROVE  TypeOK'
    <2>1. UNCHANGED <<server, address, executor, owners, acceptor_, looping, connected, handles,
                      created_services_, registered_methods_, call>>
        BY <1>e
    <2> QED BY <1>e, <2>1 DEF TypeOK, Bindings
<1>1. ASSUME NEW a \in Addresses, NewServer(a) PROVE TypeOK'
    <2>1. LogTypeOK' /\ process' = process
        <3>1. WARNING \in LOG_LEVEL
            BY DEF WARNING, LOG_LEVEL, DEBUG, NOLEVEL
        <3> QED BY <1>1, <3>1, MainLogs, LogTypeStep DEF NewServer, StartDousiLog, TypeOK
    <2> QED BY <1>1, <2>1 DEF NewServer, TypeOK, Bindings
<1>2. CASE Listen
    <2>1. Parse(address)[1].port_ \in Ports
        BY <1>2, AddressIsText, ParseType DEF Listen, CanListen, Ports
    <2> QED BY <1>2, <1>a, <2>1 DEF Listen, TypeOK, Bindings
<1>3. CASE ListenThrows \/ DestroyServer
    <2>1. ASSUME NEW left PROVE Destructor(left) \in {executor, "joining"}
        BY NeverFreed
    <2>2. acceptor_' \in [is : {"null", "open", "closed"}, port : Ports]
        BY <1>3 DEF ListenThrows, DestroyServer, Shutdown, TypeOK
    <2> QED BY <1>3, <1>a, <2>1, <2>2 DEF ListenThrows, DestroyServer, Release, TypeOK, Bindings
<1>4. ASSUME NEW s \in Services, CreateService(s) PROVE TypeOK'
    <2> DEFINE new == [service |-> s, alive |-> TRUE]
    <2>1. handles' \in Seq([service : Services, alive : BOOLEAN])
            /\ Len(handles') = Len(handles) + 1
            /\ DOMAIN handles' = 1 .. Len(handles) + 1
        <3>1. new \in [service : Services, alive : BOOLEAN] /\ handles' = Append(handles, new)
            BY <1>4 DEF CreateService
        <3> HIDE DEF new
        <3> QED BY <1>b, <3>1, AppendProperties
    <2>2. DOMAIN handles \subseteq DOMAIN handles' /\ Len(handles') \in DOMAIN handles'
        BY <1>c, <2>1
    <2>3. created_services_' \in [Services -> {0} \cup DOMAIN handles']
        BY <1>4, <2>2 DEF CreateService, TypeOK
    <2>4. Len(handles') <= MaxHandles
        BY <1>4, <1>c, <2>1, HandlesAssumption DEF CreateService
    <2>5. owners' \subseteq {SERVER} \cup DOMAIN handles'
        BY <1>4, <2>2 DEF CreateService, TypeOK
    <2>6. \A k \in DOMAIN registered_methods_' : registered_methods_'[k] \in Bindings'
        BY <1>4, <2>2 DEF CreateService, TypeOK, Bindings
    <2> QED BY <1>4, <1>a, <2>1, <2>3, <2>4, <2>5, <2>6 DEF CreateService, TypeOK
<1>5. ASSUME NEW h \in DOMAIN handles, DropHandle(h) PROVE TypeOK'
    <2>1. handles' \in Seq([service : Services, alive : BOOLEAN])
            /\ Len(handles') = Len(handles) /\ DOMAIN handles' = DOMAIN handles
        <3>1. [handles[h] EXCEPT !.alive = FALSE] \in [service : Services, alive : BOOLEAN]
            <4>1. handles[h] \in [service : Services, alive : BOOLEAN]
                BY <1>b, <1>c, ElementOfSeq
            <4> QED BY <4>1
        <3>2. handles' = [handles EXCEPT ![h] = [handles[h] EXCEPT !.alive = FALSE]]
            BY <1>5 DEF DropHandle
        <3>3. h \in 1 .. Len(handles)
            BY <1>c
        <3> QED BY <1>b, <3>1, <3>2, <3>3, ExceptSeq
    <2>2. executor' \in {executor, "joining"}
        BY <1>5, NeverFreed DEF DropHandle, Release
    <2>3. /\ UNCHANGED <<server, address, acceptor_, looping, connected, created_services_,
                        registered_methods_, call>>
          /\ owners' \subseteq owners /\ UNCHANGED logVars
        BY <1>5 DEF DropHandle, Release
    <2>4. \A k \in DOMAIN registered_methods_' : registered_methods_'[k] \in Bindings'
        BY <2>1, <2>3 DEF TypeOK, Bindings
    <2>5. executor' \in {"none", "alive", "joining", "freed"}
        BY <2>2 DEF TypeOK
    <2>6. created_services_' \in [Services -> {0} \cup DOMAIN handles']
        BY <2>1, <2>3 DEF TypeOK
    <2> QED BY <1>a, <2>1, <2>3, <2>4, <2>5, <2>6 DEF TypeOK
<1>6. ASSUME NEW h \in DOMAIN handles, NEW e \in Expressions, RegisterMethod(h, e) PROVE TypeOK'
    <2>1. [handle |-> h, method |-> e.method] \in Bindings
        BY DEF Methods, Bindings
    <2>2. /\ UNCHANGED <<server, address, executor, owners, acceptor_, looping, connected, handles,
                         created_services_, call>>
          /\ UNCHANGED logVars
        BY <1>6 DEF RegisterMethod
    <2>3. \A k \in DOMAIN registered_methods_' : registered_methods_'[k] \in Bindings
        BY <1>6, <2>1 DEF RegisterMethod, WithBinding, TypeOK
    <2>4. Bindings' = Bindings
        BY <2>2 DEF Bindings
    <2> QED BY <1>a, <2>2, <2>3, <2>4 DEF TypeOK
<1>7. CASE Loop \/ OnAccept \/ OnAcceptError
    BY <1>7, <1>a DEF Loop, OnAccept, OnAcceptError, TypeOK, Bindings
<1>8. ASSUME NEW t \in WorkThreads, Invoke(t) \/ Return(t) PROVE TypeOK'
    <2>1. call' \in [WorkThreads -> [at : {"idle", "found", "inside"}, handle : {0} \cup Handles]]
        <3>1. [call[t] EXCEPT !.at = "inside"]
                \in [at : {"idle", "found", "inside"}, handle : {0} \cup Handles]
            BY DEF TypeOK
        <3> QED BY <1>8, <1>d, <3>1 DEF Invoke, Return, TypeOK
    <2> QED BY <1>8, <1>a, <2>1 DEF Invoke, Return, TypeOK, Bindings
<1>9. ASSUME NEW t \in WorkThreads, InvokeCrashes(t) \/ CallEmptyFunction(t) PROVE TypeOK'
    <2>1. call' \in [WorkThreads -> [at : {"idle", "found", "inside"}, handle : {0} \cup Handles]]
        BY <1>9, <1>d DEF InvokeCrashes, CallEmptyFunction, TypeOK
    <2>2. LogTypeOK' /\ process' \in {"dangling handle", "empty function"}
        BY <1>9 DEF InvokeCrashes, CallEmptyFunction, ProcessEnds, loggerVars, TypeOK, LogTypeOK
    <2> QED BY <1>9, <2>1, <2>2 DEF InvokeCrashes, CallEmptyFunction, TypeOK, Bindings
<1>10. ASSUME NEW t \in WorkThreads, NEW name \in Names, Lookup(t, name)
       PROVE  TypeOK'
    <2> DEFINE binding == IF name \in DOMAIN registered_methods_
                          THEN registered_methods_[name] ELSE EmptyFunction
    <2>1. binding \in Bindings
        BY DEF TypeOK, Bindings
    <2>2. binding.handle \in {0} \cup Handles
        <3>1. binding.handle \in {0} \cup DOMAIN handles
            BY <2>1 DEF Bindings, EmptyFunction
        <3>2. Len(handles) <= MaxHandles
            BY DEF TypeOK
        <3> QED BY <1>c, <3>1, <3>2, HandlesAssumption DEF Handles
    <2>3. /\ registered_methods_' = WithBinding(name, binding)
          /\ call' = [call EXCEPT ![t] = [at |-> "found", handle |-> binding.handle]]
          /\ UNCHANGED <<logVars, lifeVars, netVars, handles, created_services_>>
        BY <1>10 DEF Lookup
    <2> HIDE DEF binding
    <2>4. \A k \in DOMAIN registered_methods_' : registered_methods_'[k] \in Bindings
        BY <2>1, <2>3 DEF WithBinding, TypeOK
    <2>5. call' \in [WorkThreads -> [at : {"idle", "found", "inside"}, handle : {0} \cup Handles]]
        BY <2>2, <2>3 DEF TypeOK
    <2>6. Bindings' = Bindings
        BY <2>3 DEF Bindings
    <2> QED BY <1>a, <2>3, <2>4, <2>5, <2>6 DEF TypeOK
<1>11. CASE LogOnly
    <2>1. LogTypeOK' /\ process' = process
        <3>1. process' = process
            BY <1>11 DEF LogOnly, StartNext, CheckProvider, CreateLogger, CreateThrows, AssignProvider
        <3>2. WARNING \in LOG_LEVEL
            BY DEF WARNING, LOG_LEVEL, DEBUG, NOLEVEL
        <3> QED BY <1>11, <3>1, <3>2, MainLogs, LogTypeStep DEF LogOnly, TypeOK
    <2>2. process' \in {"running", "dangling handle", "empty function"}
        BY <2>1 DEF TypeOK
    <2> QED BY <1>11, <1>e, <2>1, <2>2 DEF LogOnly
<1>12. CASE UNCHANGED vars
    BY <1>12, <1>a, <1>e DEF vars
<1> QED BY <1>1, <1>2, <1>3, <1>4, <1>5, <1>6, <1>7, <1>8, <1>9, <1>10, <1>11, <1>12
        DEF Next, ServerNext, LogOnly

-----------------------------------------------------------------------------
(* The handles, numbered in the order of their creation.                   *)
LEMMA HandlesType ==
  ASSUME TypeOK
  PROVE  /\ DOMAIN handles = 1 .. Len(handles) /\ Len(handles) \in Nat
         /\ \A h \in DOMAIN handles : handles[h] \in [service : Services, alive : BOOLEAN]
<1>1. handles \in Seq([service : Services, alive : BOOLEAN])
    BY DEF TypeOK
<1>2. DOMAIN handles = 1 .. Len(handles) /\ Len(handles) \in Nat
    BY <1>1
<1> QED BY <1>1, <1>2, ElementOfSeq

(* The handles after the two actions that change them.                     *)
LEMMA Created ==
  ASSUME TypeOK, NEW s \in Services, CreateService(s)
  PROVE  LET n == Len(handles) + 1
         IN  /\ DOMAIN handles' = DOMAIN handles \cup {n}
             /\ n \notin DOMAIN handles /\ n \in Nat \ {0}
             /\ \A h \in DOMAIN handles : handles'[h] = handles[h]
             /\ handles'[n].service = s /\ handles'[n].alive = TRUE
             /\ owners' = owners \cup {n}
             /\ created_services_' = [created_services_ EXCEPT ![s] = n]
<1> DEFINE new == [service |-> s, alive |-> TRUE]
<1>1. handles \in Seq([service : Services, alive : BOOLEAN])
    BY DEF TypeOK
<1>2. new \in [service : Services, alive : BOOLEAN] /\ new.service = s /\ new.alive = TRUE
    OBVIOUS
<1>3. handles' = Append(handles, new)
    BY DEF CreateService
<1> HIDE DEF new
<1>4. /\ DOMAIN handles = 1 .. Len(handles) /\ Len(handles) \in Nat
      /\ DOMAIN handles' = 1 .. Len(handles) + 1 /\ Len(handles') = Len(handles) + 1
      /\ \A h \in 1 .. Len(handles) : handles'[h] = handles[h]
      /\ handles'[Len(handles) + 1] = new
    BY <1>1, <1>2, <1>3, AppendProperties
<1>5. owners' = owners \cup {Len(handles')} /\ created_services_' = [created_services_ EXCEPT ![s] = Len(handles')]
    BY DEF CreateService
<1>6. DOMAIN handles' = DOMAIN handles \cup {Len(handles) + 1} /\ Len(handles) + 1 \notin DOMAIN handles
    BY <1>4
<1> QED BY <1>2, <1>4, <1>5, <1>6

(* What the end of the scope of a handle changes.                          *)
LEMMA Dropped ==
  ASSUME TypeOK, NEW h \in DOMAIN handles, DropHandle(h)
  PROVE  /\ DOMAIN handles' = DOMAIN handles
         /\ \A g \in DOMAIN handles : /\ handles'[g].service = handles[g].service
                                      /\ handles'[g].alive = (IF g = h THEN FALSE ELSE handles[g].alive)
<1>1. handles' = [handles EXCEPT ![h].alive = FALSE]
    BY DEF DropHandle
<1> QED BY <1>1, HandlesType

(* Handles are never forgotten, keep their service, and never come back    *)
(* once dropped.                                                           *)
LEMMA HandlesStep ==
  ASSUME TypeOK, [Next]_vars, NEW h \in DOMAIN handles
  PROVE  /\ h \in DOMAIN handles' /\ handles'[h].service = handles[h].service
         /\ ~Alive(h) => ~Alive(h)'
<1> USE DEF logVars, lifeVars, netVars, tableVars
<1>1. ASSUME NEW s \in Services, CreateService(s) PROVE h \in DOMAIN handles' /\ handles'[h] = handles[h]
    BY <1>1, Created
<1>2. ASSUME NEW g \in DOMAIN handles, DropHandle(g)
      PROVE  /\ h \in DOMAIN handles' /\ handles'[h].service = handles[h].service
             /\ ~Alive(h) => ~Alive(h)'
    BY <1>2, Dropped DEF Alive
<1>3. (\E s \in Services : CreateService(s)) \/ (\E g \in DOMAIN handles : DropHandle(g))
        \/ handles' = handles
    BY DEF Next, ServerNext, NewServer, Listen, ListenThrows, DestroyServer, RegisterMethod,
           Loop, OnAccept, OnAcceptError, CallEmptyFunction, Invoke, InvokeCrashes, Return, Lookup, vars
<1> QED BY <1>1, <1>2, <1>3 DEF Alive

-----------------------------------------------------------------------------
(* Every step preserves Ownership.                                         *)
LEMMA OwnershipStep ==
  ASSUME TypeOK, Ownership, [Next]_vars
  PROVE  Ownership'
<1> USE DEF logVars, lifeVars, netVars, tableVars
<1>a. DOMAIN handles \subseteq Nat \ {0} /\ SERVER \notin DOMAIN handles
    BY HandlesType DEF SERVER
<1>b. owners \subseteq {SERVER} \cup DOMAIN handles
    BY DEF TypeOK
<1>1. ASSUME NEW a \in Addresses, NewServer(a) PROVE Ownership'
    <2>1. handles = << >> /\ handles' = << >> /\ DOMAIN handles = {}
        BY <1>1 DEF NewServer, Ownership
    <2> QED BY <1>1, <2>1 DEF NewServer, Ownership
<1>2. CASE Listen
    BY <1>2 DEF Listen, Ownership, Alive
<1>3. CASE ListenThrows \/ DestroyServer
    <2>1. /\ handles' = handles /\ owners' = owners \ {SERVER}
          /\ server' \in {"failed", "destroyed"} /\ server \in {"starting", "up"}
          /\ executor' = Destructor(owners')
        BY <1>3 DEF ListenThrows, DestroyServer, Release
    <2>2. \A h \in DOMAIN handles : Alive(h)' <=> h \in owners'
        BY <1>a, <2>1 DEF Ownership, Alive
    <2>3. (owners' # {} => executor' = "alive") /\ executor' # "freed"
        BY <2>1, NeverFreed DEF Ownership
    <2> QED BY <2>1, <2>2, <2>3 DEF Ownership
<1>4. ASSUME NEW s \in Services, CreateService(s) PROVE Ownership'
    <2> DEFINE n == Len(handles) + 1
    <2>1. /\ DOMAIN handles' = DOMAIN handles \cup {n}
          /\ n \notin DOMAIN handles /\ n \in Nat \ {0}
          /\ \A h \in DOMAIN handles : handles'[h] = handles[h]
          /\ handles'[n].alive = TRUE
          /\ owners' = owners \cup {n}
        BY <1>4, Created
    <2> HIDE DEF n
    <2>2. server = "up" /\ server' = "up" /\ executor' = executor /\ SERVER \in owners
        BY <1>4 DEF CreateService, Ownership
    <2>3. executor' = "alive" /\ SERVER \in owners'
        BY <2>1, <2>2 DEF Ownership
    <2>4. ASSUME NEW h \in DOMAIN handles' PROVE Alive(h)' <=> h \in owners'
        BY <2>1 DEF Ownership, Alive
    <2> QED BY <2>2, <2>3, <2>4 DEF Ownership
<1>5. ASSUME NEW h \in DOMAIN handles, DropHandle(h) PROVE Ownership'
    <2>1. /\ owners' = owners \ {h} /\ server' = server
          /\ executor' = Destructor(owners')
        BY <1>5 DEF DropHandle, Release
    <2>2. DOMAIN handles' = DOMAIN handles
            /\ \A g \in DOMAIN handles : handles'[g].alive = (IF g = h THEN FALSE ELSE handles[g].alive)
        BY <1>5, Dropped
    <2>3. \A g \in DOMAIN handles' : Alive(g)' <=> g \in owners'
        BY <2>1, <2>2 DEF Ownership, Alive
    <2>4. (owners' # {} => executor' = "alive") /\ executor' # "freed"
        BY <2>1, NeverFreed DEF Ownership
    <2>5. server # "none"
        BY DEF Ownership
    <2>6. SERVER \in owners' <=> server' \in {"starting", "up"}
        BY <1>a, <2>1 DEF Ownership
    <2> QED BY <2>1, <2>3, <2>4, <2>5, <2>6 DEF Ownership
<1>6. ASSUME UNCHANGED <<handles, owners, server, executor>> PROVE Ownership'
    BY <1>6 DEF Ownership, Alive
<1> QED BY <1>1, <1>2, <1>3, <1>4, <1>5, <1>6
        DEF Next, ServerNext, RegisterMethod, Loop, OnAccept, OnAcceptError,
            CallEmptyFunction, Invoke, InvokeCrashes, Return, Lookup, vars

(* Every step preserves CallsBound.                                        *)
LEMMA CallsStep ==
  ASSUME TypeOK, CallsBound, [Next]_vars
  PROVE  CallsBound'
<1> USE DEF logVars, lifeVars, netVars, tableVars
<1>a. call \in [WorkThreads -> [at : {"idle", "found", "inside"}, handle : {0} \cup Handles]]
    BY DEF TypeOK
<1>b. DOMAIN handles \subseteq DOMAIN handles'
    BY HandlesStep
<1>1. ASSUME NEW t \in WorkThreads, Invoke(t) PROVE CallsBound'
    <2>1. /\ call'[t].handle \in DOMAIN handles /\ call'[t].at = "inside"
          /\ \A u \in WorkThreads \ {t} : call'[u] = call[u]
        BY <1>1, <1>a DEF Invoke, CallsBound
    <2> QED BY <1>b, <2>1 DEF CallsBound
<1>2. ASSUME NEW t \in WorkThreads, CallEmptyFunction(t) \/ InvokeCrashes(t) \/ Return(t)
      PROVE  CallsBound'
    <2>1. call'[t].at = "idle" /\ \A u \in WorkThreads \ {t} : call'[u] = call[u]
        <3>1. call' = [call EXCEPT ![t] = NoCall] /\ NoCall.at = "idle"
            BY <1>2 DEF CallEmptyFunction, InvokeCrashes, Return, NoCall
        <3> QED BY <1>a, <3>1
    <2> QED BY <1>b, <2>1 DEF CallsBound
<1>3. ASSUME NEW t \in WorkThreads, NEW name \in Names, Lookup(t, name)
      PROVE  CallsBound'
    <2> DEFINE binding == IF name \in DOMAIN registered_methods_
                          THEN registered_methods_[name] ELSE EmptyFunction
    <2>1. binding.handle \in {EmptyFunction.handle} \cup DOMAIN handles
        BY DEF TypeOK, Bindings
    <2>2. call' = [call EXCEPT ![t] = [at |-> "found", handle |-> binding.handle]]
        BY <1>3 DEF Lookup
    <2> HIDE DEF binding
    <2>3. /\ call'[t].at = "found" /\ call'[t].handle = binding.handle
          /\ \A u \in WorkThreads \ {t} : call'[u] = call[u]
        BY <1>a, <2>2
    <2> QED BY <1>b, <2>1, <2>3 DEF CallsBound
<1>4. ASSUME UNCHANGED call PROVE CallsBound'
    BY <1>4, <1>b DEF CallsBound
<1> QED BY <1>1, <1>2, <1>3, <1>4
        DEF Next, ServerNext, NewServer, Listen, ListenThrows, DestroyServer, CreateService,
            RegisterMethod, DropHandle, Loop, OnAccept, OnAcceptError, vars

(* Every step preserves ObjectsKept.                                       *)
LEMMA ObjectsStep ==
  ASSUME TypeOK, ObjectsKept, [Next]_vars
  PROVE  ObjectsKept'
<1> USE DEF logVars, lifeVars, netVars, tableVars
<1>1. ASSUME NEW s \in Services, CreateService(s) PROVE ObjectsKept'
    <2> DEFINE n == Len(handles) + 1
    <2>0. \A h \in DOMAIN handles : n > h
        BY HandlesType
    <2>1. /\ DOMAIN handles' = DOMAIN handles \cup {n} /\ n \notin DOMAIN handles
          /\ \A h \in DOMAIN handles : handles'[h] = handles[h]
          /\ handles'[n].service = s
          /\ created_services_' = [created_services_ EXCEPT ![s] = n]
        BY <1>1, Created
    <2> HIDE DEF n
    <2>2. created_services_ \in [Services -> {0} \cup DOMAIN handles]
        BY DEF TypeOK
    <2>3. ASSUME NEW h \in DOMAIN handles
          PROVE  \/ created_services_'[handles'[h].service] = h
                 \/ \E g \in DOMAIN handles' : g > h /\ handles'[g].service = handles'[h].service
        <3>1. CASE handles[h].service = s
            BY <2>0, <2>1, <3>1
        <3>2. CASE handles[h].service # s
            <4>1. handles[h].service \in Services
                BY HandlesType
            <4>2. created_services_'[handles[h].service] = created_services_[handles[h].service]
                BY <2>1, <2>2, <3>2, <4>1
            <4> QED BY <2>1, <4>2 DEF ObjectsKept
        <3> QED BY <3>1, <3>2
    <2>4. created_services_'[handles'[n].service] = n
        BY <2>1, <2>2
    <2> QED BY <2>1, <2>3, <2>4 DEF ObjectsKept
<1>2. ASSUME NEW h \in DOMAIN handles, DropHandle(h) PROVE ObjectsKept'
    <2>1. created_services_' = created_services_
        BY <1>2 DEF DropHandle
    <2>2. DOMAIN handles' = DOMAIN handles
            /\ \A g \in DOMAIN handles : handles'[g].service = handles[g].service
        BY <1>2, Dropped
    <2> QED BY <2>1, <2>2 DEF ObjectsKept
<1>3. ASSUME UNCHANGED <<handles, created_services_>> PROVE ObjectsKept'
    BY <1>3 DEF ObjectsKept
<1> QED BY <1>1, <1>2, <1>3
        DEF Next, ServerNext, NewServer, Listen, ListenThrows, DestroyServer, RegisterMethod,
            Loop, OnAccept, OnAcceptError, CallEmptyFunction, Invoke, InvokeCrashes, Return, Lookup, vars

(* Every step preserves AcceptorUntouched.                                 *)
LEMMA AcceptorStep ==
  ASSUME AcceptorUntouched, [Next]_vars
  PROVE  AcceptorUntouched'
BY DEF logVars, lifeVars, netVars, tableVars, AcceptorUntouched, Next, ServerNext,
       NewServer, Listen, ListenThrows, DestroyServer, CreateService, RegisterMethod, DropHandle,
       Loop, OnAccept, OnAcceptError, CallEmptyFunction, Invoke, InvokeCrashes, Return, Lookup, vars

-----------------------------------------------------------------------------
(* The inductive invariant of the server.                                  *)
THEOREM Invariance == Spec => []Inv
<1>1. Inv /\ [Next]_vars => Inv'
    BY TypeStep, OwnershipStep, CallsStep, ObjectsStep, AcceptorStep DEF Inv
<1> QED BY <1>1, InitInv, PTL DEF Spec

(* Type correctness, which includes that a server listens on a port that   *)
(* is a uint16_t, whatever number is in its address.                       *)
THEOREM TypeCorrect == Spec => []TypeOK
<1>1. Inv => TypeOK
    BY DEF Inv
<1> QED BY <1>1, Invariance, PTL

(* The Executor lives as long as a handle may pass calls on to it, and is  *)
(* never freed under a thread that uses it.                                *)
THEOREM ExecutorLives == Spec => []ExecutorKept
<1>1. Inv => ExecutorKept
    BY DEF Inv, Ownership, ExecutorKept
<1> QED BY <1>1, Invariance, PTL

(* The object on which a method runs is alive, unless a later service of   *)
(* the same name has been created.                                         *)
THEOREM ObjectsOutliveCalls == Spec => []ObjectOutlivesCall
<1>1. Inv => ObjectOutlivesCall
    <2> SUFFICES ASSUME Inv, NEW t \in WorkThreads, call[t].at = "inside"
                 PROVE  LET h == call[t].handle
                        IN  \/ Alive(h)
                            \/ \E s \in Services : created_services_[s] = h
                            \/ \E g \in DOMAIN handles : g > h /\ handles[g].service = handles[h].service
        BY DEF ObjectOutlivesCall
    <2> DEFINE h == call[t].handle
    <2>1. h \in DOMAIN handles
        BY DEF Inv, CallsBound
    <2>2. handles[h].service \in Services
        BY <2>1, HandlesType DEF Inv
    <2> QED BY <2>1, <2>2 DEF Inv, ObjectsKept
<1> QED BY <1>1, Invariance, PTL

(* Every address a server is constructed with survives being written and   *)
(* parsed again.                                                           *)
THEOREM RoundTrips == Spec => []RoundTrip
<1>1. Inv => RoundTrip
    BY AddressIsText, ParsesItsOwnText DEF Inv, RoundTrip
<1> QED BY <1>1, Invariance, PTL

(* A server given host:port listens on that port or, only if the port is   *)
(* taken, fails; and it listens on none for a text without a number.       *)
THEOREM ListensWhereTold == Spec => ListensAtItsAddress
<1> DEFINE Told ==
      address # << >> /\ address' = << >> =>
        /\ \A p \in Ports : Denotes(address, p) =>
             IF p \in BusyPorts THEN server' = "failed"
             ELSE acceptor_' = [is |-> "open", port |-> p]
        /\ stoi(PortText(address)) = << >> => acceptor_'.is = "null"
<1>1. Inv /\ [Next]_vars => [Told]_vars
    <2> SUFFICES ASSUME Inv, Next, address # << >>, address' = << >>
                 PROVE  /\ \A p \in Ports : Denotes(address, p) =>
                             IF p \in BusyPorts THEN server' = "failed"
                             ELSE acceptor_' = [is |-> "open", port |-> p]
                        /\ stoi(PortText(address)) = << >> => acceptor_'.is = "null"
        OBVIOUS
    <2>1. server = "starting" /\ acceptor_.is = "null"
        BY DEF Inv, AcceptorUntouched
    <2>2. Listen \/ ListenThrows
        BY <2>1 DEF Next, ServerNext, NewServer, DestroyServer, CreateService, RegisterMethod, DropHandle,
                    Loop, OnAccept, OnAcceptError, CallEmptyFunction, Invoke, InvokeCrashes, Return, Lookup,
                    lifeVars, netVars, tableVars
    <2>3. ASSUME NEW p \in Ports, Denotes(address, p)
          PROVE  Parse(address) # << >> /\ Parse(address)[1].port_ = p
        BY <2>3, AddressIsText, ParsesDenoted DEF Inv, Ports
    <2>4. stoi(PortText(address)) = << >> => Parse(address) = << >>
        BY DEF Parse
    <2>5. CASE Listen
        BY <2>3, <2>4, <2>5 DEF Listen, CanListen
    <2>6. CASE ListenThrows
        BY <2>1, <2>3, <2>6 DEF ListenThrows, CanListen
    <2> QED BY <2>2, <2>5, <2>6
<1> QED BY <1>1, Invariance, PTL DEF Spec, ListensAtItsAddress

(* A method is registered under its own name, so that a client that asks   *)
(* for it finds it: for methods and qualifiers of any length, provided the *)
(* expressions that Remote is given are plain.                             *)
THEOREM KeysNameMethods ==
  ASSUME \A x \in Expressions : Plain(x.text, x.method)
  PROVE  Spec => []KeyNamesMethod
<1>1. Init => KeyNamesMethod
    BY DEF Init, KeyNamesMethod
<1>2. KeyNamesMethod /\ [Next]_vars => KeyNamesMethod'
    <2> USE DEF logVars, lifeVars, netVars, tableVars
    <2> SUFFICES ASSUME KeyNamesMethod, [Next]_vars PROVE KeyNamesMethod'
        OBVIOUS
    <2>1. ASSUME NEW h \in DOMAIN handles, NEW x \in Expressions, RegisterMethod(h, x)
          PROVE  KeyNamesMethod'
        <3>1. Remote[x] = x.method
            BY FindsName DEF Remote
        <3>2. registered_methods_' = WithBinding(x.method, [handle |-> h, method |-> x.method])
            BY <2>1, <3>1 DEF RegisterMethod
        <3> QED BY <3>2 DEF KeyNamesMethod, WithBinding
    <2>2. ASSUME NEW t \in WorkThreads, NEW name \in Names, Lookup(t, name)
          PROVE  KeyNamesMethod'
        BY <2>2 DEF Lookup, KeyNamesMethod, WithBinding
    <2>3. CASE UNCHANGED registered_methods_
        BY <2>3 DEF KeyNamesMethod
    <2> QED BY <2>1, <2>2, <2>3
            DEF vars, Next, ServerNext, NewServer, StartDousiLog, Listen, ListenThrows, DestroyServer,
                CreateService, DropHandle, Loop, OnAccept, OnAcceptError,
                CallEmptyFunction, Invoke, InvokeCrashes, Return, Lookup
<1> QED BY <1>1, <1>2, PTL DEF Spec
=============================================================================

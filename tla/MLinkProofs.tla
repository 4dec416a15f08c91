---------------------------- MODULE MLinkProofs ----------------------------
(***************************************************************************)
(* Proofs about MLink, for datagrams and lists of registers of any length. *)
(***************************************************************************)
EXTENDS MLink, SequenceLemmas

-----------------------------------------------------------------------------
(* Registers and their words *)

\* The two halves of a value can be told apart again.
LEMMA Halves ==
    ASSUME NEW v \in Nat \ {0}, NEW high \in Nat, NEW low \in 0 .. v - 1
    PROVE  /\ (high * v + low) % v = low
           /\ (high * v + low) \div v = high
OBVIOUS

LEMMA Multiples ==
    ASSUME NEW a \in Nat, NEW b \in Nat, NEW v \in Nat, a <= b
    PROVE  a * v \in Nat /\ a * v <= b * v
<1>1. (b - a) \in Nat /\ a + (b - a) = b
  OBVIOUS
<1>2. (b - a) * v \in Nat /\ a * v \in Nat /\ (a + (b - a)) * v = a * v + (b - a) * v
  BY <1>1
<1>. QED BY <1>1, <1>2

LEMMA WholeOfHalves ==
    ASSUME NEW v \in Nat \ {0}, NEW x \in Nat, x < v * v
    PROVE  /\ x % v \in 0 .. v - 1
           /\ x \div v \in 0 .. v - 1
           /\ (x \div v) * v + (x % v) = x
<1>. DEFINE q == x \div v
            r == x % v
<1>1. /\ q \in Nat /\ r \in 0 .. v - 1
      /\ v * q <= x /\ x = v * q + r
  OBVIOUS
<1>. HIDE DEF q, r
<1>2. ASSUME q >= v PROVE FALSE
  <2>1. v * q >= v * v
    BY <1>1, <1>2
  <2>2. v * q \in Nat /\ v * v \in Nat
    BY <1>1
  <2>. QED BY <2>1, <2>2, <1>1
<1>3. v * q = q * v
  BY <1>1
<1>. QED BY <1>1, <1>2, <1>3 DEF q, r

\* The addresses of the registers.
LEMMA Addresses ==
    /\ Register16 \cap Register32 = {}
    /\ \A a \in Register16 : a \in Address
    /\ \A a \in Register32 : a \in Address /\ a + 1 \in Address
<1>1. Register16 \cap Register32 = {}
  BY DEF Register16, Register32
<1>. DEFINE top == \h7FFF
<1>2. ASSUME NEW a \in Register16 PROVE a \in Nat /\ a <= top
  BY DEF Register16
<1>3. ASSUME NEW a \in Register32 PROVE a \in Nat /\ a <= top /\ a + 1 <= top
  BY DEF Register32
<1>4. Address = 0 .. top /\ top \in Nat
  BY DEF Address
<1>. HIDE DEF top
<1>5. \A a \in Nat : a <= top => a \in 0 .. top
  BY <1>4
<1>6. \A a \in Register16 : a \in Address
  BY <1>2, <1>4, <1>5
<1>7. ASSUME NEW a \in Register32 PROVE a \in Address /\ a + 1 \in Address
  <2>1. a + 1 \in Nat
    BY <1>3
  <2>. QED BY <1>3, <1>4, <1>5, <2>1
<1>. QED BY <1>1, <1>6, <1>7

\* One word or two, of words.
LEMMA WordsTypes ==
    ASSUME NEW reg \in CtrlReg
    PROVE  /\ WordsOf(reg) \in Seq(Word)
           /\ Len(WordsOf(reg)) = IF reg.width = 16 THEN 1 ELSE 2
           /\ reg.width \in {16, 32}
           /\ reg.width = 16 =>
                 WordsOf(reg)[1] = [read |-> reg.read, address |-> reg.address,
                                    value |-> reg.value]
           /\ reg.width = 32 =>
                 /\ WordsOf(reg)[1] = [read |-> reg.read, address |-> reg.address,
                                       value |-> reg.value % ValueModulus]
                 /\ WordsOf(reg)[2] = [read |-> reg.read, address |-> reg.address + 1,
                                       value |-> reg.value \div ValueModulus]
<1>1. ValueModulus \in Nat \ {0}
  BY InputsAssumption
<1>2. CASE reg.width = 16
  <2>1. reg.read \in BOOLEAN /\ reg.address \in Register16 /\ reg.value \in 0 .. ValueModulus - 1
    BY <1>2 DEF CtrlReg
  <2>2. reg.address \in Address
    BY <2>1, Addresses
  <2>3. WordsOf(reg) = <<[read |-> reg.read, address |-> reg.address, value |-> reg.value]>>
    BY <1>2 DEF WordsOf
  <2>4. [read |-> reg.read, address |-> reg.address, value |-> reg.value] \in Word
    BY <2>1, <2>2 DEF Word
  <2>. QED BY <1>2, <2>3, <2>4
<1>3. CASE reg.width = 32
  <2>1. /\ reg.read \in BOOLEAN /\ reg.address \in Register32
        /\ reg.value \in 0 .. ValueModulus * ValueModulus - 1
    BY <1>3 DEF CtrlReg
  <2>2. reg.address \in Address /\ reg.address + 1 \in Address
    BY <2>1, Addresses
  <2>3. reg.value \in Nat /\ reg.value < ValueModulus * ValueModulus
    BY <1>1, <2>1
  <2>4. /\ reg.value % ValueModulus \in 0 .. ValueModulus - 1
        /\ reg.value \div ValueModulus \in 0 .. ValueModulus - 1
    BY <1>1, <2>3, WholeOfHalves
  <2>. DEFINE low == [read |-> reg.read, address |-> reg.address,
                      value |-> reg.value % ValueModulus]
              high == [read |-> reg.read, address |-> reg.address + 1,
                       value |-> reg.value \div ValueModulus]
  <2>5. WordsOf(reg) = <<low, high>>
    BY <1>3 DEF WordsOf
  <2>6. low \in Word /\ high \in Word
    BY <2>1, <2>2, <2>4 DEF Word
  <2>. HIDE DEF low, high
  <2>7. /\ WordsOf(reg) \in Seq(Word) /\ Len(WordsOf(reg)) = 2
        /\ WordsOf(reg)[1] = low /\ WordsOf(reg)[2] = high
    BY <2>5, <2>6
  <2>. QED BY <1>3, <2>7 DEF low, high
<1>. QED BY <1>2, <1>3 DEF CtrlReg

\* The words of no registers, and of one more.
LEMMA WordsOfNone == WordsOfAll(<<>>) = <<>>
<1>1. [k \in 1 .. Len(<<>>) |-> WordsOf(<<>>[k])] = <<>>
  OBVIOUS
<1>. QED BY <1>1, FlattenEmpty DEF WordsOfAll

LEMMA WordsLists ==
    ASSUME NEW list \in Seq(CtrlReg)
    PROVE  /\ [k \in 1 .. Len(list) |-> WordsOf(list[k])] \in Seq(Seq(Word))
           /\ WordsOfAll(list) \in Seq(Word)
<1>1. \A k \in 1 .. Len(list) : WordsOf(list[k]) \in Seq(Word)
  <2>1. \A k \in 1 .. Len(list) : list[k] \in CtrlReg
    OBVIOUS
  <2>. QED BY <2>1, WordsTypes
<1>. DEFINE words == [k \in 1 .. Len(list) |-> WordsOf(list[k])]
<1>2. words \in Seq(Seq(Word))
  BY <1>1
<1>. QED BY <1>2, FlattenType DEF WordsOfAll

LEMMA WordsOfMore ==
    ASSUME NEW list \in Seq(CtrlReg), NEW reg \in CtrlReg
    PROVE  WordsOfAll(Append(list, reg)) = WordsOfAll(list) \o WordsOf(reg)
<1>. DEFINE words == [k \in 1 .. Len(list) |-> WordsOf(list[k])]
            more == Append(list, reg)
            moreWords == [k \in 1 .. Len(more) |-> WordsOf(more[k])]
<1>1. words \in Seq(Seq(Word)) /\ WordsOf(reg) \in Seq(Word)
  BY WordsLists, WordsTypes
<1>2. /\ Len(more) = Len(list) + 1 /\ Len(list) \in Nat /\ more[Len(list) + 1] = reg
      /\ \A k \in 1 .. Len(list) : more[k] = list[k]
  OBVIOUS
<1>. HIDE DEF more
<1>3. Len(words) = Len(list) /\ \A k \in 1 .. Len(list) : words[k] = WordsOf(list[k])
  BY <1>2
<1>4. moreWords = Append(words, WordsOf(reg))
  <2>1. \A k \in 1 .. Len(list) + 1 :
            Append(words, WordsOf(reg))[k] = IF k = Len(list) + 1 THEN WordsOf(reg) ELSE words[k]
    BY <1>1, <1>2, <1>3
  <2>2. Append(words, WordsOf(reg)) = [k \in 1 .. Len(list) + 1 |-> Append(words, WordsOf(reg))[k]]
    BY <1>1, <1>2, <1>3
  <2>3. \A k \in 1 .. Len(list) + 1 :
            WordsOf(more[k]) = IF k = Len(list) + 1 THEN WordsOf(reg) ELSE words[k]
    BY <1>2, <1>3
  <2>. QED BY <1>2, <2>1, <2>2, <2>3
<1>5. FlattenSeq(Append(words, WordsOf(reg))) = FlattenSeq(words) \o WordsOf(reg)
  <2>. HIDE DEF words
  <2>. QED BY <1>1, FlattenAppend
<1>. QED BY <1>4, <1>5 DEF WordsOfAll, more

\* The words of the first registers of a list come first.
LEMMA WordsOfPrefix ==
    ASSUME NEW list \in Seq(CtrlReg), NEW n \in 0 .. Len(list) - 1
    PROVE  WordsOfAll(SubSeq(list, 1, n + 1)) =
               WordsOfAll(SubSeq(list, 1, n)) \o WordsOf(list[n + 1])
<1>. DEFINE before == SubSeq(list, 1, n)
            reg == list[n + 1]
<1>1. before \in Seq(CtrlReg) /\ reg \in CtrlReg
  OBVIOUS
<1>2. SubSeq(list, 1, n + 1) = Append(before, reg)
  OBVIOUS
<1>. HIDE DEF before, reg
<1>3. WordsOfAll(Append(before, reg)) = WordsOfAll(before) \o WordsOf(reg)
  BY <1>1, WordsOfMore
<1>. QED BY <1>2, <1>3 DEF before, reg

LEMMA WordsAssociate ==
    \A a, b, c \in Seq(Word) : (a \o b) \o c = a \o (b \o c)
BY ConcatAssociative

LEMMA WordsAfterPrefix ==
    ASSUME NEW list \in Seq(CtrlReg), NEW n \in 0 .. Len(list)
    PROVE  \E rest \in Seq(Word) :
               WordsOfAll(list) = WordsOfAll(SubSeq(list, 1, n)) \o rest
<1>. DEFINE W(k) == WordsOfAll(SubSeq(list, 1, k))
            Good(d) == \E rest \in Seq(Word) : WordsOfAll(list) = W(Len(list) - d) \o rest
            D == {d \in 0 .. Len(list) : ~ Good(d)}
<1>1. ASSUME NEW k \in 0 .. Len(list)
      PROVE  W(k) \in Seq(Word) /\ (k < Len(list) => /\ W(k + 1) = W(k) \o WordsOf(list[k + 1])
                                                     /\ WordsOf(list[k + 1]) \in Seq(Word))
  <2>1. SubSeq(list, 1, k) \in Seq(CtrlReg)
    OBVIOUS
  <2>2. W(k) \in Seq(Word)
    BY <2>1, WordsLists
  <2>3. k < Len(list) => k \in 0 .. Len(list) - 1 /\ list[k + 1] \in CtrlReg
    OBVIOUS
  <2>4. ASSUME k < Len(list)
        PROVE  /\ W(k + 1) = W(k) \o WordsOf(list[k + 1])
               /\ WordsOf(list[k + 1]) \in Seq(Word)
    <3>1. W(k + 1) = W(k) \o WordsOf(list[k + 1])
      BY <2>3, <2>4, WordsOfPrefix
    <3>2. WordsOf(list[k + 1]) \in Seq(Word)
      BY <2>3, <2>4, WordsTypes
    <3>. QED BY <3>1, <3>2
  <2>. QED BY <2>2, <2>4
<1>2. W(Len(list)) = WordsOfAll(list)
  <2>1. SubSeq(list, 1, Len(list)) = list
    OBVIOUS
  <2>. QED BY <2>1
<1>. HIDE DEF W
<1>3. Good(0)
  <2>1. Len(list) - 0 = Len(list) /\ Len(list) \in 0 .. Len(list)
    OBVIOUS
  <2>2. W(Len(list)) \in Seq(Word)
    BY <1>1, <2>1
  <2>3. WordsOfAll(list) = W(Len(list) - 0) \o <<>> /\ <<>> \in Seq(Word)
    BY <1>2, <2>1, <2>2
  <2>. QED BY <2>3
<1>. HIDE DEF Good
<1>4. D = {}
  <2>1. SUFFICES ASSUME D # {} PROVE FALSE
    OBVIOUS
  <2>2. PICK d \in D : \A m \in D : d <= m
    <3>1. D \in SUBSET Nat
      OBVIOUS
    <3>. HIDE DEF D
    <3>. QED BY <2>1, <3>1, Least
  <2>3. d \in 1 .. Len(list) /\ ~ Good(d)
    <3>1. d \in 0 .. Len(list) /\ ~ Good(d)
      BY <2>2
    <3>2. d # 0
      BY <1>3, <3>1
    <3>. QED BY <3>1, <3>2
  <2>4. Good(d - 1)
    <3>1. d - 1 \in 0 .. Len(list) /\ ~ (d <= d - 1)
      BY <2>3
    <3>2. d - 1 \notin D
      BY <2>2, <3>1
    <3>. QED BY <3>1, <3>2
  <2>. DEFINE k == Len(list) - d
  <2>5. k \in 0 .. Len(list) /\ k < Len(list) /\ Len(list) - (d - 1) = k + 1
    BY <2>3
  <2>6. PICK rest \in Seq(Word) : WordsOfAll(list) = W(k + 1) \o rest
    BY <2>4, <2>5 DEF Good
  <2>7. /\ W(k) \in Seq(Word) /\ W(k + 1) = W(k) \o WordsOf(list[k + 1])
        /\ WordsOf(list[k + 1]) \in Seq(Word)
    BY <1>1, <2>5
  <2>. DEFINE more == WordsOf(list[k + 1]) \o rest
  <2>8. WordsOfAll(list) = W(k) \o more /\ more \in Seq(Word)
    <3>1. more \in Seq(Word)
      BY <2>7
    <3>2. (W(k) \o WordsOf(list[k + 1])) \o rest = W(k) \o more
      <4>. DEFINE front == W(k)
                  middle == WordsOf(list[k + 1])
      <4>1. front \in Seq(Word) /\ middle \in Seq(Word) /\ rest \in Seq(Word)
        BY <2>7
      <4>. HIDE DEF front, middle
      <4>2. (front \o middle) \o rest = front \o (middle \o rest)
        BY ONLY <4>1, WordsAssociate, Zenon
      <4>. QED BY <4>2 DEF front, middle
    <3>. QED BY <2>6, <2>7, <3>1, <3>2
  <2>9. Good(d)
    BY <2>8 DEF Good
  <2>. QED BY <2>3, <2>9
<1>5. Good(Len(list) - n)
  <2>1. Len(list) - n \in 0 .. Len(list)
    OBVIOUS
  <2>2. Len(list) - n \notin D
    BY <1>4
  <2>. QED BY <2>1, <2>2
<1>6. Len(list) - (Len(list) - n) = n
  OBVIOUS
<1>. QED BY <1>5, <1>6 DEF Good, W

\* A list is written to as many words as WordCount says.
LEMMA WordsLength ==
    ASSUME NEW list \in Seq(CtrlReg)
    PROVE  Len(WordsOfAll(list)) = WordCount(list)
<1>. DEFINE W(k) == WordsOfAll(SubSeq(list, 1, k))
            Wide(k) == {j \in 1 .. k : list[j].width = 32}
            Good(k) == Len(W(k)) = k + Cardinality(Wide(k))
            D == {k \in 0 .. Len(list) : ~ Good(k)}
<1>1. Good(0)
  <2>1. SubSeq(list, 1, 0) = <<>> /\ Wide(0) = {}
    OBVIOUS
  <2>2. W(0) = <<>> /\ Cardinality(Wide(0)) = 0
    BY <2>1, WordsOfNone, FS_EmptySet
  <2>. QED BY <2>2
<1>2. ASSUME NEW k \in 0 .. Len(list) - 1, Good(k) PROVE Good(k + 1)
  <2>1. list[k + 1] \in CtrlReg /\ SubSeq(list, 1, k) \in Seq(CtrlReg)
    OBVIOUS
  <2>2. /\ WordsOf(list[k + 1]) \in Seq(Word) /\ list[k + 1].width \in {16, 32}
        /\ Len(WordsOf(list[k + 1])) = IF list[k + 1].width = 16 THEN 1 ELSE 2
    BY <2>1, WordsTypes
  <2>3. W(k) \in Seq(Word)
    BY <2>1, WordsLists
  <2>4. W(k + 1) = W(k) \o WordsOf(list[k + 1])
    BY WordsOfPrefix
  <2>. HIDE DEF W
  <2>5. Len(W(k + 1)) = Len(W(k)) + Len(WordsOf(list[k + 1]))
    BY <2>2, <2>3, <2>4
  <2>6. IsFiniteSet(Wide(k)) /\ k + 1 \notin Wide(k)
    <3>1. IsFiniteSet(1 .. k)
      BY FS_Interval
    <3>2. Wide(k) \in SUBSET (1 .. k)
      OBVIOUS
    <3>. QED BY <3>1, <3>2, FS_Subset
  <2>7. Wide(k + 1) = IF list[k + 1].width = 16 THEN Wide(k) ELSE Wide(k) \cup {k + 1}
    BY <2>2
  <2>8. Cardinality(Wide(k + 1)) =
            IF list[k + 1].width = 16 THEN Cardinality(Wide(k)) ELSE Cardinality(Wide(k)) + 1
    <3>. HIDE DEF Wide
    <3>. QED BY <2>6, <2>7, FS_AddElement
  <2>9. Cardinality(Wide(k)) \in Nat
    BY <2>6, FS_CardinalityType
  <2>. HIDE DEF Wide
  <2>. QED BY <1>2, <2>2, <2>5, <2>8, <2>9
<1>. HIDE DEF Good
<1>3. D = {}
  <2>1. SUFFICES ASSUME D # {} PROVE FALSE
    OBVIOUS
  <2>2. PICK k \in D : \A m \in D : k <= m
    <3>1. D \in SUBSET Nat
      OBVIOUS
    <3>. HIDE DEF D
    <3>. QED BY <2>1, <3>1, Least
  <2>3. k \in 0 .. Len(list) /\ ~ Good(k)
    BY <2>2
  <2>4. k # 0
    BY <1>1, <2>3
  <2>5. k - 1 \in 0 .. Len(list) - 1 /\ k - 1 \in 0 .. Len(list) /\ (k - 1) + 1 = k /\ ~ (k <= k - 1)
    BY <2>3, <2>4
  <2>6. k - 1 \notin D
    BY <2>2, <2>5
  <2>7. Good(k - 1)
    BY <2>5, <2>6
  <2>. QED BY <1>2, <2>3, <2>5, <2>7
<1>4. Good(Len(list))
  <2>1. Len(list) \in 0 .. Len(list) /\ Len(list) \notin D
    BY <1>3
  <2>. QED BY <2>1
<1>5. SubSeq(list, 1, Len(list)) = list
  OBVIOUS
<1>. QED BY <1>4, <1>5 DEF Good, WordCount

\* Where the words of each register of a written list are.
LEMMA NextWords ==
    ASSUME NEW list \in Seq(CtrlReg), NEW n \in 0 .. Len(list) - 1,
           NEW c \in Word, NEW j \in 1 .. Len(WordsOf(list[n + 1]))
    PROVE  LET words == WordsOfAll(list) \o <<c>>
               at == Len(WordsOfAll(SubSeq(list, 1, n)))
           IN  /\ words \in Seq(Word) /\ at \in Nat
               /\ at + Len(WordsOf(list[n + 1])) <= Len(words) - 1
               /\ words[at + j] = WordsOf(list[n + 1])[j]
<1>. DEFINE words == WordsOfAll(list) \o <<c>>
            at == Len(WordsOfAll(SubSeq(list, 1, n)))
            front == WordsOfAll(SubSeq(list, 1, n))
            middle == WordsOf(list[n + 1])
            all == WordsOfAll(list)
            upTo == WordsOfAll(SubSeq(list, 1, n + 1))
<1>1. /\ n + 1 \in 0 .. Len(list) /\ n \in 0 .. Len(list) /\ list[n + 1] \in CtrlReg
      /\ SubSeq(list, 1, n) \in Seq(CtrlReg)
  OBVIOUS
<1>2. PICK rest \in Seq(Word) : all = upTo \o rest
  BY <1>1, WordsAfterPrefix
<1>3. upTo = front \o middle
  BY WordsOfPrefix
<1>4. front \in Seq(Word) /\ middle \in Seq(Word) /\ Len(middle) \in Nat \ {0} /\ all \in Seq(Word)
  <2>1. front \in Seq(Word) /\ all \in Seq(Word)
    BY <1>1, WordsLists
  <2>2. middle \in Seq(Word) /\ Len(middle) = IF list[n + 1].width = 16 THEN 1 ELSE 2
    BY <1>1, WordsTypes
  <2>. QED BY <2>1, <2>2
<1>5. at = Len(front) /\ words = all \o <<c>>
  OBVIOUS
<1>. HIDE DEF front, middle, all, upTo, words, at
<1>6. words \in Seq(Word) /\ at \in Nat /\ Len(words) = Len(all) + 1
  <2>1. Len(front) \in Nat
    BY <1>4
  <2>2. all \o <<c>> \in Seq(Word) /\ Len(all \o <<c>>) = Len(all) + 1
    BY <1>4
  <2>. QED BY <1>5, <2>1, <2>2
<1>7. Len(all) = at + Len(middle) + Len(rest) /\ Len(rest) \in Nat
  <2>1. upTo \in Seq(Word) /\ Len(upTo) = Len(front) + Len(middle)
    BY <1>3, <1>4
  <2>2. /\ Len(upTo) \in Nat /\ Len(rest) \in Nat /\ Len(front) \in Nat /\ Len(middle) \in Nat
        /\ Len(upTo \o rest) = Len(upTo) + Len(rest)
    <3>1. Len(upTo) \in Nat /\ Len(rest) \in Nat /\ Len(front) \in Nat /\ Len(middle) \in Nat
      BY <1>4, <2>1
    <3>. QED BY <2>1, <3>1, ConcatProperties
  <2>. QED BY <1>2, <1>5, <2>1, <2>2
<1>8. words[at + j] = middle[j]
  <2>0. j \in 1 .. Len(middle)
    BY DEF middle
  <2>1. at + j \in 1 .. Len(upTo) /\ upTo[at + j] = middle[j]
    <3>1. front \in Seq(Word) /\ middle \in Seq(Word) /\ upTo = front \o middle /\ at = Len(front)
      BY <1>3, <1>4, <1>5
    <3>2. /\ Len(front) \in Nat /\ Len(middle) \in Nat /\ Len(upTo) = Len(front) + Len(middle)
          /\ at + j \in 1 .. Len(upTo) /\ at + j > Len(front) /\ (at + j) - Len(front) = j
      BY ONLY <2>0, <3>1
    <3>. QED BY ONLY <3>1, <3>2, ConcatProperties
  <2>2. upTo \in Seq(Word)
    BY <1>3, <1>4
  <2>3. at + j \in 1 .. Len(all) /\ all[at + j] = upTo[at + j]
    BY <1>2, <2>1, <2>2
  <2>4. words[at + j] = all[at + j]
    BY <1>4, <1>5, <2>3
  <2>. QED BY <2>1, <2>3, <2>4
<1>. QED BY <1>4, <1>6, <1>7, <1>8 DEF middle, words, at

-----------------------------------------------------------------------------
(* Reading *)

\* The last word of what the program writes is a word, and all of it a datagram.
LEMMA CRCType == CRC \in Word
<1>1. ValueModulus \in Nat \ {0}
  BY InputsAssumption
<1>2. \h6249 % ValueModulus \in 0 .. ValueModulus - 1
  BY <1>1
<1>3. \h1220 \in Address
  BY DEF Address
<1>. QED BY <1>2, <1>3 DEF CRC, Word

\* Lengths are remainders of 16 bits: right when they fit, and too short otherwise.
LEMMA Remainders ==
    ASSUME NEW m \in Nat \ {0}, NEW n \in Nat
    PROVE  /\ (3 + (n % m) + 1) % m \in 0 .. m - 1
           /\ n + 4 < m => (3 + (n % m) + 1) % m = n + 4
<1>1. n % m \in Nat
  OBVIOUS
<1>2. 3 + (n % m) + 1 \in Nat
  BY <1>1
<1>. DEFINE k == 3 + (n % m) + 1
<1>3. k \in Nat
  BY <1>2
<1>4. n + 4 < m => n % m = n /\ k = n + 4
  OBVIOUS
<1>. HIDE DEF k
<1>5. k % m \in 0 .. m - 1 /\ (k < m => k % m = k)
  BY <1>3
<1>. QED BY <1>4, <1>5 DEF k

LEMMA ToDatagramType ==
    ASSUME NEW list \in Seq(CtrlReg), NEW type \in {"CtrlReq", "CtrlAck"}
    PROVE  /\ ToDatagram(type, list) \in Datagram
           /\ WordCount(list) \in Nat
           /\ ToDatagram(type, list).type = type
           /\ ToDatagram(type, list).len \in 0 .. LenModulus - 1
           /\ WordCount(list) + 4 < LenModulus =>
                 ToDatagram(type, list).len = WordCount(list) + 4
           /\ ToDatagram(type, list).words = WordsOfAll(list) \o <<CRC>>
<1>1. WordsOfAll(list) \in Seq(Word)
  BY WordsLists
<1>2. WordCount(list) \in Nat
  BY <1>1, WordsLength
<1>3. WordsOfAll(list) \o <<CRC>> \in Seq(Word)
  BY <1>1, CRCType
<1>. DEFINE len == (3 + (WordCount(list) % LenModulus) + 1) % LenModulus
<1>4. /\ len \in 0 .. LenModulus - 1
      /\ WordCount(list) + 4 < LenModulus => len = WordCount(list) + 4
  BY <1>2, Remainders, InputsAssumption
<1>5. ToDatagram(type, list) = [type |-> type, len |-> len,
                                words |-> WordsOfAll(list) \o <<CRC>>]
  BY DEF ToDatagram, RegsLen
<1>. HIDE DEF len
<1>. QED BY <1>2, <1>3, <1>4, <1>5 DEF Datagram, Type

\* Whether a list fits, by its words.
LEMMA FitsWords ==
    ASSUME NEW list \in Seq(CtrlReg)
    PROVE  /\ WordCount(list) \in Nat
           /\ Fits(list) <=> WordCount(list) + 4 < LenModulus /\ ~ BuildPanics(list)
<1>1. Len(WordsOfAll(list)) = WordCount(list) /\ WordCount(list) \in Nat
  <2>1. WordsOfAll(list) \in Seq(Word) /\ Len(WordsOfAll(list)) = WordCount(list)
    BY WordsLists, WordsLength
  <2>. QED BY <2>1
<1>2. LenModulus \in Nat
  BY InputsAssumption
<1>. QED BY <1>1, <1>2 DEF Fits, BuildPanics

\* What has been read is the words before the offset.
ReadInv ==
    /\ datagram \in Datagram
    /\ data \in Seq(Word)
    /\ regs \in Seq(CtrlReg)
    /\ offset \in Nat
    /\ result \in {"slicing", "reading", "ok", "panic"}
    /\ offset <= Len(data) - 1 \/ offset = 0
    /\ WordsOfAll(regs) = SubSeq(data, 1, offset)
    /\ result = "slicing" => offset = 0 /\ regs = <<>>
    /\ result = "ok" /\ datagram.type # "Stream" => offset = Len(data) - 1

\* What the program builds,
SentInv ==
    sent # <<>> =>
        /\ sent \in Lists
        /\ \E type \in {"CtrlReq", "CtrlAck"} : datagram = ToDatagram(type, sent)

\* if it fits, is read as far as it was written,
OwnInv ==
    sent # <<>> /\ Fits(sent) =>
        /\ result # "panic"
        /\ result # "slicing" => data = WordsOfAll(sent) \o <<CRC>>
        /\ Len(regs) <= Len(sent)
        /\ regs = SubSeq(sent, 1, Len(regs))

\* and if it does not, is never built, or its last word at least is cut off.
CutInv ==
    sent # <<>> /\ ~ Fits(sent) =>
        /\ BuildPanics(sent) => result = "panic"
        /\ result \in {"reading", "ok"} => Len(data) <= WordCount(sent)

IInv == ReadInv /\ SentInv /\ OwnInv /\ CutInv

LEMMA InitReads == Init => IInv
<1>. SUFFICES ASSUME Init PROVE IInv
  OBVIOUS
<1>1. sent # <<>> => sent \in Lists /\ sent \in Seq(CtrlReg)
  BY InputsAssumption DEF Init
<1>2. SentInv
  BY <1>1 DEF Init, SentInv
<1>3. datagram \in Datagram
  <2>1. CASE sent = <<>>
    BY <2>1, InputsAssumption DEF Init
  <2>2. CASE sent # <<>>
    BY <2>2, <1>1, <1>2, ToDatagramType DEF SentInv
  <2>. QED BY <2>1, <2>2
<1>4. /\ data = <<>> /\ regs = <<>> /\ offset = 0 /\ result \in {"slicing", "panic"}
      /\ sent # <<>> /\ Fits(sent) => result = "slicing"
      /\ sent # <<>> /\ BuildPanics(sent) => result = "panic"
  BY <1>1, FitsWords DEF Init
<1>5. WordsOfAll(regs) = SubSeq(data, 1, offset)
  <2>1. SubSeq(<<>>, 1, 0) = <<>>
    OBVIOUS
  <2>. QED BY <1>4, <2>1, WordsOfNone
<1>6. sent # <<>> => Len(regs) <= Len(sent) /\ regs = SubSeq(sent, 1, Len(regs))
  BY <1>1, <1>4
<1>. QED BY <1>2, <1>3, <1>4, <1>5, <1>6 DEF IInv, ReadInv, OwnInv, CutInv

LEMMA ReadStep == IInv /\ [Next]_vars => ReadInv'
<1>. SUFFICES ASSUME ReadInv, [Next]_vars PROVE ReadInv'
  BY DEF IInv
<1>. USE DEF ReadInv
<1>v. ValueModulus \in Nat \ {0}
  BY InputsAssumption
<1>w. First \in Word \/ ~ MoreRegs
  BY DEF First, MoreRegs
<1>1. CASE Slice
  <2>1. result = "slicing" /\ regs' = regs /\ offset' = offset /\ datagram' = datagram
    BY <1>1 DEF Slice
  <2>2. offset = 0 /\ regs = <<>>
    BY <2>1
  <2>3. datagram.words \in Seq(Word)
    BY DEF Datagram
  <2>4. data' \in Seq(Word) /\ result' \in {"reading", "panic"}
    <3>. DEFINE words == datagram.words
                size == datagram.len - HeaderWords
    <3>1. words \in Seq(Word)
      BY <2>3
    <3>2. \/ size \in 0 .. Len(words) /\ data' = SubSeq(words, 1, size) /\ result' = "reading"
          \/ result' = "panic" /\ data' = data
      BY <1>1 DEF Slice
    <3>. HIDE DEF words, size
    <3>3. size \in 0 .. Len(words) => SubSeq(words, 1, size) \in Seq(Word)
      <4>1. SUFFICES ASSUME size \in 0 .. Len(words) PROVE SubSeq(words, 1, size) \in Seq(Word)
        OBVIOUS
      <4>2. \A i \in 1 .. size : words[i] \in Word
        BY <3>1, <4>1
      <4>. QED BY <4>1, <4>2, SubSeqProperties
    <3>. QED BY <3>2, <3>3
  <2>5. SubSeq(data', 1, 0) = <<>>
    BY <2>4
  <2>. QED BY <2>1, <2>2, <2>4, <2>5, WordsOfNone
<1>2. CASE ReadFragment
  BY <1>2 DEF ReadFragment
<1>3. CASE ReadReg32
  <2>1. CASE ~ SecondFits
    BY <1>3, <2>1 DEF ReadReg32, MoreRegs
  <2>2. CASE SecondFits
    <3>. DEFINE whole == Second.value * ValueModulus + First.value
                reg == [width |-> 32, read |-> First.read, address |-> First.address,
                        value |-> whole]
    <3>1. /\ regs' = Append(regs, reg) /\ offset' = offset + 2 /\ First.address \in Register32
          /\ MoreRegs /\ result = "reading"
          /\ UNCHANGED <<sent, datagram, data, result>>
      BY <1>3, <2>2 DEF ReadReg32, MoreRegs
    <3>2. /\ offset + 2 <= Len(data) - 1 /\ offset + 2 \in 1 .. Len(data) /\ Second \in Word
          /\ Second.read = First.read /\ Second.address = First.address + 1
      BY <2>2 DEF SecondFits, Second
    <3>3. /\ First = [read |-> First.read, address |-> First.address, value |-> First.value]
          /\ Second = [read |-> Second.read, address |-> Second.address,
                       value |-> Second.value]
          /\ First.read \in BOOLEAN
          /\ First.value \in 0 .. ValueModulus - 1 /\ Second.value \in 0 .. ValueModulus - 1
      BY <1>w, <3>1, <3>2 DEF Word
    <3>4. whole \in 0 .. ValueModulus * ValueModulus - 1
      <4>1. /\ First.value \in Nat /\ Second.value \in Nat /\ First.value <= ValueModulus - 1
            /\ Second.value <= ValueModulus - 1 /\ ValueModulus - 1 \in Nat
        BY <1>v, <3>3
      <4>2. /\ Second.value * ValueModulus \in Nat
            /\ Second.value * ValueModulus <= (ValueModulus - 1) * ValueModulus
        BY <1>v, <4>1, Multiples
      <4>3. (ValueModulus - 1) * ValueModulus = ValueModulus * ValueModulus - ValueModulus
        BY <1>v
      <4>. DEFINE square == ValueModulus * ValueModulus
                  high == Second.value * ValueModulus
                  low == First.value
      <4>4. /\ square \in Int /\ high \in Nat /\ low \in Nat /\ ValueModulus \in Nat
            /\ high <= square - ValueModulus /\ low <= ValueModulus - 1
        BY <1>v, <4>1, <4>2, <4>3
      <4>. HIDE DEF square, high, low
      <4>5. high + low \in 0 .. square - 1
        BY ONLY <4>4
      <4>. QED BY <4>5 DEF square, high, low
    <3>5. whole % ValueModulus = First.value /\ whole \div ValueModulus = Second.value
      BY <1>v, <3>3, Halves
    <3>. HIDE DEF whole
    <3>6. reg \in CtrlReg
      BY <3>1, <3>3, <3>4 DEF CtrlReg
    <3>7. WordsOf(reg) = <<First, Second>>
      BY <3>2, <3>3, <3>5 DEF WordsOf
    <3>. HIDE DEF reg
    <3>8. WordsOfAll(regs') = SubSeq(data, 1, offset) \o <<First, Second>>
      BY <3>1, <3>6, <3>7, WordsOfMore
    <3>9. SubSeq(data, 1, offset + 2) = SubSeq(data, 1, offset) \o <<First, Second>>
      BY <3>2 DEF First, Second
    <3>10. regs' \in Seq(CtrlReg) /\ offset' \in Nat /\ offset' <= Len(data) - 1
      BY <3>1, <3>2, <3>6
    <3>11. WordsOfAll(regs') = SubSeq(data', 1, offset')
      BY <3>1, <3>8, <3>9
    <3>. QED BY <3>1, <3>10, <3>11
  <2>. QED BY <2>1, <2>2
<1>4. CASE ReadReg16
  <2>1. CASE First.address \notin Register16
    BY <1>4, <2>1 DEF ReadReg16, MoreRegs
  <2>2. CASE First.address \in Register16
    <3>. DEFINE reg == [width |-> 16, read |-> First.read, address |-> First.address,
                        value |-> First.value]
    <3>1. /\ regs' = Append(regs, reg) /\ offset' = offset + 1 /\ MoreRegs
          /\ result = "reading" /\ offset < Len(data) - 1
          /\ UNCHANGED <<sent, datagram, data, result>>
      BY <1>4, <2>2 DEF ReadReg16, MoreRegs
    <3>2. /\ First = [read |-> First.read, address |-> First.address, value |-> First.value]
          /\ First.read \in BOOLEAN /\ First.value \in 0 .. ValueModulus - 1
      BY <1>w, <3>1 DEF Word
    <3>3. reg \in CtrlReg
      BY <2>2, <3>2 DEF CtrlReg
    <3>4. WordsOf(reg) = <<First>>
      BY <3>2 DEF WordsOf
    <3>. HIDE DEF reg
    <3>5. WordsOfAll(regs') = SubSeq(data, 1, offset) \o <<First>>
      BY <3>1, <3>3, <3>4, WordsOfMore
    <3>6. SubSeq(data, 1, offset + 1) = SubSeq(data, 1, offset) \o <<First>>
      BY <3>1 DEF First
    <3>7. regs' \in Seq(CtrlReg) /\ offset' \in Nat /\ offset' <= Len(data) - 1
      BY <3>1, <3>3
    <3>8. WordsOfAll(regs') = SubSeq(data', 1, offset')
      BY <3>1, <3>5, <3>6
    <3>. QED BY <3>1, <3>7, <3>8
  <2>. QED BY <2>1, <2>2
<1>5. CASE ReadAll
  <2>1. /\ result = "reading" /\ offset >= Len(data) - 1
        /\ result' = IF data = <<>> THEN "panic" ELSE "ok"
        /\ UNCHANGED <<sent, datagram, data, offset, regs>>
    BY <1>5 DEF ReadAll
  <2>2. data # <<>> => offset = Len(data) - 1
    BY <2>1
  <2>. QED BY <2>1, <2>2
<1>6. CASE Returned
  BY <1>6 DEF Returned, vars
<1>7. CASE UNCHANGED vars
  BY <1>7 DEF vars
<1>. QED BY <1>1, <1>2, <1>3, <1>4, <1>5, <1>6, <1>7 DEF Next

LEMMA OwnStep == IInv /\ [Next]_vars => OwnInv'
<1>. SUFFICES ASSUME IInv, [Next]_vars, sent # <<>>, Fits(sent) PROVE OwnInv'
  <2>1. [Next]_vars => sent' = sent /\ overflow_checks' = overflow_checks
    BY DEF Next, Slice, ReadFragment, ReadReg32, ReadReg16, ReadAll, Returned, vars
  <2>. QED BY <2>1 DEF OwnInv, Fits
<1>. DEFINE n == Len(regs)
            reg == sent[n + 1]
<1>0. /\ sent \in Lists /\ sent \in Seq(CtrlReg) /\ datagram.type # "Stream"
      /\ Len(regs) <= Len(sent) /\ regs = SubSeq(sent, 1, Len(regs)) /\ regs \in Seq(CtrlReg)
      /\ result # "panic"
  <2>1. sent \in Lists /\ sent \in Seq(CtrlReg) /\ datagram.type # "Stream"
    BY InputsAssumption, ToDatagramType DEF IInv, SentInv
  <2>. QED BY <2>1 DEF IInv, ReadInv, OwnInv
<1>own. OwnInv
  BY DEF IInv
<1>sent. sent' = sent /\ datagram' = datagram
  BY DEF Next, Slice, ReadFragment, ReadReg32, ReadReg16, ReadAll, Returned, vars
\* Where the words of the next register are, while there is one.
<1>1. ASSUME result = "reading", offset < Len(data) - 1
      PROVE  /\ n \in 0 .. Len(sent) - 1 /\ reg \in CtrlReg
             /\ Len(WordsOf(reg)) \in Nat \ {0} /\ offset \in Nat
             /\ offset + Len(WordsOf(reg)) <= Len(data) - 1
             /\ \A j \in 1 .. Len(WordsOf(reg)) : data[offset + j] = WordsOf(reg)[j]
  <2>1. data = WordsOfAll(sent) \o <<CRC>>
    BY <1>1 DEF IInv, OwnInv
  <2>2. WordsOfAll(sent) \in Seq(Word) /\ CRC \in Word
    BY <1>0, WordsLists, CRCType
  <2>3. Len(data) = Len(WordsOfAll(sent)) + 1
    BY <2>1, <2>2
  <2>4. /\ WordsOfAll(regs) = SubSeq(data, 1, offset) /\ offset \in Nat
        /\ data \in Seq(Word) /\ offset <= Len(data)
    BY <1>1 DEF IInv, ReadInv
  <2>5. Len(WordsOfAll(regs)) = offset
    BY <2>4
  <2>6. regs # sent
    BY <1>1, <2>3, <2>4, <2>5
  <2>7. n # Len(sent)
    <3>1. SUFFICES ASSUME n = Len(sent) PROVE regs = sent
      BY <2>6
    <3>. QED BY <1>0, <3>1
  <2>8. n \in 0 .. Len(sent) - 1
    BY <1>0, <2>7
  <2>9. offset = Len(WordsOfAll(SubSeq(sent, 1, n)))
    BY <1>0, <2>5
  <2>10. reg \in CtrlReg
    BY <1>0, <2>8
  <2>. HIDE DEF n
  <2>11. /\ Len(WordsOf(sent[n + 1])) \in Nat \ {0}
         /\ offset + Len(WordsOf(sent[n + 1])) <= Len(data) - 1
         /\ \A j \in 1 .. Len(WordsOf(sent[n + 1])) :
                data[offset + j] = WordsOf(sent[n + 1])[j]
    <3>1. sent \in Seq(CtrlReg) /\ n \in 0 .. Len(sent) - 1 /\ CRC \in Word
      BY <1>0, <2>2, <2>8
    <3>2. PICK k \in 0 .. Len(sent) - 1 : k = n
      BY <3>1
    <3>3. offset = Len(WordsOfAll(SubSeq(sent, 1, k)))
      BY <2>9, <3>2
    <3>4. /\ Len(WordsOf(sent[k + 1])) \in Nat \ {0}
          /\ offset + Len(WordsOf(sent[k + 1])) <= Len(data) - 1
          /\ \A j \in 1 .. Len(WordsOf(sent[k + 1])) :
                 data[offset + j] = WordsOf(sent[k + 1])[j]
      <4>1. Len(WordsOf(sent[k + 1])) \in Nat \ {0}
        <5>1. sent[k + 1] \in CtrlReg
          BY <1>0
        <5>2. Len(WordsOf(sent[k + 1])) = IF sent[k + 1].width = 16 THEN 1 ELSE 2
          BY <5>1, WordsTypes
        <5>. QED BY <5>2
      <4>2. ASSUME NEW j \in 1 .. Len(WordsOf(sent[k + 1]))
            PROVE  /\ offset + Len(WordsOf(sent[k + 1])) <= Len(data) - 1
                   /\ data[offset + j] = WordsOf(sent[k + 1])[j]
        BY ONLY <2>1, <3>1, <3>2, <3>3, <4>2, NextWords
      <4>3. 1 \in 1 .. Len(WordsOf(sent[k + 1]))
        BY <4>1
      <4>. QED BY <4>1, <4>2, <4>3
    <3>. QED BY <3>2, <3>4
  <2>. QED BY <2>4, <2>8, <2>10, <2>11
\* Reading the next register leaves what was read a prefix of what was written.
<1>2. ASSUME n \in 0 .. Len(sent) - 1, regs' = Append(regs, reg), data' = data,
             result' = result, result = "reading"
      PROVE  OwnInv'
  <2>1. Len(regs') = n + 1
    BY <1>0, <1>2
  <2>2. SubSeq(sent, 1, n + 1) = Append(SubSeq(sent, 1, n), reg)
    BY <1>0, <1>2
  <2>3. regs' = SubSeq(sent, 1, Len(regs')) /\ Len(regs') <= Len(sent)
    BY <1>0, <1>2, <2>1, <2>2
  <2>. QED BY <1>0, <1>2, <1>own, <1>sent, <2>3 DEF OwnInv
<1>3. CASE Slice
  <2>. DEFINE words == datagram.words
              size == datagram.len - HeaderWords
  <2>1. PICK type \in {"CtrlReq", "CtrlAck"} : datagram = ToDatagram(type, sent)
    BY DEF IInv, SentInv
  <2>2. /\ datagram.type \in {"CtrlReq", "CtrlAck"} /\ WordCount(sent) \in Nat
        /\ datagram.len = WordCount(sent) + 4 /\ words = WordsOfAll(sent) \o <<CRC>>
    BY <1>0, <2>1, FitsWords, ToDatagramType
  <2>3. WordsOfAll(sent) \in Seq(Word) /\ Len(WordsOfAll(sent)) = WordCount(sent) /\ CRC \in Word
    BY <1>0, WordsLists, WordsLength, CRCType
  <2>4. words \in Seq(Word) /\ Len(words) = WordCount(sent) + 1
    BY <2>2, <2>3
  <2>5. size = Len(words)
    BY <2>2, <2>4 DEF HeaderWords
  <2>6. size \in 0 .. Len(words) /\ datagram.type # "unknown"
    BY <2>2, <2>4, <2>5
  <2>7. data' = SubSeq(words, 1, size) /\ result' = "reading" /\ regs' = regs
    BY <1>3, <2>6 DEF Slice
  <2>8. data' = WordsOfAll(sent) \o <<CRC>>
    <3>1. SubSeq(words, 1, Len(words)) = words
      BY <2>4
    <3>. QED BY <2>2, <2>5, <2>7, <3>1
  <2>. QED BY <1>own, <1>sent, <2>7, <2>8 DEF OwnInv
<1>4. CASE ReadFragment
  BY <1>0, <1>4 DEF ReadFragment
<1>5. CASE ReadReg32
  <2>1. /\ result = "reading" /\ offset < Len(data) - 1 /\ First.address \in Register32
    BY <1>5 DEF ReadReg32, MoreRegs
  <2>2. /\ n \in 0 .. Len(sent) - 1 /\ reg \in CtrlReg /\ offset \in Nat
        /\ offset + Len(WordsOf(reg)) <= Len(data) - 1
        /\ \A j \in 1 .. Len(WordsOf(reg)) : data[offset + j] = WordsOf(reg)[j]
    BY <1>1, <2>1
  <2>. HIDE DEF reg, n
  <2>3. reg.width = 32
    <3>1. SUFFICES ASSUME reg.width = 16 PROVE FALSE
      BY <2>2, WordsTypes
    <3>2. First = [read |-> reg.read, address |-> reg.address, value |-> reg.value]
      <4>1. Len(WordsOf(reg)) = 1
        BY <2>2, <3>1, WordsTypes
      <4>2. data[offset + 1] = WordsOf(reg)[1]
        BY <2>2, <4>1
      <4>. QED BY <2>2, <3>1, <4>2, WordsTypes DEF First
    <3>3. reg.address \in Register16
      BY <2>2, <3>1 DEF CtrlReg
    <3>. QED BY <2>1, <3>2, <3>3, Addresses
  <2>4. /\ Len(WordsOf(reg)) = 2
        /\ First = [read |-> reg.read, address |-> reg.address,
                    value |-> reg.value % ValueModulus]
        /\ Second = [read |-> reg.read, address |-> reg.address + 1,
                     value |-> reg.value \div ValueModulus]
    <3>1. Len(WordsOf(reg)) = 2
      <4>1. Len(WordsOf(reg)) = IF reg.width = 16 THEN 1 ELSE 2
        BY <2>2, WordsTypes
      <4>. QED BY <2>3, <4>1
    <3>2. data[offset + 1] = WordsOf(reg)[1] /\ data[offset + 2] = WordsOf(reg)[2]
      BY <2>2, <3>1
    <3>. QED BY <2>2, <2>3, <3>1, <3>2, WordsTypes DEF First, Second
  <2>5. SecondFits
    <3>1. offset + 2 <= Len(data) - 1
      BY <2>2, <2>4
    <3>. QED BY <2>4, <3>1 DEF SecondFits
  <2>6. /\ reg.value \in Nat /\ reg.value < ValueModulus * ValueModulus
        /\ ValueModulus \in Nat \ {0}
        /\ reg = [width |-> 32, read |-> reg.read, address |-> reg.address,
                  value |-> reg.value]
    <3>1. ValueModulus \in Nat \ {0}
      BY InputsAssumption
    <3>2. /\ reg.value \in 0 .. ValueModulus * ValueModulus - 1
          /\ reg = [width |-> 32, read |-> reg.read, address |-> reg.address,
                    value |-> reg.value]
      BY <2>2, <2>3 DEF CtrlReg
    <3>3. ValueModulus * ValueModulus \in Nat
      BY <3>1
    <3>. QED BY <3>1, <3>2, <3>3
  <2>7. Second.value * ValueModulus + First.value = reg.value
    <3>1. (reg.value \div ValueModulus) * ValueModulus + (reg.value % ValueModulus) = reg.value
      BY <2>6, WholeOfHalves
    <3>. QED BY <2>4, <3>1
  <2>8. regs' = Append(regs, reg)
    <3>1. regs' = Append(regs, [width |-> 32, read |-> First.read, address |-> First.address,
                                value |-> Second.value * ValueModulus + First.value])
      BY <1>5, <2>5 DEF ReadReg32
    <3>2. First.read = reg.read /\ First.address = reg.address
      BY <2>4
    <3>. QED BY <2>6, <2>7, <3>1, <3>2
  <2>9. data' = data /\ result' = result /\ result = "reading"
    BY <1>5, <2>5 DEF ReadReg32, MoreRegs
  <2>. QED BY <1>2, <2>2, <2>8, <2>9 DEF reg, n
<1>6. CASE ReadReg16
  <2>1. /\ result = "reading" /\ offset < Len(data) - 1 /\ First.address \notin Register32
    BY <1>6 DEF ReadReg16, MoreRegs
  <2>2. /\ n \in 0 .. Len(sent) - 1 /\ reg \in CtrlReg /\ offset \in Nat
        /\ Len(WordsOf(reg)) \in Nat \ {0}
        /\ \A j \in 1 .. Len(WordsOf(reg)) : data[offset + j] = WordsOf(reg)[j]
    BY <1>1, <2>1
  <2>. HIDE DEF reg, n
  <2>3. First = WordsOf(reg)[1]
    BY <2>2 DEF First
  <2>4. reg.width = 16
    <3>1. SUFFICES ASSUME reg.width = 32 PROVE FALSE
      BY <2>2, WordsTypes
    <3>2. First.address = reg.address
      <4>1. First = [read |-> reg.read, address |-> reg.address,
                     value |-> reg.value % ValueModulus]
        BY <2>2, <2>3, <3>1, WordsTypes
      <4>. QED BY <4>1
    <3>3. reg.address \in Register32
      BY <2>2, <3>1 DEF CtrlReg
    <3>. QED BY <2>1, <3>2, <3>3
  <2>5. First = [read |-> reg.read, address |-> reg.address, value |-> reg.value]
    BY <2>2, <2>3, <2>4, WordsTypes
  <2>6. /\ reg.address \in Register16
        /\ reg = [width |-> 16, read |-> reg.read, address |-> reg.address,
                  value |-> reg.value]
    BY <2>2, <2>4 DEF CtrlReg
  <2>7. First.address \in Register16
    BY <2>5, <2>6
  <2>8. /\ regs' = Append(regs, [width |-> 16, read |-> First.read,
                                 address |-> First.address, value |-> First.value])
        /\ data' = data /\ result' = result /\ result = "reading"
    BY <1>6, <2>7 DEF ReadReg16, MoreRegs
  <2>9. regs' = Append(regs, reg)
    BY <2>5, <2>6, <2>8
  <2>. QED BY <1>2, <2>2, <2>8, <2>9 DEF reg, n
<1>7. CASE ReadAll
  <2>1. data = WordsOfAll(sent) \o <<CRC>> /\ WordsOfAll(sent) \in Seq(Word) /\ CRC \in Word
    BY <1>0, <1>7, <1>own, WordsLists, CRCType DEF OwnInv, ReadAll
  <2>2. data # <<>>
    BY <2>1
  <2>3. result = "reading" /\ result' = "ok" /\ UNCHANGED <<sent, datagram, data, offset, regs>>
    BY <1>7, <2>2 DEF ReadAll
  <2>. QED BY <1>own, <2>3 DEF OwnInv
<1>8. CASE Returned \/ UNCHANGED vars
  <2>1. UNCHANGED vars
    BY <1>8 DEF Returned
  <2>. QED BY <1>own, <2>1 DEF OwnInv, vars
<1>. QED BY <1>3, <1>4, <1>5, <1>6, <1>7, <1>8 DEF Next

LEMMA SentStep == IInv /\ [Next]_vars => SentInv'
<1>1. [Next]_vars => sent' = sent /\ datagram' = datagram
  BY DEF Next, Slice, ReadFragment, ReadReg32, ReadReg16, ReadAll, Returned, vars
<1>. QED BY <1>1 DEF IInv, SentInv

\* A slice of what does not fit is shorter than all of it.
LEMMA CutStep == IInv /\ [Next]_vars => CutInv'
<1>. SUFFICES ASSUME IInv, [Next]_vars, sent # <<>>, ~ Fits(sent)
              PROVE  /\ BuildPanics(sent) => result' = "panic"
                     /\ result' \in {"reading", "ok"} => Len(data') <= WordCount(sent)
  <2>1. [Next]_vars => sent' = sent /\ overflow_checks' = overflow_checks
    BY DEF Next, Slice, ReadFragment, ReadReg32, ReadReg16, ReadAll, Returned, vars
  <2>. QED BY <2>1 DEF CutInv, Fits, BuildPanics
<1>1. result = "panic" => result' = "panic"
  BY DEF Next, Slice, ReadFragment, ReadReg32, ReadReg16, ReadAll, Returned, vars, MoreRegs
<1>2. ASSUME Slice, result' = "reading"
      PROVE  Len(data') <= WordCount(sent)
  <2>. DEFINE words == datagram.words
              size == datagram.len - HeaderWords
  <2>1. PICK type \in {"CtrlReq", "CtrlAck"} : datagram = ToDatagram(type, sent)
    BY DEF IInv, SentInv
  <2>2. sent \in Seq(CtrlReg)
    BY InputsAssumption DEF IInv, SentInv
  <2>3. /\ WordCount(sent) \in Nat /\ datagram.len \in 0 .. LenModulus - 1
        /\ datagram \in Datagram
    BY <2>1, <2>2, ToDatagramType
  <2>4. ~ BuildPanics(sent)
    BY <1>2 DEF IInv, CutInv, Slice
  <2>5. WordCount(sent) + 4 >= LenModulus /\ LenModulus \in Nat
    BY <2>2, <2>3, <2>4, FitsWords, InputsAssumption
  <2>6. size <= WordCount(sent)
    BY <2>3, <2>5 DEF HeaderWords
  <2>7. size \in 0 .. Len(words) /\ data' = SubSeq(words, 1, size)
    BY <1>2 DEF Slice
  <2>8. words \in Seq(Word)
    BY <2>3 DEF Datagram
  <2>. HIDE DEF words, size
  <2>9. Len(SubSeq(words, 1, size)) = size
    BY <2>7, <2>8
  <2>. QED BY <2>6, <2>7, <2>9
<1>3. ASSUME ~ Slice, result' \in {"reading", "ok"}
      PROVE  Len(data') <= WordCount(sent)
  <2>1. data' = data /\ result \in {"reading", "ok"}
    BY <1>3 DEF Next, ReadFragment, ReadReg32, ReadReg16, ReadAll, Returned, vars, MoreRegs
  <2>. QED BY <2>1 DEF IInv, CutInv
<1>4. Slice => result' # "ok"
  BY DEF Slice
<1>. QED BY <1>1, <1>2, <1>3, <1>4 DEF IInv, CutInv

-----------------------------------------------------------------------------
(* Theorems *)

LEMMA IInvHolds == Spec => []IInv
<1>1. IInv /\ [Next]_vars => IInv'
  BY ReadStep, SentStep, OwnStep, CutStep DEF IInv
<1>. QED BY <1>1, InitReads, PTL DEF Spec

\* Whatever the datagram, the registers extract_regs returns are those whose words
\* are the ones before the last: none was skipped, taken twice or put together
\* with a half of another.
THEOREM WhatIsReadWasWritten == Spec => []ReadIsWritten
<1>1. IInv => ReadIsWritten
  BY DEF IInv, ReadInv, ReadIsWritten
<1>. QED BY <1>1, IInvHolds, PTL

\* A list of registers, of any length, is read back as it was written without a
\* panic if it fits into the 16 bits of the header's length (and, in a debug build,
\* of the buffer's capacity); one that does not is never read back as a whole.
THEOREM WrittenIsReadBack == Spec => []OwnReadBack
<1>1. ASSUME IInv, sent # <<>>, Fits(sent), result \in {"ok", "panic"}
      PROVE  result = "ok" /\ regs = sent
  <2>1. /\ sent \in Seq(CtrlReg) /\ regs \in Seq(CtrlReg) /\ datagram.type # "Stream"
        /\ Len(regs) <= Len(sent) /\ regs = SubSeq(sent, 1, Len(regs)) /\ result = "ok"
        /\ data = WordsOfAll(sent) \o <<CRC>>
    <3>1. sent \in Seq(CtrlReg) /\ datagram.type # "Stream"
      BY <1>1, InputsAssumption, ToDatagramType DEF IInv, SentInv
    <3>. QED BY <1>1, <3>1 DEF IInv, ReadInv, OwnInv
  <2>2. WordsOfAll(sent) \in Seq(Word) /\ CRC \in Word
    BY <2>1, WordsLists, CRCType
  <2>3. Len(data) - 1 = Len(WordsOfAll(sent)) /\ Len(data) \in Nat \ {0}
    BY <2>1, <2>2
  <2>4. WordsOfAll(regs) = SubSeq(data, 1, Len(data) - 1)
    BY <1>1, <2>1 DEF IInv, ReadInv
  <2>5. Len(WordsOfAll(regs)) = Len(WordsOfAll(sent))
    BY <2>1, <2>2, <2>3, <2>4
  <2>6. Len(regs) = Len(sent)
    <3>. DEFINE n == Len(regs)
                at == Len(WordsOfAll(SubSeq(sent, 1, n)))
    <3>1. SUFFICES ASSUME n # Len(sent) PROVE FALSE
      OBVIOUS
    <3>2. n \in 0 .. Len(sent) - 1
      BY <2>1, <3>1
    <3>3. at = Len(data) - 1
      BY <2>1, <2>3, <2>5
    <3>. HIDE DEF n, at
    <3>4. at = Len(WordsOfAll(SubSeq(sent, 1, n)))
      BY DEF at
    <3>5. Len(WordsOf(sent[n + 1])) \in Nat \ {0}
      <4>1. sent[n + 1] \in CtrlReg
        BY <2>1, <3>2
      <4>2. Len(WordsOf(sent[n + 1])) = IF sent[n + 1].width = 16 THEN 1 ELSE 2
        BY <4>1, WordsTypes
      <4>. QED BY <4>2
    <3>6. at + Len(WordsOf(sent[n + 1])) <= Len(data) - 1
      <4>1. 1 \in 1 .. Len(WordsOf(sent[n + 1]))
        BY <3>5
      <4>. QED BY <2>1, <2>2, <3>2, <3>4, <4>1, NextWords
    <3>. QED BY <2>3, <3>3, <3>5, <3>6
  <2>. QED BY <2>1, <2>6
<1>2. ASSUME IInv, sent # <<>>, ~ Fits(sent), result = "ok"
      PROVE  regs # sent
  <2>1. /\ sent \in Seq(CtrlReg) /\ datagram.type # "Stream"
        /\ Len(data) <= WordCount(sent)
    BY <1>2, InputsAssumption, ToDatagramType DEF IInv, SentInv, CutInv
  <2>2. WordsOfAll(sent) \in Seq(Word) /\ Len(WordsOfAll(sent)) = WordCount(sent)
    BY <2>1, WordsLists, WordsLength
  <2>3. /\ data \in Seq(Word) /\ offset \in Nat /\ offset = Len(data) - 1
        /\ WordsOfAll(regs) = SubSeq(data, 1, offset)
    BY <1>2, <2>1 DEF IInv, ReadInv
  <2>4. Len(WordsOfAll(regs)) = Len(data) - 1
    BY <2>3
  <2>5. Len(WordsOfAll(regs)) < Len(WordsOfAll(sent))
    BY <2>1, <2>2, <2>3, <2>4
  <2>. QED BY <2>2, <2>5
<1>3. IInv => OwnReadBack
  BY <1>1, <1>2 DEF OwnReadBack
<1>. QED BY <1>3, IInvHolds, PTL
=============================================================================

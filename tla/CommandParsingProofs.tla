------------------------ MODULE CommandParsingProofs ------------------------
(***************************************************************************)
(* That ParseCommand finds the arguments that are meant, and that a        *)
(* request is accepted exactly when it is usable, for commands of any      *)
(* length.                                                                 *)
(***************************************************************************)
EXTENDS CommandParsing, FiniteSetTheorems, SequenceTheorems, WellFoundedInduction, TLAPS

-----------------------------------------------------------------------------
(* Least and largest numbers, by which the proofs below do induction.      *)

Less == OpToRel(<, Nat)

\* Less is the order of the natural numbers.
LEMMA LessIs == \A i, j \in Nat : <<i, j>> \in Less <=> i < j
  BY DEF Less, OpToRel

\* A set of natural numbers that is not empty has a least one.
LEMMA Least ==
    ASSUME NEW S, S \subseteq Nat, S # {}
    PROVE  \E m \in S : \A k \in S : m <= k
<1>1. IsWellFoundedOn(Less, Nat)
  BY NatLessThanWellFounded DEF Less
<1>2. PICK m \in S : \A k \in S : <<k, m>> \notin Less
  BY <1>1, WFMin, Zenon
<1>3. ASSUME NEW k \in S PROVE m <= k
  <2>1. m \in Nat /\ k \in Nat /\ ~(k < m)
    BY <1>2, LessIs
  <2> QED BY <2>1
<1> QED BY <1>3

\* A bounded one has a largest.
LEMMA Largest ==
    ASSUME NEW n \in Nat, NEW S, S \subseteq 0..n, S # {}
    PROVE  \E m \in S : \A k \in S : k <= m
<1> DEFINE T == {n - i : i \in S}
<1>1. T \subseteq Nat /\ T # {}
  OBVIOUS
<1>2. PICK t \in T : \A u \in T : t <= u
  <2> HIDE DEF T
  <2> QED BY <1>1, Least
<1>3. PICK m \in S : t = n - m
  OBVIOUS
<1>4. ASSUME NEW k \in S PROVE k <= m
  <2>1. n - k \in T
    OBVIOUS
  <2>2. t <= n - k
    <3> HIDE DEF T
    <3> QED BY <1>2, <2>1
  <2>3. m \in Int /\ k \in Int
    OBVIOUS
  <2> QED BY <1>3, <2>2, <2>3
<1> QED BY <1>4

\* What holds of 0 and of the successor of every number it holds of, holds of all.
LEMMA Induction ==
    ASSUME NEW S, 0 \in S, \A n \in Nat : n \in S => n + 1 \in S
    PROVE  Nat \subseteq S
<1> DEFINE B == {n \in Nat : n \notin S}
<1> SUFFICES ASSUME B # {} PROVE FALSE
  OBVIOUS
<1>1. PICK m \in B : \A k \in B : m <= k
  <2>1. B \subseteq Nat
    OBVIOUS
  <2> HIDE DEF B
  <2> QED BY <2>1, Least
<1>2. m # 0 /\ m \in Nat /\ m \notin S
  OBVIOUS
<1>3. m - 1 \in S
  BY <1>1, <1>2
<1> QED BY <1>2, <1>3

-----------------------------------------------------------------------------
(* Marks.                                                                  *)

\* What can follow a mark, told by its rune.
LEMMA AfterIs ==
    ASSUME NEW e \in Mark, NEW f \in After(e)
    PROVE  /\ f \in Mark
           /\ e.role = "escape" => f.role = "text" /\ f.mode = e.mode
           /\ e.role # "escape" =>
                /\ f.rune = "backslash" <=> f.role = "escape"
                /\ f.role = "escape" => f.mode = e.mode
                /\ e.mode = "bare" =>
                     /\ f.rune \in Blank => f.role = "gap" /\ f.mode = "bare"
                     /\ f.rune \in Quote => f.role = "quote" /\ f.mode = f.rune
                     /\ f.rune \notin Blank \cup Quote \cup {"backslash"} =>
                           f.role = "text" /\ f.mode = "bare"
                /\ e.mode # "bare" =>
                     /\ f.rune = e.mode => f.role = "quote" /\ f.mode = "bare"
                     /\ f.rune # e.mode /\ f.rune # "backslash" => f.role = "text" /\ f.mode = e.mode
<1>1. CASE e.role = "escape"
  BY <1>1 DEF After, Mark, M, Rune
<1>2. CASE e.role # "escape" /\ f = M("backslash", "escape", e.mode)
  BY <1>2 DEF Mark, M, Rune, Blank, Quote
<1>3. CASE e.role # "escape" /\ e.mode = "bare" /\ f \in Bare
  BY <1>3 DEF Mark, M, Bare, Rune, White, Blank, Quote
<1>4. CASE e.role # "escape" /\ e.mode # "bare" /\ f \in Inside(e.mode)
  BY <1>4 DEF Mark, M, Inside, Rune, White, Blank, Quote
<1> QED BY <1>1, <1>2, <1>3, <1>4 DEF After

Before(i) == IF i = 0 THEN Begin ELSE command[i]

\* Every mark of the command may stand where it stands.
Written ==
    /\ command \in Seq(Mark)
    /\ \A i \in 1..Len(command) : command[i] \in After(Before(i - 1))

\* Marks exist at every place of the command and before it.
LEMMA BeforeMark ==
    ASSUME Written, NEW i \in 0..Len(command) PROVE Before(i) \in Mark
<1>1. CASE i = 0
  BY <1>1 DEF Before, Begin, M, Mark, Rune, White, Blank
<1>2. CASE i \in 1..Len(command)
  BY <1>2 DEF Written, Before
<1> QED BY <1>1, <1>2 DEF Written

\* A white rune keeps the quotes, and begins no escape.
LEMMA WhiteKeeps ==
    ASSUME Written, NEW i \in 1..Len(command), command[i].rune \in White
    PROVE  command[i].mode = Before(i - 1).mode /\ command[i].role \in {"text", "gap"}
<1>1. Before(i - 1) \in Mark /\ command[i] \in After(Before(i - 1))
  BY BeforeMark DEF Written
<1> QED BY <1>1, AfterIs DEF White, Blank, Quote, Mark

-----------------------------------------------------------------------------
(* Words.                                                                  *)

HeadsTo(p) == {h \in Heads : h <= p}

\* The texts of the word that is being read when p runes were read.
Open(p) == {j \in Texts : j <= p /\ ~Apart(j, p)}

\* Word and Place count finite sets.
LEMMA Counts ==
    ASSUME Written
    PROVE  /\ Len(command) \in Nat /\ Texts \subseteq 1..Len(command) /\ Heads \subseteq Texts
           /\ \A S \in SUBSET Texts : IsFiniteSet(S) /\ Cardinality(S) \in Nat
           /\ \A i : /\ Word(i) = Cardinality(HeadsTo(i)) /\ Word(i) \in Nat
                     /\ Place(i) = Cardinality(Open(i)) /\ Place(i) \in Nat
<1>1. Len(command) \in Nat /\ Texts \subseteq 1..Len(command) /\ Heads \subseteq Texts
  BY DEF Written, Texts, Heads
<1>2. IsFiniteSet(1..Len(command))
  BY <1>1, FS_Interval
<1>3. \A S \in SUBSET Texts : IsFiniteSet(S) /\ Cardinality(S) \in Nat
  BY <1>1, <1>2, FS_Subset, FS_CardinalityType
<1>4. \A i : HeadsTo(i) \subseteq Texts /\ Open(i) \subseteq Texts
  BY <1>1 DEF HeadsTo, Open
<1>5. \A i : Word(i) = Cardinality(HeadsTo(i)) /\ Place(i) = Cardinality(Open(i))
  BY DEF Word, Place, HeadsTo, Open
<1> QED BY <1>1, <1>3, <1>4, <1>5

\* A gap between two places is on one side or the other of a third.
LEMMA ApartIs ==
    ASSUME NEW i \in Nat, NEW j \in Nat, NEW k \in Nat, i <= j, j <= k
    PROVE  Apart(i, k) <=> Apart(i, j) \/ Apart(j, k)
  BY DEF Apart

\* A text is no gap.
LEMMA TextIsNoGap == ASSUME Written, NEW i \in Texts PROVE ~Apart(i, i)
  BY Counts DEF Apart, Texts

\* Every text belongs to a word.
LEMMA HasHead ==
    ASSUME Written, NEW i \in Texts
    PROVE  \E h \in Heads : h <= i /\ ~Apart(h, i)
<1>1. i \in Open(i) /\ Open(i) \subseteq Nat /\ i \in Nat
  BY TextIsNoGap, Counts DEF Open
<1>2. PICK h \in Open(i) : \A k \in Open(i) : h <= k
  BY <1>1, Least
<1>3. h \in Texts /\ h <= i /\ ~Apart(h, i) /\ h \in Nat
  BY <1>1, <1>2 DEF Open
<1>4. ASSUME NEW j \in Texts, j < h PROVE Apart(j, h)
  <2>1. j \in Nat /\ j <= i /\ j \notin Open(i)
    BY <1>1, <1>2, <1>3, <1>4, Counts
  <2> QED BY <1>1, <1>3, <1>4, <2>1, ApartIs DEF Open
<1> QED BY <1>3, <1>4 DEF Heads

\* Two texts are of one word exactly when no gap stands between them.
LEMMA SameWord ==
    ASSUME Written, NEW i \in Texts, NEW j \in Texts, i <= j
    PROVE  /\ ~Apart(i, j) => HeadsTo(i) = HeadsTo(j)
           /\ Apart(i, j) => Word(i) < Word(j)
<1>0. i \in Nat /\ j \in Nat /\ Heads \subseteq Nat /\ Heads \subseteq Texts
  BY Counts
<1>1. ASSUME ~Apart(i, j) PROVE HeadsTo(i) = HeadsTo(j)
  <2>1. ASSUME NEW h \in Heads, h <= j, i < h PROVE FALSE
    <3>1. Apart(i, h) /\ h \in Nat
      BY <1>0, <2>1 DEF Heads
    <3>2. Apart(i, j) <=> Apart(i, h) \/ Apart(h, j)
      BY <1>0, <2>1, <3>1, ApartIs
    <3> QED BY <1>1, <3>1, <3>2
  <2>2. \A h \in Heads : h \in Nat /\ (h <= i <=> h <= j)
    BY <1>0, <2>1
  <2> QED BY <2>2 DEF HeadsTo
<1>2. ASSUME Apart(i, j) PROVE Word(i) < Word(j)
  <2>1. PICK h \in Heads : h <= j /\ ~Apart(h, j)
    BY HasHead
  <2>2. i < h
    <3>1. h \in Nat
      BY <1>0
    <3>2. h <= i => (Apart(h, j) <=> Apart(h, i) \/ Apart(i, j))
      BY <1>0, <3>1, ApartIs
    <3> QED BY <1>0, <1>2, <2>1, <3>1, <3>2
  <2>3. HeadsTo(i) \subseteq HeadsTo(j) /\ h \in HeadsTo(j) /\ h \notin HeadsTo(i)
    <3>1. \A k \in Heads : k \in Nat /\ (k <= i => k <= j)
      BY <1>0
    <3>2. HeadsTo(i) \subseteq HeadsTo(j)
      BY <3>1 DEF HeadsTo
    <3>3. h \in Nat /\ ~(h <= i)
      BY <1>0, <2>1, <2>2
    <3> QED BY <2>1, <3>2, <3>3 DEF HeadsTo
  <2>4. HeadsTo(j) \in SUBSET Texts
    BY <1>0 DEF HeadsTo
  <2>5. Cardinality(HeadsTo(i)) < Cardinality(HeadsTo(j))
    BY <2>3, <2>4, Counts, FS_Subset
  <2> QED BY <2>5, Counts
<1> QED BY <1>1, <1>2

\* No word goes on after p.
NoneGoesOn(p) == \A i \in Texts : i > p => Apart(p, i)

\* The texts of the open word are those of its number, if the word ends here.
LEMMA OpenIsWord ==
    ASSUME Written, NEW p \in Nat, NEW x \in Open(p), NoneGoesOn(p)
    PROVE  Open(p) = {i \in Texts : Word(i) = Word(x)}
<1>0. x \in Texts /\ x <= p /\ ~Apart(x, p) /\ x \in Nat /\ Texts \subseteq Nat
  BY Counts DEF Open
<1>1. ASSUME NEW i \in Open(p) PROVE i \in Texts /\ Word(i) = Word(x)
  <2>1. i \in Texts /\ i <= p /\ ~Apart(i, p) /\ i \in Nat
    BY <1>0 DEF Open
  <2>2. CASE i <= x
    <3>1. HeadsTo(i) = HeadsTo(x)
      BY <1>0, <2>1, <2>2, ApartIs, SameWord
    <3> QED BY <2>1, <3>1, Counts
  <2>3. CASE x <= i
    <3>1. HeadsTo(x) = HeadsTo(i)
      BY <1>0, <2>1, <2>3, ApartIs, SameWord
    <3> QED BY <2>1, <3>1, Counts
  <2> QED BY <1>0, <2>1, <2>2, <2>3
<1>2. ASSUME NEW i \in Texts, Word(i) = Word(x) PROVE i \in Open(p)
  <2>0. i \in Nat /\ Word(i) \in Nat /\ Word(x) \in Nat
    BY <1>0, Counts
  <2>1. i <= x => ~Apart(i, x)
    BY <1>0, <1>2, <2>0, SameWord
  <2>2. x <= i => ~Apart(x, i)
    BY <1>0, <1>2, <2>0, SameWord
  <2>3. i <= p
    BY <1>0, <2>0, <2>2, ApartIs DEF NoneGoesOn
  <2>4. ~Apart(i, p)
    BY <1>0, <2>0, <2>1, <2>2, <2>3, ApartIs
  <2> QED BY <2>3, <2>4 DEF Open
<1> QED BY <1>1, <1>2

\* The open word is the last one so far.
LEMMA OpenIsLast ==
    ASSUME Written, NEW p \in Nat, NEW x \in Open(p)
    PROVE  HeadsTo(x) = HeadsTo(p)
<1>0. x \in Texts /\ x <= p /\ ~Apart(x, p) /\ x \in Nat /\ Heads \subseteq Nat
  BY Counts DEF Open
<1>1. ASSUME NEW h \in Heads, x < h, h <= p PROVE FALSE
  <2>1. Apart(x, h) /\ h \in Nat
    BY <1>0, <1>1 DEF Heads
  <2>2. Apart(x, p) <=> Apart(x, h) \/ Apart(h, p)
    BY <1>0, <1>1, <2>1, ApartIs
  <2> QED BY <1>0, <2>1, <2>2
<1>2. \A h \in Heads : h \in Nat /\ (h <= x <=> h <= p)
  BY <1>0, <1>1
<1> QED BY <1>2 DEF HeadsTo

TextsTo(p) == {i \in Texts : i <= p}

\* How one more rune moves the words.
LEMMA OneMore ==
    ASSUME Written, NEW p \in Nat, p + 1 <= Len(command)
    PROVE  /\ p + 1 \notin Texts =>
                TextsTo(p + 1) = TextsTo(p) /\ HeadsTo(p + 1) = HeadsTo(p)
           /\ p + 1 \notin Texts /\ command[p + 1].role # "gap" => Open(p + 1) = Open(p)
           /\ command[p + 1].role = "gap" => Open(p + 1) = {} /\ p + 1 \notin Texts
           /\ p + 1 \in Texts =>
                /\ TextsTo(p + 1) = TextsTo(p) \cup {p + 1} /\ Open(p + 1) = Open(p) \cup {p + 1}
                /\ Open(p) = {} => HeadsTo(p + 1) = HeadsTo(p) \cup {p + 1}
                /\ Open(p) # {} => HeadsTo(p + 1) = HeadsTo(p)
<1>0. /\ Texts \subseteq Nat /\ \A i \in Texts : i \in Nat /\ (i <= p + 1 <=> i <= p \/ i = p + 1)
      /\ Heads \subseteq Texts /\ p + 1 \in Nat
  BY Counts
<1>1. TextsTo(p + 1) = IF p + 1 \in Texts THEN TextsTo(p) \cup {p + 1} ELSE TextsTo(p)
  BY <1>0 DEF TextsTo
<1>2. ASSUME p + 1 \notin Texts PROVE HeadsTo(p + 1) = HeadsTo(p)
  BY <1>0, <1>2 DEF HeadsTo
<1>3. Apart(p + 1, p + 1) <=> command[p + 1].role = "gap"
  BY <1>0 DEF Apart
<1>4. \A j \in Texts : j <= p => (Apart(j, p + 1) <=> Apart(j, p) \/ command[p + 1].role = "gap")
  <2> SUFFICES ASSUME NEW j \in Texts, j <= p
               PROVE  Apart(j, p + 1) <=> Apart(j, p) \/ command[p + 1].role = "gap"
    OBVIOUS
  <2>1. j \in Nat /\ j..(p + 1) = (j..p) \cup {p + 1}
    BY <1>0
  <2> QED BY <2>1 DEF Apart
<1>5. ASSUME command[p + 1].role # "gap"
      PROVE  Open(p + 1) = IF p + 1 \in Texts THEN Open(p) \cup {p + 1} ELSE Open(p)
  BY <1>0, <1>3, <1>4, <1>5 DEF Open
<1>6. ASSUME command[p + 1].role = "gap" PROVE Open(p + 1) = {} /\ p + 1 \notin Texts
  <2>1. p + 1 \notin Texts
    BY <1>6 DEF Texts
  <2> QED BY <1>0, <1>4, <1>6, <2>1 DEF Open
<1>7. ASSUME p + 1 \in Texts
      PROVE  /\ Open(p) = {} => HeadsTo(p + 1) = HeadsTo(p) \cup {p + 1}
             /\ Open(p) # {} => HeadsTo(p + 1) = HeadsTo(p)
             /\ command[p + 1].role # "gap"
  <2>0. command[p + 1].role # "gap"
    BY <1>7 DEF Texts
  <2>1. p + 1 \in Heads <=> Open(p) = {}
    <3>1. \A j \in Texts : j \in Nat /\ (j < p + 1 <=> j <= p)
      BY <1>0
    <3> QED BY <1>4, <1>7, <2>0, <3>1 DEF Heads, Open
  <2>2. \A h \in Heads : h <= p + 1 <=> h <= p \/ h = p + 1
    BY <1>0
  <2>3. ~(p + 1 <= p)
    BY <1>0
  <2> QED BY <2>0, <2>1, <2>2, <2>3 DEF HeadsTo
<1> QED BY <1>1, <1>2, <1>5, <1>6, <1>7

\* The length of a sequence is a natural number.
LEMMA Lens == ASSUME NEW S, NEW s \in Seq(S) PROVE Len(s) \in Nat
  BY LenProperties

\* The successor of a number, and the places up to it.
LEMMA OneLonger ==
    \A n \in Nat : /\ n + 1 \in Nat \ {0} /\ n + 1 \in 1..(n + 1)
                  /\ \A k \in 1..n : k \in 1..(n + 1)
                  /\ \A m \in 1..(n + 1) : m = n + 1 \/ m \in 1..n
  OBVIOUS

\* An element that is added is the last.
LEMMA Added ==
    ASSUME NEW S, NEW s \in Seq(S), NEW e \in S
    PROVE  \E k \in Nat \ {0} :
             /\ k = Len(s) + 1 /\ Len(Append(s, e)) = k /\ Append(s, e)[k] = e
             /\ \A m \in 1..Len(s) : m \in 1..k /\ Append(s, e)[m] = s[m]
             /\ k \in 1..k /\ \A m \in 1..k : m = k \/ m \in 1..Len(s)
<1>1. Len(s) \in Nat
  BY Lens
<1>2. /\ Len(Append(s, e)) = Len(s) + 1 /\ Append(s, e)[Len(s) + 1] = e
      /\ \A m \in 1..Len(s) : Append(s, e)[m] = s[m]
  BY AppendProperties
<1>3. PICK n \in Nat : n = Len(s)
  BY <1>1, Zenon
<1>4. PICK k \in Nat \ {0} : k = n + 1
  BY OneLonger
<1>5. k \in 1..k /\ (\A m \in 1..n : m \in 1..k) /\ \A m \in 1..k : m = k \/ m \in 1..n
  BY <1>4, OneLonger
<1> QED BY <1>2, <1>3, <1>4, <1>5

-----------------------------------------------------------------------------
(* What args and current hold when p runes were read.                      *)

Filled(as, S) ==
    /\ \A i \in S : /\ Word(i) \in 1..Len(as) /\ Place(i) \in 1..Len(as[Word(i)])
                     /\ as[Word(i)][Place(i)] = command[i].rune
    /\ \A k \in 1..Len(as) :
          /\ Len(as[k]) = Cardinality({i \in Texts : Word(i) = k})
          /\ \A n \in 1..Len(as[k]) : \E i \in S : Word(i) = k /\ Place(i) = n

Growing(cur, p) ==
    /\ Len(cur) = Cardinality(Open(p))
    /\ \A i \in Open(p) : Place(i) \in 1..Len(cur) /\ cur[Place(i)] = command[i].rune
    /\ \A n \in 1..Len(cur) : \E i \in Open(p) : Place(i) = n

Split(as, cur, p) ==
    /\ Filled(as, TextsTo(p) \ Open(p)) /\ Growing(cur, p)
    /\ Len(cur) = 0 => Len(as) = Cardinality(HeadsTo(p))
    /\ Len(cur) # 0 => Len(as) + 1 = Cardinality(HeadsTo(p))

\* A rune that is neither text nor a gap changes nothing.
LEMMA SplitQuiet ==
    ASSUME Written, NEW p \in Nat, p + 1 <= Len(command), NEW as, NEW cur, Split(as, cur, p),
           command[p + 1].role \notin {"text", "gap"}
    PROVE  Split(as, cur, p + 1)
<1>1. p + 1 \notin Texts
  BY DEF Texts
<1>2. Open(p + 1) = Open(p) /\ TextsTo(p + 1) = TextsTo(p) /\ HeadsTo(p + 1) = HeadsTo(p)
  BY <1>1, OneMore
<1> QED BY <1>2 DEF Split, Growing

\* A text is appended to the open word.
LEMMA SplitText ==
    ASSUME Written, NEW p \in Nat, p + 1 <= Len(command), NEW as \in Seq(Seq(Rune)),
           NEW cur \in Seq(Rune), Split(as, cur, p), p + 1 \in Texts
    PROVE  Split(as, Append(cur, command[p + 1].rune), p + 1)
<1> DEFINE c == command[p + 1].rune
           new == Append(cur, c)
<1>0. command[p + 1].role # "gap" /\ p + 1 \in Nat /\ ~(p + 1 <= p) /\ c \in Rune
  <2>1. command[p + 1] \in Mark /\ command[p + 1].role = "text"
    BY Counts DEF Texts, Written
  <2> QED BY <2>1 DEF Mark
<1>1. /\ Open(p + 1) = Open(p) \cup {p + 1} /\ p + 1 \notin Open(p)
      /\ TextsTo(p + 1) = TextsTo(p) \cup {p + 1} /\ p + 1 \notin TextsTo(p)
  BY <1>0, OneMore DEF Open, TextsTo
<1>2. TextsTo(p + 1) \ Open(p + 1) = TextsTo(p) \ Open(p)
  BY <1>1
<1>3. Open(p) \in SUBSET Texts /\ Open(p + 1) \in SUBSET Texts /\ IsFiniteSet(Open(p))
  BY Counts DEF Open
<1>4. Cardinality(Open(p + 1)) = Cardinality(Open(p)) + 1
  BY <1>1, <1>3, FS_AddElement
<1>5. Place(p + 1) = Len(cur) + 1 /\ Len(cur) \in Nat
  BY <1>4, Counts DEF Split, Growing
<1>6. /\ Len(new) = Len(cur) + 1 /\ new[Len(cur) + 1] = c
      /\ \A n \in 1..Len(cur) : new[n] = cur[n]
  BY <1>0
<1>7. Growing(new, p + 1)
  <2>1. Len(new) = Cardinality(Open(p + 1))
    BY <1>4, <1>6 DEF Split, Growing
  <2>2. ASSUME NEW i \in Open(p + 1)
        PROVE  Place(i) \in 1..Len(new) /\ new[Place(i)] = command[i].rune
    <3>1. CASE i = p + 1
      BY <1>5, <1>6, <3>1
    <3>2. CASE i \in Open(p)
      BY <1>5, <1>6, <3>2 DEF Split, Growing
    <3> QED BY <1>1, <3>1, <3>2
  <2>3. ASSUME NEW n \in 1..Len(new) PROVE \E i \in Open(p + 1) : Place(i) = n
    <3>1. CASE n = Len(cur) + 1
      BY <1>1, <1>5, <3>1
    <3>2. CASE n \in 1..Len(cur)
      BY <1>1, <3>2 DEF Split, Growing
    <3> QED BY <1>5, <1>6, <3>1, <3>2
  <2> HIDE DEF new
  <2> QED BY <2>1, <2>2, <2>3 DEF Growing
<1>8. Len(as) + 1 = Cardinality(HeadsTo(p + 1))
  <2>0. HeadsTo(p) \in SUBSET Texts /\ IsFiniteSet(HeadsTo(p)) /\ p + 1 \notin HeadsTo(p)
    BY <1>0, Counts DEF HeadsTo
  <2>1. CASE Open(p) = {}
    <3>1. Len(cur) = 0
      BY <2>1, FS_EmptySet DEF Split, Growing
    <3>2. HeadsTo(p + 1) = HeadsTo(p) \cup {p + 1}
      BY <2>1, OneMore
    <3>3. Cardinality(HeadsTo(p + 1)) = Cardinality(HeadsTo(p)) + 1
      BY <2>0, <3>2, FS_AddElement
    <3>4. Len(as) \in Nat
      BY Lens
    <3>5. Len(as) = Cardinality(HeadsTo(p))
      BY <3>1 DEF Split
    <3> QED BY <3>3, <3>4, <3>5
  <2>2. CASE Open(p) # {}
    <3>1. Len(cur) # 0
      BY <2>2 DEF Split, Growing
    <3>2. HeadsTo(p + 1) = HeadsTo(p)
      BY <2>2, OneMore
    <3> QED BY <3>1, <3>2 DEF Split
  <2> QED BY <2>1, <2>2
<1>9. Len(new) # 0
  BY <1>5, <1>6
<1> HIDE DEF new
<1> QED BY <1>2, <1>7, <1>8, <1>9 DEF Split, new

Ended(as, cur) == IF Len(cur) # 0 THEN Append(as, cur) ELSE as

\* A word that ends is an argument, unless it is empty.
LEMMA SplitEnds ==
    ASSUME Written, NEW p \in Nat, NEW W, NEW as \in Seq(W), NEW cur \in W, Len(cur) \in Nat,
           Split(as, cur, p), NoneGoesOn(p)
    PROVE  /\ Filled(Ended(as, cur), TextsTo(p))
           /\ Len(Ended(as, cur)) = Cardinality(HeadsTo(p))
<1>0. Open(p) \subseteq TextsTo(p)
  BY DEF Open, TextsTo
<1>1. CASE Len(cur) = 0
  <2>1. Open(p) = {}
    BY <1>1 DEF Split, Growing
  <2>2. TextsTo(p) \ Open(p) = TextsTo(p)
    BY <2>1
  <2>3. Len(as) \in Nat
    BY Lens
  <2>4. Len(as) = Cardinality(HeadsTo(p)) /\ Ended(as, cur) = as
    BY <1>1 DEF Split, Ended
  <2> QED BY <2>2, <2>3, <2>4 DEF Split
<1>2. CASE Len(cur) # 0
  <2>1. Len(cur) \in Nat \ {0} /\ Len(as) \in Nat
    BY <1>2, Lens
  <2>2. PICK x \in Open(p) : TRUE
    <3>1. Len(cur) \in 1..Len(cur)
      BY <2>1
    <3> QED BY <3>1 DEF Split, Growing
  <2>3. /\ Open(p) = {i \in Texts : Word(i) = Word(x)}
        /\ Word(x) = Cardinality(HeadsTo(p))
    BY OpenIsWord, OpenIsLast, Counts
  <2>4. PICK k \in Nat \ {0} :
          /\ k = Len(as) + 1 /\ Len(Append(as, cur)) = k /\ Append(as, cur)[k] = cur
          /\ \A m \in 1..Len(as) : m \in 1..k /\ Append(as, cur)[m] = as[m]
          /\ k \in 1..k /\ \A m \in 1..k : m = k \/ m \in 1..Len(as)
    BY Added, Zenon
  <2>5. Word(x) = k /\ Open(p) = {i \in Texts : Word(i) = k}
    BY <1>2, <2>3, <2>4, Zenon DEF Split
  <2>6. PICK new : new = Append(as, cur)
    OBVIOUS
  <2>7. Len(new) = k /\ new[k] = cur /\ \A m \in 1..Len(as) : new[m] = as[m]
    BY <2>4, <2>6
  <2>8. k \in 1..Len(new) /\ \A m \in 1..Len(as) : m \in 1..Len(new)
    BY <2>4, <2>6
  <2>9. \A m \in 1..Len(new) : m = k \/ m \in 1..Len(as)
    BY <2>4, <2>6
  <2>10. ASSUME NEW i \in TextsTo(p)
         PROVE  /\ Word(i) \in 1..Len(new) /\ Place(i) \in 1..Len(new[Word(i)])
                /\ new[Word(i)][Place(i)] = command[i].rune
    <3>1. CASE i \in Open(p)
      <4>1. Word(i) = k /\ Place(i) \in 1..Len(cur) /\ cur[Place(i)] = command[i].rune
        BY <2>5, <3>1 DEF Split, Growing
      <4> QED BY <2>7, <2>8, <4>1
    <3>2. CASE i \notin Open(p)
      <4>1. i \in TextsTo(p) \ Open(p)
        BY <3>2
      <4>2. /\ Word(i) \in 1..Len(as) /\ Place(i) \in 1..Len(as[Word(i)])
            /\ as[Word(i)][Place(i)] = command[i].rune
        BY <4>1 DEF Split, Filled
      <4> QED BY <2>7, <2>8, <4>2
    <3> QED BY <3>1, <3>2
  <2>11. ASSUME NEW m \in 1..Len(new)
         PROVE  /\ Len(new[m]) = Cardinality({i \in Texts : Word(i) = m})
                /\ \A n \in 1..Len(new[m]) : \E i \in TextsTo(p) : Word(i) = m /\ Place(i) = n
    <3>1. CASE m = k
      <4>1. \A n \in 1..Len(cur) : \E i \in Open(p) : Place(i) = n
        BY DEF Split, Growing
      <4>2. \A n \in 1..Len(cur) : \E i \in TextsTo(p) : Word(i) = k /\ Place(i) = n
        BY <1>0, <2>5, <4>1
      <4>3. Len(cur) = Cardinality({i \in Texts : Word(i) = k})
        BY <2>5 DEF Split, Growing
      <4> QED BY <2>7, <3>1, <4>2, <4>3
    <3>2. CASE m \in 1..Len(as)
      <4>1. /\ Len(as[m]) = Cardinality({i \in Texts : Word(i) = m})
            /\ \A n \in 1..Len(as[m]) :
                  \E i \in TextsTo(p) \ Open(p) : Word(i) = m /\ Place(i) = n
        BY <3>2 DEF Split, Filled
      <4> QED BY <2>7, <3>2, <4>1
    <3> QED BY <2>9, <3>1, <3>2
  <2>12. Filled(new, TextsTo(p))
    BY <2>10, <2>11 DEF Filled
  <2> QED BY <1>2, <2>3, <2>5, <2>6, <2>7, <2>12 DEF Ended
<1> QED BY <1>1, <1>2

\* A gap ends the open word.
LEMMA SplitGap ==
    ASSUME Written, NEW p \in Nat, p + 1 <= Len(command), NEW as \in Seq(Seq(Rune)),
           NEW cur \in Seq(Rune), Split(as, cur, p), command[p + 1].role = "gap"
    PROVE  Split(Ended(as, cur), <<>>, p + 1)
<1>1. ASSUME NEW i \in Texts, i > p PROVE Apart(p, i)
  <2>1. i \in Nat /\ p + 1 \in p..i
    BY <1>1, Counts
  <2> QED BY <2>1 DEF Apart
<1>2. Filled(Ended(as, cur), TextsTo(p)) /\ Len(Ended(as, cur)) = Cardinality(HeadsTo(p))
  BY <1>1, SplitEnds, Lens DEF NoneGoesOn
<1>3. /\ Open(p + 1) = {} /\ p + 1 \notin Texts /\ HeadsTo(p + 1) = HeadsTo(p)
      /\ TextsTo(p + 1) = TextsTo(p)
  BY OneMore
<1>4. TextsTo(p + 1) \ Open(p + 1) = TextsTo(p)
  BY <1>3
<1>5. Growing(<<>>, p + 1)
  <2>1. Len(<<>>) = 0
    BY EmptySeq
  <2>2. 1..0 = {}
    OBVIOUS
  <2>3. Cardinality(Open(p + 1)) = 0
    BY <1>3, FS_EmptySet
  <2>4. \A n \in 1..Len(<<>>) : FALSE
    BY <2>1, <2>2
  <2> QED BY <1>3, <2>1, <2>3, <2>4 DEF Growing
<1>6. Cardinality(HeadsTo(p)) \in Nat
  BY Counts DEF HeadsTo
<1>7. Len(<<>>) = 0
  BY EmptySeq
<1> QED BY <1>2, <1>3, <1>4, <1>5, <1>7 DEF Split

-----------------------------------------------------------------------------
(* The part of a command that is read.                                     *)

\* a and b are the outermost runes that are not white.
Span(a, b) == a \in Solid /\ b \in Solid /\ \A i \in Solid : a <= i /\ i <= b

\* A set of places that is not empty has a first and a last.
LEMMA Outermost ==
    ASSUME NEW n \in Nat, NEW S \in SUBSET (1..n), S # {}
    PROVE  /\ Min(S) \in S /\ Max(S) \in S
           /\ \A i \in S : Min(S) <= i /\ i <= Max(S)
<1>1. S \subseteq Nat /\ S \subseteq 0..n
  OBVIOUS
<1>2. \E m \in S : \A i \in S : m <= i
  BY <1>1, Least
<1>3. \E m \in S : \A i \in S : i <= m
  BY <1>1, Largest
<1>4. \E m \in S : \A i \in S : m >= i
  BY <1>1, <1>3
<1>5. Min(S) \in S /\ \A i \in S : Min(S) =< i
  BY <1>2 DEF Min
<1>6. Max(S) \in S /\ \A i \in S : Max(S) >= i
  BY <1>4 DEF Max
<1> QED BY <1>1, <1>5, <1>6

\* What TrimSpace returns.
LEMMA Trimmed ==
    ASSUME NEW s \in Seq(Rune)
    PROVE  /\ (\A i \in 1..Len(s) : s[i] \in White) => TrimSpace(s) = <<>>
           /\ (\E i \in 1..Len(s) : s[i] \notin White) =>
                \E a, b \in 1..Len(s) :
                  /\ a <= b /\ s[a] \notin White /\ s[b] \notin White
                  /\ \A i \in 1..Len(s) : s[i] \notin White => a <= i /\ i <= b
                  /\ TrimSpace(s) \in Seq(Rune) /\ Len(TrimSpace(s)) = b - a + 1
                  /\ \A i \in 1..(b - a + 1) : TrimSpace(s)[i] = s[a + i - 1]
<1>0. Len(s) \in Nat /\ DOMAIN s = 1..Len(s) /\ \A i \in 1..Len(s) : s[i] \in Rune
  BY LenProperties, ElementOfSeq
<1>1. PICK K : K = {i \in DOMAIN s : s[i] \notin White}
  OBVIOUS
<1>2. TrimSpace(s) = IF K = {} THEN <<>> ELSE SubSeq(s, Min(K), Max(K))
  BY <1>1 DEF TrimSpace
<1>3. K \in SUBSET (1..Len(s)) /\ \A i \in 1..Len(s) : i \in K <=> s[i] \notin White
  BY <1>0, <1>1
<1>4. ASSUME \A i \in 1..Len(s) : s[i] \in White PROVE TrimSpace(s) = <<>>
  BY <1>2, <1>3, <1>4
<1>5. ASSUME NEW j \in 1..Len(s), s[j] \notin White
      PROVE  \E a, b \in 1..Len(s) :
               /\ a <= b /\ s[a] \notin White /\ s[b] \notin White
               /\ \A i \in 1..Len(s) : s[i] \notin White => a <= i /\ i <= b
               /\ TrimSpace(s) \in Seq(Rune) /\ Len(TrimSpace(s)) = b - a + 1
               /\ \A i \in 1..(b - a + 1) : TrimSpace(s)[i] = s[a + i - 1]
  <2>1. K # {} /\ TrimSpace(s) = SubSeq(s, Min(K), Max(K))
    BY <1>2, <1>3, <1>5
  <2>2. PICK a, b \in K : a = Min(K) /\ b = Max(K) /\ \A i \in K : a <= i /\ i <= b
    BY <1>0, <1>3, <2>1, Outermost
  <2>3. a \in 1..Len(s) /\ b \in 1..Len(s) /\ a <= b /\ a \in Int /\ b \in Int
    BY <1>0, <1>3, <2>2
  <2>4. \A i \in a..b : s[i] \in Rune
    BY <1>0, <2>3
  <2>5. /\ SubSeq(s, a, b) \in Seq(Rune) /\ Len(SubSeq(s, a, b)) = b - a + 1
        /\ \A i \in 1..(b - a + 1) : SubSeq(s, a, b)[i] = s[a + i - 1]
    BY <2>3, <2>4, SubSeqProperties
  <2>6. /\ s[a] \notin White /\ s[b] \notin White
        /\ \A i \in 1..Len(s) : s[i] \notin White => a <= i /\ i <= b
    BY <1>3, <2>2
  <2>7. TrimSpace(s) = SubSeq(s, a, b)
    BY <2>1, <2>2
  <2> QED BY <2>3, <2>5, <2>6, <2>7
<1> QED BY <1>4, <1>5

\* Around the part that is read, quotes neither open nor close.
LEMMA Margins ==
    ASSUME Written, NEW a, NEW b, Span(a, b)
    PROVE  /\ a \in 1..Len(command) /\ b \in 1..Len(command) /\ a <= b /\ Len(command) \in Nat
           /\ Before(a - 1).mode = "bare" /\ Before(a - 1).role # "escape"
           /\ Before(Len(command)).mode = Before(b).mode
<1>0. Len(command) \in Nat /\ DOMAIN command = 1..Len(command)
  BY LenProperties DEF Written
<1>1. a \in 1..Len(command) /\ b \in 1..Len(command) /\ a <= b
  BY <1>0 DEF Span, Solid
<1>2. \A i \in 1..Len(command) : i < a \/ b < i => command[i].rune \in White
  <2> SUFFICES ASSUME NEW i \in 1..Len(command), command[i].rune \notin White
               PROVE  ~(i < a \/ b < i)
    OBVIOUS
  <2>1. i \in Solid
    BY <1>0 DEF Solid
  <2>2. a <= i /\ i <= b
    BY <2>1 DEF Span
  <2> QED BY <1>0, <1>1, <2>2
<1>3. Before(a - 1).mode = "bare"
  <2> DEFINE D == {i \in 0..(a - 1) : Before(i).mode # "bare"}
  <2> SUFFICES ASSUME D # {} PROVE FALSE
    BY <1>0, <1>1
  <2>1. PICK m \in D : \A k \in D : m <= k
    <3>1. D \subseteq Nat
      BY <1>0, <1>1
    <3> HIDE DEF D
    <3> QED BY <3>1, Least
  <2>2. m # 0 /\ m \in 1..Len(command) /\ m < a /\ m - 1 \in 0..(a - 1) /\ ~(m <= m - 1)
    BY <1>0, <1>1 DEF Before, Begin, M
  <2>3. Before(m - 1).mode = "bare"
    BY <2>1, <2>2
  <2>4. Before(m).mode = Before(m - 1).mode
    BY <1>2, <2>2, WhiteKeeps DEF Before
  <2> QED BY <2>3, <2>4
<1>4. Before(a - 1).role # "escape"
  <2>1. CASE a = 1
    BY <2>1 DEF Before, Begin, M
  <2>2. CASE a # 1
    <3>1. a - 1 \in 1..Len(command) /\ a - 1 < a /\ a - 1 # 0
      BY <1>0, <1>1, <2>2
    <3>2. command[a - 1].role \in {"text", "gap"}
      BY <1>2, <3>1, WhiteKeeps
    <3> QED BY <3>1, <3>2 DEF Before
  <2> QED BY <2>1, <2>2
<1>5. Before(Len(command)).mode = Before(b).mode
  <2> DEFINE D == {i \in b..Len(command) : Before(i).mode # Before(b).mode}
  <2> SUFFICES ASSUME D # {} PROVE FALSE
    BY <1>0, <1>1
  <2>1. PICK m \in D : \A k \in D : m <= k
    <3>1. D \subseteq Nat
      BY <1>0, <1>1
    <3> HIDE DEF D
    <3> QED BY <3>1, Least
  <2>2. /\ m # b /\ m # 0 /\ m \in 1..Len(command) /\ b < m /\ m - 1 \in b..Len(command)
        /\ ~(m <= m - 1)
    BY <1>0, <1>1
  <2>3. Before(m - 1).mode = Before(b).mode
    BY <2>1, <2>2
  <2>4. Before(m).mode = Before(m - 1).mode
    BY <1>2, <2>2, WhiteKeeps DEF Before
  <2> QED BY <2>1, <2>3, <2>4
<1> QED BY <1>0, <1>1, <1>3, <1>4, <1>5

\* The texts are what is marked as text between the outermost solid runes.
LEMMA TextIn ==
    ASSUME Written, NEW a, NEW b, Span(a, b)
    PROVE  \A i : i \in Texts <=> i \in a..b /\ command[i].role = "text"
<1>0. /\ a \in 1..Len(command) /\ b \in 1..Len(command) /\ a <= b /\ Len(command) \in Nat
      /\ DOMAIN command = 1..Len(command)
  BY Margins, LenProperties DEF Written
<1>1. \A i \in a..b : i \in 1..Len(command) /\ a <= i /\ i <= b /\ a \in Solid /\ b \in Solid
  BY <1>0 DEF Span
<1>2. ASSUME NEW i \in Texts PROVE i \in a..b /\ command[i].role = "text"
  <2>1. PICK u, v \in Solid : u <= i /\ i <= v
    BY DEF Texts
  <2>2. a <= u /\ v <= b /\ u \in 1..Len(command) /\ v \in 1..Len(command) /\ i \in 1..Len(command)
    BY <1>0 DEF Span, Solid, Texts
  <2>3. i \in a..b
    BY <1>0, <2>1, <2>2
  <2> QED BY <2>3 DEF Texts
<1> QED BY <1>0, <1>1, <1>2 DEF Texts

\* Nothing is split yet where the reading begins.
LEMMA SplitStart ==
    ASSUME Written, NEW a, NEW b, Span(a, b) PROVE Split(<<>>, <<>>, a - 1)
<1>0. a \in Nat /\ \A i \in Texts : i \in Nat /\ a <= i
  BY Margins, TextIn
<1>1. TextsTo(a - 1) = {} /\ Open(a - 1) = {} /\ HeadsTo(a - 1) = {}
  <2>1. \A i \in Texts : ~(i <= a - 1)
    BY <1>0
  <2>2. Heads \subseteq Texts
    BY DEF Heads
  <2> QED BY <2>1, <2>2 DEF TextsTo, Open, HeadsTo
<1>2. Cardinality({}) = 0 /\ Len(<<>>) = 0
  BY FS_EmptySet, EmptySeq
<1>3. 1..0 = {}
  OBVIOUS
<1>4. \A n \in 1..Len(<<>>) : FALSE
  BY <1>2, <1>3
<1>5. TextsTo(a - 1) \ Open(a - 1) = {}
  BY <1>1
<1>6. Filled(<<>>, {}) /\ Growing(<<>>, a - 1)
  BY <1>1, <1>2, <1>4 DEF Filled, Growing
<1> QED BY <1>1, <1>2, <1>5, <1>6 DEF Split

\* Where it ends, the last word is an argument too.
LEMMA SplitFinish ==
    ASSUME Written, NEW a, NEW b, Span(a, b), NEW W, NEW as \in Seq(W), NEW cur \in W,
           Len(cur) \in Nat, Split(as, cur, b)
    PROVE  Filled(Ended(as, cur), Texts) /\ Len(Ended(as, cur)) = Cardinality(Heads)
<1>0. b \in Nat /\ \A i \in Texts : i \in Nat /\ i <= b
  BY Margins, TextIn
<1>1. NoneGoesOn(b)
  BY <1>0 DEF NoneGoesOn
<1>2. TextsTo(b) = Texts /\ HeadsTo(b) = Heads
  BY <1>0 DEF TextsTo, HeadsTo, Heads
<1>3. Filled(Ended(as, cur), TextsTo(b)) /\ Len(Ended(as, cur)) = Cardinality(HeadsTo(b))
  BY <1>0, <1>1, SplitEnds
<1> QED BY <1>2, <1>3

\* Arguments that hold every text are those that are meant.
LEMMA FilledMeans ==
    ASSUME NEW W, NEW as \in Seq(W), Filled(as, Texts), Len(as) = Cardinality(Heads)
    PROVE  Meant(as)
<1>1. DOMAIN as = 1..Len(as)
  BY LenProperties
<1> QED BY <1>1 DEF Meant, Filled

\* The name is more than blanks exactly when the first word is.
LEMMA Named ==
    ASSUME NEW as \in Seq(Seq(Rune)), Filled(as, Texts), 1 \in 1..Len(as)
    PROVE  TrimSpace(as[1]) # <<>> <=> \E i \in Texts : Word(i) = 1 /\ command[i].rune \notin White
<1>1. as[1] \in Seq(Rune)
  BY ElementOfSeq
<1>2. TrimSpace(as[1]) # <<>> <=> \E n \in 1..Len(as[1]) : as[1][n] \notin White
  <2>1. ASSUME \A n \in 1..Len(as[1]) : as[1][n] \in White PROVE TrimSpace(as[1]) = <<>>
    BY <1>1, <2>1, Trimmed
  <2>2. ASSUME \E n \in 1..Len(as[1]) : as[1][n] \notin White PROVE TrimSpace(as[1]) # <<>>
    <3>1. PICK x, y \in 1..Len(as[1]) : x <= y /\ Len(TrimSpace(as[1])) = y - x + 1
      BY <1>1, <2>2, Trimmed
    <3>2. Len(TrimSpace(as[1])) # 0
      BY <3>1
    <3>3. Len(<<>>) = 0
      BY EmptySeq
    <3> QED BY <3>2, <3>3, Zenon
  <2> QED BY <2>1, <2>2
<1>3. ASSUME NEW n \in 1..Len(as[1]), as[1][n] \notin White
      PROVE  \E i \in Texts : Word(i) = 1 /\ command[i].rune \notin White
  <2>1. PICK i \in Texts : Word(i) = 1 /\ Place(i) = n
    BY DEF Filled
  <2>2. as[1][n] = command[i].rune
    BY <2>1 DEF Filled
  <2> QED BY <1>3, <2>1, <2>2
<1>4. ASSUME NEW i \in Texts, Word(i) = 1, command[i].rune \notin White
      PROVE  \E n \in 1..Len(as[1]) : as[1][n] \notin White
  BY <1>4 DEF Filled
<1> QED BY <1>2, <1>3, <1>4

-----------------------------------------------------------------------------
(* The invariant.                                                          *)

\* What ParseCommand knows of its place in the command when p runes were read.
Lexed(p, esc, st, q) ==
    /\ esc <=> Before(p).role = "escape"
    /\ st = "quotes" <=> Before(p).mode # "bare"
    /\ st = "quotes" => q = Before(p).mode

\* s is the runes from p to b.
Ahead(s, p, b) == Len(s) = b - p /\ \A i \in 1..Len(s) : s[i] = command[p + i].rune

Fits == Solid # {} /\ \A a, b \in Solid : b - a < MaxLength

Untouched == args = <<>> /\ current = <<>> /\ state = "start" /\ isEscaped = FALSE

Reading(a, b, p) ==
    /\ Span(a, b) /\ p \in (a - 1)..b /\ Ahead(todo, p, b)
    /\ Lexed(p, isEscaped, state, quoteChar) /\ Split(args, current, p)

WhenWriting == stage = "writing" => given = 0 /\ Untouched
WhenArrived == stage = "arrived" => Ahead(todo, 0, Len(command)) /\ Untouched
WhenLimits == stage = "limits" => Fits /\ Untouched /\ \E a, b \in Solid : Span(a, b) /\ Ahead(todo, a - 1, b)
WhenParsing == stage = "parsing" => Fits /\ given = 0 /\ \E a, b \in Solid : \E p \in Nat : Reading(a, b, p)
WhenParsed ==
    stage = "parsed" =>
        /\ Fits
        /\ given = 0 => Closed /\ Filled(args, Texts) /\ Len(args) = Cardinality(Heads)
        /\ given # 0 => given <= MaxArgs /\ Len(args) = 1 /\ TrimSpace(args[1]) # <<>>
WhenAccepted == stage = "accepted" => Usable /\ (given = 0 => Meant(args))
WhenRefused == stage = "refused" => ~Usable

IInv ==
    /\ TypeOK /\ Written
    /\ WhenWriting /\ WhenArrived /\ WhenLimits /\ WhenParsing /\ WhenParsed
    /\ WhenAccepted /\ WhenRefused

-----------------------------------------------------------------------------
(* One rune.                                                               *)

\* The runes that are not blank tell whether a request is usable.
LEMMA FitsIs ==
    ASSUME Written, NEW a, NEW b, Span(a, b)
    PROVE  /\ Fits <=> b - a < MaxLength
           /\ Closed <=> Before(b).mode = "bare"
<1>1. /\ a \in 1..Len(command) /\ b \in 1..Len(command) /\ a <= b /\ Len(command) \in Nat
      /\ Before(Len(command)).mode = Before(b).mode /\ a \in Solid /\ b \in Solid
      /\ DOMAIN command = 1..Len(command)
  BY Margins, LenProperties DEF Written, Span
<1>2. \A i \in Solid : i \in Int /\ a <= i /\ i <= b
  BY <1>1 DEF Span, Solid
<1>3. MaxLength \in Int
  BY ParsingAssumption
<1>4. Fits <=> b - a < MaxLength
  BY <1>1, <1>2, <1>3 DEF Fits
<1>5. Len(command) # 0
  BY <1>1
<1>6. command # <<>> /\ Last(command) = Before(Len(command))
  BY <1>5, EmptySeq DEF Last, Before
<1> QED BY <1>1, <1>4, <1>6 DEF Closed

\* The next rune, and what stands behind it.
LEMMA Consumed ==
    ASSUME NEW s \in Seq(Rune), s # <<>>, NEW p \in Nat, NEW b \in Nat, Ahead(s, p, b)
    PROVE  /\ Head(s) = command[p + 1].rune /\ Head(s) \in Rune /\ Tail(s) \in Seq(Rune)
           /\ p + 1 <= b /\ Ahead(Tail(s), p + 1, b)
<1>1. Len(s) \in Nat \ {0}
  BY EmptySeq
<1>2. Head(s) = s[1] /\ Head(s) \in Rune /\ Tail(s) \in Seq(Rune)
  BY HeadTailProperties
<1>3. Len(Tail(s)) = Len(s) - 1 /\ \A i \in 1..Len(Tail(s)) : Tail(s)[i] = s[i + 1]
  BY HeadTailProperties
<1>4. Len(s) = b - p /\ \A i \in 1..Len(s) : s[i] = command[p + i].rune
  BY DEF Ahead
<1>5. \A i \in 1..Len(Tail(s)) : Tail(s)[i] = command[p + 1 + i].rune
  <2> SUFFICES ASSUME NEW i \in 1..Len(Tail(s)) PROVE Tail(s)[i] = command[p + 1 + i].rune
    OBVIOUS
  <2>1. i + 1 \in 1..Len(s) /\ p + (i + 1) = p + 1 + i
    BY <1>1, <1>3
  <2> QED BY <1>3, <1>4, <2>1
<1>6. 1 \in 1..Len(s) /\ p + 1 <= b /\ Len(Tail(s)) = b - (p + 1)
  BY <1>1, <1>3, <1>4
<1> QED BY <1>2, <1>4, <1>5, <1>6 DEF Ahead

\* What its state and the next rune c tell the parser of the next mark.
Tells(p, esc, st, q, c) ==
    /\ p + 1 \in Texts <=> command[p + 1].role = "text"
    /\ esc => command[p + 1].role = "text" /\ Lexed(p + 1, FALSE, st, q)
    /\ ~esc /\ c = "backslash" =>
         command[p + 1].role = "escape" /\ Lexed(p + 1, TRUE, st, q)
    /\ ~esc /\ c # "backslash" /\ st = "quotes" =>
         /\ c = q => command[p + 1].role = "quote" /\ Lexed(p + 1, FALSE, "start", q)
         /\ c # q => command[p + 1].role = "text" /\ Lexed(p + 1, FALSE, st, q)
    /\ ~esc /\ c # "backslash" /\ st = "start" =>
         /\ c \in Quote => command[p + 1].role = "quote" /\ Lexed(p + 1, FALSE, "quotes", c)
         /\ c \in Blank => command[p + 1].role = "gap" /\ Lexed(p + 1, FALSE, st, q)
         /\ c \notin Quote \cup Blank =>
              command[p + 1].role = "text" /\ Lexed(p + 1, FALSE, st, q)

\* It tells it right.
LEMMA NextMark ==
    ASSUME Written, NEW a, NEW b, Span(a, b), NEW p \in Nat, a - 1 <= p, p + 1 <= b,
           NEW esc \in BOOLEAN, NEW st \in {"start", "quotes"}, NEW q \in Quote, Lexed(p, esc, st, q),
           NEW c, c = command[p + 1].rune
    PROVE  Tells(p, esc, st, q, c)
<1> DEFINE f == command[p + 1]
           e == Before(p)
<1>0. /\ a \in 1..Len(command) /\ b \in 1..Len(command) /\ Len(command) \in Nat
      /\ p + 1 \in 1..Len(command) /\ p \in 0..Len(command) /\ p + 1 \in a..b /\ p + 1 # 0
      /\ p + 1 - 1 = p
  <2>1. a \in 1..Len(command) /\ b \in 1..Len(command) /\ Len(command) \in Nat
    BY Margins
  <2> QED BY <2>1
<1>1. e \in Mark /\ f \in After(e) /\ Before(p + 1) = f
  BY <1>0, BeforeMark DEF Written, Before
<1>2. p + 1 \in Texts <=> f.role = "text"
  BY <1>0, TextIn
<1>3. f \in Mark /\ e.mode \in Quote \cup {"bare"}
  BY <1>1, AfterIs DEF Mark
<1>4. /\ esc <=> e.role = "escape"
      /\ st = "quotes" <=> e.mode # "bare"
      /\ st = "quotes" => q = e.mode
  BY DEF Lexed
<1>5. /\ Lexed(p + 1, FALSE, st, q) <=>
           f.role # "escape" /\ (st = "quotes" <=> f.mode # "bare") /\ (st = "quotes" => q = f.mode)
      /\ Lexed(p + 1, TRUE, st, q) <=>
           f.role = "escape" /\ (st = "quotes" <=> f.mode # "bare") /\ (st = "quotes" => q = f.mode)
      /\ Lexed(p + 1, FALSE, "start", q) <=> f.role # "escape" /\ f.mode = "bare"
      /\ Lexed(p + 1, FALSE, "quotes", c) <=> f.role # "escape" /\ f.mode # "bare" /\ c = f.mode
  BY <1>1 DEF Lexed
<1> HIDE DEF f, e
<1>6. esc => f.role = "text" /\ Lexed(p + 1, FALSE, st, q)
  BY <1>1, <1>3, <1>4, <1>5, AfterIs
<1>7. f.rune = c /\ "bare" \notin Quote
  BY DEF f, Quote
<1>8. ASSUME ~esc, c = "backslash" PROVE f.role = "escape" /\ Lexed(p + 1, TRUE, st, q)
  <2>1. f.role = "escape" /\ f.mode = e.mode
    BY <1>1, <1>4, <1>7, <1>8, AfterIs
  <2> QED BY <1>4, <1>5, <2>1
<1>9. ASSUME ~esc, c # "backslash", st = "quotes"
      PROVE  /\ c = q => f.role = "quote" /\ Lexed(p + 1, FALSE, "start", q)
             /\ c # q => f.role = "text" /\ Lexed(p + 1, FALSE, st, q)
  <2>1. /\ c = e.mode => f.role = "quote" /\ f.mode = "bare"
        /\ c # e.mode => f.role = "text" /\ f.mode = e.mode
    BY <1>1, <1>4, <1>7, <1>9, AfterIs
  <2> QED BY <1>4, <1>5, <1>9, <2>1
<1>10. ASSUME ~esc, c # "backslash", st = "start"
       PROVE  /\ c \in Quote => f.role = "quote" /\ Lexed(p + 1, FALSE, "quotes", c)
              /\ c \in Blank => f.role = "gap" /\ Lexed(p + 1, FALSE, st, q)
              /\ c \notin Quote \cup Blank => f.role = "text" /\ Lexed(p + 1, FALSE, st, q)
  <2>1. /\ c \in Blank => f.role = "gap" /\ f.mode = "bare"
        /\ c \in Quote => f.role = "quote" /\ f.mode = c
        /\ c \notin Blank \cup Quote => f.role = "text" /\ f.mode = "bare"
    BY <1>1, <1>4, <1>7, <1>10, AfterIs
  <2> QED BY <1>4, <1>5, <1>7, <1>10, <2>1
<1> QED BY <1>2, <1>6, <1>8, <1>9, <1>10 DEF f, Tells

-----------------------------------------------------------------------------
(* The steps.                                                              *)

\* What is said of the marks stays true while the command stays the same.
LEMMA SameCommand ==
    ASSUME command' = command
    PROVE  /\ (Written' <=> Written) /\ Solid' = Solid /\ Texts' = Texts /\ Heads' = Heads
           /\ \A p : Before(p)' = Before(p) /\ Word(p)' = Word(p) /\ Place(p)' = Place(p)
           /\ \A p : Open(p)' = Open(p) /\ TextsTo(p)' = TextsTo(p) /\ HeadsTo(p)' = HeadsTo(p)
           /\ (Closed' <=> Closed) /\ (Fits' <=> Fits)
           /\ \A a, b : Span(a, b)' <=> Span(a, b)
<1>1. Solid' = Solid
  BY DEF Solid
<1>2. Texts' = Texts
  BY <1>1 DEF Texts
<1>3. \A i, j : Apart(i, j)' <=> Apart(i, j)
  BY DEF Apart
<1>4. Heads' = Heads
  BY <1>2, <1>3 DEF Heads
<1>5. \A p : Word(p)' = Word(p) /\ Place(p)' = Place(p)
  BY <1>2, <1>3, <1>4 DEF Word, Place
<1>6. \A p : Open(p)' = Open(p) /\ TextsTo(p)' = TextsTo(p) /\ HeadsTo(p)' = HeadsTo(p)
  BY <1>2, <1>3, <1>4 DEF Open, TextsTo, HeadsTo
<1>7. \A p : Before(p)' = Before(p)
  BY DEF Before
<1>8. Written' <=> Written
  BY <1>7 DEF Written
<1>9. (Closed' <=> Closed) /\ (Fits' <=> Fits)
  BY <1>1 DEF Closed, Fits
<1>10. \A a, b : Span(a, b)' <=> Span(a, b)
  BY <1>1 DEF Span
<1> QED BY <1>1, <1>2, <1>4, <1>5, <1>6, <1>7, <1>8, <1>9, <1>10

\* So does whether the request is usable.
LEMMA SameUsable == ASSUME command' = command, given' = given PROVE Usable' <=> Usable
<1>1. Usable <=> /\ Fits
                 /\ IF given > 0 THEN given <= MaxArgs
                    ELSE /\ Closed
                         /\ Cardinality(Heads) \in 1..MaxArgs
                         /\ \E i \in Texts : Word(i) = 1 /\ command[i].rune \notin White
  BY DEF Usable, Fits
<1>2. Usable' <=> /\ Fits'
                  /\ IF given' > 0 THEN given' <= MaxArgs
                     ELSE /\ Closed'
                          /\ Cardinality(Heads') \in 1..MaxArgs
                          /\ \E i \in Texts' : Word(i)' = 1 /\ command'[i].rune \notin White
  BY DEF Usable, Fits
<1> QED BY <1>1, <1>2, SameCommand

\* What is split stays split while the command stays the same.
LEMMA KeptSplit ==
    ASSUME command' = command, NEW as, NEW cur, NEW p, args' = as, current' = cur, Split(as, cur, p)
    PROVE  Split(args, current, p)'
<1>1. Growing(current, p)'
  <2>1. Growing(cur, p)
    BY DEF Split
  <2> QED BY <2>1, SameCommand DEF Growing
<1>2. Filled(args, TextsTo(p) \ Open(p))'
  <2>1. Filled(as, TextsTo(p) \ Open(p))
    BY DEF Split
  <2>2. (TextsTo(p) \ Open(p))' = TextsTo(p) \ Open(p)
    BY SameCommand
  <2>3. \A k : {i \in Texts : Word(i) = k}' = {i \in Texts : Word(i) = k}
    BY SameCommand
  <2>4. ASSUME NEW i \in (TextsTo(p) \ Open(p))'
        PROVE  /\ Word(i)' \in 1..Len(args') /\ Place(i)' \in 1..Len(args'[Word(i)'])
               /\ args'[Word(i)'][Place(i)'] = command'[i].rune
    <3>1. /\ Word(i) \in 1..Len(as) /\ Place(i) \in 1..Len(as[Word(i)])
          /\ as[Word(i)][Place(i)] = command[i].rune
      BY <2>1, <2>2 DEF Filled
    <3>2. Word(i)' = Word(i) /\ Place(i)' = Place(i)
      BY SameCommand
    <3> QED BY <3>1, <3>2, Zenon
  <2>5. ASSUME NEW k \in 1..Len(args')
        PROVE  /\ Len(args'[k]) = Cardinality({i \in Texts : Word(i) = k}')
               /\ \A n \in 1..Len(args'[k]) :
                     \E i \in (TextsTo(p) \ Open(p))' : Word(i)' = k /\ Place(i)' = n
    <3>1. k \in 1..Len(as)
      OBVIOUS
    <3>2. /\ Len(as[k]) = Cardinality({i \in Texts : Word(i) = k})
          /\ \A n \in 1..Len(as[k]) :
                \E i \in TextsTo(p) \ Open(p) : Word(i) = k /\ Place(i) = n
      BY <2>1, <3>1 DEF Filled
    <3>3. \A i : Word(i)' = Word(i) /\ Place(i)' = Place(i)
      BY SameCommand
    <3> QED BY <2>2, <2>3, <3>2, <3>3, Zenon
  <2> QED BY <2>4, <2>5 DEF Filled
<1>3. /\ Len(current') = 0 => Len(args') = Cardinality(HeadsTo(p)')
      /\ Len(current') # 0 => Len(args') + 1 = Cardinality(HeadsTo(p)')
  BY SameCommand DEF Split
<1> QED BY <1>1, <1>2, <1>3 DEF Split

\* The next place that is read.
LEMMA ReadOn ==
    ASSUME IInv, Read, TypeOK', NEW a \in Solid, NEW b \in Solid, NEW p \in Nat, Reading(a, b, p),
           p + 1 <= b, Ahead(Tail(todo), p + 1, b),
           NEW e, NEW st, NEW q, NEW as, NEW cur,
           isEscaped' = e, state' = st, quoteChar' = q, args' = as, current' = cur,
           Lexed(p + 1, e, st, q), Split(as, cur, p + 1)
    PROVE  IInv'
<1>1. command' = command /\ given' = given /\ stage = "parsing" /\ stage' = "parsing" /\ todo' = Tail(todo)
  BY DEF Read
<1>2. Lexed(p + 1, isEscaped, state, quoteChar)'
  BY <1>1, SameCommand DEF Lexed
<1>3. Ahead(todo, p + 1, b)'
  BY <1>1 DEF Ahead
<1>4. Split(args, current, p + 1)'
  BY <1>1, KeptSplit
<1>5. Span(a, b)' /\ p + 1 \in (a - 1)..b /\ a \in Solid' /\ b \in Solid' /\ p + 1 \in Nat
  <2>1. Span(a, b) /\ Written
    BY DEF Reading, IInv
  <2>2. a \in Nat /\ b \in Nat
    BY <2>1, Margins
  <2> QED BY <1>1, <2>1, <2>2, SameCommand DEF Reading
<1>6. Reading(a, b, p + 1)'
  BY <1>2, <1>3, <1>4, <1>5 DEF Reading
<1>7. WhenParsing'
  BY <1>1, <1>5, <1>6, SameCommand DEF WhenParsing, IInv
<1>8. Written'
  BY <1>1, SameCommand DEF IInv
<1> QED BY <1>1, <1>7, <1>8 DEF IInv, WhenWriting, WhenArrived, WhenLimits, WhenParsed, WhenAccepted, WhenRefused

\* p runes were read, and there is another.
Here(a, b, p) ==
    /\ Reading(a, b, p) /\ Written /\ Span(a, b) /\ a - 1 <= p /\ p + 1 <= b
    /\ Ahead(Tail(todo), p + 1, b) /\ next = command[p + 1].rune
    /\ p + 1 <= Len(command) /\ Split(args, current, p)
    /\ Lexed(p, isEscaped, state, quoteChar)

\* Whenever a rune is read.
LEMMA AtRune == IInv /\ Read => \E a, b \in Solid : \E p \in Nat : Here(a, b, p)
<1> SUFFICES ASSUME IInv, Read PROVE \E a, b \in Solid : \E p \in Nat : Here(a, b, p)
  OBVIOUS
<1>1. PICK a, b \in Solid : \E p \in Nat : Reading(a, b, p)
  BY DEF IInv, WhenParsing, Read
<1>2. PICK p \in Nat : Reading(a, b, p)
  BY <1>1
<1>3. Written /\ Span(a, b) /\ todo \in Seq(Rune) /\ todo # <<>>
  BY <1>2 DEF IInv, TypeOK, Reading, Read
<1>4. a \in 1..Len(command) /\ b \in 1..Len(command) /\ Len(command) \in Nat
  BY <1>3, Margins
<1>5. b \in Nat /\ Ahead(todo, p, b) /\ p \in (a - 1)..b
  BY <1>2, <1>4 DEF Reading
<1>6. /\ next = command[p + 1].rune /\ p + 1 <= b /\ Ahead(Tail(todo), p + 1, b)
  BY <1>3, <1>5, Consumed DEF next
<1>7. a - 1 <= p /\ p + 1 <= Len(command)
  BY <1>4, <1>5, <1>6
<1> QED BY <1>2, <1>3, <1>6, <1>7 DEF Reading, Here

\* The types of what is read.
LEMMA ReadTypes ==
    ASSUME IInv, Read
    PROVE  /\ next \in Rune /\ Tail(todo) \in Seq(Rune) /\ current \in Seq(Rune)
           /\ args \in Seq(Seq(Rune) \ {<<>>}) /\ args \in Seq(Seq(Rune)) /\ Len(current) \in Nat
           /\ Append(current, next) \in Seq(Rune) /\ <<>> \in Seq(Rune)
           /\ state \in {"start", "quotes"} /\ quoteChar \in Quote /\ isEscaped \in BOOLEAN
<1>1. /\ todo \in Seq(Rune) /\ todo # <<>> /\ current \in Seq(Rune) /\ args \in Seq(Seq(Rune) \ {<<>>})
      /\ state \in {"start", "quotes"} /\ quoteChar \in Quote /\ isEscaped \in BOOLEAN
  BY DEF IInv, TypeOK, Read
<1>2. next \in Rune /\ Tail(todo) \in Seq(Rune)
  BY <1>1, HeadTailProperties DEF next
<1>3. args \in Seq(Seq(Rune))
  <2>1. Seq(Rune) \ {<<>>} \subseteq Seq(Rune)
    OBVIOUS
  <2> QED BY <1>1, <2>1, SeqMonotonic
<1>4. Len(current) \in Nat /\ <<>> \in Seq(Rune)
  BY <1>1, Lens, EmptySeq
<1>5. Append(current, next) \in Seq(Rune)
  BY <1>1, <1>2, AppendProperties
<1> QED BY <1>1, <1>2, <1>3, <1>4, <1>5

\* NextMark, of the parser as it is.
LEMMA MarkHere ==
    ASSUME IInv, Read, NEW a \in Solid, NEW b \in Solid, NEW p \in Nat, Here(a, b, p)
    PROVE  Tells(p, isEscaped, state, quoteChar, next)
<1>1. /\ Written /\ Span(a, b) /\ a - 1 <= p /\ p + 1 <= b /\ next = command[p + 1].rune
      /\ Lexed(p, isEscaped, state, quoteChar)
  BY DEF Here
<1>2. state \in {"start", "quotes"} /\ quoteChar \in Quote /\ isEscaped \in BOOLEAN /\ next \in Rune
  BY ReadTypes
<1>3. PICK esc \in BOOLEAN, st \in {"start", "quotes"}, q \in Quote, c \in Rune :
        esc = isEscaped /\ st = state /\ q = quoteChar /\ c = next
  BY <1>2
<1>4. Lexed(p, esc, st, q) /\ c = command[p + 1].rune
  BY <1>1, <1>3
<1>5. Tells(p, esc, st, q, c)
  BY <1>1, <1>4, NextMark
<1> QED BY <1>3, <1>5

\* ReadEscaped keeps the invariant.
LEMMA EscapedStep == ASSUME IInv, ReadEscaped PROVE IInv'
<1>0. Read /\ isEscaped
  BY DEF ReadEscaped
<1>1. PICK a, b \in Solid, p \in Nat : Here(a, b, p)
  BY <1>0, AtRune
<1>2. /\ Reading(a, b, p) /\ Written /\ Span(a, b) /\ a - 1 <= p /\ p + 1 <= b
      /\ Ahead(Tail(todo), p + 1, b) /\ next = command[p + 1].rune
      /\ p + 1 <= Len(command) /\ Split(args, current, p) /\ Lexed(p, isEscaped, state, quoteChar)
  BY <1>1 DEF Here
<1>3. /\ next \in Rune /\ Tail(todo) \in Seq(Rune) /\ current \in Seq(Rune)
      /\ args \in Seq(Seq(Rune)) /\ Append(current, next) \in Seq(Rune)
      /\ state \in {"start", "quotes"} /\ quoteChar \in Quote /\ isEscaped \in BOOLEAN
  BY <1>0, ReadTypes
<1>4. p + 1 \in Texts /\ Lexed(p + 1, FALSE, state, quoteChar)
  BY <1>0, <1>1, MarkHere DEF Tells
<1>5. Split(args, Append(current, next), p + 1)
  BY <1>2, <1>3, <1>4, SplitText
<1>6. TypeOK'
  BY <1>3 DEF IInv, TypeOK, ReadEscaped, Read
<1> QED BY <1>0, <1>2, <1>4, <1>5, <1>6, ReadOn DEF ReadEscaped

\* ReadBackslash keeps the invariant.
LEMMA BackslashStep == ASSUME IInv, ReadBackslash PROVE IInv'
<1>0. Read /\ ~isEscaped /\ next = "backslash"
  BY DEF ReadBackslash
<1>1. PICK a, b \in Solid, p \in Nat : Here(a, b, p)
  BY <1>0, AtRune
<1>2. /\ Reading(a, b, p) /\ Written /\ Span(a, b) /\ a - 1 <= p /\ p + 1 <= b
      /\ Ahead(Tail(todo), p + 1, b) /\ next = command[p + 1].rune
      /\ p + 1 <= Len(command) /\ Split(args, current, p) /\ Lexed(p, isEscaped, state, quoteChar)
  BY <1>1 DEF Here
<1>3. /\ next \in Rune /\ Tail(todo) \in Seq(Rune) /\ current \in Seq(Rune)
      /\ args \in Seq(Seq(Rune)) /\ Append(current, next) \in Seq(Rune)
      /\ state \in {"start", "quotes"} /\ quoteChar \in Quote /\ isEscaped \in BOOLEAN
  BY <1>0, ReadTypes
<1>4. /\ Lexed(p + 1, TRUE, state, quoteChar)
      /\ command[p + 1].role \notin {"text", "gap"}
  BY <1>0, <1>1, MarkHere DEF Tells
<1>5. Split(args, current, p + 1)
  BY <1>2, <1>4, SplitQuiet
<1>6. TypeOK'
  BY <1>3 DEF IInv, TypeOK, ReadBackslash, Read
<1> QED BY <1>0, <1>2, <1>4, <1>5, <1>6, ReadOn DEF ReadBackslash

\* ReadInQuotes keeps the invariant.
LEMMA InQuotesStep == ASSUME IInv, ReadInQuotes PROVE IInv'
<1>0. Read /\ ~isEscaped /\ next # "backslash" /\ state = "quotes" /\ isEscaped' = FALSE
  BY DEF ReadInQuotes, ReadBare
<1>1. PICK a, b \in Solid, p \in Nat : Here(a, b, p)
  BY <1>0, AtRune
<1>2. /\ Reading(a, b, p) /\ Written /\ Span(a, b) /\ a - 1 <= p /\ p + 1 <= b
      /\ Ahead(Tail(todo), p + 1, b) /\ next = command[p + 1].rune
      /\ p + 1 <= Len(command) /\ Split(args, current, p) /\ Lexed(p, isEscaped, state, quoteChar)
  BY <1>1 DEF Here
<1>3. /\ next \in Rune /\ Tail(todo) \in Seq(Rune) /\ current \in Seq(Rune)
      /\ args \in Seq(Seq(Rune)) /\ Append(current, next) \in Seq(Rune)
      /\ state \in {"start", "quotes"} /\ quoteChar \in Quote /\ isEscaped \in BOOLEAN
  BY <1>0, ReadTypes
<1>4. CASE next = quoteChar
  <2>1. /\ Lexed(p + 1, FALSE, "start", quoteChar)
        /\ command[p + 1].role \notin {"text", "gap"}
    BY <1>0, <1>1, <1>4, MarkHere DEF Tells
  <2>2. Split(args, current, p + 1)
    BY <1>2, <2>1, SplitQuiet
  <2>3. state' = "start" /\ current' = current /\ args' = args /\ quoteChar' = quoteChar
    BY <1>4 DEF ReadInQuotes
  <2>4. TypeOK'
    BY <1>0, <1>3, <2>3 DEF IInv, TypeOK, Read
  <2> QED BY <1>0, <1>2, <2>1, <2>2, <2>3, <2>4, ReadOn
<1>5. CASE next # quoteChar
  <2>1. p + 1 \in Texts /\ Lexed(p + 1, FALSE, state, quoteChar)
    BY <1>0, <1>1, <1>5, MarkHere DEF Tells
  <2>2. Split(args, Append(current, next), p + 1)
    BY <1>2, <1>3, <2>1, SplitText
  <2>3. /\ state' = state /\ current' = Append(current, next)
        /\ args' = args /\ quoteChar' = quoteChar
    BY <1>5 DEF ReadInQuotes
  <2>4. TypeOK'
    BY <1>0, <1>3, <2>3 DEF IInv, TypeOK, Read
  <2> QED BY <1>0, <1>2, <2>1, <2>2, <2>3, <2>4, ReadOn
<1> QED BY <1>4, <1>5

\* ReadQuote keeps the invariant.
LEMMA QuoteStep == ASSUME IInv, ReadQuote PROVE IInv'
<1>0. Read /\ ~isEscaped /\ next # "backslash" /\ state = "start" /\ next \in Quote /\ isEscaped' = FALSE
  BY DEF ReadQuote, ReadBare
<1>1. PICK a, b \in Solid, p \in Nat : Here(a, b, p)
  BY <1>0, AtRune
<1>2. /\ Reading(a, b, p) /\ Written /\ Span(a, b) /\ a - 1 <= p /\ p + 1 <= b
      /\ Ahead(Tail(todo), p + 1, b) /\ next = command[p + 1].rune
      /\ p + 1 <= Len(command) /\ Split(args, current, p) /\ Lexed(p, isEscaped, state, quoteChar)
  BY <1>1 DEF Here
<1>3. /\ next \in Rune /\ Tail(todo) \in Seq(Rune) /\ current \in Seq(Rune)
      /\ args \in Seq(Seq(Rune)) /\ Append(current, next) \in Seq(Rune)
      /\ state \in {"start", "quotes"} /\ quoteChar \in Quote /\ isEscaped \in BOOLEAN
  BY <1>0, ReadTypes
<1>4. /\ Lexed(p + 1, FALSE, "quotes", next)
      /\ command[p + 1].role \notin {"text", "gap"}
  BY <1>0, <1>1, MarkHere DEF Tells
<1>5. Split(args, current, p + 1)
  BY <1>2, <1>4, SplitQuiet
<1>6. TypeOK'
  BY <1>0, <1>3 DEF IInv, TypeOK, ReadQuote, Read
<1> QED BY <1>0, <1>2, <1>4, <1>5, <1>6, ReadOn DEF ReadQuote

\* ReadPlain keeps the invariant.
LEMMA PlainStep == ASSUME IInv, ReadPlain PROVE IInv'
<1>0. Read /\ ~isEscaped /\ next # "backslash" /\ state = "start" /\ next \notin Quote \cup Blank /\ isEscaped' = FALSE
  BY DEF ReadPlain, ReadBare
<1>1. PICK a, b \in Solid, p \in Nat : Here(a, b, p)
  BY <1>0, AtRune
<1>2. /\ Reading(a, b, p) /\ Written /\ Span(a, b) /\ a - 1 <= p /\ p + 1 <= b
      /\ Ahead(Tail(todo), p + 1, b) /\ next = command[p + 1].rune
      /\ p + 1 <= Len(command) /\ Split(args, current, p) /\ Lexed(p, isEscaped, state, quoteChar)
  BY <1>1 DEF Here
<1>3. /\ next \in Rune /\ Tail(todo) \in Seq(Rune) /\ current \in Seq(Rune)
      /\ args \in Seq(Seq(Rune)) /\ Append(current, next) \in Seq(Rune)
      /\ state \in {"start", "quotes"} /\ quoteChar \in Quote /\ isEscaped \in BOOLEAN
  BY <1>0, ReadTypes
<1>4. p + 1 \in Texts /\ Lexed(p + 1, FALSE, state, quoteChar)
  BY <1>0, <1>1, MarkHere DEF Tells
<1>5. Split(args, Append(current, next), p + 1)
  BY <1>2, <1>3, <1>4, SplitText
<1>6. TypeOK'
  BY <1>0, <1>3 DEF IInv, TypeOK, ReadPlain, Read
<1> QED BY <1>0, <1>2, <1>4, <1>5, <1>6, ReadOn DEF ReadPlain

\* An argument that ended, of the types there are.
LEMMA EndedTypes ==
    ASSUME TypeOK
    PROVE  /\ (IF current # <<>> THEN Append(args, current) ELSE args) = Ended(args, current)
           /\ Ended(args, current) \in Seq(Seq(Rune) \ {<<>>})
           /\ args \in Seq(Seq(Rune)) /\ Len(current) \in Nat
<1>1. current \in Seq(Rune) /\ args \in Seq(Seq(Rune) \ {<<>>})
  BY DEF TypeOK
<1>2. (current # <<>> <=> Len(current) # 0) /\ Len(current) \in Nat
  BY <1>1, EmptySeq, Lens
<1>3. current # <<>> => Append(args, current) \in Seq(Seq(Rune) \ {<<>>})
  BY <1>1, AppendProperties
<1>4. args \in Seq(Seq(Rune))
  <2>1. Seq(Rune) \ {<<>>} \subseteq Seq(Rune)
    OBVIOUS
  <2> QED BY <1>1, <2>1, SeqMonotonic
<1> QED BY <1>1, <1>2, <1>3, <1>4 DEF Ended

\* ReadBlank keeps the invariant.
LEMMA BlankStep == ASSUME IInv, ReadBlank PROVE IInv'
<1>0. Read /\ ~isEscaped /\ next # "backslash" /\ state = "start" /\ next \in Blank /\ isEscaped' = FALSE
  BY DEF ReadBlank, ReadBare
<1>1. PICK a, b \in Solid, p \in Nat : Here(a, b, p)
  BY <1>0, AtRune
<1>2. /\ Reading(a, b, p) /\ Written /\ Span(a, b) /\ a - 1 <= p /\ p + 1 <= b
      /\ Ahead(Tail(todo), p + 1, b) /\ next = command[p + 1].rune
      /\ p + 1 <= Len(command) /\ Split(args, current, p) /\ Lexed(p, isEscaped, state, quoteChar)
  BY <1>1 DEF Here
<1>3. /\ next \in Rune /\ Tail(todo) \in Seq(Rune) /\ current \in Seq(Rune)
      /\ args \in Seq(Seq(Rune)) /\ Append(current, next) \in Seq(Rune)
      /\ state \in {"start", "quotes"} /\ quoteChar \in Quote /\ isEscaped \in BOOLEAN
  BY <1>0, ReadTypes
<1>4. command[p + 1].role = "gap" /\ Lexed(p + 1, FALSE, state, quoteChar)
  BY <1>0, <1>1, MarkHere DEF Tells
<1>5. Split(Ended(args, current), <<>>, p + 1)
  BY <1>2, <1>3, <1>4, SplitGap
<1>6. args' = Ended(args, current) /\ args' \in Seq(Seq(Rune) \ {<<>>})
  BY EndedTypes DEF IInv, ReadBlank
<1>7. TypeOK'
  <2>1. <<>> \in Seq(Rune)
    BY EmptySeq
  <2> QED BY <1>0, <1>3, <1>6, <2>1 DEF IInv, TypeOK, ReadBlank, Read
<1> QED BY <1>0, <1>2, <1>4, <1>5, <1>6, <1>7, ReadOn DEF ReadBlank

\* The invariant holds at the start.
LEMMA StartInv == Init => IInv
<1> SUFFICES ASSUME Init PROVE IInv
  OBVIOUS
<1>1. <<>> \in Seq(Mark) /\ <<>> \in Seq(Rune) /\ <<>> \in Seq(Seq(Rune) \ {<<>>}) /\ Len(<<>>) = 0
  BY EmptySeq
<1>2. TypeOK
  BY <1>1 DEF Init, TypeOK, Quote
<1>3. Written
  <2>1. 1..0 = {}
    OBVIOUS
  <2> QED BY <1>1, <2>1 DEF Init, Written
<1> QED BY <1>2, <1>3 DEF Init, IInv, Untouched, WhenWriting, WhenArrived, WhenLimits, WhenParsing,
                          WhenParsed, WhenAccepted, WhenRefused

\* Write keeps the invariant.
LEMMA WriteStep == ASSUME IInv, Write PROVE IInv'
<1>1. PICK e \in After(IF command = <<>> THEN Begin ELSE Last(command)) : command' = Append(command, e)
  BY DEF Write
<1>2. Written /\ command \in Seq(Mark) /\ Len(command) \in Nat
  BY Lens DEF IInv, Written
<1>3. (IF command = <<>> THEN Begin ELSE Last(command)) = Before(Len(command))
  <2>1. command = <<>> <=> Len(command) = 0
    BY <1>2, EmptySeq
  <2> QED BY <2>1 DEF Before, Last
<1>4. e \in Mark /\ e \in After(Before(Len(command)))
  <2>1. Before(Len(command)) \in Mark
    BY <1>2, BeforeMark
  <2> QED BY <1>1, <1>3, <2>1, AfterIs
<1>5. PICK n \in Nat : n = Len(command)
  BY <1>2
<1>6. /\ command' \in Seq(Mark) /\ Len(command') = n + 1 /\ command'[n + 1] = e
      /\ \A i \in 1..n : command'[i] = command[i]
  BY <1>1, <1>2, <1>4, <1>5, AppendProperties
<1>7. Written'
  <2>1. ASSUME NEW i \in 1..(n + 1)
        PROVE  command'[i] \in After(IF i - 1 = 0 THEN Begin ELSE command'[i - 1])
    <3>1. CASE i = n + 1
      <4>1. (IF i - 1 = 0 THEN Begin ELSE command'[i - 1]) = Before(n)
        BY <1>6, <3>1 DEF Before
      <4> QED BY <1>4, <1>5, <1>6, <3>1, <4>1
    <3>2. CASE i \in 1..n
      <4>1. (IF i - 1 = 0 THEN Begin ELSE command'[i - 1]) = Before(i - 1)
        BY <1>6, <3>2 DEF Before
      <4>2. command[i] \in After(Before(i - 1))
        BY <1>2, <1>5, <3>2 DEF Written
      <4> QED BY <1>6, <3>2, <4>1, <4>2
    <3> QED BY <3>1, <3>2
  <2> QED BY <1>6, <2>1 DEF Written, Before
<1>8. TypeOK'
  BY <1>6 DEF IInv, TypeOK, Write, Parser
<1>9. stage' = "writing" /\ given' = given /\ (Untouched => Untouched')
  BY DEF Write, Parser, Untouched
<1> QED BY <1>7, <1>8, <1>9 DEF Write, IInv, WhenWriting, WhenArrived, WhenLimits, WhenParsing,
                               WhenParsed, WhenAccepted, WhenRefused

\* Send keeps the invariant.
LEMMA SendStep == ASSUME IInv, Send PROVE IInv'
<1>1. /\ stage = "writing" /\ given' \in 0..(MaxArgs + 1) /\ stage' = "arrived" /\ command' = command
      /\ todo' = [i \in DOMAIN command |-> command[i].rune] /\ UNCHANGED Parser
  BY DEF Send
<1>2. Written /\ command \in Seq(Mark) /\ Len(command) \in Nat /\ DOMAIN command = 1..Len(command)
  BY LenProperties DEF IInv, Written
<1>3. \A i \in 1..Len(command) : command[i].rune \in Rune
  <2>1. \A i \in 1..Len(command) : command[i] \in Mark
    BY <1>2, ElementOfSeq
  <2> QED BY <2>1 DEF Mark
<1>4. todo' \in [1..Len(command) -> Rune]
  BY <1>1, <1>2, <1>3
<1>5. todo' \in Seq(Rune) /\ Len(todo') = Len(command)
  BY <1>2, <1>4
<1>6. \A i \in 1..Len(todo') : todo'[i] = command[0 + i].rune
  BY <1>1, <1>2, <1>5
<1>7. Ahead(todo, 0, Len(command))'
  <2>1. Len(todo') = Len(command) - 0
    BY <1>2, <1>5
  <2> QED BY <1>1, <1>6, <2>1 DEF Ahead
<1>8. Untouched'
  BY <1>1 DEF Parser, Untouched, IInv, WhenWriting
<1>9. TypeOK'
  <2>1. given' \in Nat
    BY <1>1, ParsingAssumption
  <2> QED BY <1>1, <1>5, <2>1 DEF IInv, TypeOK, Parser
<1>10. Written'
  BY <1>1, <1>2, SameCommand
<1> QED BY <1>1, <1>7, <1>8, <1>9, <1>10 DEF IInv, WhenWriting, WhenArrived, WhenLimits, WhenParsing,
                                           WhenParsed, WhenAccepted, WhenRefused

\* Trim keeps the invariant.
LEMMA TrimStep == ASSUME IInv, Trim PROVE IInv'
<1>1. /\ stage = "arrived" /\ todo' = TrimSpace(todo) /\ command' = command /\ given' = given
      /\ stage' = IF todo' = <<>> \/ Len(todo') > MaxLength THEN "refused" ELSE "limits"
      /\ UNCHANGED Parser
  BY DEF Trim
<1>2. /\ Written /\ todo \in Seq(Rune) /\ Ahead(todo, 0, Len(command)) /\ Untouched
      /\ Len(command) \in Nat /\ DOMAIN command = 1..Len(command)
  BY <1>1, LenProperties DEF IInv, TypeOK, WhenArrived, Written
<1>3. Len(todo) = Len(command) /\ \A i \in 1..Len(todo) : todo[i] = command[i].rune
  BY <1>2 DEF Ahead
<1>4. \A i : i \in Solid <=> i \in 1..Len(todo) /\ todo[i] \notin White
  BY <1>2, <1>3 DEF Solid
<1>5. Untouched'
  BY <1>1, <1>2 DEF Parser, Untouched
<1>6. CASE Solid = {}
  <2>1. todo' = <<>>
    BY <1>1, <1>2, <1>4, <1>6, Trimmed
  <2>2. ~Fits' /\ stage' = "refused"
    BY <1>1, <1>6, <2>1, SameCommand DEF Fits
  <2>3. ~Usable'
    BY <2>2 DEF Usable, Fits
  <2>4. TypeOK'
    BY <1>1, <2>1, <2>2, EmptySeq DEF IInv, TypeOK, Parser
  <2> QED BY <1>1, <1>2, <2>2, <2>3, <2>4, SameCommand
          DEF IInv, WhenWriting, WhenArrived, WhenLimits, WhenParsing, WhenParsed, WhenAccepted, WhenRefused
<1>7. CASE Solid # {}
  <2>1. \E i \in 1..Len(todo) : todo[i] \notin White
    BY <1>4, <1>7
  <2>2. PICK a, b \in 1..Len(todo) :
          /\ a <= b /\ todo[a] \notin White /\ todo[b] \notin White
          /\ \A i \in 1..Len(todo) : todo[i] \notin White => a <= i /\ i <= b
          /\ TrimSpace(todo) \in Seq(Rune) /\ Len(TrimSpace(todo)) = b - a + 1
          /\ \A i \in 1..(b - a + 1) : TrimSpace(todo)[i] = todo[a + i - 1]
    BY <1>2, <2>1, Trimmed
  <2>3. Span(a, b) /\ a \in Solid /\ b \in Solid
    BY <1>4, <2>2 DEF Span
  <2>4. a \in Nat /\ b \in Nat /\ MaxLength \in Nat
    BY <1>2, <1>3, ParsingAssumption
  <2>5. Ahead(todo', a - 1, b)
    <3>1. Len(todo') = b - (a - 1)
      BY <1>1, <2>2, <2>4
    <3>2. ASSUME NEW i \in 1..Len(todo') PROVE todo'[i] = command[(a - 1) + i].rune
      <4>1. i \in 1..(b - a + 1) /\ a + i - 1 \in 1..Len(todo) /\ a + i - 1 = (a - 1) + i
        BY <1>2, <1>3, <2>2, <2>4, <3>1
      <4>2. todo'[i] = todo[a + i - 1]
        BY <1>1, <2>2, <4>1
      <4> QED BY <1>3, <4>1, <4>2
    <3> QED BY <3>1, <3>2 DEF Ahead
  <2>6. todo' \in Seq(Rune) /\ Len(todo') = b - a + 1 /\ todo' # <<>>
    <3>1. todo' \in Seq(Rune) /\ Len(todo') = b - a + 1 /\ b - a + 1 # 0
      BY <1>1, <2>2, <2>4
    <3>2. Len(<<>>) = 0
      BY EmptySeq
    <3> QED BY <3>1, <3>2, Zenon
  <2>7. stage' = IF Fits THEN "limits" ELSE "refused"
    <3>1. Fits <=> b - a < MaxLength
      BY <1>2, <2>3, FitsIs
    <3> QED BY <1>1, <2>4, <2>6, <3>1
  <2>8. TypeOK'
    BY <1>1, <2>6, <2>7 DEF IInv, TypeOK, Parser
  <2>9. Written' /\ (Fits' <=> Fits) /\ a \in Solid' /\ b \in Solid' /\ Span(a, b)' /\ Ahead(todo, a - 1, b)'
    BY <1>1, <1>2, <2>3, <2>5, SameCommand DEF Ahead
  <2>10. ~Fits' => ~Usable'
    BY DEF Usable, Fits
  <2> QED BY <1>5, <2>7, <2>8, <2>9, <2>10
          DEF IInv, WhenWriting, WhenArrived, WhenLimits, WhenParsing, WhenParsed, WhenAccepted, WhenRefused
<1> QED BY <1>6, <1>7

\* The reading begins with nothing split.
LEMMA BeginReading ==
    ASSUME IInv, NEW a \in Solid, NEW b \in Solid, Span(a, b), Ahead(todo, a - 1, b), Untouched
    PROVE  Reading(a, b, a - 1) /\ a - 1 \in Nat
<1>1. Written
  BY DEF IInv
<1>2. /\ a \in 1..Len(command) /\ b \in 1..Len(command) /\ a <= b /\ Len(command) \in Nat
      /\ Before(a - 1).mode = "bare" /\ Before(a - 1).role # "escape"
  BY <1>1, Margins
<1>3. Lexed(a - 1, isEscaped, state, quoteChar)
  BY <1>2 DEF Lexed, Untouched
<1>4. Split(args, current, a - 1)
  BY <1>1, SplitStart DEF Untouched
<1>5. a - 1 \in (a - 1)..b /\ a - 1 \in Nat
  BY <1>2
<1> QED BY <1>3, <1>4, <1>5 DEF Reading

\* Limits keeps the invariant.
LEMMA LimitsStep == ASSUME IInv, Limits PROVE IInv'
<1>1. /\ stage = "limits" /\ todo' = todo /\ command' = command /\ given' = given
      /\ stage' = IF given > MaxArgs THEN "refused" ELSE IF given = 0 THEN "parsing" ELSE "parsed"
      /\ args' = IF stage' = "parsed" THEN <<todo>> ELSE args
      /\ current' = current /\ state' = state /\ quoteChar' = quoteChar /\ isEscaped' = isEscaped
  BY DEF Limits
<1>2. /\ Written /\ TypeOK /\ Fits /\ Untouched /\ given \in Nat /\ todo \in Seq(Rune)
      /\ MaxArgs \in Nat \ {0}
  BY <1>1, ParsingAssumption DEF IInv, TypeOK, WhenLimits
<1>3. PICK a, b \in Solid : Span(a, b) /\ Ahead(todo, a - 1, b)
  BY <1>1 DEF IInv, WhenLimits
<1>4. /\ a \in 1..Len(command) /\ b \in 1..Len(command) /\ a <= b /\ Len(command) \in Nat
  BY <1>2, <1>3, Margins
<1>5. Written' /\ Fits'
  BY <1>1, <1>2, SameCommand
<1>6. CASE given > MaxArgs
  <2>1. stage' = "refused" /\ args' = args /\ given' > MaxArgs /\ given' > 0
    BY <1>1, <1>2, <1>6
  <2>2. ~Usable'
    BY <1>2, <1>1, <1>6, <2>1 DEF Usable
  <2>3. TypeOK'
    BY <1>1, <1>2, <2>1 DEF TypeOK
  <2> QED BY <1>5, <2>1, <2>2, <2>3
          DEF IInv, WhenWriting, WhenArrived, WhenLimits, WhenParsing, WhenParsed, WhenAccepted, WhenRefused
<1>7. CASE given = 0
  <2>1. stage' = "parsing" /\ args' = args /\ given' = 0
    BY <1>1, <1>2, <1>7
  <2>2. Reading(a, b, a - 1) /\ a - 1 \in Nat
    BY <1>2, <1>3, BeginReading
  <2>3. TypeOK'
    BY <1>1, <1>2, <2>1 DEF TypeOK
  <2>4. Reading(a, b, a - 1)'
    <3>1. Lexed(a - 1, isEscaped, state, quoteChar)' /\ Ahead(todo, a - 1, b)'
      BY <1>1, <2>2, SameCommand DEF Reading, Lexed, Ahead
    <3>2. Split(args, current, a - 1)'
      <4>1. PICK as, cur : as = args /\ cur = current
        OBVIOUS
      <4>2. Split(as, cur, a - 1)
        BY <2>2, <4>1 DEF Reading
      <4> QED BY <1>1, <2>1, <4>1, <4>2, KeptSplit
    <3>3. Span(a, b)'
      BY <1>1, <1>3, SameCommand
    <3> QED BY <2>2, <3>1, <3>2, <3>3 DEF Reading
  <2>5. a \in Solid' /\ b \in Solid'
    BY <1>1, SameCommand
  <2> QED BY <1>5, <2>1, <2>2, <2>3, <2>4, <2>5
          DEF IInv, WhenWriting, WhenArrived, WhenLimits, WhenParsing, WhenParsed, WhenAccepted, WhenRefused
<1>8. CASE given # 0 /\ ~(given > MaxArgs)
  <2>1. stage' = "parsed" /\ args' = <<todo>> /\ given' # 0 /\ given' <= MaxArgs
    BY <1>1, <1>2, <1>8
  <2>2. Len(args') = 1 /\ args'[1] = todo
    BY <2>1
  <2>3. Len(todo) = b - (a - 1) /\ \A i \in 1..Len(todo) : todo[i] = command[(a - 1) + i].rune
    BY <1>3 DEF Ahead
  <2>4. 1 \in 1..Len(todo) /\ todo[1] \notin White
    <3>1. 1 \in 1..Len(todo) /\ (a - 1) + 1 = a
      BY <1>4, <2>3
    <3>2. todo[1] = command[a].rune
      BY <2>3, <3>1
    <3> QED BY <3>1, <3>2 DEF Solid
  <2>5. TrimSpace(todo) # <<>> /\ todo # <<>>
    <3>1. PICK x, y \in 1..Len(todo) : x <= y /\ Len(TrimSpace(todo)) = y - x + 1
      BY <1>2, <2>4, Trimmed
    <3>2. Len(TrimSpace(todo)) # 0 /\ Len(todo) # 0
      BY <1>4, <2>3, <3>1
    <3>3. Len(<<>>) = 0
      BY EmptySeq
    <3> QED BY <3>2, <3>3, Zenon
  <2>6. TypeOK'
    <3>1. args' \in Seq(Seq(Rune) \ {<<>>})
      BY <1>2, <2>1, <2>5
    <3> QED BY <1>1, <1>2, <2>1, <3>1 DEF TypeOK
  <2>7. TrimSpace(args[1])' # <<>>
    BY <2>2, <2>5, Zenon DEF TrimSpace
  <2> QED BY <1>5, <2>1, <2>2, <2>6, <2>7
          DEF IInv, WhenWriting, WhenArrived, WhenLimits, WhenParsing, WhenParsed, WhenAccepted, WhenRefused
<1> QED BY <1>6, <1>7, <1>8

\* Arguments that hold every text do so while the command stays the same.
LEMMA KeptFilled ==
    ASSUME command' = command, NEW as, args' = as, Filled(as, Texts) PROVE Filled(args, Texts)'
<1>1. Texts' = Texts /\ \A i : Word(i)' = Word(i) /\ Place(i)' = Place(i)
  BY SameCommand
<1>2. \A k : {i \in Texts : Word(i) = k}' = {i \in Texts : Word(i) = k}
  BY <1>1
<1>3. ASSUME NEW i \in Texts'
      PROVE  /\ Word(i)' \in 1..Len(args') /\ Place(i)' \in 1..Len(args'[Word(i)'])
             /\ args'[Word(i)'][Place(i)'] = command'[i].rune
  <2>1. /\ Word(i) \in 1..Len(as) /\ Place(i) \in 1..Len(as[Word(i)])
        /\ as[Word(i)][Place(i)] = command[i].rune
    BY <1>1 DEF Filled
  <2> QED BY <1>1, <2>1, Zenon
<1>4. ASSUME NEW k \in 1..Len(args')
      PROVE  /\ Len(args'[k]) = Cardinality({i \in Texts : Word(i) = k}')
             /\ \A n \in 1..Len(args'[k]) : \E i \in Texts' : Word(i)' = k /\ Place(i)' = n
  <2>1. /\ Len(as[k]) = Cardinality({i \in Texts : Word(i) = k})
        /\ \A n \in 1..Len(as[k]) : \E i \in Texts : Word(i) = k /\ Place(i) = n
    BY <1>4 DEF Filled
  <2> QED BY <1>1, <1>2, <2>1, Zenon
<1> QED BY <1>3, <1>4 DEF Filled

\* So do arguments that are meant.
LEMMA KeptMeant == ASSUME command' = command, args' = args, Meant(args) PROVE Meant(args)'
<1>1. Texts' = Texts /\ Heads' = Heads /\ \A i : Word(i)' = Word(i) /\ Place(i)' = Place(i)
  BY SameCommand
<1>2. \A k : {i \in Texts : Word(i) = k}' = {i \in Texts : Word(i) = k}
  BY <1>1
<1>3. Len(args') = Cardinality(Heads')
  BY <1>1 DEF Meant
<1>4. ASSUME NEW k \in DOMAIN args' PROVE Len(args'[k]) = Cardinality({i \in Texts : Word(i) = k}')
  BY <1>2 DEF Meant
<1>5. ASSUME NEW i \in Texts' PROVE args'[Word(i)'][Place(i)'] = command'[i].rune
  <2>1. args[Word(i)][Place(i)] = command[i].rune
    BY <1>1 DEF Meant
  <2> QED BY <1>1, <2>1, Zenon
<1> QED BY <1>3, <1>4, <1>5 DEF Meant

\* Finish keeps the invariant.
LEMMA FinishStep == ASSUME IInv, Finish PROVE IInv'
<1>1. /\ stage = "parsing" /\ todo = <<>> /\ todo' = todo /\ command' = command /\ given' = given
      /\ current' = current /\ state' = state /\ quoteChar' = quoteChar /\ isEscaped' = isEscaped
      /\ IF state = "quotes" THEN stage' = "refused" /\ args' = args
         ELSE /\ stage' = "parsed"
              /\ args' = IF current # <<>> THEN Append(args, current) ELSE args
  BY DEF Finish
<1>2. Written /\ TypeOK /\ Fits /\ given = 0 /\ current \in Seq(Rune)
  BY <1>1 DEF IInv, TypeOK, WhenParsing
<1>3. PICK a, b \in Solid, p \in Nat : Reading(a, b, p)
  BY <1>1 DEF IInv, WhenParsing
<1>4. /\ Span(a, b) /\ p \in (a - 1)..b /\ Ahead(todo, p, b)
      /\ Lexed(p, isEscaped, state, quoteChar) /\ Split(args, current, p)
  BY <1>3 DEF Reading
<1>5. b \in Nat /\ p = b
  <2>1. a \in Nat /\ b \in Nat
    BY <1>2, <1>4, Margins
  <2>2. Len(todo) = 0 /\ Len(todo) = b - p
    BY <1>1, <1>4, EmptySeq DEF Ahead
  <2> QED BY <2>1, <2>2
<1>6. state = "quotes" <=> ~Closed
  <2>1. state = "quotes" <=> Before(b).mode # "bare"
    BY <1>4, <1>5 DEF Lexed
  <2>2. Closed <=> Before(b).mode = "bare"
    BY <1>2, <1>4, FitsIs
  <2> QED BY <2>1, <2>2
<1>7. Written' /\ Fits' /\ (Closed' <=> Closed)
  BY <1>1, <1>2, SameCommand
<1>8. CASE state = "quotes"
  <2>1. stage' = "refused" /\ args' = args /\ ~Closed'
    BY <1>1, <1>6, <1>7, <1>8
  <2>2. ~Usable'
    BY <1>1, <1>2, <2>1 DEF Usable
  <2>3. TypeOK'
    BY <1>1, <1>2, <2>1 DEF TypeOK
  <2> QED BY <1>7, <2>1, <2>2, <2>3
          DEF IInv, WhenWriting, WhenArrived, WhenLimits, WhenParsing, WhenParsed, WhenAccepted, WhenRefused
<1>9. CASE state # "quotes"
  <2>1. stage' = "parsed" /\ args' = Ended(args, current) /\ args' \in Seq(Seq(Rune) \ {<<>>})
    <3>1. stage' = "parsed" /\ args' = IF current # <<>> THEN Append(args, current) ELSE args
      BY <1>1, <1>9
    <3>2. TypeOK
      BY <1>2
    <3> QED BY <3>1, <3>2, EndedTypes, Zenon
  <2>2. Filled(Ended(args, current), Texts) /\ Len(Ended(args, current)) = Cardinality(Heads)
    BY <1>2, <1>4, <1>5, SplitFinish, EndedTypes
  <2>3. PICK as : as = args' /\ Filled(as, Texts) /\ Len(as) = Cardinality(Heads)
    BY <2>1, <2>2
  <2>4. Filled(args, Texts)' /\ Len(args') = Cardinality(Heads')
    BY <1>1, <2>3, KeptFilled, SameCommand
  <2>5. TypeOK'
    BY <1>1, <1>2, <2>1 DEF TypeOK
  <2>6. Closed' /\ given' = 0
    BY <1>1, <1>2, <1>6, <1>7, <1>9
  <2> QED BY <1>7, <2>1, <2>4, <2>5, <2>6
          DEF IInv, WhenWriting, WhenArrived, WhenLimits, WhenParsing, WhenParsed, WhenAccepted, WhenRefused
<1> QED BY <1>8, <1>9

\* Decide keeps the invariant.
LEMMA DecideStep == ASSUME IInv, Decide PROVE IInv'
<1>1. /\ stage = "parsed" /\ command' = command /\ given' = given /\ todo' = todo /\ UNCHANGED Parser
      /\ stage' = IF Len(args) \in 1..MaxArgs /\ TrimSpace(args[1]) # <<>> THEN "accepted" ELSE "refused"
  BY DEF Decide
<1>2. /\ Written /\ TypeOK /\ Fits /\ given \in Nat /\ MaxArgs \in Nat \ {0}
      /\ args \in Seq(Seq(Rune)) /\ Len(args) \in Nat
  BY <1>1, EndedTypes, ParsingAssumption, Lens DEF IInv, TypeOK, WhenParsed
<1>3. /\ given = 0 => Closed /\ Filled(args, Texts) /\ Len(args) = Cardinality(Heads)
      /\ given # 0 => given <= MaxArgs /\ Len(args) = 1 /\ TrimSpace(args[1]) # <<>>
  BY <1>1 DEF IInv, WhenParsed
<1>4. Usable <=> Len(args) \in 1..MaxArgs /\ TrimSpace(args[1]) # <<>>
  <2>1. CASE given = 0
    <3>1. Usable <=> /\ Cardinality(Heads) \in 1..MaxArgs
                     /\ \E i \in Texts : Word(i) = 1 /\ command[i].rune \notin White
      BY <1>2, <1>3, <2>1 DEF Usable, Fits
    <3>2. Len(args) \in 1..MaxArgs => 1 \in 1..Len(args)
      BY <1>2
    <3> QED BY <1>2, <1>3, <2>1, <3>1, <3>2, Named
  <2>2. CASE given # 0
    <3>1. given > 0 /\ 1 \in 1..MaxArgs
      <4>1. given \in Nat /\ MaxArgs \in Nat \ {0}
        BY <1>2
      <4> QED BY <2>2, <4>1
    <3>2. Len(args) = 1 /\ given <= MaxArgs /\ TrimSpace(args[1]) # <<>>
      BY <1>3, <2>2
    <3> QED BY <1>2, <3>1, <3>2 DEF Usable, Fits
  <2> QED BY <2>1, <2>2
<1>5. given = 0 => Meant(args)
  BY <1>2, <1>3, FilledMeans
<1>6. Written' /\ (Usable' <=> Usable)
  BY <1>1, <1>2, SameCommand, SameUsable
<1>7. TypeOK'
  BY <1>1, <1>2 DEF TypeOK, Parser
<1>8. Meant(args) => Meant(args)'
  BY <1>1, KeptMeant DEF Parser
<1> QED BY <1>1, <1>4, <1>5, <1>6, <1>7, <1>8
        DEF IInv, WhenWriting, WhenArrived, WhenLimits, WhenParsing, WhenParsed, WhenAccepted, WhenRefused

\* A step that changes nothing keeps it.
LEMMA IdleStep == ASSUME IInv, UNCHANGED vars PROVE IInv'
<1>1. /\ command' = command /\ given' = given /\ stage' = stage /\ todo' = todo
      /\ args' = args /\ current' = current /\ state' = state /\ quoteChar' = quoteChar
      /\ isEscaped' = isEscaped
  BY DEF vars, Parser
<1>2. TypeOK' /\ Written' /\ (Fits' <=> Fits) /\ (Untouched' <=> Untouched) /\ (Closed' <=> Closed)
  BY <1>1, SameCommand DEF IInv, TypeOK, Untouched
<1>3. WhenWriting' /\ WhenArrived' /\ WhenLimits'
  BY <1>1, <1>2, SameCommand DEF IInv, WhenWriting, WhenArrived, WhenLimits, Ahead
<1>4. WhenParsing'
  <2> SUFFICES ASSUME stage = "parsing" PROVE WhenParsing'
    BY <1>1 DEF WhenParsing
  <2>1. PICK a, b \in Solid, p \in Nat : Reading(a, b, p)
    BY DEF IInv, WhenParsing
  <2>2. PICK as, cur : as = args /\ cur = current
    OBVIOUS
  <2>3. Split(args, current, p)'
    <3>1. Split(as, cur, p)
      BY <2>1, <2>2 DEF Reading
    <3> QED BY <1>1, <2>2, <3>1, KeptSplit
  <2>4. Lexed(p, isEscaped, state, quoteChar)' /\ Ahead(todo, p, b)' /\ Span(a, b)'
    BY <1>1, <2>1, SameCommand DEF Reading, Lexed, Ahead
  <2>5. Reading(a, b, p)' /\ a \in Solid' /\ b \in Solid'
    BY <1>1, <2>1, <2>3, <2>4, SameCommand DEF Reading
  <2> QED BY <1>1, <1>2, <2>5 DEF IInv, WhenParsing
<1>5. WhenParsed'
  <2>1. PICK as : as = args
    OBVIOUS
  <2>2. Filled(args, Texts) => Filled(args, Texts)'
    BY <1>1, <2>1, KeptFilled
  <2>3. TrimSpace(args[1])' = TrimSpace(args[1])
    BY <1>1 DEF TrimSpace
  <2> QED BY <1>1, <1>2, <2>2, <2>3, SameCommand DEF IInv, WhenParsed
<1>6. WhenAccepted' /\ WhenRefused'
  BY <1>1, SameUsable, KeptMeant DEF IInv, WhenAccepted, WhenRefused
<1> QED BY <1>2, <1>3, <1>4, <1>5, <1>6 DEF IInv

\* Every state of every behaviour satisfies the invariant.
THEOREM Invariant == Spec => []IInv
<1>1. IInv /\ [Next]_vars => IInv'
  <2> SUFFICES ASSUME IInv, [Next]_vars PROVE IInv'
    OBVIOUS
  <2>1. CASE Write
    BY <2>1, WriteStep
  <2>2. CASE Send
    BY <2>2, SendStep
  <2>3. CASE Trim
    BY <2>3, TrimStep
  <2>4. CASE Limits
    BY <2>4, LimitsStep
  <2>5. CASE ParseCommand
    BY <2>5, EscapedStep, BackslashStep, InQuotesStep, QuoteStep, BlankStep, PlainStep, FinishStep
       DEF ParseCommand
  <2>6. CASE Decide
    BY <2>6, DecideStep
  <2>7. CASE UNCHANGED vars
    BY <2>7, IdleStep
  <2> QED BY <2>1, <2>2, <2>3, <2>4, <2>5, <2>6, <2>7 DEF Next
<1> QED BY StartInv, <1>1, PTL DEF Spec

\* ParseCommand's variables always have their types (parser.go:11-24).
THEOREM TypeCorrect == Spec => []TypeOK
<1>1. IInv => TypeOK
  BY DEF IInv
<1> QED BY Invariant, <1>1, PTL

\* Whatever quotes, escapes and blanks a command of any length is written with,
\* ParseCommand finds the arguments that are meant (parser.go:11-66).
THEOREM ParsesAsMeant == Spec => []ParsedAsMeant
<1>1. IInv => ParsedAsMeant
  <2> SUFFICES ASSUME IInv, stage \in {"parsed", "accepted"}, given = 0 PROVE Meant(args)
    BY DEF ParsedAsMeant
  <2>1. CASE stage = "accepted"
    BY <2>1 DEF IInv, WhenAccepted
  <2>2. CASE stage = "parsed"
    BY <2>2, FilledMeans DEF IInv, TypeOK, WhenParsed
  <2> QED BY <2>1, <2>2
<1> QED BY Invariant, <1>1, PTL

\* A request is accepted exactly when it is usable, whatever the limits are
\* (service/exec.go:47-89).
THEOREM AcceptsUsable == Spec => []AcceptedIffUsable
<1>1. IInv => AcceptedIffUsable
  BY DEF IInv, WhenAccepted, WhenRefused, AcceptedIffUsable
<1> QED BY Invariant, <1>1, PTL

-----------------------------------------------------------------------------
(* The marks leave no command out.                                         *)

\* After every mark, every rune can be written.
LEMMA Continues == ASSUME NEW e \in Mark, NEW c \in Rune PROVE \E f \in After(e) : f.rune = c
<1>0. e.mode \in Quote \cup {"bare"}
  BY DEF Mark
<1>1. CASE e.role = "escape"
  <2>1. M(c, "text", e.mode) \in After(e)
    BY <1>1 DEF After
  <2> QED BY <2>1 DEF M
<1>2. CASE e.role # "escape" /\ c = "backslash"
  <2>1. M("backslash", "escape", e.mode) \in After(e)
    BY <1>2 DEF After
  <2> QED BY <1>2, <2>1 DEF M
<1>3. CASE e.role # "escape" /\ c # "backslash" /\ e.mode = "bare"
  <2>1. \E f \in Bare : f.rune = c
    <3>1. CASE c \in {"letter", "newline"}
      <4>1. M(c, "text", "bare") \in Bare
        BY <3>1 DEF Bare
      <4> QED BY <4>1 DEF M
    <3>2. CASE c \in Blank
      <4>1. M(c, "gap", "bare") \in Bare
        BY <3>2 DEF Bare
      <4> QED BY <4>1 DEF M
    <3>3. CASE c \in Quote
      <4>1. M(c, "quote", c) \in Bare
        BY <3>3 DEF Bare
      <4> QED BY <4>1 DEF M
    <3> QED BY <1>3, <3>1, <3>2, <3>3 DEF Rune, White
  <2> QED BY <1>3, <2>1 DEF After
<1>4. CASE e.role # "escape" /\ c # "backslash" /\ e.mode # "bare"
  <2>1. \E f \in Inside(e.mode) : f.rune = c
    <3>1. CASE c = e.mode
      <4>1. M(e.mode, "quote", "bare") \in Inside(e.mode)
        BY DEF Inside
      <4> QED BY <3>1, <4>1 DEF M
    <3>2. CASE c # e.mode
      <4>1. M(c, "text", e.mode) \in Inside(e.mode)
        BY <1>4, <3>2 DEF Inside
      <4> QED BY <4>1 DEF M
    <3> QED BY <3>1, <3>2
  <2> QED BY <1>4, <2>1 DEF After
<1> QED BY <1>1, <1>2, <1>3, <1>4

\* m is what Write can write to spell the n runes of s.
Spells(m, s, n) ==
    \A i \in 1..n : m[i].rune = s[i] /\ m[i] \in After(IF i = 1 THEN Begin ELSE m[i - 1])

\* Every sequence of runes can be written as marks, one after another, so
\* that nothing the client may send (model/request.go:27-35) is left out.
THEOREM EveryCommand ==
    \A n \in Nat : \A s \in [1..n -> Rune] : \E m \in [1..n -> Mark] : Spells(m, s, n)
<1> DEFINE S == {n \in Nat : \A s \in [1..n -> Rune] : \E m \in [1..n -> Mark] : Spells(m, s, n)}
<1>1. 0 \in S
  <2>1. 1..0 = {}
    OBVIOUS
  <2>2. ASSUME NEW s PROVE \E m \in [1..0 -> Mark] : Spells(m, s, 0)
    <3>1. [i \in 1..0 |-> Begin] \in [1..0 -> Mark]
      BY <2>1
    <3>2. Spells([i \in 1..0 |-> Begin], s, 0)
      BY <2>1 DEF Spells
    <3> QED BY <3>1, <3>2
  <2> QED BY <2>2
<1>2. ASSUME NEW n \in Nat, n \in S PROVE n + 1 \in S
  <2> SUFFICES ASSUME NEW s \in [1..(n + 1) -> Rune]
               PROVE  \E m \in [1..(n + 1) -> Mark] : Spells(m, s, n + 1)
    OBVIOUS
  <2>1. PICK t : t \in [1..n -> Rune] /\ \A i \in 1..n : t[i] = s[i]
    <3>1. PICK t : t = [i \in 1..n |-> s[i]]
      OBVIOUS
    <3>2. t \in [1..n -> Rune] /\ \A i \in 1..n : t[i] = s[i]
      BY <3>1
    <3> QED BY <3>2
  <2>2. PICK m \in [1..n -> Mark] : Spells(m, t, n)
    BY <1>2, <2>1
  <2>3. PICK e \in Mark : e = IF n = 0 THEN Begin ELSE m[n]
    <3>1. Begin \in Mark
      BY DEF Begin, M, Mark, Rune, White, Blank
    <3>2. n # 0 => m[n] \in Mark
      OBVIOUS
    <3> QED BY <3>1, <3>2
  <2>4. PICK f \in After(e) : f.rune = s[n + 1]
    <3>1. s[n + 1] \in Rune
      OBVIOUS
    <3> QED BY <3>1, Continues
  <2>5. f \in Mark
    BY AfterIs
  <2>6. PICK w : w = [i \in 1..(n + 1) |-> IF i = n + 1 THEN f ELSE m[i]]
    OBVIOUS
  <2>7. w \in [1..(n + 1) -> Mark] /\ w[n + 1] = f /\ \A i \in 1..n : w[i] = m[i]
    BY <2>5, <2>6
  <2>8. ASSUME NEW i \in 1..(n + 1)
        PROVE  w[i].rune = s[i] /\ w[i] \in After(IF i = 1 THEN Begin ELSE w[i - 1])
    <3>1. CASE i = n + 1
      <4>1. (IF i = 1 THEN Begin ELSE w[i - 1]) = e
        BY <2>3, <2>7, <3>1
      <4> QED BY <2>4, <2>7, <3>1, <4>1
    <3>2. CASE i \in 1..n
      <4>1. m[i].rune = s[i] /\ m[i] \in After(IF i = 1 THEN Begin ELSE m[i - 1])
        BY <2>1, <2>2, <3>2 DEF Spells
      <4>2. (IF i = 1 THEN Begin ELSE w[i - 1]) = IF i = 1 THEN Begin ELSE m[i - 1]
        BY <2>7, <3>2
      <4> QED BY <2>7, <3>2, <4>1, <4>2
    <3> QED BY <3>1, <3>2
  <2>9. Spells(w, s, n + 1)
    BY <2>8 DEF Spells
  <2> QED BY <2>7, <2>9
<1>3. Nat \subseteq S
  <2> HIDE DEF S
  <2> QED BY <1>1, <1>2, Induction
<1> QED BY <1>3
=============================================================================

---------------------------- MODULE Frames_proofs ----------------------------
(***************************************************************************)
(* Lemmas about frames: what the length of a list of elements adds up to,  *)
(* and what pushing and popping an element do to it.                       *)
(***************************************************************************)
EXTENDS Frames, Integers, WellFoundedInduction, TLAPS

-----------------------------------------------------------------------------
(* Induction, from the well-foundedness of the naturals                    *)

LEMMA Least ==
  ASSUME NEW T, T \subseteq Nat, T # {}
  PROVE  \E n \in T : \A m \in T : n <= m
  <1> DEFINE R == OpToRel(<, Nat)
  <1>1. IsWellFoundedOn(R, Nat)
    BY NatLessThanWellFounded
  <1>2. \A x, y \in Nat : x < y => <<x, y>> \in R
    BY DEF OpToRel
  <1> HIDE DEF R
  <1>3. PICK n \in T : \A m \in T : ~(<<m, n>> \in R)
    BY <1>1, WFMin
  <1>4. \A m \in T : ~(m < n)
    BY <1>2, <1>3
  <1> QED
    BY <1>3, <1>4

LEMMA SetInduction ==
  ASSUME NEW S, 0 \in S, \A n \in Nat : n \in S => n + 1 \in S
  PROVE  Nat \subseteq S
  <1> DEFINE T == Nat \ S
  <1>1. SUFFICES ASSUME T # {} PROVE FALSE
    OBVIOUS
  <1>2. PICK n \in T : \A m \in T : n <= m
    BY <1>1, Least
  <1>3. n - 1 \in Nat /\ n - 1 \in S
    BY <1>2
  <1> QED
    BY <1>2, <1>3

-----------------------------------------------------------------------------
(* The length of a list of elements                                        *)

\* The sums of the lengths of the first i elements, up to n.
SumsTo(g, s, n) == g = [i \in 0..n |-> IF i = 0 THEN 0 ELSE g[i - 1] + s[i].length]
Sums(s) == CHOOSE g : SumsTo(g, s, Len(s))

LEMMA TotalIsSum ==
  ASSUME NEW s
  PROVE  TotalLength(s) = Sums(s)[Len(s)]
  BY DEF TotalLength, Sums, SumsTo

LEMMA SumsExist ==
  ASSUME NEW s, NEW n \in Nat
  PROVE  \E g : SumsTo(g, s, n)
  <1> DEFINE S == {m \in Nat : \E g : SumsTo(g, s, m)}
  <1>1. 0 \in S
    <2>1. SumsTo([i \in 0..0 |-> 0], s, 0)
      BY DEF SumsTo
    <2> QED
      BY <2>1
  <1>2. ASSUME NEW m \in Nat, m \in S PROVE m + 1 \in S
    <2>1. PICK g : SumsTo(g, s, m)
      BY <1>2
    <2> DEFINE h == [i \in 0..(m + 1) |-> IF i <= m THEN g[i] ELSE g[m] + s[m + 1].length]
    <2>2. \A i \in 0..m : g[i] = IF i = 0 THEN 0 ELSE g[i - 1] + s[i].length
      BY <2>1 DEF SumsTo
    <2>3. ASSUME NEW i \in 0..(m + 1)
          PROVE  h[i] = IF i = 0 THEN 0 ELSE h[i - 1] + s[i].length
      <3>1. CASE i <= m
        BY <2>2, <3>1
      <3>2. CASE i = m + 1
        BY <3>2
      <3> QED
        BY <3>1, <3>2
    <2>4. h = [i \in 0..(m + 1) |-> h[i]]
      OBVIOUS
    <2> HIDE DEF h
    <2>5. SumsTo(h, s, m + 1)
      BY <2>3, <2>4 DEF SumsTo
    <2> QED
      BY <2>5
  <1> QED
    BY <1>1, <1>2, SetInduction

LEMMA SumsEquation ==
  ASSUME NEW s, Len(s) \in Nat
  PROVE  \A i \in 0..Len(s) :
            Sums(s)[i] = IF i = 0 THEN 0 ELSE Sums(s)[i - 1] + s[i].length
  <1>1. SumsTo(Sums(s), s, Len(s))
    BY SumsExist DEF Sums
  <1> QED
    BY <1>1 DEF SumsTo

LEMMA SumsNext ==
  ASSUME NEW s, Len(s) \in Nat, NEW i \in Nat, i + 1 <= Len(s)
  PROVE  Sums(s)[i + 1] = Sums(s)[i] + s[i + 1].length
  <1>1. i + 1 \in 0..Len(s) /\ i + 1 # 0 /\ (i + 1) - 1 = i
    OBVIOUS
  <1> QED
    BY <1>1, SumsEquation

LEMMA SumsNat ==
  ASSUME NEW T, \A e \in T : e.length \in Nat, NEW s \in Seq(T)
  PROVE  \A i \in 0..Len(s) : Sums(s)[i] \in Nat
  <1> DEFINE S == {i \in Nat : i <= Len(s) => Sums(s)[i] \in Nat}
  <1>1. 0 \in S
    BY SumsEquation
  <1>2. ASSUME NEW i \in Nat, i \in S PROVE i + 1 \in S
    <2>1. i + 1 <= Len(s) => Sums(s)[i + 1] = Sums(s)[i] + s[i + 1].length
      BY SumsNext
    <2>2. i + 1 <= Len(s) => s[i + 1] \in T
      OBVIOUS
    <2> QED
      BY <1>2, <2>1, <2>2
  <1> HIDE DEF S
  <1>3. Nat \subseteq S
    BY <1>1, <1>2, SetInduction
  <1> QED
    BY <1>3 DEF S

\* Elements pushed later do not change the sums before them.
LEMMA SumsAppend ==
  ASSUME NEW s, NEW t, Len(s) \in Nat, Len(t) = Len(s) + 1,
         \A i \in 1..Len(s) : t[i] = s[i]
  PROVE  \A i \in 0..Len(s) : Sums(t)[i] = Sums(s)[i]
  <1> DEFINE S == {i \in Nat : i <= Len(s) => Sums(t)[i] = Sums(s)[i]}
  <1>1. 0 \in S
    BY SumsEquation
  <1>2. ASSUME NEW i \in Nat, i \in S PROVE i + 1 \in S
    <2> SUFFICES ASSUME i + 1 <= Len(s) PROVE Sums(t)[i + 1] = Sums(s)[i + 1]
      OBVIOUS
    <2>0. Len(t) \in Nat /\ i + 1 <= Len(t)
      OBVIOUS
    <2>1. Sums(t)[i + 1] = Sums(t)[i] + t[i + 1].length
      BY <2>0, SumsNext
    <2>2. Sums(s)[i + 1] = Sums(s)[i] + s[i + 1].length
      BY SumsNext
    <2> QED
      BY <1>2, <2>1, <2>2
  <1> HIDE DEF S
  <1>3. Nat \subseteq S
    BY <1>1, <1>2, SetInduction
  <1> QED
    BY <1>3 DEF S

LEMMA TotalLengthEmpty == TotalLength(<< >>) = 0
  BY TotalIsSum, SumsEquation

LEMMA TotalLengthNat ==
  ASSUME NEW T, \A e \in T : e.length \in Nat, NEW s \in Seq(T)
  PROVE  TotalLength(s) \in Nat
  BY TotalIsSum, SumsNat

\* The elements are at least as long as the first of them.
LEMMA TotalLengthFirst ==
  ASSUME NEW T, \A e \in T : e.length \in Nat, NEW s \in Seq(T), Len(s) >= 1
  PROVE  TotalLength(s) >= s[1].length
  <1> DEFINE S == {i \in Nat : i + 1 <= Len(s) => Sums(s)[i + 1] >= s[1].length}
  <1>0. Len(s) \in Nat /\ s[1].length \in Nat /\ 0 + 1 = 1 /\ 0 \in Nat /\ 0 + 1 <= Len(s)
    OBVIOUS
  <1>1. 0 \in S
    <2>1. Sums(s)[0 + 1] = Sums(s)[0] + s[0 + 1].length
      BY <1>0, SumsNext
    <2>2. Sums(s)[0] = 0
      BY <1>0, SumsEquation
    <2> QED
      BY <1>0, <2>1, <2>2
  <1>2. ASSUME NEW i \in Nat, i \in S PROVE i + 1 \in S
    <2> SUFFICES ASSUME (i + 1) + 1 <= Len(s) PROVE Sums(s)[(i + 1) + 1] >= s[1].length
      OBVIOUS
    <2>1. Sums(s)[(i + 1) + 1] = Sums(s)[i + 1] + s[(i + 1) + 1].length
      BY <1>0, SumsNext
    <2>2. Sums(s)[i + 1] >= s[1].length /\ Sums(s)[i + 1] \in Nat
      BY <1>0, <1>2, SumsNat
    <2>3. s[(i + 1) + 1].length \in Nat
      OBVIOUS
    <2> QED
      BY <1>0, <2>1, <2>2, <2>3
  <1> HIDE DEF S
  <1>3. Nat \subseteq S
    BY <1>1, <1>2, SetInduction
  <1>4. Len(s) - 1 \in S /\ (Len(s) - 1) + 1 = Len(s)
    BY <1>0, <1>3
  <1> QED
    BY <1>0, <1>4, TotalIsSum DEF S

LEMMA TotalLengthAppend ==
  ASSUME NEW T, \A e \in T : e.length \in Nat, NEW s \in Seq(T), NEW e \in T
  PROVE  TotalLength(Append(s, e)) = TotalLength(s) + e.length
  <1> DEFINE t == Append(s, e)
  <1>1. t \in Seq(T) /\ Len(t) = Len(s) + 1 /\ t[Len(s) + 1] = e
        /\ \A i \in 1..Len(s) : t[i] = s[i]
    OBVIOUS
  <1> HIDE DEF t
  <1>2. Sums(t)[Len(s) + 1] = Sums(t)[Len(s)] + e.length
    BY <1>1, SumsNext
  <1>3. Sums(t)[Len(s)] = Sums(s)[Len(s)]
    BY <1>1, SumsAppend
  <1>4. TotalLength(t) = TotalLength(s) + e.length
    BY <1>1, <1>2, <1>3, TotalIsSum
  <1> QED
    BY <1>4 DEF t

\* The length of the elements from the first-th on, one more of them.
LEMMA TotalLengthUpTo ==
  ASSUME NEW T, \A e \in T : e.length \in Nat, NEW s \in Seq(T),
         NEW first \in 1..Len(s), NEW i \in first..Len(s)
  PROVE  /\ SubSeq(s, first, i - 1) \in Seq(T)
         /\ TotalLength(SubSeq(s, first, i))
              = TotalLength(SubSeq(s, first, i - 1)) + s[i].length
  <1>1. SubSeq(s, first, i - 1) \in Seq(T) /\ s[i] \in T
    OBVIOUS
  <1>2. SubSeq(s, first, i) = Append(SubSeq(s, first, i - 1), s[i])
    OBVIOUS
  <1> QED
    BY <1>1, <1>2, TotalLengthAppend

\* The length of one element, and of two lists of elements one after the other.
LEMMA TotalLengthOne ==
  ASSUME NEW T, \A e \in T : e.length \in Nat, NEW e \in T
  PROVE  TotalLength(<<e>>) = e.length
  <1>1. << >> \in Seq(T) /\ Append(<< >>, e) = <<e>>
    OBVIOUS
  <1>2. TotalLength(Append(<< >>, e)) = TotalLength(<< >>) + e.length
    BY <1>1, TotalLengthAppend
  <1> QED
    BY <1>1, <1>2, TotalLengthEmpty

LEMMA TotalLengthConcat ==
  ASSUME NEW T, \A e \in T : e.length \in Nat, NEW s \in Seq(T), NEW t \in Seq(T)
  PROVE  s \o t \in Seq(T) /\ TotalLength(s \o t) = TotalLength(s) + TotalLength(t)
  <1> DEFINE u == s \o t
             m == Len(s)
             n == Len(t)
             A == {i \in Nat : i <= m => Sums(u)[i] = Sums(s)[i]}
             B == {i \in Nat : i <= n => Sums(u)[m + i] = Sums(s)[m] + Sums(t)[i]}
  <1>1. /\ u \in Seq(T) /\ Len(u) = m + n /\ m \in Nat /\ n \in Nat
        /\ \A i \in 1..m : u[i] = s[i]
        /\ \A i \in 1..n : u[m + i] = t[i]
    OBVIOUS
  <1>2. /\ \A i \in 0..m : Sums(s)[i] \in Nat
        /\ \A i \in 0..n : Sums(t)[i] \in Nat
        /\ \A i \in 1..n : t[i].length \in Nat
    BY SumsNat
  <1> HIDE DEF u, m, n
  <1>3. Len(s) \in Nat /\ Len(t) \in Nat /\ Len(u) \in Nat /\ Len(s) = m /\ Len(t) = n
    BY <1>1 DEF m, n
  <1>4. Sums(u)[0] = 0 /\ Sums(s)[0] = 0 /\ Sums(t)[0] = 0
    <2>1. /\ \A i \in 0..Len(u) : Sums(u)[i] = IF i = 0 THEN 0 ELSE Sums(u)[i - 1] + u[i].length
          /\ \A i \in 0..Len(s) : Sums(s)[i] = IF i = 0 THEN 0 ELSE Sums(s)[i - 1] + s[i].length
          /\ \A i \in 0..Len(t) : Sums(t)[i] = IF i = 0 THEN 0 ELSE Sums(t)[i - 1] + t[i].length
      BY <1>3, SumsEquation
    <2>2. 0 \in 0..Len(u) /\ 0 \in 0..Len(s) /\ 0 \in 0..Len(t)
      BY <1>3
    <2> QED
      BY <2>1, <2>2
  <1>5. Nat \subseteq A
    <2>1. 0 \in A
      BY <1>4
    <2>2. ASSUME NEW i \in Nat, i \in A PROVE i + 1 \in A
      <3> SUFFICES ASSUME i + 1 <= m PROVE Sums(u)[i + 1] = Sums(s)[i + 1]
        OBVIOUS
      <3>1. i + 1 <= Len(u) /\ i + 1 <= Len(s) /\ i <= m /\ i + 1 \in 1..m
        BY <1>1, <1>3
      <3>2. Sums(u)[i + 1] = Sums(u)[i] + u[i + 1].length
        BY <1>3, <3>1, SumsNext
      <3>3. Sums(s)[i + 1] = Sums(s)[i] + s[i + 1].length
        BY <1>3, <3>1, SumsNext
      <3>4. Sums(u)[i] = Sums(s)[i] /\ u[i + 1] = s[i + 1]
        BY <1>1, <2>2, <3>1
      <3> QED
        BY <3>2, <3>3, <3>4
    <2> HIDE DEF A
    <2> QED
      BY <2>1, <2>2, SetInduction
  <1>6. Nat \subseteq B
    <2>1. 0 \in B
      <3>1. Sums(u)[m] = Sums(s)[m] /\ Sums(s)[m] \in Nat /\ m + 0 = m
        BY <1>1, <1>2, <1>5
      <3> QED
        BY <1>4, <3>1
    <2>2. ASSUME NEW i \in Nat, i \in B PROVE i + 1 \in B
      <3> SUFFICES ASSUME i + 1 <= n PROVE Sums(u)[m + (i + 1)] = Sums(s)[m] + Sums(t)[i + 1]
        OBVIOUS
      <3>1. /\ m + i \in Nat /\ (m + i) + 1 <= Len(u) /\ i + 1 <= Len(t) /\ i <= n
            /\ i + 1 \in 1..n /\ i \in 0..n /\ m \in 0..m /\ m + (i + 1) = (m + i) + 1
        BY <1>1, <1>3
      <3>2. Sums(u)[(m + i) + 1] = Sums(u)[m + i] + u[(m + i) + 1].length
        BY <1>3, <3>1, SumsNext
      <3>3. Sums(t)[i + 1] = Sums(t)[i] + t[i + 1].length
        BY <1>3, <3>1, SumsNext
      <3>4. Sums(u)[m + i] = Sums(s)[m] + Sums(t)[i] /\ u[(m + i) + 1] = t[i + 1]
        BY <1>1, <2>2, <3>1
      <3>5. Sums(s)[m] \in Nat /\ Sums(t)[i] \in Nat /\ t[i + 1].length \in Nat
        BY <1>2, <3>1
      <3>6. Sums(u)[m + (i + 1)] = (Sums(s)[m] + Sums(t)[i]) + t[i + 1].length
        BY <3>1, <3>2, <3>4
      <3>7. ASSUME NEW a \in Nat, NEW b \in Nat, NEW c \in Nat PROVE (a + b) + c = a + (b + c)
        OBVIOUS
      <3>8. (Sums(s)[m] + Sums(t)[i]) + t[i + 1].length = Sums(s)[m] + (Sums(t)[i] + t[i + 1].length)
        BY <3>5, <3>7
      <3> QED
        BY <3>3, <3>6, <3>8
    <2> HIDE DEF B
    <2> QED
      BY <2>1, <2>2, SetInduction
  <1>7. Sums(u)[m + n] = Sums(s)[m] + Sums(t)[n]
    BY <1>1, <1>6
  <1>8. TotalLength(u) = TotalLength(s) + TotalLength(t)
    BY <1>1, <1>3, <1>7, TotalIsSum
  <1> QED
    BY <1>1, <1>8 DEF u

-----------------------------------------------------------------------------
(* Lengths in 16 bits                                                      *)

LEMMA ModRange ==
  ASSUME Word \in Nat \ {0}, NEW n \in Nat
  PROVE  n % Word \in 0..(Word - 1)
  OBVIOUS

LEMMA ModOnce ==
  ASSUME Word \in Nat \ {0}, NEW n \in 0..(Word - 1)
  PROVE  /\ n % Word = n
         /\ (n + Word) % Word = n
  <1>1. n % Word = n
    OBVIOUS
  <1>2. (n + Word) % Word = n
    OBVIOUS
  <1> QED
    BY <1>1, <1>2

\* What is added to a length and taken from it again leaves it, also when the
\* sum wrapped.
LEMMA ModBack ==
  ASSUME Word \in Nat \ {0}, NEW a \in 0..(Word - 1), NEW b \in 0..(Word - 1)
  PROVE  (((a + b) % Word) + Word - b) % Word = a
  <1>1. CASE a + b < Word
    <2>1. (a + b) % Word = a + b
      BY <1>1, ModOnce
    <2> QED
      BY <2>1, ModOnce
  <1>2. CASE a + b >= Word
    <2>1. a + b - Word \in 0..(Word - 1) /\ (a + b - Word) + Word = a + b
      BY <1>2
    <2>2. (a + b) % Word = a + b - Word
      BY <2>1, ModOnce
    <2> QED
      BY <2>2, ModOnce
  <1> QED
    BY <1>1, <1>2

\* Popping what was pushed gives the frame back.
LEMMA PopPush ==
  ASSUME Word \in Nat \ {0}, NEW T, \A e \in T : e.length \in 0..(Word - 1),
         NEW s \in Seq(T), NEW e \in T
  PROVE  Pop(Push(Frame(s), e)) = Frame(s)
  <1> DEFINE f == Push(Frame(s), e)
  <1>1. TotalLength(s) \in Nat
    BY TotalLengthNat
  <1>2. /\ f.elements = Append(s, e)
        /\ f.length = ((TotalLength(s) % Word) + e.length) % Word
        /\ Frame(s) = [elements |-> s, length |-> TotalLength(s) % Word]
    BY DEF Push, Frame
  <1>3. Len(f.elements) = Len(s) + 1 /\ Front(f.elements) = s /\ Last(f.elements) = e
    BY <1>2 DEF Front, Last
  <1>4. CASE s = << >>
    BY <1>2, <1>3, <1>4, TotalLengthEmpty, ModOnce DEF Pop
  <1>5. CASE s # << >>
    <2>1. TotalLength(s) % Word \in 0..(Word - 1)
      BY <1>1, ModRange
    <2>2. (f.length + Word - Last(f.elements).length) % Word = TotalLength(s) % Word
      BY <1>2, <1>3, <2>1, ModBack
    <2>3. Len(f.elements) > 1
      BY <1>3, <1>5
    <2> QED
      BY <1>2, <1>3, <2>2, <2>3 DEF Pop
  <1> QED
    BY <1>4, <1>5

-----------------------------------------------------------------------------
(* Frames and their types                                                  *)

LEMMA LengthsNat ==
  ASSUME Word \in Nat \ {0}, NEW names
  PROVE  \A e \in ElementsOf(names) : e.length \in Nat /\ e.length \in 0..(Word - 1)
  BY DEF ElementsOf

LEMMA FrameTyped ==
  ASSUME Word \in Nat \ {0}, NEW names, NEW s \in Seq(ElementsOf(names))
  PROVE  Frame(s) \in FramesOf(names)
  <1>1. TotalLength(s) \in Nat
    BY LengthsNat, TotalLengthNat
  <1> QED
    BY <1>1, ModRange DEF Frame, FramesOf

\* A pushed element is the last one.
LEMMA PushTyped ==
  ASSUME Word \in Nat \ {0}, NEW names, NEW f \in FramesOf(names),
         NEW e \in ElementsOf(names)
  PROVE  /\ Push(f, e) \in FramesOf(names)
         /\ Len(Push(f, e).elements) = Len(f.elements) + 1
         /\ \A i \in 1..Len(f.elements) : Push(f, e).elements[i] = f.elements[i]
         /\ Push(f, e).elements[Len(f.elements) + 1] = e
  <1>1. f.length + e.length \in Nat /\ f.elements \in Seq(ElementsOf(names))
    BY LengthsNat DEF FramesOf
  <1>2. (f.length + e.length) % Word \in 0..(Word - 1)
    BY <1>1, ModRange
  <1>3. Append(f.elements, e) \in Seq(ElementsOf(names))
    BY <1>1
  <1>4. Push(f, e).elements = Append(f.elements, e)
    BY DEF Push
  <1>5. Push(f, e) \in FramesOf(names)
    BY <1>2, <1>3 DEF Push, FramesOf
  <1> QED
    BY <1>1, <1>4, <1>5

\* Popping takes the last element, or empties the frame.
LEMMA PopTyped ==
  ASSUME Word \in Nat \ {0}, NEW names, NEW f \in FramesOf(names)
  PROVE  /\ Pop(f) \in FramesOf(names)
         /\ Len(f.elements) > 1 =>
               /\ Len(Pop(f).elements) = Len(f.elements) - 1
               /\ \A i \in 1..(Len(f.elements) - 1) : Pop(f).elements[i] = f.elements[i]
         /\ ~(Len(f.elements) > 1) => Pop(f).elements = << >>
  <1>1. f.elements \in Seq(ElementsOf(names)) /\ f.length \in 0..(Word - 1)
    BY DEF FramesOf
  <1>2. CASE Len(f.elements) > 1
    <2>1. Last(f.elements) \in ElementsOf(names) /\ Front(f.elements) \in Seq(ElementsOf(names))
      BY <1>1, <1>2 DEF Last, Front
    <2>2. f.length + Word - Last(f.elements).length \in Nat
      BY <1>1, <2>1, LengthsNat
    <2>3. Pop(f) \in FramesOf(names)
      BY <1>2, <2>1, <2>2, ModRange DEF Pop, FramesOf
    <2>4. Pop(f).elements = Front(f.elements)
      BY <1>2 DEF Pop
    <2>5. /\ Len(Front(f.elements)) = Len(f.elements) - 1
          /\ \A i \in 1..(Len(f.elements) - 1) : Front(f.elements)[i] = f.elements[i]
      BY <1>1, <1>2 DEF Front
    <2> QED
      BY <1>2, <2>3, <2>4, <2>5
  <1>3. CASE ~(Len(f.elements) > 1)
    BY <1>3 DEF Pop, FramesOf
  <1> QED
    BY <1>2, <1>3

LEMMA HeaderOnlyTyped ==
  ASSUME Word \in Nat \ {0}, NEW names, NEW f \in FramesOf(names), f.elements # << >>
  PROVE  /\ HeaderOnly(f) \in FramesOf(names)
         /\ HeaderOnly(f).elements = <<f.elements[1]>>
  <1>1. f.elements \in Seq(ElementsOf(names)) /\ f.length \in 0..(Word - 1)
    BY DEF FramesOf
  <1>2. /\ Head(f.elements) \in ElementsOf(names) /\ Head(f.elements) = f.elements[1]
        /\ Tail(f.elements) \in Seq(ElementsOf(names))
    BY <1>1
  <1>3. TotalLength(Tail(f.elements)) \in Nat
    BY <1>2, LengthsNat, TotalLengthNat
  <1>4. TotalLength(Tail(f.elements)) % Word \in 0..(Word - 1)
    BY <1>3, ModRange
  <1>5. f.length + Word - (TotalLength(Tail(f.elements)) % Word) \in Nat
    BY <1>1, <1>4
  <1>6. (f.length + Word - (TotalLength(Tail(f.elements)) % Word)) % Word \in 0..(Word - 1)
    BY <1>5, ModRange
  <1>7. <<Head(f.elements)>> \in Seq(ElementsOf(names))
    BY <1>2
  <1>8. HeaderOnly(f) \in FramesOf(names)
    BY <1>6, <1>7 DEF HeaderOnly, FramesOf
  <1> QED
    BY <1>2, <1>8 DEF HeaderOnly

\* The length of one element is set.
LEMMA LengthSet ==
  ASSUME NEW names, NEW f \in FramesOf(names), NEW i \in 1..Len(f.elements),
         NEW n \in 0..(Word - 1), NEW g, g = [f EXCEPT !.elements[i].length = n]
  PROVE  /\ g \in FramesOf(names)
         /\ g.length = f.length /\ Len(g.elements) = Len(f.elements)
         /\ \A j \in 1..Len(f.elements) : /\ g.elements[j].name = f.elements[j].name
                                          /\ j # i => g.elements[j] = f.elements[j]
         /\ g.elements[i].length = n
  <1> DEFINE els == [f.elements EXCEPT ![i] = [f.elements[i] EXCEPT !.length = n]]
  <1>1. /\ f.elements \in Seq(ElementsOf(names)) /\ f.length \in 0..(Word - 1)
        /\ f = [elements |-> f.elements, length |-> f.length]
    BY DEF FramesOf
  <1>2. [f EXCEPT !.elements[i].length = n] = [f EXCEPT !.elements = els]
    OBVIOUS
  <1>3. [f EXCEPT !.elements[i].length = n] = [elements |-> els, length |-> f.length]
    <2> HIDE DEF els
    <2>1. [f EXCEPT !.elements = els] = [elements |-> els, length |-> f.length]
      BY <1>1
    <2> QED
      BY <1>2, <2>1
  <1>4. f.elements[i] \in ElementsOf(names)
    BY <1>1
  <1>5. f.elements[i] = [name |-> f.elements[i].name, length |-> f.elements[i].length]
    BY <1>4 DEF ElementsOf
  <1>6. /\ Len(els) = Len(f.elements)
        /\ \A j \in 1..Len(f.elements) : /\ els[j].name = f.elements[j].name
                                         /\ j # i => els[j] = f.elements[j]
        /\ els[i].length = n
    BY <1>1, <1>5
  <1>7. [f.elements[i] EXCEPT !.length = n] \in ElementsOf(names)
    BY <1>4 DEF ElementsOf
  <1>8. els \in Seq(ElementsOf(names))
    BY <1>1, <1>7
  <1> HIDE DEF els
  <1>9. [elements |-> els, length |-> f.length] \in FramesOf(names)
    BY <1>1, <1>8 DEF FramesOf
  <1> QED
    BY <1>3, <1>6, <1>9
=============================================================================

------------------------- MODULE CommandClassProofs -------------------------
(***************************************************************************)
(* Proofs about the command classifier, for any pieces, any words that are *)
(* quoted and lines of any length.                                         *)
(*                                                                         *)
(* The invariant relates the scanner, what Classify has judged so far and  *)
(* what the line means to the one who writes it.  The parts of the proof:  *)
(* what the recursive functions compute, one piece or item at a time; the  *)
(* verdict on a single command; what the end of a word and an operator do  *)
(* to the judgement; how each spelling of a word is read; the invariant.   *)
(***************************************************************************)
EXTENDS CommandClass, Integers, TLAPS, WellFoundedInduction, SequenceTheorems

-----------------------------------------------------------------------------
(* What the recursive functions compute.                                    *)

\* Induction: a set of numbers with 0 and the next of each contains all of them.
LEMMA Counting ==
  ASSUME NEW n \in Nat, NEW T, 0 \in T, \A m \in 0..(n - 1) : m \in T => m + 1 \in T
  PROVE  0..n \subseteq T
<1> DEFINE S == (0..n) \ T
           R == OpToRel(<, Nat)
<1>1. IsWellFoundedOn(R, Nat)
  BY NatLessThanWellFounded
<1>2. SUFFICES ASSUME S # {} PROVE FALSE
  OBVIOUS
<1>3. S \subseteq Nat
  OBVIOUS
<1>4. PICK x \in S : \A y \in S : ~(<<y, x>> \in R)
  <2> HIDE DEF R, S
  <2> QED
    BY <1>1, <1>2, <1>3, WFMin
<1>5. \A y \in S : ~(y < x)
  BY <1>4, <1>3 DEF OpToRel
<1>6. x - 1 \in S /\ x - 1 < x
  OBVIOUS
<1> QED
  BY <1>5, <1>6

\* What the scanner reads, it reads piece by piece.
LEMMA ReadAllUnfolds ==
  ASSUME NEW s, NEW text, Len(text) \in Nat
  PROVE  \E g : /\ g[0] = s
                /\ \A n \in 1..Len(text) : g[n] = Read(g[n - 1], text[n])
                /\ ReadAll(s, text) = g[Len(text)]
<1> DEFINE Start == s
           Step(r, n) == Read(r, text[n])
           Is(g, m) == g = [n \in 0..m |-> IF n = 0 THEN Start ELSE Step(g[n - 1], n)]
           T == {m \in 0..Len(text) : \E g : Is(g, m)}
           f == CHOOSE h : Is(h, Len(text))
<1>1. ReadAll(s, text) = f[Len(text)]
  BY DEF ReadAll
<1> HIDE DEF Start, Step, f
<1>2. 0 \in T
  <2> DEFINE h == [n \in 0..0 |-> Start]
  <2>1. Is(h, 0)
    OBVIOUS
  <2> HIDE DEF h, Is
  <2> QED
    BY <2>1
<1>3. ASSUME NEW m \in 0..(Len(text) - 1), m \in T
      PROVE  m + 1 \in T
  <2>1. PICK g : Is(g, m)
    BY <1>3
  <2> DEFINE h == [n \in 0..(m + 1) |-> IF n = m + 1 THEN Step(g[m], m + 1) ELSE g[n]]
  <2>2. Is(h, m + 1)
    BY <2>1
  <2> HIDE DEF h, Is
  <2> QED
    BY <2>2
<1>4. Len(text) \in T
  <2> HIDE DEF T
  <2>1. 0..Len(text) \subseteq T
    BY <1>2, <1>3, Counting
  <2> QED
    BY <2>1
<1>5. PICK g : Is(g, Len(text))
  BY <1>4
<1>6. Is(f, Len(text))
  <2> HIDE DEF Is
  <2> QED
    BY <1>5 DEF f
<1>7. f[0] = Start /\ \A n \in 1..Len(text) : f[n] = Step(f[n - 1], n)
  BY <1>6
<1> QED
  BY <1>1, <1>7 DEF Start, Step

LEMMA ReadAllAppend ==
  ASSUME NEW s, NEW S, NEW text \in Seq(S), NEW p \in S
  PROVE  ReadAll(s, Append(text, p)) = Read(ReadAll(s, text), p)
<1> DEFINE longer == Append(text, p)
           n0 == Len(text)
<1>1. /\ n0 \in Nat /\ Len(longer) = n0 + 1 /\ Len(longer) \in Nat
      /\ \A n \in 1..n0 : longer[n] = text[n]
      /\ longer[n0 + 1] = p
  OBVIOUS
<1> HIDE DEF longer, n0
<1>2. PICK g : /\ g[0] = s
               /\ \A n \in 1..n0 : g[n] = Read(g[n - 1], text[n])
               /\ ReadAll(s, text) = g[n0]
  BY <1>1, ReadAllUnfolds DEF n0
<1>3. PICK h : /\ h[0] = s
               /\ \A n \in 1..Len(longer) : h[n] = Read(h[n - 1], longer[n])
               /\ ReadAll(s, longer) = h[Len(longer)]
  <2>1. Len(longer) \in Nat
    BY <1>1
  <2> QED
    BY ONLY <2>1, ReadAllUnfolds
<1> DEFINE T == {n \in 0..n0 : h[n] = g[n]}
<1>4. 0 \in T
  BY <1>1, <1>2, <1>3
<1>5. ASSUME NEW m \in 0..(n0 - 1), m \in T
      PROVE  m + 1 \in T
  <2>1. m + 1 \in 1..n0 /\ m + 1 \in 1..Len(longer) /\ (m + 1) - 1 = m
    BY <1>1
  <2> QED
    BY <1>1, <1>2, <1>3, <1>5, <2>1
<1>6. n0 \in T
  <2> HIDE DEF T
  <2>1. 0..n0 \subseteq T
    BY <1>1, <1>4, <1>5, Counting
  <2> QED
    BY <1>1, <2>1
<1>7. h[n0 + 1] = Read(h[n0], p)
  <2>1. n0 + 1 \in 1..Len(longer) /\ (n0 + 1) - 1 = n0
    BY <1>1
  <2> QED
    BY <1>1, <1>3, <2>1
<1> QED
  BY <1>1, <1>2, <1>3, <1>6, <1>7 DEF longer

\* Classify judges item by item.
LEMMA JudgedUnfolds ==
  ASSUME NEW items, Len(items) \in Nat
  PROVE  \E g : /\ g[0] = Unjudged
                /\ \A n \in 1..Len(items) : g[n] = Judge(g[n - 1], items[n])
                /\ Judged(items) = g[Len(items)]
<1> DEFINE Start == Unjudged
           Step(r, n) == Judge(r, items[n])
           Is(g, m) == g = [n \in 0..m |-> IF n = 0 THEN Start ELSE Step(g[n - 1], n)]
           T == {m \in 0..Len(items) : \E g : Is(g, m)}
           f == CHOOSE h : Is(h, Len(items))
<1>1. Judged(items) = f[Len(items)]
  BY DEF Judged
<1> HIDE DEF Start, Step, f
<1>2. 0 \in T
  <2> DEFINE h == [n \in 0..0 |-> Start]
  <2>1. Is(h, 0)
    OBVIOUS
  <2> HIDE DEF h, Is
  <2> QED
    BY <2>1
<1>3. ASSUME NEW m \in 0..(Len(items) - 1), m \in T
      PROVE  m + 1 \in T
  <2>1. PICK g : Is(g, m)
    BY <1>3
  <2> DEFINE h == [n \in 0..(m + 1) |-> IF n = m + 1 THEN Step(g[m], m + 1) ELSE g[n]]
  <2>2. Is(h, m + 1)
    BY <2>1
  <2> HIDE DEF h, Is
  <2> QED
    BY <2>2
<1>4. Len(items) \in T
  <2> HIDE DEF T
  <2>1. 0..Len(items) \subseteq T
    BY <1>2, <1>3, Counting
  <2> QED
    BY <2>1
<1>5. PICK g : Is(g, Len(items))
  BY <1>4
<1>6. Is(f, Len(items))
  <2> HIDE DEF Is
  <2> QED
    BY <1>5 DEF f
<1>7. f[0] = Start /\ \A n \in 1..Len(items) : f[n] = Step(f[n - 1], n)
  BY <1>6
<1> QED
  BY <1>1, <1>7 DEF Start, Step

LEMMA JudgedAppend ==
  ASSUME NEW S, NEW items \in Seq(S), NEW it \in S
  PROVE  Judged(Append(items, it)) = Judge(Judged(items), it)
<1> DEFINE longer == Append(items, it)
           n0 == Len(items)
<1>1. /\ n0 \in Nat /\ Len(longer) = n0 + 1 /\ Len(longer) \in Nat
      /\ \A n \in 1..n0 : longer[n] = items[n]
      /\ longer[n0 + 1] = it
  OBVIOUS
<1> HIDE DEF longer, n0
<1>2. PICK g : /\ g[0] = Unjudged
               /\ \A n \in 1..n0 : g[n] = Judge(g[n - 1], items[n])
               /\ Judged(items) = g[n0]
  BY <1>1, JudgedUnfolds DEF n0
<1>3. PICK h : /\ h[0] = Unjudged
               /\ \A n \in 1..Len(longer) : h[n] = Judge(h[n - 1], longer[n])
               /\ Judged(longer) = h[Len(longer)]
  <2>1. Len(longer) \in Nat
    BY <1>1
  <2> QED
    BY ONLY <2>1, JudgedUnfolds
<1> DEFINE T == {n \in 0..n0 : h[n] = g[n]}
<1>4. 0 \in T
  BY <1>1, <1>2, <1>3
<1>5. ASSUME NEW m \in 0..(n0 - 1), m \in T
      PROVE  m + 1 \in T
  <2>1. m + 1 \in 1..n0 /\ m + 1 \in 1..Len(longer) /\ (m + 1) - 1 = m
    BY <1>1
  <2> QED
    BY <1>1, <1>2, <1>3, <1>5, <2>1
<1>6. n0 \in T
  <2> HIDE DEF T
  <2>1. 0..n0 \subseteq T
    BY <1>1, <1>4, <1>5, Counting
  <2> QED
    BY <1>1, <2>1
<1>7. h[n0 + 1] = Judge(h[n0], it)
  <2>1. n0 + 1 \in 1..Len(longer) /\ (n0 + 1) - 1 = n0
    BY <1>1
  <2> QED
    BY <1>1, <1>3, <2>1
<1> QED
  BY <1>1, <1>2, <1>3, <1>6, <1>7 DEF longer

\* The words among the items, item by item.
LEMMA WordsOfUnfolds ==
  ASSUME NEW items, Len(items) \in Nat
  PROVE  \E g : /\ g[0] = <<>>
                /\ \A n \in 1..Len(items) :
                     g[n] = (IF items[n].kind = "word" THEN Append(g[n - 1], items[n])
                             ELSE g[n - 1])
                /\ WordsOf(items) = g[Len(items)]
<1> DEFINE Start == <<>>
           Step(r, n) == (IF items[n].kind = "word" THEN Append(r, items[n]) ELSE r)
           Is(g, m) == g = [n \in 0..m |-> IF n = 0 THEN Start ELSE Step(g[n - 1], n)]
           T == {m \in 0..Len(items) : \E g : Is(g, m)}
           f == CHOOSE h : Is(h, Len(items))
<1>1. WordsOf(items) = f[Len(items)]
  BY DEF WordsOf
<1> HIDE DEF Start, Step, f
<1>2. 0 \in T
  <2> DEFINE h == [n \in 0..0 |-> Start]
  <2>1. Is(h, 0)
    OBVIOUS
  <2> HIDE DEF h, Is
  <2> QED
    BY <2>1
<1>3. ASSUME NEW m \in 0..(Len(items) - 1), m \in T
      PROVE  m + 1 \in T
  <2>1. PICK g : Is(g, m)
    BY <1>3
  <2> DEFINE h == [n \in 0..(m + 1) |-> IF n = m + 1 THEN Step(g[m], m + 1) ELSE g[n]]
  <2>2. Is(h, m + 1)
    BY <2>1
  <2> HIDE DEF h, Is
  <2> QED
    BY <2>2
<1>4. Len(items) \in T
  <2> HIDE DEF T
  <2>1. 0..Len(items) \subseteq T
    BY <1>2, <1>3, Counting
  <2> QED
    BY <2>1
<1>5. PICK g : Is(g, Len(items))
  BY <1>4
<1>6. Is(f, Len(items))
  <2> HIDE DEF Is
  <2> QED
    BY <1>5 DEF f
<1>7. f[0] = Start /\ \A n \in 1..Len(items) : f[n] = Step(f[n - 1], n)
  BY <1>6
<1> QED
  BY <1>1, <1>7 DEF Start, Step

LEMMA WordsOfAppend ==
  ASSUME NEW S, NEW items \in Seq(S), NEW it \in S
  PROVE  WordsOf(Append(items, it)) 
           = IF it.kind = "word" THEN Append(WordsOf(items), it) ELSE WordsOf(items)
<1> DEFINE longer == Append(items, it)
           n0 == Len(items)
<1>1. /\ n0 \in Nat /\ Len(longer) = n0 + 1 /\ Len(longer) \in Nat
      /\ \A n \in 1..n0 : longer[n] = items[n]
      /\ longer[n0 + 1] = it
  OBVIOUS
<1> HIDE DEF longer, n0
<1>2. PICK g : /\ g[0] = <<>>
               /\ \A n \in 1..n0 :
                    g[n] = (IF items[n].kind = "word" THEN Append(g[n - 1], items[n]) ELSE g[n - 1])
               /\ WordsOf(items) = g[n0]
  BY <1>1, WordsOfUnfolds DEF n0
<1>3. PICK h : /\ h[0] = <<>>
               /\ \A n \in 1..Len(longer) :
                    h[n] = (IF longer[n].kind = "word" THEN Append(h[n - 1], longer[n])
                            ELSE h[n - 1])
               /\ WordsOf(longer) = h[Len(longer)]
  <2>1. Len(longer) \in Nat
    BY <1>1
  <2> QED
    BY ONLY <2>1, WordsOfUnfolds
<1> DEFINE T == {n \in 0..n0 : h[n] = g[n]}
<1>4. 0 \in T
  BY <1>1, <1>2, <1>3
<1>5. ASSUME NEW m \in 0..(n0 - 1), m \in T
      PROVE  m + 1 \in T
  <2>1. m + 1 \in 1..n0 /\ m + 1 \in 1..Len(longer) /\ (m + 1) - 1 = m
    BY <1>1
  <2> QED
    BY <1>1, <1>2, <1>3, <1>5, <2>1
<1>6. n0 \in T
  <2> HIDE DEF T
  <2>1. 0..n0 \subseteq T
    BY <1>1, <1>4, <1>5, Counting
  <2> QED
    BY <1>1, <2>1
<1>7. h[n0 + 1] = (IF it.kind = "word" THEN Append(h[n0], it) ELSE h[n0])
  <2>1. n0 + 1 \in 1..Len(longer) /\ (n0 + 1) - 1 = n0
    BY <1>1
  <2> QED
    BY <1>1, <1>3, <2>1
<1> QED
  BY <1>1, <1>2, <1>3, <1>6, <1>7 DEF longer

\* classifyRM reads its arguments in order.
LEMMA ClassifyRMUnfolds ==
  ASSUME NEW args, Len(args) \in Nat
  PROVE  \E g : /\ g[0] = [options |-> TRUE, risk |-> R2]
                /\ \A n \in 1..Len(args) : g[n] = Argue(g[n - 1], args[n])
                /\ ClassifyRM(args) = g[Len(args)].risk
<1> DEFINE Start == [options |-> TRUE, risk |-> R2]
           Step(r, n) == Argue(r, args[n])
           Is(g, m) == g = [n \in 0..m |-> IF n = 0 THEN Start ELSE Step(g[n - 1], n)]
           T == {m \in 0..Len(args) : \E g : Is(g, m)}
           f == CHOOSE h : Is(h, Len(args))
<1>1. ClassifyRM(args) = f[Len(args)].risk
  BY DEF ClassifyRM
<1> HIDE DEF Start, Step, f
<1>2. 0 \in T
  <2> DEFINE h == [n \in 0..0 |-> Start]
  <2>1. Is(h, 0)
    OBVIOUS
  <2> HIDE DEF h, Is
  <2> QED
    BY <2>1
<1>3. ASSUME NEW m \in 0..(Len(args) - 1), m \in T
      PROVE  m + 1 \in T
  <2>1. PICK g : Is(g, m)
    BY <1>3
  <2> DEFINE h == [n \in 0..(m + 1) |-> IF n = m + 1 THEN Step(g[m], m + 1) ELSE g[n]]
  <2>2. Is(h, m + 1)
    BY <2>1
  <2> HIDE DEF h, Is
  <2> QED
    BY <2>2
<1>4. Len(args) \in T
  <2> HIDE DEF T
  <2>1. 0..Len(args) \subseteq T
    BY <1>2, <1>3, Counting
  <2> QED
    BY <2>1
<1>5. PICK g : Is(g, Len(args))
  BY <1>4
<1>6. Is(f, Len(args))
  <2> HIDE DEF Is
  <2> QED
    BY <1>5 DEF f
<1>7. f[0] = Start /\ \A n \in 1..Len(args) : f[n] = Step(f[n - 1], n)
  BY <1>6
<1> QED
  BY <1>1, <1>7 DEF Start, Step

\* ShellQuote spells piece by piece.
LEMMA ShellQuoteUnfolds ==
  ASSUME NEW w, Len(w) \in Nat
  PROVE  \E g : /\ g[0] = <<Single>>
                /\ \A n \in 1..Len(w) :
                     g[n] = g[n - 1] \o (IF w[n] = Single
                                         THEN <<Single, Double, Single, Double, Single>>
                                         ELSE <<w[n]>>)
                /\ ShellQuote(w) = Append(g[Len(w)], Single)
<1> DEFINE Start == <<Single>>
           Step(r, n) == r \o (IF w[n] = Single THEN <<Single, Double, Single, Double, Single>>
                                                 ELSE <<w[n]>>)
           Is(g, m) == g = [n \in 0..m |-> IF n = 0 THEN Start ELSE Step(g[n - 1], n)]
           T == {m \in 0..Len(w) : \E g : Is(g, m)}
           f == CHOOSE h : Is(h, Len(w))
<1>1. ShellQuote(w) = Append(f[Len(w)], Single)
  BY DEF ShellQuote
<1> HIDE DEF Start, Step, f
<1>2. 0 \in T
  <2> DEFINE h == [n \in 0..0 |-> Start]
  <2>1. Is(h, 0)
    OBVIOUS
  <2> HIDE DEF h, Is
  <2> QED
    BY <2>1
<1>3. ASSUME NEW m \in 0..(Len(w) - 1), m \in T
      PROVE  m + 1 \in T
  <2>1. PICK g : Is(g, m)
    BY <1>3
  <2> DEFINE h == [n \in 0..(m + 1) |-> IF n = m + 1 THEN Step(g[m], m + 1) ELSE g[n]]
  <2>2. Is(h, m + 1)
    BY <2>1
  <2> HIDE DEF h, Is
  <2> QED
    BY <2>2
<1>4. Len(w) \in T
  <2> HIDE DEF T
  <2>1. 0..Len(w) \subseteq T
    BY <1>2, <1>3, Counting
  <2> QED
    BY <2>1
<1>5. PICK g : Is(g, Len(w))
  BY <1>4
<1>6. Is(f, Len(w))
  <2> HIDE DEF Is
  <2> QED
    BY <1>5 DEF f
<1>7. f[0] = Start /\ \A n \in 1..Len(w) : f[n] = Step(f[n - 1], n)
  BY <1>6
<1> QED
  BY <1>1, <1>7 DEF Start, Step

-----------------------------------------------------------------------------
(* What the parts of a line amount to, and the verdict on a command.        *)

Texts(items) == [i \in DOMAIN items |-> items[i].text]
Expanding(items) == \E i \in DOMAIN items : items[i].expands

LEMMA TextsAppend ==
  ASSUME NEW items \in Seq(Item), NEW it \in Item
  PROVE  /\ Texts(items) \in Seq(Text)
         /\ Texts(Append(items, it)) = Append(Texts(items), it.text)
         /\ Expanding(Append(items, it)) = (Expanding(items) \/ it.expands)
<1>1. \A i \in DOMAIN items : items[i].text \in Text
  <2>1. \A i \in DOMAIN items : items[i] \in Item
    OBVIOUS
  <2> QED
    BY <2>1 DEF Item
<1>2. Texts(items) \in Seq(Text)
  BY <1>1 DEF Texts
<1>3. it.text \in Text
  BY DEF Item
<1>4. Texts(Append(items, it)) = Append(Texts(items), it.text)
  <2> DEFINE longer == Append(items, it)
  <2>1. /\ DOMAIN longer = 1..(Len(items) + 1)
        /\ \A i \in 1..Len(items) : longer[i] = items[i]
        /\ longer[Len(items) + 1] = it
    OBVIOUS
  <2>2. Texts(items) = [i \in 1..Len(items) |-> items[i].text]
    BY DEF Texts
  <2>3. Append(Texts(items), it.text)
          = [i \in 1..(Len(items) + 1) |-> IF i = Len(items) + 1 THEN it.text ELSE items[i].text]
    BY <1>2, <1>3, <2>2
  <2> HIDE DEF longer
  <2>4. Texts(longer) = [i \in 1..(Len(items) + 1) |-> longer[i].text]
    BY <2>1 DEF Texts
  <2>5. \A i \in 1..(Len(items) + 1) :
          longer[i].text = IF i = Len(items) + 1 THEN it.text ELSE items[i].text
    BY <2>1
  <2> QED
    BY <2>3, <2>4, <2>5 DEF longer
<1>5. Expanding(Append(items, it)) = (Expanding(items) \/ it.expands)
  <2> DEFINE longer == Append(items, it)
  <2>1. /\ DOMAIN longer = 1..(Len(items) + 1)
        /\ \A i \in 1..Len(items) : longer[i] = items[i]
        /\ longer[Len(items) + 1] = it
        /\ Len(items) \in Nat /\ DOMAIN items = 1..Len(items)
    OBVIOUS
  <2> HIDE DEF longer
  <2>2. Expanding(longer) <=> Expanding(items) \/ it.expands
    BY <2>1 DEF Expanding
  <2>3. it.expands \in BOOLEAN
    BY DEF Item
  <2> QED
    BY <2>2, <2>3 DEF longer, Expanding
<1> QED
  BY <1>2, <1>4, <1>5

\* Texts of a few pieces.
LEMMA ReadNone ==
  ASSUME NEW s
  PROVE  ReadAll(s, <<>>) = s
BY ReadAllUnfolds

LEMMA ReadOne ==
  ASSUME NEW s, NEW p
  PROVE  ReadAll(s, <<p>>) = Read(s, p)
<1> DEFINE S == {p}
<1>1. <<>> \in Seq(S) /\ p \in S
  OBVIOUS
<1>2. <<p>> = Append(<<>>, p)
  BY <1>1
<1> HIDE DEF S
<1>3. ReadAll(s, Append(<<>>, p)) = Read(ReadAll(s, <<>>), p)
  BY ONLY <1>1, ReadAllAppend
<1>4. ReadAll(s, <<>>) = s
  BY ONLY ReadNone
<1> QED
  BY ONLY <1>2, <1>3, <1>4

LEMMA ReadTwo ==
  ASSUME NEW s, NEW p, NEW q
  PROVE  ReadAll(s, <<p, q>>) = Read(Read(s, p), q)
<1> DEFINE S == {p, q}
<1>1. <<p>> \in Seq(S) /\ q \in S
  OBVIOUS
<1>2. <<p, q>> = Append(<<p>>, q)
  BY <1>1
<1> HIDE DEF S
<1>3. ReadAll(s, Append(<<p>>, q)) = Read(ReadAll(s, <<p>>), q)
  BY ONLY <1>1, ReadAllAppend
<1>4. ReadAll(s, <<p>>) = Read(s, p)
  BY ONLY ReadOne
<1> QED
  BY ONLY <1>2, <1>3, <1>4

LEMMA ReadThree ==
  ASSUME NEW s, NEW p, NEW q, NEW r
  PROVE  ReadAll(s, <<p, q, r>>) = Read(Read(Read(s, p), q), r)
<1> DEFINE S == {p, q, r}
<1>1. <<p, q>> \in Seq(S) /\ r \in S
  OBVIOUS
<1>2. <<p, q, r>> = Append(<<p, q>>, r)
  BY <1>1
<1> HIDE DEF S
<1>3. ReadAll(s, Append(<<p, q>>, r)) = Read(ReadAll(s, <<p, q>>), r)
  BY ONLY <1>1, ReadAllAppend
<1>4. ReadAll(s, <<p, q>>) = Read(Read(s, p), q)
  BY ONLY ReadTwo
<1> QED
  BY ONLY <1>2, <1>3, <1>4

\* The options that rm accepts name no place on the server.
LEMMA OptionsAreNotSensitive ==
  ~IsSensitive(<<"-f">>) /\ ~IsSensitive(<<"--">>)
<1>1. ASSUME NEW p, p # Backslash, p # "/etc/"
      PROVE  ~IsSensitive(<<p>>)
  <2> DEFINE I == {i \in 1..Len(<<p>>) : <<p>>[i] # Backslash}
  <2>1. I = {1}
    BY <1>1
  <2>2. Min(I) = 1
    BY <2>1 DEF Min
  <2>3. SelectInSeq(<<p>>, LAMBDA x : x # Backslash) = 1
    BY <2>1, <2>2 DEF SelectInSeq
  <2> QED
    BY <2>3, <1>1 DEF IsSensitive
<1> QED
  BY <1>1 DEF Backslash

\* What classifyRM lets pass removes no tree and nothing sensitive: an option or a
\* sensitive word before "--" is found, and a sensitive word after it.
LEMMA ClassifyRMCovers ==
  ASSUME NEW args \in Seq(Text)
  PROVE  /\ ClassifyRM(args) \in {R2, R3}
         /\ ClassifyRM(args) # R3 =>
              \A i \in DOMAIN args :
                /\ ~IsSensitive(args[i])
                /\ HasPrefix(args[i], "-r") => \E j \in 1..(i - 1) : args[j] = <<"--">>
<1>1. PICK g : /\ g[0] = [options |-> TRUE, risk |-> R2]
               /\ \A n \in 1..Len(args) : g[n] = Argue(g[n - 1], args[n])
               /\ ClassifyRM(args) = g[Len(args)].risk
  <2>1. Len(args) \in Nat
    OBVIOUS
  <2> QED
    BY ONLY <2>1, ClassifyRMUnfolds
<1> DEFINE Clean(n) ==
             \A i \in 1..n :
               /\ ~IsSensitive(args[i])
               /\ HasPrefix(args[i], "-r") => \E j \in 1..(i - 1) : args[j] = <<"--">>
           Ended(n) == \E j \in 1..n : args[j] = <<"--">>
           Holds(n) == /\ g[n] \in [options : BOOLEAN, risk : {R2, R3}]
                       /\ g[n].risk # R3 => Clean(n) /\ (~g[n].options => Ended(n))
           T == {n \in 0..Len(args) : Holds(n)}
<1>2. 0 \in T
  <2>1. g[0] \in [options : BOOLEAN, risk : {R2, R3}] /\ g[0].options
    BY <1>1
  <2>2. Clean(0)
    OBVIOUS
  <2> HIDE DEF Clean, Ended
  <2> QED
    BY <2>1, <2>2
<1>3. ASSUME NEW n \in 0..(Len(args) - 1), n \in T
      PROVE  n + 1 \in T
  <2> DEFINE r == g[n]
             w == args[n + 1]
  <2>1. g[n + 1] = Argue(r, w)
    BY <1>1
  <2>2. Holds(n)
    BY <1>3
  <2>3. g[n + 1] \in [options : BOOLEAN, risk : {R2, R3}]
    <3> HIDE DEF w
    <3> QED
      BY <2>1, <2>2 DEF Argue
  <2>4. ASSUME g[n + 1].risk # R3
        PROVE  /\ r.risk # R3
               /\ ~IsSensitive(w)
               /\ HasPrefix(w, "-r") => ~r.options
               /\ ~g[n + 1].options => ~r.options \/ w = <<"--">>
    <3>1. r.risk # R3
      <4> HIDE DEF w
      <4> QED
        BY <2>1, <2>2, <2>4 DEF Argue
    <3>2. ~HasPrefix(<<"--">>, "-r") /\ ~HasPrefix(<<"-f">>, "-r")
      BY DEF HasPrefix
    <3> HIDE DEF w
    <3> QED
      BY <2>1, <2>2, <2>4, <3>1, <3>2, OptionsAreNotSensitive DEF Argue, R2, R3
  <2>5. ASSUME g[n + 1].risk # R3
        PROVE  Clean(n + 1)
    <3>1. Clean(n) /\ (~r.options => Ended(n))
      BY <2>2, <2>4, <2>5
    <3>2. ASSUME NEW i \in 1..(n + 1)
          PROVE  /\ ~IsSensitive(args[i])
                 /\ HasPrefix(args[i], "-r") => \E j \in 1..(i - 1) : args[j] = <<"--">>
      <4>1. CASE i \in 1..n
        BY <4>1, <3>1
      <4>2. CASE i = n + 1
        BY <4>2, <3>1, <2>4, <2>5
      <4> QED
        BY <4>1, <4>2
    <3> QED
      BY <3>2
  <2>6. ASSUME g[n + 1].risk # R3, ~g[n + 1].options
        PROVE  Ended(n + 1)
    <3>1. ~r.options => Ended(n)
      BY <2>2, <2>4, <2>6
    <3>2. CASE ~r.options
      BY <3>1, <3>2
    <3>3. CASE w = <<"--">>
      BY <3>3
    <3> QED
      BY <2>4, <2>6, <3>2, <3>3
  <2>7. Holds(n + 1)
    <3> HIDE DEF Clean, Ended
    <3> QED
      BY <2>3, <2>5, <2>6
  <2> HIDE DEF Holds
  <2> QED
    BY <2>7
<1>4. Len(args) \in T
  <2> HIDE DEF T
  <2>1. 0..Len(args) \subseteq T
    BY <1>2, <1>3, Counting
  <2> QED
    BY <2>1
<1> HIDE DEF T
<1>5. Holds(Len(args))
  BY <1>4 DEF T
<1>6. DOMAIN args = 1..Len(args)
  OBVIOUS
<1> QED
  BY ONLY <1>1, <1>5, <1>6

\* The verdict on a simple command is at least the danger of what it does.
LEMMA ClassifyWordsCovers ==
  ASSUME NEW words \in Seq(Text), words # <<>>
  PROVE  /\ ClassifyWords(words) \in R0..R3
         /\ Danger(words) \in R0..R3
         /\ ClassifyWords(words) >= Danger(words)
<1> DEFINE args == Tail(words)
           name == CommandName(words[1])
<1>1. /\ args \in Seq(Text) /\ Len(args) = Len(words) - 1
      /\ \A i \in 2..Len(words) : i - 1 \in DOMAIN args /\ args[i - 1] = words[i]
      /\ \A j \in 1..(Len(words) - 1) : args[j] = words[j + 1]
  OBVIOUS
<1> HIDE DEF args
<1>2. ClassifyRM(args) \in {R2, R3}
  BY <1>1, ClassifyRMCovers
<1>3. ASSUME ClassifyRM(args) # R3
      PROVE  /\ \A i \in 2..Len(words) : ~IsSensitive(words[i])
             /\ ~\E i \in 2..Len(words) : IsOption(words, i) /\ words[i][1] = "-r"
  <2>1. \A i \in DOMAIN args :
          /\ ~IsSensitive(args[i])
          /\ HasPrefix(args[i], "-r") => \E j \in 1..(i - 1) : args[j] = <<"--">>
    BY <1>1, <1>3, ClassifyRMCovers
  <2>2. ASSUME NEW i \in 2..Len(words), IsOption(words, i), words[i][1] = "-r"
        PROVE  FALSE
    <3>1. HasPrefix(args[i - 1], "-r")
      BY <1>1, <2>2 DEF HasPrefix, IsOption
    <3>2. PICK j \in 1..(i - 1 - 1) : args[j] = <<"--">>
      BY <1>1, <2>1, <3>1
    <3>3. j + 1 \in 2..(i - 1) /\ words[j + 1] = <<"--">>
      BY <1>1, <3>2
    <3> QED
      BY <2>2, <3>3 DEF IsOption
  <2> QED
    BY <1>1, <2>1, <2>2
<1>4. (\E i \in DOMAIN args : IsSensitive(args[i]))
        = (\E i \in 2..Len(words) : IsSensitive(words[i]))
  <2>1. DOMAIN args = 1..(Len(words) - 1) /\ Len(words) \in Nat
    BY <1>1
  <2>2. \A i \in DOMAIN args : i + 1 \in 2..Len(words) /\ args[i] = words[i + 1]
    BY <1>1, <2>1
  <2>3. \A i \in 2..Len(words) : i - 1 \in DOMAIN args /\ args[i - 1] = words[i]
    BY <1>1
  <2> QED
    BY ONLY <2>2, <2>3
<1>5. Danger(words) \in R0..R3
  BY DEF Danger, R0, R1, R2, R3
<1> DEFINE sensitive == \E i \in 2..Len(words) : IsSensitive(words[i])
           privileged == \E i \in DOMAIN words : CommandName(words[i]) = "sudo"
           tree == \E i \in 2..Len(words) : IsOption(words, i) /\ words[i][1] = "-r"
<1>6. ClassifyWords(words) =
        IF \/ words[1] = <<>> \/ IsAssignment(words[1]) \/ name \in DangerousCommands
           \/ privileged
           \/ name \in WriteCommands /\ sensitive
        THEN R3
        ELSE CASE name = "rm"                -> ClassifyRM(args)
               [] name \in CreatingCommands  -> R1
               [] name \in ReadOnlyCommands  -> R0
               [] OTHER                      -> R2
  BY <1>4 DEF ClassifyWords, args
<1>7. Danger(words) =
        IF \/ privileged \/ (name = "rm" /\ tree)
           \/ (name \in WriteCommands \cup {"rm"} /\ sensitive)
           \/ IsAssignment(words[1])
        THEN R3
        ELSE CASE name \in ReadOnlyCommands -> R0
               [] name \in CreatingCommands -> R1
               [] OTHER                     -> R2
  BY DEF Danger
<1>8. ClassifyRM(args) # R3 => ~sensitive /\ ~tree
  BY <1>3
<1> HIDE DEF sensitive, privileged, tree, name
<1> DEFINE assigns == IsAssignment(words[1])
           empty == words[1] = <<>>
<1>9. CASE ClassifyWords(words) = R3
  BY <1>5, <1>9 DEF R0, R3
<1>10. CASE ClassifyWords(words) # R3
  <2>1. ~privileged /\ ~assigns /\ ~(name \in WriteCommands /\ sensitive)
    BY <1>6, <1>10
  <2>2. CASE name = "rm"
    <3>1. ClassifyWords(words) = R2 /\ ~sensitive /\ ~tree
      BY <1>2, <1>6, <1>8, <1>10, <2>2 DEF CreatingCommands, ReadOnlyCommands
    <3>2. Danger(words) = R2
      BY <1>7, <2>1, <2>2, <3>1 DEF CreatingCommands, ReadOnlyCommands
    <3> QED
      BY <3>1, <3>2 DEF R0, R2, R3
  <2>3. CASE name # "rm"
    <3>1. ClassifyWords(words) = CASE name \in CreatingCommands -> R1
                                   [] name \in ReadOnlyCommands -> R0
                                   [] OTHER -> R2
      BY <1>6, <1>10, <2>3
    <3>2. Danger(words) = CASE name \in ReadOnlyCommands -> R0
                            [] name \in CreatingCommands -> R1
                            [] OTHER -> R2
      BY <1>7, <2>1, <2>3
    <3> QED
      BY <3>1, <3>2 DEF R0, R1, R2, R3, ReadOnlyCommands, CreatingCommands
  <2> QED
    BY <2>2, <2>3
<1> QED
  BY <1>9, <1>10

-----------------------------------------------------------------------------
(* The relation between the scanner, the judgement and what is meant.       *)

Mode == {"plain"} \cup Quotes

\* What Classify has made of the items so far covers what is meant: it has refused what
\* is beyond it, and of anything else knows the words and at least the danger.
Judging(s, m) ==
  LET j == Judged(s.items)
  IN  /\ j.redirect = m.target
      /\ m.beyond => j.refused \/ j.base = R3 \/ Expanding(j.segment) \/ s.expands
      /\ ~m.beyond =>
           /\ ~s.expands /\ ~Expanding(j.segment) /\ ~Expanding(WordsOf(s.items))
           /\ Texts(j.segment) = m.words
           /\ j.base >= m.danger
           /\ j.command = (m.commands > 0)
           /\ m.commands > 0 \/ m.composed => j.composed

\* The scanner is in the quotes and in the word that are meant.
Reading(s, q, m) ==
  /\ s.quote = IF q = "plain" THEN "none" ELSE q
  /\ ~s.escaped /\ ~s.comment /\ s.boundary = ~s.started
  /\ s.started = m.begun /\ s.token = m.word
  /\ s.expands => s.started
  /\ q # "plain" => s.started
  /\ Texts(WordsOf(s.items)) = m.all

\* When the next piece may double an operator, that operator is the last item.
MayDouble(s, m) ==
  /\ s.again \in {"none", "|", ">"}
  /\ s.again # "none" =>
       /\ s.quote = "none" /\ ~s.started
       /\ \E items \in Seq(Item) : s.items = Append(items, Operator(<<s.again>>))
  /\ s.again = "|" => m.words = <<>> /\ m.target = <<>>
  /\ s.again = ">" => m.target = <<">">>

\* The scanner s, the quotes q it should be in, and what the line means by now.
Related(s, q, m) ==
  /\ s \in Scanner /\ q \in Mode /\ m \in Meaning
  /\ Judged(s.items) \in Judgement /\ WordsOf(s.items) \in Seq(Item)
  /\ ~s.ok => m.beyond
  /\ s.ok => Reading(s, q, m) /\ Judging(s, m) /\ MayDouble(s, m)

\* From s to t the scanner ends no word and reads no operator; n is meant after it.
Quiet(s, m, t, r, n) ==
  /\ t \in Scanner /\ r \in Mode /\ n \in Meaning
  /\ t.ok /\ t.items = s.items /\ t.again = "none"
  /\ t.quote = IF r = "plain" THEN "none" ELSE r
  /\ ~t.escaped /\ ~t.comment /\ t.boundary = ~t.started
  /\ t.started = n.begun /\ t.token = n.word
  /\ t.expands => t.started
  /\ r # "plain" => t.started
  /\ n = [m EXCEPT !.word = n.word, !.begun = n.begun, !.beyond = n.beyond]
  /\ s.expands => t.expands
  /\ m.beyond => n.beyond
  /\ t.expands /\ ~s.expands => n.beyond
  /\ n.beyond => m.beyond \/ t.expands

\* Reading part of a word leaves the judgement as it was.
LEMMA QuietRelated ==
  ASSUME NEW s, NEW q, NEW m, Related(s, q, m), s.ok,
         NEW t, NEW r, NEW n, Quiet(s, m, t, r, n)
  PROVE  Related(t, r, n)
<1>1. /\ n.target = m.target /\ n.words = m.words /\ n.all = m.all /\ n.danger = m.danger
      /\ n.commands = m.commands /\ n.composed = m.composed
  BY DEF Related, Meaning, Quiet
<1>2. Reading(t, r, n)
  BY <1>1 DEF Related, Reading, Quiet
<1>3. Judging(t, n)
  BY <1>1 DEF Related, Judging, Quiet
<1>4. MayDouble(t, n)
  BY DEF MayDouble, Quiet
<1> QED
  BY <1>2, <1>3, <1>4 DEF Related, Quiet

LEMMA EndWordType ==
  ASSUME NEW m \in Meaning
  PROVE  EndWord(m) \in Meaning /\ ~EndWord(m).begun
<1>1. <<>> \in Text
  BY DEF Text
<1>2. Append(m.all, m.word) \in Seq(Text) /\ Append(m.words, m.word) \in Seq(Text)
  BY DEF Meaning
<1> QED
  BY <1>1, <1>2 DEF EndWord, Meaning

\* Where a word ends, the scanner hands over the word that was meant, and it is judged
\* as the target of the redirection before it or as a word of the command.
LEMMA FlushRelated ==
  ASSUME NEW s, NEW m, Related(s, "plain", m), s.ok, NEW t,
         t = [Flush([s EXCEPT !.again = "none"]) EXCEPT !.boundary = TRUE]
  PROVE  /\ Related(t, "plain", EndWord(m))
         /\ t.ok /\ ~t.started /\ ~t.expands /\ t.again = "none"
         /\ ~m.beyond => ~Expanding(WordsOf(t.items))
<1> DEFINE n == EndWord(m)
           it == Word(s.token, s.expands)
           j == Judged(s.items)
           w == WordsOf(s.items)
<1>1. s \in Scanner /\ m \in Meaning /\ n \in Meaning /\ ~n.begun
  BY EndWordType DEF Related
<1>2. j \in Judgement /\ w \in Seq(Item) /\ s.items \in Seq(Item)
  BY <1>1 DEF Related, Scanner
<1>3. Reading(s, "plain", m) /\ Judging(s, m)
  BY DEF Related
<1>4. CASE ~s.started
  <2>1. t = [s EXCEPT !.again = "none", !.boundary = TRUE]
    BY <1>1, <1>4 DEF Flush, Scanner
  <2>2. n = m
    BY <1>3, <1>4 DEF EndWord, Reading
  <2>3. /\ t \in Scanner /\ t.ok /\ t.items = s.items /\ t.again = "none" /\ t.quote = "none"
        /\ ~t.escaped /\ ~t.comment /\ t.boundary /\ ~t.started /\ t.expands = s.expands
        /\ t.token = s.token
    BY <1>1, <1>3, <1>4, <2>1 DEF Scanner, Reading
  <2>4. ~t.expands
    BY <1>3, <1>4, <2>3 DEF Reading
  <2>5. Related(t, "plain", m)
    <3>1. m = [m EXCEPT !.word = m.word, !.begun = m.begun, !.beyond = m.beyond]
      BY <1>1 DEF Meaning
    <3>2. "plain" \in Mode
      BY DEF Mode
    <3>3. Quiet(s, m, t, "plain", m)
      BY <1>1, <1>3, <1>4, <2>3, <2>4, <3>1, <3>2 DEF Quiet, Reading, Scanner
    <3> QED
      BY <3>3, QuietRelated
  <2> QED
    BY <1>3, <2>2, <2>3, <2>4, <2>5 DEF Judging
<1>5. CASE s.started
  <2>1. it \in Item
    BY <1>1 DEF Item, Word, Scanner
  <2>2. <<>> \in Text
    BY DEF Text
  <2>3. /\ t \in Scanner /\ t.ok /\ t.items = Append(s.items, it) /\ t.again = "none"
        /\ t.quote = "none" /\ ~t.escaped /\ ~t.comment /\ t.boundary /\ ~t.started
        /\ ~t.expands /\ t.token = <<>>
    <3>1. Append(s.items, it) \in Seq(Item)
      BY <1>2, <2>1
    <3>2. t = [s EXCEPT !.again = "none", !.items = Append(s.items, it), !.token = <<>>,
                        !.started = FALSE, !.expands = FALSE, !.boundary = TRUE]
      <4> HIDE DEF it
      <4> QED
        BY <1>1, <1>5 DEF Flush, Scanner, it
    <3> HIDE DEF it
    <3> QED
      BY <1>1, <1>3, <2>2, <3>1, <3>2 DEF Scanner, Reading
  <2>4. /\ it.kind = "word" /\ it.text = m.word /\ it.expands = s.expands
    BY <1>3 DEF Word, Reading
  <2>5. WordsOf(t.items) = Append(w, it)
    <3>1. WordsOf(Append(s.items, it)) = IF it.kind = "word" THEN Append(w, it) ELSE w
      BY <1>2, <2>1, WordsOfAppend
    <3> QED
      BY <2>3, <2>4, <3>1
  <2>6. Judged(t.items) = Judge(j, it)
    BY <1>2, <2>1, <2>3, JudgedAppend
  <2>7. /\ Texts(Append(w, it)) = Append(Texts(w), m.word)
        /\ Expanding(Append(w, it)) = (Expanding(w) \/ s.expands)
        /\ Texts(Append(j.segment, it)) = Append(Texts(j.segment), m.word)
        /\ Expanding(Append(j.segment, it)) = (Expanding(j.segment) \/ s.expands)
        /\ Append(w, it) \in Seq(Item) /\ Append(j.segment, it) \in Seq(Item)
    <3> HIDE DEF it, j, w
    <3>1. j.segment \in Seq(Item)
      BY <1>2 DEF Judgement
    <3>2. /\ Texts(Append(w, it)) = Append(Texts(w), it.text)
          /\ Expanding(Append(w, it)) = (Expanding(w) \/ it.expands)
      BY <1>2, <2>1, TextsAppend
    <3>3. /\ Texts(Append(j.segment, it)) = Append(Texts(j.segment), it.text)
          /\ Expanding(Append(j.segment, it)) = (Expanding(j.segment) \/ it.expands)
      BY <2>1, <3>1, TextsAppend
    <3> QED
      BY <1>2, <2>1, <2>4, <3>1, <3>2, <3>3
  <2>8. /\ n.word = <<>> /\ n.all = Append(m.all, m.word) /\ n.danger = m.danger
        /\ n.commands = m.commands
    BY <1>1, <1>3, <1>5 DEF EndWord, Reading, Meaning
  <2> HIDE DEF it, j, w, n
  <2>9. Reading(t, "plain", n)
    <3>1. Texts(WordsOf(t.items)) = n.all
      BY <1>3, <2>5, <2>7, <2>8 DEF Reading, w
    <3> QED
      BY <1>1, <2>3, <2>8, <3>1 DEF Reading, Scanner, Meaning
  <2>10. MayDouble(t, n)
    BY <2>3 DEF MayDouble
  <2>11. CASE m.target = <<>>
    <3>1. /\ n.target = <<>> /\ n.words = Append(m.words, m.word) /\ n.composed = m.composed
          /\ n.beyond = m.beyond
      BY <1>1, <1>3, <1>5, <2>11 DEF EndWord, Reading, Meaning, n
    <3>2. Judged(t.items) = [j EXCEPT !.segment = Append(@, it)]
      BY <1>3, <2>4, <2>6, <2>11 DEF Judge, Judging, j
    <3>3. /\ Judged(t.items) \in Judgement
          /\ Judged(t.items).segment = Append(j.segment, it)
          /\ Judged(t.items).redirect = j.redirect /\ Judged(t.items).composed = j.composed
          /\ Judged(t.items).refused = j.refused /\ Judged(t.items).base = j.base
          /\ Judged(t.items).command = j.command
      BY <1>2, <2>7, <3>2 DEF Judgement
    <3>4. Judging(t, n)
      <4>1. ASSUME m.beyond
            PROVE  \/ Judged(t.items).refused \/ Judged(t.items).base = R3
                   \/ Expanding(Judged(t.items).segment)
        BY <1>3, <2>7, <3>3, <4>1 DEF Judging, j
      <4>2. ASSUME ~m.beyond
            PROVE  /\ ~Expanding(Judged(t.items).segment) /\ ~Expanding(WordsOf(t.items))
                   /\ Texts(Judged(t.items).segment) = n.words
                   /\ Judged(t.items).base >= n.danger
                   /\ Judged(t.items).command = (n.commands > 0)
                   /\ n.commands > 0 \/ n.composed => Judged(t.items).composed
        BY <1>3, <2>5, <2>7, <2>8, <3>1, <3>3, <4>2 DEF Judging, j, w
      <4>3. Judged(t.items).redirect = n.target
        BY <1>3, <2>11, <3>1, <3>3 DEF Judging, j
      <4> QED
        BY <2>3, <3>1, <4>1, <4>2, <4>3 DEF Judging
    <3> QED
      BY <1>1, <1>3, <2>3, <2>5, <2>7, <2>9, <2>10, <3>3, <3>4 DEF Related, Mode, n, Judging, w
  <2>12. CASE m.target # <<>>
    <3>1. /\ n.target = <<>> /\ n.words = m.words /\ n.composed
          /\ n.beyond = (m.beyond \/ (m.target # <<"<">> /\ IsSensitive(m.word)))
      BY <1>1, <1>3, <1>5, <2>12 DEF EndWord, Reading, Meaning, n
    <3>2. Judged(t.items)
            = [j EXCEPT !.refused = @ \/ s.expands \/ (m.target # <<"<">> /\ IsSensitive(m.word)),
                        !.redirect = <<>>, !.composed = TRUE]
      BY <1>3, <2>4, <2>6, <2>12 DEF Judge, Judging, j
    <3>3. /\ Judged(t.items) \in Judgement
          /\ Judged(t.items).redirect = <<>> /\ Judged(t.items).composed
          /\ Judged(t.items).refused
               = (j.refused \/ s.expands \/ (m.target # <<"<">> /\ IsSensitive(m.word)))
          /\ Judged(t.items).segment = j.segment /\ Judged(t.items).base = j.base
          /\ Judged(t.items).command = j.command
      <4> DEFINE refused == j.refused \/ s.expands \/ (m.target # <<"<">> /\ IsSensitive(m.word))
      <4>1. refused \in BOOLEAN
        BY <1>1, <1>2 DEF Judgement, Scanner
      <4>2. Judged(t.items) = [j EXCEPT !.refused = refused, !.redirect = <<>>, !.composed = TRUE]
        BY <3>2
      <4> HIDE DEF refused
      <4>3. /\ Judged(t.items) \in Judgement
            /\ Judged(t.items).redirect = <<>> /\ Judged(t.items).composed
            /\ Judged(t.items).refused = refused
            /\ Judged(t.items).segment = j.segment /\ Judged(t.items).base = j.base
            /\ Judged(t.items).command = j.command
        <5>1. j = [base |-> j.base, segment |-> j.segment, redirect |-> j.redirect,
                   composed |-> j.composed, command |-> j.command, refused |-> j.refused]
          BY <1>2 DEF Judgement
        <5>2. Judged(t.items)
                = [base |-> j.base, segment |-> j.segment, redirect |-> <<>>, composed |-> TRUE,
                   command |-> j.command, refused |-> refused]
          BY <4>2, <5>1
        <5>3. /\ j.base \in R0..R3 /\ j.segment \in Seq(Item) /\ j.command \in BOOLEAN
              /\ <<>> \in {<<>>} \cup Redirections
          BY <1>2 DEF Judgement
        <5>4. Judged(t.items) \in Judgement
          BY ONLY <4>1, <5>2, <5>3 DEF Judgement
        <5> QED
          BY ONLY <5>2, <5>4
      <4> QED
        BY <4>3 DEF refused
    <3>4. Judging(t, n)
      BY <1>3, <2>3, <2>5, <2>7, <2>8, <3>1, <3>3 DEF Judging, j, w
    <3> QED
      BY <1>1, <1>3, <2>3, <2>5, <2>7, <2>9, <2>10, <3>3, <3>4 DEF Related, Mode, n, Judging, w
  <2> QED
    BY <2>11, <2>12
<1> QED
  BY <1>1, <1>4, <1>5 DEF Scanner

-----------------------------------------------------------------------------
(* The end of a command.                                                    *)

\* What a line means once its last command has ended.
LEMMA EndCommandFacts ==
  ASSUME NEW m \in Meaning
  PROVE  LET e == EndWord(m)
             c == EndCommand(m)
         IN  /\ c \in Meaning /\ EndCommand(e) = c
             /\ ~c.begun /\ c.words = <<>> /\ c.target = <<>> /\ c.word = e.word
             /\ c.all = e.all /\ c.composed = e.composed
             /\ c.beyond = (e.beyond \/ e.target # <<>>)
             /\ e.words = <<>> => c.danger = e.danger /\ c.commands = e.commands
             /\ e.words # <<>> => /\ c.danger = Higher(e.danger, Danger(e.words))
                                  /\ c.commands = e.commands + 1
<1> DEFINE e == EndWord(m)
<1>1. e \in Meaning /\ ~e.begun
  BY EndWordType
<1>2. EndWord(e) = e
  BY <1>1 DEF EndWord
<1>3. EndCommand(e) = EndCommand(m)
  BY <1>2 DEF EndCommand
<1>4. e.words # <<>> => Danger(e.words) \in R0..R3
  BY <1>1, ClassifyWordsCovers DEF Meaning
<1>5. e.words # <<>> => Higher(e.danger, Danger(e.words)) \in R0..R3
  BY <1>1, <1>4 DEF Meaning, Higher
<1>6. <<>> \in Seq(Text) /\ <<>> \in {<<>>} \cup Redirections
  OBVIOUS
<1> DEFINE ended == [e EXCEPT !.beyond = @ \/ e.target # <<>>, !.target = <<>>, !.words = <<>>]
<1>7. EndCommand(m) = IF e.words = <<>> THEN ended
                      ELSE [ended EXCEPT !.danger = Higher(@, Danger(e.words)), !.commands = @ + 1]
  BY DEF EndCommand
<1>8. /\ ended \in Meaning /\ ~ended.begun /\ ended.words = <<>> /\ ended.target = <<>>
      /\ ended.word = e.word /\ ended.all = e.all /\ ended.composed = e.composed
      /\ ended.beyond = (e.beyond \/ e.target # <<>>)
      /\ ended.danger = e.danger /\ ended.commands = e.commands
  BY <1>1, <1>6 DEF Meaning
<1> HIDE DEF e, ended
<1>9. CASE e.words = <<>>
  BY <1>3, <1>7, <1>8, <1>9 DEF e
<1>10. CASE e.words # <<>>
  <2> DEFINE danger == Higher(e.danger, Danger(e.words))
  <2>1. EndCommand(m) = [ended EXCEPT !.danger = danger, !.commands = ended.commands + 1]
    BY <1>7, <1>8, <1>10
  <2>2. danger \in R0..R3 /\ ended.commands + 1 \in Nat
    BY <1>5, <1>8, <1>10 DEF Meaning
  <2> HIDE DEF danger
  <2>3. /\ EndCommand(m) \in Meaning
        /\ EndCommand(m).danger = danger /\ EndCommand(m).commands = ended.commands + 1
        /\ EndCommand(m).begun = ended.begun /\ EndCommand(m).words = ended.words
        /\ EndCommand(m).target = ended.target /\ EndCommand(m).word = ended.word
        /\ EndCommand(m).all = ended.all /\ EndCommand(m).composed = ended.composed
        /\ EndCommand(m).beyond = ended.beyond
    BY <1>8, <2>1, <2>2 DEF Meaning
  <2> QED
    BY <1>3, <1>8, <1>10, <2>3 DEF e, danger
<1> QED
  BY <1>9, <1>10

\* Where a command ends, the judgement covers its danger, and that of those before it.
LEMMA EndSegmentCovers ==
  ASSUME NEW s, NEW m, Related(s, "plain", m), s.ok, ~s.started
  PROVE  LET j == Judged(s.items)
             k == EndSegment(j)
             c == EndCommand(m)
         IN  /\ k \in Judgement /\ k.segment = <<>>
             /\ k.redirect = m.target /\ k.refused = j.refused /\ k.composed = j.composed
             /\ m.beyond => k.refused \/ k.base = R3
             /\ ~m.beyond => k.base >= c.danger /\ k.command = (c.commands > 0)
<1> DEFINE j == Judged(s.items)
           k == EndSegment(j)
           c == EndCommand(m)
<1>1. /\ s \in Scanner /\ m \in Meaning /\ j \in Judgement
      /\ Reading(s, "plain", m) /\ Judging(s, m)
  BY DEF Related
<1>2. EndWord(m) = m /\ ~s.expands
  BY <1>1 DEF Reading, EndWord
<1>3. j.segment \in Seq(Item) /\ j.base \in R0..R3
  BY <1>1 DEF Judgement
<1>4. Texts(j.segment) \in Seq(Text) /\ (Texts(j.segment) = <<>> <=> j.segment = <<>>)
  <2>1. ASSUME NEW items \in Seq(Item)
        PROVE  Texts(items) \in Seq(Text)
    <3>1. \A i \in DOMAIN items : items[i] \in Item
      OBVIOUS
    <3>2. \A i \in DOMAIN items : items[i].text \in Text
      BY <3>1 DEF Item
    <3> QED
      BY <3>2 DEF Texts
  <2>2. DOMAIN Texts(j.segment) = DOMAIN j.segment
    BY DEF Texts
  <2>3. Texts(j.segment) \in Seq(Text)
    BY <1>3, <2>1
  <2> HIDE DEF j
  <2> QED
    BY <1>3, <2>2, <2>3
<1>5. CASE j.segment = <<>>
  <2>1. k = j
    BY <1>5 DEF EndSegment
  <2>2. ~m.beyond => m.words = <<>>
    BY <1>1, <1>4, <1>5 DEF Judging
  <2>3. ~m.beyond => c.danger = m.danger /\ c.commands = m.commands
    BY <1>1, <1>2, <2>2, EndCommandFacts
  <2>4. ~Expanding(j.segment)
    BY <1>5 DEF Expanding
  <2> QED
    BY <1>1, <1>2, <1>5, <2>1, <2>3, <2>4 DEF Judging
<1>6. CASE j.segment # <<>>
  <2> DEFINE risk == ClassifySegment(j.segment)
  <2>1. /\ risk \in R0..R3
        /\ Expanding(j.segment) => risk = R3
        /\ ~Expanding(j.segment) => risk = ClassifyWords(Texts(j.segment))
    <3>1. ~Expanding(j.segment) => risk = ClassifyWords(Texts(j.segment))
      BY DEF ClassifySegment, Expanding, Texts
    <3>2. Expanding(j.segment) => risk = R3
      BY DEF ClassifySegment, Expanding
    <3>3. ClassifyWords(Texts(j.segment)) \in R0..R3
      BY <1>4, <1>6, ClassifyWordsCovers
    <3> QED
      BY <3>1, <3>2, <3>3 DEF R0, R3
  <2>2. Higher(j.base, risk) \in R0..R3 /\ Higher(j.base, risk) >= j.base
        /\ Higher(j.base, risk) >= risk
    BY <1>3, <2>1 DEF Higher, R0, R3
  <2>3. k = [j EXCEPT !.base = Higher(j.base, risk), !.segment = <<>>, !.command = TRUE]
    BY <1>1, <1>6 DEF EndSegment, Judgement
  <2> DEFINE base == Higher(j.base, risk)
  <2> HIDE DEF j, k, c, risk, base
  <2>4. /\ k \in Judgement /\ k.segment = <<>> /\ k.base = base /\ k.command
        /\ k.redirect = j.redirect /\ k.refused = j.refused /\ k.composed = j.composed
    <3>1. j = [base |-> j.base, segment |-> j.segment, redirect |-> j.redirect,
               composed |-> j.composed, command |-> j.command, refused |-> j.refused]
      BY <1>1 DEF Judgement
    <3>2. k = [base |-> base, segment |-> <<>>, redirect |-> j.redirect,
               composed |-> j.composed, command |-> TRUE, refused |-> j.refused]
      BY <2>3, <3>1 DEF base
    <3>3. base \in R0..R3 /\ <<>> \in Seq(Item)
      BY <2>2 DEF base
    <3> QED
      BY ONLY <1>1, <3>2, <3>3 DEF Judgement
  <2>5. m.beyond => k.refused \/ k.base = R3
    BY <1>1, <1>2, <1>3, <2>1, <2>2, <2>4 DEF Judging, j, R0, R3, base
  <2>6. ASSUME ~m.beyond
        PROVE  k.base >= c.danger /\ k.command = (c.commands > 0)
    <3>1. /\ m.words = Texts(j.segment) /\ m.words # <<>> /\ ~Expanding(j.segment)
          /\ j.base >= m.danger
      BY <1>1, <1>4, <1>6, <2>6 DEF Judging, j
    <3>2. c.danger = Higher(m.danger, Danger(m.words)) /\ c.commands = m.commands + 1
      BY <1>1, <1>2, <3>1, EndCommandFacts DEF c
    <3>3. risk >= Danger(m.words) /\ Danger(m.words) \in R0..R3
      BY <1>4, <2>1, <3>1, ClassifyWordsCovers
    <3>4. m.danger \in R0..R3 /\ m.commands \in Nat /\ k.command \in BOOLEAN
      BY <1>1, <2>4 DEF Meaning, Judgement
    <3>5. k.base >= c.danger
      BY <1>3, <2>1, <2>2, <2>4, <3>1, <3>2, <3>3, <3>4 DEF Higher, R0, R3, base
    <3>6. c.commands > 0
      BY <3>2, <3>4
    <3>7. k.command = TRUE
      BY <2>4, <3>4
    <3> QED
      BY ONLY <3>5, <3>6, <3>7
  <2> QED
    BY <1>1, <2>4, <2>5, <2>6 DEF Judging, j, k, c
<1> QED
  BY <1>5, <1>6

-----------------------------------------------------------------------------
(* Operators.                                                               *)

ChainTexts == {<<";">>, <<"|">>, <<"|", "|">>, <<"&", "&">>}

\* The operators, as items.
LEMMA OperatorTexts ==
  /\ \A text \in ChainTexts \cup Redirections \cup {<<"&">>} : Operator(text) \in Item
  /\ <<"&">> \notin Redirections
  /\ \A text \in ChainTexts : text # <<"&">> /\ text \notin Redirections
  /\ \A text \in Redirections : text # <<>>
  /\ \A a \in {"|", "&", ">"} : Append(<<a>>, a) = <<a, a>>
<1>1. \A text \in ChainTexts \cup Redirections \cup {<<"&">>} : text \in Seq(Operators)
  <2>1. \A a, b \in Operators : <<a>> \in Seq(Operators) /\ <<a, b>> \in Seq(Operators)
    OBVIOUS
  <2>2. \A text \in ChainTexts \cup Redirections \cup {<<"&">>} :
          \E a, b \in Operators : text = <<a>> \/ text = <<a, b>>
    BY DEF ChainTexts, Redirections, Operators
  <2> QED
    BY ONLY <2>1, <2>2
<1>2. Operators \subseteq Piece \cup Special
  BY DEF Special
<1>3. \A text \in ChainTexts \cup Redirections \cup {<<"&">>} : text \in Text
  <2> HIDE DEF ChainTexts, Redirections
  <2> QED
    BY <1>1, <1>2 DEF Text
<1>4. /\ <<"&">> \notin Redirections
      /\ \A text \in ChainTexts : text # <<"&">> /\ text \notin Redirections
  BY DEF ChainTexts, Redirections
<1>5. \A text \in Redirections : text # <<>>
  BY DEF Redirections
<1>6. \A a \in {"|", "&", ">"} : Append(<<a>>, a) = <<a, a>>
  <2>1. ASSUME NEW p, NEW q
        PROVE  <<p, q>> = Append(<<p>>, q)
    <3> DEFINE S == {p, q}
    <3>1. <<p>> \in Seq(S) /\ q \in S
      OBVIOUS
    <3> QED
      BY <3>1
  <2> QED
    BY <2>1
<1> QED
  BY <1>3, <1>4, <1>5, <1>6 DEF Item, Operator

LEMMA OperatorItem ==
  ASSUME NEW s, NEW m, Related(s, "plain", m), s.ok, NEW it \in Item, it.kind = "operator"
  PROVE  /\ Append(s.items, it) \in Seq(Item)
         /\ Judged(Append(s.items, it)) = Judge(Judged(s.items), it)
         /\ WordsOf(Append(s.items, it)) = WordsOf(s.items)
<1>1. s.items \in Seq(Item)
  BY DEF Related, Scanner
<1>2. WordsOf(Append(s.items, it))
        = IF it.kind = "word" THEN Append(WordsOf(s.items), it) ELSE WordsOf(s.items)
  BY <1>1, WordsOfAppend
<1>3. Judged(Append(s.items, it)) = Judge(Judged(s.items), it)
  BY <1>1, JudgedAppend
<1> QED
  BY <1>1, <1>2, <1>3

\* An operator that ends a command, read after its last word has ended.
LEMMA ChainRelated ==
  ASSUME NEW s, NEW m, Related(s, "plain", m), s.ok, ~s.started, s.again = "none",
         NEW text \in ChainTexts \cup {<<"&">>}, NEW t,
         t = [s EXCEPT !.items = Append(@, Operator(text))],
         NEW n \in Meaning, n = [EndCommand(m) EXCEPT !.beyond = n.beyond],
         EndCommand(m).beyond => n.beyond,
         text = <<"&">> => n.beyond,
         n.beyond => EndCommand(m).beyond \/ text = <<"&">>
  PROVE  Related(t, "plain", n)
<1> DEFINE j == Judged(s.items)
           c == EndCommand(m)
           k == EndSegment(j)
           i == Judged(t.items)
           it == Operator(text)
<1>1. /\ s \in Scanner /\ m \in Meaning /\ j \in Judgement
      /\ Reading(s, "plain", m) /\ Judging(s, m)
  BY DEF Related
<1>2. EndWord(m) = m /\ ~s.expands
  BY <1>1 DEF Reading, EndWord
<1>3. /\ c \in Meaning /\ ~c.begun /\ c.words = <<>> /\ c.target = <<>> /\ c.word = m.word
      /\ c.all = m.all /\ c.composed = m.composed /\ c.beyond = (m.beyond \/ m.target # <<>>)
  BY <1>1, <1>2, EndCommandFacts
<1>4. /\ n.begun = c.begun /\ n.words = c.words /\ n.target = c.target /\ n.word = c.word
      /\ n.all = c.all /\ n.composed = c.composed /\ n.danger = c.danger
      /\ n.commands = c.commands
  <2> HIDE DEF c
  <2>1. n = [c EXCEPT !.beyond = n.beyond]
    BY DEF c
  <2> QED
    BY <1>3, <2>1 DEF Meaning
<1>5. it \in Item /\ it.kind = "operator" /\ it.text = text /\ ~it.expands
  BY OperatorTexts DEF Operator
<1>6. /\ Append(s.items, it) \in Seq(Item) /\ Judged(Append(s.items, it)) = Judge(j, it)
      /\ WordsOf(Append(s.items, it)) = WordsOf(s.items)
  BY <1>5, OperatorItem
<1>7. t \in Scanner /\ t.items = Append(s.items, it)
      /\ t.ok /\ ~t.started /\ ~t.expands /\ t.again = "none" /\ t.quote = s.quote
      /\ t.escaped = s.escaped /\ t.comment = s.comment /\ t.boundary = s.boundary
      /\ t.token = s.token /\ t.started = s.started
  <2> HIDE DEF it
  <2>1. t = [s EXCEPT !.items = Append(s.items, it)]
    BY <1>1 DEF it, Scanner
  <2> QED
    BY <1>1, <1>2, <1>6, <2>1 DEF Scanner
<1>8. Reading(t, "plain", n)
  BY <1>1, <1>3, <1>4, <1>6, <1>7 DEF Reading, Scanner, Meaning
<1>9. MayDouble(t, n)
  BY <1>7 DEF MayDouble
<1>10. /\ k \in Judgement /\ k.segment = <<>>
       /\ k.redirect = m.target /\ k.refused = j.refused /\ k.composed = j.composed
       /\ m.beyond => k.refused \/ k.base = R3
       /\ ~m.beyond => k.base >= c.danger /\ k.command = (c.commands > 0)
  BY EndSegmentCovers
<1>11. i = Judge(j, it) /\ j.redirect = m.target
  BY <1>1, <1>6, <1>7 DEF Judging
<1>12. ~m.beyond => ~Expanding(WordsOf(s.items))
  BY <1>1 DEF Judging
<1> HIDE DEF j, c, k, i, it
<1>13. CASE m.target # <<>>
  <2>1. i = [j EXCEPT !.refused = TRUE, !.redirect = <<>>, !.composed = TRUE]
    BY <1>1, <1>5, <1>11, <1>13 DEF Judge, Judgement
  <2>2. i \in Judgement /\ i.refused /\ i.redirect = <<>>
    BY <1>1, <2>1 DEF Judgement
  <2>3. n.beyond
    BY <1>3, <1>13 DEF c
  <2>4. Judging(t, n)
    BY <1>3, <1>4, <2>2, <2>3 DEF Judging, i
  <2> QED
    BY <1>6, <1>7, <1>8, <1>9, <2>2, <2>4, <1>1 DEF Related, i
<1>14. CASE m.target = <<>> /\ text = <<"&">>
  <2>1. i = [j EXCEPT !.refused = TRUE]
    BY <1>5, <1>11, <1>14, OperatorTexts DEF Judge
  <2>2. i \in Judgement /\ i.refused /\ i.redirect = <<>>
    BY <1>1, <1>11, <1>14, <2>1 DEF Judgement
  <2>3. Judging(t, n)
    BY <1>3, <1>4, <1>14, <2>2 DEF Judging, i
  <2> QED
    BY <1>6, <1>7, <1>8, <1>9, <2>2, <2>3, <1>1 DEF Related, i
<1>15. CASE m.target = <<>> /\ text # <<"&">>
  <2>1. text \in ChainTexts
    BY <1>15
  <2>2. i = [k EXCEPT !.composed = TRUE]
    BY <1>5, <1>11, <1>15, <2>1, OperatorTexts DEF Judge, k
  <2>3. /\ i \in Judgement /\ i.redirect = <<>> /\ i.segment = <<>> /\ i.composed
        /\ i.refused = k.refused /\ i.base = k.base /\ i.command = k.command
    BY <1>10, <1>15, <2>2 DEF Judgement
  <2>4. n.beyond = m.beyond
    BY <1>1, <1>3, <1>15 DEF c, Meaning
  <2>5. ~Expanding(i.segment) /\ Texts(i.segment) = <<>>
    BY <2>3 DEF Expanding, Texts
  <2>6. Judging(t, n)
    BY <1>3, <1>4, <1>6, <1>7, <1>10, <1>12, <2>3, <2>4, <2>5 DEF Judging, i
  <2> QED
    BY <1>6, <1>7, <1>8, <1>9, <2>3, <2>6, <1>1 DEF Related, i
<1> QED
  BY <1>13, <1>14, <1>15

\* A redirection, read where none waits for its target.
LEMMA RedirectRelated ==
  ASSUME NEW s, NEW m, Related(s, "plain", m), s.ok, ~s.started, s.again = "none",
         m.target = <<>>, NEW text \in Redirections, NEW t,
         t = [s EXCEPT !.items = Append(@, Operator(text))]
  PROVE  Related(t, "plain", [m EXCEPT !.target = text])
<1> DEFINE j == Judged(s.items)
           n == [m EXCEPT !.target = text]
           i == Judged(t.items)
           it == Operator(text)
<1>1. /\ s \in Scanner /\ m \in Meaning /\ j \in Judgement
      /\ Reading(s, "plain", m) /\ Judging(s, m)
  BY DEF Related
<1>2. ~s.expands
  BY <1>1 DEF Reading
<1>3. /\ n \in Meaning /\ n.begun = m.begun /\ n.words = m.words /\ n.target = text
      /\ n.word = m.word /\ n.all = m.all /\ n.composed = m.composed /\ n.danger = m.danger
      /\ n.commands = m.commands /\ n.beyond = m.beyond
  BY <1>1 DEF Meaning
<1>5. it \in Item /\ it.kind = "operator" /\ it.text = text /\ ~it.expands
  BY OperatorTexts DEF Operator
<1>6. /\ Append(s.items, it) \in Seq(Item) /\ Judged(Append(s.items, it)) = Judge(j, it)
      /\ WordsOf(Append(s.items, it)) = WordsOf(s.items)
  BY <1>5, OperatorItem
<1>7. t \in Scanner /\ t.items = Append(s.items, it)
      /\ t.ok /\ ~t.started /\ ~t.expands /\ t.again = "none" /\ t.quote = s.quote
      /\ t.escaped = s.escaped /\ t.comment = s.comment /\ t.boundary = s.boundary
      /\ t.token = s.token /\ t.started = s.started
  <2> HIDE DEF it
  <2>1. t = [s EXCEPT !.items = Append(s.items, it)]
    BY <1>1 DEF it, Scanner
  <2> QED
    BY <1>1, <1>2, <1>6, <2>1 DEF Scanner
<1>8. Reading(t, "plain", n)
  BY <1>1, <1>3, <1>6, <1>7 DEF Reading, Scanner, Meaning
<1>9. MayDouble(t, n)
  BY <1>7 DEF MayDouble
<1>11. i = Judge(j, it) /\ j.redirect = <<>>
  BY <1>1, <1>6, <1>7 DEF Judging
<1>12. text # <<"&">>
  BY OperatorTexts
<1> HIDE DEF j, i, it, n
<1>13. i = [j EXCEPT !.redirect = text]
  BY <1>5, <1>11, <1>12 DEF Judge
<1>14. /\ i \in Judgement /\ i.redirect = text /\ i.segment = j.segment /\ i.base = j.base
       /\ i.composed = j.composed /\ i.command = j.command /\ i.refused = j.refused
  BY <1>1, <1>13 DEF Judgement
<1>15. Judging(t, n)
  BY <1>1, <1>2, <1>3, <1>6, <1>7, <1>14 DEF Judging, i, j
<1> QED
  BY <1>1, <1>3, <1>6, <1>7, <1>8, <1>9, <1>14, <1>15 DEF Related, i, n

-----------------------------------------------------------------------------
(* Operators of two characters.                                             *)

\* The scanner may note that the operator it has read can be doubled.
LEMMA AgainRelated ==
  ASSUME NEW s, NEW m, Related(s, "plain", m), s.ok, NEW a \in {"none", "|", ">"},
         a # "none" => /\ ~s.started
                       /\ \E items \in Seq(Item) : s.items = Append(items, Operator(<<a>>)),
         a = "|" => m.words = <<>> /\ m.target = <<>>,
         a = ">" => m.target = <<">">>
  PROVE  Related([s EXCEPT !.again = a], "plain", m)
<1> DEFINE t == [s EXCEPT !.again = a]
<1>1. /\ s \in Scanner /\ m \in Meaning
      /\ Reading(s, "plain", m) /\ Judging(s, m)
  BY DEF Related
<1>2. /\ t \in Scanner /\ t.items = s.items /\ t.ok = s.ok /\ t.started = s.started
      /\ t.expands = s.expands /\ t.again = a /\ t.quote = s.quote /\ t.escaped = s.escaped
      /\ t.comment = s.comment /\ t.boundary = s.boundary /\ t.token = s.token
  BY <1>1 DEF Scanner
<1> HIDE DEF t
<1>3. Reading(t, "plain", m)
  BY <1>1, <1>2 DEF Reading
<1>4. Judging(t, m)
  BY <1>1, <1>2 DEF Judging
<1>5. MayDouble(t, m)
  BY <1>1, <1>2 DEF MayDouble, Reading
<1> QED
  BY <1>1, <1>2, <1>3, <1>4, <1>5 DEF Related, t

LEMMA FrontOfAppend ==
  ASSUME NEW S, NEW items \in Seq(S), NEW it \in S
  PROVE  Front(Append(items, it)) = items /\ Last(Append(items, it)) = it
<1> DEFINE longer == Append(items, it)
<1>1. /\ Len(longer) = Len(items) + 1 /\ longer[Len(items) + 1] = it
      /\ \A i \in 1..Len(items) : longer[i] = items[i]
      /\ longer \in Seq(S)
  OBVIOUS
<1> HIDE DEF longer
<1>2. Last(longer) = it
  BY <1>1 DEF Last
<1>3. Front(longer) = SubSeq(longer, 1, Len(items))
  BY <1>1 DEF Front
<1>4. SubSeq(longer, 1, Len(items)) = items
  BY <1>1
<1> QED
  BY <1>2, <1>3, <1>4 DEF longer

\* A second operator character turns the operator before it into a double one.
LEMMA DoubledItems ==
  ASSUME NEW s \in Scanner, NEW items \in Seq(Item), NEW a \in {"|", "&", ">"},
         s.items = Append(items, Operator(<<a>>)), s.again = a
  PROVE  Doubled(s) = [s EXCEPT !.items = Append(items, Operator(<<a, a>>)), !.again = "none"]
<1>1. Operator(<<a>>) \in Item
  BY OperatorTexts DEF ChainTexts, Redirections
<1>2. Front(s.items) = items /\ Last(s.items) = Operator(<<a>>)
  BY <1>1, FrontOfAppend
<1>3. Operator(<<a>>).text = <<a>> /\ Append(<<a>>, a) = <<a, a>>
  BY OperatorTexts DEF Operator
<1> QED
  BY <1>2, <1>3 DEF Doubled

\* The classifier makes no difference between "|" and "||".
LEMMA DoubledPipeRelated ==
  ASSUME NEW s, NEW m, Related(s, "plain", m), s.ok, s.again = "|"
  PROVE  /\ Related(Doubled(s), "plain", m) /\ EndCommand(m) = m
         /\ Doubled(s).ok /\ Doubled(s).again = "none" /\ ~Doubled(s).started
<1>1. /\ s \in Scanner /\ m \in Meaning /\ Reading(s, "plain", m) /\ Judging(s, m)
      /\ ~s.started /\ m.words = <<>> /\ m.target = <<>>
  BY DEF Related, MayDouble
<1>2. PICK items \in Seq(Item) : s.items = Append(items, Operator(<<"|">>))
  BY DEF Related, MayDouble
<1> DEFINE one == Operator(<<"|">>)
           two == Operator(<<"|", "|">>)
           t == Doubled(s)
<1>3. /\ one \in Item /\ two \in Item /\ one.kind = "operator" /\ two.kind = "operator"
      /\ one.expands = two.expands
      /\ one.text # <<"&">> /\ two.text # <<"&">>
      /\ one.text \notin Redirections /\ two.text \notin Redirections
  BY OperatorTexts DEF Operator, ChainTexts
<1>4. t = [s EXCEPT !.items = Append(items, two), !.again = "none"]
  BY <1>1, <1>2, DoubledItems
<1> HIDE DEF one, two, t
<1>5. Append(items, two) \in Seq(Item)
  BY <1>3
<1>6. /\ t \in Scanner /\ t.items = Append(items, two) /\ t.ok = s.ok /\ t.started = s.started
      /\ t.expands = s.expands /\ t.again = "none" /\ t.quote = s.quote /\ t.escaped = s.escaped
      /\ t.comment = s.comment /\ t.boundary = s.boundary /\ t.token = s.token
  BY <1>1, <1>4, <1>5 DEF Scanner
<1>7. WordsOf(s.items) = WordsOf(items) /\ WordsOf(t.items) = WordsOf(items)
  <2>1. /\ WordsOf(Append(items, one))
             = IF one.kind = "word" THEN Append(WordsOf(items), one) ELSE WordsOf(items)
        /\ WordsOf(Append(items, two))
             = IF two.kind = "word" THEN Append(WordsOf(items), two) ELSE WordsOf(items)
    BY <1>3, WordsOfAppend
  <2> QED
    BY <1>2, <1>3, <1>6, <2>1 DEF one
<1>8. Judged(s.items) = Judged(t.items)
  <2>1. /\ Judged(Append(items, one)) = Judge(Judged(items), one)
        /\ Judged(Append(items, two)) = Judge(Judged(items), two)
    BY <1>3, JudgedAppend
  <2>2. Judge(Judged(items), one) = Judge(Judged(items), two)
    BY <1>3 DEF Judge
  <2> QED
    BY <1>2, <1>6, <2>1, <2>2 DEF one
<1>9. Reading(t, "plain", m)
  BY <1>1, <1>6, <1>7 DEF Reading
<1>10. Judging(t, m)
  BY <1>1, <1>6, <1>7, <1>8 DEF Judging
<1>11. MayDouble(t, m)
  BY <1>6 DEF MayDouble
<1>12. Related(t, "plain", m)
  BY <1>1, <1>6, <1>7, <1>8, <1>9, <1>10, <1>11 DEF Related
<1>13. EndWord(m) = m
  BY <1>1 DEF EndWord, Reading
<1>14. EndCommand(m) = m
  BY <1>1, <1>13 DEF EndCommand, Meaning
<1> QED
  BY <1>1, <1>6, <1>12, <1>14 DEF t

-----------------------------------------------------------------------------
(* The text of a word.                                                      *)

\* How a state of the scanner reads the pieces of each kind.

LEMMA ReadFacts ==
  ASSUME NEW s \in Scanner, s.ok, NEW p, p # s.again
  PROVE  LET plain == [s EXCEPT !.again = "none"]
         IN  /\ s.escaped => Read(s, p) = AfterBackslash(plain, p)
             /\ ~s.escaped /\ s.comment => Read(s, p) = InComment(plain, p)
             /\ ~s.escaped /\ ~s.comment /\ s.quote # "none" => Read(s, p) = InQuotes(plain, p)
             /\ ~s.escaped /\ ~s.comment /\ s.quote = "none" => Read(s, p) = Unquoted(plain, p)
BY DEF Read, Scanner

\* A refused line stays refused.
LEMMA RefusedRelated ==
  ASSUME NEW s, NEW q, NEW m, Related(s, q, m), NEW r \in Mode, NEW n \in Meaning, NEW text,
         NEW S, text \in Seq(S), ~s.ok, m.beyond => n.beyond
  PROVE  Related(ReadAll(s, text), r, n)
<1>1. Len(text) \in Nat
  OBVIOUS
<1>2. PICK g : /\ g[0] = s
               /\ \A k \in 1..Len(text) : g[k] = Read(g[k - 1], text[k])
               /\ ReadAll(s, text) = g[Len(text)]
  BY ONLY <1>1, ReadAllUnfolds
<1> DEFINE T == {k \in 0..Len(text) : g[k] = s}
<1>3. 0 \in T
  BY <1>1, <1>2
<1>4. ASSUME NEW k \in 0..(Len(text) - 1), k \in T
      PROVE  k + 1 \in T
  <2>1. g[k + 1] = Read(g[k], text[k + 1])
    BY <1>1, <1>2
  <2> QED
    BY <1>1, <1>4, <2>1 DEF Read
<1>5. Len(text) \in T
  <2> HIDE DEF T
  <2>1. 0..Len(text) \subseteq T
    BY <1>1, <1>3, <1>4, Counting
  <2> QED
    BY <1>1, <2>1
<1>6. ReadAll(s, text) = s
  BY <1>2, <1>5
<1> QED
  BY <1>6 DEF Related

LEMMA SameScanner ==
  ASSUME NEW s \in Scanner, NEW t \in Scanner,
         s.ok = t.ok, s.items = t.items, s.token = t.token, s.started = t.started,
         s.expands = t.expands, s.quote = t.quote, s.escaped = t.escaped,
         s.boundary = t.boundary, s.comment = t.comment, s.again = t.again
  PROVE  s = t
BY DEF Scanner

\* The scanner has read more of the word that is being written.
Written(s, w, r, expands) ==
  [s EXCEPT !.token = s.token \o w, !.started = TRUE, !.boundary = FALSE, !.again = "none",
            !.quote = IF r = "plain" THEN "none" ELSE r, !.expands = expands]

LEMMA PutFacts ==
  ASSUME NEW m \in Meaning, NEW w \in Text, NEW b \in BOOLEAN
  PROVE  /\ [Put(m, w) EXCEPT !.beyond = b] \in Meaning
         /\ [Put(m, w) EXCEPT !.beyond = b]
              = [m EXCEPT !.word = m.word \o w, !.begun = TRUE, !.beyond = b]
         /\ Put(m, w) \in Meaning /\ Put(m, w).beyond = m.beyond
         /\ Put(m, w) = [Put(m, w) EXCEPT !.beyond = m.beyond]
<1>1. m.word \o w \in Text
  BY DEF Meaning, Text
<1> QED
  BY <1>1 DEF Meaning, Put

\* More of a word is related to the word that is meant.
LEMMA WrittenRelated ==
  ASSUME NEW s, NEW q, NEW m, Related(s, q, m), s.ok, NEW r \in Mode, NEW w \in Text,
         NEW expands \in BOOLEAN, s.expands => expands,
         NEW beyond \in BOOLEAN, beyond <=> m.beyond \/ (expands /\ ~s.expands)
  PROVE  Related(Written(s, w, r, expands), r, [Put(m, w) EXCEPT !.beyond = beyond])
<1> DEFINE t == Written(s, w, r, expands)
           n == [Put(m, w) EXCEPT !.beyond = beyond]
<1>1. /\ s \in Scanner /\ m \in Meaning /\ Reading(s, q, m) /\ ~s.escaped /\ ~s.comment
      /\ m.beyond \in BOOLEAN /\ s.token = m.word
  BY DEF Related, Reading, Meaning
<1>3. /\ n \in Meaning /\ n = [m EXCEPT !.word = m.word \o w, !.begun = TRUE, !.beyond = beyond]
  BY <1>1, PutFacts
<1>4. s.token \o w \in Text
  BY <1>1 DEF Scanner, Text
<1> DEFINE quote == IF r = "plain" THEN "none" ELSE r
<1>5. quote \in {"none"} \cup Quotes
  BY DEF Mode
<1> HIDE DEF quote, n
<1>6. /\ t \in Scanner /\ t.ok /\ t.items = s.items /\ t.again = "none" /\ t.quote = quote
      /\ ~t.escaped /\ ~t.comment /\ t.boundary = FALSE /\ t.started = TRUE
      /\ t.expands = expands /\ t.token = s.token \o w
  <2>1. t = [s EXCEPT !.token = s.token \o w, !.started = TRUE, !.boundary = FALSE,
                      !.again = "none", !.quote = quote, !.expands = expands]
    BY DEF quote, Written
  <2> HIDE DEF t
  <2> QED
    BY ONLY <1>1, <1>4, <1>5, <2>1, expands \in BOOLEAN, s.ok DEF Scanner
<1>7. n.word = m.word \o w /\ n.begun = TRUE /\ n.beyond = beyond
  BY ONLY <1>1, <1>3 DEF Meaning
<1>8. n = [m EXCEPT !.word = n.word, !.begun = n.begun, !.beyond = n.beyond]
  BY ONLY <1>3, <1>7
<1> HIDE DEF t
<1>9. Quiet(s, m, t, r, n)
  BY <1>1, <1>3, <1>6, <1>7, <1>8 DEF Quiet, quote
<1> QED
  BY <1>9, QuietRelated DEF t, n

LEMMA WrittenPlainly ==
  ASSUME NEW s, NEW q, NEW m, Related(s, q, m), s.ok, NEW r \in Mode, NEW w \in Text
  PROVE  Related(Written(s, w, r, s.expands), r, Put(m, w))
<1>1. s.expands \in BOOLEAN /\ m.beyond \in BOOLEAN /\ m \in Meaning
  BY DEF Related, Scanner, Meaning
<1>2. Related(Written(s, w, r, s.expands), r, [Put(m, w) EXCEPT !.beyond = m.beyond])
  BY <1>1, WrittenRelated
<1> QED
  BY <1>1, <1>2, PutFacts

-----------------------------------------------------------------------------
(* Literal and escaped pieces.                                              *)

LEMMA WriteFacts ==
  ASSUME NEW s \in Scanner, NEW q, s.quote = (IF q = "plain" THEN "none" ELSE q),
         NEW p \in Piece \cup Special, NEW expands \in BOOLEAN
  PROVE  LET plain == [s EXCEPT !.again = "none"]
         IN  /\ <<p>> \in Text
             /\ Write(plain, p) = Written(s, <<p>>, q, s.expands)
             /\ [Write(plain, p) EXCEPT !.expands = expands] = Written(s, <<p>>, q, expands)
<1>1. Append(s.token, p) = s.token \o <<p>> /\ <<p>> \in Text
  BY DEF Scanner, Text
<1> QED
  BY <1>1 DEF Write, Written, Scanner

LEMMA PieceFacts ==
  /\ Backslash \notin Quotes /\ Backslash \notin {"none", "|", "&", ">"}
  /\ Quotes \cap {"none", "|", "&", ">"} = {}
  /\ Newline \notin {"none", "|", "&", ">"} /\ Blank \notin {"none", "|", "&", ">"}
  /\ "#" \notin {"none", "|", "&", ">"} /\ "~" \notin {"none", "|", "&", ">"}
  /\ Globs \cap {"none", "|", "&", ">"} = {}
  /\ Substitutions \cap {"none", "|", "&", ">"} = {}
  /\ Parentheses \cap {"none", "|", "&", ">"} = {}
  /\ "none" \notin Piece
  /\ {"|", "&", ">"} \subseteq Special \ {"#", "~"}
BY PieceAssumption
DEF Backslash, Quotes, Single, Double, Newline, Blank, Globs, Substitutions, Parentheses,
    Special, Operators

LEMMA RelatedFacts ==
  ASSUME NEW s, NEW q, NEW m, Related(s, q, m), s.ok
  PROVE  /\ s \in Scanner /\ m \in Meaning /\ q \in Mode
         /\ s.quote = (IF q = "plain" THEN "none" ELSE q)
         /\ ~s.escaped /\ ~s.comment /\ s.boundary = ~s.started
         /\ s.started = m.begun /\ s.expands \in BOOLEAN /\ m.beyond \in BOOLEAN
         /\ q # "plain" => s.started
         /\ s.expands => m.beyond
         /\ s.again \in {"none", "|", ">"}
         /\ s.again # "none" => q = "plain" /\ ~s.started
<1>1. /\ s \in Scanner /\ m \in Meaning /\ q \in Mode
      /\ Reading(s, q, m) /\ Judging(s, m) /\ MayDouble(s, m)
  BY DEF Related
<1>2. q \in Quotes => q # "none"
  BY DEF Quotes, Single, Double
<1> QED
  BY <1>1, <1>2 DEF Reading, Judging, MayDouble, Scanner, Meaning, Mode

\* A piece that is literal where it stands is read as itself.
LEMMA LiteralRelated ==
  ASSUME NEW s, NEW q, NEW m, Related(s, q, m), s.ok, NEW p \in Piece,
         \/ q = "plain" /\ p \notin (IF m.begun THEN Special \ {"#", "~"} ELSE Special)
         \/ q = Single /\ p # Single
         \/ q = Double /\ p \notin Escapable
  PROVE  Related(ReadAll(s, <<p>>), q, Put(m, <<p>>))
<1> DEFINE plain == [s EXCEPT !.again = "none"]
<1>1. /\ s \in Scanner /\ m \in Meaning /\ q \in Mode
      /\ s.quote = (IF q = "plain" THEN "none" ELSE q)
      /\ ~s.escaped /\ ~s.comment /\ s.boundary = ~s.started
      /\ s.started = m.begun /\ s.expands \in BOOLEAN /\ m.beyond \in BOOLEAN
      /\ s.again \in {"none", "|", ">"}
      /\ s.again # "none" => q = "plain"
  BY RelatedFacts
<1>2. p # s.again
  <2>1. CASE s.again = "none"
    BY <2>1, PieceFacts
  <2>2. CASE s.again # "none"
    <3>1. p \notin Special \ {"#", "~"}
      BY <1>1, <2>2 DEF Single, Double
    <3> QED
      BY <1>1, <2>2, <3>1, PieceFacts
  <2> QED
    BY <2>1, <2>2
<1>3. /\ <<p>> \in Text
      /\ Write(plain, p) = Written(s, <<p>>, q, s.expands)
      /\ [Write(plain, p) EXCEPT !.expands = s.expands] = Written(s, <<p>>, q, s.expands)
  BY <1>1, WriteFacts
<1>4. /\ plain.quote = s.quote /\ plain.boundary = s.boundary /\ plain.started = s.started
      /\ plain.expands = s.expands
  BY <1>1 DEF Scanner
<1>5. Read(s, p) = Written(s, <<p>>, q, s.expands)
  <2>1. CASE q = "plain"
    <3>1. Read(s, p) = Unquoted(plain, p)
      BY <1>1, <1>2, <2>1, ReadFacts
    <3>2. /\ p # Backslash /\ p \notin Quotes /\ p \notin Substitutions \cup Parentheses
          /\ p # Newline /\ p # Blank /\ p \notin Operators /\ p \notin Globs
          /\ (p = "#" => ~plain.boundary) /\ (p = "~" => plain.started)
      BY <1>1, <1>4, <2>1 DEF Special, Quotes, Operators, Substitutions, Parentheses, Globs,
         Backslash, Newline, Blank, Single, Double
    <3> HIDE DEF plain
    <3>3. Unquoted(plain, p)
            = [Write(plain, p) EXCEPT !.expands = @ \/ (p \in Globs \/ (p = "~" /\ ~plain.started))]
      BY <3>2 DEF Unquoted
    <3>4. Write(plain, p).expands = plain.expands
      BY <1>1 DEF Write, plain, Scanner
    <3>5. Unquoted(plain, p) = [Write(plain, p) EXCEPT !.expands = s.expands]
      BY <1>1, <1>4, <3>2, <3>3, <3>4
    <3> QED
      BY <1>3, <3>1, <3>5
  <2>2. CASE q \in Quotes
    <3>1. q # "none" /\ q # "plain"
      BY <2>2 DEF Quotes, Single, Double
    <3>2. Read(s, p) = InQuotes(plain, p)
      BY <1>1, <1>2, <2>2, <3>1, ReadFacts
    <3>3. p # plain.quote /\ ~(plain.quote = Double /\ p = Backslash)
          /\ ~(plain.quote = Double /\ p \in Substitutions)
      BY <1>1, <1>4, <2>2, <3>1 DEF Quotes, Escapable, Single, Double
    <3> HIDE DEF plain
    <3>4. InQuotes(plain, p) = Write(plain, p)
      BY <3>3 DEF InQuotes
    <3> QED
      BY <1>3, <3>2, <3>4
  <2> QED
    BY <1>1, <2>1, <2>2 DEF Mode
<1>6. Related(Read(s, p), q, Put(m, <<p>>))
  BY <1>1, <1>3, <1>5, WrittenPlainly
<1> QED
  BY <1>6, ReadOne

\* A backslash makes the next piece literal; between double quotes it stays before
\* those it does not escape.
LEMMA EscapedRelated ==
  ASSUME NEW s, NEW q, NEW m, Related(s, q, m), s.ok, NEW p \in Piece,
         q \in {"plain", Double}, p # Newline,
         NEW w, w = IF q = Double /\ p \notin Escapable THEN <<Backslash, p>> ELSE <<p>>
  PROVE  Related(ReadAll(s, <<Backslash, p>>), q, Put(m, w))
<1> DEFINE plain == [s EXCEPT !.again = "none"]
           e == [s EXCEPT !.again = "none", !.escaped = TRUE]
<1>1. /\ s \in Scanner /\ m \in Meaning /\ q \in Mode
      /\ s.quote = (IF q = "plain" THEN "none" ELSE q)
      /\ ~s.escaped /\ ~s.comment
      /\ s.expands \in BOOLEAN /\ m.beyond \in BOOLEAN /\ s.again \in {"none", "|", ">"}
  BY RelatedFacts
<1>2. Backslash # s.again /\ p # "none" /\ Backslash \in Special /\ Double # "plain"
      /\ Double # "none" /\ Backslash # Double
  BY <1>1, PieceFacts DEF Special, Double, Quotes
<1>3. Read(s, Backslash) = e
  <2>1. [plain EXCEPT !.escaped = TRUE] = e
    OBVIOUS
  <2>2. plain.quote = s.quote
    BY <1>1 DEF Scanner
  <2>3. Unquoted(plain, Backslash) = [plain EXCEPT !.escaped = TRUE]
    BY DEF Unquoted, Quotes, Single, Double, Backslash, Substitutions, Parentheses, Newline,
           Blank, Operators
  <2>4. s.quote = Double => InQuotes(plain, Backslash) = [plain EXCEPT !.escaped = TRUE]
    BY <1>2, <2>2 DEF InQuotes, Substitutions, Backslash
  <2> HIDE DEF plain, e
  <2> QED
    BY <1>1, <1>2, <2>1, <2>3, <2>4, ReadFacts DEF plain
<1>4. /\ e \in Scanner /\ e.ok /\ e.escaped /\ e.again = "none" /\ e.quote = s.quote
      /\ [e EXCEPT !.again = "none"] = e
  BY <1>1 DEF Scanner
<1>5. Read(e, p) = AfterBackslash(e, p)
  BY <1>2, <1>4, ReadFacts
<1>6. w \in Text /\ <<p>> \in Text
  <2>1. p \in Piece \cup Special /\ Backslash \in Piece \cup Special
    BY <1>2
  <2>2. <<Backslash, p>> \in Seq(Piece \cup Special) /\ <<p>> \in Seq(Piece \cup Special)
    BY ONLY <2>1
  <2> QED
    BY <2>2 DEF Text
<1>7. AfterBackslash(e, p) = Written(s, w, q, s.expands)
  <2> DEFINE token == s.token \o w
             quote == IF q = "plain" THEN "none" ELSE q
  <2>1. /\ AfterBackslash(e, p)
              = [e EXCEPT !.token = token, !.started = TRUE, !.boundary = FALSE, !.escaped = FALSE]
    <3>1. CASE q = Double /\ p \notin Escapable
      <4>1. AfterBackslash(e, p) = [Write(Write(e, Backslash), p) EXCEPT !.escaped = FALSE]
        BY <1>1, <1>2, <1>4, <3>1 DEF AfterBackslash
      <4>2. Append(Append(s.token, Backslash), p) = token
        BY <1>1, <1>2, <3>1 DEF Scanner, Text
      <4>3. e.token = s.token
        BY <1>1 DEF Scanner
      <4> HIDE DEF e, token
      <4> QED
        BY <1>4, <4>1, <4>2, <4>3 DEF Write, Scanner
    <3>2. CASE ~(q = Double /\ p \notin Escapable)
      <4>1. AfterBackslash(e, p) = [Write(e, p) EXCEPT !.escaped = FALSE]
        BY <1>1, <1>2, <1>4, <3>2 DEF AfterBackslash
      <4>2. Append(s.token, p) = token
        BY <1>1, <3>2 DEF Scanner, Text
      <4>3. e.token = s.token
        BY <1>1 DEF Scanner
      <4> HIDE DEF e, token
      <4> QED
        BY <1>4, <4>1, <4>2, <4>3 DEF Write, Scanner
    <3> QED
      BY <3>1, <3>2
  <2>2. Written(s, w, q, s.expands)
          = [s EXCEPT !.token = token, !.started = TRUE, !.boundary = FALSE, !.again = "none",
                      !.quote = quote, !.expands = s.expands]
    BY DEF Written
  <2>3. token \in Text /\ quote = s.quote /\ quote \in {"none"} \cup Quotes
    BY <1>1, <1>6 DEF Scanner, Text
  <2> HIDE DEF token, quote
  <2>4. LET t == AfterBackslash(e, p)
        IN  /\ t \in Scanner /\ t.ok = s.ok /\ t.items = s.items /\ t.token = token
            /\ t.started = TRUE /\ t.expands = s.expands /\ t.quote = quote
            /\ t.escaped = FALSE /\ t.boundary = FALSE /\ t.comment = s.comment
            /\ t.again = "none"
    BY <1>1, <2>1, <2>3 DEF Scanner
  <2>5. LET t == Written(s, w, q, s.expands)
        IN  /\ t \in Scanner /\ t.ok = s.ok /\ t.items = s.items /\ t.token = token
            /\ t.started = TRUE /\ t.expands = s.expands /\ t.quote = quote
            /\ t.escaped = FALSE /\ t.boundary = FALSE /\ t.comment = s.comment
            /\ t.again = "none"
    <3> DEFINE t == Written(s, w, q, s.expands)
    <3>1. t \in Scanner
      BY ONLY <1>1, <2>2, <2>3 DEF Scanner
    <3>2. s.escaped = FALSE
      BY ONLY <1>1 DEF Scanner
    <3> QED
      BY ONLY <1>1, <2>2, <3>1, <3>2 DEF Scanner
  <2> QED
    BY ONLY <2>4, <2>5, SameScanner
<1> HIDE DEF e
<1>9. Related(Read(Read(s, Backslash), p), q, Put(m, w))
  BY <1>1, <1>3, <1>5, <1>6, <1>7, WrittenPlainly
<1> QED
  BY <1>9, ReadTwo

\* A backslash before the end of a line joins it with the next.
LEMMA JoinLinesRelated ==
  ASSUME NEW s, NEW q, NEW m, Related(s, q, m), s.ok, q \in {"plain", Double}
  PROVE  Related(ReadAll(s, <<Backslash, Newline>>), q, m)
<1> DEFINE plain == [s EXCEPT !.again = "none"]
           e == [s EXCEPT !.again = "none", !.escaped = TRUE]
<1>1. /\ s \in Scanner /\ m \in Meaning /\ q \in Mode
      /\ s.quote = (IF q = "plain" THEN "none" ELSE q)
      /\ ~s.escaped /\ ~s.comment /\ s.boundary = ~s.started /\ s.started = m.begun
      /\ q # "plain" => s.started
      /\ s.expands \in BOOLEAN /\ m.beyond \in BOOLEAN /\ s.again \in {"none", "|", ">"}
  BY RelatedFacts
<1>2. Backslash # s.again /\ Double # "plain" /\ Double # "none" /\ Backslash # Double
      /\ Newline # "none"
  BY <1>1, PieceFacts DEF Double, Quotes
<1>3. Read(s, Backslash) = e
  <2>1. [plain EXCEPT !.escaped = TRUE] = e
    OBVIOUS
  <2>2. plain.quote = s.quote
    BY <1>1 DEF Scanner
  <2>3. Unquoted(plain, Backslash) = [plain EXCEPT !.escaped = TRUE]
    BY DEF Unquoted, Quotes, Single, Double, Backslash, Substitutions, Parentheses, Newline,
           Blank, Operators
  <2>4. s.quote = Double => InQuotes(plain, Backslash) = [plain EXCEPT !.escaped = TRUE]
    BY <1>2, <2>2 DEF InQuotes, Substitutions, Backslash
  <2> HIDE DEF plain, e
  <2> QED
    BY <1>1, <1>2, <2>1, <2>3, <2>4, ReadFacts DEF plain
<1>4. /\ e \in Scanner /\ e.ok /\ e.escaped /\ e.again = "none" /\ e.quote = s.quote
      /\ [e EXCEPT !.again = "none"] = e
  BY <1>1 DEF Scanner
<1>5. Read(e, Newline) = [e EXCEPT !.escaped = FALSE]
  BY <1>2, <1>4, ReadFacts DEF AfterBackslash
<1> DEFINE t == [s EXCEPT !.again = "none"]
<1>6. [e EXCEPT !.escaped = FALSE] = t
  BY <1>1 DEF Scanner
<1>7. /\ t \in Scanner /\ t.items = s.items /\ t.ok /\ t.started = s.started
      /\ t.expands = s.expands /\ t.again = "none" /\ t.quote = s.quote /\ t.escaped = s.escaped
      /\ t.comment = s.comment /\ t.boundary = s.boundary /\ t.token = s.token
  BY <1>1 DEF Scanner
<1>8. s.token = m.word /\ (s.expands => s.started)
      /\ m = [m EXCEPT !.word = m.word, !.begun = m.begun, !.beyond = m.beyond]
  BY <1>1 DEF Related, Reading, Meaning
<1> HIDE DEF e, t
<1>9. Quiet(s, m, t, q, m)
  BY <1>1, <1>7, <1>8 DEF Quiet
<1>10. Related(Read(Read(s, Backslash), Newline), q, m)
  BY <1>3, <1>5, <1>6, <1>9, QuietRelated
<1> QED
  BY <1>10, ReadTwo

-----------------------------------------------------------------------------
(* Quotes.                                                                  *)

\* Since s, the scanner t has read "token" of a word, and is in this kind of quotes.
InWord(t, s, token, quote, expands) ==
  /\ t \in Scanner /\ t.ok /\ t.items = s.items /\ t.token = token /\ t.started
  /\ t.expands = expands /\ t.quote = quote
  /\ ~t.escaped /\ ~t.boundary /\ ~t.comment /\ t.again = "none"

LEMMA InWordRelated ==
  ASSUME NEW s, NEW q, NEW m, Related(s, q, m), s.ok, NEW r \in Mode, NEW w \in Text, NEW t,
         InWord(t, s, s.token \o w, IF r = "plain" THEN "none" ELSE r, s.expands)
  PROVE  Related(t, r, Put(m, w))
<1> DEFINE n == Put(m, w)
<1>1. /\ s \in Scanner /\ m \in Meaning /\ s.token = m.word
      /\ m.beyond \in BOOLEAN /\ s.expands \in BOOLEAN
  BY DEF Related, Reading, Meaning, Scanner
<1>2. n \in Meaning /\ n.beyond = m.beyond
  BY <1>1, PutFacts
<1>3. n = [m EXCEPT !.word = m.word \o w, !.begun = TRUE]
  BY DEF Put
<1>4. n.word = m.word \o w /\ n.begun = TRUE
  BY ONLY <1>1, <1>3 DEF Meaning
<1>5. n = [m EXCEPT !.word = n.word, !.begun = n.begun, !.beyond = n.beyond]
  BY ONLY <1>1, <1>2, <1>3, <1>4 DEF Meaning
<1> HIDE DEF n
<1>6. t.started = TRUE /\ t.boundary = FALSE
  BY DEF InWord, Scanner
<1>7. Quiet(s, m, t, r, n)
  BY <1>1, <1>2, <1>4, <1>5, <1>6 DEF Quiet, InWord
<1> QED
  BY <1>7, QuietRelated DEF n

LEMMA QuotesAreNothingElse ==
  ASSUME NEW q \in Quotes
  PROVE  /\ q # "none" /\ q # Backslash /\ q \notin Substitutions \cup Parentheses
         /\ q \notin Substitutions /\ q # "#" /\ q # Newline /\ q # Blank /\ q \notin Operators
         /\ q # "plain"
BY DEF Quotes, Single, Double, Backslash, Substitutions, Parentheses, Newline, Blank, Operators

\* Into quotes, along them and out of them.
LEMMA InWordOpens ==
  ASSUME NEW s, NEW t, NEW token, NEW expands, NEW q \in Quotes,
         InWord(t, s, token, "none", expands)
  PROVE  InWord(Read(t, q), s, token, q, expands)
<1> DEFINE plain == [t EXCEPT !.again = "none"]
           u == [plain EXCEPT !.quote = q, !.started = TRUE, !.boundary = FALSE]
<1>1. t \in Scanner /\ t.ok /\ t.again = "none" /\ ~t.escaped /\ ~t.comment /\ t.quote = "none"
  BY DEF InWord
<1>2. q # "none" /\ q # Backslash
  BY PieceFacts
<1>3. Read(t, q) = Unquoted(plain, q)
  BY <1>1, <1>2, ReadFacts
<1> HIDE DEF plain
<1>4. Unquoted(plain, q) = u
  BY QuotesAreNothingElse DEF Unquoted
<1>5. u \in Scanner /\ u.ok /\ u.items = t.items /\ u.token = t.token /\ u.started = TRUE
      /\ u.expands = t.expands /\ u.quote = q /\ u.escaped = t.escaped /\ u.boundary = FALSE
      /\ u.comment = t.comment /\ u.again = "none"
  <2>1. /\ plain \in Scanner /\ plain.ok = t.ok /\ plain.items = t.items /\ plain.token = t.token
        /\ plain.expands = t.expands /\ plain.escaped = t.escaped /\ plain.comment = t.comment
        /\ plain.again = "none"
    BY <1>1 DEF plain, Scanner
  <2> QED
    BY <1>1, <2>1 DEF Scanner
<1> HIDE DEF u
<1> QED
  BY <1>3, <1>4, <1>5 DEF InWord

LEMMA InWordReads ==
  ASSUME NEW s, NEW t, NEW token, NEW expands, NEW q \in Quotes, NEW p \in Piece,
         InWord(t, s, token, q, expands), p # q, q = Double => p \notin Escapable
  PROVE  InWord(Read(t, p), s, Append(token, p), q, expands)
<1> DEFINE plain == [t EXCEPT !.again = "none"]
           u == Write(plain, p)
<1>1. t \in Scanner /\ t.ok /\ t.again = "none" /\ ~t.escaped /\ ~t.comment /\ t.quote = q
  BY DEF InWord
<1>2. p # "none" /\ q # "none"
  BY PieceFacts
<1>3. Read(t, p) = InQuotes(plain, p)
  BY <1>1, <1>2, ReadFacts
<1>4. /\ plain \in Scanner /\ plain.ok = t.ok /\ plain.items = t.items /\ plain.token = t.token
      /\ plain.expands = t.expands /\ plain.escaped = t.escaped /\ plain.comment = t.comment
      /\ plain.again = "none" /\ plain.quote = t.quote
  BY <1>1 DEF Scanner
<1>5. Append(t.token, p) \in Text
  BY <1>1 DEF Scanner, Text
<1> HIDE DEF plain
<1>6. InQuotes(plain, p) = u
  BY <1>1, <1>4 DEF InQuotes, Escapable
<1>7. u = [plain EXCEPT !.token = Append(t.token, p), !.started = TRUE, !.boundary = FALSE]
  BY <1>4 DEF Write
<1>8. u \in Scanner /\ u.ok /\ u.items = t.items /\ u.token = Append(t.token, p)
      /\ u.started = TRUE
      /\ u.expands = t.expands /\ u.quote = q /\ u.escaped = t.escaped /\ u.boundary = FALSE
      /\ u.comment = t.comment /\ u.again = "none"
  <2> HIDE DEF u
  <2> QED
    BY <1>1, <1>4, <1>5, <1>7 DEF Scanner
<1> HIDE DEF u
<1> QED
  BY <1>3, <1>6, <1>8 DEF InWord

LEMMA InWordCloses ==
  ASSUME NEW s, NEW t, NEW token, NEW expands, NEW q \in Quotes,
         InWord(t, s, token, q, expands)
  PROVE  InWord(Read(t, q), s, token, "none", expands)
<1> DEFINE plain == [t EXCEPT !.again = "none"]
           u == [plain EXCEPT !.quote = "none"]
<1>1. t \in Scanner /\ t.ok /\ t.again = "none" /\ ~t.escaped /\ ~t.comment /\ t.quote = q
  BY DEF InWord
<1>2. q # "none"
  BY PieceFacts
<1>3. Read(t, q) = InQuotes(plain, q)
  BY <1>1, <1>2, ReadFacts
<1>4. /\ plain \in Scanner /\ plain.ok = t.ok /\ plain.items = t.items /\ plain.token = t.token
      /\ plain.expands = t.expands /\ plain.escaped = t.escaped /\ plain.comment = t.comment
      /\ plain.again = "none" /\ plain.quote = t.quote /\ plain.started = t.started
      /\ plain.boundary = t.boundary
  BY <1>1 DEF Scanner
<1> HIDE DEF plain
<1>5. InQuotes(plain, q) = u
  BY <1>1, <1>4, QuotesAreNothingElse DEF InQuotes
<1>6. u \in Scanner /\ u.ok /\ u.items = t.items /\ u.token = t.token /\ u.started = t.started
      /\ u.expands = t.expands /\ u.quote = "none" /\ u.escaped = t.escaped
      /\ u.boundary = t.boundary /\ u.comment = t.comment /\ u.again = "none"
  BY <1>1, <1>4 DEF Scanner
<1> HIDE DEF u
<1> QED
  BY <1>3, <1>5, <1>6 DEF InWord

\* The quote that begins a quoted part of a word, which may also begin the word.
LEMMA OpeningInWord ==
  ASSUME NEW s, NEW m, Related(s, "plain", m), s.ok, NEW q \in Quotes
  PROVE  InWord(Read(s, q), s, s.token \o <<>>, q, s.expands)
<1> DEFINE plain == [s EXCEPT !.again = "none"]
           u == [plain EXCEPT !.quote = q, !.started = TRUE, !.boundary = FALSE]
<1>1. /\ s \in Scanner /\ ~s.escaped /\ ~s.comment /\ s.quote = "none"
      /\ s.again \in {"none", "|", ">"}
  BY RelatedFacts
<1>2. q # "none" /\ q # Backslash /\ q # s.again
  BY <1>1, PieceFacts
<1>3. Read(s, q) = Unquoted(plain, q)
  BY <1>1, <1>2, ReadFacts
<1>4. s.token \o <<>> = s.token
  BY <1>1 DEF Scanner, Text
<1>5. /\ plain \in Scanner /\ plain.ok = s.ok /\ plain.items = s.items /\ plain.token = s.token
      /\ plain.expands = s.expands /\ plain.escaped = s.escaped /\ plain.comment = s.comment
      /\ plain.again = "none"
  BY <1>1 DEF Scanner
<1> HIDE DEF plain
<1>6. Unquoted(plain, q) = u
  BY QuotesAreNothingElse DEF Unquoted
<1>7. u \in Scanner /\ u.ok = s.ok /\ u.items = s.items /\ u.token = s.token /\ u.started = TRUE
      /\ u.expands = s.expands /\ u.quote = q /\ u.escaped = s.escaped /\ u.boundary = FALSE
      /\ u.comment = s.comment /\ u.again = "none"
  BY <1>1, <1>5 DEF Scanner
<1> HIDE DEF u
<1> QED
  BY <1>1, <1>3, <1>4, <1>6, <1>7 DEF InWord

LEMMA OpenQuotesRelated ==
  ASSUME NEW s, NEW m, Related(s, "plain", m), s.ok, NEW q \in Quotes
  PROVE  Related(ReadAll(s, <<q>>), q, Put(m, <<>>))
<1>1. <<>> \in Text /\ q \in Mode /\ q # "plain"
  BY QuotesAreNothingElse DEF Text, Mode
<1>2. InWord(Read(s, q), s, s.token \o <<>>, IF q = "plain" THEN "none" ELSE q, s.expands)
  BY <1>1, OpeningInWord
<1>3. Related(Read(s, q), q, Put(m, <<>>))
  BY <1>1, <1>2, InWordRelated
<1> QED
  BY <1>3, ReadOne

LEMMA CloseQuotesRelated ==
  ASSUME NEW s, NEW q \in Quotes, NEW m, Related(s, q, m), s.ok
  PROVE  Related(ReadAll(s, <<q>>), "plain", m)
<1>1. /\ s \in Scanner /\ m \in Meaning /\ s.quote = q /\ q # "plain" /\ q # "none"
      /\ ~s.escaped /\ ~s.comment /\ s.boundary = ~s.started /\ s.started = m.begun
      /\ s.started /\ s.again = "none"
  <2>1. q # "plain" /\ q # "none"
    BY DEF Quotes, Single, Double
  <2> QED
    BY <2>1, RelatedFacts
<1>2. InWord(s, s, s.token, q, s.expands)
  BY <1>1 DEF InWord, Scanner
<1>3. InWord(Read(s, q), s, s.token, "none", s.expands)
  BY <1>2, InWordCloses
<1>4. /\ s.token = m.word /\ m.begun = TRUE /\ "plain" \in Mode
      /\ m = [m EXCEPT !.word = m.word, !.begun = m.begun, !.beyond = m.beyond]
  BY <1>1 DEF Related, Reading, Meaning, Mode
<1>5. ASSUME NEW t, InWord(t, s, s.token, "none", s.expands)
      PROVE  Quiet(s, m, t, "plain", m)
  <2>1. t.started = TRUE /\ t.boundary = FALSE
    BY <1>5 DEF InWord, Scanner
  <2> QED
    BY <1>1, <1>4, <1>5, <2>1 DEF Quiet, InWord
<1>6. Related(Read(s, q), "plain", m)
  BY <1>3, <1>5, QuietRelated
<1> QED
  BY <1>6, ReadOne

-----------------------------------------------------------------------------
(* What ShellQuote writes.                                                  *)

LEMMA ReadFiveMore ==
  ASSUME NEW s, NEW S, NEW text \in Seq(S),
         NEW a \in S, NEW b \in S, NEW c \in S, NEW d \in S, NEW e \in S
  PROVE  /\ text \o <<a, b, c, d, e>> \in Seq(S)
         /\ ReadAll(s, text \o <<a, b, c, d, e>>)
              = Read(Read(Read(Read(Read(ReadAll(s, text), a), b), c), d), e)
<1> DEFINE one == Append(text, a)
           two == Append(one, b)
           three == Append(two, c)
           four == Append(three, d)
           five == Append(four, e)
<1>1. one \in Seq(S) /\ two \in Seq(S) /\ three \in Seq(S) /\ four \in Seq(S) /\ five \in Seq(S)
  OBVIOUS
<1>2. text \o <<a, b, c, d, e>> = five
  OBVIOUS
<1> HIDE DEF one, two, three, four, five
<1>3. ReadAll(s, one) = Read(ReadAll(s, text), a)
  BY ReadAllAppend DEF one
<1>4. ReadAll(s, two) = Read(ReadAll(s, one), b)
  BY <1>1, ReadAllAppend DEF two
<1>5. ReadAll(s, three) = Read(ReadAll(s, two), c)
  BY <1>1, ReadAllAppend DEF three
<1>6. ReadAll(s, four) = Read(ReadAll(s, three), d)
  BY <1>1, ReadAllAppend DEF four
<1>7. ReadAll(s, five) = Read(ReadAll(s, four), e)
  BY <1>1, ReadAllAppend DEF five
<1> QED
  BY <1>1, <1>2, <1>3, <1>4, <1>5, <1>6, <1>7

\* A word that ShellQuote spells is read as that word.
LEMMA QuoteRelated ==
  ASSUME NEW s, NEW m, Related(s, "plain", m), s.ok, NEW w \in Seq(Piece)
  PROVE  Related(ReadAll(s, ShellQuote(w)), "plain", Put(m, w))
<1> DEFINE P == Piece \cup Special
<1>1. Len(w) \in Nat /\ s.token \in Seq(P) /\ w \in Seq(P)
  <2>1. s.token \in Seq(P)
    BY DEF Related, Scanner, Text
  <2> QED
    BY <2>1
<1>2. PICK g : /\ g[0] = <<Single>>
               /\ \A n \in 1..Len(w) :
                    g[n] = g[n - 1] \o (IF w[n] = Single
                                        THEN <<Single, Double, Single, Double, Single>>
                                        ELSE <<w[n]>>)
               /\ ShellQuote(w) = Append(g[Len(w)], Single)
  BY ONLY <1>1, ShellQuoteUnfolds
<1>3. Single \in P /\ Double \in P /\ Single \in Quotes /\ Double \in Quotes /\ Single # Double
  BY DEF Special, Quotes, Single, Double
<1> DEFINE T == {k \in 0..Len(w) :
                   /\ g[k] \in Seq(P)
                   /\ InWord(ReadAll(s, g[k]), s, s.token \o SubSeq(w, 1, k), Single, s.expands)}
<1>4. 0 \in T
  <2>1. SubSeq(w, 1, 0) = <<>> /\ <<Single>> \in Seq(P)
    BY <1>3
  <2>2. InWord(Read(s, Single), s, s.token \o <<>>, Single, s.expands)
    BY <1>3, OpeningInWord
  <2>3. ReadAll(s, <<Single>>) = Read(s, Single)
    BY ReadOne
  <2>4. g[0] = <<Single>> /\ 0 \in 0..Len(w)
    BY <1>1, <1>2
  <2> QED
    BY ONLY <2>1, <2>2, <2>3, <2>4
<1>5. ASSUME NEW k \in 0..(Len(w) - 1), k \in T
      PROVE  k + 1 \in T
  <2> DEFINE t == ReadAll(s, g[k])
             token == s.token \o SubSeq(w, 1, k)
             p == w[k + 1]
  <2>1. g[k] \in Seq(P) /\ InWord(t, s, token, Single, s.expands)
    BY <1>5
  <2>2. /\ p \in Piece /\ p \in P /\ k + 1 \in 0..Len(w)
        /\ g[k + 1] = g[k] \o (IF p = Single THEN <<Single, Double, Single, Double, Single>>
                                             ELSE <<p>>)
    <3>1. k + 1 \in 1..Len(w) /\ (k + 1) - 1 = k /\ k + 1 \in 0..Len(w)
      BY <1>1
    <3>2. p \in Piece /\ p \in P
      BY <3>1
    <3>3. g[k + 1] = g[(k + 1) - 1] \o (IF w[k + 1] = Single
                                       THEN <<Single, Double, Single, Double, Single>>
                                       ELSE <<w[k + 1]>>)
      BY ONLY <1>2, <3>1
    <3> QED
      BY ONLY <3>1, <3>2, <3>3
  <2>3. Append(token, p) = s.token \o SubSeq(w, 1, k + 1)
    <3>1. SubSeq(w, 1, k + 1) = Append(SubSeq(w, 1, k), p)
      BY <1>1
    <3>2. SubSeq(w, 1, k) \in Seq(P)
      BY <1>1
    <3> HIDE DEF P, p, T, t, token
    <3>3. Append(s.token \o SubSeq(w, 1, k), p) = s.token \o Append(SubSeq(w, 1, k), p)
      <4>1. s.token \in Seq(P) /\ p \in P
        BY <1>1, <2>2
      <4> DEFINE a == s.token
                 b == SubSeq(w, 1, k)
      <4>2. a \in Seq(P) /\ b \in Seq(P) /\ p \in P
        BY <3>2, <4>1
      <4> HIDE DEF a, b
      <4>3. Append(a \o b, p) = a \o Append(b, p)
        BY ONLY <4>2
      <4> QED
        BY <4>3 DEF a, b
    <3> QED
      BY <3>1, <3>3 DEF token
  <2> HIDE DEF P, t, token, p, T
  <2>4. CASE p # Single
    <3>1. g[k + 1] = Append(g[k], p)
      BY <2>1, <2>2, <2>4
    <3>2. g[k + 1] \in Seq(P)
      <4>1. g[k] \in Seq(P) /\ p \in P
        BY <2>1, <2>2
      <4>2. Append(g[k], p) \in Seq(P)
        BY ONLY <4>1
      <4> QED
        BY <3>1, <4>2
    <3>3. ReadAll(s, Append(g[k], p)) = Read(ReadAll(s, g[k]), p)
      BY ONLY <2>1, <2>2, ReadAllAppend
    <3>4. InWord(Read(t, p), s, Append(token, p), Single, s.expands)
      BY <1>3, <2>1, <2>2, <2>4, InWordReads
    <3> QED
      BY <2>2, <2>3, <3>1, <3>2, <3>3, <3>4 DEF t, T
  <2>5. CASE p = Single
    <3> DEFINE a == Read(t, Single)
               b == Read(a, Double)
               c == Read(b, Single)
               d == Read(c, Double)
               e == Read(d, Single)
    <3>1. g[k + 1] \in Seq(P) /\ ReadAll(s, g[k + 1]) = e
      BY <1>3, <2>1, <2>2, <2>5, ReadFiveMore DEF t
    <3>2. InWord(a, s, token, "none", s.expands)
      BY <1>3, <2>1, InWordCloses
    <3> HIDE DEF a
    <3>3. InWord(b, s, token, Double, s.expands)
      BY <1>3, <3>2, InWordOpens
    <3> HIDE DEF b
    <3>4. InWord(c, s, Append(token, Single), Double, s.expands)
      <4>1. Single \notin Escapable /\ Single \in Piece
        BY <2>2, <2>5 DEF Escapable, Substitutions, Single, Double, Backslash
      <4> QED
        BY <1>3, <3>3, <4>1, InWordReads
    <3> HIDE DEF c
    <3>5. InWord(d, s, Append(token, Single), "none", s.expands)
      BY <1>3, <3>4, InWordCloses
    <3> HIDE DEF d
    <3>6. InWord(e, s, Append(token, Single), Single, s.expands)
      BY <1>3, <3>5, InWordOpens
    <3> HIDE DEF e
    <3> QED
      BY <2>2, <2>3, <2>5, <3>1, <3>6 DEF T
  <2> QED
    BY <2>4, <2>5
<1>6. Len(w) \in T
  <2> HIDE DEF T
  <2>1. 0..Len(w) \subseteq T
    BY <1>1, <1>4, <1>5, Counting
  <2> QED
    BY <1>1, <2>1
<1> DEFINE t == ReadAll(s, g[Len(w)])
<1>7. /\ g[Len(w)] \in Seq(P) /\ SubSeq(w, 1, Len(w)) = w
      /\ InWord(t, s, s.token \o SubSeq(w, 1, Len(w)), Single, s.expands)
  BY <1>1, <1>6
<1>8. ReadAll(s, ShellQuote(w)) = Read(t, Single)
  BY <1>2, <1>3, <1>7, ReadAllAppend
<1> HIDE DEF t
<1>9. InWord(Read(t, Single), s, s.token \o w, "none", s.expands)
  BY <1>3, <1>7, InWordCloses
<1>10. "plain" \in Mode /\ w \in Text
  BY <1>1 DEF Mode, Text
<1> HIDE DEF P, T
<1>11. Related(Read(t, Single), "plain", Put(m, w))
  BY <1>9, <1>10, InWordRelated
<1> QED
  BY <1>8, <1>11

-----------------------------------------------------------------------------
(* What the server would expand, and blanks.                                *)

\* A glob, or a tilde at the start of a word, is noted as something to expand.
LEMMA ExpandRelated ==
  ASSUME NEW s, NEW m, Related(s, "plain", m), s.ok, NEW p, p \in Globs \/ (p = "~" /\ ~m.begun)
  PROVE  Related(ReadAll(s, <<p>>), "plain", [Put(m, <<p>>) EXCEPT !.beyond = TRUE])
<1> DEFINE plain == [s EXCEPT !.again = "none"]
<1>1. /\ s \in Scanner /\ m \in Meaning /\ "plain" \in Mode
      /\ s.quote = (IF "plain" = "plain" THEN "none" ELSE "plain")
      /\ ~s.escaped /\ ~s.comment /\ s.started = m.begun
      /\ s.expands \in BOOLEAN /\ m.beyond \in BOOLEAN
      /\ s.expands => m.beyond
      /\ s.again \in {"none", "|", ">"}
  BY RelatedFacts
<1>2. /\ p # s.again /\ p \in Piece \cup Special
      /\ p # Backslash /\ p \notin Quotes /\ p \notin Substitutions \cup Parentheses /\ p # "#"
      /\ p # Newline /\ p # Blank /\ p \notin Operators
  BY <1>1 DEF Special, Quotes, Operators, Substitutions, Parentheses, Globs,
              Backslash, Newline, Blank, Single, Double
<1>3. Read(s, p) = Unquoted(plain, p)
  BY <1>1, <1>2, ReadFacts
<1>4. plain.started = s.started
  BY <1>1 DEF Scanner
<1>5. p \in Globs \/ (p = "~" /\ ~plain.started)
  BY <1>1, <1>4
<1>6. [Write(plain, p) EXCEPT !.expands = TRUE] = Written(s, <<p>>, "plain", TRUE) /\ <<p>> \in Text
  <2>1. TRUE \in BOOLEAN
    OBVIOUS
  <2> HIDE DEF plain
  <2> QED
    BY <1>1, <1>2, <2>1, WriteFacts DEF plain
<1> HIDE DEF plain
<1>7. Unquoted(plain, p) = [Write(plain, p) EXCEPT !.expands = TRUE]
  <2>1. Unquoted(plain, p)
          = [Write(plain, p) EXCEPT !.expands = @ \/ (p \in Globs \/ (p = "~" /\ ~plain.started))]
    BY <1>2 DEF Unquoted
  <2> QED
    BY <1>5, <2>1
<1>8. Related(Written(s, <<p>>, "plain", TRUE), "plain", [Put(m, <<p>>) EXCEPT !.beyond = TRUE])
  <2>1. TRUE \in BOOLEAN /\ (TRUE <=> m.beyond \/ (TRUE /\ ~s.expands))
    BY <1>1
  <2> QED
    BY <1>1, <1>6, <2>1, WrittenRelated
<1> QED
  BY <1>3, <1>6, <1>7, <1>8, ReadOne

LEMMA RefusingRelated ==
  ASSUME NEW q \in Mode, NEW m \in Meaning, m.beyond
  PROVE  Related(Refused, q, m)
<1>1. Judged(<<>>) = Unjudged /\ WordsOf(<<>>) = <<>>
  <2>1. Len(<<>>) = 0 /\ Len(<<>>) \in Nat
    OBVIOUS
  <2>2. Judged(<<>>) = Unjudged
    BY <2>1, JudgedUnfolds
  <2>3. WordsOf(<<>>) = <<>>
    BY <2>1, WordsOfUnfolds
  <2> QED
    BY <2>2, <2>3
<1>2. Unjudged \in Judgement
  BY DEF Unjudged, Judgement, R0, R3
<1>3. Refused \in Scanner /\ ~Refused.ok /\ Refused.items = <<>>
  <2>1. <<>> \in Text /\ <<>> \in Seq(Item)
    BY DEF Text
  <2>2. Started \in Scanner /\ Started.items = <<>>
    BY <2>1 DEF Started, Scanner
  <2> HIDE DEF Started
  <2> QED
    BY <2>2 DEF Refused, Scanner
<1>4. <<>> \in Seq(Item)
  OBVIOUS
<1> QED
  BY <1>1, <1>2, <1>3, <1>4 DEF Related

\* A substitution is refused wherever the shell would make it.
LEMMA SubstituteRelated ==
  ASSUME NEW s, NEW q, NEW m, Related(s, q, m), s.ok, NEW p,
         (p \in Substitutions /\ q # Single) \/ (p \in Parentheses /\ q = "plain")
  PROVE  Related(ReadAll(s, <<p>>), q, [m EXCEPT !.beyond = TRUE])
<1> DEFINE plain == [s EXCEPT !.again = "none"]
<1>1. /\ s \in Scanner /\ m \in Meaning /\ q \in Mode
      /\ s.quote = (IF q = "plain" THEN "none" ELSE q)
      /\ ~s.escaped /\ ~s.comment /\ s.again \in {"none", "|", ">"}
  BY RelatedFacts
<1>2. /\ p # s.again /\ p \in Substitutions \cup Parentheses
      /\ p # Backslash /\ p \notin Quotes /\ p # "#" /\ p # Newline /\ p # Blank
      /\ p \notin Operators
  BY <1>1 DEF Quotes, Operators, Substitutions, Parentheses, Backslash, Newline, Blank,
              Single, Double
<1>3. plain.quote = s.quote
  BY <1>1 DEF Scanner
<1> HIDE DEF plain
<1>4. Read(s, p) = Refused
  <2>1. CASE q = "plain"
    <3>1. Read(s, p) = Unquoted(plain, p)
      BY <1>1, <1>2, <2>1, ReadFacts DEF plain
    <3> QED
      BY <1>2, <3>1 DEF Unquoted
  <2>2. CASE q # "plain"
    <3>1. q = Double /\ s.quote = Double /\ s.quote # "none" /\ p \in Substitutions
      BY <1>1, <2>2 DEF Mode, Quotes, Single, Double
    <3>2. Read(s, p) = InQuotes(plain, p)
      BY <1>1, <1>2, <3>1, ReadFacts DEF plain
    <3>3. p # plain.quote
      BY <1>2, <1>3, <3>1 DEF Quotes
    <3> QED
      BY <1>2, <1>3, <3>1, <3>2, <3>3 DEF InQuotes
  <2> QED
    BY <2>1, <2>2
<1>5. [m EXCEPT !.beyond = TRUE] \in Meaning /\ [m EXCEPT !.beyond = TRUE].beyond
  BY <1>1 DEF Meaning
<1>6. Related(Refused, q, [m EXCEPT !.beyond = TRUE])
  BY <1>1, <1>5, RefusingRelated
<1> QED
  BY <1>4, <1>6, ReadOne

LEMMA SeparateRelated ==
  ASSUME NEW s, NEW m, Related(s, "plain", m), s.ok
  PROVE  Related(ReadAll(s, <<Blank>>), "plain", EndWord(m))
<1> DEFINE plain == [s EXCEPT !.again = "none"]
           t == [Flush(plain) EXCEPT !.boundary = TRUE]
<1>1. /\ s \in Scanner /\ s.quote = "none"
      /\ ~s.escaped /\ ~s.comment /\ s.again \in {"none", "|", ">"}
  BY RelatedFacts
<1>2. Blank # s.again
  BY <1>1, PieceFacts
<1>3. Read(s, Blank) = Unquoted(plain, Blank)
  BY <1>1, <1>2, ReadFacts
<1>4. Related(t, "plain", EndWord(m))
  BY FlushRelated
<1> HIDE DEF plain
<1>5. Unquoted(plain, Blank) = t
  BY DEF Unquoted, Quotes, Operators, Substitutions, Parentheses, Backslash, Newline, Blank,
         Single, Double
<1> QED
  BY <1>3, <1>4, <1>5, ReadOne

-----------------------------------------------------------------------------
(* Operators where they stand in the line.                                  *)

\* The scanner s, with the word that ends here among its items.
Ended(s) == [Flush([s EXCEPT !.again = "none"]) EXCEPT !.boundary = TRUE]

\* ... and an operator after it.
After(s, text) == AddOperator([s EXCEPT !.again = "none"], text)

LEMMA AfterFacts ==
  ASSUME NEW s, NEW m, Related(s, "plain", m), s.ok,
         NEW text \in ChainTexts \cup Redirections \cup {<<"&">>}
  PROVE  /\ Related(Ended(s), "plain", EndWord(m))
         /\ Ended(s).ok /\ ~Ended(s).started /\ Ended(s).again = "none"
         /\ After(s, text) = [Ended(s) EXCEPT !.items = Append(@, Operator(text))]
         /\ After(s, text) \in Scanner /\ After(s, text).again = "none"
         /\ Ended(s).items \in Seq(Item)
         /\ After(s, text).items = Append(Ended(s).items, Operator(text))
<1> DEFINE plain == [s EXCEPT !.again = "none"]
           f == Flush(plain)
           t == Ended(s)
<1>1. s \in Scanner /\ Related(t, "plain", EndWord(m)) /\ t.ok /\ ~t.started /\ t.again = "none"
  BY FlushRelated, RelatedFacts DEF Ended
<1>2. t \in Scanner
  BY <1>1 DEF Related
<1>3. f \in Scanner
  <2>1. plain \in Scanner
    BY <1>1 DEF Scanner
  <2> HIDE DEF plain
  <2>2. Word(plain.token, plain.expands) \in Item /\ <<>> \in Text
    BY <2>1 DEF Word, Item, Scanner, Text
  <2> DEFINE it == Word(plain.token, plain.expands)
  <2>3. Append(plain.items, it) \in Seq(Item)
    BY <2>1, <2>2 DEF Scanner
  <2>4. f = IF plain.started
            THEN [plain EXCEPT !.items = Append(plain.items, it), !.token = <<>>,
                               !.started = FALSE, !.expands = FALSE]
            ELSE plain
    BY DEF Flush
  <2> HIDE DEF it, f
  <2> QED
    BY <2>1, <2>2, <2>3, <2>4 DEF Scanner
<1>4. t = [f EXCEPT !.boundary = TRUE]
  BY DEF Ended
<1>5. After(s, text) = [f EXCEPT !.items = Append(f.items, Operator(text)), !.boundary = TRUE]
  BY DEF After, AddOperator
<1>6. Operator(text) \in Item
  BY OperatorTexts
<1> HIDE DEF f, t
<1>7. t.items = f.items /\ t.items \in Seq(Item)
  BY <1>2, <1>3, <1>4 DEF Scanner
<1> DEFINE items == Append(t.items, Operator(text))
<1>8. items \in Seq(Item)
  BY <1>6, <1>7
<1>9. After(s, text) = [t EXCEPT !.items = items]
  <2> HIDE DEF items
  <2>1. After(s, text) = [f EXCEPT !.items = items, !.boundary = TRUE]
    BY <1>5, <1>7 DEF items
  <2> QED
    BY ONLY <1>3, <1>4, <2>1 DEF Scanner
<1> HIDE DEF items
<1>10. /\ After(s, text) \in Scanner /\ After(s, text).again = t.again
       /\ After(s, text).items = items
  BY <1>2, <1>8, <1>9 DEF Scanner
<1> QED
  BY <1>1, <1>7, <1>9, <1>10 DEF t, items

\* An operator after the word that it ends.
LEMMA AfterChainRelated ==
  ASSUME NEW s, NEW m, Related(s, "plain", m), s.ok, NEW text \in ChainTexts
  PROVE  Related(After(s, text), "plain", EndCommand(m))
<1> DEFINE e == EndWord(m)
           c == EndCommand(m)
           t == Ended(s)
<1>1. /\ Related(t, "plain", e) /\ t.ok /\ ~t.started /\ t.again = "none"
      /\ After(s, text) = [t EXCEPT !.items = Append(@, Operator(text))]
  BY AfterFacts
<1>2. m \in Meaning
  BY DEF Related
<1>3. EndCommand(e) = c /\ c \in Meaning
  BY <1>2, EndCommandFacts
<1>4. c = [c EXCEPT !.beyond = c.beyond]
  BY <1>3 DEF Meaning
<1>5. text # <<"&">> /\ text \in ChainTexts \cup {<<"&">>}
  BY OperatorTexts
<1> DEFINE u == After(s, text)
<1>6. u = [t EXCEPT !.items = Append(@, Operator(text))]
  BY <1>1
<1> HIDE DEF e, c, t, u
<1>7. EndCommand(e).beyond => c.beyond /\ (c.beyond => EndCommand(e).beyond)
  BY <1>3
<1>8. Related(u, "plain", c)
  BY <1>1, <1>3, <1>4, <1>5, <1>6, <1>7, ChainRelated
<1> QED
  BY <1>8 DEF u, c

LEMMA AfterBackgroundRelated ==
  ASSUME NEW s, NEW m, Related(s, "plain", m), s.ok
  PROVE  Related(After(s, <<"&">>), "plain", [EndCommand(m) EXCEPT !.beyond = TRUE])
<1> DEFINE e == EndWord(m)
           c == EndCommand(m)
           t == Ended(s)
           n == [c EXCEPT !.beyond = TRUE]
           text == <<"&">>
<1>1. /\ Related(t, "plain", e) /\ t.ok /\ ~t.started /\ t.again = "none"
      /\ After(s, text) = [t EXCEPT !.items = Append(@, Operator(text))]
  BY AfterFacts
<1>2. m \in Meaning
  BY DEF Related
<1>3. EndCommand(e) = c /\ c \in Meaning
  BY <1>2, EndCommandFacts
<1> HIDE DEF c
<1>4. n \in Meaning /\ n.beyond /\ n = [c EXCEPT !.beyond = n.beyond]
  BY <1>3 DEF Meaning
<1>5. text \in ChainTexts \cup {<<"&">>}
  OBVIOUS
<1> DEFINE u == After(s, text)
<1> HIDE DEF e, t, u, n, text
<1>6. Related(u, "plain", n)
  BY <1>1, <1>3, <1>4, <1>5, ChainRelated DEF u, text
<1> QED
  BY <1>6 DEF u, c, n, text

LEMMA AfterRedirectRelated ==
  ASSUME NEW s, NEW m, Related(s, "plain", m), s.ok, NEW text \in Redirections,
         EndWord(m).target = <<>>
  PROVE  Related(After(s, text), "plain", [EndWord(m) EXCEPT !.target = text])
<1> DEFINE e == EndWord(m)
           t == Ended(s)
           u == After(s, text)
<1>1. /\ Related(t, "plain", e) /\ t.ok /\ ~t.started /\ t.again = "none"
      /\ u = [t EXCEPT !.items = Append(@, Operator(text))]
  BY AfterFacts
<1> HIDE DEF e, t, u
<1>2. e.target = <<>>
  BY DEF e
<1>3. Related(u, "plain", [e EXCEPT !.target = text])
  BY <1>1, <1>2, RedirectRelated
<1> QED
  BY <1>3 DEF e, u

\* An operator that may be doubled waits for the next piece.
LEMMA ReadOperator ==
  ASSUME NEW s, NEW m, Related(s, "plain", m), s.ok, NEW p \in Operators, p # s.again
  PROVE  Read(s, p) = [After(s, <<p>>) EXCEPT !.again = IF p \in {"|", "&", ">"} THEN p ELSE "none"]
<1> DEFINE plain == [s EXCEPT !.again = "none"]
<1>1. s \in Scanner /\ s.quote = "none" /\ ~s.escaped /\ ~s.comment
  BY RelatedFacts
<1>2. Read(s, p) = Unquoted(plain, p)
  BY <1>1, ReadFacts
<1>3. /\ p # Backslash /\ p \notin Quotes /\ p \notin Substitutions \cup Parentheses /\ p # "#"
      /\ p # Newline /\ p # Blank
  BY DEF Quotes, Operators, Substitutions, Parentheses, Backslash, Newline, Blank,
         Single, Double
<1>4. Unquoted(plain, p)
        = [AddOperator(plain, <<p>>) EXCEPT !.again = IF p \in {"|", "&", ">"} THEN p ELSE "none"]
  <2> HIDE DEF plain
  <2> QED
    BY <1>3 DEF Unquoted
<1> QED
  BY <1>2, <1>4 DEF After

\* Two of the same character are one operator.
LEMMA ReadDoubled ==
  ASSUME NEW s, NEW m, Related(s, "plain", m), s.ok, NEW a \in {"|", "&", ">"}, a # s.again
  PROVE  ReadAll(s, <<a, a>>) = After(s, <<a, a>>)
<1> DEFINE t == Ended(s)
           one == After(s, <<a>>)
           two == After(s, <<a, a>>)
           u == [one EXCEPT !.again = a]
<1>1. /\ <<a>> \in ChainTexts \cup Redirections \cup {<<"&">>}
      /\ <<a, a>> \in ChainTexts \cup Redirections \cup {<<"&">>}
  BY DEF ChainTexts, Redirections
<1>2. /\ t \in Scanner /\ t.items \in Seq(Item) /\ one \in Scanner /\ two \in Scanner
      /\ t.ok /\ t.again = "none"
      /\ one = [t EXCEPT !.items = Append(@, Operator(<<a>>))]
      /\ two = [t EXCEPT !.items = Append(@, Operator(<<a, a>>))]
  BY <1>1, AfterFacts DEF Related
<1>3. Read(s, a) = u
  <2>1. a \in Operators
    BY DEF Operators
  <2> QED
    BY <2>1, ReadOperator
<1> DEFINE it == Operator(<<a>>)
           dd == Operator(<<a, a>>)
<1>4. it \in Item /\ dd \in Item
  BY <1>1, OperatorTexts
<1>5. Append(t.items, it) \in Seq(Item) /\ Append(t.items, dd) \in Seq(Item)
  BY <1>2, <1>4
<1> HIDE DEF t, one, two, it, dd
<1>6. /\ one = [t EXCEPT !.items = Append(t.items, it)]
      /\ two = [t EXCEPT !.items = Append(t.items, dd)]
  BY <1>2 DEF it, dd
<1>7. /\ u \in Scanner /\ u.ok /\ u.again = a /\ u.items = Append(t.items, it)
  BY <1>2, <1>5, <1>6 DEF Scanner
<1>8. [u EXCEPT !.items = Append(t.items, dd), !.again = "none"] = two
  BY <1>2, <1>5, <1>6 DEF Scanner
<1> HIDE DEF u
<1>9. Read(u, a) = Doubled(u)
  BY <1>7 DEF Read
<1>10. Doubled(u) = [u EXCEPT !.items = Append(t.items, dd), !.again = "none"]
  <2> DEFINE items == t.items
  <2>1. items \in Seq(Item) /\ u.items = Append(items, it)
    BY <1>2, <1>7
  <2> HIDE DEF items
  <2>2. Front(u.items) = items /\ Last(u.items) = it
    BY <1>4, <2>1, FrontOfAppend
  <2>3. it.text = <<a>>
    BY DEF it, Operator
  <2>4. Append(<<a>>, a) = <<a, a>>
    BY OperatorTexts
  <2>5. Doubled(u) = [u EXCEPT !.items = Append(items, Operator(Append(it.text, u.again))),
                               !.again = "none"]
    BY <2>2 DEF Doubled
  <2>6. Operator(Append(it.text, u.again)) = dd
    BY <1>7, <2>3, <2>4 DEF dd
  <2> QED
    BY <2>5, <2>6 DEF items
<1> QED
  BY <1>3, <1>8, <1>9, <1>10, ReadTwo DEF two

-----------------------------------------------------------------------------
(* The operators that the line can go on with.                              *)

\* An operator that cannot be doubled.
LEMMA ReadSingle ==
  ASSUME NEW s, NEW m, Related(s, "plain", m), s.ok, NEW p \in {";", "<"}
  PROVE  Read(s, p) = After(s, <<p>>)
<1> DEFINE u == After(s, <<p>>)
<1>1. p # s.again /\ p \in Operators /\ p \notin {"|", "&", ">"}
  BY RelatedFacts DEF Operators
<1>2. Read(s, p) = [u EXCEPT !.again = "none"]
  BY <1>1, ReadOperator
<1>3. <<p>> \in ChainTexts \cup Redirections \cup {<<"&">>}
  BY DEF ChainTexts, Redirections
<1>4. u \in Scanner /\ u.again = "none"
  BY <1>3, AfterFacts
<1> HIDE DEF u
<1>5. [u EXCEPT !.again = "none"] = u
  BY <1>4 DEF Scanner
<1> QED
  BY <1>2, <1>5 DEF u

\* A line end ends a command.
LEMMA NewlineRelated ==
  ASSUME NEW s, NEW m, Related(s, "plain", m), s.ok
  PROVE  Related(Read(s, Newline), "plain", EndCommand(m))
<1> DEFINE plain == [s EXCEPT !.again = "none"]
<1>1. s \in Scanner /\ s.quote = "none" /\ ~s.escaped /\ ~s.comment /\ Newline # s.again
  BY RelatedFacts, PieceFacts
<1>2. Read(s, Newline) = Unquoted(plain, Newline)
  BY <1>1, ReadFacts
<1>3. Unquoted(plain, Newline) = AddOperator(plain, <<";">>)
  <2> HIDE DEF plain
  <2> QED
    BY DEF Unquoted, Quotes, Operators, Substitutions, Parentheses, Backslash, Newline, Blank,
           Single, Double
<1>4. <<";">> \in ChainTexts
  BY DEF ChainTexts
<1>5. Related(After(s, <<";">>), "plain", EndCommand(m))
  BY <1>4, AfterChainRelated
<1> QED
  BY <1>2, <1>3, <1>5 DEF After

LEMMA EndCommandTwice ==
  ASSUME NEW m \in Meaning
  PROVE  EndCommand(EndCommand(m)) = EndCommand(m)
<1> DEFINE c == EndCommand(m)
<1>1. c \in Meaning /\ ~c.begun /\ c.words = <<>> /\ c.target = <<>>
  BY EndCommandFacts
<1> HIDE DEF c
<1>2. EndWord(c) = c
  BY <1>1 DEF EndWord
<1>3. EndCommand(c)
        = [c EXCEPT !.beyond = c.beyond \/ c.target # <<>>, !.target = <<>>, !.words = <<>>]
  BY <1>1, <1>2 DEF EndCommand
<1>4. (c.beyond \/ c.target # <<>>) = c.beyond
  BY <1>1 DEF Meaning
<1> QED
  BY <1>1, <1>3, <1>4 DEF Meaning, c

\* A bar, also one that doubles the bar before it.
LEMMA PipeRelated ==
  ASSUME NEW s, NEW m, Related(s, "plain", m), s.ok
  PROVE  Related(Read(s, "|"), "plain", EndCommand(m)) /\ Read(s, "|").ok
<1>1. s.again \in {"none", "|", ">"} /\ m \in Meaning /\ s \in Scanner
  BY RelatedFacts
<1>2. CASE s.again = "|"
  <2>1. Read(s, "|") = Doubled(s)
    BY <1>2 DEF Read
  <2> QED
    BY <1>2, <2>1, DoubledPipeRelated
<1>3. CASE s.again # "|"
  <2> DEFINE u == After(s, <<"|">>)
             c == EndCommand(m)
             items == Ended(s).items
             a == "|"
  <2>1. <<"|">> \in ChainTexts
    BY DEF ChainTexts
  <2>2. Related(u, "plain", c)
    BY <2>1, AfterChainRelated
  <2>3. /\ u \in Scanner /\ u.again = "none" /\ items \in Seq(Item)
        /\ u.items = Append(items, Operator(<<a>>)) /\ Ended(s).ok /\ ~Ended(s).started
        /\ u = [Ended(s) EXCEPT !.items = Append(@, Operator(<<a>>))]
        /\ Ended(s) \in Scanner
    BY <2>1, AfterFacts DEF Related
  <2>4. u.ok /\ ~u.started
    BY <2>3 DEF Scanner
  <2>5. c.words = <<>> /\ c.target = <<>>
    BY <1>1, EndCommandFacts
  <2>6. Read(s, "|") = [u EXCEPT !.again = "|"]
    <3>1. "|" \in Operators
      BY DEF Operators
    <3> QED
      BY <1>3, <3>1, ReadOperator
  <2> HIDE DEF u, c, items, a
  <2>7. Related([u EXCEPT !.again = a], "plain", c)
    <3>1. a \in {"none", "|", ">"} /\ a # ">"
      BY DEF a
    <3> QED
      BY <2>2, <2>3, <2>4, <2>5, <3>1, AgainRelated
  <2>8. [u EXCEPT !.again = a].ok
    BY <2>3, <2>4 DEF Scanner
  <2> QED
    BY <2>6, <2>7, <2>8 DEF a, c
<1> QED
  BY <1>2, <1>3

LEMMA ReadTwice ==
  ASSUME NEW s, NEW p
  PROVE  ReadAll(s, <<p, p>>) = Read(Read(s, p), p)
<1> DEFINE q == p
<1> HIDE DEF q
<1>1. ReadAll(s, <<p, q>>) = Read(Read(s, p), q)
  BY ReadTwo
<1> QED
  BY <1>1 DEF q

\* Each operator of the shell that ends a command.
LEMMA ChainingRelated ==
  ASSUME NEW s, NEW m, Related(s, "plain", m), s.ok,
         NEW op \in {<<Newline>>, <<";">>, <<"|">>, <<"|", "|">>, <<"&", "&">>}
  PROVE  Related(ReadAll(s, op), "plain", EndCommand(m))
<1>1. m \in Meaning /\ s.again \in {"none", "|", ">"}
  BY RelatedFacts
<1>2. CASE op = <<Newline>>
  <2>1. ReadAll(s, <<Newline>>) = Read(s, Newline)
    BY ReadOne
  <2> QED
    BY <1>2, <2>1, NewlineRelated
<1>3. CASE op = <<";">>
  <2>1. ReadAll(s, <<";">>) = Read(s, ";") /\ Read(s, ";") = After(s, <<";">>)
    BY ReadOne, ReadSingle
  <2>2. <<";">> \in ChainTexts
    BY DEF ChainTexts
  <2>3. Related(After(s, <<";">>), "plain", EndCommand(m))
    BY <2>2, AfterChainRelated
  <2> QED
    BY <1>3, <2>1, <2>3
<1>4. CASE op = <<"|">>
  <2>1. ReadAll(s, <<"|">>) = Read(s, "|")
    BY ReadOne
  <2> QED
    BY <1>4, <2>1, PipeRelated
<1>5. CASE op = <<"|", "|">>
  <2> DEFINE t == Read(s, "|")
             c == EndCommand(m)
  <2>1. ReadAll(s, <<"|", "|">>) = Read(t, "|")
    BY ReadTwice
  <2>2. Related(t, "plain", c) /\ t.ok
    BY PipeRelated
  <2>3. EndCommand(c) = c
    BY <1>1, EndCommandTwice
  <2> HIDE DEF t, c
  <2>4. Related(Read(t, "|"), "plain", EndCommand(c))
    BY <2>2, PipeRelated
  <2> QED
    BY <1>5, <2>1, <2>3, <2>4 DEF c
<1>6. CASE op = <<"&", "&">>
  <2>1. "&" \in {"|", "&", ">"} /\ "&" # s.again
    BY <1>1
  <2>2. ReadAll(s, <<"&", "&">>) = After(s, <<"&", "&">>)
    BY <2>1, ReadDoubled
  <2>3. <<"&", "&">> \in ChainTexts
    BY DEF ChainTexts
  <2>4. Related(After(s, <<"&", "&">>), "plain", EndCommand(m))
    BY <2>3, AfterChainRelated
  <2> QED
    BY <1>6, <2>2, <2>4
<1> QED
  BY <1>2, <1>3, <1>4, <1>5, <1>6

\* Each redirection.
LEMMA RedirectingRelated ==
  ASSUME NEW s, NEW m, Related(s, "plain", m), s.ok, NEW op \in Redirections,
         EndWord(m).target = <<>>
  PROVE  Related(ReadAll(s, op), "plain", [EndWord(m) EXCEPT !.target = op])
<1> DEFINE n == [EndWord(m) EXCEPT !.target = op]
           u == After(s, op)
<1>1. m \in Meaning /\ s.again \in {"none", "|", ">"} /\ s.again # ">"
  <2>1. s.again = ">" => ~m.begun /\ m.target = <<">">>
    BY DEF Related, MayDouble, Reading
  <2>2. s.again # ">"
    BY <2>1, OperatorTexts DEF EndWord, Redirections
  <2> QED
    BY <2>2, RelatedFacts
<1>2. Related(u, "plain", n)
  BY AfterRedirectRelated
<1>3. CASE op = <<"<">>
  <2>1. ReadAll(s, <<"<">>) = Read(s, "<") /\ Read(s, "<") = After(s, <<"<">>)
    BY ReadOne, ReadSingle
  <2> QED
    BY <1>2, <1>3, <2>1
<1>4. CASE op = <<">", ">">>
  <2>1. ">" \in {"|", "&", ">"} /\ ">" # s.again
    BY <1>1
  <2>2. ReadAll(s, <<">", ">">>) = After(s, <<">", ">">>)
    BY <2>1, ReadDoubled
  <2> QED
    BY <1>2, <1>4, <2>2
<1>5. CASE op = <<">">>
  <2> DEFINE items == Ended(s).items
             a == ">"
  <2>1. ReadAll(s, <<">">>) = Read(s, ">")
    BY ReadOne
  <2>2. /\ u \in Scanner /\ u.again = "none" /\ items \in Seq(Item)
        /\ u.items = Append(items, Operator(<<a>>)) /\ Ended(s).ok /\ ~Ended(s).started
        /\ u = [Ended(s) EXCEPT !.items = Append(@, Operator(<<a>>))]
        /\ Ended(s) \in Scanner
    BY <1>5, AfterFacts DEF Related
  <2>3. u.ok /\ ~u.started
    BY <2>2 DEF Scanner
  <2>4. n.target = <<a>>
    <3>1. EndWord(m) \in Meaning
      BY <1>1, EndWordType
    <3> QED
      BY <1>5, <3>1 DEF Meaning
  <2>5. Read(s, ">") = [u EXCEPT !.again = ">"]
    <3>1. ">" \in Operators /\ ">" # s.again
      BY <1>1 DEF Operators
    <3> QED
      BY <1>5, <3>1, ReadOperator
  <2> HIDE DEF u, n, items, a
  <2>6. Related([u EXCEPT !.again = a], "plain", n)
    <3>1. a \in {"none", "|", ">"} /\ a = ">" /\ a # "|"
      BY DEF a
    <3> QED
      BY <1>2, <2>2, <2>3, <2>4, <3>1, AgainRelated
  <2> QED
    BY <1>5, <2>1, <2>5, <2>6 DEF a, n
<1> QED
  BY <1>3, <1>4, <1>5 DEF Redirections

\* A single ampersand, which Classify refuses.
LEMMA BackgroundRelated ==
  ASSUME NEW s, NEW m, Related(s, "plain", m), s.ok
  PROVE  Related(ReadAll(s, <<"&", Blank>>), "plain", [EndCommand(m) EXCEPT !.beyond = TRUE])
<1> DEFINE u == After(s, <<"&">>)
           v == [u EXCEPT !.again = "&"]
           n == [EndCommand(m) EXCEPT !.beyond = TRUE]
<1>1. Related(u, "plain", n)
  BY AfterBackgroundRelated
<1>2. /\ u \in Scanner /\ u.again = "none" /\ Ended(s).ok /\ ~Ended(s).started
      /\ u = [Ended(s) EXCEPT !.items = Append(@, Operator(<<"&">>))]
      /\ Ended(s) \in Scanner
  BY AfterFacts DEF Related
<1>3. u.ok /\ ~u.started
  BY <1>2 DEF Scanner
<1>4. Read(s, "&") = v
  <2>1. "&" \in Operators /\ "&" # s.again
    BY RelatedFacts DEF Operators
  <2> QED
    BY <2>1, ReadOperator
<1> HIDE DEF u, n
<1>5. u.quote = "none" /\ ~u.escaped /\ ~u.comment /\ u.boundary = TRUE
  BY <1>1, <1>3, RelatedFacts
<1>6. v \in Scanner /\ v.ok /\ v.again = "&" /\ v.quote = "none" /\ ~v.escaped /\ ~v.comment
      /\ [v EXCEPT !.again = "none"] = u
  BY <1>2, <1>3, <1>5 DEF Scanner
<1> HIDE DEF v
<1>7. Read(v, Blank) = Unquoted(u, Blank)
  <2>1. Blank # v.again
    BY <1>6, PieceFacts
  <2> QED
    BY <1>6, <2>1, ReadFacts
<1>8. Unquoted(u, Blank) = [Flush(u) EXCEPT !.boundary = TRUE]
  BY DEF Unquoted, Quotes, Operators, Substitutions, Parentheses, Backslash, Newline, Blank,
         Single, Double
<1>9. [Flush(u) EXCEPT !.boundary = TRUE] = u
  BY <1>2, <1>3, <1>5 DEF Flush, Scanner
<1>10. ReadAll(s, <<"&", Blank>>) = Read(Read(s, "&"), Blank)
  <2> DEFINE p == "&"
  <2> HIDE DEF p
  <2>1. ReadAll(s, <<p, Blank>>) = Read(Read(s, p), Blank)
    BY ReadTwo
  <2> QED
    BY <2>1 DEF p
<1> QED
  BY <1>1, <1>4, <1>7, <1>8, <1>9, <1>10 DEF n

\* A comment is passed over up to the end of its line.
LEMMA CommentRelated ==
  ASSUME NEW s, NEW m, Related(s, "plain", m), s.ok, ~m.begun, NEW p \in Piece, p # Newline
  PROVE  Related(ReadAll(s, <<"#", p, Newline>>), "plain", EndCommand(m))
<1> DEFINE plain == [s EXCEPT !.again = "none"]
           c == [plain EXCEPT !.comment = TRUE]
           text == <<";">>
           end == After(s, text)
<1>1. /\ s \in Scanner /\ s.quote = "none" /\ ~s.escaped /\ ~s.comment /\ s.started = FALSE
      /\ s.boundary = TRUE /\ "#" # s.again /\ Newline # "none" /\ p # "none"
  <2>1. /\ s \in Scanner /\ s.quote = "none" /\ ~s.escaped /\ ~s.comment /\ s.started = m.begun
        /\ s.boundary = ~s.started /\ s.again \in {"none", "|", ">"}
    BY RelatedFacts
  <2>2. s.started = FALSE /\ s.boundary = TRUE
    BY <2>1 DEF Scanner
  <2>3. "#" # s.again /\ Newline # "none" /\ p # "none"
    BY <2>1, PieceFacts
  <2> QED
    BY <2>1, <2>2, <2>3
<1>2. /\ plain \in Scanner /\ plain.ok /\ plain.again = "none" /\ ~plain.started
      /\ plain.boundary = TRUE /\ plain.comment = FALSE /\ plain.escaped = FALSE
  BY <1>1 DEF Scanner
<1>3. /\ text \in ChainTexts /\ text \in ChainTexts \cup Redirections \cup {<<"&">>}
      /\ Operator(text) \in Item
  BY OperatorTexts DEF ChainTexts
<1>4. Read(s, "#") = Unquoted(plain, "#")
  BY <1>1, ReadFacts
<1>5. end = AddOperator(plain, text)
  BY DEF After
<1>6. Related(end, "plain", EndCommand(m))
  BY <1>3, AfterChainRelated
<1> HIDE DEF plain, end, text
<1>7. Unquoted(plain, "#") = c
  <2>1. Unquoted(plain, "#") = [Flush(plain) EXCEPT !.comment = TRUE]
    BY <1>2 DEF Unquoted, Quotes, Operators, Substitutions, Parentheses, Backslash, Newline, Blank,
           Single, Double
  <2> QED
    BY <1>2, <2>1 DEF Flush
<1>8. /\ c \in Scanner /\ c.ok /\ c.again = "none" /\ ~c.escaped /\ c.comment
      /\ c.started = FALSE /\ [c EXCEPT !.again = "none"] = c
  BY <1>2 DEF Scanner
<1> DEFINE items == Append(plain.items, Operator(text))
<1>9. items \in Seq(Item)
  BY <1>2, <1>3 DEF Scanner
<1>10. /\ AddOperator(c, text) = [c EXCEPT !.items = items, !.boundary = TRUE]
       /\ AddOperator(plain, text) = [plain EXCEPT !.items = items, !.boundary = TRUE]
  <2>1. c.items = plain.items
    BY <1>2 DEF Scanner
  <2>2. Flush(c) = c /\ Flush(plain) = plain
    BY <1>2, <1>8 DEF Flush
  <2> HIDE DEF c
  <2> QED
    BY <2>1, <2>2 DEF AddOperator
<1> HIDE DEF items
<1>11. [AddOperator(c, text) EXCEPT !.comment = FALSE] = AddOperator(plain, text)
  BY <1>2, <1>9, <1>10 DEF Scanner
<1> HIDE DEF c
<1>12. Read(c, p) = c
  <2>1. Read(c, p) = InComment(c, p)
    BY <1>1, <1>8, ReadFacts
  <2> QED
    BY <2>1 DEF InComment
<1>13. Read(c, Newline) = [AddOperator(c, text) EXCEPT !.comment = FALSE]
  <2>1. Read(c, Newline) = InComment(c, Newline)
    BY <1>1, <1>8, ReadFacts
  <2> QED
    BY <2>1 DEF InComment, text
<1>14. ReadAll(s, <<"#", p, Newline>>) = Read(Read(Read(s, "#"), p), Newline)
  <2> DEFINE h == "#"
  <2> HIDE DEF h
  <2>1. ReadAll(s, <<h, p, Newline>>) = Read(Read(Read(s, h), p), Newline)
    BY ReadThree
  <2> QED
    BY <2>1 DEF h
<1> QED
  BY <1>4, <1>5, <1>6, <1>7, <1>11, <1>12, <1>13, <1>14 DEF text

-----------------------------------------------------------------------------
(* The invariant.                                                           *)

\* The text of the line goes on; a refused line stays refused.
LEMMA ReadRelated ==
  ASSUME NEW s, NEW q, NEW m, Related(s, q, m), NEW r \in Mode, NEW n \in Meaning,
         m.beyond => n.beyond, NEW S, NEW text \in Seq(S),
         s.ok => Related(ReadAll(s, text), r, n)
  PROVE  Related(ReadAll(s, text), r, n)
<1>1. CASE s.ok
  BY <1>1
<1>2. CASE ~s.ok
  BY <1>2, RefusedRelated
<1> QED
  BY <1>1, <1>2

LEMMA ShellQuoteType ==
  ASSUME NEW w \in Seq(Piece)
  PROVE  ShellQuote(w) \in Seq(Piece \cup Special)
<1> DEFINE P == Piece \cup Special
<1>1. Len(w) \in Nat
  OBVIOUS
<1>2. PICK g : /\ g[0] = <<Single>>
               /\ \A n \in 1..Len(w) :
                    g[n] = g[n - 1] \o (IF w[n] = Single
                                        THEN <<Single, Double, Single, Double, Single>>
                                        ELSE <<w[n]>>)
               /\ ShellQuote(w) = Append(g[Len(w)], Single)
  BY ONLY <1>1, ShellQuoteUnfolds
<1>3. Single \in P /\ Double \in P
  BY DEF Special, Quotes, Single, Double
<1>4. <<Single, Double, Single, Double, Single>> \in Seq(P) /\ <<Single>> \in Seq(P)
  BY ONLY <1>3
<1> DEFINE T == {k \in 0..Len(w) : g[k] \in Seq(P)}
<1>5. 0 \in T
  <2>1. g[0] \in Seq(P)
    BY <1>2, <1>4
  <2> QED
    BY <1>1, <2>1
<1>6. ASSUME NEW k \in 0..(Len(w) - 1), k \in T
      PROVE  k + 1 \in T
  <2>1. k + 1 \in 1..Len(w) /\ (k + 1) - 1 = k /\ k + 1 \in 0..Len(w)
    BY <1>1
  <2> DEFINE more == IF w[k + 1] = Single THEN <<Single, Double, Single, Double, Single>>
                                          ELSE <<w[k + 1]>>
  <2>2. w[k + 1] \in P
    BY <2>1
  <2>3. more \in Seq(P)
    <3>1. <<w[k + 1]>> \in Seq(P)
      BY ONLY <2>2
    <3> HIDE DEF P
    <3> QED
      BY <1>4, <3>1
  <2>4. g[k + 1] = g[k] \o more
    BY <1>2, <2>1
  <2>5. g[k] \in Seq(P)
    BY <1>6
  <2> HIDE DEF P, more
  <2>6. g[k + 1] \in Seq(P)
    BY ONLY <2>3, <2>4, <2>5
  <2> QED
    BY <2>1, <2>6
<1>7. Len(w) \in T
  <2> HIDE DEF T
  <2>1. 0..Len(w) \subseteq T
    BY <1>1, <1>5, <1>6, Counting
  <2> QED
    BY <1>1, <2>1
<1> QED
  BY <1>2, <1>3, <1>7

\* What a line means beyond the classifier's judgement, it goes on meaning.
LEMMA BeyondStays ==
  ASSUME NEW m \in Meaning
  PROVE  /\ EndWord(m) \in Meaning /\ EndCommand(m) \in Meaning
         /\ m.beyond => EndWord(m).beyond
         /\ m.beyond => EndCommand(m).beyond
<1>1. EndWord(m) \in Meaning
  BY EndWordType
<1>2. m.beyond => EndWord(m).beyond
  BY DEF EndWord, Meaning
<1>3. /\ EndCommand(m) \in Meaning
      /\ EndCommand(m).beyond = (EndWord(m).beyond \/ EndWord(m).target # <<>>)
  BY EndCommandFacts
<1> QED
  BY <1>1, <1>2, <1>3

-----------------------------------------------------------------------------
\* The inductive invariant: the scanner is where the one who writes the line
\* believes it to be, and what it has judged covers what has been meant.
IInv ==
  /\ Related(scanner, mode, meant)
  /\ pieces \in 0..MaxPieces

LEMMA InitIInv == Init => IInv
<1> SUFFICES ASSUME Init
             PROVE  IInv
  OBVIOUS
<1>1. Judged(<<>>) = Unjudged /\ WordsOf(<<>>) = <<>> /\ Unjudged \in Judgement
  <2>1. Len(<<>>) = 0 /\ Len(<<>>) \in Nat
    OBVIOUS
  <2>2. Judged(<<>>) = Unjudged
    BY <2>1, JudgedUnfolds
  <2>3. WordsOf(<<>>) = <<>>
    BY <2>1, WordsOfUnfolds
  <2> QED
    BY <2>2, <2>3 DEF Unjudged, Judgement, R0, R3
<1>2. <<>> \in Text /\ <<>> \in Seq(Item) /\ <<>> \in Seq(Text)
  BY DEF Text
<1>3. Started \in Scanner /\ Nothing \in Meaning /\ "plain" \in Mode
  BY <1>2 DEF Started, Scanner, Nothing, Meaning, Mode, R0, R3
<1>4. Texts(<<>>) = <<>> /\ ~Expanding(<<>>)
  BY DEF Texts, Expanding
<1>5. /\ Started.ok /\ Started.items = <<>> /\ Started.token = <<>> /\ ~Started.started
      /\ ~Started.expands /\ Started.quote = "none" /\ ~Started.escaped /\ Started.boundary
      /\ ~Started.comment /\ Started.again = "none"
  BY DEF Started
<1>6. /\ Nothing.word = <<>> /\ ~Nothing.begun /\ Nothing.words = <<>> /\ Nothing.all = <<>>
      /\ Nothing.target = <<>> /\ Nothing.danger = R0 /\ Nothing.commands = 0
      /\ ~Nothing.composed /\ ~Nothing.beyond
  BY DEF Nothing
<1>7. /\ Unjudged.base = R0 /\ Unjudged.segment = <<>> /\ Unjudged.redirect = <<>>
      /\ ~Unjudged.composed /\ Unjudged.command = FALSE /\ ~Unjudged.refused
  BY DEF Unjudged
<1>8. /\ Judging(Started, Nothing) /\ Reading(Started, "plain", Nothing)
      /\ MayDouble(Started, Nothing)
  <2>1. Reading(Started, "plain", Nothing)
    <3>1. Started.boundary = TRUE /\ Started.started = FALSE /\ Nothing.begun = FALSE
      BY DEF Started, Nothing
    <3> QED
      BY <1>1, <1>4, <1>5, <1>6, <3>1 DEF Reading
  <2>2. Judging(Started, Nothing)
    <3>1. R0 >= R0 /\ FALSE = (0 > 0)
      BY DEF R0
    <3> QED
      BY <1>1, <1>4, <1>5, <1>6, <1>7, <3>1 DEF Judging
  <2>3. MayDouble(Started, Nothing)
    BY <1>5 DEF MayDouble
  <2> QED
    BY <2>1, <2>2, <2>3
<1>9. Related(Started, "plain", Nothing)
  BY <1>1, <1>2, <1>3, <1>5, <1>6, <1>8 DEF Related
<1>10. 0 \in 0..MaxPieces
  BY PieceAssumption
<1> QED
  BY <1>9, <1>10 DEF Init, IInv

-----------------------------------------------------------------------------
\* What every action that adds a text to the line relies on.
LEMMA AddIInv ==
  ASSUME IInv, NEW S, NEW text \in Seq(S), NEW m \in Meaning, Add(text, m), mode' \in Mode,
         meant.beyond => m.beyond,
         scanner.ok => Related(ReadAll(scanner, text), mode', m)
  PROVE  IInv'
<1>1. Related(scanner', mode', meant')
  <2>1. Related(ReadAll(scanner, text), mode', m)
    BY ReadRelated DEF IInv
  <2> QED
    BY <2>1 DEF Add, Extend
<1>2. pieces' \in 0..MaxPieces
  <2>1. Len(text) \in Nat /\ pieces \in 0..MaxPieces /\ MaxPieces \in Nat
    BY PieceAssumption DEF IInv
  <2> QED
    BY <2>1 DEF Add
<1> QED
  BY <1>1, <1>2 DEF IInv

\* Every action keeps the invariant.
LEMMA NextIInv ==
  ASSUME IInv, [Next]_vars
  PROVE  IInv'
<1>1. Related(scanner, mode, meant) /\ scanner \in Scanner /\ mode \in Mode /\ meant \in Meaning
  BY DEF IInv, Related
<1>2. meant.beyond \in BOOLEAN /\ EndWord(meant) \in Meaning /\ EndCommand(meant) \in Meaning
      /\ (meant.beyond => EndWord(meant).beyond) /\ (meant.beyond => EndCommand(meant).beyond)
  BY <1>1, BeyondStays DEF Meaning
<1>3. ASSUME NEW w \in Text
      PROVE  Put(meant, w) \in Meaning /\ Put(meant, w).beyond = meant.beyond
  BY <1>1, <1>2, PutFacts
<1>4. ASSUME NEW p
      PROVE  <<p>> \in Seq({p})
  OBVIOUS
<1>5. ASSUME NEW p, NEW q
      PROVE  <<p, q>> \in Seq({p, q})
  OBVIOUS
<1>6. ASSUME NEW p \in Piece \cup Special
      PROVE  <<p>> \in Text
  BY DEF Text
<1>7. ASSUME NEW p \in Piece, Literal(p)
      PROVE  IInv'
  <2>1. <<p>> \in Text /\ <<p>> \in Seq({p})
    BY <1>4, <1>6
  <2>2. Put(meant, <<p>>) \in Meaning /\ Put(meant, <<p>>).beyond = meant.beyond
    BY <1>3, <2>1
  <2>3. ASSUME scanner.ok
        PROVE  Related(ReadAll(scanner, <<p>>), mode, Put(meant, <<p>>))
    BY <1>1, <1>7, <2>3, LiteralRelated DEF Literal
  <2> QED
    BY <1>1, <1>7, <2>1, <2>2, <2>3, AddIInv DEF Literal
<1>8. ASSUME NEW p \in Piece, Escaped(p)
      PROVE  IInv'
  <2> DEFINE w == IF mode = Double /\ p \notin Escapable THEN <<Backslash, p>> ELSE <<p>>
             text == <<Backslash, p>>
             n == Put(meant, w)
  <2>1. w \in Text /\ text \in Seq({Backslash, p})
    <3>1. Backslash \in Piece \cup Special /\ p \in Piece \cup Special
      BY DEF Special
    <3>2. <<Backslash, p>> \in Seq(Piece \cup Special) /\ <<p>> \in Seq(Piece \cup Special)
      BY ONLY <3>1
    <3>3. text \in Seq({Backslash, p})
      BY <1>5
    <3> QED
      BY <3>2, <3>3 DEF Text
  <2>2. n \in Meaning /\ n.beyond = meant.beyond
    BY <1>3, <2>1
  <2>3. mode \in {"plain", Double} /\ p # Newline /\ Add(text, n) /\ mode' = mode
    BY <1>8 DEF Escaped
  <2>4. ASSUME scanner.ok
        PROVE  Related(ReadAll(scanner, text), mode, n)
    BY <1>1, <2>3, <2>4, EscapedRelated
  <2> HIDE DEF w, text, n
  <2> QED
    BY <1>1, <2>1, <2>2, <2>3, <2>4, AddIInv
<1>9. ASSUME NEW p \in Piece, Comment(p)
      PROVE  IInv'
  <2> DEFINE text == <<"#", p, Newline>>
             n == EndCommand(meant)
  <2>1. text \in Seq({"#", p, Newline})
    OBVIOUS
  <2>2. mode = "plain" /\ ~meant.begun /\ p # Newline /\ Add(text, n) /\ mode' = mode
    BY <1>9 DEF Comment
  <2>3. ASSUME scanner.ok
        PROVE  Related(ReadAll(scanner, text), mode, n)
    BY <1>1, <2>2, <2>3, CommentRelated
  <2> HIDE DEF text
  <2> QED
    BY <1>1, <1>2, <2>1, <2>2, <2>3, AddIInv
<1>10. ASSUME NEW q \in Quotes, OpenQuotes(q)
       PROVE  IInv'
  <2>1. <<>> \in Text /\ <<q>> \in Seq({q}) /\ q \in Mode
    BY <1>4 DEF Text, Mode
  <2>2. Put(meant, <<>>) \in Meaning /\ Put(meant, <<>>).beyond = meant.beyond
    BY <1>3, <2>1
  <2>3. ASSUME scanner.ok
        PROVE  Related(ReadAll(scanner, <<q>>), q, Put(meant, <<>>))
    BY <1>1, <1>10, <2>3, OpenQuotesRelated DEF OpenQuotes
  <2> QED
    BY <1>1, <1>10, <2>1, <2>2, <2>3, AddIInv DEF OpenQuotes
<1>11. ASSUME NEW w \in Argument, Quote(w)
       PROVE  IInv'
  <2> DEFINE n == Put(meant, w)
  <2>1. w \in Seq(Piece) /\ w \in Text
    <3>1. w \in Seq(Piece)
      BY PieceAssumption
    <3>2. w \in Seq(Piece \cup Special)
      BY <3>1
    <3> QED
      BY <3>1, <3>2 DEF Text
  <2>2. ShellQuote(w) \in Seq(Piece \cup Special)
    BY <2>1, ShellQuoteType
  <2>3. n \in Meaning /\ n.beyond = meant.beyond
    BY <1>3, <2>1
  <2>4. /\ mode = "plain" /\ mode' = mode /\ scanner' = ReadAll(scanner, ShellQuote(w))
        /\ meant' = n /\ pieces + Len(w) + 2 <= MaxPieces /\ pieces' = pieces + Len(w) + 2
    BY <1>11 DEF Quote, Extend
  <2>5. ASSUME scanner.ok
        PROVE  Related(ReadAll(scanner, ShellQuote(w)), mode, n)
    BY <1>1, <2>1, <2>4, <2>5, QuoteRelated
  <2> HIDE DEF n
  <2>6. Related(ReadAll(scanner, ShellQuote(w)), mode, n)
    BY <1>1, <2>2, <2>3, <2>5, ReadRelated
  <2>7. pieces' \in 0..MaxPieces
    <3>1. Len(w) \in Nat /\ pieces \in 0..MaxPieces /\ MaxPieces \in Nat
      BY <2>1, PieceAssumption DEF IInv
    <3> QED
      BY <2>4, <3>1
  <2> QED
    BY <2>4, <2>6, <2>7 DEF IInv
<1>12. ASSUME NEW op \in {<<Newline>>, <<";">>, <<"|">>, <<"|", "|">>, <<"&", "&">>}, Chain(op)
       PROVE  IInv'
  <2> DEFINE n == EndCommand(meant)
  <2>1. op \in Seq(Piece \cup Special)
    <3>1. op = <<Newline>> \/ op \in ChainTexts
      BY <1>12 DEF ChainTexts
    <3>2. <<Newline>> \in Text
      BY <1>6 DEF Special
    <3>3. op \in ChainTexts => Operator(op).text \in Text /\ Operator(op).text = op
      BY OperatorTexts DEF Item, Operator
    <3> QED
      BY <3>1, <3>2, <3>3 DEF Text
  <2>2. mode = "plain" /\ Add(op, n) /\ mode' = mode
    BY <1>12 DEF Chain
  <2>3. ASSUME scanner.ok
        PROVE  Related(ReadAll(scanner, op), mode, n)
    BY <1>1, <2>2, <2>3, ChainingRelated
  <2> QED
    BY <1>1, <1>2, <2>1, <2>2, <2>3, AddIInv
<1>13. ASSUME NEW op \in Redirections, Redirect(op)
       PROVE  IInv'
  <2> DEFINE n == [EndWord(meant) EXCEPT !.target = op]
  <2>1. op \in Seq(Piece \cup Special)
    <3>1. Operator(op).text \in Text /\ Operator(op).text = op
      BY OperatorTexts DEF Item, Operator
    <3> QED
      BY <3>1 DEF Text
  <2>2. mode = "plain" /\ EndWord(meant).target = <<>> /\ Add(op, n) /\ mode' = mode
    BY <1>13 DEF Redirect
  <2>3. n \in Meaning /\ n.beyond = EndWord(meant).beyond
    BY <1>2 DEF Meaning
  <2>4. ASSUME scanner.ok
        PROVE  Related(ReadAll(scanner, op), mode, n)
    BY <1>1, <2>2, <2>4, RedirectingRelated
  <2> HIDE DEF n
  <2> QED
    BY <1>1, <1>2, <2>1, <2>2, <2>3, <2>4, AddIInv
<1>14. ASSUME JoinLines
       PROVE  IInv'
  <2> DEFINE text == <<Backslash, Newline>>
  <2>1. text \in Seq({Backslash, Newline})
    BY <1>5
  <2>2. mode \in {"plain", Double} /\ Add(text, meant) /\ mode' = mode
    BY <1>14 DEF JoinLines
  <2>3. ASSUME scanner.ok
        PROVE  Related(ReadAll(scanner, text), mode, meant)
    BY <1>1, <2>2, <2>3, JoinLinesRelated
  <2> HIDE DEF text
  <2> QED
    BY <1>1, <2>1, <2>2, <2>3, AddIInv
<1>15. ASSUME CloseQuotes
       PROVE  IInv'
  <2> DEFINE text == <<mode>>
  <2>1. text \in Seq({mode}) /\ "plain" \in Mode
    BY <1>4 DEF Mode
  <2>2. mode \in Quotes /\ Add(text, meant) /\ mode' = "plain"
    BY <1>15 DEF CloseQuotes
  <2>3. ASSUME scanner.ok
        PROVE  Related(ReadAll(scanner, text), "plain", meant)
    BY <1>1, <2>2, <2>3, CloseQuotesRelated
  <2> HIDE DEF text
  <2> QED
    BY <1>1, <2>1, <2>2, <2>3, AddIInv
<1>16. ASSUME Separate
       PROVE  IInv'
  <2> DEFINE text == <<Blank>>
             n == EndWord(meant)
  <2>1. text \in Seq({Blank})
    BY <1>4
  <2>2. mode = "plain" /\ Add(text, n) /\ mode' = mode
    BY <1>16 DEF Separate
  <2>3. ASSUME scanner.ok
        PROVE  Related(ReadAll(scanner, text), mode, n)
    BY <1>1, <2>2, <2>3, SeparateRelated
  <2> HIDE DEF text
  <2> QED
    BY <1>1, <1>2, <2>1, <2>2, <2>3, AddIInv
<1>17. ASSUME Expand
       PROVE  IInv'
  <2>1. PICK p : /\ p \in Globs \/ (p = "~" /\ ~meant.begun)
                 /\ Add(<<p>>, [Put(meant, <<p>>) EXCEPT !.beyond = TRUE])
                 /\ mode = "plain" /\ mode' = mode
    BY <1>17 DEF Expand
  <2> DEFINE text == <<p>>
             n == [Put(meant, text) EXCEPT !.beyond = TRUE]
  <2>2. text \in Seq({p})
    BY <1>4
  <2>3. n \in Meaning /\ n.beyond
    <3>1. text \in Text
      BY <1>6, <2>1 DEF Special
    <3>2. Put(meant, text) \in Meaning
      BY <1>3, <3>1
    <3> HIDE DEF text
    <3> QED
      BY <3>2 DEF Meaning
  <2>4. ASSUME scanner.ok
        PROVE  Related(ReadAll(scanner, text), mode, n)
    BY <1>1, <2>1, <2>4, ExpandRelated
  <2>5. Add(text, n)
    BY <2>1
  <2> HIDE DEF text, n
  <2> QED
    BY <1>1, <2>1, <2>2, <2>3, <2>4, <2>5, AddIInv
<1>18. ASSUME Substitute
       PROVE  IInv'
  <2> DEFINE n == [meant EXCEPT !.beyond = TRUE]
  <2>1. PICK p : /\ (p \in Substitutions /\ mode # Single) \/ (p \in Parentheses /\ mode = "plain")
                 /\ Add(<<p>>, n) /\ mode' = mode
    BY <1>18 DEF Substitute
  <2>2. <<p>> \in Seq({p})
    BY <1>4
  <2>3. n \in Meaning /\ n.beyond
    BY <1>1 DEF Meaning
  <2>4. ASSUME scanner.ok
        PROVE  Related(ReadAll(scanner, <<p>>), mode, n)
    BY <1>1, <2>1, <2>4, SubstituteRelated
  <2> HIDE DEF n
  <2> QED
    BY <1>1, <2>1, <2>2, <2>3, <2>4, AddIInv
<1>19. ASSUME Background
       PROVE  IInv'
  <2> DEFINE text == <<"&", Blank>>
             n == [EndCommand(meant) EXCEPT !.beyond = TRUE]
  <2>1. text \in Seq({"&", Blank})
    BY <1>5
  <2>2. mode = "plain" /\ Add(text, n) /\ mode' = mode
    BY <1>19 DEF Background
  <2>3. n \in Meaning /\ n.beyond
    BY <1>2 DEF Meaning
  <2>4. ASSUME scanner.ok
        PROVE  Related(ReadAll(scanner, text), mode, n)
    BY <1>1, <2>2, <2>4, BackgroundRelated
  <2> HIDE DEF text, n
  <2> QED
    BY <1>1, <2>1, <2>2, <2>3, <2>4, AddIInv
<1>20. ASSUME UNCHANGED vars
       PROVE  IInv'
  BY <1>20 DEF vars, IInv
<1> QED
  BY <1>7, <1>8, <1>9, <1>10, <1>11, <1>12, <1>13, <1>14, <1>15, <1>16, <1>17, <1>18, <1>19, <1>20
     DEF Next

-----------------------------------------------------------------------------
(* The properties.                                                          *)

\* Whatever is written, scan and Classify stay within the types of their states.
THEOREM TypeCorrect == Spec => []TypeOK
<1>1. IInv => TypeOK
  BY DEF IInv, Related, TypeOK, Mode
<1> QED
  BY <1>1, InitIInv, NextIInv, PTL DEF Spec

\* The scanner of the whole line, in terms of the word that ends with it.
LEMMA ScannedFacts ==
  ASSUME NEW s, NEW q, NEW m, Related(s, q, m)
  PROVE  /\ ~s.ok => ~Scanned(s).ok
         /\ q # "plain" => ~Scanned(s).ok
         /\ s.ok /\ q = "plain" => Scanned(s).ok /\ Scanned(s).items = Ended(s).items
<1>1. s \in Scanner /\ q \in Mode
  BY DEF Related
<1>2. ~Refused.ok
  BY DEF Refused, Started
<1>3. Flush(s).ok = s.ok
  BY <1>1 DEF Flush, Scanner
<1>4. ~s.ok => ~Scanned(s).ok
  BY <1>2, <1>3 DEF Scanned
<1>5. ASSUME s.ok, q # "plain"
      PROVE  ~Scanned(s).ok
  <2>1. s.quote = q /\ q # "none"
    BY <1>1, <1>5 DEF Related, Reading, Mode, Quotes, Single, Double
  <2> QED
    BY <1>2, <2>1 DEF Scanned
<1>6. ASSUME s.ok, q = "plain"
      PROVE  Scanned(s).ok /\ Scanned(s).items = Ended(s).items
  <2>1. s.quote = "none" /\ ~s.escaped
    BY <1>6, RelatedFacts
  <2>2. Scanned(s) = Flush(s)
    BY <2>1 DEF Scanned
  <2>3. Flush(s).items = Flush([s EXCEPT !.again = "none"]).items
    BY <1>1 DEF Flush, Scanner
  <2>4. Flush([s EXCEPT !.again = "none"]).items = Ended(s).items
    <3> DEFINE plain == [s EXCEPT !.again = "none"]
               f == Flush(plain)
    <3>1. "items" \in DOMAIN f /\ "boundary" \in DOMAIN f
      BY <1>1 DEF Flush, Scanner
    <3> HIDE DEF f
    <3>2. Ended(s) = [f EXCEPT !.boundary = TRUE]
      BY DEF Ended, f
    <3> QED
      BY <3>1, <3>2 DEF f
  <2> QED
    BY <1>3, <1>6, <2>2, <2>3, <2>4
<1> QED
  BY <1>4, <1>5, <1>6

\* scan finds in a line the words that were meant, however it is quoted, escaped, continued
\* and commented, and refuses no line of literal words; ShellQuote's words are among them.
THEOREM ReadsMeant == Spec => []ReadsWhatIsMeant
<1>1. IInv => ReadsWhatIsMeant
  <2> SUFFICES ASSUME IInv, mode = "plain", ~meant.beyond
               PROVE  LET words == WordsOf(Scanned(scanner).items)
                      IN  /\ Scanned(scanner).ok
                          /\ [i \in DOMAIN words |-> words[i].text] = EndWord(meant).all
                          /\ \A i \in DOMAIN words : ~words[i].expands
    BY DEF ReadsWhatIsMeant
  <2> DEFINE t == Ended(scanner)
             words == WordsOf(t.items)
  <2>1. Related(scanner, "plain", meant) /\ scanner.ok
    BY DEF IInv, Related
  <2>2. Related(t, "plain", EndWord(meant)) /\ t.ok /\ ~Expanding(words)
    BY <2>1, FlushRelated DEF Ended
  <2>3. Texts(words) = EndWord(meant).all
    BY <2>2 DEF Related, Reading
  <2>4. Scanned(scanner).ok /\ Scanned(scanner).items = t.items
    BY <2>1, ScannedFacts
  <2> HIDE DEF t
  <2> QED
    BY <2>2, <2>3, <2>4 DEF Texts, Expanding
<1> QED
  BY <1>1, InitIInv, NextIInv, PTL DEF Spec

\* However a line is spelled, the risk that Classify returns covers the most dangerous
\* command in it, is above it when commands or files are connected, and is the highest
\* when the line is unfinished or means more than its words.
THEOREM RiskCoversMeant == Spec => []RiskCoversWhatIsMeant
<1>1. IInv => RiskCoversWhatIsMeant
  <2> SUFFICES ASSUME IInv
               PROVE  RiskCoversWhatIsMeant
    OBVIOUS
  <2> DEFINE s == scanner
             m == meant
             line == EndCommand(m)
             connected == line.commands > 1 \/ (line.commands = 1 /\ line.composed)
             risk == Classify(s)
  <2>1. Related(s, mode, m) /\ m \in Meaning
    BY DEF IInv, Related
  <2>2. line \in Meaning
    BY <2>1, EndCommandFacts
  <2>3. line.danger \in R0..R3 /\ line.commands \in Nat
    BY <2>2 DEF Meaning
  <2>4. Raise(line.danger) \in R0..R3
    BY <2>3 DEF Raise, R0, R3
  <2>5. CASE ~s.ok \/ mode # "plain"
    <3>1. risk = R3
      BY <2>1, <2>5, ScannedFacts DEF Classify
    <3> QED
      BY <2>3, <2>4, <3>1 DEF RiskCoversWhatIsMeant, R0, R3
  <2>6. CASE s.ok /\ mode = "plain"
    <3> DEFINE t == Ended(s)
               n == EndWord(m)
               j == Judged(t.items)
               k == EndSegment(j)
    <3>1. Related(s, "plain", m) /\ s.ok
      BY <2>1, <2>6
    <3>2. Related(t, "plain", n) /\ t.ok /\ ~t.started
      BY <3>1, FlushRelated DEF Ended
    <3>3. Scanned(s).ok /\ Scanned(s).items = t.items
      BY <3>1, ScannedFacts
    <3>4. /\ EndCommand(n) = line /\ line.beyond = (n.beyond \/ n.target # <<>>)
          /\ line.composed = n.composed /\ n \in Meaning
          /\ line.commands = n.commands \/ line.commands = n.commands + 1
      <4>1. n \in Meaning
        BY <2>1, EndWordType
      <4> QED
        BY <2>1, <4>1, EndCommandFacts
    <3>5. /\ k \in Judgement /\ k.redirect = n.target
          /\ k.refused = j.refused /\ k.composed = j.composed
          /\ n.beyond => k.refused \/ k.base = R3
          /\ ~n.beyond => k.base >= line.danger /\ k.command = (line.commands > 0)
      BY <3>2, <3>4, EndSegmentCovers
    <3>6. ~n.beyond /\ (n.commands > 0 \/ n.composed) => j.composed
      BY <3>2 DEF Related, Judging
    <3> HIDE DEF t, n, j, k, s, m, line
    <3>7. risk = IF k.refused \/ k.redirect # <<>> \/ ~k.command
                 THEN R3
                 ELSE IF k.composed THEN Raise(k.base) ELSE k.base
      BY <3>3 DEF Classify, k, j
    <3>8. k.base \in R0..R3 /\ n.commands \in Nat
      BY <3>4, <3>5 DEF Judgement, Meaning
    <3>9. line.beyond \/ line.commands = 0 => risk = R3
      <4>1. CASE k.refused \/ n.target # <<>>
        BY <3>5, <3>7, <4>1
      <4>2. CASE k.base = R3
        <5>1. Raise(k.base) = R3
          BY <4>2 DEF Raise, R3
        <5> QED
          BY <3>7, <4>2, <5>1
      <4>3. CASE ~n.beyond /\ line.commands = 0
        <5>1. ~(line.commands > 0)
          BY <4>3
        <5> QED
          BY <3>5, <3>7, <4>3, <5>1
      <4> QED
        BY <3>4, <3>5, <4>1, <4>2, <4>3
    <3>10. risk >= IF connected THEN Raise(line.danger) ELSE line.danger
      <4>1. CASE line.beyond \/ line.commands = 0
        BY <2>3, <2>4, <3>9, <4>1 DEF R0, R3
      <4>2. CASE ~line.beyond /\ line.commands # 0
        <5>1. ~n.beyond /\ k.base >= line.danger /\ k.command = (line.commands > 0)
          BY <3>4, <3>5, <4>2
        <5>2. connected => k.composed
          BY <3>4, <3>5, <3>6, <3>8, <5>1
        <5>3. k.base <= R3 /\ line.danger <= R3 /\ k.base \in Nat /\ line.danger \in Nat
          BY <2>3, <3>8 DEF R0, R3
        <5>4. Raise(k.base) >= Raise(line.danger) /\ Raise(k.base) >= k.base
          BY <5>1, <5>3 DEF Raise, R3
        <5>5. risk = R3 \/ risk = (IF k.composed THEN Raise(k.base) ELSE k.base)
          BY <3>7
        <5> HIDE DEF risk, connected
        <5>6. Raise(line.danger) \in Nat /\ Raise(line.danger) <= R3 /\ Raise(k.base) \in Nat
              /\ R3 \in Nat
          BY <2>4, <3>8 DEF Raise, R0, R3
        <5>7. CASE risk = R3
          BY <5>3, <5>6, <5>7
        <5>8. CASE risk = Raise(k.base) /\ k.composed
          <6>1. Raise(k.base) >= line.danger
            BY <5>1, <5>3, <5>4, <5>6
          <6> QED
            BY <5>4, <5>8, <6>1
        <5>9. CASE risk = k.base /\ ~k.composed
          BY <5>1, <5>2, <5>9
        <5> QED
          BY <5>5, <5>7, <5>8, <5>9
      <4> QED
        BY <4>1, <4>2
    <3> QED
      BY <2>6, <3>9, <3>10 DEF RiskCoversWhatIsMeant, s, m, line
  <2> QED
    BY <2>5, <2>6
<1> QED
  BY <1>1, InitIInv, NextIInv, PTL DEF Spec

=============================================================================

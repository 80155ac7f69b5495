----------------------------- MODULE Iteration ------------------------------
(***************************************************************************)
(* A loop over a sequence: what is left of the value it starts from when   *)
(* Step has taken all items, one after the other.  The loops of serialize.c*)
(* and ud.c are instances of it.  It is written as a function of the index *)
(* and not with the folds of the community modules because two facts about *)
(* it hold for every Step, and with them a loop can be reasoned about.     *)
(***************************************************************************)
EXTENDS Integers, SequenceTheorems, WellFoundedInduction, TLAPS

CONSTANT Step(_, _)

(* after[i] is the value when i items have been taken.                     *)
Iterate(start, s) ==
    LET after[i \in 0 .. Len(s)] == IF i = 0 THEN start ELSE Step(after[i - 1], s[i])
    IN  after[Len(s)]

-----------------------------------------------------------------------------
(* A set of naturals that is not empty has a least element.                *)
LEMMA LeastNatural ==
    \A T \in SUBSET Nat : T # {} => \E x \in T : \A y \in T : x =< y
<1> SUFFICES ASSUME NEW T \in SUBSET Nat, T # {}
             PROVE  \E x \in T : \A y \in T : x =< y
  OBVIOUS
<1>1. PICK x \in T : \A y \in T : <<y, x>> \notin OpToRel(<, Nat)
  BY WFMin, NatLessThanWellFounded
<1>2. \A y \in T : ~(y < x)
  BY <1>1 DEF OpToRel
<1> QED
  BY <1>2

(* Induction, for a set in place of a predicate: the provers can find the  *)
(* set a theorem is about, but no operator.                                *)
LEMMA InductionOnNat ==
    \A T : 0 \in T /\ (\A n \in Nat : n \in T => n + 1 \in T) => Nat \subseteq T
<1> SUFFICES ASSUME NEW T, 0 \in T, \A n \in Nat : n \in T => n + 1 \in T,
                    Nat \ T # {}
             PROVE  FALSE
  OBVIOUS
<1>1. Nat \ T \in SUBSET Nat
  OBVIOUS
<1>2. PICK x \in Nat \ T : \A y \in Nat \ T : x =< y
  BY <1>1, LeastNatural
<1>3. x # 0 /\ x - 1 \in Nat /\ (x - 1) + 1 = x
  BY <1>2
<1>4. x - 1 \in T
  BY <1>2, <1>3
<1> QED
  BY <1>2, <1>3, <1>4

(* The same for sequences, by their length.                                *)
LEMMA InductionOnSeq ==
    \A S, T : <<>> \in T /\ (\A s \in Seq(S), x \in S : s \in T => Append(s, x) \in T)
             => Seq(S) \subseteq T
<1> SUFFICES ASSUME NEW S, NEW T, <<>> \in T,
                    \A s \in Seq(S), x \in S : s \in T => Append(s, x) \in T
             PROVE  Seq(S) \subseteq T
  OBVIOUS
<1> DEFINE N == {n \in Nat : \A s \in Seq(S) : Len(s) = n => s \in T}
<1>1. 0 \in N
  <2>1. \A s \in Seq(S) : Len(s) = 0 => s = <<>>
    BY EmptySeq
  <2> QED
    BY <2>1
<1>2. ASSUME NEW n \in Nat, n \in N
      PROVE  n + 1 \in N
  <2>1. SUFFICES ASSUME NEW s \in Seq(S), Len(s) = n + 1
                 PROVE  s \in T
    OBVIOUS
  <2>2. s # <<>>
    BY <2>1, EmptySeq
  <2>3. PICK t \in Seq(S), x \in S : s = Append(t, x)
    BY <2>2, SequenceEmptyOrAppend
  <2>4. Len(t) = n
    BY <2>1, <2>3, AppendProperties, LenProperties
  <2> QED
    BY <2>3, <2>4, <1>2
<1> HIDE DEF N
<1>3. Nat \subseteq N
  BY <1>1, <1>2, InductionOnNat
<1>4. \A s \in Seq(S) : Len(s) \in N
  BY <1>3, LenProperties
<1> QED
  BY <1>4 DEF N

-----------------------------------------------------------------------------
(* f holds the values of a loop over the first n items of s.               *)
Values(f, start, s, n) ==
    f = [i \in 0 .. n |-> IF i = 0 THEN start ELSE Step(f[i - 1], s[i])]

(* They can be read off one by one.                                        *)
LEMMA ValueAt ==
    ASSUME NEW f, NEW start, NEW s, NEW n \in Nat, Values(f, start, s, n), NEW i \in 0 .. n
    PROVE  f[i] = IF i = 0 THEN start ELSE Step(f[i - 1], s[i])
<1> DEFINE g == [j \in 0 .. n |-> IF j = 0 THEN start ELSE Step(f[j - 1], s[j])]
<1>1. f = g
  BY DEF Values
<1>2. g[i] = IF i = 0 THEN start ELSE Step(f[i - 1], s[i])
  OBVIOUS
<1> HIDE DEF g
<1> QED
  BY <1>1, <1>2

(* The recursion has a solution.                                           *)
LEMMA ValuesExist ==
    ASSUME NEW start, NEW s, NEW n \in Nat
    PROVE  \E f : Values(f, start, s, n)
<1> DEFINE T == {k \in Nat : \E f : Values(f, start, s, k)}
<1>1. 0 \in T
  <2> DEFINE g == [i \in 0 .. 0 |-> start]
  <2>1. g = [i \in 0 .. 0 |-> IF i = 0 THEN start ELSE Step(g[i - 1], s[i])]
    OBVIOUS
  <2> HIDE DEF g
  <2> QED
    BY <2>1 DEF Values
<1>2. ASSUME NEW k \in Nat, k \in T
      PROVE  k + 1 \in T
  <2>1. PICK f : Values(f, start, s, k)
    BY <1>2
  <2> DEFINE g == [i \in 0 .. k + 1 |-> IF i = 0 THEN start ELSE Step(f[i - 1], s[i])]
             h == [i \in 0 .. k + 1 |-> IF i = 0 THEN start ELSE Step(g[i - 1], s[i])]
  <2>2. ASSUME NEW i \in 0 .. k
        PROVE  g[i] = f[i]
    <3>1. g[i] = IF i = 0 THEN start ELSE Step(f[i - 1], s[i])
      OBVIOUS
    <3> QED
      BY <3>1, <2>1, ValueAt
  <2> HIDE DEF g
  <2>3. ASSUME NEW i \in 0 .. k + 1
        PROVE  g[i] = h[i]
    <3>1. g[i] = IF i = 0 THEN start ELSE Step(f[i - 1], s[i])
      BY DEF g
    <3>2. h[i] = IF i = 0 THEN start ELSE Step(g[i - 1], s[i])
      OBVIOUS
    <3>3. i # 0 => i - 1 \in 0 .. k
      OBVIOUS
    <3>4. i # 0 => g[i - 1] = f[i - 1]
      BY <3>3, <2>2
    <3> QED
      BY <3>1, <3>2, <3>4
  <2>4. g = h
    <3>1. g = [i \in 0 .. k + 1 |-> g[i]]
      BY DEF g
    <3>2. h = [i \in 0 .. k + 1 |-> h[i]]
      OBVIOUS
    <3> HIDE DEF h
    <3> QED
      BY <3>1, <3>2, <2>3
  <2>5. Values(g, start, s, k + 1)
    BY <2>4, Zenon DEF Values
  <2> QED
    BY <2>5
<1> HIDE DEF T
<1>3. n \in T
  BY <1>1, <1>2, InductionOnNat
<1> QED
  BY <1>3 DEF T

(* Two solutions agree, also over sequences that only begin alike.         *)
LEMMA ValuesAgree ==
    ASSUME NEW start, NEW s, NEW t, NEW n \in Nat, NEW m \in Nat, n =< m,
           NEW f, Values(f, start, s, n), NEW g, Values(g, start, t, m),
           \A i \in 1 .. n : s[i] = t[i]
    PROVE  f[n] = g[n]
<1> DEFINE T == {k \in Nat : k =< n => f[k] = g[k]}
<1>1. 0 \in T
  <2>1. f[0] = start /\ g[0] = start
    BY ValueAt
  <2> QED
    BY <2>1
<1>2. ASSUME NEW k \in Nat, k \in T
      PROVE  k + 1 \in T
  <2>1. SUFFICES ASSUME k + 1 =< n
                 PROVE  f[k + 1] = g[k + 1]
    OBVIOUS
  <2>2. /\ k + 1 \in 0 .. n /\ k + 1 \in 0 .. m /\ k + 1 # 0 /\ (k + 1) - 1 = k
        /\ f[k] = g[k] /\ s[k + 1] = t[k + 1]
    BY <2>1, <1>2
  <2>3. f[k + 1] = Step(f[k], s[k + 1])
    BY <2>2, ValueAt
  <2>4. g[k + 1] = Step(g[k], t[k + 1])
    BY <2>2, ValueAt
  <2> QED
    BY <2>2, <2>3, <2>4
<1> HIDE DEF T
<1>3. n \in T
  BY <1>1, <1>2, InductionOnNat
<1> QED
  BY <1>3 DEF T

(* Iterate is the last of them.                                            *)
LEMMA IterateIsLast ==
    ASSUME NEW start, NEW s, Len(s) \in Nat
    PROVE  \E f : Values(f, start, s, Len(s)) /\ Iterate(start, s) = f[Len(s)]
<1>1. \E f : Values(f, start, s, Len(s))
  BY ValuesExist
<1> QED
  BY <1>1 DEF Iterate, Values

(* A loop over nothing.                                                    *)
LEMMA IterateEmpty == \A start : Iterate(start, <<>>) = start
<1> TAKE start
<1>1. Len(<<>>) = 0
  OBVIOUS
<1>2. PICK f : Values(f, start, <<>>, 0) /\ Iterate(start, <<>>) = f[0]
  BY <1>1, IterateIsLast
<1> QED
  BY <1>2, ValueAt

(* One item more is one step more.                                         *)
LEMMA IterateAppend ==
    ASSUME NEW S, NEW s \in Seq(S), NEW x \in S, NEW start
    PROVE  Iterate(start, Append(s, x)) = Step(Iterate(start, s), x)
<1> DEFINE t == Append(s, x)
           n == Len(s)
<1>1. /\ n \in Nat /\ Len(t) = n + 1 /\ t[n + 1] = x
      /\ \A i \in 1 .. n : s[i] = t[i]
  OBVIOUS
<1> HIDE DEF t, n
<1>2. PICK f : Values(f, start, s, n) /\ Iterate(start, s) = f[n]
  BY <1>1, IterateIsLast DEF n
<1>3. PICK g : Values(g, start, t, n + 1) /\ Iterate(start, t) = g[n + 1]
  BY <1>1, IterateIsLast
<1>4. f[n] = g[n]
  BY <1>1, <1>2, <1>3, ValuesAgree
<1>5. g[n + 1] = Step(g[n], t[n + 1])
  <2>1. n + 1 \in 0 .. n + 1 /\ n + 1 # 0 /\ (n + 1) - 1 = n /\ n + 1 \in Nat
    BY <1>1
  <2> QED
    BY <2>1, <1>3, ValueAt
<1> QED
  BY <1>1, <1>2, <1>3, <1>4, <1>5 DEF t

(* What every step keeps, the loop keeps.                                  *)
LEMMA IterateKeeps ==
    ASSUME NEW S, NEW A, NEW start \in A,
           \A a \in A, x \in S : Step(a, x) \in A,
           NEW s \in Seq(S)
    PROVE  Iterate(start, s) \in A
<1> DEFINE T == {t \in Seq(S) : Iterate(start, t) \in A}
<1>1. <<>> \in T
  BY IterateEmpty, EmptySeq
<1>2. ASSUME NEW t \in Seq(S), NEW x \in S, t \in T
      PROVE  Append(t, x) \in T
  <2>1. Iterate(start, Append(t, x)) = Step(Iterate(start, t), x)
    BY IterateAppend
  <2> QED
    BY <1>2, <2>1, AppendProperties
<1> HIDE DEF T
<1>3. s \in T
  BY <1>1, <1>2, InductionOnSeq
<1> QED
  BY <1>3 DEF T

(* A loop over s and then t goes on with t where it was after s.           *)
LEMMA IterateConcat ==
    ASSUME NEW S, NEW s \in Seq(S), NEW start, NEW t \in Seq(S)
    PROVE  Iterate(start, s \o t) = Iterate(Iterate(start, s), t)
<1> DEFINE T == {u \in Seq(S) : Iterate(start, s \o u) = Iterate(Iterate(start, s), u)}
<1>1. <<>> \in T
  BY IterateEmpty, EmptySeq, ConcatEmptySeq
<1>2. ASSUME NEW u \in Seq(S), NEW x \in S, u \in T
      PROVE  Append(u, x) \in T
  <2>1. /\ s \o u \in Seq(S) /\ Append(u, x) \in Seq(S) /\ <<x>> \in Seq(S)
        /\ Append(u, x) = u \o <<x>> /\ Append(s \o u, x) = (s \o u) \o <<x>>
    BY ConcatProperties, AppendProperties, AppendIsConcat
  <2>2. s \o Append(u, x) = Append(s \o u, x)
    BY <2>1, ConcatAssociative
  <2>3. Iterate(start, Append(s \o u, x)) = Step(Iterate(start, s \o u), x)
    BY <2>1, IterateAppend
  <2>4. Iterate(Iterate(start, s), Append(u, x)) = Step(Iterate(Iterate(start, s), u), x)
    BY IterateAppend
  <2> QED
    BY <1>2, <2>1, <2>2, <2>3, <2>4
<1> HIDE DEF T
<1>3. t \in T
  BY <1>1, <1>2, InductionOnSeq
<1> QED
  BY <1>3 DEF T
=============================================================================

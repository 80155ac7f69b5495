------------------------- MODULE ConversionsProofs --------------------------
(***************************************************************************)
(* Theorems about the conversions on the way of a ceremony, a part for     *)
(* each of the modules MCConversions checks side by side: RP ids (RpIds),  *)
(* base64 (Encodings), the signature counter (AuthenticatorData) and the   *)
(* padding of names (UserNames).  They have no variable in common.         *)
(***************************************************************************)
EXTENDS RpIds, Encodings, AuthenticatorData, UserNames, SequenceTheorems, TLAPS

-----------------------------------------------------------------------------
(***************************************************************************)
(* RP ids.  The comparison of the characters of two names is the           *)
(* comparison of their labels, whatever the names.  The texts are built by *)
(* a loop over the labels, so facts about them are shown by induction      *)
(* (Iteration.tla).                                                        *)
(***************************************************************************)
(* What a C string can hold, names before they are known to have a label,  *)
(* and the text of a name with a dot before every label.                   *)
CStringByte == 1 .. 255
NameSeqs == Seq(Label)
DottedText(n) == Dotted!Iterate(<<>>, n)

(* Labels are strings.                                                     *)
LEMMA LabelIsText == \A l \in Label : l \in Seq(CStringByte)
<1>1. 1 .. 255 \ {Dot} \subseteq CStringByte
  BY DEF CStringByte
<1> QED
  BY <1>1, SeqMonotonic, Zenon DEF Label

(* A dot is a character of a C string.                                     *)
LEMMA DotIsCharacter == Dot \in CStringByte /\ <<Dot>> \in Seq(CStringByte)
BY DEF Dot, CStringByte

(* A text is built label by label, from the left.                          *)
LEMMA DottedOf ==
    /\ DottedText(<<>>) = <<>>
    /\ \A n \in NameSeqs, l \in Label :
         DottedText(Append(n, l)) = AppendLabel(DottedText(n), l)
<1>1. DottedText(<<>>) = <<>>
  BY Dotted!IterateEmpty DEF DottedText
<1>2. ASSUME NEW n \in NameSeqs, NEW l \in Label
      PROVE  DottedText(Append(n, l)) = AppendLabel(DottedText(n), l)
  <2>1. Dotted!Iterate(<<>>, Append(n, l)) = AppendLabel(Dotted!Iterate(<<>>, n), l)
    BY Dotted!IterateAppend DEF NameSeqs
  <2> QED
    BY <2>1 DEF DottedText
<1> QED
  BY <1>1, <1>2

(* A text with a label more is a text.                                     *)
LEMMA AppendLabelType ==
    \A p \in Seq(CStringByte), l \in Label : AppendLabel(p, l) \in Seq(CStringByte)
BY LabelIsText, DotIsCharacter, ConcatProperties DEF AppendLabel

(* What stands in front of a text does not matter to the label at its      *)
(* end.                                                                    *)
LEMMA AppendLabelConcat ==
    \A p, q \in Seq(CStringByte), l \in Label :
      p \o AppendLabel(q, l) = AppendLabel(p \o q, l)
<1> SUFFICES ASSUME NEW p \in Seq(CStringByte), NEW q \in Seq(CStringByte), NEW l \in Label
             PROVE  p \o ((q \o <<Dot>>) \o l) = ((p \o q) \o <<Dot>>) \o l
  BY DEF AppendLabel
<1> DEFINE dot == <<Dot>>
<1>1. dot \in Seq(CStringByte) /\ l \in Seq(CStringByte)
  BY LabelIsText, DotIsCharacter
<1> HIDE DEF dot
<1> DEFINE r == q \o dot
<1>2. r \in Seq(CStringByte) /\ (p \o q) \o dot = p \o r
  BY <1>1, ConcatAssociative, ConcatProperties
<1>3. ((p \o q) \o dot) \o l = (p \o r) \o l
  BY <1>2, Zenon
<1> HIDE DEF r
<1>4. (p \o r) \o l = p \o (r \o l)
  BY <1>1, <1>2, ConcatAssociative, SMTT(30)
<1> QED
  BY <1>3, <1>4, Zenon DEF dot, r

(* The text of a name is a string.                                         *)
LEMMA DottedType == \A n \in NameSeqs : DottedText(n) \in Seq(CStringByte)
<1> DEFINE T == {n \in NameSeqs : DottedText(n) \in Seq(CStringByte)}
<1>1. <<>> \in T
  BY DottedOf, EmptySeq DEF NameSeqs
<1>2. ASSUME NEW n \in Seq(Label), NEW l \in Label, n \in T
      PROVE  Append(n, l) \in T
  <2>1. DottedText(Append(n, l)) = AppendLabel(DottedText(n), l)
    BY DottedOf DEF NameSeqs
  <2>2. DottedText(Append(n, l)) \in Seq(CStringByte)
    BY <1>2, <2>1, AppendLabelType
  <2> QED
    BY <2>2, AppendProperties DEF NameSeqs
<1> HIDE DEF T
<1>3. NameSeqs \subseteq T
  BY <1>1, <1>2, Dotted!InductionOnSeq DEF NameSeqs
<1> QED
  BY <1>3 DEF T

(* A name is empty or ends with a label.                                   *)
LEMMA NamesAppend ==
    \A n \in NameSeqs : n = <<>> \/ \E m \in NameSeqs, l \in Label : n = Append(m, l)
BY SequenceEmptyOrAppend DEF NameSeqs

(* The text of a name of several parts.                                    *)
LEMMA DottedConcat ==
    \A m, n \in NameSeqs : DottedText(m \o n) = DottedText(m) \o DottedText(n)
<1> SUFFICES ASSUME NEW m \in NameSeqs
             PROVE  \A n \in NameSeqs : DottedText(m \o n) = DottedText(m) \o DottedText(n)
  OBVIOUS
<1> DEFINE T == {n \in NameSeqs : DottedText(m \o n) = DottedText(m) \o DottedText(n)}
<1>0. DottedText(m) \in Seq(CStringByte)
  BY DottedType
<1>1. <<>> \in T
  BY <1>0, DottedOf, EmptySeq, ConcatEmptySeq DEF NameSeqs
<1>2. ASSUME NEW n \in Seq(Label), NEW l \in Label, n \in T
      PROVE  Append(n, l) \in T
  <2> DEFINE p == DottedText(m)
             q == DottedText(n)
  <2>1. /\ m \o n \in NameSeqs /\ <<l>> \in NameSeqs /\ Append(n, l) \in NameSeqs
        /\ Append(n, l) = n \o <<l>> /\ Append(m \o n, l) = (m \o n) \o <<l>>
    BY ConcatProperties, AppendProperties, AppendIsConcat DEF NameSeqs
  <2>2. m \o Append(n, l) = Append(m \o n, l)
    BY <2>1, ConcatAssociative DEF NameSeqs
  <2>3. p \in Seq(CStringByte) /\ q \in Seq(CStringByte)
    BY <2>1, DottedType DEF NameSeqs
  <2>4. DottedText(m \o Append(n, l)) = AppendLabel(p \o q, l)
    BY <1>2, <2>1, <2>2, DottedOf
  <2>5. DottedText(Append(n, l)) = AppendLabel(q, l)
    BY DottedOf DEF NameSeqs
  <2> HIDE DEF p, q
  <2>6. AppendLabel(p \o q, l) = p \o AppendLabel(q, l)
    BY <2>3, AppendLabelConcat
  <2> QED
    BY <2>1, <2>4, <2>5, <2>6 DEF p
<1> HIDE DEF T
<1>3. NameSeqs \subseteq T
  BY <1>1, <1>2, Dotted!InductionOnSeq DEF NameSeqs
<1> QED
  BY <1>3 DEF T

(* The characters of a text that ends with a label.                        *)
LEMMA LabelBehindDot ==
    ASSUME NEW p \in Seq(CStringByte), NEW l \in Label
    PROVE  LET w == AppendLabel(p, l)
           IN  /\ w \in Seq(CStringByte)
               /\ Len(w) = Len(p) + 1 + Len(l)
               /\ Len(p) \in Nat /\ Len(l) \in Nat
               /\ w[Len(p) + 1] = Dot
               /\ \A i \in Len(p) + 2 .. Len(w) : w[i] = l[i - (Len(p) + 1)] /\ w[i] # Dot
<1> DEFINE u == p \o <<Dot>>
           w == u \o l
<1>1. l \in Seq(CStringByte) /\ <<Dot>> \in Seq(CStringByte) /\ Len(<<Dot>>) = 1 /\ <<Dot>>[1] = Dot
  BY LabelIsText, DotIsCharacter
<1>2. Len(p) \in Nat /\ Len(l) \in Nat
  BY <1>1, LenProperties
<1>3. /\ u \in Seq(CStringByte) /\ Len(u) = Len(p) + 1
      /\ \A i \in 1 .. Len(p) + 1 : u[i] = IF i <= Len(p) THEN p[i] ELSE <<Dot>>[i - Len(p)]
  BY <1>1, ConcatProperties
<1>4. u[Len(p) + 1] = Dot
  <2>1. Len(p) + 1 \in 1 .. Len(p) + 1 /\ ~(Len(p) + 1 <= Len(p)) /\ (Len(p) + 1) - Len(p) = 1
    BY <1>2
  <2> QED
    BY <2>1, <1>1, <1>3
<1> HIDE DEF u
<1>5. /\ w \in Seq(CStringByte) /\ Len(w) = Len(u) + Len(l)
      /\ \A i \in 1 .. Len(u) + Len(l) : w[i] = IF i <= Len(u) THEN u[i] ELSE l[i - Len(u)]
  <2>1. u \in Seq(CStringByte) /\ l \in Seq(CStringByte)
    BY <1>1, <1>3
  <2> QED
    BY <2>1, ConcatProperties
<1> HIDE DEF w
<1>6. ASSUME NEW i \in Len(p) + 2 .. Len(w)
      PROVE  w[i] = l[i - (Len(p) + 1)] /\ w[i] # Dot
  <2>1. i \in 1 .. Len(u) + Len(l) /\ ~(i <= Len(u)) /\ i - (Len(p) + 1) \in 1 .. Len(l)
    BY <1>2, <1>3, <1>5
  <2>2. w[i] = l[i - (Len(p) + 1)]
    BY <2>1, <1>3, <1>5
  <2>3. l[i - (Len(p) + 1)] \in 1 .. 255 \ {Dot}
    <3> DEFINE k == i - (Len(p) + 1)
               C == 1 .. 255 \ {Dot}
    <3>1. k \in 1 .. Len(l) /\ l \in Seq(C)
      BY <2>1 DEF Label
    <3> HIDE DEF k, C
    <3>2. l[k] \in C
      BY <3>1, ElementOfSeq
    <3> QED
      BY <3>2 DEF k, C
  <2> QED
    BY <2>2, <2>3
<1>7. w[Len(p) + 1] = Dot
  BY <1>2, <1>3, <1>4, <1>5
<1> QED
  BY <1>2, <1>3, <1>5, <1>6, <1>7 DEF w, u, AppendLabel

(* The last dot of a text tells where its last label begins.               *)
LEMMA LastLabel ==
    \A p, q \in Seq(CStringByte), l, m \in Label :
      AppendLabel(p, l) = AppendLabel(q, m) => p = q /\ l = m
<1> SUFFICES ASSUME NEW p \in Seq(CStringByte), NEW q \in Seq(CStringByte),
                    NEW l \in Label, NEW m \in Label,
                    AppendLabel(p, l) = AppendLabel(q, m)
             PROVE  p = q /\ l = m
  OBVIOUS
<1> DEFINE w == AppendLabel(p, l)
<1>1. /\ Len(w) = Len(p) + 1 + Len(l) /\ Len(p) \in Nat /\ Len(l) \in Nat
      /\ w[Len(p) + 1] = Dot
      /\ \A i \in Len(p) + 2 .. Len(w) : w[i] = l[i - (Len(p) + 1)] /\ w[i] # Dot
  BY LabelBehindDot
<1>2. w = AppendLabel(q, m)
  OBVIOUS
<1> HIDE DEF w
<1>3. /\ Len(w) = Len(q) + 1 + Len(m) /\ Len(q) \in Nat /\ Len(m) \in Nat
      /\ w[Len(q) + 1] = Dot
      /\ \A i \in Len(q) + 2 .. Len(w) : w[i] = m[i - (Len(q) + 1)] /\ w[i] # Dot
  BY <1>2, LabelBehindDot
<1>4. Len(p) = Len(q)
  <2>1. CASE Len(p) < Len(q)
    BY <2>1, <1>1, <1>3
  <2>2. CASE Len(q) < Len(p)
    BY <2>2, <1>1, <1>3
  <2> QED
    BY <2>1, <2>2, <1>1, <1>3
<1>5. l = m
  <2>1. Len(l) = Len(m)
    BY <1>1, <1>3, <1>4
  <2>2. ASSUME NEW i \in 1 .. Len(l)
        PROVE  l[i] = m[i]
    <3>1. i + (Len(p) + 1) \in Len(p) + 2 .. Len(w) /\ (i + (Len(p) + 1)) - (Len(p) + 1) = i
      BY <1>1
    <3> QED
      BY <3>1, <1>1, <1>3, <1>4
  <2>3. l \in Seq(CStringByte) /\ m \in Seq(CStringByte)
    BY LabelIsText
  <2> QED
    BY <2>1, <2>2, <2>3, SeqEqual
<1>6. p = q
  <2> DEFINE dot == <<Dot>>
  <2>1. (p \o dot) \o l = (q \o dot) \o l
    BY <1>2, <1>5 DEF AppendLabel, w
  <2>2. l \in Seq(CStringByte) /\ dot \in Seq(CStringByte)
    BY LabelIsText, DotIsCharacter
  <2> HIDE DEF dot
  <2>3. p \o dot \in Seq(CStringByte) /\ q \o dot \in Seq(CStringByte)
    BY <2>2, ConcatProperties
  <2>4. p \o dot = q \o dot
    BY <2>1, <2>2, <2>3, ConcatSimplifications
  <2> QED
    BY <2>2, <2>4, ConcatSimplifications
<1> QED
  BY <1>5, <1>6

(* A text ends with the text of a name exactly if it is the text of a name *)
(* that ends with it: no label is cut in two.                              *)
LEMMA TextSuffixIsSuffix ==
    \A x, y \in NameSeqs :
      (\E p \in Seq(CStringByte) : DottedText(y) = p \o DottedText(x))
        => \E q \in NameSeqs : y = q \o x
<1> DEFINE T == {x \in NameSeqs : \A y \in NameSeqs :
                   (\E p \in Seq(CStringByte) : DottedText(y) = p \o DottedText(x))
                     => \E q \in NameSeqs : y = q \o x}
<1>1. <<>> \in T
  BY EmptySeq, ConcatEmptySeq DEF NameSeqs
<1>2. ASSUME NEW x \in Seq(Label), NEW l \in Label, x \in T
      PROVE  Append(x, l) \in T
  <2>1. SUFFICES ASSUME NEW y \in NameSeqs, NEW p \in Seq(CStringByte),
                        DottedText(y) = p \o DottedText(Append(x, l))
                 PROVE  \E q \in NameSeqs : y = q \o Append(x, l)
    BY AppendProperties DEF NameSeqs
  <2> DEFINE t == DottedText(x)
  <2>2. t \in Seq(CStringByte) /\ x \in NameSeqs
    BY DottedType DEF NameSeqs
  <2>3. DottedText(Append(x, l)) = AppendLabel(t, l)
    BY <2>2, DottedOf
  <2> HIDE DEF t
  <2> DEFINE u == p \o t
  <2>4. DottedText(y) = AppendLabel(u, l) /\ u \in Seq(CStringByte)
    BY <2>1, <2>2, <2>3, AppendLabelConcat, ConcatProperties
  <2> HIDE DEF u
  <2>5. y # <<>>
    <3>1. Len(AppendLabel(u, l)) # 0
      BY <2>4, LabelBehindDot
    <3> QED
      BY <3>1, <2>4, DottedOf, EmptySeq
  <2>6. PICK z \in NameSeqs, m \in Label : y = Append(z, m)
    BY <2>5, NamesAppend
  <2>7. DottedText(z) \in Seq(CStringByte) /\ DottedText(y) = AppendLabel(DottedText(z), m)
    BY <2>6, DottedType, DottedOf
  <2>8. DottedText(z) = u /\ l = m
    <3>1. AppendLabel(u, l) = AppendLabel(DottedText(z), m)
      BY <2>4, <2>7, Zenon
    <3> QED
      BY <3>1, <2>4, <2>6, <2>7, LastLabel
  <2>9. PICK q \in NameSeqs : z = q \o x
    BY <2>8, <1>2 DEF t, u
  <2>10. y = q \o Append(x, l)
    <3>1. q \o x \in Seq(Label) /\ q \in Seq(Label) /\ <<l>> \in Seq(Label)
      BY <2>2, <2>9, ConcatProperties DEF NameSeqs
    <3>2. Append(q \o x, l) = (q \o x) \o <<l>> /\ Append(x, l) = x \o <<l>>
      BY <3>1, AppendIsConcat
    <3>3. (q \o x) \o <<l>> = q \o (x \o <<l>>)
      BY <3>1, ConcatAssociative
    <3> QED
      BY <3>2, <3>3, <2>6, <2>8, <2>9
  <2> QED
    BY <2>10
<1> HIDE DEF T
<1>3. NameSeqs \subseteq T
  BY <1>1, <1>2, Dotted!InductionOnSeq DEF NameSeqs
<1> QED
  BY <1>3 DEF T

(* Different names have different texts.                                   *)
LEMMA TextsDiffer ==
    ASSUME NEW x \in NameSeqs, NEW y \in NameSeqs, DottedText(x) = DottedText(y)
    PROVE  x = y
<1>1. /\ DottedText(x) \in Seq(CStringByte) /\ DottedText(y) \in Seq(CStringByte)
      /\ <<>> \in Seq(CStringByte)
  BY DottedType, EmptySeq
<1>2. DottedText(y) = <<>> \o DottedText(x) /\ DottedText(x) = <<>> \o DottedText(y)
  BY <1>1, ConcatEmptySeq
<1>3. PICK q \in NameSeqs : y = q \o x
  BY <1>1, <1>2, TextSuffixIsSuffix
<1>4. PICK r \in NameSeqs : x = r \o y
  BY <1>1, <1>2, TextSuffixIsSuffix
<1>5. /\ Len(y) = Len(q) + Len(x) /\ Len(x) = Len(r) + Len(y)
      /\ Len(q) \in Nat /\ Len(r) \in Nat /\ Len(x) \in Nat /\ Len(y) \in Nat
  BY <1>3, <1>4, ConcatProperties, LenProperties DEF NameSeqs
<1>6. q = <<>>
  BY <1>5, EmptySeq DEF NameSeqs
<1> QED
  BY <1>3, <1>6, ConcatEmptySeq DEF NameSeqs

(* The C string of a name is its text without the first dot.               *)
LEMMA TextBehindDot ==
    ASSUME NEW n \in DomainNames
    PROVE  /\ n \in NameSeqs
           /\ NameText(n) \in Seq(CStringByte)
           /\ DottedText(n) = <<Dot>> \o NameText(n)
<1>1. n \in NameSeqs /\ n # <<>>
  BY DEF DomainNames, NameSeqs
<1> DEFINE T == {x \in NameSeqs : x # <<>> => DottedText(x) # <<>> /\ DottedText(x)[1] = Dot}
<1>2. <<>> \in T
  BY EmptySeq DEF NameSeqs
<1>3. ASSUME NEW x \in Seq(Label), NEW l \in Label, x \in T
      PROVE  Append(x, l) \in T
  <2> DEFINE t == DottedText(x)
  <2>1. t \in Seq(CStringByte) /\ DottedText(Append(x, l)) = AppendLabel(t, l)
    BY DottedType, DottedOf DEF NameSeqs
  <2> DEFINE w == AppendLabel(t, l)
  <2>2. w \in Seq(CStringByte) /\ Len(w) = Len(t) + 1 + Len(l) /\ Len(t) \in Nat /\ Len(l) \in Nat
        /\ w[Len(t) + 1] = Dot
    BY <2>1, LabelBehindDot
  <2>3. w # <<>>
    BY <2>2, EmptySeq
  <2>4. w[1] = Dot
    <3>1. CASE x = <<>>
      <4>1. Len(t) = 0
        BY <3>1, DottedOf, EmptySeq
      <4> QED
        BY <4>1, <2>2
    <3>2. CASE x # <<>>
      <4>1. t # <<>> /\ t[1] = Dot
        BY <3>2, <1>3
      <4>2. 1 \in 1 .. Len(t)
        BY <4>1, <2>1, EmptySeq
      <4>3. t \o <<Dot>> \in Seq(CStringByte) /\ Len(t \o <<Dot>>) = Len(t) + 1
            /\ (t \o <<Dot>>)[1] = t[1] /\ l \in Seq(CStringByte)
        BY <4>2, <2>1, <2>2, DotIsCharacter, LabelIsText, ConcatProperties
      <4>4. w[1] = (t \o <<Dot>>)[1]
        <5> DEFINE u == t \o <<Dot>>
        <5>1. u \in Seq(CStringByte) /\ l \in Seq(CStringByte) /\ 1 \in 1 .. Len(u)
          BY <4>3, <2>2
        <5> HIDE DEF u
        <5>2. (u \o l)[1] = u[1]
          BY <5>1, ConcatProperties, LenProperties
        <5> QED
          BY <5>2 DEF u, w, AppendLabel
      <4> QED
        BY <4>1, <4>3, <4>4
    <3> QED
      BY <3>1, <3>2
  <2> QED
    BY <2>1, <2>3, <2>4, AppendProperties DEF NameSeqs
<1> HIDE DEF T
<1>4. NameSeqs \subseteq T
  BY <1>2, <1>3, Dotted!InductionOnSeq DEF NameSeqs
<1>5. DottedText(n) \in Seq(CStringByte) /\ DottedText(n) # <<>> /\ DottedText(n)[1] = Dot
  BY <1>1, <1>4, DottedType DEF T
<1>6. NameText(n) = Tail(DottedText(n))
  BY DEF NameText, DottedText
<1> DEFINE t == DottedText(n)
<1>7. /\ Tail(t) \in Seq(CStringByte) /\ Len(Tail(t)) = Len(t) - 1 /\ Len(t) \in Nat
      /\ \A i \in 1 .. Len(Tail(t)) : Tail(t)[i] = t[i + 1]
  BY <1>5, HeadTailProperties, LenProperties
<1>8. t = <<Dot>> \o Tail(t)
  <2> DEFINE u == <<Dot>> \o Tail(t)
  <2>1. /\ u \in Seq(CStringByte) /\ Len(u) = 1 + Len(Tail(t))
        /\ \A i \in 1 .. 1 + Len(Tail(t)) : u[i] = IF i <= 1 THEN <<Dot>>[i] ELSE Tail(t)[i - 1]
    <3>1. <<Dot>> \in Seq(CStringByte) /\ Len(<<Dot>>) = 1
      BY DotIsCharacter
    <3> QED
      BY <3>1, <1>7, ConcatProperties
  <2> HIDE DEF u
  <2>2. ASSUME NEW i \in 1 .. Len(t)
        PROVE  t[i] = u[i]
    <3>1. CASE i = 1
      BY <3>1, <2>1, <1>5, <1>7
    <3>2. CASE i # 1
      BY <3>2, <2>1, <1>7
    <3> QED
      BY <3>1, <3>2
  <2>3. Len(u) = Len(t)
    BY <1>7, <2>1
  <2> QED
    BY <1>5, <2>1, <2>2, <2>3, SeqEqual DEF u
<1> QED
  BY <1>1, <1>6, <1>7, <1>8

-----------------------------------------------------------------------------
(* tolower leaves dots and the cut into labels alone.                      *)
LEMMA LowerType ==
    \A c \in CStringByte : Lower(c) \in CStringByte /\ (Lower(c) = Dot <=> c = Dot)
BY DEF CStringByte, Lower, Dot

(* tolower goes over a string character by character.                      *)
LEMMA LowerCaseType ==
    \A s \in Seq(CStringByte) : /\ LowerCase(s) \in Seq(CStringByte)
                                /\ Len(LowerCase(s)) = Len(s)
                                /\ \A i \in 1 .. Len(s) : LowerCase(s)[i] = Lower(s[i])
<1> SUFFICES ASSUME NEW s \in Seq(CStringByte)
             PROVE  /\ LowerCase(s) \in Seq(CStringByte)
                    /\ Len(LowerCase(s)) = Len(s)
                    /\ \A i \in 1 .. Len(s) : LowerCase(s)[i] = Lower(s[i])
  OBVIOUS
<1>1. Len(s) \in Nat /\ \A i \in 1 .. Len(s) : Lower(s[i]) \in CStringByte
  BY LowerType, ElementOfSeq, LenProperties
<1>2. LowerCase(s) = [i \in 1 .. Len(s) |-> Lower(s[i])]
  BY DEF LowerCase
<1> QED
  BY <1>1, <1>2

(* A label stays a label ...                                               *)
LEMMA LowerLabel == \A l \in Label : LowerCase(l) \in Label
<1> SUFFICES ASSUME NEW l \in Label
             PROVE  LowerCase(l) \in Label
  OBVIOUS
<1> DEFINE C == 1 .. 255 \ {Dot}
<1>1. l \in Seq(C) /\ Len(l) \in Nat
  BY LenProperties DEF Label
<1>2. \A i \in 1 .. Len(l) : Lower(l[i]) \in C
  <2>1. \A i \in 1 .. Len(l) : l[i] \in C
    BY <1>1, ElementOfSeq
  <2> QED
    BY <2>1, LowerType DEF CStringByte
<1> HIDE DEF C
<1>3. LowerCase(l) \in Seq(C)
  BY <1>1, <1>2 DEF LowerCase
<1> QED
  BY <1>3 DEF Label, C

(* ... and strings can be put together before or after it.                 *)
LEMMA LowerCaseConcat ==
    \A s, t \in Seq(CStringByte) : LowerCase(s \o t) = LowerCase(s) \o LowerCase(t)
<1> SUFFICES ASSUME NEW s \in Seq(CStringByte), NEW t \in Seq(CStringByte)
             PROVE  LowerCase(s \o t) = LowerCase(s) \o LowerCase(t)
  OBVIOUS
<1> DEFINE u == s \o t
           a == LowerCase(s)
           b == LowerCase(t)
           v == a \o b
<1>1. /\ u \in Seq(CStringByte) /\ Len(u) = Len(s) + Len(t)
      /\ \A i \in 1 .. Len(s) + Len(t) : u[i] = IF i <= Len(s) THEN s[i] ELSE t[i - Len(s)]
      /\ Len(s) \in Nat /\ Len(t) \in Nat
  BY ConcatProperties, LenProperties
<1>2. /\ a \in Seq(CStringByte) /\ Len(a) = Len(s)
      /\ b \in Seq(CStringByte) /\ Len(b) = Len(t)
      /\ \A i \in 1 .. Len(s) : a[i] = Lower(s[i])
      /\ \A i \in 1 .. Len(t) : b[i] = Lower(t[i])
  BY LowerCaseType
<1> HIDE DEF u, a, b
<1>3. /\ v \in Seq(CStringByte) /\ Len(v) = Len(a) + Len(b)
      /\ \A i \in 1 .. Len(a) + Len(b) : v[i] = IF i <= Len(a) THEN a[i] ELSE b[i - Len(a)]
  <2>1. a \in Seq(CStringByte) /\ b \in Seq(CStringByte)
    BY <1>2
  <2> QED
    BY <2>1, ConcatProperties
<1> HIDE DEF v
<1>4. /\ LowerCase(u) \in Seq(CStringByte) /\ Len(LowerCase(u)) = Len(u)
      /\ \A i \in 1 .. Len(u) : LowerCase(u)[i] = Lower(u[i])
  BY <1>1, LowerCaseType
<1>5. ASSUME NEW i \in 1 .. Len(u)
      PROVE  LowerCase(u)[i] = v[i]
  <2>1. CASE i <= Len(s)
    <3>1. i \in 1 .. Len(s)
      BY <2>1, <1>1
    <3> QED
      BY <3>1, <2>1, <1>1, <1>2, <1>3, <1>4
  <2>2. CASE ~(i <= Len(s))
    <3>1. i - Len(s) \in 1 .. Len(t)
      BY <2>2, <1>1
    <3> QED
      BY <3>1, <2>2, <1>1, <1>2, <1>3, <1>4
  <2> QED
    BY <2>1, <2>2
<1>6. Len(LowerCase(u)) = Len(v)
  BY <1>1, <1>2, <1>3, <1>4
<1>7. LowerCase(u) = v
  BY <1>3, <1>4, <1>5, <1>6, SeqEqual
<1> QED
  BY <1>7 DEF u, v, a, b

(* It leaves a dot alone.                                                  *)
LEMMA LowerDot == LowerCase(<<Dot>>) = <<Dot>>
<1>1. /\ LowerCase(<<Dot>>) \in Seq(CStringByte) /\ Len(LowerCase(<<Dot>>)) = Len(<<Dot>>)
      /\ \A i \in 1 .. Len(<<Dot>>) : LowerCase(<<Dot>>)[i] = Lower(<<Dot>>[i])
  BY DotIsCharacter, LowerCaseType
<1>2. Len(<<Dot>>) = 1 /\ <<Dot>>[1] = Dot /\ <<Dot>> \in Seq(CStringByte) /\ Lower(Dot) = Dot
  BY DotIsCharacter, LowerType
<1>3. LowerCase(<<Dot>>)[1] = <<Dot>>[1]
  BY <1>1, <1>2
<1>4. \A i \in 1 .. Len(<<Dot>>) : LowerCase(<<Dot>>)[i] = <<Dot>>[i]
  BY <1>2, <1>3
<1> QED
  BY <1>1, <1>2, <1>4, SeqEqual

(* So it can be done label by label.                                       *)
LEMMA LowerAppendLabel ==
    \A p \in Seq(CStringByte), l \in Label :
      LowerCase(AppendLabel(p, l)) = AppendLabel(LowerCase(p), LowerCase(l))
<1> SUFFICES ASSUME NEW p \in Seq(CStringByte), NEW l \in Label
             PROVE  LowerCase((p \o <<Dot>>) \o l) = (LowerCase(p) \o <<Dot>>) \o LowerCase(l)
  BY DEF AppendLabel
<1> DEFINE dot == <<Dot>>
           u == p \o dot
<1>1. dot \in Seq(CStringByte) /\ l \in Seq(CStringByte) /\ LowerCase(dot) = dot
  BY LabelIsText, DotIsCharacter, LowerDot
<1> HIDE DEF dot
<1>2. u \in Seq(CStringByte) /\ LowerCase(u) = LowerCase(p) \o dot
  BY <1>1, LowerCaseConcat, ConcatProperties
<1> HIDE DEF u
<1>3. LowerCase(u \o l) = LowerCase(u) \o LowerCase(l)
  BY <1>1, <1>2, LowerCaseConcat
<1> QED
  BY <1>2, <1>3, Zenon DEF dot, u

(* The labels of a name in lower case are a name of the same length.       *)
LEMMA LabelsType ==
    \A n \in NameSeqs : /\ Labels(n) \in NameSeqs /\ Len(Labels(n)) = Len(n) /\ Len(n) \in Nat
                        /\ \A i \in 1 .. Len(n) : Labels(n)[i] = LowerCase(n[i])
<1> SUFFICES ASSUME NEW n \in NameSeqs
             PROVE  /\ Labels(n) \in NameSeqs /\ Len(Labels(n)) = Len(n) /\ Len(n) \in Nat
                    /\ \A i \in 1 .. Len(n) : Labels(n)[i] = LowerCase(n[i])
  OBVIOUS
<1>1. Len(n) \in Nat /\ \A i \in 1 .. Len(n) : LowerCase(n[i]) \in Label
  BY LowerLabel, ElementOfSeq, LenProperties DEF NameSeqs
<1>2. Labels(n) = [i \in 1 .. Len(n) |-> LowerCase(n[i])]
  BY DEF Labels
<1> QED
  BY <1>1, <1>2 DEF NameSeqs

(* They are found from the left.                                           *)
LEMMA LabelsAppend ==
    \A n \in NameSeqs, l \in Label : Labels(Append(n, l)) = Append(Labels(n), LowerCase(l))
<1> SUFFICES ASSUME NEW n \in NameSeqs, NEW l \in Label
             PROVE  Labels(Append(n, l)) = Append(Labels(n), LowerCase(l))
  OBVIOUS
<1> DEFINE m == Append(n, l)
           k == LowerCase(l)
           v == Append(Labels(n), k)
<1>1. /\ m \in NameSeqs /\ Len(m) = Len(n) + 1 /\ m[Len(n) + 1] = l
      /\ \A i \in 1 .. Len(n) : m[i] = n[i]
  BY AppendProperties DEF NameSeqs
<1>2. /\ Labels(n) \in NameSeqs /\ Len(Labels(n)) = Len(n) /\ Len(n) \in Nat
      /\ \A i \in 1 .. Len(n) : Labels(n)[i] = LowerCase(n[i])
  BY LabelsType
<1> HIDE DEF m
<1>3. /\ Labels(m) \in NameSeqs /\ Len(Labels(m)) = Len(m)
      /\ \A i \in 1 .. Len(m) : Labels(m)[i] = LowerCase(m[i])
  BY <1>1, LabelsType
<1>4. k \in Label
  BY LowerLabel
<1>5. /\ v \in NameSeqs /\ Len(v) = Len(n) + 1 /\ v[Len(n) + 1] = k
      /\ \A i \in 1 .. Len(n) : v[i] = Labels(n)[i]
  BY <1>2, <1>4, AppendProperties DEF NameSeqs
<1> HIDE DEF v
<1>6. ASSUME NEW i \in 1 .. Len(m)
      PROVE  Labels(m)[i] = v[i]
  <2>1. CASE i = Len(n) + 1
    BY <2>1, <1>1, <1>3, <1>5 DEF k
  <2>2. CASE i # Len(n) + 1
    <3>1. i \in 1 .. Len(n)
      BY <2>2, <1>1, <1>2
    <3> QED
      BY <3>1, <1>1, <1>2, <1>3, <1>5
  <2> QED
    BY <2>1, <2>2
<1>7. Labels(m) = v
  BY <1>1, <1>3, <1>5, <1>6, SeqEqual DEF NameSeqs
<1> QED
  BY <1>7 DEF m, v, k

(* The text in lower case is the text of the labels in lower case.         *)
LEMMA DottedLower == \A n \in NameSeqs : DottedText(Labels(n)) = LowerCase(DottedText(n))
<1> DEFINE T == {n \in NameSeqs : DottedText(Labels(n)) = LowerCase(DottedText(n))}
<1>1. <<>> \in T
  <2>1. <<>> \in NameSeqs /\ <<>> \in Seq(CStringByte) /\ Len(<<>>) = 0
    BY EmptySeq DEF NameSeqs
  <2>2. Labels(<<>>) = <<>> /\ LowerCase(<<>>) = <<>>
    BY <2>1, LabelsType, LowerCaseType, EmptySeq DEF NameSeqs
  <2> QED
    BY <2>1, <2>2, DottedOf
<1>2. ASSUME NEW n \in Seq(Label), NEW l \in Label, n \in T
      PROVE  Append(n, l) \in T
  <2>1. n \in NameSeqs /\ Append(n, l) \in NameSeqs
    BY AppendProperties DEF NameSeqs
  <2>2. Labels(n) \in NameSeqs /\ LowerCase(l) \in Label /\ DottedText(n) \in Seq(CStringByte)
    BY <2>1, LabelsType, LowerLabel, DottedType
  <2>3. DottedText(Labels(Append(n, l))) = AppendLabel(DottedText(Labels(n)), LowerCase(l))
    BY <2>1, <2>2, LabelsAppend, DottedOf
  <2>4. LowerCase(DottedText(Append(n, l))) = AppendLabel(LowerCase(DottedText(n)), LowerCase(l))
    BY <2>1, <2>2, DottedOf, LowerAppendLabel
  <2> QED
    BY <1>2, <2>1, <2>3, <2>4
<1> HIDE DEF T
<1>3. NameSeqs \subseteq T
  BY <1>1, <1>2, Dotted!InductionOnSeq DEF NameSeqs
<1> QED
  BY <1>3 DEF T

(* So it is for the C string of a name.                                    *)
LEMMA LowerText ==
    ASSUME NEW n \in DomainNames
    PROVE  Labels(n) \in DomainNames /\ LowerCase(NameText(n)) = NameText(Labels(n))
<1>1. n \in NameSeqs /\ n # <<>>
  BY DEF DomainNames, NameSeqs
<1>2. Labels(n) \in DomainNames
  BY <1>1, LabelsType, EmptySeq DEF DomainNames, NameSeqs
<1> DEFINE dot == <<Dot>>
           s == NameText(n)
           t == NameText(Labels(n))
<1>3. /\ s \in Seq(CStringByte) /\ DottedText(n) = dot \o s
      /\ t \in Seq(CStringByte) /\ DottedText(Labels(n)) = dot \o t
      /\ dot \in Seq(CStringByte) /\ LowerCase(dot) = dot
  BY <1>2, TextBehindDot, DotIsCharacter, LowerDot
<1> HIDE DEF dot, s, t
<1>4. dot \o t = dot \o LowerCase(s)
  BY <1>1, <1>3, DottedLower, LowerCaseConcat
<1>5. t = LowerCase(s)
  BY <1>3, <1>4, LowerCaseType, ConcatSimplifications
<1> QED
  BY <1>2, <1>5 DEF s, t

-----------------------------------------------------------------------------
(* The suffixes of a name are what is left when labels are taken away.     *)
LEMMA SuffixMeansBehind ==
    ASSUME NEW x \in NameSeqs, NEW y \in NameSeqs
    PROVE  IsSuffix(x, y) <=> \E q \in NameSeqs : y = q \o x
<1>0. /\ Len(x) \in Nat /\ Len(y) \in Nat /\ x \in Seq(Label) /\ y \in Seq(Label)
      /\ \A i \in 1 .. Len(x) : x[i] \in Label
      /\ \A i \in 1 .. Len(y) : y[i] \in Label
  BY LenProperties, ElementOfSeq DEF NameSeqs
<1> DEFINE rx == Reverse(x)
           ry == Reverse(y)
           n == Len(x)
           d == Len(y) - Len(x)
<1>1. /\ Len(rx) = Len(x) /\ \A i \in 1 .. Len(x) : rx[i] = x[Len(x) - i + 1] /\ rx[i] \in Label
      /\ Len(ry) = Len(y) /\ \A i \in 1 .. Len(y) : ry[i] = y[Len(y) - i + 1] /\ ry[i] \in Label
  BY <1>0 DEF Reverse
<1>2. IsSuffix(x, y) <=> Len(rx) <= Len(ry) /\ SubSeq(rx, 1, Len(rx)) = SubSeq(ry, 1, Len(rx))
  BY DEF IsSuffix, IsPrefix
<1> HIDE DEF rx, ry
<1>3. ASSUME n <= Len(y)
      PROVE  /\ SubSeq(rx, 1, n) \in Seq(Label) /\ Len(SubSeq(rx, 1, n)) = n
             /\ \A i \in 1 .. n : SubSeq(rx, 1, n)[i] = rx[i]
             /\ SubSeq(ry, 1, n) \in Seq(Label) /\ Len(SubSeq(ry, 1, n)) = n
             /\ \A i \in 1 .. n : SubSeq(ry, 1, n)[i] = ry[i]
  <2>1. \A i \in 1 .. n : rx[i] \in Label /\ ry[i] \in Label
    BY <1>0, <1>1, <1>3
  <2>2. n \in Int /\ 1 \in Int /\ (IF 1 <= n THEN n - 1 + 1 ELSE 0) = n
        /\ \A i \in 1 .. n : i \in 1 .. n - 1 + 1 /\ 1 + i - 1 = i
    BY <1>0
  <2> HIDE DEF n
  <2>3. /\ SubSeq(rx, 1, n) \in Seq(Label) /\ Len(SubSeq(rx, 1, n)) = n
        /\ \A i \in 1 .. n : SubSeq(rx, 1, n)[i] = rx[i]
    BY <2>1, <2>2, SubSeqProperties
  <2>4. /\ SubSeq(ry, 1, n) \in Seq(Label) /\ Len(SubSeq(ry, 1, n)) = n
        /\ \A i \in 1 .. n : SubSeq(ry, 1, n)[i] = ry[i]
    BY <2>1, <2>2, SubSeqProperties
  <2> QED
    BY <2>3, <2>4
<1>4. ASSUME IsSuffix(x, y)
      PROVE  \E q \in NameSeqs : y = q \o x
  <2>1. n <= Len(y) /\ SubSeq(rx, 1, n) = SubSeq(ry, 1, n)
    BY <1>1, <1>2, <1>4
  <2>2. \A i \in 1 .. n : rx[i] = ry[i]
    BY <1>3, <2>1
  <2>3. ASSUME NEW i \in 1 .. n
        PROVE  y[d + i] = x[i]
    <3>1. n - i + 1 \in 1 .. n /\ n - i + 1 \in 1 .. Len(y)
      BY <1>0, <2>1
    <3>2. rx[n - i + 1] = x[n - (n - i + 1) + 1] /\ ry[n - i + 1] = y[Len(y) - (n - i + 1) + 1]
      BY <3>1, <1>1
    <3>3. n - (n - i + 1) + 1 = i /\ Len(y) - (n - i + 1) + 1 = d + i
      BY <1>0
    <3> QED
      BY <2>2, <3>1, <3>2, <3>3
  <2> DEFINE q == SubSeq(y, 1, d)
  <2>4. d \in Nat /\ \A i \in 1 .. d : i \in 1 .. Len(y)
    BY <1>0, <2>1
  <2>5. /\ q \in Seq(Label) /\ Len(q) = d
        /\ \A i \in 1 .. d : q[i] = y[i]
    <3>1. d \in Int /\ 1 \in Int /\ (IF 1 <= d THEN d - 1 + 1 ELSE 0) = d
          /\ \A i \in 1 .. d : i \in 1 .. d - 1 + 1 /\ 1 + i - 1 = i /\ y[i] \in Label
      BY <1>0, <2>4
    <3> HIDE DEF d
    <3> QED
      BY <3>1, SubSeqProperties
  <2> HIDE DEF q
  <2>6. /\ q \o x \in Seq(Label) /\ Len(q \o x) = Len(q) + Len(x)
        /\ \A i \in 1 .. Len(q) + Len(x) : (q \o x)[i] = IF i <= Len(q) THEN q[i] ELSE x[i - Len(q)]
    BY <1>0, <2>5, ConcatProperties
  <2> DEFINE z == q \o x
  <2>7. /\ z \in Seq(Label) /\ Len(z) = Len(q) + Len(x)
        /\ \A i \in 1 .. Len(q) + Len(x) : z[i] = IF i <= Len(q) THEN q[i] ELSE x[i - Len(q)]
    BY <2>6
  <2> HIDE DEF z
  <2>8. ASSUME NEW i \in 1 .. Len(y)
        PROVE  y[i] = z[i]
    <3>1. i \in 1 .. Len(q) + Len(x)
      BY <1>0, <2>5
    <3>2. CASE i <= d
      <4>1. i \in 1 .. d
        BY <1>0, <2>4, <3>2
      <4> QED
        BY <4>1, <3>1, <3>2, <2>5, <2>7
    <3>3. CASE ~(i <= d)
      <4>1. i - d \in 1 .. n /\ d + (i - d) = i
        BY <1>0, <2>4, <3>3
      <4>2. y[d + (i - d)] = x[i - d]
        BY <4>1, <2>3
      <4>3. z[i] = x[i - d]
        BY <3>1, <3>3, <2>5, <2>7
      <4> QED
        BY <4>1, <4>2, <4>3
    <3> QED
      BY <3>2, <3>3
  <2>9. Len(y) = Len(z)
    BY <1>0, <2>5, <2>7
  <2>10. y = z
    BY <1>0, <2>7, <2>8, <2>9, SeqEqual
  <2> QED
    BY <2>5, <2>10 DEF z, NameSeqs
<1>5. ASSUME NEW q \in NameSeqs, y = q \o x
      PROVE  IsSuffix(x, y)
  <2>1. /\ Len(y) = Len(q) + Len(x) /\ Len(q) \in Nat
        /\ \A i \in 1 .. Len(q) + Len(x) : y[i] = IF i <= Len(q) THEN q[i] ELSE x[i - Len(q)]
    BY <1>0, <1>5, ConcatProperties, LenProperties DEF NameSeqs
  <2>2. n <= Len(y)
    BY <1>0, <2>1
  <2>3. ASSUME NEW i \in 1 .. n
        PROVE  rx[i] = ry[i]
    <3>1. i \in 1 .. Len(y) /\ Len(y) - i + 1 \in 1 .. Len(q) + Len(x)
          /\ ~(Len(y) - i + 1 <= Len(q)) /\ (Len(y) - i + 1) - Len(q) = n - i + 1
      BY <1>0, <2>1
    <3> QED
      BY <3>1, <1>1, <2>1
  <2> DEFINE sx == SubSeq(rx, 1, n)
             sy == SubSeq(ry, 1, n)
  <2>4. /\ sx \in Seq(Label) /\ Len(sx) = n /\ \A i \in 1 .. n : sx[i] = rx[i]
        /\ sy \in Seq(Label) /\ Len(sy) = n /\ \A i \in 1 .. n : sy[i] = ry[i]
    BY <1>3, <2>2
  <2> HIDE DEF sx, sy
  <2>5. sx = sy
    BY <2>3, <2>4, SeqEqual
  <2> QED
    BY <1>1, <1>2, <2>2, <2>5 DEF sx, sy
<1> QED
  BY <1>4, <1>5

-----------------------------------------------------------------------------
(* What the comparison of characters finds: b stands at the end of a,      *)
(* behind a dot.                                                           *)
LEMMA BehindDot ==
    ASSUME NEW a \in Seq(CStringByte), NEW b \in Seq(CStringByte), Len(b) # 0
    PROVE  LET d == Len(a) - Len(b)
           IN  (Len(b) \in 1 .. Len(a) /\ SubSeq(a, d + 1, Len(a)) = b /\ AfterDot(a, d))
                 <=> \E p \in Seq(CStringByte) : a = AppendLabel(p, b)
<1> DEFINE d == Len(a) - Len(b)
           e == SubSeq(a, d + 1, Len(a))
           dot == <<Dot>>
<1>1. /\ Len(a) \in Nat /\ Len(b) \in Nat
      /\ \A i \in 1 .. Len(a) : a[i] \in CStringByte
  BY LenProperties, ElementOfSeq
<1>2. dot \in Seq(CStringByte) /\ Len(dot) = 1 /\ dot[1] = Dot
  BY DotIsCharacter
<1>3. ASSUME d >= 0
      PROVE  /\ e \in Seq(CStringByte) /\ Len(e) = Len(b)
             /\ \A i \in 1 .. Len(b) : e[i] = a[d + i]
  <2>1. /\ d + 1 \in Int /\ Len(a) \in Int
        /\ (IF d + 1 <= Len(a) THEN Len(a) - (d + 1) + 1 ELSE 0) = Len(b)
        /\ Len(a) - (d + 1) + 1 = Len(b)
        /\ \A i \in 1 .. Len(b) : d + 1 + i - 1 = d + i
        /\ \A i \in d + 1 .. Len(a) : a[i] \in CStringByte
    BY <1>1, <1>3
  <2> HIDE DEF d
  <2>2. /\ e \in Seq(CStringByte)
        /\ Len(e) = IF d + 1 <= Len(a) THEN Len(a) - (d + 1) + 1 ELSE 0
        /\ \A i \in 1 .. Len(a) - (d + 1) + 1 : e[i] = a[d + 1 + i - 1]
    BY <2>1, SubSeqProperties
  <2> QED
    BY <2>1, <2>2
<1> HIDE DEF e, dot
<1>4. ASSUME Len(b) \in 1 .. Len(a), e = b, AfterDot(a, d)
      PROVE  \E p \in Seq(CStringByte) : a = AppendLabel(p, b)
  <2> DEFINE p == SubSeq(a, 1, d - 1)
             u == p \o dot
             v == u \o b
  <2>1. d > 0 /\ a[d] = Dot /\ d \in Nat
    BY <1>1, <1>4 DEF AfterDot
  <2>2. p \in Seq(CStringByte) /\ Len(p) = d - 1 /\ \A i \in 1 .. d - 1 : p[i] = a[i]
    <3>1. /\ 1 \in Int /\ d - 1 \in Int
          /\ (IF 1 <= d - 1 THEN d - 1 - 1 + 1 ELSE 0) = d - 1
          /\ \A i \in 1 .. d - 1 : i \in 1 .. d - 1 - 1 + 1 /\ 1 + i - 1 = i
          /\ \A i \in 1 .. d - 1 : a[i] \in CStringByte
      BY <1>1, <2>1
    <3> HIDE DEF d
    <3> QED
      BY <3>1, SubSeqProperties
  <2> HIDE DEF p
  <2>3. /\ u \in Seq(CStringByte) /\ Len(u) = d
        /\ \A i \in 1 .. d : u[i] = IF i <= d - 1 THEN p[i] ELSE dot[i - (d - 1)]
    <3>1. Len(p) + Len(dot) = d /\ Len(p) = d - 1
      BY <1>1, <1>2, <2>1, <2>2
    <3>2. p \in Seq(CStringByte) /\ dot \in Seq(CStringByte)
      BY <1>2, <2>2
    <3>3. /\ u \in Seq(CStringByte) /\ Len(u) = Len(p) + Len(dot)
          /\ \A i \in 1 .. Len(p) + Len(dot) : u[i] = IF i <= Len(p) THEN p[i] ELSE dot[i - Len(p)]
      BY <3>2, ConcatProperties
    <3> HIDE DEF u, d
    <3> QED
      BY <3>1, <3>3
  <2> HIDE DEF u
  <2>4. /\ v \in Seq(CStringByte) /\ Len(v) = Len(a)
        /\ \A i \in 1 .. Len(a) : v[i] = IF i <= d THEN u[i] ELSE b[i - d]
    <3>1. Len(u) + Len(b) = Len(a) /\ Len(u) = d
      BY <1>1, <2>3
    <3>2. u \in Seq(CStringByte)
      BY <2>3
    <3>3. /\ v \in Seq(CStringByte) /\ Len(v) = Len(u) + Len(b)
          /\ \A i \in 1 .. Len(u) + Len(b) : v[i] = IF i <= Len(u) THEN u[i] ELSE b[i - Len(u)]
      BY <3>2, ConcatProperties
    <3> HIDE DEF v, d
    <3> QED
      BY <3>1, <3>3
  <2> HIDE DEF v
  <2>5. ASSUME NEW i \in 1 .. Len(a)
        PROVE  a[i] = v[i]
    <3>1. CASE i < d
      <4>1. i \in 1 .. d - 1 /\ i \in 1 .. d /\ i <= d /\ i <= d - 1
        BY <3>1, <1>1, <2>1
      <4> QED
        BY <4>1, <2>2, <2>3, <2>4
    <3>2. CASE i = d
      <4>1. i \in 1 .. d /\ i <= d /\ ~(i <= d - 1) /\ i - (d - 1) = 1
        BY <3>2, <1>1, <2>1
      <4> QED
        BY <4>1, <3>2, <1>2, <2>1, <2>3, <2>4
    <3>3. CASE d < i
      <4>1. ~(i <= d) /\ i - d \in 1 .. Len(b) /\ d + (i - d) = i
        BY <3>3, <1>1, <2>1
      <4>2. b[i - d] = a[d + (i - d)]
        BY <4>1, <1>3, <1>4, <2>1
      <4> QED
        BY <4>1, <4>2, <2>4
    <3> QED
      BY <3>1, <3>2, <3>3, <1>1, <2>1
  <2>6. a = v
    BY <2>4, <2>5, SeqEqual
  <2> QED
    BY <2>2, <2>6, Zenon DEF v, u, dot, AppendLabel
<1>5. ASSUME NEW p \in Seq(CStringByte), a = AppendLabel(p, b)
      PROVE  Len(b) \in 1 .. Len(a) /\ e = b /\ AfterDot(a, d)
  <2> DEFINE u == p \o dot
  <2>1. /\ u \in Seq(CStringByte) /\ Len(u) = Len(p) + 1 /\ Len(p) \in Nat
        /\ \A i \in 1 .. Len(p) + 1 : u[i] = IF i <= Len(p) THEN p[i] ELSE dot[i - Len(p)]
    <3>1. dot \in Seq(CStringByte) /\ Len(p) \in Nat
      BY <1>2, LenProperties
    <3>2. /\ u \in Seq(CStringByte) /\ Len(u) = Len(p) + Len(dot)
          /\ \A i \in 1 .. Len(p) + Len(dot) : u[i] = IF i <= Len(p) THEN p[i] ELSE dot[i - Len(p)]
      BY <3>1, ConcatProperties
    <3> HIDE DEF u
    <3> QED
      BY <1>2, <3>1, <3>2
  <2>2. a = u \o b
    BY <1>5, Zenon DEF AppendLabel, u, dot
  <2> HIDE DEF u
  <2>3. /\ Len(a) = Len(u) + Len(b)
        /\ \A i \in 1 .. Len(u) + Len(b) : a[i] = IF i <= Len(u) THEN u[i] ELSE b[i - Len(u)]
    BY <2>1, <2>2, ConcatProperties
  <2>4. Len(b) \in 1 .. Len(a) /\ d = Len(p) + 1 /\ d > 0 /\ Len(u) = d
    BY <1>1, <2>1, <2>3
  <2>5. a[d] = Dot
    <3>1. d \in 1 .. Len(u) + Len(b) /\ d <= Len(u) /\ d \in 1 .. Len(p) + 1
          /\ ~(d <= Len(p)) /\ d - Len(p) = 1
      BY <1>1, <2>1, <2>4
    <3> QED
      BY <3>1, <1>2, <2>1, <2>3
  <2>6. e \in Seq(CStringByte) /\ Len(e) = Len(b) /\ \A i \in 1 .. Len(b) : e[i] = a[d + i]
    BY <1>3, <2>1, <2>4
  <2>7. ASSUME NEW i \in 1 .. Len(b)
        PROVE  e[i] = b[i]
    <3>1. d + i \in 1 .. Len(u) + Len(b) /\ ~(d + i <= Len(u)) /\ (d + i) - Len(u) = i
      <4>1. d \in Nat /\ d > 0 /\ Len(u) = d /\ Len(b) \in Nat /\ i \in Nat /\ 1 =< i /\ i =< Len(b)
        BY <1>1, <2>1, <2>4
      <4> HIDE DEF d
      <4> QED
        BY <4>1
    <3> QED
      BY <3>1, <2>3, <2>6
  <2>8. e = b
    BY <2>6, <2>7, SeqEqual
  <2> QED
    BY <2>4, <2>5, <2>8 DEF AfterDot
<1> QED
  BY <1>4, <1>5 DEF e

(* A dot between two texts belongs to the second one.                      *)
LEMMA DotBetween ==
    \A p, b \in Seq(CStringByte) :
      /\ <<Dot>> \o AppendLabel(p, b) = (<<Dot>> \o p) \o (<<Dot>> \o b)
      /\ AppendLabel(p, b) \in Seq(CStringByte)
<1> SUFFICES ASSUME NEW p \in Seq(CStringByte), NEW b \in Seq(CStringByte)
             PROVE  /\ <<Dot>> \o AppendLabel(p, b) = (<<Dot>> \o p) \o (<<Dot>> \o b)
                    /\ AppendLabel(p, b) \in Seq(CStringByte)
  OBVIOUS
<1> DEFINE dot == <<Dot>>
           t == dot \o b
           u == p \o dot
<1>1. dot \in Seq(CStringByte)
  BY DotIsCharacter
<1> HIDE DEF dot
<1>2. u \in Seq(CStringByte) /\ t \in Seq(CStringByte) /\ u \o b = p \o t
  BY <1>1, ConcatProperties, ConcatAssociative
<1>3. (dot \o p) \o t = dot \o (p \o t)
  <2> HIDE DEF t
  <2> QED
    BY <1>1, <1>2, ConcatAssociative
<1>4. u \o b \in Seq(CStringByte)
  <2> HIDE DEF u
  <2> QED
    BY <1>2, ConcatProperties
<1>5. AppendLabel(p, b) = u \o b
  BY Zenon DEF AppendLabel, u, dot
<1> HIDE DEF u, t
<1>6. dot \o AppendLabel(p, b) = (dot \o p) \o t
  BY <1>2, <1>3, <1>5, Zenon
<1>7. AppendLabel(p, b) \in Seq(CStringByte)
  BY <1>4, <1>5, Zenon
<1> QED
  BY <1>6, <1>7, Zenon DEF dot, t

(* A dot before the end of a text is where a label ends.                   *)
LEMMA TextBehindDotIsSuffix ==
    ASSUME NEW x \in DomainNames, NEW y \in DomainNames
    PROVE  (\E p \in Seq(CStringByte) : NameText(y) = AppendLabel(p, NameText(x)))
             <=> x # y /\ IsSuffix(x, y)
<1> DEFINE a == NameText(y)
           b == NameText(x)
           dot == <<Dot>>
<1>1. /\ x \in NameSeqs /\ y \in NameSeqs
      /\ a \in Seq(CStringByte) /\ DottedText(y) = dot \o a
      /\ b \in Seq(CStringByte) /\ DottedText(x) = dot \o b
      /\ dot \in Seq(CStringByte)
  BY TextBehindDot, DotIsCharacter
<1>2. \A p \in Seq(CStringByte) : /\ dot \o AppendLabel(p, b) = (dot \o p) \o (dot \o b)
                                  /\ AppendLabel(p, b) \in Seq(CStringByte)
  BY <1>1, DotBetween
<1> HIDE DEF a, b, dot
<1>3. ASSUME NEW p \in Seq(CStringByte), a = AppendLabel(p, b)
      PROVE  x # y /\ IsSuffix(x, y)
  <2> DEFINE r == dot \o p
  <2>1. r \in Seq(CStringByte) /\ Len(r) = Len(dot) + Len(p) /\ Len(p) \in Nat /\ Len(dot) = 1
    BY <1>1, ConcatProperties, LenProperties DEF dot
  <2>2. DottedText(y) = r \o DottedText(x)
    BY <1>1, <1>2, <1>3, Zenon DEF r
  <2> HIDE DEF r
  <2>3. IsSuffix(x, y)
    <3>1. x \in NameSeqs /\ y \in NameSeqs
      BY <1>1
    <3>2. \E q \in NameSeqs : y = q \o x
      BY <2>1, <2>2, <3>1, TextSuffixIsSuffix
    <3> QED
      BY <3>1, <3>2, SuffixMeansBehind
  <2>4. x # y
    <3>1. DottedText(x) \in Seq(CStringByte) /\ Len(r) # 0
      BY <1>1, <2>1, DottedType
    <3>2. Len(r \o DottedText(x)) = Len(r) + Len(DottedText(x)) /\ Len(DottedText(x)) \in Nat
      BY <2>1, <3>1, ConcatProperties, LenProperties
    <3>3. Len(DottedText(y)) # Len(DottedText(x))
      BY <2>1, <2>2, <3>1, <3>2
    <3> QED
      BY <3>3
  <2> QED
    BY <2>3, <2>4
<1>4. ASSUME x # y, IsSuffix(x, y)
      PROVE  \E p \in Seq(CStringByte) : a = AppendLabel(p, b)
  <2>1. PICK q \in NameSeqs : y = q \o x
    BY <1>1, <1>4, SuffixMeansBehind
  <2>2. q # <<>>
    BY <1>1, <1>4, <2>1, ConcatEmptySeq DEF NameSeqs
  <2>3. q \in DomainNames
    BY <2>1, <2>2 DEF NameSeqs, DomainNames
  <2> DEFINE p == NameText(q)
  <2>4. p \in Seq(CStringByte) /\ DottedText(q) = dot \o p
    BY <2>3, TextBehindDot DEF dot
  <2> HIDE DEF p
  <2>5. DottedText(y) = DottedText(q) \o DottedText(x)
    BY <1>1, <2>1, DottedConcat
  <2>6. dot \o a = (dot \o p) \o (dot \o b)
    BY <1>1, <2>4, <2>5, Zenon
  <2>7. dot \o a = dot \o AppendLabel(p, b) /\ AppendLabel(p, b) \in Seq(CStringByte)
    BY <1>2, <2>4, <2>6, Zenon
  <2>8. a = AppendLabel(p, b)
    BY <1>1, <2>7, ConcatSimplifications
  <2> QED
    BY <2>4, <2>8
<1> QED
  BY <1>3, <1>4 DEF a, b

(* A text without dots is a name of one label.                             *)
LEMMA TextOfOneLabel ==
    ASSUME NEW x \in DomainNames
    PROVE  /\ (\A i \in 1 .. Len(NameText(x)) : NameText(x)[i] # Dot) <=> Len(x) = 1
           /\ Len(x) \in Nat \ {0}
           /\ Len(NameText(x)) \in Nat
           /\ x # <<<<>>>> => Len(NameText(x)) # 0
<1> DEFINE b == NameText(x)
           dot == <<Dot>>
<1>1. /\ x \in NameSeqs /\ x # <<>>
      /\ b \in Seq(CStringByte) /\ DottedText(x) = dot \o b
      /\ dot \in Seq(CStringByte) /\ Len(dot) = 1
  BY TextBehindDot, DotIsCharacter DEF DomainNames
<1>2. PICK z \in NameSeqs, l \in Label : x = Append(z, l)
  BY <1>1, NamesAppend
<1> DEFINE t == DottedText(z)
           w == DottedText(x)
<1>3. t \in Seq(CStringByte) /\ w = AppendLabel(t, l)
  BY <1>2, DottedType, DottedOf
<1>4. Len(x) = Len(z) + 1 /\ Len(z) \in Nat /\ (Len(z) = 0 => z = <<>>)
  BY <1>2, AppendProperties, LenProperties, EmptySeq DEF NameSeqs
<1> HIDE DEF b, dot, t
<1>5. /\ Len(w) = Len(t) + 1 + Len(l) /\ Len(t) \in Nat /\ Len(l) \in Nat
      /\ w[Len(t) + 1] = Dot
      /\ \A i \in Len(t) + 2 .. Len(w) : w[i] # Dot
  BY <1>3, LabelBehindDot
<1>6. /\ Len(w) = 1 + Len(b) /\ Len(b) \in Nat
      /\ \A i \in 1 .. Len(b) : w[i + 1] = b[i]
  <2>1. /\ Len(w) = Len(dot) + Len(b) /\ Len(b) \in Nat
        /\ \A i \in 1 .. Len(dot) + Len(b) : w[i] = IF i <= Len(dot) THEN dot[i] ELSE b[i - Len(dot)]
    <3> DEFINE v == dot \o b
    <3>1. /\ Len(v) = Len(dot) + Len(b) /\ Len(b) \in Nat
          /\ \A i \in 1 .. Len(dot) + Len(b) : v[i] = IF i <= Len(dot) THEN dot[i] ELSE b[i - Len(dot)]
      BY <1>1, ConcatProperties, LenProperties
    <3>2. w = v
      BY <1>1
    <3> HIDE DEF v, w
    <3> QED
      BY <3>1, <3>2, Zenon
  <2> HIDE DEF w
  <2>2. ASSUME NEW i \in 1 .. Len(b)
        PROVE  w[i + 1] = b[i]
    <3>1. i + 1 \in 1 .. Len(dot) + Len(b) /\ ~(i + 1 <= Len(dot)) /\ (i + 1) - Len(dot) = i
      BY <1>1, <2>1
    <3> QED
      BY <3>1, <2>1
  <2> QED
    BY <1>1, <2>1, <2>2
<1> HIDE DEF w
<1>7. CASE z = <<>>
  <2>1. Len(t) = 0 /\ Len(z) = 0
    BY <1>7, DottedOf, EmptySeq DEF t
  <2>2. ASSUME NEW i \in 1 .. Len(b)
        PROVE  b[i] # Dot
    <3>1. i + 1 \in Len(t) + 2 .. Len(w)
      BY <1>6, <2>1
    <3> QED
      BY <3>1, <1>5, <1>6
  <2>3. x # <<<<>>>> => Len(b) # 0
    <3>1. x = <<l>>
      BY <1>2, <1>7
    <3>2. l # <<>> => Len(l) # 0
      BY EmptySeq DEF Label
    <3>3. Len(b) = Len(l)
      BY <1>5, <1>6, <2>1
    <3> QED
      BY <3>1, <3>2, <3>3
  <2>4. Len(x) = 1
    BY <1>4, <2>1
  <2> QED
    BY <1>6, <2>2, <2>3, <2>4 DEF b
<1>8. CASE z # <<>>
  <2>1. t # <<>> /\ Len(t) # 0
    <3>1. PICK y \in NameSeqs, m \in Label : z = Append(y, m)
      BY <1>8, NamesAppend
    <3>2. t = AppendLabel(DottedText(y), m) /\ DottedText(y) \in Seq(CStringByte)
      BY <3>1, DottedOf, DottedType DEF t
    <3>3. Len(t) # 0
      BY <3>2, LabelBehindDot
    <3> QED
      BY <3>3, EmptySeq
  <2>2. Len(t) \in 1 .. Len(b) /\ b[Len(t)] = Dot
    BY <1>5, <1>6, <2>1
  <2>3. Len(z) # 0
    BY <1>4, <1>8
  <2>4. Len(b) # 0 /\ Len(x) # 1
    BY <1>4, <1>6, <2>2, <2>3
  <2> QED
    BY <1>4, <1>6, <2>2, <2>4 DEF b
<1> QED
  BY <1>7, <1>8

(* What libpsl says about a text, said of the labels.                      *)
LEMMA PublicSuffixOfText ==
    ASSUME NEW x \in DomainNames
    PROVE  IsPublicSuffix(NameText(x)) <=> x \in PublicSuffixes \/ Len(x) = 1
<1>1. ASSUME NEW n \in PublicSuffixes, NameText(x) = NameText(n)
      PROVE  x = n
  <2>1. n \in DomainNames
    BY RpIdsAssumption
  <2>2. DottedText(x) = <<Dot>> \o NameText(x) /\ DottedText(n) = <<Dot>> \o NameText(n)
        /\ x \in NameSeqs /\ n \in NameSeqs
    BY <2>1, TextBehindDot
  <2>3. DottedText(x) = DottedText(n)
    BY <1>1, <2>2, Zenon
  <2> QED
    BY <2>2, <2>3, TextsDiffer
<1>2. NameText(x) \in {NameText(n) : n \in PublicSuffixes} <=> x \in PublicSuffixes
  BY <1>1
<1> QED
  BY <1>2, TextOfOneLabel DEF IsPublicSuffix

(* The comparison of characters in is_equal_or_registrable_domain_suffix   *)
(* decides, for all host names and RP ids, what WebAuthn defines on the    *)
(* labels of the names.                                                    *)
THEOREM CharactersDecideLabels ==
    ASSUME NEW h \in Domains, NEW id \in Domains
    PROVE  IsEqualOrRegistrableDomainSuffix(NameText(h), NameText(id)) <=> RegistrableSuffix(h, id)
<1> DEFINE x == Labels(id)
           y == Labels(h)
           a == NameText(y)
           b == NameText(x)
           d == Len(a) - Len(b)
<1>1. h \in DomainNames /\ id \in DomainNames /\ id # <<<<>>>>
  BY RpIdsAssumption
<1>2. /\ x \in DomainNames /\ LowerCase(NameText(id)) = b
      /\ y \in DomainNames /\ LowerCase(NameText(h)) = a
  BY <1>1, LowerText
<1>3. x # <<<<>>>> /\ Len(x) = Len(id)
  <2>1. Len(x) = Len(id) /\ \A i \in 1 .. Len(id) : x[i] = LowerCase(id[i])
    BY <1>1, LabelsType DEF DomainNames, NameSeqs
  <2>2. ASSUME x = <<<<>>>>
        PROVE  FALSE
    <3>1. Len(x) = 1 /\ x[1] = <<>>
      BY <2>2
    <3>2. Len(id) = 1 /\ LowerCase(id[1]) = <<>>
      BY <2>1, <3>1
    <3>3. id[1] \in Label
      BY <1>1, <3>2, ElementOfSeq DEF DomainNames
    <3>4. id[1] \in Seq(CStringByte)
      BY <3>3, LabelIsText
    <3>5. Len(id[1]) = 0
      BY <3>2, <3>4, LowerCaseType, EmptySeq
    <3>6. id[1] = <<>>
      BY <3>4, <3>5, EmptySeq
    <3>7. id = <<<<>>>>
      BY <1>1, <3>2, <3>6 DEF DomainNames
    <3> QED
      BY <1>1, <3>7
  <2> QED
    BY <2>1, <2>2
<1> HIDE DEF x, y
<1>4. /\ a \in Seq(CStringByte) /\ b \in Seq(CStringByte) /\ Len(a) \in Nat
      /\ DottedText(x) = <<Dot>> \o b /\ DottedText(y) = <<Dot>> \o a
      /\ x \in NameSeqs /\ y \in NameSeqs
      /\ Len(b) # 0 /\ Len(b) \in Nat
  BY <1>2, <1>3, TextBehindDot, TextOfOneLabel
<1>5. a = b <=> x = y
  <2>1. ASSUME a = b PROVE x = y
    <3>1. DottedText(x) = DottedText(y)
      BY <1>4, <2>1, Zenon
    <3> QED
      BY <1>4, <3>1, TextsDiffer
  <2> QED
    BY <2>1
<1>6. (\E p \in Seq(CStringByte) : a = AppendLabel(p, b)) <=> x # y /\ IsSuffix(x, y)
  BY <1>2, TextBehindDotIsSuffix
<1>7. IsPublicSuffix(b) <=> x \in PublicSuffixes \/ Len(id) = 1
  BY <1>2, <1>3, PublicSuffixOfText
<1>8. Len(id) \in Nat \ {0}
  BY <1>1, TextOfOneLabel
<1> HIDE DEF a, b
<1>9. (Len(b) \in 1 .. Len(a) /\ SubSeq(a, d + 1, Len(a)) = b /\ AfterDot(a, d))
        <=> x # y /\ IsSuffix(x, y)
  BY <1>4, <1>6, BehindDot
<1>10. IsEqualOrRegistrableDomainSuffix(NameText(h), NameText(id)) <=>
         /\ Len(b) \in 1 .. Len(a)
         /\ a = b \/ (~IsPublicSuffix(b) /\ SubSeq(a, d + 1, Len(a)) = b /\ AfterDot(a, d))
  BY <1>2 DEF IsEqualOrRegistrableDomainSuffix
<1>11. a = b => Len(b) \in 1 .. Len(a)
  BY <1>4
<1>12. RegistrableSuffix(h, id) <=>
         x = y \/ (IsSuffix(x, y) /\ Len(id) > 1 /\ x \notin PublicSuffixes)
  BY DEF RegistrableSuffix, x, y
<1>13. (Len(id) > 1) <=> ~(Len(id) = 1)
  <2> DEFINE n == Len(id)
  <2>1. n \in Nat \ {0}
    BY <1>8
  <2> HIDE DEF n
  <2>2. (n > 1) <=> ~(n = 1)
    BY <2>1
  <2> QED
    BY <2>2 DEF n
<1> HIDE DEF d
<1> QED
  BY <1>5, <1>7, <1>9, <1>10, <1>11, <1>12, <1>13

-----------------------------------------------------------------------------
RpIdsType ==
    /\ host \in Domains
    /\ rpId \in Domains \cup {<<>>}
    /\ verdict \in {"none", "valid", "invalid"}

(* The two checks of a ceremony keep the types of the names they compare.  *)
THEOREM RpIdsTypeCorrect == RpIdsSpec => []RpIdsType
<1>1. RpIdsStart => RpIdsType
  BY DEF RpIdsStart, RpIdsType
<1>2. RpIdsType /\ [RpIdsNext]_rpIdVars => RpIdsType'
  BY DEF RpIdsType, RpIdsNext, UseEffectiveDomain, ValidateRpId, Decided, rpIdVars
<1> QED
  BY <1>1, <1>2, PTL DEF RpIdsSpec

(* validate_rp_id lets exactly the RP ids through that are the name of the *)
(* server or a registrable suffix of it: no label is cut in two, and no    *)
(* public suffix gets through (ud.c:250).                                  *)
THEOREM RpIdsValidIffRegistrable == RpIdsSpec => []ValidIffRegistrable
<1>1. RpIdsStart => ValidIffRegistrable
  BY DEF RpIdsStart, ValidIffRegistrable
<1>2. ASSUME RpIdsType, ValidIffRegistrable, [RpIdsNext]_rpIdVars
      PROVE  ValidIffRegistrable'
  <2>1. CASE UseEffectiveDomain
    BY <2>1 DEF UseEffectiveDomain, ValidIffRegistrable
  <2>2. CASE ValidateRpId
    <3>1. host \in Domains /\ rpId \in Domains /\ host' = host /\ rpId' = rpId
      BY <2>2, <1>2 DEF ValidateRpId, RpIdsType
    <3>2. verdict' = "valid" <=> RegistrableSuffix(host, rpId)
      BY <2>2, <3>1, CharactersDecideLabels DEF ValidateRpId
    <3> QED
      BY <3>1, <3>2 DEF ValidIffRegistrable
  <2>3. CASE UNCHANGED rpIdVars
    BY <2>3, <1>2 DEF ValidIffRegistrable, rpIdVars
  <2> QED
    BY <1>2, <2>1, <2>2, <2>3 DEF RpIdsNext, Decided
<1> QED
  BY <1>1, <1>2, RpIdsTypeCorrect, PTL DEF RpIdsSpec

-----------------------------------------------------------------------------
(***************************************************************************)
(* Base64.  Decoding is the inverse of encoding, for base64 and base64url  *)
(* and for byte strings of every length.                                   *)
(***************************************************************************)
Octets == 0 .. 255

ByteStrings == {s \in Seq(Octets) : Len(s) > 0}

(* The groups of a byte string, of three bytes or four characters.         *)
Groups(s) == (Len(s) + 2) \div 3

(* The sextets of three bytes.                                             *)
First(b1) == b1 \div 4
Second(b1, b2) == (b1 % 4) * 16 + (b2 \div 16)
Third(b2, b3) == (b2 % 16) * 4 + (b3 \div 64)
Fourth(b3) == b3 % 64

(* What Len % 3 says about the last group.                                 *)
LEMMA GroupsCover ==
    ASSUME NEW s \in ByteStrings
    PROVE  /\ Groups(s) \in Nat \ {0}
           /\ \/ Len(s) % 3 = 0 /\ 3 * Groups(s) = Len(s)
              \/ Len(s) % 3 = 1 /\ 3 * Groups(s) = Len(s) + 2
              \/ Len(s) % 3 = 2 /\ 3 * Groups(s) = Len(s) + 1
<1>1. Len(s) \in Nat \ {0}
  BY DEF ByteStrings
<1> QED
  BY <1>1 DEF Groups

(* A byte, or zero behind the end.                                         *)
LEMMA ByteAtType ==
    ASSUME NEW s \in ByteStrings, NEW i \in Nat
    PROVE  ByteAt(s, i) \in 0 .. 255
<1>1. s \in Seq(Octets)
  BY DEF ByteStrings
<1>2. CASE i \in 1 .. Len(s)
  <2>1. s[i] \in Octets
    BY <1>1, <1>2, ElementOfSeq
  <2> QED
    BY <1>2, <2>1 DEF ByteAt, Octets
<1>3. CASE i \notin 1 .. Len(s)
  BY <1>3 DEF ByteAt, Octets
<1> QED
  BY <1>2, <1>3

(* The characters of group g in a text.                                    *)
LEMMA Characters ==
    ASSUME NEW s \in ByteStrings, NEW g \in 0 .. Groups(s) - 1, NEW j \in 0 .. 3
    PROVE  /\ 4 * g + (j + 1) \in 1 .. 4 * Groups(s)
           /\ EncodeBlock(s)[4 * g + (j + 1)] = Character(s, g, j)
<1>1. Groups(s) \in Nat /\ g \in Nat
  BY GroupsCover
<1>2. 4 * g + (j + 1) \in 1 .. 4 * Groups(s)
  BY <1>1
<1>3. (4 * g + (j + 1) - 1) \div 4 = g /\ (4 * g + (j + 1) - 1) % 4 = j
  BY <1>1
<1>4. EncodeBlock(s)[4 * g + (j + 1)]
        = Character(s, (4 * g + (j + 1) - 1) \div 4, (4 * g + (j + 1) - 1) % 4)
  BY <1>2 DEF EncodeBlock, Groups
<1> QED
  BY <1>2, <1>3, <1>4

(* The four characters of group g, spelled out.                            *)
LEMMA Sextets ==
    ASSUME NEW s \in ByteStrings, NEW g \in 0 .. Groups(s) - 1,
           NEW t, t = EncodeBlock(s),
           NEW b1, b1 = ByteAt(s, 3 * g + 1), NEW b2, b2 = ByteAt(s, 3 * g + 2),
           NEW b3, b3 = ByteAt(s, 3 * g + 3)
    PROVE  /\ t[4 * g + 1] = First(b1)
           /\ t[4 * g + 2] = Second(b1, b2)
           /\ t[4 * g + 3] = IF 3 * g + 2 =< Len(s) THEN Third(b2, b3) ELSE Pad
           /\ t[4 * g + 4] = IF 3 * g + 3 =< Len(s) THEN Fourth(b3) ELSE Pad
<1>1. \A j \in 0 .. 3 : t[4 * g + (j + 1)] = Character(s, g, j)
  BY Characters
<1>2. /\ t[4 * g + 1] = Character(s, g, 0)
      /\ t[4 * g + 2] = Character(s, g, 1)
      /\ t[4 * g + 3] = Character(s, g, 2)
      /\ t[4 * g + 4] = Character(s, g, 3)
  BY <1>1
<1> QED
  BY <1>2 DEF Character, First, Second, Third, Fourth

(* Arithmetic of one group: three bytes, cut into sextets and put together. *)
Recombines(b1, b2, b3) ==
    /\ First(b1) \in 0 .. 63 /\ Second(b1, b2) \in 0 .. 63
    /\ Third(b2, b3) \in 0 .. 63 /\ Fourth(b3) \in 0 .. 63
    /\ (First(b1) * 4 + (Second(b1, b2) \div 16)) % 256 = b1
    /\ ((Second(b1, b2) % 16) * 16 + (Third(b2, b3) \div 4)) % 256 = b2
    /\ (Third(b2, b3) % 4) * 64 + Fourth(b3) = b3
    /\ b2 = 0 /\ b3 = 0 => Third(b2, b3) = 0
    /\ b3 = 0 => Fourth(b3) = 0

(* It holds of all three bytes.                                            *)
LEMMA Recombined ==
    ASSUME NEW b1 \in 0 .. 255, NEW b2 \in 0 .. 255, NEW b3 \in 0 .. 255
    PROVE  Recombines(b1, b2, b3)
<1>1. b1 \div 4 \in 0 .. 63 /\ b1 % 4 \in 0 .. 3 /\ 4 * (b1 \div 4) + (b1 % 4) = b1
  OBVIOUS
<1>2. b2 \div 16 \in 0 .. 15 /\ b2 % 16 \in 0 .. 15 /\ 16 * (b2 \div 16) + (b2 % 16) = b2
  OBVIOUS
<1>3. b3 \div 64 \in 0 .. 3 /\ b3 % 64 \in 0 .. 63 /\ 64 * (b3 \div 64) + (b3 % 64) = b3
  OBVIOUS
<1>4. ASSUME NEW x \in 0 .. 3, NEW y \in 0 .. 15
      PROVE  (x * 16 + y) \div 16 = x /\ (x * 16 + y) % 16 = y /\ x * 16 + y \in 0 .. 63
  OBVIOUS
<1>5. ASSUME NEW x \in 0 .. 15, NEW y \in 0 .. 3
      PROVE  (x * 4 + y) \div 4 = x /\ (x * 4 + y) % 4 = y /\ x * 4 + y \in 0 .. 63
  OBVIOUS
<1>6. ASSUME NEW x \in 0 .. 255 PROVE x % 256 = x
  OBVIOUS
<1> QED
  BY <1>1, <1>2, <1>3, <1>4, <1>5, <1>6 DEF Recombines, First, Second, Third, Fourth

(* "=" is read as the zero bits of the bytes that are not there, so a group *)
(* decodes to its bytes.                                                   *)
LEMMA GroupDecodes ==
    ASSUME NEW s \in ByteStrings, NEW g \in 0 .. Groups(s) - 1, NEW j \in 0 .. 2
    PROVE  DecodedByte(EncodeBlock(s), g, j) = ByteAt(s, 3 * g + (j + 1))
<1> DEFINE b1 == ByteAt(s, 3 * g + 1)
           b2 == ByteAt(s, 3 * g + 2)
           b3 == ByteAt(s, 3 * g + 3)
           t == EncodeBlock(s)
<1>1. g \in Nat /\ Len(s) \in Nat
  BY GroupsCover DEF ByteStrings
<1>2. b1 \in 0 .. 255 /\ b2 \in 0 .. 255 /\ b3 \in 0 .. 255
  BY <1>1, ByteAtType
<1>3. (~(3 * g + 2 =< Len(s)) => b2 = 0 /\ b3 = 0) /\ (~(3 * g + 3 =< Len(s)) => b3 = 0)
  BY <1>1 DEF ByteAt
<1>4. /\ t[4 * g + 1] = First(b1)
      /\ t[4 * g + 2] = Second(b1, b2)
      /\ t[4 * g + 3] = IF 3 * g + 2 =< Len(s) THEN Third(b2, b3) ELSE Pad
      /\ t[4 * g + 4] = IF 3 * g + 3 =< Len(s) THEN Fourth(b3) ELSE Pad
  BY Sextets
<1>5. DecodedByte(t, g, 0) = (Bits(t[4 * g + 1]) * 4 + (Bits(t[4 * g + 2]) \div 16)) % 256
  BY DEF DecodedByte
<1>6. DecodedByte(t, g, 1)
        = ((Bits(t[4 * g + 2]) % 16) * 16 + (Bits(t[4 * g + 3]) \div 4)) % 256
  BY DEF DecodedByte
<1>7. DecodedByte(t, g, 2) = (Bits(t[4 * g + 3]) % 4) * 64 + Bits(t[4 * g + 4])
  BY DEF DecodedByte
<1>8. (j = 0 => ByteAt(s, 3 * g + (j + 1)) = b1) /\ (j = 1 => ByteAt(s, 3 * g + (j + 1)) = b2)
      /\ (j = 2 => ByteAt(s, 3 * g + (j + 1)) = b3)
  OBVIOUS
<1> HIDE DEF b1, b2, b3, t
<1>9. Bits(Pad) = 0 /\ \A c \in 0 .. 63 : Bits(c) = c
  BY DEF Bits, Pad
<1>10. Recombines(b1, b2, b3)
  BY <1>2, Recombined
<1>11. Bits(t[4 * g + 1]) = First(b1) /\ Bits(t[4 * g + 2]) = Second(b1, b2)
  BY <1>4, <1>9, <1>10, Zenon DEF Recombines
<1>12. Bits(t[4 * g + 3]) = Third(b2, b3)
  BY <1>3, <1>4, <1>9, <1>10, Zenon DEF Recombines
<1>13. Bits(t[4 * g + 4]) = Fourth(b3)
  BY <1>3, <1>4, <1>9, <1>10, Zenon DEF Recombines
<1>14. DecodedByte(t, g, 0) = b1
  BY <1>5, <1>10, <1>11, Zenon DEF Recombines
<1>15. DecodedByte(t, g, 1) = b2
  BY <1>6, <1>10, <1>11, <1>12, Zenon DEF Recombines
<1>16. DecodedByte(t, g, 2) = b3
  BY <1>7, <1>10, <1>12, <1>13, Zenon DEF Recombines
<1> QED
  BY <1>8, <1>14, <1>15, <1>16 DEF t

(* How many "=" the text of s ends with.                                   *)
Pads(s) == CASE Len(s) % 3 = 0 -> 0 [] Len(s) % 3 = 1 -> 2 [] Len(s) % 3 = 2 -> 1

(* The groups hold the bytes and their padding.                            *)
LEMMA PadsCount ==
    ASSUME NEW s \in ByteStrings
    PROVE  /\ Groups(s) \in Nat \ {0} /\ Len(s) \in Nat \ {0}
           /\ Pads(s) \in 0 .. 2
           /\ 3 * Groups(s) = Len(s) + Pads(s)
<1>1. Len(s) \in Nat \ {0} /\ Groups(s) \in Nat \ {0}
  BY GroupsCover DEF ByteStrings
<1> QED
  BY <1>1, GroupsCover DEF Pads

(* A text has four characters a group, and "=" just at its end.            *)
LEMMA TextShape ==
    ASSUME NEW s \in ByteStrings
    PROVE  /\ EncodeBlock(s) \in Seq(0 .. 64)
           /\ Len(EncodeBlock(s)) = 4 * Groups(s)
           /\ \A p \in 1 .. 4 * Groups(s) :
                /\ EncodeBlock(s)[p] \in 0 .. 64
                /\ EncodeBlock(s)[p] = Pad <=> p > 4 * Groups(s) - Pads(s)
<1> DEFINE t == EncodeBlock(s)
           G == Groups(s)
           n == Len(s)
           r == Pads(s)
<1>1. G \in Nat \ {0} /\ n \in Nat \ {0} /\ r \in 0 .. 2 /\ 3 * G = n + r
  BY PadsCount
<1>2. ASSUME NEW p \in 1 .. 4 * G
      PROVE  t[p] \in 0 .. 64 /\ (t[p] = Pad <=> p > 4 * G - r)
  <2> DEFINE g == (p - 1) \div 4
             j == (p - 1) % 4
             b1 == ByteAt(s, 3 * g + 1)
             b2 == ByteAt(s, 3 * g + 2)
             b3 == ByteAt(s, 3 * g + 3)
  <2>1. g \in 0 .. G - 1 /\ j \in 0 .. 3 /\ p = 4 * g + (j + 1)
    BY <1>1
  <2>2. b1 \in 0 .. 255 /\ b2 \in 0 .. 255 /\ b3 \in 0 .. 255
    <3>1. 3 * g + 1 \in Nat /\ 3 * g + 2 \in Nat /\ 3 * g + 3 \in Nat
      BY <1>1, <2>1
    <3> QED
      BY <1>1, <3>1, ByteAtType
  <2> HIDE DEF g, j
  <2>3. /\ t[4 * g + 1] = First(b1)
        /\ t[4 * g + 2] = Second(b1, b2)
        /\ t[4 * g + 3] = IF 3 * g + 2 =< n THEN Third(b2, b3) ELSE Pad
        /\ t[4 * g + 4] = IF 3 * g + 3 =< n THEN Fourth(b3) ELSE Pad
    BY <2>1, Sextets
  <2> HIDE DEF b1, b2, b3, t, G, n, r
  <2>4. /\ First(b1) \in 0 .. 63 /\ Second(b1, b2) \in 0 .. 63
        /\ Third(b2, b3) \in 0 .. 63 /\ Fourth(b3) \in 0 .. 63
    <3>1. Recombines(b1, b2, b3)
      BY <2>2, Recombined
    <3> QED
      BY <3>1, Zenon DEF Recombines
  <2>5. CASE j = 0
    BY <1>1, <2>1, <2>3, <2>4, <2>5 DEF Pad
  <2>6. CASE j = 1
    BY <1>1, <2>1, <2>3, <2>4, <2>6 DEF Pad
  <2>7. CASE j = 2
    <3>1. p = 4 * g + 3 /\ (3 * g + 2 > n <=> p > 4 * G - r)
      BY <1>1, <2>1, <2>7
    <3> QED
      BY <1>1, <2>1, <2>3, <2>4, <3>1 DEF Pad
  <2>8. CASE j = 3
    <3>1. p = 4 * g + 4 /\ (3 * g + 3 > n <=> p > 4 * G - r)
      BY <1>1, <2>1, <2>8
    <3> QED
      BY <1>1, <2>1, <2>3, <2>4, <3>1 DEF Pad
  <2> QED
    BY <2>1, <2>5, <2>6, <2>7, <2>8
<1>3. t = [p \in 1 .. 4 * G |-> t[p]]
  BY DEF EncodeBlock, Groups
<1>4. t \in Seq(0 .. 64) /\ Len(t) = 4 * G
  <2> HIDE DEF t, G
  <2>1. t \in [1 .. 4 * G -> 0 .. 64]
    BY <1>2, <1>3
  <2> QED
    BY <1>1, <2>1
<1> QED
  BY <1>2, <1>4

(* A text decodes to the bytes and, where there are "=", zeros.            *)
LEMMA BlockDecodes ==
    ASSUME NEW s \in ByteStrings
    PROVE  DecodeBlock(EncodeBlock(s)) = [q \in 1 .. 3 * Groups(s) |-> ByteAt(s, q)]
<1> DEFINE t == EncodeBlock(s)
           G == Groups(s)
<1>1. G \in Nat \ {0} /\ Len(t) = 4 * G
  BY PadsCount, TextShape
<1>2. 3 * (Len(t) \div 4) = 3 * G
  BY <1>1
<1>3. ASSUME NEW q \in 1 .. 3 * G
      PROVE  DecodedByte(t, (q - 1) \div 3, (q - 1) % 3) = ByteAt(s, q)
  <2>1. /\ (q - 1) \div 3 \in 0 .. G - 1 /\ (q - 1) % 3 \in 0 .. 2
        /\ 3 * ((q - 1) \div 3) + (((q - 1) % 3) + 1) = q
    BY <1>1
  <2> QED
    BY <2>1, GroupDecodes
<1> QED
  BY <1>2, <1>3 DEF DecodeBlock

(* decode_base64 is the inverse of encode_base64.                          *)
THEOREM Base64RoundTrip ==
    ASSUME NEW s \in ByteStrings
    PROVE  DecodeBase64(EncodeBase64(s)) = Decoded(s)
<1> DEFINE t == EncodeBlock(s)
           G == Groups(s)
           r == Pads(s)
<1>1. G \in Nat \ {0} /\ Len(s) \in Nat \ {0} /\ r \in 0 .. 2 /\ 3 * G = Len(s) + r
  BY PadsCount
<1>2. Len(t) = 4 * G /\ (\A p \in 1 .. 4 * G : t[p] \in 0 .. 64)
      /\ \A p \in 1 .. 4 * G : t[p] = Pad <=> p > 4 * G - r
  BY TextShape
<1>3. DecodeBlock(t) = [q \in 1 .. 3 * G |-> ByteAt(s, q)]
  BY BlockDecodes
<1> HIDE DEF t, G, r
<1>4. Padding(t) = r
  <2>1. 4 * G \in 1 .. 4 * G /\ 4 * G - 1 \in 1 .. 4 * G
    BY <1>1
  <2>2. (t[4 * G] = Pad <=> r > 0) /\ (t[4 * G - 1] = Pad <=> r > 1)
    BY <1>1, <1>2, <2>1
  <2> QED
    BY <1>1, <1>2, <2>2 DEF Padding
<1>5. Len(t) > 0 /\ Base64Text(t)
  BY <1>1, <1>2 DEF Base64Text, Pad
<1>6. SubSeq(DecodeBlock(t), 1, Len(DecodeBlock(t)) - r) = s
  <2>1. Len(DecodeBlock(t)) = 3 * G
    BY <1>1, <1>3
  <2>2. SubSeq(DecodeBlock(t), 1, Len(DecodeBlock(t)) - r)
          = [q \in 1 .. Len(s) |-> ByteAt(s, q)]
    BY <1>1, <1>3, <2>1
  <2>3. \A q \in 1 .. Len(s) : ByteAt(s, q) = s[q]
    BY DEF ByteAt
  <2>4. s = [q \in 1 .. Len(s) |-> s[q]]
    BY DEF ByteStrings
  <2> QED
    BY <2>2, <2>3, <2>4
<1> QED
  BY <1>4, <1>5, <1>6 DEF DecodeBase64, EncodeBase64, t

(* The length of a text without its "=" is found.                          *)
LEMMA TrimmedText ==
    ASSUME NEW u, NEW n \in Nat, NEW k \in 0 .. n, Len(u) = n,
           \A p \in 1 .. n : u[p] = Pad <=> p > k
    PROVE  Trimmed(u) = k
<1> DEFINE P(m) == (m = 0 \/ u[m] # Pad) /\ \A i \in m + 1 .. n : u[i] = Pad
<1>1. P(k)
  OBVIOUS
<1>2. ASSUME NEW m \in 0 .. n, P(m) PROVE m = k
  <2>1. CASE m < k
    <3>1. k \in m + 1 .. n /\ k \in 1 .. n
      BY <2>1
    <3> QED
      BY <1>2, <3>1
  <2>2. CASE m > k
    <3>1. m \in 1 .. n /\ m # 0
      BY <2>2
    <3> QED
      BY <1>2, <2>2, <3>1
  <2> QED
    BY <2>1, <2>2
<1>3. Trimmed(u) = CHOOSE m \in 0 .. n : P(m)
  BY DEF Trimmed
<1> HIDE DEF P
<1> QED
  BY <1>1, <1>2, <1>3

(* The length of the url text, which has no "=".                           *)
UrlLength(s) == 4 * Groups(s) - Pads(s)

(* base64url_encode: the text without its "=", in the url alphabet.        *)
LEMMA UrlText ==
    ASSUME NEW s \in ByteStrings
    PROVE  /\ UrlLength(s) \in 1 .. 4 * Groups(s)
           /\ Base64urlEncode(s) = [i \in 1 .. UrlLength(s) |-> ToUrl(EncodeBlock(s)[i])]
<1> DEFINE t == EncodeBlock(s)
           n == 4 * Groups(s)
           k == UrlLength(s)
           u == [i \in 1 .. n |-> ToUrl(t[i])]
<1>1. n \in Nat /\ k \in 1 .. n /\ k = n - Pads(s) /\ Pads(s) \in 0 .. 2 /\ n % 4 = 0
  BY PadsCount DEF UrlLength
<1>2. /\ Len(t) = n /\ t \in Seq(0 .. 64)
      /\ \A p \in 1 .. n : t[p] \in 0 .. 64 /\ (t[p] = Pad <=> p > k)
  BY TextShape DEF UrlLength
<1> HIDE DEF t, n, k
<1>3. ASSUME NEW c \in 0 .. 64
      PROVE  FromUrl(ToUrl(c)) = c /\ (ToUrl(c) = Pad <=> c = Pad)
  BY DEF FromUrl, ToUrl, Plus, Slash, Pad, Minus, Underscore
<1>4. Len(u) = n /\ \A p \in 1 .. n : u[p] = Pad <=> p > k
  <2>1. Len(u) = n /\ \A p \in 1 .. n : u[p] = ToUrl(t[p])
    BY <1>1
  <2> HIDE DEF u
  <2>2. ASSUME NEW p \in 1 .. n PROVE u[p] = Pad <=> p > k
    <3>1. t[p] \in 0 .. 64 /\ (t[p] = Pad <=> p > k)
      BY <1>2
    <3> QED
      BY <1>3, <2>1, <3>1
  <2> QED
    BY <2>1, <2>2
<1>5. Trimmed(u) = k
  BY <1>1, <1>4, TrimmedText
<1>6. Base64urlEncode(s) = SubSeq(u, 1, k)
  BY <1>2, <1>5 DEF Base64urlEncode, EncodeBase64, t
<1>7. Base64urlEncode(s) = [i \in 1 .. k |-> ToUrl(t[i])]
  BY <1>1, <1>6
<1> QED
  BY <1>1, <1>7 DEF t, k, n

(* base64url_decode is the inverse of base64url_encode.                    *)
THEOREM Base64urlRoundTrip ==
    ASSUME NEW s \in ByteStrings
    PROVE  Base64urlDecode(Base64urlEncode(s)) = Decoded(s)
<1> DEFINE t == EncodeBlock(s)
           n == 4 * Groups(s)
           k == UrlLength(s)
           text1 == Base64urlEncode(s)
<1>1. n \in Nat /\ k \in 1 .. n /\ k = n - Pads(s) /\ Pads(s) \in 0 .. 2 /\ n % 4 = 0
  BY PadsCount DEF UrlLength
<1>2. /\ Len(t) = n /\ t \in Seq(0 .. 64)
      /\ \A p \in 1 .. n : t[p] \in 0 .. 64 /\ (t[p] = Pad <=> p > k)
  BY TextShape DEF UrlLength
<1> HIDE DEF t, n, k
<1>3. ASSUME NEW c \in 0 .. 64
      PROVE  FromUrl(ToUrl(c)) = c /\ (ToUrl(c) = Pad <=> c = Pad)
  BY DEF FromUrl, ToUrl, Plus, Slash, Pad, Minus, Underscore
<1>7. text1 = [i \in 1 .. k |-> ToUrl(t[i])]
  BY UrlText DEF t, k
<1> HIDE DEF text1
<1>8. Len(text1) = k /\ \A i \in 1 .. k : FromUrl(text1[i]) = t[i]
  <2>1. k \in Nat /\ Len(text1) = k
    BY <1>1, <1>7
  <2>2. ASSUME NEW i \in 1 .. k PROVE FromUrl(text1[i]) = t[i]
    <3>0. i \in 1 .. n
      BY <1>1
    <3>1. t[i] \in 0 .. 64
      BY <1>2, <3>0, Zenon
    <3>2. text1[i] = ToUrl(t[i])
      BY <1>7
    <3> QED
      BY <1>3, <3>1, <3>2
  <2> QED
    BY <2>1, <2>2
<1>9. k % 4 # 1 /\ Len(Missing(text1)) = Pads(s)
      /\ \A i \in 1 .. Pads(s) : Missing(text1)[i] = Pad
  <2>1. CASE Pads(s) = 0
    <3>1. k % 4 = 0
      BY <1>1, <2>1
    <3> QED
      BY <1>8, <2>1, <3>1 DEF Missing
  <2>2. CASE Pads(s) = 1
    <3>1. k % 4 = 3
      BY <1>1, <2>2
    <3> QED
      BY <1>8, <2>2, <3>1 DEF Missing
  <2>3. CASE Pads(s) = 2
    <3>1. k % 4 = 2
      BY <1>1, <2>3
    <3> QED
      BY <1>8, <2>3, <3>1 DEF Missing
  <2> QED
    BY <1>1, <2>1, <2>2, <2>3
<1>10. [i \in 1 .. Len(text1) |-> FromUrl(text1[i])] \o Missing(text1) = t
  <2> DEFINE f == [i \in 1 .. Len(text1) |-> FromUrl(text1[i])]
  <2>1. f = [i \in 1 .. k |-> t[i]] /\ Len(f) = k
    BY <1>1, <1>8
  <2> HIDE DEF f
  <2>2. f \o Missing(text1)
          = [i \in 1 .. k + Pads(s) |-> IF i =< k THEN f[i] ELSE Missing(text1)[i - k]]
    BY <1>1, <1>9, <2>1, SMTT(30)
  <2>3. \A i \in 1 .. k + Pads(s) :
          (IF i =< k THEN f[i] ELSE Missing(text1)[i - k]) = t[i]
    BY <1>1, <1>2, <1>9, <2>1
  <2>4. t = [i \in 1 .. n |-> t[i]]
    BY <1>2
  <2>5. k + Pads(s) = n
    BY <1>1
  <2>6. f \o Missing(text1) = [i \in 1 .. n |-> t[i]]
    BY <2>2, <2>3, <2>5
  <2> QED
    BY <2>4, <2>6 DEF f
<1>11. DecodeBase64(t) = Decoded(s)
  BY Base64RoundTrip DEF EncodeBase64, t
<1> QED
  BY <1>8, <1>9, <1>10, <1>11 DEF Base64urlDecode, text1

(* The server draws a byte string.                                         *)
LEMMA BytesAtStart == EncodingsStart => bytes \in ByteStrings
<1> SUFFICES ASSUME EncodingsStart PROVE bytes \in ByteStrings
  OBVIOUS
<1>1. PICK m \in Lengths : bytes \in [1 .. m -> ByteValues]
  BY DEF EncodingsStart
<1>2. bytes \in [1 .. m -> Octets] /\ m \in Nat \ {0}
  BY <1>1, EncodingsAssumption DEF EncodingsAssumption, Octets
<1> HIDE DEF Octets
<1> QED
  BY <1>2 DEF ByteStrings

(* Bytes and text of a run, from the first step to the last.               *)
EncodingsInv ==
    /\ bytes \in ByteStrings
    /\ stage = "written" =>
         text = IF kind = "challenge" THEN Base64urlEncode(bytes) ELSE EncodeBase64(bytes)
    /\ BytesArrive

(* Every challenge and every ticket arrives.                               *)
THEOREM EncodingsArrive == EncodingsSpec => []BytesArrive
<1>1. EncodingsStart => EncodingsInv
  <2> SUFFICES ASSUME EncodingsStart PROVE EncodingsInv
    OBVIOUS
  <2>3. bytes \in ByteStrings
    BY BytesAtStart
  <2> QED
    BY <2>3 DEF EncodingsStart, EncodingsInv, BytesArrive
<1>2. EncodingsInv /\ [EncodingsNext]_encodingsVars => EncodingsInv'
  <2> SUFFICES ASSUME EncodingsInv, [EncodingsNext]_encodingsVars PROVE EncodingsInv'
    OBVIOUS
  <2>1. CASE GenerateClientdata
    BY <2>1 DEF GenerateClientdata, Written, EncodingsInv, BytesArrive
  <2>2. CASE VerifyClientdata
    BY <2>2, Base64urlRoundTrip DEF VerifyClientdata, Read, EncodingsInv, BytesArrive
  <2>3. CASE IssueTicket
    BY <2>3 DEF IssueTicket, Written, EncodingsInv, BytesArrive
  <2>4. CASE ReadTicket
    BY <2>4, Base64RoundTrip DEF ReadTicket, Read, EncodingsInv, BytesArrive
  <2>5. CASE ReadOnce \/ UNCHANGED encodingsVars
    BY <2>5 DEF ReadOnce, encodingsVars, EncodingsInv, BytesArrive
  <2> QED
    BY <2>1, <2>2, <2>3, <2>4, <2>5 DEF EncodingsNext
<1>3. EncodingsInv => BytesArrive
  BY DEF EncodingsInv
<1> QED
  BY <1>1, <1>2, <1>3, PTL DEF EncodingsSpec

(* A challenge is written once, with a length that leaves the two or one   *)
(* characters base64url_decode restores.                                   *)
LEMMA UrlTextFits ==
    ASSUME NEW s \in ByteStrings, NEW t, t = Base64urlEncode(s)
    PROVE  Len(t) \in Nat /\ Len(t) % 4 # 1 /\ Len(t) + Len(Missing(t)) = 4 * Groups(s)
<1>1. Groups(s) \in Nat /\ Pads(s) \in 0 .. 2 /\ UrlLength(s) \in Nat
      /\ UrlLength(s) = 4 * Groups(s) - Pads(s)
  BY PadsCount, UrlText DEF UrlLength
<1> DEFINE G == Groups(s)
           k == UrlLength(s)
           m == Pads(s)
<1>2. Len(t) = k
  BY <1>1, UrlText
<1>3. G \in Nat /\ m \in 0 .. 2 /\ k \in Nat /\ k = 4 * G - m
  BY <1>1
<1> HIDE DEF k, G, m
<1>4. k % 4 = IF m = 0 THEN 0 ELSE 4 - m
  BY <1>3
<1>5. Len(Missing(t)) = m
  <2>1. CASE m = 0
    BY <1>2, <1>4, <2>1 DEF Missing
  <2>2. CASE m = 1
    BY <1>2, <1>4, <2>2 DEF Missing
  <2>3. CASE m = 2
    BY <1>2, <1>4, <2>3 DEF Missing
  <2> QED
    BY <1>3, <2>1, <2>2, <2>3
<1>6. Len(t) % 4 # 1
  BY <1>2, <1>3, <1>4
<1>7. Len(t) \in Nat /\ Len(t) + Len(Missing(t)) = 4 * G
  BY <1>2, <1>3, <1>5
<1> QED
  BY <1>6, <1>7 DEF G

(* The text of a run is empty until the challenge is written.              *)
TextInv ==
    /\ bytes \in ByteStrings
    /\ kind = "challenge" => text \in {<<>>, Base64urlEncode(bytes)}

(* For challenges of every length, what base64url_decode restores fits the *)
(* buffer whose size it computes from len % 4.                             *)
THEOREM RestoredPaddingFits == EncodingsSpec => []PaddingFits
<1>1. EncodingsStart => TextInv
  <2> SUFFICES ASSUME EncodingsStart PROVE TextInv
    OBVIOUS
  <2>1. bytes \in ByteStrings
    BY BytesAtStart
  <2> QED
    BY <2>1 DEF EncodingsStart, TextInv
<1>2. TextInv /\ [EncodingsNext]_encodingsVars => TextInv'
  BY DEF TextInv, EncodingsNext, GenerateClientdata, VerifyClientdata, IssueTicket, ReadTicket,
         ReadOnce, Written, Read, encodingsVars
<1>3. TextInv => PaddingFits
  <2> SUFFICES ASSUME TextInv, kind = "challenge" PROVE PaddingFits
    BY DEF PaddingFits
  <2>1. CASE text = <<>>
    <3>1. Len(text) = 0
      BY <2>1
    <3> QED
      BY <3>1 DEF PaddingFits, Missing, UrlBuffer
  <2>2. CASE text = Base64urlEncode(bytes)
    <3>1. Len(text) \in Nat /\ Len(text) % 4 # 1
      BY <2>2, UrlTextFits DEF TextInv
    <3>2. Len(Missing(text)) = IF Len(text) % 4 = 2 THEN 2 ELSE IF Len(text) % 4 = 3 THEN 1 ELSE 0
      BY <3>1 DEF Missing
    <3> QED
      BY <3>1, <3>2 DEF PaddingFits, UrlBuffer
  <2> QED
    BY <2>1, <2>2 DEF TextInv
<1> QED
  BY <1>1, <1>2, <1>3, PTL DEF EncodingsSpec

-----------------------------------------------------------------------------
(***************************************************************************)
(* The signature counter, for every size of a byte, every number of copies *)
(* of the authenticator and of logins.                                     *)
(***************************************************************************)
Counters == 0 .. Wrap - 1

(* The row is never behind a counter the server has accepted.              *)
CounterInv ==
    /\ dev \in [Devices -> [count : Counters, holds : BOOLEAN]]
    /\ accepted \subseteq Counters
    /\ row = NoRow => accepted = {}
    /\ row # NoRow =>
         /\ row = [pubkey |-> row.pubkey, count |-> row.count]
         /\ row.pubkey # <<>>
         /\ row.count \in Int
         /\ \A n \in accepted : Signed(n) =< row.count

(* The overflow point is a positive even number.                           *)
LEMMA WrapPositive == Wrap \in Nat \ {0}
BY CounterAssumption DEF Wrap

(* Dividing by the size of a byte splits a number without a loss.          *)
LEMMA Division ==
    ASSUME NEW n \in Nat
    PROVE  /\ n \div Base \in Nat
           /\ n % Base \in 0 .. Base - 1
           /\ (n \div Base) * Base + (n % Base) = n
BY CounterAssumption

(* parse_authdata reads what the authenticator wrote: the four bytes give  *)
(* the counter back, as the int of the same bits.                          *)
THEOREM CounterIsRead ==
    ASSUME NEW n \in Counters
    PROVE  SignCount(CounterBytes(n)) = Signed(n)
<1> DEFINE three == n \div Base
           two == three \div Base
<1>1. n \in Nat
  BY WrapPositive DEF Counters
<1>2. three \in Nat /\ three * Base + (n % Base) = n
  BY <1>1, Division
<1>3. two \in Nat /\ two * Base + (three % Base) = three
  BY <1>2, Division
<1>4. (two \div Base) * Base + (two % Base) = two
  BY <1>3, Division
<1>5. CounterBytes(n) = <<two \div Base, two % Base, three % Base, n % Base>>
  BY DEF CounterBytes
<1> HIDE DEF three, two
<1>6. SignCount(CounterBytes(n))
        = Signed((((two \div Base) * Base + (two % Base)) * Base + (three % Base)) * Base + (n % Base))
  BY <1>5 DEF SignCount
<1> QED
  BY <1>2, <1>3, <1>4, <1>6

(* Two counters are one when their ints are.                               *)
LEMMA SignedInjective ==
    ASSUME NEW m \in Counters, NEW n \in Counters, Signed(m) = Signed(n)
    PROVE  m = n
BY WrapPositive DEF Counters, Signed

(* The int of a counter is an integer.                                     *)
LEMMA SignedIsInt == ASSUME NEW n \in Counters PROVE Signed(n) \in Int
BY WrapPositive DEF Counters, Signed

(* Counting stays in range, also where it runs over.                       *)
LEMMA IncrementCounts == ASSUME NEW n \in Counters PROVE Increment(n) \in Counters
BY WrapPositive DEF Counters, Increment

(* The counters start in range and nothing has been accepted.              *)
LEMMA CounterInit == CounterStart => CounterInv
BY WrapPositive DEF CounterStart, CounterInv, Counters, NoRow

(* A login that is accepted has a counter above the row's, and so above    *)
(* the ints of all that was accepted before.                               *)
LEMMA LoginIsNew ==
    ASSUME CounterInv, NEW d \in Devices, Login(d), last'.verdict = "accepted"
    PROVE  last'.count \notin accepted
<1> DEFINE n == Increment(dev[d].count)
<1>1. n \in Counters
  BY IncrementCounts DEF CounterInv
<1>2. last'.count = n /\ row # NoRow /\ Increased(SignCount(CounterBytes(n)), row.count)
  BY DEF Login, AuthData
<1>3. Signed(n) > row.count /\ Signed(n) \in Int
  BY <1>1, <1>2, CounterIsRead, SignedIsInt DEF Increased
<1> HIDE DEF n
<1> QED
  BY <1>1, <1>2, <1>3 DEF CounterInv

(* Every step keeps the row ahead.                                         *)
LEMMA CounterStep == CounterInv /\ [CounterNext]_counterVars => CounterInv'
<1> SUFFICES ASSUME CounterInv, [CounterNext]_counterVars PROVE CounterInv'
  OBVIOUS
<1>1. CASE Enrol
  <2>1. PICK extends \in BOOLEAN :
          LET n == Increment(dev[Owner].count)
          IN  /\ row = NoRow
              /\ dev' = [dev EXCEPT ![Owner] = [count |-> n, holds |-> TRUE]]
              /\ row' = [pubkey |-> PubkeyBytes(AuthData(n, TRUE, extends)), count |-> Signed(n)]
              /\ accepted' = {n}
    BY <1>1 DEF Enrol
  <2> DEFINE n == Increment(dev[Owner].count)
  <2>2. n \in Counters /\ Signed(n) \in Int
    BY IncrementCounts, SignedIsInt, CounterAssumption DEF CounterInv
  <2>3. dev' \in [Devices -> [count : Counters, holds : BOOLEAN]]
    BY <2>1, <2>2 DEF CounterInv
  <2>4. row'.count = Signed(n) /\ accepted' = {n}
    BY <2>1
  <2>5. PubkeyBytes(AuthData(n, TRUE, extends)) # <<>>
    BY DEF PubkeyBytes, AuthData
  <2> HIDE DEF n
  <2>6. row' = [pubkey |-> row'.pubkey, count |-> row'.count] /\ row'.pubkey # <<>>
    BY <2>1, <2>5 DEF n
  <2>7. row' # NoRow
    BY <2>6 DEF NoRow
  <2>8. \A k \in accepted' : Signed(k) =< row'.count
    BY <2>2, <2>4
  <2> QED
    BY <2>2, <2>3, <2>4, <2>6, <2>7, <2>8 DEF CounterInv
<1>2. ASSUME NEW d \in Devices, Login(d) PROVE CounterInv'
  <2> DEFINE n == Increment(dev[d].count)
  <2>1. n \in Counters /\ SignCount(CounterBytes(n)) = Signed(n) /\ Signed(n) \in Int
    BY IncrementCounts, CounterIsRead, SignedIsInt DEF CounterInv
  <2>2. dev' = [dev EXCEPT ![d].count = n] /\ row # NoRow
    BY <1>2 DEF Login
  <2>3. \/ row' = row /\ accepted' = accepted
        \/ /\ Increased(SignCount(CounterBytes(n)), row.count)
           /\ row' = [row EXCEPT !.count = SignCount(CounterBytes(n))]
           /\ accepted' = accepted \cup {n}
    BY <1>2 DEF Login, AuthData
  <2> HIDE DEF n
  <2>4. dev' \in [Devices -> [count : Counters, holds : BOOLEAN]]
    BY <2>1, <2>2 DEF CounterInv
  <2>5. CASE row' = row /\ accepted' = accepted
    BY <2>2, <2>4, <2>5 DEF CounterInv
  <2>6. CASE /\ Increased(SignCount(CounterBytes(n)), row.count)
             /\ row' = [row EXCEPT !.count = SignCount(CounterBytes(n))]
             /\ accepted' = accepted \cup {n}
    <3>1. row' = [pubkey |-> row.pubkey, count |-> Signed(n)] /\ row.pubkey # <<>>
      BY <2>1, <2>2, <2>6 DEF CounterInv
    <3>2. row' # NoRow
      BY <3>1 DEF NoRow
    <3>3. row.count \in Int /\ Signed(n) > row.count
      BY <2>1, <2>2, <2>6 DEF CounterInv, Increased
    <3>4. \A k \in accepted' : Signed(k) =< Signed(n)
      BY <2>1, <2>2, <2>6, <3>3, SignedIsInt DEF CounterInv
    <3> QED
      BY <2>1, <2>4, <2>6, <3>1, <3>2, <3>4 DEF CounterInv
  <2> QED
    BY <2>3, <2>5, <2>6
<1>3. ASSUME NEW d \in Devices, UseElsewhere(d) PROVE CounterInv'
  BY <1>3, IncrementCounts DEF UseElsewhere, CounterInv
<1>4. ASSUME NEW d \in Devices, Copy(d) PROVE CounterInv'
  BY <1>4, CounterAssumption DEF Copy, CounterInv
<1>5. CASE UNCHANGED counterVars
  BY <1>5 DEF counterVars, CounterInv
<1> QED
  BY <1>1, <1>2, <1>3, <1>4, <1>5 DEF CounterNext

(* Throughout, the row is ahead of every accepted counter.                 *)
THEOREM RowIsAhead == CounterSpec => []CounterInv
<1>1. CounterStart => CounterInv
  BY CounterInit
<1>2. CounterInv /\ [CounterNext]_counterVars => CounterInv'
  BY CounterStep
<1> QED
  BY <1>1, <1>2, PTL DEF CounterSpec

(* No counter is accepted twice, however often the four bytes run over.    *)
THEOREM CountersAreUsedOnce == CounterSpec => NoCounterTwice
<1>1. CounterInv /\ [CounterNext]_counterVars
        => [last' # last /\ last'.verdict = "accepted" => last'.count \notin accepted]_counterVars
  <2> SUFFICES ASSUME CounterInv, CounterNext, last' # last, last'.verdict = "accepted"
               PROVE  last'.count \notin accepted
    OBVIOUS
  <2>1. PICK d \in Devices : Login(d)
    BY DEF CounterNext, Enrol, UseElsewhere, Copy
  <2> QED
    BY <2>1, LoginIsNew
<1> QED
  BY <1>1, RowIsAhead, PTL DEF CounterSpec, NoCounterTwice

-----------------------------------------------------------------------------
(* The row holds the counter of an accepted ceremony, and the key of the   *)
(* credential with nothing or the extension outputs behind it.             *)
RowIsOurs ==
    row # NoRow =>
        /\ row = [pubkey |-> row.pubkey, count |-> row.count]
        /\ row.pubkey \in {<<KeyPair>>, <<KeyPair, "outputs">>}
        /\ \E n \in accepted : row.count = Signed(n)

(* Of sequences of two elements: nothing is appended, the first is cut off. *)
LEMMA Pairs ==
    ASSUME NEW a, NEW b
    PROVE  <<a, b>> \o <<>> = <<a, b>> /\ SubSeq(<<a, b>>, 2, 2) = <<b>>
<1> DEFINE S == {a, b}
           p == <<a, b>>
<1>1. b \in S /\ p \in Seq(S) /\ <<b>> \in Seq(S)
  OBVIOUS
<1>2. Len(p) = 2 /\ p[2] = b
  OBVIOUS
<1> HIDE DEF S, p
<1>4. p \o <<>> = p
  BY <1>1, ConcatEmptySeq
<1>5. SubSeq(p, 2, 2) = <<b>>
  <2>0. \A i \in 2 .. 2 : p[i] \in S
    BY <1>1, <1>2
  <2>1. /\ SubSeq(p, 2, 2) \in Seq(S) /\ Len(SubSeq(p, 2, 2)) = 1
        /\ \A i \in 1 .. 1 : SubSeq(p, 2, 2)[i] = p[2 + i - 1]
    BY <2>0, SubSeqProperties
  <2> DEFINE r == SubSeq(p, 2, 2)
             o == <<b>>
  <2> HIDE DEF r, o
  <2>2. r \in Seq(S) /\ Len(r) = 1 /\ r[1] = b
    BY <1>2, <2>1 DEF r
  <2>3. o \in Seq(S) /\ Len(o) = 1 /\ o[1] = b
    BY <1>1 DEF o
  <2>4. r = o
    BY <2>2, <2>3, SeqEqual
  <2> QED
    BY <2>4 DEF r, o
<1> QED
  BY <1>4, <1>5 DEF p

(* A third one is appended, and the first is cut off.                      *)
LEMMA Triples ==
    ASSUME NEW a, NEW b, NEW c
    PROVE  <<a, b>> \o <<c>> = <<a, b, c>> /\ SubSeq(<<a, b, c>>, 2, 3) = <<b, c>>
<1> DEFINE S == {a, b, c}
           p == <<a, b>>
           q == <<c>>
           t == <<a, b, c>>
<1>1. /\ a \in S /\ b \in S /\ c \in S
      /\ p \in Seq(S) /\ q \in Seq(S) /\ t \in Seq(S) /\ <<b, c>> \in Seq(S)
  OBVIOUS
<1>2. /\ Len(p) = 2 /\ p[1] = a /\ p[2] = b
      /\ Len(q) = 1 /\ q[1] = c
      /\ Len(t) = 3 /\ t[1] = a /\ t[2] = b /\ t[3] = c
  OBVIOUS
<1> HIDE DEF S, p, q, t
<1>3. p \o q = t
  <2>1. /\ p \o q \in Seq(S)
        /\ Len(p \o q) = Len(p) + Len(q)
        /\ \A i \in 1 .. Len(p) + Len(q) :
             (p \o q)[i] = IF i <= Len(p) THEN p[i] ELSE q[i - Len(p)]
    BY <1>1, ConcatProperties, Zenon
  <2> DEFINE r == p \o q
  <2> HIDE DEF r
  <2>2. /\ r \in Seq(S) /\ Len(r) = 3
        /\ \A i \in 1 .. 3 : r[i] = IF i <= 2 THEN p[i] ELSE q[i - 2]
    BY <1>2, <2>1 DEF r
  <2>3. \A i \in 1 .. 3 : r[i] = t[i]
    <3>1. r[1] = a /\ r[2] = b /\ r[3] = c
      BY <1>2, <2>2
    <3>2. \A i \in 1 .. 3 : i = 1 \/ i = 2 \/ i = 3
      OBVIOUS
    <3> QED
      BY <1>2, <3>1, <3>2, Zenon
  <2>4. r = t
    BY <1>1, <1>2, <2>2, <2>3, SeqEqual
  <2> QED
    BY <2>4 DEF r
<1>6. SubSeq(t, 2, 3) = <<b, c>>
  <2>0. \A i \in 2 .. 3 : t[i] \in S
    BY <1>1, <1>2
  <2>1. /\ SubSeq(t, 2, 3) \in Seq(S) /\ Len(SubSeq(t, 2, 3)) = 2
        /\ \A i \in 1 .. 2 : SubSeq(t, 2, 3)[i] = t[2 + i - 1]
    BY <2>0, SubSeqProperties
  <2>2. SubSeq(t, 2, 3)[1] = b /\ SubSeq(t, 2, 3)[2] = c
    BY <1>2, <2>1
  <2>3. \A i \in 1 .. 2 : SubSeq(t, 2, 3)[i] = <<b, c>>[i]
    BY <2>2
  <2> QED
    BY <1>1, <2>1, <2>3, SeqEqual
<1> QED
  BY <1>3, <1>6 DEF p, q, t

(* What process_reg_response stores is the key and what follows it.        *)
LEMMA StoredKey ==
    ASSUME NEW n, NEW extends \in BOOLEAN
    PROVE  PubkeyBytes(AuthData(n, TRUE, extends)) \in {<<KeyPair>>, <<KeyPair, "outputs">>}
<1> DEFINE K == KeyPair
<1> HIDE DEF K
<1>1. /\ <<"id", K>> \o <<"outputs">> = <<"id", K, "outputs">>
      /\ SubSeq(<<"id", K, "outputs">>, 2, 3) = <<K, "outputs">>
  BY Triples, Zenon
<1>2. <<"id", K>> \o <<>> = <<"id", K>> /\ SubSeq(<<"id", K>>, 2, 2) = <<K>>
  BY Pairs, Zenon
<1>3. Len(<<"id", K>>) = 2 /\ Len(<<"id", K, "outputs">>) = 3
  OBVIOUS
<1>4. CASE extends
  <2>1. AuthData(n, TRUE, extends).rest = <<"id", K>> \o <<"outputs">>
    BY <1>4 DEF AuthData, K
  <2>2. PubkeyBytes(AuthData(n, TRUE, extends)) = <<K, "outputs">>
    BY <1>1, <1>2, <1>3, <2>1, Zenon DEF PubkeyBytes
  <2> QED
    BY <2>2 DEF K
<1>5. CASE ~extends
  <2>1. AuthData(n, TRUE, extends).rest = <<"id", K>> \o <<>>
    BY <1>5 DEF AuthData, K
  <2>2. PubkeyBytes(AuthData(n, TRUE, extends)) = <<K>>
    BY <1>1, <1>2, <1>3, <2>1, Zenon DEF PubkeyBytes
  <2> QED
    BY <2>2 DEF K
<1> QED
  BY <1>4, <1>5

(* parse_cose_key reads it, whatever follows it.                           *)
LEMMA KeyIsRead ==
    ASSUME NEW b \in {<<KeyPair>>, <<KeyPair, "outputs">>}
    PROVE  ParsesCoseKey(b) /\ Point(b) = <<"x", "y">>
<1>1. b[1] = KeyPair
  <2> DEFINE K == KeyPair
  <2> HIDE DEF K
  <2>1. b \in {<<K>>, <<K, "outputs">>}
    BY DEF K
  <2>2. b[1] = K
    BY <2>1
  <2> QED
    BY <2>2 DEF K
<1>2. DOMAIN KeyPair = {1, 3, -1, -2, -3}
  BY DEF KeyPair, CoseKey
<1>3. /\ KeyPair[1] = 2 /\ KeyPair[3] = -7 /\ KeyPair[-1] = 1
      /\ KeyPair[-2] = "x" /\ KeyPair[-3] = "y"
  BY DEF KeyPair, CoseKey
<1> QED
  BY <1>1, <1>2, <1>3 DEF ParsesCoseKey, Point

(* The data of a login without extension outputs are well formed.          *)
LEMMA LoginIsWellFormed == ASSUME NEW n PROVE WellFormed(AuthData(n, FALSE, FALSE))
<1>1. AuthData(n, FALSE, FALSE).rest = <<>> \o <<>>
  BY DEF AuthData
<1>2. <<>> \o <<>> = <<>>
  OBVIOUS
<1> QED
  BY <1>1, <1>2 DEF WellFormed

(* Every step keeps the row ours.                                          *)
LEMMA RowStaysOurs ==
    CounterInv /\ RowIsOurs /\ [CounterNext]_counterVars => RowIsOurs'
<1> SUFFICES ASSUME CounterInv, RowIsOurs, [CounterNext]_counterVars PROVE RowIsOurs'
  OBVIOUS
<1>1. CASE Enrol
  <2> DEFINE n == Increment(dev[Owner].count)
  <2>1. PICK extends \in BOOLEAN :
          /\ row' = [pubkey |-> PubkeyBytes(AuthData(n, TRUE, extends)), count |-> Signed(n)]
          /\ accepted' = {n}
    BY <1>1 DEF Enrol
  <2> DEFINE key == PubkeyBytes(AuthData(n, TRUE, extends))
  <2>2. key \in {<<KeyPair>>, <<KeyPair, "outputs">>}
    BY StoredKey
  <2> HIDE DEF n, key
  <2>3. row' = [pubkey |-> key, count |-> Signed(n)] /\ accepted' = {n}
    BY <2>1 DEF key
  <2> QED
    BY <2>2, <2>3 DEF RowIsOurs
<1>2. ASSUME NEW d \in Devices, Login(d) PROVE RowIsOurs'
  <2> DEFINE n == Increment(dev[d].count)
  <2>1. n \in Counters /\ SignCount(CounterBytes(n)) = Signed(n)
    BY IncrementCounts, CounterIsRead DEF CounterInv
  <2>2. /\ row # NoRow
        /\ \/ row' = row /\ accepted' = accepted
           \/ /\ row' = [row EXCEPT !.count = SignCount(CounterBytes(n))]
              /\ accepted' = accepted \cup {n}
    BY <1>2 DEF Login, AuthData
  <2> HIDE DEF n
  <2>3. CASE row' = row /\ accepted' = accepted
    BY <2>3 DEF RowIsOurs
  <2>4. CASE /\ row' = [row EXCEPT !.count = SignCount(CounterBytes(n))]
             /\ accepted' = accepted \cup {n}
    <3>1. row' = [pubkey |-> row.pubkey, count |-> Signed(n)]
      BY <2>1, <2>2, <2>4 DEF RowIsOurs
    <3> QED
      BY <2>2, <2>4, <3>1 DEF RowIsOurs
  <2> QED
    BY <2>2, <2>3, <2>4
<1>3. CASE UNCHANGED <<row, accepted>>
  BY <1>3 DEF RowIsOurs
<1> QED
  BY <1>1, <1>2, <1>3 DEF CounterNext, UseElsewhere, Copy, counterVars

(* An authenticator is served, whatever it has been used for elsewhere and *)
(* whether or not extension outputs are stored behind its key, as long as  *)
(* its counter is the highest and has not reached the sign bit of the int. *)
THEOREM OwnersAreServed == CounterSpec => OwnerIsServed
<1>1. CounterStart => RowIsOurs
  BY DEF CounterStart, RowIsOurs
<1>2. CounterInv /\ RowIsOurs /\ [CounterNext]_counterVars
        => [Highest /\ ~Copied /\ last'.count < Wrap \div 2 =>
              last'.verdict = "accepted" \/ last'.extends]_counterVars
  <2> SUFFICES ASSUME CounterInv, RowIsOurs, CounterNext, Highest, last'.count < Wrap \div 2,
                      ~last'.extends
               PROVE  last'.verdict = "accepted"
    OBVIOUS
  <2>1. PICK d \in Devices : Login(d)
    BY DEF CounterNext, Enrol, UseElsewhere, Copy, Highest
  <2> DEFINE n == Increment(dev[d].count)
             ok(extends) == /\ WellFormed(AuthData(n, FALSE, extends))
                            /\ Increased(SignCount(CounterBytes(n)), row.count)
                            /\ ParsesCoseKey(row.pubkey)
                            /\ Point(row.pubkey) = <<"x", "y">>
  <2>2. PICK extends \in BOOLEAN :
          /\ row # NoRow
          /\ last' = [no |-> last.no + 1,
                      verdict |-> IF ok(extends) THEN "accepted" ELSE "refused",
                      count |-> n, extends |-> extends]
    BY <2>1 DEF Login, AuthData
  <2>3. n \in Counters /\ SignCount(CounterBytes(n)) = Signed(n)
    BY IncrementCounts, CounterIsRead DEF CounterInv
  <2> HIDE DEF n, ok
  <2>4. /\ last'.count = n /\ ~extends
        /\ last'.verdict = IF ok(extends) THEN "accepted" ELSE "refused"
    BY <2>2
  <2>5. PICK m \in accepted : row.count = Signed(m)
    BY <2>2 DEF RowIsOurs
  <2>6. m \in Counters /\ m < n /\ n < Wrap \div 2
    BY <2>4 DEF CounterInv, Highest
  <2>7. Signed(n) = n /\ Signed(m) = m /\ n > m
    BY <2>3, <2>6, WrapPositive DEF Signed, Counters
  <2>8. Increased(SignCount(CounterBytes(n)), row.count)
    BY <2>3, <2>5, <2>7 DEF Increased
  <2>9. ParsesCoseKey(row.pubkey) /\ Point(row.pubkey) = <<"x", "y">>
    BY <2>2, KeyIsRead DEF RowIsOurs
  <2>10. WellFormed(AuthData(n, FALSE, extends))
    <3>1. extends = FALSE
      BY <2>2, <2>4
    <3> QED
      BY <3>1, LoginIsWellFormed
  <2>11. ok(extends)
    BY <2>8, <2>9, <2>10 DEF ok
  <2> QED
    BY <2>4, <2>11
<1> QED
  BY <1>1, <1>2, RowIsAhead, RowStaysOurs, PTL DEF CounterSpec, OwnerIsServed

-----------------------------------------------------------------------------
(***************************************************************************)
(* The padding of names, for every width and every set of names.           *)
(***************************************************************************)
USE UserNamesAssumption

(***************************************************************************)
(* remove_bit_padding is the inverse of bit_padding, also for data with    *)
(* bytes like the marker or zeros in it: the bytes after the marker are    *)
(* zeros, so the last byte that is not zero is the marker.                 *)
(***************************************************************************)
LEMMA MarkerOfPadding ==
    ASSUME NEW s \in Seq(Byte), Paddable(s)
    PROVE  MarkerAt(BitPadding(s)) = {Len(s) + 1}
<1>1. Len(s) \in 1..(Width - 1)
  BY DEF Paddable
<1>2. \A i \in 2..Width : i > Len(s) + 1 => BitPadding(s)[i] = 0
  BY <1>1, SMT DEF BitPadding
<1>3. BitPadding(s)[Len(s) + 1] = Marker
  BY <1>1, SMT DEF BitPadding
<1>4. ASSUME NEW i \in MarkerAt(BitPadding(s))
      PROVE  i = Len(s) + 1
  <2>1. i \in 2..Width /\ BitPadding(s)[i] = Marker
    BY DEF MarkerAt
  <2>2. ~(i > Len(s) + 1)
    BY <2>1, <1>2, SMT DEF Marker
  <2>3. ~(i < Len(s) + 1)
    <3>1. SUFFICES ASSUME i < Len(s) + 1
                   PROVE  FALSE
      OBVIOUS
    <3>2. Len(s) + 1 \in (i + 1)..Width
      BY <3>1, <2>1, <1>1, SMT
    <3>3. BitPadding(s)[Len(s) + 1] = 0
      BY <3>2, Zenon DEF MarkerAt
    <3>. QED
      BY <3>3, <1>3, SMT DEF Marker
  <2>. QED
    BY <2>1, <2>2, <2>3, <1>1, SMT
<1>5. Len(s) + 1 \in MarkerAt(BitPadding(s))
  <2>1. Len(s) + 1 \in 2..Width
    BY <1>1, SMT
  <2>2. \A j \in (Len(s) + 2)..Width : BitPadding(s)[j] = 0
    BY <1>1, <1>2, SMT
  <2>3. (Len(s) + 1) + 1 = Len(s) + 2
    BY <1>1, SMT
  <2>. QED
    BY <2>1, <2>2, <2>3, <1>3, Zenon DEF MarkerAt
<1>. QED
  BY <1>4, <1>5, Zenon

(* What was padded is what removing the padding gives back, for every      *)
(* string of 1 to Width - 1 bytes (common.c:337-381).                      *)
THEOREM PaddingIsInvertible ==
    ASSUME NEW s \in Seq(Byte), Paddable(s)
    PROVE  RemoveBitPadding(BitPadding(s)) = {s}
<1>1. Len(s) \in 1..(Width - 1) /\ DOMAIN s = 1..Len(s)
  BY LenProperties DEF Paddable
<1>2. RemoveBitPadding(BitPadding(s)) = {[k \in 1..((Len(s) + 1) - 1) |-> BitPadding(s)[k]]}
  BY MarkerOfPadding, Zenon DEF RemoveBitPadding
<1>3. (Len(s) + 1) - 1 = Len(s)
  BY <1>1, SMT
<1>4. [k \in 1..Len(s) |-> BitPadding(s)[k]] = [k \in 1..Len(s) |-> s[k]]
  <2>1. \A k \in 1..Len(s) : BitPadding(s)[k] = s[k]
    BY <1>1, SMT DEF BitPadding
  <2>. QED
    BY <2>1, Zenon
<1>5. s = [k \in 1..Len(s) |-> s[k]]
  BY <1>1, LenProperties, Zenon
<1>. QED
  BY <1>2, <1>3, <1>4, <1>5, Zenon

(* a name a user typed has no zero byte: the C string is the whole name *)
LEMMA TypedIsCString ==
    ASSUME NEW s \in Typed
    PROVE  CString(s) = s /\ s \in Seq(Byte)
<1>1. s \in Seq(1..255)
  OBVIOUS
<1>2. \A i \in DOMAIN s : s[i] \in 1..255
  BY <1>1, ElementOfSeq, LenProperties, ZenonT(40)
<1>3. ASSUME NEW i \in DOMAIN s, s[i] = 0
      PROVE  FALSE
  <2>1. s[i] \in 1..255
    BY <1>2, Zenon
  <2>. QED
    BY <1>3, <2>1, SMT
<1>4. s \in Seq(Byte)
  BY <1>1, SMT DEF Byte
<1>. QED
  BY <1>3, <1>4, Zenon DEF CString

(***************************************************************************)
(* The inductive invariant: what is in flight is the padded name, and the  *)
(* name of the server is the one the user typed.                           *)
(***************************************************************************)
NamesInv ==
    /\ table \subseteq Typed
    /\ run \notin {"failed", "mismatch"}
    /\ run \in {"registers", "logs in", "requested"} => padded = BitPadding(typed)
    /\ run \in {"registers", "logs in", "indicated", "requested"} =>
          typed \in Typed /\ Paddable(typed)
    /\ run \in {"indicated", "requested", "enrolled", "known", "unknown"} => name = typed
    /\ run = "known" => typed \in table
    /\ run = "unknown" => typed \notin table

(* The invariant holds at the start, is kept, and holds throughout.        *)
LEMMA NamesInit == NamesStart => NamesInv
BY DEF NamesStart, NamesInv

(* The round trip of the padding is what each step needs.                  *)
LEMMA NamesStep == NamesInv /\ [NamesNext]_namesVars => NamesInv'
<1>. SUFFICES ASSUME NamesInv, [NamesNext]_namesVars
              PROVE  NamesInv'
  OBVIOUS
<1>1. ASSUME NEW s \in Typed, NEW ceremony \in {"registers", "logs in"}, Indicate(s, ceremony)
      PROVE  NamesInv'
  BY <1>1, ZenonT(40) DEF Indicate, NamesInv
<1>2. ASSUME ReceiveRegistration
      PROVE  NamesInv'
  <2>1. typed \in Typed /\ Paddable(typed) /\ RemoveBitPadding(padded) = {typed}
    BY <1>2, PaddingIsInvertible, TypedIsCString DEF NamesInv, ReceiveRegistration
  <2>. QED
    BY <1>2, <2>1 DEF ReceiveRegistration, ReceiveName, NamesInv
<1>3. ASSUME ReceiveLogin
      PROVE  NamesInv'
  <2>1. typed \in Typed /\ Paddable(typed) /\ RemoveBitPadding(padded) = {typed}
    BY <1>3, PaddingIsInvertible, TypedIsCString DEF NamesInv, ReceiveLogin
  <2>2. CString(typed) = typed
    BY <2>1, TypedIsCString
  <2>. QED
    BY <1>3, <2>1, <2>2, ZenonT(40) DEF ReceiveLogin, ReceiveName, NamesInv
<1>4. ASSUME Request
      PROVE  NamesInv'
  <2>1. name = typed /\ typed \in Typed /\ Paddable(typed) /\ CString(name) = typed
    BY <1>4, TypedIsCString DEF NamesInv, Request
  <2>. QED
    BY <1>4, <2>1 DEF Request, NamesInv
<1>5. ASSUME Confirm
      PROVE  NamesInv'
  <2>1. name = typed /\ typed \in Typed /\ CString(name) = typed
    BY <1>5, TypedIsCString DEF NamesInv, Confirm
  <2>2. RemoveBitPadding(padded) = {typed}
    BY <1>5, <2>1, PaddingIsInvertible, TypedIsCString DEF NamesInv, Confirm
  <2>. QED
    BY <1>5, <2>1, <2>2 DEF Confirm, NamesInv
<1>6. ASSUME Again
      PROVE  NamesInv'
  BY <1>6 DEF Again, NamesInv
<1>7. ASSUME UNCHANGED namesVars
      PROVE  NamesInv'
  BY <1>7 DEF namesVars, NamesInv
<1>. QED
  BY <1>1, <1>2, <1>3, <1>4, <1>5, <1>6, <1>7 DEF NamesNext

(* So the names are right in every state of every run.                     *)
THEOREM NamesInvariant == NamesSpec => []NamesInv
  BY NamesInit, NamesStep, PTL DEF NamesSpec

(* Every name reaches the server as it was typed and comes back to the     *)
(* client so.                                                              *)
THEOREM NamesArrive == NamesSpec => []NameArrives
<1>1. NamesInv => NameArrives
  BY DEF NamesInv, NameArrives
<1>. QED
  BY <1>1, NamesInvariant, PTL

(* A login finds the row of the name it was given and no other. *)
THEOREM LoginsFindTheirOwn == NamesSpec => []OwnAccount
<1>1. NamesInv => OwnAccount
  BY DEF NamesInv, OwnAccount
<1>. QED
  BY <1>1, NamesInvariant, PTL
=============================================================================

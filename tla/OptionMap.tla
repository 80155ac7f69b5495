----------------------------- MODULE OptionMap ------------------------------
(***************************************************************************)
(* The loops of cbor_parse over maps with optional values.  A map is read  *)
(* item by item: a key, when none is pending, else the value of the        *)
(* pending key.  Key returns what the parser makes of a key: {} is an      *)
(* error, {Between} a key it does not know and goes on after, anything     *)
(* else is pending.  Value returns the packets after the value of a key.   *)
(***************************************************************************)
EXTENDS Integers, SequenceTheorems, TLAPS

CONSTANTS Key(_), Value(_, _, _), Between

(* states: no element after an error, else the pending key and the packet  *)
ReadItem(states, x) ==
    UNION {IF st.key = Between
           THEN {[st EXCEPT !.key = k] : k \in Key(x)}
           ELSE {[key |-> Between, p |-> q] : q \in Value(st.key, x, st.p)} : st \in states}

Loop == INSTANCE Iteration WITH Step <- ReadItem

Read(s, p) == Loop!Iterate({[key |-> Between, p |-> p]}, s)

ReadMap(s, p) == {st.p : st \in {q \in Read(s, p) : q.key = Between}}

-----------------------------------------------------------------------------
(* No error, no pending key, and this packet.                              *)
After(p) == {[key |-> Between, p |-> p]}

(* After all items, that packet is the result.                             *)
LEMMA MapIsRead ==
    ASSUME NEW s, NEW p, NEW q, Read(s, p) = After(q)
    PROVE  ReadMap(s, p) = {q}
<1> DEFINE st == [key |-> Between, p |-> q]
<1>1. Read(s, p) = {st} /\ st.key = Between /\ st.p = q
  BY DEF After
<1> HIDE DEF st
<1> QED
  BY <1>1 DEF ReadMap

(* A map without pairs leaves the packet as it is.                         *)
LEMMA EmptyIsRead == \A p : Read(<<>>, p) = After(p)
BY Loop!IterateEmpty DEF Read, After

(* A key that is pending and its value are read as a pair.                 *)
LEMMA PairIsRead ==
    ASSUME NEW S, NEW s \in Seq(S), NEW k \in S, NEW x \in S, NEW p, NEW q, NEW r, NEW key,
           Read(s, p) = After(q), Key(k) = {key}, key # Between, Value(key, x, q) = {r}
    PROVE  Read(s \o <<k, x>>, p) = After(r)
<1> DEFINE t == Append(s, k)
           pending == {[key |-> key, p |-> q]}
<1>1. t \in Seq(S) /\ s \o <<k, x>> = Append(t, x)
  OBVIOUS
<1>2. ReadItem(After(q), k) = pending
  <2> DEFINE st == [key |-> Between, p |-> q]
  <2>1. [st EXCEPT !.key = key] = [key |-> key, p |-> q] /\ st.key = Between
    OBVIOUS
  <2>2. After(q) = {st}
    BY DEF After
  <2> HIDE DEF st
  <2> QED
    BY <2>1, <2>2 DEF ReadItem
<1>3. ReadItem(pending, x) = After(r)
  BY DEF ReadItem, After
<1> HIDE DEF t, pending
<1>4. Read(t, p) = pending
  BY <1>2, Loop!IterateAppend DEF Read, t
<1>5. Read(Append(t, x), p) = After(r)
  BY <1>1, <1>3, <1>4, Loop!IterateAppend DEF Read
<1> QED
  BY <1>1, <1>5

(* A pair that leaves the packet as it was may as well not be there.       *)
LEMMA PairInFront ==
    ASSUME NEW S, NEW s \in Seq(S), NEW t \in Seq(S), NEW p, Read(s, p) = After(p)
    PROVE  Read(s \o t, p) = Read(t, p)
<1> DEFINE start == {[key |-> Between, p |-> p]}
<1>1. Loop!Iterate(start, s) = start
  BY DEF Read, After
<1> HIDE DEF start
<1>2. Loop!Iterate(start, s \o t) = Loop!Iterate(Loop!Iterate(start, s), t)
  BY Loop!IterateConcat
<1> QED
  BY <1>1, <1>2 DEF Read, start
=============================================================================

-------------------------- MODULE EventListProofs --------------------------
(***************************************************************************)
(* The sorted list of eventlist.c, and the rings of links it and the ready *)
(* list are, for any relations, any number of events, any widths of the    *)
(* tick count and of the serial number.                                    *)
(*                                                                         *)
(* The condition is DueBeforeEnd: no event is due at portMAX_DELAY.        *)
(* prvEventListGenericInsert puts such an event behind the End Flag event. *)
(***************************************************************************)
EXTENDS EventRings, TLAPS, SequenceTheorems, FiniteSetTheorems, WellFoundedInduction

DueBeforeEnd == \A time \in Deadlines \cup DueTimes : time < MaxDelay

Item == Event \cup {EndFlag}

(* The invariant.                                                          *)

(* Before the first creation there is nothing; from then on xEventList has *)
(* the End Flag event.                                                     *)
Started ==
  IF isFirst THEN xEventList = <<>> /\ xReadyList = <<>> ELSE xEventList # <<>>

(* No event is in two places, and the End Flag event stays where it is.    *)
Distinct ==
  /\ IsInjective(xEventList) /\ IsInjective(xReadyList)
  /\ ToSet(xEventList) \cap ToSet(xReadyList) = {}
  /\ EndFlag \notin ToSet(xReadyList)

ListInv == TypeOK /\ Started /\ EndFlagLast /\ Sorted /\ Distinct

-----------------------------------------------------------------------------
(* Events and their order.                                                 *)

LEMMA SignedType == \A n \in 0 .. Levels - 1 : Signed(n) \in Int
BY ListAssumption DEF Signed

LEMMA StampType == \A e \in Item : e.xSlackTime \in Int /\ e.xTime \in Int /\ e.xLevel \in Int
<1>1. \A e \in Event : e.xSlackTime \in Int /\ e.xTime \in Int /\ e.xLevel \in Int
  BY SignedType, ListAssumption DEF Event
<1>2. Signed(Levels - 1) \in Int
  BY SignedType, ListAssumption
<1> QED BY <1>1, <1>2, ListAssumption DEF Item, EndFlag

(* The End Flag event is none of the servants' events.                     *)
LEMMA EndFlagApart == EndFlag \notin Event
BY ListAssumption DEF EndFlag, Event, Flags

(* xCompareFunction is a strict weak order.                                *)
LEMMA Order ==
  ASSUME NEW e \in Item, NEW f \in Item, NEW g \in Item
  PROVE  /\ Before(e, f) => ~Before(f, e)
         /\ ~Before(f, e) /\ ~Before(g, f) => ~Before(g, e)
BY StampType DEF Before

(* An event that is due before portMAX_DELAY goes before the End Flag      *)
(* event.                                                                  *)
LEMMA BeforeEndFlag ==
  ASSUME DueBeforeEnd, NEW e \in Event
  PROVE  Before(e, EndFlag) /\ e.xTime # MaxDelay
BY ListAssumption DEF DueBeforeEnd, Event, Before, EndFlag

-----------------------------------------------------------------------------
(* Sequences.                                                              *)

LEMMA InsertAtFacts ==
  ASSUME NEW S, NEW s \in Seq(S), NEW e \in S, NEW p \in 1 .. Len(s) + 1
  PROVE  /\ InsertAt(s, p, e) \in Seq(S)
         /\ Len(InsertAt(s, p, e)) = Len(s) + 1
         /\ \A k \in 1 .. Len(s) + 1 :
              InsertAt(s, p, e)[k] = IF k < p THEN s[k] ELSE IF k = p THEN e ELSE s[k - 1]
<1> DEFINE a == SubSeq(s, 1, p - 1)
           b == SubSeq(s, p, Len(s))
<1>0. Len(s) \in Nat /\ p \in Int /\ \A k \in 1 .. Len(s) : s[k] \in S
  BY ElementOfSeq
<1>1. a \in Seq(S) /\ Len(a) = p - 1 /\ \A k \in 1 .. p - 1 : a[k] = s[k]
  BY <1>0, SubSeqProperties, Z3
<1>2. b \in Seq(S) /\ Len(b) = Len(s) - p + 1 /\ \A k \in 1 .. Len(s) - p + 1 : b[k] = s[p + k - 1]
  BY <1>0, SubSeqProperties, Z3
<1>3. <<e>> \in Seq(S) /\ Len(<<e>>) = 1 /\ <<e>>[1] = e
  OBVIOUS
<1> HIDE DEF a, b
<1>4. /\ a \o <<e>> \in Seq(S) /\ Len(a \o <<e>>) = p
      /\ \A k \in 1 .. p : (a \o <<e>>)[k] = IF k < p THEN s[k] ELSE e
  BY <1>0, <1>1, <1>3, ConcatProperties
<1>5. /\ (a \o <<e>>) \o b \in Seq(S) /\ Len((a \o <<e>>) \o b) = Len(s) + 1
      /\ \A k \in 1 .. Len(s) + 1 :
           ((a \o <<e>>) \o b)[k] = IF k < p THEN s[k] ELSE IF k = p THEN e ELSE s[k - 1]
  <2> DEFINE c == a \o <<e>>
  <2> HIDE DEF c
  <2>1. c \in Seq(S) /\ Len(c) = p /\ \A k \in 1 .. p : c[k] = IF k < p THEN s[k] ELSE e
    BY <1>4 DEF c
  <2>2. /\ c \o b \in Seq(S) /\ Len(c \o b) = Len(c) + Len(b)
        /\ \A i \in 1 .. Len(c) + Len(b) :
             (c \o b)[i] = IF i <= Len(c) THEN c[i] ELSE b[i - Len(c)]
    BY <1>2, <2>1, ConcatProperties
  <2>3. ASSUME NEW k \in 1 .. Len(s) + 1
        PROVE  (c \o b)[k] = IF k < p THEN s[k] ELSE IF k = p THEN e ELSE s[k - 1]
    <3>1. CASE k <= p
      BY <1>0, <1>2, <2>1, <2>2, <3>1
    <3>2. CASE k > p
      <4>1. (c \o b)[k] = b[k - p]
        BY <1>0, <1>2, <2>1, <2>2, <3>2
      <4>2. k - p \in 1 .. Len(s) - p + 1 /\ p + (k - p) - 1 = k - 1
        BY <1>0, <3>2
      <4>3. b[k - p] = s[p + (k - p) - 1]
        BY <1>2, <4>2
      <4> QED BY <1>0, <3>2, <4>1, <4>2, <4>3
    <3>3. k <= p \/ k > p
      BY <1>0
    <3> QED BY <3>1, <3>2, <3>3
  <2>4. Len(c \o b) = Len(s) + 1
    BY <1>0, <1>2, <2>1, <2>2
  <2> QED BY <2>2, <2>3, <2>4 DEF c
<1> QED BY <1>5 DEF InsertAt, a, b

LEMMA RemoveAtFacts ==
  ASSUME NEW S, NEW s \in Seq(S), NEW p \in 1 .. Len(s)
  PROVE  /\ RemoveAt(s, p) \in Seq(S)
         /\ Len(RemoveAt(s, p)) = Len(s) - 1
         /\ \A k \in 1 .. Len(s) - 1 : RemoveAt(s, p)[k] = IF k < p THEN s[k] ELSE s[k + 1]
<1> DEFINE a == SubSeq(s, 1, p - 1)
           b == SubSeq(s, p + 1, Len(s))
<1>0. Len(s) \in Nat /\ p \in Int /\ \A k \in 1 .. Len(s) : s[k] \in S
  BY ElementOfSeq
<1>1. a \in Seq(S) /\ Len(a) = p - 1 /\ \A k \in 1 .. p - 1 : a[k] = s[k]
  BY <1>0, SubSeqProperties, Z3
<1>2. b \in Seq(S) /\ Len(b) = Len(s) - p /\ \A k \in 1 .. Len(s) - p : b[k] = s[p + k]
  BY <1>0, SubSeqProperties, Z3
<1> HIDE DEF a, b
<1>3. /\ a \o b \in Seq(S) /\ Len(a \o b) = Len(s) - 1
      /\ \A k \in 1 .. Len(s) - 1 : (a \o b)[k] = IF k < p THEN s[k] ELSE s[k + 1]
  <2>1. /\ a \o b \in Seq(S) /\ Len(a \o b) = Len(a) + Len(b)
        /\ \A i \in 1 .. Len(a) + Len(b) :
             (a \o b)[i] = IF i <= Len(a) THEN a[i] ELSE b[i - Len(a)]
    BY <1>1, <1>2, ConcatProperties
  <2>2. ASSUME NEW k \in 1 .. Len(s) - 1
        PROVE  (a \o b)[k] = IF k < p THEN s[k] ELSE s[k + 1]
    <3>1. CASE k < p
      BY <1>0, <1>1, <1>2, <2>1, <3>1
    <3>2. CASE k >= p
      <4>1. (a \o b)[k] = b[k - (p - 1)]
        BY <1>0, <1>1, <1>2, <2>1, <3>2
      <4>2. k - (p - 1) \in 1 .. Len(s) - p /\ p + (k - (p - 1)) = k + 1
        BY <1>0, <3>2
      <4>3. b[k - (p - 1)] = s[p + (k - (p - 1))]
        BY <1>2, <4>2
      <4> QED BY <1>0, <3>2, <4>1, <4>2, <4>3
    <3>3. k < p \/ k >= p
      BY <1>0
    <3> QED BY <3>1, <3>2, <3>3
  <2>3. Len(a \o b) = Len(s) - 1
    BY <1>0, <1>1, <1>2, <2>1
  <2> QED BY <2>1, <2>2, <2>3
<1> QED BY <1>3 DEF RemoveAt, a, b

(* Inserting an element, or taking one out, changes the set of elements    *)
(* by it, and keeps elements from being there twice.                       *)
LEMMA InsertAtSet ==
  ASSUME NEW S, NEW s \in Seq(S), NEW e \in S, NEW p \in 1 .. Len(s) + 1
  PROVE  /\ ToSet(InsertAt(s, p, e)) = ToSet(s) \cup {e}
         /\ IsInjective(s) /\ e \notin ToSet(s) => IsInjective(InsertAt(s, p, e))
<1> DEFINE t == InsertAt(s, p, e)
<1>1. /\ t \in Seq(S) /\ Len(t) = Len(s) + 1 /\ Len(s) \in Nat /\ p \in Int
      /\ \A k \in 1 .. Len(s) + 1 : t[k] = IF k < p THEN s[k] ELSE IF k = p THEN e ELSE s[k - 1]
      /\ DOMAIN t = 1 .. Len(s) + 1 /\ DOMAIN s = 1 .. Len(s)
  BY InsertAtFacts
<1> HIDE DEF t
<1>2. ToSet(t) \subseteq ToSet(s) \cup {e}
  <2> SUFFICES ASSUME NEW k \in 1 .. Len(s) + 1 PROVE t[k] \in ToSet(s) \cup {e}
    BY <1>1 DEF ToSet
  <2>1. CASE k < p
    BY <1>1, <2>1 DEF ToSet
  <2>2. CASE k > p
    <3>1. k - 1 \in 1 .. Len(s) /\ t[k] = s[k - 1]
      BY <1>1, <2>2
    <3> QED BY <1>1, <3>1 DEF ToSet
  <2>3. CASE k = p
    BY <1>1, <2>3
  <2> QED BY <1>1, <2>1, <2>2, <2>3
<1>3. ToSet(s) \cup {e} \subseteq ToSet(t)
  <2>1. e = t[p]
    BY <1>1
  <2>2. ASSUME NEW k \in 1 .. Len(s) PROVE s[k] \in ToSet(t)
    <3>1. CASE k < p
      BY <1>1, <3>1 DEF ToSet
    <3>2. CASE k >= p
      <4>1. k + 1 \in 1 .. Len(s) + 1 /\ t[k + 1] = s[(k + 1) - 1] /\ (k + 1) - 1 = k
        BY <1>1, <3>2
      <4> QED BY <1>1, <4>1 DEF ToSet
    <3> QED BY <1>1, <3>1, <3>2
  <2> QED BY <1>1, <2>1, <2>2 DEF ToSet
<1>4. ASSUME IsInjective(s), e \notin ToSet(s) PROVE IsInjective(t)
  <2> SUFFICES ASSUME NEW j \in 1 .. Len(s) + 1, NEW k \in 1 .. Len(s) + 1, j < k, t[j] = t[k]
               PROVE  FALSE
    BY <1>1 DEF IsInjective
  <2> DEFINE from(i) == IF i < p THEN i ELSE i - 1
  <2>1. \A i \in 1 .. Len(s) + 1 : i # p => from(i) \in 1 .. Len(s) /\ t[i] = s[from(i)]
    BY <1>1
  <2>2. \A i \in 1 .. Len(s) + 1 : i # p => t[i] # e
    BY <1>1, <1>4, <2>1 DEF ToSet
  <2>3. j # p /\ k # p
    BY <1>1, <2>2
  <2>4. from(j) = from(k)
    BY <1>1, <1>4, <2>1, <2>3 DEF IsInjective
  <2> QED BY <1>1, <2>3, <2>4
<1> QED BY <1>2, <1>3, <1>4 DEF t

LEMMA RemoveAtSet ==
  ASSUME NEW S, NEW s \in Seq(S), NEW p \in 1 .. Len(s), IsInjective(s)
  PROVE  /\ ToSet(RemoveAt(s, p)) = ToSet(s) \ {s[p]}
         /\ IsInjective(RemoveAt(s, p))
<1> DEFINE t == RemoveAt(s, p)
           from(k) == IF k < p THEN k ELSE k + 1
<1>1. /\ t \in Seq(S) /\ Len(t) = Len(s) - 1 /\ Len(s) \in Nat /\ p \in Int
      /\ \A k \in 1 .. Len(s) - 1 : t[k] = IF k < p THEN s[k] ELSE s[k + 1]
      /\ DOMAIN t = 1 .. Len(s) - 1 /\ DOMAIN s = 1 .. Len(s)
  BY RemoveAtFacts
<1> HIDE DEF t
<1>2. \A k \in 1 .. Len(s) - 1 :
        t[k] = s[from(k)] /\ from(k) \in 1 .. Len(s) /\ from(k) # p
  BY <1>1
<1>3. \A j, k \in 1 .. Len(s) - 1 : from(j) = from(k) => j = k
  BY <1>1
<1>4. \A i \in 1 .. Len(s) : i # p => \E k \in 1 .. Len(s) - 1 : from(k) = i
  <2> SUFFICES ASSUME NEW i \in 1 .. Len(s), i # p
               PROVE  \E k \in 1 .. Len(s) - 1 : from(k) = i
    OBVIOUS
  <2>1. CASE i < p
    <3>1. i \in 1 .. Len(s) - 1 /\ from(i) = i
      BY <1>1, <2>1
    <3> QED BY <3>1
  <2>2. CASE i > p
    <3>1. i - 1 \in 1 .. Len(s) - 1 /\ from(i - 1) = i
      BY <1>1, <2>2
    <3> QED BY <3>1
  <2> QED BY <1>1, <2>1, <2>2
<1> HIDE DEF from
<1>5. ToSet(t) = ToSet(s) \ {s[p]}
  <2>1. ASSUME NEW x \in ToSet(t) PROVE x \in ToSet(s) \ {s[p]}
    BY <1>1, <1>2 DEF ToSet, IsInjective
  <2>2. ASSUME NEW x \in ToSet(s) \ {s[p]} PROVE x \in ToSet(t)
    <3>1. PICK i \in 1 .. Len(s) : s[i] = x /\ i # p
      BY <1>1, <2>2 DEF ToSet
    <3>2. PICK k \in 1 .. Len(s) - 1 : from(k) = i
      BY <1>4, <3>1
    <3>3. t[k] = x /\ k \in DOMAIN t
      BY <1>1, <1>2, <3>1, <3>2
    <3> QED BY <3>3 DEF ToSet
  <2> QED BY <2>1, <2>2
<1>6. IsInjective(t)
  BY <1>1, <1>2, <1>3 DEF IsInjective
<1> QED BY <1>5, <1>6 DEF t

(* Insertion at the end, and removal from the front, as cases of these.    *)
LEMMA AppendIsInsert ==
  ASSUME NEW S, NEW s \in Seq(S), NEW e \in S
  PROVE  Append(s, e) = InsertAt(s, Len(s) + 1, e) /\ Len(s) \in Nat
<1> DEFINE t == InsertAt(s, Len(s) + 1, e)
<1>1. /\ t \in Seq(S) /\ Len(t) = Len(s) + 1 /\ Len(s) \in Nat
      /\ \A k \in 1 .. Len(s) : t[k] = s[k]
      /\ t[Len(s) + 1] = e
  <2>1. Len(s) \in Nat /\ Len(s) + 1 \in 1 .. Len(s) + 1
    BY EmptySeq
  <2>2. /\ t \in Seq(S) /\ Len(t) = Len(s) + 1
        /\ \A k \in 1 .. Len(s) + 1 :
             t[k] = IF k < Len(s) + 1 THEN s[k] ELSE IF k = Len(s) + 1 THEN e ELSE s[k - 1]
    BY <2>1, InsertAtFacts
  <2> HIDE DEF t
  <2> QED BY <2>1, <2>2
<1> HIDE DEF t
<1>2. /\ Append(s, e) \in Seq(S) /\ Len(Append(s, e)) = Len(s) + 1
      /\ \A k \in 1 .. Len(s) : Append(s, e)[k] = s[k]
      /\ Append(s, e)[Len(s) + 1] = e
  BY AppendProperties
<1>3. \A k \in 1 .. Len(t) : Append(s, e)[k] = t[k]
  BY <1>1, <1>2
<1>4. Append(s, e) = t
  BY <1>1, <1>2, <1>3, SeqEqual
<1> QED BY <1>1, <1>4 DEF t

LEMMA TailIsRemove ==
  ASSUME NEW S, NEW s \in Seq(S), s # <<>>
  PROVE  Tail(s) = RemoveAt(s, 1) /\ 1 \in 1 .. Len(s) /\ Head(s) = s[1]
<1> DEFINE t == RemoveAt(s, 1)
<1>1. Len(s) \in Nat \ {0} /\ 1 \in 1 .. Len(s) /\ Head(s) = s[1]
  BY EmptySeq
<1>2. t \in Seq(S) /\ Len(t) = Len(s) - 1 /\ \A k \in 1 .. Len(s) - 1 : t[k] = s[k + 1]
  <2>1. /\ t \in Seq(S) /\ Len(t) = Len(s) - 1
        /\ \A k \in 1 .. Len(s) - 1 : t[k] = IF k < 1 THEN s[k] ELSE s[k + 1]
    BY <1>1, RemoveAtFacts
  <2> HIDE DEF t
  <2> QED BY <1>1, <2>1
<1> HIDE DEF t
<1>3. /\ Tail(s) \in Seq(S) /\ Len(Tail(s)) = Len(s) - 1
      /\ \A k \in 1 .. Len(s) - 1 : Tail(s)[k] = s[k + 1]
  BY HeadTailProperties
<1>4. Tail(s) = t
  BY <1>2, <1>3, SeqEqual
<1> QED BY <1>1, <1>4 DEF t

LEMMA AppendSet ==
  ASSUME NEW S, NEW s \in Seq(S), NEW e \in S
  PROVE  /\ Append(s, e) \in Seq(S) /\ ToSet(Append(s, e)) = ToSet(s) \cup {e}
         /\ IsInjective(s) /\ e \notin ToSet(s) => IsInjective(Append(s, e))
<1>1. Append(s, e) = InsertAt(s, Len(s) + 1, e) /\ Len(s) + 1 \in 1 .. Len(s) + 1
  BY AppendIsInsert
<1> QED BY <1>1, InsertAtFacts, InsertAtSet

LEMMA TailSet ==
  ASSUME NEW S, NEW s \in Seq(S), s # <<>>, IsInjective(s)
  PROVE  /\ Tail(s) \in Seq(S) /\ Head(s) \in ToSet(s)
         /\ ToSet(Tail(s)) = ToSet(s) \ {Head(s)}
         /\ IsInjective(Tail(s))
<1>1. Tail(s) = RemoveAt(s, 1) /\ 1 \in 1 .. Len(s) /\ Head(s) = s[1]
  BY TailIsRemove
<1>2. s[1] \in ToSet(s)
  BY <1>1, LenProperties DEF ToSet
<1>3. RemoveAt(s, 1) \in Seq(S)
  BY <1>1, RemoveAtFacts
<1>4. ToSet(RemoveAt(s, 1)) = ToSet(s) \ {s[1]} /\ IsInjective(RemoveAt(s, 1))
  BY <1>1, RemoveAtSet
<1> QED BY <1>1, <1>2, <1>3, <1>4

-----------------------------------------------------------------------------
(* prvEventListGenericInsert.                                              *)

(* The set of indices SelectInSeq looks for has a smallest.                *)
LEMMA Smallest ==
  ASSUME NEW I \in SUBSET Nat, I # {}
  PROVE  Min(I) \in I /\ \A i \in I : Min(I) <= i
<1> DEFINE R == OpToRel(<, Nat)
<1>1. \A x, y \in I : <<y, x>> \in R <=> y < x
  BY DEF OpToRel
<1>2. IsWellFoundedOn(R, Nat)
  BY NatLessThanWellFounded
<1> HIDE DEF R
<1>3. \E x \in I : \A y \in I : ~(<<y, x>> \in R)
  BY <1>2, WFMin
<1>4. PICK x \in I : \A y \in I : ~(<<y, x>> \in R)
  BY <1>3
<1>5. x \in I /\ \A y \in I : x <= y
  <2> SUFFICES ASSUME NEW y \in I PROVE x <= y
    BY <1>4
  <2>1. x \in Nat /\ y \in Nat /\ ~(y < x)
    BY <1>1, <1>4
  <2> QED BY <2>1
<1> QED BY <1>5 DEF Min

(* An event goes before the first that does not go before it.              *)
LEMMA InsertPosition ==
  ASSUME DueBeforeEnd, NEW list \in Seq(Item), list # <<>>, Last(list) = EndFlag,
         NEW e \in Event
  PROVE  \E p \in 1 .. Len(list) :
           /\ Insert(list, e) = InsertAt(list, p, e)
           /\ ~Before(list[p], e)
           /\ \A k \in 1 .. p - 1 : Before(list[k], e)
<1> DEFINE I == {i \in 1 .. Len(list) : ~Before(list[i], e)}
<1>1. Len(list) \in Nat \ {0} /\ e \in Item /\ EndFlag \in Item
  BY EmptySeq DEF Item
<1>2. Before(e, EndFlag) /\ e.xTime # MaxDelay
  BY BeforeEndFlag
<1>3. Len(list) \in I
  BY <1>1, <1>2, Order DEF Last
<1>4. I \in SUBSET Nat /\ I # {}
  BY <1>1, <1>3
<1>5. Min(I) \in I /\ \A i \in I : Min(I) <= i
  BY <1>4, Smallest
<1>6. Insert(list, e) = InsertAt(list, Min(I), e)
  BY <1>2, <1>4 DEF Insert, SelectInSeq
<1>7. \A k \in 1 .. Min(I) - 1 : Before(list[k], e)
  BY <1>1, <1>4, <1>5
<1> QED BY <1>5, <1>6, <1>7

(* It keeps the list sorted and the End Flag event last.                   *)
LEMMA InsertKeepsOrder ==
  ASSUME DueBeforeEnd, NEW list \in Seq(Item), list # <<>>, Last(list) = EndFlag,
         \A i, j \in 1 .. Len(list) : i < j => ~Before(list[j], list[i]),
         NEW e \in Event
  PROVE  LET new == Insert(list, e)
         IN  /\ new \in Seq(Item) /\ new # <<>> /\ Last(new) = EndFlag
             /\ \A i, j \in DOMAIN new : i < j => ~Before(new[j], new[i])
             /\ ToSet(new) = ToSet(list) \cup {e}
             /\ IsInjective(list) /\ e \notin ToSet(list) => IsInjective(new)
<1> DEFINE new == Insert(list, e)
<1>1. PICK p \in 1 .. Len(list) :
         /\ new = InsertAt(list, p, e)
         /\ ~Before(list[p], e)
         /\ \A k \in 1 .. p - 1 : Before(list[k], e)
  BY InsertPosition
<1> HIDE DEF new
<1>2. Len(list) \in Nat \ {0} /\ p \in 1 .. Len(list) + 1 /\ e \in Item
  BY EmptySeq DEF Item
<1>3. /\ new \in Seq(Item) /\ Len(new) = Len(list) + 1
      /\ \A k \in 1 .. Len(list) + 1 :
           new[k] = IF k < p THEN list[k] ELSE IF k = p THEN e ELSE list[k - 1]
  <2> DEFINE t == InsertAt(list, p, e)
  <2>1. /\ t \in Seq(Item) /\ Len(t) = Len(list) + 1
        /\ \A k \in 1 .. Len(list) + 1 :
             t[k] = IF k < p THEN list[k] ELSE IF k = p THEN e ELSE list[k - 1]
    BY <1>2, InsertAtFacts
  <2>2. new = t
    BY <1>1
  <2> HIDE DEF t
  <2> QED BY <2>1, <2>2
<1>4. /\ ToSet(new) = ToSet(list) \cup {e}
      /\ IsInjective(list) /\ e \notin ToSet(list) => IsInjective(new)
  BY <1>1, <1>2, InsertAtSet
<1>5. new # <<>> /\ Last(new) = EndFlag /\ DOMAIN new = 1 .. Len(list) + 1
  BY <1>2, <1>3 DEF Last
<1>6. \A k \in 1 .. Len(list) : list[k] \in Item
  BY ElementOfSeq
<1>7. ASSUME NEW i \in 1 .. Len(list) + 1, NEW j \in 1 .. Len(list) + 1, i < j
      PROVE  ~Before(new[j], new[i])
  <2>1. CASE j < p
    BY <1>2, <1>3, <1>7, <2>1
  <2>2. CASE j = p
    <3>1. i \in 1 .. p - 1 /\ new[i] = list[i] /\ new[j] = e /\ list[i] \in Item
      BY <1>2, <1>3, <1>6, <1>7, <2>2
    <3> QED BY <1>1, <1>2, <3>1, Order
  <2>3. CASE j > p
    <3>1. j - 1 \in 1 .. Len(list) /\ new[j] = list[j - 1] /\ list[j - 1] \in Item
      BY <1>2, <1>3, <1>6, <2>3
    <3>2. CASE i < p
      <4>1. i \in 1 .. Len(list) /\ new[i] = list[i] /\ i < j - 1
        BY <1>2, <1>3, <2>3, <3>2
      <4> QED BY <3>1, <4>1
    <3>3. CASE i = p
      <4>1. new[i] = e /\ list[p] \in Item /\ p <= j - 1
        BY <1>2, <1>3, <1>6, <2>3, <3>3
      <4>2. CASE p = j - 1
        BY <1>1, <3>1, <4>1, <4>2
      <4>3. CASE p < j - 1
        <5>1. ~Before(list[j - 1], list[p])
          BY <3>1, <4>3
        <5> QED BY <1>1, <1>2, <3>1, <4>1, <5>1, Order
      <4>4. p \in Int /\ j - 1 \in Int
        BY <1>2
      <4> QED BY <4>1, <4>2, <4>3, <4>4
    <3>4. CASE i > p
      <4>1. i - 1 \in 1 .. Len(list) /\ new[i] = list[i - 1] /\ i - 1 < j - 1
        BY <1>2, <1>3, <1>7, <3>4
      <4> QED BY <3>1, <4>1
    <3> QED BY <1>2, <3>2, <3>3, <3>4
  <2>4. j < p \/ j = p \/ j > p
    BY <1>2
  <2> QED BY <2>1, <2>2, <2>3, <2>4
<1> QED BY <1>3, <1>4, <1>5, <1>7 DEF new

-----------------------------------------------------------------------------
(* The steps.                                                              *)

LEMMA ListInitially == Init => ListInv
<1> SUFFICES ASSUME Init PROVE ListInv
  OBVIOUS
<1>1. 0 \in 0 .. Levels - 1 /\ <<>> \in Seq(Event \cup {EndFlag})
  BY ListAssumption, EmptySeq
<1>2. TypeOK
  BY <1>1 DEF Init, TypeOK
<1> QED BY <1>2 DEF Init, ListInv, Started, EndFlagLast, Sorted, Distinct, IsInjective, ToSet

(* vEventGenericCreate: the list it inserts into, and the event.           *)
LEMMA CreateStep ==
  ASSUME DueBeforeEnd, ListInv, NEW r \in Relations, NEW last \in BOOLEAN,
         NEW nextPeriod \in Deadlines, NEW time \in DueTimes,
         CreateEvent(r[1], r[2], last, nextPeriod, time)
  PROVE  /\ ListInv'
         /\ \/ ToSet(xEventList') \ {EndFlag} = ToSet(xEventList) \ {EndFlag}
            \/ \E e \in Event \ (ToSet(xEventList) \cup ToSet(xReadyList)) :
                 ToSet(xEventList') \ {EndFlag} = (ToSet(xEventList) \ {EndFlag}) \cup {e}
<1> DEFINE list == IF isFirst THEN <<EndFlag>> ELSE xEventList
           e == NewEvent(r[1], r[2], last, nextPeriod, time, Signed(serial))
<1>1. e \in Event
  BY DEF ListInv, TypeOK, NewEvent, Event, Flags
<1>2. e \notin ToSet(xEventList) \cup ToSet(xReadyList)
  BY <1>1, EndFlagApart DEF CreateEvent, LevelIsFree, NewEvent
<1>3. EndFlag \in Item /\ e # EndFlag /\ e \in Item
  BY <1>1, EndFlagApart DEF Item
<1>4. list \in Seq(Item) /\ list # <<>> /\ Last(list) = EndFlag
  <2>1. CASE isFirst
    BY <1>3, <2>1 DEF Last
  <2>2. CASE ~isFirst
    BY <2>2 DEF ListInv, TypeOK, Started, EndFlagLast, Item
  <2> QED BY <2>1, <2>2
<1>5. /\ \A i, j \in DOMAIN list : i < j => ~Before(list[j], list[i])
      /\ DOMAIN list = 1 .. Len(list)
      /\ IsInjective(list)
  <2>1. CASE isFirst
    BY <2>1 DEF IsInjective
  <2>2. CASE ~isFirst
    BY <1>4, <2>2 DEF ListInv, Sorted, Distinct
  <2> QED BY <2>1, <2>2
<1>6. ToSet(list) = ToSet(xEventList) \cup {EndFlag} /\ EndFlag \in ToSet(list)
  <2>1. CASE isFirst
    BY <2>1 DEF ListInv, Started, ToSet
  <2>2. CASE ~isFirst
    <3>1. Len(xEventList) \in DOMAIN xEventList /\ xEventList[Len(xEventList)] = EndFlag
      BY <1>4, <2>2, EmptySeq DEF Last
    <3> QED BY <2>2, <3>1 DEF ToSet
  <2> QED BY <2>1, <2>2
<1>7. /\ ~isFirst' /\ isFirst' \in BOOLEAN /\ currentList' \in BOOLEAN
      /\ xReadyList' = xReadyList /\ received' = received /\ now' = now
  BY DEF CreateEvent, ListInv, TypeOK
<1> HIDE DEF list, e
<1>8. CASE xEventList' = list /\ serial' = serial
  <2>1. TypeOK'
    BY <1>4, <1>7, <1>8 DEF ListInv, TypeOK, Item
  <2>2. (Started /\ EndFlagLast /\ Sorted)'
    BY <1>4, <1>5, <1>7, <1>8 DEF Started, EndFlagLast, Sorted
  <2>3. Distinct'
    BY <1>5, <1>6, <1>7, <1>8 DEF ListInv, Distinct
  <2> QED BY <1>6, <1>8, <2>1, <2>2, <2>3 DEF ListInv
<1>9. CASE xEventList' = Insert(list, e) /\ serial' = NextSerial(serial)
  <2>1. /\ xEventList' \in Seq(Item) /\ xEventList' # <<>> /\ Last(xEventList') = EndFlag
        /\ \A i, j \in DOMAIN xEventList' : i < j => ~Before(xEventList'[j], xEventList'[i])
        /\ ToSet(xEventList') = ToSet(list) \cup {e}
        /\ IsInjective(xEventList')
    BY <1>1, <1>2, <1>3, <1>4, <1>5, <1>6, <1>9, InsertKeepsOrder
  <2>2. serial' \in 0 .. Levels - 1
    BY <1>9, ListAssumption DEF NextSerial, ListInv, TypeOK
  <2>3. TypeOK'
    BY <1>7, <2>1, <2>2 DEF ListInv, TypeOK, Item
  <2>4. (Started /\ EndFlagLast /\ Sorted)'
    BY <1>7, <2>1 DEF Started, EndFlagLast, Sorted
  <2>5. Distinct'
    BY <1>2, <1>3, <1>6, <1>7, <2>1 DEF ListInv, Distinct
  <2> QED BY <1>1, <1>2, <1>3, <1>6, <2>1, <2>3, <2>4, <2>5 DEF ListInv
<1>10. \/ xEventList' = list /\ serial' = serial
       \/ xEventList' = Insert(list, e) /\ serial' = NextSerial(serial)
  BY DEF CreateEvent, list, e
<1> QED BY <1>8, <1>9, <1>10

(* What is not the End Flag event of the list, when it has more than one.  *)
LEMMA HeadFacts ==
  ASSUME ListInv, ~isFirst, Len(xEventList) # 1
  PROVE  LET e == Head(xEventList)
         IN  /\ e \in Event /\ e \in ToSet(xEventList) \ {EndFlag}
             /\ \A f \in ToSet(xEventList) : f \in Item /\ ~Before(f, e)
             /\ xEventList \in Seq(Item) /\ xEventList # <<>> /\ Tail(xEventList) # <<>>
<1> DEFINE e == Head(xEventList)
<1>1. xEventList \in Seq(Item) /\ xEventList # <<>>
  BY DEF ListInv, TypeOK, Started, Item
<1>2. /\ Len(xEventList) \in Nat /\ Len(xEventList) > 1 /\ DOMAIN xEventList = 1 .. Len(xEventList)
      /\ e = xEventList[1] /\ \A k \in 1 .. Len(xEventList) : xEventList[k] \in Item
  <2>1. Len(xEventList) \in Nat \ {0} /\ Len(xEventList) # 1
    BY <1>1, EmptySeq
  <2>2. DOMAIN xEventList = 1 .. Len(xEventList) /\ e = xEventList[1]
    BY <1>1
  <2>3. \A k \in 1 .. Len(xEventList) : xEventList[k] \in Item
    BY <1>1, ElementOfSeq
  <2> QED BY <2>1, <2>2, <2>3
<1>3. xEventList[Len(xEventList)] = EndFlag
  BY DEF ListInv, EndFlagLast, Last
<1>4. xEventList[1] # EndFlag
  BY <1>2, <1>3 DEF ListInv, Distinct, IsInjective
<1>5. e \in Event /\ e \in ToSet(xEventList) \ {EndFlag}
  BY <1>2, <1>4 DEF ToSet, Item
<1>6. ASSUME NEW k \in 1 .. Len(xEventList) PROVE ~Before(xEventList[k], e)
  <2>1. CASE k = 1
    BY <1>2, <2>1, Order
  <2>2. CASE k > 1
    BY <1>2, <2>2 DEF ListInv, Sorted
  <2> QED BY <1>2, <2>1, <2>2
<1>7. Tail(xEventList) # <<>>
  <2>1. Len(Tail(xEventList)) = Len(xEventList) - 1
    BY <1>1, HeadTailProperties
  <2> QED BY <1>2, <2>1
<1> QED BY <1>1, <1>2, <1>5, <1>6, <1>7 DEF ToSet

(* xEventListGenericTransit moves the first event, if it is due, or finds  *)
(* nothing due.                                                            *)
LEMMA TransitStep ==
  ASSUME ListInv, TransitEvent
  PROVE  /\ ListInv'
         /\ \/ UNCHANGED <<now, xEventList, xReadyList>> /\ Pool!NothingDue
            \/ /\ currentList'
               /\ UNCHANGED now
               /\ \E e \in ToSet(xEventList) \ {EndFlag} : Pool!Transit(e)
<1> DEFINE e == Head(xEventList)
<1>1. CASE Len(xEventList) # 1 /\ e.xTime <= now
  <2>1. /\ e \in Event /\ e \in ToSet(xEventList) \ {EndFlag}
        /\ \A f \in ToSet(xEventList) : f \in Item /\ ~Before(f, e)
        /\ xEventList \in Seq(Item) /\ xEventList # <<>> /\ Tail(xEventList) # <<>>
    BY <1>1, HeadFacts DEF TransitEvent
  <2>2. /\ xEventList' = Tail(xEventList) /\ xReadyList' = Append(xReadyList, e)
        /\ currentList' = TRUE
        /\ isFirst' = FALSE /\ ~isFirst /\ UNCHANGED <<now, received, serial>>
    BY <1>1 DEF TransitEvent, ListInv, TypeOK
  <2>3. IsInjective(xEventList) /\ xReadyList \in Seq(Item) /\ e \in Item
    BY <2>1 DEF ListInv, Distinct, TypeOK, Item
  <2> HIDE DEF e
  <2>4. /\ Tail(xEventList) \in Seq(Item)
        /\ ToSet(Tail(xEventList)) = ToSet(xEventList) \ {Head(xEventList)}
        /\ IsInjective(Tail(xEventList))
    BY <2>1, <2>3, TailSet
  <2>5. /\ Append(xReadyList, e) \in Seq(Item)
        /\ ToSet(Append(xReadyList, e)) = ToSet(xReadyList) \cup {e}
        /\ IsInjective(Append(xReadyList, e))
    <3>1. e \notin ToSet(xReadyList) /\ IsInjective(xReadyList)
      BY <2>1 DEF ListInv, Distinct
    <3> QED BY <2>3, <3>1, AppendSet
  <2>6. TypeOK'
    BY <2>2, <2>4, <2>5 DEF ListInv, TypeOK, Item
  <2>7. /\ Len(Tail(xEventList)) = Len(xEventList) - 1 /\ Len(xEventList) \in Nat
        /\ DOMAIN xEventList = 1 .. Len(xEventList)
        /\ DOMAIN Tail(xEventList) = 1 .. Len(xEventList) - 1
        /\ \A i \in 1 .. Len(xEventList) - 1 : Tail(xEventList)[i] = xEventList[i + 1]
    BY <2>1, <2>4, HeadTailProperties, LenProperties
  <2>8. (Started /\ EndFlagLast)'
    <3>1. Len(Tail(xEventList)) \in Nat \ {0}
      BY <2>1, <2>4, EmptySeq
    <3>2. Tail(xEventList)[Len(Tail(xEventList))] = xEventList[Len(xEventList)]
      BY <2>7, <3>1
    <3> QED BY <2>1, <2>2, <3>2 DEF ListInv, Started, EndFlagLast, Last
  <2>9. Sorted'
    <3> SUFFICES ASSUME NEW i \in 1 .. Len(xEventList) - 1, NEW j \in 1 .. Len(xEventList) - 1, i < j
                 PROVE  ~Before(Tail(xEventList)[j], Tail(xEventList)[i])
      BY <2>2, <2>7 DEF Sorted
    <3>1. i + 1 \in DOMAIN xEventList /\ j + 1 \in DOMAIN xEventList /\ i + 1 < j + 1
      BY <2>7
    <3> QED BY <2>7, <3>1 DEF ListInv, Sorted
  <2>10. Distinct'
    BY <2>1, <2>2, <2>4, <2>5 DEF ListInv, Distinct, e
  <2>11. Pool!Transit(e)
    <3>1. Pool!IsHead(e, ToSet(xEventList) \ {EndFlag})
      BY <2>1 DEF Pool!IsHead, Pool!Before, Before
    <3>2. ToSet(xEventList') \ {EndFlag} = (ToSet(xEventList) \ {EndFlag}) \ {e}
      BY <2>1, <2>2, <2>4 DEF e
    <3>3. ToSet(xReadyList') = ToSet(xReadyList) \cup {e}
      BY <2>2, <2>5
    <3> QED BY <1>1, <3>1, <3>2, <3>3 DEF Pool!Transit, e
  <2> QED BY <2>1, <2>2, <2>6, <2>8, <2>9, <2>10, <2>11 DEF ListInv
<1>2. CASE ~(Len(xEventList) # 1 /\ e.xTime <= now)
  <2>1. /\ UNCHANGED <<now, isFirst, xEventList, xReadyList, received, serial>>
        /\ currentList' \in BOOLEAN
    BY <1>2 DEF TransitEvent
  <2>2. ListInv'
    BY <2>1 DEF ListInv, TypeOK, Started, EndFlagLast, Sorted, Distinct
  <2>3. Pool!NothingDue
    <3>1. CASE Len(xEventList) = 1
      <4>1. xEventList \in Seq(Item) /\ xEventList[1] = EndFlag
        BY <3>1 DEF ListInv, TypeOK, EndFlagLast, Last, TransitEvent, Item
      <4>2. ToSet(xEventList) \ {EndFlag} = {}
        BY <3>1, <4>1 DEF ToSet
      <4> QED BY <4>2 DEF Pool!NothingDue
    <3>2. CASE Len(xEventList) # 1
      <4>1. /\ e \in Event /\ e \in ToSet(xEventList) \ {EndFlag}
            /\ \A f \in ToSet(xEventList) : f \in Item /\ ~Before(f, e)
        BY <3>2, HeadFacts DEF TransitEvent
      <4> HIDE DEF e
      <4> SUFFICES ASSUME NEW f \in ToSet(xEventList) \ {EndFlag}, ~Before(e, f)
                   PROVE  f.xTime > now
        BY <4>1 DEF Pool!NothingDue, Pool!IsHead, Pool!Before, Before
      <4>2. f \in Item /\ e \in Item /\ ~Before(f, e) /\ ~Before(e, f)
        BY <4>1 DEF Item
      <4>3. f.xTime = e.xTime
        BY <4>2, StampType DEF Before
      <4>4. e.xTime \in Int /\ now \in Int /\ ~(e.xTime <= now)
        BY <1>2, <3>2, <4>2, StampType, ListAssumption DEF ListInv, TypeOK
      <4> QED BY <4>3, <4>4
    <3> QED BY <3>1, <3>2
  <2> QED BY <2>1, <2>2, <2>3
<1> QED BY <1>1, <1>2

(* vEventGenericReceive takes one event out of the ready list, or none.    *)
LEMMA ReceiveStep ==
  ASSUME ListInv, NEW r \in Relations, ReceiveEvent(r[2], r[1])
  PROVE  /\ ListInv'
         /\ UNCHANGED <<now, xEventList, currentList>>
         /\ \/ UNCHANGED xReadyList
            \/ \E e \in ToSet(xReadyList) : ToSet(xReadyList') = ToSet(xReadyList) \ {e}
<1> DEFINE I == {k \in 1 .. Len(xReadyList) : xReadyList[k].src = r[1] /\ xReadyList[k].dst = r[2]}
           i == SelectInSeq(xReadyList, LAMBDA e : e.src = r[1] /\ e.dst = r[2])
<1>1. xReadyList \in Seq(Item) /\ IsInjective(xReadyList) /\ EndFlag \notin ToSet(xReadyList)
  BY DEF ListInv, TypeOK, Distinct, Item
<1>2. /\ UNCHANGED <<now, isFirst, xEventList, serial, currentList>>
      /\ isFirst' \in BOOLEAN /\ currentList' \in BOOLEAN
  BY DEF ReceiveEvent, ListInv, TypeOK
<1>3. CASE i # 0
  <2>1. i \in 1 .. Len(xReadyList)
    <3>1. I # {} /\ I \in SUBSET Nat /\ i = Min(I)
      BY <1>1, <1>3 DEF SelectInSeq
    <3> HIDE DEF i
    <3> QED BY <3>1, Smallest
  <2>2. xReadyList' = RemoveAt(xReadyList, i) /\ received' = received \cup {xReadyList[i]}
    BY <1>3 DEF ReceiveEvent
  <2> HIDE DEF i
  <2>3. RemoveAt(xReadyList, i) \in Seq(Item)
    BY <1>1, <2>1, RemoveAtFacts
  <2>4. /\ ToSet(RemoveAt(xReadyList, i)) = ToSet(xReadyList) \ {xReadyList[i]}
        /\ IsInjective(RemoveAt(xReadyList, i))
    BY <1>1, <2>1, RemoveAtSet
  <2>5. xReadyList[i] \in ToSet(xReadyList) /\ xReadyList[i] \in Event
    <3>1. xReadyList[i] \in ToSet(xReadyList) /\ xReadyList[i] \in Item
      BY <1>1, <2>1, ElementOfSeq DEF ToSet
    <3> QED BY <1>1, <3>1 DEF Item
  <2>6. TypeOK'
    BY <1>2, <2>2, <2>3, <2>5 DEF ListInv, TypeOK, Item
  <2>7. xReadyList # <<>> /\ ~isFirst
    BY <1>1, <2>1 DEF ListInv, Started
  <2>8. (Started /\ EndFlagLast /\ Sorted /\ Distinct)'
    BY <1>1, <1>2, <2>2, <2>4, <2>7 DEF ListInv, Started, EndFlagLast, Sorted, Distinct
  <2> QED BY <1>2, <2>2, <2>4, <2>5, <2>6, <2>8 DEF ListInv
<1>4. CASE i = 0
  <2>1. UNCHANGED <<xReadyList, received>>
    BY <1>4 DEF ReceiveEvent
  <2>2. ListInv'
    BY <1>2, <2>1 DEF ListInv, TypeOK, Started, EndFlagLast, Sorted, Distinct
  <2> QED BY <1>2, <2>1, <2>2
<1> QED BY <1>3, <1>4

LEMMA QuietStep ==
  ASSUME ListInv, UNCHANGED <<isFirst, xEventList, xReadyList, currentList, serial>>,
         received' \subseteq received, now' \in 0 .. MaxDelay
  PROVE  ListInv'
BY DEF ListInv, TypeOK, Started, EndFlagLast, Sorted, Distinct

(* Each step keeps the invariant, and is a step of the pool or a stutter.  *)
LEMMA ListStep ==
  ASSUME DueBeforeEnd, ListInv, [Next]_vars
  PROVE  /\ ListInv'
         /\ [Pool!PoolNext]_<<now, ToSet(xEventList) \ {EndFlag}, ToSet(xReadyList)>>
         /\ currentList /\ ~currentList' => Pool!NothingDue
<1> USE DEF Pool!PoolNext
<1>1. CASE \E r \in Relations, last \in BOOLEAN, nextPeriod \in Deadlines, time \in DueTimes :
             CreateEvent(r[1], r[2], last, nextPeriod, time)
  <2>1. PICK r \in Relations, last \in BOOLEAN, nextPeriod \in Deadlines, time \in DueTimes :
          CreateEvent(r[1], r[2], last, nextPeriod, time)
    BY <1>1
  <2>2. /\ ListInv'
        /\ \/ ToSet(xEventList') \ {EndFlag} = ToSet(xEventList) \ {EndFlag}
           \/ \E e \in Event \ (ToSet(xEventList) \cup ToSet(xReadyList)) :
                ToSet(xEventList') \ {EndFlag} = (ToSet(xEventList) \ {EndFlag}) \cup {e}
    BY <2>1, CreateStep
  <2>3. UNCHANGED <<now, xReadyList, currentList>>
    BY <2>1 DEF CreateEvent
  <2>4. CASE ToSet(xEventList') \ {EndFlag} = ToSet(xEventList) \ {EndFlag}
    BY <2>2, <2>3, <2>4
  <2>5. CASE \E e \in Event \ (ToSet(xEventList) \cup ToSet(xReadyList)) :
               ToSet(xEventList') \ {EndFlag} = (ToSet(xEventList) \ {EndFlag}) \cup {e}
    <3>1. PICK e \in Event \ (ToSet(xEventList) \cup ToSet(xReadyList)) :
            ToSet(xEventList') \ {EndFlag} = (ToSet(xEventList) \ {EndFlag}) \cup {e}
      BY <2>5
    <3>2. e \in (ToSet(xEventList') \ {EndFlag})
               \ ((ToSet(xEventList) \ {EndFlag}) \cup ToSet(xReadyList))
      BY <3>1
    <3>3. Pool!Create({e})
      BY <3>1 DEF Pool!Create
    <3>4. Pool!PoolNext
      BY <2>3, <3>2, <3>3
    <3> QED BY <2>2, <2>3, <3>4
  <2> QED BY <2>2, <2>4, <2>5
<1>2. CASE TransitEvent
  <2>1. /\ ListInv'
        /\ \/ UNCHANGED <<now, xEventList, xReadyList>> /\ Pool!NothingDue
           \/ /\ currentList'
              /\ UNCHANGED now
              /\ \E e \in ToSet(xEventList) \ {EndFlag} : Pool!Transit(e)
    BY <1>2, TransitStep
  <2> QED BY <2>1
<1>3. CASE \E r \in Relations : ReceiveEvent(r[2], r[1])
  <2>1. /\ ListInv'
        /\ UNCHANGED <<now, xEventList, currentList>>
        /\ \/ UNCHANGED xReadyList
           \/ \E e \in ToSet(xReadyList) : ToSet(xReadyList') = ToSet(xReadyList) \ {e}
    BY <1>3, ReceiveStep
  <2>2. CASE UNCHANGED xReadyList
    BY <2>1, <2>2
  <2>3. CASE \E e \in ToSet(xReadyList) : ToSet(xReadyList') = ToSet(xReadyList) \ {e}
    <3>1. \E e \in ToSet(xReadyList) : Pool!Receive({e})
      BY <2>3 DEF Pool!Receive
    <3> QED BY <2>1, <3>1
  <2> QED BY <2>1, <2>2, <2>3
<1>4. CASE \E e \in received : DeleteEvent(e)
  <2>1. /\ UNCHANGED <<now, isFirst, xEventList, xReadyList, currentList, serial>>
        /\ received' \subseteq received
    BY <1>4 DEF DeleteEvent
  <2>2. ListInv'
    BY <2>1, QuietStep DEF ListInv, TypeOK
  <2> QED BY <2>1, <2>2
<1>5. CASE Tick
  <2>1. /\ UNCHANGED <<isFirst, xEventList, xReadyList, currentList, serial, received>>
        /\ now' = now + 1 /\ now' \in 0 .. MaxDelay
    BY <1>5, ListAssumption DEF Tick, ListInv, TypeOK
  <2>2. ListInv'
    BY <2>1, QuietStep
  <2> QED BY <2>1, <2>2
<1>6. CASE UNCHANGED vars
  <2>1. UNCHANGED <<now, isFirst, xEventList, xReadyList, currentList, serial, received>>
    BY <1>6 DEF vars
  <2>2. ListInv'
    BY <2>1, QuietStep DEF ListInv, TypeOK
  <2> QED BY <2>1, <2>2
<1> QED BY <1>1, <1>2, <1>3, <1>4, <1>5, <1>6 DEF Next

-----------------------------------------------------------------------------
LEMMA ListInvariant == ASSUME DueBeforeEnd PROVE Spec => []ListInv
<1>1. Init => ListInv
  BY ListInitially
<1>2. ListInv /\ [Next]_vars => ListInv'
  BY ListStep
<1> QED BY <1>1, <1>2, PTL DEF Spec

(* The types of the lists, the serial number and the clock.                *)
THEOREM ListTypes == ASSUME DueBeforeEnd PROVE Spec => []TypeOK
<1>1. ListInv => TypeOK
  BY DEF ListInv
<1> QED BY <1>1, ListInvariant, PTL

(* The list stays sorted by xCompareFunction, through every creation and   *)
(* move, so that its first item is the one to look at                      *)
(* (eventlist.c:305-339, 420).                                             *)
THEOREM ListIsSorted == ASSUME DueBeforeEnd PROVE Spec => []Sorted
<1>1. ListInv => Sorted
  BY DEF ListInv
<1> QED BY <1>1, ListInvariant, PTL

(* "The End Flag Event can be the last Event to be processed"              *)
(* (eventlist.c:320): every event goes before it, and it is never moved.   *)
THEOREM EndFlagStaysLast == ASSUME DueBeforeEnd PROVE Spec => []EndFlagLast
<1>1. ListInv => EndFlagLast
  BY DEF ListInv
<1> QED BY <1>1, ListInvariant, PTL

(* xEventListGenericTransit, which looks at the first item only, says that *)
(* there is nothing to do only when nothing is due (eventlist.c:412-435).  *)
THEOREM NothingDueIsLeft == ASSUME DueBeforeEnd PROVE Spec => SleepsOnlyIfNothingDue
<1>1. ListInv /\ [Next]_vars => [currentList /\ ~currentList' => Pool!NothingDue]_vars
  BY ListStep
<1> QED BY <1>1, ListInvariant, PTL DEF Spec, SleepsOnlyIfNothingDue

(* The sorted list with its End Flag event implements the pool of events   *)
(* that the servant runtime is modelled with (eventlist.c:351-497).        *)
THEOREM ListImplementsPool == ASSUME DueBeforeEnd PROVE Spec => ImplementsPool
<1>1. Init => Pool!PoolInit
  BY DEF Init, Pool!PoolInit, ToSet
<1>2. ListInv /\ [Next]_vars
        => [Pool!PoolNext]_<<now, ToSet(xEventList) \ {EndFlag}, ToSet(xReadyList)>>
  BY ListStep
<1> QED BY <1>1, <1>2, ListInvariant, PTL DEF Spec, ImplementsPool, Pool!PoolSpec

-----------------------------------------------------------------------------
(* The rings the lists are kept in. *)

(* A memory of rings: the links of its markers and of the items in lists.  *)
Fields == {"pxNext", "pxPrevious", "pxIndex", "uxNumberOfItems", "pvContainer"}

IsMemory(r, markers) ==
  /\ DOMAIN r = Fields
  /\ DOMAIN r.pxNext = markers \cup DOMAIN r.pvContainer
  /\ DOMAIN r.pxPrevious = markers \cup DOMAIN r.pvContainer
  /\ DOMAIN r.pxIndex = markers
  /\ DOMAIN r.uxNumberOfItems = markers
  /\ markers \cap DOMAIN r.pvContainer = {}

(* The nodes of the ring of l through s: the marker is number 0, and again *)
(* the one behind the last.                                                *)
Node(l, s, i) == IF i \in 1 .. Len(s) THEN s[i] ELSE l

Linked(r, l, s) ==
  \A i \in 0 .. Len(s) :
    /\ r.pxNext[Node(l, s, i)] = Node(l, s, i + 1)
    /\ r.pxPrevious[Node(l, s, i + 1)] = Node(l, s, i)

(* The ring of l goes through s.                                           *)
Holds(r, l, s) ==
  /\ IsInjective(s)
  /\ ItemsOf(r, l) = ToSet(s)
  /\ r.uxNumberOfItems[l] = Len(s)
  /\ Linked(r, l, s)

LEMMA NodesDiffer ==
  ASSUME NEW S, NEW s \in Seq(S), NEW l, IsInjective(s), l \notin ToSet(s)
  PROVE  /\ Len(s) \in Nat
         /\ \A i, j \in 0 .. Len(s) : Node(l, s, i) = Node(l, s, j) => i = j
         /\ \A i, j \in 1 .. Len(s) + 1 : Node(l, s, i) = Node(l, s, j) => i = j
<1>1. Len(s) \in Nat /\ DOMAIN s = 1 .. Len(s)
  BY LenProperties
<1>2. \A i \in 1 .. Len(s) : Node(l, s, i) = s[i] /\ s[i] # l
  BY <1>1 DEF Node, ToSet
<1>3. \A i \in Int : i \notin 1 .. Len(s) => Node(l, s, i) = l
  BY DEF Node
<1>4. \A i, j \in 1 .. Len(s) : s[i] = s[j] => i = j
  BY <1>1 DEF IsInjective
<1>5. ASSUME NEW i \in 0 .. Len(s), NEW j \in 0 .. Len(s), Node(l, s, i) = Node(l, s, j)
      PROVE  i = j
  BY <1>1, <1>2, <1>3, <1>4, <1>5
<1>6. ASSUME NEW i \in 1 .. Len(s) + 1, NEW j \in 1 .. Len(s) + 1, Node(l, s, i) = Node(l, s, j)
      PROVE  i = j
  BY <1>1, <1>2, <1>3, <1>4, <1>6
<1> QED BY <1>1, <1>5, <1>6

(* The nodes are the marker and the items.                                 *)
LEMMA NodesAre ==
  ASSUME NEW S, NEW s \in Seq(S), NEW l
  PROVE  /\ \A i \in Int : Node(l, s, i) \in {l} \cup ToSet(s)
         /\ Node(l, s, 0) = l /\ Node(l, s, Len(s) + 1) = l
         /\ \A i \in 1 .. Len(s) : Node(l, s, i) = s[i] /\ s[i] \in ToSet(s)
BY LenProperties DEF Node, ToSet

LEMMA Remainder == \A i, n \in Nat : i < n => i % n = i
OBVIOUS

(* What is written is what IsRing looks at.                                *)
LEMMA RingOfNodes ==
  ASSUME NEW markers, NEW r, IsMemory(r, markers), NEW l \in markers,
         NEW S, NEW s \in Seq(S), Holds(r, l, s)
  PROVE  IsRing(r, l, s)
<1> DEFINE T == S \cup {l}
           c == <<l>> \o s
           n == Len(c)
<1>1. Len(s) \in Nat /\ s \in Seq(T) /\ <<l>> \in Seq(T) /\ Len(<<l>>) = 1 /\ <<l>>[1] = l
  <2>1. Len(s) \in Nat /\ DOMAIN s = 1 .. Len(s) /\ s = [i \in 1 .. Len(s) |-> s[i]]
    BY LenProperties
  <2>2. \A i \in 1 .. Len(s) : s[i] \in T
    BY ElementOfSeq
  <2> HIDE DEF T
  <2>3. s \in Seq(T)
    BY <2>1, <2>2, SeqDef
  <2>4. l \in T
    BY DEF T
  <2> QED BY <2>1, <2>3, <2>4
<1>2. /\ n = Len(s) + 1
      /\ \A i \in 1 .. Len(s) + 1 : c[i] = IF i <= 1 THEN <<l>>[i] ELSE s[i - 1]
  <2> HIDE DEF T
  <2> QED BY <1>1, ConcatProperties
<1>3. \A i \in 1 .. n : c[i] = Node(l, s, i - 1)
  <2> HIDE DEF c
  <2> QED BY <1>1, <1>2 DEF Node
<1> HIDE DEF c, n
<1>4. \A i \in 1 .. n : c[(i % n) + 1] = Node(l, s, i)
  <2> SUFFICES ASSUME NEW i \in 1 .. n PROVE c[(i % n) + 1] = Node(l, s, i)
    OBVIOUS
  <2>1. CASE i = n
    <3>1. i % n = 0
      BY <1>1, <1>2, <2>1
    <3>2. 0 + 1 \in 1 .. n /\ (0 + 1) - 1 = 0
      BY <1>1, <1>2
    <3>3. c[0 + 1] = Node(l, s, 0)
      BY <1>3, <3>2
    <3> QED BY <1>1, <1>2, <2>1, <3>1, <3>3, NodesAre
  <2>2. CASE i # n
    <3>1. i % n = i
      <4>1. i \in Nat /\ n \in Nat /\ i < n
        BY <1>1, <1>2, <2>2
      <4> QED BY <4>1, Remainder
    <3>4. i + 1 \in 1 .. n /\ (i + 1) - 1 = i
      BY <1>1, <1>2, <2>2
    <3>2. c[i + 1] = Node(l, s, (i + 1) - 1)
      BY <1>3, <3>4
    <3> QED BY <3>1, <3>2, <3>4
  <2> QED BY <2>1, <2>2
<1>5. \A i \in Int : Node(l, s, i) \in DOMAIN r.pxNext
  BY NodesAre DEF IsMemory, Holds, ItemsOf
<1>6. ASSUME NEW i \in 1 .. n
      PROVE  /\ {c[i], c[(i % n) + 1]} \subseteq DOMAIN r.pxNext
             /\ r.pxNext[c[i]] = c[(i % n) + 1]
             /\ r.pxPrevious[c[(i % n) + 1]] = c[i]
  <2>1. i - 1 \in 0 .. Len(s) /\ (i - 1) + 1 = i /\ i \in Int /\ i - 1 \in Int
    BY <1>1, <1>2
  <2>2. /\ r.pxNext[Node(l, s, i - 1)] = Node(l, s, i)
        /\ r.pxPrevious[Node(l, s, i)] = Node(l, s, i - 1)
    BY <2>1 DEF Holds, Linked
  <2>3. c[i] = Node(l, s, i - 1) /\ c[(i % n) + 1] = Node(l, s, i)
    BY <1>3, <1>4
  <2> QED BY <1>5, <2>1, <2>2, <2>3
<1> QED BY <1>6 DEF IsRing, Holds, c, n

(* What InsertAfter writes.                                                *)
LEMMA InsertFields ==
  ASSUME NEW markers, NEW r, IsMemory(r, markers), NEW l \in markers,
         NEW n \in DOMAIN r.pxNext, r.pxNext[n] \in DOMAIN r.pxNext,
         NEW x, x \notin DOMAIN r.pxNext
  PROVE  LET t == InsertAfter(r, l, n, x)
         IN  /\ DOMAIN t = Fields
             /\ t.pxIndex = r.pxIndex
             /\ t.pxNext = With(With(r.pxNext, n, x), x, r.pxNext[n])
             /\ t.pxPrevious = With(With(r.pxPrevious, r.pxNext[n], x), x, n)
             /\ t.pvContainer = With(r.pvContainer, x, l)
             /\ t.uxNumberOfItems = [r.uxNumberOfItems EXCEPT ![l] = @ + 1]
BY DEF InsertAfter, IsMemory, Fields

LEMMA InsertLinks ==
  ASSUME NEW markers, NEW r, IsMemory(r, markers), NEW l \in markers,
         NEW n \in DOMAIN r.pxNext, r.pxNext[n] \in DOMAIN r.pxNext,
         NEW x, x \notin DOMAIN r.pxNext
  PROVE  LET t == InsertAfter(r, l, n, x)
         IN  /\ IsMemory(t, markers)
             /\ t.pxIndex = r.pxIndex
             /\ DOMAIN t.pvContainer = DOMAIN r.pvContainer \cup {x}
             /\ t.pxNext[x] = r.pxNext[n] /\ t.pxNext[n] = x
             /\ t.pxPrevious[x] = n /\ t.pxPrevious[r.pxNext[n]] = x
             /\ \A y \in DOMAIN r.pxNext \ {n} : t.pxNext[y] = r.pxNext[y]
             /\ \A y \in DOMAIN r.pxNext \ {r.pxNext[n]} : t.pxPrevious[y] = r.pxPrevious[y]
             /\ ItemsOf(t, l) = ItemsOf(r, l) \cup {x}
             /\ t.uxNumberOfItems[l] = r.uxNumberOfItems[l] + 1
             /\ \A m \in markers \ {l} : /\ ItemsOf(t, m) = ItemsOf(r, m)
                                         /\ t.uxNumberOfItems[m] = r.uxNumberOfItems[m]
<1> DEFINE t == InsertAfter(r, l, n, x)
<1>1. /\ DOMAIN t = Fields
      /\ t.pxIndex = r.pxIndex
      /\ t.pxNext = With(With(r.pxNext, n, x), x, r.pxNext[n])
      /\ t.pxPrevious = With(With(r.pxPrevious, r.pxNext[n], x), x, n)
      /\ t.pvContainer = With(r.pvContainer, x, l)
      /\ t.uxNumberOfItems = [r.uxNumberOfItems EXCEPT ![l] = @ + 1]
  BY InsertFields
<1> HIDE DEF t
<1>2. /\ DOMAIN r.pxNext = markers \cup DOMAIN r.pvContainer
      /\ DOMAIN r.pxPrevious = markers \cup DOMAIN r.pvContainer
      /\ DOMAIN r.pxIndex = markers /\ DOMAIN r.uxNumberOfItems = markers
      /\ markers \cap DOMAIN r.pvContainer = {}
  BY DEF IsMemory
<1>3. /\ DOMAIN t.pxNext = DOMAIN r.pxNext \cup {x}
      /\ t.pxNext[x] = r.pxNext[n] /\ t.pxNext[n] = x
      /\ \A y \in DOMAIN r.pxNext \ {n} : t.pxNext[y] = r.pxNext[y]
  <2>1. PICK f : f = r.pxNext
    OBVIOUS
  <2>2. x \notin DOMAIN f /\ n \in DOMAIN f /\ t.pxNext = With(With(f, n, x), x, f[n])
    BY <1>1, <2>1
  <2> QED BY <2>1, <2>2 DEF With
<1>4. /\ DOMAIN t.pxPrevious = DOMAIN r.pxPrevious \cup {x}
      /\ t.pxPrevious[x] = n /\ t.pxPrevious[r.pxNext[n]] = x
      /\ \A y \in DOMAIN r.pxNext \ {r.pxNext[n]} : t.pxPrevious[y] = r.pxPrevious[y]
  <2>1. PICK f, k : f = r.pxPrevious /\ k = r.pxNext[n]
    OBVIOUS
  <2>2. x \notin DOMAIN f /\ k \in DOMAIN f /\ t.pxPrevious = With(With(f, k, x), x, n)
    BY <1>1, <1>2, <2>1
  <2>3. DOMAIN f = DOMAIN r.pxNext
    BY <1>2, <2>1
  <2> QED BY <2>1, <2>2, <2>3 DEF With
<1>5. /\ DOMAIN t.pvContainer = DOMAIN r.pvContainer \cup {x} /\ t.pvContainer[x] = l
      /\ \A y \in DOMAIN r.pvContainer : t.pvContainer[y] = r.pvContainer[y]
  <2>1. PICK f : f = r.pvContainer
    OBVIOUS
  <2>2. x \notin DOMAIN f /\ t.pvContainer = With(f, x, l)
    BY <1>1, <1>2, <2>1
  <2> QED BY <2>1, <2>2 DEF With
<1>6. IsMemory(t, markers)
  BY <1>1, <1>2, <1>3, <1>4, <1>5 DEF IsMemory
<1>7. ItemsOf(t, l) = ItemsOf(r, l) \cup {x}
  BY <1>2, <1>5 DEF ItemsOf
<1>8. \A m \in markers \ {l} : ItemsOf(t, m) = ItemsOf(r, m)
  BY <1>2, <1>5 DEF ItemsOf
<1>9. /\ t.uxNumberOfItems[l] = r.uxNumberOfItems[l] + 1
      /\ \A m \in markers \ {l} : t.uxNumberOfItems[m] = r.uxNumberOfItems[m]
  BY <1>1, <1>2
<1> QED BY <1>1, <1>3, <1>4, <1>5, <1>6, <1>7, <1>8, <1>9 DEF t

(* The nodes of a ring are linked in the memory.                           *)
LEMMA RingNodes ==
  ASSUME NEW markers, NEW r, IsMemory(r, markers), NEW l \in markers,
         NEW S, NEW s \in Seq(S), Holds(r, l, s)
  PROVE  /\ l \notin ToSet(s)
         /\ \A i \in Int : Node(l, s, i) \in DOMAIN r.pxNext
         /\ \A i \in 0 .. Len(s) : /\ r.pxNext[Node(l, s, i)] = Node(l, s, i + 1)
                                   /\ r.pxPrevious[Node(l, s, i + 1)] = Node(l, s, i)
<1>1. ToSet(s) \subseteq DOMAIN r.pvContainer
  BY DEF Holds, ItemsOf
<1>2. l \notin ToSet(s)
  BY <1>1 DEF IsMemory
<1>3. \A i \in Int : Node(l, s, i) \in DOMAIN r.pxNext
  BY <1>1, NodesAre DEF IsMemory
<1> QED BY <1>2, <1>3 DEF Holds, Linked

(* The nodes of two rings are apart.                                       *)
LEMMA RingsApart ==
  ASSUME NEW markers, NEW r, IsMemory(r, markers), NEW l \in markers, NEW m \in markers, l # m,
         NEW S, NEW s \in Seq(S), Holds(r, l, s), NEW u \in Seq(S), Holds(r, m, u)
  PROVE  \A i, j \in Int : Node(l, s, i) # Node(m, u, j)
<1>1. ToSet(s) \cap ToSet(u) = {} /\ l \notin ToSet(u) /\ m \notin ToSet(s)
  BY DEF Holds, ItemsOf, IsMemory
<1>2. ({l} \cup ToSet(s)) \cap ({m} \cup ToSet(u)) = {}
  BY <1>1
<1>3. (\A i \in Int : Node(l, s, i) \in {l} \cup ToSet(s))
  BY NodesAre
<1>4. (\A j \in Int : Node(m, u, j) \in {m} \cup ToSet(u))
  BY NodesAre
<1> QED BY <1>2, <1>3, <1>4

(* The nodes of u are those of s with x behind number p.                   *)
NodesWith(l, s, p, x, u) ==
  /\ \A i \in 0 .. p : Node(l, u, i) = Node(l, s, i)
  /\ Node(l, u, p + 1) = x
  /\ \A i \in p + 2 .. Len(s) + 2 : Node(l, u, i) = Node(l, s, i - 1)

LEMMA InsertNodes ==
  ASSUME NEW S, NEW s \in Seq(S), NEW x \in S, NEW p \in 0 .. Len(s), NEW l
  PROVE  LET t == InsertAt(s, p + 1, x)
         IN  /\ t \in Seq(S) /\ Len(t) = Len(s) + 1 /\ Len(s) \in Nat
             /\ NodesWith(l, s, p, x, t)
<1> DEFINE t == InsertAt(s, p + 1, x)
<1>1. Len(s) \in Nat /\ p + 1 \in 1 .. Len(s) + 1 /\ p \in Nat
  BY LenProperties
<1>2. /\ t \in Seq(S) /\ Len(t) = Len(s) + 1
      /\ \A k \in 1 .. Len(s) + 1 :
           t[k] = IF k < p + 1 THEN s[k] ELSE IF k = p + 1 THEN x ELSE s[k - 1]
  <2>1. PICK q \in 1 .. Len(s) + 1 : q = p + 1
    BY <1>1
  <2>2. t = InsertAt(s, q, x)
    BY <2>1
  <2> HIDE DEF t
  <2> DEFINE v == InsertAt(s, q, x)
  <2>3. /\ v \in Seq(S) /\ Len(v) = Len(s) + 1
        /\ \A k \in 1 .. Len(s) + 1 :
             v[k] = IF k < q THEN s[k] ELSE IF k = q THEN x ELSE s[k - 1]
    BY InsertAtFacts
  <2> HIDE DEF v
  <2>4. v = t
    BY <2>2 DEF v
  <2> QED BY <2>1, <2>3, <2>4
<1> HIDE DEF t
<1>3. ASSUME NEW i \in 0 .. p PROVE Node(l, t, i) = Node(l, s, i)
  BY <1>1, <1>2 DEF Node
<1>4. Node(l, t, p + 1) = x
  BY <1>1, <1>2 DEF Node
<1>5. ASSUME NEW i \in p + 2 .. Len(s) + 2 PROVE Node(l, t, i) = Node(l, s, i - 1)
  BY <1>1, <1>2 DEF Node
<1> QED BY <1>1, <1>2, <1>3, <1>4, <1>5 DEF t, NodesWith

(* vListInsert and vListInsertEnd: the ring it is put in, and another.     *)
LEMMA InsertInRing ==
  ASSUME NEW markers, NEW r, IsMemory(r, markers), NEW l \in markers,
         NEW S, NEW s \in Seq(S), Holds(r, l, s), NEW p \in 0 .. Len(s),
         NEW x \in S, x \notin DOMAIN r.pxNext
  PROVE  Holds(InsertAfter(r, l, Node(l, s, p), x), l, InsertAt(s, p + 1, x))
<1> DEFINE n == Node(l, s, p)
           t == InsertAfter(r, l, n, x)
           u == InsertAt(s, p + 1, x)
<1>1. /\ l \notin ToSet(s)
      /\ \A i \in Int : Node(l, s, i) \in DOMAIN r.pxNext
      /\ \A i \in 0 .. Len(s) : /\ r.pxNext[Node(l, s, i)] = Node(l, s, i + 1)
                                /\ r.pxPrevious[Node(l, s, i + 1)] = Node(l, s, i)
  BY RingNodes
<1>2. /\ Len(s) \in Nat
      /\ \A i, j \in 0 .. Len(s) : Node(l, s, i) = Node(l, s, j) => i = j
      /\ \A i, j \in 1 .. Len(s) + 1 : Node(l, s, i) = Node(l, s, j) => i = j
  BY <1>1, NodesDiffer DEF Holds
<1>3. n \in DOMAIN r.pxNext /\ r.pxNext[n] = Node(l, s, p + 1) /\ r.pxNext[n] \in DOMAIN r.pxNext
  BY <1>1, <1>2
<1>4. /\ t.pxNext[x] = r.pxNext[n] /\ t.pxNext[n] = x
      /\ t.pxPrevious[x] = n /\ t.pxPrevious[r.pxNext[n]] = x
      /\ \A y \in DOMAIN r.pxNext \ {n} : t.pxNext[y] = r.pxNext[y]
      /\ \A y \in DOMAIN r.pxNext \ {r.pxNext[n]} : t.pxPrevious[y] = r.pxPrevious[y]
      /\ ItemsOf(t, l) = ItemsOf(r, l) \cup {x}
      /\ t.uxNumberOfItems[l] = r.uxNumberOfItems[l] + 1
  <2> HIDE DEF n
  <2> QED BY <1>3, InsertLinks
<1>5. /\ u \in Seq(S) /\ Len(u) = Len(s) + 1
      /\ \A i \in 0 .. p : Node(l, u, i) = Node(l, s, i)
      /\ Node(l, u, p + 1) = x
      /\ \A i \in p + 2 .. Len(s) + 2 : Node(l, u, i) = Node(l, s, i - 1)
  <2>1. u \in Seq(S) /\ Len(u) = Len(s) + 1 /\ NodesWith(l, s, p, x, u)
    BY InsertNodes
  <2> HIDE DEF u, n
  <2> QED BY <2>1 DEF NodesWith
<1>6. x \notin ToSet(s) /\ p + 1 \in 1 .. Len(s) + 1 /\ IsInjective(s)
  BY <1>2 DEF Holds, ItemsOf, IsMemory
<1>7. ToSet(u) = ToSet(s) \cup {x} /\ IsInjective(u)
  BY <1>6, InsertAtSet
<1> HIDE DEF t, u
<1>8. ASSUME NEW i \in 0 .. Len(s) + 1
      PROVE  /\ t.pxNext[Node(l, u, i)] = Node(l, u, i + 1)
             /\ t.pxPrevious[Node(l, u, i + 1)] = Node(l, u, i)
  <2>0. p \in Nat /\ p <= Len(s)
    BY <1>2
  <2>1. CASE i < p
    <3>1. Node(l, u, i) = Node(l, s, i) /\ Node(l, u, i + 1) = Node(l, s, i + 1)
      BY <1>5, <2>0, <2>1
    <3>2. /\ i \in 0 .. Len(s) /\ i + 1 \in 1 .. Len(s) + 1 /\ i # p /\ i + 1 # p + 1
          /\ p + 1 \in 1 .. Len(s) + 1 /\ i \in Int /\ i + 1 \in Int
      BY <1>2, <2>0, <2>1
    <3>3. /\ Node(l, s, i) \in DOMAIN r.pxNext \ {n}
          /\ Node(l, s, i + 1) \in DOMAIN r.pxNext \ {r.pxNext[n]}
      BY <1>1, <1>2, <1>3, <3>2
    <3> QED BY <1>1, <1>4, <3>1, <3>2, <3>3
  <2>2. CASE i = p
    BY <1>4, <1>5, <2>0, <2>2
  <2>3. CASE i = p + 1
    <3>1. Node(l, u, i) = x
      BY <1>5, <2>3
    <3>2. Node(l, u, i + 1) = Node(l, s, p + 1)
      <4>1. i + 1 \in p + 2 .. Len(s) + 2 /\ (i + 1) - 1 = p + 1
        BY <1>2, <2>0, <2>3
      <4> QED BY <1>5, <4>1
    <3> QED BY <1>3, <1>4, <3>1, <3>2
  <2>4. CASE i > p + 1
    <3>1. /\ i \in p + 2 .. Len(s) + 2 /\ i + 1 \in p + 2 .. Len(s) + 2 /\ (i + 1) - 1 = i
          /\ i - 1 \in 0 .. Len(s) /\ (i - 1) + 1 = i /\ i \in 1 .. Len(s) + 1 /\ i - 1 # p /\ i # p + 1
          /\ p + 1 \in 1 .. Len(s) + 1 /\ i \in Int /\ i - 1 \in Int
      BY <1>2, <2>0, <2>4
    <3>2. Node(l, u, i) = Node(l, s, i - 1) /\ Node(l, u, i + 1) = Node(l, s, i)
      BY <1>5, <3>1
    <3>3. /\ Node(l, s, i - 1) \in DOMAIN r.pxNext \ {n}
          /\ Node(l, s, i) \in DOMAIN r.pxNext \ {r.pxNext[n]}
      BY <1>1, <1>2, <1>3, <3>1
    <3>4. r.pxNext[Node(l, s, i - 1)] = Node(l, s, i) /\ r.pxPrevious[Node(l, s, i)] = Node(l, s, i - 1)
      BY <1>1, <3>1
    <3> QED BY <1>4, <3>2, <3>3, <3>4
  <2> QED BY <1>2, <2>0, <2>1, <2>2, <2>3, <2>4
<1>9. Linked(t, l, u)
  BY <1>2, <1>5, <1>8 DEF Linked
<1> QED BY <1>4, <1>5, <1>7, <1>9 DEF Holds, t, u, n

LEMMA InsertOtherRing ==
  ASSUME NEW markers, NEW r, IsMemory(r, markers), NEW l \in markers, NEW m \in markers, l # m,
         NEW S, NEW s \in Seq(S), Holds(r, l, s), NEW u \in Seq(S), Holds(r, m, u),
         NEW p \in 0 .. Len(s), NEW x, x \notin DOMAIN r.pxNext
  PROVE  Holds(InsertAfter(r, l, Node(l, s, p), x), m, u)
<1> DEFINE n == Node(l, s, p)
           t == InsertAfter(r, l, n, x)
<1>1. /\ \A i \in Int : Node(l, s, i) \in DOMAIN r.pxNext
      /\ \A i \in 0 .. Len(s) : r.pxNext[Node(l, s, i)] = Node(l, s, i + 1)
  BY RingNodes
<1>2. Len(s) \in Nat /\ Len(u) \in Nat
  BY LenProperties
<1>3. n \in DOMAIN r.pxNext /\ r.pxNext[n] = Node(l, s, p + 1) /\ r.pxNext[n] \in DOMAIN r.pxNext
  BY <1>1, <1>2
<1>4. /\ \A y \in DOMAIN r.pxNext \ {n} : t.pxNext[y] = r.pxNext[y]
      /\ \A y \in DOMAIN r.pxNext \ {r.pxNext[n]} : t.pxPrevious[y] = r.pxPrevious[y]
      /\ ItemsOf(t, m) = ItemsOf(r, m) /\ t.uxNumberOfItems[m] = r.uxNumberOfItems[m]
  <2> HIDE DEF n
  <2> QED BY <1>3, InsertLinks
<1>5. /\ \A i \in Int : Node(m, u, i) \in DOMAIN r.pxNext
      /\ \A i \in 0 .. Len(u) : /\ r.pxNext[Node(m, u, i)] = Node(m, u, i + 1)
                                /\ r.pxPrevious[Node(m, u, i + 1)] = Node(m, u, i)
  BY RingNodes
<1>6. \A i \in Int : Node(m, u, i) # n /\ Node(m, u, i) # r.pxNext[n]
  <2>1. p \in Int /\ p + 1 \in Int
    BY <1>2
  <2> QED BY <1>3, <2>1, RingsApart
<1> HIDE DEF t, n
<1>7. Linked(t, m, u)
  <2> SUFFICES ASSUME NEW i \in 0 .. Len(u)
               PROVE  /\ t.pxNext[Node(m, u, i)] = Node(m, u, i + 1)
                      /\ t.pxPrevious[Node(m, u, i + 1)] = Node(m, u, i)
    BY DEF Linked
  <2>1. i \in Int /\ i + 1 \in Int
    BY <1>2
  <2> QED BY <1>4, <1>5, <1>6, <2>1
<1> QED BY <1>4, <1>7 DEF Holds, t, n

(* What ListRemove writes.                                                 *)
LEMMA RemoveFields ==
  ASSUME NEW markers, NEW r, IsMemory(r, markers), NEW x
  PROVE  LET t == ListRemove(r, x)
             linked == DOMAIN r.pxNext \ {x}
             l == r.pvContainer[x]
         IN  /\ DOMAIN t = Fields
             /\ t.pxNext = Restrict([r.pxNext EXCEPT ![r.pxPrevious[x]] = r.pxNext[x]], linked)
             /\ t.pxPrevious = Restrict([r.pxPrevious EXCEPT ![r.pxNext[x]] = r.pxPrevious[x]], linked)
             /\ t.pvContainer = Restrict(r.pvContainer, DOMAIN r.pvContainer \ {x})
             /\ t.pxIndex = [r.pxIndex EXCEPT ![l] = IF @ = x THEN r.pxPrevious[x] ELSE @]
             /\ t.uxNumberOfItems = [r.uxNumberOfItems EXCEPT ![l] = @ - 1]
BY DEF ListRemove, IsMemory, Fields

LEMMA RemoveLinks ==
  ASSUME NEW markers, NEW r, IsMemory(r, markers), NEW l \in markers, NEW x \in ItemsOf(r, l),
         r.pxNext[x] \in DOMAIN r.pxNext \ {x}, r.pxPrevious[x] \in DOMAIN r.pxNext \ {x}
  PROVE  LET t == ListRemove(r, x)
         IN  /\ IsMemory(t, markers)
             /\ t.pxIndex[l] = (IF r.pxIndex[l] = x THEN r.pxPrevious[x] ELSE r.pxIndex[l])
             /\ DOMAIN t.pvContainer = DOMAIN r.pvContainer \ {x}
             /\ t.pxNext[r.pxPrevious[x]] = r.pxNext[x]
             /\ t.pxPrevious[r.pxNext[x]] = r.pxPrevious[x]
             /\ \A y \in DOMAIN r.pxNext \ {x, r.pxPrevious[x]} : t.pxNext[y] = r.pxNext[y]
             /\ \A y \in DOMAIN r.pxNext \ {x, r.pxNext[x]} : t.pxPrevious[y] = r.pxPrevious[y]
             /\ ItemsOf(t, l) = ItemsOf(r, l) \ {x}
             /\ t.uxNumberOfItems[l] = r.uxNumberOfItems[l] - 1
             /\ \A m \in markers \ {l} : /\ ItemsOf(t, m) = ItemsOf(r, m)
                                         /\ t.pxIndex[m] = r.pxIndex[m]
                                         /\ t.uxNumberOfItems[m] = r.uxNumberOfItems[m]
<1> DEFINE t == ListRemove(r, x)
           a == r.pxPrevious[x]
           b == r.pxNext[x]
           linked == DOMAIN r.pxNext \ {x}
<1>0. r.pvContainer[x] = l /\ x \in DOMAIN r.pvContainer
  BY DEF ItemsOf
<1>1. /\ DOMAIN t = Fields
      /\ t.pxNext = Restrict([r.pxNext EXCEPT ![a] = b], linked)
      /\ t.pxPrevious = Restrict([r.pxPrevious EXCEPT ![b] = a], linked)
      /\ t.pvContainer = Restrict(r.pvContainer, DOMAIN r.pvContainer \ {x})
      /\ t.pxIndex = [r.pxIndex EXCEPT ![l] = IF @ = x THEN a ELSE @]
      /\ t.uxNumberOfItems = [r.uxNumberOfItems EXCEPT ![l] = @ - 1]
  BY <1>0, RemoveFields
<1> HIDE DEF t
<1>2. /\ DOMAIN r.pxNext = markers \cup DOMAIN r.pvContainer
      /\ DOMAIN r.pxPrevious = DOMAIN r.pxNext
      /\ DOMAIN r.pxIndex = markers /\ DOMAIN r.uxNumberOfItems = markers
      /\ markers \cap DOMAIN r.pvContainer = {}
  BY DEF IsMemory
<1>3. /\ DOMAIN t.pxNext = linked /\ t.pxNext[a] = b
      /\ \A y \in linked \ {a} : t.pxNext[y] = r.pxNext[y]
  <2>1. PICK f : f = r.pxNext
    OBVIOUS
  <2>2. t.pxNext = Restrict([f EXCEPT ![a] = b], linked) /\ linked \subseteq DOMAIN f /\ a \in linked
    BY <1>1, <2>1
  <2> HIDE DEF a, b, linked
  <2> QED BY <2>1, <2>2 DEF Restrict
<1>4. /\ DOMAIN t.pxPrevious = linked /\ t.pxPrevious[b] = a
      /\ \A y \in linked \ {b} : t.pxPrevious[y] = r.pxPrevious[y]
  <2>1. PICK f : f = r.pxPrevious
    OBVIOUS
  <2>2. t.pxPrevious = Restrict([f EXCEPT ![b] = a], linked) /\ linked \subseteq DOMAIN f /\ b \in linked
    BY <1>1, <1>2, <2>1
  <2> HIDE DEF a, b, linked
  <2> QED BY <2>1, <2>2 DEF Restrict
<1>5. /\ DOMAIN t.pvContainer = DOMAIN r.pvContainer \ {x}
      /\ \A y \in DOMAIN r.pvContainer \ {x} : t.pvContainer[y] = r.pvContainer[y]
  <2>1. PICK f : f = r.pvContainer
    OBVIOUS
  <2>2. t.pvContainer = Restrict(f, DOMAIN f \ {x})
    BY <1>1, <2>1
  <2> QED BY <2>1, <2>2 DEF Restrict
<1> HIDE DEF a, b
<1>6. IsMemory(t, markers)
  <2>1. linked = markers \cup DOMAIN t.pvContainer
    BY <1>0, <1>2, <1>5
  <2>2. DOMAIN t.pxIndex = markers /\ DOMAIN t.uxNumberOfItems = markers
    BY <1>1, <1>2
  <2> QED BY <1>1, <1>2, <1>3, <1>4, <1>5, <2>1, <2>2 DEF IsMemory
<1>7. ItemsOf(t, l) = ItemsOf(r, l) \ {x}
  BY <1>5 DEF ItemsOf
<1>8. \A m \in markers \ {l} : ItemsOf(t, m) = ItemsOf(r, m)
  BY <1>0, <1>5 DEF ItemsOf
<1>9. /\ t.uxNumberOfItems[l] = r.uxNumberOfItems[l] - 1
      /\ \A m \in markers \ {l} : t.uxNumberOfItems[m] = r.uxNumberOfItems[m]
  BY <1>1, <1>2
<1>10. /\ t.pxIndex[l] = (IF r.pxIndex[l] = x THEN a ELSE r.pxIndex[l])
       /\ \A m \in markers \ {l} : t.pxIndex[m] = r.pxIndex[m]
  BY <1>1, <1>2
<1> QED BY <1>3, <1>4, <1>5, <1>6, <1>7, <1>8, <1>9, <1>10 DEF t, a, b

(* The nodes of u are those of s without number p.                         *)
NodesWithout(l, s, p, u) ==
  /\ \A i \in 0 .. p - 1 : Node(l, u, i) = Node(l, s, i)
  /\ \A i \in p .. Len(s) : Node(l, u, i) = Node(l, s, i + 1)

LEMMA RemoveNodes ==
  ASSUME NEW S, NEW s \in Seq(S), NEW p \in 1 .. Len(s), NEW l
  PROVE  LET t == RemoveAt(s, p)
         IN  /\ t \in Seq(S) /\ Len(t) = Len(s) - 1 /\ Len(s) \in Nat
             /\ NodesWithout(l, s, p, t)
<1> DEFINE t == RemoveAt(s, p)
<1>1. Len(s) \in Nat
  BY LenProperties
<1>2. /\ t \in Seq(S) /\ Len(t) = Len(s) - 1
      /\ \A k \in 1 .. Len(s) - 1 : t[k] = IF k < p THEN s[k] ELSE s[k + 1]
  BY RemoveAtFacts
<1> HIDE DEF t
<1>3. ASSUME NEW i \in 0 .. p - 1 PROVE Node(l, t, i) = Node(l, s, i)
  BY <1>1, <1>2 DEF Node
<1>4. ASSUME NEW i \in p .. Len(s) PROVE Node(l, t, i) = Node(l, s, i + 1)
  BY <1>1, <1>2 DEF Node
<1> QED BY <1>1, <1>2, <1>3, <1>4 DEF t, NodesWithout

(* An item's neighbours are in the memory, and none is the item.           *)
LEMMA Neighbours ==
  ASSUME NEW markers, NEW r, IsMemory(r, markers), NEW l \in markers,
         NEW S, NEW s \in Seq(S), Holds(r, l, s), NEW p \in 1 .. Len(s)
  PROVE  /\ s[p] \in ItemsOf(r, l) /\ s[p] = Node(l, s, p)
         /\ r.pxNext[s[p]] = Node(l, s, p + 1)
         /\ r.pxPrevious[s[p]] = Node(l, s, p - 1)
         /\ Node(l, s, p + 1) \in DOMAIN r.pxNext \ {s[p]}
         /\ Node(l, s, p - 1) \in DOMAIN r.pxNext \ {s[p]}
<1>1. /\ l \notin ToSet(s)
      /\ \A i \in Int : Node(l, s, i) \in DOMAIN r.pxNext
      /\ \A i \in 0 .. Len(s) : /\ r.pxNext[Node(l, s, i)] = Node(l, s, i + 1)
                                /\ r.pxPrevious[Node(l, s, i + 1)] = Node(l, s, i)
  BY RingNodes
<1>2. /\ Len(s) \in Nat
      /\ \A i, j \in 0 .. Len(s) : Node(l, s, i) = Node(l, s, j) => i = j
      /\ \A i, j \in 1 .. Len(s) + 1 : Node(l, s, i) = Node(l, s, j) => i = j
  BY <1>1, NodesDiffer DEF Holds
<1>3. s[p] = Node(l, s, p) /\ s[p] \in ToSet(s)
  BY NodesAre
<1>4. /\ p \in 0 .. Len(s) /\ p \in 1 .. Len(s) + 1 /\ p - 1 \in 0 .. Len(s) /\ (p - 1) + 1 = p
      /\ p + 1 \in 1 .. Len(s) + 1 /\ p - 1 # p /\ p + 1 # p /\ p - 1 \in Int /\ p + 1 \in Int
  BY <1>2
<1>5. Node(l, s, p + 1) # Node(l, s, p) /\ Node(l, s, p - 1) # Node(l, s, p)
  BY <1>2, <1>4
<1>6. r.pxPrevious[Node(l, s, (p - 1) + 1)] = Node(l, s, p - 1)
  BY <1>1, <1>4
<1> QED BY <1>1, <1>3, <1>4, <1>5, <1>6 DEF Holds

(* vListRemove: the ring of the item, and another.                         *)
LEMMA RemoveFromRing ==
  ASSUME NEW markers, NEW r, IsMemory(r, markers), NEW l \in markers,
         NEW S, NEW s \in Seq(S), Holds(r, l, s), NEW p \in 1 .. Len(s)
  PROVE  Holds(ListRemove(r, s[p]), l, RemoveAt(s, p))
<1> DEFINE x == s[p]
           t == ListRemove(r, x)
           u == RemoveAt(s, p)
<1>1. /\ l \notin ToSet(s)
      /\ \A i \in Int : Node(l, s, i) \in DOMAIN r.pxNext
      /\ \A i \in 0 .. Len(s) : /\ r.pxNext[Node(l, s, i)] = Node(l, s, i + 1)
                                /\ r.pxPrevious[Node(l, s, i + 1)] = Node(l, s, i)
  BY RingNodes
<1>2. /\ Len(s) \in Nat
      /\ \A i, j \in 0 .. Len(s) : Node(l, s, i) = Node(l, s, j) => i = j
      /\ \A i, j \in 1 .. Len(s) + 1 : Node(l, s, i) = Node(l, s, j) => i = j
  BY <1>1, NodesDiffer DEF Holds
<1>3. /\ x \in ItemsOf(r, l) /\ x = Node(l, s, p)
      /\ r.pxNext[x] = Node(l, s, p + 1) /\ r.pxPrevious[x] = Node(l, s, p - 1)
      /\ Node(l, s, p + 1) \in DOMAIN r.pxNext \ {x}
      /\ Node(l, s, p - 1) \in DOMAIN r.pxNext \ {x}
  BY Neighbours
<1>4. /\ t.pxNext[Node(l, s, p - 1)] = Node(l, s, p + 1)
      /\ t.pxPrevious[Node(l, s, p + 1)] = Node(l, s, p - 1)
      /\ \A y \in DOMAIN r.pxNext \ {x, Node(l, s, p - 1)} : t.pxNext[y] = r.pxNext[y]
      /\ \A y \in DOMAIN r.pxNext \ {x, Node(l, s, p + 1)} : t.pxPrevious[y] = r.pxPrevious[y]
      /\ ItemsOf(t, l) = ItemsOf(r, l) \ {x}
      /\ t.uxNumberOfItems[l] = r.uxNumberOfItems[l] - 1
  <2> HIDE DEF x
  <2> QED BY <1>3, RemoveLinks
<1>5. u \in Seq(S) /\ Len(u) = Len(s) - 1 /\ NodesWithout(l, s, p, u)
  BY RemoveNodes
<1>6. ToSet(u) = ToSet(s) \ {x} /\ IsInjective(u)
  BY RemoveAtSet DEF Holds
<1> HIDE DEF t, u
<1>7. ASSUME NEW i \in 0 .. Len(s) - 1
      PROVE  /\ t.pxNext[Node(l, u, i)] = Node(l, u, i + 1)
             /\ t.pxPrevious[Node(l, u, i + 1)] = Node(l, u, i)
  <2>0. p \in Nat /\ 1 <= p /\ p <= Len(s)
    BY <1>2
  <2>1. CASE i < p - 1
    <3>1. /\ i \in 0 .. p - 1 /\ i + 1 \in 0 .. p - 1 /\ i \in 0 .. Len(s) /\ p \in 0 .. Len(s)
          /\ p - 1 \in 0 .. Len(s) /\ i # p /\ i # p - 1 /\ i + 1 \in 1 .. Len(s) + 1
          /\ p \in 1 .. Len(s) + 1 /\ p + 1 \in 1 .. Len(s) + 1 /\ i + 1 # p /\ i + 1 # p + 1
          /\ i \in Int /\ i + 1 \in Int
      BY <1>2, <2>0, <2>1
    <3>2. Node(l, u, i) = Node(l, s, i) /\ Node(l, u, i + 1) = Node(l, s, i + 1)
      BY <1>5, <3>1 DEF NodesWithout
    <3>3. /\ Node(l, s, i) \in DOMAIN r.pxNext \ {x, Node(l, s, p - 1)}
          /\ Node(l, s, i + 1) \in DOMAIN r.pxNext \ {x, Node(l, s, p + 1)}
      BY <1>1, <1>2, <1>3, <3>1
    <3> QED BY <1>1, <1>4, <3>1, <3>2, <3>3
  <2>2. CASE i = p - 1
    <3>1. i \in 0 .. p - 1 /\ i + 1 = p /\ p \in p .. Len(s)
      BY <1>2, <2>0, <2>2
    <3>2. Node(l, u, i) = Node(l, s, p - 1) /\ Node(l, u, i + 1) = Node(l, s, p + 1)
      BY <1>5, <2>2, <3>1 DEF NodesWithout
    <3> QED BY <1>4, <3>2
  <2>3. CASE i > p - 1
    <3>1. /\ i \in p .. Len(s) /\ i + 1 \in p .. Len(s) /\ i + 1 \in 0 .. Len(s) /\ p \in 0 .. Len(s)
          /\ p - 1 \in 0 .. Len(s) /\ i + 1 # p /\ i + 1 # p - 1 /\ (i + 1) + 1 \in 1 .. Len(s) + 1
          /\ p \in 1 .. Len(s) + 1 /\ p + 1 \in 1 .. Len(s) + 1
          /\ (i + 1) + 1 # p /\ (i + 1) + 1 # p + 1 /\ i + 1 \in Int /\ (i + 1) + 1 \in Int
      BY <1>2, <2>0, <2>3
    <3>2. Node(l, u, i) = Node(l, s, i + 1) /\ Node(l, u, i + 1) = Node(l, s, (i + 1) + 1)
      BY <1>5, <3>1 DEF NodesWithout
    <3>3. /\ Node(l, s, i + 1) \in DOMAIN r.pxNext \ {x, Node(l, s, p - 1)}
          /\ Node(l, s, (i + 1) + 1) \in DOMAIN r.pxNext \ {x, Node(l, s, p + 1)}
      BY <1>1, <1>2, <1>3, <3>1
    <3>4. /\ r.pxNext[Node(l, s, i + 1)] = Node(l, s, (i + 1) + 1)
          /\ r.pxPrevious[Node(l, s, (i + 1) + 1)] = Node(l, s, i + 1)
      BY <1>1, <3>1
    <3> QED BY <1>4, <3>2, <3>3, <3>4
  <2> QED BY <1>2, <2>0, <2>1, <2>2, <2>3
<1>8. Linked(t, l, u)
  BY <1>2, <1>5, <1>7 DEF Linked
<1> QED BY <1>4, <1>5, <1>6, <1>8 DEF Holds, t, u, x

LEMMA RemoveOtherRing ==
  ASSUME NEW markers, NEW r, IsMemory(r, markers), NEW l \in markers, NEW m \in markers, l # m,
         NEW S, NEW s \in Seq(S), Holds(r, l, s), NEW u \in Seq(S), Holds(r, m, u),
         NEW p \in 1 .. Len(s)
  PROVE  Holds(ListRemove(r, s[p]), m, u)
<1> DEFINE x == s[p]
           t == ListRemove(r, x)
<1>1. /\ x \in ItemsOf(r, l) /\ x = Node(l, s, p)
      /\ r.pxNext[x] = Node(l, s, p + 1) /\ r.pxPrevious[x] = Node(l, s, p - 1)
      /\ Node(l, s, p + 1) \in DOMAIN r.pxNext \ {x}
      /\ Node(l, s, p - 1) \in DOMAIN r.pxNext \ {x}
  BY Neighbours
<1>2. /\ \A y \in DOMAIN r.pxNext \ {x, Node(l, s, p - 1)} : t.pxNext[y] = r.pxNext[y]
      /\ \A y \in DOMAIN r.pxNext \ {x, Node(l, s, p + 1)} : t.pxPrevious[y] = r.pxPrevious[y]
      /\ ItemsOf(t, m) = ItemsOf(r, m) /\ t.uxNumberOfItems[m] = r.uxNumberOfItems[m]
  <2> HIDE DEF x
  <2> QED BY <1>1, RemoveLinks
<1>3. /\ \A i \in Int : Node(m, u, i) \in DOMAIN r.pxNext
      /\ \A i \in 0 .. Len(u) : /\ r.pxNext[Node(m, u, i)] = Node(m, u, i + 1)
                                /\ r.pxPrevious[Node(m, u, i + 1)] = Node(m, u, i)
  BY RingNodes
<1>4. \A i \in Int : Node(m, u, i) \notin {x, Node(l, s, p - 1), Node(l, s, p + 1)}
  <2>1. \A i, j \in Int : Node(l, s, i) # Node(m, u, j)
    BY RingsApart
  <2>2. p \in Int /\ p - 1 \in Int /\ p + 1 \in Int
    BY LenProperties
  <2> HIDE DEF x
  <2> QED BY <1>1, <2>1, <2>2
<1>5. Len(u) \in Nat
  BY LenProperties
<1> HIDE DEF t, x
<1>6. Linked(t, m, u)
  <2> SUFFICES ASSUME NEW i \in 0 .. Len(u)
               PROVE  /\ t.pxNext[Node(m, u, i)] = Node(m, u, i + 1)
                      /\ t.pxPrevious[Node(m, u, i + 1)] = Node(m, u, i)
    BY DEF Linked
  <2>1. i \in Int /\ i + 1 \in Int
    BY <1>5
  <2> QED BY <1>2, <1>3, <1>4, <2>1
<1> QED BY <1>2, <1>6 DEF Holds, t, x

(* A search along the nodes a .. n of a ring, which are D, for one of      *)
(* stops: the n-th is one.                                                 *)
Search(next, D, stops, f) == f = [x \in D |-> IF x \in stops THEN x ELSE f[next[x]]]

Path(next, D, node, a, n) ==
  /\ D = {node[i] : i \in a .. n}
  /\ \A i, j \in a .. n : node[i] = node[j] => i = j
  /\ \A i \in a .. n - 1 : next[node[i]] = node[i + 1]

(* The first stop from number i on.                                        *)
FirstStop(stops, node, i, n) == Min({j \in i .. n : node[j] \in stops})

LEMMA FirstStopIs ==
  ASSUME NEW stops, NEW node, NEW n \in Nat, NEW i \in 0 .. n, node[n] \in stops
  PROVE  /\ FirstStop(stops, node, i, n) \in i .. n
         /\ node[FirstStop(stops, node, i, n)] \in stops
         /\ \A j \in i .. n : node[j] \in stops => FirstStop(stops, node, i, n) <= j
<1> DEFINE I == {j \in i .. n : node[j] \in stops}
<1>1. n \in I /\ I \in SUBSET Nat
  OBVIOUS
<1>2. Min(I) \in I /\ \A j \in I : Min(I) <= j
  BY <1>1, Smallest
<1> QED BY <1>2 DEF FirstStop

LEMMA SearchExists ==
  ASSUME NEW next, NEW D, NEW stops, NEW node, NEW a \in Nat, NEW n \in Nat, a <= n,
         Path(next, D, node, a, n), node[n] \in stops
  PROVE  \E f : Search(next, D, stops, f)
<1> DEFINE number(x) == CHOOSE i \in a .. n : node[i] = x
           first(i) == FirstStop(stops, node, i, n)
           f == [x \in D |-> node[first(number(x))]]
<1>1. \A x \in D : number(x) \in a .. n /\ node[number(x)] = x
  BY DEF Path
<1>2. \A i \in a .. n : number(node[i]) = i /\ node[i] \in D
  BY <1>1 DEF Path
<1>3. \A i \in a .. n : /\ first(i) \in i .. n /\ node[first(i)] \in stops
                        /\ \A j \in i .. n : node[j] \in stops => first(i) <= j
  <2> SUFFICES ASSUME NEW i \in a .. n
               PROVE  /\ first(i) \in i .. n /\ node[first(i)] \in stops
                      /\ \A j \in i .. n : node[j] \in stops => first(i) <= j
    OBVIOUS
  <2>1. i \in 0 .. n
    OBVIOUS
  <2> QED BY <2>1, FirstStopIs
<1> HIDE DEF number, first
<1>4. ASSUME NEW x \in D PROVE f[x] = IF x \in stops THEN x ELSE f[next[x]]
  <2>1. PICK i \in a .. n : i = number(x) /\ node[i] = x
    BY <1>1
  <2>2. f[x] = node[first(i)]
    BY <2>1
  <2>3. CASE x \in stops
    <3>1. first(i) <= i
      BY <1>3, <2>1, <2>3
    <3>2. first(i) \in i .. n
      BY <1>3
    <3>3. first(i) = i
      BY <3>1, <3>2
    <3> QED BY <2>1, <2>2, <2>3, <3>3
  <2>4. CASE x \notin stops
    <3>1. i # n
      BY <2>1, <2>4
    <3>2. i + 1 \in a .. n /\ i \in a .. n - 1
      BY <3>1
    <3>3. next[x] = node[i + 1]
      BY <2>1, <3>2 DEF Path
    <3>4. f[next[x]] = node[first(i + 1)]
      BY <1>2, <3>2, <3>3
    <3>5. first(i) # i
      BY <1>3, <2>1, <2>4
    <3>6. first(i) \in i .. n /\ first(i + 1) \in i + 1 .. n
      BY <1>3, <3>2
    <3>7. first(i) \in i + 1 .. n /\ first(i + 1) \in i .. n
      BY <3>5, <3>6
    <3>8. first(i) <= first(i + 1)
      BY <1>3, <3>2, <3>7
    <3>9. first(i + 1) <= first(i)
      BY <1>3, <3>2, <3>7
    <3>10. first(i) = first(i + 1)
      BY <3>6, <3>8, <3>9
    <3> QED BY <2>2, <2>4, <3>4, <3>10
  <2> QED BY <2>3, <2>4
<1>5. Search(next, D, stops, f)
  BY <1>4 DEF Search
<1> QED BY <1>5

FirstFrom(stops, node, a, p) ==
  node[p] \in stops /\ \A j \in a .. p - 1 : node[j] \notin stops

(* Any such search ends at the first stop.                                 *)
LEMMA SearchEnds ==
  ASSUME NEW next, NEW D, NEW stops, NEW node, NEW a \in Nat, NEW n \in Nat, a <= n,
         Path(next, D, node, a, n), node[n] \in stops,
         NEW f, Search(next, D, stops, f)
  PROVE  \E p \in a .. n : f[node[a]] = node[p] /\ FirstFrom(stops, node, a, p)
<1> DEFINE p == FirstStop(stops, node, a, n)
<1>1. p \in a .. n /\ node[p] \in stops /\ \A j \in a .. n : node[j] \in stops => p <= j
  BY FirstStopIs
<1> HIDE DEF p
<1>2. \A i \in a .. n : node[i] \in D
  BY DEF Path
<1>3. \A j \in a .. p - 1 : j \in a .. n /\ node[j] \notin stops
  BY <1>1
<1>4. ASSUME NEW k \in Nat, k <= p - a, f[node[p - k]] # node[p] PROVE FALSE
  <2> DEFINE I == {j \in 0 .. p - a : f[node[p - j]] # node[p]}
  <2>1. k \in I /\ I \in SUBSET Nat
    BY <1>1, <1>4
  <2>2. PICK q \in I : \A j \in I : q <= j
    BY <2>1, Smallest
  <2>3. CASE q = 0
    <3>1. f[node[p]] = node[p]
      BY <1>1, <1>2 DEF Search
    <3> QED BY <1>1, <2>2, <2>3, <3>1
  <2>4. CASE q # 0
    <3>1. q \in 1 .. p - a /\ q - 1 \in 0 .. p - a /\ f[node[p - q]] # node[p]
      BY <1>1, <2>2, <2>4
    <3>2. f[node[p - (q - 1)]] = node[p]
      BY <2>2, <3>1
    <3>3. p - q \in a .. p - 1 /\ p - q \in a .. n - 1 /\ p - (q - 1) = (p - q) + 1 /\ p - q \in a .. n
      BY <1>1, <3>1
    <3>4. next[node[p - q]] = node[(p - q) + 1]
      BY <3>3 DEF Path
    <3>5. f[node[p - q]] = f[next[node[p - q]]]
      BY <1>2, <1>3, <3>3 DEF Search
    <3> QED BY <3>1, <3>2, <3>3, <3>4, <3>5
  <2> QED BY <2>3, <2>4
<1>5. p - a \in Nat /\ p - a <= p - a /\ p - (p - a) = a
  BY <1>1
<1>6. f[node[a]] = node[p]
  BY <1>4, <1>5
<1> QED BY <1>1, <1>3, <1>6 DEF FirstFrom

(* The ring as such a path, from number a on.                              *)
LEMMA RingPath ==
  ASSUME NEW markers, NEW r, IsMemory(r, markers), NEW l \in markers,
         NEW S, NEW s \in Seq(S), Holds(r, l, s), NEW node,
         \A i \in 0 .. Len(s) : node[i] = Node(l, s, i)
  PROVE  /\ Len(s) \in Nat
         /\ Path(r.pxNext, {l} \cup ItemsOf(r, l), node, 0, Len(s))
         /\ Path(r.pxNext, ItemsOf(r, l), node, 1, Len(s))
<1>1. /\ l \notin ToSet(s)
      /\ \A i \in 0 .. Len(s) : r.pxNext[Node(l, s, i)] = Node(l, s, i + 1)
  BY RingNodes
<1>2. Len(s) \in Nat /\ \A i, j \in 0 .. Len(s) : Node(l, s, i) = Node(l, s, j) => i = j
  BY <1>1, NodesDiffer DEF Holds
<1>3. Node(l, s, 0) = l /\ \A i \in 1 .. Len(s) : Node(l, s, i) = s[i]
  BY NodesAre
<1>4. ItemsOf(r, l) = {node[i] : i \in 1 .. Len(s)}
  <2>1. ToSet(s) = {s[i] : i \in 1 .. Len(s)}
    BY LenProperties DEF ToSet
  <2>2. \A i \in 1 .. Len(s) : node[i] = s[i]
    BY <1>2, <1>3
  <2>3. {s[i] : i \in 1 .. Len(s)} = {node[i] : i \in 1 .. Len(s)}
    BY <2>2
  <2> QED BY <2>1, <2>3 DEF Holds
<1>5. {l} \cup ItemsOf(r, l) = {node[i] : i \in 0 .. Len(s)}
  <2>1. node[0] = l
    BY <1>2, <1>3
  <2>2. \A i \in 0 .. Len(s) : i = 0 \/ i \in 1 .. Len(s)
    BY <1>2
  <2>3. 0 \in 0 .. Len(s) /\ \A i \in 1 .. Len(s) : i \in 0 .. Len(s)
    BY <1>2
  <2> QED BY <1>4, <2>1, <2>2, <2>3
<1>6. \A i \in 0 .. Len(s) - 1 : r.pxNext[node[i]] = node[i + 1]
  <2> SUFFICES ASSUME NEW i \in 0 .. Len(s) - 1 PROVE r.pxNext[node[i]] = node[i + 1]
    OBVIOUS
  <2>1. i \in 0 .. Len(s) /\ i + 1 \in 0 .. Len(s)
    BY <1>2
  <2> QED BY <1>1, <2>1
<1>7. \A i, j \in 0 .. Len(s) : node[i] = node[j] => i = j
  BY <1>2
<1>8. /\ \A i, j \in 1 .. Len(s) : node[i] = node[j] => i = j
      /\ \A i \in 1 .. Len(s) - 1 : r.pxNext[node[i]] = node[i + 1]
  <2>1. \A i \in 1 .. Len(s) : i \in 0 .. Len(s)
    BY <1>2
  <2>2. \A i \in 1 .. Len(s) - 1 : i \in 0 .. Len(s) - 1
    BY <1>2
  <2> QED BY <1>6, <1>7, <2>1, <2>2
<1> QED BY <1>2, <1>4, <1>5, <1>6, <1>7, <1>8 DEF Path

(* The loop of vListInsert stops before the first item that does not come  *)
(* before the new one.                                                     *)
LEMMA PositionInRing ==
  ASSUME NEW markers, NEW r, IsMemory(r, markers), NEW l \in markers,
         NEW S, NEW s \in Seq(S), Holds(r, l, s), NEW before, l \notin before
  PROVE  \E p \in 0 .. Len(s) :
           /\ PositionIn(r, l, before) = Node(l, s, p)
           /\ Node(l, s, p + 1) \notin before
           /\ \A k \in 1 .. p : s[k] \in before
<1> DEFINE D == {l} \cup ItemsOf(r, l)
           stops == {n \in D : r.pxNext[n] \notin before}
           loop == CHOOSE f : f = [n \in D |-> IF r.pxNext[n] \in before
                                               THEN f[r.pxNext[n]] ELSE n]
<1>1. PICK node : node = [i \in 0 .. Len(s) |-> Node(l, s, i)]
  OBVIOUS
<1>2. Len(s) \in Nat /\ Path(r.pxNext, D, node, 0, Len(s))
  BY <1>1, RingPath, SMTT(30)
<1>3. \A i \in 0 .. Len(s) : node[i] = Node(l, s, i) /\ r.pxNext[node[i]] = Node(l, s, i + 1) /\ node[i] \in D
  BY <1>1, <1>2, RingNodes DEF Path
<1>4. node[Len(s)] \in stops
  <2>1. Node(l, s, Len(s) + 1) = l
    BY NodesAre
  <2> QED BY <1>2, <1>3, <2>1
<1>5. \A f : f = [n \in D |-> IF r.pxNext[n] \in before THEN f[r.pxNext[n]] ELSE n]
               <=> Search(r.pxNext, D, stops, f)
  <2> SUFFICES ASSUME NEW f
               PROVE  [n \in D |-> IF r.pxNext[n] \in before THEN f[r.pxNext[n]] ELSE n]
                        = [n \in D |-> IF n \in stops THEN n ELSE f[r.pxNext[n]]]
    BY DEF Search
  <2> QED OBVIOUS
<1> HIDE DEF stops, D
<1>6. \E f : Search(r.pxNext, D, stops, f)
  <2>1. 0 \in Nat /\ 0 <= Len(s)
    BY <1>2
  <2> QED BY <1>2, <1>4, <2>1, SearchExists
<1>7. Search(r.pxNext, D, stops, loop)
  BY <1>5, <1>6
<1>8. PositionIn(r, l, before) = loop[l]
  BY DEF PositionIn, D
<1> HIDE DEF loop
<1>9. PICK p \in 0 .. Len(s) : loop[node[0]] = node[p] /\ FirstFrom(stops, node, 0, p)
  <2>1. 0 \in Nat /\ 0 <= Len(s)
    BY <1>2
  <2> QED BY <1>2, <1>4, <1>7, <2>1, SearchEnds
<1>10. PositionIn(r, l, before) = Node(l, s, p)
  <2>1. node[0] = l
    BY <1>2, <1>3, NodesAre
  <2> QED BY <1>3, <1>8, <1>9, <2>1
<1>11. Node(l, s, p + 1) \notin before
  BY <1>3, <1>9 DEF stops, FirstFrom
<1>12. ASSUME NEW k \in 1 .. p PROVE s[k] \in before
  <2>1. k - 1 \in 0 .. p - 1 /\ k - 1 \in 0 .. Len(s) /\ (k - 1) + 1 = k /\ k \in 1 .. Len(s)
    BY <1>2
  <2>2. node[k - 1] \notin stops /\ node[k - 1] \in D /\ r.pxNext[node[k - 1]] = Node(l, s, (k - 1) + 1)
    BY <1>3, <1>9, <2>1 DEF FirstFrom
  <2>3. Node(l, s, k) = s[k]
    BY <2>1, NodesAre
  <2> QED BY <2>1, <2>2, <2>3 DEF stops
<1> QED BY <1>10, <1>11, <1>12

(* The loop of vEventGenericReceive ends at the first match, or at the     *)
(* last item.                                                              *)
SearchFor(r, l, matches) ==
  CHOOSE f : f = [x \in ItemsOf(r, l) |->
                    IF x = r.pxPrevious[l] \/ x \in matches THEN x ELSE f[r.pxNext[x]]]

LEMMA FoundInRing ==
  ASSUME NEW markers, NEW r, IsMemory(r, markers), NEW l \in markers,
         NEW S, NEW s \in Seq(S), Holds(r, l, s), Len(s) # 0, NEW matches
  PROVE  \E p \in 1 .. Len(s) :
           /\ SearchFor(r, l, matches)[r.pxNext[l]] = s[p]
           /\ (p = Len(s) \/ s[p] \in matches)
           /\ \A j \in 1 .. p - 1 : s[j] \notin matches
<1> DEFINE D == ItemsOf(r, l)
           flag == SearchFor(r, l, matches)
           stops == {x \in D : x = r.pxPrevious[l] \/ x \in matches}
<1>1. PICK node : node = [i \in 0 .. Len(s) |-> Node(l, s, i)]
  OBVIOUS
<1>2. Len(s) \in Nat /\ Path(r.pxNext, D, node, 1, Len(s))
  <2>1. \A i \in 0 .. Len(s) : node[i] = Node(l, s, i)
    BY <1>1
  <2> HIDE DEF D
  <2>2. Len(s) \in Nat /\ Path(r.pxNext, ItemsOf(r, l), node, 1, Len(s))
    BY <2>1, RingPath
  <2> QED BY <2>2 DEF D
<1>3. /\ \A i \in 1 .. Len(s) : node[i] = s[i] /\ s[i] \in D
      /\ Node(l, s, 0) = l /\ Node(l, s, Len(s) + 1) = l
  <2>1. \A i \in 1 .. Len(s) : node[i] = Node(l, s, i) /\ node[i] \in D
    BY <1>1, <1>2 DEF Path
  <2>2. Node(l, s, 0) = l /\ Node(l, s, Len(s) + 1) = l
    BY NodesAre
  <2>3. \A i \in 1 .. Len(s) : Node(l, s, i) = s[i]
    BY NodesAre
  <2> QED BY <2>1, <2>2, <2>3
<1>4. r.pxNext[l] = Node(l, s, 0 + 1) /\ r.pxPrevious[l] = Node(l, s, Len(s))
  <2>1. 0 \in 0 .. Len(s) /\ Len(s) \in 0 .. Len(s)
    BY <1>2
  <2> QED BY <1>3, <2>1, RingNodes
<1>5. r.pxNext[l] = s[1] /\ r.pxPrevious[l] = s[Len(s)]
  <2>1. 1 \in 1 .. Len(s) /\ Len(s) \in 1 .. Len(s) /\ 0 + 1 = 1
    BY <1>2
  <2>2. Node(l, s, 1) = s[1] /\ Node(l, s, Len(s)) = s[Len(s)]
    BY <2>1, NodesAre, ZenonT(30)
  <2> QED BY <1>4, <2>1, <2>2
<1>6. node[Len(s)] \in stops
  BY <1>2, <1>3, <1>5
<1>7. \A f : f = [x \in D |-> IF x = r.pxPrevious[l] \/ x \in matches THEN x ELSE f[r.pxNext[x]]]
               <=> Search(r.pxNext, D, stops, f)
  <2> SUFFICES ASSUME NEW f
               PROVE  [x \in D |-> IF x = r.pxPrevious[l] \/ x \in matches THEN x ELSE f[r.pxNext[x]]]
                        = [x \in D |-> IF x \in stops THEN x ELSE f[r.pxNext[x]]]
    BY DEF Search
  <2> QED OBVIOUS
<1> HIDE DEF stops, D
<1>8. 1 \in Nat /\ 1 <= Len(s)
  BY <1>2
<1>9. \E f : Search(r.pxNext, D, stops, f)
  BY <1>2, <1>6, <1>8, SearchExists
<1>10. Search(r.pxNext, D, stops, flag)
  BY <1>7, <1>9 DEF D, SearchFor
<1> HIDE DEF flag
<1>11. PICK p \in 1 .. Len(s) : flag[node[1]] = node[p] /\ FirstFrom(stops, node, 1, p)
  BY <1>2, <1>6, <1>8, <1>10, SearchEnds
<1>12. flag[r.pxNext[l]] = s[p]
  BY <1>2, <1>3, <1>5, <1>11
<1>13. p = Len(s) \/ s[p] \in matches
  <2>1. s[p] \in stops
    BY <1>3, <1>11 DEF FirstFrom
  <2>2. s[p] = s[Len(s)] => p = Len(s)
    BY <1>2, LenProperties DEF Holds, IsInjective
  <2> QED BY <1>5, <2>1, <2>2 DEF stops
<1>14. ASSUME NEW j \in 1 .. p - 1 PROVE s[j] \notin matches
  <2>1. j \in 1 .. Len(s) /\ node[j] \notin stops
    BY <1>2, <1>11 DEF FirstFrom
  <2> QED BY <1>3, <2>1 DEF stops
<1> QED BY <1>12, <1>13, <1>14 DEF flag

LEMMA SizeOfSeq ==
  ASSUME NEW S, NEW s \in Seq(S), IsInjective(s)
  PROVE  IsFiniteSet(ToSet(s)) /\ Cardinality(ToSet(s)) = Len(s) /\ Len(s) \in Nat
<1>1. Len(s) \in Nat /\ DOMAIN s = 1 .. Len(s) /\ s = [i \in 1 .. Len(s) |-> s[i]]
  BY LenProperties
<1>2. \A i \in 1 .. Len(s) : s[i] \in ToSet(s)
  BY <1>1 DEF ToSet
<1>3. \A y \in ToSet(s) : \E i \in 1 .. Len(s) : s[i] = y
  BY <1>1 DEF ToSet
<1>4. s \in Bijection(1 .. Len(s), ToSet(s))
  BY <1>1, <1>2, <1>3 DEF Bijection, Injection, Surjection, IsInjective
<1>5. ExistsBijection(1 .. Len(s), ToSet(s))
  BY <1>4 DEF ExistsBijection
<1>6. IsFiniteSet(ToSet(s)) /\ Cardinality(ToSet(s)) = Len(s)
  BY <1>1, <1>5, FS_NatBijection, FS_CountingElements
<1> QED BY <1>1, <1>6

Markers == {EventEnd, ReadyEnd}

(* Both lists in the memory r.                                             *)
RingsAre(r, list, ready) ==
  /\ IsMemory(r, Markers)
  /\ Holds(r, EventEnd, list)
  /\ Holds(r, ReadyEnd, ready)
  /\ DOMAIN r.pvContainer = ToSet(list) \cup ToSet(ready)
  /\ r.pxIndex[EventEnd] = EndFlag
  /\ r.pxIndex[ReadyEnd] = r.pxPrevious[ReadyEnd]

RingInv == ListInv /\ (~isFirst => RingsAre(ring, xEventList, xReadyList))

LEMMA MarkersApart ==
  /\ EventEnd \in Markers /\ ReadyEnd \in Markers /\ EventEnd # ReadyEnd
  /\ \A e \in Item : e \notin Markers
BY RingAssumption DEF Markers, Item

(* Only pxIndex of one list is set.                                        *)
LEMMA SetIndex ==
  ASSUME NEW markers, NEW r, IsMemory(r, markers), NEW l \in markers, NEW x
  PROVE  LET t == [r EXCEPT !.pxIndex[l] = x]
         IN  /\ IsMemory(t, markers)
             /\ t.pxIndex = [r.pxIndex EXCEPT ![l] = x]
             /\ t.pxNext = r.pxNext /\ t.pxPrevious = r.pxPrevious
             /\ t.pvContainer = r.pvContainer /\ t.uxNumberOfItems = r.uxNumberOfItems
BY DEF IsMemory, Fields

LEMMA SetIndexHolds ==
  ASSUME NEW markers, NEW r, IsMemory(r, markers), NEW l \in markers, NEW x,
         NEW m, NEW s, Holds(r, m, s)
  PROVE  Holds([r EXCEPT !.pxIndex[l] = x], m, s)
<1>1. PICK t : t = [r EXCEPT !.pxIndex[l] = x]
  OBVIOUS
<1>2. /\ t.pxNext = r.pxNext /\ t.pxPrevious = r.pxPrevious
      /\ t.pvContainer = r.pvContainer /\ t.uxNumberOfItems = r.uxNumberOfItems
  BY <1>1, SetIndex
<1>3. Holds(t, m, s)
  BY <1>2 DEF Holds, Linked, ItemsOf
<1> QED BY <1>1, <1>3

(* The last item of a ring is before its marker, the first behind it.      *)
LEMMA RingEnds ==
  ASSUME NEW markers, NEW r, IsMemory(r, markers), NEW l \in markers,
         NEW S, NEW s \in Seq(S), Holds(r, l, s)
  PROVE  /\ r.pxNext[l] = Node(l, s, 1)
         /\ r.pxPrevious[l] = Node(l, s, Len(s))
<1>1. Len(s) \in Nat
  BY LenProperties
<1>2. Node(l, s, 0) = l /\ Node(l, s, Len(s) + 1) = l
  BY NodesAre
<1>3. 0 \in 0 .. Len(s) /\ Len(s) \in 0 .. Len(s) /\ 0 + 1 = 1
  BY <1>1
<1>4. r.pxNext[Node(l, s, 0)] = Node(l, s, 0 + 1)
  BY <1>3, RingNodes
<1>5. r.pxPrevious[Node(l, s, Len(s) + 1)] = Node(l, s, Len(s))
  BY <1>3, RingNodes
<1> QED BY <1>2, <1>3, <1>4, <1>5

(* vListInsertEnd, when the index is at the last item.                     *)
LEMMA InsertEndInRing ==
  ASSUME NEW markers, NEW r, IsMemory(r, markers), NEW l \in markers, NEW m \in markers, l # m,
         NEW S, NEW s \in Seq(S), Holds(r, l, s), NEW u \in Seq(S), Holds(r, m, u),
         NEW x \in S, x \notin DOMAIN r.pxNext, r.pxIndex[l] = Node(l, s, Len(s))
  PROVE  LET t == ListInsertEnd(r, l, x)
         IN  /\ IsMemory(t, markers)
             /\ Holds(t, l, Append(s, x)) /\ Holds(t, m, u)
             /\ DOMAIN t.pvContainer = DOMAIN r.pvContainer \cup {x}
             /\ t.pxIndex[l] = x /\ t.pxIndex[m] = r.pxIndex[m]
             /\ t.pxPrevious[l] = x /\ t.pxPrevious[m] = r.pxPrevious[m]
<1> DEFINE n == Node(l, s, Len(s))
           v == InsertAfter(r, l, n, x)
           t == [v EXCEPT !.pxIndex[l] = x]
<1>1. Len(s) \in 0 .. Len(s) /\ Len(s) \in Nat
  BY LenProperties
<1>2. Holds(v, l, InsertAt(s, Len(s) + 1, x)) /\ Holds(v, m, u)
  BY <1>1, InsertInRing, InsertOtherRing
<1>3. n \in DOMAIN r.pxNext /\ r.pxNext[n] \in DOMAIN r.pxNext
  <2>1. r.pxNext[Node(l, s, Len(s))] = Node(l, s, Len(s) + 1)
    BY <1>1, RingNodes
  <2>2. \A i \in Int : Node(l, s, i) \in DOMAIN r.pxNext
    BY RingNodes
  <2> QED BY <1>1, <2>1, <2>2
<1>4. IsMemory(v, markers) /\ v.pxIndex = r.pxIndex /\ DOMAIN v.pvContainer = DOMAIN r.pvContainer \cup {x}
  <2> HIDE DEF n
  <2> QED BY <1>3, InsertLinks
<1>5. ListInsertEnd(r, l, x) = t
  BY DEF ListInsertEnd
<1>6. InsertAt(s, Len(s) + 1, x) = Append(s, x)
  BY AppendIsInsert
<1> HIDE DEF v
<1>7. /\ IsMemory(t, markers) /\ t.pxIndex[l] = x /\ t.pxIndex[m] = r.pxIndex[m]
      /\ t.pvContainer = v.pvContainer
  <2>1. /\ IsMemory(t, markers) /\ t.pxIndex = [v.pxIndex EXCEPT ![l] = x]
        /\ t.pvContainer = v.pvContainer
    BY <1>4, SetIndex
  <2> HIDE DEF t
  <2>2. DOMAIN v.pxIndex = markers
    BY <1>4 DEF IsMemory
  <2> QED BY <1>4, <2>1, <2>2
<1>8. Holds(t, l, Append(s, x)) /\ Holds(t, m, u)
  BY <1>2, <1>4, <1>6, SetIndexHolds
<1> HIDE DEF t
<1>9. t.pxPrevious[m] = r.pxPrevious[m]
  BY <1>7, <1>8, RingEnds
<1>10. t.pxPrevious[l] = x
  <2>1. /\ Append(s, x) \in Seq(S) /\ Len(Append(s, x)) = Len(s) + 1
        /\ Append(s, x)[Len(s) + 1] = x
    BY AppendProperties
  <2>2. t.pxPrevious[l] = Node(l, Append(s, x), Len(s) + 1)
    <3>1. PICK q : q = Append(s, x)
      OBVIOUS
    <3>2. q \in Seq(S) /\ Len(q) = Len(s) + 1 /\ Holds(t, l, q)
      BY <1>8, <2>1, <3>1
    <3>3. t.pxPrevious[l] = Node(l, q, Len(q))
      BY <1>7, <3>2, RingEnds
    <3> QED BY <3>1, <3>2, <3>3
  <2>3. Len(s) + 1 \in 1 .. Len(Append(s, x))
    BY <1>1, <2>1
  <2> QED BY <2>1, <2>2, <2>3 DEF Node
<1> QED BY <1>4, <1>5, <1>7, <1>8, <1>9, <1>10

(* The first call of vEventGenericCreate.                                  *)
LEMMA FirstRings ==
  RingsAre(ListInsertEnd(Initialised(Markers), EventEnd, EndFlag), <<EndFlag>>, <<>>)
<1>1. PICK r : r = Initialised(Markers)
  OBVIOUS
<1>2. PICK u : u = <<>> /\ u \in Seq(Item) /\ Len(u) = 0 /\ DOMAIN u = {}
  <2>1. <<>> \in Seq(Item) /\ Len(<<>>) = 0
    BY EmptySeq
  <2>2. DOMAIN <<>> = 1 .. Len(<<>>)
    BY <2>1, LenProperties
  <2>3. DOMAIN <<>> = {}
    BY <2>1, <2>2
  <2> QED BY <2>1, <2>3
<1>3. /\ DOMAIN r = Fields
      /\ r.pxNext = [l \in Markers |-> l] /\ r.pxPrevious = [l \in Markers |-> l]
      /\ r.pxIndex = [l \in Markers |-> l] /\ r.uxNumberOfItems = [l \in Markers |-> 0]
      /\ DOMAIN r.pvContainer = {}
  BY <1>1 DEF Initialised, Fields
<1>4. IsMemory(r, Markers)
  BY <1>3 DEF IsMemory
<1>5. ASSUME NEW l \in Markers PROVE Holds(r, l, u)
  <2>1. \A i \in Int : Node(l, u, i) = l
    BY <1>2 DEF Node
  <2>2. ToSet(u) = {} /\ IsInjective(u)
    BY <1>2 DEF ToSet, IsInjective
  <2>3. ItemsOf(r, l) = {}
    BY <1>3 DEF ItemsOf
  <2>4. Linked(r, l, u)
    BY <1>2, <1>3, <2>1 DEF Linked
  <2> QED BY <1>2, <1>3, <2>2, <2>3, <2>4 DEF Holds
<1>6. EndFlag \in Item /\ EndFlag \notin DOMAIN r.pxNext /\ EventEnd \in Markers /\ ReadyEnd \in Markers
  BY <1>3, MarkersApart DEF Item
<1>7. r.pxIndex[EventEnd] = Node(EventEnd, u, Len(u)) /\ r.pxIndex[ReadyEnd] = ReadyEnd
      /\ r.pxPrevious[ReadyEnd] = ReadyEnd
  BY <1>2, <1>3, <1>6 DEF Node
<1>8. PICK t : t = ListInsertEnd(r, EventEnd, EndFlag)
  OBVIOUS
<1>9. /\ IsMemory(t, Markers)
      /\ Holds(t, EventEnd, Append(u, EndFlag)) /\ Holds(t, ReadyEnd, u)
      /\ DOMAIN t.pvContainer = DOMAIN r.pvContainer \cup {EndFlag}
      /\ t.pxIndex[EventEnd] = EndFlag /\ t.pxIndex[ReadyEnd] = r.pxIndex[ReadyEnd]
      /\ t.pxPrevious[ReadyEnd] = r.pxPrevious[ReadyEnd]
  <2>1. Holds(r, EventEnd, u) /\ Holds(r, ReadyEnd, u) /\ u \in Seq(Item)
    BY <1>2, <1>5, <1>6
  <2>2. EventEnd # ReadyEnd /\ r.pxIndex[EventEnd] = Node(EventEnd, u, Len(u))
    BY <1>7, MarkersApart
  <2> QED BY <1>4, <1>6, <1>8, <2>1, <2>2, InsertEndInRing
<1>10. Append(u, EndFlag) = <<EndFlag>>
  BY <1>2
<1>11. ToSet(<<EndFlag>>) = {EndFlag} /\ ToSet(u) = {}
  BY <1>2 DEF ToSet
<1>12. RingsAre(t, <<EndFlag>>, u)
  BY <1>3, <1>7, <1>9, <1>10, <1>11 DEF RingsAre
<1> QED BY <1>1, <1>2, <1>8, <1>12

(* prvEventListGenericInsert goes to the place it should.                  *)
LEMMA InsertRings ==
  ASSUME DueBeforeEnd, NEW list \in Seq(Item), list # <<>>, Last(list) = EndFlag,
         NEW ready \in Seq(Item), NEW r, RingsAre(r, list, ready),
         NEW e \in Event, e \notin ToSet(list) \cup ToSet(ready)
  PROVE  RingsAre(InsertSorted(r, e), Insert(list, e), ready)
<1> DEFINE before == {f \in DOMAIN r.pvContainer : Before(f, e)}
<1>1. /\ IsMemory(r, Markers) /\ Holds(r, EventEnd, list) /\ Holds(r, ReadyEnd, ready)
      /\ DOMAIN r.pvContainer = ToSet(list) \cup ToSet(ready)
  BY DEF RingsAre
<1>2. EventEnd \notin before /\ EventEnd \in Markers /\ ReadyEnd \in Markers /\ EventEnd # ReadyEnd
  BY <1>1, MarkersApart DEF IsMemory
<1>3. e.xTime # MaxDelay /\ e \in Item /\ e \notin Markers
  BY BeforeEndFlag, MarkersApart DEF Item
<1>4. e \notin DOMAIN r.pxNext
  BY <1>1, <1>3 DEF IsMemory
<1>5. PICK q \in 1 .. Len(list) : /\ Insert(list, e) = InsertAt(list, q, e)
                                  /\ ~Before(list[q], e)
                                  /\ \A k \in 1 .. q - 1 : Before(list[k], e)
  BY InsertPosition
<1>6. /\ \A k \in 1 .. Len(list) : list[k] \in DOMAIN r.pvContainer /\ Node(EventEnd, list, k) = list[k]
      /\ Len(list) \in Nat
  BY <1>1, LenProperties, NodesAre
<1>7. PICK p \in 0 .. Len(list) :
        /\ PositionIn(r, EventEnd, before) = Node(EventEnd, list, p)
        /\ Node(EventEnd, list, p + 1) \notin before
        /\ \A k \in 1 .. p : list[k] \in before
  <2> HIDE DEF before
  <2> QED BY <1>1, <1>2, PositionInRing
<1>8. p + 1 = q
  <2>1. p \in Nat /\ q \in Nat
    BY <1>6
  <2>2. ~(q <= p)
    BY <1>5, <1>7, <2>1
  <2>3. ~(p + 1 < q)
    <3> SUFFICES ASSUME p + 1 < q PROVE FALSE
      OBVIOUS
    <3>1. p + 1 \in 1 .. q - 1 /\ p + 1 \in 1 .. Len(list)
      BY <1>6, <2>1
    <3> QED BY <1>5, <1>6, <1>7, <3>1
  <2> QED BY <2>1, <2>2, <2>3
<1>9. PICK n : n = Node(EventEnd, list, p)
  OBVIOUS
<1>10. PICK t : t = InsertAfter(r, EventEnd, n, e)
  OBVIOUS
<1>11. InsertSorted(r, e) = t
  BY <1>3, <1>7, <1>9, <1>10 DEF InsertSorted
<1>12. Holds(t, EventEnd, InsertAt(list, p + 1, e))
  BY <1>1, <1>2, <1>3, <1>4, <1>9, <1>10, InsertInRing
<1>13. Holds(t, ReadyEnd, ready)
  BY <1>1, <1>2, <1>4, <1>9, <1>10, InsertOtherRing
<1>14. n \in DOMAIN r.pxNext /\ r.pxNext[n] \in DOMAIN r.pxNext
  <2>1. \A i \in Int : Node(EventEnd, list, i) \in DOMAIN r.pxNext
    BY <1>1, <1>2, RingNodes
  <2>2. r.pxNext[Node(EventEnd, list, p)] = Node(EventEnd, list, p + 1)
    BY <1>1, <1>2, RingNodes
  <2> QED BY <1>6, <1>9, <2>1, <2>2
<1>15. /\ IsMemory(t, Markers) /\ t.pxIndex = r.pxIndex
       /\ DOMAIN t.pvContainer = DOMAIN r.pvContainer \cup {e}
  BY <1>1, <1>2, <1>4, <1>10, <1>14, InsertLinks
<1>16. ToSet(InsertAt(list, p + 1, e)) = ToSet(list) \cup {e}
  <2>1. q \in 1 .. Len(list) + 1
    BY <1>6
  <2>2. ToSet(InsertAt(list, q, e)) = ToSet(list) \cup {e}
    BY <1>3, <2>1, InsertAtSet
  <2> QED BY <1>8, <2>2
<1>17. t.pxPrevious[ReadyEnd] = r.pxPrevious[ReadyEnd]
  BY <1>1, <1>2, <1>13, <1>15, RingEnds
<1>18. RingsAre(t, InsertAt(list, p + 1, e), ready)
  BY <1>1, <1>12, <1>13, <1>15, <1>16, <1>17 DEF RingsAre
<1> QED BY <1>5, <1>8, <1>11, <1>18

(* The first event is moved to the end of the ready list.                  *)
LEMMA TransitRings ==
  ASSUME NEW list \in Seq(Item), list # <<>>, NEW ready \in Seq(Item),
         NEW r, RingsAre(r, list, ready), Head(list) # EndFlag
  PROVE  /\ HeadEntry(r, EventEnd) = Head(list)
         /\ RingsAre(ListInsertEnd(ListRemove(r, Head(list)), ReadyEnd, Head(list)),
                     Tail(list), Append(ready, Head(list)))
<1>1. PICK x : x = Head(list)
  OBVIOUS
<1>2. /\ IsMemory(r, Markers) /\ Holds(r, EventEnd, list) /\ Holds(r, ReadyEnd, ready)
      /\ DOMAIN r.pvContainer = ToSet(list) \cup ToSet(ready)
      /\ r.pxIndex[EventEnd] = EndFlag /\ r.pxIndex[ReadyEnd] = r.pxPrevious[ReadyEnd]
  BY DEF RingsAre
<1>3. EventEnd \in Markers /\ ReadyEnd \in Markers /\ EventEnd # ReadyEnd
  BY MarkersApart
<1>4. 1 \in 1 .. Len(list) /\ x = list[1] /\ Tail(list) = RemoveAt(list, 1)
  BY <1>1, TailIsRemove
<1>5. Tail(list) \in Seq(Item) /\ x \in Item /\ Len(ready) \in Nat
  BY <1>4, ElementOfSeq, LenProperties
<1>6. HeadEntry(r, EventEnd) = x
  <2>1. r.pxNext[EventEnd] = Node(EventEnd, list, 1)
    BY <1>2, <1>3, RingEnds
  <2>2. Node(EventEnd, list, 1) = list[1]
    BY <1>4 DEF Node
  <2> QED BY <1>4, <2>1, <2>2 DEF HeadEntry
<1>7. PICK t : t = ListRemove(r, x)
  OBVIOUS
<1>8. Holds(t, EventEnd, Tail(list)) /\ Holds(t, ReadyEnd, ready)
  BY <1>2, <1>3, <1>4, <1>7, RemoveFromRing, RemoveOtherRing
<1>9. /\ x \in ItemsOf(r, EventEnd)
      /\ r.pxNext[x] \in DOMAIN r.pxNext \ {x} /\ r.pxPrevious[x] \in DOMAIN r.pxNext \ {x}
  BY <1>2, <1>3, <1>4, Neighbours
<1>10. /\ IsMemory(t, Markers) /\ DOMAIN t.pvContainer = DOMAIN r.pvContainer \ {x}
       /\ t.pxIndex[EventEnd] = (IF r.pxIndex[EventEnd] = x THEN r.pxPrevious[x] ELSE r.pxIndex[EventEnd])
       /\ t.pxIndex[ReadyEnd] = r.pxIndex[ReadyEnd]
  BY <1>2, <1>3, <1>7, <1>9, RemoveLinks
<1>11. t.pxIndex[EventEnd] = EndFlag
  BY <1>1, <1>2, <1>10
<1>12. t.pxIndex[ReadyEnd] = Node(ReadyEnd, ready, Len(ready))
  BY <1>2, <1>3, <1>10, RingEnds
<1>13. x \notin DOMAIN t.pxNext
  BY <1>3, <1>5, <1>10, MarkersApart DEF IsMemory
<1>14. PICK v : v = ListInsertEnd(t, ReadyEnd, x)
  OBVIOUS
<1>15. /\ IsMemory(v, Markers)
       /\ Holds(v, ReadyEnd, Append(ready, x)) /\ Holds(v, EventEnd, Tail(list))
       /\ DOMAIN v.pvContainer = DOMAIN t.pvContainer \cup {x}
       /\ v.pxIndex[ReadyEnd] = x /\ v.pxIndex[EventEnd] = t.pxIndex[EventEnd]
       /\ v.pxPrevious[ReadyEnd] = x
  <2>1. PICK u : u = Tail(list)
    OBVIOUS
  <2>2. u \in Seq(Item) /\ Holds(t, EventEnd, u)
    BY <1>5, <1>8, <2>1
  <2>3. ReadyEnd # EventEnd
    BY <1>3
  <2>4. /\ IsMemory(v, Markers)
        /\ Holds(v, ReadyEnd, Append(ready, x)) /\ Holds(v, EventEnd, u)
        /\ DOMAIN v.pvContainer = DOMAIN t.pvContainer \cup {x}
        /\ v.pxIndex[ReadyEnd] = x /\ v.pxIndex[EventEnd] = t.pxIndex[EventEnd]
        /\ v.pxPrevious[ReadyEnd] = x
    BY <1>3, <1>5, <1>8, <1>10, <1>12, <1>13, <1>14, <2>2, <2>3, InsertEndInRing
  <2> QED BY <2>1, <2>4
<1>16. ToSet(Tail(list)) = ToSet(list) \ {x} /\ ToSet(Append(ready, x)) = ToSet(ready) \cup {x}
  <2>1. IsInjective(list)
    BY <1>2 DEF Holds
  <2> QED BY <1>1, <1>5, <2>1, TailSet, AppendSet
<1>17. x \in ToSet(list)
  BY <1>4, LenProperties DEF ToSet
<1>18. DOMAIN v.pvContainer = ToSet(Tail(list)) \cup ToSet(Append(ready, x))
  BY <1>2, <1>10, <1>15, <1>16, <1>17
<1>19. RingsAre(v, Tail(list), Append(ready, x))
  BY <1>11, <1>15, <1>18 DEF RingsAre
<1> QED BY <1>1, <1>6, <1>7, <1>14, <1>19

(* The event found is unlinked from the ready list.                        *)
LEMMA ReceiveRings ==
  ASSUME NEW list \in Seq(Item), NEW ready \in Seq(Item), NEW r, RingsAre(r, list, ready),
         NEW p \in 1 .. Len(ready)
  PROVE  RingsAre(ListRemove(r, ready[p]), list, RemoveAt(ready, p))
<1>1. PICK x : x = ready[p]
  OBVIOUS
<1>2. /\ IsMemory(r, Markers) /\ Holds(r, EventEnd, list) /\ Holds(r, ReadyEnd, ready)
      /\ DOMAIN r.pvContainer = ToSet(list) \cup ToSet(ready)
      /\ r.pxIndex[EventEnd] = EndFlag /\ r.pxIndex[ReadyEnd] = r.pxPrevious[ReadyEnd]
  BY DEF RingsAre
<1>3. EventEnd \in Markers /\ ReadyEnd \in Markers /\ EventEnd # ReadyEnd
  BY MarkersApart
<1>4. PICK u : u = RemoveAt(ready, p)
  OBVIOUS
<1>5. u \in Seq(Item) /\ Len(u) = Len(ready) - 1 /\ Len(ready) \in Nat /\ NodesWithout(ReadyEnd, ready, p, u)
  BY <1>4, RemoveNodes
<1>6. PICK t : t = ListRemove(r, x)
  OBVIOUS
<1>7. Holds(t, ReadyEnd, u) /\ Holds(t, EventEnd, list)
  BY <1>1, <1>2, <1>3, <1>4, <1>6, RemoveFromRing, RemoveOtherRing
<1>8. /\ x \in ItemsOf(r, ReadyEnd) /\ x = Node(ReadyEnd, ready, p)
      /\ r.pxNext[x] \in DOMAIN r.pxNext \ {x} /\ r.pxPrevious[x] \in DOMAIN r.pxNext \ {x}
      /\ r.pxPrevious[x] = Node(ReadyEnd, ready, p - 1)
  BY <1>1, <1>2, <1>3, Neighbours
<1>9. /\ IsMemory(t, Markers) /\ DOMAIN t.pvContainer = DOMAIN r.pvContainer \ {x}
      /\ t.pxIndex[ReadyEnd] = (IF r.pxIndex[ReadyEnd] = x THEN r.pxPrevious[x] ELSE r.pxIndex[ReadyEnd])
      /\ t.pxIndex[EventEnd] = r.pxIndex[EventEnd]
  BY <1>2, <1>3, <1>6, <1>8, RemoveLinks
<1>10. t.pxPrevious[ReadyEnd] = Node(ReadyEnd, u, Len(u))
  BY <1>3, <1>5, <1>7, <1>9, RingEnds, SMTT(30)
<1>11. r.pxIndex[ReadyEnd] = Node(ReadyEnd, ready, Len(ready))
  BY <1>2, <1>3, RingEnds
<1>12. t.pxIndex[ReadyEnd] = Node(ReadyEnd, u, Len(u))
  <2>1. CASE p = Len(ready)
    <3>1. Len(u) \in 0 .. p - 1 /\ Len(u) = p - 1
      BY <1>5, <2>1
    <3> QED BY <1>5, <1>8, <1>9, <1>11, <2>1, <3>1 DEF NodesWithout
  <2>2. CASE p # Len(ready)
    <3>1. Len(u) \in p .. Len(ready) /\ Len(u) + 1 = Len(ready)
      BY <1>5, <2>2
    <3>2. ReadyEnd \notin ToSet(ready)
      BY <1>2, <1>3, RingNodes
    <3>3. p \in 0 .. Len(ready) /\ Len(ready) \in 0 .. Len(ready)
      BY <1>5
    <3>4. Node(ReadyEnd, ready, Len(ready)) # Node(ReadyEnd, ready, p)
      BY <1>2, <2>2, <3>2, <3>3, NodesDiffer DEF Holds
    <3>5. Node(ReadyEnd, u, Len(u)) = Node(ReadyEnd, ready, Len(u) + 1)
      BY <1>5, <3>1 DEF NodesWithout
    <3> QED BY <1>8, <1>9, <1>11, <3>1, <3>4, <3>5
  <2> QED BY <2>1, <2>2
<1>13. ToSet(u) = ToSet(ready) \ {x}
  BY <1>1, <1>2, <1>4, RemoveAtSet DEF Holds
<1>14. x \notin ToSet(list)
  BY <1>2, <1>3, <1>8 DEF Holds, ItemsOf
<1>15. DOMAIN t.pvContainer = ToSet(list) \cup ToSet(u)
  BY <1>2, <1>9, <1>13, <1>14
<1>16. RingsAre(t, list, u)
  BY <1>2, <1>7, <1>9, <1>10, <1>12, <1>15 DEF RingsAre
<1> QED BY <1>1, <1>4, <1>6, <1>16

(* The number of items in the lists.                                       *)
LEMMA RingsSize ==
  ASSUME NEW list \in Seq(Item), NEW ready \in Seq(Item), NEW r, RingsAre(r, list, ready)
  PROVE  Cardinality(DOMAIN r.pvContainer) = Len(list) + Len(ready)
<1>1. /\ IsInjective(list) /\ IsInjective(ready)
      /\ DOMAIN r.pvContainer = ToSet(list) \cup ToSet(ready)
      /\ ToSet(list) \cap ToSet(ready) = {}
  BY MarkersApart DEF RingsAre, Holds, ItemsOf
<1>2. IsFiniteSet(ToSet(list)) /\ Cardinality(ToSet(list)) = Len(list) /\ Len(list) \in Nat
  BY <1>1, SizeOfSeq
<1>3. IsFiniteSet(ToSet(ready)) /\ Cardinality(ToSet(ready)) = Len(ready) /\ Len(ready) \in Nat
  BY <1>1, SizeOfSeq
<1>4. Cardinality(ToSet(list) \cap ToSet(ready)) = 0
  BY <1>1, FS_EmptySet
<1>5. /\ IsFiniteSet(ToSet(list) \cup ToSet(ready))
      /\ Cardinality(ToSet(list) \cup ToSet(ready))
           = Cardinality(ToSet(list)) + Cardinality(ToSet(ready)) - Cardinality(ToSet(list) \cap ToSet(ready))
  BY <1>2, <1>3, FS_Union
<1> QED BY <1>1, <1>2, <1>3, <1>4, <1>5

LEMMA RingCreateStep ==
  ASSUME DueBeforeEnd, RingInv, NEW d \in Relations, NEW last \in BOOLEAN,
         NEW nextPeriod \in Deadlines, NEW time \in DueTimes,
         CreateEvent(d[1], d[2], last, nextPeriod, time),
         RingCreate(d[1], d[2], last, nextPeriod, time)
  PROVE  RingsAre(ring', xEventList', xReadyList')
<1> DEFINE e == NewEvent(d[1], d[2], last, nextPeriod, time, Signed(serial))
<1>1. PICK list : list = IF isFirst THEN <<EndFlag>> ELSE xEventList
  OBVIOUS
<1>2. PICK r : r = IF isFirst THEN ListInsertEnd(Initialised({EventEnd, ReadyEnd}), EventEnd, EndFlag)
                               ELSE ring
  OBVIOUS
<1>3. e \in Event
  BY DEF RingInv, ListInv, TypeOK, NewEvent, Event, Flags
<1>4. xReadyList \in Seq(Item)
  BY DEF RingInv, ListInv, TypeOK, Item
<1>5. /\ list \in Seq(Item) /\ list # <<>> /\ Last(list) = EndFlag
      /\ RingsAre(r, list, xReadyList)
      /\ e \notin ToSet(list) \cup ToSet(xReadyList)
  <2>0. e \notin ToSet(xEventList) \cup ToSet(xReadyList) /\ e # EndFlag
    BY <1>3, EndFlagApart DEF CreateEvent, LevelIsFree, NewEvent
  <2> HIDE DEF e
  <2>1. CASE isFirst
    <3>1. list = <<EndFlag>> /\ EndFlag \in Item
      BY <1>1, <2>1 DEF Item
    <3>2. list \in Seq(Item) /\ list # <<>> /\ Last(list) = EndFlag /\ ToSet(list) = {EndFlag}
      BY <3>1 DEF Last, ToSet
    <3>3. xReadyList = <<>>
      BY <2>1 DEF RingInv, ListInv, Started
    <3>4. r = ListInsertEnd(Initialised(Markers), EventEnd, EndFlag)
      BY <1>2, <2>1 DEF Markers
    <3>5. RingsAre(r, list, xReadyList)
      BY <3>1, <3>3, <3>4, FirstRings
    <3> QED BY <2>0, <3>2, <3>5
  <2>2. CASE ~isFirst
    <3>1. list = xEventList /\ r = ring
      BY <1>1, <1>2, <2>2
    <3> QED BY <2>0, <2>2, <3>1 DEF RingInv, ListInv, TypeOK, Started, EndFlagLast, Item
  <2> QED BY <2>1, <2>2
<1>6. PICK used : used = Len(list) + Len(xReadyList) + Cardinality(received)
  OBVIOUS
<1>7. used = Cardinality(DOMAIN r.pvContainer) + Cardinality(received)
  BY <1>4, <1>5, <1>6, RingsSize
<1>8. /\ xEventList' = (IF used < HeapEvents THEN Insert(list, e) ELSE list)
      /\ xReadyList' = xReadyList
  BY <1>1, <1>6 DEF CreateEvent
<1>9. ring' = (IF used < HeapEvents THEN InsertSorted(r, e) ELSE r)
  BY <1>2, <1>7 DEF RingCreate
<1> HIDE DEF e
<1>10. CASE used < HeapEvents
  <2>1. RingsAre(InsertSorted(r, e), Insert(list, e), xReadyList)
    BY <1>3, <1>4, <1>5, InsertRings
  <2> QED BY <1>8, <1>9, <1>10, <2>1
<1>11. CASE ~(used < HeapEvents)
  BY <1>5, <1>8, <1>9, <1>11
<1> QED BY <1>10, <1>11

LEMMA RingTransitStep ==
  ASSUME RingInv, TransitEvent, RingTransit
  PROVE  RingsAre(ring', xEventList', xReadyList')
<1>1. /\ RingsAre(ring, xEventList, xReadyList) /\ ~isFirst
      /\ xEventList \in Seq(Item) /\ xEventList # <<>> /\ xReadyList \in Seq(Item)
  BY DEF RingInv, TransitEvent, ListInv, TypeOK, Started, Item
<1>2. ring.uxNumberOfItems[EventEnd] = Len(xEventList)
  BY <1>1 DEF RingsAre, Holds
<1>3. HeadEntry(ring, EventEnd) = Head(xEventList)
  <2>1. 1 \in 1 .. Len(xEventList) /\ Head(xEventList) = xEventList[1]
    BY <1>1, TailIsRemove
  <2>2. ring.pxNext[EventEnd] = Node(EventEnd, xEventList, 1)
    BY <1>1, MarkersApart, RingEnds DEF RingsAre
  <2> QED BY <2>1, <2>2 DEF Node, HeadEntry
<1>4. CASE Len(xEventList) # 1 /\ Head(xEventList).xTime <= now
  <2>1. Head(xEventList) # EndFlag
    BY <1>1, <1>4, HeadFacts DEF RingInv
  <2>2. /\ xEventList' = Tail(xEventList)
        /\ xReadyList' = Append(xReadyList, Head(xEventList))
    BY <1>4 DEF TransitEvent
  <2>3. ring' = ListInsertEnd(ListRemove(ring, Head(xEventList)), ReadyEnd, Head(xEventList))
    BY <1>2, <1>3, <1>4 DEF RingTransit
  <2> QED BY <1>1, <2>1, <2>2, <2>3, TransitRings
<1>5. CASE ~(Len(xEventList) # 1 /\ Head(xEventList).xTime <= now)
  <2>1. xEventList' = xEventList /\ xReadyList' = xReadyList
    BY <1>5 DEF TransitEvent
  <2>2. ring' = ring
    BY <1>2, <1>3, <1>5 DEF RingTransit
  <2> QED BY <1>1, <2>1, <2>2
<1> QED BY <1>4, <1>5

LEMMA RingReceiveStep ==
  ASSUME RingInv, NEW d \in Relations, ReceiveEvent(d[2], d[1]), RingReceive(d[2], d[1])
  PROVE  ~isFirst => RingsAre(ring', xEventList', xReadyList')
<1> DEFINE I == {k \in 1 .. Len(xReadyList) : xReadyList[k].src = d[1] /\ xReadyList[k].dst = d[2]}
           i == SelectInSeq(xReadyList, LAMBDA e : e.src = d[1] /\ e.dst = d[2])
           matches == {x \in Item : x.src = d[1] /\ x.dst = d[2]}
           flag == CHOOSE f : f = [x \in ItemsOf(ring, ReadyEnd) |->
                                     IF x = ring.pxPrevious[ReadyEnd] \/ (x.src = d[1] /\ x.dst = d[2])
                                     THEN x ELSE f[ring.pxNext[x]]]
           found == flag[ring.pxNext[ReadyEnd]]
<1> SUFFICES ASSUME ~isFirst PROVE RingsAre(ring', xEventList', xReadyList')
  OBVIOUS
<1>1. /\ RingsAre(ring, xEventList, xReadyList)
      /\ xEventList \in Seq(Item) /\ xReadyList \in Seq(Item)
  BY DEF RingInv, ListInv, TypeOK, Item
<1>2. /\ IsMemory(ring, Markers) /\ Holds(ring, ReadyEnd, xReadyList) /\ ReadyEnd \in Markers
      /\ ring.uxNumberOfItems[ReadyEnd] = Len(xReadyList)
      /\ ItemsOf(ring, ReadyEnd) = ToSet(xReadyList)
  BY <1>1, MarkersApart DEF RingsAre, Holds
<1>3. ring' = IF Len(xReadyList) # 0 /\ found.src = d[1] /\ found.dst = d[2]
              THEN ListRemove(ring, found) ELSE ring
  BY <1>2 DEF RingReceive, HeadEntry
<1>4. flag = SearchFor(ring, ReadyEnd, matches)
  <2>1. \A x \in ItemsOf(ring, ReadyEnd) : x \in Item
    BY <1>1, <1>2, ElementOfSeq DEF ToSet
  <2>2. \A f : [x \in ItemsOf(ring, ReadyEnd) |->
                  IF x = ring.pxPrevious[ReadyEnd] \/ (x.src = d[1] /\ x.dst = d[2])
                  THEN x ELSE f[ring.pxNext[x]]]
               = [x \in ItemsOf(ring, ReadyEnd) |->
                    IF x = ring.pxPrevious[ReadyEnd] \/ x \in matches THEN x ELSE f[ring.pxNext[x]]]
    BY <2>1
  <2> HIDE DEF matches
  <2> QED BY <2>2 DEF SearchFor
<1>5. /\ xEventList' = xEventList
      /\ xReadyList' = IF i # 0 THEN RemoveAt(xReadyList, i) ELSE xReadyList
  BY DEF ReceiveEvent
<1>6. i = IF I = {} THEN 0 ELSE Min(I)
  BY <1>1 DEF SelectInSeq
<1>7. Len(xReadyList) \in Nat
  BY <1>1, LenProperties
<1> HIDE DEF i, flag
<1>8. CASE Len(xReadyList) = 0
  <2>1. I = {}
    BY <1>7, <1>8
  <2> QED BY <1>1, <1>3, <1>5, <1>6, <1>8, <2>1
<1>9. CASE Len(xReadyList) # 0
  <2>1. PICK p \in 1 .. Len(xReadyList) :
          /\ SearchFor(ring, ReadyEnd, matches)[ring.pxNext[ReadyEnd]] = xReadyList[p]
          /\ (p = Len(xReadyList) \/ xReadyList[p] \in matches)
          /\ \A j \in 1 .. p - 1 : xReadyList[j] \notin matches
    <3> HIDE DEF matches
    <3> QED BY <1>1, <1>2, <1>9, FoundInRing
  <2>2. found = xReadyList[p]
    BY <1>4, <2>1
  <2> HIDE DEF found
  <2>3. \A k \in 1 .. Len(xReadyList) : k \in I <=> xReadyList[k] \in matches
    BY <1>1, ElementOfSeq
  <2>4. CASE xReadyList[p] \in matches
    <3>1. p \in I /\ I \in SUBSET Nat
      BY <2>3, <2>4
    <3>2. Min(I) \in I /\ Min(I) <= p
      BY <3>1, Smallest
    <3>3. ~(Min(I) < p)
      <4> SUFFICES ASSUME Min(I) < p PROVE FALSE
        OBVIOUS
      <4>1. Min(I) \in 1 .. Len(xReadyList)
        BY <3>2
      <4>2. Min(I) \in 1 .. p - 1
        BY <1>7, <4>1
      <4> QED BY <2>1, <2>3, <3>2, <4>1, <4>2
    <3>4. i = p
      <4>1. Min(I) \in Nat /\ p \in Nat
        BY <1>7, <3>2
      <4> HIDE DEF I
      <4> QED BY <1>6, <3>1, <3>2, <3>3, <4>1
    <3>5. i # 0
      BY <1>7, <3>4
    <3>6. xReadyList' = RemoveAt(xReadyList, p) /\ xEventList' = xEventList
      BY <1>5, <3>4, <3>5
    <3>7. ring' = ListRemove(ring, xReadyList[p])
      BY <1>3, <1>9, <2>2, <2>4
    <3> QED BY <1>1, <3>6, <3>7, ReceiveRings
  <2>5. CASE xReadyList[p] \notin matches
    <3>1. I = {}
      <4> SUFFICES ASSUME NEW k \in I PROVE FALSE
        OBVIOUS
      <4>1. k \in 1 .. Len(xReadyList) /\ xReadyList[k] \in matches
        BY <2>3
      <4>2. k \notin 1 .. p - 1 /\ k # p /\ p = Len(xReadyList)
        BY <2>1, <2>5, <4>1
      <4> QED BY <1>7, <4>1, <4>2
    <3>2. xReadyList' = xReadyList /\ xEventList' = xEventList
      BY <1>5, <1>6, <3>1
    <3>3. ring' = ring
      <4>1. xReadyList[p] \in Item
        BY <1>1, ElementOfSeq
      <4> QED BY <1>3, <2>2, <2>5, <4>1
    <3> QED BY <1>1, <3>2, <3>3
  <2> QED BY <2>4, <2>5
<1> QED BY <1>8, <1>9

LEMMA RingStep ==
  ASSUME DueBeforeEnd, RingInv, [RingNext]_ringVars
  PROVE  RingInv'
<1>1. [Next]_vars
  BY DEF RingNext, Next, ringVars
<1>2. ListInv'
  BY <1>1, ListStep DEF RingInv
<1>3. CASE \E r \in Relations, last \in BOOLEAN, nextPeriod \in Deadlines, time \in DueTimes :
             /\ CreateEvent(r[1], r[2], last, nextPeriod, time)
             /\ RingCreate(r[1], r[2], last, nextPeriod, time)
  BY <1>2, <1>3, RingCreateStep DEF RingInv
<1>4. CASE TransitEvent /\ RingTransit
  BY <1>2, <1>4, RingTransitStep DEF RingInv
<1>5. CASE \E r \in Relations : ReceiveEvent(r[2], r[1]) /\ RingReceive(r[2], r[1])
  <2>1. PICK r \in Relations : ReceiveEvent(r[2], r[1]) /\ RingReceive(r[2], r[1])
    BY <1>5
  <2>2. isFirst' = isFirst
    BY <2>1 DEF ReceiveEvent
  <2> QED BY <1>2, <2>1, <2>2, RingReceiveStep DEF RingInv
<1>6. CASE (Tick \/ \E e \in received : DeleteEvent(e)) /\ UNCHANGED ring
  <2>1. UNCHANGED <<isFirst, xEventList, xReadyList>>
    BY <1>6 DEF Tick, DeleteEvent
  <2> QED BY <1>2, <1>6, <2>1 DEF RingInv
<1>7. CASE UNCHANGED ringVars
  BY <1>2, <1>7 DEF RingInv, ringVars, vars
<1> QED BY <1>3, <1>4, <1>5, <1>6, <1>7 DEF RingNext

(* The links of both lists agree with the sequences, in both directions,   *)
(* after any series of insertions and removals at both ends and in the     *)
(* middle, and vListInsertEnd appends (eventlist.c:330-338, list.c:103-201).*)
THEOREM LinksFollowLists == ASSUME DueBeforeEnd PROVE RingSpec => []RingsFollow
<1>1. RingInit => RingInv
  BY ListInitially DEF RingInit, RingInv, Init
<1>2. RingInv /\ [RingNext]_ringVars => RingInv'
  BY RingStep
<1>3. RingInv => RingsFollow
  <2> SUFFICES ASSUME RingInv, ~isFirst PROVE RingsFollow
    BY DEF RingsFollow
  <2>1. /\ RingsAre(ring, xEventList, xReadyList)
        /\ xEventList \in Seq(Item) /\ xReadyList \in Seq(Item)
    BY DEF RingInv, ListInv, TypeOK, Item
  <2>2. IsRing(ring, EventEnd, xEventList) /\ IsRing(ring, ReadyEnd, xReadyList)
    BY <2>1, MarkersApart, RingOfNodes DEF RingsAre
  <2> QED BY <2>1, <2>2 DEF RingsFollow, RingsAre
<1> QED BY <1>1, <1>2, <1>3, PTL DEF RingSpec
=============================================================================

--------------------------- MODULE TaskListProofs ---------------------------
(***************************************************************************)
(* The lists of tasks, for any tasks, queues, calls and interrupts: each   *)
(* task is in one list for its state, and the running task is one of the   *)
(* highest priority among those that are ready.                            *)
(***************************************************************************)
EXTENDS QueueProofs, FiniteSetTheorems, WellFoundedInduction

-----------------------------------------------------------------------------
(* Sequences of tasks that are in it once.                                 *)

Good(s) == s \in Seq(AllTasks) /\ IsInjective(s)

LEMMA GoodFacts ==
  ASSUME NEW s, Good(s)
  PROVE  /\ Len(s) \in Nat /\ DOMAIN s = 1 .. Len(s)
         /\ \A i \in 1 .. Len(s) : s[i] \in AllTasks /\ s[i] \in ToSet(s)
         /\ \A i, j \in 1 .. Len(s) : s[i] = s[j] => i = j
         /\ \A t \in ToSet(s) : t \in AllTasks /\ \E i \in 1 .. Len(s) : t = s[i]
         /\ ToSet(s) = {} <=> s = <<>>
<1>1. Len(s) \in Nat /\ DOMAIN s = 1 .. Len(s) /\ \A i \in 1 .. Len(s) : s[i] \in AllTasks
  BY DEF Good
<1>2. s = <<>> <=> Len(s) = 0
  BY EmptySeq DEF Good
<1>3. ToSet(s) = {} <=> Len(s) = 0
  <2>1. Len(s) # 0 => s[1] \in ToSet(s)
    BY <1>1 DEF ToSet
  <2>2. Len(s) = 0 => ToSet(s) = {}
    BY <1>1 DEF ToSet
  <2> QED BY <2>1, <2>2
<1> QED BY <1>1, <1>2, <1>3 DEF Good, IsInjective, ToSet

(* A function on 1 .. n that takes no value twice.                         *)
LEMMA GoodFunction ==
  ASSUME NEW s, NEW n \in Nat, s = [i \in 1 .. n |-> s[i]],
         \A i \in 1 .. n : s[i] \in AllTasks,
         \A i, j \in 1 .. n : s[i] = s[j] => i = j
  PROVE  Good(s) /\ Len(s) = n /\ ToSet(s) = {s[i] : i \in 1 .. n}
<1>1. s \in [1 .. n -> AllTasks]
  OBVIOUS
<1>2. s \in Seq(AllTasks)
  BY <1>1
<1> QED BY <1>1, <1>2 DEF Good, IsInjective, ToSet

LEMMA GoodEmpty == Good(<<>>) /\ ToSet(<<>>) = {}
<1>1. <<>> \in Seq(AllTasks) /\ DOMAIN <<>> = {}
  OBVIOUS
<1> QED BY <1>1 DEF Good, IsInjective, ToSet

LEMMA GoodOne ==
  ASSUME NEW t \in AllTasks
  PROVE  Good(<<t>>) /\ ToSet(<<t>>) = {t}
<1>1. <<t>> \in Seq(AllTasks) /\ DOMAIN <<t>> = {1} /\ <<t>>[1] = t
  OBVIOUS
<1> QED BY <1>1 DEF Good, IsInjective, ToSet

LEMMA GoodConcat ==
  ASSUME NEW a, NEW b, Good(a), Good(b), ToSet(a) \cap ToSet(b) = {}
  PROVE  Good(a \o b) /\ ToSet(a \o b) = ToSet(a) \cup ToSet(b)
<1> DEFINE c == a \o b
           m == Len(a)
           n == Len(b)
<1>0. m \in Nat /\ n \in Nat
  BY GoodFacts
<1>1. c \in Seq(AllTasks) /\ Len(c) = m + n /\ DOMAIN c = 1 .. m + n
      /\ \A i \in 1 .. m + n : c[i] = IF i <= m THEN a[i] ELSE b[i - m]
  BY ConcatProperties DEF Good
<1> HIDE DEF c
<1>2. \A i \in 1 .. m + n : \/ i \in 1 .. m /\ c[i] = a[i]
                            \/ i \notin 1 .. m /\ i - m \in 1 .. n /\ c[i] = b[i - m]
  BY <1>0, <1>1
<1>3. IsInjective(c)
  <2> SUFFICES ASSUME NEW i \in 1 .. m + n, NEW j \in 1 .. m + n, c[i] = c[j] PROVE i = j
    BY <1>1 DEF IsInjective
  <2>1. CASE i \in 1 .. m /\ c[i] = a[i]
    <3>1. c[i] \in ToSet(a)
      BY <2>1, GoodFacts
    <3>2. j \in 1 .. m /\ c[j] = a[j]
      BY <1>2, <3>1, GoodFacts
    <3> QED BY <2>1, <3>2, GoodFacts
  <2>2. CASE i \notin 1 .. m /\ i - m \in 1 .. n /\ c[i] = b[i - m]
    <3>1. c[i] \in ToSet(b)
      BY <2>2, GoodFacts
    <3>2. j - m \in 1 .. n /\ c[j] = b[j - m]
      BY <1>2, <3>1, GoodFacts
    <3>3. i - m = j - m
      BY <2>2, <3>2, GoodFacts
    <3> QED BY <1>0, <3>3
  <2> QED BY <1>2, <2>1, <2>2
<1>4. ToSet(c) = ToSet(a) \cup ToSet(b)
  <2>1. ToSet(c) \subseteq ToSet(a) \cup ToSet(b)
    BY <1>1, <1>2, GoodFacts DEF ToSet
  <2>2. ASSUME NEW i \in 1 .. m PROVE a[i] \in ToSet(c)
    <3>1. i \in 1 .. m + n /\ c[i] = a[i]
      BY <1>0, <1>1
    <3> QED BY <1>1, <3>1 DEF ToSet
  <2>3. ASSUME NEW i \in 1 .. n PROVE b[i] \in ToSet(c)
    <3>1. i + m \in 1 .. m + n /\ i + m - m = i /\ ~(i + m <= m)
      BY <1>0
    <3>2. c[i + m] = b[i]
      BY <1>1, <3>1
    <3> QED BY <1>1, <3>1, <3>2 DEF ToSet
  <2> QED BY <2>1, <2>2, <2>3, GoodFacts
<1> QED BY <1>1, <1>3, <1>4 DEF Good, c

(* The first n and the rest.                                               *)
LEMMA GoodSplit ==
  ASSUME NEW s, Good(s), NEW n \in 0 .. Len(s)
  PROVE  LET a == SubSeq(s, 1, n)
             b == SubSeq(s, n + 1, Len(s))
         IN  /\ Good(a) /\ Good(b) /\ ToSet(a) \cap ToSet(b) = {}
             /\ ToSet(a) \cup ToSet(b) = ToSet(s)
<1> DEFINE a == SubSeq(s, 1, n)
           b == SubSeq(s, n + 1, Len(s))
<1>0. Len(s) \in Nat /\ n \in Nat /\ n <= Len(s) /\ \A i \in 1 .. Len(s) : s[i] \in AllTasks
  BY GoodFacts
<1>1. a \in Seq(AllTasks) /\ Len(a) = n /\ \A i \in 1 .. n : a[i] = s[i]
  BY <1>0, SubSeqProperties, Z3
<1>2. b \in Seq(AllTasks) /\ Len(b) = Len(s) - n /\ \A i \in 1 .. Len(s) - n : b[i] = s[n + i]
  BY <1>0, SubSeqProperties, Z3
<1> HIDE DEF a, b
<1>3. DOMAIN a = 1 .. n /\ DOMAIN b = 1 .. Len(s) - n
  BY <1>1, <1>2
<1>4. Good(a)
  <2> SUFFICES ASSUME NEW i \in 1 .. n, NEW j \in 1 .. n, a[i] = a[j] PROVE i = j
    BY <1>1, <1>3 DEF Good, IsInjective
  <2>1. i \in 1 .. Len(s) /\ j \in 1 .. Len(s)
    BY <1>0
  <2> QED BY <1>1, <2>1, GoodFacts
<1>5. Good(b)
  <2> SUFFICES ASSUME NEW i \in 1 .. Len(s) - n, NEW j \in 1 .. Len(s) - n, b[i] = b[j]
               PROVE  i = j
    BY <1>2, <1>3 DEF Good, IsInjective
  <2>1. n + i \in 1 .. Len(s) /\ n + j \in 1 .. Len(s)
    BY <1>0
  <2>2. n + i = n + j
    BY <1>2, <2>1, GoodFacts, SMTT(30)
  <2> QED BY <1>0, <2>2
<1>6. ASSUME NEW i \in 1 .. n, NEW j \in 1 .. Len(s) - n PROVE a[i] # b[j]
  <2>1. i \in 1 .. Len(s) /\ n + j \in 1 .. Len(s) /\ i # n + j
    BY <1>0
  <2>2. a[i] = s[i] /\ b[j] = s[n + j]
    BY <1>1, <1>2
  <2> QED BY <2>1, <2>2, GoodFacts
<1>7. ToSet(a) \cap ToSet(b) = {}
  BY <1>3, <1>6 DEF ToSet
<1>8. ToSet(a) \cup ToSet(b) \subseteq ToSet(s)
  <2>1. ASSUME NEW i \in 1 .. n PROVE a[i] \in ToSet(s)
    <3>1. i \in 1 .. Len(s)
      BY <1>0
    <3> QED BY <1>1, <3>1, GoodFacts
  <2>2. ASSUME NEW i \in 1 .. Len(s) - n PROVE b[i] \in ToSet(s)
    <3>1. n + i \in 1 .. Len(s)
      BY <1>0
    <3> QED BY <1>2, <3>1, GoodFacts
  <2> QED BY <1>3, <2>1, <2>2 DEF ToSet
<1>9. ToSet(s) \subseteq ToSet(a) \cup ToSet(b)
  <2> SUFFICES ASSUME NEW i \in 1 .. Len(s) PROVE s[i] \in ToSet(a) \cup ToSet(b)
    BY GoodFacts
  <2>1. CASE i <= n
    <3>1. i \in 1 .. n /\ a[i] = s[i]
      BY <1>0, <1>1, <2>1
    <3> QED BY <1>3, <3>1 DEF ToSet
  <2>2. CASE i > n
    <3>1. i - n \in 1 .. Len(s) - n /\ n + (i - n) = i
      BY <1>0, <2>2
    <3>2. b[i - n] = s[i]
      BY <1>2, <3>1
    <3> QED BY <1>3, <3>1, <3>2 DEF ToSet
  <2> QED BY <1>0, <2>1, <2>2
<1> QED BY <1>4, <1>5, <1>7, <1>8, <1>9 DEF a, b

(* The k-th position of those kept has k - 1 before it: as many as there   *)
(* are positions, so that each number is taken; and they keep their order. *)
KeepsOrder(r, s) ==
    \A k, l \in 1 .. Len(r) :
        k < l => \E i, j \in 1 .. Len(s) : i < j /\ r[k] = s[i] /\ r[l] = s[j]

LEMMA GoodThose ==
  ASSUME NEW s, Good(s), NEW us
  PROVE  /\ Good(Those(s, us)) /\ ToSet(Those(s, us)) = ToSet(s) \cap us
         /\ KeepsOrder(Those(s, us), s)
<1> DEFINE kept == {i \in DOMAIN s : s[i] \in us}
           n == Cardinality(kept)
           Before(i) == {j \in kept : j < i}
           rank == [i \in kept |-> Cardinality(Before(i)) + 1]
           Nth(k) == CHOOSE i \in kept : Cardinality({j \in kept : j < i}) = k - 1
<1>1. kept \subseteq 1 .. Len(s) /\ Len(s) \in Nat
  BY GoodFacts
<1>2. IsFiniteSet(kept) /\ n \in Nat
  <2>1. IsFiniteSet(1 .. Len(s))
    BY <1>1, FS_Interval
  <2> QED BY <1>1, <2>1, FS_Subset, FS_CardinalityType
<1> HIDE DEF kept
<1>3. ASSUME NEW i \in kept
      PROVE  IsFiniteSet(Before(i)) /\ Cardinality(Before(i)) \in 0 .. n - 1
  <2>1. Before(i) \subseteq kept /\ i \notin Before(i)
    BY <1>1
  <2>2. IsFiniteSet(Before(i)) /\ Cardinality(Before(i)) <= n /\ Cardinality(Before(i)) # n
    BY <1>2, <2>1, FS_Subset
  <2>3. Cardinality(Before(i)) \in Nat
    BY <2>2, FS_CardinalityType
  <2> QED BY <1>2, <2>2, <2>3
<1>4. ASSUME NEW i \in kept, NEW j \in kept, i < j
      PROVE  Cardinality(Before(i)) < Cardinality(Before(j))
  <2>1. \A m \in kept : m \in Nat
    BY <1>1
  <2>2. Before(i) \subseteq Before(j) /\ i \in Before(j) /\ i \notin Before(i)
    BY <2>1, <1>4
  <2> HIDE DEF Before
  <2>3. /\ IsFiniteSet(Before(j)) /\ Cardinality(Before(i)) \in Nat
        /\ Cardinality(Before(j)) \in Nat
    <3>1. IsFiniteSet(Before(i)) /\ IsFiniteSet(Before(j))
      BY <1>3
    <3> QED BY <3>1, FS_CardinalityType
  <2>4. Cardinality(Before(i)) <= Cardinality(Before(j))
        /\ Cardinality(Before(i)) # Cardinality(Before(j))
    BY <2>2, <2>3, FS_Subset
  <2> QED BY <2>3, <2>4
<1> HIDE DEF Before
<1>5. rank \in [kept -> 1 .. n] /\ \A i, j \in kept : rank[i] = rank[j] => i = j
  <2>1. \A i \in kept : Cardinality(Before(i)) + 1 \in 1 .. n
    BY <1>2, <1>3
  <2>2. \A i, j \in kept : i < j \/ j < i \/ i = j
    BY <1>1
  <2>3. \A i, j \in kept : rank[i] = rank[j] => i = j
    BY <1>3, <1>4, <2>2
  <2> QED BY <2>1, <2>3
<1>6. \A k \in 1 .. n : \E i \in kept : rank[i] = k
  <2>1. rank \in Injection(kept, 1 .. n)
    BY <1>5 DEF Injection, IsInjective
  <2>2. IsFiniteSet(1 .. n) /\ Cardinality(1 .. n) = n
    BY <1>2, FS_Interval
  <2>3. rank \in Surjection(kept, 1 .. n)
    BY <2>1, <2>2, FS_Injection
  <2> QED BY <2>3 DEF Surjection
<1>7. ASSUME NEW k \in 1 .. n
      PROVE  Nth(k) \in kept /\ rank[Nth(k)] = k
  <2>0. PICK i \in kept : rank[i] = k
    BY <1>6
  <2>1. Cardinality(Before(i)) = k - 1
    BY <1>2, <1>3, <2>0
  <2>2. Nth(k) \in kept /\ Cardinality(Before(Nth(k))) = k - 1
    BY <2>1 DEF Before
  <2> HIDE DEF Nth
  <2> QED BY <1>2, <2>2
<1> DEFINE r == [k \in 1 .. n |-> s[Nth(k)]]
<1>8. r = Those(s, us)
  BY DEF Those, kept
<1>9. /\ \A k, l \in 1 .. n : Nth(k) = Nth(l) => k = l
      /\ \A k, l \in 1 .. n : k < l => Nth(k) < Nth(l)
  <2>1. \A i, j \in kept : i < j => rank[i] < rank[j]
    BY <1>3, <1>4
  <2>2. \A i, j \in kept : i < j \/ j < i \/ i = j
    BY <1>1
  <2> HIDE DEF Nth, rank
  <2> QED BY <1>2, <1>7, <2>1, <2>2
<1> HIDE DEF Nth, rank
<1>10. Good(r) /\ ToSet(r) = {r[k] : k \in 1 .. n} /\ Len(r) = n
  <2>1. \A k \in 1 .. n : Nth(k) \in 1 .. Len(s) /\ r[k] = s[Nth(k)]
    BY <1>1, <1>7
  <2>2. \A k \in 1 .. n : r[k] \in AllTasks
    BY <2>1, GoodFacts
  <2>3. \A k, l \in 1 .. n : r[k] = r[l] => k = l
    BY <1>9, <2>1, GoodFacts
  <2>4. r = [k \in 1 .. n |-> r[k]]
    OBVIOUS
  <2> HIDE DEF r
  <2> QED BY <1>2, <2>2, <2>3, <2>4, GoodFunction
<1>11. {r[k] : k \in 1 .. n} = {s[i] : i \in kept}
  <2>1. \A k \in 1 .. n : r[k] = s[Nth(k)] /\ Nth(k) \in kept
    BY <1>7
  <2>2. \A i \in kept : rank[i] \in 1 .. n /\ Nth(rank[i]) = i
    BY <1>5, <1>7
  <2> HIDE DEF r
  <2> QED BY <2>1, <2>2
<1>12. {s[i] : i \in kept} = ToSet(s) \cap us
  BY DEF kept, ToSet
<1>13. KeepsOrder(r, s)
  <2>1. \A k \in 1 .. n : Nth(k) \in 1 .. Len(s) /\ r[k] = s[Nth(k)]
    BY <1>1, <1>7
  <2> HIDE DEF r
  <2> QED BY <1>9, <1>10, <2>1 DEF KeepsOrder
<1> QED BY <1>8, <1>10, <1>11, <1>12, <1>13

LEMMA GoodWithout ==
  ASSUME NEW s, Good(s), NEW us
  PROVE  Good(Without(s, us)) /\ ToSet(Without(s, us)) = ToSet(s) \ us
BY GoodThose DEF Without

(* The first position of some, and the greatest priority of some.          *)
LEMMA Least ==
  ASSUME NEW I \in SUBSET Nat, I # {}
  PROVE  \E i \in I : \A j \in I : i <= j
<1> DEFINE R == OpToRel(<, Nat)
<1>1. \A x, y \in I : <<y, x>> \in R <=> y < x
  BY DEF OpToRel
<1>2. IsWellFoundedOn(R, Nat)
  BY NatLessThanWellFounded
<1> HIDE DEF R
<1>3. \E x \in I : \A y \in I : ~(<<y, x>> \in R)
  BY <1>2, WFMin
<1>4. \A x, y \in I : ~(y < x) => x <= y
  OBVIOUS
<1> QED BY <1>1, <1>3, <1>4

LEMMA Greatest ==
  ASSUME NEW P \in SUBSET Priorities, P # {}
  PROVE  \E p \in P : \A q \in P : q <= p
<1> DEFINE I == {MaxPriorities - p : p \in P}
<1>1. MaxPriorities \in Nat /\ \A p \in P : p \in Nat /\ p <= MaxPriorities
  BY TasksAssumption DEF Priorities
<1>2. I \in SUBSET Nat /\ I # {}
  BY <1>1
<1>3. PICK i \in I : \A j \in I : i <= j
  BY <1>2, Least
<1>4. PICK p \in P : i = MaxPriorities - p
  BY <1>3
<1>5. ASSUME NEW q \in P PROVE q <= p
  <2>1. MaxPriorities - p <= MaxPriorities - q
    BY <1>3, <1>4
  <2> QED BY <1>1, <2>1
<1> QED BY <1>5

(* vListInsert                                                             *)
LEMMA GoodInsert ==
  ASSUME NEW s, Good(s), NEW t \in AllTasks, t \notin ToSet(s), NEW value
  PROVE  Good(Insert(s, t, value)) /\ ToSet(Insert(s, t, value)) = ToSet(s) \cup {t}
<1> DEFINE later == {i \in DOMAIN s : value[s[i]] > value[t]}
           at == IF later = {} THEN Len(s) + 1 ELSE CHOOSE i \in later : \A j \in later : i <= j
           a == SubSeq(s, 1, at - 1)
           b == SubSeq(s, at, Len(s))
<1>1. at - 1 \in 0 .. Len(s) /\ (at - 1) + 1 = at
  <2>1. Len(s) \in Nat /\ later \subseteq 1 .. Len(s)
    BY GoodFacts
  <2>2. later # {} => at \in later
    <3>1. later \in SUBSET Nat
      BY <2>1
    <3> HIDE DEF later
    <3> QED BY <3>1, Least
  <2> QED BY <2>1, <2>2
<1>2. Insert(s, t, value) = a \o <<t>> \o b
  BY DEF Insert, InsertAt
<1> HIDE DEF at
<1>3. Good(a) /\ Good(b) /\ ToSet(a) \cap ToSet(b) = {} /\ ToSet(a) \cup ToSet(b) = ToSet(s)
  BY <1>1, GoodSplit
<1> HIDE DEF a, b
<1>4. Good(a \o <<t>>) /\ ToSet(a \o <<t>>) = ToSet(a) \cup {t}
  BY <1>3, GoodOne, GoodConcat
<1>5. ToSet(a \o <<t>>) \cap ToSet(b) = {}
  BY <1>3, <1>4
<1>6. Good((a \o <<t>>) \o b) /\ ToSet((a \o <<t>>) \o b) = ToSet(s) \cup {t}
  BY <1>3, <1>4, <1>5, GoodConcat
<1> QED BY <1>2, <1>6

LEMMA GoodAppend ==
  ASSUME NEW s, Good(s), NEW t \in AllTasks, t \notin ToSet(s)
  PROVE  Good(Append(s, t)) /\ ToSet(Append(s, t)) = ToSet(s) \cup {t}
<1>1. Append(s, t) = s \o <<t>>
  BY AppendIsConcat DEF Good
<1> QED BY <1>1, GoodOne, GoodConcat

LEMMA GoodTail ==
  ASSUME NEW s, Good(s), s # <<>>
  PROVE  /\ Good(Tail(s)) /\ ToSet(Tail(s)) = ToSet(s) \ {Head(s)}
         /\ Head(s) \in ToSet(s) /\ Head(s) \in AllTasks
<1>1. Len(s) \in Nat /\ 1 \in 0 .. Len(s) /\ s \in Seq(AllTasks)
  BY EmptySeq DEF Good
<1>2. Tail(s) = SubSeq(s, 2, Len(s))
  BY <1>1, TailIsSubSeq
<1>3. Head(s) = s[1] /\ s[1] \in AllTasks /\ s[1] \in ToSet(s)
  BY <1>1, GoodFacts
<1>4. SubSeq(s, 1, 1) = <<Head(s)>>
  <2>1. SubSeq(s, 1, 1) \in Seq(AllTasks) /\ Len(SubSeq(s, 1, 1)) = 1
        /\ SubSeq(s, 1, 1)[1] = s[1]
    BY <1>3, SubSeqProperties, Z3
  <2>2. <<s[1]>> \in Seq(AllTasks) /\ Len(<<s[1]>>) = 1 /\ <<s[1]>>[1] = s[1]
    BY <1>3
  <2> DEFINE a == SubSeq(s, 1, 1)
             b == <<s[1]>>
  <2> HIDE DEF a, b
  <2>3. \A i \in 1 .. Len(a) : a[i] = b[i]
    BY <2>1, <2>2 DEF a, b
  <2>4. a = b
    BY <2>1, <2>2, <2>3, SeqEqual DEF a, b
  <2> QED BY <1>3, <2>4 DEF a, b
<1>5. ToSet(SubSeq(s, 1, 1)) = {Head(s)}
  BY <1>3, <1>4, GoodOne
<1>6. LET b == SubSeq(s, 1 + 1, Len(s))
      IN  Good(b) /\ {Head(s)} \cap ToSet(b) = {} /\ {Head(s)} \cup ToSet(b) = ToSet(s)
  BY <1>1, <1>5, GoodSplit
<1>7. 1 + 1 = 2
  OBVIOUS
<1> QED BY <1>2, <1>3, <1>6, <1>7

(* listGET_OWNER_OF_NEXT_ENTRY                                             *)
LEMMA GoodNextTurn ==
  ASSUME NEW s, Good(s), s # <<>>
  PROVE  Good(NextTurn(s)) /\ ToSet(NextTurn(s)) = ToSet(s)
BY GoodTail, GoodAppend DEF NextTurn

-----------------------------------------------------------------------------
(* The invariant.                                                          *)

ListTypes ==
    /\ DOMAIN ready = Priorities /\ \A p \in Priorities : Good(ready[p])
    /\ DOMAIN events = EventLists /\ \A l \in EventLists : Good(events[l])
    /\ Good(delayed) /\ Good(overflowed) /\ Good(suspended) /\ Good(terminating)
    /\ Good(pendingReady)
    /\ prio \in [AllTasks -> Priorities] /\ base \in [AllTasks -> Priorities]
    /\ uxTopReadyPriority \in Priorities /\ pxCurrentTCB \in AllTasks

(* OneList, task by task.                                                  *)
Apart(t) ==
    /\ \A p \in Priorities : t \in ToSet(ready[p]) => prio[t] = p
    /\ IsReady(t) => ~IsAway(t) /\ t \notin ToSet(terminating)
    /\ t \in ToSet(delayed) => t \notin ToSet(overflowed)
    /\ IsDelayed(t) => t \notin ToSet(suspended)
    /\ IsAway(t) => t \notin ToSet(terminating)
    /\ t \in ToSet(pendingReady) => IsAway(t) /\ ~IsWaiting(t)
    /\ \A l \in EventLists : t \in ToSet(events[l]) =>
          IsAway(t) /\ \A m \in EventLists : t \in ToSet(events[m]) => l = m

AllApart == \A t \in AllTasks : Apart(t)

IdleReady == Idle \in ToSet(ready[0])

NonePending == uxSchedulerSuspended = 0 => pendingReady = <<>>

(* A task that has just put itself into a list to wait, and will yield     *)
Waits(t) == \/ pc[t] = "resume"
            \/ pc[t] \in {"unlockTx", "unlockRx", "resumeAll"} /\ call[t].outcome = "wait"

(* The running task is ready, or on its way to a switch.                   *)
CurrentReady ==
    \/ IsReady(pxCurrentTCB)
    \/ uxSchedulerSuspended = 0 /\ (pendSV \/ resuming = "yields")
    \/ uxSchedulerSuspended # 0 /\ Waits(pxCurrentTCB)

(* No switch is requested while xTaskResumeAll is at the missed ticks.     *)
CatchingUp == resuming # "no" => ~pendSV

(* What the idle task is about to free is there.                           *)
Freeing == pc[Idle] \in {"resume", "free"} => terminating # <<>>

ListsInv ==
    /\ ListTypes /\ AllApart /\ IdleReady /\ NonePending /\ CurrentReady
    /\ CatchingUp /\ Freeing

Holders == \A q \in Queues : pxMutexHolder[q] \in Task \cup {Null}
Locks   == \A q \in Queues : xRxLock[q] \in Int /\ xTxLock[q] \in Int

(* On its way into a waiting list, a task has found that it has to wait,   *)
(* for the holder of a mutex if it is to inherit.                          *)
Placing ==
    \A t \in Task :
        /\ pc[t] \in {"inherit", "place"} => call[t].outcome = "wait"
        /\ pc[t] = "inherit" => pxMutexHolder[call[t].queue] # Null

ListInv == ListsInv /\ Holders /\ Locks /\ Placing

-----------------------------------------------------------------------------
(* What a step does to the lists, as sets.                                 *)

(* Tasks us become ready, wherever they were, and nothing else changes but *)
(* that the two lists of delayed tasks may change places.                  *)
Readies(us) ==
    /\ us \subseteq AllTasks /\ us \cap ToSet(terminating) = {}
    /\ \A p \in Priorities :
          ToSet(ready'[p]) = (ToSet(ready[p]) \ us) \cup {t \in us : prio'[t] = p}
    /\ \/ ToSet(delayed') = ToSet(delayed) \ us /\ ToSet(overflowed') = ToSet(overflowed) \ us
       \/ ToSet(delayed') = ToSet(overflowed) \ us /\ ToSet(overflowed') = ToSet(delayed) \ us
    /\ ToSet(suspended') = ToSet(suspended) \ us
    /\ ToSet(terminating') = ToSet(terminating)
    /\ ToSet(pendingReady') = ToSet(pendingReady) \ us
    /\ \A l \in EventLists : ToSet(events'[l]) = ToSet(events[l]) \ us
    /\ prio' \in [AllTasks -> Priorities] /\ prio'[Idle] = prio[Idle]
    /\ \A t \in AllTasks \ us : IsReady(t) => prio'[t] = prio[t]

LEMMA ReadiesApart ==
  ASSUME AllApart, IdleReady, NEW us, Readies(us)
  PROVE  AllApart' /\ IdleReady' /\ \A t \in AllTasks : IsReady(t) \/ t \in us => IsReady(t)'
<1>0. 0 \in Priorities /\ Idle \in AllTasks
  BY TasksAssumption DEF Priorities, AllTasks
<1>1. ASSUME NEW t \in AllTasks
      PROVE  /\ IsReady(t)' <=> IsReady(t) \/ t \in us
             /\ IsDelayed(t)' <=> IsDelayed(t) /\ t \notin us
             /\ IsAway(t)' <=> IsAway(t) /\ t \notin us
             /\ IsWaiting(t)' <=> IsWaiting(t) /\ t \notin us
  <2>1. IsReady(t)' <=> IsReady(t) \/ t \in us
    <3>1. prio'[t] \in Priorities
      BY DEF Readies
    <3> QED BY <3>1 DEF Readies, IsReady
  <2>2. IsDelayed(t)' <=> IsDelayed(t) /\ t \notin us
    BY DEF Readies, IsDelayed
  <2>3. IsAway(t)' <=> IsAway(t) /\ t \notin us
    BY <2>2 DEF Readies, IsAway
  <2>4. IsWaiting(t)' <=> IsWaiting(t) /\ t \notin us
    BY DEF Readies, IsWaiting
  <2> QED BY <2>1, <2>2, <2>3, <2>4
<1>2. ASSUME NEW t \in AllTasks PROVE Apart(t)'
  <2>1. Apart(t)
    BY DEF AllApart
  <2>2. CASE t \in us
    BY <1>1, <2>2 DEF Apart, Readies
  <2>3. CASE t \notin us
    <3>1. \A p \in Priorities : t \in ToSet(ready'[p]) => prio'[t] = p
      <4> SUFFICES ASSUME NEW p \in Priorities, t \in ToSet(ready'[p]) PROVE prio'[t] = p
        OBVIOUS
      <4>1. t \in ToSet(ready[p])
        BY <2>3 DEF Readies
      <4>2. IsReady(t)
        BY <4>1 DEF IsReady
      <4> QED BY <2>1, <2>3, <4>1, <4>2 DEF Apart, Readies
    <3>2. /\ IsReady(t)' => ~IsAway(t)' /\ t \notin ToSet(terminating')
          /\ t \in ToSet(delayed') => t \notin ToSet(overflowed')
          /\ IsDelayed(t)' => t \notin ToSet(suspended')
          /\ IsAway(t)' => t \notin ToSet(terminating')
          /\ t \in ToSet(pendingReady') => IsAway(t)' /\ ~IsWaiting(t)'
      BY <1>1, <2>1, <2>3 DEF Apart, Readies
    <3>3. \A l \in EventLists : t \in ToSet(events'[l]) =>
             IsAway(t)' /\ \A m \in EventLists : t \in ToSet(events'[m]) => l = m
      BY <1>1, <2>1, <2>3 DEF Apart, Readies
    <3> QED BY <3>1, <3>2, <3>3 DEF Apart
  <2> QED BY <2>2, <2>3
<1>3. IdleReady'
  <2>1. prio[Idle] = 0
    BY <1>0 DEF IdleReady, AllApart, Apart
  <2>2. prio'[Idle] = 0
    BY <2>1 DEF Readies
  <2> QED BY <1>0, <2>2 DEF IdleReady, Readies
<1> QED BY <1>1, <1>2, <1>3 DEF AllApart

(* Task u leaves the lists it is in for one list of those that do not run, *)
(* and may wait in an event list if that is not the list of the deleted.   *)
Parks(u) ==
    /\ u \in Task
    /\ \A p \in Priorities : ToSet(ready'[p]) = ToSet(ready[p]) \ {u}
    /\ \A t \in AllTasks \ {u} :
          /\ t \in ToSet(delayed') <=> t \in ToSet(delayed)
          /\ t \in ToSet(overflowed') <=> t \in ToSet(overflowed)
          /\ t \in ToSet(suspended') <=> t \in ToSet(suspended)
          /\ t \in ToSet(terminating') <=> t \in ToSet(terminating)
    /\ IsDelayed(u)' => u \notin ToSet(suspended')
    /\ u \in ToSet(delayed') => u \notin ToSet(overflowed')
    /\ IsAway(u)' => u \notin ToSet(terminating')
    /\ ToSet(pendingReady') = ToSet(pendingReady) \ {u}
    /\ \A l \in EventLists : \A t \in AllTasks \ {u} :
          t \in ToSet(events'[l]) <=> t \in ToSet(events[l])
    /\ \A l, m \in EventLists :
          u \in ToSet(events'[l]) => IsAway(u)' /\ (u \in ToSet(events'[m]) => l = m)
    /\ UNCHANGED prio

LEMMA ParksApart ==
  ASSUME AllApart, IdleReady, NEW u, Parks(u)
  PROVE  AllApart' /\ IdleReady' /\ \A t \in AllTasks \ {u} : IsReady(t) => IsReady(t)'
<1>0. Idle # u /\ 0 \in Priorities
  BY TasksAssumption DEF Parks, Priorities
<1>1. ASSUME NEW t \in AllTasks \ {u}
      PROVE  /\ IsReady(t)' <=> IsReady(t)
             /\ IsDelayed(t)' <=> IsDelayed(t)
             /\ IsAway(t)' <=> IsAway(t)
             /\ IsWaiting(t)' <=> IsWaiting(t)
  BY DEF Parks, IsReady, IsDelayed, IsAway, IsWaiting
<1>2. ASSUME NEW t \in AllTasks \ {u} PROVE Apart(t)'
  <2>1. Apart(t)
    BY DEF AllApart
  <2>2. \A p \in Priorities : t \in ToSet(ready'[p]) => prio'[t] = p
    BY <2>1 DEF Apart, Parks
  <2>3. /\ IsReady(t)' => ~IsAway(t)' /\ t \notin ToSet(terminating')
        /\ t \in ToSet(delayed') => t \notin ToSet(overflowed')
        /\ IsDelayed(t)' => t \notin ToSet(suspended')
        /\ IsAway(t)' => t \notin ToSet(terminating')
        /\ t \in ToSet(pendingReady') => IsAway(t)' /\ ~IsWaiting(t)'
    BY <1>1, <2>1 DEF Apart, Parks
  <2>4. \A l \in EventLists : t \in ToSet(events'[l]) =>
           IsAway(t)' /\ \A m \in EventLists : t \in ToSet(events'[m]) => l = m
    BY <1>1, <2>1 DEF Apart, Parks
  <2> QED BY <2>2, <2>3, <2>4 DEF Apart
<1>3. Apart(u)'
  <2>1. ~IsReady(u)'
    BY DEF Parks, IsReady
  <2> QED BY <2>1 DEF Apart, Parks, IsReady
<1> QED BY <1>0, <1>1, <1>2, <1>3 DEF AllApart, IdleReady, Parks

(* Tasks us that are away come to be pending.                              *)
Pends(us) ==
    /\ \A t \in us : t \in AllTasks /\ IsAway(t)
    /\ ToSet(pendingReady') = ToSet(pendingReady) \cup us
    /\ \A l \in EventLists : ToSet(events'[l]) = ToSet(events[l]) \ us
    /\ UNCHANGED <<generic, prio>>

LEMMA PendsApart ==
  ASSUME AllApart, IdleReady, NEW us, Pends(us)
  PROVE  AllApart' /\ IdleReady' /\ \A t \in AllTasks : IsReady(t) => IsReady(t)'
<1>1. UNCHANGED <<ready, delayed, overflowed, suspended, terminating, prio>>
  BY DEF Pends, generic
<1>2. ASSUME NEW t \in AllTasks
      PROVE  /\ IsReady(t)' <=> IsReady(t)
             /\ IsDelayed(t)' <=> IsDelayed(t)
             /\ IsAway(t)' <=> IsAway(t)
             /\ IsWaiting(t)' <=> IsWaiting(t) /\ t \notin us
  BY <1>1 DEF Pends, IsReady, IsDelayed, IsAway, IsWaiting
<1>3. ASSUME NEW t \in AllTasks PROVE Apart(t)'
  <2>1. Apart(t)
    BY DEF AllApart
  <2>2. \A l \in EventLists : t \in ToSet(events'[l]) =>
           IsAway(t)' /\ \A m \in EventLists : t \in ToSet(events'[m]) => l = m
    BY <1>2, <2>1 DEF Apart, Pends
  <2>3. t \in ToSet(pendingReady') => IsAway(t)' /\ ~IsWaiting(t)'
    BY <1>2, <2>1 DEF Apart, Pends
  <2> QED BY <1>1, <1>2, <2>1, <2>2, <2>3 DEF Apart
<1> QED BY <1>1, <1>2, <1>3 DEF AllApart, IdleReady

-----------------------------------------------------------------------------
(* What the operators of Tasks do to the lists.                            *)

LEMMA AddToReadyFacts ==
  ASSUME ListTypes, NEW us, Good(us), NEW priority \in [AllTasks -> Priorities],
         AddToReady(us, priority)
  PROVE  /\ DOMAIN ready' = Priorities /\ \A p \in Priorities : Good(ready'[p])
         /\ \A p \in Priorities : ToSet(ready'[p]) =
               (ToSet(ready[p]) \ ToSet(us)) \cup {t \in ToSet(us) : priority[t] = p}
         /\ uxTopReadyPriority' \in Priorities
<1>1. \A t \in ToSet(us) : t \in AllTasks
  BY GoodFacts
<1>2. ASSUME NEW p \in Priorities
      PROVE  /\ Good(ready'[p])
             /\ ToSet(ready'[p]) =
                   (ToSet(ready[p]) \ ToSet(us)) \cup {t \in ToSet(us) : priority[t] = p}
  <2> DEFINE a == Without(ready[p], ToSet(us))
             b == Those(us, {u \in AllTasks : priority[u] = p})
  <2>1. ready'[p] = a \o b
    BY DEF AddToReady
  <2>2. Good(a) /\ ToSet(a) = ToSet(ready[p]) \ ToSet(us)
    BY GoodWithout DEF ListTypes
  <2>3. Good(b) /\ ToSet(b) = ToSet(us) \cap {u \in AllTasks : priority[u] = p}
    BY GoodThose
  <2> HIDE DEF a, b
  <2>4. Good(a \o b) /\ ToSet(a \o b) = ToSet(a) \cup ToSet(b)
    BY <2>2, <2>3, GoodConcat
  <2> QED BY <1>1, <2>1, <2>2, <2>3, <2>4
<1>3. uxTopReadyPriority' \in Priorities
  <2> DEFINE tops == {priority[u] : u \in ToSet(us)} \cup {uxTopReadyPriority}
  <2>1. tops \in SUBSET Priorities /\ tops # {}
    BY <1>1 DEF ListTypes
  <2>2. uxTopReadyPriority' = CHOOSE p \in tops : \A q \in tops : q <= p
    BY DEF AddToReady
  <2> HIDE DEF tops
  <2>3. uxTopReadyPriority' \in tops
    BY <2>1, <2>2, Greatest
  <2> QED BY <2>1, <2>3
<1>4. DOMAIN ready' = Priorities
  BY DEF AddToReady
<1> QED BY <1>2, <1>3, <1>4

(* The same with the priorities as the step leaves them.                   *)
LEMMA AddToReadyNewFacts ==
  ASSUME ListTypes, NEW us, Good(us), prio' \in [AllTasks -> Priorities], AddToReady(us, prio')
  PROVE  /\ DOMAIN ready' = Priorities /\ \A p \in Priorities : Good(ready'[p])
         /\ \A p \in Priorities : ToSet(ready'[p]) =
               (ToSet(ready[p]) \ ToSet(us)) \cup {t \in ToSet(us) : prio'[t] = p}
         /\ uxTopReadyPriority' \in Priorities
<1>1. PICK new : new = prio'
  OBVIOUS
<1>2. AddToReady(us, new) /\ new \in [AllTasks -> Priorities]
  BY <1>1 DEF AddToReady
<1>3. /\ DOMAIN ready' = Priorities /\ \A p \in Priorities : Good(ready'[p])
      /\ \A p \in Priorities : ToSet(ready'[p]) =
            (ToSet(ready[p]) \ ToSet(us)) \cup {t \in ToSet(us) : new[t] = p}
      /\ uxTopReadyPriority' \in Priorities
  BY <1>2, AddToReadyFacts
<1> QED BY <1>1, <1>3

LEMMA MakeReadyFacts ==
  ASSUME ListTypes, NEW us, Good(us), NEW priority \in [AllTasks -> Priorities],
         MakeReady(us, priority)
  PROVE  /\ DOMAIN ready' = Priorities /\ \A p \in Priorities : Good(ready'[p])
         /\ \A p \in Priorities : ToSet(ready'[p]) =
               (ToSet(ready[p]) \ ToSet(us)) \cup {t \in ToSet(us) : priority[t] = p}
         /\ uxTopReadyPriority' \in Priorities
         /\ Good(delayed') /\ ToSet(delayed') = ToSet(delayed) \ ToSet(us)
         /\ Good(overflowed') /\ ToSet(overflowed') = ToSet(overflowed) \ ToSet(us)
         /\ Good(suspended') /\ ToSet(suspended') = ToSet(suspended) \ ToSet(us)
         /\ terminating' = terminating
<1>1. AddToReady(us, priority)
  BY DEF MakeReady
<1>2. /\ delayed' = Without(delayed, ToSet(us)) /\ overflowed' = Without(overflowed, ToSet(us))
      /\ suspended' = Without(suspended, ToSet(us)) /\ terminating' = terminating
  BY DEF MakeReady
<1>3. Good(delayed) /\ Good(overflowed) /\ Good(suspended)
  BY DEF ListTypes
<1> QED BY <1>1, <1>2, <1>3, AddToReadyFacts, GoodWithout

LEMMA MakeReadyNewFacts ==
  ASSUME ListTypes, NEW us, Good(us), prio' \in [AllTasks -> Priorities], MakeReady(us, prio')
  PROVE  /\ DOMAIN ready' = Priorities /\ \A p \in Priorities : Good(ready'[p])
         /\ \A p \in Priorities : ToSet(ready'[p]) =
               (ToSet(ready[p]) \ ToSet(us)) \cup {t \in ToSet(us) : prio'[t] = p}
         /\ uxTopReadyPriority' \in Priorities
         /\ Good(delayed') /\ ToSet(delayed') = ToSet(delayed) \ ToSet(us)
         /\ Good(overflowed') /\ ToSet(overflowed') = ToSet(overflowed) \ ToSet(us)
         /\ Good(suspended') /\ ToSet(suspended') = ToSet(suspended) \ ToSet(us)
         /\ terminating' = terminating
<1>1. PICK new : new = prio'
  OBVIOUS
<1>2. MakeReady(us, new) /\ new \in [AllTasks -> Priorities]
  BY <1>1 DEF MakeReady, AddToReady
<1>3. /\ DOMAIN ready' = Priorities /\ \A p \in Priorities : Good(ready'[p])
      /\ \A p \in Priorities : ToSet(ready'[p]) =
            (ToSet(ready[p]) \ ToSet(us)) \cup {t \in ToSet(us) : new[t] = p}
      /\ uxTopReadyPriority' \in Priorities
      /\ Good(delayed') /\ ToSet(delayed') = ToSet(delayed) \ ToSet(us)
      /\ Good(overflowed') /\ ToSet(overflowed') = ToSet(overflowed) \ ToSet(us)
      /\ Good(suspended') /\ ToSet(suspended') = ToSet(suspended) \ ToSet(us)
      /\ terminating' = terminating
  BY <1>2, MakeReadyFacts
<1> QED BY <1>1, <1>3

(* The running task goes into a list of delayed tasks.                     *)
LEMMA AddToDelayedFacts ==
  ASSUME ListTypes, AllApart, NEW t \in Task, IsReady(t), NEW time, AddToDelayed(t, time)
  PROVE  /\ DOMAIN ready' = Priorities /\ \A p \in Priorities : Good(ready'[p])
         /\ \A p \in Priorities : ToSet(ready'[p]) = ToSet(ready[p]) \ {t}
         /\ uxTopReadyPriority' = uxTopReadyPriority
         /\ Good(delayed') /\ Good(overflowed')
         /\ \/ /\ ToSet(delayed') = ToSet(delayed) \cup {t}
               /\ overflowed' = overflowed
            \/ /\ ToSet(overflowed') = ToSet(overflowed) \cup {t}
               /\ delayed' = delayed
         /\ suspended' = suspended /\ terminating' = terminating
<1>1. t \in AllTasks /\ t \notin ToSet(delayed) /\ t \notin ToSet(overflowed)
      /\ Good(delayed) /\ Good(overflowed)
  BY DEF AllTasks, AllApart, Apart, IsAway, IsDelayed, ListTypes
<1>2. \A value : /\ Good(Insert(delayed, t, value))
                 /\ ToSet(Insert(delayed, t, value)) = ToSet(delayed) \cup {t}
                 /\ Good(Insert(overflowed, t, value))
                 /\ ToSet(Insert(overflowed, t, value)) = ToSet(overflowed) \cup {t}
  BY <1>1, GoodInsert
<1>3. \A p \in Priorities : /\ Good(Without(ready[p], {t}))
                            /\ ToSet(Without(ready[p], {t})) = ToSet(ready[p]) \ {t}
  BY GoodWithout DEF ListTypes
<1>4. ready' = [p \in Priorities |-> Without(ready[p], {t})]
  BY DEF AddToDelayed
<1>5. \/ overflowed' = Insert(overflowed, t, wake') /\ delayed' = delayed
      \/ delayed' = Insert(delayed, t, wake') /\ overflowed' = overflowed
  BY DEF AddToDelayed
<1>6. UNCHANGED <<uxTopReadyPriority, suspended, terminating>>
  BY DEF AddToDelayed
<1> QED BY <1>1, <1>2, <1>3, <1>4, <1>5, <1>6

LEMMA RemoveFromListsFacts ==
  ASSUME ListTypes, NEW u, RemoveFromLists(u)
  PROVE  /\ DOMAIN ready' = Priorities
         /\ \A p \in Priorities : Good(ready'[p]) /\ ToSet(ready'[p]) = ToSet(ready[p]) \ {u}
         /\ DOMAIN events' = EventLists
         /\ \A l \in EventLists : Good(events'[l]) /\ ToSet(events'[l]) = ToSet(events[l]) \ {u}
         /\ Good(delayed') /\ ToSet(delayed') = ToSet(delayed) \ {u}
         /\ Good(overflowed') /\ ToSet(overflowed') = ToSet(overflowed) \ {u}
         /\ Good(pendingReady') /\ ToSet(pendingReady') = ToSet(pendingReady) \ {u}
         /\ uxTopReadyPriority' = uxTopReadyPriority
BY GoodWithout DEF RemoveFromLists, ListTypes

LEMMA WaitingFacts ==
  ASSUME ListTypes, NEW l \in EventLists, NEW n \in Nat
  PROVE  /\ Good(Waiting(l, n))
         /\ \A t \in ToSet(Waiting(l, n)) : t \in AllTasks /\ t \in ToSet(events[l])
<1> DEFINE m == IF n > Len(events[l]) THEN Len(events[l]) ELSE n
<1>1. Good(events[l]) /\ m \in 0 .. Len(events[l])
  BY GoodFacts DEF ListTypes
<1>2. Waiting(l, n) = SubSeq(events[l], 1, m)
  BY DEF Waiting
<1> HIDE DEF m
<1>3. Good(SubSeq(events[l], 1, m)) /\ ToSet(SubSeq(events[l], 1, m)) \subseteq ToSet(events[l])
  BY <1>1, GoodSplit
<1> QED BY <1>2, <1>3, GoodFacts

(* A task that waits for an event waits in no other list, and is not       *)
(* ready, pending or deleted.                                              *)
LEMMA WaitingApart ==
  ASSUME AllApart, NEW l \in EventLists, NEW t \in AllTasks, t \in ToSet(events[l])
  PROVE  /\ IsAway(t) /\ ~IsReady(t) /\ t \notin ToSet(terminating) /\ t \notin ToSet(pendingReady)
         /\ \A m \in EventLists : t \in ToSet(events[m]) => l = m
<1>1. Apart(t) /\ IsWaiting(t)
  BY DEF AllApart, IsWaiting
<1> QED BY <1>1 DEF Apart

(* Tasks that wait for an event are made ready, or pending.                *)
LEMMA RemoveFromEventListFacts ==
  ASSUME ListTypes, AllApart, NonePending, uxSchedulerSuspended \in Nat, UNCHANGED prio,
         NEW l \in EventLists, NEW n \in Nat, RemoveFromEventList(l, n)
  PROVE  /\ DOMAIN ready' = Priorities /\ \A p \in Priorities : Good(ready'[p])
         /\ DOMAIN events' = EventLists /\ \A m \in EventLists : Good(events'[m])
         /\ Good(delayed') /\ Good(overflowed') /\ Good(suspended') /\ Good(terminating')
         /\ Good(pendingReady') /\ uxTopReadyPriority' \in Priorities
         /\ \/ uxSchedulerSuspended = 0 /\ pendingReady' = <<>> /\ Readies(ToSet(Waiting(l, n)))
            \/ uxSchedulerSuspended > 0 /\ Pends(ToSet(Waiting(l, n)))
<1> DEFINE us == Waiting(l, n)
           S  == ToSet(us)
<1>1. Good(us) /\ \A t \in S : t \in AllTasks /\ t \in ToSet(events[l])
  BY WaitingFacts
<1>2. events' = [events EXCEPT ![l] = Without(@, S)]
  BY DEF RemoveFromEventList
<1>3. \A t \in S : /\ IsAway(t) /\ ~IsReady(t) /\ t \notin ToSet(terminating)
                   /\ t \notin ToSet(pendingReady)
                   /\ \A m \in EventLists : t \in ToSet(events[m]) => l = m
  BY <1>1, WaitingApart
<1>4. CASE /\ uxSchedulerSuspended = 0
           /\ MakeReady(us, prio)
           /\ UNCHANGED pendingReady
  <2>1. prio \in [AllTasks -> Priorities] /\ pendingReady = <<>>
    BY <1>4 DEF ListTypes, NonePending
  <2> HIDE DEF us
  <2>2. /\ DOMAIN ready' = Priorities /\ \A p \in Priorities : Good(ready'[p])
        /\ \A p \in Priorities : ToSet(ready'[p]) =
              (ToSet(ready[p]) \ ToSet(us)) \cup {t \in ToSet(us) : prio[t] = p}
        /\ uxTopReadyPriority' \in Priorities
        /\ Good(delayed') /\ ToSet(delayed') = ToSet(delayed) \ ToSet(us)
        /\ Good(overflowed') /\ ToSet(overflowed') = ToSet(overflowed) \ ToSet(us)
        /\ Good(suspended') /\ ToSet(suspended') = ToSet(suspended) \ ToSet(us)
        /\ terminating' = terminating
    BY <1>1, <1>4, <2>1, MakeReadyFacts
  <2>3. /\ DOMAIN events' = EventLists
        /\ \A m \in EventLists : Good(events'[m]) /\ ToSet(events'[m]) = ToSet(events[m]) \ S
    BY <1>2, <1>3, GoodWithout DEF ListTypes
  <2>4. Readies(S)
    BY <1>1, <1>3, <1>4, <2>1, <2>2, <2>3 DEF Readies
  <2> QED BY <1>4, <2>1, <2>2, <2>3, <2>4 DEF us, ListTypes
<1>5. CASE /\ uxSchedulerSuspended > 0
           /\ pendingReady' = pendingReady \o us
           /\ UNCHANGED generic
  <2>0. Good(pendingReady) /\ ToSet(pendingReady) \cap S = {}
    BY <1>3 DEF ListTypes
  <2> HIDE DEF us
  <2>1. Good(pendingReady') /\ ToSet(pendingReady') = ToSet(pendingReady) \cup S
    BY <1>1, <1>5, <2>0, GoodConcat
  <2>2. /\ DOMAIN events' = EventLists
        /\ \A m \in EventLists : Good(events'[m]) /\ ToSet(events'[m]) = ToSet(events[m]) \ S
    BY <1>2, <1>3, GoodWithout DEF ListTypes
  <2>3. Pends(S)
    BY <1>1, <1>3, <1>5, <2>1, <2>2 DEF Pends
  <2> QED BY <1>5, <2>1, <2>2, <2>3 DEF us, ListTypes, generic
<1> QED BY <1>4, <1>5 DEF RemoveFromEventList

-----------------------------------------------------------------------------
(* Steps of the scheduler.                                                 *)

(* A task that executes is ready, unless it is about to yield.             *)
LEMMA Executing ==
  ASSUME ListsInv, NEW t, Executes(t), uxSchedulerSuspended = 0 \/ ~Waits(t)
  PROVE  IsReady(t) /\ t = pxCurrentTCB /\ ~pendSV /\ resuming = "no"
BY DEF ListsInv, CurrentReady, Executes

(* A step that leaves the lists alone.                                     *)
LEMMA QuietLists ==
  ASSUME ListsInv, UNCHANGED <<generic, eventItems, prio, base>>, pxCurrentTCB' \in AllTasks
  PROVE  ListTypes' /\ AllApart' /\ IdleReady' /\ \A t : IsReady(t)' <=> IsReady(t)
<1>1. UNCHANGED <<ready, uxTopReadyPriority, delayed, overflowed, suspended, terminating,
                  events, pendingReady, prio, base>>
  BY DEF generic, eventItems
<1>2. ListTypes'
  BY <1>1 DEF ListsInv, ListTypes
<1>3. \A t : IsReady(t)' <=> IsReady(t)
  BY <1>1 DEF IsReady
<1>4. AllApart' /\ IdleReady'
  BY <1>1 DEF ListsInv, AllApart, Apart, IsReady, IsAway, IsDelayed, IsWaiting, IdleReady
<1> QED BY <1>2, <1>3, <1>4

LEMMA IncrementTickFacts ==
  ASSUME ListsInv, IncrementTick, UNCHANGED <<prio, base>>, pxCurrentTCB' \in AllTasks
  PROVE  /\ ListTypes' /\ AllApart' /\ IdleReady'
         /\ \A t \in AllTasks : IsReady(t) => IsReady(t)'
         /\ terminating' = terminating
         /\ pendingReady = <<>> => pendingReady' = <<>>
         /\ \E due : Good(due) /\ AddToReady(due, prio)
<1> USE DEF ListsInv
<1> DEFINE tick    == (xTickCount + 1) % TickWidth
           wraps   == tick = 0
           list    == IF wraps THEN overflowed ELSE delayed
           unblock == IF ~wraps THEN xNextTaskUnblockTime
                      ELSE IF list = <<>> THEN MaxDelay ELSE wake[Head(list)]
           later   == {i \in DOMAIN list : wake[list[i]] > tick}
           n       == IF tick < unblock THEN 0
                      ELSE IF later = {} THEN Len(list)
                      ELSE (CHOOSE i \in later : \A j \in later : i <= j) - 1
           due     == SubSeq(list, 1, n)
           rest    == SubSeq(list, n + 1, Len(list))
           us      == ToSet(due)
<1>1. /\ delayed' = rest
      /\ overflowed' = IF wraps THEN delayed ELSE overflowed
      /\ AddToReady(due, prio)
      /\ events' = [l \in EventLists |-> Without(events[l], us)]
      /\ pendingReady' = Without(pendingReady, us)
      /\ UNCHANGED <<suspended, terminating>>
  BY DEF IncrementTick
<1>2. Good(list) /\ n \in 0 .. Len(list)
  <2>1. Good(list)
    BY DEF ListTypes
  <2>2. Len(list) \in Nat /\ later \subseteq 1 .. Len(list)
    BY <2>1, GoodFacts
  <2>3. later # {} => (CHOOSE i \in later : \A j \in later : i <= j) \in later
    <3>1. later \in SUBSET Nat
      BY <2>2
    <3> HIDE DEF later
    <3> QED BY <3>1, Least
  <2> DEFINE first == CHOOSE i \in later : \A j \in later : i <= j
  <2>4. n = IF tick < unblock THEN 0 ELSE IF later = {} THEN Len(list) ELSE first - 1
    OBVIOUS
  <2>5. later # {} => first \in 1 .. Len(list)
    BY <2>2, <2>3
  <2> HIDE DEF list, later, unblock, tick, n, first
  <2> QED BY <2>1, <2>2, <2>4, <2>5
<1> HIDE DEF n
<1>3. /\ Good(due) /\ Good(rest) /\ us \cap ToSet(rest) = {}
      /\ us \cup ToSet(rest) = ToSet(list)
  BY <1>2, GoodSplit
<1> HIDE DEF due, rest
<1>4. /\ DOMAIN ready' = Priorities /\ \A p \in Priorities : Good(ready'[p])
      /\ \A p \in Priorities : ToSet(ready'[p]) =
            (ToSet(ready[p]) \ us) \cup {t \in us : prio[t] = p}
      /\ uxTopReadyPriority' \in Priorities
  BY <1>1, <1>3, AddToReadyFacts DEF ListTypes
<1>5. /\ DOMAIN events' = EventLists
      /\ \A l \in EventLists : Good(events'[l]) /\ ToSet(events'[l]) = ToSet(events[l]) \ us
      /\ Good(pendingReady') /\ ToSet(pendingReady') = ToSet(pendingReady) \ us
  BY <1>1, GoodWithout DEF ListTypes
<1>6. ListTypes'
  <2>1. Good(delayed') /\ Good(overflowed') /\ Good(suspended') /\ Good(terminating')
    BY <1>1, <1>3 DEF ListTypes
  <2> QED BY <1>4, <1>5, <2>1 DEF ListTypes
<1>7. \A t \in us : t \in AllTasks /\ t \in ToSet(list)
  BY <1>3, GoodFacts
<1>8. \A t \in us : t \notin ToSet(suspended) /\ t \notin ToSet(terminating)
                    /\ (wraps => t \notin ToSet(delayed)) /\ (~wraps => t \notin ToSet(overflowed))
  BY <1>7 DEF AllApart, Apart, IsDelayed, IsAway
<1>9. Readies(us)
  <2>1. \/ ToSet(delayed') = ToSet(delayed) \ us /\ ToSet(overflowed') = ToSet(overflowed) \ us
        \/ ToSet(delayed') = ToSet(overflowed) \ us /\ ToSet(overflowed') = ToSet(delayed) \ us
    <3> HIDE DEF us
    <3> QED BY <1>1, <1>3, <1>8
  <2> HIDE DEF us
  <2> QED BY <1>1, <1>4, <1>5, <1>7, <1>8, <2>1 DEF Readies, ListTypes
<1>10. pendingReady = <<>> => pendingReady' = <<>>
  <2>1. Good(pendingReady)
    BY DEF ListTypes
  <2> QED BY <1>5, <2>1, GoodFacts
<1>11. \E s : Good(s) /\ AddToReady(s, prio)
  BY <1>1, <1>3
<1> HIDE DEF us
<1> QED BY <1>1, <1>6, <1>9, <1>10, <1>11, ReadiesApart

LEMMA TickLists ==
  ASSUME ListsInv, uxSchedulerSuspended \in Nat, UNCHANGED call, Tick
  PROVE  ListsInv'
<1> USE DEF ListsInv
<1>1. UNCHANGED <<prio, base, pc, pxCurrentTCB, uxSchedulerSuspended, resuming>>
      /\ (pendSV => pendSV') /\ resuming = "no"
  BY DEF Tick, priorities
<1>2. pxCurrentTCB' \in AllTasks
  BY <1>1 DEF ListTypes
<1>3. /\ ListTypes' /\ AllApart' /\ IdleReady'
      /\ \A t \in AllTasks : IsReady(t) => IsReady(t)'
      /\ terminating' = terminating
      /\ uxSchedulerSuspended = 0 => pendingReady' = <<>>
  <2>1. CASE uxSchedulerSuspended = 0 /\ IncrementTick
    BY <1>1, <1>2, <2>1, IncrementTickFacts DEF NonePending
  <2>2. CASE uxSchedulerSuspended > 0 /\ UNCHANGED <<generic, eventItems>>
    <3>1. terminating' = terminating
      BY <2>2 DEF generic
    <3> QED BY <1>1, <1>2, <2>2, <3>1, QuietLists
  <2> QED BY <2>1, <2>2 DEF Tick
<1>4. CurrentReady'
  BY <1>1, <1>3 DEF CurrentReady, Waits, ListTypes
<1> QED BY <1>1, <1>3, <1>4 DEF NonePending, CatchingUp, Freeing

LEMMA CatchUpLists ==
  ASSUME ListsInv, UNCHANGED call, CatchUp
  PROVE  ListsInv'
<1> USE DEF ListsInv
<1>1. UNCHANGED <<prio, base, pc, pxCurrentTCB, uxSchedulerSuspended>>
      /\ IncrementTick /\ resuming # "no" /\ ~pendSV
  BY DEF CatchUp, priorities, CatchingUp
<1>2. \/ pendSV' = (resuming = "yields" \/ xMissedYield) /\ resuming' = "no"
      \/ UNCHANGED <<pendSV, resuming>>
  BY DEF CatchUp, YieldAfterResume
<1>3. pxCurrentTCB' \in AllTasks
  BY <1>1 DEF ListTypes
<1>4. /\ ListTypes' /\ AllApart' /\ IdleReady'
      /\ \A t \in AllTasks : IsReady(t) => IsReady(t)'
      /\ terminating' = terminating
      /\ pendingReady = <<>> => pendingReady' = <<>>
  BY <1>1, <1>3, IncrementTickFacts
<1>5. CurrentReady'
  BY <1>1, <1>2, <1>4 DEF CurrentReady, Waits, ListTypes
<1> QED BY <1>1, <1>2, <1>4, <1>5 DEF NonePending, CatchingUp, Freeing

LEMMA SwitchLists ==
  ASSUME ListsInv, uxSchedulerSuspended \in Nat, UNCHANGED call, Switch
  PROVE  ListsInv'
<1> USE DEF ListsInv
<1>1. /\ UNCHANGED <<pc, prio, base, delayed, overflowed, suspended, terminating, events,
                     pendingReady, uxSchedulerSuspended, resuming>>
      /\ resuming = "no"
  BY DEF Switch, priorities, eventItems
<1>2. CASE uxSchedulerSuspended > 0 /\ UNCHANGED <<pxCurrentTCB, ready, uxTopReadyPriority>>
  <2>1. UNCHANGED <<generic, eventItems, prio, base>> /\ pxCurrentTCB' \in AllTasks
    BY <1>1, <1>2 DEF generic, eventItems, ListTypes
  <2>2. ListTypes' /\ AllApart' /\ IdleReady' /\ \A t : IsReady(t)' <=> IsReady(t)
    BY <2>1, QuietLists
  <2>3. CurrentReady'
    BY <1>1, <1>2, <2>2 DEF CurrentReady, Waits
  <2> QED BY <1>1, <1>2, <2>2, <2>3 DEF NonePending, CatchingUp, Freeing
<1>3. CASE uxSchedulerSuspended = 0
  <2> DEFINE inUse == {p \in 0 .. uxTopReadyPriority : ready[p] # <<>>}
             top   == CHOOSE p \in inUse : \A q \in inUse : q <= p
  <2>1. /\ uxTopReadyPriority' = top
        /\ pxCurrentTCB' = Head(ready[top])
        /\ ready' = [ready EXCEPT ![top] = NextTurn(@)]
    BY <1>3 DEF Switch
  <2>2. 0 \in Priorities /\ uxTopReadyPriority \in Priorities /\ \A p \in Priorities : Good(ready[p])
        /\ MaxPriorities \in Nat
    BY TasksAssumption DEF Priorities, ListTypes
  <2>3. ready[0] # <<>>
    BY <2>2, GoodFacts DEF IdleReady
  <2>4. inUse \in SUBSET Priorities /\ inUse # {}
    BY <2>2, <2>3 DEF Priorities
  <2>5. top \in inUse
    <3> HIDE DEF inUse
    <3> QED BY <2>4, Greatest
  <2> HIDE DEF top
  <2>6. top \in Priorities /\ ready[top] # <<>>
    BY <2>4, <2>5
  <2> HIDE DEF inUse
  <2>7. /\ Good(NextTurn(ready[top])) /\ ToSet(NextTurn(ready[top])) = ToSet(ready[top])
        /\ Head(ready[top]) \in ToSet(ready[top]) /\ Head(ready[top]) \in AllTasks
    BY <2>2, <2>6, GoodNextTurn, GoodTail
  <2>8. /\ DOMAIN ready' = Priorities
        /\ \A p \in Priorities : Good(ready'[p]) /\ ToSet(ready'[p]) = ToSet(ready[p])
    BY <2>1, <2>2, <2>7 DEF ListTypes
  <2>9. ListTypes'
    BY <1>1, <2>1, <2>6, <2>7, <2>8 DEF ListTypes
  <2>10. Readies({})
    BY <1>1, <2>8 DEF Readies, ListTypes
  <2>11. AllApart' /\ IdleReady'
    BY <2>10, ReadiesApart
  <2>12. CurrentReady'
    BY <2>1, <2>6, <2>7, <2>8 DEF CurrentReady, IsReady
  <2> QED BY <1>1, <1>3, <2>9, <2>11, <2>12 DEF NonePending, CatchingUp, Freeing
<1> QED BY <1>2, <1>3 DEF Switch

-----------------------------------------------------------------------------
(* Functions that tasks call.                                              *)

(* xTaskResumeAll: the pending tasks come out of the lists they waited in, *)
(* and a task that waits itself yields.                                    *)
LEMMA ResumeAllLists ==
  ASSUME ListsInv, uxSchedulerSuspended \in Nat \ {0}, NEW yield, ResumeAll(yield), ~pendSV,
         IsReady(pxCurrentTCB) \/ (uxSchedulerSuspended = 1 /\ yield)
  PROVE  /\ ListTypes' /\ AllApart' /\ IdleReady' /\ NonePending' /\ CurrentReady' /\ CatchingUp'
         /\ terminating' = terminating
<1> USE DEF ListsInv
<1>1. UNCHANGED <<events, prio, base, pxCurrentTCB>>
      /\ uxSchedulerSuspended' = uxSchedulerSuspended - 1
  BY DEF ResumeAll, priorities
<1>2. pxCurrentTCB' \in AllTasks /\ pxCurrentTCB \in AllTasks
  BY <1>1 DEF ListTypes
<1>3. CASE /\ uxSchedulerSuspended > 1
           /\ UNCHANGED <<generic, pendingReady, pendSV, xMissedYield, resuming>>
  <2>1. UNCHANGED <<generic, eventItems, prio, base>> /\ terminating' = terminating
    BY <1>1, <1>3 DEF eventItems, generic
  <2>2. ListTypes' /\ AllApart' /\ IdleReady' /\ \A t : IsReady(t)' <=> IsReady(t)
    BY <1>2, <2>1, QuietLists
  <2>3. CurrentReady' /\ NonePending' /\ CatchingUp'
    BY <1>1, <1>3, <2>2 DEF CurrentReady, NonePending, CatchingUp
  <2> QED BY <2>1, <2>2, <2>3
<1>4. CASE /\ uxSchedulerSuspended = 1
           /\ MakeReady(pendingReady, prio)
           /\ pendingReady' = <<>>
           /\ \/ uxMissedTicks = 0 /\ YieldAfterResume(yield \/ PendingRequireYield)
              \/ /\ resuming' = IF (yield \/ PendingRequireYield) \/ Preemption
                             THEN "yields" ELSE "returns"
                 /\ UNCHANGED <<pendSV, xMissedYield>>
  <2> DEFINE us == ToSet(pendingReady)
  <2>1. Good(pendingReady) /\ prio \in [AllTasks -> Priorities]
    BY DEF ListTypes
  <2>2. /\ DOMAIN ready' = Priorities /\ \A p \in Priorities : Good(ready'[p])
        /\ \A p \in Priorities : ToSet(ready'[p]) =
              (ToSet(ready[p]) \ us) \cup {t \in us : prio[t] = p}
        /\ uxTopReadyPriority' \in Priorities
        /\ Good(delayed') /\ ToSet(delayed') = ToSet(delayed) \ us
        /\ Good(overflowed') /\ ToSet(overflowed') = ToSet(overflowed) \ us
        /\ Good(suspended') /\ ToSet(suspended') = ToSet(suspended) \ us
        /\ terminating' = terminating
    BY <1>4, <2>1, MakeReadyFacts
  <2>3. ListTypes'
    BY <1>1, <1>4, <2>2, GoodEmpty DEF ListTypes
  <2>4. \A t \in us : t \in AllTasks /\ ~IsWaiting(t) /\ t \notin ToSet(terminating)
    BY <2>1, GoodFacts DEF AllApart, Apart
  <2>5. Readies(us)
    <3>1. \A l \in EventLists : ToSet(events'[l]) = ToSet(events[l]) \ us
      BY <1>1, <2>4 DEF IsWaiting
    <3>2. ToSet(pendingReady') = ToSet(pendingReady) \ us
      BY <1>4, GoodEmpty
    <3> HIDE DEF us
    <3> QED BY <1>1, <2>1, <2>2, <2>4, <3>1, <3>2 DEF Readies
  <2>6. AllApart' /\ IdleReady' /\ \A t \in AllTasks : IsReady(t) \/ t \in us => IsReady(t)'
    BY <2>5, ReadiesApart
  <2>7. yield => pendSV' \/ resuming' = "yields"
    BY <1>4 DEF YieldAfterResume
  <2>8. CatchingUp'
    BY <1>4 DEF CatchingUp, YieldAfterResume
  <2>9. CurrentReady'
    BY <1>1, <1>2, <1>4, <2>6, <2>7 DEF CurrentReady
  <2> QED BY <1>4, <2>2, <2>3, <2>6, <2>8, <2>9 DEF NonePending
<1> QED BY <1>3, <1>4 DEF ResumeAll

LEMMA SuspendAllLists ==
  ASSUME ListsInv, uxSchedulerSuspended \in Nat, UNCHANGED call, NEW t \in Task, TaskSuspendAll(t)
  PROVE  ListsInv'
<1> USE DEF ListsInv
<1>1. /\ UNCHANGED <<generic, eventItems, prio, base, pxCurrentTCB, pc, resuming, pendSV>>
      /\ uxSchedulerSuspended' = uxSchedulerSuspended + 1 /\ pc[t] = "run" /\ Executes(t)
  BY DEF TaskSuspendAll, SuspendAll, priorities
<1>2. pxCurrentTCB' \in AllTasks /\ UNCHANGED <<pendingReady, terminating>>
  BY <1>1 DEF ListTypes, eventItems, generic
<1>3. ListTypes' /\ AllApart' /\ IdleReady' /\ \A u : IsReady(u)' <=> IsReady(u)
  BY <1>1, <1>2, QuietLists
<1>4. IsReady(pxCurrentTCB)
  BY <1>1, Executing DEF Waits
<1>5. CurrentReady'
  BY <1>1, <1>3, <1>4 DEF CurrentReady
<1> QED BY <1>1, <1>2, <1>3, <1>5 DEF NonePending, CatchingUp, Freeing

LEMMA ResumeLists ==
  ASSUME ListsInv, InSuspension, SuspendedByRunning, DOMAIN pc = AllTasks,
         uxSchedulerSuspended \in Nat, NEW t \in Task,
         TaskResumeAll(t) \/ DelayResume(t)
  PROVE  ListsInv'
<1>0. t \in AllTasks /\ t # Idle /\ Idle \in AllTasks
  BY TasksAssumption DEF AllTasks
<1>1. CASE TaskResumeAll(t)
  <2>1. /\ Executes(t) /\ pc[t] = "run" /\ uxSchedulerSuspended > 0 /\ ResumeAll(FALSE)
        /\ UNCHANGED pc
    BY <1>1 DEF TaskResumeAll
  <2>2. IsReady(t) /\ t = pxCurrentTCB /\ ~pendSV
    BY <2>1, Executing DEF Waits
  <2>3. IsReady(pxCurrentTCB) /\ uxSchedulerSuspended \in Nat \ {0}
    BY <2>1, <2>2
  <2>4. /\ ListTypes' /\ AllApart' /\ IdleReady' /\ NonePending' /\ CurrentReady' /\ CatchingUp'
        /\ terminating' = terminating
    BY <2>1, <2>2, <2>3, ResumeAllLists
  <2> QED BY <2>1, <2>4 DEF ListsInv, Freeing
<1>2. CASE DelayResume(t)
  <2>1. /\ Executes(t) /\ pc[t] = "resume" /\ ResumeAll(TRUE)
        /\ pc' = [pc EXCEPT ![t] = "run"]
    BY <1>2 DEF DelayResume
  <2>2. uxSchedulerSuspended = 1 /\ t = pxCurrentTCB /\ ~pendSV
    BY <1>0, <2>1 DEF InSuspension, Suspending, Executes
  <2>3. uxSchedulerSuspended \in Nat \ {0} /\ (uxSchedulerSuspended = 1 /\ TRUE)
    BY <2>2
  <2>4. /\ ListTypes' /\ AllApart' /\ IdleReady' /\ NonePending' /\ CurrentReady' /\ CatchingUp'
        /\ terminating' = terminating
    BY <2>1, <2>2, <2>3, ResumeAllLists
  <2> QED BY <1>0, <2>1, <2>4 DEF ListsInv, Freeing
<1> QED BY <1>1, <1>2

(* A task that puts itself into a list of delayed tasks.                   *)
LEMMA AddToDelayedLists ==
  ASSUME ListsInv, NEW t \in Task, IsReady(t), NEW time, AddToDelayed(t, time),
         UNCHANGED <<eventItems, prio, base, pxCurrentTCB>>
  PROVE  ListTypes' /\ AllApart' /\ IdleReady' /\ terminating' = terminating
<1> USE DEF ListsInv
<1>0. t \in AllTasks /\ UNCHANGED <<events, pendingReady>>
  BY DEF AllTasks, eventItems
<1>1. /\ DOMAIN ready' = Priorities /\ \A p \in Priorities : Good(ready'[p])
      /\ \A p \in Priorities : ToSet(ready'[p]) = ToSet(ready[p]) \ {t}
      /\ uxTopReadyPriority' = uxTopReadyPriority
      /\ Good(delayed') /\ Good(overflowed')
      /\ \/ /\ ToSet(delayed') = ToSet(delayed) \cup {t}
            /\ overflowed' = overflowed
         \/ /\ ToSet(overflowed') = ToSet(overflowed) \cup {t}
            /\ delayed' = delayed
      /\ suspended' = suspended /\ terminating' = terminating
  BY AddToDelayedFacts
<1>2. ListTypes'
  BY <1>0, <1>1 DEF ListTypes
<1>3. /\ t \notin ToSet(delayed) /\ t \notin ToSet(overflowed) /\ t \notin ToSet(suspended)
      /\ t \notin ToSet(terminating) /\ t \notin ToSet(pendingReady)
      /\ \A l \in EventLists : t \notin ToSet(events[l])
  BY <1>0 DEF AllApart, Apart, IsAway, IsDelayed
<1>4. Parks(t)
  BY <1>0, <1>1, <1>3 DEF Parks, IsDelayed, IsAway
<1> QED BY <1>1, <1>2, <1>4, ParksApart

LEMMA DelayLists ==
  ASSUME ListsInv, DOMAIN pc = AllTasks, UNCHANGED call, NEW t \in Task, NEW d \in DelayTimes,
         Delay(t, d) \/ DelayUntil(t, d)
  PROVE  ListsInv'
<1> USE DEF ListsInv
<1>0. t \in AllTasks /\ t # Idle /\ Idle \in AllTasks
  BY TasksAssumption DEF AllTasks
<1>1. /\ Executes(t) /\ uxSchedulerSuspended = 0 /\ uxSchedulerSuspended' = 1
      /\ pc' = [pc EXCEPT ![t] = "resume"]
      /\ UNCHANGED <<eventItems, prio, base, pxCurrentTCB, pendSV, resuming>>
      /\ (\E time : AddToDelayed(t, time)) \/ UNCHANGED generic
  <2>1. CASE Delay(t, d)
    BY <2>1 DEF Delay, CallsFunction, SuspendAll, priorities
  <2>2. CASE DelayUntil(t, d)
    <3> DEFINE time == (previous[t] + d) % TickWidth
    <3>1. AddToDelayed(t, time) \/ UNCHANGED generic
      BY <2>2 DEF DelayUntil
    <3> HIDE DEF time
    <3> QED BY <2>2, <3>1 DEF DelayUntil, CallsFunction, SuspendAll, priorities
  <2> QED BY <2>1, <2>2
<1>2. IsReady(t) /\ t = pxCurrentTCB /\ ~pendSV /\ resuming = "no"
  BY <1>1, Executing
<1>3. ListTypes' /\ AllApart' /\ IdleReady' /\ terminating' = terminating
  <2>1. CASE \E time : AddToDelayed(t, time)
    BY <1>1, <1>2, <2>1, AddToDelayedLists
  <2>2. CASE UNCHANGED generic
    <3>1. pxCurrentTCB' \in AllTasks /\ terminating' = terminating
      BY <1>1, <2>2 DEF ListTypes, generic
    <3> QED BY <1>1, <2>2, <3>1, QuietLists
  <2> QED BY <1>1, <2>1, <2>2
<1>4. CurrentReady'
  BY <1>0, <1>1, <1>2 DEF CurrentReady, Waits
<1> QED BY <1>0, <1>1, <1>2, <1>3, <1>4 DEF NonePending, CatchingUp, Freeing

(* A task that calls a function is ready, and nobody is pending.           *)
LEMMA CallingFacts ==
  ASSUME ListsInv, NEW t \in Task, NEW f, CallsFunction(t, f)
  PROVE  /\ t \in AllTasks /\ Idle \in AllTasks /\ t # Idle
         /\ t = pxCurrentTCB /\ IsReady(t) /\ ~pendSV /\ resuming = "no"
         /\ uxSchedulerSuspended = 0 /\ pendingReady = <<>> /\ pc[t] = "run"
<1>1. Executes(t) /\ uxSchedulerSuspended = 0 /\ pc[t] = "run"
  BY DEF CallsFunction
<1>2. IsReady(t) /\ t = pxCurrentTCB /\ ~pendSV /\ resuming = "no"
  BY <1>1, Executing
<1> QED BY <1>1, <1>2, TasksAssumption DEF ListsInv, NonePending, AllTasks

(* What is left to show of a step that makes tasks ready.                  *)
LEMMA ReadiedLists ==
  ASSUME ListsInv, ListTypes', NEW us, Readies(us), IsReady(pxCurrentTCB),
         UNCHANGED <<pxCurrentTCB, terminating, uxSchedulerSuspended, resuming>>,
         pc'[Idle] = pc[Idle], NonePending', CatchingUp'
  PROVE  ListsInv'
<1>1. AllApart' /\ IdleReady' /\ \A u \in AllTasks : IsReady(u) \/ u \in us => IsReady(u)'
  BY ReadiesApart DEF ListsInv
<1>2. CurrentReady'
  BY <1>1 DEF CurrentReady, ListsInv, ListTypes
<1>3. Freeing'
  BY DEF ListsInv, Freeing
<1> QED BY <1>1, <1>2, <1>3 DEF ListsInv

LEMMA CreateLists ==
  ASSUME ListsInv, DOMAIN pc = AllTasks, NEW t \in Task, NEW u \in Task, Create(t, u)
  PROVE  ListsInv'
<1> USE DEF ListsInv
<1>1. /\ CallsFunction(t, "xTaskCreate") /\ ~Exists(u) /\ u \notin ToSet(terminating)
      /\ prio' = [prio EXCEPT ![u] = Priority[u]]
      /\ base' = [base EXCEPT ![u] = Priority[u]]
      /\ AddToReady(<<u>>, prio')
      /\ pc' = [pc EXCEPT ![u] = "run"]
      /\ UNCHANGED <<pxCurrentTCB, delayed, overflowed, suspended, terminating, events,
                     pendingReady, uxSchedulerSuspended, resuming>>
  BY DEF Create, scheduler, eventItems
<1>2. /\ t \in AllTasks /\ Idle \in AllTasks /\ t = pxCurrentTCB /\ IsReady(t)
      /\ resuming = "no" /\ pendingReady = <<>>
  BY <1>1, CallingFacts
<1>3. u \in AllTasks /\ u # Idle /\ Priority[u] \in Priorities
  BY TasksAssumption DEF AllTasks
<1>4. prio' \in [AllTasks -> Priorities] /\ base' \in [AllTasks -> Priorities]
      /\ prio'[Idle] = prio[Idle] /\ \A v \in AllTasks \ {u} : prio'[v] = prio[v]
  BY <1>1, <1>2, <1>3 DEF ListTypes
<1>5. Good(<<u>>) /\ ToSet(<<u>>) = {u}
  BY <1>3, GoodOne
<1>6. /\ DOMAIN ready' = Priorities /\ \A p \in Priorities : Good(ready'[p])
      /\ \A p \in Priorities : ToSet(ready'[p]) =
            (ToSet(ready[p]) \ ToSet(<<u>>)) \cup {v \in ToSet(<<u>>) : prio'[v] = p}
      /\ uxTopReadyPriority' \in Priorities
  BY <1>1, <1>4, <1>5, AddToReadyNewFacts
<1>7. /\ u \notin ToSet(delayed) /\ u \notin ToSet(overflowed) /\ u \notin ToSet(suspended)
      /\ u \notin ToSet(pendingReady) /\ \A l \in EventLists : u \notin ToSet(events[l])
  BY <1>1, <1>3 DEF AllApart, Apart, Exists, IsAway, IsDelayed
<1>8. ListTypes'
  BY <1>1, <1>4, <1>6 DEF ListTypes
<1>9. Readies({u})
  <2>1. ToSet(pendingReady') = ToSet(pendingReady) \ {u}
        /\ \A l \in EventLists : ToSet(events'[l]) = ToSet(events[l]) \ {u}
    BY <1>1, <1>7
  <2>2. /\ ToSet(delayed') = ToSet(delayed) \ {u} /\ ToSet(overflowed') = ToSet(overflowed) \ {u}
        /\ ToSet(suspended') = ToSet(suspended) \ {u} /\ ToSet(terminating') = ToSet(terminating)
    BY <1>1, <1>7
  <2>3. \A p \in Priorities :
           ToSet(ready'[p]) = (ToSet(ready[p]) \ {u}) \cup {v \in {u} : prio'[v] = p}
    BY <1>5, <1>6
  <2> QED BY <1>1, <1>3, <1>4, <2>1, <2>2, <2>3, SMTT(30) DEF Readies
<1>10. pc'[Idle] = pc[Idle] /\ NonePending' /\ CatchingUp'
  BY <1>1, <1>2, <1>3 DEF NonePending, CatchingUp
<1> HIDE DEF ListsInv
<1> QED BY <1>1, <1>2, <1>8, <1>9, <1>10, ReadiedLists

(* vTaskDelete and vTaskSuspend: the task leaves every list for one.       *)
LEMMA RemovedLists ==
  ASSUME ListsInv, NEW t \in Task, NEW u \in Task, NEW f, CallsFunction(t, f), Exists(u),
         RemoveFromLists(u), Yield(u = t),
         UNCHANGED <<pc, pxCurrentTCB, prio, base, uxSchedulerSuspended, resuming>>,
         \/ suspended' = Without(suspended, {u}) /\ terminating' = Append(terminating, u)
         \/ suspended' = Append(Without(suspended, {u}), u) /\ UNCHANGED terminating
  PROVE  ListsInv'
<1> USE DEF ListsInv
<1>1. /\ t \in AllTasks /\ Idle \in AllTasks /\ t = pxCurrentTCB /\ IsReady(t)
      /\ resuming = "no" /\ pendingReady = <<>> /\ uxSchedulerSuspended = 0
  BY CallingFacts
<1>2. u \in AllTasks /\ u # Idle
  BY TasksAssumption DEF AllTasks
<1>3. u \notin ToSet(terminating)
  BY <1>2 DEF Exists, AllApart, Apart
<1>4. /\ DOMAIN ready' = Priorities
      /\ \A p \in Priorities : Good(ready'[p]) /\ ToSet(ready'[p]) = ToSet(ready[p]) \ {u}
      /\ DOMAIN events' = EventLists
      /\ \A l \in EventLists : Good(events'[l]) /\ ToSet(events'[l]) = ToSet(events[l]) \ {u}
      /\ Good(delayed') /\ ToSet(delayed') = ToSet(delayed) \ {u}
      /\ Good(overflowed') /\ ToSet(overflowed') = ToSet(overflowed) \ {u}
      /\ Good(pendingReady') /\ ToSet(pendingReady') = ToSet(pendingReady) \ {u}
      /\ uxTopReadyPriority' = uxTopReadyPriority
  BY RemoveFromListsFacts
<1>5. Good(Without(suspended, {u})) /\ ToSet(Without(suspended, {u})) = ToSet(suspended) \ {u}
  BY GoodWithout DEF ListTypes
<1>6. /\ Good(suspended') /\ Good(terminating')
      /\ \/ ToSet(suspended') = ToSet(suspended) \ {u}
            /\ ToSet(terminating') = ToSet(terminating) \cup {u}
         \/ ToSet(suspended') = ToSet(suspended) \cup {u} /\ terminating' = terminating
  <2>1. CASE suspended' = Without(suspended, {u}) /\ terminating' = Append(terminating, u)
    <3>1. Good(terminating') /\ ToSet(terminating') = ToSet(terminating) \cup {u}
      BY <1>2, <1>3, <2>1, GoodAppend DEF ListTypes
    <3> QED BY <1>5, <2>1, <3>1
  <2>2. CASE suspended' = Append(Without(suspended, {u}), u) /\ UNCHANGED terminating
    <3> DEFINE rest == Without(suspended, {u})
    <3>1. Good(rest) /\ u \notin ToSet(rest)
      BY <1>5
    <3> HIDE DEF rest
    <3>2. Good(Append(rest, u)) /\ ToSet(Append(rest, u)) = ToSet(rest) \cup {u}
      BY <1>2, <3>1, GoodAppend
    <3>3. Good(suspended') /\ ToSet(suspended') = ToSet(rest) \cup {u}
      BY <2>2, <3>2 DEF rest
    <3>4. ToSet(rest) = ToSet(suspended) \ {u}
      BY <1>5 DEF rest
    <3> QED BY <2>2, <3>3, <3>4 DEF ListTypes
  <2> QED BY <2>1, <2>2
<1>7. ListTypes'
  BY <1>4, <1>6 DEF ListTypes
<1>8. Parks(u)
  <2>1. /\ u \notin ToSet(delayed') /\ u \notin ToSet(overflowed')
        /\ \A l \in EventLists : u \notin ToSet(events'[l])
    BY <1>4
  <2>2. ~IsDelayed(u)' /\ (IsAway(u)' => u \notin ToSet(terminating'))
    BY <1>3, <1>6, <2>1 DEF IsDelayed, IsAway
  <2>3. \A v \in AllTasks \ {u} :
          /\ v \in ToSet(delayed') <=> v \in ToSet(delayed)
          /\ v \in ToSet(overflowed') <=> v \in ToSet(overflowed)
          /\ v \in ToSet(suspended') <=> v \in ToSet(suspended)
          /\ v \in ToSet(terminating') <=> v \in ToSet(terminating)
    BY <1>4, <1>6
  <2>4. \A l \in EventLists : \A v \in AllTasks \ {u} :
          v \in ToSet(events'[l]) <=> v \in ToSet(events[l])
    BY <1>4
  <2> QED BY <1>4, <2>1, <2>2, <2>3, <2>4 DEF Parks
<1>9. AllApart' /\ IdleReady' /\ \A v \in AllTasks \ {u} : IsReady(v) => IsReady(v)'
  BY <1>8, ParksApart
<1>10. CurrentReady'
  BY <1>1, <1>9 DEF CurrentReady, Yield
<1>11. NonePending' /\ CatchingUp'
  <2>1. pendingReady' = <<>>
    <3>1. ToSet(pendingReady') = {}
      BY <1>1, <1>4, GoodEmpty
    <3> QED BY <1>4, <3>1, GoodFacts
  <2> QED BY <1>1, <2>1 DEF NonePending, CatchingUp
<1>12. Freeing'
  <2>1. terminating # <<>> => terminating' # <<>>
    BY <1>6, GoodFacts DEF ListTypes
  <2> QED BY <2>1 DEF Freeing
<1> QED BY <1>7, <1>9, <1>10, <1>11, <1>12

LEMMA DeleteOrSuspendLists ==
  ASSUME ListsInv, NEW t \in Task, NEW u \in Task, Delete(t, u) \/ Suspend(t, u)
  PROVE  ListsInv'
<1>1. CASE Delete(t, u)
  <2>1. /\ CallsFunction(t, "vTaskDelete") /\ Exists(u) /\ RemoveFromLists(u) /\ Yield(u = t)
        /\ UNCHANGED <<pc, pxCurrentTCB, prio, base, uxSchedulerSuspended, resuming>>
        /\ suspended' = Without(suspended, {u}) /\ terminating' = Append(terminating, u)
    BY <1>1 DEF Delete, priorities, scheduler
  <2> QED BY <2>1, RemovedLists
<1>2. CASE Suspend(t, u)
  <2>1. /\ CallsFunction(t, "vTaskSuspend") /\ Exists(u) /\ RemoveFromLists(u) /\ Yield(u = t)
        /\ UNCHANGED <<pc, pxCurrentTCB, prio, base, uxSchedulerSuspended, resuming>>
        /\ suspended' = Append(Without(suspended, {u}), u) /\ UNCHANGED terminating
    BY <1>2 DEF Suspend, priorities, scheduler
  <2> QED BY <2>1, RemovedLists
<1> QED BY <1>1, <1>2

(* A task that is in the list of suspended tasks, and in no other, becomes *)
(* ready.                                                                  *)
LEMMA SuspendedBecomesReady ==
  ASSUME ListsInv, NEW u \in Task, IsTaskSuspended(u), MakeReady(<<u>>, prio),
         UNCHANGED <<eventItems, prio, base, pxCurrentTCB>>
  PROVE  ListTypes' /\ Readies({u}) /\ terminating' = terminating
<1> USE DEF ListsInv
<1>1. u \in AllTasks /\ UNCHANGED <<events, pendingReady, prio, base, pxCurrentTCB>>
  BY DEF AllTasks, eventItems
<1>2. Good(<<u>>) /\ ToSet(<<u>>) = {u} /\ prio \in [AllTasks -> Priorities]
  BY <1>1, GoodOne DEF ListTypes
<1>3. /\ DOMAIN ready' = Priorities /\ \A p \in Priorities : Good(ready'[p])
      /\ \A p \in Priorities : ToSet(ready'[p]) =
            (ToSet(ready[p]) \ ToSet(<<u>>)) \cup {t \in ToSet(<<u>>) : prio[t] = p}
      /\ uxTopReadyPriority' \in Priorities
      /\ Good(delayed') /\ ToSet(delayed') = ToSet(delayed) \ ToSet(<<u>>)
      /\ Good(overflowed') /\ ToSet(overflowed') = ToSet(overflowed) \ ToSet(<<u>>)
      /\ Good(suspended') /\ ToSet(suspended') = ToSet(suspended) \ ToSet(<<u>>)
      /\ terminating' = terminating
  BY <1>2, MakeReadyFacts
<1>4. ListTypes'
  BY <1>1, <1>3 DEF ListTypes
<1>5. /\ u \notin ToSet(terminating) /\ u \notin ToSet(pendingReady)
      /\ \A l \in EventLists : u \notin ToSet(events[l])
  BY <1>1 DEF IsTaskSuspended, IsWaiting, AllApart, Apart, IsAway
<1>6. Readies({u})
  <2>1. ToSet(pendingReady') = ToSet(pendingReady) \ {u}
        /\ \A l \in EventLists : ToSet(events'[l]) = ToSet(events[l]) \ {u}
    BY <1>1, <1>5
  <2> QED BY <1>1, <1>2, <1>3, <1>5, <2>1 DEF Readies
<1> QED BY <1>3, <1>4, <1>6

LEMMA ResumeTaskLists ==
  ASSUME ListsInv, NEW t \in Task, NEW u \in Task, Resume(t, u)
  PROVE  ListsInv'
<1>1. /\ CallsFunction(t, "vTaskResume") /\ IsTaskSuspended(u) /\ MakeReady(<<u>>, prio)
      /\ UNCHANGED <<eventItems, prio, base, pxCurrentTCB, pc, uxSchedulerSuspended, resuming>>
  BY DEF Resume, priorities, scheduler
<1>2. IsReady(pxCurrentTCB) /\ resuming = "no" /\ pendingReady = <<>>
  BY <1>1, CallingFacts
<1>3. ListTypes' /\ Readies({u}) /\ terminating' = terminating
  BY <1>1, SuspendedBecomesReady
<1>4. NonePending' /\ CatchingUp' /\ pc'[Idle] = pc[Idle]
  BY <1>1, <1>2 DEF NonePending, CatchingUp, eventItems
<1> QED BY <1>1, <1>2, <1>3, <1>4, ReadiedLists

(* What is left to show of an interrupt that wakes tasks.                  *)
LEMMA WokenLists ==
  ASSUME ListsInv, ListTypes', NEW us, Readies(us) \/ Pends(us),
         UNCHANGED <<pc, call, pxCurrentTCB, terminating, uxSchedulerSuspended, resuming>>,
         resuming = "no", pendSV => pendSV', NonePending'
  PROVE  ListsInv'
<1> USE DEF ListsInv
<1>1. AllApart' /\ IdleReady' /\ \A u \in AllTasks : IsReady(u) => IsReady(u)'
  BY ReadiesApart, PendsApart
<1>2. CurrentReady'
  BY <1>1 DEF CurrentReady, Waits, ListTypes
<1> QED BY <1>1, <1>2 DEF CatchingUp, Freeing

LEMMA ResumeFromISRLists ==
  ASSUME ListsInv, uxSchedulerSuspended \in Nat, UNCHANGED call, NEW u \in Task, ResumeFromISR(u)
  PROVE  ListsInv'
<1>1. /\ resuming = "no" /\ IsTaskSuspended(u)
      /\ UNCHANGED <<events, prio, base, pxCurrentTCB, pc, uxSchedulerSuspended, resuming>>
  BY DEF ResumeFromISR, priorities, scheduler
<1>2. CASE /\ uxSchedulerSuspended = 0 /\ MakeReady(<<u>>, prio) /\ UNCHANGED pendingReady
           /\ (pendSV => pendSV')
  <2>1. ListTypes' /\ Readies({u}) /\ terminating' = terminating
    BY <1>1, <1>2, SuspendedBecomesReady DEF eventItems
  <2>2. NonePending'
    BY <1>1, <1>2 DEF ListsInv, NonePending
  <2> QED BY <1>1, <1>2, <2>1, <2>2, WokenLists
<1>3. CASE /\ uxSchedulerSuspended > 0 /\ pendingReady' = Append(pendingReady, u)
           /\ UNCHANGED <<generic, pendSV>>
  <2>1. /\ UNCHANGED <<ready, uxTopReadyPriority, delayed, overflowed, suspended, terminating>>
        /\ u \in AllTasks /\ IsAway(u) /\ u \notin ToSet(pendingReady) /\ ~IsWaiting(u)
    BY <1>1, <1>3 DEF generic, AllTasks, IsTaskSuspended, IsAway
  <2>2. Good(pendingReady') /\ ToSet(pendingReady') = ToSet(pendingReady) \cup {u}
    BY <1>3, <2>1, GoodAppend DEF ListsInv, ListTypes
  <2>3. ListTypes'
    BY <1>1, <2>1, <2>2 DEF ListsInv, ListTypes
  <2>4. \A l \in EventLists : ToSet(events'[l]) = ToSet(events[l]) \ {u}
    BY <1>1, <2>1 DEF IsWaiting
  <2>5. Pends({u})
    BY <1>1, <1>3, <2>1, <2>2, <2>4 DEF Pends
  <2>6. NonePending'
    BY <1>1, <1>3 DEF NonePending
  <2> QED BY <1>1, <1>3, <2>1, <2>3, <2>5, <2>6, WokenLists
<1> QED BY <1>2, <1>3 DEF ResumeFromISR

(* vTaskPrioritySet takes a task that is ready to the list of its new      *)
(* priority, unless it has an inherited one and keeps it.                  *)
LEMMA PrioritySetLists ==
  ASSUME ListsInv, NEW t \in Task, NEW u \in Task, NEW new \in NewPriorities,
         PrioritySet(t, u, new)
  PROVE  ListsInv'
<1> USE DEF ListsInv
<1>1. /\ CallsFunction(t, "vTaskPrioritySet") /\ Exists(u)
      /\ prio' = [prio EXCEPT ![u] = IF base[u] = @ THEN new ELSE @]
      /\ base' = [base EXCEPT ![u] = new]
      /\ UNCHANGED <<pc, pxCurrentTCB, delayed, overflowed, suspended, terminating, events,
                     pendingReady, uxSchedulerSuspended, resuming>>
  BY DEF PrioritySet, eventItems, scheduler
<1>2. IsReady(pxCurrentTCB) /\ resuming = "no" /\ pendingReady = <<>>
  BY <1>1, CallingFacts
<1>3. u \in AllTasks /\ u # Idle /\ new \in Priorities /\ Idle \in AllTasks
  BY TasksAssumption DEF AllTasks
<1>4. /\ prio' \in [AllTasks -> Priorities] /\ base' \in [AllTasks -> Priorities]
      /\ prio'[Idle] = prio[Idle] /\ \A v \in AllTasks \ {u} : prio'[v] = prio[v]
      /\ base[u] # prio[u] => prio'[u] = prio[u]
      /\ base[u] \in Priorities
  BY <1>1, <1>3 DEF ListTypes
<1>5. /\ NonePending' /\ CatchingUp' /\ pc'[Idle] = pc[Idle]
  BY <1>1, <1>2 DEF NonePending, CatchingUp
<1>6. CASE u \in ToSet(ready[base[u]]) /\ AddToReady(<<u>>, prio')
  <2>1. Good(<<u>>) /\ ToSet(<<u>>) = {u}
    BY <1>3, GoodOne
  <2>2. /\ DOMAIN ready' = Priorities /\ \A p \in Priorities : Good(ready'[p])
        /\ \A p \in Priorities : ToSet(ready'[p]) =
              (ToSet(ready[p]) \ ToSet(<<u>>)) \cup {v \in ToSet(<<u>>) : prio'[v] = p}
        /\ uxTopReadyPriority' \in Priorities
    BY <1>4, <1>6, <2>1, AddToReadyNewFacts
  <2>3. ListTypes'
    BY <1>1, <1>4, <2>2 DEF ListTypes
  <2>4. IsReady(u)
    BY <1>4, <1>6 DEF IsReady
  <2>5. /\ u \notin ToSet(delayed) /\ u \notin ToSet(overflowed) /\ u \notin ToSet(suspended)
        /\ u \notin ToSet(terminating) /\ u \notin ToSet(pendingReady)
        /\ \A l \in EventLists : u \notin ToSet(events[l])
    BY <1>3, <2>4 DEF AllApart, Apart, IsAway, IsDelayed
  <2>6. Readies({u})
    <3>1. ToSet(pendingReady') = ToSet(pendingReady) \ {u}
          /\ \A l \in EventLists : ToSet(events'[l]) = ToSet(events[l]) \ {u}
      BY <1>1, <2>5
    <3>2. /\ ToSet(delayed') = ToSet(delayed) \ {u}
          /\ ToSet(overflowed') = ToSet(overflowed) \ {u}
          /\ ToSet(suspended') = ToSet(suspended) \ {u}
          /\ ToSet(terminating') = ToSet(terminating)
      BY <1>1, <2>5
    <3>3. \A p \in Priorities :
             ToSet(ready'[p]) = (ToSet(ready[p]) \ {u}) \cup {v \in {u} : prio'[v] = p}
      BY <2>1, <2>2
    <3> QED BY <1>3, <1>4, <2>5, <3>1, <3>2, <3>3 DEF Readies
  <2> HIDE DEF ListsInv
  <2> QED BY <1>1, <1>2, <1>5, <2>3, <2>6, ReadiedLists
<1>7. CASE u \notin ToSet(ready[base[u]]) /\ UNCHANGED <<ready, uxTopReadyPriority>>
  <2>1. ListTypes'
    BY <1>1, <1>4, <1>7 DEF ListTypes
  <2>2. IsReady(u) => prio'[u] = prio[u]
    <3>1. IsReady(u) /\ prio[u] = base[u] => u \in ToSet(ready[base[u]])
      BY <1>3 DEF IsReady, AllApart, Apart
    <3> QED BY <1>4, <1>7, <3>1
  <2>3. Readies({})
    <3>1. \A v \in AllTasks : IsReady(v) => prio'[v] = prio[v]
      BY <1>4, <2>2
    <3> QED BY <1>1, <1>4, <1>7, <3>1 DEF Readies
  <2> HIDE DEF ListsInv
  <2> QED BY <1>1, <1>2, <1>5, <2>1, <2>3, ReadiedLists
<1> QED BY <1>6, <1>7 DEF PrioritySet

LEMMA IdleLists ==
  ASSUME ListsInv, uxSchedulerSuspended \in Nat, InSuspension, DOMAIN pc = AllTasks,
         UNCHANGED call, IdleStep
  PROVE  ListsInv'
<1> USE DEF ListsInv
<1>0. Idle \in AllTasks /\ 0 \in Priorities /\ IsReady(Idle)
  BY TasksAssumption DEF AllTasks, Priorities, IdleReady, IsReady
<1>1. CASE IdleYield \/ IdleBegin
  <2>1. /\ UNCHANGED <<generic, eventItems, prio, base, pxCurrentTCB, resuming>>
        /\ resuming = "no" /\ pxCurrentTCB = Idle
        /\ \/ UNCHANGED <<pc, uxSchedulerSuspended>>
           \/ uxSchedulerSuspended' = uxSchedulerSuspended + 1 /\ terminating # <<>>
    BY <1>1 DEF IdleYield, IdleBegin, Executes, SuspendAll, priorities, scheduler
  <2>2. pxCurrentTCB' \in AllTasks /\ UNCHANGED <<pendingReady, terminating>>
    BY <2>1 DEF ListTypes, eventItems, generic
  <2>3. ListTypes' /\ AllApart' /\ IdleReady' /\ \A t : IsReady(t)' <=> IsReady(t)
    BY <2>1, <2>2, QuietLists
  <2>4. CurrentReady'
    BY <1>0, <2>1, <2>3 DEF CurrentReady
  <2> QED BY <2>1, <2>2, <2>3, <2>4 DEF NonePending, CatchingUp, Freeing
<1>2. CASE IdleResume
  <2>1. /\ pxCurrentTCB = Idle /\ ~pendSV /\ pc[Idle] = "resume" /\ ResumeAll(FALSE)
    BY <1>2 DEF IdleResume, Executes
  <2>2. uxSchedulerSuspended \in Nat \ {0} /\ IsReady(pxCurrentTCB)
    BY <1>0, <2>1 DEF InSuspension, Suspending
  <2>3. /\ ListTypes' /\ AllApart' /\ IdleReady' /\ NonePending' /\ CurrentReady' /\ CatchingUp'
        /\ terminating' = terminating
    BY <2>1, <2>2, ResumeAllLists
  <2> QED BY <2>1, <2>3 DEF Freeing
<1>3. CASE IdleFree
  <2>1. /\ terminating' = Tail(terminating) /\ pc[Idle] = "free"
        /\ pc' = [pc EXCEPT ![Idle] = "run"]
        /\ UNCHANGED <<pxCurrentTCB, ready, uxTopReadyPriority, delayed, overflowed, suspended,
                       events, pendingReady, prio, base, uxSchedulerSuspended, resuming, pendSV>>
        /\ pxCurrentTCB = Idle
    BY <1>3 DEF IdleFree, Executes, eventItems, priorities, scheduler
  <2>2. Good(terminating) /\ terminating # <<>>
    BY <2>1 DEF ListTypes, Freeing
  <2>3. Good(terminating') /\ \A t \in ToSet(terminating') : t \in ToSet(terminating)
    BY <2>1, <2>2, GoodTail
  <2>4. ListTypes'
    BY <2>1, <2>3 DEF ListTypes
  <2>5. \A t : /\ IsReady(t)' <=> IsReady(t)
               /\ IsDelayed(t)' <=> IsDelayed(t)
               /\ IsAway(t)' <=> IsAway(t)
               /\ IsWaiting(t)' <=> IsWaiting(t)
    BY <2>1 DEF IsReady, IsDelayed, IsAway, IsWaiting
  <2>6. AllApart'
    BY <2>1, <2>3, <2>5 DEF AllApart, Apart
  <2>7. IdleReady' /\ CurrentReady'
    BY <1>0, <2>1, <2>5 DEF IdleReady, CurrentReady
  <2>8. Freeing'
    BY <1>0, <2>1 DEF Freeing
  <2> QED BY <2>1, <2>4, <2>6, <2>7, <2>8 DEF NonePending, CatchingUp
<1> QED BY <1>1, <1>2, <1>3 DEF IdleStep

(* Every step of the scheduler.                                            *)
LEMMA TaskNextLists ==
  ASSUME ListsInv, Shapes, InSuspension, SuspendedByRunning, UNCHANGED call, TaskNext
  PROVE  ListsInv'
<1>1. DOMAIN pc = AllTasks /\ uxSchedulerSuspended \in Nat
  BY DEF Shapes
<1>2. CASE Interrupt
  BY <1>1, <1>2, TickLists, ResumeFromISRLists DEF Interrupt
<1>3. CASE Switch \/ CatchUp \/ IdleStep
  BY <1>1, <1>3, SwitchLists, CatchUpLists, IdleLists
<1>4. ASSUME NEW t \in Task, ApiCall(t) PROVE ListsInv'
  <2>1. CASE TaskSuspendAll(t) \/ TaskResumeAll(t) \/ DelayResume(t)
    BY <1>1, <2>1, SuspendAllLists, ResumeLists
  <2>2. CASE \E d \in DelayTimes : Delay(t, d) \/ DelayUntil(t, d)
    BY <1>1, <2>2, DelayLists
  <2>3. CASE \E u \in Task : Create(t, u) \/ Delete(t, u) \/ Suspend(t, u) \/ Resume(t, u)
    BY <1>1, <2>3, CreateLists, DeleteOrSuspendLists, ResumeTaskLists
  <2>4. CASE \E u \in Task, p \in NewPriorities : PrioritySet(t, u, p)
    BY <2>4, PrioritySetLists
  <2> QED BY <1>4, <2>1, <2>2, <2>3, <2>4 DEF ApiCall
<1> QED BY <1>2, <1>3, <1>4 DEF TaskNext

-----------------------------------------------------------------------------
(* Steps of calls.                                                         *)

LEMMA EventListsOf ==
  ASSUME NEW c, IsCall(c)
  PROVE  /\ <<c.queue, "send">> \in EventLists /\ <<c.queue, "receive">> \in EventLists
         /\ List(c) \in EventLists
BY QueueAssumption DEF IsCall, List, Side

(* Only the running task can be on its way into a waiting list.            *)
LEMMA PlacingKept ==
  ASSUME QueueInv, Placing, NEW t \in Task, t = pxCurrentTCB, NEW place,
         pc' = [pc EXCEPT ![t] = place],
         place \in {"inherit", "place"} => call'[t].outcome = "wait",
         place = "inherit" => pxMutexHolder'[call'[t].queue] # Null
  PROVE  Placing'
<1> SUFFICES ASSUME NEW u \in Task
             PROVE  /\ pc'[u] \in {"inherit", "place"} => call'[u].outcome = "wait"
                    /\ pc'[u] = "inherit" => pxMutexHolder'[call'[u].queue] # Null
  BY DEF Placing
<1>1. u \in AllTasks /\ DOMAIN pc = AllTasks
  BY DEF QueueInv, Shapes, AllTasks
<1>2. CASE u = t
  BY <1>1, <1>2
<1>3. CASE u # t
  <2>1. pc[u] \notin {"inherit", "place"}
    BY <1>1, <1>3 DEF QueueInv, InSuspension, Suspending, LockedForRx
  <2> QED BY <1>1, <1>3, <2>1
<1> QED BY <1>2, <1>3

(* A send that finds room.                                                 *)
LEMMA SendNowLists ==
  ASSUME ListsInv, NEW t \in Task, IsReady(t), t = pxCurrentTCB, NEW c, IsCall(c), SendNow(t, c),
         UNCHANGED <<base, pxCurrentTCB, pendingReady>>, pendingReady = <<>>
  PROVE  ListTypes' /\ terminating' = terminating /\ \E us : Readies(us)
<1> USE DEF ListsInv
<1> DEFINE l     == <<c.queue, "receive">>
           woken == Waiting(l, 1)
           self  == IF Disinherits(t, c.queue) THEN <<t>> ELSE <<>>
           us    == self \o woken
<1>1. t \in AllTasks /\ t # Idle /\ l \in EventLists /\ 1 \in Nat /\ Idle \in AllTasks
  BY EventListsOf, TasksAssumption DEF AllTasks
<1>2. /\ prio' = IF Disinherits(t, c.queue) THEN [prio EXCEPT ![t] = base[t]] ELSE prio
      /\ MakeReady(us, prio')
      /\ events' = [events EXCEPT ![l] = Without(@, ToSet(woken))]
  BY DEF SendNow
<1>3. /\ prio' \in [AllTasks -> Priorities] /\ prio'[Idle] = prio[Idle]
      /\ \A u \in AllTasks : u \notin ToSet(self) => prio'[u] = prio[u]
  <2>1. CASE Disinherits(t, c.queue)
    <3>1. ToSet(self) = {t}
      BY <1>1, <2>1, GoodOne
    <3> HIDE DEF self
    <3> QED BY <1>1, <1>2, <2>1, <3>1 DEF ListTypes
  <2>2. CASE ~Disinherits(t, c.queue)
    BY <1>2, <2>2 DEF ListTypes
  <2> QED BY <2>1, <2>2
<1>4. Good(woken) /\ \A u \in ToSet(woken) : u \in AllTasks /\ u \in ToSet(events[l])
  BY <1>1, WaitingFacts
<1>5. Good(self) /\ \A u \in ToSet(self) : u = t
  BY <1>1, GoodOne, GoodEmpty
<1> HIDE DEF self, woken, l
<1>6. /\ \A u \in ToSet(woken) :
            /\ ~IsReady(u) /\ u \notin ToSet(terminating)
            /\ \A m \in EventLists : u \in ToSet(events[m]) => l = m
      /\ t \notin ToSet(terminating) /\ \A m \in EventLists : t \notin ToSet(events[m])
  <2>1. \A u \in ToSet(woken) :
            /\ ~IsReady(u) /\ u \notin ToSet(terminating)
            /\ \A m \in EventLists : u \in ToSet(events[m]) => l = m
    BY <1>1, <1>4, WaitingApart
  <2>2. t \notin ToSet(terminating) /\ \A m \in EventLists : t \notin ToSet(events[m])
    BY <1>1 DEF AllApart, Apart
  <2> QED BY <2>1, <2>2
<1>7. ToSet(self) \cap ToSet(woken) = {}
  BY <1>5, <1>6
<1>8. Good(us) /\ ToSet(us) = ToSet(self) \cup ToSet(woken)
  BY <1>4, <1>5, <1>7, GoodConcat
<1> HIDE DEF us
<1>9. /\ DOMAIN ready' = Priorities /\ \A p \in Priorities : Good(ready'[p])
      /\ \A p \in Priorities : ToSet(ready'[p]) =
            (ToSet(ready[p]) \ ToSet(us)) \cup {u \in ToSet(us) : prio'[u] = p}
      /\ uxTopReadyPriority' \in Priorities
      /\ Good(delayed') /\ ToSet(delayed') = ToSet(delayed) \ ToSet(us)
      /\ Good(overflowed') /\ ToSet(overflowed') = ToSet(overflowed) \ ToSet(us)
      /\ Good(suspended') /\ ToSet(suspended') = ToSet(suspended) \ ToSet(us)
      /\ terminating' = terminating
  BY <1>2, <1>3, <1>8, MakeReadyNewFacts
<1>10. /\ DOMAIN events' = EventLists /\ \A m \in EventLists : Good(events'[m])
       /\ \A m \in EventLists : ToSet(events'[m]) = ToSet(events[m]) \ ToSet(us)
  <2>1. Good(Without(events[l], ToSet(woken)))
        /\ ToSet(Without(events[l], ToSet(woken))) = ToSet(events[l]) \ ToSet(woken)
    BY <1>1, GoodWithout DEF ListTypes
  <2>2. \A m \in EventLists : Good(events'[m])
           /\ ToSet(events'[m]) = IF m = l THEN ToSet(events[l]) \ ToSet(woken) ELSE ToSet(events[m])
    BY <1>2, <2>1 DEF ListTypes
  <2>3. \A m \in EventLists : ToSet(events'[m]) = ToSet(events[m]) \ ToSet(us)
    BY <1>5, <1>6, <1>8, <2>2
  <2> QED BY <1>2, <2>2, <2>3 DEF ListTypes
<1>11. ListTypes'
  BY <1>3, <1>9, <1>10 DEF ListTypes
<1>12. Readies(ToSet(us))
  <2>1. ToSet(us) \subseteq AllTasks /\ ToSet(us) \cap ToSet(terminating) = {}
    BY <1>1, <1>4, <1>5, <1>6, <1>8
  <2>2. \A u \in AllTasks \ ToSet(us) : IsReady(u) => prio'[u] = prio[u]
    BY <1>3, <1>8
  <2>3. ToSet(pendingReady') = ToSet(pendingReady) \ ToSet(us)
    BY GoodEmpty
  <2> QED BY <1>3, <1>9, <1>10, <2>1, <2>2, <2>3 DEF Readies
<1> QED BY <1>9, <1>11, <1>12

(* A receive or a peek that finds a message.                               *)
LEMMA ReceiveNowLists ==
  ASSUME ListsInv, uxSchedulerSuspended = 0, NEW t \in Task, NEW c, IsCall(c), ReceiveNow(t, c),
         UNCHANGED <<base, pxCurrentTCB>>
  PROVE  ListTypes' /\ terminating' = terminating /\ \E us : Readies(us)
<1> USE DEF ListsInv
<1>1. PICK l \in EventLists : RemoveFromEventList(l, 1)
  <2>1. <<c.queue, "send">> \in EventLists /\ <<c.queue, "receive">> \in EventLists
    BY EventListsOf
  <2> QED BY <2>1 DEF ReceiveNow
<1>2. UNCHANGED prio /\ 1 \in Nat /\ uxSchedulerSuspended \in Nat /\ ~(uxSchedulerSuspended > 0)
  BY DEF ReceiveNow
<1>3. /\ DOMAIN ready' = Priorities /\ \A p \in Priorities : Good(ready'[p])
      /\ DOMAIN events' = EventLists /\ \A m \in EventLists : Good(events'[m])
      /\ Good(delayed') /\ Good(overflowed') /\ Good(suspended') /\ Good(terminating')
      /\ Good(pendingReady') /\ uxTopReadyPriority' \in Priorities
      /\ \/ uxSchedulerSuspended = 0 /\ pendingReady' = <<>> /\ Readies(ToSet(Waiting(l, 1)))
         \/ uxSchedulerSuspended > 0 /\ Pends(ToSet(Waiting(l, 1)))
  BY <1>1, <1>2, RemoveFromEventListFacts
<1>4. terminating' = terminating
  BY <1>1 DEF RemoveFromEventList, MakeReady, generic
<1> QED BY <1>2, <1>3, <1>4 DEF ListTypes

(* The test at the head of the loop.                                       *)
LEMMA TestLists ==
  ASSUME ListInv, QueueInv, NEW t \in Task, NEW c, IsCall(c), Test(t, c), TestUnchanged,
         Executes(t), uxSchedulerSuspended = 0
  PROVE  ListInv'
<1> USE DEF ListInv
<1>1. /\ t \in AllTasks /\ t # Idle /\ Idle \in AllTasks /\ DOMAIN pc = AllTasks
      /\ DOMAIN pxMutexHolder = Queues /\ Shapes
  BY TasksAssumption DEF QueueInv, Shapes, AllTasks
<1>2. /\ IsReady(t) /\ t = pxCurrentTCB /\ resuming = "no" /\ pendingReady = <<>>
  BY Executing DEF ListsInv, NonePending
<1>3. UNCHANGED <<pxCurrentTCB, base, uxSchedulerSuspended, resuming, xRxLock, xTxLock>>
  BY DEF TestUnchanged, scheduler
<1>4. \/ pc' = [pc EXCEPT ![t] = "run"]
      \/ pc' = [pc EXCEPT ![t] = "suspend"]
  BY <1>1, TestControl
<1>5. Locks' /\ Placing'
  <2>1. Placing'
    BY <1>2, <1>4, PlacingKept
  <2> QED BY <1>3, <2>1 DEF Locks
<1>6. Holders'
  <2>1. \/ UNCHANGED pxMutexHolder
        \/ pxMutexHolder' = [pxMutexHolder EXCEPT ![c.queue] = Null]
        \/ pxMutexHolder' = [pxMutexHolder EXCEPT ![c.queue] = t]
    BY DEF Test, SendNow, ReceiveNow
  <2> QED BY <1>1, <2>1 DEF Holders
<1>7. UNCHANGED pendingReady
  BY DEF Test, eventItems
<1>8. NonePending' /\ CatchingUp' /\ pc'[Idle] = pc[Idle]
  BY <1>1, <1>2, <1>3, <1>4, <1>7 DEF NonePending, CatchingUp
<1>9. ListTypes' /\ terminating' = terminating /\ \E us : Readies(us)
  <2>1. CASE SendNow(t, c)
    BY <1>2, <1>3, <1>7, <2>1, SendNowLists
  <2>2. CASE ReceiveNow(t, c)
    BY <1>3, <2>2, ReceiveNowLists
  <2>3. CASE UNCHANGED <<generic, eventItems, prio>>
    <3>1. pxCurrentTCB' \in AllTasks
      BY <1>3 DEF ListsInv, ListTypes
    <3>2. ListTypes'
      BY <1>3, <2>3, <3>1, QuietLists
    <3>3. UNCHANGED <<ready, delayed, overflowed, suspended, terminating, events, prio>>
      BY <2>3 DEF generic, eventItems
    <3>4. Readies({})
      BY <1>7, <3>3 DEF Readies, ListsInv, ListTypes
    <3> QED BY <3>2, <3>3, <3>4
  <2> QED BY <2>1, <2>2, <2>3 DEF Test
<1>10. ListsInv'
  BY <1>1, <1>2, <1>3, <1>8, <1>9, ReadiedLists
<1> QED BY <1>5, <1>6, <1>10

(* Where a task is in the rest of a call: running, with the scheduler      *)
(* suspended, and ready until it has put itself into a waiting list.       *)
LEMMA LoopFacts ==
  ASSUME ListInv, QueueInv, NEW t \in Task, NEW from \in InACall, NEW place, At(t, from, place)
  PROVE  /\ t \in AllTasks /\ t # Idle /\ Idle \in AllTasks /\ t = pxCurrentTCB
         /\ ~pendSV /\ resuming = "no" /\ pc[t] = from
         /\ pc' = [pc EXCEPT ![t] = place] /\ pc'[t] = place /\ pc'[Idle] = pc[Idle]
         /\ from \in Suspending => uxSchedulerSuspended = 1
         /\ from \notin Suspending => uxSchedulerSuspended = 0
         /\ from \notin {"unlockTx", "unlockRx", "resumeAll"} => IsReady(t)
         /\ IsReady(t) \/ call[t].outcome = "wait"
         /\ IsCall(call[t]) /\ call[t].queue \in Queues
<1>1. /\ t \in AllTasks /\ t # Idle /\ Idle \in AllTasks /\ DOMAIN pc = AllTasks
  BY TasksAssumption DEF QueueInv, Shapes, AllTasks
<1>2. /\ t = pxCurrentTCB /\ ~pendSV /\ resuming = "no" /\ pc[t] = from
      /\ pc' = [pc EXCEPT ![t] = place]
  BY DEF At, Executes
<1>3. from # "run" /\ from # "resume"
  BY DEF InACall
<1>4. from \in Suspending => uxSchedulerSuspended = 1
  BY <1>1, <1>2 DEF QueueInv, InSuspension
<1>5. from \notin Suspending => uxSchedulerSuspended = 0
  BY <1>2, <1>3, NotSuspended
<1>6. Waits(t) => from \in {"unlockTx", "unlockRx", "resumeAll"} /\ call[t].outcome = "wait"
  BY <1>2, <1>3 DEF Waits
<1>7. IsReady(t) \/ Waits(t)
  BY <1>2 DEF ListInv, ListsInv, CurrentReady
<1>8. IsCall(call[t])
  BY <1>2 DEF QueueInv, Calling
<1> QED BY <1>1, <1>2, <1>4, <1>5, <1>6, <1>7, <1>8 DEF IsCall

(* Suspending the scheduler, locking the queue, and the check.             *)
LEMMA QuietLoopLists ==
  ASSUME ListInv, QueueInv, NEW t \in Task, NEW from \in {"suspend", "lock", "check"}, NEW place,
         At(t, from, place),
         UNCHANGED <<generic, eventItems, prio, base, pxCurrentTCB, resuming, pendSV>>,
         uxSchedulerSuspended' \in {uxSchedulerSuspended, uxSchedulerSuspended + 1}
  PROVE  ListsInv'
<1> USE DEF ListInv, ListsInv
<1>1. from \in InACall /\ from \notin {"unlockTx", "unlockRx", "resumeAll"}
      /\ uxSchedulerSuspended \in Nat
  BY DEF InACall, QueueInv, Shapes
<1>2. t \in AllTasks /\ t = pxCurrentTCB /\ resuming = "no" /\ IsReady(t) /\ pc'[Idle] = pc[Idle]
  <2> HIDE DEF ListInv
  <2> QED BY <1>1, LoopFacts
<1>3. UNCHANGED <<pendingReady, terminating>>
  BY DEF generic, eventItems
<1>4. ListTypes' /\ AllApart' /\ IdleReady' /\ IsReady(t)'
  BY <1>2, QuietLists
<1>5. NonePending' /\ CurrentReady' /\ CatchingUp' /\ Freeing'
  BY <1>1, <1>2, <1>3, <1>4 DEF NonePending, CurrentReady, CatchingUp, Freeing
<1> QED BY <1>4, <1>5

LEMMA SuspendOrLockLists ==
  ASSUME ListInv, QueueInv, NEW t \in Task, CallSuspendAll(t) \/ LockQueue(t)
  PROVE  ListInv'
<1>1. PICK from \in {"suspend", "lock"}, place \in {"lock", "check"} : At(t, from, place)
  BY DEF CallSuspendAll, LockQueue
<1>2. /\ UNCHANGED <<generic, eventItems, prio, base, pxCurrentTCB, resuming, pendSV, pxMutexHolder>>
      /\ uxSchedulerSuspended' \in {uxSchedulerSuspended, uxSchedulerSuspended + 1}
  BY DEF CallSuspendAll, SuspendAll, LockQueue, InCall, ListsUnchanged, priorities, queueVars, queues
<1>3. ListsInv'
  BY <1>1, <1>2, QuietLoopLists
<1>4. Holders'
  BY <1>2 DEF ListInv, Holders
<1>5. Locks'
  <2>1. CASE UNCHANGED <<xRxLock, xTxLock>>
    BY <2>1 DEF ListInv, Locks
  <2>2. CASE LockQueue(t)
    BY <2>2 DEF LockQueue, ListInv, Locks, QueueInv, Shapes, Unmodified
  <2> QED BY <2>1, <2>2 DEF CallSuspendAll, queueVars, queues
<1>6. Placing'
  <2>1. from \in InACall
    BY DEF InACall
  <2>2. t = pxCurrentTCB /\ pc' = [pc EXCEPT ![t] = place]
    BY <1>1, <2>1, LoopFacts
  <2> QED BY <2>2, PlacingKept DEF ListInv
<1> QED BY <1>3, <1>4, <1>5, <1>6 DEF ListInv

(* A call that finds it has to wait for a mutex finds it taken.            *)
LEMMA CheckLists ==
  ASSUME ListInv, QueueInv, NEW t \in Task, Check(t)
  PROVE  ListInv'
<1> DEFINE c == call[t]
           outcome == IF HasTimedOut(t) THEN "timeout" ELSE IF Blocked(c) THEN "wait" ELSE "retry"
           place == IF outcome # "wait" THEN "unlockTx"
                    ELSE IF c.queue \in Mutexes /\ Side(c) = "receive" THEN "inherit"
                    ELSE "place"
<1>1. /\ At(t, "check", place)
      /\ \E y : call' = [call EXCEPT ![t].outcome = outcome, ![t].wait = y]
      /\ UNCHANGED <<generic, eventItems, prio, base, pxCurrentTCB, resuming, pendSV,
                     uxSchedulerSuspended, pxMutexHolder, xRxLock, xTxLock>>
  BY DEF Check, InCall, ListsUnchanged, queues
<1>2. "check" \in InACall
  BY DEF InACall
<1> HIDE DEF place
<1>3. t \in AllTasks /\ t = pxCurrentTCB /\ pc' = [pc EXCEPT ![t] = place] /\ IsCall(c)
      /\ c.queue \in Queues
  BY <1>1, <1>2, LoopFacts
<1>4. ListsInv'
  BY <1>1, QuietLoopLists
<1>5. Holders' /\ Locks'
  BY <1>1 DEF ListInv, Holders, Locks
<1>6. call'[t].outcome = outcome /\ call'[t].queue = c.queue
  <2> HIDE DEF outcome
  <2>1. PICK y : call' = [call EXCEPT ![t].outcome = outcome, ![t].wait = y]
    BY <1>1
  <2>2. call'[t] = [call[t] EXCEPT !.outcome = outcome, !.wait = y]
    BY <1>3, <2>1 DEF QueueInv, Shapes
  <2> QED BY <1>3, <2>2 DEF IsCall
<1>7. place \in {"inherit", "place"} => outcome = "wait"
  BY DEF place
<1>8. place = "inherit" => pxMutexHolder[c.queue] # Null
  <2> SUFFICES ASSUME place = "inherit" PROVE pxMutexHolder[c.queue] # Null
    OBVIOUS
  <2>1. c.queue \in Mutexes /\ Side(c) = "receive" /\ outcome = "wait"
    BY DEF place
  <2>2. Blocked(c)
    BY <2>1
  <2>3. IsEmpty(c.queue)
    BY <2>1, <2>2 DEF Blocked
  <2> QED BY <2>1, <2>3 DEF QueueInv, HeldWhenTaken
<1>9. Placing'
  BY <1>1, <1>3, <1>6, <1>7, <1>8, PlacingKept DEF ListInv
<1> QED BY <1>4, <1>5, <1>9 DEF ListInv

(* vTaskPriorityInherit takes the holder of the mutex to the list of the   *)
(* caller's priority, if it is ready.                                      *)
LEMMA InheritLists ==
  ASSUME ListInv, QueueInv, NEW t \in Task, Inherit(t)
  PROVE  ListInv'
<1> DEFINE h == pxMutexHolder[call[t].queue]
<1>1. /\ At(t, "inherit", "place")
      /\ UNCHANGED <<eventItems, events, pendingReady, base, pxCurrentTCB, resuming, pendSV,
                     uxSchedulerSuspended, delayed, overflowed, suspended, terminating,
                     call, pxMutexHolder, xRxLock, xTxLock>>
      /\ \/ UNCHANGED <<prio, generic>>
         \/ /\ prio' = [prio EXCEPT ![h] = prio[t]]
            /\ IF h \in ToSet(ready[prio[h]]) THEN AddToReady(<<h>>, prio')
               ELSE UNCHANGED <<ready, uxTopReadyPriority>>
  BY DEF Inherit, InCall, queueVars, queues, generic, eventItems
<1>2. "inherit" \in InACall /\ "inherit" \in Suspending
      /\ "inherit" \notin {"unlockTx", "unlockRx", "resumeAll"}
  BY DEF InACall, Suspending, LockedForRx
<1>3. /\ t \in AllTasks /\ Idle \in AllTasks /\ t = pxCurrentTCB /\ IsReady(t) /\ resuming = "no"
      /\ pc' = [pc EXCEPT ![t] = "place"] /\ pc'[Idle] = pc[Idle] /\ pc[t] = "inherit"
      /\ uxSchedulerSuspended = 1 /\ call[t].queue \in Queues
  BY <1>1, <1>2, LoopFacts
<1>4. call[t].outcome = "wait" /\ h \in Task
  BY <1>3 DEF ListInv, Placing, Holders
<1> HIDE DEF h
<1>5. Holders' /\ Locks'
  BY <1>1 DEF ListInv, Holders, Locks
<1>6. Placing'
  BY <1>1, <1>3, <1>4, PlacingKept DEF ListInv
<1>7. ListTypes' /\ \E us : Readies(us)
  <2> USE DEF ListInv, ListsInv
  <2>1. CASE UNCHANGED <<prio, generic>>
    <3>1. ListTypes'
      BY <1>1, <2>1 DEF ListTypes, generic
    <3>2. Readies({})
      BY <1>1, <2>1 DEF Readies, ListTypes, generic
    <3> QED BY <3>1, <3>2
  <2>2. CASE /\ prio' = [prio EXCEPT ![h] = prio[t]]
             /\ IF h \in ToSet(ready[prio[h]]) THEN AddToReady(<<h>>, prio')
                ELSE UNCHANGED <<ready, uxTopReadyPriority>>
    <3>1. h \in AllTasks /\ h # Idle
      BY <1>4, TasksAssumption DEF AllTasks
    <3>2. /\ prio' \in [AllTasks -> Priorities] /\ prio'[Idle] = prio[Idle]
          /\ \A u \in AllTasks \ {h} : prio'[u] = prio[u]
          /\ prio[h] \in Priorities
      BY <1>3, <2>2, <3>1 DEF ListTypes
    <3>3. CASE h \in ToSet(ready[prio[h]]) /\ AddToReady(<<h>>, prio')
      <4>1. Good(<<h>>) /\ ToSet(<<h>>) = {h}
        BY <3>1, GoodOne
      <4>2. /\ DOMAIN ready' = Priorities /\ \A p \in Priorities : Good(ready'[p])
            /\ \A p \in Priorities : ToSet(ready'[p]) =
                  (ToSet(ready[p]) \ ToSet(<<h>>)) \cup {u \in ToSet(<<h>>) : prio'[u] = p}
            /\ uxTopReadyPriority' \in Priorities
        BY <3>2, <3>3, <4>1, AddToReadyNewFacts
      <4>3. ListTypes'
        BY <1>1, <3>2, <4>2 DEF ListTypes
      <4>4. IsReady(h)
        BY <3>2, <3>3 DEF IsReady
      <4>5. /\ h \notin ToSet(delayed) /\ h \notin ToSet(overflowed) /\ h \notin ToSet(suspended)
            /\ h \notin ToSet(terminating) /\ h \notin ToSet(pendingReady)
            /\ \A l \in EventLists : h \notin ToSet(events[l])
        BY <3>1, <4>4 DEF AllApart, Apart, IsAway, IsDelayed
      <4>6. ToSet(pendingReady') = ToSet(pendingReady) \ {h}
            /\ \A l \in EventLists : ToSet(events'[l]) = ToSet(events[l]) \ {h}
        BY <1>1, <4>5
      <4>7. /\ ToSet(delayed') = ToSet(delayed) \ {h}
            /\ ToSet(overflowed') = ToSet(overflowed) \ {h}
            /\ ToSet(suspended') = ToSet(suspended) \ {h}
            /\ ToSet(terminating') = ToSet(terminating)
        BY <1>1, <4>5
      <4>8. \A p \in Priorities :
               ToSet(ready'[p]) = (ToSet(ready[p]) \ {h}) \cup {u \in {h} : prio'[u] = p}
        BY <4>1, <4>2
      <4>9. Readies({h})
        BY <3>1, <3>2, <4>5, <4>6, <4>7, <4>8 DEF Readies
      <4> QED BY <4>3, <4>9
    <3>4. CASE h \notin ToSet(ready[prio[h]]) /\ UNCHANGED <<ready, uxTopReadyPriority>>
      <4>1. ListTypes'
        BY <1>1, <3>2, <3>4 DEF ListTypes
      <4>2. ~IsReady(h)
        BY <3>1, <3>4 DEF IsReady, AllApart, Apart
      <4>3. \A u \in AllTasks : IsReady(u) => prio'[u] = prio[u]
        BY <3>2, <4>2
      <4>4. Readies({})
        BY <1>1, <3>2, <3>4, <4>3 DEF Readies
      <4> QED BY <4>1, <4>4
    <3> QED BY <2>2, <3>3, <3>4
  <2> QED BY <1>1, <2>1, <2>2
<1>8. NonePending' /\ CatchingUp'
  BY <1>1, <1>3 DEF NonePending, CatchingUp
<1>9. ListsInv'
  BY <1>1, <1>3, <1>7, <1>8, ReadiedLists DEF ListInv
<1> QED BY <1>5, <1>6, <1>9 DEF ListInv

(* vTaskPlaceOnEventList: the running task waits in an event list, and in  *)
(* one with the tasks that wait for a time, or without a limit.            *)
LEMMA PlaceLists ==
  ASSUME ListInv, QueueInv, NEW t \in Task, Place(t)
  PROVE  ListInv'
<1> DEFINE l == List(call[t])
<1>1. /\ At(t, "place", "unlockTx")
      /\ PlaceOnEventList(t, l, call[t].wait)
      /\ UNCHANGED <<prio, base, pxCurrentTCB, resuming, pendSV, uxSchedulerSuspended,
                     call, pxMutexHolder, xRxLock, xTxLock>>
  BY DEF Place, InCall, queueVars, queues
<1>2. "place" \in InACall /\ "place" \in Suspending
      /\ "place" \notin {"unlockTx", "unlockRx", "resumeAll"}
  BY DEF InACall, Suspending, LockedForRx
<1>3. /\ t \in AllTasks /\ t = pxCurrentTCB /\ IsReady(t) /\ resuming = "no"
      /\ pc' = [pc EXCEPT ![t] = "unlockTx"] /\ pc'[t] = "unlockTx" /\ pc'[Idle] = pc[Idle]
      /\ pc[t] = "place" /\ uxSchedulerSuspended = 1 /\ IsCall(call[t])
  BY <1>1, <1>2, LoopFacts
<1>4. call[t].outcome = "wait" /\ l \in EventLists
  BY <1>3, EventListsOf DEF ListInv, Placing
<1> HIDE DEF l
<1>5. Holders' /\ Locks'
  BY <1>1 DEF ListInv, Holders, Locks
<1>6. Placing'
  BY <1>3, PlacingKept DEF ListInv
<1> USE DEF ListInv, ListsInv
<1>7. /\ t \notin ToSet(delayed) /\ t \notin ToSet(overflowed) /\ t \notin ToSet(suspended)
      /\ t \notin ToSet(terminating) /\ t \notin ToSet(pendingReady)
      /\ \A m \in EventLists : t \notin ToSet(events[m])
  BY <1>3 DEF AllApart, Apart, IsAway, IsDelayed
<1>8. /\ DOMAIN events' = EventLists
      /\ \A m \in EventLists : Good(events'[m])
            /\ ToSet(events'[m]) = IF m = l THEN ToSet(events[l]) \cup {t} ELSE ToSet(events[m])
  <2>1. Good(events[l]) /\ t \notin ToSet(events[l])
    BY <1>4, <1>7 DEF ListTypes
  <2>2. Good(Insert(events[l], t, evalue))
        /\ ToSet(Insert(events[l], t, evalue)) = ToSet(events[l]) \cup {t}
    BY <1>3, <2>1, GoodInsert
  <2>3. events' = [events EXCEPT ![l] = Insert(@, t, evalue)]
    BY <1>1 DEF PlaceOnEventList
  <2> QED BY <1>4, <2>2, <2>3 DEF ListTypes
<1>9. pendingReady' = pendingReady
  BY <1>1 DEF PlaceOnEventList
<1>10. /\ DOMAIN ready' = Priorities /\ \A p \in Priorities : Good(ready'[p])
       /\ \A p \in Priorities : ToSet(ready'[p]) = ToSet(ready[p]) \ {t}
       /\ uxTopReadyPriority' = uxTopReadyPriority
       /\ Good(delayed') /\ Good(overflowed') /\ Good(suspended')
       /\ terminating' = terminating
       /\ \/ /\ ToSet(delayed') = ToSet(delayed) \cup {t}
             /\ overflowed' = overflowed /\ suspended' = suspended
          \/ /\ ToSet(overflowed') = ToSet(overflowed) \cup {t}
             /\ delayed' = delayed /\ suspended' = suspended
          \/ /\ ToSet(suspended') = ToSet(suspended) \cup {t}
             /\ delayed' = delayed /\ overflowed' = overflowed
  <2>1. CASE \E time : AddToDelayed(t, time)
    <3>1. /\ DOMAIN ready' = Priorities /\ \A p \in Priorities : Good(ready'[p])
          /\ \A p \in Priorities : ToSet(ready'[p]) = ToSet(ready[p]) \ {t}
          /\ uxTopReadyPriority' = uxTopReadyPriority
          /\ Good(delayed') /\ Good(overflowed')
          /\ \/ /\ ToSet(delayed') = ToSet(delayed) \cup {t}
                /\ overflowed' = overflowed
             \/ /\ ToSet(overflowed') = ToSet(overflowed) \cup {t}
                /\ delayed' = delayed
          /\ suspended' = suspended /\ terminating' = terminating
      BY <1>3, <2>1, AddToDelayedFacts
    <3> QED BY <3>1 DEF ListTypes
  <2>2. CASE /\ ready' = [p \in Priorities |-> Without(ready[p], {t})]
             /\ suspended' = Append(suspended, t)
             /\ UNCHANGED <<uxTopReadyPriority, delayed, overflowed, terminating>>
    <3>1. \A p \in Priorities : Good(Without(ready[p], {t}))
                                /\ ToSet(Without(ready[p], {t})) = ToSet(ready[p]) \ {t}
      BY GoodWithout DEF ListTypes
    <3>2. Good(suspended') /\ ToSet(suspended') = ToSet(suspended) \cup {t}
      BY <1>3, <1>7, <2>2, GoodAppend DEF ListTypes
    <3> QED BY <2>2, <3>1, <3>2 DEF ListTypes
  <2> QED BY <1>1, <2>1, <2>2 DEF PlaceOnEventList
<1>11. ListTypes'
  BY <1>1, <1>8, <1>9, <1>10 DEF ListTypes
<1>12. Parks(t)
  <2>1. \A u \in AllTasks \ {t} :
          /\ u \in ToSet(delayed') <=> u \in ToSet(delayed)
          /\ u \in ToSet(overflowed') <=> u \in ToSet(overflowed)
          /\ u \in ToSet(suspended') <=> u \in ToSet(suspended)
          /\ u \in ToSet(terminating') <=> u \in ToSet(terminating)
    BY <1>10
  <2>2. /\ IsDelayed(t)' => t \notin ToSet(suspended')
        /\ t \in ToSet(delayed') => t \notin ToSet(overflowed')
        /\ t \notin ToSet(terminating') /\ IsAway(t)'
    BY <1>7, <1>10 DEF IsDelayed, IsAway
  <2>3. /\ \A m \in EventLists : \A u \in AllTasks \ {t} :
             u \in ToSet(events'[m]) <=> u \in ToSet(events[m])
        /\ \A m \in EventLists : t \in ToSet(events'[m]) => m = l
    BY <1>7, <1>8
  <2>4. ToSet(pendingReady') = ToSet(pendingReady) \ {t}
    BY <1>7, <1>9
  <2> QED BY <1>1, <1>10, <2>1, <2>2, <2>3, <2>4 DEF Parks
<1>13. AllApart' /\ IdleReady'
  BY <1>12, ParksApart
<1>14. CurrentReady'
  BY <1>1, <1>3, <1>4 DEF CurrentReady, Waits
<1>15. NonePending' /\ CatchingUp' /\ Freeing'
  BY <1>1, <1>3, <1>9, <1>10 DEF NonePending, CatchingUp, Freeing
<1> QED BY <1>5, <1>6, <1>11, <1>13, <1>14, <1>15

(* Unlocking makes tasks pending: the scheduler is still suspended.        *)
LEMMA UnlockLists ==
  ASSUME ListInv, QueueInv, NEW t \in Task, UnlockTx(t) \/ UnlockRx(t)
  PROVE  ListInv'
<1>1. PICK from \in {"unlockTx", "unlockRx"}, place \in {"unlockRx", "resumeAll"} : At(t, from, place)
  BY DEF UnlockTx, UnlockRx
<1>2. from \in InACall /\ from \in Suspending
  BY DEF InACall, Suspending, LockedForRx
<1>3. /\ t \in AllTasks /\ t = pxCurrentTCB /\ resuming = "no" /\ pc[t] = from
      /\ pc' = [pc EXCEPT ![t] = place] /\ pc'[t] = place /\ pc'[Idle] = pc[Idle]
      /\ uxSchedulerSuspended = 1 /\ IsCall(call[t]) /\ call[t].queue \in Queues
      /\ IsReady(t) \/ call[t].outcome = "wait"
  BY <1>1, <1>2, LoopFacts
<1>4. UNCHANGED <<prio, base, pxCurrentTCB, resuming, pendSV, uxSchedulerSuspended,
                  call, pxMutexHolder>>
  BY DEF UnlockTx, UnlockRx, InCall
<1>5. PICK l \in EventLists, n \in Nat : RemoveFromEventList(l, n)
  <2>1. \A lock \in Int : ToWake(lock) \in Nat
    BY DEF ToWake, Unmodified
  <2>2. xTxLock[call[t].queue] \in Int /\ xRxLock[call[t].queue] \in Int
    BY <1>3 DEF ListInv, Locks
  <2>3. <<call[t].queue, "send">> \in EventLists /\ <<call[t].queue, "receive">> \in EventLists
    BY <1>3, EventListsOf
  <2> QED BY <2>1, <2>2, <2>3 DEF UnlockTx, UnlockRx, UnlockSide
<1>6. Holders' /\ Placing'
  BY <1>3, <1>4, PlacingKept DEF ListInv, Holders
<1>7. Locks'
  BY DEF UnlockTx, UnlockRx, ListInv, Locks, QueueInv, Shapes, Unlocked
<1> USE DEF ListInv, ListsInv
<1>8. /\ DOMAIN ready' = Priorities /\ \A p \in Priorities : Good(ready'[p])
      /\ DOMAIN events' = EventLists /\ \A m \in EventLists : Good(events'[m])
      /\ Good(delayed') /\ Good(overflowed') /\ Good(suspended') /\ Good(terminating')
      /\ Good(pendingReady') /\ uxTopReadyPriority' \in Priorities
      /\ \/ uxSchedulerSuspended = 0 /\ pendingReady' = <<>> /\ Readies(ToSet(Waiting(l, n)))
         \/ uxSchedulerSuspended > 0 /\ Pends(ToSet(Waiting(l, n)))
  <2>1. uxSchedulerSuspended \in Nat
    BY <1>3
  <2> QED BY <1>4, <1>5, <2>1, RemoveFromEventListFacts
<1>9. Pends(ToSet(Waiting(l, n)))
  BY <1>3, <1>8
<1>10. ListTypes'
  BY <1>4, <1>8 DEF ListTypes
<1>11. AllApart' /\ IdleReady' /\ \A u \in AllTasks : IsReady(u) => IsReady(u)'
  BY <1>9, PendsApart
<1>12. CurrentReady'
  BY <1>3, <1>4, <1>11 DEF CurrentReady, Waits
<1>13. NonePending' /\ CatchingUp' /\ Freeing'
  BY <1>3, <1>4, <1>9 DEF NonePending, CatchingUp, Freeing, Pends, generic
<1> QED BY <1>6, <1>7, <1>10, <1>11, <1>12, <1>13

LEMMA CallResumeAllLists ==
  ASSUME ListInv, QueueInv, NEW t \in Task, CallResumeAll(t)
  PROVE  ListInv'
<1>1. PICK place \in {"run", "test"} : At(t, "resumeAll", place)
  BY DEF CallResumeAll
<1>2. "resumeAll" \in InACall /\ "resumeAll" \in Suspending
  BY DEF InACall, Suspending
<1>3. /\ t \in AllTasks /\ t = pxCurrentTCB /\ ~pendSV
      /\ pc' = [pc EXCEPT ![t] = place] /\ pc'[Idle] = pc[Idle]
      /\ uxSchedulerSuspended = 1 /\ (IsReady(t) \/ call[t].outcome = "wait")
  BY <1>1, <1>2, LoopFacts
<1>4. PICK yield : yield = (call[t].outcome = "wait")
  OBVIOUS
<1>5. ResumeAll(yield) /\ UNCHANGED <<pxMutexHolder, xRxLock, xTxLock>>
  BY <1>4 DEF CallResumeAll, queues
<1>6. /\ uxSchedulerSuspended \in Nat \ {0}
      /\ IsReady(pxCurrentTCB) \/ (uxSchedulerSuspended = 1 /\ yield)
  <2>1. uxSchedulerSuspended \in Nat \ {0}
    BY <1>3
  <2>2. call[t].outcome = "wait" => yield
    BY <1>4, Zenon
  <2> QED BY <1>3, <2>1, <2>2, Zenon
<1>7. /\ ListTypes' /\ AllApart' /\ IdleReady' /\ NonePending' /\ CurrentReady' /\ CatchingUp'
      /\ terminating' = terminating
  BY <1>3, <1>5, <1>6, ResumeAllLists DEF ListInv
<1>8. Freeing'
  BY <1>3, <1>7 DEF ListInv, ListsInv, Freeing
<1>9. Holders' /\ Locks' /\ Placing'
  BY <1>3, <1>5, PlacingKept DEF ListInv, Holders, Locks
<1> QED BY <1>7, <1>8, <1>9 DEF ListInv, ListsInv

(* Interrupt handlers that send or receive.                                *)
LEMMA QueueInterruptLists ==
  ASSUME ListInv, QueueInv, QueueInterrupt
  PROVE  ListInv'
<1>1. PICK q \in Queues :
        ReceiveFromISR(q) \/ \E i \in Items, p \in {"back", "front"} : SendFromISR(q, i, p)
  BY DEF QueueInterrupt
<1>2. /\ resuming = "no"
      /\ UNCHANGED <<pc, pxCurrentTCB, prio, base, uxSchedulerSuspended, resuming,
                     pxMutexHolder, call>>
  BY <1>1 DEF ReceiveFromISR, SendFromISR, FromISRUnchanged, priorities, scheduler
<1>3. PICK l, lock : l \in EventLists /\ WakeFromISR(l, lock)
  <2>1. <<q, "send">> \in EventLists /\ <<q, "receive">> \in EventLists
    BY QueueAssumption
  <2> QED BY <1>1, <2>1 DEF ReceiveFromISR, SendFromISR
<1>4. Holders' /\ Placing'
  BY <1>2 DEF ListInv, Holders, Placing
<1>5. Locks'
  <2>1. \A k \in Int : Count(k) \in Int
    BY DEF Count, Unlocked
  <2>2. \/ xRxLock' = [xRxLock EXCEPT ![q] = Count(xRxLock[q])] /\ UNCHANGED xTxLock
        \/ xTxLock' = [xTxLock EXCEPT ![q] = Count(xTxLock[q])] /\ UNCHANGED xRxLock
    BY <1>1 DEF ReceiveFromISR, SendFromISR
  <2> QED BY <2>1, <2>2 DEF ListInv, Locks, QueueInv, Shapes
<1>6. uxSchedulerSuspended \in Nat
  BY DEF QueueInv, Shapes
<1>7. CASE RemoveFromEventList(l, 1) /\ (pendSV => pendSV')
  <2>1. /\ DOMAIN ready' = Priorities /\ \A p \in Priorities : Good(ready'[p])
        /\ DOMAIN events' = EventLists /\ \A m \in EventLists : Good(events'[m])
        /\ Good(delayed') /\ Good(overflowed') /\ Good(suspended') /\ Good(terminating')
        /\ Good(pendingReady') /\ uxTopReadyPriority' \in Priorities
        /\ \/ uxSchedulerSuspended = 0 /\ pendingReady' = <<>> /\ Readies(ToSet(Waiting(l, 1)))
           \/ uxSchedulerSuspended > 0 /\ Pends(ToSet(Waiting(l, 1)))
    BY <1>2, <1>3, <1>6, <1>7, RemoveFromEventListFacts DEF ListInv, ListsInv
  <2>2. terminating' = terminating
    BY <1>7 DEF RemoveFromEventList, MakeReady, generic
  <2>3. ListTypes'
    BY <1>2, <2>1 DEF ListInv, ListsInv, ListTypes
  <2>4. NonePending'
    BY <1>2, <1>6, <2>1 DEF NonePending
  <2>5. ListsInv'
    BY <1>2, <1>7, <2>1, <2>2, <2>3, <2>4, WokenLists DEF ListInv
  <2> QED BY <1>4, <1>5, <2>5 DEF ListInv
<1>8. CASE UNCHANGED <<generic, eventItems, pendSV>>
  <2>1. ListTypes'
    BY <1>2, <1>8, QuietLists DEF ListInv, ListsInv, ListTypes
  <2>2. UNCHANGED <<terminating, pendingReady, events>>
    BY <1>8 DEF generic, eventItems
  <2>3. Pends({})
    BY <1>2, <1>8, <2>2 DEF Pends
  <2>4. NonePending'
    BY <1>2, <2>2 DEF ListInv, ListsInv, NonePending
  <2>5. ListsInv'
    BY <1>2, <1>8, <2>1, <2>2, <2>3, <2>4, WokenLists DEF ListInv
  <2> QED BY <1>4, <1>5, <2>5 DEF ListInv
<1> QED BY <1>3, <1>7, <1>8 DEF WakeFromISR

-----------------------------------------------------------------------------
(* The state the scheduler starts in.                                      *)

LEMMA ListsInitially == Init => ListInv
<1> SUFFICES ASSUME Init PROVE ListInv
  OBVIOUS
<1> DEFINE created == Append(Creation, Idle)
           top == CHOOSE p \in Priorities : /\ \E t \in ToSet(created) : Priority[t] = p
                                            /\ \A t \in ToSet(created) : Priority[t] <= p
<1>1. /\ pc = [t \in AllTasks |-> "run"]
      /\ ready = [p \in Priorities |-> Those(created, {t \in AllTasks : Priority[t] = p})]
      /\ uxTopReadyPriority = top /\ pxCurrentTCB = Last(ready[top])
      /\ delayed = <<>> /\ overflowed = <<>> /\ suspended = <<>> /\ terminating = <<>>
      /\ events = [l \in EventLists |-> <<>>] /\ pendingReady = <<>>
      /\ prio = Priority /\ base = Priority
      /\ uxSchedulerSuspended = 0 /\ pendSV = FALSE /\ resuming = "no"
      /\ pxMutexHolder = [q \in Queues |-> Null]
      /\ xRxLock = [q \in Queues |-> Unlocked] /\ xTxLock = [q \in Queues |-> Unlocked]
  BY DEF Init, TaskInit
<1>2. Idle \in AllTasks /\ 0 \in Priorities /\ Priority \in [AllTasks -> Priorities]
      /\ Priority[Idle] = 0 /\ MaxPriorities \in Nat
  BY TasksAssumption DEF AllTasks, Priorities
<1>3. Good(Creation) /\ Idle \notin ToSet(Creation)
  <2>1. Creation \in Seq(Task) /\ IsInjective(Creation) /\ Idle \notin Task
    BY TasksAssumption
  <2>2. Creation \in Seq(AllTasks) /\ \A i \in DOMAIN Creation : Creation[i] \in Task
    BY <2>1 DEF AllTasks
  <2> QED BY <2>1, <2>2 DEF Good, ToSet
<1>4. Good(created) /\ ToSet(created) = ToSet(Creation) \cup {Idle}
  BY <1>2, <1>3, GoodAppend
<1> HIDE DEF created
<1>5. \A p \in Priorities :
        Good(ready[p]) /\ ToSet(ready[p]) = ToSet(created) \cap {t \in AllTasks : Priority[t] = p}
  BY <1>1, <1>4, GoodThose
<1>6. \A t \in ToSet(created) : t \in AllTasks
  BY <1>4, GoodFacts
<1>7. top \in Priorities /\ \E t \in ToSet(created) : Priority[t] = top
  <2> DEFINE used == {Priority[t] : t \in ToSet(created)}
  <2>1. used \in SUBSET Priorities /\ used # {}
    BY <1>2, <1>4, <1>6
  <2>2. PICK p \in used : \A q \in used : q <= p
    <3> HIDE DEF used
    <3> QED BY <2>1, Greatest
  <2>3. /\ p \in Priorities /\ \E t \in ToSet(created) : Priority[t] = p
        /\ \A t \in ToSet(created) : Priority[t] <= p
    BY <2>1, <2>2
  <2> QED BY <2>3
<1> HIDE DEF top
<1>8. pxCurrentTCB \in ToSet(ready[top])
  <2>1. Good(ready[top]) /\ ready[top] # <<>>
    <3>1. ToSet(ready[top]) # {}
      BY <1>5, <1>6, <1>7
    <3> QED BY <1>5, <1>7, <3>1, GoodEmpty
  <2>2. Len(ready[top]) \in 1 .. Len(ready[top])
    <3>1. Len(ready[top]) \in Nat /\ Len(ready[top]) # 0
      BY <2>1, EmptySeq DEF Good
    <3> QED BY <3>1
  <2>3. Last(ready[top]) \in ToSet(ready[top])
    BY <2>1, <2>2, GoodFacts DEF Last
  <2> QED BY <1>1, <2>3
<1>9. pxCurrentTCB \in AllTasks /\ IsReady(pxCurrentTCB)
  BY <1>5, <1>7, <1>8 DEF IsReady
<1>10. ListTypes
  BY <1>1, <1>2, <1>5, <1>7, <1>9, GoodEmpty DEF ListTypes
<1>11. AllApart
  <2>1. /\ ToSet(delayed) = {} /\ ToSet(overflowed) = {} /\ ToSet(suspended) = {}
        /\ ToSet(terminating) = {} /\ ToSet(pendingReady) = {}
        /\ \A l \in EventLists : ToSet(events[l]) = {}
    BY <1>1, GoodEmpty
  <2>2. \A t : ~IsDelayed(t) /\ ~IsAway(t)
    BY <2>1 DEF IsDelayed, IsAway
  <2> QED BY <1>1, <1>5, <2>1, <2>2 DEF AllApart, Apart
<1>12. IdleReady
  BY <1>2, <1>4, <1>5 DEF IdleReady
<1>13. NonePending /\ CurrentReady /\ CatchingUp /\ Freeing
  BY <1>1, <1>2, <1>9 DEF NonePending, CurrentReady, CatchingUp, Freeing
<1>14. Holders /\ Locks /\ Placing
  BY <1>1 DEF Holders, Locks, Placing, Unlocked, AllTasks
<1> QED BY <1>10, <1>11, <1>12, <1>13, <1>14 DEF ListInv, ListsInv

LEMMA ListsNext == QueueInv /\ ListInv /\ [Next]_vars => ListInv'
<1> SUFFICES ASSUME QueueInv, ListInv, [Next]_vars PROVE ListInv'
  OBVIOUS
<1>1. CASE TaskNext /\ UNCHANGED queueVars
  <2>1. UNCHANGED <<call, pxMutexHolder, xRxLock, xTxLock>>
    BY <1>1 DEF queueVars, queues
  <2>2. ListsInv'
    BY <1>1, <2>1, TaskNextLists DEF QueueInv, ListInv
  <2>3. Holders' /\ Locks'
    BY <2>1 DEF ListInv, Holders, Locks
  <2>4. Placing'
    <3>1. SchedulerStep
      BY <1>1, TaskNextFacts DEF QueueInv
    <3>2. \A t \in AllTasks : pc'[t] # pc[t] => pc'[t] \in {"run", "free", "resume"}
      BY <3>1 DEF SchedulerStep, Enters, Leaves, Nests, QueueInv, Shapes
    <3> QED BY <2>1, <3>2 DEF ListInv, Placing, AllTasks
  <2> QED BY <2>2, <2>3, <2>4 DEF ListInv
<1>2. CASE QueueInterrupt
  BY <1>2, QueueInterruptLists
<1>3. ASSUME NEW t \in Task, QueueStep(t) PROVE ListInv'
  <2>1. ASSUME NEW c \in Arguments(t), Begin(t, c) PROVE ListInv'
    <3>1. IsCall(c) /\ Test(t, c) /\ TestUnchanged /\ Executes(t) /\ uxSchedulerSuspended = 0
      BY <2>1 DEF Arguments, IsCall, Begin, UsesMutexProperly, CallsFunction
    <3> QED BY <3>1, TestLists
  <2>2. CASE Again(t)
    <3>1. /\ Test(t, call[t]) /\ TestUnchanged /\ Executes(t) /\ t = pxCurrentTCB
          /\ pc[t] = "test"
      BY <2>2 DEF Again, Executes
    <3>2. pc[t] \notin Suspending \cup {"run"} /\ pc[t] \in InACall
      BY <3>1 DEF Suspending, LockedForRx, InACall
    <3>3. uxSchedulerSuspended = 0 /\ IsCall(call[t])
      BY <3>1, <3>2, NotSuspended DEF QueueInv, Calling
    <3> QED BY <3>1, <3>3, TestLists
  <2>3. CASE CallSuspendAll(t) \/ LockQueue(t)
    BY <2>3, SuspendOrLockLists
  <2>4. CASE Check(t)
    BY <2>4, CheckLists
  <2>5. CASE Inherit(t)
    BY <2>5, InheritLists
  <2>6. CASE Place(t)
    BY <2>6, PlaceLists
  <2>7. CASE UnlockTx(t) \/ UnlockRx(t)
    BY <2>7, UnlockLists
  <2>8. CASE CallResumeAll(t)
    BY <2>8, CallResumeAllLists
  <2> QED BY <1>3, <2>1, <2>2, <2>3, <2>4, <2>5, <2>6, <2>7, <2>8 DEF QueueStep
<1>4. CASE UNCHANGED vars
  <2>1. UNCHANGED <<pc, pxCurrentTCB, ready, uxTopReadyPriority, delayed, overflowed, suspended,
                    terminating, events, pendingReady, prio, base, uxSchedulerSuspended, resuming,
                    pendSV, call, pxMutexHolder, xRxLock, xTxLock>>
    BY <1>4 DEF vars, taskVars, generic, eventItems, priorities, scheduler, queueVars, queues
  <2>2. ListTypes' /\ AllApart' /\ IdleReady' /\ \A t : IsReady(t)' <=> IsReady(t)
    BY <2>1, QuietLists DEF ListInv, ListsInv, ListTypes, generic, eventItems
  <2>3. CurrentReady'
    BY <2>1, <2>2 DEF ListInv, ListsInv, CurrentReady, Waits
  <2> QED BY <2>1, <2>2, <2>3 DEF ListInv, ListsInv, NonePending, CatchingUp, Freeing,
                                  Holders, Locks, Placing
<1> QED BY <1>1, <1>2, <1>3, <1>4 DEF Next

LEMMA ListsAreOne == QueueInv /\ ListInv => OneList
<1> SUFFICES ASSUME QueueInv, ListInv PROVE OneList
  OBVIOUS
<1> USE DEF ListInv, ListsInv
<1> DEFINE others == <<delayed, overflowed, suspended, terminating>>
<1>1. DOMAIN others = {1, 2, 3, 4}
      /\ others[1] = delayed /\ others[2] = overflowed
      /\ others[3] = suspended /\ others[4] = terminating
  OBVIOUS
<1>2. \A t \in AllTasks : Apart(t)
  BY DEF AllApart
<1>3. \A p \in Priorities : /\ IsInjective(ready[p])
                            /\ \A t \in ToSet(ready[p]) : prio[t] = p
  BY <1>2, GoodFacts DEF ListTypes, Good, Apart
<1>4. \A i \in DOMAIN others : /\ IsInjective(others[i])
                               /\ \A t \in ToSet(others[i]) : t \in AllTasks
  BY <1>1, GoodFacts DEF ListTypes, Good
<1>5. \A i \in DOMAIN others : \A t \in ToSet(others[i]) :
         ~IsReady(t) /\ \A j \in DOMAIN others : t \in ToSet(others[j]) => i = j
  <2> SUFFICES ASSUME NEW i \in {1, 2, 3, 4}, NEW t \in AllTasks, t \in ToSet(others[i])
               PROVE  /\ ~IsReady(t)
                      /\ \A j \in {1, 2, 3, 4} : t \in ToSet(others[j]) => i = j
    BY <1>1, <1>4
  <2> HIDE DEF others
  <2> QED BY <1>1, <1>2 DEF Apart, IsAway, IsDelayed
<1>6. IsInjective(pendingReady) /\ \A l \in EventLists : IsInjective(events[l])
  BY DEF ListTypes, Good
<1>7. pendingReady # <<>> => uxSchedulerSuspended > 0
  BY DEF NonePending, QueueInv, Shapes
<1>8. \A t \in ToSet(pendingReady) : IsAway(t) /\ ~IsWaiting(t)
  BY <1>2, GoodFacts DEF ListTypes, Apart
<1>9. \A l \in EventLists : \A t \in ToSet(events[l]) :
         IsAway(t) /\ \A m \in EventLists : t \in ToSet(events[m]) => l = m
  BY <1>2, GoodFacts DEF ListTypes, Apart
<1> QED BY <1>3, <1>4, <1>5, <1>6, <1>7, <1>8, <1>9 DEF OneList

(* The functions of tasks.c and queue.c move tasks between lists with      *)
(* vListRemove and vListInsert, in critical sections, with the scheduler   *)
(* suspended and in interrupts: each task is in one list all the same, a   *)
(* ready one in that of its priority, and one that waits for an event in   *)
(* one event list or pending.                                              *)
THEOREM OneListHolds == Spec => []OneList
<1>1. Init => QueueInv /\ ListInv
  BY QueueInitially, ListsInitially
<1>2. QueueInv /\ ListInv /\ [Next]_vars => (QueueInv /\ ListInv)'
  BY QueueNext, ListsNext
<1>3. QueueInv /\ ListInv => OneList
  BY ListsAreOne
<1> QED BY <1>1, <1>2, <1>3, PTL DEF Spec

-----------------------------------------------------------------------------
(* The running task is one of the highest priority, if there are no        *)
(* mutexes: xQueueGenericSend of a mutex gives an inherited priority back  *)
(* and does not look for ready tasks that are now more important.  With    *)
(* mutexes too, a switch takes one of the highest (SwitchTakesHighest).    *)

(* uxTopReadyPriority is no lower than any ready task.                     *)
Top == \A t \in AllTasks : IsReady(t) => prio[t] <= uxTopReadyPriority

(* No switch is on its way.  While the scheduler is suspended none is: a   *)
(* request is left to xTaskResumeAll.                                      *)
Settled == uxSchedulerSuspended # 0 \/ (~pendSV /\ resuming = "no")

NoneHigher == \A t \in AllTasks : IsReady(t) => prio[t] <= prio[pxCurrentTCB]

(* xTaskResumeAll yields after missed ticks.                               *)
TicksYield ==
    resuming # "no" => uxSchedulerSuspended = 0 /\ (Preemption => resuming = "yields")

HighestInv == Top /\ TicksYield /\ (Mutexes = {} /\ Preemption /\ Settled => NoneHigher)

(* A step in which tasks us get ready, or another priority.                *)
LEMMA StepHighest ==
  ASSUME ListsInv, ListsInv', HighestInv, TicksYield', NEW us, UNCHANGED pxCurrentTCB,
         \A t \in AllTasks : IsReady(t)' => t \in us \/ (IsReady(t) /\ prio'[t] = prio[t]),
         uxTopReadyPriority <= uxTopReadyPriority',
         \A t \in AllTasks : t \in us => prio'[t] <= uxTopReadyPriority',
         Mutexes = {} /\ Preemption /\ Settled' =>
            /\ Settled /\ prio[pxCurrentTCB] <= prio'[pxCurrentTCB]
            /\ \A t \in AllTasks : t \in us => prio'[t] <= prio'[pxCurrentTCB]
  PROVE  HighestInv'
<1>1. /\ uxTopReadyPriority \in Int /\ uxTopReadyPriority' \in Int
      /\ pxCurrentTCB \in AllTasks /\ prio[pxCurrentTCB] \in Int /\ prio'[pxCurrentTCB] \in Int
      /\ \A t \in AllTasks : prio[t] \in Int /\ prio'[t] \in Int
  BY TasksAssumption DEF ListsInv, ListTypes, Priorities
<1>2. Top'
  BY <1>1 DEF HighestInv, Top
<1>3. Mutexes = {} /\ Preemption /\ Settled' => NoneHigher'
  <2> SUFFICES ASSUME Mutexes = {}, Preemption, Settled', NEW t \in AllTasks, IsReady(t)'
               PROVE  prio'[t] <= prio'[pxCurrentTCB]
    BY DEF NoneHigher
  <2>1. CASE t \in us
    BY <2>1
  <2>2. CASE IsReady(t) /\ prio'[t] = prio[t]
    <3>1. prio[t] <= prio[pxCurrentTCB]
      BY <2>2 DEF HighestInv, NoneHigher
    <3> QED BY <1>1, <2>2, <3>1
  <2> QED BY <2>1, <2>2
<1> QED BY <1>2, <1>3 DEF HighestInv

(* A step in which no task becomes ready.                                  *)
LEMMA QuietHighest ==
  ASSUME ListsInv, ListsInv', HighestInv, TicksYield',
         UNCHANGED <<pxCurrentTCB, prio, uxTopReadyPriority>>,
         \A t \in AllTasks : IsReady(t)' => IsReady(t),
         Mutexes = {} /\ Preemption /\ Settled' => Settled
  PROVE  HighestInv'
<1>1. /\ uxTopReadyPriority \in Int /\ pxCurrentTCB \in AllTasks /\ prio[pxCurrentTCB] \in Int
  BY TasksAssumption DEF ListsInv, ListTypes, Priorities
<1>2. PICK us : us = {}
  OBVIOUS
<1>3. \A t \in AllTasks : IsReady(t)' => t \in us \/ (IsReady(t) /\ prio'[t] = prio[t])
  OBVIOUS
<1>4. /\ uxTopReadyPriority <= uxTopReadyPriority'
      /\ \A t \in AllTasks : t \in us => prio'[t] <= uxTopReadyPriority'
  BY <1>1, <1>2
<1>5. Mutexes = {} /\ Preemption /\ Settled' =>
         /\ Settled /\ prio[pxCurrentTCB] <= prio'[pxCurrentTCB]
         /\ \A t \in AllTasks : t \in us => prio'[t] <= prio'[pxCurrentTCB]
  BY <1>1, <1>2
<1> QED BY <1>3, <1>4, <1>5, StepHighest

LEMMA AddToReadyTop ==
  ASSUME ListTypes, NEW us, Good(us), NEW priority \in [AllTasks -> Priorities],
         AddToReady(us, priority)
  PROVE  /\ \A t : IsReady(t)' => IsReady(t) \/ t \in ToSet(us)
         /\ uxTopReadyPriority <= uxTopReadyPriority'
         /\ \A t \in ToSet(us) : t \in AllTasks /\ priority[t] <= uxTopReadyPriority'
<1> DEFINE tops == {priority[u] : u \in ToSet(us)} \cup {uxTopReadyPriority}
<1>1. \A t \in ToSet(us) : t \in AllTasks
  BY GoodFacts
<1>2. tops \in SUBSET Priorities /\ tops # {} /\ MaxPriorities \in Nat
  BY <1>1, TasksAssumption DEF ListTypes
<1>3. uxTopReadyPriority' = CHOOSE p \in tops : \A q \in tops : q <= p
  BY DEF AddToReady
<1>4. \A q \in tops : q <= uxTopReadyPriority'
  <2> HIDE DEF tops
  <2> QED BY <1>2, <1>3, Greatest
<1>5. \A t : IsReady(t)' => IsReady(t) \/ t \in ToSet(us)
  BY AddToReadyFacts DEF IsReady
<1> QED BY <1>1, <1>4, <1>5

(* The same with the priorities as the step leaves them.                   *)
LEMMA AddToReadyNewTop ==
  ASSUME ListTypes, NEW us, Good(us), prio' \in [AllTasks -> Priorities], AddToReady(us, prio')
  PROVE  /\ \A t : IsReady(t)' => IsReady(t) \/ t \in ToSet(us)
         /\ uxTopReadyPriority <= uxTopReadyPriority'
         /\ \A t \in ToSet(us) : t \in AllTasks /\ prio'[t] <= uxTopReadyPriority'
<1>1. PICK new : new = prio'
  OBVIOUS
<1>2. AddToReady(us, new) /\ new \in [AllTasks -> Priorities]
  BY <1>1 DEF AddToReady
<1>3. /\ \A t : IsReady(t)' => IsReady(t) \/ t \in ToSet(us)
      /\ uxTopReadyPriority <= uxTopReadyPriority'
      /\ \A t \in ToSet(us) : t \in AllTasks /\ new[t] <= uxTopReadyPriority'
  BY <1>2, AddToReadyTop
<1> QED BY <1>1, <1>3

(* A step that makes tasks ready, of which the highest gets the processor. *)
LEMMA ReadyHighest ==
  ASSUME ListsInv, ListsInv', HighestInv, TicksYield', UNCHANGED <<pxCurrentTCB, prio>>,
         NEW us, Good(us), AddToReady(us, prio),
         Mutexes = {} /\ Preemption /\ Settled' =>
            /\ Settled /\ \A t \in ToSet(us) : prio[t] <= prio[pxCurrentTCB]
  PROVE  HighestInv'
<1>1. prio \in [AllTasks -> Priorities] /\ pxCurrentTCB \in AllTasks /\ prio[pxCurrentTCB] \in Int
  BY TasksAssumption DEF ListsInv, ListTypes, Priorities
<1>2. /\ \A t : IsReady(t)' => IsReady(t) \/ t \in ToSet(us)
      /\ uxTopReadyPriority <= uxTopReadyPriority'
      /\ \A t \in ToSet(us) : t \in AllTasks /\ prio[t] <= uxTopReadyPriority'
  BY <1>1, AddToReadyTop DEF ListsInv
<1>3. prio[pxCurrentTCB] <= prio'[pxCurrentTCB]
  BY <1>1
<1> QED BY <1>2, <1>3, StepHighest

(* Steps of the scheduler.                                                 *)

LEMMA TickHighest ==
  ASSUME ListsInv, ListsInv', HighestInv, uxSchedulerSuspended \in Nat, Tick
  PROVE  HighestInv'
<1>1. /\ UNCHANGED <<prio, base, pxCurrentTCB, uxSchedulerSuspended, resuming>>
      /\ resuming = "no"
  BY DEF Tick, priorities
<1>2. TicksYield' /\ pxCurrentTCB' \in AllTasks
  BY <1>1 DEF TicksYield, ListsInv, ListTypes
<1>3. CASE uxSchedulerSuspended = 0 /\ IncrementTick
  <2>1. PICK due : Good(due) /\ AddToReady(due, prio)
    BY <1>1, <1>2, <1>3, IncrementTickFacts
  <2>2. Preemption => pendSV'
    BY DEF Tick
  <2>3. ~(Preemption /\ Settled')
    BY <1>1, <1>3, <2>2 DEF Settled
  <2> QED BY <1>1, <1>2, <2>1, <2>3, ReadyHighest
<1>4. CASE uxSchedulerSuspended > 0 /\ UNCHANGED generic
  <2>1. UNCHANGED <<ready, uxTopReadyPriority>> /\ Settled
    BY <1>4 DEF generic, Settled
  <2> QED BY <1>1, <1>2, <2>1, QuietHighest DEF IsReady
<1> QED BY <1>3, <1>4 DEF Tick

LEMMA CatchUpHighest ==
  ASSUME ListsInv, ListsInv', HighestInv, CatchUp
  PROVE  HighestInv'
<1>1. /\ UNCHANGED <<prio, base, pxCurrentTCB, uxSchedulerSuspended>>
      /\ IncrementTick /\ resuming # "no"
  BY DEF CatchUp, priorities
<1>2. uxSchedulerSuspended = 0 /\ (Preemption => resuming = "yields")
  BY <1>1 DEF HighestInv, TicksYield
<1>3. \/ pendSV' = (resuming = "yields" \/ xMissedYield) /\ resuming' = "no"
      \/ UNCHANGED resuming
  BY DEF CatchUp, YieldAfterResume
<1>4. TicksYield' /\ pxCurrentTCB' \in AllTasks
  BY <1>1, <1>2, <1>3 DEF TicksYield, ListsInv, ListTypes
<1>5. ~(Preemption /\ Settled')
  BY <1>1, <1>2, <1>3 DEF Settled
<1>6. PICK due : Good(due) /\ AddToReady(due, prio)
  BY <1>1, <1>4, IncrementTickFacts
<1> QED BY <1>1, <1>4, <1>5, <1>6, ReadyHighest

(* vTaskSwitchContext looks for the highest priority from                  *)
(* uxTopReadyPriority on.                                                  *)
LEMMA SwitchTakesHighest ==
  ASSUME ListsInv, Top, Switch, uxSchedulerSuspended = 0
  PROVE  /\ \A t \in AllTasks : IsReady(t) => prio[t] <= prio[pxCurrentTCB']
         /\ \A t \in AllTasks : IsReady(t) => prio[t] <= uxTopReadyPriority'
         /\ \A t : IsReady(t)' <=> IsReady(t)
<1> DEFINE inUse == {p \in 0 .. uxTopReadyPriority : ready[p] # <<>>}
           top   == CHOOSE p \in inUse : \A q \in inUse : q <= p
<1>1. /\ uxTopReadyPriority' = top
      /\ pxCurrentTCB' = Head(ready[top])
      /\ ready' = [ready EXCEPT ![top] = NextTurn(@)]
  BY DEF Switch
<1>2. /\ 0 \in Priorities /\ uxTopReadyPriority \in Priorities /\ MaxPriorities \in Nat
      /\ \A p \in Priorities : Good(ready[p])
  BY TasksAssumption DEF Priorities, ListsInv, ListTypes
<1>3. ready[0] # <<>>
  BY <1>2, GoodFacts DEF ListsInv, IdleReady
<1>4. inUse \in SUBSET Priorities /\ inUse # {}
  BY <1>2, <1>3 DEF Priorities
<1>5. top \in inUse /\ \A q \in inUse : q <= top
  <2> HIDE DEF inUse
  <2> QED BY <1>4, Greatest
<1> HIDE DEF top
<1>6. top \in Priorities /\ ready[top] # <<>>
  BY <1>4, <1>5
<1>7. ASSUME NEW t \in AllTasks, IsReady(t) PROVE prio[t] <= top
  <2>1. PICK p \in Priorities : t \in ToSet(ready[p])
    BY <1>7 DEF IsReady
  <2>2. p = prio[t] /\ p <= uxTopReadyPriority
    BY <1>7, <2>1 DEF ListsInv, AllApart, Apart, Top
  <2>3. ready[p] # <<>>
    BY <1>2, <2>1, GoodEmpty
  <2>4. p \in inUse
    BY <1>2, <2>2, <2>3 DEF Priorities
  <2> QED BY <1>5, <2>2, <2>4
<1>8. /\ ToSet(NextTurn(ready[top])) = ToSet(ready[top])
      /\ Head(ready[top]) \in ToSet(ready[top]) /\ Head(ready[top]) \in AllTasks
  BY <1>2, <1>6, GoodNextTurn, GoodTail
<1>9. prio[pxCurrentTCB'] = top
  BY <1>1, <1>6, <1>8 DEF ListsInv, AllApart, Apart
<1> HIDE DEF inUse
<1>10. \A t : IsReady(t)' <=> IsReady(t)
  BY <1>1, <1>2, <1>6, <1>8 DEF IsReady, ListsInv, ListTypes
<1> QED BY <1>1, <1>7, <1>9, <1>10

LEMMA SwitchHighest ==
  ASSUME ListsInv, ListsInv', HighestInv, uxSchedulerSuspended \in Nat, Switch
  PROVE  HighestInv'
<1>1. UNCHANGED <<prio, uxSchedulerSuspended, resuming>> /\ resuming = "no"
  BY DEF Switch, priorities
<1>2. TicksYield'
  BY <1>1 DEF TicksYield
<1>3. CASE uxSchedulerSuspended > 0 /\ UNCHANGED <<pxCurrentTCB, ready, uxTopReadyPriority>>
  <2>1. Settled
    BY <1>3 DEF Settled
  <2> QED BY <1>1, <1>2, <1>3, <2>1, QuietHighest DEF IsReady
<1>4. CASE uxSchedulerSuspended = 0
  <2>1. /\ \A t \in AllTasks : IsReady(t) => prio[t] <= prio[pxCurrentTCB']
        /\ \A t \in AllTasks : IsReady(t) => prio[t] <= uxTopReadyPriority'
        /\ \A t : IsReady(t)' <=> IsReady(t)
    BY <1>4, SwitchTakesHighest DEF HighestInv
  <2> QED BY <1>1, <1>2, <2>1 DEF HighestInv, Top, NoneHigher
<1> QED BY <1>3, <1>4 DEF Switch

(* Functions that tasks call.                                              *)

LEMMA WakesLower ==
  ASSUME ListsInv, NEW us, Good(us), ~WakesNoLower(us)
  PROVE  \A t \in ToSet(us) : prio[t] <= prio[pxCurrentTCB]
<1>1. pxCurrentTCB \in AllTasks /\ \A t \in AllTasks : prio[t] \in Int
  BY TasksAssumption DEF ListsInv, ListTypes, Priorities
<1>2. ASSUME NEW t \in ToSet(us) PROVE prio[t] <= prio[pxCurrentTCB]
  <2>1. t \in AllTasks /\ ~(prio[t] >= prio[pxCurrentTCB])
    BY <1>2, GoodFacts DEF WakesNoLower
  <2> QED BY <1>1, <2>1
<1> QED BY <1>2

(* xTaskResumeAll yields for a pending task at least as important as the   *)
(* running one.                                                            *)
LEMMA ResumeAllHighest ==
  ASSUME ListsInv, ListsInv', HighestInv, uxSchedulerSuspended \in Nat \ {0}, resuming = "no",
         NEW yield, ResumeAll(yield)
  PROVE  HighestInv'
<1>1. /\ UNCHANGED <<prio, pxCurrentTCB>>
      /\ uxSchedulerSuspended' = uxSchedulerSuspended - 1
  BY DEF ResumeAll, priorities
<1>2. Settled
  BY DEF Settled
<1>3. CASE uxSchedulerSuspended > 1 /\ UNCHANGED <<generic, resuming>>
  <2>1. UNCHANGED <<ready, uxTopReadyPriority>> /\ TicksYield'
    BY <1>3 DEF generic, TicksYield
  <2> QED BY <1>1, <1>2, <2>1, QuietHighest DEF IsReady
<1>4. CASE /\ uxSchedulerSuspended = 1
           /\ MakeReady(pendingReady, prio)
           /\ \/ YieldAfterResume(yield \/ PendingRequireYield)
              \/ resuming' = IF (yield \/ PendingRequireYield) \/ Preemption
                             THEN "yields" ELSE "returns"
  <2>1. Good(pendingReady) /\ AddToReady(pendingReady, prio)
    BY <1>4 DEF MakeReady, ListsInv, ListTypes
  <2>2. TicksYield' /\ (Settled' => ~PendingRequireYield)
    <3>1. uxSchedulerSuspended' = 0
      BY <1>1, <1>4
    <3>2. CASE YieldAfterResume(yield \/ PendingRequireYield)
      <4>1. resuming' = "no" /\ (PendingRequireYield => pendSV')
        BY <3>2, Zenon DEF YieldAfterResume
      <4> QED BY <3>1, <4>1 DEF TicksYield, Settled
    <3>3. CASE resuming' = IF (yield \/ PendingRequireYield) \/ Preemption
                             THEN "yields" ELSE "returns"
      <4>1. resuming' \in {"yields", "returns"} /\ (Preemption => resuming' = "yields")
        BY <3>3, Zenon
      <4> QED BY <3>1, <4>1 DEF TicksYield, Settled
    <3> QED BY <1>4, <3>2, <3>3
  <2>3. ~PendingRequireYield => \A t \in ToSet(pendingReady) : prio[t] <= prio[pxCurrentTCB]
    BY <2>1, WakesLower DEF PendingRequireYield
  <2> QED BY <1>1, <1>2, <2>1, <2>2, <2>3, ReadyHighest
<1> QED BY <1>3, <1>4 DEF ResumeAll

(* Steps that begin a suspension, take the task's own item out of the      *)
(* ready lists, or both.                                                   *)
LEMMA DelayHighest ==
  ASSUME ListsInv, ListsInv', HighestInv, uxSchedulerSuspended \in Nat,
         NEW t \in Task, NEW d,
         TaskSuspendAll(t) \/ Delay(t, d) \/ DelayUntil(t, d)
  PROVE  HighestInv'
<1>1. /\ Executes(t)
      /\ UNCHANGED <<prio, pxCurrentTCB, resuming, pendSV>>
      /\ (\E time : AddToDelayed(t, time)) \/ UNCHANGED generic
  <2>1. CASE TaskSuspendAll(t)
    BY <2>1 DEF TaskSuspendAll, priorities
  <2>2. CASE Delay(t, d)
    BY <2>2 DEF Delay, CallsFunction, priorities
  <2>3. CASE DelayUntil(t, d)
    <3> DEFINE time == (previous[t] + d) % TickWidth
    <3>1. AddToDelayed(t, time) \/ UNCHANGED generic
      BY <2>3 DEF DelayUntil
    <3> HIDE DEF time
    <3> QED BY <2>3, <3>1 DEF DelayUntil, CallsFunction, priorities
  <2> QED BY <2>1, <2>2, <2>3
<1>2. Settled /\ resuming = "no"
  BY <1>1 DEF Executes, Settled
<1>3. TicksYield'
  BY <1>1, <1>2 DEF TicksYield
<1>4. uxTopReadyPriority' = uxTopReadyPriority /\ \A u \in AllTasks : IsReady(u)' => IsReady(u)
  <2>1. CASE \E time : AddToDelayed(t, time)
    <3>1. /\ ready' = [p \in Priorities |-> Without(ready[p], {t})]
          /\ uxTopReadyPriority' = uxTopReadyPriority
      BY <2>1 DEF AddToDelayed
    <3> QED BY <3>1, GoodWithout DEF IsReady, ListsInv, ListTypes
  <2>2. CASE UNCHANGED generic
    BY <2>2 DEF generic, IsReady
  <2> QED BY <1>1, <2>1, <2>2
<1> QED BY <1>1, <1>2, <1>3, <1>4, QuietHighest

LEMMA CreateHighest ==
  ASSUME ListsInv, ListsInv', HighestInv, NEW t \in Task, NEW u \in Task, Create(t, u)
  PROVE  HighestInv'
<1>1. /\ CallsFunction(t, "xTaskCreate") /\ ~Exists(u)
      /\ prio' = [prio EXCEPT ![u] = Priority[u]]
      /\ AddToReady(<<u>>, prio')
      /\ UNCHANGED <<pxCurrentTCB, uxSchedulerSuspended, resuming>>
      /\ pendSV' = (prio[t] < Priority[u])
  BY DEF Create, scheduler, Yield
<1>2. /\ t \in AllTasks /\ t = pxCurrentTCB /\ IsReady(t) /\ resuming = "no" /\ ~pendSV
  BY <1>1, CallingFacts
<1>3. u \in AllTasks /\ u # t /\ prio[t] \in Int /\ Priority[u] \in Int
      /\ prio' \in [AllTasks -> Priorities]
  BY <1>1, <1>2, TasksAssumption DEF AllTasks, Exists, ListsInv, ListTypes, Priorities
<1>4. Good(<<u>>) /\ ToSet(<<u>>) = {u}
  BY <1>3, GoodOne
<1>5. /\ \A v : IsReady(v)' => IsReady(v) \/ v \in ToSet(<<u>>)
      /\ uxTopReadyPriority <= uxTopReadyPriority'
      /\ \A v \in ToSet(<<u>>) : v \in AllTasks /\ prio'[v] <= uxTopReadyPriority'
  BY <1>1, <1>3, <1>4, AddToReadyNewTop DEF ListsInv
<1>6. Settled /\ TicksYield'
  BY <1>1, <1>2 DEF Settled, TicksYield
<1>7. prio'[u] = Priority[u] /\ \A v \in AllTasks : v # u => prio'[v] = prio[v]
  BY <1>1, <1>3 DEF ListsInv, ListTypes
<1>8. Settled' => prio'[u] <= prio'[pxCurrentTCB] \/ uxSchedulerSuspended # 0
  <2>1. prio[t] < Priority[u] => pendSV'
    BY <1>1, Zenon
  <2> QED BY <1>1, <1>2, <1>3, <1>7, <2>1 DEF Settled
<1>9. uxSchedulerSuspended = 0 /\ prio[pxCurrentTCB] <= prio'[pxCurrentTCB]
  BY <1>1, <1>2, <1>3, <1>7 DEF CallsFunction
<1>10. PICK us : us = {u}
  OBVIOUS
<1>11. \A v \in AllTasks : IsReady(v)' => v \in us \/ (IsReady(v) /\ prio'[v] = prio[v])
  BY <1>4, <1>5, <1>7, <1>10
<1>12. /\ \A v \in AllTasks : v \in us => prio'[v] <= uxTopReadyPriority'
       /\ Settled' => \A v \in AllTasks : v \in us => prio'[v] <= prio'[pxCurrentTCB]
  BY <1>4, <1>5, <1>8, <1>9, <1>10
<1> QED BY <1>1, <1>5, <1>6, <1>9, <1>11, <1>12, StepHighest

LEMMA RemovedHighest ==
  ASSUME ListsInv, ListsInv', HighestInv, NEW t \in Task, NEW u \in Task,
         Delete(t, u) \/ Suspend(t, u)
  PROVE  HighestInv'
<1>1. /\ \E f : CallsFunction(t, f)
      /\ RemoveFromLists(u)
      /\ UNCHANGED <<prio, pxCurrentTCB, uxSchedulerSuspended, resuming>>
  BY DEF Delete, Suspend, priorities, scheduler
<1>2. resuming = "no" /\ ~pendSV
  BY <1>1, CallingFacts
<1>3. Settled /\ TicksYield'
  BY <1>1, <1>2 DEF Settled, TicksYield
<1>4. uxTopReadyPriority' = uxTopReadyPriority /\ \A v \in AllTasks : IsReady(v)' => IsReady(v)
  BY <1>1, RemoveFromListsFacts DEF IsReady, ListsInv
<1> QED BY <1>1, <1>3, <1>4, QuietHighest

LEMMA ResumeHighest ==
  ASSUME ListsInv, ListsInv', HighestInv, NEW t \in Task, NEW u \in Task, Resume(t, u)
  PROVE  HighestInv'
<1>1. /\ CallsFunction(t, "vTaskResume")
      /\ AddToReady(<<u>>, prio)
      /\ UNCHANGED <<prio, pxCurrentTCB, uxSchedulerSuspended, resuming>>
      /\ pendSV' = (prio[u] >= prio[t])
  BY DEF Resume, MakeReady, scheduler, priorities, Yield
<1>2. /\ t \in AllTasks /\ t = pxCurrentTCB /\ resuming = "no" /\ ~pendSV
      /\ uxSchedulerSuspended = 0
  BY <1>1, CallingFacts
<1>3. u \in AllTasks /\ prio[t] \in Int /\ prio[u] \in Int
  BY <1>2, TasksAssumption DEF AllTasks, ListsInv, ListTypes, Priorities
<1>4. Good(<<u>>) /\ ToSet(<<u>>) = {u}
  BY <1>3, GoodOne
<1>5. Settled /\ TicksYield' /\ (Settled' => prio[u] <= prio[pxCurrentTCB])
  <2>1. prio[u] >= prio[t] => pendSV'
    BY <1>1, Zenon
  <2> QED BY <1>1, <1>2, <1>3, <2>1 DEF Settled, TicksYield
<1> QED BY <1>1, <1>4, <1>5, ReadyHighest

LEMMA PrioritySetHighest ==
  ASSUME ListsInv, ListsInv', HighestInv, NEW t \in Task, NEW u \in Task, NEW new \in NewPriorities,
         PrioritySet(t, u, new)
  PROVE  HighestInv'
<1>1. /\ CallsFunction(t, "vTaskPrioritySet")
      /\ prio' = [prio EXCEPT ![u] = IF base[u] = @ THEN new ELSE @]
      /\ \/ u \in ToSet(ready[base[u]]) /\ AddToReady(<<u>>, prio')
         \/ u \notin ToSet(ready[base[u]]) /\ UNCHANGED <<ready, uxTopReadyPriority>>
      /\ UNCHANGED <<pxCurrentTCB, uxSchedulerSuspended, resuming>>
      /\ pendSV' = IF new > base[u] THEN u # t ELSE u = t
  BY DEF PrioritySet, scheduler, Yield
<1>2. /\ t \in AllTasks /\ t = pxCurrentTCB /\ IsReady(t) /\ resuming = "no" /\ ~pendSV
      /\ uxSchedulerSuspended = 0
  BY <1>1, CallingFacts
<1>3. /\ u \in AllTasks /\ new \in Int /\ base[u] \in Int /\ base[u] \in Priorities
      /\ uxTopReadyPriority \in Int
      /\ \A v \in AllTasks : prio[v] \in Int
      /\ prio' \in [AllTasks -> Priorities]
      /\ prio'[u] = IF base[u] = prio[u] THEN new ELSE prio[u]
      /\ \A v \in AllTasks : v # u => prio'[v] = prio[v]
  BY <1>1, TasksAssumption DEF AllTasks, ListsInv, ListTypes, Priorities
<1>4. Settled /\ TicksYield'
  BY <1>1, <1>2 DEF Settled, TicksYield
<1>5. Settled' => IF new > base[u] THEN u = t ELSE u # t
  <2>1. Settled' => ~pendSV'
    BY <1>1, <1>2 DEF Settled
  <2>2. ~pendSV' => IF new > base[u] THEN u = t ELSE u # t
    BY <1>1, Zenon
  <2> QED BY <2>1, <2>2
<1>6. prio[u] = base[u] \/ prio'[u] = prio[u]
  BY <1>3
<1>7. Settled' => prio[pxCurrentTCB] <= prio'[pxCurrentTCB]
  BY <1>2, <1>3, <1>5
<1>8. CASE u \in ToSet(ready[base[u]]) /\ AddToReady(<<u>>, prio')
  <2>1. Good(<<u>>) /\ ToSet(<<u>>) = {u}
    BY <1>3, GoodOne
  <2>2. /\ \A v : IsReady(v)' => IsReady(v) \/ v \in ToSet(<<u>>)
        /\ uxTopReadyPriority <= uxTopReadyPriority'
        /\ \A v \in ToSet(<<u>>) : v \in AllTasks /\ prio'[v] <= uxTopReadyPriority'
    BY <1>3, <1>8, <2>1, AddToReadyNewTop DEF ListsInv
  <2>3. IsReady(u)
    BY <1>3, <1>8 DEF IsReady
  <2>4. Mutexes = {} /\ Preemption /\ Settled' => prio'[u] <= prio'[pxCurrentTCB]
    <3>1. Mutexes = {} /\ Preemption => prio[u] <= prio[pxCurrentTCB]
      BY <1>3, <1>4, <2>3 DEF HighestInv, NoneHigher
    <3> QED BY <1>2, <1>3, <1>5, <3>1
  <2>5. PICK us : us = {u}
    OBVIOUS
  <2>6. \A v \in AllTasks : IsReady(v)' => v \in us \/ (IsReady(v) /\ prio'[v] = prio[v])
    BY <1>3, <2>1, <2>2, <2>5
  <2>7. /\ \A v \in AllTasks : v \in us => prio'[v] <= uxTopReadyPriority'
        /\ Mutexes = {} /\ Preemption /\ Settled' =>
              \A v \in AllTasks : v \in us => prio'[v] <= prio'[pxCurrentTCB]
    BY <2>1, <2>2, <2>4, <2>5
  <2> QED BY <1>1, <1>4, <1>7, <2>2, <2>6, <2>7, StepHighest
<1>9. CASE u \notin ToSet(ready[base[u]]) /\ UNCHANGED <<ready, uxTopReadyPriority>>
  <2>1. IsReady(u) => prio'[u] = prio[u]
    <3>1. IsReady(u) /\ prio[u] = base[u] => u \in ToSet(ready[base[u]])
      BY <1>3 DEF ListsInv, IsReady, AllApart, Apart
    <3> QED BY <1>6, <1>9, <3>1
  <2>2. PICK us : us = {}
    OBVIOUS
  <2>3. \A v \in AllTasks : IsReady(v)' => v \in us \/ (IsReady(v) /\ prio'[v] = prio[v])
    BY <1>3, <1>9, <2>1 DEF IsReady
  <2>4. /\ uxTopReadyPriority <= uxTopReadyPriority'
        /\ \A v \in AllTasks : v \in us => prio'[v] <= uxTopReadyPriority'
        /\ \A v \in AllTasks : v \in us => prio'[v] <= prio'[pxCurrentTCB]
    BY <1>3, <1>9, <2>2
  <2> QED BY <1>1, <1>4, <1>7, <2>3, <2>4, StepHighest
<1> QED BY <1>1, <1>8, <1>9

LEMMA IdleHighest ==
  ASSUME ListsInv, ListsInv', HighestInv, uxSchedulerSuspended \in Nat, InSuspension,
         DOMAIN pc = AllTasks, IdleStep
  PROVE  HighestInv'
<1>1. CASE IdleYield \/ IdleBegin \/ IdleFree
  <2>1. /\ Executes(Idle)
        /\ UNCHANGED <<prio, pxCurrentTCB, resuming, ready, uxTopReadyPriority>>
    BY <1>1 DEF IdleYield, IdleBegin, IdleFree, priorities, scheduler, generic
  <2>2. Settled /\ resuming = "no"
    BY <2>1 DEF Executes, Settled
  <2>3. TicksYield' /\ \A v \in AllTasks : IsReady(v)' => IsReady(v)
    BY <2>1, <2>2 DEF TicksYield, IsReady
  <2> QED BY <2>1, <2>2, <2>3, QuietHighest
<1>2. CASE IdleResume
  <2>1. pc[Idle] = "resume" /\ resuming = "no" /\ ResumeAll(FALSE) /\ Idle \in AllTasks
    BY <1>2 DEF IdleResume, Executes, AllTasks
  <2>2. uxSchedulerSuspended \in Nat \ {0}
    BY <2>1 DEF InSuspension, Suspending
  <2> QED BY <2>1, <2>2, ResumeAllHighest
<1> QED BY <1>1, <1>2 DEF IdleStep

LEMMA ResumeFromISRHighest ==
  ASSUME ListsInv, ListsInv', HighestInv, uxSchedulerSuspended \in Nat, NEW u \in Task,
         ResumeFromISR(u)
  PROVE  HighestInv'
<1>1. resuming = "no" /\ UNCHANGED <<prio, pxCurrentTCB, uxSchedulerSuspended, resuming>>
  BY DEF ResumeFromISR, priorities, scheduler
<1>2. TicksYield'
  BY <1>1 DEF TicksYield
<1>3. CASE /\ uxSchedulerSuspended = 0 /\ MakeReady(<<u>>, prio)
           /\ pendSV' = (pendSV \/ prio[u] >= prio[pxCurrentTCB])
  <2>1. u \in AllTasks /\ prio[u] \in Int /\ prio[pxCurrentTCB] \in Int
    BY TasksAssumption DEF AllTasks, ListsInv, ListTypes, Priorities
  <2>2. Good(<<u>>) /\ ToSet(<<u>>) = {u} /\ AddToReady(<<u>>, prio)
    BY <1>3, <2>1, GoodOne DEF MakeReady
  <2>3. ~pendSV' => ~pendSV /\ ~(prio[u] >= prio[pxCurrentTCB])
    BY <1>3, Zenon
  <2>4. Settled' => Settled /\ prio[u] <= prio[pxCurrentTCB]
    BY <1>1, <1>3, <2>1, <2>3 DEF Settled
  <2> QED BY <1>1, <1>2, <2>2, <2>4, ReadyHighest
<1>4. CASE uxSchedulerSuspended > 0 /\ UNCHANGED generic
  <2>1. Settled /\ UNCHANGED <<ready, uxTopReadyPriority>>
    BY <1>4 DEF Settled, generic
  <2> QED BY <1>1, <1>2, <2>1, QuietHighest DEF IsReady
<1> QED BY <1>3, <1>4 DEF ResumeFromISR

(* Every step of the scheduler.                                            *)
LEMMA TaskNextHighest ==
  ASSUME ListsInv, ListsInv', HighestInv, Shapes, InSuspension, TaskNext
  PROVE  HighestInv'
<1>1. DOMAIN pc = AllTasks /\ uxSchedulerSuspended \in Nat
  BY DEF Shapes
<1>2. CASE Interrupt
  BY <1>1, <1>2, TickHighest, ResumeFromISRHighest DEF Interrupt
<1>3. CASE Switch \/ CatchUp \/ IdleStep
  BY <1>1, <1>3, SwitchHighest, CatchUpHighest, IdleHighest
<1>4. ASSUME NEW t \in Task, ApiCall(t) PROVE HighestInv'
  <2>1. CASE TaskSuspendAll(t) \/ \E d \in DelayTimes : Delay(t, d) \/ DelayUntil(t, d)
    BY <1>1, <2>1, DelayHighest
  <2>2. CASE TaskResumeAll(t) \/ DelayResume(t)
    <3>1. \E yield : ResumeAll(yield)
      BY <2>2 DEF TaskResumeAll, DelayResume
    <3>2. resuming = "no" /\ uxSchedulerSuspended \in Nat \ {0}
      <4>1. CASE TaskResumeAll(t)
        BY <1>1, <4>1 DEF TaskResumeAll, Executes
      <4>2. CASE DelayResume(t)
        BY <1>1, <4>2 DEF DelayResume, Executes, InSuspension, Suspending, AllTasks
      <4> QED BY <2>2, <4>1, <4>2
    <3> QED BY <3>1, <3>2, ResumeAllHighest
  <2>3. CASE \E u \in Task : Create(t, u) \/ Delete(t, u) \/ Suspend(t, u) \/ Resume(t, u)
    BY <2>3, CreateHighest, RemovedHighest, ResumeHighest
  <2>4. CASE \E u \in Task, p \in NewPriorities : PrioritySet(t, u, p)
    BY <2>4, PrioritySetHighest
  <2> QED BY <1>4, <2>1, <2>2, <2>3, <2>4 DEF ApiCall
<1> QED BY <1>2, <1>3, <1>4 DEF TaskNext

(* Steps of calls.                                                         *)

(* The test at the head of the loop.                                       *)
LEMMA TestHighest ==
  ASSUME ListsInv, ListsInv', HighestInv, NEW t \in Task, NEW c, IsCall(c),
         Test(t, c), TestUnchanged, Executes(t), uxSchedulerSuspended = 0
  PROVE  HighestInv'
<1>1. UNCHANGED <<pxCurrentTCB, uxSchedulerSuspended, resuming>>
  BY DEF TestUnchanged, scheduler
<1>2. Settled /\ resuming = "no" /\ t = pxCurrentTCB
  BY DEF Executes, Settled
<1>3. TicksYield'
  BY <1>1, <1>2 DEF TicksYield
<1>4. CASE SendNow(t, c) /\ ~Disinherits(t, c.queue)
  <2> DEFINE us == Waiting(<<c.queue, "receive">>, 1)
  <2>1. <<c.queue, "receive">> \in EventLists
    BY EventListsOf
  <2>2. Good(us)
    BY <2>1, WaitingFacts DEF ListsInv
  <2>3. /\ prio' = prio /\ MakeReady(<<>> \o us, prio')
        /\ pendSV' = \E u \in ToSet(us) : prio'[u] >= prio'[t]
    BY <1>4 DEF SendNow, Yield
  <2> HIDE DEF us
  <2>4. <<>> \o us = us
    BY <2>2, EmptySeq, ConcatProperties DEF Good
  <2>5. AddToReady(us, prio)
    BY <2>3, <2>4 DEF MakeReady, AddToReady
  <2>6. ~pendSV' => ~WakesNoLower(us)
    BY <1>2, <2>3, Zenon DEF WakesNoLower
  <2>7. Settled' => \A u \in ToSet(us) : prio[u] <= prio[pxCurrentTCB]
    BY <1>1, <2>2, <2>6, WakesLower DEF Settled
  <2> QED BY <1>1, <1>2, <1>3, <2>2, <2>3, <2>5, <2>7, ReadyHighest
<1>7. CASE SendNow(t, c) /\ Disinherits(t, c.queue)
  <2> DEFINE woken == Waiting(<<c.queue, "receive">>, 1)
             us    == <<t>> \o woken
  <2>1. /\ prio' = [prio EXCEPT ![t] = base[t]] /\ Mutexes # {}
        /\ MakeReady(us, prio')
    BY <1>7 DEF SendNow, Disinherits
  <2>2. AddToReady(us, prio')
    BY <2>1 DEF MakeReady, AddToReady
  <2>3. prio' \in [AllTasks -> Priorities] /\ \A u \in AllTasks : u # t => prio'[u] = prio[u]
    BY <2>1 DEF ListsInv, ListTypes, AllTasks
  <2>4. Good(us) /\ t \in ToSet(us)
    <3>1. <<c.queue, "receive">> \in EventLists /\ t \in AllTasks /\ IsReady(t)
      BY <1>2, Executing, EventListsOf DEF AllTasks
    <3>2. Good(woken) /\ Good(<<t>>) /\ ToSet(<<t>>) = {t} /\ \A u \in ToSet(woken) : ~IsReady(u)
      BY <3>1, WaitingFacts, WaitingApart, GoodOne DEF ListsInv
    <3> HIDE DEF woken
    <3> QED BY <3>1, <3>2, GoodConcat
  <2> HIDE DEF us
  <2>5. /\ \A u : IsReady(u)' => IsReady(u) \/ u \in ToSet(us)
        /\ uxTopReadyPriority <= uxTopReadyPriority'
        /\ \A u \in ToSet(us) : u \in AllTasks /\ prio'[u] <= uxTopReadyPriority'
    BY <2>2, <2>3, <2>4, AddToReadyNewTop DEF ListsInv
  <2>6. \A u \in AllTasks : IsReady(u)' => u \in ToSet(us) \/ (IsReady(u) /\ prio'[u] = prio[u])
    BY <2>3, <2>4, <2>5
  <2> QED BY <1>1, <1>3, <2>1, <2>5, <2>6, StepHighest
<1>5. CASE ReceiveNow(t, c)
  <2>1. <<c.queue, "send">> \in EventLists /\ <<c.queue, "receive">> \in EventLists
    BY EventListsOf
  <2>2. PICK l \in EventLists :
           RemoveFromEventList(l, 1) /\ prio' = prio /\ pendSV' = WakesNoLower(Waiting(l, 1))
    BY <1>5, <2>1 DEF ReceiveNow, Yield
  <2> DEFINE us == Waiting(l, 1)
  <2>3. Good(us)
    BY WaitingFacts DEF ListsInv
  <2>4. AddToReady(us, prio)
    BY <2>2 DEF RemoveFromEventList, MakeReady
  <2>5. ~pendSV' => ~WakesNoLower(us)
    BY <2>2, Zenon
  <2> HIDE DEF us
  <2>6. Settled' => \A u \in ToSet(us) : prio[u] <= prio[pxCurrentTCB]
    BY <1>1, <2>3, <2>5, WakesLower DEF Settled
  <2> QED BY <1>1, <1>2, <1>3, <2>2, <2>3, <2>4, <2>6, ReadyHighest
<1>6. CASE UNCHANGED <<generic, prio>>
  <2>1. UNCHANGED <<ready, uxTopReadyPriority>>
    BY <1>6 DEF generic
  <2> QED BY <1>1, <1>2, <1>3, <1>6, <2>1, QuietHighest DEF IsReady
<1> QED BY <1>4, <1>5, <1>6, <1>7 DEF Test

(* The steps of the loop in which no task becomes ready.                   *)
LEMMA LoopHighest ==
  ASSUME ListInv, QueueInv, ListsInv', HighestInv, NEW t \in Task,
         CallSuspendAll(t) \/ LockQueue(t) \/ Check(t) \/ Place(t) \/ UnlockTx(t) \/ UnlockRx(t)
  PROVE  HighestInv'
<1>1. \E from, place : At(t, from, place)
  BY DEF CallSuspendAll, LockQueue, Check, Place, UnlockTx, UnlockRx, InACall
<1>2. UNCHANGED <<pxCurrentTCB, prio, resuming>>
  BY DEF CallSuspendAll, LockQueue, Check, Place, UnlockTx, UnlockRx, InCall, priorities
<1>3. Settled /\ resuming = "no" /\ TicksYield'
  BY <1>1, <1>2 DEF At, Executes, Settled, TicksYield
<1>4. uxTopReadyPriority' = uxTopReadyPriority /\ \A u \in AllTasks : IsReady(u)' => IsReady(u)
  <2>1. CASE UNCHANGED generic
    BY <2>1 DEF generic, IsReady
  <2>2. CASE Place(t)
    <3>1. /\ ready' = [p \in Priorities |-> Without(ready[p], {t})]
          /\ uxTopReadyPriority' = uxTopReadyPriority
      BY <2>2 DEF Place, PlaceOnEventList, AddToDelayed
    <3> QED BY <3>1, GoodWithout DEF IsReady, ListInv, ListsInv, ListTypes
  <2>3. CASE UnlockTx(t) \/ UnlockRx(t)
    <3>1. "unlockTx" \in Suspending /\ "unlockRx" \in Suspending
          /\ "unlockTx" \in InACall /\ "unlockRx" \in InACall
      BY DEF Suspending, LockedForRx, InACall
    <3>2. uxSchedulerSuspended = 1
      BY <2>3, <3>1, LoopFacts DEF UnlockTx, UnlockRx
    <3>3. \E l, n : RemoveFromEventList(l, n)
      BY <2>3 DEF UnlockTx, UnlockRx, UnlockSide
    <3>4. UNCHANGED generic
      BY <3>2, <3>3 DEF RemoveFromEventList
    <3> QED BY <3>4 DEF generic, IsReady
  <2> QED BY <2>1, <2>2, <2>3 DEF CallSuspendAll, LockQueue, Check, ListsUnchanged
<1> QED BY <1>2, <1>3, <1>4, QuietHighest DEF ListInv

(* vTaskPriorityInherit raises the holder of a mutex to the priority of    *)
(* the running task, not above it.                                         *)
LEMMA InheritHighest ==
  ASSUME ListInv, QueueInv, ListsInv', HighestInv, NEW t \in Task, Inherit(t)
  PROVE  HighestInv'
<1> DEFINE h == pxMutexHolder[call[t].queue]
<1>1. /\ At(t, "inherit", "place")
      /\ UNCHANGED <<pxCurrentTCB, resuming, pendSV, uxSchedulerSuspended>>
      /\ \/ UNCHANGED <<prio, generic>>
         \/ /\ prio[h] < prio[t]
            /\ prio' = [prio EXCEPT ![h] = prio[t]]
            /\ IF h \in ToSet(ready[prio[h]]) THEN AddToReady(<<h>>, prio')
               ELSE UNCHANGED <<ready, uxTopReadyPriority>>
  BY DEF Inherit, InCall
<1>2. "inherit" \in InACall
  BY DEF InACall
<1>3. /\ t \in AllTasks /\ t = pxCurrentTCB /\ ~pendSV /\ resuming = "no" /\ pc[t] = "inherit"
      /\ call[t].queue \in Queues
  BY <1>1, <1>2, LoopFacts
<1>4. Settled /\ TicksYield'
  BY <1>1, <1>3 DEF Settled, TicksYield
<1>5. h \in AllTasks
  BY <1>3 DEF ListInv, Placing, Holders, AllTasks
<1> HIDE DEF h
<1>6. CASE UNCHANGED <<prio, generic>>
  <2>1. UNCHANGED <<ready, uxTopReadyPriority>>
    BY <1>6 DEF generic
  <2> QED BY <1>1, <1>4, <1>6, <2>1, QuietHighest DEF ListInv, IsReady
<1>7. CASE /\ prio[h] < prio[t]
           /\ prio' = [prio EXCEPT ![h] = prio[t]]
           /\ IF h \in ToSet(ready[prio[h]]) THEN AddToReady(<<h>>, prio')
              ELSE UNCHANGED <<ready, uxTopReadyPriority>>
  <2>1. /\ \A v \in AllTasks : prio[v] \in Int
        /\ prio \in [AllTasks -> Priorities] /\ uxTopReadyPriority \in Int
    BY TasksAssumption, SMTT(30) DEF ListInv, ListsInv, ListTypes, Priorities
  <2>2. /\ h # t /\ prio'[h] = prio[t] /\ prio[h] \in Priorities
        /\ prio' \in [AllTasks -> Priorities]
        /\ \A v \in AllTasks : v # h => prio'[v] = prio[v]
    BY <1>3, <1>5, <1>7, <2>1
  <2>3. /\ prio[pxCurrentTCB] <= prio'[pxCurrentTCB]
        /\ prio'[h] <= prio'[pxCurrentTCB]
    BY <1>3, <1>5, <2>1, <2>2
  <2>4. CASE h \in ToSet(ready[prio[h]]) /\ AddToReady(<<h>>, prio')
    <3>1. Good(<<h>>) /\ ToSet(<<h>>) = {h}
      BY <1>5, GoodOne
    <3>2. /\ \A v : IsReady(v)' => IsReady(v) \/ v \in ToSet(<<h>>)
          /\ uxTopReadyPriority <= uxTopReadyPriority'
          /\ \A v \in ToSet(<<h>>) : v \in AllTasks /\ prio'[v] <= uxTopReadyPriority'
      BY <2>2, <2>4, <3>1, AddToReadyNewTop DEF ListInv, ListsInv
    <3>3. PICK us : us = {h}
      OBVIOUS
    <3>4. \A v \in AllTasks : IsReady(v)' => v \in us \/ (IsReady(v) /\ prio'[v] = prio[v])
      BY <2>2, <3>1, <3>2, <3>3
    <3>5. \A v \in AllTasks : v \in us => /\ prio'[v] <= uxTopReadyPriority'
                                        /\ prio'[v] <= prio'[pxCurrentTCB]
      BY <2>3, <3>1, <3>2, <3>3
    <3> QED BY <1>1, <1>4, <2>3, <3>2, <3>4, <3>5, StepHighest DEF ListInv
  <2>5. CASE h \notin ToSet(ready[prio[h]]) /\ UNCHANGED <<ready, uxTopReadyPriority>>
    <3>1. ~IsReady(h)
      BY <1>5, <2>5 DEF ListInv, ListsInv, IsReady, AllApart, Apart
    <3>2. PICK us : us = {}
      OBVIOUS
    <3>3. \A v \in AllTasks : IsReady(v)' => v \in us \/ (IsReady(v) /\ prio'[v] = prio[v])
      BY <2>2, <2>5, <3>1 DEF IsReady
    <3>4. /\ uxTopReadyPriority <= uxTopReadyPriority'
          /\ \A v \in AllTasks : v \in us => /\ prio'[v] <= uxTopReadyPriority'
                                          /\ prio'[v] <= prio'[pxCurrentTCB]
      BY <2>1, <2>5, <3>2
    <3> QED BY <1>1, <1>4, <2>3, <3>3, <3>4, StepHighest DEF ListInv
  <2> QED BY <1>7, <2>4, <2>5
<1> QED BY <1>1, <1>6, <1>7

LEMMA CallResumeAllHighest ==
  ASSUME ListInv, QueueInv, ListsInv', HighestInv, NEW t \in Task, CallResumeAll(t)
  PROVE  HighestInv'
<1>1. \E place : At(t, "resumeAll", place)
  BY DEF CallResumeAll
<1>2. "resumeAll" \in InACall /\ "resumeAll" \in Suspending
  BY DEF InACall, Suspending
<1>3. uxSchedulerSuspended = 1 /\ resuming = "no"
  BY <1>1, <1>2, LoopFacts
<1>4. uxSchedulerSuspended \in Nat \ {0}
  BY <1>3
<1>5. \E yield : ResumeAll(yield)
  BY DEF CallResumeAll
<1> QED BY <1>3, <1>4, <1>5, ResumeAllHighest DEF ListInv

(* Interrupt handlers that send or receive.                                *)
LEMMA QueueInterruptHighest ==
  ASSUME ListInv, QueueInv, ListsInv', HighestInv, QueueInterrupt
  PROVE  HighestInv'
<1>1. PICK q \in Queues :
        ReceiveFromISR(q) \/ \E i \in Items, p \in {"back", "front"} : SendFromISR(q, i, p)
  BY DEF QueueInterrupt
<1>2. resuming = "no" /\ UNCHANGED <<pxCurrentTCB, prio, uxSchedulerSuspended, resuming>>
  BY <1>1 DEF ReceiveFromISR, SendFromISR, FromISRUnchanged, priorities, scheduler
<1>3. PICK l, lock : l \in EventLists /\ WakeFromISR(l, lock)
  <2>1. <<q, "send">> \in EventLists /\ <<q, "receive">> \in EventLists
    BY QueueAssumption
  <2> QED BY <1>1, <2>1 DEF ReceiveFromISR, SendFromISR
<1>4. TicksYield'
  BY <1>2 DEF TicksYield
<1> DEFINE us == Waiting(l, 1)
<1>5. Good(us)
  BY <1>3, WaitingFacts DEF ListInv, ListsInv
<1>6. CASE UNCHANGED <<generic, pendSV>>
  <2>1. UNCHANGED <<ready, uxTopReadyPriority>> /\ (Settled' => Settled)
    BY <1>2, <1>6 DEF generic, Settled
  <2> QED BY <1>2, <1>4, <2>1, QuietHighest DEF ListInv, IsReady
<1>7. CASE UNCHANGED generic /\ uxSchedulerSuspended > 0
  <2>1. UNCHANGED <<ready, uxTopReadyPriority>> /\ Settled
    BY <1>7 DEF generic, Settled
  <2> QED BY <1>2, <1>4, <2>1, QuietHighest DEF ListInv, IsReady
<1>8. CASE /\ uxSchedulerSuspended = 0 /\ AddToReady(us, prio)
           /\ pendSV' = (pendSV \/ WakesNoLower(us))
  <2> HIDE DEF us
  <2>1. ~pendSV' => ~pendSV /\ ~WakesNoLower(us)
    BY <1>8, Zenon
  <2>2. Settled' => Settled /\ \A u \in ToSet(us) : prio[u] <= prio[pxCurrentTCB]
    BY <1>2, <1>5, <1>8, <2>1, WakesLower DEF Settled, ListInv
  <2> QED BY <1>2, <1>4, <1>5, <1>8, <2>2, ReadyHighest DEF ListInv
<1> QED BY <1>3, <1>6, <1>7, <1>8 DEF WakeFromISR, RemoveFromEventList, MakeReady

-----------------------------------------------------------------------------

LEMMA HighestInitially == Init => HighestInv
<1> SUFFICES ASSUME Init PROVE HighestInv
  OBVIOUS
<1> DEFINE created == Append(Creation, Idle)
           top == CHOOSE p \in Priorities : /\ \E t \in ToSet(created) : Priority[t] = p
                                            /\ \A t \in ToSet(created) : Priority[t] <= p
<1>1. /\ ready = [p \in Priorities |-> Those(created, {t \in AllTasks : Priority[t] = p})]
      /\ uxTopReadyPriority = top /\ pxCurrentTCB = Last(ready[top])
      /\ prio = Priority /\ resuming = "no"
  BY DEF Init, TaskInit
<1>2. ListTypes /\ AllApart
  BY ListsInitially DEF ListInv, ListsInv
<1>3. /\ Idle \in AllTasks /\ Priority \in [AllTasks -> Priorities] /\ MaxPriorities \in Nat
  BY TasksAssumption DEF AllTasks
<1>4. Good(created) /\ ToSet(created) # {}
  <2>1. Good(Creation) /\ Idle \notin ToSet(Creation)
    <3>1. Creation \in Seq(Task) /\ IsInjective(Creation) /\ Idle \notin Task
      BY TasksAssumption
    <3>2. Creation \in Seq(AllTasks) /\ \A i \in DOMAIN Creation : Creation[i] \in Task
      BY <3>1 DEF AllTasks
    <3> QED BY <3>1, <3>2 DEF Good, ToSet
  <2> QED BY <1>3, <2>1, GoodAppend
<1> HIDE DEF created
<1>5. \A t \in ToSet(created) : t \in AllTasks
  BY <1>4, GoodFacts
<1>6. /\ top \in Priorities /\ \E t \in ToSet(created) : Priority[t] = top
      /\ \A t \in ToSet(created) : Priority[t] <= top
  <2> DEFINE used == {Priority[t] : t \in ToSet(created)}
  <2>1. used \in SUBSET Priorities /\ used # {}
    BY <1>3, <1>4, <1>5
  <2>2. PICK p \in used : \A q \in used : q <= p
    <3> HIDE DEF used
    <3> QED BY <2>1, Greatest
  <2>3. /\ p \in Priorities /\ \E t \in ToSet(created) : Priority[t] = p
        /\ \A t \in ToSet(created) : Priority[t] <= p
    BY <2>1, <2>2
  <2> QED BY <2>3
<1> HIDE DEF top
<1>7. \A p \in Priorities :
         Good(ready[p]) /\ ToSet(ready[p]) = ToSet(created) \cap {t \in AllTasks : Priority[t] = p}
  BY <1>1, <1>4, GoodThose
<1>8. Top
  BY <1>1, <1>6, <1>7 DEF Top, IsReady
<1>9. prio[pxCurrentTCB] = top
  <2>1. Good(ready[top]) /\ ready[top] # <<>>
    <3>1. ToSet(ready[top]) # {}
      BY <1>5, <1>6, <1>7
    <3> QED BY <1>6, <1>7, <3>1, GoodEmpty
  <2>2. Len(ready[top]) \in 1 .. Len(ready[top])
    <3>1. Len(ready[top]) \in Nat /\ Len(ready[top]) # 0
      BY <2>1, EmptySeq DEF Good
    <3> QED BY <3>1
  <2>3. Last(ready[top]) \in ToSet(ready[top])
    BY <2>1, <2>2, GoodFacts DEF Last
  <2> QED BY <1>1, <1>6, <1>7, <2>3
<1> QED BY <1>1, <1>8, <1>9 DEF HighestInv, Top, TicksYield, NoneHigher

LEMMA HighestNext ==
  QueueInv /\ ListInv /\ HighestInv /\ [Next]_vars => HighestInv'
<1> SUFFICES ASSUME QueueInv, ListInv, HighestInv, [Next]_vars PROVE HighestInv'
  OBVIOUS
<1>1. ListsInv /\ ListsInv'
  BY ListsNext DEF ListInv
<1>2. CASE TaskNext /\ UNCHANGED queueVars
  BY <1>1, <1>2, TaskNextHighest DEF QueueInv
<1>3. CASE QueueInterrupt
  BY <1>1, <1>3, QueueInterruptHighest
<1>4. ASSUME NEW t \in Task, QueueStep(t) PROVE HighestInv'
  <2>1. ASSUME NEW c \in Arguments(t), Begin(t, c) PROVE HighestInv'
    <3>1. IsCall(c) /\ Test(t, c) /\ TestUnchanged /\ Executes(t) /\ uxSchedulerSuspended = 0
      BY <2>1 DEF Arguments, IsCall, Begin, UsesMutexProperly, CallsFunction
    <3> QED BY <1>1, <3>1, TestHighest
  <2>2. CASE Again(t)
    <3>1. /\ Test(t, call[t]) /\ TestUnchanged /\ Executes(t) /\ t = pxCurrentTCB
          /\ pc[t] = "test"
      BY <2>2 DEF Again, Executes
    <3>2. pc[t] \notin Suspending \cup {"run"} /\ pc[t] \in InACall
      BY <3>1 DEF Suspending, LockedForRx, InACall
    <3>3. uxSchedulerSuspended = 0 /\ IsCall(call[t])
      BY <3>1, <3>2, NotSuspended DEF QueueInv, Calling
    <3> QED BY <1>1, <3>1, <3>3, TestHighest
  <2>3. CASE \/ CallSuspendAll(t) \/ LockQueue(t) \/ Check(t) \/ Place(t)
             \/ UnlockTx(t) \/ UnlockRx(t)
    BY <1>1, <2>3, LoopHighest
  <2>4. CASE CallResumeAll(t)
    BY <1>1, <2>4, CallResumeAllHighest
  <2>5. CASE Inherit(t)
    BY <1>1, <2>5, InheritHighest
  <2> QED BY <1>4, <2>1, <2>2, <2>3, <2>4, <2>5 DEF QueueStep
<1>5. CASE UNCHANGED vars
  <2>1. UNCHANGED <<pxCurrentTCB, prio, ready, uxTopReadyPriority, uxSchedulerSuspended,
                    pendSV, resuming>>
    BY <1>5 DEF vars, taskVars, generic, priorities, scheduler
  <2> QED BY <2>1 DEF HighestInv, Top, TicksYield, Settled, NoneHigher, IsReady
<1> QED BY <1>2, <1>3, <1>4, <1>5 DEF Next

LEMMA HighestRuns ==
  Mutexes = {} /\ QueueInv /\ ListInv /\ HighestInv => HighestPriorityRuns
<1> SUFFICES ASSUME Mutexes = {}, QueueInv, ListInv, HighestInv,
                    Preemption, uxSchedulerSuspended = 0, ~pendSV, resuming = "no"
             PROVE  /\ IsReady(pxCurrentTCB)
                    /\ \A p \in Priorities : p > prio[pxCurrentTCB] => ready[p] = <<>>
  BY DEF HighestPriorityRuns
<1>1. IsReady(pxCurrentTCB)
  BY DEF ListInv, ListsInv, CurrentReady
<1>2. NoneHigher
  BY DEF HighestInv, Settled
<1>3. ASSUME NEW p \in Priorities, p > prio[pxCurrentTCB] PROVE ready[p] = <<>>
  <2> SUFFICES ASSUME ready[p] # <<>> PROVE FALSE
    OBVIOUS
  <2>1. Good(ready[p])
    BY DEF ListInv, ListsInv, ListTypes
  <2>2. PICK t \in ToSet(ready[p]) : TRUE
    BY <2>1, GoodFacts
  <2>3. t \in AllTasks /\ IsReady(t)
    BY <2>1, GoodFacts DEF IsReady
  <2>4. prio[t] = p
    BY <2>3 DEF ListInv, ListsInv, AllApart, Apart
  <2>5. prio[t] <= prio[pxCurrentTCB] /\ p \in Int /\ prio[pxCurrentTCB] \in Int
    BY <1>2, <2>3, TasksAssumption DEF NoneHigher, ListInv, ListsInv, ListTypes, Priorities
  <2> QED BY <1>3, <2>4, <2>5
<1> QED BY <1>1, <1>3

(* With preemption, code runs in no task while one of higher priority is   *)
(* ready, whichever of the functions of tasks.c and queue.c and whichever  *)
(* interrupt made that one ready, and with the ticks and wake-ups that     *)
(* came while the scheduler was suspended: if the application has no       *)
(* mutexes.  (With mutexes it does not hold: xQueueGenericSend of a mutex  *)
(* gives an inherited priority back without looking at the ready tasks.)   *)
THEOREM HighestPriorityHolds == Mutexes = {} => (Spec => []HighestPriorityRuns)
<1> SUFFICES ASSUME Mutexes = {} PROVE Spec => []HighestPriorityRuns
  OBVIOUS
<1>1. Init => QueueInv /\ ListInv /\ HighestInv
  BY QueueInitially, ListsInitially, HighestInitially
<1>2. QueueInv /\ ListInv /\ HighestInv /\ [Next]_vars => (QueueInv /\ ListInv /\ HighestInv)'
  BY QueueNext, ListsNext, HighestNext
<1>3. QueueInv /\ ListInv /\ HighestInv => HighestPriorityRuns
  BY HighestRuns
<1> QED BY <1>1, <1>2, <1>3, PTL DEF Spec

=============================================================================

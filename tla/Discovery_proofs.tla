-------------------------- MODULE Discovery_proofs --------------------------
(***************************************************************************)
(* Proofs about Discovery, for any number of servers, of starts and of     *)
(* threads that call the method at first: what ResetFn makes of the two    *)
(* copies of the list and of the load balancer; that a server which stays  *)
(* is offered throughout; and that a client with nothing left to do has    *)
(* ZooKeeper's list, unless an older one has overtaken it.                 *)
(***************************************************************************)
EXTENDS Discovery, SequenceTheorems, FiniteSetTheorems, WellFoundedInduction,
        TLAPS

-----------------------------------------------------------------------------
(* Induction, for a set of numbers: each set of numbers that is not empty has a
   least member. *)
LEMMA LeastNumber ==
  ASSUME NEW S \in SUBSET Nat, S # {}
  PROVE  \E m \in S : \A n \in S : m <= n
<1>1. PICK m \in S : \A n \in S : ~(<<n, m>> \in OpToRel(<, Nat))
  BY NatLessThanWellFounded, WFMin
<1>2. ASSUME NEW n \in S, n < m PROVE FALSE
  <2>1. <<n, m>> \in Nat \X Nat /\ <<n, m>>[1] < <<n, m>>[2]
    BY <1>2
  <2>2. <<n, m>> \in OpToRel(<, Nat)
    BY <2>1 DEF OpToRel
  <2> QED
    BY <2>2, <1>1
<1> QED
  BY <1>2

LEMMA NatSetInduction ==
  ASSUME NEW T, 0 \in T, \A n \in Nat : n \in T => n + 1 \in T
  PROVE  Nat \subseteq T
<1> SUFFICES ASSUME Nat \ T # {} PROVE FALSE
  OBVIOUS
<1>1. PICK m \in Nat \ T : \A n \in Nat \ T : m <= n
  BY LeastNumber
<1>2. m - 1 \in Nat /\ ~(m <= m - 1)
  BY <1>1
<1>3. m - 1 \in T
  BY <1>1, <1>2
<1> QED
  BY <1>1, <1>2, <1>3

-----------------------------------------------------------------------------
(* Sequences as sets. *)
Increasing(seq, n) == \A i, j \in 1 .. n : i < j => seq[i] < seq[j]

(* std::sort: a finite set of numbers can be put in order. *)
LEMMA CanBeSorted ==
  ASSUME NEW S \in SUBSET Nat, IsFiniteSet(S)
  PROVE  \E seq \in [1 .. Cardinality(S) -> S] :
            Increasing(seq, Cardinality(S))
<1> DEFINE Sortable(R, n) == \E seq \in [1 .. n -> R] : Increasing(seq, n)
<1> DEFINE T == {n \in Nat : \A R \in SUBSET S :
                                Cardinality(R) = n => Sortable(R, n)}
<1>1. 0 \in T
  <2> SUFFICES ASSUME NEW R \in SUBSET S PROVE Sortable(R, 0)
    OBVIOUS
  <2>1. [i \in 1 .. 0 |-> i] \in [1 .. 0 -> R]
    OBVIOUS
  <2>2. \A seq : Increasing(seq, 0)
    BY DEF Increasing
  <2> QED
    BY <2>1, <2>2
<1>2. \A n \in Nat : n \in T => n + 1 \in T
  <2> SUFFICES ASSUME NEW n \in Nat, n \in T, NEW R \in SUBSET S,
                      Cardinality(R) = n + 1
               PROVE  Sortable(R, n + 1)
    OBVIOUS
  <2> HIDE DEF T
  <2>1. IsFiniteSet(R)
    BY FS_Subset
  <2>0. R # {}
    BY FS_EmptySet
  <2>2. PICK m \in R : \A r \in R : m <= r
    BY <2>0, LeastNumber
  <2>3. Cardinality(R \ {m}) = Cardinality(R) - 1
    BY <2>1, FS_RemoveElement
  <2>4. PICK seq \in [1 .. n -> R \ {m}] : Increasing(seq, n)
    BY <2>3 DEF T
  <2> DEFINE longer == [i \in 1 .. n + 1 |-> IF i = 1 THEN m ELSE seq[i - 1]]
  <2>5. longer \in [1 .. n + 1 -> R]
    BY <2>4
  <2>6. ASSUME NEW i \in 1 .. n + 1, NEW j \in 1 .. n + 1, i < j
        PROVE  longer[i] < longer[j]
    <3>1. j # 1 /\ j - 1 \in 1 .. n /\ longer[j] = seq[j - 1]
      BY <2>6
    <3>2. CASE i = 1
      <4>1. longer[i] = m /\ seq[j - 1] \in R \ {m}
        BY <3>1, <3>2, <2>4
      <4>2. m \in Nat /\ seq[j - 1] \in Nat /\ m <= seq[j - 1] /\ m # seq[j - 1]
        BY <4>1, <2>2
      <4> HIDE DEF longer
      <4> QED
        BY <3>1, <4>1, <4>2
    <3>3. CASE i # 1
      <4>1. longer[i] = seq[i - 1] /\ i - 1 \in 1 .. n /\ i - 1 < j - 1
        BY <3>1, <3>3, <2>6
      <4> HIDE DEF longer
      <4> QED
        BY <3>1, <4>1, <2>4 DEF Increasing
    <3> QED
      BY <3>2, <3>3
  <2>7. Increasing(longer, n + 1)
    BY <2>6 DEF Increasing
  <2> QED
    BY <2>5, <2>7
<1> HIDE DEF T
<1>3. Nat \subseteq T
  BY <1>1, <1>2, NatSetInduction
<1>4. Cardinality(S) \in Nat
  BY FS_CardinalityType
<1>5. Cardinality(S) \in T
  BY <1>3, <1>4
<1> QED
  BY <1>5 DEF T

LEMMA SortedIs ==
  ASSUME NEW S \in SUBSET Servers
  PROVE  /\ Sorted(S) \in Seq(Servers)
         /\ ToSet(Sorted(S)) = S
         /\ IsInjective(Sorted(S))
         /\ Len(Sorted(S)) = Cardinality(S)
<1>1. IsFiniteSet(S) /\ S \in SUBSET Nat /\ Cardinality(S) \in Nat
  BY NamesAssumption, FS_Subset, FS_CardinalityType
<1>2. PICK n \in Nat : n = Cardinality(S)
  BY <1>1
<1>3. \E seq \in [1 .. n -> S] : Increasing(seq, n)
  BY <1>1, <1>2, CanBeSorted
<1>4. PICK s : s = Sorted(S)
  OBVIOUS
<1>5. s \in [1 .. n -> S] /\ Increasing(s, n)
  BY <1>2, <1>3, <1>4 DEF Sorted, Increasing
<1>6. s \in Seq(Servers) /\ Len(s) = n
  BY <1>5, SeqDef
<1>7. \A i, j \in 1 .. n : s[i] = s[j] => i = j
  <2> SUFFICES ASSUME NEW i \in 1 .. n, NEW j \in 1 .. n, i # j
               PROVE  s[i] # s[j]
    OBVIOUS
  <2>1. s[i] \in Nat /\ s[j] \in Nat
    BY <1>1, <1>5
  <2>2. i < j \/ j < i
    OBVIOUS
  <2> QED
    BY <2>1, <2>2, <1>5 DEF Increasing
<1>8. IsInjective(s)
  BY <1>5, <1>7 DEF IsInjective
<1>9. s \in Injection(1 .. n, S)
  BY <1>5, <1>7 DEF Injection, IsInjective
<1>10. Cardinality(1 .. n) = n
  BY FS_Interval
<1>11. s \in Surjection(1 .. n, S)
  BY <1>1, <1>2, <1>9, <1>10, FS_Injection
<1>12. ToSet(s) = S
  BY <1>5, <1>11 DEF Surjection, ToSet
<1> QED
  BY <1>2, <1>4, <1>6, <1>8, <1>12

LEMMA Elements ==
  ASSUME NEW S, NEW s \in Seq(S)
  PROVE  /\ \A x : x \in ToSet(s) <=> \E i \in 1 .. Len(s) : s[i] = x
         /\ ToSet(s) \in SUBSET S
  BY ElementOfSeq, LenProperties DEF ToSet

(* std::set_difference of sorted ranges without doubles *)
LEMMA MinusIs ==
  ASSUME NEW a \in Seq(Servers), NEW b
  PROVE  /\ Minus(a, b) \in Seq(Servers)
         /\ ToSet(Minus(a, b)) = ToSet(a) \ ToSet(b)
         /\ IsInjective(Minus(a, b))
<1>1. ToSet(a) \ ToSet(b) \in SUBSET Servers
  BY ElementOfSeq, LenProperties DEF ToSet
<1> QED
  BY <1>1, SortedIs DEF Minus

(* What is pushed at the end, if it was not there *)
LEMMA AddServersIs ==
  ASSUME NEW last \in Seq(Servers), NEW add \in Seq(Servers)
  PROVE  /\ AddServers(last, add) \in Seq(Servers)
         /\ ToSet(AddServers(last, add)) = ToSet(last) \cup ToSet(add)
         /\ IsInjective(last) /\ IsInjective(add)
                /\ ToSet(last) \cap ToSet(add) = {}
            => IsInjective(AddServers(last, add))
<1>1. PICK m \in Nat, n \in Nat :
        /\ m = Len(last) /\ n = Len(add)
        /\ DOMAIN last = 1 .. m /\ DOMAIN add = 1 .. n
  BY LenProperties
<1>2. PICK both : both = AddServers(last, add)
  OBVIOUS
<1>3. /\ both \in Seq(Servers) /\ Len(both) = m + n
      /\ \A i \in 1 .. m + n :
            both[i] = IF i <= m THEN last[i] ELSE add[i - m]
  BY <1>1, <1>2, ConcatProperties DEF AddServers
<1>4. DOMAIN both = 1 .. m + n
  BY <1>3, LenProperties
<1>5. \A i \in 1 .. m : i \in 1 .. m + n /\ both[i] = last[i]
  BY <1>3
<1>6. \A i \in 1 .. n : i + m \in 1 .. m + n /\ both[i + m] = add[i]
  BY <1>3
<1>7. \A i \in 1 .. m + n : i \in 1 .. m \/ i - m \in 1 .. n
  OBVIOUS
<1>8. \A x : x \in ToSet(both) <=> x \in ToSet(last) \cup ToSet(add)
  <2>1. ASSUME NEW i \in 1 .. m + n
        PROVE  both[i] \in ToSet(last) \cup ToSet(add)
    <3>1. CASE i \in 1 .. m
      BY <3>1, <1>1, <1>3, Elements
    <3>2. CASE i \notin 1 .. m
      <4>1. i - m \in 1 .. n /\ both[i] = add[i - m]
        BY <3>2, <1>3, <1>7
      <4> QED
        BY <4>1, <1>1, Elements
    <3> QED
      BY <3>1, <3>2
  <2>2. ASSUME NEW x \in ToSet(last) PROVE x \in ToSet(both)
    BY <1>1, <1>3, <1>5, Elements
  <2>3. ASSUME NEW x \in ToSet(add) PROVE x \in ToSet(both)
    <3>1. PICK i \in 1 .. n : add[i] = x
      BY <1>1, <2>3, Elements
    <3>2. i + m \in 1 .. m + n /\ both[i + m] = x
      BY <3>1, <1>6
    <3> QED
      BY <3>2, <1>3, Elements
  <2> QED
    BY <2>1, <2>2, <2>3, <1>3, Elements
<1>9. ASSUME IsInjective(last), IsInjective(add),
             ToSet(last) \cap ToSet(add) = {}
      PROVE  IsInjective(both)
  <2> SUFFICES ASSUME NEW i \in 1 .. m + n, NEW j \in 1 .. m + n,
                      both[i] = both[j]
               PROVE  i = j
    BY <1>4 DEF IsInjective
  <2>1. \A k \in 1 .. m, l \in 1 .. n : last[k] # add[l]
    BY <1>1, <1>9 DEF ToSet
  <2>2. CASE i <= m /\ j <= m
    <3>1. i \in 1 .. m /\ j \in 1 .. m /\ last[i] = last[j]
      BY <2>2, <1>3
    <3> QED
      BY <3>1, <1>1, <1>9 DEF IsInjective
  <2>3. CASE ~(i <= m) /\ ~(j <= m)
    <3>1. i - m \in 1 .. n /\ j - m \in 1 .. n /\ add[i - m] = add[j - m]
      BY <2>3, <1>3
    <3>2. i - m = j - m
      BY <3>1, <1>1, <1>9 DEF IsInjective
    <3> QED
      BY <3>2
  <2>4. CASE i <= m /\ ~(j <= m)
    BY <2>1, <2>4, <1>3, <1>7
  <2>5. CASE ~(i <= m) /\ j <= m
    BY <2>1, <2>5, <1>3, <1>7
  <2> QED
    BY <2>2, <2>3, <2>4, <2>5
<1> QED
  BY <1>2, <1>3, <1>8, <1>9

(* One turn of the loop that removes: the order may change, and of what is there
   only the server in question goes. *)
LEMMA RemoveServerIs ==
  ASSUME NEW last \in Seq(Servers), NEW s
  PROVE  /\ RemoveServer(last, s) \in Seq(Servers)
         /\ IsInjective(last) =>
                /\ ToSet(RemoveServer(last, s)) = ToSet(last) \ {s}
                /\ IsInjective(RemoveServer(last, s))
<1>1. PICK n \in Nat : n = Len(last) /\ DOMAIN last = 1 .. n
  BY LenProperties
<1>2. CASE ~Contains(last, s)
  BY <1>1, <1>2 DEF RemoveServer, Contains, ToSet
<1>3. CASE Contains(last, s)
  <2>1. PICK i : i = CHOOSE j \in 1 .. Len(last) :
                        last[j] = s /\ \A k \in 1 .. j - 1 : last[k] # s
    OBVIOUS
  <2>2. \E j \in 1 .. Len(last) :
            last[j] = s /\ \A k \in 1 .. j - 1 : last[k] # s
    <3> DEFINE Found == {j \in 1 .. Len(last) : last[j] = s}
    <3>1. Found \in SUBSET Nat /\ Found # {}
      BY <1>1, <1>3 DEF Contains
    <3>2. PICK j \in Found : \A k \in Found : j <= k
      BY <3>1, LeastNumber
    <3> QED
      BY <3>2, <1>1
  <2>3. i \in 1 .. n /\ last[i] = s
    BY <1>1, <2>1, <2>2
  <2>4. PICK e : e = [last EXCEPT ![i] = Last(last)]
    OBVIOUS
  <2>5. Last(last) = last[n] /\ last[n] \in Servers /\ n \in 1 .. n
    BY <1>1, <2>3, ElementOfSeq DEF Last
  <2>6. /\ e \in Seq(Servers) /\ Len(e) = n
        /\ \A j \in 1 .. n : e[j] = IF j = i THEN last[n] ELSE last[j]
    BY <1>1, <2>3, <2>4, <2>5, ExceptSeq
  <2>7. PICK f : f = RemoveServer(last, s)
    OBVIOUS
  <2>8. f = SubSeq(e, 1, n - 1)
    BY <1>1, <1>3, <2>1, <2>4, <2>6, <2>7 DEF RemoveServer, Front
  <2>9. \A j \in 1 .. n - 1 : e[j] \in Servers
    BY <2>6, ElementOfSeq
  <2>10. /\ f \in Seq(Servers) /\ Len(f) = n - 1
         /\ \A j \in 1 .. n - 1 : f[j] = IF j = i THEN last[n] ELSE last[j]
    <3>1. /\ SubSeq(e, 1, n - 1) \in Seq(Servers)
          /\ Len(SubSeq(e, 1, n - 1)) =
                IF 1 <= n - 1 THEN n - 1 - 1 + 1 ELSE 0
          /\ \A j \in 1 .. n - 1 - 1 + 1 : SubSeq(e, 1, n - 1)[j] = e[1 + j - 1]
      BY <2>9, SubSeqProperties
    <3> QED
      BY <3>1, <2>6, <2>8, <2>5
  <2>11. DOMAIN f = 1 .. n - 1
    BY <2>10, LenProperties
  <2>12. ASSUME IsInjective(last)
         PROVE  ToSet(f) = ToSet(last) \ {s} /\ IsInjective(f)
    <3>1. \A j, k \in 1 .. n : last[j] = last[k] => j = k
      BY <1>1, <2>12 DEF IsInjective
    <3>2. \A j \in 1 .. n - 1 : f[j] # s /\ \E k \in 1 .. n : f[j] = last[k]
      BY <3>1, <2>3, <2>5, <2>10
    <3>3. \A k \in 1 .. n : last[k] # s => \E j \in 1 .. n - 1 : f[j] = last[k]
      <4> SUFFICES ASSUME NEW k \in 1 .. n, last[k] # s
                   PROVE  \E j \in 1 .. n - 1 : f[j] = last[k]
        OBVIOUS
      <4>1. k # i
        BY <2>3
      <4>2. CASE k = n
        <5>1. i \in 1 .. n - 1
          BY <2>3, <4>1, <4>2
        <5> QED
          BY <5>1, <4>2, <2>10
      <4>3. CASE k # n
        <5>1. k \in 1 .. n - 1
          BY <4>3
        <5> QED
          BY <5>1, <4>1, <2>10
      <4> QED
        BY <4>2, <4>3
    <3>4. ToSet(f) = ToSet(last) \ {s}
      <4>1. \A x : x \in ToSet(f) <=> \E j \in 1 .. n - 1 : f[j] = x
        BY <2>10, Elements
      <4>2. \A x : x \in ToSet(last) <=> \E j \in 1 .. n : last[j] = x
        BY <1>1, Elements
      <4> QED
        BY <4>1, <4>2, <3>2, <3>3
    <3>5. \A j, k \in 1 .. n - 1 : f[j] = f[k] => j = k
      BY <3>1, <2>3, <2>5, <2>10
    <3> QED
      BY <3>4, <3>5, <2>11 DEF IsInjective
  <2> QED
    BY <2>7, <2>10, <2>12
<1> QED
  BY <1>2, <1>3

(* The loop of RemoveServers: what is left after each turn. *)
LoopFrom(last, remove, left) ==
    left = [n \in 0 .. Len(remove) |->
                IF n = 0 THEN last
                ELSE RemoveServer(left[n - 1], remove[n])]

LEMMA LoopExists ==
  ASSUME NEW last \in Seq(Servers), NEW remove \in Seq(Servers)
  PROVE  \E left : LoopFrom(last, remove, left)
<1> DEFINE Turns(f, n) ==
        /\ f[0] = last
        /\ \A k \in 1 .. n : f[k] = RemoveServer(f[k - 1], remove[k])
<1> DEFINE Lasts(n) == \E f \in [0 .. n -> Seq(Servers)] : Turns(f, n)
<1> DEFINE T == {n \in Nat : Lasts(n)}
<1>1. Lasts(0)
  <2>1. PICK f : f = [k \in 0 .. 0 |-> last]
    OBVIOUS
  <2>2. f \in [0 .. 0 -> Seq(Servers)] /\ f[0] = last
    BY <2>1
  <2> QED
    BY <2>2
<1>2. ASSUME NEW n \in Nat, Lasts(n)
      PROVE  Lasts(n + 1)
  <2>0. PICK f \in [0 .. n -> Seq(Servers)] : Turns(f, n)
    BY <1>2
  <2>1. PICK next \in Seq(Servers) : next = RemoveServer(f[n], remove[n + 1])
    BY <2>0, RemoveServerIs
  <2> DEFINE g == [k \in 0 .. n + 1 |-> IF k = n + 1 THEN next ELSE f[k]]
  <2>2. g \in [0 .. n + 1 -> Seq(Servers)]
    BY <2>0
  <2>3. g[n + 1] = next /\ \A k \in 0 .. n : g[k] = f[k]
    OBVIOUS
  <2> HIDE DEF g
  <2>4. ASSUME NEW k \in 1 .. n + 1
        PROVE  g[k] = RemoveServer(g[k - 1], remove[k])
    <3>1. CASE k = n + 1
      <4>1. k - 1 = n
        BY <3>1
      <4> QED
        BY <3>1, <4>1, <2>1, <2>3
    <3>2. CASE k # n + 1
      <4>1. k \in 1 .. n /\ k - 1 \in 0 .. n
        BY <3>2
      <4> QED
        BY <4>1, <2>0, <2>3
    <3> QED
      BY <3>1, <3>2
  <2>5. Turns(g, n + 1)
    BY <2>0, <2>3, <2>4
  <2> QED
    BY <2>2, <2>5
<1> HIDE DEF Lasts
<1>3. PICK N \in Nat : N = Len(remove)
  BY LenProperties
<1>4. 0 \in T /\ \A n \in Nat : n \in T => n + 1 \in T
  BY <1>1, <1>2
<1> HIDE DEF T
<1>5. N \in T
  BY <1>4, NatSetInduction
<1>6. PICK f \in [0 .. N -> Seq(Servers)] : Turns(f, N)
  BY <1>5 DEF T, Lasts
<1>7. f = [n \in 0 .. N |-> IF n = 0 THEN last
                            ELSE RemoveServer(f[n - 1], remove[n])]
  <2>1. \A n \in 0 .. N : f[n] = IF n = 0 THEN last
                                 ELSE RemoveServer(f[n - 1], remove[n])
    BY <1>6
  <2> QED
    BY <1>6, <2>1
<1> QED
  BY <1>3, <1>7 DEF LoopFrom

(* All of the servers to remove go, and no others. *)
LEMMA RemoveServersIs ==
  ASSUME NEW last \in Seq(Servers), NEW remove \in Seq(Servers)
  PROVE  /\ RemoveServers(last, remove) \in Seq(Servers)
         /\ IsInjective(last) =>
                /\ ToSet(RemoveServers(last, remove))
                        = ToSet(last) \ ToSet(remove)
                /\ IsInjective(RemoveServers(last, remove))
<1>1. PICK left : /\ LoopFrom(last, remove, left)
                  /\ RemoveServers(last, remove) = left[Len(remove)]
  BY LoopExists DEF RemoveServers, LoopFrom
<1>2. PICK N \in Nat : N = Len(remove) /\ DOMAIN remove = 1 .. N
  BY LenProperties
<1>3. /\ left[0] = last
      /\ \A n \in Nat : n + 1 \in 1 .. N =>
            left[n + 1] = RemoveServer(left[n], remove[n + 1])
  <2>1. \A n \in 0 .. N : left[n] = IF n = 0 THEN last
                                    ELSE RemoveServer(left[n - 1], remove[n])
    BY <1>1, <1>2 DEF LoopFrom
  <2>2. ASSUME NEW n \in Nat, n + 1 \in 1 .. N
        PROVE  left[n + 1] = RemoveServer(left[n], remove[n + 1])
    <3>1. n + 1 \in 0 .. N /\ n + 1 # 0 /\ (n + 1) - 1 = n
      BY <2>2
    <3> QED
      BY <3>1, <2>1
  <2> QED
    BY <2>1, <2>2
<1> DEFINE Asked(n) == {remove[k] : k \in 1 .. n}
<1> DEFINE Done(n) ==
        n <= N =>
            /\ left[n] \in Seq(Servers)
            /\ IsInjective(last) =>
                    /\ ToSet(left[n]) = ToSet(last) \ Asked(n)
                    /\ IsInjective(left[n])
<1> DEFINE T == {n \in Nat : Done(n)}
<1>4. Done(0)
  BY <1>3
<1>5. ASSUME NEW n \in Nat, Done(n)
      PROVE  Done(n + 1)
  <2> SUFFICES ASSUME n + 1 <= N PROVE Done(n + 1)
    OBVIOUS
  <2>1. n + 1 \in 1 .. N /\ n <= N
    OBVIOUS
  <2>2. left[n + 1] = RemoveServer(left[n], remove[n + 1])
    BY <2>1, <1>3
  <2>3. left[n + 1] \in Seq(Servers)
    BY <2>1, <2>2, <1>5, RemoveServerIs
  <2>4. ASSUME IsInjective(last)
        PROVE  /\ ToSet(left[n + 1]) = ToSet(last) \ Asked(n + 1)
               /\ IsInjective(left[n + 1])
    <3>1. IsInjective(left[n]) /\ ToSet(left[n]) = ToSet(last) \ Asked(n)
      BY <2>1, <2>4, <1>5
    <3>2. Asked(n + 1) = Asked(n) \cup {remove[n + 1]}
      <4>1. \A k \in 1 .. n + 1 : k = n + 1 \/ k \in 1 .. n
        OBVIOUS
      <4>2. \A k \in 1 .. n : k \in 1 .. n + 1
        OBVIOUS
      <4> QED
        BY <4>1, <4>2
    <3>3. /\ ToSet(left[n + 1]) = ToSet(left[n]) \ {remove[n + 1]}
          /\ IsInjective(left[n + 1])
      BY <2>1, <2>2, <3>1, <1>5, RemoveServerIs
    <3> HIDE DEF Asked
    <3> QED
      BY <3>1, <3>2, <3>3
  <2> QED
    BY <2>3, <2>4
<1> HIDE DEF Done
<1>6. 0 \in T /\ \A n \in Nat : n \in T => n + 1 \in T
  BY <1>4, <1>5
<1> HIDE DEF T
<1>7. N \in T
  BY <1>6, NatSetInduction
<1>8. Asked(N) = ToSet(remove)
  BY <1>2 DEF ToSet
<1> HIDE DEF Asked
<1> QED
  BY <1>1, <1>2, <1>7, <1>8 DEF T, Done

(* What LoadBalancerReset will do, for the lists it is given. *)
Operations == {"add", "remove"} \X Servers
Operating(add, remove) ==
    [i \in DOMAIN add |-> <<"add", add[i]>>]
        \o [i \in DOMAIN remove |-> <<"remove", remove[i]>>]

LEMMA OperatingIs ==
  ASSUME NEW add \in Seq(Servers), NEW remove \in Seq(Servers)
  PROVE  /\ Operating(add, remove) \in Seq(Operations)
         /\ \A s : /\ <<"add", s>> \in ToSet(Operating(add, remove))
                        <=> s \in ToSet(add)
                   /\ <<"remove", s>> \in ToSet(Operating(add, remove))
                        <=> s \in ToSet(remove)
<1>1. PICK m \in Nat, n \in Nat :
        /\ m = Len(add) /\ n = Len(remove)
        /\ DOMAIN add = 1 .. m /\ DOMAIN remove = 1 .. n
  BY LenProperties
<1>2. \A i \in 1 .. m : add[i] \in Servers
  BY <1>1, ElementOfSeq
<1>3. \A i \in 1 .. n : remove[i] \in Servers
  BY <1>1, ElementOfSeq
<1>4. PICK a : a = [i \in 1 .. m |-> <<"add", add[i]>>]
  OBVIOUS
<1>5. PICK r : r = [i \in 1 .. n |-> <<"remove", remove[i]>>]
  OBVIOUS
<1>6. a \in [1 .. m -> Operations] /\ r \in [1 .. n -> Operations]
  BY <1>2, <1>3, <1>4, <1>5 DEF Operations
<1>7. a \in Seq(Operations) /\ Len(a) = m /\ r \in Seq(Operations) /\ Len(r) = n
  BY <1>6, SeqDef
<1>8. PICK ops : ops = Operating(add, remove)
  OBVIOUS
<1>9. ops = a \o r
  BY <1>1, <1>4, <1>5, <1>8 DEF Operating
<1>10. /\ ops \in Seq(Operations) /\ Len(ops) = m + n
       /\ \A i \in 1 .. m + n : ops[i] = IF i <= m THEN a[i] ELSE r[i - m]
  BY <1>7, <1>9, ConcatProperties
<1>11. \A x : x \in ToSet(ops) <=> \E i \in 1 .. m + n : ops[i] = x
  BY <1>10, Elements
<1>12. \A x : /\ x \in ToSet(add) <=> \E i \in 1 .. m : add[i] = x
              /\ x \in ToSet(remove) <=> \E i \in 1 .. n : remove[i] = x
  BY <1>1, Elements
<1>13. ASSUME NEW i \in 1 .. m
       PROVE  i \in 1 .. m + n /\ ops[i] = <<"add", add[i]>>
  BY <1>4, <1>10
<1>14. ASSUME NEW i \in 1 .. n
       PROVE  m + i \in 1 .. m + n /\ ops[m + i] = <<"remove", remove[i]>>
  <2>1. m + i \in 1 .. m + n /\ ~(m + i <= m) /\ (m + i) - m = i
    OBVIOUS
  <2> QED
    BY <2>1, <1>5, <1>10
<1>15. ASSUME NEW k \in 1 .. m + n
       PROVE  \/ k \in 1 .. m /\ ops[k] = <<"add", add[k]>>
              \/ \E i \in 1 .. n : ops[k] = <<"remove", remove[i]>>
  <2>1. CASE k <= m
    BY <2>1, <1>13
  <2>2. CASE ~(k <= m)
    <3>1. k - m \in 1 .. n /\ m + (k - m) = k
      BY <2>2
    <3> QED
      BY <3>1, <1>14
  <2> QED
    BY <2>1, <2>2
<1>16. \A x, y : <<"add", x>> # <<"remove", y>>
  OBVIOUS
<1>17. ASSUME NEW s
       PROVE  <<"add", s>> \in ToSet(ops) <=> s \in ToSet(add)
  <2>1. ASSUME s \in ToSet(add)
        PROVE  <<"add", s>> \in ToSet(ops)
    BY <2>1, <1>11, <1>12, <1>13
  <2>2. ASSUME <<"add", s>> \in ToSet(ops)
        PROVE  s \in ToSet(add)
    <3>1. PICK k \in 1 .. m + n : ops[k] = <<"add", s>>
      BY <2>2, <1>11
    <3>2. k \in 1 .. m /\ <<"add", add[k]>> = <<"add", s>>
      BY <3>1, <1>15, <1>16
    <3> QED
      BY <3>2, <1>12
  <2> QED
    BY <2>1, <2>2
<1>18. ASSUME NEW s
       PROVE  <<"remove", s>> \in ToSet(ops) <=> s \in ToSet(remove)
  <2>1. ASSUME s \in ToSet(remove)
        PROVE  <<"remove", s>> \in ToSet(ops)
    BY <2>1, <1>11, <1>12, <1>14
  <2>2. ASSUME <<"remove", s>> \in ToSet(ops)
        PROVE  s \in ToSet(remove)
    <3>1. PICK k \in 1 .. m + n : ops[k] = <<"remove", s>>
      BY <2>2, <1>11
    <3>2. PICK i \in 1 .. n : <<"remove", remove[i]>> = <<"remove", s>>
      BY <3>1, <1>15, <1>16
    <3> QED
      BY <3>2, <1>12
  <2> QED
    BY <2>1, <2>2
<1> QED
  BY <1>8, <1>10, <1>17, <1>18

-----------------------------------------------------------------------------
(* The types: besides the variables of TypeOK, what is left of each thread's
   LoadBalancerReset. *)
TypeInv == TypeOK /\ balancing \in [Threads -> Seq(Operations)]

USE DEF zkVars, serverVars, actionVars, threadVars, historyVars, clientVars

LEMMA InitTypes == Init => TypeInv
<1> SUFFICES ASSUME Init PROVE TypeInv
  OBVIOUS
<1>1. << >> \in Seq(Servers) /\ << >> \in Seq(Operations)
  BY EmptySeq
<1>2. copy \in [{0, 1} -> Seq(Servers)]
  BY <1>1 DEF Init
<1>3. balancing \in [Threads -> Seq(Operations)]
  BY <1>1 DEF Init
<1>4. /\ sessions \in SUBSET (Servers \X (Nat \ {0}))
      /\ node \in [Servers -> Nat] /\ starts \in [Servers -> Nat]
      /\ server \in [Servers -> {"down", "exists", "create", "running",
                                 "leaving"}]
  BY DEF Init
<1>5. /\ pc \in [Threads -> {"idle", "list", "get", "reset", "balance"}]
      /\ rest \in [Threads -> SUBSET Servers]
      /\ seen \in [Threads -> SUBSET Servers]
      /\ phase \in [Threads -> {0, 1}]
  BY DEF Init
<1> QED
  BY <1>1, <1>2, <1>3, <1>4, <1>5 DEF Init, TypeInv, TypeOK

(* Steps of ZooKeeper and of the servers leave the client alone. *)
Outside ==
    \E s \in Servers :
        \/ Register(s) \/ UnregisterMethod(s) \/ Crash(s)
        \/ \E n \in 1 .. MaxStarts : Expire(s, n)

LEMMA OutsideStep ==
  ASSUME TypeInv, Outside
  PROVE  /\ TypeInv' /\ UNCHANGED clientVars
         /\ \/ UNCHANGED <<node, watched, events>>
            \/ watched /\ ~watched' /\ events' = events + 1
            \/ ~watched /\ ~watched' /\ UNCHANGED events
<1>1. PICK s \in Servers :
        \/ Register(s) \/ UnregisterMethod(s) \/ Crash(s)
        \/ \E n \in 1 .. MaxStarts : Expire(s, n)
  BY DEF Outside
<1>2. UNCHANGED clientVars
  BY <1>1 DEF Register, StartServer, CheckExists, CreateNode, Close,
              UnregisterMethod, Crash, Expire
<1>3. /\ node' \in [Servers -> Nat]
      /\ watched' \in BOOLEAN /\ events' \in Nat
      /\ \/ UNCHANGED <<node, watched, events>>
         \/ watched /\ ~watched' /\ events' = events + 1
         \/ ~watched /\ ~watched' /\ UNCHANGED events
  <2>1. CASE StartServer(s) \/ CheckExists(s) \/ Crash(s)
    BY <2>1 DEF StartServer, CheckExists, Crash, TypeInv, TypeOK
  <2>2. ASSUME TriggerWatch
        PROVE  /\ watched' \in BOOLEAN /\ events' \in Nat
               /\ \/ UNCHANGED <<node, watched, events>>
                  \/ watched /\ ~watched' /\ events' = events + 1
                  \/ ~watched /\ ~watched' /\ UNCHANGED events
    <3>1. watched \in BOOLEAN /\ events \in Nat
      BY DEF TypeInv, TypeOK
    <3>2. CASE watched /\ node' # node
      <4>1. watched' = FALSE /\ events' = events + 1
        BY <2>2, <3>2 DEF TriggerWatch
      <4>2. events + 1 \in Nat
        BY <3>1
      <4> QED
        BY <3>2, <4>1, <4>2
    <3>3. CASE ~watched
      BY <2>2, <3>1, <3>3 DEF TriggerWatch
    <3>4. CASE node' = node
      BY <2>2, <3>1, <3>4 DEF TriggerWatch
    <3> QED
      BY <3>2, <3>3, <3>4
  <2>3. CASE CreateNode(s) \/ UnregisterMethod(s)
    <3>1. node' \in [Servers -> Nat]
      <4>1. CASE CreateNode(s)
        <5>1. starts[s] \in Nat /\ node[s] \in Nat
          BY DEF TypeInv, TypeOK
        <5> QED
          BY <4>1, <5>1 DEF CreateNode, TypeInv, TypeOK
      <4>2. CASE UnregisterMethod(s)
        BY <4>2 DEF UnregisterMethod, TypeInv, TypeOK
      <4> QED
        BY <2>3, <4>1, <4>2
    <3> QED
      BY <2>2, <2>3, <3>1 DEF CreateNode, UnregisterMethod
  <2>4. CASE \E n \in Nat : EndSession(s, n)
    <3>1. node' \in [Servers -> Nat]
      BY <2>4 DEF EndSession, TypeInv, TypeOK
    <3> QED
      BY <2>2, <2>4, <3>1 DEF EndSession
  <2>5. ASSUME Close(s) \/ \E n \in 1 .. MaxStarts : Expire(s, n)
        PROVE  \E n \in Nat : EndSession(s, n)
    BY <2>5 DEF Close, Expire, TypeInv, TypeOK
  <2> QED
    BY <1>1, <2>1, <2>3, <2>4, <2>5 DEF Register
<1>4. /\ starts' \in [Servers -> Nat]
      /\ server' \in [Servers -> {"down", "exists", "create", "running",
                                  "leaving"}]
  <2>1. /\ starts \in [Servers -> Nat]
        /\ server \in [Servers -> {"down", "exists", "create", "running",
                                   "leaving"}]
    BY DEF TypeInv, TypeOK
  <2>2. CASE StartServer(s)
    BY <2>1, <2>2 DEF StartServer
  <2>3. CASE CheckExists(s)
    BY <2>1, <2>3 DEF CheckExists
  <2>4. CASE CreateNode(s) \/ Close(s) \/ UnregisterMethod(s) \/ Crash(s)
    BY <2>1, <2>4 DEF CreateNode, Close, UnregisterMethod, Crash
  <2>5. CASE \E n \in 1 .. MaxStarts : Expire(s, n)
    BY <2>1, <2>5 DEF Expire
  <2> QED
    BY <1>1, <2>2, <2>3, <2>4, <2>5 DEF Register
<1>5. sessions' \in SUBSET (Servers \X (Nat \ {0}))
  <2>1. CASE StartServer(s)
    <3>1. starts'[s] \in Nat \ {0}
      BY <2>1 DEF StartServer, TypeInv, TypeOK
    <3> QED
      BY <2>1, <3>1 DEF StartServer, TypeInv, TypeOK
  <2>2. CASE ~StartServer(s)
    BY <1>1, <2>2 DEF Register, CheckExists, CreateNode, Close, EndSession,
                      UnregisterMethod, Crash, Expire, TypeInv, TypeOK
  <2> QED
    BY <2>1, <2>2
<1>6. TypeInv'
  BY <1>2, <1>3, <1>4, <1>5 DEF TypeInv, TypeOK
<1> QED
  BY <1>2, <1>3, <1>6

(* The first call for a method, a callback, a list, and the data of a child:
   nothing of what is being modified changes, and the thread is not the one that
   modifies. *)
Listing(t) ==
    \/ t \in Users /\ ManageLoadBalancer(t)
    \/ t = Watcher /\ child_watch_cb
    \/ ListChildren(t) \/ GetData(t)

Modified == <<copy, index, toAdd, toRemove, changed, balancer, modifying, phase,
              balancing>>

LEMMA ListingStep ==
  ASSUME TypeInv, NEW t \in Threads, Listing(t)
  PROVE  /\ UNCHANGED Modified
         /\ pc[t] \in {"idle", "list", "get"}
         /\ pc'[t] \in {"list", "get"}
         /\ \A u \in Threads \ {t} : pc'[u] = pc[u] /\ seen'[u] = seen[u]
  BY DEF Listing, ManageLoadBalancer, child_watch_cb, ListChildren, GetData,
         Stage, Goto, Modified, TypeInv, TypeOK

LEMMA ListingTypes ==
  ASSUME TypeInv, NEW t \in Threads, Listing(t)
  PROVE  TypeInv'
<1>1. /\ watched' \in BOOLEAN /\ events' \in Nat
      /\ managed' \in BOOLEAN /\ dead' \in BOOLEAN
      /\ latest' \in Threads \cup {None} /\ current' \in BOOLEAN
  <2>1. CASE ManageLoadBalancer(t)
    BY <2>1 DEF ManageLoadBalancer, TypeInv, TypeOK
  <2>2. CASE child_watch_cb
    BY <2>2 DEF child_watch_cb, TypeInv, TypeOK
  <2>3. CASE ListChildren(t)
    BY <2>3 DEF ListChildren, TypeInv, TypeOK
  <2>4. CASE GetData(t)
    BY <2>4 DEF GetData, TypeInv, TypeOK
  <2> QED
    BY <2>1, <2>2, <2>3, <2>4 DEF Listing
<1>2. Children \in SUBSET Servers
  BY DEF Children
<1>3. /\ pc' \in [Threads -> {"idle", "list", "get", "reset", "balance"}]
      /\ seen' \in [Threads -> SUBSET Servers]
      /\ rest' \in [Threads -> SUBSET Servers]
  <2>1. CASE ManageLoadBalancer(t)
    BY <2>1 DEF ManageLoadBalancer, Goto, TypeInv, TypeOK
  <2>2. CASE child_watch_cb
    BY <2>2 DEF child_watch_cb, Goto, TypeInv, TypeOK
  <2>3. CASE ListChildren(t)
    BY <1>2, <2>3 DEF ListChildren, Goto, TypeInv, TypeOK
  <2>4. CASE GetData(t)
    BY <2>4 DEF GetData, Goto, TypeInv, TypeOK
  <2> QED
    BY <2>1, <2>2, <2>3, <2>4 DEF Listing
<1>4. UNCHANGED <<sessions, node, server, starts>>
  BY DEF Listing, ManageLoadBalancer, child_watch_cb, ListChildren, GetData
<1> QED
  BY <1>1, <1>3, <1>4, ListingStep DEF Modified, TypeInv, TypeOK

(* What the thread that modifies does. *)
Modifies(t) ==
    BeginModify(t) \/ ResetFn(t) \/ BalanceNext(t) \/ Publish(t) \/ EndModify(t)

LEMMA ModifiesStep ==
  ASSUME TypeInv, NEW t \in Threads, Modifies(t)
  PROVE  /\ UNCHANGED <<sessions, node, watched, events, server, starts, managed,
                        rest, dead, latest>>
         /\ \A u \in Threads \ {t} :
                /\ pc'[u] = pc[u] /\ seen'[u] = seen[u]
                /\ phase'[u] = phase[u] /\ balancing'[u] = balancing[u]
<1>1. CASE BeginModify(t)
  BY <1>1 DEF BeginModify, Goto, TypeInv, TypeOK
<1>2. CASE ResetFn(t)
  BY <1>2 DEF ResetFn, FirstBuffer, SecondBuffer, Goto, TypeInv, TypeOK
<1>3. CASE BalanceNext(t)
  BY <1>3 DEF BalanceNext, TypeInv, TypeOK
<1>4. CASE Publish(t)
  BY <1>4 DEF Publish, Goto, TypeInv, TypeOK
<1>5. CASE EndModify(t)
  BY <1>5 DEF EndModify, Goto, TypeInv, TypeOK
<1> QED
  BY <1>1, <1>2, <1>3, <1>4, <1>5 DEF Modifies

(* Both calls of ResetFn build the background copy in the same way. *)
LEMMA FirstBufferIs ==
  ASSUME TypeInv, NEW t \in Threads, NEW b \in {0, 1}, FirstBuffer(t, b)
  PROVE  /\ toAdd' \in Seq(Servers) /\ toRemove' \in Seq(Servers)
         /\ ToSet(toAdd') = seen[t] \ ToSet(copy[b]) /\ IsInjective(toAdd')
         /\ ToSet(toRemove') = ToSet(copy[b]) \ seen[t] /\ IsInjective(toRemove')
         /\ copy' \in [{0, 1} -> Seq(Servers)]
         /\ ToSet(copy'[b]) = seen[t] /\ IsInjective(copy'[b])
         /\ copy'[1 - b] = copy[1 - b]
         /\ changed' \in BOOLEAN
         /\ changed' => toAdd' # << >> \/ toRemove' # << >>
         /\ balancing' = [balancing EXCEPT ![t] = Operating(toAdd', toRemove')]
         /\ ~Pending
<1>1. copy \in [{0, 1} -> Seq(Servers)] /\ seen[t] \in SUBSET Servers
  BY DEF TypeInv, TypeOK
<1>2. PICK last : last = Sorted(ToSet(copy[b]))
  OBVIOUS
<1>3. PICK new : new = Sorted(seen[t])
  OBVIOUS
<1>4. last \in Seq(Servers) /\ ToSet(last) = ToSet(copy[b]) /\ IsInjective(last)
  BY <1>1, <1>2, Elements, SortedIs
<1>5. new \in Seq(Servers) /\ ToSet(new) = seen[t]
  BY <1>1, <1>3, SortedIs
<1>6. toRemove' = Minus(last, new) /\ toAdd' = Minus(new, last)
  BY <1>2, <1>3 DEF FirstBuffer, Gone
<1>7. /\ toAdd' \in Seq(Servers) /\ toRemove' \in Seq(Servers)
      /\ ToSet(toAdd') = seen[t] \ ToSet(copy[b]) /\ IsInjective(toAdd')
      /\ ToSet(toRemove') = ToSet(copy[b]) \ seen[t] /\ IsInjective(toRemove')
  BY <1>4, <1>5, <1>6, MinusIs
<1>8. PICK both : both = AddServers(last, toAdd')
  OBVIOUS
<1>9. /\ both \in Seq(Servers) /\ IsInjective(both)
      /\ ToSet(both) = ToSet(copy[b]) \cup seen[t]
  BY <1>4, <1>7, <1>8, AddServersIs
<1>10. PICK now : now = RemoveServers(both, toRemove')
  OBVIOUS
<1>11. now \in Seq(Servers) /\ IsInjective(now) /\ ToSet(now) = seen[t]
  <2>1. ToSet(now) = ToSet(both) \ ToSet(toRemove')
    BY <1>7, <1>9, <1>10, RemoveServersIs
  <2>2. ToSet(now) = seen[t]
    BY <2>1, <1>7, <1>9
  <2> QED
    BY <2>2, <1>7, <1>9, <1>10, RemoveServersIs
<1>12. copy' = [copy EXCEPT ![b] = now]
  BY <1>2, <1>8, <1>10 DEF FirstBuffer
<1>13. balancing' = [balancing EXCEPT ![t] = Operating(toAdd', toRemove')]
  BY DEF FirstBuffer, LoadBalancerReset, Operating
<1>14. /\ changed' \in BOOLEAN
       /\ changed' => toAdd' # << >> \/ toRemove' # << >>
       /\ ~Pending
  BY DEF FirstBuffer
<1>15. 1 - b \in {0, 1} /\ 1 - b # b
  OBVIOUS
<1>16. /\ copy' \in [{0, 1} -> Seq(Servers)] /\ copy'[b] = now
       /\ copy'[1 - b] = copy[1 - b]
  BY <1>1, <1>11, <1>12, <1>15
<1> QED
  BY <1>7, <1>11, <1>13, <1>14, <1>16

LEMMA SecondBufferIs ==
  ASSUME TypeInv, NEW t \in Threads, NEW b \in {0, 1}, SecondBuffer(t, b)
  PROVE  /\ copy' \in [{0, 1} -> Seq(Servers)]
         /\ IsInjective(copy[b]) /\ IsInjective(toAdd)
                /\ ToSet(copy[b]) \cap ToSet(toAdd) = {}
            => /\ ToSet(copy'[b])
                    = (ToSet(copy[b]) \cup ToSet(toAdd)) \ ToSet(toRemove)
               /\ IsInjective(copy'[b])
         /\ copy'[1 - b] = copy[1 - b]
         /\ toAdd' = << >> /\ toRemove' = << >> /\ changed' = FALSE
         /\ balancing' = balancing
         /\ Pending
<1>1. /\ copy \in [{0, 1} -> Seq(Servers)]
      /\ toAdd \in Seq(Servers) /\ toRemove \in Seq(Servers)
  BY DEF TypeInv, TypeOK
<1>2. PICK both : both = AddServers(copy[b], toAdd)
  OBVIOUS
<1>3. /\ both \in Seq(Servers)
      /\ ToSet(both) = ToSet(copy[b]) \cup ToSet(toAdd)
      /\ IsInjective(copy[b]) /\ IsInjective(toAdd)
                /\ ToSet(copy[b]) \cap ToSet(toAdd) = {} => IsInjective(both)
  BY <1>1, <1>2, AddServersIs
<1>4. PICK now : now = RemoveServers(both, toRemove)
  OBVIOUS
<1>5. /\ now \in Seq(Servers)
      /\ IsInjective(both) =>
            IsInjective(now) /\ ToSet(now) = ToSet(both) \ ToSet(toRemove)
  BY <1>1, <1>3, <1>4, RemoveServersIs
<1>6. copy' = [copy EXCEPT ![b] = now]
  BY <1>2, <1>4 DEF SecondBuffer
<1>7. 1 - b \in {0, 1} /\ 1 - b # b
  OBVIOUS
<1>8. /\ copy' \in [{0, 1} -> Seq(Servers)] /\ copy'[b] = now
      /\ copy'[1 - b] = copy[1 - b]
  BY <1>1, <1>5, <1>6, <1>7
<1> QED
  BY <1>3, <1>5, <1>8 DEF SecondBuffer, Clear

LEMMA ModifiesTypes ==
  ASSUME TypeInv, NEW t \in Threads, Modifies(t)
  PROVE  TypeInv'
<1> DEFINE PcType == [Threads -> {"idle", "list", "get", "reset", "balance"}]
<1> DEFINE ListType ==
        /\ copy \in [{0, 1} -> Seq(Servers)] /\ changed \in BOOLEAN
        /\ toAdd \in Seq(Servers) /\ toRemove \in Seq(Servers)
<1> DEFINE OpsType == balancing \in [Threads -> Seq(Operations)]
<1> DEFINE RestType ==
        /\ index \in {0, 1} /\ balancer \in SUBSET Servers
        /\ modifying \in Threads \cup {None} /\ current \in BOOLEAN
        /\ seen \in [Threads -> SUBSET Servers]
        /\ phase \in [Threads -> {0, 1}]
<1>1. pc \in PcType /\ ListType /\ OpsType /\ RestType
  BY DEF TypeInv, TypeOK
<1>2. pc' \in PcType
  BY <1>1 DEF Modifies, BeginModify, ResetFn, BalanceNext, Publish, EndModify,
              Goto
<1>3. ListType' /\ OpsType'
  <2>1. CASE ResetFn(t)
    <3>1. PICK b \in {0, 1} : b = 1 - index
      BY <1>1
    <3>2. CASE FirstBuffer(t, b)
      <4>1. Operating(toAdd', toRemove') \in Seq(Operations)
        BY <3>2, FirstBufferIs, OperatingIs
      <4> QED
        BY <1>1, <3>2, <4>1, FirstBufferIs
    <3>3. CASE SecondBuffer(t, b)
      <4>1. << >> \in Seq(Servers)
        BY EmptySeq
      <4> QED
        BY <1>1, <3>3, <4>1, SecondBufferIs
    <3> QED
      BY <2>1, <3>1, <3>2, <3>3 DEF ResetFn
  <2>2. CASE BalanceNext(t)
    <3>1. Tail(balancing[t]) \in Seq(Operations)
      BY <1>1, <2>2, HeadTailProperties DEF BalanceNext
    <3> QED
      BY <1>1, <2>2, <3>1 DEF BalanceNext
  <2>3. CASE BeginModify(t) \/ Publish(t) \/ EndModify(t)
    BY <1>1, <2>3 DEF BeginModify, Publish, EndModify
  <2> QED
    BY <2>1, <2>2, <2>3 DEF Modifies
<1>4. RestType'
  <2>1. CASE BalanceNext(t)
    <3>1. Head(balancing[t]) \in Operations
      BY <1>1, <2>1, HeadTailProperties DEF BalanceNext
    <3>2. Head(balancing[t])[2] \in Servers
      BY <3>1 DEF Operations
    <3>3. balancer' \in SUBSET Servers
      BY <1>1, <2>1, <3>2 DEF BalanceNext
    <3> QED
      BY <1>1, <2>1, <3>3 DEF BalanceNext
  <2>2. CASE BeginModify(t)
    BY <1>1, <2>2 DEF BeginModify
  <2>3. CASE ResetFn(t)
    BY <1>1, <2>3 DEF ResetFn
  <2>4. CASE Publish(t)
    BY <1>1, <2>4 DEF Publish
  <2>5. CASE EndModify(t)
    BY <1>1, <2>5 DEF EndModify
  <2> QED
    BY <2>1, <2>2, <2>3, <2>4, <2>5 DEF Modifies
<1> QED
  BY <1>2, <1>3, <1>4, ModifiesStep DEF TypeInv, TypeOK

(* Each step is of one of the three kinds. *)
LEMMA Kinds == Next => \/ Outside
                       \/ \E t \in Threads : Listing(t) \/ Modifies(t)
  BY DEF Next, Outside, RunNS, Listing, Modifies, Threads

LEMMA NextTypes == TypeInv /\ [Next]_vars => TypeInv'
<1> SUFFICES ASSUME TypeInv, [Next]_vars PROVE TypeInv'
  OBVIOUS
<1>1. CASE Outside
  BY <1>1, OutsideStep
<1>2. ASSUME NEW t \in Threads, Listing(t) \/ Modifies(t) PROVE TypeInv'
  BY <1>2, ListingTypes, ModifiesTypes
<1>3. CASE UNCHANGED vars
  BY <1>3 DEF vars, TypeInv, TypeOK
<1> QED
  BY <1>1, <1>2, <1>3, Kinds

(* Every variable has its type, in each reachable state. *)
THEOREM TypeCorrect == Spec => []TypeOK
<1>1. TypeInv => TypeOK
  BY DEF TypeInv
<1> QED
  BY InitTypes, NextTypes, <1>1, PTL DEF Spec

-----------------------------------------------------------------------------
(* What the thread that modifies finds at each point: the two copies and the
   load balancer, between the list of before and the list being installed. *)
Fore == copy[index]
Back == copy[1 - index]
Adds(t) == {s \in Servers : <<"add", s>> \in ToSet(balancing[t])}
Removes(t) == {s \in Servers : <<"remove", s>> \in ToSet(balancing[t])}

(* Who is between BeginModify and EndModify, and how far. *)
Owner ==
    \A t \in Threads :
        /\ pc[t] \in {"reset", "balance"} <=> modifying = t
        /\ phase[t] = 1 => modifying = t
        /\ balancing[t] # << >> => pc[t] = "balance" /\ phase[t] = 0

Same == /\ ToSet(Fore) = ToSet(Back) /\ balancer = ToSet(Fore)
        /\ ~Pending

(* _servers_to_add and _servers_to_remove lead from a list to the new one. *)
Difference(t, list) ==
    /\ ToSet(toAdd) = seen[t] \ ToSet(list) /\ IsInjective(toAdd)
    /\ ToSet(toRemove) = ToSet(list) \ seen[t] /\ IsInjective(toRemove)
    /\ changed => toAdd # << >> \/ toRemove # << >>

Begun(t) == pc[t] = "reset" /\ phase[t] = 0 => Same

(* The background copy has the new list; the balancer is on its way to it. *)
Balancing(t) ==
    pc[t] = "balance" /\ phase[t] = 0 =>
        /\ ToSet(Back) = seen[t] /\ Difference(t, Fore)
        /\ balancer \subseteq seen[t] \cup Removes(t)
        /\ seen[t] \subseteq balancer \cup Adds(t)
        /\ Adds(t) \subseteq seen[t] /\ Removes(t) \cap seen[t] = {}

Published(t) ==
    pc[t] = "reset" /\ phase[t] = 1 =>
        /\ ToSet(Fore) = seen[t] /\ Difference(t, Back)
        /\ balancer = seen[t]

Ended(t) ==
    pc[t] = "balance" /\ phase[t] = 1 => Same

Modifying(t) == Begun(t) /\ Balancing(t) /\ Published(t) /\ Ended(t)
Copies == IsInjective(copy[0]) /\ IsInjective(copy[1])
Between == modifying = None => Same
ModifyInv == Owner /\ Copies /\ Between /\ \A t \in Threads : Modifying(t)

(* A thread that is not there promises nothing. *)
LEMMA NotModifying ==
  ASSUME NEW t, pc[t] \notin {"reset", "balance"}
  PROVE  Modifying(t)
  BY DEF Modifying, Begun, Balancing, Published, Ended

LEMMA EmptyList ==
  ASSUME NEW s \in Seq(Servers)
  PROVE  ToSet(s) = {} <=> s = << >>
<1>1. ASSUME s # << >> PROVE ToSet(s) # {}
  <2>1. 1 \in 1 .. Len(s)
    BY <1>1, EmptySeq
  <2> QED
    BY <2>1, Elements
<1>2. ASSUME s = << >> PROVE ToSet(s) = {}
  <2>1. 1 .. Len(s) = {}
    BY <1>2, EmptySeq
  <2> QED
    BY <2>1, Elements
<1> QED
  BY <1>1, <1>2

LEMMA InitModify == Init => ModifyInv
<1> SUFFICES ASSUME Init PROVE ModifyInv
  OBVIOUS
<1>1. Owner
  BY NamesAssumption DEF Init, Owner
<1>2. ToSet(<< >>) = {} /\ IsInjective(<< >>)
  BY DEF ToSet, IsInjective
<1>3. Copies /\ Same
  BY <1>2 DEF Init, Copies, Same, Fore, Back, Pending
<1>4. \A t \in Threads : Modifying(t)
  BY NotModifying DEF Init
<1> QED
  BY <1>1, <1>3, <1>4 DEF ModifyInv, Between

(* Only one thread modifies, so that it is enough to look at that one. *)
LEMMA OtherThreads ==
  ASSUME TypeInv, Owner, NEW t \in Threads, modifying = t \/ modifying = None,
         \A u \in Threads \ {t} : pc'[u] = pc[u]
  PROVE  \A u \in Threads \ {t} : Modifying(u)'
<1> SUFFICES ASSUME NEW u \in Threads, u # t PROVE Modifying(u)'
  OBVIOUS
<1>1. pc'[u] = pc[u] /\ pc[u] \notin {"reset", "balance"}
  BY NamesAssumption DEF Owner
<1> QED
  BY <1>1 DEF Modifying, Begun, Balancing, Published, Ended

LEMMA OutsideModify ==
  ASSUME ModifyInv, UNCHANGED clientVars
  PROVE  ModifyInv'
  BY DEF ModifyInv, Owner, Copies, Between, Same, Fore, Back, Pending, Modifying,
         Begun, Balancing, Published, Ended, Difference, Adds, Removes

LEMMA ListingModify ==
  ASSUME TypeInv, ModifyInv, NEW t \in Threads, Listing(t)
  PROVE  ModifyInv'
<1>1. /\ UNCHANGED Modified
      /\ pc[t] \notin {"reset", "balance"} /\ pc'[t] \notin {"reset", "balance"}
      /\ \A u \in Threads \ {t} : pc'[u] = pc[u] /\ seen'[u] = seen[u]
  BY ListingStep
<1>2. phase[t] # 1 /\ balancing[t] = << >>
  BY <1>1 DEF ModifyInv, Owner
<1>3. Owner'
  <2> SUFFICES ASSUME NEW u \in Threads
               PROVE  /\ pc'[u] \in {"reset", "balance"} <=> modifying' = u
                      /\ phase'[u] = 1 => modifying' = u
                      /\ balancing'[u] # << >> =>
                            pc'[u] = "balance" /\ phase'[u] = 0
    BY DEF Owner
  <2>1. CASE u = t
    BY <2>1, <1>1, <1>2 DEF ModifyInv, Owner, Modified
  <2>2. CASE u # t
    BY <2>2, <1>1 DEF ModifyInv, Owner, Modified
  <2> QED
    BY <2>1, <2>2
<1>4. Copies' /\ Between'
  BY <1>1 DEF ModifyInv, Copies, Between, Same, Fore, Back, Pending, Modified
<1>5. \A u \in Threads : Modifying(u)'
  <2> SUFFICES ASSUME NEW u \in Threads PROVE Modifying(u)'
    OBVIOUS
  <2>1. CASE u = t
    BY <2>1, <1>1 DEF Modifying, Begun, Balancing, Published, Ended
  <2>2. CASE u # t
    BY <2>2, <1>1 DEF ModifyInv, Modifying, Begun, Balancing, Published, Ended,
                      Difference, Same, Fore, Back, Pending, Adds, Removes,
                      Modified
  <2> QED
    BY <2>1, <2>2
<1> QED
  BY <1>3, <1>4, <1>5 DEF ModifyInv

LEMMA BeginModifyInv ==
  ASSUME TypeInv, ModifyInv, NEW t \in Threads, BeginModify(t)
  PROVE  ModifyInv'
<1>1. /\ pc[t] = "get" /\ modifying = None /\ modifying' = t
      /\ pc' = [pc EXCEPT ![t] = "reset"]
      /\ UNCHANGED <<copy, index, toAdd, toRemove, changed, balancer, phase,
                     balancing, seen>>
  BY DEF BeginModify, Stage, Goto
<1>2. pc'[t] = "reset" /\ \A u \in Threads \ {t} : pc'[u] = pc[u]
  BY <1>1 DEF TypeInv, TypeOK
<1>3. /\ Same /\ phase[t] # 1 /\ balancing[t] = << >>
      /\ Owner /\ Copies
  BY <1>1, NamesAssumption DEF ModifyInv, Between, Owner
<1>4. phase[t] = 0
  BY <1>3 DEF TypeInv, TypeOK
<1>5. Same' /\ Copies'
  BY <1>1, <1>3 DEF Same, Copies, Fore, Back, Pending
<1>6. Owner'
  BY <1>1, <1>2, <1>3, <1>4, NamesAssumption DEF Owner
<1>7. Modifying(t)'
  BY <1>1, <1>2, <1>4, <1>5 DEF Modifying, Begun, Balancing, Published, Ended
<1>8. \A u \in Threads \ {t} : Modifying(u)'
  BY <1>1, <1>2, <1>3, OtherThreads
<1>9. Between'
  BY <1>1, NamesAssumption DEF Between
<1> QED
  BY <1>5, <1>6, <1>7, <1>8, <1>9 DEF ModifyInv

(* The first copy has been changed. *)
LEMMA FirstResetInv ==
  ASSUME TypeInv, TypeInv', ModifyInv, NEW t \in Threads, ResetFn(t),
         phase[t] = 0
  PROVE  ModifyInv'
<1>1. PICK b \in {0, 1} : b = 1 - index
  BY DEF TypeInv, TypeOK
<1>2. index = 1 - b /\ index \in {0, 1} /\ b # index
  BY <1>1 DEF TypeInv, TypeOK
<1>3. /\ pc[t] = "reset" /\ pc' = [pc EXCEPT ![t] = "balance"]
      /\ UNCHANGED <<index, balancer, modifying, seen, phase>>
      /\ FirstBuffer(t, b) \/ SecondBuffer(t, b)
  BY <1>1 DEF ResetFn, Stage, Goto
<1>4. pc'[t] = "balance" /\ \A u \in Threads \ {t} : pc'[u] = pc[u]
  BY <1>3 DEF TypeInv, TypeOK
<1>5. /\ Same /\ modifying = t /\ balancing[t] = << >>
      /\ Owner /\ Copies
  BY <1>3 DEF ModifyInv, Modifying, Begun, Owner
<1>6. FirstBuffer(t, b)
  BY <1>3, <1>5 DEF SecondBuffer, Same
<1>7. /\ toAdd' \in Seq(Servers) /\ toRemove' \in Seq(Servers)
      /\ ToSet(toAdd') = seen[t] \ ToSet(copy[b]) /\ IsInjective(toAdd')
      /\ ToSet(toRemove') = ToSet(copy[b]) \ seen[t] /\ IsInjective(toRemove')
      /\ ToSet(copy'[b]) = seen[t] /\ IsInjective(copy'[b])
      /\ copy'[1 - b] = copy[1 - b]
      /\ changed' => toAdd' # << >> \/ toRemove' # << >>
      /\ balancing' = [balancing EXCEPT ![t] = Operating(toAdd', toRemove')]
  BY <1>6, FirstBufferIs
<1>8. /\ balancing'[t] = Operating(toAdd', toRemove')
      /\ \A u \in Threads \ {t} : balancing'[u] = balancing[u]
  BY <1>7 DEF TypeInv
<1>9. PICK old : old = ToSet(copy[index])
  OBVIOUS
<1>10. ToSet(copy[b]) = old /\ balancer = old
  BY <1>1, <1>5, <1>9 DEF Same, Fore, Back
<1>11. /\ Fore' = copy[index] /\ Back' = copy'[b]
  BY <1>1, <1>2, <1>3, <1>7 DEF Fore, Back
<1>12. seen[t] \in SUBSET Servers /\ old \in SUBSET Servers
  BY <1>9, <1>2, Elements DEF TypeInv, TypeOK
<1>13. Adds(t)' = seen[t] \ old /\ Removes(t)' = old \ seen[t]
  <2>1. /\ Adds(t)' = {s \in Servers : s \in ToSet(toAdd')}
        /\ Removes(t)' = {s \in Servers : s \in ToSet(toRemove')}
    BY <1>7, <1>8, OperatingIs DEF Adds, Removes
  <2> QED
    BY <2>1, <1>7, <1>10, <1>12
<1>14. Difference(t, Fore)'
  BY <1>3, <1>7, <1>9, <1>10, <1>11 DEF Difference
<1>15. /\ balancer' \subseteq seen'[t] \cup Removes(t)'
       /\ seen'[t] \subseteq balancer' \cup Adds(t)'
       /\ Adds(t)' \subseteq seen'[t] /\ Removes(t)' \cap seen'[t] = {}
  BY <1>3, <1>10, <1>13
<1>16. ToSet(Back') = seen'[t]
  BY <1>3, <1>7, <1>11
<1>17. Balancing(t)'
  BY <1>14, <1>15, <1>16 DEF Balancing
<1>18. Modifying(t)'
  BY <1>3, <1>4, <1>17 DEF Modifying, Begun, Published, Ended
<1>19. \A u \in Threads \ {t} : Modifying(u)'
  BY <1>4, <1>5, OtherThreads
<1>20. Owner'
  <2> SUFFICES ASSUME NEW u \in Threads
               PROVE  /\ pc'[u] \in {"reset", "balance"} <=> modifying' = u
                      /\ phase'[u] = 1 => modifying' = u
                      /\ balancing'[u] # << >> =>
                            pc'[u] = "balance" /\ phase'[u] = 0
    BY DEF Owner
  <2>1. CASE u = t
    BY <2>1, <1>3, <1>4, <1>5
  <2>2. CASE u # t
    BY <2>2, <1>3, <1>4, <1>5, <1>8 DEF Owner
  <2> QED
    BY <2>1, <2>2
<1>21. Copies'
  BY <1>1, <1>2, <1>5, <1>7 DEF Copies
<1>22. Between'
  BY <1>3, <1>5, NamesAssumption DEF Between
<1> QED
  BY <1>18, <1>19, <1>20, <1>21, <1>22 DEF ModifyInv

(* The second copy has been changed, if it had to be: the call that finds the
   lists empty computes them again, and finds nothing. *)
LEMMA SecondResetInv ==
  ASSUME TypeInv, TypeInv', ModifyInv, NEW t \in Threads, ResetFn(t),
         phase[t] = 1
  PROVE  ModifyInv'
<1>1. PICK b \in {0, 1} : b = 1 - index
  BY DEF TypeInv, TypeOK
<1>2. index = 1 - b /\ index \in {0, 1} /\ b # index
  BY <1>1 DEF TypeInv, TypeOK
<1>3. /\ pc[t] = "reset" /\ pc' = [pc EXCEPT ![t] = "balance"]
      /\ UNCHANGED <<index, balancer, modifying, seen, phase>>
      /\ FirstBuffer(t, b) \/ SecondBuffer(t, b)
  BY <1>1 DEF ResetFn, Stage, Goto
<1>4. pc'[t] = "balance" /\ \A u \in Threads \ {t} : pc'[u] = pc[u]
  BY <1>3 DEF TypeInv, TypeOK
<1>5. /\ modifying = t /\ balancing[t] = << >> /\ Owner /\ Copies
      /\ ToSet(Fore) = seen[t] /\ Difference(t, Back) /\ balancer = seen[t]
  BY <1>3 DEF ModifyInv, Modifying, Published, Owner
<1>6. Back = copy[b] /\ Fore = copy[1 - b]
  BY <1>1, <1>2 DEF Fore, Back
<1>7. toAdd \in Seq(Servers) /\ toRemove \in Seq(Servers)
  BY DEF TypeInv, TypeOK
<1>8. IsInjective(copy[b]) /\ IsInjective(copy[1 - b])
  BY <1>5 DEF Copies
<1>9. /\ ToSet(copy'[b]) = seen[t] /\ IsInjective(copy'[b])
      /\ copy'[1 - b] = copy[1 - b]
      /\ toAdd' = << >> /\ toRemove' = << >> /\ ~changed'
      /\ balancing'[t] = << >>
      /\ \A u \in Threads \ {t} : balancing'[u] = balancing[u]
  <2>1. CASE FirstBuffer(t, b)
    <3>1. ~Pending
      BY <2>1, FirstBufferIs
    <3>2. ToSet(copy[b]) = seen[t]
      <4>1. ToSet(toAdd) = {} /\ ToSet(toRemove) = {}
        BY <3>1, <1>7, EmptyList DEF Pending
      <4> QED
        BY <4>1, <1>5, <1>6 DEF Difference
    <3>3. toAdd' \in Seq(Servers) /\ toRemove' \in Seq(Servers)
      BY <2>1, FirstBufferIs
    <3>4. ToSet(toAdd') = {} /\ ToSet(toRemove') = {}
      BY <2>1, <3>2, FirstBufferIs
    <3>5. toAdd' = << >> /\ toRemove' = << >> /\ ~changed'
      BY <2>1, <3>3, <3>4, EmptyList, FirstBufferIs
    <3>6. balancing' = [balancing EXCEPT ![t] = Operating(toAdd', toRemove')]
      BY <2>1, FirstBufferIs
    <3>7. Operating(toAdd', toRemove') = << >>
      <4>1. toAdd' = << >> /\ toRemove' = << >>
        BY <3>5
      <4>2. Operating(<< >>, << >>) = << >>
        BY DEF Operating
      <4> QED
        BY <4>1, <4>2
    <3>8. /\ balancing'[t] = << >>
          /\ \A u \in Threads \ {t} : balancing'[u] = balancing[u]
      BY <3>6, <3>7 DEF TypeInv
    <3> QED
      BY <2>1, <3>5, <3>8, FirstBufferIs
  <2>2. CASE SecondBuffer(t, b)
    <3>1. /\ IsInjective(toAdd) /\ ToSet(toAdd) = seen[t] \ ToSet(copy[b])
          /\ ToSet(toRemove) = ToSet(copy[b]) \ seen[t]
      BY <1>5, <1>6 DEF Difference
    <3>2. ToSet(copy[b]) \cap ToSet(toAdd) = {}
      BY <3>1
    <3>3. /\ ToSet(copy'[b])
                = (ToSet(copy[b]) \cup ToSet(toAdd)) \ ToSet(toRemove)
          /\ IsInjective(copy'[b])
      BY <1>8, <2>2, <3>1, <3>2, SecondBufferIs
    <3>4. ToSet(copy'[b]) = seen[t]
      BY <3>1, <3>3
    <3> QED
      BY <1>5, <2>2, <3>3, <3>4, SecondBufferIs
  <2> QED
    BY <1>3, <2>1, <2>2
<1>10. Fore' = copy[1 - b] /\ Back' = copy'[b]
  BY <1>1, <1>2, <1>3, <1>9 DEF Fore, Back
<1>11. Same'
  BY <1>3, <1>5, <1>6, <1>9, <1>10 DEF Same, Pending
<1>12. Modifying(t)'
  BY <1>3, <1>4, <1>11 DEF Modifying, Begun, Balancing, Published, Ended
<1>13. \A u \in Threads \ {t} : Modifying(u)'
  BY <1>4, <1>5, OtherThreads
<1>14. Owner'
  <2> SUFFICES ASSUME NEW u \in Threads
               PROVE  /\ pc'[u] \in {"reset", "balance"} <=> modifying' = u
                      /\ phase'[u] = 1 => modifying' = u
                      /\ balancing'[u] # << >> =>
                            pc'[u] = "balance" /\ phase'[u] = 0
    BY DEF Owner
  <2>1. CASE u = t
    BY <2>1, <1>3, <1>4, <1>5, <1>9
  <2>2. CASE u # t
    BY <2>2, <1>3, <1>4, <1>5, <1>9 DEF Owner
  <2> QED
    BY <2>1, <2>2
<1>15. Copies'
  BY <1>1, <1>8, <1>9 DEF Copies
<1>16. Between'
  BY <1>3, <1>5, NamesAssumption DEF Between
<1> QED
  BY <1>12, <1>13, <1>14, <1>15, <1>16 DEF ModifyInv

(* What one call of the balancer does: an addition is of a server of the new
   list, a removal of one that is not in it. *)
LEMMA BalanceNextIs ==
  ASSUME TypeInv, ModifyInv, NEW t \in Threads, BalanceNext(t)
  PROVE  /\ pc[t] = "balance" /\ phase[t] = 0 /\ modifying = t
         /\ \E s \in Servers :
             \/ /\ s \in Adds(t) /\ balancer' = balancer \cup {s}
                /\ Removes(t)' = Removes(t) /\ Adds(t)' \subseteq Adds(t)
                /\ Adds(t) \subseteq Adds(t)' \cup {s}
             \/ /\ s \in Removes(t) /\ balancer' = balancer \ {s}
                /\ Adds(t)' = Adds(t) /\ Removes(t)' \subseteq Removes(t)
                /\ Removes(t) \subseteq Removes(t)' \cup {s}
<1>1. /\ pc[t] = "balance" /\ balancing[t] # << >>
      /\ balancing' = [balancing EXCEPT ![t] = Tail(@)]
  BY DEF BalanceNext, Stage
<1>2. phase[t] = 0 /\ modifying = t
  BY <1>1 DEF ModifyInv, Owner
<1>3. PICK ops \in Seq(Operations) : ops = balancing[t]
  BY DEF TypeInv
<1>4. PICK op \in Operations : op = Head(ops)
  BY <1>1, <1>3, HeadTailProperties
<1>5. PICK tail \in Seq(Operations) : tail = Tail(ops)
  BY <1>1, <1>3, HeadTailProperties
<1>6. balancing'[t] = tail
  BY <1>1, <1>3, <1>5 DEF TypeInv
<1>7. \A x : x \in ToSet(ops) <=> x = op \/ x \in ToSet(tail)
  <2>1. PICK n \in Nat : n = Len(ops) /\ n >= 1
    BY <1>1, <1>3, EmptySeq
  <2>2. /\ Len(tail) = n - 1 /\ ops[1] = op
        /\ \A i \in 1 .. n - 1 : tail[i] = ops[i + 1]
    BY <1>1, <1>3, <1>4, <1>5, <2>1, HeadTailProperties
  <2>3. \A x : x \in ToSet(ops) <=> \E i \in 1 .. n : ops[i] = x
    BY <2>1, Elements
  <2>4. \A x : x \in ToSet(tail) <=> \E i \in 1 .. n - 1 : tail[i] = x
    BY <2>2, Elements
  <2>5. ASSUME NEW i \in 1 .. n
        PROVE  i = 1 \/ (i - 1 \in 1 .. n - 1 /\ tail[i - 1] = ops[i])
    BY <2>2
  <2>6. ASSUME NEW i \in 1 .. n - 1
        PROVE  i + 1 \in 1 .. n /\ ops[i + 1] = tail[i]
    BY <2>2
  <2>7. ASSUME NEW x \in ToSet(ops) PROVE x = op \/ x \in ToSet(tail)
    BY <2>2, <2>3, <2>4, <2>5
  <2>8. ASSUME NEW x \in ToSet(tail) PROVE x \in ToSet(ops)
    BY <2>3, <2>4, <2>6
  <2>9. op \in ToSet(ops)
    <3>1. 1 \in 1 .. n
      BY <2>1
    <3> QED
      BY <2>2, <2>3, <3>1
  <2> QED
    BY <2>7, <2>8, <2>9
<1>8. PICK s \in Servers : op = <<"add", s>> \/ op = <<"remove", s>>
  BY <1>4 DEF Operations
<1>9. balancer' = IF op[1] = "add" THEN balancer \cup {op[2]}
                  ELSE balancer \ {op[2]}
  BY <1>3, <1>4 DEF BalanceNext
<1>10. /\ Adds(t) = {x \in Servers : <<"add", x>> \in ToSet(ops)}
       /\ Removes(t) = {x \in Servers : <<"remove", x>> \in ToSet(ops)}
       /\ Adds(t)' = {x \in Servers : <<"add", x>> \in ToSet(tail)}
       /\ Removes(t)' = {x \in Servers : <<"remove", x>> \in ToSet(tail)}
  BY <1>3, <1>6 DEF Adds, Removes
<1>11. CASE op = <<"add", s>>
  <2>1. balancer' = balancer \cup {s}
    BY <1>9, <1>11
  <2>2. \A x : <<"remove", x>> # op
    BY <1>11
  <2>3. \A x : <<"add", x>> = op => x = s
    BY <1>11
  <2> QED
    BY <1>1, <1>2, <1>7, <1>10, <1>11, <2>1, <2>2, <2>3
<1>12. CASE op = <<"remove", s>>
  <2>1. balancer' = balancer \ {s}
    BY <1>9, <1>12
  <2>2. \A x : <<"add", x>> # op
    BY <1>12
  <2>3. \A x : <<"remove", x>> = op => x = s
    BY <1>12
  <2> QED
    BY <1>1, <1>2, <1>7, <1>10, <1>12, <2>1, <2>2, <2>3
<1> QED
  BY <1>8, <1>11, <1>12

LEMMA BalanceNextInv ==
  ASSUME TypeInv, ModifyInv, NEW t \in Threads, BalanceNext(t)
  PROVE  ModifyInv'
<1>1. /\ pc[t] = "balance" /\ phase[t] = 0 /\ modifying = t
      /\ UNCHANGED <<copy, index, toAdd, toRemove, changed, modifying, pc, seen,
                     phase>>
  BY BalanceNextIs DEF BalanceNext
<1>2. \A u \in Threads \ {t} : balancing'[u] = balancing[u]
  BY ModifiesStep DEF Modifies
<1>3. /\ ToSet(Back) = seen[t] /\ Difference(t, Fore)
      /\ balancer \subseteq seen[t] \cup Removes(t)
      /\ seen[t] \subseteq balancer \cup Adds(t)
      /\ Adds(t) \subseteq seen[t] /\ Removes(t) \cap seen[t] = {}
  BY <1>1 DEF ModifyInv, Modifying, Balancing
<1>4. /\ balancer' \subseteq seen[t] \cup Removes(t)'
      /\ seen[t] \subseteq balancer' \cup Adds(t)'
      /\ Adds(t)' \subseteq seen[t] /\ Removes(t)' \cap seen[t] = {}
  BY <1>3, BalanceNextIs
<1>5. ToSet(Back') = seen'[t] /\ Difference(t, Fore)' /\ seen'[t] = seen[t]
  BY <1>1, <1>3 DEF Fore, Back, Difference
<1>6. Balancing(t)'
  BY <1>4, <1>5 DEF Balancing
<1>7. Modifying(t)'
  BY <1>1, <1>6 DEF Modifying, Begun, Published, Ended
<1>8. \A u \in Threads \ {t} : Modifying(u)'
  BY <1>1, OtherThreads DEF ModifyInv
<1>9. Owner'
  <2> SUFFICES ASSUME NEW u \in Threads
               PROVE  /\ pc'[u] \in {"reset", "balance"} <=> modifying' = u
                      /\ phase'[u] = 1 => modifying' = u
                      /\ balancing'[u] # << >> =>
                            pc'[u] = "balance" /\ phase'[u] = 0
    BY DEF Owner
  <2>1. CASE u = t
    BY <2>1, <1>1
  <2>2. CASE u # t
    BY <2>2, <1>1, <1>2 DEF ModifyInv, Owner
  <2> QED
    BY <2>1, <2>2
<1>10. Copies' /\ Between'
  BY <1>1, NamesAssumption DEF ModifyInv, Copies, Between
<1> QED
  BY <1>7, <1>8, <1>9, <1>10 DEF ModifyInv

(* Nothing is left to tell the balancer: it has the new list. *)
LEMMA PublishInv ==
  ASSUME TypeInv, ModifyInv, NEW t \in Threads, Publish(t)
  PROVE  /\ ModifyInv' /\ index' \in {0, 1}
         /\ ToSet(Fore)' = seen[t] /\ current' = (latest = t)
<1>1. /\ pc[t] = "balance" /\ phase[t] = 0 /\ balancing[t] = << >>
      /\ pc' = [pc EXCEPT ![t] = "reset"] /\ phase' = [phase EXCEPT ![t] = 1]
      /\ index' = 1 - index /\ current' = (latest = t)
      /\ UNCHANGED <<copy, toAdd, toRemove, changed, balancer, modifying, seen,
                     balancing>>
  BY DEF Publish, Stage, Goto
<1>2. /\ pc'[t] = "reset" /\ phase'[t] = 1
      /\ \A u \in Threads \ {t} : pc'[u] = pc[u] /\ phase'[u] = phase[u]
  BY <1>1 DEF TypeInv, TypeOK
<1>3. /\ ToSet(Back) = seen[t] /\ Difference(t, Fore)
      /\ balancer \subseteq seen[t] \cup Removes(t)
      /\ seen[t] \subseteq balancer \cup Adds(t)
      /\ modifying = t
  BY <1>1 DEF ModifyInv, Modifying, Balancing, Owner
<1>4. Adds(t) = {} /\ Removes(t) = {}
  <2>1. ToSet(<< >>) = {}
    BY DEF ToSet
  <2> QED
    BY <1>1, <2>1 DEF Adds, Removes
<1>5. balancer = seen[t]
  BY <1>3, <1>4
<1>6. index \in {0, 1} /\ index' \in {0, 1} /\ 1 - index' = index
  BY <1>1 DEF TypeInv, TypeOK
<1>7. Fore' = Back /\ Back' = Fore
  BY <1>1, <1>6 DEF Fore, Back
<1>8. ToSet(Fore') = seen'[t] /\ Difference(t, Back)' /\ balancer' = seen'[t]
  BY <1>1, <1>3, <1>5, <1>7 DEF Difference
<1>9. Modifying(t)'
  BY <1>2, <1>8 DEF Modifying, Begun, Balancing, Published, Ended
<1>10. \A u \in Threads \ {t} : Modifying(u)'
  BY <1>2, <1>3, OtherThreads DEF ModifyInv
<1>11. Owner'
  <2> SUFFICES ASSUME NEW u \in Threads
               PROVE  /\ pc'[u] \in {"reset", "balance"} <=> modifying' = u
                      /\ phase'[u] = 1 => modifying' = u
                      /\ balancing'[u] # << >> =>
                            pc'[u] = "balance" /\ phase'[u] = 0
    BY DEF Owner
  <2>1. CASE u = t
    BY <2>1, <1>1, <1>2, <1>3
  <2>2. CASE u # t
    BY <2>2, <1>1, <1>2 DEF ModifyInv, Owner
  <2> QED
    BY <2>1, <2>2
<1>12. Copies' /\ Between'
  BY <1>1, <1>3, NamesAssumption DEF ModifyInv, Copies, Between
<1> QED
  BY <1>1, <1>6, <1>8, <1>9, <1>10, <1>11, <1>12 DEF ModifyInv

LEMMA EndModifyInv ==
  ASSUME TypeInv, ModifyInv, NEW t \in Threads, EndModify(t)
  PROVE  ModifyInv'
<1>1. /\ pc[t] = "balance" /\ phase[t] = 1 /\ balancing[t] = << >>
      /\ pc' = [pc EXCEPT ![t] = "idle"] /\ phase' = [phase EXCEPT ![t] = 0]
      /\ modifying' = None
      /\ UNCHANGED <<copy, index, toAdd, toRemove, changed, balancer, balancing>>
  BY DEF EndModify, Stage, Goto
<1>2. /\ pc'[t] = "idle" /\ phase'[t] = 0
      /\ \A u \in Threads \ {t} : pc'[u] = pc[u] /\ phase'[u] = phase[u]
  BY <1>1 DEF TypeInv, TypeOK
<1>3. Same /\ modifying = t
  BY <1>1 DEF ModifyInv, Modifying, Ended, Owner
<1>4. Same' /\ Copies'
  BY <1>1, <1>3 DEF ModifyInv, Same, Copies, Fore, Back, Pending
<1>5. Modifying(t)'
  BY <1>2 DEF Modifying, Begun, Balancing, Published, Ended
<1>6. \A u \in Threads \ {t} : Modifying(u)'
  BY <1>2, <1>3, OtherThreads DEF ModifyInv
<1>7. Owner'
  BY <1>1, <1>2, <1>3, NamesAssumption DEF ModifyInv, Owner
<1> QED
  BY <1>4, <1>5, <1>6, <1>7 DEF ModifyInv, Between

LEMMA NextModify ==
  ASSUME TypeInv, ModifyInv, [Next]_vars
  PROVE  ModifyInv'
<1>1. CASE Outside
  BY <1>1, OutsideStep, OutsideModify
<1>2. ASSUME NEW t \in Threads, Listing(t) PROVE ModifyInv'
  BY <1>2, ListingModify
<1>3. ASSUME NEW t \in Threads, Modifies(t) PROVE ModifyInv'
  <2>1. CASE ResetFn(t)
    <3>1. TypeInv'
      BY <1>3, ModifiesTypes
    <3>2. phase[t] = 0 \/ phase[t] = 1
      BY DEF TypeInv, TypeOK
    <3> QED
      BY <2>1, <3>1, <3>2, FirstResetInv, SecondResetInv
  <2> QED
    BY <1>3, <2>1, BeginModifyInv, BalanceNextInv, PublishInv, EndModifyInv
    DEF Modifies
<1>4. CASE UNCHANGED vars
  BY <1>4, OutsideModify DEF vars
<1> QED
  BY <1>1, <1>2, <1>3, <1>4, Kinds

LEMMA SpecModify == Spec => [](TypeInv /\ ModifyInv)
<1>1. Init => TypeInv /\ ModifyInv
  BY InitTypes, InitModify
<1>2. TypeInv /\ ModifyInv /\ [Next]_vars => (TypeInv /\ ModifyInv)'
  BY NextTypes, NextModify
<1> QED
  BY <1>1, <1>2, PTL DEF Spec

(* Between modifications both copies of the list hold the same servers, each
   of them once, nothing is left in the lists by which ResetFn tells its second
   call from its first, and the load balancer has the servers of the list. *)
THEOREM CopiesAgree == Spec => []BalancerFollowsList
<1>1. TypeInv /\ ModifyInv => BalancerFollowsList
  <2> SUFFICES ASSUME TypeInv, ModifyInv, modifying = None
               PROVE  BalancerFollowsList
    BY DEF BalancerFollowsList, ListsAgree, BalancerFollows
  <2>1. Same /\ Copies
    BY DEF ModifyInv, Between
  <2>2. index \in {0, 1}
    BY DEF TypeInv, TypeOK
  <2>3. ToSet(copy[0]) = ToSet(copy[1])
    <3>1. CASE index = 0
      BY <2>1, <3>1 DEF Same, Fore, Back
    <3>2. CASE index = 1
      BY <2>1, <3>2 DEF Same, Fore, Back
    <3> QED
      BY <2>2, <3>1, <3>2
  <2> QED
    BY <2>1, <2>3 DEF BalancerFollowsList, ListsAgree, BalancerFollows, Same,
                      Copies, Fore
<1> QED
  BY SpecModify, <1>1, PTL

(* A server leaves the load balancer only while a list is being installed that
   does not have it: one that stays is offered throughout. *)
StaysWhile ==
    \A s \in balancer :
        s \notin balancer' => \E t \in Threads : modifying = t /\ s \notin seen[t]

THEOREM NobodyIsDropped == Spec => StaysOffered
<1>1. TypeInv /\ ModifyInv /\ [Next]_vars => [StaysWhile]_vars
  <2> SUFFICES ASSUME TypeInv, ModifyInv, [Next]_vars,
                      NEW s \in balancer, s \notin balancer'
               PROVE  \E t \in Threads : modifying = t /\ s \notin seen[t]
    BY DEF StaysWhile
  <2>1. ~Outside /\ ~(UNCHANGED vars)
    BY OutsideStep DEF vars
  <2>2. ASSUME NEW t \in Threads, Listing(t) PROVE FALSE
    BY <2>2, ListingStep DEF Modified
  <2>3. PICK t \in Threads : Modifies(t)
    BY <2>1, <2>2, Kinds
  <2>4. BalanceNext(t)
    BY <2>3 DEF Modifies, BeginModify, ResetFn, Publish, EndModify
  <2>5. /\ pc[t] = "balance" /\ phase[t] = 0 /\ modifying = t
        /\ s \in Removes(t)
    BY <2>4, BalanceNextIs
  <2>6. s \notin seen[t]
    BY <2>5 DEF ModifyInv, Modifying, Balancing
  <2> QED
    BY <2>5, <2>6
<1>2. Spec => [][StaysWhile]_vars
  BY SpecModify, <1>1, PTL DEF Spec
<1> QED
  BY <1>2 DEF StaysOffered, StaysWhile

-----------------------------------------------------------------------------
(* What the client knows of ZooKeeper: as long as its watch stands, the list
   that was read last is right, and so is the foreground copy if it is that
   list; if the watch is gone, somebody is about to list again. *)
Told ==
    managed /\ ~dead =>
        watched \/ events > 0 \/ \E t \in Threads : pc[t] = "list"

SeenIsCurrent ==
    watched /\ latest # None /\ pc[latest] \in {"get", "reset", "balance"}
        => seen[latest] = Children

ForeIsCurrent == watched /\ current => ToSet(Fore) = Children

ListInv == Told /\ SeenIsCurrent /\ ForeIsCurrent

LEMMA InitList == Init => ListInv
  BY DEF Init, ListInv, Told, SeenIsCurrent, ForeIsCurrent

(* A change of the children takes the watch away and leaves an event. *)
LEMMA OutsideList ==
  ASSUME TypeInv, ListInv, Outside
  PROVE  ListInv'
<1>1. UNCHANGED clientVars
  BY OutsideStep
<1>2. CASE UNCHANGED <<node, watched, events>>
  BY <1>1, <1>2 DEF ListInv, Told, SeenIsCurrent, ForeIsCurrent, Fore, Children
<1>3. CASE watched /\ ~watched' /\ events' = events + 1
  <2>1. events' > 0
    BY <1>3 DEF TypeInv, TypeOK
  <2> QED
    BY <1>3, <2>1 DEF ListInv, Told, SeenIsCurrent, ForeIsCurrent
<1>4. CASE ~watched /\ ~watched' /\ UNCHANGED events
  <2>1. Told'
    BY <1>1, <1>4 DEF ListInv, Told
  <2> QED
    BY <1>4, <2>1 DEF ListInv, SeenIsCurrent, ForeIsCurrent
<1> QED
  BY <1>2, <1>3, <1>4, OutsideStep

LEMMA ListingList ==
  ASSUME TypeInv, ListInv, NEW t \in Threads, Listing(t)
  PROVE  ListInv'
<1>1. CASE ManageLoadBalancer(t) \/ (t = Watcher /\ child_watch_cb)
  <2>1. /\ UNCHANGED <<node, watched, copy, index, seen, latest, current, dead>>
        /\ pc[t] = "idle" /\ pc' = [pc EXCEPT ![t] = "list"]
    BY <1>1 DEF ManageLoadBalancer, child_watch_cb, Stage, Goto
  <2>2. pc'[t] = "list" /\ \A u \in Threads \ {t} : pc'[u] = pc[u]
    BY <2>1 DEF TypeInv, TypeOK
  <2>3. Told'
    BY <2>2 DEF Told
  <2>4. ForeIsCurrent'
    BY <2>1 DEF ListInv, ForeIsCurrent, Fore, Children
  <2>5. SeenIsCurrent'
    <3>1. latest = None \/ latest \in Threads
      BY DEF TypeInv, TypeOK
    <3>2. CASE latest = t
      BY <2>1, <2>2, <3>2 DEF SeenIsCurrent
    <3>3. CASE latest \in Threads \ {t}
      BY <2>1, <2>2, <3>3 DEF ListInv, SeenIsCurrent, Children
    <3>4. CASE latest = None
      BY <2>1, <3>4 DEF SeenIsCurrent
    <3> QED
      BY <3>1, <3>2, <3>3, <3>4
  <2> QED
    BY <2>3, <2>4, <2>5 DEF ListInv
<1>2. CASE ListChildren(t)
  <2>1. /\ seen' = [seen EXCEPT ![t] = Children]
        /\ watched' = TRUE /\ latest' = t /\ current' = FALSE
        /\ UNCHANGED node
    BY <1>2 DEF ListChildren
  <2>2. seen'[t] = Children'
    BY <2>1 DEF TypeInv, TypeOK, Children
  <2> QED
    BY <2>1, <2>2 DEF ListInv, Told, SeenIsCurrent, ForeIsCurrent
<1>3. CASE GetData(t)
  <2>1. /\ UNCHANGED <<node, watched, events, managed, copy, index, pc, seen,
                       latest, current>>
        /\ ~dead
    BY <1>3 DEF GetData, Stage
  <2> QED
    BY <2>1 DEF ListInv, Told, SeenIsCurrent, ForeIsCurrent, Fore, Children
<1> QED
  BY <1>1, <1>2, <1>3 DEF Listing

LEMMA ModifiesList ==
  ASSUME TypeInv, ModifyInv, ListInv, NEW t \in Threads, Modifies(t)
  PROVE  ListInv'
<1>1. /\ UNCHANGED <<node, watched, events, managed, dead, latest>>
      /\ \A u \in Threads \ {t} : pc'[u] = pc[u] /\ seen'[u] = seen[u]
  BY ModifiesStep
<1>2. pc[t] \in {"get", "reset", "balance"}
  BY DEF Modifies, BeginModify, ResetFn, BalanceNext, Publish, EndModify, Stage
<1>3. \/ pc'[t] = "idle"
      \/ pc'[t] \in {"reset", "balance"} /\ seen'[t] = seen[t]
  BY DEF Modifies, BeginModify, ResetFn, BalanceNext, Publish, EndModify, Stage,
         Goto, TypeInv, TypeOK
<1>4. Told'
  <2>1. ASSUME NEW u \in Threads, pc[u] = "list" PROVE pc'[u] = "list"
    BY <1>1, <1>2, <2>1
  <2> QED
    BY <1>1, <2>1 DEF ListInv, Told
<1>5. SeenIsCurrent'
  <2>1. latest = None \/ latest \in Threads
    BY DEF TypeInv, TypeOK
  <2>2. CASE latest = t
    BY <1>1, <1>2, <1>3, <2>2 DEF ListInv, SeenIsCurrent, Children
  <2>3. CASE latest \in Threads \ {t}
    BY <1>1, <2>3 DEF ListInv, SeenIsCurrent, Children
  <2>4. CASE latest = None
    BY <1>1, <2>4 DEF SeenIsCurrent
  <2> QED
    BY <2>1, <2>2, <2>3, <2>4
<1>6. ForeIsCurrent'
  <2>1. CASE Publish(t)
    <3>1. pc[t] = "balance" /\ ToSet(Fore)' = seen[t] /\ current' = (latest = t)
      BY <2>1, PublishInv DEF Publish, Stage
    <3>2. ASSUME watched', current'
          PROVE  ToSet(Fore)' = Children'
      <4>1. latest = t /\ latest # None
        BY <3>1, <3>2, NamesAssumption
      <4>2. seen[t] = Children
        BY <1>1, <3>1, <3>2, <4>1 DEF ListInv, SeenIsCurrent
      <4> QED
        BY <1>1, <3>1, <4>2 DEF Children
    <3> QED
      BY <3>2 DEF ForeIsCurrent
  <2>2. CASE ResetFn(t)
    <3>1. PICK b \in {0, 1} : b = 1 - index
      BY DEF TypeInv, TypeOK
    <3>2. index = 1 - b
      BY <3>1 DEF TypeInv, TypeOK
    <3>3. FirstBuffer(t, b) \/ SecondBuffer(t, b)
      BY <2>2, <3>1 DEF ResetFn
    <3>4. copy'[1 - b] = copy[1 - b]
      BY <3>3, FirstBufferIs, SecondBufferIs
    <3>5. UNCHANGED <<index, current>>
      BY <2>2 DEF ResetFn
    <3> QED
      BY <1>1, <3>2, <3>4, <3>5 DEF ListInv, ForeIsCurrent, Fore, Children
  <2>3. CASE BeginModify(t) \/ BalanceNext(t) \/ EndModify(t)
    <3>1. UNCHANGED <<copy, index, current>>
      BY <2>3 DEF BeginModify, BalanceNext, EndModify
    <3> QED
      BY <1>1, <3>1 DEF ListInv, ForeIsCurrent, Fore, Children
  <2> QED
    BY <2>1, <2>2, <2>3 DEF Modifies
<1> QED
  BY <1>4, <1>5, <1>6 DEF ListInv

(* When the client has nothing left to do, its watch stands, and its list is
   ZooKeeper's unless an older one has overtaken it. *)
THEOREM QuietListIsCurrent == Spec => []QuietIsCurrent
<1>1. Init => TypeInv /\ ModifyInv /\ ListInv
  BY InitTypes, InitModify, InitList
<1>2. TypeInv /\ ModifyInv /\ ListInv /\ [Next]_vars
        => (TypeInv /\ ModifyInv /\ ListInv)'
  <2> SUFFICES ASSUME TypeInv, ModifyInv, ListInv, [Next]_vars
               PROVE  ListInv'
    BY NextTypes, NextModify
  <2>1. CASE UNCHANGED vars
    BY <2>1 DEF vars, ListInv, Told, SeenIsCurrent, ForeIsCurrent, Fore,
                Children
  <2> QED
    BY <2>1, OutsideList, ListingList, ModifiesList, Kinds
<1>3. TypeInv /\ ListInv => QuietIsCurrent
  <2> SUFFICES ASSUME TypeInv, ListInv, Quiet
               PROVE  watched /\ (current => ToSet(copy[index]) = Children)
    BY DEF QuietIsCurrent
  <2>1. watched
    BY DEF Quiet, ListInv, Told
  <2> QED
    BY <2>1 DEF ListInv, ForeIsCurrent, Fore
<1> QED
  BY <1>1, <1>2, <1>3, PTL DEF Spec

=============================================================================

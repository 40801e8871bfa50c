------------------------ MODULE InstanceSystemProof ------------------------
(***************************************************************************)
(* Proofs about InstanceSystem, for every hierarchy of objects, every room *)
(* and every number of instances, activations and calls: the inductive     *)
(* invariant of the lists, the walks that stand on them and the calls in   *)
(* progress, and what it says of the instances.                            *)
(*                                                                         *)
(* The list parts are stated for any doubly linked list L whose nodes M    *)
(* are in the order of a key K: the age of a node in the event list and    *)
(* the object lists, the id of its instance in instance_list.              *)
(***************************************************************************)
EXTENDS InstanceSystem, TLAPS, FiniteSetTheorems, WellFoundedInduction

-----------------------------------------------------------------------------
(* A doubly linked list in the order of K, which holds the nodes of M.     *)

ListType == [next : [0..MaxAct -> Act \cup {NULL}],
             prev : [0..MaxAct -> Act \cup {Root, NULL}]]

\* The nodes of M have different keys, which are greater than the root's.
Ordered(K, M) ==
  /\ M \subseteq Act /\ K \in [0..MaxAct -> Int]
  /\ \A x \in M : K[Root] < K[x]
  /\ \A x, y \in M : K[x] = K[y] => x = y

\* Walking L from either end meets the nodes of M, and no other.
LinkedBy(L, M, K) ==
  /\ \A x \in M \cup {Root} :
       IF L.next[x] = NULL THEN \A y \in M : K[y] <= K[x]
       ELSE /\ L.next[x] \in M /\ K[x] < K[L.next[x]]
            /\ \A y \in M : ~(K[x] < K[y] /\ K[y] < K[L.next[x]])
  /\ \A x \in M : L.prev[x] \in M \cup {Root} /\ L.next[L.prev[x]] = x
  /\ L.prev[Root] \in M \cup {Root} /\ L.next[L.prev[Root]] = NULL

\* A walk that stands on x, a node of the list or not, comes to y.
Reaches(L, K, x, y) == y = x \/ (L.next[x] # NULL /\ K[L.next[x]] <= K[y])

\* Two orders that agree on the nodes are as good as each other.
LEMMA SameOrder ==
  ASSUME NEW L, NEW M, NEW K, NEW J, \A x \in M \cup {Root} : K[x] = J[x], LinkedBy(L, M, K)
  PROVE  LinkedBy(L, M, J)
<1>1. \A x \in M \cup {Root} :
        IF L.next[x] = NULL THEN \A y \in M : J[y] <= J[x]
        ELSE /\ L.next[x] \in M /\ J[x] < J[L.next[x]]
             /\ \A y \in M : ~(J[x] < J[y] /\ J[y] < J[L.next[x]])
  <2> SUFFICES ASSUME NEW x \in M \cup {Root}
               PROVE  IF L.next[x] = NULL THEN \A y \in M : J[y] <= J[x]
                      ELSE /\ L.next[x] \in M /\ J[x] < J[L.next[x]]
                           /\ \A y \in M : ~(J[x] < J[y] /\ J[y] < J[L.next[x]])
    OBVIOUS
  <2>1. CASE L.next[x] = NULL
    BY <2>1 DEF LinkedBy
  <2>2. CASE L.next[x] # NULL
    <3>1. L.next[x] \in M /\ K[x] < K[L.next[x]]
          /\ \A y \in M : ~(K[x] < K[y] /\ K[y] < K[L.next[x]])
      BY <2>2 DEF LinkedBy
    <3>2. K[x] = J[x] /\ K[L.next[x]] = J[L.next[x]] /\ \A y \in M : K[y] = J[y]
      BY <3>1
    <3> QED BY <2>2, <3>1, <3>2
  <2> QED BY <2>1, <2>2
<1> QED BY <1>1 DEF LinkedBy

\* The keys of nodes are numbers.
LEMMA KeyInt ==
  ASSUME NEW K, NEW M, Ordered(K, M), MaxAct \in Nat
  PROVE  \A x \in M \cup {Root} : x \in 0..MaxAct /\ K[x] \in Int
  BY DEF Ordered, Act, Root

\* Two nodes are not followed by the same one.
LEMMA OnePredecessor ==
  ASSUME NEW L, NEW M, NEW K, Ordered(K, M), LinkedBy(L, M, K), MaxAct \in Nat,
         NEW x \in M \cup {Root}, NEW y \in M \cup {Root},
         L.next[x] = L.next[y], L.next[x] # NULL
  PROVE  x = y
<1>1. /\ L.next[x] \in M /\ K[x] < K[L.next[x]] /\ K[y] < K[L.next[x]]
      /\ \A z \in M : ~(K[x] < K[z] /\ K[z] < K[L.next[x]])
      /\ \A z \in M : ~(K[y] < K[z] /\ K[z] < K[L.next[x]])
  BY DEF LinkedBy
<1>2. \A z \in M \cup {Root} : z \in 0..MaxAct /\ K[z] \in Int
  BY KeyInt
<1>3. K[x] = K[y]
  <2>1. y \in M => ~(K[x] < K[y])
    BY <1>1
  <2>2. x \in M => ~(K[y] < K[x])
    BY <1>1
  <2>3. x \in M => K[Root] < K[x]
    BY DEF Ordered
  <2>4. y \in M => K[Root] < K[y]
    BY DEF Ordered
  <2> QED BY <1>2, <2>1, <2>2, <2>3, <2>4
<1>4. x \in M /\ y \in M => x = y
  BY <1>3 DEF Ordered
<1>5. \A z \in M : K[Root] # K[z]
  BY <1>2 DEF Ordered
<1> QED BY <1>3, <1>4, <1>5

\* The list with a after pred.
LinkedAt(L, a, pred, succ) ==
  [next |-> [L.next EXCEPT ![pred] = a, ![a] = succ],
   prev |-> [x \in 0..MaxAct |->
               IF x = a THEN pred
               ELSE IF x = succ \/ (x = Root /\ succ = NULL) THEN a ELSE L.prev[x]]]

\* T is L with a in its place in the order, which is after pred.
Linking(L, M, K, a, pred, T) ==
  /\ MaxAct \in Nat /\ L \in ListType /\ M \subseteq Act /\ a \in Act \ M
  /\ Ordered(K, M \cup {a}) /\ LinkedBy(L, M, K)
  /\ pred \in M \cup {Root} /\ K[pred] < K[a]
  /\ L.next[pred] # NULL => K[a] < K[L.next[pred]]
  /\ T = LinkedAt(L, a, pred, L.next[pred])

LinkDone(L, M, K, a, pred, T) ==
  /\ T \in ListType /\ LinkedBy(T, M \cup {a}, K)
  /\ T.next[pred] = a /\ T.next[a] = L.next[pred]
  /\ \A x \in 0..MaxAct : x # pred /\ x # a => T.next[x] = L.next[x]

\* The list with the new node is linked in the order of its keys.  (add_inst,
\* link_instance)
LEMMA LinkAt ==
  ASSUME NEW L, NEW M, NEW K, NEW a, NEW pred, NEW T, Linking(L, M, K, a, pred, T)
  PROVE  LinkDone(L, M, K, a, pred, T)
<1> SUFFICES ASSUME MaxAct \in Nat, L \in ListType, M \in SUBSET Act, a \in Act \ M,
                    Ordered(K, M \cup {a}), LinkedBy(L, M, K),
                    pred \in M \cup {Root}, K[pred] < K[a],
                    L.next[pred] # NULL => K[a] < K[L.next[pred]],
                    T = LinkedAt(L, a, pred, L.next[pred])
             PROVE  /\ T \in ListType /\ LinkedBy(T, M \cup {a}, K)
                    /\ T.next[pred] = a /\ T.next[a] = L.next[pred]
                    /\ \A x \in 0..MaxAct : x # pred /\ x # a => T.next[x] = L.next[x]
  BY DEF Linking, LinkDone
<1> DEFINE succ == L.next[pred]
<1>0. /\ pred \in 0..MaxAct /\ a \in 0..MaxAct /\ a # pred /\ a # Root /\ a # NULL
      /\ Root \in 0..MaxAct /\ M \subseteq 0..MaxAct
      /\ L.next \in [0..MaxAct -> Act \cup {NULL}]
      /\ L.prev \in [0..MaxAct -> Act \cup {Root, NULL}]
      /\ succ \in Act \cup {NULL}
  BY DEF ListType, Act, Root, NULL
<1>1. /\ T.next = [L.next EXCEPT ![pred] = a, ![a] = succ]
      /\ T.prev = [x \in 0..MaxAct |->
                     IF x = a THEN pred
                     ELSE IF x = succ \/ (x = Root /\ succ = NULL) THEN a ELSE L.prev[x]]
      /\ T = [next |-> T.next, prev |-> T.prev]
  BY DEF LinkedAt
<1>2. T \in ListType
  <2>1. T.next \in [0..MaxAct -> Act \cup {NULL}]
    <3>1. T.next = [L.next EXCEPT ![pred] = a, ![a] = succ]
      BY <1>1
    <3> HIDE DEF succ
    <3> QED BY <1>0, <3>1
  <2>2. T.prev \in [0..MaxAct -> Act \cup {Root, NULL}]
    BY <1>0, <1>1 DEF Act, Root, NULL
  <2> QED BY <1>1, <2>1, <2>2 DEF ListType
<1>3. T.next[pred] = a /\ T.next[a] = succ
      /\ \A x \in 0..MaxAct : x # pred /\ x # a => T.next[x] = L.next[x]
  BY <1>0, <1>1
<1>4. T.prev[a] = pred /\ \A x \in 0..MaxAct : x # a =>
        T.prev[x] = IF x = succ \/ (x = Root /\ succ = NULL) THEN a ELSE L.prev[x]
  BY <1>0, <1>1
<1>5. /\ \A x \in M \cup {a, Root} : K[x] \in Int
      /\ \A x \in M \cup {a} : K[Root] < K[x]
      /\ \A x, y \in M \cup {a} : K[x] = K[y] => x = y
  BY <1>0 DEF Ordered
<1>6. /\ succ # NULL => succ \in M /\ K[pred] < K[succ] /\ K[a] < K[succ]
      /\ succ # NULL => \A y \in M : ~(K[pred] < K[y] /\ K[y] < K[succ])
      /\ succ = NULL => \A y \in M : K[y] <= K[pred]
  BY DEF LinkedBy
<1>7. \A y \in M : y # succ => K[y] <= K[pred] \/ (succ # NULL /\ K[succ] < K[y])
  <2> SUFFICES ASSUME NEW y \in M, y # succ, ~(K[y] <= K[pred])
               PROVE  succ # NULL /\ K[succ] < K[y]
    OBVIOUS
  <2>1. K[y] \in Int /\ K[pred] \in Int /\ K[pred] < K[y]
    BY <1>5
  <2>2. succ # NULL /\ succ \in M /\ ~(K[y] < K[succ])
    BY <1>6, <2>1
  <2>3. K[succ] \in Int /\ K[succ] # K[y]
    BY <1>5, <2>2
  <2> QED BY <2>1, <2>2, <2>3
<1>8. \A x \in M \cup {a} \cup {Root} :
        IF T.next[x] = NULL THEN \A y \in M \cup {a} : K[y] <= K[x]
        ELSE /\ T.next[x] \in M \cup {a} /\ K[x] < K[T.next[x]]
             /\ \A y \in M \cup {a} : ~(K[x] < K[y] /\ K[y] < K[T.next[x]])
  <2> SUFFICES ASSUME NEW x \in M \cup {a} \cup {Root}
               PROVE  IF T.next[x] = NULL THEN \A y \in M \cup {a} : K[y] <= K[x]
                      ELSE /\ T.next[x] \in M \cup {a} /\ K[x] < K[T.next[x]]
                           /\ \A y \in M \cup {a} : ~(K[x] < K[y] /\ K[y] < K[T.next[x]])
    OBVIOUS
  <2>1. CASE x = pred
    <3>1. ASSUME NEW y \in M PROVE ~(K[pred] < K[y] /\ K[y] < K[a])
      <4>1. K[y] \in Int /\ K[pred] \in Int /\ K[a] \in Int
        BY <1>5
      <4>2. K[y] <= K[pred] \/ (succ # NULL /\ (y = succ \/ K[succ] < K[y]))
        BY <1>6, <1>7
      <4>3. succ # NULL => K[succ] \in Int /\ K[a] < K[succ]
        BY <1>5, <1>6
      <4> QED BY <4>1, <4>2, <4>3
    <3> QED BY <1>0, <1>3, <1>5, <2>1, <3>1
  <2>2. CASE x = a
    <3>1. CASE succ = NULL
      BY <1>0, <1>3, <1>5, <1>6, <2>2, <3>1
    <3>2. CASE succ # NULL
      <4>1. \A y \in M : ~(K[a] < K[y] /\ K[y] < K[succ])
        BY <1>0, <1>5, <1>6
      <4> QED BY <1>0, <1>3, <1>5, <1>6, <2>2, <3>2, <4>1
    <3> QED BY <3>1, <3>2
  <2>3. CASE x # pred /\ x # a
    <3>0. x \in M \cup {Root} /\ T.next[x] = L.next[x]
      BY <1>0, <1>3, <2>3
    <3>1. K[x] # K[pred]
      BY <1>0, <1>5, <2>3, <3>0
    <3>2. CASE L.next[x] = NULL
      <4>1. \A y \in M : K[y] <= K[x]
        BY <3>0, <3>2 DEF LinkedBy
      <4>2. pred = Root \/ pred \in M
        OBVIOUS
      <4>3. K[pred] < K[x]
        <5>1. CASE pred \in M
          BY <1>0, <1>5, <3>0, <3>1, <4>1, <5>1
        <5>2. CASE pred = Root
          BY <1>0, <1>5, <2>3, <3>0, <5>2
        <5> QED BY <4>2, <5>1, <5>2
      <4>4. x \in M
        BY <1>5, <3>0, <4>3, <4>1, <1>0
      <4>5. succ # NULL /\ K[a] < K[succ] /\ K[succ] <= K[x]
        <5>1. K[x] \in Int /\ K[pred] \in Int
          BY <1>5, <4>4
        <5>2. succ # NULL
          BY <1>6, <4>3, <4>4, <5>1
        <5> QED BY <1>6, <4>1, <5>2
      <4>6. K[a] <= K[x]
        BY <1>5, <1>6, <4>4, <4>5
      <4> QED BY <3>0, <3>2, <4>1, <4>6
    <3>3. CASE L.next[x] # NULL
      <4>1. /\ L.next[x] \in M /\ K[x] < K[L.next[x]]
            /\ \A y \in M : ~(K[x] < K[y] /\ K[y] < K[L.next[x]])
        BY <3>0, <3>3 DEF LinkedBy
      <4> DEFINE z == L.next[x]
      <4>2. K[z] \in Int /\ K[x] \in Int /\ K[a] \in Int /\ K[pred] \in Int
        BY <1>0, <1>5, <3>0, <4>1
      <4>a. z \in M /\ z # NULL /\ z = L.next[x]
        BY <1>0, <3>3, <4>1
      <4> HIDE DEF z
      <4>3. ~(K[x] < K[a] /\ K[a] < K[z])
        <5> SUFFICES ASSUME K[x] < K[a], K[a] < K[z] PROVE FALSE
          OBVIOUS
        <5>1. K[z] # K[succ] \/ succ = NULL
          <6> SUFFICES ASSUME succ # NULL, K[z] = K[succ] PROVE FALSE
            OBVIOUS
          <6>1. z = succ
            BY <1>5, <1>6, <4>a
          <6>2. Ordered(K, M)
            BY DEF Ordered
          <6>3. L.next[x] = L.next[pred] /\ L.next[x] # NULL
            BY <6>1, <4>a
          <6> QED BY <6>2, <6>3, <3>0, <2>3, OnePredecessor
        <5>2. K[z] <= K[pred] \/ (succ # NULL /\ K[succ] < K[z])
          BY <1>7, <4>a, <5>1
        <5>3. succ # NULL /\ K[succ] < K[z] /\ succ \in M /\ K[succ] \in Int /\ K[a] < K[succ]
          BY <1>5, <1>6, <4>2, <5>2
        <5>4. K[x] < K[succ]
          BY <4>2, <5>3
        <5> QED BY <4>1, <5>3, <5>4 DEF z
      <4> QED BY <3>0, <3>3, <4>1, <4>3 DEF z
    <3> QED BY <3>2, <3>3
  <2> QED BY <2>1, <2>2, <2>3
<1>9. \A x \in M \cup {a} : T.prev[x] \in M \cup {a} \cup {Root} /\ T.next[T.prev[x]] = x
  <2> SUFFICES ASSUME NEW x \in M \cup {a}
               PROVE  T.prev[x] \in M \cup {a} \cup {Root} /\ T.next[T.prev[x]] = x
    OBVIOUS
  <2>1. CASE x = a
    BY <1>3, <1>4, <2>1
  <2>2. CASE x # a /\ x = succ
    BY <1>0, <1>3, <1>4, <2>2
  <2>3. CASE x # a /\ x # succ
    <3>1. x \in M /\ x # Root
      BY <1>0, <2>3 DEF Act, Root
    <3>2. L.prev[x] \in M \cup {Root} /\ L.next[L.prev[x]] = x
      BY <3>1 DEF LinkedBy
    <3>3. T.prev[x] = L.prev[x] /\ L.prev[x] # pred /\ L.prev[x] # a /\ L.prev[x] \in 0..MaxAct
      BY <1>0, <1>4, <2>3, <3>1, <3>2
    <3> QED BY <1>3, <3>2, <3>3
  <2> QED BY <2>1, <2>2, <2>3
<1>10. T.prev[Root] \in M \cup {a} \cup {Root} /\ T.next[T.prev[Root]] = NULL
  <2>1. CASE succ = NULL
    BY <1>0, <1>3, <1>4, <2>1
  <2>2. CASE succ # NULL
    <3>1. T.prev[Root] = L.prev[Root]
      BY <1>0, <1>4, <1>6, <2>2 DEF Act, Root
    <3>2. L.prev[Root] \in M \cup {Root} /\ L.next[L.prev[Root]] = NULL
      BY DEF LinkedBy
    <3>3. L.prev[Root] # pred /\ L.prev[Root] # a /\ L.prev[Root] \in 0..MaxAct
      BY <1>0, <2>2, <3>2
    <3> QED BY <1>3, <3>1, <3>2, <3>3
  <2> QED BY <2>1, <2>2
<1>11. LinkedBy(T, M \cup {a}, K)
  BY <1>8, <1>9, <1>10 DEF LinkedBy
<1> QED BY <1>2, <1>3, <1>11

\* Appending is linking after the last node.
LEMMA AppendedIs ==
  ASSUME MaxAct \in Nat, NEW L \in ListType, NEW a \in Act, L.next[L.prev[Root]] = NULL,
         L.prev[Root] # a
  PROVE  Appended(L, a) = LinkedAt(L, a, L.prev[Root], NULL)
<1>0. Root # a /\ NULL \notin 0..MaxAct /\ Root \in 0..MaxAct /\ a \in 0..MaxAct
      /\ L.prev \in [0..MaxAct -> Act \cup {Root, NULL}]
  BY DEF Act, Root, NULL, ListType
<1> DEFINE p == [L.prev EXCEPT ![a] = L.prev[Root], ![Root] = a]
           q == [x \in 0..MaxAct |->
                   IF x = a THEN L.prev[Root]
                   ELSE IF x = NULL \/ (x = Root /\ NULL = NULL) THEN a ELSE L.prev[x]]
<1>1. p = q
  <2>1. DOMAIN p = 0..MaxAct /\ DOMAIN q = 0..MaxAct
    BY <1>0
  <2>2. \A x \in 0..MaxAct : p[x] = q[x]
    BY <1>0
  <2>3. p = [x \in 0..MaxAct |-> p[x]] /\ q = [x \in 0..MaxAct |-> q[x]]
    BY <1>0, <2>1
  <2> HIDE DEF p, q
  <2> QED BY <2>2, <2>3
<1> QED BY <1>1 DEF Appended, LinkedAt

\* The nodes that follow a node that is at hand, or the end of the list.
LEMMA ReachNext ==
  ASSUME NEW L, NEW M, NEW K, Ordered(K, M), LinkedBy(L, M, K), MaxAct \in Nat,
         NEW x \in M, NEW y \in M, K[x] <= K[y]
  PROVE  Reaches(L, K, x, y)
<1>1. K[x] \in Int /\ K[y] \in Int /\ (K[x] = K[y] => x = y)
  BY DEF Ordered, Act
<1>2. CASE L.next[x] = NULL
  <2>1. K[y] <= K[x]
    BY <1>2 DEF LinkedBy
  <2> QED BY <1>1, <2>1 DEF Reaches
<1>3. CASE L.next[x] # NULL
  <2>1. L.next[x] \in M /\ ~(K[x] < K[y] /\ K[y] < K[L.next[x]])
    BY <1>3 DEF LinkedBy
  <2>2. K[L.next[x]] \in Int
    BY <2>1, KeyInt
  <2> QED BY <1>1, <1>3, <2>1, <2>2 DEF Reaches
<1> QED BY <1>2, <1>3

\* The first node is at hand for a walk to all.
LEMMA ReachFirst ==
  ASSUME NEW L, NEW M, NEW K, Ordered(K, M), LinkedBy(L, M, K), MaxAct \in Nat, NEW y \in M
  PROVE  L.next[Root] \in M /\ Reaches(L, K, L.next[Root], y)
<1>1. K[Root] < K[y] /\ K[Root] \in Int /\ K[y] \in Int
  BY DEF Ordered, Act, Root
<1>2. L.next[Root] # NULL
  BY <1>1 DEF LinkedBy
<1>3. L.next[Root] \in M /\ ~(K[Root] < K[y] /\ K[y] < K[L.next[Root]])
  BY <1>2 DEF LinkedBy
<1>4. K[L.next[Root]] \in Int
  BY <1>3, KeyInt
<1>5. K[L.next[Root]] <= K[y]
  BY <1>1, <1>3, <1>4
<1> QED BY <1>3, <1>5, ReachNext

\* A walk that moves on misses nobody.
LEMMA ReachStep ==
  ASSUME NEW L, NEW M, NEW K, Ordered(K, M), LinkedBy(L, M, K), MaxAct \in Nat,
         NEW x, L.next[x] \in M \cup {NULL}, NEW y \in M, y # x, Reaches(L, K, x, y)
  PROVE  L.next[x] \in M /\ Reaches(L, K, L.next[x], y)
<1>1. L.next[x] \in M /\ K[L.next[x]] <= K[y]
  BY DEF Reaches
<1> QED BY <1>1, ReachNext

\* What linking a does to a walk that stands on x.
LEMMA ReachLinkAt ==
  ASSUME NEW L, NEW M, NEW K, NEW a, NEW pred, NEW T, Linking(L, M, K, a, pred, T),
         NEW x \in Act, x # a, L.next[x] \in M \cup {NULL}
  PROVE  /\ T.next[x] \in M \cup {a} \cup {NULL}
         /\ \A y \in M : Reaches(L, K, x, y) => Reaches(T, K, x, y)
<1>0. LinkDone(L, M, K, a, pred, T)
  BY LinkAt
<1>1. /\ LinkedBy(T, M \cup {a}, K)
      /\ T.next[pred] = a /\ T.next[a] = L.next[pred]
      /\ \A z \in 0..MaxAct : z # pred /\ z # a => T.next[z] = L.next[z]
  BY <1>0 DEF LinkDone
<1> SUFFICES ASSUME MaxAct \in Nat, L \in ListType, M \in SUBSET Act, a \in Act \ M,
                    Ordered(K, M \cup {a}), LinkedBy(L, M, K), pred \in M \cup {Root}
             PROVE  /\ T.next[x] \in M \cup {a} \cup {NULL}
                    /\ \A y \in M : Reaches(L, K, x, y) => Reaches(T, K, x, y)
  BY DEF Linking
<1>2. x \in 0..MaxAct
  BY DEF Act
<1>3. CASE x # pred
  BY <1>1, <1>2, <1>3 DEF Reaches
<1>4. CASE x = pred
  <2>1. x \in M
    BY <1>4 DEF Act, Root
  <2>2. ASSUME NEW y \in M, Reaches(L, K, x, y) PROVE Reaches(T, K, x, y)
    <3>1. CASE y = x
      BY <3>1 DEF Reaches
    <3>2. CASE y # x
      <4>1. L.next[x] # NULL /\ K[L.next[x]] <= K[y] /\ L.next[x] \in M
        BY <2>2, <3>2 DEF Reaches
      <4>2. K[x] < K[L.next[x]]
        BY <1>4, <4>1 DEF LinkedBy
      <4>3. K[x] \in Int /\ K[y] \in Int /\ K[L.next[x]] \in Int
        BY <2>1, <4>1, KeyInt DEF Ordered
      <4>4. K[x] <= K[y]
        BY <4>1, <4>2, <4>3
      <4> QED BY <1>1, <2>1, <4>4, ReachNext
    <3> QED BY <3>1, <3>2
  <2> QED BY <1>1, <1>4, <2>2
<1> QED BY <1>3, <1>4

-----------------------------------------------------------------------------
(* Unlinking.                                                              *)

\* Unlinked, of any list and any set of nodes that iterators stand on.
UnlinkedFrom(l, w, R) ==
  LET n1 == [x \in 0..MaxAct |->
               IF x = l.prev[w] THEN l.next[w]
               ELSE IF x = Root /\ l.next[x] = w THEN NULL ELSE l.next[x]]
      p1 == [x \in 0..MaxAct |->
               IF x = l.next[w] \/ (x = Root /\ l.prev[x] = w)
               THEN l.prev[w] ELSE l.prev[x]]
  IN [next |-> [x \in 0..MaxAct |-> IF x \in R /\ n1[x] = w THEN n1[w] ELSE n1[x]],
      prev |-> [x \in 0..MaxAct |->
                  IF x \in R /\ n1[x] # w /\ p1[x] = w THEN p1[w] ELSE p1[x]]]

\* T is L without w.
Unlinking(L, M, K, w, R, T) ==
  /\ MaxAct \in Nat /\ L \in ListType /\ M \subseteq Act /\ w \in M
  /\ Ordered(K, M) /\ LinkedBy(L, M, K)
  /\ T = UnlinkedFrom(L, w, R)

\* The next pointers: of the node before w, and of nodes that are not in the
\* list but have an iterator.
LEMMA UnlinkNext ==
  ASSUME NEW L, NEW M, NEW K, NEW w, NEW R, NEW T, Unlinking(L, M, K, w, R, T)
  PROVE  /\ T \in ListType
         /\ L.next[w] # w /\ L.prev[w] # w
         /\ \A x \in 0..MaxAct :
              T.next[x] = IF x = L.prev[w] \/ (x \in R /\ L.next[x] = w)
                          THEN L.next[w] ELSE L.next[x]
<1>a. /\ MaxAct \in Nat /\ L \in ListType /\ M \subseteq Act /\ w \in M
      /\ Ordered(K, M) /\ LinkedBy(L, M, K)
      /\ T = UnlinkedFrom(L, w, R)
  BY DEF Unlinking
<1> USE <1>a
<1> DEFINE n1 == [x \in 0..MaxAct |->
                    IF x = L.prev[w] THEN L.next[w]
                    ELSE IF x = Root /\ L.next[x] = w THEN NULL ELSE L.next[x]]
           p1 == [x \in 0..MaxAct |->
                    IF x = L.next[w] \/ (x = Root /\ L.prev[x] = w)
                    THEN L.prev[w] ELSE L.prev[x]]
<1>0. /\ w \in 0..MaxAct /\ Root \in 0..MaxAct /\ w # NULL /\ w # Root
      /\ L.next \in [0..MaxAct -> Act \cup {NULL}]
      /\ L.prev \in [0..MaxAct -> Act \cup {Root, NULL}]
  BY DEF ListType, Act, Root, NULL
<1>1. L.prev[w] \in M \cup {Root} /\ L.next[L.prev[w]] = w
  BY DEF LinkedBy
<1>2. L.next[w] # w
  <2>1. L.next[w] # NULL => K[w] < K[L.next[w]] /\ K[w] \in Int
    BY <1>0 DEF LinkedBy, Ordered
  <2> QED BY <1>0, <2>1
<1>3. L.prev[w] # w
  BY <1>1, <1>2
<1>4. L.next[Root] = w => L.prev[w] = Root
  BY <1>0, <1>1, OnePredecessor
<1>5. /\ T.next = [x \in 0..MaxAct |-> IF x \in R /\ n1[x] = w THEN n1[w] ELSE n1[x]]
      /\ T.prev = [x \in 0..MaxAct |-> IF x \in R /\ n1[x] # w /\ p1[x] = w THEN p1[w] ELSE p1[x]]
      /\ T = [next |-> T.next, prev |-> T.prev]
  BY DEF UnlinkedFrom
<1>6. \A x \in 0..MaxAct : n1[x] = IF x = L.prev[w] THEN L.next[w] ELSE L.next[x]
  BY <1>4
<1>7. n1 \in [0..MaxAct -> Act \cup {NULL}]
  BY <1>0
<1>8. p1 \in [0..MaxAct -> Act \cup {Root, NULL}]
  BY <1>0
<1> HIDE DEF n1, p1
<1>9. T \in ListType
  <2>1. T.next \in [0..MaxAct -> Act \cup {NULL}]
    BY <1>0, <1>5, <1>7
  <2>2. T.prev \in [0..MaxAct -> Act \cup {Root, NULL}]
    BY <1>0, <1>5, <1>8
  <2> QED BY <1>5, <2>1, <2>2 DEF ListType
<1>10. n1[w] = L.next[w]
  BY <1>0, <1>3, <1>6
<1>11. ASSUME NEW x \in 0..MaxAct
       PROVE  T.next[x] = IF x = L.prev[w] \/ (x \in R /\ L.next[x] = w)
                          THEN L.next[w] ELSE L.next[x]
  BY <1>2, <1>5, <1>6, <1>10
<1> QED BY <1>2, <1>3, <1>9, <1>11

\* The previous pointers of the nodes that stay.
LEMMA UnlinkPrev ==
  ASSUME NEW L, NEW M, NEW K, NEW w, NEW R, NEW T, Unlinking(L, M, K, w, R, T), NEW x \in (M \ {w}) \cup {Root}
  PROVE  T.prev[x] = IF x = L.next[w] \/ (x = Root /\ L.prev[x] = w)
                     THEN L.prev[w] ELSE L.prev[x]
<1>a. /\ MaxAct \in Nat /\ L \in ListType /\ M \subseteq Act /\ w \in M
      /\ Ordered(K, M) /\ LinkedBy(L, M, K)
      /\ T = UnlinkedFrom(L, w, R)
  BY DEF Unlinking
<1> USE <1>a
<1> DEFINE n1 == [z \in 0..MaxAct |->
                    IF z = L.prev[w] THEN L.next[w]
                    ELSE IF z = Root /\ L.next[z] = w THEN NULL ELSE L.next[z]]
           p1 == [z \in 0..MaxAct |->
                    IF z = L.next[w] \/ (z = Root /\ L.prev[z] = w)
                    THEN L.prev[w] ELSE L.prev[z]]
<1>0. w \in 0..MaxAct /\ Root \in 0..MaxAct /\ w # NULL /\ w # Root /\ x \in 0..MaxAct
  BY DEF Act, Root, NULL
<1>1. T.prev = [z \in 0..MaxAct |-> IF z \in R /\ n1[z] # w /\ p1[z] = w THEN p1[w] ELSE p1[z]]
  BY DEF UnlinkedFrom
<1>2. p1[x] = IF x = L.next[w] \/ (x = Root /\ L.prev[x] = w) THEN L.prev[w] ELSE L.prev[x]
  BY <1>0
<1>3. L.prev[w] # w
  BY UnlinkNext
<1>4. p1[x] # w
  <2>1. CASE x = Root
    BY <1>2, <1>3, <2>1
  <2>2. CASE x \in M
    <3>1. L.prev[x] = w => x = L.next[w]
      BY <2>2 DEF LinkedBy
    <3> QED BY <1>2, <1>3, <3>1
  <2> QED BY <2>1, <2>2
<1> HIDE DEF n1, p1
<1> QED BY <1>0, <1>1, <1>2, <1>4

\* The list without the node is still linked in order.  (unlink)
LEMMA UnlinkFrom ==
  ASSUME NEW L, NEW M, NEW K, NEW w, NEW R, NEW T, Unlinking(L, M, K, w, R, T)
  PROVE  LinkedBy(T, M \ {w}, K)
<1>a. /\ MaxAct \in Nat /\ L \in ListType /\ M \subseteq Act /\ w \in M
      /\ Ordered(K, M) /\ LinkedBy(L, M, K)
      /\ T = UnlinkedFrom(L, w, R)
  BY DEF Unlinking
<1> USE <1>a
<1> DEFINE N == M \ {w}
           a == L.prev[w]
           b == L.next[w]
<1>0. /\ w \in 0..MaxAct /\ Root \in 0..MaxAct /\ w # NULL /\ w # Root /\ Root # NULL
      /\ M \subseteq 0..MaxAct /\ Root \notin M /\ NULL \notin M
  BY DEF Act, Root, NULL
<1>1. /\ b # w /\ a # w
      /\ \A x \in 0..MaxAct :
              T.next[x] = IF x = a \/ (x \in R /\ L.next[x] = w) THEN b ELSE L.next[x]
  BY UnlinkNext
<1>2. \A x \in N \cup {Root} :
        T.prev[x] = IF x = b \/ (x = Root /\ L.prev[x] = w) THEN a ELSE L.prev[x]
  BY UnlinkPrev
<1>3. a \in N \cup {Root} /\ L.next[a] = w /\ K[a] < K[w]
      /\ \A y \in M : ~(K[a] < K[y] /\ K[y] < K[w])
  <2>1. a \in M \cup {Root} /\ L.next[a] = w
    BY DEF LinkedBy
  <2>2. K[a] < K[w] /\ \A y \in M : ~(K[a] < K[y] /\ K[y] < K[w])
    BY <1>0, <2>1 DEF LinkedBy
  <2> QED BY <1>1, <2>1, <2>2
<1>4. IF b = NULL THEN \A y \in M : K[y] <= K[w]
      ELSE b \in N /\ K[w] < K[b] /\ \A y \in M : ~(K[w] < K[y] /\ K[y] < K[b])
  BY <1>1 DEF LinkedBy
<1>5. \A x \in M \cup {Root} : L.next[x] = w => x = a
  BY <1>0, <1>3, OnePredecessor
<1>6. \A x \in N \cup {Root} : T.next[x] = IF x = a THEN b ELSE L.next[x]
  BY <1>0, <1>1, <1>5
<1>7. /\ \A x \in M \cup {Root} : K[x] \in Int
      /\ \A x, y \in M : K[x] = K[y] => x = y
  BY <1>0 DEF Ordered
<1> HIDE DEF a, b
<1>8. \A x \in N \cup {Root} :
        IF T.next[x] = NULL THEN \A y \in N : K[y] <= K[x]
        ELSE /\ T.next[x] \in N /\ K[x] < K[T.next[x]]
             /\ \A y \in N : ~(K[x] < K[y] /\ K[y] < K[T.next[x]])
  <2> SUFFICES ASSUME NEW x \in N \cup {Root}
               PROVE  IF T.next[x] = NULL THEN \A y \in N : K[y] <= K[x]
                      ELSE /\ T.next[x] \in N /\ K[x] < K[T.next[x]]
                           /\ \A y \in N : ~(K[x] < K[y] /\ K[y] < K[T.next[x]])
    OBVIOUS
  <2>1. CASE x = a
    <3>1. \A y \in N : K[y] # K[w] /\ K[y] \in Int /\ ~(K[a] < K[y] /\ K[y] < K[w])
      BY <1>3, <1>7
    <3>2. K[a] \in Int /\ K[w] \in Int
      BY <1>3, <1>7
    <3>3. CASE b = NULL
      <4>1. \A y \in N : K[y] <= K[a]
        BY <1>4, <3>1, <3>2, <3>3
      <4> QED BY <1>6, <2>1, <3>3, <4>1
    <3>4. CASE b # NULL
      <4>1. K[b] \in Int /\ b \in N /\ K[a] < K[b]
        BY <1>3, <1>4, <1>7, <3>2, <3>4
      <4>2. \A y \in N : ~(K[a] < K[y] /\ K[y] < K[b])
        BY <1>4, <3>1, <3>2, <3>4, <4>1
      <4> QED BY <1>6, <2>1, <3>4, <4>1, <4>2
    <3> QED BY <3>3, <3>4
  <2>2. CASE x # a
    <3>1. T.next[x] = L.next[x] /\ L.next[x] # w
      BY <1>5, <1>6, <2>2
    <3>2. IF L.next[x] = NULL THEN \A y \in M : K[y] <= K[x]
          ELSE /\ L.next[x] \in M /\ K[x] < K[L.next[x]]
               /\ \A y \in M : ~(K[x] < K[y] /\ K[y] < K[L.next[x]])
      BY DEF LinkedBy
    <3> QED BY <3>1, <3>2
  <2> QED BY <2>1, <2>2
<1>9. ASSUME NEW x \in N PROVE T.prev[x] \in N \cup {Root} /\ T.next[T.prev[x]] = x
  <2>1. L.prev[x] \in M \cup {Root} /\ L.next[L.prev[x]] = x
    BY DEF LinkedBy
  <2>2. CASE x = b
    BY <1>2, <1>3, <1>6, <2>2
  <2>3. CASE x # b
    <3>1. L.prev[x] # w /\ L.prev[x] # a /\ T.prev[x] = L.prev[x]
      BY <1>0, <1>2, <1>3, <2>1, <2>3 DEF b
    <3> QED BY <1>6, <2>1, <3>1
  <2> QED BY <2>2, <2>3
<1>10. T.prev[Root] \in N \cup {Root} /\ T.next[T.prev[Root]] = NULL
  <2>1. L.prev[Root] \in M \cup {Root} /\ L.next[L.prev[Root]] = NULL
    BY DEF LinkedBy
  <2>2. Root # b
    BY <1>0, <1>4
  <2>3. CASE L.prev[Root] = w
    BY <1>2, <1>3, <1>6, <2>1, <2>3 DEF b
  <2>4. CASE L.prev[Root] # w
    <3>1. T.prev[Root] = L.prev[Root] /\ L.prev[Root] # a
      BY <1>0, <1>2, <1>3, <2>1, <2>2, <2>4
    <3> QED BY <1>6, <2>1, <2>4, <3>1
  <2> QED BY <2>3, <2>4
<1> QED BY <1>8, <1>9, <1>10 DEF LinkedBy

\* What unlinking w does to a walk whose registered iterator stands on x.
LEMMA ReachUnlink ==
  ASSUME NEW L, NEW M, NEW K, NEW w, NEW R, NEW T, Unlinking(L, M, K, w, R, T),
         NEW x \in R, x \in Act, L.next[x] \in M \cup {NULL}
  PROVE  /\ T.next[x] \in (M \ {w}) \cup {NULL}
         /\ \A y \in M \ {w} : Reaches(L, K, x, y) => Reaches(T, K, x, y)
<1>a. /\ MaxAct \in Nat /\ L \in ListType /\ M \subseteq Act /\ w \in M
      /\ Ordered(K, M) /\ LinkedBy(L, M, K)
      /\ T = UnlinkedFrom(L, w, R)
  BY DEF Unlinking
<1> USE <1>a
<1>1. /\ L.next[w] # w
      /\ T.next[x] = IF x = L.prev[w] \/ L.next[x] = w THEN L.next[w] ELSE L.next[x]
  <2>1. x \in 0..MaxAct
    BY DEF Act
  <2> QED BY <2>1, UnlinkNext
<1>2. L.next[w] \in M \cup {NULL} /\ L.next[L.prev[w]] = w
  BY DEF LinkedBy
<1>3. T.next[x] = IF L.next[x] = w THEN L.next[w] ELSE L.next[x]
  BY <1>1, <1>2
<1>4. ASSUME NEW y \in M \ {w}, Reaches(L, K, x, y), y # x PROVE Reaches(T, K, x, y)
  <2>1. L.next[x] # NULL /\ K[L.next[x]] <= K[y] /\ L.next[x] \in M
    BY <1>4 DEF Reaches
  <2>2. CASE L.next[x] # w
    BY <1>3, <2>1, <2>2 DEF Reaches
  <2>3. CASE L.next[x] = w
    <3>1. Reaches(L, K, w, y)
      BY <2>1, <2>3, ReachNext
    <3> QED BY <1>3, <2>3, <3>1 DEF Reaches
  <2> QED BY <2>2, <2>3
<1> QED BY <1>1, <1>2, <1>3, <1>4 DEF Reaches

\* What unlinking does to the list.
UnlinkDone(L, M, K, w, R, T) ==
  /\ T \in ListType /\ LinkedBy(T, M \ {w}, K)
  /\ L.next[w] \in (M \ {w}) \cup {NULL} /\ L.prev[w] \in M \cup {Root}
  /\ \A x \in 0..MaxAct :
       T.next[x] = IF x = L.prev[w] \/ (x \in R /\ L.next[x] = w) THEN L.next[w] ELSE L.next[x]

\* What unlinking does, in one predicate.
LEMMA UnlinkAt ==
  ASSUME NEW L, NEW M, NEW K, NEW w, NEW R, NEW T, Unlinking(L, M, K, w, R, T)
  PROVE  UnlinkDone(L, M, K, w, R, T)
<1>1. LinkedBy(T, M \ {w}, K)
  BY UnlinkFrom
<1>2. LinkedBy(L, M, K) /\ w \in M
  BY DEF Unlinking
<1>3. /\ T \in ListType /\ L.next[w] # w
      /\ \A x \in 0..MaxAct :
           T.next[x] = IF x = L.prev[w] \/ (x \in R /\ L.next[x] = w) THEN L.next[w] ELSE L.next[x]
  BY UnlinkNext
<1>4. L.next[w] \in M \cup {NULL} /\ L.prev[w] \in M \cup {Root}
  BY <1>2 DEF LinkedBy
<1> QED BY <1>1, <1>3, <1>4 DEF UnlinkDone

-----------------------------------------------------------------------------
(* The invariant: types.                                                   *)

ListName == Obj \cup {"event", "main"}
FrameT == [op : {"code", "loop", "with", "destroy", "unlink", "deactivate",
                 "activate", "change"},
           list : ListName \cup {"temp"},
           reg : Act \cup {Root, NULL}, cur : 0..MaxInst \cup Act \cup {NULL},
           self : 0..MaxInst, flag : BOOLEAN, seen : SUBSET (Act \cup Id)]

NumT == insts \in 0..MaxInst /\ acts \in 0..MaxAct /\ maxid \in 1..MaxInst + 1
InstT == id \in [Inst -> 0..MaxInst] /\ obj \in [Inst -> Obj \cup {NoParent}]
NodeT == node \in [Inst -> 0..MaxAct] /\ who \in [Act -> 0..MaxInst] /\ live \subseteq 1..acts
ListT == list \in [ListName -> ListType]
MapT == main \in [Id -> 0..MaxAct] /\ deact \in [Id -> 0..MaxInst]
CountT == count \in [Obj -> 0..MaxInst]
SetT == total \in 0..MaxInst /\ cleanups \subseteq Inst /\ freed \subseteq Inst /\ calls \in 0..MaxCalls
StackT == stack \in Seq(FrameT)

\* The type of every variable, part by part.
LEMMA TypeParts ==
  TypeOK <=> NumT /\ InstT /\ NodeT /\ ListT /\ MapT /\ CountT /\ SetT /\ StackT
<1>1. list \in [Obj \cup {"event", "main"} ->
                 [next : [0..MaxAct -> Act \cup {NULL}],
                  prev : [0..MaxAct -> Act \cup {Root, NULL}]]] <=> ListT
  BY DEF ListT, ListName, ListType
<1>2. ListT => Frames = FrameT
  BY DEF ListT, Frames, FrameT
<1> QED BY <1>1, <1>2 DEF TypeOK, NumT, InstT, NodeT, MapT, CountT, SetT, StackT

\* In the next state.
LEMMA TypePartsPrimed ==
  TypeOK' <=> (NumT /\ InstT /\ NodeT /\ ListT /\ MapT /\ CountT /\ SetT /\ StackT)'
<1>1. list' \in [Obj \cup {"event", "main"} ->
                 [next : [0..MaxAct -> Act \cup {NULL}],
                  prev : [0..MaxAct -> Act \cup {Root, NULL}]]] <=> ListT'
  BY DEF ListT, ListName, ListType
<1>2. ListT' => Frames' = FrameT
  BY DEF ListT, Frames, FrameT
<1> QED BY <1>1, <1>2 DEF TypeOK, NumT, InstT, NodeT, MapT, CountT, SetT, StackT

-----------------------------------------------------------------------------
(* The invariant: lists and nodes.                                         *)

\* The nodes that are in list l, in the order of their ids or of their age.
Members(l) == {n \in live : l \in Obj => IsA(who[n], l)}
Key(l) == [x \in 0..MaxAct |-> IF l = "main" /\ x \in 1..acts THEN id[who[x]] ELSE x]

\* Every list is what it should be.
ListsInv == \A l \in ListName : LinkedBy(list[l], Members(l), Key(l))

\* What has never been in a list leads nowhere.
Belongs(l) == {n \in 1..acts : l \in Obj => IsA(who[n], l)}
FreshInv == \A l \in ListName : \A x \in Act \ Belongs(l) : list[l].next[x] = NULL

\* Instances, their nodes and instance_list name each other.
NodesInv ==
  /\ \A n \in 1..acts : who[n] \in 1..insts
  /\ \A n \in live : node[who[n]] = n /\ main[id[who[n]]] = n
  /\ \A i \in Id : main[i] # 0 => main[i] \in live /\ id[who[main[i]]] = i
  /\ \A p \in Inst : node[p] # 0 => p <= insts /\ node[p] \in 1..acts /\ who[node[p]] = p
  /\ \A p \in 1..insts : id[p] \in 1..maxid - 1 /\ obj[p] \in Obj

\* The lists, and what they are about.
Base == NumT /\ InstT /\ NodeT /\ ListT /\ MapT /\ ListsInv /\ FreshInv /\ NodesInv

\* id, obj and who are never changed once they are set.
LEMMA LiveFacts ==
  ASSUME Base, NEW n \in live
  PROVE  /\ n \in 1..acts /\ n \in Act /\ who[n] \in 1..insts /\ who[n] \in Inst
         /\ id[who[n]] \in 1..maxid - 1 /\ id[who[n]] \in Id /\ obj[who[n]] \in Obj
         /\ node[who[n]] = n /\ main[id[who[n]]] = n /\ Active(who[n])
<1>1. n \in 1..acts /\ n \in Act
  BY ConstantsAssumption DEF Base, NodeT, NumT, Act
<1>2. who[n] \in 1..insts /\ who[n] \in Inst
  BY <1>1, ConstantsAssumption DEF Base, NodesInv, NumT, Inst
<1>3. id[who[n]] \in 1..maxid - 1 /\ id[who[n]] \in Id /\ obj[who[n]] \in Obj
  BY <1>2, ConstantsAssumption DEF Base, NodesInv, NumT, Id
<1>4. node[who[n]] = n /\ main[id[who[n]]] = n
  BY DEF Base, NodesInv
<1> QED BY <1>1, <1>2, <1>3, <1>4 DEF Active

\* What orders the nodes of a list: their ids in instance_list, their age in
\* the others.
LEMMA KeyFacts ==
  ASSUME Base, NEW l
  PROVE  /\ Ordered(Key(l), Members(l))
         /\ Key(l)[Root] = 0
         /\ \A x \in live : Key(l)[x] = IF l = "main" THEN id[who[x]] ELSE x
<1>1. \A x \in 0..MaxAct : Key(l)[x] = IF l = "main" /\ x \in 1..acts THEN id[who[x]] ELSE x
  BY DEF Key
<1>2. \A x \in 1..acts : id[who[x]] \in Int
  BY ConstantsAssumption DEF Base, NodesInv, NumT
<1>3. Key(l) \in [0..MaxAct -> Int]
  BY <1>1, <1>2, ConstantsAssumption DEF Key
<1>4. Key(l)[Root] = 0
  BY <1>1, ConstantsAssumption DEF Root
<1>5. \A x \in live : Key(l)[x] = IF l = "main" THEN id[who[x]] ELSE x
  BY <1>1, LiveFacts, ConstantsAssumption DEF Act
<1>6. \A x \in live : 0 < Key(l)[x]
  BY <1>5, LiveFacts, ConstantsAssumption DEF Base, NumT
<1>7. \A x, y \in live : Key(l)[x] = Key(l)[y] => x = y
  BY <1>5, LiveFacts
<1>8. Members(l) \subseteq live /\ live \subseteq Act
  BY LiveFacts DEF Members
<1> QED BY <1>3, <1>4, <1>5, <1>6, <1>7, <1>8 DEF Ordered

-----------------------------------------------------------------------------
(* Linking an instance.                                                    *)

\* A set of numbers that is not empty has a least one,
LEMMA LeastOf ==
  ASSUME NEW S \in SUBSET Nat, S # {}
  PROVE  \E i \in S : \A j \in S : i <= j
<1> DEFINE R == {ss \in Nat \X Nat : ss[1] < ss[2]}
<1>1. PICK i \in S : \A j \in S : ~(<<j, i>> \in R)
  <2>1. IsWellFoundedOn(R, Nat)
    BY NatLessThanWellFounded DEF OpToRel
  <2> HIDE DEF R
  <2> QED BY <2>1, WFMin
<1>2. \A j \in S : ~(<<j, i>> \in R) => i <= j
  OBVIOUS
<1> HIDE DEF R
<1> QED BY <1>1, <1>2

\* and a bounded one a greatest.
LEMMA GreatestOf ==
  ASSUME NEW n \in Nat, NEW S \in SUBSET (1..n), S # {}
  PROVE  \E i \in S : \A j \in S : j <= i
<1> DEFINE D == {m \in Nat : n - m \in S}
<1>1. D \in SUBSET Nat /\ D # {}
  <2>1. PICK i \in S : TRUE
    OBVIOUS
  <2>2. n - i \in Nat /\ n - (n - i) = i
    OBVIOUS
  <2>3. n - i \in D
    BY <2>1, <2>2
  <2> QED BY <2>3
<1> HIDE DEF D
<1>2. PICK m \in D : \A k \in D : m <= k
  BY <1>1, LeastOf
<1>3. n - m \in S /\ m \in Nat
  BY DEF D
<1>4. ASSUME NEW j \in S PROVE j <= n - m
  <2>1. n - j \in Nat /\ n - (n - j) = j
    OBVIOUS
  <2>2. n - j \in D
    BY <2>1 DEF D
  <2>3. m <= n - j
    BY <1>2, <2>2
  <2> QED BY <1>3, <2>1, <2>3
<1> QED BY <1>3, <1>4

\* p, with id i and object o, is linked into its lists.
Adding(p, i, o) ==
  /\ Activate(p, i, o) /\ main[i] = 0 /\ ~Active(p)
  /\ p \in Inst /\ i \in Id /\ o \in Obj
  /\ insts' \in insts..MaxInst /\ p \in 1..insts'
  /\ insts' \in {insts, insts + 1}
  /\ insts' # insts => p = insts'
  /\ id' \in [Inst -> 0..MaxInst] /\ obj' \in [Inst -> Obj \cup {NoParent}]
  /\ id'[p] = i /\ obj'[p] = o
  /\ \A q \in 1..insts : id'[q] = id[q] /\ obj'[q] = obj[q]
  /\ maxid' \in maxid..MaxInst + 1 /\ i < maxid'
  /\ deact' \in [Id -> 0..MaxInst]

\* What activate() does to each variable.
LEMMA AddFacts ==
  ASSUME Base, NEW p, NEW i, NEW o, Adding(p, i, o)
  PROVE  /\ acts + 1 \in Act /\ acts' = acts + 1 /\ acts + 1 \notin 1..acts /\ acts \in Nat
         /\ live' = live \cup {acts + 1} /\ acts + 1 \notin live
         /\ \A q \in Inst : node'[q] = IF q = p THEN acts + 1 ELSE node[q]
         /\ \A n \in Act : who'[n] = IF n = acts + 1 THEN p ELSE who[n]
         /\ \A j \in Id : main'[j] = IF j = i THEN acts + 1 ELSE main[j]
         /\ NumT' /\ NodeT' /\ (main \in [Id -> 0..MaxAct])'
<1>1. /\ acts < MaxAct /\ acts' = acts + 1 /\ acts \in Nat /\ MaxAct \in Nat
      /\ node' = [node EXCEPT ![p] = acts + 1]
      /\ who' = [who EXCEPT ![acts + 1] = p]
      /\ live' = live \cup {acts + 1}
      /\ main' = [main EXCEPT ![i] = acts + 1]
      /\ p \in Inst /\ i \in Id
  BY ConstantsAssumption DEF Adding, Activate, Base, NumT
<1>2. node \in [Inst -> 0..MaxAct] /\ who \in [Act -> 0..MaxInst] /\ live \subseteq 1..acts
      /\ main \in [Id -> 0..MaxAct]
  BY DEF Base, NodeT, MapT
<1>3. acts + 1 \in Act /\ acts + 1 \in 0..MaxAct /\ acts + 1 \notin 1..acts
  BY <1>1 DEF Act
<1>4. NumT'
  <2>1. insts \in Nat /\ maxid \in Nat \ {0} /\ MaxInst \in Nat
    BY ConstantsAssumption DEF Base, NumT
  <2>2. insts' \in insts..MaxInst /\ maxid' \in maxid..MaxInst + 1
    BY DEF Adding
  <2> QED BY <1>1, <2>1, <2>2 DEF NumT
<1>5. NodeT'
  <2>1. node' \in [Inst -> 0..MaxAct]
    BY <1>1, <1>2, <1>3
  <2>2. who' \in [Act -> 0..MaxInst]
    <3>1. p \in 0..MaxInst
      BY <1>1, ConstantsAssumption DEF Inst
    <3> QED BY <1>1, <1>2, <1>3, <3>1
  <2>3. live' \subseteq 1..acts'
    BY <1>1, <1>2
  <2> QED BY <2>1, <2>2, <2>3 DEF NodeT
<1>6. main' \in [Id -> 0..MaxAct]
  BY <1>1, <1>2, <1>3
<1>7. \A q \in Inst : node'[q] = IF q = p THEN acts + 1 ELSE node[q]
  BY <1>1, <1>2
<1>8. \A n \in Act : who'[n] = IF n = acts + 1 THEN p ELSE who[n]
  BY <1>1, <1>2
<1>9. \A j \in Id : main'[j] = IF j = i THEN acts + 1 ELSE main[j]
  BY <1>1, <1>2
<1> QED BY <1>1, <1>2, <1>3, <1>4, <1>5, <1>6, <1>7, <1>8, <1>9

\* Nothing that was allocated before changes its instance, id or object.
LEMMA AddOld ==
  ASSUME Base, NEW p, NEW i, NEW o, Adding(p, i, o), NEW n \in 1..acts
  PROVE  /\ n \in Act /\ who'[n] = who[n] /\ who[n] \in 1..insts
         /\ id'[who[n]] = id[who[n]] /\ obj'[who[n]] = obj[who[n]]
         /\ \A l : IsA(who[n], l)' <=> IsA(who[n], l)
<1>1. n \in Act /\ n # acts + 1
  BY ConstantsAssumption DEF Act, Base, NumT
<1>2. who'[n] = who[n]
  BY <1>1, AddFacts
<1>3. who[n] \in 1..insts
  BY DEF Base, NodesInv
<1>4. id'[who[n]] = id[who[n]] /\ obj'[who[n]] = obj[who[n]]
  BY <1>3 DEF Adding
<1> QED BY <1>1, <1>2, <1>3, <1>4 DEF IsA

\* The lists that get the new node.
Gets(l, o) == l \in {"event", "main"} \/ l \in Lineage(o)

\* It adds one node, to the lists of the object.
LEMMA AddMembers ==
  ASSUME Base, NEW p, NEW i, NEW o, Adding(p, i, o), NEW l \in ListName
  PROVE  /\ Members(l)' = IF Gets(l, o) THEN Members(l) \cup {acts + 1} ELSE Members(l)
         /\ \A x \in live \cup {Root} : Key(l)'[x] = Key(l)[x]
         /\ Key(l)'[acts + 1] = IF l = "main" THEN i ELSE acts + 1
<1>a. PICK a : a = acts + 1
  OBVIOUS
<1>1. /\ live' = live \cup {a} /\ a \notin live /\ a \in Act /\ who'[a] = p /\ acts' = a
      /\ acts \in Nat
  BY <1>a, AddFacts
<1>2. obj'[p] = o /\ id'[p] = i
  BY DEF Adding
<1>3. \A n \in live : (l \in Obj => IsA(who[n], l))' <=> (l \in Obj => IsA(who[n], l))
  BY LiveFacts, AddOld
<1>4. (l \in Obj => IsA(who[a], l))' <=> Gets(l, o)
  <2>0. obj'[who'[a]] = o
    BY <1>1, <1>2
  <2>1. IsA(who[a], l)' <=> l \in Lineage(o)
    BY <2>0, Zenon DEF IsA
  <2>2. l \in Obj <=> l \notin {"event", "main"}
    BY ConstantsAssumption DEF ListName
  <2>3. CASE l \in Obj
    BY <2>1, <2>2, <2>3 DEF Gets
  <2>4. CASE l \notin Obj
    BY <2>2, <2>4 DEF Gets
  <2> QED BY <2>3, <2>4
<1>5. Members(l)' = {n \in live \cup {a} : (l \in Obj => IsA(who[n], l))'}
  BY <1>1 DEF Members
<1>6. Members(l)' = IF Gets(l, o) THEN Members(l) \cup {a} ELSE Members(l)
  <2>1. CASE Gets(l, o)
    <3>1. \A n \in live \cup {a} : (l \in Obj => IsA(who[n], l))' <=> n \in Members(l) \cup {a}
      BY <1>1, <1>3, <1>4, <2>1 DEF Members
    <3>2. Members(l) \subseteq live
      BY DEF Members
    <3> QED BY <1>5, <2>1, <3>1, <3>2, Zenon
  <2>2. CASE ~Gets(l, o)
    <3>1. \A n \in live \cup {a} : (l \in Obj => IsA(who[n], l))' <=> n \in Members(l)
      BY <1>1, <1>3, <1>4, <2>2 DEF Members
    <3>2. Members(l) \subseteq live
      BY DEF Members
    <3> QED BY <1>5, <2>2, <3>1, <3>2, Zenon
  <2> QED BY <2>1, <2>2
<1>7. ASSUME NEW x \in live \cup {Root} PROVE Key(l)'[x] = Key(l)[x]
  <2>1. x \in 0..MaxAct
    BY LiveFacts, ConstantsAssumption DEF Act, Root
  <2>2. CASE x \in 1..acts
    <3>1. x \in 1..acts'
      BY <1>a, <1>1, <2>2
    <3>2. id'[who'[x]] = id[who[x]]
      BY <2>2, AddOld
    <3> QED BY <2>1, <2>2, <3>1, <3>2 DEF Key
  <2>3. CASE x = Root
    BY <2>1, <2>3 DEF Key, Root
  <2> QED BY <2>2, <2>3, LiveFacts
<1>8. Key(l)'[a] = IF l = "main" THEN i ELSE a
  <2>1. a \in 0..MaxAct /\ a \in 1..acts'
    BY <1>1, ConstantsAssumption DEF Act
  <2> QED BY <1>1, <1>2, <2>1 DEF Key
<1> QED BY <1>a, <1>6, <1>7, <1>8

\* Among all nodes, old and new, the order is one.
LEMMA AddOrdered ==
  ASSUME Base, NEW p, NEW i, NEW o, Adding(p, i, o), NEW l \in ListName
  PROVE  /\ Ordered(Key(l)', Members(l) \cup {acts + 1})
         /\ \A M : M \subseteq live /\ LinkedBy(list[l], M, Key(l)) => LinkedBy(list[l], M, Key(l)')
<1>a. PICK a : a = acts + 1
  OBVIOUS
<1>1. /\ Ordered(Key(l), Members(l)) /\ Key(l)[Root] = 0
      /\ \A x \in live : Key(l)[x] = IF l = "main" THEN id[who[x]] ELSE x
  BY KeyFacts
<1>2. /\ \A x \in live \cup {Root} : Key(l)'[x] = Key(l)[x]
      /\ Key(l)'[a] = IF l = "main" THEN i ELSE a
  BY <1>a, AddMembers
<1>3. a \in Act /\ a \in Nat \ {0} /\ \A x \in live : x # a
  BY <1>a, AddFacts, ConstantsAssumption
<1>4. i \in Nat \ {0} /\ main[i] = 0 /\ i \in Id
  BY ConstantsAssumption DEF Adding, Id
<1>5. Key(l)' \in [0..MaxAct -> Int]
  <2>1. \A x \in 1..acts' : x \in 0..MaxAct => id'[who'[x]] \in Int
    <3> SUFFICES ASSUME NEW x \in 1..acts' PROVE id'[who'[x]] \in Int
      OBVIOUS
    <3>1. CASE x = a
      <4>1. who'[x] = p /\ id'[p] = i
        BY <1>a, <3>1, <1>3, AddFacts DEF Adding
      <4> QED BY <4>1, <1>4
    <3>2. CASE x # a
      <4>1. x \in 1..acts
        BY <1>a, <3>2, AddFacts
      <4>2. id'[who'[x]] = id[who[x]] /\ who[x] \in 1..insts
        BY <4>1, AddOld
      <4>3. id[who[x]] \in 1..maxid - 1 /\ maxid \in Int
        BY <4>2, ConstantsAssumption DEF Base, NodesInv, NumT
      <4> QED BY <4>2, <4>3
    <3> QED BY <3>1, <3>2
  <2>2. Key(l)' = [x \in 0..MaxAct |-> IF l = "main" /\ x \in 1..acts' THEN id'[who'[x]] ELSE x]
    BY DEF Key
  <2> QED BY <2>1, <2>2, ConstantsAssumption
<1>6. Members(l) \subseteq live
  BY DEF Members
<1>7. \A x \in live : Key(l)[x] # Key(l)'[a]
  <2> SUFFICES ASSUME NEW x \in live PROVE Key(l)[x] # Key(l)'[a]
    OBVIOUS
  <2>1. CASE l = "main"
    <3>1. Key(l)[x] = id[who[x]] /\ main[id[who[x]]] = x /\ x \in Act
      BY <1>1, <2>1, LiveFacts
    <3>2. id[who[x]] # i
      BY <1>4, <3>1 DEF Act
    <3> QED BY <1>2, <2>1, <3>1, <3>2
  <2>2. CASE l # "main"
    BY <1>1, <1>2, <1>3, <2>2
  <2> QED BY <2>1, <2>2
<1>8. Members(l) \cup {a} \subseteq Act
  BY <1>1, <1>3 DEF Ordered
<1>9. \A x \in Members(l) \cup {a} : Key(l)'[Root] < Key(l)'[x]
  BY <1>1, <1>2, <1>3, <1>4, <1>6 DEF Ordered
<1>10. \A x, y \in Members(l) \cup {a} : Key(l)'[x] = Key(l)'[y] => x = y
  BY <1>1, <1>2, <1>6, <1>7 DEF Ordered
<1>11. Ordered(Key(l)', Members(l) \cup {a})
  BY <1>5, <1>8, <1>9, <1>10 DEF Ordered
<1>12. ASSUME NEW M, M \subseteq live, LinkedBy(list[l], M, Key(l))
       PROVE  LinkedBy(list[l], M, Key(l)')
  <2>1. \A x \in M \cup {Root} : Key(l)[x] = Key(l)'[x]
    BY <1>2, <1>12
  <2> QED BY <1>12, <2>1, SameOrder
<1> QED BY <1>a, <1>11, <1>12

\* The list gets the new node, in its place.
Grows(l) ==
  \E pred : Linking(list[l], Members(l), Key(l)', acts + 1, pred, list'[l])

\* A place in the list for the new node.
LEMMA LinkingOf ==
  ASSUME Base, NEW p, NEW i, NEW o, Adding(p, i, o), NEW l \in ListName,
         NEW pred \in Members(l) \cup {Root}, Key(l)'[pred] < Key(l)'[acts + 1],
         list[l].next[pred] # NULL => Key(l)'[acts + 1] < Key(l)'[list[l].next[pred]],
         list'[l] = LinkedAt(list[l], acts + 1, pred, list[l].next[pred])
  PROVE  Grows(l)
<1>1. MaxAct \in Nat /\ list[l] \in ListType /\ Members(l) \subseteq live
  BY ConstantsAssumption DEF Base, ListT, Members
<1>2. Members(l) \subseteq Act /\ acts + 1 \in Act \ Members(l)
  BY <1>1, AddFacts, LiveFacts
<1>3. Ordered(Key(l)', Members(l) \cup {acts + 1}) /\ LinkedBy(list[l], Members(l), Key(l)')
  BY <1>1, AddOrdered DEF Base, ListsInv
<1>4. Linking(list[l], Members(l), Key(l)', acts + 1, pred, list'[l])
  BY <1>1, <1>2, <1>3 DEF Linking
<1> QED BY <1>4 DEF Grows

\* The event list and the object lists: at the end.
LEMMA GrowsLast ==
  ASSUME Base, NEW p, NEW i, NEW o, Adding(p, i, o), NEW l \in ListName, l # "main", Gets(l, o)
  PROVE  Grows(l)
<1> DEFINE pred == list[l].prev[Root]
<1>1. list'[l] = Appended(list[l], acts + 1)
  <2>1. list' = [k \in DOMAIN list |->
                IF k = "main"
                THEN IF main[i] = 0 THEN Inserted(list[k], acts + 1, i) ELSE list[k]
                ELSE IF k = "event" \/ k \in Lineage(o)
                THEN Appended(list[k], acts + 1) ELSE list[k]]
    BY DEF Adding, Activate
  <2>2. l \in DOMAIN list
    BY DEF Base, ListT
  <2>3. l = "event" \/ l \in Lineage(o)
    BY DEF Gets
  <2> QED BY <2>1, <2>2, <2>3
<1>2. pred \in Members(l) \cup {Root} /\ list[l].next[pred] = NULL
  BY DEF Base, ListsInv, LinkedBy
<1>3. Members(l) \subseteq live /\ acts + 1 \notin live /\ acts + 1 \in Act /\ acts \in Nat
  BY AddFacts DEF Members
<1>4. pred # acts + 1 /\ MaxAct \in Nat /\ list[l] \in ListType
  BY <1>2, <1>3, ConstantsAssumption DEF Act, Root, Base, ListT
<1>5. list'[l] = LinkedAt(list[l], acts + 1, pred, list[l].next[pred])
  BY <1>1, <1>2, <1>3, <1>4, AppendedIs
<1>6. Key(l)'[acts + 1] = acts + 1
  BY AddMembers
<1>7. Key(l)'[pred] = Key(l)[pred]
  BY <1>2, <1>3, AddMembers
<1>8. Key(l)[pred] \in 0..acts
  <2>1. CASE pred = Root
    BY <1>3, <2>1, KeyFacts
  <2>2. CASE pred \in live
    BY <1>3, <2>2, KeyFacts, LiveFacts
  <2> QED BY <1>2, <1>3, <2>1, <2>2
<1>9. Key(l)'[pred] < Key(l)'[acts + 1]
  BY <1>3, <1>6, <1>7, <1>8
<1> HIDE DEF pred
<1> QED BY <1>2, <1>5, <1>9, LinkingOf

\* instance_list: between the ids next to i.
LEMMA GrowsMain ==
  ASSUME Base, NEW p, NEW i, NEW o, Adding(p, i, o)
  PROVE  Grows("main")
<1> DEFINE below == {j \in Id : j < i /\ main[j] # 0}
           above == {j \in Id : j > i /\ main[j] # 0}
           lo == CHOOSE j \in below : \A k \in below : k <= j
           hi == CHOOSE j \in above : \A k \in above : j <= k
           pred == IF below = {} THEN Root ELSE main[lo]
           succ == IF above = {} THEN NULL ELSE main[hi]
           L == list["main"]
           K == Key("main")
<1>0. /\ main[i] = 0 /\ i \in Id /\ MaxInst \in Nat /\ "main" \in ListName
      /\ L \in ListType
  BY ConstantsAssumption DEF Adding, ListName, Base, ListT
<1>1. list'["main"] = Inserted(L, acts + 1, i)
  <2>1. list' = [k \in DOMAIN list |->
                IF k = "main"
                THEN IF main[i] = 0 THEN Inserted(list[k], acts + 1, i) ELSE list[k]
                ELSE IF k = "event" \/ k \in Lineage(o)
                THEN Appended(list[k], acts + 1) ELSE list[k]]
    BY DEF Adding, Activate
  <2>2. "main" \in DOMAIN list
    BY <1>0 DEF Base, ListT
  <2> QED BY <1>0, <2>1, <2>2
<1>2. Inserted(L, acts + 1, i) = LinkedAt(L, acts + 1, pred, succ)
  BY DEF Inserted, LinkedAt
<1>3. below # {} => lo \in below /\ \A k \in below : k <= lo
  <2> SUFFICES ASSUME below # {} PROVE \E j \in below : \A k \in below : k <= j
    BY Zenon
  <2>1. below \subseteq 1..MaxInst
    BY DEF Id
  <2> HIDE DEF below
  <2> QED BY <1>0, <2>1, GreatestOf
<1>4. above # {} => hi \in above /\ \A k \in above : hi <= k
  <2> SUFFICES ASSUME above # {} PROVE \E j \in above : \A k \in above : j <= k
    BY Zenon
  <2>1. above \subseteq Nat
    BY <1>0 DEF Id
  <2> HIDE DEF above
  <2> QED BY <2>1, LeastOf
<1>5. below # {} => lo \in Id /\ lo < i /\ main[lo] # 0
  BY <1>3
<1>6. above # {} => hi \in Id /\ hi > i /\ main[hi] # 0
  BY <1>4
<1>7. \A j \in Id : main[j] # 0 => j <= i - 1 \/ j >= i + 1
  BY <1>0 DEF Id
<1>8. \A j \in Id : main[j] # 0 /\ j < i => below # {} /\ j <= lo
  BY <1>3
<1>9. \A j \in Id : main[j] # 0 /\ j > i => above # {} /\ hi <= j
  BY <1>4
<1>10. Inserted(L, acts + 1, i) = LinkedAt(L, acts + 1, pred, succ) /\ Members("main") = live
  <2>1. "main" \notin Obj
    BY ConstantsAssumption
  <2> QED BY <1>2, <2>1 DEF Members
<1> HIDE DEF below, above, lo, hi
<1>11. \A j \in Id : main[j] # 0 => main[j] \in live /\ K[main[j]] = j
  BY KeyFacts DEF Base, NodesInv
<1>12. \A x \in live : K[x] \in Id /\ main[K[x]] = x /\ x # 0
  BY KeyFacts, LiveFacts DEF Act
<1>13. K[Root] = 0
  BY KeyFacts
<1>14. LinkedBy(L, live, K)
  BY <1>0, <1>10 DEF Base, ListsInv
<1>15. pred \in live \cup {Root} /\ K[pred] < i /\ (below # {} => K[pred] = lo)
  <2>1. CASE below = {}
    BY <1>0, <1>13, <2>1 DEF Id
  <2>2. CASE below # {}
    BY <1>5, <1>11, <2>2
  <2> QED BY <2>1, <2>2
<1>16. succ # NULL => succ \in live /\ K[succ] > i /\ above # {} /\ K[succ] = hi
  BY <1>6, <1>11
<1>17. \A x \in live : K[x] < i => below # {} /\ K[x] <= K[pred]
  BY <1>8, <1>12, <1>15
<1>18. \A x \in live : K[x] > i => above # {} /\ hi <= K[x]
  BY <1>9, <1>12
<1>19. \A x \in live : K[x] < i \/ K[x] > i
  BY <1>0, <1>7, <1>12 DEF Id
<1>20. \A x \in live : K[x] \in Int /\ K[pred] \in Int /\ i \in Int
  BY <1>0, <1>12, <1>13, <1>15 DEF Id
<1>21. above # {} => succ \in live /\ succ # NULL /\ K[succ] = hi
  BY <1>6, <1>11, <1>12, LiveFacts DEF Act, NULL
<1> HIDE DEF pred, L, K
<1>22. L.next[pred] = succ
  <2>1. CASE L.next[pred] = NULL
    <3>1. \A y \in live : K[y] <= K[pred]
      BY <1>14, <1>15, <2>1 DEF LinkedBy
    <3>2. above = {}
      BY <1>15, <1>16, <1>20, <1>21, <3>1
    <3> QED BY <2>1, <3>2
  <2>2. CASE L.next[pred] # NULL
    <3>1. /\ L.next[pred] \in live /\ K[pred] < K[L.next[pred]]
          /\ \A y \in live : ~(K[pred] < K[y] /\ K[y] < K[L.next[pred]])
      BY <1>14, <1>15, <2>2 DEF LinkedBy
    <3>2. PICK z \in live : z = L.next[pred]
      BY <3>1
    <3>3. K[z] > i
      BY <1>17, <1>19, <1>20, <3>1, <3>2
    <3>4. above # {} /\ hi <= K[z]
      BY <1>18, <3>3
    <3>5. succ \in live /\ K[succ] = hi /\ K[succ] > i
      BY <1>16, <1>21, <3>4
    <3>6. K[succ] = K[z]
      BY <1>15, <1>20, <3>1, <3>2, <3>4, <3>5
    <3>7. succ = z
      BY <1>12, <3>5, <3>6
    <3> QED BY <3>2, <3>7
  <2> QED BY <2>1, <2>2
<1> HIDE DEF succ
<1>23. Key("main")'[acts + 1] = i
  BY <1>0, AddMembers
<1>24. \A x \in live \cup {Root} : Key("main")'[x] = K[x]
  BY <1>0, AddMembers DEF K
<1>25. Key("main")'[pred] < Key("main")'[acts + 1]
  BY <1>15, <1>23, <1>24
<1>26. L.next[pred] # NULL => Key("main")'[acts + 1] < Key("main")'[L.next[pred]]
  BY <1>16, <1>22, <1>23, <1>24, <1>20
<1>27. list'["main"] = LinkedAt(L, acts + 1, pred, L.next[pred])
  BY <1>1, <1>10, <1>22
<1> QED BY <1>0, <1>10, <1>15, <1>25, <1>26, <1>27, LinkingOf DEF L

\* Every list gets the node, or stays as it is.
LEMMA AddLists ==
  ASSUME Base, NEW p, NEW i, NEW o, Adding(p, i, o), NEW l \in ListName
  PROVE  IF Gets(l, o) THEN Grows(l) ELSE list'[l] = list[l]
<1>1. CASE Gets(l, o)
  BY <1>1, GrowsLast, GrowsMain
<1>2. CASE ~Gets(l, o)
  <2>1. list' = [k \in DOMAIN list |->
                IF k = "main"
                THEN IF main[i] = 0 THEN Inserted(list[k], acts + 1, i) ELSE list[k]
                ELSE IF k = "event" \/ k \in Lineage(o)
                THEN Appended(list[k], acts + 1) ELSE list[k]]
    BY DEF Adding, Activate
  <2>2. l \in DOMAIN list
    BY DEF Base, ListT
  <2> QED BY <1>2, <2>1, <2>2 DEF Gets
<1> QED BY <1>1, <1>2

\* What a list that grows keeps.
LEMMA GrowsFacts ==
  ASSUME Base, NEW l, Grows(l)
  PROVE  /\ list'[l] \in ListType /\ LinkedBy(list'[l], Members(l) \cup {acts + 1}, Key(l)')
         /\ list'[l].next[acts + 1] \in Members(l) \cup {NULL}
         /\ \A x \in 0..MaxAct :
              \/ list'[l].next[x] = list[l].next[x]
              \/ x = acts + 1
              \/ x \in Members(l) \cup {Root} /\ list'[l].next[x] = acts + 1
<1>1. PICK pred : Linking(list[l], Members(l), Key(l)', acts + 1, pred, list'[l])
  BY DEF Grows
<1>2. LinkDone(list[l], Members(l), Key(l)', acts + 1, pred, list'[l])
  BY <1>1, LinkAt
<1>3. pred \in Members(l) \cup {Root} /\ LinkedBy(list[l], Members(l), Key(l)')
  BY <1>1 DEF Linking
<1>4. list[l].next[pred] \in Members(l) \cup {NULL}
  BY <1>3 DEF LinkedBy
<1> QED BY <1>2, <1>3, <1>4 DEF LinkDone

\* After activate() every list is what it should be.
LEMMA AddLinked ==
  ASSUME Base, NEW p, NEW i, NEW o, Adding(p, i, o), NEW l \in ListName
  PROVE  /\ list'[l] \in ListType /\ LinkedBy(list'[l], Members(l)', Key(l)')
         /\ \A x \in 0..MaxAct :
              \/ list'[l].next[x] = list[l].next[x]
              \/ Gets(l, o) /\ x = acts + 1 /\ list'[l].next[x] \in live \cup {NULL}
              \/ x \in Members(l) \cup {Root} /\ list'[l].next[x] = acts + 1
<1>0. Members(l) \subseteq live
  BY DEF Members
<1>1. CASE Gets(l, o)
  <2>1. Grows(l)
    BY <1>1, AddLists
  <2>2. Members(l)' = Members(l) \cup {acts + 1}
    BY <1>1, AddMembers
  <2> QED BY <1>0, <1>1, <2>1, <2>2, GrowsFacts
<1>2. CASE ~Gets(l, o)
  <2>1. list'[l] = list[l] /\ Members(l)' = Members(l)
    BY <1>2, AddLists, AddMembers
  <2>2. LinkedBy(list[l], Members(l), Key(l)) /\ list[l] \in ListType
    BY DEF Base, ListsInv, ListT
  <2>3. LinkedBy(list[l], Members(l), Key(l)')
    BY <1>0, <2>2, AddOrdered
  <2> QED BY <2>1, <2>2, <2>3
<1> QED BY <1>1, <1>2

\* After activate() instances and nodes name each other.
LEMMA AddNodes ==
  ASSUME Base, NEW p, NEW i, NEW o, Adding(p, i, o)
  PROVE  NodesInv'
<1>a. PICK a : a = acts + 1
  OBVIOUS
<1>0. /\ a \in Act /\ acts' = a /\ a \notin 1..acts /\ acts \in Nat /\ a # 0
      /\ live' = live \cup {a} /\ a \notin live
      /\ \A q \in Inst : node'[q] = IF q = p THEN a ELSE node[q]
      /\ \A n \in Act : who'[n] = IF n = a THEN p ELSE who[n]
      /\ \A j \in Id : main'[j] = IF j = i THEN a ELSE main[j]
      /\ 1..acts' = (1..acts) \cup {a}
  BY <1>a, AddFacts
<1>1. /\ main[i] = 0 /\ ~Active(p) /\ p \in Inst /\ i \in Id /\ o \in Obj
      /\ insts' \in {insts, insts + 1} /\ p \in 1..insts' /\ insts \in Nat
      /\ insts' # insts => p = insts'
      /\ id'[p] = i /\ obj'[p] = o
      /\ \A q \in 1..insts : id'[q] = id[q] /\ obj'[q] = obj[q]
      /\ maxid' \in maxid..MaxInst + 1 /\ i < maxid' /\ maxid \in Nat /\ MaxInst \in Nat
  BY ConstantsAssumption DEF Adding, Base, NumT
<1>2. \A n \in 1..acts : n \in Act /\ n # a /\ who'[n] = who[n] /\ who[n] \in 1..insts
                         /\ id'[who[n]] = id[who[n]]
  BY <1>0, AddOld
<1>3. \A n \in live : n # a /\ n \in 1..acts
  BY <1>0, LiveFacts
<1>4. \A n \in 1..acts' : who'[n] \in 1..insts'
  BY <1>0, <1>1, <1>2
<1>5. ASSUME NEW n \in live' PROVE node'[who'[n]] = n /\ main'[id'[who'[n]]] = n
  <2>1. CASE n = a
    BY <1>0, <1>1, <2>1
  <2>2. CASE n # a
    <3>1. n \in live /\ n \in 1..acts
      BY <1>0, <1>3, <2>2
    <3>2. /\ who[n] \in Inst /\ id[who[n]] \in Id /\ Active(who[n])
          /\ node[who[n]] = n /\ main[id[who[n]]] = n /\ n \in Act
      BY <3>1, LiveFacts
    <3>3. who[n] # p /\ id[who[n]] # i
      BY <1>1, <3>2 DEF Act
    <3> QED BY <1>0, <1>2, <3>1, <3>2, <3>3
  <2> QED BY <2>1, <2>2
<1>6. ASSUME NEW j \in Id, main'[j] # 0 PROVE main'[j] \in live' /\ id'[who'[main'[j]]] = j
  <2>1. CASE j = i
    BY <1>0, <1>1, <2>1
  <2>2. CASE j # i
    <3>1. main'[j] = main[j] /\ main[j] \in live /\ id[who[main[j]]] = j
      BY <1>0, <1>6, <2>2 DEF Base, NodesInv
    <3> QED BY <1>0, <1>2, <1>3, <3>1
  <2> QED BY <2>1, <2>2
<1>7. ASSUME NEW q \in Inst, node'[q] # 0
      PROVE  q <= insts' /\ node'[q] \in 1..acts' /\ who'[node'[q]] = q
  <2>1. CASE q = p
    BY <1>0, <1>1, <2>1
  <2>2. CASE q # p
    <3>1. node'[q] = node[q] /\ q <= insts /\ node[q] \in 1..acts /\ who[node[q]] = q
      BY <1>0, <1>7, <2>2 DEF Base, NodesInv
    <3> QED BY <1>0, <1>1, <1>2, <3>1 DEF Inst
  <2> QED BY <2>1, <2>2
<1>8. ASSUME NEW q \in 1..insts' PROVE id'[q] \in 1..maxid' - 1 /\ obj'[q] \in Obj
  <2>1. CASE q = p
    BY <1>1, <2>1 DEF Id
  <2>2. CASE q # p
    <3>1. q \in 1..insts
      BY <1>1, <2>2
    <3>2. id[q] \in 1..maxid - 1 /\ obj[q] \in Obj
      BY <3>1 DEF Base, NodesInv
    <3> QED BY <1>1, <3>1, <3>2
  <2> QED BY <2>1, <2>2
<1> QED BY <1>4, <1>5, <1>6, <1>7, <1>8 DEF NodesInv

\* activate() preserves all that is said of the lists.
LEMMA AddBase ==
  ASSUME Base, NEW p, NEW i, NEW o, Adding(p, i, o)
  PROVE  Base'
<1>1. NumT' /\ NodeT' /\ InstT' /\ MapT'
  BY AddFacts DEF Adding, InstT, MapT
<1>2. \A l \in ListName : list'[l] \in ListType
  BY AddLinked
<1>3. ListT'
  <2>1. list' = [k \in DOMAIN list |->
                IF k = "main"
                THEN IF main[i] = 0 THEN Inserted(list[k], acts + 1, i) ELSE list[k]
                ELSE IF k = "event" \/ k \in Lineage(o)
                THEN Appended(list[k], acts + 1) ELSE list[k]]
    BY DEF Adding, Activate
  <2>2. DOMAIN list = ListName
    BY DEF Base, ListT
  <2>3. DOMAIN list' = ListName /\ list' = [k \in ListName |-> list'[k]]
    BY <2>1, <2>2
  <2> QED BY <1>2, <2>3 DEF ListT
<1>4. ListsInv'
  BY AddLinked DEF ListsInv
<1>5. FreshInv'
  <2> SUFFICES ASSUME NEW l \in ListName, NEW x \in Act, x \notin Belongs(l)'
               PROVE  list'[l].next[x] = NULL
    BY DEF FreshInv
  <2>a. PICK a : a = acts + 1
    OBVIOUS
  <2>1. /\ acts' = a /\ 1..acts' = (1..acts) \cup {a} /\ a \notin 1..acts
        /\ who'[a] = p /\ obj'[p] = o
    BY <2>a, AddFacts DEF Adding
  <2>2. x # a => x \notin Belongs(l)
    BY <2>1, AddOld DEF Belongs
  <2>3. x = a => ~Gets(l, o)
    <3>1. l \in Obj <=> l \notin {"event", "main"}
      BY ConstantsAssumption DEF ListName
    <3> QED BY <2>1, <3>1 DEF Belongs, IsA, Gets
  <2>4. x \notin Belongs(l) /\ x \in 0..MaxAct /\ x # Root
    BY <2>1, <2>2, ConstantsAssumption DEF Belongs, Act, Root
  <2>5. x \notin Members(l) \cup {Root}
    BY <2>4, LiveFacts DEF Members, Belongs
  <2>6. list[l].next[x] = NULL
    BY <2>4 DEF Base, FreshInv
  <2> QED BY <2>a, <2>3, <2>4, <2>5, <2>6, AddLinked
<1>6. NodesInv'
  BY AddNodes
<1> QED BY <1>1, <1>3, <1>4, <1>5, <1>6 DEF Base

-----------------------------------------------------------------------------
(* Unlinking an instance.                                                  *)

Removing(p) ==
  /\ Deactivate(p) /\ p \in Inst /\ Active(p)
  /\ UNCHANGED instVars
  /\ deact' \in [Id -> 0..MaxInst]

\* The list loses the node.
Shrinks(l, p) ==
  Unlinking(list[l], Members(l), Key(l), node[p], Registered(l), list'[l])

\* What deactivate() does to each variable.
LEMMA RemoveFacts ==
  ASSUME Base, NEW p, Removing(p)
  PROVE  /\ node[p] \in live /\ who[node[p]] = p /\ main[id[p]] = node[p] /\ id[p] \in Id
         /\ p \in 1..insts /\ obj[p] \in Obj /\ node[p] \in Act
         /\ live' = live \ {node[p]} /\ UNCHANGED <<insts, id, obj, maxid, acts, node, who>>
         /\ main' = [main EXCEPT ![id[p]] = 0]
         /\ count' = [k \in Obj |-> IF IsA(p, k) THEN count[k] - 1 ELSE count[k]]
<1>1. node[p] \in live /\ p \in Inst
  BY DEF Removing, Active
<1>2. node[p] \in 1..acts /\ node[p] # 0
  BY <1>1, LiveFacts
<1>3. who[node[p]] = p /\ p <= insts
  BY <1>1, <1>2 DEF Base, NodesInv
<1>4. /\ main[id[p]] = node[p] /\ id[p] \in Id /\ p \in 1..insts /\ obj[p] \in Obj /\ node[p] \in Act
  BY <1>1, <1>3, LiveFacts
<1> QED BY <1>1, <1>3, <1>4 DEF Removing, Deactivate, instVars

\* It takes one node away, from the lists of the object.
LEMMA RemoveLists ==
  ASSUME Base, NEW p, Removing(p), NEW l \in ListName
  PROVE  /\ Members(l)' = Members(l) \ {node[p]}
         /\ Key(l)' = Key(l)
         /\ IF l \in ListsOf(p) THEN Shrinks(l, p)
            ELSE list'[l] = list[l] /\ Members(l)' = Members(l)
<1>w. PICK w : w = node[p]
  OBVIOUS
<1>0. /\ w \in live /\ who[w] = p /\ main[id[p]] = w /\ p \in 1..insts
      /\ live' = live \ {w} /\ UNCHANGED <<insts, id, obj, maxid, acts, node, who>>
  BY <1>w, RemoveFacts
<1>1. \A n \in live : IsA(who[n], l)' <=> IsA(who[n], l)
  BY <1>0 DEF IsA
<1>2. Members(l)' = Members(l) \ {w}
  <2>1. Members(l)' = {n \in live \ {w} : (l \in Obj => IsA(who[n], l))'}
    BY <1>0 DEF Members
  <2>2. \A n \in live \ {w} : (l \in Obj => IsA(who[n], l))' <=> n \in Members(l)
    BY <1>1 DEF Members
  <2>3. Members(l) \subseteq live
    BY DEF Members
  <2> QED BY <2>1, <2>2, <2>3, Zenon
<1>3. Key(l)' = Key(l)
  BY <1>0 DEF Key
<1>4. w \in Members(l) <=> l \in ListsOf(p)
  <2>1. l \in Obj <=> l \notin {"event", "main"}
    BY ConstantsAssumption DEF ListName
  <2>2. CASE l \in Obj
    BY <1>0, <2>1, <2>2 DEF Members, ListsOf, IsA
  <2>3. CASE l \notin Obj
    BY <1>0, <2>1, <2>3 DEF Members, ListsOf
  <2> QED BY <2>2, <2>3
<1>5. list'[l] = IF l \in ListsOf(p) THEN Unlinked(l, w) ELSE list[l]
  <2>1. list' = [k \in DOMAIN list |->
                IF k = "main" THEN Unlinked(k, main[id[p]])
                ELSE IF k \in ListsOf(p) THEN Unlinked(k, node[p]) ELSE list[k]]
    BY DEF Removing, Deactivate
  <2>2. l \in DOMAIN list
    BY DEF Base, ListT
  <2>3. "main" \in ListsOf(p)
    BY DEF ListsOf
  <2> QED BY <1>w, <1>0, <2>1, <2>2, <2>3
<1>6. CASE l \in ListsOf(p)
  <2>1. list'[l] = UnlinkedFrom(list[l], w, Registered(l))
    BY <1>5, <1>6 DEF Unlinked, UnlinkedFrom
  <2>2. /\ MaxAct \in Nat /\ list[l] \in ListType /\ Members(l) \subseteq Act /\ w \in Members(l)
        /\ Ordered(Key(l), Members(l)) /\ LinkedBy(list[l], Members(l), Key(l))
    BY <1>4, <1>6, KeyFacts, ConstantsAssumption DEF Base, ListT, ListsInv, Ordered
  <2>3. Shrinks(l, p)
    BY <1>w, <2>1, <2>2 DEF Shrinks, Unlinking
  <2> QED BY <1>w, <1>2, <1>3, <1>6, <2>3
<1>7. CASE l \notin ListsOf(p)
  BY <1>w, <1>2, <1>3, <1>4, <1>5, <1>7
<1> QED BY <1>6, <1>7

\* After deactivate() every list is what it should be.
LEMMA RemoveLinked ==
  ASSUME Base, NEW p, Removing(p), NEW l \in ListName
  PROVE  /\ list'[l] \in ListType /\ LinkedBy(list'[l], Members(l)', Key(l)')
         /\ \A x \in 0..MaxAct :
              \/ list'[l].next[x] = list[l].next[x]
              \/ /\ list'[l].next[x] \in live' \cup {NULL}
                 /\ x \in Members(l) \cup {Root} \/ list[l].next[x] # NULL
<1>1. CASE l \in ListsOf(p)
  <2>1. UnlinkDone(list[l], Members(l), Key(l), node[p], Registered(l), list'[l])
    BY <1>1, RemoveLists, UnlinkAt DEF Shrinks
  <2>2. Members(l)' = Members(l) \ {node[p]} /\ Key(l)' = Key(l) /\ Members(l) \subseteq live
    BY RemoveLists DEF Members
  <2>3. live' = live \ {node[p]} /\ node[p] # NULL
    BY RemoveFacts DEF Act, NULL
  <2> QED BY <2>1, <2>2, <2>3 DEF UnlinkDone
<1>2. CASE l \notin ListsOf(p)
  <2>1. list'[l] = list[l] /\ Members(l)' = Members(l) /\ Key(l)' = Key(l)
    BY <1>2, RemoveLists
  <2> QED BY <2>1 DEF Base, ListsInv, ListT
<1> QED BY <1>1, <1>2

\* deactivate() preserves all that is said of the lists.
LEMMA RemoveBase ==
  ASSUME Base, NEW p, Removing(p)
  PROVE  Base'
<1>0. /\ node[p] \in live /\ who[node[p]] = p /\ main[id[p]] = node[p] /\ id[p] \in Id
      /\ live' = live \ {node[p]} /\ UNCHANGED <<insts, id, obj, maxid, acts, node, who>>
      /\ main' = [main EXCEPT ![id[p]] = 0]
  BY RemoveFacts
<1>1. NumT' /\ InstT' /\ NodeT'
  BY <1>0 DEF Base, NumT, InstT, NodeT
<1>2. MapT'
  <2>1. main \in [Id -> 0..MaxAct] /\ 0 \in 0..MaxAct
    BY ConstantsAssumption DEF Base, MapT
  <2>2. main' \in [Id -> 0..MaxAct]
    BY <1>0, <2>1
  <2> QED BY <2>2 DEF MapT, Removing
<1>3. ListT'
  <2>1. list' = [k \in DOMAIN list |->
                IF k = "main" THEN Unlinked(k, main[id[p]])
                ELSE IF k \in ListsOf(p) THEN Unlinked(k, node[p]) ELSE list[k]]
    BY DEF Removing, Deactivate
  <2>2. DOMAIN list = ListName
    BY DEF Base, ListT
  <2>3. DOMAIN list' = ListName /\ list' = [k \in ListName |-> list'[k]]
    BY <2>1, <2>2
  <2>4. \A l \in ListName : list'[l] \in ListType
    BY RemoveLinked
  <2> QED BY <2>3, <2>4 DEF ListT
<1>4. ListsInv'
  BY RemoveLinked DEF ListsInv
<1>5. FreshInv'
  <2>0. \A l : Belongs(l)' = Belongs(l)
    BY <1>0 DEF Belongs, IsA
  <2> SUFFICES ASSUME NEW l \in ListName, NEW x \in Act \ Belongs(l)
               PROVE  list'[l].next[x] = NULL
    BY <2>0 DEF FreshInv
  <2>1. x \in 0..MaxAct /\ x # Root
    BY ConstantsAssumption DEF Act, Root
  <2>2. x \in 0..MaxAct /\ x \notin Members(l) \cup {Root}
    BY <2>1, LiveFacts DEF Members, Belongs
  <2>3. list[l].next[x] = NULL
    BY DEF Base, FreshInv
  <2> QED BY <2>2, <2>3, RemoveLinked
<1>6. NodesInv'
  <2>1. \A j \in Id : main'[j] = IF j = id[p] THEN 0 ELSE main[j]
    BY <1>0 DEF Base, MapT
  <2>2. ASSUME NEW n \in live' PROVE node[who[n]] = n /\ main'[id[who[n]]] = n
    <3>1. n \in live /\ n # node[p]
      BY <1>0
    <3>2. node[who[n]] = n /\ main[id[who[n]]] = n /\ id[who[n]] \in Id
      BY <3>1, LiveFacts
    <3> QED BY <1>0, <2>1, <3>1, <3>2
  <2>3. ASSUME NEW j \in Id, main'[j] # 0 PROVE main'[j] \in live' /\ id[who[main'[j]]] = j
    <3>1. j # id[p] /\ main'[j] = main[j]
      BY <2>1, <2>3
    <3>2. main[j] \in live /\ id[who[main[j]]] = j
      BY <2>3, <3>1 DEF Base, NodesInv
    <3> QED BY <1>0, <3>1, <3>2
  <2> QED BY <1>0, <2>2, <2>3 DEF Base, NodesInv
<1> QED BY <1>1, <1>2, <1>3, <1>4, <1>5, <1>6 DEF Base

-----------------------------------------------------------------------------
(* The invariant: instances, ids and counts.                               *)

\* Nothing is destroyed or deleted that was not constructed.
CleanInv == cleanups \subseteq 1..insts /\ freed \subseteq 1..insts

CountInv == \A o \in Obj : count[o] = Cardinality(Members(o))

\* The instances of the room are loaded before anything else happens.
LoadInv ==
  insts < Len(RoomInsts) => /\ stack = <<>> /\ maxid = Len(RoomInsts) + 1
                            /\ \A p \in 1..insts : id[p] <= insts

-----------------------------------------------------------------------------
(* The invariant: the nodes a pass meets.                                  *)

\* The nodes linked at the start of the event pass, and those linked since:
\* what the calls in progress can stand on.
Seen == pass.start \cup (pass.bound + 1..acts)
SeenInv ==
  /\ pass.start \subseteq 1..acts /\ pass.bound \in 0..acts
  /\ stack # <<>> =>
       /\ live \subseteq Seen
       /\ \A x \in Seen : who[x] \notin freed
       /\ \A l \in ListName, x \in Seen : list[l].next[x] \in Seen \cup {NULL}

-----------------------------------------------------------------------------
(* The invariant: the calls in progress.                                   *)

Present == (1..insts) \ freed

\* A registered iterator leads back to the list, linked or not.
RegOK(f) ==
  /\ f.list \in ListName /\ f.reg \in Seen
  /\ list[f.list].next[f.reg] \in Members(f.list) \cup {NULL}
WalkOK(f) ==
  /\ f.list \in Obj \cup {"main", "temp"}
  /\ f.reg # NULL => IF f.list = "temp" THEN f.reg = Root /\ f.self \in Present
                     ELSE RegOK(f)

\* What the list held at the call, and still holds, is ahead.
Ahead(f) ==
  /\ f.list = "temp" => f.seen = {}
  /\ f.list # "temp" =>
       \A n \in f.seen : /\ n \in 1..acts /\ (f.list \in Obj => IsA(who[n], f.list))
                         /\ n \in live => f.reg # NULL /\ Reaches(list[f.list], Key(f.list), f.reg, n)

FrameOK(f) ==
  /\ f.op = "code" => f.list = "temp" /\ f.reg = NULL /\ f.self \in Present
  /\ f.op = "loop" => f.list = "event" /\ f.reg = NULL /\ f.cur \in Seen
  /\ f.op = "with" => WalkOK(f) /\ f.reg # NULL /\ (f.list # "temp" => f.cur \in Seen)
  /\ f.op = "destroy" => WalkOK(f) /\ Ahead(f)
  /\ f.op = "unlink" => WalkOK(f) /\ f.reg # NULL /\ Ahead(f)
  /\ f.op = "deactivate" =>
       /\ WalkOK(f)
       /\ f.reg # NULL => IF f.list = "temp" THEN Active(f.self) ELSE f.reg \in Members(f.list)
  /\ f.op = "activate" => f.list = "temp" /\ f.reg = NULL
                          /\ f.seen \subseteq Id /\ \A i \in f.seen : deact[i] # 0
  /\ f.op = "change" => f.list \in Obj /\ f.reg = NULL /\ f.self \in 1..maxid - 1

PlaceOK(d) ==
  /\ stack[d].op = "loop" <=> d = Len(stack)
  /\ stack[d].op \in {"activate", "deactivate"} => d = 1
StackInv == \A d \in 1..Len(stack) : FrameOK(stack[d]) /\ PlaceOK(d)

\* Ids name one instance each, and every instance is accounted for.
Accounts == OneInstancePerId /\ Accounted

Inv == /\ Base /\ CountInv /\ Accounts /\ CleanInv /\ LoadInv
       /\ SeenInv /\ StackInv
       /\ CountT /\ SetT /\ StackT

-----------------------------------------------------------------------------
(* What the calls in progress rely on survives the steps of others.        *)

\* What a pass can meet are nodes of instances.
LEMMA SeenFacts ==
  ASSUME Base, SeenInv, NEW x \in Seen
  PROVE  /\ x \in 1..acts /\ x \in Act /\ x \in 0..MaxAct
         /\ who[x] \in 1..insts /\ who[x] \in Inst
<1>1. acts \in 0..MaxAct /\ insts \in 0..MaxInst /\ MaxAct \in Nat /\ MaxInst \in Nat
  BY ConstantsAssumption DEF Base, NumT
<1>2. x \in 1..acts
  BY <1>1 DEF SeenInv, Seen
<1>3. who[x] \in 1..insts
  BY <1>2 DEF Base, NodesInv
<1> QED BY <1>1, <1>2, <1>3 DEF Act, Inst

\* The instances a loop hands to code have not been deleted.
LEMMA SeenPresent ==
  ASSUME Base, SeenInv, stack # <<>>, NEW x \in Seen
  PROVE  who[x] \in Present
  BY SeenFacts DEF SeenInv, Present

\* Walks that meet a new node meet a node of an instance that is not deleted.
LEMMA AddSeen ==
  ASSUME Base, SeenInv, NEW p, NEW i, NEW o, Adding(p, i, o),
         UNCHANGED <<freed, pass>>, p \notin freed, stack # <<>> \/ stack' = <<>>
  PROVE  SeenInv' /\ Seen \subseteq Seen'
<1>a. PICK a : a = acts + 1
  OBVIOUS
<1>0. /\ a \in Act /\ acts' = a /\ a = acts + 1 /\ acts \in Nat /\ live' = live \cup {a}
      /\ \A n \in Act : who'[n] = IF n = a THEN p ELSE who[n]
  BY <1>a, AddFacts
<1>1. pass.start \subseteq 1..acts /\ pass.bound \in 0..acts /\ pass' = pass /\ freed' = freed
  BY DEF SeenInv
<1>2. Seen' = Seen \cup {a}
  BY <1>0, <1>1 DEF Seen
<1>3. pass'.start \subseteq 1..acts' /\ pass'.bound \in 0..acts'
  BY <1>0, <1>1
<1>4. ASSUME stack' # <<>>
      PROVE  /\ live' \subseteq Seen'
             /\ \A x \in Seen' : who'[x] \notin freed'
             /\ \A l \in ListName, x \in Seen' : list'[l].next[x] \in Seen' \cup {NULL}
  <2>0. stack # <<>>
    BY <1>4
  <2>1. live' \subseteq Seen'
    BY <1>0, <1>2, <2>0 DEF SeenInv
  <2>2. \A x \in Seen' : who'[x] \notin freed'
    BY <1>0, <1>1, <1>2, <2>0, SeenFacts DEF SeenInv
  <2>3. ASSUME NEW l \in ListName, NEW x \in Seen'
        PROVE  list'[l].next[x] \in Seen' \cup {NULL}
    <3>1. x \in 0..MaxAct /\ x # Root
      BY <1>0, <1>2, SeenFacts, ConstantsAssumption DEF Act, Root
    <3>2. \/ list'[l].next[x] = list[l].next[x]
          \/ list'[l].next[x] \in live \cup {NULL}
          \/ list'[l].next[x] = a
      BY <1>a, <3>1, AddLinked
    <3>3. list[l].next[x] \in Seen \cup {NULL}
      <4>1. CASE x \in Seen
        BY <2>0, <4>1 DEF SeenInv
      <4>2. CASE x = a
        <5>1. x \in Act \ Belongs(l)
          BY <1>0, <4>2 DEF Belongs
        <5> QED BY <5>1 DEF Base, FreshInv
      <4> QED BY <1>2, <4>1, <4>2
    <3> QED BY <1>2, <2>0, <3>2, <3>3 DEF SeenInv
  <2> QED BY <2>1, <2>2, <2>3
<1> QED BY <1>2, <1>3, <1>4 DEF SeenInv

\* A registered iterator reaches what it reached before, when a node is added.
LEMMA AddReg ==
  ASSUME Base, SeenInv, NEW p, NEW i, NEW o, Adding(p, i, o),
         UNCHANGED <<freed, pass>>, p \notin freed, stack # <<>>,
         NEW f \in FrameT, RegOK(f)
  PROVE  /\ RegOK(f)'
         /\ \A n \in Members(f.list) :
              Reaches(list[f.list], Key(f.list), f.reg, n)
                => Reaches(list'[f.list], Key(f.list)', f.reg, n)
<1>l. PICK l : l = f.list
  OBVIOUS
<1>r. PICK r : r = f.reg
  OBVIOUS
<1>0. l \in ListName /\ r \in Seen /\ list[l].next[r] \in Members(l) \cup {NULL}
  BY <1>l, <1>r DEF RegOK
<1>1. r \in 1..acts /\ r \in Act /\ r # acts + 1 /\ acts \in Nat
  BY <1>0, SeenFacts, AddFacts
<1>2. r \in Seen'
  BY <1>0, AddSeen
<1>3. Members(l) \subseteq live
  BY DEF Members
<1>4. CASE Gets(l, o)
  <2>1. PICK pred : Linking(list[l], Members(l), Key(l)', acts + 1, pred, list'[l])
    BY <1>0, <1>4, AddLists DEF Grows
  <2>2. /\ list'[l].next[r] \in Members(l) \cup {acts + 1} \cup {NULL}
        /\ \A n \in Members(l) : Reaches(list[l], Key(l)', r, n) => Reaches(list'[l], Key(l)', r, n)
    BY <1>0, <1>1, <2>1, ReachLinkAt
  <2>3. Members(l)' = Members(l) \cup {acts + 1}
    BY <1>0, <1>4, AddMembers
  <2>4. \A n \in Members(l) : Reaches(list[l], Key(l), r, n) => Reaches(list[l], Key(l)', r, n)
    BY <1>0, <1>3, AddMembers DEF Reaches
  <2> QED BY <1>l, <1>r, <1>0, <1>2, <2>2, <2>3, <2>4 DEF RegOK
<1>5. CASE ~Gets(l, o)
  <2>1. list'[l] = list[l] /\ Members(l)' = Members(l)
    BY <1>0, <1>5, AddLists, AddMembers
  <2>2. \A n \in Members(l) : Reaches(list[l], Key(l), r, n) => Reaches(list[l], Key(l)', r, n)
    BY <1>0, <1>3, AddMembers DEF Reaches
  <2> QED BY <1>l, <1>r, <1>0, <1>2, <2>1, <2>2 DEF RegOK
<1> QED BY <1>4, <1>5

\* Nobody is deleted by the construction of another.
LEMMA AddPresent ==
  ASSUME Base, NEW p, NEW i, NEW o, Adding(p, i, o), UNCHANGED freed
  PROVE  Present \subseteq Present'
<1>1. insts \in Nat /\ insts' \in {insts, insts + 1}
  BY DEF Adding, Base, NumT
<1>2. 1..insts \subseteq 1..insts'
  BY <1>1
<1> QED BY <1>2 DEF Present

\* A walk goes on when a node is added,
LEMMA AddWalk ==
  ASSUME Base, SeenInv, NEW p, NEW i, NEW o, Adding(p, i, o),
         UNCHANGED <<freed, pass>>, p \notin freed, stack # <<>>,
         NEW f \in FrameT
  PROVE  /\ WalkOK(f) => WalkOK(f)'
         /\ WalkOK(f) /\ Ahead(f) => Ahead(f)'
<1>1. WalkOK(f) => WalkOK(f)'
  BY AddReg, AddPresent DEF WalkOK
<1>2. ASSUME WalkOK(f), Ahead(f) PROVE Ahead(f)'
  <2>1. ASSUME f.list # "temp", NEW n \in f.seen
        PROVE  /\ n \in 1..acts' /\ (f.list \in Obj => IsA(who[n], f.list))'
               /\ n \in live' => f.reg # NULL /\ Reaches(list'[f.list], Key(f.list)', f.reg, n)
    <3>1. /\ n \in 1..acts /\ (f.list \in Obj => IsA(who[n], f.list))
          /\ n \in live => f.reg # NULL /\ Reaches(list[f.list], Key(f.list), f.reg, n)
      BY <1>2, <2>1 DEF Ahead
    <3>2. acts' = acts + 1 /\ acts \in Nat /\ live' = live \cup {acts + 1}
      BY AddFacts
    <3>3. n \in 1..acts' /\ (n \in live' => n \in live)
      BY <3>1, <3>2
    <3>4. (f.list \in Obj => IsA(who[n], f.list))'
      BY <3>1, AddOld
    <3>5. ASSUME n \in live PROVE f.reg # NULL /\ Reaches(list'[f.list], Key(f.list)', f.reg, n)
      <4>1. f.reg # NULL /\ Reaches(list[f.list], Key(f.list), f.reg, n) /\ n \in Members(f.list)
        BY <3>1, <3>5 DEF Members
      <4>2. RegOK(f)
        BY <1>2, <2>1, <4>1 DEF WalkOK
      <4> QED BY <4>1, <4>2, AddReg
    <3> QED BY <3>3, <3>4, <3>5
  <2> QED BY <1>2, <2>1 DEF Ahead
<1> QED BY <1>1, <1>2

\* and so does every call in progress.
LEMMA AddFrame ==
  ASSUME Base, SeenInv, NEW p, NEW i, NEW o, Adding(p, i, o),
         UNCHANGED <<freed, pass>>, p \notin freed, stack # <<>>,
         NEW f \in FrameT, FrameOK(f), f.op = "activate" => UNCHANGED deact
  PROVE  FrameOK(f)'
<1>1. f.op = "code" => f.self \in Present'
  BY AddPresent DEF FrameOK
<1>2. f.cur \in Seen => f.cur \in Seen'
  BY AddSeen
<1>3. f.op = "deactivate" /\ f.reg # NULL
        => IF f.list = "temp" THEN Active(f.self)' ELSE (f.reg \in Members(f.list))'
  <2> SUFFICES ASSUME f.op = "deactivate", f.reg # NULL
               PROVE  IF f.list = "temp" THEN Active(f.self)' ELSE (f.reg \in Members(f.list))'
    OBVIOUS
  <2>1. CASE f.list = "temp"
    <3>1. Active(f.self) /\ f.self \in Present
      BY <2>1 DEF FrameOK, WalkOK
    <3>2. f.self # p /\ f.self \in Inst
      BY <3>1, ConstantsAssumption DEF Adding, Present, Base, NumT, Inst
    <3>3. node'[f.self] = node[f.self] /\ live \subseteq live'
      BY <3>2, AddFacts
    <3> QED BY <2>1, <3>1, <3>3 DEF Active
  <2>2. CASE f.list # "temp"
    <3>1. f.reg \in Members(f.list) /\ f.list \in ListName
      BY <2>2 DEF FrameOK, WalkOK, RegOK
    <3>2. Members(f.list) \subseteq Members(f.list)'
      BY <3>1, AddMembers
    <3> QED BY <2>2, <3>1, <3>2
  <2> QED BY <2>1, <2>2
<1>4. f.op = "activate" => deact' = deact
  OBVIOUS
<1>5. f.op = "change" => f.self \in 1..maxid' - 1
  <2>1. maxid \in Nat /\ MaxInst \in Nat /\ maxid' \in maxid..MaxInst + 1
    BY ConstantsAssumption DEF Adding, Base, NumT
  <2> QED BY <2>1 DEF FrameOK
<1>6. /\ WalkOK(f) => WalkOK(f)'
      /\ WalkOK(f) /\ Ahead(f) => Ahead(f)'
  BY AddWalk
<1> QED BY <1>1, <1>2, <1>3, <1>4, <1>5, <1>6 DEF FrameOK

\* Walks meet no other nodes when one is unlinked.
LEMMA RemoveSeen ==
  ASSUME Base, SeenInv, NEW p, Removing(p), UNCHANGED <<freed, pass>>, stack # <<>>
  PROVE  SeenInv' /\ Seen' = Seen
<1>0. acts' = acts /\ who' = who /\ live' \subseteq live /\ pass' = pass /\ freed' = freed
  BY RemoveFacts
<1>1. Seen' = Seen
  BY <1>0 DEF Seen
<1>2. ASSUME NEW l \in ListName, NEW x \in Seen PROVE list'[l].next[x] \in Seen \cup {NULL}
  <2>1. x \in 0..MaxAct
    BY SeenFacts
  <2>2. list'[l].next[x] = list[l].next[x] \/ list'[l].next[x] \in live' \cup {NULL}
    BY <2>1, RemoveLinked
  <2> QED BY <1>0, <2>2 DEF SeenInv
<1> QED BY <1>0, <1>1, <1>2 DEF SeenInv

\* A registered iterator reaches what it reached before, except what is
\* unlinked.  (update_iterators_for_destroy)
LEMMA RemoveReg ==
  ASSUME Base, SeenInv, NEW p, Removing(p), UNCHANGED <<freed, pass>>, stack # <<>>,
         NEW f \in FrameT, RegOK(f), f.reg \in Registered(f.list)
  PROVE  /\ RegOK(f)'
         /\ \A n \in Members(f.list)' :
              Reaches(list[f.list], Key(f.list), f.reg, n)
                => Reaches(list'[f.list], Key(f.list)', f.reg, n)
<1>l. PICK l : l = f.list
  OBVIOUS
<1>r. PICK r : r = f.reg
  OBVIOUS
<1>0. /\ l \in ListName /\ r \in Seen /\ list[l].next[r] \in Members(l) \cup {NULL}
      /\ r \in Registered(l)
  BY <1>l, <1>r DEF RegOK
<1>1. r \in Act /\ r \in Seen'
  BY <1>0, SeenFacts, RemoveSeen
<1>2. Members(l)' = Members(l) \ {node[p]} /\ Key(l)' = Key(l)
  BY <1>0, RemoveLists
<1>3. CASE l \in ListsOf(p)
  <2>1. Unlinking(list[l], Members(l), Key(l), node[p], Registered(l), list'[l])
    BY <1>0, <1>3, RemoveLists DEF Shrinks
  <2>2. /\ list'[l].next[r] \in (Members(l) \ {node[p]}) \cup {NULL}
        /\ \A n \in Members(l) \ {node[p]} :
             Reaches(list[l], Key(l), r, n) => Reaches(list'[l], Key(l), r, n)
    BY <1>0, <1>1, <2>1, ReachUnlink
  <2> QED BY <1>l, <1>r, <1>0, <1>1, <1>2, <2>2 DEF RegOK
<1>4. CASE l \notin ListsOf(p)
  <2>1. list'[l] = list[l] /\ Members(l)' = Members(l)
    BY <1>0, <1>4, RemoveLists
  <2> QED BY <1>l, <1>r, <1>0, <1>1, <1>2, <2>1 DEF RegOK
<1> QED BY <1>3, <1>4

\* A walk with a registered iterator goes on when a node is unlinked,
LEMMA RemoveWalk ==
  ASSUME Base, SeenInv, NEW p, Removing(p), UNCHANGED <<freed, pass>>, stack # <<>>,
         NEW f \in FrameT, f.list # "temp" /\ f.reg # NULL => f.reg \in Registered(f.list)
  PROVE  /\ WalkOK(f) => WalkOK(f)'
         /\ WalkOK(f) /\ Ahead(f) => Ahead(f)'
<1>1. WalkOK(f) => WalkOK(f)'
  <2>1. Present' = Present
    BY RemoveFacts DEF Present
  <2> QED BY <2>1, RemoveReg DEF WalkOK
<1>2. ASSUME WalkOK(f), Ahead(f) PROVE Ahead(f)'
  <2>0. live' \subseteq live /\ UNCHANGED <<acts, who, obj>>
    BY RemoveFacts
  <2>1. ASSUME f.list # "temp", NEW n \in f.seen
        PROVE  /\ n \in 1..acts' /\ (f.list \in Obj => IsA(who[n], f.list))'
               /\ n \in live' => f.reg # NULL /\ Reaches(list'[f.list], Key(f.list)', f.reg, n)
    <3>1. /\ n \in 1..acts /\ (f.list \in Obj => IsA(who[n], f.list))
          /\ n \in live => f.reg # NULL /\ Reaches(list[f.list], Key(f.list), f.reg, n)
      BY <1>2, <2>1 DEF Ahead
    <3>2. (f.list \in Obj => IsA(who[n], f.list))'
      BY <2>0, <3>1 DEF IsA
    <3>3. ASSUME n \in live' PROVE f.reg # NULL /\ Reaches(list'[f.list], Key(f.list)', f.reg, n)
      <4>1. f.reg # NULL /\ Reaches(list[f.list], Key(f.list), f.reg, n)
        BY <2>0, <3>1, <3>3
      <4>2. n \in Members(f.list)'
        BY <3>2, <3>3 DEF Members
      <4>3. RegOK(f)
        BY <1>2, <2>1, <4>1 DEF WalkOK
      <4> QED BY <2>1, <4>1, <4>2, <4>3, RemoveReg
    <3> QED BY <2>0, <3>1, <3>2, <3>3
  <2> QED BY <1>2, <2>1 DEF Ahead
<1> QED BY <1>1, <1>2

\* and so does every call in progress, but for instance_deactivate_*, which
\* calls no code.
LEMMA RemoveFrame ==
  ASSUME Base, SeenInv, NEW p, Removing(p), UNCHANGED <<freed, pass>>, stack # <<>>,
         NEW f \in FrameT, f.list # "temp" /\ f.reg # NULL => f.reg \in Registered(f.list),
         FrameOK(f), f.op \notin {"activate", "deactivate"}
  PROVE  FrameOK(f)'
<1>1. Present' = Present /\ maxid' = maxid
  BY RemoveFacts DEF Present
<1>2. f.cur \in Seen => f.cur \in Seen'
  BY RemoveSeen
<1>3. /\ WalkOK(f) => WalkOK(f)'
      /\ WalkOK(f) /\ Ahead(f) => Ahead(f)'
  BY RemoveWalk
<1> QED BY <1>1, <1>2, <1>3 DEF FrameOK

\* Calls do not change the data, and code does not change the calls below.
LEMMA SameFrame ==
  ASSUME UNCHANGED <<insts, obj, id, maxid, listVars, freed>>, Seen' = Seen,
         NEW f, FrameOK(f), f.op = "activate" => UNCHANGED deact
  PROVE  FrameOK(f)'
<1>1. Present' = Present /\ Seen' = Seen /\ list' = list /\ maxid' = maxid /\ acts' = acts
      /\ live' = live
  BY DEF Present, listVars
<1>2. \A l : Members(l)' = Members(l) /\ Key(l)' = Key(l)
  BY DEF Members, Key, IsA, listVars
<1>3. RegOK(f) <=> RegOK(f)'
  BY <1>1, <1>2 DEF RegOK
<1>4. WalkOK(f) <=> WalkOK(f)'
  BY <1>1, <1>3 DEF WalkOK
<1>5. \A n : IsA(who[n], f.list)' <=> IsA(who[n], f.list)
  BY DEF IsA, listVars
<1>6. Ahead(f) <=> Ahead(f)'
  BY <1>1, <1>2, <1>5 DEF Ahead
<1>7. Active(f.self)' <=> Active(f.self)
  BY DEF Active, listVars
<1> QED BY <1>1, <1>2, <1>4, <1>6, <1>7 DEF FrameOK

-----------------------------------------------------------------------------
(* Counts.                                                                 *)

\* A list has no more nodes than there are instances.
LEMMA MembersFinite ==
  ASSUME Base, NEW l
  PROVE  IsFiniteSet(Members(l)) /\ Cardinality(Members(l)) \in 0..insts
<1>1. Members(l) \subseteq live
  BY DEF Members
<1> DEFINE f == [n \in Members(l) |-> who[n]]
<1>2. f \in Injection(Members(l), 1..insts)
  <2>1. \A n \in Members(l) : who[n] \in 1..insts /\ node[who[n]] = n
    BY <1>1, LiveFacts
  <2>2. f \in [Members(l) -> 1..insts]
    BY <2>1
  <2>3. \A x, y \in Members(l) : f[x] = f[y] => x = y
    BY <2>1
  <2> HIDE DEF f
  <2> QED BY <2>2, <2>3 DEF Injection, IsInjective
<1>3. IsFiniteSet(1..insts) /\ Cardinality(1..insts) = insts /\ insts \in Nat
  <2>0. insts \in Nat
    BY DEF Base, NumT
  <2>1. IsFiniteSet(1..insts) /\ Cardinality(1..insts) = IF 1 > insts THEN 0 ELSE insts - 1 + 1
    BY <2>0, FS_Interval
  <2> QED BY <2>0, <2>1
<1> HIDE DEF f
<1>4. IsFiniteSet(Members(l)) /\ Cardinality(Members(l)) <= insts
  BY <1>2, <1>3, FS_Injection
<1>5. Cardinality(Members(l)) \in Nat
  BY <1>4, FS_CardinalityType
<1> QED BY <1>3, <1>4, <1>5

\* The instances that live are as many as were constructed, at most.
LEMMA AliveFinite ==
  ASSUME Base
  PROVE  IsFiniteSet(Alive) /\ Cardinality(Alive) \in 0..insts
<1>1. insts \in Nat
  BY DEF Base, NumT
<1>2. IsFiniteSet(1..insts) /\ Cardinality(1..insts) = insts
  <2>1. IsFiniteSet(1..insts) /\ Cardinality(1..insts) = IF 1 > insts THEN 0 ELSE insts - 1 + 1
    BY <1>1, FS_Interval
  <2> QED BY <1>1, <2>1
<1>3. Alive \in SUBSET (1..insts)
  BY DEF Alive
<1>4. IsFiniteSet(Alive) /\ Cardinality(Alive) <= insts
  <2>1. IsFiniteSet(Alive) /\ Cardinality(Alive) <= Cardinality(1..insts)
    BY <1>2, <1>3, FS_Subset
  <2> QED BY <1>2, <2>1
<1> QED BY <1>1, <1>4, FS_CardinalityType

\* What instance_number says follows from what is in the lists.
LEMMA CountTypes ==
  ASSUME Base, CountInv, count = [o \in Obj |-> count[o]], total = Cardinality(Alive)
  PROVE  CountT /\ total \in 0..MaxInst
<1>1. \A o \in Obj : count[o] \in 0..MaxInst
  BY MembersFinite, ConstantsAssumption DEF CountInv, Base, NumT
<1>2. CountT
  BY <1>1 DEF CountT
<1>3. total \in 0..MaxInst
  BY AliveFinite, ConstantsAssumption DEF Base, NumT
<1> QED BY <1>2, <1>3

\* instance_number counts the new instance,  (objectid_base::count)
LEMMA AddCount ==
  ASSUME Base, CountInv, NEW p, NEW i, NEW o, Adding(p, i, o)
  PROVE  CountInv' /\ count' = [k \in Obj |-> count'[k]]
<1>1. count' = [k \in Obj |-> IF k \in Lineage(o) THEN count[k] + 1 ELSE count[k]]
  BY DEF Adding, Activate
<1>2. ASSUME NEW k \in Obj PROVE count'[k] = Cardinality(Members(k)')
  <2>1. Gets(k, o) <=> k \in Lineage(o)
    BY ConstantsAssumption DEF Gets
  <2>2. k \in ListName
    BY DEF ListName
  <2>3. Members(k)' = IF k \in Lineage(o) THEN Members(k) \cup {acts + 1} ELSE Members(k)
    BY <2>1, <2>2, AddMembers
  <2>4. acts + 1 \notin Members(k) /\ IsFiniteSet(Members(k))
    BY AddFacts, MembersFinite DEF Members
  <2>5. Cardinality(Members(k) \cup {acts + 1}) = Cardinality(Members(k)) + 1
    BY <2>4, FS_AddElement
  <2>6. count[k] = Cardinality(Members(k))
    BY DEF CountInv
  <2>7. count'[k] = IF k \in Lineage(o) THEN count[k] + 1 ELSE count[k]
    BY <1>1
  <2> QED BY <2>3, <2>5, <2>6, <2>7
<1> QED BY <1>1, <1>2 DEF CountInv

\* and no longer the one that is unlinked.
LEMMA RemoveCount ==
  ASSUME Base, CountInv, NEW p, Removing(p)
  PROVE  CountInv' /\ count' = [k \in Obj |-> count'[k]]
<1>1. count' = [k \in Obj |-> IF IsA(p, k) THEN count[k] - 1 ELSE count[k]]
  BY DEF Removing, Deactivate
<1>2. ASSUME NEW k \in Obj PROVE count'[k] = Cardinality(Members(k)')
  <2>1. Members(k)' = Members(k) \ {node[p]}
    BY RemoveLists DEF ListName
  <2>2. node[p] \in Members(k) <=> IsA(p, k)
    BY RemoveFacts DEF Members
  <2>3. IsFiniteSet(Members(k))
    BY MembersFinite
  <2>4. Cardinality(Members(k) \ {node[p]})
          = IF node[p] \in Members(k) THEN Cardinality(Members(k)) - 1 ELSE Cardinality(Members(k))
    BY <2>3, FS_RemoveElement
  <2>5. count[k] = Cardinality(Members(k))
    BY DEF CountInv
  <2>6. count'[k] = IF IsA(p, k) THEN count[k] - 1 ELSE count[k]
    BY <1>1
  <2> QED BY <2>1, <2>2, <2>4, <2>5, <2>6
<1> QED BY <1>1, <1>2 DEF CountInv

-----------------------------------------------------------------------------
(* Instances: linked, deactivated, destroyed.                              *)

\* Who is linked is alive, and named by its id.
LEMMA ActiveAlive ==
  ASSUME Base, Accounts, NEW q \in Inst, Active(q)
  PROVE  q \in Alive /\ who[node[q]] = q /\ main[id[q]] = node[q] /\ deact[id[q]] = 0
         /\ node[q] \in live
<1>1. node[q] \in live /\ node[q] # 0
  BY LiveFacts DEF Active, Act
<1>2. q <= insts /\ who[node[q]] = q
  BY <1>1 DEF Base, NodesInv
<1>3. q \in Alive
  BY <1>2 DEF Accounts, Accounted, Alive, Inst
<1>4. id[q] \in Id /\ main[id[q]] = node[q]
  BY <1>1, <1>2, LiveFacts
<1>5. deact[id[q]] = 0
  BY <1>3, <1>4 DEF Accounts, Accounted, OneInstancePerId
<1> QED BY <1>1, <1>2, <1>3, <1>4, <1>5

\* Who is alive was constructed, with an id.
LEMMA AliveFacts ==
  ASSUME Base, NEW q \in Alive
  PROVE  q \in 1..insts /\ q \in Inst /\ q # 0 /\ id[q] \in 1..maxid - 1 /\ id[q] \in Id
<1>1. q \in 1..insts /\ insts \in 0..MaxInst /\ maxid \in 1..MaxInst + 1 /\ MaxInst \in Nat
  BY ConstantsAssumption DEF Alive, Base, NumT
<1>2. id[q] \in 1..maxid - 1
  BY <1>1 DEF Base, NodesInv
<1> QED BY <1>1, <1>2 DEF Inst, Id

\* An id that no instance has is free in both maps.
LEMMA IdFree ==
  ASSUME Base, Accounts, NEW i \in Id, \A q \in Alive : id[q] # i
  PROVE  main[i] = 0 /\ deact[i] = 0
<1>1. deact[i] = 0
  BY DEF Accounts, Accounted
<1>2. ASSUME main[i] # 0 PROVE FALSE
  <2>1. main[i] \in live /\ id[who[main[i]]] = i
    BY <1>2 DEF Base, NodesInv
  <2>2. who[main[i]] \in Inst /\ Active(who[main[i]])
    BY <2>1, LiveFacts
  <2> QED BY <2>1, <2>2, ActiveAlive
<1> QED BY <1>1, <1>2

\* activate() links one instance,
LEMMA AddActive ==
  ASSUME Base, NEW p, NEW i, NEW o, Adding(p, i, o)
  PROVE  Active(p)' /\ \A q \in Inst : q # p => (Active(q)' <=> Active(q))
<1>1. /\ \A q \in Inst : node'[q] = IF q = p THEN acts + 1 ELSE node[q]
      /\ live' = live \cup {acts + 1} /\ acts \in Nat /\ acts + 1 \notin 1..acts
  BY AddFacts
<1>2. \A q \in Inst : node[q] # acts + 1
  BY <1>1 DEF Base, NodesInv
<1>3. p \in Inst
  BY DEF Adding
<1> QED BY <1>1, <1>2, <1>3 DEF Active

\* deactivate() unlinks one.
LEMMA RemoveActive ==
  ASSUME Base, NEW p, Removing(p)
  PROVE  ~Active(p)' /\ \A q \in Inst : q # p => (Active(q)' <=> Active(q))
<1>1. node' = node /\ live' = live \ {node[p]} /\ who[node[p]] = p
  BY RemoveFacts
<1>2. ASSUME NEW q \in Inst, q # p, node[q] \in live PROVE node[q] # node[p]
  <2>1. node[q] # 0
    BY <1>2, LiveFacts DEF Act
  <2>2. who[node[q]] = q
    BY <2>1 DEF Base, NodesInv
  <2> QED BY <1>1, <1>2, <2>2
<1> QED BY <1>1, <1>2 DEF Active

\* A constructor, with an id that no instance has.
LEMMA NewAccounted ==
  ASSUME Base, Accounts, CleanInv, NEW p, NEW i, NEW o, Adding(p, i, o),
         p = insts + 1, insts' = p, total' = total + 1, UNCHANGED <<deact, cleanups, freed>>,
         \A q \in Alive : id[q] # i
  PROVE  Accounts' /\ CleanInv' /\ Alive' = Alive \cup {p}
<1>0. insts \in Nat /\ p \notin 1..insts /\ 1..insts' = (1..insts) \cup {p} /\ p # 0
  BY DEF Base, NumT
<1>1. Alive' = Alive \cup {p} /\ p \notin Alive /\ CleanInv' /\ p \notin cleanups \cup freed
  BY <1>0 DEF Alive, CleanInv
<1>2. /\ \A q \in Alive : id'[q] = id[q] /\ q \in Inst /\ q # p /\ (Active(q)' <=> Active(q))
      /\ id'[p] = i /\ Active(p)'
  BY <1>1, AliveFacts, AddActive DEF Adding
<1>3. OneInstancePerId'
  BY <1>1, <1>2 DEF OneInstancePerId, Accounts, Accounted
<1>4. (total = Cardinality(Alive))'
  BY <1>1, AliveFinite, FS_AddElement DEF Accounts, Accounted
<1>5. \A j \in Id : deact[j] # 0 => deact[j] \in Alive /\ id[deact[j]] = j
  BY DEF Accounts, Accounted
<1>6. ASSUME NEW q \in Alive' PROVE (Active(q) <=> deact[id[q]] # q)'
  <2>1. CASE q = p
    <3>1. deact[i] # p
      BY <1>0, <1>1, <1>5 DEF Adding
    <3> QED BY <1>2, <2>1, <3>1
  <2>2. CASE q # p
    BY <1>1, <1>2, <2>2 DEF Accounts, Accounted
  <2> QED BY <2>1, <2>2
<1>7. ASSUME NEW q \in cleanups \cup freed PROVE ~Active(q)'
  <2>1. q \in Inst /\ q # p /\ ~Active(q)
    BY <1>0, <1>1, ConstantsAssumption DEF CleanInv, Accounts, Accounted, Base, NumT, Inst
  <2> QED BY <2>1, AddActive
<1>8. \A j \in Id : (deact[j] # 0 => deact[j] \in Alive /\ id[deact[j]] = j)'
  BY <1>1, <1>2, <1>5
<1> QED BY <1>1, <1>3, <1>4, <1>6, <1>7, <1>8 DEF Accounts, Accounted

\* activate() of an instance of instance_deactivated_list.
LEMMA WakeAccounted ==
  ASSUME Base, Accounts, CleanInv, NEW p, NEW i, NEW o, Adding(p, i, o),
         deact[i] = p, deact' = [deact EXCEPT ![i] = 0],
         UNCHANGED <<insts, id, obj, total, cleanups, freed>>
  PROVE  Accounts' /\ CleanInv' /\ Alive' = Alive
<1>0. i \in Id /\ p \in Inst /\ p # 0 /\ p \in Alive /\ id[p] = i
  BY ConstantsAssumption DEF Adding, Accounts, Accounted, Inst
<1>1. Alive' = Alive /\ CleanInv'
  BY DEF Alive, CleanInv
<1>2. \A j \in Id : deact'[j] = IF j = i THEN 0 ELSE deact[j]
  BY DEF Base, MapT
<1>3. Active(p)' /\ \A q \in Inst : q # p => (Active(q)' <=> Active(q))
  BY AddActive
<1>4. \A q \in Alive : q \in Inst /\ id[q] \in Id /\ (q # p => id[q] # i)
  BY <1>0, AliveFacts DEF Accounts, Accounted, OneInstancePerId
<1>5. OneInstancePerId' /\ (total = Cardinality(Alive))'
  BY <1>1 DEF OneInstancePerId, Accounts, Accounted
<1>6. ASSUME NEW q \in Alive PROVE Active(q)' <=> deact'[id[q]] # q
  <2>1. CASE q = p
    BY <1>0, <1>2, <1>3, <2>1
  <2>2. CASE q # p
    BY <1>2, <1>3, <1>4, <2>2 DEF Accounts, Accounted
  <2> QED BY <2>1, <2>2
<1>7. ASSUME NEW q \in cleanups \cup freed PROVE ~Active(q)'
  <2>1. q \in Inst /\ q # p /\ ~Active(q)
    BY <1>0, ConstantsAssumption DEF CleanInv, Accounts, Accounted, Base, NumT, Inst, Alive
  <2> QED BY <1>3, <2>1
<1>8. \A j \in Id : deact'[j] # 0 => deact'[j] \in Alive /\ id[deact'[j]] = j
  BY <1>2 DEF Accounts, Accounted
<1> QED BY <1>1, <1>5, <1>6, <1>7, <1>8 DEF Accounts, Accounted

\* unlink() of an instance that is not destroyed.
Ending(p) ==
  Unlink(p) /\ p \in Alive /\ UNCHANGED <<insts, id, obj, maxid, freed>>

\* unlink() unlinks what is linked, and nothing else.
LEMMA EndingCases ==
  ASSUME Base, Accounts, NEW p, Ending(p)
  PROVE  /\ p \in Inst /\ id[p] \in Id /\ deact' \in [Id -> 0..MaxInst]
         /\ \A j \in Id : deact'[j] = IF j = id[p] THEN 0 ELSE deact[j]
         /\ Removing(p) \/ (~Active(p) /\ UNCHANGED listVars)
<1>1. p \in Inst /\ id[p] \in Id /\ p # 0 /\ p \in Alive
  BY AliveFacts DEF Ending
<1>2. deact' = [deact EXCEPT ![id[p]] = 0] /\ deact \in [Id -> 0..MaxInst]
  BY DEF Ending, Unlink, Base, MapT
<1>3. deact' \in [Id -> 0..MaxInst] /\ \A j \in Id : deact'[j] = IF j = id[p] THEN 0 ELSE deact[j]
  BY <1>1, <1>2, ConstantsAssumption
<1>4. CASE deact[id[p]] = 0
  <2>1. Active(p)
    BY <1>1, <1>4 DEF Accounts, Accounted
  <2>2. Deactivate(p) /\ UNCHANGED instVars
    BY <1>4 DEF Ending, Unlink, instVars
  <2> QED BY <1>1, <1>3, <2>1, <2>2 DEF Removing
<1>5. CASE deact[id[p]] # 0
  <2>1. deact[id[p]] = p
    BY <1>1, <1>5 DEF Accounts, Accounted, OneInstancePerId
  <2>2. ~Active(p)
    BY <1>1, <2>1 DEF Accounts, Accounted
  <2> QED BY <1>1, <1>3, <1>5, <2>2 DEF Ending, Unlink
<1> QED BY <1>4, <1>5

\* unlink() takes one instance from those that are alive.
LEMMA EndingAccounted ==
  ASSUME Base, Accounts, CleanInv, NEW p, Ending(p)
  PROVE  Accounts' /\ CleanInv' /\ Alive' = Alive \ {p}
<1>0. /\ p \in Alive /\ cleanups' = cleanups \cup {p} /\ total' = total - 1
      /\ UNCHANGED <<insts, id, obj, freed>>
  BY DEF Ending, Unlink
<1>1. Alive' = Alive \ {p} /\ CleanInv'
  BY <1>0, AliveFacts DEF Alive, CleanInv
<1>2. \A j \in Id : deact'[j] = IF j = id[p] THEN 0 ELSE deact[j]
  BY EndingCases
<1>3. ~Active(p)' /\ \A q \in Inst : q # p => (Active(q)' <=> Active(q))
  <2>1. CASE Removing(p)
    BY <2>1, RemoveActive
  <2>2. CASE ~Active(p) /\ UNCHANGED listVars
    BY <2>2 DEF Active, listVars
  <2> QED BY <2>1, <2>2, EndingCases
<1>4. \A q \in Alive \ {p} : q \in Inst /\ q # p /\ id[q] \in Id /\ id[q] # id[p]
  BY <1>0, AliveFacts DEF Accounts, Accounted, OneInstancePerId
<1>5. OneInstancePerId' /\ (total = Cardinality(Alive))'
  <2>1. OneInstancePerId'
    BY <1>0, <1>1 DEF OneInstancePerId, Accounts, Accounted
  <2>2. Cardinality(Alive \ {p}) = Cardinality(Alive) - 1
    BY <1>0, AliveFinite, FS_RemoveElement
  <2> QED BY <1>0, <1>1, <2>1, <2>2 DEF Accounts, Accounted
<1>6. \A q \in Alive \ {p} : Active(q)' <=> deact'[id[q]] # q
  BY <1>2, <1>3, <1>4 DEF Accounts, Accounted
<1>7. ASSUME NEW q \in cleanups' \cup freed PROVE ~Active(q)'
  <2>1. CASE q = p
    BY <1>3, <2>1
  <2>2. CASE q # p
    <3>1. q \in Inst /\ ~Active(q)
      BY <1>0, <2>2, ConstantsAssumption DEF CleanInv, Accounts, Accounted, Base, NumT, Inst
    <3> QED BY <1>3, <2>2, <3>1
  <2> QED BY <2>1, <2>2
<1>8. \A j \in Id : deact'[j] # 0 => deact'[j] \in Alive \ {p} /\ id[deact'[j]] = j
  BY <1>2 DEF Accounts, Accounted
<1> QED BY <1>0, <1>1, <1>5, <1>6, <1>7, <1>8 DEF Accounts, Accounted

\* deactivate(), and the entry of instance_deactivated_list.
Sleeping(p) ==
  /\ Removing(p) /\ deact' = [deact EXCEPT ![id[p]] = IF @ = 0 THEN p ELSE @]
  /\ UNCHANGED <<total, cleanups, freed>>

\* deactivate() leaves the instance alive, in instance_deactivated_list.
LEMMA SleepingAccounted ==
  ASSUME Base, Accounts, CleanInv, NEW p, Sleeping(p)
  PROVE  Accounts' /\ CleanInv' /\ Alive' = Alive
<1>0. p \in Inst /\ p \in Alive /\ id[p] \in Id /\ deact[id[p]] = 0 /\ p # 0
  <2>1. p \in Inst /\ Active(p)
    BY DEF Sleeping, Removing
  <2> QED BY <2>1, ActiveAlive, AliveFacts
<1>1. UNCHANGED <<insts, id, obj, total, cleanups, freed>>
  BY RemoveFacts DEF Sleeping
<1>2. Alive' = Alive /\ CleanInv'
  BY <1>1 DEF Alive, CleanInv
<1>3. \A j \in Id : deact'[j] = IF j = id[p] THEN p ELSE deact[j]
  BY <1>0 DEF Sleeping, Base, MapT
<1>4. ~Active(p)' /\ \A q \in Inst : q # p => (Active(q)' <=> Active(q))
  BY RemoveActive DEF Sleeping
<1>5. \A q \in Alive : q \in Inst /\ id[q] \in Id /\ (q # p => id[q] # id[p])
  BY <1>0, AliveFacts DEF Accounts, Accounted, OneInstancePerId
<1>6. OneInstancePerId' /\ (total = Cardinality(Alive))'
  BY <1>1, <1>2 DEF OneInstancePerId, Accounts, Accounted
<1>7. \A q \in Alive : Active(q)' <=> deact'[id[q]] # q
  BY <1>3, <1>4, <1>5 DEF Accounts, Accounted
<1>8. ASSUME NEW q \in cleanups \cup freed PROVE ~Active(q)'
  <2>0. ~Active(q)
    BY DEF Accounts, Accounted
  <2>1. q \in Inst /\ q # p /\ ~Active(q)
    BY <1>0, <2>0, ConstantsAssumption DEF CleanInv, Base, NumT, Inst, Alive
  <2> QED BY <1>4, <2>1
<1>9. \A j \in Id : deact'[j] # 0 => deact'[j] \in Alive /\ id[deact'[j]] = j
  BY <1>0, <1>3 DEF Accounts, Accounted
<1> QED BY <1>1, <1>2, <1>6, <1>7, <1>8, <1>9 DEF Accounts, Accounted

-----------------------------------------------------------------------------
(* The stack: c frames are left, those of N are entered.                   *)

Shifted(N, c) ==
  /\ N \in Seq(FrameT) /\ c \in {0, 1} /\ c <= Len(stack) /\ stack' \in Seq(FrameT)
  /\ Len(stack') = Len(N) + Len(stack) - c
  /\ \A k \in 1..Len(N) : stack'[k] = N[k]
  /\ \A k \in c + 1..Len(stack) : stack'[Len(N) + k - c] = stack[k]

\* Calls that are entered,
LEMMA PushShift ==
  ASSUME StackT, NEW N \in Seq(FrameT), stack' = N \o stack
  PROVE  Shifted(N, 0)
<1> DEFINE T == FrameT
<1>1. stack \in Seq(T) /\ N \in Seq(T)
  BY DEF StackT
<1> HIDE DEF T
<1>2. stack' \in Seq(T) /\ Len(stack') = Len(N) + Len(stack) /\ Len(stack) \in Nat /\ Len(N) \in Nat
  BY <1>1
<1>3. \A k \in 1..Len(N) : stack'[k] = N[k]
  BY <1>1, <1>2
<1>4. \A k \in 1..Len(stack) : stack'[Len(N) + k] = stack[k]
  BY <1>1, <1>2
<1>5. \A k \in 1..Len(stack) : Len(N) + k - 0 = Len(N) + k
  BY <1>2
<1> QED BY <1>1, <1>2, <1>3, <1>4, <1>5 DEF Shifted, T

\* that follow another,
LEMMA TailShift ==
  ASSUME StackT, NEW N \in Seq(FrameT), stack # <<>>, stack' = N \o Tail(stack)
  PROVE  Shifted(N, 1)
<1> DEFINE T == FrameT
<1>1. stack \in Seq(T) /\ N \in Seq(T)
  BY DEF StackT
<1> HIDE DEF T
<1>a. PICK S : S = Tail(stack)
  OBVIOUS
<1>2. /\ S \in Seq(T) /\ Len(S) = Len(stack) - 1 /\ Len(stack) \in Nat \ {0}
      /\ \A k \in 1..Len(S) : S[k] = stack[k + 1]
  BY <1>1, <1>a
<1>3. stack' \in Seq(T) /\ Len(stack') = Len(N) + Len(S) /\ Len(N) \in Nat
  BY <1>1, <1>2, <1>a
<1>4. \A k \in 1..Len(N) : stack'[k] = N[k]
  BY <1>1, <1>2, <1>3, <1>a
<1>5. \A k \in 1..Len(S) : stack'[Len(N) + k] = S[k]
  BY <1>1, <1>2, <1>3, <1>a
<1>6. ASSUME NEW k \in 2..Len(stack) PROVE stack'[Len(N) + k - 1] = stack[k]
  <2>1. k - 1 \in 1..Len(S) /\ Len(N) + k - 1 = Len(N) + (k - 1) /\ (k - 1) + 1 = k
    BY <1>2, <1>3
  <2> QED BY <1>2, <1>5, <2>1
<1> QED BY <1>1, <1>2, <1>3, <1>4, <1>6 DEF Shifted, T

\* and a call that is left.
LEMMA PopShift ==
  ASSUME StackT, stack # <<>>, stack' = Tail(stack)
  PROVE  Shifted(<<>>, 1)
<1> DEFINE T == FrameT
<1>1. stack \in Seq(T)
  BY DEF StackT
<1> HIDE DEF T
<1>2. <<>> \o Tail(stack) = Tail(stack) /\ <<>> \in Seq(T)
  BY <1>1
<1> QED BY <1>2, TailShift DEF T

\* The frames that remain, and those entered.
LEMMA StackKept ==
  ASSUME StackT, StackInv, NEW N, NEW c, Shifted(N, c),
         \A k \in 1..Len(N) : FrameOK(N[k])',
         \A k \in c + 1..Len(stack) : \A f \in FrameT : f = stack[k] => FrameOK(f)',
         c = 0 => stack = <<>> \/ Top.op \notin {"activate", "deactivate"},
         \A k \in 1..Len(N) : /\ N[k].op = "loop" <=> k = Len(N) /\ c = Len(stack)
                              /\ N[k].op \in {"activate", "deactivate"} => k = 1
  PROVE  StackInv' /\ StackT'
<1>0. /\ N \in Seq(FrameT) /\ c \in {0, 1} /\ c <= Len(stack) /\ stack' \in Seq(FrameT)
      /\ Len(stack') = Len(N) + Len(stack) - c
      /\ \A k \in 1..Len(N) : stack'[k] = N[k]
      /\ \A k \in c + 1..Len(stack) : stack'[Len(N) + k - c] = stack[k]
  BY DEF Shifted
<1>1. stack \in Seq(FrameT)
  BY DEF StackT
<1>2. Len(stack) \in Nat /\ Len(N) \in Nat
  BY <1>0, <1>1
<1> SUFFICES ASSUME NEW d \in 1..Len(stack') PROVE (FrameOK(stack[d]) /\ PlaceOK(d))'
  BY <1>0 DEF StackInv, StackT
<1>3. CASE d <= Len(N)
  <2>1. d \in 1..Len(N) /\ stack'[d] = N[d]
    BY <1>0, <1>2, <1>3
  <2>2. FrameOK(stack[d])'
    <3>1. PICK g : g = N[d]
      OBVIOUS
    <3>2. FrameOK(g)' /\ stack'[d] = g
      BY <2>1, <3>1
    <3> QED BY <3>2
  <2>3. N[d].op = "loop" <=> d = Len(stack')
    BY <1>0, <1>2, <1>3, <2>1
  <2> QED BY <2>1, <2>2, <2>3 DEF PlaceOK
<1>4. CASE d > Len(N)
  <2>1. PICK k : k = d - Len(N) + c
    OBVIOUS
  <2>a. c \in {0, 1} /\ c <= Len(stack) /\ Len(stack') = Len(N) + Len(stack) - c
    BY <1>0
  <2>2. /\ k \in c + 1..Len(stack) /\ k \in 1..Len(stack) /\ d = Len(N) + k - c
        /\ d = Len(stack') <=> k = Len(stack)
    BY <1>2, <1>4, <2>1, <2>a
  <2>3. stack'[d] = stack[k] /\ stack[k] \in FrameT
    BY <1>0, <1>1, <2>2
  <2>4. PICK g \in FrameT : g = stack[k]
    BY <2>3
  <2>5. FrameOK(g)'
    BY <2>2, <2>4
  <2>6. FrameOK(stack[d])'
    BY <2>3, <2>4, <2>5
  <2>7. PlaceOK(k)
    BY <2>2 DEF StackInv
  <2>8. stack[k].op \notin {"activate", "deactivate"}
    <3>1. stack # <<>>
      BY <1>2, <2>2
    <3> QED BY <1>0, <2>2, <2>7, <3>1 DEF PlaceOK, Top
  <2> QED BY <2>2, <2>3, <2>6, <2>7, <2>8 DEF PlaceOK
<1> QED BY <1>0, <1>2, <1>3, <1>4

-----------------------------------------------------------------------------
(* Walks.                                                                  *)

\* Calls in progress can stand on every node of a list.
LEMMA LiveSeen ==
  ASSUME SeenInv, stack # <<>>, NEW l
  PROVE  Members(l) \subseteq Seen
  BY DEF SeenInv, Members

\* The node after a walk's own: what it held at the call is still ahead, if
\* its node is no longer linked or was not to be met.
LEMMA WalkOn ==
  ASSUME Base, SeenInv, stack # <<>>, NEW f \in FrameT, RegOK(f),
         NEW g \in FrameT, g.list = f.list, g.seen = f.seen,
         g.reg = list[f.list].next[f.reg]
  PROVE  /\ g.reg # NULL => RegOK(g) /\ g.reg \in Members(g.list)
         /\ Ahead(f) /\ f.reg \notin f.seen \cap live => Ahead(g)
<1>l. PICK l : l = f.list
  OBVIOUS
<1>0. /\ l \in ListName /\ f.reg \in Seen /\ g.reg \in Members(l) \cup {NULL}
      /\ g.list = l /\ g.reg = list[l].next[f.reg]
  BY <1>l DEF RegOK
<1>1. /\ MaxAct \in Nat /\ Ordered(Key(l), Members(l))
      /\ LinkedBy(list[l], Members(l), Key(l))
  BY <1>0, KeyFacts, ConstantsAssumption DEF Base, ListsInv
<1>2. ASSUME g.reg # NULL PROVE RegOK(g) /\ g.reg \in Members(g.list)
  <2>1. g.reg \in Members(l)
    BY <1>0, <1>2
  <2>2. list[l].next[g.reg] \in Members(l) \cup {NULL}
    BY <1>1, <2>1 DEF LinkedBy
  <2> QED BY <1>0, <2>1, <2>2, LiveSeen DEF RegOK
<1>3. ASSUME Ahead(f), f.reg \notin f.seen \cap live PROVE Ahead(g)
  <2>1. l # "temp"
    BY <1>0, ConstantsAssumption DEF ListName
  <2>2. ASSUME NEW n \in f.seen
        PROVE  /\ n \in 1..acts /\ (l \in Obj => IsA(who[n], l))
               /\ n \in live => g.reg # NULL /\ Reaches(list[l], Key(l), g.reg, n)
    <3>1. /\ n \in 1..acts /\ (l \in Obj => IsA(who[n], l))
          /\ n \in live => Reaches(list[l], Key(l), f.reg, n)
      BY <1>l, <1>3, <2>1, <2>2 DEF Ahead
    <3>2. ASSUME n \in live PROVE g.reg # NULL /\ Reaches(list[l], Key(l), g.reg, n)
      <4>1. n \in Members(l) /\ n # f.reg /\ Reaches(list[l], Key(l), f.reg, n)
        BY <1>3, <2>2, <3>1, <3>2 DEF Members
      <4>2. g.reg \in Members(l) /\ Reaches(list[l], Key(l), g.reg, n)
        BY <1>0, <1>1, <4>1, ReachStep
      <4>3. g.reg # NULL
        BY <4>2, LiveFacts DEF Members, Act, NULL
      <4> QED BY <4>2, <4>3
    <3> QED BY <3>1, <3>2
  <2> QED BY <1>l, <1>0, <2>1, <2>2 DEF Ahead
<1> QED BY <1>2, <1>3

\* The same for every frame, now
LEMMA WalkOnAll ==
  \A f, g \in FrameT :
    /\ Base /\ SeenInv /\ stack # <<>> /\ RegOK(f)
    /\ g.list = f.list /\ g.seen = f.seen /\ g.reg = list[f.list].next[f.reg]
    => /\ g.reg # NULL => RegOK(g) /\ g.reg \in Members(g.list)
       /\ Ahead(f) /\ f.reg \notin f.seen \cap live => Ahead(g)
BY WalkOn

\* and in the next state.
LEMMA WalkOnAllNext ==
  (\A f, g \in FrameT :
    /\ Base /\ SeenInv /\ stack # <<>> /\ RegOK(f)
    /\ g.list = f.list /\ g.seen = f.seen /\ g.reg = list[f.list].next[f.reg]
    => /\ g.reg # NULL => RegOK(g) /\ g.reg \in Members(g.list)
       /\ Ahead(f) /\ f.reg \notin f.seen \cap live => Ahead(g))'
BY WalkOnAll, PTL

\* WalkOn in the next state.
LEMMA WalkOnNext ==
  ASSUME Base', SeenInv', stack' # <<>>, NEW f \in FrameT, RegOK(f)',
         NEW g \in FrameT, g.list = f.list, g.seen = f.seen,
         g.reg = list'[f.list].next[f.reg]
  PROVE  /\ g.reg # NULL => RegOK(g)' /\ (g.reg \in Members(g.list))'
         /\ Ahead(f)' /\ f.reg \notin f.seen \cap live' => Ahead(g)'
BY WalkOnAllNext

-----------------------------------------------------------------------------
(* Steps that leave the instances and their lists alone.                   *)

Quiet == UNCHANGED <<instVars, listVars, total, deact, cleanups, freed>>

\* All but the calls in progress.
DataInv == Base /\ CountInv /\ Accounts /\ CleanInv /\ CountT
\* All that is said of the data stays true.
LEMMA QuietData ==
  ASSUME Inv, Quiet, calls' \in 0..MaxCalls
  PROVE  /\ DataInv' /\ SetT' /\ Alive' = Alive /\ id' = id
         /\ UNCHANGED <<insts, obj, id, maxid, listVars, freed, deact>>
<1>1. /\ insts' = insts /\ id' = id /\ obj' = obj /\ maxid' = maxid /\ acts' = acts
      /\ node' = node /\ who' = who /\ live' = live /\ list' = list /\ main' = main
      /\ count' = count /\ total' = total /\ deact' = deact /\ cleanups' = cleanups
      /\ freed' = freed
  BY DEF Quiet, instVars, listVars
<1>2. \A l : Members(l)' = Members(l) /\ Key(l)' = Key(l) /\ Belongs(l)' = Belongs(l)
  BY <1>1 DEF Members, Key, Belongs, IsA
<1>3. ListsInv' /\ FreshInv'
  BY <1>1, <1>2 DEF Inv, Base, ListsInv, FreshInv
<1>4. NumT' /\ InstT' /\ NodeT' /\ ListT' /\ MapT'
  BY <1>1 DEF Inv, Base, NumT, InstT, NodeT, ListT, MapT
<1>5. NodesInv'
  BY <1>1 DEF Inv, Base, NodesInv
<1>6. Alive' = Alive /\ \A q : Active(q)' <=> Active(q)
  BY <1>1 DEF Alive, Active
<1>7. Accounts'
  BY <1>1, <1>6 DEF Inv, Accounts, Accounted, OneInstancePerId
<1>8. CountInv' /\ CountT' /\ CleanInv' /\ SetT'
  BY <1>1, <1>2 DEF Inv, CountInv, CountT, CleanInv, SetT
<1> QED BY <1>1, <1>3, <1>4, <1>5, <1>6, <1>7, <1>8 DEF Base, DataInv, listVars

\* The frames of N can be entered.
Placed(N, c) ==
  /\ \A k \in 1..Len(N) : FrameOK(N[k])
  /\ \A k \in 1..Len(N) : /\ N[k].op = "loop" <=> k = Len(N) /\ c = Len(stack)
                          /\ N[k].op \in {"activate", "deactivate"} => k = 1
  /\ c = 0 => Top.op \notin {"activate", "deactivate"}

\* A call, a return, or a turn of a loop.
LEMMA QuietStep ==
  ASSUME Inv, Quiet, calls' \in 0..MaxCalls, stack # <<>>,
         pass'.start = pass.start, pass'.bound = pass.bound,
         NEW N, NEW c, Shifted(N, c), Placed(N, c)
  PROVE  Inv'
<1>1. DataInv' /\ SetT' /\ Alive' = Alive /\ id' = id
      /\ UNCHANGED <<insts, obj, id, maxid, listVars, freed, deact>>
  BY QuietData
<1>2. acts' = acts /\ live' = live /\ list' = list /\ who' = who
  BY <1>1 DEF listVars
<1>3. Seen' = Seen
  BY <1>2 DEF Seen
<1>4. SeenInv'
  BY <1>1, <1>2, <1>3 DEF Inv, SeenInv
<1>5. LoadInv'
  BY <1>1 DEF Inv, LoadInv
<1>6. \A k \in 1..Len(N) : FrameOK(N[k])'
  <2> SUFFICES ASSUME NEW k \in 1..Len(N) PROVE FrameOK(N[k])'
    OBVIOUS
  <2>1. PICK g : g = N[k]
    OBVIOUS
  <2>2. FrameOK(g)
    BY <2>1 DEF Placed
  <2>3. FrameOK(g)'
    BY <1>1, <1>3, <2>2, SameFrame
  <2> QED BY <2>1, <2>3
<1>7. \A k \in c + 1..Len(stack) : \A f \in FrameT : f = stack[k] => FrameOK(f)'
  <2> SUFFICES ASSUME NEW k \in c + 1..Len(stack), NEW f \in FrameT, f = stack[k]
               PROVE  FrameOK(f)'
    OBVIOUS
  <2>1. k \in 1..Len(stack)
    BY DEF Shifted, Inv, StackT
  <2>2. FrameOK(f)
    BY <2>1 DEF Inv, StackInv
  <2> QED BY <1>1, <1>3, <2>2, SameFrame
<1>8. StackInv' /\ StackT'
  <2>1. /\ c = 0 => stack = <<>> \/ Top.op \notin {"activate", "deactivate"}
        /\ \A k \in 1..Len(N) : /\ N[k].op = "loop" <=> k = Len(N) /\ c = Len(stack)
                                /\ N[k].op \in {"activate", "deactivate"} => k = 1
    BY DEF Placed
  <2> QED BY <1>6, <1>7, <2>1, StackKept DEF Inv
<1> QED BY <1>1, <1>4, <1>5, <1>8 DEF Inv, DataInv

-----------------------------------------------------------------------------
(* Frames.                                                                 *)

\* What the innermost call is.
LEMMA TopFacts ==
  ASSUME Inv, stack # <<>>
  PROVE  /\ Top \in FrameT /\ FrameOK(Top) /\ (Top.op = "loop" <=> Len(stack) = 1)
         /\ Len(stack) \in Nat \ {0} /\ 1 \in 1..Len(stack)
         /\ Top.list # "temp" /\ Top.reg # NULL => Top.reg \in Registered(Top.list)
<1>1. stack \in Seq(FrameT)
  BY DEF Inv, StackT
<1>2. Len(stack) \in Nat \ {0} /\ 1 \in 1..Len(stack) /\ stack[1] \in FrameT
  BY <1>1
<1>3. FrameOK(stack[1]) /\ PlaceOK(1)
  BY <1>2 DEF Inv, StackInv
<1>4. stack[1].reg # NULL => stack[1].reg \in Registered(stack[1].list)
  BY <1>2 DEF Registered
<1> QED BY <1>2, <1>3, <1>4 DEF Top, PlaceOK

\* Code can run for an instance that is not deleted.
LEMMA CodeFrame ==
  ASSUME Base, NEW p \in Present
  PROVE  Code(p) \in FrameT /\ FrameOK(Code(p)) /\ Code(p).op = "code" /\ Code(p).self = p
<1>1. p \in 0..MaxInst
  BY ConstantsAssumption DEF Present, Base, NumT
<1>2. PICK g : g = Frame("code")
  OBVIOUS
<1>3. g \in FrameT /\ g.op = "code" /\ g.list = "temp" /\ g.reg = NULL
  BY <1>2, ConstantsAssumption DEF Frame, FrameT
<1>4. Code(p) = [g EXCEPT !.self = p]
  BY <1>2 DEF Code
<1>5. /\ Code(p) \in FrameT /\ Code(p).op = "code" /\ Code(p).list = "temp"
      /\ Code(p).reg = NULL /\ Code(p).self = p
  BY <1>1, <1>3, <1>4 DEF FrameT
<1>6. FrameOK(Code(p))
  BY <1>5 DEF FrameOK
<1> QED BY <1>5, <1>6

\* The instance a registered iterator gives has not been deleted.
LEMMA AtPresent ==
  ASSUME Base, SeenInv, stack # <<>>, NEW f \in FrameT, WalkOK(f), f.reg # NULL
  PROVE  At(f) \in Present
<1>1. CASE f.list = "temp"
  BY <1>1 DEF WalkOK, At
<1>2. CASE f.list # "temp"
  BY <1>2, SeenPresent DEF WalkOK, At, RegOK
<1> QED BY <1>1, <1>2

\* The instance whose code runs is not deleted.
LEMMA SelfPresent ==
  ASSUME Inv, stack # <<>>, Top.op = "code"
  PROVE  Self \in Present
BY TopFacts DEF Self, FrameOK

\* What a frame needs of its list and its instance does not depend on the rest.
LEMMA SameWalk ==
  ASSUME NEW f, NEW g, g.list = f.list, g.reg = f.reg, g.self = f.self
  PROVE  /\ WalkOK(f) <=> WalkOK(g)
         /\ g.seen = f.seen => (Ahead(f) <=> Ahead(g))
BY DEF WalkOK, RegOK, Ahead

\* A frame before its call has been told where to walk.
LEMMA NewFrame ==
  ASSUME NEW op \in {"code", "loop", "with", "destroy", "deactivate", "activate", "change"}
  PROVE  /\ Frame(op) \in FrameT /\ Frame(op).op = op /\ Frame(op).list = "temp"
         /\ Frame(op).reg = NULL /\ Frame(op).cur = NULL /\ Frame(op).self = 0
         /\ Frame(op).flag = FALSE /\ Frame(op).seen = {}
BY ConstantsAssumption DEF Frame, FrameT

\* The root leads to the nodes of the list.
LEMMA ListHead ==
  ASSUME Base, NEW l \in ListName
  PROVE  /\ list[l].next[Root] \in Members(l) \cup {NULL}
         /\ \A x \in Members(l) : list[l].next[x] \in Members(l) \cup {NULL}
         /\ Members(l) \subseteq Act /\ NULL \notin Act /\ Root \notin Act /\ NULL # Root
         /\ \A y \in Members(l) :
              list[l].next[Root] # NULL /\ Reaches(list[l], Key(l), list[l].next[Root], y)
<1>1. /\ MaxAct \in Nat /\ Ordered(Key(l), Members(l)) /\ LinkedBy(list[l], Members(l), Key(l))
  BY KeyFacts, ConstantsAssumption DEF Base, ListsInv
<1>2. /\ list[l].next[Root] \in Members(l) \cup {NULL}
      /\ \A x \in Members(l) : list[l].next[x] \in Members(l) \cup {NULL}
  BY <1>1 DEF LinkedBy
<1>3. Members(l) \subseteq Act /\ NULL \notin Act /\ Root \notin Act /\ NULL # Root
  BY LiveFacts DEF Members, Act, NULL, Root
<1>4. \A y \in Members(l) :
        list[l].next[Root] # NULL /\ Reaches(list[l], Key(l), list[l].next[Root], y)
  BY <1>1, <1>3, ReachFirst
<1> QED BY <1>2, <1>3, <1>4

\* A walk over a list starts on its first node, a walk over one instance on it.
Fetched(f, g) ==
  /\ g \in FrameT /\ g.op = f.op /\ g.cur = f.cur /\ g.flag = f.flag /\ g.seen = f.seen
  /\ WalkOK(g)
  /\ g.list # "temp" => g.list \in Obj \cup {"main"} /\ g.reg = list[g.list].next[Root]
                        /\ g.reg \in Members(g.list) \cup {NULL}

\* fetch_inst_iter_by_int gives a walk that can be walked.
LEMMA FetchFacts ==
  ASSUME Inv, stack # <<>>, Top.op = "code", NEW t \in Target,
         NEW f \in FrameT, f.list = "temp", f.reg = NULL
  PROVE  /\ Fetched(f, Fetch(f, t))
         /\ t.kind = "self" => Fetch(f, t).list = "temp" /\ Fetch(f, t).reg = Root /\ Fetch(f, t).self = Self
         /\ t.kind = "id" => /\ t.of \in Id /\ Fetch(f, t).list = "temp"
                             /\ IF main[t.of] = 0 THEN Fetch(f, t).reg = NULL
                                ELSE Fetch(f, t).reg = Root /\ Fetch(f, t).self = who[main[t.of]]
         /\ Fetch(f, t).list = "temp" => t.kind \in {"self", "id"}
<1>0. Base /\ SeenInv
  BY DEF Inv
<1>a. PICK g : g = Fetch(f, t)
  OBVIOUS
<1>1. ASSUME NEW l \in Obj \cup {"main"}, g = [f EXCEPT !.list = l, !.reg = list[l].next[Root]]
      PROVE  Fetched(f, g) /\ g.list # "temp"
  <2>0. PICK r : r = list[l].next[Root]
    OBVIOUS
  <2>1. l \in ListName /\ l # "temp"
    BY <1>1, ConstantsAssumption DEF ListName
  <2>2. /\ r \in Members(l) \cup {NULL} /\ r \in Act \cup {Root, NULL}
        /\ r # NULL => list[l].next[r] \in Members(l) \cup {NULL}
    BY <1>0, <2>0, <2>1, ListHead
  <2>3. /\ g \in FrameT /\ g.op = f.op /\ g.cur = f.cur /\ g.flag = f.flag /\ g.seen = f.seen
        /\ g.list = l /\ g.reg = r
    BY <1>1, <2>0, <2>1, <2>2 DEF FrameT
  <2>4. WalkOK(g)
    BY <1>0, <1>1, <2>1, <2>2, <2>3, LiveSeen DEF WalkOK, RegOK
  <2> QED BY <1>1, <2>0, <2>1, <2>2, <2>3, <2>4 DEF Fetched
<1>2. ASSUME NEW p \in Present, g = [f EXCEPT !.reg = Root, !.self = p]
      PROVE  Fetched(f, g) /\ g.list = "temp" /\ g.reg = Root /\ g.self = p
  <2>1. p \in 0..MaxInst
    BY <1>0, ConstantsAssumption DEF Present, Base, NumT
  <2>2. /\ g \in FrameT /\ g.op = f.op /\ g.cur = f.cur /\ g.flag = f.flag /\ g.seen = f.seen
        /\ g.list = "temp" /\ g.reg = Root /\ g.self = p
    BY <1>2, <2>1 DEF FrameT
  <2> QED BY <2>2 DEF Fetched, WalkOK
<1>3. Fetched(f, f)
  BY DEF Fetched, WalkOK
<1>4. CASE t.kind = "object"
  <2>1. t.of \in Obj
    BY <1>4 DEF Target
  <2> QED BY <1>a, <1>1, <1>4, <2>1 DEF Fetch
<1>5. CASE t.kind = "all"
  BY <1>a, <1>1, <1>5 DEF Fetch
<1>6. CASE t.kind = "self"
  BY <1>a, <1>2, <1>6, SelfPresent DEF Fetch
<1>7. CASE t.kind = "id"
  <2>1. t.of \in Id
    BY <1>0, <1>7, ConstantsAssumption DEF Target, Base, NumT, Id
  <2>2. CASE main[t.of] = 0
    BY <1>a, <1>3, <1>7, <2>1, <2>2 DEF Fetch
  <2>3. CASE main[t.of] # 0
    <3>1. main[t.of] \in live
      BY <1>0, <2>1, <2>3 DEF Base, NodesInv
    <3>2. who[main[t.of]] \in Present
      BY <1>0, <3>1, SeenPresent DEF SeenInv
    <3>3. g = [f EXCEPT !.reg = Root, !.self = who[main[t.of]]]
      BY <1>a, <1>7, <2>3 DEF Fetch
    <3>4. Fetched(f, g) /\ g.list = "temp" /\ g.reg = Root /\ g.self = who[main[t.of]]
      BY <1>2, <3>2, <3>3
    <3> QED BY <1>a, <1>7, <2>1, <2>3, <3>4
  <2> QED BY <2>2, <2>3
<1>8. t.kind \in {"object", "all", "self", "id"}
  BY DEF Target
<1> QED BY <1>4, <1>5, <1>6, <1>7, <1>8

-----------------------------------------------------------------------------
(* The actions of the calls in progress.                                   *)

\* Leaving a call, a call that goes on, and entering one.
LEMMA PopStep ==
  ASSUME Inv, Quiet, UNCHANGED <<calls, pass>>, stack # <<>>, stack' = Below
  PROVE  Inv'
<1>1. Shifted(<<>>, 1)
  BY PopShift DEF Inv, Below
<1>2. calls' \in 0..MaxCalls
  BY DEF Inv, SetT
<1>3. Placed(<<>>, 1)
  BY DEF Placed
<1> QED BY <1>1, <1>2, <1>3, QuietStep

\* A call that goes on, without changing the data,
LEMMA ReplaceStep ==
  ASSUME Inv, Quiet, UNCHANGED <<calls, pass>>, stack # <<>>,
         NEW f \in FrameT, stack' = <<f>> \o Below, FrameOK(f), f.op # "change",
         f.op = "loop" <=> Len(stack) = 1
  PROVE  Inv'
<1>0. PICK N : N = <<f>>
  OBVIOUS
<1>1. N \in Seq(FrameT) /\ Len(N) = 1 /\ N[1] = f /\ \A k \in 1..Len(N) : N[k] = f /\ k = 1
  BY <1>0
<1>2. Shifted(N, 1)
  BY <1>0, <1>1, TailShift DEF Inv, Below
<1>3. calls' \in 0..MaxCalls
  BY DEF Inv, SetT
<1>4. \A k \in 1..Len(N) : FrameOK(N[k]) /\ N[k].op # "change"
  BY <1>1
<1>5. \A k \in 1..Len(N) : /\ N[k].op = "loop" <=> k = Len(N) /\ 1 = Len(stack)
                           /\ N[k].op \in {"activate", "deactivate"} => k = 1
  BY <1>1
<1>6. Placed(N, 1)
  BY <1>4, <1>5 DEF Placed
<1> QED BY <1>2, <1>3, <1>6, QuietStep

\* or that runs the code of an instance.
LEMMA ReplaceTwoStep ==
  ASSUME Inv, Quiet, UNCHANGED calls, stack # <<>>,
         pass'.start = pass.start, pass'.bound = pass.bound,
         NEW f \in FrameT, NEW g \in FrameT, stack' = <<f, g>> \o Below, FrameOK(f), FrameOK(g),
         f.op = "code", g.op \notin {"change", "activate", "deactivate"},
         g.op = "loop" <=> Len(stack) = 1
  PROVE  Inv'
<1>0. PICK N : N = <<f, g>>
  OBVIOUS
<1>1. N \in Seq(FrameT) /\ Len(N) = 2 /\ N[1] = f /\ N[2] = g
  BY <1>0
<1>2. Shifted(N, 1)
  BY <1>0, <1>1, TailShift DEF Inv, Below
<1>3. calls' \in 0..MaxCalls
  BY DEF Inv, SetT
<1>4. \A k \in 1..Len(N) : FrameOK(N[k]) /\ N[k].op # "change"
  <2> SUFFICES ASSUME NEW k \in 1..2 PROVE FrameOK(N[k]) /\ N[k].op # "change"
    BY <1>1
  <2>1. k = 1 \/ k = 2
    OBVIOUS
  <2> QED BY <1>1, <2>1
<1>5. \A k \in 1..Len(N) : /\ N[k].op = "loop" <=> k = Len(N) /\ 1 = Len(stack)
                           /\ N[k].op \in {"activate", "deactivate"} => k = 1
  BY <1>1
<1>6. Placed(N, 1)
  BY <1>1, <1>4, <1>5 DEF Placed
<1> QED BY <1>2, <1>3, <1>6, QuietStep

\* When code makes a call.
LEMMA CallFacts ==
  ASSUME Inv, Call
  PROVE  stack # <<>> /\ Top.op = "code" /\ calls' \in 0..MaxCalls /\ Len(stack) \in Nat \ {0}
<1>1. stack # <<>> /\ Top.op = "code" /\ calls < MaxCalls /\ calls' = calls + 1
  BY DEF Call, Running
<1>2. calls' \in 0..MaxCalls
  BY <1>1, ConstantsAssumption DEF Inv, SetT
<1> QED BY <1>1, <1>2, TopFacts

\* Entering a call.
LEMMA CallStep ==
  ASSUME Inv, Quiet, UNCHANGED pass, Call,
         NEW f \in FrameT, stack' = <<f>> \o stack, FrameOK(f), f.op \notin {"loop", "change"}
  PROVE  Inv'
<1>0. PICK N : N = <<f>>
  OBVIOUS
<1>1. N \in Seq(FrameT) /\ Len(N) = 1 /\ \A k \in 1..Len(N) : N[k] = f /\ k = 1
  BY <1>0
<1>2. Shifted(N, 0)
  BY <1>0, <1>1, PushShift DEF Inv
<1>3. stack # <<>> /\ Top.op = "code" /\ calls' \in 0..MaxCalls /\ Len(stack) \in Nat \ {0}
  BY CallFacts
<1>4. \A k \in 1..Len(N) : FrameOK(N[k]) /\ N[k].op # "change"
  BY <1>1
<1>5. \A k \in 1..Len(N) : /\ N[k].op = "loop" <=> k = Len(N) /\ 0 = Len(stack)
                           /\ N[k].op \in {"activate", "deactivate"} => k = 1
  BY <1>1, <1>3
<1>6. Placed(N, 0)
  BY <1>3, <1>4, <1>5 DEF Placed
<1> QED BY <1>2, <1>3, <1>6, QuietStep

\* A loop that runs the code of the instance it stands on.
LEMMA BodyFacts ==
  ASSUME Base, SeenInv, stack # <<>>, NEW f \in FrameT, NEW x \in Act \cup {Root},
         f.op \in {"loop", "with"}, f.list = "temp" => f.self \in Present,
         f.list # "temp" => x \in Seen,
         f.op = "loop" => f.list = "event" /\ f.reg = NULL,
         f.op = "with" => WalkOK(f) /\ f.reg # NULL
  PROVE  \E p \in Present, g \in FrameT :
           /\ Body(f, x) = <<Code(p), g>> /\ FrameOK(g) /\ g.op = f.op
<1> DEFINE p == IF f.list = "temp" THEN f.self ELSE who[x]
           g == [f EXCEPT !.cur = x]
<1>1. Body(f, x) = <<Code(p), g>>
  BY DEF Body
<1>2. p \in Present
  BY SeenPresent
<1>3. x \in 0..MaxInst \cup Act \cup {NULL}
  BY ConstantsAssumption DEF Root
<1>4. /\ g \in FrameT /\ g.op = f.op /\ g.list = f.list /\ g.reg = f.reg /\ g.self = f.self
      /\ g.cur = x
  BY <1>3 DEF FrameT
<1> HIDE DEF p, g
<1>5. f.list = "temp" => f.list # "event"
  BY ConstantsAssumption
<1>6. WalkOK(f) => WalkOK(g)
  BY <1>4, SameWalk
<1>7. FrameOK(g)
  BY <1>4, <1>5, <1>6 DEF FrameOK
<1> QED BY <1>1, <1>2, <1>4, <1>7

\* Event code returns.
LEMMA ReturnKeeps == ASSUME Inv, Return PROVE Inv'
<1>1. Quiet /\ UNCHANGED <<calls, pass>> /\ stack # <<>> /\ stack' = Below /\ Top.op = "code"
  BY DEF Return, Quiet, Pop
<1> QED BY <1>1, PopStep

\* The event loop and with() go to the next node.  (instance_event_iterator)
LEMMA AdvanceKeeps == ASSUME Inv, Advance PROVE Inv'
<1>0. Quiet /\ UNCHANGED calls /\ stack # <<>> /\ Top.op \in {"loop", "with"} /\ Base /\ SeenInv
  BY DEF Advance, Quiet, Inv
<1>1. PICK x : /\ x = After(Top, Top.cur)
               /\ stack' = IF x = NULL THEN Below ELSE Body(Top, x) \o Below
               /\ pass' = IF Top.op = "loop"
                          THEN [pass EXCEPT !.ran = @ \cup ({x} \ {NULL})] ELSE pass
  BY DEF Advance
<1>2. pass'.start = pass.start /\ pass'.bound = pass.bound
  <2>1. CASE Top.op = "loop"
    BY <1>1, <2>1
  <2>2. CASE Top.op # "loop"
    BY <1>1, <2>2
  <2> QED BY <2>1, <2>2
<1>4. /\ Top \in FrameT /\ FrameOK(Top) /\ (Top.op = "loop" <=> Len(stack) = 1)
  BY <1>0, TopFacts
<1>5. CASE x = NULL
  <2>1. Shifted(<<>>, 1)
    BY <1>0, <1>1, <1>5, PopShift DEF Inv, Below
  <2>2. calls' \in 0..MaxCalls
    BY <1>0 DEF Inv, SetT
  <2>3. Placed(<<>>, 1)
    BY DEF Placed
  <2> QED BY <1>0, <1>2, <2>1, <2>2, <2>3, QuietStep
<1>6. CASE x # NULL
  <2>1. Top.list \in ListName /\ Top.list # "temp" /\ Top.cur \in Seen
        /\ x = list[Top.list].next[Top.cur]
    BY <1>0, <1>1, <1>4, <1>6, ConstantsAssumption DEF After, FrameOK, WalkOK, ListName
  <2>2. x \in Seen
    BY <1>0, <1>6, <2>1 DEF SeenInv
  <2>3. x \in Act
    BY <1>0, <2>2, SeenFacts
  <2>4. PICK p \in Present, g \in FrameT :
          Body(Top, x) = <<Code(p), g>> /\ FrameOK(g) /\ g.op = Top.op
    BY <1>0, <1>4, <2>1, <2>2, <2>3, BodyFacts DEF FrameOK
  <2>5. PICK f : f = Code(p)
    OBVIOUS
  <2>6. f \in FrameT /\ FrameOK(f) /\ f.op = "code"
    BY <1>0, <2>5, CodeFrame
  <2>7. stack' = <<f, g>> \o Below
    BY <1>1, <1>6, <2>4, <2>5
  <2> QED BY <1>0, <1>2, <1>4, <2>4, <2>6, <2>7, ReplaceTwoStep
<1> QED BY <1>5, <1>6

\* Entering a call that runs code at once.
LEMMA CallTwoStep ==
  ASSUME Inv, Quiet, UNCHANGED pass, Call,
         NEW f \in FrameT, NEW g \in FrameT, stack' = <<f, g>> \o stack,
         FrameOK(f), FrameOK(g), f.op = "code", g.op = "with"
  PROVE  Inv'
<1>0. PICK N : N = <<f, g>>
  OBVIOUS
<1>1. N \in Seq(FrameT) /\ Len(N) = 2 /\ N[1] = f /\ N[2] = g
  BY <1>0
<1>2. Shifted(N, 0)
  BY <1>0, <1>1, PushShift DEF Inv
<1>3. stack # <<>> /\ Top.op = "code" /\ calls' \in 0..MaxCalls /\ Len(stack) \in Nat \ {0}
  BY CallFacts
<1>4. \A k \in 1..Len(N) : FrameOK(N[k]) /\ N[k].op \in {"code", "with"}
  <2> SUFFICES ASSUME NEW k \in 1..2 PROVE FrameOK(N[k]) /\ N[k].op \in {"code", "with"}
    BY <1>1
  <2>1. k = 1 \/ k = 2
    OBVIOUS
  <2> QED BY <1>1, <2>1
<1>5. /\ \A k \in 1..Len(N) : N[k].op # "loop" /\ N[k].op # "change"
                             /\ N[k].op \notin {"activate", "deactivate"}
      /\ Len(stack) # 0 /\ Top.op \notin {"activate", "deactivate"}
  BY <1>3, <1>4
<1>6. Placed(N, 0)
  BY <1>4, <1>5 DEF Placed
<1> QED BY <1>2, <1>3, <1>6, QuietStep

\* with (t) starts on a node, and runs the code of its instance.
LEMMA WithKeeps == ASSUME Inv, NEW t \in Target, With(t) PROVE Inv'
<1>0. Quiet /\ UNCHANGED pass /\ Call /\ stack # <<>> /\ Top.op = "code" /\ Base /\ SeenInv
      /\ calls' \in 0..MaxCalls
  BY CallFacts DEF With, Quiet, Inv
<1>1. PICK f : f = Fetch(Frame("with"), t)
  OBVIOUS
<1>2. stack' = IF f.reg = NULL THEN stack ELSE Body(f, f.reg) \o stack
  BY <1>1 DEF With
<1>3. Fetched(Frame("with"), f) /\ Frame("with").op = "with"
  BY <1>0, <1>1, NewFrame, FetchFacts
<1>4. CASE f.reg = NULL
  <2>1. stack' = <<>> \o stack
    BY <1>2, <1>4 DEF Inv, StackT
  <2>2. Shifted(<<>>, 0)
    <3>1. <<>> \in Seq(FrameT)
      OBVIOUS
    <3> QED BY <2>1, <3>1, PushShift DEF Inv
  <2>3. Placed(<<>>, 0)
    BY <1>0 DEF Placed
  <2> QED BY <1>0, <2>2, <2>3, QuietStep
<1>5. CASE f.reg # NULL
  <2>1. f \in FrameT /\ f.op = "with" /\ WalkOK(f) /\ f.reg \in Act \cup {Root}
    BY <1>3, <1>5, ConstantsAssumption DEF Fetched, FrameT
  <2>2. /\ f.list = "temp" => f.self \in Present
        /\ f.list # "temp" => f.reg \in Seen
    BY <1>5, <2>1 DEF WalkOK, RegOK
  <2>3. PICK p \in Present, g \in FrameT :
          Body(f, f.reg) = <<Code(p), g>> /\ FrameOK(g) /\ g.op = f.op
    BY <1>0, <1>5, <2>1, <2>2, BodyFacts
  <2>4. PICK h : h = Code(p)
    OBVIOUS
  <2>5. h \in FrameT /\ FrameOK(h) /\ h.op = "code"
    BY <1>0, <2>4, CodeFrame
  <2>6. stack' = <<h, g>> \o stack
    BY <1>2, <1>5, <2>3, <2>4
  <2> QED BY <1>0, <2>1, <2>3, <2>5, <2>6, CallTwoStep
<1> QED BY <1>4, <1>5

\* The nodes instance_destroy is to reach are ahead of it as it starts.
LEMMA DestroyCallKeeps == ASSUME Inv, NEW t \in Target, InstanceDestroy(t) PROVE Inv'
<1>0. Quiet /\ UNCHANGED pass /\ Call /\ stack # <<>> /\ Top.op = "code" /\ Base /\ SeenInv
  BY CallFacts DEF InstanceDestroy, Quiet, Inv
<1>1. PICK d : d = [Frame("destroy") EXCEPT !.flag = TRUE]
  OBVIOUS
<1>2. d \in FrameT /\ d.op = "destroy" /\ d.list = "temp" /\ d.reg = NULL
  BY <1>1, NewFrame DEF FrameT
<1>3. PICK f : f = Fetch(d, t)
  OBVIOUS
<1>4. f \in FrameT /\ f.op = "destroy" /\ Fetched(d, f)
  BY <1>0, <1>2, <1>3, FetchFacts DEF Fetched
<1>5. PICK S : S = IF f.list = "temp" THEN {} ELSE {n \in live : f.list \in ListsOf(who[n])}
  OBVIOUS
<1>6. PICK g : g = [f EXCEPT !.seen = S]
  OBVIOUS
<1>7. stack' = <<g>> \o stack
  BY <1>1, <1>3, <1>5, <1>6 DEF InstanceDestroy, Push
<1>8. S \subseteq live /\ live \subseteq Act
  BY <1>0, <1>5, LiveFacts
<1>9. g \in FrameT /\ g.op = "destroy" /\ g.list = f.list /\ g.reg = f.reg /\ g.self = f.self /\ g.seen = S
  BY <1>4, <1>6, <1>8 DEF FrameT
<1>10. WalkOK(g)
  BY <1>4, <1>9, SameWalk DEF Fetched
<1>11. Ahead(g)
  <2>1. CASE f.list = "temp"
    BY <1>5, <1>9, <2>1 DEF Ahead
  <2>2. CASE f.list # "temp"
    <3>1. f.list \in Obj \cup {"main"} /\ f.reg = list[f.list].next[Root] /\ f.list \in ListName
      BY <1>4, <2>2 DEF Fetched, ListName
    <3>2. ASSUME NEW n \in S
          PROVE  /\ n \in 1..acts /\ (f.list \in Obj => IsA(who[n], f.list))
                 /\ n \in live => f.reg # NULL /\ Reaches(list[f.list], Key(f.list), f.reg, n)
      <4>1. n \in live /\ f.list \in ListsOf(who[n]) /\ n \in 1..acts
        BY <1>0, <1>5, <2>2, <3>2, LiveFacts
      <4>2. f.list \in Obj => IsA(who[n], f.list)
        BY <4>1, ConstantsAssumption DEF ListsOf, IsA
      <4>3. n \in Members(f.list)
        BY <4>1, <4>2 DEF Members
      <4> QED BY <1>0, <3>1, <4>1, <4>2, <4>3, ListHead
    <3> QED BY <1>9, <2>2, <3>2 DEF Ahead
  <2> QED BY <2>1, <2>2
<1>12. FrameOK(g)
  BY <1>9, <1>10, <1>11 DEF FrameOK
<1> QED BY <1>0, <1>7, <1>9, <1>12, CallStep

\* instance_destroy skips what is destroyed, and runs the Destroy event of
\* the others.
LEMMA DestroyTurnKeeps == ASSUME Inv, DestroyTurn PROVE Inv'
<1>0. Quiet /\ UNCHANGED <<calls, pass>> /\ stack # <<>> /\ Top.op = "destroy" /\ Base /\ SeenInv
  BY DEF DestroyTurn, Quiet, Inv
<1>1. Top \in FrameT /\ WalkOK(Top) /\ Ahead(Top) /\ Len(stack) # 1
  BY <1>0, TopFacts DEF FrameOK
<1>2. CASE Top.reg = NULL
  <2>1. stack' = Below
    BY <1>2 DEF DestroyTurn, Pop
    <2> QED BY <1>0, <2>1, PopStep
<1>3. CASE Top.reg # NULL /\ At(Top) \in cleanups
  <2>0. PICK f : f = Top
    OBVIOUS
  <2>1. PICK r : r = After(f, f.reg)
    OBVIOUS
  <2>2. PICK g : g = [f EXCEPT !.reg = r]
    OBVIOUS
  <2>3. stack' = <<g>> \o Below
    BY <1>3, <2>0, <2>1, <2>2 DEF DestroyTurn, Replace
  <2>4. ASSUME f.list # "temp"
        PROVE  /\ RegOK(f) /\ r = list[f.list].next[f.reg] /\ r \in Act \cup {NULL}
               /\ f.reg \notin f.seen \cap live
    <3>1. RegOK(f) /\ r = list[f.list].next[f.reg]
      BY <1>1, <1>3, <2>0, <2>1, <2>4 DEF WalkOK, After
    <3>2. r \in Act \cup {NULL}
      BY <1>0, <3>1, ListHead DEF RegOK
    <3>3. f.reg \notin live
      <4>1. who[f.reg] \in cleanups
        BY <1>3, <2>0, <2>4 DEF At
      <4>2. ~Active(who[f.reg])
        BY <4>1 DEF Inv, Accounts, Accounted
      <4> QED BY <1>0, <4>2, LiveFacts
    <3> QED BY <3>1, <3>2, <3>3
  <2>5. f.list = "temp" => r = NULL
    BY <2>1 DEF After
  <2>6. /\ g \in FrameT /\ g.op = "destroy" /\ g.list = f.list /\ g.reg = r /\ g.self = f.self
        /\ g.seen = f.seen
    BY <1>0, <1>1, <2>0, <2>2, <2>4, <2>5 DEF FrameT
  <2>7. WalkOK(g) /\ Ahead(g)
    <3>1. CASE f.list = "temp"
      BY <1>1, <2>0, <2>5, <2>6, <3>1 DEF WalkOK, Ahead
    <3>2. CASE f.list # "temp"
      <4>1. /\ g.reg # NULL => RegOK(g)
            /\ Ahead(g)
        BY <1>0, <1>1, <2>0, <2>4, <2>6, <3>2, WalkOn
      <4>2. g.list \in Obj \cup {"main"}
        BY <1>1, <2>0, <2>6, <3>2 DEF WalkOK
      <4> QED BY <2>6, <3>2, <4>1, <4>2 DEF WalkOK
    <3> QED BY <3>1, <3>2
  <2>8. FrameOK(g)
    BY <2>6, <2>7 DEF FrameOK
    <2> QED BY <1>0, <1>1, <2>3, <2>6, <2>8, ReplaceStep
<1>4. CASE Top.reg # NULL /\ At(Top) \notin cleanups
  <2>0. PICK f : f = Top
    OBVIOUS
  <2>1. PICK g : g = [f EXCEPT !.op = "unlink"]
    OBVIOUS
  <2>2. PICK h : h = Code(At(Top))
    OBVIOUS
  <2>3. stack' = IF f.flag THEN <<h, g>> \o Below ELSE <<g>> \o Below
    BY <1>4, <2>0, <2>1, <2>2 DEF DestroyTurn
  <2>4. h \in FrameT /\ FrameOK(h) /\ h.op = "code"
    BY <1>0, <1>1, <1>4, <2>2, AtPresent, CodeFrame
  <2>5. /\ g \in FrameT /\ g.op = "unlink" /\ g.list = f.list /\ g.reg = f.reg /\ g.self = f.self
        /\ g.seen = f.seen
    BY <1>1, <2>0, <2>1 DEF FrameT
  <2>6. FrameOK(g)
    BY <1>1, <1>4, <2>0, <2>5, SameWalk DEF FrameOK
    <2>8. CASE f.flag
    BY <1>0, <1>1, <2>3, <2>4, <2>5, <2>6, <2>8, ReplaceTwoStep
  <2>9. CASE ~f.flag
    BY <1>0, <1>1, <2>3, <2>5, <2>6, <2>9, ReplaceStep
  <2> QED BY <2>8, <2>9
<1> QED BY <1>2, <1>3, <1>4

\* instance_activate_* selects deactivated instances.
LEMMA ActivateCallKeeps == ASSUME Inv, NEW t \in Target, InstanceActivate(t) PROVE Inv'
<1>0. Quiet /\ UNCHANGED pass /\ Call
  BY DEF InstanceActivate, Quiet
<1>1. PICK S : S = {i \in Id : /\ deact[i] # 0
                               /\ CASE t.kind = "object" -> IsA(deact[i], t.of)
                                    [] t.kind = "id" -> i = t.of
                                    [] OTHER -> TRUE}
  OBVIOUS
<1>2. PICK f : f = [Frame("activate") EXCEPT !.seen = S]
  OBVIOUS
<1>3. stack' = <<f>> \o stack
  BY <1>1, <1>2 DEF InstanceActivate, Push
<1>4. S \subseteq Id /\ \A i \in S : deact[i] # 0
  BY <1>1
<1>5. f \in FrameT /\ f.op = "activate" /\ f.list = "temp" /\ f.reg = NULL /\ f.seen = S
  BY <1>2, <1>4, NewFrame DEF FrameT
<1>6. FrameOK(f)
  BY <1>4, <1>5 DEF FrameOK
<1> QED BY <1>0, <1>3, <1>5, <1>6, CallStep

\* The instances instance_deactivate_* starts on are linked.
LEMMA DeactivateCallKeeps ==
  ASSUME Inv, NEW t \in Target, NEW notme \in BOOLEAN, InstanceDeactivate(t, notme)
  PROVE  Inv'
<1>0. Quiet /\ UNCHANGED pass /\ Call /\ stack # <<>> /\ Top.op = "code" /\ Base
  BY CallFacts DEF InstanceDeactivate, Quiet, Inv
<1>1. PICK d : d = [Frame("deactivate") EXCEPT !.flag = notme, !.cur = id[Self]]
  OBVIOUS
<1>2. Self \in Present /\ id[Self] \in 0..MaxInst
  BY <1>0, SelfPresent, ConstantsAssumption DEF Present, Base, NumT, InstT, Inst
<1>3. d \in FrameT /\ d.op = "deactivate" /\ d.list = "temp" /\ d.reg = NULL
  BY <1>1, <1>2, NewFrame DEF FrameT
<1>4. PICK f : f = Fetch(d, t)
  OBVIOUS
<1>5. stack' = <<f>> \o stack /\ (t.kind = "self" => Active(Self))
  BY <1>1, <1>4 DEF InstanceDeactivate, Push
<1>6. /\ Fetched(d, f)
      /\ t.kind = "self" => f.list = "temp" /\ f.reg = Root /\ f.self = Self
      /\ t.kind = "id" => /\ t.of \in Id /\ f.list = "temp"
                          /\ IF main[t.of] = 0 THEN f.reg = NULL
                             ELSE f.reg = Root /\ f.self = who[main[t.of]]
      /\ f.list = "temp" => t.kind \in {"self", "id"}
  BY <1>0, <1>3, <1>4, FetchFacts
<1>7. f \in FrameT /\ f.op = "deactivate" /\ WalkOK(f)
  BY <1>3, <1>6 DEF Fetched
<1>8. ASSUME f.reg # NULL PROVE IF f.list = "temp" THEN Active(f.self) ELSE f.reg \in Members(f.list)
  <2>1. CASE f.list = "temp" /\ t.kind = "self"
    BY <1>5, <1>6, <2>1
  <2>2. CASE f.list = "temp" /\ t.kind = "id"
    <3>1. t.of \in Id /\ main[t.of] # 0 /\ f.self = who[main[t.of]]
      BY <1>6, <1>8, <2>2
    <3>2. main[t.of] \in live
      BY <1>0, <3>1 DEF Base, NodesInv
    <3> QED BY <1>0, <2>2, <3>1, <3>2, LiveFacts
  <2>3. CASE f.list # "temp"
    BY <1>6, <1>8, <2>3 DEF Fetched
  <2> QED BY <1>6, <2>1, <2>2, <2>3
<1>9. FrameOK(f)
  BY <1>7, <1>8 DEF FrameOK
<1> QED BY <1>0, <1>5, <1>7, <1>9, CallStep

\* instance_change is about to destroy what has the id, and to construct again.
LEMMA ChangeCallKeeps ==
  ASSUME Inv, NEW o \in Obj, InstanceChange(o) PROVE Inv'
<1>0. Quiet /\ UNCHANGED pass /\ Call /\ stack # <<>> /\ Top.op = "code" /\ Base /\ Accounts
      /\ calls' \in 0..MaxCalls /\ Len(stack) \in Nat \ {0} /\ stack \in Seq(FrameT)
  BY CallFacts DEF InstanceChange, Quiet, Inv, StackT
<1>1. PICK i : i = id[Self]
  OBVIOUS
<1>2. PICK d : d = [Frame("destroy") EXCEPT !.flag = TRUE]
  OBVIOUS
<1>3. d \in FrameT /\ d.op = "destroy" /\ d.list = "temp" /\ d.reg = NULL /\ d.seen = {}
  BY <1>2, NewFrame DEF FrameT
<1>4. PICK t : t = [kind |-> "id", of |-> i]
  OBVIOUS
<1>5. i \in 1..maxid - 1 /\ i \in Id /\ i \in 0..MaxInst
  <2>1. Self \in 1..insts
    BY <1>0, SelfPresent DEF Present
  <2>2. maxid \in 1..MaxInst + 1
    BY <1>0 DEF Base, NumT
  <2> QED BY <1>0, <1>1, <2>1, <2>2, ConstantsAssumption DEF Base, NodesInv, Id
<1>6. t \in Target /\ t.kind = "id" /\ t.of = i
  BY <1>4, <1>5 DEF Target
<1>7. PICK f : f = Fetch(d, t)
  OBVIOUS
<1>8. /\ Fetched(d, f) /\ f.list = "temp"
      /\ main[i] # 0 => f.reg = Root /\ f.self = who[main[i]]
  BY <1>0, <1>3, <1>6, <1>7, FetchFacts
<1>9. f \in FrameT /\ f.op = "destroy" /\ FrameOK(f)
  BY <1>3, <1>8 DEF Fetched, FrameOK, Ahead
<1>10. PICK g : g = [Frame("change") EXCEPT !.list = o, !.self = i]
  OBVIOUS
<1>11. g \in FrameT /\ g.op = "change" /\ g.list = o /\ g.reg = NULL /\ g.self = i
  BY <1>5, <1>10, NewFrame DEF FrameT, ListName
<1>12. FrameOK(g)
  BY <1>5, <1>11 DEF FrameOK
<1>13. PICK N : N = <<f, g>>
  OBVIOUS
<1>14. N \in Seq(FrameT) /\ Len(N) = 2 /\ N[1] = f /\ N[2] = g
  BY <1>9, <1>11, <1>13
<1>15. stack' = N \o stack
  BY <1>1, <1>2, <1>4, <1>7, <1>10, <1>13 DEF InstanceChange
<1>16. Shifted(N, 0)
  BY <1>14, <1>15, PushShift DEF Inv
<1>17. Placed(N, 0)
  <2>1. \A k \in 1..Len(N) : FrameOK(N[k]) /\ N[k].op \in {"destroy", "change"}
    <3> SUFFICES ASSUME NEW k \in 1..2 PROVE FrameOK(N[k]) /\ N[k].op \in {"destroy", "change"}
      BY <1>14
    <3>1. k = 1 \/ k = 2
      OBVIOUS
    <3> QED BY <1>9, <1>11, <1>12, <1>14, <3>1
  <2>2. \A k \in 1..Len(N) : N[k].op # "loop" /\ N[k].op \notin {"activate", "deactivate"}
    BY <2>1
  <2> QED BY <1>0, <2>1, <2>2 DEF Placed
<1> QED BY <1>0, <1>16, <1>17, QuietStep

\* dispose_destroyed_instances deletes when no call is in progress.
LEMMA DisposeKeeps == ASSUME Inv, Dispose PROVE Inv'
<1>1. /\ stack = <<>> /\ stack' = <<>> /\ freed' = freed \cup cleanups /\ cleanups' = {}
      /\ UNCHANGED <<instVars, listVars, total, deact, calls, pass>>
  BY DEF Dispose
<1>2. /\ insts' = insts /\ id' = id /\ obj' = obj /\ maxid' = maxid /\ acts' = acts
      /\ node' = node /\ who' = who /\ live' = live /\ list' = list /\ main' = main
      /\ count' = count /\ total' = total /\ deact' = deact /\ calls' = calls /\ pass' = pass
  BY <1>1 DEF instVars, listVars
<1>3. Alive' = Alive /\ \A q : Active(q)' <=> Active(q)
  BY <1>1, <1>2 DEF Alive, Active
<1>4. \A l : Members(l)' = Members(l) /\ Key(l)' = Key(l) /\ Belongs(l)' = Belongs(l)
  BY <1>2 DEF Members, Key, Belongs, IsA
<1>5. ListsInv' /\ FreshInv'
  BY <1>2, <1>4 DEF Inv, Base, ListsInv, FreshInv
<1>6. NumT' /\ InstT' /\ NodeT' /\ ListT' /\ MapT'
  BY <1>2 DEF Inv, Base, NumT, InstT, NodeT, ListT, MapT
<1>7. NodesInv'
  BY <1>2 DEF Inv, Base, NodesInv
<1>8. Accounts' /\ CleanInv' /\ SetT'
  BY <1>1, <1>2, <1>3 DEF Inv, Accounts, Accounted, OneInstancePerId, CleanInv, SetT
<1>9. CountInv' /\ CountT' /\ LoadInv'
  BY <1>1, <1>2, <1>4 DEF Inv, CountInv, CountT, LoadInv
<1>10. SeenInv'
  BY <1>1, <1>2 DEF Inv, SeenInv
<1>11. StackInv' /\ StackT'
  BY <1>1 DEF StackInv, StackT
<1> QED BY <1>5, <1>6, <1>7, <1>8, <1>9, <1>10, <1>11 DEF Inv, Base

\* The calls at the start of an event pass.
FirstCalls(N) ==
  \A k \in 1..Len(N) : /\ FrameOK(N[k]) /\ N[k].op # "change"
                       /\ N[k].op = "loop" <=> k = Len(N)
                       /\ N[k].op \in {"activate", "deactivate"} => k = 1

\* The pass starts on the first node of the event list.
LEMMA BeginPassKeeps == ASSUME Inv, BeginPass PROVE Inv'
<1>0. /\ Quiet /\ UNCHANGED calls /\ stack = <<>> /\ insts >= Len(RoomInsts) /\ Base /\ Accounts
      /\ calls' \in 0..MaxCalls
  BY DEF BeginPass, Quiet, Inv, SetT
<1>1. PICK x : x = list["event"].next[Root]
  OBVIOUS
<1>2. PICK f : f = [Frame("loop") EXCEPT !.list = "event"]
  OBVIOUS
<1>3. /\ stack' = IF x = NULL THEN <<>> ELSE Body(f, x)
      /\ pass' = [start |-> live, bound |-> acts, ran |-> {x} \ {NULL}]
  BY <1>1, <1>2 DEF BeginPass
<1>4. DataInv' /\ SetT' /\ Alive' = Alive /\ id' = id
      /\ UNCHANGED <<insts, obj, id, maxid, listVars, freed, deact>>
  BY <1>0, QuietData
<1>5. acts' = acts /\ live' = live /\ list' = list /\ who' = who /\ insts' = insts /\ freed' = freed
  BY <1>4 DEF listVars
<1>6. Seen' = live
  BY <1>0, <1>3, <1>5 DEF Seen, Base, NumT
<1>7. \A n \in live : who[n] \in Present
  <2> SUFFICES ASSUME NEW n \in live PROVE who[n] \in Present
    OBVIOUS
  <2>1. who[n] \in Inst /\ Active(who[n])
    BY <1>0, LiveFacts
  <2>2. who[n] \in Alive
    BY <1>0, <2>1, ActiveAlive
  <2> QED BY <2>2 DEF Alive, Present
<1>8. \A l \in ListName, n \in live : list[l].next[n] \in live \cup {NULL}
  <2> SUFFICES ASSUME NEW l \in ListName, NEW n \in live PROVE list[l].next[n] \in live \cup {NULL}
    OBVIOUS
  <2>1. CASE n \in Members(l)
    BY <1>0, <2>1, ListHead DEF Members
  <2>2. CASE n \notin Members(l)
    <3>1. n \in Act \ Belongs(l)
      BY <1>0, <2>2, LiveFacts DEF Members, Belongs
    <3> QED BY <1>0, <3>1 DEF Base, FreshInv
  <2> QED BY <2>1, <2>2
<1>9. SeenInv'
  <2>1. pass'.start \subseteq 1..acts' /\ pass'.bound \in 0..acts'
    BY <1>0, <1>3, <1>5 DEF Base, NodeT, NumT
  <2> QED BY <1>5, <1>6, <1>7, <1>8, <2>1 DEF SeenInv, Present
<1>10. LoadInv'
  BY <1>0, <1>4, ConstantsAssumption DEF LoadInv, Base, NumT
<1>11. ASSUME x = NULL PROVE \E N \in Seq(FrameT) : stack' = N /\ FirstCalls(N)'
  <2>1. PICK N : N = <<>>
    OBVIOUS
  <2>2. N \in Seq(FrameT) /\ Len(N) = 0 /\ stack' = N
    BY <1>3, <1>11, <2>1
  <2>3. FirstCalls(N)'
    BY <2>2 DEF FirstCalls
  <2> QED BY <2>2, <2>3
<1>12. ASSUME x # NULL PROVE \E N \in Seq(FrameT) : stack' = N /\ FirstCalls(N)'
  <2>1. x \in live /\ x \in Act
    BY <1>0, <1>1, <1>12, ListHead, LiveFacts DEF ListName, Members
  <2>2. f \in FrameT /\ f.op = "loop" /\ f.list = "event" /\ f.reg = NULL /\ f.list # "temp"
    BY <1>2, NewFrame, ConstantsAssumption DEF FrameT, ListName
  <2>3. PICK p : p = who[x]
    OBVIOUS
  <2>4. PICK g : g = [f EXCEPT !.cur = x]
    OBVIOUS
  <2>5. PICK h : h = Code(p)
    OBVIOUS
  <2>6. g \in FrameT /\ g.op = "loop" /\ g.list = "event" /\ g.reg = NULL /\ g.cur = x
    BY <2>1, <2>2, <2>4 DEF FrameT
  <2>7. h \in FrameT /\ h.op = "code" /\ h.list = "temp" /\ h.reg = NULL /\ h.self = p
    BY <1>0, <1>7, <2>1, <2>3, <2>5, CodeFrame DEF FrameOK
  <2>8. FrameOK(g)'
    BY <1>6, <2>1, <2>6 DEF FrameOK
  <2>9. FrameOK(h)'
    BY <1>5, <1>7, <2>1, <2>3, <2>7 DEF FrameOK, Present
  <2>10. PICK N : N = <<h, g>>
    OBVIOUS
  <2>11. N \in Seq(FrameT) /\ Len(N) = 2 /\ N[1] = h /\ N[2] = g
    BY <2>6, <2>7, <2>10
  <2>12. stack' = N
    BY <1>3, <1>12, <2>2, <2>3, <2>4, <2>5, <2>10 DEF Body
  <2>13. \A k \in 1..Len(N) : /\ FrameOK(N[k])' /\ N[k].op # "change"
                              /\ N[k].op = "loop" <=> k = Len(N)
                              /\ N[k].op \in {"activate", "deactivate"} => k = 1
    <3> SUFFICES ASSUME NEW k \in 1..2
                 PROVE  /\ FrameOK(N[k])' /\ N[k].op # "change"
                        /\ N[k].op = "loop" <=> k = 2
                        /\ N[k].op \in {"activate", "deactivate"} => k = 1
      BY <2>11
    <3>1. k = 1 \/ k = 2
      OBVIOUS
    <3> QED BY <2>6, <2>7, <2>8, <2>9, <2>11, <3>1
  <2>14. FirstCalls(N)'
    BY <2>13 DEF FirstCalls
  <2> QED BY <2>11, <2>12, <2>14
<1>13. PICK N \in Seq(FrameT) : stack' = N /\ FirstCalls(N)'
  BY <1>11, <1>12
<1>14. stack' = N \o stack
  <2>1. N \o <<>> = N
    OBVIOUS
  <2> QED BY <1>0, <1>13, <2>1
<1>15. Shifted(N, 0) /\ Len(stack) = 0
  BY <1>0, <1>14, PushShift DEF Inv
<1>16. \A k \in 0 + 1..Len(stack) : FALSE
  BY <1>15
<1>17. \A k \in 1..Len(N) : /\ FrameOK(N[k])' /\ N[k].op # "change"
                            /\ N[k].op = "loop" <=> k = Len(N)
                            /\ N[k].op \in {"activate", "deactivate"} => k = 1
  BY <1>13 DEF FirstCalls
<1>18. StackInv' /\ StackT'
  BY <1>0, <1>15, <1>16, <1>17, StackKept DEF Inv
<1> QED BY <1>4, <1>9, <1>10, <1>18 DEF Inv, DataInv

-----------------------------------------------------------------------------
(* The actions that construct and activate.                                *)

\* The same of the next state.
LEMMA CountTypesAll ==
  Base /\ CountInv /\ count = [o \in Obj |-> count[o]] /\ total = Cardinality(Alive)
    => CountT /\ total \in 0..MaxInst
BY CountTypes

\* In the next state.
LEMMA CountTypesNext ==
  (Base /\ CountInv /\ count = [o \in Obj |-> count[o]] /\ total = Cardinality(Alive)
    => CountT /\ total \in 0..MaxInst)'
BY CountTypesAll, PTL

\* The same for every instance, now
LEMMA CodeFrameAll == Base => \A p \in Present : FrameOK(Code(p))
BY CodeFrame

\* and in the next state.
LEMMA CodeFrameNext == (Base => \A p \in Present : FrameOK(Code(p)))'
BY CodeFrameAll, PTL

\* A new instance can run its Create event.
LEMMA NewCode ==
  ASSUME Base', NEW p \in Inst, p <= insts', p \notin freed'
  PROVE  Code(p) \in FrameT /\ Code(p).op = "code" /\ FrameOK(Code(p))'
<1>1. p \in Present' /\ p \in 0..MaxInst
  BY ConstantsAssumption DEF Inst, Present, Base, NumT
<1>2. FrameOK(Code(p))'
  BY <1>1, CodeFrameNext
<1>3. PICK g : g = Frame("code")
  OBVIOUS
<1>4. g \in FrameT /\ g.op = "code"
  BY <1>3, NewFrame
<1>5. Code(p) = [g EXCEPT !.self = p]
  BY <1>3 DEF Code
<1> QED BY <1>1, <1>2, <1>4, <1>5 DEF FrameT

\* A constructor, given an id that nobody has.
LEMMA ConstructData ==
  ASSUME Inv, NEW i \in Id, NEW o \in Obj, Construct(i, o),
         maxid' \in maxid..MaxInst + 1, i < maxid', UNCHANGED <<deact, cleanups, freed>>,
         \A q \in Alive : id[q] # i
  PROVE  /\ Adding(insts + 1, i, o) /\ insts + 1 \notin freed
         /\ DataInv' /\ (total \in 0..MaxInst)' /\ cleanups' \subseteq Inst /\ freed' \subseteq Inst
         /\ Alive' = Alive \cup {insts + 1}
         /\ insts' = insts + 1 /\ id'[insts + 1] = i /\ \A q \in Alive : id'[q] = id[q]
<1>a. PICK p : p = insts + 1
  OBVIOUS
<1>0. /\ insts < MaxInst /\ insts' = p /\ id' = [id EXCEPT ![p] = i] /\ obj' = [obj EXCEPT ![p] = o]
      /\ total' = total + 1 /\ Activate(p, i, o)
  BY <1>a DEF Construct
<1>1. /\ Base /\ Accounts /\ CleanInv /\ CountInv /\ insts \in Nat /\ MaxInst \in Nat
      /\ id \in [Inst -> 0..MaxInst] /\ obj \in [Inst -> Obj \cup {NoParent}] /\ maxid \in Nat
  BY ConstantsAssumption DEF Inv, Base, NumT, InstT
<1>2. p \in Inst /\ p \in 1..insts' /\ p \notin 1..insts
  BY <1>a, <1>0, <1>1 DEF Inst
<1>3. main[i] = 0 /\ deact[i] = 0
  BY <1>1, IdFree
<1>4. ~Active(p)
  <2>1. node[p] = 0
    BY <1>1, <1>2, <1>a DEF Base, NodesInv
  <2>2. 0 \notin live
    BY <1>1 DEF Base, NodeT
  <2> QED BY <2>1, <2>2 DEF Active
<1>5. /\ id' \in [Inst -> 0..MaxInst] /\ obj' \in [Inst -> Obj \cup {NoParent}]
      /\ id'[p] = i /\ obj'[p] = o
      /\ \A q \in 1..insts : id'[q] = id[q] /\ obj'[q] = obj[q]
  <2>1. i \in 0..MaxInst
    BY <1>1 DEF Id
  <2>2. \A q \in 1..insts : q \in Inst /\ q # p
    BY <1>0, <1>1, <1>2 DEF Inst
  <2> QED BY <1>0, <1>1, <1>2, <2>1, <2>2
<1>6. deact' \in [Id -> 0..MaxInst]
  BY <1>1 DEF Base, MapT
<1>7. insts' \in insts..MaxInst /\ insts' \in {insts, insts + 1}
  BY <1>a, <1>0, <1>1
<1>8. Adding(p, i, o)
  BY <1>0, <1>2, <1>3, <1>4, <1>5, <1>6, <1>7 DEF Adding
<1>9. Base' /\ CountInv' /\ count' = [k \in Obj |-> count'[k]]
  BY <1>1, <1>8, AddBase, AddCount
<1>10. Accounts' /\ CleanInv' /\ Alive' = Alive \cup {p}
  BY <1>a, <1>0, <1>1, <1>8, NewAccounted
<1>11. (CountT /\ total \in 0..MaxInst)'
  <2>1. (total = Cardinality(Alive))'
    BY <1>10 DEF Accounts, Accounted
  <2>2. (Base /\ CountInv /\ count = [k \in Obj |-> count[k]] /\ total = Cardinality(Alive))'
    BY <1>9, <2>1
  <2> QED BY <2>2, CountTypesNext
<1>12. p \notin freed
  BY <1>1, <1>2 DEF CleanInv
<1>13. \A q \in Alive : id'[q] = id[q]
  BY <1>5 DEF Alive
<1>14. cleanups' \subseteq Inst /\ freed' \subseteq Inst
  BY DEF Inv, SetT
<1> QED BY <1>a, <1>0, <1>5, <1>8, <1>9, <1>10, <1>11, <1>12, <1>13, <1>14 DEF DataInv

\* The calls below survive it.
LEMMA AddStack ==
  ASSUME Inv, NEW p, NEW i, NEW o, Adding(p, i, o), p \notin freed, UNCHANGED <<freed, pass>>,
         stack # <<>>, NEW c \in {0, 1},
         c = 0 => Top.op = "code"
  PROVE  /\ SeenInv'
         /\ \A k \in c + 1..Len(stack) : \A f \in FrameT : f = stack[k] => FrameOK(f)'
<1>1. SeenInv'
  BY AddSeen DEF Inv
<1> SUFFICES ASSUME NEW k \in c + 1..Len(stack), NEW f \in FrameT, f = stack[k]
             PROVE  FrameOK(f)'
  BY <1>1
<1>2. k \in 1..Len(stack) /\ (k = 1 => c = 0)
  BY TopFacts
<1>3. FrameOK(f) /\ PlaceOK(k)
  BY <1>2 DEF Inv, StackInv
<1>4. f.op # "activate"
  BY <1>2, <1>3 DEF PlaceOK, Top
<1> QED BY <1>3, <1>4, AddFrame DEF Inv

\* instance_create_id, with the ids of the room.
LEMMA LoadKeeps == ASSUME Inv, LoadInstance PROVE Inv'
<1>a. PICK i : i = insts + 1
  OBVIOUS
<1>b. PICK o : o = RoomInsts[i]
  OBVIOUS
<1>0. /\ stack = <<>> /\ insts < Len(RoomInsts) /\ Construct(i, o)
      /\ UNCHANGED <<maxid, deact, cleanups, freed, stack, calls, pass>>
  BY <1>a, <1>b DEF LoadInstance
<1>1. /\ maxid = Len(RoomInsts) + 1 /\ \A p \in 1..insts : id[p] <= insts
      /\ Base /\ insts \in Nat /\ Len(RoomInsts) <= MaxInst /\ Len(RoomInsts) \in Nat /\ MaxInst \in Nat
  BY <1>0, ConstantsAssumption DEF Inv, LoadInv, Base, NumT
<1>2. i \in Id /\ i \in 1..Len(RoomInsts) /\ i < maxid /\ maxid' \in maxid..MaxInst + 1
  BY <1>a, <1>0, <1>1 DEF Id
<1>3. o \in Obj
  BY <1>b, <1>2, ConstantsAssumption
<1>4. \A q \in Alive : id[q] # i /\ q \in 1..insts
  BY <1>a, <1>1, AliveFacts DEF Id
<1>5. /\ Adding(i, i, o) /\ i \notin freed /\ DataInv' /\ (total \in 0..MaxInst)'
      /\ cleanups' \subseteq Inst /\ freed' \subseteq Inst
      /\ insts' = i /\ id'[i] = i
  BY <1>a, <1>0, <1>2, <1>3, <1>4, ConstructData
<1>6. SeenInv'
  BY <1>0, <1>1, <1>5, AddSeen DEF Inv
<1>7. StackInv' /\ StackT'
  BY <1>0 DEF StackInv, StackT
<1>8. LoadInv'
  <2>1. \A p \in 1..insts : id'[p] = id[p]
    BY <1>5 DEF Adding
  <2>2. \A p \in 1..insts' : p = i \/ p \in 1..insts
    BY <1>a, <1>1, <1>5
  <2>3. \A p \in 1..insts' : id'[p] <= insts'
    <3> SUFFICES ASSUME NEW p \in 1..insts' PROVE id'[p] <= insts'
      OBVIOUS
    <3>1. CASE p = i
      BY <1>a, <1>1, <1>5, <3>1
    <3>2. CASE p # i
      <4>1. p \in 1..insts /\ id'[p] = id[p] /\ id[p] <= insts
        BY <1>1, <2>1, <2>2, <3>2
      <4>2. p \in Inst
        BY <1>0, <1>1, <4>1 DEF Inst
      <4>3. id[p] \in Nat
        BY <1>1, <4>2 DEF Base, InstT
      <4> QED BY <1>a, <1>1, <1>5, <4>1, <4>3
    <3> QED BY <3>1, <3>2
  <2> QED BY <1>0, <1>1, <2>3 DEF LoadInv
<1>9. SetT'
  BY <1>0, <1>5 DEF Inv, SetT
<1> QED BY <1>5, <1>6, <1>7, <1>8, <1>9 DEF Inv, DataInv

\* instance_create takes a new id.
LEMMA CreateKeeps == ASSUME Inv, NEW o \in Obj, InstanceCreate(o) PROVE Inv'
<1>i. PICK i : i = maxid
  OBVIOUS
<1>p. PICK p : p = insts + 1
  OBVIOUS
<1>0. /\ Call /\ i \in Id /\ Construct(i, o) /\ maxid' = maxid + 1
      /\ UNCHANGED <<deact, cleanups, freed, pass>> /\ stack' = <<Code(insts')>> \o stack
  BY <1>i DEF InstanceCreate, Push
<1>1. stack # <<>> /\ Top.op = "code" /\ calls' \in 0..MaxCalls /\ Base /\ maxid \in Nat
      /\ MaxInst \in Nat /\ insts \in Nat /\ Len(stack) \in Nat \ {0} /\ Len(RoomInsts) \in Nat
  BY <1>0, CallFacts, ConstantsAssumption DEF Inv, Base, NumT
<1>2. maxid' \in maxid..MaxInst + 1 /\ i < maxid'
  BY <1>i, <1>0, <1>1 DEF Id
<1>3. \A q \in Alive : id[q] # i
  BY <1>i, <1>1, AliveFacts
<1>4. /\ Adding(p, i, o) /\ p \notin freed /\ DataInv' /\ (total \in 0..MaxInst)'
      /\ cleanups' \subseteq Inst /\ freed' \subseteq Inst
      /\ Alive' = Alive \cup {p} /\ insts' = p /\ id'[p] = i /\ \A q \in Alive : id'[q] = id[q]
  BY <1>p, <1>0, <1>2, <1>3, ConstructData
<1>5. /\ SeenInv'
      /\ \A k \in 0 + 1..Len(stack) : \A f \in FrameT : f = stack[k] => FrameOK(f)'
  BY <1>0, <1>1, <1>4, AddStack
<1>6. PICK f : f = Code(p)
  OBVIOUS
<1>7. f \in FrameT /\ f.op = "code" /\ FrameOK(f)'
  <2>1. p \in Inst /\ p <= insts' /\ p \notin freed' /\ Base'
    BY <1>p, <1>0, <1>1, <1>4 DEF Adding, DataInv
  <2> QED BY <1>6, <2>1, NewCode
<1>8. PICK N : N = <<f>>
  OBVIOUS
<1>9. N \in Seq(FrameT) /\ Len(N) = 1 /\ \A k \in 1..Len(N) : N[k] = f
  BY <1>7, <1>8
<1>10. stack' = N \o stack
  BY <1>0, <1>4, <1>6, <1>8
<1>11. Shifted(N, 0)
  BY <1>9, <1>10, PushShift DEF Inv
<1>12. StackInv' /\ StackT'
  <2>1. \A k \in 1..Len(N) : FrameOK(N[k])'
    <3> SUFFICES ASSUME NEW k \in 1..Len(N) PROVE FrameOK(N[k])'
      OBVIOUS
    <3>1. N[k] = f
      BY <1>9
    <3> QED BY <1>7, <3>1
  <2>2. \A k \in 1..Len(N) : /\ N[k].op = "loop" <=> k = Len(N) /\ 0 = Len(stack)
                             /\ N[k].op \in {"activate", "deactivate"} => k = 1
    BY <1>1, <1>7, <1>9
  <2> QED BY <1>1, <1>5, <1>11, <2>1, <2>2, StackKept DEF Inv
<1>14. LoadInv'
  BY <1>p, <1>1, <1>4 DEF Inv, LoadInv
<1>15. SetT'
  BY <1>1, <1>4 DEF SetT
<1> QED BY <1>4, <1>5, <1>12, <1>14, <1>15 DEF Inv, DataInv

\* One frame that goes on, over the calls below, once the data has changed.
LEMMA TurnStep ==
  ASSUME Inv, stack # <<>>, DataInv', SetT', SeenInv', insts <= insts',
         NEW f \in FrameT, stack' = <<f>> \o Below, FrameOK(f)',
         f.op \notin {"change", "loop"}, Len(stack) # 1,
         \A k \in 1 + 1..Len(stack) : \A g \in FrameT : g = stack[k] => FrameOK(g)'
  PROVE  Inv'
<1>0. PICK N : N = <<f>>
  OBVIOUS
<1>1. N \in Seq(FrameT) /\ Len(N) = 1 /\ \A k \in 1..Len(N) : N[k] = f /\ k = 1
  BY <1>0
<1>2. Shifted(N, 1)
  BY <1>0, <1>1, TailShift DEF Inv, Below
<1>3. \A k \in 1..Len(N) : FrameOK(N[k])'
  <2> SUFFICES ASSUME NEW k \in 1..Len(N) PROVE FrameOK(N[k])'
    OBVIOUS
  <2>1. N[k] = f
    BY <1>1
  <2> QED BY <2>1
<1>4. \A k \in 1..Len(N) : /\ N[k].op = "loop" <=> k = Len(N) /\ 1 = Len(stack)
                           /\ N[k].op \in {"activate", "deactivate"} => k = 1
  BY <1>1
<1>5. StackInv' /\ StackT'
  <2>1. PICK c : c = 1
    OBVIOUS
  <2>2. \A k \in c + 1..Len(stack) : \A g \in FrameT : g = stack[k] => FrameOK(g)'
    BY <2>1
  <2>3. c = 0 => stack = <<>> \/ Top.op \notin {"activate", "deactivate"}
    BY <2>1
  <2>4. \A k \in 1..Len(N) : /\ N[k].op = "loop" <=> k = Len(N) /\ c = Len(stack)
                             /\ N[k].op \in {"activate", "deactivate"} => k = 1
    BY <1>4, <2>1
  <2>5. Shifted(N, c)
    BY <1>2, <2>1
  <2> QED BY <1>3, <2>2, <2>3, <2>4, <2>5, StackKept DEF Inv
<1>6. \A k \in 1..Len(N) : N[k].op # "change"
  BY <1>1
<1>8. LoadInv'
  <2>1. insts \in Nat /\ insts' \in Nat /\ Len(RoomInsts) \in Nat
    BY ConstantsAssumption DEF Inv, DataInv, Base, NumT
  <2>2. insts' < Len(RoomInsts) => insts < Len(RoomInsts)
    BY <2>1
  <2>3. ~(insts < Len(RoomInsts))
    BY DEF Inv, LoadInv
  <2> QED BY <2>2, <2>3 DEF LoadInv
<1> QED BY <1>5, <1>8 DEF Inv, DataInv

\* instance_change constructs with an id that nobody has, if an id names one
\* instance still.
LEMMA ChangeConstructKeeps == ASSUME Inv, ChangeConstruct, OneInstancePerId' PROVE Inv'
<1>i. PICK i : i = Top.self
  OBVIOUS
<1>o. PICK o : o = Top.list
  OBVIOUS
<1>p. PICK p : p = insts + 1
  OBVIOUS
<1>0. /\ stack # <<>> /\ Top.op = "change" /\ Construct(i, o) /\ Base
      /\ UNCHANGED <<maxid, deact, cleanups, freed, calls, pass>>
      /\ stack' = <<Code(who'[main'[i]])>> \o Below
  BY <1>i, <1>o DEF ChangeConstruct, Replace, Inv
<1>1. /\ Top \in FrameT /\ FrameOK(Top) /\ Len(stack) # 1 /\ Len(stack) \in Nat \ {0}
      /\ 1 \in 1..Len(stack) /\ Top = stack[1]
  BY <1>0, TopFacts DEF Top
<1>2. o \in Obj /\ i \in 1..maxid - 1
  BY <1>i, <1>o, <1>0, <1>1 DEF FrameOK
<1>3. i \in Id /\ i < maxid' /\ maxid' \in maxid..MaxInst + 1
  <2>1. maxid \in 1..MaxInst + 1 /\ maxid' = maxid /\ MaxInst \in Nat
    BY <1>0, ConstantsAssumption DEF Base, NumT
  <2> QED BY <1>2, <2>1 DEF Id
<1>4. ASSUME NEW q \in Alive PROVE id[q] # i
  <2>1. insts \in Nat /\ insts < MaxInst /\ MaxInst \in Nat /\ insts' = p /\ CleanInv
    BY <1>p, <1>0, ConstantsAssumption DEF Inv, Base, NumT, Construct
  <2>2. p \in 1..insts' /\ p \in Inst /\ p \notin 1..insts
    BY <1>p, <2>1 DEF Inst
  <2>3. p \in Alive' /\ q \in Alive' /\ q # p
    BY <1>0, <2>1, <2>2, <1>p DEF CleanInv, Alive
  <2>4. q \in Inst /\ id \in [Inst -> 0..MaxInst] /\ id' = [id EXCEPT ![p] = i]
    BY <1>p, <1>0, AliveFacts DEF Base, InstT, Construct
  <2>5. id'[p] = i /\ id'[q] = id[q]
    BY <2>2, <2>3, <2>4
  <2> QED BY <2>3, <2>5 DEF OneInstancePerId
<1>5. /\ Adding(p, i, o) /\ p \notin freed /\ DataInv' /\ (total \in 0..MaxInst)'
      /\ cleanups' \subseteq Inst /\ freed' \subseteq Inst
      /\ Alive' = Alive \cup {p} /\ insts' = p /\ id'[p] = i /\ \A q \in Alive : id'[q] = id[q]
  BY <1>p, <1>0, <1>2, <1>3, <1>4, ConstructData
<1>6. /\ SeenInv'
      /\ \A k \in 1 + 1..Len(stack) : \A g \in FrameT : g = stack[k] => FrameOK(g)'
  BY <1>0, <1>5, AddStack
<1>7. who'[main'[i]] = p
  <2>1. main'[i] = acts + 1 /\ acts + 1 \in Act /\ who'[acts + 1] = p
    BY <1>0, <1>3, <1>5, AddFacts
  <2> QED BY <2>1
<1>8. PICK f : f = Code(p)
  OBVIOUS
<1>9. f \in FrameT /\ f.op = "code" /\ FrameOK(f)'
  <2>0. insts \in Nat
    BY <1>0 DEF Base, NumT
  <2>1. p \in Inst /\ p <= insts' /\ p \notin freed' /\ Base'
    BY <1>p, <1>0, <1>5, <2>0 DEF Adding, DataInv
  <2> QED BY <1>8, <2>1, NewCode
<1>10. stack' = <<f>> \o Below
  BY <1>0, <1>7, <1>8
<1>13. SetT'
  BY <1>0, <1>5 DEF Inv, SetT
<1>14. insts <= insts'
  BY <1>p, <1>0, <1>5 DEF Base, NumT
<1> QED BY <1>0, <1>1, <1>5, <1>6, <1>9, <1>10, <1>13, <1>14, TurnStep

\* What instance_activate_* selected is still deactivated.
LEMMA ActivateTurnKeeps == ASSUME Inv, ActivateTurn PROVE Inv'
<1>0. /\ stack # <<>> /\ Top.op = "activate" /\ Base /\ Accounts /\ CleanInv
      /\ UNCHANGED <<instVars, total, cleanups, freed, calls, pass>>
  BY DEF ActivateTurn, Inv
<1>1. /\ Top \in FrameT /\ FrameOK(Top) /\ Len(stack) # 1 /\ Len(stack) \in Nat \ {0}
      /\ Top.seen \subseteq Id /\ \A i \in Top.seen : deact[i] # 0
      /\ Top.list = "temp" /\ Top.reg = NULL
  BY <1>0, TopFacts DEF FrameOK
<1>2. CASE Top.seen = {}
  <2>1. stack' = Below /\ UNCHANGED <<listVars, deact>>
    BY <1>2 DEF ActivateTurn, Pop
  <2>2. Quiet
    BY <1>0, <2>1 DEF Quiet
    <2> QED BY <1>0, <2>1, <2>2, PopStep
<1>3. CASE Top.seen # {}
  <2>1. PICK i : i = CHOOSE k \in Top.seen : \A j \in Top.seen : k <= j
    OBVIOUS
  <2>2. i \in Top.seen
    <3>1. Top.seen \in SUBSET Nat
      BY <1>1, ConstantsAssumption DEF Id
    <3>2. \E k \in Top.seen : \A j \in Top.seen : k <= j
      BY <1>3, <3>1, LeastOf
    <3> QED BY <2>1, <3>2
  <2>3. PICK p : p = deact[i]
    OBVIOUS
  <2>4. PICK g : g = [Top EXCEPT !.seen = @ \ {i}]
    OBVIOUS
  <2>5. /\ Activate(p, i, obj[p]) /\ deact' = [deact EXCEPT ![i] = 0]
        /\ stack' = <<g>> \o Below
    BY <1>3, <2>1, <2>3, <2>4 DEF ActivateTurn, Replace
  <2>6. i \in Id /\ p # 0 /\ p \in Alive /\ id[p] = i
    BY <1>0, <1>1, <2>2, <2>3 DEF Accounts, Accounted
  <2>7. p \in 1..insts /\ p \in Inst /\ i \in 1..maxid - 1 /\ p \notin freed
    BY <1>0, <2>6, AliveFacts DEF Alive
  <2>8. ~Active(p)
    BY <1>0, <2>3, <2>6 DEF Accounts, Accounted
  <2>9. main[i] = 0
    <3> SUFFICES ASSUME main[i] # 0 PROVE FALSE
      OBVIOUS
    <3>1. main[i] \in live /\ id[who[main[i]]] = i
      BY <1>0, <2>6 DEF Base, NodesInv
    <3>2. who[main[i]] \in Inst /\ Active(who[main[i]])
      BY <1>0, <3>1, LiveFacts
    <3>3. who[main[i]] \in Alive
      BY <1>0, <3>2, ActiveAlive
    <3> QED BY <1>0, <2>6, <2>8, <3>1, <3>2, <3>3 DEF Accounts, Accounted, OneInstancePerId
  <2>10. /\ insts' = insts /\ id' = id /\ obj' = obj /\ maxid' = maxid
         /\ insts \in 0..MaxInst /\ maxid \in 1..MaxInst + 1 /\ MaxInst \in Nat
         /\ id \in [Inst -> 0..MaxInst] /\ obj \in [Inst -> Obj \cup {NoParent}]
         /\ deact \in [Id -> 0..MaxInst]
    BY <1>0, ConstantsAssumption DEF instVars, Base, NumT, InstT, MapT
  <2>11. obj[p] \in Obj
    BY <1>0, <2>7 DEF Base, NodesInv
  <2>12. deact' \in [Id -> 0..MaxInst]
    <3>1. 0 \in 0..MaxInst
      BY <2>10
    <3> QED BY <2>5, <2>10, <3>1
  <2>13. Adding(p, i, obj[p])
    <3>1. insts' \in insts..MaxInst /\ maxid' \in maxid..MaxInst + 1 /\ i < maxid' /\ p \in 1..insts'
      BY <2>7, <2>10
    <3> QED BY <2>5, <2>6, <2>7, <2>8, <2>9, <2>10, <2>11, <2>12, <3>1 DEF Adding
  <2>14. Base' /\ CountInv' /\ count' = [k \in Obj |-> count'[k]]
    BY <2>13, AddBase, AddCount DEF Inv
  <2>15. Accounts' /\ CleanInv' /\ Alive' = Alive
    <3>1. UNCHANGED <<insts, id, obj, total, cleanups, freed>>
      BY <1>0, <2>10
    <3> QED BY <1>0, <2>3, <2>5, <2>13, <3>1, WakeAccounted
  <2>16. (CountT /\ total \in 0..MaxInst)'
    <3>1. (Base /\ CountInv /\ count = [k \in Obj |-> count[k]] /\ total = Cardinality(Alive))'
      BY <2>14, <2>15 DEF Accounts, Accounted
    <3> QED BY <3>1, CountTypesNext
  <2>17. /\ SeenInv'
         /\ \A k \in 1 + 1..Len(stack) : \A f \in FrameT : f = stack[k] => FrameOK(f)'
    BY <1>0, <2>7, <2>13, AddStack
  <2>18. /\ g \in FrameT /\ g.op = "activate" /\ g.list = "temp" /\ g.reg = NULL
         /\ g.seen = Top.seen \ {i}
    BY <1>0, <1>1, <2>4 DEF FrameT
  <2>19. FrameOK(g)'
    <3>1. \A j \in g.seen : j \in Id /\ deact'[j] # 0
      BY <1>1, <2>5, <2>10, <2>18
    <3>2. g.seen \subseteq Id
      BY <3>1
    <3> QED BY <2>18, <3>1, <3>2 DEF FrameOK
  <2>20. SetT' /\ DataInv'
    BY <1>0, <2>14, <2>15, <2>16 DEF Inv, SetT, DataInv
    <2>22. \A k \in 1 + 1..Len(stack) : stack[k].op = "change" =>
           \A q \in Alive' : id'[q] = stack[k].self => q \in Alive /\ id[q] = stack[k].self
    BY <2>10, <2>15
  <2>23. insts <= insts'
    BY <2>10
  <2> QED BY <1>0, <1>1, <2>5, <2>17, <2>18, <2>19, <2>20, <2>22, <2>23, TurnStep
<1> QED BY <1>2, <1>3

-----------------------------------------------------------------------------
(* The actions that deactivate and destroy.                                *)

\* Where a step takes an instance out of its lists, or leaves them alone.
Taking(p) == Removing(p) \/ UNCHANGED listVars

\* All that is said of the lists stays true.
LEMMA TakeData ==
  ASSUME Inv, NEW p, Taking(p), UNCHANGED instVars, deact' \in [Id -> 0..MaxInst]
  PROVE  Base' /\ CountInv' /\ count' = [k \in Obj |-> count'[k]]
<1>1. CASE Removing(p)
  BY <1>1, RemoveBase, RemoveCount DEF Inv
<1>2. CASE UNCHANGED listVars
  <2>1. /\ insts' = insts /\ id' = id /\ obj' = obj /\ maxid' = maxid /\ acts' = acts
        /\ node' = node /\ who' = who /\ live' = live /\ list' = list /\ main' = main
        /\ count' = count
    BY <1>2 DEF instVars, listVars
  <2>2. \A l : Members(l)' = Members(l) /\ Key(l)' = Key(l) /\ Belongs(l)' = Belongs(l)
    BY <2>1 DEF Members, Key, Belongs, IsA
  <2>3. ListsInv' /\ FreshInv'
    BY <2>1, <2>2 DEF Inv, Base, ListsInv, FreshInv
  <2>4. NumT' /\ InstT' /\ NodeT' /\ ListT' /\ MapT'
    BY <2>1 DEF Inv, Base, NumT, InstT, NodeT, ListT, MapT
  <2>5. NodesInv'
    BY <2>1 DEF Inv, Base, NodesInv
  <2>6. CountInv' /\ count' = [k \in Obj |-> count'[k]]
    BY <2>1, <2>2 DEF Inv, CountInv, CountT
  <2> QED BY <2>3, <2>4, <2>5, <2>6 DEF Base
<1> QED BY <1>1, <1>2 DEF Taking

\* The iterators that are registered survive it.
LEMMA TakeStack ==
  ASSUME Inv, NEW p, Taking(p), UNCHANGED instVars, UNCHANGED <<freed, pass>>, stack # <<>>
  PROVE  /\ SeenInv'
         /\ \A k \in 1..Len(stack) : \A f \in FrameT :
              f = stack[k] /\ f.op \notin {"activate", "deactivate"} => FrameOK(f)'
         /\ \A f \in FrameT : f = Top /\ f.list # "temp" /\ f.reg # NULL /\ RegOK(f) => RegOK(f)'
<1>1. CASE Removing(p)
  <2>1. SeenInv'
    BY <1>1, RemoveSeen DEF Inv
  <2>2. ASSUME NEW k \in 1..Len(stack), NEW f \in FrameT, f = stack[k],
               f.op \notin {"activate", "deactivate"}
        PROVE  FrameOK(f)'
    <3>1. FrameOK(f)
      BY <2>2 DEF Inv, StackInv
    <3>2. f.reg # NULL => f.reg \in Registered(f.list)
      BY <2>2 DEF Registered
    <3> QED BY <1>1, <2>2, <3>1, <3>2, RemoveFrame DEF Inv
  <2>3. ASSUME NEW f \in FrameT, f = Top, f.list # "temp", f.reg # NULL, RegOK(f)
        PROVE  RegOK(f)'
    <3>1. f.reg \in Registered(f.list)
      BY <2>3, TopFacts
    <3> QED BY <1>1, <2>3, <3>1, RemoveReg DEF Inv
  <2> QED BY <2>1, <2>2, <2>3
<1>2. CASE UNCHANGED listVars
  <2>1. UNCHANGED <<insts, obj, id, maxid, listVars, freed>>
    BY <1>2 DEF instVars
  <2>2. /\ acts' = acts /\ live' = live /\ list' = list /\ who' = who
    BY <1>2 DEF listVars
  <2>3. Seen' = Seen /\ SeenInv'
    BY <2>1, <2>2 DEF Inv, SeenInv, Seen
  <2>4. ASSUME NEW k \in 1..Len(stack), NEW f \in FrameT, f = stack[k],
               f.op \notin {"activate", "deactivate"}
        PROVE  FrameOK(f)'
    <3>1. FrameOK(f)
      BY <2>4 DEF Inv, StackInv
    <3> QED BY <2>1, <2>3, <2>4, <3>1, SameFrame
  <2>5. \A l : Members(l)' = Members(l)
    BY <2>1, <2>2 DEF Members, IsA
  <2>6. \A f : RegOK(f)' <=> RegOK(f)
    BY <2>2, <2>3, <2>5 DEF RegOK
  <2> QED BY <2>3, <2>4, <2>6
<1> QED BY <1>1, <1>2 DEF Taking

\* Where the walk of the innermost call goes on.
LEMMA TakeWalk ==
  ASSUME Inv, NEW p, Taking(p), UNCHANGED instVars, UNCHANGED <<freed, pass>>,
         deact' \in [Id -> 0..MaxInst], stack # <<>>, stack' # <<>>,
         NEW f \in FrameT, f = Top, WalkOK(f), f.reg # NULL,
         NEW r, r = IF f.list = "temp" THEN NULL ELSE list'[f.list].next[f.reg]
  PROVE  /\ r \in Act \cup {NULL}
         /\ \A g \in FrameT :
              g.list = f.list /\ g.seen = f.seen /\ g.self = f.self /\ g.reg = r =>
                /\ WalkOK(g)'
                /\ g.reg # NULL => g.list # "temp" /\ (g.reg \in Members(g.list))'
                /\ Ahead(f)' /\ (f.list # "temp" => f.reg \notin f.seen \cap live') => Ahead(g)'
<1>0. Base' /\ SeenInv'
  BY TakeData, TakeStack
<1>1. CASE f.list = "temp"
  BY <1>1 DEF WalkOK, Ahead
<1>2. CASE f.list # "temp"
  <2>1. RegOK(f) /\ RegOK(f)' /\ f.list \in Obj \cup {"main"} /\ r = list'[f.list].next[f.reg]
    BY <1>2, TakeStack DEF WalkOK
  <2>2. r \in Act \cup {NULL}
    <3>1. (list[f.list].next[f.reg] \in Members(f.list) \cup {NULL})'
      BY <2>1 DEF RegOK
    <3>2. live' \subseteq Act
      BY <1>0, ConstantsAssumption DEF Base, NumT, NodeT, Act
    <3> QED BY <2>1, <3>1, <3>2 DEF Members
  <2>3. ASSUME NEW g \in FrameT, g.list = f.list, g.seen = f.seen, g.self = f.self, g.reg = r
        PROVE  /\ WalkOK(g)'
               /\ g.reg # NULL => g.list # "temp" /\ (g.reg \in Members(g.list))'
               /\ Ahead(f)' /\ f.reg \notin f.seen \cap live' => Ahead(g)'
    <3>1. /\ g.reg # NULL => RegOK(g)' /\ (g.reg \in Members(g.list))'
          /\ Ahead(f)' /\ f.reg \notin f.seen \cap live' => Ahead(g)'
      BY <1>0, <2>1, <2>3, WalkOnNext
    <3>2. WalkOK(g)'
      BY <1>2, <2>1, <2>3, <3>1 DEF WalkOK
    <3> QED BY <1>2, <2>3, <3>1, <3>2
  <2> QED BY <1>2, <2>2, <2>3
<1> QED BY <1>1, <1>2

\* The innermost call goes on, once it has taken p out.
LEMMA TakeStep ==
  ASSUME Inv, NEW p, Taking(p), UNCHANGED instVars, UNCHANGED <<freed, pass, calls>>,
         deact' \in [Id -> 0..MaxInst], stack # <<>>, Len(stack) # 1,
         Accounts', CleanInv', Alive' \subseteq Alive, cleanups' \subseteq Inst,
         NEW g \in FrameT, stack' = <<g>> \o Below, FrameOK(g)', g.op \notin {"change", "loop"}
  PROVE  Inv'
<1>1. Base' /\ CountInv' /\ count' = [k \in Obj |-> count'[k]]
  BY TakeData
<1>2. (CountT /\ total \in 0..MaxInst)'
  <2>1. (Base /\ CountInv /\ count = [k \in Obj |-> count[k]] /\ total = Cardinality(Alive))'
    BY <1>1 DEF Accounts, Accounted
  <2> QED BY <2>1, CountTypesNext
<1>3. SetT' /\ DataInv'
  BY <1>1, <1>2 DEF Inv, SetT, DataInv
<1>4. SeenInv' /\ \A k \in 1 + 1..Len(stack) : \A f \in FrameT : f = stack[k] => FrameOK(f)'
  <2>1. ASSUME NEW k \in 1 + 1..Len(stack), NEW f \in FrameT, f = stack[k] PROVE FrameOK(f)'
    <3>1. k \in 1..Len(stack) /\ k # 1
      BY TopFacts
    <3>2. f.op \notin {"activate", "deactivate"}
      BY <2>1, <3>1 DEF Inv, StackInv, PlaceOK
    <3> QED BY <2>1, <3>1, <3>2, TakeStack
  <2> QED BY <2>1, TakeStack
<1>5. insts <= insts'
  BY DEF instVars, Inv, Base, NumT
<1> QED BY <1>3, <1>4, <1>5, TurnStep

\* The fields of the frame that goes on.
LEMMA StepFields ==
  ASSUME NEW f \in FrameT, NEW r \in Act \cup {NULL}, NEW g, g = [f EXCEPT !.reg = r]
  PROVE  /\ g \in FrameT /\ g.op = f.op /\ g.list = f.list /\ g.reg = r /\ g.self = f.self
         /\ g.seen = f.seen
BY DEF FrameT

\* The same, once the instance is unlinked.
LEMMA EndFields ==
  ASSUME NEW h \in FrameT, NEW g, g = [h EXCEPT !.op = "destroy"]
  PROVE  /\ g \in FrameT /\ g.op = "destroy" /\ g.list = h.list /\ g.reg = h.reg
         /\ g.self = h.self /\ g.seen = h.seen
BY DEF FrameT

\* What instance_deactivate_* is about to deactivate is linked.
LEMMA AtActive ==
  ASSUME Inv, stack # <<>>, Top.op = "deactivate", Top.reg # NULL
  PROVE  At(Top) \in Inst /\ Active(At(Top))
<1>f. PICK f : f = Top
  OBVIOUS
<1>1. /\ WalkOK(f) /\ Base /\ f.reg # NULL
      /\ IF f.list = "temp" THEN Active(f.self) ELSE f.reg \in Members(f.list)
  BY <1>f, TopFacts DEF FrameOK, Inv
<1>2. CASE f.list = "temp"
  <2>1. At(f) = f.self /\ f.self \in Present
    BY <1>1, <1>2 DEF WalkOK, At
  <2> QED BY <1>f, <1>1, <1>2, <2>1, ConstantsAssumption DEF Present, Base, NumT, Inst
<1>3. CASE f.list # "temp"
  <2>1. At(f) = who[f.reg] /\ f.reg \in live
    BY <1>1, <1>3 DEF At, Members
  <2> QED BY <1>f, <1>1, <2>1, LiveFacts
<1> QED BY <1>2, <1>3

\* Every instance instance_deactivate_* meets is linked.
LEMMA DeactivateTurnKeeps == ASSUME Inv, DeactivateTurn PROVE Inv'
<1>f. PICK f : f = Top
  OBVIOUS
<1>0. /\ stack # <<>> /\ f.op = "deactivate" /\ Base /\ SeenInv /\ Accounts /\ CleanInv
      /\ UNCHANGED <<instVars, total, cleanups, freed, calls, pass>>
  BY <1>f DEF DeactivateTurn, Inv
<1>1. /\ f \in FrameT /\ FrameOK(f) /\ WalkOK(f) /\ Len(stack) # 1
      /\ f.reg # NULL => IF f.list = "temp" THEN Active(f.self) ELSE f.reg \in Members(f.list)
  BY <1>f, <1>0, TopFacts DEF FrameOK
<1>3. CASE f.reg = NULL
  <2>1. stack' = Below /\ Quiet
    BY <1>f, <1>0, <1>3 DEF DeactivateTurn, Pop, Quiet
  <2> QED BY <1>0, <2>1, PopStep
<1>p. PICK p : p = At(f)
  OBVIOUS
<1>4. CASE f.reg # NULL /\ f.flag /\ id[p] = f.cur
  <2>1. PICK r : r = After(f, f.reg)
    OBVIOUS
  <2>2. PICK g : g = [f EXCEPT !.reg = r]
    OBVIOUS
  <2>3. stack' = <<g>> \o Below /\ Quiet
    BY <1>f, <1>0, <1>p, <1>4, <2>1, <2>2 DEF DeactivateTurn, Replace, Quiet
  <2>4. ASSUME f.list # "temp"
        PROVE  RegOK(f) /\ r = list[f.list].next[f.reg] /\ r \in Act \cup {NULL}
    <3>1. RegOK(f) /\ r = list[f.list].next[f.reg]
      BY <1>1, <1>4, <2>1, <2>4 DEF WalkOK, After
    <3> QED BY <1>0, <3>1, ListHead DEF RegOK
  <2>5. (f.list = "temp" => r = NULL) /\ r \in Act \cup {NULL}
    BY <2>1, <2>4 DEF After
  <2>6. /\ g \in FrameT /\ g.op = "deactivate" /\ g.list = f.list /\ g.reg = r /\ g.self = f.self
        /\ g.seen = f.seen
    BY <1>0, <1>1, <2>2, <2>5, StepFields
  <2>7. WalkOK(g) /\ (g.reg # NULL => g.list # "temp" /\ g.reg \in Members(g.list))
    <3>1. CASE f.list = "temp"
      BY <1>1, <2>5, <2>6, <3>1 DEF WalkOK
    <3>2. CASE f.list # "temp"
      <4>1. g.reg # NULL => RegOK(g) /\ g.reg \in Members(g.list)
        BY <1>0, <1>1, <2>4, <2>6, <3>2, WalkOn
      <4>2. g.list \in Obj \cup {"main"}
        BY <1>1, <2>6, <3>2 DEF WalkOK
      <4> QED BY <2>6, <3>2, <4>1, <4>2 DEF WalkOK
    <3> QED BY <3>1, <3>2
  <2>8. FrameOK(g)
    BY <2>6, <2>7 DEF FrameOK
  <2> QED BY <1>0, <1>1, <2>3, <2>6, <2>8, ReplaceStep
<1>5. CASE f.reg # NULL /\ ~(f.flag /\ id[p] = f.cur)
  <2>1. PICK r : r = IF f.list = "temp" THEN NULL ELSE list'[f.list].next[f.reg]
    OBVIOUS
  <2>2. PICK g : g = [f EXCEPT !.reg = r]
    OBVIOUS
  <2>3. /\ stack' = <<g>> \o Below /\ Deactivate(p)
        /\ deact' = [deact EXCEPT ![id[p]] = IF @ = 0 THEN p ELSE @]
    BY <1>f, <1>p, <1>5, <2>1, <2>2 DEF DeactivateTurn, Replace, Step
  <2>4. p \in Inst /\ Active(p)
    BY <1>f, <1>0, <1>p, <1>5, AtActive
  <2>5. p \in Inst /\ id[p] \in Id /\ p \in 0..MaxInst
    BY <1>0, <2>4, ActiveAlive, AliveFacts, ConstantsAssumption DEF Inst
  <2>6. deact' \in [Id -> 0..MaxInst]
    <3>1. deact \in [Id -> 0..MaxInst]
      BY <1>0 DEF Base, MapT
    <3> QED BY <2>3, <2>5, <3>1
  <2>7. Removing(p) /\ Sleeping(p) /\ Taking(p)
    BY <1>0, <2>3, <2>4, <2>6 DEF Removing, Sleeping, Taking
  <2>8. Accounts' /\ CleanInv' /\ Alive' = Alive
    BY <1>0, <2>7, SleepingAccounted
  <2>9. stack' # <<>>
    <3>1. \A a : \A S \in Seq(FrameT) : <<a>> \o S # <<>>
      OBVIOUS
    <3>2. Below \in Seq(FrameT)
      BY <1>0 DEF Below, Inv, StackT
    <3> QED BY <2>3, <3>1, <3>2
  <2>10. /\ r \in Act \cup {NULL}
         /\ \A k \in FrameT :
              k.list = f.list /\ k.seen = f.seen /\ k.self = f.self /\ k.reg = r =>
                /\ WalkOK(k)'
                /\ k.reg # NULL => k.list # "temp" /\ (k.reg \in Members(k.list))'
    BY <1>f, <1>0, <1>1, <1>5, <2>1, <2>6, <2>7, <2>9, TakeWalk
  <2>11. /\ g \in FrameT /\ g.op = "deactivate" /\ g.list = f.list /\ g.reg = r /\ g.self = f.self
         /\ g.seen = f.seen
    BY <1>0, <1>1, <2>2, <2>10, StepFields
  <2>12. FrameOK(g)'
    BY <2>10, <2>11 DEF FrameOK
  <2>13. cleanups' \subseteq Inst
    BY <1>0 DEF Inv, SetT
  <2> QED BY <1>0, <1>1, <2>3, <2>6, <2>7, <2>8, <2>11, <2>12, <2>13, TakeStep
<1> QED BY <1>3, <1>4, <1>5

\* The instance that is unlinked is still there, and is not met again.
LEMMA DestroyUnlinkKeeps == ASSUME Inv, DestroyUnlink PROVE Inv'
<1>f. PICK f : f = Top
  OBVIOUS
<1>p. PICK p : p = At(f)
  OBVIOUS
<1>r. PICK r : r = IF f.list = "temp" THEN NULL ELSE list'[f.list].next[f.reg]
  OBVIOUS
<1>h. PICK h : h = [f EXCEPT !.reg = r]
  OBVIOUS
<1>g. PICK g : g = [h EXCEPT !.op = "destroy"]
  OBVIOUS
<1>0. /\ stack # <<>> /\ f.op = "unlink" /\ Base /\ SeenInv /\ Accounts /\ CleanInv
      /\ UNCHANGED <<instVars, freed, calls, pass>> /\ stack' = <<g>> \o Below
      /\ IF p \in cleanups THEN UNCHANGED <<listVars, total, deact, cleanups>> ELSE Unlink(p)
  BY <1>f, <1>p, <1>r, <1>h, <1>g DEF DestroyUnlink, Inv, Replace, Step
<1>1. /\ f \in FrameT /\ FrameOK(f) /\ WalkOK(f) /\ f.reg # NULL /\ Ahead(f) /\ Len(stack) # 1
  BY <1>f, <1>0, TopFacts DEF FrameOK
<1>2. stack' # <<>>
  <2>1. \A a : \A S \in Seq(FrameT) : <<a>> \o S # <<>>
    OBVIOUS
  <2>2. Below \in Seq(FrameT)
    BY <1>0 DEF Below, Inv, StackT
  <2> QED BY <1>0, <2>1, <2>2
<1>3. p \in Present
  BY <1>0, <1>1, <1>p, AtPresent
<1>4. /\ Taking(p) /\ deact' \in [Id -> 0..MaxInst] /\ Accounts' /\ CleanInv'
      /\ Alive' \subseteq Alive /\ p \notin Alive' /\ p \in cleanups'
  <2>1. CASE p \in cleanups
    <3>1. Alive' = Alive /\ p \notin Alive /\ Taking(p) /\ p \in cleanups'
      BY <1>0, <2>1 DEF Alive, Taking, instVars
    <3>2. \A q : Active(q)' <=> Active(q)
      BY <1>0, <2>1 DEF Active, listVars
    <3>3. Accounts' /\ CleanInv'
      BY <1>0, <2>1, <3>1, <3>2 DEF Accounts, Accounted, OneInstancePerId, CleanInv, instVars
    <3>4. deact' \in [Id -> 0..MaxInst]
      BY <1>0, <2>1 DEF Base, MapT
    <3> QED BY <3>1, <3>3, <3>4
  <2>2. CASE p \notin cleanups
    <3>1. Ending(p)
      BY <1>0, <1>3, <2>2 DEF Ending, Present, Alive, instVars
    <3>2. Accounts' /\ CleanInv' /\ Alive' = Alive \ {p} /\ p \in cleanups'
      BY <1>0, <3>1, EndingAccounted DEF Ending, Unlink
    <3>3. Taking(p) /\ deact' \in [Id -> 0..MaxInst]
      BY <1>0, <3>1, EndingCases DEF Taking
    <3> QED BY <3>2, <3>3
  <2> QED BY <2>1, <2>2
<1>5. /\ r \in Act \cup {NULL}
      /\ \A k \in FrameT :
           k.list = f.list /\ k.seen = f.seen /\ k.self = f.self /\ k.reg = r =>
             /\ WalkOK(k)'
             /\ Ahead(f)' /\ (f.list # "temp" => f.reg \notin f.seen \cap live') => Ahead(k)'
  BY <1>f, <1>0, <1>1, <1>2, <1>4, <1>r, TakeWalk
<1>6. /\ g \in FrameT /\ g.op = "destroy" /\ g.list = f.list /\ g.reg = r /\ g.self = f.self
      /\ g.seen = f.seen
  <2>1. r \in Act \cup {NULL}
    BY <1>5
  <2>2. /\ h \in FrameT /\ h.list = f.list /\ h.reg = r /\ h.self = f.self
        /\ h.seen = f.seen
    BY <1>1, <1>h, <2>1, StepFields
  <2> QED BY <1>g, <2>2, EndFields
<1>7. Ahead(f)'
  <2>1. 1 \in 1..Len(stack) /\ f = stack[1]
    BY <1>f, <1>0, TopFacts DEF Top
  <2>2. FrameOK(f)'
    BY <1>0, <1>1, <1>4, <2>1, TakeStack
  <2> QED BY <1>0, <2>2 DEF FrameOK
<1>8. f.list # "temp" => f.reg \notin f.seen \cap live'
  <2> SUFFICES ASSUME f.list # "temp", f.reg \in live' PROVE FALSE
    OBVIOUS
  <2>1. f.reg \in live /\ who' = who /\ node' = node
    <3>1. CASE Removing(p)
      BY <1>0, <3>1, RemoveFacts
    <3>2. CASE UNCHANGED listVars
      BY <3>2 DEF listVars
    <3> QED BY <1>4, <3>1, <3>2 DEF Taking
  <2>2. p = who[f.reg] /\ node[p] = f.reg
    BY <1>0, <1>p, <2>1, LiveFacts DEF At
  <2>3. ~Active(p)'
    BY <1>4 DEF Accounts, Accounted
  <2> QED BY <2>1, <2>2, <2>3 DEF Active
<1>9. FrameOK(g)'
  BY <1>5, <1>6, <1>7, <1>8 DEF FrameOK
<1>11. cleanups' \subseteq Inst
  <2>1. insts' \in 0..MaxInst
    BY <1>0 DEF Base, NumT, instVars
  <2> QED BY <1>4, <2>1, ConstantsAssumption DEF CleanInv, Inst
<1> QED BY <1>0, <1>1, <1>4, <1>6, <1>9, <1>11, TakeStep

-----------------------------------------------------------------------------
(* The invariant is inductive.                                             *)

\* The invariant holds before the first instance,
LEMMA InitInv == Init => Inv
<1> SUFFICES ASSUME Init PROVE Inv
  OBVIOUS
<1>0. /\ insts = 0 /\ acts = 0 /\ live = {} /\ total = 0 /\ cleanups = {} /\ freed = {}
      /\ stack = <<>> /\ calls = 0 /\ maxid = Len(RoomInsts) + 1
      /\ id = [p \in Inst |-> 0] /\ obj = [p \in Inst |-> NoParent]
      /\ node = [p \in Inst |-> 0] /\ who = [n \in Act |-> 0]
      /\ list = [l \in ListName |-> EmptyList]
      /\ main = [i \in Id |-> 0] /\ deact = [i \in Id |-> 0] /\ count = [o \in Obj |-> 0]
      /\ pass = [start |-> {}, bound |-> 0, ran |-> {}]
  BY DEF Init, ListName
<1>c. MaxInst \in Nat /\ MaxAct \in Nat /\ MaxCalls \in Nat /\ Len(RoomInsts) \in 0..MaxInst
  BY ConstantsAssumption
<1>1. NumT /\ InstT /\ NodeT /\ MapT /\ CountT /\ SetT /\ StackT
  <2>1. NumT
    BY <1>0, <1>c DEF NumT
  <2>2. InstT /\ NodeT /\ MapT /\ CountT
    BY <1>0, <1>c DEF InstT, NodeT, MapT, CountT
  <2>3. SetT /\ StackT
    BY <1>0, <1>c DEF SetT, StackT
  <2> QED BY <2>1, <2>2, <2>3
<1>2. /\ EmptyList \in ListType
      /\ \A x \in 0..MaxAct : EmptyList.next[x] = NULL
      /\ EmptyList.prev[Root] = Root /\ Root \in 0..MaxAct
  BY <1>c DEF EmptyList, ListType, Root
<1>3. ListT /\ \A l \in ListName : list[l] = EmptyList
  BY <1>0, <1>2 DEF ListT
<1>4. \A l : Members(l) = {}
  BY <1>0 DEF Members
<1>5. ListsInv
  BY <1>2, <1>3, <1>4 DEF ListsInv, LinkedBy
<1>6. FreshInv
  BY <1>2, <1>3, <1>c DEF FreshInv, Act
<1>7. NodesInv
  BY <1>0 DEF NodesInv
<1>8. CountInv
  BY <1>0, <1>4, FS_EmptySet DEF CountInv
<1>9. Alive = {}
  BY <1>0 DEF Alive
<1>10. Accounts
  BY <1>0, <1>9, FS_EmptySet DEF Accounts, Accounted, OneInstancePerId
<1>11. CleanInv /\ LoadInv
  BY <1>0 DEF CleanInv, LoadInv
<1>12. SeenInv
  BY <1>0 DEF SeenInv
<1>13. 1..Len(stack) = {}
  BY <1>0
<1>14. StackInv
  BY <1>13 DEF StackInv
<1> QED BY <1>1, <1>3, <1>5, <1>6, <1>7, <1>8, <1>10, <1>11, <1>12, <1>14 DEF Inv, Base

\* and every step preserves it, but the one that may reuse an id.
LEMMA StepsInv == Inv /\ (Steps \/ UNCHANGED vars) => Inv' \/ ChangeConstruct
<1> SUFFICES ASSUME Inv, Steps \/ UNCHANGED vars PROVE Inv' \/ ChangeConstruct
  OBVIOUS
<1>1. CASE LoadInstance
  BY <1>1, LoadKeeps
<1>2. CASE BeginPass
  BY <1>2, BeginPassKeeps
<1>3. CASE Return
  BY <1>3, ReturnKeeps
<1>4. CASE Advance
  BY <1>4, AdvanceKeeps
<1>5. CASE Dispose
  BY <1>5, DisposeKeeps
<1>6. ASSUME NEW o \in Obj, InstanceCreate(o) PROVE Inv'
  BY <1>6, CreateKeeps
<1>7. ASSUME NEW o \in Obj, InstanceChange(o) PROVE Inv'
  BY <1>7, ChangeCallKeeps
<1>8. ASSUME NEW t \in Target, With(t) PROVE Inv'
  BY <1>8, WithKeeps
<1>9. ASSUME NEW t \in Target, InstanceDestroy(t) PROVE Inv'
  BY <1>9, DestroyCallKeeps
<1>10. ASSUME NEW t \in Target, InstanceActivate(t) PROVE Inv'
  BY <1>10, ActivateCallKeeps
<1>11. ASSUME NEW t \in Target, NEW notme \in BOOLEAN, InstanceDeactivate(t, notme) PROVE Inv'
  BY <1>11, DeactivateCallKeeps
<1>12. CASE DestroyTurn
  BY <1>12, DestroyTurnKeeps
<1>13. CASE DestroyUnlink
  BY <1>13, DestroyUnlinkKeeps
<1>14. CASE DeactivateTurn
  BY <1>14, DeactivateTurnKeeps
<1>15. CASE ActivateTurn
  BY <1>15, ActivateTurnKeeps
<1>16. CASE ChangeConstruct
  BY <1>16
<1>17. CASE UNCHANGED vars
  <2>1. /\ Quiet /\ stack' = stack /\ calls' = calls /\ pass' = pass
        /\ insts' = insts /\ id' = id /\ maxid' = maxid /\ acts' = acts /\ who' = who
        /\ live' = live /\ list' = list /\ freed' = freed /\ calls' \in 0..MaxCalls
    BY <1>17 DEF vars, Quiet, instVars, listVars, Inv, SetT
  <2>2. /\ DataInv' /\ SetT' /\ Alive' = Alive
        /\ UNCHANGED <<insts, obj, id, maxid, listVars, freed, deact>>
    BY <2>1, QuietData
  <2>3. Seen' = Seen /\ SeenInv' /\ LoadInv' /\ StackT'
    BY <2>1, <2>2 DEF Inv, Seen, SeenInv, LoadInv, StackT
  <2>4. StackInv'
    <3> SUFFICES ASSUME NEW k \in 1..Len(stack) PROVE FrameOK(stack[k])' /\ PlaceOK(k)'
      BY <2>1 DEF StackInv
    <3>1. PICK f : f = stack[k]
      OBVIOUS
    <3>2. FrameOK(f)' /\ PlaceOK(k)'
      BY <2>1, <2>2, <2>3, <3>1, SameFrame DEF Inv, StackInv, PlaceOK
    <3> QED BY <2>1, <3>1, <3>2
  <2> QED BY <2>2, <2>3, <2>4 DEF Inv, DataInv
<1> QED BY <1>1, <1>2, <1>3, <1>4, <1>5, <1>6, <1>7, <1>8, <1>9, <1>10, <1>11, <1>12, <1>13,
           <1>14, <1>15, <1>16, <1>17 DEF Steps

\* An instance_change that reuses an id changes nothing else that the types
\* would not allow: its lists may be wrong, but not ill-formed.
LEMMA ClashTypes == ASSUME Inv, ChangeConstruct PROVE TypeOK' /\ DestroyReachesAll'
<1>i. PICK i : i = Top.self
  OBVIOUS
<1>o. PICK o : o = Top.list
  OBVIOUS
<1>p. PICK p : p = insts + 1
  OBVIOUS
<1>a. PICK a : a = acts + 1
  OBVIOUS
<1>0. /\ stack # <<>> /\ Top.op = "change" /\ Base /\ Construct(i, o) /\ Activate(p, i, o)
      /\ UNCHANGED <<maxid, deact, cleanups, freed, calls, pass>>
      /\ stack' = <<Code(who'[main'[i]])>> \o Below
  BY <1>i, <1>o, <1>p DEF ChangeConstruct, Replace, Inv, Construct
<1>c. MaxInst \in Nat /\ MaxAct \in Nat
  BY ConstantsAssumption
<1>1. o \in Obj /\ i \in Id /\ i \in 0..MaxInst
  <2>1. o \in Obj /\ i \in 1..maxid - 1
    BY <1>i, <1>o, <1>0, TopFacts DEF FrameOK
  <2> QED BY <1>0, <1>c, <2>1 DEF Base, NumT, Id
<1>2. /\ insts \in Nat /\ insts < MaxInst /\ p \in 1..MaxInst /\ insts' = p /\ total' = total + 1
      /\ id' = [id EXCEPT ![p] = i] /\ obj' = [obj EXCEPT ![p] = o]
      /\ acts \in Nat /\ acts < MaxAct /\ a \in 1..MaxAct /\ acts' = a
  BY <1>p, <1>a, <1>0, <1>c DEF Construct, Activate, Base, NumT
<1>3. /\ node' = [node EXCEPT ![p] = a] /\ who' = [who EXCEPT ![a] = p] /\ live' = live \cup {a}
      /\ main' = [main EXCEPT ![i] = IF @ = 0 THEN a ELSE @]
      /\ count' = [k \in Obj |-> IF k \in Lineage(o) THEN count[k] + 1 ELSE count[k]]
  BY <1>a, <1>0 DEF Activate
<1>4. NumT' /\ InstT' /\ NodeT'
  <2>1. NumT'
    BY <1>0, <1>2, <1>c DEF Base, NumT
  <2>2. InstT'
    BY <1>0, <1>1, <1>2, <1>c DEF Base, InstT, Inst
  <2>3. NodeT'
    <3>0. /\ node \in [Inst -> 0..MaxAct] /\ who \in [Act -> 0..MaxInst] /\ live \subseteq 1..acts
          /\ a \in 0..MaxAct /\ p \in 0..MaxInst /\ a = acts + 1 /\ acts \in Nat
      BY <1>0, <1>2, <1>a, <1>c DEF Base, NodeT
    <3>1. live' \subseteq 1..acts'
      BY <1>2, <1>3, <3>0
    <3>2. node' \in [Inst -> 0..MaxAct]
      BY <1>3, <3>0
    <3>3. who' \in [Act -> 0..MaxInst]
      BY <1>3, <3>0
    <3> QED BY <3>1, <3>2, <3>3 DEF NodeT
  <2> QED BY <2>1, <2>2, <2>3
<1>5. MapT' /\ main'[i] \in Act
  BY <1>0, <1>1, <1>2, <1>3, <1>c DEF Base, MapT, Act
<1>6. CountT'
  <2>1. \A k \in Obj : count[k] \in 0..insts
    BY <1>0, MembersFinite DEF Inv, CountInv
  <2>2. \A k \in Obj : count'[k] \in 0..MaxInst
    BY <1>2, <1>3, <1>c, <2>1
  <2> QED BY <1>3, <2>2 DEF CountT
<1>7. SetT'
  <2>1. total \in 0..insts
    BY <1>0, AliveFinite DEF Inv, Accounts, Accounted
  <2> QED BY <1>0, <1>2, <1>c, <2>1 DEF Inv, SetT
<1>8. StackT' /\ Top.op' = "code"
  <2>1. who'[main'[i]] \in 0..MaxInst
    BY <1>4, <1>5 DEF NodeT
  <2>2. Code(who'[main'[i]]) \in FrameT
    <3>1. Frame("code") \in FrameT
      BY NewFrame
    <3> QED BY <2>1, <3>1 DEF Code, FrameT
  <2>3. PICK f : f = Code(who'[main'[i]])
    OBVIOUS
  <2>4. PICK N : N = <<f>>
    OBVIOUS
  <2>5. N \in Seq(FrameT)
    BY <2>2, <2>3, <2>4
  <2>6. Shifted(N, 1)
    BY <1>0, <2>3, <2>4, <2>5, TailShift DEF Inv, Below
  <2>7. Len(N) = 1 /\ N[1] = f /\ f.op = "code"
    BY <2>3, <2>4 DEF Code, Frame
  <2>8. stack'[1] = f
    BY <2>6, <2>7 DEF Shifted
  <2> QED BY <2>6, <2>7, <2>8 DEF Shifted, StackT, Top
<1>9. ListT'
  <2>1. list' = [l \in ListName |->
                   IF l = "main" THEN IF main[i] = 0 THEN Inserted(list[l], a, i) ELSE list[l]
                   ELSE IF l = "event" \/ l \in Lineage(o) THEN Appended(list[l], a) ELSE list[l]]
    BY <1>a, <1>0 DEF Activate, Base, ListT
  <2>2. \A l \in ListName : list[l] \in ListType
    BY <1>0 DEF Base, ListT
  <2>3. ASSUME NEW L \in ListType PROVE Appended(L, a) \in ListType
    <3>1. PICK n1, p1 : /\ Appended(L, a) = [next |-> n1, prev |-> p1]
                        /\ n1 = [L.next EXCEPT ![L.prev[Root]] = a, ![a] = NULL]
                        /\ p1 = [L.prev EXCEPT ![a] = L.prev[Root], ![Root] = a]
      BY DEF Appended
    <3>2. a \in Act /\ Root \in 0..MaxAct /\ L.prev[Root] \in Act \cup {Root, NULL}
      BY <1>2, <1>c DEF ListType, Act, Root
    <3>3. n1 \in [0..MaxAct -> Act \cup {NULL}]
      BY <3>1, <3>2 DEF ListType
    <3>4. p1 \in [0..MaxAct -> Act \cup {Root, NULL}]
      BY <3>1, <3>2 DEF ListType
    <3> QED BY <3>1, <3>3, <3>4 DEF ListType
  <2>4. ASSUME NEW L \in ListType PROVE Inserted(L, a, i) \in ListType
    <3>1. PICK pred, succ : 
            /\ Inserted(L, a, i) =
                 [next |-> [L.next EXCEPT ![pred] = a, ![a] = succ],
                  prev |-> [x \in 0..MaxAct |->
                              IF x = a THEN pred
                              ELSE IF x = succ \/ (x = Root /\ succ = NULL) THEN a ELSE L.prev[x]]]
            /\ pred \in Act \cup {Root} /\ succ \in Act \cup {NULL}
      <4> DEFINE below == {j \in Id : j < i /\ main[j] # 0}
                 above == {j \in Id : j > i /\ main[j] # 0}
                 least == CHOOSE j \in above : \A k \in above : j <= k
                 most == CHOOSE j \in below : \A k \in below : k <= j
                 pred == IF below = {} THEN Root ELSE main[most]
                 succ == IF above = {} THEN NULL ELSE main[least]
      <4>1. \A j \in Id : main[j] # 0 => main[j] \in Act
        BY <1>0, <1>c DEF Base, MapT, Act
      <4>2. below # {} => most \in Id /\ main[most] # 0
        <5>1. below \in SUBSET (1..MaxInst)
          BY DEF Id
        <5>2. below # {} => \E j \in below : \A k \in below : k <= j
          BY <1>c, <5>1, GreatestOf
        <5>3. below # {} => most \in below
          BY <5>2
        <5> QED BY <5>3
      <4>3. above # {} => least \in Id /\ main[least] # 0
        <5>1. above \in SUBSET Nat
          BY <1>c DEF Id
        <5>2. above # {} => \E j \in above : \A k \in above : j <= k
          BY <5>1, LeastOf
        <5>3. above # {} => least \in above
          BY <5>2
        <5> QED BY <5>3
      <4>4. pred \in Act \cup {Root} /\ succ \in Act \cup {NULL}
        BY <4>1, <4>2, <4>3
      <4>5. Inserted(L, a, i) =
                 [next |-> [L.next EXCEPT ![pred] = a, ![a] = succ],
                  prev |-> [x \in 0..MaxAct |->
                              IF x = a THEN pred
                              ELSE IF x = succ \/ (x = Root /\ succ = NULL) THEN a ELSE L.prev[x]]]
        BY DEF Inserted
      <4> HIDE DEF pred, succ
      <4> QED BY <4>4, <4>5
    <3>2. a \in Act
      BY <1>2, <1>c DEF Act
    <3>3. [L.next EXCEPT ![pred] = a, ![a] = succ] \in [0..MaxAct -> Act \cup {NULL}]
      BY <3>1, <3>2 DEF ListType
    <3>4. [x \in 0..MaxAct |->
             IF x = a THEN pred
             ELSE IF x = succ \/ (x = Root /\ succ = NULL) THEN a ELSE L.prev[x]]
            \in [0..MaxAct -> Act \cup {Root, NULL}]
      BY <3>1, <3>2 DEF ListType
    <3> QED BY <3>1, <3>3, <3>4 DEF ListType
  <2> QED BY <2>1, <2>2, <2>3, <2>4 DEF ListT
<1> QED BY <1>4, <1>5, <1>6, <1>7, <1>8, <1>9, TypePartsPrimed DEF DestroyReachesAll

\* The invariant implies the type of every variable.
LEMMA InvTypes == Inv => TypeOK
BY TypeParts DEF Inv, Base

\* It implies that what instance_destroy has passed is unlinked.
LEMMA InvReaches == Inv => DestroyReachesAll
<1> SUFFICES ASSUME Inv, stack # <<>>, Top.op = "destroy", Top.reg = NULL, NEW n \in Top.seen
             PROVE  n \notin live
  BY DEF DestroyReachesAll
<1>1. Ahead(Top)
  BY TopFacts DEF FrameOK
<1>2. Top.list # "temp"
  BY <1>1 DEF Ahead
<1> QED BY <1>1, <1>2 DEF Ahead

\* The invariant of every state: what the lists, the counts, the walks and
\* the calls in progress say of each other, as long as ids name one instance.
Sound == TypeOK /\ DestroyReachesAll /\ (OneInstancePerId => Inv)

\* Steps keep it; a clash is made by instance_change alone.
LEMMA NextSound == Sound /\ [Next]_vars => Sound'
<1> SUFFICES ASSUME Sound, [Next]_vars PROVE Sound'
  OBVIOUS
<1>1. CASE OneInstancePerId
  <2>1. Inv /\ (Steps \/ UNCHANGED vars)
    BY <1>1 DEF Sound, Next, Clashed
  <2>2. ASSUME Inv' PROVE Sound'
    <3>1. (Inv => TypeOK /\ DestroyReachesAll)'
      BY InvTypes, InvReaches, PTL
    <3> QED BY <2>2, <3>1 DEF Sound
  <2>3. CASE ChangeConstruct
    BY <2>1, <2>3, ClashTypes, ChangeConstructKeeps DEF Sound
  <2> QED BY <2>1, <2>2, <2>3, StepsInv
<1>2. CASE ~OneInstancePerId
  <2>1. UNCHANGED vars
    BY <1>2 DEF Next, Clashed
  <2>2. TypeOK' /\ DestroyReachesAll' /\ Alive' = Alive /\ id' = id
    BY <2>1 DEF Sound, vars, TypeOK, Frames, Alive, DestroyReachesAll, Top
  <2> QED BY <1>2, <2>2 DEF Sound, OneInstancePerId
<1> QED BY <1>1, <1>2

\* Every reachable state is sound: for every hierarchy of objects, every room
\* and every number of instances and calls, until an id is reused.
\* (instance_system.cpp, instance.cpp)
THEOREM InstanceInvariant == Spec => []Sound
<1>1. Init => Sound
  BY InitInv, InvTypes, InvReaches DEF Sound
<1> QED BY <1>1, NextSound, PTL DEF Spec

-----------------------------------------------------------------------------
(* What follows from the invariant.                                        *)

\* It implies that the object lists are right,
LEMMA InvObjectLists == Inv => ObjectLists
<1> SUFFICES ASSUME Inv, NEW o \in Obj
             PROVE  LET mine == {n \in live : IsA(who[n], o)}
                        l    == list[o]
                    IN /\ count[o] = Cardinality(mine)
                       /\ \A x \in mine \cup {Root} :
                            IF l.next[x] = NULL THEN \A y \in mine : y <= x
                            ELSE /\ l.next[x] \in mine /\ x < l.next[x]
                                 /\ \A y \in mine : ~(x < y /\ y < l.next[x])
                       /\ \A x \in mine : l.next[l.prev[x]] = x
  BY DEF ObjectLists
<1>1. PICK mine : mine = {n \in live : IsA(who[n], o)}
  OBVIOUS
<1>2. Members(o) = mine
  BY <1>1 DEF Members
<1>3. o \in ListName /\ o # "main" /\ Base
  BY ConstantsAssumption DEF ListName, Inv
<1>4. LinkedBy(list[o], mine, Key(o)) /\ count[o] = Cardinality(mine)
  BY <1>2, <1>3 DEF Inv, Base, ListsInv, CountInv
<1>5. PICK J : J = [x \in 0..MaxAct |-> x]
  OBVIOUS
<1>6. mine \subseteq 1..acts /\ mine \subseteq Act /\ MaxAct \in Nat
  BY <1>1, <1>3, LiveFacts, ConstantsAssumption
<1>7. \A x \in mine \cup {Root} : J[x] = x /\ Key(o)[x] = x
  BY <1>3, <1>5, <1>6 DEF Key, Act, Root
<1>8. LinkedBy(list[o], mine, J)
  BY <1>4, <1>7, SameOrder
<1>9. PICK l : l = list[o]
  OBVIOUS
<1>10. ASSUME NEW x \in mine \cup {Root}
       PROVE  IF l.next[x] = NULL THEN \A y \in mine : y <= x
              ELSE /\ l.next[x] \in mine /\ x < l.next[x]
                   /\ \A y \in mine : ~(x < y /\ y < l.next[x])
  <2>1. J[x] = x /\ \A y \in mine : J[y] = y
    BY <1>7
  <2>2. IF l.next[x] = NULL THEN \A y \in mine : J[y] <= J[x]
        ELSE /\ l.next[x] \in mine /\ J[x] < J[l.next[x]]
             /\ \A y \in mine : ~(J[x] < J[y] /\ J[y] < J[l.next[x]])
    BY <1>8, <1>9 DEF LinkedBy
  <2>3. CASE l.next[x] = NULL
    BY <2>1, <2>2, <2>3
  <2>4. CASE l.next[x] # NULL
    <3>1. PICK z : z = l.next[x]
      OBVIOUS
    <3>2. z \in mine /\ J[z] = z /\ J[x] < J[z] /\ \A y \in mine : ~(J[x] < J[y] /\ J[y] < J[z])
      BY <2>1, <2>2, <2>4, <3>1
    <3> QED BY <2>1, <2>4, <3>1, <3>2
  <2> QED BY <2>3, <2>4
<1>11. \A x \in mine : l.next[l.prev[x]] = x
  BY <1>8, <1>9 DEF LinkedBy
<1> QED BY <1>1, <1>4, <1>9, <1>10, <1>11

\* that instance_list and its links agree,
LEMMA InvMainList == Inv => MainList
<1> SUFFICES ASSUME Inv PROVE MainList
  OBVIOUS
<1>1. PICK ids : ids = {i \in Id : main[i] # 0}
  OBVIOUS
<1>2. PICK l : l = list["main"]
  OBVIOUS
<1>3. PICK K : K = Key("main")
  OBVIOUS
<1>4. PICK M : M = live
  OBVIOUS
<1>5. Base /\ MaxAct \in Nat
  BY ConstantsAssumption DEF Inv
<1>6. Members("main") = M
  BY <1>4, ConstantsAssumption DEF Members
<1>7. Ordered(K, M) /\ LinkedBy(l, M, K) /\ \A n \in M : K[n] = id[who[n]]
  <2>1. "main" \in ListName
    BY DEF ListName
  <2> QED BY <1>2, <1>3, <1>4, <1>5, <1>6, <2>1, KeyFacts DEF Base, ListsInv
<1>8. \A i \in ids : i \in Int /\ i \in Id /\ main[i] \in M /\ id[who[main[i]]] = i /\ K[main[i]] = i
  <2>1. \A i \in ids : i \in Id /\ main[i] \in M /\ id[who[main[i]]] = i
    BY <1>1, <1>4, <1>5 DEF Base, NodesInv
  <2> QED BY <1>7, <2>1 DEF Id
<1>9. \A n \in M : K[n] \in ids /\ main[K[n]] = n /\ n # NULL
  BY <1>1, <1>4, <1>5, <1>7, LiveFacts DEF Act, NULL
<1>10. {main[i] : i \in ids} = M
  BY <1>8, <1>9
<1>11. ASSUME NEW i \in ids, NEW j \in ids
       PROVE  l.next[main[i]] = main[j] <=> i < j /\ ~\E k \in ids : i < k /\ k < j
  <2>1. PICK x : x = main[i]
    OBVIOUS
  <2>2. PICK z : z = l.next[x]
    OBVIOUS
  <2>3. /\ x \in M /\ K[x] = i /\ i \in Int /\ j \in Int /\ main[j] \in M /\ K[main[j]] = j
        /\ main[j] # NULL
    BY <1>8, <1>9, <2>1
  <2>4. IF z = NULL THEN \A y \in M : K[y] <= i
        ELSE z \in M /\ i < K[z] /\ \A y \in M : ~(i < K[y] /\ K[y] < K[z])
    BY <1>7, <2>2, <2>3 DEF LinkedBy
  <2>5. ASSUME z = main[j] PROVE i < j /\ ~\E k \in ids : i < k /\ k < j
    <3>1. z # NULL /\ K[z] = j
      BY <2>3, <2>5
    <3>2. i < j /\ \A y \in M : ~(i < K[y] /\ K[y] < j)
      BY <2>4, <3>1
    <3> QED BY <1>8, <3>2
  <2>6. ASSUME i < j, ~\E k \in ids : i < k /\ k < j PROVE z = main[j]
    <3>1. z # NULL
      BY <2>3, <2>4, <2>6
    <3>2. z \in M /\ i < K[z] /\ ~(i < j /\ j < K[z]) /\ K[z] \in ids /\ main[K[z]] = z
      BY <1>9, <2>3, <2>4, <3>1
    <3>3. K[z] \in Int /\ ~(i < K[z] /\ K[z] < j)
      BY <1>8, <2>6, <3>2
    <3>4. K[z] = j
      BY <2>3, <2>6, <3>2, <3>3
    <3> QED BY <3>2, <3>4
  <2> QED BY <2>1, <2>2, <2>5, <2>6
<1>12. \A i \in ids : id[who[main[i]]] = i
  BY <1>8
<1> QED BY <1>1, <1>2, <1>4, <1>10, <1>11, <1>12 DEF MainList

\* Every variable has its type, whatever event code calls.
\* (instance_system.cpp)
THEOREM InstanceTypes == Spec => []TypeOK
BY InstanceInvariant, PTL DEF Sound

\* Until an id is reused, linked, deactivated and destroyed exclude each other
\* and leave no instance out, and instance_count is right.  (activate,
\* deactivate, unlink)
THEOREM InstancesAccounted == Spec => []Accounted
<1>1. Sound => Accounted
  BY DEF Sound, Inv, Accounts, Accounted
<1> QED BY <1>1, InstanceInvariant, PTL

\* Until then the object lists, instance_list and the counts agree with each
\* other.  (link_obj_instance, link_instance, unlink_main)
THEOREM InstanceLists == Spec => []Lists
<1>1. Sound => Lists
  BY InvObjectLists, InvMainList DEF Lists, Sound
<1> QED BY <1>1, InstanceInvariant, PTL

\* instance_change alone gives an id to two instances: every other step keeps
\* ids apart.  (instance_create, instance_create_id, activate)
THEOREM InstanceIdsReused == Spec => IdsReused
<1>1. Sound /\ [Next]_vars => [OneInstancePerId /\ ~ChangeConstruct => OneInstancePerId']_vars
  <2> SUFFICES ASSUME Sound, Next, OneInstancePerId, ~ChangeConstruct PROVE OneInstancePerId'
    OBVIOUS
  <2>1. Inv /\ Steps
    BY DEF Sound, Next, Clashed
  <2> QED BY <2>1, StepsInv DEF Inv, Accounts
<1> QED BY <1>1, InstanceInvariant, PTL DEF Spec, IdsReused

\* instance_destroy reaches every instance its list held from the call to the
\* return, whatever the Destroy events do.  (instance_destroy)
THEOREM InstanceDestroyReaches == Spec => []DestroyReachesAll
BY InstanceInvariant, PTL DEF Sound

-----------------------------------------------------------------------------
(* The calls below the innermost.                                          *)

\* Sequences: the elements of more,
LEMMA SeqMore == ASSUME NEW S, NEW U, S \subseteq U, NEW s \in Seq(S) PROVE s \in Seq(U)
OBVIOUS

\* the last element after a push,
LEMMA LastPush ==
  ASSUME NEW S, NEW s \in Seq(S), s # <<>>, NEW N \in Seq(S)
  PROVE (N \o s) # <<>> /\ (N \o s)[Len(N \o s)] = s[Len(s)]
<1>1. Len(s) \in Nat \ {0} /\ Len(N \o s) = Len(N) + Len(s) /\ Len(N) \in Nat
  OBVIOUS
<1>2. Len(s) \in 1..Len(s)
  BY <1>1
<1>3. (N \o s)[Len(N) + Len(s)] = s[Len(s)]
  BY <1>1
<1> QED BY <1>1, <1>3

\* after the first is left,
LEMMA LastTail ==
  ASSUME NEW S, NEW s \in Seq(S), s # <<>>, Len(s) # 1
  PROVE Tail(s) \in Seq(S) /\ Tail(s) # <<>> /\ Tail(s)[Len(Tail(s))] = s[Len(s)]
<1>1. Len(s) \in Nat \ {0} /\ Len(Tail(s)) = Len(s) - 1 /\ Tail(s) \in Seq(S)
  OBVIOUS
<1>2. Tail(s)[Len(s) - 1] = s[Len(s)]
  BY <1>1
<1>3. PICK t : t = Tail(s)
  OBVIOUS
<1>4. t # <<>>
  <2>1. Len(t) # 0
    BY <1>1, <1>3
  <2> QED BY <2>1
<1> QED BY <1>1, <1>2, <1>3, <1>4

\* and when it is the only one.
LEMMA LastOne == ASSUME NEW S, NEW s \in Seq(S), Len(s) = 1 PROVE Tail(s) = <<>>
<1>1. PICK t : t = Tail(s)
  OBVIOUS
<1>2. t \in Seq(S) /\ Len(t) = 0
  BY <1>1
<1> QED BY <1>1, <1>2

\* The innermost calls do not change the outermost.
Over(s, t) == t # <<>> /\ t[Len(t)] = s[Len(s)]

\* Entering and leaving calls above the outermost one.
LEMMA OverSeq ==
  ASSUME NEW S, NEW s \in Seq(S), s # <<>>, NEW f, NEW g
  PROVE  /\ Over(s, <<f>> \o s) /\ Over(s, <<f, g>> \o s)
         /\ Len(s) # 1 => /\ Over(s, Tail(s)) /\ Over(s, <<f>> \o Tail(s))
                          /\ Over(s, <<f, g>> \o Tail(s))
<1>1. PICK U : U = S \cup {f, g}
  OBVIOUS
<1>2. s \in Seq(U) /\ f \in U /\ g \in U
  BY <1>1, SeqMore
<1>3. PICK N : N = <<f>>
  OBVIOUS
<1>4. PICK M : M = <<f, g>>
  OBVIOUS
<1>5. N \in Seq(U) /\ M \in Seq(U)
  BY <1>2, <1>3, <1>4
<1>6. Over(s, N \o s) /\ Over(s, M \o s)
  BY <1>2, <1>5, LastPush DEF Over
<1>7. ASSUME Len(s) # 1
      PROVE  Over(s, Tail(s)) /\ Over(s, N \o Tail(s)) /\ Over(s, M \o Tail(s))
  <2>1. Tail(s) \in Seq(U) /\ Over(s, Tail(s))
    BY <1>2, <1>7, LastTail DEF Over
  <2>2. Over(Tail(s), N \o Tail(s)) /\ Over(Tail(s), M \o Tail(s))
    BY <1>5, <2>1, LastPush DEF Over
  <2> QED BY <2>1, <2>2 DEF Over
<1> QED BY <1>3, <1>4, <1>6, <1>7

-----------------------------------------------------------------------------
(* The event list and the event loop.                                      *)

\* A step that keeps the outermost call keeps the loop where it is.
LEMMA LoopSame ==
  ASSUME Inv, stack # <<>>, Over(stack, stack')
  PROVE  LoopNode' = LoopNode
BY DEF Over, LoopNode

\* Every call, return or turn but the loop's own keeps the loop where it is.
LEMMA LoopCalls ==
  ASSUME Inv, stack # <<>>, NEW f, NEW g,
         \/ stack' = stack \/ stack' = <<f>> \o stack \/ stack' = <<f, g>> \o stack
         \/ /\ Top.op # "loop"
            /\ stack' = Below \/ stack' = <<f>> \o Below \/ stack' = <<f, g>> \o Below
  PROVE  LoopNode' = LoopNode
<1>1. stack \in Seq(FrameT)
  BY DEF Inv, StackT
<1>2. PICK S : S = FrameT
  OBVIOUS
<1>3. stack \in Seq(S)
  BY <1>1, <1>2
<1>4. Top.op # "loop" => Len(stack) # 1
  BY TopFacts
<1>5. CASE stack' = stack
  BY <1>5 DEF LoopNode
<1>6. CASE stack' # stack
  <2>1. Over(stack, stack')
    BY <1>3, <1>4, <1>6, OverSeq DEF Below
  <2> QED BY <2>1, LoopSame
<1> QED BY <1>5, <1>6

\* A step that leaves the lists alone leaves the event list alone.
LEMMA EventSame ==
  ASSUME UNCHANGED listVars, UNCHANGED pass, LoopNode' = LoopNode
  PROVE  UNCHANGED EventList!vars
BY DEF listVars, EventList!vars

\* activate() is event_iter::add_inst,
LEMMA EventGrows ==
  ASSUME Base, NEW p, NEW i, NEW o, Activate(p, i, o), UNCHANGED pass, LoopNode' = LoopNode
  PROVE  EventList!AddInst
<1>1. /\ acts < MaxAct /\ acts' = acts + 1 /\ live' = live \cup {acts + 1}
      /\ list'["event"] = Appended(list["event"], acts + 1)
  <2>1. "event" \in DOMAIN list
    BY DEF Base, ListT, ListName
  <2> QED BY <2>1 DEF Activate
<1>2. PICK L : L = list["event"]
  OBVIOUS
<1>3. PICK T : T = list'["event"]
  OBVIOUS
<1>4. /\ T.next = [L.next EXCEPT ![L.prev[Root]] = acts + 1, ![acts + 1] = NULL]
      /\ T.prev = [L.prev EXCEPT ![acts + 1] = L.prev[Root], ![Root] = acts + 1]
  BY <1>1, <1>2, <1>3 DEF Appended
<1> QED BY <1>1, <1>2, <1>3, <1>4
        DEF EventList!AddInst, EventList!passVars, EventList!Root, EventList!NULL, Root, NULL

\* No registered iterator walks the event list.
LEMMA EventUnregistered ==
  ASSUME Inv PROVE Registered("event") = {}
<1> SUFFICES ASSUME NEW d \in 1..Len(stack), stack[d].list = "event" PROVE stack[d].reg = NULL
  BY DEF Registered
<1>1. FrameOK(stack[d]) /\ stack[d] \in FrameT
  BY DEF Inv, StackInv, StackT
<1>2. "event" \notin Obj \cup {"main", "temp"}
  BY ConstantsAssumption
<1> QED BY <1>1, <1>2 DEF FrameOK, WalkOK, FrameT

\* deactivate() is event_iter::unlink,
LEMMA EventShrinks ==
  ASSUME Inv, NEW p, Deactivate(p), Active(p), UNCHANGED pass, LoopNode' = LoopNode
  PROVE  EventList!Unlink(node[p]) /\ node[p] \in EventList!Node
<1>w. PICK w : w = node[p]
  OBVIOUS
<1>1. /\ w \in live /\ w \in 1..MaxAct /\ live' = live \ {w} /\ acts' = acts
      /\ list'["event"] = Unlinked("event", w)
  <2>1. "event" \in DOMAIN list /\ Base
    BY DEF Inv, Base, ListT, ListName
  <2>2. w \in live
    BY <1>w DEF Active
  <2> QED BY <1>w, <2>1, <2>2, LiveFacts DEF Deactivate, ListsOf, Act
<1>2. PICK L : L = list["event"]
  OBVIOUS
<1>3. PICK T : T = list'["event"]
  OBVIOUS
<1> DEFINE n1 == [x \in 0..MaxAct |->
                    IF x = L.prev[w] THEN L.next[w]
                    ELSE IF x = Root /\ L.next[x] = w THEN NULL ELSE L.next[x]]
           p1 == [x \in 0..MaxAct |->
                    IF x = L.next[w] \/ (x = Root /\ L.prev[x] = w)
                    THEN L.prev[w] ELSE L.prev[x]]
<1>4. T = UnlinkedFrom(L, w, {})
  BY <1>1, <1>2, <1>3, EventUnregistered DEF Unlinked, UnlinkedFrom
<1>5. /\ T.next = [x \in 0..MaxAct |-> IF x \in {} /\ n1[x] = w THEN n1[w] ELSE n1[x]]
      /\ T.prev = [x \in 0..MaxAct |-> IF x \in {} /\ n1[x] # w /\ p1[x] = w THEN p1[w] ELSE p1[x]]
  BY <1>4 DEF UnlinkedFrom
<1>6. T.next = n1 /\ T.prev = p1
  <2>1. /\ T.next = [x \in 0..MaxAct |-> n1[x]] /\ T.prev = [x \in 0..MaxAct |-> p1[x]]
    BY <1>5
  <2> QED BY <2>1
<1>7. EventList!NextPast(w) = n1 /\ EventList!PrevPast(w) = p1
  BY <1>2 DEF EventList!NextPast, EventList!PrevPast, EventList!Root, EventList!NULL, Root, NULL
<1>8. EventList!Registered = {}
  BY DEF EventList!Registered
<1>9. n1 = [x \in 0..MaxAct |-> n1[x]] /\ p1 = [x \in 0..MaxAct |-> p1[x]]
  OBVIOUS
<1> HIDE DEF n1, p1
<1>10. /\ EventList!HandleUnlinkNext(w, n1) = n1
       /\ EventList!HandleUnlinkPrev(w, n1, p1) = p1
  <2>1. /\ EventList!HandleUnlinkNext(w, n1) = [x \in 0..MaxAct |-> n1[x]]
        /\ EventList!HandleUnlinkPrev(w, n1, p1) = [x \in 0..MaxAct |-> p1[x]]
    BY <1>8 DEF EventList!HandleUnlinkNext, EventList!HandleUnlinkPrev
  <2> QED BY <1>9, <2>1
<1> QED BY <1>w, <1>1, <1>2, <1>3, <1>6, <1>7, <1>10
        DEF EventList!Unlink, EventList!passVars, EventList!Node

\* a pass begins as EventIter says,
LEMMA EventBegins == ASSUME Inv, BeginPass PROVE EventList!BeginPass
<1>1. PICK x : x = list["event"].next[Root]
  OBVIOUS
<1>2. /\ stack = <<>> /\ UNCHANGED listVars
      /\ stack' = IF x = NULL THEN <<>> ELSE Body([Frame("loop") EXCEPT !.list = "event"], x)
      /\ pass' = [start |-> live, bound |-> acts, ran |-> {x} \ {NULL}]
  BY <1>1 DEF BeginPass
<1>3. LoopNode = NULL
  BY <1>2 DEF LoopNode
<1>4. LoopNode' = x
  <2>1. CASE x = NULL
    BY <1>2, <2>1 DEF LoopNode
  <2>2. CASE x # NULL
    <3>1. PICK f : f = [[Frame("loop") EXCEPT !.list = "event"] EXCEPT !.cur = x]
      OBVIOUS
    <3>2. f.op = "loop" /\ f.cur = x
      BY <3>1 DEF Frame
    <3>3. PICK c : stack' = <<c, f>>
      BY <1>2, <2>2, <3>1 DEF Body
    <3>4. stack' # <<>> /\ stack'[Len(stack')] = f
      BY <3>3
    <3> QED BY <3>2, <3>4 DEF LoopNode
  <2> QED BY <2>1, <2>2
<1>5. /\ live' = live /\ list' = list /\ acts' = acts
      /\ pass'.start = live /\ pass'.bound = acts /\ pass'.ran = {x} \ {NULL}
  BY <1>2 DEF listVars
<1> QED BY <1>1, <1>3, <1>4, <1>5
        DEF EventList!BeginPass, EventList!Reach, EventList!listVars, EventList!Root, EventList!NULL, Root, NULL

\* and goes on as it says; with() does not move the event loop.
LEMMA EventAdvances ==
  ASSUME Inv, Advance PROVE EventList!Advance \/ UNCHANGED EventList!vars
<1>0. stack # <<>> /\ Top.op \in {"loop", "with"} /\ UNCHANGED listVars
  BY DEF Advance
<1>f. PICK f : f = Top
  OBVIOUS
<1>1. PICK x : /\ x = After(f, f.cur)
               /\ stack' = IF x = NULL THEN Below ELSE Body(f, x) \o Below
               /\ pass' = IF f.op = "loop"
                          THEN [pass EXCEPT !.ran = @ \cup ({x} \ {NULL})] ELSE pass
  BY <1>f DEF Advance
<1>2. PICK c, g : Body(f, x) = <<c, g>> /\ g = [f EXCEPT !.cur = x]
  BY DEF Body
<1>3. /\ f \in FrameT /\ FrameOK(f) /\ (f.op = "loop" <=> Len(stack) = 1)
      /\ stack \in Seq(FrameT)
  BY <1>0, <1>f, TopFacts DEF Inv, StackT
<1>4. CASE f.op = "with"
  <2>1. pass' = pass /\ Top.op # "loop"
    BY <1>f, <1>1, <1>4
  <2>2. LoopNode' = LoopNode
    <3>1. stack' = Below \/ stack' = <<c, g>> \o Below
      BY <1>1, <1>2
    <3> QED BY <1>0, <2>1, <3>1, LoopCalls
  <2> QED BY <1>0, <2>1, <2>2, EventSame
<1>5. CASE f.op = "loop"
  <2>1. f.list = "event" /\ f.cur \in Seen /\ Len(stack) = 1 /\ "event" # "temp"
    BY <1>3, <1>5 DEF FrameOK
  <2>2. f.cur # NULL /\ x = list["event"].next[f.cur]
    BY <1>1, <2>1, SeenFacts DEF Inv, After, NULL
  <2>3. LoopNode = f.cur
    BY <1>0, <1>f, <1>5, <2>1 DEF LoopNode, Top
  <2>4. Below = <<>>
    <3>1. PICK S : S = FrameT
      OBVIOUS
    <3> QED BY <1>3, <2>1, <3>1, LastOne DEF Below
  <2>5. LoopNode' = x
    <3>1. CASE x = NULL
      BY <1>1, <2>4, <3>1 DEF LoopNode
    <3>2. CASE x # NULL
      <4>1. stack' = <<c, g>>
        BY <1>1, <1>2, <2>4, <3>2
      <4>2. stack' # <<>> /\ stack'[Len(stack')] = g
        BY <4>1
      <4>3. g.op = "loop" /\ g.cur = x
        BY <1>2, <1>3, <1>5 DEF FrameT
      <4> QED BY <4>2, <4>3 DEF LoopNode
    <3> QED BY <3>1, <3>2
  <2>6. /\ live' = live /\ list' = list /\ acts' = acts
        /\ pass'.start = pass.start /\ pass'.bound = pass.bound
        /\ pass'.ran = pass.ran \cup ({x} \ {NULL})
    <3>1. pass' = [pass EXCEPT !.ran = @ \cup ({x} \ {NULL})]
      BY <1>1, <1>5
    <3> QED BY <1>0, <3>1 DEF listVars
  <2> QED BY <2>2, <2>3, <2>5, <2>6
          DEF EventList!Advance, EventList!Reach, EventList!listVars, EventList!NULL, NULL
<1> QED BY <1>0, <1>f, <1>4, <1>5

\* Every step of the system is one of EventIter, or leaves its variables alone.
LEMMA EventStep ==
  ASSUME Inv, Steps \/ UNCHANGED vars PROVE [EventList!Next]_EventList!vars
<1> DEFINE Goal == [EventList!Next]_EventList!vars
<1> SUFFICES Goal
  OBVIOUS
<1>g. ASSUME EventList!AddInst PROVE Goal
  BY <1>g DEF EventList!Next
<1>s. ASSUME UNCHANGED EventList!vars PROVE Goal
  BY <1>s
<1>u. ASSUME NEW w \in EventList!Node, EventList!Unlink(w) PROVE Goal
  BY <1>u DEF EventList!Next
<1>b. ASSUME EventList!BeginPass PROVE Goal
  BY <1>b DEF EventList!Next
<1>a. ASSUME EventList!Advance PROVE Goal
  BY <1>a DEF EventList!Next
<1> HIDE DEF Goal
<1>0. Base
  BY DEF Inv
<1>1. CASE LoadInstance
  <2>1. Activate(insts + 1, insts + 1, RoomInsts[insts + 1]) /\ UNCHANGED pass /\ stack' = stack
    BY <1>1 DEF LoadInstance, Construct
  <2> QED BY <1>0, <1>g, <2>1, EventGrows DEF LoopNode
<1>2. CASE BeginPass
  BY <1>2, <1>b, EventBegins
<1>3. CASE Return
  <2>1. /\ stack # <<>> /\ Top.op # "loop" /\ stack' = Below
        /\ UNCHANGED listVars /\ UNCHANGED pass
    BY <1>3 DEF Return, Pop
  <2> QED BY <1>s, <2>1, LoopCalls, EventSame
<1>4. CASE Advance
  BY <1>4, <1>a, <1>s, EventAdvances
<1>5. CASE Dispose
  BY <1>5, <1>s, EventSame DEF Dispose, LoopNode
<1>6. ASSUME NEW o \in Obj, InstanceCreate(o) PROVE Goal
  <2>1. /\ Activate(insts + 1, maxid, o) /\ UNCHANGED pass /\ stack # <<>>
        /\ stack' = <<Code(insts')>> \o stack
    BY <1>6 DEF InstanceCreate, Construct, Call, Running, Push
  <2>2. LoopNode' = LoopNode
    BY <2>1, LoopCalls
  <2> QED BY <1>0, <1>g, <2>1, <2>2, EventGrows
<1>7. ASSUME NEW o \in Obj, InstanceChange(o) PROVE Goal
  <2>1. \E f, g : /\ stack' = <<f, g>> \o stack
                  /\ stack # <<>> /\ UNCHANGED listVars /\ UNCHANGED pass
    BY <1>7 DEF InstanceChange, Call, Running
  <2> QED BY <1>s, <2>1, LoopCalls, EventSame
<1>8. ASSUME NEW t \in Target, With(t) PROVE Goal
  <2>1. /\ stack # <<>> /\ UNCHANGED listVars /\ UNCHANGED pass
        /\ stack' = stack \/ \E f : stack' = Body(f, f.reg) \o stack
    BY <1>8 DEF With, Call, Running
  <2>2. \E f, g : stack' = stack \/ stack' = <<f, g>> \o stack
    BY <2>1 DEF Body
  <2> QED BY <1>s, <2>1, <2>2, LoopCalls, EventSame
<1>9. ASSUME NEW t \in Target,
             InstanceDestroy(t) \/ InstanceActivate(t)
               \/ \E notme \in BOOLEAN : InstanceDeactivate(t, notme)
      PROVE  Goal
  <2>1. /\ stack # <<>> /\ UNCHANGED listVars /\ UNCHANGED pass
        /\ \E f : stack' = <<f>> \o stack
    BY <1>9 DEF InstanceDestroy, InstanceActivate, InstanceDeactivate, Call, Running, Push
  <2> QED BY <1>s, <2>1, LoopCalls, EventSame
<1>10. CASE DestroyTurn
  <2>1. /\ stack # <<>> /\ UNCHANGED listVars /\ UNCHANGED pass /\ Top.op # "loop"
        /\ \E f, g : stack' = Below \/ stack' = <<f>> \o Below \/ stack' = <<f, g>> \o Below
    BY <1>10 DEF DestroyTurn, Pop, Replace
  <2> QED BY <1>s, <2>1, LoopCalls, EventSame
<1>11. CASE DestroyUnlink
  <2>p. PICK p : p = At(Top)
    OBVIOUS
  <2>1. /\ stack # <<>> /\ Top.op = "unlink" /\ UNCHANGED pass
        /\ \E f : stack' = <<f>> \o Below
        /\ IF p \in cleanups THEN UNCHANGED listVars ELSE Unlink(p)
    BY <1>11, <2>p DEF DestroyUnlink, Replace
  <2>2. LoopNode' = LoopNode
    BY <2>1, LoopCalls
  <2>3. CASE UNCHANGED listVars
    BY <1>s, <2>1, <2>2, <2>3, EventSame
  <2>4. CASE p \notin cleanups /\ deact[id[p]] = 0
    <3>1. Deactivate(p)
      BY <2>1, <2>4 DEF Unlink
    <3>2. p \in Alive
      <4>1. WalkOK(Top) /\ Top.reg # NULL /\ Top \in FrameT
        BY <2>1, TopFacts DEF FrameOK
      <4>2. p \in Present
        BY <1>0, <2>1, <2>p, <4>1, AtPresent DEF Inv
      <4> QED BY <2>4, <4>2 DEF Present, Alive
    <3>3. Active(p)
      BY <1>0, <2>4, <3>2, AliveFacts DEF Inv, Accounts, Accounted
    <3> QED BY <1>u, <2>1, <2>2, <3>1, <3>3, EventShrinks
  <2> QED BY <2>1, <2>3, <2>4 DEF Unlink
<1>12. CASE DeactivateTurn
  <2>p. PICK p : p = At(Top)
    OBVIOUS
  <2>1. /\ stack # <<>> /\ Top.op = "deactivate" /\ UNCHANGED pass
        /\ \E f : stack' = Below \/ stack' = <<f>> \o Below
        /\ UNCHANGED listVars \/ (Top.reg # NULL /\ Deactivate(p))
    BY <1>12, <2>p DEF DeactivateTurn, Replace, Pop
  <2>2. LoopNode' = LoopNode
    BY <2>1, LoopCalls
  <2>3. CASE UNCHANGED listVars
    BY <1>s, <2>1, <2>2, <2>3, EventSame
  <2>4. CASE Top.reg # NULL /\ Deactivate(p)
    <3>1. Active(p)
      BY <2>p, <2>1, <2>4, AtActive
    <3> QED BY <1>u, <2>1, <2>2, <2>4, <3>1, EventShrinks
  <2> QED BY <2>1, <2>3, <2>4
<1>13. CASE ActivateTurn
  <2>1. /\ stack # <<>> /\ Top.op = "activate" /\ UNCHANGED pass
        /\ \E f : stack' = Below \/ stack' = <<f>> \o Below
        /\ UNCHANGED listVars \/ \E i : Activate(deact[i], i, obj[deact[i]])
    BY <1>13 DEF ActivateTurn, Replace, Pop
  <2>2. LoopNode' = LoopNode
    BY <2>1, LoopCalls
  <2> QED BY <1>0, <1>g, <1>s, <2>1, <2>2, EventSame, EventGrows
<1>14. CASE ChangeConstruct
  <2>1. /\ stack # <<>> /\ Top.op = "change" /\ UNCHANGED pass
        /\ \E f : stack' = <<f>> \o Below
        /\ Activate(insts + 1, Top.self, Top.list)
    BY <1>14 DEF ChangeConstruct, Construct, Replace
  <2>2. LoopNode' = LoopNode
    BY <2>1, LoopCalls
  <2> QED BY <1>0, <1>g, <2>1, <2>2, EventGrows
<1>15. CASE UNCHANGED vars
  BY <1>15, <1>s, EventSame DEF vars, listVars, LoopNode
<1> QED BY <1>1, <1>2, <1>3, <1>4, <1>5, <1>6, <1>7, <1>8, <1>9, <1>10, <1>11, <1>12, <1>13,
           <1>14, <1>15 DEF Steps

\* The event list of the instance system and its event loop are those of
\* EventIter, with what that module says of them.
THEOREM InstanceImplements == Spec => ImplementsEventIter
<1>1. Init => EventList!Init
  <2> SUFFICES ASSUME Init PROVE EventList!Init
    OBVIOUS
  <2>1. /\ acts = 0 /\ live = {} /\ stack = <<>> /\ list["event"] = EmptyList
        /\ pass.start = {} /\ pass.bound = 0 /\ pass.ran = {}
    BY DEF Init
  <2>2. /\ EmptyList.next = [x \in 0..MaxAct |-> NULL]
        /\ EmptyList.prev = [x \in 0..MaxAct |-> IF x = Root THEN Root ELSE NULL]
    BY DEF EmptyList
  <2>3. LoopNode = NULL
    BY <2>1 DEF LoopNode
  <2>4. <<>> = [i \in {} |-> NULL]
    OBVIOUS
  <2> QED BY <2>1, <2>2, <2>3, <2>4 DEF EventList!Init, EventList!NULL, EventList!Root, NULL, Root
<1>2. Sound /\ [Next]_vars => [EventList!Next]_EventList!vars
  <2> SUFFICES ASSUME Sound, [Next]_vars PROVE [EventList!Next]_EventList!vars
    OBVIOUS
  <2>1. CASE OneInstancePerId
    <3>1. Inv /\ (Steps \/ UNCHANGED vars)
      BY <2>1 DEF Sound, Next, Clashed
    <3> QED BY <3>1, EventStep
  <2>2. CASE ~OneInstancePerId
    <3>1. UNCHANGED vars
      BY <2>2 DEF Next, Clashed
    <3> QED BY <3>1, EventSame DEF vars, listVars, LoopNode
  <2> QED BY <2>1, <2>2
<1> QED BY <1>1, <1>2, InstanceInvariant, PTL DEF Spec, ImplementsEventIter, EventList!Spec
=============================================================================

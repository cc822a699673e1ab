----------------------------- MODULE MlfqProofs -----------------------------
(***************************************************************************)
(* The safety of project1's scheduler, proved for every number of process  *)
(* slots, queue size, quantum and boost period, with forks that the timer  *)
(* preempts and memory that runs out.                                      *)
(*                                                                         *)
(* The first half is about the run queues alone: what their operations     *)
(* preserve.  Each of its lemmas is stated for a set G[l] of entries per   *)
(* list l, so that it serves both the types and the sharper claims about   *)
(* what stands on which list.                                              *)
(***************************************************************************)
EXTENDS MlfqProps, FiniteSetTheorems, FunctionTheorems, SequenceTheorems, TLAPS

-----------------------------------------------------------------------------
(* Sub-sequences *)

\* The ranks of the elements of K lie between 1 and the size of K.
LEMMA RankType ==
    ASSUME NEW K \in SUBSET Int, IsFiniteSet(K), NEW i \in K
    PROVE  Rank(K, i) \in 1..Cardinality(K)
<1> DEFINE B == {j \in K : j <= i}
<1>1. B \in SUBSET K /\ i \in B
  OBVIOUS
<1>2. IsFiniteSet(B) /\ Cardinality(B) <= Cardinality(K)
  BY <1>1, FS_Subset
<1>3. Cardinality(B) \in Nat /\ Cardinality(K) \in Nat
  BY <1>2, FS_CardinalityType
<1>4. Cardinality(B) # 0
  BY <1>1, <1>2, FS_EmptySet
<1> QED
  BY <1>2, <1>3, <1>4 DEF Rank

\* A larger element has a larger rank.
LEMMA RankStrict ==
    ASSUME NEW K \in SUBSET Int, IsFiniteSet(K),
           NEW i \in K, NEW j \in K, i < j
    PROVE  Rank(K, i) # Rank(K, j)
<1> DEFINE A == {x \in K : x <= i}
           B == {x \in K : x <= j}
<1>1. A \subseteq B /\ B \subseteq K
  <2> SUFFICES ASSUME NEW x \in K, x <= i
               PROVE  x <= j
    OBVIOUS
  <2>1. x \in Int /\ i \in Int /\ j \in Int
    OBVIOUS
  <2> QED
    BY <2>1
<1>2. j \in B /\ j \notin A
  OBVIOUS
<1>3. IsFiniteSet(B)
  BY <1>1, FS_Subset
<1>4. Cardinality(A) # Cardinality(B)
  BY <1>1, <1>2, <1>3, FS_Subset
<1> QED
  BY <1>4 DEF Rank

\* Every number up to the size of K is the rank of an element.
LEMMA RankOnto ==
    ASSUME NEW K \in SUBSET Int, IsFiniteSet(K), NEW k \in 1..Cardinality(K)
    PROVE  \E i \in K : Rank(K, i) = k
<1> DEFINE n == Cardinality(K)
           r == [i \in K |-> Rank(K, i)]
<1>1. n \in Nat
  BY FS_CardinalityType
<1>2. r \in [K -> 1..n]
  BY RankType
<1>3. \A a, b \in K : r[a] = r[b] => a = b
  <2> SUFFICES ASSUME NEW a \in K, NEW b \in K, a # b
               PROVE  Rank(K, a) # Rank(K, b)
    OBVIOUS
  <2>1. a < b \/ b < a
    OBVIOUS
  <2> QED
    BY <2>1, RankStrict
<1> HIDE DEF r
<1>4. r \in Injection(K, 1..n)
  BY <1>2, <1>3, Fun_IsInj
<1>5. IsFiniteSet(1..n) /\ Cardinality(1..n) = n
  BY <1>1, FS_Interval
<1>6. r \in Surjection(K, 1..n)
  BY <1>4, <1>5, FS_Injection
<1>7. \A t \in 1..n : \E s \in K : r[s] = t
  BY <1>6, Fun_SurjectionProperties
<1> QED
  BY <1>7 DEF r

\* Picking positions of a sequence gives a sequence of the same elements, as
\* long as there are positions.
LEMMA PickType ==
    ASSUME NEW S, NEW s \in Seq(S), NEW K \in SUBSET DOMAIN s
    PROVE  /\ Pick(s, K) \in Seq(S)
           /\ Len(Pick(s, K)) = Cardinality(K)
           /\ \A k \in 1..Cardinality(K) :
                 \E i \in K : Pick(s, K)[k] = s[i]
<1>1. Len(s) \in Nat /\ DOMAIN s = 1..Len(s) /\ s \in [1..Len(s) -> S]
  BY LenProperties
<1>2. K \in SUBSET Int /\ IsFiniteSet(K)
  <2>1. IsFiniteSet(1..Len(s))
    BY <1>1, FS_Interval
  <2> QED
    BY <1>1, <2>1, FS_Subset
<1> DEFINE n == Cardinality(K)
           At(k) == CHOOSE i \in K : Rank(K, i) = k
<1>3. n \in Nat
  BY <1>2, FS_CardinalityType
<1>4. \A k \in 1..n : At(k) \in K
  BY <1>2, RankOnto
<1>5. Pick(s, K) = [k \in 1..n |-> s[At(k)]]
  BY DEF Pick
<1>6. \A k \in 1..n : s[At(k)] \in S
  BY <1>1, <1>4
<1>7. Pick(s, K) \in [1..n -> S]
  BY <1>5, <1>6
<1>8. Pick(s, K) \in Seq(S)
  BY <1>3, <1>7, SeqDef
<1>9. Len(Pick(s, K)) = n
  BY <1>3, <1>7, <1>8, LenProperties
<1> QED
  BY <1>4, <1>5, <1>8, <1>9

LEMMA OneElement ==
    ASSUME NEW S, NEW x \in S
    PROVE  <<x>> \in Seq(S)
<1>1. <<x>> \in [1..1 -> S]
  OBVIOUS
<1> QED
  BY <1>1, SeqDef

-----------------------------------------------------------------------------
(* Entries *)

\* Quanta are positive, and those of the code are entries of their level.
LEMMA EntryTypes ==
    /\ \A lvl \in Level : Quantum(lvl) \in Nat \ {0}
    /\ \A p \in Proc : Fresh(p) \in Entry /\ ListOf(Fresh(p)) = 0
    /\ \A p \in Proc, lvl \in Level, prio \in Priority :
          Demoted(p, lvl, prio) \in Entry
    /\ \A p \in Proc, lvl \in Level, prio \in Priority, tq \in Int :
          Wrap(p, lvl, prio, tq) \in Entry
    /\ \A e \in Entry : ListOf(e) \in Lists
<1>1. \A lvl \in Level : Quantum(lvl) \in Nat \ {0}
  BY QueueConstants DEF Level, Quantum
<1>2. \A p \in Proc, lvl \in Level, prio \in Priority, tq \in Int :
          Wrap(p, lvl, prio, tq) \in Entry
  BY DEF Wrap, Entry
<1>3. \A p \in Proc : Fresh(p) \in Entry /\ ListOf(Fresh(p)) = 0
  BY <1>1 DEF Fresh, Wrap, Entry, Level, Priority, ListOf
<1>4. \A p \in Proc, lvl \in Level, prio \in Priority :
          Demoted(p, lvl, prio) \in Entry
  BY <1>1 DEF Demoted, Wrap, Entry, Level, Priority
<1>5. \A e \in Entry : ListOf(e) \in Lists
  BY DEF Entry, Level, Priority, ListOf, Lists
<1> QED
  BY <1>1, <1>2, <1>3, <1>4, <1>5

-----------------------------------------------------------------------------
(* Queue operations *)

\* Each list l of m holds entries of G[l] only.
Holds(m, G) == \A l \in Lists : G[l] \subseteq Entry /\ m.q[l] \in Seq(G[l])

\* Every well-typed m holds entries.
LEMMA HoldsEntries ==
    ASSUME NEW m \in Mlfq
    PROVE  Holds(m, [l \in Lists |-> Entry])
BY DEF Holds, Mlfq

LEMMA PushHolds ==
    ASSUME NEW m \in Mlfq, NEW G, Holds(m, G),
           NEW e \in Entry, e \in G[ListOf(e)]
    PROVE  Push(m, e) \in Mlfq /\ Holds(Push(m, e), G)
<1> DEFINE k == ListOf(e)
<1>1. CASE m.isin[e.proc]
  BY <1>1 DEF Push
<1>2. CASE ~m.isin[e.proc] /\ Len(m.q[k]) >= QUESIZE
  <2>1. Push(m, e) = [m EXCEPT !.panic = TRUE]
    BY <1>2 DEF Push
  <2> QED
    BY <2>1 DEF Mlfq, Holds
<1>3. CASE ~m.isin[e.proc] /\ ~(Len(m.q[k]) >= QUESIZE)
  <2> DEFINE q1 == [m.q EXCEPT ![k] = Append(m.q[k], e)]
  <2>1. Push(m, e) = [q |-> q1, isin |-> [m.isin EXCEPT ![e.proc] = TRUE],
                      panic |-> m.panic]
    BY <1>3 DEF Push
  <2>2. k \in Lists
    BY EntryTypes
  <2>3. Append(m.q[k], e) \in Seq(G[k]) /\ Append(m.q[k], e) \in Seq(Entry)
    <3>1. G[k] \subseteq Entry /\ m.q[k] \in Seq(G[k])
      BY <2>2 DEF Holds
    <3>2. Append(m.q[k], e) \in Seq(G[k])
      BY <3>1, AppendProperties
    <3> QED
      BY <3>1, <3>2, SeqMonotonic
  <2>4. q1 \in [Lists -> Seq(Entry)] /\ \A l \in Lists : q1[l] \in Seq(G[l])
    BY <2>2, <2>3 DEF Mlfq, Holds
  <2>5. [m.isin EXCEPT ![e.proc] = TRUE] \in [Proc -> BOOLEAN]
    BY DEF Mlfq
  <2>6. m.panic \in BOOLEAN
    BY DEF Mlfq
  <2> HIDE DEF q1
  <2> QED
    BY <2>1, <2>4, <2>5, <2>6 DEF Mlfq, Holds
<1> QED
  BY <1>1, <1>2, <1>3

LEMMA HeadPushHolds ==
    ASSUME NEW m \in Mlfq, NEW G, Holds(m, G),
           NEW e \in Entry, e \in G[0]
    PROVE  HeadPush(m, e) \in Mlfq /\ Holds(HeadPush(m, e), G)
<1>1. CASE m.isin[e.proc]
  BY <1>1 DEF HeadPush
<1>2. CASE ~m.isin[e.proc] /\ Len(m.q[0]) >= QUESIZE
  <2>1. HeadPush(m, e) = [m EXCEPT !.panic = TRUE]
    BY <1>2 DEF HeadPush
  <2> QED
    BY <2>1 DEF Mlfq, Holds
<1>3. CASE ~m.isin[e.proc] /\ ~(Len(m.q[0]) >= QUESIZE)
  <2> DEFINE q1 == [m.q EXCEPT ![0] = <<e>> \o m.q[0]]
  <2>1. HeadPush(m, e) = [q |-> q1, isin |-> [m.isin EXCEPT ![e.proc] = TRUE],
                          panic |-> m.panic]
    BY <1>3 DEF HeadPush
  <2>2. 0 \in Lists
    BY DEF Lists
  <2>3. <<e>> \in Seq(G[0]) /\ m.q[0] \in Seq(G[0]) /\ G[0] \subseteq Entry
    <3>1. m.q[0] \in Seq(G[0]) /\ G[0] \subseteq Entry
      BY <2>2 DEF Holds
    <3>2. <<e>> \in Seq(G[0])
      BY OneElement
    <3> QED
      BY <3>1, <3>2
  <2>4. <<e>> \o m.q[0] \in Seq(G[0]) /\ <<e>> \o m.q[0] \in Seq(Entry)
    <3>1. <<e>> \o m.q[0] \in Seq(G[0])
      BY <2>3, ConcatProperties
    <3> QED
      BY <2>3, <3>1, SeqMonotonic
  <2>5. q1 \in [Lists -> Seq(Entry)] /\ \A l \in Lists : q1[l] \in Seq(G[l])
    BY <2>2, <2>4 DEF Mlfq, Holds
  <2>6. [m.isin EXCEPT ![e.proc] = TRUE] \in [Proc -> BOOLEAN]
    BY DEF Mlfq
  <2>7. m.panic \in BOOLEAN
    BY DEF Mlfq
  <2> HIDE DEF q1
  <2> QED
    BY <2>1, <2>5, <2>6, <2>7 DEF Mlfq, Holds
<1> QED
  BY <1>1, <1>2, <1>3

LEMMA ClearHolds ==
    ASSUME NEW m \in Mlfq, NEW G, Holds(m, G), NEW st, NEW faults \in BOOLEAN
    PROVE  /\ Clear(m, st, faults) \in Mlfq
           /\ Holds(Clear(m, st, faults), G)
           /\ \A p \in Proc : Clear(m, st, faults).isin[p] => m.isin[p]
<1> DEFINE c == Clear(m, st, faults)
<1>1. \A l \in Lists : /\ Pick(m.q[l], Kept(m.q[l], st)) \in Seq(G[l])
                       /\ Pick(m.q[l], Kept(m.q[l], st)) \in Seq(Entry)
  <2> SUFFICES ASSUME NEW l \in Lists
               PROVE  /\ Pick(m.q[l], Kept(m.q[l], st)) \in Seq(G[l])
                      /\ Pick(m.q[l], Kept(m.q[l], st)) \in Seq(Entry)
    OBVIOUS
  <2>1. m.q[l] \in Seq(G[l]) /\ G[l] \subseteq Entry
    BY DEF Holds
  <2>2. Kept(m.q[l], st) \in SUBSET DOMAIN m.q[l]
    BY DEF Kept
  <2>3. Pick(m.q[l], Kept(m.q[l], st)) \in Seq(G[l])
    BY <2>1, <2>2, PickType
  <2> QED
    BY <2>1, <2>3, SeqMonotonic
<1>2. c.q = [l \in Lists |-> Pick(m.q[l], Kept(m.q[l], st))]
  BY DEF Clear
<1>3. c.isin \in [Proc -> BOOLEAN] /\ \A p \in Proc : c.isin[p] => m.isin[p]
  BY DEF Clear, Mlfq
<1>4. c.panic \in BOOLEAN
  BY DEF Clear, Mlfq
<1>5. c = [q |-> c.q, isin |-> c.isin, panic |-> c.panic]
  BY DEF Clear
<1> HIDE DEF c
<1>6. c.q \in [Lists -> Seq(Entry)]
  BY <1>1, <1>2
<1>7. c \in Mlfq
  BY <1>3, <1>4, <1>5, <1>6 DEF Mlfq
<1>8. Holds(c, G)
  BY <1>1, <1>2 DEF Holds
<1> QED
  BY <1>3, <1>7, <1>8 DEF c

LEMMA NewProcHolds ==
    ASSUME NEW m \in Mlfq, NEW G, Holds(m, G), NEW st, NEW faults \in BOOLEAN,
           NEW p \in Proc, Fresh(p) \in G[0]
    PROVE  /\ NewProc(m, st, p, faults) \in Mlfq
           /\ Holds(NewProc(m, st, p, faults), G)
<1>1. Clear(m, st, faults) \in Mlfq /\ Holds(Clear(m, st, faults), G)
  BY ClearHolds
<1>2. Fresh(p) \in Entry /\ ListOf(Fresh(p)) = 0
  BY EntryTypes
<1> QED
  BY <1>1, <1>2, PushHolds DEF NewProc

\* A non-empty set of positions, or of list indices, has a least element.
LEMMA LeastInInterval ==
    ASSUME NEW n \in Nat, NEW K \in SUBSET 0..n, K # {}
    PROVE  LeastOf(K) \in K
<1>1. \E i \in K : \A j \in K : i <= j
  <2>1. IsFiniteSet(K)
    <3>1. IsFiniteSet(0..n)
      BY FS_Interval
    <3> QED
      BY <3>1, FS_Subset
  <2>2. PICK i \in K : Rank(K, i) = 1
    <3>1. Cardinality(K) \in Nat /\ Cardinality(K) # 0
      BY <2>1, FS_CardinalityType, FS_EmptySet
    <3> QED
      BY <2>1, <3>1, RankOnto
  <2>3. ASSUME NEW j \in K, ~(i <= j)
        PROVE  FALSE
    <3> DEFINE B == {x \in K : x <= i}
    <3>1. i \in Int /\ j \in Int /\ {i, j} \subseteq B /\ i # j /\ B \subseteq K
      BY <2>3
    <3>2. IsFiniteSet(B) /\ Cardinality(B) = 1
      BY <2>1, <2>2, <3>1, FS_Subset DEF Rank
    <3>3. \E x : B = {x}
      BY <3>2, FS_Singleton
    <3> QED
      BY <3>1, <3>3
  <2> QED
    BY <2>3
<1> QED
  BY <1>1 DEF LeastOf

\* What popproc takes was on the list it looked at, and was runnable.
LEMMA PoppedProps ==
    ASSUME NEW m \in Mlfq, NEW st, CanPop(m, st)
    PROVE  /\ PopList(m, st) \in Lists
           /\ PopPos(m, st) \in DOMAIN m.q[PopList(m, st)]
           /\ st[Popped(m, st).proc] = "RUNNABLE"
<1> DEFINE L == {l \in Lists : Runnable(m.q[l], st) # {}}
<1>1. L \in SUBSET 0..5 /\ L # {}
  BY DEF CanPop, Lists
<1>2. PopList(m, st) \in L
  BY <1>1, LeastInInterval DEF PopList
<1> DEFINE l == PopList(m, st)
           K == Runnable(m.q[l], st)
<1>3. m.q[l] \in Seq(Entry) /\ l \in Lists
  BY <1>2 DEF Mlfq
<1>4. Len(m.q[l]) \in Nat /\ DOMAIN m.q[l] = 1..Len(m.q[l])
  BY <1>3, LenProperties
<1>5. K \in SUBSET 0..Len(m.q[l]) /\ K # {}
  BY <1>2, <1>4 DEF Runnable
<1> HIDE DEF K
<1>6. LeastOf(K) \in K
  BY <1>4, <1>5, LeastInInterval
<1> QED
  BY <1>3, <1>6 DEF K, PopPos, Popped, Runnable

LEMMA PopHolds ==
    ASSUME NEW m \in Mlfq, NEW G, Holds(m, G), NEW st, CanPop(m, st)
    PROVE  /\ Pop(m, st) \in Mlfq
           /\ Holds(Pop(m, st), G)
           /\ Popped(m, st) \in G[PopList(m, st)]
           /\ Popped(m, st) \in Entry
           /\ Pop(m, st).isin = [m.isin EXCEPT ![Popped(m, st).proc] = FALSE]
<1> DEFINE l == PopList(m, st)
           i == PopPos(m, st)
           s == Pick(m.q[l], (DOMAIN m.q[l]) \ {i})
           q1 == [m.q EXCEPT ![l] = s]
           b == [m.isin EXCEPT ![Popped(m, st).proc] = FALSE]
<1>1. l \in Lists /\ i \in DOMAIN m.q[l]
  BY PoppedProps
<1>2. m.q[l] \in Seq(G[l]) /\ G[l] \subseteq Entry
  BY <1>1 DEF Holds
<1>3. s \in Seq(G[l]) /\ s \in Seq(Entry)
  <2>1. s \in Seq(G[l])
    BY <1>2, PickType
  <2> QED
    BY <1>2, <2>1, SeqMonotonic
<1>4. Pop(m, st) = [q |-> q1, isin |-> b, panic |-> m.panic]
  BY DEF Pop
<1>5. q1 \in [Lists -> Seq(Entry)] /\ \A x \in Lists : q1[x] \in Seq(G[x])
  <2> HIDE DEF s, l
  <2> QED
    BY <1>1, <1>3 DEF Mlfq, Holds
<1>6. b \in [Proc -> BOOLEAN] /\ m.panic \in BOOLEAN
  BY DEF Mlfq
<1>7. Popped(m, st) \in G[l]
  BY <1>1, <1>2, ElementOfSeq, LenProperties DEF Popped
<1> HIDE DEF q1, b, l
<1> QED
  BY <1>2, <1>4, <1>5, <1>6, <1>7 DEF Mlfq, Holds, l, b

LEMMA AllEntriesType ==
    ASSUME NEW m \in Mlfq
    PROVE  AllEntries(m) \in Seq(Entry)
<1>1. /\ m.q[0] \in Seq(Entry) /\ m.q[1] \in Seq(Entry) /\ m.q[2] \in Seq(Entry)
      /\ m.q[3] \in Seq(Entry) /\ m.q[4] \in Seq(Entry) /\ m.q[5] \in Seq(Entry)
  BY DEF Mlfq, Lists
<1>2. m.q[0] \o m.q[1] \in Seq(Entry)
  BY <1>1, ConcatProperties
<1>3. m.q[0] \o m.q[1] \o m.q[2] \in Seq(Entry)
  BY <1>1, <1>2, ConcatProperties
<1>4. m.q[0] \o m.q[1] \o m.q[2] \o m.q[3] \in Seq(Entry)
  BY <1>1, <1>3, ConcatProperties
<1>5. m.q[0] \o m.q[1] \o m.q[2] \o m.q[3] \o m.q[4] \in Seq(Entry)
  BY <1>1, <1>4, ConcatProperties
<1> QED
  BY <1>1, <1>5, ConcatProperties DEF AllEntries

LEMMA BoostHolds ==
    ASSUME NEW m \in Mlfq, NEW G, \A l \in Lists : G[l] \subseteq Entry,
           \A p \in Proc : Fresh(p) \in G[0], NEW st,
           NEW locked \in BOOLEAN, NEW now, locked => now \in Proc
    PROVE  /\ Boost(m, st, locked, now) \in Mlfq
           /\ Holds(Boost(m, st, locked, now), G)
<1> DEFINE c     == Clear(m, st, TRUE)
           temp  == AllEntries(c)
           first == {i \in DOMAIN temp :
                        /\ \A j \in 1..(i - 1) : temp[j].proc # temp[i].proc
                        /\ ~(locked /\ temp[i].proc = now)}
           again == Pick(temp, first)
           n     == Cardinality(first)
           tail  == [i \in 1..n |-> Fresh(again[i].proc)]
           Collected(p) == \E i \in DOMAIN temp : temp[i].proc = p
           headpushed   == locked /\ (Collected(now) \/ ~c.isin[now])
           L0    == IF headpushed THEN <<Fresh(now)>> \o tail ELSE tail
           b     == Boost(m, st, locked, now)
<1>1. c \in Mlfq
  BY HoldsEntries, ClearHolds
<1>2. temp \in Seq(Entry)
  BY <1>1, AllEntriesType
<1>3. again \in Seq(Entry) /\ Len(again) = n
  <2> HIDE DEF temp
  <2> QED
    BY <1>2, PickType
<1>4. n \in Nat /\ \A i \in 1..n : again[i].proc \in Proc
  <2> HIDE DEF again, n
  <2>1. n \in Nat
    BY <1>3, LenProperties
  <2>2. \A i \in 1..n : again[i] \in Entry
    BY <1>3, ElementOfSeq
  <2> QED
    BY <2>1, <2>2 DEF Entry
<1>5. tail \in Seq(G[0])
  <2> HIDE DEF again, n
  <2>1. tail \in [1..n -> G[0]]
    BY <1>4
  <2> QED
    BY <1>4, <2>1, SeqDef
<1>6. L0 \in Seq(G[0])
  <2>1. CASE headpushed
    <3> HIDE DEF tail, headpushed
    <3>1. Fresh(now) \in G[0]
      BY <2>1 DEF headpushed
    <3>2. <<Fresh(now)>> \in Seq(G[0])
      BY <3>1, OneElement
    <3>3. <<Fresh(now)>> \o tail \in Seq(G[0])
      BY <3>2, <1>5, ConcatProperties
    <3> QED
      BY <2>1, <3>3
  <2>2. CASE ~headpushed
    <3> HIDE DEF tail, headpushed
    <3> QED
      BY <2>2, <1>5
  <2> QED
    BY <2>1, <2>2
<1>7. /\ b.q = [l \in Lists |-> IF l = 0 THEN L0 ELSE << >>]
      /\ b.isin = [p \in Proc |-> c.isin[p] \/ Collected(p)
                                            \/ (headpushed /\ p = now)]
      /\ b.panic = (c.panic \/ Len(temp) > QUESIZE \/ Len(L0) > QUESIZE)
      /\ b = [q |-> b.q, isin |-> b.isin, panic |-> b.panic]
  BY DEF Boost
<1>8. \A l \in Lists : b.q[l] \in Seq(G[l])
  <2> HIDE DEF L0, b
  <2> TAKE l \in Lists
  <2>1. b.q[l] = IF l = 0 THEN L0 ELSE << >>
    BY <1>7
  <2>2. << >> \in Seq(G[l])
    BY EmptySeq
  <2> QED
    BY <1>6, <2>1, <2>2
<1>9. b.q \in [Lists -> Seq(Entry)]
  <2>1. L0 \in Seq(Entry)
    <3> HIDE DEF L0
    <3>1. G[0] \subseteq Entry
      BY DEF Lists
    <3> QED
      BY <1>6, <3>1, SeqMonotonic
  <2>2. << >> \in Seq(Entry)
    OBVIOUS
  <2> HIDE DEF L0, b
  <2> QED
    BY <1>7, <2>1, <2>2
<1>10. b.isin \in [Proc -> BOOLEAN]
  <2> HIDE DEF b, headpushed, c, Collected
  <2>1. c.isin \in [Proc -> BOOLEAN]
    BY <1>1 DEF Mlfq
  <2> QED
    BY <1>7, <2>1, Zenon
<1>11. b.panic \in BOOLEAN
  <2> HIDE DEF b, L0, temp, c
  <2> QED
    BY <1>7, Zenon
<1> HIDE DEF b
<1>12. b \in Mlfq
  BY <1>7, <1>9, <1>10, <1>11 DEF Mlfq
<1> QED
  BY <1>8, <1>12 DEF Holds, b

-----------------------------------------------------------------------------
(* Marks *)

\* Who is pushed is marked then, or the list was full.
LEMMA PushMarks ==
    ASSUME NEW m \in Mlfq, NEW e \in Entry
    PROVE  /\ Push(m, e).isin[e.proc] \/ Push(m, e).panic
           /\ HeadPush(m, e).isin[e.proc] \/ HeadPush(m, e).panic
<1>1. m.isin \in [Proc -> BOOLEAN] /\ e.proc \in Proc /\ m = [m EXCEPT !.panic = m.panic]
  BY DEF Mlfq, Entry
<1>2. [m EXCEPT !.panic = TRUE].panic
  BY DEF Mlfq
<1>3. [m.isin EXCEPT ![e.proc] = TRUE][e.proc]
  BY <1>1
<1>4. Push(m, e).isin[e.proc] \/ Push(m, e).panic
  BY <1>2, <1>3 DEF Push
<1>5. HeadPush(m, e).isin[e.proc] \/ HeadPush(m, e).panic
  BY <1>2, <1>3 DEF HeadPush
<1> QED
  BY <1>4, <1>5

\* Picking positions loses none of them.
LEMMA PickOnto ==
    ASSUME NEW S, NEW s \in Seq(S), NEW K \in SUBSET DOMAIN s, NEW i \in K
    PROVE  \E k \in DOMAIN Pick(s, K) : Pick(s, K)[k] = s[i]
<1>1. K \in SUBSET Int /\ IsFiniteSet(K)
  <2>1. Len(s) \in Nat /\ DOMAIN s = 1..Len(s)
    BY LenProperties
  <2>2. IsFiniteSet(1..Len(s))
    BY <2>1, FS_Interval
  <2> QED
    BY <2>1, <2>2, FS_Subset
<1> DEFINE r == Rank(K, i)
           j == CHOOSE x \in K : Rank(K, x) = r
<1>2. r \in 1..Cardinality(K)
  BY <1>1, RankType
<1>3. j \in K /\ Rank(K, j) = r
  OBVIOUS
<1> HIDE DEF j
<1>4. j = i
  <2>1. i \in Int /\ j \in Int
    BY <1>1, <1>3
  <2>2. ~(i < j) /\ ~(j < i)
    BY <1>1, <1>3, RankStrict
  <2> QED
    BY <2>1, <2>2
<1>5. DOMAIN Pick(s, K) = 1..Cardinality(K) /\ Pick(s, K)[r] = s[j]
  BY <1>2 DEF Pick, j
<1> QED
  BY <1>2, <1>4, <1>5

\* What has an element.
HasEntry(s, x) == \E i \in DOMAIN s : s[i] = x

LEMMA ConcatHas ==
    ASSUME NEW S, NEW s \in Seq(S), NEW t \in Seq(S), NEW x,
           HasEntry(s, x) \/ HasEntry(t, x)
    PROVE  HasEntry(s \o t, x)
<1>1. /\ Len(s) \in Nat /\ DOMAIN s = 1..Len(s)
      /\ Len(t) \in Nat /\ DOMAIN t = 1..Len(t)
      /\ DOMAIN (s \o t) = 1..(Len(s) + Len(t))
  <2>1. s \o t \in Seq(S) /\ Len(s \o t) = Len(s) + Len(t)
    BY ConcatProperties
  <2> QED
    BY <2>1, LenProperties
<1>2. CASE HasEntry(s, x)
  <2>1. PICK i \in 1..Len(s) : s[i] = x
    BY <1>1, <1>2 DEF HasEntry
  <2>2. i \in 1..(Len(s) + Len(t)) /\ (s \o t)[i] = s[i]
    BY <1>1, ConcatProperties
  <2> QED
    BY <1>1, <2>1, <2>2 DEF HasEntry
<1>3. CASE HasEntry(t, x)
  <2>1. PICK i \in 1..Len(t) : t[i] = x
    BY <1>1, <1>3 DEF HasEntry
  <2>2. /\ i + Len(s) \in 1..(Len(s) + Len(t)) /\ (i + Len(s)) - Len(s) = i
        /\ ~(i + Len(s) <= Len(s))
    BY <1>1
  <2>3. (s \o t)[i + Len(s)] = t[i]
    BY <1>1, <2>2, ConcatProperties
  <2> QED
    BY <1>1, <2>1, <2>2, <2>3 DEF HasEntry
<1> QED
  BY <1>2, <1>3

\* A boost collects every list.
LEMMA AllEntriesHave ==
    ASSUME NEW m \in Mlfq, NEW l \in Lists, NEW x, HasEntry(m.q[l], x)
    PROVE  HasEntry(AllEntries(m), x)
<1> DEFINE s1 == m.q[0] \o m.q[1]
           s2 == s1 \o m.q[2]
           s3 == s2 \o m.q[3]
           s4 == s3 \o m.q[4]
<1>1. /\ m.q[0] \in Seq(Entry) /\ m.q[1] \in Seq(Entry) /\ m.q[2] \in Seq(Entry)
      /\ m.q[3] \in Seq(Entry) /\ m.q[4] \in Seq(Entry) /\ m.q[5] \in Seq(Entry)
  BY DEF Mlfq, Lists
<1>2. l = 0 \/ l = 1 \/ l = 2 \/ l = 3 \/ l = 4 \/ l = 5
  BY DEF Lists
<1>3. s1 \in Seq(Entry) /\ (l \in 0..1 => HasEntry(s1, x))
  BY <1>1, <1>2, ConcatProperties, ConcatHas
<1> HIDE DEF s1
<1>4. s2 \in Seq(Entry) /\ (l \in 0..2 => HasEntry(s2, x))
  BY <1>1, <1>2, <1>3, ConcatProperties, ConcatHas
<1> HIDE DEF s2
<1>5. s3 \in Seq(Entry) /\ (l \in 0..3 => HasEntry(s3, x))
  BY <1>1, <1>2, <1>4, ConcatProperties, ConcatHas
<1> HIDE DEF s3
<1>6. s4 \in Seq(Entry) /\ (l \in 0..4 => HasEntry(s4, x))
  BY <1>1, <1>2, <1>5, ConcatProperties, ConcatHas
<1> HIDE DEF s4
<1>7. HasEntry(s4 \o m.q[5], x)
  BY <1>1, <1>2, <1>6, ConcatHas
<1> QED
  BY <1>7 DEF AllEntries, s1, s2, s3, s4

\* A boost leaves marked whoever is alive and was marked, or holds the lock,
\* although statepop may have taken the mark away on the way.
LEMMA BoostMarks ==
    ASSUME NEW m \in Mlfq, NEW st, NEW locked \in BOOLEAN, NEW now \in Proc,
           st[now] \in {"RUNNABLE", "SLEEPING"},
           locked \/ m.isin[now] \/ m.panic
    PROVE  Boost(m, st, locked, now).isin[now] \/ Boost(m, st, locked, now).panic
<1> DEFINE c     == Clear(m, st, TRUE)
           temp  == AllEntries(c)
           Collected(p) == \E i \in DOMAIN temp : temp[i].proc = p
           headpushed   == locked /\ (Collected(now) \/ ~c.isin[now])
           b     == Boost(m, st, locked, now)
<1>1. c \in Mlfq
  BY HoldsEntries, ClearHolds
<1>2. /\ b.isin[now] <=> c.isin[now] \/ Collected(now) \/ headpushed
      /\ c.panic => b.panic
      /\ m.panic => c.panic
  <2>1. /\ c.isin[now] \in BOOLEAN
        /\ b.isin[now] = (c.isin[now] \/ Collected(now) \/ (headpushed /\ now = now))
    BY <1>1 DEF Boost, Mlfq
  <2>2. c.panic => b.panic
    BY DEF Boost
  <2>3. m.panic => c.panic
    BY DEF Clear
  <2> QED
    BY <2>1, <2>2, <2>3
<1>3. CASE locked \/ m.panic
  BY <1>2, <1>3
<1>4. CASE m.isin[now] /\ ~c.isin[now]
  <2>1. \E l \in Lists : \E i \in DOMAIN m.q[l] : m.q[l][i].proc = now
    BY <1>4 DEF Clear
  <2>9. PICK l \in Lists : \E i \in DOMAIN m.q[l] : m.q[l][i].proc = now
    BY <2>1
  <2>2. PICK i \in DOMAIN m.q[l] : m.q[l][i].proc = now
    BY <2>9
  <2>3. m.q[l] \in Seq(Entry) /\ i \in Kept(m.q[l], st)
    BY <2>2 DEF Mlfq, Kept
  <2>4. Kept(m.q[l], st) \in SUBSET DOMAIN m.q[l]
    BY DEF Kept
  <2>5. c.q[l] = Pick(m.q[l], Kept(m.q[l], st))
    BY DEF Clear
  <2> HIDE DEF c
  <2>6. HasEntry(c.q[l], m.q[l][i])
    BY <2>3, <2>4, <2>5, PickOnto DEF HasEntry
  <2>7. HasEntry(temp, m.q[l][i])
    BY <1>1, <2>6, AllEntriesHave
  <2>8. Collected(now)
    BY <2>2, <2>7 DEF HasEntry
  <2> QED
    BY <1>2, <2>8
<1> QED
  BY <1>2, <1>3, <1>4

-----------------------------------------------------------------------------
(* Who is queued *)

Who(s) == {s[i].proc : i \in DOMAIN s}

-----------------------------------------------------------------------------
(* The steps of the processes and of the scheduler *)

\* The processes that run in user mode or in the kernel, one action each.
ProcStep(p) ==
    \/ TimerTick(p) \/ MyYield(p) \/ SleepDev(p) \/ WakeDev(p)
    \/ \E prio \in Priorities : SetPriority(p, prio)
    \/ \E v \in Victims : Kill(p, v)
    \/ \E c \in Proc, faults \in BOOLEAN : ForkAlloc(p, c, faults)
    \/ ForkDone(p) \/ ForkFailed(p) \/ Exit(p)
    \/ \E c \in Proc : WaitReap(p, c)
    \/ WaitNone(p) \/ WaitSleep(p)
    \/ Lock(p)

LEMMA NextCases ==
    ASSUME Next
    PROVE  Schedule \/ InitExit \/ \E p \in Proc : ProcStep(p)
BY DEF Next, ProcStep

-----------------------------------------------------------------------------
(* Types *)

LEMMA FloorType == \A tq \in Int : Floor(tq) \in Int
BY DEF Floor, TQMIN

\* One turn of the scheduler's second half keeps the types.
LEMMA DispatchType ==
    ASSUME TypeOK, NEW m \in Mlfq, Dispatch(m)
    PROVE  /\ mlfq' \in Mlfq
           /\ cur' \in [lvl : Level, prio : Priority, tq : Int]
           /\ nowproc' \in Proc \cup {None}
           /\ cpu' \in Proc \cup {None}
           /\ state' \in [Proc -> ProcState]
           /\ isTimeinterrupt' \in BOOLEAN
           /\ <<parent, killed, pc, np>>' = <<parent, killed, pc, np>>
<1> DEFINE e == Popped(m, state)
<1>1. CASE CanPop(m, state)
  <2>1. e \in Entry /\ Pop(m, state) \in Mlfq
    BY <1>1, HoldsEntries, PopHolds
  <2>2. /\ mlfq' = Pop(m, state)
        /\ cur' = [lvl |-> e.lvl, prio |-> e.prio, tq |-> e.tq]
        /\ nowproc' = e.proc
        /\ cpu' = e.proc
        /\ state' = [state EXCEPT ![e.proc] = "RUNNING"]
    BY <1>1 DEF Dispatch
  <2> HIDE DEF e
  <2>3. e.proc \in Proc /\ e.lvl \in Level /\ e.prio \in Priority /\ e.tq \in Int
    BY <2>1 DEF Entry
  <2> QED
    BY <2>1, <2>2, <2>3 DEF TypeOK, Dispatch, ProcState
<1>2. CASE ~CanPop(m, state)
  <2>1. Charged \in Int
    BY DEF Charged, TypeOK
  <2>2. Floor(Charged) \in Int
    BY <2>1, FloorType
  <2> QED
    BY <1>2, <2>2 DEF TypeOK, Dispatch
<1> QED
  BY <1>1, <1>2

\* What the scheduler does to the queues before it pops keeps their type.
LEMMA RequeuedType ==
    ASSUME TypeOK
    PROVE  /\ Requeued \in Mlfq
           /\ nowproc # None => HeadPush(mlfq, Fresh(nowproc)) \in Mlfq
           /\ nowproc # None =>
                Push(mlfq, Wrap(nowproc, cur.lvl, cur.prio, Charged)) \in Mlfq
<1> DEFINE G == [l \in Lists |-> Entry]
<1>1. mlfq \in Mlfq /\ Charged \in Int
  BY DEF TypeOK, Charged
<1>2. Holds(mlfq, G) /\ 0 \in Lists
  BY <1>1, HoldsEntries DEF Lists
<1>3. SUFFICES ASSUME nowproc # None
               PROVE  /\ Requeued \in Mlfq
                      /\ HeadPush(mlfq, Fresh(nowproc)) \in Mlfq
                      /\ Push(mlfq, Wrap(nowproc, cur.lvl, cur.prio, Charged))
                            \in Mlfq
  BY <1>1 DEF Requeued
<1>4. nowproc \in Proc /\ cur.lvl \in Level /\ cur.prio \in Priority
  BY <1>3 DEF TypeOK
<1> DEFINE e == Wrap(nowproc, cur.lvl, cur.prio, Charged)
           d == Demoted(nowproc, cur.lvl, cur.prio)
<1>5. e \in Entry /\ d \in Entry /\ Fresh(nowproc) \in Entry
  BY <1>1, <1>4, EntryTypes
<1>6. \A x \in Entry : ListOf(x) \in Lists
  BY EntryTypes
<1> HIDE DEF e, d
<1>7. \A x \in Entry : Push(mlfq, x) \in Mlfq /\ HeadPush(mlfq, x) \in Mlfq
  <2> TAKE x \in Entry
  <2>1. x \in G[ListOf(x)] /\ x \in G[0]
    BY <1>2, <1>6
  <2> QED
    BY <1>1, <1>2, <2>1, PushHolds, HeadPushHolds
<1>8. Requeued \in Mlfq
  BY <1>1, <1>5, <1>7 DEF Requeued, e, d
<1> QED
  BY <1>5, <1>7, <1>8 DEF e

LEMMA BoostType ==
    ASSUME NEW m \in Mlfq, NEW st, NEW locked \in BOOLEAN, NEW now,
           locked => now \in Proc
    PROVE  Boost(m, st, locked, now) \in Mlfq
<1> DEFINE G == [l \in Lists |-> Entry]
<1>1. \A l \in Lists : G[l] \subseteq Entry
  OBVIOUS
<1>2. \A p \in Proc : Fresh(p) \in G[0]
  BY EntryTypes DEF Lists
<1> HIDE DEF G
<1> QED
  BY <1>1, <1>2, BoostHolds

LEMMA ScheduleType ==
    ASSUME TypeOK, LockHeld, Schedule
    PROVE  TypeOK'
<1>1. CASE ScheduleNext
  BY <1>1, RequeuedType, DispatchType DEF ScheduleNext, TypeOK
<1>2. CASE ScheduleBoost
  <2> DEFINE m == IF nowproc # None /\ Alive(nowproc)
                  THEN Push(mlfq, Wrap(nowproc, cur.lvl, cur.prio, Charged))
                  ELSE mlfq
             b == Boost(m, state, islock # 0, nowproc)
  <2>1. m \in Mlfq
    BY RequeuedType DEF TypeOK
  <2>2. islock # 0 => nowproc \in Proc
    BY DEF LockHeld, TypeOK
  <2>3. Dispatch(b) /\ islock' = 0 /\ lockproc' = None /\ ticks' = 1
    BY <1>2 DEF ScheduleBoost
  <2> HIDE DEF m
  <2>4. b \in Mlfq
    BY <2>1, <2>2, BoostType
  <2> HIDE DEF b
  <2> QED
    BY <2>3, <2>4, DispatchType DEF TypeOK
<1>3. CASE ScheduleUnlocked
  <2>1. nowproc # None
    BY <1>3 DEF ScheduleUnlocked, LockHeld
  <2> QED
    BY <1>3, <2>1, RequeuedType, DispatchType DEF ScheduleUnlocked, TypeOK
<1>4. CASE ScheduleGivenUp
  <2>1. nowproc # None
    BY <1>4 DEF ScheduleGivenUp, LockHeld
  <2> DEFINE m == IF state[nowproc] = "SLEEPING"
                  THEN HeadPush(mlfq, Fresh(nowproc)) ELSE mlfq
  <2>2. m \in Mlfq
    BY <2>1, RequeuedType DEF TypeOK
  <2>3. Dispatch(m) /\ islock' = 0 /\ lockproc' = None /\ UNCHANGED ticks
    BY <1>4 DEF ScheduleGivenUp
  <2> HIDE DEF m
  <2> QED
    BY <2>2, <2>3, DispatchType DEF TypeOK
<1>5. CASE ScheduleLocked
  <2>1. nowproc \in Proc
    BY <1>5 DEF ScheduleLocked, LockHeld, TypeOK
  <2>2. Charged + 1 \in Int
    BY DEF TypeOK, Charged
  <2>3. Floor(Charged + 1) \in Int
    BY <2>2, FloorType
  <2> QED
    BY <1>5, <2>1, <2>3 DEF ScheduleLocked, TypeOK, ProcState
<1> QED
  BY <1>1, <1>2, <1>3, <1>4, <1>5 DEF Schedule

LEMMA ProcStepType ==
    ASSUME TypeOK, NEW p \in Proc, ProcStep(p)
    PROVE  TypeOK'
<1> USE DEF TypeOK, Running, Idle, Waiting, LeaveCpu, procs, sched,
            ProcState, Place
<1>1. CASE TimerTick(p)
  <2>1. cur.tq - 1 \in Int
    OBVIOUS
  <2>2. Floor(cur.tq - 1) \in Int
    BY <2>1, FloorType
  <2>3. cur' \in [lvl : Level, prio : Priority, tq : Int] /\ ticks' \in Nat
    BY <1>1, <2>2 DEF TimerTick, TimerYield, TimerLocked, Counted
  <2>4. /\ state' \in [Proc -> ProcState] /\ cpu' \in Proc \cup {None}
        /\ isTimeinterrupt' \in BOOLEAN
    BY <1>1 DEF TimerTick, TimerYield, TimerLocked
  <2>5. UNCHANGED <<parent, killed, pc, np, mlfq, nowproc, islock, lockproc>>
    BY <1>1 DEF TimerTick, TimerYield, TimerLocked, Counted
  <2> QED
    BY <2>3, <2>4, <2>5
<1>2. CASE MyYield(p) \/ SleepDev(p) \/ WakeDev(p)
  BY <1>2 DEF MyYield, SleepDev, WakeDev
<1>3. CASE \E prio \in Priorities : SetPriority(p, prio)
  BY <1>3, MlfqConstants DEF SetPriority
<1>4. CASE \E v \in Victims : Kill(p, v)
  <2>1. PICK v \in Victims : Kill(p, v)
    BY <1>4
  <2>2. state' \in [Proc -> ProcState] /\ pc' \in [Proc -> Place]
    BY <2>1 DEF Kill
  <2>3. killed' \in [Proc -> BOOLEAN]
    BY <2>1 DEF Kill
  <2> QED
    BY <2>1, <2>2, <2>3 DEF Kill
<1>5. CASE \E c \in Proc, faults \in BOOLEAN : ForkAlloc(p, c, faults)
  <2>1. PICK c \in Proc, faults \in BOOLEAN : ForkAlloc(p, c, faults)
    BY <1>5
  <2> DEFINE G == [l \in Lists |-> Entry]
  <2>2. Holds(mlfq, G) /\ Fresh(c) \in G[0]
    BY HoldsEntries, EntryTypes DEF Lists
  <2>3. NewProc(mlfq, state', c, faults) \in Mlfq
    BY <2>2, NewProcHolds
  <2> QED
    BY <2>1, <2>3 DEF ForkAlloc
<1>6. CASE ForkDone(p) \/ ForkFailed(p)
  BY <1>6 DEF ForkDone, ForkFailed
<1>7. CASE Exit(p)
  <2>1. parent' \in [Proc -> Proc \cup {None}]
    BY <1>7, MlfqConstants DEF Exit
  <2>2. state' \in [Proc -> ProcState]
    BY <1>7 DEF Exit
  <2> QED
    BY <1>7, <2>1, <2>2 DEF Exit
<1>8. CASE \E c \in Proc : WaitReap(p, c)
  BY <1>8 DEF WaitReap
<1>9. CASE WaitNone(p) \/ WaitSleep(p)
  BY <1>9 DEF WaitNone, WaitSleep
<1>10. CASE Lock(p)
  BY <1>10 DEF Lock, LockCheck, LockTake, LockOwn, UnlockCheck, UnlockStart,
               UnlockDisown, UnlockYield
<1> QED
  BY <1>1, <1>2, <1>3, <1>4, <1>5, <1>6, <1>7, <1>8, <1>9, <1>10 DEF ProcStep

LEMMA InitType == ASSUME Init PROVE TypeOK
<1> DEFINE m == [q     |-> [l \in Lists |-> << >>],
                 isin  |-> [p \in Proc |-> FALSE],
                 panic |-> FALSE]
           G == [l \in Lists |-> Entry]
<1>1. m \in Mlfq
  BY EmptySeq DEF Mlfq
<1>2. Holds(m, G)
  BY <1>1, HoldsEntries
<1>3. Fresh(InitProc) \in Entry /\ Fresh(InitProc) \in G[ListOf(Fresh(InitProc))]
  BY MlfqConstants, EntryTypes
<1>4. mlfq = Push(m, Fresh(InitProc))
  BY DEF Init
<1> HIDE DEF m, G
<1>5. mlfq \in Mlfq
  BY <1>1, <1>2, <1>3, <1>4, PushHolds
<1>6. /\ state \in [Proc -> ProcState] /\ pc \in [Proc -> Place]
      /\ cur \in [lvl : Level, prio : Priority, tq : Int]
  BY DEF Init, ProcState, Place, Level, Priority
<1>7. /\ parent \in [Proc -> Proc \cup {None}] /\ np \in [Proc -> Proc \cup {None}]
      /\ killed \in [Proc -> BOOLEAN]
  BY DEF Init
<1>8. /\ nowproc \in Proc \cup {None} /\ lockproc \in Proc \cup {None}
      /\ cpu \in Proc \cup {None} /\ ticks \in Nat
      /\ islock \in {-1, 0, 1} /\ isTimeinterrupt \in BOOLEAN
  BY DEF Init
<1> QED
  BY <1>5, <1>6, <1>7, <1>8 DEF TypeOK

LEMMA TypeStep ==
    ASSUME TypeOK, LockHeld, [Next]_vars
    PROVE  TypeOK'
<1>1. CASE Next
  <2>1. CASE InitExit
    BY <2>1 DEF InitExit, TypeOK, Mlfq, procs, sched
  <2> QED
    BY <1>1, <2>1, NextCases, ScheduleType, ProcStepType
<1>2. CASE UNCHANGED vars
  BY <1>2 DEF vars, TypeOK
<1> QED
  BY <1>1, <1>2

-----------------------------------------------------------------------------
(* What a turn of the scheduler does *)

\* Either a runnable process that is not marked any more gets the CPU, or
\* nothing runs.
LEMMA DispatchCases ==
    ASSUME TypeOK, NEW m \in Mlfq, Dispatch(m)
    PROVE  /\ ~isTimeinterrupt'
           /\ <<parent, killed, pc, np>>' = <<parent, killed, pc, np>>
           /\ \/ /\ mlfq' = m
                 /\ UNCHANGED <<nowproc, cpu, state>>
              \/ \E p \in Proc :
                   /\ state[p] = "RUNNABLE"
                   /\ nowproc' = p /\ cpu' = p
                   /\ state' = [state EXCEPT ![p] = "RUNNING"]
                   /\ ~mlfq'.isin[p]
<1> DEFINE e == Popped(m, state)
<1>1. CASE CanPop(m, state)
  <2>1. /\ e \in Entry /\ m.isin \in [Proc -> BOOLEAN]
        /\ Pop(m, state).isin = [m.isin EXCEPT ![e.proc] = FALSE]
    BY <1>1, HoldsEntries, PopHolds DEF Mlfq
  <2>2. state[e.proc] = "RUNNABLE"
    BY <1>1, PoppedProps
  <2>3. /\ mlfq' = Pop(m, state) /\ nowproc' = e.proc /\ cpu' = e.proc
        /\ state' = [state EXCEPT ![e.proc] = "RUNNING"]
    BY <1>1 DEF Dispatch
  <2> HIDE DEF e
  <2>4. e.proc \in Proc
    BY <2>1 DEF Entry
  <2>5. ~mlfq'.isin[e.proc]
    BY <2>1, <2>3, <2>4
  <2> QED
    BY <2>2, <2>3, <2>4, <2>5 DEF Dispatch
<1>2. CASE ~CanPop(m, state)
  BY <1>2 DEF Dispatch
<1> QED
  BY <1>1, <1>2

\* A turn leaves the scheduler unlocked and dispatches, or goes on with the
\* process that holds the lock.
LEMMA ScheduleCases ==
    ASSUME TypeOK, LockHeld, Schedule
    PROVE  /\ cpu = None /\ ~mlfq.panic
           /\ \/ islock = 1 /\ nowproc \in Proc /\ ScheduleLocked
              \/ islock' = 0 /\ \E m \in Mlfq : Dispatch(m)
<1>1. cpu = None /\ ~mlfq.panic
  BY DEF Schedule, ScheduleNext, ScheduleBoost, ScheduleUnlocked,
         ScheduleGivenUp, ScheduleLocked, InScheduler
<1>2. CASE ScheduleNext
  BY <1>1, <1>2, RequeuedType DEF ScheduleNext
<1>3. CASE ScheduleBoost
  <2> DEFINE m == IF nowproc # None /\ Alive(nowproc)
                  THEN Push(mlfq, Wrap(nowproc, cur.lvl, cur.prio, Charged))
                  ELSE mlfq
             b == Boost(m, state, islock # 0, nowproc)
  <2>1. m \in Mlfq
    BY RequeuedType DEF TypeOK
  <2>2. islock # 0 => nowproc \in Proc
    BY DEF LockHeld, TypeOK
  <2>3. Dispatch(b) /\ islock' = 0
    BY <1>3 DEF ScheduleBoost
  <2> HIDE DEF m
  <2>4. b \in Mlfq
    BY <2>1, <2>2, BoostType
  <2> HIDE DEF b
  <2> QED
    BY <1>1, <2>3, <2>4
<1>4. CASE ScheduleUnlocked
  BY <1>1, <1>4, RequeuedType DEF ScheduleUnlocked, LockHeld
<1>5. CASE ScheduleGivenUp
  <2> DEFINE m == IF state[nowproc] = "SLEEPING"
                  THEN HeadPush(mlfq, Fresh(nowproc)) ELSE mlfq
  <2>1. m \in Mlfq
    BY <1>5, RequeuedType DEF ScheduleGivenUp, LockHeld, TypeOK
  <2>2. Dispatch(m) /\ islock' = 0
    BY <1>5 DEF ScheduleGivenUp
  <2> HIDE DEF m
  <2> QED
    BY <1>1, <2>1, <2>2
<1>6. CASE ScheduleLocked
  BY <1>1, <1>6 DEF ScheduleLocked, LockHeld, TypeOK
<1> QED
  BY <1>2, <1>3, <1>4, <1>5, <1>6 DEF Schedule

\* The parts of the invariant that say nothing of budgets and lists.
Core == /\ TypeOK /\ OneRunning /\ LockHeld /\ NoLostWakeup
        /\ Forks /\ Family /\ OnCpu /\ NotUnlocked

LEMMA ScheduleCore ==
    ASSUME Core, Schedule
    PROVE  Core'
<1> USE DEF Core
<1>1. TypeOK'
  BY ScheduleType
<1>2. cpu = None /\ \A p \in Proc : state[p] # "RUNNING"
  BY ScheduleCases, MlfqConstants DEF OneRunning
<1>3. CASE islock = 1 /\ nowproc \in Proc /\ ScheduleLocked
  <2>1. /\ state' = [state EXCEPT ![nowproc] = "RUNNING"] /\ cpu' = nowproc
        /\ isTimeinterrupt' = FALSE
        /\ UNCHANGED <<parent, killed, pc, np, mlfq, nowproc, islock, lockproc>>
        /\ state[nowproc] # "ZOMBIE" /\ state[nowproc] # "SLEEPING"
    BY <1>3 DEF ScheduleLocked
  <2>2. OneRunning' /\ OnCpu' /\ LockHeld' /\ NotUnlocked'
    BY <1>2, <1>3, <2>1, MlfqConstants
       DEF OneRunning, OnCpu, LockHeld, NotUnlocked, TypeOK
  <2>3. Forks'
    BY <1>3, <2>1 DEF Forks, LockHeld, TypeOK
  <2>4. NoLostWakeup' /\ Family'
    BY <1>3, <2>1, MlfqConstants DEF NoLostWakeup, Family, Dead, Children, TypeOK
  <2> QED
    BY <1>1, <2>2, <2>3, <2>4
<1>4. ASSUME NEW m \in Mlfq, Dispatch(m), islock' = 0
      PROVE  Core'
  <2>1. /\ ~isTimeinterrupt'
        /\ <<parent, killed, pc, np>>' = <<parent, killed, pc, np>>
    BY <1>4, DispatchCases
  <2>2. LockHeld' /\ NotUnlocked'
    BY <1>4 DEF LockHeld, NotUnlocked
  <2>3. CASE UNCHANGED <<nowproc, cpu, state>>
    BY <1>1, <1>2, <2>1, <2>2, <2>3
       DEF OneRunning, NoLostWakeup, Forks, Family, OnCpu, Dead, Children
  <2>4. ASSUME NEW p \in Proc, state[p] = "RUNNABLE", nowproc' = p, cpu' = p,
               state' = [state EXCEPT ![p] = "RUNNING"], ~mlfq'.isin[p]
        PROVE  Core'
    <3>1. OneRunning' /\ OnCpu'
      BY <1>2, <2>1, <2>4, MlfqConstants DEF OneRunning, OnCpu, TypeOK
    <3>2. Forks'
      BY <2>1, <2>4 DEF Forks, TypeOK
    <3>3. NoLostWakeup' /\ Family'
      BY <2>1, <2>4, MlfqConstants DEF NoLostWakeup, Family, Dead, Children, TypeOK
    <3> QED
      BY <1>1, <2>2, <3>1, <3>2, <3>3
  <2> QED
    BY <1>4, <2>3, <2>4, DispatchCases
<1> QED
  BY <1>3, <1>4, ScheduleCases

-----------------------------------------------------------------------------
(* What the steps of a process do *)

LEMMA TickCore ==
    ASSUME Core, NEW p \in Proc, TimerTick(p)
    PROVE  Core'
<1> USE DEF Core
<1>1. TypeOK'
  BY ProcStepType DEF ProcStep
<1>2. /\ cpu = p /\ p = nowproc /\ state[p] = "RUNNING"
      /\ UNCHANGED <<parent, killed, pc, np, mlfq, nowproc, islock, lockproc>>
  BY MlfqConstants DEF TimerTick, TimerYield, TimerLocked, Counted, OneRunning
<1>3. CASE TimerYield(p)
  <2>1. state' = [state EXCEPT ![p] = "RUNNABLE"] /\ cpu' = None
    BY <1>3 DEF TimerYield, LeaveCpu
  <2>2. OneRunning' /\ OnCpu' /\ NotUnlocked'
    BY <1>2, <2>1, MlfqConstants DEF OneRunning, OnCpu, NotUnlocked, TypeOK
  <2>3. LockHeld'
    BY <1>2, <2>1 DEF LockHeld, TypeOK
  <2>4. Forks'
    BY <1>2, <2>1 DEF Forks, TypeOK
  <2>5. NoLostWakeup' /\ Family'
    BY <1>2, <2>1, MlfqConstants DEF NoLostWakeup, Family, Dead, Children, TypeOK
  <2> QED
    BY <1>1, <2>2, <2>3, <2>4, <2>5
<1>4. CASE TimerLocked(p)
  <2>1. UNCHANGED <<isTimeinterrupt, state, cpu>>
    BY <1>4 DEF TimerLocked
  <2> QED
    BY <1>1, <1>2, <2>1
       DEF OneRunning, OnCpu, NotUnlocked, LockHeld, Forks, NoLostWakeup,
           Family, Dead, Children
<1> QED
  BY <1>3, <1>4 DEF TimerTick

\* Yielding and going to sleep: the process leaves the CPU.
LEMMA LeaveCore ==
    ASSUME Core, NEW p \in Proc, NEW s \in {"RUNNABLE", "SLEEPING"},
           NEW place \in Place \ {"fork", "lock2", "unlock2"},
           cpu = p, pc[p] # "lock2", TypeOK',
           pc[p] \in {"unlock2", "yield"} => place = "user",
           s = "SLEEPING" /\ place = "wait" => Dead(p) = {},
           LeaveCpu(p, s), pc' = [pc EXCEPT ![p] = place],
           UNCHANGED <<parent, killed, np, mlfq, sched>>
    PROVE  Core'
<1> USE DEF Core
<1>1. p = nowproc /\ state[p] = "RUNNING"
  BY MlfqConstants DEF OneRunning
<1>2. state' = [state EXCEPT ![p] = s] /\ cpu' = None
  BY DEF LeaveCpu
<1>3. OneRunning' /\ OnCpu' /\ NotUnlocked'
  BY <1>1, <1>2, MlfqConstants DEF OneRunning, OnCpu, NotUnlocked, TypeOK, sched, Place
<1>4. LockHeld'
  BY <1>1, <1>2 DEF LockHeld, TypeOK, sched
<1>5. Forks'
  BY <1>1, <1>2 DEF Forks, TypeOK
<1>6. NoLostWakeup' /\ Family'
  <2>1. Family'
    BY <1>1, <1>2, MlfqConstants DEF Family, TypeOK
  <2>2. \A q \in Proc : Dead(q)' \subseteq Dead(q)
    BY <1>1, <1>2 DEF Dead, Children, TypeOK
  <2>3. NoLostWakeup'
    BY <1>1, <1>2, <2>2 DEF NoLostWakeup, TypeOK
  <2> QED
    BY <2>1, <2>3
<1> QED
  BY <1>3, <1>4, <1>5, <1>6

LEMMA SleepCore ==
    ASSUME Core, NEW p \in Proc,
           MyYield(p) \/ SleepDev(p) \/ WaitSleep(p) \/ UnlockYield(p)
    PROVE  Core'
<1>1. TypeOK /\ TypeOK'
  BY ProcStepType DEF ProcStep, Core, Lock
<1> USE DEF Idle, Waiting, Running, Place
<1>2. CASE MyYield(p)
  <2>1. pc' = [pc EXCEPT ![p] = "user"]
    BY <1>1, <1>2 DEF MyYield, TypeOK
  <2> QED
    BY <1>1, <1>2, <2>1, LeaveCore DEF MyYield
<1>3. CASE SleepDev(p)
  BY <1>1, <1>3, LeaveCore DEF SleepDev
<1>4. CASE WaitSleep(p)
  BY <1>1, <1>4, LeaveCore DEF WaitSleep
<1>5. CASE UnlockYield(p)
  BY <1>1, <1>5, LeaveCore DEF UnlockYield
<1> QED
  BY <1>2, <1>3, <1>4, <1>5

\* A step that moves its process to another place in the kernel, or nothing.
LEMMA MoveCore ==
    ASSUME Core, TypeOK', NEW p \in Proc, NEW place \in Place \ {"fork", "unlock2"},
           cpu = p, pc' = [pc EXCEPT ![p] = place],
           UNCHANGED <<state, parent, np, mlfq, nowproc, isTimeinterrupt, cpu>>,
           islock' = 1 => lockproc' = nowproc \/ place = "lock2",
           islock' = -1 => place = "yield"
    PROVE  Core'
<1> USE DEF Core
<1>1. p = nowproc /\ state[p] = "RUNNING" /\ ~mlfq.isin[p]
  BY MlfqConstants DEF OneRunning, OnCpu
<1>2. OneRunning' /\ OnCpu' /\ NotUnlocked' /\ LockHeld'
  BY <1>1, MlfqConstants
     DEF OneRunning, OnCpu, NotUnlocked, LockHeld, TypeOK
<1>3. Forks'
  BY DEF Forks, TypeOK
<1>4. NoLostWakeup' /\ Family'
  BY <1>1 DEF NoLostWakeup, Family, Dead, Children, TypeOK
<1> QED
  BY <1>2, <1>3, <1>4

\* wakeup and kill: a process is roused from its sleep.
LEMMA RouseCore ==
    ASSUME Core, NEW p \in Proc, WakeDev(p) \/ \E r \in Proc : Kill(r, p)
    PROVE  Core'
<1> USE DEF Core
<1>1. TypeOK /\ TypeOK'
  <2>1. CASE WakeDev(p)
    BY <2>1, ProcStepType DEF ProcStep
  <2>2. ASSUME NEW r \in Proc, Kill(r, p) PROVE TypeOK'
    <3>1. /\ state' \in [Proc -> ProcState] /\ pc' \in [Proc -> Place]
          /\ killed' \in [Proc -> BOOLEAN]
      BY <2>2 DEF Kill, TypeOK, ProcState, Place
    <3> QED
      BY <2>2, <3>1 DEF Kill, TypeOK, sched
  <2> QED
    BY <2>1, <2>2
<1>2. /\ state' = [state EXCEPT ![p] = IF @ = "SLEEPING" THEN "RUNNABLE" ELSE @]
      /\ pc' = [pc EXCEPT ![p] = IF @ = "dev" THEN "user" ELSE @]
      /\ UNCHANGED <<parent, np, mlfq, sched, cpu>>
  BY <1>1 DEF WakeDev, Kill, TypeOK
<1> HIDE DEF Core
<1>3. OneRunning' /\ OnCpu'
  BY <1>1, <1>2 DEF Core, OneRunning, OnCpu, TypeOK, sched
<1>4. NotUnlocked' /\ LockHeld'
  BY <1>1, <1>2 DEF Core, NotUnlocked, LockHeld, TypeOK, sched
<1>5. Forks'
  BY <1>1, <1>2 DEF Core, Forks, TypeOK
<1>6. Family'
  BY <1>1, <1>2, MlfqConstants DEF Core, Family, TypeOK
<1>7. \A q \in Proc : Dead(q)' \subseteq Dead(q)
  BY <1>1, <1>2 DEF Dead, Children, TypeOK
<1>8. NoLostWakeup'
  BY <1>1, <1>2, <1>7 DEF Core, NoLostWakeup, TypeOK
<1> QED
  BY <1>1, <1>3, <1>4, <1>5, <1>6, <1>8 DEF Core

\* fork marks nobody but the new process as queued.
LEMMA NewProcMarks ==
    ASSUME NEW m \in Mlfq, NEW st, NEW faults \in BOOLEAN,
           NEW c \in Proc, NEW p \in Proc, p # c
    PROVE  NewProc(m, st, c, faults).isin[p] => m.isin[p]
<1> DEFINE d == Clear(m, st, faults)
<1>1. d.isin = [q \in Proc |-> d.isin[q]] /\ (d.isin[p] => m.isin[p])
  BY DEF Clear
<1>2. Fresh(c).proc = c
  BY DEF Fresh, Wrap
<1> DEFINE e == Fresh(c)
<1> HIDE DEF d, e
<1>3. Push(d, e).isin[p] = d.isin[p]
  BY <1>1, <1>2 DEF Push, e
<1> QED
  BY <1>1, <1>3 DEF NewProc, d, e

LEMMA ForkCore ==
    ASSUME Core, NEW p \in Proc,
           ForkDone(p) \/ ForkFailed(p)
              \/ \E c \in Proc, faults \in BOOLEAN : ForkAlloc(p, c, faults)
    PROVE  Core'
<1> USE DEF Core
<1>1. TypeOK'
  BY ProcStepType DEF ProcStep
<1>2. cpu = p /\ p = nowproc /\ state[p] = "RUNNING" /\ pc[p] \in {"user", "fork"}
  BY MlfqConstants
     DEF ForkDone, ForkFailed, ForkAlloc, Running, Idle, OneRunning
<1>3. islock # -1 /\ (islock = 1 => lockproc = nowproc)
  BY <1>2, MlfqConstants DEF LockHeld
<1>4. ~mlfq.isin[p] /\ ~isTimeinterrupt
  BY <1>2, MlfqConstants DEF OnCpu
<1>5. ASSUME NEW c \in Proc, NEW faults \in BOOLEAN, ForkAlloc(p, c, faults)
      PROVE  Core'
  <2>1. /\ state[c] = "UNUSED" /\ c # p
        /\ state' = [state EXCEPT ![c] = "EMBRYO"]
        /\ np' = [np EXCEPT ![p] = c]
        /\ pc' = [pc EXCEPT ![p] = "fork"]
        /\ UNCHANGED <<parent, killed, sched, cpu>>
    BY <1>2, <1>5 DEF ForkAlloc
  <2>2. ~mlfq'.isin[p]
    BY <1>4, <1>5, <2>1, NewProcMarks DEF ForkAlloc, TypeOK
  <2>3. OneRunning' /\ OnCpu' /\ NotUnlocked' /\ LockHeld'
    BY <1>1, <1>2, <1>3, <1>4, <2>1, <2>2
       DEF OneRunning, OnCpu, NotUnlocked, LockHeld, TypeOK, sched
  <2>4. Forks'
    BY <1>2, <2>1 DEF Forks, TypeOK
  <2>5. NoLostWakeup' /\ Family'
    BY <1>2, <2>1, MlfqConstants DEF NoLostWakeup, Family, Dead, Children, TypeOK
  <2> QED
    BY <1>1, <2>3, <2>4, <2>5
<1>6. CASE ForkDone(p)
  <2> DEFINE c == np[p]
  <2>1. /\ c \in Proc /\ state[c] = "EMBRYO" /\ c # p /\ c # InitProc
        /\ \A r \in Proc : pc[r] = "fork" /\ np[r] = c => r = p
    BY <1>2, <1>6 DEF ForkDone, Running, Forks, Family
  <2>2. /\ parent' = [parent EXCEPT ![c] = p]
        /\ state' = [state EXCEPT ![c] = "RUNNABLE"]
        /\ pc' = [pc EXCEPT ![p] = "user", ![c] = "user"]
        /\ np' = [np EXCEPT ![p] = None]
        /\ UNCHANGED <<killed, mlfq, sched, cpu>>
    BY <1>6 DEF ForkDone
  <2> HIDE DEF c
  <2>3. OneRunning' /\ OnCpu' /\ NotUnlocked' /\ LockHeld'
    BY <1>2, <1>3, <1>4, <2>1, <2>2
       DEF OneRunning, OnCpu, NotUnlocked, LockHeld, TypeOK, sched
  <2>4. Forks'
    BY <2>1, <2>2 DEF Forks, TypeOK
  <2>5. Family'
    BY <2>1, <2>2 DEF Family, TypeOK
  <2>6. NoLostWakeup'
    <3>1. \A q \in Proc : Dead(q)' \subseteq Dead(q)
      BY <2>1, <2>2 DEF Dead, Children, TypeOK
    <3> QED
      BY <2>1, <2>2, <3>1 DEF NoLostWakeup, TypeOK
  <2> QED
    BY <1>1, <2>3, <2>4, <2>5, <2>6
<1>7. CASE ForkFailed(p)
  <2> DEFINE c == np[p]
  <2>1. /\ c \in Proc /\ state[c] = "EMBRYO" /\ c # p /\ c # InitProc
        /\ \A r \in Proc : pc[r] = "fork" /\ np[r] = c => r = p
    BY <1>2, <1>7 DEF ForkFailed, Running, Forks, Family
  <2>2. /\ state' = [state EXCEPT ![c] = "UNUSED"]
        /\ pc' = [pc EXCEPT ![p] = "user"]
        /\ np' = [np EXCEPT ![p] = None]
        /\ UNCHANGED <<parent, killed, mlfq, sched, cpu>>
    BY <1>7 DEF ForkFailed
  <2> HIDE DEF c
  <2>3. OneRunning' /\ OnCpu' /\ NotUnlocked' /\ LockHeld'
    BY <1>2, <1>3, <1>4, <2>1, <2>2
       DEF OneRunning, OnCpu, NotUnlocked, LockHeld, TypeOK, sched
  <2>4. Forks'
    BY <2>1, <2>2 DEF Forks, TypeOK
  <2>5. Family' /\ NoLostWakeup'
    BY <2>1, <2>2, <1>2 DEF Family, NoLostWakeup, Dead, Children, TypeOK
  <2> QED
    BY <1>1, <2>3, <2>4, <2>5
<1> QED
  BY <1>5, <1>6, <1>7

LEMMA ExitCore ==
    ASSUME Core, NEW p \in Proc, Exit(p)
    PROVE  Core'
<1> USE DEF Core
<1>1. TypeOK'
  BY ProcStepType DEF ProcStep
<1>2. cpu = p /\ p = nowproc /\ state[p] = "RUNNING" /\ pc[p] = "user" /\ p # InitProc
  BY MlfqConstants DEF Exit, Running, OneRunning
<1> DEFINE orphans == {c \in Proc : parent[c] = p}
           woken   == {parent[p]} \cup
                      (IF \E c \in orphans : state[c] = "ZOMBIE"
                       THEN {InitProc} ELSE {})
<1>3. /\ parent' = [c \in Proc |-> IF c \in orphans THEN InitProc ELSE parent[c]]
      /\ state' = [c \in Proc |->
                     IF c = p THEN "ZOMBIE"
                     ELSE IF c \in woken /\ pc[c] = "wait"
                             /\ state[c] = "SLEEPING" THEN "RUNNABLE"
                     ELSE state[c]]
      /\ cpu' = None
      /\ UNCHANGED <<killed, pc, np, mlfq, sched>>
  BY DEF Exit
<1>4. OneRunning' /\ OnCpu' /\ NotUnlocked' /\ LockHeld'
  BY <1>2, <1>3, MlfqConstants
     DEF OneRunning, OnCpu, NotUnlocked, LockHeld, TypeOK, sched
<1>5. Forks'
  BY <1>2, <1>3 DEF Forks
<1>6. Family'
  BY <1>2, <1>3, MlfqConstants DEF Family
<1>7. NoLostWakeup'
  <2> SUFFICES ASSUME NEW q \in Proc, state'[q] = "SLEEPING", pc'[q] = "wait",
                      NEW c \in Proc, parent'[c] = q, state'[c] = "ZOMBIE"
               PROVE  FALSE
    BY DEF NoLostWakeup, Dead, Children
  <2>1. q # p /\ state[q] = "SLEEPING" /\ pc[q] = "wait" /\ q \notin woken
    BY <1>3
  <2>2. Dead(q) = {}
    BY <2>1 DEF NoLostWakeup
  <2>3. CASE c = p
    <3>1. parent[p] = q
      BY <1>2, <1>3, <2>3 DEF Family
    <3> QED
      BY <2>1, <3>1
  <2>4. CASE c # p
    <3>1. state[c] = "ZOMBIE"
      BY <1>3, <2>4
    <3>2. CASE c \in orphans
      BY <1>3, <2>1, <3>1, <3>2
    <3>3. CASE c \notin orphans
      BY <1>3, <2>2, <3>1, <3>3 DEF Dead, Children
    <3> QED
      BY <3>2, <3>3
  <2> QED
    BY <2>3, <2>4
<1> QED
  BY <1>1, <1>4, <1>5, <1>6, <1>7

LEMMA ReapCore ==
    ASSUME Core, NEW p \in Proc, NEW c \in Proc, WaitReap(p, c)
    PROVE  Core'
<1> USE DEF Core
<1>1. TypeOK'
  BY ProcStepType DEF ProcStep
<1>2. cpu = p /\ p = nowproc /\ state[p] = "RUNNING" /\ pc[p] \in {"user", "wait"}
  BY MlfqConstants DEF WaitReap, Waiting, Running, Idle, OneRunning
<1>3. /\ state[c] = "ZOMBIE" /\ c # p /\ c # InitProc
      /\ state' = [state EXCEPT ![c] = "UNUSED"]
      /\ parent' = [parent EXCEPT ![c] = None]
      /\ pc' = [pc EXCEPT ![p] = "user"]
      /\ UNCHANGED <<np, mlfq, sched, cpu>>
  BY <1>2 DEF WaitReap, Dead, Family
<1>4. OneRunning' /\ OnCpu' /\ NotUnlocked' /\ LockHeld'
  BY <1>2, <1>3, MlfqConstants
     DEF OneRunning, OnCpu, NotUnlocked, LockHeld, TypeOK, sched
<1>5. Forks' /\ Family'
  BY <1>2, <1>3, MlfqConstants DEF Forks, Family, TypeOK
<1>6. \A q \in Proc : Dead(q)' \subseteq Dead(q)
  BY <1>3, MlfqConstants DEF Dead, Children, TypeOK
<1>7. NoLostWakeup'
  BY <1>2, <1>3, <1>6 DEF NoLostWakeup, TypeOK
<1> QED
  BY <1>1, <1>4, <1>5, <1>7

\* setPriority, a wait that returns, and the stores of the scheduler lock.
LEMMA CallCore ==
    ASSUME Core, NEW p \in Proc,
           \/ \E prio \in Priorities : SetPriority(p, prio)
           \/ WaitNone(p)
           \/ Lock(p) /\ ~UnlockYield(p)
    PROVE  Core'
<1> USE DEF Running, Idle, sched, procs, Place
<1>1. TypeOK /\ TypeOK'
  BY ProcStepType DEF ProcStep, Core
<1>2. cpu = p /\ p = nowproc /\ state[p] = "RUNNING" /\ ~mlfq.isin[p]
  BY MlfqConstants
     DEF Core, OneRunning, OnCpu, SetPriority, WaitNone, Lock, LockCheck, LockTake,
         LockOwn, UnlockCheck, UnlockStart, UnlockDisown
<1>3. /\ islock = 1 => (lockproc = nowproc \/ pc[p] = "lock2") /\ pc[p] # "unlock2"
      /\ islock = -1 => pc[p] \in {"unlock2", "yield"}
  BY <1>2, MlfqConstants DEF Core, LockHeld, NotUnlocked
<1>4. CASE \E prio \in Priorities : SetPriority(p, prio)
  <2>1. pc[p] = "user" /\ pc' = [pc EXCEPT ![p] = "user"]
    BY <1>1, <1>4 DEF SetPriority, TypeOK
  <2> QED
    BY <1>1, <1>2, <1>3, <1>4, <2>1, MoveCore DEF SetPriority
<1>5. CASE WaitNone(p)
  BY <1>1, <1>2, <1>3, <1>5, MoveCore DEF WaitNone
<1>6. CASE LockCheck(p)
  BY <1>1, <1>2, <1>3, <1>6, MoveCore DEF LockCheck
<1>7. CASE LockTake(p)
  <2>1. /\ islock' = 1 /\ islock' # -1 /\ pc' = [pc EXCEPT ![p] = "lock2"]
        /\ UNCHANGED <<state, parent, np, mlfq, nowproc, isTimeinterrupt, cpu>>
    BY <1>7 DEF LockTake
  <2> QED
    BY <1>1, <1>2, <2>1, "lock2" \in Place \ {"fork", "unlock2"}, MoveCore
<1>8. CASE LockOwn(p)
  BY <1>1, <1>2, <1>3, <1>8, MoveCore DEF LockOwn
<1>9. CASE UnlockCheck(p)
  BY <1>1, <1>2, <1>3, <1>9, MoveCore DEF UnlockCheck
<1>10. CASE UnlockStart(p)
  BY <1>1, <1>2, <1>10, MlfqConstants
     DEF UnlockStart, Core, OneRunning, OnCpu, NotUnlocked, LockHeld, Forks, Family,
         NoLostWakeup, Dead, Children, TypeOK
<1>11. CASE UnlockDisown(p)
  BY <1>1, <1>2, <1>3, <1>11, MoveCore DEF UnlockDisown
<1> QED
  BY <1>4, <1>5, <1>6, <1>7, <1>8, <1>9, <1>10, <1>11 DEF Lock

-----------------------------------------------------------------------------
(* The invariant *)

LEMMA CoreInit == ASSUME Init PROVE Core
<1>1. TypeOK
  BY InitType
<1>2. OneRunning /\ LockHeld /\ OnCpu /\ NotUnlocked
  BY MlfqConstants DEF Init, OneRunning, LockHeld, OnCpu, NotUnlocked
<1>3. NoLostWakeup /\ Forks /\ Family
  BY MlfqConstants DEF Init, NoLostWakeup, Forks, Family
<1> QED
  BY <1>1, <1>2, <1>3 DEF Core

LEMMA CoreStep == ASSUME Core, [Next]_vars PROVE Core'
<1>1. CASE Schedule
  BY <1>1, ScheduleCore
<1>2. CASE InitExit
  <2>1. TypeOK'
    BY <1>2, TypeStep DEF Core, Next
  <2>2. mlfq'.isin = mlfq.isin
    BY <1>2 DEF InitExit, Core, TypeOK, Mlfq
  <2> QED
    BY <1>2, <2>1, <2>2
       DEF InitExit, procs, sched, Core, OneRunning, LockHeld, OnCpu, NotUnlocked,
           NoLostWakeup, Forks, Family, Dead, Children
<1>3. ASSUME NEW p \in Proc, ProcStep(p) PROVE Core'
  <2>1. CASE TimerTick(p)
    BY <2>1, TickCore
  <2>2. CASE MyYield(p) \/ SleepDev(p) \/ WaitSleep(p) \/ UnlockYield(p)
    BY <2>2, SleepCore
  <2>3. CASE WakeDev(p) \/ \E v \in Victims : Kill(p, v)
    BY <2>3, RouseCore, MlfqConstants
  <2>4. CASE \/ ForkDone(p) \/ ForkFailed(p)
             \/ \E c \in Proc, faults \in BOOLEAN : ForkAlloc(p, c, faults)
    BY <2>4, ForkCore
  <2>5. CASE Exit(p) \/ \E c \in Proc : WaitReap(p, c)
    BY <2>5, ExitCore, ReapCore
  <2>6. CASE \/ \E prio \in Priorities : SetPriority(p, prio)
             \/ WaitNone(p)
             \/ Lock(p) /\ ~UnlockYield(p)
    BY <2>6, CallCore
  <2> QED
    BY <1>3, <2>1, <2>2, <2>3, <2>4, <2>5, <2>6 DEF ProcStep
<1>4. CASE UNCHANGED vars
  BY <1>4 DEF vars, Core, TypeOK, OneRunning, LockHeld, OnCpu, NotUnlocked,
              NoLostWakeup, Forks, Family, Dead, Children
<1> QED
  BY <1>1, <1>2, <1>3, <1>4, NextCases

LEMMA CoreInvariant == Spec => []Core
<1>1. Init => Core
  BY CoreInit
<1>2. Core /\ [Next]_vars => Core'
  BY CoreStep
<1> QED
  BY <1>1, <1>2, PTL DEF Spec

-----------------------------------------------------------------------------
(* Budgets *)

\* What may stand on the list l: an entry with budget left, on the list of its
\* level and priority, or of L2 and on L0.
Good == [l \in Lists |-> {e \in Entry : /\ e.tq \in 1..Quantum(e.lvl)
                                        /\ l = ListOf(e) \/ (l = 0 /\ e.lvl = 2)}]

\* Placement, said of any queues m.
Placed(m) ==
    \A l \in Lists : \A i \in DOMAIN m.q[l] :
        /\ m.q[l][i].tq \in 1..Quantum(m.q[l][i].lvl)
        /\ l = ListOf(m.q[l][i]) \/ (l = 0 /\ m.q[l][i].lvl = 2)

LEMMA PlacedHolds ==
    ASSUME NEW m \in Mlfq
    PROVE  Placed(m) <=> Holds(m, Good)
<1>1. \A l \in Lists : Good[l] \subseteq Entry /\ m.q[l] \in Seq(Entry)
  BY DEF Good, Mlfq
<1>2. ASSUME Placed(m), NEW l \in Lists PROVE m.q[l] \in Seq(Good[l])
  <2> DEFINE s == m.q[l]
  <2>1. s \in Seq(Entry)
    BY <1>1
  <2>2. /\ Len(s) \in Nat /\ DOMAIN s = 1..Len(s)
        /\ s \in [1..Len(s) -> Entry]
    BY <2>1, LenProperties
  <2>3. \A i \in 1..Len(s) : s[i] \in Entry
    BY <2>2
  <2>4. \A i \in DOMAIN s : /\ s[i].tq \in 1..Quantum(s[i].lvl)
                            /\ l = ListOf(s[i]) \/ (l = 0 /\ s[i].lvl = 2)
    BY <1>2 DEF Placed
  <2>5. \A i \in 1..Len(s) : s[i] \in Good[l]
    BY <2>2, <2>3, <2>4 DEF Good
  <2> HIDE DEF s
  <2>6. s \in [1..Len(s) -> Good[l]]
    BY <2>2, <2>5
  <2> QED
    BY <2>2, <2>6, SeqDef DEF s
<1>3. ASSUME Holds(m, Good) PROVE Placed(m)
  <2> SUFFICES ASSUME NEW l \in Lists, NEW i \in DOMAIN m.q[l]
               PROVE  /\ m.q[l][i].tq \in 1..Quantum(m.q[l][i].lvl)
                      /\ l = ListOf(m.q[l][i]) \/ (l = 0 /\ m.q[l][i].lvl = 2)
    BY DEF Placed
  <2>1. m.q[l] \in Seq(Good[l])
    BY <1>3 DEF Holds
  <2>2. m.q[l][i] \in Good[l]
    BY <2>1, ElementOfSeq, LenProperties
  <2> QED
    BY <2>2 DEF Good
<1> QED
  BY <1>1, <1>2, <1>3 DEF Holds

LEMMA PlacementHolds ==
    /\ TypeOK => (Placement <=> Holds(mlfq, Good))
    /\ TypeOK' => (Placement' <=> Holds(mlfq', Good))
<1>1. (Placement <=> Placed(mlfq)) /\ (Placement' <=> Placed(mlfq'))
  BY DEF Placement, Placed
<1> QED
  BY <1>1, PlacedHolds DEF TypeOK

\* What the scheduler queues is good: fresh, demoted, or with budget left.
LEMMA GoodEntries ==
    /\ \A l \in Lists : Good[l] \subseteq Entry
    /\ \A p \in Proc : Fresh(p) \in Good[0]
    /\ \A p \in Proc, lvl \in Level, prio \in Priority :
          Demoted(p, lvl, prio) \in Good[ListOf(Demoted(p, lvl, prio))]
    /\ \A p \in Proc, lvl \in Level, prio \in Priority : \A tq \in 1..Quantum(lvl) :
          LET e == Wrap(p, lvl, prio, tq) IN
          e \in Good[ListOf(e)] /\ (lvl = 2 => e \in Good[0])
<1>1. 0 \in Lists /\ \A lvl \in Level : Quantum(lvl) \in Nat \ {0}
  BY EntryTypes DEF Lists
<1>2. \A l \in Lists : Good[l] \subseteq Entry
  BY DEF Good
<1>3. ASSUME NEW p \in Proc PROVE Fresh(p) \in Good[0]
  <2>1. Fresh(p) \in Entry /\ ListOf(Fresh(p)) = 0
    BY EntryTypes
  <2>2. Fresh(p).lvl = 0 /\ Fresh(p).tq = Quantum(0) /\ 0 \in Level
    BY DEF Fresh, Wrap, Level
  <2> QED
    BY <1>1, <2>1, <2>2 DEF Good
<1>4. ASSUME NEW p \in Proc, NEW lvl \in Level, NEW prio \in Priority
      PROVE  Demoted(p, lvl, prio) \in Good[ListOf(Demoted(p, lvl, prio))]
  <2>1. PICK e : e = Demoted(p, lvl, prio)
    OBVIOUS
  <2>2. e \in Entry /\ ListOf(e) \in Lists
    BY <2>1, EntryTypes
  <2>3. e.tq = Quantum(e.lvl) /\ e.lvl \in Level
    BY <2>1, <2>2 DEF Demoted, Wrap, Entry
  <2> QED
    BY <1>1, <2>1, <2>2, <2>3 DEF Good
<1>5. ASSUME NEW p \in Proc, NEW lvl \in Level, NEW prio \in Priority,
             NEW tq \in 1..Quantum(lvl), NEW e, e = Wrap(p, lvl, prio, tq)
      PROVE  e \in Good[ListOf(e)] /\ (lvl = 2 => e \in Good[0])
  <2>1. tq \in Int
    BY <1>1
  <2>2. e \in Entry /\ ListOf(e) \in Lists
    BY <1>5, <2>1, EntryTypes
  <2>3. e.tq = tq /\ e.lvl = lvl
    BY <1>5 DEF Wrap
  <2> QED
    BY <1>1, <2>2, <2>3 DEF Good
<1> QED
  BY <1>2, <1>3, <1>4, <1>5

\* The accounting of quanta, with what a process must have left to be queued.
Accounts == Budget /\ Placement /\ CanPay

\* n % n is 0: at BOOST ticks the boost is due.
LEMMA ModSelf == \A n \in Nat : n > 0 => n % n = 0
<1> SUFFICES ASSUME NEW n \in Nat, n > 0
             PROVE  n % n = 0
  OBVIOUS
<1>1. n = n * (n \div n) + (n % n) /\ n % n \in 0..(n - 1)
  OBVIOUS
<1> QED
  BY <1>1

LEMMA DispatchAccounts ==
    ASSUME TypeOK, TypeOK', cpu = None, NEW m \in Mlfq, Holds(m, Good), Dispatch(m),
           nowproc # None /\ Alive(nowproc) => m.isin[nowproc] \/ m.panic,
           ticks' \in 1..(BOOST - 1)
    PROVE  Accounts'
<1> DEFINE e == Popped(m, state)
<1>0. BOOST \in Nat /\ ticks' \in 1..BOOST /\ ticks' < BOOST
  BY MlfqConstants
<1>1. CASE CanPop(m, state)
  <2>1. /\ mlfq' = Pop(m, state) /\ cpu' = e.proc
        /\ cur' = [lvl |-> e.lvl, prio |-> e.prio, tq |-> e.tq]
    BY <1>1 DEF Dispatch
  <2>2. /\ Holds(Pop(m, state), Good) /\ e \in Good[PopList(m, state)]
        /\ PopList(m, state) \in Lists /\ e \in Entry
    BY <1>1, PopHolds, PoppedProps
  <2> HIDE DEF e
  <2>3. Placement'
    BY <2>1, <2>2, PlacementHolds
  <2>4. e.tq \in 1..Quantum(e.lvl) /\ e.proc \in Proc
    BY <2>2 DEF Good, Entry
  <2>5. cur'.tq \in 1..Quantum(cur'.lvl) /\ cpu' # None
    BY <2>1, <2>4, MlfqConstants
  <2> QED
    BY <1>0, <2>3, <2>5 DEF Accounts, Budget, CanPay
<1>2. CASE ~CanPop(m, state)
  <2>1. mlfq' = m /\ UNCHANGED <<nowproc, cpu, state>>
    BY <1>2 DEF Dispatch
  <2>2. Placement'
    BY <2>1, PlacementHolds
  <2>3. CanPay'
    BY <2>1 DEF CanPay, Alive
  <2> QED
    BY <1>0, <2>1, <2>2, <2>3 DEF Accounts, Budget
<1> QED
  BY <1>1, <1>2

LEMMA ScheduleAccounts ==
    ASSUME Core, Accounts, Schedule
    PROVE  Accounts'
<1> DEFINE now == nowproc
<1>0. /\ TypeOK /\ TypeOK' /\ cpu = None /\ ~mlfq.panic /\ LockHeld
      /\ Holds(mlfq, Good) /\ mlfq \in Mlfq /\ islock \in {-1, 0, 1}
  BY ScheduleCore, ScheduleCases, PlacementHolds DEF Core, Accounts, TypeOK
<1>1. 1 \in 1..(BOOST - 1) /\ (~BoostDue => ticks \in 1..(BOOST - 1))
  BY MlfqConstants, ModSelf DEF BoostDue, Accounts, Budget
<1>2. CASE ScheduleNext
  <2>1. Dispatch(Requeued) /\ ticks' = ticks /\ ~BoostDue /\ islock = 0
    BY <1>2 DEF ScheduleNext
  <2>2. Requeued \in Mlfq
    BY <1>0, RequeuedType
  <2>3. /\ Holds(Requeued, Good)
        /\ now # None /\ Alive(now) => Requeued.isin[now] \/ Requeued.panic
    <3>1. CASE now = None \/ ~Alive(now)
      BY <1>0, <3>1 DEF Requeued
    <3>2. CASE now # None /\ Alive(now) /\ mlfq.isin[now]
      <4>1. Requeued = mlfq
        BY <3>2 DEF Requeued, Push, HeadPush, Wrap, Demoted
      <4> QED
        BY <1>0, <3>2, <4>1
    <3>3. CASE now # None /\ Alive(now) /\ ~mlfq.isin[now]
      <4>1. /\ now \in Proc /\ cur.lvl \in Level /\ cur.prio \in Priority
            /\ Charged \in 0..Quantum(cur.lvl) /\ Quantum(cur.lvl) \in Nat
        BY <1>0, <2>1, <3>3, EntryTypes DEF TypeOK, Accounts, CanPay
      <4>2. PICK d : d = Demoted(now, cur.lvl, cur.prio)
        OBVIOUS
      <4>3. PICK e : e = Wrap(now, cur.lvl, cur.prio, Charged)
        OBVIOUS
      <4>4. /\ d \in Entry /\ d.proc = now /\ d \in Good[ListOf(d)]
            /\ e \in Entry /\ e.proc = now
        BY <4>1, <4>2, <4>3, EntryTypes, GoodEntries DEF Demoted, Wrap
      <4>5. Charged # 0 => e \in Good[ListOf(e)] /\ (cur.lvl = 2 => e \in Good[0])
        BY <4>1, <4>3, GoodEntries
      <4>6. \/ Charged = 0 /\ Requeued = Push(mlfq, d)
            \/ Charged # 0 /\ cur.lvl = 2 /\ Requeued = HeadPush(mlfq, e)
            \/ Charged # 0 /\ Requeued = Push(mlfq, e)
        BY <3>3, <4>2, <4>3 DEF Requeued
      <4> QED
        BY <1>0, <4>4, <4>5, <4>6, PushHolds, HeadPushHolds, PushMarks
    <3> QED
      BY <3>1, <3>2, <3>3
  <2> QED
    BY <1>0, <1>1, <2>1, <2>2, <2>3, DispatchAccounts
<1>3. CASE ScheduleBoost
  <2>1. PICK m : m = IF now # None /\ Alive(now)
                     THEN Push(mlfq, Wrap(now, cur.lvl, cur.prio, Charged))
                     ELSE mlfq
    OBVIOUS
  <2>2. m \in Mlfq
    BY <1>0, <2>1, RequeuedType
  <2>3. PICK b : b = Boost(m, state, islock # 0, now)
    OBVIOUS
  <2>4. Dispatch(b) /\ ticks' = 1
    BY <1>3, <2>1, <2>3 DEF ScheduleBoost
  <2>5. islock # 0 => now \in Proc
    BY <1>0 DEF LockHeld, TypeOK
  <2>6. b \in Mlfq /\ Holds(b, Good)
    BY <2>2, <2>3, <2>5, GoodEntries, BoostHolds
  <2>7. ASSUME now # None, Alive(now) PROVE b.isin[now] \/ b.panic
    <3>1. PICK e : e = Wrap(now, cur.lvl, cur.prio, Charged)
      OBVIOUS
    <3>2. now \in Proc /\ e \in Entry /\ e.proc = now
      BY <1>0, <2>7, <3>1, EntryTypes DEF TypeOK, Charged, Wrap
    <3>3. m.isin[now] \/ m.panic
      BY <1>0, <2>1, <2>7, <3>1, <3>2, PushMarks
    <3> QED
      BY <2>2, <2>3, <2>7, <3>2, <3>3, BoostMarks DEF Alive
  <2> QED
    BY <1>0, <1>1, <2>4, <2>6, <2>7, DispatchAccounts
<1>4. CASE ScheduleUnlocked \/ (ScheduleGivenUp /\ state[now] = "SLEEPING")
  <2>1. PICK b : b = HeadPush(mlfq, Fresh(now))
    OBVIOUS
  <2>2. now \in Proc
    BY <1>0, <1>4 DEF ScheduleUnlocked, ScheduleGivenUp, LockHeld, TypeOK
  <2>3. Fresh(now) \in Entry /\ Fresh(now) \in Good[0] /\ Fresh(now).proc = now
    BY <2>2, EntryTypes, GoodEntries DEF Fresh, Wrap
  <2>4. b \in Mlfq /\ Holds(b, Good) /\ (b.isin[now] \/ b.panic)
    BY <1>0, <2>1, <2>3, HeadPushHolds, PushMarks
  <2>5. Dispatch(b) /\ ticks' = ticks /\ ~BoostDue
    BY <1>4, <2>1 DEF ScheduleUnlocked, ScheduleGivenUp
  <2> QED
    BY <1>0, <1>1, <2>4, <2>5, DispatchAccounts
<1>5. CASE ScheduleGivenUp /\ state[now] # "SLEEPING"
  <2>1. Dispatch(mlfq) /\ ticks' = ticks /\ ~BoostDue /\ ~Alive(now)
    BY <1>5 DEF ScheduleGivenUp, Alive
  <2> QED
    BY <1>0, <1>1, <2>1, DispatchAccounts
<1>6. CASE ScheduleLocked
  <2>1. /\ islock' # 0 /\ ~BoostDue /\ now # None
        /\ cpu' = now /\ UNCHANGED <<mlfq, ticks>>
    BY <1>0, <1>6 DEF ScheduleLocked, LockHeld
  <2>2. Placement'
    BY <1>0, <2>1, PlacementHolds
  <2> QED
    BY <1>1, <2>1, <2>2, MlfqConstants DEF Accounts, Budget, CanPay
<1> QED
  BY <1>2, <1>3, <1>4, <1>5, <1>6 DEF Schedule

\* A running process outside the lock has its budget, and it has not been
\* charged by the timer: when it leaves, it can pay.
LEMMA StepAccounts ==
    ASSUME Core, Accounts, NEW p \in Proc, ProcStep(p)
    PROVE  Accounts'
<1>0. /\ TypeOK /\ TypeOK'
      /\ cpu # None => cpu = nowproc /\ ~isTimeinterrupt /\ ticks < BOOST
      /\ cpu # None /\ islock = 0 => cur.tq \in 1..Quantum(cur.lvl)
      /\ cur.lvl \in Level /\ cur.tq \in Int /\ Quantum(cur.lvl) \in Nat
      /\ ticks \in 1..BOOST /\ BOOST \in Nat /\ BOOST > 2
  BY ProcStepType, EntryTypes, MlfqConstants
     DEF Core, TypeOK, OneRunning, OnCpu, Accounts, Budget
<1>1. CASE TimerTick(p)
  <2>1. /\ cpu = p /\ cpu # None /\ ticks' = ticks + 1
        /\ cur' = [cur EXCEPT !.tq = Floor(cur.tq - 1)]
        /\ UNCHANGED <<mlfq, nowproc, islock>>
    BY <1>1, MlfqConstants DEF TimerTick, TimerYield, TimerLocked, Counted
  <2>2. Placement'
    BY <1>0, <2>1, PlacementHolds DEF Accounts
  <2>3. CASE TimerYield(p)
    <3>1. isTimeinterrupt' = TRUE /\ cpu' = None
      BY <2>3 DEF TimerYield, LeaveCpu
    <3>2. islock = 0 => /\ Charged' \in 0..Quantum(cur.lvl)
                        /\ cur'.lvl = cur.lvl
      BY <1>0, <2>1, <3>1 DEF Charged, Floor, TQMIN, TypeOK
    <3>3. CanPay' /\ Budget'
      BY <1>0, <2>1, <3>1, <3>2 DEF CanPay, Budget
    <3> QED
      BY <2>2, <3>3 DEF Accounts
  <2>4. CASE TimerLocked(p)
    <3>1. (ticks + 1) % BOOST # 0 /\ islock # 0 /\ cpu' = cpu
      BY <2>4 DEF TimerLocked, TickYields
    <3>2. ticks + 1 # BOOST
      BY <1>0, <3>1, ModSelf
    <3>3. CanPay' /\ Budget'
      BY <1>0, <2>1, <3>1, <3>2 DEF CanPay, Budget
    <3> QED
      BY <2>2, <3>3 DEF Accounts
  <2> QED
    BY <1>1, <2>3, <2>4 DEF TimerTick
<1>2. CASE MyYield(p) \/ SleepDev(p) \/ WaitSleep(p) \/ UnlockYield(p) \/ Exit(p)
  <2>1. /\ cpu = p /\ cpu # None /\ cpu' = None /\ UNCHANGED <<mlfq, sched>>
    BY <1>2, MlfqConstants
       DEF MyYield, SleepDev, WaitSleep, UnlockYield, Exit, LeaveCpu, Idle,
           Waiting, Running
  <2>2. Placement'
    BY <1>0, <2>1, PlacementHolds DEF Accounts
  <2>3. islock = 0 => Charged' \in 0..Quantum(cur.lvl)
    BY <1>0, <2>1 DEF Charged, sched
  <2>4. CanPay' /\ Budget'
    BY <1>0, <2>1, <2>3 DEF CanPay, Budget, sched
  <2> QED
    BY <2>2, <2>4 DEF Accounts
<1>3. CASE WakeDev(p)
  <2>1. /\ \A q \in Proc : Alive(q)' => Alive(q)
        /\ UNCHANGED <<mlfq, sched, cpu>>
    BY <1>0, <1>3 DEF WakeDev, Alive, TypeOK
  <2>2. nowproc # None => nowproc \in Proc
    BY <1>0 DEF TypeOK
  <2>3. CanPay'
    BY <2>1, <2>2 DEF CanPay, Accounts, sched, Charged
  <2> QED
    BY <2>1, <2>3 DEF Accounts, Budget, Placement, sched
<1>4. CASE \E c \in Proc, faults \in BOOLEAN : ForkAlloc(p, c, faults)
  <2>1. PICK c \in Proc, faults \in BOOLEAN : ForkAlloc(p, c, faults)
    BY <1>4
  <2>2. /\ mlfq' = NewProc(mlfq, state', c, faults)
        /\ cpu = p /\ cpu # None /\ UNCHANGED <<sched, cpu>>
    BY <2>1, MlfqConstants DEF ForkAlloc, Idle, Running
  <2>3. Holds(mlfq, Good) /\ mlfq \in Mlfq
    BY <1>0, PlacementHolds DEF Accounts, TypeOK
  <2>4. Holds(mlfq', Good)
    BY <2>2, <2>3, GoodEntries, NewProcHolds
  <2>5. Placement'
    BY <1>0, <2>4, PlacementHolds
  <2> QED
    BY <2>2, <2>5 DEF Accounts, Budget, CanPay, sched
<1>5. CASE \/ \E prio \in Priorities : SetPriority(p, prio)
           \/ \E v \in Victims : Kill(p, v)
           \/ ForkDone(p) \/ ForkFailed(p)
           \/ \E c \in Proc : WaitReap(p, c)
           \/ WaitNone(p)
           \/ Lock(p) /\ ~UnlockYield(p)
  <2>1. /\ cpu = p /\ cpu # None /\ UNCHANGED <<mlfq, cpu>>
        /\ cur'.tq = cur.tq /\ cur'.lvl = cur.lvl
        /\ ticks' = ticks \/ ticks' = 1
        /\ islock' = islock \/ islock' # 0
    BY <1>0, <1>5, MlfqConstants
       DEF SetPriority, Kill, ForkDone, ForkFailed, WaitReap, WaitNone, Lock,
           LockCheck, LockTake, LockOwn, UnlockCheck, UnlockStart, UnlockDisown,
           Idle, Waiting, Running, sched, TypeOK
  <2> QED
    BY <1>0, <2>1 DEF Accounts, Budget, CanPay, Placement
<1> QED
  BY <1>1, <1>2, <1>3, <1>4, <1>5 DEF ProcStep

LEMMA AccountsInit == ASSUME Init PROVE Accounts
<1>1. PICK m : m = [q     |-> [l \in Lists |-> << >>],
                    isin  |-> [p \in Proc |-> FALSE],
                    panic |-> FALSE]
  OBVIOUS
<1>2. m \in Mlfq /\ Holds(m, Good)
  BY <1>1, EmptySeq, GoodEntries DEF Mlfq, Holds
<1>3. /\ Fresh(InitProc) \in Entry
      /\ Fresh(InitProc) \in Good[ListOf(Fresh(InitProc))]
  BY MlfqConstants, EntryTypes, GoodEntries
<1>4. Holds(mlfq, Good)
  BY <1>1, <1>2, <1>3, PushHolds DEF Init
<1>5. Placement
  BY <1>4, InitType, PlacementHolds
<1> QED
  BY <1>5, MlfqConstants DEF Init, Accounts, Budget, CanPay

LEMMA AccountsStep == ASSUME Core, Accounts, [Next]_vars PROVE Accounts'
<1>1. CASE Schedule
  BY <1>1, ScheduleAccounts
<1>2. CASE InitExit
  <2>1. mlfq'.q = mlfq.q /\ mlfq'.panic /\ UNCHANGED <<sched, cpu>>
    BY <1>2 DEF InitExit, Core, TypeOK, Mlfq
  <2> QED
    BY <2>1 DEF Accounts, Budget, Placement, CanPay, sched
<1>3. ASSUME NEW p \in Proc, ProcStep(p) PROVE Accounts'
  BY <1>3, StepAccounts
<1>4. CASE UNCHANGED vars
  BY <1>4 DEF vars, Accounts, Budget, Placement, CanPay, Alive, Charged
<1> QED
  BY <1>1, <1>2, <1>3, <1>4, NextCases

LEMMA AccountsInvariant == Spec => []Accounts
<1>1. Init => Accounts
  BY AccountsInit
<1>2. Core /\ Accounts /\ [Next]_vars => Accounts'
  BY AccountsStep
<1> QED
  BY <1>1, <1>2, CoreInvariant, PTL DEF Spec

-----------------------------------------------------------------------------
(* What follows from it *)

\* The variables of the scheduler keep their types.
THEOREM TypeCorrect == Spec => []TypeOK
<1>1. Core => TypeOK
  BY DEF Core
<1> QED
  BY <1>1, CoreInvariant, PTL

\* There is one running process, the one the CPU is on and the one schedmlfq
\* calls nowproc: getLevel, setPriority and schedulerLock, which take nowproc
\* for their caller (project1_other.c, project1_schedulerLocker.c), are right.
THEOREM RunningIsNowproc == Spec => []OneRunning
<1>1. Core => OneRunning
  BY DEF Core
<1> QED
  BY <1>1, CoreInvariant, PTL

\* While the scheduler is locked, nowproc owns the lock, or is about to, and is
\* not queued, whatever boosts, kills, sleeps and preempted forks come between.
THEOREM LockIsHeld == Spec => []LockHeld
<1>1. Core => LockHeld
  BY DEF Core
<1> QED
  BY <1>1, CoreInvariant, PTL

\* exit() wakes whoever waits for it or inherits a zombie from it: no process
\* sleeps in wait() while it has a dead child.
THEOREM WaitersAreWoken == Spec => []NoLostWakeup
<1>1. Core => NoLostWakeup
  BY DEF Core
<1> QED
  BY <1>1, CoreInvariant, PTL

\* Quanta are accounted for: nobody runs outside the lock with a used-up budget
\* (proc.c:373), the boost is never overdue (proc.c:357),
\* and every list holds entries of its level and priority that can still run.
THEOREM QuantaAreKept == Spec => []Quanta
<1>1. Accounts => Quanta
  BY DEF Accounts, Quanta
<1> QED
  BY <1>1, AccountsInvariant, PTL

\* From one locked state to the next the CPU goes to nobody but nowproc.
THEOREM LockedCpuIsKept == Spec => LockedCpu
<1> DEFINE Kept2 == islock = 1 /\ islock' = 1
                      => nowproc' = nowproc /\ cpu' \in {None, nowproc}
<1>1. ASSUME Core, [Next]_vars PROVE [Kept2]_vars
  <2> SUFFICES ASSUME islock = 1, islock' = 1
               PROVE  nowproc' = nowproc /\ cpu' \in {None, nowproc}
    OBVIOUS
  <2>0. cpu \in {None, nowproc}
    BY <1>1 DEF Core, OneRunning
  <2>1. CASE Schedule
    <3>1. ScheduleLocked
      BY <1>1, <2>1, ScheduleCases DEF Core
    <3> QED
      BY <3>1 DEF ScheduleLocked
  <2>2. CASE InitExit
    BY <2>0, <2>2 DEF InitExit, sched
  <2>3. ASSUME NEW p \in Proc, ProcStep(p)
        PROVE  nowproc' = nowproc /\ cpu' \in {cpu, None}
    BY <2>3 DEF ProcStep, TimerTick, TimerYield, TimerLocked, Counted, MyYield,
         SleepDev, WakeDev, SetPriority, Kill, ForkAlloc, ForkDone, ForkFailed,
         Exit, WaitReap, WaitNone, WaitSleep, Lock, LockCheck, LockTake, LockOwn,
         UnlockCheck, UnlockStart, UnlockDisown, UnlockYield, LeaveCpu, sched
  <2>4. CASE UNCHANGED vars
    BY <2>0, <2>4 DEF vars
  <2> QED
    BY <1>1, <2>0, <2>1, <2>2, <2>3, <2>4, NextCases
<1> QED
  BY <1>1, CoreInvariant, PTL DEF Spec, LockedCpu

=============================================================================

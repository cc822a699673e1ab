------------------------------ MODULE FsProofs ------------------------------
(***************************************************************************)
(* The inode cache, the locks, the directories and the link counts, for    *)
(* any processes, names, paths and calls and any size of the cache and of  *)
(* the disk.                                                               *)
(*                                                                         *)
(* The count of a cache entry is exact because every step of a process     *)
(* takes and gives up as many pointers as it changes the count by; the     *)
(* link count of an inode is exact up to the processes that have raised it *)
(* and not yet made the entry, or removed the entry and not yet lowered    *)
(* it.  Each keeps a pointer to the inode meanwhile, so that no inode with *)
(* a name is ever freed.                                                   *)
(***************************************************************************)
EXTENDS Fs, FiniteSetTheorems, SequenceTheorems, TLAPS

-----------------------------------------------------------------------------
(* The code of a process *)

Targets == UNION {Path[p] : p \in Proc}
Way == Seq(Name) \ {<< >>}
Kinds == {"file", "dir", "sym"}

Instr ==
    ({"put", "drop"} \X Entry)
    \cup ({"walk", "look"} \X Way \X BOOLEAN)
    \cup ({"create", "exists"} \X Kinds)
    \cup ({"open"} \X BOOLEAN) \cup ({"linkold"} \X Way)
    \cup ({"write"} \X Targets)
    \cup {<<"linknew">>, <<"linkbad">>, <<"giveup">>, <<"forget">>,
          <<"unlink">>, <<"remove">>, <<"removed">>, <<"made">>, <<"chdir">>}

IsPut(x) == x[1] \in {"put", "drop"}
Plain(s) == \A k \in DOMAIN s : ~IsPut(s[k])

\* The pointers to e that s puts.
Puts(s, e) == Cardinality({k \in DOMAIN s : /\ s[k][1] \in {"put", "drop"}
                                            /\ s[k][2] = e})

\* What is left of s when the pointers in front of it have been put.
Bare(s) ==
    IF s = << >> \/ ~IsPut(Head(s)) THEN s
    ELSE IF Tail(s) = << >> \/ ~IsPut(Head(Tail(s))) THEN Tail(s)
    ELSE Tail(Tail(s))

\* An inode is dropped when its put has been begun, before anything else.
DropsFirst(s) == s # << >> => \A k \in DOMAIN Tail(s) : Tail(s)[k][1] # "drop"

\* s starts with an instruction, or is nothing else.
At(s, what) == s # << >> /\ Head(s)[1] = what
Last(s, what) == At(s, what) /\ Tail(s) = << >>

\* open, again, where create has failed: k after the name is found.
Retry(b) ==
    /\ At(b, "walk") /\ Head(b)[3] = TRUE
    /\ At(Tail(b), "create") /\ Head(Tail(b))[2] = "sym"
    /\ Last(Tail(Tail(b)), "open")

\* What follows create, and what if it fails.
Making(t, k, b) ==
    \/ t = "file" /\ Last(k, "open") /\ Retry(b)
    \/ t = "sym" /\ (Last(k, "open") \/ Last(k, "write")) /\ b = << >>
    \/ t = "dir" /\ Last(k, "made") /\ b = << >>

\* symlink, after it has seen the target.
Linking(s) ==
    /\ At(s, "forget")
    /\ At(Tail(s), "walk") /\ Head(Tail(s))[3] = TRUE
    /\ At(Tail(Tail(s)), "create") /\ Head(Tail(Tail(s)))[2] = "sym"
    /\ Last(Tail(Tail(Tail(s))), "write")

\* What a walk to an inode, and what a walk to a directory, is followed by.
WithIp(s, b) ==
    /\ b = << >>
    /\ Last(s, "open") \/ Last(s, "linkold") \/ Last(s, "chdir") \/ Linking(s)
WithDp(s, b, ip) ==
    \/ ip = None /\ Last(s, "unlink") /\ b = << >>
    \/ ip = None /\ At(s, "create") /\ Making(Head(s)[2], Tail(s), b)
    \/ ip # None /\ Last(s, "linknew") /\ Last(b, "linkbad")

Walking(s, b, r) ==
    \/ Head(s)[3] = FALSE /\ WithIp(Tail(s), b) /\ r.ip = None /\ r.dp = None
    \/ Head(s)[3] = TRUE /\ WithDp(Tail(s), b, r.ip) /\ r.dp = None

\* The calls, with the pointers that they have at each point.
NoneHeld(r) == r.w = None /\ r.ip = None /\ r.dp = None
IpHeld(r) == r.w = None /\ r.ip # None /\ r.dp = None
DpHeld(r) == r.w = None /\ r.dp # None

Fits(s, b, r) ==
    \/ s = << >> /\ NoneHeld(r)
    \/ At(s, "walk") /\ Walking(s, b, r) /\ r.w = None
    \/ At(s, "look") /\ Walking(s, b, r) /\ r.w # None
    \/ WithIp(s, b) /\ IpHeld(r)
    \/ WithDp(s, b, r.ip) /\ DpHeld(r)
    \/ At(s, "exists") /\ Making(Head(s)[2], Tail(s), b) /\ IpHeld(r)
    \/ /\ \/ Last(s, "open") \/ Last(s, "write") \/ Last(s, "made")
          \/ Last(s, "linkbad") \/ Last(s, "removed")
       /\ IpHeld(r)
    \/ /\ Last(s, "giveup") /\ DpHeld(r)
       /\ \/ Last(b, "linkbad") /\ r.ip # None
          \/ b = << >> /\ r.ip = None
    \/ Last(s, "remove") /\ b = << >> /\ DpHeld(r) /\ r.ip # None

Pointer == Entry \cup {None}
Registers == [w : Pointer, ip : Pointer, dp : Pointer, name : Name \cup {None}]

CodeOf(s, b, r) ==
    /\ Plain(Bare(s)) /\ Plain(b) /\ DropsFirst(s)
    /\ Fits(Bare(s), b, r)
    /\ r.dp # None => r.name \in Name

CodeType ==
    /\ todo \in [Proc -> Seq(Instr)] /\ onfail \in [Proc -> Seq(Instr)]
    /\ reg \in [Proc -> Registers]

Code == \A p \in Proc : CodeOf(todo[p], onfail[p], reg[p])

-----------------------------------------------------------------------------
(* The invariant *)

\* The instruction that p comes to next, apart from what it puts.
Doing(p, what) == At(Bare(todo[p]), what)

\* The locks that a process holds across its steps.
LocksOf(p) ==
    /\ Doing(p, "remove") \/ Doing(p, "giveup") => lock[reg[p].dp] = p
    /\ Doing(p, "made") \/ Doing(p, "removed") \/ Doing(p, "write")
          => lock[reg[p].ip] = p

\* p has raised the link count of ip and not yet made the entry, or removed the
\* entry and not yet lowered the count.
Pends(p) ==
    \/ Doing(p, "linknew") \/ Doing(p, "linkbad") \/ Doing(p, "removed")
    \/ /\ Doing(p, "walk") \/ Doing(p, "look") \/ Doing(p, "giveup")
       /\ Last(onfail[p], "linkbad")

\* What the pointers of a process are pointers to.
MeaningOf(p) ==
    /\ reg[p].dp # None => IsDir(reg[p].dp)
    /\ Pends(p) /\ ~Doing(p, "removed") => ~IsDir(reg[p].ip)
    /\ Doing(p, "remove") => Found(p) = icache[reg[p].ip].inum

\* The inode that the link of p is pending for.
Pending(i) == {p \in Proc : Pends(p) /\ icache[reg[p].ip].inum = i}

Account == \A i \in Inum : disk[i].type # "none" =>
    disk[i].nlink = Entries(i) + One(i = root) + Cardinality(Pending(i))
                    + (IF disk[i].type = "dir" THEN Subdirs(i) ELSE 0)

\* Directories: the root is one, others have no entries, none has itself.
Tree ==
    /\ disk[root].type = "dir"
    /\ \A i \in Inum, n \in Name : disk[i].ents[n] # 0 =>
          /\ disk[i].type = "dir" /\ disk[i].ents[n] # i
          /\ disk[disk[i].ents[n]].type # "none"

\* The entries of the cache in use are for different inodes.
OneEntry ==
    /\ \A e \in Entry : icache[e].ref > 0 => icache[e].inum \in Inum
    /\ \A e, f \in Entry : icache[e].ref > 0 /\ icache[f].ref > 0
                           /\ icache[e].inum = icache[f].inum => e = f

\* A free inode is in the cache only until the process that freed it drops it.
FreeOnlyDropped ==
    \A e \in Entry : icache[e].ref > 0 /\ disk[icache[e].inum].type = "none" =>
        /\ icache[e].ref = 1 /\ ~icache[e].valid
        /\ \E p \in Proc : Does(p, "drop") /\ Arg(p) = e

Counted == \A e \in Entry :
    icache[e].ref = lost[e] + Cardinality(Pointing(e))

Sound ==
    /\ TypeOK /\ CodeType /\ NoUnlinkPanic
    /\ Running => /\ Code /\ Counted /\ OneEntry /\ FreeOnlyDropped
                  /\ \A p \in Proc : LocksOf(p) /\ MeaningOf(p)
                  /\ Account /\ Tree

-----------------------------------------------------------------------------
(* Sequences of instructions *)

\* One element in front of a sequence.
LEMMA Cons ==
    ASSUME NEW S, NEW x \in S, NEW s \in Seq(S)
    PROVE  /\ <<x>> \o s \in Seq(S) /\ <<x>> \o s # << >>
           /\ Head(<<x>> \o s) = x /\ Tail(<<x>> \o s) = s
           /\ Len(<<x>> \o s) = Len(s) + 1
           /\ \A k \in 1..Len(s) : (<<x>> \o s)[k + 1] = s[k]
           /\ (<<x>> \o s)[1] = x
<1> DEFINE t == <<x>> \o s
<1>1. <<x>> \in Seq(S) /\ Len(<<x>>) = 1 /\ <<x>>[1] = x
  OBVIOUS
<1>2. /\ t \in Seq(S) /\ Len(t) = Len(s) + 1 /\ t[1] = x
      /\ \A k \in 1..Len(s) : t[k + 1] = s[k]
  <2>1. /\ t \in Seq(S) /\ Len(t) = 1 + Len(s)
        /\ \A k \in 1..(1 + Len(s)) :
              t[k] = IF k <= 1 THEN <<x>>[k] ELSE s[k - 1]
    BY <1>1, ConcatProperties
  <2>2. Len(s) \in Nat
    BY LenProperties
  <2> HIDE DEF t
  <2> QED
    BY <1>1, <2>1, <2>2
<1> HIDE DEF t
<1>3. Len(s) \in Nat
  BY LenProperties
<1>4. t # << >>
  BY <1>2, <1>3
<1>5. /\ Head(t) = t[1] /\ Tail(t) \in Seq(S) /\ Len(Tail(t)) = Len(t) - 1
      /\ \A k \in 1..Len(Tail(t)) : Tail(t)[k] = t[k + 1]
  BY <1>2, <1>4, HeadTailProperties
<1>6. Tail(t) = s
  <2>1. Len(Tail(t)) = Len(s)
    BY <1>2, <1>3, <1>5
  <2>2. \A k \in 1..Len(s) : Tail(t)[k] = s[k]
    BY <1>2, <1>5, <2>1
  <2> QED
    BY <1>5, <2>1, <2>2, SeqEqual
<1> QED
  BY <1>2, <1>4, <1>5, <1>6 DEF t

\* A sequence that is not empty is its head in front of its tail.
LEMMA Uncons ==
    ASSUME NEW S, NEW s \in Seq(S), s # << >>
    PROVE  /\ Head(s) \in S /\ Tail(s) \in Seq(S) /\ s = <<Head(s)>> \o Tail(s)
           /\ DOMAIN s = 1..(Len(Tail(s)) + 1) /\ s[1] = Head(s)
           /\ \A k \in 1..Len(Tail(s)) : s[k + 1] = Tail(s)[k]
           /\ DOMAIN Tail(s) = 1..Len(Tail(s)) /\ Len(Tail(s)) \in Nat
<1>1. /\ Head(s) \in S /\ Head(s) = s[1]
      /\ Tail(s) \in Seq(S) /\ Len(Tail(s)) = Len(s) - 1
      /\ \A k \in 1..Len(Tail(s)) : Tail(s)[k] = s[k + 1]
  <2>1. /\ Tail(s) \in Seq(S) /\ Len(Tail(s)) = Len(s) - 1
        /\ \A k \in 1..Len(Tail(s)) : Tail(s)[k] = s[k + 1]
    BY HeadTailProperties
  <2>2. Head(s) \in S
    BY HeadTailProperties
  <2> QED
    BY <2>1, <2>2, HeadTailProperties
<1>2. /\ Len(s) \in Nat /\ DOMAIN s = 1..Len(s)
      /\ Len(Tail(s)) \in Nat /\ DOMAIN Tail(s) = 1..Len(Tail(s))
  BY <1>1, LenProperties
<1> DEFINE h == Head(s)
           t == Tail(s)
           c == <<h>> \o t
<1> HIDE DEF h, t
<1>3. /\ c \in Seq(S) /\ Len(c) = Len(t) + 1 /\ c[1] = h
      /\ \A k \in 1..Len(t) : c[k + 1] = t[k]
  BY <1>1, Cons DEF h, t
<1> HIDE DEF c
<1>4. Len(c) = Len(s)
  BY <1>1, <1>2, <1>3 DEF t
<1>5. \A k \in 1..Len(s) : c[k] = s[k]
  <2> SUFFICES ASSUME NEW k \in 1..Len(s)
               PROVE  c[k] = s[k]
    OBVIOUS
  <2>1. CASE k = 1
    BY <1>1, <1>3, <2>1 DEF h
  <2>2. CASE k # 1
    <3>1. k - 1 \in 1..Len(t) /\ (k - 1) + 1 = k
      BY <1>1, <1>2, <2>2 DEF t
    <3> QED
      BY <1>1, <1>3, <3>1 DEF t
  <2> QED
    BY <2>1, <2>2
<1>6. c = s
  BY <1>3, <1>4, <1>5, SeqEqual
<1> QED
  BY <1>1, <1>2, <1>6 DEF c, h, t

\* Sequences written out are elements in front of one another.
LEMMA Written ==
    ASSUME NEW S, NEW w \in S
    PROVE  /\ << >> \in Seq(S) /\ <<w>> \in Seq(S) /\ <<w>> # << >>
           /\ Head(<<w>>) = w /\ Tail(<<w>>) = << >>
           /\ <<w>> \o << >> = <<w>>
<1>1. /\ << >> \in Seq(S) /\ <<w>> \in Seq(S) /\ <<w>> # << >>
      /\ Head(<<w>>) = w /\ Tail(<<w>>) = << >>
  OBVIOUS
<1>2. <<w>> = <<w>> \o << >>
  BY <1>1, Uncons
<1> QED
  BY <1>1, <1>2

LEMMA WrittenTwo ==
    ASSUME NEW S, NEW w \in S, NEW x \in S
    PROVE  <<w, x>> = <<w>> \o <<x>> /\ <<w, x>> \in Seq(S)
<1>1. /\ <<w, x>> \in Seq(S) /\ <<w, x>> # << >>
      /\ Head(<<w, x>>) = w /\ Tail(<<w, x>>) = <<x>>
  OBVIOUS
<1> QED
  BY <1>1, Uncons

LEMMA WrittenThree ==
    ASSUME NEW S, NEW w \in S, NEW x \in S, NEW y \in S
    PROVE  <<w, x, y>> = <<w>> \o <<x, y>> /\ <<w, x, y>> \in Seq(S)
<1>1. /\ <<w, x, y>> \in Seq(S) /\ <<w, x, y>> # << >>
      /\ Head(<<w, x, y>>) = w /\ Tail(<<w, x, y>>) = <<x, y>>
  OBVIOUS
<1> QED
  BY <1>1, Uncons

LEMMA WrittenFour ==
    ASSUME NEW S, NEW w \in S, NEW x \in S, NEW y \in S, NEW z \in S
    PROVE  /\ <<w, x, y, z>> = <<w>> \o <<x, y, z>>
           /\ <<w, x, y, z>> \in Seq(S)
<1>1. /\ <<w, x, y, z>> \in Seq(S) /\ <<w, x, y, z>> # << >>
      /\ Head(<<w, x, y, z>>) = w /\ Tail(<<w, x, y, z>>) = <<x, y, z>>
  OBVIOUS
<1> QED
  BY <1>1, Uncons

-----------------------------------------------------------------------------
(* Pointers in front of the code *)

\* The places where s puts e.
PutAt(s, e) == {k \in DOMAIN s : s[k][1] \in {"put", "drop"} /\ s[k][2] = e}

LEMMA PutsType ==
    ASSUME NEW s \in Seq(Instr), NEW e
    PROVE  /\ PutAt(s, e) \in SUBSET Nat /\ IsFiniteSet(PutAt(s, e))
           /\ Puts(s, e) = Cardinality(PutAt(s, e)) /\ Puts(s, e) \in Nat
<1>1. DOMAIN s = 1..Len(s) /\ Len(s) \in Nat
  BY LenProperties
<1>2. IsFiniteSet(1..Len(s))
  BY <1>1, FS_Interval
<1>3. PutAt(s, e) \in SUBSET (1..Len(s))
  BY <1>1 DEF PutAt
<1>4. IsFiniteSet(PutAt(s, e))
  BY <1>2, <1>3, FS_Subset
<1>5. Puts(s, e) = Cardinality(PutAt(s, e))
  BY DEF Puts, PutAt
<1> QED
  BY <1>1, <1>3, <1>4, <1>5, FS_CardinalityType

\* A set of numbers moved up by one, with or without 1.
LEMMA Shifted ==
    ASSUME NEW K \in SUBSET Nat, IsFiniteSet(K), 0 \notin K, NEW c \in BOOLEAN,
           NEW L, L = {k + 1 : k \in K} \cup (IF c THEN {1} ELSE {})
    PROVE  IsFiniteSet(L) /\ Cardinality(L) = One(c) + Cardinality(K)
<1> DEFINE M == {k + 1 : k \in K}
           f == [k \in K |-> k + 1]
<1>1. f \in Bijection(K, M)
  <2>1. f \in [K -> M] /\ \A y \in M : \E k \in K : f[k] = y
    OBVIOUS
  <2>2. \A j, k \in K : f[j] = f[k] => j = k
    <3> SUFFICES ASSUME NEW j \in K, NEW k \in K, f[j] = f[k]
                 PROVE  j = k
      OBVIOUS
    <3>1. j \in Nat /\ k \in Nat /\ j + 1 = k + 1
      OBVIOUS
    <3> QED
      BY <3>1
  <2> QED
    BY <2>1, <2>2 DEF Bijection, Injection, Surjection, IsInjective
<1>2. ExistsBijection(K, M)
  BY <1>1 DEF ExistsBijection
<1>3. IsFiniteSet(M) /\ Cardinality(M) = Cardinality(K)
  BY <1>2, FS_Bijection
<1>4. 1 \notin M
  <2> SUFFICES ASSUME NEW k \in K, k + 1 = 1
               PROVE  FALSE
    OBVIOUS
  <2>1. k \in Nat /\ k # 0
    OBVIOUS
  <2> QED
    BY <2>1
<1>5. Cardinality(K) \in Nat
  BY FS_CardinalityType
<1> HIDE DEF M
<1>6. CASE c
  <2>1. L = M \cup {1}
    BY <1>6, Zenon DEF M
  <2>2. One(c) = 1
    BY <1>6, Zenon DEF One
  <2> QED
    BY <1>3, <1>4, <1>5, <2>1, <2>2, FS_AddElement
<1>7. CASE ~c
  <2>1. L = M
    BY <1>7, Zenon DEF M
  <2>2. One(c) = 0
    BY <1>7, Zenon DEF One
  <2> QED
    BY <1>3, <1>5, <2>1, <2>2
<1> QED
  BY <1>6, <1>7

\* How the pointers to put are counted.
LEMMA PutsTail ==
    ASSUME NEW s \in Seq(Instr), s # << >>, NEW e
    PROVE  Puts(s, e) = One(IsPut(Head(s)) /\ Head(s)[2] = e) + Puts(Tail(s), e)
<1> DEFINE t == Tail(s)
           c == IsPut(Head(s)) /\ Head(s)[2] = e
           K == PutAt(t, e)
           L == PutAt(s, e)
<1>1. /\ t \in Seq(Instr) /\ DOMAIN s = 1..(Len(t) + 1) /\ s[1] = Head(s)
      /\ \A k \in 1..Len(t) : s[k + 1] = t[k]
      /\ DOMAIN t = 1..Len(t) /\ Len(t) \in Nat
  BY Uncons
<1>2. /\ K \in SUBSET Nat /\ IsFiniteSet(K)
      /\ Puts(t, e) = Cardinality(K) /\ Puts(s, e) = Cardinality(L)
  BY <1>1, PutsType
<1>3. 0 \notin K
  BY <1>1 DEF PutAt
<1>4. c \in BOOLEAN
  OBVIOUS
<1>5. L = {k + 1 : k \in K} \cup (IF c THEN {1} ELSE {})
  <2>1. 1 \in L <=> c
    BY <1>1 DEF PutAt, IsPut
  <2>2. \A k \in 1..Len(t) : k + 1 \in L <=> k \in K
    BY <1>1 DEF PutAt
  <2>3. L \subseteq 1..(Len(t) + 1) /\ K \subseteq 1..Len(t)
    BY <1>1 DEF PutAt
  <2> HIDE DEF t, K, L, c
  <2>4. ASSUME NEW l \in L
        PROVE  l \in {k + 1 : k \in K} \cup (IF c THEN {1} ELSE {})
    <3>1. CASE l = 1
      BY <2>1, <3>1
    <3>2. CASE l # 1
      <4>1. l - 1 \in 1..Len(t) /\ (l - 1) + 1 = l
        BY <1>1, <2>3, <3>2
      <4>2. l - 1 \in K
        BY <2>2, <4>1
      <4> QED
        BY <4>1, <4>2
    <3> QED
      BY <3>1, <3>2
  <2>5. ASSUME NEW l \in {k + 1 : k \in K} \cup (IF c THEN {1} ELSE {})
        PROVE  l \in L
    <3>1. CASE l \in {k + 1 : k \in K}
      <4>1. PICK k \in K : l = k + 1
        BY <3>1
      <4> QED
        BY <2>2, <2>3, <4>1
    <3>2. CASE c /\ l = 1
      BY <2>1, <3>2
    <3> QED
      BY <2>5, <3>1, <3>2
  <2> QED
    BY <2>4, <2>5
<1> HIDE DEF K, L, c
<1>6. Cardinality(L) = One(c) + Cardinality(K)
  BY <1>2, <1>3, <1>4, <1>5, Shifted
<1> QED
  BY <1>2, <1>6 DEF c

\* Code that puts nothing.
LEMMA PlainFacts ==
    ASSUME NEW s \in Seq(Instr), Plain(s)
    PROVE  /\ Bare(s) = s /\ DropsFirst(s) /\ \A e : Puts(s, e) = 0
           /\ s # << >> => /\ ~IsPut(Head(s)) /\ Plain(Tail(s))
                           /\ Tail(s) \in Seq(Instr)
<1>1. s # << >> => /\ ~IsPut(Head(s)) /\ Plain(Tail(s)) /\ Tail(s) \in Seq(Instr)
  <2> SUFFICES ASSUME s # << >>
               PROVE  /\ ~IsPut(Head(s)) /\ Plain(Tail(s))
                      /\ Tail(s) \in Seq(Instr)
    OBVIOUS
  <2>1. /\ Tail(s) \in Seq(Instr) /\ DOMAIN s = 1..(Len(Tail(s)) + 1)
        /\ s[1] = Head(s)
        /\ \A k \in 1..Len(Tail(s)) : s[k + 1] = Tail(s)[k]
        /\ DOMAIN Tail(s) = 1..Len(Tail(s)) /\ Len(Tail(s)) \in Nat
    BY Uncons
  <2>2. ~IsPut(Head(s))
    BY <2>1 DEF Plain
  <2>3. ASSUME NEW k \in DOMAIN Tail(s) PROVE ~IsPut(Tail(s)[k])
    <3>1. k + 1 \in DOMAIN s /\ s[k + 1] = Tail(s)[k]
      BY <2>1
    <3> QED
      BY <3>1 DEF Plain
  <2> QED
    BY <2>1, <2>2, <2>3 DEF Plain
<1>2. Bare(s) = s
  BY <1>1 DEF Bare
<1>3. DropsFirst(s)
  BY <1>1 DEF DropsFirst, Plain, IsPut
<1>4. \A e : Puts(s, e) = 0
  <2> TAKE e
  <2>1. PutAt(s, e) = {}
    BY DEF PutAt, Plain, IsPut
  <2> QED
    BY <2>1, PutsType, FS_EmptySet
<1> QED
  BY <1>1, <1>2, <1>3, <1>4

\* One more instruction in front.
LEMMA PlainCons ==
    ASSUME NEW x \in Instr, ~IsPut(x), NEW s \in Seq(Instr), Plain(s)
    PROVE  Plain(<<x>> \o s)
<1> DEFINE t == <<x>> \o s
<1>1. /\ t \in Seq(Instr) /\ Len(t) = Len(s) + 1 /\ t[1] = x
      /\ \A k \in 1..Len(s) : t[k + 1] = s[k]
  BY Cons
<1>2. DOMAIN s = 1..Len(s) /\ Len(s) \in Nat /\ DOMAIN t = 1..Len(t)
  BY <1>1, LenProperties
<1> HIDE DEF t
<1>3. ASSUME NEW k \in DOMAIN t PROVE ~IsPut(t[k])
  <2>1. CASE k = 1
    BY <1>1, <2>1
  <2>2. CASE k # 1
    <3>1. k - 1 \in 1..Len(s) /\ (k - 1) + 1 = k
      BY <1>1, <1>2, <2>2
    <3>2. t[k] = s[k - 1]
      BY <1>1, <3>1
    <3> QED
      BY <1>2, <3>1, <3>2 DEF Plain
  <2> QED
    BY <2>1, <2>2
<1> QED
  BY <1>3 DEF Plain, t

LEMMA Nothing ==
    << >> \in Seq(Instr) /\ Plain(<< >>)
  BY DEF Plain

\* What an instruction carries.
LEMMA Carried ==
    ASSUME NEW x \in Instr
    PROVE  /\ IsPut(x) => x = <<x[1], x[2]>> /\ x[2] \in Entry
           /\ x[1] \in {"walk", "look"} => x[2] \in Way /\ x[3] \in BOOLEAN
           /\ x[1] \in {"create", "exists"} => x[2] \in Kinds
           /\ x[1] = "linkold" => x[2] \in Way
           /\ x[1] = "write" => x[2] \in Targets
  BY DEF Instr, IsPut

\* The instructions there are.
LEMMA Written1 ==
    /\ \A e \in Entry : <<"put", e>> \in Instr /\ <<"drop", e>> \in Instr
    /\ \A s \in Way, b \in BOOLEAN :
          <<"walk", s, b>> \in Instr /\ <<"look", s, b>> \in Instr
    /\ \A t \in Kinds : <<"create", t>> \in Instr /\ <<"exists", t>> \in Instr
    /\ \A b \in BOOLEAN : <<"open", b>> \in Instr
    /\ \A s \in Way : <<"linkold", s>> \in Instr
    /\ \A s \in Targets : <<"write", s>> \in Instr
    /\ <<"linknew">> \in Instr /\ <<"linkbad">> \in Instr
    /\ <<"giveup">> \in Instr /\ <<"forget">> \in Instr
    /\ <<"unlink">> \in Instr /\ <<"remove">> \in Instr
    /\ <<"removed">> \in Instr /\ <<"made">> \in Instr /\ <<"chdir">> \in Instr
  BY DEF Instr

\* A put in front of code.
PutThen(e, k) == <<<<"put", e>>>> \o k

LEMMA PutFirst ==
    ASSUME NEW k \in Seq(Instr), Plain(k), NEW e \in Entry
    PROVE  /\ PutThen(e, k) \in Seq(Instr) /\ Bare(PutThen(e, k)) = k
           /\ DropsFirst(PutThen(e, k))
           /\ \A f : Puts(PutThen(e, k), f) = One(e = f)
<1> DEFINE x == <<"put", e>>
           t == PutThen(e, k)
<1>1. x \in Instr /\ IsPut(x) /\ x[2] = e
  BY Written1 DEF IsPut
<1>2. t \in Seq(Instr) /\ t # << >> /\ Head(t) = x /\ Tail(t) = k
  BY <1>1, Cons DEF PutThen
<1> HIDE DEF x, t
<1>3. Bare(t) = k
  BY <1>1, <1>2, PlainFacts DEF Bare
<1>4. DropsFirst(t)
  BY <1>2 DEF DropsFirst, Plain, IsPut
<1>5. ASSUME NEW f PROVE Puts(t, f) = One(e = f)
  <2>1. Puts(t, f) = One(IsPut(x) /\ x[2] = f) + Puts(k, f)
    BY <1>2, PutsTail
  <2>2. Puts(k, f) = 0
    BY PlainFacts
  <2> QED
    BY <1>1, <2>1, <2>2 DEF One
<1> QED
  BY <1>2, <1>3, <1>4, <1>5 DEF t

\* Two puts and nothing else.
BothPut(d, e) == <<<<"put", d>>, <<"put", e>>>>

LEMMA PutTwice ==
    ASSUME NEW d \in Entry, NEW e \in Entry, NEW t, t = BothPut(d, e)
    PROVE  /\ t \in Seq(Instr) /\ Bare(t) = << >> /\ DropsFirst(t)
           /\ \A f : Puts(t, f) = One(d = f) + One(e = f)
<1> DEFINE x == <<"put", d>>
           y == <<"put", e>>
           u == PutThen(e, << >>)
<1>1. x \in Instr /\ IsPut(x) /\ x[2] = d /\ y \in Instr /\ IsPut(y) /\ y[2] = e
  BY Written1 DEF IsPut
<1>2. y[1] # "drop"
  OBVIOUS
<1>3. u \in Seq(Instr) /\ Bare(u) = << >> /\ \A f : Puts(u, f) = One(e = f)
  <2> DEFINE n == << >>
  <2> HIDE DEF n
  <2>1. n \in Seq(Instr) /\ Plain(n)
    BY Nothing DEF n
  <2>2. /\ PutThen(e, n) \in Seq(Instr) /\ Bare(PutThen(e, n)) = n
        /\ \A f : Puts(PutThen(e, n), f) = One(e = f)
    BY <2>1, PutFirst
  <2> QED
    BY <2>2 DEF n
<1>4. t = <<x, y>> /\ u = <<y>> \o << >>
  BY DEF BothPut, PutThen
<1> HIDE DEF x, y, u
<1>5. u = <<y>>
  BY <1>1, <1>4, Written
<1>6. u # << >> /\ Head(u) = y /\ Tail(u) = << >> /\ Len(u) = 1 /\ u[1] = y
  BY <1>5
<1>7. t \in Seq(Instr) /\ t # << >> /\ Head(t) = x /\ Tail(t) = u
  <2>1. t = <<x>> \o u
    BY <1>1, <1>4, <1>5, WrittenTwo
  <2> QED
    BY <1>1, <1>3, <2>1, Cons
<1>8. Bare(t) = << >>
  BY <1>1, <1>6, <1>7 DEF Bare
<1>9. DropsFirst(t)
  <2>1. DOMAIN u = {1}
    BY <1>3, <1>6, LenProperties
  <2> QED
    BY <1>2, <1>6, <1>7, <2>1 DEF DropsFirst
<1>10. ASSUME NEW f PROVE Puts(t, f) = One(d = f) + One(e = f)
  <2>1. Puts(t, f) = One(IsPut(x) /\ x[2] = f) + Puts(u, f)
    BY <1>7, PutsTail
  <2> QED
    BY <1>1, <1>3, <2>1 DEF One
<1> QED
  BY <1>7, <1>8, <1>9, <1>10

\* A put that has been begun.
LEMMA PutBegun ==
    ASSUME NEW s \in Seq(Instr), s # << >>, Head(s)[1] = "put", DropsFirst(s),
           NEW t, t = <<<<"drop", Head(s)[2]>>>> \o Tail(s)
    PROVE  /\ Head(s)[2] \in Entry
           /\ t \in Seq(Instr) /\ Bare(t) = Bare(s) /\ DropsFirst(t)
           /\ \A f : Puts(t, f) = Puts(s, f)
           /\ t # << >> /\ Head(t) = <<"drop", Head(s)[2]>>
<1> DEFINE h == Head(s)
           e == h[2]
           x == <<"drop", e>>
<1>1. h \in Instr /\ Tail(s) \in Seq(Instr)
  BY Uncons
<1>2. IsPut(h) /\ e \in Entry
  BY <1>1, Carried DEF IsPut
<1>3. x \in Instr /\ IsPut(x) /\ x[2] = e
  BY <1>2, Written1 DEF IsPut
<1> HIDE DEF x
<1>4. t \in Seq(Instr) /\ t # << >> /\ Head(t) = x /\ Tail(t) = Tail(s)
  BY <1>1, <1>3, Cons DEF x
<1>5. Bare(t) = Bare(s)
  BY <1>2, <1>3, <1>4 DEF Bare
<1>6. DropsFirst(t)
  BY <1>4 DEF DropsFirst
<1>7. ASSUME NEW f PROVE Puts(t, f) = Puts(s, f)
  <2>1. Puts(t, f) = One(IsPut(x) /\ x[2] = f) + Puts(Tail(s), f)
    BY <1>4, PutsTail
  <2>2. Puts(s, f) = One(IsPut(h) /\ h[2] = f) + Puts(Tail(s), f)
    BY PutsTail
  <2> QED
    BY <1>2, <1>3, <2>1, <2>2 DEF One
<1> QED
  BY <1>2, <1>4, <1>5, <1>6, <1>7 DEF x

\* A put that has been finished.
LEMMA PutDone ==
    ASSUME NEW s \in Seq(Instr), s # << >>, Head(s)[1] = "drop",
           DropsFirst(s), Plain(Bare(s))
    PROVE  /\ Head(s)[2] \in Entry /\ Tail(s) \in Seq(Instr)
           /\ Bare(Tail(s)) = Bare(s) /\ DropsFirst(Tail(s))
           /\ \A f : Puts(s, f) = One(Head(s)[2] = f) + Puts(Tail(s), f)
<1> DEFINE h == Head(s)
           t == Tail(s)
<1>1. h \in Instr /\ t \in Seq(Instr)
  BY Uncons
<1>2. IsPut(h) /\ h[2] \in Entry
  BY <1>1, Carried DEF IsPut
<1>3. t # << >> => /\ Tail(t) \in Seq(Instr)
                   /\ \A k \in DOMAIN Tail(t) : /\ k + 1 \in DOMAIN t
                                                /\ t[k + 1] = Tail(t)[k]
  BY <1>1, Uncons
<1>4. Bare(t) = Bare(s)
  <2>1. CASE t = << >>
    BY <1>2, <2>1 DEF Bare
  <2>2. CASE t # << >> /\ ~IsPut(Head(t))
    BY <1>2, <2>2 DEF Bare
  <2>3. CASE t # << >> /\ IsPut(Head(t))
    <3>1. Bare(s) = Tail(t)
      BY <1>2, <2>3 DEF Bare
    <3>2. Tail(t) \in Seq(Instr) /\ Plain(Tail(t))
      BY <1>3, <2>3, <3>1
    <3>3. Tail(t) # << >> => ~IsPut(Head(Tail(t)))
      BY <3>2, PlainFacts
    <3> QED
      BY <2>3, <3>1, <3>3 DEF Bare
  <2> QED
    BY <2>1, <2>2, <2>3
<1>5. DropsFirst(t)
  BY <1>3 DEF DropsFirst
<1>6. ASSUME NEW f PROVE Puts(s, f) = One(h[2] = f) + Puts(t, f)
  <2>1. Puts(s, f) = One(IsPut(h) /\ h[2] = f) + Puts(t, f)
    BY PutsTail
  <2> QED
    BY <1>2, <2>1 DEF One
<1> QED
  BY <1>1, <1>2, <1>4, <1>5, <1>6

-----------------------------------------------------------------------------
(* Counting *)

\* Somebody in a set, and two in a set.
LEMMA AtLeast ==
    ASSUME NEW S, IsFiniteSet(S), NEW x \in S
    PROVE  /\ Cardinality(S) \in Nat /\ Cardinality(S) >= 1
           /\ \A y \in S : y # x => Cardinality(S) >= 2
<1>1. Cardinality(S) \in Nat /\ Cardinality(S) # 0
  BY FS_CardinalityType, FS_EmptySet
<1>2. ASSUME NEW y \in S, y # x PROVE Cardinality(S) # 1
  <2>1. Cardinality(S) = 1 => \E z : S = {z}
    BY FS_Singleton
  <2> QED
    BY <1>2, <2>1
<1> QED
  BY <1>1, <1>2

\* A non-empty set of numbers has a least element.
LEMMA LeastNumber ==
    ASSUME NEW n \in Nat, NEW K \in SUBSET (0..n), K # {}
    PROVE  Min(K) \in K
<1> DEFINE B(i) == {j \in K : j <= i}
           r == [i \in K |-> Cardinality(B(i))]
           c == Cardinality(K)
<1>1. IsFiniteSet(K) /\ c \in Nat /\ c # 0
  <2>1. IsFiniteSet(0..n)
    BY FS_Interval
  <2>2. IsFiniteSet(K)
    BY <2>1, FS_Subset
  <2> QED
    BY <2>2, FS_CardinalityType, FS_EmptySet
<1>2. \A i \in K : IsFiniteSet(B(i)) /\ i \in B(i) /\ Cardinality(B(i)) \in 1..c
  <2> TAKE i \in K
  <2>1. B(i) \in SUBSET K /\ i \in B(i)
    OBVIOUS
  <2> HIDE DEF B
  <2>2. IsFiniteSet(B(i)) /\ Cardinality(B(i)) <= c
    BY <1>1, <2>1, FS_Subset
  <2> QED
    BY <1>1, <2>1, <2>2, AtLeast
<1>3. r \in [K -> 1..c]
  BY <1>2
<1>4. \A i, j \in K : i < j => r[i] # r[j]
  <2> SUFFICES ASSUME NEW i \in K, NEW j \in K, i < j
               PROVE  r[i] # r[j]
    OBVIOUS
  <2>3. i \in Int /\ j \in Int /\ \A x \in K : x \in Int
    OBVIOUS
  <2>4. \A x \in K : x <= i => x <= j
    BY <2>3
  <2>1. B(i) \in SUBSET B(j) /\ j \in B(j) /\ j \notin B(i)
    <3>1. \A x : x \in B(i) => x \in B(j)
      BY <2>4
    <3>2. j <= j /\ ~(j <= i)
      BY <2>3
    <3> QED
      BY <3>1, <3>2
  <2>5. PICK C : C = B(i)
    OBVIOUS
  <2>6. PICK D : D = B(j)
    OBVIOUS
  <2>7. C \in SUBSET D /\ C # D /\ IsFiniteSet(D)
    BY <1>2, <2>1, <2>5, <2>6
  <2>2. Cardinality(C) # Cardinality(D)
    BY <2>7, FS_Subset
  <2> QED
    BY <2>2, <2>5, <2>6
<1>5. r \in Surjection(K, 1..c)
  <2> HIDE DEF r
  <2>1. \A i, j \in K : r[i] = r[j] => i = j
    BY <1>4
  <2>2. r \in Injection(K, 1..c)
    BY <1>3, <2>1 DEF Injection, IsInjective
  <2>3. IsFiniteSet(1..c) /\ Cardinality(1..c) = c
    BY <1>1, FS_Interval
  <2> QED
    BY <2>2, <2>3, FS_Injection
<1>6. PICK i \in K : r[i] = 1
  <2> HIDE DEF r
  <2> QED
    BY <1>1, <1>5 DEF Surjection
<1>7. \A j \in K : i <= j
  <2> SUFFICES ASSUME NEW j \in K, ~(i <= j)
               PROVE  FALSE
    OBVIOUS
  <2>1. j \in B(i) /\ j # i
    OBVIOUS
  <2> HIDE DEF B
  <2> QED
    BY <1>2, <1>6, <2>1, AtLeast
<1> QED
  BY <1>7 DEF Min

\* n[q] things of every process q, numbered.
Numbered(n) == UNION {{q} \X (1..n[q]) : q \in Proc}
NumberedBut(n, p) == UNION {{q} \X (1..n[q]) : q \in Proc \ {p}}

LEMMA NumberedFinite ==
    ASSUME NEW n \in [Proc -> Nat]
    PROVE  /\ IsFiniteSet(Numbered(n))
           /\ \A p : IsFiniteSet(NumberedBut(n, p))
<1>1. ASSUME NEW q \in Proc PROVE IsFiniteSet({q} \X (1..n[q]))
  <2>1. IsFiniteSet({q})
    BY FS_Singleton
  <2>2. IsFiniteSet(1..n[q])
    BY FS_Interval
  <2> QED
    BY <2>1, <2>2, FS_Product
<1>2. ASSUME NEW P \in SUBSET Proc
      PROVE  IsFiniteSet(UNION {{q} \X (1..n[q]) : q \in P})
  <2> DEFINE T == {{q} \X (1..n[q]) : q \in P}
             f == [q \in P |-> {q} \X (1..n[q])]
  <2>1. IsFiniteSet(P)
    BY FsConstants, FS_Subset
  <2>2. f \in Surjection(P, T)
    BY DEF Surjection
  <2>3. IsFiniteSet(T)
    <3> HIDE DEF f, T
    <3> QED
      BY <2>1, <2>2, FS_Surjection
  <2>4. \A x \in T : IsFiniteSet(x)
    BY <1>1
  <2> HIDE DEF T
  <2>5. IsFiniteSet(UNION T)
    BY <2>3, <2>4, FS_UNION
  <2> QED
    BY <2>5 DEF T
<1> QED
  BY <1>2 DEF Numbered, NumberedBut

\* The share of one process.
LEMMA NumberedShare ==
    ASSUME NEW n \in [Proc -> Nat], NEW p \in Proc
    PROVE  /\ Cardinality(Numbered(n)) = Cardinality(NumberedBut(n, p)) + n[p]
           /\ Cardinality(NumberedBut(n, p)) \in Nat
<1> DEFINE A == NumberedBut(n, p)
           B == {p} \X (1..n[p])
<1>1. IsFiniteSet({p}) /\ Cardinality({p}) = 1
  BY FS_Singleton
<1>2. IsFiniteSet(1..n[p]) /\ Cardinality(1..n[p]) = n[p]
  BY FS_Interval
<1>3. IsFiniteSet(B) /\ Cardinality(B) = n[p]
  <2>1. IsFiniteSet(B) /\ Cardinality(B) = 1 * n[p]
    BY <1>1, <1>2, FS_Product
  <2> QED
    BY <2>1
<1>4. Numbered(n) = A \cup B
  BY DEF Numbered, NumberedBut
<1>5. A \cap B = {}
  <2> SUFFICES ASSUME NEW x \in A, x \in B
               PROVE  FALSE
    OBVIOUS
  <2>1. x[1] = p
    OBVIOUS
  <2>2. PICK q \in Proc \ {p} : x \in {q} \X (1..n[q])
    BY DEF NumberedBut
  <2>3. x[1] = q
    BY <2>2
  <2> QED
    BY <2>1, <2>2, <2>3
<1>6. IsFiniteSet(A)
  BY NumberedFinite
<1> HIDE DEF A, B
<1>7. Cardinality(A \cup B) = Cardinality(A) + Cardinality(B) - Cardinality(A \cap B)
  BY <1>3, <1>6, FS_Union
<1>8. Cardinality({}) = 0 /\ Cardinality(A) \in Nat
  BY <1>6, FS_EmptySet, FS_CardinalityType
<1> QED
  BY <1>3, <1>4, <1>5, <1>7, <1>8 DEF A

\* The whole changes as the share of the one process that takes a step.
LEMMA NumberedChange ==
    ASSUME NEW n \in [Proc -> Nat], NEW m \in [Proc -> Nat], NEW p \in Proc,
           \A q \in Proc : q # p => m[q] = n[q]
    PROVE  /\ Cardinality(Numbered(n)) \in Nat /\ Cardinality(Numbered(m)) \in Nat
           /\ Cardinality(Numbered(m)) + n[p] = Cardinality(Numbered(n)) + m[p]
<1>1. NumberedBut(m, p) = NumberedBut(n, p)
  BY DEF NumberedBut
<1>2. /\ Cardinality(Numbered(n)) = Cardinality(NumberedBut(n, p)) + n[p]
      /\ Cardinality(NumberedBut(n, p)) \in Nat
  BY NumberedShare
<1>3. Cardinality(Numbered(m)) = Cardinality(NumberedBut(m, p)) + m[p]
  BY NumberedShare
<1> QED
  BY <1>1, <1>2, <1>3

\* The whole is at least the shares of two.
LEMMA NumberedTwo ==
    ASSUME NEW n \in [Proc -> Nat], NEW p \in Proc
    PROVE  /\ Cardinality(Numbered(n)) \in Nat
           /\ n[p] <= Cardinality(Numbered(n))
           /\ \A q \in Proc : q # p => n[p] + n[q] <= Cardinality(Numbered(n))
<1>1. ASSUME NEW m \in [Proc -> Nat], NEW q \in Proc
      PROVE  /\ Cardinality(Numbered(m)) \in Nat
             /\ m[q] <= Cardinality(Numbered(m))
  BY NumberedShare
<1>2. ASSUME NEW q \in Proc, q # p
      PROVE  n[p] + n[q] <= Cardinality(Numbered(n))
  <2> DEFINE m == [n EXCEPT ![p] = 0]
  <2>1. m \in [Proc -> Nat] /\ m[p] = 0 /\ m[q] = n[q]
    BY <1>2
  <2>2. \A r \in Proc : r # p => m[r] = n[r]
    OBVIOUS
  <2> HIDE DEF m
  <2>3. Cardinality(Numbered(m)) + n[p] = Cardinality(Numbered(n)) + m[p]
    BY <2>1, <2>2, NumberedChange
  <2>4. m[q] <= Cardinality(Numbered(m)) /\ Cardinality(Numbered(m)) \in Nat
    BY <1>1, <2>1
  <2>5. Cardinality(Numbered(n)) \in Nat
    BY <1>1
  <2> QED
    BY <2>1, <2>3, <2>4, <2>5
<1> QED
  BY <1>1, <1>2

\* One element more.
LEMMA OneMore ==
    ASSUME NEW S, IsFiniteSet(S), NEW x, x \notin S, NEW T, T = S \cup {x}
    PROVE  /\ IsFiniteSet(T) /\ Cardinality(S) \in Nat
           /\ Cardinality(T) = Cardinality(S) + 1
  BY FS_AddElement, FS_CardinalityType

-----------------------------------------------------------------------------
(* Pointers to entries of the cache *)

CacheEntry == [inum : 0..NINODES, ref : Nat, valid : BOOLEAN]
Caches == [Entry -> CacheEntry]

LEMMA CacheType ==
    TypeOK => icache \in Caches
  BY DEF TypeOK, Caches, CacheEntry

LEMMA RegisterType ==
    ASSUME CodeType, NEW p \in Proc
    PROVE  /\ reg[p].w \in Pointer /\ reg[p].ip \in Pointer
           /\ reg[p].dp \in Pointer
           /\ todo[p] \in Seq(Instr) /\ onfail[p] \in Seq(Instr)
  BY DEF CodeType, Registers

LEMMA NoneIsNoEntry ==
    None \notin Entry /\ None \notin Proc /\ Entry \subseteq Nat
  BY FsConstants DEF Entry

\* The pointers of p apart from those to be put.
Kept(p, e) ==
    One(fd[p] = e) + One(cwd[p] = e)
    + One(reg[p].w = e) + One(reg[p].ip = e) + One(reg[p].dp = e)

LEMMA PointersSplit ==
    ASSUME CodeType, NEW p \in Proc, NEW e
    PROVE  /\ Pointers(p, e) = Kept(p, e) + Puts(todo[p], e)
           /\ Pointers(p, e) \in Nat /\ Kept(p, e) \in Nat
           /\ Puts(todo[p], e) \in Nat
<1>1. Puts(todo[p], e) \in Nat
  BY RegisterType, PutsType
<1>2. Kept(p, e) \in Nat
  BY DEF Kept, One
<1>3. Pointers(p, e) = Kept(p, e) + Puts(todo[p], e)
  BY DEF Pointers, Kept, Puts
<1> QED
  BY <1>1, <1>2, <1>3

\* p has a pointer to e that is not about to be dropped.
Holds(p, e) ==
    \/ fd[p] = e \/ cwd[p] = e
    \/ reg[p].w = e \/ reg[p].ip = e \/ reg[p].dp = e
    \/ Does(p, "put") /\ Arg(p) = e

LEMMA HeldOnce ==
    ASSUME CodeType, NEW p \in Proc, NEW e \in Entry
    PROVE  /\ Holds(p, e) => Pointers(p, e) >= 1
           /\ Does(p, "drop") /\ Arg(p) = e => Pointers(p, e) >= 1
           /\ Holds(p, e) /\ Does(p, "drop") /\ Arg(p) = e => Pointers(p, e) >= 2
<1>1. /\ Pointers(p, e) = Kept(p, e) + Puts(todo[p], e)
      /\ Kept(p, e) \in Nat /\ Puts(todo[p], e) \in Nat
  BY PointersSplit
<1>2. \/ fd[p] = e \/ cwd[p] = e
      \/ reg[p].w = e \/ reg[p].ip = e \/ reg[p].dp = e
      => Kept(p, e) >= 1
  BY DEF Kept, One
<1>3. ASSUME NEW w, w \in {"put", "drop"}, Does(p, w), Arg(p) = e
      PROVE  Puts(todo[p], e) >= 1
  <2>1. todo[p] # << >> /\ Head(todo[p])[1] = w /\ Head(todo[p])[2] = e
    BY <1>3 DEF Does, Arg
  <2>2. IsPut(Head(todo[p]))
    BY <1>3, <2>1 DEF IsPut
  <2>3. todo[p] \in Seq(Instr) /\ Tail(todo[p]) \in Seq(Instr)
    BY <2>1, RegisterType, Uncons
  <2>4. Puts(Tail(todo[p]), e) \in Nat
    BY <2>3, PutsType
  <2>5. Puts(todo[p], e) = One(IsPut(Head(todo[p])) /\ Head(todo[p])[2] = e)
                           + Puts(Tail(todo[p]), e)
    BY <2>1, <2>3, PutsTail
  <2> QED
    BY <2>1, <2>2, <2>4, <2>5 DEF One
<1>4. Does(p, "drop") => ~Does(p, "put")
  BY DEF Does
<1> QED
  BY <1>1, <1>2, <1>3, <1>4 DEF Holds

\* The count of an entry is at least the pointers of any two processes.
LEMMA CountTwo ==
    ASSUME CodeType, TypeOK, Counted, NEW p \in Proc, NEW e \in Entry
    PROVE  /\ Pointers(p, e) <= icache[e].ref
           /\ \A q \in Proc : q # p =>
                 Pointers(p, e) + Pointers(q, e) <= icache[e].ref
<1> DEFINE n == [q \in Proc |-> Pointers(q, e)]
<1>1. n \in [Proc -> Nat]
  BY PointersSplit
<1>2. Pointing(e) = Numbered(n)
  BY DEF Pointing, Numbered
<1>3. \A q \in Proc : n[q] = Pointers(q, e) /\ Pointers(q, e) \in Nat
  BY PointersSplit
<1> HIDE DEF n
<1>4. /\ Cardinality(Numbered(n)) \in Nat
      /\ n[p] <= Cardinality(Numbered(n))
      /\ \A q \in Proc : q # p => n[p] + n[q] <= Cardinality(Numbered(n))
  BY <1>1, NumberedTwo
<1>5. icache[e].ref = lost[e] + Cardinality(Numbered(n)) /\ lost[e] \in Nat
  BY <1>2 DEF Counted, TypeOK
<1> QED
  BY <1>3, <1>4, <1>5

\* Whoever holds a pointer to an inode that is not about to be dropped can rely
\* on it.
LEMMA HeldIsAlive ==
    ASSUME Sound, Running, NEW p \in Proc, NEW e \in Entry, Holds(p, e)
    PROVE  /\ icache[e].ref \in Nat /\ icache[e].ref >= 1
           /\ icache[e].inum \in Inum /\ Inode(e).type # "none"
<1>1. /\ CodeType /\ TypeOK /\ Counted /\ OneEntry /\ FreeOnlyDropped
  BY DEF Sound
<1>2. Pointers(p, e) >= 1 /\ Pointers(p, e) \in Nat
  BY <1>1, HeldOnce, PointersSplit
<1>3. icache[e].ref \in Nat
  BY <1>1 DEF TypeOK
<1>4. icache[e].ref >= 1
  BY <1>1, <1>2, <1>3, CountTwo
<1>5. icache[e].inum \in Inum
  BY <1>1, <1>3, <1>4 DEF OneEntry
<1>6. ASSUME Inode(e).type = "none" PROVE FALSE
  <2>1. icache[e].ref = 1
    BY <1>1, <1>3, <1>4, <1>6 DEF FreeOnlyDropped, Inode
  <2>2. PICK q \in Proc : Does(q, "drop") /\ Arg(q) = e
    BY <1>1, <1>3, <1>4, <1>6 DEF FreeOnlyDropped, Inode
  <2>3. CASE q = p
    <3>1. Pointers(p, e) >= 2
      BY <1>1, <2>2, <2>3, HeldOnce
    <3> QED
      BY <1>1, <1>2, <2>1, <3>1, CountTwo
  <2>4. CASE q # p
    <3>1. Pointers(q, e) >= 1 /\ Pointers(q, e) \in Nat
      BY <1>1, <2>2, HeldOnce, PointersSplit
    <3>2. Pointers(p, e) + Pointers(q, e) <= icache[e].ref
      BY <1>1, <2>4, CountTwo
    <3> QED
      BY <1>2, <2>1, <3>1, <3>2
  <2> QED
    BY <2>3, <2>4
<1> QED
  BY <1>3, <1>4, <1>5, <1>6

\* The others leave the pointers and the code of a process alone.
Alone(p) == \A q \in Proc : q # p =>
    /\ todo'[q] = todo[q] /\ onfail'[q] = onfail[q] /\ reg'[q] = reg[q]
    /\ fd'[q] = fd[q] /\ cwd'[q] = cwd[q]

\* The count of an entry changes by the pointers that p takes and gives up.
Balance(p) == \A e \in Entry :
    icache'[e].ref + lost[e] + Pointers(p, e)
        = icache[e].ref + lost'[e] + Pointers(p, e)'

LEMMA CountedStep ==
    ASSUME TypeOK, CodeType, Counted, NEW p \in Proc,
           Alone(p), Balance(p), CodeType',
           icache' \in Caches, lost' \in [Entry -> Nat]
    PROVE  Counted'
<1> SUFFICES ASSUME NEW e \in Entry
             PROVE  icache'[e].ref = lost'[e] + Cardinality(Pointing(e)')
  BY DEF Counted
<1> DEFINE n == [q \in Proc |-> Pointers(q, e)]
           m == [q \in Proc |-> Pointers(q, e)']
<1>1. n \in [Proc -> Nat]
  BY PointersSplit
<1>2. \A q \in Proc : Pointers(q, e)' \in Nat
  <2> TAKE q \in Proc
  <2>1. Puts(todo'[q], e) \in Nat
    BY PutsType DEF CodeType
  <2>2. Kept(q, e)' \in Nat
    BY DEF Kept, One
  <2>3. Pointers(q, e)' = Kept(q, e)' + Puts(todo'[q], e)
    BY DEF Pointers, Kept, Puts
  <2> QED
    BY <2>1, <2>2, <2>3
<1>3. m \in [Proc -> Nat]
  BY <1>2
<1>4. Pointing(e) = Numbered(n) /\ Pointing(e)' = Numbered(m)
  BY DEF Pointing, Numbered
<1>5. ASSUME NEW q \in Proc, q # p PROVE m[q] = n[q]
  <2>1. Kept(q, e)' = Kept(q, e) /\ todo'[q] = todo[q]
    BY <1>5 DEF Alone, Kept
  <2>2. /\ Pointers(q, e) = Kept(q, e) + Puts(todo[q], e)
        /\ Pointers(q, e)' = Kept(q, e)' + Puts(todo'[q], e)
    BY DEF Pointers, Kept, Puts
  <2> QED
    BY <2>1, <2>2
<1>6. n[p] = Pointers(p, e) /\ m[p] = Pointers(p, e)'
  OBVIOUS
<1>7. Pointers(p, e) \in Nat /\ Pointers(p, e)' \in Nat
  BY <1>2, PointersSplit
<1> HIDE DEF n, m
<1>8. /\ Cardinality(Numbered(n)) \in Nat /\ Cardinality(Numbered(m)) \in Nat
      /\ Cardinality(Numbered(m)) + n[p] = Cardinality(Numbered(n)) + m[p]
  BY <1>1, <1>3, <1>5, NumberedChange
<1>9. /\ icache[e].ref \in Nat /\ lost[e] \in Nat
      /\ icache'[e].ref \in Nat /\ lost'[e] \in Nat
  BY DEF TypeOK, Caches, CacheEntry
<1>10. icache[e].ref = lost[e] + Cardinality(Numbered(n))
  BY <1>4 DEF Counted
<1>11. icache'[e].ref + lost[e] + n[p] = icache[e].ref + lost'[e] + m[p]
  BY <1>6 DEF Balance
<1>12. n[p] \in Nat /\ m[p] \in Nat
  BY <1>6, <1>7
<1>13. icache'[e].ref = lost'[e] + Cardinality(Numbered(m))
  <2>1. PICK r \in Nat : r = icache[e].ref
    BY <1>9
  <2>2. PICK r1 \in Nat : r1 = icache'[e].ref
    BY <1>9
  <2>3. PICK l \in Nat : l = lost[e]
    BY <1>9
  <2>4. PICK l1 \in Nat : l1 = lost'[e]
    BY <1>9
  <2>5. PICK a \in Nat : a = n[p]
    BY <1>12
  <2>6. PICK b \in Nat : b = m[p]
    BY <1>12
  <2>7. PICK c \in Nat : c = Cardinality(Numbered(n))
    BY <1>8
  <2>8. PICK d \in Nat : d = Cardinality(Numbered(m))
    BY <1>8
  <2>9. d + a = c + b
    BY <1>8, <2>5, <2>6, <2>7, <2>8
  <2>10. r = l + c
    BY <1>10, <2>1, <2>3, <2>7
  <2>11. r1 + l + a = r + l1 + b
    BY <1>11, <2>1, <2>2, <2>3, <2>4, <2>5, <2>6
  <2>12. r1 = l1 + d
    BY <2>9, <2>10, <2>11
  <2> QED
    BY <2>2, <2>4, <2>8, <2>12
<1> QED
  BY <1>4, <1>13

-----------------------------------------------------------------------------
(* The cache *)

\* What m may be after a step that neither drops a pointer nor frees an inode:
\* entries in use are for the same inode still, and an entry that comes into
\* use is the only one for its inode.
Grown(m) ==
    /\ m \in Caches
    /\ \A e \in Entry : icache[e].ref > 0 =>
          m[e].inum = icache[e].inum /\ m[e].ref >= icache[e].ref
    /\ \A e \in Entry : m[e] # icache[e] => m[e].ref > 0 /\ m[e].inum \in Inum
    /\ \A e \in Entry : icache[e].ref = 0 /\ m[e].ref > 0 =>
          \A f \in Entry : m[f].ref > 0 /\ m[f].inum = m[e].inum => f = e

\* What it points to newly is allocated.
Alive(m, d) == \A e \in Entry :
    m[e] # icache[e] => d[m[e].inum].type # "none"

LEMMA GrownOneEntry ==
    ASSUME TypeOK, OneEntry, Grown(icache')
    PROVE  OneEntry'
<1>1. icache \in Caches
  BY CacheType
<1>2. ASSUME NEW e \in Entry
      PROVE  /\ icache[e].ref \in Nat /\ icache'[e].ref \in Nat
             /\ icache[e].ref = 0 \/ icache[e].ref > 0
  BY <1>1 DEF Grown, Caches, CacheEntry
<1>3. ASSUME NEW e \in Entry, icache'[e].ref > 0
      PROVE  icache'[e].inum \in Inum
  BY <1>2, <1>3 DEF OneEntry, Grown
<1>4. ASSUME NEW e \in Entry, NEW f \in Entry,
             icache'[e].ref > 0, icache'[f].ref > 0,
             icache'[e].inum = icache'[f].inum
      PROVE  e = f
  <2>1. CASE icache[e].ref = 0 \/ icache[f].ref = 0
    BY <1>4, <2>1 DEF Grown
  <2>2. CASE icache[e].ref > 0 /\ icache[f].ref > 0
    BY <1>4, <2>2 DEF Grown, OneEntry
  <2> QED
    BY <1>2, <2>1, <2>2
<1> QED
  BY <1>3, <1>4, Zenon DEF OneEntry, Inum

LEMMA GrownFreeOnlyDropped ==
    ASSUME TypeOK, OneEntry, FreeOnlyDropped, NEW p \in Proc, ~Does(p, "drop"),
           Alone(p), Running, Running', Grown(icache'), Alive(icache', disk'),
           \A i \in Inum : disk'[i].type = "none" => disk[i].type = "none"
    PROVE  FreeOnlyDropped'
<1> SUFFICES ASSUME NEW e \in Entry, icache'[e].ref > 0,
                    disk'[icache'[e].inum].type = "none"
             PROVE  /\ icache'[e].ref = 1 /\ ~icache'[e].valid
                    /\ \E q \in Proc : Does(q, "drop")' /\ Arg(q)' = e
  BY DEF FreeOnlyDropped
<1>1. icache'[e] = icache[e]
  BY DEF Alive
<1>2. icache[e].ref > 0 /\ disk[icache[e].inum].type = "none"
  BY <1>1 DEF OneEntry
<1>3. icache[e].ref = 1 /\ ~icache[e].valid
  BY <1>2 DEF FreeOnlyDropped
<1>4. PICK q \in Proc : Does(q, "drop") /\ Arg(q) = e
  BY <1>2 DEF FreeOnlyDropped
<1>5. q # p /\ todo'[q] = todo[q]
  BY <1>4 DEF Alone
<1>6. Does(q, "drop")' /\ Arg(q)' = e
  BY <1>4, <1>5 DEF Does, Arg, Running
<1> QED
  BY <1>1, <1>3, <1>6

\* The cache as it is has grown into itself.
LEMMA GrownSame ==
    ASSUME TypeOK, NEW d
    PROVE  Grown(icache) /\ Alive(icache, d)
<1>1. icache \in Caches
  BY CacheType
<1>2. \A e \in Entry : icache[e].ref \in Nat
  BY <1>1 DEF Caches, CacheEntry
<1> QED
  BY <1>1, <1>2 DEF Grown, Alive

\* m is the cache with entries read and pointers added, no entry taken into use.
NoneTaken(m) ==
    \A f \in Entry : icache[f].ref = 0 => m[f] = icache[f]

\* An entry of the cache read, with one pointer more, or written anew.
LEMMA EntryRead ==
    ASSUME NEW r \in CacheEntry
    PROVE  /\ [r EXCEPT !.valid = TRUE] \in CacheEntry
           /\ [r EXCEPT !.valid = TRUE].ref = r.ref
           /\ [r EXCEPT !.valid = TRUE].inum = r.inum
<1>1. [r EXCEPT !.valid = TRUE] \in CacheEntry
  BY DEF CacheEntry
<1>2. /\ [r EXCEPT !.valid = TRUE].ref = r.ref
      /\ [r EXCEPT !.valid = TRUE].inum = r.inum
  BY DEF CacheEntry
<1> QED
  BY <1>1, <1>2

LEMMA EntryDup ==
    ASSUME NEW r \in CacheEntry
    PROVE  /\ [r EXCEPT !.ref = @ + 1] \in CacheEntry
           /\ [r EXCEPT !.ref = @ + 1].ref = r.ref + 1
           /\ [r EXCEPT !.ref = @ + 1].inum = r.inum
<1>1. [r EXCEPT !.ref = @ + 1] \in CacheEntry
  BY DEF CacheEntry
<1>2. /\ [r EXCEPT !.ref = @ + 1].ref = r.ref + 1
      /\ [r EXCEPT !.ref = @ + 1].inum = r.inum
  BY DEF CacheEntry
<1> QED
  BY <1>1, <1>2

LEMMA EntryNew ==
    ASSUME NEW i \in Inum
    PROVE  /\ [inum |-> i, ref |-> 1, valid |-> FALSE] \in CacheEntry
           /\ [inum |-> i, ref |-> 1, valid |-> FALSE].ref = 1
           /\ [inum |-> i, ref |-> 1, valid |-> FALSE].inum = i
<1>1. i \in 0..NINODES
  BY DEF Inum
<1> QED
  BY <1>1 DEF CacheEntry

Seen(m, e) == [m EXCEPT ![e].valid = TRUE]

LEMMA ReadOne ==
    ASSUME NEW m \in Caches, NEW e \in Entry, NEW n, n = Seen(m, e)
    PROVE  /\ n \in Caches /\ n[e].ref = m[e].ref /\ n[e].inum = m[e].inum
           /\ \A f \in Entry : f # e => n[f] = m[f]
<1> DEFINE x == [m[e] EXCEPT !.valid = TRUE]
<1>1. m[e] \in CacheEntry
  BY DEF Caches
<1>2. x \in CacheEntry /\ x.ref = m[e].ref /\ x.inum = m[e].inum
  BY <1>1, EntryRead
<1>3. n = [m EXCEPT ![e] = x]
  BY DEF Seen
<1> HIDE DEF x
<1>4. n \in Caches /\ n[e] = x /\ \A f \in Entry : f # e => n[f] = m[f]
  BY <1>2, <1>3 DEF Caches
<1> QED
  BY <1>2, <1>4

LEMMA DupOne ==
    ASSUME NEW m \in Caches, NEW e \in Entry, NEW n, n = Dup(m, e)
    PROVE  /\ n \in Caches /\ n[e].ref = m[e].ref + 1 /\ n[e].inum = m[e].inum
           /\ \A f \in Entry : f # e => n[f] = m[f]
<1> DEFINE x == [m[e] EXCEPT !.ref = @ + 1]
<1>1. m[e] \in CacheEntry
  BY DEF Caches
<1>2. x \in CacheEntry /\ x.ref = m[e].ref + 1 /\ x.inum = m[e].inum
  BY <1>1, EntryDup
<1>3. n = [m EXCEPT ![e] = x]
  BY DEF Dup
<1> HIDE DEF x
<1>4. n \in Caches /\ n[e] = x /\ \A f \in Entry : f # e => n[f] = m[f]
  BY <1>2, <1>3 DEF Caches
<1> QED
  BY <1>2, <1>4

\* An entry in use read, or with c pointers more to it.
LEMMA GrownMore ==
    ASSUME TypeOK, NEW e \in Entry, NEW c \in Nat, icache[e].ref > 0,
           icache[e].inum \in Inum, NEW d, d[icache[e].inum].type # "none",
           NEW m \in Caches,
           m[e].ref = icache[e].ref + c, m[e].inum = icache[e].inum,
           \A f \in Entry : f # e => m[f] = icache[f]
    PROVE  /\ Grown(m) /\ Alive(m, d) /\ NoneTaken(m)
           /\ \A f \in Entry : /\ m[f].ref = icache[f].ref + (IF f = e THEN c ELSE 0)
                               /\ m[f].inum = icache[f].inum
<1>1. icache \in Caches
  BY CacheType
<1>2. \A f \in Entry : icache[f].ref \in Nat
  BY <1>1 DEF Caches, CacheEntry
<1>4. \A f \in Entry : /\ m[f].ref = icache[f].ref + (IF f = e THEN c ELSE 0)
                       /\ m[f].inum = icache[f].inum
  BY <1>2
<1>5. Alive(m, d)
  BY DEF Alive
<1>6. Grown(m)
  BY <1>2, <1>4 DEF Grown
<1>7. NoneTaken(m)
  BY DEF NoneTaken
<1> QED
  BY <1>4, <1>5, <1>6, <1>7

\* iget: the entry it returns.
LEMMA Gotten ==
    ASSUME TypeOK, OneEntry, NEW i \in Inum, CanGet(i)
    PROVE  /\ GetEntry(i) \in Entry
           /\ Cached(i) # {} => /\ icache[GetEntry(i)].ref > 0
                                /\ icache[GetEntry(i)].inum = i
           /\ Cached(i) = {} => /\ icache[GetEntry(i)].ref = 0
                                /\ \A f \in Entry : icache[f].ref > 0
                                      => icache[f].inum # i
<1>1. Cached(i) \in SUBSET (0..NINODE) /\ Unused \in SUBSET (0..NINODE)
  BY DEF Cached, Unused, Entry
<1>2. NINODE \in Nat
  BY FsConstants
<1>3. CASE Cached(i) # {}
  <2>1. Min(Cached(i)) \in Cached(i)
    BY <1>1, <1>2, <1>3, LeastNumber
  <2> QED
    BY <1>3, <2>1 DEF Cached, GetEntry
<1>4. CASE Cached(i) = {}
  <2>1. Min(Unused) \in Unused
    BY <1>1, <1>2, <1>4, LeastNumber DEF CanGet
  <2>2. GetEntry(i) = Min(Unused)
    BY <1>4 DEF GetEntry
  <2>3. \A f \in Entry : icache[f].ref > 0 => icache[f].inum # i
    BY <1>4 DEF Cached
  <2> QED
    BY <1>4, <2>1, <2>2, <2>3 DEF Unused
<1> QED
  BY <1>3, <1>4

LEMMA GetOne ==
    ASSUME NEW m \in Caches, NEW i \in Inum, GetEntry(i) \in Entry,
           NEW n, n = Get(m, i)
    PROVE  /\ n \in Caches
           /\ \A f \in Entry : f # GetEntry(i) => n[f] = m[f]
           /\ Cached(i) # {} => /\ n[GetEntry(i)].ref = m[GetEntry(i)].ref + 1
                                /\ n[GetEntry(i)].inum = m[GetEntry(i)].inum
           /\ Cached(i) = {} => /\ n[GetEntry(i)].ref = 1
                                /\ n[GetEntry(i)].inum = i
<1> DEFINE g == GetEntry(i)
           y == [inum |-> i, ref |-> 1, valid |-> FALSE]
<1>1. CASE Cached(i) # {}
  <2>1. n = Dup(m, g)
    BY <1>1 DEF Get
  <2> QED
    BY <1>1, <2>1, DupOne
<1>2. CASE Cached(i) = {}
  <2>1. n = [m EXCEPT ![g] = y]
    BY <1>2 DEF Get
  <2>2. y \in CacheEntry /\ y.ref = 1 /\ y.inum = i
    BY EntryNew
  <2> HIDE DEF y
  <2>3. n \in Caches /\ n[g] = y /\ \A f \in Entry : f # g => n[f] = m[f]
    BY <2>1, <2>2 DEF Caches
  <2> QED
    BY <1>2, <2>2, <2>3
<1> QED
  BY <1>1, <1>2

\* n is m with a pointer to i more.
LEMMA GrownGet ==
    ASSUME TypeOK, OneEntry, NEW i \in Inum, CanGet(i),
           NEW m, Grown(m), NoneTaken(m),
           NEW n, n = Get(m, i) \/ n = Seen(Get(m, i), GetEntry(i)),
           NEW d, Alive(m, d), d[i].type # "none"
    PROVE  /\ Grown(n) /\ Alive(n, d) /\ n[GetEntry(i)].inum = i
           /\ \A f \in Entry :
                 /\ n[f].ref = m[f].ref + One(f = GetEntry(i))
                 /\ f # GetEntry(i) => n[f] = m[f]
<1> DEFINE g == GetEntry(i)
<1>1. /\ g \in Entry
      /\ Cached(i) # {} => icache[g].ref > 0 /\ icache[g].inum = i
      /\ Cached(i) = {} => /\ icache[g].ref = 0
                           /\ \A f \in Entry : icache[f].ref > 0
                                 => icache[f].inum # i
  BY Gotten
<1> HIDE DEF g
<1>2. m \in Caches /\ icache \in Caches
  BY CacheType DEF Grown
<1>3. \A f \in Entry : m[f].ref \in Nat /\ icache[f].ref \in Nat
  BY <1>2 DEF Caches, CacheEntry
<1>a. /\ n \in Caches
      /\ \A f \in Entry : f # g => n[f] = m[f]
      /\ Cached(i) # {} => n[g].ref = m[g].ref + 1 /\ n[g].inum = m[g].inum
      /\ Cached(i) = {} => n[g].ref = 1 /\ n[g].inum = i
  <2>1. PICK n1 : n1 = Get(m, i)
    OBVIOUS
  <2>2. /\ n1 \in Caches
        /\ \A f \in Entry : f # g => n1[f] = m[f]
        /\ Cached(i) # {} => n1[g].ref = m[g].ref + 1 /\ n1[g].inum = m[g].inum
        /\ Cached(i) = {} => n1[g].ref = 1 /\ n1[g].inum = i
    BY <1>1, <1>2, <2>1, GetOne DEF g
  <2>3. CASE n = n1
    BY <2>2, <2>3
  <2>4. CASE n = Seen(n1, g)
    <3>1. /\ n \in Caches /\ n[g].ref = n1[g].ref /\ n[g].inum = n1[g].inum
          /\ \A f \in Entry : f # g => n[f] = n1[f]
      BY <1>1, <2>2, <2>4, ReadOne
    <3> QED
      BY <2>2, <3>1
  <2> QED
    BY <2>1, <2>3, <2>4 DEF g
<1>4. CASE Cached(i) # {}
  <2>1. m[g].ref >= icache[g].ref /\ m[g].inum = i
    BY <1>1, <1>4 DEF Grown
  <2>2. /\ n \in Caches /\ n[g].ref = m[g].ref + 1 /\ n[g].inum = i
        /\ \A f \in Entry : f # g => n[f] = m[f]
    BY <1>4, <1>a, <2>1
  <2>3. \A f \in Entry : n[f].ref = m[f].ref + One(f = g)
    BY <1>3, <2>2 DEF One
  <2>4. Alive(n, d)
    BY <1>1, <2>2 DEF Alive
  <2>5. \A f \in Entry : icache[f].ref = 0 => n[f] = icache[f]
    BY <1>1, <1>4, <2>2 DEF NoneTaken
  <2>6. \A f \in Entry : icache[f].ref > 0 =>
           n[f].inum = icache[f].inum /\ n[f].ref >= icache[f].ref
    <3> SUFFICES ASSUME NEW f \in Entry, icache[f].ref > 0
                 PROVE  n[f].inum = icache[f].inum /\ n[f].ref >= icache[f].ref
      OBVIOUS
    <3>1. m[f].inum = icache[f].inum /\ m[f].ref >= icache[f].ref
      BY DEF Grown
    <3>2. CASE f = g
      BY <1>1, <1>3, <1>4, <2>2, <3>1, <3>2
    <3>3. CASE f # g
      BY <2>2, <3>1, <3>3
    <3> QED
      BY <3>2, <3>3
  <2>7. \A f \in Entry : n[f] # icache[f] => n[f].ref > 0 /\ n[f].inum \in Inum
    <3> SUFFICES ASSUME NEW f \in Entry, n[f] # icache[f]
                 PROVE  n[f].ref > 0 /\ n[f].inum \in Inum
      OBVIOUS
    <3>1. CASE f = g
      BY <1>3, <2>2, <1>1, <3>1
    <3>2. CASE f # g
      BY <2>2, <3>2 DEF Grown
    <3> QED
      BY <3>1, <3>2
  <2>8. \A f \in Entry : icache[f].ref = 0 => n[f].ref = 0
    BY <2>5
  <2>9. Grown(n)
    BY <1>3, <2>2, <2>6, <2>7, <2>8 DEF Grown
  <2> QED
    BY <2>2, <2>3, <2>4, <2>9 DEF g
<1>5. CASE Cached(i) = {}
  <2>1. m[g] = icache[g] /\ m[g].ref = 0
    BY <1>1, <1>5 DEF NoneTaken
  <2>2. i \in 0..NINODES
    BY DEF Inum
  <2>3. /\ n \in Caches /\ n[g].ref = 1 /\ n[g].inum = i
        /\ \A f \in Entry : f # g => n[f] = m[f]
    BY <1>5, <1>a
  <2>4. \A f \in Entry : n[f].ref = m[f].ref + One(f = g)
    BY <1>3, <2>1, <2>3 DEF One
  <2>5. Alive(n, d)
    BY <1>1, <2>3 DEF Alive
  <2>6. \A f \in Entry : icache[f].ref > 0 =>
           n[f].inum = icache[f].inum /\ n[f].ref >= icache[f].ref
    BY <1>1, <1>3, <1>5, <2>3 DEF Grown
  <2>7. \A f \in Entry : n[f] # icache[f] => n[f].ref > 0 /\ n[f].inum \in Inum
    BY <2>3 DEF Grown
  <2>8. \A f \in Entry : f # g /\ icache[f].ref = 0 => n[f].ref = 0
    BY <2>3 DEF NoneTaken
  <2>9. \A f \in Entry : n[f].ref > 0 /\ n[f].inum = i => f = g
    <3> SUFFICES ASSUME NEW f \in Entry, n[f].ref > 0, n[f].inum = i, f # g
                 PROVE  FALSE
      OBVIOUS
    <3>1. icache[f].ref > 0
      BY <1>3, <2>8
    <3> QED
      BY <1>1, <1>5, <2>6, <3>1
  <2>10. Grown(n)
    BY <2>3, <2>6, <2>7, <2>8, <2>9 DEF Grown
  <2> QED
    BY <2>3, <2>4, <2>5, <2>10 DEF g
<1> QED
  BY <1>4, <1>5

-----------------------------------------------------------------------------
(* What a step of p means for the other processes *)

\* Where a process is tells which pointers it has.
LEMMA WhatIsHeld ==
    ASSUME CodeType, Code, NEW p \in Proc
    PROVE  /\ Pends(p) => reg[p].ip \in Entry
           /\ Doing(p, "remove") => reg[p].ip \in Entry /\ reg[p].dp \in Entry
           /\ Doing(p, "giveup") => reg[p].dp \in Entry
           /\ Doing(p, "made") \/ Doing(p, "removed") \/ Doing(p, "write")
                 => reg[p].ip \in Entry
           /\ reg[p].dp \in Entry => reg[p].name \in Name
<1> DEFINE s == Bare(todo[p])
           b == onfail[p]
           r == reg[p]
<1>1. Fits(s, b, r) /\ (r.dp # None => r.name \in Name)
  BY DEF Code, CodeOf
<1>2. r.ip \in Pointer /\ r.dp \in Pointer
  BY RegisterType
<1> HIDE DEF s, b, r
<1>3. At(s, "linknew") \/ At(s, "linkbad") \/ At(s, "removed") => r.ip # None
  BY <1>1 DEF Fits, At, Last, NoneHeld, IpHeld, DpHeld, WithIp, WithDp,
              Making, Linking
<1>4. (At(s, "walk") \/ At(s, "look") \/ At(s, "giveup")) /\ Last(b, "linkbad")
         => r.ip # None
  BY <1>1 DEF Fits, At, Last, NoneHeld, IpHeld, DpHeld, WithIp, WithDp,
              Walking, Making, Retry, Linking
<1>5. /\ At(s, "remove") => r.ip # None /\ r.dp # None
      /\ At(s, "giveup") => r.dp # None
  BY <1>1 DEF Fits, At, Last, NoneHeld, IpHeld, DpHeld, WithIp, WithDp,
              Making, Linking
<1>6. At(s, "made") \/ At(s, "removed") \/ At(s, "write") => r.ip # None
  BY <1>1 DEF Fits, At, Last, NoneHeld, IpHeld, DpHeld, WithIp, WithDp,
              Making, Linking
<1>7. None \notin Entry
  BY NoneIsNoEntry
<1> QED
  BY <1>1, <1>2, <1>3, <1>4, <1>5, <1>6, <1>7
     DEF Pends, Doing, Pointer, s, b, r

\* The code of the others stays.
LEMMA OthersCode ==
    ASSUME NEW p \in Proc, Alone(p), NEW q \in Proc, q # p
    PROVE  /\ Pends(q)' <=> Pends(q)
           /\ \A what : Doing(q, what)' <=> Doing(q, what)
           /\ reg'[q] = reg[q]
  BY DEF Alone, Pends, Doing

LEMMA CodeStep ==
    ASSUME NEW p \in Proc, Alone(p), Code,
           CodeOf(todo[p], onfail[p], reg[p])'
    PROVE  Code'
<1> SUFFICES ASSUME NEW q \in Proc
             PROVE  CodeOf(todo[q], onfail[q], reg[q])'
  BY DEF Code
<1>1. CASE q = p
  BY <1>1
<1>2. CASE q # p
  BY <1>2 DEF Alone, Code
<1> QED
  BY <1>1, <1>2

\* p changes only locks that are free or its own, or of what nobody else has.
LockStep(p) == \A e \in Entry :
    lock'[e] # lock[e] => \/ lock[e] \in {None, p}
                         \/ \A q \in Proc : q # p => ~Holds(q, e)

LEMMA OthersLocks ==
    ASSUME Sound, Running, NEW p \in Proc, Alone(p), LockStep(p),
           NEW q \in Proc, q # p
    PROVE  LocksOf(q)'
<1>1. CodeType /\ Code /\ LocksOf(q)
  BY DEF Sound
<1>2. /\ \A what : Doing(q, what)' <=> Doing(q, what)
      /\ reg'[q] = reg[q]
  BY OthersCode
<1>3. ASSUME NEW e \in Entry, lock[e] = q, Holds(q, e) PROVE lock'[e] = q
  <2>1. q # None
    BY NoneIsNoEntry
  <2> QED
    BY <1>3, <2>1 DEF LockStep
<1>4. ASSUME Doing(q, "remove") \/ Doing(q, "giveup")
      PROVE  lock'[reg[q].dp] = q
  <2>1. reg[q].dp \in Entry
    BY <1>1, <1>4, WhatIsHeld
  <2> QED
    BY <1>1, <1>3, <1>4, <2>1 DEF LocksOf, Holds
<1>5. ASSUME Doing(q, "made") \/ Doing(q, "removed") \/ Doing(q, "write")
      PROVE  lock'[reg[q].ip] = q
  <2>1. reg[q].ip \in Entry
    BY <1>1, <1>5, WhatIsHeld
  <2> QED
    BY <1>1, <1>3, <1>5, <2>1 DEF LocksOf, Holds
<1> QED
  BY <1>2, <1>4, <1>5 DEF LocksOf

\* What the others have pointers to stays what it is.
Undisturbed(p) == \A q \in Proc : q # p =>
    \A e \in Entry : Holds(q, e) =>
        /\ icache'[e].inum = icache[e].inum
        /\ disk'[icache[e].inum].type = disk[icache[e].inum].type

\* The inodes there are stay what they are.
TypesStay == \A i \in Inum :
    disk[i].type # "none" => disk'[i].type = disk[i].type

LEMMA GrownUndisturbed ==
    ASSUME Sound, Running, NEW p \in Proc, Grown(icache'), TypesStay
    PROVE  Undisturbed(p)
<1> SUFFICES ASSUME NEW q \in Proc, NEW e \in Entry, Holds(q, e)
             PROVE  /\ icache'[e].inum = icache[e].inum
                    /\ disk'[icache[e].inum].type = disk[icache[e].inum].type
  BY DEF Undisturbed
<1>1. /\ icache[e].ref \in Nat /\ icache[e].ref >= 1
      /\ icache[e].inum \in Inum /\ Inode(e).type # "none"
  BY HeldIsAlive
<1>2. icache[e].ref > 0
  BY <1>1
<1> QED
  BY <1>1, <1>2 DEF Grown, TypesStay, Inode

\* p changes the entries of directories only that it may lock.
DirGuard(p) == \A i \in Inum :
    disk'[i].ents # disk[i].ents =>
        \E e \in Entry : /\ icache[e].ref > 0 /\ icache[e].inum = i
                         /\ lock[e] \in {None, p}

LEMMA OthersMeaning ==
    ASSUME Sound, Running, NEW p \in Proc, Alone(p), Undisturbed(p),
           DirGuard(p) \/ disk' = disk, NEW q \in Proc, q # p
    PROVE  MeaningOf(q)'
<1>1. CodeType /\ Code /\ LocksOf(q) /\ MeaningOf(q) /\ OneEntry
  BY DEF Sound
<1>2. /\ Pends(q)' <=> Pends(q)
      /\ \A what : Doing(q, what)' <=> Doing(q, what)
      /\ reg'[q] = reg[q]
  BY OthersCode
<1>3. reg[q].ip \in Pointer /\ reg[q].dp \in Pointer
  BY <1>1, RegisterType
<1>4. ASSUME NEW e \in Entry, reg[q].ip = e \/ reg[q].dp = e
      PROVE  /\ icache'[e].inum = icache[e].inum
             /\ IsDir(e)' <=> IsDir(e)
             /\ icache[e].ref > 0 /\ icache[e].inum \in Inum
  <2>1. Holds(q, e)
    BY <1>4 DEF Holds
  <2>2. /\ icache'[e].inum = icache[e].inum
        /\ disk'[icache[e].inum].type = disk[icache[e].inum].type
    BY <2>1 DEF Undisturbed
  <2>3. /\ icache[e].ref \in Nat /\ icache[e].ref >= 1
        /\ icache[e].inum \in Inum
    BY <2>1, HeldIsAlive
  <2> QED
    BY <2>2, <2>3 DEF IsDir, Inode
<1>5. reg[q].dp # None => IsDir(reg[q].dp)'
  <2> SUFFICES ASSUME reg[q].dp # None
               PROVE  IsDir(reg[q].dp)'
    BY <1>2
  <2>1. reg[q].dp \in Entry /\ IsDir(reg[q].dp)
    BY <1>1, <1>3 DEF MeaningOf, Pointer
  <2>2. \A e : reg[q].dp = e => (IsDir(e)' <=> IsDir(reg[q].dp)')
    BY <1>2 DEF IsDir, Inode
  <2> QED
    BY <1>4, <2>1, <2>2
<1>6. Pends(q) /\ ~Doing(q, "removed") => ~IsDir(reg[q].ip)'
  <2> SUFFICES ASSUME Pends(q), ~Doing(q, "removed")
               PROVE  ~IsDir(reg[q].ip)'
    OBVIOUS
  <2>1. reg[q].ip \in Entry /\ ~IsDir(reg[q].ip)
    BY <1>1, WhatIsHeld DEF MeaningOf
  <2>2. \A e : reg[q].ip = e => (IsDir(e)' <=> IsDir(reg[q].ip)')
    BY <1>2 DEF IsDir, Inode
  <2> QED
    BY <1>4, <2>1, <2>2
<1>7. ASSUME Doing(q, "remove")
      PROVE  Found(q)' = icache'[reg[q].ip].inum
  <2> DEFINE i == reg[q].ip
             d == reg[q].dp
  <2>1. i \in Entry /\ d \in Entry
    BY <1>1, <1>7, WhatIsHeld
  <2>2. lock[d] = q /\ Found(q) = icache[i].inum
    BY <1>1, <1>7 DEF LocksOf, MeaningOf
  <2>3. /\ icache'[i].inum = icache[i].inum /\ icache'[d].inum = icache[d].inum
        /\ icache[d].ref > 0 /\ icache[d].inum \in Inum
    BY <1>4, <2>1
  <2>4. disk'[icache[d].inum].ents = disk[icache[d].inum].ents
    <3> SUFFICES ASSUME disk'[icache[d].inum].ents # disk[icache[d].inum].ents
                 PROVE  FALSE
      OBVIOUS
    <3>1. PICK e \in Entry : /\ icache[e].ref > 0 /\ icache[e].inum = icache[d].inum
                             /\ lock[e] \in {None, p}
      BY <2>3 DEF DirGuard
    <3>2. e = d
      BY <1>1, <2>1, <2>3, <3>1 DEF OneEntry
    <3>3. q # None
      BY NoneIsNoEntry
    <3> QED
      BY <2>2, <3>1, <3>2, <3>3
  <2> QED
    BY <1>2, <2>2, <2>3, <2>4 DEF Found, Inode
<1> QED
  BY <1>2, <1>5, <1>6, <1>7 DEF MeaningOf

\* The link of p that is pending for i.
PendOf(p, i) == One(Pends(p) /\ icache[reg[p].ip].inum = i)

LEMMA PendingStep ==
    ASSUME Sound, Running, NEW p \in Proc, Alone(p), Undisturbed(p), NEW i
    PROVE  /\ Cardinality(Pending(i)) \in Nat
           /\ Cardinality(Pending(i)') \in Nat
           /\ Cardinality(Pending(i)') + PendOf(p, i)
                = Cardinality(Pending(i)) + PendOf(p, i)'
<1>1. CodeType /\ Code
  BY DEF Sound
<1>2. \A q \in Proc : q # p => (q \in Pending(i) <=> q \in Pending(i)')
  <2> SUFFICES ASSUME NEW q \in Proc, q # p
               PROVE  q \in Pending(i) <=> q \in Pending(i)'
    OBVIOUS
  <2>1. (Pends(q)' <=> Pends(q)) /\ reg'[q] = reg[q]
    BY OthersCode
  <2>2. Pends(q) => icache'[reg[q].ip].inum = icache[reg[q].ip].inum
    BY <1>1, WhatIsHeld DEF Undisturbed, Holds
  <2> QED
    BY <2>1, <2>2 DEF Pending
<1>3. /\ p \in Pending(i) <=> Pends(p) /\ icache[reg[p].ip].inum = i
      /\ p \in Pending(i)' <=> (Pends(p) /\ icache[reg[p].ip].inum = i)'
  BY DEF Pending
<1>4. Pending(i) \in SUBSET Proc /\ Pending(i)' \in SUBSET Proc
  BY DEF Pending
<1>5. IsFiniteSet(Pending(i) \ {p}) /\ IsFiniteSet(Pending(i))
      /\ IsFiniteSet(Pending(i)')
  BY <1>4, FsConstants, FS_Subset
<1> DEFINE A == Pending(i)
           B == Pending(i)'
           C == A \ {p}
<1>6. B \ {p} = C
  BY <1>2, <1>4
<1>7. p \in A <=> A = C \cup {p}
  OBVIOUS
<1>8. (p \notin A <=> A = C) /\ (p \in B => B = C \cup {p}) /\ (p \notin B => B = C)
  BY <1>6
<1>9. IsFiniteSet(C) /\ p \notin C
  BY <1>5
<1>10. PendOf(p, i) = One(p \in A) /\ PendOf(p, i)' = One(p \in B)
  BY <1>3 DEF PendOf, One
<1>11. IsFiniteSet(A) /\ IsFiniteSet(B)
  BY <1>5
<1> HIDE DEF A, B, C
<1>12. Cardinality(C) \in Nat /\ Cardinality(C \cup {p}) = Cardinality(C) + 1
  BY <1>9, OneMore
<1>13. Cardinality(A) = Cardinality(C) + One(p \in A)
  BY <1>7, <1>8, <1>12 DEF One
<1>14. Cardinality(B) = Cardinality(C) + One(p \in B)
  <2>1. CASE p \in B
    BY <1>8, <1>12, <2>1 DEF One
  <2>2. CASE p \notin B
    BY <1>8, <1>12, <2>2 DEF One
  <2> QED
    BY <2>1, <2>2
<1>15. One(p \in A) \in Nat /\ One(p \in B) \in Nat
  BY DEF One
<1>16. /\ Cardinality(A) \in Nat /\ Cardinality(B) \in Nat
       /\ Cardinality(B) + One(p \in A) = Cardinality(A) + One(p \in B)
  BY <1>12, <1>13, <1>14, <1>15
<1> QED
  BY <1>10, <1>16 DEF A, B

-----------------------------------------------------------------------------
(* What every step has to show *)

Inodes == [type : {"none", "file", "dir", "sym"}, nlink : Nat,
           ents : [Name -> 0..NINODES], target : {<< >>} \cup Targets]
Disks == [Inum -> Inodes]

LEMMA DiskType ==
    TypeOK => disk \in Disks
  BY DEF TypeOK, Disks, Inodes, Targets

\* A step of p that drops nothing and frees nothing, apart from what it does to
\* the names and link counts.
Busy(p) ==
    /\ panic' = "none" /\ disk' \in Disks
    /\ lock' \in [Entry -> Proc \cup {None}]
    /\ fd' \in [Proc -> Pointer] /\ cwd' \in [Proc -> Entry]
    /\ lost' \in [Entry -> Nat]
    /\ CodeType' /\ Alone(p) /\ CodeOf(todo[p], onfail[p], reg[p])'
    /\ Balance(p) /\ Grown(icache') /\ Alive(icache', disk')
    /\ TypesStay /\ (DirGuard(p) \/ disk' = disk)
    /\ LockStep(p) /\ LocksOf(p)' /\ MeaningOf(p)'

LEMMA BusyStep ==
    ASSUME Sound, Running, NEW p \in Proc, ~Does(p, "drop"), Busy(p),
           Account', Tree'
    PROVE  Sound'
<1>1. /\ TypeOK /\ CodeType /\ Code /\ Counted /\ OneEntry /\ FreeOnlyDropped
  BY DEF Sound
<1>2. Running' /\ NoUnlinkPanic'
  BY DEF Busy, Running, NoUnlinkPanic
<1>3. TypeOK'
  <2>1. icache' \in [Entry -> [inum : 0..NINODES, ref : Nat, valid : BOOLEAN]]
    BY DEF Busy, Grown, Caches, CacheEntry
  <2>2. disk' \in [Inum -> [type : {"none", "file", "dir", "sym"}, nlink : Nat,
                     ents : [Name -> 0..NINODES],
                     target : {<< >>} \cup UNION {Path[q] : q \in Proc}]]
    BY DEF Busy, Disks, Inodes, Targets
  <2>3. /\ lock' \in [Entry -> Proc \cup {None}]
        /\ fd' \in [Proc -> Entry \cup {None}] /\ cwd' \in [Proc -> Entry]
        /\ lost' \in [Entry -> Nat]
    BY DEF Busy, Pointer
  <2>4. panic' = "none"
    BY DEF Busy
  <2> QED
    BY <2>1, <2>2, <2>3, <2>4, Zenon DEF TypeOK
<1>4. CodeType' /\ Code'
  BY <1>1, CodeStep DEF Busy
<1>5. Counted'
  BY <1>1, CountedStep DEF Busy, Grown
<1>6. OneEntry'
  BY <1>1, GrownOneEntry DEF Busy
<1>7. FreeOnlyDropped'
  <2>1. \A i \in Inum : disk'[i].type = "none" => disk[i].type = "none"
    BY DEF Busy, TypesStay
  <2> QED
    BY <1>1, <1>2, <2>1, GrownFreeOnlyDropped DEF Busy
<1>8. Undisturbed(p)
  BY GrownUndisturbed DEF Busy
<1>9. \A q \in Proc : LocksOf(q)' /\ MeaningOf(q)'
  <2> TAKE q \in Proc
  <2>1. CASE q = p
    BY <2>1 DEF Busy
  <2>2. CASE q # p
    BY <1>8, <2>2, OthersLocks, OthersMeaning DEF Busy
  <2> QED
    BY <2>1, <2>2
<1> QED
  BY <1>2, <1>3, <1>4, <1>5, <1>6, <1>7, <1>9 DEF Sound

\* A step that leaves the disk as it is, and no link pending that was not.
LEMMA QuietStep ==
    ASSUME Sound, Running, NEW p \in Proc, ~Does(p, "drop"),
           disk' = disk, Busy(p), \A i : PendOf(p, i)' = PendOf(p, i)
    PROVE  Sound'
<1>1. Account /\ Tree /\ Alone(p) /\ Grown(icache') /\ TypesStay
  BY DEF Sound, Busy
<1>2. Tree'
  BY <1>1 DEF Tree
<1>3. Undisturbed(p)
  BY <1>1, GrownUndisturbed
<1>4. ASSUME NEW i PROVE Cardinality(Pending(i)') = Cardinality(Pending(i))
  <2>1. /\ Cardinality(Pending(i)) \in Nat /\ Cardinality(Pending(i)') \in Nat
        /\ Cardinality(Pending(i)') + PendOf(p, i)
             = Cardinality(Pending(i)) + PendOf(p, i)'
    BY <1>1, <1>3, PendingStep
  <2>2. PendOf(p, i)' = PendOf(p, i) /\ PendOf(p, i) \in Nat
    BY DEF PendOf, One
  <2> QED
    BY <2>1, <2>2
<1>5. Account'
  <2> SUFFICES ASSUME NEW i \in Inum, disk[i].type # "none"
               PROVE  disk[i].nlink = Entries(i)' + One(i = root)
                        + Cardinality(Pending(i)')
                        + (IF disk[i].type = "dir" THEN Subdirs(i)' ELSE 0)
    BY DEF Account
  <2>1. Entries(i)' = Entries(i) /\ Subdirs(i)' = Subdirs(i)
    BY DEF Entries, Subdirs
  <2>2. disk[i].nlink = Entries(i) + One(i = root) + Cardinality(Pending(i))
                        + (IF disk[i].type = "dir" THEN Subdirs(i) ELSE 0)
    BY <1>1 DEF Account
  <2> QED
    BY <1>4, <2>1, <2>2
<1> QED
  BY <1>2, <1>5, BusyStep

\* A call that ends the run.
LEMMA PanicStep ==
    ASSUME Sound, panic' \in {"iget: no inodes", "ialloc: no inodes", "no target"},
           UNCHANGED <<disk, icache, lock, todo, onfail, reg, fd, cwd, lost>>
    PROVE  Sound'
<1>1. TypeOK'
  BY DEF Sound, TypeOK
<1>2. CodeType'
  BY DEF Sound, CodeType
<1>3. NoUnlinkPanic' /\ ~Running'
  BY DEF NoUnlinkPanic, Running
<1> QED
  BY <1>1, <1>2, <1>3 DEF Sound

-----------------------------------------------------------------------------
(* The code of p before and after a step *)

\* p is not putting a pointer.
Coding(p) == todo[p] # << >> => ~IsPut(Head(todo[p]))

LEMMA CodingFacts ==
    ASSUME Sound, Running, NEW p \in Proc, Coding(p)
    PROVE  /\ todo[p] \in Seq(Instr) /\ Plain(todo[p])
           /\ onfail[p] \in Seq(Instr) /\ Plain(onfail[p])
           /\ Bare(todo[p]) = todo[p] /\ \A e : Puts(todo[p], e) = 0
           /\ Fits(todo[p], onfail[p], reg[p])
           /\ todo[p] # << >> => /\ Head(todo[p]) \in Instr
                                 /\ Rest(p) \in Seq(Instr) /\ Plain(Rest(p))
           /\ ~Does(p, "drop")
<1>1. CodeType /\ CodeOf(todo[p], onfail[p], reg[p])
  BY DEF Sound, Code
<1>2. todo[p] \in Seq(Instr) /\ onfail[p] \in Seq(Instr)
  BY <1>1, RegisterType
<1>3. Bare(todo[p]) = todo[p]
  BY DEF Coding, Bare
<1>4. Plain(todo[p]) /\ Plain(onfail[p]) /\ Fits(todo[p], onfail[p], reg[p])
  BY <1>1, <1>3 DEF CodeOf
<1>5. \A e : Puts(todo[p], e) = 0
  BY <1>2, <1>4, PlainFacts
<1>6. todo[p] # << >> => /\ Head(todo[p]) \in Instr
                         /\ Rest(p) \in Seq(Instr) /\ Plain(Rest(p))
  BY <1>2, <1>4, PlainFacts, Uncons DEF Rest
<1>7. ~Does(p, "drop")
  BY DEF Does, Coding, IsPut
<1> QED
  BY <1>2, <1>3, <1>4, <1>5, <1>6, <1>7

\* The pointers are balanced if those kept and those to be put are.
LEMMA BalanceBy ==
    ASSUME Sound, Running, NEW p \in Proc, Coding(p), icache' \in Caches,
           lost' \in [Entry -> Nat], CodeType',
           \A e \in Entry :
               icache'[e].ref + lost[e] + Kept(p, e)
                   = icache[e].ref + lost'[e] + (Kept(p, e)' + Puts(todo'[p], e))
    PROVE  Balance(p)
<1> SUFFICES ASSUME NEW e \in Entry
             PROVE  icache'[e].ref + lost[e] + Pointers(p, e)
                        = icache[e].ref + lost'[e] + Pointers(p, e)'
  BY DEF Balance
<1>1. Pointers(p, e) = Kept(p, e) + Puts(todo[p], e) /\ Kept(p, e) \in Nat
  BY PointersSplit DEF Sound
<1>2. Puts(todo[p], e) = 0
  BY CodingFacts
<1>3. Pointers(p, e) = Kept(p, e)
  BY <1>1, <1>2
<1>4. Pointers(p, e)' = Kept(p, e)' + Puts(todo'[p], e)
  BY DEF Pointers, Kept, Puts
<1> QED
  BY <1>3, <1>4

\* The code after a step, with nothing to put or with a pointer in front.
LEMMA CodePlain ==
    ASSUME NEW k \in Seq(Instr), Plain(k), NEW b, Plain(b), NEW r, Fits(k, b, r),
           r.dp # None => r.name \in Name
    PROVE  CodeOf(k, b, r) /\ Bare(k) = k /\ \A e : Puts(k, e) = 0
  BY PlainFacts DEF CodeOf

LEMMA CodePut ==
    ASSUME NEW k \in Seq(Instr), Plain(k), NEW b, Plain(b), NEW r, Fits(k, b, r),
           r.dp # None => r.name \in Name, NEW e \in Entry
    PROVE  /\ CodeOf(PutThen(e, k), b, r) /\ Bare(PutThen(e, k)) = k
           /\ PutThen(e, k) \in Seq(Instr)
           /\ \A f : Puts(PutThen(e, k), f) = One(e = f)
  BY PutFirst DEF CodeOf

\* Pends, Doing and LocksOf in terms of the code.
PendsIn(s, b) ==
    \/ At(s, "linknew") \/ At(s, "linkbad") \/ At(s, "removed")
    \/ /\ At(s, "walk") \/ At(s, "look") \/ At(s, "giveup")
       /\ Last(b, "linkbad")
LockFree(s) ==
    /\ ~At(s, "remove") /\ ~At(s, "giveup") /\ ~At(s, "made")
    /\ ~At(s, "removed") /\ ~At(s, "write")

LEMMA PendsInCode ==
    ASSUME NEW p \in Proc
    PROVE  /\ Pends(p) <=> PendsIn(Bare(todo[p]), onfail[p])
           /\ Pends(p)' <=> PendsIn(Bare(todo'[p]), onfail'[p])
           /\ LockFree(Bare(todo'[p])) => LocksOf(p)'
  BY DEF Pends, PendsIn, Doing, LocksOf, LockFree

\* What the pointers of p mean after a step that leaves the disk as it is.
LEMMA QuietOwn ==
    ASSUME Sound, Running, NEW p \in Proc, disk' = disk, Grown(icache'),
           CodeType', ~Doing(p, "removed"), NEW s, s = Bare(todo'[p]),
           ~At(s, "remove"), PendsIn(s, onfail'[p]) <=> Pends(p),
           Pends(p) => reg'[p].ip = reg[p].ip,
           \A e \in Entry : reg'[p].dp = e => icache[e].ref > 0 /\ IsDir(e)
    PROVE  MeaningOf(p)' /\ \A i : PendOf(p, i)' = PendOf(p, i)
<1>1. CodeType /\ Code /\ MeaningOf(p)
  BY DEF Sound
<1>2. Pends(p)' <=> Pends(p)
  BY PendsInCode
<1>3. ASSUME NEW e \in Entry, icache[e].ref > 0
      PROVE  icache'[e].inum = icache[e].inum /\ (IsDir(e)' <=> IsDir(e))
  BY <1>3 DEF Grown, IsDir, Inode
<1>4. ASSUME Pends(p)
      PROVE  /\ reg[p].ip \in Entry /\ icache[reg[p].ip].ref > 0
             /\ icache'[reg[p].ip].inum = icache[reg[p].ip].inum
             /\ reg'[p].ip = reg[p].ip
  <2>1. reg[p].ip \in Entry
    BY <1>1, <1>4, WhatIsHeld
  <2>2. icache[reg[p].ip].ref > 0
    BY <2>1, HeldIsAlive DEF Holds
  <2> QED
    BY <1>3, <1>4, <2>1, <2>2
<1>5. \A i : PendOf(p, i)' = PendOf(p, i)
  BY <1>2, <1>4 DEF PendOf
<1>6. reg'[p].dp # None => IsDir(reg[p].dp)'
  <2> SUFFICES ASSUME reg'[p].dp # None
               PROVE  IsDir(reg[p].dp)'
    OBVIOUS
  <2>1. reg'[p].dp \in Entry
    BY RegisterType DEF CodeType, Registers, Pointer
  <2>2. PICK e \in Entry : reg'[p].dp = e
    BY <2>1
  <2>3. IsDir(e)' <=> IsDir(reg[p].dp)'
    BY <2>2 DEF IsDir, Inode
  <2> QED
    BY <1>3, <2>2, <2>3
<1>7. Pends(p)' => ~IsDir(reg[p].ip)'
  <2> SUFFICES ASSUME Pends(p)'
               PROVE  ~IsDir(reg[p].ip)'
    OBVIOUS
  <2>1. Pends(p)
    BY <1>2
  <2>2. PICK e \in Entry : reg[p].ip = e
    BY <1>4, <2>1
  <2>3. ~IsDir(e) /\ reg'[p].ip = e
    BY <1>1, <1>4, <2>1, <2>2 DEF MeaningOf
  <2>4. IsDir(e)' <=> IsDir(reg[p].ip)'
    BY <2>3 DEF IsDir, Inode
  <2> QED
    BY <1>3, <1>4, <2>1, <2>2, <2>3, <2>4
<1>8. ~Doing(p, "remove")'
  BY DEF Doing
<1> QED
  BY <1>5, <1>6, <1>7, <1>8 DEF MeaningOf

\* What walks lead to.
Goes(k, b, ip) == (WithIp(k, b) /\ ip = None) \/ WithDp(k, b, ip)

LEMMA WalkCode ==
    ASSUME NEW k, NEW b, NEW ip, Goes(k, b, ip)
    PROVE  /\ PendsIn(k, b) <=> Last(b, "linkbad")
           /\ LockFree(k) /\ LockFree(b)
           /\ ~At(k, "remove") /\ ~At(b, "remove")
           /\ WithIp(k, b) => ~Last(b, "linkbad")
<1>1. CASE WithIp(k, b)
  BY <1>1 DEF WithIp, Linking, PendsIn, LockFree, At, Last
<1>2. CASE WithDp(k, b, ip)
  <2>1. CASE Last(k, "unlink") /\ b = << >>
    BY <2>1 DEF WithIp, Linking, PendsIn, LockFree, At, Last
  <2>2. CASE At(k, "create") /\ Making(Head(k)[2], Tail(k), b)
    BY <2>2 DEF WithIp, Linking, PendsIn, LockFree, At, Last, Making, Retry
  <2>3. CASE Last(k, "linknew") /\ Last(b, "linkbad")
    BY <2>3 DEF WithIp, Linking, PendsIn, LockFree, At, Last
  <2> QED
    BY <1>2, <2>1, <2>2, <2>3 DEF WithDp
<1> QED
  BY <1>1, <1>2 DEF Goes

\* A walk that fails.
LEMMA BadCode ==
    ASSUME NEW k, NEW b, NEW r, NEW n, n = << >>, Goes(k, b, r.ip),
           r.w = None, r.dp = None
    PROVE  /\ Fits(b, n, r)
           /\ PendsIn(b, n) <=> Last(b, "linkbad")
<1>1. CASE b = << >> /\ r.ip = None
  BY <1>1 DEF Fits, NoneHeld, PendsIn, At, Last
<1>2. CASE Last(b, "linkbad") /\ r.ip # None
  BY <1>2 DEF Fits, IpHeld, PendsIn, At, Last
<1>3. CASE Retry(b) /\ r.ip = None
  <2>1. WithDp(Tail(b), n, r.ip)
    BY <1>3 DEF WithDp, Retry, Making
  <2>2. Walking(b, n, r)
    BY <1>3, <2>1 DEF Walking, Retry
  <2>3. Fits(b, n, r)
    BY <1>3, <2>2 DEF Fits, Retry
  <2>4. ~PendsIn(b, n) /\ ~Last(b, "linkbad")
    BY <1>3 DEF PendsIn, Retry, At, Last
  <2> QED
    BY <2>3, <2>4
<1>4. \/ b = << >> /\ r.ip = None
      \/ Last(b, "linkbad") /\ r.ip # None
      \/ Retry(b) /\ r.ip = None
  BY DEF Goes, WithIp, WithDp, Making
<1> QED
  BY <1>1, <1>2, <1>3, <1>4

\* A step that leaves the disk as it is, in terms of what it does to the code
\* and the pointers of p.
LEMMA QuietBy ==
    ASSUME Sound, Running, NEW p \in Proc, Coding(p), ~Doing(p, "removed"),
           disk' = disk, panic' = "none",
           lock' \in [Entry -> Proc \cup {None}], LockStep(p),
           fd' \in [Proc -> Pointer], cwd' \in [Proc -> Entry],
           lost' \in [Entry -> Nat], CodeType', Alone(p),
           Grown(icache'), Alive(icache', disk),
           \A e \in Entry :
               icache'[e].ref + lost[e] + Kept(p, e)
                   = icache[e].ref + lost'[e] + (Kept(p, e)' + Puts(todo'[p], e)),
           CodeOf(todo[p], onfail[p], reg[p])',
           LocksOf(p)', ~At(Bare(todo'[p]), "remove"),
           PendsIn(Bare(todo'[p]), onfail'[p]) <=> Pends(p),
           Pends(p) => reg'[p].ip = reg[p].ip,
           \A e \in Entry : reg'[p].dp = e => icache[e].ref > 0 /\ IsDir(e)
    PROVE  Sound'
<1>1. TypeOK /\ CodeType
  BY DEF Sound
<1>2. icache' \in Caches
  BY DEF Grown
<1>3. Balance(p)
  BY <1>2, BalanceBy
<1>4. MeaningOf(p)' /\ \A i : PendOf(p, i)' = PendOf(p, i)
  BY QuietOwn
<1>5. TypesStay /\ Alive(icache', disk')
  BY DEF TypesStay
<1>6. disk' \in Disks
  BY <1>1, DiskType
<1>7. Busy(p)
  BY <1>3, <1>4, <1>5, <1>6 DEF Busy
<1>8. ~Does(p, "drop")
  BY CodingFacts
<1> QED
  BY <1>4, <1>7, <1>8, QuietStep

\* Records of pointers.
LEMMA RegisterFacts ==
    ASSUME CodeType, NEW p \in Proc
    PROVE  /\ reg[p] \in Registers
           /\ \A r \in Registers :
                 /\ [reg EXCEPT ![p] = r] \in [Proc -> Registers]
                 /\ [reg EXCEPT ![p] = r][p] = r
                 /\ \A q \in Proc : q # p => [reg EXCEPT ![p] = r][q] = reg[q]
  BY DEF CodeType

\* What a walk is to be followed by.
Handing(p, parent, k, bad) ==
    /\ k \in Seq(Instr) /\ Plain(k) /\ bad \in Seq(Instr) /\ Plain(bad)
    /\ reg[p].dp = None
    /\ \/ parent = FALSE /\ WithIp(k, bad) /\ reg[p].ip = None
       \/ parent = TRUE /\ WithDp(k, bad, reg[p].ip)
    /\ Pends(p) <=> Last(bad, "linkbad")
    /\ ~Doing(p, "removed")

\* The cache as namex leaves it in w.
LEMMA LookRead ==
    ASSUME Sound, Running, NEW p \in Proc, NEW w \in Entry, Holds(p, w),
           NEW c \in {0, 1}, NEW ic,
           \/ c = 1 /\ ic = Dup(icache, w)
           \/ c = 0 /\ ic = icache,
           NEW m, m = Seen(ic, w)
    PROVE  /\ Grown(m) /\ Alive(m, disk) /\ NoneTaken(m)
           /\ \A f \in Entry : /\ m[f].ref = icache[f].ref + (IF f = w THEN c ELSE 0)
                               /\ m[f].inum = icache[f].inum
<1>1. icache \in Caches /\ TypeOK
  BY CacheType DEF Sound
<1>2. /\ icache[w].ref \in Nat /\ icache[w].ref >= 1
      /\ icache[w].inum \in Inum /\ Inode(w).type # "none"
  BY HeldIsAlive
<1>3. /\ ic \in Caches /\ ic[w].ref = icache[w].ref + c
      /\ ic[w].inum = icache[w].inum
      /\ \A f \in Entry : f # w => ic[f] = icache[f]
  BY <1>1, <1>2, DupOne
<1>4. /\ m \in Caches /\ m[w].ref = ic[w].ref /\ m[w].inum = ic[w].inum
      /\ \A f \in Entry : f # w => m[f] = ic[f]
  BY <1>3, ReadOne
<1>5. /\ m[w].ref = icache[w].ref + c /\ m[w].inum = icache[w].inum
      /\ \A f \in Entry : f # w => m[f] = icache[f]
  BY <1>3, <1>4
<1>6. icache[w].ref > 0 /\ c \in Nat /\ disk[icache[w].inum].type # "none"
  BY <1>2 DEF Inode
<1> QED
  BY <1>1, <1>2, <1>4, <1>5, <1>6, GrownMore

\* The registers after an element of a path.
LEMMA LookRegisters ==
    ASSUME NEW r \in Registers, NEW w \in Pointer, NEW ip \in Pointer,
           NEW dp \in Pointer, NEW n \in Name \cup {None}
    PROVE  /\ [r EXCEPT !.w = w] \in Registers
           /\ [r EXCEPT !.w = w, !.ip = ip] \in Registers
           /\ [r EXCEPT !.w = w, !.dp = dp, !.name = n] \in Registers
<1>1. [r EXCEPT !.w = w] \in Registers
  BY DEF Registers
<1>2. [r EXCEPT !.w = w, !.ip = ip] \in Registers
  BY DEF Registers
<1>3. [r EXCEPT !.w = w, !.dp = dp, !.name = n] \in Registers
  BY DEF Registers
<1> QED
  BY <1>1, <1>2, <1>3

\* The pointers in the registers of p.
InRegs(r, e) == One(r.w = e) + One(r.ip = e) + One(r.dp = e)

\* The variables of the code after a step of p.
LEMMA OwnStep ==
    ASSUME CodeType, NEW p \in Proc, NEW t, t \in Seq(Instr),
           todo' = [todo EXCEPT ![p] = t],
           NEW b, b \in Seq(Instr), onfail' = [onfail EXCEPT ![p] = b],
           reg' \in [Proc -> Registers],
           \A q \in Proc : q # p =>
               reg'[q] = reg[q] /\ fd'[q] = fd[q] /\ cwd'[q] = cwd[q]
    PROVE  CodeType' /\ Alone(p) /\ todo'[p] = t /\ onfail'[p] = b
<1>1. /\ todo'[p] = t /\ onfail'[p] = b
      /\ todo' \in [Proc -> Seq(Instr)] /\ onfail' \in [Proc -> Seq(Instr)]
      /\ \A q \in Proc : q # p => todo'[q] = todo[q] /\ onfail'[q] = onfail[q]
  BY DEF CodeType
<1> QED
  BY <1>1 DEF CodeType, Alone

\* A step that leaves the disk, the descriptors and the directories as they are.
LEMMA StepTo ==
    ASSUME Sound, Running, NEW p \in Proc, Coding(p), ~Doing(p, "removed"),
           panic' = "none", disk' = disk, fd' = fd, cwd' = cwd, lost' = lost,
           lock' \in [Entry -> Proc \cup {None}], LockStep(p),
           CodeType', Alone(p), Grown(icache'), Alive(icache', disk),
           \A e \in Entry :
               icache'[e].ref + InRegs(reg[p], e)
                   = icache[e].ref + (InRegs(reg'[p], e) + Puts(todo'[p], e)),
           CodeOf(todo'[p], onfail'[p], reg'[p]),
           LockFree(Bare(todo'[p])) \/ LocksOf(p)',
           ~At(Bare(todo'[p]), "remove"),
           PendsIn(Bare(todo'[p]), onfail'[p]) <=> Pends(p),
           Pends(p) => reg'[p].ip = reg[p].ip,
           \A e \in Entry : reg'[p].dp = e => icache[e].ref > 0 /\ IsDir(e)
    PROVE  Sound'
<1>1. TypeOK
  BY DEF Sound
<1>3. fd' \in [Proc -> Pointer] /\ cwd' \in [Proc -> Entry]
      /\ lost' \in [Entry -> Nat]
  BY <1>1 DEF TypeOK, Pointer
<1>4. ASSUME NEW e \in Entry
      PROVE  icache'[e].ref + lost[e] + Kept(p, e)
                = icache[e].ref + lost'[e] + (Kept(p, e)' + Puts(todo'[p], e))
  <2>1. icache \in Caches /\ icache' \in Caches
    BY <1>1, CacheType DEF Grown
  <2>2. /\ icache[e].ref \in Nat /\ icache'[e].ref \in Nat
        /\ lost[e] \in Nat /\ lost'[e] = lost[e]
    BY <1>1, <2>1 DEF Caches, CacheEntry, TypeOK
  <2>3. Puts(todo'[p], e) \in Nat
    BY PutsType DEF CodeType
  <2>4. icache'[e].ref + InRegs(reg[p], e)
           = icache[e].ref + (InRegs(reg'[p], e) + Puts(todo'[p], e))
    OBVIOUS
  <2>5. PICK a \in Nat : a = One(fd[p] = e) + One(cwd[p] = e)
    BY DEF One
  <2>6. PICK x \in Nat : x = InRegs(reg[p], e)
    BY DEF One, InRegs
  <2>7. PICK y \in Nat : y = InRegs(reg'[p], e)
    BY DEF One, InRegs
  <2>8. Kept(p, e) = a + x
    BY <2>5, <2>6 DEF Kept, InRegs, One
  <2>9. Kept(p, e)' = a + y
    BY <2>5, <2>7 DEF Kept, InRegs, One
  <2>10. PICK m \in Nat, n \in Nat, l \in Nat, u \in Nat :
            /\ m = icache'[e].ref /\ n = icache[e].ref /\ l = lost[e]
            /\ u = Puts(todo'[p], e)
    BY <2>2, <2>3
  <2>11. m + x = n + (y + u)
    BY <2>4, <2>6, <2>7, <2>10
  <2>12. m + l + (a + x) = n + l + ((a + y) + u)
    BY <2>11
  <2> QED
    BY <2>2, <2>8, <2>9, <2>10, <2>12
<1>5. LocksOf(p)'
  BY PendsInCode
<1>6. CodeOf(todo[p], onfail[p], reg[p])'
  BY DEF CodeOf
<1> HIDE DEF Running
<1> QED
  BY <1>3, <1>4, <1>5, <1>6, QuietBy

\* A round of namex leaves the disk, the locks and the descriptors as they are.
LEMMA RoundTo ==
    ASSUME Sound, Running, NEW p \in Proc, Coding(p), ~Doing(p, "removed"),
           panic' = "none", disk' = disk, lock' = lock,
           fd' = fd, cwd' = cwd, lost' = lost,
           CodeType', Alone(p), Grown(icache'), Alive(icache', disk),
           \A e \in Entry :
               icache'[e].ref + InRegs(reg[p], e)
                   = icache[e].ref + (InRegs(reg'[p], e) + Puts(todo'[p], e)),
           CodeOf(todo'[p], onfail'[p], reg'[p]), LockFree(Bare(todo'[p])),
           ~At(Bare(todo'[p]), "remove"),
           PendsIn(Bare(todo'[p]), onfail'[p]) <=> Pends(p),
           Pends(p) => reg'[p].ip = reg[p].ip,
           \A e \in Entry : reg'[p].dp = e => icache[e].ref > 0 /\ IsDir(e)
    PROVE  Sound'
<1>1. lock' \in [Entry -> Proc \cup {None}] /\ LockStep(p)
  BY DEF Sound, TypeOK, LockStep
<1> QED
  BY <1>1, StepTo

\* The pointers while namex has w.
LEMMA LookCount ==
    ASSUME Sound, Running, NEW p \in Proc, NEW w \in Entry, Holds(p, w),
           NEW c \in {0, 1}, NEW ic,
           \/ c = 1 /\ ic = Dup(icache, w) /\ reg[p].w = None
           \/ c = 0 /\ ic = icache /\ reg[p].w = w,
           reg[p].dp = None, NEW m, m = Seen(ic, w)
    PROVE  \A e \in Entry :
              m[e].ref + InRegs(reg[p], e)
                  = icache[e].ref + One(w = e) + One(reg[p].ip = e)
<1> SUFFICES ASSUME NEW e \in Entry
             PROVE  m[e].ref + InRegs(reg[p], e)
                        = icache[e].ref + One(w = e) + One(reg[p].ip = e)
  OBVIOUS
<1>1. m[e].ref = icache[e].ref + (IF e = w THEN c ELSE 0)
  BY LookRead
<1>2. icache[e].ref \in Nat
  BY CacheType DEF Sound, Caches, CacheEntry
<1>3. None \notin Entry
  BY NoneIsNoEntry
<1>4. InRegs(reg[p], e) = One(reg[p].w = e) + One(reg[p].ip = e)
  BY <1>3 DEF InRegs, One
<1>5. One(reg[p].w = e) + (IF e = w THEN c ELSE 0) = One(w = e)
  BY <1>3 DEF One
<1>x. PICK x \in Nat : x = One(reg[p].w = e)
  BY DEF One
<1>y. PICK y \in Nat : y = One(reg[p].ip = e)
  BY DEF One
<1>z. PICK z \in Nat : z = One(w = e)
  BY DEF One
<1>n. PICK n \in Nat : n = icache[e].ref
  BY <1>2
<1>u. PICK u \in Nat : u = (IF e = w THEN c ELSE 0)
  OBVIOUS
<1>6. /\ x = One(reg[p].w = e) /\ y = One(reg[p].ip = e) /\ z = One(w = e)
      /\ n = icache[e].ref /\ u = (IF e = w THEN c ELSE 0)
  BY <1>x, <1>y, <1>z, <1>n, <1>u
<1>7. m[e].ref = n + u /\ InRegs(reg[p], e) = x + y /\ x + u = z
  BY <1>1, <1>4, <1>5, <1>6
<1>8. (n + u) + (x + y) = n + z + y
  BY <1>7
<1>9. m[e].ref + InRegs(reg[p], e) = n + z + y
  BY <1>7, <1>8
<1>10. icache[e].ref = n /\ One(w = e) = z /\ One(reg[p].ip = e) = y
  BY <1>6
<1> QED
  BY <1>9, <1>10

\* The inode that a name in a directory leads to.
LEMMA NextInode ==
    ASSUME Sound, Running, NEW w \in Entry, icache[w].inum \in Inum,
           NEW n \in Name
    PROVE  /\ Inode(w) \in Inodes /\ Inode(w).ents[n] \in 0..NINODES
           /\ Inode(w).ents[n] # 0 =>
                 /\ Inode(w).ents[n] \in Inum
                 /\ disk[Inode(w).ents[n]].type # "none"
                 /\ IsDir(w) /\ Inode(w).ents[n] # icache[w].inum
<1>1. disk \in Disks /\ Tree
  BY DiskType DEF Sound
<1>2. Inode(w) \in Inodes
  BY <1>1 DEF Disks, Inode
<1>3. Inode(w).ents[n] \in 0..NINODES
  BY <1>2 DEF Inodes
<1>4. NINODES \in Nat
  BY FsConstants
<1>5. Inode(w).ents[n] # 0 => Inode(w).ents[n] \in Inum
  BY <1>3, <1>4 DEF Inum
<1> QED
  BY <1>1, <1>2, <1>3, <1>5 DEF Tree, Inode, IsDir

\* The rest of a path.
LEMMA WayTail ==
    ASSUME NEW s \in Way
    PROVE  Head(s) \in Name /\ (Len(s) # 1 => Tail(s) \in Way)
<1>1. s \in Seq(Name) /\ s # << >>
  BY DEF Way
<1>2. Head(s) \in Name /\ Tail(s) \in Seq(Name) /\ Len(Tail(s)) = Len(s) - 1
  BY <1>1
<1>3. Len(s) # 1 => Tail(s) # << >>
  <2>0. Len(<< >>) = 0
    OBVIOUS
  <2>1. Tail(s) = << >> => Len(Tail(s)) = 0
    BY <2>0, Zenon
  <2>2. Len(s) \in Nat
    BY <1>1
  <2> QED
    BY <1>2, <2>1, <2>2
<1>4. Len(s) # 1 => Tail(s) \in Seq(Name) /\ Tail(s) \notin {<< >>}
  BY <1>2, <1>3
<1>5. Len(s) # 1 => Tail(s) \in Way
  BY <1>4 DEF Way
<1> QED
  BY <1>2, <1>5

\* The two places of namex in the code.
LookThen(path, parent, k) == <<<<"look", path, parent>>>> \o k

LEMMA LookCode ==
    ASSUME NEW path \in Way, NEW parent \in BOOLEAN, NEW k \in Seq(Instr),
           Plain(k), NEW bad, Plain(bad), NEW r, r.w # None, r.dp = None,
           \/ parent = FALSE /\ WithIp(k, bad) /\ r.ip = None
           \/ parent = TRUE /\ WithDp(k, bad, r.ip),
           NEW t, t = LookThen(path, parent, k)
    PROVE  /\ t \in Seq(Instr) /\ Plain(t)
           /\ Fits(t, bad, r) /\ LockFree(t) /\ ~At(t, "remove")
           /\ PendsIn(t, bad) <=> Last(bad, "linkbad")
<1> DEFINE x == <<"look", path, parent>>
<1>1. x \in Instr /\ ~IsPut(x)
  BY Written1 DEF IsPut
<1>2. x[1] = "look" /\ x[3] = parent
  OBVIOUS
<1>a. t = <<x>> \o k
  BY DEF LookThen
<1> HIDE DEF x
<1>3. t \in Seq(Instr) /\ t # << >> /\ Head(t) = x /\ Tail(t) = k
  BY <1>1, <1>a, Cons
<1>4. Plain(t)
  BY <1>1, <1>a, PlainCons
<1>5. Walking(t, bad, r)
  BY <1>2, <1>3 DEF Walking
<1>6. At(t, "look") /\ \A what : At(t, what) => what = "look"
  BY <1>2, <1>3 DEF At
<1>7. Fits(t, bad, r)
  BY <1>5, <1>6 DEF Fits
<1>8. LockFree(t) /\ ~At(t, "remove")
  BY <1>2, <1>3 DEF LockFree, At
<1>9. PendsIn(t, bad) <=> Last(bad, "linkbad")
  BY <1>2, <1>3 DEF PendsIn, At
<1> QED
  BY <1>3, <1>4, <1>7, <1>8, <1>9

\* A round of namex in a directory that p has a pointer to.
LEMMA LookStep ==
    ASSUME Sound, Running, NEW p \in Proc, Coding(p),
           NEW w \in Entry, Holds(p, w), NEW c \in {0, 1}, NEW ic,
           \/ c = 1 /\ ic = Dup(icache, w) /\ reg[p].w = None
           \/ c = 0 /\ ic = icache /\ reg[p].w = w,
           NEW path \in Way, NEW parent, NEW k, NEW bad,
           Handing(p, parent, k, bad),
           Look(p, w, ic, path, parent, k, bad)
    PROVE  Sound'
<1> DEFINE next == Inode(w).ents[Head(path)]
           g == GetEntry(next)
           m == Seen(ic, w)
           r == reg'[p]
<1>1. /\ k \in Seq(Instr) /\ Plain(k) /\ bad \in Seq(Instr) /\ Plain(bad)
      /\ reg[p].dp = None
      /\ \/ parent = FALSE /\ WithIp(k, bad) /\ reg[p].ip = None
         \/ parent = TRUE /\ WithDp(k, bad, reg[p].ip)
      /\ Pends(p) <=> Last(bad, "linkbad")
      /\ ~Doing(p, "removed")
  BY DEF Handing
<1>2. Goes(k, bad, reg[p].ip)
  BY <1>1 DEF Goes
<1>3. /\ PendsIn(k, bad) <=> Last(bad, "linkbad")
      /\ LockFree(k) /\ LockFree(bad)
      /\ ~At(k, "remove") /\ ~At(bad, "remove")
      /\ WithIp(k, bad) => ~Last(bad, "linkbad")
  BY <1>2, WalkCode
<1>4. TypeOK /\ CodeType /\ OneEntry /\ None \notin Entry
  BY NoneIsNoEntry DEF Sound
<1>5. icache[w].ref > 0 /\ icache[w].inum \in Inum
  <2>1. icache[w].ref \in Nat /\ icache[w].ref >= 1 /\ icache[w].inum \in Inum
    BY HeldIsAlive
  <2> QED
    BY <2>1
<1>6. Head(path) \in Name /\ (Len(path) # 1 => Tail(path) \in Way)
  BY WayTail
<1>7. /\ next \in 0..NINODES
      /\ next # 0 => next \in Inum /\ disk[next].type # "none"
  BY <1>5, <1>6, NextInode
<1>8. /\ Grown(m) /\ Alive(m, disk) /\ NoneTaken(m)
      /\ \A e \in Entry :
            m[e].ref + InRegs(reg[p], e)
                = icache[e].ref + One(w = e) + One(reg[p].ip = e)
  <2>1. \A e \in Entry :
            m[e].ref + InRegs(reg[p], e)
                = icache[e].ref + One(w = e) + One(reg[p].ip = e)
    BY <1>1, LookCount
  <2>2. Grown(m) /\ Alive(m, disk) /\ NoneTaken(m)
    BY LookRead
  <2> QED
    BY <2>1, <2>2
<1>9. disk' = disk /\ lock' = lock /\ fd' = fd /\ cwd' = cwd /\ lost' = lost
  BY DEF Look
<1>10. panic = "none"
  BY DEF Running
<1>11. reg[p] \in Registers /\ reg[p].ip \in Pointer
  BY <1>4, RegisterFacts, RegisterType
<1>12. ~CanGet(next) \/ ~IsDir(w) \/ next = 0 \/ g \in Entry
  BY <1>4, <1>7, Gotten
<1>13. \A e \in Entry, n \in Nat : icache[e].ref \in Nat /\ m[e].ref \in Nat
  BY <1>8, CacheType, <1>4 DEF Grown, Caches, CacheEntry
<1>14. CASE IsDir(w) /\ parent /\ Len(path) = 1
  <2>1. /\ icache' = m /\ todo' = [todo EXCEPT ![p] = k]
        /\ onfail' = [onfail EXCEPT ![p] = bad] /\ panic' = "none"
        /\ reg' = [reg EXCEPT ![p].w = None, ![p].dp = w, ![p].name = Head(path)]
    BY <1>10, <1>14 DEF Look, Then, Seen
  <2>2. /\ reg' \in [Proc -> Registers] /\ \A q \in Proc : q # p => reg'[q] = reg[q]
        /\ r.w = None /\ r.ip = reg[p].ip /\ r.dp = w /\ r.name = Head(path)
    BY <1>4, <1>6, <1>11, <2>1 DEF CodeType, Registers, Pointer
  <2> HIDE DEF r, m, g, next
  <2>3. WithDp(k, bad, r.ip) /\ DpHeld(r)
    BY <1>1, <1>14, <1>4, <2>2 DEF DpHeld
  <2>4. Fits(k, bad, r)
    BY <2>3 DEF Fits
  <2>5. CodeOf(k, bad, r) /\ Bare(k) = k /\ \A e : Puts(k, e) = 0
    BY <1>1, <1>6, <2>2, <2>4, CodePlain
  <2>6. ASSUME NEW e \in Entry
        PROVE  icache'[e].ref + InRegs(reg[p], e)
                  = icache[e].ref + (InRegs(r, e) + Puts(k, e))
    <3>1. InRegs(r, e) = One(w = e) + One(reg[p].ip = e)
      BY <1>4, <2>2 DEF InRegs, One
    <3>2. PICK x \in Nat, y \in Nat : x = One(w = e) /\ y = One(reg[p].ip = e)
      BY DEF One
    <3>3. m[e].ref + InRegs(reg[p], e) = icache[e].ref + x + y
      BY <1>8, <3>2
    <3>4. PICK b \in Nat : b = icache[e].ref
      BY <1>13
    <3>5. b + x + y = b + ((x + y) + 0)
      OBVIOUS
    <3> QED
      BY <2>1, <2>5, <3>1, <3>2, <3>3, <3>4, <3>5
  <2>7. \A e \in Entry : r.dp = e => icache[e].ref > 0 /\ IsDir(e)
    BY <1>5, <1>14, <2>2
  <2>8. Grown(icache') /\ Alive(icache', disk)
    BY <1>8, <2>1
  <2>p. /\ k \in Seq(Instr) /\ bad \in Seq(Instr) /\ panic' = "none"
        /\ todo' = [todo EXCEPT ![p] = k] /\ onfail' = [onfail EXCEPT ![p] = bad]
        /\ CodeOf(k, bad, r) /\ LockFree(Bare(k))
        /\ ~At(Bare(k), "remove") /\ (PendsIn(Bare(k), bad) <=> Pends(p))
    BY <1>1, <1>3, <2>1, <2>2, <2>5, <2>7
  <2>q. /\ CodeType' /\ Alone(p) /\ todo'[p] = k /\ onfail'[p] = bad
    BY <1>4, <1>9, <2>p, <2>2 DEF CodeType, Alone
  <2>r. /\ Pends(p) => reg'[p].ip = reg[p].ip
        /\ \A e \in Entry : reg'[p].dp = e => icache[e].ref > 0 /\ IsDir(e)
        /\ CodeOf(todo'[p], onfail'[p], reg'[p]) /\ LockFree(Bare(todo'[p]))
        /\ ~At(Bare(todo'[p]), "remove")
        /\ PendsIn(Bare(todo'[p]), onfail'[p]) <=> Pends(p)
    BY <2>p, <2>q, <2>2, <2>7 DEF r
  <2>s. \A e \in Entry :
             icache'[e].ref + InRegs(reg[p], e)
                 = icache[e].ref + (InRegs(reg'[p], e) + Puts(todo'[p], e))
    BY <2>q, <2>6 DEF r
  <2> QED
    BY <1>1, <1>9, <2>p, <2>q, <2>r, <2>s, <2>8, RoundTo
<1>15. CASE ~(IsDir(w) /\ parent /\ Len(path) = 1) /\ (~IsDir(w) \/ next = 0)
  <2>1. PICK n : n = << >>
    OBVIOUS
  <2>2. /\ icache' = m /\ todo' = [todo EXCEPT ![p] = PutThen(w, bad)]
        /\ onfail' = [onfail EXCEPT ![p] = n] /\ panic' = "none"
        /\ reg' = [reg EXCEPT ![p].w = None]
    BY <1>10, <1>15, <2>1 DEF Look, Then, Seen, PutThen
  <2>3. /\ reg' \in [Proc -> Registers] /\ \A q \in Proc : q # p => reg'[q] = reg[q]
        /\ r.w = None /\ r.ip = reg[p].ip /\ r.dp = None
    BY <1>1, <1>4, <1>6, <1>11, <2>2 DEF CodeType, Registers, Pointer
  <2> HIDE DEF r, m, g, next
  <2>4. n \in Seq(Instr) /\ Plain(n)
    BY <2>1, Nothing
  <2>5. Fits(bad, n, r) /\ (PendsIn(bad, n) <=> Last(bad, "linkbad"))
    BY <1>2, <2>1, <2>3, BadCode
  <2>6. /\ CodeOf(PutThen(w, bad), n, r) /\ Bare(PutThen(w, bad)) = bad
        /\ PutThen(w, bad) \in Seq(Instr)
        /\ \A f : Puts(PutThen(w, bad), f) = One(w = f)
    BY <1>1, <2>3, <2>4, <2>5, CodePut
  <2>7. ASSUME NEW e \in Entry
        PROVE  icache'[e].ref + InRegs(reg[p], e)
                  = icache[e].ref + (InRegs(r, e) + Puts(PutThen(w, bad), e))
    <3>1. InRegs(r, e) = One(reg[p].ip = e)
      BY <1>4, <2>3 DEF InRegs, One
    <3>2. PICK x \in Nat, y \in Nat : x = One(w = e) /\ y = One(reg[p].ip = e)
      BY DEF One
    <3>3. m[e].ref + InRegs(reg[p], e) = icache[e].ref + x + y
      BY <1>8, <3>2
    <3>4. icache[e].ref + x + y = icache[e].ref + (y + x)
      BY <1>13
    <3> QED
      BY <2>2, <2>6, <3>1, <3>2, <3>3, <3>4
  <2>8. \A e \in Entry : r.dp # e
    BY <1>4, <2>3
  <2>9. Grown(icache') /\ Alive(icache', disk)
    BY <1>8, <2>2
  <2>10. PICK t \in Seq(Instr) : t = PutThen(w, bad)
    BY <2>6
  <2>p. /\ t \in Seq(Instr) /\ n \in Seq(Instr) /\ panic' = "none"
        /\ todo' = [todo EXCEPT ![p] = t] /\ onfail' = [onfail EXCEPT ![p] = n]
        /\ CodeOf(t, n, r) /\ LockFree(Bare(t))
        /\ ~At(Bare(t), "remove") /\ (PendsIn(Bare(t), n) <=> Pends(p))
    BY <1>1, <1>3, <2>2, <2>3, <2>4, <2>5, <2>6, <2>10
  <2>q. /\ CodeType' /\ Alone(p) /\ todo'[p] = t /\ onfail'[p] = n
    BY <1>4, <1>9, <2>p, <2>3 DEF CodeType, Alone
  <2>r. /\ Pends(p) => reg'[p].ip = reg[p].ip
        /\ \A e \in Entry : reg'[p].dp = e => icache[e].ref > 0 /\ IsDir(e)
        /\ CodeOf(todo'[p], onfail'[p], reg'[p]) /\ LockFree(Bare(todo'[p]))
        /\ ~At(Bare(todo'[p]), "remove")
        /\ PendsIn(Bare(todo'[p]), onfail'[p]) <=> Pends(p)
    BY <2>p, <2>q, <2>3, <2>8 DEF r
  <2>s. \A e \in Entry :
             icache'[e].ref + InRegs(reg[p], e)
                 = icache[e].ref + (InRegs(reg'[p], e) + Puts(todo'[p], e))
    BY <2>q, <2>7, <2>10 DEF r
  <2> QED
    BY <1>1, <1>9, <2>p, <2>q, <2>r, <2>s, <2>9, RoundTo
<1>16. CASE /\ ~(IsDir(w) /\ parent /\ Len(path) = 1) /\ IsDir(w) /\ next # 0
            /\ ~CanGet(next)
  <2>1. /\ panic' = "iget: no inodes"
        /\ UNCHANGED <<disk, icache, lock, todo, onfail, reg, fd, cwd, lost>>
    BY <1>16 DEF Look
  <2> QED
    BY <2>1, PanicStep
<1>17. CASE /\ ~(IsDir(w) /\ parent /\ Len(path) = 1) /\ IsDir(w) /\ next # 0
            /\ CanGet(next)
  <2>1. /\ icache' = Get(m, next) /\ panic' = "none"
        /\ onfail' = [onfail EXCEPT ![p] = bad]
        /\ reg' = [reg EXCEPT
                     ![p].w = IF Len(path) = 1 THEN None ELSE g,
                     ![p].ip = IF Len(path) = 1 THEN g ELSE @]
        /\ todo' = [todo EXCEPT ![p] = <<<<"put", w>>>>
                      \o (IF Len(path) = 1 THEN << >>
                          ELSE <<<<"look", Tail(path), parent>>>>) \o k]
    BY <1>10, <1>17 DEF Look, Then, Seen
  <2>2. g \in Entry
    BY <1>12, <1>17
  <2>3. /\ reg' \in [Proc -> Registers] /\ \A q \in Proc : q # p => reg'[q] = reg[q]
        /\ r.w = IF Len(path) = 1 THEN None ELSE g
        /\ r.ip = IF Len(path) = 1 THEN g ELSE reg[p].ip
        /\ r.dp = None
    BY <1>1, <1>4, <1>6, <1>11, <2>1, <2>2 DEF CodeType, Registers, Pointer
  <2> DEFINE n == Get(m, next)
  <2>4. /\ Grown(n) /\ Alive(n, disk) /\ n[g].inum = next
        /\ \A f \in Entry : n[f].ref = m[f].ref + One(f = g)
    <3>1. next \in Inum /\ disk[next].type # "none" /\ CanGet(next)
      BY <1>7, <1>17
    <3>2. PICK mm : mm = m
      OBVIOUS
    <3>3. PICK i \in Inum : i = next
      BY <3>1
    <3>4. PICK nn : nn = Get(mm, i)
      OBVIOUS
    <3>5. /\ Grown(nn) /\ Alive(nn, disk) /\ nn[GetEntry(i)].inum = i
          /\ \A f \in Entry : nn[f].ref = mm[f].ref + One(f = GetEntry(i))
      <4> HIDE DEF next, m, g, n, r
      <4> QED
        BY <1>4, <1>8, <3>1, <3>2, <3>3, <3>4, GrownGet
    <3> QED
      BY <3>2, <3>3, <3>4, <3>5
  <2> HIDE DEF n, r, m, g, next
  <2>5. ASSUME NEW e \in Entry, NEW u \in Nat, u = One(w = e),
               InRegs(r, e) = One(g = e) + One(reg[p].ip = e)
        PROVE  icache'[e].ref + InRegs(reg[p], e)
                  = icache[e].ref + (InRegs(r, e) + u)
    <3>1. PICK x \in Nat : x = One(g = e)
      BY DEF One
    <3>2. PICK y \in Nat : y = One(reg[p].ip = e)
      BY DEF One
    <3>3. m[e].ref + InRegs(reg[p], e) = icache[e].ref + u + y
      BY <1>8, <2>5, <3>2
    <3>4. One(e = g) = x
      BY <3>1 DEF One
    <3>5. icache'[e].ref = m[e].ref + x
      BY <2>1, <2>4, <3>4 DEF n
    <3>6. PICK z \in Nat : z = InRegs(reg[p], e)
      BY DEF InRegs, One
    <3>7. PICK a \in Nat, b \in Nat : a = m[e].ref /\ b = icache[e].ref
      BY <1>13
    <3>8. a + z = b + u + y
      BY <3>3, <3>6, <3>7
    <3>9. (a + x) + z = b + ((x + y) + u)
      BY <3>8
    <3> QED
      BY <2>5, <3>1, <3>2, <3>5, <3>6, <3>7, <3>9
  <2>6. Grown(icache') /\ Alive(icache', disk)
    BY <2>1, <2>4 DEF n
  <2>7. \A e \in Entry : r.dp # e
    BY <1>4, <2>3
  <2>8. CASE Len(path) = 1
    <3>1. parent = FALSE /\ WithIp(k, bad) /\ reg[p].ip = None /\ ~Pends(p)
      BY <1>1, <1>3, <1>17, <2>8
    <3>2. r.w = None /\ r.ip = g
      BY <2>3, <2>8
    <3>3. todo' = [todo EXCEPT ![p] = PutThen(w, k)]
      <4>1. <<<<"put", w>>>> \o << >> = <<<<"put", w>>>>
        BY Written
      <4> QED
        BY <2>1, <2>8, <4>1 DEF PutThen
    <3>4. IpHeld(r)
      BY <1>4, <2>2, <2>3, <3>2 DEF IpHeld
    <3>5. Fits(k, bad, r)
      BY <3>1, <3>4 DEF Fits
    <3>6. /\ CodeOf(PutThen(w, k), bad, r) /\ Bare(PutThen(w, k)) = k
          /\ PutThen(w, k) \in Seq(Instr)
          /\ \A f : Puts(PutThen(w, k), f) = One(w = f)
      BY <1>1, <2>3, <3>5, CodePut
    <3>7. ASSUME NEW e \in Entry
          PROVE  icache'[e].ref + InRegs(reg[p], e)
                    = icache[e].ref + (InRegs(r, e) + Puts(PutThen(w, k), e))
      <4>1. InRegs(r, e) = One(g = e) + One(reg[p].ip = e)
        BY <1>4, <2>3, <3>1, <3>2 DEF InRegs, One
      <4>2. Puts(PutThen(w, k), e) = One(w = e) /\ One(w = e) \in Nat
        BY <3>6 DEF One
      <4> QED
        BY <2>5, <4>1, <4>2
    <3>8. PICK t \in Seq(Instr) : t = PutThen(w, k)
      BY <3>6
    <3>p. /\ t \in Seq(Instr) /\ bad \in Seq(Instr) /\ panic' = "none"
          /\ todo' = [todo EXCEPT ![p] = t] /\ onfail' = [onfail EXCEPT ![p] = bad]
          /\ CodeOf(t, bad, r) /\ LockFree(Bare(t))
          /\ ~At(Bare(t), "remove") /\ (PendsIn(Bare(t), bad) <=> Pends(p))
      BY <1>1, <1>3, <2>1, <2>3, <3>1, <3>3, <3>6, <3>8
    <3>q. /\ CodeType' /\ Alone(p) /\ todo'[p] = t /\ onfail'[p] = bad
      BY <1>4, <1>9, <3>p, <2>3 DEF CodeType, Alone
    <3>r. /\ Pends(p) => reg'[p].ip = reg[p].ip
          /\ \A e \in Entry : reg'[p].dp = e => icache[e].ref > 0 /\ IsDir(e)
          /\ CodeOf(todo'[p], onfail'[p], reg'[p]) /\ LockFree(Bare(todo'[p]))
          /\ ~At(Bare(todo'[p]), "remove")
          /\ PendsIn(Bare(todo'[p]), onfail'[p]) <=> Pends(p)
      BY <3>p, <3>q, <2>3, <2>7, <3>1 DEF r
    <3>s. \A e \in Entry :
               icache'[e].ref + InRegs(reg[p], e)
                   = icache[e].ref + (InRegs(reg'[p], e) + Puts(todo'[p], e))
      BY <3>q, <3>7, <3>8 DEF r
    <3> QED
      BY <1>1, <1>9, <3>p, <3>q, <3>r, <3>s, <2>6, RoundTo
  <2>9. CASE Len(path) # 1
    <3> DEFINE l == LookThen(Tail(path), parent, k)
    <3>1. r.w = g /\ r.ip = reg[p].ip
      BY <2>3, <2>9
    <3>2. Tail(path) \in Way
      BY <1>6, <2>9
    <3>3. <<"look", Tail(path), parent>> \in Instr /\ <<"put", w>> \in Instr
      BY <1>1, <3>2, Written1
    <3>4. todo' = [todo EXCEPT ![p] = PutThen(w, l)]
      <4>1. <<<<"look", Tail(path), parent>>>> \in Seq(Instr) /\ <<<<"put", w>>>> \in Seq(Instr)
        BY <3>3, Written
      <4>2. (<<<<"put", w>>>> \o <<<<"look", Tail(path), parent>>>>) \o k
               = <<<<"put", w>>>> \o (<<<<"look", Tail(path), parent>>>> \o k)
        BY <1>1, <4>1, ConcatAssociative
      <4> QED
        BY <2>1, <2>9, <4>2 DEF PutThen, LookThen
    <3>5. r.w # None
      BY <1>4, <2>2, <3>1
    <3>6. /\ l \in Seq(Instr) /\ Plain(l)
          /\ Fits(l, bad, r) /\ LockFree(l) /\ ~At(l, "remove")
          /\ PendsIn(l, bad) <=> Last(bad, "linkbad")
      BY <1>1, <2>3, <3>1, <3>2, <3>5, LookCode
    <3> HIDE DEF l
    <3>7. /\ CodeOf(PutThen(w, l), bad, r) /\ Bare(PutThen(w, l)) = l
          /\ PutThen(w, l) \in Seq(Instr)
          /\ \A f : Puts(PutThen(w, l), f) = One(w = f)
      BY <1>1, <2>3, <3>6, CodePut
    <3>8. ASSUME NEW e \in Entry
          PROVE  icache'[e].ref + InRegs(reg[p], e)
                    = icache[e].ref + (InRegs(r, e) + Puts(PutThen(w, l), e))
      <4>1. InRegs(r, e) = One(g = e) + One(reg[p].ip = e)
        BY <1>4, <2>3, <3>1 DEF InRegs, One
      <4>2. Puts(PutThen(w, l), e) = One(w = e) /\ One(w = e) \in Nat
        BY <3>7 DEF One
      <4> QED
        BY <2>5, <4>1, <4>2
    <3>9. PICK t \in Seq(Instr) : t = PutThen(w, l)
      BY <3>7
    <3>p. /\ t \in Seq(Instr) /\ bad \in Seq(Instr) /\ panic' = "none"
          /\ todo' = [todo EXCEPT ![p] = t] /\ onfail' = [onfail EXCEPT ![p] = bad]
          /\ CodeOf(t, bad, r) /\ LockFree(Bare(t))
          /\ ~At(Bare(t), "remove") /\ (PendsIn(Bare(t), bad) <=> Pends(p))
      BY <1>1, <1>3, <2>1, <2>3, <3>1, <3>4, <3>6, <3>7, <3>9
    <3>q. /\ CodeType' /\ Alone(p) /\ todo'[p] = t /\ onfail'[p] = bad
      BY <1>4, <1>9, <3>p, <2>3 DEF CodeType, Alone
    <3>r. /\ Pends(p) => reg'[p].ip = reg[p].ip
          /\ \A e \in Entry : reg'[p].dp = e => icache[e].ref > 0 /\ IsDir(e)
          /\ CodeOf(todo'[p], onfail'[p], reg'[p]) /\ LockFree(Bare(todo'[p]))
          /\ ~At(Bare(todo'[p]), "remove")
          /\ PendsIn(Bare(todo'[p]), onfail'[p]) <=> Pends(p)
      BY <3>p, <3>q, <2>3, <2>7, <3>1 DEF r
    <3>s. \A e \in Entry :
               icache'[e].ref + InRegs(reg[p], e)
                   = icache[e].ref + (InRegs(reg'[p], e) + Puts(todo'[p], e))
      BY <3>q, <3>8, <3>9 DEF r
    <3> QED
      BY <1>1, <1>9, <3>p, <3>q, <3>r, <3>s, <2>6, RoundTo
  <2> QED
    BY <2>8, <2>9
<1> QED
  BY <1>14, <1>15, <1>16, <1>17

-----------------------------------------------------------------------------
(* namex *)

\* Where the code is in namex.
LEMMA FitsWalk ==
    ASSUME NEW s, NEW b, NEW r, Fits(s, b, r), s # << >>,
           Head(s)[1] \in {"walk", "look"}
    PROVE  /\ Walking(s, b, r)
           /\ Head(s)[1] = "walk" => r.w = None
           /\ Head(s)[1] = "look" => r.w # None
<1>1. ~WithIp(s, b) /\ ~WithDp(s, b, r.ip)
  BY DEF WithIp, WithDp, Linking, At, Last
<1> QED
  BY <1>1 DEF Fits, At, Last

LEMMA WalkHanding ==
    ASSUME Sound, Running, NEW p \in Proc, Does(p, "walk") \/ Does(p, "look")
    PROVE  /\ Coding(p) /\ Arg(p) \in Way
           /\ Handing(p, Head(todo[p])[3], Rest(p), onfail[p])
           /\ Does(p, "walk") => reg[p].w = None
           /\ Does(p, "look") => reg[p].w \in Entry
<1> DEFINE s == todo[p]
           x == Head(todo[p])
<1>1. s # << >> /\ x[1] \in {"walk", "look"}
  BY DEF Does
<1>2. Coding(p)
  BY <1>1 DEF Coding, IsPut
<1>3. /\ s \in Seq(Instr) /\ Plain(s) /\ onfail[p] \in Seq(Instr)
      /\ Plain(onfail[p]) /\ Bare(s) = s /\ Fits(s, onfail[p], reg[p])
      /\ x \in Instr /\ Rest(p) \in Seq(Instr) /\ Plain(Rest(p))
  BY <1>1, <1>2, CodingFacts
<1>4. x[2] \in Way
  BY <1>1, <1>3, Carried
<1>5. /\ Walking(s, onfail[p], reg[p])
      /\ x[1] = "walk" => reg[p].w = None
      /\ x[1] = "look" => reg[p].w # None
  BY <1>1, <1>3, FitsWalk
<1>6. reg[p].w \in Pointer
  BY RegisterType DEF Sound
<1>7. Pends(p) <=> PendsIn(s, onfail[p])
  BY <1>3, PendsInCode
<1>8. PendsIn(s, onfail[p]) <=> Last(onfail[p], "linkbad")
  BY <1>1 DEF PendsIn, At
<1>9. ~Doing(p, "removed")
  BY <1>1, <1>3 DEF Doing, At
<1>10. Handing(p, x[3], Rest(p), onfail[p])
  BY <1>3, <1>5, <1>7, <1>8, <1>9 DEF Handing, Walking, Rest
<1> QED
  BY <1>2, <1>4, <1>5, <1>6, <1>10 DEF Does, Arg, Pointer

LEMMA WalkStep ==
    ASSUME Sound, Running, NEW p \in Proc, Walk(p)
    PROVE  Sound'
<1>1. /\ Does(p, "walk")
      /\ Look(p, cwd[p], Dup(icache, cwd[p]), Arg(p), Head(todo[p])[3],
              Rest(p), onfail[p])
  BY DEF Walk, Start
<1>2. /\ Coding(p) /\ Arg(p) \in Way
      /\ Handing(p, Head(todo[p])[3], Rest(p), onfail[p]) /\ reg[p].w = None
  BY <1>1, WalkHanding
<1>3. cwd[p] \in Entry /\ Holds(p, cwd[p])
  BY DEF Holds, Sound, TypeOK
<1>4. PICK c \in {0, 1} : c = 1
  OBVIOUS
<1>5. PICK w \in Entry : w = cwd[p]
  BY <1>3
<1>6. PICK ic : ic = Dup(icache, w)
  OBVIOUS
<1>7. PICK path \in Way : path = Arg(p)
  BY <1>2
<1>8. PICK parent : parent = Head(todo[p])[3]
  OBVIOUS
<1>9. PICK k, bad : k = Rest(p) /\ bad = onfail[p]
  OBVIOUS
<1>10. /\ Look(p, w, ic, path, parent, k, bad) /\ Handing(p, parent, k, bad)
       /\ Holds(p, w) /\ c = 1 /\ ic = Dup(icache, w) /\ reg[p].w = None
  BY <1>1, <1>2, <1>3, <1>4, <1>5, <1>6, <1>7, <1>8, <1>9
<1> QED
  BY <1>2, <1>10, LookStep

LEMMA LookOnStep ==
    ASSUME Sound, Running, NEW p \in Proc, LookOn(p)
    PROVE  Sound'
<1>1. /\ Does(p, "look")
      /\ Look(p, reg[p].w, icache, Arg(p), Head(todo[p])[3], Rest(p), onfail[p])
  BY DEF LookOn
<1>2. /\ Coding(p) /\ Arg(p) \in Way
      /\ Handing(p, Head(todo[p])[3], Rest(p), onfail[p]) /\ reg[p].w \in Entry
  BY <1>1, WalkHanding
<1>3. PICK c \in {0, 1} : c = 0
  OBVIOUS
<1>4. PICK w \in Entry : w = reg[p].w
  BY <1>2
<1>5. PICK ic : ic = icache
  OBVIOUS
<1>6. PICK path \in Way : path = Arg(p)
  BY <1>2
<1>7. PICK parent : parent = Head(todo[p])[3]
  OBVIOUS
<1>8. PICK k, bad : k = Rest(p) /\ bad = onfail[p]
  OBVIOUS
<1>9. /\ Look(p, w, ic, path, parent, k, bad) /\ Handing(p, parent, k, bad)
      /\ Holds(p, w) /\ c = 0 /\ ic = icache /\ reg[p].w = w
  BY <1>1, <1>2, <1>3, <1>4, <1>5, <1>6, <1>7, <1>8 DEF Holds
<1> QED
  BY <1>2, <1>9, LookStep

\* A process between calls.
LEMMA AtRest ==
    ASSUME Sound, Running, NEW p \in Proc, todo[p] = << >>
    PROVE  /\ Coding(p) /\ NoneHeld(reg[p]) /\ ~Pends(p) /\ Bare(todo[p]) = << >>
           /\ \A what : ~Doing(p, what)
<1>1. Coding(p)
  BY DEF Coding
<1>2. Bare(todo[p]) = << >>
  BY DEF Bare
<1>3. \A what : ~At(<< >>, what)
  BY DEF At
<1>4. \A what : ~Doing(p, what)
  BY <1>2, <1>3, Zenon DEF Doing
<1>5. ~Pends(p)
  BY <1>4 DEF Pends
<1>6. Fits(todo[p], onfail[p], reg[p])
  BY <1>1, CodingFacts
<1>7. NoneHeld(reg[p])
  BY <1>6 DEF Fits, WithIp, WithDp, Linking, At, Last
<1> QED
  BY <1>1, <1>2, <1>4, <1>5, <1>7

\* A call starts with a walk.
LEMMA CallStep ==
    ASSUME Sound, Running, NEW p \in Proc, todo[p] = << >>,
           NEW path \in Path[p], NEW parent,
           NEW k \in Seq(Instr), Plain(k), NEW bad \in Seq(Instr), Plain(bad),
           \/ parent = FALSE /\ WithIp(k, bad)
           \/ parent = TRUE /\ WithDp(k, bad, None),
           Start(p, path, parent, k, bad)
    PROVE  Sound'
<1>1. Coding(p) /\ NoneHeld(reg[p]) /\ ~Pends(p) /\ ~Doing(p, "removed")
  BY AtRest
<1>2. ~Last(bad, "linkbad")
  BY DEF WithIp, WithDp, Making, Retry, At, Last
<1>3. Handing(p, parent, k, bad)
  BY <1>1, <1>2 DEF Handing, NoneHeld
<1>4. cwd[p] \in Entry /\ Holds(p, cwd[p])
  BY DEF Holds, Sound, TypeOK
<1>5. path \in Way
  BY FsConstants DEF Way
<1>6. PICK c \in {0, 1} : c = 1
  OBVIOUS
<1>7. PICK w \in Entry : w = cwd[p]
  BY <1>4
<1>8. PICK ic : ic = Dup(icache, w)
  OBVIOUS
<1>9. /\ Look(p, w, ic, path, parent, k, bad)
      /\ Holds(p, w) /\ c = 1 /\ ic = Dup(icache, w) /\ reg[p].w = None
  BY <1>1, <1>4, <1>6, <1>7, <1>8 DEF Start, NoneHeld
<1> QED
  BY <1>1, <1>3, <1>5, <1>9, LookStep

\* Code of one to four instructions that put nothing.
LEMMA CodeOne ==
    ASSUME NEW x \in Instr, ~IsPut(x), NEW s, s = <<x>>
    PROVE  /\ s \in Seq(Instr) /\ Plain(s) /\ s # << >> /\ Head(s) = x
           /\ Tail(s) = << >> /\ Last(s, x[1])
<1>1. /\ <<x>> \in Seq(Instr) /\ <<x>> # << >> /\ Head(<<x>>) = x
      /\ Tail(<<x>>) = << >> /\ <<x>> \o << >> = <<x>>
  BY Written
<1>2. Plain(<<x>>)
  BY <1>1, Nothing, PlainCons
<1> QED
  BY <1>1, <1>2 DEF Last, At

LEMMA CodeMore ==
    ASSUME NEW x \in Instr, ~IsPut(x), NEW k \in Seq(Instr), Plain(k),
           NEW s, s = <<x>> \o k
    PROVE  /\ s \in Seq(Instr) /\ Plain(s) /\ s # << >> /\ Head(s) = x
           /\ Tail(s) = k /\ At(s, x[1])
<1>1. /\ <<x>> \o k \in Seq(Instr) /\ <<x>> \o k # << >>
      /\ Head(<<x>> \o k) = x /\ Tail(<<x>> \o k) = k
  BY Cons
<1>2. Plain(<<x>> \o k)
  BY PlainCons
<1> QED
  BY <1>1, <1>2 DEF At

LEMMA CodeTwo ==
    ASSUME NEW x \in Instr, ~IsPut(x), NEW y \in Instr, ~IsPut(y),
           NEW s, s = <<x, y>>
    PROVE  /\ s \in Seq(Instr) /\ Plain(s) /\ s # << >> /\ Head(s) = x
           /\ At(s, x[1]) /\ Tail(s) = <<y>>
           /\ Head(Tail(s)) = y /\ Last(Tail(s), y[1])
<1>1. PICK k : k = <<y>>
  OBVIOUS
<1>2. /\ k \in Seq(Instr) /\ Plain(k) /\ Head(k) = y /\ Last(k, y[1])
  BY <1>1, CodeOne
<1>3. s = <<x>> \o k
  BY <1>1, WrittenTwo
<1>4. /\ s \in Seq(Instr) /\ Plain(s) /\ s # << >> /\ Head(s) = x
      /\ Tail(s) = k /\ At(s, x[1])
  BY <1>2, <1>3, CodeMore
<1> QED
  BY <1>1, <1>2, <1>4

Three(x, y, z) == <<x, y, z>>
ThreeOf(s, x, y, z) ==
    /\ s \in Seq(Instr) /\ Plain(s) /\ s # << >> /\ Head(s) = x /\ At(s, x[1])
    /\ At(Tail(s), y[1]) /\ Head(Tail(s)) = y
    /\ Last(Tail(Tail(s)), z[1]) /\ Head(Tail(Tail(s))) = z

LEMMA CodeThree ==
    ASSUME NEW x \in Instr, ~IsPut(x), NEW y \in Instr, ~IsPut(y),
           NEW z \in Instr, ~IsPut(z)
    PROVE  ThreeOf(Three(x, y, z), x, y, z)
<1>1. PICK k : k = <<y, z>>
  OBVIOUS
<1>2. /\ k \in Seq(Instr) /\ Plain(k) /\ Head(k) = y /\ At(k, y[1])
      /\ Head(Tail(k)) = z /\ Last(Tail(k), z[1])
  BY <1>1, CodeTwo
<1>3. PICK s : s = Three(x, y, z)
  OBVIOUS
<1>4. s = <<x>> \o k
  BY <1>1, <1>3, WrittenThree DEF Three
<1>5. /\ s \in Seq(Instr) /\ Plain(s) /\ s # << >> /\ Head(s) = x
      /\ Tail(s) = k /\ At(s, x[1])
  BY <1>2, <1>4, CodeMore
<1>6. ThreeOf(s, x, y, z)
  BY <1>2, <1>5 DEF ThreeOf
<1> QED
  BY <1>3, <1>6

Four(w, x, y, z) == <<w, x, y, z>>
FourOf(s, w, x, y, z) ==
    /\ s \in Seq(Instr) /\ Plain(s) /\ At(s, w[1])
    /\ At(Tail(s), x[1]) /\ Head(Tail(s)) = x
    /\ At(Tail(Tail(s)), y[1]) /\ Head(Tail(Tail(s))) = y
    /\ Last(Tail(Tail(Tail(s))), z[1])

LEMMA CodeFour ==
    ASSUME NEW w \in Instr, ~IsPut(w), NEW x \in Instr, ~IsPut(x),
           NEW y \in Instr, ~IsPut(y), NEW z \in Instr, ~IsPut(z)
    PROVE  FourOf(Four(w, x, y, z), w, x, y, z)
<1>1. PICK k : k = Three(x, y, z)
  OBVIOUS
<1>2. ThreeOf(k, x, y, z)
  BY <1>1, CodeThree
<1>3. PICK s : s = Four(w, x, y, z)
  OBVIOUS
<1>4. <<w, x, y, z>> = <<w>> \o <<x, y, z>>
  <2>1. /\ <<w, x, y, z>> \in Seq(Instr) /\ <<w, x, y, z>> # << >>
        /\ Head(<<w, x, y, z>>) = w /\ Tail(<<w, x, y, z>>) = <<x, y, z>>
    OBVIOUS
  <2> QED
    BY <2>1, Uncons
<1>5. s = <<w>> \o k
  BY <1>1, <1>3, <1>4, Zenon DEF Three, Four
<1>6. /\ s \in Seq(Instr) /\ Plain(s) /\ s # << >> /\ Head(s) = w
      /\ Tail(s) = k /\ At(s, w[1])
  BY <1>2, <1>5, CodeMore DEF ThreeOf
<1>7. FourOf(s, w, x, y, z)
  BY <1>2, <1>6 DEF ThreeOf, FourOf
<1> QED
  BY <1>3, <1>7

LEMMA PathFacts ==
    ASSUME NEW p \in Proc, NEW path \in Path[p]
    PROVE  path \in Way /\ path \in Targets
  BY FsConstants DEF Way, Targets

LEMMA OpenStep ==
    ASSUME Sound, Running, NEW p \in Proc, SysOpen(p)
    PROVE  Sound'
<1>1. todo[p] = << >>
  BY DEF SysOpen, May
<1>2. PICK n : n = << >>
  OBVIOUS
<1>3. n \in Seq(Instr) /\ Plain(n)
  BY <1>2, Nothing
<1>4. PICK path \in Path[p] :
         \/ \E meta \in BOOLEAN : Start(p, path, FALSE, <<<<"open", meta>>>>, n)
         \/ Start(p, path, TRUE, <<<<"create", "file">>, <<"open", FALSE>>>>,
                  <<<<"walk", path, TRUE>>, <<"create", "sym">>,
                    <<"open", FALSE>>>>)
  BY <1>2, Zenon DEF SysOpen
<1>5. ASSUME NEW meta \in BOOLEAN,
             Start(p, path, FALSE, <<<<"open", meta>>>>, n)
      PROVE  Sound'
  <2>1. PICK x : x = <<"open", meta>>
    OBVIOUS
  <2>2. x \in Instr /\ ~IsPut(x) /\ x[1] = "open"
    BY <2>1, Written1 DEF IsPut
  <2>3. PICK k : k = <<x>>
    OBVIOUS
  <2>4. k \in Seq(Instr) /\ Plain(k) /\ Last(k, "open")
    BY <2>2, <2>3, CodeOne
  <2>5. WithIp(k, n)
    BY <1>2, <2>4 DEF WithIp
  <2>6. PICK f : f = FALSE
    OBVIOUS
  <2>7. Start(p, path, f, k, n)
    BY <1>5, <2>1, <2>3, <2>6, Zenon
  <2> QED
    BY <1>1, <1>3, <2>4, <2>5, <2>6, <2>7, CallStep
<1>6. ASSUME Start(p, path, TRUE, <<<<"create", "file">>, <<"open", FALSE>>>>,
                   <<<<"walk", path, TRUE>>, <<"create", "sym">>,
                     <<"open", FALSE>>>>)
      PROVE  Sound'
  <2>1. PICK x, y, z, u : /\ x = <<"create", "file">> /\ y = <<"open", FALSE>>
                          /\ z = <<"walk", path, TRUE>> /\ u = <<"create", "sym">>
    OBVIOUS
  <2>2. /\ x \in Instr /\ ~IsPut(x) /\ x[1] = "create" /\ x[2] = "file"
        /\ y \in Instr /\ ~IsPut(y) /\ y[1] = "open"
    BY <2>1, Written1 DEF IsPut, Kinds
  <2>3. /\ z \in Instr /\ ~IsPut(z) /\ z[1] = "walk" /\ z[3] = TRUE
        /\ u \in Instr /\ ~IsPut(u) /\ u[1] = "create" /\ u[2] = "sym"
    BY <2>1, Written1, PathFacts DEF IsPut, Kinds
  <2>4. PICK k : k = <<x, y>>
    OBVIOUS
  <2>5. PICK b : b = <<z, u, y>>
    OBVIOUS
  <2>a. /\ k \in Seq(Instr) /\ Plain(k) /\ Head(k) = x /\ At(k, x[1])
        /\ Last(Tail(k), y[1])
    <3>1. x \in Instr /\ ~IsPut(x) /\ y \in Instr /\ ~IsPut(y)
      BY <2>2
    <3> QED
      BY <2>4, <3>1, CodeTwo
  <2>6. /\ k \in Seq(Instr) /\ Plain(k) /\ Head(k) = x /\ At(k, "create")
        /\ Last(Tail(k), "open")
    BY <2>2, <2>a
  <2>7. /\ b \in Seq(Instr) /\ Plain(b) /\ Head(b) = z /\ At(b, "walk")
        /\ At(Tail(b), "create") /\ Head(Tail(b)) = u
        /\ Last(Tail(Tail(b)), "open")
    <3>1. /\ z \in Instr /\ ~IsPut(z) /\ u \in Instr /\ ~IsPut(u)
          /\ y \in Instr /\ ~IsPut(y)
      BY <2>2, <2>3
    <3>2. b = Three(z, u, y)
      BY <2>5 DEF Three
    <3>3. ThreeOf(b, z, u, y)
      BY <3>1, <3>2, CodeThree
    <3> QED
      BY <2>2, <2>3, <3>3 DEF ThreeOf
  <2>8. Retry(b)
    BY <2>3, <2>7 DEF Retry
  <2>9. WithDp(k, b, None)
    BY <2>2, <2>6, <2>8 DEF WithDp, Making
  <2>10. PICK f : f = TRUE
    OBVIOUS
  <2>11. Start(p, path, f, k, b)
    BY <1>6, <2>1, <2>4, <2>5, <2>10, Zenon
  <2> QED
    BY <1>1, <2>6, <2>7, <2>9, <2>10, <2>11, CallStep
<1> QED
  BY <1>4, <1>5, <1>6

\* A call with one instruction after the walk to an inode.
LEMMA CallIp ==
    ASSUME Sound, Running, NEW p \in Proc, todo[p] = << >>,
           NEW path \in Path[p], NEW n, n = << >>,
           NEW x \in Instr, x[1] \in {"open", "linkold", "chdir"},
           NEW k, k = <<x>>, NEW f, f = FALSE, Start(p, path, f, k, n)
    PROVE  Sound'
<1>1. n \in Seq(Instr) /\ Plain(n)
  BY Nothing
<1>2. k \in Seq(Instr) /\ Plain(k) /\ Last(k, x[1])
  BY CodeOne DEF IsPut
<1>3. WithIp(k, n)
  BY <1>2 DEF WithIp
<1> QED
  BY <1>1, <1>2, <1>3, CallStep

LEMMA LinkStep ==
    ASSUME Sound, Running, NEW p \in Proc, SysLink(p)
    PROVE  Sound'
<1>1. PICK n, f : n = << >> /\ f = FALSE
  OBVIOUS
<1>2. PICK old \in Path[p], new \in Path[p] :
         Start(p, old, f, <<<<"linkold", new>>>>, n)
  BY <1>1, Zenon DEF SysLink
<1>3. PICK x : x = <<"linkold", new>>
  OBVIOUS
<1>4. x \in Instr /\ x[1] = "linkold"
  BY <1>3, PathFacts, Written1
<1>5. PICK k : k = <<x>>
  OBVIOUS
<1>6. Start(p, old, f, k, n)
  BY <1>2, <1>3, <1>5, Zenon
<1>7. todo[p] = << >>
  BY DEF SysLink, May
<1> QED
  BY <1>1, <1>4, <1>5, <1>6, <1>7, CallIp

LEMMA ChdirCallStep ==
    ASSUME Sound, Running, NEW p \in Proc, SysChdir(p)
    PROVE  Sound'
<1>1. PICK n, f : n = << >> /\ f = FALSE
  OBVIOUS
<1>2. PICK path \in Path[p] : Start(p, path, f, <<<<"chdir">>>>, n)
  BY <1>1, Zenon DEF SysChdir
<1>3. PICK x : x = <<"chdir">>
  OBVIOUS
<1>4. x \in Instr /\ x[1] = "chdir"
  BY <1>3, Written1
<1>5. PICK k : k = <<x>>
  OBVIOUS
<1>6. Start(p, path, f, k, n)
  BY <1>2, <1>3, <1>5, Zenon
<1>7. todo[p] = << >>
  BY DEF SysChdir, May
<1> QED
  BY <1>1, <1>4, <1>5, <1>6, <1>7, CallIp

LEMMA SymlinkStep ==
    ASSUME Sound, Running, NEW p \in Proc, SysSymlink(p)
    PROVE  Sound'
<1>1. PICK n, f : n = << >> /\ f = FALSE
  OBVIOUS
<1>2. PICK old \in Path[p], new \in Path[p] :
         Start(p, old, f, <<<<"forget">>, <<"walk", new, TRUE>>,
                            <<"create", "sym">>, <<"write", old>>>>, n)
  BY <1>1, Zenon DEF SysSymlink
<1>3. PICK w, x, y, z : /\ w = <<"forget">> /\ x = <<"walk", new, TRUE>>
                        /\ y = <<"create", "sym">> /\ z = <<"write", old>>
  OBVIOUS
<1>4. /\ w \in Instr /\ ~IsPut(w) /\ w[1] = "forget"
      /\ x \in Instr /\ ~IsPut(x) /\ x[1] = "walk" /\ x[3] = TRUE
  BY <1>3, Written1, PathFacts DEF IsPut
<1>5. /\ y \in Instr /\ ~IsPut(y) /\ y[1] = "create" /\ y[2] = "sym"
      /\ z \in Instr /\ ~IsPut(z) /\ z[1] = "write"
  BY <1>3, Written1, PathFacts DEF IsPut, Kinds
<1>6. PICK k : k = <<w, x, y, z>>
  OBVIOUS
<1>7. /\ k \in Seq(Instr) /\ Plain(k) /\ At(k, "forget")
      /\ At(Tail(k), "walk") /\ Head(Tail(k)) = x
      /\ At(Tail(Tail(k)), "create") /\ Head(Tail(Tail(k))) = y
      /\ Last(Tail(Tail(Tail(k))), "write")
  <2>1. /\ w \in Instr /\ ~IsPut(w) /\ x \in Instr /\ ~IsPut(x)
        /\ y \in Instr /\ ~IsPut(y) /\ z \in Instr /\ ~IsPut(z)
    BY <1>4, <1>5
  <2>2. k = Four(w, x, y, z)
    BY <1>6 DEF Four
  <2>3. FourOf(k, w, x, y, z)
    BY <2>1, <2>2, CodeFour
  <2> QED
    BY <1>4, <1>5, <2>3 DEF FourOf
<1>8. WithIp(k, n)
  BY <1>1, <1>4, <1>5, <1>7 DEF WithIp, Linking
<1>9. n \in Seq(Instr) /\ Plain(n)
  BY <1>1, Nothing
<1>10. Start(p, old, f, k, n)
  BY <1>2, <1>3, <1>6, Zenon
<1>11. todo[p] = << >>
  BY DEF SysSymlink, May
<1> QED
  BY <1>1, <1>7, <1>8, <1>9, <1>10, <1>11, CallStep

LEMMA UnlinkCallStep ==
    ASSUME Sound, Running, NEW p \in Proc, SysUnlink(p)
    PROVE  Sound'
<1>1. PICK n, f : n = << >> /\ f = TRUE
  OBVIOUS
<1>2. PICK path \in Path[p] : Start(p, path, f, <<<<"unlink">>>>, n)
  BY <1>1, Zenon DEF SysUnlink
<1>3. PICK x : x = <<"unlink">>
  OBVIOUS
<1>4. x \in Instr /\ x[1] = "unlink" /\ ~IsPut(x)
  BY <1>3, Written1 DEF IsPut
<1>5. PICK k : k = <<x>>
  OBVIOUS
<1>6. k \in Seq(Instr) /\ Plain(k) /\ Last(k, "unlink")
  BY <1>4, <1>5, CodeOne
<1>7. WithDp(k, n, None)
  BY <1>1, <1>6 DEF WithDp
<1>8. n \in Seq(Instr) /\ Plain(n)
  BY <1>1, Nothing
<1>9. Start(p, path, f, k, n)
  BY <1>2, <1>3, <1>5, Zenon
<1>10. todo[p] = << >>
  BY DEF SysUnlink, May
<1> QED
  BY <1>1, <1>6, <1>7, <1>8, <1>9, <1>10, CallStep

LEMMA MkdirStep ==
    ASSUME Sound, Running, NEW p \in Proc, SysMkdir(p)
    PROVE  Sound'
<1>1. PICK n, f : n = << >> /\ f = TRUE
  OBVIOUS
<1>2. PICK path \in Path[p] :
         Start(p, path, f, <<<<"create", "dir">>, <<"made">>>>, n)
  BY <1>1, Zenon DEF SysMkdir
<1>3. PICK x, y : x = <<"create", "dir">> /\ y = <<"made">>
  OBVIOUS
<1>4. /\ x \in Instr /\ ~IsPut(x) /\ x[1] = "create" /\ x[2] = "dir"
      /\ y \in Instr /\ ~IsPut(y) /\ y[1] = "made"
  BY <1>3, Written1 DEF IsPut, Kinds
<1>5. PICK k : k = <<x, y>>
  OBVIOUS
<1>6. /\ k \in Seq(Instr) /\ Plain(k) /\ Head(k) = x /\ At(k, "create")
      /\ Last(Tail(k), "made")
  <2>1. x \in Instr /\ ~IsPut(x) /\ y \in Instr /\ ~IsPut(y)
    BY <1>4
  <2>2. /\ k \in Seq(Instr) /\ Plain(k) /\ Head(k) = x /\ At(k, x[1])
        /\ Last(Tail(k), y[1])
    BY <1>5, <2>1, CodeTwo
  <2> QED
    BY <1>4, <2>2
<1>7. WithDp(k, n, None)
  BY <1>1, <1>4, <1>6 DEF WithDp, Making
<1>8. n \in Seq(Instr) /\ Plain(n)
  BY <1>1, Nothing
<1>9. Start(p, path, f, k, n)
  BY <1>2, <1>3, <1>5, Zenon
<1>10. todo[p] = << >>
  BY DEF SysMkdir, May
<1> QED
  BY <1>1, <1>6, <1>7, <1>8, <1>9, <1>10, CallStep

-----------------------------------------------------------------------------
(* Where a process is in its code *)

\* What the code, and the pointers, are at each instruction.
LEMMA FitsAt ==
    ASSUME NEW s, NEW b, NEW r, Fits(s, b, r), s # << >>, NEW h, h = Head(s)[1]
    PROVE  /\ h = "create" => /\ Making(Head(s)[2], Tail(s), b)
                              /\ DpHeld(r) /\ r.ip = None
           /\ h = "exists" => Making(Head(s)[2], Tail(s), b) /\ IpHeld(r)
           /\ h \in {"open", "write", "made", "removed", "linkbad"}
                 => Tail(s) = << >> /\ IpHeld(r)
           /\ h \in {"linkold", "chdir"}
                 => Tail(s) = << >> /\ b = << >> /\ IpHeld(r)
           /\ h = "forget" => Linking(s) /\ b = << >> /\ IpHeld(r)
           /\ h = "linknew" => /\ Tail(s) = << >> /\ Last(b, "linkbad")
                               /\ DpHeld(r) /\ r.ip # None
           /\ h = "giveup" =>
                 /\ Tail(s) = << >> /\ DpHeld(r)
                 /\ \/ Last(b, "linkbad") /\ r.ip # None
                    \/ b = << >> /\ r.ip = None
           /\ h = "unlink" => /\ Tail(s) = << >> /\ b = << >>
                              /\ DpHeld(r) /\ r.ip = None
           /\ h = "remove" => /\ Tail(s) = << >> /\ b = << >>
                              /\ DpHeld(r) /\ r.ip # None
<1>1. h = "create" => /\ Making(Head(s)[2], Tail(s), b)
                      /\ DpHeld(r) /\ r.ip = None
  BY DEF Fits, WithIp, WithDp, Linking, At, Last
<1>2. h = "exists" => Making(Head(s)[2], Tail(s), b) /\ IpHeld(r)
  BY DEF Fits, WithIp, WithDp, Linking, At, Last
<1>3. h \in {"open", "write", "made", "removed", "linkbad"}
         => Tail(s) = << >> /\ IpHeld(r)
  BY DEF Fits, WithIp, WithDp, Linking, At, Last
<1>4. h \in {"linkold", "chdir"} => Tail(s) = << >> /\ b = << >> /\ IpHeld(r)
  BY DEF Fits, WithIp, WithDp, Linking, At, Last
<1>5. h = "forget" => Linking(s) /\ b = << >> /\ IpHeld(r)
  BY DEF Fits, WithIp, WithDp, Linking, At, Last
<1>6. h = "linknew" => /\ Tail(s) = << >> /\ Last(b, "linkbad")
                       /\ DpHeld(r) /\ r.ip # None
  BY DEF Fits, WithIp, WithDp, Linking, At, Last
<1>7. h = "giveup" => /\ Tail(s) = << >> /\ DpHeld(r)
                      /\ \/ Last(b, "linkbad") /\ r.ip # None
                         \/ b = << >> /\ r.ip = None
  BY DEF Fits, WithIp, WithDp, Linking, At, Last
<1>8. h = "unlink" => /\ Tail(s) = << >> /\ b = << >> /\ DpHeld(r) /\ r.ip = None
  BY DEF Fits, WithIp, WithDp, Linking, At, Last
<1>9. h = "remove" => /\ Tail(s) = << >> /\ b = << >> /\ DpHeld(r) /\ r.ip # None
  BY DEF Fits, WithIp, WithDp, Linking, At, Last
<1> QED
  BY <1>1, <1>2, <1>3, <1>4, <1>5, <1>6, <1>7, <1>8, <1>9

LEMMA DoesCode ==
    ASSUME Sound, Running, NEW p \in Proc, NEW what, Does(p, what),
           what \notin {"put", "drop"}
    PROVE  /\ Coding(p) /\ todo[p] # << >> /\ Head(todo[p])[1] = what
           /\ Head(todo[p]) \in Instr /\ Fits(todo[p], onfail[p], reg[p])
           /\ Rest(p) \in Seq(Instr) /\ Plain(Rest(p))
           /\ onfail[p] \in Seq(Instr) /\ Plain(onfail[p])
           /\ Pends(p) <=> PendsIn(todo[p], onfail[p])
           /\ \A x : Doing(p, x) <=> x = what
<1>1. todo[p] # << >> /\ Head(todo[p])[1] = what
  BY DEF Does
<1>2. Coding(p)
  BY <1>1 DEF Coding, IsPut
<1>3. /\ onfail[p] \in Seq(Instr) /\ Plain(onfail[p])
      /\ Bare(todo[p]) = todo[p] /\ Fits(todo[p], onfail[p], reg[p])
      /\ Head(todo[p]) \in Instr /\ Rest(p) \in Seq(Instr) /\ Plain(Rest(p))
  BY <1>1, <1>2, CodingFacts
<1>4. Pends(p) <=> PendsIn(todo[p], onfail[p])
  BY <1>3, PendsInCode
<1>5. \A x : Doing(p, x) <=> x = what
  BY <1>1, <1>3 DEF Doing, At
<1> QED
  BY <1>1, <1>2, <1>3, <1>4, <1>5

\* What the registers hold is held.
LEMMA RegsHeld ==
    ASSUME Sound, Running, NEW p \in Proc
    PROVE  /\ reg[p].ip # None => /\ reg[p].ip \in Entry /\ Holds(p, reg[p].ip)
                                  /\ icache[reg[p].ip].ref > 0
                                  /\ icache[reg[p].ip].inum \in Inum
                                  /\ Inode(reg[p].ip).type # "none"
           /\ reg[p].dp # None => /\ reg[p].dp \in Entry /\ Holds(p, reg[p].dp)
                                  /\ icache[reg[p].dp].ref > 0
                                  /\ icache[reg[p].dp].inum \in Inum
                                  /\ Inode(reg[p].dp).type # "none"
                                  /\ IsDir(reg[p].dp) /\ reg[p].name \in Name
<1>1. CodeType /\ Code /\ MeaningOf(p)
  BY DEF Sound
<1>2. reg[p].ip \in Pointer /\ reg[p].dp \in Pointer
  BY <1>1, RegisterType
<1>3. ASSUME NEW e \in Entry, Holds(p, e)
      PROVE  icache[e].ref > 0 /\ icache[e].inum \in Inum /\ Inode(e).type # "none"
  <2>1. icache[e].ref \in Nat /\ icache[e].ref >= 1 /\ icache[e].inum \in Inum
        /\ Inode(e).type # "none"
    BY <1>3, HeldIsAlive
  <2> QED
    BY <2>1
<1>4. reg[p].ip # None => reg[p].ip \in Entry /\ Holds(p, reg[p].ip)
  BY <1>2 DEF Pointer, Holds
<1>5. reg[p].dp # None => reg[p].dp \in Entry /\ Holds(p, reg[p].dp)
  BY <1>2 DEF Pointer, Holds
<1>6. reg[p].dp # None => IsDir(reg[p].dp) /\ reg[p].name \in Name
  BY <1>1, <1>5, WhatIsHeld DEF MeaningOf
<1> QED
  BY <1>3, <1>4, <1>5, <1>6

\* ilock reads the inode in an entry that p has a pointer to.
LEMMA ReadHeld ==
    ASSUME Sound, Running, NEW p \in Proc, NEW e \in Entry, Holds(p, e),
           NEW m, m = Read(e)
    PROVE  /\ Grown(m) /\ Alive(m, disk) /\ NoneTaken(m)
           /\ \A f \in Entry : m[f].ref = icache[f].ref /\ m[f].inum = icache[f].inum
<1>1. m = Seen(icache, e)
  BY DEF Read, Seen
<1>2. PICK c \in {0, 1} : c = 0
  OBVIOUS
<1>3. PICK ic : ic = icache
  OBVIOUS
<1>4. m = Seen(ic, e)
  BY <1>1, <1>3
<1>5. /\ Grown(m) /\ Alive(m, disk) /\ NoneTaken(m)
      /\ \A f \in Entry : /\ m[f].ref = icache[f].ref + (IF f = e THEN c ELSE 0)
                          /\ m[f].inum = icache[f].inum
  BY <1>2, <1>3, <1>4, LookRead
<1>6. \A f \in Entry : icache[f].ref \in Nat
  BY CacheType DEF Sound, Caches, CacheEntry
<1> QED
  BY <1>2, <1>5, <1>6

\* iget, while p has e locked.
LEMMA GetHeld ==
    ASSUME Sound, Running, NEW p \in Proc, NEW e \in Entry, Holds(p, e),
           NEW i \in Inum, CanGet(i), disk[i].type # "none",
           NEW m, m = Get(Read(e), i)
    PROVE  /\ GetEntry(i) \in Entry /\ Grown(m) /\ Alive(m, disk)
           /\ m[GetEntry(i)].inum = i
           /\ \A f \in Entry : m[f].ref = icache[f].ref + One(f = GetEntry(i))
<1>1. TypeOK /\ OneEntry
  BY DEF Sound
<1>2. PICK n : n = Read(e)
  OBVIOUS
<1>3. /\ Grown(n) /\ Alive(n, disk) /\ NoneTaken(n)
      /\ \A f \in Entry : n[f].ref = icache[f].ref
  BY <1>2, ReadHeld
<1>4. m = Get(n, i)
  BY <1>2
<1>5. GetEntry(i) \in Entry
  BY <1>1, Gotten
<1>6. /\ Grown(m) /\ Alive(m, disk) /\ m[GetEntry(i)].inum = i
      /\ \A f \in Entry : m[f].ref = n[f].ref + One(f = GetEntry(i))
  BY <1>1, <1>3, <1>4, GrownGet
<1> QED
  BY <1>3, <1>5, <1>6

\* Two instructions in front of code, the first a put.
LEMMA PutPair ==
    ASSUME NEW e \in Entry, NEW x \in Instr, NEW k \in Seq(Instr)
    PROVE  <<<<"put", e>>, x>> \o k = PutThen(e, <<x>> \o k)
<1>1. <<"put", e>> \in Instr
  BY Written1
<1>2. /\ <<<<"put", e>>, x>> = <<<<"put", e>>>> \o <<x>>
      /\ <<<<"put", e>>>> \in Seq(Instr) /\ <<x>> \in Seq(Instr)
  BY <1>1, Written, WrittenTwo
<1>3. (<<<<"put", e>>>> \o <<x>>) \o k = <<<<"put", e>>>> \o (<<x>> \o k)
  BY <1>2, ConcatAssociative
<1> QED
  BY <1>2, <1>3, Zenon DEF PutThen

-----------------------------------------------------------------------------
(* Steps that leave the disk as it is *)

\* The end of a call.
LEMMA PutIpCode ==
    ASSUME Sound, Running, NEW p \in Proc, IpHeld(reg[p]),
           CanLock(p, reg[p].ip), PutIp(p), fd' = fd, cwd' = cwd
    PROVE  /\ CodeType' /\ Alone(p)
           /\ lock' \in [Entry -> Proc \cup {None}] /\ LockStep(p)
           /\ CodeOf(todo'[p], onfail'[p], reg'[p]) /\ Bare(todo'[p]) = << >>
           /\ LockFree(Bare(todo'[p])) /\ ~PendsIn(Bare(todo'[p]), onfail'[p])
           /\ ~At(Bare(todo'[p]), "remove")
           /\ reg'[p].dp = None
           /\ \A e \in Entry :
                 InRegs(reg[p], e) = InRegs(reg'[p], e) + Puts(todo'[p], e)
<1> DEFINE w == reg[p].ip
<1>1. w \in Entry /\ reg[p].w = None /\ reg[p].dp = None
  BY RegsHeld DEF IpHeld
<1>2. CodeType /\ TypeOK /\ None \notin Entry
  BY NoneIsNoEntry DEF Sound
<1>3. PICK n : n = << >>
  OBVIOUS
<1>4. n \in Seq(Instr) /\ Plain(n)
  BY <1>3, Nothing
<1>5. <<"put", w>> \in Instr
  BY <1>1, Written1
<1>6. <<<<"put", w>>>> = PutThen(w, n)
  BY <1>3, <1>5, Written DEF PutThen
<1>7. /\ todo' = [todo EXCEPT ![p] = PutThen(w, n)]
      /\ onfail' = [onfail EXCEPT ![p] = n]
      /\ reg' = [reg EXCEPT ![p].ip = None]
      /\ lock' = [lock EXCEPT ![w] = None]
  BY <1>3, <1>6 DEF PutIp, Then
<1>8. /\ reg' \in [Proc -> Registers] /\ \A q \in Proc : q # p => reg'[q] = reg[q]
      /\ reg'[p].w = None /\ reg'[p].ip = None /\ reg'[p].dp = None
  BY <1>1, <1>2, <1>7 DEF CodeType, Registers, Pointer
<1>9. lock' \in [Entry -> Proc \cup {None}] /\ LockStep(p)
  BY <1>1, <1>2, <1>7 DEF TypeOK, LockStep, CanLock
<1> HIDE DEF w
<1>10. Fits(n, n, reg'[p])
  BY <1>3, <1>8 DEF Fits, NoneHeld
<1>11. /\ CodeOf(PutThen(w, n), n, reg'[p]) /\ Bare(PutThen(w, n)) = n
       /\ PutThen(w, n) \in Seq(Instr)
       /\ \A f : Puts(PutThen(w, n), f) = One(w = f)
  BY <1>1, <1>4, <1>8, <1>10, CodePut
<1>12. CodeType' /\ Alone(p) /\ todo'[p] = PutThen(w, n) /\ onfail'[p] = n
  BY <1>2, <1>4, <1>7, <1>8, <1>11 DEF CodeType, Alone
<1>13. LockFree(n) /\ ~PendsIn(n, n) /\ ~At(n, "remove")
  BY <1>3 DEF LockFree, PendsIn, At
<1>14. \A e \in Entry :
          InRegs(reg[p], e) = InRegs(reg'[p], e) + Puts(todo'[p], e)
  <2> SUFFICES ASSUME NEW e \in Entry
               PROVE  InRegs(reg[p], e) = InRegs(reg'[p], e) + Puts(todo'[p], e)
    OBVIOUS
  <2>1. InRegs(reg[p], e) = One(w = e)
    BY <1>1, <1>2 DEF InRegs, One, w
  <2>2. InRegs(reg'[p], e) = 0
    BY <1>2, <1>8 DEF InRegs, One
  <2>3. Puts(todo'[p], e) = One(w = e) /\ One(w = e) \in Nat
    BY <1>11, <1>12 DEF One
  <2> QED
    BY <2>1, <2>2, <2>3
<1>15. /\ CodeOf(todo'[p], onfail'[p], reg'[p]) /\ Bare(todo'[p]) = n
       /\ LockFree(Bare(todo'[p])) /\ ~PendsIn(Bare(todo'[p]), onfail'[p])
       /\ ~At(Bare(todo'[p]), "remove")
  BY <1>11, <1>12, <1>13
<1> QED
  BY <1>3, <1>8, <1>9, <1>12, <1>14, <1>15

\* The end of a call that leaves the disk as it is.
LEMMA PutIpStep ==
    ASSUME Sound, Running, NEW p \in Proc, Coding(p), ~Doing(p, "removed"),
           ~Pends(p), IpHeld(reg[p]), CanLock(p, reg[p].ip), PutIp(p),
           icache' = icache \/ icache' = Read(reg[p].ip),
           disk' = disk, fd' = fd, cwd' = cwd, lost' = lost, panic' = "none"
    PROVE  Sound'
<1>1. reg[p].ip \in Entry /\ Holds(p, reg[p].ip)
  BY RegsHeld DEF IpHeld
<1>2. /\ Grown(icache') /\ Alive(icache', disk)
      /\ \A f \in Entry : icache'[f].ref = icache[f].ref
  <2>1. CASE icache' = icache
    BY <2>1, GrownSame DEF Sound
  <2>2. CASE icache' = Read(reg[p].ip)
    BY <1>1, <2>2, ReadHeld
  <2> QED
    BY <2>1, <2>2
<1>3. /\ CodeType' /\ Alone(p)
      /\ lock' \in [Entry -> Proc \cup {None}] /\ LockStep(p)
      /\ CodeOf(todo'[p], onfail'[p], reg'[p])
      /\ LockFree(Bare(todo'[p])) /\ ~PendsIn(Bare(todo'[p]), onfail'[p])
      /\ ~At(Bare(todo'[p]), "remove")
      /\ reg'[p].dp = None
      /\ \A e \in Entry :
            InRegs(reg[p], e) = InRegs(reg'[p], e) + Puts(todo'[p], e)
  BY PutIpCode
<1>4. \A e \in Entry :
          icache'[e].ref + InRegs(reg[p], e)
              = icache[e].ref + (InRegs(reg'[p], e) + Puts(todo'[p], e))
  BY <1>2, <1>3
<1>5. \A e \in Entry : reg'[p].dp # e
  BY <1>3, NoneIsNoEntry
<1> QED
  BY <1>2, <1>3, <1>4, <1>5, StepTo

LEMMA MadeStep ==
    ASSUME Sound, Running, NEW p \in Proc, Made(p)
    PROVE  Sound'
<1>1. PICK what : what = "made"
  OBVIOUS
<1>2. Does(p, what) /\ what \notin {"put", "drop"}
  BY <1>1 DEF Made
<1>3. /\ Coding(p) /\ todo[p] # << >> /\ Head(todo[p])[1] = what
      /\ Fits(todo[p], onfail[p], reg[p])
      /\ Pends(p) <=> PendsIn(todo[p], onfail[p])
      /\ \A x : Doing(p, x) <=> x = what
  BY <1>2, DoesCode
<1>4. IpHeld(reg[p])
  BY <1>1, <1>3, FitsAt
<1>5. ~Pends(p) /\ ~Doing(p, "removed") /\ Doing(p, "made")
  BY <1>1, <1>3 DEF PendsIn, At
<1>6. CanLock(p, reg[p].ip)
  BY <1>5 DEF Sound, LocksOf, CanLock
<1>7. /\ PutIp(p) /\ UNCHANGED <<disk, icache, fd, cwd, lost, panic>>
  BY DEF Made
<1>8. panic' = "none"
  BY <1>7 DEF Running
<1> QED
  BY <1>3, <1>4, <1>5, <1>6, <1>7, <1>8, PutIpStep

\* What is done where create fails.
LEMMA RetryCode ==
    ASSUME NEW b, b = << >> \/ Retry(b), NEW n, n = << >>,
           NEW r, r.w = None, r.ip = None, r.dp = None
    PROVE  /\ Fits(b, n, r) /\ ~PendsIn(b, n)
           /\ LockFree(b) /\ ~At(b, "remove")
<1>1. CASE b = << >>
  BY <1>1 DEF Fits, NoneHeld, PendsIn, LockFree, At, Last
<1>2. CASE Retry(b)
  <2>1. WithDp(Tail(b), n, r.ip)
    BY <1>2 DEF WithDp, Retry, Making
  <2>2. Walking(b, n, r)
    BY <1>2, <2>1 DEF Walking, Retry
  <2>3. Fits(b, n, r)
    BY <1>2, <2>2 DEF Fits, Retry
  <2>4. ~PendsIn(b, n) /\ LockFree(b) /\ ~At(b, "remove")
    BY <1>2 DEF PendsIn, Retry, LockFree, At, Last
  <2> QED
    BY <2>3, <2>4
<1> QED
  BY <1>1, <1>2

\* What dp holds under the last name of the path.
LEMMA FoundInode ==
    ASSUME Sound, Running, NEW p \in Proc, reg[p].dp # None, Found(p) # 0
    PROVE  /\ Found(p) \in Inum /\ disk[Found(p)].type # "none"
           /\ Found(p) # icache[reg[p].dp].inum
<1>1. /\ reg[p].dp \in Entry /\ icache[reg[p].dp].inum \in Inum
      /\ reg[p].name \in Name
  BY RegsHeld
<1> QED
  BY <1>1, NextInode DEF Found

\* create finds the name.
LEMMA CreateFoundStep ==
    ASSUME Sound, Running, NEW p \in Proc, CreateFound(p)
    PROVE  Sound'
<1> DEFINE dp == reg[p].dp
           i == Found(p)
           g == GetEntry(i)
           r == reg'[p]
<1>1. PICK what : what = "create"
  OBVIOUS
<1>2. Does(p, what) /\ what \notin {"put", "drop"} /\ CanLock(p, dp) /\ i # 0
  BY <1>1 DEF CreateFound
<1>3. /\ Coding(p) /\ todo[p] # << >> /\ Head(todo[p])[1] = what
      /\ Head(todo[p]) \in Instr /\ Fits(todo[p], onfail[p], reg[p])
      /\ Rest(p) \in Seq(Instr) /\ Plain(Rest(p))
      /\ onfail[p] \in Seq(Instr) /\ Plain(onfail[p])
      /\ Pends(p) <=> PendsIn(todo[p], onfail[p])
      /\ \A x : Doing(p, x) <=> x = what
  BY <1>2, DoesCode
<1>4. /\ Making(Arg(p), Rest(p), onfail[p]) /\ reg[p].w = None
      /\ dp # None /\ reg[p].ip = None
  BY <1>1, <1>3, FitsAt DEF DpHeld, Arg, Rest
<1>5. ~Pends(p) /\ ~Doing(p, "removed")
  BY <1>1, <1>3 DEF PendsIn, At
<1>6. dp \in Entry /\ Holds(p, dp)
  BY <1>4, RegsHeld
<1>7. i \in Inum /\ disk[i].type # "none"
  BY <1>2, <1>4, FoundInode
<1>8. CASE ~CanGet(i)
  <2>1. Panics("iget: no inodes")
    BY <1>8 DEF CreateFound
  <2> QED
    BY <2>1, PanicStep DEF Panics
<1>9. CASE CanGet(i)
  <2>1. CodeType /\ TypeOK /\ None \notin Entry
    BY NoneIsNoEntry DEF Sound
  <2>2. Arg(p) \in Kinds
    BY <1>1, <1>3, Carried DEF Arg
  <2> DEFINE x == <<"exists", Arg(p)>>
             l == <<x>> \o Rest(p)
  <2>3. x \in Instr /\ ~IsPut(x) /\ x[1] = "exists" /\ x[2] = Arg(p)
    BY <2>2, Written1 DEF IsPut
  <2>4. <<<<"put", dp>>, x>> \o Rest(p) = PutThen(dp, l)
    BY <1>3, <1>6, <2>3, PutPair
  <2>5. /\ icache' = Get(Read(dp), i) /\ panic' = "none"
        /\ reg' = [NoDp(p) EXCEPT ![p].ip = g]
        /\ todo' = [todo EXCEPT ![p] = PutThen(dp, l)]
        /\ UNCHANGED <<disk, lock, onfail, fd, cwd, lost>>
    BY <1>9, <2>4 DEF CreateFound, Then, Running
  <2>6. /\ g \in Entry /\ Grown(icache') /\ Alive(icache', disk)
        /\ \A f \in Entry : icache'[f].ref = icache[f].ref + One(f = g)
    <3>1. PICK j \in Inum : j = i
      BY <1>7
    <3>2. PICK m : m = Get(Read(dp), j)
      OBVIOUS
    <3>3. PICK e \in Entry : e = dp
      BY <1>6
    <3>4. m = Get(Read(e), j) /\ Holds(p, e) /\ CanGet(j) /\ disk[j].type # "none"
      BY <1>6, <1>7, <1>9, <3>1, <3>2, <3>3
    <3>5. /\ GetEntry(j) \in Entry /\ Grown(m) /\ Alive(m, disk)
          /\ \A f \in Entry : m[f].ref = icache[f].ref + One(f = GetEntry(j))
      BY <3>4, GetHeld
    <3> QED
      BY <2>5, <3>1, <3>2, <3>5
  <2> HIDE DEF i, g
  <2>7. /\ reg' \in [Proc -> Registers]
        /\ \A q \in Proc : q # p => reg'[q] = reg[q]
        /\ r.w = None /\ r.ip = g /\ r.dp = None
    BY <1>4, <2>1, <2>5, <2>6 DEF CodeType, Registers, Pointer, NoDp
  <2> HIDE DEF x
  <2>8. /\ l \in Seq(Instr) /\ Plain(l) /\ l # << >> /\ Head(l) = x
        /\ Tail(l) = Rest(p) /\ At(l, x[1])
    BY <1>3, <2>3, CodeMore
  <2> HIDE DEF l, r, dp
  <2>9. /\ Fits(l, onfail[p], r) /\ LockFree(l) /\ ~At(l, "remove")
        /\ ~PendsIn(l, onfail[p])
    <3>1. IpHeld(r)
      BY <2>1, <2>6, <2>7 DEF IpHeld
    <3>2. Fits(l, onfail[p], r)
      BY <1>4, <2>3, <2>8, <3>1 DEF Fits
    <3> QED
      BY <2>3, <2>8, <3>2 DEF LockFree, PendsIn, At
  <2>10. /\ CodeOf(PutThen(dp, l), onfail[p], r) /\ Bare(PutThen(dp, l)) = l
         /\ PutThen(dp, l) \in Seq(Instr)
         /\ \A f : Puts(PutThen(dp, l), f) = One(dp = f)
    BY <1>3, <1>6, <2>7, <2>8, <2>9, CodePut
  <2>11. CodeType' /\ Alone(p) /\ todo'[p] = PutThen(dp, l) /\ onfail'[p] = onfail[p]
    BY <2>1, <2>5, <2>7, <2>10 DEF CodeType, Alone
  <2>12. /\ CodeOf(todo'[p], onfail'[p], reg'[p]) /\ LockFree(Bare(todo'[p]))
         /\ ~At(Bare(todo'[p]), "remove") /\ ~PendsIn(Bare(todo'[p]), onfail'[p])
    BY <2>9, <2>10, <2>11 DEF r
  <2>13. ASSUME NEW e \in Entry
         PROVE  icache'[e].ref + InRegs(reg[p], e)
                   = icache[e].ref + (InRegs(reg'[p], e) + Puts(todo'[p], e))
    <3>1. InRegs(reg[p], e) = One(dp = e)
      BY <1>4, <2>1 DEF InRegs, One, dp
    <3>2. InRegs(reg'[p], e) = One(e = g)
      BY <2>1, <2>7 DEF InRegs, One, r
    <3>3. Puts(todo'[p], e) = One(dp = e) /\ One(dp = e) \in Nat /\ One(e = g) \in Nat
      BY <2>10, <2>11 DEF One
    <3>4. icache[e].ref \in Nat
      BY <2>1, CacheType DEF Caches, CacheEntry
    <3>5. icache'[e].ref = icache[e].ref + One(e = g)
      BY <2>6
    <3> QED
      BY <3>1, <3>2, <3>3, <3>4, <3>5
  <2>14. \A e \in Entry : reg'[p].dp # e
    BY <2>1, <2>7 DEF r
  <2>15. lock' \in [Entry -> Proc \cup {None}] /\ LockStep(p)
    BY <2>1, <2>5 DEF TypeOK, LockStep
  <2>16. disk' = disk /\ fd' = fd /\ cwd' = cwd /\ lost' = lost
    BY <2>5
  <2> QED
    BY <1>3, <1>5, <2>5, <2>6, <2>11, <2>12, <2>13, <2>14, <2>15, <2>16, StepTo
<1> QED
  BY <1>8, <1>9

\* What create finds is used, or put again.
LEMMA ExistsStep ==
    ASSUME Sound, Running, NEW p \in Proc, Exists(p)
    PROVE  Sound'
<1> DEFINE w == reg[p].ip
           r == reg'[p]
<1>1. PICK what : what = "exists"
  OBVIOUS
<1>2. Does(p, what) /\ what \notin {"put", "drop"} /\ CanLock(p, w)
  BY <1>1 DEF Exists
<1>3. /\ Coding(p) /\ todo[p] # << >> /\ Head(todo[p])[1] = what
      /\ Head(todo[p]) \in Instr /\ Fits(todo[p], onfail[p], reg[p])
      /\ Rest(p) \in Seq(Instr) /\ Plain(Rest(p))
      /\ onfail[p] \in Seq(Instr) /\ Plain(onfail[p])
      /\ Pends(p) <=> PendsIn(todo[p], onfail[p])
      /\ \A x : Doing(p, x) <=> x = what
  BY <1>2, DoesCode
<1>4. Making(Arg(p), Rest(p), onfail[p]) /\ IpHeld(reg[p])
  BY <1>1, <1>3, FitsAt DEF Arg, Rest
<1>5. ~Pends(p) /\ ~Doing(p, "removed")
  BY <1>1, <1>3 DEF PendsIn, At
<1>6. w \in Entry /\ Holds(p, w) /\ reg[p].w = None /\ reg[p].dp = None
  BY <1>4, RegsHeld DEF IpHeld
<1>7. CodeType /\ TypeOK /\ None \notin Entry
  BY NoneIsNoEntry DEF Sound
<1>8. /\ icache' = Read(w) /\ panic' = "none"
      /\ disk' = disk /\ fd' = fd /\ cwd' = cwd /\ lost' = lost
  BY DEF Exists, Running
<1>9. /\ Grown(icache') /\ Alive(icache', disk)
      /\ \A f \in Entry : icache'[f].ref = icache[f].ref
  BY <1>6, <1>8, ReadHeld
<1>10. CASE Inode(w).type = Arg(p) /\ ~IsDir(w)
  <2>1. /\ lock' = [lock EXCEPT ![w] = p]
        /\ todo' = [todo EXCEPT ![p] = Rest(p)]
        /\ onfail' = onfail /\ reg' = reg
    BY <1>10 DEF Exists, Then
  <2>2. Arg(p) # "dir"
    BY <1>10 DEF IsDir
  <2>3. Last(Rest(p), "open") \/ Last(Rest(p), "write")
    BY <1>4, <2>2 DEF Making
  <2>4. /\ Fits(Rest(p), onfail[p], reg[p]) /\ ~At(Rest(p), "remove")
        /\ ~PendsIn(Rest(p), onfail[p])
    BY <1>4, <2>3 DEF Fits, PendsIn, At, Last
  <2>5. CodeOf(Rest(p), onfail[p], reg[p]) /\ Bare(Rest(p)) = Rest(p)
        /\ \A e : Puts(Rest(p), e) = 0
    BY <1>3, <1>6, <2>4, CodePlain
  <2>6. CodeType' /\ Alone(p) /\ todo'[p] = Rest(p)
    BY <1>3, <1>7, <1>8, <2>1 DEF CodeType, Alone
  <2>7. /\ CodeOf(todo'[p], onfail'[p], reg'[p])
        /\ ~At(Bare(todo'[p]), "remove") /\ ~PendsIn(Bare(todo'[p]), onfail'[p])
    BY <2>1, <2>4, <2>5, <2>6
  <2>8. lock' \in [Entry -> Proc \cup {None}] /\ LockStep(p) /\ lock'[w] = p
    BY <1>2, <1>6, <1>7, <2>1 DEF TypeOK, LockStep, CanLock
  <2>9. LocksOf(p)'
    <3>1. \A x : Doing(p, x)' => x \in {"open", "write"}
      BY <2>3, <2>5, <2>6 DEF Doing, At, Last
    <3> QED
      BY <2>1, <2>8, <3>1 DEF LocksOf
  <2>10. \A e \in Entry :
            icache'[e].ref + InRegs(reg[p], e)
                = icache[e].ref + (InRegs(reg'[p], e) + Puts(todo'[p], e))
    <3> SUFFICES ASSUME NEW e \in Entry
                 PROVE  icache'[e].ref + InRegs(reg[p], e)
                           = icache[e].ref + (InRegs(reg'[p], e) + Puts(todo'[p], e))
      OBVIOUS
    <3>1. PICK x \in Nat : x = InRegs(reg[p], e)
      BY DEF InRegs, One
    <3>2. InRegs(reg'[p], e) + Puts(todo'[p], e) = x
      BY <2>1, <2>5, <2>6, <3>1
    <3> QED
      BY <1>9, <3>1, <3>2
  <2>11. \A e \in Entry : reg'[p].dp # e
    BY <1>6, <1>7, <2>1
  <2> QED
    BY <1>3, <1>5, <1>8, <1>9, <2>6, <2>7, <2>8, <2>9, <2>10, <2>11, StepTo
<1>11. CASE ~(Inode(w).type = Arg(p) /\ ~IsDir(w))
  <2>1. PICK n : n = << >>
    OBVIOUS
  <2> DEFINE l == onfail[p]
  <2>2. /\ reg' = [reg EXCEPT ![p].ip = None]
        /\ todo' = [todo EXCEPT ![p] = PutThen(w, l)]
        /\ onfail' = [onfail EXCEPT ![p] = n] /\ lock' = lock
    BY <1>11, <2>1 DEF Exists, Then, PutThen
  <2>3. /\ reg' \in [Proc -> Registers]
        /\ \A q \in Proc : q # p => reg'[q] = reg[q]
        /\ r.w = None /\ r.ip = None /\ r.dp = None
    BY <1>6, <1>7, <2>2 DEF CodeType, Registers, Pointer
  <2> HIDE DEF r, w
  <2>4. l = << >> \/ Retry(l)
    BY <1>4 DEF Making
  <2>5. /\ Fits(l, n, r) /\ ~PendsIn(l, n) /\ LockFree(l) /\ ~At(l, "remove")
        /\ n \in Seq(Instr) /\ Plain(n)
    BY <2>1, <2>3, <2>4, RetryCode, Nothing
  <2> HIDE DEF l
  <2>6. l \in Seq(Instr) /\ Plain(l)
    BY <1>3 DEF l
  <2>7. /\ CodeOf(PutThen(w, l), n, r) /\ Bare(PutThen(w, l)) = l
        /\ PutThen(w, l) \in Seq(Instr)
        /\ \A f : Puts(PutThen(w, l), f) = One(w = f)
    BY <1>6, <2>3, <2>5, <2>6, CodePut
  <2>8. CodeType' /\ Alone(p) /\ todo'[p] = PutThen(w, l) /\ onfail'[p] = n
    BY <1>7, <1>8, <2>2, <2>3, <2>5, <2>7 DEF CodeType, Alone
  <2>9. /\ CodeOf(todo'[p], onfail'[p], reg'[p]) /\ LockFree(Bare(todo'[p]))
        /\ ~At(Bare(todo'[p]), "remove") /\ ~PendsIn(Bare(todo'[p]), onfail'[p])
    BY <2>5, <2>7, <2>8 DEF r
  <2>10. ASSUME NEW e \in Entry
         PROVE  icache'[e].ref + InRegs(reg[p], e)
                   = icache[e].ref + (InRegs(reg'[p], e) + Puts(todo'[p], e))
    <3>1. InRegs(reg[p], e) = One(w = e)
      BY <1>6, <1>7 DEF InRegs, One, w
    <3>2. InRegs(reg'[p], e) = 0
      BY <1>7, <2>3 DEF InRegs, One, r
    <3>3. Puts(todo'[p], e) = One(w = e) /\ One(w = e) \in Nat
      BY <2>7, <2>8 DEF One
    <3> QED
      BY <1>9, <3>1, <3>2, <3>3
  <2>11. \A e \in Entry : reg'[p].dp # e
    BY <1>7, <2>3 DEF r
  <2>12. lock' \in [Entry -> Proc \cup {None}] /\ LockStep(p)
    BY <1>7, <2>2 DEF TypeOK, LockStep
  <2> QED
    BY <1>3, <1>5, <1>8, <1>9, <2>8, <2>9, <2>10, <2>11, <2>12, StepTo
<1> QED
  BY <1>10, <1>11

\* open follows a symbolic link.
LEMMA FollowStep ==
    ASSUME Sound, Running, NEW p \in Proc, Follow(p)
    PROVE  Sound'
<1> DEFINE w == reg[p].ip
           way == Inode(w).target
           r == reg'[p]
<1>1. PICK what : what = "open"
  OBVIOUS
<1>2. Does(p, what) /\ what \notin {"put", "drop"} /\ CanLock(p, w)
  BY <1>1 DEF Follow
<1>3. /\ Coding(p) /\ todo[p] # << >> /\ Head(todo[p])[1] = what
      /\ Fits(todo[p], onfail[p], reg[p])
      /\ Pends(p) <=> PendsIn(todo[p], onfail[p])
      /\ \A x : Doing(p, x) <=> x = what
  BY <1>2, DoesCode
<1>4. IpHeld(reg[p])
  BY <1>1, <1>3, FitsAt
<1>5. ~Pends(p) /\ ~Doing(p, "removed")
  BY <1>1, <1>3 DEF PendsIn, At
<1>6. /\ w \in Entry /\ Holds(p, w) /\ reg[p].w = None /\ reg[p].dp = None
      /\ icache[w].inum \in Inum
  BY <1>4, RegsHeld DEF IpHeld
<1>7. CodeType /\ TypeOK /\ None \notin Entry
  BY NoneIsNoEntry DEF Sound
<1>8. CASE way = << >>
  <2>1. Panics("no target")
    BY <1>8 DEF Follow
  <2> QED
    BY <2>1, PanicStep DEF Panics
<1>9. CASE way # << >>
  <2>1. way \in Way
    <3>1. Inode(w) \in Inodes
      BY <1>6, <1>7, DiskType DEF Disks, Inode
    <3>2. way \in Targets
      BY <1>9, <3>1 DEF Inodes
    <3> QED
      BY <3>2, PathFacts DEF Targets
  <2> DEFINE x == <<"walk", way, FALSE>>
             y == <<"open", FALSE>>
             l == <<x, y>>
  <2>2. /\ x \in Instr /\ ~IsPut(x) /\ x[1] = "walk" /\ x[3] = FALSE
        /\ y \in Instr /\ ~IsPut(y) /\ y[1] = "open" /\ <<"put", w>> \in Instr
    BY <1>6, <2>1, Written1 DEF IsPut
  <2>3. <<<<"put", w>>, x, y>> = PutThen(w, l)
    <3> HIDE DEF x, y
    <3> QED
      BY <2>2, WrittenThree DEF PutThen
  <2>4. PICK n : n = << >>
    OBVIOUS
  <2>5. /\ icache' = Read(w) /\ panic' = "none"
        /\ lock' = [lock EXCEPT ![w] = None]
        /\ reg' = [reg EXCEPT ![p].ip = None]
        /\ todo' = [todo EXCEPT ![p] = PutThen(w, l)]
        /\ onfail' = [onfail EXCEPT ![p] = n]
        /\ disk' = disk /\ fd' = fd /\ cwd' = cwd /\ lost' = lost
    BY <1>9, <2>3, <2>4 DEF Follow, Then, Running
  <2>6. /\ Grown(icache') /\ Alive(icache', disk)
        /\ \A f \in Entry : icache'[f].ref = icache[f].ref
    BY <1>6, <2>5, ReadHeld
  <2>7. /\ reg' \in [Proc -> Registers]
        /\ \A q \in Proc : q # p => reg'[q] = reg[q]
        /\ r.w = None /\ r.ip = None /\ r.dp = None
    BY <1>6, <1>7, <2>5 DEF CodeType, Registers, Pointer
  <2>8. lock' \in [Entry -> Proc \cup {None}] /\ LockStep(p)
    BY <1>2, <1>6, <1>7, <2>5 DEF TypeOK, LockStep, CanLock
  <2> HIDE DEF x, y
  <2>9. /\ l \in Seq(Instr) /\ Plain(l) /\ l # << >> /\ Head(l) = x
        /\ At(l, x[1]) /\ Last(Tail(l), y[1])
    BY <2>2, CodeTwo
  <2> HIDE DEF l, r, w, way
  <2>10. /\ Fits(l, n, r) /\ LockFree(l) /\ ~At(l, "remove") /\ ~PendsIn(l, n)
    <3>1. WithIp(Tail(l), n)
      BY <2>2, <2>4, <2>9 DEF WithIp
    <3>2. Walking(l, n, r)
      BY <2>2, <2>7, <2>9, <3>1 DEF Walking
    <3>3. Fits(l, n, r)
      BY <2>2, <2>7, <2>9, <3>2 DEF Fits
    <3> QED
      BY <2>2, <2>4, <2>9, <3>3 DEF LockFree, PendsIn, At, Last
  <2>11. n \in Seq(Instr) /\ Plain(n)
    BY <2>4, Nothing
  <2>12. /\ CodeOf(PutThen(w, l), n, r) /\ Bare(PutThen(w, l)) = l
         /\ PutThen(w, l) \in Seq(Instr)
         /\ \A f : Puts(PutThen(w, l), f) = One(w = f)
    BY <1>6, <2>7, <2>9, <2>10, <2>11, CodePut
  <2>13. CodeType' /\ Alone(p) /\ todo'[p] = PutThen(w, l) /\ onfail'[p] = n
    BY <1>7, <2>5, <2>7, <2>11, <2>12 DEF CodeType, Alone
  <2>14. /\ CodeOf(todo'[p], onfail'[p], reg'[p]) /\ LockFree(Bare(todo'[p]))
         /\ ~At(Bare(todo'[p]), "remove") /\ ~PendsIn(Bare(todo'[p]), onfail'[p])
    BY <2>10, <2>12, <2>13 DEF r
  <2>15. ASSUME NEW e \in Entry
         PROVE  icache'[e].ref + InRegs(reg[p], e)
                   = icache[e].ref + (InRegs(reg'[p], e) + Puts(todo'[p], e))
    <3>1. InRegs(reg[p], e) = One(w = e)
      BY <1>6, <1>7 DEF InRegs, One, w
    <3>2. InRegs(reg'[p], e) = 0
      BY <1>7, <2>7 DEF InRegs, One, r
    <3>3. Puts(todo'[p], e) = One(w = e) /\ One(w = e) \in Nat
      BY <2>12, <2>13 DEF One
    <3> QED
      BY <2>6, <3>1, <3>2, <3>3
  <2>16. \A e \in Entry : reg'[p].dp # e
    BY <1>7, <2>7 DEF r
  <2> QED
    BY <1>3, <1>5, <2>5, <2>6, <2>8, <2>13, <2>14, <2>15, <2>16, StepTo
<1> QED
  BY <1>8, <1>9

\* open ends: the pointer becomes that of the descriptor, or is put.
LEMMA OpenedStep ==
    ASSUME Sound, Running, NEW p \in Proc, Opened(p)
    PROVE  Sound'
<1> DEFINE w == reg[p].ip
           r == reg'[p]
<1>1. PICK what : what = "open"
  OBVIOUS
<1>2. Does(p, what) /\ what \notin {"put", "drop"} /\ CanLock(p, w)
  BY <1>1 DEF Opened
<1>3. /\ Coding(p) /\ todo[p] # << >> /\ Head(todo[p])[1] = what
      /\ Fits(todo[p], onfail[p], reg[p])
      /\ Pends(p) <=> PendsIn(todo[p], onfail[p])
      /\ \A x : Doing(p, x) <=> x = what
  BY <1>2, DoesCode
<1>4. IpHeld(reg[p])
  BY <1>1, <1>3, FitsAt
<1>5. ~Pends(p) /\ ~Doing(p, "removed")
  BY <1>1, <1>3 DEF PendsIn, At
<1>6. w \in Entry /\ Holds(p, w) /\ reg[p].w = None /\ reg[p].dp = None
  BY <1>4, RegsHeld DEF IpHeld
<1>7. CodeType /\ TypeOK /\ None \notin Entry
  BY NoneIsNoEntry DEF Sound
<1>8. /\ icache' = Read(w) /\ panic' = "none"
      /\ disk' = disk /\ cwd' = cwd /\ lost' = lost
  BY DEF Opened, Running
<1>9. CASE fd[p] # None
  <2>1. PutIp(p) /\ fd' = fd
    BY <1>9 DEF Opened
  <2> QED
    BY <1>2, <1>3, <1>4, <1>5, <1>8, <2>1, PutIpStep
<1>10. CASE fd[p] = None
  <2>1. PICK n : n = << >>
    OBVIOUS
  <2>2. /\ fd' = [fd EXCEPT ![p] = w] /\ lock' = [lock EXCEPT ![w] = None]
        /\ reg' = [reg EXCEPT ![p].ip = None]
        /\ todo' = [todo EXCEPT ![p] = n] /\ onfail' = [onfail EXCEPT ![p] = n]
    BY <1>10, <2>1 DEF Opened, Then
  <2>3. /\ Grown(icache') /\ Alive(icache', disk)
        /\ \A f \in Entry : icache'[f].ref = icache[f].ref
    BY <1>6, <1>8, ReadHeld
  <2>4. /\ reg' \in [Proc -> Registers]
        /\ \A q \in Proc : q # p => reg'[q] = reg[q]
        /\ r.w = None /\ r.ip = None /\ r.dp = None
    BY <1>6, <1>7, <2>2 DEF CodeType, Registers, Pointer
  <2>5. lock' \in [Entry -> Proc \cup {None}] /\ LockStep(p)
    BY <1>2, <1>6, <1>7, <2>2 DEF TypeOK, LockStep, CanLock
  <2>6. /\ fd' \in [Proc -> Pointer] /\ cwd' \in [Proc -> Entry]
        /\ lost' \in [Entry -> Nat] /\ fd'[p] = w
        /\ \A q \in Proc : q # p => fd'[q] = fd[q]
    BY <1>6, <1>7, <1>8, <2>2 DEF TypeOK, Pointer
  <2>7. n \in Seq(Instr) /\ Plain(n)
    BY <2>1, Nothing
  <2> HIDE DEF r, w
  <2>8. /\ Fits(n, n, r) /\ LockFree(n) /\ ~At(n, "remove") /\ ~PendsIn(n, n)
    BY <2>1, <2>4 DEF Fits, NoneHeld, LockFree, At, PendsIn
  <2>9. CodeOf(n, n, r) /\ Bare(n) = n /\ \A e : Puts(n, e) = 0
    BY <2>4, <2>7, <2>8, CodePlain
  <2>10. CodeType' /\ Alone(p) /\ todo'[p] = n /\ onfail'[p] = n
    BY <1>7, <1>8, <2>2, <2>4, <2>6, <2>7 DEF CodeType, Alone
  <2>11. /\ CodeOf(todo[p], onfail[p], reg[p])' /\ LockFree(Bare(todo'[p]))
         /\ ~At(Bare(todo'[p]), "remove") /\ ~PendsIn(Bare(todo'[p]), onfail'[p])
    <3>1. CodeOf(todo'[p], onfail'[p], reg'[p])
      BY <2>9, <2>10 DEF r
    <3> QED
      BY <2>8, <2>9, <2>10, <3>1 DEF CodeOf
  <2>12. LocksOf(p)'
    BY <2>11, PendsInCode
  <2>13. ASSUME NEW e \in Entry
         PROVE  icache'[e].ref + lost[e] + Kept(p, e)
                   = icache[e].ref + lost'[e] + (Kept(p, e)' + Puts(todo'[p], e))
    <3>1. Kept(p, e) = One(cwd[p] = e) + One(w = e)
      BY <1>6, <1>7, <1>10 DEF Kept, One, w
    <3>2. Kept(p, e)' = One(w = e) + One(cwd[p] = e)
      BY <1>7, <1>8, <2>4, <2>6 DEF Kept, One, r
    <3>3. Puts(todo'[p], e) = 0 /\ One(w = e) \in Nat /\ One(cwd[p] = e) \in Nat
      BY <2>9, <2>10 DEF One
    <3>4. icache'[e].ref = icache[e].ref /\ lost'[e] = lost[e]
      BY <1>8, <2>3
    <3> QED
      BY <3>1, <3>2, <3>3, <3>4
  <2>14. \A e \in Entry : reg'[p].dp # e
    BY <1>7, <2>4 DEF r
  <2> HIDE DEF Running
  <2> QED
    BY <1>3, <1>5, <1>8, <2>3, <2>5, <2>6, <2>10, <2>11, <2>12, <2>13, <2>14,
       QuietBy
<1> QED
  BY <1>9, <1>10

\* close: the pointer of the descriptor is put.
LEMMA CloseStep ==
    ASSUME Sound, Running, NEW p \in Proc, SysClose(p)
    PROVE  Sound'
<1> DEFINE w == fd[p]
<1>1. todo[p] = << >> /\ w # None
  BY DEF SysClose, May
<1>2. /\ Coding(p) /\ NoneHeld(reg[p]) /\ ~Pends(p) /\ Bare(todo[p]) = << >>
      /\ ~Doing(p, "removed")
  BY <1>1, AtRest
<1>3. CodeType /\ TypeOK /\ None \notin Entry
  BY NoneIsNoEntry DEF Sound
<1>4. w \in Entry
  BY <1>1, <1>3 DEF TypeOK
<1>5. PICK n : n = << >>
  OBVIOUS
<1>6. n \in Seq(Instr) /\ Plain(n)
  BY <1>5, Nothing
<1>7. <<<<"put", w>>>> = PutThen(w, n)
  <2>1. <<"put", w>> \in Instr
    BY <1>4, Written1
  <2> QED
    BY <1>5, <2>1, Written DEF PutThen
<1>8. /\ fd' = [fd EXCEPT ![p] = None]
      /\ todo' = [todo EXCEPT ![p] = PutThen(w, n)]
      /\ disk' = disk /\ icache' = icache /\ lock' = lock /\ onfail' = onfail
      /\ reg' = reg /\ cwd' = cwd /\ lost' = lost /\ panic' = "none"
  BY <1>7 DEF SysClose, Then, Running
<1>9. Grown(icache') /\ Alive(icache', disk)
  BY <1>3, <1>8, GrownSame
<1>10. /\ fd' \in [Proc -> Pointer] /\ cwd' \in [Proc -> Entry]
       /\ lost' \in [Entry -> Nat] /\ fd'[p] = None
       /\ \A q \in Proc : q # p => fd'[q] = fd[q]
       /\ lock' \in [Entry -> Proc \cup {None}] /\ LockStep(p)
  BY <1>3, <1>8 DEF TypeOK, Pointer, LockStep
<1>11. onfail[p] \in Seq(Instr) /\ Plain(onfail[p])
  BY <1>2, CodingFacts
<1>12. /\ Fits(n, onfail[p], reg[p]) /\ LockFree(n) /\ ~At(n, "remove")
       /\ ~PendsIn(n, onfail[p]) /\ reg[p].dp = None
  BY <1>2, <1>5 DEF Fits, NoneHeld, LockFree, At, PendsIn
<1> HIDE DEF w
<1>13. /\ CodeOf(PutThen(w, n), onfail[p], reg[p]) /\ Bare(PutThen(w, n)) = n
       /\ PutThen(w, n) \in Seq(Instr)
       /\ \A f : Puts(PutThen(w, n), f) = One(w = f)
  BY <1>4, <1>6, <1>11, <1>12, CodePut
<1>14. CodeType' /\ Alone(p) /\ todo'[p] = PutThen(w, n)
  BY <1>3, <1>8, <1>10, <1>13 DEF CodeType, Alone
<1>15. /\ CodeOf(todo[p], onfail[p], reg[p])' /\ LockFree(Bare(todo'[p]))
       /\ ~At(Bare(todo'[p]), "remove") /\ ~PendsIn(Bare(todo'[p]), onfail'[p])
  <2>1. CodeOf(todo'[p], onfail'[p], reg'[p])
    BY <1>8, <1>13, <1>14
  <2> QED
    BY <1>8, <1>12, <1>13, <1>14, <2>1 DEF CodeOf
<1>16. LocksOf(p)'
  BY <1>15, PendsInCode
<1>17. ASSUME NEW e \in Entry
       PROVE  icache'[e].ref + lost[e] + Kept(p, e)
                 = icache[e].ref + lost'[e] + (Kept(p, e)' + Puts(todo'[p], e))
  <2>1. Kept(p, e) = One(w = e) + One(cwd[p] = e)
    BY <1>2, <1>3 DEF Kept, One, NoneHeld, w
  <2>2. Kept(p, e)' = One(cwd[p] = e)
    BY <1>2, <1>3, <1>8, <1>10 DEF Kept, One, NoneHeld
  <2>3. /\ Puts(todo'[p], e) = One(w = e) /\ One(w = e) \in Nat
        /\ One(cwd[p] = e) \in Nat
    BY <1>13, <1>14 DEF One
  <2>4. icache'[e].ref = icache[e].ref /\ lost'[e] = lost[e]
    BY <1>8
  <2> QED
    BY <2>1, <2>2, <2>3, <2>4
<1>18. \A e \in Entry : reg'[p].dp # e
  BY <1>3, <1>8, <1>12
<1> HIDE DEF Running
<1> QED
  BY <1>2, <1>8, <1>9, <1>10, <1>14, <1>15, <1>16, <1>17, <1>18, QuietBy

\* symlink forgets the pointer to the target.
LEMMA ForgetStep ==
    ASSUME Sound, Running, NEW p \in Proc, Forget(p)
    PROVE  Sound'
<1> DEFINE w == reg[p].ip
           r == reg'[p]
           s == todo[p]
<1>1. PICK what : what = "forget"
  OBVIOUS
<1>2. Does(p, what) /\ what \notin {"put", "drop"}
  BY <1>1 DEF Forget
<1>3. /\ Coding(p) /\ s # << >> /\ Head(s)[1] = what
      /\ Fits(s, onfail[p], reg[p])
      /\ Rest(p) \in Seq(Instr) /\ Plain(Rest(p))
      /\ onfail[p] \in Seq(Instr) /\ Plain(onfail[p])
      /\ Pends(p) <=> PendsIn(s, onfail[p])
      /\ \A x : Doing(p, x) <=> x = what
  BY <1>2, DoesCode
<1>4. Linking(s) /\ onfail[p] = << >> /\ IpHeld(reg[p])
  BY <1>1, <1>3, FitsAt
<1>5. ~Pends(p) /\ ~Doing(p, "removed")
  BY <1>1, <1>3 DEF PendsIn, At
<1>6. w \in Entry /\ Holds(p, w) /\ reg[p].w = None /\ reg[p].dp = None
  BY <1>4, RegsHeld DEF IpHeld
<1>7. CodeType /\ TypeOK /\ None \notin Entry
  BY NoneIsNoEntry DEF Sound
<1>8. /\ lost' = [lost EXCEPT ![w] = @ + 1]
      /\ reg' = [reg EXCEPT ![p].ip = None]
      /\ todo' = [todo EXCEPT ![p] = Rest(p)]
      /\ disk' = disk /\ icache' = icache /\ lock' = lock /\ onfail' = onfail
      /\ fd' = fd /\ cwd' = cwd /\ panic' = "none"
  BY DEF Forget, Then, Running
<1>9. Grown(icache') /\ Alive(icache', disk)
  BY <1>7, <1>8, GrownSame
<1>10. /\ reg' \in [Proc -> Registers]
       /\ \A q \in Proc : q # p => reg'[q] = reg[q]
       /\ r.w = None /\ r.ip = None /\ r.dp = None
  BY <1>6, <1>7, <1>8 DEF CodeType, Registers, Pointer
<1>11. /\ fd' \in [Proc -> Pointer] /\ cwd' \in [Proc -> Entry]
       /\ lost' \in [Entry -> Nat] /\ lost'[w] = lost[w] + 1 /\ lost[w] \in Nat
       /\ \A f \in Entry : f # w => lost'[f] = lost[f]
       /\ lock' \in [Entry -> Proc \cup {None}] /\ LockStep(p)
  <2> HIDE DEF w
  <2>1. lost \in [Entry -> Nat] /\ lost[w] \in Nat
    BY <1>6, <1>7 DEF TypeOK
  <2>2. lost' \in [Entry -> Nat] /\ lost'[w] = lost[w] + 1
        /\ \A f \in Entry : f # w => lost'[f] = lost[f]
    BY <1>6, <1>8, <2>1
  <2> QED
    BY <1>7, <1>8, <2>1, <2>2 DEF TypeOK, Pointer, LockStep
<1> HIDE DEF r
<1>12. /\ Fits(Rest(p), onfail[p], r) /\ LockFree(Rest(p))
       /\ ~At(Rest(p), "remove") /\ ~PendsIn(Rest(p), onfail[p])
  <2>1. /\ At(Rest(p), "walk") /\ Head(Rest(p))[3] = TRUE
        /\ At(Tail(Rest(p)), "create") /\ Head(Tail(Rest(p)))[2] = "sym"
        /\ Last(Tail(Tail(Rest(p))), "write")
    BY <1>4 DEF Linking, Rest
  <2>2. WithDp(Tail(Rest(p)), onfail[p], r.ip)
    BY <1>4, <1>10, <2>1 DEF WithDp, Making
  <2>3. Walking(Rest(p), onfail[p], r)
    BY <1>10, <2>1, <2>2 DEF Walking
  <2>4. Fits(Rest(p), onfail[p], r)
    BY <1>10, <2>1, <2>3 DEF Fits
  <2> QED
    BY <1>4, <2>1, <2>4 DEF LockFree, PendsIn, At, Last
<1>13. CodeOf(Rest(p), onfail[p], r) /\ Bare(Rest(p)) = Rest(p)
       /\ \A e : Puts(Rest(p), e) = 0
  BY <1>3, <1>10, <1>12, CodePlain
<1>14. CodeType' /\ Alone(p) /\ todo'[p] = Rest(p)
  BY <1>3, <1>7, <1>8, <1>10 DEF CodeType, Alone
<1>15. /\ CodeOf(todo[p], onfail[p], reg[p])' /\ LockFree(Bare(todo'[p]))
       /\ ~At(Bare(todo'[p]), "remove") /\ ~PendsIn(Bare(todo'[p]), onfail'[p])
  <2>1. CodeOf(todo'[p], onfail'[p], reg'[p])
    BY <1>8, <1>13, <1>14 DEF r
  <2> QED
    BY <1>8, <1>12, <1>13, <1>14, <2>1 DEF CodeOf
<1>16. LocksOf(p)'
  BY <1>15, PendsInCode
<1>17. ASSUME NEW e \in Entry
       PROVE  icache'[e].ref + lost[e] + Kept(p, e)
                 = icache[e].ref + lost'[e] + (Kept(p, e)' + Puts(todo'[p], e))
  <2>1. PICK a \in Nat : a = One(fd[p] = e) + One(cwd[p] = e)
    BY DEF One
  <2>2. PICK b \in Nat : b = One(w = e)
    BY DEF One
  <2>3. Kept(p, e) = a + b
    BY <1>6, <1>7, <2>1, <2>2 DEF Kept, One
  <2>4. Kept(p, e)' = a
    BY <1>7, <1>8, <1>10, <2>1 DEF Kept, One, r
  <2>5. lost[e] \in Nat /\ lost'[e] = lost[e] + b
    <3> HIDE DEF w
    <3>1. lost[e] \in Nat
      BY <1>7 DEF TypeOK
    <3>2. b = IF w = e THEN 1 ELSE 0
      BY <2>2 DEF One
    <3> QED
      BY <1>11, <3>1, <3>2
  <2>6. icache'[e].ref = icache[e].ref /\ icache[e].ref \in Nat
    BY <1>7, <1>8, CacheType DEF Caches, CacheEntry
  <2>7. Puts(todo'[p], e) = 0
    BY <1>13, <1>14
  <2>8. PICK c \in Nat, d \in Nat : c = icache[e].ref /\ d = lost[e]
    BY <2>5, <2>6
  <2>9. c + d + (a + b) = c + (d + b) + (a + 0)
    OBVIOUS
  <2> QED
    BY <2>3, <2>4, <2>5, <2>6, <2>7, <2>8, <2>9
<1>18. \A e \in Entry : reg'[p].dp # e
  BY <1>7, <1>10 DEF r
<1> HIDE DEF Running
<1> QED
  BY <1>3, <1>5, <1>8, <1>9, <1>11, <1>14, <1>15, <1>16, <1>17, <1>18, QuietBy

\* chdir takes the pointer for its own, and puts the old one.
LEMMA ChdirStep ==
    ASSUME Sound, Running, NEW p \in Proc, Chdir(p)
    PROVE  Sound'
<1> DEFINE w == reg[p].ip
           old == cwd[p]
           r == reg'[p]
<1>1. PICK what : what = "chdir"
  OBVIOUS
<1>2. Does(p, what) /\ what \notin {"put", "drop"} /\ CanLock(p, w)
  BY <1>1 DEF Chdir
<1>3. /\ Coding(p) /\ todo[p] # << >> /\ Head(todo[p])[1] = what
      /\ Fits(todo[p], onfail[p], reg[p])
      /\ onfail[p] \in Seq(Instr) /\ Plain(onfail[p])
      /\ Pends(p) <=> PendsIn(todo[p], onfail[p])
      /\ \A x : Doing(p, x) <=> x = what
  BY <1>2, DoesCode
<1>4. IpHeld(reg[p])
  BY <1>1, <1>3, FitsAt
<1>5. ~Pends(p) /\ ~Doing(p, "removed")
  BY <1>1, <1>3 DEF PendsIn, At
<1>6. w \in Entry /\ Holds(p, w) /\ reg[p].w = None /\ reg[p].dp = None
  BY <1>4, RegsHeld DEF IpHeld
<1>7. CodeType /\ TypeOK /\ None \notin Entry
  BY NoneIsNoEntry DEF Sound
<1>8. /\ icache' = Read(w) /\ panic' = "none"
      /\ disk' = disk /\ fd' = fd /\ lost' = lost
  BY DEF Chdir, Running
<1>9. CASE ~IsDir(w)
  <2>1. PutIp(p) /\ cwd' = cwd
    BY <1>9 DEF Chdir
  <2> QED
    BY <1>2, <1>3, <1>4, <1>5, <1>8, <2>1, PutIpStep
<1>10. CASE IsDir(w)
  <2>1. PICK n : n = << >>
    OBVIOUS
  <2>2. old \in Entry
    BY <1>7 DEF TypeOK
  <2>3. <<<<"put", old>>>> = PutThen(old, n)
    <3>1. <<"put", old>> \in Instr
      BY <2>2, Written1
    <3> QED
      BY <2>1, <3>1, Written DEF PutThen
  <2>4. /\ cwd' = [cwd EXCEPT ![p] = w] /\ lock' = lock /\ onfail' = onfail
        /\ reg' = [reg EXCEPT ![p].ip = None]
        /\ todo' = [todo EXCEPT ![p] = PutThen(old, n)]
    BY <1>10, <2>3 DEF Chdir, Then
  <2>5. /\ Grown(icache') /\ Alive(icache', disk)
        /\ \A f \in Entry : icache'[f].ref = icache[f].ref
    BY <1>6, <1>8, ReadHeld
  <2>6. /\ reg' \in [Proc -> Registers]
        /\ \A q \in Proc : q # p => reg'[q] = reg[q]
        /\ r.w = None /\ r.ip = None /\ r.dp = None
    BY <1>6, <1>7, <2>4 DEF CodeType, Registers, Pointer
  <2>7. /\ fd' \in [Proc -> Pointer] /\ cwd' \in [Proc -> Entry]
        /\ lost' \in [Entry -> Nat] /\ cwd'[p] = w
        /\ \A q \in Proc : q # p => cwd'[q] = cwd[q]
        /\ lock' \in [Entry -> Proc \cup {None}] /\ LockStep(p)
    BY <1>6, <1>7, <1>8, <2>4 DEF TypeOK, Pointer, LockStep
  <2>8. n \in Seq(Instr) /\ Plain(n)
    BY <2>1, Nothing
  <2> HIDE DEF r, w, old
  <2>9. /\ Fits(n, onfail[p], r) /\ LockFree(n) /\ ~At(n, "remove")
        /\ ~PendsIn(n, onfail[p])
    BY <2>1, <2>6 DEF Fits, NoneHeld, LockFree, At, PendsIn
  <2>10. /\ CodeOf(PutThen(old, n), onfail[p], r) /\ Bare(PutThen(old, n)) = n
         /\ PutThen(old, n) \in Seq(Instr)
         /\ \A f : Puts(PutThen(old, n), f) = One(old = f)
    BY <1>3, <2>2, <2>6, <2>8, <2>9, CodePut
  <2>11. CodeType' /\ Alone(p) /\ todo'[p] = PutThen(old, n)
    BY <1>7, <1>8, <2>4, <2>6, <2>7, <2>10 DEF CodeType, Alone
  <2>12. /\ CodeOf(todo[p], onfail[p], reg[p])' /\ LockFree(Bare(todo'[p]))
         /\ ~At(Bare(todo'[p]), "remove") /\ ~PendsIn(Bare(todo'[p]), onfail'[p])
    <3>1. CodeOf(todo'[p], onfail'[p], reg'[p])
      BY <2>4, <2>10, <2>11 DEF r
    <3> QED
      BY <2>4, <2>9, <2>10, <2>11, <3>1 DEF CodeOf
  <2>13. LocksOf(p)'
    BY <2>12, PendsInCode
  <2>14. ASSUME NEW e \in Entry
         PROVE  icache'[e].ref + lost[e] + Kept(p, e)
                   = icache[e].ref + lost'[e] + (Kept(p, e)' + Puts(todo'[p], e))
    <3>1. PICK a \in Nat : a = One(fd[p] = e)
      BY DEF One
    <3>2. PICK b \in Nat : b = One(w = e)
      BY DEF One
    <3>3. PICK c \in Nat : c = One(old = e)
      BY DEF One
    <3>4. Kept(p, e) = a + c + b
      BY <1>6, <1>7, <3>1, <3>2, <3>3 DEF Kept, One, w, old
    <3>5. Kept(p, e)' = a + b
      BY <1>7, <1>8, <2>6, <2>7, <3>1, <3>2 DEF Kept, One, r
    <3>6. Puts(todo'[p], e) = c
      BY <2>10, <2>11, <3>3
    <3>7. icache[e].ref \in Nat /\ lost[e] \in Nat
      BY <1>7, CacheType DEF Caches, CacheEntry, TypeOK
    <3>8. icache'[e].ref = icache[e].ref /\ lost'[e] = lost[e]
      BY <1>8, <2>5
    <3>9. PICK x \in Nat, y \in Nat : x = icache[e].ref /\ y = lost[e]
      BY <3>7
    <3>10. x + y + (a + c + b) = x + y + ((a + b) + c)
      OBVIOUS
    <3> QED
      BY <3>4, <3>5, <3>6, <3>8, <3>9, <3>10
  <2>15. \A e \in Entry : reg'[p].dp # e
    BY <1>7, <2>6 DEF r
  <2> HIDE DEF Running
  <2> QED
    BY <1>3, <1>5, <1>8, <2>5, <2>7, <2>11, <2>12, <2>13, <2>14, <2>15, QuietBy
<1> QED
  BY <1>9, <1>10

\* link finds the name in the directory already.
LEMMA LinkFoundStep ==
    ASSUME Sound, Running, NEW p \in Proc, LinkFound(p)
    PROVE  Sound'
<1> DEFINE dp == reg[p].dp
           i == Found(p)
           g == GetEntry(i)
<1>1. PICK what : what = "linknew"
  OBVIOUS
<1>2. Does(p, what) /\ what \notin {"put", "drop"} /\ CanLock(p, dp) /\ i # 0
  BY <1>1 DEF LinkFound
<1>3. /\ Coding(p) /\ todo[p] # << >> /\ Head(todo[p])[1] = what
      /\ Fits(todo[p], onfail[p], reg[p])
      /\ onfail[p] \in Seq(Instr) /\ Plain(onfail[p])
      /\ Pends(p) <=> PendsIn(todo[p], onfail[p])
      /\ \A x : Doing(p, x) <=> x = what
  BY <1>2, DoesCode
<1>4. Last(onfail[p], "linkbad") /\ DpHeld(reg[p]) /\ reg[p].ip # None
  BY <1>1, <1>3, FitsAt
<1>5. Pends(p) /\ ~Doing(p, "removed")
  BY <1>1, <1>3 DEF PendsIn, At
<1>6. /\ dp \in Entry /\ Holds(p, dp) /\ icache[dp].ref > 0 /\ IsDir(dp)
      /\ reg[p].name \in Name /\ dp # None
  BY <1>4, RegsHeld DEF DpHeld
<1>7. i \in Inum /\ disk[i].type # "none"
  BY <1>2, <1>6, FoundInode
<1>8. CASE ~CanGet(i)
  <2>1. Panics("iget: no inodes")
    BY <1>8 DEF LinkFound
  <2> QED
    BY <2>1, PanicStep DEF Panics
<1>9. CASE CanGet(i)
  <2>1. CodeType /\ TypeOK /\ None \notin Entry
    BY NoneIsNoEntry DEF Sound
  <2> DEFINE x == <<"giveup">>
             l == <<x>>
  <2>2. x \in Instr /\ ~IsPut(x) /\ x[1] = "giveup"
    BY Written1 DEF IsPut
  <2>3. g \in Entry
    BY <1>7, <1>9, <2>1, Gotten DEF Sound
  <2>4. <<<<"put", g>>, x>> = PutThen(g, l)
    <3>1. <<"put", g>> \in Instr
      BY <2>3, Written1
    <3> HIDE DEF x, i, g
    <3> QED
      BY <2>2, <3>1, WrittenTwo DEF PutThen
  <2>5. /\ icache' = Get(Read(dp), i) /\ panic' = "none"
        /\ lock' = [lock EXCEPT ![dp] = p]
        /\ todo' = [todo EXCEPT ![p] = PutThen(g, l)]
        /\ disk' = disk /\ onfail' = onfail /\ reg' = reg
        /\ fd' = fd /\ cwd' = cwd /\ lost' = lost
    BY <1>9, <2>4 DEF LinkFound, Then, Running
  <2>6. /\ Grown(icache') /\ Alive(icache', disk)
        /\ \A f \in Entry : icache'[f].ref = icache[f].ref + One(f = g)
    <3>1. PICK j \in Inum : j = i
      BY <1>7
    <3>2. PICK m : m = Get(Read(dp), j)
      OBVIOUS
    <3>3. PICK e \in Entry : e = dp
      BY <1>6
    <3>4. m = Get(Read(e), j) /\ Holds(p, e) /\ CanGet(j) /\ disk[j].type # "none"
      BY <1>6, <1>7, <1>9, <3>1, <3>2, <3>3
    <3>5. /\ Grown(m) /\ Alive(m, disk)
          /\ \A f \in Entry : m[f].ref = icache[f].ref + One(f = GetEntry(j))
      BY <3>4, GetHeld
    <3> QED
      BY <2>5, <3>1, <3>2, <3>5
  <2> HIDE DEF i, g, x
  <2>7. /\ l \in Seq(Instr) /\ Plain(l) /\ l # << >> /\ Head(l) = x
        /\ Tail(l) = << >> /\ Last(l, x[1])
    BY <2>2, CodeOne
  <2> HIDE DEF l
  <2>8. /\ Fits(l, onfail[p], reg[p]) /\ ~At(l, "remove") /\ PendsIn(l, onfail[p])
    BY <1>4, <2>2, <2>7 DEF Fits, PendsIn, At, Last
  <2>9. /\ CodeOf(PutThen(g, l), onfail[p], reg[p]) /\ Bare(PutThen(g, l)) = l
        /\ PutThen(g, l) \in Seq(Instr)
        /\ \A f : Puts(PutThen(g, l), f) = One(g = f)
    BY <1>3, <1>6, <2>3, <2>7, <2>8, CodePut
  <2>10. CodeType' /\ Alone(p) /\ todo'[p] = PutThen(g, l)
    BY <2>1, <2>5, <2>9 DEF CodeType, Alone
  <2>11. /\ CodeOf(todo'[p], onfail'[p], reg'[p])
         /\ ~At(Bare(todo'[p]), "remove") /\ PendsIn(Bare(todo'[p]), onfail'[p])
    BY <2>5, <2>8, <2>9, <2>10
  <2>12. lock' \in [Entry -> Proc \cup {None}] /\ LockStep(p) /\ lock'[dp] = p
    BY <1>2, <1>6, <2>1, <2>5 DEF TypeOK, LockStep, CanLock
  <2>13. LocksOf(p)'
    <3>1. \A y : Doing(p, y)' => y = "giveup"
      BY <2>2, <2>7, <2>9, <2>10 DEF Doing, At, Last
    <3> QED
      BY <2>5, <2>12, <3>1 DEF LocksOf
  <2>14. ASSUME NEW e \in Entry
         PROVE  icache'[e].ref + InRegs(reg[p], e)
                   = icache[e].ref + (InRegs(reg'[p], e) + Puts(todo'[p], e))
    <3>1. PICK a \in Nat : a = InRegs(reg[p], e)
      BY DEF InRegs, One
    <3>2. PICK b \in Nat : b = One(e = g)
      BY DEF One
    <3>3. Puts(todo'[p], e) = b
      BY <2>9, <2>10, <3>2 DEF One
    <3>4. PICK c \in Nat : c = icache[e].ref
      BY <2>1, CacheType DEF Caches, CacheEntry
    <3>5. (c + b) + a = c + (a + b)
      OBVIOUS
    <3> QED
      BY <2>5, <2>6, <3>1, <3>2, <3>3, <3>4, <3>5
  <2>15. \A e \in Entry : reg'[p].dp = e => icache[e].ref > 0 /\ IsDir(e)
    BY <1>6, <2>5
  <2> QED
    BY <1>3, <1>5, <2>5, <2>6, <2>10, <2>11, <2>12, <2>13, <2>14, <2>15, StepTo
<1> QED
  BY <1>8, <1>9

-----------------------------------------------------------------------------
(* Names and links *)

\* The places where a disk d names i, and the directories in directory i.
Namings(d, i) == {x \in Inum \X Name : d[x[1]].ents[x[2]] = i}
Children(d, i) == {n \in Name : /\ d[i].ents[n] # 0
                                /\ d[d[i].ents[n]].type = "dir"}

LEMMA CountsAre ==
    ASSUME NEW i
    PROVE  /\ Entries(i) = Cardinality(Namings(disk, i))
           /\ Entries(i)' = Cardinality(Namings(disk', i))
           /\ Subdirs(i) = Cardinality(Children(disk, i))
           /\ Subdirs(i)' = Cardinality(Children(disk', i))
  BY DEF Entries, Namings, Subdirs, Children

LEMMA CountsFinite ==
    ASSUME NEW d, NEW i
    PROVE  /\ IsFiniteSet(Namings(d, i)) /\ Cardinality(Namings(d, i)) \in Nat
           /\ IsFiniteSet(Children(d, i)) /\ Cardinality(Children(d, i)) \in Nat
<1>1. IsFiniteSet(Inum) /\ IsFiniteSet(Name)
  BY FsConstants, FS_Interval DEF Inum
<1>2. IsFiniteSet(Inum \X Name)
  BY <1>1, FS_Product
<1>3. Namings(d, i) \subseteq Inum \X Name /\ Children(d, i) \subseteq Name
  BY DEF Namings, Children
<1> QED
  BY <1>1, <1>2, <1>3, FS_Subset, FS_CardinalityType

\* The link count of an inode in use.
LEMMA Accounts ==
    ASSUME Sound, Running, NEW i \in Inum, disk[i].type # "none"
    PROVE  \E a \in Nat, b \in Nat, c \in Nat, s \in Nat :
              /\ a = Cardinality(Namings(disk, i)) /\ b = One(i = root)
              /\ c = Cardinality(Pending(i))
              /\ s = (IF disk[i].type = "dir"
                      THEN Cardinality(Children(disk, i)) ELSE 0)
              /\ disk[i].nlink = a + b + c + s
<1>1. PICK a \in Nat : a = Cardinality(Namings(disk, i))
  BY CountsFinite
<1>2. PICK b \in Nat : b = One(i = root)
  BY DEF One
<1>3. PICK c \in Nat : c = Cardinality(Pending(i))
  <2>1. IsFiniteSet(Pending(i))
    <3>1. Pending(i) \subseteq Proc
      BY DEF Pending
    <3> QED
      BY <3>1, FsConstants, FS_Subset
  <2> QED
    BY <2>1, FS_CardinalityType
<1>4. PICK s \in Nat : s = (IF disk[i].type = "dir"
                            THEN Cardinality(Children(disk, i)) ELSE 0)
  BY CountsFinite
<1>5. disk[i].nlink = Entries(i) + One(i = root) + Cardinality(Pending(i))
                      + (IF disk[i].type = "dir" THEN Subdirs(i) ELSE 0)
  BY DEF Sound, Account
<1>6. disk[i].nlink = a + b + c + s
  BY <1>1, <1>2, <1>3, <1>4, <1>5, CountsAre
<1> QED
  BY <1>1, <1>2, <1>3, <1>4, <1>6

\* What has a name has a link.
LEMMA NamedIsLinked ==
    ASSUME Sound, Running, NEW i \in Inum, disk[i].type # "none",
           NEW d \in Inum, NEW n \in Name, disk[d].ents[n] = i
    PROVE  disk[i].nlink \in Nat /\ disk[i].nlink >= 1
<1>1. <<d, n>> \in Namings(disk, i)
  BY DEF Namings
<1>2. Cardinality(Namings(disk, i)) >= 1
  BY <1>1, CountsFinite, AtLeast
<1> QED
  BY <1>2, Accounts

\* unlink has found the directory it is to remove not empty.
LEMMA RemoveNotStep ==
    ASSUME Sound, Running, NEW p \in Proc, RemoveNot(p)
    PROVE  Sound'
<1> DEFINE w == reg[p].ip
           r == reg'[p]
<1>1. PICK what : what = "remove"
  OBVIOUS
<1>2. Does(p, what) /\ what \notin {"put", "drop"} /\ CanLock(p, w)
  BY <1>1 DEF RemoveNot
<1>3. /\ Coding(p) /\ todo[p] # << >> /\ Head(todo[p])[1] = what
      /\ Fits(todo[p], onfail[p], reg[p])
      /\ onfail[p] \in Seq(Instr) /\ Plain(onfail[p])
      /\ Pends(p) <=> PendsIn(todo[p], onfail[p])
      /\ \A x : Doing(p, x) <=> x = what
  BY <1>2, DoesCode
<1>4. onfail[p] = << >> /\ DpHeld(reg[p]) /\ reg[p].ip # None
  BY <1>1, <1>3, FitsAt
<1>5. ~Pends(p) /\ ~Doing(p, "removed") /\ Doing(p, "remove")
  BY <1>1, <1>3 DEF PendsIn, At
<1>6. /\ w \in Entry /\ Holds(p, w) /\ icache[w].inum \in Inum
      /\ Inode(w).type # "none"
      /\ reg[p].dp \in Entry /\ icache[reg[p].dp].ref > 0 /\ IsDir(reg[p].dp)
      /\ icache[reg[p].dp].inum \in Inum
      /\ reg[p].name \in Name /\ reg[p].dp # None /\ reg[p].w = None
  BY <1>4, RegsHeld DEF DpHeld
<1>7. CodeType /\ TypeOK /\ None \notin Entry
  BY NoneIsNoEntry DEF Sound
<1>8. Found(p) = icache[w].inum /\ lock[reg[p].dp] = p
  BY <1>5 DEF Sound, MeaningOf, LocksOf
<1>9. Inode(w).nlink \in Nat /\ Inode(w).nlink >= 1
  BY <1>6, <1>8, NamedIsLinked DEF Found, Inode
<1>10. ~(Inode(w).nlink < 1)
  BY <1>9
<1> DEFINE x == <<"giveup">>
           l == <<x>>
<1>11. x \in Instr /\ ~IsPut(x) /\ x[1] = "giveup"
  BY Written1 DEF IsPut
<1>12. <<<<"put", w>>, x>> = PutThen(w, l)
  <2>1. <<"put", w>> \in Instr
    BY <1>6, Written1
  <2> HIDE DEF x, w
  <2> QED
    BY <1>11, <2>1, WrittenTwo DEF PutThen
<1>13. /\ icache' = Read(w) /\ panic' = "none" /\ lock' = lock
       /\ reg' = [reg EXCEPT ![p].ip = None]
       /\ todo' = [todo EXCEPT ![p] = PutThen(w, l)]
       /\ disk' = disk /\ onfail' = onfail
       /\ fd' = fd /\ cwd' = cwd /\ lost' = lost
  BY <1>10, <1>12 DEF RemoveNot, Then, Running
<1>14. /\ Grown(icache') /\ Alive(icache', disk)
       /\ \A f \in Entry : icache'[f].ref = icache[f].ref
  BY <1>6, <1>13, ReadHeld
<1> HIDE DEF x
<1>15. /\ l \in Seq(Instr) /\ Plain(l) /\ l # << >> /\ Head(l) = x
       /\ Tail(l) = << >> /\ Last(l, x[1])
  BY <1>11, CodeOne
<1> HIDE DEF l
<1>16. /\ reg' \in [Proc -> Registers]
       /\ \A q \in Proc : q # p => reg'[q] = reg[q]
       /\ r.w = None /\ r.ip = None /\ r.dp = reg[p].dp /\ r.name = reg[p].name
  BY <1>6, <1>7, <1>13 DEF CodeType, Registers, Pointer
<1> HIDE DEF r, w
<1>17. /\ Fits(l, onfail[p], r) /\ ~At(l, "remove") /\ ~PendsIn(l, onfail[p])
  <2>1. DpHeld(r)
    BY <1>6, <1>16 DEF DpHeld
  <2>2. Fits(l, onfail[p], r)
    BY <1>4, <1>11, <1>15, <1>16, <2>1 DEF Fits
  <2> QED
    BY <1>4, <1>11, <1>15, <2>2 DEF PendsIn, At, Last
<1>18. /\ CodeOf(PutThen(w, l), onfail[p], r) /\ Bare(PutThen(w, l)) = l
       /\ PutThen(w, l) \in Seq(Instr)
       /\ \A f : Puts(PutThen(w, l), f) = One(w = f)
  BY <1>3, <1>6, <1>15, <1>16, <1>17, CodePut
<1>19. CodeType' /\ Alone(p) /\ todo'[p] = PutThen(w, l)
  BY <1>7, <1>13, <1>16, <1>18 DEF CodeType, Alone
<1>20. /\ CodeOf(todo'[p], onfail'[p], reg'[p])
       /\ ~At(Bare(todo'[p]), "remove") /\ ~PendsIn(Bare(todo'[p]), onfail'[p])
  BY <1>13, <1>17, <1>18, <1>19 DEF r
<1>21. lock' \in [Entry -> Proc \cup {None}] /\ LockStep(p)
  BY <1>7, <1>13 DEF TypeOK, LockStep
<1>22. LocksOf(p)'
  <2>1. \A y : Doing(p, y)' => y = "giveup"
    BY <1>11, <1>15, <1>18, <1>19 DEF Doing, At, Last
  <2> QED
    BY <1>8, <1>13, <1>16, <2>1 DEF LocksOf, r
<1>23. ASSUME NEW e \in Entry
       PROVE  icache'[e].ref + InRegs(reg[p], e)
                 = icache[e].ref + (InRegs(reg'[p], e) + Puts(todo'[p], e))
  <2>1. PICK a \in Nat : a = One(w = e)
    BY DEF One
  <2>2. PICK b \in Nat : b = One(reg[p].dp = e)
    BY DEF One
  <2>3. InRegs(reg[p], e) = a + b
    BY <1>6, <1>7, <2>1, <2>2 DEF InRegs, One, w
  <2>4. InRegs(reg'[p], e) = b
    BY <1>7, <1>16, <2>2 DEF InRegs, One, r
  <2>5. Puts(todo'[p], e) = a
    BY <1>18, <1>19, <2>1
  <2>6. PICK c \in Nat : c = icache[e].ref
    BY <1>7, CacheType DEF Caches, CacheEntry
  <2>7. c + (a + b) = c + (b + a)
    OBVIOUS
  <2> QED
    BY <1>14, <2>3, <2>4, <2>5, <2>6, <2>7
<1>24. \A e \in Entry : reg'[p].dp = e => icache[e].ref > 0 /\ IsDir(e)
  BY <1>6, <1>16 DEF r
<1> QED
  BY <1>3, <1>5, <1>13, <1>14, <1>19, <1>20, <1>21, <1>22, <1>23, <1>24, StepTo

\* The registers without a directory.
LEMMA WithoutDp ==
    ASSUME CodeType, NEW p \in Proc, NEW m, m = NoDp(p)
    PROVE  /\ m \in [Proc -> Registers]
           /\ \A q \in Proc : q # p => m[q] = reg[q]
           /\ m[p].w = reg[p].w /\ m[p].ip = reg[p].ip
           /\ m[p].dp = None /\ m[p].name = None
<1> DEFINE r == [reg[p] EXCEPT !.dp = None, !.name = None]
<1>1. reg \in [Proc -> Registers] /\ reg[p] \in Registers
  BY RegisterFacts DEF CodeType
<1>2. /\ r \in Registers /\ r.w = reg[p].w /\ r.ip = reg[p].ip
      /\ r.dp = None /\ r.name = None
  BY <1>1 DEF Registers, Pointer
<1>3. m = [reg EXCEPT ![p] = r]
  BY <1>1 DEF NoDp
<1> HIDE DEF r
<1> QED
  BY <1>1, <1>2, <1>3

\* The directory is let go, and what is to be done after a failure is done.
LEMMA GiveUpStep ==
    ASSUME Sound, Running, NEW p \in Proc, GiveUp(p)
    PROVE  Sound'
<1> DEFINE dp == reg[p].dp
           r == reg'[p]
           l == onfail[p]
<1>1. PICK what : what = "giveup"
  OBVIOUS
<1>2. Does(p, what) /\ what \notin {"put", "drop"}
  BY <1>1 DEF GiveUp
<1>3. /\ Coding(p) /\ todo[p] # << >> /\ Head(todo[p])[1] = what
      /\ Fits(todo[p], l, reg[p]) /\ l \in Seq(Instr) /\ Plain(l)
      /\ Pends(p) <=> PendsIn(todo[p], l)
      /\ \A x : Doing(p, x) <=> x = what
  BY <1>2, DoesCode
<1>4. /\ DpHeld(reg[p])
      /\ \/ Last(l, "linkbad") /\ reg[p].ip # None
         \/ l = << >> /\ reg[p].ip = None
  BY <1>1, <1>3, FitsAt
<1>5. (Pends(p) <=> Last(l, "linkbad")) /\ ~Doing(p, "removed") /\ Doing(p, "giveup")
  BY <1>1, <1>3 DEF PendsIn, At
<1>6. dp \in Entry /\ dp # None /\ reg[p].w = None
  BY <1>4, RegsHeld DEF DpHeld
<1>7. CodeType /\ TypeOK /\ None \notin Entry
  BY NoneIsNoEntry DEF Sound
<1>8. lock[dp] = p
  BY <1>5 DEF Sound, LocksOf
<1>9. PICK n : n = << >>
  OBVIOUS
<1>10. /\ lock' = [lock EXCEPT ![dp] = None] /\ reg' = NoDp(p)
       /\ todo' = [todo EXCEPT ![p] = PutThen(dp, l)]
       /\ onfail' = [onfail EXCEPT ![p] = n]
       /\ disk' = disk /\ icache' = icache
       /\ fd' = fd /\ cwd' = cwd /\ lost' = lost /\ panic' = "none"
  BY <1>9 DEF GiveUp, Then, PutThen, Running
<1>11. Grown(icache') /\ Alive(icache', disk)
  BY <1>7, <1>10, GrownSame
<1>12. /\ reg' \in [Proc -> Registers]
       /\ \A q \in Proc : q # p => reg'[q] = reg[q]
       /\ r.w = None /\ r.ip = reg[p].ip /\ r.dp = None
  BY <1>6, <1>7, <1>10, WithoutDp
<1>13. lock' \in [Entry -> Proc \cup {None}] /\ LockStep(p)
  BY <1>6, <1>7, <1>8, <1>10 DEF TypeOK, LockStep
<1>14. n \in Seq(Instr) /\ Plain(n)
  BY <1>9, Nothing
<1> HIDE DEF r, l, dp
<1>15. /\ Fits(l, n, r) /\ (PendsIn(l, n) <=> Last(l, "linkbad"))
       /\ LockFree(l) /\ ~At(l, "remove")
  <2>1. CASE Last(l, "linkbad") /\ reg[p].ip # None
    BY <1>12, <2>1 DEF Fits, IpHeld, PendsIn, LockFree, At, Last
  <2>2. CASE l = << >> /\ reg[p].ip = None
    BY <1>12, <2>2 DEF Fits, NoneHeld, PendsIn, LockFree, At, Last
  <2> QED
    BY <1>4, <2>1, <2>2 DEF l
<1>16. /\ CodeOf(PutThen(dp, l), n, r) /\ Bare(PutThen(dp, l)) = l
       /\ PutThen(dp, l) \in Seq(Instr)
       /\ \A f : Puts(PutThen(dp, l), f) = One(dp = f)
  BY <1>3, <1>6, <1>12, <1>14, <1>15, CodePut DEF l
<1>17. CodeType' /\ Alone(p) /\ todo'[p] = PutThen(dp, l) /\ onfail'[p] = n
  BY <1>7, <1>10, <1>12, <1>14, <1>16 DEF CodeType, Alone
<1>18. /\ CodeOf(todo'[p], onfail'[p], reg'[p]) /\ LockFree(Bare(todo'[p]))
       /\ ~At(Bare(todo'[p]), "remove")
       /\ PendsIn(Bare(todo'[p]), onfail'[p]) <=> Pends(p)
  BY <1>5, <1>15, <1>16, <1>17 DEF r, l
<1>19. ASSUME NEW e \in Entry
       PROVE  icache'[e].ref + InRegs(reg[p], e)
                 = icache[e].ref + (InRegs(reg'[p], e) + Puts(todo'[p], e))
  <2>1. PICK a \in Nat : a = One(reg[p].ip = e)
    BY DEF One
  <2>2. PICK b \in Nat : b = One(dp = e)
    BY DEF One
  <2>3. InRegs(reg[p], e) = a + b
    BY <1>6, <1>7, <2>1, <2>2 DEF InRegs, One, dp
  <2>4. InRegs(reg'[p], e) = a
    BY <1>7, <1>12, <2>1 DEF InRegs, One, r
  <2>5. Puts(todo'[p], e) = b
    BY <1>16, <1>17, <2>2
  <2> QED
    BY <1>10, <2>3, <2>4, <2>5
<1>20. \A e \in Entry : reg'[p].dp # e
  BY <1>7, <1>12 DEF r
<1>21. Pends(p) => reg'[p].ip = reg[p].ip
  BY <1>12 DEF r
<1> QED
  BY <1>3, <1>5, <1>10, <1>11, <1>13, <1>17, <1>18, <1>19, <1>20, <1>21, StepTo

\* unlink has found the directory; it locks it, and looks the name up.
LEMMA UnlinkNoneStep ==
    ASSUME Sound, Running, NEW p \in Proc, Unlink(p), Found(p) = 0
    PROVE  Sound'
<1> DEFINE dp == reg[p].dp
<1>1. PICK what : what = "unlink"
  OBVIOUS
<1>2. Does(p, what) /\ what \notin {"put", "drop"} /\ CanLock(p, dp)
  BY <1>1 DEF Unlink
<1>3. /\ Coding(p) /\ todo[p] # << >> /\ Head(todo[p])[1] = what
      /\ Fits(todo[p], onfail[p], reg[p])
      /\ onfail[p] \in Seq(Instr) /\ Plain(onfail[p])
      /\ Pends(p) <=> PendsIn(todo[p], onfail[p])
      /\ \A x : Doing(p, x) <=> x = what
  BY <1>2, DoesCode
<1>4. onfail[p] = << >> /\ DpHeld(reg[p]) /\ reg[p].ip = None
  BY <1>1, <1>3, FitsAt
<1>5. ~Pends(p) /\ ~Doing(p, "removed")
  BY <1>1, <1>3 DEF PendsIn, At
<1>6. /\ dp \in Entry /\ Holds(p, dp) /\ icache[dp].ref > 0 /\ IsDir(dp)
      /\ reg[p].name \in Name /\ dp # None
  BY <1>4, RegsHeld DEF DpHeld
<1>7. CodeType /\ TypeOK /\ None \notin Entry
  BY NoneIsNoEntry DEF Sound
<1> DEFINE x == <<"giveup">>
           l == <<x>>
<1>8. x \in Instr /\ ~IsPut(x) /\ x[1] = "giveup"
  BY Written1 DEF IsPut
<1>9. /\ icache' = Read(dp) /\ panic' = "none"
      /\ lock' = [lock EXCEPT ![dp] = p]
      /\ todo' = [todo EXCEPT ![p] = l]
      /\ disk' = disk /\ onfail' = onfail /\ reg' = reg
      /\ fd' = fd /\ cwd' = cwd /\ lost' = lost
  BY DEF Unlink, Then, Running
<1>10. /\ Grown(icache') /\ Alive(icache', disk)
       /\ \A f \in Entry : icache'[f].ref = icache[f].ref
  BY <1>6, <1>9, ReadHeld
<1> HIDE DEF x
<1>11. /\ l \in Seq(Instr) /\ Plain(l) /\ l # << >> /\ Head(l) = x
       /\ Tail(l) = << >> /\ Last(l, x[1])
  BY <1>8, CodeOne
<1> HIDE DEF l
<1>12. /\ Fits(l, onfail[p], reg[p]) /\ ~At(l, "remove") /\ ~PendsIn(l, onfail[p])
  BY <1>4, <1>8, <1>11 DEF Fits, PendsIn, At, Last
<1>13. /\ CodeOf(l, onfail[p], reg[p]) /\ Bare(l) = l /\ \A f : Puts(l, f) = 0
  BY <1>3, <1>6, <1>11, <1>12, CodePlain
<1>14. CodeType' /\ Alone(p) /\ todo'[p] = l
  BY <1>7, <1>9, <1>11 DEF CodeType, Alone
<1>15. /\ CodeOf(todo'[p], onfail'[p], reg'[p])
       /\ ~At(Bare(todo'[p]), "remove") /\ ~PendsIn(Bare(todo'[p]), onfail'[p])
  BY <1>9, <1>12, <1>13, <1>14
<1>16. lock' \in [Entry -> Proc \cup {None}] /\ LockStep(p) /\ lock'[dp] = p
  BY <1>2, <1>6, <1>7, <1>9 DEF TypeOK, LockStep, CanLock
<1>17. LocksOf(p)'
  <2>1. \A y : Doing(p, y)' => y = "giveup"
    BY <1>8, <1>11, <1>13, <1>14 DEF Doing, At, Last
  <2> QED
    BY <1>9, <1>16, <2>1 DEF LocksOf
<1>18. ASSUME NEW e \in Entry
       PROVE  icache'[e].ref + InRegs(reg[p], e)
                 = icache[e].ref + (InRegs(reg'[p], e) + Puts(todo'[p], e))
  <2>1. PICK a \in Nat : a = InRegs(reg[p], e)
    BY DEF InRegs, One
  <2>2. Puts(todo'[p], e) = 0
    BY <1>13, <1>14
  <2>3. a = a + 0
    OBVIOUS
  <2> QED
    BY <1>9, <1>10, <2>1, <2>2, <2>3
<1>19. \A e \in Entry : reg'[p].dp = e => icache[e].ref > 0 /\ IsDir(e)
  BY <1>6, <1>9
<1> QED
  BY <1>3, <1>5, <1>9, <1>10, <1>14, <1>15, <1>16, <1>17, <1>18, <1>19, StepTo

\* The registers with another inode.
AsIp(p, g) == [reg EXCEPT ![p].ip = g]

LEMMA WithIpAs ==
    ASSUME CodeType, NEW p \in Proc, NEW g \in Pointer,
           NEW m, m = AsIp(p, g)
    PROVE  /\ m \in [Proc -> Registers]
           /\ \A q \in Proc : q # p => m[q] = reg[q]
           /\ m[p].w = reg[p].w /\ m[p].ip = g
           /\ m[p].dp = reg[p].dp /\ m[p].name = reg[p].name
<1> DEFINE r == [reg[p] EXCEPT !.ip = g]
<1>1. reg \in [Proc -> Registers] /\ reg[p] \in Registers
  BY RegisterFacts DEF CodeType
<1>2. /\ r \in Registers /\ r.w = reg[p].w /\ r.ip = g
      /\ r.dp = reg[p].dp /\ r.name = reg[p].name
  BY <1>1 DEF Registers
<1>3. m = [reg EXCEPT ![p] = r]
  BY <1>1 DEF AsIp
<1> HIDE DEF r
<1> QED
  BY <1>1, <1>2, <1>3

LEMMA UnlinkFoundStep ==
    ASSUME Sound, Running, NEW p \in Proc, Unlink(p), Found(p) # 0
    PROVE  Sound'
<1> DEFINE dp == reg[p].dp
           i == Found(p)
           g == GetEntry(i)
           r == reg'[p]
<1>1. PICK what : what = "unlink"
  OBVIOUS
<1>2. Does(p, what) /\ what \notin {"put", "drop"} /\ CanLock(p, dp) /\ i # 0
  BY <1>1 DEF Unlink
<1>3. /\ Coding(p) /\ todo[p] # << >> /\ Head(todo[p])[1] = what
      /\ Fits(todo[p], onfail[p], reg[p])
      /\ onfail[p] \in Seq(Instr) /\ Plain(onfail[p])
      /\ Pends(p) <=> PendsIn(todo[p], onfail[p])
      /\ \A x : Doing(p, x) <=> x = what
  BY <1>2, DoesCode
<1>4. onfail[p] = << >> /\ DpHeld(reg[p]) /\ reg[p].ip = None
  BY <1>1, <1>3, FitsAt
<1>5. ~Pends(p) /\ ~Doing(p, "removed")
  BY <1>1, <1>3 DEF PendsIn, At
<1>6. /\ dp \in Entry /\ Holds(p, dp) /\ icache[dp].ref > 0 /\ IsDir(dp)
      /\ reg[p].name \in Name /\ dp # None /\ reg[p].w = None
  BY <1>4, RegsHeld DEF DpHeld
<1>7. i \in Inum /\ disk[i].type # "none"
  BY <1>2, <1>6, FoundInode
<1>8. CASE ~CanGet(i)
  <2>1. Panics("iget: no inodes")
    BY <1>2, <1>8 DEF Unlink
  <2> QED
    BY <2>1, PanicStep DEF Panics
<1>9. CASE CanGet(i)
  <2>1. CodeType /\ TypeOK /\ None \notin Entry
    BY NoneIsNoEntry DEF Sound
  <2> DEFINE x == <<"remove">>
             l == <<x>>
  <2>2. x \in Instr /\ ~IsPut(x) /\ x[1] = "remove"
    BY Written1 DEF IsPut
  <2>3. g \in Entry
    BY <1>7, <1>9, <2>1, Gotten DEF Sound
  <2>4. /\ icache' = Get(Read(dp), i) /\ panic' = "none"
        /\ lock' = [lock EXCEPT ![dp] = p]
        /\ reg' = [reg EXCEPT ![p].ip = g]
        /\ todo' = [todo EXCEPT ![p] = l]
        /\ disk' = disk /\ onfail' = onfail
        /\ fd' = fd /\ cwd' = cwd /\ lost' = lost
    BY <1>2, <1>9 DEF Unlink, Then, Running
  <2>5. /\ Grown(icache') /\ Alive(icache', disk) /\ icache'[g].inum = i
        /\ \A f \in Entry : icache'[f].ref = icache[f].ref + One(f = g)
    <3>1. PICK j \in Inum : j = i
      BY <1>7
    <3>2. PICK m : m = Get(Read(dp), j)
      OBVIOUS
    <3>3. PICK e \in Entry : e = dp
      BY <1>6
    <3>4. m = Get(Read(e), j) /\ Holds(p, e) /\ CanGet(j) /\ disk[j].type # "none"
      BY <1>6, <1>7, <1>9, <3>1, <3>2, <3>3
    <3>5. /\ Grown(m) /\ Alive(m, disk) /\ m[GetEntry(j)].inum = j
          /\ \A f \in Entry : m[f].ref = icache[f].ref + One(f = GetEntry(j))
      BY <3>4, GetHeld
    <3> QED
      BY <2>4, <3>1, <3>2, <3>5
  <2>6. icache'[dp].inum = icache[dp].inum
    BY <1>6, <2>5 DEF Grown
  <2>7. i = disk[icache[dp].inum].ents[reg[p].name]
    BY DEF Found, Inode
  <2>8. Found(p)' = disk'[icache'[reg'[p].dp].inum].ents[reg'[p].name]
    BY DEF Found, Inode
  <2> HIDE DEF i, g, x, dp
  <2>9. g \in Pointer
    BY <2>3 DEF Pointer
  <2>10. /\ reg' \in [Proc -> Registers]
         /\ \A q \in Proc : q # p => reg'[q] = reg[q]
         /\ r.w = None /\ r.ip = g /\ r.dp = dp /\ r.name = reg[p].name
    <3>1. reg' = AsIp(p, g)
      BY <2>4 DEF AsIp
    <3> QED
      BY <1>6, <2>1, <2>9, <3>1, WithIpAs DEF dp
  <2>11. /\ l \in Seq(Instr) /\ Plain(l) /\ l # << >> /\ Head(l) = x
         /\ Tail(l) = << >> /\ Last(l, x[1])
    BY <2>2, CodeOne
  <2> HIDE DEF l, r
  <2>12. g # None
    BY <2>1, <2>3
  <2>13. /\ Fits(l, onfail[p], r) /\ ~PendsIn(l, onfail[p])
    BY <1>4, <1>6, <2>2, <2>10, <2>11, <2>12 DEF Fits, DpHeld, PendsIn, At, Last
  <2>14. /\ CodeOf(l, onfail[p], r) /\ Bare(l) = l /\ \A f : Puts(l, f) = 0
    BY <1>3, <1>6, <2>10, <2>11, <2>13, CodePlain
  <2>15. CodeType' /\ Alone(p) /\ todo'[p] = l
    BY <2>1, <2>4, <2>10, <2>11 DEF CodeType, Alone
  <2>16. /\ CodeOf(todo[p], onfail[p], reg[p])' /\ ~Pends(p)'
         /\ \A y : Doing(p, y)' => y = "remove"
    <3>1. CodeOf(todo'[p], onfail'[p], reg'[p])
      BY <2>4, <2>14, <2>15 DEF r
    <3>2. ~PendsIn(Bare(todo'[p]), onfail'[p])
      BY <2>4, <2>13, <2>14, <2>15
    <3>3. \A y : Doing(p, y)' => y = "remove"
      BY <2>2, <2>11, <2>14, <2>15 DEF Doing, At, Last
    <3> QED
      BY <3>1, <3>2, <3>3, PendsInCode DEF CodeOf
  <2>17. lock' \in [Entry -> Proc \cup {None}] /\ LockStep(p) /\ lock'[dp] = p
    BY <1>2, <1>6, <2>1, <2>4 DEF TypeOK, LockStep, CanLock, dp
  <2>18. LocksOf(p)'
    BY <2>10, <2>16, <2>17 DEF LocksOf, r
  <2>19. ASSUME NEW e \in Entry
         PROVE  icache'[e].ref + lost[e] + Kept(p, e)
                   = icache[e].ref + lost'[e] + (Kept(p, e)' + Puts(todo'[p], e))
    <3>1. PICK a \in Nat : a = One(fd[p] = e) + One(cwd[p] = e)
      BY DEF One
    <3>2. PICK b \in Nat : b = One(e = g)
      BY DEF One
    <3>3. PICK c \in Nat : c = One(dp = e)
      BY DEF One
    <3>4. Kept(p, e) = a + c
      BY <1>4, <1>6, <2>1, <3>1, <3>3 DEF Kept, One, dp
    <3>5. Kept(p, e)' = a + b + c
      <4>1. /\ One(reg'[p].w = e) = 0 /\ One(reg'[p].ip = e) = b
            /\ One(reg'[p].dp = e) = c
        BY <2>1, <2>10, <3>2, <3>3 DEF One, r
      <4> QED
        BY <2>4, <3>1, <4>1 DEF Kept
    <3>6. Puts(todo'[p], e) = 0
      BY <2>14, <2>15
    <3>7. icache[e].ref \in Nat /\ lost[e] \in Nat
      BY <2>1, CacheType DEF Caches, CacheEntry, TypeOK
    <3>8. PICK u \in Nat, v \in Nat : u = icache[e].ref /\ v = lost[e]
      BY <3>7
    <3>9. icache'[e].ref = u + b /\ lost'[e] = v
      BY <2>4, <2>5, <3>2, <3>8
    <3>10. u + b + v + (a + c) = u + v + ((a + b + c) + 0)
      OBVIOUS
    <3> QED
      BY <3>4, <3>5, <3>6, <3>8, <3>9, <3>10
  <2>20. MeaningOf(p)'
    <3>1. IsDir(reg[p].dp)'
      <4>1. icache'[reg'[p].dp].inum = icache[dp].inum
        BY <2>6, <2>10 DEF r
      <4>2. disk[icache[dp].inum].type = "dir"
        BY <1>6 DEF IsDir, Inode
      <4> QED
        BY <2>4, <4>1, <4>2 DEF IsDir, Inode
    <3>2. Found(p)' = i
      BY <2>4, <2>6, <2>7, <2>8, <2>10 DEF r
    <3>3. icache'[reg'[p].ip].inum = i
      BY <2>5, <2>10 DEF r
    <3> QED
      BY <2>16, <3>1, <3>2, <3>3 DEF MeaningOf
  <2>21. \A y : PendOf(p, y)' = PendOf(p, y)
    BY <1>5, <2>16 DEF PendOf, One
  <2>22. icache' \in Caches /\ lost' \in [Entry -> Nat]
    BY <2>1, <2>4, <2>5 DEF Grown, TypeOK
  <2>23. Balance(p) /\ ~Does(p, "drop")
    <3> HIDE DEF Running
    <3> QED
      BY <1>3, <2>15, <2>19, <2>22, BalanceBy, CodingFacts
  <2>24. Busy(p)
    <3>1. disk' \in Disks /\ TypesStay
      BY <2>1, <2>4, DiskType DEF TypesStay
    <3>2. fd' \in [Proc -> Pointer] /\ cwd' \in [Proc -> Entry]
      BY <2>1, <2>4 DEF TypeOK, Pointer
    <3>3. Alive(icache', disk')
      BY <2>4, <2>5
    <3> QED
      BY <2>4, <2>5, <2>15, <2>16, <2>17, <2>18, <2>20, <2>22, <2>23, <3>1, <3>2, <3>3
      DEF Busy
  <2> HIDE DEF Running
  <2> QED
    BY <2>4, <2>21, <2>23, <2>24, QuietStep
<1> QED
  BY <1>8, <1>9

LEMMA UnlinkStep ==
    ASSUME Sound, Running, NEW p \in Proc, Unlink(p)
    PROVE  Sound'
  BY UnlinkNoneStep, UnlinkFoundStep

-----------------------------------------------------------------------------
(* iput *)

\* What a step has to show that takes something away.
Moved(p) ==
    /\ panic' = "none" /\ disk' \in Disks /\ icache' \in Caches
    /\ lock' \in [Entry -> Proc \cup {None}]
    /\ fd' \in [Proc -> Pointer] /\ cwd' \in [Proc -> Entry]
    /\ lost' \in [Entry -> Nat]
    /\ CodeType' /\ Alone(p) /\ CodeOf(todo[p], onfail[p], reg[p])'
    /\ Balance(p) /\ Undisturbed(p) /\ (DirGuard(p) \/ disk' = disk)
    /\ LockStep(p) /\ LocksOf(p)' /\ MeaningOf(p)'

LEMMA MovedStep ==
    ASSUME Sound, Running, NEW p \in Proc, Moved(p),
           OneEntry', FreeOnlyDropped', Account', Tree'
    PROVE  Sound'
<1>1. /\ TypeOK /\ CodeType /\ Code /\ Counted
  BY DEF Sound
<1>2. Running' /\ NoUnlinkPanic'
  BY DEF Moved, Running, NoUnlinkPanic
<1>3. TypeOK'
  <2>1. icache' \in [Entry -> [inum : 0..NINODES, ref : Nat, valid : BOOLEAN]]
    BY DEF Moved, Caches, CacheEntry
  <2>2. disk' \in [Inum -> [type : {"none", "file", "dir", "sym"}, nlink : Nat,
                     ents : [Name -> 0..NINODES],
                     target : {<< >>} \cup UNION {Path[q] : q \in Proc}]]
    BY DEF Moved, Disks, Inodes, Targets
  <2>3. /\ lock' \in [Entry -> Proc \cup {None}]
        /\ fd' \in [Proc -> Entry \cup {None}] /\ cwd' \in [Proc -> Entry]
        /\ lost' \in [Entry -> Nat]
    BY DEF Moved, Pointer
  <2>4. panic' = "none"
    BY DEF Moved
  <2> QED
    BY <2>1, <2>2, <2>3, <2>4, Zenon DEF TypeOK
<1>4. CodeType' /\ Code'
  BY <1>1, CodeStep DEF Moved
<1>5. Counted'
  BY <1>1, CountedStep DEF Moved
<1>6. \A q \in Proc : LocksOf(q)' /\ MeaningOf(q)'
  <2> TAKE q \in Proc
  <2>1. CASE q = p
    BY <2>1 DEF Moved
  <2>2. CASE q # p
    BY <2>2, OthersLocks, OthersMeaning DEF Moved
  <2> QED
    BY <2>1, <2>2
<1> QED
  BY <1>2, <1>3, <1>4, <1>5, <1>6 DEF Sound

\* p goes on with the same code, and what it points to stays.
LEMMA SameMeaning ==
    ASSUME Sound, Running, NEW p \in Proc,
           reg'[p] = reg[p], onfail'[p] = onfail[p],
           Bare(todo'[p]) = Bare(todo[p]), lock' = lock,
           \A f \in Entry : reg[p].ip = f \/ reg[p].dp = f =>
               /\ icache'[f].inum = icache[f].inum
               /\ disk'[icache[f].inum].type = disk[icache[f].inum].type
               /\ disk'[icache[f].inum].ents = disk[icache[f].inum].ents
    PROVE  MeaningOf(p)' /\ LocksOf(p)' /\ \A y : PendOf(p, y)' = PendOf(p, y)
<1>1. CodeType /\ Code /\ MeaningOf(p) /\ LocksOf(p)
  BY DEF Sound
<1>2. (Pends(p)' <=> Pends(p)) /\ \A x : Doing(p, x)' <=> Doing(p, x)
  BY PendsInCode DEF Doing
<1>3. /\ Pends(p) => reg[p].ip \in Entry
      /\ Doing(p, "remove") => reg[p].ip \in Entry /\ reg[p].dp \in Entry
  BY <1>1, WhatIsHeld
<1>4. LocksOf(p)'
  BY <1>1, <1>2 DEF LocksOf
<1>5. ASSUME NEW f \in Entry, reg[p].ip = f \/ reg[p].dp = f
      PROVE  /\ IsDir(f)' <=> IsDir(f)
             /\ \A n : Inode(f).ents[n]' = Inode(f).ents[n]
  BY <1>5 DEF IsDir, Inode
<1>6. \A f \in Entry : reg[p].dp = f => (IsDir(reg[p].dp)' <=> IsDir(reg[p].dp))
  BY <1>5 DEF IsDir, Inode
<1>7. \A f \in Entry : reg[p].ip = f => (IsDir(reg[p].ip)' <=> IsDir(reg[p].ip))
  BY <1>5 DEF IsDir, Inode
<1>8. reg[p].dp # None => reg[p].dp \in Entry
  BY <1>1, RegisterType DEF Pointer
<1>9. reg[p].dp # None => IsDir(reg[p].dp)'
  BY <1>1, <1>6, <1>8 DEF MeaningOf
<1>10. Pends(p) /\ ~Doing(p, "removed") => ~IsDir(reg[p].ip)'
  BY <1>1, <1>3, <1>7 DEF MeaningOf
<1>11. Doing(p, "remove") => Found(p)' = icache'[reg[p].ip].inum
  <2> SUFFICES ASSUME Doing(p, "remove")
               PROVE  Found(p)' = icache'[reg[p].ip].inum
    OBVIOUS
  <2>1. reg[p].ip \in Entry /\ reg[p].dp \in Entry /\ Found(p) = icache[reg[p].ip].inum
    BY <1>1, <1>3 DEF MeaningOf
  <2>2. Found(p) = disk[icache[reg[p].dp].inum].ents[reg[p].name]
    BY DEF Found, Inode
  <2>3. Found(p)' = disk'[icache'[reg[p].dp].inum].ents[reg[p].name]
    BY DEF Found, Inode
  <2> QED
    BY <2>1, <2>2, <2>3
<1>12. MeaningOf(p)'
  BY <1>2, <1>9, <1>10, <1>11 DEF MeaningOf
<1>13. \A y : PendOf(p, y)' = PendOf(p, y)
  BY <1>2, <1>3 DEF PendOf, One
<1> QED
  BY <1>4, <1>12, <1>13

\* Who puts the only pointer to an entry has no other, and nobody has one.
LEMMA Sole ==
    ASSUME Sound, Running, NEW p \in Proc, NEW e \in Entry,
           Puts(todo[p], e) >= 1
    PROVE  /\ icache[e].ref \in Nat /\ icache[e].ref >= 1
           /\ icache[e].ref = 1 =>
                 /\ reg[p].ip # e /\ reg[p].dp # e
                 /\ \A q \in Proc : q # p => ~Holds(q, e)
<1>1. CodeType /\ TypeOK /\ Counted
  BY DEF Sound
<1>2. PICK k \in Nat, s \in Nat : k = Kept(p, e) /\ s = Puts(todo[p], e)
  BY <1>1, PointersSplit
<1>3. Pointers(p, e) = k + s /\ s >= 1
  BY <1>1, <1>2, PointersSplit
<1>4. PICK r \in Nat : r = icache[e].ref
  BY <1>1, CacheType DEF Caches, CacheEntry
<1>5. k + s <= r
  BY <1>1, <1>3, <1>4, CountTwo
<1>6. r >= 1
  BY <1>3, <1>5
<1>7. ASSUME r = 1
      PROVE  /\ reg[p].ip # e /\ reg[p].dp # e
             /\ \A q \in Proc : q # p => ~Holds(q, e)
  <2>1. k = 0
    BY <1>3, <1>5, <1>7
  <2>2. reg[p].ip # e /\ reg[p].dp # e
    <3>1. PICK a \in Nat, b \in Nat, c \in Nat, d \in Nat, x \in Nat :
             /\ a = One(fd[p] = e) /\ b = One(cwd[p] = e) /\ c = One(reg[p].w = e)
             /\ d = One(reg[p].ip = e) /\ x = One(reg[p].dp = e)
      BY DEF One
    <3>2. a + b + c + d + x = 0
      BY <1>2, <2>1, <3>1 DEF Kept
    <3>3. d = 0 /\ x = 0
      BY <3>2
    <3> QED
      BY <3>1, <3>3 DEF One
  <2>3. ASSUME NEW q \in Proc, q # p, Holds(q, e)
        PROVE  FALSE
    <3>1. PICK m \in Nat : m = Pointers(q, e)
      BY <1>1, PointersSplit
    <3>2. m >= 1
      BY <1>1, <2>3, <3>1, HeldOnce
    <3>3. k + s + m <= r
      BY <1>1, <1>3, <1>4, <2>3, <3>1, CountTwo
    <3> QED
      BY <1>3, <1>7, <3>2, <3>3
  <2> QED
    BY <2>2, <2>3
<1> QED
  BY <1>4, <1>6, <1>7

\* The pointer goes, and with the last one the entry.
LEMMA IDropStep ==
    ASSUME Sound, Running, NEW p \in Proc, IDrop(p)
    PROVE  Sound'
<1> DEFINE e == Arg(p)
           s == todo[p]
<1>1. CodeType /\ TypeOK /\ Code /\ OneEntry /\ FreeOnlyDropped
  BY DEF Sound
<1>2. /\ s \in Seq(Instr) /\ s # << >> /\ Head(s)[1] = "drop"
      /\ DropsFirst(s) /\ Plain(Bare(s)) /\ Does(p, "drop") /\ Head(s)[2] = e
      /\ CodeOf(s, onfail[p], reg[p])
  BY <1>1, RegisterType DEF IDrop, Does, Code, CodeOf, Arg
<1>3. /\ e \in Entry /\ Tail(s) \in Seq(Instr) /\ Bare(Tail(s)) = Bare(s)
      /\ DropsFirst(Tail(s))
      /\ \A f : Puts(s, f) = One(e = f) + Puts(Tail(s), f)
  BY <1>2, PutDone
<1>4. /\ icache' = IF icache[e].ref = 1 THEN [icache EXCEPT ![e] = Empty]
                   ELSE [icache EXCEPT ![e].ref = @ - 1]
      /\ todo' = [todo EXCEPT ![p] = Tail(s)]
      /\ disk' = disk /\ lock' = lock /\ onfail' = onfail /\ reg' = reg
      /\ fd' = fd /\ cwd' = cwd /\ lost' = lost /\ panic' = "none"
  BY DEF IDrop, Then, Rest, Running
<1>5. Puts(s, e) >= 1
  <2>1. PICK k \in Nat : k = Puts(Tail(s), e)
    BY <1>3, PutsType
  <2>2. Puts(s, e) = 1 + k
    BY <1>3, <2>1 DEF One
  <2> QED
    BY <2>2
<1>6. /\ icache[e].ref \in Nat /\ icache[e].ref >= 1
      /\ icache[e].ref = 1 =>
            /\ reg[p].ip # e /\ reg[p].dp # e
            /\ \A q \in Proc : q # p => ~Holds(q, e)
  BY <1>3, <1>5, Sole
<1>7. icache \in Caches
  BY <1>1, CacheType
<1> HIDE DEF e, s
<1>8. /\ icache' \in Caches
      /\ \A f \in Entry : f # e => icache'[f] = icache[f]
      /\ icache'[e].ref + 1 = icache[e].ref
      /\ icache[e].ref # 1 => icache'[e].inum = icache[e].inum
  <2>1. icache[e] \in CacheEntry
    BY <1>3, <1>7 DEF Caches
  <2>2. CASE icache[e].ref = 1
    <3>1. Empty \in CacheEntry /\ Empty.ref = 0
      BY FsConstants DEF Empty, CacheEntry
    <3>2. icache' = [icache EXCEPT ![e] = Empty]
      BY <1>4, <2>2
    <3> QED
      BY <1>3, <1>7, <2>2, <3>1, <3>2 DEF Caches
  <2>3. CASE icache[e].ref # 1
    <3>1. icache' = [icache EXCEPT ![e].ref = @ - 1]
      BY <1>4, <2>3
    <3>2. icache[e].ref - 1 \in Nat
      BY <1>6, <2>3
    <3>3. PICK c : c = [icache[e] EXCEPT !.ref = @ - 1]
      OBVIOUS
    <3>4. c \in CacheEntry /\ c.ref + 1 = icache[e].ref /\ c.inum = icache[e].inum
      BY <1>6, <2>1, <3>2, <3>3 DEF CacheEntry
    <3>5. icache' = [icache EXCEPT ![e] = c]
      BY <3>1, <3>3
    <3> QED
      BY <1>3, <1>7, <2>3, <3>4, <3>5 DEF Caches
  <2> QED
    BY <2>2, <2>3
<1>9. \A f \in Entry : icache'[f].ref > 0 =>
         /\ icache[f].ref > 0 /\ icache'[f].inum = icache[f].inum
  <2> TAKE f \in Entry
  <2>1. CASE f # e
    BY <1>8, <2>1
  <2>2. CASE f = e
    <3>1. PICK a \in Nat, b \in Nat : a = icache'[e].ref /\ b = icache[e].ref
      BY <1>3, <1>6, <1>8 DEF Caches, CacheEntry
    <3>2. a + 1 = b
      BY <1>8, <3>1
    <3>3. a > 0 => b > 0 /\ b # 1
      BY <3>2
    <3> QED
      BY <1>8, <2>2, <3>1, <3>3
  <2> QED
    BY <2>1, <2>2
<1>10. OneEntry'
  <2>1. \A f \in Entry : icache'[f].ref > 0 => icache'[f].inum \in Inum
    BY <1>1, <1>9 DEF OneEntry
  <2>2. \A f, g \in Entry : icache'[f].ref > 0 /\ icache'[g].ref > 0
                            /\ icache'[f].inum = icache'[g].inum => f = g
    BY <1>1, <1>9 DEF OneEntry
  <2> QED
    BY <2>1, <2>2 DEF OneEntry
<1>11. Alone(p) /\ CodeType' /\ todo'[p] = Tail(s)
  BY <1>1, <1>3, <1>4 DEF CodeType, Alone
<1>12. FreeOnlyDropped'
  <2> SUFFICES ASSUME NEW f \in Entry, icache'[f].ref > 0,
                      disk'[icache'[f].inum].type = "none"
               PROVE  /\ icache'[f].ref = 1 /\ ~icache'[f].valid
                      /\ \E q \in Proc : Does(q, "drop")' /\ Arg(q)' = f
    BY DEF FreeOnlyDropped
  <2>1. icache[f].ref > 0 /\ disk[icache[f].inum].type = "none"
    BY <1>4, <1>9
  <2>2. /\ icache[f].ref = 1 /\ ~icache[f].valid
        /\ \E q \in Proc : Does(q, "drop") /\ Arg(q) = f
    BY <1>1, <2>1 DEF FreeOnlyDropped
  <2>3. f # e
    <3>1. PICK a \in Nat, b \in Nat : a = icache'[e].ref /\ b = icache[e].ref
      BY <1>3, <1>6, <1>8 DEF Caches, CacheEntry
    <3>2. a + 1 = b
      BY <1>8, <3>1
    <3>3. ~(a > 0 /\ b = 1)
      BY <3>2
    <3> QED
      BY <2>2, <3>1, <3>3
  <2>4. icache'[f] = icache[f]
    BY <1>8, <2>3
  <2>5. PICK q \in Proc : Does(q, "drop") /\ Arg(q) = f
    BY <2>2
  <2>6. q # p
    BY <2>3, <2>5 DEF e
  <2>7. todo'[q] = todo[q]
    BY <1>11, <2>6 DEF Alone
  <2>8. Does(q, "drop")' /\ Arg(q)' = f
    BY <1>4, <2>5, <2>7 DEF Does, Arg
  <2> QED
    BY <2>2, <2>4, <2>8
<1>13. Undisturbed(p)
  <2> SUFFICES ASSUME NEW q \in Proc, q # p, NEW f \in Entry, Holds(q, f)
               PROVE  icache'[f].inum = icache[f].inum
    BY <1>4 DEF Undisturbed
  <2> QED
    BY <1>6, <1>8
<1>14. MeaningOf(p)' /\ LocksOf(p)' /\ \A y : PendOf(p, y)' = PendOf(p, y)
  <2>1. \A f \in Entry : reg[p].ip = f \/ reg[p].dp = f =>
           /\ icache'[f].inum = icache[f].inum
           /\ disk'[icache[f].inum].type = disk[icache[f].inum].type
           /\ disk'[icache[f].inum].ents = disk[icache[f].inum].ents
    BY <1>4, <1>6, <1>8
  <2>2. Bare(todo'[p]) = Bare(todo[p])
    BY <1>3, <1>11 DEF s
  <2> QED
    BY <1>4, <2>1, <2>2, SameMeaning
<1>15. CodeOf(todo[p], onfail[p], reg[p])'
  BY <1>2, <1>3, <1>4, <1>11 DEF CodeOf
<1>16. Balance(p)
  <2> SUFFICES ASSUME NEW f \in Entry
               PROVE  icache'[f].ref + lost[f] + Pointers(p, f)
                          = icache[f].ref + lost'[f] + Pointers(p, f)'
    BY DEF Balance
  <2>1. PICK k \in Nat, t \in Nat : k = Kept(p, f) /\ t = Puts(Tail(s), f)
    BY <1>1, <1>3, PointersSplit, PutsType
  <2>2. PICK b \in Nat : b = One(e = f)
    BY DEF One
  <2>3. Pointers(p, f) = k + (b + t)
    BY <1>1, <1>3, <2>1, <2>2, PointersSplit DEF s
  <2>4. Pointers(p, f)' = k + t
    BY <1>4, <1>11, <2>1 DEF Pointers, Kept, Puts
  <2>5. PICK x \in Nat, y \in Nat, z \in Nat :
           x = icache[f].ref /\ y = icache'[f].ref /\ z = lost[f]
    BY <1>1, <1>7, <1>8 DEF Caches, CacheEntry, TypeOK
  <2>6. y + b = x
    BY <1>8, <2>2, <2>5 DEF One
  <2>7. y + z + (k + (b + t)) = x + z + (k + t)
    BY <2>6
  <2> QED
    BY <1>4, <2>3, <2>4, <2>5, <2>7
<1>17. Tree'
  BY <1>4 DEF Sound, Tree
<1>18. Account'
  <2> SUFFICES ASSUME NEW i \in Inum, disk[i].type # "none"
               PROVE  disk[i].nlink = Entries(i)' + One(i = root)
                        + Cardinality(Pending(i)')
                        + (IF disk[i].type = "dir" THEN Subdirs(i)' ELSE 0)
    BY <1>4 DEF Account
  <2>1. Entries(i)' = Entries(i) /\ Subdirs(i)' = Subdirs(i)
    BY <1>4 DEF Entries, Subdirs
  <2>2. disk[i].nlink = Entries(i) + One(i = root) + Cardinality(Pending(i))
                        + (IF disk[i].type = "dir" THEN Subdirs(i) ELSE 0)
    BY DEF Sound, Account
  <2>3. /\ Cardinality(Pending(i)) \in Nat /\ Cardinality(Pending(i)') \in Nat
        /\ Cardinality(Pending(i)') + PendOf(p, i)
             = Cardinality(Pending(i)) + PendOf(p, i)'
    BY <1>11, <1>13, PendingStep
  <2>4. PendOf(p, i)' = PendOf(p, i) /\ PendOf(p, i) \in Nat
    BY <1>14 DEF PendOf, One
  <2>5. Cardinality(Pending(i)') = Cardinality(Pending(i))
    BY <2>3, <2>4
  <2> QED
    BY <2>1, <2>2, <2>5
<1>19. Moved(p)
  <2>1. disk' \in Disks
    BY <1>1, <1>4, DiskType
  <2>2. /\ lock' \in [Entry -> Proc \cup {None}] /\ fd' \in [Proc -> Pointer]
        /\ cwd' \in [Proc -> Entry] /\ lost' \in [Entry -> Nat] /\ LockStep(p)
    BY <1>1, <1>4 DEF TypeOK, Pointer, LockStep
  <2> QED
    BY <1>4, <1>8, <1>11, <1>13, <1>14, <1>15, <1>16, <2>1, <2>2 DEF Moved
<1> QED
  BY <1>10, <1>12, <1>17, <1>18, <1>19, MovedStep

\* The put of p has begun: the pointer is still its own.
LEMMA PutStarts ==
    ASSUME Sound, Running, NEW p \in Proc, IPut(p)
    PROVE  /\ Arg(p) \in Entry /\ Holds(p, Arg(p)) /\ Puts(todo[p], Arg(p)) >= 1
           /\ Does(p, "put") /\ ~Does(p, "drop")
           /\ CodeType' /\ Alone(p)
           /\ CodeOf(todo'[p], onfail'[p], reg'[p])
           /\ Bare(todo'[p]) = Bare(todo[p])
           /\ todo'[p] # << >> /\ Head(todo'[p]) = <<"drop", Arg(p)>>
           /\ \A f \in Entry : Pointers(p, f)' = Pointers(p, f)
<1> DEFINE e == Arg(p)
           s == todo[p]
           t == <<<<"drop", e>>>> \o Tail(s)
<1>1. CodeType /\ Code
  BY DEF Sound
<1>2. /\ s \in Seq(Instr) /\ s # << >> /\ Head(s)[1] = "put"
      /\ DropsFirst(s) /\ Does(p, "put") /\ Head(s)[2] = e
      /\ CodeOf(s, onfail[p], reg[p])
  BY <1>1, RegisterType DEF IPut, Does, Code, CodeOf, Arg
<1>3. /\ e \in Entry
      /\ t \in Seq(Instr) /\ Bare(t) = Bare(s) /\ DropsFirst(t)
      /\ \A f : Puts(t, f) = Puts(s, f)
      /\ t # << >> /\ Head(t) = <<"drop", e>>
  BY <1>2, PutBegun
<1>4. /\ todo' = [todo EXCEPT ![p] = t] /\ onfail' = onfail /\ reg' = reg
      /\ fd' = fd /\ cwd' = cwd
  BY DEF IPut, Then, Rest
<1>5. Holds(p, e) /\ ~Does(p, "drop")
  BY <1>2 DEF Holds, Does
<1>6. Puts(s, e) >= 1
  <2>1. PICK k \in Nat : k = Puts(Tail(s), e)
    BY <1>2, Uncons, PutsType
  <2>2. Puts(s, e) = One(IsPut(Head(s)) /\ Head(s)[2] = e) + k
    BY <1>2, <2>1, PutsTail
  <2>3. One(IsPut(Head(s)) /\ Head(s)[2] = e) = 1
    BY <1>2 DEF One, IsPut
  <2> QED
    BY <2>2, <2>3
<1> HIDE DEF e, s, t
<1>7. CodeType' /\ Alone(p) /\ todo'[p] = t
  BY <1>1, <1>3, <1>4 DEF CodeType, Alone
<1>8. CodeOf(todo'[p], onfail'[p], reg'[p])
  BY <1>2, <1>3, <1>4, <1>7 DEF CodeOf
<1>9. ASSUME NEW f \in Entry PROVE Pointers(p, f)' = Pointers(p, f)
  <2>1. Pointers(p, f) = Kept(p, f) + Puts(s, f)
    BY <1>1, PointersSplit DEF s
  <2>2. Pointers(p, f)' = Kept(p, f) + Puts(t, f)
    BY <1>4, <1>7 DEF Pointers, Kept, Puts
  <2> QED
    BY <1>3, <2>1, <2>2
<1> QED
  BY <1>2, <1>3, <1>5, <1>6, <1>7, <1>8, <1>9 DEF e, s

LEMMA IPutKeepsStep ==
    ASSUME Sound, Running, NEW p \in Proc, IPut(p), ~Dead(Arg(p))
    PROVE  Sound'
<1>1. CodeType /\ TypeOK
  BY DEF Sound
<1>2. /\ disk' = disk /\ icache' = icache /\ panic' = "none" /\ lock' = lock
      /\ onfail' = onfail /\ reg' = reg /\ fd' = fd /\ cwd' = cwd /\ lost' = lost
  BY DEF IPut, Running
<1>3. /\ ~Does(p, "drop") /\ CodeType' /\ Alone(p)
      /\ CodeOf(todo'[p], onfail'[p], reg'[p])
      /\ Bare(todo'[p]) = Bare(todo[p])
      /\ \A f \in Entry : Pointers(p, f)' = Pointers(p, f)
  BY PutStarts
<1>4. MeaningOf(p)' /\ LocksOf(p)' /\ \A y : PendOf(p, y)' = PendOf(p, y)
  <2> HIDE DEF Running
  <2> QED
    BY <1>2, <1>3, SameMeaning
<1>5. Grown(icache') /\ Alive(icache', disk')
  BY <1>1, <1>2, GrownSame
<1>6. Balance(p)
  BY <1>2, <1>3 DEF Balance
<1>7. CodeOf(todo[p], onfail[p], reg[p])'
  BY <1>3 DEF CodeOf
<1>8. Busy(p)
  <2>1. disk' \in Disks /\ TypesStay
    BY <1>1, <1>2, DiskType DEF TypesStay
  <2>2. /\ lock' \in [Entry -> Proc \cup {None}] /\ fd' \in [Proc -> Pointer]
        /\ cwd' \in [Proc -> Entry] /\ lost' \in [Entry -> Nat] /\ LockStep(p)
    BY <1>1, <1>2 DEF TypeOK, Pointer, LockStep
  <2> QED
    BY <1>2, <1>3, <1>4, <1>5, <1>6, <1>7, <2>1, <2>2 DEF Busy
<1> HIDE DEF Running
<1> QED
  BY <1>2, <1>3, <1>4, <1>8, QuietStep

\* An inode without a link is not named, and no link to it is pending.
LEMMA DeadIsNameless ==
    ASSUME Sound, Running, NEW i \in Inum, disk[i].type # "none",
           disk[i].nlink = 0
    PROVE  /\ i # root /\ \A q \in Proc : ~(Pends(q) /\ icache[reg[q].ip].inum = i)
           /\ \A d \in Inum, n \in Name : disk[d].ents[n] # i
<1>1. PICK a \in Nat, b \in Nat, c \in Nat, s \in Nat :
         /\ a = Cardinality(Namings(disk, i)) /\ b = One(i = root)
         /\ c = Cardinality(Pending(i))
         /\ s = (IF disk[i].type = "dir"
                 THEN Cardinality(Children(disk, i)) ELSE 0)
         /\ disk[i].nlink = a + b + c + s
  BY Accounts
<1>2. a = 0 /\ b = 0 /\ c = 0
  <2>1. a + b + c + s = 0
    BY <1>1
  <2> QED
    BY <2>1
<1>3. i # root
  BY <1>1, <1>2 DEF One
<1>4. Pending(i) = {}
  <2>1. Pending(i) \subseteq Proc
    BY DEF Pending
  <2>2. IsFiniteSet(Pending(i))
    BY <2>1, FsConstants, FS_Subset
  <2> QED
    BY <1>1, <1>2, <2>2, FS_EmptySet
<1>5. Namings(disk, i) = {}
  BY <1>1, <1>2, CountsFinite, FS_EmptySet
<1>6. ASSUME NEW d \in Inum, NEW n \in Name, disk[d].ents[n] = i PROVE FALSE
  <2>1. <<d, n>> \in Namings(disk, i)
    BY <1>6 DEF Namings
  <2> QED
    BY <1>5, <2>1
<1>7. \A q \in Proc : ~(Pends(q) /\ icache[reg[q].ip].inum = i)
  BY <1>4 DEF Pending
<1> QED
  BY <1>3, <1>6, <1>7

\* The last one frees the inode.
LEMMA IPutFreesStep ==
    ASSUME Sound, Running, NEW p \in Proc, IPut(p), Dead(Arg(p)),
           ~NonEmpty(Arg(p))
    PROVE  Sound'
<1> DEFINE e == Arg(p)
           i == icache[e].inum
<1>1. CodeType /\ TypeOK /\ OneEntry /\ FreeOnlyDropped /\ Tree
  BY DEF Sound
<1>2. /\ e \in Entry /\ Holds(p, e) /\ Puts(todo[p], e) >= 1
      /\ Does(p, "put") /\ ~Does(p, "drop") /\ CodeType' /\ Alone(p)
      /\ CodeOf(todo'[p], onfail'[p], reg'[p])
      /\ Bare(todo'[p]) = Bare(todo[p])
      /\ todo'[p] # << >> /\ Head(todo'[p]) = <<"drop", e>>
      /\ \A f \in Entry : Pointers(p, f)' = Pointers(p, f)
  BY PutStarts
<1>3. /\ disk' = [disk EXCEPT ![i] = Free]
      /\ icache' = [icache EXCEPT ![e].valid = FALSE]
      /\ panic' = "none" /\ lock' = lock /\ lock[e] = None
      /\ onfail' = onfail /\ reg' = reg /\ fd' = fd /\ cwd' = cwd /\ lost' = lost
  BY DEF IPut
<1>4. /\ icache[e].ref = 1 /\ disk[i].nlink = 0
  BY DEF Dead, Inode
<1>5. /\ i \in Inum /\ disk[i].type # "none"
  BY <1>2, HeldIsAlive DEF Inode
<1>6. /\ reg[p].ip # e /\ reg[p].dp # e
      /\ \A q \in Proc : q # p => ~Holds(q, e)
  BY <1>2, <1>4, Sole
<1>7. /\ i # root /\ \A q \in Proc : ~(Pends(q) /\ icache[reg[q].ip].inum = i)
      /\ \A d \in Inum, n \in Name : disk[d].ents[n] # i
  BY <1>4, <1>5, DeadIsNameless
<1>8. \A n \in Name : disk[i].ents[n] = 0
  BY <1>1, <1>5 DEF NonEmpty, IsDir, Inode, Tree
<1>9. disk \in Disks /\ icache \in Caches
  BY <1>1, DiskType, CacheType
<1> HIDE DEF i, e
<1>10. /\ disk' \in Disks /\ \A j \in Inum : j # i => disk'[j] = disk[j]
       /\ disk'[i].type = "none" /\ \A n \in Name : disk'[i].ents[n] = 0
  <2>1. /\ Free \in Inodes /\ Free.type = "none" /\ \A n \in Name : Free.ents[n] = 0
    BY FsConstants DEF Free, Inodes
  <2> QED
    BY <1>3, <1>5, <1>9, <2>1 DEF Disks
<1>11. /\ icache' \in Caches /\ \A f \in Entry : f # e => icache'[f] = icache[f]
       /\ \A f \in Entry : icache'[f].ref = icache[f].ref
                           /\ icache'[f].inum = icache[f].inum
       /\ ~icache'[e].valid
  BY <1>2, <1>3, <1>9 DEF Caches, CacheEntry
<1>12. \A j \in Inum, n \in Name : disk'[j].ents[n] = disk[j].ents[n]
  <2> TAKE j \in Inum, n \in Name
  <2>1. CASE j = i
    BY <1>8, <1>10, <2>1
  <2>2. CASE j # i
    BY <1>10, <2>2
  <2> QED
    BY <2>1, <2>2
<1>13. \A f \in Entry : icache[f].ref > 0 /\ f # e => icache[f].inum # i
  BY <1>1, <1>2, <1>4 DEF OneEntry, i
<1>14. Undisturbed(p)
  <2> SUFFICES ASSUME NEW q \in Proc, q # p, NEW f \in Entry, Holds(q, f)
               PROVE  disk'[icache[f].inum].type = disk[icache[f].inum].type
    BY <1>11 DEF Undisturbed
  <2>1. icache[f].ref \in Nat /\ icache[f].ref >= 1 /\ icache[f].inum \in Inum
    BY HeldIsAlive
  <2>2. icache[f].ref > 0
    BY <2>1
  <2>3. icache[f].inum # i
    BY <1>6, <1>13, <2>2
  <2> QED
    BY <1>10, <2>1, <2>3
<1>15. MeaningOf(p)' /\ LocksOf(p)' /\ \A y : PendOf(p, y)' = PendOf(p, y)
  <2>1. ASSUME NEW f \in Entry, reg[p].ip = f \/ reg[p].dp = f
        PROVE  disk'[icache[f].inum] = disk[icache[f].inum]
    <3>1. Holds(p, f)
      BY <2>1 DEF Holds
    <3>2. icache[f].ref \in Nat /\ icache[f].ref >= 1 /\ icache[f].inum \in Inum
      BY <3>1, HeldIsAlive
    <3>3. icache[f].ref > 0
      BY <3>2
    <3> QED
      BY <1>6, <1>10, <1>13, <2>1, <3>2, <3>3
  <2>2. \A f \in Entry : reg[p].ip = f \/ reg[p].dp = f =>
           /\ icache'[f].inum = icache[f].inum
           /\ disk'[icache[f].inum].type = disk[icache[f].inum].type
           /\ disk'[icache[f].inum].ents = disk[icache[f].inum].ents
    BY <1>11, <2>1
  <2> HIDE DEF Running
  <2> QED
    BY <1>2, <1>3, <2>2, SameMeaning
<1>16. OneEntry'
  BY <1>1, <1>11 DEF OneEntry
<1>17. FreeOnlyDropped'
  <2> SUFFICES ASSUME NEW f \in Entry, icache'[f].ref > 0,
                      disk'[icache'[f].inum].type = "none"
               PROVE  /\ icache'[f].ref = 1 /\ ~icache'[f].valid
                      /\ \E q \in Proc : Does(q, "drop")' /\ Arg(q)' = f
    BY DEF FreeOnlyDropped
  <2>1. CASE f = e
    <3>1. Does(p, "drop")' /\ Arg(p)' = f
      BY <1>2, <1>3, <2>1 DEF Does, Arg
    <3> QED
      BY <1>4, <1>11, <2>1, <3>1
  <2>2. CASE f # e
    <3>1. icache[f].ref > 0 /\ icache[f].inum \in Inum /\ icache[f].inum # i
      BY <1>1, <1>11, <1>13, <2>2 DEF OneEntry
    <3>2. disk[icache[f].inum].type = "none"
      BY <1>10, <1>11, <3>1
    <3>3. /\ icache[f].ref = 1 /\ ~icache[f].valid
          /\ \E q \in Proc : Does(q, "drop") /\ Arg(q) = f
      BY <1>1, <3>1, <3>2 DEF FreeOnlyDropped
    <3>4. PICK q \in Proc : Does(q, "drop") /\ Arg(q) = f
      BY <3>3
    <3>5. q # p
      BY <1>2, <3>4
    <3>6. todo'[q] = todo[q]
      BY <1>2, <3>5 DEF Alone
    <3>7. Does(q, "drop")' /\ Arg(q)' = f
      BY <1>3, <3>4, <3>6 DEF Does, Arg
    <3> QED
      BY <1>11, <2>2, <3>3, <3>7
  <2> QED
    BY <2>1, <2>2
<1>18. Tree'
  <2>1. disk'[root].type = "dir"
    <3>1. root \in Inum
      BY FsConstants DEF root, Inum
    <3> QED
      BY <1>1, <1>7, <1>10, <3>1 DEF Tree
  <2>2. ASSUME NEW j \in Inum, NEW n \in Name, disk'[j].ents[n] # 0
        PROVE  /\ disk'[j].type = "dir" /\ disk'[j].ents[n] # j
               /\ disk'[disk'[j].ents[n]].type # "none"
    <3>1. disk[j].ents[n] # 0 /\ disk[j].ents[n] # i /\ j # i
      BY <1>7, <1>8, <1>12, <2>2
    <3>2. /\ disk[j].type = "dir" /\ disk[j].ents[n] # j
          /\ disk[disk[j].ents[n]].type # "none"
      BY <1>1, <3>1 DEF Tree
    <3>3. disk[j].ents[n] \in Inum
      <4>1. disk[j].ents[n] \in 0..NINODES
        BY <1>9 DEF Disks, Inodes
      <4> QED
        BY <3>1, <4>1, FsConstants DEF Inum
    <3> QED
      BY <1>10, <1>12, <3>1, <3>2, <3>3
  <2> QED
    BY <2>1, <2>2 DEF Tree
<1>19. Account'
  <2> SUFFICES ASSUME NEW j \in Inum, disk'[j].type # "none"
               PROVE  disk'[j].nlink = Entries(j)' + One(j = root)
                        + Cardinality(Pending(j)')
                        + (IF disk'[j].type = "dir" THEN Subdirs(j)' ELSE 0)
    BY DEF Account
  <2>1. disk'[j] = disk[j] /\ j # i
    BY <1>10
  <2>2. Entries(j)' = Entries(j)
    <3>1. Namings(disk', j) = Namings(disk, j)
      BY <1>12 DEF Namings
    <3> QED
      BY <3>1, CountsAre
  <2>3. Subdirs(j)' = Subdirs(j)
    <3>1. ASSUME NEW n \in Name, disk[j].ents[n] # 0
          PROVE  disk'[disk'[j].ents[n]] = disk[disk[j].ents[n]]
      <4>1. disk[j].ents[n] \in 0..NINODES
        BY <1>9 DEF Disks, Inodes
      <4>2. disk[j].ents[n] \in Inum /\ disk[j].ents[n] # i
        BY <1>7, <3>1, <4>1, FsConstants DEF Inum
      <4> QED
        BY <1>10, <1>12, <4>2
    <3>2. Children(disk', j) = Children(disk, j)
      BY <1>12, <3>1 DEF Children
    <3> QED
      BY <3>2, CountsAre
  <2>4. disk[j].nlink = Entries(j) + One(j = root) + Cardinality(Pending(j))
                        + (IF disk[j].type = "dir" THEN Subdirs(j) ELSE 0)
    BY <2>1 DEF Sound, Account
  <2>5. /\ Cardinality(Pending(j)) \in Nat /\ Cardinality(Pending(j)') \in Nat
        /\ Cardinality(Pending(j)') + PendOf(p, j)
             = Cardinality(Pending(j)) + PendOf(p, j)'
    BY <1>2, <1>14, PendingStep
  <2>6. PendOf(p, j)' = PendOf(p, j) /\ PendOf(p, j) \in Nat
    BY <1>15 DEF PendOf, One
  <2>7. Cardinality(Pending(j)') = Cardinality(Pending(j))
    BY <2>5, <2>6
  <2> QED
    BY <2>1, <2>2, <2>3, <2>4, <2>7
<1>20. Balance(p)
  BY <1>2, <1>3, <1>11 DEF Balance
<1>21. Moved(p)
  <2>1. /\ lock' \in [Entry -> Proc \cup {None}] /\ fd' \in [Proc -> Pointer]
        /\ cwd' \in [Proc -> Entry] /\ lost' \in [Entry -> Nat] /\ LockStep(p)
    BY <1>1, <1>3 DEF TypeOK, Pointer, LockStep
  <2>2. CodeOf(todo[p], onfail[p], reg[p])'
    BY <1>2 DEF CodeOf
  <2>3. DirGuard(p)
    <3> SUFFICES ASSUME NEW j \in Inum, disk'[j].ents # disk[j].ents
                 PROVE  icache[e].ref > 0 /\ icache[e].inum = j
                        /\ lock[e] \in {None, p}
      BY <1>2 DEF DirGuard
    <3>1. j = i
      BY <1>10
    <3> QED
      BY <1>3, <1>4, <3>1 DEF i
  <2> QED
    BY <1>2, <1>3, <1>10, <1>11, <1>14, <1>15, <1>20, <2>1, <2>2, <2>3 DEF Moved
<1> HIDE DEF Running
<1> QED
  BY <1>16, <1>17, <1>18, <1>19, <1>21, MovedStep

\* Or finds that a directory is removed with entries in it.
LEMMA IPutStep ==
    ASSUME Sound, Running, NEW p \in Proc, IPut(p)
    PROVE  Sound'
<1>1. CASE ~Dead(Arg(p))
  BY <1>1, IPutKeepsStep
<1>2. CASE Dead(Arg(p)) /\ ~NonEmpty(Arg(p))
  BY <1>2, IPutFreesStep
<1>3. CASE Dead(Arg(p)) /\ NonEmpty(Arg(p))
  <2> DEFINE e == Arg(p)
             i == icache[e].inum
  <2>1. CodeType /\ TypeOK
    BY DEF Sound
  <2>2. e \in Entry /\ Holds(p, e) /\ CodeType'
    BY PutStarts
  <2>3. /\ disk' = [disk EXCEPT ![i] = Free]
        /\ icache' = [icache EXCEPT ![e].valid = FALSE]
        /\ panic' = "entries dropped" /\ lock' = lock
        /\ fd' = fd /\ cwd' = cwd /\ lost' = lost
    BY <1>3 DEF IPut
  <2>4. i \in Inum
    BY <2>2, HeldIsAlive
  <2> HIDE DEF i, e
  <2>5. disk' \in Disks /\ icache' \in Caches
    <3>1. Free \in Inodes
      BY FsConstants DEF Free, Inodes
    <3>2. disk \in Disks /\ icache \in Caches
      BY <2>1, DiskType, CacheType
    <3> QED
      BY <2>2, <2>3, <2>4, <3>1, <3>2 DEF Disks, Caches, CacheEntry
  <2>6. TypeOK'
    <3>1. icache' \in [Entry -> [inum : 0..NINODES, ref : Nat, valid : BOOLEAN]]
      BY <2>5 DEF Caches, CacheEntry
    <3>2. disk' \in [Inum -> [type : {"none", "file", "dir", "sym"}, nlink : Nat,
                       ents : [Name -> 0..NINODES],
                       target : {<< >>} \cup UNION {Path[q] : q \in Proc}]]
      BY <2>5 DEF Disks, Inodes, Targets
    <3>3. /\ lock' \in [Entry -> Proc \cup {None}]
          /\ fd' \in [Proc -> Entry \cup {None}] /\ cwd' \in [Proc -> Entry]
          /\ lost' \in [Entry -> Nat]
      BY <2>1, <2>3 DEF TypeOK
    <3> QED
      BY <2>3, <3>1, <3>2, <3>3, Zenon DEF TypeOK
  <2>7. NoUnlinkPanic' /\ ~Running'
    BY <2>3 DEF NoUnlinkPanic, Running
  <2> QED
    BY <2>2, <2>6, <2>7 DEF Sound
<1> QED
  BY <1>1, <1>2, <1>3

-----------------------------------------------------------------------------
(* Steps that change link counts or contents, and no names *)

LEMMA BusyTo ==
    ASSUME Sound, Running, NEW p \in Proc, Coding(p),
           panic' = "none", disk' \in Disks, fd' = fd, cwd' = cwd, lost' = lost,
           lock' \in [Entry -> Proc \cup {None}], LockStep(p),
           CodeType', Alone(p), Grown(icache'), Alive(icache', disk'),
           \A e \in Entry :
               icache'[e].ref + InRegs(reg[p], e)
                   = icache[e].ref + (InRegs(reg'[p], e) + Puts(todo'[p], e)),
           CodeOf(todo'[p], onfail'[p], reg'[p]),
           LocksOf(p)', MeaningOf(p)', TypesStay, DirGuard(p)
    PROVE  Busy(p) /\ ~Does(p, "drop")
<1>1. TypeOK
  BY DEF Sound
<1>2. fd' \in [Proc -> Pointer] /\ cwd' \in [Proc -> Entry]
      /\ lost' \in [Entry -> Nat]
  BY <1>1 DEF TypeOK, Pointer
<1>3. icache \in Caches /\ icache' \in Caches
  BY <1>1, CacheType DEF Grown
<1>4. ASSUME NEW e \in Entry
      PROVE  icache'[e].ref + lost[e] + Kept(p, e)
                = icache[e].ref + lost'[e] + (Kept(p, e)' + Puts(todo'[p], e))
  <2>1. /\ icache[e].ref \in Nat /\ icache'[e].ref \in Nat
        /\ lost[e] \in Nat /\ lost'[e] = lost[e]
    BY <1>1, <1>3 DEF Caches, CacheEntry, TypeOK
  <2>2. Puts(todo'[p], e) \in Nat
    BY PutsType DEF CodeType
  <2>3. icache'[e].ref + InRegs(reg[p], e)
           = icache[e].ref + (InRegs(reg'[p], e) + Puts(todo'[p], e))
    OBVIOUS
  <2>4. PICK a \in Nat : a = One(fd[p] = e) + One(cwd[p] = e)
    BY DEF One
  <2>5. PICK x \in Nat : x = InRegs(reg[p], e)
    BY DEF One, InRegs
  <2>6. PICK y \in Nat : y = InRegs(reg'[p], e)
    BY DEF One, InRegs
  <2>7. Kept(p, e) = a + x
    BY <2>4, <2>5 DEF Kept, InRegs, One
  <2>8. Kept(p, e)' = a + y
    BY <2>4, <2>6 DEF Kept, InRegs, One
  <2>9. PICK m \in Nat, n \in Nat, l \in Nat, u \in Nat :
            /\ m = icache'[e].ref /\ n = icache[e].ref /\ l = lost[e]
            /\ u = Puts(todo'[p], e)
    BY <2>1, <2>2
  <2>10. m + x = n + (y + u)
    BY <2>3, <2>5, <2>6, <2>9
  <2>11. m + l + (a + x) = n + l + ((a + y) + u)
    BY <2>10
  <2> QED
    BY <2>1, <2>7, <2>8, <2>9, <2>11
<1>5. Balance(p) /\ ~Does(p, "drop")
  BY <1>2, <1>3, <1>4, BalanceBy, CodingFacts
<1>6. CodeOf(todo[p], onfail[p], reg[p])'
  BY DEF CodeOf
<1> QED
  BY <1>2, <1>5, <1>6 DEF Busy

\* The link counts go with the links that are pending.
LEMMA NamesStay ==
    ASSUME Sound, Running, NEW p \in Proc, ~Does(p, "drop"), Busy(p),
           \A j \in Inum : /\ disk'[j].ents = disk[j].ents
                           /\ disk'[j].type = disk[j].type,
           \A j \in Inum : disk[j].type # "none" =>
               disk'[j].nlink + PendOf(p, j) = disk[j].nlink + PendOf(p, j)'
    PROVE  Sound'
<1>1. TypeOK /\ Alone(p) /\ Grown(icache') /\ TypesStay
  BY DEF Sound, Busy
<1>2. Undisturbed(p)
  BY <1>1, GrownUndisturbed
<1>3. \A j \in Inum, n \in Name : disk[j].ents[n] # 0 => disk[j].ents[n] \in Inum
  BY <1>1, DiskType, FsConstants DEF Disks, Inodes, Inum
<1>4. Tree'
  <2>1. root \in Inum
    BY FsConstants DEF root, Inum
  <2> QED
    BY <1>3, <2>1 DEF Sound, Tree
<1>5. Account'
  <2> SUFFICES ASSUME NEW j \in Inum, disk'[j].type # "none"
               PROVE  disk'[j].nlink = Entries(j)' + One(j = root)
                        + Cardinality(Pending(j)')
                        + (IF disk'[j].type = "dir" THEN Subdirs(j)' ELSE 0)
    BY DEF Account
  <2>1. PICK a \in Nat, b \in Nat, c \in Nat, s \in Nat :
           /\ a = Cardinality(Namings(disk, j)) /\ b = One(j = root)
           /\ c = Cardinality(Pending(j))
           /\ s = (IF disk[j].type = "dir"
                   THEN Cardinality(Children(disk, j)) ELSE 0)
           /\ disk[j].nlink = a + b + c + s
    BY Accounts
  <2>2. Entries(j)' = a
    <3>1. Namings(disk', j) = Namings(disk, j)
      BY DEF Namings
    <3> QED
      BY <2>1, <3>1, CountsAre
  <2>3. (IF disk'[j].type = "dir" THEN Subdirs(j)' ELSE 0) = s
    <3>1. Children(disk', j) = Children(disk, j)
      BY <1>3 DEF Children
    <3> QED
      BY <2>1, <3>1, CountsAre
  <2>4. PICK c2 \in Nat : /\ c2 = Cardinality(Pending(j)')
                          /\ c2 + PendOf(p, j) = c + PendOf(p, j)'
    BY <1>1, <1>2, <2>1, PendingStep
  <2>5. PICK u \in Nat : u = PendOf(p, j)
    BY DEF PendOf, One
  <2>6. PICK v \in Nat : v = PendOf(p, j)'
    BY DEF PendOf, One
  <2>7. disk'[j].nlink + u = disk[j].nlink + v /\ c2 + u = c + v
    BY <2>4, <2>5, <2>6
  <2>8. PICK k \in Nat, m \in Nat : k = disk'[j].nlink /\ m = disk[j].nlink
    BY <1>1, DiskType DEF Busy, Disks, Inodes
  <2>9. k + u = m + v /\ m = a + b + c + s /\ c2 + u = c + v
    BY <2>1, <2>7, <2>8
  <2>10. k = a + b + c2 + s
    BY ONLY <2>9, k \in Nat, m \in Nat, a \in Nat, b \in Nat, c \in Nat,
       s \in Nat, u \in Nat, v \in Nat, c2 \in Nat
  <2> QED
    BY <2>1, <2>2, <2>3, <2>4, <2>8, <2>10
<1> QED
  BY <1>4, <1>5, BusyStep

\* The end of a call that changes what ip is.
LEMMA LastOfIp ==
    ASSUME Sound, Running, NEW p \in Proc, Coding(p), IpHeld(reg[p]),
           CanLock(p, reg[p].ip), PutIp(p), icache' = icache,
           disk' \in Disks, fd' = fd, cwd' = cwd, lost' = lost, panic' = "none",
           \A j \in Inum : /\ disk'[j].ents = disk[j].ents
                           /\ disk'[j].type = disk[j].type,
           \A j \in Inum : disk[j].type # "none" =>
               disk'[j].nlink + PendOf(p, j) = disk[j].nlink
    PROVE  Sound'
<1>1. Grown(icache') /\ Alive(icache', disk')
  BY GrownSame DEF Sound
<1>2. /\ CodeType' /\ Alone(p)
      /\ lock' \in [Entry -> Proc \cup {None}] /\ LockStep(p)
      /\ CodeOf(todo'[p], onfail'[p], reg'[p])
      /\ LockFree(Bare(todo'[p])) /\ ~PendsIn(Bare(todo'[p]), onfail'[p])
      /\ ~At(Bare(todo'[p]), "remove")
      /\ reg'[p].dp = None
      /\ \A e \in Entry :
            InRegs(reg[p], e) = InRegs(reg'[p], e) + Puts(todo'[p], e)
  BY PutIpCode
<1>3. \A e \in Entry :
          icache'[e].ref + InRegs(reg[p], e)
              = icache[e].ref + (InRegs(reg'[p], e) + Puts(todo'[p], e))
  BY <1>2
<1>4. ~Pends(p)' /\ LocksOf(p)'
  BY <1>2, PendsInCode
<1>5. MeaningOf(p)'
  BY <1>2, <1>4 DEF MeaningOf, Doing
<1>6. TypesStay /\ DirGuard(p)
  BY DEF TypesStay, DirGuard
<1>7. Busy(p) /\ ~Does(p, "drop")
  <2> HIDE DEF Running
  <2> QED
    BY <1>1, <1>2, <1>3, <1>4, <1>5, <1>6, BusyTo
<1>8. ASSUME NEW j \in Inum, disk[j].type # "none"
      PROVE  disk'[j].nlink + PendOf(p, j) = disk[j].nlink + PendOf(p, j)'
  <2>1. PendOf(p, j)' = 0
    BY <1>4 DEF PendOf, One
  <2>2. disk[j].nlink \in Nat
    BY DiskType DEF Sound, Disks, Inodes
  <2>3. disk[j].nlink = disk[j].nlink + 0
    BY <2>2
  <2> QED
    BY <1>8, <2>1, <2>3
<1> HIDE DEF Running
<1> QED
  BY <1>7, <1>8, NamesStay

\* symlink writes the target.
LEMMA WriteTargetStep ==
    ASSUME Sound, Running, NEW p \in Proc, WriteTarget(p)
    PROVE  Sound'
<1> DEFINE w == reg[p].ip
           i == icache[w].inum
<1>1. PICK what : what = "write"
  OBVIOUS
<1>2. Does(p, what) /\ what \notin {"put", "drop"}
  BY <1>1 DEF WriteTarget
<1>3. /\ Coding(p) /\ todo[p] # << >> /\ Head(todo[p])[1] = what
      /\ Head(todo[p]) \in Instr
      /\ Fits(todo[p], onfail[p], reg[p])
      /\ Pends(p) <=> PendsIn(todo[p], onfail[p])
      /\ \A x : Doing(p, x) <=> x = what
  BY <1>2, DoesCode
<1>4. IpHeld(reg[p])
  BY <1>1, <1>3, FitsAt
<1>5. ~Pends(p) /\ Doing(p, "write")
  BY <1>1, <1>3 DEF PendsIn, At
<1>6. CanLock(p, w)
  BY <1>5 DEF Sound, LocksOf, CanLock
<1>7. /\ disk' = [disk EXCEPT ![i].target = Arg(p)]
      /\ PutIp(p) /\ icache' = icache /\ fd' = fd /\ cwd' = cwd /\ lost' = lost
      /\ panic' = "none"
  BY DEF WriteTarget, Running
<1>8. w \in Entry /\ i \in Inum
  BY <1>4, RegsHeld DEF IpHeld
<1>9. Arg(p) \in Targets
  BY <1>1, <1>3, Carried DEF Arg
<1>10. disk \in Disks
  BY DiskType DEF Sound
<1> HIDE DEF i, w
<1>11. /\ disk' \in Disks
       /\ \A j \in Inum : /\ disk'[j].ents = disk[j].ents
                          /\ disk'[j].type = disk[j].type
                          /\ disk'[j].nlink = disk[j].nlink
  <2>1. PICK d : d = [disk[i] EXCEPT !.target = Arg(p)]
    OBVIOUS
  <2>2. disk[i] \in Inodes
    BY <1>8, <1>10 DEF Disks
  <2>3. /\ d \in Inodes /\ d.ents = disk[i].ents /\ d.type = disk[i].type
        /\ d.nlink = disk[i].nlink
    BY <1>9, <2>1, <2>2 DEF Inodes
  <2>4. disk' = [disk EXCEPT ![i] = d]
    BY <1>7, <2>1
  <2> QED
    BY <1>8, <1>10, <2>3, <2>4 DEF Disks
<1>12. ASSUME NEW j \in Inum
       PROVE  disk'[j].nlink + PendOf(p, j) = disk[j].nlink
  <2>1. PendOf(p, j) = 0
    BY <1>5 DEF PendOf, One
  <2>2. disk[j].nlink \in Nat
    BY <1>10 DEF Disks, Inodes
  <2>3. disk[j].nlink + 0 = disk[j].nlink
    BY <2>2
  <2> QED
    BY <1>11, <2>1, <2>3
<1> QED
  BY <1>3, <1>4, <1>6, <1>7, <1>11, <1>12, LastOfIp DEF w

\* A link that is pending is counted.
LEMMA PendingIsLinked ==
    ASSUME Sound, Running, NEW p \in Proc, Pends(p), NEW i \in Inum,
           icache[reg[p].ip].inum = i, disk[i].type # "none"
    PROVE  disk[i].nlink \in Nat /\ disk[i].nlink >= 1
<1>1. p \in Pending(i)
  BY DEF Pending
<1>2. IsFiniteSet(Pending(i))
  <2>1. Pending(i) \subseteq Proc
    BY DEF Pending
  <2> QED
    BY <2>1, FsConstants, FS_Subset
<1>3. Cardinality(Pending(i)) >= 1
  BY <1>1, <1>2, AtLeast
<1> QED
  BY <1>3, Accounts

\* The disk d when inode i has c links.
Linked(d, i, c) == [d EXCEPT ![i].nlink = c]

LEMMA LinkCount ==
    ASSUME NEW d \in Disks, NEW i \in Inum, NEW c \in Nat,
           NEW n, n = Linked(d, i, c)
    PROVE  /\ n \in Disks /\ n[i].nlink = c
           /\ \A j \in Inum : /\ n[j].ents = d[j].ents /\ n[j].type = d[j].type
                              /\ j # i => n[j] = d[j]
<1>1. PICK x : x = [d[i] EXCEPT !.nlink = c]
  OBVIOUS
<1>2. d[i] \in Inodes
  BY DEF Disks
<1>3. /\ x \in Inodes /\ x.ents = d[i].ents /\ x.type = d[i].type
      /\ x.nlink = c
  BY <1>1, <1>2 DEF Inodes
<1>4. n = [d EXCEPT ![i] = x]
  BY <1>1 DEF Linked
<1> QED
  BY <1>3, <1>4 DEF Disks

\* A call that had a link pending gives it up, or has removed the name.
LEMMA Lowered ==
    ASSUME Sound, Running, NEW p \in Proc, Coding(p), IpHeld(reg[p]), Pends(p),
           CanLock(p, reg[p].ip), PutIp(p), icache' = icache,
           disk' = [disk EXCEPT ![icache[reg[p].ip].inum].nlink = @ - 1],
           fd' = fd, cwd' = cwd, lost' = lost, panic' = "none"
    PROVE  Sound'
<1> DEFINE w == reg[p].ip
           i == icache[w].inum
<1>1. w \in Entry /\ i \in Inum /\ disk[i].type # "none"
  BY RegsHeld DEF IpHeld, Inode
<1>2. disk[i].nlink \in Nat /\ disk[i].nlink >= 1
  BY <1>1, PendingIsLinked
<1>3. disk \in Disks
  BY DiskType DEF Sound
<1>4. disk' = [disk EXCEPT ![i].nlink = disk[i].nlink - 1]
  OBVIOUS
<1>5. \A j : PendOf(p, j) = One(i = j)
  BY DEF PendOf, One
<1> HIDE DEF i
<1>6. PICK c \in Nat : c = disk[i].nlink - 1 /\ c + 1 = disk[i].nlink
  BY <1>2
<1> DEFINE n == Linked(disk, i, c)
<1>7. /\ n \in Disks /\ n[i].nlink = c
      /\ \A j \in Inum : /\ n[j].ents = disk[j].ents /\ n[j].type = disk[j].type
                         /\ j # i => n[j] = disk[j]
  BY <1>1, <1>3, LinkCount
<1>8. disk' = n
  BY <1>4, <1>6 DEF Linked
<1> HIDE DEF n
<1>9. ASSUME NEW j \in Inum
      PROVE  disk'[j].nlink + PendOf(p, j) = disk[j].nlink
  <2>1. CASE j = i
    BY <1>5, <1>6, <1>7, <1>8, <2>1 DEF One
  <2>2. CASE j # i
    <3>1. disk'[j].nlink = disk[j].nlink /\ PendOf(p, j) = 0
      BY <1>5, <1>7, <1>8, <2>2 DEF One
    <3>2. disk[j].nlink \in Nat
      BY <1>3 DEF Disks, Inodes
    <3>3. disk[j].nlink + 0 = disk[j].nlink
      BY <3>2
    <3> QED
      BY <3>1, <3>3
  <2> QED
    BY <2>1, <2>2
<1> QED
  BY <1>7, <1>8, <1>9, LastOfIp

LEMMA LinkBadStep ==
    ASSUME Sound, Running, NEW p \in Proc, LinkBad(p)
    PROVE  Sound'
<1>1. PICK what : what = "linkbad"
  OBVIOUS
<1>2. Does(p, what) /\ what \notin {"put", "drop"} /\ CanLock(p, reg[p].ip)
  BY <1>1 DEF LinkBad
<1>3. /\ Coding(p) /\ todo[p] # << >> /\ Head(todo[p])[1] = what
      /\ Fits(todo[p], onfail[p], reg[p])
      /\ Pends(p) <=> PendsIn(todo[p], onfail[p])
  BY <1>2, DoesCode
<1>4. IpHeld(reg[p])
  BY <1>1, <1>3, FitsAt
<1>5. Pends(p)
  BY <1>1, <1>3 DEF PendsIn, At
<1>6. /\ disk' = [disk EXCEPT ![icache[reg[p].ip].inum].nlink = @ - 1]
      /\ PutIp(p) /\ icache' = icache /\ fd' = fd /\ cwd' = cwd /\ lost' = lost
      /\ panic' = "none"
  BY DEF LinkBad, Running
<1> QED
  BY <1>2, <1>3, <1>4, <1>5, <1>6, Lowered

LEMMA RemovedStep ==
    ASSUME Sound, Running, NEW p \in Proc, Removed(p)
    PROVE  Sound'
<1>1. PICK what : what = "removed"
  OBVIOUS
<1>2. Does(p, what) /\ what \notin {"put", "drop"}
  BY <1>1 DEF Removed
<1>3. /\ Coding(p) /\ todo[p] # << >> /\ Head(todo[p])[1] = what
      /\ Fits(todo[p], onfail[p], reg[p])
      /\ Pends(p) <=> PendsIn(todo[p], onfail[p])
      /\ \A x : Doing(p, x) <=> x = what
  BY <1>2, DoesCode
<1>4. IpHeld(reg[p])
  BY <1>1, <1>3, FitsAt
<1>5. Pends(p) /\ Doing(p, "removed")
  BY <1>1, <1>3 DEF PendsIn, At
<1>6. CanLock(p, reg[p].ip)
  BY <1>5 DEF Sound, LocksOf, CanLock
<1>7. /\ disk' = [disk EXCEPT ![icache[reg[p].ip].inum].nlink = @ - 1]
      /\ PutIp(p) /\ icache' = icache /\ fd' = fd /\ cwd' = cwd /\ lost' = lost
      /\ panic' = "none"
  BY DEF Removed, Running
<1> QED
  BY <1>3, <1>4, <1>5, <1>6, <1>7, Lowered

\* link raises the count of the inode, and goes on to the new name.
LEMMA LinkOldStep ==
    ASSUME Sound, Running, NEW p \in Proc, LinkOld(p)
    PROVE  Sound'
<1> DEFINE w == reg[p].ip
           i == icache[w].inum
<1>1. PICK what : what = "linkold"
  OBVIOUS
<1>2. Does(p, what) /\ what \notin {"put", "drop"} /\ CanLock(p, w)
  BY <1>1 DEF LinkOld
<1>3. /\ Coding(p) /\ todo[p] # << >> /\ Head(todo[p])[1] = what
      /\ Head(todo[p]) \in Instr
      /\ Fits(todo[p], onfail[p], reg[p])
      /\ Pends(p) <=> PendsIn(todo[p], onfail[p])
      /\ \A x : Doing(p, x) <=> x = what
  BY <1>2, DoesCode
<1>4. IpHeld(reg[p]) /\ onfail[p] = << >>
  BY <1>1, <1>3, FitsAt
<1>5. ~Pends(p) /\ ~Doing(p, "removed")
  BY <1>1, <1>3 DEF PendsIn, At
<1>6. /\ w \in Entry /\ Holds(p, w) /\ reg[p].w = None /\ reg[p].dp = None
      /\ w # None /\ i \in Inum /\ disk[i].type # "none"
  BY <1>4, RegsHeld DEF IpHeld, Inode
<1>7. CodeType /\ TypeOK /\ None \notin Entry
  BY NoneIsNoEntry DEF Sound
<1>8. /\ icache' = Read(w) /\ panic' = "none"
      /\ fd' = fd /\ cwd' = cwd /\ lost' = lost
  BY DEF LinkOld, Running
<1>9. CASE IsDir(w)
  <2>1. PutIp(p) /\ disk' = disk
    BY <1>9 DEF LinkOld
  <2> QED
    BY <1>2, <1>3, <1>4, <1>5, <1>8, <2>1, PutIpStep
<1>10. CASE ~IsDir(w)
  <2> DEFINE y == <<"walk", Arg(p), TRUE>>
             z == <<"linknew">>
             x == <<"linkbad">>
             k == <<y, z>>
             b == <<x>>
  <2>1. /\ y \in Instr /\ ~IsPut(y) /\ y[1] = "walk" /\ y[3] = TRUE
        /\ z \in Instr /\ ~IsPut(z) /\ z[1] = "linknew"
        /\ x \in Instr /\ ~IsPut(x) /\ x[1] = "linkbad"
    <3>1. Arg(p) \in Way
      BY <1>1, <1>3, Carried DEF Arg
    <3> QED
      BY <3>1, Written1 DEF IsPut
  <2>2. /\ disk' = [disk EXCEPT ![i].nlink = disk[i].nlink + 1]
        /\ todo' = [todo EXCEPT ![p] = k]
        /\ onfail' = [onfail EXCEPT ![p] = b]
        /\ lock' = lock /\ reg' = reg
    BY <1>10 DEF LinkOld, Then
  <2>3. ~(disk[i].type = "dir")
    BY <1>10 DEF IsDir, Inode
  <2>4. disk \in Disks
    BY <1>7, DiskType
  <2>5. /\ Grown(icache') /\ Alive(icache', disk)
        /\ \A f \in Entry : icache'[f].ref = icache[f].ref
                            /\ icache'[f].inum = icache[f].inum
    BY <1>6, <1>8, ReadHeld
  <2> HIDE DEF x, y, z
  <2>6. /\ k \in Seq(Instr) /\ Plain(k) /\ k # << >> /\ Head(k) = y
        /\ At(k, y[1]) /\ Tail(k) = <<z>>
        /\ Head(Tail(k)) = z /\ Last(Tail(k), z[1])
    BY <2>1, CodeTwo
  <2>7. /\ b \in Seq(Instr) /\ Plain(b) /\ Last(b, x[1])
    BY <2>1, CodeOne
  <2> HIDE DEF k, b
  <2>8. /\ Fits(k, b, reg[p]) /\ PendsIn(k, b) /\ LockFree(k) /\ ~At(k, "remove")
        /\ \A v : At(k, v) => v = "walk"
    <3>1. WithDp(Tail(k), b, reg[p].ip)
      BY <1>6, <2>1, <2>6, <2>7 DEF WithDp
    <3>2. Walking(k, b, reg[p])
      BY <1>6, <2>1, <2>6, <3>1 DEF Walking
    <3>3. Fits(k, b, reg[p])
      BY <1>6, <2>1, <2>6, <3>2 DEF Fits
    <3> QED
      BY <2>1, <2>6, <2>7, <3>3 DEF PendsIn, LockFree, At
  <2>9. /\ CodeOf(k, b, reg[p]) /\ Bare(k) = k /\ \A f : Puts(k, f) = 0
    BY <1>6, <2>6, <2>7, <2>8, CodePlain
  <2>10. CodeType' /\ Alone(p) /\ todo'[p] = k /\ onfail'[p] = b
    BY <1>7, <1>8, <2>2, <2>6, <2>7 DEF CodeType, Alone
  <2>11. CodeOf(todo'[p], onfail'[p], reg'[p])
    BY <2>2, <2>9, <2>10
  <2>12. /\ Pends(p)' /\ LocksOf(p)' /\ \A v : Doing(p, v)' => v = "walk"
    BY <2>8, <2>9, <2>10, PendsInCode DEF Doing
  <2> HIDE DEF i
  <2>13. PICK c \in Nat : c = disk[i].nlink + 1
    BY <1>6, <2>4 DEF Disks, Inodes
  <2> DEFINE n == Linked(disk, i, c)
  <2>14. /\ n \in Disks /\ n[i].nlink = c
         /\ \A j \in Inum : /\ n[j].ents = disk[j].ents /\ n[j].type = disk[j].type
                            /\ j # i => n[j] = disk[j]
    BY <1>6, <2>4, LinkCount
  <2>15. disk' = n
    BY <2>2, <2>13 DEF Linked
  <2> HIDE DEF n
  <2>16. TypesStay /\ DirGuard(p) /\ Alive(icache', disk')
    <3>1. TypesStay /\ DirGuard(p)
      BY <2>14, <2>15 DEF TypesStay, DirGuard
    <3>2. \A f \in Entry : icache'[f] # icache[f] => icache'[f].inum \in Inum
      BY <2>5 DEF Grown
    <3>3. \A j \in Inum : disk'[j].type = disk[j].type
      BY <2>14, <2>15
    <3>4. \A f \in Entry : icache'[f] # icache[f]
                           => disk[icache'[f].inum].type # "none"
      BY <2>5 DEF Alive
    <3>5. Alive(icache', disk')
      BY <3>2, <3>3, <3>4 DEF Alive
    <3> QED
      BY <3>1, <3>5
  <2>17. MeaningOf(p)'
    <3>1. reg'[p].dp = None /\ reg'[p].ip = w
      BY <1>6, <2>2
    <3>2. ~IsDir(reg[p].ip)'
      <4>1. icache'[w].inum = i
        BY <1>6, <2>5 DEF i
      <4>2. disk'[i].type # "dir"
        BY <1>6, <2>3, <2>14, <2>15
      <4> QED
        BY <3>1, <4>1, <4>2 DEF IsDir, Inode
    <3> QED
      BY <2>12, <3>1, <3>2 DEF MeaningOf
  <2>18. ASSUME NEW e \in Entry
         PROVE  icache'[e].ref + InRegs(reg[p], e)
                   = icache[e].ref + (InRegs(reg'[p], e) + Puts(todo'[p], e))
    <3>1. PICK a \in Nat : a = InRegs(reg[p], e)
      BY DEF InRegs, One
    <3>2. Puts(todo'[p], e) = 0
      BY <2>9, <2>10
    <3>3. a = a + 0
      OBVIOUS
    <3> QED
      BY <2>2, <2>5, <3>1, <3>2, <3>3
  <2>19. lock' \in [Entry -> Proc \cup {None}] /\ LockStep(p)
    BY <1>7, <2>2 DEF TypeOK, LockStep
  <2>20. ASSUME NEW j \in Inum
         PROVE  disk'[j].nlink + PendOf(p, j) = disk[j].nlink + PendOf(p, j)'
    <3>1. PendOf(p, j) = 0
      BY <1>5 DEF PendOf, One
    <3>2. PendOf(p, j)' = One(i = j)
      <4>1. icache'[reg'[p].ip].inum = i
        BY <1>6, <2>2, <2>5 DEF i
      <4> QED
        BY <2>12, <4>1 DEF PendOf, One
    <3>3. PICK m \in Nat : m = disk[j].nlink
      BY <2>4 DEF Disks, Inodes
    <3>4. CASE j = i
      <4>1. disk'[j].nlink = m + 1
        BY <2>13, <2>14, <2>15, <3>3, <3>4
      <4> QED
        BY <3>1, <3>2, <3>3, <3>4, <4>1 DEF One
    <3>5. CASE j # i
      <4>1. disk'[j].nlink = m
        BY <2>14, <2>15, <3>3, <3>5
      <4> QED
        BY <3>1, <3>2, <3>3, <3>5, <4>1 DEF One
    <3> QED
      BY <3>4, <3>5
  <2> HIDE DEF Running
  <2>21. disk' \in Disks
    BY <2>14, <2>15
  <2>22. Busy(p) /\ ~Does(p, "drop")
    BY <1>3, <1>8, <2>5, <2>10, <2>11, <2>12, <2>16, <2>17, <2>18, <2>19, <2>21,
       BusyTo
  <2> QED
    BY <2>14, <2>15, <2>20, <2>22, NamesStay
<1> QED
  BY <1>9, <1>10

-----------------------------------------------------------------------------
(* Steps that make and remove names *)

\* y is the disk x with name n of directory d, which named nothing, naming v.
Adds(x, y, d, n, v) ==
    /\ x[d].ents[n] = 0 /\ y[d].ents[n] = v
    /\ \A j \in Inum, m \in Name :
          ~(j = d /\ m = n) => y[j].ents[m] = x[j].ents[m]

\* What x names has the same type in y.
TypesNamed(x, y) == \A j \in Inum, m \in Name :
    x[j].ents[m] # 0 => (y[x[j].ents[m]].type = "dir"
                            <=> x[x[j].ents[m]].type = "dir")

LEMMA AddsNaming ==
    ASSUME NEW x, NEW y, NEW d \in Inum, NEW n \in Name, NEW v \in Inum,
           Adds(x, y, d, n, v)
    PROVE  /\ Cardinality(Namings(y, v)) = Cardinality(Namings(x, v)) + 1
           /\ \A j \in Inum : j # v => Namings(y, j) = Namings(x, j)
<1>1. v # 0 /\ 0 \notin Inum
  BY DEF Inum
<1>2. Namings(y, v) = Namings(x, v) \cup {<<d, n>>}
  BY <1>1 DEF Namings, Adds
<1>3. <<d, n>> \notin Namings(x, v)
  BY <1>1 DEF Namings, Adds
<1>4. Cardinality(Namings(y, v)) = Cardinality(Namings(x, v)) + 1
  BY <1>2, <1>3, CountsFinite, OneMore
<1>5. ASSUME NEW j \in Inum, j # v PROVE Namings(y, j) = Namings(x, j)
  BY <1>1, <1>5 DEF Namings, Adds
<1> QED
  BY <1>4, <1>5

LEMMA AddsChild ==
    ASSUME NEW x, NEW y, NEW d \in Inum, NEW n \in Name, NEW v \in Inum,
           Adds(x, y, d, n, v), TypesNamed(x, y)
    PROVE  /\ Cardinality(Children(y, d))
                 = Cardinality(Children(x, d)) + One(y[v].type = "dir")
           /\ \A j \in Inum : j # d => Children(y, j) = Children(x, j)
<1>1. v # 0
  BY DEF Inum
<1>2. n \notin Children(x, d)
  BY DEF Children, Adds
<1>3. ASSUME NEW j \in Inum, NEW m \in Name, ~(j = d /\ m = n)
      PROVE  m \in Children(y, j) <=> m \in Children(x, j)
  <2>1. y[j].ents[m] = x[j].ents[m]
    BY <1>3 DEF Adds
  <2>2. x[j].ents[m] # 0 => (y[x[j].ents[m]].type = "dir"
                                <=> x[x[j].ents[m]].type = "dir")
    BY DEF TypesNamed
  <2> QED
    BY <2>1, <2>2 DEF Children
<1>4. n \in Children(y, d) <=> y[v].type = "dir"
  BY <1>1 DEF Children, Adds
<1>5. \A j : Children(x, j) \subseteq Name /\ Children(y, j) \subseteq Name
  BY DEF Children
<1>6. ASSUME NEW j \in Inum, j # d PROVE Children(y, j) = Children(x, j)
  BY <1>3, <1>5, <1>6
<1>7. CASE y[v].type = "dir"
  <2>1. Children(y, d) = Children(x, d) \cup {n}
    BY <1>3, <1>4, <1>5, <1>7
  <2>2. Cardinality(Children(y, d)) = Cardinality(Children(x, d)) + 1
    BY <1>2, <2>1, CountsFinite, OneMore
  <2>3. One(y[v].type = "dir") = 1
    BY <1>7 DEF One
  <2> QED
    BY <1>6, <2>2, <2>3
<1>8. CASE y[v].type # "dir"
  <2>1. Children(y, d) = Children(x, d)
    BY <1>2, <1>3, <1>4, <1>5, <1>8
  <2>2. Cardinality(Children(x, d)) \in Nat
    BY CountsFinite
  <2>3. One(y[v].type = "dir") = 0
    BY <1>8 DEF One
  <2>4. Cardinality(Children(x, d)) = Cardinality(Children(x, d)) + 0
    BY <2>2
  <2> QED
    BY <1>6, <2>1, <2>3, <2>4
<1> QED
  BY <1>7, <1>8

\* The inodes that are named are in use.
LEMMA NamedInodes ==
    ASSUME Sound, Running, NEW j \in Inum, NEW m \in Name, disk[j].ents[m] # 0
    PROVE  /\ disk[j].ents[m] \in Inum /\ disk[j].type = "dir"
           /\ disk[disk[j].ents[m]].type # "none" /\ disk[j].ents[m] # j
<1>1. disk[j].ents[m] \in 0..NINODES
  BY DiskType DEF Sound, Disks, Inodes
<1> QED
  BY <1>1, FsConstants DEF Inum, Sound, Tree

\* The disk d when directory i has c links and its name n names v.
Entered(d, i, n, v, c) ==
    [d EXCEPT ![i] = [d[i] EXCEPT !.ents = [d[i].ents EXCEPT ![n] = v],
                                  !.nlink = c]]

LEMMA EnteredFacts ==
    ASSUME NEW x \in Disks, NEW i \in Inum, NEW n \in Name,
           NEW v \in 0..NINODES, NEW c \in Nat, NEW y, y = Entered(x, i, n, v, c)
    PROVE  /\ y \in Disks /\ y[i].nlink = c /\ y[i].ents[n] = v
           /\ \A j \in Inum : j # i => y[j] = x[j]
           /\ \A j \in Inum : y[j].type = x[j].type
           /\ \A j \in Inum, m \in Name :
                 ~(j = i /\ m = n) => y[j].ents[m] = x[j].ents[m]
<1> DEFINE e == [x[i].ents EXCEPT ![n] = v]
           r == [x[i] EXCEPT !.ents = e, !.nlink = c]
<1>1. x[i] \in Inodes
  BY DEF Disks
<1>2. /\ e \in [Name -> 0..NINODES] /\ e[n] = v
      /\ \A m \in Name : m # n => e[m] = x[i].ents[m]
  BY <1>1 DEF Inodes
<1> HIDE DEF e
<1>3. r \in Inodes /\ r.ents = e /\ r.nlink = c /\ r.type = x[i].type
  BY <1>1, <1>2 DEF Inodes
<1>4. y = [x EXCEPT ![i] = r]
  BY DEF Entered, e
<1> HIDE DEF r
<1>5. y \in Disks /\ y[i] = r /\ \A j \in Inum : j # i => y[j] = x[j]
  BY <1>3, <1>4 DEF Disks
<1>6. \A j \in Inum : y[j].type = x[j].type
  BY <1>3, <1>5
<1>7. \A j \in Inum, m \in Name :
         ~(j = i /\ m = n) => y[j].ents[m] = x[j].ents[m]
  BY <1>2, <1>3, <1>5
<1> QED
  BY <1>2, <1>3, <1>5, <1>6, <1>7

\* The link count of an inode is exact again: up and down are the names it has
\* got and lost, in and out the directories.
LEMMA Recounted ==
    ASSUME Sound, Running, NEW p \in Proc, Alone(p), Undisturbed(p),
           disk' \in Disks, NEW j \in Inum, disk[j].type # "none",
           disk'[j].type = disk[j].type,
           NEW up \in Nat, NEW down \in Nat, NEW in \in Nat, NEW out \in Nat,
           Cardinality(Namings(disk', j)) + down
               = Cardinality(Namings(disk, j)) + up,
           Cardinality(Children(disk', j)) + out
               = Cardinality(Children(disk, j)) + in,
           disk[j].type = "dir" \/ (in = 0 /\ out = 0),
           disk'[j].nlink + PendOf(p, j) + down + out
               = disk[j].nlink + PendOf(p, j)' + up + in
    PROVE  disk'[j].nlink = Entries(j)' + One(j = root)
               + Cardinality(Pending(j)')
               + (IF disk'[j].type = "dir" THEN Subdirs(j)' ELSE 0)
<1>1. PICK a \in Nat, b \in Nat, c \in Nat, s \in Nat :
         /\ a = Cardinality(Namings(disk, j)) /\ b = One(j = root)
         /\ c = Cardinality(Pending(j))
         /\ s = (IF disk[j].type = "dir"
                 THEN Cardinality(Children(disk, j)) ELSE 0)
         /\ disk[j].nlink = a + b + c + s
  BY Accounts
<1>2. PICK a2 \in Nat : a2 = Cardinality(Namings(disk', j))
  BY CountsFinite
<1>3. PICK s2 \in Nat : s2 = (IF disk[j].type = "dir"
                              THEN Cardinality(Children(disk', j)) ELSE 0)
  BY CountsFinite
<1>4. PICK c2 \in Nat : /\ c2 = Cardinality(Pending(j)')
                        /\ c2 + PendOf(p, j) = c + PendOf(p, j)'
  BY <1>1, PendingStep
<1>5. PICK u \in Nat : u = PendOf(p, j)
  BY DEF PendOf, One
<1>6. PICK v \in Nat : v = PendOf(p, j)'
  BY DEF PendOf, One
<1>7. PICK k \in Nat, m \in Nat : k = disk'[j].nlink /\ m = disk[j].nlink
  BY DiskType DEF Sound, Disks, Inodes
<1>8. a2 + down = a + up
  BY <1>1, <1>2
<1>9. s2 + out = s + in
  <2>1. CASE disk[j].type = "dir"
    BY <1>1, <1>3, <2>1
  <2>2. CASE disk[j].type # "dir"
    <3>1. in = 0 /\ out = 0 /\ s = 0 /\ s2 = 0
      BY <1>1, <1>3, <2>2
    <3> QED
      BY <3>1
  <2> QED
    BY <2>1, <2>2
<1>10. c2 + u = c + v
  BY <1>4, <1>5, <1>6
<1>11. k + u + down + out = m + v + up + in
  BY <1>5, <1>6, <1>7
<1>12. m = a + b + c + s
  BY <1>1, <1>7
<1>13. k = a2 + b + c2 + s2
  BY ONLY <1>8, <1>9, <1>10, <1>11, <1>12, k \in Nat, m \in Nat,
     a \in Nat, b \in Nat, c \in Nat, s \in Nat, a2 \in Nat, c2 \in Nat,
     s2 \in Nat, u \in Nat, v \in Nat,
     up \in Nat, down \in Nat, in \in Nat, out \in Nat
<1>14. Entries(j)' = a2
  BY <1>2, CountsAre
<1>15. (IF disk'[j].type = "dir" THEN Subdirs(j)' ELSE 0) = s2
  BY <1>3, CountsAre
<1> QED
  BY <1>1, <1>4, <1>7, <1>13, <1>14, <1>15

\* The registers with another inode and no directory.
MovedIp(p, g) == [NoDp(p) EXCEPT ![p].ip = g]

LEMMA WithoutDpAs ==
    ASSUME CodeType, NEW p \in Proc, NEW g \in Pointer, NEW m, m = MovedIp(p, g)
    PROVE  /\ m \in [Proc -> Registers]
           /\ \A q \in Proc : q # p => m[q] = reg[q]
           /\ m[p].w = reg[p].w /\ m[p].ip = g
           /\ m[p].dp = None /\ m[p].name = None
<1> DEFINE n == NoDp(p)
           r == [n[p] EXCEPT !.ip = g]
<1>1. /\ n \in [Proc -> Registers]
      /\ \A q \in Proc : q # p => n[q] = reg[q]
      /\ n[p].w = reg[p].w /\ n[p].ip = reg[p].ip
      /\ n[p].dp = None /\ n[p].name = None
  BY WithoutDp
<1>2. m = [n EXCEPT ![p] = r]
  BY DEF MovedIp
<1> HIDE DEF n
<1>3. n[p] \in Registers
  BY <1>1
<1>4. /\ r \in Registers /\ r.w = n[p].w /\ r.ip = g
      /\ r.dp = n[p].dp /\ r.name = n[p].name
  BY <1>3 DEF Registers
<1> HIDE DEF r
<1> QED
  BY <1>1, <1>2, <1>4

\* One entry of one directory is another.
EntryAs(x, i, n, v) == [x EXCEPT ![i].ents[n] = v]
EntryLinkAs(x, i, n, v, c) == [x EXCEPT ![i].ents[n] = v, ![i].nlink = c]

LEMMA EnteredAs ==
    ASSUME NEW x \in Disks, NEW i \in Inum, NEW n \in Name, NEW v
    PROVE  /\ EntryAs(x, i, n, v) = Entered(x, i, n, v, x[i].nlink)
           /\ \A c : EntryLinkAs(x, i, n, v, c) = Entered(x, i, n, v, c)
<1>1. x[i] \in Inodes
  BY DEF Disks
<1>2. [x[i] EXCEPT !.ents = [x[i].ents EXCEPT ![n] = v]]
         = [x[i] EXCEPT !.ents = [x[i].ents EXCEPT ![n] = v],
                        !.nlink = x[i].nlink]
  BY <1>1 DEF Inodes
<1>3. EntryAs(x, i, n, v) = Entered(x, i, n, v, x[i].nlink)
  BY <1>2 DEF Entered, EntryAs
<1>4. ASSUME NEW c
      PROVE  EntryLinkAs(x, i, n, v, c) = Entered(x, i, n, v, c)
  BY <1>1 DEF Entered, EntryLinkAs, Disks
<1> QED
  BY <1>3, <1>4

\* What changes under d is guarded by the lock of the entry that p has for it.
LEMMA GuardedBy ==
    ASSUME NEW p \in Proc, NEW e \in Entry, icache[e].ref > 0,
           lock[e] \in {None, p},
           \A j \in Inum : j # icache[e].inum => disk'[j].ents = disk[j].ents
    PROVE  DirGuard(p)
  BY DEF DirGuard

\* The directories stay as they should be when y has a name that x has not.
LEMMA TreeStays ==
    ASSUME Sound, Running, disk' \in Disks, TypesStay,
           \A j \in Inum, m \in Name : disk'[j].ents[m] # disk[j].ents[m]
               /\ disk'[j].ents[m] # 0 =>
                     /\ disk'[j].ents[m] \in Inum /\ disk'[j].type = "dir"
                     /\ disk'[j].ents[m] # j
                     /\ disk'[disk'[j].ents[m]].type # "none"
    PROVE  Tree'
<1>1. root \in Inum /\ disk[root].type = "dir"
  BY FsConstants DEF root, Inum, Sound, Tree
<1>2. disk'[root].type = "dir"
  BY <1>1 DEF TypesStay
<1>3. ASSUME NEW j \in Inum, NEW m \in Name, disk'[j].ents[m] # 0
      PROVE  /\ disk'[j].type = "dir" /\ disk'[j].ents[m] # j
             /\ disk'[disk'[j].ents[m]].type # "none"
  <2>1. CASE disk'[j].ents[m] = disk[j].ents[m]
    <3>1. /\ disk[j].ents[m] \in Inum /\ disk[j].type = "dir"
          /\ disk[disk[j].ents[m]].type # "none" /\ disk[j].ents[m] # j
      BY <1>3, <2>1, NamedInodes
    <3> QED
      BY <2>1, <3>1 DEF TypesStay
  <2>2. CASE disk'[j].ents[m] # disk[j].ents[m]
    BY <1>3, <2>2
  <2> QED
    BY <2>1, <2>2
<1> QED
  BY <1>2, <1>3 DEF Tree

\* link makes the entry, and the link is not pending any more.
LEMMA LinkNewStep ==
    ASSUME Sound, Running, NEW p \in Proc, LinkNew(p)
    PROVE  Sound'
<1> DEFINE dp == reg[p].dp
           w == reg[p].ip
           d == icache[dp].inum
           i == icache[w].inum
           nm == reg[p].name
           r == reg'[p]
<1>1. PICK what : what = "linknew"
  OBVIOUS
<1>2. Does(p, what) /\ what \notin {"put", "drop"} /\ CanLock(p, dp)
  BY <1>1 DEF LinkNew
<1>3. /\ Coding(p) /\ todo[p] # << >> /\ Head(todo[p])[1] = what
      /\ Fits(todo[p], onfail[p], reg[p])
      /\ Pends(p) <=> PendsIn(todo[p], onfail[p])
      /\ \A x : Doing(p, x) <=> x = what
  BY <1>2, DoesCode
<1>4. DpHeld(reg[p]) /\ reg[p].ip # None
  BY <1>1, <1>3, FitsAt
<1>5. Pends(p) /\ ~Doing(p, "removed")
  BY <1>1, <1>3 DEF PendsIn, At
<1>6. /\ w \in Entry /\ i \in Inum /\ disk[i].type # "none"
      /\ dp \in Entry /\ Holds(p, dp) /\ icache[dp].ref > 0 /\ d \in Inum
      /\ disk[d].type = "dir" /\ nm \in Name /\ dp # None /\ reg[p].w = None
  BY <1>4, RegsHeld DEF DpHeld, IsDir, Inode
<1>7. CodeType /\ TypeOK /\ None \notin Entry
  BY NoneIsNoEntry DEF Sound
<1>8. disk[i].type # "dir" /\ i # d
  BY <1>5, <1>6 DEF Sound, MeaningOf, IsDir, Inode
<1>9. disk[d].ents[nm] = 0
  BY DEF LinkNew, Found, Inode
<1>10. PICK n : n = << >>
  OBVIOUS
<1>11. /\ disk' = [disk EXCEPT ![d].ents[nm] = i]
       /\ reg' = MovedIp(p, None)
       /\ todo' = [todo EXCEPT ![p] = BothPut(dp, w)]
       /\ onfail' = [onfail EXCEPT ![p] = n]
       /\ icache' = Read(dp) /\ panic' = "none" /\ lock' = lock
       /\ fd' = fd /\ cwd' = cwd /\ lost' = lost
  BY <1>10 DEF LinkNew, Then, BothPut, MovedIp, Running
<1>12. /\ Grown(icache') /\ Alive(icache', disk)
       /\ \A f \in Entry : icache'[f].ref = icache[f].ref
                           /\ icache'[f].inum = icache[f].inum
  BY <1>6, <1>11, ReadHeld
<1>13. disk \in Disks
  BY <1>7, DiskType
<1>14. \A j : PendOf(p, j) = One(i = j)
  BY <1>5 DEF PendOf, One
<1>15. lock[dp] \in {None, p}
  BY <1>2 DEF CanLock
<1> HIDE DEF d, i, nm, w, dp, r
<1>16. PICK c \in Nat : c = disk[d].nlink
  BY <1>6, <1>13 DEF Disks, Inodes
<1>17. disk' = Entered(disk, d, nm, i, c)
  <2>1. disk' = EntryAs(disk, d, nm, i)
    BY <1>11 DEF EntryAs
  <2> QED
    BY <1>6, <1>13, <1>16, <2>1, EnteredAs
<1>18. i \in 0..NINODES /\ i # 0
  BY <1>6, FsConstants DEF Inum
<1>19. /\ disk' \in Disks /\ disk'[d].nlink = c /\ disk'[d].ents[nm] = i
       /\ \A j \in Inum : j # d => disk'[j] = disk[j]
       /\ \A j \in Inum : disk'[j].type = disk[j].type
       /\ \A j \in Inum, m \in Name :
             ~(j = d /\ m = nm) => disk'[j].ents[m] = disk[j].ents[m]
  <2>1. PICK y : y = disk'
    OBVIOUS
  <2>2. /\ y \in Disks /\ y[d].nlink = c /\ y[d].ents[nm] = i
        /\ \A j \in Inum : j # d => y[j] = disk[j]
        /\ \A j \in Inum : y[j].type = disk[j].type
        /\ \A j \in Inum, m \in Name :
              ~(j = d /\ m = nm) => y[j].ents[m] = disk[j].ents[m]
    BY <1>6, <1>13, <1>17, <1>18, <2>1, EnteredFacts
  <2> QED
    BY <2>1, <2>2
<1>20. TypesStay /\ DirGuard(p) /\ Alive(icache', disk')
  <2>1. TypesStay
    BY <1>19 DEF TypesStay
  <2>2. \A j \in Inum : j # icache[dp].inum => disk'[j].ents = disk[j].ents
    BY <1>19 DEF d
  <2>3. DirGuard(p)
    BY <1>6, <1>15, <2>2, GuardedBy
  <2>4. Alive(icache', disk')
    <3>1. \A f \in Entry : icache'[f] # icache[f] => icache'[f].inum \in Inum
      BY <1>12 DEF Grown
    <3>2. \A f \in Entry : icache'[f] # icache[f]
                           => disk[icache'[f].inum].type # "none"
      BY <1>12 DEF Alive
    <3> QED
      BY <1>19, <3>1, <3>2 DEF Alive
  <2> QED
    BY <2>1, <2>3, <2>4
<1>21. /\ reg' \in [Proc -> Registers]
       /\ \A q \in Proc : q # p => reg'[q] = reg[q]
       /\ r.w = None /\ r.ip = None /\ r.dp = None
  <2>1. None \in Pointer
    BY DEF Pointer
  <2> QED
    BY <1>6, <1>7, <1>11, <2>1, WithoutDpAs DEF r
<1>22. /\ BothPut(dp, w) \in Seq(Instr) /\ Bare(BothPut(dp, w)) = << >>
       /\ DropsFirst(BothPut(dp, w))
       /\ \A f : Puts(BothPut(dp, w), f) = One(dp = f) + One(w = f)
  BY <1>6, PutTwice
<1>23. n \in Seq(Instr) /\ Plain(n)
  BY <1>10, Nothing
<1>24. CodeType' /\ Alone(p) /\ todo'[p] = BothPut(dp, w) /\ onfail'[p] = n
  BY <1>7, <1>11, <1>21, <1>22, <1>23 DEF CodeType, Alone
<1>25. CodeOf(todo'[p], onfail'[p], reg'[p])
  <2>1. Fits(Bare(todo'[p]), n, r)
    BY <1>21, <1>22, <1>24 DEF Fits, NoneHeld
  <2> QED
    BY <1>21, <1>22, <1>23, <1>24, <2>1, Nothing DEF CodeOf, r
<1>26. /\ ~Pends(p)' /\ LocksOf(p)' /\ \A x : ~Doing(p, x)'
  BY <1>22, <1>24, PendsInCode DEF Doing, At, PendsIn, LockFree
<1>27. MeaningOf(p)'
  BY <1>21, <1>26 DEF MeaningOf, r
<1>28. ASSUME NEW e \in Entry
       PROVE  icache'[e].ref + InRegs(reg[p], e)
                 = icache[e].ref + (InRegs(reg'[p], e) + Puts(todo'[p], e))
  <2>1. PICK a \in Nat : a = One(w = e)
    BY DEF One
  <2>2. PICK b \in Nat : b = One(dp = e)
    BY DEF One
  <2>3. InRegs(reg[p], e) = a + b
    BY <1>6, <1>7, <2>1, <2>2 DEF InRegs, One, w, dp
  <2>4. InRegs(reg'[p], e) = 0
    BY <1>7, <1>21 DEF InRegs, One, r
  <2>5. Puts(todo'[p], e) = b + a
    BY <1>22, <1>24, <2>1, <2>2
  <2>6. a + b = 0 + (b + a)
    OBVIOUS
  <2> QED
    BY <1>12, <2>3, <2>4, <2>5, <2>6
<1>29. lock' \in [Entry -> Proc \cup {None}] /\ LockStep(p)
  BY <1>7, <1>11 DEF TypeOK, LockStep
<1>30. Busy(p) /\ ~Does(p, "drop")
  <2> HIDE DEF Running
  <2> QED
    BY <1>3, <1>11, <1>12, <1>19, <1>20, <1>24, <1>25, <1>26, <1>27, <1>28, <1>29,
       BusyTo
<1>31. Undisturbed(p)
  BY <1>12, <1>20, GrownUndisturbed
<1>32. Tree'
  <2>1. ASSUME NEW j \in Inum, NEW m \in Name,
               disk'[j].ents[m] # disk[j].ents[m]
        PROVE  /\ disk'[j].ents[m] \in Inum /\ disk'[j].type = "dir"
               /\ disk'[j].ents[m] # j
               /\ disk'[disk'[j].ents[m]].type # "none"
    BY <1>6, <1>8, <1>19, <2>1
  <2> QED
    BY <1>19, <1>20, <2>1, TreeStays
<1>33. Account'
  <2> SUFFICES ASSUME NEW j \in Inum, disk'[j].type # "none"
               PROVE  disk'[j].nlink = Entries(j)' + One(j = root)
                        + Cardinality(Pending(j)')
                        + (IF disk'[j].type = "dir" THEN Subdirs(j)' ELSE 0)
    BY DEF Account
  <2>1. PICK y : y = disk'
    OBVIOUS
  <2>2. Adds(disk, y, d, nm, i)
    BY <1>9, <1>19, <2>1 DEF Adds
  <2>3. TypesNamed(disk, y)
    BY <1>19, <2>1, NamedInodes DEF TypesNamed
  <2>4. /\ Cardinality(Namings(y, i)) = Cardinality(Namings(disk, i)) + 1
        /\ \A x \in Inum : x # i => Namings(y, x) = Namings(disk, x)
    BY <1>6, <2>2, AddsNaming
  <2>5. /\ Cardinality(Children(y, d))
              = Cardinality(Children(disk, d)) + One(y[i].type = "dir")
        /\ \A x \in Inum : x # d => Children(y, x) = Children(disk, x)
    BY <1>6, <2>2, <2>3, AddsChild
  <2>6. PICK up \in Nat : up = One(i = j)
    BY DEF One
  <2>7. PICK zero \in Nat : zero = 0
    OBVIOUS
  <2>8. Cardinality(Namings(disk', j)) + zero = Cardinality(Namings(disk, j)) + up
    <3>1. Cardinality(Namings(disk, j)) \in Nat
      BY CountsFinite
    <3>2. CASE j = i
      BY <2>1, <2>4, <2>6, <2>7, <3>1, <3>2 DEF One
    <3>3. CASE j # i
      BY <2>1, <2>4, <2>6, <2>7, <3>1, <3>3 DEF One
    <3> QED
      BY <3>2, <3>3
  <2>9. Cardinality(Children(disk', j)) + zero
            = Cardinality(Children(disk, j)) + zero
    <3>1. One(y[i].type = "dir") = 0
      BY <1>6, <1>8, <1>19, <2>1 DEF One
    <3>2. Cardinality(Children(disk, j)) \in Nat
      BY CountsFinite
    <3>3. CASE j = d
      BY <2>1, <2>5, <3>1, <3>2, <3>3
    <3>4. CASE j # d
      BY <2>1, <2>5, <3>4
    <3> QED
      BY <3>3, <3>4
  <2>10. disk'[j].nlink + PendOf(p, j) + zero + zero
             = disk[j].nlink + PendOf(p, j)' + up + zero
    <3>1. disk'[j].nlink = disk[j].nlink
      BY <1>16, <1>19
    <3>2. PendOf(p, j) = up /\ PendOf(p, j)' = 0
      BY <1>14, <1>26, <2>6 DEF PendOf, One
    <3>3. PICK k \in Nat : k = disk[j].nlink
      BY <1>13 DEF Disks, Inodes
    <3>4. k + up + 0 + 0 = k + 0 + up + 0
      OBVIOUS
    <3> QED
      BY <2>7, <3>1, <3>2, <3>3, <3>4
  <2>11. disk'[j].type = disk[j].type /\ disk[j].type # "none"
    BY <1>19
  <2> QED
    BY <1>19, <1>24, <1>31, <2>7, <2>8, <2>9, <2>10, <2>11, Recounted
<1> HIDE DEF Running
<1> QED
  BY <1>30, <1>32, <1>33, BusyStep

\* unlink removes the entry; the link stays pending until its count is lowered.
LEMMA RemoveEntryStep ==
    ASSUME Sound, Running, NEW p \in Proc, RemoveEntry(p)
    PROVE  Sound'
<1> DEFINE dp == reg[p].dp
           w == reg[p].ip
           d == icache[dp].inum
           i == icache[w].inum
           nm == reg[p].name
           r == reg'[p]
           x == <<"removed">>
           l == <<x>>
           cut == IF disk[i].type = "dir" THEN 1 ELSE 0
<1>1. PICK what : what = "remove"
  OBVIOUS
<1>2. Does(p, what) /\ what \notin {"put", "drop"} /\ CanLock(p, w)
  BY <1>1 DEF RemoveEntry
<1>3. /\ Coding(p) /\ todo[p] # << >> /\ Head(todo[p])[1] = what
      /\ Fits(todo[p], onfail[p], reg[p])
      /\ onfail[p] \in Seq(Instr) /\ Plain(onfail[p])
      /\ Pends(p) <=> PendsIn(todo[p], onfail[p])
      /\ \A y : Doing(p, y) <=> y = what
  BY <1>2, DoesCode
<1>4. onfail[p] = << >> /\ DpHeld(reg[p]) /\ reg[p].ip # None
  BY <1>1, <1>3, FitsAt
<1>5. ~Pends(p) /\ Doing(p, "remove")
  BY <1>1, <1>3 DEF PendsIn, At
<1>6. /\ w \in Entry /\ Holds(p, w) /\ icache[w].ref > 0 /\ i \in Inum
      /\ disk[i].type # "none"
      /\ dp \in Entry /\ icache[dp].ref > 0 /\ d \in Inum
      /\ disk[d].type = "dir" /\ nm \in Name /\ dp # None /\ reg[p].w = None
  BY <1>4, RegsHeld DEF DpHeld, IsDir, Inode
<1>7. CodeType /\ TypeOK /\ None \notin Entry
  BY NoneIsNoEntry DEF Sound
<1>8. disk[d].ents[nm] = i /\ lock[dp] = p
  BY <1>5 DEF Sound, MeaningOf, LocksOf, Found, Inode
<1>9. disk \in Disks
  BY <1>7, DiskType
<1>10. /\ i # d /\ i # 0
  BY <1>6, <1>8, NamedInodes DEF Inum
<1>11. disk[i].nlink \in Nat /\ disk[i].nlink >= 1
  BY <1>6, <1>8, NamedIsLinked
<1>12. ~(Inode(w).nlink < 1) /\ (IsDir(w) <=> disk[i].type = "dir")
  BY <1>11 DEF Inode, IsDir
<1>13. x \in Instr /\ ~IsPut(x) /\ x[1] = "removed"
  BY Written1 DEF IsPut
<1>14. <<<<"put", dp>>, x>> = PutThen(dp, l)
  <2>1. <<"put", dp>> \in Instr
    BY <1>6, Written1
  <2> HIDE DEF x, dp
  <2> QED
    BY <1>13, <2>1, WrittenTwo DEF PutThen
<1>15. /\ disk' = [disk EXCEPT ![d].ents[nm] = 0,
                               ![d].nlink = IF IsDir(w) THEN disk[d].nlink - 1
                                            ELSE disk[d].nlink]
       /\ lock' = [lock EXCEPT ![dp] = None, ![w] = p]
       /\ icache' = Read(w) /\ reg' = NoDp(p)
       /\ todo' = [todo EXCEPT ![p] = PutThen(dp, l)]
       /\ onfail' = onfail /\ fd' = fd /\ cwd' = cwd /\ lost' = lost
       /\ panic' = "none"
  BY <1>12, <1>14 DEF RemoveEntry, Then, Running
<1>16. /\ Grown(icache') /\ Alive(icache', disk)
       /\ \A f \in Entry : icache'[f].ref = icache[f].ref
                           /\ icache'[f].inum = icache[f].inum
  BY <1>6, <1>15, ReadHeld
<1>17. lock[w] \in {None, p} /\ dp # w
  BY <1>2, <1>10 DEF CanLock
<1>18. /\ reg' \in [Proc -> Registers]
       /\ \A q \in Proc : q # p => reg'[q] = reg[q]
       /\ r.w = None /\ r.ip = w /\ r.dp = None
  BY <1>6, <1>7, <1>15, WithoutDp
<1>19. (disk[i].type = "dir") => nm \in Children(disk, d)
  BY <1>6, <1>8, <1>10 DEF Children
<1> HIDE DEF x
<1>20. /\ l \in Seq(Instr) /\ Plain(l) /\ l # << >> /\ Head(l) = x
       /\ Tail(l) = << >> /\ Last(l, x[1])
  BY <1>13, CodeOne
<1> HIDE DEF d, i, nm, w, dp, r, l
<1>21. PICK k \in Nat, c \in Nat :
          k = disk[d].nlink /\ k = c + cut /\ cut \in Nat
  <2>1. PICK k \in Nat : k = disk[d].nlink
    BY <1>6, <1>9 DEF Disks, Inodes
  <2>2. CASE disk[i].type = "dir"
    <3>1. PICK m \in Nat : m = Cardinality(Children(disk, d))
      BY CountsFinite
    <3>2. m >= 1
      BY <1>19, <2>2, <3>1, CountsFinite, AtLeast
    <3>3. PICK a \in Nat, b \in Nat, e \in Nat, s \in Nat :
             /\ a = Cardinality(Namings(disk, d)) /\ b = One(d = root)
             /\ e = Cardinality(Pending(d))
             /\ s = (IF disk[d].type = "dir"
                     THEN Cardinality(Children(disk, d)) ELSE 0)
             /\ disk[d].nlink = a + b + e + s
      BY <1>6, Accounts
    <3>4. k >= 1
      <4>1. s = m /\ k = a + b + e + s
        BY <1>6, <2>1, <3>1, <3>3
      <4> QED
        BY <3>2, <4>1
    <3>5. k - 1 \in Nat /\ k = (k - 1) + 1
      BY <3>4
    <3> QED
      BY <2>1, <2>2, <3>5
  <2>3. CASE disk[i].type # "dir"
    <3>1. k = k + 0
      OBVIOUS
    <3> QED
      BY <2>1, <2>3, <3>1
  <2> QED
    BY <2>2, <2>3
<1>22. c = IF IsDir(w) THEN disk[d].nlink - 1 ELSE disk[d].nlink
  <2>1. CASE disk[i].type = "dir"
    <3>1. k = c + 1
      BY <1>21, <2>1
    <3>2. c = k - 1
      BY <3>1
    <3> QED
      BY <1>12, <1>21, <2>1, <3>2
  <2>2. CASE disk[i].type # "dir"
    <3>1. k = c + 0
      BY <1>21, <2>2
    <3>2. c = k
      BY <3>1
    <3> QED
      BY <1>12, <1>21, <2>2, <3>2
  <2> QED
    BY <2>1, <2>2
<1> HIDE DEF cut
<1>23. disk' = Entered(disk, d, nm, 0, c)
  <2>1. disk' = EntryLinkAs(disk, d, nm, 0, c)
    BY <1>15, <1>22 DEF EntryLinkAs
  <2> QED
    BY <1>6, <1>9, <2>1, EnteredAs
<1>24. /\ disk' \in Disks /\ disk'[d].nlink = c /\ disk'[d].ents[nm] = 0
       /\ \A j \in Inum : j # d => disk'[j] = disk[j]
       /\ \A j \in Inum : disk'[j].type = disk[j].type
       /\ \A j \in Inum, m \in Name :
             ~(j = d /\ m = nm) => disk'[j].ents[m] = disk[j].ents[m]
  <2>1. PICK y : y = disk'
    OBVIOUS
  <2>2. PICK z \in 0..NINODES : z = 0
    BY FsConstants
  <2>3. /\ y \in Disks /\ y[d].nlink = c /\ y[d].ents[nm] = z
        /\ \A j \in Inum : j # d => y[j] = disk[j]
        /\ \A j \in Inum : y[j].type = disk[j].type
        /\ \A j \in Inum, m \in Name :
              ~(j = d /\ m = nm) => y[j].ents[m] = disk[j].ents[m]
    BY <1>6, <1>9, <1>23, <2>1, <2>2, EnteredFacts
  <2> QED
    BY <2>1, <2>2, <2>3
<1>25. TypesStay /\ DirGuard(p) /\ Alive(icache', disk')
  <2>1. TypesStay
    BY <1>24 DEF TypesStay
  <2>2. \A j \in Inum : j # icache[dp].inum => disk'[j].ents = disk[j].ents
    BY <1>24 DEF d
  <2>3. DirGuard(p)
    BY <1>6, <1>8, <2>2, GuardedBy
  <2>4. Alive(icache', disk')
    <3>1. \A f \in Entry : icache'[f] # icache[f] => icache'[f].inum \in Inum
      BY <1>16 DEF Grown
    <3>2. \A f \in Entry : icache'[f] # icache[f]
                           => disk[icache'[f].inum].type # "none"
      BY <1>16 DEF Alive
    <3> QED
      BY <1>24, <3>1, <3>2 DEF Alive
  <2> QED
    BY <2>1, <2>3, <2>4
<1>26. Fits(l, onfail[p], r) /\ PendsIn(l, onfail[p])
  <2>1. IpHeld(r)
    BY <1>6, <1>7, <1>18 DEF IpHeld
  <2> QED
    BY <1>13, <1>20, <2>1 DEF Fits, PendsIn, At, Last
<1>27. /\ CodeOf(PutThen(dp, l), onfail[p], r) /\ Bare(PutThen(dp, l)) = l
       /\ PutThen(dp, l) \in Seq(Instr)
       /\ \A f : Puts(PutThen(dp, l), f) = One(dp = f)
  BY <1>3, <1>6, <1>18, <1>20, <1>26, CodePut
<1>28. CodeType' /\ Alone(p) /\ todo'[p] = PutThen(dp, l)
  BY <1>7, <1>15, <1>18, <1>27 DEF CodeType, Alone
<1>29. CodeOf(todo'[p], onfail'[p], reg'[p])
  BY <1>15, <1>27, <1>28 DEF r
<1>30. /\ Pends(p)' /\ \A y : Doing(p, y)' <=> y = "removed"
  <2>1. PendsIn(Bare(todo'[p]), onfail'[p])
    BY <1>15, <1>26, <1>27, <1>28
  <2>2. \A y : Doing(p, y)' <=> y = "removed"
    BY <1>13, <1>20, <1>27, <1>28 DEF Doing, At, Last
  <2> QED
    BY <2>1, <2>2, PendsInCode
<1>31. lock' \in [Entry -> Proc \cup {None}] /\ LockStep(p) /\ lock'[w] = p
  <2>1. lock \in [Entry -> Proc \cup {None}]
    BY <1>7 DEF TypeOK
  <2>2. /\ lock'[w] = p /\ lock'[dp] = None
        /\ \A f \in Entry : f # w /\ f # dp => lock'[f] = lock[f]
        /\ lock' \in [Entry -> Proc \cup {None}]
    BY <1>6, <1>15, <1>17, <2>1
  <2> QED
    BY <1>8, <1>17, <2>2 DEF LockStep
<1>32. LocksOf(p)'
  BY <1>18, <1>30, <1>31 DEF LocksOf, r
<1>33. MeaningOf(p)'
  BY <1>18, <1>30 DEF MeaningOf, r
<1>34. ASSUME NEW e \in Entry
       PROVE  icache'[e].ref + InRegs(reg[p], e)
                 = icache[e].ref + (InRegs(reg'[p], e) + Puts(todo'[p], e))
  <2>1. PICK a \in Nat : a = One(w = e)
    BY DEF One
  <2>2. PICK b \in Nat : b = One(dp = e)
    BY DEF One
  <2>3. InRegs(reg[p], e) = a + b
    BY <1>6, <1>7, <2>1, <2>2 DEF InRegs, One, w, dp
  <2>4. InRegs(reg'[p], e) = a
    BY <1>7, <1>18, <2>1 DEF InRegs, One, r
  <2>5. Puts(todo'[p], e) = b
    BY <1>27, <1>28, <2>2
  <2> QED
    BY <1>16, <2>3, <2>4, <2>5
<1>35. Busy(p) /\ ~Does(p, "drop")
  <2> HIDE DEF Running
  <2> QED
    BY <1>3, <1>15, <1>16, <1>24, <1>25, <1>28, <1>29, <1>31, <1>32, <1>33, <1>34,
       BusyTo
<1>36. Undisturbed(p)
  BY <1>16, <1>25, GrownUndisturbed
<1>37. Tree'
  <2>1. ASSUME NEW j \in Inum, NEW m \in Name,
               disk'[j].ents[m] # disk[j].ents[m]
        PROVE  disk'[j].ents[m] = 0
    BY <1>24, <2>1
  <2> QED
    BY <1>24, <1>25, <2>1, TreeStays
<1>38. Account'
  <2> SUFFICES ASSUME NEW j \in Inum, disk'[j].type # "none"
               PROVE  disk'[j].nlink = Entries(j)' + One(j = root)
                        + Cardinality(Pending(j)')
                        + (IF disk'[j].type = "dir" THEN Subdirs(j)' ELSE 0)
    BY DEF Account
  <2>1. PICK y : y = disk'
    OBVIOUS
  <2>2. Adds(y, disk, d, nm, i)
    BY <1>8, <1>24, <2>1 DEF Adds
  <2>3. TypesNamed(y, disk)
    <3> SUFFICES ASSUME NEW a \in Inum, NEW m \in Name, y[a].ents[m] # 0
                 PROVE  disk[y[a].ents[m]].type = y[y[a].ents[m]].type
      BY DEF TypesNamed
    <3>1. y[a].ents[m] = disk[a].ents[m]
      BY <1>24, <2>1
    <3>2. disk[a].ents[m] \in Inum
      BY <3>1, NamedInodes
    <3> QED
      BY <1>24, <2>1, <3>1, <3>2
  <2>4. /\ Cardinality(Namings(disk, i)) = Cardinality(Namings(y, i)) + 1
        /\ \A a \in Inum : a # i => Namings(disk, a) = Namings(y, a)
    BY <1>6, <2>2, AddsNaming
  <2>5. /\ Cardinality(Children(disk, d))
              = Cardinality(Children(y, d)) + One(disk[i].type = "dir")
        /\ \A a \in Inum : a # d => Children(disk, a) = Children(y, a)
    BY <1>6, <2>2, <2>3, AddsChild
  <2>6. PICK down \in Nat : down = One(i = j)
    BY DEF One
  <2>7. PICK out \in Nat : out = IF j = d THEN cut ELSE 0
    BY <1>21
  <2>8. PICK zero \in Nat : zero = 0
    OBVIOUS
  <2>9. Cardinality(Namings(disk', j)) + down = Cardinality(Namings(disk, j)) + zero
    <3>1. PICK a \in Nat, b \in Nat : a = Cardinality(Namings(y, j))
                                      /\ b = Cardinality(Namings(disk, j))
      BY CountsFinite
    <3>2. CASE j = i
      <4>1. down = 1 /\ b = a + 1
        BY <2>4, <2>6, <3>1, <3>2 DEF One
      <4>2. a + down = b + 0
        BY <4>1
      <4> QED
        BY <2>1, <2>8, <3>1, <4>2
    <3>3. CASE j # i
      <4>1. down = 0 /\ b = a
        BY <2>4, <2>6, <3>1, <3>3 DEF One
      <4>2. a + down = b + 0
        BY <4>1
      <4> QED
        BY <2>1, <2>8, <3>1, <4>2
    <3> QED
      BY <3>2, <3>3
  <2>10. Cardinality(Children(disk', j)) + out
            = Cardinality(Children(disk, j)) + zero
    <3>1. PICK a \in Nat, b \in Nat : a = Cardinality(Children(y, j))
                                      /\ b = Cardinality(Children(disk, j))
      BY CountsFinite
    <3>2. One(disk[i].type = "dir") = cut
      BY DEF One, cut
    <3>3. b = a + out
      <4>1. CASE j = d
        BY <2>5, <2>7, <3>1, <3>2, <4>1
      <4>2. CASE j # d
        <5>1. b = a /\ out = 0
          BY <2>5, <2>7, <3>1, <4>2
        <5> QED
          BY <5>1
      <4> QED
        BY <4>1, <4>2
    <3>4. a + out = b + 0
      BY <3>3
    <3> QED
      BY <2>1, <2>8, <3>1, <3>4
  <2>11. disk'[j].nlink + PendOf(p, j) + down + out
             = disk[j].nlink + PendOf(p, j)' + zero + zero
    <3>1. PendOf(p, j) = 0
      BY <1>5 DEF PendOf, One
    <3>2. PendOf(p, j)' = down
      <4>1. icache'[reg'[p].ip].inum = i
        BY <1>6, <1>16, <1>18 DEF i, r
      <4> QED
        BY <1>30, <2>6, <4>1 DEF PendOf, One
    <3>3. PICK a \in Nat, b \in Nat : a = disk'[j].nlink /\ b = disk[j].nlink
      BY <1>9, <1>24 DEF Disks, Inodes
    <3>4. b = a + out
      <4>1. CASE j = d
        BY <1>21, <1>24, <2>7, <3>3, <4>1
      <4>2. CASE j # d
        <5>1. b = a /\ out = 0
          BY <1>24, <2>7, <3>3, <4>2
        <5> QED
          BY <5>1
      <4> QED
        BY <4>1, <4>2
    <3>5. a + 0 + down + out = b + down + 0 + 0
      BY <3>4
    <3> QED
      BY <2>8, <3>1, <3>2, <3>3, <3>5
  <2>12. disk'[j].type = disk[j].type /\ disk[j].type # "none"
    BY <1>24
  <2>13. disk[j].type = "dir" \/ (zero = 0 /\ out = 0)
    BY <1>6, <2>7, <2>8
  <2> QED
    BY <1>24, <1>28, <1>36, <2>9, <2>10, <2>11, <2>12, <2>13, Recounted
<1> HIDE DEF Running
<1> QED
  BY <1>35, <1>37, <1>38, BusyStep

\* The disk when create has made inode i, a t, under name n of directory d.
CreatedIn(i, d, n, t) ==
    [disk EXCEPT ![i] = [Free EXCEPT !.type = t, !.nlink = 1],
                 ![d].ents[n] = i,
                 ![d].nlink = IF t = "dir" THEN disk[d].nlink + 1
                              ELSE disk[d].nlink]

CreatedFacts(y, i, d, n, t) ==
    /\ y \in Disks /\ y[i].type = t /\ y[i].nlink = 1
    /\ y[d].ents[n] = i /\ y[d].nlink = disk[d].nlink + One(t = "dir")
    /\ \A j \in Inum : j # i => y[j].type = disk[j].type
    /\ \A j \in Inum : j # i /\ j # d => y[j].nlink = disk[j].nlink
    /\ \A j \in Inum : j # d => y[j].ents = disk[j].ents
    /\ \A j \in Inum, m \in Name :
          ~(j = d /\ m = n) => y[j].ents[m] = disk[j].ents[m]

LEMMA CreatedDisk ==
    ASSUME Sound, Running, NEW i \in Inum, disk[i].type = "none",
           NEW d \in Inum, disk[d].type = "dir", NEW n \in Name,
           NEW t \in Kinds, NEW y, y = CreatedIn(i, d, n, t)
    PROVE  CreatedFacts(y, i, d, n, t)
<1> DEFINE new == [Free EXCEPT !.type = t, !.nlink = 1]
           x == [disk EXCEPT ![i] = new]
           c == IF t = "dir" THEN disk[d].nlink + 1 ELSE disk[d].nlink
<1>1. disk \in Disks /\ i # d
  BY DiskType DEF Sound
<1>2. /\ new \in Inodes /\ new.type = t /\ new.nlink = 1
      /\ new.ents = [m \in Name |-> 0]
  <2>1. PICK z : z = [m \in Name |-> 0]
    OBVIOUS
  <2>2. z \in [Name -> 0..NINODES]
    BY <2>1, FsConstants
  <2>3. PICK f : f = Free
    OBVIOUS
  <2>4. f = [type |-> "none", nlink |-> 0, ents |-> z, target |-> << >>]
    BY <2>1, <2>3 DEF Free
  <2>5. f \in Inodes /\ f.ents = z
    BY <2>2, <2>4 DEF Inodes
  <2>6. t \in {"none", "file", "dir", "sym"}
    BY DEF Kinds
  <2>7. PICK g : g = [f EXCEPT !.type = t]
    OBVIOUS
  <2>8. g \in Inodes /\ g.type = t /\ g.ents = z
    BY <2>5, <2>6, <2>7 DEF Inodes
  <2>9. [f EXCEPT !.type = t, !.nlink = 1] = [g EXCEPT !.nlink = 1]
    BY <2>7
  <2>10. PICK h : h = [g EXCEPT !.nlink = 1]
    OBVIOUS
  <2>11. h \in Inodes /\ h.type = t /\ h.ents = z /\ h.nlink = 1
    BY <2>8, <2>10 DEF Inodes
  <2> QED
    BY <2>1, <2>3, <2>9, <2>10, <2>11
<1> HIDE DEF new
<1>3. disk[i].ents = [m \in Name |-> 0]
  <2>1. disk[i].ents \in [Name -> 0..NINODES]
    BY <1>1 DEF Disks, Inodes
  <2>2. \A m \in Name : disk[i].ents[m] = 0
    BY DEF Sound, Tree
  <2> QED
    BY <2>1, <2>2
<1>4. /\ x \in Disks /\ x[i] = new /\ \A j \in Inum : j # i => x[j] = disk[j]
  BY <1>1, <1>2 DEF Disks
<1>5. c \in Nat /\ c = disk[d].nlink + One(t = "dir")
  <2>1. PICK k \in Nat : k = disk[d].nlink
    BY <1>1 DEF Disks, Inodes
  <2>2. CASE t = "dir"
    BY <2>1, <2>2 DEF One
  <2>3. CASE t # "dir"
    <3>1. k + 0 = k
      OBVIOUS
    <3> QED
      BY <2>1, <2>3, <3>1 DEF One
  <2> QED
    BY <2>2, <2>3
<1>6. y = EntryLinkAs(x, d, n, i, c)
  BY DEF CreatedIn, EntryLinkAs, new
<1> HIDE DEF x, c
<1>7. y = Entered(x, d, n, i, c)
  BY <1>4, <1>6, EnteredAs
<1>8. i \in 0..NINODES
  BY FsConstants DEF Inum
<1>9. /\ y \in Disks /\ y[d].nlink = c /\ y[d].ents[n] = i
      /\ \A j \in Inum : j # d => y[j] = x[j]
      /\ \A j \in Inum : y[j].type = x[j].type
      /\ \A j \in Inum, m \in Name :
            ~(j = d /\ m = n) => y[j].ents[m] = x[j].ents[m]
  BY <1>4, <1>5, <1>7, <1>8, EnteredFacts
<1>10. y[i] = new
  BY <1>1, <1>4, <1>9
<1>11. \A j \in Inum : j # d => y[j].ents = disk[j].ents
  BY <1>2, <1>3, <1>4, <1>9
<1>12. ASSUME NEW j \in Inum, NEW m \in Name, ~(j = d /\ m = n)
       PROVE  y[j].ents[m] = disk[j].ents[m]
  BY <1>1, <1>4, <1>9, <1>11, <1>12
<1>13. \A j \in Inum : j # i => y[j].type = disk[j].type
  BY <1>4, <1>9
<1>14. \A j \in Inum : j # i /\ j # d => y[j].nlink = disk[j].nlink
  BY <1>4, <1>9
<1> QED
  BY <1>2, <1>5, <1>9, <1>10, <1>11, <1>12, <1>13, <1>14 DEF CreatedFacts

LEMMA CreatedCounts ==
    ASSUME Sound, Running, NEW i \in Inum, disk[i].type = "none",
           NEW d \in Inum, disk[d].type = "dir", NEW n \in Name,
           disk[d].ents[n] = 0, NEW t \in Kinds,
           NEW y, CreatedFacts(y, i, d, n, t)
    PROVE  /\ Cardinality(Namings(y, i)) = 1
           /\ Cardinality(Children(y, i)) = 0
           /\ \A j \in Inum : j # i => Namings(y, j) = Namings(disk, j)
           /\ Cardinality(Children(y, d))
                 = Cardinality(Children(disk, d)) + One(t = "dir")
           /\ \A j \in Inum : j # d => Children(y, j) = Children(disk, j)
<1>1. i # d
  OBVIOUS
<1>2. Adds(disk, y, d, n, i)
  BY DEF CreatedFacts, Adds
<1>3. ASSUME NEW j \in Inum, NEW m \in Name PROVE disk[j].ents[m] # i
  <2>1. i # 0
    BY DEF Inum
  <2> QED
    BY <2>1, NamedInodes
<1>4. TypesNamed(disk, y)
  <2> SUFFICES ASSUME NEW j \in Inum, NEW m \in Name, disk[j].ents[m] # 0
               PROVE  y[disk[j].ents[m]].type = disk[disk[j].ents[m]].type
    BY DEF TypesNamed
  <2>1. disk[j].ents[m] \in Inum /\ disk[j].ents[m] # i
    BY <1>3, NamedInodes
  <2> QED
    BY <2>1 DEF CreatedFacts
<1>5. /\ Cardinality(Namings(y, i)) = Cardinality(Namings(disk, i)) + 1
      /\ \A j \in Inum : j # i => Namings(y, j) = Namings(disk, j)
  BY <1>2, AddsNaming
<1>6. /\ Cardinality(Children(y, d))
            = Cardinality(Children(disk, d)) + One(y[i].type = "dir")
      /\ \A j \in Inum : j # d => Children(y, j) = Children(disk, j)
  BY <1>2, <1>4, AddsChild
<1>7. Cardinality(Namings(disk, i)) = 0
  <2>1. Namings(disk, i) = {}
    BY <1>3 DEF Namings
  <2> QED
    BY <2>1, FS_EmptySet
<1>8. Cardinality(Children(y, i)) = 0
  <2>1. \A m \in Name : disk[i].ents[m] = 0
    BY NamedInodes
  <2>2. Children(disk, i) = {}
    BY <2>1 DEF Children
  <2>3. Children(y, i) = {}
    BY <1>1, <1>6, <2>2
  <2> QED
    BY <2>3, FS_EmptySet
<1>9. y[i].type = t
  BY DEF CreatedFacts
<1> QED
  BY <1>5, <1>6, <1>7, <1>8, <1>9

\* An inode that was free has no link pending, even when p has made it.
LEMMA NonePending ==
    ASSUME Sound, Running, NEW p \in Proc, Alone(p), Undisturbed(p), ~Pends(p)',
           NEW i \in Inum, disk[i].type = "none"
    PROVE  Pending(i)' = {}
<1>1. CodeType /\ Code
  BY DEF Sound
<1>2. ASSUME NEW q \in Proc PROVE ~(Pends(q) /\ icache[reg[q].ip].inum = i)'
  <2>1. CASE q = p
    BY <2>1
  <2>2. CASE q # p
    <3>1. (Pends(q)' <=> Pends(q)) /\ reg'[q] = reg[q]
      BY <2>2, OthersCode
    <3>2. CASE Pends(q)
      <4>1. PICK e \in Entry : e = reg[q].ip
        BY <1>1, <3>2, WhatIsHeld
      <4>2. Holds(q, e)
        BY <4>1 DEF Holds
      <4>3. icache'[e].inum = icache[e].inum
        BY <2>2, <4>2 DEF Undisturbed
      <4>4. icache[e].inum # i
        BY <4>2, HeldIsAlive DEF Inode
      <4> QED
        BY <3>1, <4>1, <4>3, <4>4
    <3> QED
      BY <3>1, <3>2
  <2> QED
    BY <2>1, <2>2
<1> QED
  BY <1>2 DEF Pending

\* The entry of an inode that was free is nobody's.
LEMMA FreeIsNotHeld ==
    ASSUME Sound, Running, NEW i \in Inum, disk[i].type = "none", CanGet(i),
           NEW e, e = GetEntry(i)
    PROVE  e \in Entry /\ \A q \in Proc : ~Holds(q, e)
<1>1. TypeOK /\ OneEntry
  BY DEF Sound
<1>2. /\ e \in Entry
      /\ Cached(i) # {} => icache[e].ref > 0 /\ icache[e].inum = i
      /\ Cached(i) = {} => icache[e].ref = 0
  BY <1>1, Gotten
<1>3. ASSUME NEW q \in Proc, Holds(q, e) PROVE FALSE
  <2>1. icache[e].ref \in Nat /\ icache[e].ref >= 1 /\ Inode(e).type # "none"
    BY <1>2, <1>3, HeldIsAlive
  <2>2. icache[e].ref # 0
    BY <2>1
  <2> QED
    BY <1>2, <2>1, <2>2 DEF Inode
<1> QED
  BY <1>2, <1>3

\* create makes the inode and its entry in the directory.
LEMMA CreateNewStep ==
    ASSUME Sound, Running, NEW p \in Proc, CreateNew(p)
    PROVE  Sound'
<1> DEFINE dp == reg[p].dp
           d == icache[dp].inum
           nm == reg[p].name
           t == Arg(p)
           k == Rest(p)
           r == reg'[p]
<1>1. PICK what : what = "create"
  OBVIOUS
<1>2. Does(p, what) /\ what \notin {"put", "drop"} /\ CanLock(p, dp)
  BY <1>1 DEF CreateNew
<1>3. /\ Coding(p) /\ todo[p] # << >> /\ Head(todo[p])[1] = what
      /\ Head(todo[p]) \in Instr /\ Fits(todo[p], onfail[p], reg[p])
      /\ k \in Seq(Instr) /\ Plain(k)
      /\ onfail[p] \in Seq(Instr) /\ Plain(onfail[p])
      /\ Pends(p) <=> PendsIn(todo[p], onfail[p])
      /\ \A y : Doing(p, y) <=> y = what
  BY <1>2, DoesCode
<1>4. /\ Making(t, k, onfail[p]) /\ reg[p].w = None
      /\ dp # None /\ reg[p].ip = None
  BY <1>1, <1>3, FitsAt DEF DpHeld, Arg, Rest
<1>5. ~Pends(p)
  BY <1>1, <1>3 DEF PendsIn, At
<1>6. /\ dp \in Entry /\ Holds(p, dp) /\ icache[dp].ref > 0 /\ d \in Inum
      /\ disk[d].type = "dir" /\ nm \in Name
  BY <1>4, RegsHeld DEF IsDir, Inode
<1>7. CodeType /\ TypeOK /\ OneEntry /\ None \notin Entry
  BY NoneIsNoEntry DEF Sound
<1>8. t \in Kinds
  BY <1>1, <1>3, Carried DEF Arg
<1>9. disk[d].ents[nm] = 0
  BY DEF CreateNew, Found, Inode
<1>10. CASE FreeInums = {}
  <2>1. Panics("ialloc: no inodes")
    BY <1>10 DEF CreateNew
  <2> QED
    BY <2>1, PanicStep DEF Panics
<1>11. CASE FreeInums # {} /\ ~CanGet(Min(FreeInums))
  <2>1. Panics("iget: no inodes")
    BY <1>11 DEF CreateNew
  <2> QED
    BY <2>1, PanicStep DEF Panics
<1>12. CASE FreeInums # {} /\ CanGet(Min(FreeInums))
  <2>1. PICK i \in Inum : i = Min(FreeInums) /\ disk[i].type = "none"
    <3>1. FreeInums \in SUBSET (0..NINODES) /\ NINODES \in Nat
      BY FsConstants DEF FreeInums, Inum
    <3>2. Min(FreeInums) \in FreeInums
      BY <1>12, <3>1, LeastNumber
    <3> QED
      BY <3>2 DEF FreeInums
  <2>2. CanGet(i) /\ i # d
    BY <1>6, <1>12, <2>1
  <2>3. PICK g : g = GetEntry(i)
    OBVIOUS
  <2>4. g \in Entry /\ \A q \in Proc : ~Holds(q, g)
    BY <2>1, <2>2, <2>3, FreeIsNotHeld
  <2>5. <<<<"put", dp>>>> \o k = PutThen(dp, k)
    BY DEF PutThen
  <2>6. /\ disk' = CreatedIn(i, d, nm, t)
        /\ icache' = Seen(Get(Read(dp), i), g)
        /\ lock' = [lock EXCEPT ![g] = p] /\ reg' = MovedIp(p, g)
        /\ todo' = [todo EXCEPT ![p] = PutThen(dp, k)]
        /\ onfail' = onfail /\ fd' = fd /\ cwd' = cwd /\ lost' = lost
        /\ panic' = "none"
    BY <1>12, <2>1, <2>2, <2>3, <2>5
       DEF CreateNew, CreatedIn, Seen, MovedIp, Then, Running
  <2> HIDE DEF d, nm, t, k, dp, r
  <2>7. CreatedFacts(disk', i, d, nm, t)
    <3>1. PICK y : y = disk'
      OBVIOUS
    <3>2. y = CreatedIn(i, d, nm, t)
      BY <2>6, <3>1
    <3>3. CreatedFacts(y, i, d, nm, t)
      BY <1>6, <1>8, <2>1, <3>2, CreatedDisk
    <3> QED
      BY <3>1, <3>3
  <2>8. t # "none"
    BY <1>8 DEF Kinds
  <2>9. /\ disk' \in Disks /\ disk'[i].type = t /\ disk'[i].nlink = 1
        /\ disk'[d].ents[nm] = i
        /\ disk'[d].nlink = disk[d].nlink + One(t = "dir")
        /\ \A j \in Inum : j # i => disk'[j].type = disk[j].type
        /\ \A j \in Inum : j # i /\ j # d => disk'[j].nlink = disk[j].nlink
        /\ \A j \in Inum : j # d => disk'[j].ents = disk[j].ents
        /\ \A j \in Inum, m \in Name :
              ~(j = d /\ m = nm) => disk'[j].ents[m] = disk[j].ents[m]
    BY <2>7 DEF CreatedFacts
  <2>10. TypesStay /\ DirGuard(p)
    <3>1. TypesStay
      BY <2>1, <2>9 DEF TypesStay
    <3>2. \A j \in Inum : j # icache[dp].inum => disk'[j].ents = disk[j].ents
      BY <2>9 DEF d
    <3>3. lock[dp] \in {None, p}
      BY <1>2 DEF CanLock, dp
    <3> QED
      BY <1>6, <3>1, <3>2, <3>3, GuardedBy
  <2>11. /\ Grown(icache') /\ Alive(icache', disk')
         /\ \A f \in Entry : icache'[f].ref = icache[f].ref + One(f = g)
    <3>1. PICK m : m = Read(dp)
      OBVIOUS
    <3>2. /\ Grown(m) /\ Alive(m, disk) /\ NoneTaken(m)
          /\ \A f \in Entry : m[f].ref = icache[f].ref
      BY <1>6, <3>1, ReadHeld
    <3>3. PICK y : y = disk'
      OBVIOUS
    <3>4. Alive(m, y)
      <4>1. \A f \in Entry : m[f] # icache[f] =>
                 m[f].inum \in Inum /\ disk[m[f].inum].type # "none"
        BY <3>2 DEF Grown, Alive
      <4> QED
        BY <2>1, <2>9, <3>3, <4>1 DEF Alive
    <3>5. y[i].type # "none"
      BY <2>8, <2>9, <3>3
    <3>6. PICK n : n = icache'
      OBVIOUS
    <3>7. n = Seen(Get(m, i), GetEntry(i))
      BY <2>3, <2>6, <3>1, <3>6
    <3>8. /\ Grown(n) /\ Alive(n, y)
          /\ \A f \in Entry : n[f].ref = m[f].ref + One(f = GetEntry(i))
      BY <1>7, <2>2, <3>2, <3>4, <3>5, <3>7, GrownGet
    <3> QED
      BY <2>3, <3>2, <3>3, <3>6, <3>8
  <2>12. /\ reg' \in [Proc -> Registers]
         /\ \A q \in Proc : q # p => reg'[q] = reg[q]
         /\ r.w = None /\ r.ip = g /\ r.dp = None
    <3>1. g \in Pointer
      BY <2>4 DEF Pointer
    <3> QED
      BY <1>4, <1>7, <2>6, <3>1, WithoutDpAs DEF r
  <2>13. /\ Fits(k, onfail[p], r) /\ ~PendsIn(k, onfail[p])
         /\ ~At(k, "remove") /\ ~At(k, "giveup") /\ ~At(k, "removed")
    <3>1. IpHeld(r)
      BY <1>7, <2>4, <2>12 DEF IpHeld
    <3>2. Last(k, "open") \/ Last(k, "write") \/ Last(k, "made")
      BY <1>4 DEF Making
    <3>3. Fits(k, onfail[p], r)
      BY <3>1, <3>2 DEF Fits
    <3> QED
      BY <3>2, <3>3 DEF PendsIn, At, Last
  <2>14. /\ CodeOf(PutThen(dp, k), onfail[p], r) /\ Bare(PutThen(dp, k)) = k
         /\ PutThen(dp, k) \in Seq(Instr)
         /\ \A f : Puts(PutThen(dp, k), f) = One(dp = f)
    BY <1>3, <1>6, <2>12, <2>13, CodePut
  <2>15. CodeType' /\ Alone(p) /\ todo'[p] = PutThen(dp, k)
    BY <1>7, <2>6, <2>12, <2>14 DEF CodeType, Alone
  <2>16. CodeOf(todo'[p], onfail'[p], reg'[p])
    BY <2>6, <2>14, <2>15 DEF r
  <2>17. /\ ~Pends(p)' /\ ~Doing(p, "remove")' /\ ~Doing(p, "giveup")'
    <3>1. ~PendsIn(Bare(todo'[p]), onfail'[p])
      BY <2>6, <2>13, <2>14, <2>15
    <3>2. ~Doing(p, "remove")' /\ ~Doing(p, "giveup")'
      BY <2>13, <2>14, <2>15 DEF Doing
    <3> QED
      BY <3>1, <3>2, PendsInCode
  <2>18. lock' \in [Entry -> Proc \cup {None}] /\ LockStep(p) /\ lock'[g] = p
    <3>1. lock \in [Entry -> Proc \cup {None}]
      BY <1>7 DEF TypeOK
    <3> QED
      BY <2>4, <2>6, <3>1 DEF LockStep
  <2>19. LocksOf(p)'
    BY <2>12, <2>17, <2>18 DEF LocksOf, r
  <2>20. MeaningOf(p)'
    BY <2>12, <2>17 DEF MeaningOf, r
  <2>21. ASSUME NEW e \in Entry
         PROVE  icache'[e].ref + InRegs(reg[p], e)
                   = icache[e].ref + (InRegs(reg'[p], e) + Puts(todo'[p], e))
    <3>1. InRegs(reg[p], e) = One(dp = e)
      BY <1>4, <1>7 DEF InRegs, One, dp
    <3>2. InRegs(reg'[p], e) = One(e = g)
      BY <1>7, <2>12 DEF InRegs, One, r
    <3>3. Puts(todo'[p], e) = One(dp = e) /\ One(dp = e) \in Nat /\ One(e = g) \in Nat
      BY <2>14, <2>15 DEF One
    <3>4. icache[e].ref \in Nat
      BY <1>7, CacheType DEF Caches, CacheEntry
    <3>5. icache'[e].ref = icache[e].ref + One(e = g)
      BY <2>11
    <3> QED
      BY <3>1, <3>2, <3>3, <3>4, <3>5
  <2>22. Busy(p) /\ ~Does(p, "drop")
    <3> HIDE DEF Running
    <3> QED
      BY <1>3, <2>6, <2>9, <2>10, <2>11, <2>15, <2>16, <2>18, <2>19, <2>20, <2>21,
         BusyTo
  <2>23. Undisturbed(p)
    BY <2>10, <2>11, GrownUndisturbed
  <2>24. Tree'
    <3>1. ASSUME NEW j \in Inum, NEW m \in Name,
                 disk'[j].ents[m] # disk[j].ents[m]
          PROVE  /\ disk'[j].ents[m] \in Inum /\ disk'[j].type = "dir"
                 /\ disk'[j].ents[m] # j
                 /\ disk'[disk'[j].ents[m]].type # "none"
      BY <1>6, <2>1, <2>2, <2>8, <2>9, <3>1
    <3> QED
      BY <2>9, <2>10, <3>1, TreeStays
  <2>25. Account'
    <3> SUFFICES ASSUME NEW j \in Inum, disk'[j].type # "none"
                 PROVE  disk'[j].nlink = Entries(j)' + One(j = root)
                          + Cardinality(Pending(j)')
                          + (IF disk'[j].type = "dir" THEN Subdirs(j)' ELSE 0)
      BY DEF Account
    <3>1. PICK y : y = disk'
      OBVIOUS
    <3>2. /\ Cardinality(Namings(y, i)) = 1 /\ Cardinality(Children(y, i)) = 0
          /\ \A x \in Inum : x # i => Namings(y, x) = Namings(disk, x)
          /\ Cardinality(Children(y, d))
                = Cardinality(Children(disk, d)) + One(t = "dir")
          /\ \A x \in Inum : x # d => Children(y, x) = Children(disk, x)
      BY <1>6, <1>8, <1>9, <2>1, <2>7, <3>1, CreatedCounts
    <3>3. CASE j = i
      <4>1. Cardinality(Pending(i)') = 0
        BY <2>1, <2>15, <2>17, <2>23, NonePending, FS_EmptySet
      <4>2. One(i = root) = 0
        <5>1. disk[root].type = "dir"
          BY DEF Sound, Tree
        <5> QED
          BY <2>1, <5>1 DEF One
      <4>3. Entries(i)' = 1 /\ Subdirs(i)' = 0
        BY <3>1, <3>2, CountsAre
      <4>4. 1 = 1 + 0 + 0 + 0
        OBVIOUS
      <4> QED
        BY <2>9, <3>3, <4>1, <4>2, <4>3, <4>4
    <3>4. CASE j # i
      <4>1. PICK in \in Nat : in = One(j = d /\ t = "dir")
        BY DEF One
      <4>2. PICK zero \in Nat : zero = 0
        OBVIOUS
      <4>3. Cardinality(Namings(disk', j)) + zero
                = Cardinality(Namings(disk, j)) + zero
        BY <3>1, <3>2, <3>4
      <4>4. Cardinality(Children(disk', j)) + zero
                = Cardinality(Children(disk, j)) + in
        <5>1. PICK a \in Nat : a = Cardinality(Children(disk, j))
          BY CountsFinite
        <5>2. Cardinality(Children(disk', j)) = a + in
          <6>1. CASE j = d
            BY <3>1, <3>2, <4>1, <5>1, <6>1
          <6>2. CASE j # d
            <7>1. Cardinality(Children(disk', j)) = a /\ in = 0
              BY <3>1, <3>2, <4>1, <5>1, <6>2 DEF One
            <7> QED
              BY <7>1
          <6> QED
            BY <6>1, <6>2
        <5>3. (a + in) + 0 = a + in
          OBVIOUS
        <5> QED
          BY <4>2, <5>1, <5>2, <5>3
      <4>5. disk'[j].nlink + PendOf(p, j) + zero + zero
                = disk[j].nlink + PendOf(p, j)' + zero + in
        <5>1. PendOf(p, j) = 0 /\ PendOf(p, j)' = 0
          BY <1>5, <2>17 DEF PendOf, One
        <5>2. PICK a \in Nat : a = disk[j].nlink
          BY <1>7, DiskType DEF Disks, Inodes
        <5>3. disk'[j].nlink = a + in
          <6>1. CASE j = d
            BY <2>9, <4>1, <5>2, <6>1
          <6>2. CASE j # d
            <7>1. disk'[j].nlink = a /\ in = 0
              BY <2>9, <3>4, <4>1, <5>2, <6>2 DEF One
            <7> QED
              BY <7>1
          <6> QED
            BY <6>1, <6>2
        <5>4. (a + in) + 0 + 0 + 0 = a + 0 + 0 + in
          OBVIOUS
        <5> QED
          BY <4>2, <5>1, <5>2, <5>3, <5>4
      <4>6. disk'[j].type = disk[j].type /\ disk[j].type # "none"
        BY <2>9, <3>4
      <4>7. disk[j].type = "dir" \/ (in = 0 /\ zero = 0)
        <5>1. CASE j = d
          BY <1>6, <5>1
        <5>2. CASE j # d
          BY <4>1, <4>2, <5>2 DEF One
        <5> QED
          BY <5>1, <5>2
      <4> QED
        BY <2>9, <2>15, <2>23, <4>3, <4>4, <4>5, <4>6, <4>7, Recounted
    <3> QED
      BY <3>3, <3>4
  <2> HIDE DEF Running
  <2> QED
    BY <2>22, <2>24, <2>25, BusyStep
<1> QED
  BY <1>10, <1>11, <1>12

-----------------------------------------------------------------------------
(* The theorems *)

\* At the start every process has a pointer to the root, and no other.
LEMMA InitPointing ==
    ASSUME Init, CodeType, NEW e \in Entry
    PROVE  Cardinality(Pointing(e)) = IF e = 1 THEN Cardinality(Proc) ELSE 0
<1> DEFINE c == IF e = 1 THEN 1 ELSE 0
<1>1. ASSUME NEW p \in Proc PROVE Pointers(p, e) = c
  <2>1. PICK n : n = << >>
    OBVIOUS
  <2>2. /\ fd[p] = None /\ cwd[p] = 1 /\ todo[p] = n
        /\ reg[p].w = None /\ reg[p].ip = None /\ reg[p].dp = None
    BY <2>1 DEF Init, NoPointers
  <2>3. n \in Seq(Instr) /\ Plain(n)
    BY <2>1, Nothing
  <2>4. Puts(todo[p], e) = 0
    BY <2>2, <2>3, PlainFacts
  <2>5. Kept(p, e) = c
    BY <2>2, NoneIsNoEntry DEF Kept, One
  <2>6. Pointers(p, e) = Kept(p, e) + Puts(todo[p], e)
    BY PointersSplit
  <2> QED
    BY <2>4, <2>5, <2>6
<1>2. CASE e = 1
  <2>1. Pointing(e) = Proc \X (1..1)
    BY <1>1, <1>2 DEF Pointing
  <2>2. IsFiniteSet(Proc) /\ Cardinality(Proc) \in Nat
    BY FsConstants, FS_CardinalityType
  <2>3. IsFiniteSet(1..1) /\ Cardinality(1..1) = 1
    <3>1. 1..1 = {1}
      OBVIOUS
    <3> QED
      BY <3>1, FS_Singleton
  <2>4. PICK k \in Nat : k = Cardinality(Proc)
    BY <2>2
  <2>5. Cardinality(Proc \X (1..1)) = k
    <3>1. Cardinality(Proc \X (1..1)) = k * 1
      BY <2>2, <2>3, <2>4, FS_Product
    <3> QED
      BY <3>1
  <2> QED
    BY <1>2, <2>1, <2>4, <2>5
<1>3. CASE e # 1
  <2>1. Pointing(e) = {}
    BY <1>1, <1>3 DEF Pointing
  <2> QED
    BY <1>3, <2>1, FS_EmptySet
<1> QED
  BY <1>2, <1>3

LEMMA InitHolds ==
    Init => Sound
<1> SUFFICES ASSUME Init PROVE Sound
  OBVIOUS
<1>1. /\ 1 \in Inum /\ 1 \in Entry /\ root = 1 /\ 0 \in 0..NINODES
      /\ 1 \in 0..NINODES /\ IsFiniteSet(Proc) /\ Cardinality(Proc) \in Nat
  BY FsConstants, FS_CardinalityType DEF Inum, Entry, root
<1>2. \A i \in Inum : /\ disk[i] \in Inodes
                      /\ disk[i].type = IF i = root THEN "dir" ELSE "none"
                      /\ i = root => disk[i].nlink = 1
                      /\ \A n \in Name : disk[i].ents[n] = 0
  <2>1. PICK z : z = [n \in Name |-> 0]
    OBVIOUS
  <2>2. z \in [Name -> 0..NINODES] /\ \A n \in Name : z[n] = 0
    BY <1>1, <2>1
  <2>3. PICK f : f = Free
    OBVIOUS
  <2>4. f \in Inodes /\ f.ents = z /\ f.type = "none"
    BY <2>1, <2>2, <2>3 DEF Free, Inodes
  <2>5. PICK g : g = [f EXCEPT !.type = "dir"]
    OBVIOUS
  <2>6. g \in Inodes /\ g.type = "dir" /\ g.ents = z
    BY <2>4, <2>5 DEF Inodes
  <2>7. PICK h : h = [g EXCEPT !.nlink = 1]
    OBVIOUS
  <2>8. h \in Inodes /\ h.type = "dir" /\ h.ents = z /\ h.nlink = 1
    BY <2>6, <2>7 DEF Inodes
  <2>9. [f EXCEPT !.type = "dir", !.nlink = 1] = h
    BY <2>5, <2>7
  <2>10. \A i \in Inum : disk[i] = IF i = root THEN h ELSE f
    BY <2>3, <2>9 DEF Init
  <2> QED
    BY <2>2, <2>4, <2>8, <2>10
<1>3. disk \in Disks
  <2>1. DOMAIN disk = Inum /\ disk = [i \in Inum |-> disk[i]]
    BY DEF Init
  <2> QED
    BY <1>2, <2>1 DEF Disks
<1>4. /\ icache \in Caches
      /\ \A e \in Entry :
            /\ icache[e].ref = IF e = 1 THEN Cardinality(Proc) ELSE 0
            /\ e = 1 => icache[e].inum = root
  BY <1>1 DEF Init, Empty, Caches, CacheEntry
<1>5. TypeOK
  <2>1. panic = "none" /\ lock \in [Entry -> Proc \cup {None}]
        /\ fd \in [Proc -> Entry \cup {None}] /\ cwd \in [Proc -> Entry]
        /\ lost \in [Entry -> Nat]
    BY <1>1 DEF Init
  <2> QED
    BY <1>3, <1>4, <2>1
       DEF TypeOK, Disks, Inodes, Caches, CacheEntry, Targets
<1>6. CodeType
  <2>1. NoPointers \in Registers
    BY DEF NoPointers, Registers, Pointer
  <2> QED
    BY <2>1, Nothing DEF Init, CodeType
<1>7. ASSUME NEW p \in Proc
      PROVE  /\ CodeOf(todo[p], onfail[p], reg[p])
             /\ LocksOf(p) /\ MeaningOf(p) /\ ~Pends(p)
  <2>1. PICK n : n = << >>
    OBVIOUS
  <2>2. /\ todo[p] = n /\ onfail[p] = n
        /\ reg[p].w = None /\ reg[p].ip = None /\ reg[p].dp = None
    BY <2>1 DEF Init, NoPointers
  <2>3. n \in Seq(Instr) /\ Plain(n) /\ Bare(n) = n
    BY <2>1, Nothing, PlainFacts
  <2>4. Fits(n, n, reg[p])
    BY <2>1, <2>2 DEF Fits, NoneHeld
  <2>5. CodeOf(n, n, reg[p])
    BY <2>2, <2>3, <2>4, CodePlain
  <2>6. \A x : ~Doing(p, x)
    BY <2>1, <2>2, <2>3 DEF Doing, At
  <2> QED
    BY <2>2, <2>5, <2>6 DEF LocksOf, MeaningOf, Pends
<1>8. Counted
  <2>1. ASSUME NEW e \in Entry
        PROVE  icache[e].ref = lost[e] + Cardinality(Pointing(e))
    <3>1. Cardinality(Pointing(e)) = IF e = 1 THEN Cardinality(Proc) ELSE 0
      BY <1>6, InitPointing
    <3>2. lost[e] = 0
      BY DEF Init
    <3> QED
      BY <1>1, <1>4, <3>1, <3>2
  <2> QED
    BY <2>1 DEF Counted
<1>9. OneEntry /\ FreeOnlyDropped
  <2>1. \A e \in Entry : icache[e].ref > 0 => e = 1 /\ icache[e].inum = root
    BY <1>1, <1>4
  <2> QED
    BY <1>1, <1>2, <2>1 DEF OneEntry, FreeOnlyDropped
<1>10. Tree
  BY <1>1, <1>2 DEF Tree
<1>11. Account
  <2> SUFFICES ASSUME NEW i \in Inum, disk[i].type # "none"
               PROVE  disk[i].nlink = Entries(i) + One(i = root)
                         + Cardinality(Pending(i))
                         + (IF disk[i].type = "dir" THEN Subdirs(i) ELSE 0)
    BY DEF Account
  <2>1. i = root /\ i # 0
    BY <1>1, <1>2
  <2>2. Namings(disk, i) = {} /\ Children(disk, i) = {} /\ Pending(i) = {}
    BY <1>2, <1>7, <2>1 DEF Namings, Children, Pending
  <2>3. Entries(i) = 0 /\ Subdirs(i) = 0 /\ Cardinality(Pending(i)) = 0
    BY <2>2, CountsAre, FS_EmptySet
  <2>4. One(i = root) = 1 /\ disk[i].nlink = 1
    BY <1>2, <2>1 DEF One
  <2>5. 1 = 0 + 1 + 0 + 0
    OBVIOUS
  <2> QED
    BY <2>3, <2>4, <2>5
<1>12. NoUnlinkPanic
  BY DEF Init, NoUnlinkPanic
<1> QED
  BY <1>5, <1>6, <1>7, <1>8, <1>9, <1>10, <1>11, <1>12 DEF Sound, Code

\* No step is taken after a panic.
LEMMA StepsRun ==
    Next => Running
<1> SUFFICES ASSUME Next PROVE panic = "none"
  BY DEF Running
<1>1. PICK p \in Proc :
    \/ SysOpen(p) \/ SysClose(p) \/ SysLink(p) \/ SysSymlink(p)
    \/ SysUnlink(p) \/ SysMkdir(p) \/ SysChdir(p)
    \/ Walk(p) \/ LookOn(p) \/ IPut(p) \/ IDrop(p)
    \/ CreateFound(p) \/ Exists(p) \/ CreateNew(p)
    \/ Follow(p) \/ Opened(p)
    \/ LinkOld(p) \/ LinkNew(p) \/ LinkFound(p) \/ GiveUp(p) \/ LinkBad(p)
    \/ Forget(p) \/ WriteTarget(p)
    \/ Unlink(p) \/ RemoveNot(p) \/ RemoveEntry(p) \/ Removed(p)
    \/ Made(p) \/ Chdir(p)
  BY DEF Next
<1>2. CASE \/ SysOpen(p) \/ SysClose(p) \/ SysLink(p) \/ SysSymlink(p)
           \/ SysUnlink(p) \/ SysMkdir(p) \/ SysChdir(p)
  BY <1>2 DEF SysOpen, SysClose, SysLink, SysSymlink, SysUnlink, SysMkdir,
              SysChdir, May
<1>3. CASE Walk(p) \/ LookOn(p) \/ IPut(p) \/ IDrop(p)
  BY <1>3 DEF Walk, LookOn, IPut, IDrop, Does
<1>4. CASE CreateFound(p) \/ Exists(p) \/ CreateNew(p) \/ Follow(p) \/ Opened(p)
  BY <1>4 DEF CreateFound, Exists, CreateNew, Follow, Opened, Does
<1>5. CASE \/ LinkOld(p) \/ LinkNew(p) \/ LinkFound(p) \/ GiveUp(p) \/ LinkBad(p)
           \/ Forget(p) \/ WriteTarget(p)
  BY <1>5 DEF LinkOld, LinkNew, LinkFound, GiveUp, LinkBad, Forget, WriteTarget, Does
<1>6. CASE \/ Unlink(p) \/ RemoveNot(p) \/ RemoveEntry(p) \/ Removed(p)
           \/ Made(p) \/ Chdir(p)
  BY <1>6 DEF Unlink, RemoveNot, RemoveEntry, Removed, Made, Chdir, Does
<1> QED
  BY <1>1, <1>2, <1>3, <1>4, <1>5, <1>6

LEMMA StepHolds ==
    ASSUME Sound, Next
    PROVE  Sound'
<1>1. Running
  BY StepsRun
<1>2. PICK p \in Proc :
    \/ SysOpen(p) \/ SysClose(p) \/ SysLink(p) \/ SysSymlink(p)
    \/ SysUnlink(p) \/ SysMkdir(p) \/ SysChdir(p)
    \/ Walk(p) \/ LookOn(p) \/ IPut(p) \/ IDrop(p)
    \/ CreateFound(p) \/ Exists(p) \/ CreateNew(p)
    \/ Follow(p) \/ Opened(p)
    \/ LinkOld(p) \/ LinkNew(p) \/ LinkFound(p) \/ GiveUp(p) \/ LinkBad(p)
    \/ Forget(p) \/ WriteTarget(p)
    \/ Unlink(p) \/ RemoveNot(p) \/ RemoveEntry(p) \/ Removed(p)
    \/ Made(p) \/ Chdir(p)
  BY DEF Next
<1>3. CASE \/ SysOpen(p) \/ SysClose(p) \/ SysLink(p) \/ SysSymlink(p)
           \/ SysUnlink(p) \/ SysMkdir(p) \/ SysChdir(p)
  BY <1>1, <1>3, OpenStep, CloseStep, LinkStep, SymlinkStep, UnlinkCallStep,
     MkdirStep, ChdirCallStep
<1>4. CASE Walk(p) \/ LookOn(p) \/ IPut(p) \/ IDrop(p)
  BY <1>1, <1>4, WalkStep, LookOnStep, IPutStep, IDropStep
<1>5. CASE CreateFound(p) \/ Exists(p) \/ CreateNew(p) \/ Follow(p) \/ Opened(p)
  BY <1>1, <1>5, CreateFoundStep, ExistsStep, CreateNewStep, FollowStep, OpenedStep
<1>6. CASE \/ LinkOld(p) \/ LinkNew(p) \/ LinkFound(p) \/ GiveUp(p) \/ LinkBad(p)
           \/ Forget(p) \/ WriteTarget(p)
  BY <1>1, <1>6, LinkOldStep, LinkNewStep, LinkFoundStep, GiveUpStep, LinkBadStep,
     ForgetStep, WriteTargetStep
<1>7. CASE \/ Unlink(p) \/ RemoveNot(p) \/ RemoveEntry(p) \/ Removed(p)
           \/ Made(p) \/ Chdir(p)
  BY <1>1, <1>7, UnlinkStep, RemoveNotStep, RemoveEntryStep, RemovedStep, MadeStep,
     ChdirStep
<1> QED
  BY <1>2, <1>3, <1>4, <1>5, <1>6, <1>7

LEMMA StutterHolds ==
    ASSUME Sound, UNCHANGED vars
    PROVE  Sound'
<1>1. /\ disk' = disk /\ icache' = icache /\ lock' = lock /\ todo' = todo
      /\ onfail' = onfail /\ reg' = reg /\ fd' = fd /\ cwd' = cwd
      /\ lost' = lost /\ panic' = panic
  BY DEF vars
<1>2. TypeOK' /\ CodeType' /\ NoUnlinkPanic'
  BY <1>1 DEF Sound, TypeOK, CodeType, NoUnlinkPanic
<1>3. Running' <=> Running
  BY <1>1 DEF Running
<1>4. ASSUME Running
      PROVE  /\ Code' /\ Counted' /\ OneEntry' /\ FreeOnlyDropped'
             /\ \A p \in Proc : LocksOf(p)' /\ MeaningOf(p)'
             /\ Account' /\ Tree'
  <2>1. Code'
    BY <1>1, <1>4 DEF Sound, Code
  <2>2. Counted'
    <3>1. \A e \in Entry : Pointing(e)' = Pointing(e)
      BY <1>1 DEF Pointing, Pointers
    <3> QED
      BY <1>1, <1>4, <3>1 DEF Sound, Counted
  <2>3. OneEntry' /\ FreeOnlyDropped' /\ Tree'
    BY <1>1, <1>4 DEF Sound, OneEntry, FreeOnlyDropped, Tree, Does, Arg
  <2>4. ASSUME NEW p \in Proc PROVE LocksOf(p)' /\ MeaningOf(p)'
    BY <1>1, <1>4, <2>4
       DEF Sound, LocksOf, MeaningOf, Doing, Pends, IsDir, Inode, Found
  <2>5. Account'
    <3>1. \A i \in Inum : Pending(i)' = Pending(i)
      BY <1>1 DEF Pending, Pends, Doing
    <3>2. \A i \in Inum : Entries(i)' = Entries(i) /\ Subdirs(i)' = Subdirs(i)
      BY <1>1, CountsAre
    <3> QED
      BY <1>1, <1>4, <3>1, <3>2 DEF Sound, Account
  <2> QED
    BY <2>1, <2>2, <2>3, <2>4, <2>5
<1> QED
  BY <1>2, <1>3, <1>4 DEF Sound

\* Everything the cache, the code of the processes, the locks, the link counts
\* and the directories have to keep is kept by every step.
THEOREM FileSystemInvariant ==
    Spec => []Sound
<1>1. Init => Sound
  BY InitHolds
<1>2. Sound /\ [Next]_vars => Sound'
  BY StepHolds, StutterHolds
<1> QED
  BY <1>1, <1>2, PTL DEF Spec

LEMMA CacheHolds ==
    Sound => CacheExact
<1> SUFFICES ASSUME Sound PROVE CacheExact
  OBVIOUS
<1>1. TypeOK
  BY DEF Sound
<1>2. RefsExact
  BY DEF Sound, RefsExact, Counted
<1>3. CacheSound
  <2> SUFFICES ASSUME Running, NEW i \in Inum
               PROVE  /\ Cardinality(Cached(i)) <= 1
                      /\ \A e \in Cached(i) : disk[i].type = "none" =>
                            /\ icache[e].ref = 1 /\ ~icache[e].valid
                            /\ \E p \in Proc : Does(p, "drop") /\ Arg(p) = e
    BY DEF CacheSound
  <2>1. OneEntry /\ FreeOnlyDropped
    BY DEF Sound
  <2>2. Cardinality(Cached(i)) <= 1
    <3>1. CASE Cached(i) = {}
      BY <3>1, FS_EmptySet
    <3>2. CASE Cached(i) # {}
      <4>1. PICK e : e \in Cached(i)
        BY <3>2
      <4>2. Cached(i) = {e}
        BY <2>1, <4>1 DEF Cached, OneEntry
      <4> QED
        BY <4>2, FS_Singleton
    <3> QED
      BY <3>1, <3>2
  <2>3. ASSUME NEW e \in Cached(i), disk[i].type = "none"
        PROVE  /\ icache[e].ref = 1 /\ ~icache[e].valid
               /\ \E p \in Proc : Does(p, "drop") /\ Arg(p) = e
    BY <2>1, <2>3 DEF Cached, FreeOnlyDropped
  <2> QED
    BY <2>2, <2>3
<1> QED
  BY <1>1, <1>2, <1>3 DEF CacheExact

\* The reference count of every cached inode is the number of the pointers to it,
\* and an inode has one entry in the cache, whatever calls run together.
THEOREM CacheIsExact ==
    Spec => []CacheExact
<1>1. Spec => []Sound
  BY FileSystemInvariant
<1>2. Sound => CacheExact
  BY CacheHolds
<1> QED
  BY <1>1, <1>2, PTL

LEMMA NamesHold ==
    Sound => NamesExact
<1> SUFFICES ASSUME Sound PROVE NamesExact
  OBVIOUS
<1>1. NoUnlinkPanic
  BY DEF Sound
<1>2. EntriesLive
  BY DEF Sound, EntriesLive, Tree
<1>3. LinksExact
  <2> SUFFICES ASSUME Running, Settled, NEW i \in Inum, disk[i].type # "none"
               PROVE  disk[i].nlink = Entries(i) + One(i = root)
                        + (IF disk[i].type = "dir" THEN Subdirs(i) ELSE 0)
    BY DEF LinksExact
  <2>1. Pending(i) = {}
    BY AtRest DEF Pending, Settled
  <2>2. Cardinality(Pending(i)) = 0
    BY <2>1, FS_EmptySet
  <2>3. disk[i].nlink = Entries(i) + One(i = root) + Cardinality(Pending(i))
                          + (IF disk[i].type = "dir" THEN Subdirs(i) ELSE 0)
    BY DEF Sound, Account
  <2>4. PICK a \in Nat, b \in Nat, s \in Nat :
           /\ a = Entries(i) /\ b = One(i = root)
           /\ s = (IF disk[i].type = "dir" THEN Subdirs(i) ELSE 0)
    BY CountsAre, CountsFinite DEF One
  <2>5. a + b + 0 + s = a + b + s
    OBVIOUS
  <2> QED
    BY <2>2, <2>3, <2>4, <2>5
<1> QED
  BY <1>1, <1>2, <1>3 DEF NamesExact

\* Between calls a link count is the number of names, an entry never names a free
\* inode, and unlink never meets a count that is 0 already.
THEOREM NamesAreExact ==
    Spec => []NamesExact
<1>1. Spec => []Sound
  BY FileSystemInvariant
<1>2. Sound => NamesExact
  BY NamesHold
<1> QED
  BY <1>1, <1>2, PTL
=============================================================================

--------------------------- MODULE PipelineProofs ---------------------------
(***************************************************************************)
(* For any contents, any claims the parsers may make and any number of      *)
(* them: an observation is never lost nor counted twice on its way through  *)
(* the stages of a run, a candidate is anchored in something that was not   *)
(* set aside, what is present is known to be, and what the report concludes *)
(* is of the observations it shows.                                         *)
(***************************************************************************)
EXTENDS Pipeline, FiniteSetTheorems, SequenceTheorems, WellFoundedInduction, TLAPS

-----------------------------------------------------------------------------
(* A property of the natural numbers that fails has a least place to fail.  *)
LEMMA LeastFailure ==
    ASSUME NEW Fails, Fails \subseteq Nat, Fails # {}
    PROVE  \E n \in Fails : \A m \in Fails : n <= m
<1> DEFINE Less == { ss \in Nat \X Nat : ss[1] < ss[2] }
<1>1. OpToRel(<, Nat) = Less
  BY Zenon DEF OpToRel
<1>2. IsWellFoundedOn(Less, Nat)
  BY <1>1, NatLessThanWellFounded, Zenon
<1>3. \A x, y \in Nat : y < x => << y, x >> \in Less
  BY SMT
<1> HIDE DEF Less
<1>4. PICK n \in Fails : \A m \in Fails : << m, n >> \notin Less
  BY <1>2, WFMin
<1>5. \A m \in Fails : ~(m < n)
  BY <1>3, <1>4
<1> QED
  BY <1>4, <1>5

(* The places of the elements of a set, in order.                           *)
Sub(s, set, n, t, g) ==
    /\ t \in Seq(set)
    /\ g \in [1..Len(t) -> 1..n]
    /\ \A a, b \in 1..Len(t) : a < b => g[a] < g[b]
    /\ \A a \in 1..Len(t) : t[a] = s[g[a]]
    /\ \A i \in 1..n : s[i] \in set => \E a \in 1..Len(t) : g[a] = i

(* One more place, taken or passed over.                                    *)
LEMMA SubTakes ==
    ASSUME NEW s, NEW set, NEW n \in Nat, NEW t, NEW g, Sub(s, set, n, t, g),
           s[n + 1] \in set
    PROVE  \E h : Sub(s, set, n + 1, Append(t, s[n + 1]), h)
<1> DEFINE u == Append(t, s[n + 1])
           h == [a \in 1..Len(u) |-> IF a <= Len(t) THEN g[a] ELSE n + 1]
<1>1. /\ u \in Seq(set) /\ Len(u) = Len(t) + 1 /\ Len(t) \in Nat
      /\ u[Len(t) + 1] = s[n + 1]
      /\ \A a \in 1..Len(t) : u[a] = t[a]
  BY DEF Sub
<1> HIDE DEF u
<1>2. \A a \in 1..Len(t) : g[a] \in 1..n
  BY DEF Sub
<1>3. h \in [1..Len(u) -> 1..(n + 1)]
  BY <1>1, <1>2
<1>4. \A a, b \in 1..Len(u) : a < b => h[a] < h[b]
  BY <1>1, <1>2 DEF Sub
<1>5. \A a \in 1..Len(u) : u[a] = s[h[a]]
  BY <1>1, <1>2 DEF Sub
<1>6. \A i \in 1..(n + 1) : s[i] \in set => \E a \in 1..Len(u) : h[a] = i
  BY <1>1, <1>2 DEF Sub
<1>7. Sub(s, set, n + 1, u, h)
  BY <1>1, <1>3, <1>4, <1>5, <1>6 DEF Sub
<1> QED
  BY <1>7 DEF u

(* A place passed over leaves the places taken.                             *)
LEMMA SubPasses ==
    ASSUME NEW s, NEW set, NEW n \in Nat, NEW t, NEW g, Sub(s, set, n, t, g),
           s[n + 1] \notin set
    PROVE  Sub(s, set, n + 1, t, g)
  BY DEF Sub

(* Those takes each place of an element of the set once, in order.          *)
LEMMA ThoseIsSub ==
    ASSUME NEW S, NEW s \in Seq(S), NEW set
    PROVE  \E g : Sub(s, set, Len(s), Those(s, set), g)
<1> DEFINE Step(f, i) == IF i = 0 THEN << >>
                         ELSE IF s[i] \in set THEN Append(f[i - 1], s[i]) ELSE f[i - 1]
           Upto(n, f) == f = [i \in 0..n |-> Step(f, i)]
           Good(n) == /\ \E f : Upto(n, f)
                      /\ \A f : Upto(n, f) => \E g : Sub(s, set, n, f[n], g)
           Fails == { n \in Nat : ~Good(n) }
<1>a. \A n \in Nat : \A f : Upto(n, f) => \A i \in 0..n : f[i] = Step(f, i)
  OBVIOUS
<1>b. ASSUME NEW n \in Nat, NEW F(_), NEW f, f = [i \in 0..n |-> F(i)],
             \A i \in 0..n : F(i) = Step(f, i)
      PROVE  Upto(n, f)
  BY <1>b
<1>c. \A f : Step(f, 0) = << >>
  OBVIOUS
<1>d. \A n \in Nat \ {0} : \A f :
        Step(f, n) = IF s[n] \in set THEN Append(f[n - 1], s[n]) ELSE f[n - 1]
  OBVIOUS
<1>e. Those(s, set) = (CHOOSE f : Upto(Len(s), f))[Len(s)]
  BY DEF Those
<1> HIDE DEF Step
<1>1. Fails = {}
  <2> SUFFICES ASSUME Fails # {} PROVE FALSE
    OBVIOUS
  <2>1. PICK n \in Fails : \A m \in Fails : n <= m
    BY LeastFailure
  <2>2. n \in Nat /\ ~Good(n)
    OBVIOUS
  <2>3. n # 0
    <3> SUFFICES Good(0)
      BY <2>2
    <3> DEFINE zero == [i \in 0..0 |-> << >>]
               none == [a \in 1..0 |-> 0]
    <3>1. Upto(0, zero)
      BY <1>c
    <3>2. Sub(s, set, 0, << >>, none)
      BY DEF Sub
    <3>3. \A f : Upto(0, f) => f[0] = << >>
      BY <1>a, <1>c
    <3> QED
      BY <3>1, <3>2, <3>3
  <2>4. n - 1 \in Nat /\ n - 1 \notin Fails
    <3> HIDE DEF Fails
    <3> QED
      BY <2>1, <2>2, <2>3
  <2>5. Good(n - 1)
    BY <2>4
  <2>6. \E e : Upto(n, e)
    <3>1. PICK f : Upto(n - 1, f)
      BY <2>5
    <3>2. \A i \in 0..(n - 1) : f[i] = Step(f, i)
      BY <1>a, <2>4, <3>1
    <3> DEFINE e == [i \in 0..n |-> IF i = n THEN Step(f, n) ELSE f[i]]
    <3>3. e[n] = Step(f, n) /\ \A i \in 0..(n - 1) : e[i] = f[i]
      BY <2>2
    <3>4. e = [i \in 0..n |-> e[i]]
      OBVIOUS
    <3> HIDE DEF e
    <3>5. e[0] = Step(e, 0)
      BY <1>c, <2>4, <3>2, <3>3
    <3>6. ASSUME NEW i \in 1..n PROVE e[i] = Step(e, i)
      <4>1. i - 1 \in 0..(n - 1) /\ i \in Nat \ {0}
        BY <2>2
      <4>2. e[i - 1] = f[i - 1]
        BY <3>3, <4>1
      <4>3. Step(e, i) = Step(f, i)
        BY <1>d, <4>1, <4>2
      <4>4. CASE i = n
        BY <3>3, <4>3, <4>4
      <4>5. CASE i # n
        BY <2>2, <3>2, <3>3, <4>3, <4>5
      <4> QED
        BY <4>4, <4>5
    <3>7. \A i \in 0..n : e[i] = Step(e, i)
      BY <2>2, <3>5, <3>6
    <3>8. Upto(n, e)
      BY <3>4, <3>7
    <3> QED
      BY <3>8
  <2>7. ASSUME NEW f, Upto(n, f) PROVE \E g : Sub(s, set, n, f[n], g)
    <3> DEFINE below == [i \in 0..(n - 1) |-> f[i]]
    <3>1. \A i \in 0..n : f[i] = Step(f, i)
      BY <1>a, <2>2, <2>7
    <3>2. below = [i \in 0..(n - 1) |-> below[i]] /\ \A i \in 0..(n - 1) : below[i] = f[i]
      OBVIOUS
    <3> HIDE DEF below
    <3>3. ASSUME NEW i \in 0..(n - 1) PROVE below[i] = Step(below, i)
      <4>1. CASE i = 0
        BY <1>c, <2>2, <3>1, <3>2, <4>1
      <4>2. CASE i # 0
        <5>1. i - 1 \in 0..(n - 1) /\ i \in Nat \ {0} /\ i \in 0..n
          BY <2>2, <4>2
        <5>2. Step(below, i) = Step(f, i)
          BY <1>d, <3>2, <5>1
        <5> QED
          BY <3>1, <3>2, <5>1, <5>2
      <4> QED
        BY <4>1, <4>2
    <3>4. Upto(n - 1, below)
      BY <3>2, <3>3
    <3>5. PICK g : Sub(s, set, n - 1, below[n - 1], g)
      BY <2>5, <3>4
    <3>6. below[n - 1] = f[n - 1]
      BY <2>4, <3>2
    <3>7. f[n] = IF s[n] \in set THEN Append(f[n - 1], s[n]) ELSE f[n - 1]
      <4>1. n \in Nat \ {0} /\ f[n] = Step(f, n)
        BY <2>2, <2>3, <3>1
      <4> QED
        BY <1>d, <4>1
    <3>8. (n - 1) + 1 = n
      BY <2>2
    <3>9. CASE s[n] \in set
      <4> DEFINE m == n - 1
      <4>1. m \in Nat /\ m + 1 = n /\ Sub(s, set, m, f[m], g)
        BY <2>4, <3>5, <3>6, <3>8
      <4>2. f[n] = Append(f[m], s[n])
        BY <3>7, <3>9
      <4> HIDE DEF m
      <4>3. \E h : Sub(s, set, m + 1, Append(f[m], s[m + 1]), h)
        BY <3>9, <4>1, SubTakes
      <4> QED
        BY <4>1, <4>2, <4>3
    <3>10. CASE s[n] \notin set
      <4>1. Sub(s, set, (n - 1) + 1, f[n - 1], g)
        BY <2>4, <3>5, <3>6, <3>8, <3>10, SubPasses
      <4> QED
        BY <3>7, <3>8, <3>10, <4>1
    <3> QED
      BY <3>9, <3>10
  <2> QED
    BY <2>2, <2>6, <2>7
<1>2. Good(Len(s))
  BY <1>1
<1>3. Upto(Len(s), CHOOSE f : Upto(Len(s), f))
  BY <1>2
<1> QED
  BY <1>2, <1>3, <1>e

-----------------------------------------------------------------------------
(* Sequences by what is in them.  An observation an artifact gave has an    *)
(* id, and one has it alone; facts the run adds itself have none.           *)
Distinct(s) == \A i, j \in DOMAIN s : s[i].id # 0 /\ s[i].id = s[j].id => i = j

(* Those keeps what is in the set, and no id twice.                         *)
LEMMA ThoseAre ==
    ASSUME NEW S, NEW s \in Seq(S), NEW set
    PROVE  /\ Those(s, set) \in Seq(S)
           /\ ToSet(Those(s, set)) = ToSet(s) \cap set
           /\ Distinct(s) => Distinct(Those(s, set))
<1> DEFINE t == Those(s, set)
<1>1. PICK g : Sub(s, set, Len(s), t, g)
  BY ThoseIsSub
<1> HIDE DEF t
<1>2. /\ Len(t) \in Nat /\ DOMAIN t = 1..Len(t) /\ DOMAIN s = 1..Len(s)
      /\ \A a \in 1..Len(t) : g[a] \in 1..Len(s) /\ t[a] = s[g[a]] /\ t[a] \in set
  BY <1>1 DEF Sub
<1>3. t \in Seq(S)
  <2>1. t \in Seq(set)
    BY <1>1 DEF Sub
  <2>2. t \in [1..Len(t) -> set]
    BY <2>1, LenProperties
  <2>3. \A a \in 1..Len(t) : t[a] \in S
    BY <1>2
  <2>4. t \in [1..Len(t) -> S]
    BY <2>2, <2>3
  <2> QED
    BY <1>2, <2>4
<1>4. ToSet(t) = ToSet(s) \cap set
  <2>1. ToSet(t) \subseteq ToSet(s) \cap set
    BY <1>2 DEF ToSet
  <2>2. \A i \in 1..Len(s) : s[i] \in set => \E a \in 1..Len(t) : t[a] = s[i]
    BY <1>1, <1>2 DEF Sub
  <2>3. ToSet(s) \cap set \subseteq ToSet(t)
    BY <1>2, <2>2 DEF ToSet
  <2> QED
    BY <2>1, <2>3
<1>5. ASSUME Distinct(s) PROVE Distinct(t)
  <2>1. \A a, b \in 1..Len(t) : g[a] = g[b] => a = b
    <3>1. \A a, b \in 1..Len(t) : a < b => g[a] < g[b]
      BY <1>1 DEF Sub
    <3> QED
      BY <1>2, <3>1
  <2> QED
    BY <1>2, <1>5, <2>1 DEF Distinct
<1> QED
  BY <1>3, <1>4, <1>5 DEF t

(* What is in two sequences, one after the other.                           *)
LEMMA ConcatIs ==
    ASSUME NEW S, NEW s \in Seq(S), NEW t \in Seq(S)
    PROVE  /\ s \o t \in Seq(S)
           /\ ToSet(s \o t) = ToSet(s) \cup ToSet(t)
           /\ Distinct(s) /\ Distinct(t) /\ Ids(s) \cap Ids(t) = {} => Distinct(s \o t)
<1> DEFINE u == s \o t
<1>1. /\ u \in Seq(S) /\ Len(u) = Len(s) + Len(t) /\ Len(s) \in Nat /\ Len(t) \in Nat
      /\ DOMAIN u = 1..Len(u) /\ DOMAIN s = 1..Len(s) /\ DOMAIN t = 1..Len(t)
      /\ \A i \in 1..Len(s) : u[i] = s[i]
      /\ \A i \in 1..Len(t) : u[Len(s) + i] = t[i]
  OBVIOUS
<1> HIDE DEF u
<1>2. \A i \in 1..Len(u) : \/ i \in 1..Len(s) /\ u[i] = s[i]
                           \/ i - Len(s) \in 1..Len(t) /\ u[i] = t[i - Len(s)]
  <2> SUFFICES ASSUME NEW i \in 1..Len(u), i \notin 1..Len(s)
               PROVE  i - Len(s) \in 1..Len(t) /\ u[i] = t[i - Len(s)]
    BY <1>1
  <2>1. i - Len(s) \in 1..Len(t) /\ i = Len(s) + (i - Len(s))
    BY <1>1
  <2> QED
    BY <1>1, <2>1
<1>3. ToSet(u) = ToSet(s) \cup ToSet(t)
  <2>1. ToSet(u) \subseteq ToSet(s) \cup ToSet(t)
    BY <1>1, <1>2 DEF ToSet
  <2>2. ToSet(s) \subseteq ToSet(u)
    BY <1>1 DEF ToSet
  <2>3. ToSet(t) \subseteq ToSet(u)
    <3>1. \A i \in 1..Len(t) : Len(s) + i \in 1..Len(u)
      BY <1>1
    <3> QED
      BY <1>1, <3>1 DEF ToSet
  <2> QED
    BY <2>1, <2>2, <2>3
<1>4. ASSUME Distinct(s), Distinct(t), Ids(s) \cap Ids(t) = {} PROVE Distinct(u)
  <2>1. \A i \in 1..Len(s), j \in 1..Len(t) : s[i].id # 0 => s[i].id # t[j].id
    BY <1>1, <1>4 DEF Ids
  <2> SUFFICES ASSUME NEW i \in 1..Len(u), NEW j \in 1..Len(u), u[i].id # 0, u[i].id = u[j].id
               PROVE  i = j
    BY <1>1 DEF Distinct
  <2>2. CASE i \in 1..Len(s) /\ u[i] = s[i] /\ j \in 1..Len(s) /\ u[j] = s[j]
    BY <1>1, <1>4, <2>2 DEF Distinct
  <2>3. CASE /\ i - Len(s) \in 1..Len(t) /\ u[i] = t[i - Len(s)]
             /\ j - Len(s) \in 1..Len(t) /\ u[j] = t[j - Len(s)]
    <3>1. i - Len(s) = j - Len(s)
      BY <1>1, <1>4, <2>3 DEF Distinct
    <3> QED
      BY <1>1, <3>1
  <2>4. CASE /\ i \in 1..Len(s) /\ u[i] = s[i]
             /\ j - Len(s) \in 1..Len(t) /\ u[j] = t[j - Len(s)]
    BY <2>1, <2>4
  <2>5. CASE /\ i - Len(s) \in 1..Len(t) /\ u[i] = t[i - Len(s)]
             /\ j \in 1..Len(s) /\ u[j] = s[j]
    BY <2>1, <2>5
  <2> QED
    BY <1>2, <2>2, <2>3, <2>4, <2>5
<1> QED
  BY <1>1, <1>3, <1>4 DEF u

(* What is changed place by place.                                          *)
LEMMA MapIs ==
    ASSUME NEW S, NEW T, NEW s \in Seq(S), NEW t, t = [i \in DOMAIN s |-> t[i]],
           \A i \in DOMAIN s : t[i] \in T /\ t[i].id = s[i].id
    PROVE  t \in Seq(T) /\ Ids(t) = Ids(s) /\ (Distinct(s) => Distinct(t))
<1>1. DOMAIN s = 1..Len(s) /\ Len(s) \in Nat /\ DOMAIN t = DOMAIN s
  OBVIOUS
<1>2. t \in Seq(T)
  <2>1. t \in [1..Len(s) -> T]
    BY <1>1
  <2> QED
    BY <1>1, <2>1
<1> QED
  BY <1>1, <1>2 DEF Ids, Distinct

(* A set in some order.                                                     *)
LEMMA SetToSeqIs ==
    ASSUME NEW S, IsFiniteSet(S)
    PROVE  SetToSeq(S) \in Seq(S) /\ ToSet(SetToSeq(S)) = S
<1> DEFINE n == Cardinality(S)
           f == SetToSeq(S)
<1>1. n \in Nat /\ ExistsBijection(1..n, S)
  BY FS_CardinalityType
<1>2. \E g \in [1..n -> S] : IsInjective(g)
  BY <1>1 DEF ExistsBijection, Bijection, Injection, IsInjective
<1>3. f \in [1..n -> S] /\ IsInjective(f)
  BY <1>2 DEF SetToSeq
<1> HIDE DEF f
<1>4. f \in Seq(S) /\ DOMAIN f = 1..n
  BY <1>1, <1>3
<1>5. ToSet(f) = S
  <2>1. f \in Injection(1..n, S)
    BY <1>3 DEF Injection, IsInjective
  <2>2. IsFiniteSet(1..n) /\ Cardinality(1..n) = n
    BY <1>1, FS_Interval
  <2>3. f \in Surjection(1..n, S)
    BY <2>1, <2>2, FS_Injection
  <2> QED
    BY <1>4, <2>3 DEF Surjection, ToSet
<1> QED
  BY <1>4, <1>5 DEF f

-----------------------------------------------------------------------------
(* The stages by their places.                                              *)
LEMMA StagesAre ==
    /\ Len(Stages) = 24
    /\ Stages[1] = "SOFTWARE" /\ Stages[2] = "SYSTEM"
    /\ Stages[3] = "users" /\ Stages[4] = "startup"
    /\ Stages[5] = "Amcache" /\ Stages[6] = "Prefetch" /\ Stages[7] = "PCA"
    /\ Stages[8] = "tasks" /\ Stages[9] = "quarantine"
    /\ Stages[10] = "recycle_bin" /\ Stages[11] = "Defender"
    /\ Stages[12] = "other_volumes" /\ Stages[13] = "COM"
    /\ Stages[14] = "deferral" /\ Stages[15] = "$MFT"
    /\ Stages[16] = "reattach" /\ Stages[17] = "junctions"
    /\ Stages[18] = "USN" /\ Stages[19] = "scoring"
    /\ Stages[20] = "signatures" /\ Stages[21] = "window"
    /\ Stages[22] = "samples" /\ Stages[23] = "digests"
    /\ Stages[24] = "done"
  BY DEF Stages

(* Each stage is followed by the next.                                      *)
LEMMA FollowingIs ==
    \A i \in 1..23 : Following(Stages[i]) = Stages[i + 1]
<1>0. 1..24 = {1, 2, 3, 4, 5, 6, 7, 8, 9, 10, 11, 12, 13,
               14, 15, 16, 17, 18, 19, 20, 21, 22, 23, 24}
  OBVIOUS
<1>1. \A i, j \in 1..24 : Stages[i] = Stages[j] => i = j
  <2> SUFFICES ASSUME NEW i \in 1..24, NEW j \in 1..24, Stages[i] = Stages[j]
               PROVE  i = j
    OBVIOUS
  <2> QED
    BY <1>0, StagesAre
<1>2. Len(Stages) = 24
  BY StagesAre
<1> SUFFICES ASSUME NEW i \in 1..23 PROVE Following(Stages[i]) = Stages[i + 1]
  OBVIOUS
<1>3. i + 1 \in 2..24 /\ Stages[(i + 1) - 1] = Stages[i]
  OBVIOUS
<1>4. \A j \in 2..24 : Stages[j - 1] = Stages[i] => j = i + 1
  BY <1>1
<1> QED
  BY <1>2, <1>3, <1>4 DEF Following

(* The order run() takes the stages in.                                     *)
LEMMA StageOrder ==
    /\ Following("SOFTWARE") = "SYSTEM"
    /\ Following("SYSTEM") = "users"
    /\ Following("users") = "startup"
    /\ Following("startup") = "Amcache"
    /\ Following("Amcache") = "Prefetch"
    /\ Following("Prefetch") = "PCA"
    /\ Following("PCA") = "tasks"
    /\ Following("tasks") = "quarantine"
    /\ Following("quarantine") = "recycle_bin"
    /\ Following("recycle_bin") = "Defender"
    /\ Following("Defender") = "other_volumes"
    /\ Following("other_volumes") = "COM"
    /\ Following("COM") = "deferral"
    /\ Following("deferral") = "$MFT"
    /\ Following("$MFT") = "reattach"
    /\ Following("reattach") = "junctions"
    /\ Following("junctions") = "USN"
    /\ Following("USN") = "scoring"
    /\ Following("scoring") = "signatures"
    /\ Following("signatures") = "window"
    /\ Following("window") = "samples"
    /\ Following("samples") = "digests"
    /\ Following("digests") = "done"
  BY FollowingIs, StagesAre

-----------------------------------------------------------------------------
(* What is in a sequence of observations, place by place.                   *)
LEMMA KeysAre == ASSUME NEW s PROVE Keys(s) = { o.key : o \in ToSet(s) }
  BY DEF Keys, ToSet

(* The ids that are not zero.                                               *)
LEMMA IdsAre == ASSUME NEW s PROVE Ids(s) = { o.id : o \in ToSet(s) } \ {0}
  BY DEF Ids, ToSet

(* Two observations with one id are one.                                    *)
LEMMA OwnId ==
    ASSUME NEW s, Distinct(s), NEW o \in ToSet(s), NEW p \in ToSet(s), o.id = p.id, o.id # 0
    PROVE  o = p
  BY DEF Distinct, ToSet

(* What is in a sequence of S is in S.                                      *)
LEMMA ElementsAre == ASSUME NEW S, NEW s \in Seq(S) PROVE ToSet(s) \subseteq S
  BY DEF ToSet

(* There is nothing in the empty sequence.                                  *)
LEMMA NothingIs == ToSet(<< >>) = {} /\ Ids(<< >>) = {} /\ Keys(<< >>) = {} /\ Distinct(<< >>)
  BY DEF ToSet, Ids, Keys, Distinct

(* A selection from a sequence, by the set of what is selected.             *)
LEMMA SelectionIs ==
    ASSUME NEW S, NEW s \in Seq(S), Distinct(s), NEW set, ToSet(s) \cap set = set
    PROVE  /\ Those(s, set) \in Seq(S) /\ Distinct(Those(s, set))
           /\ ToSet(Those(s, set)) = set
  BY ThoseAre

(* What is selected on grounds that exclude each other shares no id.        *)
LEMMA SelectionsApart ==
    ASSUME NEW S, NEW s \in Seq(S), Distinct(s), NEW a, NEW b, a \cap b = {}
    PROVE  Ids(Those(s, a)) \cap Ids(Those(s, b)) = {}
<1>1. ToSet(Those(s, a)) = ToSet(s) \cap a /\ ToSet(Those(s, b)) = ToSet(s) \cap b
  BY ThoseAre
<1>2. Ids(Those(s, a)) = { o.id : o \in ToSet(s) \cap a } \ {0}
  BY <1>1, IdsAre
<1>3. Ids(Those(s, b)) = { o.id : o \in ToSet(s) \cap b } \ {0}
  BY <1>1, IdsAre
<1>4. \A o \in ToSet(s) \cap a, q \in ToSet(s) \cap b : o.id # 0 => o.id # q.id
  BY OwnId
<1> QED
  BY <1>2, <1>3, <1>4

(* Counting the observations an artifact gave is counting their ids.        *)
LEMMA GivenIs ==
    ASSUME NEW S, NEW s \in Seq(S), Distinct(s)
    PROVE  Given(s) = Cardinality(Ids(s))
<1> DEFINE named == { o \in ToSet(s) : o.id # 0 }
           t == Those(s, named)
           id == [i \in DOMAIN t |-> t[i].id]
<1>1. t \in Seq(S) /\ ToSet(t) = named /\ Distinct(t)
  BY ThoseAre
<1>2. Given(s) = Len(t)
  BY DEF Given, Select
<1> HIDE DEF t
<1>3. DOMAIN t = 1..Len(t) /\ Len(t) \in Nat
  BY <1>1
<1>4. \A i \in DOMAIN t : t[i].id # 0 /\ t[i].id \in Ids(s)
  <2>1. \A i \in DOMAIN t : t[i] \in ToSet(t)
    BY DEF ToSet
  <2> QED
    BY <1>1, <2>1, IdsAre
<1>5. \A n \in Ids(s) : \E i \in DOMAIN t : t[i].id = n
  <2>1. \A n \in Ids(s) : \E o \in ToSet(t) : o.id = n
    BY <1>1, IdsAre
  <2> QED
    BY <2>1 DEF ToSet
<1>6. id \in Bijection(1..Len(t), Ids(s))
  <2>1. id \in [1..Len(t) -> Ids(s)]
    BY <1>3, <1>4
  <2>2. \A a, b \in 1..Len(t) : id[a] = id[b] => a = b
    BY <1>1, <1>3, <1>4 DEF Distinct
  <2>3. \A n \in Ids(s) : \E a \in 1..Len(t) : id[a] = n
    BY <1>3, <1>5
  <2> HIDE DEF id
  <2> QED
    BY <2>1, <2>2, <2>3 DEF Bijection, Injection, Surjection, IsInjective
<1>7. IsFiniteSet(1..Len(t)) /\ Cardinality(1..Len(t)) = Len(t)
  <2>1. \A n \in Nat : IsFiniteSet(1..n) /\ Cardinality(1..n) = n
    BY FS_Interval
  <2> QED
    BY <1>3, <2>1
<1> QED
  BY <1>2, <1>6, <1>7, FS_Bijection DEF ExistsBijection

-----------------------------------------------------------------------------
(* The inductive invariant.  Most of it is about a few stages: what is true *)
(* between the stage that brings it about and the one that consumes it.     *)
Gathering == {"other_volumes", "COM", "deferral", "$MFT", "reattach", "junctions", "USN",
              "scoring"}
Judging == {"signatures", "window", "samples", "digests", "done"}

Makers == ArtifactStages \cup {"$MFT", "USN", "signatures", "digests"}
Kinds == (UNION { { c.kind : c \in Claims[s] } : s \in ArtifactStages })
           \cup {"hijack", "superseded", "exists", "deleted", "signature", "shared"}
Observation ==
    [id : Nat, by : Makers, kind : Kinds, key : Key, elsewhere : BOOLEAN,
     digest : Contents \cup {NoDigest} \cup SUBSET Key]

Shape ==
    /\ stage \in ArtifactStages \cup Gathering \cup Judging
    /\ files \subseteq {"user", "program"} /\ spilled \subseteq files
    /\ junction \in BOOLEAN /\ walked \in BOOLEAN
    /\ harvested \in Nat
    /\ observations \in Seq(Observation)
    /\ deferred \in [com : Seq(Observation), av : Seq(Observation), values : Seq(Observation)]
    /\ DOMAIN candidates \subseteq Key
    /\ \A k \in DOMAIN candidates : candidates[k] \in Seq(Observation)

(* What a stage makes is not there before it, nor after the one that takes  *)
(* it.                                                                      *)
InItsTime ==
    /\ stage \in ArtifactStages \cup {"other_volumes"} => withheld = {}
    /\ stage \notin {"deferral", "$MFT", "reattach"} => deferred.com = << >>
    /\ stage \notin {"$MFT", "reattach"} => deferred.av = << >> /\ deferred.values = << >>
    /\ stage \notin Judging \cup {"junctions", "USN", "scoring"} => dropped = {}
    /\ stage \notin Judging => DOMAIN candidates = {}
    /\ stage \in Judging => observations = << >>
    /\ stage \notin {"samples", "digests", "done"} => window = FALSE

(* What is told apart about the observations on their way to the candidates.*)
IsGathered(o) ==
    /\ o.kind # "shared" /\ o.by \notin {"signatures", "digests"}
    /\ o.digest \in Contents \cup {NoDigest}
    /\ o.by = "$MFT" => o.id = 0 /\ o.key # "alias" /\ o.kind \in {"exists", "deleted"}

Gathered ==
    /\ \A o \in ToSet(observations) : IsGathered(o)
    /\ \A o \in ToSet(deferred.com) :
         IsGathered(o) /\ o.id # 0 /\ IsDeferrableCom(o)
    /\ \A o \in ToSet(deferred.av) : IsGathered(o) /\ o.id # 0 /\ IsDetection(o)
    /\ \A o \in ToSet(deferred.values) : IsGathered(o) /\ o.id # 0 /\ IsDeletedValue(o)
    /\ stage \in ArtifactStages \cup {"other_volumes", "COM", "deferral"} =>
         \A o \in ToSet(observations) : o.id # 0

(* Seven places that share nothing and hold everything.                     *)
Apart(a, b, c, d, e, f, g) ==
    /\ a \cap b = {} /\ a \cap c = {} /\ a \cap d = {} /\ a \cap e = {} /\ a \cap f = {}
    /\ a \cap g = {} /\ b \cap c = {} /\ b \cap d = {} /\ b \cap e = {} /\ b \cap f = {}
    /\ b \cap g = {} /\ c \cap d = {} /\ c \cap e = {} /\ c \cap f = {} /\ c \cap g = {}
    /\ d \cap e = {} /\ d \cap f = {} /\ d \cap g = {} /\ e \cap f = {} /\ e \cap g = {}
    /\ f \cap g = {}

DroppedIds == { o.id : o \in dropped }
Judged == UNION { Ids(candidates[k]) : k \in DOMAIN candidates }

Accounted ==
    /\ Distinct(observations)
    /\ Distinct(deferred.com) /\ Distinct(deferred.av) /\ Distinct(deferred.values)
    /\ \A k \in DOMAIN candidates : Distinct(candidates[k])
    /\ Ids(observations) \cup Ids(deferred.com) \cup Ids(deferred.av) \cup Ids(deferred.values)
         \cup withheld \cup DroppedIds \cup Judged = 1..harvested
    /\ Apart(Ids(observations), Ids(deferred.com), Ids(deferred.av), Ids(deferred.values),
             withheld, DroppedIds, Judged)

(* From the walk on, a path is only in play because somebody named it who   *)
(* was not set aside.                                                       *)
IsAnchor(o) == IsKept(o) /\ ~IsDeferrableCom(o)
Unread(k) == LedTo(k) /\ k \in spilled
Stands(o) == IsKept(o) /\ (IsDeferrableCom(o) => Unread(o.key))

Anchored ==
    /\ stage = "deferral" => \A o \in ToSet(observations) : ~IsDeferrableCom(o)
    /\ stage \in {"$MFT", "reattach", "junctions"} =>
         \A o \in ToSet(observations) :
             \E p \in ToSet(observations) : p.key = o.key /\ IsAnchor(p)
    /\ stage \in {"USN", "scoring"} =>
         \A o \in ToSet(observations) :
             \E p \in ToSet(observations) : p.key = o.key /\ Stands(p)
    /\ \A k \in DOMAIN candidates :
         \E p \in ToSet(candidates[k]) : IsGathered(p) /\ Stands(p)

(* What the walk was told to look for, it found.  A freed record can hide   *)
(* only what is behind a junction.                                          *)
Named(o) == o.id # 0 /\ ~IsDeferrableCom(o)
Present(k) ==
    \E p \in ToSet(observations) : p.key = k /\ p.kind = "exists"
Freed(k) ==
    \E p \in ToSet(observations) : p.key = k /\ p.by = "$MFT" /\ p.kind = "deleted"

LookedFor ==
    /\ stage = "$MFT" =>
         Keys(observations) \cup Keys(deferred.av) \cup Keys(deferred.values) \subseteq referenced
    /\ walked /\ stage = "reattach" =>
         \A o \in ToSet(deferred.av) \cup ToSet(deferred.values) :
             o.key \in files => Present(o.key)
    /\ walked /\ stage \in {"reattach", "junctions"} =>
         \A o \in ToSet(observations) : Named(o) /\ o.key \in files => Present(o.key)
    /\ walked /\ stage \in {"USN", "scoring"} =>
         \A o \in ToSet(observations) : Named(o) /\ Spelled(o.key) \in files =>
             Present(o.key) \/ (LedTo(o.key) /\ (o.key \in spilled \/ Freed(o.key)))

(* The candidates and what is known of each.                                *)
OfTheirKey ==
    \A k \in DOMAIN candidates : \A o \in ToSet(candidates[k]) :
        o.key = k /\ (IsShared(o) => o.id = 0)

Scored ==
    stage \in Judging =>
        /\ DOMAIN hash = DOMAIN candidates /\ DOMAIN disputed = DOMAIN candidates
        /\ DOMAIN evidence = DOMAIN candidates
        /\ \A k \in DOMAIN candidates : evidence[k] = Extract(candidates, k, window)

LinksTo(j, k) == \E o \in ToSet(candidates[j]) : IsShared(o) /\ k \in o.digest

LinkedMutually ==
    Done =>
        \A k \in DOMAIN candidates : \A o \in ToSet(candidates[k]) :
            IsShared(o) => \A j \in o.digest :
                /\ j \in DOMAIN candidates /\ LinksTo(j, k)
                /\ hash[j] = hash[k] /\ ~disputed[j] /\ ~disputed[k]

IInv ==
    /\ Shape /\ InItsTime /\ Gathered /\ Accounted /\ Anchored /\ LookedFor
    /\ DetectionOfAFileHereIsKept /\ PresentFilesAreKnownPresent
    /\ OfTheirKey /\ Scored /\ LinkedMutually

-----------------------------------------------------------------------------
(* Nothing has been gathered, nothing is claimed of it.                     *)
LEMMA InitIInv == Init => IInv
<1> SUFFICES ASSUME Init PROVE IInv
  OBVIOUS
<1>1. Shape
  <2>1. stage \in ArtifactStages
    BY DEF Init, ArtifactStages
  <2>2. << >> \in Seq(Observation) /\ DOMAIN << >> = {}
    OBVIOUS
  <2> QED
    BY <2>1, <2>2 DEF Init, Shape
<1>2. InItsTime
  BY DEF Init, InItsTime, ArtifactStages, Judging
<1>3. Gathered /\ Anchored
  BY NothingIs DEF Init, Gathered, Anchored
<1>4. Accounted
  BY NothingIs DEF Init, Accounted, Apart, DroppedIds, Judged
<1>5. LookedFor /\ DetectionOfAFileHereIsKept /\ PresentFilesAreKnownPresent
  BY NothingIs DEF Init, LookedFor, DetectionOfAFileHereIsKept, PresentFilesAreKnownPresent
<1>6. OfTheirKey /\ Scored /\ LinkedMutually
  BY DEF Init, OfTheirKey, Scored, LinkedMutually, Judging, Done, At
<1> QED
  BY <1>1, <1>2, <1>3, <1>4, <1>5, <1>6 DEF IInv

-----------------------------------------------------------------------------
(* What an artifact's stage adds: observations of its own, numbered on.     *)
LEMMA StampedIs ==
    ASSUME ClaimsAssumption, harvested \in Nat, stage \in ArtifactStages,
           NEW cs \in Seq(Claims[stage])
    PROVE  /\ Stamped(cs) \in Seq(Observation)
           /\ Distinct(Stamped(cs))
           /\ Ids(Stamped(cs)) = (harvested + 1)..(harvested + Len(cs))
           /\ \A o \in ToSet(Stamped(cs)) : IsGathered(o) /\ o.id # 0
<1> DEFINE t == Stamped(cs)
<1>1. DOMAIN cs = 1..Len(cs) /\ Len(cs) \in Nat /\ \A i \in DOMAIN cs : cs[i] \in Claims[stage]
  OBVIOUS
<1>2. \A i \in DOMAIN cs :
        /\ cs[i].kind \in Kinds \ {"shared"} /\ cs[i].key \in Key
        /\ cs[i].elsewhere \in BOOLEAN /\ cs[i].digest \in Contents \cup {NoDigest}
  <2>1. \A c \in Claims[stage] : c.kind \in Kinds
    <3>1. { c.kind : c \in Claims[stage] } \subseteq
            UNION { { c.kind : c \in Claims[s] } : s \in ArtifactStages }
      OBVIOUS
    <3> QED
      BY <3>1 DEF Kinds
  <2> QED
    BY <1>1, <2>1 DEF ClaimsAssumption
<1>3. DOMAIN t = 1..Len(cs) /\ \A i \in 1..Len(cs) :
        t[i] = [id |-> harvested + i, by |-> stage, kind |-> cs[i].kind, key |-> cs[i].key,
                elsewhere |-> cs[i].elsewhere, digest |-> cs[i].digest]
  BY <1>1 DEF Stamped
<1>4. t = [i \in 1..Len(cs) |-> t[i]]
  BY <1>1 DEF Stamped
<1> HIDE DEF t
<1>5. stage \in Makers /\ stage \notin {"signatures", "digests", "$MFT"}
  <2>1. stage \notin {"signatures", "digests", "$MFT"}
    BY DEF ArtifactStages
  <2> QED
    BY <2>1 DEF Makers
<1>6. ASSUME NEW i \in 1..Len(cs)
      PROVE  /\ t[i] \in Observation /\ IsGathered(t[i])
             /\ t[i].id = harvested + i /\ harvested + i \in Nat \ {0}
  BY <1>1, <1>2, <1>3, <1>5 DEF Observation, IsGathered
<1>7. t \in Seq(Observation)
  <2>1. t \in [1..Len(cs) -> Observation]
    BY <1>4, <1>6
  <2> QED
    BY <1>1, <2>1
<1>8. Distinct(t)
  BY <1>1, <1>3, <1>6 DEF Distinct
<1>9. Ids(t) = (harvested + 1)..(harvested + Len(cs))
  <2>1. \A n \in (harvested + 1)..(harvested + Len(cs)) :
          n - harvested \in 1..Len(cs) /\ harvested + (n - harvested) = n
    BY <1>1
  <2>2. \A i \in 1..Len(cs) : harvested + i \in (harvested + 1)..(harvested + Len(cs))
    BY <1>1
  <2> QED
    <3>1. \A n \in Ids(t) : n \in (harvested + 1)..(harvested + Len(cs))
      BY <1>3, <1>6, <2>2 DEF Ids
    <3>2. \A n \in (harvested + 1)..(harvested + Len(cs)) :
            t[n - harvested].id = n /\ n # 0 /\ n - harvested \in DOMAIN t
      BY <1>3, <1>6, <2>1
    <3> QED
      BY <3>1, <3>2 DEF Ids
<1>10. \A o \in ToSet(t) : IsGathered(o) /\ o.id # 0
  BY <1>3, <1>6 DEF ToSet
<1> QED
  BY <1>7, <1>8, <1>9, <1>10 DEF t

(* A stage that reads artifacts, whatever its parsers do.                   *)
Reads(cs) ==
    /\ stage \in ArtifactStages
    /\ observations' = observations \o Stamped(cs)
    /\ harvested' = harvested + Len(cs)
    /\ stage' \in ArtifactStages \cup {"other_volumes"}
    /\ UNCHANGED << volume, walked, referenced, deferred, judged, withheld, dropped >>

(* Every stage of the harvest reads.                                        *)
LEMMA HarvestReads ==
    ASSUME BoundAssumption, IInv, Harvest
    PROVE  \E cs \in Seq(Claims[stage]) : Reads(cs)
<1>1. stage \in ArtifactStages /\ Following(stage) \in ArtifactStages \cup {"other_volumes"}
  BY StageOrder DEF Harvest, SoftwareHive, SystemHive, UserHives, StartupFolders, Amcache, Prefetch,
     Pca, Tasks, Quarantine, RecycleBin, DefenderLog, At, ArtifactStages
<1>2. Parse
  BY DEF Harvest, SoftwareHive, SystemHive, UserHives, StartupFolders, Amcache, Prefetch,
     Pca, Tasks, Quarantine, RecycleBin, DefenderLog
<1>3. PICK cs \in Found :
         observations' = observations \o Stamped(cs) /\ harvested' = harvested + Len(cs)
  BY <1>2 DEF Parse
<1>4. cs \in Seq(Claims[stage])
  <2>1. MaxHarvested - harvested \in Int
    BY DEF BoundAssumption, IInv, Shape
  <2>2. \A n \in 0..(MaxHarvested - harvested) :
          [1..n -> Claims[stage]] \subseteq Seq(Claims[stage])
    BY <2>1
  <2> QED
    BY <2>2, <1>3, Zenon DEF Found
<1>5. Reads(cs)
  BY <1>1, <1>2, <1>3 DEF Parse, Settle, Reads
<1> QED
  BY <1>4, <1>5

-----------------------------------------------------------------------------
(* Until the candidates are built there is nothing to say of them.          *)
LEMMA NoCandidatesYet ==
    ASSUME DOMAIN candidates' = {}, stage' \notin Judging
    PROVE  /\ OfTheirKey' /\ Scored' /\ LinkedMutually' /\ PresentFilesAreKnownPresent'
           /\ (Judged = {})'
  BY DEF OfTheirKey, Scored, LinkedMutually, PresentFilesAreKnownPresent, Judged, Judging,
         Done, At

(* What is read is numbered on from what was there.                         *)
LEMMA HarvestKeeps ==
    ASSUME BoundAssumption, ClaimsAssumption, IInv, Harvest PROVE IInv'
<1>1. PICK cs \in Seq(Claims[stage]) : Reads(cs)
  BY HarvestReads
<1> DEFINE t == Stamped(cs)
<1>2. /\ stage \in ArtifactStages /\ stage' \in ArtifactStages \cup {"other_volumes"}
      /\ observations' = observations \o t /\ harvested' = harvested + Len(cs)
      /\ UNCHANGED << files, spilled, junction, walked, referenced, deferred, candidates, hash, disputed,
                      evidence, window, withheld, dropped >>
  BY <1>1 DEF Reads, volume, judged
<1>3. /\ stage \notin Judging \cup {"deferral", "$MFT", "reattach", "junctions", "USN", "scoring"}
      /\ stage' \notin Judging \cup {"deferral", "$MFT", "reattach", "junctions", "USN", "scoring"}
      /\ stage \notin {"samples", "digests", "done"}
      /\ stage' \notin {"samples", "digests", "done"}
  BY <1>2 DEF ArtifactStages, Judging
<1>4. /\ deferred = [com |-> << >>, av |-> << >>, values |-> << >>]
      /\ withheld = {} /\ dropped = {} /\ DOMAIN candidates = {} /\ window = FALSE
  BY <1>2, <1>3 DEF IInv, InItsTime, Shape
<1>5. /\ t \in Seq(Observation) /\ Distinct(t)
      /\ Ids(t) = (harvested + 1)..(harvested + Len(cs))
      /\ \A o \in ToSet(t) : IsGathered(o) /\ o.id # 0
  BY <1>2, StampedIs DEF IInv, Shape
<1>6. harvested \in Nat /\ Len(cs) \in Nat
  BY DEF IInv, Shape
<1> HIDE DEF t
<1>7. Ids(observations) = 1..harvested
  BY <1>3, <1>4, NothingIs DEF IInv, Accounted, DroppedIds, Judged
<1>8. Ids(observations) \cap Ids(t) = {}
  BY <1>5, <1>6, <1>7
<1>9. /\ observations' \in Seq(Observation)
      /\ ToSet(observations') = ToSet(observations) \cup ToSet(t)
      /\ Distinct(observations')
  BY <1>2, <1>5, <1>8, ConcatIs DEF IInv, Shape, Accounted
<1>10. Ids(observations') = 1..harvested'
  <2>1. Ids(observations') = Ids(observations) \cup Ids(t)
    BY <1>9, IdsAre
  <2> QED
    BY <1>2, <1>5, <1>6, <1>7, <2>1
<1>11. Shape'
  BY <1>2, <1>4, <1>6, <1>9 DEF IInv, Shape, Gathering
<1>12. InItsTime'
  BY <1>2, <1>3, <1>4 DEF InItsTime
<1>13. Gathered'
  BY <1>2, <1>4, <1>5, <1>9, NothingIs DEF IInv, Gathered, IsGathered
<1>14. (Judged = {})' /\ OfTheirKey' /\ Scored' /\ LinkedMutually' /\ PresentFilesAreKnownPresent'
  BY <1>2, <1>3, <1>4, NoCandidatesYet
<1>15. Accounted'
  BY <1>2, <1>4, <1>9, <1>10, <1>14, NothingIs DEF Accounted, Apart, DroppedIds
<1>16. Anchored' /\ LookedFor'
  BY <1>2, <1>3, <1>4 DEF Anchored, LookedFor
<1>17. DetectionOfAFileHereIsKept'
  BY <1>2, <1>4 DEF DetectionOfAFileHereIsKept
<1> QED
  BY <1>11, <1>12, <1>13, <1>14, <1>15, <1>16, <1>17 DEF IInv

-----------------------------------------------------------------------------
(* Between the harvest and the walk.                                        *)
LEMMA WithholdKeeps ==
    ASSUME IInv, WithholdOtherVolumes PROVE IInv'
<1> DEFINE out == { o \in ToSet(observations) : OnAnotherVolume(o) }
           in == { o \in ToSet(observations) : ~OnAnotherVolume(o) }
<1>1. /\ stage = "other_volumes" /\ stage' = "COM"
      /\ \/ /\ observations' = Those(observations, in)
            /\ withheld' = Ids(Those(observations, out))
         \/ UNCHANGED << observations, withheld >>
      /\ UNCHANGED << files, spilled, junction, walked, referenced, deferred, candidates, hash, disputed,
                      evidence, window, harvested, dropped >>
  BY StageOrder DEF WithholdOtherVolumes, At, Settle, Select, volume, judged
<1>2. /\ deferred = [com |-> << >>, av |-> << >>, values |-> << >>]
      /\ withheld = {} /\ dropped = {} /\ DOMAIN candidates = {} /\ window = FALSE
  BY <1>1 DEF IInv, InItsTime, Shape, Judging, ArtifactStages
<1>3. /\ observations \in Seq(Observation) /\ Distinct(observations)
      /\ in \cap out = {} /\ in \cup out = ToSet(observations)
      /\ ToSet(observations) \cap in = in /\ ToSet(observations) \cap out = out
  BY DEF IInv, Shape, Accounted
<1> HIDE DEF in, out
<1>4. /\ Those(observations, in) \in Seq(Observation) /\ Distinct(Those(observations, in))
      /\ ToSet(Those(observations, in)) = in /\ ToSet(Those(observations, out)) = out
  BY <1>3, SelectionIs
<1>5. Ids(observations) = 1..harvested
  BY <1>1, <1>2, NothingIs DEF IInv, Accounted, DroppedIds, Judged
<1>6. /\ Ids(Those(observations, in)) \cup Ids(Those(observations, out)) = 1..harvested
      /\ Ids(Those(observations, in)) \cap Ids(Those(observations, out)) = {}
  <2>1. Ids(Those(observations, in)) \cup Ids(Those(observations, out)) = 1..harvested
    BY <1>3, <1>4, <1>5, IdsAre
  <2>2. Ids(Those(observations, in)) \cap Ids(Those(observations, out)) = {}
    BY <1>3, SelectionsApart
  <2> QED
    BY <2>1, <2>2
<1>7. /\ observations' \in Seq(Observation) /\ Distinct(observations')
      /\ ToSet(observations') \subseteq ToSet(observations)
      /\ Ids(observations') \cup withheld' = 1..harvested
      /\ Ids(observations') \cap withheld' = {}
  BY <1>1, <1>2, <1>3, <1>4, <1>5, <1>6
<1>8. Shape'
  BY <1>1, <1>2, <1>7 DEF IInv, Shape, Gathering
<1>9. InItsTime'
  BY <1>1, <1>2 DEF InItsTime, ArtifactStages, Judging
<1>10. Gathered'
  BY <1>1, <1>2, <1>7, NothingIs DEF IInv, Gathered, IsGathered
<1>11. (Judged = {})' /\ OfTheirKey' /\ Scored' /\ LinkedMutually' /\ PresentFilesAreKnownPresent'
  BY <1>1, <1>2, NoCandidatesYet DEF Judging
<1>12. Accounted'
  BY <1>1, <1>2, <1>7, <1>11, NothingIs DEF Accounted, Apart, DroppedIds
<1>13. Anchored' /\ LookedFor'
  BY <1>1, <1>2 DEF Anchored, LookedFor
<1>14. DetectionOfAFileHereIsKept'
  BY <1>1, <1>2 DEF DetectionOfAFileHereIsKept
<1> QED
  BY <1>8, <1>9, <1>10, <1>11, <1>12, <1>13, <1>14 DEF IInv

(* Relabelling changes what kind an observation is, and nothing else.       *)
LEMMA RelabelledIs ==
    ASSUME NEW obs \in Seq(Observation)
    PROVE  LET new == RelabelSuperseded(PromoteComHijacks(obs))
           IN /\ new \in Seq(Observation) /\ Ids(new) = Ids(obs)
              /\ Distinct(obs) => Distinct(new)
              /\ \A n \in ToSet(new) : \E o \in ToSet(obs) :
                   /\ n.id = o.id /\ n.by = o.by /\ n.key = o.key /\ n.digest = o.digest
                   /\ n.kind \in {o.kind, "hijack", "superseded"}
<1> DEFINE mid == PromoteComHijacks(obs)
           new == RelabelSuperseded(mid)
           Relabelled(o, kind) == [o EXCEPT !.kind = kind]
<1>1. /\ mid = [i \in DOMAIN obs |-> mid[i]]
      /\ \A i \in DOMAIN obs : mid[i] = obs[i] \/ mid[i] = Relabelled(obs[i], "hijack")
  BY DEF PromoteComHijacks
<1>2. /\ new = [i \in DOMAIN mid |-> new[i]]
      /\ \A i \in DOMAIN mid : new[i] = mid[i] \/ new[i] = Relabelled(mid[i], "superseded")
  BY DEF RelabelSuperseded
<1> HIDE DEF mid, new
<1>3. ASSUME NEW o \in Observation, NEW kind \in {"hijack", "superseded"}
      PROVE  LET n == Relabelled(o, kind)
             IN /\ n \in Observation /\ n.id = o.id /\ n.by = o.by
                /\ n.key = o.key /\ n.digest = o.digest /\ n.kind = kind
  BY DEF Observation, Kinds
<1>4. \A i \in DOMAIN obs : obs[i] \in Observation
  OBVIOUS
<1> HIDE DEF Relabelled
<1>5. \A i \in DOMAIN obs :
        /\ mid[i] \in Observation /\ mid[i].id = obs[i].id /\ mid[i].by = obs[i].by
        /\ mid[i].key = obs[i].key /\ mid[i].digest = obs[i].digest
        /\ mid[i].kind \in {obs[i].kind, "hijack"}
  BY <1>1, <1>3, <1>4
<1>6. mid \in Seq(Observation) /\ Ids(mid) = Ids(obs) /\ (Distinct(obs) => Distinct(mid))
  BY <1>1, <1>5, MapIs
<1>7. DOMAIN mid = DOMAIN obs
  BY <1>1
<1>8. \A i \in DOMAIN mid :
        /\ new[i] \in Observation /\ new[i].id = mid[i].id /\ new[i].by = mid[i].by
        /\ new[i].key = mid[i].key /\ new[i].digest = mid[i].digest
        /\ new[i].kind \in {mid[i].kind, "superseded"}
  <2>1. \A i \in DOMAIN mid : mid[i] \in Observation
    BY <1>5, <1>7
  <2> QED
    BY <1>2, <1>3, <2>1
<1>9. new \in Seq(Observation) /\ Ids(new) = Ids(mid) /\ (Distinct(mid) => Distinct(new))
  BY <1>2, <1>6, <1>8, MapIs
<1>10. \A n \in ToSet(new) : \E o \in ToSet(obs) :
         /\ n.id = o.id /\ n.by = o.by /\ n.key = o.key /\ n.digest = o.digest
         /\ n.kind \in {o.kind, "hijack", "superseded"}
  <2>1. \A i \in DOMAIN obs :
          /\ new[i].id = obs[i].id /\ new[i].by = obs[i].by /\ new[i].key = obs[i].key
          /\ new[i].digest = obs[i].digest
          /\ new[i].kind \in {obs[i].kind, "hijack", "superseded"}
    BY <1>5, <1>7, <1>8
  <2>2. DOMAIN new = DOMAIN obs
    BY <1>2, <1>7
  <2> QED
    BY <2>1, <2>2 DEF ToSet
<1> QED
  BY <1>6, <1>9, <1>10 DEF mid, new

(* The ordinary registrations are set aside.                                *)
LEMMA ComKeeps ==
    ASSUME IInv, ComRegistrations PROVE IInv'
<1> DEFINE new == RelabelSuperseded(PromoteComHijacks(observations))
           aside == { o \in ToSet(new) : IsDeferrableCom(o) }
           kept == { o \in ToSet(new) : ~IsDeferrableCom(o) }
<1>1. /\ stage = "COM" /\ stage' = "deferral"
      /\ observations' = Those(new, kept)
      /\ deferred' = [deferred EXCEPT !.com = Those(new, aside)]
      /\ UNCHANGED << files, spilled, junction, walked, referenced, candidates, hash, disputed,
                      evidence, window, harvested, withheld, dropped >>
  BY StageOrder DEF ComRegistrations, At, Settle, Select, volume, judged, past
<1>2. /\ deferred = [com |-> << >>, av |-> << >>, values |-> << >>]
      /\ dropped = {} /\ DOMAIN candidates = {} /\ window = FALSE
  BY <1>1 DEF IInv, InItsTime, Shape, Judging, ArtifactStages
<1>3. deferred' = [com |-> Those(new, aside), av |-> << >>, values |-> << >>]
  BY <1>1, <1>2
<1>4. /\ new \in Seq(Observation) /\ Ids(new) = Ids(observations) /\ Distinct(new)
      /\ \A n \in ToSet(new) : \E o \in ToSet(observations) :
            /\ n.id = o.id /\ n.by = o.by /\ n.key = o.key /\ n.digest = o.digest
            /\ n.kind \in {o.kind, "hijack", "superseded"}
  BY RelabelledIs DEF IInv, Shape, Accounted
<1> HIDE DEF new
<1>5. /\ aside \cap kept = {} /\ aside \cup kept = ToSet(new)
      /\ ToSet(new) \cap aside = aside /\ ToSet(new) \cap kept = kept
  OBVIOUS
<1>6. /\ \A o \in aside : o \in ToSet(new) /\ IsDeferrableCom(o)
      /\ \A o \in kept : o \in ToSet(new) /\ ~IsDeferrableCom(o)
  OBVIOUS
<1> HIDE DEF aside, kept
<1>7. /\ Those(new, kept) \in Seq(Observation) /\ Distinct(Those(new, kept))
      /\ ToSet(Those(new, kept)) = kept
  BY <1>4, <1>5, SelectionIs
<1>8. /\ Those(new, aside) \in Seq(Observation) /\ Distinct(Those(new, aside))
      /\ ToSet(Those(new, aside)) = aside
  BY <1>4, <1>5, SelectionIs
<1>9. /\ Ids(Those(new, kept)) \cup Ids(Those(new, aside)) = Ids(observations)
      /\ Ids(Those(new, kept)) \cap Ids(Those(new, aside)) = {}
  <2>1. Ids(Those(new, kept)) \cup Ids(Those(new, aside)) = Ids(new)
    BY <1>5, <1>7, <1>8, IdsAre
  <2>2. Ids(Those(new, kept)) \cap Ids(Those(new, aside)) = {}
    BY <1>4, <1>5, SelectionsApart
  <2> QED
    BY <1>4, <2>1, <2>2
<1>10. \A n \in ToSet(new) : IsGathered(n) /\ n.id # 0
  BY <1>1, <1>4 DEF IInv, Gathered, IsGathered
<1>11. Shape'
  BY <1>1, <1>2, <1>3, <1>7, <1>8 DEF IInv, Shape, Gathering
<1>12. InItsTime'
  BY <1>1, <1>2, <1>3 DEF InItsTime, ArtifactStages, Judging
<1>13. Gathered'
  BY <1>1, <1>3, <1>6, <1>7, <1>8, <1>10, NothingIs
  DEF Gathered, IsGathered, IsDeferrableCom
<1>14. (Judged = {})' /\ OfTheirKey' /\ Scored' /\ LinkedMutually' /\ PresentFilesAreKnownPresent'
  BY <1>1, <1>2, NoCandidatesYet DEF Judging
<1>15. Accounted'
  <2>1. Ids(observations) \cup withheld = 1..harvested /\ Ids(observations) \cap withheld = {}
    BY <1>2, NothingIs DEF IInv, Accounted, Apart, DroppedIds, Judged
  <2> QED
    BY <1>1, <1>2, <1>3, <1>7, <1>8, <1>9, <1>14, <2>1, NothingIs
    DEF Accounted, Apart, DroppedIds
<1>16. Anchored' /\ LookedFor'
  BY <1>1, <1>2, <1>6, <1>7 DEF Anchored, LookedFor
<1>17. DetectionOfAFileHereIsKept'
  BY <1>1, <1>2 DEF DetectionOfAFileHereIsKept
<1> QED
  BY <1>11, <1>12, <1>13, <1>14, <1>15, <1>16, <1>17 DEF IInv

(* Detections and freed values are set aside, their paths looked for.       *)
LEMMA DeferralKeeps ==
    ASSUME IInv, DeferTheRest PROVE IInv'
<1> DEFINE obs == observations
           av == { o \in ToSet(obs) : IsDetection(o) }
           values == { o \in ToSet(obs) : IsDeletedValue(o) }
           kept == { o \in ToSet(obs) : IsKept(o) }
<1>1. /\ stage = "deferral" /\ stage' = "$MFT"
      /\ observations' = Those(obs, kept)
      /\ referenced' = Keys(obs)
      /\ deferred' = [deferred EXCEPT !.av = Those(obs, av), !.values = Those(obs, values)]
      /\ UNCHANGED << files, spilled, junction, walked, candidates, hash, disputed,
                      evidence, window, harvested, withheld, dropped >>
  BY StageOrder DEF DeferTheRest, Referenced, At, Settle, Select, volume, judged, past
<1>2. /\ deferred = [com |-> deferred.com, av |-> << >>, values |-> << >>]
      /\ deferred.com \in Seq(Observation)
      /\ dropped = {} /\ DOMAIN candidates = {} /\ window = FALSE
  BY <1>1 DEF IInv, InItsTime, Shape, Judging, ArtifactStages
<1>3. deferred' = [com |-> deferred.com, av |-> Those(obs, av), values |-> Those(obs, values)]
  BY <1>1, <1>2
<1>4. obs \in Seq(Observation) /\ Distinct(obs)
  BY DEF IInv, Shape, Accounted
<1>5. /\ av \cap kept = {} /\ values \cap kept = {} /\ av \cap values = {}
      /\ av \cup values \cup kept = ToSet(obs)
      /\ ToSet(obs) \cap av = av /\ ToSet(obs) \cap kept = kept
      /\ ToSet(obs) \cap values = values
  BY DEF IsDetection, IsDeletedValue, IsKept
<1>6. /\ \A o \in av : o \in ToSet(obs) /\ IsDetection(o)
      /\ \A o \in values : o \in ToSet(obs) /\ IsDeletedValue(o)
      /\ \A o \in kept : o \in ToSet(obs) /\ IsKept(o)
  OBVIOUS
<1> HIDE DEF av, values, kept
<1>7. /\ Those(obs, kept) \in Seq(Observation) /\ Distinct(Those(obs, kept))
      /\ ToSet(Those(obs, kept)) = kept
  BY <1>4, <1>5, SelectionIs
<1>8. /\ Those(obs, av) \in Seq(Observation) /\ Distinct(Those(obs, av))
      /\ ToSet(Those(obs, av)) = av
  BY <1>4, <1>5, SelectionIs
<1>9. /\ Those(obs, values) \in Seq(Observation) /\ Distinct(Those(obs, values))
      /\ ToSet(Those(obs, values)) = values
  BY <1>4, <1>5, SelectionIs
<1>10. Ids(obs) = Ids(Those(obs, kept)) \cup Ids(Those(obs, av)) \cup Ids(Those(obs, values))
  BY <1>5, <1>7, <1>8, <1>9, IdsAre
<1>11. /\ Ids(Those(obs, kept)) \cap Ids(Those(obs, av)) = {}
       /\ Ids(Those(obs, kept)) \cap Ids(Those(obs, values)) = {}
       /\ Ids(Those(obs, av)) \cap Ids(Those(obs, values)) = {}
  BY <1>4, <1>5, SelectionsApart
<1>12. \A o \in ToSet(obs) : IsGathered(o) /\ o.id # 0 /\ ~IsDeferrableCom(o)
  BY <1>1 DEF IInv, Gathered, Anchored
<1>13. Shape'
  BY <1>1, <1>2, <1>3, <1>7, <1>8, <1>9 DEF IInv, Shape, Gathering
<1>14. InItsTime'
  BY <1>1, <1>2, <1>3 DEF InItsTime, ArtifactStages, Judging
<1>15. Gathered'
  BY <1>1, <1>3, <1>6, <1>7, <1>8, <1>9, <1>12
  DEF IInv, Gathered, IsGathered, ArtifactStages
<1>16. (Judged = {})' /\ OfTheirKey' /\ Scored' /\ LinkedMutually' /\ PresentFilesAreKnownPresent'
  BY <1>1, <1>2, NoCandidatesYet DEF Judging
<1>17. Accounted'
  <2>1. /\ Ids(obs) \cup Ids(deferred.com) \cup withheld = 1..harvested
        /\ Ids(obs) \cap withheld = {} /\ Ids(obs) \cap Ids(deferred.com) = {}
        /\ Ids(deferred.com) \cap withheld = {} /\ Distinct(deferred.com)
    BY <1>2, NothingIs DEF IInv, Accounted, Apart, DroppedIds, Judged
  <2> QED
    BY <1>1, <1>2, <1>3, <1>7, <1>8, <1>9, <1>10, <1>11, <1>16, <2>1, NothingIs
    DEF Accounted, Apart, DroppedIds
<1>18. Anchored'
  BY <1>1, <1>2, <1>6, <1>7, <1>12 DEF Anchored, IsAnchor
<1>19. LookedFor'
  <2>1. Keys(observations') \cup Keys(deferred'.av) \cup Keys(deferred'.values) \subseteq Keys(obs)
    BY <1>1, <1>3, <1>5, <1>7, <1>8, <1>9, KeysAre
  <2> QED
    BY <1>1, <2>1 DEF LookedFor
<1>20. DetectionOfAFileHereIsKept'
  BY <1>1, <1>2 DEF DetectionOfAFileHereIsKept
<1> QED
  BY <1>13, <1>14, <1>15, <1>16, <1>17, <1>18, <1>19, <1>20 DEF IInv

-----------------------------------------------------------------------------
(* Facts the run adds of its own, of some files.                            *)
LEMMA FactsAre ==
    ASSUME NEW by \in Makers, NEW kind \in Kinds, NEW ks, ks \subseteq Key
    PROVE  LET t == SetToSeq({ About(by, kind, k) : k \in ks })
           IN /\ t \in Seq(Observation) /\ Ids(t) = {} /\ Distinct(t)
              /\ ToSet(t) = { About(by, kind, k) : k \in ks }
<1> DEFINE facts == { About(by, kind, k) : k \in ks }
           t == SetToSeq(facts)
<1>1. IsFiniteSet(facts)
  <2> DEFINE all == {About(by, kind, "user"), About(by, kind, "program"), About(by, kind, "alias")}
  <2>1. facts \subseteq all
    BY DEF Key
  <2>2. IsFiniteSet({About(by, kind, "user")})
    BY FS_Singleton
  <2>3. IsFiniteSet({About(by, kind, "user")} \cup {About(by, kind, "program")})
    BY <2>2, FS_AddElement
  <2>4. IsFiniteSet({About(by, kind, "user")} \cup {About(by, kind, "program")}
                      \cup {About(by, kind, "alias")})
    BY <2>3, FS_AddElement
  <2>5. IsFiniteSet(all)
    <3>1. all = {About(by, kind, "user")} \cup {About(by, kind, "program")}
                  \cup {About(by, kind, "alias")}
      OBVIOUS
    <3> QED
      BY <2>4, <3>1
  <2> HIDE DEF all, facts
  <2> QED
    BY <2>1, <2>5, FS_Subset
<1>2. \A o \in facts : o \in Observation /\ o.id = 0
  <2>1. ASSUME NEW k \in ks PROVE About(by, kind, k) \in Observation
    <3>1. k \in Key /\ NoDigest \in Contents \cup {NoDigest} \cup SUBSET Key
      OBVIOUS
    <3> QED
      BY <3>1 DEF About, Observation
  <2>2. ASSUME NEW k \in ks PROVE About(by, kind, k).id = 0
    BY DEF About
  <2> QED
    BY <2>1, <2>2
<1> HIDE DEF facts
<1>3. t \in Seq(facts) /\ ToSet(t) = facts
  BY <1>1, SetToSeqIs
<1> HIDE DEF t
<1>4. t \in Seq(Observation)
  BY <1>2, <1>3
<1>5. \A i \in DOMAIN t : t[i].id = 0
  BY <1>2, <1>3
<1>6. Ids(t) = {} /\ Distinct(t)
  BY <1>5 DEF Ids, Distinct
<1> QED
  BY <1>3, <1>4, <1>6 DEF t, facts

(* The facts of files are gathered, and anchor their keys.                  *)
LEMMA FactsOfFiles ==
    ASSUME NEW kind \in {"exists", "deleted"}, NEW ks, ks \subseteq {"user", "program"}
    PROVE  /\ Facts(kind, ks) \in Seq(Observation)
           /\ Ids(Facts(kind, ks)) = {} /\ Distinct(Facts(kind, ks))
           /\ Keys(Facts(kind, ks)) = ks
           /\ \A o \in ToSet(Facts(kind, ks)) :
                /\ IsGathered(o) /\ IsAnchor(o) /\ o.id = 0
                /\ o.by = "$MFT" /\ o.kind = kind /\ o.key \in ks
<1>1. "$MFT" \in Makers /\ kind \in Kinds
  BY DEF Makers, Kinds
<1>2. ks \subseteq Key
  BY DEF Key
<1>3. /\ Facts(kind, ks) \in Seq(Observation)
      /\ Ids(Facts(kind, ks)) = {} /\ Distinct(Facts(kind, ks))
      /\ ToSet(Facts(kind, ks)) = { About("$MFT", kind, k) : k \in ks }
  BY <1>1, <1>2, FactsAre DEF Facts
<1>4. Keys(Facts(kind, ks)) = ks
  <2>1. \A k \in ks : About("$MFT", kind, k).key = k
    BY DEF About
  <2> DEFINE made == { About("$MFT", kind, k) : k \in ks }
  <2>2. Keys(Facts(kind, ks)) = { o.key : o \in made }
    BY <1>3, KeysAre
  <2>3. \A o \in made : o.key \in ks
    BY <2>1
  <2>4. \A k \in ks : \E o \in made : o.key = k
    BY <2>1
  <2> HIDE DEF made
  <2> QED
    BY <2>2, <2>3, <2>4
<1>5. ASSUME NEW k \in ks
      PROVE  LET o == About("$MFT", kind, k)
             IN /\ IsGathered(o) /\ IsAnchor(o) /\ o.id = 0
                /\ o.by = "$MFT" /\ o.kind = kind /\ o.key \in ks
  BY DEF About, IsGathered, IsAnchor, IsKept, IsDetection, IsDeletedValue, IsDeferrableCom
<1> QED
  BY <1>3, <1>4, <1>5

(* The walk finds what it was told to look for, and more, and what was      *)
(* freed.                                                                   *)
LEMMA WalkKeeps ==
    ASSUME IInv, WalkFilesystem PROVE IInv'
<1>1. PICK noticed \in SUBSET files, freed \in Deletions(Key \ {"alias"}) :
      \E emitted \in IF walked' THEN {WorthObserving(noticed)}
                    ELSE SUBSET WorthObserving(noticed) :
         observations' = observations \o Facts("exists", emitted) \o Facts("deleted", freed)
  BY DEF WalkFilesystem
<1>2. PICK emitted \in IF walked' THEN {WorthObserving(noticed)}
                       ELSE SUBSET WorthObserving(noticed) :
         observations' = observations \o Facts("exists", emitted) \o Facts("deleted", freed)
  BY <1>1
<1> DEFINE here == Facts("exists", emitted)
           gone == Facts("deleted", freed)
           met == observations \o here
<1>3. /\ stage = "$MFT" /\ stage' = "reattach" /\ walked' \in BOOLEAN
      /\ junction' = (junction /\ walked')
      /\ UNCHANGED << files, spilled, deferred, candidates, hash, disputed,
                      evidence, window, harvested, withheld, dropped >>
  BY StageOrder DEF WalkFilesystem, At, Settle, judged, past
<1>4. dropped = {} /\ DOMAIN candidates = {} /\ window = FALSE
  BY <1>3 DEF IInv, InItsTime, Judging
<1>5. emitted \subseteq files /\ (walked' => files \cap referenced \subseteq emitted)
  BY <1>2 DEF WorthObserving
<1>6. /\ here \in Seq(Observation) /\ Ids(here) = {} /\ Distinct(here) /\ Keys(here) = emitted
      /\ \A o \in ToSet(here) : IsGathered(o) /\ IsAnchor(o) /\ o.id = 0 /\ o.kind = "exists"
  <2>1. emitted \subseteq {"user", "program"}
    BY <1>5 DEF IInv, Shape
  <2> QED
    BY <2>1, FactsOfFiles
<1>7. /\ gone \in Seq(Observation) /\ Ids(gone) = {} /\ Distinct(gone)
      /\ \A o \in ToSet(gone) : IsGathered(o) /\ IsAnchor(o) /\ o.id = 0
  <2>1. freed \subseteq {"user", "program"}
    BY DEF Deletions, Key
  <2> QED
    BY <2>1, FactsOfFiles
<1> HIDE DEF here, gone
<1>8. met \in Seq(Observation) /\ Distinct(met) /\ ToSet(met) = ToSet(observations) \cup ToSet(here)
  BY <1>6, ConcatIs DEF IInv, Shape, Accounted
<1> HIDE DEF met
<1>9. /\ observations' \in Seq(Observation) /\ Distinct(observations')
      /\ ToSet(observations') = ToSet(observations) \cup ToSet(here) \cup ToSet(gone)
  <2>1. observations' = met \o gone
    BY <1>2 DEF met, here, gone
  <2> QED
    BY <1>7, <1>8, <2>1, ConcatIs
<1>10. Ids(observations') = Ids(observations)
  <2>1. Ids(observations') = { o.id : o \in ToSet(observations) \cup ToSet(here) \cup ToSet(gone) } \ {0}
    BY <1>9, IdsAre
  <2>2. Ids(observations) = { o.id : o \in ToSet(observations) } \ {0}
    BY IdsAre
  <2> QED
    BY <1>6, <1>7, <2>1, <2>2
<1>11. Shape'
  BY <1>3, <1>4, <1>9 DEF IInv, Shape, Gathering
<1>12. InItsTime'
  BY <1>3, <1>4 DEF IInv, InItsTime, ArtifactStages, Judging
<1>13. Gathered'
  BY <1>3, <1>6, <1>7, <1>9 DEF IInv, Gathered, IsGathered, ArtifactStages
<1>14. (Judged = {})' /\ OfTheirKey' /\ Scored' /\ LinkedMutually' /\ PresentFilesAreKnownPresent'
  BY <1>3, <1>4, NoCandidatesYet DEF Judging
<1>15. Accounted'
  <2>1. Judged = {}
    BY <1>4 DEF Judged
  <2> QED
    BY <1>3, <1>4, <1>9, <1>10, <1>14, <2>1 DEF IInv, Accounted, DroppedIds
<1>16. Anchored'
  <2>1. \A o \in ToSet(observations) :
          \E q \in ToSet(observations) : q.key = o.key /\ IsAnchor(q)
    BY <1>3 DEF IInv, Anchored
  <2> QED
    BY <1>3, <1>4, <1>6, <1>7, <1>9, <2>1 DEF Anchored
<1>17. LookedFor'
  <2>1. Keys(observations) \cup Keys(deferred.av) \cup Keys(deferred.values) \subseteq referenced
    BY <1>3 DEF IInv, LookedFor
  <2>2. \A k \in emitted : Present(k)'
    <3>1. \A k \in emitted : \E q \in ToSet(here) : q.key = k
      BY <1>6, KeysAre
    <3> QED
      BY <1>6, <1>9, <3>1 DEF Present
  <2>3. \A o \in ToSet(observations) \cup ToSet(deferred.av) \cup ToSet(deferred.values) :
          o.key \in referenced
    BY <2>1, KeysAre
  <2>4. walked' => \A o \in ToSet(observations) \cup ToSet(deferred.av) \cup ToSet(deferred.values) :
          o.key \in files => Present(o.key)'
    BY <1>5, <2>2, <2>3
  <2>5. \A o \in ToSet(observations') : Named(o) => o \in ToSet(observations)
    BY <1>6, <1>7, <1>9 DEF Named
  <2> QED
    BY <1>3, <2>4, <2>5 DEF LookedFor, Named
<1>18. DetectionOfAFileHereIsKept'
  BY <1>3, <1>4 DEF DetectionOfAFileHereIsKept
<1> QED
  BY <1>11, <1>12, <1>13, <1>14, <1>15, <1>16, <1>17, <1>18 DEF IInv

(* What comes back is what somebody else named.                             *)
LEMMA RejoinIs ==
    ASSUME NEW obs \in Seq(Observation), Distinct(obs),
           NEW aside \in Seq(Observation), Distinct(aside), Ids(obs) \cap Ids(aside) = {}
    PROVE  LET t == Rejoin(obs, aside)
           IN /\ t \in Seq(Observation) /\ Distinct(t) /\ Keys(t) = Keys(obs)
              /\ ToSet(t) = ToSet(obs) \cup { o \in ToSet(aside) : o.key \in Keys(obs) }
              /\ Ids(t) \subseteq Ids(obs) \cup Ids(aside)
<1> DEFINE back == { o \in ToSet(aside) : o.key \in Keys(obs) }
           t == Rejoin(obs, aside)
<1>1. t = obs \o Those(aside, back)
  BY DEF Rejoin, Select
<1>2. ToSet(aside) \cap back = back
  OBVIOUS
<1>3. \A o \in back : o \in ToSet(aside) /\ o.key \in Keys(obs)
  OBVIOUS
<1> HIDE DEF t, back
<1>4. /\ Those(aside, back) \in Seq(Observation) /\ Distinct(Those(aside, back))
      /\ ToSet(Those(aside, back)) = back
  BY <1>2, SelectionIs
<1>5. Ids(Those(aside, back)) \subseteq Ids(aside)
  BY <1>3, <1>4, IdsAre
<1>6. t \in Seq(Observation) /\ ToSet(t) = ToSet(obs) \cup back /\ Distinct(t)
  BY <1>1, <1>4, <1>5, ConcatIs
<1>7. Keys(t) = Keys(obs)
  BY <1>3, <1>6, KeysAre
<1>8. Ids(t) \subseteq Ids(obs) \cup Ids(aside)
  <2>1. Ids(t) = { o.id : o \in ToSet(obs) \cup back } \ {0}
    BY <1>6, IdsAre
  <2>2. Ids(obs) = { o.id : o \in ToSet(obs) } \ {0} /\ Ids(aside) = { o.id : o \in ToSet(aside) } \ {0}
    BY IdsAre
  <2> QED
    BY <1>3, <2>1, <2>2
<1> QED
  BY <1>6, <1>7, <1>8 DEF t, back

(* What comes back keeps its id, what does not is dropped with it.          *)
LEMMA ReattachKeeps ==
    ASSUME IInv, Reattach PROVE IInv'
<1> DEFINE com == deferred.com
           av == deferred.av
           values == deferred.values
           first == Rejoin(observations, com)
           second == Rejoin(first, av)
           aside == ToSet(com) \cup ToSet(av) \cup ToSet(values)
<1>1. /\ stage = "reattach" /\ stage' = "junctions"
      /\ observations' = Rejoin(second, values)
      /\ dropped' = { o \in ToSet(com \o av \o values) : o.id \notin Ids(observations') }
      /\ deferred' = [com |-> << >>, av |-> << >>, values |-> << >>]
      /\ UNCHANGED << files, spilled, junction, walked, candidates, hash, disputed,
                      evidence, window, harvested, withheld >>
  BY StageOrder DEF Reattach, At, Settle, volume, judged
<1>2. dropped = {} /\ DOMAIN candidates = {} /\ window = FALSE
  BY <1>1 DEF IInv, InItsTime, Judging
<1>3. /\ observations \in Seq(Observation) /\ Distinct(observations)
      /\ com \in Seq(Observation) /\ Distinct(com)
      /\ av \in Seq(Observation) /\ Distinct(av)
      /\ values \in Seq(Observation) /\ Distinct(values)
  BY DEF IInv, Shape, Accounted
<1>4. /\ Ids(observations) \cup Ids(com) \cup Ids(av) \cup Ids(values) \cup withheld = 1..harvested
      /\ Ids(observations) \cap Ids(com) = {} /\ Ids(observations) \cap Ids(av) = {}
      /\ Ids(observations) \cap Ids(values) = {} /\ Ids(observations) \cap withheld = {}
      /\ Ids(com) \cap Ids(av) = {} /\ Ids(com) \cap Ids(values) = {} /\ Ids(com) \cap withheld = {}
      /\ Ids(av) \cap Ids(values) = {} /\ Ids(av) \cap withheld = {}
      /\ Ids(values) \cap withheld = {}
  BY <1>2 DEF IInv, Accounted, Apart, DroppedIds, Judged
<1>5. /\ \A o \in ToSet(com) : IsGathered(o) /\ o.id # 0 /\ IsDeferrableCom(o)
      /\ \A o \in ToSet(av) : IsGathered(o) /\ o.id # 0 /\ IsDetection(o)
      /\ \A o \in ToSet(values) : IsGathered(o) /\ o.id # 0 /\ IsDeletedValue(o)
      /\ \A o \in ToSet(observations) : IsGathered(o)
  BY DEF IInv, Gathered
<1> HIDE DEF com, av, values
<1>6. ToSet(com \o av \o values) = aside
  <2> DEFINE both == com \o av
  <2>1. both \in Seq(Observation) /\ ToSet(both) = ToSet(com) \cup ToSet(av)
    BY <1>3, ConcatIs
  <2> HIDE DEF both
  <2>2. ToSet(both \o values) = ToSet(both) \cup ToSet(values)
    BY <1>3, <2>1, ConcatIs
  <2> QED
    BY <2>1, <2>2 DEF both
<1>7. /\ first \in Seq(Observation) /\ Distinct(first) /\ Keys(first) = Keys(observations)
      /\ ToSet(first) = ToSet(observations)
                          \cup { o \in ToSet(com) : o.key \in Keys(observations) }
      /\ Ids(first) \subseteq Ids(observations) \cup Ids(com)
  BY <1>3, <1>4, RejoinIs
<1> HIDE DEF first
<1>8. /\ second \in Seq(Observation) /\ Distinct(second) /\ Keys(second) = Keys(first)
      /\ ToSet(second) = ToSet(first) \cup { o \in ToSet(av) : o.key \in Keys(first) }
      /\ Ids(second) \subseteq Ids(first) \cup Ids(av)
  <2>1. Ids(first) \cap Ids(av) = {}
    BY <1>4, <1>7
  <2> QED
    BY <1>3, <1>7, <2>1, RejoinIs
<1> HIDE DEF second
<1>9. /\ observations' \in Seq(Observation) /\ Distinct(observations')
      /\ Keys(observations') = Keys(second)
      /\ ToSet(observations') = ToSet(second) \cup { o \in ToSet(values) : o.key \in Keys(second) }
      /\ Ids(observations') \subseteq Ids(second) \cup Ids(values)
  <2>1. Ids(second) \cap Ids(values) = {}
    BY <1>4, <1>7, <1>8
  <2> QED
    BY <1>1, <1>3, <1>8, <2>1, RejoinIs
<1>10. /\ Keys(observations') = Keys(observations)
       /\ ToSet(observations') = ToSet(observations)
                                   \cup { o \in aside : o.key \in Keys(observations) }
       /\ Ids(observations') \subseteq Ids(observations) \cup Ids(com) \cup Ids(av) \cup Ids(values)
  BY <1>7, <1>8, <1>9
<1>11. \A o \in aside : IsGathered(o) /\ o.id # 0
  BY <1>5
<1>12. dropped' = { o \in aside : o.id \notin Ids(observations') }
  BY <1>1, <1>6
<1>13. /\ Ids(com) \cup Ids(av) \cup Ids(values) = { o.id : o \in aside }
  BY <1>11, IdsAre
<1>14. Ids(observations) \subseteq Ids(observations')
  BY <1>10, IdsAre
<1> HIDE DEF aside
<1>15. /\ Ids(observations') \cup DroppedIds' \cup withheld = 1..harvested
       /\ Ids(observations') \cap DroppedIds' = {}
       /\ Ids(observations') \cap withheld = {} /\ DroppedIds' \cap withheld = {}
  <2>1. DroppedIds' = { o.id : o \in aside } \ Ids(observations')
    BY <1>12 DEF DroppedIds
  <2> QED
    BY <1>4, <1>10, <1>13, <1>14, <2>1
<1>16. Shape'
  BY <1>1, <1>2, <1>9 DEF IInv, Shape, Gathering
<1>17. InItsTime'
  BY <1>1, <1>2 DEF IInv, InItsTime, ArtifactStages, Judging
<1>18. Gathered'
  BY <1>1, <1>5, <1>10, <1>11, NothingIs DEF Gathered, IsGathered, ArtifactStages
<1>19. (Judged = {})' /\ OfTheirKey' /\ Scored' /\ LinkedMutually' /\ PresentFilesAreKnownPresent'
  BY <1>1, <1>2, NoCandidatesYet DEF Judging
<1>20. Accounted'
  BY <1>1, <1>2, <1>9, <1>15, <1>19, NothingIs DEF Accounted, Apart
<1>21. \A o \in ToSet(observations') : \E q \in ToSet(observations) : q.key = o.key
  <2>1. \A o \in ToSet(observations') : o.key \in Keys(observations)
    BY <1>10, KeysAre
  <2> QED
    BY <2>1, KeysAre
<1>22. Anchored'
  <2>1. \A o \in ToSet(observations) :
          \E q \in ToSet(observations) : q.key = o.key /\ IsAnchor(q)
    BY <1>1 DEF IInv, Anchored
  <2>2. \A o \in ToSet(observations') :
          \E q \in ToSet(observations') : q.key = o.key /\ IsAnchor(q)
    BY <1>10, <1>21, <2>1
  <2> QED
    BY <1>1, <1>2, <2>2 DEF Anchored
<1>23. LookedFor'
  <2>1. walked => \A o \in ToSet(observations) \cup ToSet(av) \cup ToSet(values) :
          Named(o) /\ o.key \in files => Present(o.key)
    BY <1>1 DEF IInv, LookedFor, av, values
  <2>2. \A k : Present(k) => Present(k)'
    BY <1>10 DEF Present
  <2>3. \A o \in ToSet(observations') : Named(o) =>
          o \in ToSet(observations) \cup ToSet(av) \cup ToSet(values)
    BY <1>5, <1>10 DEF Named, aside
  <2>4. walked => \A o \in ToSet(observations') : Named(o) /\ o.key \in files => Present(o.key)'
    BY <2>1, <2>2, <2>3
  <2> QED
    BY <1>1, <2>4 DEF LookedFor, Named
<1>24. DetectionOfAFileHereIsKept'
  <2> SUFFICES ASSUME walked, NEW o \in dropped', IsDetection(o), o.key \in files
               PROVE  FALSE
    BY <1>1 DEF DetectionOfAFileHereIsKept
  <2>1. o \in ToSet(av)
    BY <1>5, <1>12 DEF aside, IsDetection, IsDeletedValue, IsDeferrableCom
  <2>2. Present(o.key)
    BY <1>1, <2>1 DEF IInv, LookedFor, av
  <2>3. o.key \in Keys(observations)
    BY <2>2, KeysAre DEF Present
  <2>4. o \in ToSet(observations')
    BY <1>10, <1>12, <2>3
  <2>5. o.id \in Ids(observations')
    BY <1>5, <2>1, <2>4, IdsAre
  <2> QED
    BY <1>12, <2>5
<1> QED
  BY <1>16, <1>17, <1>18, <1>19, <1>20, <1>22, <1>23, <1>24 DEF IInv

(* translate(): whatever is spelled through the junction is spelled anew,   *)
(* and the file behind it is known to be there.                             *)
Moved(o) == IF Translates(o) THEN [o EXCEPT !.key = "program"] ELSE o

(* Translating a path changes the key, and nothing else.                    *)
LEMMA MovedIs ==
    ASSUME IInv, NEW moved,
           moved = [i \in DOMAIN observations |-> Moved(observations[i])]
    PROVE  /\ moved \in Seq(Observation) /\ Ids(moved) = Ids(observations) /\ Distinct(moved)
           /\ ToSet(moved) = { Moved(o) : o \in ToSet(observations) }
           /\ \A o \in ToSet(moved) : IsGathered(o)
<1>1. \A o \in Observation : Moved(o) \in Observation /\ Moved(o).id = o.id
  BY DEF Moved, Observation, Key
<1>2. /\ observations \in Seq(Observation) /\ Distinct(observations)
      /\ \A i \in DOMAIN observations : observations[i] \in Observation
  BY DEF IInv, Shape, Accounted
<1>3. /\ moved = [i \in DOMAIN observations |-> moved[i]]
      /\ \A i \in DOMAIN observations : moved[i] = Moved(observations[i])
  OBVIOUS
<1>4. \A i \in DOMAIN observations : moved[i] \in Observation /\ moved[i].id = observations[i].id
  BY <1>1, <1>2, <1>3
<1>5. moved \in Seq(Observation) /\ Ids(moved) = Ids(observations) /\ Distinct(moved)
  BY <1>2, <1>3, <1>4, MapIs
<1>6. ToSet(moved) = { Moved(o) : o \in ToSet(observations) }
  BY <1>3 DEF ToSet
<1>7. \A o \in ToSet(observations) : IsGathered(o) /\ o \in Observation
  BY <1>2, ElementsAre DEF IInv, Gathered
<1>8. \A o \in ToSet(observations) : IsGathered(Moved(o))
  BY <1>7 DEF Moved, IsGathered, Translates, Observation
<1> QED
  BY <1>5, <1>6, <1>8

(* A path through a junction is told of as the file it leads to.            *)
LEMMA JunctionsKeep ==
    ASSUME IInv, CanonicalizeThroughJunctions PROVE IInv'
<1> DEFINE obs == ToSet(observations)
           moved == [i \in DOMAIN observations |-> Moved(observations[i])]
           translated == { o \in obs : Translates(o) }
           crossed == { Canonical[k] : k \in Keys(Those(observations, translated)) }
           seen == { o \in ToSet(moved) : o.by = "$MFT" }
           more == (crossed \ Keys(Those(moved, seen))) \ spilled
           found == Facts("exists", more)
<1>1. /\ stage = "junctions" /\ stage' = "USN"
      /\ UNCHANGED << files, spilled, junction, walked, deferred, candidates, hash, disputed,
                      evidence, window, harvested, withheld, dropped >>
  BY StageOrder DEF CanonicalizeThroughJunctions, At, Settle, volume, judged, past
<1>2. observations' = moved \o found
  <2>1. moved = [i \in DOMAIN observations |->
                   IF Translates(observations[i])
                   THEN [observations[i] EXCEPT !.key = Canonical[@]]
                   ELSE observations[i]]
    <3>1. \A i \in DOMAIN observations : Translates(observations[i]) =>
            [observations[i] EXCEPT !.key = Canonical[@]] = [observations[i] EXCEPT !.key = "program"]
      BY DEF Translates, Canonical, Key
    <3> QED
      BY <3>1 DEF Moved
  <2>2. observations' = WithFacts(moved, crossed)
    BY <2>1 DEF CanonicalizeThroughJunctions, Select
  <2> HIDE DEF moved, crossed
  <2> QED
    BY <2>2 DEF WithFacts, Select
<1>3. /\ moved \in Seq(Observation) /\ Ids(moved) = Ids(observations) /\ Distinct(moved)
      /\ ToSet(moved) = { Moved(o) : o \in obs }
      /\ \A o \in ToSet(moved) : IsGathered(o)
  BY MovedIs
<1>4. DOMAIN candidates = {} /\ window = FALSE
  BY <1>1 DEF IInv, InItsTime, Judging
<1>5. /\ files \subseteq {"user", "program"} /\ spilled \subseteq files
      /\ \A o \in obs : IsGathered(o) /\ o \in Observation
  BY ElementsAre DEF IInv, Shape, Gathered
<1>6. ToSet(Those(observations, translated)) = translated
  BY SelectionIs DEF IInv, Shape, Accounted
<1>7. crossed = { Canonical[o.key] : o \in translated }
  BY <1>6, KeysAre
<1>8. /\ crossed \subseteq {"program"} \cap files
      /\ \A o \in obs : Translates(o) => "program" \in crossed
      /\ crossed # {} => junction
  BY <1>7 DEF Translates, Canonical, Key
<1>9. \A k \in crossed : k = "program" /\ LedTo(k)
  BY <1>8 DEF LedTo, Key, Canonical
<1> HIDE DEF moved, crossed
<1>10. ToSet(Those(moved, seen)) = seen
  BY <1>3, SelectionIs
<1>11. more \subseteq {"user", "program"}
  BY <1>5, <1>8
(* Behind a path that was crossed to, there is a file, and unless its record*)
(* does not tell, something the walk found of its path.                     *)
<1>12. \A k \in crossed \ more : k \in spilled \/ \E q \in ToSet(moved) : q.by = "$MFT" /\ q.key = k
  BY <1>10, KeysAre
<1> HIDE DEF more
<1>13. /\ found \in Seq(Observation) /\ Ids(found) = {} /\ Distinct(found) /\ Keys(found) = more
       /\ \A o \in ToSet(found) :
            IsGathered(o) /\ IsAnchor(o) /\ o.id = 0 /\ o.kind = "exists"
  BY <1>11, FactsOfFiles
<1> HIDE DEF found
<1>14. /\ observations' \in Seq(Observation) /\ Distinct(observations')
       /\ ToSet(observations') = ToSet(moved) \cup ToSet(found)
  BY <1>2, <1>3, <1>13, ConcatIs
<1>15. Ids(observations') = Ids(observations)
  <2>1. Ids(observations') = Ids(moved) \cup Ids(found)
    BY <1>14, IdsAre
  <2> QED
    BY <1>3, <1>13, <2>1
<1>16. \A k \in crossed :
         \/ k \in spilled
         \/ \E q \in ToSet(observations') :
              q.key = k /\ IsAnchor(q)
                /\ (q.kind = "exists" \/ (q.by = "$MFT" /\ q.kind = "deleted"))
  <2>1. \A k \in more : \E q \in ToSet(found) : q.key = k
    BY <1>13, KeysAre
  <2>2. \A q \in ToSet(moved) : q.by = "$MFT" => q.kind \in {"exists", "deleted"}
    BY <1>3 DEF IsGathered
  <2>3. \A q : q.kind \in {"exists", "deleted"} => IsAnchor(q)
    BY DEF IsAnchor, IsKept, IsDetection, IsDeletedValue, IsDeferrableCom
  <2> SUFFICES ASSUME NEW k \in crossed, k \notin spilled
               PROVE  \E q \in ToSet(observations') :
                        q.key = k /\ IsAnchor(q)
                          /\ (q.kind = "exists" \/ (q.by = "$MFT" /\ q.kind = "deleted"))
    OBVIOUS
  <2>4. CASE k \in more
    BY <1>13, <1>14, <2>1, <2>4
  <2>5. CASE k \notin more
    <3>1. PICK q \in ToSet(moved) : q.by = "$MFT" /\ q.key = k
      BY <1>12, <2>5
    <3>2. q.kind \in {"exists", "deleted"} /\ IsAnchor(q) /\ q \in ToSet(observations')
      BY <1>14, <2>2, <2>3, <3>1
    <3> QED
      BY <3>1, <3>2
  <2> QED
    BY <2>4, <2>5
(* What is left of a path was not spelled through a junction.               *)
<1>17. \A o, q \in obs : q.key = o.key => (Translates(o) <=> Translates(q))
  BY <1>5 DEF Translates, IsGathered
<1>18. \A o \in obs : ~Translates(o) => o \in ToSet(observations')
  BY <1>3, <1>14 DEF Moved
<1>19. \A o \in obs : Translates(o) =>
         /\ Moved(o) \in ToSet(observations') /\ Moved(o).key = "program"
         /\ Moved(o).id = o.id /\ Moved(o).kind = o.kind
  BY <1>3, <1>5, <1>14 DEF Moved, Observation
<1>20. \A n \in ToSet(observations') :
         \/ n \in ToSet(found)
         \/ \E o \in obs : Translates(o) /\ n = Moved(o)
         \/ n \in obs /\ ~Translates(n)
  BY <1>3, <1>14 DEF Moved
<1>21. Shape'
  BY <1>1, <1>4, <1>14 DEF IInv, Shape, Gathering
<1>22. InItsTime'
  BY <1>1, <1>4 DEF IInv, InItsTime, ArtifactStages, Judging
<1>23. Gathered'
  BY <1>1, <1>3, <1>13, <1>14 DEF IInv, Gathered, IsGathered, ArtifactStages
<1>24. (Judged = {})' /\ OfTheirKey' /\ Scored' /\ LinkedMutually' /\ PresentFilesAreKnownPresent'
  BY <1>1, <1>4, NoCandidatesYet DEF Judging
<1>25. Accounted'
  <2>1. Judged = {}
    BY <1>4 DEF Judged
  <2> QED
    BY <1>1, <1>4, <1>14, <1>15, <1>24, <2>1 DEF IInv, Accounted, DroppedIds
<1>26. \A n \in ToSet(observations') : \E q \in ToSet(observations') : q.key = n.key /\ Stands(q)
  <2> SUFFICES ASSUME NEW n \in ToSet(observations')
               PROVE  \E q \in ToSet(observations') : q.key = n.key /\ Stands(q)
    OBVIOUS
  <2>1. CASE n \in ToSet(found)
    BY <1>13, <2>1 DEF IsAnchor, Stands
  <2>2. CASE \E o \in obs : Translates(o) /\ n = Moved(o)
    <3>1. PICK o \in obs : Translates(o) /\ n = Moved(o)
      BY <2>2
    <3>2. n.key = "program" /\ "program" \in crossed
      BY <1>8, <1>19, <3>1
    <3>3. CASE \E q \in ToSet(observations') : q.key = "program" /\ IsAnchor(q)
      BY <3>2, <3>3 DEF IsAnchor, Stands
    <3>4. CASE "program" \in spilled
      <4>1. PICK q \in obs : q.key = o.key /\ IsAnchor(q)
        BY <1>1, <3>1 DEF IInv, Anchored
      <4>2. Translates(q)
        BY <1>17, <3>1, <4>1
      <4>3. /\ Moved(q) \in ToSet(observations') /\ Moved(q).key = "program"
            /\ Moved(q).kind = q.kind
        BY <1>19, <4>2
      <4>4. IsKept(Moved(q))
        BY <4>1, <4>3 DEF IsAnchor, IsKept, IsDetection, IsDeletedValue
      <4>5. Unread("program")
        BY <1>9, <3>2, <3>4 DEF Unread
      <4> QED
        BY <3>2, <4>3, <4>4, <4>5 DEF Stands
    <3> QED
      BY <1>16, <3>2, <3>3, <3>4
  <2>3. CASE n \in obs /\ ~Translates(n)
    <3>1. PICK q \in obs : q.key = n.key /\ IsAnchor(q)
      BY <1>1, <2>3 DEF IInv, Anchored
    <3>2. q \in ToSet(observations')
      BY <1>17, <1>18, <2>3, <3>1
    <3> QED
      BY <3>1, <3>2 DEF IsAnchor, Stands
  <2> QED
    BY <1>20, <2>1, <2>2, <2>3
<1>27. Anchored'
  BY <1>1, <1>4, <1>26 DEF Anchored, Stands, Unread, LedTo
<1>28. ASSUME walked, NEW n \in ToSet(observations'), Named(n), Spelled(n.key) \in files
       PROVE  Present(n.key)' \/ (LedTo(n.key) /\ (n.key \in spilled \/ Freed(n.key)'))
  <2>1. n \notin ToSet(found)
    BY <1>13, <1>28 DEF Named
  <2>2. CASE \E o \in obs : Translates(o) /\ n = Moved(o)
    <3>1. n.key = "program" /\ n.key \in crossed
      BY <1>8, <1>19, <2>2
    <3>2. \/ n.key \in spilled
          \/ \E q \in ToSet(observations') :
               q.key = n.key /\ (q.kind = "exists" \/ (q.by = "$MFT" /\ q.kind = "deleted"))
      BY <1>16, <3>1
    <3> QED
      BY <1>9, <3>1, <3>2 DEF Present, Freed
  <2>3. CASE n \in obs /\ ~Translates(n)
    <3>1. n.by # "$MFT" /\ n.key \in Key
      BY <1>5, <1>28, <2>3 DEF Named, IsGathered, Observation
    <3>2. n.key \in files
      BY <1>28, <2>3, <3>1 DEF Spelled, Canonical, Key, Translates
    <3>3. PICK q \in obs : q.key = n.key /\ q.kind = "exists"
      BY <1>1, <1>28, <2>3, <3>2 DEF IInv, LookedFor, Present
    <3> QED
      BY <1>17, <1>18, <2>3, <3>3 DEF Present
  <2> QED
    BY <1>20, <2>1, <2>2, <2>3
<1>30. LookedFor'
  BY <1>1, <1>28 DEF LookedFor, Spelled, LedTo, Named
<1>29. DetectionOfAFileHereIsKept'
  BY <1>1 DEF IInv, DetectionOfAFileHereIsKept
<1> QED
  BY <1>21, <1>22, <1>23, <1>24, <1>25, <1>27, <1>29, <1>30 DEF IInv

(* The journal speaks of paths that are known already.                      *)
LEMMA JournalKeeps ==
    ASSUME IInv, HarvestUsnJournal PROVE IInv'
<1>1. /\ stage = "USN" /\ stage' = "scoring"
      /\ UNCHANGED << files, spilled, junction, walked, deferred, candidates, hash, disputed,
                      evidence, window, harvested, withheld, dropped >>
  BY StageOrder DEF HarvestUsnJournal, At, Settle, volume, judged, past
<1>2. PICK gone \in Deletions(Keys(observations) \ KnownPresent(observations)) :
         observations' = observations \o SetToSeq({ About("USN", "deleted", k) : k \in gone })
  BY DEF HarvestUsnJournal
<1> DEFINE more == SetToSeq({ About("USN", "deleted", k) : k \in gone })
<1>3. /\ more \in Seq(Observation) /\ Ids(more) = {} /\ Distinct(more)
      /\ \A o \in ToSet(more) :
           IsGathered(o) /\ IsAnchor(o) /\ o.id = 0 /\ o.key \in Keys(observations)
  <2>1. gone \subseteq Keys(observations)
    BY DEF Deletions
  <2>2. gone \subseteq Key
    <3>1. ToSet(observations) \subseteq Observation
      BY ElementsAre DEF IInv, Shape
    <3>2. \A o \in ToSet(observations) : o.key \in Key
      BY <3>1 DEF Observation
    <3> QED
      BY <2>1, <3>2, KeysAre
  <2>3. /\ more \in Seq(Observation) /\ Ids(more) = {} /\ Distinct(more)
        /\ ToSet(more) = { About("USN", "deleted", k) : k \in gone }
    <3>1. "USN" \in Makers /\ "deleted" \in Kinds
      BY DEF Makers, Kinds
    <3> QED
      BY <2>2, <3>1, FactsAre
  <2>4. \A k \in gone : LET o == About("USN", "deleted", k)
                        IN IsGathered(o) /\ IsAnchor(o) /\ o.id = 0 /\ o.key = k
    BY DEF About, IsGathered, IsAnchor, IsKept, IsDetection, IsDeletedValue, IsDeferrableCom
  <2> QED
    BY <2>1, <2>3, <2>4
<1> HIDE DEF more
<1>4. DOMAIN candidates = {} /\ window = FALSE
  BY <1>1 DEF IInv, InItsTime, Judging
<1>5. /\ observations' \in Seq(Observation) /\ Distinct(observations')
      /\ ToSet(observations') = ToSet(observations) \cup ToSet(more)
  BY <1>2, <1>3, ConcatIs DEF IInv, Shape, Accounted, more
<1>6. Ids(observations') = Ids(observations)
  <2>1. Ids(observations') = Ids(observations) \cup Ids(more)
    BY <1>5, IdsAre
  <2> QED
    BY <1>3, <2>1
<1>7. Shape'
  BY <1>1, <1>4, <1>5 DEF IInv, Shape, Gathering
<1>8. InItsTime'
  BY <1>1, <1>4 DEF IInv, InItsTime, ArtifactStages, Judging
<1>9. Gathered'
  BY <1>1, <1>3, <1>5 DEF IInv, Gathered, IsGathered, ArtifactStages
<1>10. (Judged = {})' /\ OfTheirKey' /\ Scored' /\ LinkedMutually' /\ PresentFilesAreKnownPresent'
  BY <1>1, <1>4, NoCandidatesYet DEF Judging
<1>11. Accounted'
  <2>1. Judged = {}
    BY <1>4 DEF Judged
  <2> QED
    BY <1>1, <1>4, <1>5, <1>6, <1>10, <2>1 DEF IInv, Accounted, DroppedIds
<1>12. Anchored'
  <2>1. \A o \in ToSet(observations) :
          \E q \in ToSet(observations) : q.key = o.key /\ Stands(q)
    BY <1>1 DEF IInv, Anchored
  <2>2. \A o \in ToSet(more) : Stands(o)
    BY <1>3 DEF IsAnchor, Stands
  <2>3. \A o \in ToSet(observations') :
          \E q \in ToSet(observations') : q.key = o.key /\ Stands(q)
    BY <1>5, <2>1, <2>2
  <2> QED
    BY <1>1, <1>4, <2>3 DEF Anchored, Stands, Unread, LedTo
<1>13. LookedFor'
  <2>1. walked => \A o \in ToSet(observations) : Named(o) /\ Spelled(o.key) \in files =>
          Present(o.key) \/ (LedTo(o.key) /\ (o.key \in spilled \/ Freed(o.key)))
    BY <1>1 DEF IInv, LookedFor
  <2>2. \A k : (Present(k) => Present(k)') /\ (Freed(k) => Freed(k)')
    BY <1>5 DEF Present, Freed
  <2>3. \A o \in ToSet(observations') : Named(o) => o \in ToSet(observations)
    BY <1>3, <1>5 DEF Named
  <2>4. walked => \A o \in ToSet(observations') : Named(o) /\ Spelled(o.key) \in files =>
          Present(o.key)' \/ (LedTo(o.key) /\ (o.key \in spilled \/ Freed(o.key)'))
    BY <2>1, <2>2, <2>3
  <2> QED
    BY <1>1, <2>4 DEF LookedFor, Spelled, LedTo, Named
<1>14. DetectionOfAFileHereIsKept'
  BY <1>1 DEF IInv, DetectionOfAFileHereIsKept
<1> QED
  BY <1>7, <1>8, <1>9, <1>10, <1>11, <1>12, <1>13, <1>14 DEF IInv

-----------------------------------------------------------------------------
(* link_shared_digests: links are of candidates that agree, go both ways,   *)
(* and replace the links there were; nothing else changes.                  *)
LEMMA LinksAre ==
    ASSUME NEW cs, NEW h, NEW d, DOMAIN cs \subseteq Key,
           \A k \in DOMAIN cs : cs[k] \in Seq(Observation)
    PROVE  LET new == LinkSharedDigests(cs, h, d)
           IN /\ DOMAIN new = DOMAIN cs
              /\ \A k \in DOMAIN cs :
                   /\ new[k] \in Seq(Observation)
                   /\ Distinct(cs[k]) => Distinct(new[k])
                   /\ \A o : ~IsShared(o) => (o \in ToSet(new[k]) <=> o \in ToSet(cs[k]))
                   /\ \A o \in ToSet(new[k]) : IsShared(o) =>
                        /\ o.id = 0 /\ o.key = k
                        /\ \A j \in o.digest :
                             /\ j \in DOMAIN cs /\ h[j] = h[k] /\ ~d[j] /\ ~d[k]
                             /\ \E q \in ToSet(new[j]) : IsShared(q) /\ k \in q.digest
<1> DEFINE linkable == { k \in DOMAIN cs : h[k] # NoDigest /\ ~d[k] }
           others == [k \in DOMAIN cs |->
                        IF k \in linkable THEN { j \in linkable \ {k} : h[j] = h[k] } ELSE {}]
           Link(k) == [About("digests", "shared", k) EXCEPT !.digest = others[k]]
           links(k) == IF others[k] = {} THEN << >> ELSE << Link(k) >>
           unlinked(k) == { o \in ToSet(cs[k]) : ~IsShared(o) }
           new == LinkSharedDigests(cs, h, d)
<1>1. DOMAIN new = DOMAIN cs
      /\ \A k \in DOMAIN cs : new[k] = Those(cs[k], unlinked(k)) \o links(k)
  BY DEF LinkSharedDigests, WithoutLinks, Select
<1>2. \A k \in DOMAIN cs : \A j \in others[k] :
        /\ j \in DOMAIN cs /\ h[j] = h[k] /\ ~d[j] /\ ~d[k] /\ k \in others[j]
  OBVIOUS
<1>3. \A k \in DOMAIN cs : others[k] \subseteq Key
  BY <1>2
<1> HIDE DEF others, new
<1>4. ASSUME NEW k \in DOMAIN cs
      PROVE  /\ Link(k) \in Observation /\ IsShared(Link(k))
             /\ Link(k).id = 0 /\ Link(k).key = k /\ Link(k).digest = others[k]
  <2>1. k \in Key /\ "digests" \in Makers /\ "shared" \in Kinds
    BY DEF Makers, Kinds
  <2> QED
    BY <1>3, <2>1 DEF About, Observation, IsShared
<1> HIDE DEF Link
<1>5. ASSUME NEW k \in DOMAIN cs
      PROVE  /\ links(k) \in Seq(Observation) /\ Distinct(links(k)) /\ Ids(links(k)) = {}
             /\ ToSet(links(k)) = IF others[k] = {} THEN {} ELSE {Link(k)}
  <2>1. CASE others[k] = {}
    BY <2>1, NothingIs
  <2>2. CASE others[k] # {}
    <3>1. links(k) = << Link(k) >>
      BY <2>2
    <3>2. << Link(k) >> \in Seq(Observation) /\ DOMAIN << Link(k) >> = {1} /\ << Link(k) >>[1] = Link(k)
      BY <1>4
    <3> QED
      BY <1>4, <2>2, <3>1, <3>2 DEF ToSet, Ids, Distinct
  <2> QED
    BY <2>1, <2>2
<1> HIDE DEF links
<1>6. ASSUME NEW k \in DOMAIN cs
      PROVE  /\ Those(cs[k], unlinked(k)) \in Seq(Observation)
             /\ Distinct(cs[k]) => Distinct(Those(cs[k], unlinked(k)))
             /\ ToSet(Those(cs[k], unlinked(k))) = unlinked(k)
  <2>1. ToSet(cs[k]) \cap unlinked(k) = unlinked(k)
    OBVIOUS
  <2> QED
    BY <2>1, ThoseAre
<1>7. ASSUME NEW k \in DOMAIN cs
      PROVE  /\ new[k] \in Seq(Observation)
             /\ Distinct(cs[k]) => Distinct(new[k])
             /\ ToSet(new[k]) = unlinked(k) \cup IF others[k] = {} THEN {} ELSE {Link(k)}
  <2> DEFINE rest == Those(cs[k], unlinked(k))
             one == IF others[k] = {} THEN {} ELSE {Link(k)}
  <2>1. /\ rest \in Seq(Observation) /\ ToSet(rest) = unlinked(k)
        /\ Distinct(cs[k]) => Distinct(rest)
    BY <1>6
  <2>2. /\ links(k) \in Seq(Observation) /\ ToSet(links(k)) = one
        /\ Distinct(links(k)) /\ Ids(links(k)) = {}
    BY <1>5
  <2>3. new[k] = rest \o links(k)
    BY <1>1
  <2> HIDE DEF rest, one, unlinked
  <2>4. /\ rest \o links(k) \in Seq(Observation)
        /\ ToSet(rest \o links(k)) = ToSet(rest) \cup ToSet(links(k))
        /\ Distinct(rest) => Distinct(rest \o links(k))
    BY <2>1, <2>2, ConcatIs
  <2> QED
    BY <2>1, <2>2, <2>3, <2>4 DEF one, unlinked
<1>8. ASSUME NEW k \in DOMAIN cs, NEW o \in ToSet(new[k]), IsShared(o)
      PROVE  /\ o.id = 0 /\ o.key = k
             /\ \A j \in o.digest :
                  /\ j \in DOMAIN cs /\ h[j] = h[k] /\ ~d[j] /\ ~d[k]
                  /\ \E q \in ToSet(new[j]) : IsShared(q) /\ k \in q.digest
  <2>1. o = Link(k)
    BY <1>7, <1>8
  <2>2. ASSUME NEW j \in others[k]
        PROVE  \E q \in ToSet(new[j]) : IsShared(q) /\ k \in q.digest
    <3>1. j \in DOMAIN cs /\ k \in others[j]
      BY <1>2
    <3>2. Link(j) \in ToSet(new[j])
      BY <1>7, <3>1
    <3> QED
      BY <1>4, <3>1, <3>2
  <2> QED
    BY <1>2, <1>4, <2>1, <2>2
<1>9. ASSUME NEW k \in DOMAIN cs, NEW o, ~IsShared(o)
      PROVE  o \in ToSet(new[k]) <=> o \in ToSet(cs[k])
  BY <1>4, <1>7, <1>9
<1> QED
  BY <1>1, <1>7, <1>8, <1>9 DEF new

(* What is known to be there.                                               *)
LEMMA KnownPresentIs ==
    ASSUME NEW s \in Seq(Observation)
    PROVE  KnownPresent(s) # {} <=> \E o \in ToSet(s) : o.kind = "exists"
<1> DEFINE here == { o \in ToSet(s) : o.kind = "exists" }
<1>1. ToSet(Those(s, here)) = here
  BY ThoseAre
<1>2. KnownPresent(s) = { o.key : o \in here }
  BY <1>1, KeysAre DEF KnownPresent, Select
<1> QED
  BY <1>2

(* The candidates, from what was gathered.                                  *)
LEMMA BuildKeeps ==
    ASSUME IInv, BuildAndScore PROVE IInv'
<1> DEFINE obs == ToSet(observations)
           named(k) == { o \in obs : o.key = k }
           cs == [k \in Keys(observations) |-> Those(observations, named(k))]
           none == [k \in DOMAIN cs |-> FALSE]
<1>1. /\ stage = "scoring" /\ stage' = "signatures" /\ observations' = << >>
      /\ hash' = [k \in DOMAIN cs |-> RecordedHash(cs[k])] /\ disputed' = none
      /\ candidates' = LinkSharedDigests(cs, hash', disputed')
      /\ evidence' = ExtractAll(candidates', FALSE)
      /\ UNCHANGED << files, spilled, junction, walked, deferred, window, harvested, withheld, dropped >>
  BY StageOrder DEF BuildAndScore, At, Settle, Select, volume, past
<1>2. /\ deferred = [com |-> << >>, av |-> << >>, values |-> << >>]
      /\ DOMAIN candidates = {} /\ window = FALSE
  BY <1>1 DEF IInv, InItsTime, Shape, Judging
<1>3. observations \in Seq(Observation) /\ Distinct(observations) /\ obs \subseteq Observation
  BY ElementsAre DEF IInv, Shape, Accounted
<1>4. DOMAIN cs = Keys(observations) /\ Keys(observations) = { o.key : o \in obs }
  BY KeysAre
<1>5. DOMAIN cs \subseteq Key
  <2>1. \A o \in obs : o.key \in Key
    BY <1>3 DEF Observation
  <2> QED
    BY <1>4, <2>1
<1>6. ASSUME NEW k \in DOMAIN cs
      PROVE  cs[k] \in Seq(Observation) /\ Distinct(cs[k]) /\ ToSet(cs[k]) = named(k)
  <2>1. cs[k] = Those(observations, named(k)) /\ obs \cap named(k) = named(k)
    BY <1>4
  <2> HIDE DEF named, cs
  <2> QED
    BY <1>3, <2>1, SelectionIs
<1>7. \A o \in named("user") \cup named("program") \cup named("alias") : o \in obs
  OBVIOUS
<1> HIDE DEF cs, none
<1>8. /\ DOMAIN candidates' = DOMAIN cs
      /\ \A k \in DOMAIN cs :
           /\ candidates'[k] \in Seq(Observation) /\ Distinct(candidates'[k])
           /\ \A o : ~IsShared(o) => (o \in ToSet(candidates'[k]) <=> o \in named(k))
           /\ \A o \in ToSet(candidates'[k]) : IsShared(o) => o.id = 0 /\ o.key = k
  <2> HIDE DEF named
  <2> QED
    BY <1>1, <1>5, <1>6, LinksAre
<1>9. \A o \in obs : IsGathered(o) /\ ~IsShared(o)
  BY DEF IInv, Gathered, IsGathered, IsShared
<1>10. \A k \in DOMAIN cs : \A o \in named(k) : o \in ToSet(candidates'[k])
  BY <1>8, <1>9
<1>11. \A k \in DOMAIN cs : \A o \in ToSet(candidates'[k]) : o \in named(k) \/ o.id = 0
  BY <1>8
<1>12. \A k \in DOMAIN cs : Ids(candidates'[k]) = { o.id : o \in named(k) } \ {0}
  <2> SUFFICES ASSUME NEW k \in DOMAIN cs
               PROVE  Ids(candidates'[k]) = { o.id : o \in named(k) } \ {0}
    OBVIOUS
  <2>1. Ids(candidates'[k]) = { o.id : o \in ToSet(candidates'[k]) } \ {0}
    BY IdsAre
  <2> HIDE DEF named
  <2> QED
    BY <1>10, <1>11, <2>1
<1>13. Judged' = Ids(observations)
  <2>1. Ids(observations) = { o.id : o \in obs } \ {0}
    BY IdsAre
  <2>2. \A n \in Judged' : \E k \in DOMAIN cs : n \in Ids(candidates'[k])
    BY <1>8 DEF Judged
  <2>3. \A k \in DOMAIN cs : \A n \in Ids(candidates'[k]) : n \in Judged'
    BY <1>8 DEF Judged
  <2>4. \A o \in obs : o.id # 0 => o.id \in Judged'
    <3>1. \A o \in obs : o.key \in DOMAIN cs /\ o \in named(o.key)
      BY <1>4
    <3> QED
      BY <1>12, <2>3, <3>1
  <2>5. \A k \in DOMAIN cs : \A n \in Ids(candidates'[k]) : n \in Ids(observations)
    BY <1>12, <2>1
  <2> QED
    BY <2>1, <2>2, <2>4, <2>5
<1>14. Shape'
  BY <1>1, <1>2, <1>5, <1>8 DEF IInv, Shape, Judging
<1>15. InItsTime'
  BY <1>1, <1>2 DEF IInv, InItsTime, ArtifactStages, Judging
<1>16. Gathered'
  BY <1>1, <1>2, NothingIs DEF Gathered, ArtifactStages
<1>17. Accounted'
  <2>1. Judged = {}
    BY <1>2 DEF Judged
  <2>2. \A k \in DOMAIN candidates' : Distinct(candidates'[k])
    BY <1>8
  <2> QED
    BY <1>1, <1>2, <1>13, <2>1, <2>2, NothingIs DEF IInv, Accounted, Apart, DroppedIds
<1>18. Anchored'
  <2>1. ASSUME NEW k \in DOMAIN cs
        PROVE  \E p \in ToSet(candidates'[k]) : IsGathered(p) /\ Stands(p)
    <3>1. PICK o \in obs : o.key = k
      BY <1>4
    <3>2. PICK p \in obs : p.key = k /\ Stands(p)
      BY <1>1, <3>1 DEF IInv, Anchored
    <3>3. p \in named(k)
      BY <3>2
    <3> QED
      BY <1>9, <1>10, <3>2, <3>3
  <2> QED
    BY <1>1, <1>8, <2>1 DEF Anchored, IsGathered, Stands, Unread, LedTo
<1>19. LookedFor' /\ DetectionOfAFileHereIsKept'
  BY <1>1 DEF IInv, LookedFor, DetectionOfAFileHereIsKept
<1>20. PresentFilesAreKnownPresent'
  <2>1. ASSUME walked, NEW k \in DOMAIN cs, Spelled(k) \in files, NamedByAnArtifact(k)'
        PROVE  KnownPresent(candidates'[k]) # {} \/ (LedTo(k) /\ (k \in spilled \/ RecordedFreed(k)'))
    <3>1. \E o \in ToSet(candidates'[k]) : o.id # 0 /\ ~IsDeferrableCom(o)
      BY <2>1 DEF NamedByAnArtifact, ToSet
    <3>2. PICK o \in obs : o.key = k /\ Named(o)
      BY <1>11, <3>1 DEF Named
    <3>3. Present(k) \/ (LedTo(k) /\ (k \in spilled \/ Freed(k)))
      BY <1>1, <2>1, <3>2 DEF IInv, LookedFor
    <3>4. ASSUME Present(k) PROVE KnownPresent(candidates'[k]) # {}
      <4>1. PICK p \in obs : p.key = k /\ p.kind = "exists"
        BY <3>4 DEF Present
      <4>2. p \in ToSet(candidates'[k])
        BY <1>10, <4>1
      <4> QED
        BY <1>8, <4>1, <4>2, KnownPresentIs
    <3>5. ASSUME Freed(k) PROVE RecordedFreed(k)'
      <4>1. PICK p \in obs : p.key = k /\ p.by = "$MFT" /\ p.kind = "deleted"
        BY <3>5 DEF Freed
      <4>2. p \in ToSet(candidates'[k])
        BY <1>10, <4>1
      <4> QED
        BY <4>1, <4>2 DEF RecordedFreed, ToSet
    <3> QED
      BY <3>3, <3>4, <3>5
  <2>2. DOMAIN candidates' = DOMAIN cs
    BY <1>8
  <2>3. \A k : Spelled(k)' = Spelled(k) /\ LedTo(k)' = LedTo(k)
    BY <1>1 DEF Spelled, LedTo
  <2> QED
    BY <1>1, <2>1, <2>2, <2>3 DEF PresentFilesAreKnownPresent
<1>21. OfTheirKey'
  <2>1. \A k \in DOMAIN cs : \A o \in ToSet(candidates'[k]) : o.key = k /\ (IsShared(o) => o.id = 0)
    BY <1>8
  <2> QED
    BY <1>8, <2>1 DEF OfTheirKey
<1>22. Scored'
  BY <1>1, <1>2, <1>8 DEF Scored, ExtractAll, Extract, none
<1>23. LinkedMutually'
  BY <1>1 DEF LinkedMutually, Done, At
<1> QED
  BY <1>14, <1>15, <1>16, <1>17, <1>18, <1>19, <1>20, <1>21, <1>22, <1>23 DEF IInv

-----------------------------------------------------------------------------
(* What a stage may do to the candidates: links and facts without an id     *)
(* come and go, what was gathered of each stays.                            *)
StillOf(k, after) ==
    /\ after \in Seq(Observation) /\ Distinct(after)
    /\ \A o \in ToSet(candidates[k]) : ~IsShared(o) => o \in ToSet(after)
    /\ \A o \in ToSet(after) : o.key = k /\ (o \in ToSet(candidates[k]) \/ o.id = 0)

(* Then all but the evidence and the links stays true.                      *)
LEMMA CandidatesKeep ==
    ASSUME IInv, stage \in Judging, stage' \in Judging,
           UNCHANGED << files, spilled, junction, walked, observations, deferred, harvested, withheld,
                        dropped >>,
           stage' \notin {"samples", "digests", "done"} => window' = FALSE,
           DOMAIN candidates' = DOMAIN candidates,
           \A k \in DOMAIN candidates : StillOf(k, candidates'[k])
    PROVE  /\ Shape' /\ InItsTime' /\ Gathered' /\ Accounted' /\ Anchored' /\ LookedFor'
           /\ DetectionOfAFileHereIsKept' /\ PresentFilesAreKnownPresent' /\ OfTheirKey'
<1>1. /\ stage \notin ArtifactStages \cup Gathering
      /\ stage' \notin ArtifactStages \cup Gathering
  BY DEF ArtifactStages, Gathering, Judging
<1>2. \A k \in DOMAIN candidates : \A o \in ToSet(candidates[k]) :
        o.key = k /\ (IsShared(o) => o.id = 0)
  BY DEF IInv, OfTheirKey
<1>3. ASSUME NEW k \in DOMAIN candidates PROVE Ids(candidates'[k]) = Ids(candidates[k])
  <2>1. /\ Ids(candidates'[k]) = { o.id : o \in ToSet(candidates'[k]) } \ {0}
        /\ Ids(candidates[k]) = { o.id : o \in ToSet(candidates[k]) } \ {0}
    BY IdsAre
  <2> QED
    BY <1>2, <2>1 DEF StillOf
<1>4. Judged' = Judged
  BY <1>3 DEF Judged
<1>5. Shape'
  BY DEF IInv, Shape, StillOf
<1>6. InItsTime'
  BY <1>1 DEF IInv, InItsTime, Gathering
<1>7. Gathered'
  BY <1>1 DEF IInv, Gathered, IsGathered, Gathering
<1>8. Accounted'
  <2>1. \A k \in DOMAIN candidates' : Distinct(candidates'[k])
    BY DEF StillOf
  <2> QED
    BY <1>4, <2>1 DEF IInv, Accounted, DroppedIds
<1>9. Anchored'
  <2>1. \A k \in DOMAIN candidates :
          \E p \in ToSet(candidates[k]) : IsGathered(p) /\ Stands(p)
    BY DEF IInv, Anchored
  <2>2. \A p : IsGathered(p) => ~IsShared(p)
    BY DEF IsGathered, IsShared
  <2>3. \A k \in DOMAIN candidates' :
          \E p \in ToSet(candidates'[k]) : IsGathered(p) /\ Stands(p)
    BY <2>1, <2>2 DEF StillOf
  <2> QED
    BY <1>1, <2>3 DEF Anchored, Gathering, IsGathered, Stands, Unread, LedTo
<1>10. LookedFor'
  BY <1>1 DEF LookedFor, Gathering
<1>11. DetectionOfAFileHereIsKept'
  BY DEF IInv, DetectionOfAFileHereIsKept
<1>12. PresentFilesAreKnownPresent'
  <2> SUFFICES ASSUME walked, NEW k \in DOMAIN candidates, Spelled(k) \in files,
                      NamedByAnArtifact(k)'
               PROVE  \/ KnownPresent(candidates'[k]) # {}
                      \/ LedTo(k) /\ (k \in spilled \/ RecordedFreed(k)')
    BY DEF PresentFilesAreKnownPresent, Spelled, LedTo
  <2>1. /\ candidates[k] \in Seq(Observation) /\ candidates'[k] \in Seq(Observation)
        /\ \A o \in ToSet(candidates[k]) : ~IsShared(o) => o \in ToSet(candidates'[k])
        /\ \A o \in ToSet(candidates'[k]) : o \in ToSet(candidates[k]) \/ o.id = 0
    BY DEF IInv, Shape, StillOf
  <2>2. NamedByAnArtifact(k)
    <3>1. PICK o \in ToSet(candidates'[k]) : o.id # 0 /\ ~IsDeferrableCom(o)
      BY DEF NamedByAnArtifact, ToSet
    <3>2. o \in ToSet(candidates[k])
      BY <2>1, <3>1
    <3> QED
      BY <3>1, <3>2 DEF NamedByAnArtifact, ToSet
  <2>3. KnownPresent(candidates[k]) # {} \/ (LedTo(k) /\ (k \in spilled \/ RecordedFreed(k)))
    BY <2>2 DEF IInv, PresentFilesAreKnownPresent
  <2>4. KnownPresent(candidates[k]) # {} => KnownPresent(candidates'[k]) # {}
    BY <2>1, KnownPresentIs DEF IsShared
  <2>5. RecordedFreed(k) => RecordedFreed(k)'
    <3>1. ASSUME RecordedFreed(k)
          PROVE  \E o \in ToSet(candidates[k]) : o.by = "$MFT" /\ o.kind = "deleted"
      BY <3>1 DEF RecordedFreed, ToSet
    <3>2. ASSUME NEW o \in ToSet(candidates'[k]), o.by = "$MFT", o.kind = "deleted"
          PROVE  RecordedFreed(k)'
      BY <3>2 DEF RecordedFreed, ToSet
    <3> QED
      BY <2>1, <3>1, <3>2 DEF IsShared
  <2> QED
    BY <2>3, <2>4, <2>5
<1>13. OfTheirKey'
  <2>1. \A k \in DOMAIN candidates' : \A o \in ToSet(candidates'[k]) :
          o.key = k /\ (IsShared(o) => o.id = 0)
    BY <1>2 DEF StillOf
  <2> QED
    BY <2>1 DEF OfTheirKey
<1> QED
  BY <1>5, <1>6, <1>7, <1>8, <1>9, <1>10, <1>11, <1>12, <1>13

(* A candidate nothing is done to.                                          *)
LEMMA Untouched ==
    ASSUME IInv, NEW k \in DOMAIN candidates PROVE StillOf(k, candidates[k])
  BY DEF IInv, Shape, Accounted, OfTheirKey, StillOf

(* One more fact without an id.                                             *)
LEMMA AppendedIs ==
    ASSUME NEW s \in Seq(Observation), NEW o \in Observation, o.id = 0
    PROVE  /\ Append(s, o) \in Seq(Observation) /\ ToSet(Append(s, o)) = ToSet(s) \cup {o}
           /\ Distinct(s) => Distinct(Append(s, o))
<1> DEFINE t == Append(s, o)
<1>1. /\ t \in Seq(Observation) /\ DOMAIN t = 1..(Len(s) + 1) /\ Len(s) \in Nat
      /\ DOMAIN s = 1..Len(s) /\ t[Len(s) + 1] = o
      /\ \A i \in 1..Len(s) : t[i] = s[i]
  OBVIOUS
<1>2. 1..(Len(s) + 1) = 1..Len(s) \cup {Len(s) + 1}
  BY <1>1
<1> HIDE DEF t
<1>3. ToSet(t) = ToSet(s) \cup {o}
  BY <1>1, <1>2 DEF ToSet
<1>4. Distinct(s) => Distinct(t)
  BY <1>1, <1>2 DEF Distinct
<1> QED
  BY <1>1, <1>3, <1>4 DEF t

(* A verdict is a fact, and the evidence of that candidate is new.          *)
LEMMA VerifyKeeps ==
    ASSUME IInv, VerifySignatures PROVE IInv'
<1> DEFINE Verdict(k) == About("signatures", "signature", k)
<1>1. /\ stage = "signatures" /\ stage' = "window"
      /\ UNCHANGED << files, spilled, junction, walked, observations, deferred, hash, disputed, window,
                      harvested, withheld, dropped >>
  BY StageOrder DEF VerifySignatures, At, Settle, volume, gathered, past
<1>2. PICK selected \in SUBSET (DOMAIN candidates \cap files) :
        /\ candidates' = [k \in DOMAIN candidates |->
              IF k \in selected THEN Append(candidates[k], Verdict(k)) ELSE candidates[k]]
        /\ evidence' = [k \in DOMAIN candidates |->
              IF k \in selected THEN Extract(candidates', k, FALSE) ELSE evidence[k]]
  BY DEF VerifySignatures
<1>3. window = FALSE /\ DOMAIN candidates \subseteq Key
  BY <1>1 DEF IInv, InItsTime, Shape
<1>4. ASSUME NEW k \in DOMAIN candidates
      PROVE  /\ Verdict(k) \in Observation /\ Verdict(k).id = 0 /\ Verdict(k).key = k
  <2>1. "signatures" \in Makers /\ "signature" \in Kinds /\ k \in Key
    BY <1>3 DEF Makers, Kinds
  <2> QED
    BY <2>1 DEF About, Observation
<1> HIDE DEF Verdict
<1>5. ASSUME NEW k \in DOMAIN candidates PROVE StillOf(k, candidates'[k])
  <2>1. CASE k \notin selected
    BY <1>2, <2>1, Untouched
  <2>2. CASE k \in selected
    <3>1. candidates'[k] = Append(candidates[k], Verdict(k))
      BY <1>2, <2>2
    <3>2. candidates[k] \in Seq(Observation)
      BY DEF IInv, Shape
    <3>3. /\ Append(candidates[k], Verdict(k)) \in Seq(Observation)
          /\ ToSet(Append(candidates[k], Verdict(k))) = ToSet(candidates[k]) \cup {Verdict(k)}
          /\ Distinct(candidates[k]) => Distinct(Append(candidates[k], Verdict(k)))
      BY <1>4, <3>2, AppendedIs
    <3>4. StillOf(k, candidates[k])
      BY Untouched
    <3> QED
      BY <1>4, <3>1, <3>3, <3>4 DEF StillOf
  <2> QED
    BY <2>1, <2>2
<1>6. DOMAIN candidates' = DOMAIN candidates
  BY <1>2
<1>7. /\ Shape' /\ InItsTime' /\ Gathered' /\ Accounted' /\ Anchored' /\ LookedFor'
      /\ DetectionOfAFileHereIsKept' /\ PresentFilesAreKnownPresent' /\ OfTheirKey'
  BY <1>1, <1>3, <1>5, <1>6, CandidatesKeep DEF Judging
<1>8. Scored'
  <2>1. ASSUME NEW k \in DOMAIN candidates PROVE evidence'[k] = Extract(candidates', k, FALSE)
    <3>1. evidence[k] = Extract(candidates, k, FALSE)
      BY <1>1, <1>3 DEF IInv, Scored, Judging
    <3> QED
      BY <1>2, <3>1 DEF Extract
  <2> QED
    BY <1>1, <1>2, <1>3, <1>6, <2>1 DEF IInv, Scored, Judging
<1>9. LinkedMutually'
  BY <1>1 DEF LinkedMutually, Done, At
<1> QED
  BY <1>7, <1>8, <1>9 DEF IInv

(* With a window, all the evidence is new.                                  *)
LEMMA WindowKeeps ==
    ASSUME IInv, ApplyIncidentWindow PROVE IInv'
<1>1. /\ stage = "window" /\ stage' = "samples"
      /\ evidence' = IF window' THEN ExtractAll(candidates, TRUE) ELSE evidence
      /\ window' \in BOOLEAN
      /\ UNCHANGED << files, spilled, junction, walked, observations, deferred, candidates, hash, disputed,
                      harvested, withheld, dropped >>
  BY StageOrder DEF ApplyIncidentWindow, At, Settle, volume, gathered, past
<1>2. \A k \in DOMAIN candidates : StillOf(k, candidates'[k])
  BY <1>1, Untouched
<1>3. /\ Shape' /\ InItsTime' /\ Gathered' /\ Accounted' /\ Anchored' /\ LookedFor'
      /\ DetectionOfAFileHereIsKept' /\ PresentFilesAreKnownPresent' /\ OfTheirKey'
  BY <1>1, <1>2, CandidatesKeep DEF Judging
<1>4. window = FALSE
  BY <1>1 DEF IInv, InItsTime
<1>5. Scored'
  BY <1>1, <1>4 DEF IInv, Scored, Judging, ExtractAll, Extract
<1>6. LinkedMutually'
  BY <1>1 DEF LinkedMutually, Done, At
<1> QED
  BY <1>3, <1>5, <1>6 DEF IInv

(* The bytes say what a candidate's digest is, not what it was seen as.     *)
LEMMA SamplesKeep ==
    ASSUME IInv, AcquireSamples PROVE IInv'
<1>1. /\ stage = "samples" /\ stage' = "digests"
      /\ DOMAIN hash' = DOMAIN hash /\ DOMAIN disputed' = DOMAIN disputed
      /\ UNCHANGED << files, spilled, junction, walked, observations, deferred, candidates, evidence,
                      window, harvested, withheld, dropped >>
  BY StageOrder DEF AcquireSamples, At, Settle, volume, gathered, past
<1>2. \A k \in DOMAIN candidates : StillOf(k, candidates'[k])
  BY <1>1, Untouched
<1>3. /\ Shape' /\ InItsTime' /\ Gathered' /\ Accounted' /\ Anchored' /\ LookedFor'
      /\ DetectionOfAFileHereIsKept' /\ PresentFilesAreKnownPresent' /\ OfTheirKey'
  BY <1>1, <1>2, CandidatesKeep DEF Judging
<1>4. Scored'
  BY <1>1 DEF IInv, Scored, Judging, Extract
<1>5. LinkedMutually'
  BY <1>1 DEF LinkedMutually, Done, At
<1> QED
  BY <1>3, <1>4, <1>5 DEF IInv

(* The links are made anew, and a candidate whose links changed is          *)
(* extracted again.                                                         *)
LEMMA RelinkKeeps ==
    ASSUME IInv, RelinkSharedDigests PROVE IInv'
<1>1. /\ stage = "digests" /\ stage' = "done"
      /\ candidates' = LinkSharedDigests(candidates, hash, disputed)
      /\ evidence' = [k \in DOMAIN candidates |->
           IF Changed(Shared(candidates, k), Shared(candidates', k))
           THEN Extract(candidates', k, window) ELSE evidence[k]]
      /\ UNCHANGED << files, spilled, junction, walked, observations, deferred, hash, disputed, window,
                      harvested, withheld, dropped >>
  BY StageOrder DEF RelinkSharedDigests, At, Settle, volume, gathered, past
<1>2. /\ DOMAIN candidates \subseteq Key
      /\ \A k \in DOMAIN candidates :
           candidates[k] \in Seq(Observation) /\ Distinct(candidates[k])
  BY DEF IInv, Shape, Accounted
<1>3. /\ DOMAIN candidates' = DOMAIN candidates
      /\ \A k \in DOMAIN candidates :
           /\ candidates'[k] \in Seq(Observation)
           /\ Distinct(candidates[k]) => Distinct(candidates'[k])
           /\ \A o : ~IsShared(o) => (o \in ToSet(candidates'[k]) <=> o \in ToSet(candidates[k]))
           /\ \A o \in ToSet(candidates'[k]) : IsShared(o) =>
                /\ o.id = 0 /\ o.key = k
                /\ \A j \in o.digest :
                     /\ j \in DOMAIN candidates /\ hash[j] = hash[k] /\ ~disputed[j] /\ ~disputed[k]
                     /\ \E q \in ToSet(candidates'[j]) : IsShared(q) /\ k \in q.digest
  BY <1>1, <1>2, LinksAre
<1>4. \A k \in DOMAIN candidates : \A o \in ToSet(candidates[k]) : o.key = k
  BY DEF IInv, OfTheirKey
<1>5. \A k \in DOMAIN candidates : StillOf(k, candidates'[k])
  BY <1>2, <1>3, <1>4 DEF StillOf
<1>6. /\ Shape' /\ InItsTime' /\ Gathered' /\ Accounted' /\ Anchored' /\ LookedFor'
      /\ DetectionOfAFileHereIsKept' /\ PresentFilesAreKnownPresent' /\ OfTheirKey'
  BY <1>1, <1>3, <1>5, CandidatesKeep DEF Judging
<1>7. Scored'
  <2>1. ASSUME NEW k \in DOMAIN candidates PROVE evidence'[k] = Extract(candidates', k, window)
    <3>1. CASE Changed(Shared(candidates, k), Shared(candidates', k))
      BY <1>1, <3>1
    <3>2. CASE Shared(candidates, k) = Shared(candidates', k)
      <4>1. evidence'[k] = Extract(candidates, k, window)
        BY <1>1, <3>2 DEF IInv, Scored, Judging, Changed
      <4>2. ToSet(Shared(candidates, k)) = { o \in ToSet(candidates[k]) : IsShared(o) }
        BY <1>2, ThoseAre DEF Shared, Select
      <4>3. ToSet(Shared(candidates', k)) = { o \in ToSet(candidates'[k]) : IsShared(o) }
        BY <1>3, ThoseAre DEF Shared, Select
      <4>4. ToSet(candidates'[k]) = ToSet(candidates[k])
        <5>1. \A o : ~IsShared(o) =>
                (o \in ToSet(candidates'[k]) <=> o \in ToSet(candidates[k]))
          BY <1>3
        <5>2. \A o : IsShared(o) =>
                (o \in ToSet(candidates'[k]) <=> o \in ToSet(candidates[k]))
          <6>1. ToSet(Shared(candidates, k)) = ToSet(Shared(candidates', k))
            BY <3>2
          <6> QED
            BY <4>2, <4>3, <6>1
        <5>3. \A o : o \in ToSet(candidates'[k]) <=> o \in ToSet(candidates[k])
          BY <5>1, <5>2
        <5> QED
          BY <5>3
      <4> QED
        BY <4>1, <4>4 DEF Extract
    <3> QED
      BY <3>1, <3>2 DEF Changed
  <2> QED
    BY <1>1, <1>3, <2>1 DEF IInv, Scored, Judging
<1>8. LinkedMutually'
  BY <1>1, <1>3 DEF LinkedMutually, LinksTo
<1> QED
  BY <1>6, <1>7, <1>8 DEF IInv

-----------------------------------------------------------------------------
(* Every stage keeps the invariant.                                         *)
LEMMA NextKeeps ==
    ASSUME BoundAssumption, ClaimsAssumption, IInv, [Next]_vars PROVE IInv'
<1>1. CASE Harvest
  BY <1>1, HarvestKeeps
<1>2. CASE Gather
  BY <1>2, WithholdKeeps, ComKeeps, DeferralKeeps, WalkKeeps, ReattachKeeps, JunctionsKeep,
     JournalKeeps DEF Gather
<1>3. CASE Judge
  BY <1>3, BuildKeeps, VerifyKeeps, WindowKeeps, SamplesKeep, RelinkKeeps DEF Judge
<1>4. CASE UNCHANGED vars
  <2> USE <1>4 DEF vars, volume, gathered, judged, past
  <2>1. Shape' /\ InItsTime'
    BY DEF IInv, Shape, InItsTime
  <2>2. Gathered'
    BY DEF IInv, Gathered, IsGathered
  <2>3. Accounted'
    BY DEF IInv, Accounted, DroppedIds, Judged
  <2>4. Anchored'
    BY DEF IInv, Anchored, IsGathered, Stands, Unread, LedTo
  <2>5. LookedFor'
    BY DEF IInv, LookedFor, Present, Freed, Spelled, LedTo
  <2>6. DetectionOfAFileHereIsKept' /\ PresentFilesAreKnownPresent'
    BY DEF IInv, DetectionOfAFileHereIsKept, PresentFilesAreKnownPresent, Spelled, LedTo,
           NamedByAnArtifact, RecordedFreed
  <2>7. OfTheirKey' /\ Scored'
    BY DEF IInv, OfTheirKey, Scored, Extract
  <2>8. LinkedMutually'
    BY DEF IInv, LinkedMutually, LinksTo, Done, At
  <2> QED
    BY <2>1, <2>2, <2>3, <2>4, <2>5, <2>6, <2>7, <2>8 DEF IInv
<1> QED
  BY <1>1, <1>2, <1>3, <1>4 DEF Next

(* And it holds to begin with.                                              *)
LEMMA AlwaysIInv == ASSUME BoundAssumption, ClaimsAssumption PROVE Spec => []IInv
<1>1. IInv /\ [Next]_vars => IInv'
  BY NextKeeps
<1> QED
  BY InitIInv, <1>1, PTL DEF Spec

(* Whatever the artifacts of a volume hold and in however many observations *)
(* they say it, each is in one place and counted once, from the parser that *)
(* gave it to the candidate, the report's list of paths this volume does    *)
(* not have, or the volumes it was withheld for.                            *)
THEOREM EveryObservationIsSomewhere ==
    ASSUME BoundAssumption, ClaimsAssumption PROVE Spec => []EveryObservationIsAccountedFor
<1>1. ASSUME IInv PROVE EveryObservationIsAccountedFor
  <2> DEFINE places == Places
  <2>1. /\ DOMAIN places = 1..7
        /\ places[1] = Ids(observations) /\ places[2] = Ids(deferred.com)
        /\ places[3] = Ids(deferred.av) /\ places[4] = Ids(deferred.values)
        /\ places[5] = withheld /\ places[6] = DroppedIds /\ places[7] = Judged
    BY DEF Places, DroppedIds, Judged
  <2> HIDE DEF places
  <2>2. 1..7 = {1, 2, 3, 4, 5, 6, 7}
    OBVIOUS
  <2>3. ToSet(places) = {places[1], places[2], places[3], places[4], places[5], places[6],
                         places[7]}
    BY <2>1, <2>2 DEF ToSet
  <2>4. UNION ToSet(places) = places[1] \cup places[2] \cup places[3] \cup places[4]
                                \cup places[5] \cup places[6] \cup places[7]
    BY <2>3
  <2>5. UNION ToSet(places) = 1..harvested
    BY <1>1, <2>1, <2>4 DEF IInv, Accounted
  <2>6. ASSUME NEW i \in 1..7, NEW j \in 1..7, i # j PROVE places[i] \cap places[j] = {}
    <3>1. Apart(places[1], places[2], places[3], places[4], places[5], places[6], places[7])
      BY <1>1, <2>1 DEF IInv, Accounted
    <3> QED
      BY <2>2, <2>6, <3>1 DEF Apart
  <2>7. Given(observations) = Cardinality(Ids(observations))
    BY <1>1, GivenIs DEF IInv, Shape, Accounted
  <2>8. \A k \in DOMAIN candidates : Given(candidates[k]) = Cardinality(Ids(candidates[k]))
    BY <1>1, GivenIs DEF IInv, Shape, Accounted
  <2> QED
    BY <2>1, <2>5, <2>6, <2>7, <2>8 DEF EveryObservationIsAccountedFor, places
<1> QED
  BY <1>1, AlwaysIInv, PTL

(* A detection is only ever dropped from the report for a path no file of a *)
(* volume that could be walked has.                                         *)
THEOREM DetectionsOfFilesStay ==
    ASSUME BoundAssumption, ClaimsAssumption PROVE Spec => []DetectionOfAFileHereIsKept
<1>1. IInv => DetectionOfAFileHereIsKept
  BY DEF IInv
<1> QED
  BY <1>1, AlwaysIInv, PTL

(* A name that only a registration, a detection or a freed value gives      *)
(* never becomes a candidate by itself, but for a registration spelled      *)
(* through a junction, of a file whose own record does not tell.            *)
THEOREM CandidatesAreAnchored ==
    ASSUME BoundAssumption, ClaimsAssumption PROVE Spec => []DeferredNameNoCandidateAlone
<1>1. ASSUME IInv PROVE DeferredNameNoCandidateAlone
  <2>1. ASSUME NEW k \in DOMAIN candidates
        PROVE  \E i \in DOMAIN candidates[k] :
                 LET o == candidates[k][i]
                 IN /\ IsKept(o) /\ o.by \notin {"digests", "signatures"}
                    /\ IsDeferrableCom(o) => LedTo(k) /\ k \in spilled
    <3>1. PICK p \in ToSet(candidates[k]) : IsGathered(p) /\ Stands(p) /\ p.key = k
      BY <1>1 DEF IInv, Anchored, OfTheirKey
    <3>2. /\ IsKept(p) /\ p.by \notin {"digests", "signatures"}
          /\ IsDeferrableCom(p) => LedTo(k) /\ k \in spilled
      BY <3>1 DEF IsGathered, Stands, Unread
    <3> QED
      BY <3>2 DEF ToSet
  <2> QED
    BY <2>1 DEF DeferredNameNoCandidateAlone
<1> QED
  BY <1>1, AlwaysIInv, PTL

(* On a volume whose walk succeeded, a candidate that an artifact named and *)
(* that is a file there is known to be there: unless only a junction leads  *)
(* to it and either a freed record had its path, or its own does not tell.  *)
THEOREM FilesHereAreKnown ==
    ASSUME BoundAssumption, ClaimsAssumption PROVE Spec => []PresentFilesAreKnownPresent
<1>1. IInv => PresentFilesAreKnownPresent
  BY DEF IInv
<1> QED
  BY <1>1, AlwaysIInv, PTL

(* What the report concludes of a candidate was extracted from exactly the  *)
(* observations it shows of it, and in the light of the incident window.    *)
THEOREM EvidenceIsUpToDate ==
    ASSUME BoundAssumption, ClaimsAssumption PROVE Spec => []EvidenceIsOfTheReport
<1>1. IInv => EvidenceIsOfTheReport
  BY DEF IInv, Scored, EvidenceIsOfTheReport, Done, At, Judging
<1> QED
  BY <1>1, AlwaysIInv, PTL

(* The links by digest in the report go both ways, between candidates whose *)
(* digests agree and whose bytes dispute neither.                           *)
THEOREM LinksAreMutual ==
    ASSUME BoundAssumption, ClaimsAssumption PROVE Spec => []SharedDigestsAreMutual
<1>1. ASSUME IInv PROVE SharedDigestsAreMutual
  <2>1. ASSUME NEW k \in DOMAIN candidates
        PROVE  ToSet(Shared(candidates, k)) = { o \in ToSet(candidates[k]) : IsShared(o) }
    BY <1>1, ThoseAre DEF IInv, Shape, Shared, Select
  <2>2. ASSUME Done, NEW k \in DOMAIN candidates, NEW i \in DOMAIN Shared(candidates, k),
               NEW j \in Shared(candidates, k)[i].digest
        PROVE  /\ hash[j] = hash[k] /\ ~disputed[j] /\ ~disputed[k]
               /\ \E n \in DOMAIN Shared(candidates, j) : k \in Shared(candidates, j)[n].digest
    <3>1. Shared(candidates, k)[i] \in ToSet(Shared(candidates, k))
      BY DEF ToSet
    <3>2. PICK o \in ToSet(candidates[k]) : IsShared(o) /\ j \in o.digest
      BY <2>1, <3>1
    <3>3. /\ j \in DOMAIN candidates /\ LinksTo(j, k)
          /\ hash[j] = hash[k] /\ ~disputed[j] /\ ~disputed[k]
      BY <1>1, <2>2, <3>2 DEF IInv, LinkedMutually
    <3>4. \E q \in ToSet(Shared(candidates, j)) : k \in q.digest
      BY <2>1, <3>3 DEF LinksTo
    <3> QED
      BY <3>3, <3>4 DEF ToSet
  <2> QED
    BY <2>2 DEF SharedDigestsAreMutual
<1> QED
  BY <1>1, AlwaysIInv, PTL

-----------------------------------------------------------------------------
(* The rest of what the variables are.                                      *)
Typed ==
    /\ referenced \subseteq Key
    /\ DOMAIN hash = DOMAIN candidates /\ DOMAIN disputed = DOMAIN candidates
    /\ DOMAIN evidence = DOMAIN candidates
    /\ \A k \in DOMAIN hash : hash[k] \in Contents \cup {NoDigest}

(* The keys of observations are keys.                                       *)
LEMMA KeysAreKeys == ASSUME NEW s \in Seq(Observation) PROVE Keys(s) \subseteq Key
<1>1. \A o \in ToSet(s) : o.key \in Key
  BY ElementsAre DEF Observation
<1> QED
  BY <1>1, KeysAre

(* The digest a candidate goes by is one an artifact recorded.              *)
LEMMA RecordedIs ==
    ASSUME NEW s \in Seq(Observation), \A o \in ToSet(s) : IsGathered(o)
    PROVE  RecordedHash(s) \in Contents \cup {NoDigest}
<1> DEFINE with == { o \in ToSet(s) : o.digest # NoDigest }
           hashed == Those(s, with)
<1>1. hashed \in Seq(Observation) /\ ToSet(hashed) = with
  BY ThoseAre
<1>2. RecordedHash(s) = IF hashed = << >> THEN NoDigest ELSE hashed[1].digest
  BY DEF RecordedHash, Select
<1>3. ASSUME hashed # << >> PROVE hashed[1] \in ToSet(s)
  <2> HIDE DEF hashed
  <2>1. 1 \in DOMAIN hashed
    BY <1>1, <1>3
  <2>2. hashed[1] \in ToSet(hashed)
    BY <2>1 DEF ToSet
  <2> QED
    BY <1>1, <2>2
<1> HIDE DEF hashed
<1> QED
  BY <1>2, <1>3 DEF IsGathered

(* A stage leaves every variable what it is.                                *)
LEMMA TypedKeeps ==
    ASSUME IInv, Typed, [Next]_vars PROVE Typed'
<1>1. referenced' \subseteq Key
  <2>1. CASE DeferTheRest
    <3>1. referenced' = Keys(observations)
      BY <2>1 DEF DeferTheRest, Referenced
    <3> QED
      BY <3>1, KeysAreKeys DEF IInv, Shape
  <2>2. CASE WalkFilesystem
    BY <2>2 DEF WalkFilesystem
  <2>3. CASE UNCHANGED referenced
    BY <2>3 DEF Typed
  <2>4. Harvest => UNCHANGED referenced
    BY DEF Harvest, SoftwareHive, SystemHive, UserHives, StartupFolders, Amcache, Prefetch, Pca,
       Tasks, Quarantine, RecycleBin, DefenderLog, Parse
  <2> QED
    BY <2>1, <2>2, <2>3, <2>4
    DEF Next, Gather, Judge, WithholdOtherVolumes, ComRegistrations, Reattach,
        CanonicalizeThroughJunctions, HarvestUsnJournal, BuildAndScore, VerifySignatures,
        ApplyIncidentWindow, AcquireSamples, RelinkSharedDigests, vars, gathered
<1>2. /\ DOMAIN hash' = DOMAIN candidates' /\ DOMAIN disputed' = DOMAIN candidates'
      /\ DOMAIN evidence' = DOMAIN candidates'
      /\ \A k \in DOMAIN hash' : hash'[k] \in Contents \cup {NoDigest}
  <2>1. CASE UNCHANGED << candidates, hash, disputed, evidence >>
    BY <2>1 DEF Typed
  <2>2. Harvest => UNCHANGED << candidates, hash, disputed, evidence >>
    BY DEF Harvest, SoftwareHive, SystemHive, UserHives, StartupFolders, Amcache, Prefetch, Pca,
       Tasks, Quarantine, RecycleBin, DefenderLog, Parse, judged
  <2>3. Gather => UNCHANGED << candidates, hash, disputed, evidence >>
    BY DEF Gather, WithholdOtherVolumes, ComRegistrations, DeferTheRest, WalkFilesystem,
       Reattach, CanonicalizeThroughJunctions, HarvestUsnJournal, judged
  <2>4. CASE BuildAndScore
    <3> DEFINE named(k) == { o \in ToSet(observations) : o.key = k }
               cs == [k \in Keys(observations) |-> Those(observations, named(k))]
    <3>1. /\ hash' = [k \in DOMAIN cs |-> RecordedHash(cs[k])]
          /\ disputed' = [k \in DOMAIN cs |-> FALSE]
          /\ candidates' = LinkSharedDigests(cs, hash', disputed')
          /\ evidence' = ExtractAll(candidates', FALSE)
      BY <2>4 DEF BuildAndScore, Select
    <3>2. ASSUME NEW k \in DOMAIN cs PROVE RecordedHash(cs[k]) \in Contents \cup {NoDigest}
      <4>1. cs[k] = Those(observations, named(k))
        OBVIOUS
      <4>2. cs[k] \in Seq(Observation) /\ ToSet(cs[k]) \subseteq ToSet(observations)
        BY <4>1, ThoseAre DEF IInv, Shape
      <4>3. \A o \in ToSet(cs[k]) : IsGathered(o)
        BY <4>2 DEF IInv, Gathered
      <4> HIDE DEF cs
      <4> QED
        BY <4>2, <4>3, RecordedIs
    <3> HIDE DEF cs
    <3> QED
      BY <3>1, <3>2 DEF LinkSharedDigests, ExtractAll
  <2>5. CASE VerifySignatures
    BY <2>5 DEF VerifySignatures, Typed
  <2>6. CASE ApplyIncidentWindow
    BY <2>6 DEF ApplyIncidentWindow, Typed, ExtractAll
  <2>7. CASE AcquireSamples
    BY <2>7 DEF AcquireSamples, Typed
  <2>8. CASE RelinkSharedDigests
    BY <2>8 DEF RelinkSharedDigests, Typed, LinkSharedDigests
  <2>9. UNCHANGED vars => UNCHANGED << candidates, hash, disputed, evidence >>
    BY DEF vars, judged
  <2> QED
    BY <2>1, <2>2, <2>3, <2>4, <2>5, <2>6, <2>7, <2>8, <2>9 DEF Next, Judge
<1> QED
  BY <1>1, <1>2 DEF Typed

(* What the run gathers and concludes has its shape: every candidate is a   *)
(* key something named, with one digest, one set of checks, one evidence.   *)
THEOREM TypeCorrect ==
    ASSUME BoundAssumption, ClaimsAssumption PROVE Spec => []TypeOK
<1>1. Init => Typed
  <2>1. DOMAIN << >> = {}
    OBVIOUS
  <2> SUFFICES ASSUME Init PROVE Typed
    OBVIOUS
  <2>2. candidates = << >> /\ hash = << >> /\ disputed = << >> /\ evidence = << >>
    BY DEF Init
  <2>3. referenced = {}
    BY DEF Init
  <2>4. /\ DOMAIN candidates = {} /\ DOMAIN hash = {} /\ DOMAIN disputed = {}
        /\ DOMAIN evidence = {}
    BY <2>1, <2>2
  <2> QED
    BY <2>3, <2>4 DEF Typed
<1>2. IInv /\ Typed /\ [Next]_vars => Typed'
  BY TypedKeeps
<1>3. ASSUME IInv, Typed PROVE TypeOK
  <2>1. stage \in ToSet(Stages)
    <3>1. 1..24 = {1, 2, 3, 4, 5, 6, 7, 8, 9, 10, 11, 12, 13,
                   14, 15, 16, 17, 18, 19, 20, 21, 22, 23, 24}
      OBVIOUS
    <3>2. DOMAIN Stages = 1..24
      BY DEF Stages
    <3>3. \E i \in 1..24 : Stages[i] = stage
      <4>1. stage \in ArtifactStages \cup Gathering \cup Judging
        BY <1>3 DEF IInv, Shape
      <4> QED
        BY <3>1, <4>1, StagesAre DEF ArtifactStages, Gathering, Judging
    <3> QED
      BY <3>2, <3>3 DEF ToSet
  <2>2. Keys(observations) \subseteq Key
    BY <1>3, KeysAreKeys DEF IInv, Shape
  <2>3. ASSUME NEW k \in DOMAIN candidates
        PROVE  candidates[k] # << >> /\ Keys(candidates[k]) = {k}
    <3>1. \E p \in ToSet(candidates[k]) : TRUE
      BY <1>3 DEF IInv, Anchored
    <3>2. \A o \in ToSet(candidates[k]) : o.key = k
      BY <1>3 DEF IInv, OfTheirKey
    <3> QED
      BY <3>1, <3>2, KeysAre, NothingIs
  <2>4. files \subseteq Key /\ spilled \subseteq files /\ DOMAIN candidates \subseteq Key
    BY <1>3 DEF IInv, Shape, Key
  <2> QED
    BY <1>3, <2>1, <2>2, <2>3, <2>4 DEF Typed, TypeOK
<1> QED
  BY <1>1, <1>2, <1>3, AlwaysIInv, PTL DEF Spec
=============================================================================

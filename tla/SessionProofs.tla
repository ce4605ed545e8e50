---------------------------- MODULE SessionProofs ----------------------------
(***************************************************************************)
(* One connection, from bytes to replies, for every alphabet, limit, range *)
(* of integers, script of the client and initial tables.                   *)
(*                                                                         *)
(* The framing.  That the lines queued are lines of the stream is not      *)
(* inductive: it says nothing of the inbox.  Framing names the last        *)
(* newline that was taken; the inbox is the stream from there to what has  *)
(* been read, and the lines queued are those up to there, or up to an      *)
(* earlier one when a limit was exceeded.                                  *)
(*                                                                         *)
(* The statements.  What the executor may rely on is that the lexer and    *)
(* the parser deliver tokens and statements of the right form, which is    *)
(* shown for any text, and that the tables fit their schemas, which its    *)
(* own statements must keep up.  So that rows fit and that statements mean *)
(* what they say are proved together (Done, Executing).                    *)
(*                                                                         *)
(* The loops of the code are recursive functions of a position; what they  *)
(* return is shown by taking the position nearest to the end of the loop   *)
(* at which it fails.                                                      *)
(***************************************************************************)
EXTENDS Session, FiniteSetTheorems, TLAPS

(* Sets of integers. *)
LEMMA LeastOf ==
  ASSUME NEW C \in SUBSET Nat, C # {} PROVE \E n \in C : \A m \in C : n <= m
<1> DEFINE R == {ss \in Nat \X Nat : ss[1] < ss[2]}
<1>1. IsWellFoundedOn(R, Nat)
  BY NatLessThanWellFounded, Zenon DEF OpToRel
<1> HIDE DEF R
<1>2. PICK n \in C : \A m \in C : ~(<<m, n>> \in R)
  BY <1>1, WFMin, Zenon
<1>3. \A m \in C : m \in Nat /\ n \in Nat /\ ~(m < n)
  BY <1>2, Zenon DEF R
<1> QED
  BY <1>3

LEMMA MinOf ==
  ASSUME NEW C \in SUBSET Nat, C # {} PROVE Min(C) \in C /\ \A m \in C : Min(C) <= m
BY LeastOf, Zenon DEF Min

LEMMA MaxOf ==
  ASSUME NEW n \in Nat, NEW C \in SUBSET (0..n), C # {}
  PROVE  Max(C) \in C /\ \A m \in C : Max(C) >= m
<1> DEFINE D == {d \in 0..n : n - d \in C}
<1>1. D \in SUBSET Nat /\ D # {}
  <2>1. PICK x : x \in C
    BY Zenon
  <2>2. n - x \in D
    BY <2>1
  <2>3. D \subseteq Nat
    OBVIOUS
  <2> QED
    BY <2>2, <2>3, Zenon
<1>2. PICK d \in D : \A e \in D : d <= e
  BY <1>1, LeastOf, Zenon
<1>3. \A m \in C : n - m \in D
  OBVIOUS
<1>4. n - d \in C /\ \A m \in C : n - d >= m
  BY <1>2, <1>3
<1> HIDE DEF D
<1>5. \E x \in C : \A y \in C : x >= y
  BY <1>4, Zenon
<1> QED
  BY <1>5, Zenon DEF Max

(* Ascending(E) has every member of E at the place that its rank says. *)
LEMMA Ranks ==
  ASSUME NEW E, IsFiniteSet(E), E \subseteq Int, NEW x \in E
  PROVE  /\ Cardinality(E) \in Nat
         /\ Rank(E, x) \in 1..Cardinality(E)
         /\ \A z \in E : Rank(E, z) = Rank(E, x) => z = x
<1> DEFINE D(z) == {y \in E : y <= z}
<1>1. \A z \in E : IsFiniteSet(D(z)) /\ Cardinality(D(z)) \in Nat /\ Cardinality(D(z)) <= Cardinality(E)
  <2> TAKE z \in E
  <2>1. D(z) \subseteq E
    BY Zenon
  <2> QED
    BY <2>1, FS_Subset, FS_CardinalityType, Zenon
<1>2. Cardinality(E) \in Nat
  BY FS_CardinalityType, Zenon
<1>3. Cardinality(D(x)) # 0
  <2>1. x \in D(x)
    OBVIOUS
  <2> QED
    BY <1>1, <2>1, FS_EmptySet, Zenon
<1>4. ASSUME NEW a \in E, NEW b \in E, a < b PROVE Cardinality(D(a)) # Cardinality(D(b))
  <2>1. D(a) \subseteq D(b) /\ b \in D(b) /\ b \notin D(a)
    <3>1. \A y \in E : y <= a => y <= b
      BY <1>4
    <3>2. b <= b /\ ~(b <= a)
      BY <1>4
    <3> QED
      BY <3>1, <3>2, Zenon
  <2>2. D(a) # D(b)
    BY <2>1, Zenon
  <2>3. IsFiniteSet(D(b))
    BY <1>1, Zenon
  <2> QED
    BY <2>1, <2>2, <2>3, FS_Subset, Zenon
<1>5. \A z \in E : z < x \/ x < z \/ z = x
  OBVIOUS
<1>0. \A z : Rank(E, z) = Cardinality(D(z))
  BY Zenon DEF Rank
<1> HIDE DEF D
<1>6. \A z \in E : Cardinality(D(z)) = Cardinality(D(x)) => z = x
  BY <1>4, <1>5, Zenon
<1>7. Cardinality(D(x)) \in 1..Cardinality(E)
  BY <1>1, <1>2, <1>3
<1> QED
  BY <1>0, <1>2, <1>6, <1>7, Zenon

LEMMA AscendingHas ==
  ASSUME NEW E, IsFiniteSet(E), E \subseteq Int, NEW x \in E
  PROVE  /\ Rank(E, x) \in DOMAIN Ascending(E)
         /\ Ascending(E)[Rank(E, x)] = x
<1>1. Rank(E, x) \in 1..Cardinality(E) /\ \A z \in E : Rank(E, z) = Rank(E, x) => z = x
  BY Ranks, Zenon
<1>2. (CHOOSE z \in E : Rank(E, z) = Rank(E, x)) = x
  BY <1>1, Zenon
<1> QED
  BY <1>1, <1>2, Zenon DEF Ascending

(* What is added above does not move what is below. *)
LEMMA AscendingPrefix ==
  ASSUME NEW F, IsFiniteSet(F), F \subseteq Int, NEW E, E \subseteq F,
         \A x \in E, y \in F \ E : x < y
  PROVE  /\ Cardinality(E) \in Nat /\ Cardinality(F) \in Nat /\ Cardinality(E) <= Cardinality(F)
         /\ DOMAIN Ascending(E) = 1..Cardinality(E) /\ DOMAIN Ascending(F) = 1..Cardinality(F)
         /\ \A k \in DOMAIN Ascending(E) : Ascending(E)[k] = Ascending(F)[k]
<1>1. IsFiniteSet(E) /\ Cardinality(E) \in Nat /\ Cardinality(F) \in Nat /\ Cardinality(E) <= Cardinality(F)
  BY FS_Subset, FS_CardinalityType
<1>2. ASSUME NEW k \in 1..Cardinality(E) PROVE Ascending(E)[k] = Ascending(F)[k]
  <2> DEFINE P(x) == Rank(E, x) = k
             Q(x) == Rank(F, x) = k
  <2>1. ASSUME NEW x \in E PROVE Rank(E, x) = Rank(F, x)
    <3>1. \A y \in F \ E : ~(y <= x)
      OBVIOUS
    <3>2. {y \in E : y <= x} = {y \in F : y <= x}
      BY <3>1, Zenon
    <3> QED
      BY <3>2, Zenon DEF Rank
  <2>2. ASSUME NEW x \in F \ E PROVE ~Q(x)
    <3> DEFINE D == {y \in F : y <= x}
    <3>1. E \subseteq D /\ x \in D /\ x \notin E /\ D \subseteq F
      OBVIOUS
    <3>2. IsFiniteSet(D) /\ Cardinality(D) \in Nat
      BY <3>1, FS_Subset, FS_CardinalityType
    <3>3. E # D
      BY <3>1, Zenon
    <3>4. Cardinality(E) <= Cardinality(D) /\ Cardinality(E) # Cardinality(D)
      BY <3>1, <3>2, <3>3, FS_Subset, Zenon
    <3> HIDE DEF D
    <3>5. Cardinality(D) # k
      BY <1>1, <3>2, <3>4
    <3> QED
      BY <3>5, Zenon DEF D, Rank
  <2>3. \A x : (x \in E /\ P(x)) <=> (x \in F /\ Q(x))
    BY <2>1, <2>2, Zenon
  <2>4. (CHOOSE x : x \in E /\ P(x)) = (CHOOSE x : x \in F /\ Q(x))
    BY <2>3, Zenon
  <2>5. k \in 1..Cardinality(F)
    BY <1>1
  <2>6. Ascending(E)[k] = CHOOSE x \in E : P(x)
    BY Zenon DEF Ascending
  <2>7. Ascending(F)[k] = CHOOSE x \in F : Q(x)
    BY <2>5, Zenon DEF Ascending
  <2> QED
    BY <2>4, <2>6, <2>7
<1> QED
  BY <1>1, <1>2, Zenon DEF Ascending
LEMMA AscendingIn ==
  ASSUME NEW E, IsFiniteSet(E), E \subseteq Int
  PROVE  /\ Cardinality(E) \in Nat
         /\ DOMAIN Ascending(E) = 1..Cardinality(E)
         /\ \A k \in 1..Cardinality(E) : Ascending(E)[k] \in E /\ Rank(E, Ascending(E)[k]) = k
<1> DEFINE f == [x \in E |-> Rank(E, x)]
           n == Cardinality(E)
<1>0. n \in Nat
  BY FS_CardinalityType, Zenon
<1>1. f \in [E -> 1..n] /\ IsInjective(f)
  BY Ranks, Zenon DEF IsInjective
<1>2. f \in Injection(E, 1..n)
  BY <1>1, Zenon DEF Injection
<1>3. IsFiniteSet(1..n) /\ Cardinality(1..n) = n
  BY <1>0, FS_Interval
<1> HIDE DEF f, n
<1>4. f \in Surjection(E, 1..n)
  BY <1>2, <1>3, FS_Injection, Zenon DEF n
<1>5. \A k \in 1..n : \E x \in E : Rank(E, x) = k
  BY <1>4, Zenon DEF Surjection, f
<1>6. \A k \in 1..n : Ascending(E)[k] = CHOOSE x \in E : Rank(E, x) = k
  BY Zenon DEF Ascending, n
<1>7. \A k \in 1..n : Ascending(E)[k] \in E /\ Rank(E, Ascending(E)[k]) = k
  BY <1>5, <1>6, Zenon
<1> QED
  BY <1>0, <1>7, Zenon DEF Ascending, n

-----------------------------------------------------------------------------
(* Sequences. *)
LEMMA SeqIs ==
  ASSUME NEW T, NEW n \in Nat, NEW f, f = [k \in 1..n |-> f[k]], \A k \in 1..n : f[k] \in T
  PROVE  f \in Seq(T) /\ Len(f) = n
OBVIOUS

LEMMA SeqOfOne ==
  ASSUME NEW T, NEW U, NEW W, NEW f \in Seq(T), Len(f) = 1, f[1] \in W PROVE f \in Seq(U \cup W)
<1>1. f = [k \in 1..1 |-> f[k]] /\ \A k \in 1..1 : f[k] \in U \cup W
  OBVIOUS
<1>2. 1 \in Nat
  OBVIOUS
<1> QED
  BY <1>1, <1>2, SeqIs, Zenon

LEMMA SameSeq ==
  ASSUME NEW T, NEW r \in Seq(T), NEW s \in Seq(T), Len(r) = Len(s),
         \A i \in 1..Len(r) : r[i] = s[i]
  PROVE  r = s
OBVIOUS

LEMMA SubJoin ==
  ASSUME NEW T, NEW s \in Seq(T), NEW a \in 1..Len(s) + 1, NEW b \in a - 1..Len(s), NEW c \in b..Len(s)
  PROVE  SubSeq(s, a, b) \o SubSeq(s, b + 1, c) = SubSeq(s, a, c)
OBVIOUS

-----------------------------------------------------------------------------
(* The lines of a stream. *)
LEMMA SubSub ==
  ASSUME NEW T, NEW s \in Seq(T), NEW c \in 0..Len(s), NEW p \in c..Len(s),
         NEW a \in Nat \ {0}, NEW b \in Int, c + b <= p
  PROVE  SubSeq(SubSeq(s, c + 1, p), a, b) = SubSeq(s, c + a, c + b)
OBVIOUS

LEMMA SubRest ==
  ASSUME NEW T, NEW s \in Seq(T), NEW c \in 0..Len(s), NEW p \in c..Len(s), NEW m \in 1..p - c
  PROVE  SubSeq(SubSeq(s, c + 1, p), m + 1, p - c) = SubSeq(s, c + m + 1, p)
OBVIOUS

(* The newlines and lines of a part of a stream are those of the stream. *)
LEMMA Cut ==
  ASSUME NEW T, NEW s \in Seq(T), NEW p \in 0..Len(s)
  PROVE  /\ Newlines(s) \subseteq 1..Len(s)
         /\ Newlines(SubSeq(s, 1, p)) = {i \in Newlines(s) : i <= p}
         /\ Len(SubSeq(s, 1, p)) = p
BY DEF Newlines

LEMMA Starts ==
  ASSUME NEW T, NEW s \in Seq(T), NEW i \in 1..Len(s) + 1
  PROVE  /\ LineStart(s, i) \in 1..i
         /\ LineStart(s, i) = 1 \/ s[LineStart(s, i) - 1] = LF
         /\ \A j \in LineStart(s, i)..i - 1 : s[j] # LF
<1> DEFINE C == {0} \cup {j \in Newlines(s) : j < i}
<1>1. C \in SUBSET (0..Len(s)) /\ C # {} /\ Len(s) \in Nat
  BY DEF Newlines
<1>2. Max(C) \in C /\ \A m \in C : Max(C) >= m
  BY <1>1, MaxOf, Zenon
<1>3. LineStart(s, i) = 1 + Max(C)
  BY Zenon DEF LineStart
<1>4. Max(C) \in 0..i - 1 /\ (Max(C) = 0 \/ s[Max(C)] = LF)
  BY <1>2 DEF Newlines
<1>5. ASSUME NEW j \in 1 + Max(C)..i - 1 PROVE s[j] # LF
  <2>1. j \in 1..Len(s) /\ j < i /\ ~(Max(C) >= j)
    BY <1>4
  <2>2. j \notin C
    BY <1>2, <2>1, Zenon
  <2> QED
    BY <2>1, <2>2 DEF Newlines
<1> HIDE DEF C
<1> QED
  BY <1>3, <1>4, <1>5

LEMMA StartIs ==
  ASSUME NEW T, NEW s \in Seq(T), NEW i \in 1..Len(s) + 1, NEW p \in 0..i - 1,
         p = 0 \/ s[p] = LF, \A j \in p + 1..i - 1 : s[j] # LF
  PROVE  LineStart(s, i) = p + 1
<1> PICK a : a = LineStart(s, i)
  BY Zenon
<1>1. a \in 1..i /\ (a = 1 \/ s[a - 1] = LF) /\ \A j \in a..i - 1 : s[j] # LF
  BY Starts, Zenon
<1> QED
  BY <1>1

LEMMA LineOfCut ==
  ASSUME NEW T, NEW s \in Seq(T), NEW p \in 0..Len(s), NEW i \in 1..p + 1
  PROVE  /\ LineStart(SubSeq(s, 1, p), i) = LineStart(s, i)
         /\ LineAt(SubSeq(s, 1, p), i) = LineAt(s, i)
<1> DEFINE u == SubSeq(s, 1, p)
<1>1. {j \in Newlines(u) : j < i} = {j \in Newlines(s) : j < i}
  BY Cut
<1>2. LineStart(u, i) = LineStart(s, i)
  BY <1>1, Zenon DEF LineStart
<1>3. LineStart(s, i) \in 1..i
  BY Starts
<1>4. SubSeq(u, LineStart(s, i), i - 1) = SubSeq(s, LineStart(s, i), i - 1)
  BY <1>3, SubSub
<1> QED
  BY <1>2, <1>4, Zenon DEF LineAt

EndsUpto(s, p) == {i \in LineEnds(s) : i <= p}

Listed(s, E) == LET ends == Ascending(E) IN [k \in DOMAIN ends |-> LineAt(s, ends[k])]

(* The lines of a part of the stream are those that end in it. *)
LEMMA LinesOfCut ==
  ASSUME NEW T, NEW s \in Seq(T), NEW p \in 0..Len(s)
  PROVE  LineEnds(SubSeq(s, 1, p)) = EndsUpto(s, p) /\ Lines(SubSeq(s, 1, p)) = Listed(s, EndsUpto(s, p))
<1> DEFINE u == SubSeq(s, 1, p)
<1>1. \A i \in 1..p : LineAt(u, i) = LineAt(s, i)
  <2> TAKE i \in 1..p
  <2>1. i \in 1..p + 1
    OBVIOUS
  <2> QED
    BY <2>1, LineOfCut, Zenon
<1>2. \A i : i \in Newlines(u) <=> i \in Newlines(s) /\ i <= p
  BY Cut, Zenon
<1>3. \A i \in Newlines(s) : i <= p => i \in 1..p
  <2>1. Newlines(s) \subseteq 1..Len(s)
    BY Cut, Zenon
  <2> QED
    BY <2>1
<1> HIDE DEF u
<1>4. LineEnds(u) = EndsUpto(s, p)
  BY <1>1, <1>2, <1>3, Zenon DEF LineEnds, EndsUpto
<1>5. IsFiniteSet(EndsUpto(s, p)) /\ EndsUpto(s, p) \subseteq 1..p
  <2>1. EndsUpto(s, p) \subseteq 1..p
    BY <1>3, Zenon DEF EndsUpto, LineEnds
  <2>2. IsFiniteSet(1..p)
    BY FS_Interval
  <2> QED
    BY <2>1, <2>2, FS_Subset, Zenon
<1> DEFINE E == EndsUpto(s, p)
<1>6. ASSUME NEW k \in DOMAIN Ascending(E) PROVE LineAt(u, Ascending(E)[k]) = LineAt(s, Ascending(E)[k])
  <2>1. E \subseteq Int
    BY <1>5
  <2>2. Ascending(E)[k] \in E
    BY <1>5, <2>1, AscendingIn, Zenon
  <2> QED
    BY <1>1, <1>5, <2>2, Zenon
<1> QED
  BY <1>4, <1>6, Zenon DEF u, Lines, Listed
LEMMA EndsAre ==
  ASSUME NEW T, NEW s \in Seq(T), NEW p \in 0..Len(s)
  PROVE  /\ EndsUpto(s, p) \subseteq 1..p /\ EndsUpto(s, p) \subseteq Int
         /\ IsFiniteSet(EndsUpto(s, p))
<1>1. EndsUpto(s, p) \subseteq 1..p
  BY DEF EndsUpto, LineEnds, Newlines
<1>2. IsFiniteSet(1..p)
  BY FS_Interval
<1>3. 1..p \subseteq Int
  OBVIOUS
<1> QED
  BY <1>1, <1>2, <1>3, FS_Subset, Zenon

LEMMA LineType ==
  ASSUME NEW T, NEW s \in Seq(T), NEW i \in 1..Len(s) PROVE LineAt(s, i) \in Seq(T)
<1>1. LineStart(s, i) \in 1..i
  BY Starts
<1>2. SubSeq(s, LineStart(s, i), i - 1) \in Seq(T)
  BY <1>1
<1>3. \A u \in Seq(T) : WithoutCR(u) \in Seq(T)
  BY DEF WithoutCR
<1> QED
  BY <1>2, <1>3, Zenon DEF LineAt

LEMMA ListedType ==
  ASSUME NEW T, NEW s \in Seq(T), NEW p \in 0..Len(s)
  PROVE  /\ Listed(s, EndsUpto(s, p)) \in Seq(Seq(T))
         /\ Cardinality(EndsUpto(s, p)) \in Nat
         /\ Len(Listed(s, EndsUpto(s, p))) = Cardinality(EndsUpto(s, p))
         /\ \A k \in 1..Cardinality(EndsUpto(s, p)) :
               Listed(s, EndsUpto(s, p))[k] = LineAt(s, Ascending(EndsUpto(s, p))[k])
<1> PICK E : E = EndsUpto(s, p)
  BY Zenon
<1>1. E \subseteq 1..p /\ E \subseteq Int /\ IsFiniteSet(E)
  BY EndsAre, Zenon
<1>2. /\ Cardinality(E) \in Nat /\ DOMAIN Ascending(E) = 1..Cardinality(E)
      /\ \A k \in 1..Cardinality(E) : Ascending(E)[k] \in E
  BY <1>1, AscendingIn, Zenon
<1>3. \A i \in E : LineAt(s, i) \in Seq(T)
  <2>1. \A i \in E : i \in 1..Len(s)
    BY <1>1
  <2> QED
    BY <2>1, LineType, Zenon
<1>4. Listed(s, E) = [k \in 1..Cardinality(E) |-> LineAt(s, Ascending(E)[k])]
  BY <1>2, Zenon DEF Listed
<1>5. \A k \in 1..Cardinality(E) : LineAt(s, Ascending(E)[k]) \in Seq(T)
  BY <1>2, <1>3, Zenon
<1>6. Listed(s, E) \in [1..Cardinality(E) -> Seq(T)]
  BY <1>4, <1>5, Zenon
<1> QED
  BY <1>2, <1>4, <1>6

LEMMA ListedPrefix ==
  ASSUME NEW T, NEW s \in Seq(T), NEW q \in 0..Len(s), NEW p \in 0..q
  PROVE  /\ Len(Listed(s, EndsUpto(s, p))) \in 0..Len(Listed(s, EndsUpto(s, q)))
         /\ \A k \in 1..Len(Listed(s, EndsUpto(s, p))) :
               Listed(s, EndsUpto(s, p))[k] = Listed(s, EndsUpto(s, q))[k]
         /\ Listed(s, EndsUpto(s, p)) = SubSeq(Listed(s, EndsUpto(s, q)), 1, Len(Listed(s, EndsUpto(s, p))))
<1> PICK E, F, L, G : E = EndsUpto(s, p) /\ F = EndsUpto(s, q) /\ L = Listed(s, E) /\ G = Listed(s, F)
  BY Zenon
<1>0. p \in 0..Len(s)
  OBVIOUS
<1>1. /\ E \subseteq 1..p /\ IsFiniteSet(E)
      /\ F \subseteq 1..q /\ F \subseteq Int /\ IsFiniteSet(F)
  BY <1>0, EndsAre, Zenon
<1>2. E \subseteq F /\ \A x \in E, y \in F \ E : x < y
  <2>1. \A x \in LineEnds(s) : x \in 1..Len(s)
    BY DEF LineEnds, Newlines
  <2> QED
    BY <2>1 DEF EndsUpto
<1>3. /\ Cardinality(E) \in Nat /\ Cardinality(F) \in Nat /\ Cardinality(E) <= Cardinality(F)
      /\ DOMAIN Ascending(E) = 1..Cardinality(E)
      /\ \A k \in DOMAIN Ascending(E) : Ascending(E)[k] = Ascending(F)[k]
  BY <1>1, <1>2, AscendingPrefix
<1>4. /\ L \in Seq(Seq(T)) /\ Len(L) = Cardinality(E)
      /\ \A k \in 1..Cardinality(E) : L[k] = LineAt(s, Ascending(E)[k])
  BY <1>0, ListedType, Zenon
<1>5. /\ G \in Seq(Seq(T)) /\ Len(G) = Cardinality(F)
      /\ \A k \in 1..Cardinality(F) : G[k] = LineAt(s, Ascending(F)[k])
  BY ListedType, Zenon
<1>6. \A k \in 1..Len(L) : k \in 1..Cardinality(F) /\ L[k] = G[k]
  <2>1. \A k \in 1..Cardinality(E) : k \in 1..Cardinality(F)
    BY <1>3
  <2> SUFFICES ASSUME NEW k \in 1..Cardinality(E) PROVE k \in 1..Cardinality(F) /\ L[k] = G[k]
    BY <1>4, Zenon
  <2>2. L[k] = LineAt(s, Ascending(E)[k]) /\ Ascending(E)[k] = Ascending(F)[k]
    BY <1>3, <1>4, Zenon
  <2>3. k \in 1..Cardinality(F) /\ G[k] = LineAt(s, Ascending(F)[k])
    BY <1>5, <2>1, Zenon
  <2> QED
    BY <2>2, <2>3, Zenon
<1>7. Len(L) \in 0..Len(G)
  BY <1>3, <1>4, <1>5
<1>8. L = SubSeq(G, 1, Len(L))
  <2> PICK n \in Nat : n = Len(L) /\ n <= Len(G)
    BY <1>7, <1>5
  <2>1. SubSeq(G, 1, n) \in Seq(Seq(T)) /\ Len(SubSeq(G, 1, n)) = n
    BY <1>5
  <2>2. \A k \in 1..n : SubSeq(G, 1, n)[k] = G[k]
    BY <1>5
  <2>3. \A k \in 1..n : L[k] = SubSeq(G, 1, n)[k]
    BY <1>6, <2>2, Zenon
  <2> QED
    BY <1>4, <2>1, <2>3, SameSeq, Zenon
<1> QED
  BY <1>6, <1>7, <1>8, Zenon

(* A line of the part is among the lines listed for it. *)
LEMMA ListedHas ==
  ASSUME NEW T, NEW s \in Seq(T), NEW p \in 0..Len(s), NEW i \in EndsUpto(s, p)
  PROVE  \E k \in DOMAIN Listed(s, EndsUpto(s, p)) : Listed(s, EndsUpto(s, p))[k] = LineAt(s, i)
<1> PICK E, L, r : E = EndsUpto(s, p) /\ L = Listed(s, E) /\ r = Rank(E, i)
  BY Zenon
<1>1. IsFiniteSet(E) /\ E \subseteq Int
  BY EndsAre, Zenon
<1>2. r \in DOMAIN Ascending(E) /\ Ascending(E)[r] = i
  BY <1>1, AscendingHas, Zenon
<1> QED
  BY <1>2, Zenon DEF Listed

(* The next newline ends the next line. *)
LEMMA NextLine ==
  ASSUME NEW T, NEW s \in Seq(T), NEW n \in 1..Len(s), NEW p \in 0..n - 1,
         p = 0 \/ s[p] = LF, s[n] = LF, \A j \in p + 1..n - 1 : s[j] # LF
  PROVE  /\ LineAt(s, n) = WithoutCR(SubSeq(s, p + 1, n - 1))
         /\ LineAt(s, n) = <<>> => EndsUpto(s, n) = EndsUpto(s, p)
         /\ LineAt(s, n) # <<>> =>
               /\ n \in EndsUpto(s, n)
               /\ Listed(s, EndsUpto(s, n)) = Append(Listed(s, EndsUpto(s, p)), LineAt(s, n))
<1>1. LineStart(s, n) = p + 1
  <2>1. n \in 1..Len(s) + 1
    OBVIOUS
  <2> QED
    BY <2>1, StartIs, Zenon
<1>2. LineAt(s, n) = WithoutCR(SubSeq(s, p + 1, n - 1))
  BY <1>1, Zenon DEF LineAt
<1>3. \A i \in LineEnds(s) : i <= n => i <= p \/ i = n
  <2> SUFFICES ASSUME NEW i \in LineEnds(s), i <= n, ~(i <= p), i # n PROVE FALSE
    BY Zenon
  <2>1. i \in 1..Len(s) /\ s[i] = LF
    BY DEF LineEnds, Newlines
  <2> QED
    BY <2>1
<1>4. \A i \in LineEnds(s) : i <= p => i <= n
  BY DEF LineEnds, Newlines
<1>5. n \in LineEnds(s) <=> LineAt(s, n) # <<>>
  BY DEF LineEnds, Newlines
<1>6. EndsUpto(s, n) = EndsUpto(s, p) \cup (IF LineAt(s, n) # <<>> THEN {n} ELSE {})
  <2>1. n <= n
    OBVIOUS
  <2> QED
    BY <1>3, <1>4, <1>5, <2>1, Zenon DEF EndsUpto
<1>7. ASSUME LineAt(s, n) # <<>>
      PROVE  Listed(s, EndsUpto(s, n)) = Append(Listed(s, EndsUpto(s, p)), LineAt(s, n))
  <2> PICK E, F, L, G : E = EndsUpto(s, p) /\ F = EndsUpto(s, n) /\ L = Listed(s, E) /\ G = Listed(s, F)
    BY Zenon
  <2>0. p \in 0..Len(s) /\ n \in 0..Len(s) /\ p \in 0..n
    OBVIOUS
  <2>1. F = E \cup {n} /\ n \in F
    BY <1>6, <1>7, Zenon
  <2>2. E \subseteq 1..p /\ IsFiniteSet(E) /\ IsFiniteSet(F) /\ F \subseteq Int /\ F \subseteq 1..n
    BY <2>0, EndsAre, Zenon
  <2>3. n \notin E
    BY <2>2
  <2>4. Cardinality(F) = Cardinality(E) + 1
    BY <2>1, <2>2, <2>3, FS_AddElement, Zenon
  <2>5. Rank(F, n) = Cardinality(F)
    <3>1. {y \in F : y <= n} = F
      BY <2>2
    <3> QED
      BY <3>1, Zenon DEF Rank
  <2>6. Ascending(F)[Cardinality(F)] = n
    BY <2>1, <2>2, <2>5, AscendingHas, Zenon
  <2>7. L \in Seq(Seq(T)) /\ Len(L) = Cardinality(E) /\ Cardinality(E) \in Nat
    BY <2>0, ListedType, Zenon
  <2>8. /\ G \in Seq(Seq(T)) /\ Len(G) = Cardinality(F) /\ Cardinality(F) \in Nat
        /\ \A k \in 1..Cardinality(F) : G[k] = LineAt(s, Ascending(F)[k])
    BY <2>0, ListedType, Zenon
  <2>9. \A k \in 1..Len(L) : L[k] = G[k]
    BY <2>0, ListedPrefix, Zenon
  <2>10. G[Len(G)] = LineAt(s, n)
    <3>1. Cardinality(F) \in 1..Cardinality(F)
      BY <2>4, <2>7, <2>8
    <3> QED
      BY <2>6, <2>8, <3>1, Zenon
  <2>11. G = Append(L, LineAt(s, n))
    <3> PICK x : x = LineAt(s, n)
      BY Zenon
    <3>1. x \in Seq(T) /\ x = G[Len(G)]
      BY <2>10, LineType, Zenon
    <3>2. Len(G) = Len(L) + 1
      BY <2>4, <2>7, <2>8
    <3> HIDE <2>1, <2>2
    <3>3. G = Append(L, x)
      BY <2>7, <2>8, <2>9, <3>1, <3>2
    <3> QED
      BY <3>3, Zenon
  <2> QED
    BY <2>11, Zenon
<1>8. LineAt(s, n) # <<>> => n \in EndsUpto(s, n)
  BY <1>6, Zenon
<1> QED
  BY <1>2, <1>6, <1>7, <1>8, Zenon
-----------------------------------------------------------------------------
(* The number of bytes of a text is a natural number. *)
IsCount(f, n, s) == f = [k \in 0..n |-> IF k = 0 THEN 0 ELSE f[k - 1] + Size(s[k])]

LEMMA CountExists ==
  ASSUME NEW s, NEW n \in Nat PROVE \E f : IsCount(f, n, s)
<1> DEFINE Bad == {x \in Nat : ~\E f : IsCount(f, x, s)}
<1> SUFFICES ASSUME Bad # {} PROVE FALSE
  BY Zenon
<1>1. PICK b \in Bad : \A x \in Bad : b <= x
  BY LeastOf, Zenon
<1>2. b # 0
  <2> DEFINE f == [k \in 0..0 |-> 0]
  <2>1. IsCount(f, 0, s)
    BY DEF IsCount
  <2> QED
    BY <1>1, <2>1, Zenon
<1>3. b \in Nat /\ b - 1 \in Nat /\ b - 1 \notin Bad /\ b - 1 \in 0..b - 1
  BY <1>1, <1>2
<1>4. PICK g : IsCount(g, b - 1, s)
  BY <1>3, Zenon
<1> DEFINE f == [k \in 0..b |-> IF k = b THEN g[b - 1] + Size(s[b]) ELSE g[k]]
<1>5. ASSUME NEW k \in 0..b PROVE f[k] = IF k = 0 THEN 0 ELSE f[k - 1] + Size(s[k])
  <2>1. CASE k = b
    <3>1. b - 1 \in 0..b /\ b - 1 # b
      BY <1>3
    <3> QED
      BY <1>2, <2>1, <3>1, Zenon
  <2>2. CASE k # b
    <3>1. k \in 0..b - 1 /\ (k # 0 => k - 1 \in 0..b /\ k - 1 # b)
      BY <1>3, <1>5, <2>2
    <3>2. g[k] = IF k = 0 THEN 0 ELSE g[k - 1] + Size(s[k])
      BY <1>4, <3>1, Zenon DEF IsCount
    <3> QED
      BY <2>2, <3>1, <3>2, Zenon
  <2> QED
    BY <2>1, <2>2, Zenon
<1>6. f = [k \in 0..b |-> f[k]]
  OBVIOUS
<1> HIDE DEF f
<1>7. IsCount(f, b, s)
  BY <1>5, <1>6, Zenon DEF IsCount
<1> QED
  BY <1>1, <1>7, Zenon

LEMMA Counts == ASSUME NEW s, Len(s) \in Nat PROVE IsCount(BytesUpto(s), Len(s), s)
<1>1. PICK g : IsCount(g, Len(s), s)
  BY CountExists, Zenon
<1> QED
  BY <1>1, Zenon DEF BytesUpto, IsCount

LEMMA BytesType == ASSUME NEW s \in Texts PROVE Bytes(s) \in Nat
<1> PICK f, n : f = BytesUpto(s) /\ n = Len(s)
  BY Zenon
<1>0. n \in Nat /\ \A k \in 1..n : Size(s[k]) \in Nat
  <2>1. s \in Seq(Chunks) /\ n \in Nat /\ \A k \in 1..n : s[k] \in Chunks
    BY DEF Texts
  <2> QED
    BY <2>1, SessionAssumption, Zenon
<1>1. IsCount(f, n, s)
  BY <1>0, Counts, Zenon
<1>2. \A k \in 0..n : f[k] = IF k = 0 THEN 0 ELSE f[k - 1] + Size(s[k])
  BY <1>1, Zenon DEF IsCount
<1> DEFINE Bad == {k \in 0..n : f[k] \notin Nat}
<1>3. ASSUME Bad # {} PROVE FALSE
  <2>1. Bad \in SUBSET Nat
    BY <1>0
  <2>2. PICK b \in Bad : \A k \in Bad : b <= k
    BY <1>3, <2>1, LeastOf, Zenon
  <2>3. b \in 0..n /\ f[b] \notin Nat
    BY <2>2, Zenon
  <2>4. b # 0
    BY <1>2, <2>3
  <2>5. b \in 1..n /\ b - 1 \in 0..n /\ b - 1 \notin Bad
    BY <1>0, <2>2, <2>3, <2>4
  <2>6. f[b - 1] \in Nat /\ Size(s[b]) \in Nat
    BY <1>0, <2>5, Zenon
  <2> QED
    BY <1>2, <2>3, <2>4, <2>6
<1>4. n \in 0..n
  BY <1>0
<1> QED
  BY <1>3, <1>4, Zenon DEF Bytes

-----------------------------------------------------------------------------
(* The inductive invariant of the framing: what is in the inbox is what     *)
(* follows the last newline that was taken, and the lines queued are the    *)
(* lines up to there, or up to an earlier newline if a limit was exceeded.  *)
TooLongLine ==
    \/ \E i \in EndsUpto(script.text, read) : IsTooLong(LineAt(script.text, i))
    \/ Newlines(inbox) = {} /\ IsTooLong(inbox)

Stream ==
    /\ script.text \in Texts
    /\ read \in 0..Len(script.text)
    /\ inbox \in Texts /\ pending \in Seq(Texts) /\ accepted \in Seq(Texts)

Taken(p) ==
    /\ inbox = SubSeq(script.text, p + 1, read)
    /\ p = 0 \/ script.text[p] = LF
    /\ \E q \in 0..p : /\ accepted = Listed(script.text, EndsUpto(script.text, q))
                       /\ over = "" => q = p

Limits ==
    /\ \A i \in DOMAIN accepted : ~IsTooLong(accepted[i])
    /\ over # "" => io # "split" /\ (io = "idle" => ~open)
    /\ io = "check" => over # ""
    /\ io = "idle" /\ over = "" => Newlines(inbox) = {} /\ ~IsTooLong(inbox)
    /\ over = "line" => TooLongLine
    /\ over \in {"", "line", "backlog"}

Framing == Stream /\ Limits /\ \E p \in 0..read : Taken(p)

LEMMA FramingInit == Init => Framing
<1> SUFFICES ASSUME Init PROVE Framing
  OBVIOUS
<1>0. script.text \in Texts /\ read = 0 /\ inbox = <<>> /\ pending = <<>> /\ accepted = <<>>
  BY SessionAssumption, Zenon DEF Init
<1>1. Stream
  BY <1>0 DEF Stream, Texts
<1>2. Newlines(<<>>) = {} /\ ~IsTooLong(<<>>)
  <2> PICK f, n : f = BytesUpto(<<>>) /\ n = Len(<<>>)
    BY Zenon
  <2>0. n = 0
    OBVIOUS
  <2>1. IsCount(f, n, <<>>)
    BY <2>0, Counts, Zenon
  <2>2. f[0] = 0
    BY <2>0, <2>1 DEF IsCount
  <2>3. Bytes(<<>>) = 0
    BY <2>0, <2>2, Zenon DEF Bytes
  <2> QED
    BY <2>3, SessionAssumption DEF IsTooLong, Newlines
<1>3. Limits
  <2>1. DOMAIN accepted = {}
    BY <1>0
  <2> QED
    BY <1>2, <2>1, Zenon DEF Init, Limits
<1>4. Taken(0)
  <2> PICK s : s = script.text
    BY Zenon
  <2>1. s \in Seq(Chunks) /\ 0 \in 0..Len(s) /\ 0 \in 0..0
    BY <1>0 DEF Texts
  <2>2. EndsUpto(s, 0) = {}
    BY <2>1, EndsAre
  <2>3. /\ Listed(s, EndsUpto(s, 0)) \in Seq(Seq(Chunks))
        /\ Len(Listed(s, EndsUpto(s, 0))) = Cardinality(EndsUpto(s, 0))
    BY <2>1, ListedType, Zenon
  <2>4. Listed(s, EndsUpto(s, 0)) = <<>>
    <3> PICK L : L = Listed(s, EndsUpto(s, 0))
      BY Zenon
    <3>1. L \in Seq(Seq(Chunks)) /\ Len(L) = 0
      BY <2>2, <2>3, FS_EmptySet, Zenon
    <3>2. L = <<>>
      BY <3>1
    <3> QED
      BY <3>2, Zenon
  <2>5. SubSeq(s, 0 + 1, 0) = <<>>
    BY <2>1
  <2> QED
    BY <2>1, <2>4, <2>5, Zenon DEF Init, Taken
<1>5. 0 \in 0..read
  BY <1>0
<1> QED
  BY <1>1, <1>3, <1>4, <1>5, Zenon DEF Framing

LEMMA ReadsStep ==
  ASSUME Framing, NEW n \in 0..Unread, NEW closed, Reads(n, closed) PROVE Framing'
<1> PICK s, r : s = script.text /\ r = read
  BY Zenon
<1>0. s \in Seq(Chunks) /\ Len(s) \in Nat /\ r \in 0..Len(s) /\ n \in Nat /\ r + n \in 0..Len(s) /\ script' = script
  BY DEF Framing, Stream, Texts, Unread, Reads
<1>1. over = "" /\ over' = "" /\ io' = "split" /\ accepted' = accepted /\ pending' = pending /\ read' = r + n
  BY Zenon DEF Framing, Limits, Reads
<1>2. PICK p \in 0..r : Taken(p)
  BY Zenon DEF Framing
<1>3. inbox' = SubSeq(s, p + 1, r + n)
  <2>1. inbox' = SubSeq(s, p + 1, r) \o SubSeq(s, r + 1, r + n)
    BY <1>2, Zenon DEF Reads, Taken
  <2>2. p + 1 \in 1..Len(s) + 1 /\ r \in (p + 1) - 1..Len(s) /\ r + n \in r..Len(s)
    BY <1>0, <1>2
  <2> QED
    BY <1>0, <2>1, <2>2, SubJoin, Zenon
<1>4. Stream'
  <2>1. inbox' \in Texts
    BY <1>0, <1>3 DEF Texts
  <2> QED
    BY <1>0, <1>1, <2>1, Zenon DEF Framing, Stream
<1>5. Limits'
  BY <1>1 DEF Framing, Limits
<1>6. Taken(p)'
  <2>1. inbox' = SubSeq(script'.text, p + 1, read')
    BY <1>0, <1>1, <1>3, Zenon
  <2> QED
    BY <1>0, <1>1, <1>2, <2>1, Zenon DEF Taken
<1>7. p \in 0..read'
  <2>1. p \in 0..r + n
    BY <1>0
  <2> QED
    BY <1>1, <2>1, Zenon
<1> QED
  BY <1>4, <1>5, <1>6, <1>7, Zenon DEF Framing

LEMMA FinishesStep == ASSUME Framing, Finishes PROVE Framing'
<1>0. UNCHANGED <<script, read, inbox, pending, accepted>> /\ io' = "idle"
  BY Zenon DEF Finishes
<1>1. Stream'
  BY <1>0, Zenon DEF Framing, Stream
<1>2. CASE over = ""
  <2>1. io = "split" /\ Newlines(inbox) = {}
    BY <1>2, Zenon DEF Finishes, Framing, Limits
  <2>2. over' = (IF IsTooLong(inbox) THEN "line" ELSE "") /\ (over' # "" => ~open')
    BY <1>2, Zenon DEF Finishes
  <2>3. IsTooLong(inbox) => TooLongLine'
    BY <1>0, <2>1, Zenon DEF TooLongLine, IsTooLong
  <2>4. Limits'
    BY <1>0, <2>1, <2>2, <2>3, Zenon DEF Framing, Limits, IsTooLong
  <2> QED
    BY <1>0, <1>1, <1>2, <2>4, Zenon DEF Framing, Taken
<1>3. CASE over # ""
  <2>1. over' = over /\ ~open'
    BY <1>3, Zenon DEF Finishes
  <2>2. TooLongLine => TooLongLine'
    BY <1>0, Zenon DEF TooLongLine, IsTooLong
  <2>3. Limits'
    BY <1>0, <1>3, <2>1, <2>2, Zenon DEF Framing, Limits, IsTooLong
  <2> QED
    BY <1>0, <1>1, <2>1, <2>3, Zenon DEF Framing, Taken
<1> QED
  BY <1>2, <1>3, Zenon

LEMMA ExecutesStep == ASSUME Framing, Executes PROVE Framing'
<1>0. UNCHANGED <<script, read, inbox, io, over, open, accepted>> /\ pending # <<>> /\ pending' = Tail(pending)
  BY Zenon DEF Executes
<1>1. pending' \in Seq(Texts)
  <2>1. pending \in Seq(Texts)
    BY Zenon DEF Framing, Stream
  <2> QED
    BY <1>0, <2>1
<1>2. Stream'
  BY <1>0, <1>1, Zenon DEF Framing, Stream
<1>3. Limits'
  BY <1>0, Zenon DEF Framing, Limits, TooLongLine, IsTooLong
<1> QED
  BY <1>0, <1>2, <1>3, Zenon DEF Framing, Taken
LEMMA TakesStep == ASSUME Framing, TakesLine PROVE Framing'
<1> PICK s, r : s = script.text /\ r = read
  BY Zenon
<1>0. s \in Seq(Chunks) /\ Len(s) \in Nat /\ r \in 0..Len(s) /\ UNCHANGED <<script, read, open>>
  BY DEF Framing, Stream, Texts, TakesLine
<1>1. over = "" /\ io = "split"
  BY Zenon DEF Framing, Limits, TakesLine
<1>2. PICK p \in 0..r : Taken(p)
  BY Zenon DEF Framing
<1>3. inbox = SubSeq(s, p + 1, r) /\ (p = 0 \/ s[p] = LF) /\ accepted = Listed(s, EndsUpto(s, p))
  BY <1>1, <1>2, Zenon DEF Taken
<1>4. p \in Nat /\ r \in Nat /\ p <= r /\ r <= Len(s)
  BY <1>0
<1>5. inbox \in Seq(Chunks) /\ Len(inbox) = r - p /\ \A i \in 1..r - p : inbox[i] = s[p + i]
  BY <1>0, <1>3, <1>4
<1> PICK m : m = Min(Newlines(inbox))
  BY Zenon
<1> DEFINE line == WithoutCR(SubSeq(inbox, 1, m - 1))
           n == p + m
<1>6. m \in 1..r - p /\ inbox[m] = LF /\ \A i \in 1..m - 1 : inbox[i] # LF
  <2>1. Newlines(inbox) # {} /\ Newlines(inbox) \in SUBSET Nat /\ Newlines(inbox) \subseteq 1..r - p
    BY <1>5 DEF TakesLine, Newlines
  <2>2. m \in Newlines(inbox) /\ \A i \in Newlines(inbox) : m <= i
    BY <2>1, MinOf, Zenon
  <2>3. m \in 1..r - p /\ inbox[m] = LF
    BY <2>1, <2>2 DEF Newlines
  <2> SUFFICES ASSUME NEW i \in 1..m - 1, inbox[i] = LF PROVE FALSE
    BY <2>3, Zenon
  <2>4. i \in Newlines(inbox) /\ ~(m <= i)
    BY <1>5, <2>3 DEF Newlines
  <2> QED
    BY <2>2, <2>4, Zenon
<1>7. /\ n \in 1..Len(s) /\ p \in 0..n - 1 /\ s[n] = LF /\ n \in 0..r /\ p \in 0..n /\ n \in 0..Len(s)
      /\ n <= r
  BY <1>0, <1>4, <1>5, <1>6
<1>8. \A j \in p + 1..n - 1 : s[j] # LF
  <2> SUFFICES ASSUME NEW j \in p + 1..n - 1 PROVE s[j] # LF
    BY Zenon
  <2>1. j - p \in 1..m - 1 /\ j - p \in 1..r - p /\ p + (j - p) = j
    BY <1>4, <1>6
  <2> QED
    BY <1>5, <1>6, <2>1, Zenon
<1>9. SubSeq(inbox, 1, m - 1) = SubSeq(s, p + 1, n - 1)
  <2>1. 1 \in Nat \ {0} /\ m - 1 \in Int /\ p + (m - 1) <= r /\ p \in 0..Len(s) /\ r \in p..Len(s)
        /\ p + (m - 1) = n - 1
    BY <1>0, <1>4, <1>6
  <2>2. SubSeq(SubSeq(s, p + 1, r), 1, m - 1) = SubSeq(s, p + 1, p + (m - 1))
    BY <1>0, <2>1, SubSub
  <2> QED
    BY <1>3, <2>1, <2>2, Zenon
<1>10. SubSeq(inbox, m + 1, Len(inbox)) = SubSeq(s, n + 1, r)
  <2>1. p \in 0..Len(s) /\ r \in p..Len(s)
    BY <1>0, <1>4
  <2>2. \A k \in 1..r - p : SubSeq(SubSeq(s, p + 1, r), k + 1, r - p) = SubSeq(s, p + k + 1, r)
    BY <1>0, <2>1, SubRest
  <2> QED
    BY <1>3, <1>5, <1>6, <2>2, Zenon
<1> HIDE DEF n
<1>11. /\ LineAt(s, n) = line
       /\ line = <<>> => EndsUpto(s, n) = EndsUpto(s, p)
       /\ line # <<>> => /\ n \in EndsUpto(s, n)
                         /\ Listed(s, EndsUpto(s, n)) = Append(Listed(s, EndsUpto(s, p)), line)
  <2>1. /\ LineAt(s, n) = WithoutCR(SubSeq(s, p + 1, n - 1))
        /\ LineAt(s, n) = <<>> => EndsUpto(s, n) = EndsUpto(s, p)
        /\ LineAt(s, n) # <<>> =>
              /\ n \in EndsUpto(s, n)
              /\ Listed(s, EndsUpto(s, n)) = Append(Listed(s, EndsUpto(s, p)), LineAt(s, n))
    BY <1>0, <1>3, <1>7, <1>8, NextLine, Zenon
  <2> QED
    BY <1>9, <2>1, Zenon
<1>12. line \in Texts
  BY <1>0, <1>7, <1>11, LineType, Zenon DEF Texts
<1> HIDE DEF line
<1>13. inbox' = SubSeq(s, n + 1, r)
  BY <1>10, Zenon DEF TakesLine
<1>14. \/ line = <<>> /\ UNCHANGED <<pending, accepted, io, over>>
       \/ line # <<>> /\ IsTooLong(line) /\ over' = "line" /\ io' = "check" /\ UNCHANGED <<pending, accepted>>
       \/ line # <<>> /\ over' = "backlog" /\ io' = "check" /\ UNCHANGED <<pending, accepted>>
       \/ /\ line # <<>> /\ ~IsTooLong(line) /\ UNCHANGED <<io, over>>
          /\ pending' = Append(pending, line) /\ accepted' = Append(accepted, line)
  BY Zenon DEF TakesLine, line
<1>15. Stream'
  <2>1. inbox' \in Texts
    BY <1>0, <1>7, <1>13 DEF Texts
  <2>2. pending' \in Seq(Texts) /\ accepted' \in Seq(Texts)
    <3>1. pending \in Seq(Texts) /\ accepted \in Seq(Texts)
      BY Zenon DEF Framing, Stream
    <3>2. Append(pending, line) \in Seq(Texts) /\ Append(accepted, line) \in Seq(Texts)
      BY <1>12, <3>1
    <3> QED
      BY <1>14, <3>1, <3>2, Zenon
  <2> QED
    BY <1>0, <2>1, <2>2, Zenon DEF Framing, Stream
<1>16. Taken(n)'
  <2>1. inbox' = SubSeq(script'.text, n + 1, read') /\ script'.text[n] = LF /\ script'.text = s
    BY <1>0, <1>7, <1>13, Zenon
  <2>2. \E q \in 0..n : accepted' = Listed(s, EndsUpto(s, q)) /\ (over' = "" => q = n)
    <3>1. n \in 0..n
      BY <1>7
    <3>2. CASE line = <<>> \/ over' = ""
      BY <1>1, <1>3, <1>11, <1>14, <3>1, <3>2, Zenon
    <3>3. CASE line # <<>> /\ over' # ""
      BY <1>1, <1>3, <1>7, <1>14, <3>3, Zenon
    <3> QED
      BY <3>2, <3>3, Zenon
  <2> QED
    BY <2>1, <2>2, Zenon DEF Taken
<1>17. Limits'
  <2>1. \A i \in DOMAIN accepted' : ~IsTooLong(accepted'[i])
    <3>1. \A i \in DOMAIN accepted : ~IsTooLong(accepted[i])
      BY Zenon DEF Framing, Limits
    <3>2. CASE accepted' = accepted
      BY <3>1, <3>2, Zenon
    <3>3. CASE accepted' = Append(accepted, line) /\ ~IsTooLong(line)
      <4>1. accepted \in Seq(Texts)
        BY Zenon DEF Framing, Stream
      <4>2. \A i \in DOMAIN accepted' : accepted'[i] = line \/ (i \in DOMAIN accepted /\ accepted'[i] = accepted[i])
        BY <1>12, <3>3, <4>1
      <4> QED
        BY <3>1, <3>3, <4>2, Zenon
    <3> QED
      BY <1>14, <3>2, <3>3, Zenon
  <2>2. over' = "line" => TooLongLine'
    <3> SUFFICES ASSUME over' = "line" PROVE TooLongLine'
      BY Zenon
    <3>1. line # <<>> /\ IsTooLong(line)
      BY <1>1, <1>14, Zenon
    <3>2. n \in EndsUpto(s, r)
      BY <1>7, <1>11, <3>1, Zenon DEF EndsUpto
    <3>3. IsTooLong(LineAt(s, n))
      BY <1>11, <3>1, Zenon
    <3> QED
      BY <1>0, <3>2, <3>3, Zenon DEF TooLongLine, IsTooLong
  <2>3. over' \in {"", "line", "backlog"} /\ (over' # "" => io' = "check") /\ (over' = "" => io' = "split")
    BY <1>1, <1>14, Zenon
  <2> QED
    BY <2>1, <2>2, <2>3, Zenon DEF Limits, IsTooLong
<1>18. n \in 0..read'
  BY <1>0, <1>7, Zenon
<1> QED
  BY <1>15, <1>16, <1>17, <1>18, Zenon DEF Framing

LEMMA FramingNext == Framing /\ [Next]_vars => Framing'
<1> SUFFICES ASSUME Framing, [Next]_vars PROVE Framing'
  OBVIOUS
<1>1. CASE UNCHANGED vars
  BY <1>1, Zenon DEF vars, conn, Framing, Stream, Limits, Taken, TooLongLine, IsTooLong
<1>2. CASE \E n \in 0..Unread, closed \in BOOLEAN : Reads(n, closed)
  BY <1>2, ReadsStep, Zenon
<1>3. CASE TakesLine
  BY <1>3, TakesStep, Zenon
<1>4. CASE Finishes
  BY <1>4, FinishesStep, Zenon
<1>5. CASE Executes
  BY <1>5, ExecutesStep, Zenon
<1> QED
  BY <1>1, <1>2, <1>3, <1>4, <1>5, Zenon DEF Next

LEMMA FramingHolds == Spec => []Framing
BY FramingInit, FramingNext, PTL DEF Spec

LEMMA RestIs ==
  ASSUME Framing, NEW p \in 0..read, Taken(p), Newlines(inbox) = {} PROVE Rest(Received) = inbox
<1> PICK s, r : s = script.text /\ r = read
  BY Zenon
<1>0. s \in Seq(Chunks) /\ Len(s) \in Nat /\ r \in 0..Len(s)
  BY DEF Framing, Stream, Texts
<1>1. inbox = SubSeq(s, p + 1, r) /\ (p = 0 \/ s[p] = LF)
  BY Zenon DEF Taken
<1>2. \A j \in p + 1..(r + 1) - 1 : s[j] # LF
  <2> SUFFICES ASSUME NEW j \in p + 1..(r + 1) - 1, s[j] = LF PROVE FALSE
    BY Zenon
  <2>1. j - p \in DOMAIN inbox /\ inbox[j - p] = LF
    BY <1>0, <1>1
  <2> QED
    BY <2>1, Zenon DEF Newlines
<1>3. r + 1 \in 1..Len(s) + 1 /\ p \in 0..(r + 1) - 1 /\ r + 1 \in 1..r + 1
  BY <1>0
<1>4. LineStart(s, r + 1) = p + 1
  BY <1>0, <1>1, <1>2, <1>3, StartIs, Zenon
<1> DEFINE u == SubSeq(s, 1, r)
<1>5. LineStart(u, r + 1) = p + 1 /\ Len(u) = r
  BY <1>0, <1>3, <1>4, LineOfCut, Cut, Zenon
<1>6. SubSeq(u, p + 1, r) = inbox
  BY <1>0, <1>1
<1> HIDE DEF u
<1> QED
  BY <1>5, <1>6, Zenon DEF Rest, Received, u

LEMMA FramedIs == ASSUME Framing PROVE LinesOfTheStream
<1> PICK s, r : s = script.text /\ r = read
  BY Zenon
<1>0. s \in Seq(Chunks) /\ r \in 0..Len(s)
  BY DEF Framing, Stream, Texts
<1>1. PICK p \in 0..r : Taken(p)
  BY Zenon DEF Framing
<1>2. PICK q \in 0..p : accepted = Listed(s, EndsUpto(s, q)) /\ (over = "" => q = p)
  BY <1>1, Zenon DEF Taken
<1>3. q \in 0..r /\ p \in 0..r
  BY <1>0
<1>4. Lines(Received) = Listed(s, EndsUpto(s, r))
  BY <1>0, LinesOfCut, Zenon DEF Received
<1>5. \E n \in 0..Len(Lines(Received)) : accepted = SubSeq(Lines(Received), 1, n)
  BY <1>0, <1>2, <1>3, <1>4, ListedPrefix, Zenon
<1>6. ASSUME io = "idle", over = "" PROVE accepted = Lines(Received) /\ inbox = Rest(Received)
  <2>1. Newlines(inbox) = {}
    BY <1>6, Zenon DEF Framing, Limits
  <2>2. inbox = Rest(Received)
    BY <1>1, <2>1, RestIs, Zenon
  <2>3. EndsUpto(s, p) = EndsUpto(s, r)
    <3> SUFFICES ASSUME NEW i \in LineEnds(s), i <= r, ~(i <= p) PROVE FALSE
      <4>1. \A i \in LineEnds(s) : i <= p => i <= r
        BY <1>0, <1>3 DEF LineEnds, Newlines
      <4> QED
        BY <4>1, Zenon DEF EndsUpto
    <3>1. i \in 1..Len(s) /\ s[i] = LF
      BY <1>0 DEF LineEnds, Newlines
    <3>2. inbox = SubSeq(s, p + 1, r)
      BY <1>1, Zenon DEF Taken
    <3>3. i - p \in DOMAIN inbox /\ inbox[i - p] = LF
      BY <1>0, <1>3, <3>1, <3>2
    <3> QED
      BY <2>1, <3>3, Zenon DEF Newlines
  <2> QED
    BY <1>2, <1>4, <1>6, <2>2, <2>3, Zenon
<1> QED
  BY <1>5, <1>6, Zenon DEF LinesOfTheStream

(* However the stream is cut into pieces, the lines that are queued are the *)
(* lines of the stream, in order, none lost, joined, split or repeated      *)
(* (handleReadable): for every script, every way of reading it and every    *)
(* limit.                                                                   *)
THEOREM Framed == Spec => []LinesOfTheStream
<1>1. Framing => LinesOfTheStream
  BY FramedIs, Zenon
<1> QED
  BY <1>1, FramingHolds, PTL

(* kMaxLineBytes is exact, for every size of a chunk and every limit: a     *)
(* connection is dropped for the length of a line if and only if one was    *)
(* longer, and no longer line is queued (handleReadable).                   *)
THEOREM LimitExact == Spec => []LimitIsExact
<1>1. Framing => LimitIsExact
  <2> SUFFICES ASSUME Framing PROVE LimitIsExact
    BY Zenon
  <2> PICK s, r : s = script.text /\ r = read
    BY Zenon
  <2>0. s \in Seq(Chunks) /\ r \in 0..Len(s) /\ inbox \in Texts
    BY DEF Framing, Stream, Texts
  <2>1. \A x \in Texts : ~IsTooLong(x) <=> Bytes(x) <= MaxLine
    <3> TAKE x \in Texts
    <3>1. Bytes(x) \in Nat /\ MaxLine \in Nat
      BY BytesType, SessionAssumption, Zenon
    <3> QED
      BY <3>1 DEF IsTooLong
  <2>2. \A i \in DOMAIN accepted : Bytes(accepted[i]) <= MaxLine
    <3>1. \A i \in DOMAIN accepted : accepted[i] \in Texts /\ ~IsTooLong(accepted[i])
      <4>1. accepted \in Seq(Texts)
        BY Zenon DEF Framing, Stream
      <4>2. \A i \in DOMAIN accepted : accepted[i] \in Texts
        BY <4>1
      <4> QED
        BY <4>2, Zenon DEF Framing, Limits
    <3> QED
      BY <2>1, <3>1, Zenon
  <2>3. PICK p \in 0..r : Taken(p)
    BY Zenon DEF Framing
  <2>4. Lines(Received) = Listed(s, EndsUpto(s, r))
    BY <2>0, LinesOfCut, Zenon DEF Received
  <2>5. ASSUME io = "idle", over = "line"
        PROVE  \/ \E i \in DOMAIN Lines(Received) : Bytes(Lines(Received)[i]) > MaxLine
               \/ Bytes(Rest(Received)) > MaxLine
    <3>1. TooLongLine
      BY <2>5, Zenon DEF Framing, Limits
    <3>2. CASE \E i \in EndsUpto(s, r) : IsTooLong(LineAt(s, i))
      BY <2>0, <2>4, <3>2, ListedHas, Zenon DEF IsTooLong
    <3>3. CASE Newlines(inbox) = {} /\ IsTooLong(inbox)
      BY <2>3, <3>3, RestIs, Zenon DEF IsTooLong
    <3> QED
      BY <3>1, <3>2, <3>3, Zenon DEF TooLongLine
  <2>6. ASSUME io = "idle", over = ""
        PROVE  /\ \A i \in DOMAIN Lines(Received) : ~(Bytes(Lines(Received)[i]) > MaxLine)
               /\ ~(Bytes(Rest(Received)) > MaxLine)
    <3>0. Newlines(inbox) = {} /\ ~IsTooLong(inbox)
      BY <2>6, Zenon DEF Framing, Limits
    <3>1. accepted = Lines(Received)
      BY <2>6, FramedIs, Zenon DEF LinesOfTheStream
    <3>2. inbox = Rest(Received)
      BY <2>3, <3>0, RestIs, Zenon
    <3>3. \A i \in DOMAIN accepted : ~IsTooLong(accepted[i])
      BY Zenon DEF Framing, Limits
    <3> QED
      BY <3>0, <3>1, <3>2, <3>3, Zenon DEF IsTooLong
  <2>7. over \in {"", "line", "backlog"}
    BY Zenon DEF Framing, Limits
  <2> QED
    BY <2>2, <2>5, <2>6, <2>7, Zenon DEF LimitIsExact
<1> QED
  BY <1>1, FramingHolds, PTL

-----------------------------------------------------------------------------
(* The lexer: what a token may be. *)
Ops == {<<"=">>, <<"!", "=">>, <<"<">>, <<"<", "=">>, <<">">>, <<">", "=">>}

Operands  == [type : {"IDENTIFIER", "NUMBER", "STRING"}, value : Texts, position : Nat]
Operators == [type : {"OPERATOR"}, value : Ops, position : Nat]
Others    == [type : {"KEYWORD", "PUNCTUATION", "END", "ERROR"},
              value : Seq(Chunks \cup Keywords), position : Nat]
Tokens    == Operands \cup Operators \cup Others

LEMMA RunEnds ==
  ASSUME NEW T, NEW s \in Seq(T), NEW i \in 1..Len(s) + 1, NEW class, "END" \notin class
  PROVE  /\ RunEnd(s, i, class) \in i..Len(s) + 1
         /\ At(s, RunEnd(s, i, class)) \notin class
         /\ \A j \in i..RunEnd(s, i, class) - 1 : At(s, j) \in class
<1> DEFINE C == {j \in i..Len(s) + 1 : At(s, j) \notin class}
           m == Min(C)
<1>1. C \in SUBSET Nat /\ Len(s) + 1 \in C
  BY DEF At
<1>2. m \in C /\ \A j \in C : m <= j
  BY <1>1, MinOf, Zenon
<1>3. m \in i..Len(s) + 1 /\ At(s, m) \notin class
  BY <1>2, Zenon
<1>4. ASSUME NEW j \in i..m - 1, At(s, j) \notin class PROVE FALSE
  <2>1. j \in i..Len(s) + 1 /\ ~(m <= j)
    BY <1>3, <1>4
  <2> QED
    BY <1>2, <1>4, <2>1, Zenon
<1> QED
  BY <1>3, <1>4, Zenon DEF RunEnd

(* The content of a literal. *)
LEMMA QuoteAhead ==
  ASSUME NEW T, NEW s \in Seq(T), NEW q \in Quotes, NEW i \in 1..Len(s), At(s, i + 1) = q
  PROVE  i + 1 \in 1..Len(s)
<1>1. q # "END"
  BY Zenon DEF Quotes
<1>2. i + 1 \in DOMAIN s
  BY <1>1, Zenon DEF At
<1> QED
  BY <1>2

ContentAt(f, i, s, q) ==
    IF i > Len(s)             THEN [content |-> <<>>, next |-> 0]
    ELSE IF s[i] # q          THEN After(s[i], f[i + 1])
    ELSE IF At(s, i + 1) = q  THEN After(q, f[i + 2])
    ELSE [content |-> <<>>, next |-> i + 1]

IsContent(f, k, s, q) == f = [i \in k..Len(s) + 1 |-> ContentAt(f, i, s, q)]

LEMMA ContentExists ==
  ASSUME NEW T, NEW s \in Seq(T), NEW q \in Quotes PROVE \E f : IsContent(f, 1, s, q)
<1> PICK n : n = Len(s)
  BY Zenon
<1> DEFINE Bad == {d \in 0..n : ~\E f : IsContent(f, n + 1 - d, s, q)}
<1>0. n \in Nat
  OBVIOUS
<1>1. ASSUME Bad # {} PROVE FALSE
  <2>1. PICK d \in Bad : \A x \in Bad : d <= x
    <3>1. Bad \in SUBSET Nat
      BY <1>0
    <3> QED
      BY <1>1, <3>1, LeastOf, Zenon
  <2> PICK b : b = n + 1 - d
    BY Zenon
  <2>2. d \in 0..n /\ b \in 1..n + 1
    BY <1>0
  <2>3. PICK g : b + 1 <= n + 1 => IsContent(g, b + 1, s, q)
    <3>1. CASE b + 1 <= n + 1
      <4>1. d - 1 \in 0..n /\ ~(d <= d - 1) /\ n + 1 - (d - 1) = b + 1
        BY <1>0, <2>2, <3>1
      <4>2. d - 1 \notin Bad
        BY <2>1, <4>1, Zenon
      <4> QED
        BY <4>1, <4>2, Zenon
    <3> QED
      BY <3>1, Zenon
  <2> DEFINE f == [i \in b..n + 1 |-> IF i = b THEN ContentAt(g, b, s, q) ELSE g[i]]
  <2>4. \A i \in b + 1..n + 1 : f[i] = g[i]
    BY <2>2
  <2>5. ASSUME NEW i \in b..n + 1 PROVE ContentAt(f, i, s, q) = ContentAt(g, i, s, q)
    <3>1. CASE i > n
      BY <3>1 DEF ContentAt
    <3>2. CASE ~(i > n)
      <4>1. i + 1 \in b + 1..n + 1 /\ (At(s, i + 1) = q => i + 2 \in b + 1..n + 1)
        BY <1>0, <2>2, <3>2, QuoteAhead
      <4> HIDE DEF f
      <4> QED
        BY <2>4, <4>1, Zenon DEF ContentAt
    <3> QED
      BY <3>1, <3>2, Zenon
  <2>6. ASSUME NEW i \in b..n + 1 PROVE f[i] = ContentAt(f, i, s, q)
    <3>1. CASE i = b
      BY <2>5, <3>1, Zenon
    <3>2. CASE i # b
      <4>1. i \in b + 1..n + 1 /\ b + 1 <= n + 1
        BY <1>0, <2>2, <3>2
      <4>2. g[i] = ContentAt(g, i, s, q)
        BY <2>3, <4>1, Zenon DEF IsContent
      <4> QED
        BY <2>4, <2>5, <4>1, <4>2, Zenon
    <3> QED
      BY <3>1, <3>2, Zenon
  <2>7. f = [i \in b..n + 1 |-> f[i]]
    OBVIOUS
  <2> HIDE DEF f
  <2>8. IsContent(f, b, s, q)
    BY <2>6, <2>7, Zenon DEF IsContent
  <2> QED
    BY <2>1, <2>8, Zenon
<1>2. n \in 0..n /\ n + 1 - n = 1
  BY <1>0
<1> QED
  BY <1>1, <1>2, Zenon

LEMMA Contents ==
  ASSUME NEW T, NEW s \in Seq(T), NEW q \in Quotes, NEW i \in 1..Len(s) + 1
  PROVE  Content(s, q)[i] = ContentAt(Content(s, q), i, s, q)
<1>1. PICK g : IsContent(g, 1, s, q)
  BY ContentExists, Zenon
<1>2. IsContent(Content(s, q), 1, s, q)
  BY <1>1, Zenon DEF Content, IsContent, ContentAt
<1> QED
  BY <1>2, Zenon DEF IsContent

LEMMA ContentType ==
  ASSUME NEW T, NEW s \in Seq(T), NEW q \in Quotes, NEW i \in 1..Len(s) + 1
  PROVE  /\ Content(s, q)[i].content \in Seq(T)
         /\ Content(s, q)[i].next \in {0} \cup i + 1..Len(s) + 1
<1> PICK n, f : n = Len(s) /\ f = Content(s, q)
  BY Zenon
<1>0. n \in Nat /\ \A j \in 1..n + 1 : f[j] = ContentAt(f, j, s, q)
  <2>1. n \in Nat
    OBVIOUS
  <2> QED
    BY <2>1, Contents, Zenon
<1> DEFINE Good(j) == f[j].content \in Seq(T) /\ f[j].next \in {0} \cup j + 1..n + 1
           Bad == {d \in 0..n : ~Good(n + 1 - d)}
<1>1. ASSUME Bad # {} PROVE FALSE
  <2>1. PICK d \in Bad : \A x \in Bad : d <= x
    <3>1. Bad \in SUBSET Nat
      BY <1>0
    <3> QED
      BY <1>1, <3>1, LeastOf, Zenon
  <2> PICK b : b = n + 1 - d
    BY Zenon
  <2>2. d \in 0..n /\ b \in 1..n + 1 /\ ~Good(b)
    BY <1>0
  <2>3. ASSUME NEW j \in b + 1..n + 1 PROVE Good(j)
    <3>1. n + 1 - j \in 0..n /\ ~(d <= n + 1 - j) /\ n + 1 - (n + 1 - j) = j
      BY <1>0, <2>2
    <3> QED
      BY <2>1, <3>1, Zenon
  <2>4. f[b] = ContentAt(f, b, s, q)
    BY <1>0, <2>2, Zenon
  <2>5. CASE b > n
    BY <1>0, <2>2, <2>4, <2>5 DEF ContentAt
  <2>6. CASE b <= n /\ s[b] # q
    <3>1. b + 1 \in b + 1..n + 1 /\ s[b] \in T
      BY <1>0, <2>2, <2>6
    <3>2. f[b] = After(s[b], f[b + 1])
      BY <1>0, <2>2, <2>4, <2>6 DEF ContentAt
    <3>3. Good(b + 1)
      BY <2>3, <3>1, Zenon
    <3>4. f[b].content \in Seq(T) /\ f[b].next = f[b + 1].next
      BY <3>1, <3>2, <3>3 DEF After
    <3> QED
      BY <1>0, <2>2, <3>3, <3>4
  <2>7. CASE b <= n /\ s[b] = q /\ At(s, b + 1) = q
    <3>1. b + 2 \in b + 1..n + 1 /\ q \in T
      BY <1>0, <2>2, <2>7, QuoteAhead
    <3>2. f[b] = After(q, f[b + 2])
      BY <1>0, <2>2, <2>4, <2>7 DEF ContentAt
    <3>3. Good(b + 2)
      BY <2>3, <3>1, Zenon
    <3>4. f[b].content \in Seq(T) /\ f[b].next = f[b + 2].next
      BY <3>1, <3>2, <3>3 DEF After
    <3> QED
      BY <1>0, <2>2, <3>3, <3>4
  <2>8. CASE b <= n /\ s[b] = q /\ At(s, b + 1) # q
    BY <1>0, <2>2, <2>4, <2>8 DEF ContentAt
  <2> QED
    BY <1>0, <2>2, <2>5, <2>6, <2>7, <2>8
<1>2. n + 1 - i \in 0..n /\ n + 1 - (n + 1 - i) = i
  BY <1>0
<1>3. Good(i)
  BY <1>1, <1>2, Zenon
<1> QED
  BY <1>3, Zenon
(* A token that is read at position i of s, or why there is none. *)
Reading(r, s, i) ==
    /\ r.token \in Tokens /\ r.token.type # "END" /\ r.token.position = i
    /\ r.token.type # "ERROR" => r.next \in i + 1..Len(s) + 1

LEMMA ScannedIs ==
  ASSUME NEW s \in Texts, NEW i \in 1..Len(s), NEW e
  PROVE  /\ \A v \in Texts, type \in {"IDENTIFIER", "NUMBER", "STRING"} :
              e \in i + 1..Len(s) + 1 => Reading(Scanned(type, v, i, e), s, i)
         /\ \A v \in Ops : e \in i + 1..Len(s) + 1 => Reading(Scanned("OPERATOR", v, i, e), s, i)
         /\ \A v \in Seq(Chunks \cup Keywords), type \in {"KEYWORD", "PUNCTUATION"} :
              e \in i + 1..Len(s) + 1 => Reading(Scanned(type, v, i, e), s, i)
         /\ Reading(Stuck(i), s, i)
<1>0. i \in Nat
  BY DEF Texts
<1>1. ASSUME NEW v \in Texts, NEW type \in {"IDENTIFIER", "NUMBER", "STRING"},
             e \in i + 1..Len(s) + 1
      PROVE  Reading(Scanned(type, v, i, e), s, i)
  <2>1. [type |-> type, value |-> v, position |-> i] \in Operands /\ type # "END"
    BY <1>0 DEF Operands
  <2> QED
    BY <1>1, <2>1 DEF Reading, Scanned, Tokens
<1>2. ASSUME NEW v \in Ops, e \in i + 1..Len(s) + 1
      PROVE  Reading(Scanned("OPERATOR", v, i, e), s, i)
  <2>1. [type |-> "OPERATOR", value |-> v, position |-> i] \in Operators
    BY <1>0 DEF Operators
  <2> QED
    BY <1>2, <2>1 DEF Reading, Scanned, Tokens
<1>3. ASSUME NEW v \in Seq(Chunks \cup Keywords), NEW type \in {"KEYWORD", "PUNCTUATION"},
             e \in i + 1..Len(s) + 1
      PROVE  Reading(Scanned(type, v, i, e), s, i)
  <2>1. [type |-> type, value |-> v, position |-> i] \in Others /\ type # "END"
    BY <1>0 DEF Others
  <2> QED
    BY <1>3, <2>1 DEF Reading, Scanned, Tokens
<1>4. Reading(Stuck(i), s, i)
  <2>1. [type |-> "ERROR", value |-> <<>>, position |-> i] \in Others
    BY <1>0 DEF Others
  <2> QED
    BY <2>1 DEF Reading, Scanned, Tokens, Stuck
<1> QED
  BY <1>1, <1>2, <1>3, <1>4, Zenon

LEMMA WordType ==
  ASSUME NEW s \in Texts, NEW i \in 1..Len(s), s[i] \in Letters PROVE Reading(Word(s, i), s, i)
<1> PICK end, word : end = RunEnd(s, i, IdentChars) /\ word = SubSeq(s, i, end - 1)
  BY Zenon
<1> DEFINE upper == [k \in DOMAIN word |-> Upper(word[k])]
<1>0. s \in Seq(Chunks) /\ i \in 1..Len(s) + 1 /\ i \in DOMAIN s
  BY DEF Texts
<1>1. "END" \notin IdentChars /\ At(s, i) \in IdentChars
  BY <1>0, LetterAssumption, Zenon DEF IdentChars, Digits, At
<1>2. end \in i..Len(s) + 1 /\ At(s, end) \notin IdentChars
  BY <1>0, <1>1, RunEnds, Zenon
<1>3. end # i
  BY <1>1, <1>2, Zenon
<1>4. end \in i + 1..Len(s) + 1
  BY <1>0, <1>2, <1>3
<1>5. word \in Seq(Chunks)
  BY <1>0, <1>4
<1>6. ASSUME IsKeyword(upper) PROVE upper \in Seq(Chunks \cup Keywords)
  <2> PICK T, n : T = {Upper(word[k]) : k \in DOMAIN word} /\ n = Len(word)
    BY Zenon
  <2>0. n \in Nat /\ DOMAIN word = 1..n
    BY <1>5
  <2>1. \A k \in 1..n : upper[k] \in T
    BY <2>0, Zenon
  <2>2. upper = [k \in 1..n |-> upper[k]]
    BY <2>0, Zenon
  <2>3. Len(upper) = 1 /\ upper[1] \in Keywords
    BY <1>6, Zenon DEF IsKeyword
  <2> HIDE DEF upper
  <2>4. upper \in Seq(T)
    BY <2>0, <2>1, <2>2, SeqIs, Zenon
  <2> QED
    BY <2>3, <2>4, SeqOfOne, Zenon
<1> HIDE DEF upper
<1>7. IsKeyword(upper) => Reading(Scanned("KEYWORD", upper, i, end), s, i)
  BY <1>4, <1>6, ScannedIs, Zenon
<1>8. Reading(Scanned("IDENTIFIER", word, i, end), s, i)
  BY <1>4, <1>5, ScannedIs, Zenon DEF Texts
<1> QED
  BY <1>7, <1>8, Zenon DEF Word, upper

LEMMA NumberType ==
  ASSUME NEW s \in Texts, NEW i \in 1..Len(s) PROVE Reading(Number(s, i), s, i)
<1> PICK end : end = RunEnd(s, i + 1, Digits)
  BY Zenon
<1>0. s \in Seq(Chunks) /\ i + 1 \in 1..Len(s) + 1
  BY DEF Texts
<1>1. "END" \notin Digits
  BY Zenon DEF Digits
<1>2. end \in i + 1..Len(s) + 1
  BY <1>0, <1>1, RunEnds, Zenon
<1>3. SubSeq(s, i, end - 1) \in Texts
  BY <1>0, <1>2 DEF Texts
<1> QED
  BY <1>2, <1>3, ScannedIs, Zenon DEF Number

LEMMA StringType ==
  ASSUME NEW s \in Texts, NEW i \in 1..Len(s), s[i] \in Quotes PROVE Reading(String(s, i), s, i)
<1> PICK literal : literal = Content(s, s[i])[i + 1]
  BY Zenon
<1>0. s \in Seq(Chunks) /\ i + 1 \in 1..Len(s) + 1
  BY DEF Texts
<1>1. literal.content \in Seq(Chunks) /\ literal.next \in {0} \cup i + 1 + 1..Len(s) + 1
  BY <1>0, ContentType, Zenon
<1>2. literal.next # 0 => literal.next \in i + 1..Len(s) + 1
  BY <1>0, <1>1
<1> QED
  BY <1>1, <1>2, ScannedIs, Zenon DEF String, Texts

LEMMA OperatorType ==
  ASSUME NEW s \in Texts, NEW i \in 1..Len(s), s[i] \in {"=", "<", ">", "!"}
  PROVE  Reading(Operator(s, i), s, i)
<1>0. s \in Seq(Chunks) /\ i + 1 \in i + 1..Len(s) + 1
  BY DEF Texts
<1>1. At(s, i + 1) = "=" => i + 2 \in i + 1..Len(s) + 1
  <2>1. At(s, i + 1) = "=" => i + 1 \in DOMAIN s
    BY Zenon DEF At
  <2> QED
    BY <1>0, <2>1
<1>2. <<s[i], "=">> \in Ops \/ s[i] = "="
  BY DEF Ops
<1>3. s[i] # "!" => <<s[i]>> \in Ops
  BY DEF Ops
<1>4. CASE s[i] = "="
  <2>1. Operator(s, i) = Scanned("OPERATOR", <<"=">>, i, i + 1)
    BY <1>4 DEF Operator
  <2>2. <<"=">> \in Ops
    BY Zenon DEF Ops
  <2> QED
    BY <1>0, <2>1, <2>2, ScannedIs, Zenon
<1>5. CASE s[i] # "=" /\ At(s, i + 1) = "="
  <2>1. Operator(s, i) = Scanned("OPERATOR", <<s[i], "=">>, i, i + 2)
    BY <1>5 DEF Operator
  <2> QED
    BY <1>1, <1>2, <1>5, <2>1, ScannedIs, Zenon
<1>6. CASE s[i] = "!" /\ At(s, i + 1) # "="
  <2>1. Operator(s, i) = Stuck(i)
    BY <1>6 DEF Operator
  <2> QED
    BY <2>1, ScannedIs, Zenon
<1>7. CASE s[i] \in {"<", ">"} /\ At(s, i + 1) # "="
  <2>1. Operator(s, i) = Scanned("OPERATOR", <<s[i]>>, i, i + 1)
    BY <1>7 DEF Operator
  <2>2. s[i] # "!"
    BY <1>7
  <2> QED
    BY <1>0, <1>3, <2>1, <2>2, ScannedIs, Zenon
<1> QED
  BY <1>4, <1>5, <1>6, <1>7, Zenon

LEMMA TokenType ==
  ASSUME NEW s \in Texts, NEW i \in 1..Len(s) PROVE Reading(TokenAt(s, i), s, i)
<1> PICK c : c = s[i]
  BY Zenon
<1>0. s \in Seq(Chunks) /\ i + 1 \in i + 1..Len(s) + 1 /\ c \in Chunks
  BY DEF Texts
<1>1. CASE c \in Letters
  BY <1>1, WordType, LetterAssumption, Zenon DEF TokenAt, Digits, Quotes
<1>2. CASE c \notin Letters /\ (c \in Digits \/ (c = "-" /\ At(s, i + 1) \in Digits))
  BY <1>2, NumberType, Zenon DEF TokenAt, Digits, Quotes
<1>3. CASE c \in Quotes /\ c \notin Letters
  BY <1>3, StringType, Zenon DEF TokenAt, Digits, Quotes
<1>4. CASE c \in {"=", "<", ">", "!"} /\ c \notin Letters
  BY <1>4, OperatorType, Zenon DEF TokenAt, Digits, Quotes
<1>5. CASE c \in {"(", ")", ",", "*"} /\ c \notin Letters
  <2>1. TokenAt(s, i) = Scanned("PUNCTUATION", <<c>>, i, i + 1)
    BY <1>5, Zenon DEF TokenAt, Digits, Quotes
  <2>2. <<c>> \in Seq(Chunks \cup Keywords)
    BY <1>0
  <2> QED
    BY <1>0, <2>1, <2>2, ScannedIs, Zenon
<1>6. CASE /\ c \notin Letters \cup Digits \cup Quotes \cup {"=", "<", ">", "!", "(", ")", ",", "*"}
           /\ ~(c = "-" /\ At(s, i + 1) \in Digits)
  <2>1. TokenAt(s, i) = Stuck(i)
    BY <1>6, Zenon DEF TokenAt
  <2> QED
    BY <2>1, ScannedIs, Zenon
<1> QED
  BY <1>1, <1>2, <1>3, <1>4, <1>5, <1>6, Zenon
(* The tokens of a text. *)
TokensAt(f, i, s) ==
    IF i > Len(s)            THEN <<End(i)>>
    ELSE IF s[i] \in Spaces THEN f[i + 1]
    ELSE IF TokenAt(s, i).token.type = "ERROR" THEN <<TokenAt(s, i).token>>
    ELSE <<TokenAt(s, i).token>> \o f[TokenAt(s, i).next]

AreTokens(f, k, s) == f = [i \in k..Len(s) + 1 |-> TokensAt(f, i, s)]

LEMMA TokensExist == ASSUME NEW s \in Texts PROVE \E f : AreTokens(f, 1, s)
<1> PICK n : n = Len(s)
  BY Zenon
<1> DEFINE Bad == {d \in 0..n : ~\E f : AreTokens(f, n + 1 - d, s)}
<1>0. n \in Nat
  BY DEF Texts
<1>1. ASSUME Bad # {} PROVE FALSE
  <2>1. PICK d \in Bad : \A x \in Bad : d <= x
    <3>1. Bad \in SUBSET Nat
      BY <1>0
    <3> QED
      BY <1>1, <3>1, LeastOf, Zenon
  <2> PICK b : b = n + 1 - d
    BY Zenon
  <2>2. d \in 0..n /\ b \in 1..n + 1
    BY <1>0
  <2>3. PICK g : b + 1 <= n + 1 => AreTokens(g, b + 1, s)
    <3>1. CASE b + 1 <= n + 1
      <4>1. d - 1 \in 0..n /\ ~(d <= d - 1) /\ n + 1 - (d - 1) = b + 1
        BY <1>0, <2>2, <3>1
      <4>2. d - 1 \notin Bad
        BY <2>1, <4>1, Zenon
      <4> QED
        BY <4>1, <4>2, Zenon
    <3> QED
      BY <3>1, Zenon
  <2> DEFINE f == [i \in b..n + 1 |-> IF i = b THEN TokensAt(g, b, s) ELSE g[i]]
  <2>4. \A i \in b + 1..n + 1 : f[i] = g[i]
    BY <2>2
  <2>5. ASSUME NEW i \in b..n + 1 PROVE TokensAt(f, i, s) = TokensAt(g, i, s)
    <3>1. CASE i > n
      BY <3>1 DEF TokensAt
    <3>2. CASE ~(i > n)
      <4>1. i \in 1..n /\ i + 1 \in b + 1..n + 1
        BY <1>0, <2>2, <3>2
      <4>2. TokenAt(s, i).token.type # "ERROR" => TokenAt(s, i).next \in i + 1..n + 1
        BY <4>1, TokenType, Zenon DEF Reading
      <4>3. \A j \in i + 1..n + 1 : j \in b + 1..n + 1
        BY <1>0, <2>2
      <4> HIDE DEF f
      <4> QED
        BY <2>4, <4>1, <4>2, <4>3, Zenon DEF TokensAt
    <3> QED
      BY <3>1, <3>2, Zenon
  <2>6. ASSUME NEW i \in b..n + 1 PROVE f[i] = TokensAt(f, i, s)
    <3>1. CASE i = b
      BY <2>5, <3>1, Zenon
    <3>2. CASE i # b
      <4>1. i \in b + 1..n + 1 /\ b + 1 <= n + 1
        BY <1>0, <2>2, <3>2
      <4>2. g[i] = TokensAt(g, i, s)
        BY <2>3, <4>1, Zenon DEF AreTokens
      <4> QED
        BY <2>4, <2>5, <4>1, <4>2, Zenon
    <3> QED
      BY <3>1, <3>2, Zenon
  <2>7. f = [i \in b..n + 1 |-> f[i]]
    OBVIOUS
  <2> HIDE DEF f
  <2>8. AreTokens(f, b, s)
    BY <2>6, <2>7, Zenon DEF AreTokens
  <2> QED
    BY <2>1, <2>8, Zenon
<1>2. n \in 0..n /\ n + 1 - n = 1
  BY <1>0
<1> QED
  BY <1>1, <1>2, Zenon

LEMMA TokensAre ==
  ASSUME NEW s \in Texts, NEW i \in 1..Len(s) + 1
  PROVE  TokensFrom(s)[i] = TokensAt(TokensFrom(s), i, s)
<1>1. PICK g : AreTokens(g, 1, s)
  BY TokensExist, Zenon
<1>2. AreTokens(TokensFrom(s), 1, s)
  BY <1>1, Zenon DEF TokensFrom, AreTokens, TokensAt
<1> QED
  BY <1>2, Zenon DEF AreTokens

(* A line has at least the token that closes it. *)
AreClosed(t) == /\ t \in Seq(Tokens) /\ t # <<>>
                /\ Last(t).type \in {"END", "ERROR"}

LEMMA Closing ==
  ASSUME NEW x \in Tokens
  PROVE  /\ x.type \in {"END", "ERROR"} => AreClosed(<<x>>)
         /\ \A t : AreClosed(t) => AreClosed(<<x>> \o t)
<1>1. x.type \in {"END", "ERROR"} => AreClosed(<<x>>)
  BY DEF AreClosed, Last
<1>2. ASSUME NEW t, AreClosed(t) PROVE AreClosed(<<x>> \o t)
  <2>1. t \in Seq(Tokens) /\ t # <<>> /\ t[Len(t)].type \in {"END", "ERROR"}
    BY <1>2, Zenon DEF AreClosed, Last
  <2> PICK u : u = <<x>> \o t
    BY Zenon
  <2>2. u \in Seq(Tokens) /\ u # <<>> /\ u[Len(u)] = t[Len(t)]
    BY <2>1
  <2> QED
    BY <2>1, <2>2, Zenon DEF AreClosed, Last
<1> QED
  BY <1>1, <1>2, Zenon

LEMMA TokensType ==
  ASSUME NEW s \in Texts, NEW i \in 1..Len(s) + 1 PROVE AreClosed(TokensFrom(s)[i])
<1> PICK n, f : n = Len(s) /\ f = TokensFrom(s)
  BY Zenon
<1>0. n \in Nat /\ \A j \in 1..n + 1 : f[j] = TokensAt(f, j, s)
  <2>1. n \in Nat
    BY DEF Texts
  <2> QED
    BY <2>1, TokensAre, Zenon
<1> DEFINE Bad == {d \in 0..n : ~AreClosed(f[n + 1 - d])}
<1>1. ASSUME Bad # {} PROVE FALSE
  <2>1. PICK d \in Bad : \A x \in Bad : d <= x
    <3>1. Bad \in SUBSET Nat
      BY <1>0
    <3> QED
      BY <1>1, <3>1, LeastOf, Zenon
  <2> PICK b : b = n + 1 - d
    BY Zenon
  <2>2. d \in 0..n /\ b \in 1..n + 1 /\ ~AreClosed(f[b])
    BY <1>0
  <2>3. ASSUME NEW j \in b + 1..n + 1 PROVE AreClosed(f[j])
    <3>1. n + 1 - j \in 0..n /\ ~(d <= n + 1 - j) /\ n + 1 - (n + 1 - j) = j
      BY <1>0, <2>2
    <3> QED
      BY <2>1, <3>1, Zenon
  <2>4. f[b] = TokensAt(f, b, s)
    BY <1>0, <2>2, Zenon
  <2>5. CASE b > n
    <3>1. End(b) \in Tokens /\ End(b).type = "END"
      BY <2>2 DEF End, Tokens, Others
    <3>2. f[b] = <<End(b)>>
      BY <2>4, <2>5, Zenon DEF TokensAt
    <3> QED
      BY <2>2, <3>1, <3>2, Closing, Zenon
  <2>6. CASE ~(b > n)
    <3>1. b \in 1..n /\ b + 1 \in b + 1..n + 1
      BY <1>0, <2>2, <2>6
    <3>2. Reading(TokenAt(s, b), s, b)
      BY <3>1, TokenType, Zenon
    <3>3. CASE s[b] \in Spaces
      BY <2>2, <2>3, <2>4, <2>6, <3>1, <3>3, Zenon DEF TokensAt
    <3>4. CASE s[b] \notin Spaces /\ TokenAt(s, b).token.type = "ERROR"
      BY <2>2, <2>4, <2>6, <3>2, <3>4, Closing, Zenon DEF TokensAt, Reading
    <3>5. CASE s[b] \notin Spaces /\ TokenAt(s, b).token.type # "ERROR"
      BY <2>2, <2>3, <2>4, <2>6, <3>2, <3>5, Closing, Zenon DEF TokensAt, Reading
    <3> QED
      BY <3>3, <3>4, <3>5, Zenon
  <2> QED
    BY <2>5, <2>6, Zenon
<1>2. n + 1 - i \in 0..n /\ n + 1 - (n + 1 - i) = i
  BY <1>0
<1>3. AreClosed(f[i])
  BY <1>1, <1>2, Zenon
<1> QED
  BY <1>3, Zenon

LEMMA TokenizeType == ASSUME NEW s \in Texts PROVE AreClosed(Tokenize(s))
<1>1. 1 \in 1..Len(s) + 1
  BY DEF Texts
<1> QED
  BY <1>1, TokensType, Zenon DEF Tokenize
-----------------------------------------------------------------------------
(* The parser: what a statement may be. *)
Clauses     == [column : Texts, op : Ops, value : Texts]
Assignments == [column : Texts, value : Texts]
Columns     == [name : Texts, type : {"INT", "TEXT"}]

LEMMA PeekIs ==
  ASSUME NEW t, AreClosed(t), NEW i \in Nat \ {0}
  PROVE  /\ Peek(t, i) \in Tokens
         /\ i >= Len(t) => Peek(t, i) = Last(t)
<1>0. t \in Seq(Tokens) /\ Len(t) \in Nat \ {0}
  BY DEF AreClosed
<1> PICK m : m = Min({i, Len(t)})
  BY Zenon
<1>1. m \in {i, Len(t)} /\ \A x \in {i, Len(t)} : m <= x
  <2>1. {i, Len(t)} \in SUBSET Nat
    BY <1>0
  <2> QED
    BY <2>1, MinOf, Zenon
<1>2. m \in 1..Len(t) /\ (i >= Len(t) => m = Len(t))
  BY <1>0, <1>1
<1>3. t[m] \in Tokens
  BY <1>0, <1>2
<1> QED
  BY <1>2, <1>3, Zenon DEF Peek, Last

LEMMA ValueIs ==
  ASSUME NEW t, AreClosed(t), NEW i \in Nat \ {0}
  PROVE  /\ IsName(t, i) => ValueAt(t, i) \in Texts
         /\ IsLiteral(t, i) => ValueAt(t, i) \in Texts
         /\ Is(t, i, "OPERATOR") => ValueAt(t, i) \in Ops
<1> PICK x : x = Peek(t, i)
  BY Zenon
<1>1. x \in Operands \/ x \in Operators \/ x \in Others
  BY PeekIs, Zenon DEF Tokens
<1>2. /\ x.type = "IDENTIFIER" => x.value \in Texts
      /\ x.type = "NUMBER" \/ x.type = "STRING" => x.value \in Texts
      /\ x.type = "OPERATOR" => x.value \in Ops
  BY <1>1 DEF Operands, Operators, Others
<1> QED
  BY <1>2, Zenon DEF IsName, IsLiteral, Is, ValueAt

(* No separator stands at or after the end. *)
LEMMA NoSeparator ==
  ASSUME NEW t, AreClosed(t), NEW i \in Nat \ {0}, i >= Len(t)
  PROVE  ~Comma(t, i) /\ ~And(t, i)
<1>1. Peek(t, i).type \in {"END", "ERROR"}
  BY PeekIs, Zenon DEF AreClosed
<1>2. Peek(t, i).type # "PUNCTUATION" /\ Peek(t, i).type # "KEYWORD"
  BY <1>1
<1> QED
  BY <1>2, Zenon DEF Comma, And, IsMark, IsWord, IsThe, Is

LEMMA EndOfList ==
  ASSUME NEW n \in Nat \ {0}, NEW S \in SUBSET (1..n), n \in S PROVE Min(S) \in 1..n
<1>1. S \in SUBSET Nat
  OBVIOUS
<1> QED
  BY <1>1, MinOf, Zenon

LEMMA StartsAre ==
  ASSUME NEW i \in Nat \ {0}, NEW n \in Nat \ {0}, NEW k \in 1..n
  PROVE  /\ i + (k - 1) * (1 + 1) \in Nat \ {0}
         /\ i + (k - 1) * (2 + 1) \in Nat \ {0}
         /\ i + (k - 1) * (3 + 1) \in Nat \ {0}
         /\ i + (k - 1) * (1 + 1) + 1 \in Nat \ {0}
         /\ i + (k - 1) * (2 + 1) + 2 \in Nat \ {0}
         /\ i + (k - 1) * (3 + 1) + 3 \in Nat \ {0}
         /\ i + k * (1 + 1) - 1 \in Nat \ {0} /\ i + k * (1 + 1) - 1 >= k
         /\ i + k * (2 + 1) - 1 \in Nat \ {0} /\ i + k * (2 + 1) - 1 >= k
         /\ i + k * (3 + 1) - 1 \in Nat \ {0} /\ i + k * (3 + 1) - 1 >= k
OBVIOUS

LEMMA ItemIs ==
  ASSUME NEW t, AreClosed(t), NEW i \in Nat \ {0}
  PROVE  /\ IsColumnDef(t, i) => ColumnDef(t, i) \in Columns
         /\ IsAssignment(t, i) => Assignment(t, i) \in Assignments
         /\ IsClause(t, i) => Clause(t, i) \in Clauses
<1>0. i + 1 \in Nat \ {0} /\ i + 2 \in Nat \ {0}
  OBVIOUS
<1>1. ASSUME IsColumnDef(t, i) PROVE ColumnDef(t, i) \in Columns
  <2>1. ValueAt(t, i) \in Texts
    BY <1>1, ValueIs, Zenon DEF IsColumnDef
  <2>2. dataTypeFromString(ValueAt(t, i + 1)) \in {"INT", "TEXT"}
    BY <1>1 DEF IsColumnDef, dataTypeFromString
  <2> QED
    BY <2>1, <2>2 DEF ColumnDef, Columns
<1>2. ASSUME IsAssignment(t, i) PROVE Assignment(t, i) \in Assignments
  <2>1. ValueAt(t, i) \in Texts /\ ValueAt(t, i + 2) \in Texts
    BY <1>0, <1>2, ValueIs, Zenon DEF IsAssignment
  <2> QED
    BY <2>1 DEF Assignment, Assignments
<1>3. ASSUME IsClause(t, i) PROVE Clause(t, i) \in Clauses
  <2>1. ValueAt(t, i) \in Texts /\ ValueAt(t, i + 1) \in Ops /\ ValueAt(t, i + 2) \in Texts
    BY <1>0, <1>3, ValueIs, Zenon DEF IsClause
  <2> QED
    BY <2>1 DEF Clause, Clauses
<1> QED
  BY <1>1, <1>2, <1>3, Zenon

LEMMA NamesType ==
  ASSUME NEW t, AreClosed(t), NEW i \in Nat \ {0}, NEW r, r = parseIdentifierList(t, i)
  PROVE  r.next \in Nat \ {0} /\ (r.ok => r.items \in Seq(Texts))
<1>0. Len(t) \in Nat \ {0}
  BY DEF AreClosed
<1> PICK n, S : S = {k \in 1..Len(t) : ~Comma(t, i + k * (1 + 1) - 1)} /\ n = Min(S)
  BY Zenon
<1>1. n \in 1..Len(t)
  <2>1. S \in SUBSET (1..Len(t)) /\ Len(t) \in 1..Len(t)
    BY <1>0
  <2>2. Len(t) \in S
    BY <1>0, <2>1, StartsAre, NoSeparator, Zenon
  <2> QED
    BY <1>0, <2>1, <2>2, EndOfList, Zenon
<1>2. /\ r.ok = \A k \in 1..n : IsName(t, i + (k - 1) * (1 + 1))
      /\ r.items = [k \in 1..n |-> ValueAt(t, i + (k - 1) * (1 + 1))]
      /\ r.next = i + (n - 1) * (1 + 1) + 1
  BY Zenon DEF parseIdentifierList, List
<1>3. n \in Nat \ {0} /\ i + (n - 1) * (1 + 1) + 1 \in Nat \ {0}
  BY <1>0, <1>1
<1>4. ASSUME r.ok, NEW k \in 1..n PROVE ValueAt(t, i + (k - 1) * (1 + 1)) \in Texts
  BY <1>2, <1>3, <1>4, StartsAre, ValueIs, Zenon
<1>5. ASSUME r.ok PROVE r.items \in Seq(Texts)
  <2>1. /\ r.items = [k \in 1..n |-> r.items[k]]
        /\ \A k \in 1..n : r.items[k] \in Texts
    BY <1>2, <1>4, <1>5, Zenon
  <2> QED
    BY <1>3, <2>1, SeqIs, Zenon
<1> QED
  BY <1>2, <1>3, <1>5, Zenon

LEMMA LiteralsType ==
  ASSUME NEW t, AreClosed(t), NEW i \in Nat \ {0}, NEW r, r = parseLiterals(t, i)
  PROVE  r.next \in Nat \ {0} /\ (r.ok => r.items \in Seq(Texts))
<1>0. Len(t) \in Nat \ {0}
  BY DEF AreClosed
<1> PICK n, S : S = {k \in 1..Len(t) : ~Comma(t, i + k * (1 + 1) - 1)} /\ n = Min(S)
  BY Zenon
<1>1. n \in 1..Len(t)
  <2>1. S \in SUBSET (1..Len(t)) /\ Len(t) \in 1..Len(t)
    BY <1>0
  <2>2. Len(t) \in S
    BY <1>0, <2>1, StartsAre, NoSeparator, Zenon
  <2> QED
    BY <1>0, <2>1, <2>2, EndOfList, Zenon
<1>2. /\ r.ok = \A k \in 1..n : IsLiteral(t, i + (k - 1) * (1 + 1))
      /\ r.items = [k \in 1..n |-> ValueAt(t, i + (k - 1) * (1 + 1))]
      /\ r.next = i + (n - 1) * (1 + 1) + 1
  BY Zenon DEF parseLiterals, List
<1>3. n \in Nat \ {0} /\ i + (n - 1) * (1 + 1) + 1 \in Nat \ {0}
  BY <1>0, <1>1
<1>4. ASSUME r.ok, NEW k \in 1..n PROVE ValueAt(t, i + (k - 1) * (1 + 1)) \in Texts
  BY <1>2, <1>3, <1>4, StartsAre, ValueIs, Zenon
<1>5. ASSUME r.ok PROVE r.items \in Seq(Texts)
  <2>1. /\ r.items = [k \in 1..n |-> r.items[k]]
        /\ \A k \in 1..n : r.items[k] \in Texts
    BY <1>2, <1>4, <1>5, Zenon
  <2> QED
    BY <1>3, <2>1, SeqIs, Zenon
<1> QED
  BY <1>2, <1>3, <1>5, Zenon

LEMMA ColumnDefsType ==
  ASSUME NEW t, AreClosed(t), NEW i \in Nat \ {0}, NEW r, r = parseColumnDefs(t, i)
  PROVE  r.next \in Nat \ {0} /\ (r.ok => r.items \in Seq(Columns))
<1>0. Len(t) \in Nat \ {0}
  BY DEF AreClosed
<1> PICK n, S : S = {k \in 1..Len(t) : ~Comma(t, i + k * (2 + 1) - 1)} /\ n = Min(S)
  BY Zenon
<1>1. n \in 1..Len(t)
  <2>1. S \in SUBSET (1..Len(t)) /\ Len(t) \in 1..Len(t)
    BY <1>0
  <2>2. Len(t) \in S
    BY <1>0, <2>1, StartsAre, NoSeparator, Zenon
  <2> QED
    BY <1>0, <2>1, <2>2, EndOfList, Zenon
<1>2. /\ r.ok = \A k \in 1..n : IsColumnDef(t, i + (k - 1) * (2 + 1))
      /\ r.items = [k \in 1..n |-> ColumnDef(t, i + (k - 1) * (2 + 1))]
      /\ r.next = i + (n - 1) * (2 + 1) + 2
  BY Zenon DEF parseColumnDefs, List
<1>3. n \in Nat \ {0} /\ i + (n - 1) * (2 + 1) + 2 \in Nat \ {0}
  BY <1>0, <1>1
<1>4. ASSUME r.ok, NEW k \in 1..n PROVE ColumnDef(t, i + (k - 1) * (2 + 1)) \in Columns
  BY <1>2, <1>3, <1>4, StartsAre, ItemIs, Zenon
<1>5. ASSUME r.ok PROVE r.items \in Seq(Columns)
  <2>1. /\ r.items = [k \in 1..n |-> r.items[k]]
        /\ \A k \in 1..n : r.items[k] \in Columns
    BY <1>2, <1>4, <1>5, Zenon
  <2> QED
    BY <1>3, <2>1, SeqIs, Zenon
<1> QED
  BY <1>2, <1>3, <1>5, Zenon

LEMMA AssignmentsType ==
  ASSUME NEW t, AreClosed(t), NEW i \in Nat \ {0}, NEW r, r = parseAssignments(t, i)
  PROVE  r.next \in Nat \ {0} /\ (r.ok => r.items \in Seq(Assignments))
<1>0. Len(t) \in Nat \ {0}
  BY DEF AreClosed
<1> PICK n, S : S = {k \in 1..Len(t) : ~Comma(t, i + k * (3 + 1) - 1)} /\ n = Min(S)
  BY Zenon
<1>1. n \in 1..Len(t)
  <2>1. S \in SUBSET (1..Len(t)) /\ Len(t) \in 1..Len(t)
    BY <1>0
  <2>2. Len(t) \in S
    BY <1>0, <2>1, StartsAre, NoSeparator, Zenon
  <2> QED
    BY <1>0, <2>1, <2>2, EndOfList, Zenon
<1>2. /\ r.ok = \A k \in 1..n : IsAssignment(t, i + (k - 1) * (3 + 1))
      /\ r.items = [k \in 1..n |-> Assignment(t, i + (k - 1) * (3 + 1))]
      /\ r.next = i + (n - 1) * (3 + 1) + 3
  BY Zenon DEF parseAssignments, List
<1>3. n \in Nat \ {0} /\ i + (n - 1) * (3 + 1) + 3 \in Nat \ {0}
  BY <1>0, <1>1
<1>4. ASSUME r.ok, NEW k \in 1..n PROVE Assignment(t, i + (k - 1) * (3 + 1)) \in Assignments
  BY <1>2, <1>3, <1>4, StartsAre, ItemIs, Zenon
<1>5. ASSUME r.ok PROVE r.items \in Seq(Assignments)
  <2>1. /\ r.items = [k \in 1..n |-> r.items[k]]
        /\ \A k \in 1..n : r.items[k] \in Assignments
    BY <1>2, <1>4, <1>5, Zenon
  <2> QED
    BY <1>3, <2>1, SeqIs, Zenon
<1> QED
  BY <1>2, <1>3, <1>5, Zenon

LEMMA ClausesType ==
  ASSUME NEW t, AreClosed(t), NEW i \in Nat \ {0}, NEW r, r = parseClauses(t, i)
  PROVE  r.next \in Nat \ {0} /\ (r.ok => r.items \in Seq(Clauses))
<1>0. Len(t) \in Nat \ {0}
  BY DEF AreClosed
<1> PICK n, S : S = {k \in 1..Len(t) : ~And(t, i + k * (3 + 1) - 1)} /\ n = Min(S)
  BY Zenon
<1>1. n \in 1..Len(t)
  <2>1. S \in SUBSET (1..Len(t)) /\ Len(t) \in 1..Len(t)
    BY <1>0
  <2>2. Len(t) \in S
    BY <1>0, <2>1, StartsAre, NoSeparator, Zenon
  <2> QED
    BY <1>0, <2>1, <2>2, EndOfList, Zenon
<1>2. /\ r.ok = \A k \in 1..n : IsClause(t, i + (k - 1) * (3 + 1))
      /\ r.items = [k \in 1..n |-> Clause(t, i + (k - 1) * (3 + 1))]
      /\ r.next = i + (n - 1) * (3 + 1) + 3
  BY Zenon DEF parseClauses, List
<1>3. n \in Nat \ {0} /\ i + (n - 1) * (3 + 1) + 3 \in Nat \ {0}
  BY <1>0, <1>1
<1>4. ASSUME r.ok, NEW k \in 1..n PROVE Clause(t, i + (k - 1) * (3 + 1)) \in Clauses
  BY <1>2, <1>3, <1>4, StartsAre, ItemIs, Zenon
<1>5. ASSUME r.ok PROVE r.items \in Seq(Clauses)
  <2>1. /\ r.items = [k \in 1..n |-> r.items[k]]
        /\ \A k \in 1..n : r.items[k] \in Clauses
    BY <1>2, <1>4, <1>5, Zenon
  <2> QED
    BY <1>3, <2>1, SeqIs, Zenon
<1> QED
  BY <1>2, <1>3, <1>5, Zenon

LEMMA WhereType ==
  ASSUME NEW t, AreClosed(t), NEW i \in Nat \ {0}, NEW r, r = parseOptionalWhere(t, i)
  PROVE  r.next \in Nat \ {0} /\ (r.ok => r.items \in Seq(Clauses))
<1>0. i + 1 \in Nat \ {0}
  OBVIOUS
<1>1. CASE IsWord(t, i, "WHERE")
  <2>1. r = parseClauses(t, i + 1)
    BY <1>1, Zenon DEF parseOptionalWhere
  <2> QED
    BY <1>0, <2>1, ClausesType, Zenon
<1>2. CASE ~IsWord(t, i, "WHERE")
  <2>1. r = [ok |-> TRUE, items |-> <<>>, next |-> i]
    BY <1>2, Zenon DEF parseOptionalWhere
  <2> QED
    BY <2>1
<1> QED
  BY <1>1, <1>2, Zenon

IsCreate(s) == s.kind = "create" /\ s.columns \in Seq(Columns)
IsDrop(s)   == s.kind = "drop"
IsInsert(s) == /\ s.kind = "insert"
               /\ s.columns \in Seq(Texts) /\ s.values \in Seq(Texts)
               /\ Len(s.columns) = Len(s.values)
IsSelect(s) == s.kind = "select" /\ s.columns \in Seq(Texts) /\ s.where \in Seq(Clauses)
IsUpdate(s) == s.kind = "update" /\ s.assignments \in Seq(Assignments) /\ s.where \in Seq(Clauses)
IsDelete(s) == s.kind = "delete" /\ s.where \in Seq(Clauses)

IsStatement(s) == \/ s = Malformed
                  \/ IsCreate(s) \/ IsDrop(s) \/ IsInsert(s)
                  \/ IsSelect(s) \/ IsUpdate(s) \/ IsDelete(s)

LEMMA ParseType == ASSUME NEW t, AreClosed(t) PROVE IsStatement(Parse(t))
<1>0. 2 \in Nat \ {0} /\ 4 \in Nat \ {0} /\ 5 \in Nat \ {0}
  OBVIOUS
<1>1. IsStatement(parseCreate(t))
  <2> PICK r : r = parseColumnDefs(t, 5)
    BY Zenon
  <2> DEFINE s == [kind |-> "create", table |-> ValueAt(t, 3), columns |-> r.items]
  <2>1. r.ok => IsCreate(s)
    <3>1. r.ok => r.items \in Seq(Columns)
      BY <1>0, ColumnDefsType, Zenon
    <3> QED
      BY <3>1 DEF IsCreate
  <2>2. parseCreate(t) = Malformed \/ (r.ok /\ parseCreate(t) = s)
    BY Zenon DEF parseCreate
  <2> QED
    BY <2>1, <2>2, Zenon DEF IsStatement
<1>2. IsStatement(parseDrop(t))
  <2> DEFINE s == [kind |-> "drop", table |-> ValueAt(t, 3)]
  <2>1. IsDrop(s)
    BY DEF IsDrop
  <2>2. parseDrop(t) = Malformed \/ parseDrop(t) = s
    BY Zenon DEF parseDrop
  <2> QED
    BY <2>1, <2>2, Zenon DEF IsStatement
<1>3. IsStatement(parseInsert(t))
  <2> PICK c, v : c = parseIdentifierList(t, 5) /\ v = parseLiterals(t, c.next + 3)
    BY Zenon
  <2> DEFINE s == [kind |-> "insert", table |-> ValueAt(t, 3),
                   columns |-> c.items, values |-> v.items]
  <2>0. c.next \in Nat \ {0} /\ (c.ok => c.items \in Seq(Texts))
    BY <1>0, NamesType, Zenon
  <2>1. c.next + 3 \in Nat \ {0}
    BY <2>0
  <2>2. v.ok => v.items \in Seq(Texts)
    BY <2>1, LiteralsType, Zenon
  <2>3. c.ok /\ v.ok /\ Len(c.items) = Len(v.items) => IsInsert(s)
    BY <2>0, <2>2 DEF IsInsert
  <2>4. \/ parseInsert(t) = Malformed
        \/ c.ok /\ v.ok /\ Len(c.items) = Len(v.items) /\ parseInsert(t) = s
    BY Zenon DEF parseInsert
  <2> QED
    BY <2>3, <2>4, Zenon DEF IsStatement
<1>4. IsStatement(parseSelect(t))
  <2> PICK c : c = IF IsMark(t, 2, "*") THEN [ok |-> TRUE, items |-> <<>>, next |-> 3]
                   ELSE parseIdentifierList(t, 2)
    BY Zenon
  <2> PICK w : w = parseOptionalWhere(t, c.next + 2)
    BY Zenon
  <2> DEFINE s == [kind |-> "select", table |-> ValueAt(t, c.next + 1),
                   columns |-> c.items, where |-> w.items]
  <2>0. c.next \in Nat \ {0} /\ (c.ok => c.items \in Seq(Texts))
    <3>1. CASE IsMark(t, 2, "*")
      <4>1. c = [ok |-> TRUE, items |-> <<>>, next |-> 3]
        BY <3>1, Zenon
      <4>2. 3 \in Nat \ {0} /\ <<>> \in Seq(Texts)
        OBVIOUS
      <4>3. [ok |-> TRUE, items |-> <<>>, next |-> 3].next = 3
            /\ [ok |-> TRUE, items |-> <<>>, next |-> 3].items = <<>>
        OBVIOUS
      <4>4. c.next = 3 /\ c.items = <<>>
        BY <4>1, <4>3, Zenon
      <4> QED
        BY <4>2, <4>4, Zenon
    <3>2. CASE ~IsMark(t, 2, "*")
      <4>1. c = parseIdentifierList(t, 2)
        BY <3>2, Zenon
      <4> QED
        BY <1>0, <4>1, NamesType, Zenon
    <3> QED
      BY <3>1, <3>2, Zenon
  <2>1. c.next + 2 \in Nat \ {0}
    BY <2>0
  <2>2. w.ok => w.items \in Seq(Clauses)
    BY <2>1, WhereType, Zenon
  <2>3. c.ok /\ w.ok => IsSelect(s)
    BY <2>0, <2>2 DEF IsSelect
  <2>4. parseSelect(t) = Malformed \/ (c.ok /\ w.ok /\ parseSelect(t) = s)
    BY Zenon DEF parseSelect
  <2> QED
    BY <2>3, <2>4, Zenon DEF IsStatement
<1>5. IsStatement(parseUpdate(t))
  <2> PICK a, w : a = parseAssignments(t, 4) /\ w = parseOptionalWhere(t, a.next)
    BY Zenon
  <2> DEFINE s == [kind |-> "update", table |-> ValueAt(t, 2),
                   assignments |-> a.items, where |-> w.items]
  <2>0. a.next \in Nat \ {0} /\ (a.ok => a.items \in Seq(Assignments))
    BY <1>0, AssignmentsType, Zenon
  <2>1. w.ok => w.items \in Seq(Clauses)
    BY <2>0, WhereType, Zenon
  <2>2. a.ok /\ w.ok => IsUpdate(s)
    BY <2>0, <2>1 DEF IsUpdate
  <2>3. parseUpdate(t) = Malformed \/ (a.ok /\ w.ok /\ parseUpdate(t) = s)
    BY Zenon DEF parseUpdate
  <2> QED
    BY <2>2, <2>3, Zenon DEF IsStatement
<1>6. IsStatement(parseDelete(t))
  <2> PICK w : w = parseOptionalWhere(t, 4)
    BY Zenon
  <2> DEFINE s == [kind |-> "delete", table |-> ValueAt(t, 3), where |-> w.items]
  <2>1. w.ok => w.items \in Seq(Clauses)
    BY <1>0, WhereType, Zenon
  <2>2. w.ok => IsDelete(s)
    BY <2>1 DEF IsDelete
  <2>3. parseDelete(t) = Malformed \/ (w.ok /\ parseDelete(t) = s)
    BY Zenon DEF parseDelete
  <2> QED
    BY <2>2, <2>3, Zenon DEF IsStatement
<1>7. IsStatement(Malformed)
  BY Zenon DEF IsStatement
<1>8. Parse(t) \in {Malformed, parseCreate(t), parseDrop(t), parseInsert(t),
                    parseSelect(t), parseUpdate(t), parseDelete(t)}
  BY Zenon DEF Parse
<1> QED
  BY <1>1, <1>2, <1>3, <1>4, <1>5, <1>6, <1>7, <1>8, Zenon
-----------------------------------------------------------------------------
(* Values. *)
LEMMA CellIs ==
  ASSUME NEW type \in {"INT", "TEXT"}, NEW text \in Texts, isValidValueFor(type, text)
  PROVE  Cell(type, text) \in CellOf(type)
<1>1. CASE type = "INT"
  <2>1. ParseInt(text) \in MinInt..MaxInt
    BY <1>1, Zenon DEF isValidValueFor
  <2>2. Cell(type, text) = [int |-> ParseInt(text)] /\ CellOf(type) = [int : MinInt..MaxInt]
    BY <1>1, Zenon DEF Cell, CellOf
  <2> QED
    BY <2>1, <2>2
<1>2. CASE type = "TEXT"
  <2>1. Cell(type, text) = [text |-> text] /\ CellOf(type) = [text : Texts]
    BY <1>2 DEF Cell, CellOf
  <2> QED
    BY <2>1
<1> QED
  BY <1>1, <1>2, Zenon

LEMMA CellHas ==
  ASSUME NEW type \in {"INT", "TEXT"}, NEW cell \in CellOf(type)
  PROVE  /\ type = "INT"  => "int" \in DOMAIN cell /\ cell.int \in MinInt..MaxInt
         /\ type = "TEXT" => "int" \notin DOMAIN cell /\ cell.text \in Texts
<1>1. CASE type = "INT"
  <2>1. cell \in [int : MinInt..MaxInt]
    BY <1>1, Zenon DEF CellOf
  <2> QED
    BY <1>1, <2>1
<1>2. CASE type = "TEXT"
  <2>1. cell \in [text : Texts]
    BY <1>2 DEF CellOf
  <2> QED
    BY <1>2, <2>1
<1> QED
  BY <1>1, <1>2, Zenon

LEMMA Codes ==
  ASSUME NEW a \in Chunks, NEW b \in Chunks
  PROVE  Code(a) \in Int /\ (Code(a) = Code(b) => a = b)
<1>1. \A c \in Chunks : Code(c) \in DOMAIN CharOrder /\ CharOrder[Code(c)] = c
  BY Zenon DEF Chunks, Range, Code
<1>2. \A c \in DOMAIN CharOrder : c \in Int
  BY CharAssumption
<1> QED
  BY <1>1, <1>2, Zenon

(* string::compare orders the texts. *)
LEMMA Compares ==
  ASSUME NEW a \in Texts, NEW b \in Texts
  PROVE  /\ CompareText(a, b) \in {-1, 0, 1}
         /\ CompareText(a, b) = 0 <=> a = b
         /\ CompareText(a, b) = 1 <=> CompareText(b, a) = -1
<1> PICK n, D : n = Min({Len(a), Len(b)}) /\ D = {i \in 1..n : a[i] # b[i]}
  BY Zenon
<1>0. a \in Seq(Chunks) /\ b \in Seq(Chunks) /\ Len(a) \in Nat /\ Len(b) \in Nat
  BY DEF Texts
<1>1. n \in Nat /\ n <= Len(a) /\ n <= Len(b) /\ (n = Len(a) \/ n = Len(b))
  <2>1. {Len(a), Len(b)} \in SUBSET Nat
    BY <1>0
  <2>2. n \in {Len(a), Len(b)} /\ \A x \in {Len(a), Len(b)} : n <= x
    BY <2>1, MinOf, Zenon
  <2> QED
    BY <1>0, <2>2
<1>2. {Len(a), Len(b)} = {Len(b), Len(a)} /\ D = {i \in 1..n : b[i] # a[i]}
  BY Zenon
<1>3. CASE D # {}
  <2> PICK m : m = Min(D)
    BY Zenon
  <2>1. D \in SUBSET Nat
    BY <1>1
  <2>2. m \in D
    BY <1>3, <2>1, MinOf, Zenon
  <2>3. a[m] \in Chunks /\ b[m] \in Chunks /\ a[m] # b[m]
    BY <1>0, <1>1, <2>2
  <2> PICK x, y : x = Code(a[m]) /\ y = Code(b[m])
    BY Zenon
  <2>4. x \in Int /\ y \in Int /\ x # y
    BY <2>3, Codes, Zenon
  <2>5. a # b
    BY <2>3, Zenon
  <2>6. CompareText(a, b) = IF x < y THEN -1 ELSE 1
    BY <1>3, Zenon DEF CompareText
  <2>7. CompareText(b, a) = IF y < x THEN -1 ELSE 1
    BY <1>2, <1>3, Zenon DEF CompareText
  <2> QED
    BY <2>4, <2>5, <2>6, <2>7
<1>4. CASE D = {}
  <2>1. \A i \in 1..n : a[i] = b[i]
    BY <1>4, Zenon
  <2>2. Len(a) = Len(b) => a = b
    BY <1>0, <1>1, <2>1
  <2>3. CompareText(a, b) = CompareInt(Len(a), Len(b))
    BY <1>4, Zenon DEF CompareText
  <2>4. CompareText(b, a) = CompareInt(Len(b), Len(a))
    BY <1>2, <1>4, Zenon DEF CompareText
  <2> QED
    BY <1>0, <2>2, <2>3, <2>4 DEF CompareInt
<1> QED
  BY <1>3, <1>4, Zenon
LEMMA OpsDiffer ==
         /\ <<"=">> # <<"!", "=">> /\ <<"=">> # <<"<">> /\ <<"=">> # <<"<", "=">> /\ <<"=">> # <<">">> /\ <<"=">> # <<">", "=">>
         /\ <<"!", "=">> # <<"<">> /\ <<"!", "=">> # <<"<", "=">> /\ <<"!", "=">> # <<">">> /\ <<"!", "=">> # <<">", "=">>
         /\ <<"<">> # <<"<", "=">> /\ <<"<">> # <<">">> /\ <<"<">> # <<">", "=">>
         /\ <<"<", "=">> # <<">">> /\ <<"<", "=">> # <<">", "=">>
         /\ <<">">> # <<">", "=">>
OBVIOUS

LEMMA ApplyIs ==
  ASSUME NEW op \in Ops, NEW cmp \in {-1, 0, 1}
  PROVE  applyOp(op, cmp) <=>
            \/ cmp = 0 /\ op \in {<<"=">>, <<"<", "=">>, <<">", "=">>}
            \/ cmp = -1 /\ op \in {<<"<">>, <<"<", "=">>, <<"!", "=">>}
            \/ cmp = 1 /\ op \in {<<">">>, <<">", "=">>, <<"!", "=">>}
<1>1. /\ cmp < 0 <=> cmp = -1
      /\ cmp <= 0 <=> cmp = -1 \/ cmp = 0
      /\ cmp > 0 <=> cmp = 1
      /\ cmp >= 0 <=> cmp = 1 \/ cmp = 0
      /\ cmp # 0 <=> cmp = 1 \/ cmp = -1
  OBVIOUS
<1>2. CASE op = <<"=">>
  BY <1>1, <1>2, OpsDiffer, Zenon DEF applyOp
<1>3. CASE op = <<"!", "=">>
  BY <1>1, <1>3, OpsDiffer, Zenon DEF applyOp
<1>4. CASE op = <<"<">>
  BY <1>1, <1>4, OpsDiffer, Zenon DEF applyOp
<1>5. CASE op = <<"<", "=">>
  BY <1>1, <1>5, OpsDiffer, Zenon DEF applyOp
<1>6. CASE op = <<">">>
  BY <1>1, <1>6, OpsDiffer, Zenon DEF applyOp
<1>7. CASE op = <<">", "=">>
  BY <1>1, <1>7, OpsDiffer, Zenon DEF applyOp
<1> QED
  BY <1>2, <1>3, <1>4, <1>5, <1>6, <1>7, Zenon DEF Ops
-----------------------------------------------------------------------------
(* Columns and rows. *)
LEMMA TypeIs ==
  ASSUME NEW columns, IsSchema(columns)
  PROVE  /\ \A n \in ColumnNames(columns) : TypeOf(columns, n) \in {"INT", "TEXT"}
         /\ \A i \in DOMAIN columns : TypeOf(columns, columns[i].name) = columns[i].type
         /\ IdColumn \in ColumnNames(columns) /\ TypeOf(columns, IdColumn) = "INT"
<1>0. /\ \A i \in DOMAIN columns : columns[i].type \in {"INT", "TEXT"}
      /\ \A i, j \in DOMAIN columns : columns[i].name = columns[j].name => i = j
  <2>1. columns \in Seq([name : Texts, type : {"INT", "TEXT"}])
    BY Zenon DEF IsSchema
  <2>2. \A i, j \in DOMAIN columns : columns[i].name = columns[j].name => i = j
    BY Zenon DEF IsSchema, IsInjective
  <2>3. \A i \in DOMAIN columns : columns[i].type \in {"INT", "TEXT"}
    <3>1. columns \in Seq(Columns) /\ \A x \in Columns : x.type \in {"INT", "TEXT"}
      BY <2>1 DEF Columns
    <3>2. \A i \in DOMAIN columns : columns[i] \in Columns
      BY <3>1
    <3> QED
      BY <3>1, <3>2, Zenon
  <2> QED
    BY <2>2, <2>3, Zenon
<1>1. ASSUME NEW i \in DOMAIN columns PROVE TypeOf(columns, columns[i].name) = columns[i].type
  <2>1. (CHOOSE j \in DOMAIN columns : columns[j].name = columns[i].name) = i
    BY <1>0, Zenon
  <2> QED
    BY <2>1, Zenon DEF TypeOf
<1>2. \A n \in ColumnNames(columns) : TypeOf(columns, n) \in {"INT", "TEXT"}
  BY <1>0, <1>1, Zenon DEF ColumnNames
<1>3. PICK i \in DOMAIN columns : columns[i] = [name |-> IdColumn, type |-> "INT"]
  BY Zenon DEF IsSchema
<1>4. columns[i].name = IdColumn /\ columns[i].type = "INT"
  BY <1>3
<1>5. IdColumn \in ColumnNames(columns) /\ TypeOf(columns, IdColumn) = "INT"
  BY <1>1, <1>4, Zenon DEF ColumnNames
<1> QED
  BY <1>1, <1>2, <1>5, Zenon

LEMMA FitsIs ==
  ASSUME NEW columns, IsSchema(columns), NEW row
  PROVE  FitsColumns(columns, row) <=>
            /\ DOMAIN row = ColumnNames(columns)
            /\ \A n \in ColumnNames(columns) : row[n] \in CellOf(TypeOf(columns, n))
BY TypeIs, Zenon DEF FitsColumns, ColumnNames

(* A clause is about a value of the type of its column. *)
LEMMA HoldsIs ==
  ASSUME NEW columns, IsSchema(columns), NEW row, FitsColumns(columns, row),
         NEW clause \in Clauses, IsValidClause(columns, clause)
  PROVE  Holds(clause, row) <=> Satisfies(row, clause)
<1> PICK c, type, op : c = row[clause.column] /\ type = TypeOf(columns, clause.column) /\ op = clause.op
  BY Zenon
<1>1. clause.column \in ColumnNames(columns) /\ isValidValueFor(type, clause.value)
  BY Zenon DEF IsValidClause, Accepts
<1>2. type \in {"INT", "TEXT"} /\ c \in CellOf(type)
  BY <1>1, TypeIs, FitsIs, Zenon
<1>3. op \in Ops /\ clause.value \in Texts
  BY DEF Clauses
<1>4. CASE type = "INT"
  <2> PICK x, y : x = c.int /\ y = ParseInt(clause.value)
    BY Zenon
  <2>1. "int" \in DOMAIN c /\ x \in MinInt..MaxInt /\ y \in MinInt..MaxInt
    BY <1>1, <1>2, <1>4, CellHas, Zenon DEF isValidValueFor
  <2>2. x \in Int /\ y \in Int
    BY <2>1, IntAssumption
  <2>3. Holds(clause, row) <=> applyOp(op, CompareInt(x, y))
    BY <2>1, Zenon DEF Holds
  <2>4. Satisfies(row, clause) <=>
           \/ x = y /\ op \in {<<"=">>, <<"<", "=">>, <<">", "=">>}
           \/ x < y /\ op \in {<<"<">>, <<"<", "=">>, <<"!", "=">>}
           \/ y < x /\ op \in {<<">">>, <<">", "=">>, <<"!", "=">>}
    BY <2>1, Zenon DEF Satisfies
  <2>5. CompareInt(x, y) \in {-1, 0, 1} /\ (CompareInt(x, y) = 0 <=> x = y)
        /\ (CompareInt(x, y) = -1 <=> x < y) /\ (CompareInt(x, y) = 1 <=> y < x)
    BY <2>2 DEF CompareInt
  <2> PICK cmp : cmp = CompareInt(x, y)
    BY Zenon
  <2>6. applyOp(op, cmp) <=> \/ cmp = 0 /\ op \in {<<"=">>, <<"<", "=">>, <<">", "=">>}
                             \/ cmp = -1 /\ op \in {<<"<">>, <<"<", "=">>, <<"!", "=">>}
                             \/ cmp = 1 /\ op \in {<<">">>, <<">", "=">>, <<"!", "=">>}
    BY <1>3, <2>5, ApplyIs, Zenon
  <2> QED
    BY <2>3, <2>4, <2>5, <2>6, Zenon
<1>5. CASE type = "TEXT"
  <2> PICK x, y : x = c.text /\ y = clause.value
    BY Zenon
  <2>1. "int" \notin DOMAIN c /\ x \in Texts /\ y \in Texts
    BY <1>2, <1>3, <1>5, CellHas, Zenon
  <2>3. Holds(clause, row) <=> applyOp(op, CompareText(x, y))
    BY <2>1, Zenon DEF Holds
  <2>4. Satisfies(row, clause) <=>
           \/ x = y /\ op \in {<<"=">>, <<"<", "=">>, <<">", "=">>}
           \/ CompareText(x, y) = -1 /\ op \in {<<"<">>, <<"<", "=">>, <<"!", "=">>}
           \/ CompareText(y, x) = -1 /\ op \in {<<">">>, <<">", "=">>, <<"!", "=">>}
    BY <2>1, Zenon DEF Satisfies
  <2>5. CompareText(x, y) \in {-1, 0, 1} /\ (CompareText(x, y) = 0 <=> x = y)
        /\ (CompareText(x, y) = 1 <=> CompareText(y, x) = -1)
    BY <2>1, Compares, Zenon
  <2> PICK cmp : cmp = CompareText(x, y)
    BY Zenon
  <2>6. applyOp(op, cmp) <=> \/ cmp = 0 /\ op \in {<<"=">>, <<"<", "=">>, <<">", "=">>}
                             \/ cmp = -1 /\ op \in {<<"<">>, <<"<", "=">>, <<"!", "=">>}
                             \/ cmp = 1 /\ op \in {<<">">>, <<">", "=">>, <<"!", "=">>}
    BY <1>3, <2>5, ApplyIs, Zenon
  <2> QED
    BY <2>3, <2>4, <2>5, <2>6, Zenon
<1> QED
  BY <1>2, <1>4, <1>5, Zenon

LEMMA MatchingIs ==
  ASSUME NEW table, IsTable(table), NEW where \in Seq(Clauses), IsValidConjunction(table.columns, where)
  PROVE  Matching(table, where) = Hits(table, where)
<1>1. \A i \in DOMAIN where : where[i] \in Clauses
  OBVIOUS
<1>2. \A id \in DOMAIN table.rows, i \in DOMAIN where :
         Holds(where[i], table.rows[id]) <=> Satisfies(table.rows[id], where[i])
  BY <1>1, HoldsIs, Zenon DEF IsTable, IsValidConjunction
<1> QED
  BY <1>2, Zenon DEF Matching, HoldAll, Hits
(* Access by key. *)
LEMMA WrapIs == ASSUME NEW n \in MinInt..MaxInt PROVE Wrap(n) = n
<1>1. \A a \in Nat, b \in Nat \ {0} : a < b => a % b = a
  OBVIOUS
<1>2. n - MinInt \in Nat /\ MaxInt - MinInt + 1 \in Nat \ {0} /\ n - MinInt < MaxInt - MinInt + 1
  BY IntAssumption
<1>3. (n - MinInt) % (MaxInt - MinInt + 1) = n - MinInt
  BY <1>1, <1>2, Zenon
<1> QED
  BY <1>3, IntAssumption DEF Wrap

LEMMA IdsAre ==
  ASSUME NEW table, IsTable(table), NEW id \in DOMAIN table.rows
  PROVE  /\ "int" \in DOMAIN table.rows[id][IdColumn] /\ table.rows[id][IdColumn].int = id
         /\ id \in MinInt..MaxInt /\ id \in Int
<1>1. IsSchema(table.columns) /\ FitsColumns(table.columns, table.rows[id])
      /\ table.rows[id][IdColumn].int = id
  BY Zenon DEF IsTable
<1>2. table.rows[id][IdColumn] \in CellOf("INT")
  BY <1>1, TypeIs, FitsIs, Zenon
<1>3. "INT" \in {"INT", "TEXT"}
  OBVIOUS
<1>4. "int" \in DOMAIN table.rows[id][IdColumn] /\ id \in MinInt..MaxInt
  BY <1>1, <1>2, <1>3, CellHas, Zenon
<1>5. id \in Int
  BY <1>4, IntAssumption
<1> QED
  BY <1>1, <1>4, <1>5, Zenon

LEMMA HoldsId ==
  ASSUME NEW table, IsTable(table), NEW id \in DOMAIN table.rows, NEW clause \in Clauses,
         clause.column = IdColumn, NEW v \in MinInt..MaxInt, v = ParseInt(clause.value)
  PROVE  /\ clause.op = <<"=">>      => (Holds(clause, table.rows[id]) <=> id = v)
         /\ clause.op = <<"<">>      => (Holds(clause, table.rows[id]) <=> id < v)
         /\ clause.op = <<"<", "=">> => (Holds(clause, table.rows[id]) <=> id <= v)
         /\ clause.op = <<">">>      => (Holds(clause, table.rows[id]) <=> id > v)
         /\ clause.op = <<">", "=">> => (Holds(clause, table.rows[id]) <=> id >= v)
<1> PICK op, cmp : op = clause.op /\ cmp = CompareInt(id, v)
  BY Zenon
<1>0. id \in Int /\ v \in Int
  BY IdsAre, IntAssumption
<1>1. Holds(clause, table.rows[id]) <=> applyOp(op, cmp)
  BY IdsAre, Zenon DEF Holds
<1>2. cmp < 0 <=> id < v
  BY <1>0 DEF CompareInt
<1>3. cmp = 0 <=> id = v
  BY <1>0 DEF CompareInt
<1>4. cmp <= 0 <=> id <= v
  BY <1>0 DEF CompareInt
<1>5. cmp > 0 <=> id > v
  BY <1>0 DEF CompareInt
<1>6. cmp >= 0 <=> id >= v
  BY <1>0 DEF CompareInt
<1>7. /\ op = <<"=">> => (applyOp(op, cmp) <=> cmp = 0)
      /\ op = <<"<">> => (applyOp(op, cmp) <=> cmp < 0)
      /\ op = <<"<", "=">> => (applyOp(op, cmp) <=> cmp <= 0)
      /\ op = <<">">> => (applyOp(op, cmp) <=> cmp > 0)
      /\ op = <<">", "=">> => (applyOp(op, cmp) <=> cmp >= 0)
  BY OpsDiffer, Zenon DEF applyOp
<1> QED
  BY <1>1, <1>2, <1>3, <1>4, <1>5, <1>6, <1>7, Zenon

LEMMA RowsById ==
  ASSUME NEW table, IsTable(table), NEW clause \in Clauses,
         IsValidClause(table.columns, clause), isIndexableIdClause(clause)
  PROVE  rowsByIdClause(table, clause) = {id \in DOMAIN table.rows : Holds(clause, table.rows[id])}
<1> PICK v, D : v = ParseInt(clause.value) /\ D = DOMAIN table.rows
  BY Zenon
<1> DEFINE H == {id \in DOMAIN table.rows : Holds(clause, table.rows[id])}
<1>0. clause.column = IdColumn /\ clause.op \in Ops /\ clause.op # <<"!", "=">>
  BY DEF isIndexableIdClause, Clauses
<1>1. v \in MinInt..MaxInt
  BY <1>0, TypeIs, Zenon DEF IsValidClause, Accepts, isValidValueFor, IsTable
<1>2. \A id \in D : id \in MinInt..MaxInt
  BY IdsAre, Zenon
<1>3. MinInt \in Int /\ MaxInt \in Int
  BY IntAssumption
<1>5. CASE clause.op = <<"=">>
  <2>1. rowsByIdClause(table, clause) = {v} \cap D
    BY <1>5, OpsDiffer, Zenon DEF rowsByIdClause
  <2>2. H = {id \in D : id = v}
    BY <1>0, <1>1, <1>5, HoldsId, Zenon
  <2> QED
    BY <2>1, <2>2, Zenon
<1>6. CASE clause.op = <<"<">>
  <2>1. rowsByIdClause(table, clause) =
           IF v = MinInt THEN {} ELSE {id \in D : MinInt <= id /\ id <= Wrap(v - 1)}
    <3>1. rowsByIdClause(table, clause) = IF v = MinInt THEN {} ELSE selectIdRange(table, MinInt, Wrap(v - 1))
      BY <1>6, OpsDiffer, Zenon DEF rowsByIdClause
    <3> QED
      BY <3>1, Zenon DEF selectIdRange
  <2>2. H = {id \in D : id < v}
    BY <1>0, <1>1, <1>6, HoldsId, Zenon
  <2>3. v # MinInt => v - 1 \in MinInt..MaxInt
    BY <1>1, <1>3
  <2>4. v # MinInt => Wrap(v - 1) = v - 1
    BY <2>3, WrapIs, Zenon
  <2>5. v # MinInt => \A id \in D : (MinInt <= id /\ id <= v - 1) <=> id < v
    BY <1>1, <1>2, <1>3
  <2>6. v = MinInt => \A id \in D : ~(id < v)
    BY <1>2, <1>3
  <2> QED
    BY <2>1, <2>2, <2>4, <2>5, <2>6, Zenon
<1>7. CASE clause.op = <<"<", "=">>
  <2>1. rowsByIdClause(table, clause) = {id \in D : MinInt <= id /\ id <= v}
    <3>1. rowsByIdClause(table, clause) = selectIdRange(table, MinInt, v)
      BY <1>7, OpsDiffer, Zenon DEF rowsByIdClause
    <3> QED
      BY <3>1, Zenon DEF selectIdRange
  <2>2. H = {id \in D : id <= v}
    BY <1>0, <1>1, <1>7, HoldsId, Zenon
  <2>3. \A id \in D : MinInt <= id
    BY <1>2, <1>3
  <2> QED
    BY <2>1, <2>2, <2>3, Zenon
<1>8. CASE clause.op = <<">">>
  <2>1. rowsByIdClause(table, clause) =
           IF v = MaxInt THEN {} ELSE {id \in D : Wrap(v + 1) <= id /\ id <= MaxInt}
    <3>1. rowsByIdClause(table, clause) = IF v = MaxInt THEN {} ELSE selectIdRange(table, Wrap(v + 1), MaxInt)
      BY <1>8, OpsDiffer, Zenon DEF rowsByIdClause
    <3> QED
      BY <3>1, Zenon DEF selectIdRange
  <2>2. H = {id \in D : id > v}
    BY <1>0, <1>1, <1>8, HoldsId, Zenon
  <2>3. v # MaxInt => v + 1 \in MinInt..MaxInt
    BY <1>1, <1>3
  <2>4. v # MaxInt => Wrap(v + 1) = v + 1
    BY <2>3, WrapIs, Zenon
  <2>5. v # MaxInt => \A id \in D : (v + 1 <= id /\ id <= MaxInt) <=> id > v
    BY <1>1, <1>2, <1>3
  <2>6. v = MaxInt => \A id \in D : ~(id > v)
    BY <1>2, <1>3
  <2> QED
    BY <2>1, <2>2, <2>4, <2>5, <2>6, Zenon
<1>9. CASE clause.op = <<">", "=">>
  <2>1. rowsByIdClause(table, clause) = {id \in D : v <= id /\ id <= MaxInt}
    <3>1. rowsByIdClause(table, clause) = selectIdRange(table, v, MaxInt)
      BY <1>9, OpsDiffer, Zenon DEF rowsByIdClause
    <3> QED
      BY <3>1, Zenon DEF selectIdRange
  <2>2. H = {id \in D : id >= v}
    BY <1>0, <1>1, <1>9, HoldsId, Zenon
  <2>3. \A id \in D : id <= MaxInt /\ (v <= id <=> id >= v)
    BY <1>1, <1>2, <1>3
  <2> QED
    BY <2>1, <2>2, <2>3, Zenon
<1> QED
  BY <1>0, <1>5, <1>6, <1>7, <1>8, <1>9, Zenon DEF Ops

LEMMA FetchIs ==
  ASSUME NEW table, IsTable(table), NEW where \in Seq(Clauses), IsValidConjunction(table.columns, where)
  PROVE  fetchRows(table, where) = Hits(table, where)
<1> PICK X, f : X = {i \in DOMAIN where : isIndexableIdClause(where[i])} /\ f = Min(X)
  BY Zenon
<1>1. CASE X = {}
  BY <1>1, MatchingIs, Zenon DEF fetchRows
<1>2. CASE X # {}
  <2>1. X \in SUBSET Nat
    OBVIOUS
  <2>2. f \in DOMAIN where /\ isIndexableIdClause(where[f])
    BY <1>2, <2>1, MinOf, Zenon
  <2>3. where[f] \in Clauses
    BY <2>2
  <2>4. rowsByIdClause(table, where[f]) = {id \in DOMAIN table.rows : Holds(where[f], table.rows[id])}
    BY <2>2, <2>3, RowsById, Zenon DEF IsValidConjunction
  <2>5. fetchRows(table, where) = {id \in rowsByIdClause(table, where[f]) :
                 \A i \in DOMAIN where \ {f} : Holds(where[i], table.rows[id])}
    BY <1>2, Zenon DEF fetchRows
  <2>6. fetchRows(table, where) = Matching(table, where)
    BY <2>2, <2>4, <2>5, Zenon DEF Matching, HoldAll
  <2> QED
    BY <2>6, MatchingIs, Zenon
<1> QED
  BY <1>1, <1>2, Zenon
-----------------------------------------------------------------------------
(* What a statement does. *)
Done(tables, s, outcome) == FitsSchema(outcome.db) /\ Means(tables, s, outcome.db, outcome.reply)

LEMMA OutcomeIs ==
  ASSUME NEW tables
  PROVE  /\ Error(tables).db = tables /\ Error(tables).reply.status = "ERROR"
         /\ Ok(tables).db = tables /\ Ok(tables).reply.status # "ERROR"
BY DEF Error, Ok

LEMMA AnswerIs ==
  ASSUME NEW tables, NEW x
  PROVE  /\ Counted(tables, x).db = tables /\ Counted(tables, x).reply.status # "ERROR"
         /\ Counted(tables, x).reply.count = x
         /\ Rows(tables, x).db = tables /\ Rows(tables, x).reply.status # "ERROR" /\ Rows(tables, x).reply.rows = x
BY DEF Counted, Rows

LEMMA ErrorDone ==
  ASSUME NEW tables, FitsSchema(tables), NEW s,
         s.kind \in {"select", "update", "delete"} => ~Answerable(tables, s)
  PROVE  Done(tables, s, Error(tables))
<1> PICK after, reply : after = Error(tables).db /\ reply = Error(tables).reply
  BY Zenon
<1>1. after = tables /\ reply.status = "ERROR"
  BY OutcomeIs, Zenon
<1>2. (s.kind = "select" \/ s.kind = "update" \/ s.kind = "delete") => ~Answerable(tables, s)
  BY Zenon
<1>3. Means(tables, s, after, reply)
  BY <1>1, <1>2, Zenon DEF Means
<1> QED
  BY <1>1, <1>3, Zenon DEF Done

(* after is before, with the table of this name replaced. *)
Replaces(after, before, n, table) ==
    /\ FitsSchema(after)
    /\ after[n] = table
    /\ Restricted(after, DOMAIN after \ {n}) = Restricted(before, DOMAIN before \ {n})

LEMMA WithIs ==
  ASSUME NEW tables, FitsSchema(tables), NEW n, NEW table, IsTable(table)
  PROVE  Replaces(With(tables, n, table), tables, n, table)
<1> PICK after : after = With(tables, n, table)
  BY Zenon
<1>1. after[n] = table /\ DOMAIN after = DOMAIN tables \cup {n}
      /\ \A m \in DOMAIN tables : m # n => after[m] = tables[m]
  BY Zenon DEF With
<1>2. FitsSchema(after)
  BY <1>1, Zenon DEF FitsSchema
<1>3. DOMAIN after \cap (DOMAIN after \ {n}) = DOMAIN tables \cap (DOMAIN tables \ {n})
  BY <1>1, Zenon
<1>4. \A m \in DOMAIN tables \cap (DOMAIN tables \ {n}) : after[m] = tables[m]
  BY <1>1, Zenon
<1>5. Restricted(after, DOMAIN after \ {n}) = Restricted(tables, DOMAIN tables \ {n})
  BY <1>3, <1>4, Zenon DEF Restricted
<1> QED
  BY <1>1, <1>2, <1>5, Zenon DEF Replaces

LEMMA CreateDone ==
  ASSUME NEW tables, FitsSchema(tables), NEW s, IsCreate(s)
  PROVE  Done(tables, s, runCreate(tables, s))
<1> PICK o, t : o = runCreate(tables, s) /\ t = [columns |-> s.columns, rows |-> <<>>]
  BY Zenon
<1>0. s.kind \notin {"select", "update", "delete"} /\ s.kind # "insert" /\ s.kind # "select"
      /\ s.kind # "update" /\ s.kind # "delete"
  BY DEF IsCreate
<1>1. CASE o = Error(tables)
  BY <1>0, <1>1, ErrorDone, Zenon
<1>2. CASE o # Error(tables)
  <2>1. /\ IsInjective([i \in DOMAIN s.columns |-> s.columns[i].name])
        /\ \E i \in DOMAIN s.columns : s.columns[i] = [name |-> IdColumn, type |-> "INT"]
        /\ o = Ok(With(tables, s.table, t))
    BY <1>2, Zenon DEF runCreate
  <2>2. t.columns = s.columns /\ DOMAIN t.rows = {}
    OBVIOUS
  <2>3. IsTable(t)
    <3>1. IsSchema(s.columns)
      BY <2>1, Zenon DEF IsSchema, IsCreate, Columns
    <3> QED
      BY <2>2, <3>1, FS_EmptySet, Zenon DEF IsTable
  <2> PICK after : after = With(tables, s.table, t)
    BY Zenon
  <2>4. FitsSchema(after)
        /\ Restricted(after, DOMAIN after \ {s.table}) = Restricted(tables, DOMAIN tables \ {s.table})
    <3>1. Replaces(after, tables, s.table, t)
      BY <2>3, WithIs, Zenon
    <3> QED
      BY <3>1, Zenon DEF Replaces
  <2>5. o.db = after /\ o.reply.status # "ERROR"
    BY <2>1, OutcomeIs, Zenon
  <2>6. Means(tables, s, o.db, o.reply)
    BY <1>0, <2>4, <2>5, Zenon DEF Means
  <2> QED
    BY <2>4, <2>5, <2>6, Zenon DEF Done
<1> QED
  BY <1>1, <1>2, Zenon

LEMMA DropDone ==
  ASSUME NEW tables, FitsSchema(tables), NEW s, IsDrop(s) PROVE Done(tables, s, runDrop(tables, s))
<1> PICK o, n : o = runDrop(tables, s) /\ n = s.table
  BY Zenon
<1>0. s.kind \notin {"select", "update", "delete"} /\ s.kind # "insert" /\ s.kind # "select"
      /\ s.kind # "update" /\ s.kind # "delete"
  BY DEF IsDrop
<1>1. CASE o = Error(tables)
  BY <1>0, <1>1, ErrorDone, Zenon
<1>2. CASE o # Error(tables)
  <2> PICK after : after = Restricted(tables, DOMAIN tables \ {n})
    BY Zenon
  <2>1. o = Ok(after)
    BY <1>2, Zenon DEF runDrop
  <2>2. DOMAIN after = DOMAIN tables \ {n} /\ \A m \in DOMAIN tables \ {n} : after[m] = tables[m]
    BY Zenon DEF Restricted
  <2>3. FitsSchema(after)
    BY <2>2, Zenon DEF FitsSchema
  <2>4. Restricted(after, DOMAIN after \ {n}) = Restricted(tables, DOMAIN tables \ {n})
    <3>1. DOMAIN after \cap (DOMAIN after \ {n}) = DOMAIN tables \cap (DOMAIN tables \ {n})
      BY <2>2, Zenon
    <3>2. \A m \in DOMAIN tables \cap (DOMAIN tables \ {n}) : after[m] = tables[m]
      BY <2>2, Zenon
    <3> QED
      BY <3>1, <3>2, Zenon DEF Restricted
  <2>5. o.db = after /\ o.reply.status # "ERROR"
    BY <2>1, OutcomeIs, Zenon
  <2>6. Means(tables, s, o.db, o.reply)
    BY <1>0, <2>4, <2>5, Zenon DEF Means
  <2> QED
    BY <2>3, <2>5, <2>6, Zenon DEF Done
<1> QED
  BY <1>1, <1>2, Zenon
(* Row::set for each column: the last value counts. *)
Sets(r, columns, row, names, values) ==
    /\ DOMAIN r = DOMAIN row \cup Range(names)
    /\ \A n \in DOMAIN row \ Range(names) : r[n] = row[n]
    /\ \A n \in Range(names) :
          \E i \in DOMAIN names : /\ names[i] = n
                                  /\ \A j \in DOMAIN names : j > i => names[j] # n
                                  /\ r[n] = Cell(TypeOf(columns, n), values[i])
    /\ \A n \in Range(names) : n \in ColumnNames(columns) /\ r[n] \in CellOf(TypeOf(columns, n))

LEMMA SetAllIs ==
  ASSUME NEW columns, IsSchema(columns), NEW row, NEW names \in Seq(Texts), NEW values \in Seq(Texts),
         Len(names) = Len(values),
         \A i \in DOMAIN names : Accepts(columns, names[i], values[i])
  PROVE  Sets(SetAll(columns, row, names, values), columns, row, names, values)
<1> PICK r : r = SetAll(columns, row, names, values)
  BY Zenon
<1>1. /\ DOMAIN r = DOMAIN row \cup Range(names)
      /\ \A n \in DOMAIN row \ Range(names) : r[n] = row[n]
      /\ \A n \in Range(names) :
            r[n] = Cell(TypeOf(columns, n), values[Max({i \in DOMAIN names : names[i] = n})])
  BY Zenon DEF SetAll
<1>2. ASSUME NEW n \in Range(names)
      PROVE  /\ \E i \in DOMAIN names : /\ names[i] = n
                                        /\ \A j \in DOMAIN names : j > i => names[j] # n
                                        /\ r[n] = Cell(TypeOf(columns, n), values[i])
             /\ n \in ColumnNames(columns) /\ r[n] \in CellOf(TypeOf(columns, n))
  <2> PICK C, m : C = {i \in DOMAIN names : names[i] = n} /\ m = Max(C)
    BY Zenon
  <2>1. C # {}
    BY Zenon DEF Range
  <2>2. Len(names) \in Nat /\ C \in SUBSET (0..Len(names))
    OBVIOUS
  <2>3. m \in C /\ \A j \in C : m >= j
    BY <2>1, <2>2, MaxOf, Zenon
  <2>4. m \in DOMAIN names /\ names[m] = n
    BY <2>3, Zenon
  <2>5. ASSUME NEW j \in DOMAIN names, j > m, names[j] = n PROVE FALSE
    <3>1. m >= j
      BY <2>3, <2>5, Zenon
    <3>2. m \in Int /\ j \in Int
      BY <2>4
    <3> QED
      BY <2>5, <3>1, <3>2
  <2>6. r[n] = Cell(TypeOf(columns, n), values[m])
    BY <1>1, Zenon
  <2>7. values[m] \in Texts
    BY <2>4
  <2>8. n \in ColumnNames(columns) /\ isValidValueFor(TypeOf(columns, n), values[m])
    BY <2>4, Zenon DEF Accepts
  <2>9. r[n] \in CellOf(TypeOf(columns, n))
    BY <2>6, <2>7, <2>8, TypeIs, CellIs, Zenon
  <2> QED
    BY <2>4, <2>5, <2>6, <2>8, <2>9, Zenon
<1>3. Sets(r, columns, row, names, values)
  BY <1>1, <1>2, Zenon DEF Sets
<1> QED
  BY <1>3, Zenon

LEMMA RowsWith ==
  ASSUME NEW table, IsTable(table), NEW r, FitsColumns(table.columns, r), NEW id, r[IdColumn].int = id
  PROVE  IsTable([columns |-> table.columns, rows |-> With(table.rows, id, r)])
<1> PICK t, rows : t = [columns |-> table.columns, rows |-> rows] /\ rows = With(table.rows, id, r)
  BY Zenon
<1>1. t.columns = table.columns /\ t.rows = rows
  OBVIOUS
<1>2. DOMAIN rows = DOMAIN table.rows \cup {id} /\ rows[id] = r
      /\ \A x \in DOMAIN table.rows : x # id => rows[x] = table.rows[x]
  BY Zenon DEF With
<1>3. IsFiniteSet(DOMAIN rows)
  BY <1>2, FS_AddElement, Zenon DEF IsTable
<1>4. IsTable(t)
  BY <1>1, <1>2, <1>3, Zenon DEF IsTable
<1> QED
  BY <1>4, Zenon

LEMMA InsertDone ==
  ASSUME NEW tables, FitsSchema(tables), NEW s, IsInsert(s)
  PROVE  Done(tables, s, runInsert(tables, s))
<1> PICK o, n, table : o = runInsert(tables, s) /\ n = s.table /\ table = tables[n]
  BY Zenon
<1> PICK r, id, rows : /\ r = SetAll(table.columns, <<>>, s.columns, s.values)
                       /\ id = r[IdColumn].int /\ rows = With(table.rows, id, r)
  BY Zenon
<1>0. s.kind \notin {"select", "update", "delete"} /\ s.kind = "insert" /\ s.kind # "select"
      /\ s.kind # "update" /\ s.kind # "delete"
  BY DEF IsInsert
<1>1. CASE o = Error(tables)
  BY <1>0, <1>1, ErrorDone, Zenon
<1>2. CASE o # Error(tables)
  <2>1. /\ n \in DOMAIN tables
        /\ \A i \in DOMAIN s.columns : Accepts(table.columns, s.columns[i], s.values[i])
        /\ ColumnNames(table.columns) \subseteq Range(s.columns)
        /\ id \notin DOMAIN table.rows
        /\ o = Ok(WithRows(tables, n, rows))
    BY <1>2, Zenon DEF runInsert
  <2>2. IsTable(table) /\ IsSchema(table.columns)
    BY <2>1, Zenon DEF FitsSchema, IsTable
  <2>3. Sets(r, table.columns, <<>>, s.columns, s.values)
    BY <2>1, <2>2, SetAllIs, Zenon DEF IsInsert
  <2>4. DOMAIN <<>> = {}
    OBVIOUS
  <2>5. FitsColumns(table.columns, r)
    <3>1. DOMAIN r = ColumnNames(table.columns)
      BY <2>1, <2>3, <2>4, Zenon DEF Sets
    <3>2. \A c \in ColumnNames(table.columns) : r[c] \in CellOf(TypeOf(table.columns, c))
      BY <2>1, <2>3, Zenon DEF Sets
    <3> QED
      BY <2>2, <3>1, <3>2, FitsIs, Zenon
  <2> PICK t, after : t = [columns |-> table.columns, rows |-> rows] /\ after = With(tables, n, t)
    BY Zenon
  <2>6. IsTable(t)
    BY <2>2, <2>5, RowsWith, Zenon
  <2>7. Replaces(after, tables, n, t)
    BY <2>6, WithIs, Zenon
  <2>8. o = Ok(after)
    BY <2>1, Zenon DEF WithRows
  <2>9. o.db = after /\ o.reply.status # "ERROR"
    BY <2>8, OutcomeIs, Zenon
  <2>10. t.rows = rows
    OBVIOUS
  <2>11. Inserts(table, rows)
    <3>1. DOMAIN rows = DOMAIN table.rows \cup {id}
          /\ \A x \in DOMAIN table.rows : rows[x] = table.rows[x]
      BY <2>1, Zenon DEF With
    <3>2. id \in DOMAIN rows \ DOMAIN table.rows
      BY <2>1, <3>1, Zenon
    <3> QED
      BY <3>1, <3>2, Zenon DEF Inserts
  <2>12. Means(tables, s, o.db, o.reply)
    BY <1>0, <2>7, <2>9, <2>10, <2>11, Zenon DEF Means, Replaces
  <2> QED
    BY <2>7, <2>9, <2>12, Zenon DEF Done, Replaces
<1> QED
  BY <1>1, <1>2, Zenon
LEMMA HitsAre ==
  ASSUME NEW table, IsTable(table), NEW where
  PROVE  /\ Hits(table, where) \subseteq DOMAIN table.rows
         /\ IsFiniteSet(Hits(table, where)) /\ Hits(table, where) \subseteq Int
<1>1. Hits(table, where) \subseteq DOMAIN table.rows
  BY Zenon DEF Hits
<1>2. IsFiniteSet(Hits(table, where))
  BY <1>1, FS_Subset, Zenon DEF IsTable
<1>3. Hits(table, where) \subseteq Int
  BY <1>1, IdsAre, Zenon
<1> QED
  BY <1>1, <1>2, <1>3, Zenon

LEMMA SelectDone ==
  ASSUME NEW tables, FitsSchema(tables), NEW s, IsSelect(s)
  PROVE  Done(tables, s, runSelect(tables, s))
<1>p1. PICK o, n, table : o = runSelect(tables, s) /\ n = s.table /\ table = tables[n]
  BY Zenon
<1>0. s.kind = "select" /\ s.kind # "insert" /\ s.kind # "update" /\ s.kind # "delete"
      /\ s.columns \in Seq(Texts) /\ s.where \in Seq(Clauses)
  BY <1>p1 DEF IsSelect
<1>1. Answerable(tables, s) <=> /\ n \in DOMAIN tables
                            /\ Range(s.columns) \subseteq ColumnNames(table.columns)
                            /\ IsValidConjunction(table.columns, s.where)
  BY <1>p1, <1>0, Zenon DEF Answerable, IsValidConjunction, IsValidClause
<1>2. CASE ~Answerable(tables, s)
  <2>1. o = Error(tables)
    BY <1>p1, <1>1, <1>2, Zenon DEF runSelect
  <2> QED
    BY <1>p1, <1>2, <2>1, ErrorDone, Zenon
<1>3. CASE Answerable(tables, s)
  <2>p1. PICK H, ids, rows : /\ H = Hits(table, s.where) /\ ids = Ascending(H)
                          /\ rows = [i \in DOMAIN ids |-> formatRow(table, table.rows[ids[i]], s.columns)]
    BY Zenon
  <2>1. IsTable(table) /\ n \in DOMAIN tables /\ IsValidConjunction(table.columns, s.where)
    BY <1>p1, <2>p1, <1>1, <1>3, Zenon DEF FitsSchema
  <2>2. fetchRows(table, s.where) = H
    BY <1>p1, <2>p1, <1>0, <2>1, FetchIs, Zenon
  <2>3. o = Rows(tables, rows)
    BY <1>p1, <2>p1, <1>1, <1>3, <2>2, Zenon DEF runSelect
  <2>4. o.db = tables /\ o.reply.status # "ERROR" /\ o.reply.rows = rows
    <3>1. Rows(tables, rows).db = tables /\ Rows(tables, rows).reply.status # "ERROR" /\ Rows(tables, rows).reply.rows = rows
      BY AnswerIs, Zenon
    <3> QED
      BY <2>3, <3>1, Zenon
  <2>5. IsFiniteSet(H) /\ H \subseteq Int
    BY <1>p1, <2>p1, <2>1, HitsAre, Zenon
  <2>6. Len(rows) = Cardinality(H)
    <3>1. Cardinality(H) \in Nat /\ DOMAIN ids = 1..Cardinality(H)
      BY <1>p1, <2>p1, <2>5, FS_CardinalityType, Zenon DEF Ascending
    <3>2. rows = [i \in 1..Cardinality(H) |-> rows[i]] /\ DOMAIN rows = 1..Cardinality(H)
      BY <1>p1, <2>p1, <3>1, Zenon
    <3> QED
      BY <3>1, <3>2
  <2>7. \A id \in H : rows[Rank(H, id)] = formatRow(table, table.rows[id], s.columns)
    <3>1. \A i \in DOMAIN ids : rows[i] = formatRow(table, table.rows[ids[i]], s.columns)
      BY <2>p1, Zenon
    <3>2. \A id \in H : Rank(H, id) \in DOMAIN ids /\ ids[Rank(H, id)] = id
      BY <2>p1, <2>5, AscendingHas, Zenon
    <3> QED
      BY <3>1, <3>2, Zenon
  <2>8. Selects(table, s, o.reply)
    <3>1. H = Hits(table, s.where)
      BY <2>p1, Zenon
    <3> QED
      BY <2>4, <2>6, <2>7, <3>1, Zenon DEF Selects
  <2>9. Means(tables, s, o.db, o.reply)
    BY <1>p1, <2>p1, <1>0, <1>3, <2>4, <2>8, Zenon DEF Means
  <2> QED
    BY <1>p1, <2>p1, <2>4, <2>9, Zenon DEF Done
<1> QED
  BY <1>p1, <1>2, <1>3, Zenon

LEMMA DeleteDone ==
  ASSUME NEW tables, FitsSchema(tables), NEW s, IsDelete(s)
  PROVE  Done(tables, s, runDelete(tables, s))
<1>p1. PICK o, n, table, w : o = runDelete(tables, s) /\ n = s.table /\ table = tables[n] /\ w = s.where
  BY Zenon
<1> DEFINE byKey == /\ Len(w) = 1 /\ w[1].column = IdColumn /\ w[1].op = <<"=">>
                    /\ isValidValueFor("INT", w[1].value)
<1>0. s.kind = "delete" /\ s.kind # "insert" /\ s.kind # "update" /\ s.kind # "select"
      /\ w \in Seq(Clauses)
  BY <1>p1 DEF IsDelete
<1>1. Answerable(tables, s) <=> n \in DOMAIN tables /\ IsValidConjunction(table.columns, w)
  BY <1>p1, <1>0, Zenon DEF Answerable, IsValidConjunction, IsValidClause
<1>2. ASSUME n \in DOMAIN tables, byKey PROVE IsValidConjunction(table.columns, w)
  <2>1. IsSchema(table.columns)
    BY <1>p1, <1>2, Zenon DEF FitsSchema, IsTable
  <2>2. DOMAIN w = {1}
    BY <1>p1, <1>0, <1>2
  <2> QED
    BY <1>p1, <1>2, <2>1, <2>2, TypeIs, Zenon DEF IsValidConjunction, IsValidClause, Accepts
<1>3. CASE ~Answerable(tables, s)
  <2>1. o = Error(tables)
    BY <1>p1, <1>1, <1>2, <1>3, Zenon DEF runDelete
  <2> QED
    BY <1>p1, <1>3, <2>1, ErrorDone, Zenon
<1>4. CASE Answerable(tables, s)
  <2>p1. PICK H, rows : H = Hits(table, w) /\ rows = Restricted(table.rows, DOMAIN table.rows \ H)
    BY Zenon
  <2>1. IsTable(table) /\ n \in DOMAIN tables /\ IsValidConjunction(table.columns, w)
    BY <1>p1, <2>p1, <1>1, <1>4, Zenon DEF FitsSchema
  <2>2. Matching(table, w) = H
    BY <1>p1, <2>p1, <1>0, <2>1, MatchingIs, Zenon
  <2>3. ASSUME byKey PROVE {ParseInt(w[1].value)} \cap DOMAIN table.rows = H
    <3>1. DOMAIN w = {1} /\ w[1] \in Clauses
      BY <1>p1, <2>p1, <1>0, <2>3
    <3>2. ParseInt(w[1].value) \in MinInt..MaxInt
      BY <1>p1, <2>p1, <2>3, Zenon DEF isValidValueFor
    <3>3. ASSUME NEW id \in DOMAIN table.rows
          PROVE  Holds(w[1], table.rows[id]) <=> id = ParseInt(w[1].value)
      <4>p1. PICK v, clause : v = ParseInt(w[1].value) /\ clause = w[1]
        BY Zenon
      <4>1. clause \in Clauses /\ clause.column = IdColumn /\ clause.op = <<"=">>
            /\ v \in MinInt..MaxInt /\ v = ParseInt(clause.value)
        BY <4>p1, <2>3, <3>1, <3>2, Zenon
      <4>2. Holds(clause, table.rows[id]) <=> id = v
        BY <2>1, <4>1, HoldsId, Zenon
      <4> QED
        BY <4>p1, <4>2, Zenon
    <3>4. Matching(table, w) = {id \in DOMAIN table.rows : id = ParseInt(w[1].value)}
      BY <1>p1, <2>p1, <3>1, <3>3, Zenon DEF Matching, HoldAll
    <3> QED
      BY <1>p1, <2>p1, <2>2, <3>4, Zenon
  <2>4. o = Counted(WithRows(tables, n, rows), Cardinality(H))
    BY <1>p1, <2>p1, <1>1, <1>4, <2>1, <2>2, <2>3, Zenon DEF runDelete
  <2>p2. PICK t, after : t = [columns |-> table.columns, rows |-> rows] /\ after = With(tables, n, t)
    BY Zenon
  <2>5. t.rows = rows /\ t.columns = table.columns
    BY <1>p1, <2>p1, <2>p2
  <2>6. DOMAIN rows = DOMAIN table.rows \ H /\ \A id \in DOMAIN rows : rows[id] = table.rows[id]
    BY <1>p1, <2>p1, <2>p2, Zenon DEF Restricted
  <2>7. IsTable(t)
    <3>1. IsFiniteSet(DOMAIN rows)
      BY <1>p1, <2>p1, <2>p2, <2>1, <2>6, FS_Subset, Zenon DEF IsTable
    <3> QED
      BY <2>1, <2>5, <2>6, <3>1, Zenon DEF IsTable
  <2>8. Replaces(after, tables, n, t)
    BY <1>p1, <2>p1, <2>p2, <2>7, WithIs, Zenon
  <2>9. o = Counted(after, Cardinality(H))
    BY <1>p1, <2>p1, <2>p2, <2>4, Zenon DEF WithRows
  <2>10. o.db = after /\ o.reply.status # "ERROR" /\ o.reply.count = Cardinality(H)
    <3>p1. PICK k : k = Cardinality(H)
      BY Zenon
    <3>1. Counted(after, k).db = after /\ Counted(after, k).reply.status # "ERROR"
          /\ Counted(after, k).reply.count = k
      BY DEF Counted
    <3> QED
      BY <2>9, <3>p1, <3>1, Zenon
  <2>11. Deletes(table, s, rows, o.reply)
    BY <1>p1, <2>p1, <2>p2, <2>10, Zenon DEF Deletes
  <2>12. Means(tables, s, o.db, o.reply)
    BY <1>p1, <2>p1, <2>p2, <1>0, <1>4, <2>5, <2>8, <2>10, <2>11, Zenon DEF Means, Replaces
  <2> QED
    BY <1>p1, <2>p1, <2>p2, <2>8, <2>10, <2>12, Zenon DEF Done, Replaces
<1> QED
  BY <1>p1, <1>3, <1>4, Zenon

LEMMA UpdateDone ==
  ASSUME NEW tables, FitsSchema(tables), NEW s, IsUpdate(s)
  PROVE  Done(tables, s, runUpdate(tables, s))
<1>p1. PICK o, n, table, w : o = runUpdate(tables, s) /\ n = s.table /\ table = tables[n] /\ w = s.where
  BY Zenon
<1>p2. PICK a, names, values : /\ a = s.assignments
                            /\ names = [i \in DOMAIN a |-> a[i].column]
                            /\ values = [i \in DOMAIN a |-> a[i].value]
  BY Zenon
<1>0. s.kind = "update" /\ s.kind # "insert" /\ s.kind # "delete" /\ s.kind # "select"
      /\ w \in Seq(Clauses) /\ a \in Seq(Assignments)
  BY <1>p1, <1>p2 DEF IsUpdate
<1>1. DOMAIN names = DOMAIN a /\ DOMAIN values = DOMAIN a
      /\ \A i \in DOMAIN a : names[i] = a[i].column /\ values[i] = a[i].value
  BY <1>p1, <1>p2, Zenon
<1>2. Answerable(tables, s) <=>
         /\ n \in DOMAIN tables /\ IsValidConjunction(table.columns, w)
         /\ \A i \in DOMAIN names : names[i] # IdColumn /\ Accepts(table.columns, names[i], values[i])
  BY <1>p1, <1>p2, <1>0, <1>1, Zenon DEF Answerable, IsValidConjunction, IsValidClause
<1>3. CASE ~Answerable(tables, s)
  <2>1. o = Error(tables)
    BY <1>p1, <1>p2, <1>2, <1>3, Zenon DEF runUpdate
  <2> QED
    BY <1>p1, <1>p2, <1>3, <2>1, ErrorDone, Zenon
<1>4. CASE Answerable(tables, s)
  <2>p1. PICK H, rows : /\ H = Hits(table, w)
                     /\ rows = [id \in DOMAIN table.rows |->
                                  IF id \in H THEN SetAll(table.columns, table.rows[id], names, values)
                                  ELSE table.rows[id]]
    BY Zenon
  <2>1. IsTable(table) /\ IsSchema(table.columns) /\ n \in DOMAIN tables /\ IsValidConjunction(table.columns, w)
    BY <1>p1, <1>p2, <2>p1, <1>2, <1>4, Zenon DEF FitsSchema, IsTable
  <2>2. Matching(table, w) = H
    BY <1>p1, <1>p2, <2>p1, <1>0, <2>1, MatchingIs, Zenon
  <2>3. o = Counted(WithRows(tables, n, rows), Cardinality(H))
    BY <1>p1, <1>p2, <2>p1, <1>2, <1>4, <2>2, Zenon DEF runUpdate
  <2>4. names \in Seq(Texts) /\ values \in Seq(Texts) /\ Len(names) = Len(values)
    <3>p1. PICK l : l = Len(a)
      BY Zenon
    <3>1. l \in Nat /\ DOMAIN a = 1..l /\ \A i \in 1..l : a[i] \in Assignments
      BY <1>p1, <1>p2, <2>p1, <3>p1, <1>0
    <3>2. \A x \in Assignments : x.column \in Texts /\ x.value \in Texts
      BY <1>p1, <1>p2, <2>p1, <3>p1 DEF Assignments
    <3>3. /\ names = [i \in 1..l |-> names[i]] /\ values = [i \in 1..l |-> values[i]]
          /\ \A i \in 1..l : names[i] \in Texts /\ values[i] \in Texts
      BY <1>p1, <1>p2, <2>p1, <3>p1, <1>1, <3>1, <3>2, Zenon
    <3>4. names \in Seq(Texts) /\ Len(names) = l
      BY <3>1, <3>3, SeqIs, Zenon
    <3>5. values \in Seq(Texts) /\ Len(values) = l
      BY <3>1, <3>3, SeqIs, Zenon
    <3> QED
      BY <3>4, <3>5, Zenon
  <2>5. \A i \in DOMAIN names : names[i] # IdColumn /\ Accepts(table.columns, names[i], values[i])
    BY <1>p1, <1>p2, <2>p1, <1>2, <1>4, Zenon
  <2>6. DOMAIN rows = DOMAIN table.rows /\ \A id \in DOMAIN rows \ H : rows[id] = table.rows[id]
    BY <1>p1, <1>p2, <2>p1, Zenon
  <2>7. \A id \in H : id \in DOMAIN table.rows
    BY <1>p1, <1>p2, <2>p1, <2>1, HitsAre, Zenon
  <2>8. ASSUME NEW id \in H PROVE Sets(rows[id], table.columns, table.rows[id], names, values)
    <3>1. rows[id] = SetAll(table.columns, table.rows[id], names, values)
      BY <1>p1, <1>p2, <2>p1, <2>7, Zenon
    <3> QED
      BY <2>1, <2>4, <2>5, <3>1, SetAllIs, Zenon
  <2>9. ASSUME NEW id \in H
        PROVE  FitsColumns(table.columns, rows[id]) /\ rows[id][IdColumn].int = id
    <3>1. FitsColumns(table.columns, table.rows[id]) /\ table.rows[id][IdColumn].int = id
      BY <1>p1, <1>p2, <2>p1, <2>1, <2>7, Zenon DEF IsTable
    <3>2. /\ DOMAIN table.rows[id] = ColumnNames(table.columns)
          /\ \A c \in ColumnNames(table.columns) : table.rows[id][c] \in CellOf(TypeOf(table.columns, c))
      BY <1>p1, <1>p2, <2>p1, <2>1, <3>1, FitsIs, Zenon
    <3>3. /\ DOMAIN rows[id] = ColumnNames(table.columns)
          /\ \A c \in ColumnNames(table.columns) : rows[id][c] \in CellOf(TypeOf(table.columns, c))
      BY <2>8, <3>2, Zenon DEF Sets
    <3>4. IdColumn \in ColumnNames(table.columns) /\ IdColumn \notin Range(names)
      BY <1>p1, <1>p2, <2>p1, <2>1, <2>5, TypeIs, Zenon DEF Range
    <3>5. rows[id][IdColumn] = table.rows[id][IdColumn]
      BY <2>8, <3>2, <3>4, Zenon DEF Sets
    <3> QED
      BY <1>p1, <1>p2, <2>p1, <2>1, <3>1, <3>3, <3>5, FitsIs, Zenon
  <2>p2. PICK t, after : t = [columns |-> table.columns, rows |-> rows] /\ after = With(tables, n, t)
    BY Zenon
  <2>10. t.rows = rows /\ t.columns = table.columns
    BY <1>p1, <1>p2, <2>p1, <2>p2
  <2>11. IsTable(t)
    BY <1>p1, <1>p2, <2>p1, <2>p2, <2>1, <2>6, <2>9, <2>10, Zenon DEF IsTable
  <2>12. Replaces(after, tables, n, t)
    BY <1>p1, <1>p2, <2>p1, <2>p2, <2>11, WithIs, Zenon
  <2>13. o = Counted(after, Cardinality(H))
    BY <1>p1, <1>p2, <2>p1, <2>p2, <2>3, Zenon DEF WithRows
  <2>14. o.db = after /\ o.reply.status # "ERROR" /\ o.reply.count = Cardinality(H)
    <3>p1. PICK k : k = Cardinality(H)
      BY Zenon
    <3>1. Counted(after, k).db = after /\ Counted(after, k).reply.status # "ERROR"
          /\ Counted(after, k).reply.count = k
      BY DEF Counted
    <3> QED
      BY <2>13, <3>p1, <3>1, Zenon
  <2>15. ASSUME NEW id \in Hits(table, s.where), NEW c \in ColumnNames(table.columns)
         PROVE  \/ /\ \A i \in DOMAIN s.assignments : s.assignments[i].column # c
                   /\ rows[id][c] = table.rows[id][c]
                \/ \E i \in DOMAIN s.assignments :
                      /\ s.assignments[i].column = c
                      /\ \A j \in DOMAIN s.assignments : j > i => s.assignments[j].column # c
                      /\ rows[id][c] = Cell(TypeOf(table.columns, c), s.assignments[i].value)
    <3>1. /\ DOMAIN names = DOMAIN s.assignments
          /\ \A i \in DOMAIN names : names[i] = s.assignments[i].column /\ values[i] = s.assignments[i].value
      BY <1>p2, <1>1, Zenon
    <3>2. id \in H
      BY <1>p1, <2>p1, Zenon
    <3>3. Sets(rows[id], table.columns, table.rows[id], names, values)
      BY <3>2, <2>8, Zenon
    <3>4. CASE c \in Range(names)
      <4>1. PICK i \in DOMAIN names : /\ names[i] = c
                                      /\ \A j \in DOMAIN names : j > i => names[j] # c
                                      /\ rows[id][c] = Cell(TypeOf(table.columns, c), values[i])
        BY <3>3, <3>4, Zenon DEF Sets
      <4>2. s.assignments[i].column = c /\ i \in DOMAIN s.assignments
            /\ rows[id][c] = Cell(TypeOf(table.columns, c), s.assignments[i].value)
        BY <3>1, <4>1, Zenon
      <4>3. \A j \in DOMAIN s.assignments : j > i => s.assignments[j].column # c
        BY <3>1, <4>1, Zenon
      <4> QED
        BY <4>2, <4>3, Zenon
    <3>5. CASE c \notin Range(names)
      <4>1. c \in DOMAIN table.rows[id]
        BY <3>2, <2>1, <2>7, FitsIs, Zenon DEF IsTable
      <4>2. rows[id][c] = table.rows[id][c]
        BY <3>3, <3>5, <4>1, Zenon DEF Sets
      <4>3. \A i \in DOMAIN s.assignments : s.assignments[i].column # c
        BY <3>1, <3>5, Zenon DEF Range
      <4> QED
        BY <4>2, <4>3, Zenon
    <3> QED
      BY <3>4, <3>5, Zenon
  <2>16. Updates(table, s, rows, o.reply)
    <3>1. H = Hits(table, s.where)
      BY <1>p1, <2>p1, Zenon
    <3>2. /\ o.reply.count = Cardinality(Hits(table, s.where))
          /\ \A id \in DOMAIN rows \ Hits(table, s.where) : rows[id] = table.rows[id]
      BY <2>6, <2>14, <3>1, Zenon
    <3> QED
      BY <2>6, <2>15, <3>2, Zenon DEF Updates
  <2>17. Means(tables, s, o.db, o.reply)
    BY <1>p1, <1>0, <1>4, <2>10, <2>12, <2>14, <2>16, Zenon DEF Means, Replaces
  <2> QED
    BY <1>p1, <1>p2, <2>p1, <2>p2, <2>12, <2>14, <2>17, Zenon DEF Done, Replaces
<1> QED
  BY <1>p1, <1>p2, <1>3, <1>4, Zenon

(* Every statement keeps the tables well formed and does what it says. *)
LEMMA ExecuteDone ==
  ASSUME NEW tables, FitsSchema(tables), NEW line \in Texts
  PROVE  Done(tables, Parse(Tokenize(line)), Execute(tables, line))
<1> PICK s : s = Parse(Tokenize(line))
  BY Zenon
<1>0. IsStatement(s)
  BY TokenizeType, ParseType, Zenon
<1>1. CASE s = Malformed
  <2>1. s.kind = "malformed" /\ s.kind \notin {"select", "update", "delete"}
    BY <1>1 DEF Malformed
  <2>2. Execute(tables, line) = Error(tables)
    BY <2>1, Zenon DEF Execute
  <2> QED
    BY <2>1, <2>2, ErrorDone, Zenon
<1>2. CASE IsCreate(s)
  <2>1. Execute(tables, line) = runCreate(tables, s)
    BY <1>2, Zenon DEF Execute, IsCreate
  <2> QED
    BY <1>2, <2>1, CreateDone, Zenon
<1>3. CASE IsDrop(s)
  <2>1. Execute(tables, line) = runDrop(tables, s)
    BY <1>3, Zenon DEF Execute, IsDrop
  <2> QED
    BY <1>3, <2>1, DropDone, Zenon
<1>4. CASE IsInsert(s)
  <2>1. Execute(tables, line) = runInsert(tables, s)
    BY <1>4, Zenon DEF Execute, IsInsert
  <2> QED
    BY <1>4, <2>1, InsertDone, Zenon
<1>5. CASE IsSelect(s)
  <2>1. Execute(tables, line) = runSelect(tables, s)
    BY <1>5, Zenon DEF Execute, IsSelect
  <2> QED
    BY <1>5, <2>1, SelectDone, Zenon
<1>6. CASE IsUpdate(s)
  <2>1. Execute(tables, line) = runUpdate(tables, s)
    BY <1>6, Zenon DEF Execute, IsUpdate
  <2> QED
    BY <1>6, <2>1, UpdateDone, Zenon
<1>7. CASE IsDelete(s)
  <2>1. Execute(tables, line) = runDelete(tables, s)
    BY <1>7, Zenon DEF Execute, IsDelete
  <2> QED
    BY <1>7, <2>1, DeleteDone, Zenon
<1> QED
  BY <1>0, <1>1, <1>2, <1>3, <1>4, <1>5, <1>6, <1>7, Zenon DEF IsStatement

-----------------------------------------------------------------------------
(* The inductive invariant of the execution: the lines that wait are text,  *)
(* which is all the executor may assume of them, and the tables are well    *)
(* formed.                                                                  *)
Executing == Framing /\ FitsSchema(db) /\ \E T : replies \in Seq(T)

(* One line, executed: the tables stay well formed, and the reply that is   *)
(* appended says what was done.                                             *)
LEMMA ExecutesDone ==
  ASSUME Executing, Executes
  PROVE  /\ FitsSchema(db') /\ Means(db, Parse(Tokenize(Head(pending))), db', Last(replies'))
         /\ \E T : replies' \in Seq(T)
<1>p1. PICK line, o : line = Head(pending) /\ o = Execute(db, line)
  BY Zenon
<1>1. line \in Texts
  <2>1. pending \in Seq(Texts) /\ pending # <<>>
    BY Zenon DEF Executing, Framing, Stream, Executes
  <2> QED
    BY <1>p1, <2>1
<1>2. db' = o.db /\ replies' = Append(replies, o.reply)
  BY <1>p1, Zenon DEF Executes
<1>3. Done(db, Parse(Tokenize(line)), o)
  <2>1. Done(db, Parse(Tokenize(line)), Execute(db, line))
    BY <1>1, ExecuteDone, Zenon DEF Executing
  <2> QED
    BY <1>p1, <2>1, Zenon
<1>4. PICK T : replies \in Seq(T)
  BY Zenon DEF Executing
<1>5. \A x : /\ Append(replies, x) \in Seq(T \cup {x})
             /\ Append(replies, x)[Len(Append(replies, x))] = x
  BY <1>4
<1>6. Last(replies') = o.reply /\ replies' \in Seq(T \cup {o.reply})
  BY <1>2, <1>5, Zenon DEF Last
<1>7. FitsSchema(o.db) /\ Means(db, Parse(Tokenize(line)), o.db, o.reply)
  BY <1>3, Zenon DEF Done
<1>8. Means(db, Parse(Tokenize(line)), db', Last(replies'))
  BY <1>2, <1>6, <1>7, Zenon
<1> QED
  BY <1>p1, <1>2, <1>6, <1>7, <1>8, Zenon

LEMMA ExecutingInit == Init => Executing
<1> SUFFICES ASSUME Init PROVE Executing
  OBVIOUS
<1>1. FitsSchema(db)
  BY SessionAssumption, Zenon DEF Init
<1>2. replies \in Seq({})
  <2>1. <<>> \in Seq({})
    OBVIOUS
  <2> QED
    BY <2>1, Zenon DEF Init
<1> QED
  BY <1>1, <1>2, FramingInit, Zenon DEF Executing

LEMMA OnlyExecutes == ASSUME [Next]_vars, ~Executes PROVE db' = db /\ replies' = replies
BY Zenon DEF Next, Reads, TakesLine, Finishes, vars

LEMMA ExecutingNext == Executing /\ [Next]_vars => Executing'
<1> SUFFICES ASSUME Executing, [Next]_vars PROVE Executing'
  OBVIOUS
<1>1. Framing'
  BY FramingNext, Zenon DEF Executing
<1>2. CASE Executes
  BY <1>1, <1>2, ExecutesDone, Zenon DEF Executing
<1>3. CASE ~Executes
  <2>1. db' = db /\ replies' = replies
    BY <1>3, OnlyExecutes, Zenon
  <2> QED
    BY <1>1, <2>1, Zenon DEF Executing
<1> QED
  BY <1>2, <1>3, Zenon

LEMMA ExecutingHolds == Spec => []Executing
BY ExecutingInit, ExecutingNext, PTL DEF Spec

(* Whatever a client sends, and however it arrives, every stored row is     *)
(* complete and typed as its schema says, and kept under its own id         *)
(* (Schema::validate, Table::insert, updateWhere): no line can make the     *)
(* tables ill formed.                                                       *)
THEOREM RowsFit == Spec => []RowsFitTheirSchema
<1>1. Executing => RowsFitTheirSchema
  BY Zenon DEF Executing, RowsFitTheirSchema
<1> QED
  BY <1>1, ExecutingHolds, PTL

(* Every statement reads, changes or removes exactly the rows that satisfy  *)
(* its clauses, by whatever path (rowsByIdClause, scan, deleteById), fails  *)
(* exactly where it must, and an error changes nothing (QueryExecutor):     *)
(* for every line of every stream, every table and every order of chunks.   *)
THEOREM QueriesMean == Spec => QueriesMeanWhatTheySay
<1>1. Executing /\ [Next]_vars =>
        [replies' # replies => Means(db, Parse(Tokenize(Head(pending))), db', Last(replies'))]_vars
  <2> SUFFICES ASSUME Executing, [Next]_vars, replies' # replies
               PROVE  Means(db, Parse(Tokenize(Head(pending))), db', Last(replies'))
    BY Zenon
  <2>1. Executes
    BY OnlyExecutes, Zenon
  <2> QED
    BY <2>1, ExecutesDone, Zenon
<1> QED
  BY <1>1, ExecutingHolds, PTL DEF Spec, QueriesMeanWhatTheySay
=============================================================================

------------------------ MODULE CustomerClaims_proofs ------------------------
(***************************************************************************)
(* Proofs about CustomerClaims, for every set of fields, whatever their    *)
(* order and values, every set of records and every length of a history.   *)
(*                                                                         *)
(* A message is merged field by field, by a recursive function.  What it   *)
(* computes is proved by induction on the position in the field order.     *)
(* The induction theorems of the library take the predicate as an operator *)
(* parameter; here the predicate is a set of naturals, and the principle   *)
(* is derived from the well-foundedness of the order on them.              *)
(***************************************************************************)
EXTENDS CustomerClaims, TLAPS, SequenceTheorems, WellFoundedInduction

-----------------------------------------------------------------------------
(* Induction *)

Less == {p \in Nat \X Nat : p[1] < p[2]}

LEMMA LessIsWellFounded == IsWellFoundedOn(Less, Nat)
<1>1. OpToRel(<, Nat) = Less
  BY Zenon DEF OpToRel, Less
<1> QED BY <1>1, NatLessThanWellFounded

\* A set of naturals that is not empty has a least element.
LEMMA LeastNatural ==
  ASSUME NEW S, S \subseteq Nat, S # {}
  PROVE  \E n \in S : \A m \in S : n <= m
<1>1. PICK n \in S : \A m \in S : <<m, n>> \notin Less
  BY LessIsWellFounded, WFMin
<1>2. \A m, k \in Nat : <<m, k>> \in Less <=> m < k
  BY DEF Less
<1>3. \A m \in S : ~(m < n)
  BY <1>1, <1>2
<1> QED BY <1>3

\* Induction, the predicate being a set.
LEMMA SetInduction ==
  ASSUME NEW S, 0 \in S, \A n \in Nat : n \in S => n + 1 \in S
  PROVE  Nat \subseteq S
<1>. SUFFICES ASSUME Nat \ S # {} PROVE FALSE
  OBVIOUS
<1>1. PICK n \in Nat \ S : \A m \in Nat \ S : n <= m
  <2>1. Nat \ S \subseteq Nat
    OBVIOUS
  <2> QED BY <2>1, LeastNatural
<1>2. n - 1 \in Nat /\ n - 1 \in S
  BY <1>1
<1> QED BY <1>1, <1>2

-----------------------------------------------------------------------------
(* The recursive function of MergeExtracted *)

\* One step of the merge of m, from history g to the field at position i.
MergeAt(g, i, m, correction) ==
  IF m[FieldOrder[i]] = NoValue THEN g
  ELSE MergeClaim(g, FieldOrder[i], m[FieldOrder[i]], correction)

IsMerge(M, n, h, m, correction) ==
  M = [i \in 0..n |-> IF i = 0 THEN h ELSE MergeAt(M[i - 1], i, m, correction)]

LEMMA MergeExists ==
  ASSUME NEW h, NEW m, NEW correction, NEW n \in Nat
  PROVE  \E M : IsMerge(M, n, h, m, correction)
<1>. DEFINE S == {k \in Nat : \E M : IsMerge(M, k, h, m, correction)}
<1>1. 0 \in S
  <2>. DEFINE M == [i \in 0..0 |-> h]
  <2>1. IsMerge(M, 0, h, m, correction)
    BY DEF IsMerge
  <2> QED BY <2>1
<1>2. ASSUME NEW k \in Nat, k \in S PROVE k + 1 \in S
  <2>1. PICK M : IsMerge(M, k, h, m, correction)
    BY <1>2
  <2>. DEFINE L == [i \in 0..(k + 1) |->
                     IF i = k + 1 THEN MergeAt(M[k], k + 1, m, correction) ELSE M[i]]
  <2>2. IsMerge(L, k + 1, h, m, correction)
    BY <2>1 DEF IsMerge
  <2> QED BY <2>2
<1>. HIDE DEF S
<1>3. Nat \subseteq S
  BY <1>1, <1>2, SetInduction
<1> QED BY <1>3 DEF S

LEMMA MergeExtractedIsMerge ==
  ASSUME NEW h, NEW m, NEW correction
  PROVE  \E M : /\ IsMerge(M, Len(FieldOrder), h, m, correction)
                /\ MergeExtracted(h, m, correction) = M[Len(FieldOrder)]
<1>. DEFINE Merge == CHOOSE M : IsMerge(M, Len(FieldOrder), h, m, correction)
<1>1. Len(FieldOrder) \in Nat
  BY FieldAssumption
<1>2. IsMerge(Merge, Len(FieldOrder), h, m, correction)
  BY <1>1, MergeExists, Zenon
<1>3. MergeExtracted(h, m, correction) = Merge[Len(FieldOrder)]
  BY Zenon DEF MergeExtracted, IsMerge, MergeAt
<1> QED BY <1>2, <1>3

-----------------------------------------------------------------------------
(* Merging one claim *)

\* What every step of a history keeps of an earlier one.
Kept(h, g) ==
  /\ Len(g) >= Len(h)
  /\ \A i \in 1..Len(h) :
       /\ g[i].field = h[i].field
       /\ g[i].value = h[i].value
       /\ h[i].superseded => g[i].superseded

\* What the chat believes, as an existence statement.
LiveLast(h, l) ==
  \A f \in Fields :
    \/ l[f] = NoValue /\ \A i \in 1..Len(h) : h[i].field # f
    \/ \E k \in 1..Len(h) :
         /\ h[k].field = f /\ l[f] = h[k].value /\ ~h[k].superseded
         /\ \A j \in 1..Len(h) : h[j].field = f => j <= k

LEMMA SupersedeKeeps ==
  ASSUME NEW h \in Seq(Claims), NEW f
  PROVE  /\ Supersede(h, f) \in Seq(Claims)
         /\ Len(Supersede(h, f)) = Len(h)
         /\ \A i \in 1..Len(h) :
              /\ Supersede(h, f)[i].field = h[i].field
              /\ Supersede(h, f)[i].value = h[i].value
              /\ h[i].superseded => Supersede(h, f)[i].superseded
              /\ h[i].field # f => Supersede(h, f)[i] = h[i]
<1>. DEFINE hit(i) == /\ h[i].field = f /\ ~h[i].superseded
                      /\ \A j \in (i + 1)..Len(h) : h[j].field = f => h[j].superseded
            s == [i \in 1..Len(h) |->
                    IF hit(i) THEN [h[i] EXCEPT !.superseded = TRUE] ELSE h[i]]
<1>1. Supersede(h, f) = s
  BY DEF Supersede
<1>2. \A i \in 1..Len(h) : hit(i) => h[i].field = f
  OBVIOUS
<1>. HIDE DEF hit
<1>3. Len(h) \in Nat
  OBVIOUS
<1>4. ASSUME NEW i \in 1..Len(h)
      PROVE  /\ s[i] \in Claims
             /\ s[i].field = h[i].field /\ s[i].value = h[i].value
             /\ h[i].superseded => s[i].superseded
             /\ h[i].field # f => s[i] = h[i]
  <2>1. h[i] \in Claims
    OBVIOUS
  <2>2. CASE hit(i)
    <3>1. s[i] = [h[i] EXCEPT !.superseded = TRUE]
      BY <2>2
    <3>2. h[i].field = f
      BY <1>2, <2>2
    <3> QED BY <2>1, <3>1, <3>2 DEF Claims
  <2>3. CASE ~hit(i)
    <3>1. s[i] = h[i]
      BY <2>3
    <3> QED BY <2>1, <3>1
  <2> QED BY <2>2, <2>3
<1>5. s \in Seq(Claims) /\ Len(s) = Len(h)
  <2>1. s \in [1..Len(h) -> Claims]
    BY <1>4
  <2>2. Len(s) = Len(h)
    BY <1>3
  <2> QED BY <1>3, <2>1, <2>2
<1>. HIDE DEF s
<1> QED BY <1>1, <1>4, <1>5

LEMMA MergeClaimKeeps ==
  ASSUME NEW h \in Seq(Claims), NEW f \in Fields, NEW v \in AllValues, NEW c \in BOOLEAN
  PROVE  /\ MergeClaim(h, f, v, c) \in Seq(Claims)
         /\ Len(MergeClaim(h, f, v, c)) = Len(h) + 1
         /\ MergeClaim(h, f, v, c)[Len(h) + 1] = Claim(f, v)
         /\ \A i \in 1..Len(h) :
              /\ MergeClaim(h, f, v, c)[i].field = h[i].field
              /\ MergeClaim(h, f, v, c)[i].value = h[i].value
              /\ h[i].superseded => MergeClaim(h, f, v, c)[i].superseded
              /\ h[i].field # f => MergeClaim(h, f, v, c)[i] = h[i]
<1>. DEFINE g == IF c THEN Supersede(h, f) ELSE h
<1>1. /\ g \in Seq(Claims) /\ Len(g) = Len(h)
      /\ \A i \in 1..Len(h) :
           /\ g[i].field = h[i].field /\ g[i].value = h[i].value
           /\ h[i].superseded => g[i].superseded
           /\ h[i].field # f => g[i] = h[i]
  BY SupersedeKeeps
<1>2. MergeClaim(h, f, v, c) = Append(g, Claim(f, v))
  BY DEF MergeClaim
<1>3. Claim(f, v) \in Claims
  BY DEF Claim, Claims
<1>. HIDE DEF g
<1>4. /\ Append(g, Claim(f, v)) \in Seq(Claims)
      /\ Len(Append(g, Claim(f, v))) = Len(g) + 1
      /\ Append(g, Claim(f, v))[Len(g) + 1] = Claim(f, v)
      /\ \A i \in 1..Len(g) : Append(g, Claim(f, v))[i] = g[i]
  BY <1>1, <1>3
<1> QED BY <1>1, <1>2, <1>4

\* A claim merged into a history becomes what the chat believes of its field,
\* and changes nothing it believes of another.
LEMMA MergeClaimLive ==
  ASSUME NEW h \in Seq(Claims), NEW f \in Fields, NEW v \in AllValues, NEW c \in BOOLEAN,
         NEW l, NEW k, LiveLast(h, l),
         k[f] = v, \A e \in Fields : e # f => k[e] = l[e]
  PROVE  LiveLast(MergeClaim(h, f, v, c), k)
<1>. DEFINE g == MergeClaim(h, f, v, c)
<1>1. /\ g \in Seq(Claims) /\ Len(g) = Len(h) + 1
      /\ g[Len(h) + 1] = Claim(f, v)
      /\ \A i \in 1..Len(h) :
           /\ g[i].field = h[i].field
           /\ h[i].field # f => g[i] = h[i]
  BY MergeClaimKeeps
<1>2. Len(h) \in Nat
  OBVIOUS
<1>. HIDE DEF g
<1>3. /\ 1..Len(h) \subseteq 1..Len(g)
      /\ \A i \in 1..Len(g) : i \in 1..Len(h) \/ i = Len(h) + 1
  BY <1>1, <1>2
<1>. SUFFICES ASSUME NEW e \in Fields
              PROVE  \/ k[e] = NoValue /\ \A i \in 1..Len(g) : g[i].field # e
                     \/ \E n \in 1..Len(g) :
                          /\ g[n].field = e /\ k[e] = g[n].value /\ ~g[n].superseded
                          /\ \A j \in 1..Len(g) : g[j].field = e => j <= n
  BY DEF LiveLast, g
<1>4. CASE e = f
  <2>1. LET n == Len(h) + 1
        IN /\ n \in 1..Len(g)
           /\ g[n].field = e /\ k[e] = g[n].value /\ ~g[n].superseded
           /\ \A j \in 1..Len(g) : j <= n
    BY <1>1, <1>2, <1>4 DEF Claim
  <2> QED BY <2>1
<1>5. CASE e # f
  <2>1. k[e] = l[e] /\ g[Len(h) + 1].field # e
    BY <1>1, <1>5 DEF Claim
  <2>2. CASE l[e] = NoValue /\ \A i \in 1..Len(h) : h[i].field # e
    BY <1>1, <1>3, <1>5, <2>1, <2>2, Zenon
  <2>3. ASSUME NEW n \in 1..Len(h),
               h[n].field = e, l[e] = h[n].value, ~h[n].superseded,
               \A j \in 1..Len(h) : h[j].field = e => j <= n
        PROVE  \E i \in 1..Len(g) :
                 /\ g[i].field = e /\ k[e] = g[i].value /\ ~g[i].superseded
                 /\ \A j \in 1..Len(g) : g[j].field = e => j <= i
    <3>1. n \in 1..Len(g) /\ g[n] = h[n]
      BY <1>1, <1>3, <1>5, <2>3, Zenon
    <3>2. \A j \in 1..Len(g) : g[j].field = e => j <= n
      BY <1>1, <1>3, <2>1, <2>3, Zenon
    <3> QED BY <2>1, <2>3, <3>1, <3>2
  <2>4. \/ l[e] = NoValue /\ \A i \in 1..Len(h) : h[i].field # e
        \/ \E n \in 1..Len(h) :
             /\ h[n].field = e /\ l[e] = h[n].value /\ ~h[n].superseded
             /\ \A j \in 1..Len(h) : h[j].field = e => j <= n
    BY DEF LiveLast
  <2> QED BY <2>2, <2>3, <2>4
<1> QED BY <1>4, <1>5

-----------------------------------------------------------------------------
(* Merging a message *)

\* What the chat believes once the fields up to position i are merged.
LatestTo(l, m, i) ==
  [f \in Fields |->
     IF m[f] # NoValue /\ \E j \in 1..i : FieldOrder[j] = f THEN m[f] ELSE l[f]]

\* No field is claimed twice, and only fields up to position i are.
OnceTo(g, i) ==
  /\ \A a, b \in 1..Len(g) : g[a].field = g[b].field => a = b
  /\ \A a \in 1..Len(g) : \E j \in 1..i : g[a].field = FieldOrder[j]

\* The loop invariant of the merge of m into h, at position i.
LoopInv(h, l, m, g, i) ==
  /\ g \in Seq(Claims)
  /\ Kept(h, g)
  /\ LiveLast(g, LatestTo(l, m, i))
  /\ h = <<>> => OnceTo(g, i)

LEMMA LoopStarts ==
  ASSUME NEW h \in Seq(Claims), NEW l \in [Fields -> AllValues \cup {NoValue}],
         LiveLast(h, l), NEW m
  PROVE  LoopInv(h, l, m, h, 0)
<1>1. \A f \in Fields : LatestTo(l, m, 0)[f] = l[f]
  BY DEF LatestTo
<1>2. LiveLast(h, LatestTo(l, m, 0))
  BY <1>1 DEF LiveLast
<1>3. Kept(h, h)
  BY DEF Kept
<1>4. h = <<>> => OnceTo(h, 0)
  BY DEF OnceTo
<1> QED BY <1>2, <1>3, <1>4 DEF LoopInv

LEMMA LoopSteps ==
  ASSUME NEW h \in Seq(Claims), NEW l \in [Fields -> AllValues \cup {NoValue}],
         NEW m \in [Fields -> AllValues \cup {NoValue}], NEW c \in BOOLEAN,
         NEW i \in 1..Len(FieldOrder), NEW g, LoopInv(h, l, m, g, i - 1)
  PROVE  LoopInv(h, l, m, MergeAt(g, i, m, c), i)
<1>. DEFINE f == FieldOrder[i]
            k == LatestTo(l, m, i - 1)
            n == LatestTo(l, m, i)
<1>1. f \in Fields /\ Len(FieldOrder) \in Nat /\ i \in Nat
  BY FieldAssumption
<1>2. /\ g \in Seq(Claims) /\ Kept(h, g) /\ LiveLast(g, k)
      /\ h = <<>> => OnceTo(g, i - 1)
  BY DEF LoopInv
<1>3. \A j \in 1..i : j \in 1..(i - 1) \/ j = i
  BY <1>1
<1>4. 1..(i - 1) \subseteq 1..i /\ i \in 1..i
  BY <1>1
<1>5. \A e \in Fields : e # f => n[e] = k[e]
  BY <1>3, <1>4 DEF LatestTo
<1>6. CASE m[f] = NoValue
  <2>1. MergeAt(g, i, m, c) = g
    BY <1>6 DEF MergeAt
  <2>2. n[f] = k[f]
    BY <1>1, <1>6 DEF LatestTo
  <2>3. \A e \in Fields : n[e] = k[e]
    BY <1>5, <2>2
  <2>4. LiveLast(g, n)
    <3>. HIDE DEF n, k
    <3> QED BY <1>2, <2>3 DEF LiveLast
  <2>5. h = <<>> => OnceTo(g, i)
    BY <1>2, <1>4, Zenon DEF OnceTo
  <2> QED BY <1>2, <2>1, <2>4, <2>5 DEF LoopInv
<1>7. CASE m[f] # NoValue
  <2>. DEFINE v == m[f]
              r == MergeClaim(g, f, v, c)
  <2>1. MergeAt(g, i, m, c) = r
    BY <1>7 DEF MergeAt
  <2>2. v \in AllValues
    BY <1>1, <1>7
  <2>3. n[f] = v
    BY <1>1, <1>4, <1>7 DEF LatestTo
  <2>4. /\ r \in Seq(Claims) /\ Len(r) = Len(g) + 1
        /\ r[Len(g) + 1] = Claim(f, v)
        /\ \A j \in 1..Len(g) :
             /\ r[j].field = g[j].field /\ r[j].value = g[j].value
             /\ g[j].superseded => r[j].superseded
    <3>. HIDE DEF f, v
    <3> QED BY <1>1, <1>2, <2>2, MergeClaimKeeps
  <2>5. LiveLast(r, n)
    <3>. HIDE DEF f, v, k, n
    <3> QED BY <1>1, <1>2, <1>5, <2>2, <2>3, MergeClaimLive
  <2>6. Len(g) \in Nat /\ Len(h) \in Nat
    BY <1>2
  <2>7. Kept(h, r)
    <3>. HIDE DEF r
    <3>1. 1..Len(h) \subseteq 1..Len(g) /\ Len(r) >= Len(h)
      BY <1>2, <2>4, <2>6 DEF Kept
    <3>2. ASSUME NEW j \in 1..Len(h)
          PROVE  /\ r[j].field = h[j].field /\ r[j].value = h[j].value
                 /\ h[j].superseded => r[j].superseded
      <4>1. j \in 1..Len(g)
        BY <3>1
      <4>2. /\ g[j].field = h[j].field /\ g[j].value = h[j].value
            /\ h[j].superseded => g[j].superseded
        BY <1>2 DEF Kept
      <4> QED BY <2>4, <4>1, <4>2
    <3> QED BY <3>1, <3>2 DEF Kept
  <2>8. ASSUME h = <<>> PROVE OnceTo(r, i)
    <3>. HIDE DEF r, v
    <3>1. \A a \in 1..Len(r) : a \in 1..Len(g) \/ a = Len(g) + 1
      BY <2>4, <2>6
    <3>2. \A a \in 1..Len(g) : \E j \in 1..(i - 1) : g[a].field = FieldOrder[j]
      BY <1>2, <2>8 DEF OnceTo
    <3>3. \A a \in 1..Len(g) : g[a].field # f
      BY <1>1, <3>2, FieldAssumption
    <3>4. r[Len(g) + 1].field = f
      BY <2>4 DEF Claim
    <3>5. \A a, b \in 1..Len(g) : g[a].field = g[b].field => a = b
      BY <1>2, <2>8 DEF OnceTo
    <3>6. \A a \in 1..Len(g) : r[a].field = g[a].field
      BY <2>4
    <3>7. \A a, b \in 1..Len(r) : r[a].field = r[b].field => a = b
      <4>. HIDE DEF f
      <4> QED BY <3>1, <3>3, <3>4, <3>5, <3>6, Zenon
    <3>8. \A a \in 1..Len(r) : \E j \in 1..i : r[a].field = FieldOrder[j]
      <4>1. \A a \in 1..Len(g) : \E j \in 1..i : r[a].field = FieldOrder[j]
        BY <1>4, <3>2, <3>6, Zenon
      <4>2. \E j \in 1..i : r[Len(g) + 1].field = FieldOrder[j]
        BY <1>4, <3>4, Zenon
      <4> QED BY <3>1, <4>1, <4>2, Zenon
    <3> QED BY <3>7, <3>8 DEF OnceTo
  <2>. HIDE DEF r
  <2> QED BY <2>1, <2>4, <2>5, <2>7, <2>8 DEF LoopInv
<1> QED BY <1>6, <1>7

\* What merging a whole message does: it appends to the history without
\* rewriting it, and what the chat believes keeps step with it.
LEMMA MergeExtractedKeeps ==
  ASSUME NEW h \in Seq(Claims), NEW l \in [Fields -> AllValues \cup {NoValue}],
         NEW m \in [Fields -> AllValues \cup {NoValue}], NEW c \in BOOLEAN,
         LiveLast(h, l)
  PROVE  /\ MergeExtracted(h, m, c) \in Seq(Claims)
         /\ Kept(h, MergeExtracted(h, m, c))
         /\ LiveLast(MergeExtracted(h, m, c), MergeLatest(l, m))
         /\ h = <<>> => \A a, b \in 1..Len(MergeExtracted(h, m, c)) :
              MergeExtracted(h, m, c)[a].field = MergeExtracted(h, m, c)[b].field
                => a = b
<1>. DEFINE N == Len(FieldOrder)
<1>1. N \in Nat
  BY FieldAssumption
<1>2. PICK M : IsMerge(M, N, h, m, c) /\ MergeExtracted(h, m, c) = M[N]
  BY MergeExtractedIsMerge
<1>. HIDE DEF N
<1>3. M[0] = h
  BY <1>1, <1>2 DEF IsMerge
<1>4. ASSUME NEW i \in 1..N PROVE M[i] = MergeAt(M[i - 1], i, m, c)
  BY <1>1, <1>2 DEF IsMerge
<1>. DEFINE S == {i \in Nat : i <= N => LoopInv(h, l, m, M[i], i)}
<1>5. 0 \in S
  BY <1>3, LoopStarts
<1>6. ASSUME NEW i \in Nat, i \in S PROVE i + 1 \in S
  <2>. SUFFICES ASSUME i + 1 <= N PROVE LoopInv(h, l, m, M[i + 1], i + 1)
    OBVIOUS
  <2>1. i + 1 \in 1..N /\ (i + 1) - 1 = i /\ i <= N
    BY <1>1
  <2>2. LoopInv(h, l, m, M[i], i)
    BY <1>6, <2>1
  <2>3. M[i + 1] = MergeAt(M[i], i + 1, m, c)
    BY <1>4, <2>1
  <2>4. LoopInv(h, l, m, MergeAt(M[i], i + 1, m, c), i + 1)
    <3>. DEFINE j == i + 1
    <3>1. j \in 1..Len(FieldOrder) /\ LoopInv(h, l, m, M[i], j - 1)
      BY <2>1, <2>2 DEF N
    <3>. HIDE DEF j
    <3>2. LoopInv(h, l, m, MergeAt(M[i], j, m, c), j)
      BY <3>1, LoopSteps
    <3> QED BY <3>2 DEF j
  <2> QED BY <2>3, <2>4
<1>. HIDE DEF S
<1>7. Nat \subseteq S
  BY <1>5, <1>6, SetInduction
<1>8. LoopInv(h, l, m, M[N], N)
  BY <1>1, <1>7 DEF S
<1>9. \A f \in Fields : LatestTo(l, m, N)[f] = MergeLatest(l, m)[f]
  BY FieldAssumption DEF LatestTo, MergeLatest, N
<1>10. LiveLast(M[N], MergeLatest(l, m))
  BY <1>8, <1>9 DEF LoopInv, LiveLast
<1> QED BY <1>2, <1>8, <1>10 DEF LoopInv, OnceTo

-----------------------------------------------------------------------------
(* The chat's context *)

\* Every contradiction of context c has its evidence.
Backed(c) ==
  \A f \in c.contradictions : f \in DOMAIN c.evidence /\ c.evidence[f] # NoValue

\* The inductive invariant, as a predicate of a context.
GoodContext(c) ==
  /\ c \in Contexts
  /\ LiveLast(c.history, c.latest)
  /\ Backed(c)

IInv ==
  /\ GoodContext(ctx)
  /\ DOMAIN tickets = {"chat", "case"}

\* The history of a chat that has heard one message only.
OneMessage(c) ==
  \A a, b \in 1..Len(c.history) : c.history[a].field = c.history[b].field => a = b

LEMMA EmptyIsGood == GoodContext(Empty) /\ Empty.history = <<>> /\ ~Empty.diagnosed
<1>1. [f \in Fields |-> NoValue] \in [Fields -> AllValues \cup {NoValue}]
  OBVIOUS
<1>2. <<>> \in Seq(Claims)
  OBVIOUS
<1>. DEFINE l == [f \in Fields |-> NoValue]
            e == NoEvidence
<1>3. \A f \in Fields : l[f] = NoValue
  OBVIOUS
<1>4. l \in [Fields -> AllValues \cup {NoValue}]
  OBVIOUS
<1>5. Empty = [history |-> <<>>, latest |-> l, evidence |-> e, contradictions |-> {},
               tracked |-> FALSE, diagnosed |-> FALSE, key |-> "chat"]
  BY DEF Empty
<1>. HIDE DEF l, e
<1>6. /\ Empty.history = <<>> /\ Empty.latest = l /\ Empty.evidence = e
      /\ Empty.contradictions = {} /\ ~Empty.diagnosed
  BY <1>5
<1>7. Empty \in Contexts
  BY <1>2, <1>4, <1>5 DEF Contexts, e
<1>8. LiveLast(<<>>, l)
  BY <1>3 DEF LiveLast
<1>9. Backed(Empty)
  BY <1>6 DEF Backed
<1> QED BY <1>6, <1>7, <1>8, <1>9 DEF GoodContext

\* Replacing the evidence, with the contradictions found against it, or both
\* by nothing.
LEMMA RebindKeeps ==
  ASSUME NEW c, GoodContext(c), NEW b, b \in Contexts,
         b.history = c.history, b.latest = c.latest,
         \A f \in b.contradictions : f \in DOMAIN b.evidence /\ b.evidence[f] # NoValue
  PROVE  GoodContext(b)
BY DEF GoodContext, Backed

LEMMA ForgetKeeps ==
  ASSUME NEW c, GoodContext(c)
  PROVE  GoodContext(Forget(c)) /\ Forget(c).history = c.history
<1>. DEFINE b == Forget(c)
            e == NoEvidence
<1>1. c \in Contexts
  BY DEF GoodContext
<1>2. b = [c EXCEPT !.evidence = e, !.contradictions = {}, !.diagnosed = FALSE]
  BY DEF Forget
<1>3. e \in Records \cup {NoEvidence}
  OBVIOUS
<1>. HIDE DEF e, b
<1>4. /\ b \in Contexts /\ b.history = c.history /\ b.latest = c.latest
      /\ b.contradictions = {}
  BY <1>1, <1>2, <1>3 DEF Contexts
<1>5. GoodContext(b)
  BY <1>4, RebindKeeps
<1> QED BY <1>4, <1>5 DEF b

\* A context a message is judged with.
LEMMA BeginKeeps ==
  ASSUME IInv, NEW m \in Messages
  PROVE  /\ GoodContext(Begin(m))
         /\ OneMessage(Begin(m)) \/ Kept(ctx.history, Begin(m).history)
<1>. DEFINE base == IF m.fresh THEN Empty ELSE ctx
            h == MergeExtracted(base.history, m.says, m.correction)
            l == MergeLatest(base.latest, m.says)
            merged == [base EXCEPT !.history = h, !.latest = l, !.tracked = TRUE]
<1>1. /\ m.says \in [Fields -> AllValues \cup {NoValue}]
      /\ m.correction \in BOOLEAN /\ m.fresh \in BOOLEAN
  BY DEF Messages
<1>2. GoodContext(base)
  BY EmptyIsGood DEF IInv
<1>3. Begin(m) = IF m.correction /\ base.diagnosed THEN Forget(merged) ELSE merged
  BY DEF Begin
<1>4. ~m.fresh => base = ctx
  OBVIOUS
<1>5. m.fresh => base.history = <<>>
  BY EmptyIsGood
<1>. HIDE DEF base
<1>6. /\ base \in Contexts /\ LiveLast(base.history, base.latest) /\ Backed(base)
      /\ base.history \in Seq(Claims)
      /\ base.latest \in [Fields -> AllValues \cup {NoValue}]
  BY <1>2 DEF GoodContext, Contexts
<1>7. /\ h \in Seq(Claims) /\ Kept(base.history, h) /\ LiveLast(h, l)
      /\ base.history = <<>> => \A a, b \in 1..Len(h) : h[a].field = h[b].field => a = b
  BY <1>1, <1>6, MergeExtractedKeeps
<1>8. l \in [Fields -> AllValues \cup {NoValue}]
  BY <1>1, <1>6 DEF MergeLatest
<1>. HIDE DEF h, l
<1>9. /\ merged \in Contexts /\ merged.history = h /\ merged.latest = l
      /\ merged.evidence = base.evidence /\ merged.contradictions = base.contradictions
  BY <1>6, <1>7, <1>8 DEF Contexts
<1>. HIDE DEF merged
<1>10. GoodContext(merged)
  BY <1>6, <1>7, <1>9 DEF GoodContext, Backed
<1>11. GoodContext(Begin(m)) /\ Begin(m).history = h
  BY <1>3, <1>9, <1>10, ForgetKeeps
<1>12. CASE m.fresh
  BY <1>5, <1>7, <1>11, <1>12 DEF OneMessage
<1>13. CASE ~m.fresh
  BY <1>4, <1>7, <1>11, <1>13
<1> QED BY <1>11, <1>12, <1>13

\* A context to which a lookup has bound the record r.
LEMMA BindKeeps ==
  ASSUME NEW c, GoodContext(c), NEW r \in Records, NEW d \in BOOLEAN,
         NEW b, b = [Bind(c, r) EXCEPT !.diagnosed = d]
  PROVE  GoodContext(b) /\ b.history = c.history
<1>. DEFINE x == Contradictions(c.latest, r)
<1>1. x \in SUBSET Fields /\ \A f \in x : f \in {"amount", "bank"} /\ r[f] # NoValue
  BY DEF Contradictions
<1>2. DOMAIN r = {"amount", "bank"}
  BY RecordAssumption
<1>. HIDE DEF x
<1>3. \A f \in x : f \in DOMAIN r /\ r[f] # NoValue
  BY <1>1, <1>2
<1>4. c \in Contexts
  BY DEF GoodContext
<1>5. /\ b \in Contexts /\ b.history = c.history /\ b.latest = c.latest
      /\ b.evidence = r /\ b.contradictions = x
  BY <1>1, <1>4 DEF Bind, Contexts, x
<1> QED BY <1>3, <1>5, RebindKeeps

-----------------------------------------------------------------------------
(* The steps *)

\* What a step does to the context.
Moves ==
  /\ GoodContext(ctx')
  /\ DOMAIN tickets' = {"chat", "case"}
  /\ OneMessage(ctx') \/ Kept(ctx.history, ctx'.history)

LEMMA InitGood == Init => IInv
<1>. SUFFICES ASSUME Init PROVE IInv
  OBVIOUS
<1>1. DOMAIN tickets = {"chat", "case"}
  BY DEF Init
<1> QED BY <1>1, EmptyIsGood DEF Init, IInv

LEMMA NextMoves ==
  ASSUME IInv, [Next]_vars
  PROVE  Moves
<1>1. GoodContext(ctx) /\ DOMAIN tickets = {"chat", "case"}
  BY DEF IInv
<1>2. Kept(ctx.history, ctx.history)
  BY DEF Kept
<1>3. CASE UNCHANGED vars
  <2>1. ctx' = ctx /\ tickets' = tickets
    BY <1>3 DEF vars
  <2> QED BY <1>1, <1>2, <2>1 DEF Moves
<1>4. CASE Talk
  <2>1. PICK m \in Messages : ctx' = Begin(m) /\ tickets' = tickets
    BY <1>4 DEF Talk
  <2>. HIDE DEF Messages
  <2> QED BY <1>1, <2>1, BeginKeeps DEF Moves
<1>5. CASE AskForStaff
  <2>1. PICK m \in Messages :
          /\ ctx' = Begin(m)
          /\ tickets' = [tickets EXCEPT ![ctx'.key] = Copy(@, ctx')]
    BY <1>5 DEF AskForStaff
  <2>2. DOMAIN tickets' = DOMAIN tickets
    BY <2>1
  <2> QED BY <1>1, <2>1, <2>2, BeginKeeps DEF Moves
<1>6. CASE FollowUp
  <2>1. PICK m \in Messages, r \in Records, explained, mismatch \in BOOLEAN :
          /\ ctx' = [Bind(Begin(m), r) EXCEPT
                       !.diagnosed = ~mismatch /\ ~Disputed(m, r) /\ (explained \/ @)]
          /\ tickets' = tickets
    BY <1>6 DEF FollowUp
  <2>. DEFINE d == ~mismatch /\ ~Disputed(m, r)
                     /\ (explained \/ Bind(Begin(m), r).diagnosed)
  <2>2. d \in BOOLEAN
    OBVIOUS
  <2>3. ctx' = [Bind(Begin(m), r) EXCEPT !.diagnosed = d]
    BY <2>1
  <2>. HIDE DEF d
  <2>4. /\ GoodContext(Begin(m))
        /\ OneMessage(Begin(m)) \/ Kept(ctx.history, Begin(m).history)
    BY BeginKeeps
  <2>5. GoodContext(ctx') /\ ctx'.history = Begin(m).history
    BY <2>2, <2>3, <2>4, BindKeeps
  <2> QED BY <1>1, <2>1, <2>4, <2>5 DEF Moves, OneMessage
<1>7. CASE OpenCase
  <2>1. /\ ctx' = [Empty EXCEPT !.diagnosed = TRUE, !.key = "case"]
        /\ DOMAIN tickets' = DOMAIN tickets
    BY <1>7 DEF OpenCase
  <2>2. /\ Empty \in Contexts /\ Empty.history = <<>>
        /\ LiveLast(Empty.history, Empty.latest) /\ Backed(Empty)
    BY EmptyIsGood DEF GoodContext
  <2>. HIDE DEF Empty
  <2>3. /\ ctx' \in Contexts /\ ctx'.history = Empty.history /\ ctx'.latest = Empty.latest
        /\ ctx'.evidence = Empty.evidence
        /\ ctx'.contradictions = Empty.contradictions
    BY <2>1, <2>2 DEF Contexts
  <2>4. GoodContext(ctx')
    BY <2>2, <2>3 DEF GoodContext, Backed
  <2>5. OneMessage(ctx')
    BY <2>2, <2>3 DEF OneMessage
  <2> QED BY <1>1, <2>1, <2>4, <2>5 DEF Moves
<1>8. CASE Handoff
  <2>1. ctx' = ctx /\ DOMAIN tickets' = DOMAIN tickets
    BY <1>8 DEF Handoff
  <2> QED BY <1>1, <1>2, <2>1 DEF Moves
<1> QED BY <1>3, <1>4, <1>5, <1>6, <1>7, <1>8 DEF Next

-----------------------------------------------------------------------------
(* Theorems *)

THEOREM Invariance == Spec => []IInv
<1>1. Init => IInv
  BY InitGood
<1>2. IInv /\ [Next]_vars => IInv'
  BY NextMoves DEF Moves, IInv
<1> QED BY <1>1, <1>2, PTL DEF Spec

\* The context a chat keeps, its claims, its evidence and what was found
\* between them, stays of its type.
THEOREM TypeCorrect == Spec => []TypeOK
<1>1. IInv => TypeOK
  BY DEF IInv, GoodContext, TypeOK
<1> QED BY <1>1, Invariance, PTL

LEMMA LastIsUnique ==
  ASSUME NEW S, S \subseteq Nat, NEW k \in S, \A j \in S : j <= k
  PROVE  (CHOOSE i \in S : \A j \in S : j <= i) = k
<1>1. PICK c : c = CHOOSE i \in S : \A j \in S : j <= i
  OBVIOUS
<1>2. c \in S /\ \A j \in S : j <= c
  BY <1>1, Zenon
<1>3. c = k
  BY <1>2
<1> QED BY <1>1, <1>3

\* Whatever a customer says, in whatever order, and however often a case is
\* opened or a chat starts over, what the chat believes of a field is the
\* newest claim about it (merge_extracted_fields keeps .latest and .history in
\* step), and that claim is not superseded.
THEOREM LatestIsLiveHolds == Spec => []LatestIsLive
<1>1. IInv => LatestIsLive
  <2>. SUFFICES ASSUME IInv, NEW f \in Fields
                PROVE  LET of == {i \in 1..Len(ctx.history) : ctx.history[i].field = f}
                       IN IF of = {} THEN ctx.latest[f] = NoValue
                          ELSE LET last == ctx.history[CHOOSE i \in of : \A j \in of : j <= i]
                               IN ctx.latest[f] = last.value /\ ~last.superseded
    BY Zenon DEF LatestIsLive
  <2>. DEFINE of == {i \in 1..Len(ctx.history) : ctx.history[i].field = f}
              n == CHOOSE i \in of : \A j \in of : j <= i
  <2>1. \/ ctx.latest[f] = NoValue /\ \A i \in 1..Len(ctx.history) : ctx.history[i].field # f
        \/ \E k \in 1..Len(ctx.history) :
             /\ ctx.history[k].field = f /\ ctx.latest[f] = ctx.history[k].value
             /\ ~ctx.history[k].superseded
             /\ \A j \in 1..Len(ctx.history) : ctx.history[j].field = f => j <= k
    BY DEF IInv, GoodContext, LiveLast
  <2>2. CASE ctx.latest[f] = NoValue /\ \A i \in 1..Len(ctx.history) : ctx.history[i].field # f
    <3>1. of = {}
      BY <2>2
    <3> QED BY <2>2, <3>1
  <2>3. ASSUME NEW k \in 1..Len(ctx.history),
               ctx.history[k].field = f, ctx.latest[f] = ctx.history[k].value,
               ~ctx.history[k].superseded,
               \A j \in 1..Len(ctx.history) : ctx.history[j].field = f => j <= k
        PROVE  /\ of # {}
               /\ ctx.latest[f] = ctx.history[n].value /\ ~ctx.history[n].superseded
    <3>1. k \in of /\ of \subseteq Nat /\ \A j \in of : j <= k
      BY <2>3
    <3>. HIDE DEF of
    <3>2. n = k
      BY <3>1, LastIsUnique
    <3>. HIDE DEF n
    <3> QED BY <2>3, <3>1, <3>2
  <2> QED BY <2>1, <2>2, <2>3
<1> QED BY <1>1, Invariance, PTL

\* A contradiction is never kept without the evidence it was found against:
\* Forget and the opening of a case drop both, a lookup replaces both.
THEOREM ContradictionsBackedHolds == Spec => []ContradictionsBacked
<1>1. IInv => ContradictionsBacked
  BY DEF IInv, GoodContext, Backed, ContradictionsBacked
<1> QED BY <1>1, Invariance, PTL

\* No step rewrites, drops or rehabilitates a claim of the history, unless the
\* chat starts over.
THEOREM HistoryKeptHolds == Spec => HistoryKept
<1>1. IInv /\ [Next]_vars =>
        [\/ \A i, j \in 1..Len(ctx'.history) :
              ctx'.history[i].field = ctx'.history[j].field => i = j
         \/ /\ Len(ctx'.history) >= Len(ctx.history)
            /\ \A i \in 1..Len(ctx.history) :
                 /\ ctx'.history[i].field = ctx.history[i].field
                 /\ ctx'.history[i].value = ctx.history[i].value
                 /\ ctx.history[i].superseded => ctx'.history[i].superseded]_vars
  BY NextMoves DEF Moves, OneMessage, Kept
<1> QED BY <1>1, Invariance, PTL DEF Spec, HistoryKept
=============================================================================

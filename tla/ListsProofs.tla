----------------------------- MODULE ListsProofs -----------------------------
(***************************************************************************)
(* Proofs about the services whose answers are ordered lists: the pages of *)
(* store reviews, the ranking of evidence and the links to its originals,  *)
(* the pages of row queries, and the files an export splits a source into. *)
(* They share no state with one another.                                   *)
(***************************************************************************)
EXTENDS StoreReviews, EvidenceSearch, StructuredQuery, PartitionExport,
        FiniteSetTheorems, SequenceTheorems, TLAPS

(***************************************************************************)
(* Lists in order.  In a strict order of a finite set, counting what comes *)
(* before an element numbers the elements, so the list has each of them    *)
(* once and in order, and it is the only such list.                        *)
(***************************************************************************)
LEMMA BelowGrows ==
    ASSUME NEW S, IsFiniteSet(S), NEW R, IsStrictOrder(S, R)
    PROVE  /\ \A x \in S : /\ IsFiniteSet(Below(S, R, x))
                           /\ Cardinality(Below(S, R, x)) \in 0..(Cardinality(S) - 1)
           /\ \A x, y \in S : <<x, y>> \in R => Cardinality(Below(S, R, x)) < Cardinality(Below(S, R, y))
<1>1. ASSUME NEW T \in SUBSET S, NEW U \in SUBSET T, U # T
      PROVE  /\ IsFiniteSet(T) /\ IsFiniteSet(U) /\ Cardinality(T) \in Nat /\ Cardinality(U) \in Nat
             /\ Cardinality(U) < Cardinality(T)
  <2>1. IsFiniteSet(T) /\ Cardinality(T) \in Nat
    BY FS_Subset, FS_CardinalityType
  <2>2. IsFiniteSet(U) /\ Cardinality(U) <= Cardinality(T) /\ Cardinality(U) # Cardinality(T)
    BY <1>1, <2>1, FS_Subset
  <2>3. Cardinality(U) \in Nat
    BY <2>2, FS_CardinalityType
  <2>. QED  BY <2>1, <2>2, <2>3
<1>2. ASSUME NEW x \in S
      PROVE  Below(S, R, x) \in SUBSET S /\ Below(S, R, x) # S
  BY DEF Below, IsStrictOrder
<1>3. ASSUME NEW x \in S
      PROVE  /\ IsFiniteSet(Below(S, R, x))
             /\ Cardinality(Below(S, R, x)) \in 0..(Cardinality(S) - 1)
  <2>1. /\ IsFiniteSet(Below(S, R, x)) /\ Cardinality(S) \in Nat
        /\ Cardinality(Below(S, R, x)) \in Nat /\ Cardinality(Below(S, R, x)) < Cardinality(S)
    BY <1>1, <1>2
  <2>. QED  BY <2>1
<1>4. ASSUME NEW x \in S, NEW y \in S, <<x, y>> \in R
      PROVE  Cardinality(Below(S, R, x)) < Cardinality(Below(S, R, y))
  <2>1. Below(S, R, x) \subseteq Below(S, R, y) /\ x \in Below(S, R, y) /\ x \notin Below(S, R, x)
    BY <1>4 DEF Below, IsStrictOrder
  <2>. QED  BY <1>1, <1>2, <2>1
<1>. QED  BY <1>3, <1>4

LEMMA EveryPlaceIsTaken ==
    ASSUME NEW S, IsFiniteSet(S), NEW R, IsStrictOrder(S, R), NEW i \in 1..Cardinality(S)
    PROVE  \E x \in S : Cardinality(Below(S, R, x)) = i - 1
<1>. DEFINE f == [x \in S |-> Cardinality(Below(S, R, x))]
            N == 0..(Cardinality(S) - 1)
<1>1. Cardinality(S) \in Nat
  BY FS_CardinalityType
<1>2. f \in [S -> N]
  BY BelowGrows
<1>3. \A x, y \in S : f[x] = f[y] => x = y
  <2>1. SUFFICES ASSUME NEW x \in S, NEW y \in S, f[x] = f[y], x # y
                 PROVE  FALSE
    OBVIOUS
  <2>2. <<x, y>> \in R \/ <<y, x>> \in R
    BY <2>1 DEF IsStrictOrder
  <2>3. f[x] < f[y] \/ f[y] < f[x]
    BY <2>2, BelowGrows
  <2>. QED  BY <1>2, <2>1, <2>3
<1>4. f \in Injection(S, N)
  BY <1>2, <1>3 DEF Injection, IsInjective
<1>5. IsFiniteSet(N) /\ Cardinality(N) = Cardinality(S)
  <2>1. PICK last \in Int : last = Cardinality(S) - 1
    BY <1>1
  <2>2. /\ IsFiniteSet(0..last)
        /\ Cardinality(0..last) = IF 0 > last THEN 0 ELSE last - 0 + 1
    BY FS_Interval
  <2>. QED  BY <1>1, <2>1, <2>2
<1>. HIDE DEF f, N
<1>6. f \in Surjection(S, N)
  BY <1>4, <1>5, FS_Injection
<1>7. i - 1 \in N
  BY <1>1 DEF N
<1>8. PICK x \in S : f[x] = i - 1
  BY <1>6, <1>7 DEF Surjection
<1>. QED  BY <1>8 DEF f

LEMMA InOrderList ==
    ASSUME NEW S, IsFiniteSet(S), NEW R, IsStrictOrder(S, R)
    PROVE  /\ Cardinality(S) \in Nat
           /\ InOrder(S, R) \in [1..Cardinality(S) -> S]
           /\ \A x \in S : \E i \in 1..Cardinality(S) : InOrder(S, R)[i] = x
           /\ \A i, j \in 1..Cardinality(S) : i < j => <<InOrder(S, R)[i], InOrder(S, R)[j]>> \in R
           /\ \A i \in 1..Cardinality(S) : Cardinality(Below(S, R, InOrder(S, R)[i])) = i - 1
<1>. DEFINE s == InOrder(S, R)
<1>0. Cardinality(S) \in Nat
  BY FS_CardinalityType
<1>1. ASSUME NEW i \in 1..Cardinality(S)
      PROVE  s[i] \in S /\ Cardinality(Below(S, R, s[i])) = i - 1
  <2>1. \E x \in S : Cardinality(Below(S, R, x)) = i - 1
    BY EveryPlaceIsTaken
  <2>2. s[i] = CHOOSE x \in S : Cardinality(Below(S, R, x)) = i - 1
    BY DEF InOrder
  <2>. QED  BY <2>1, <2>2
<1>2. s = [i \in 1..Cardinality(S) |-> s[i]]
  BY DEF InOrder
<1>. HIDE DEF s
<1>3. s \in [1..Cardinality(S) -> S]
  BY <1>1, <1>2
<1>4. ASSUME NEW x \in S, NEW y \in S, Cardinality(Below(S, R, x)) = Cardinality(Below(S, R, y))
      PROVE  x = y
  <2>1. <<x, y>> \notin R /\ <<y, x>> \notin R
    BY <1>4, BelowGrows
  <2>. QED  BY <2>1 DEF IsStrictOrder
<1>5. ASSUME NEW x \in S
      PROVE  \E i \in 1..Cardinality(S) : s[i] = x
  <2>1. PICK i \in 1..Cardinality(S) : Cardinality(Below(S, R, x)) = i - 1
    <3>1. Cardinality(Below(S, R, x)) \in 0..(Cardinality(S) - 1)
      BY BelowGrows
    <3>2. Cardinality(Below(S, R, x)) + 1 \in 1..Cardinality(S)
      BY <1>0, <3>1
    <3>. QED  BY <1>0, <3>1, <3>2
  <2>. QED  BY <1>1, <1>4, <2>1
<1>6. ASSUME NEW i \in 1..Cardinality(S), NEW j \in 1..Cardinality(S), i < j
      PROVE  <<s[i], s[j]>> \in R
  <2>1. /\ s[i] \in S /\ s[j] \in S /\ s[i] # s[j]
        /\ Cardinality(Below(S, R, s[i])) = i - 1 /\ Cardinality(Below(S, R, s[j])) = j - 1
    BY <1>0, <1>1, <1>6
  <2>2. <<s[j], s[i]>> \in R => j - 1 < i - 1
    BY <2>1, BelowGrows
  <2>. QED  BY <1>0, <1>6, <2>1, <2>2 DEF IsStrictOrder
<1>. QED  BY <1>0, <1>1, <1>3, <1>5, <1>6 DEF s

(* A finite set that is not empty has a first element.                     *)
LEMMA FirstElement ==
    ASSUME NEW S, IsFiniteSet(S), S # {}, NEW R, IsStrictOrder(S, R)
    PROVE  \E x \in S : \A y \in S : y # x => <<x, y>> \in R
<1>1. Cardinality(S) \in Nat /\ Cardinality(S) # 0
  BY FS_CardinalityType, FS_EmptySet
<1>2. 1 \in 1..Cardinality(S)
  BY <1>1
<1>3. PICK x \in S : Cardinality(Below(S, R, x)) = 1 - 1
  BY <1>2, EveryPlaceIsTaken
<1>4. IsFiniteSet(Below(S, R, x)) /\ Cardinality(Below(S, R, x)) = 0
  BY <1>3, BelowGrows
<1>5. Below(S, R, x) = {}
  BY <1>4, FS_EmptySet
<1>. QED  BY <1>5 DEF Below, IsStrictOrder

(* The list in order is the only one that has every element once and none  *)
(* before one that comes earlier.                                          *)
LEMMA OnlyInOrder ==
    ASSUME NEW S, IsFiniteSet(S), NEW R, IsStrictOrder(S, R),
           NEW s \in [1..Cardinality(S) -> S],
           \A x \in S : \E i \in 1..Cardinality(S) : s[i] = x,
           \A i, j \in 1..Cardinality(S) : i < j => s[i] # s[j] /\ <<s[j], s[i]>> \notin R
    PROVE  s = InOrder(S, R)
<1>. DEFINE n == Cardinality(S)
<1>1. n \in Nat
  BY FS_CardinalityType
<1>2. ASSUME NEW i \in 1..n
      PROVE  Cardinality(Below(S, R, s[i])) = i - 1
  <2>. DEFINE B == Below(S, R, s[i])
              g == [j \in 1..(i - 1) |-> s[j]]
  <2>1. PICK last \in Int : last = i - 1 /\ last >= 0
    BY <1>1
  <2>2. /\ IsFiniteSet(1..last)
        /\ Cardinality(1..last) = IF 1 > last THEN 0 ELSE last - 1 + 1
    BY FS_Interval
  <2>3. IsFiniteSet(1..(i - 1)) /\ Cardinality(1..(i - 1)) = i - 1
    BY <1>1, <2>1, <2>2
  <2>4. ASSUME NEW j \in 1..(i - 1)
        PROVE  g[j] \in B
    <3>1. j \in 1..n /\ j < i /\ g[j] = s[j]
      BY <1>1
    <3>2. s[j] \in S /\ s[i] \in S /\ s[j] # s[i] /\ <<s[i], s[j]>> \notin R
      BY <3>1
    <3>. QED  BY <3>1, <3>2 DEF Below, IsStrictOrder
  <2>5. ASSUME NEW x \in B
        PROVE  \E j \in 1..(i - 1) : g[j] = x
    <3>1. x \in S /\ <<x, s[i]>> \in R
      BY DEF Below
    <3>2. PICK j \in 1..n : s[j] = x
      BY <3>1
    <3>3. i # j /\ ~(i < j)
      BY <3>1, <3>2 DEF IsStrictOrder
    <3>4. j \in 1..(i - 1)
      BY <1>1, <3>3
    <3>. QED  BY <3>2, <3>4
  <2>6. \A j, k \in 1..(i - 1) : g[j] = g[k] => j = k
    <3>1. SUFFICES ASSUME NEW j \in 1..(i - 1), NEW k \in 1..(i - 1), j < k
                   PROVE  g[j] # g[k]
      BY <1>1
    <3>2. j \in 1..n /\ k \in 1..n
      BY <1>1
    <3>. QED  BY <3>1, <3>2
  <2>7. g \in Bijection(1..(i - 1), B)
    <3>1. g \in [1..(i - 1) -> B]
      BY <2>4
    <3>. HIDE DEF g, B
    <3>. QED  BY <3>1, <2>5, <2>6 DEF Bijection, Injection, Surjection, IsInjective
  <2>. HIDE DEF g, B
  <2>8. Cardinality(1..(i - 1)) = Cardinality(B)
    <3>1. ExistsBijection(1..(i - 1), B)
      BY <2>7 DEF ExistsBijection
    <3>. QED  BY <2>3, <3>1, FS_Bijection
  <2>. QED  BY <2>3, <2>8 DEF B
<1>3. ASSUME NEW i \in 1..n
      PROVE  s[i] = InOrder(S, R)[i]
  <2>1. /\ InOrder(S, R)[i] \in S /\ Cardinality(Below(S, R, InOrder(S, R)[i])) = i - 1
        /\ Cardinality(Below(S, R, s[i])) = i - 1
    BY <1>2, InOrderList
  <2>2. \A x, y \in S : <<x, y>> \in R => Cardinality(Below(S, R, x)) < Cardinality(Below(S, R, y))
    BY BelowGrows
  <2>3. i - 1 \in Int /\ ~(i - 1 < i - 1)
    BY <1>1
  <2>4. <<s[i], InOrder(S, R)[i]>> \notin R /\ <<InOrder(S, R)[i], s[i]>> \notin R
    BY <2>1, <2>2, <2>3
  <2>. QED  BY <2>1, <2>4 DEF IsStrictOrder
<1>4. InOrder(S, R) \in [1..n -> S]
  BY InOrderList
<1>6. PICK t : t = InOrder(S, R)
  OBVIOUS
<1>7. PICK D : D = 1..n
  OBVIOUS
<1>8. t \in [D -> S] /\ s \in [D -> S] /\ \A i \in D : s[i] = t[i]
  BY <1>3, <1>4, <1>6, <1>7
<1>9. s = t
  <2>. HIDE DEF n
  <2>1. t = [i \in D |-> t[i]] /\ s = [i \in D |-> s[i]]
    BY <1>8
  <2>. QED  BY <1>8, <2>1
<1>. QED  BY <1>6, <1>9

(* A set of numbers that is not empty has a least one.                     *)
LEMMA LeastNumber ==
    ASSUME NEW T \in SUBSET Nat, T # {}
    PROVE  \E n \in T : \A m \in T : n <= m
<1>1. PICK k \in T : TRUE
  OBVIOUS
<1>. DEFINE U == {n \in T : n <= k}
            R == {p \in Nat \X Nat : p[1] < p[2]}
<1>2. IsFiniteSet(U) /\ U # {}
  <2>1. k \in Nat /\ \A n \in U : n \in Nat /\ n <= k
    OBVIOUS
  <2>4. k \in U
    BY <2>1
  <2>5. ASSUME NEW n \in U
        PROVE  n \in 0..k
    BY <2>1
  <2>3. U \subseteq 0..k /\ k \in U
    BY <2>4, <2>5
  <2>2. IsFiniteSet(0..k)
    BY FS_Interval
  <2>. QED  BY <2>2, <2>3, FS_Subset
<1>3. \A m, n \in Nat : <<m, n>> \in R <=> m < n
  OBVIOUS
<1>4. IsStrictOrder(U, R)
  <2>1. U \subseteq Nat
    OBVIOUS
  <2>. HIDE DEF U, R
  <2>2. \A x \in U : <<x, x>> \notin R
    BY <1>3, <2>1
  <2>3. \A x, y \in U : x # y => <<x, y>> \in R \/ <<y, x>> \in R
    BY <1>3, <2>1
  <2>4. \A x, y, z \in U : <<x, y>> \in R /\ <<y, z>> \in R => <<x, z>> \in R
    BY <1>3, <2>1
  <2>. QED  BY <2>2, <2>3, <2>4 DEF IsStrictOrder
<1>5. PICK n \in U : \A m \in U : m # n => <<n, m>> \in R
  <2>. HIDE DEF U, R
  <2>. QED  BY <1>2, <1>4, FirstElement
<1>6. ASSUME NEW m \in T
      PROVE  n <= m
  <2>1. n \in Nat /\ m \in Nat /\ n <= k /\ k \in Nat
    OBVIOUS
  <2>2. m \in U \/ m > k
    BY <2>1
  <2>. HIDE DEF U, R
  <2>3. m \in U /\ m # n => n < m
    BY <1>3, <1>5, <2>1
  <2>. QED  BY <2>1, <2>2, <2>3
<1>7. n \in T
  OBVIOUS
<1>. HIDE DEF U, R
<1>. QED  BY <1>6, <1>7

(* The length of a list given by its values.                               *)
LEMMA ListLength ==
    ASSUME NEW S, NEW n \in Nat, NEW s \in [1..n -> S]
    PROVE  s \in Seq(S) /\ Len(s) = n
<1>1. s \in Seq(S)
  BY SeqDef
<1>2. Len(s) \in Nat /\ DOMAIN s = 1..Len(s)
  BY <1>1, LenProperties
<1>3. 1..n = 1..Len(s)
  BY <1>2
<1>. QED  BY <1>1, <1>2, <1>3

\* A list of all the elements of a set, each after those below it, is the ordered one.
LEMMA ListedOnce ==
    ASSUME NEW S, NEW R, IsStrictOrder(S, R), NEW n \in Nat, NEW s \in [1..n -> S],
           \A x \in S : \E i \in 1..n : s[i] = x,
           \A i, j \in 1..n : i < j => s[i] # s[j] /\ <<s[j], s[i]>> \notin R
    PROVE  s = InOrder(S, R)
<1>1. IsFiniteSet(1..n) /\ Cardinality(1..n) = n
  <2>1. PICK first, last : first = 1 /\ last = n /\ first \in Int /\ last \in Int
    OBVIOUS
  <2>2. IsFiniteSet(first..last) /\ Cardinality(first..last) = IF first > last THEN 0 ELSE last - first + 1
    BY <2>1, FS_Interval
  <2>. QED  BY <2>1, <2>2
<1>2. s \in Surjection(1..n, S)
  BY DEF Surjection
<1>3. s \in Injection(1..n, S)
  <2>1. ASSUME NEW i \in 1..n, NEW j \in 1..n, s[i] = s[j], i # j
        PROVE  FALSE
    <3>1. i < j \/ j < i
      BY <2>1
    <3>. QED  BY <2>1, <3>1
  <2>. QED  BY <2>1 DEF Injection, IsInjective
<1>4. IsFiniteSet(S) /\ n = Cardinality(S)
  BY <1>1, <1>2, <1>3, FS_Surjection
<1>5. /\ s \in [1..Cardinality(S) -> S]
      /\ \A x \in S : \E i \in 1..Cardinality(S) : s[i] = x
      /\ \A i, j \in 1..Cardinality(S) : i < j => s[i] # s[j] /\ <<s[j], s[i]>> \notin R
  BY <1>4
<1>. QED  BY <1>4, <1>5, OnlyInOrder

(***************************************************************************)
(* Store reviews.                                                          *)
(***************************************************************************)

\* The rows have identities of the two forms, and agree with themselves.
ReviewsInv == DOMAIN reviews \subseteq Keys /\ ReviewsAgree

\* What a row is written as does not contradict itself, whatever patch is merged
\* into whatever row.
LEMMA ResolvedAgrees ==
  ASSUME NEW patch, NEW old, NEW id
  PROVE  ~Contradicts(WithId(resolveStoreReviewReplyState(patch, old), id))
<1>. DEFINE s == [f \in DOMAIN Unknown |-> Merged(patch, old, f)]
            t == resolveStoreReviewReplyState(patch, old)
<1>1. \A u : /\ WithId(u, id).content = u.content
             /\ WithId(u, id).merchantReply = u.merchantReply
             /\ WithId(u, id).replyStatus = u.replyStatus
  BY DEF WithId
<1>2. ~Contradicts(t)
  <2>1. CASE Contradicts(s)
    <3>1. t = [s EXCEPT !.replyStatus = "needs_verification"]
      BY <2>1 DEF resolveStoreReviewReplyState
    <3>2. "replyStatus" \in DOMAIN s
      BY DEF Unknown
    <3>. HIDE DEF s
    <3>3. t.replyStatus = "needs_verification"
      BY <3>1, <3>2
    <3>. QED  BY <3>3 DEF Contradicts
  <2>2. CASE ~Contradicts(s)
    <3>1. t = s
      BY <2>2 DEF resolveStoreReviewReplyState
    <3>. QED  BY <2>2, <3>1
  <2>. QED  BY <2>1, <2>2
<1>. HIDE DEF t
<1>3. ~Contradicts(WithId(t, id))
  BY <1>1, <1>2 DEF Contradicts
<1>. QED  BY <1>3 DEF t

\* A batch that commits: each of its reviews is a row of its own or the row of the
\* same identity, and none is named the other way.
LEMMA UpsertAgrees ==
  ASSUME ReviewsInv, NEW b \in Batches, upsert(b)
  PROVE  ReviewsInv'
<1>1. DOMAIN b \subseteq Keys
  BY DEF Batches
<1>2. /\ DOMAIN reviews' = DOMAIN reviews \cup DOMAIN b
      /\ \A k \in DOMAIN reviews \ DOMAIN b : reviews'[k] = reviews[k]
      /\ \A k \in DOMAIN b : \E id : reviews'[k] = WithId(resolveStoreReviewReplyState(b[k], Stored(k)), id)
  <2>1. PICK number \in Numberings(DOMAIN b \ DOMAIN reviews) :
          reviews' = [k \in DOMAIN reviews \cup DOMAIN b |->
              IF k \notin DOMAIN b THEN reviews[k]
              ELSE WithId(resolveStoreReviewReplyState(b[k], Stored(k)),
                          IF k \in DOMAIN reviews THEN reviews[k].id ELSE number[k])]
    BY DEF upsert
  <2>. QED  BY <2>1
<1>3. \A k \in DOMAIN reviews' : ~Contradicts(reviews'[k])
  BY <1>2, ResolvedAgrees DEF ReviewsInv, ReviewsAgree
<1>4. ASSUME NEW k \in DOMAIN reviews', NEW l \in DOMAIN reviews', k[1] = l[1], k[2] = NoId
      PROVE  k = l
  <2>1. k \in Keys /\ l \in Keys
    BY <1>1, <1>2 DEF ReviewsInv
  <2>2. l[2] = NoId
    <3>1. CASE k \in DOMAIN b /\ l \in DOMAIN b
      BY <1>4, <3>1 DEF Batches
    <3>2. CASE k \in DOMAIN reviews /\ l \in DOMAIN reviews
      BY <1>4, <3>2 DEF ReviewsInv, ReviewsAgree
    <3>3. \A p \in DOMAIN b, q \in DOMAIN reviews : p[1] = q[1] => ((p[2] = NoId) <=> (q[2] = NoId))
      BY DEF upsert, Reconciled
    <3>. QED  BY <1>2, <1>4, <3>1, <3>2, <3>3
  <2>. QED  BY <1>4, <2>1, <2>2 DEF Keys
<1>5. ReviewsAgree'
  BY <1>3, <1>4 DEF ReviewsAgree, Contradicts
<1>. QED  BY <1>1, <1>2, <1>5 DEF ReviewsInv

\* Through any sequence of partial observations, each merged into whatever is stored
\* by then, a stored reply status agrees with the stored texts and no review is
\* counted twice (upsertStoreReviews, resolveStoreReviewReplyState).
THEOREM ReviewsStayTrue == ReviewsSpec => []ReviewsAgree
<1>1. ReviewsInit => ReviewsInv
  BY DEF ReviewsInit, ReviewsInv, ReviewsAgree
<1>2. ReviewsInv /\ [ReviewsNext]_reviewVars => ReviewsInv'
  <2>. SUFFICES ASSUME ReviewsInv, [ReviewsNext]_reviewVars PROVE ReviewsInv'
    OBVIOUS
  <2>1. CASE \E b \in Batches : upsert(b)
    BY <2>1, UpsertAgrees
  <2>2. CASE UNCHANGED reviews
    BY <2>2 DEF ReviewsInv, ReviewsAgree, Contradicts
  <2>3. (\E b \in Batches : upsert(b)) \/ UNCHANGED reviews
    BY DEF ReviewsNext, queryFirst, queryNext, queryRefused, cursorExpires, administer, reviewVars
  <2>. QED  BY <2>1, <2>2, <2>3
<1>3. ReviewsInv => ReviewsAgree
  BY DEF ReviewsInv
<1>. QED  BY <1>1, <1>2, <1>3, PTL DEF ReviewsSpec


(* The next window of a list, read up to any row of it, continues what was *)
(* read before.                                                            *)
LEMMA NextWindow ==
    ASSUME NEW S, NEW n \in Nat, NEW all \in [1..n -> S], NEW o \in 0..n, NEW m \in 0..(n - o),
           NEW c \in 0..m, NEW window, window = [j \in 1..m |-> all[o + j]]
    PROVE  SubSeq(all, 1, o) \o SubSeq(window, 1, c) = SubSeq(all, 1, o + c)
<1>1. /\ o \in Nat /\ m \in Nat /\ c \in Nat /\ o + m <= n /\ c <= m /\ o + c \in Nat /\ o <= n
      /\ 1 \in Int
  OBVIOUS
<1>2. /\ \A i \in 1..o : all[i] \in S
      /\ \A i \in 1..(o + c) : all[i] \in S
      /\ \A i \in 1..c : window[i] = all[o + i] /\ window[i] \in S
  <2>1. \A i \in 1..(o + c) : i \in 1..n
    BY <1>1
  <2>2. \A i \in 1..c : i \in 1..m /\ o + i \in 1..n
    BY <1>1
  <2>3. \A i \in 1..o : i \in 1..n
    BY <1>1
  <2>. QED  BY <2>1, <2>2, <2>3
<1>3. /\ SubSeq(all, 1, o) \in Seq(S) /\ Len(SubSeq(all, 1, o)) = o
      /\ \A i \in 1..o : SubSeq(all, 1, o)[i] = all[i]
  <2>1. /\ SubSeq(all, 1, o) \in Seq(S)
        /\ Len(SubSeq(all, 1, o)) = IF 1 <= o THEN o - 1 + 1 ELSE 0
        /\ \A i \in 1..(o - 1 + 1) : SubSeq(all, 1, o)[i] = all[1 + i - 1]
    BY <1>1, <1>2, SubSeqProperties
  <2>. QED  BY <1>1, <2>1
<1>4. /\ SubSeq(all, 1, o + c) \in Seq(S) /\ Len(SubSeq(all, 1, o + c)) = o + c
      /\ \A i \in 1..(o + c) : SubSeq(all, 1, o + c)[i] = all[i]
  <2>1. /\ SubSeq(all, 1, o + c) \in Seq(S)
        /\ Len(SubSeq(all, 1, o + c)) = IF 1 <= o + c THEN o + c - 1 + 1 ELSE 0
        /\ \A i \in 1..(o + c - 1 + 1) : SubSeq(all, 1, o + c)[i] = all[1 + i - 1]
    BY <1>1, <1>2, SubSeqProperties
  <2>. QED  BY <1>1, <2>1
<1>5. /\ SubSeq(window, 1, c) \in Seq(S) /\ Len(SubSeq(window, 1, c)) = c
      /\ \A i \in 1..c : SubSeq(window, 1, c)[i] = all[o + i]
  <2>1. PICK a, b : a = 1 /\ b = c
    OBVIOUS
  <2>2. a \in Int /\ b \in Int /\ \A i \in a..b : window[i] \in S
    BY <1>1, <1>2, <2>1
  <2>3. /\ SubSeq(window, a, b) \in Seq(S)
        /\ Len(SubSeq(window, a, b)) = IF a <= b THEN b - a + 1 ELSE 0
        /\ \A i \in 1..(b - a + 1) : SubSeq(window, a, b)[i] = window[a + i - 1]
    BY <2>2, SubSeqProperties
  <2>4. \A i \in 1..c : i \in 1..(b - a + 1) /\ a + i - 1 = i
    BY <1>1, <2>1
  <2>5. (IF a <= b THEN b - a + 1 ELSE 0) = c
    BY <1>1, <2>1
  <2>6. \A i \in 1..c : SubSeq(window, 1, c)[i] = window[i]
    BY <2>1, <2>3, <2>4
  <2>. QED  BY <1>1, <1>2, <2>1, <2>3, <2>5, <2>6
<1>. DEFINE both == SubSeq(all, 1, o) \o SubSeq(window, 1, c)
<1>6. /\ both \in Seq(S) /\ Len(both) = o + c
      /\ \A i \in 1..(o + c) : both[i] = IF i <= o THEN SubSeq(all, 1, o)[i] ELSE SubSeq(window, 1, c)[i - o]
  BY <1>3, <1>5, ConcatProperties
<1>7. \A i \in 1..(o + c) : both[i] = SubSeq(all, 1, o + c)[i]
  <2>1. SUFFICES ASSUME NEW i \in 1..(o + c)
                 PROVE  both[i] = all[i]
    BY <1>4
  <2>2. CASE i <= o
    <3>1. i \in 1..o
      BY <1>1, <2>2
    <3>. HIDE DEF both
    <3>. QED  BY <1>3, <1>6, <2>2, <3>1
  <2>3. CASE ~(i <= o)
    <3>1. i - o \in 1..c /\ o + (i - o) = i
      BY <1>1, <2>3
    <3>. HIDE DEF both
    <3>. QED  BY <1>5, <1>6, <2>3, <3>1
  <2>. QED  BY <2>2, <2>3
<1>. HIDE DEF both
<1>8. both = SubSeq(all, 1, o + c)
  BY <1>4, <1>6, <1>7, SeqEqual
<1>. QED  BY <1>8 DEF both

\* The range of lengths that the binary search still has, and what it looks for: the
\* longest prefix that fits, or else the shortest.
Ranges == (1..PageLimit) \X (1..PageLimit)

Halved(window, search) ==
    [range \in Ranges |->
        LET low == range[1]  high == range[2]  middle == (low + high + 1) \div 2
        IN  IF low >= high THEN low
            ELSE IF Weight(window, middle) <= PageBudget THEN search[<<middle, high>>]
            ELSE search[<<low, middle - 1>>]]

Longest(window, low, high, n) ==
    /\ n \in low..high
    /\ n = low \/ Weight(window, n) <= PageBudget
    /\ \A m \in low..high : m > n => Weight(window, m) > PageBudget

\* Longer prefixes are heavier.
LEMMA Heavier ==
    ASSUME NEW window, NEW m \in Nat, NEW n \in Nat, m <= n
    PROVE  Weight(window, m) \in Nat /\ Weight(window, n) \in Nat /\ Weight(window, m) <= Weight(window, n)
<1>. DEFINE Heavy(k) == {j \in 1..k : reviews[window[j]].content = "words"}
<1>1. /\ IsFiniteSet(Heavy(n)) /\ IsFiniteSet(Heavy(m))
      /\ Heavy(m) \subseteq Heavy(n)
  <2>1. IsFiniteSet(1..n) /\ IsFiniteSet(1..m)
    BY FS_Interval
  <2>2. Heavy(n) \subseteq 1..n /\ Heavy(m) \subseteq 1..m
    OBVIOUS
  <2>3. 1..m \subseteq 1..n
    OBVIOUS
  <2>4. Heavy(m) \subseteq Heavy(n)
    BY <2>3
  <2>. HIDE DEF Heavy
  <2>. QED  BY <2>1, <2>2, <2>4, FS_Subset
<1>2. Weight(window, m) = m + Cardinality(Heavy(m)) /\ Weight(window, n) = n + Cardinality(Heavy(n))
  BY DEF Weight
<1>. HIDE DEF Heavy
<1>3. /\ Cardinality(Heavy(m)) \in Nat /\ Cardinality(Heavy(n)) \in Nat
      /\ Cardinality(Heavy(m)) <= Cardinality(Heavy(n))
  BY <1>1, FS_CardinalityType, FS_Subset
<1>. QED  BY <1>2, <1>3

\* There is one longest prefix in every range.
LEMMA LongestExists ==
    ASSUME NEW window, NEW low \in Nat, NEW high \in Nat, low <= high
    PROVE  /\ \E n \in low..high : Longest(window, low, high, n)
           /\ \A n, m : Longest(window, low, high, n) /\ Longest(window, low, high, m) => n = m
<1>. DEFINE T == {k \in Nat : high - k \in low..high /\ (high - k = low \/ Weight(window, high - k) <= PageBudget)}
<1>1. high - low \in T
  <2>1. high - low \in Nat /\ high - (high - low) = low
    OBVIOUS
  <2>. QED  BY <2>1
<1>2. PICK k \in T : \A j \in T : k <= j
  <2>1. T \subseteq Nat /\ T # {}
    BY <1>1
  <2>. HIDE DEF T
  <2>. QED  BY <2>1, LeastNumber
<1>3. Longest(window, low, high, high - k)
  <2>1. k \in Nat /\ high - k \in low..high /\ (high - k = low \/ Weight(window, high - k) <= PageBudget)
    OBVIOUS
  <2>2. ASSUME NEW m \in low..high, m > high - k
        PROVE  Weight(window, m) > PageBudget
    <3>1. high - m \in Nat /\ high - m < k /\ high - (high - m) = m
      BY <2>1, <2>2
    <3>2. high - m \notin T
      <4>1. PICK l : l = high - m
        OBVIOUS
      <4>2. l \in Nat /\ ~(k <= l)
        BY <2>1, <3>1, <4>1
      <4>. HIDE DEF T
      <4>3. l \notin T
        BY <1>2, <4>2
      <4>. QED  BY <4>1, <4>3
    <3>3. ~(Weight(window, m) <= PageBudget)
      BY <3>1, <3>2
    <3>4. Weight(window, m) \in Nat
      BY Heavier
    <3>. QED  BY <3>3, <3>4, ReviewsAssumption
  <2>. QED  BY <2>1, <2>2 DEF Longest
<1>4. ASSUME NEW n, NEW m, Longest(window, low, high, n), Longest(window, low, high, m), n < m
      PROVE  FALSE
  <2>1. n \in low..high /\ m \in low..high
    BY <1>4 DEF Longest
  <2>2. m # low /\ Weight(window, m) > PageBudget /\ Weight(window, m) <= PageBudget
    BY <1>4, <2>1 DEF Longest
  <2>3. Weight(window, m) \in Nat
    BY <2>1, Heavier
  <2>. QED  BY <2>2, <2>3, ReviewsAssumption
<1>5. ASSUME NEW n, NEW m, Longest(window, low, high, n), Longest(window, low, high, m)
      PROVE  n = m
  <2>1. n \in low..high /\ m \in low..high
    BY <1>5 DEF Longest
  <2>2. ~(n < m) /\ ~(m < n)
    BY <1>4, <1>5
  <2>. QED  BY <2>1, <2>2
<1>6. high - k \in low..high
  BY <1>3 DEF Longest
<1>. QED  BY <1>3, <1>5, <1>6

\* Halving a range keeps the longest prefix in the half that is kept.
LEMMA HalvingKeeps ==
    ASSUME NEW window, NEW low \in 1..PageLimit, NEW high \in 1..PageLimit, low < high,
           NEW middle, middle = (low + high + 1) \div 2
    PROVE  /\ middle \in (low + 1)..high
           /\ Weight(window, middle) <= PageBudget =>
                \A n : Longest(window, middle, high, n) => Longest(window, low, high, n)
           /\ ~(Weight(window, middle) <= PageBudget) =>
                \A n : Longest(window, low, middle - 1, n) => Longest(window, low, high, n)
<1>1. low \in Nat /\ high \in Nat /\ PageLimit \in Nat /\ PageBudget \in Nat
  BY ReviewsAssumption
<1>2. middle \in (low + 1)..high
  BY <1>1
<1>3. \A n \in low..high : Weight(window, n) \in Nat
  BY <1>1, Heavier
<1>4. ASSUME Weight(window, middle) <= PageBudget, NEW n, Longest(window, middle, high, n)
      PROVE  Longest(window, low, high, n)
  <2>1. n \in middle..high /\ n \in low..high
    BY <1>1, <1>2, <1>4 DEF Longest
  <2>2. ASSUME NEW m \in low..high, m > n
        PROVE  Weight(window, m) > PageBudget
    <3>1. m \in middle..high
      BY <1>1, <1>2, <2>1, <2>2
    <3>. QED  BY <1>4, <2>2, <3>1 DEF Longest
  <2>3. n = middle \/ Weight(window, n) <= PageBudget
    BY <1>4 DEF Longest
  <2>. QED  BY <1>4, <2>1, <2>2, <2>3 DEF Longest
<1>5. ASSUME ~(Weight(window, middle) <= PageBudget), NEW n, Longest(window, low, middle - 1, n)
      PROVE  Longest(window, low, high, n)
  <2>1. n \in low..(middle - 1) /\ n \in low..high
    BY <1>1, <1>2, <1>5 DEF Longest
  <2>2. ASSUME NEW m \in low..high, m > n
        PROVE  Weight(window, m) > PageBudget
    <3>1. CASE m \in low..(middle - 1)
      BY <1>5, <2>2, <3>1 DEF Longest
    <3>2. CASE m \notin low..(middle - 1)
      <4>1. middle <= m /\ middle \in Nat /\ m \in Nat
        BY <1>1, <1>2, <3>2
      <4>2. Weight(window, middle) <= Weight(window, m) /\ Weight(window, middle) \in Nat /\ Weight(window, m) \in Nat
        BY <4>1, Heavier
      <4>. QED  BY <1>1, <1>5, <4>2
    <3>. QED  BY <3>1, <3>2
  <2>. QED  BY <1>5, <2>1, <2>2 DEF Longest
<1>. QED  BY <1>2, <1>4, <1>5

\* What the search of a range returns, in any function that halves as it does.
LEMMA SearchIsLongest ==
    ASSUME NEW window, NEW f, f = Halved(window, f)
    PROVE  \A low, high \in 1..PageLimit : low <= high => Longest(window, low, high, f[<<low, high>>])
<1>. DEFINE Bad == {r \in Ranges : r[1] <= r[2] /\ ~Longest(window, r[1], r[2], f[r])}
            T == {k \in Nat : \E r \in Bad : k = r[2] - r[1]}
<1>0. PageLimit \in Nat
  BY ReviewsAssumption
<1>1. SUFFICES ASSUME Bad # {}
               PROVE  FALSE
  BY DEF Ranges
<1>2. T # {}
  <2>1. PICK r \in Bad : TRUE
    BY <1>1
  <2>2. r[2] - r[1] \in Nat
    BY <1>0 DEF Ranges
  <2>. QED  BY <2>2
<1>3. PICK k \in T : \A j \in T : k <= j
  <2>1. T \subseteq Nat
    OBVIOUS
  <2>. HIDE DEF T
  <2>. QED  BY <1>2, <2>1, LeastNumber
<1>4. PICK r \in Bad : k = r[2] - r[1]
  OBVIOUS
<1>5. PICK low \in 1..PageLimit, high \in 1..PageLimit : r = <<low, high>> /\ low <= high
  BY DEF Ranges
<1>6. /\ ~Longest(window, low, high, f[<<low, high>>])
      /\ \A a, b \in 1..PageLimit : a <= b /\ b - a < high - low => Longest(window, a, b, f[<<a, b>>])
  <2>1. ~Longest(window, low, high, f[<<low, high>>]) /\ k = high - low
    BY <1>4, <1>5
  <2>2. ASSUME NEW a \in 1..PageLimit, NEW b \in 1..PageLimit, a <= b, b - a < high - low,
               ~Longest(window, a, b, f[<<a, b>>])
        PROVE  FALSE
    <3>1. <<a, b>> \in Bad
      BY <2>2 DEF Ranges
    <3>2. b - a \in Nat
      BY <1>0, <2>2
    <3>3. b - a \in T
      BY <3>1, <3>2
    <3>4. k <= b - a
      BY <1>3, <3>3
    <3>. QED  BY <1>0, <2>1, <2>2, <3>4
  <2>. QED  BY <2>1, <2>2
<1>. HIDE DEF Bad, T
<1>. DEFINE middle == (low + high + 1) \div 2
<1>7. f[<<low, high>>] = IF low >= high THEN low
                         ELSE IF Weight(window, middle) <= PageBudget THEN f[<<middle, high>>]
                         ELSE f[<<low, middle - 1>>]
  <2>1. f[<<low, high>>] = Halved(window, f)[<<low, high>>]
    OBVIOUS
  <2>2. <<low, high>> \in Ranges /\ <<low, high>>[1] = low /\ <<low, high>>[2] = high
    BY DEF Ranges
  <2>. QED  BY <2>1, <2>2 DEF Halved
<1>8. CASE low >= high
  <2>1. low = high /\ low \in Nat /\ f[<<low, high>>] = low
    BY <1>0, <1>5, <1>7, <1>8
  <2>2. Longest(window, low, low, low)
    BY <1>0 DEF Longest
  <2>. QED  BY <1>6, <2>1, <2>2
<1>9. CASE ~(low >= high)
  <2>1. low < high
    BY <1>0, <1>9
  <2>2. /\ middle \in (low + 1)..high
        /\ Weight(window, middle) <= PageBudget =>
             \A n : Longest(window, middle, high, n) => Longest(window, low, high, n)
        /\ ~(Weight(window, middle) <= PageBudget) =>
             \A n : Longest(window, low, middle - 1, n) => Longest(window, low, high, n)
    BY <2>1, HalvingKeeps
  <2>. HIDE DEF middle
  <2>3. /\ middle \in 1..PageLimit /\ middle <= high /\ high - middle < high - low
        /\ middle - 1 \in 1..PageLimit /\ low <= middle - 1 /\ (middle - 1) - low < high - low
    BY <1>0, <2>1, <2>2
  <2>4. Longest(window, middle, high, f[<<middle, high>>]) /\ Longest(window, low, middle - 1, f[<<low, middle - 1>>])
    BY <1>6, <2>3
  <2>. QED  BY <1>6, <1>7, <1>9, <2>2, <2>4
<1>. QED  BY <1>8, <1>9

\* There is such a function: the longest prefix of each range.
LEMMA SearchExists ==
    ASSUME NEW window
    PROVE  \E f : f = Halved(window, f)
<1>. DEFINE best(low, high) == CHOOSE n \in low..high : Longest(window, low, high, n)
            g == [r \in Ranges |-> IF r[1] >= r[2] THEN r[1] ELSE best(r[1], r[2])]
<1>0. PageLimit \in Nat
  BY ReviewsAssumption
<1>1. ASSUME NEW low \in 1..PageLimit, NEW high \in 1..PageLimit
      PROVE  g[<<low, high>>] = IF low >= high THEN low ELSE best(low, high)
  <2>1. <<low, high>> \in Ranges /\ <<low, high>>[1] = low /\ <<low, high>>[2] = high
    BY DEF Ranges
  <2>. HIDE DEF best
  <2>. QED  BY <2>1
<1>2. ASSUME NEW low \in 1..PageLimit, NEW high \in 1..PageLimit, low <= high
      PROVE  Longest(window, low, high, g[<<low, high>>])
  <2>0. low \in Nat /\ high \in Nat
    BY <1>0
  <2>1. CASE low = high
    <3>1. g[<<low, high>>] = low
      BY <1>1, <2>0, <2>1
    <3>2. Longest(window, low, low, low)
      BY <2>0 DEF Longest
    <3>. QED  BY <2>1, <3>1, <3>2
  <2>2. CASE low # high
    <3>1. ~(low >= high)
      BY <1>2, <2>0, <2>2
    <3>2. \E n \in low..high : Longest(window, low, high, n)
      BY <1>2, <2>0, LongestExists
    <3>3. Longest(window, low, high, best(low, high))
      BY <3>2
    <3>. QED  BY <1>1, <3>1, <3>3
  <2>. QED  BY <2>1, <2>2
<1>3. ASSUME NEW r \in Ranges
      PROVE  g[r] = Halved(window, g)[r]
  <2>1. PICK low \in 1..PageLimit, high \in 1..PageLimit : r = <<low, high>> /\ r[1] = low /\ r[2] = high
    BY DEF Ranges
  <2>. DEFINE middle == (low + high + 1) \div 2
  <2>. HIDE DEF g
  <2>2. Halved(window, g)[r] = IF low >= high THEN low
                             ELSE IF Weight(window, middle) <= PageBudget THEN g[<<middle, high>>]
                             ELSE g[<<low, middle - 1>>]
    BY <2>1 DEF Halved
  <2>3. CASE low >= high
    <3>1. g[<<low, high>>] = low
      BY <1>1, <2>3
    <3>. QED  BY <2>1, <2>2, <2>3, <3>1
  <2>4. CASE ~(low >= high)
    <3>1. low < high /\ low <= high /\ low \in Nat /\ high \in Nat
      BY <1>0, <2>4
    <3>2. /\ middle \in (low + 1)..high
          /\ Weight(window, middle) <= PageBudget =>
               \A n : Longest(window, middle, high, n) => Longest(window, low, high, n)
          /\ ~(Weight(window, middle) <= PageBudget) =>
               \A n : Longest(window, low, middle - 1, n) => Longest(window, low, high, n)
      BY <3>1, HalvingKeeps
    <3>. HIDE DEF middle
    <3>3. /\ middle \in 1..PageLimit /\ middle <= high
          /\ middle - 1 \in 1..PageLimit /\ low <= middle - 1
      BY <1>0, <3>1, <3>2
    <3>4. /\ Longest(window, middle, high, g[<<middle, high>>])
          /\ Longest(window, low, middle - 1, g[<<low, middle - 1>>])
          /\ Longest(window, low, high, g[<<low, high>>])
      BY <1>2, <3>1, <3>3
    <3>5. Longest(window, low, high, Halved(window, g)[r])
      BY <2>2, <2>4, <3>2, <3>4
    <3>6. Halved(window, g)[r] = g[<<low, high>>]
      BY <3>1, <3>4, <3>5, LongestExists
    <3>. QED  BY <2>1, <3>6
  <2>. QED  BY <2>3, <2>4
<1>4. g = [r \in Ranges |-> g[r]] /\ Halved(window, g) = [r \in Ranges |-> Halved(window, g)[r]]
  <2>1. \A h : Halved(window, h) = [r \in Ranges |-> Halved(window, h)[r]]
    BY DEF Halved
  <2>2. g = [r \in Ranges |-> g[r]]
    OBVIOUS
  <2>. HIDE DEF g
  <2>. QED  BY <2>1, <2>2
<1>. HIDE DEF g
<1>5. g = Halved(window, g)
  BY <1>3, <1>4
<1>. QED  BY <1>5

(* The binary search over the length of a page finds the longest prefix of *)
(* its rows that fits, and one row when not even that one does.            *)
LEMMA FittingIsLongest ==
    ASSUME NEW window, NEW n \in 1..PageLimit, Len(window) = n
    PROVE  Longest(window, 1, n, Fitting(window))
<1>1. PICK f : f = Halved(window, f) /\ f = CHOOSE h : h = Halved(window, h)
  BY SearchExists
<1>2. Fitting(window) = IF Weight(window, n) <= PageBudget THEN n ELSE f[<<1, n>>]
  BY <1>1 DEF Fitting, Halved, Ranges
<1>3. PageLimit \in Nat /\ 1 \in 1..PageLimit /\ n \in Nat /\ 1 <= n
  BY ReviewsAssumption
<1>4. Longest(window, 1, n, f[<<1, n>>])
  BY <1>1, <1>3, SearchIsLongest
<1>5. Weight(window, n) <= PageBudget => Longest(window, 1, n, n)
  BY <1>3 DEF Longest
<1>. QED  BY <1>2, <1>4, <1>5

-----------------------------------------------------------------------------
ReadOK(e) ==
    /\ DOMAIN listing[e] = {"at", "filter", "cursor", "seen"}
    /\ DOMAIN listing[e].cursor = {"offset", "version"}
    /\ listing[e].cursor.offset \in Nat
    /\ listing[e].cursor.version \in Nat /\ listing[e].cursor.version <= revision

\* The rows are finitely many and each has an id of its own; no cursor is of a version
\* to come.
PagesInv ==
    /\ revision \in Nat
    /\ IsFiniteSet(DOMAIN reviews)
    /\ \A k \in DOMAIN reviews : k \in Keys /\ reviews[k].id \in ReviewIds
    /\ \A k, l \in DOMAIN reviews : k # l => reviews[k].id # reviews[l].id
    /\ DOMAIN listing = Staff
    /\ \A e \in Staff : ReadOK(e)
    /\ PagesAreOneList

\* ORDER BY leaves no two rows in either order.
LEMMA ListingIsInOrder ==
    ASSUME PagesInv, NEW e, NEW filter
    PROVE  /\ IsFiniteSet(Mine(e, filter))
           /\ IsStrictOrder(Mine(e, filter), ByMoment(Mine(e, filter)))
<1>1. PICK M : M = Mine(e, filter)
  OBVIOUS
<1>2. M \subseteq DOMAIN reviews
  BY <1>1 DEF Mine
<1>3. IsFiniteSet(M)
  BY <1>2, FS_Subset DEF PagesInv
<1>4. \A k \in M : MomentOf[k[1]] \in Int /\ reviews[k].id \in Int
  <2>1. \A k \in M : k \in Keys /\ reviews[k].id \in ReviewIds
    BY <1>2 DEF PagesInv
  <2>2. \A k \in M : k[1] \in Identities
    BY <2>1 DEF Keys
  <2>3. \A i \in Identities : MomentOf[i] \in Int
    BY ReviewsAssumption
  <2>4. \A i \in ReviewIds : i \in Int
    BY ReviewsAssumption
  <2>5. \A k \in M : reviews[k].id \in Int
    BY <2>1, <2>4
  <2>. QED  BY <2>2, <2>3, <2>5
<1>5. \A k, l \in M : k # l => reviews[k].id # reviews[l].id
  BY <1>2 DEF PagesInv
<1>6. \A k, l : <<k, l>> \in ByMoment(M) <=> k \in M /\ l \in M /\ Precedes(k, l)
  BY DEF ByMoment
<1>7. \A k \in M : ~Precedes(k, k)
  BY <1>4 DEF Precedes
<1>8. \A k, l \in M : k # l => Precedes(k, l) \/ Precedes(l, k)
  BY <1>4, <1>5 DEF Precedes
<1>9. \A k, l, m \in M : Precedes(k, l) /\ Precedes(l, m) => Precedes(k, m)
  BY <1>4 DEF Precedes
<1>10. IsStrictOrder(M, ByMoment(M))
  BY <1>6, <1>7, <1>8, <1>9 DEF IsStrictOrder
<1>. QED  BY <1>1, <1>3, <1>10

LEMMA ListingIsAList ==
    ASSUME PagesInv, NEW e, NEW filter
    PROVE  \E n \in Nat : Listing(e, filter) \in [1..n -> Mine(e, filter)] /\ Len(Listing(e, filter)) = n
<1>1. PICK n : n = Cardinality(Mine(e, filter))
  OBVIOUS
<1>2. n \in Nat /\ Listing(e, filter) \in [1..n -> Mine(e, filter)]
  BY <1>1, ListingIsInOrder, InOrderList DEF Listing
<1>3. Len(Listing(e, filter)) = n
  BY <1>2, ListLength
<1>. QED  BY <1>2, <1>3

\* A page that continues what has been read of the list.
LEMMA PageContinues ==
    ASSUME PagesInv, NEW e \in Staff, NEW filter, NEW offset \in Nat, offset <= Len(Listing(e, filter)),
           page(e, filter, offset, SubSeq(Listing(e, filter), 1, offset)),
           UNCHANGED <<reviews, revision, granted>>
    PROVE  PagesInv'
<1>1. PICK all : all = Listing(e, filter)
  OBVIOUS
<1>2. PICK M : M = Mine(e, filter)
  OBVIOUS
<1>3. PICK n \in Nat : all \in [1..n -> M] /\ Len(all) = n
  BY <1>1, <1>2, ListingIsAList
<1>4. PICK window : window = Window(all, offset)
  OBVIOUS
<1>5. PICK m \in 0..(n - offset) :
        /\ window = [j \in 1..m |-> all[offset + j]] /\ m <= PageLimit
        /\ offset \in 0..n
  <2>1. PICK m : m = IF Len(all) - offset < PageLimit THEN Len(all) - offset ELSE PageLimit
    OBVIOUS
  <2>2. m \in 0..(n - offset) /\ m <= PageLimit /\ offset \in 0..n
    BY <1>1, <1>3, <2>1, ReviewsAssumption
  <2>. QED  BY <1>4, <2>1, <2>2 DEF Window
<1>6. Len(window) = m
  <2>1. \A j \in 1..m : offset + j \in 1..n
    BY <1>5
  <2>2. window \in [1..m -> M]
    BY <1>3, <1>5, <2>1
  <2>3. m \in Nat
    BY <1>5
  <2>. QED  BY <2>2, <2>3, ListLength
<1>7. PICK count : count = Fitting(window)
  OBVIOUS
<1>8. count \in 0..m
  <2>0. PageLimit \in Nat /\ PageBudget \in Nat /\ m \in Nat
    BY <1>5, ReviewsAssumption
  <2>1. CASE m = 0
    <3>1. 1..0 = {}
      OBVIOUS
    <3>2. {j \in 1..0 : reviews[window[j]].content = "words"} = {}
      BY <3>1
    <3>3. Weight(window, 0) = 0
      BY <3>2, FS_EmptySet DEF Weight
    <3>4. Len(window) = 0 /\ Weight(window, Len(window)) <= PageBudget
      BY <1>6, <2>0, <2>1, <3>3
    <3>5. count = Len(window)
      BY <1>7, <3>4 DEF Fitting
    <3>. QED  BY <2>0, <2>1, <3>4, <3>5
  <2>2. CASE m # 0
    <3>1. m \in 1..PageLimit
      BY <1>5, <2>0, <2>2
    <3>2. Longest(window, 1, m, count)
      BY <1>6, <1>7, <3>1, FittingIsLongest
    <3>. QED  BY <2>0, <3>2 DEF Longest
  <2>. QED  BY <2>1, <2>2
<1>9. PICK read :
        /\ read = [at     |-> IF Len(all) > offset + count THEN "open" ELSE "none",
                   filter |-> filter,
                   cursor |-> [offset |-> Resume(offset, count), version |-> revision],
                   seen   |-> SubSeq(all, 1, offset) \o SubSeq(window, 1, count)]
        /\ listing' = [listing EXCEPT ![e] = read]
  BY <1>1, <1>4, <1>7 DEF page
<1>10. /\ read.at = "open" => n > offset + count
       /\ DOMAIN read = {"at", "filter", "cursor", "seen"}
       /\ DOMAIN read.cursor = {"offset", "version"}
       /\ read.filter = filter /\ read.cursor.offset = offset + count /\ read.cursor.version = revision
       /\ read.seen = SubSeq(all, 1, offset) \o SubSeq(window, 1, count)
  BY <1>3, <1>9 DEF Resume
<1>11. read.seen = SubSeq(all, 1, offset + count)
  <2>1. SubSeq(all, 1, offset) \o SubSeq(window, 1, count) = SubSeq(all, 1, offset + count)
    BY <1>3, <1>5, <1>8, NextWindow
  <2>. QED  BY <1>10, <2>1
<1>12. /\ DOMAIN listing' = Staff /\ listing'[e] = read
       /\ \A f \in Staff \ {e} : listing'[f] = listing[f]
  BY <1>9 DEF PagesInv
<1>13. \A f, g : Listing(f, g)' = Listing(f, g)
  BY DEF Listing, ByMoment, Mine, Precedes
<1>14. offset + count \in Nat
  BY <1>5, <1>8
<1>15. ASSUME NEW f \in Staff
       PROVE  /\ ReadOK(f)'
              /\ (listing[f].at = "open" /\ Bound(f))' =>
                    /\ listing'[f].seen = SubSeq(Listing(f, listing'[f].filter), 1, listing'[f].cursor.offset)
                    /\ listing'[f].cursor.offset < Len(Listing(f, listing'[f].filter))
  <2>1. CASE f = e
    <3>1. ReadOK(f)'
      BY <1>10, <1>12, <1>14, <2>1 DEF ReadOK, PagesInv
    <3>. QED  BY <1>1, <1>3, <1>10, <1>11, <1>12, <2>1, <3>1, <1>14
  <2>2. CASE f # e
    <3>1. listing'[f] = listing[f]
      BY <1>12, <2>2
    <3>2. ReadOK(f)'
      BY <3>1 DEF ReadOK, PagesInv
    <3>. QED  BY <3>1, <3>2 DEF PagesInv, PagesAreOneList, Bound
  <2>. QED  BY <2>1, <2>2
<1>16. PagesAreOneList'
  BY <1>13, <1>15 DEF PagesAreOneList
<1>. QED  BY <1>12, <1>15, <1>16 DEF PagesInv

\* A step after which no cursor is of the new version.
LEMMA VersionMoves ==
    ASSUME PagesInv, revision' = revision + 1, UNCHANGED listing,
           IsFiniteSet(DOMAIN reviews'),
           \A k \in DOMAIN reviews' : k \in Keys /\ reviews'[k].id \in ReviewIds,
           \A k, l \in DOMAIN reviews' : k # l => reviews'[k].id # reviews'[l].id
    PROVE  PagesInv'
<1>1. revision' \in Nat /\ revision \in Nat
  BY DEF PagesInv
<1>2. ASSUME NEW e \in Staff
      PROVE  ReadOK(e)' /\ ~Bound(e)'
  <2>1. ReadOK(e)
    BY DEF PagesInv
  <2>2. listing'[e].cursor.version = listing[e].cursor.version
    OBVIOUS
  <2>3. listing[e].cursor.version <= revision' /\ listing[e].cursor.version # revision'
    BY <1>1, <2>1 DEF ReadOK
  <2>. QED  BY <2>1, <2>2, <2>3 DEF ReadOK, Bound
<1>3. PagesAreOneList'
  BY <1>2 DEF PagesAreOneList
<1>. QED  BY <1>1, <1>2, <1>3 DEF PagesInv

LEMMA UpsertKeepsPages ==
    ASSUME PagesInv, NEW b \in Batches, upsert(b)
    PROVE  PagesInv'
<1>1. DOMAIN b \subseteq Keys /\ IsFiniteSet(DOMAIN b)
  BY DEF Batches
<1>2. PICK number \in Numberings(DOMAIN b \ DOMAIN reviews) :
          reviews' = [k \in DOMAIN reviews \cup DOMAIN b |->
              IF k \notin DOMAIN b THEN reviews[k]
              ELSE WithId(resolveStoreReviewReplyState(b[k], Stored(k)),
                          IF k \in DOMAIN reviews THEN reviews[k].id ELSE number[k])]
  BY DEF upsert
<1>3. PICK free : free = ReviewIds \ {reviews[k].id : k \in DOMAIN reviews}
  OBVIOUS
<1>4. PICK ks : ks = DOMAIN b \ DOMAIN reviews
  OBVIOUS
<1>5. number \in [ks -> free] /\ \A k, l \in ks : k # l => number[k] # number[l]
  BY <1>2, <1>3, <1>4 DEF Numberings
<1>6. /\ DOMAIN reviews' = DOMAIN reviews \cup ks
      /\ \A k \in DOMAIN reviews : reviews'[k].id = reviews[k].id
      /\ \A k \in ks : reviews'[k].id = number[k]
  BY <1>2, <1>4 DEF WithId
<1>7. IsFiniteSet(DOMAIN reviews')
  <2>1. DOMAIN reviews' = DOMAIN reviews \cup DOMAIN b
    BY <1>2
  <2>. QED  BY <1>1, <2>1, FS_Union DEF PagesInv
<1>8. \A k \in DOMAIN reviews : reviews[k].id \notin free
  BY <1>3
<1>9. \A k \in DOMAIN reviews' : k \in Keys /\ reviews'[k].id \in ReviewIds
  <2>1. free \subseteq ReviewIds /\ ks \subseteq Keys
    BY <1>1, <1>3, <1>4
  <2>. QED  BY <1>5, <1>6, <2>1 DEF PagesInv
<1>10. \A k, l \in DOMAIN reviews' : k # l => reviews'[k].id # reviews'[l].id
  BY <1>5, <1>6, <1>8 DEF PagesInv
<1>. QED  BY <1>7, <1>9, <1>10, VersionMoves DEF upsert, Stamp

\* A reader whose cursor would still be accepted has been shown exactly the rows of
\* today's listing up to his offset, each once and in order, for any batches and
\* administration between his pages: pages by offset lose and repeat nothing because the
\* cursor is bound to the version that every batch moves (queryStoreReviews,
\* decodeStructuredCursor, lockAuthorizationPublication).
THEOREM PagesStayOneList == ReviewsSpec => []PagesAreOneList
<1>1. ReviewsInit => PagesInv
  <2>. SUFFICES ASSUME ReviewsInit PROVE PagesInv
    OBVIOUS
  <2>1. DOMAIN reviews = {}
    BY DEF ReviewsInit
  <2>2. \A e \in Staff : listing[e] = NoRead
    BY DEF ReviewsInit
  <2>3. \A e \in Staff : ReadOK(e) /\ listing[e].at = "none"
    BY <2>2 DEF ReviewsInit, ReadOK, NoRead, FirstPage
  <2>4. PagesAreOneList
    BY <2>3 DEF PagesAreOneList
  <2>5. DOMAIN listing = Staff
    BY DEF ReviewsInit
  <2>. QED  BY <2>1, <2>3, <2>4, <2>5, FS_EmptySet DEF ReviewsInit, PagesInv
<1>2. PagesInv /\ [ReviewsNext]_reviewVars => PagesInv'
  <2>. SUFFICES ASSUME PagesInv, [ReviewsNext]_reviewVars PROVE PagesInv'
    OBVIOUS
  <2>1. CASE \E b \in Batches : upsert(b)
    BY <2>1, UpsertKeepsPages
  <2>2. ASSUME NEW e \in Staff, NEW filter \in Filters, queryFirst(e, filter)
        PROVE  PagesInv'
    <3>1. PICK n \in Nat : Len(Listing(e, filter)) = n
      BY ListingIsAList
    <3>2. SubSeq(Listing(e, filter), 1, 0) = <<>>
      BY SubSeqEmpty
    <3>3. page(e, filter, 0, SubSeq(Listing(e, filter), 1, 0))
      BY <2>2, <3>2 DEF queryFirst
    <3>4. 0 <= Len(Listing(e, filter))
      BY <3>1
    <3>. QED  BY <2>2, <3>3, <3>4, PageContinues DEF queryFirst
  <2>3. ASSUME NEW e \in Staff, queryNext(e)
        PROVE  PagesInv'
    <3>1. PICK filter : filter = listing[e].filter
      OBVIOUS
    <3>2. PICK offset : offset = listing[e].cursor.offset
      OBVIOUS
    <3>3. PICK n \in Nat : Len(Listing(e, filter)) = n
      BY ListingIsAList
    <3>4. offset \in Nat
      BY <3>2 DEF PagesInv, ReadOK
    <3>5. /\ listing[e].seen = SubSeq(Listing(e, filter), 1, offset)
          /\ offset < Len(Listing(e, filter))
      BY <2>3, <3>1, <3>2 DEF PagesInv, PagesAreOneList, queryNext
    <3>6. page(e, filter, offset, SubSeq(Listing(e, filter), 1, offset))
      BY <2>3, <3>1, <3>2, <3>5 DEF queryNext
    <3>7. offset <= Len(Listing(e, filter))
      BY <3>3, <3>4, <3>5
    <3>. QED  BY <2>3, <3>4, <3>6, <3>7, PageContinues DEF queryNext
  <2>4. ASSUME NEW e \in Staff, queryRefused(e) \/ cursorExpires(e)
        PROVE  PagesInv'
    <3>1. PICK read : /\ listing' = [listing EXCEPT ![e] = read] /\ read.at \in {"none", "expired"}
                      /\ DOMAIN read = {"at", "filter", "cursor", "seen"}
                      /\ read.cursor \in {listing[e].cursor, FirstPage}
      <4>1. CASE queryRefused(e)
        <5>1. /\ NoRead.at \in {"none", "expired"} /\ NoRead.cursor = FirstPage
              /\ DOMAIN NoRead = {"at", "filter", "cursor", "seen"}
          BY DEF NoRead
        <5>. QED  BY <4>1, <5>1 DEF queryRefused
      <4>2. CASE cursorExpires(e)
        <5>1. listing' = [listing EXCEPT ![e] = [listing[e] EXCEPT !.at = "expired"]]
          BY <4>2 DEF cursorExpires
        <5>2. PICK old : old = listing[e]
          OBVIOUS
        <5>3. DOMAIN old = {"at", "filter", "cursor", "seen"}
          BY <5>2 DEF PagesInv, ReadOK
        <5>4. /\ [old EXCEPT !.at = "expired"].at = "expired"
              /\ [old EXCEPT !.at = "expired"].cursor = old.cursor
              /\ DOMAIN [old EXCEPT !.at = "expired"] = {"at", "filter", "cursor", "seen"}
          BY <5>3
        <5>. QED  BY <5>1, <5>2, <5>4
      <4>. QED  BY <2>4, <4>1, <4>2
    <3>2. UNCHANGED <<reviews, revision, granted>>
      BY <2>4 DEF queryRefused, cursorExpires
    <3>3. /\ DOMAIN listing' = Staff /\ listing'[e] = read
          /\ \A f \in Staff \ {e} : listing'[f] = listing[f]
      BY <3>1 DEF PagesInv
    <3>4. \A f, g : Listing(f, g)' = Listing(f, g)
      BY <3>2 DEF Listing, ByMoment, Mine, Precedes
    <3>5. ASSUME NEW f \in Staff
          PROVE  /\ ReadOK(f)'
                 /\ (listing[f].at = "open" /\ Bound(f))' =>
                      f # e /\ listing'[f] = listing[f] /\ listing[f].at = "open" /\ Bound(f)
      <4>1. CASE f # e
        BY <3>2, <3>3, <4>1 DEF ReadOK, PagesInv, Bound
      <4>2. CASE f = e
        <5>1. /\ DOMAIN FirstPage = {"offset", "version"} /\ FirstPage.offset = 0 /\ FirstPage.version = 0
          BY DEF FirstPage
        <5>2. revision \in Nat /\ ReadOK(e)
          BY DEF PagesInv
        <5>3. ReadOK(e)'
          BY <3>1, <3>2, <3>3, <5>1, <5>2 DEF ReadOK
        <5>. QED  BY <3>1, <3>3, <4>2, <5>3
      <4>. QED  BY <4>1, <4>2
    <3>6. PagesAreOneList'
      BY <3>4, <3>5 DEF PagesInv, PagesAreOneList
    <3>. QED  BY <3>2, <3>3, <3>5, <3>6 DEF PagesInv
  <2>5. CASE administer
    <3>1. revision' = revision + 1 /\ UNCHANGED <<reviews, listing>>
      BY <2>5 DEF administer
    <3>. QED  BY <3>1, VersionMoves DEF PagesInv
  <2>6. CASE UNCHANGED reviewVars
    <3>1. UNCHANGED <<reviews, revision, granted, listing>>
      BY <2>6 DEF reviewVars
    <3>2. \A f, g : Listing(f, g)' = Listing(f, g)
      BY <3>1 DEF Listing, ByMoment, Mine, Precedes
    <3>3. PagesAreOneList'
      BY <3>1, <3>2 DEF PagesInv, PagesAreOneList, Bound
    <3>. QED  BY <3>1, <3>3 DEF PagesInv, ReadOK
  <2>. QED  BY <2>1, <2>2, <2>3, <2>4, <2>5, <2>6 DEF ReviewsNext
<1>3. PagesInv => PagesAreOneList
  BY DEF PagesInv
<1>. QED  BY <1>1, <1>2, <1>3, PTL DEF ReviewsSpec

(***************************************************************************)
(* Links to the originals of evidence.                                     *)
(***************************************************************************)

\* What a request in flight knows of the caller's permissions is what they were at
\* its version, it signs links under that knowledge only, and while a recording
\* counts, the version stays the one it was compared with.
SnapshotOK ==
  call.pc # "idle" =>
    /\ {"pc", "version", "grants", "signed", "live"} \subseteq DOMAIN call
    /\ call.version \in Nat /\ call.version <= version
    /\ call.version = version => call.grants = grants
    /\ call.pc \in {"record", "count"} => call.signed \subseteq call.grants
    /\ call.pc = "count" => call.version = version

LinksInv == version \in Nat /\ "pc" \in DOMAIN call /\ SnapshotOK

\* Steps of which the request in flight takes no part, or ends.
LEMMA SnapshotKept ==
  ASSUME LinksInv, UNCHANGED <<version, grants>>,
         \/ call' = call
         \/ call' = Idle
         \/ call.pc # "idle" /\ call' = [call EXCEPT !.steady = FALSE, !.expected = {}]
  PROVE  LinksInv'
<1>1. CASE call.pc # "idle" /\ call' = [call EXCEPT !.steady = FALSE, !.expected = {}]
  <2>1. /\ DOMAIN call' = DOMAIN call
        /\ call'.pc = call.pc /\ call'.version = call.version
        /\ call'.grants = call.grants /\ call'.signed = call.signed /\ call'.live = call.live
    BY <1>1 DEF LinksInv, SnapshotOK
  <2>. QED  BY <2>1 DEF LinksInv, SnapshotOK
<1>2. CASE call' = Idle
  BY <1>2 DEF Idle, LinksInv, SnapshotOK
<1>. QED  BY <1>1, <1>2 DEF LinksInv, SnapshotOK

\* Steps that move the request within its snapshot.
LEMMA SnapshotMoves ==
  ASSUME LinksInv, call.pc # "idle", UNCHANGED <<version, grants>>,
         {"pc", "version", "grants", "signed", "live"} \subseteq DOMAIN call',
         call'.version = call.version, call'.grants = call.grants,
         call'.pc \in {"record", "count"} => call'.signed \subseteq call.grants,
         call'.pc = "count" => SameVersion
  PROVE  LinksInv'
BY DEF LinksInv, SnapshotOK, SameVersion

\* A request begins with the permissions of now.
LEMMA SnapshotTaken ==
  ASSUME LinksInv, UNCHANGED <<version, grants>>,
         {"pc", "version", "grants", "signed", "live"} \subseteq DOMAIN call',
         call'.version = version, call'.grants = grants, call'.pc \in {"embed", "sources"}
  PROVE  LinksInv'
BY DEF LinksInv, SnapshotOK

\* Every step keeps recorded links within what their reader may open.
LEMMA LinksStep == LinksInv /\ [EvidenceNext]_evidenceVars => LinksInv'
<1>. SUFFICES ASSUME LinksInv, [EvidenceNext]_evidenceVars PROVE LinksInv'
  OBVIOUS
<1>1. ASSUME NEW r, NEW continued, Search(r, continued)
      PROVE  LinksInv'
  <2>1. /\ {"pc", "version", "grants", "signed", "live"} \subseteq DOMAIN call'
        /\ call'.version = version /\ call'.grants = grants /\ call'.pc \in {"embed", "sources"}
    BY <1>1 DEF Search
  <2>. QED  BY <1>1, <2>1, SnapshotTaken DEF Search, CallsOnly
<1>2. ASSUME NEW d \in Docs, RequestSource(d)
      PROVE  LinksInv'
  <2>1. /\ {"pc", "version", "grants", "signed", "live"} \subseteq DOMAIN call'
        /\ call'.version = version /\ call'.grants = grants /\ call'.pc \in {"embed", "sources"}
    BY <1>2 DEF RequestSource
  <2>. QED  BY <1>2, <2>1, SnapshotTaken DEF RequestSource, CallsOnly
<1>3. CASE HybridSearch
  <2>1. PICK vector, found :
          call' = [call EXCEPT !.pc = "revalidate", !.vector = vector, !.found = found]
    BY <1>3 DEF HybridSearch
  <2>2. call.pc = "embed"
    BY <1>3 DEF HybridSearch
  <2>3. /\ DOMAIN call' = DOMAIN call /\ call'.pc = "revalidate"
        /\ call'.version = call.version /\ call'.grants = call.grants
    BY <2>1, <2>2 DEF LinksInv, SnapshotOK
  <2>. QED  BY <1>3, <2>2, <2>3, SnapshotMoves DEF HybridSearch, CallsOnly, LinksInv, SnapshotOK
<1>4. CASE RevalidateAndRank
  <2>1. /\ {"pc", "version", "grants", "signed", "live"} \subseteq DOMAIN call'
        /\ call'.version = call.version /\ call'.grants = call.grants
        /\ call'.pc \in {"respond", "sources"}
    BY <1>4 DEF RevalidateAndRank, AnswerFrom, Answered
  <2>. QED  BY <1>4, <2>1, SnapshotMoves DEF RevalidateAndRank, CallsOnly
<1>5. CASE IssueMany
  <2>1. PICK signed \in SUBSET {d \in call.wanted : Downloadable(d)} :
          call' = [call EXCEPT !.pc = "record",
                               !.signed = IF Explicit /\ signed # call.wanted THEN {} ELSE signed]
    BY <1>5 DEF IssueMany
  <2>2. call.pc = "sources"
    BY <1>5 DEF IssueMany
  <2>3. signed \subseteq call.grants
    BY <2>1 DEF Downloadable
  <2>4. /\ DOMAIN call' = DOMAIN call /\ call'.pc = "record" /\ call'.signed \in {{}, signed}
        /\ call'.version = call.version /\ call'.grants = call.grants
    BY <2>1, <2>2 DEF LinksInv, SnapshotOK
  <2>. QED  BY <1>5, <2>2, <2>3, <2>4, SnapshotMoves DEF IssueMany, CallsOnly, LinksInv, SnapshotOK
<1>6. CASE VersionMoved \/ RecordDownloads
  <2>1. PICK carried : Recorded(carried)
    BY <1>6 DEF VersionMoved, RecordDownloads
  <2>2. call.pc \in {"record", "count"}
    BY <1>6 DEF VersionMoved, RecordDownloads
  <2>3. CASE call' = [call EXCEPT !.pc = "respond"]
    <3>1. /\ DOMAIN call' = DOMAIN call /\ call'.pc = "respond"
          /\ call'.version = call.version /\ call'.grants = call.grants
      BY <2>2, <2>3 DEF LinksInv, SnapshotOK
    <3>. QED  BY <2>1, <2>2, <3>1, SnapshotMoves DEF Recorded, CallsOnly, LinksInv, SnapshotOK
  <2>. QED  BY <2>1, <2>3, SnapshotKept DEF Recorded, CallsOnly
<1>7. CASE BeginRecording
  <2>1. PICK live : call' = [call EXCEPT !.pc = "count", !.live = live]
    BY <1>7 DEF BeginRecording
  <2>2. call.pc = "record" /\ SameVersion
    BY <1>7 DEF BeginRecording
  <2>3. /\ DOMAIN call' = DOMAIN call /\ call'.pc = "count" /\ call'.signed = call.signed
        /\ call'.version = call.version /\ call'.grants = call.grants
    BY <2>1, <2>2 DEF LinksInv, SnapshotOK
  <2>. QED  BY <1>7, <2>2, <2>3, SnapshotMoves DEF BeginRecording, CallsOnly, LinksInv, SnapshotOK
<1>8. ASSUME NEW g, Regrant(g)
      PROVE  LinksInv'
  BY <1>8 DEF Regrant, LinksInv, SnapshotOK
<1>9. ASSUME NEW d \in Docs, (\E c \in Configs : IndexPoints(d, c)) \/ CompleteIndexing(d) \/ ArchiveEvidence(d)
      PROVE  LinksInv'
  BY <1>9, SnapshotKept DEF IndexPoints, CompleteIndexing, ArchiveEvidence, InFlight, IndexOnly
<1>10. ASSUME \/ \E d \in Docs : AttemptFails(d)
              \/ \E c \in Configs : Redeploy(c)
              \/ CursorExpires \/ CallFails \/ Respond
              \/ UNCHANGED evidenceVars
       PROVE  LinksInv'
  BY <1>10, SnapshotKept DEF AttemptFails, Redeploy, CursorExpires, CallFails, Respond, CallsOnly, evidenceVars
<1>. QED  BY <1>1, <1>2, <1>3, <1>4, <1>5, <1>6, <1>7, <1>8, <1>9, <1>10 DEF EvidenceNext

\* A link leaves the service only while its document is readable, although it was
\* signed under permissions that may have changed since, and only if the document was
\* not archived when its recording began: recording the download compares the version
\* of the permissions again and holds its row, and counts in its own read view
\* (recordDownloadsIssued).
THEOREM LinksStayCurrent == EvidenceSpec => LinksAreCurrent
<1>. DEFINE A == links' # links => \A d \in links' : d \in grants /\ d \in call.live
<1>1. EvidenceInit => LinksInv
  BY DEF EvidenceInit, LinksInv, SnapshotOK, Idle
<1>2. LinksInv /\ [EvidenceNext]_evidenceVars => A
  <2>. SUFFICES ASSUME LinksInv, [EvidenceNext]_evidenceVars PROVE A
    OBVIOUS
  <2>1. CASE RecordDownloads
    BY <2>1 DEF RecordDownloads, Recorded, Recordable, LinksInv, SnapshotOK
  <2>2. links' = links \/ links' = {} \/ RecordDownloads
    BY DEF EvidenceNext, evidenceVars, IndexPoints, CompleteIndexing, AttemptFails, ArchiveEvidence,
           RequestSource, Regrant, Redeploy, Search, CursorExpires, CallFails, HybridSearch,
           RevalidateAndRank, IssueMany, BeginRecording, VersionMoved, Recorded, Respond, IndexOnly
  <2>. QED  BY <2>1, <2>2
<1>. QED  BY <1>1, <1>2, LinksStep, PTL DEF EvidenceSpec, LinksAreCurrent

(***************************************************************************)
(* The ranking of a search.                                                *)
(***************************************************************************)

\* The candidates of one search are of one configuration, so that their keys differ.
CandidateSet(F) ==
  /\ IsFiniteSet(F)
  /\ \A p \in F : Key(p) \in Docs \X (1..MaxChunksPerDocument)
  /\ \A p, q \in F : p # q => Key(p) # Key(q)

LEMMA ComparisonIsStrict ==
  ASSUME NEW F, CandidateSet(F), NEW score, \A p \in F : score[p] \in Int
  PROVE  IsStrictOrder(F, {pair \in F \X F : compareEvidenceCandidates(score, pair[1], pair[2])})
<1>. DEFINE R == {pair \in F \X F : compareEvidenceCandidates(score, pair[1], pair[2])}
<1>1. \A p, q \in F : <<p, q>> \in R <=> compareEvidenceCandidates(score, p, q)
  OBVIOUS
<1>2. \A p \in F : Hybrid(Key(p)) \in Int /\ score[p] \in Int
  BY EvidenceAssumption DEF CandidateSet
<1>3. \A p, q \in F : p # q => Hybrid(Key(p)) # Hybrid(Key(q))
  BY EvidenceAssumption DEF CandidateSet
<1>. HIDE DEF R
<1>4. \A p \in F : <<p, p>> \notin R
  BY <1>1, <1>2 DEF compareEvidenceCandidates
<1>5. \A p, q \in F : p # q => <<p, q>> \in R \/ <<q, p>> \in R
  BY <1>1, <1>2, <1>3 DEF compareEvidenceCandidates
<1>6. \A p, q, r \in F : <<p, q>> \in R /\ <<q, r>> \in R => <<p, r>> \in R
  BY <1>1, <1>2 DEF compareEvidenceCandidates
<1>7. IsStrictOrder(F, R)
  BY <1>4, <1>5, <1>6 DEF IsStrictOrder
<1>. QED  BY <1>7 DEF R

\* The list s holds members of F only, or each of them.
ListsSome(s, F) == \E n \in Nat : s \in [1..n -> F] /\ Len(s) = n
ListsAll(s, F) == \E n \in Nat : /\ s \in [1..n -> F] /\ Len(s) = n
                                  /\ \A p \in F : \E i \in 1..n : s[i] = p

LEMMA SortedIsAList ==
  ASSUME NEW F, CandidateSet(F), NEW score, \A p \in F : score[p] \in Int
  PROVE  ListsAll(Sorted(F, score), F)
<1>1. PICK R : R = {pair \in F \X F : compareEvidenceCandidates(score, pair[1], pair[2])}
  OBVIOUS
<1>2. IsFiniteSet(F) /\ IsStrictOrder(F, R)
  BY <1>1, ComparisonIsStrict DEF CandidateSet
<1>3. Sorted(F, score) = InOrder(F, R)
  BY <1>1 DEF Sorted
<1>4. PICK n : n = Cardinality(F)
  OBVIOUS
<1>5. /\ n \in Nat /\ Sorted(F, score) \in [1..n -> F]
      /\ \A p \in F : \E i \in 1..n : Sorted(F, score)[i] = p
  BY <1>2, <1>3, <1>4, InOrderList
<1>6. Len(Sorted(F, score)) = n
  BY <1>5, ListLength
<1>. QED  BY <1>5, <1>6 DEF ListsAll

\* A finite range of numbers has a first largest gap.
LEMMA WidestGap ==
  ASSUME NEW n \in Int, 1..n # {}, NEW g, \A i \in 1..n : g[i] \in Int
  PROVE  \E i \in 1..n : \A j \in 1..n : g[j] < g[i] \/ (g[j] = g[i] /\ i <= j)
<1>. DEFINE I == 1..n
            R == {p \in I \X I : g[p[2]] < g[p[1]] \/ (g[p[2]] = g[p[1]] /\ p[1] < p[2])}
<1>1. IsFiniteSet(I) /\ I # {}
  BY FS_Interval
<1>2. \A i, j \in I : <<i, j>> \in R <=> (g[j] < g[i] \/ (g[j] = g[i] /\ i < j))
  OBVIOUS
<1>3. \A i \in I : i \in Int /\ g[i] \in Int
  OBVIOUS
<1>. HIDE DEF R, I
<1>4. IsStrictOrder(I, R)
  <2>1. \A i \in I : <<i, i>> \notin R
    BY <1>2, <1>3
  <2>2. \A i, j \in I : i # j => <<i, j>> \in R \/ <<j, i>> \in R
    BY <1>2, <1>3
  <2>3. \A i, j, k \in I : <<i, j>> \in R /\ <<j, k>> \in R => <<i, k>> \in R
    BY <1>2, <1>3
  <2>. QED  BY <2>1, <2>2, <2>3 DEF IsStrictOrder
<1>5. PICK i \in I : \A j \in I : j # i => <<i, j>> \in R
  BY <1>1, <1>4, FirstElement
<1>6. ASSUME NEW j \in I
      PROVE  g[j] < g[i] \/ (g[j] = g[i] /\ i <= j)
  <2>1. CASE j = i
    BY <1>3, <2>1
  <2>2. CASE j # i
    <3>1. g[j] < g[i] \/ (g[j] = g[i] /\ i < j)
      BY <1>2, <1>5, <2>2
    <3>. QED  BY <1>3, <3>1
  <2>. QED  BY <2>1, <2>2
<1>. QED  BY <1>6 DEF I

\* Whatever is dropped, what is kept of a ranking is a list, and without a relevance
\* policy it is all of the candidates.
LEMMA RankedIsAList ==
  ASSUME NEW F, CandidateSet(F), NEW config, NEW score \in [F -> Int]
  PROVE  /\ ListsSome(Ranked(config, F, score).kept, F)
         /\ config.mode # "rerank_floor_and_gap" => ToSet(Ranked(config, F, score).kept) = F
<1>1. CASE config.mode = "rerank_floor_and_gap"
  <2>1. PICK A : A = {p \in DOMAIN score : score[p] >= MinScore}
    OBVIOUS
  <2>2. A \subseteq F /\ \A p \in A : score[p] \in Int
    BY <2>1
  <2>3. CandidateSet(A)
    BY <2>2, FS_Subset DEF CandidateSet
  <2>4. PICK above : above = Sorted(A, score)
    OBVIOUS
  <2>5. PICK n \in Nat : above \in [1..n -> A] /\ Len(above) = n
    BY <2>2, <2>3, <2>4, SortedIsAList DEF ListsAll
  <2>6. above \in [1..n -> F]
    BY <2>2, <2>5
  <2>7. PICK g : g = [i \in 1..(n - 1) |-> score[above[i]] - score[above[i + 1]]]
    OBVIOUS
  <2>8. \A i \in 1..(n - 1) : g[i] = score[above[i]] - score[above[i + 1]] /\ g[i] \in Int
    <3>1. ASSUME NEW i \in 1..(n - 1)
          PROVE  g[i] = score[above[i]] - score[above[i + 1]] /\ g[i] \in Int
      <4>1. i \in 1..n /\ i + 1 \in 1..n
        BY <2>5
      <4>2. above[i] \in A /\ above[i + 1] \in A
        BY <2>5, <4>1
      <4>3. score[above[i]] \in Int /\ score[above[i + 1]] \in Int
        BY <2>2, <4>2
      <4>. QED  BY <2>7, <4>3
    <3>. QED  BY <3>1
  <2>9. PICK widest : widest = CHOOSE i \in 1..(n - 1) : \A j \in 1..(n - 1) :
          \/ score[above[j]] - score[above[j + 1]] < score[above[i]] - score[above[i + 1]]
          \/ /\ score[above[j]] - score[above[j + 1]] = score[above[i]] - score[above[i + 1]]
             /\ i <= j
    OBVIOUS
  <2>10. 1..(n - 1) # {} => widest \in 1..(n - 1)
    <3>1. SUFFICES ASSUME 1..(n - 1) # {}
                   PROVE  widest \in 1..(n - 1)
      OBVIOUS
    <3>2. n - 1 \in Int
      BY <2>5
    <3>3. \E i \in 1..(n - 1) : \A j \in 1..(n - 1) : g[j] < g[i] \/ (g[j] = g[i] /\ i <= j)
      BY <2>8, <3>1, <3>2, WidestGap
    <3>4. \E i \in 1..(n - 1) : \A j \in 1..(n - 1) :
            \/ score[above[j]] - score[above[j + 1]] < score[above[i]] - score[above[i + 1]]
            \/ /\ score[above[j]] - score[above[j + 1]] = score[above[i]] - score[above[i + 1]]
               /\ i <= j
      BY <2>8, <3>3
    <3>. QED  BY <2>9, <3>4
  <2>11. \/ Ranked(config, F, score).kept = above
         \/ 1..(n - 1) # {} /\ Ranked(config, F, score).kept = SubSeq(above, 1, widest)
    <3>1. Ranked(config, F, score).kept = pruneEvidenceCandidates(F, score).kept
      BY <1>1 DEF Ranked
    <3>2. \/ pruneEvidenceCandidates(F, score).kept = above
          \/ 1..(n - 1) # {} /\ pruneEvidenceCandidates(F, score).kept = SubSeq(above, 1, widest)
      BY <2>1, <2>4, <2>5, <2>9 DEF pruneEvidenceCandidates
    <3>. QED  BY <3>1, <3>2
  <2>12. CASE Ranked(config, F, score).kept = above
    BY <1>1, <2>5, <2>6, <2>12 DEF ListsSome
  <2>13. CASE 1..(n - 1) # {} /\ Ranked(config, F, score).kept = SubSeq(above, 1, widest)
    <3>1. widest \in 1..(n - 1) /\ widest \in Nat /\ 1 \in Int /\ widest \in Int /\ 1 <= widest
      BY <2>5, <2>10, <2>13
    <3>2. \A i \in 1..widest : above[i] \in F
      <4>1. \A i \in 1..widest : i \in 1..n
        BY <2>5, <3>1
      <4>. QED  BY <2>6, <4>1
    <3>3. /\ SubSeq(above, 1, widest) \in Seq(F)
          /\ Len(SubSeq(above, 1, widest)) = widest - 1 + 1
      BY <3>1, <3>2, SubSeqProperties
    <3>4. Len(SubSeq(above, 1, widest)) = widest
      BY <3>1, <3>3
    <3>5. SubSeq(above, 1, widest) \in [1..widest -> F]
      BY <3>3, <3>4, LenProperties
    <3>. QED  BY <1>1, <2>13, <3>1, <3>4, <3>5 DEF ListsSome
  <2>. QED  BY <2>11, <2>12, <2>13
<1>2. CASE config.mode # "rerank_floor_and_gap"
  <2>1. PICK all : all = [p \in F |-> IF p \in DOMAIN score THEN score[p] ELSE Hybrid(Key(p))]
    OBVIOUS
  <2>2. \A p \in F : all[p] \in Int
    BY <2>1
  <2>3. Ranked(config, F, score).kept = Sorted(F, all)
    BY <1>2, <2>1 DEF Ranked
  <2>4. PICK kept : kept = Sorted(F, all)
    OBVIOUS
  <2>5. PICK n \in Nat : /\ kept \in [1..n -> F] /\ Len(kept) = n
                         /\ \A p \in F : \E i \in 1..n : kept[i] = p
    <3>1. ListsAll(Sorted(F, all), F)
      BY <2>2, SortedIsAList
    <3>. QED  BY <2>4, <3>1 DEF ListsAll
  <2>6. ToSet(kept) = F
    BY <2>5 DEF ToSet
  <2>. QED  BY <2>3, <2>4, <2>5, <2>6 DEF ListsSome
<1>. QED  BY <1>1, <1>2

\* What a search would read now: the points that match it, the window of the best, the
\* candidates that are still current, their scores, and their ranking.
MatchingPoints(config, request) ==
  {p \in points : p[3] = config.version /\ (request.documentIds = {} \/ p[1] \in request.documentIds)}

Best(config, request) ==
  {p \in MatchingPoints(config, request) :
     Cardinality({q \in MatchingPoints(config, request) : Hybrid(Key(q)) > Hybrid(Key(p))}) < CandidateWindow}

CurrentOf(F, g) == {p \in F : p \in rows /\ status[p[1]] = "active" /\ p[1] \in g}

Blank(F) == \A p \in F : ChunksOf(p[1])[p[2]].text = <<>>

ScoresOf(F) == [p \in F |-> IF Blank(F) THEN 0 ELSE Relevance(Key(p))]

RankingOf(F, config) == Ranked(config, F, ScoresOf(F)).kept

OrderOf(config, request, g) == RankingOf(CurrentOf(Best(config, request), g), config)

\* The chunk rows that a caller who may read g can expect to find.
ReadableTo(config, request, g) ==
  {p \in rows : /\ p[3] = config.version /\ status[p[1]] = "active" /\ p[1] \in g
                /\ (request.documentIds = {} \/ p[1] \in request.documentIds)}

PointsOK ==
  /\ IsFiniteSet(points) /\ rows \subseteq points
  /\ \A p \in points : p = <<p[1], p[2], p[3]>> /\ p[1] \in Docs /\ p[2] \in 1..MaxChunksPerDocument

LEMMA MatchingAreCandidates ==
  ASSUME PointsOK, NEW config, NEW request, NEW F, F \subseteq MatchingPoints(config, request)
  PROVE  CandidateSet(F)
<1>1. F \subseteq points /\ \A p \in F : p[3] = config.version
  BY DEF MatchingPoints
<1>2. IsFiniteSet(F)
  BY <1>1, FS_Subset DEF PointsOK
<1>3. \A p \in F : p = <<p[1], p[2], p[3]>> /\ p[1] \in Docs /\ p[2] \in 1..MaxChunksPerDocument
  BY <1>1 DEF PointsOK
<1>4. \A p \in F : Key(p) \in Docs \X (1..MaxChunksPerDocument)
  BY <1>3 DEF Key
<1>5. ASSUME NEW p \in F, NEW q \in F, Key(p) = Key(q)
      PROVE  p = q
  <2>1. p[1] = q[1] /\ p[2] = q[2]
    BY <1>5 DEF Key
  <2>2. p[3] = q[3]
    BY <1>1
  <2>. QED  BY <1>3, <2>1, <2>2
<1>. QED  BY <1>2, <1>4, <1>5 DEF CandidateSet

\* A window that is not full holds every match.
LEMMA WindowNotFull ==
  ASSUME PointsOK, NEW config, NEW request, Cardinality(Best(config, request)) < CandidateWindow
  PROVE  Best(config, request) = MatchingPoints(config, request)
<1>1. PICK M : M = MatchingPoints(config, request)
  OBVIOUS
<1>2. PICK B : B = Best(config, request)
  OBVIOUS
<1>3. B = {p \in M : Cardinality({q \in M : Hybrid(Key(q)) > Hybrid(Key(p))}) < CandidateWindow}
  BY <1>1, <1>2 DEF Best
<1>4. CandidateSet(M)
  BY <1>1, MatchingAreCandidates
<1>5. IsFiniteSet(M) /\ B \subseteq M /\ IsFiniteSet(B)
  BY <1>3, <1>4, FS_Subset DEF CandidateSet
<1>. DEFINE R == {pair \in M \X M : Hybrid(Key(pair[1])) > Hybrid(Key(pair[2]))}
            U == M \ B
<1>6. SUFFICES ASSUME U # {}
               PROVE  FALSE
  BY <1>1, <1>2, <1>5
<1>7. \A p \in M : Hybrid(Key(p)) \in Int
  BY <1>4, EvidenceAssumption DEF CandidateSet
<1>8. \A p, q \in M : p # q => Hybrid(Key(p)) # Hybrid(Key(q))
  BY <1>4, EvidenceAssumption DEF CandidateSet
<1>9. \A p, q \in M : <<p, q>> \in R <=> Hybrid(Key(p)) > Hybrid(Key(q))
  OBVIOUS
<1>10. IsFiniteSet(U) /\ U \subseteq M
  BY <1>5, FS_Subset
<1>. HIDE DEF R, U
<1>11. IsStrictOrder(U, R)
  <2>1. \A x \in U : <<x, x>> \notin R
    BY <1>7, <1>9, <1>10
  <2>2. \A x, y \in U : x # y => <<x, y>> \in R \/ <<y, x>> \in R
    BY <1>7, <1>8, <1>9, <1>10
  <2>3. \A x, y, z \in U : <<x, y>> \in R /\ <<y, z>> \in R => <<x, z>> \in R
    BY <1>7, <1>9, <1>10
  <2>. QED  BY <2>1, <2>2, <2>3 DEF IsStrictOrder
<1>12. PICK x \in U : \A y \in U : y # x => <<x, y>> \in R
  BY <1>6, <1>10, <1>11, FirstElement
<1>13. PICK Higher : Higher = {q \in M : Hybrid(Key(q)) > Hybrid(Key(x))}
  OBVIOUS
<1>14. Higher \subseteq B
  <2>1. SUFFICES ASSUME NEW q \in Higher, q \notin B
                 PROVE  FALSE
    OBVIOUS
  <2>2. q \in M /\ x \in M /\ q \in U /\ Hybrid(Key(q)) > Hybrid(Key(x))
    BY <1>10, <1>13, <2>1 DEF U
  <2>3. q # x => Hybrid(Key(x)) > Hybrid(Key(q))
    BY <1>9, <1>12, <2>2
  <2>. QED  BY <1>7, <2>2, <2>3
<1>15. Cardinality(Higher) <= Cardinality(B) /\ Cardinality(Higher) \in Nat /\ Cardinality(B) \in Nat
  BY <1>5, <1>14, FS_Subset, FS_CardinalityType
<1>16. Cardinality(Higher) < CandidateWindow
  BY <1>2, <1>15, EvidenceAssumption
<1>17. x \in M /\ x \notin B
  BY DEF U
<1>. QED  BY <1>3, <1>13, <1>16, <1>17

\* The scores of a rerank request that left no candidate out do not depend on the order
\* the candidates came in.
LEMMA ScoresDetermined ==
  ASSUME NEW F, IsFiniteSet(F), NEW s \in SetToSeqs(F), DOMAIN RerankScores(s) = F
  PROVE  RerankScores(s) = ScoresOf(F)
<1>1. PICK n : n = Cardinality(F)
  OBVIOUS
<1>2. n \in Nat /\ IsFiniteSet(1..n) /\ Cardinality(1..n) = n
  <2>1. n \in Nat
    BY <1>1, FS_CardinalityType
  <2>2. IsFiniteSet(1..n) /\ Cardinality(1..n) = IF 1 > n THEN 0 ELSE n - 1 + 1
    BY <2>1, FS_Interval
  <2>. QED  BY <2>1, <2>2
<1>3. s \in [1..n -> F] /\ \A i, j \in 1..n : i # j => s[i] # s[j]
  BY <1>1 DEF SetToSeqs
<1>4. s \in Injection(1..n, F)
  BY <1>3 DEF Injection, IsInjective
<1>5. s \in Surjection(1..n, F)
  BY <1>1, <1>2, <1>4, FS_Injection
<1>6. ToSet(s) = F
  <2>1. DOMAIN s = 1..n
    BY <1>3
  <2>2. \A p \in F : \E i \in 1..n : s[i] = p
    BY <1>5 DEF Surjection
  <2>. QED  BY <1>3, <2>1, <2>2 DEF ToSet
<1>7. CASE Blank(F)
  BY <1>6, <1>7 DEF RerankScores, Blank, ScoresOf
<1>8. CASE ~Blank(F)
  <2>1. RerankScores(s) = [p \in limitRerankDocuments(s) |-> Relevance(Key(p))]
    BY <1>6, <1>8 DEF RerankScores, Blank
  <2>2. PICK L : L = limitRerankDocuments(s)
    OBVIOUS
  <2>3. RerankScores(s) = [p \in L |-> Relevance(Key(p))]
    BY <2>1, <2>2
  <2>4. L = F
    BY <2>3
  <2>. QED  BY <1>8, <2>3, <2>4 DEF ScoresOf
<1>. QED  BY <1>7, <1>8

\* The ranking of a search is a list, of all of its candidates without a policy.
LEMMA RankingIsAList ==
  ASSUME PointsOK, NEW config, NEW request, NEW F, F \subseteq MatchingPoints(config, request)
  PROVE  /\ ListsSome(RankingOf(F, config), F)
         /\ config.mode # "rerank_floor_and_gap" => ToSet(RankingOf(F, config)) = F
<1>1. CandidateSet(F)
  BY MatchingAreCandidates
<1>2. ScoresOf(F) \in [F -> Int]
  BY <1>1, EvidenceAssumption DEF ScoresOf, CandidateSet
<1>3. PICK score \in [F -> Int] : score = ScoresOf(F)
  BY <1>2
<1>. QED  BY <1>1, <1>3, RankedIsAList DEF RankingOf

\* A page of a list continues what was read of it.
ReadUpTo(seen, order, n, offset, upto) ==
  /\ seen = SubSeq(order, 1, Len(seen))
  /\ n > upto => Len(seen) = upto
  /\ ~(n > upto) => seen = order
  /\ offset = 0 => seen = SubSeq(order, offset + 1, Min({upto, n}))

LEMMA PageOfAList ==
  ASSUME NEW S, NEW n \in Nat, NEW order \in [1..n -> S], NEW offset \in 0..n, NEW upto \in Nat, offset < upto,
         NEW seen, seen = SubSeq(order, 1, offset) \o SubSeq(order, offset + 1, Min({upto, n}))
  PROVE  ReadUpTo(seen, order, n, offset, upto)
<1>1. PICK last : last = IF upto <= n THEN upto ELSE n
  OBVIOUS
<1>2. Min({upto, n}) = last
  <2>1. \A x \in {upto, n} : (\A y \in {upto, n} : x <= y) <=> x = last
    BY <1>1
  <2>2. last \in {upto, n}
    BY <1>1
  <2>3. \E x \in {upto, n} : \A y \in {upto, n} : x <= y
    BY <2>1, <2>2
  <2>4. PICK low : low = Min({upto, n})
    OBVIOUS
  <2>5. low \in {upto, n} /\ \A y \in {upto, n} : low <= y
    BY <2>3, <2>4 DEF Min
  <2>6. low = last
    BY <2>1, <2>5
  <2>. QED  BY <2>4, <2>6
<1>3. last \in 0..n /\ offset \in 0..last /\ last \in Nat /\ offset \in Nat
  BY <1>1
<1>4. order \in Seq(S) /\ Len(order) = n
  BY ListLength
<1>5. SubSeq(order, 1, last) \in Seq(S) /\ Len(SubSeq(order, 1, last)) = last
  <2>1. \A i \in 1..last : i \in 1..n
    BY <1>3
  <2>2. \A i \in 1..last : order[i] \in S
    BY <2>1
  <2>3. 1 \in Int /\ last \in Int
    BY <1>3
  <2>4. /\ SubSeq(order, 1, last) \in Seq(S)
        /\ Len(SubSeq(order, 1, last)) = IF 1 <= last THEN last - 1 + 1 ELSE 0
    BY <2>2, <2>3, SubSeqProperties
  <2>. QED  BY <1>3, <2>4
<1>6. seen = SubSeq(order, 1, last)
  <2>1. 1 \in 1..(Len(order) + 1) /\ offset \in 1 - 1 .. Len(order) /\ last \in offset..Len(order)
    BY <1>3, <1>4
  <2>2. SubSeq(order, 1, offset) \o SubSeq(order, offset + 1, last) = SubSeq(order, 1, last)
    BY <1>4, <2>1, ConcatAdjacentSubSeq
  <2>. QED  BY <1>2, <2>2
<1>7. Len(seen) = last
  BY <1>5, <1>6
<1>8. last = n => seen = order
  BY <1>4, <1>6, SubSeqFull
<1>9. (n > upto => last = upto) /\ (~(n > upto) => last = n)
  BY <1>1
<1>10. offset = 0 => offset + 1 = 1
  OBVIOUS
<1>. QED  BY <1>2, <1>6, <1>7, <1>8, <1>9, <1>10 DEF ReadUpTo

\* Pages read so far are parts of one ranking, and of which one the next page will be.
SoFar(shown) ==
  /\ shown.seen = SubSeq(shown.base, 1, Len(shown.seen))
  /\ shown.ended => shown.seen = shown.base
  /\ ~shown.warned /\ shown.mode = "disabled" => ToSet(shown.base) = shown.expected

Continues(shown, config, request, g, offset) ==
  /\ shown.base = OrderOf(config, request, g)
  /\ shown.mode = config.mode
  /\ Len(shown.seen) = offset
  /\ offset < Len(shown.base)

\* A cursor that would be accepted now continues the ranking as it would be computed now.
CursorOK ==
  cursor # NoCursor =>
    /\ cursor.offset \in Nat \ {0}
    /\ cursor.scope.version \in Nat /\ cursor.scope.version <= version
    /\ chain.steady /\ cursor.scope.version = version =>
         Continues(chain, createRetrievalConfig(cursor.scope.config, "active"), cursor.scope.request,
                   grants, cursor.offset)

SearchFields == {"pc", "request", "scope", "config", "grants", "version", "offset", "expected",
                 "steady", "found", "vector", "signed", "live"}

\* A search in flight still answers from the index it began with, or knows that it does not.
SearchOK ==
  call.pc \in {"embed", "revalidate"} =>
    /\ DOMAIN call = SearchFields
    /\ call.request.limit \in Nat \ {0}
    /\ call.scope = [request |-> call.request, version |-> call.version, config |-> call.config.version]
    /\ call.config = createRetrievalConfig(call.config.version, "active")
    /\ call.offset \in Nat
    /\ call.offset # 0 /\ chain.steady =>
         Continues(chain, call.config, call.request, call.grants, call.offset)
    /\ call.steady => call.expected = ReadableTo(call.config, call.request, call.grants)
    /\ call.pc = "revalidate" /\ call.steady /\ call.vector => call.found = Best(call.config, call.request)

AnswerFields == {"pc", "wanted", "signed", "live", "grants", "version", "steady", "expected", "next", "page"}

\* So does an answer that is on its way.
AnswerOK ==
  call.pc \in {"sources", "record", "count", "respond"} /\ (call.pc = "respond" \/ ~Explicit) =>
    /\ DOMAIN call = AnswerFields
    /\ call.next # NoCursor => call.next.offset \in Nat \ {0} /\ call.next.scope.version = call.version
    /\ call.steady => SoFar(call.page)
    /\ call.steady /\ call.next # NoCursor =>
         Continues(call.page, createRetrievalConfig(call.next.scope.config, "active"),
                   call.next.scope.request, call.grants, call.next.offset)

AttemptsOK ==
  /\ DOMAIN attempt = Docs
  /\ \A d \in Docs : attempt[d] # Unset => PointsOf(d, attempt[d]) \subseteq points

RankInv ==
  /\ PointsOK /\ AttemptsOK
  /\ deployed = createRetrievalConfig(deployed.version, "active")
  /\ CursorOK /\ SearchOK /\ AnswerOK
  /\ PagesAreOneRanking

\* What a search would read changes only with the index.
LEMMA SameIndex ==
  ASSUME UNCHANGED <<blocks, points, rows, status>>
  PROVE  /\ \A config, request, g : OrderOf(config, request, g)' = OrderOf(config, request, g)
         /\ \A config, request : Best(config, request)' = Best(config, request)
         /\ \A config, request, g : ReadableTo(config, request, g)' = ReadableTo(config, request, g)
         /\ \A shown, config, request, g, offset :
              Continues(shown, config, request, g, offset)' = Continues(shown, config, request, g, offset)
         /\ PointsOK' = PointsOK
<1>1. \A config, request : MatchingPoints(config, request)' = MatchingPoints(config, request)
  BY DEF MatchingPoints
<1>2. \A config, request : Best(config, request)' = Best(config, request)
  BY <1>1 DEF Best
<1>3. \A F, g : CurrentOf(F, g)' = CurrentOf(F, g)
  BY DEF CurrentOf
<1>4. \A F : ScoresOf(F)' = ScoresOf(F)
  BY DEF ScoresOf, Blank, ChunksOf
<1>5. \A F, config : RankingOf(F, config)' = RankingOf(F, config)
  BY <1>4 DEF RankingOf
<1>6. \A config, request, g : OrderOf(config, request, g)' = OrderOf(config, request, g)
  BY <1>2, <1>3, <1>5 DEF OrderOf
<1>7. \A config, request, g : ReadableTo(config, request, g)' = ReadableTo(config, request, g)
  BY DEF ReadableTo
<1>8. PointsOK' = PointsOK
  BY DEF PointsOK
<1>. QED  BY <1>2, <1>6, <1>7, <1>8 DEF Continues

\* Steps that change the index: nothing read so far is claimed any more.
LEMMA DisturbedKeeps ==
  ASSUME RankInv, LinksInv, PointsOK', AttemptsOK', InFlight, Disturbed, UNCHANGED <<cursor, version, deployed>>
  PROVE  RankInv'
<1>1. ~chain'.steady
  BY DEF Disturbed, NoPages
<1>2. PagesAreOneRanking' /\ CursorOK'
  BY <1>1 DEF PagesAreOneRanking, CursorOK, RankInv
<1>3. SearchOK' /\ AnswerOK'
  <2>1. CASE call.pc = "idle"
    BY <2>1 DEF InFlight, SearchOK, AnswerOK
  <2>2. CASE call.pc # "idle"
    <3>1. PICK old : old = call
      OBVIOUS
    <3>2. PICK new : new = [old EXCEPT !.steady = FALSE, !.expected = {}] /\ call' = new
      BY <2>2, <3>1 DEF InFlight
    <3>3. /\ DOMAIN new = DOMAIN old
          /\ "steady" \in DOMAIN old => new.steady = FALSE
          /\ \A f \in DOMAIN old \ {"steady", "expected"} : new[f] = old[f]
      BY <3>2
    <3>4. "pc" \in DOMAIN old /\ new.pc = old.pc
      BY <3>1, <3>3 DEF LinksInv
    <3>5. old.pc \in {"embed", "revalidate"} => SearchOK'
      <4>1. SUFFICES ASSUME old.pc \in {"embed", "revalidate"}
                     PROVE  SearchOK'
        OBVIOUS
      <4>2. DOMAIN old = SearchFields
        BY <3>1, <4>1 DEF RankInv, SearchOK
      <4>3. /\ ~new.steady /\ new.request = old.request /\ new.scope = old.scope /\ new.config = old.config
            /\ new.version = old.version /\ new.offset = old.offset
        BY <3>3, <4>2 DEF SearchFields
      <4>. QED  BY <1>1, <3>1, <3>2, <3>3, <3>4, <4>1, <4>2, <4>3 DEF RankInv, SearchOK
    <3>6. old.pc \in {"sources", "record", "count", "respond"} /\ (old.pc = "respond" \/ "explicit" \notin DOMAIN old)
            => AnswerOK'
      <4>1. SUFFICES ASSUME old.pc \in {"sources", "record", "count", "respond"},
                            old.pc = "respond" \/ "explicit" \notin DOMAIN old
                     PROVE  AnswerOK'
        OBVIOUS
      <4>2. DOMAIN old = AnswerFields
        BY <3>1, <4>1 DEF RankInv, AnswerOK, Explicit
      <4>3. ~new.steady /\ new.next = old.next /\ new.version = old.version
        BY <3>3, <4>2 DEF AnswerFields
      <4>. QED  BY <3>1, <3>2, <3>3, <3>4, <4>1, <4>2, <4>3 DEF RankInv, AnswerOK, Explicit
    <3>. QED  BY <3>2, <3>3, <3>4, <3>5, <3>6 DEF SearchOK, AnswerOK, Explicit
  <2>. QED  BY <2>1, <2>2
<1>. QED  BY <1>2, <1>3 DEF RankInv

\* Steps that leave the index, the chain and the cursor alone.
LEMMA QuietKeeps ==
  ASSUME RankInv, UNCHANGED <<blocks, points, rows, status, attempt, deployed, version, grants, cursor, chain>>,
         SearchOK', AnswerOK'
  PROVE  RankInv'
<1>1. AttemptsOK'
  BY DEF RankInv, AttemptsOK, PointsOf, ChunksOf
<1>2. CursorOK'
  BY SameIndex DEF RankInv, CursorOK
<1>3. PagesAreOneRanking'
  BY DEF RankInv, PagesAreOneRanking
<1>. QED  BY <1>1, <1>2, <1>3, SameIndex DEF RankInv

\* An answer: the page is the next part of the ranking that its pages are parts of, if
\* nothing changed since the first of them.
LEMMA RevalidateKeeps ==
  ASSUME RankInv, LinksInv, RevalidateAndRank
  PROVE  RankInv'
<1>1. PICK old : old = call
  OBVIOUS
<1>2. PICK F : F = {p \in old.found : StillCurrent(p)}
  OBVIOUS
<1>3. PICK s \in SetToSeqs(F) : call' = AnswerFrom(F, RerankScores(s))
  BY <1>1, <1>2 DEF RevalidateAndRank
<1>4. old.pc = "revalidate" /\ UNCHANGED <<blocks, points, rows, status, attempt, deployed, version, grants, cursor, chain>>
  BY <1>1 DEF RevalidateAndRank, CallsOnly
<1>5. /\ DOMAIN old = SearchFields
      /\ old.request.limit \in Nat \ {0}
      /\ old.scope = [request |-> old.request, version |-> old.version, config |-> old.config.version]
      /\ old.config = createRetrievalConfig(old.config.version, "active")
      /\ old.offset \in Nat
      /\ old.offset # 0 /\ chain.steady =>
           Continues(chain, old.config, old.request, old.grants, old.offset)
      /\ old.steady => old.expected = ReadableTo(old.config, old.request, old.grants)
      /\ old.steady /\ old.vector => old.found = Best(old.config, old.request)
  BY <1>1, <1>4 DEF RankInv, SearchOK
<1>6. PICK score : score = RerankScores(s)
  OBVIOUS
<1>7. PICK order : order = Ranked(old.config, F, score).kept
  OBVIOUS
<1>8. PICK upto : upto = old.offset + old.request.limit
  OBVIOUS
<1>9. PICK visible : visible = SubSeq(order, old.offset + 1, Min({upto, Len(order)}))
  OBVIOUS
<1>10. PICK more : more = (Len(order) > upto)
  OBVIOUS
<1>. DEFINE whole  == /\ old.steady /\ old.vector /\ DOMAIN score = F
                      /\ old.offset = 0 \/ chain.steady
            warned == \/ Cardinality(old.found) >= CandidateWindow
                      \/ Ranked(old.config, F, score).warned
<1>11. PICK new : call' = new /\ new = Answered(order, upto, visible, whole, warned)
  <2>1. call' = AnswerFrom(F, score)
    BY <1>3, <1>6
  <2>2. AnswerFrom(F, score) = Answered(order, upto, visible, whole, warned)
    <3>1. AnswerFrom(F, score) =
            Answered(Ranked(call.config, F, score).kept, call.offset + call.request.limit,
              SubSeq(Ranked(call.config, F, score).kept, call.offset + 1,
                Min({call.offset + call.request.limit, Len(Ranked(call.config, F, score).kept)})),
              (/\ call.steady /\ call.vector /\ DOMAIN score = F
               /\ call.offset = 0 \/ chain.steady),
              (\/ Cardinality(call.found) >= CandidateWindow
               \/ Ranked(call.config, F, score).warned))
      BY Zenon DEF AnswerFrom
    <3>. QED  BY <1>1, <1>7, <1>8, <1>9, <3>1, Zenon
  <2>. QED  BY <2>1, <2>2
<1>. HIDE DEF whole, warned
<1>12. new = [pc |-> IF visible = <<>> THEN "respond" ELSE "sources",
             wanted |-> {p[1] : p \in ToSet(visible)}, signed |-> {}, live |-> {},
             grants |-> old.grants, version |-> old.version,
             steady |-> whole, expected |-> {},
             next |-> IF more THEN createEvidenceCursor(old.scope, upto) ELSE NoCursor,
             page |-> IF ~whole THEN NoPages
                      ELSE [steady |-> TRUE, mode |-> old.config.mode, ended |-> ~more,
                            base |-> IF old.offset = 0 THEN order ELSE chain.base,
                            seen |-> IF old.offset = 0 THEN visible ELSE chain.seen \o visible,
                            warned |-> warned \/ (~(old.offset = 0) /\ chain.warned),
                            expected |-> IF old.offset = 0 THEN old.expected ELSE chain.expected]]
  <2>1. Answered(order, upto, visible, whole, warned) =
          [pc |-> IF visible = <<>> THEN "respond" ELSE "sources",
             wanted |-> {p[1] : p \in ToSet(visible)}, signed |-> {}, live |-> {},
             grants |-> call.grants, version |-> call.version,
             steady |-> whole, expected |-> {},
             next |-> IF Len(order) > upto THEN createEvidenceCursor(call.scope, upto) ELSE NoCursor,
             page |-> IF ~whole THEN NoPages
                      ELSE [steady |-> TRUE, mode |-> call.config.mode, ended |-> ~(Len(order) > upto),
                            base |-> IF call.offset = 0 THEN order ELSE chain.base,
                            seen |-> IF call.offset = 0 THEN visible ELSE chain.seen \o visible,
                            warned |-> warned \/ (~(call.offset = 0) /\ chain.warned),
                            expected |-> IF call.offset = 0 THEN call.expected ELSE chain.expected]]
    BY Zenon DEF Answered
  <2>2. more = (Len(order) > upto) /\ old = call /\ new = Answered(order, upto, visible, whole, warned)
    BY <1>1, <1>10, <1>11
  <2>. QED  BY <2>1, <2>2, Zenon
<1>13. /\ new.pc \in {"respond", "sources"} /\ DOMAIN new = AnswerFields
      /\ new.grants = old.grants /\ new.version = old.version /\ new.steady = whole
      /\ new.next = IF more THEN createEvidenceCursor(old.scope, upto) ELSE NoCursor
  BY <1>12 DEF AnswerFields
<1>14. new.next # NoCursor =>
        /\ more /\ new.next.offset = upto /\ new.next.offset \in Nat \ {0}
        /\ new.next.scope = old.scope /\ new.next.scope.version = new.version
  <2>1. upto \in Nat \ {0}
    <3>1. old.offset \in Nat /\ old.request.limit \in Nat \ {0}
      BY <1>5
    <3>2. PICK limit : limit = old.request.limit
      OBVIOUS
    <3>3. PICK offset : offset = old.offset
      OBVIOUS
    <3>4. upto = offset + limit
      BY <1>8, <3>2, <3>3
    <3>. QED  BY <3>1, <3>2, <3>3, <3>4
  <2>2. old.scope.version = old.version
    BY <1>5
  <2>. QED  BY <1>13, <2>1, <2>2 DEF createEvidenceCursor
<1>15. ASSUME whole
       PROVE  /\ SoFar(new.page)
              /\ new.next # NoCursor =>
                   Continues(new.page, createRetrievalConfig(new.next.scope.config, "active"),
                             new.next.scope.request, new.grants, new.next.offset)
  <2>1. old.steady /\ old.vector /\ DOMAIN score = F /\ (old.offset = 0 \/ chain.steady)
    BY <1>15 DEF whole
  <2>2. PICK shown :
          /\ new.page = shown
          /\ shown = [steady |-> TRUE, mode |-> old.config.mode, ended |-> ~more,
                     base |-> IF old.offset = 0 THEN order ELSE chain.base,
                     seen |-> IF old.offset = 0 THEN visible ELSE chain.seen \o visible,
                     warned |-> warned \/ (~(old.offset = 0) /\ chain.warned),
                     expected |-> IF old.offset = 0 THEN old.expected ELSE chain.expected]
    BY <1>12, <1>15
  <2>3. /\ shown.mode = old.config.mode /\ shown.ended = ~more
        /\ shown.base = IF old.offset = 0 THEN order ELSE chain.base
        /\ shown.seen = IF old.offset = 0 THEN visible ELSE chain.seen \o visible
        /\ shown.warned = (warned \/ (~(old.offset = 0) /\ chain.warned))
        /\ shown.expected = IF old.offset = 0 THEN old.expected ELSE chain.expected
    BY <2>2
  <2>4. old.found = Best(old.config, old.request) /\ Best(old.config, old.request) \subseteq MatchingPoints(old.config, old.request)
    BY <1>5, <2>1 DEF Best
  <2>5. F = CurrentOf(Best(old.config, old.request), old.grants)
    BY <1>1, <1>2, <2>4 DEF CurrentOf, StillCurrent
  <2>6. F \subseteq MatchingPoints(old.config, old.request)
    BY <2>4, <2>5 DEF CurrentOf
  <2>7. IsFiniteSet(F)
    BY <2>6, MatchingAreCandidates DEF RankInv, CandidateSet
  <2>8. score = ScoresOf(F)
    BY <1>6, <2>1, <2>7, ScoresDetermined
  <2>9. order = RankingOf(F, old.config) /\ order = OrderOf(old.config, old.request, old.grants)
    BY <1>7, <2>5, <2>8 DEF RankingOf, OrderOf
  <2>10. ListsSome(order, F) /\ (old.config.mode # "rerank_floor_and_gap" => ToSet(order) = F)
    BY <2>6, <2>9, RankingIsAList DEF RankInv
  <2>11. PICK n \in Nat : order \in [1..n -> F] /\ Len(order) = n
    BY <2>10 DEF ListsSome
  <2>12. old.offset # 0 =>
           /\ chain.steady /\ chain.base = order /\ chain.mode = old.config.mode
           /\ Len(chain.seen) = old.offset /\ old.offset < n
           /\ chain.seen = SubSeq(order, 1, old.offset)
           /\ ~chain.warned /\ chain.mode = "disabled" => ToSet(order) = chain.expected
    BY <1>5, <2>1, <2>9, <2>11 DEF Continues, RankInv, PagesAreOneRanking
  <2>13. shown.base = order
    BY <2>3, <2>12
  <2>14. PICK offset : offset = old.offset
    OBVIOUS
  <2>15. PICK seen : seen = SubSeq(order, 1, offset) \o SubSeq(order, offset + 1, Min({upto, n}))
    OBVIOUS
  <2>16. offset \in 0..n /\ upto \in Nat /\ offset < upto
    BY <1>5, <1>8, <2>11, <2>12, <2>14
  <2>17. /\ seen = SubSeq(order, 1, Len(seen))
         /\ n > upto => Len(seen) = upto
         /\ ~(n > upto) => seen = order
         /\ offset = 0 => seen = SubSeq(order, offset + 1, Min({upto, n}))
    <3>1. ReadUpTo(seen, order, n, offset, upto)
      BY <2>11, <2>16, <2>15, PageOfAList
    <3>. QED  BY <3>1 DEF ReadUpTo
  <2>18. shown.seen = seen
    BY <1>9, <2>3, <2>11, <2>12, <2>14, <2>17, <2>15
  <2>19. more = (n > upto)
    BY <1>10, <2>11
  <2>20. ~shown.warned /\ shown.mode = "disabled" => ToSet(order) = shown.expected
    <3>1. SUFFICES ASSUME ~shown.warned, shown.mode = "disabled"
                   PROVE  ToSet(order) = shown.expected
      OBVIOUS
    <3>2. CASE old.offset # 0
      BY <2>3, <2>12, <3>1, <3>2
    <3>3. CASE old.offset = 0
      <4>1. ~(Cardinality(Best(old.config, old.request)) >= CandidateWindow)
        BY <2>3, <2>4, <3>1 DEF warned
      <4>2. CandidateSet(Best(old.config, old.request))
        BY <2>4, MatchingAreCandidates DEF RankInv
      <4>3. Cardinality(Best(old.config, old.request)) \in Nat
        BY <4>2, FS_CardinalityType DEF CandidateSet
      <4>4. Cardinality(Best(old.config, old.request)) < CandidateWindow
        BY <4>1, <4>3, EvidenceAssumption
      <4>5. Best(old.config, old.request) = MatchingPoints(old.config, old.request)
        BY <4>4, WindowNotFull DEF RankInv
      <4>6. F = ReadableTo(old.config, old.request, old.grants)
        BY <2>5, <4>5 DEF CurrentOf, MatchingPoints, ReadableTo, RankInv, PointsOK
      <4>7. ToSet(order) = F
        BY <2>3, <2>10, <3>1
      <4>. QED  BY <1>5, <2>1, <2>3, <3>3, <4>6, <4>7
    <3>. QED  BY <3>2, <3>3
  <2>21. SoFar(shown)
    BY <2>3, <2>13, <2>17, <2>18, <2>19, <2>20 DEF SoFar
  <2>22. ASSUME new.next # NoCursor
         PROVE  Continues(shown, createRetrievalConfig(new.next.scope.config, "active"),
                          new.next.scope.request, new.grants, new.next.offset)
    <3>1. new.next.scope.config = old.config.version /\ new.next.scope.request = old.request
      BY <1>5, <1>14, <2>22
    <3>2. createRetrievalConfig(new.next.scope.config, "active") = old.config
      BY <1>5, <3>1
    <3>. QED  BY <1>13, <1>14, <2>3, <2>9, <2>11, <2>13, <2>17, <2>18, <2>19, <2>22, <3>1, <3>2 DEF Continues
  <2>. QED  BY <2>2, <2>21, <2>22
<1>16. AnswerOK'
  <2>1. new.steady => whole
    BY <1>13
  <2>2. new.steady => SoFar(new.page)
    BY <1>15, <2>1
  <2>3. new.steady /\ new.next # NoCursor =>
          Continues(new.page, createRetrievalConfig(new.next.scope.config, "active"),
                    new.next.scope.request, new.grants, new.next.offset)'
    <3>1. SUFFICES ASSUME new.steady, new.next # NoCursor
                   PROVE  Continues(new.page, createRetrievalConfig(new.next.scope.config, "active"),
                                    new.next.scope.request, new.grants, new.next.offset)'
      OBVIOUS
    <3>2. Continues(new.page, createRetrievalConfig(new.next.scope.config, "active"),
                    new.next.scope.request, new.grants, new.next.offset)
      BY <1>15, <2>1, <3>1
    <3>3. \A shown, config, request, g, offset :
            Continues(shown, config, request, g, offset)' = Continues(shown, config, request, g, offset)
      BY <1>4, SameIndex
    <3>. QED  BY <3>2, <3>3
  <2>4. DOMAIN new = AnswerFields /\ (new.next # NoCursor =>
          new.next.offset \in Nat \ {0} /\ new.next.scope.version = new.version)
    BY <1>13, <1>14
  <2>. QED  BY <1>11, <2>2, <2>3, <2>4 DEF AnswerOK, SoFar
<1>17. SearchOK'
  BY <1>11, <1>13 DEF SearchOK
<1>. QED  BY <1>4, <1>16, <1>17, QuietKeeps

\* A search begins: a fresh one forgets the pages, a continued one has an accepted cursor.
LEMMA SearchKeeps ==
  ASSUME RankInv, LinksInv, NEW r \in SearchRequests, NEW continued \in BOOLEAN, Search(r, continued)
  PROVE  RankInv'
<1>1. PICK new :
        /\ call' = new
        /\ new = [pc |-> "embed", request |-> r, scope |-> evidenceCursorScope(r),
                  config |-> deployed, grants |-> grants, version |-> version,
                  offset |-> IF continued THEN cursor.offset ELSE 0,
                  expected |-> ReadableRows(r), steady |-> TRUE,
                  found |-> {}, vector |-> FALSE, signed |-> {}, live |-> {}]
  BY DEF Search
<1>2. UNCHANGED <<blocks, points, rows, status, attempt, deployed, version, grants, cursor>>
  BY DEF Search, CallsOnly
<1>3. /\ DOMAIN new = SearchFields /\ new.pc = "embed" /\ new.request = r /\ new.version = version
      /\ new.config = deployed /\ new.grants = grants /\ new.scope = evidenceCursorScope(r)
      /\ new.offset = IF continued THEN cursor.offset ELSE 0
      /\ new.expected = ReadableRows(r)
  BY <1>1 DEF SearchFields
<1>4. r.limit \in Nat \ {0}
  BY EvidenceAssumption DEF Search, validateEvidenceSearchBody
<1>5. new.scope = [request |-> r, version |-> version, config |-> deployed.version]
  BY <1>3 DEF evidenceCursorScope
<1>6. new.expected = ReadableTo(deployed, r, grants)
  BY <1>3 DEF ReadableRows, ReadableTo
<1>7. continued =>
        /\ cursor # NoCursor /\ cursor.offset \in Nat
        /\ cursor.scope = [request |-> r, version |-> version, config |-> deployed.version]
        /\ chain.steady => Continues(chain, deployed, r, grants, cursor.offset)
  <2>1. SUFFICES ASSUME continued
                 PROVE  /\ cursor # NoCursor /\ cursor.offset \in Nat
                        /\ cursor.scope = [request |-> r, version |-> version, config |-> deployed.version]
                        /\ chain.steady => Continues(chain, deployed, r, grants, cursor.offset)
    OBVIOUS
  <2>2. cursor # NoCursor /\ cursor.scope = [request |-> r, version |-> version, config |-> deployed.version]
    BY <2>1 DEF Search, decodeEvidenceCursor, evidenceCursorScope
  <2>3. /\ cursor.scope.version = version /\ cursor.scope.request = r
        /\ createRetrievalConfig(cursor.scope.config, "active") = deployed
    BY <2>2 DEF RankInv
  <2>. QED  BY <2>2, <2>3 DEF RankInv, CursorOK
<1>8. chain' = IF continued THEN chain ELSE NoPages
  BY DEF Search
<1>9. SearchOK'
  <2>1. new.offset # 0 /\ chain'.steady => Continues(chain', deployed, r, grants, new.offset)
    BY <1>3, <1>7, <1>8
  <2>2. new.offset \in Nat
    BY <1>3, <1>7
  <2>3. deployed = createRetrievalConfig(deployed.version, "active")
    BY DEF RankInv
  <2>. QED  BY <1>1, <1>2, <1>3, <1>4, <1>5, <1>6, <2>1, <2>2, <2>3, SameIndex DEF SearchOK
<1>10. AnswerOK'
  BY <1>1, <1>3 DEF AnswerOK
<1>11. AttemptsOK'
  BY <1>2 DEF RankInv, AttemptsOK, PointsOf, ChunksOf
<1>12. CASE chain' = chain
  BY <1>2, <1>9, <1>10, <1>12, QuietKeeps
<1>13. CASE chain' = NoPages
  <2>1. ~chain'.steady
    BY <1>13 DEF NoPages
  <2>2. PagesAreOneRanking' /\ CursorOK'
    BY <1>2, <2>1 DEF PagesAreOneRanking, CursorOK, RankInv
  <2>. QED  BY <1>2, <1>9, <1>10, <1>11, <2>2, SameIndex DEF RankInv
<1>. QED  BY <1>8, <1>12, <1>13

LEMMA HybridKeeps ==
  ASSUME RankInv, LinksInv, HybridSearch
  PROVE  RankInv'
<1>1. PICK old : old = call
  OBVIOUS
<1>2. PICK vector \in EmbedTexts :
        LET match == {p \in points : qdrantPayloadFilter(p)}
            best  == {p \in match : Cardinality({q \in match : Hybrid(Key(q)) > Hybrid(Key(p))}) < CandidateWindow}
        IN  call' = [old EXCEPT !.pc = "revalidate", !.vector = vector,
                                !.found = IF vector THEN best ELSE {}]
  BY <1>1 DEF HybridSearch
<1>3. {p \in points : qdrantPayloadFilter(p)} = MatchingPoints(old.config, old.request)
  BY <1>1 DEF qdrantPayloadFilter, MatchingPoints
<1>4. PICK new :
        /\ call' = new
        /\ new = [old EXCEPT !.pc = "revalidate", !.vector = vector,
                             !.found = IF vector THEN Best(old.config, old.request) ELSE {}]
  BY <1>2, <1>3 DEF Best
<1>5. PICK found : found = IF vector THEN Best(old.config, old.request) ELSE {}
  OBVIOUS
<1>6. /\ old.pc = "embed" /\ DOMAIN old = SearchFields
      /\ UNCHANGED <<blocks, points, rows, status, attempt, deployed, version, grants, cursor, chain>>
  BY <1>1 DEF HybridSearch, CallsOnly, RankInv, SearchOK
<1>7. new = [old EXCEPT !.pc = "revalidate", !.vector = vector, !.found = found]
  BY <1>4, <1>5
<1>8. /\ DOMAIN new = SearchFields /\ new.pc = "revalidate" /\ new.vector = vector /\ new.found = found
      /\ new.request = old.request /\ new.scope = old.scope /\ new.config = old.config
      /\ new.version = old.version /\ new.grants = old.grants /\ new.offset = old.offset
      /\ new.expected = old.expected /\ new.steady = old.steady
  BY <1>6, <1>7 DEF SearchFields
<1>9. /\ old.request.limit \in Nat \ {0}
      /\ old.scope = [request |-> old.request, version |-> old.version, config |-> old.config.version]
      /\ old.config = createRetrievalConfig(old.config.version, "active")
      /\ old.offset \in Nat
      /\ old.offset # 0 /\ chain.steady =>
           Continues(chain, old.config, old.request, old.grants, old.offset)
      /\ old.steady => old.expected = ReadableTo(old.config, old.request, old.grants)
  BY <1>1, <1>6 DEF RankInv, SearchOK
<1>10. SearchOK'
  BY <1>4, <1>5, <1>6, <1>8, <1>9, SameIndex DEF SearchOK
<1>11. AnswerOK'
  BY <1>4, <1>8 DEF AnswerOK
<1>. QED  BY <1>6, <1>10, <1>11, QuietKeeps

\* Steps that leave the index, the call and the chain alone.
LEMMA CallKept ==
  ASSUME RankInv, UNCHANGED <<blocks, points, rows, status, call, chain>>
  PROVE  PointsOK' /\ SearchOK' /\ AnswerOK' /\ PagesAreOneRanking'
<1>1. SearchOK'
  BY SameIndex DEF RankInv, SearchOK
<1>2. AnswerOK'
  BY SameIndex DEF RankInv, AnswerOK, SoFar, Explicit
<1>3. PagesAreOneRanking'
  BY DEF RankInv, PagesAreOneRanking
<1>. QED  BY <1>1, <1>2, <1>3, SameIndex DEF RankInv

\* The points of a document are finitely many and well formed.
LEMMA PointsOfADocument ==
  ASSUME NEW d \in Docs, NEW c, WithinLimits(d)
  PROVE  /\ IsFiniteSet(PointsOf(d, c))
         /\ \A p \in PointsOf(d, c) :
              p = <<p[1], p[2], p[3]>> /\ p[1] \in Docs /\ p[2] \in 1..MaxChunksPerDocument
<1>1. PICK I : I = DOMAIN ChunksOf(d)
  OBVIOUS
<1>2. I \subseteq 1..MaxChunksPerDocument
  BY <1>1 DEF WithinLimits
<1>3. IsFiniteSet(1..MaxChunksPerDocument)
  BY EvidenceAssumption, FS_Interval
<1>4. IsFiniteSet(I)
  BY <1>2, <1>3, FS_Subset
<1>5. PICK T : T = {<<d, i, c>> : i \in I}
  OBVIOUS
<1>6. PICK f : f = [i \in I |-> <<d, i, c>>]
  OBVIOUS
<1>7. f \in Surjection(I, T)
  BY <1>5, <1>6 DEF Surjection
<1>8. IsFiniteSet(T)
  BY <1>4, <1>7, FS_Surjection
<1>9. T = PointsOf(d, c)
  BY <1>1, <1>5 DEF PointsOf
<1>10. \A p \in T : p = <<p[1], p[2], p[3]>> /\ p[1] \in Docs /\ p[2] \in 1..MaxChunksPerDocument
  BY <1>2, <1>5
<1>. QED  BY <1>8, <1>9, <1>10

LEMMA IndexKeeps ==
  ASSUME RankInv, LinksInv, NEW d \in Docs, NEW c \in Configs, IndexPoints(d, c)
  PROVE  RankInv'
<1>1. /\ UNCHANGED <<blocks, rows, cursor, version, deployed>> /\ InFlight /\ Disturbed
      /\ points' = points \cup PointsOf(d, c) /\ attempt' = [attempt EXCEPT ![d] = c]
      /\ WithinLimits(d)
  BY DEF IndexPoints, IndexOnly
<1>2. PointsOK'
  <2>1. PICK T : T = PointsOf(d, c)
    OBVIOUS
  <2>2. /\ IsFiniteSet(T)
        /\ \A p \in T : p = <<p[1], p[2], p[3]>> /\ p[1] \in Docs /\ p[2] \in 1..MaxChunksPerDocument
    BY <1>1, <2>1, PointsOfADocument
  <2>3. IsFiniteSet(points \cup T)
    BY <2>2, FS_Union DEF RankInv, PointsOK
  <2>. QED  BY <1>1, <2>1, <2>2, <2>3 DEF RankInv, PointsOK
<1>3. AttemptsOK'
  <2>1. \A e, x : PointsOf(e, x)' = PointsOf(e, x)
    BY <1>1 DEF PointsOf, ChunksOf
  <2>. QED  BY <1>1, <2>1 DEF RankInv, AttemptsOK
<1>. QED  BY <1>1, <1>2, <1>3, DisturbedKeeps

LEMMA CompleteKeeps ==
  ASSUME RankInv, LinksInv, NEW d \in Docs, CompleteIndexing(d)
  PROVE  RankInv'
<1>1. /\ UNCHANGED <<blocks, points, cursor, version, deployed>> /\ InFlight /\ Disturbed
      /\ attempt' = [attempt EXCEPT ![d] = Unset]
      /\ rows' = rows \/ rows' = rows \cup PointsOf(d, attempt[d])
      /\ attempt[d] # Unset
  BY DEF CompleteIndexing, IndexOnly
<1>2. PointsOf(d, attempt[d]) \subseteq points
  BY <1>1 DEF RankInv, AttemptsOK
<1>3. PointsOK'
  BY <1>1, <1>2 DEF RankInv, PointsOK
<1>4. AttemptsOK'
  <2>1. \A e, x : PointsOf(e, x)' = PointsOf(e, x)
    BY <1>1 DEF PointsOf, ChunksOf
  <2>. QED  BY <1>1, <2>1 DEF RankInv, AttemptsOK
<1>. QED  BY <1>1, <1>3, <1>4, DisturbedKeeps

LEMMA ArchiveKeeps ==
  ASSUME RankInv, LinksInv, NEW d \in Docs, ArchiveEvidence(d)
  PROVE  RankInv'
<1>1. UNCHANGED <<blocks, points, rows, attempt, cursor, version, deployed>> /\ InFlight /\ Disturbed
  BY DEF ArchiveEvidence
<1>2. PointsOK' /\ AttemptsOK'
  BY <1>1 DEF RankInv, PointsOK, AttemptsOK, PointsOf, ChunksOf
<1>. QED  BY <1>1, <1>2, DisturbedKeeps

LEMMA AttemptFailsKeeps ==
  ASSUME RankInv, NEW d \in Docs, AttemptFails(d)
  PROVE  RankInv'
<1>1. /\ UNCHANGED <<blocks, status, points, rows, grants, version, deployed, call, cursor, chain>>
      /\ attempt' = [attempt EXCEPT ![d] = Unset]
  BY DEF AttemptFails
<1>2. AttemptsOK'
  <2>1. \A e, x : PointsOf(e, x)' = PointsOf(e, x)
    BY <1>1 DEF PointsOf, ChunksOf
  <2>. QED  BY <1>1, <2>1 DEF RankInv, AttemptsOK
<1>3. CursorOK'
  BY <1>1, SameIndex DEF RankInv, CursorOK
<1>. QED  BY <1>1, <1>2, <1>3, CallKept DEF RankInv

\* Other permissions have another version, which no cursor names yet.
LEMMA RegrantKeeps ==
  ASSUME RankInv, LinksInv, NEW g, Regrant(g)
  PROVE  RankInv'
<1>1. /\ UNCHANGED <<blocks, status, attempt, points, rows, deployed, call, cursor, chain>>
      /\ version' = version + 1
  BY DEF Regrant
<1>2. AttemptsOK'
  BY <1>1 DEF RankInv, AttemptsOK, PointsOf, ChunksOf
<1>3. CursorOK'
  <2>1. SUFFICES ASSUME cursor # NoCursor
                 PROVE  /\ cursor.offset \in Nat \ {0}
                        /\ cursor.scope.version \in Nat /\ cursor.scope.version <= version'
                        /\ cursor.scope.version # version'
    BY <1>1 DEF CursorOK
  <2>2. /\ cursor.offset \in Nat \ {0}
        /\ cursor.scope.version \in Nat /\ cursor.scope.version <= version
    BY <2>1 DEF RankInv, CursorOK
  <2>3. version \in Nat
    BY DEF LinksInv
  <2>. QED  BY <1>1, <2>2, <2>3
<1>. QED  BY <1>1, <1>2, <1>3, CallKept DEF RankInv

\* The configuration an API starts with is an active one.
LEMMA DeployedIsActive ==
  ASSUME NEW v, NEW c \in loadActiveRetrievalConfig(buildRetrievalConfigSeed(v))
  PROVE  c = createRetrievalConfig(c.version, "active")
<1>1. c \in buildRetrievalConfigSeed(v) /\ c.status = "active"
  BY DEF loadActiveRetrievalConfig
<1>2. \A w, state : /\ createRetrievalConfig(w, state).status = state
                    /\ createRetrievalConfig(w, state).version = w
  BY DEF createRetrievalConfig
<1>3. c = createRetrievalConfig(v, "active")
  BY <1>1, <1>2 DEF buildRetrievalConfigSeed
<1>. QED  BY <1>2, <1>3

LEMMA RedeployKeeps ==
  ASSUME RankInv, NEW v, Redeploy(v)
  PROVE  RankInv'
<1>1. UNCHANGED <<blocks, status, attempt, points, rows, grants, version, call, cursor, chain>>
  BY DEF Redeploy
<1>2. (deployed = createRetrievalConfig(deployed.version, "active"))'
  <2>1. deployed' \in loadActiveRetrievalConfig(buildRetrievalConfigSeed(v))
    BY DEF Redeploy
  <2>. QED  BY <2>1, DeployedIsActive
<1>3. AttemptsOK'
  BY <1>1 DEF RankInv, AttemptsOK, PointsOf, ChunksOf
<1>4. CursorOK'
  BY <1>1, SameIndex DEF RankInv, CursorOK
<1>. QED  BY <1>1, <1>2, <1>3, <1>4, CallKept DEF RankInv

\* Calls end, and links are asked for by name or signed for the page of an answer.
LEMMA ExpiryKeeps ==
  ASSUME RankInv, CursorExpires
  PROVE  RankInv'
<1>1. /\ UNCHANGED <<blocks, status, attempt, points, rows, grants, version, deployed, call, chain>>
      /\ cursor' = NoCursor
  BY DEF CursorExpires, CallsOnly
<1>2. AttemptsOK'
  BY <1>1 DEF RankInv, AttemptsOK, PointsOf, ChunksOf
<1>3. CursorOK'
  BY <1>1 DEF CursorOK
<1>. QED  BY <1>1, <1>2, <1>3, CallKept DEF RankInv

LEMMA FailureKeeps ==
  ASSUME RankInv, CallFails
  PROVE  RankInv'
<1>1. UNCHANGED <<blocks, status, attempt, points, rows, grants, version, deployed, cursor, chain>>
  BY DEF CallFails, CallsOnly
<1>2. SearchOK' /\ AnswerOK'
  BY DEF CallFails, Idle, SearchOK, AnswerOK
<1>. QED  BY <1>1, <1>2, QuietKeeps

LEMMA SourceKeeps ==
  ASSUME RankInv, NEW d, RequestSource(d)
  PROVE  RankInv'
<1>1. UNCHANGED <<blocks, status, attempt, points, rows, grants, version, deployed, cursor, chain>>
  BY DEF RequestSource, CallsOnly
<1>2. call'.pc = "sources" /\ "explicit" \in DOMAIN call'
  BY DEF RequestSource
<1>3. SearchOK' /\ AnswerOK'
  BY <1>2 DEF SearchOK, AnswerOK, Explicit
<1>. QED  BY <1>1, <1>3, QuietKeeps

\* What an answer holds of its page stays with it while its links are signed and recorded.
LEMMA AnswerMoves ==
  ASSUME RankInv, LinksInv, call.pc \in {"sources", "record", "count"},
         NEW pc \in {"record", "count", "respond"}, NEW signed, NEW live, pc = "respond" => ~Explicit,
         call' = [call EXCEPT !.pc = pc, !.signed = signed, !.live = live],
         UNCHANGED <<blocks, status, attempt, points, rows, grants, version, deployed, cursor, chain>>
  PROVE  RankInv'
<1>1. PICK old : old = call
  OBVIOUS
<1>2. PICK new : call' = new /\ new = [old EXCEPT !.pc = pc, !.signed = signed, !.live = live]
  BY <1>1
<1>3. /\ DOMAIN new = DOMAIN old
      /\ "pc" \in DOMAIN old => new.pc = pc
      /\ \A f \in DOMAIN old \ {"pc", "signed", "live"} : new[f] = old[f]
  BY <1>2
<1>4. new.pc = pc
  BY <1>1, <1>3 DEF LinksInv
<1>5. SearchOK'
  BY <1>2, <1>4 DEF SearchOK
<1>6. AnswerOK'
  <2>1. CASE Explicit
    BY <1>1, <1>2, <1>3, <1>4, <2>1 DEF AnswerOK, Explicit
  <2>2. CASE ~Explicit
    <3>1. /\ DOMAIN old = AnswerFields
          /\ old.next # NoCursor => old.next.offset \in Nat \ {0} /\ old.next.scope.version = old.version
          /\ old.steady => SoFar(old.page)
          /\ old.steady /\ old.next # NoCursor =>
               Continues(old.page, createRetrievalConfig(old.next.scope.config, "active"),
                         old.next.scope.request, old.grants, old.next.offset)
      BY <1>1, <2>2 DEF RankInv, AnswerOK
    <3>2. /\ new.next = old.next /\ new.version = old.version /\ new.steady = old.steady
          /\ new.page = old.page /\ new.grants = old.grants
      BY <1>3, <3>1 DEF AnswerFields
    <3>3. \A shown, config, request, g, offset :
            Continues(shown, config, request, g, offset)' = Continues(shown, config, request, g, offset)
      BY SameIndex
    <3>4. new.steady => SoFar(new.page)
      BY <3>1, <3>2
    <3>5. DOMAIN new = AnswerFields /\ (new.next # NoCursor =>
            new.next.offset \in Nat \ {0} /\ new.next.scope.version = new.version)
      BY <1>3, <3>1, <3>2
    <3>6. new.steady /\ new.next # NoCursor =>
            Continues(new.page, createRetrievalConfig(new.next.scope.config, "active"),
                      new.next.scope.request, new.grants, new.next.offset)'
      BY <3>1, <3>2, <3>3
    <3>. QED  BY <1>2, <3>4, <3>5, <3>6 DEF AnswerOK, SoFar
  <2>. QED  BY <2>1, <2>2
<1>. QED  BY <1>5, <1>6, QuietKeeps

LEMMA IssueKeeps ==
  ASSUME RankInv, LinksInv, IssueMany
  PROVE  RankInv'
<1>1. PICK signed : call' = [call EXCEPT !.pc = "record", !.signed = signed]
  BY DEF IssueMany
<1>2. /\ UNCHANGED <<blocks, status, attempt, points, rows, grants, version, deployed, cursor, chain>>
      /\ call.pc = "sources"
  BY DEF IssueMany, CallsOnly
<1>3. PICK live : live = call.live
  OBVIOUS
<1>4. call' = [call EXCEPT !.pc = "record", !.signed = signed, !.live = live]
  BY <1>1, <1>2, <1>3 DEF LinksInv, SnapshotOK
<1>. QED  BY <1>2, <1>4, AnswerMoves

LEMMA BeginKeeps ==
  ASSUME RankInv, LinksInv, BeginRecording
  PROVE  RankInv'
<1>1. PICK live : call' = [call EXCEPT !.pc = "count", !.live = live]
  BY DEF BeginRecording
<1>2. /\ UNCHANGED <<blocks, status, attempt, points, rows, grants, version, deployed, cursor, chain>>
      /\ call.pc = "record"
  BY DEF BeginRecording, CallsOnly
<1>3. PICK signed : signed = call.signed
  OBVIOUS
<1>4. call' = [call EXCEPT !.pc = "count", !.signed = signed, !.live = live]
  BY <1>1, <1>2, <1>3 DEF LinksInv, SnapshotOK
<1>. QED  BY <1>2, <1>4, AnswerMoves

LEMMA RecordKeeps ==
  ASSUME RankInv, LinksInv, VersionMoved \/ RecordDownloads
  PROVE  RankInv'
<1>1. /\ UNCHANGED <<blocks, status, attempt, points, rows, grants, version, deployed, cursor, chain>>
      /\ call.pc \in {"record", "count"}
      /\ call' = IF Explicit THEN Idle ELSE [call EXCEPT !.pc = "respond"]
  BY DEF VersionMoved, RecordDownloads, Recorded, CallsOnly
<1>2. CASE Explicit
  <2>1. call' = Idle
    BY <1>1, <1>2
  <2>2. SearchOK' /\ AnswerOK'
    BY <2>1 DEF Idle, SearchOK, AnswerOK
  <2>. QED  BY <1>1, <2>2, QuietKeeps
<1>3. CASE ~Explicit
  <2>1. call' = [call EXCEPT !.pc = "respond"]
    BY <1>1, <1>3
  <2>2. PICK signed, live : signed = call.signed /\ live = call.live
    OBVIOUS
  <2>3. call' = [call EXCEPT !.pc = "respond", !.signed = signed, !.live = live]
    BY <1>1, <2>1, <2>2 DEF LinksInv, SnapshotOK
  <2>. QED  BY <1>1, <1>3, <2>3, AnswerMoves
<1>. QED  BY <1>2, <1>3

\* The answer reaches the caller: its cursor continues its page as long as the caller's
\* permissions are those the search began with.
LEMMA RespondKeeps ==
  ASSUME RankInv, LinksInv, Respond
  PROVE  RankInv'
<1>1. /\ UNCHANGED <<blocks, status, attempt, points, rows, grants, version, deployed>>
      /\ call.pc = "respond" /\ call' = Idle /\ cursor' = call.next
      /\ chain' = IF call.steady THEN call.page ELSE NoPages
  BY DEF Respond, CallsOnly
<1>2. /\ call.next # NoCursor => call.next.offset \in Nat \ {0} /\ call.next.scope.version = call.version
      /\ call.steady => SoFar(call.page)
      /\ call.steady /\ call.next # NoCursor =>
           Continues(call.page, createRetrievalConfig(call.next.scope.config, "active"),
                     call.next.scope.request, call.grants, call.next.offset)
  BY <1>1 DEF RankInv, AnswerOK
<1>3. /\ call.version \in Nat /\ call.version <= version
      /\ call.version = version => call.grants = grants
  BY <1>1 DEF LinksInv, SnapshotOK
<1>4. chain'.steady => call.steady /\ chain' = call.page
  BY <1>1 DEF NoPages
<1>5. PagesAreOneRanking'
  <2>1. CASE chain'.steady
    <3>1. SoFar(chain')
      BY <1>2, <1>4, <2>1
    <3>. QED  BY <3>1 DEF SoFar, PagesAreOneRanking
  <2>. QED  BY <2>1 DEF PagesAreOneRanking
<1>6. CursorOK'
  <2>1. PICK next : next = call.next
    OBVIOUS
  <2>2. chain'.steady /\ next # NoCursor /\ next.scope.version = version =>
          Continues(chain', createRetrievalConfig(next.scope.config, "active"), next.scope.request,
                    grants, next.offset)
    BY <1>2, <1>3, <1>4, <2>1
  <2>3. \A shown, config, request, g, offset :
          Continues(shown, config, request, g, offset)' = Continues(shown, config, request, g, offset)
    BY <1>1, SameIndex
  <2>4. PICK shown : shown = chain'
    OBVIOUS
  <2>5. PICK g : g = grants
    OBVIOUS
  <2>6. shown.steady /\ next # NoCursor /\ next.scope.version = version =>
          Continues(shown, createRetrievalConfig(next.scope.config, "active"), next.scope.request,
                    g, next.offset)'
    BY <2>2, <2>3, <2>4, <2>5
  <2>7. grants' = g /\ chain' = shown /\ cursor' = next /\ version' = version
    BY <1>1, <2>1, <2>4, <2>5
  <2>8. next # NoCursor =>
          /\ next.offset \in Nat \ {0} /\ next.scope.version \in Nat /\ next.scope.version <= version
    BY <1>2, <1>3, <2>1
  <2>. QED  BY <2>6, <2>7, <2>8 DEF CursorOK
<1>7. SearchOK' /\ AnswerOK'
  BY <1>1 DEF Idle, SearchOK, AnswerOK
<1>8. AttemptsOK'
  BY <1>1 DEF RankInv, AttemptsOK, PointsOf, ChunksOf
<1>. QED  BY <1>1, <1>5, <1>6, <1>7, <1>8, SameIndex DEF RankInv

LEMMA RankStep == RankInv /\ LinksInv /\ [EvidenceNext]_evidenceVars => RankInv'
<1>. SUFFICES ASSUME RankInv, LinksInv, [EvidenceNext]_evidenceVars
              PROVE  RankInv'
  OBVIOUS
<1>1. ASSUME NEW d \in Docs, NEW c \in Configs, IndexPoints(d, c)
      PROVE  RankInv'
  BY <1>1, IndexKeeps
<1>2. ASSUME NEW d \in Docs, CompleteIndexing(d) \/ AttemptFails(d) \/ ArchiveEvidence(d) \/ RequestSource(d)
      PROVE  RankInv'
  BY <1>2, CompleteKeeps, AttemptFailsKeeps, ArchiveKeeps, SourceKeeps
<1>3. ASSUME NEW g \in AccessGrants, Regrant(g)
      PROVE  RankInv'
  BY <1>3, RegrantKeeps
<1>4. ASSUME NEW c \in Configs, Redeploy(c)
      PROVE  RankInv'
  BY <1>4, RedeployKeeps
<1>5. ASSUME NEW r \in SearchRequests, NEW continued \in BOOLEAN, Search(r, continued)
      PROVE  RankInv'
  BY <1>5, SearchKeeps
<1>6. ASSUME \/ CursorExpires \/ CallFails \/ HybridSearch \/ RevalidateAndRank
             \/ IssueMany \/ BeginRecording \/ VersionMoved \/ RecordDownloads \/ Respond
      PROVE  RankInv'
  BY <1>6, ExpiryKeeps, FailureKeeps, HybridKeeps, RevalidateKeeps, IssueKeeps, BeginKeeps, RecordKeeps,
     RespondKeeps
<1>7. ASSUME UNCHANGED evidenceVars
      PROVE  RankInv'
  <2>1. UNCHANGED <<blocks, points, rows, status, attempt, deployed, version, grants, cursor, chain, call>>
    BY <1>7 DEF evidenceVars
  <2>. QED  BY <2>1, CallKept, QuietKeeps
<1>. QED  BY <1>1, <1>2, <1>3, <1>4, <1>5, <1>6, <1>7 DEF EvidenceNext

LEMMA RankBegins == EvidenceInit => RankInv
<1>. SUFFICES ASSUME EvidenceInit
              PROVE  RankInv
  OBVIOUS
<1>1. PointsOK /\ AttemptsOK
  BY FS_EmptySet DEF EvidenceInit, PointsOK, AttemptsOK
<1>2. deployed = createRetrievalConfig(deployed.version, "active")
  BY DeployedIsActive DEF EvidenceInit
<1>3. CursorOK /\ SearchOK /\ AnswerOK
  BY DEF EvidenceInit, CursorOK, SearchOK, AnswerOK, Idle
<1>4. PagesAreOneRanking
  BY DEF EvidenceInit, PagesAreOneRanking, NoPages
<1>. QED  BY <1>1, <1>2, <1>3, <1>4 DEF RankInv

\* The pages of a search are parts of one ranking of what its reader may read, whatever
\* searches, grants, configurations, indexing and faults lie between them: what could
\* change the ranking ends the cursor, or is known to have disturbed it (searchEvidence,
\* the cursor's scope, revalidation).
THEOREM RankingsStayOne == EvidenceSpec => []PagesAreOneRanking
<1>1. EvidenceInit => RankInv /\ LinksInv
  BY RankBegins DEF EvidenceInit, LinksInv, SnapshotOK, Idle
<1>2. RankInv /\ LinksInv /\ [EvidenceNext]_evidenceVars => RankInv' /\ LinksInv'
  BY RankStep, LinksStep
<1>3. RankInv => PagesAreOneRanking
  BY DEF RankInv
<1>. QED  BY <1>1, <1>2, <1>3, PTL DEF EvidenceSpec

(***************************************************************************)
(* Lexicographic order: by the first place where two different keys of     *)
(* numbers differ.                                                         *)
(***************************************************************************)
FirstLess(key, n, x, y) ==
    \E i \in 1..n : key[x][i] < key[y][i] /\ \A j \in 1..(i - 1) : key[x][j] = key[y][j]

LEMMA LexicographicOrder ==
    ASSUME NEW T, NEW n \in Nat, NEW key \in [T -> [1..n -> Int]],
           \A x, y \in T : key[x] = key[y] => x = y,
           NEW R, \A x, y \in T : <<x, y>> \in R <=> FirstLess(key, n, x, y)
    PROVE  IsStrictOrder(T, R)
<1>1. \A x \in T : key[x] \in [1..n -> Int] /\ \A i \in 1..n : key[x][i] \in Int
  OBVIOUS
<1>2. \A x \in T : <<x, x>> \notin R
  BY <1>1 DEF FirstLess
<1>3. ASSUME NEW x \in T, NEW y \in T, x # y
      PROVE  <<x, y>> \in R \/ <<y, x>> \in R
  <2>1. PICK D : D = {i \in 1..n : key[x][i] # key[y][i]}
    OBVIOUS
  <2>2. D # {}
    <3>1. key[x] # key[y]
      BY <1>3
    <3>2. \E i \in 1..n : key[x][i] # key[y][i]
      BY <1>1, <3>1
    <3>. QED  BY <2>1, <3>2
  <2>3. PICK i \in D : \A m \in D : i <= m
    <3>1. D \in SUBSET Nat
      BY <2>1
    <3>. QED  BY <2>2, <3>1, LeastNumber
  <2>4. \A j \in 1..(i - 1) : key[x][j] = key[y][j]
    <3>1. i \in 1..n
      BY <2>1
    <3>2. \A j \in 1..(i - 1) : j \in 1..n /\ ~(i <= j)
      BY <3>1
    <3>. QED  BY <2>1, <2>3, <3>2
  <2>5. i \in 1..n /\ key[x][i] # key[y][i] /\ key[x][i] \in Int /\ key[y][i] \in Int
    BY <1>1, <2>1
  <2>6. CASE key[x][i] < key[y][i]
    BY <2>4, <2>5, <2>6 DEF FirstLess
  <2>7. CASE key[y][i] < key[x][i]
    BY <2>4, <2>5, <2>7 DEF FirstLess
  <2>. QED  BY <2>5, <2>6, <2>7
<1>4. ASSUME NEW x \in T, NEW y \in T, NEW z \in T, <<x, y>> \in R, <<y, z>> \in R
      PROVE  <<x, z>> \in R
  <2>1. PICK i \in 1..n : key[x][i] < key[y][i] /\ \A j \in 1..(i - 1) : key[x][j] = key[y][j]
    BY <1>4 DEF FirstLess
  <2>2. PICK k \in 1..n : key[y][k] < key[z][k] /\ \A j \in 1..(k - 1) : key[y][j] = key[z][j]
    BY <1>4 DEF FirstLess
  <2>3. PICK l : l = IF i <= k THEN i ELSE k
    OBVIOUS
  <2>4. l \in 1..n
    BY <2>3
  <2>5. key[x][l] < key[z][l]
    <3>1. key[x][l] \in Int /\ key[y][l] \in Int /\ key[z][l] \in Int
      BY <1>1, <2>4
    <3>2. CASE i < k
      <4>1. l = i /\ i \in 1..(k - 1)
        BY <2>3, <3>2
      <4>2. key[y][l] = key[z][l]
        BY <2>2, <4>1
      <4>. QED  BY <2>1, <3>1, <4>1, <4>2
    <3>3. CASE k < i
      <4>1. l = k /\ k \in 1..(i - 1)
        BY <2>3, <3>3
      <4>2. key[x][l] = key[y][l]
        BY <2>1, <4>1
      <4>. QED  BY <2>2, <3>1, <4>1, <4>2
    <3>4. CASE i = k
      <4>1. l = i /\ l = k
        BY <2>3, <3>4
      <4>. QED  BY <2>1, <2>2, <3>1, <4>1
    <3>. QED  BY <3>2, <3>3, <3>4
  <2>6. ASSUME NEW j \in 1..(l - 1)
        PROVE  key[x][j] = key[z][j]
    <3>1. j \in 1..(i - 1) /\ j \in 1..(k - 1)
      BY <2>3
    <3>. QED  BY <2>1, <2>2, <3>1
  <2>. QED  BY <2>4, <2>5, <2>6 DEF FirstLess
<1>. QED  BY <1>2, <1>3, <1>4 DEF IsStrictOrder

(***************************************************************************)
(* The list of a read.                                                     *)
(***************************************************************************)

\* The fields a request sorts and groups by are stored ones.
LEMMA StoredFields ==
    ASSUME NEW q, Accepts(q)
    PROVE  /\ \A f \in q.groupBy : f \in DOMAIN Fields /\ Fields[f].storage = "payload"
           /\ Mode(q) = "detail" =>
                \A i \in DOMAIN q.sort : q.sort[i] \in DOMAIN Fields /\ Fields[q.sort[i]].storage = "payload"
           /\ q.limit \in Nat \ {0}
<1>1. \A f : capabilities(f) # {} => Fields[f].storage = "payload"
  BY DEF capabilities
<1>2. \A f \in q.groupBy : f \in DOMAIN Fields /\ "group" \in capabilities(f)
  BY DEF Accepts, validateSelectedFields
<1>3. Mode(q) = "detail" =>
        \A i \in DOMAIN q.sort : q.sort[i] \in DOMAIN Fields /\ "sort" \in capabilities(q.sort[i])
  BY DEF Accepts, validateSort
<1>4. q.limit \in Nat \ {0}
  BY QueryAssumption DEF Accepts, normalizeQuery, normalizePage
<1>. QED  BY <1>1, <1>2, <1>3, <1>4

\* Rows in detail order: the requested fields, the row's number and its id decide.
LEMMA DetailIsStrict ==
    ASSUME NEW q \in QueryRequests, Accepts(q), Mode(q) = "detail", NEW T \in SUBSET StoredRows
    PROVE  IsStrictOrder(T, {p \in T \X T : Before(q, p[1], p[2])})
<1>1. PICK n : n = Len(q.sort)
  OBVIOUS
<1>2. n \in Nat /\ DOMAIN q.sort = 1..n
  BY <1>1, QueryAssumption, LenProperties
<1>3. \A r \in T : /\ r.number \in Int /\ r.id \in Int
                   /\ \A i \in 1..n : r[q.sort[i]] \in Int
  BY <1>2, StoredFields, QueryAssumption
<1>4. PICK key : key = [r \in T |-> [i \in 1..(n + 2) |-> IF i <= n THEN r[q.sort[i]]
                                                           ELSE IF i = n + 1 THEN r.number ELSE r.id]]
  OBVIOUS
<1>5. \A r \in T : /\ \A i \in 1..n : key[r][i] = r[q.sort[i]]
                   /\ key[r][n + 1] = r.number /\ key[r][n + 2] = r.id
  BY <1>2, <1>4
<1>6. key \in [T -> [1..(n + 2) -> Int]]
  BY <1>2, <1>3, <1>4
<1>7. \A x, y \in T : key[x] = key[y] => x = y
  BY <1>5, QueryAssumption
<1>8. ASSUME NEW x \in T, NEW y \in T
      PROVE  Before(q, x, y) <=> FirstLess(key, n + 2, x, y)
  <2>1. Before(q, x, y) <=>
          \/ \E i \in 1..n : key[x][i] < key[y][i] /\ \A j \in 1..(i - 1) : key[x][j] = key[y][j]
          \/ (\A i \in 1..n : key[x][i] = key[y][i]) /\ key[x][n + 1] < key[y][n + 1]
          \/ (\A i \in 1..n : key[x][i] = key[y][i]) /\ key[x][n + 1] = key[y][n + 1]
               /\ key[x][n + 2] < key[y][n + 2]
    <3>1. \A i \in 1..n : \A j \in 1..(i - 1) : j \in 1..n
      BY <1>2
    <3>2. PICK kx : kx = key[x]
      OBVIOUS
    <3>3. PICK ky : ky = key[y]
      OBVIOUS
    <3>4. \A i \in 1..n : x[q.sort[i]] = kx[i] /\ y[q.sort[i]] = ky[i]
      BY <1>5, <3>2, <3>3
    <3>5. x.number = kx[n + 1] /\ x.id = kx[n + 2] /\ y.number = ky[n + 1] /\ y.id = ky[n + 2]
      BY <1>5, <3>2, <3>3
    <3>6. (\A i \in DOMAIN q.sort : x[q.sort[i]] = y[q.sort[i]]) <=> \A i \in 1..n : kx[i] = ky[i]
      BY <1>2, <3>4
    <3>7. ASSUME NEW i \in 1..n
          PROVE  /\ x[q.sort[i]] < y[q.sort[i]] <=> kx[i] < ky[i]
                 /\ (\A j \in 1..(i - 1) : x[q.sort[j]] = y[q.sort[j]]) <=> \A j \in 1..(i - 1) : kx[j] = ky[j]
      BY <3>1, <3>4
    <3>8. (\E i \in DOMAIN q.sort : x[q.sort[i]] < y[q.sort[i]] /\ \A j \in 1..(i - 1) : x[q.sort[j]] = y[q.sort[j]])
            <=> \E i \in 1..n : kx[i] < ky[i] /\ \A j \in 1..(i - 1) : kx[j] = ky[j]
      BY <1>2, <3>7
    <3>. QED  BY <3>2, <3>3, <3>5, <3>6, <3>8 DEF Before
  <2>2. ASSUME Before(q, x, y)
        PROVE  FirstLess(key, n + 2, x, y)
    <3>1. CASE \E i \in 1..n : key[x][i] < key[y][i] /\ \A j \in 1..(i - 1) : key[x][j] = key[y][j]
      BY <1>2, <3>1 DEF FirstLess
    <3>2. CASE (\A i \in 1..n : key[x][i] = key[y][i]) /\ key[x][n + 1] < key[y][n + 1]
      <4>1. n + 1 \in 1..(n + 2) /\ 1..((n + 1) - 1) = 1..n
        BY <1>2
      <4>. QED  BY <3>2, <4>1 DEF FirstLess
    <3>3. CASE (\A i \in 1..n : key[x][i] = key[y][i]) /\ key[x][n + 1] = key[y][n + 1]
                 /\ key[x][n + 2] < key[y][n + 2]
      <4>1. n + 2 \in 1..(n + 2) /\ \A j \in 1..((n + 2) - 1) : j \in 1..n \/ j = n + 1
        BY <1>2
      <4>. QED  BY <3>3, <4>1 DEF FirstLess
    <3>. QED  BY <2>1, <2>2, <3>1, <3>2, <3>3
  <2>3. ASSUME FirstLess(key, n + 2, x, y)
        PROVE  Before(q, x, y)
    <3>1. PICK i \in 1..(n + 2) : key[x][i] < key[y][i] /\ \A j \in 1..(i - 1) : key[x][j] = key[y][j]
      BY <2>3 DEF FirstLess
    <3>2. CASE i \in 1..n
      BY <2>1, <3>1, <3>2
    <3>3. CASE i = n + 1
      <4>1. 1..(i - 1) = 1..n
        BY <1>2, <3>3
      <4>. QED  BY <2>1, <3>1, <3>3, <4>1
    <3>4. CASE i = n + 2
      <4>1. \A j \in 1..n : j \in 1..(i - 1)
        BY <1>2, <3>4
      <4>2. n + 1 \in 1..(i - 1)
        BY <1>2, <3>4
      <4>. QED  BY <2>1, <3>1, <3>4, <4>1, <4>2
    <3>. QED  BY <1>2, <3>2, <3>3, <3>4
  <2>. QED  BY <2>2, <2>3
<1>9. PICK R : R = {p \in T \X T : Before(q, p[1], p[2])}
  OBVIOUS
<1>10. \A x, y \in T : <<x, y>> \in R <=> FirstLess(key, n + 2, x, y)
  BY <1>8, <1>9
<1>11. n + 2 \in Nat
  BY <1>2
<1>12. IsStrictOrder(T, R)
  BY <1>6, <1>7, <1>10, <1>11, LexicographicOrder
<1>. QED  BY <1>9, <1>12

\* Groups that are told apart by their value are ordered by it.
LEMMA GroupsAreStrict ==
    ASSUME NEW q, Accepts(q), TotalOrder(q), Mode(q) # "detail", q.groupBy # {}, NEW found \in SUBSET StoredRows
    PROVE  /\ IsFiniteSet(Grouped(q, found))
           /\ IsStrictOrder(Grouped(q, found), {p \in Grouped(q, found) \X Grouped(q, found) :
                                                  GroupBefore(q, p[1], p[2])})
<1>1. PICK g : g = CHOOSE f \in q.groupBy : TRUE
  OBVIOUS
<1>2. g \in q.groupBy
  BY <1>1
<1>3. \A r \in found : r[g] \in Int
  BY <1>2, StoredFields, QueryAssumption
<1>4. PICK T : T = Grouped(q, found)
  OBVIOUS
<1>5. T = {[value |-> v, count |-> Cardinality({r \in found : r[g] = v})] : v \in {r[g] : r \in found}}
  BY <1>1, <1>4 DEF Grouped
<1>12. PICK N : N = [v \in {r[g] : r \in found} |-> Cardinality({r \in found : r[g] = v})]
  OBVIOUS
<1>13. ASSUME NEW x \in T
       PROVE  \E r \in found : x.value = r[g] /\ x = [value |-> r[g], count |-> N[r[g]]]
  <2>1. PICK v \in {r[g] : r \in found} : x = [value |-> v, count |-> Cardinality({r \in found : r[g] = v})]
    BY <1>5
  <2>2. PICK r \in found : v = r[g]
    OBVIOUS
  <2>3. x = [value |-> v, count |-> N[v]]
    BY <1>12, <2>1
  <2>. QED  BY <2>2, <2>3
<1>6. IsFiniteSet(T)
  <2>1. PICK f : f = [r \in found |-> [value |-> r[g], count |-> Cardinality({t \in found : t[g] = r[g]})]]
    OBVIOUS
  <2>2. /\ \A r \in found : f[r] \in T
        /\ \A x \in T : \E r \in found : f[r] = x
    BY <1>5, <2>1
  <2>3. f \in Surjection(found, T)
    BY <2>1, <2>2 DEF Surjection
  <2>4. IsFiniteSet(found)
    BY QueryAssumption, FS_Subset
  <2>. QED  BY <2>3, <2>4, FS_Surjection
<1>7. PICK R : R = {p \in T \X T : GroupBefore(q, p[1], p[2])}
  OBVIOUS
<1>8. \A x, y \in T : <<x, y>> \in R <=> x.value < y.value
  BY <1>7 DEF GroupBefore, TotalOrder
<1>9. \A x \in T : x.value \in Int
  BY <1>3, <1>13
<1>10. ASSUME NEW x \in T, NEW y \in T, x.value = y.value
       PROVE  x = y
  <2>1. PICK v, w : v = x.value /\ x = [value |-> v, count |-> N[v]] /\ w = y.value /\ y = [value |-> w, count |-> N[w]]
    BY <1>13
  <2>2. v = w
    BY <1>10, <2>1
  <2>. QED  BY <2>1, <2>2
<1>11. IsStrictOrder(T, R)
  <2>1. \A x \in T : <<x, x>> \notin R
    BY <1>8, <1>9
  <2>2. \A x, y \in T : x # y => <<x, y>> \in R \/ <<y, x>> \in R
    BY <1>8, <1>9, <1>10
  <2>3. \A x, y, z \in T : <<x, y>> \in R /\ <<y, z>> \in R => <<x, z>> \in R
    BY <1>8, <1>9
  <2>. QED  BY <2>1, <2>2, <2>3 DEF IsStrictOrder
<1>. QED  BY <1>4, <1>6, <1>7, <1>11

\* The items of a read are finitely many.
LEMMA ItemsFinite ==
    ASSUME NEW q, Accepts(q), NEW snapshot
    PROVE  IsFiniteSet(Items(q, snapshot))
<1>1. PICK found : found = Matching(q, snapshot)
  OBVIOUS
<1>2. found \in SUBSET StoredRows /\ IsFiniteSet(found)
  <2>1. found \subseteq StoredRows
    BY <1>1 DEF Matching, baseFromAndWhere, StoredRows
  <2>. QED  BY <2>1, QueryAssumption, FS_Subset
<1>3. CASE Mode(q) = "detail"
  BY <1>1, <1>2, <1>3 DEF Items
<1>4. CASE Mode(q) # "detail" /\ q.groupBy = {}
  BY <1>4, FS_Singleton DEF Items, Grouped
<1>5. CASE Mode(q) # "detail" /\ q.groupBy # {}
  <2>1. PICK g : g = CHOOSE f \in q.groupBy : TRUE
    OBVIOUS
  <2>2. PICK T : T = {[value |-> v, count |-> Cardinality({r \in found : r[g] = v})] : v \in {r[g] : r \in found}}
    OBVIOUS
  <2>3. Items(q, snapshot) = T
    BY <1>1, <1>5, <2>1, <2>2 DEF Items, Grouped
  <2>4. PICK f : f = [r \in found |-> [value |-> r[g], count |-> Cardinality({t \in found : t[g] = r[g]})]]
    OBVIOUS
  <2>5. /\ \A r \in found : f[r] \in T
        /\ \A x \in T : \E r \in found : f[r] = x
    BY <2>2, <2>4
  <2>6. f \in Surjection(found, T)
    BY <2>4, <2>5 DEF Surjection
  <2>. QED  BY <1>2, <2>3, <2>6, FS_Surjection
<1>. QED  BY <1>3, <1>4, <1>5

\* An order that decides every place leaves the database one list.
LEMMA OneList ==
    ASSUME NEW q \in QueryRequests, Accepts(q), TotalOrder(q), NEW snapshot,
           NEW s \in Lists(q, snapshot), NEW t \in Lists(q, snapshot)
    PROVE  s = t
<1>1. PICK T : T = Items(q, snapshot)
  OBVIOUS
<1>2. PICK n : n = Cardinality(T)
  OBVIOUS
<1>3. ASSUME NEW u \in Lists(q, snapshot)
      PROVE  /\ u \in [1..n -> T]
             /\ \A i, j \in 1..n : i # j => u[i] # u[j]
             /\ \A i, j \in 1..n : i < j => ~Ahead(q, u[j], u[i])
  <2>1. u \in SetToSeqs(T) /\ \A i, j \in DOMAIN u : i < j => ~Ahead(q, u[j], u[i])
    BY <1>1 DEF Lists
  <2>2. u \in [1..n -> T] /\ \A i, j \in 1..n : i # j => u[i] # u[j]
    BY <1>2, <2>1 DEF SetToSeqs
  <2>3. DOMAIN u = 1..n
    BY <2>2
  <2>. QED  BY <2>1, <2>2, <2>3
<1>4. Matching(q, snapshot) \in SUBSET StoredRows
  BY DEF Matching, baseFromAndWhere, StoredRows
<1>5. CASE Mode(q) # "detail" /\ q.groupBy = {}
  <2>1. PICK x : T = {x}
    BY <1>1, <1>5 DEF Items, Grouped
  <2>2. n = 1
    BY <1>2, <2>1, FS_Singleton
  <2>3. s \in [1..1 -> {x}] /\ t \in [1..1 -> {x}]
    BY <1>3, <2>1, <2>2
  <2>. QED  BY <2>3
<1>6. CASE Mode(q) = "detail" \/ q.groupBy # {}
  <2>1. PICK R : R = {p \in T \X T : Ahead(q, p[1], p[2])}
    OBVIOUS
  <2>2. IsFiniteSet(T) /\ IsStrictOrder(T, R)
    <3>1. CASE Mode(q) = "detail"
      <4>1. T = Matching(q, snapshot)
        BY <1>1, <3>1 DEF Items
      <4>2. IsFiniteSet(T)
        BY <1>4, <4>1, QueryAssumption, FS_Subset
      <4>3. IsStrictOrder(T, {p \in T \X T : Before(q, p[1], p[2])})
        BY <1>4, <3>1, <4>1, DetailIsStrict
      <4>4. R = {p \in T \X T : Before(q, p[1], p[2])}
        BY <2>1, <3>1 DEF Ahead
      <4>. QED  BY <4>2, <4>3, <4>4
    <3>2. CASE Mode(q) # "detail"
      <4>1. T = Grouped(q, Matching(q, snapshot))
        BY <1>1, <3>2 DEF Items
      <4>2. R = {p \in T \X T : GroupBefore(q, p[1], p[2])}
        BY <2>1, <3>2 DEF Ahead
      <4>. QED  BY <1>4, <1>6, <3>2, <4>1, <4>2, GroupsAreStrict
    <3>. QED  BY <3>1, <3>2
  <2>3. n \in Nat /\ IsFiniteSet(1..n) /\ Cardinality(1..n) = n
    <3>1. n \in Nat
      BY <1>2, <2>2, FS_CardinalityType
    <3>2. IsFiniteSet(1..n) /\ Cardinality(1..n) = IF 1 > n THEN 0 ELSE n - 1 + 1
      BY <3>1, FS_Interval
    <3>. QED  BY <3>1, <3>2
  <2>4. ASSUME NEW u \in Lists(q, snapshot)
        PROVE  u = InOrder(T, R)
    <3>1. u \in Injection(1..n, T)
      BY <1>3 DEF Injection, IsInjective
    <3>2. u \in Surjection(1..n, T)
      BY <1>2, <2>2, <2>3, <3>1, FS_Injection
    <3>3. \A x \in T : \E i \in 1..n : u[i] = x
      BY <3>2 DEF Surjection
    <3>4. \A i, j \in 1..n : i < j => u[i] # u[j] /\ <<u[j], u[i]>> \notin R
      <4>1. \A i, j \in 1..n : i < j => i # j
        BY <2>3
      <4>. QED  BY <1>3, <2>1, <4>1
    <3>. QED  BY <1>2, <1>3, <2>2, <3>3, <3>4, OnlyInOrder
  <2>. QED  BY <2>4
<1>. QED  BY <1>5, <1>6

\* A part of a list, by its values.
LEMMA PartOfAList ==
    ASSUME NEW S, NEW s, NEW a \in Int, NEW b \in Int, a <= b, \A i \in a..b : s[i] \in S
    PROVE  /\ SubSeq(s, a, b) \in Seq(S) /\ Len(SubSeq(s, a, b)) = b - a + 1
           /\ \A i \in 1..(b - a + 1) : SubSeq(s, a, b)[i] = s[a + i - 1]
<1>1. /\ SubSeq(s, a, b) \in Seq(S)
      /\ Len(SubSeq(s, a, b)) = IF a <= b THEN b - a + 1 ELSE 0
      /\ \A i \in 1..(b - a + 1) : SubSeq(s, a, b)[i] = s[a + i - 1]
  BY SubSeqProperties
<1>. QED  BY <1>1

\* What a statement fetches and what the page of it shows.
IsPage(list, offset, limit, last, fetched, size, visible) ==
    /\ last = IF Len(list) < offset + limit + 1 THEN Len(list) ELSE offset + limit + 1
    /\ fetched = SubSeq(list, offset + 1, last) /\ Len(fetched) > limit
    /\ size = IF Len(fetched) < limit THEN Len(fetched) ELSE limit
    /\ visible = SubSeq(fetched, 1, size)

\* A page that has a successor ends before the list does.
LEMMA PageAfter ==
    ASSUME NEW S, NEW list \in Seq(S), NEW offset \in 0..Len(list), NEW limit \in Nat \ {0},
           NEW last, NEW fetched, NEW size, NEW visible,
           IsPage(list, offset, limit, last, fetched, size, visible)
    PROVE  /\ Len(visible) = limit /\ offset + limit \in 0..Len(list)
           /\ SubSeq(list, 1, offset) \o visible = SubSeq(list, 1, offset + limit)
<1>1. PICK n : n = Len(list)
  OBVIOUS
<1>2. n \in Nat /\ offset \in 0..n /\ limit \in Nat \ {0} /\ \A i \in 1..n : list[i] \in S
  BY <1>1, LenProperties
<1>12. /\ last = IF Len(list) < offset + limit + 1 THEN Len(list) ELSE offset + limit + 1
       /\ fetched = SubSeq(list, offset + 1, last) /\ Len(fetched) > limit
       /\ size = IF Len(fetched) < limit THEN Len(fetched) ELSE limit
       /\ visible = SubSeq(fetched, 1, size)
  BY DEF IsPage
<1>3. last \in Int /\ last <= n /\ last >= offset
  BY <1>1, <1>2, <1>12
<1>4. PICK first : first = offset + 1
  OBVIOUS
<1>5. Len(fetched) = IF first <= last THEN last - first + 1 ELSE 0
  <2>1. first \in Int /\ \A i \in first..last : i \in 1..n
    BY <1>2, <1>3, <1>4
  <2>2. \A i \in first..last : list[i] \in S
    BY <1>2, <2>1
  <2>3. Len(SubSeq(list, first, last)) = IF first <= last THEN last - first + 1 ELSE 0
    BY <1>3, <2>1, <2>2, SubSeqProperties
  <2>. QED  BY <1>4, <1>12, <2>3
<1>6. last = offset + limit + 1 /\ last <= n /\ Len(fetched) = limit + 1 /\ size = limit
  BY <1>1, <1>2, <1>3, <1>4, <1>5, <1>12
<1>7. \A i \in 1..(limit + 1) : fetched[i] \in S /\ fetched[i] = list[offset + i]
  <2>1. first \in Int /\ first <= last /\ \A i \in first..last : i \in 1..n
    BY <1>2, <1>4, <1>6
  <2>2. \A i \in first..last : list[i] \in S
    BY <1>2, <2>1
  <2>3. \A i \in 1..(last - first + 1) : SubSeq(list, first, last)[i] = list[first + i - 1]
    BY <1>3, <2>1, <2>2, PartOfAList
  <2>4. \A i \in 1..(limit + 1) : /\ i \in 1..(last - first + 1) /\ first + i - 1 = offset + i
                                  /\ offset + i \in first..last
    BY <1>2, <1>4, <1>6
  <2>. QED  BY <1>4, <1>12, <2>2, <2>3, <2>4
<1>8. /\ visible \in Seq(S) /\ Len(visible) = limit
      /\ \A i \in 1..limit : visible[i] = list[offset + i]
  <2>1. PICK a, b : a = 1 /\ b = limit
    OBVIOUS
  <2>2. a \in Int /\ b \in Int /\ a <= b /\ \A i \in a..b : i \in 1..(limit + 1)
    BY <1>2, <2>1
  <2>3. \A i \in a..b : fetched[i] \in S
    BY <1>7, <2>2
  <2>4. /\ SubSeq(fetched, a, b) \in Seq(S) /\ Len(SubSeq(fetched, a, b)) = b - a + 1
        /\ \A i \in 1..(b - a + 1) : SubSeq(fetched, a, b)[i] = fetched[a + i - 1]
    BY <2>2, <2>3, PartOfAList
  <2>5. \A i \in 1..limit : i \in 1..(b - a + 1) /\ a + i - 1 = i /\ i \in 1..(limit + 1)
    BY <1>2, <2>1
  <2>6. b - a + 1 = limit
    BY <1>2, <2>1
  <2>7. visible = SubSeq(fetched, a, b)
    BY <1>6, <1>12, <2>1
  <2>. QED  BY <1>7, <2>4, <2>5, <2>6, <2>7
<1>9. visible = SubSeq(list, offset + 1, offset + limit)
  <2>1. PICK a, b : a = offset + 1 /\ b = offset + limit
    OBVIOUS
  <2>2. a \in Int /\ b \in Int /\ a <= b /\ \A i \in a..b : i \in 1..n
    BY <1>2, <1>6, <2>1
  <2>3. \A i \in a..b : list[i] \in S
    BY <1>2, <2>2
  <2>4. PICK u : u = SubSeq(list, a, b)
    OBVIOUS
  <2>5. /\ u \in Seq(S) /\ Len(u) = b - a + 1
        /\ \A i \in 1..(b - a + 1) : u[i] = list[a + i - 1]
    BY <2>2, <2>3, <2>4, PartOfAList
  <2>6. b - a + 1 = limit /\ \A i \in 1..limit : a + i - 1 = offset + i
    BY <1>2, <2>1
  <2>7. Len(u) = limit /\ \A i \in 1..limit : u[i] = visible[i]
    <3>1. \A i \in 1..limit : u[i] = list[a + i - 1]
      BY <2>5, <2>6
    <3>. QED  BY <1>8, <2>5, <2>6, <3>1
  <2>8. u = visible
    BY <1>8, <2>5, <2>7, SeqEqual
  <2>. QED  BY <2>1, <2>4, <2>8
<1>10. SubSeq(list, 1, offset) \o SubSeq(list, offset + 1, offset + limit) = SubSeq(list, 1, offset + limit)
  <2>1. 1 \in 1..(Len(list) + 1) /\ offset \in 1 - 1 .. Len(list) /\ offset + limit \in offset..Len(list)
    BY <1>1, <1>2, <1>6
  <2>. QED  BY <2>1, ConcatAdjacentSubSeq
<1>11. offset + limit \in 0..Len(list)
  BY <1>1, <1>2, <1>6
<1>. QED  BY <1>8, <1>9, <1>10, <1>11

(***************************************************************************)
(* A read and the authorization it began with.                             *)
(***************************************************************************)

\* What a caller may see under the legacy rules never changes; under the business rules
\* every change has a version of its own.
SnapshotKnown(c, snapshot) ==
    /\ snapshot.version \in Nat /\ snapshot.version <= stamp
    /\ snapshot.mode = "preparing" => snapshot.scope = {s \in Sources : LevelOf[s] <= ClearanceOf[c]}
    /\ snapshot.version = stamp => snapshot = Snapshot(c)

\* The authorization of the first page is still the one a next page would be bound to.
StillBound(first) ==
    IF first.mode = "preparing" THEN stance = "preparing" ELSE first.version = stamp

SameAuthorization(first, snapshot) ==
    /\ snapshot.scope = first.scope
    /\ \A q : hashQueryShape(q, snapshot) = hashQueryShape(q, first)

HeadOfTheList(r) ==
    \E list \in Lists(r.query, r.first) :
        \E n \in Nat : Len(list) = n /\ r.offset \in 0..n /\ r.got = SubSeq(list, 1, r.offset)

CompiledFields == {"at", "query", "snapshot", "offset", "got", "first", "disturbed"}
PagedFields    == {"at", "query", "got", "offset", "cursor", "first", "disturbed"}

CompiledOK(c, r) ==
    /\ DOMAIN r = CompiledFields
    /\ r.query \in QueryRequests /\ Accepts(r.query)
    /\ SnapshotKnown(c, r.first) /\ SameAuthorization(r.first, r.snapshot)
    /\ r.disturbed \in BOOLEAN
    /\ ~r.disturbed /\ TotalOrder(r.query) => (r.offset = 0 /\ r.got = <<>>) \/ HeadOfTheList(r)

PagedOK(c, r) ==
    /\ DOMAIN r = PagedFields
    /\ r.query \in QueryRequests /\ Accepts(r.query)
    /\ SnapshotKnown(c, r.first) /\ r.cursor = hashQueryShape(r.query, r.first)
    /\ r.disturbed \in BOOLEAN
    /\ ~r.disturbed /\ TotalOrder(r.query) /\ StillBound(r.first) => HeadOfTheList(r)

ReadKnown(c, r) ==
    /\ "at" \in DOMAIN r /\ r.at \in {"none", "compiled", "paged", "expired"}
    /\ r.at = "compiled" => CompiledOK(c, r)
    /\ r.at = "paged" => PagedOK(c, r)

ReadsInv ==
    /\ stamp \in Nat
    /\ reading = [c \in Callers |-> reading[c]]
    /\ \A c \in Callers : ReadKnown(c, reading[c])

\* The lists depend on the scope and on what is applied.
LEMMA SameLists ==
    ASSUME NEW q, NEW a, NEW b, a.scope = b.scope
    PROVE  Lists(q, a) = Lists(q, b)
<1>1. Matching(q, a) = Matching(q, b)
  BY DEF Matching, baseFromAndWhere
<1>2. Items(q, a) = Items(q, b)
  BY <1>1 DEF Items
<1>. QED  BY <1>2 DEF Lists

LEMMA ListsStand ==
    ASSUME UNCHANGED imports
    PROVE  /\ \A q, a : Lists(q, a)' = Lists(q, a)
           /\ \A r : HeadOfTheList(r)' = HeadOfTheList(r)
<1>1. \A q, a : Matching(q, a)' = Matching(q, a)
  BY DEF Matching, baseFromAndWhere
<1>2. \A q, a : Items(q, a)' = Items(q, a)
  BY <1>1 DEF Items
<1>3. \A q, a : Lists(q, a)' = Lists(q, a)
  BY <1>2 DEF Lists
<1>. QED  BY <1>3 DEF HeadOfTheList

\* A snapshot taken now is known, and a cursor that is accepted now was signed under it.
LEMMA SnapshotNow ==
    ASSUME stamp \in Nat, NEW c
    PROVE  SnapshotKnown(c, Snapshot(c))
<1>1. PICK now : now = Snapshot(c)
  OBVIOUS
<1>2. /\ now.version = stamp /\ now.mode = stance
      /\ stance = "preparing" => now.scope = {s \in Sources : LevelOf[s] <= ClearanceOf[c]}
  BY <1>1 DEF Snapshot
<1>. QED  BY <1>1, <1>2 DEF SnapshotKnown

LEMMA CursorBinds ==
    ASSUME stamp \in Nat, NEW c, NEW first, SnapshotKnown(c, first), NEW q,
           hashQueryShape(q, first) = hashQueryShape(q, Snapshot(c))
    PROVE  StillBound(first) /\ SameAuthorization(first, Snapshot(c))
<1>1. PICK now : now = Snapshot(c)
  OBVIOUS
<1>2. /\ now.version = stamp /\ now.mode = stance
      /\ stance = "preparing" => now.scope = {s \in Sources : LevelOf[s] <= ClearanceOf[c]}
  BY <1>1 DEF Snapshot
<1>3. \/ first.mode = "preparing" /\ now.mode = "preparing"
      \/ first.mode # "preparing" /\ now.mode # "preparing" /\ first.version = now.version
  <2>1. \A v : <<q>> # <<q, v>>
    OBVIOUS
  <2>. QED  BY <1>1, <2>1 DEF hashQueryShape
<1>4. now.scope = first.scope
  BY <1>1, <1>2, <1>3 DEF SnapshotKnown
<1>5. \A p : hashQueryShape(p, now) = hashQueryShape(p, first)
  BY <1>3 DEF hashQueryShape
<1>. QED  BY <1>1, <1>2, <1>3, <1>4, <1>5 DEF StillBound, SameAuthorization

\* What is known of a snapshot stays known, also when the authorization moves.
LEMMA SnapshotStays ==
    ASSUME stamp \in Nat, NEW c, NEW first, SnapshotKnown(c, first),
           \/ UNCHANGED <<stamp, stance, reach>>
           \/ stamp' = stamp + 1
    PROVE  SnapshotKnown(c, first)'
<1>1. CASE UNCHANGED <<stamp, stance, reach>>
  BY <1>1 DEF SnapshotKnown, Snapshot
<1>2. CASE stamp' = stamp + 1
  BY <1>2 DEF SnapshotKnown
<1>. QED  BY <1>1, <1>2

\* A binding that is lost is not found again.
LEMMA BindingLost ==
    ASSUME stamp \in Nat, NEW c, NEW first, SnapshotKnown(c, first), StillBound(first)',
           \/ UNCHANGED <<stamp, stance>>
           \/ stamp' = stamp + 1 /\ (stance' = stance \/ stance' # "preparing")
    PROVE  StillBound(first) /\ (stamp' = stamp + 1 => first.mode = "preparing")
BY DEF SnapshotKnown, StillBound

\* A step that leaves the imports and a read alone, and may move the authorization.
LEMMA ReadStays ==
    ASSUME stamp \in Nat, NEW c, NEW r, ReadKnown(c, r), UNCHANGED imports,
           \/ UNCHANGED <<stamp, stance, reach>>
           \/ stamp' = stamp + 1 /\ (stance' = stance \/ stance' # "preparing")
    PROVE  ReadKnown(c, r)'
<1>1. \A p : HeadOfTheList(p)' = HeadOfTheList(p)
  BY ListsStand
<1>2. ASSUME r.at = "compiled"
      PROVE  CompiledOK(c, r)'
  <2>1. CompiledOK(c, r)
    BY <1>2 DEF ReadKnown
  <2>2. SnapshotKnown(c, r.first)'
    <3>1. PICK first : first = r.first
      OBVIOUS
    <3>2. SnapshotKnown(c, first)'
      BY <2>1, <3>1, SnapshotStays DEF CompiledOK
    <3>. QED  BY <3>1, <3>2
  <2>. QED  BY <1>1, <2>1, <2>2 DEF CompiledOK, SameAuthorization
<1>3. ASSUME r.at = "paged"
      PROVE  PagedOK(c, r)'
  <2>1. PagedOK(c, r)
    BY <1>3 DEF ReadKnown
  <2>2. PICK first : first = r.first
    OBVIOUS
  <2>3. SnapshotKnown(c, first)
    BY <2>1, <2>2 DEF PagedOK
  <2>4. SnapshotKnown(c, first)'
    BY <2>3, SnapshotStays
  <2>5. StillBound(first)' => StillBound(first)
    BY <2>3, BindingLost
  <2>. QED  BY <1>1, <2>1, <2>2, <2>4, <2>5 DEF PagedOK
<1>. QED  BY <1>2, <1>3 DEF ReadKnown

\* A step of one caller's read.
LEMMA OneRead ==
    ASSUME ReadsInv, NEW c \in Callers, NEW r, reading' = [reading EXCEPT ![c] = r], ReadKnown(c, r),
           UNCHANGED <<imports, stance, stamp, reach>>
    PROVE  ReadsInv'
<1>1. /\ reading' = [x \in Callers |-> reading'[x]]
      /\ \A x \in Callers : reading'[x] = IF x = c THEN r ELSE reading[x]
  BY DEF ReadsInv
<1>2. \A x \in Callers : \A p : ReadKnown(x, p) => ReadKnown(x, p)'
  BY ReadStays DEF ReadsInv
<1>3. ASSUME NEW x \in Callers
      PROVE  (ReadKnown(x, reading[x]))'
  <2>1. PICK p : p = reading'[x]
    OBVIOUS
  <2>2. ReadKnown(x, p)
    BY <1>1, <2>1 DEF ReadsInv
  <2>3. ReadKnown(x, p)'
    BY <1>2, <2>2
  <2>. QED  BY <2>1, <2>3
<1>. QED  BY <1>1, <1>3 DEF ReadsInv

LEMMA StartKeeps ==
    ASSUME ReadsInv, NEW c \in Callers, NEW q \in QueryRequests, queryStart(c, q)
    PROVE  ReadsInv'
<1>1. PICK now : now = Snapshot(c)
  OBVIOUS
<1>2. PICK r : r = [at |-> "compiled", query |-> q, snapshot |-> now, offset |-> 0,
                    got |-> <<>>, first |-> now, disturbed |-> FALSE]
  OBVIOUS
<1>3. /\ reading' = [reading EXCEPT ![c] = r] /\ Accepts(q)
      /\ UNCHANGED <<imports, stance, stamp, reach>>
  BY <1>1, <1>2 DEF queryStart
<1>4. SnapshotKnown(c, now)
  BY <1>1, SnapshotNow DEF ReadsInv
<1>5. ReadKnown(c, r)
  <2>1. /\ DOMAIN r = CompiledFields /\ r.at = "compiled" /\ r.query = q /\ r.snapshot = now /\ r.first = now
        /\ r.offset = 0 /\ r.got = <<>> /\ r.disturbed = FALSE
    BY <1>2 DEF CompiledFields
  <2>2. SameAuthorization(now, now)
    BY DEF SameAuthorization
  <2>3. CompiledOK(c, r)
    BY <1>3, <1>4, <2>1, <2>2 DEF CompiledOK
  <2>. QED  BY <2>1, <2>3 DEF ReadKnown, CompiledFields
<1>. QED  BY <1>3, <1>5, OneRead

LEMMA ContinueKeeps ==
    ASSUME ReadsInv, NEW c \in Callers, queryContinue(c)
    PROVE  ReadsInv'
<1>1. PICK now : now = Snapshot(c)
  OBVIOUS
<1>2. PICK old : old = reading[c]
  OBVIOUS
<1>3. PICK r : r = [at |-> "compiled", query |-> old.query, snapshot |-> now, offset |-> old.offset,
                    got |-> old.got, first |-> old.first, disturbed |-> old.disturbed]
  OBVIOUS
<1>4. /\ old.at = "paged" /\ old.cursor = hashQueryShape(old.query, now)
      /\ UNCHANGED <<imports, stance, stamp, reach>>
  BY <1>1, <1>2 DEF queryContinue
<1>5. reading' = [reading EXCEPT ![c] = r]
  BY <1>1, <1>2, <1>3 DEF queryContinue
<1>6. PagedOK(c, old)
  BY <1>2, <1>4 DEF ReadsInv, ReadKnown
<1>7. PICK first, q : first = old.first /\ q = old.query
  OBVIOUS
<1>8. StillBound(first) /\ SameAuthorization(first, now)
  <2>1. SnapshotKnown(c, first) /\ hashQueryShape(q, first) = hashQueryShape(q, now)
    BY <1>4, <1>6, <1>7 DEF PagedOK
  <2>. QED  BY <1>1, <2>1, CursorBinds DEF ReadsInv
<1>9. ReadKnown(c, r)
  <2>1. /\ DOMAIN r = CompiledFields /\ r.at = "compiled" /\ r.query = old.query /\ r.snapshot = now
        /\ r.first = old.first /\ r.offset = old.offset /\ r.got = old.got /\ r.disturbed = old.disturbed
    BY <1>3 DEF CompiledFields
  <2>2. ~old.disturbed /\ TotalOrder(old.query) => HeadOfTheList(r)
    BY <1>6, <1>7, <1>8, <2>1 DEF PagedOK, HeadOfTheList
  <2>3. CompiledOK(c, r)
    BY <1>6, <1>7, <1>8, <2>1, <2>2 DEF CompiledOK, PagedOK
  <2>. QED  BY <2>1, <2>3 DEF ReadKnown, CompiledFields
<1>. QED  BY <1>4, <1>5, <1>9, OneRead

\* Reads end: the answer was the last, a cursor was refused or expired, or the database
\* refused the statement.
LEMMA ReadEnds ==
    ASSUME ReadsInv, NEW c \in Callers, NEW r, r = NoReading \/ r = [at |-> "expired"],
           reading' = [reading EXCEPT ![c] = r], UNCHANGED <<imports, stance, stamp, reach>>
    PROVE  ReadsInv'
<1>1. ReadKnown(c, r)
  BY DEF ReadKnown, NoReading
<1>. QED  BY <1>1, OneRead

\* The statement returns the page after the pages before.
LEMMA ExecuteKeeps ==
    ASSUME ReadsInv, NEW c \in Callers, execute(c)
    PROVE  ReadsInv'
<1>1. PICK old : old = reading[c]
  OBVIOUS
<1>2. PICK q, first, snapshot : q = old.query /\ first = old.first /\ snapshot = old.snapshot
  OBVIOUS
<1>3. /\ old.at = "compiled" /\ UNCHANGED <<imports, stance, stamp, reach>>
  BY <1>1 DEF execute
<1>4. PICK list \in Lists(q, snapshot) : reading' = [reading EXCEPT ![c] = PageOf(old, list)]
  BY <1>1, <1>2 DEF execute
<1>5. PICK last : last = IF Len(list) < old.offset + q.limit + 1 THEN Len(list) ELSE old.offset + q.limit + 1
  OBVIOUS
<1>11. PICK fetched : fetched = SubSeq(list, old.offset + 1, last)
  OBVIOUS
<1>6. PICK size : size = IF Len(fetched) < q.limit THEN Len(fetched) ELSE q.limit
  OBVIOUS
<1>12. PICK visible : visible = SubSeq(fetched, 1, size)
  OBVIOUS
<1>7. PICK r : r = [at |-> "paged", query |-> q, got |-> old.got \o visible,
                    offset |-> old.offset + Len(visible), cursor |-> hashQueryShape(q, snapshot),
                    first |-> old.first, disturbed |-> old.disturbed]
  OBVIOUS
<1>8. reading' = [reading EXCEPT ![c] = IF Len(fetched) > q.limit THEN r ELSE NoReading]
  <2>1. PageOf(old, list) = IF Len(fetched) > q.limit THEN r ELSE NoReading
    BY <1>2, <1>5, <1>6, <1>7, <1>11, <1>12 DEF PageOf
  <2>. QED  BY <1>4, <2>1
<1>9. CASE ~(Len(fetched) > q.limit)
  BY <1>3, <1>8, <1>9, ReadEnds
<1>10. CASE Len(fetched) > q.limit
  <2>1. CompiledOK(c, old)
    BY <1>1, <1>3 DEF ReadsInv, ReadKnown
  <2>2. /\ q \in QueryRequests /\ Accepts(q) /\ SnapshotKnown(c, first) /\ SameAuthorization(first, snapshot)
        /\ old.disturbed \in BOOLEAN
        /\ ~old.disturbed /\ TotalOrder(q) => (old.offset = 0 /\ old.got = <<>>) \/ HeadOfTheList(old)
    BY <1>2, <2>1 DEF CompiledOK
  <2>3. /\ DOMAIN r = PagedFields /\ r.at = "paged" /\ r.query = q /\ r.first = first
        /\ r.cursor = hashQueryShape(q, snapshot) /\ r.disturbed = old.disturbed
        /\ r.got = old.got \o visible /\ r.offset = old.offset + Len(visible)
    BY <1>2, <1>7 DEF PagedFields
  <2>4. Lists(q, snapshot) = Lists(q, first)
    BY <2>2, SameLists DEF SameAuthorization
  <2>5. ASSUME ~old.disturbed, TotalOrder(q)
        PROVE  HeadOfTheList(r)
    <3>1. PICK S : list \in Seq(S)
      <4>1. PICK T : T = Items(q, snapshot)
        OBVIOUS
      <4>2. list \in [1..Cardinality(T) -> T] /\ list \in SetToSeqs(T)
        BY <4>1 DEF Lists, SetToSeqs
      <4>3. Cardinality(T) \in Nat
        BY <2>2, <4>1, ItemsFinite, FS_CardinalityType
      <4>4. list \in Seq(T)
        BY <4>2, <4>3, ListLength
      <4>. QED  BY <4>4
    <3>2. PICK n \in Nat : Len(list) = n
      BY <3>1, LenProperties
    <3>3. PICK offset : offset = old.offset
      OBVIOUS
    <3>4. PICK got : got = old.got
      OBVIOUS
    <3>5. offset \in 0..n /\ got = SubSeq(list, 1, offset)
      <4>1. CASE offset = 0 /\ got = <<>>
        <5>1. SubSeq(list, 1, 0) = <<>>
          BY <3>1, SubSeqEmpty
        <5>. QED  BY <4>1, <5>1
      <4>2. CASE HeadOfTheList(old)
        <5>1. PICK other \in Lists(q, first) : \E m \in Nat : Len(other) = m /\ offset \in 0..m
                                                              /\ got = SubSeq(other, 1, offset)
          BY <1>2, <3>3, <3>4, <4>2 DEF HeadOfTheList
        <5>2. other = list
          BY <2>2, <2>4, <2>5, OneList
        <5>. QED  BY <3>2, <5>1, <5>2
      <4>. QED  BY <2>2, <2>5, <3>3, <3>4, <4>1, <4>2
    <3>6. PICK limit \in Nat \ {0} : limit = q.limit
      BY <2>2, StoredFields
    <3>7. /\ Len(visible) = limit /\ offset + limit \in 0..Len(list)
          /\ SubSeq(list, 1, offset) \o visible = SubSeq(list, 1, offset + limit)
      <4>1. offset \in 0..Len(list)
        BY <3>2, <3>5
      <4>2. /\ last = IF Len(list) < offset + limit + 1 THEN Len(list) ELSE offset + limit + 1
            /\ fetched = SubSeq(list, offset + 1, last)
        BY <1>5, <1>11, <3>3, <3>6
      <4>3. Len(fetched) > limit
        BY <1>10, <3>6
      <4>4. /\ size = IF Len(fetched) < limit THEN Len(fetched) ELSE limit
            /\ visible = SubSeq(fetched, 1, size)
        BY <1>6, <1>12, <3>6
      <4>5. IsPage(list, offset, limit, last, fetched, size, visible)
        BY <4>2, <4>3, <4>4 DEF IsPage
      <4>. QED  BY <3>1, <4>1, <4>5, PageAfter
    <3>8. r.offset = offset + limit /\ r.got = SubSeq(list, 1, offset + limit)
      BY <2>3, <3>3, <3>4, <3>5, <3>7
    <3>9. r.query = q /\ r.first = first /\ list \in Lists(q, first)
      BY <2>3, <2>4
    <3>. QED  BY <3>2, <3>7, <3>8, <3>9 DEF HeadOfTheList
  <2>6. r.cursor = hashQueryShape(q, first)
    BY <2>2, <2>3 DEF SameAuthorization
  <2>7. PagedOK(c, r)
    BY <2>2, <2>3, <2>5, <2>6 DEF PagedOK
  <2>8. ReadKnown(c, r)
    BY <2>3, <2>7 DEF ReadKnown, PagedFields
  <2>. QED  BY <1>3, <1>8, <1>10, <2>8, OneRead
<1>. QED  BY <1>9, <1>10

\* A read that rows moved under is marked.
LEMMA HitRead ==
    ASSUME stamp \in Nat, NEW c, NEW old, ReadKnown(c, old), old.at \in {"compiled", "paged"},
           NEW r, r = [old EXCEPT !.disturbed = TRUE],
           \/ UNCHANGED <<stamp, stance, reach>>
           \/ stamp' = stamp + 1
    PROVE  ReadKnown(c, r)'
<1>1. PICK first : first = old.first
  OBVIOUS
<1>2. /\ DOMAIN old = IF old.at = "compiled" THEN CompiledFields ELSE PagedFields
      /\ SnapshotKnown(c, first) /\ old.query \in QueryRequests /\ Accepts(old.query)
      /\ old.at = "compiled" => SameAuthorization(first, old.snapshot)
      /\ old.at = "paged" => old.cursor = hashQueryShape(old.query, first)
  BY <1>1 DEF ReadKnown, CompiledOK, PagedOK
<1>3. /\ DOMAIN r = DOMAIN old /\ r.at = old.at /\ r.query = old.query /\ r.first = first
      /\ r.snapshot = old.snapshot /\ r.cursor = old.cursor /\ r.disturbed = TRUE
  BY <1>1, <1>2 DEF CompiledFields, PagedFields
<1>4. SnapshotKnown(c, first)'
  BY <1>2, SnapshotStays
<1>5. r.at = "compiled" => CompiledOK(c, r)'
  BY <1>2, <1>3, <1>4 DEF CompiledOK, SameAuthorization
<1>6. r.at = "paged" => PagedOK(c, r)'
  BY <1>2, <1>3, <1>4 DEF PagedOK
<1>. QED  BY <1>2, <1>3, <1>5, <1>6 DEF ReadKnown, CompiledFields, PagedFields

\* The others wait, or their cursor lost its version with the step.
LEMMA SparedRead ==
    ASSUME stamp \in Nat, NEW c, NEW r, ReadKnown(c, r), r.at # "compiled",
           r.at = "paged" => r.first.mode # "preparing" /\ stamp' = stamp + 1 /\ stance' = stance
    PROVE  ReadKnown(c, r)'
<1>1. ASSUME r.at = "paged"
      PROVE  PagedOK(c, r)'
  <2>1. PagedOK(c, r)
    BY <1>1 DEF ReadKnown
  <2>2. PICK first : first = r.first
    OBVIOUS
  <2>3. SnapshotKnown(c, first) /\ first.mode # "preparing"
    BY <1>1, <2>1, <2>2 DEF PagedOK
  <2>4. SnapshotKnown(c, first)'
    BY <1>1, <2>3, SnapshotStays
  <2>5. ~(StillBound(first)')
    BY <1>1, <2>3, BindingLost
  <2>. QED  BY <2>1, <2>2, <2>4, <2>5 DEF PagedOK
<1>. QED  BY <1>1 DEF ReadKnown

LEMMA ApplyMarks ==
    ASSUME ReadsInv, NEW s \in Sources, applyImport(s)
    PROVE  ReadsInv'
<1>1. /\ stamp \in Nat /\ stamp' = stamp + 1 /\ UNCHANGED <<stance, reach>>
      /\ \A c \in Callers : ReadKnown(c, reading[c])
  BY DEF ReadsInv, applyImport
<1>2. reading' = [c \in Callers |->
          IF reading[c].at \in {"compiled", "paged"}
               /\ (reading[c].at = "compiled" \/ reading[c].first.mode = "preparing")
          THEN [reading[c] EXCEPT !.disturbed = TRUE] ELSE reading[c]]
  BY DEF applyImport, Disturb
<1>3. ASSUME NEW c \in Callers
      PROVE  (ReadKnown(c, reading[c]))'
  <2>1. PICK old : old = reading[c]
    OBVIOUS
  <2>2. PICK r : r = [old EXCEPT !.disturbed = TRUE]
    OBVIOUS
  <2>3. ReadKnown(c, old)
    BY <1>1, <2>1
  <2>4. reading'[c] = IF old.at \in {"compiled", "paged"}
                           /\ (old.at = "compiled" \/ old.first.mode = "preparing")
                      THEN r ELSE old
    BY <1>2, <2>1, <2>2
  <2>5. CASE old.at \in {"compiled", "paged"} /\ (old.at = "compiled" \/ old.first.mode = "preparing")
    <3>1. ReadKnown(c, r)'
      BY <1>1, <2>2, <2>3, <2>5, HitRead
    <3>2. reading'[c] = r
      BY <2>4, <2>5
    <3>. QED  BY <3>1, <3>2
  <2>6. CASE ~(old.at \in {"compiled", "paged"} /\ (old.at = "compiled" \/ old.first.mode = "preparing"))
    <3>1. ReadKnown(c, old)'
      BY <1>1, <2>3, <2>6, SparedRead
    <3>2. reading'[c] = old
      BY <2>4, <2>6
    <3>. QED  BY <3>1, <3>2
  <2>. QED  BY <2>5, <2>6
<1>4. reading' = [c \in Callers |-> reading'[c]]
  BY <1>2
<1>. QED  BY <1>1, <1>3, <1>4 DEF ReadsInv

LEMMA ArchiveMarks ==
    ASSUME ReadsInv, NEW s \in Sources, archiveImport(s)
    PROVE  ReadsInv'
<1>1. /\ stamp \in Nat /\ UNCHANGED <<stamp, stance, reach>>
      /\ \A c \in Callers : ReadKnown(c, reading[c])
  BY DEF ReadsInv, archiveImport
<1>2. reading' = [c \in Callers |->
          IF reading[c].at \in {"compiled", "paged"}
          THEN [reading[c] EXCEPT !.disturbed = TRUE] ELSE reading[c]]
  BY DEF archiveImport, Disturb
<1>3. ASSUME NEW c \in Callers
      PROVE  (ReadKnown(c, reading[c]))'
  <2>1. PICK old : old = reading[c]
    OBVIOUS
  <2>2. PICK r : r = [old EXCEPT !.disturbed = TRUE]
    OBVIOUS
  <2>3. ReadKnown(c, old)
    BY <1>1, <2>1
  <2>4. reading'[c] = IF old.at \in {"compiled", "paged"} THEN r ELSE old
    BY <1>2, <2>1, <2>2
  <2>5. CASE old.at \in {"compiled", "paged"}
    <3>1. ReadKnown(c, r)'
      BY <1>1, <2>2, <2>3, <2>5, HitRead
    <3>2. reading'[c] = r
      BY <2>4, <2>5
    <3>. QED  BY <3>1, <3>2
  <2>6. CASE old.at \notin {"compiled", "paged"}
    <3>1. ReadKnown(c, old)'
      BY <1>1, <2>3, <2>6, SparedRead
    <3>2. reading'[c] = old
      BY <2>4, <2>6
    <3>. QED  BY <3>1, <3>2
  <2>. QED  BY <2>5, <2>6
<1>4. reading' = [c \in Callers |-> reading'[c]]
  BY <1>2
<1>. QED  BY <1>1, <1>3, <1>4 DEF ReadsInv

\* Grants, modes and steps of nobody leave the reads alone.
LEMMA ReadsStay ==
    ASSUME ReadsInv, UNCHANGED <<imports, reading>>,
           \/ UNCHANGED <<stamp, stance, reach>>
           \/ stamp' = stamp + 1 /\ (stance' = stance \/ stance' # "preparing")
    PROVE  ReadsInv'
<1>1. stamp \in Nat /\ stamp' \in Nat /\ \A c \in Callers : ReadKnown(c, reading[c])
  BY DEF ReadsInv
<1>2. \A c, r : ReadKnown(c, r) => ReadKnown(c, r)'
  BY <1>1, ReadStays
<1>3. ASSUME NEW c \in Callers
      PROVE  (ReadKnown(c, reading[c]))'
  <2>1. PICK r : r = reading[c]
    OBVIOUS
  <2>2. ReadKnown(c, r)'
    BY <1>1, <1>2, <2>1
  <2>. QED  BY <2>1, <2>2
<1>. QED  BY <1>1, <1>3 DEF ReadsInv

LEMMA ReadsStep ==
    ASSUME ReadsInv, [QueryNext]_queryVars
    PROVE  ReadsInv'
<1>1. ASSUME NEW c \in Callers, NEW q \in QueryRequests, queryStart(c, q)
      PROVE  ReadsInv'
  BY <1>1, StartKeeps
<1>2. ASSUME NEW c \in Callers, queryContinue(c)
      PROVE  ReadsInv'
  BY <1>2, ContinueKeeps
<1>3. ASSUME NEW c \in Callers, queryRefuse(c)
      PROVE  ReadsInv'
  BY <1>3, ReadEnds DEF queryRefuse
<1>4. ASSUME NEW c \in Callers, execute(c)
      PROVE  ReadsInv'
  BY <1>4, ExecuteKeeps
<1>5. ASSUME NEW c \in Callers, executeFails(c)
      PROVE  ReadsInv'
  BY <1>5, ReadEnds DEF executeFails
<1>6. ASSUME NEW c \in Callers, queryExpires(c)
      PROVE  ReadsInv'
  <2>1. PICK r : r = [at |-> "expired"]
    OBVIOUS
  <2>2. reading' = [reading EXCEPT ![c] = r] /\ UNCHANGED <<imports, stance, stamp, reach>>
    BY <1>6, <2>1 DEF queryExpires
  <2>. QED  BY <2>1, <2>2, ReadEnds
<1>7. ASSUME NEW c \in Callers, NEW scope \in SUBSET Sources, regrant(c, scope)
      PROVE  ReadsInv'
  BY <1>7, ReadsStay DEF regrant
<1>8. ASSUME NEW s \in Sources, applyImport(s)
      PROVE  ReadsInv'
  BY <1>8, ApplyMarks
<1>9. ASSUME NEW s \in Sources, archiveImport(s)
      PROVE  ReadsInv'
  BY <1>9, ArchiveMarks
<1>10. CASE switchMode
  BY <1>10, ReadsStay DEF switchMode
<1>11. CASE UNCHANGED queryVars
  BY <1>11, ReadsStay DEF queryVars
<1>. QED  BY <1>1, <1>2, <1>3, <1>4, <1>5, <1>6, <1>7, <1>8, <1>9, <1>10, <1>11 DEF QueryNext

\* A cursor that is accepted now belongs to the head of the list that is there now.
LEMMA OneAnswer ==
    ASSUME ReadsInv
    PROVE  ReadsAreOneAnswer
<1>1. SUFFICES ASSUME NEW c \in Callers, reading[c].at = "paged",
                      reading[c].cursor = hashQueryShape(reading[c].query, Snapshot(c)),
                      ~reading[c].disturbed, TotalOrder(reading[c].query)
               PROVE  /\ reading[c].first.scope = Snapshot(c).scope
                      /\ \E list \in Lists(reading[c].query, reading[c].first) :
                            reading[c].got = SubSeq(list, 1, reading[c].offset)
  BY DEF ReadsAreOneAnswer
<1>2. PICK r : r = reading[c]
  OBVIOUS
<1>3. PICK first, q : first = r.first /\ q = r.query
  OBVIOUS
<1>4. PagedOK(c, r)
  BY <1>1, <1>2 DEF ReadsInv, ReadKnown
<1>5. SnapshotKnown(c, first) /\ hashQueryShape(q, first) = hashQueryShape(q, Snapshot(c))
  BY <1>1, <1>2, <1>3, <1>4 DEF PagedOK
<1>6. StillBound(first) /\ SameAuthorization(first, Snapshot(c))
  BY <1>5, CursorBinds DEF ReadsInv
<1>7. HeadOfTheList(r)
  BY <1>1, <1>2, <1>3, <1>4, <1>6 DEF PagedOK
<1>8. first.scope = Snapshot(c).scope
  BY <1>6 DEF SameAuthorization
<1>. QED  BY <1>2, <1>3, <1>7, <1>8 DEF HeadOfTheList

(***************************************************************************)
(* A read that a cursor may still continue was computed under one          *)
(* authorization, and its pages so far are the head of the one list that   *)
(* this authorization has now (cursors of structured-query.ts).            *)
(***************************************************************************)
THEOREM ReadsStayOneAnswer == QuerySpec => []ReadsAreOneAnswer
<1>1. QueryInit => ReadsInv
  <2>1. SUFFICES ASSUME QueryInit
                 PROVE  ReadsInv
    OBVIOUS
  <2>2. stamp = 1 /\ reading = [c \in Callers |-> NoReading]
    BY <2>1 DEF QueryInit
  <2>3. \A c \in Callers : ReadKnown(c, NoReading)
    BY DEF ReadKnown, NoReading
  <2>. QED  BY <2>2, <2>3 DEF ReadsInv
<1>2. ReadsInv /\ [QueryNext]_queryVars => ReadsInv'
  BY ReadsStep
<1>3. ReadsInv => ReadsAreOneAnswer
  BY OneAnswer
<1>. QED  BY <1>1, <1>2, <1>3, PTL DEF QuerySpec

(***************************************************************************)
(* The pool of open files.  What a file holds, with what is buffered for   *)
(* it, does not change when it or another one is opened, moved, flushed or *)
(* closed, and a write adds its line to the one file it is for.            *)
(***************************************************************************)
Entries(Files, Lines) == [file : Files, chunks : Seq(Lines), bytes : Int]

PoolOK(w, Files, Lines) ==
  /\ DOMAIN w = {"pool", "files"}
  /\ w.pool \in Seq(Entries(Files, Lines)) /\ w.files \in [Files -> Seq(Lines)]
  /\ \A i, j \in 1..Len(w.pool) : w.pool[i].file = w.pool[j].file => i = j
  /\ Len(w.pool) <= MaxOpenFiles

LEMMA PoolTypes ==
    ASSUME NEW Files, NEW Lines, NEW w, PoolOK(w, Files, Lines)
    PROVE  Len(w.pool) \in Nat /\ \A i \in 1..Len(w.pool) : w.pool[i] \in Entries(Files, Lines)
BY LenProperties DEF PoolOK

\* The chunks that wait at a place of the pool belong to what its file holds.
HeldOpen(w) ==
    \A i \in 1..Len(w.pool) : Held(w, w.pool[i].file) = w.files[w.pool[i].file] \o w.pool[i].chunks

LEMMA HeldAt ==
    ASSUME NEW Files, NEW Lines, NEW w, PoolOK(w, Files, Lines)
    PROVE  HeldOpen(w)
<1>1. ASSUME NEW i \in 1..Len(w.pool)
      PROVE  PlaceOf(w, w.pool[i].file) = i
  BY DEF PlaceOf, PoolOK
<1>2. \A i \in 1..Len(w.pool) : IsOpen(w, w.pool[i].file)
  BY DEF IsOpen
<1>. QED  BY <1>1, <1>2 DEF Held, HeldOpen

LEMMA HeldTyped ==
    ASSUME NEW Files, NEW Lines, NEW w, PoolOK(w, Files, Lines), NEW f \in Files
    PROVE  Held(w, f) \in Seq(Lines)
<1>1. CASE IsOpen(w, f)
  <2>1. PICK i \in 1..Len(w.pool) : w.pool[i].file = f
    BY <1>1 DEF IsOpen
  <2>2. w.files[f] \in Seq(Lines) /\ w.pool[i].chunks \in Seq(Lines)
    <3>1. w.pool[i] \in Entries(Files, Lines)
      BY PoolTypes
    <3>. QED  BY <3>1 DEF PoolOK, Entries
  <2>3. w.files[f] \o w.pool[i].chunks \in Seq(Lines)
    BY <2>2, ConcatProperties
  <2>4. Held(w, f) = w.files[f] \o w.pool[i].chunks
    <3>1. HeldOpen(w)
      BY HeldAt
    <3>. QED  BY <2>1, <3>1 DEF HeldOpen
  <2>. QED  BY <2>3, <2>4
<1>2. CASE ~IsOpen(w, f)
  BY <1>2 DEF Held, PoolOK
<1>. QED  BY <1>1, <1>2

\* Closing the oldest file.
LEMMA EvictKeeps ==
    ASSUME NEW Files, NEW Lines, NEW w, PoolOK(w, Files, Lines), w.pool # <<>>,
           NEW v, v = Evicted(w)
    PROVE  /\ PoolOK(v, Files, Lines) /\ Len(v.pool) + 1 = Len(w.pool)
           /\ \A f \in Files : Held(v, f) = Held(w, f) /\ (IsOpen(v, f) => IsOpen(w, f))
<1>1. PICK n : n = Len(w.pool)
  OBVIOUS
<1>2. n \in Nat /\ n >= 1 /\ \A i \in 1..n : w.pool[i] \in Entries(Files, Lines)
  <2>1. n # 0
    BY <1>1, EmptySeq DEF PoolOK
  <2>. QED  BY <1>1, <2>1, PoolTypes
<1>3. PICK e : e = w.pool[1]
  OBVIOUS
<1>4. e \in Entries(Files, Lines) /\ e.file \in Files /\ e.chunks \in Seq(Lines) /\ e = Head(w.pool)
  BY <1>1, <1>2, <1>3, HeadTailProperties DEF PoolOK, Entries
<1>5. /\ v.pool = Tail(w.pool) /\ v.files = [w.files EXCEPT ![e.file] = w.files[e.file] \o e.chunks]
      /\ DOMAIN v = {"pool", "files"}
  BY <1>4 DEF Evicted, Flushed
<1>6. /\ v.pool \in Seq(Entries(Files, Lines)) /\ Len(v.pool) = n - 1
      /\ \A i \in 1..(n - 1) : v.pool[i] = w.pool[i + 1]
  BY <1>1, <1>2, <1>5, HeadTailProperties DEF PoolOK
<1>7. w.files[e.file] \o e.chunks \in Seq(Lines)
  BY <1>4, ConcatProperties DEF PoolOK
<1>8. v.files \in [Files -> Seq(Lines)]
  BY <1>4, <1>5, <1>7 DEF PoolOK
<1>9. \A i, j \in 1..(n - 1) : v.pool[i].file = v.pool[j].file => i = j
  <2>1. ASSUME NEW i \in 1..(n - 1), NEW j \in 1..(n - 1), v.pool[i].file = v.pool[j].file
        PROVE  i = j
    <3>1. i + 1 \in 1..n /\ j + 1 \in 1..n
      BY <1>2
    <3>2. i + 1 = j + 1
      BY <1>1, <1>6, <2>1, <3>1 DEF PoolOK
    <3>. QED  BY <3>2
  <2>. QED  BY <2>1
<1>12. Len(v.pool) <= MaxOpenFiles
  <2>1. n <= MaxOpenFiles /\ MaxOpenFiles \in Nat
    BY <1>1, ExportAssumption DEF PoolOK
  <2>. QED  BY <1>2, <1>6, <2>1
<1>10. PoolOK(v, Files, Lines)
  BY <1>5, <1>6, <1>8, <1>9, <1>12 DEF PoolOK
<1>13. /\ \A i \in 1..n : Held(w, w.pool[i].file) = w.files[w.pool[i].file] \o w.pool[i].chunks
       /\ \A f \in Files : ~IsOpen(w, f) => Held(w, f) = w.files[f]
       /\ \A i \in 1..(n - 1) : Held(v, v.pool[i].file) = v.files[v.pool[i].file] \o v.pool[i].chunks
       /\ \A f \in Files : ~IsOpen(v, f) => Held(v, f) = v.files[f]
  <2>1. HeldOpen(w) /\ HeldOpen(v)
    BY <1>10, HeldAt
  <2>. QED  BY <1>1, <1>6, <2>1 DEF HeldOpen, Held
<1>11. ASSUME NEW f \in Files
       PROVE  Held(v, f) = Held(w, f) /\ (IsOpen(v, f) => IsOpen(w, f))
  <2>1. CASE f = e.file
    <3>1. Held(w, f) = w.files[f] \o e.chunks
      <4>1. 1 \in 1..n
        BY <1>2
      <4>. QED  BY <1>3, <1>13, <2>1, <4>1
    <3>2. \A i \in 1..(n - 1) : v.pool[i].file # f
      <4>1. \A i \in 1..(n - 1) : i + 1 \in 1..n /\ 1 \in 1..n /\ i + 1 # 1
        BY <1>2
      <4>. QED  BY <1>1, <1>3, <1>6, <2>1, <4>1 DEF PoolOK
    <3>3. v.files[f] = w.files[f] \o e.chunks
      BY <1>5, <2>1 DEF PoolOK
    <3>4. ~IsOpen(v, f)
      BY <1>6, <3>2 DEF IsOpen
    <3>5. Held(v, f) = v.files[f]
      BY <1>13, <3>4
    <3>. QED  BY <3>1, <3>3, <3>4, <3>5
  <2>2. CASE f # e.file
    <3>1. v.files[f] = w.files[f]
      BY <1>5, <2>2 DEF PoolOK
    <3>2. CASE \E i \in 1..n : w.pool[i].file = f
      <4>1. PICK i \in 1..n : w.pool[i].file = f
        BY <3>2
      <4>2. i # 1
        BY <1>3, <2>2, <4>1
      <4>3. PICK j \in 1..(n - 1) : j + 1 = i
        <5>1. i - 1 \in 1..(n - 1) /\ (i - 1) + 1 = i
          BY <1>2, <4>2
        <5>. QED  BY <5>1
      <4>4. v.pool[j] = w.pool[i]
        BY <1>6, <4>3
      <4>5. Held(w, f) = w.files[f] \o w.pool[i].chunks /\ IsOpen(w, f)
        BY <1>1, <1>13, <4>1 DEF IsOpen
      <4>6. Held(v, f) = w.files[f] \o w.pool[i].chunks
        <5>1. v.pool[j].file = f /\ v.files[f] \o v.pool[j].chunks = w.files[f] \o w.pool[i].chunks
          BY <3>1, <4>1, <4>4
        <5>. QED  BY <1>13, <5>1
      <4>. QED  BY <4>5, <4>6
    <3>3. CASE ~\E i \in 1..n : w.pool[i].file = f
      <4>1. \A i \in 1..(n - 1) : v.pool[i].file # f
        <5>1. \A i \in 1..(n - 1) : i + 1 \in 1..n
          BY <1>2
        <5>. QED  BY <1>6, <3>3, <5>1
      <4>2. ~IsOpen(v, f) /\ ~IsOpen(w, f)
        BY <1>1, <1>6, <3>3, <4>1 DEF IsOpen
      <4>3. Held(w, f) = w.files[f] /\ Held(v, f) = v.files[f]
        BY <1>13, <4>2
      <4>. QED  BY <3>1, <4>2, <4>3
    <3>. QED  BY <3>2, <3>3
  <2>. QED  BY <2>1, <2>2
<1>. QED  BY <1>1, <1>2, <1>6, <1>10, <1>11

\* Where each entry is after one was moved to the end.
LEMMA MovedLastIs ==
    ASSUME NEW S, NEW entries \in Seq(S), NEW at \in 1..Len(entries)
    PROVE  /\ MovedLast(entries, at) \in Seq(S) /\ Len(MovedLast(entries, at)) = Len(entries)
           /\ \A i \in 1..Len(entries) :
                 MovedLast(entries, at)[i] = IF i < at THEN entries[i]
                                             ELSE IF i < Len(entries) THEN entries[i + 1] ELSE entries[at]
<1>1. PICK n \in Nat : n = Len(entries)
  BY LenProperties
<1>2. at \in 1..n /\ \A i \in 1..n : entries[i] \in S
  BY <1>1, ElementOfSeq
<1>3. PICK left : left = SubSeq(entries, 1, at - 1)
  OBVIOUS
<1>4. PICK right : right = SubSeq(entries, at + 1, n)
  OBVIOUS
<1>5. left \in Seq(S) /\ Len(left) = at - 1 /\ \A i \in 1..(at - 1) : left[i] = entries[i]
  <2>1. 1 \in Int /\ at - 1 \in Int /\ \A i \in 1..(at - 1) : entries[i] \in S
    BY <1>2
  <2>. QED  BY <1>2, <1>3, <2>1, SubSeqProperties
<1>6. right \in Seq(S) /\ Len(right) = n - at /\ \A i \in 1..(n - at) : right[i] = entries[at + i]
  <2>1. at + 1 \in Int /\ n \in Int /\ \A i \in (at + 1)..n : entries[i] \in S
    BY <1>2
  <2>2. /\ right \in Seq(S) /\ Len(right) = IF at + 1 <= n THEN n - (at + 1) + 1 ELSE 0
        /\ \A i \in 1..(n - (at + 1) + 1) : right[i] = entries[(at + 1) + i - 1]
    BY <1>4, <2>1, SubSeqProperties
  <2>. QED  BY <1>2, <2>2
<1>7. PICK front : front = left \o right
  OBVIOUS
<1>8. /\ front \in Seq(S) /\ Len(front) = n - 1
      /\ \A i \in 1..(n - 1) : front[i] = IF i < at THEN entries[i] ELSE entries[i + 1]
  <2>1. /\ front \in Seq(S) /\ Len(front) = Len(left) + Len(right)
        /\ \A i \in 1..(Len(left) + Len(right)) :
              front[i] = IF i <= Len(left) THEN left[i] ELSE right[i - Len(left)]
    BY <1>5, <1>6, <1>7, ConcatProperties
  <2>2. ASSUME NEW i \in 1..(n - 1)
        PROVE  front[i] = IF i < at THEN entries[i] ELSE entries[i + 1]
    <3>1. CASE i < at
      BY <1>2, <1>5, <1>6, <2>1, <3>1
    <3>2. CASE ~(i < at)
      <4>1. i - (at - 1) \in 1..(n - at) /\ at + (i - (at - 1)) = i + 1
        BY <1>2, <3>2
      <4>2. front[i] = right[i - (at - 1)]
        BY <1>2, <1>5, <1>6, <2>1, <3>2
      <4>. QED  BY <1>6, <3>2, <4>1, <4>2
    <3>. QED  BY <3>1, <3>2
  <2>. QED  BY <1>2, <1>5, <1>6, <2>1, <2>2
<1>9. PICK end : end = entries[at]
  OBVIOUS
<1>10. end \in S /\ MovedLast(entries, at) = front \o <<end>>
  BY <1>1, <1>2, <1>3, <1>4, <1>7, <1>9 DEF MovedLast
<1>11. PICK moved : moved = MovedLast(entries, at)
  OBVIOUS
<1>12. moved = Append(front, end)
  BY <1>8, <1>10, <1>11, AppendIsConcat
<1>13. /\ moved \in Seq(S) /\ Len(moved) = n
       /\ (\A i \in 1..(n - 1) : moved[i] = front[i]) /\ moved[n] = end
  <2>1. /\ moved \in Seq(S) /\ Len(moved) = Len(front) + 1
        /\ (\A i \in 1..Len(front) : moved[i] = front[i]) /\ moved[Len(front) + 1] = end
    BY <1>8, <1>10, <1>12, AppendProperties
  <2>. QED  BY <1>8, <2>1
<1>14. ASSUME NEW i \in 1..n
       PROVE  moved[i] = IF i < at THEN entries[i] ELSE IF i < n THEN entries[i + 1] ELSE entries[at]
  <2>1. CASE i < n
    BY <1>2, <1>8, <1>13, <2>1
  <2>2. CASE i = n
    BY <1>2, <1>9, <1>13, <2>2
  <2>. QED  BY <2>1, <2>2
<1>. QED  BY <1>1, <1>11, <1>13, <1>14

\* A file that is open becomes the last one used.
Moved(w, file) == [w EXCEPT !.pool = MovedLast(w.pool, PlaceOf(w, file))]

LEMMA MoveKeeps ==
    ASSUME NEW Files, NEW Lines, NEW w, PoolOK(w, Files, Lines), NEW file, IsOpen(w, file),
           NEW v, v = Moved(w, file)
    PROVE  /\ PoolOK(v, Files, Lines) /\ file \in Files
           /\ Len(v.pool) >= 1 /\ v.pool[Len(v.pool)].file = file
           /\ \A f \in Files : Held(v, f) = Held(w, f)
<1>1. PICK n : n = Len(w.pool)
  OBVIOUS
<1>2. n \in Nat /\ \A i \in 1..n : w.pool[i] \in Entries(Files, Lines)
  BY <1>1, PoolTypes
<1>3. PICK at : at = PlaceOf(w, file)
  OBVIOUS
<1>4. at \in 1..n /\ w.pool[at].file = file
  BY <1>1, <1>3 DEF IsOpen, PlaceOf
<1>5. PICK new : new = MovedLast(w.pool, at)
  OBVIOUS
<1>6. DOMAIN v = {"pool", "files"} /\ v.pool = new /\ v.files = w.files
  BY <1>3, <1>5 DEF PoolOK, Moved
\* Where each entry was before.
<1>7. PICK from : from = [i \in 1..n |-> IF i < at THEN i ELSE IF i < n THEN i + 1 ELSE at]
  OBVIOUS
<1>8. \A i \in 1..n : from[i] \in 1..n /\ new[i] = w.pool[from[i]]
  <2>1. w.pool \in Seq(Entries(Files, Lines))
    BY DEF PoolOK
  <2>2. \A i \in 1..n : new[i] = IF i < at THEN w.pool[i] ELSE IF i < n THEN w.pool[i + 1] ELSE w.pool[at]
    BY <1>1, <1>4, <1>5, <2>1, MovedLastIs
  <2>. QED  BY <1>2, <1>4, <1>7, <2>2
<1>9. \A i, j \in 1..n : from[i] = from[j] => i = j
  BY <1>2, <1>4, <1>7
<1>10. \A k \in 1..n : \E i \in 1..n : from[i] = k
  <2>1. ASSUME NEW k \in 1..n
        PROVE  \E i \in 1..n : from[i] = k
    <3>1. CASE k < at
      <4>1. from[k] = k
        BY <1>7, <3>1
      <4>. QED  BY <4>1
    <3>2. CASE k = at
      <4>1. n \in 1..n /\ from[n] = at
        BY <1>2, <1>4, <1>7
      <4>. QED  BY <3>2, <4>1
    <3>3. CASE k > at
      <4>1. k - 1 \in 1..n /\ from[k - 1] = k
        BY <1>2, <1>4, <1>7, <3>3
      <4>. QED  BY <4>1
    <3>. QED  BY <1>2, <1>4, <3>1, <3>2, <3>3
  <2>. QED  BY <2>1
<1>11. new \in Seq(Entries(Files, Lines)) /\ Len(new) = n
  <2>1. w.pool \in Seq(Entries(Files, Lines))
    BY DEF PoolOK
  <2>. QED  BY <1>1, <1>4, <1>5, <2>1, MovedLastIs
<1>12. \A i, j \in 1..n : new[i].file = new[j].file => i = j
  <2>1. \A k, l \in 1..n : w.pool[k].file = w.pool[l].file => k = l
    BY <1>1 DEF PoolOK
  <2>2. ASSUME NEW i \in 1..n, NEW j \in 1..n, new[i].file = new[j].file
        PROVE  i = j
    <3>1. w.pool[from[i]].file = w.pool[from[j]].file /\ from[i] \in 1..n /\ from[j] \in 1..n
      BY <1>8, <2>2
    <3>2. from[i] = from[j]
      BY <2>1, <3>1
    <3>. QED  BY <1>9, <3>2
  <2>. QED  BY <2>2
<1>13. PoolOK(v, Files, Lines)
  BY <1>1, <1>6, <1>11, <1>12 DEF PoolOK
<1>14. file \in Files /\ Len(v.pool) >= 1 /\ v.pool[Len(v.pool)].file = file
  <2>1. from[n] = at /\ n \in 1..n /\ n >= 1
    BY <1>2, <1>4, <1>7
  <2>2. w.pool[at].file \in Files
    BY <1>2, <1>4 DEF Entries
  <2>. QED  BY <1>4, <1>6, <1>8, <1>11, <2>1, <2>2
<1>15. ASSUME NEW f \in Files
       PROVE  Held(v, f) = Held(w, f)
  <2>1. HeldOpen(w) /\ HeldOpen(v)
    BY <1>13, HeldAt
  <2>2. CASE IsOpen(w, f)
    <3>1. PICK k \in 1..n : w.pool[k].file = f
      BY <1>1, <2>2 DEF IsOpen
    <3>2. PICK i \in 1..n : from[i] = k
      BY <1>10
    <3>3. new[i] = w.pool[k]
      BY <1>8, <3>2
    <3>4. Held(w, w.pool[k].file) = w.files[w.pool[k].file] \o w.pool[k].chunks
      BY <1>1, <2>1, <3>1 DEF HeldOpen
    <3>5. Held(v, new[i].file) = v.files[new[i].file] \o new[i].chunks
      BY <1>6, <1>11, <2>1, <3>2 DEF HeldOpen
    <3>. QED  BY <1>6, <3>1, <3>3, <3>4, <3>5
  <2>3. CASE ~IsOpen(w, f)
    <3>1. ~IsOpen(v, f)
      BY <1>1, <1>6, <1>8, <1>11, <2>3 DEF IsOpen
    <3>. QED  BY <1>6, <2>3, <3>1 DEF Held
  <2>. QED  BY <2>2, <2>3
<1>. QED  BY <1>13, <1>14, <1>15

\* A file that is opened for appending.
Opened(w, file) ==
  [pool |-> Append(w.pool, [file |-> file, chunks |-> <<>>, bytes |-> 0]),
   files |-> [f \in DOMAIN w.files \cup {file} |-> IF f \in DOMAIN w.files THEN w.files[f] ELSE <<>>]]

LEMMA OpenKeeps ==
    ASSUME NEW Files, NEW Lines, NEW w, PoolOK(w, Files, Lines), NEW file, ~IsOpen(w, file),
           Len(w.pool) < MaxOpenFiles, NEW v, v = Opened(w, file)
    PROVE  /\ PoolOK(v, Files \cup {file}, Lines)
           /\ Len(v.pool) >= 1 /\ v.pool[Len(v.pool)].file = file
           /\ \A f \in Files : Held(v, f) = Held(w, f)
           /\ file \notin Files => Held(v, file) = <<>>
<1>1. PICK n : n = Len(w.pool)
  OBVIOUS
<1>2. n \in Nat /\ \A i \in 1..n : w.pool[i] \in Entries(Files, Lines)
  BY <1>1, PoolTypes
<1>3. PICK e : e = [file |-> file, chunks |-> <<>>, bytes |-> 0]
  OBVIOUS
<1>4. PICK All : All = Files \cup {file}
  OBVIOUS
<1>5. e \in Entries(All, Lines) /\ e.file = file /\ e.chunks = <<>>
  BY <1>3, <1>4 DEF Entries
<1>6. /\ DOMAIN v = {"pool", "files"} /\ v.pool = Append(w.pool, e)
      /\ v.files = [f \in All |-> IF f \in Files THEN w.files[f] ELSE <<>>]
  BY <1>3, <1>4 DEF Opened, PoolOK
<1>7. w.pool \in Seq(Entries(All, Lines))
  <2>1. Entries(Files, Lines) \subseteq Entries(All, Lines)
    BY <1>4 DEF Entries
  <2>2. w.pool \in [1..n -> Entries(All, Lines)]
    <3>1. w.pool \in [1..n -> Entries(Files, Lines)]
      BY <1>1, LenProperties DEF PoolOK
    <3>. QED  BY <2>1, <3>1
  <2>. QED  BY <1>2, <2>2, ListLength
<1>8. /\ v.pool \in Seq(Entries(All, Lines)) /\ Len(v.pool) = n + 1
      /\ \A i \in 1..n : v.pool[i] = w.pool[i]
      /\ v.pool[n + 1] = e
  BY <1>1, <1>5, <1>6, <1>7, AppendProperties
<1>9. v.files \in [All -> Seq(Lines)]
  BY <1>6 DEF PoolOK
<1>10. \A i \in 1..n : w.pool[i].file # file
  BY <1>1 DEF IsOpen
<1>11. \A i, j \in 1..(n + 1) : v.pool[i].file = v.pool[j].file => i = j
  <2>1. ASSUME NEW i \in 1..(n + 1), NEW j \in 1..(n + 1), v.pool[i].file = v.pool[j].file
        PROVE  i = j
    <3>1. CASE i \in 1..n /\ j \in 1..n
      BY <1>1, <1>8, <2>1, <3>1 DEF PoolOK
    <3>2. CASE i = n + 1 /\ j \in 1..n
      BY <1>5, <1>8, <1>10, <2>1, <3>2
    <3>3. CASE i \in 1..n /\ j = n + 1
      BY <1>5, <1>8, <1>10, <2>1, <3>3
    <3>. QED  BY <1>2, <3>1, <3>2, <3>3
  <2>. QED  BY <2>1
<1>12. n + 1 <= MaxOpenFiles
  <2>1. MaxOpenFiles \in Nat
    BY ExportAssumption
  <2>. QED  BY <1>1, <1>2, <2>1
<1>13. PoolOK(v, All, Lines)
  BY <1>6, <1>8, <1>9, <1>11, <1>12 DEF PoolOK
<1>14. HeldOpen(w) /\ HeldOpen(v)
  BY <1>13, HeldAt
<1>15. ASSUME NEW f \in Files
       PROVE  Held(v, f) = Held(w, f)
  <2>1. v.files[f] = w.files[f] /\ w.files[f] \in Seq(Lines)
    BY <1>4, <1>6 DEF PoolOK
  <2>2. CASE IsOpen(w, f)
    <3>1. PICK i \in 1..n : w.pool[i].file = f
      BY <1>1, <2>2 DEF IsOpen
    <3>2. i \in 1..(n + 1) /\ v.pool[i] = w.pool[i]
      BY <1>2, <1>8, <3>1
    <3>3. Held(w, w.pool[i].file) = w.files[w.pool[i].file] \o w.pool[i].chunks
      BY <1>1, <1>14, <3>1 DEF HeldOpen
    <3>4. Held(v, v.pool[i].file) = v.files[v.pool[i].file] \o v.pool[i].chunks
      BY <1>8, <1>14, <3>2 DEF HeldOpen
    <3>. QED  BY <2>1, <3>1, <3>2, <3>3, <3>4
  <2>3. CASE f = file
    <3>1. n + 1 \in 1..(n + 1)
      BY <1>2
    <3>2. Held(v, f) = v.files[f] \o e.chunks
      BY <1>5, <1>8, <1>14, <2>3, <3>1 DEF HeldOpen
    <3>3. v.files[f] \o e.chunks = w.files[f]
      BY <1>5, <2>1, ConcatEmptySeq
    <3>4. Held(w, f) = w.files[f]
      BY <2>3 DEF Held
    <3>. QED  BY <3>2, <3>3, <3>4
  <2>4. CASE ~IsOpen(w, f) /\ f # file
    <3>1. ~IsOpen(v, f)
      <4>1. \A i \in 1..(n + 1) : i \in 1..n \/ i = n + 1
        BY <1>2
      <4>2. \A i \in 1..n : w.pool[i].file # f
        BY <1>1, <2>4 DEF IsOpen
      <4>. QED  BY <1>5, <1>8, <2>4, <4>1, <4>2 DEF IsOpen
    <3>. QED  BY <2>1, <2>4, <3>1 DEF Held
  <2>. QED  BY <2>2, <2>3, <2>4
<1>16. ASSUME file \notin Files
       PROVE  Held(v, file) = <<>>
  <2>1. n + 1 \in 1..(n + 1) /\ v.files[file] = <<>>
    BY <1>2, <1>4, <1>6, <1>16
  <2>2. Held(v, file) = v.files[file] \o e.chunks
    BY <1>5, <1>8, <1>14, <2>1 DEF HeldOpen
  <2>3. <<>> \o <<>> = <<>>
    <3>1. <<>> \in Seq(Lines)
      OBVIOUS
    <3>. QED  BY <3>1, ConcatEmptySeq
  <2>. QED  BY <1>5, <2>1, <2>2, <2>3
<1>17. Len(v.pool) >= 1 /\ v.pool[Len(v.pool)].file = file
  BY <1>2, <1>5, <1>8
<1>. QED  BY <1>4, <1>13, <1>15, <1>16, <1>17

LEMMA HandleKeeps ==
    ASSUME NEW Files, NEW Lines, NEW w, PoolOK(w, Files, Lines), NEW file, NEW v, v = handleFor(w, file)
    PROVE  /\ PoolOK(v, Files \cup {file}, Lines)
           /\ Len(v.pool) >= 1 /\ v.pool[Len(v.pool)].file = file
           /\ \A f \in Files : Held(v, f) = Held(w, f)
           /\ file \notin Files => Held(v, file) = <<>>
<1>1. CASE IsOpen(w, file)
  <2>1. v = Moved(w, file)
    BY <1>1 DEF handleFor, Moved
  <2>2. /\ PoolOK(v, Files, Lines) /\ file \in Files
        /\ Len(v.pool) >= 1 /\ v.pool[Len(v.pool)].file = file
        /\ \A f \in Files : Held(v, f) = Held(w, f)
    BY <1>1, <2>1, MoveKeeps
  <2>3. Files \cup {file} = Files
    BY <2>2
  <2>. QED  BY <2>2, <2>3
<1>2. CASE ~IsOpen(w, file)
  <2>1. PICK room : room = IF Len(w.pool) >= MaxOpenFiles THEN Evicted(w) ELSE w
    OBVIOUS
  <2>2. v = Opened(room, file)
    BY <1>2, <2>1 DEF handleFor, Opened
  <2>3. Len(w.pool) \in Nat /\ Len(w.pool) <= MaxOpenFiles /\ MaxOpenFiles \in Nat \ {0}
    <3>1. Len(w.pool) <= MaxOpenFiles
      BY DEF PoolOK
    <3>. QED  BY <3>1, PoolTypes, ExportAssumption
  <2>4. /\ PoolOK(room, Files, Lines) /\ ~IsOpen(room, file) /\ Len(room.pool) < MaxOpenFiles
        /\ \A f \in Files : Held(room, f) = Held(w, f)
    <3>1. CASE Len(w.pool) >= MaxOpenFiles
      <4>1. w.pool # <<>> /\ room = Evicted(w)
        BY <2>1, <2>3, <3>1
      <4>2. /\ PoolOK(room, Files, Lines) /\ Len(room.pool) + 1 = Len(w.pool)
            /\ \A f \in Files : Held(room, f) = Held(w, f) /\ (IsOpen(room, f) => IsOpen(w, f))
        BY <4>1, EvictKeeps
      <4>3. Len(room.pool) \in Nat /\ \A i \in 1..Len(room.pool) : room.pool[i].file \in Files
        <5>1. \A e \in Entries(Files, Lines) : e.file \in Files
          BY DEF Entries
        <5>. QED  BY <4>2, <5>1, PoolTypes
      <4>4. ~IsOpen(room, file)
        <5>1. ASSUME IsOpen(room, file)
              PROVE  FALSE
          <6>1. file \in Files
            BY <4>3, <5>1 DEF IsOpen
          <6>. QED  BY <1>2, <4>2, <5>1, <6>1
        <5>. QED  BY <5>1
      <4>. QED  BY <2>3, <4>2, <4>3, <4>4
    <3>2. CASE ~(Len(w.pool) >= MaxOpenFiles)
      BY <1>2, <2>1, <2>3, <3>2
    <3>. QED  BY <3>1, <3>2
  <2>5. /\ PoolOK(v, Files \cup {file}, Lines)
        /\ Len(v.pool) >= 1 /\ v.pool[Len(v.pool)].file = file
        /\ \A f \in Files : Held(v, f) = Held(room, f)
        /\ file \notin Files => Held(v, file) = <<>>
    BY <2>2, <2>4, OpenKeeps
  <2>. QED  BY <2>4, <2>5
<1>. QED  BY <1>1, <1>2

\* A line is appended to what its file holds; other files hold what they did.
Appended(u, w, Files, Lines, file, line) ==
  /\ PoolOK(u, Files \cup {file}, Lines)
  /\ \A f \in Files : f # file => Held(u, f) = Held(w, f)
  /\ Held(u, file) = Append(IF file \in Files THEN Held(w, file) ELSE <<>>, line)

LEMMA WriteAppends ==
    ASSUME NEW Files, NEW Lines, NEW w, PoolOK(w, Files, Lines), NEW file, NEW line \in Lines,
           NEW bytes \in Int, NEW u, u = write(w, file, line, bytes)
    PROVE  Appended(u, w, Files, Lines, file, line)
<1>. SUFFICES /\ PoolOK(u, Files \cup {file}, Lines)
              /\ \A f \in Files : f # file => Held(u, f) = Held(w, f)
              /\ Held(u, file) = Append(IF file \in Files THEN Held(w, file) ELSE <<>>, line)
  BY DEF Appended
<1>1. PICK v : v = handleFor(w, file)
  OBVIOUS
<1>2. PICK All : All = Files \cup {file}
  OBVIOUS
<1>3. /\ PoolOK(v, All, Lines) /\ Len(v.pool) >= 1 /\ v.pool[Len(v.pool)].file = file
      /\ \A f \in Files : Held(v, f) = Held(w, f)
      /\ file \notin Files => Held(v, file) = <<>>
  BY <1>1, <1>2, HandleKeeps
<1>4. PICK n : n = Len(v.pool)
  OBVIOUS
<1>5. n \in Nat /\ n \in 1..n /\ v.pool[n] \in Entries(All, Lines) /\ v.pool[n].file = file
  BY <1>3, <1>4, PoolTypes
<1>6. PICK chunks : chunks = v.pool[n].chunks
  OBVIOUS
<1>7. chunks \in Seq(Lines) /\ v.pool[n].bytes \in Int /\ file \in All
  BY <1>2, <1>5, <1>6 DEF Entries
<1>8. PICK more : more = Append(chunks, line)
  OBVIOUS
<1>9. more \in Seq(Lines)
  BY <1>7, <1>8, AppendProperties
<1>10. PICK entry : entry = [file |-> file, chunks |-> more, bytes |-> v.pool[n].bytes + bytes]
  OBVIOUS
<1>11. entry \in Entries(All, Lines) /\ entry.file = file /\ entry.chunks = more
  BY <1>7, <1>9, <1>10 DEF Entries
<1>12. PICK empty : empty = [file |-> file, chunks |-> <<>>, bytes |-> 0]
  OBVIOUS
<1>13. empty \in Entries(All, Lines) /\ empty.file = file /\ empty.chunks = <<>>
  BY <1>7, <1>12 DEF Entries
<1>14. PICK old : old = v.files[file]
  OBVIOUS
<1>15. old \in Seq(Lines) /\ v.files \in [All -> Seq(Lines)]
  BY <1>3, <1>7, <1>14 DEF PoolOK
<1>16. HeldOpen(v)
  BY <1>3, HeldAt
<1>17. Held(v, file) = old \o chunks
  BY <1>4, <1>5, <1>6, <1>14, <1>16 DEF HeldOpen
<1>18. old \o more = Append(old \o chunks, line)
  <2>1. /\ more = chunks \o <<line>> /\ <<line>> \in Seq(Lines)
        /\ old \o chunks \in Seq(Lines)
    BY <1>7, <1>8, <1>15, AppendIsConcat, ConcatProperties
  <2>2. Append(old \o chunks, line) = (old \o chunks) \o <<line>>
    BY <2>1, AppendIsConcat
  <2>3. (old \o chunks) \o <<line>> = old \o (chunks \o <<line>>)
    BY <1>7, <1>15, <2>1, ConcatAssociative
  <2>. QED  BY <2>1, <2>2, <2>3
<1>19. Append(old \o chunks, line) = Append(IF file \in Files THEN Held(w, file) ELSE <<>>, line)
  BY <1>3, <1>17
\* Both ways the last entry changes, and what it and its file hold together is the same.
<1>20. ASSUME NEW last \in Entries(All, Lines), last.file = file, NEW content \in Seq(Lines),
              content \o last.chunks = old \o more,
              DOMAIN u = {"pool", "files"}, u.pool = [v.pool EXCEPT ![n] = last],
              u.files = [v.files EXCEPT ![file] = content]
       PROVE  /\ PoolOK(u, All, Lines) /\ Held(u, file) = old \o more
              /\ \A f \in Files : f # file => Held(u, f) = Held(v, f)
  <2>1. /\ u.pool \in Seq(Entries(All, Lines)) /\ Len(u.pool) = n
        /\ \A i \in 1..n : u.pool[i] = IF i = n THEN last ELSE v.pool[i]
    <3>1. v.pool \in Seq(Entries(All, Lines))
      BY <1>3 DEF PoolOK
    <3>. QED  BY <1>4, <1>5, <1>20, <3>1, ExceptSeq
  <2>2. u.files \in [All -> Seq(Lines)] /\ u.files[file] = content /\ \A f \in All : f # file => u.files[f] = v.files[f]
    BY <1>7, <1>15, <1>20
  <2>3. \A i \in 1..n : u.pool[i].file = v.pool[i].file
    BY <1>5, <1>20, <2>1
  <2>4. PoolOK(u, All, Lines)
    BY <1>3, <1>4, <1>20, <2>1, <2>2, <2>3 DEF PoolOK
  <2>5. HeldOpen(u)
    BY <2>4, HeldAt
  <2>6. Held(u, file) = old \o more
    <3>1. u.pool[n] = last /\ n \in 1..Len(u.pool)
      BY <1>5, <2>1
    <3>2. Held(u, last.file) = u.files[last.file] \o last.chunks
      BY <2>5, <3>1 DEF HeldOpen
    <3>. QED  BY <1>20, <2>2, <3>2
  <2>7. ASSUME NEW f \in Files, f # file
        PROVE  Held(u, f) = Held(v, f)
    <3>1. u.files[f] = v.files[f]
      BY <1>2, <2>2, <2>7
    <3>2. CASE IsOpen(v, f)
      <4>1. PICK i \in 1..n : v.pool[i].file = f
        BY <1>4, <3>2 DEF IsOpen
      <4>2. i # n /\ u.pool[i] = v.pool[i]
        BY <1>5, <2>1, <2>7, <4>1
      <4>3. Held(v, v.pool[i].file) = v.files[v.pool[i].file] \o v.pool[i].chunks
        BY <1>4, <1>16, <4>1 DEF HeldOpen
      <4>4. Held(u, u.pool[i].file) = u.files[u.pool[i].file] \o u.pool[i].chunks
        BY <2>1, <2>5, <4>1 DEF HeldOpen
      <4>. QED  BY <3>1, <4>1, <4>2, <4>3, <4>4
    <3>3. CASE ~IsOpen(v, f)
      <4>1. ~IsOpen(u, f)
        BY <1>4, <2>1, <2>3, <3>3 DEF IsOpen
      <4>. QED  BY <3>1, <3>3, <4>1 DEF Held
    <3>. QED  BY <3>2, <3>3
  <2>. QED  BY <2>4, <2>6, <2>7
<1>21. CASE entry.bytes < FlushThreshold
  <2>1. u = [v EXCEPT !.pool[n] = entry]
    BY <1>1, <1>4, <1>6, <1>8, <1>10, <1>21 DEF write
  <2>2. DOMAIN u = {"pool", "files"} /\ u.pool = [v.pool EXCEPT ![n] = entry] /\ u.files = v.files
    BY <1>3, <2>1 DEF PoolOK
  <2>3. v.files = [v.files EXCEPT ![file] = old]
    BY <1>14, <1>15
  <2>4. /\ PoolOK(u, All, Lines) /\ Held(u, file) = old \o more
        /\ \A f \in Files : f # file => Held(u, f) = Held(v, f)
    BY <1>11, <1>15, <1>20, <2>2, <2>3
  <2>. QED  BY <1>2, <1>3, <1>18, <1>19, <2>4
<1>22. CASE ~(entry.bytes < FlushThreshold)
  <2>1. /\ DOMAIN u = {"pool", "files"} /\ u.pool = [v.pool EXCEPT ![n] = empty]
        /\ u.files = [v.files EXCEPT ![file] = old \o more]
    <3>1. u = [pool |-> [v.pool EXCEPT ![n] = empty], files |-> Flushed(v.files, entry)]
      BY <1>1, <1>4, <1>6, <1>8, <1>10, <1>12, <1>22 DEF write
    <3>. QED  BY <1>11, <1>14, <3>1 DEF Flushed
  <2>2. old \o more \in Seq(Lines) /\ (old \o more) \o empty.chunks = old \o more
    BY <1>9, <1>13, <1>15, ConcatProperties, ConcatEmptySeq
  <2>3. /\ PoolOK(u, All, Lines) /\ Held(u, file) = old \o more
        /\ \A f \in Files : f # file => Held(u, f) = Held(v, f)
    BY <1>13, <1>20, <2>1, <2>2
  <2>. QED  BY <1>2, <1>3, <1>18, <1>19, <2>3
<1>. QED  BY <1>21, <1>22

(***************************************************************************)
(* What a file measures.                                                   *)
(***************************************************************************)
Sums(base, step, n, g) == g = [i \in 0..n |-> IF i = 0 THEN base ELSE g[i - 1] + step[i]]

LEMMA SumsExist ==
    ASSUME NEW base, NEW step, NEW n \in Nat
    PROVE  \E g : Sums(base, step, n, g)
<1>1. PICK T : T = {m \in Nat : ~\E g : Sums(base, step, m, g)}
  OBVIOUS
<1>2. SUFFICES ASSUME T # {}
               PROVE  FALSE
  BY <1>1
<1>3. PICK m \in T : \A k \in T : m <= k
  <2>1. T \in SUBSET Nat
    BY <1>1
  <2>. QED  BY <1>2, <2>1, LeastNumber
<1>4. m \in Nat /\ ~\E g : Sums(base, step, m, g)
  BY <1>1
<1>5. CASE m = 0
  <2>1. PICK g : g = [i \in 0..0 |-> base]
    OBVIOUS
  <2>2. g = [i \in 0..0 |-> IF i = 0 THEN base ELSE g[i - 1] + step[i]]
    BY <2>1
  <2>. QED  BY <1>4, <1>5, <2>2 DEF Sums
<1>6. CASE m # 0
  <2>1. PICK p \in Nat : p + 1 = m
    <3>1. m - 1 \in Nat /\ (m - 1) + 1 = m
      BY <1>4, <1>6
    <3>. QED  BY <3>1
  <2>2. p \notin T
    BY <1>3, <1>4, <2>1
  <2>3. PICK g : Sums(base, step, p, g)
    BY <1>1, <2>2
  <2>4. PICK h : h = [i \in 0..m |-> IF i = m THEN g[p] + step[m] ELSE g[i]]
    OBVIOUS
  <2>5. ASSUME NEW i \in 0..m
        PROVE  h[i] = IF i = 0 THEN base ELSE h[i - 1] + step[i]
    <3>1. CASE i = m
      <4>1. i # 0 /\ i - 1 = p /\ p \in 0..m /\ p # m
        BY <2>1, <3>1
      <4>2. h[p] = g[p] /\ h[i] = g[p] + step[m]
        BY <2>4, <3>1, <4>1
      <4>. QED  BY <3>1, <4>1, <4>2
    <3>2. CASE i = 0
      <4>1. 0 \in 0..p /\ 0 # m
        BY <1>6, <2>1
      <4>2. g[0] = base
        BY <2>3, <4>1 DEF Sums
      <4>. QED  BY <2>4, <3>2, <4>1, <4>2
    <3>3. CASE i # 0 /\ i # m
      <4>1. i \in 0..p /\ i - 1 \in 0..m /\ i - 1 # m
        BY <2>1, <3>3
      <4>2. g[i] = g[i - 1] + step[i]
        BY <2>3, <3>3, <4>1 DEF Sums
      <4>. QED  BY <2>4, <3>3, <4>1, <4>2
    <3>. QED  BY <3>1, <3>2, <3>3
  <2>6. h = [i \in 0..m |-> IF i = 0 THEN base ELSE h[i - 1] + step[i]]
    <3>1. h = [i \in 0..m |-> h[i]]
      BY <2>4
    <3>. QED  BY <2>5, <3>1
  <2>. QED  BY <1>4, <2>6 DEF Sums
<1>. QED  BY <1>5, <1>6

LEMMA SumsAgree ==
    ASSUME NEW base, NEW step, NEW more, NEW n \in Nat, NEW m \in Nat, n <= m,
           \A i \in 1..n : step[i] = more[i],
           NEW g, Sums(base, step, n, g), NEW h, Sums(base, more, m, h)
    PROVE  g[n] = h[n]
<1>1. PICK T : T = {i \in 0..n : g[i] # h[i]}
  OBVIOUS
<1>2. SUFFICES ASSUME T # {}
               PROVE  FALSE
  <2>1. n \in 0..n
    OBVIOUS
  <2>. QED  BY <1>1, <2>1
<1>3. PICK k \in T : \A i \in T : k <= i
  <2>1. T \in SUBSET Nat
    BY <1>1
  <2>. QED  BY <1>2, <2>1, LeastNumber
<1>4. k \in 0..n /\ k \in 0..m /\ g[k] # h[k]
  BY <1>1
<1>5. CASE k = 0
  <2>1. g[k] = base /\ h[k] = base
    BY <1>4, <1>5 DEF Sums
  <2>. QED  BY <1>4, <2>1
<1>6. CASE k # 0
  <2>1. k - 1 \in 0..n /\ k \in 1..n /\ ~(k <= k - 1)
    BY <1>4, <1>6
  <2>2. g[k - 1] = h[k - 1]
    BY <1>1, <1>3, <2>1
  <2>3. g[k] = g[k - 1] + step[k] /\ h[k] = h[k - 1] + more[k]
    BY <1>4, <1>6 DEF Sums
  <2>. QED  BY <1>4, <2>1, <2>2, <2>3
<1>. QED  BY <1>5, <1>6

LEMMA BytesSum ==
    ASSUME NEW lines, NEW n \in Nat, Len(lines) = n, NEW step, step = [i \in 1..n |-> RowAt(lines[i]).bytes]
    PROVE  \E g : Sums(HeaderBytes, step, n, g) /\ BytesOf(lines) = g[n]
<1>1. PICK g : g = CHOOSE total : total =
          [k \in 0..Len(lines) |-> IF k = 0 THEN HeaderBytes ELSE total[k - 1] + RowAt(lines[k]).bytes]
  OBVIOUS
<1>2. \A h : Sums(HeaderBytes, step, n, h)
        <=> h = [k \in 0..n |-> IF k = 0 THEN HeaderBytes ELSE h[k - 1] + RowAt(lines[k]).bytes]
  <2>1. ASSUME NEW h
        PROVE  [i \in 0..n |-> IF i = 0 THEN HeaderBytes ELSE h[i - 1] + step[i]]
                 = [k \in 0..n |-> IF k = 0 THEN HeaderBytes ELSE h[k - 1] + RowAt(lines[k]).bytes]
    <3>1. \A i \in 0..n : i # 0 => step[i] = RowAt(lines[i]).bytes
      OBVIOUS
    <3>. QED  BY <3>1
  <2>. QED  BY <2>1 DEF Sums
<1>3. Sums(HeaderBytes, step, n, g)
  <2>1. PICK h : Sums(HeaderBytes, step, n, h)
    BY SumsExist
  <2>2. h = [k \in 0..n |-> IF k = 0 THEN HeaderBytes ELSE h[k - 1] + RowAt(lines[k]).bytes]
    BY <1>2, <2>1
  <2>3. g = [k \in 0..n |-> IF k = 0 THEN HeaderBytes ELSE g[k - 1] + RowAt(lines[k]).bytes]
    BY <1>1, <2>2
  <2>. QED  BY <1>2, <2>3
<1>4. BytesOf(lines) = g[n]
  <2>1. BytesOf(lines) = g[Len(lines)]
    BY <1>1 DEF BytesOf
  <2>. QED  BY <2>1
<1>. QED  BY <1>3, <1>4

\* The header comes first, and each line adds what it measures.
LEMMA BytesGrow ==
    ASSUME NEW S, NEW lines \in Seq(S), NEW l \in S
    PROVE  /\ BytesOf(<<>>) = HeaderBytes
           /\ BytesOf(Append(lines, l)) = BytesOf(lines) + RowAt(l).bytes
<1>1. BytesOf(<<>>) = HeaderBytes
  <2>1. PICK none : none = <<>>
    OBVIOUS
  <2>2. PICK n \in Nat : n = 0 /\ Len(none) = n
    <3>1. 0 \in Nat /\ Len(none) = 0
      BY <2>1
    <3>. QED  BY <3>1
  <2>3. PICK step : step = [i \in 1..n |-> RowAt(none[i]).bytes]
    OBVIOUS
  <2>4. PICK g : Sums(HeaderBytes, step, n, g) /\ BytesOf(none) = g[n]
    BY <2>2, <2>3, BytesSum
  <2>5. g[n] = HeaderBytes
    BY <2>2, <2>4 DEF Sums
  <2>. QED  BY <2>1, <2>4, <2>5
<1>2. PICK n \in Nat : Len(lines) = n
  BY LenProperties
<1>3. PICK longer : longer = Append(lines, l)
  OBVIOUS
<1>4. Len(longer) = n + 1 /\ longer[n + 1] = l /\ \A i \in 1..n : longer[i] = lines[i]
  BY <1>2, <1>3, AppendProperties
<1>5. PICK step : step = [i \in 1..n |-> RowAt(lines[i]).bytes]
  OBVIOUS
<1>6. PICK m \in Nat : m = n + 1
  OBVIOUS
<1>7. PICK more : more = [i \in 1..m |-> RowAt(longer[i]).bytes]
  OBVIOUS
<1>8. PICK g : Sums(HeaderBytes, step, n, g) /\ BytesOf(lines) = g[n]
  BY <1>2, <1>5, BytesSum
<1>9. PICK h : Sums(HeaderBytes, more, m, h) /\ BytesOf(longer) = h[m]
  BY <1>4, <1>6, <1>7, BytesSum
<1>10. g[n] = h[n]
  <2>1. n <= m /\ \A i \in 1..n : step[i] = more[i]
    BY <1>4, <1>5, <1>6, <1>7
  <2>. QED  BY <1>8, <1>9, <2>1, SumsAgree
<1>11. h[m] = h[n] + more[m]
  <2>1. m \in 0..m /\ m # 0 /\ m - 1 = n
    BY <1>6
  <2>2. h[m] = h[m - 1] + more[m]
    BY <1>9, <2>1 DEF Sums
  <2>. QED  BY <2>1, <2>2
<1>12. more[m] = RowAt(l).bytes
  <2>1. m \in 1..m
    BY <1>6
  <2>. QED  BY <1>4, <1>6, <1>7, <2>1
<1>. QED  BY <1>1, <1>3, <1>8, <1>9, <1>10, <1>11, <1>12

(***************************************************************************)
(* An export under way: each file, with its buffers, is its header and     *)
(* the data rows read so far that belong to it.                            *)
(***************************************************************************)
Line == {HeaderLine} \cup (Nat \X Nat)

Pool == [pool |-> pool, files |-> files]

ListedBy(s, own) ==
  /\ \A i \in 1..Len(s) : s[i] \in own
  /\ \A i, j \in 1..Len(s) : i < j => Above(s[i], s[j])
  /\ \A l \in own : \E i \in 1..Len(s) : s[i] = l

OwnLines(R, f) == {l \in R : FileOf(RowAt(l)) = f}

NamesFit(own, name) == \A l \in own : NamedBy(RowAt(l), name)

StateOK(st, own) ==
  /\ \E s \in Seq(Nat \X Nat) :
       /\ st.hashed = <<HeaderLine>> \o s /\ st.count = Len(s) /\ st.bytes = BytesOf(s)
       /\ ListedBy(s, own)
  /\ NamesFit(own, st.name)

\* The data rows above the reader.
Read == {l \in DataLines : l[1] < reader.sheet \/ (l[1] = reader.sheet /\ l[2] < reader.row)}

PlaceOK ==
  /\ reader.sheet \in 1..Len(source.sheets) /\ reader.row \in 1..(Len(Sheet.rows) + 1)
  /\ reader.header \in BOOLEAN
  /\ reader.header <=> \E h \in 1..(reader.row - 1) : Sheet.rows[h].kind = "header"
  /\ reader.pc = "close" => reader.sheet = Len(source.sheets) /\ reader.row = Len(Sheet.rows) + 1

FilesOfRows(R) ==
  /\ DOMAIN states = {FileOf(RowAt(l)) : l \in R}
  /\ PoolOK(Pool, DOMAIN states, Line)
  /\ \A f \in DOMAIN states :
        states[f].hashed = Held(Pool, f) /\ StateOK(states[f], OwnLines(R, f))

ReaderShape == DOMAIN reader = {"pc", "sheet", "row", "header", "seen"}

ExportInv ==
  /\ source \in ExportSources /\ ReaderShape
  /\ reader.pc \in {"rows", "close", "done", "failed"}
  /\ reader.pc \in {"rows", "close"} => PlaceOK /\ FilesOfRows(Read)
  /\ ExportIsTheSource

LEMMA SourceStands ==
    ASSUME UNCHANGED source
    PROVE  /\ DataLines' = DataLines /\ \A l : RowAt(l)' = RowAt(l)
           /\ \A s : BytesOf(s)' = BytesOf(s)
           /\ \A R, f : OwnLines(R, f)' = OwnLines(R, f)
           /\ \A st, own : StateOK(st, own)' = StateOK(st, own)
<1>1. \A l : RowAt(l)' = RowAt(l)
  BY DEF RowAt
<1>2. DataLines' = DataLines
  BY DEF DataLines, RowAt, Passed, isSummary
<1>3. \A s : BytesOf(s)' = BytesOf(s)
  BY DEF BytesOf, RowAt
<1>4. \A R, f : OwnLines(R, f)' = OwnLines(R, f)
  BY <1>1 DEF OwnLines
<1>5. \A own, name : NamesFit(own, name)' = NamesFit(own, name)
  BY <1>1 DEF NamesFit
<1>. QED  BY <1>1, <1>2, <1>3, <1>4, <1>5 DEF StateOK

\* The position the reader is at, and whether it is a data row's.
LEMMA HereIsData ==
    ASSUME ExportInv, AtRow
    PROVE  /\ ThisLine \in Nat \X Nat /\ RowAt(ThisLine) = ThisRow
           /\ ThisLine \in DataLines <=> reader.header /\ ~Passed(ThisRow)
<1>1. PICK n, k : n = reader.sheet /\ k = reader.row
  OBVIOUS
<1>2. /\ n \in 1..Len(source.sheets) /\ k \in 1..Len(source.sheets[n].rows)
      /\ n \in Nat /\ k \in Nat
      /\ reader.header <=> \E h \in 1..(k - 1) : source.sheets[n].rows[h].kind = "header"
  <2>1. PlaceOK /\ Len(source.sheets) \in Nat /\ Len(source.sheets[n].rows) \in Nat
    BY <1>1, ExportAssumption DEF ExportInv, AtRow, PlaceOK
  <2>. QED  BY <1>1, <2>1 DEF PlaceOK, AtRow, Sheet
<1>3. PICK l : l = <<n, k>>
  OBVIOUS
<1>4. l[1] = n /\ l[2] = k /\ l = ThisLine /\ l \in Nat \X Nat
  BY <1>1, <1>2, <1>3 DEF ThisLine
<1>5. RowAt(l) = ThisRow
  BY <1>1, <1>4 DEF RowAt, ThisRow, Sheet
<1>6. l \in UNION {{m} \X (1..Len(source.sheets[m].rows)) : m \in 1..Len(source.sheets)}
  <2>1. l \in {n} \X (1..Len(source.sheets[n].rows))
    BY <1>2, <1>3
  <2>. QED  BY <1>2, <2>1
<1>7. \A h : RowAt(<<n, h>>) = source.sheets[n].rows[h]
  BY DEF RowAt
<1>. QED  BY <1>2, <1>4, <1>5, <1>6, <1>7 DEF DataLines

\* Passing a row adds it to what was read if it is a data row.
LEMMA ReadGrows ==
    ASSUME ExportInv, AtRow, UNCHANGED source, reader'.sheet = reader.sheet, reader'.row = reader.row + 1
    PROVE  /\ Read' = IF ThisLine \in DataLines THEN Read \cup {ThisLine} ELSE Read
           /\ ThisLine \notin Read /\ \A l \in Read : l \in Nat \X Nat /\ Above(l, ThisLine)
<1>1. PICK n, k : n = reader.sheet /\ k = reader.row
  OBVIOUS
<1>2. n \in Nat /\ k \in Nat /\ ThisLine = <<n, k>> /\ ThisLine[1] = n /\ ThisLine[2] = k
  <2>1. PlaceOK /\ Len(source.sheets) \in Nat /\ Len(Sheet.rows) \in Nat
    BY ExportAssumption DEF ExportInv, AtRow, PlaceOK, Sheet
  <2>. QED  BY <1>1, <2>1 DEF PlaceOK, ThisLine
<1>3. \A l \in DataLines : l \in Nat \X Nat /\ l = <<l[1], l[2]>> /\ l[1] \in Nat /\ l[2] \in Nat
  <2>1. ASSUME NEW l \in DataLines
        PROVE  l \in Nat \X Nat
    <3>1. PICK m \in 1..Len(source.sheets) : l \in {m} \X (1..Len(source.sheets[m].rows))
      BY DEF DataLines
    <3>2. Len(source.sheets) \in Nat /\ Len(source.sheets[m].rows) \in Nat
      BY ExportAssumption DEF ExportInv
    <3>. QED  BY <3>1, <3>2
  <2>. QED  BY <2>1
<1>4. Read = {l \in DataLines : l[1] < n \/ (l[1] = n /\ l[2] < k)}
  BY <1>1 DEF Read
<1>5. Read' = {l \in DataLines : l[1] < n \/ (l[1] = n /\ l[2] < k + 1)}
  <2>1. DataLines' = DataLines
    BY SourceStands
  <2>. QED  BY <1>1, <2>1 DEF Read
<1>6. \A l \in DataLines : l[2] < k + 1 /\ l[1] = n => l[2] < k \/ l = ThisLine
  BY <1>2, <1>3
<1>7. ThisLine \notin Read
  BY <1>2, <1>4
<1>8. Read' = IF ThisLine \in DataLines THEN Read \cup {ThisLine} ELSE Read
  <2>1. \A l : l \in Read' <=> l \in Read \/ (l = ThisLine /\ ThisLine \in DataLines)
    BY <1>2, <1>3, <1>4, <1>5, <1>6
  <2>. QED  BY <2>1
<1>9. \A l \in Read : l \in Nat \X Nat /\ Above(l, ThisLine)
  BY <1>2, <1>3, <1>4 DEF Above
<1>. QED  BY <1>7, <1>8, <1>9

LEMMA PlaceMoves ==
    ASSUME ExportInv, AtRow, UNCHANGED source, NEW header \in BOOLEAN, StepOver(header),
           header <=> reader.header \/ ThisRow.kind = "header"
    PROVE  /\ PlaceOK' /\ ReaderShape' /\ reader'.pc = "rows"
           /\ reader'.sheet = reader.sheet /\ reader'.row = reader.row + 1
<1>1. /\ reader'.pc = "rows" /\ reader'.sheet = reader.sheet /\ reader'.row = reader.row + 1
      /\ reader'.header = header /\ ReaderShape'
  BY DEF StepOver, AtRow, ExportInv, ReaderShape
<1>2. Sheet' = Sheet
  BY <1>1 DEF Sheet
<1>3. PICK k, n : k = reader.row /\ n = Len(Sheet.rows)
  OBVIOUS
<1>4. k \in 1..n /\ n \in Nat
  <2>1. PlaceOK /\ n \in Nat
    BY <1>3, ExportAssumption DEF ExportInv, AtRow, PlaceOK, Sheet
  <2>. QED  BY <1>3, <2>1 DEF PlaceOK, AtRow
<1>5. k + 1 \in 1..(n + 1) /\ (k + 1) - 1 = k /\ \A h : h \in 1..k <=> h \in 1..(k - 1) \/ h = k
  BY <1>4
<1>6. header <=> \E h \in 1..k : Sheet.rows[h].kind = "header"
  <2>1. reader.header <=> \E h \in 1..(k - 1) : Sheet.rows[h].kind = "header"
    BY <1>3 DEF ExportInv, AtRow, PlaceOK
  <2>2. ThisRow = Sheet.rows[k]
    BY <1>3 DEF ThisRow
  <2>. QED  BY <1>5, <2>1, <2>2
<1>7. reader.sheet \in 1..Len(source.sheets)
  BY DEF ExportInv, AtRow, PlaceOK
<1>8. reader'.sheet \in 1..Len(source'.sheets) /\ reader'.row \in 1..(Len(Sheet'.rows) + 1)
  BY <1>1, <1>2, <1>3, <1>5, <1>7
<1>9. reader'.header <=> \E h \in 1..(reader'.row - 1) : Sheet'.rows[h].kind = "header"
  <2>1. reader'.row - 1 = k
    BY <1>1, <1>3, <1>5
  <2>. QED  BY <1>1, <1>2, <1>6, <2>1, Zenon
<1>10. PlaceOK'
  BY <1>1, <1>8, <1>9 DEF PlaceOK
<1>. QED  BY <1>1, <1>10

\* A row that is set aside.
LEMMA PassRow ==
    ASSUME ExportInv, AtRow, UNCHANGED <<source, pool, files, states>>,
           NEW header \in BOOLEAN, StepOver(header),
           header <=> reader.header \/ ThisRow.kind = "header", ThisLine \notin DataLines
    PROVE  ExportInv'
<1>1. /\ PlaceOK' /\ ReaderShape' /\ reader'.pc = "rows"
      /\ reader'.sheet = reader.sheet /\ reader'.row = reader.row + 1
  BY PlaceMoves
<1>2. Read' = Read
  BY <1>1, ReadGrows
<1>3. FilesOfRows(Read)'
  <2>1. FilesOfRows(Read)
    BY DEF ExportInv, AtRow
  <2>2. Pool' = Pool /\ (\A f : Held(Pool, f)' = Held(Pool, f)) /\ PoolOK(Pool, DOMAIN states, Line)' = PoolOK(Pool, DOMAIN states, Line)
    BY DEF Pool, Held, IsOpen, PlaceOf, PoolOK, Entries, Line, HeaderLine
  <2>. QED  BY <1>2, <2>1, <2>2, SourceStands DEF FilesOfRows
<1>4. ExportIsTheSource'
  BY <1>1 DEF ExportInv, ExportIsTheSource
<1>. QED  BY <1>1, <1>3, <1>4 DEF ExportInv

LEMMA LookKeeps ==
    ASSUME ExportInv, LookForHeader, ~Throws
    PROVE  ExportInv'
<1>1. AtRow /\ reader.header = FALSE /\ UNCHANGED <<source, pool, files, states>>
  BY DEF LookForHeader, ExportInv, AtRow, PlaceOK
<1>2. ThisLine \notin DataLines
  BY <1>1, HereIsData
<1>3. CASE StepOver(ThisRow.kind = "header")
  <2>1. PICK header \in BOOLEAN : header = (ThisRow.kind = "header")
    OBVIOUS
  <2>. QED  BY <1>1, <1>2, <1>3, <2>1, PassRow
<1>4. CASE StepOver(FALSE) /\ ThisRow.kind = "blank"
  BY <1>1, <1>2, <1>4, PassRow
<1>. QED  BY <1>1, <1>3, <1>4 DEF LookForHeader

LEMMA SkipKeeps ==
    ASSUME ExportInv, SkipRow
    PROVE  ExportInv'
<1>1. AtRow /\ reader.header = TRUE /\ Passed(ThisRow) /\ StepOver(TRUE) /\ UNCHANGED <<source, pool, files, states>>
  BY DEF SkipRow, ExportInv, AtRow, PlaceOK
<1>2. ThisLine \notin DataLines
  BY <1>1, HereIsData
<1>. QED  BY <1>1, <1>2, PassRow

\* The catch block leaves nothing behind.
LEMMA ThrowsKeeps ==
    ASSUME ExportInv, Throws
    PROVE  ExportInv'
<1>1. /\ reader'.pc = "failed" /\ ReaderShape' /\ UNCHANGED source
      /\ pool' = <<>> /\ DOMAIN files' = {}
  BY DEF Throws, ExportInv, ReaderShape
<1>2. Len(pool') <= MaxOpenFiles
  <2>1. Len(<<>>) = 0 /\ MaxOpenFiles \in Nat
    BY ExportAssumption
  <2>. QED  BY <1>1, <2>1
<1>. QED  BY <1>1, <1>2 DEF ExportInv, ExportIsTheSource

\* The next line of a file.
LEMMA StateGrows ==
    ASSUME NEW own, own \subseteq Nat \X Nat, NEW l \in Nat \X Nat, \A m \in own : Above(m, l),
           NEW st, StateOK(st, own),
           NEW after, after.hashed = Append(st.hashed, l), after.count = st.count + 1,
           after.bytes = st.bytes + RowAt(l).bytes,
           NamesFit(own \cup {l}, after.name)
    PROVE  StateOK(after, own \cup {l})
<1>1. PICK s \in Seq(Nat \X Nat) :
        /\ st.hashed = <<HeaderLine>> \o s /\ st.count = Len(s) /\ st.bytes = BytesOf(s)
        /\ ListedBy(s, own)
  BY DEF StateOK
<1>2. PICK n \in Nat : Len(s) = n
  BY LenProperties
<1>3. PICK t : t = Append(s, l)
  OBVIOUS
<1>4. /\ t \in Seq(Nat \X Nat) /\ Len(t) = n + 1 /\ t[n + 1] = l /\ \A i \in 1..n : t[i] = s[i]
      /\ \A i \in 1..(n + 1) : i \in 1..n \/ i = n + 1
  BY <1>2, <1>3, AppendProperties
<1>5. after.hashed = <<HeaderLine>> \o t
  <2>1. /\ HeaderLine \in Nat \X Nat /\ <<HeaderLine>> \in Seq(Nat \X Nat)
    BY DEF HeaderLine
  <2>2. <<HeaderLine>> \o s \in Seq(Nat \X Nat) /\ <<l>> \in Seq(Nat \X Nat) /\ t = s \o <<l>>
    BY <1>3, <2>1, ConcatProperties, AppendIsConcat
  <2>3. Append(<<HeaderLine>> \o s, l) = (<<HeaderLine>> \o s) \o <<l>>
    BY <2>2, AppendIsConcat
  <2>4. (<<HeaderLine>> \o s) \o <<l>> = <<HeaderLine>> \o (s \o <<l>>)
    BY <2>1, <2>2, ConcatAssociative
  <2>. QED  BY <1>1, <2>2, <2>3, <2>4
<1>6. after.count = Len(t) /\ after.bytes = BytesOf(t)
  BY <1>1, <1>2, <1>3, <1>4, BytesGrow
<1>7. ListedBy(t, own \cup {l})
  <2>1. ASSUME NEW i \in 1..(n + 1)
        PROVE  t[i] \in own \cup {l}
    BY <1>1, <1>2, <1>4 DEF ListedBy
  <2>2. ASSUME NEW i \in 1..(n + 1), NEW j \in 1..(n + 1), i < j
        PROVE  Above(t[i], t[j])
    <3>1. i \in 1..n
      BY <2>2
    <3>2. CASE j \in 1..n
      BY <1>1, <1>2, <1>4, <2>2, <3>1, <3>2 DEF ListedBy
    <3>3. CASE j = n + 1
      <4>1. s[i] \in own
        BY <1>1, <1>2, <3>1 DEF ListedBy
      <4>. QED  BY <1>4, <3>1, <3>3, <4>1
    <3>. QED  BY <1>4, <3>2, <3>3
  <2>3. ASSUME NEW m \in own \cup {l}
        PROVE  \E i \in 1..(n + 1) : t[i] = m
    <3>1. CASE m \in own
      <4>1. PICK i \in 1..n : s[i] = m
        BY <1>1, <1>2, <3>1 DEF ListedBy
      <4>2. i \in 1..(n + 1) /\ t[i] = m
        BY <1>4, <4>1
      <4>. QED  BY <4>2
    <3>2. CASE m = l
      <4>1. n + 1 \in 1..(n + 1)
        OBVIOUS
      <4>. QED  BY <1>4, <3>2, <4>1
    <3>. QED  BY <3>1, <3>2
  <2>. QED  BY <1>4, <2>1, <2>2, <2>3 DEF ListedBy
<1>. QED  BY <1>4, <1>5, <1>6, <1>7 DEF StateOK

LEMMA SamePool ==
    ASSUME NEW w, NEW v, w.pool = v.pool, w.files = v.files
    PROVE  \A f : Held(w, f) = Held(v, f)
BY DEF Held, IsOpen, PlaceOf

\* Lines that are listed from the top down are the ordered list of them.
LEMMA ListedInOrder ==
    ASSUME NEW own, own \subseteq Nat \X Nat, NEW s \in Seq(Nat \X Nat), ListedBy(s, own)
    PROVE  s = InOrder(own, {p \in own \X own : Above(p[1], p[2])})
<1>1. PICK n \in Nat : n = Len(s)
  BY LenProperties
<1>2. /\ \A i \in 1..n : s[i] \in own
      /\ \A i, j \in 1..n : i < j => Above(s[i], s[j])
      /\ \A l \in own : \E i \in 1..n : s[i] = l
  BY <1>1 DEF ListedBy
<1>3. s \in [1..n -> own]
  <2>1. s \in [1..n -> Nat \X Nat]
    BY <1>1, LenProperties
  <2>. QED  BY <1>2, <2>1
<1>4. \A l, m, k \in own : /\ ~Above(l, l)
                           /\ l # m => Above(l, m) \/ Above(m, l)
                           /\ Above(l, m) /\ Above(m, k) => Above(l, k)
                           /\ ~(Above(l, m) /\ Above(m, l))
  <2>1. \A l \in own : l[1] \in Nat /\ l[2] \in Nat /\ l = <<l[1], l[2]>>
    OBVIOUS
  <2>. QED  BY <2>1 DEF Above
<1>5. PICK R : R = {p \in own \X own : Above(p[1], p[2])}
  OBVIOUS
<1>6. \A l, m \in own : <<l, m>> \in R <=> Above(l, m)
  BY <1>5
<1>7. IsStrictOrder(own, R)
  BY <1>4, <1>6 DEF IsStrictOrder
<1>8. \A i, j \in 1..n : i < j => s[i] # s[j] /\ <<s[j], s[i]>> \notin R
  BY <1>2, <1>4, <1>6
<1>9. s = InOrder(own, R)
  <2>1. PICK T, t : T = own /\ t = s
    OBVIOUS
  <2>2. /\ IsStrictOrder(T, R) /\ t \in [1..n -> T]
        /\ \A x \in T : \E i \in 1..n : t[i] = x
        /\ \A i, j \in 1..n : i < j => t[i] # t[j] /\ <<t[j], t[i]>> \notin R
    BY <1>2, <1>3, <1>7, <1>8, <2>1
  <2>3. t = InOrder(T, R)
    BY <2>2, ListedOnce, SMTT(60)
  <2>. QED  BY <2>1, <2>3
<1>. QED  BY <1>5, <1>9

LEMMA DataTyped ==
    ASSUME source \in ExportSources
    PROVE  DataLines \subseteq Nat \X Nat
<1>1. ASSUME NEW l \in DataLines
      PROVE  l \in Nat \X Nat
  <2>1. PICK m \in 1..Len(source.sheets) : l \in {m} \X (1..Len(source.sheets[m].rows))
    BY DEF DataLines
  <2>2. Len(source.sheets) \in Nat /\ Len(source.sheets[m].rows) \in Nat
    BY ExportAssumption
  <2>. QED  BY <2>1, <2>2
<1>. QED  BY <1>1

\* The last row of a sheet is behind the reader: nothing is read twice or left out.
LEMMA SheetIsRead ==
    ASSUME ExportInv, reader.pc = "rows", reader.row > Len(Sheet.rows), UNCHANGED source,
           reader' = IF reader.sheet < Len(source.sheets)
                     THEN [pc |-> "rows", sheet |-> reader.sheet + 1, row |-> 1, header |-> FALSE, seen |-> FALSE]
                     ELSE [reader EXCEPT !.pc = "close"]
    PROVE  /\ PlaceOK' /\ ReaderShape' /\ reader'.pc \in {"rows", "close"} /\ Read' = Read
<1>1. PICK n, k, last, w : n = reader.sheet /\ k = reader.row /\ last = Len(source.sheets) /\ w = Len(Sheet.rows)
  OBVIOUS
<1>2. n \in 1..last /\ last \in Nat /\ w \in Nat /\ k = w + 1 /\ PlaceOK
  <2>1. PlaceOK /\ last \in Nat /\ w \in Nat
    BY <1>1, ExportAssumption DEF ExportInv, PlaceOK, Sheet
  <2>. QED  BY <1>1, <2>1 DEF PlaceOK
<1>3. DataLines' = DataLines
  BY SourceStands
<1>4. Read = {l \in DataLines : l[1] < n \/ (l[1] = n /\ l[2] < k)}
  BY <1>1 DEF Read
<1>5. CASE ~(n < last) /\ reader' = [reader EXCEPT !.pc = "close"]
  <2>1. /\ reader'.sheet = n /\ reader'.row = k /\ reader'.header = reader.header
        /\ reader'.pc = "close" /\ ReaderShape'
    BY <1>1, <1>5 DEF ExportInv, ReaderShape
  <2>2. Sheet' = Sheet
    BY <1>1, <2>1 DEF Sheet
  <2>3. Read' = Read
    BY <1>1, <1>3, <2>1 DEF Read
  <2>4. n = last
    BY <1>2, <1>5
  <2>5. PlaceOK'
    BY <1>1, <1>2, <2>1, <2>2, <2>4 DEF PlaceOK
  <2>. QED  BY <2>1, <2>3, <2>5
<1>6. CASE n < last /\ reader' = [pc |-> "rows", sheet |-> n + 1, row |-> 1, header |-> FALSE, seen |-> FALSE]
  <2>1. /\ reader'.sheet = n + 1 /\ reader'.row = 1 /\ reader'.header = FALSE
        /\ reader'.pc = "rows" /\ ReaderShape'
    BY <1>6 DEF ReaderShape
  <2>2. Read' = {l \in DataLines : l[1] < n + 1 \/ (l[1] = n + 1 /\ l[2] < 1)}
    BY <1>3, <2>1 DEF Read
  <2>3. ASSUME NEW l \in DataLines
        PROVE  l[1] < n \/ (l[1] = n /\ l[2] < k) <=> l[1] < n + 1 \/ (l[1] = n + 1 /\ l[2] < 1)
    <3>1. PICK m \in 1..last : l \in {m} \X (1..Len(source.sheets[m].rows))
      BY <1>1 DEF DataLines
    <3>2. m = n => Len(source.sheets[m].rows) = w
      BY <1>1 DEF Sheet
    <3>3. Len(source.sheets[m].rows) \in Nat
      BY <1>1, ExportAssumption DEF ExportInv
    <3>4. l[1] = m /\ l[2] \in 1..Len(source.sheets[m].rows) /\ l[1] \in Nat /\ l[2] \in Nat
      BY <1>2, <3>1, <3>3
    <3>. QED  BY <1>2, <3>2, <3>4
  <2>4. Read' = Read
    BY <1>4, <2>2, <2>3
  <2>5. PlaceOK'
    <3>1. n + 1 \in 1..last
      BY <1>2, <1>6
    <3>2. Len(source.sheets[n + 1].rows) \in Nat
      BY <1>1, <3>1, ExportAssumption DEF ExportInv
    <3>3. Sheet' = source.sheets[n + 1]
      BY <2>1 DEF Sheet
    <3>4. 1 \in 1..(Len(source.sheets[n + 1].rows) + 1) /\ \A h \in 1..(1 - 1) : FALSE
      BY <3>2
    <3>. QED  BY <1>1, <2>1, <3>1, <3>3, <3>4 DEF PlaceOK
  <2>. QED  BY <2>1, <2>4, <2>5
<1>. QED  BY <1>1, <1>5, <1>6

LEMMA FilesStand ==
    ASSUME ExportInv, UNCHANGED <<source, pool, files, states>>, FilesOfRows(Read), Read' = Read
    PROVE  FilesOfRows(Read)'
<1>1. Pool' = Pool /\ (\A f : Held(Pool, f)' = Held(Pool, f)) /\ PoolOK(Pool, DOMAIN states, Line)' = PoolOK(Pool, DOMAIN states, Line)
  BY DEF Pool, Held, IsOpen, PlaceOf, PoolOK, Entries, Line, HeaderLine
<1>. QED  BY <1>1, SourceStands DEF FilesOfRows

LEMMA FinishKeeps ==
    ASSUME ExportInv, FinishSheet, ~Throws
    PROVE  ExportInv'
<1>1. /\ reader.pc = "rows" /\ reader.row > Len(Sheet.rows) /\ UNCHANGED <<source, pool, files, states>>
      /\ reader' = IF reader.sheet < Len(source.sheets)
                   THEN [pc |-> "rows", sheet |-> reader.sheet + 1, row |-> 1, header |-> FALSE, seen |-> FALSE]
                   ELSE [reader EXCEPT !.pc = "close"]
  BY DEF FinishSheet
<1>2. PlaceOK' /\ ReaderShape' /\ reader'.pc \in {"rows", "close"} /\ Read' = Read
  BY <1>1, SheetIsRead
<1>3. FilesOfRows(Read)'
  <2>1. FilesOfRows(Read)
    BY <1>1 DEF ExportInv
  <2>. QED  BY <1>1, <1>2, <2>1, FilesStand
<1>4. ExportIsTheSource'
  BY <1>1, <1>2 DEF ExportInv, ExportIsTheSource
<1>. QED  BY <1>1, <1>2, <1>3, <1>4 DEF ExportInv

\* Two writes at most: the header of a file that is new, and the line.
Started == IF FileOf(ThisRow) \in DOMAIN states THEN Pool ELSE write(Pool, FileOf(ThisRow), HeaderLine, HeaderBytes)
Written == write(Started, FileOf(ThisRow), ThisLine, ThisRow.bytes)

LEMMA RowWritten ==
    ASSUME ExportInv, AtRow, NEW file, file = FileOf(ThisRow)
    PROVE  /\ PoolOK(Written, DOMAIN states \cup {file}, Line)
           /\ \A f \in DOMAIN states : f # file => Held(Written, f) = Held(Pool, f)
           /\ Held(Written, file) = Append(IF file \in DOMAIN states THEN Held(Pool, file) ELSE <<HeaderLine>>, ThisLine)
<1>1. PICK D : D = DOMAIN states
  OBVIOUS
<1>2. PICK All : All = D \cup {file}
  OBVIOUS
<1>3. PoolOK(Pool, D, Line)
  BY <1>1 DEF ExportInv, AtRow, FilesOfRows
<1>4. ThisLine \in Line /\ HeaderLine \in Line /\ HeaderBytes \in Int
  BY HereIsData, ExportAssumption DEF Line
<1>5. ThisRow.bytes \in Int
  <2>1. reader.sheet \in 1..Len(source.sheets) /\ source \in ExportSources
    BY DEF ExportInv, AtRow, PlaceOK
  <2>2. reader.row \in 1..Len(source.sheets[reader.sheet].rows)
    <3>1. reader.row \in 1..(Len(source.sheets[reader.sheet].rows) + 1) /\ reader.row <= Len(source.sheets[reader.sheet].rows)
      BY DEF ExportInv, AtRow, PlaceOK, Sheet
    <3>2. Len(source.sheets[reader.sheet].rows) \in Nat
      BY <2>1, ExportAssumption
    <3>. QED  BY <3>1, <3>2
  <2>3. source.sheets[reader.sheet].rows[reader.row].bytes \in Nat
    BY <2>1, <2>2, ExportAssumption
  <2>. QED  BY <2>3 DEF ThisRow, Sheet
<1>6. PICK w : w = Started
  OBVIOUS
<1>7. /\ PoolOK(w, All, Line) /\ \A f \in D : f # file => Held(w, f) = Held(Pool, f)
      /\ Held(w, file) = IF file \in D THEN Held(Pool, file) ELSE <<HeaderLine>>
  <2>1. CASE file \in D
    <3>1. w = Pool /\ All = D
      BY <1>1, <1>2, <1>6, <2>1 DEF Started
    <3>. QED  BY <1>3, <2>1, <3>1
  <2>2. CASE file \notin D
    <3>1. w = write(Pool, file, HeaderLine, HeaderBytes)
      BY <1>1, <1>6, <2>2 DEF Started
    <3>2. /\ PoolOK(w, D \cup {file}, Line)
          /\ \A f \in D : f # file => Held(w, f) = Held(Pool, f)
          /\ Held(w, file) = Append(IF file \in D THEN Held(Pool, file) ELSE <<>>, HeaderLine)
      <4>1. PICK p, line, size : p = Pool /\ line = HeaderLine /\ size = HeaderBytes
        OBVIOUS
      <4>2. PoolOK(p, D, Line) /\ line \in Line /\ size \in Int /\ w = write(p, file, line, size)
        BY <1>3, <1>4, <3>1, <4>1
      <4>3. /\ PoolOK(w, D \cup {file}, Line)
            /\ \A f \in D : f # file => Held(w, f) = Held(p, f)
            /\ Held(w, file) = Append(IF file \in D THEN Held(p, file) ELSE <<>>, line)
        <5>1. Appended(w, p, D, Line, file, line)
          BY <4>2, WriteAppends
        <5>. QED  BY <5>1 DEF Appended
      <4>. QED  BY <4>1, <4>3
    <3>3. Append(<<>>, HeaderLine) = <<HeaderLine>>
      OBVIOUS
    <3>. QED  BY <1>2, <2>2, <3>2, <3>3
  <2>. QED  BY <2>1, <2>2
<1>8. PICK u : u = Written
  OBVIOUS
<1>9. u = write(w, file, ThisLine, ThisRow.bytes)
  BY <1>6, <1>8 DEF Written
<1>10. /\ PoolOK(u, All \cup {file}, Line)
       /\ \A f \in All : f # file => Held(u, f) = Held(w, f)
       /\ Held(u, file) = Append(IF file \in All THEN Held(w, file) ELSE <<>>, ThisLine)
  <2>1. PICK line, size : line = ThisLine /\ size = ThisRow.bytes
    OBVIOUS
  <2>2. PoolOK(w, All, Line) /\ line \in Line /\ size \in Int /\ u = write(w, file, line, size)
    BY <1>4, <1>5, <1>7, <1>9, <2>1
  <2>3. /\ PoolOK(u, All \cup {file}, Line)
        /\ \A f \in All : f # file => Held(u, f) = Held(w, f)
        /\ Held(u, file) = Append(IF file \in All THEN Held(w, file) ELSE <<>>, line)
    <3>1. Appended(u, w, All, Line, file, line)
      BY <2>2, WriteAppends
    <3>. QED  BY <3>1 DEF Appended
  <2>. QED  BY <2>1, <2>3
<1>11. All \cup {file} = All /\ file \in All /\ D \subseteq All
  BY <1>2
<1>. QED  BY <1>1, <1>2, <1>7, <1>8, <1>10, <1>11

\* What StateWith starts from, and the name it leaves.
Earlier(row) ==
  IF FileOf(row) \notin DOMAIN states
  THEN [name |-> row.store, count |-> 0, bytes |-> HeaderBytes, hashed |-> <<HeaderLine>>]
  ELSE states[FileOf(row)]

NameAfter(name, row) == IF name = "" THEN row.store ELSE name

LEMMA StateWithFields ==
    ASSUME NEW row
    PROVE  StateWith(row) = [name |-> NameAfter(Earlier(row).name, row), count |-> Earlier(row).count + 1,
                             bytes |-> Earlier(row).bytes + row.bytes,
                             hashed |-> Append(Earlier(row).hashed, ThisLine)]
BY Zenon DEF StateWith, Earlier, NameAfter

\* A name that was missing is taken from a later row, and one that is there is never another row's.
LEMMA NamesStay ==
    ASSUME NEW own, NEW l, NEW name, NamesFit(own, name),
           ~(name # "" /\ RowAt(l).store # "" /\ name # RowAt(l).store)
    PROVE  NamesFit(own \cup {l}, NameAfter(name, RowAt(l)))
BY Zenon DEF NamesFit, NamedBy, NameAfter

LEMMA NewState ==
    ASSUME NEW l
    PROVE  StateOK([name |-> RowAt(l).store, count |-> 0, bytes |-> HeaderBytes, hashed |-> <<HeaderLine>>], {})
<1>1. PICK s : s = <<>>
  OBVIOUS
<1>2. s \in Seq(Nat \X Nat) /\ Len(s) = 0
  BY <1>1
<1>3. <<HeaderLine>> \o s = <<HeaderLine>>
  <2>1. <<HeaderLine>> \in Seq(Nat \X Nat)
    BY DEF HeaderLine
  <2>. QED  BY <1>1, <2>1, ConcatEmptySeq
<1>4. BytesOf(s) = HeaderBytes
  <2>1. <<1, 1>> \in Nat \X Nat
    OBVIOUS
  <2>. QED  BY <1>1, <1>2, <2>1, BytesGrow
<1>5. ListedBy(s, {})
  BY <1>2 DEF ListedBy
<1>6. NamesFit({}, RowAt(l).store)
  BY Zenon DEF NamesFit
<1>. QED  BY <1>2, <1>3, <1>4, <1>5, <1>6 DEF StateOK

\* A row that is exported: its line is in the file of its store and day, and nowhere else.
LEMMA RowKeeps ==
    ASSUME ExportInv, processDataRow, ~Throws
    PROVE  ExportInv'
<1>1. PICK row, file, l : row = ThisRow /\ file = FileOf(ThisRow) /\ l = ThisLine
  OBVIOUS
<1>2. /\ AtRow /\ reader.header = TRUE /\ ~Passed(row) /\ ~StoreConflict(row) /\ UNCHANGED source /\ StepOver(TRUE)
      /\ states' = [f \in DOMAIN states \cup {file} |-> IF f = file THEN StateWith(row) ELSE states[f]]
      /\ pool' = Written.pool /\ files' = Written.files
  <2>1. reader.header = TRUE
    BY DEF processDataRow, ExportInv, AtRow, PlaceOK
  <2>. QED  BY <1>1, <2>1 DEF processDataRow, Written, Started, Pool
<1>3. l \in Nat \X Nat /\ RowAt(l) = row /\ l \in DataLines
  BY <1>1, <1>2, HereIsData
<1>4. /\ PlaceOK' /\ ReaderShape' /\ reader'.pc = "rows"
      /\ reader'.sheet = reader.sheet /\ reader'.row = reader.row + 1
  <2>1. PICK header \in BOOLEAN : header = TRUE
    OBVIOUS
  <2>. QED  BY <1>2, <2>1, PlaceMoves
<1>5. PICK R : R = Read
  OBVIOUS
<1>6. Read' = R \cup {l} /\ l \notin R /\ R \subseteq Nat \X Nat /\ \A m \in R : Above(m, l)
  <2>1. /\ Read' = IF l \in DataLines THEN R \cup {l} ELSE R
        /\ l \notin R /\ \A m \in R : m \in Nat \X Nat /\ Above(m, l)
    BY <1>1, <1>2, <1>4, <1>5, ReadGrows
  <2>. QED  BY <1>3, <2>1
<1>7. PICK D : D = DOMAIN states
  OBVIOUS
<1>8. PICK All : All = D \cup {file}
  OBVIOUS
<1>9. /\ D = {FileOf(RowAt(m)) : m \in R}
      /\ \A f \in D : states[f].hashed = Held(Pool, f) /\ StateOK(states[f], OwnLines(R, f))
  BY <1>2, <1>5, <1>7 DEF ExportInv, AtRow, FilesOfRows
<1>10. PICK w : w = Written
  OBVIOUS
<1>11. /\ PoolOK(w, All, Line) /\ \A f \in D : f # file => Held(w, f) = Held(Pool, f)
       /\ Held(w, file) = Append(IF file \in D THEN Held(Pool, file) ELSE <<HeaderLine>>, l)
  BY <1>1, <1>2, <1>7, <1>8, <1>10, RowWritten
<1>12. PICK p : p = Pool'
  OBVIOUS
<1>13. DOMAIN p = {"pool", "files"} /\ p.pool = w.pool /\ p.files = w.files
  BY <1>2, <1>10, <1>12 DEF Pool
<1>14. PoolOK(p, All, Line) /\ \A f : Held(p, f) = Held(w, f)
  <2>1. PoolOK(p, All, Line)
    BY <1>11, <1>13 DEF PoolOK
  <2>. QED  BY <1>13, <2>1, SamePool
<1>15. DOMAIN states' = All /\ All = {FileOf(RowAt(m)) : m \in R \cup {l}}
  BY <1>1, <1>2, <1>3, <1>7, <1>8, <1>9
<1>16. PICK st : st = states'
  OBVIOUS
<1>17. ASSUME NEW f \in All
       PROVE  st[f].hashed = Held(p, f) /\ StateOK(st[f], OwnLines(R \cup {l}, f))
  <2>1. CASE f # file
    <3>1. f \in D /\ st[f] = states[f]
      BY <1>2, <1>7, <1>8, <1>16, <2>1
    <3>2. OwnLines(R \cup {l}, f) = OwnLines(R, f)
      BY <1>1, <1>3, <2>1 DEF OwnLines
    <3>. QED  BY <1>9, <1>11, <1>14, <2>1, <3>1, <3>2
  <2>2. CASE f = file
    <3>1. OwnLines(R \cup {l}, f) = OwnLines(R, f) \cup {l}
      BY <1>1, <1>3, <2>2 DEF OwnLines
    <3>2. PICK own : own = OwnLines(R, f)
      OBVIOUS
    <3>3. own \subseteq Nat \X Nat /\ \A m \in own : Above(m, l)
      BY <1>6, <3>2 DEF OwnLines
    <3>4. PICK old : old = Earlier(row)
      OBVIOUS
    <3>5. PICK new : new = st[f]
      OBVIOUS
    <3>6. new = [name |-> NameAfter(old.name, row), count |-> old.count + 1,
                 bytes |-> old.bytes + row.bytes, hashed |-> Append(old.hashed, l)]
      <4>1. StateWith(row) = [name |-> NameAfter(Earlier(row).name, row), count |-> Earlier(row).count + 1,
                              bytes |-> Earlier(row).bytes + row.bytes,
                              hashed |-> Append(Earlier(row).hashed, ThisLine)]
        BY StateWithFields
      <4>2. new = StateWith(row)
        BY <1>2, <1>7, <1>8, <1>16, <2>2, <3>5
      <4>. QED  BY <1>1, <3>4, <4>1, <4>2
    <3>7. /\ StateOK(old, own) /\ NamesFit(own \cup {l}, NameAfter(old.name, row))
          /\ old.hashed = IF file \in D THEN Held(Pool, file) ELSE <<HeaderLine>>
      <4>1. CASE file \in D
        <5>1. old = states[file]
          BY <1>1, <1>7, <3>4, <4>1 DEF Earlier
        <5>2. StateOK(old, own)
          BY <1>9, <2>2, <3>2, <4>1, <5>1
        <5>3. NamesFit(own, old.name)
          BY <5>2 DEF StateOK
        <5>4. ~(old.name # "" /\ RowAt(l).store # "" /\ old.name # RowAt(l).store)
          BY <1>1, <1>2, <1>3, <1>7, <4>1, <5>1, Zenon DEF StoreConflict
        <5>5. NamesFit(own \cup {l}, NameAfter(old.name, RowAt(l)))
          BY <5>3, <5>4, NamesStay, Zenon
        <5>. QED  BY <1>3, <1>9, <4>1, <5>1, <5>2, <5>5
      <4>2. CASE file \notin D
        <5>1. old = [name |-> RowAt(l).store, count |-> 0, bytes |-> HeaderBytes, hashed |-> <<HeaderLine>>]
          BY <1>1, <1>3, <1>7, <3>4, <4>2 DEF Earlier
        <5>2. own = {}
          BY <1>9, <2>2, <3>2, <4>2 DEF OwnLines
        <5>3. StateOK(old, own)
          BY <5>1, <5>2, NewState
        <5>4. NamesFit(own, old.name)
          BY <5>3 DEF StateOK
        <5>5. old.name = RowAt(l).store
          BY <5>1
        <5>6. NamesFit(own \cup {l}, NameAfter(old.name, RowAt(l)))
          BY <5>4, <5>5, NamesStay, Zenon
        <5>. QED  BY <1>3, <4>2, <5>1, <5>3, <5>6
      <4>. QED  BY <4>1, <4>2
    <3>8. /\ new.hashed = Append(old.hashed, l) /\ new.count = old.count + 1
          /\ new.bytes = old.bytes + RowAt(l).bytes /\ NamesFit(own \cup {l}, new.name)
      BY <1>3, <3>6, <3>7
    <3>9. StateOK(new, own \cup {l})
      BY <1>3, <3>3, <3>7, <3>8, StateGrows
    <3>10. new.hashed = Held(p, f)
      BY <1>11, <1>14, <2>2, <3>7, <3>8
    <3>. QED  BY <3>1, <3>2, <3>5, <3>9, <3>10
  <2>. QED  BY <2>1, <2>2
<1>18. FilesOfRows(Read)'
  <2>1. /\ \A m : RowAt(m)' = RowAt(m)
        /\ \A Q, f : OwnLines(Q, f)' = OwnLines(Q, f)
        /\ \A s, own : StateOK(s, own)' = StateOK(s, own)
    BY <1>2, SourceStands
  <2>2. DOMAIN states' = {FileOf(RowAt(m))' : m \in Read'}
    BY <1>6, <1>15, <2>1
  <2>3. PoolOK(Pool, DOMAIN states, Line)'
    BY <1>12, <1>14, <1>15 DEF PoolOK, Entries, Line, HeaderLine
  <2>4. ASSUME NEW f \in DOMAIN states'
        PROVE  states'[f].hashed = Held(Pool, f)' /\ StateOK(states[f], OwnLines(Read, f))'
    <3>1. f \in All /\ st[f] = states'[f]
      BY <1>15, <1>16, <2>4
    <3>2. Held(Pool, f)' = Held(p, f)
      BY <1>12 DEF Held, IsOpen, PlaceOf
    <3>. QED  BY <1>6, <1>17, <2>1, <3>1, <3>2
  <2>. QED  BY <2>2, <2>3, <2>4 DEF FilesOfRows
<1>19. ExportIsTheSource'
  <2>1. Len(pool') <= MaxOpenFiles
    BY <1>12, <1>14 DEF PoolOK, Pool
  <2>. QED  BY <1>4, <2>1 DEF ExportIsTheSource
<1>. QED  BY <1>2, <1>4, <1>18, <1>19 DEF ExportInv

\* What a source's lines are, and what they measure, is said by the source alone.
LEMMA LinesStand ==
    ASSUME UNCHANGED source
    PROVE  /\ \A f : LinesOf(f)' = LinesOf(f)
           /\ \A f : BytesOf(LinesOf(f))' = BytesOf(LinesOf(f))
<1>1. DataLines' = DataLines /\ (\A l : RowAt(l)' = RowAt(l)) /\ \A s : BytesOf(s)' = BytesOf(s)
  BY SourceStands
<1>2. \A f : OwnLines(DataLines, f)' = OwnLines(DataLines, f)
  BY <1>1 DEF OwnLines
<1>3. \A f : LinesOf(f) = InOrder(OwnLines(DataLines, f), {p \in OwnLines(DataLines, f) \X OwnLines(DataLines, f) : Above(p[1], p[2])})
  BY DEF LinesOf, OwnLines
<1>4. \A f : LinesOf(f)' = InOrder(OwnLines(DataLines, f)', {p \in OwnLines(DataLines, f)' \X OwnLines(DataLines, f)' : Above(p[1], p[2])})
  BY DEF LinesOf, OwnLines, InOrder, Below, Above
<1>5. ASSUME NEW f
      PROVE  BytesOf(LinesOf(f))' = BytesOf(LinesOf(f))
  BY DEF BytesOf, LinesOf, DataLines, RowAt, Passed, isSummary
<1>. QED  BY <1>1, <1>2, <1>3, <1>4, <1>5

\* When every sheet is read the buffers are flushed, and the files are the source, split.
LEMMA CloseKeeps ==
    ASSUME ExportInv, CloseFiles, ~Throws
    PROVE  ExportInv'
<1>1. /\ reader.pc = "close" /\ files' = closeAll /\ pool' = <<>> /\ UNCHANGED <<source, states>>
      /\ reader'.pc = "done" /\ ReaderShape'
  BY DEF CloseFiles, ExportInv, ReaderShape
<1>2. PlaceOK /\ FilesOfRows(Read) /\ source \in ExportSources
  BY <1>1 DEF ExportInv
<1>3. PICK n, w : n = Len(source.sheets) /\ w = Len(source.sheets[n].rows)
  OBVIOUS
<1>4. reader.sheet = n /\ reader.row = w + 1
  BY <1>1, <1>2, <1>3 DEF PlaceOK, Sheet
<1>5. Read = DataLines
  <2>1. ASSUME NEW l \in DataLines
        PROVE  l[1] < n \/ (l[1] = n /\ l[2] < w + 1)
    <3>1. PICK m \in 1..n : l \in {m} \X (1..Len(source.sheets[m].rows))
      BY <1>3 DEF DataLines
    <3>2. n \in Nat /\ Len(source.sheets[m].rows) \in Nat
      BY <1>2, <1>3, <3>1, ExportAssumption
    <3>3. l[1] = m /\ l[2] \in 1..Len(source.sheets[m].rows)
      BY <3>1
    <3>. QED  BY <1>3, <3>2, <3>3
  <2>. QED  BY <1>4, <2>1 DEF Read
<1>6. PICK D : D = DOMAIN states
  OBVIOUS
<1>7. /\ D = {FileOf(RowAt(l)) : l \in DataLines} /\ DOMAIN files = D
      /\ \A f \in D : states[f].hashed = Held(Pool, f) /\ StateOK(states[f], OwnLines(DataLines, f))
  BY <1>2, <1>5, <1>6 DEF FilesOfRows, PoolOK, Pool
<1>8. PICK made : made = files'
  OBVIOUS
<1>9. made = [f \in D |-> Held(Pool, f)]
  BY <1>1, <1>7, <1>8 DEF closeAll, Pool
<1>10. ASSUME NEW f \in D
       PROVE  /\ made[f] = <<HeaderLine>> \o LinesOf(f) /\ states[f].hashed = made[f]
              /\ states[f].count = Len(LinesOf(f)) /\ states[f].bytes = BytesOf(LinesOf(f))
              /\ \A i \in 1..Len(LinesOf(f)) : LinesOf(f)[i] \in OwnLines(DataLines, f)
              /\ NamesFit(OwnLines(DataLines, f), states[f].name)
  <2>1. PICK own : own = OwnLines(DataLines, f)
    OBVIOUS
  <2>2. own \subseteq Nat \X Nat
    BY <1>2, <2>1, DataTyped DEF OwnLines
  <2>3. StateOK(states[f], own)
    BY <1>7, <2>1
  <2>4. PICK s \in Seq(Nat \X Nat) :
           /\ states[f].hashed = <<HeaderLine>> \o s /\ states[f].count = Len(s) /\ states[f].bytes = BytesOf(s)
           /\ ListedBy(s, own)
    BY <2>3 DEF StateOK
  <2>5. s = InOrder(own, {p \in own \X own : Above(p[1], p[2])})
    BY <2>2, <2>4, ListedInOrder
  <2>6. LinesOf(f) = s
    BY <2>1, <2>5 DEF LinesOf, OwnLines
  <2>7. \A i \in 1..Len(s) : s[i] \in own
    BY <2>4 DEF ListedBy
  <2>8. NamesFit(own, states[f].name)
    BY <2>3 DEF StateOK
  <2>. QED  BY <1>7, <1>9, <2>1, <2>4, <2>6, <2>7, <2>8
<1>11. /\ DataLines' = DataLines /\ (\A l : RowAt(l)' = RowAt(l)) /\ (\A s : BytesOf(s)' = BytesOf(s))
       /\ \A f : LinesOf(f)' = LinesOf(f)
  <2>1. DataLines' = DataLines /\ (\A l : RowAt(l)' = RowAt(l)) /\ \A s : BytesOf(s)' = BytesOf(s)
    BY <1>1, SourceStands
  <2>. QED  BY <1>1, <2>1, LinesStand
<1>12. ExportIsTheSource'
  <2>1. Len(pool') <= MaxOpenFiles
    <3>1. Len(<<>>) = 0 /\ MaxOpenFiles \in Nat
      BY ExportAssumption
    <3>. QED  BY <1>1, <3>1
  <2>2. DOMAIN files' = {FileOf(RowAt(l))' : l \in DataLines'} /\ DOMAIN states' = DOMAIN files'
    BY <1>1, <1>6, <1>7, <1>8, <1>9, <1>11
  <2>3. ASSUME NEW f \in DOMAIN files'
        PROVE  /\ files'[f] = <<HeaderLine>> \o LinesOf(f)' /\ states'[f].hashed = files'[f]
               /\ states'[f].count = Len(LinesOf(f))' /\ states'[f].bytes = BytesOf(LinesOf(f))'
               /\ \A i \in 1..Len(LinesOf(f))' : NamedBy(RowAt(LinesOf(f)[i])', states'[f].name)
    <3>1. f \in D
      BY <1>8, <1>9, <2>3
    <3>2. files'[f] = <<HeaderLine>> \o LinesOf(f) /\ states'[f].hashed = files'[f]
      BY <1>1, <1>8, <1>10, <3>1
    <3>3. states'[f].count = Len(LinesOf(f)) /\ states'[f].bytes = BytesOf(LinesOf(f))
      BY <1>1, <1>10, <3>1
    <3>4. \A i \in 1..Len(LinesOf(f)) : NamedBy(RowAt(LinesOf(f)[i]), states[f].name)
      BY <1>10, <3>1, Zenon DEF NamesFit
    <3>5. BytesOf(LinesOf(f))' = BytesOf(LinesOf(f))
      BY <1>1, LinesStand
    <3>. QED  BY <1>1, <1>11, <3>2, <3>3, <3>4, <3>5, Zenon
  <2>. QED  BY <1>1, <2>1, <2>2, <2>3, Zenon DEF ExportIsTheSource
<1>. QED  BY <1>1, <1>2, <1>12 DEF ExportInv

LEMMA ExportStarts ==
    ASSUME ExportInit
    PROVE  ExportInv
<1>1. /\ source \in ExportSources /\ reader = [pc |-> "rows", sheet |-> 1, row |-> 1, header |-> FALSE, seen |-> FALSE]
      /\ pool = <<>> /\ files = [f \in {} |-> <<>>] /\ states = [f \in {} |-> <<>>]
  BY DEF ExportInit
<1>2. ReaderShape /\ reader.pc = "rows"
  BY <1>1 DEF ReaderShape
<1>3. Len(source.sheets) \in Nat \ {0} /\ 1 \in 1..Len(source.sheets)
  BY <1>1, ExportAssumption
<1>4. Len(source.sheets[1].rows) \in Nat
  BY <1>1, <1>3, ExportAssumption
<1>5. PlaceOK
  <2>1. reader.sheet = 1 /\ reader.row = 1 /\ reader.header = FALSE
    BY <1>1
  <2>2. 1 \in 1..(Len(source.sheets[1].rows) + 1) /\ \A h \in 1..(1 - 1) : FALSE
    BY <1>4
  <2>. QED  BY <1>2, <1>3, <2>1, <2>2 DEF PlaceOK, Sheet
<1>6. Read = {}
  <2>1. \A l \in DataLines : ~(l[1] < 1 \/ (l[1] = 1 /\ l[2] < 1))
    <3>1. ASSUME NEW l \in DataLines
          PROVE  ~(l[1] < 1 \/ (l[1] = 1 /\ l[2] < 1))
      <4>1. PICK m \in 1..Len(source.sheets) : l \in {m} \X (1..Len(source.sheets[m].rows))
        BY DEF DataLines
      <4>2. Len(source.sheets[m].rows) \in Nat
        BY <1>1, ExportAssumption
      <4>. QED  BY <1>3, <4>1, <4>2
    <3>. QED  BY <3>1
  <2>. QED  BY <1>1, <2>1 DEF Read
<1>7. FilesOfRows(Read)
  <2>1. PICK p : p = Pool
    OBVIOUS
  <2>2. DOMAIN p = {"pool", "files"} /\ p.pool = <<>> /\ p.files = [f \in {} |-> <<>>]
    BY <1>1, <2>1 DEF Pool
  <2>3. Len(<<>>) = 0 /\ MaxOpenFiles \in Nat /\ <<>> \in Seq(Entries({}, Line))
    BY ExportAssumption
  <2>4. p.files \in [{} -> Seq(Line)]
    BY <2>2
  <2>5. PoolOK(p, {}, Line)
    BY <2>2, <2>3, <2>4 DEF PoolOK
  <2>6. DOMAIN states = {}
    BY <1>1
  <2>. QED  BY <1>6, <2>1, <2>5, <2>6 DEF FilesOfRows
<1>8. ExportIsTheSource
  <2>1. Len(<<>>) = 0 /\ MaxOpenFiles \in Nat
    BY ExportAssumption
  <2>. QED  BY <1>1, <1>2, <2>1 DEF ExportIsTheSource
<1>. QED  BY <1>1, <1>2, <1>5, <1>7, <1>8 DEF ExportInv

LEMMA ExportStutters ==
    ASSUME ExportInv, UNCHANGED exportVars
    PROVE  ExportInv'
<1>1. /\ UNCHANGED source /\ UNCHANGED reader /\ UNCHANGED pool /\ UNCHANGED files /\ UNCHANGED states
  BY DEF exportVars
<1>2. Read' = Read /\ PlaceOK' = PlaceOK /\ ReaderShape' = ReaderShape
  BY <1>1, SourceStands DEF Read, PlaceOK, Sheet, ReaderShape
<1>3. FilesOfRows(Read) => FilesOfRows(Read)'
  BY <1>1, <1>2, FilesStand
<1>4. ExportIsTheSource'
  <2>1. ExportIsTheSource
    BY DEF ExportInv
  <2>2. DataLines' = DataLines /\ \A l : RowAt(l)' = RowAt(l)
    BY <1>1, SourceStands
  <2>3. \A f : LinesOf(f)' = LinesOf(f) /\ BytesOf(LinesOf(f))' = BytesOf(LinesOf(f))
    BY <1>1, LinesStand
  <2>4. CASE reader.pc # "done"
    BY <1>1, <2>1, <2>4 DEF ExportIsTheSource
  <2>5. CASE reader.pc = "done"
    <3>1. DOMAIN files' = {FileOf(RowAt(l))' : l \in DataLines'} /\ DOMAIN states' = DOMAIN files'
      BY <1>1, <2>1, <2>2, <2>5 DEF ExportIsTheSource
    <3>2. \A f \in DOMAIN files' :
            /\ files'[f] = <<HeaderLine>> \o LinesOf(f)' /\ states'[f].hashed = files'[f]
            /\ states'[f].count = Len(LinesOf(f))' /\ states'[f].bytes = BytesOf(LinesOf(f))'
            /\ \A i \in 1..Len(LinesOf(f))' : NamedBy(RowAt(LinesOf(f)[i])', states'[f].name)
      BY <1>1, <2>1, <2>2, <2>3, <2>5 DEF ExportIsTheSource
    <3>. QED  BY <1>1, <2>1, <2>5, <3>1, <3>2 DEF ExportIsTheSource
  <2>. QED  BY <2>4, <2>5
<1>. QED  BY <1>1, <1>2, <1>3, <1>4 DEF ExportInv

\* An export that ends has split its source: every data row once, in order, in the file of
\* its store and day, and what is said of a file is what it holds, however the pool opened,
\* flushed and closed files on the way; one that fails leaves nothing
\* (exportStructuredPartitions, BoundedFileWriterPool).
THEOREM ExportsAreSplit == ExportSpec => []ExportIsTheSource
<1>1. ExportInit => ExportInv
  BY ExportStarts
<1>2. ExportInv /\ [ExportNext]_exportVars => ExportInv'
  <2>1. SUFFICES ASSUME ExportInv, [ExportNext]_exportVars
                 PROVE  ExportInv'
    OBVIOUS
  <2>2. CASE Throws
    BY <2>1, <2>2, ThrowsKeeps
  <2>3. CASE ~Throws
    <3>1. CASE LookForHeader
      BY <2>1, <2>3, <3>1, LookKeeps
    <3>2. CASE SkipRow
      BY <2>1, <3>2, SkipKeeps
    <3>3. CASE processDataRow
      BY <2>1, <2>3, <3>3, RowKeeps
    <3>4. CASE FinishSheet
      BY <2>1, <2>3, <3>4, FinishKeeps
    <3>5. CASE CloseFiles
      BY <2>1, <2>3, <3>5, CloseKeeps
    <3>6. CASE ExportFails
      BY <2>3, <3>6 DEF ExportFails
    <3>7. CASE UNCHANGED exportVars
      BY <2>1, <3>7, ExportStutters
    <3>. QED  BY <2>1, <3>1, <3>2, <3>3, <3>4, <3>5, <3>6, <3>7 DEF ExportNext
  <2>. QED  BY <2>2, <2>3
<1>3. ExportInv => ExportIsTheSource
  BY DEF ExportInv
<1>. QED  BY <1>1, <1>2, <1>3, PTL DEF ExportSpec
=============================================================================

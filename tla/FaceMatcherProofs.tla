------------------------- MODULE FaceMatcherProofs -------------------------
(***************************************************************************)
(* Proofs about FaceMatcher, for any users, templates and scores: the rows *)
(* and their owners stay paired, the index repeats the rows until it is    *)
(* orphaned, the answers are right, and the object is a map from users to  *)
(* templates (TemplateMap).                                                *)
(***************************************************************************)
EXTENDS FaceMatcher, SequenceTheorems, FiniteSetTheorems, WellFoundedInduction, TLAPS

-----------------------------------------------------------------------------
(* Sequences and numbers.                                                  *)

\* What RemoveAt leaves: the elements after the one removed move up by one.
LEMMA RemoveAtProperties ==
    ASSUME NEW S, NEW s \in Seq(S), NEW i \in 1 .. Len(s)
    PROVE  /\ RemoveAt(s, i) \in Seq(S)
           /\ Len(RemoveAt(s, i)) = Len(s) - 1
           /\ \A k \in 1 .. Len(s) - 1 :
                RemoveAt(s, i)[k] = IF k < i THEN s[k] ELSE s[k + 1]
<1> DEFINE front == SubSeq(s, 1, i - 1)
           back  == SubSeq(s, i + 1, Len(s))
<1>1. Len(s) \in Nat /\ \A k \in 1 .. Len(s) : s[k] \in S
  BY ElementOfSeq
<1>2. /\ front \in Seq(S) /\ Len(front) = i - 1
      /\ \A k \in 1 .. i - 1 : front[k] = s[k]
  <2>1. \A k \in 1 .. i - 1 : s[k] \in S
    BY <1>1
  <2>2. QED
    BY <1>1, <2>1, SubSeqProperties, 1 \in Int, i - 1 \in Int
<1>3. /\ back \in Seq(S) /\ Len(back) = Len(s) - i
      /\ \A k \in 1 .. Len(s) - i : back[k] = s[i + k]
  <2>1. \A k \in i + 1 .. Len(s) : s[k] \in S
    BY <1>1
  <2>2. /\ back \in Seq(S)
        /\ Len(back) = IF i + 1 <= Len(s) THEN Len(s) - (i + 1) + 1 ELSE 0
        /\ \A k \in 1 .. Len(s) - (i + 1) + 1 : back[k] = s[i + 1 + k - 1]
    BY <1>1, <2>1, SubSeqProperties, i + 1 \in Int, Len(s) \in Int
  <2>3. QED
    BY <1>1, <2>2
<1>4. RemoveAt(s, i) = front \o back
  BY DEF RemoveAt
<1> HIDE DEF front, back
<1>5. /\ front \o back \in Seq(S) /\ Len(front \o back) = Len(front) + Len(back)
      /\ \A k \in 1 .. Len(front) + Len(back) :
           (front \o back)[k] = IF k <= Len(front) THEN front[k] ELSE back[k - Len(front)]
  BY <1>2, <1>3, ConcatProperties
<1>6. ASSUME NEW k \in 1 .. Len(s) - 1
      PROVE  (front \o back)[k] = IF k < i THEN s[k] ELSE s[k + 1]
  <2>1. CASE k < i
    BY <1>1, <1>2, <1>3, <1>5, <2>1
  <2>2. CASE ~ (k < i)
    <3>1. k - Len(front) \in 1 .. Len(s) - i /\ i + (k - Len(front)) = k + 1
      BY <1>1, <1>2, <2>2
    <3>2. (front \o back)[k] = back[k - Len(front)]
      BY <1>1, <1>2, <1>3, <1>5, <2>2
    <3>3. back[k - Len(front)] = s[i + (k - Len(front))]
      BY <1>3, <3>1
    <3>4. QED
      BY <2>2, <3>1, <3>2, <3>3
  <2>3. QED
    BY <2>1, <2>2
<1>7. QED
  BY <1>1, <1>2, <1>3, <1>4, <1>5, <1>6

\* The least element of a set of natural numbers.
LEMMA LeastNatural ==
    ASSUME NEW T \in SUBSET Nat, T # {}
    PROVE  \E x \in T : \A y \in T : x <= y
<1> DEFINE Less == OpToRel(<, Nat)
<1>1. IsWellFoundedOn(Less, Nat)
  BY NatLessThanWellFounded
<1>2. \A x, y \in T : y < x => <<y, x>> \in Less
  BY DEF OpToRel
<1> HIDE DEF Less
<1>3. PICK x \in T : \A y \in T : ~ (<<y, x>> \in Less)
  BY <1>1, WFMin
<1>4. \A y \in T : ~ (y < x)
  BY <1>2, <1>3, Zenon
<1>5. \A y \in T : x <= y
  BY <1>4
<1>6. QED
  BY <1>5

\* Some row is the best, if there is one: by the least length at which none is.
LEMMA SomeRowIsBest ==
    ASSUME NEW n \in Nat \ {0}, NEW f, \A i \in 1 .. n : f[i] \in Int
    PROVE  \E i \in 1 .. n : \A k \in 1 .. n : f[k] <= f[i]
<1> DEFINE Bestless == {m \in 1 .. n : ~ \E i \in 1 .. m : \A k \in 1 .. m : f[k] <= f[i]}
<1> SUFFICES ASSUME Bestless # {} PROVE FALSE
  BY n \in 1 .. n
<1>1. PICK m \in Bestless : \A j \in Bestless : m <= j
  BY LeastNatural, Bestless \in SUBSET Nat
<1>2. CASE m = 1
  BY <1>2
<1>3. CASE m # 1
  <2>0. m \in 1 .. n /\ m - 1 \in 1 .. n
    BY <1>3
  <2>1. m - 1 \notin Bestless
    <3> HIDE DEF Bestless
    <3>1. QED
      BY <1>1, <2>0
  <2>2. PICK i \in 1 .. m - 1 : \A k \in 1 .. m - 1 : f[k] <= f[i]
    BY <2>0, <2>1
  <2>3. CASE f[m] <= f[i]
    <3>1. \A k \in 1 .. m : f[k] <= f[i]
      BY <2>2, <2>3, SMTT(60)
    <3>2. QED
      BY <3>1
  <2>4. CASE ~ (f[m] <= f[i])
    <3>1. \A k \in 1 .. m : f[k] <= f[m]
      BY <2>2, <2>4
    <3>2. QED
      BY <3>1
  <2>5. QED
    BY <2>3, <2>4
<1>4. QED
  BY <1>2, <1>3

-----------------------------------------------------------------------------
(* Owners and their positions.                                             *)

LEMMA PositionOf ==
    ASSUME IInv, NEW i \in DOMAIN userIds
    PROVE  Position(userIds[i]) = i
BY DEF Position, IInv, RowsPaired, IsInjective

LEMMA OwnerHasPosition ==
    ASSUME IInv, NEW u \in ToSet(userIds)
    PROVE  /\ Position(u) \in 1 .. Len(userIds) /\ DOMAIN userIds = 1 .. Len(userIds)
           /\ userIds[Position(u)] = u
           /\ Len(userIds) \in Nat /\ embeddings \in Seq(Vector)
           /\ Len(embeddings) = Len(userIds)
<1>1. PICK i \in DOMAIN userIds : userIds[i] = u
  BY DEF ToSet
<1>2. Position(u) = i
  BY <1>1, PositionOf
<1>3. DOMAIN userIds = 1 .. Len(userIds) /\ Len(userIds) \in Nat
  BY DEF IInv, TypeOK
<1>4. embeddings # NoArray
  BY <1>1, <1>3 DEF IInv, RowsPaired
<1>5. QED
  BY <1>1, <1>2, <1>3, <1>4 DEF IInv, TypeOK, RowsPaired

\* What the index holds after a rebuild that it is needed for.
LEMMA RebuildRepeats ==
    ASSUME IInv, NEW matrix \in Seq(Vector), embeddings' = matrix, RebuildIndexIfNeeded(matrix),
           UNCHANGED faissInstalled
    PROVE  /\ useFaiss' \in BOOLEAN /\ orphaned' \in BOOLEAN
           /\ index' \in Seq(Vector) \cup {NoIndex}
           /\ IndexRepeatsRows'
<1>1. matrix # NoArray
  BY FaceMatcherAssumption
<1>2. CASE useFaiss /\ matrix # <<>>
  BY <1>1, <1>2, FaceMatcherAssumption
     DEF RebuildIndexIfNeeded, BuildFaissIndex, IInv, TypeOK, IndexRepeatsRows, Indexed
<1>3. CASE ~ (useFaiss /\ matrix # <<>>)
  BY <1>1, <1>3 DEF RebuildIndexIfNeeded, IInv, TypeOK, IndexRepeatsRows, Indexed
<1>4. QED
  BY <1>2, <1>3

-----------------------------------------------------------------------------
(* The inductive invariant and the refinement, one lemma for each method.  *)

LEMMA InitHolds == Init => IInv
<1> SUFFICES ASSUME Init PROVE IInv
  OBVIOUS
<1>1. userIds = <<>> /\ Len(userIds) = 0 /\ DOMAIN userIds = {} /\ userIds \in Seq(User)
  BY DEF Init
<1>2. TypeOK
  BY <1>1 DEF Init, TypeOK
<1>3. RowsPaired
  BY <1>1 DEF Init, RowsPaired, IsInjective
<1>4. IndexRepeatsRows
  BY DEF Init, IndexRepeatsRows, Indexed
<1>5. QED
  BY <1>2, <1>3, <1>4 DEF IInv

\* A roster names distinct users.
LEMMA RosterShape ==
    ASSUME NEW ids \in Rosters, NEW matrix \in Rows(ids)
    PROVE  /\ ids \in Seq(User) /\ matrix \in Seq(Vector) /\ Len(ids) = Len(matrix)
           /\ IsInjective(ids)
<1>1. PICK S \in SUBSET User \ {{}} : ids \in SetToSeqs(S)
  BY DEF Rosters
<1> DEFINE n == Cardinality(S)
<1>2. ids \in [1 .. n -> S] /\ \A i, j \in 1 .. n : i # j => ids[i] # ids[j]
  BY <1>1 DEF SetToSeqs
<1>3. n \in Nat
  BY FaceMatcherAssumption, FS_Subset, FS_CardinalityType
<1>4. ids \in [1 .. n -> User] /\ DOMAIN ids = 1 .. n /\ matrix \in [1 .. n -> Vector]
  BY <1>2 DEF Rows
<1>5. ids \in Seq(User) /\ matrix \in Seq(Vector) /\ Len(ids) = n /\ Len(matrix) = n
  BY <1>3, <1>4
<1>6. IsInjective(ids)
  BY <1>2, <1>4 DEF IsInjective
<1>7. QED
  BY <1>5, <1>6

\* The template of an owner, and the lack of one.
LEMMA TemplateOfOwner ==
    ASSUME IInv, NEW i \in DOMAIN userIds
    PROVE  userIds[i] \in User /\ TemplateOf[userIds[i]] = embeddings[i]
<1>1. userIds[i] \in User /\ userIds[i] \in ToSet(userIds)
  BY DEF IInv, TypeOK, ToSet
<1>2. QED
  BY <1>1, PositionOf DEF TemplateOf

\* The next state keeps the users' templates as a map, read off positions.
LEMMA MapFromPositions ==
    ASSUME IInv', NEW m, m = [u \in User |-> m[u]],
           \A i \in DOMAIN userIds' : m[userIds'[i]] = embeddings'[i],
           \A u \in User : u \notin ToSet(userIds)' => m[u] = NoTemplate
    PROVE  TemplateOf' = m
<1>1. ASSUME NEW u \in User PROVE TemplateOf'[u] = m[u]
  <2>1. CASE u \in ToSet(userIds)'
    <3>1. PICK i \in DOMAIN userIds' : userIds'[i] = u
      BY <2>1 DEF ToSet
    <3>2. \A k \in DOMAIN userIds' : userIds'[k] = u => k = i
      BY <3>1 DEF IInv, RowsPaired, IsInjective
    <3>3. Position(u)' = i
      BY <3>1, <3>2 DEF Position
    <3>4. QED
      BY <2>1, <3>1, <3>3 DEF TemplateOf
  <2>2. CASE u \notin ToSet(userIds)'
    BY <2>2 DEF TemplateOf
  <2>3. QED
    BY <2>1, <2>2
<1>2. TemplateOf' = [u \in User |-> TemplateOf'[u]]
  BY DEF TemplateOf
<1>3. QED
  BY <1>1, <1>2

LEMMA BuildKeeps ==
    ASSUME IInv, NEW ids \in Rosters, NEW matrix \in Rows(ids), Build(matrix, ids)
    PROVE  IInv' /\ Map!Fill
<1>1. /\ ids \in Seq(User) /\ matrix \in Seq(Vector) /\ Len(ids) = Len(matrix)
      /\ IsInjective(ids) /\ matrix # NoArray
  BY RosterShape, FaceMatcherAssumption
<1>2. userIds' = ids /\ embeddings' = matrix /\ embeddings = NoArray /\ index = NoIndex
  BY DEF Build
<1>3. useFaiss' \in BOOLEAN /\ orphaned' \in BOOLEAN /\ index' \in Seq(Vector) \cup {NoIndex}
  BY <1>1 DEF Build, BuildFaissIndex, IInv, TypeOK
<1>4. IndexRepeatsRows'
  BY <1>1, <1>2 DEF Build, BuildFaissIndex, IndexRepeatsRows, Indexed
<1>5. IInv'
  BY <1>1, <1>2, <1>3, <1>4 DEF Build, IInv, TypeOK, RowsPaired
<1>6. Map!Enrolled = {}
  <2>1. Len(userIds) = 0 /\ DOMAIN userIds = {}
    BY <1>2 DEF IInv, RowsPaired, TypeOK
  <2>2. \A u \in User : TemplateOf[u] = NoTemplate
    BY <2>1 DEF TemplateOf, ToSet
  <2>3. QED
    BY <2>2 DEF Map!Enrolled
<1>7. TemplateOf' \in [User -> Vector \cup {NoTemplate}]
  <2>1. ASSUME NEW u \in User, u \in ToSet(userIds)' PROVE embeddings'[Position(u)'] \in Vector
    <3>1. PICK i \in DOMAIN userIds' : userIds'[i] = u
      BY <2>1 DEF ToSet
    <3>2. \A k \in DOMAIN userIds' : userIds'[k] = u => k = i
      BY <3>1, <1>5 DEF IInv, RowsPaired, IsInjective
    <3>3. Position(u)' = i
      BY <3>1, <3>2 DEF Position
    <3>4. i \in 1 .. Len(matrix)
      BY <1>1, <1>2, <3>1
    <3>5. QED
      BY <1>1, <1>2, <3>3, <3>4, ElementOfSeq
  <2>2. QED
    BY <2>1 DEF TemplateOf
<1>8. QED
  BY <1>5, <1>6, <1>7 DEF Map!Fill

LEMMA UpdateKeeps ==
    ASSUME IInv, NEW u \in User, NEW v \in Vector, UpdateEmbedding(u, v)
    PROVE  IInv' /\ Map!Put(u, v)
<1> DEFINE p == Position(u)
<1>1. u \in ToSet(userIds) /\ embeddings' = [embeddings EXCEPT ![p] = v] /\ userIds' = userIds
  BY DEF UpdateEmbedding
<1>2. /\ p \in 1 .. Len(userIds) /\ DOMAIN userIds = 1 .. Len(userIds) /\ userIds[p] = u
      /\ embeddings \in Seq(Vector) /\ Len(embeddings) = Len(userIds)
  BY <1>1, OwnerHasPosition
<1> HIDE DEF p
<1>3. /\ embeddings' \in Seq(Vector) /\ Len(embeddings') = Len(embeddings)
      /\ \A i \in 1 .. Len(embeddings) : embeddings'[i] = IF i = p THEN v ELSE embeddings[i]
  BY <1>1, <1>2, ExceptSeq
<1>4. IInv'
  <2>1. RebuildIndexIfNeeded(embeddings') /\ faissInstalled' = faissInstalled
    BY DEF UpdateEmbedding
  <2>2. /\ useFaiss' \in BOOLEAN /\ orphaned' \in BOOLEAN
        /\ index' \in Seq(Vector) \cup {NoIndex} /\ IndexRepeatsRows'
    BY <1>3, <2>1, RebuildRepeats
  <2>3. embeddings' # NoArray /\ embeddings # NoArray
    BY <1>2, <1>3, FaceMatcherAssumption
  <2>4. QED
    BY <1>1, <1>3, <2>1, <2>2, <2>3 DEF IInv, TypeOK, RowsPaired
<1>5. TemplateOf' = [TemplateOf EXCEPT ![u] = v]
  <2> DEFINE m == [TemplateOf EXCEPT ![u] = v]
  <2>1. m = [w \in User |-> m[w]] /\ \A w \in User : m[w] = IF w = u THEN v ELSE TemplateOf[w]
    BY DEF TemplateOf
  <2>2. ASSUME NEW i \in DOMAIN userIds' PROVE m[userIds'[i]] = embeddings'[i]
    <3>1. i \in DOMAIN userIds /\ userIds[i] \in User /\ TemplateOf[userIds[i]] = embeddings[i]
      BY <1>1, <2>2, TemplateOfOwner
    <3>2. userIds[i] = u <=> i = p
      BY <1>2, <3>1 DEF IInv, RowsPaired, IsInjective
    <3>3. QED
      BY <1>1, <1>2, <1>3, <2>1, <3>1, <3>2
  <2>3. \A w \in User : w \notin ToSet(userIds)' => m[w] = NoTemplate
    BY <1>1, <2>1 DEF TemplateOf
  <2> HIDE DEF m
  <2>4. TemplateOf' = m
    BY <1>4, <2>1, <2>2, <2>3, MapFromPositions
  <2>5. QED
    BY <2>4 DEF m
<1>6. QED
  BY <1>4, <1>5 DEF Map!Put

LEMMA AddKeeps ==
    ASSUME IInv, NEW u \in User, NEW v \in Vector, AddUser(u, v)
    PROVE  IInv' /\ Map!Put(u, v)
<1> DEFINE rows == IF embeddings = NoArray THEN <<>> ELSE embeddings
           n    == Len(userIds)
<1>1. /\ userIds \in Seq(User) /\ n \in Nat /\ DOMAIN userIds = 1 .. n
      /\ rows \in Seq(Vector) /\ Len(rows) = n /\ IsInjective(userIds)
  BY EmptySeq DEF IInv, TypeOK, RowsPaired
<1>2. u \notin ToSet(userIds) /\ userIds' = Append(userIds, u) /\ embeddings' = Append(rows, v)
  <2>1. Append(<<>>, v) = <<v>>
    OBVIOUS
  <2>2. QED
    BY <2>1 DEF AddUser
<1>3. /\ userIds' \in Seq(User) /\ Len(userIds') = n + 1 /\ DOMAIN userIds' = 1 .. n + 1
      /\ \A i \in 1 .. n : userIds'[i] = userIds[i]
      /\ userIds'[n + 1] = u
  BY <1>1, <1>2, AppendProperties
<1>4. /\ embeddings' \in Seq(Vector) /\ Len(embeddings') = n + 1 /\ embeddings' # NoArray
      /\ \A i \in 1 .. n : embeddings'[i] = rows[i]
      /\ embeddings'[n + 1] = v
  <2>1. /\ Append(rows, v) \in Seq(Vector) /\ Len(Append(rows, v)) = n + 1
        /\ \A i \in 1 .. n : Append(rows, v)[i] = rows[i]
        /\ Append(rows, v)[n + 1] = v
    BY <1>1, AppendProperties
  <2>2. QED
    BY <1>2, <2>1, FaceMatcherAssumption
<1>5. \A i \in 1 .. n : userIds[i] # u
  BY <1>1, <1>2 DEF ToSet
<1>6. IsInjective(userIds')
  BY <1>1, <1>3, <1>5 DEF IsInjective
<1>7. index' \in Seq(Vector) \cup {NoIndex} /\ useFaiss' = useFaiss /\ orphaned' = orphaned
  <2>1. CASE Indexed
    <3>1. index \in Seq(Vector) /\ index' = Append(index, v)
      BY <2>1 DEF AddUser, Indexed, IInv, TypeOK
    <3>2. QED
      BY <3>1, AppendProperties DEF AddUser
  <2>2. CASE ~ Indexed
    BY <2>2 DEF AddUser, IInv, TypeOK
  <2>3. QED
    BY <2>1, <2>2
<1>8. IndexRepeatsRows'
  <2> SUFFICES ASSUME Indexed', ~ orphaned' PROVE index' = embeddings'
    BY <1>4 DEF IndexRepeatsRows
  <2>1. Indexed
    BY <1>7 DEF AddUser, Indexed
  <2>2. index = rows
    BY <1>7, <2>1 DEF IInv, IndexRepeatsRows
  <2>3. QED
    BY <1>2, <2>1, <2>2 DEF AddUser
<1>9. IInv'
  BY <1>3, <1>4, <1>6, <1>7, <1>8 DEF AddUser, IInv, TypeOK, RowsPaired
<1>10. TemplateOf' = [TemplateOf EXCEPT ![u] = v]
  <2> DEFINE m == [TemplateOf EXCEPT ![u] = v]
  <2>1. m = [w \in User |-> m[w]] /\ \A w \in User : m[w] = IF w = u THEN v ELSE TemplateOf[w]
    BY DEF TemplateOf
  <2>2. ASSUME NEW i \in DOMAIN userIds' PROVE m[userIds'[i]] = embeddings'[i]
    <3>1. CASE i = n + 1
      BY <1>3, <1>4, <2>1, <3>1
    <3>2. CASE i # n + 1
      <4>1. i \in 1 .. n
        BY <1>1, <1>3, <3>2
      <4>2. userIds[i] \in User /\ TemplateOf[userIds[i]] = embeddings[i]
        BY <1>1, <4>1, TemplateOfOwner
      <4>3. embeddings # NoArray
        BY <1>1, <4>1 DEF IInv, RowsPaired
      <4>4. QED
        BY <1>3, <1>4, <1>5, <2>1, <4>1, <4>2, <4>3
    <3>3. QED
      BY <3>1, <3>2
  <2>3. ASSUME NEW w \in User, w \notin ToSet(userIds)' PROVE m[w] = NoTemplate
    <3>1. w # u
      BY <1>1, <1>3, <2>3 DEF ToSet
    <3>2. w \notin ToSet(userIds)
      BY <1>1, <1>3, <2>3 DEF ToSet
    <3>3. QED
      BY <2>1, <3>1, <3>2 DEF TemplateOf
  <2> HIDE DEF m
  <2>4. TemplateOf' = m
    BY <1>9, <2>1, <2>2, <2>3, MapFromPositions
  <2>5. QED
    BY <2>4 DEF m
<1>11. QED
  BY <1>9, <1>10 DEF Map!Put

LEMMA RemoveKeeps ==
    ASSUME IInv, NEW u \in User, RemoveUser(u)
    PROVE  IInv' /\ Map!Drop(u)
<1> DEFINE p == Position(u)
           n == Len(userIds)
<1>1. /\ u \in ToSet(userIds) /\ embeddings' = RemoveAt(embeddings, p)
      /\ userIds' = RemoveAt(userIds, p)
  BY DEF RemoveUser
<1>2. /\ p \in 1 .. n /\ DOMAIN userIds = 1 .. n /\ userIds[p] = u /\ n \in Nat
      /\ embeddings \in Seq(Vector) /\ Len(embeddings) = n /\ userIds \in Seq(User)
      /\ IsInjective(userIds)
  BY <1>1, OwnerHasPosition DEF IInv, TypeOK, RowsPaired
<1> HIDE DEF p
<1>3. /\ userIds' \in Seq(User) /\ Len(userIds') = n - 1 /\ DOMAIN userIds' = 1 .. n - 1
      /\ \A i \in 1 .. n - 1 : userIds'[i] = IF i < p THEN userIds[i] ELSE userIds[i + 1]
  <2>1. /\ RemoveAt(userIds, p) \in Seq(User) /\ Len(RemoveAt(userIds, p)) = n - 1
        /\ \A i \in 1 .. n - 1 :
             RemoveAt(userIds, p)[i] = IF i < p THEN userIds[i] ELSE userIds[i + 1]
    BY <1>2, RemoveAtProperties
  <2>2. QED
    BY <1>1, <2>1
<1>4. /\ embeddings' \in Seq(Vector) /\ Len(embeddings') = n - 1
      /\ \A i \in 1 .. n - 1 : embeddings'[i] = IF i < p THEN embeddings[i] ELSE embeddings[i + 1]
  BY <1>1, <1>2, RemoveAtProperties
<1>5. IsInjective(userIds')
  <2> SUFFICES ASSUME NEW i \in 1 .. n - 1, NEW k \in 1 .. n - 1, userIds'[i] = userIds'[k]
               PROVE  i = k
    BY <1>3 DEF IsInjective
  <2> DEFINE Was(j) == IF j < p THEN j ELSE j + 1
  <2>1. Was(i) \in 1 .. n /\ Was(k) \in 1 .. n /\ (Was(i) = Was(k) => i = k)
    BY <1>2
  <2>2. userIds'[i] = userIds[Was(i)] /\ userIds'[k] = userIds[Was(k)]
    BY <1>3
  <2>3. QED
    BY <1>2, <2>1, <2>2 DEF IsInjective
<1>6. IInv'
  <2>1. RebuildIndexIfNeeded(embeddings') /\ faissInstalled' = faissInstalled
    BY DEF RemoveUser
  <2>2. /\ useFaiss' \in BOOLEAN /\ orphaned' \in BOOLEAN
        /\ index' \in Seq(Vector) \cup {NoIndex} /\ IndexRepeatsRows'
    BY <1>4, <2>1, RebuildRepeats
  <2>3. embeddings' # NoArray
    BY <1>4, FaceMatcherAssumption
  <2>4. QED
    BY <1>3, <1>4, <1>5, <2>1, <2>2, <2>3 DEF IInv, TypeOK, RowsPaired
<1>7. TemplateOf' = [TemplateOf EXCEPT ![u] = NoTemplate]
  <2> DEFINE m == [TemplateOf EXCEPT ![u] = NoTemplate]
  <2>1. /\ m = [w \in User |-> m[w]]
        /\ \A w \in User : m[w] = IF w = u THEN NoTemplate ELSE TemplateOf[w]
    BY DEF TemplateOf
  <2>2. ASSUME NEW i \in DOMAIN userIds' PROVE m[userIds'[i]] = embeddings'[i]
    <3> DEFINE j == IF i < p THEN i ELSE i + 1
    <3>1. i \in 1 .. n - 1
      BY <1>3
    <3>2. j \in 1 .. n /\ j # p
      BY <1>2, <3>1
    <3>3. userIds'[i] = userIds[j] /\ embeddings'[i] = embeddings[j]
      BY <1>3, <1>4, <3>1
    <3> HIDE DEF j
    <3>4. userIds[j] \in User /\ TemplateOf[userIds[j]] = embeddings[j]
      BY <1>2, <3>2, TemplateOfOwner
    <3>5. userIds[j] # u
      BY <1>2, <3>2 DEF IsInjective
    <3>6. QED
      BY <2>1, <3>3, <3>4, <3>5
  <2>3. ASSUME NEW w \in User, w \notin ToSet(userIds)', w # u PROVE w \notin ToSet(userIds)
    <3> SUFFICES ASSUME NEW j \in 1 .. n, userIds[j] = w PROVE FALSE
      BY <1>2 DEF ToSet
    <3>1. j # p
      BY <1>2, <2>3
    <3>2. CASE j < p
      BY <1>2, <1>3, <2>3, <3>2 DEF ToSet
    <3>3. CASE j > p
      <4>1. j - 1 \in 1 .. n - 1 /\ ~ (j - 1 < p) /\ (j - 1) + 1 = j
        BY <1>2, <3>3
      <4>2. userIds'[j - 1] = w
        BY <1>3, <4>1
      <4>3. QED
        BY <1>3, <2>3, <4>1, <4>2 DEF ToSet
    <3>4. QED
      BY <1>2, <3>1, <3>2, <3>3
  <2>4. \A w \in User : w \notin ToSet(userIds)' => m[w] = NoTemplate
    BY <2>1, <2>3 DEF TemplateOf
  <2> HIDE DEF m
  <2>5. TemplateOf' = m
    BY <1>6, <2>1, <2>2, <2>4, MapFromPositions
  <2>6. QED
    BY <2>5 DEF m
<1>8. QED
  BY <1>6, <1>7 DEF Map!Drop

LEMMA ClearKeeps ==
    ASSUME IInv, Clear
    PROVE  IInv' /\ Map!Empty
<1>1. userIds' = <<>> /\ Len(userIds') = 0 /\ DOMAIN userIds' = {} /\ userIds' \in Seq(User)
  BY DEF Clear
<1>2. <<>> \in Seq(Vector)
  OBVIOUS
<1>3. TypeOK' /\ IndexRepeatsRows'
  BY <1>1, <1>2 DEF Clear, IInv, TypeOK, IndexRepeatsRows, Indexed
<1>4. RowsPaired'
  BY <1>1 DEF Clear, RowsPaired, IsInjective
<1>5. \A u \in User : TemplateOf'[u] = NoTemplate
  BY <1>1 DEF TemplateOf, ToSet
<1>6. TemplateOf' = [u \in User |-> NoTemplate]
  BY <1>5 DEF TemplateOf
<1>7. QED
  BY <1>3, <1>4, <1>6 DEF IInv, Map!Empty

LEMMA StepKeeps == IInv /\ [Next]_vars => IInv' /\ [Map!Next]_TemplateOf
<1> SUFFICES ASSUME IInv, [Next]_vars PROVE IInv' /\ [Map!Next]_TemplateOf
  OBVIOUS
<1>1. ASSUME NEW ids \in Rosters, NEW matrix \in Rows(ids), Build(matrix, ids)
      PROVE  IInv' /\ Map!Next
  BY <1>1, BuildKeeps DEF Map!Next
<1>2. ASSUME NEW u \in User, NEW v \in Vector, UpdateEmbedding(u, v) \/ AddUser(u, v)
      PROVE  IInv' /\ Map!Next
  BY <1>2, UpdateKeeps, AddKeeps DEF Map!Next
<1>3. ASSUME NEW u \in User, RemoveUser(u) PROVE IInv' /\ Map!Next
  BY <1>3, RemoveKeeps DEF Map!Next
<1>4. CASE Clear
  BY <1>4, ClearKeeps DEF Map!Next
<1>5. CASE UNCHANGED vars
  <2>1. IInv'
    BY <1>5 DEF vars, IInv, TypeOK, RowsPaired, IndexRepeatsRows, Indexed
  <2>2. TemplateOf' = TemplateOf
    BY <1>5 DEF vars, TemplateOf, Position
  <2>3. QED
    BY <2>1, <2>2
<1>6. QED
  BY <1>1, <1>2, <1>3, <1>4, <1>5 DEF Next

\* The rows and their owners stay paired, nobody has two rows, and the index repeats
\* the rows until the last user is removed (matcher.py:177-221).
THEOREM InvariantHolds == Spec => []IInv
<1>1. IInv /\ [Next]_vars => IInv'
  BY StepKeeps
<1>2. QED
  BY InitHolds, <1>1, PTL DEF Spec

\* Whatever was updated, removed and added before, row and owner agree.
THEOREM RowsStayPaired == Spec => []RowsPaired
<1>1. IInv => RowsPaired
  BY DEF IInv
<1>2. QED
  BY InvariantHolds, <1>1, PTL

\* The matrix, the list of owners and the index implement one map from users to
\* templates: every method is one step on that map (matcher.py:17-58, 163-237).
THEOREM IsATemplateMap == Spec => ImplementsTemplateMap
<1>1. Init => Map!Init
  BY DEF Init, Map!Init, TemplateOf, ToSet
<1>2. IInv /\ [Next]_vars => [Map!Next]_TemplateOf
  BY StepKeeps
<1>3. QED
  BY InvariantHolds, <1>1, <1>2, PTL DEF Spec, ImplementsTemplateMap, Map!Spec

-----------------------------------------------------------------------------
(* What a probe is answered.                                               *)

\* The users with a template are the owners of the rows.
LEMMA EnrolledAreOwners ==
    ASSUME IInv, NEW u
    PROVE  u \in Map!Enrolled <=> \E i \in DOMAIN userIds : userIds[i] = u
<1>1. ASSUME NEW i \in DOMAIN userIds, userIds[i] = u PROVE u \in Map!Enrolled
  <2>1. u \in ToSet(userIds) /\ u \in User /\ TemplateOf[u] = embeddings[i]
    BY <1>1, TemplateOfOwner DEF ToSet
  <2>2. embeddings \in Seq(Vector) /\ i \in 1 .. Len(embeddings)
    BY <2>1, OwnerHasPosition
  <2>3. embeddings[i] \in Vector
    BY <2>2, ElementOfSeq
  <2>4. QED
    BY <2>1, <2>3, FaceMatcherAssumption DEF Map!Enrolled
<1>2. ASSUME u \in Map!Enrolled PROVE \E i \in DOMAIN userIds : userIds[i] = u
  BY <1>2 DEF Map!Enrolled, TemplateOf, ToSet
<1>3. QED
  BY <1>1, <1>2

\* A search of the rows finds exactly the owners the map promises.
LEMMA SearchFindsOwners ==
    ASSUME IInv, embeddings \notin {NoArray, <<>>}, NEW q \in Vector
    PROVE  Answers(embeddings, q) = IF Map!Owners(q) = {} THEN {NoMatch} ELSE Map!Owners(q)
<1> DEFINE n == Len(embeddings)
           score(i) == Score(q, embeddings[i])
<1>1. /\ embeddings \in Seq(Vector) /\ n \in Nat \ {0} /\ DOMAIN embeddings = 1 .. n
      /\ Len(userIds) = n /\ DOMAIN userIds = 1 .. n
  BY EmptySeq DEF IInv, TypeOK, RowsPaired
<1>2. \A i \in 1 .. n : score(i) \in Int
  BY <1>1, ElementOfSeq, FaceMatcherAssumption
<1>3. \A i \in 1 .. n : userIds[i] \in User /\ TemplateOf[userIds[i]] = embeddings[i]
  BY <1>1, TemplateOfOwner
<1>4. PICK b \in 1 .. n : \A k \in 1 .. n : score(k) <= score(b)
  <2> DEFINE f == [i \in 1 .. n |-> score(i)]
  <2>1. \A i \in 1 .. n : f[i] = score(i) /\ f[i] \in Int
    BY <1>2
  <2> HIDE DEF f
  <2>2. \E i \in 1 .. n : \A k \in 1 .. n : f[k] <= f[i]
    BY <1>1, <2>1, SomeRowIsBest
  <2>3. QED
    BY <2>1, <2>2
<1>5. \A i : i \in Best(embeddings, q) <=> i \in 1 .. n /\ score(i) = score(b)
  BY <1>1, <1>2, <1>4 DEF Best
<1>6. \A u : u \in Map!Nearest(q) <=> \E i \in 1 .. n : u = userIds[i] /\ score(i) = score(b)
  <2>1. ASSUME NEW u, u \in Map!Nearest(q)
        PROVE  \E i \in 1 .. n : u = userIds[i] /\ score(i) = score(b)
    <3>1. PICK i \in 1 .. n : u = userIds[i]
      BY <1>1, <2>1, EnrolledAreOwners DEF Map!Nearest
    <3>2. userIds[b] \in Map!Enrolled
      BY <1>1, EnrolledAreOwners
    <3>3. score(b) <= score(i)
      BY <1>3, <2>1, <3>1, <3>2 DEF Map!Nearest
    <3>4. QED
      BY <1>2, <1>4, <3>1, <3>3
  <2>2. ASSUME NEW i \in 1 .. n, score(i) = score(b) PROVE userIds[i] \in Map!Nearest(q)
    <3>1. userIds[i] \in Map!Enrolled
      BY <1>1, EnrolledAreOwners
    <3>2. ASSUME NEW w \in Map!Enrolled
          PROVE  Score(q, TemplateOf[w]) <= Score(q, TemplateOf[userIds[i]])
      <4>1. PICK k \in 1 .. n : w = userIds[k]
        BY <1>1, EnrolledAreOwners
      <4>2. QED
        BY <1>3, <1>4, <2>2, <4>1
    <3>3. QED
      BY <3>1, <3>2 DEF Map!Nearest
  <2>3. QED
    BY <2>1, <2>2
<1>7. \A i \in 1 .. n : OwnerAt(i) = userIds[i]
  BY <1>1 DEF OwnerAt
<1>8. CASE score(b) >= Threshold
  <2>1. Answers(embeddings, q) = {userIds[i] : i \in Best(embeddings, q)}
    BY <1>5, <1>7, <1>8 DEF Answers
  <2>2. \A u : u \in Map!Owners(q) <=> \E i \in 1 .. n : u = userIds[i] /\ score(i) = score(b)
    BY <1>3, <1>6, <1>8 DEF Map!Owners
  <2>3. Map!Owners(q) # {} /\ Map!Owners(q) = {userIds[i] : i \in Best(embeddings, q)}
    BY <1>4, <1>5, <2>2
  <2>4. QED
    BY <2>1, <2>3
<1>9. CASE ~ (score(b) >= Threshold)
  <2>1. Answers(embeddings, q) = {NoMatch}
    <3>1. b \in Best(embeddings, q)
      BY <1>5
    <3>2. QED
      BY <1>5, <1>9, <3>1 DEF Answers
  <2>2. Map!Owners(q) = {}
    BY <1>3, <1>6, <1>9 DEF Map!Owners
  <2>3. QED
    BY <2>1, <2>2
<1>10. QED
  BY <1>8, <1>9

\* A probe is answered with the owner of a best template that reaches the threshold,
\* or with nobody if there is none, until the last user is removed from a matcher
\* with an index (matcher.py:69-143).
THEOREM AnswersAreOwners == Spec => []AnswersOwnersUnlessOrphaned
<1>1. IInv => AnswersOwnersUnlessOrphaned
  <2> SUFFICES ASSUME IInv, ~ orphaned, NEW q \in Vector PROVE AnswersOwner(q)
    BY DEF AnswersOwnersUnlessOrphaned
  <2>1. CASE embeddings \in {NoArray, <<>>}
    <3>1. DOMAIN userIds = {}
      <4>1. Len(userIds) = 0
        BY <2>1, EmptySeq DEF IInv, RowsPaired
      <4>2. QED
        BY <4>1 DEF IInv, TypeOK
    <3>2. Map!Owners(q) = {}
      BY <3>1, EnrolledAreOwners DEF Map!Owners, Map!Nearest
    <3>3. Match(q) = {NoMatch}
      BY <2>1 DEF Match
    <3>4. QED
      BY <3>2, <3>3 DEF AnswersOwner
  <2>2. CASE embeddings \notin {NoArray, <<>>}
    <3>1. Match(q) = Answers(embeddings, q)
      BY <2>2 DEF Match, IInv, IndexRepeatsRows
    <3>2. QED
      BY <2>2, <3>1, SearchFindsOwners DEF AnswersOwner
  <2>3. QED
    BY <2>1, <2>2
<1>2. QED
  BY InvariantHolds, <1>1, PTL
=============================================================================

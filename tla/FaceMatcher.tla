---------------------------- MODULE FaceMatcher ----------------------------
(***************************************************************************)
(* inference/matcher.py: one Matcher object, that is a matrix of templates, *)
(* the list of their owners, and (with ENABLE_FAISS_MATCHING) a FAISS index *)
(* that repeats the matrix.  The three are tied together by position only. *)
(* Below 1000 users, the only size modelled, the index is exact            *)
(* (IndexFlatIP).  Nothing here awaits: every method is one step.          *)
(***************************************************************************)
EXTENDS Integers, Sequences, SequencesExt

CONSTANTS
    User,
    Vector,         \* the templates, up to what Score tells apart
    NoTemplate,
    Score(_, _),    \* dot product of a probe and a template
    Threshold,
    NoArray,        \* embeddings is None
    NoIndex,        \* _faiss_index is None
    NoMatch,        \* match returned None
    IndexError,     \* match raised
    MaxIndex        \* bound: vectors in the FAISS index, orphans included

ASSUME FaceMatcherAssumption ==
    /\ IsFiniteSet(User)
    /\ Threshold \in Int /\ MaxIndex \in Nat
    /\ \A q, v \in Vector : Score(q, v) \in Int
    /\ NoTemplate \notin Vector
    /\ NoArray \notin Seq(Vector) /\ NoIndex \notin Seq(Vector)

VARIABLES
    faissInstalled, \* `import faiss' succeeds
    useFaiss,       \* use_faiss
    embeddings,     \* the matrix, one row per user
    userIds,        \* user_ids
    index,          \* the vectors the FAISS index holds
    orphaned        \* history: the last user left and the index was not rebuilt since

vars == <<faissInstalled, useFaiss, embeddings, userIds, index, orphaned>>

TypeOK ==
    /\ faissInstalled \in BOOLEAN
    /\ useFaiss \in BOOLEAN
    /\ embeddings \in Seq(Vector) \cup {NoArray}
    /\ userIds \in Seq(User)
    /\ index \in Seq(Vector) \cup {NoIndex}
    /\ orphaned \in BOOLEAN

Init ==
    /\ faissInstalled \in BOOLEAN
    /\ useFaiss \in BOOLEAN
    /\ embeddings = NoArray
    /\ userIds = <<>>
    /\ index = NoIndex
    /\ orphaned = FALSE

-----------------------------------------------------------------------------
Position(u) == CHOOSE i \in DOMAIN userIds : userIds[i] = u
Indexed     == useFaiss /\ index # NoIndex

\* _build_faiss_index, over the new matrix: without the package the matcher
\* falls back to NumPy for good.
BuildFaissIndex(matrix) ==
    IF faissInstalled
      THEN index' = matrix /\ orphaned' = FALSE /\ UNCHANGED useFaiss
      ELSE useFaiss' = FALSE /\ UNCHANGED <<index, orphaned>>

\* _rebuild_index_if_needed: an empty matrix leaves the index as it is.
RebuildIndexIfNeeded(matrix) ==
    IF useFaiss /\ matrix # <<>>
      THEN BuildFaissIndex(matrix)
      ELSE /\ UNCHANGED <<useFaiss, index>>
           /\ orphaned' = (orphaned \/ (Indexed /\ matrix = <<>>))

-----------------------------------------------------------------------------
\* build, called once, on a new object and with at least one row.
Build(matrix, ids) ==
    /\ embeddings = NoArray
    /\ index = NoIndex
    /\ embeddings' = matrix
    /\ userIds' = ids
    /\ IF useFaiss THEN BuildFaissIndex(matrix) ELSE UNCHANGED <<useFaiss, index, orphaned>>
    /\ UNCHANGED faissInstalled

\* Mutant: the replaced template stays in the FAISS index.
UpdateEmbeddingStale(u, v) ==
    /\ u \in ToSet(userIds)
    /\ embeddings' = [embeddings EXCEPT ![Position(u)] = v]
    /\ UNCHANGED <<faissInstalled, useFaiss, userIds, index, orphaned>>

\* update_embedding of a user who has a row.
UpdateEmbedding(u, v) ==
    /\ u \in ToSet(userIds)
    /\ embeddings' = [embeddings EXCEPT ![Position(u)] = v]
    /\ RebuildIndexIfNeeded(embeddings')
    /\ UNCHANGED <<faissInstalled, userIds>>

\* Mutant: a user who is added is not put into the index.
AddUserUnindexed(u, v) ==
    /\ u \notin ToSet(userIds)
    /\ embeddings' = IF embeddings = NoArray THEN <<v>> ELSE Append(embeddings, v)
    /\ userIds' = Append(userIds, u)
    /\ UNCHANGED <<faissInstalled, useFaiss, index, orphaned>>

\* update_embedding of any other user, and add_user: the row is appended, to
\* the index too if there is one.
AddUser(u, v) ==
    /\ u \notin ToSet(userIds)
    /\ Indexed => Len(index) < MaxIndex
    /\ embeddings' = IF embeddings = NoArray THEN <<v>> ELSE Append(embeddings, v)
    /\ userIds' = Append(userIds, u)
    /\ index' = IF Indexed THEN Append(index, v) ELSE index
    /\ UNCHANGED <<faissInstalled, useFaiss, orphaned>>

\* Mutant: the owner is popped from the end instead of the user's position.
RemoveUserPop(u) ==
    /\ u \in ToSet(userIds)
    /\ embeddings' = RemoveAt(embeddings, Position(u))
    /\ userIds' = Front(userIds)
    /\ RebuildIndexIfNeeded(embeddings')
    /\ UNCHANGED faissInstalled

RemoveUser(u) ==
    /\ u \in ToSet(userIds)
    /\ embeddings' = RemoveAt(embeddings, Position(u))
    /\ userIds' = RemoveAt(userIds, Position(u))
    /\ RebuildIndexIfNeeded(embeddings')
    /\ UNCHANGED faissInstalled

\* Mutant: the matrix survives.
ClearIdsOnly ==
    /\ userIds' = <<>>
    /\ index' = IF index # NoIndex THEN <<>> ELSE index
    /\ orphaned' = FALSE
    /\ UNCHANGED <<faissInstalled, useFaiss, embeddings>>

\* The registry drops the object afterwards; a cleared one still accepts users.
Clear ==
    /\ embeddings' = NoArray
    /\ userIds' = <<>>
    /\ index' = IF index # NoIndex THEN <<>> ELSE index
    /\ orphaned' = FALSE
    /\ UNCHANGED <<faissInstalled, useFaiss>>

-----------------------------------------------------------------------------
\* match: the first of the best rows (argsort and FAISS break ties as they
\* please) whose score reaches the threshold.  top_k is 1 in every caller; a
\* larger one changes nothing, since no later row scores higher.
Best(rows, q) ==
    {i \in DOMAIN rows : \A k \in DOMAIN rows : Score(q, rows[k]) <= Score(q, rows[i])}

\* user_ids[idx]
OwnerAt(i) == IF i \in DOMAIN userIds THEN userIds[i] ELSE IndexError

Answers(rows, q) ==
    {IF Score(q, rows[i]) >= Threshold THEN OwnerAt(i) ELSE NoMatch : i \in Best(rows, q)}

Match(q) ==
    CASE embeddings \in {NoArray, <<>>} -> {NoMatch}
      [] embeddings \notin {NoArray, <<>>} /\ Indexed -> Answers(index, q)
      [] OTHER -> Answers(embeddings, q)

-----------------------------------------------------------------------------
\* The rows of a database query: distinct users, in any order.
Rows(ids) == [DOMAIN ids -> Vector]
Rosters   == UNION {SetToSeqs(S) : S \in SUBSET User \ {{}}}

Next ==
    \/ \E ids \in Rosters : \E matrix \in Rows(ids) : Build(matrix, ids)
    \/ \E u \in User, v \in Vector : UpdateEmbedding(u, v) \/ AddUser(u, v)
    \/ \E u \in User : RemoveUser(u)
    \/ Clear

Spec == Init /\ [][Next]_vars

-----------------------------------------------------------------------------
\* The rows and the owners stay paired, and nobody has two rows, whatever was
\* updated, removed and added before (matcher.py:177-221).
RowsPaired ==
    /\ IsInjective(userIds)
    /\ Len(userIds) = IF embeddings = NoArray THEN 0 ELSE Len(embeddings)

\* While it is not orphaned, the index repeats the rows.
IndexRepeatsRows ==
    Indexed /\ ~ orphaned => index = IF embeddings = NoArray THEN <<>> ELSE embeddings

IInv == TypeOK /\ RowsPaired /\ IndexRepeatsRows

\* The map the matcher stands for.
TemplateOf ==
    [u \in User |-> IF u \in ToSet(userIds) THEN embeddings[Position(u)] ELSE NoTemplate]
Map == INSTANCE TemplateMap WITH template <- TemplateOf
ImplementsTemplateMap == Map!Spec

\* With NumPy, and with FAISS unless the last user was removed and the index
\* not rebuilt since, a probe is answered with the owner of a best template, and
\* with nobody only if no template reaches the threshold (matcher.py:69-143).
AnswersOwner(q) == Match(q) = IF Map!Owners(q) = {} THEN {NoMatch} ELSE Map!Owners(q)
AnswersOwnersUnlessOrphaned == orphaned \/ \A q \in Vector : AnswersOwner(q)

\* docs/architecture.md:60 ("Cosine/FAISS Match vs per-organization cached
\* embeddings") and tests/test_matcher.py:23-26 (test_exact_match_returns_owner),
\* with the FAISS index: a probe is answered with the owner of a cached
\* template.  The vector of a removed last user stays in the index, ahead of
\* every later one.
ExactMatchReturnsOwner == \A q \in Vector : AnswersOwner(q)
=============================================================================

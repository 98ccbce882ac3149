----------------------------- MODULE HubProofs -----------------------------
(***************************************************************************)
(* Proofs about the two hubs: the document store, for any finite set of    *)
(* ids and any terms, tags and texts; the model hub with the sidecar, for  *)
(* any chats, requests, calendar and size of the pool.                     *)
(***************************************************************************)
EXTENDS KnowledgeHub, ModelHub, SumTheorems, SequenceTheorems,
        FiniteSetTheorems, TLAPS

-----------------------------------------------------------------------------
(* The document store: KnowledgeHub. *)

\* What the invariant says of any term counts, index and history.
Covers(cs, ix) ==
    \A d \in Ids, t \in Terms : cs[d][t] > 0 => ix[t][d] = cs[d][t]

Accounted(cs, ix, f) ==
    \A t \in Terms, d \in Ids : ix[t][d] > 0 <=> cs[d][t] > 0 \/ <<t, d>> \in f

\* A posting that was forgotten is of a term the text does not have.
Apart(cs, f) == \A t \in Terms, d \in Ids : <<t, d>> \in f => cs[d][t] = 0

\* The types of the three.
StoreTypes(cs, ix, f) ==
    /\ cs \in [Ids -> [Terms -> Nat]]
    /\ ix \in [Terms -> [Ids -> Nat]]
    /\ f \subseteq Terms \X Ids

\* _update_bm25 keeps the index in step with the counts, whatever text the id
\* had before.
LEMMA UpsertKeepsIndex ==
  ASSUME NEW cs, NEW ix, NEW f, NEW d \in Ids, NEW text \in [Terms -> Nat],
         StoreTypes(cs, ix, f), Covers(cs, ix), Accounted(cs, ix, f),
         Apart(cs, f)
  PROVE  LET cs2 == [cs EXCEPT ![d] = text]
             ix2 == Posted(ix, d, text)
             f2 == Forgets(f, d, cs[d], text)
         IN  /\ StoreTypes(cs2, ix2, f2) /\ Covers(cs2, ix2)
             /\ Accounted(cs2, ix2, f2) /\ Apart(cs2, f2)
  <1> DEFINE cs2 == [cs EXCEPT ![d] = text]
             ix2 == Posted(ix, d, text)
             f2 == Forgets(f, d, cs[d], text)
  <1>1. /\ cs2 \in [Ids -> [Terms -> Nat]]
        /\ \A e \in Ids : cs2[e] = IF e = d THEN text ELSE cs[e]
    BY DEF StoreTypes
  <1>2. /\ ix2 \in [Terms -> [Ids -> Nat]]
        /\ \A t \in Terms, e \in Ids :
              ix2[t][e] = IF e = d /\ text[t] > 0 THEN text[t] ELSE ix[t][e]
    BY DEF StoreTypes, Posted
  <1>3. /\ f2 \subseteq Terms \X Ids
        /\ \A t \in Terms, e \in Ids :
              <<t, e>> \in f2 <=>
                 \/ <<t, e>> \in f /\ ~(e = d /\ text[t] > 0)
                 \/ e = d /\ cs[d][t] > 0 /\ text[t] = 0
    BY DEF Forgets
  <1> HIDE DEF cs2, ix2, f2
  <1>4. StoreTypes(cs2, ix2, f2)
    BY <1>1, <1>2, <1>3 DEF StoreTypes
  <1>5. Covers(cs2, ix2)
    BY <1>1, <1>2 DEF Covers
  <1>6. Accounted(cs2, ix2, f2)
    <2> SUFFICES ASSUME NEW t \in Terms, NEW e \in Ids
                 PROVE  ix2[t][e] > 0 <=> cs2[e][t] > 0 \/ <<t, e>> \in f2
      BY DEF Accounted
    <2>1. ix[t][e] > 0 <=> cs[e][t] > 0 \/ <<t, e>> \in f
      BY DEF Accounted
    <2>2. text[t] \in Nat /\ cs[e][t] \in Nat
      BY DEF StoreTypes
    <2>3. CASE e = d
      BY <1>1, <1>2, <1>3, <2>1, <2>2, <2>3
    <2>4. CASE e # d
      BY <1>1, <1>2, <1>3, <2>1, <2>2, <2>4
    <2> QED
      BY <2>3, <2>4
  <1>7. Apart(cs2, f2)
    BY <1>1, <1>3 DEF Apart, StoreTypes
  <1> QED
    BY <1>4, <1>5, <1>6, <1>7 DEF cs2, ix2, f2

\* _remove_from_bm25 removes exactly the postings of the counted terms.
LEMMA DeleteKeepsIndex ==
  ASSUME NEW cs, NEW ix, NEW f, NEW d \in Ids,
         StoreTypes(cs, ix, f), Covers(cs, ix), Accounted(cs, ix, f),
         Apart(cs, f)
  PROVE  LET cs2 == [cs EXCEPT ![d] = NoTerms]
             ix2 == Unposted(ix, d, cs[d])
         IN  /\ StoreTypes(cs2, ix2, f) /\ Covers(cs2, ix2)
             /\ Accounted(cs2, ix2, f) /\ Apart(cs2, f)
  <1> DEFINE cs2 == [cs EXCEPT ![d] = NoTerms]
             ix2 == Unposted(ix, d, cs[d])
  <1>0. NoTerms \in [Terms -> Nat] /\ \A t \in Terms : NoTerms[t] = 0
    BY DEF NoTerms
  <1>1. /\ cs2 \in [Ids -> [Terms -> Nat]]
        /\ \A e \in Ids : cs2[e] = IF e = d THEN NoTerms ELSE cs[e]
    BY <1>0 DEF StoreTypes
  <1>2. /\ ix2 \in [Terms -> [Ids -> Nat]]
        /\ \A t \in Terms, e \in Ids :
              ix2[t][e] = IF e = d /\ cs[d][t] > 0 THEN 0 ELSE ix[t][e]
    BY DEF StoreTypes, Unposted
  <1> HIDE DEF cs2, ix2
  <1>3. StoreTypes(cs2, ix2, f)
    BY <1>1, <1>2 DEF StoreTypes
  <1>4. Covers(cs2, ix2)
    BY <1>0, <1>1, <1>2 DEF Covers
  <1>5. Accounted(cs2, ix2, f)
    <2> SUFFICES ASSUME NEW t \in Terms, NEW e \in Ids
                 PROVE  ix2[t][e] > 0 <=> cs2[e][t] > 0 \/ <<t, e>> \in f
      BY DEF Accounted
    <2>1. ix[t][e] > 0 <=> cs[e][t] > 0 \/ <<t, e>> \in f
      BY DEF Accounted
    <2>2. cs[e][t] \in Nat
      BY DEF StoreTypes
    <2>3. CASE e = d
      BY <1>0, <1>1, <1>2, <2>1, <2>2, <2>3 DEF Apart
    <2>4. CASE e # d
      BY <1>1, <1>2, <2>1, <2>4
    <2> QED
      BY <2>3, <2>4
  <1>6. Apart(cs2, f)
    BY <1>0, <1>1 DEF Apart
  <1> QED
    BY <1>3, <1>4, <1>5, <1>6 DEF cs2, ix2

-----------------------------------------------------------------------------
(* The invariant. *)

\* The invariant in the terms of the lemmas.
Shape ==
    /\ docs \in [Ids -> Document \cup {NoDoc}]
    /\ StoreTypes(counts, index, forgotten)
    /\ \A d \in Ids : counts[d] = IF docs[d] = NoDoc THEN NoTerms ELSE docs[d].text
    /\ Covers(counts, index)
    /\ Accounted(counts, index, forgotten)
    /\ Apart(counts, forgotten)

\* The two say the same.
LEMMA ShapeIsInvariant == Shape <=> KnowledgeInv
  <1>1. ASSUME Shape PROVE KnowledgeInv
    BY <1>1 DEF Shape, KnowledgeInv, TypeOK, StoreTypes, Covers, Accounted,
       Apart, IndexCoversDocuments, StaleOnlyFromOverwrites, Stored
  <1>2. ASSUME KnowledgeInv PROVE Shape
    <2>1. StoreTypes(counts, index, forgotten)
      BY <1>2 DEF KnowledgeInv, TypeOK, StoreTypes
    <2>2. \A d \in Ids :
             counts[d] = IF docs[d] = NoDoc THEN NoTerms ELSE docs[d].text
      BY <1>2 DEF KnowledgeInv, IndexCoversDocuments, Stored
    <2>3. Covers(counts, index)
      <3> SUFFICES ASSUME NEW d \in Ids, NEW t \in Terms, counts[d][t] > 0
                   PROVE  index[t][d] = counts[d][t]
        BY DEF Covers
      <3>1. docs[d] # NoDoc
        BY <1>2 DEF KnowledgeInv, NoTerms
      <3> QED
        BY <3>1, <1>2 DEF KnowledgeInv, IndexCoversDocuments, Stored
    <2> QED
      BY <1>2, <2>1, <2>2, <2>3 DEF KnowledgeInv, TypeOK, Shape, Accounted, Apart,
         StaleOnlyFromOverwrites
  <1> QED
    BY <1>1, <1>2

\* The empty store.
LEMMA EmptyStore ==
  ASSUME NEW cs, NEW ix,
         cs = [d \in Ids |-> NoTerms],
         ix = [t \in Terms |-> [d \in Ids |-> 0]]
  PROVE  StoreTypes(cs, ix, {}) /\ Covers(cs, ix) /\ Accounted(cs, ix, {}) /\ Apart(cs, {})
  BY DEF StoreTypes, Covers, Accounted, Apart, NoTerms

\* Every handler keeps the invariant; the batch is two upserts in a row.
LEMMA ShapeKept == Shape /\ [Next]_vars => Shape'
  <1> SUFFICES ASSUME Shape, [Next]_vars
               PROVE  Shape'
    OBVIOUS
  <1>0. /\ NoDoc \notin Document
        /\ \A doc \in Document : doc.text \in [Terms -> Nat]
    BY KnowledgeAssumption DEF Document
  <1>1. ASSUME NEW d \in Ids, NEW doc \in Document, IndexDocument(d, doc)
        PROVE  Shape'
    <2>1. doc.text \in [Terms -> Nat]
      BY <1>0
    <2>2. /\ StoreTypes(counts', index', forgotten') /\ Covers(counts', index')
          /\ Accounted(counts', index', forgotten') /\ Apart(counts', forgotten')
      BY <1>1, <2>1, UpsertKeepsIndex DEF IndexDocument, Shape
    <2>3. \A e \in Ids :
             counts'[e] = IF docs'[e] = NoDoc THEN NoTerms ELSE docs'[e].text
      BY <1>0, <1>1 DEF IndexDocument, Shape, StoreTypes
    <2>4. docs' \in [Ids -> Document \cup {NoDoc}]
      BY <1>1 DEF IndexDocument, Shape
    <2> QED
      BY <2>2, <2>3, <2>4 DEF Shape
  <1>2. ASSUME NEW d \in Ids, NEW e \in Ids, NEW doc \in Document,
               NEW other \in Document, BulkIndex(d, doc, e, other)
        PROVE  Shape'
    <2> DEFINE mid == [counts EXCEPT ![d] = doc.text]
               ix == Posted(index, d, doc.text)
               f == Forgets(forgotten, d, counts[d], doc.text)
               ds == [docs EXCEPT ![d] = doc]
    <2>1. doc.text \in [Terms -> Nat] /\ other.text \in [Terms -> Nat]
      BY <1>0
    <2>2. /\ StoreTypes(mid, ix, f) /\ Covers(mid, ix)
          /\ Accounted(mid, ix, f) /\ Apart(mid, f)
      BY <2>1, UpsertKeepsIndex DEF Shape
    <2>3. /\ ds \in [Ids -> Document \cup {NoDoc}]
          /\ \A i \in Ids : mid[i] = IF ds[i] = NoDoc THEN NoTerms ELSE ds[i].text
      BY <1>0 DEF Shape, StoreTypes
    <2>4. /\ counts' = [mid EXCEPT ![e] = other.text]
          /\ index' = Posted(ix, e, other.text)
          /\ forgotten' = Forgets(f, e, mid[e], other.text)
          /\ docs' = [ds EXCEPT ![e] = other]
      BY <1>2 DEF BulkIndex
    <2>5. mid \in [Ids -> [Terms -> Nat]]
      BY <2>2 DEF StoreTypes
    <2> HIDE DEF mid, ix, f, ds
    <2>6. /\ StoreTypes(counts', index', forgotten') /\ Covers(counts', index')
          /\ Accounted(counts', index', forgotten') /\ Apart(counts', forgotten')
      BY <2>1, <2>2, <2>4, UpsertKeepsIndex
    <2>7. \A i \in Ids :
             counts'[i] = IF docs'[i] = NoDoc THEN NoTerms ELSE docs'[i].text
      BY <1>0, <2>3, <2>4, <2>5
    <2>8. docs' \in [Ids -> Document \cup {NoDoc}]
      BY <2>3, <2>4
    <2> QED
      BY <2>6, <2>7, <2>8 DEF Shape
  <1>3. ASSUME NEW d \in Ids, DeleteDocument(d)
        PROVE  Shape'
    <2>1. /\ StoreTypes(counts', index', forgotten) /\ Covers(counts', index')
          /\ Accounted(counts', index', forgotten) /\ Apart(counts', forgotten)
      BY <1>3, DeleteKeepsIndex DEF DeleteDocument, Shape
    <2>2. \A e \in Ids :
             counts'[e] = IF docs'[e] = NoDoc THEN NoTerms ELSE docs'[e].text
      BY <1>3 DEF DeleteDocument, Shape, StoreTypes
    <2>3. docs' \in [Ids -> Document \cup {NoDoc}]
      BY <1>3 DEF DeleteDocument, Shape
    <2> QED
      BY <1>3, <2>1, <2>2, <2>3 DEF Shape, DeleteDocument
  <1>4. CASE Restart
    <2>1. /\ StoreTypes(counts', index', forgotten') /\ Covers(counts', index')
          /\ Accounted(counts', index', forgotten') /\ Apart(counts', forgotten')
      BY <1>4, EmptyStore DEF Restart
    <2> QED
      BY <1>4, <2>1 DEF Restart, Shape
  <1>5. CASE UNCHANGED vars
    BY <1>5 DEF vars, Shape
  <1> QED
    BY <1>1, <1>2, <1>3, <1>4, <1>5 DEF Next

\* The index stays in step with the documents in every behaviour.
THEOREM KnowledgeInvariant == Spec => []KnowledgeInv
  <1>1. Init => Shape
    BY EmptyStore DEF Init, Shape
  <1> QED
    BY <1>1, ShapeKept, ShapeIsInvariant, PTL DEF Spec

\* Documents, counts, index and history keep their types.
THEOREM KnowledgeTypeCorrect == Spec => []TypeOK
  <1>1. KnowledgeInv => TypeOK
    BY DEF KnowledgeInv
  <1> QED
    BY <1>1, KnowledgeInvariant, PTL

\* Every stored document is posted under every term of its text.
THEOREM DocumentsAreIndexed == Spec => []IndexCoversDocuments
  <1>1. KnowledgeInv => IndexCoversDocuments
    BY DEF KnowledgeInv
  <1> QED
    BY <1>1, KnowledgeInvariant, PTL

\* Only overwriting a text leaves a posting behind; deleting never does.
THEOREM PostingsAreAccountedFor == Spec => []StaleOnlyFromOverwrites
  <1>1. KnowledgeInv => StaleOnlyFromOverwrites
    BY DEF KnowledgeInv
  <1> QED
    BY <1>1, KnowledgeInvariant, PTL

\* Without stale postings of the term, search finds exactly the documents that
\* have it: df is the size of a subset of the N documents.
THEOREM SearchIsExactUnlessStale == Spec => []FoundUnlessStale
  <1>1. ASSUME KnowledgeInv PROVE FoundUnlessStale
    <2> SUFFICES ASSUME NEW t \in Terms, NEW filter \in SUBSET Tags
                 PROVE  LET matches == {d \in Stored : /\ docs[d].text[t] > 0
                                                       /\ PassesFilter(d, filter)}
                        IN  /\ Hits(t, filter) \subseteq matches
                            /\ (\A d \in Ids : <<t, d>> \notin forgotten) =>
                                  Hits(t, filter) = matches
      BY DEF FoundUnlessStale
    <2>1. \A d \in Stored : counts[d][t] = docs[d].text[t]
      BY <1>1 DEF KnowledgeInv, IndexCoversDocuments
    <2>2. Stored \subseteq Ids /\ IsFiniteSet(Stored)
      BY FS_Subset, KnowledgeAssumption DEF Stored
    <2>3. ASSUME \A d \in Ids : <<t, d>> \notin forgotten
          PROVE  PositiveIdf(Cardinality(Stored), Cardinality(Postings(t)))
      <3>1. Postings(t) \subseteq Stored
        <4> SUFFICES ASSUME NEW d \in Ids, index[t][d] > 0
                     PROVE  docs[d] # NoDoc
          BY DEF Postings, Stored
        <4>1. counts[d][t] > 0
          BY <1>1, <2>3 DEF KnowledgeInv, StaleOnlyFromOverwrites
        <4>2. docs[d] = NoDoc => counts[d][t] = 0
          BY <1>1 DEF KnowledgeInv, NoTerms
        <4> QED
          BY <4>1, <4>2
      <3>2. /\ Cardinality(Postings(t)) <= Cardinality(Stored)
            /\ Cardinality(Postings(t)) \in Nat /\ Cardinality(Stored) \in Nat
        BY <2>2, <3>1, FS_Subset, FS_CardinalityType
      <3> QED
        BY <3>2 DEF PositiveIdf
    <2> QED
      BY <2>1, <2>3 DEF Hits
  <1> QED
    BY <1>1, KnowledgeInvariant, PTL

-----------------------------------------------------------------------------
(* The order of the answers. *)

\* The length of a stored document, and so of all of them, is a number.
LEMMA LengthsAreNumbers ==
  ASSUME KnowledgeInv
  PROVE  /\ IsFiniteSet(Stored) /\ Cardinality(Stored) \in Nat
         /\ \A d \in Stored : Length(d) \in Nat
         /\ Total \in Nat
  <1>1. IsFiniteSet(Stored) /\ Cardinality(Stored) \in Nat
    BY FS_Subset, FS_CardinalityType, KnowledgeAssumption DEF Stored
  <1>2. 0 \in Nat /\ \A a, b \in Nat : a + b \in Nat
    OBVIOUS
  <1>3. ASSUME NEW d \in Stored PROVE Length(d) \in Nat
    <2> DEFINE T == {t \in Terms : counts[d][t] > 0}
    <2>1. counts[d] \in Texts /\ counts[d] = docs[d].text
      BY <1>3 DEF KnowledgeInv, TypeOK, IndexCoversDocuments, Stored, Document
    <2>2. IsFiniteSet(T) /\ \A t \in T : counts[d][t] \in Nat
      BY <2>1, KnowledgeAssumption
    <2> HIDE DEF T
    <2>3. SumFunctionOnSet(counts[d], T) \in Nat
      BY <1>2, <2>2, SumType
    <2> QED
      BY <2>3 DEF Length, T
  <1>4. Total \in Nat
    <2> DEFINE L == [d \in Stored |-> Length(d)]
    <2>1. \A d \in Stored : L[d] \in Nat
      BY <1>3
    <2> HIDE DEF L
    <2>2. SumFunctionOnSet(L, Stored) \in Nat
      BY <1>1, <1>2, <2>1, SumType
    <2> QED
      BY <2>2 DEF Total, L
  <1> QED
    BY <1>1, <1>3, <1>4

\* Multiplication is commutative and associative, distributes, and keeps order.
LEMMA Products ==
  /\ \A a, b \in Nat : a * b \in Nat /\ a * b = b * a
  /\ \A a, b, c \in Nat : a * (b * c) = (a * b) * c
  /\ \A a, b, c \in Nat : a * (b + c) = a * b + a * c
  /\ \A a, b, c \in Nat : a <= b => a * c <= b * c
  /\ \A a, b, c \in Nat : a < b /\ c > 0 => a * c < b * c
  OBVIOUS

\* The parts that the two saturated frequencies have in common cancel.
LEMMA CommonPart ==
  ASSUME NEW s \in Nat, NEW a \in Nat, NEW b \in Nat, NEW f \in Nat, NEW g \in Nat
  PROVE  a * f > b * g => a * (8 * s * b + f) > b * (8 * s * a + g)
  <1> DEFINE m == 8 * s
  <1>1. m \in Nat
    OBVIOUS
  <1> HIDE DEF m
  <1>2. /\ m * b \in Nat /\ m * a \in Nat /\ a * f \in Nat /\ b * g \in Nat
        /\ a * (m * b) \in Nat /\ b * (m * a) \in Nat
    BY <1>1, Products
  <1>3. a * (m * b + f) = a * (m * b) + a * f
    BY <1>2, Products
  <1>4. b * (m * a + g) = b * (m * a) + b * g
    BY <1>2, Products
  <1>5. a * (m * b) = b * (m * a)
    <2>1. a * (m * b) = (a * m) * b /\ a * m = m * a /\ m * a \in Nat
      BY <1>1, Products
    <2>2. (m * a) * b = b * (m * a)
      BY <2>1, Products
    <2> QED
      BY <2>1, <2>2
  <1>6. a * f > b * g => a * (m * b + f) > b * (m * a + g)
    BY <1>2, <1>3, <1>4, <1>5
  <1> QED
    BY <1>6 DEF m

\* A document with more occurrences of a term in no longer a text, or as many in
\* a shorter one, has a higher score.
LEMMA BetterScoresAbove ==
  ASSUME KnowledgeInv, NEW t \in Terms, NEW d \in Stored, NEW e \in Stored,
         counts[d][t] > 0,
         \/ counts[e][t] > counts[d][t] /\ Length(e) <= Length(d)
         \/ counts[e][t] = counts[d][t] /\ Length(e) < Length(d)
  PROVE  ScoresAbove(e, d, t)
  <1> DEFINE n == Cardinality(Stored)
             s == Scale
             a == counts[e][t]
             b == counts[d][t]
             f == Dampening(d)
             g == Dampening(e)
  <1>1. n \in Nat /\ n > 0
    <2>1. IsFiniteSet(Stored) /\ n \in Nat
      BY LengthsAreNumbers
    <2>2. n # 0
      BY <2>1, FS_EmptySet
    <2> QED
      BY <2>1, <2>2
  <1>2. s \in Nat /\ s > 0
    BY <1>1, LengthsAreNumbers DEF Scale
  <1>3. a \in Nat /\ b \in Nat /\ b > 0
    BY DEF KnowledgeInv, TypeOK, Stored
  <1>4. Length(d) \in Nat /\ Length(e) \in Nat
    BY LengthsAreNumbers
  <1>5. /\ f = 3 * s + (9 * Length(d)) * n /\ g = 3 * s + (9 * Length(e)) * n
        /\ 9 * Length(d) \in Nat /\ 9 * Length(e) \in Nat
        /\ (9 * Length(d)) * n \in Nat /\ (9 * Length(e)) * n \in Nat
    BY <1>1, <1>4, Products DEF Dampening
  <1> HIDE DEF n, s, f, g
  <1>6. f \in Nat /\ g \in Nat /\ f > 0
    BY <1>2, <1>5
  <1>7. /\ Length(e) <= Length(d) => g <= f
        /\ Length(e) < Length(d) => g < f
    <2>1. Length(e) <= Length(d) => (9 * Length(e)) * n <= (9 * Length(d)) * n
      BY <1>1, <1>4, <1>5, Products
    <2>2. Length(e) < Length(d) => (9 * Length(e)) * n < (9 * Length(d)) * n
      BY <1>1, <1>4, <1>5, Products
    <2> QED
      BY <1>2, <1>5, <2>1, <2>2
  <1> HIDE DEF a, b
  <1>8. a * f > b * g
    <2>1. a * f \in Nat /\ b * g \in Nat /\ b * f \in Nat /\ b * f = f * b /\ b * g = g * b
      BY <1>3, <1>6, Products
    <2>2. CASE a > b /\ g <= f
      <3>1. b * f < a * f
        BY <1>3, <1>6, <2>2, Products
      <3>2. g * b <= f * b
        BY <1>3, <1>6, <2>2, Products
      <3> QED
        BY <2>1, <3>1, <3>2
    <2>3. CASE a = b /\ g < f
      <3>1. g * b < f * b
        BY <1>3, <1>6, <2>3, Products
      <3> QED
        BY <2>1, <2>3, <3>1
    <2> QED
      BY <1>7, <2>2, <2>3 DEF a, b
  <1>9. a * (8 * s * b + f) > b * (8 * s * a + g)
    BY <1>2, <1>3, <1>6, <1>8, CommonPart
  <1> QED
    BY <1>9 DEF ScoresAbove, a, b, f, g, s

\* The cut at top_k is fair for any number of documents and texts of any length.
THEOREM CutsAreFair == Spec => []CutIsFair
  <1>1. ASSUME KnowledgeInv PROVE CutIsFair
    <2> SUFFICES ASSUME NEW t \in Terms, NEW k \in 1..Cardinality(Ids),
                        NEW R \in Answers(t, {}, k), NEW d \in R,
                        NEW e \in Hits(t, {}) \ R,
                        \/ counts[e][t] > counts[d][t] /\ Length(e) <= Length(d)
                        \/ counts[e][t] = counts[d][t] /\ Length(e) < Length(d)
                 PROVE  FALSE
      BY DEF CutIsFair
    <2>1. d \in Hits(t, {}) /\ ~ScoresAbove(e, d, t)
      BY DEF Answers
    <2>2. d \in Stored /\ e \in Stored /\ counts[d][t] > 0
      BY <2>1 DEF Hits
    <2> QED
      BY <1>1, <2>1, <2>2, BetterScoresAbove
  <1> QED
    BY <1>1, KnowledgeInvariant, PTL

-----------------------------------------------------------------------------
(* The model hub and the pool of the sidecar: ModelHub. *)

\* Dates are finitely many.
LEMMA DatesFinite == IsFiniteSet(Date)
  <1>1. Months \in Nat /\ MonthDays \in Nat
    BY ModelHubAssumption
  <1>2. IsFiniteSet(1..Months) /\ IsFiniteSet(1..MonthDays)
    BY <1>1, FS_Interval
  <1> QED
    BY <1>2, FS_Product DEF Date

\* A pool that holds each session once.
Sound(p) ==
    /\ p \in Seq(Range(p))
    /\ \A i, j \in DOMAIN p : p[i].id = p[j].id => i = j

\* A sequence is one over its own entries.
LEMMA OverOwnEntries ==
  ASSUME NEW S, NEW q \in Seq(S)
  PROVE  q \in Seq(Range(q)) /\ DOMAIN q = 1..Len(q) /\ Len(q) \in Nat
  <1>1. q \in [1..Len(q) -> S] /\ Len(q) \in Nat
    OBVIOUS
  <1>2. q \in [1..Len(q) -> Range(q)]
    BY <1>1 DEF Range
  <1> QED
    BY <1>1, <1>2

\* What is left of a sound pool is sound, and one shorter.
LEMMA RemovalIsSound ==
  ASSUME NEW p, Sound(p), NEW i \in DOMAIN p
  PROVE  /\ Sound(RemoveAt(p, i)) /\ Len(RemoveAt(p, i)) = Len(p) - 1 /\ Len(p) \in Nat
         /\ \A j \in DOMAIN RemoveAt(p, i) : RemoveAt(p, i)[j].id # p[i].id
  <1> DEFINE R == Range(p)
             s == SubSeq(p, 1, i - 1)
             t == SubSeq(p, i + 1, Len(p))
  <1>1. p \in Seq(R) /\ Len(p) \in Nat /\ DOMAIN p = 1..Len(p) /\ i \in 1..Len(p)
    BY DEF Sound
  <1>2. RemoveAt(p, i) = s \o t
    BY DEF RemoveAt
  <1> HIDE DEF R
  <1>3. /\ s \in Seq(R) /\ Len(s) = i - 1
        /\ \A j \in 1..(i - 1) : s[j] = p[j]
    BY <1>1
  <1>4. /\ t \in Seq(R) /\ Len(t) = Len(p) - i
        /\ \A j \in 1..(Len(p) - i) : t[j] = p[i + j]
    BY <1>1
  <1> HIDE DEF s, t
  <1>5. /\ s \o t \in Seq(R) /\ Len(s \o t) = Len(s) + Len(t)
        /\ \A j \in 1..(Len(s) + Len(t)) :
              (s \o t)[j] = IF j <= Len(s) THEN s[j] ELSE t[j - Len(s)]
    BY <1>3, <1>4, ConcatProperties
  <1>6. PICK q : q = s \o t
    OBVIOUS
  <1>7. Len(s) + Len(t) = Len(p) - 1
    BY <1>1, <1>3, <1>4
  <1>8. /\ q \in Seq(Range(q)) /\ Len(q) = Len(p) - 1 /\ DOMAIN q = 1..(Len(p) - 1)
    BY <1>5, <1>6, <1>7, OverOwnEntries
  <1>9. ASSUME NEW j \in 1..(Len(p) - 1)
        PROVE  q[j] = IF j < i THEN p[j] ELSE p[j + 1]
    <2>1. q[j] = IF j <= i - 1 THEN s[j] ELSE t[j - (i - 1)]
      BY <1>3, <1>5, <1>6, <1>7
    <2>2. j < i => j <= i - 1 /\ j \in 1..(i - 1)
      BY <1>1
    <2>3. ~(j < i) => /\ ~(j <= i - 1) /\ j - (i - 1) \in 1..(Len(p) - i)
                      /\ i + (j - (i - 1)) = j + 1
      BY <1>1
    <2> QED
      BY <1>3, <1>4, <2>1, <2>2, <2>3
  <1>10. \A j, k \in 1..Len(p) : p[j].id = p[k].id => j = k
    BY <1>1 DEF Sound
  <1>11. ASSUME NEW j \in 1..(Len(p) - 1)
         PROVE  \E m \in 1..Len(p) : q[j] = p[m] /\ m # i /\ m = IF j < i THEN j ELSE j + 1
    BY <1>1, <1>9
  <1>12. ASSUME NEW j \in 1..(Len(p) - 1), NEW k \in 1..(Len(p) - 1), q[j].id = q[k].id
         PROVE  j = k
    <2>1. PICK m \in 1..Len(p) : q[j] = p[m] /\ m = IF j < i THEN j ELSE j + 1
      BY <1>11
    <2>2. PICK n \in 1..Len(p) : q[k] = p[n] /\ n = IF k < i THEN k ELSE k + 1
      BY <1>11
    <2>3. m = n
      BY <1>10, <1>12, <2>1, <2>2
    <2> QED
      BY <1>1, <2>1, <2>2, <2>3
  <1>13. \A j \in 1..(Len(p) - 1) : q[j].id # p[i].id
    BY <1>1, <1>10, <1>11
  <1> QED
    BY <1>1, <1>2, <1>6, <1>8, <1>12, <1>13 DEF Sound

\* A session that is not in the pool may be put at its end.
LEMMA AppendIsSound ==
  ASSUME NEW p, Sound(p), NEW e, \A j \in DOMAIN p : p[j].id # e.id
  PROVE  Sound(Append(p, e)) /\ Len(Append(p, e)) = Len(p) + 1
  <1> DEFINE q == Append(p, e)
             R == Range(p) \cup {e}
  <1>1. p \in Seq(R) /\ e \in R /\ Len(p) \in Nat /\ DOMAIN p = 1..Len(p)
    <2>1. p \in Seq(Range(p))
      BY DEF Sound
    <2> QED
      BY <2>1
  <1> HIDE DEF R
  <1>2. /\ q \in Seq(R) /\ DOMAIN q = 1..(Len(p) + 1) /\ Len(q) = Len(p) + 1 /\ q[Len(p) + 1] = e
        /\ \A j \in 1..Len(p) : q[j] = p[j]
    BY <1>1
  <1> HIDE DEF q
  <1>3. q \in Seq(Range(q))
    BY <1>2, OverOwnEntries
  <1>4. \A j, k \in DOMAIN q : q[j].id = q[k].id => j = k
    BY <1>1, <1>2 DEF Sound
  <1> QED
    BY <1>2, <1>3, <1>4 DEF Sound, q

\* A use of a session leaves the pool as large as it was.
LEMMA TouchIsSound ==
  ASSUME Sound(pool), NEW i \in DOMAIN pool
  PROVE  Sound(Touch(i)) /\ Len(Touch(i)) = Len(pool)
  <1>1. /\ Sound(RemoveAt(pool, i)) /\ Len(RemoveAt(pool, i)) = Len(pool) - 1 /\ Len(pool) \in Nat
        /\ \A j \in DOMAIN RemoveAt(pool, i) : RemoveAt(pool, i)[j].id # pool[i].id
    BY RemovalIsSound
  <1>2. Sound(Append(RemoveAt(pool, i), pool[i]))
        /\ Len(Append(RemoveAt(pool, i), pool[i])) = Len(RemoveAt(pool, i)) + 1
    BY <1>1, AppendIsSound
  <1> QED
    BY <1>1, <1>2 DEF Touch

\* An insertion leaves room for it, whoever has filled the pool since the look into it.
LEMMA InsertIsSound ==
  ASSUME Sound(pool), Len(pool) <= MaxSessions, NEW s, NEW model
  PROVE  Sound(Insert(s, model)) /\ Len(Insert(s, model)) <= MaxSessions
  <1>1. MaxSessions \in Nat \ {0} /\ Len(pool) \in Nat
    BY ModelHubAssumption DEF Sound
  <1>2. PICK p : p = EvictIfNeeded(pool)
    OBVIOUS
  <1>3. Sound(p) /\ Len(p) < MaxSessions /\ Len(p) \in Nat
    <2>1. CASE Len(pool) >= MaxSessions
      <3>1. pool \in Seq(Range(pool)) /\ pool # <<>> /\ p = Tail(pool)
        BY <1>1, <1>2, <2>1 DEF Sound, EvictIfNeeded
      <3>2. /\ p \in Seq(Range(pool)) /\ Len(p) = Len(pool) - 1 /\ DOMAIN p = 1..(Len(pool) - 1)
            /\ \A j \in 1..(Len(pool) - 1) : p[j] = pool[j + 1]
        BY <3>1
      <3>3. p \in Seq(Range(p))
        BY <3>2, OverOwnEntries
      <3>4. ASSUME NEW j \in DOMAIN p, NEW k \in DOMAIN p, p[j].id = p[k].id
            PROVE  j = k
        <4>1. j + 1 \in 1..Len(pool) /\ k + 1 \in 1..Len(pool) /\ DOMAIN pool = 1..Len(pool)
          BY <1>1, <3>1, <3>2
        <4>2. p[j] = pool[j + 1] /\ p[k] = pool[k + 1]
          BY <3>2
        <4>3. j + 1 = k + 1
          BY <3>4, <4>1, <4>2 DEF Sound
        <4> QED
          BY <3>2, <4>3
      <3> QED
        BY <1>1, <3>2, <3>3, <3>4 DEF Sound
    <2>2. CASE ~(Len(pool) >= MaxSessions)
      BY <1>1, <1>2, <2>2 DEF EvictIfNeeded
    <2> QED
      BY <2>1, <2>2
  <1>4. PICK q : q = Without(p, s)
    OBVIOUS
  <1>5. Sound(q) /\ Len(q) <= Len(p) /\ Len(q) \in Nat /\ \A j \in DOMAIN q : q[j].id # s
    <2>1. CASE PooledIn(p, s) = {}
      BY <1>3, <1>4, <2>1 DEF Without, PooledIn
    <2>2. CASE PooledIn(p, s) # {}
      <3>1. PICK i \in DOMAIN p : p[i].id = s /\ q = RemoveAt(p, i)
        BY <1>4, <2>2 DEF Without, PooledIn
      <3>2. /\ Sound(q) /\ Len(q) = Len(p) - 1 /\ \A j \in DOMAIN q : q[j].id # s
            /\ Len(q) \in Nat
        <4>1. /\ Sound(q) /\ Len(q) = Len(p) - 1 /\ \A j \in DOMAIN q : q[j].id # s
          BY <1>3, <3>1, RemovalIsSound
        <4>2. q \in Seq(Range(q))
          BY <4>1 DEF Sound
        <4> QED
          BY <4>1, <4>2
      <3> QED
        BY <1>3, <3>2
    <2> QED
      BY <2>1, <2>2
  <1>6. PICK e : e = [id |-> s, model |-> model]
    OBVIOUS
  <1>7. Sound(Append(q, e)) /\ Len(Append(q, e)) = Len(q) + 1
    BY <1>5, <1>6, AppendIsSound
  <1>8. Insert(s, model) = Append(q, e)
    BY <1>2, <1>4, <1>6 DEF Insert
  <1> QED
    BY <1>1, <1>3, <1>5, <1>7, <1>8

LEMMA HubInitInv == HubInit => HubInv
  <1> SUFFICES ASSUME HubInit PROVE HubInv
    OBVIOUS
  <1>1. chat = [c \in Chats |-> chat[c]] /\ \A c \in Chats : chat[c] = NotPosted
    BY DEF HubInit
  <1>2. \A c \in Chats : ~IsPosted(c) /\ ChatFits(c)
    BY <1>1 DEF NotPosted, IsPosted, ChatFits
  <1>3. \A e \in Employees \cup {Unknown} : AnsweredTo(e) = {}
    BY <1>1 DEF NotPosted, AnsweredTo
  <1>4. usage \in [Employees \cup {Unknown} -> [Date -> Nat]] /\ today \in Date
    BY ModelHubAssumption DEF HubInit, Date
  <1>5. pool \in Seq(Range(pool)) /\ PoolWithinBound
    BY ModelHubAssumption DEF HubInit, PoolWithinBound
  <1>6. ASSUME NEW e \in Employees \cup {Unknown} PROVE GetTotal(e) = 0
    <2>1. PICK u : u = usage[e]
      OBVIOUS
    <2>2. \A d \in Date : u[d] \in {0}
      BY <2>1 DEF HubInit
    <2>3. 0 \in {0} /\ \A a, b \in {0} : a + b \in {0}
      OBVIOUS
    <2>4. SumFunctionOnSet(u, Date) \in {0}
      BY <2>2, <2>3, DatesFinite, SumType
    <2> QED
      BY <2>1, <2>4 DEF GetTotal
  <1>7. AnswersAreCounted /\ \A e \in Employees \cup {Unknown} : IsFiniteSet(AnsweredTo(e))
    BY <1>3, <1>6, FS_EmptySet DEF AnswersAreCounted
  <1> QED
    BY <1>1, <1>2, <1>4, <1>5, <1>7 DEF HubInv

\* The chats and what is counted of them.
ChatsFit ==
    /\ chat = [c \in Chats |-> chat[c]] /\ \A c \in Chats : ChatFits(c)
    /\ usage \in [Employees \cup {Unknown} -> [Date -> Nat]] /\ today \in Date
    /\ AnswersAreCounted
    /\ \A e \in Employees \cup {Unknown} : IsFiniteSet(AnsweredTo(e))

\* A chat changes that was not answered and is not answered now: the counts agree as before.
LEMMA UncountedKeeps ==
  ASSUME ChatsFit, NEW c \in Chats, NEW k, chat' = [chat EXCEPT ![c] = k],
         chat[c].status # "200", k.status # "200",
         k.status # "none" => /\ k.req \in Requests
                              /\ k = [req |-> k.req, chain |-> k.chain, at |-> k.at,
                                      status |-> k.status],
         UNCHANGED <<usage, today>>
  PROVE  ChatsFit'
  <1>1. /\ chat' = [d \in Chats |-> chat'[d]]
        /\ \A d \in Chats : chat'[d] = IF d = c THEN k ELSE chat[d]
    <2>1. chat = [d \in Chats |-> chat[d]]
      BY DEF ChatsFit
    <2>2. ASSUME NEW f, NEW g, f = [d \in Chats |-> f[d]], g = [f EXCEPT ![c] = k]
          PROVE  /\ g = [d \in Chats |-> g[d]]
                 /\ \A d \in Chats : g[d] = IF d = c THEN k ELSE f[d]
      BY <2>2
    <2> QED
      BY <2>1, <2>2
  <1>2. \A d \in Chats : ChatFits(d)'
    BY <1>1 DEF ChatsFit, ChatFits, IsPosted
  <1>3. \A e : AnsweredTo(e)' = AnsweredTo(e)
    BY <1>1 DEF AnsweredTo
  <1>4. \A e : GetTotal(e)' = GetTotal(e)
    BY DEF GetTotal
  <1> QED
    BY <1>1, <1>2, <1>3, <1>4 DEF ChatsFit, AnswersAreCounted

\* No chat changes, nor what is counted; the day may.
LEMMA UnchangedKeeps ==
  ASSUME ChatsFit, UNCHANGED <<chat, usage>>, today' \in Date
  PROVE  ChatsFit'
  BY DEF ChatsFit, ChatFits, IsPosted, AnsweredTo, GetTotal, AnswersAreCounted

\* An open chat is a record; a new status leaves the rest of it.
LEMMA EndFits ==
  ASSUME ChatsFit, NEW c \in Chats, Waiting(c), NEW status
  PROVE  LET k == [chat[c] EXCEPT !.status = status]
         IN  /\ [chat EXCEPT ![c].status = status] = [chat EXCEPT ![c] = k]
             /\ k.status = status /\ k.req = chat[c].req /\ k.req \in Requests
             /\ k = [req |-> k.req, chain |-> k.chain, at |-> k.at, status |-> k.status]
  <1>1. IsPosted(c) /\ ChatFits(c)
    BY DEF Waiting, IsPosted, ChatsFit
  <1>2. PICK k : k = [chat[c] EXCEPT !.status = status]
    OBVIOUS
  <1>3. chat[c].req \in Requests
        /\ chat[c] = [req |-> chat[c].req, chain |-> chat[c].chain,
                      at |-> chat[c].at, status |-> chat[c].status]
    BY <1>1 DEF ChatFits
  <1>4. /\ k.status = status /\ k.req = chat[c].req
        /\ k = [req |-> k.req, chain |-> k.chain, at |-> k.at, status |-> k.status]
    BY <1>2, <1>3
  <1> QED
    BY <1>2, <1>3, <1>4

\* A call that is not answered with 200 counts for nothing.
LEMMA FailuresKeep ==
  ASSUME ChatsFit, NEW c \in Chats,
         (\E r \in Requests : PostChat(c, r)) \/ ProviderFails(c) \/ TimesOut(c)
  PROVE  ChatsFit'
  <1>1. ASSUME NEW r \in Requests, PostChat(c, r) PROVE ChatsFit'
    <2>1. PICK k : /\ k = [req |-> r, chain |-> Route(r), at |-> 1,
                           status |-> IF Route(r) = <<>> THEN "404" ELSE "open"]
                   /\ chat' = [chat EXCEPT ![c] = k]
      BY <1>1 DEF PostChat
    <2>2. k.status # "200" /\ k.req \in Requests
          /\ k = [req |-> k.req, chain |-> k.chain, at |-> k.at, status |-> k.status]
      BY <2>1
    <2>3. chat[c].status # "200" /\ UNCHANGED <<usage, today>>
      BY <1>1 DEF PostChat, IsPosted
    <2> QED
      BY <2>1, <2>2, <2>3, UncountedKeeps
  <1>2. ASSUME NEW status \in {"500", "502"}, Waiting(c), End(c, status), UNCHANGED <<usage, today>>
        PROVE  ChatsFit'
    <2>1. PICK k : k = [chat[c] EXCEPT !.status = status]
      OBVIOUS
    <2>2. /\ chat' = [chat EXCEPT ![c] = k] /\ k.status = status /\ k.req \in Requests
          /\ k = [req |-> k.req, chain |-> k.chain, at |-> k.at, status |-> k.status]
      BY <1>2, <2>1, EndFits DEF End
    <2>3. chat[c].status # "200" /\ k.status # "200"
      BY <1>2, <2>2 DEF Waiting
    <2> QED
      BY <1>2, <2>2, <2>3, UncountedKeeps
  <1>3. ASSUME Waiting(c), chat' = [chat EXCEPT ![c].at = @ + 1], UNCHANGED <<usage, today>>
        PROVE  ChatsFit'
    <2>1. PICK k : k = [chat[c] EXCEPT !.at = @ + 1]
      OBVIOUS
    <2>2. /\ chat[c].req \in Requests
          /\ chat[c] = [req |-> chat[c].req, chain |-> chat[c].chain,
                        at |-> chat[c].at, status |-> chat[c].status]
      BY <1>3 DEF ChatsFit, ChatFits, IsPosted, Waiting
    <2>3. /\ k.status = chat[c].status /\ k.req = chat[c].req
          /\ k = [req |-> k.req, chain |-> k.chain, at |-> k.at, status |-> k.status]
      BY <2>1, <2>2
    <2>4. chat' = [chat EXCEPT ![c] = k] /\ chat[c].status # "200"
      BY <1>3, <2>1 DEF Waiting
    <2> QED
      BY <1>3, <2>2, <2>3, <2>4, UncountedKeeps
  <1>4. CASE ProviderFails(c)
    <2>1. Waiting(c) /\ UNCHANGED <<usage, today>>
      BY <1>4 DEF ProviderFails, TryNext
    <2>2. chat' = [chat EXCEPT ![c].at = @ + 1] \/ End(c, "502")
      BY <1>4 DEF ProviderFails, TryNext
    <2> QED
      BY <1>2, <1>3, <2>1, <2>2
  <1>5. CASE TimesOut(c)
    BY <1>2, <1>5 DEF TimesOut
  <1> QED
    BY <1>1, <1>4, <1>5

\* An answer is counted once, for its employee and today.
LEMMA AnsweredKeeps ==
  ASSUME ChatsFit, NEW c \in Chats, Answered(c)
  PROVE  ChatsFit'
  <1>1. PICK k : k = [chat[c] EXCEPT !.status = "200"]
    OBVIOUS
  <1>2. Waiting(c) /\ chat[c].status = "open"
    BY DEF Answered, Waiting
  <1>3. /\ chat' = [chat EXCEPT ![c] = k] /\ k.status = "200" /\ k.req = chat[c].req
        /\ k.req \in Requests
        /\ k = [req |-> k.req, chain |-> k.chain, at |-> k.at, status |-> k.status]
    BY <1>1, <1>2, EndFits DEF Answered, End
  <1>4. PICK f \in Employees \cup {Unknown} : f = chat[c].req.employee
    BY <1>3, ModelHubAssumption
  <1>5. /\ chat' = [d \in Chats |-> chat'[d]]
        /\ \A d \in Chats : chat'[d] = IF d = c THEN k ELSE chat[d]
    <2>1. chat = [d \in Chats |-> chat[d]]
      BY DEF ChatsFit
    <2> QED
      BY <1>3, <2>1
  <1>6. \A d \in Chats : ChatFits(d)'
    BY <1>3, <1>5 DEF ChatsFit, ChatFits, IsPosted
  <1>7. /\ today' = today /\ today \in Date /\ usage' = [usage EXCEPT ![f][today] = @ + 1]
        /\ usage \in [Employees \cup {Unknown} -> [Date -> Nat]]
    BY <1>4 DEF Answered, Record, ChatsFit
  <1>8. usage' \in [Employees \cup {Unknown} -> [Date -> Nat]]
    BY <1>7
  <1>9. ASSUME NEW e \in Employees \cup {Unknown}
        PROVE  IsFiniteSet(AnsweredTo(e))' /\ GetTotal(e)' = Cardinality(AnsweredTo(e))'
    <2>1. IsFiniteSet(AnsweredTo(e)) /\ GetTotal(e) = Cardinality(AnsweredTo(e))
      BY DEF ChatsFit, AnswersAreCounted
    <2>2. CASE e # f
      <3>1. AnsweredTo(e)' = AnsweredTo(e)
        BY <1>2, <1>3, <1>4, <1>5, <2>2 DEF AnsweredTo
      <3>2. usage'[e] = usage[e]
        BY <1>7, <2>2
      <3> QED
        BY <2>1, <3>1, <3>2 DEF GetTotal
    <2>3. CASE e = f
      <3>1. AnsweredTo(e)' = AnsweredTo(e) \cup {c} /\ c \notin AnsweredTo(e)
        BY <1>2, <1>3, <1>4, <1>5, <2>3 DEF AnsweredTo
      <3>2. /\ IsFiniteSet(AnsweredTo(e)')
            /\ Cardinality(AnsweredTo(e)') = Cardinality(AnsweredTo(e)) + 1
        BY <2>1, <3>1, FS_AddElement
      <3>3. PICK u, v : u = usage[e] /\ v = usage'[e]
        OBVIOUS
      <3>4. /\ \A d \in Date : u[d] \in Int
            /\ \A d \in Date : v[d] = IF d = today THEN u[d] + 1 ELSE u[d]
        BY <1>7, <2>3, <3>3
      <3>5. SumFunctionOnSet(v, Date) = SumFunctionOnSet(u, Date) + 1
        BY <1>7, <3>4, DatesFinite, SumIncrement
      <3> QED
        BY <2>1, <3>2, <3>3, <3>5 DEF GetTotal
    <2> QED
      BY <2>2, <2>3
  <1> QED
    BY <1>5, <1>6, <1>7, <1>8, <1>9 DEF ChatsFit, AnswersAreCounted

\* What the sidecar does with its pool.
LEMMA PoolKeeps ==
  ASSUME Sound(pool), Len(pool) <= MaxSessions, NEW a \in Attempts,
         Receive(a[1], a[2]) \/ Created(a[1], a[2])
  PROVE  Sound(pool)' /\ Len(pool') <= MaxSessions
  <1>1. \/ pool' = pool
        \/ \E i \in DOMAIN pool : pool' = Touch(i)
        \/ \E s, model : pool' = Insert(s, model)
    BY DEF Receive, Created, Pooled, PooledIn
  <1>2. ASSUME NEW p, p = pool', Sound(p), Len(p) <= MaxSessions
        PROVE  Sound(pool)' /\ Len(pool') <= MaxSessions
    BY <1>2 DEF Sound
  <1>3. \E p : p = pool' /\ Sound(p) /\ Len(p) <= MaxSessions
    <2>1. ASSUME NEW i \in DOMAIN pool, pool' = Touch(i)
          PROVE  \E p : p = pool' /\ Sound(p) /\ Len(p) <= MaxSessions
      BY <2>1, TouchIsSound
    <2>2. ASSUME NEW s, NEW model, pool' = Insert(s, model)
          PROVE  \E p : p = pool' /\ Sound(p) /\ Len(p) <= MaxSessions
      BY <2>2, InsertIsSound
    <2> QED
      BY <1>1, <2>1, <2>2
  <1> QED
    BY <1>2, <1>3

LEMMA HubNextInv == HubInv /\ [HubNext]_hubVars => HubInv'
  <1> SUFFICES ASSUME HubInv, [HubNext]_hubVars PROVE HubInv'
    OBVIOUS
  <1>1. ChatsFit /\ Sound(pool) /\ Len(pool) <= MaxSessions
    BY DEF HubInv, ChatsFit, PoolWithinBound, Sound
  <1>2. ASSUME ChatsFit', Sound(pool)', Len(pool') <= MaxSessions PROVE HubInv'
    BY <1>2 DEF HubInv, ChatsFit, PoolWithinBound, Sound
  <1>3. ASSUME UNCHANGED pool PROVE Sound(pool)' /\ Len(pool') <= MaxSessions
    BY <1>1, <1>3 DEF Sound
  <1>4. ASSUME UNCHANGED <<chat, usage, today>> PROVE ChatsFit'
    <2>1. today' \in Date
      BY <1>1, <1>4 DEF ChatsFit
    <2> QED
      BY <1>1, <1>4, <2>1, UnchangedKeeps
  <1>5. CASE UNCHANGED hubVars
    BY <1>2, <1>3, <1>4, <1>5 DEF hubVars
  <1>6. ASSUME NEW c \in Chats, NEW r \in Requests, PostChat(c, r) PROVE HubInv'
    <2>1. UNCHANGED pool
      BY <1>6 DEF PostChat
    <2> QED
      BY <1>1, <1>2, <1>3, <1>6, <2>1, FailuresKeep
  <1>7. ASSUME NEW c \in Chats, ProviderFails(c) \/ TimesOut(c) PROVE HubInv'
    <2>1. UNCHANGED pool
      BY <1>7 DEF ProviderFails, TryNext, TimesOut
    <2> QED
      BY <1>1, <1>2, <1>3, <1>7, <2>1, FailuresKeep
  <1>8. ASSUME NEW c \in Chats, Answered(c) PROVE HubInv'
    <2>1. UNCHANGED pool
      BY <1>8 DEF Answered
    <2> QED
      BY <1>1, <1>2, <1>3, <1>8, <2>1, AnsweredKeeps
  <1>9. ASSUME NEW a \in Attempts, Receive(a[1], a[2]) \/ Created(a[1], a[2]) PROVE HubInv'
    <2>1. UNCHANGED <<chat, usage, today>>
      BY <1>9 DEF Receive, Created
    <2> QED
      BY <1>1, <1>2, <1>4, <1>9, <2>1, PoolKeeps
  <1>10. ASSUME \/ \E a \in Attempts : Refused(a[1], a[2]) \/ Prompted(a[1], a[2])
                \/ SidecarStarts \/ \E o \in Offers : RegisterProvider(o)
         PROVE  HubInv'
    <2>1. UNCHANGED <<chat, usage, today, pool>>
      BY <1>10 DEF Refused, Prompted, SidecarStarts, RegisterProvider
    <2> QED
      BY <1>2, <1>3, <1>4, <2>1
  <1>11. CASE SidecarStops
    <2>1. pool' = <<>> /\ UNCHANGED <<chat, usage, today>>
      BY <1>11 DEF SidecarStops
    <2>2. Sound(pool)' /\ Len(pool') <= MaxSessions
      BY <2>1, ModelHubAssumption DEF Sound
    <2> QED
      BY <1>2, <1>4, <2>1, <2>2
  <1>12. CASE NextDay
    <2>1. UNCHANGED <<chat, usage, pool>>
      BY <1>12 DEF NextDay
    <2>2. today' \in Date
      BY <1>1, <1>12, ModelHubAssumption DEF NextDay, Date, ChatsFit
    <2> QED
      BY <1>1, <1>2, <1>3, <2>1, <2>2, UnchangedKeeps
  <1> QED
    BY <1>5, <1>6, <1>7, <1>8, <1>9, <1>10, <1>11, <1>12 DEF HubNext

THEOREM HubInvariant == HubSpec => []HubInv
  BY HubInitInv, HubNextInv, PTL DEF HubSpec

\* The pool of sessions keeps its bound and holds each session once, however many handlers
\* look for one, create it and put it in between each other's steps.
THEOREM PoolsKeepTheirBound == HubSpec => []PoolWithinBound
  BY HubInvariant, PTL DEF HubInv

\* What the hub counts of an employee is what it answered him.
THEOREM AnswersAreCountedOnce == HubSpec => []AnswersAreCounted
  BY HubInvariant, PTL DEF HubInv

\* An attempt is made, or gets on: it was not over before, those before it were, and
\* its chat has come that far.
LEMMA AttemptMoves ==
  ASSUME AttemptsInv, NEW c \in Chats, NEW k \in 1..3,
         NEW w, w = [pc |-> w.pc, model |-> w.model], work' = [work EXCEPT ![<<c, k>>] = w],
         w.pc # "none", work[<<c, k>>].pc \notin {"failed", "lost"},
         IsPosted(c)', k <= chat'[c].at,
         \A i \in 1..(k - 1) : work[<<c, i>>].pc \in {"failed", "lost"},
         \A d \in Chats : IsPosted(d)' => chat'[d].at \in Nat,
         \A d \in Chats : IsPosted(d) => IsPosted(d)' /\ chat[d].at <= chat'[d].at
  PROVE  AttemptsInv'
  <1>1. <<c, k>> \in Attempts
    BY DEF Attempts
  <1>2. work = [a \in Attempts |-> [pc |-> work[a].pc, model |-> work[a].model]]
    BY DEF AttemptsInv
  <1>3. DOMAIN work' = Attempts /\ \A a \in Attempts : work'[a] = IF a = <<c, k>> THEN w ELSE work[a]
    BY <1>1, <1>2
  <1>4. work' = [a \in Attempts |-> work'[a]]
    BY <1>1, <1>2
  <1>5. \A a \in Attempts : work'[a] = [pc |-> work'[a].pc, model |-> work'[a].model]
    BY <1>2, <1>3
  <1>6. work' = [a \in Attempts |-> [pc |-> work'[a].pc, model |-> work'[a].model]]
    BY <1>4, <1>5
  <1>7. \A d \in Chats, j \in 1..3 : <<d, j>> \in Attempts
    BY DEF Attempts
  <1>8. ASSUME NEW d \in Chats, NEW j \in 1..3, work'[<<d, j>>].pc # "none"
        PROVE  IsPosted(d)' /\ j <= chat'[d].at
    <2>1. CASE d = c /\ j = k
      BY <2>1
    <2>2. CASE ~(d = c /\ j = k)
      <3>1. work'[<<d, j>>] = work[<<d, j>>]
        BY <1>3, <1>7, <2>2
      <3>2. IsPosted(d) /\ j <= chat[d].at
        BY <1>8, <3>1 DEF AttemptsInv
      <3>3. IsPosted(d)' /\ chat[d].at <= chat'[d].at
        BY <3>2
      <3>4. chat[d].at \in Nat /\ chat'[d].at \in Nat
        BY <3>2, <3>3 DEF AttemptsInv
      <3> QED
        BY <3>2, <3>3, <3>4
    <2> QED
      BY <2>1, <2>2
  <1>9. ASSUME NEW d \in Chats, NEW j \in 1..3, work'[<<d, j>>].pc # "none", NEW i \in 1..(j - 1)
        PROVE  work'[<<d, i>>].pc \in {"failed", "lost"}
    <2>1. i \in 1..3 /\ i # j
      OBVIOUS
    <2>2. CASE d = c /\ j = k
      <3>1. work'[<<d, i>>] = work[<<d, i>>]
        BY <1>3, <1>7, <2>1, <2>2
      <3> QED
        BY <3>1, <2>2
    <2>3. CASE ~(d = c /\ j = k)
      <3>1. work'[<<d, j>>] = work[<<d, j>>]
        BY <1>3, <1>7, <2>3
      <3>2. work[<<d, i>>].pc \in {"failed", "lost"}
        BY <1>9, <3>1 DEF AttemptsInv, OneAgentAtATime
      <3>3. <<d, i>> # <<c, k>>
        BY <3>2
      <3>4. work'[<<d, i>>] = work[<<d, i>>]
        BY <1>3, <1>7, <2>1, <3>3
      <3> QED
        BY <3>2, <3>4
    <2> QED
      BY <2>2, <2>3
  <1> QED
    BY <1>6, <1>8, <1>9 DEF AttemptsInv, OneAgentAtATime

\* The sidecar's handlers go on, and the chats stay where they are.
LEMMA HandlingKeeps ==
  ASSUME AttemptsInv, NEW c \in Chats, NEW k \in 1..3, work[<<c, k>>].pc \notin {"none", "failed", "lost"},
         NEW w, w = [pc |-> w.pc, model |-> w.model], w.pc # "none",
         work' = [work EXCEPT ![<<c, k>>] = w], UNCHANGED chat
  PROVE  AttemptsInv'
  <1>1. IsPosted(c) /\ k <= chat[c].at /\ \A i \in 1..(k - 1) : work[<<c, i>>].pc \in {"failed", "lost"}
    BY DEF AttemptsInv, OneAgentAtATime
  <1>2. /\ \A d \in Chats : IsPosted(d)' <=> IsPosted(d)
        /\ \A d \in Chats : IsPosted(d) => chat[d].at \in Nat
    BY DEF AttemptsInv, IsPosted
  <1>3. \A d \in Chats : IsPosted(d) => chat[d].at <= chat[d].at
    BY <1>2
  <1> QED
    BY <1>1, <1>2, <1>3, AttemptMoves

\* Nothing of an attempt changes, and a chat that was posted is not taken back.
LEMMA AttemptsStay ==
  ASSUME AttemptsInv, UNCHANGED work,
         \A d \in Chats : IsPosted(d)' => chat'[d].at \in Nat,
         \A d \in Chats : IsPosted(d) => IsPosted(d)' /\ chat[d].at <= chat'[d].at
  PROVE  AttemptsInv'
  <1>1. ASSUME NEW d \in Chats, NEW j \in 1..3, work[<<d, j>>].pc # "none"
        PROVE  IsPosted(d)' /\ j <= chat'[d].at
    <2>1. IsPosted(d) /\ j <= chat[d].at /\ chat[d].at \in Nat
      BY <1>1 DEF AttemptsInv
    <2>2. IsPosted(d)' /\ chat[d].at <= chat'[d].at /\ chat'[d].at \in Nat
      BY <2>1
    <2> QED
      BY <2>1, <2>2
  <1> QED
    BY <1>1 DEF AttemptsInv, OneAgentAtATime

\* A chat that was not posted, or not that far, has made no attempt.
LEMMA NonePosted ==
  ASSUME AttemptsInv, NEW c \in Chats, NEW k \in 1..3, ~(IsPosted(c) /\ k <= chat[c].at)
  PROVE  work[<<c, k>>].pc = "none"
  <1>1. \A d \in Chats : \A j \in 1..3 :
            work[<<d, j>>].pc # "none" => IsPosted(d) /\ j <= chat[d].at
    BY DEF AttemptsInv
  <1> QED
    BY <1>1

\* An attempt has its two fields.
LEMMA WorkOf ==
  ASSUME AttemptsInv, NEW c \in Chats, NEW k \in 1..3
  PROVE  work[<<c, k>>] = [pc |-> work[<<c, k>>].pc, model |-> work[<<c, k>>].model]
  BY DEF AttemptsInv, Attempts

\* The chats of a hub whose handler c ends or goes on.
LEMMA ChatsMove ==
  ASSUME HubInv, AttemptsInv, NEW c \in Chats, NEW x,
         chat' = [chat EXCEPT ![c] = x], x.status # "none", x.at \in Nat,
         IsPosted(c) => chat[c].at <= x.at
  PROVE  /\ \A d \in Chats : IsPosted(d)' => chat'[d].at \in Nat
         /\ \A d \in Chats : IsPosted(d) => IsPosted(d)' /\ chat[d].at <= chat'[d].at
         /\ IsPosted(c)' /\ chat'[c] = x
  <1>1. chat = [d \in Chats |-> chat[d]]
    BY DEF HubInv
  <1>2. \A d \in Chats : chat'[d] = IF d = c THEN x ELSE chat[d]
    <2>1. ASSUME NEW f, NEW g, f = [d \in Chats |-> f[d]], g = [f EXCEPT ![c] = x]
          PROVE  \A d \in Chats : g[d] = IF d = c THEN x ELSE f[d]
      BY <2>1
    <2> QED
      BY <1>1, <2>1
  <1>3. \A d \in Chats : IsPosted(d) => chat[d].at \in Nat
    BY DEF AttemptsInv
  <1>4. ASSUME NEW d \in Chats
        PROVE  /\ IsPosted(d)' => chat'[d].at \in Nat
               /\ IsPosted(d) => IsPosted(d)' /\ chat[d].at <= chat'[d].at
    <2>1. CASE d = c
      BY <1>2, <2>1 DEF IsPosted
    <2>2. CASE d # c
      <3>1. chat'[d] = chat[d]
        BY <1>2, <2>2
      <3> QED
        BY <1>3, <3>1 DEF IsPosted
    <2> QED
      BY <2>1, <2>2
  <1> QED
    BY <1>2, <1>4 DEF IsPosted

\* An open chat with another status, or one entry further.
LEMMA ChatGoesOn ==
  ASSUME HubInv, NEW c \in Chats, Waiting(c), NEW status
  PROVE  LET x == [chat[c] EXCEPT !.status = status]
             y == [chat[c] EXCEPT !.at = chat[c].at + 1]
         IN  /\ [chat EXCEPT ![c].status = status] = [chat EXCEPT ![c] = x]
             /\ x.status = status /\ x.at = chat[c].at
             /\ [chat EXCEPT ![c].at = @ + 1] = [chat EXCEPT ![c] = y]
             /\ y.status = "open" /\ y.at = chat[c].at + 1
  <1>1. chat[c].status = "open"
        /\ chat[c] = [req |-> chat[c].req, chain |-> chat[c].chain,
                      at |-> chat[c].at, status |-> chat[c].status]
    BY DEF HubInv, ChatFits, IsPosted, Waiting
  <1>2. PICK x, y : x = [chat[c] EXCEPT !.status = status] /\ y = [chat[c] EXCEPT !.at = chat[c].at + 1]
    OBVIOUS
  <1>3. x.status = status /\ x.at = chat[c].at
    BY <1>1, <1>2
  <1>4. y.status = "open" /\ y.at = chat[c].at + 1
    BY <1>1, <1>2
  <1> QED
    BY <1>2, <1>3, <1>4

\* The handlers of the hub make one attempt after the other.
LEMMA HubHandlersKeepAttempts ==
  ASSUME HubInv, AttemptsInv, NEW c \in Chats,
         \/ \E r \in Requests : PostChat(c, r)
         \/ ProviderFails(c) \/ TimesOut(c) \/ Answered(c)
  PROVE  AttemptsInv'
  <1>1. ASSUME NEW r \in Requests, PostChat(c, r) PROVE AttemptsInv'
    <2>1. ~IsPosted(c)
      BY <1>1 DEF PostChat
    <2>2. PICK x : /\ x = [req |-> r, chain |-> Route(r), at |-> 1,
                           status |-> IF Route(r) = <<>> THEN "404" ELSE "open"]
                   /\ chat' = [chat EXCEPT ![c] = x]
      BY <1>1 DEF PostChat
    <2>3. x.status # "none" /\ x.at = 1 /\ x.at \in Nat
      BY <2>2
    <2>4. /\ \A d \in Chats : IsPosted(d)' => chat'[d].at \in Nat
          /\ \A d \in Chats : IsPosted(d) => IsPosted(d)' /\ chat[d].at <= chat'[d].at
          /\ IsPosted(c)' /\ chat'[c] = x
      BY <2>1, <2>2, <2>3, ChatsMove
    <2>5. CASE work' = work
      BY <2>4, <2>5, AttemptsStay
    <2>6. CASE Send(c, 1)
      <3>1. PICK k \in 1..3 : k = 1
        OBVIOUS
      <3>2. work[<<c, k>>].pc = "none"
        BY <2>1, NonePosted
      <3>3. k <= chat'[c].at /\ \A i \in 1..(k - 1) : work[<<c, i>>].pc \in {"failed", "lost"}
        BY <2>3, <2>4, <3>1
      <3>4. PICK w : w = [work[<<c, k>>] EXCEPT !.pc = "sent"]
        OBVIOUS
      <3>5. work' = [work EXCEPT ![<<c, k>>] = w]
        BY <2>6, <3>1, <3>4 DEF Send
      <3>6. w = [pc |-> w.pc, model |-> w.model] /\ w.pc # "none"
        <4>1. work[<<c, k>>] = [pc |-> work[<<c, k>>].pc, model |-> work[<<c, k>>].model]
          BY WorkOf
        <4> QED
          BY <3>4, <4>1
      <3> QED
        BY <2>4, <3>2, <3>3, <3>5, <3>6, AttemptMoves
    <2> QED
      BY <1>1, <2>5, <2>6 DEF PostChat
  <1>2. ASSUME NEW status \in {"200", "500", "502"}, Waiting(c), End(c, status), UNCHANGED work
        PROVE  AttemptsInv'
    <2>1. PICK x : x = [chat[c] EXCEPT !.status = status]
      OBVIOUS
    <2>2. chat' = [chat EXCEPT ![c] = x] /\ x.status = status /\ x.at = chat[c].at
      BY <1>2, <2>1, ChatGoesOn DEF End
    <2>3. IsPosted(c) /\ chat[c].at \in Nat
      BY <1>2 DEF Waiting, IsPosted, AttemptsInv
    <2>4. x.status # "none" /\ x.at \in Nat /\ chat[c].at <= x.at
      BY <2>2, <2>3
    <2>5. /\ \A d \in Chats : IsPosted(d)' => chat'[d].at \in Nat
          /\ \A d \in Chats : IsPosted(d) => IsPosted(d)' /\ chat[d].at <= chat'[d].at
      BY <2>2, <2>4, ChatsMove
    <2> QED
      BY <1>2, <2>5, AttemptsStay
  <1>3. CASE ProviderFails(c)
    <2>1. Waiting(c) /\ Attempt(c).pc \in {"failed", "lost"} /\ TryNext(c)
      BY <1>3 DEF ProviderFails
    <2>2. CASE End(c, "502") /\ work' = work
      BY <1>2, <2>1, <2>2
    <2>3. CASE Send(c, chat[c].at + 1) /\ chat' = [chat EXCEPT ![c].at = @ + 1]
      <3>1. PICK n : n = chat[c].at
        OBVIOUS
      <3>2. n \in Nat /\ IsPosted(c)
        BY <2>1, <3>1 DEF Waiting, IsPosted, AttemptsInv
      <3>3. PICK y : y = [chat[c] EXCEPT !.at = chat[c].at + 1]
        OBVIOUS
      <3>4. chat' = [chat EXCEPT ![c] = y] /\ y.status = "open" /\ y.at = n + 1
        BY <2>1, <2>3, <3>1, <3>3, ChatGoesOn
      <3>5. y.status # "none" /\ y.at \in Nat /\ n <= y.at
        BY <3>2, <3>4
      <3>6. /\ \A d \in Chats : IsPosted(d)' => chat'[d].at \in Nat
            /\ \A d \in Chats : IsPosted(d) => IsPosted(d)' /\ chat[d].at <= chat'[d].at
            /\ IsPosted(c)' /\ chat'[c] = y
        BY <3>1, <3>4, <3>5, ChatsMove
      <3>7. CASE n + 1 \notin 1..3
        <4>1. <<c, n + 1>> \notin Attempts
          BY <3>7 DEF Attempts
        <4>2. work = [a \in Attempts |-> [pc |-> work[a].pc, model |-> work[a].model]]
          BY DEF AttemptsInv
        <4>3. work' = work
          BY <2>3, <3>1, <4>1, <4>2 DEF Send
        <4> QED
          BY <3>6, <4>3, AttemptsStay
      <3>8. CASE n + 1 \in 1..3
        <4>1. n + 1 <= chat'[c].at
          BY <3>2, <3>4, <3>6
        <4>2. ASSUME NEW k \in 1..3, k = n + 1 PROVE work[<<c, k>>].pc = "none"
          <5>1. ~(k <= chat[c].at)
            BY <3>1, <3>2, <4>2
          <5> QED
            BY <5>1, NonePosted
        <4>3. ASSUME NEW i \in 1..((n + 1) - 1) PROVE work[<<c, i>>].pc \in {"failed", "lost"}
          <5>1. CASE i = n
            BY <2>1, <3>1, <5>1 DEF Attempt
          <5>2. CASE i # n
            <6>1. n \in 1..3 /\ i \in 1..(n - 1)
              BY <3>2, <3>8, <4>3, <5>2
            <6>2. work[<<c, n>>].pc # "none"
              BY <2>1, <3>1 DEF Attempt
            <6> QED
              BY <6>1, <6>2 DEF AttemptsInv, OneAgentAtATime
          <5> QED
            BY <5>1, <5>2
        <4>4. PICK k \in 1..3 : k = n + 1
          BY <3>8
        <4>5. PICK w : w = [work[<<c, k>>] EXCEPT !.pc = "sent"]
          OBVIOUS
        <4>6. work' = [work EXCEPT ![<<c, k>>] = w]
          BY <2>3, <3>1, <4>4, <4>5 DEF Send
        <4>7. w = [pc |-> w.pc, model |-> w.model] /\ w.pc # "none"
          <5>1. work[<<c, k>>] = [pc |-> work[<<c, k>>].pc, model |-> work[<<c, k>>].model]
            BY WorkOf
          <5> QED
            BY <4>5, <5>1
        <4> QED
          BY <3>6, <4>1, <4>2, <4>3, <4>4, <4>6, <4>7, AttemptMoves
      <3> QED
        BY <3>7, <3>8
    <2> QED
      BY <2>1, <2>2, <2>3 DEF TryNext
  <1>4. CASE TimesOut(c)
    BY <1>2, <1>4 DEF TimesOut
  <1>5. CASE Answered(c)
    BY <1>2, <1>5 DEF Answered
  <1> QED
    BY <1>1, <1>3, <1>4, <1>5

\* So do those of the sidecar.
LEMMA SidecarKeepsAttempts ==
  ASSUME AttemptsInv, NEW c \in Chats, NEW k \in 1..3,
         Receive(c, k) \/ Refused(c, k) \/ Created(c, k) \/ Prompted(c, k)
  PROVE  AttemptsInv'
  <1>1. UNCHANGED chat /\ work[<<c, k>>].pc \notin {"none", "failed", "lost"}
    BY DEF Receive, Refused, Created, Prompted
  <1>2. ASSUME NEW pc, pc # "none", work' = [work EXCEPT ![<<c, k>>].pc = pc] PROVE AttemptsInv'
    <2>1. PICK w : w = [work[<<c, k>>] EXCEPT !.pc = pc]
      OBVIOUS
    <2>2. work' = [work EXCEPT ![<<c, k>>] = w]
      BY <1>2, <2>1
    <2>3. w = [pc |-> w.pc, model |-> w.model] /\ w.pc # "none"
      <3>1. work[<<c, k>>] = [pc |-> work[<<c, k>>].pc, model |-> work[<<c, k>>].model]
        BY WorkOf
      <3> QED
        BY <1>2, <2>1, <3>1
    <2> QED
      BY <1>1, <2>2, <2>3, HandlingKeeps
  <1>3. ASSUME NEW pc, pc # "none", NEW m, work' = [work EXCEPT ![<<c, k>>] = [pc |-> pc, model |-> m]]
        PROVE  AttemptsInv'
    <2>1. PICK w : w = [pc |-> pc, model |-> m]
      OBVIOUS
    <2>2. w = [pc |-> w.pc, model |-> w.model] /\ w.pc # "none"
      BY <1>3, <2>1
    <2> QED
      BY <1>1, <1>3, <2>1, <2>2, HandlingKeeps
  <1>4. \/ work' = [work EXCEPT ![<<c, k>>].pc = "failed"]
        \/ work' = [work EXCEPT ![<<c, k>>].pc = "lost"]
        \/ work' = [work EXCEPT ![<<c, k>>].pc = "prompting"]
        \/ work' = [work EXCEPT ![<<c, k>>].pc = "answered"]
        \/ \E m : work' = [work EXCEPT ![<<c, k>>] = [pc |-> "prompting", model |-> m]]
        \/ \E m : work' = [work EXCEPT ![<<c, k>>] = [pc |-> "creating", model |-> m]]
    BY DEF Receive, Refused, Created, Prompted
  <1> QED
    BY <1>2, <1>3, <1>4

\* What a stop takes with it is over.
LEMMA StopKeepsAttempts ==
  ASSUME AttemptsInv, SidecarStops
  PROVE  AttemptsInv'
  <1>1. UNCHANGED chat
        /\ work' = [a \in Attempts |->
                      [work[a] EXCEPT !.pc = IF @ \in {"creating", "prompting"} THEN "lost" ELSE @]]
    BY DEF SidecarStops
  <1>2. \A a \in Attempts : work[a] = [pc |-> work[a].pc, model |-> work[a].model]
    BY DEF AttemptsInv
  <1>3. ASSUME NEW a \in Attempts
        PROVE  /\ work'[a] = [pc |-> work'[a].pc, model |-> work'[a].model]
               /\ work'[a].pc = IF work[a].pc \in {"creating", "prompting"} THEN "lost" ELSE work[a].pc
    <2>1. PICK p, m, q : p = work[a].pc /\ m = work[a].model
                         /\ q = IF p \in {"creating", "prompting"} THEN "lost" ELSE p
      OBVIOUS
    <2>2. work[a] = [pc |-> p, model |-> m]
      BY <1>2, <2>1
    <2>3. work'[a] = [work[a] EXCEPT !.pc = q]
      BY <1>1, <2>1
    <2>4. work'[a] = [pc |-> q, model |-> m]
      BY <2>2, <2>3
    <2> QED
      BY <2>1, <2>4
  <1>4. work' = [a \in Attempts |-> work'[a]]
    BY <1>1
  <1>5. work' = [a \in Attempts |-> [pc |-> work'[a].pc, model |-> work'[a].model]]
    BY <1>3, <1>4
  <1>6. \A d \in Chats, j \in 1..3 : <<d, j>> \in Attempts
    BY DEF Attempts
  <1>7. ASSUME NEW d \in Chats, NEW j \in 1..3, work'[<<d, j>>].pc # "none"
        PROVE  /\ IsPosted(d)' /\ j <= chat'[d].at
               /\ \A i \in 1..(j - 1) : work'[<<d, i>>].pc \in {"failed", "lost"}
    <2>1. work[<<d, j>>].pc # "none"
      BY <1>3, <1>6, <1>7
    <2>2. /\ IsPosted(d) /\ j <= chat[d].at
          /\ \A i \in 1..(j - 1) : work[<<d, i>>].pc \in {"failed", "lost"}
      BY <2>1 DEF AttemptsInv, OneAgentAtATime
    <2>3. ASSUME NEW i \in 1..(j - 1) PROVE work'[<<d, i>>].pc \in {"failed", "lost"}
      <3>1. i \in 1..3
        OBVIOUS
      <3> QED
        BY <1>3, <1>6, <2>2, <3>1
    <2> QED
      BY <1>1, <2>2, <2>3 DEF IsPosted
  <1>8. \A d \in Chats : IsPosted(d)' => chat'[d].at \in Nat
    BY <1>1 DEF AttemptsInv, IsPosted
  <1> QED
    BY <1>5, <1>7, <1>8 DEF AttemptsInv, OneAgentAtATime

\* A chat prompts one agent at a time, for any chats, chains and models: the attempts of a
\* chat are made in turn, each after the end of the one before it.
THEOREM AttemptsAreMadeInTurn == HubSpec => []OneAgentAtATime
  <1>1. HubInit => AttemptsInv
    BY DEF HubInit, AttemptsInv, OneAgentAtATime, IsPosted, NotPosted, Attempts
  <1>2. HubInv /\ AttemptsInv /\ [HubNext]_hubVars => AttemptsInv'
    <2> SUFFICES ASSUME HubInv, AttemptsInv, [HubNext]_hubVars PROVE AttemptsInv'
      OBVIOUS
    <2>1. ASSUME UNCHANGED <<chat, work>> PROVE AttemptsInv'
      BY <2>1 DEF AttemptsInv, OneAgentAtATime, IsPosted
    <2>2. CASE \/ UNCHANGED hubVars \/ NextDay \/ SidecarStarts
               \/ \E o \in Offers : RegisterProvider(o)
      BY <2>1, <2>2 DEF hubVars, NextDay, SidecarStarts, RegisterProvider
    <2>3. ASSUME NEW a \in Attempts, \/ Receive(a[1], a[2]) \/ Refused(a[1], a[2])
                                     \/ Created(a[1], a[2]) \/ Prompted(a[1], a[2])
          PROVE  AttemptsInv'
      <3>1. a[1] \in Chats /\ a[2] \in 1..3
        BY DEF Attempts
      <3> QED
        BY <2>3, <3>1, SidecarKeepsAttempts
    <2> QED
      BY <2>2, <2>3, HubHandlersKeepAttempts, StopKeepsAttempts DEF HubNext
  <1>3. AttemptsInv => OneAgentAtATime
    BY DEF AttemptsInv
  <1> QED
    BY <1>1, <1>2, <1>3, HubInvariant, PTL DEF HubSpec

\* The usage report has every day of the current month with a record among the last
\* ReportDays, and no other, whatever the lengths of the month and of the report.
THEOREM ReportsCoverTheMonth == HubSpec => []MonthIsReported
  <1>1. HubInv => MonthIsReported
    <2> SUFFICES ASSUME HubInv, NEW e \in Employees \cup {Unknown}
                 PROVE  {GetUsage(e)[i] : i \in DOMAIN GetUsage(e)} =
                            {d \in Date : /\ usage[e][d] > 0
                                         /\ d[1] = today[1]
                                         /\ d[2] <= today[2] /\ d[2] + ReportDays > today[2]}
      BY DEF MonthIsReported
    <2>1. PICK m \in 1..Months, n \in 1..MonthDays : today = <<m, n>>
      BY DEF HubInv, Date
    <2>2. /\ Months \in Nat /\ MonthDays \in Nat /\ ReportDays \in Nat
          /\ m \in Nat /\ n \in Nat /\ n >= 1 /\ n <= MonthDays
      BY <2>1, ModelHubAssumption
    <2>3. \A i \in 1..ReportDays : ReportDate(i) = <<m, IF n > i - 1 THEN n - (i - 1) ELSE 1>>
      BY <2>1 DEF ReportDate
    <2>4. ASSUME NEW i \in 1..ReportDays
          PROVE  /\ ReportDate(i) \in Date /\ ReportDate(i)[1] = m
                 /\ ReportDate(i)[2] <= n /\ ReportDate(i)[2] + ReportDays > n
      <3>1. PICK l : l = IF n > i - 1 THEN n - (i - 1) ELSE 1
        OBVIOUS
      <3>2. l \in 1..MonthDays /\ l <= n /\ l + ReportDays > n
        BY <2>2, <3>1
      <3>3. ReportDate(i) = <<m, l>>
        BY <2>3, <3>1
      <3> QED
        BY <2>1, <3>2, <3>3 DEF Date
    <2>5. ASSUME NEW d \in Date, d[1] = m, d[2] <= n, d[2] + ReportDays > n
          PROVE  \E i \in 1..ReportDays : ReportDate(i) = d
      <3>1. PICK l \in 1..MonthDays : d = <<m, l>>
        BY <2>5 DEF Date
      <3>2. l <= n /\ l + ReportDays > n
        BY <2>5, <3>1
      <3>3. n - l + 1 \in 1..ReportDays /\ n > (n - l + 1) - 1 /\ n - ((n - l + 1) - 1) = l
        BY <2>2, <3>2
      <3>4. ReportDate(n - l + 1) = <<m, l>>
        BY <2>3, <3>3
      <3> QED
        BY <3>1, <3>3, <3>4
    <2>6. /\ DOMAIN GetUsage(e) = {i \in 1..ReportDays : usage[e][ReportDate(i)] > 0}
          /\ \A i \in DOMAIN GetUsage(e) : GetUsage(e)[i] = ReportDate(i)
      BY DEF GetUsage
    <2>7. today[1] = m /\ today[2] = n
      BY <2>1
    <2> QED
      BY <2>4, <2>5, <2>6, <2>7
  <1> QED
    BY <1>1, HubInvariant, PTL
=============================================================================

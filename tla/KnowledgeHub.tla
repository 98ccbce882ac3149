---------------------------- MODULE KnowledgeHub ----------------------------
(***************************************************************************)
(* The document store of apps/knowledge_hub: the documents, the terms      *)
(* counted in each, and the inverted index over them that BM25 search      *)
(* reads.  The handlers never await, so each is one step.  A text is what  *)
(* _tokenize leaves of title and content: how often each term occurs.      *)
(* Queries have one term, for which the sign and the order of the scores   *)
(* are decided in integers; a sum over several terms compares logarithms.  *)
(***************************************************************************)
EXTENDS Naturals, FiniteSets, Functions

CONSTANTS
    Ids,     \* document ids, chosen by the clients
    Terms,
    Tags,
    Texts,   \* the texts that are indexed, functions of Terms to Nat
    NoDoc    \* no document

ASSUME KnowledgeAssumption ==
    /\ IsFiniteSet(Ids)
    /\ Texts \subseteq [Terms -> Nat]
    /\ \A text \in Texts : IsFiniteSet({t \in Terms : text[t] > 0})
    /\ NoDoc \notin [text : Texts, tags : SUBSET Tags]

VARIABLES
    docs,       \* _docs
    counts,     \* _doc_term_counts; no term at all for an id it lacks
    index,      \* _bm25_index: index[t][d], 0 for no posting
    forgotten   \* history: postings whose text was overwritten by one
                \* without the term

vars == <<docs, counts, index, forgotten>>

Document == [text : Texts, tags : SUBSET Tags]
NoTerms == [t \in Terms |-> 0]

TypeOK ==
    /\ docs \in [Ids -> Document \cup {NoDoc}]
    /\ counts \in [Ids -> [Terms -> Nat]]
    /\ index \in [Terms -> [Ids -> Nat]]
    /\ forgotten \subseteq Terms \X Ids

Init ==
    /\ docs = [d \in Ids |-> NoDoc]
    /\ counts = [d \in Ids |-> NoTerms]
    /\ index = [t \in Terms |-> [d \in Ids |-> 0]]
    /\ forgotten = {}

-----------------------------------------------------------------------------
(* The index. *)

Stored == {d \in Ids : docs[d] # NoDoc}

\* _update_bm25 writes the terms of the new text and looks at no old one.
Posted(ix, d, text) ==
    [t \in Terms |-> IF text[t] > 0 THEN [ix[t] EXCEPT ![d] = text[t]] ELSE ix[t]]

\* Mutant of Unposted: deleting leaves the postings of repeated terms.
UnpostedSingles(ix, d, old) ==
    [t \in Terms |-> IF old[t] = 1 THEN [ix[t] EXCEPT ![d] = 0] ELSE ix[t]]

\* _remove_from_bm25 removes the postings of the terms counted for d.
Unposted(ix, d, old) ==
    [t \in Terms |-> IF old[t] > 0 THEN [ix[t] EXCEPT ![d] = 0] ELSE ix[t]]

\* The history: what an upsert of text over old makes stale, or fresh again.
Forgets(was, d, old, text) ==
    {p \in Terms \X Ids :
        \/ p \in was /\ ~(p[2] = d /\ text[p[1]] > 0)
        \/ p[2] = d /\ old[p[1]] > 0 /\ text[p[1]] = 0}

-----------------------------------------------------------------------------
(* The handlers. *)

\* upsert.
IndexDocument(d, doc) ==
    /\ index' = Posted(index, d, doc.text)
    /\ forgotten' = Forgets(forgotten, d, counts[d], doc.text)
    /\ counts' = [counts EXCEPT ![d] = doc.text]
    /\ docs' = [docs EXCEPT ![d] = doc]

\* upsert_batch, for two documents, which may have one id: the lock is held
\* over the batch, and a later document overwrites an earlier one.
BulkIndex(d, doc, e, other) ==
    LET mid == [counts EXCEPT ![d] = doc.text]
    IN  /\ index' = Posted(Posted(index, d, doc.text), e, other.text)
        /\ forgotten' = Forgets(Forgets(forgotten, d, counts[d], doc.text),
                                e, mid[e], other.text)
        /\ counts' = [mid EXCEPT ![e] = other.text]
        /\ docs' = [[docs EXCEPT ![d] = doc] EXCEPT ![e] = other]

\* delete_document: 404 without the document.
DeleteDocument(d) ==
    /\ d \in Stored
    /\ index' = Unposted(index, d, counts[d])
    /\ counts' = [counts EXCEPT ![d] = NoTerms]
    /\ docs' = [docs EXCEPT ![d] = NoDoc]
    /\ UNCHANGED forgotten

\* The service starts again with init_vector_store: nothing was saved.
Restart ==
    /\ docs' = [d \in Ids |-> NoDoc]
    /\ counts' = [d \in Ids |-> NoTerms]
    /\ index' = [t \in Terms |-> [d \in Ids |-> 0]]
    /\ forgotten' = {}

Next ==
    \/ \E d \in Ids, doc \in Document : IndexDocument(d, doc)
    \/ \E d, e \in Ids, doc, other \in Document : BulkIndex(d, doc, e, other)
    \/ \E d \in Ids : DeleteDocument(d)
    \/ Restart

Spec == Init /\ [][Next]_vars

-----------------------------------------------------------------------------
(* Search for one term. *)

Postings(t) == {d \in Ids : index[t][d] > 0}

\* Mutant of PositiveIdf: the idf without the 1 that keeps it positive.
PositiveIdfClassic(n, df) == 2 * df < n

\* idf = log((N - df + 0.5) / (df + 0.5) + 1) = log((N + 1) / (df + 0.5)).
PositiveIdf(n, df) == 2 * df < 2 * n + 1

PassesFilter(d, filter) == filter = {} \/ docs[d].tags \cap filter # {}

\* The documents with a positive score.
Hits(t, filter) ==
    {d \in Stored :
        /\ PassesFilter(d, filter)
        /\ counts[d][t] > 0
        /\ PositiveIdf(Cardinality(Stored), Cardinality(Postings(t)))}

\* doc_len, and the sum of it over all documents.
Length(d) == SumFunctionOnSet(counts[d], {t \in Terms : counts[d][t] > 0})
Total == SumFunctionOnSet([d \in Stored |-> Length(d)], Stored)

\* max(avg_doc_len, 1) times the number of documents.
Scale == IF Total > Cardinality(Stored) THEN Total ELSE Cardinality(Stored)

\* Mutant of Dampening: the length counts in the document's favour.
DampeningReversed(d) ==
    12 * Scale - 9 * (IF Length(d) > Scale THEN Scale ELSE Length(d))

\* k1 * (1 - b + b * doc_len / max(avg_doc_len, 1)) with k1 = 1.5, b = 0.75,
\* times 8 * Scale.
Dampening(d) == 3 * Scale + 9 * Length(d) * Cardinality(Stored)

\* tf * (k1 + 1) / (tf + dampening), compared by cross multiplication; idf is
\* the same for all documents.
ScoresAbove(d, e, t) ==
    counts[d][t] * (8 * Scale * counts[e][t] + Dampening(e))
      > counts[e][t] * (8 * Scale * counts[d][t] + Dampening(d))

\* What search may return: the best k or, with a similarity threshold, fewer;
\* equal scores are cut in the order of insertion, which is not modelled.
Answers(t, filter, k) ==
    {R \in SUBSET Hits(t, filter) :
        /\ Cardinality(R) <= k
        /\ \A d \in R, e \in Hits(t, filter) \ R : ~ScoresAbove(e, d, t)}

-----------------------------------------------------------------------------
(* Properties. *)

\* The index knows every stored document under every term of its text, with
\* the right count, after any sequence of insertions, overwrites, batches and
\* deletions.
IndexCoversDocuments ==
    \A d \in Stored :
        /\ counts[d] = docs[d].text
        /\ \A t \in Terms : counts[d][t] > 0 => index[t][d] = counts[d][t]

\* A posting without a document behind it comes from a text that was
\* overwritten, never from a deletion; such postings stay until a text with
\* the term is stored under the id again.
StaleOnlyFromOverwrites ==
    \A t \in Terms, d \in Ids :
        index[t][d] > 0 <=> counts[d][t] > 0 \/ <<t, d>> \in forgotten

\* Search returns only documents that have the term and a wanted tag, and all
\* of them if no posting of the term is stale: then df never exceeds N and
\* the idf is positive.
FoundUnlessStale ==
    \A t \in Terms, filter \in SUBSET Tags :
        LET matches == {d \in Stored : /\ docs[d].text[t] > 0
                                       /\ PassesFilter(d, filter)}
        IN  /\ Hits(t, filter) \subseteq matches
            /\ (\A d \in Ids : <<t, d>> \notin forgotten) =>
                  Hits(t, filter) = matches

\* The cut at top_k never keeps a document and drops one that has the term
\* more often in no longer a text, or as often in a shorter one.
CutIsFair ==
    \A t \in Terms, k \in 1..Cardinality(Ids) :
        \A R \in Answers(t, {}, k) :
            \A d \in R, e \in Hits(t, {}) \ R :
                ~ \/ counts[e][t] > counts[d][t] /\ Length(e) <= Length(d)
                  \/ counts[e][t] = counts[d][t] /\ Length(e) < Length(d)

\* What a reader expects of a search, and what stale postings break
\* (vector_store.py:78-90 adds the postings of a new text and keeps those of
\* the old): a stored document is found under every term of its text.
MatchesAreFound ==
    \A t \in Terms : {d \in Stored : docs[d].text[t] > 0} \subseteq Hits(t, {})

\* The inductive invariant.
KnowledgeInv ==
    /\ TypeOK
    /\ \A d \in Ids : docs[d] = NoDoc => counts[d] = NoTerms
    /\ \A t \in Terms, d \in Ids : <<t, d>> \in forgotten => counts[d][t] = 0
    /\ IndexCoversDocuments
    /\ StaleOnlyFromOverwrites
=============================================================================

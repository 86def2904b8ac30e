------------------------------ MODULE RegIntel ------------------------------
(***************************************************************************)
(* RegIntelService of regintel.py: versions of documents that are only     *)
(* ever added, and answer over hybrid_search, which reads the documents,   *)
(* then has search read them again for the lexical scores, with other      *)
(* requests' commits in between.  One tenant and one query.  A text stands *)
(* for title, date and content, so for the version hash, and is its rank   *)
(* in the order of titles; what the query scores on a text is given by     *)
(* Lexical (0 below half of its words) and by Dense in percent, which are  *)
(* taken not to change with the corpus.                                    *)
(***************************************************************************)
EXTENDS Naturals, Sequences, FiniteSets

CONSTANTS
    Key,            \* document_key values
    Text,
    Url,
    Lexical,
    Dense,
    Reader,         \* calls of answer
    MaxDocuments    \* bound on the versions stored

ASSUME RegIntelAssumption ==
    /\ Text \subseteq Nat
    /\ Lexical \in [Text -> Nat]
    /\ Dense \in [Text -> 0 .. 100]
    /\ MaxDocuments \in Nat

Version == [key : Key, text : Text, url : Url]

VARIABLES
    documents,  \* regulation_documents, in the order of their ids
    versioned,  \* key and hash in the DOCUMENT_VERSIONED events
    corpus,     \* the documents each call has read
    calling,    \* the calls between their two reads
    answer      \* what each call has returned

regVars == <<documents, versioned, corpus, calling, answer>>

Members(s) == {s[i] : i \in 1 .. Len(s)}
NoAnswer == [refused |-> TRUE, citations |-> {}, grown |-> FALSE, matched |-> FALSE]

RegTypeOK ==
    /\ Members(documents) \subseteq Version
    /\ Len(documents) <= MaxDocuments
    \* The unique key.
    /\ \A i, j \in 1 .. Len(documents) :
          i # j => documents[i].key # documents[j].key \/ documents[i].text # documents[j].text
    /\ versioned \subseteq Key \X Text
    /\ \A r \in Reader : Members(corpus[r]) \subseteq Members(documents)
    /\ calling \subseteq Reader
    /\ answer \in [Reader -> [refused : BOOLEAN, citations : SUBSET Version,
                              grown : BOOLEAN, matched : BOOLEAN]]

RegInit ==
    /\ documents = <<>>
    /\ versioned = {}
    /\ corpus = [r \in Reader |-> <<>>]
    /\ calling = {}
    /\ answer = [r \in Reader |-> NoAnswer]

----------------------------------------------------------------------------
IsKnown(key, text) == \E d \in Members(documents) : d.key = key /\ d.text = text

\* Ids are handed out before commits: a new row may come before older ones.
Inserted(d, i) == SubSeq(documents, 1, i) \o <<d>> \o SubSeq(documents, i + 1, Len(documents))

\* ON CONFLICT DO NOTHING: a known version keeps its first URL.  The event is
\* appended either way.
AddDocument(d) ==
    /\ \/ /\ IsKnown(d.key, d.text)
          /\ UNCHANGED documents
       \/ /\ ~IsKnown(d.key, d.text)
          /\ Len(documents) < MaxDocuments
          /\ \E i \in 0 .. Len(documents) : documents' = Inserted(d, i)
    /\ versioned' = versioned \cup {<<d.key, d.text>>}
    /\ UNCHANGED <<corpus, calling, answer>>

----------------------------------------------------------------------------
(* search: the matching rows by falling score, then title, then id, cut    *)
(* off at limit.                                                           *)
Matching(rows) == {i \in 1 .. Len(rows) : Lexical[rows[i].text] > 0}

\* Row i comes before row j when rows are sorted by falling score[i], then title.
Before(rows, score, i, j) ==
    \/ score[i] > score[j]
    \/ score[i] = score[j] /\ rows[i].text < rows[j].text
    \/ score[i] = score[j] /\ rows[i].text = rows[j].text /\ i < j

Top(rows, score, set, limit) ==
    {i \in set : Cardinality({j \in set : Before(rows, score, j, i)}) < limit}

LexicalScore(rows) == [i \in 1 .. Len(rows) |-> Lexical[rows[i].text]]

\* The texts search finds, with their scores; the dict is by version_hash.
Search(rows, limit) == {rows[i].text : i \in Top(rows, LexicalScore(rows), Matching(rows), limit)}

Maximum(S) == CHOOSE x \in S : \A y \in S : y <= x
LexicalMax(found) == IF found = {} THEN 1 ELSE Maximum({Lexical[t] : t \in found})

\* hybrid_score in parts of 10000, times the greatest lexical score found.
HybridScore(found, text) ==
    5500 * (IF text \in found THEN Lexical[text] ELSE 0)
    + 45 * Dense[text] * LexicalMax(found)

HybridScores(rows, found) == [i \in 1 .. Len(rows) |-> HybridScore(found, rows[i].text)]

Hits(rows, found) ==
    LET score == HybridScores(rows, found) IN
    Top(rows, score, {i \in 1 .. Len(rows) : score[i] > 0}, 3)

\* minimum_score is 0.12.
Enough(found, score) == score >= 1200 * LexicalMax(found)

Reply(enough, rows, hits) ==
    [refused |-> ~enough, citations |-> IF enough THEN {rows[i] : i \in hits} ELSE {}]

\* Mutant: the minimum is asked of the last hit instead of the first.
AnswerByLast(rows, found) ==
    LET hits == Hits(rows, found) IN
    Reply(hits # {} /\ \A i \in hits : Enough(found, HybridScores(rows, found)[i]), rows, hits)

\* The best hit decides.
Answer(rows, found) ==
    LET hits == Hits(rows, found) IN
    Reply(\E i \in hits : Enough(found, HybridScores(rows, found)[i]), rows, hits)

----------------------------------------------------------------------------
\* hybrid_search's own read; an empty corpus is answered at once.
ReadCorpus(r) ==
    /\ r \notin calling
    /\ IF documents = <<>>
       THEN /\ answer' = [answer EXCEPT ![r] = NoAnswer]
            /\ UNCHANGED <<corpus, calling>>
       ELSE /\ corpus' = [corpus EXCEPT ![r] = documents]
            /\ calling' = calling \cup {r}
            /\ UNCHANGED answer
    /\ UNCHANGED <<documents, versioned>>

\* search's read, limited to as many hits as the first read has rows; the rest
\* works on what has been read.
SearchAndAnswer(r) ==
    LET a == Answer(corpus[r], Search(documents, Len(corpus[r]))) IN
    /\ r \in calling
    /\ answer' = [answer EXCEPT ![r] =
                     [refused |-> a.refused, citations |-> a.citations,
                      grown |-> Len(documents) # Len(corpus[r]),
                      matched |-> Matching(corpus[r]) # {}]]
    /\ corpus' = [corpus EXCEPT ![r] = <<>>]
    /\ calling' = calling \ {r}
    /\ UNCHANGED <<documents, versioned>>

RegNext ==
    \/ \E d \in Version : AddDocument(d)
    \/ \E r \in Reader : ReadCorpus(r) \/ SearchAndAnswer(r)

RegSpec == RegInit /\ [][RegNext]_regVars

----------------------------------------------------------------------------
(* An answer is grounded: what it cites is stored and audited, under the   *)
(* URL it was cited with, from then on; and where a document matched the   *)
(* query, an answer is refused only if others were added between its two   *)
(* reads (answer, hybrid_search).                                          *)
AnswersAreGrounded ==
    \A r \in Reader :
        /\ \A d \in answer[r].citations :
              d \in Members(documents) /\ <<d.key, d.text>> \in versioned
        /\ answer[r].matched /\ ~answer[r].grown => ~answer[r].refused
=============================================================================

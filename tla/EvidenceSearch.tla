--------------------------- MODULE EvidenceSearch ---------------------------
(***************************************************************************)
(* Evidence retrieval: how a document is cut into chunks and indexed, how  *)
(* the API searches the vector store, checks every candidate again in the  *)
(* database, ranks, pages and signs links to the originals.                *)
(*                                                                         *)
(* The vector store and the database are written one after the other and   *)
(* are never cleaned together: points of archived documents, of failed     *)
(* attempts and of other configurations stay.  A search is therefore a     *)
(* read of one store checked against the other, several awaits apart, and  *)
(* its pages are recomputed by every call from an offset in a cursor.      *)
(*                                                                         *)
(* A text is a sequence of pieces; a piece is (part of) a word or a gap of *)
(* white space and has a length.  Scores, the readable documents of the    *)
(* caller and the configurations are abstract values.                      *)
(***************************************************************************)
EXTENDS Integers, FiniteSets, SequencesExt, Orders

CONSTANTS
  Docs,            \* evidence documents
  Parsed,          \* document -> the block sequences its file may parse to
  Configs,         \* retrieval configuration versions
  Pruning,         \* the configurations with the "rerank_floor_and_gap" policy
  Hybrid(_),       \* <<document, ordinal>> -> fused score of the vector store
  Relevance(_),    \* <<document, ordinal>> -> score of the rerank provider
  SearchRequests,        \* [documentIds, limit] of the calls that are made
  AccessGrants,          \* the sets of documents the caller may be allowed to read
  MaxChunkChars, MaxDocumentChars, MaxChunksPerDocument,
  CandidateWindow,          \* EVIDENCE_CANDIDATE_WINDOW
  QueryTokens, InputBudget, RequestBudget,
  MinScore, MinGap, LowCluster,
  MaxLimit, MaxFilterIds,   \* PUBLIC_INPUT_LIMITS
  MaxChanges       \* bound: indexing attempts, archivings, regrants and deployments

ASSUME EvidenceAssumption ==
  /\ CandidateWindow \in Nat \ {0} /\ MaxChunkChars \in Nat \ {0}
  /\ MaxChunksPerDocument \in Nat /\ MaxLimit \in Nat
  /\ Pruning \subseteq Configs
  /\ \A r \in SearchRequests : r.documentIds \subseteq Docs /\ r.limit \in Nat
  \* Scores are numbers, and the fused ones with their ties resolved.
  /\ \A k, l \in Docs \X (1..MaxChunksPerDocument) :
       Hybrid(k) \in Int /\ Relevance(k) \in Int /\ (k # l => Hybrid(k) # Hybrid(l))

VARIABLES
  blocks,     \* document -> the blocks its file parses to
  status,     \* document -> its row's status
  attempt,    \* document -> configuration of the attempt that wrote its points, or Unset
  points,     \* points of the vector store: <<document, ordinal, configuration>>
  rows,       \* document_chunks rows of a ready index, same shape
  grants,     \* what the caller may read now
  version,    \* the caller's authorization version
  deployed,   \* configuration of the running API
  changes,    \* changes made so far
  call,       \* the request in flight, or Idle
  cursor,     \* the continuation the caller holds, or NoCursor
  chain,      \* ghost: the pages read since the last fresh search
  links       \* ghost: documents whose link the last answer carried

evidenceVars == <<blocks, status, attempt, points, rows, grants, version, deployed,
                  changes, call, cursor, chain, links>>

Unset == "none"
Idle == [pc |-> "idle"]
NoCursor == [offset |-> 0]
NoPages == [steady |-> FALSE]

(***************************************************************************)
(* Cutting a document into chunks.                                         *)
(***************************************************************************)
TextLength(text) == FoldLeft(LAMBDA n, p : n + p.len, 0, text)

Trim(text) ==
  LET solid == {i \in DOMAIN text : ~text[i].gap}
  IN  IF solid = {} THEN <<>> ELSE SubSeq(text, Min(solid), Max(solid))

\* Texts are joined by a blank line: two characters of white space.
renderBlocks(texts) ==
  LET join(sofar, text) ==
        IF Trim(text) = <<>> THEN sofar
        ELSE IF sofar = <<>> THEN Trim(text)
        ELSE sofar \o <<[word |-> 0, at |-> 0, len |-> 2, gap |-> TRUE]>> \o Trim(text)
  IN  FoldLeft(join, <<>>, texts)

\* word.slice(index, index + maxChunkChars) for the whole of an overlong word.
Slices(word) ==
  [i \in 1..((word.len + MaxChunkChars - 1) \div MaxChunkChars) |->
     <<[word EXCEPT !.at = (i - 1) * MaxChunkChars,
                    !.len = IF i * MaxChunkChars <= word.len THEN MaxChunkChars
                            ELSE word.len - (i - 1) * MaxChunkChars]>>]

\* A block longer than a chunk is cut between its words, and inside a word that
\* is longer than a chunk by itself.
splitPathologicalLongBlock(text) ==
  LET cut(s, word) ==
        LET full == s.current # <<>> /\ TextLength(s.current) + word.len > MaxChunkChars
            done == IF full THEN Append(s.out, Trim(s.current)) ELSE s.out
            left == IF full THEN <<>> ELSE s.current
        IN  IF word.len > MaxChunkChars
            THEN [out |-> done \o Slices(word), current |-> left]
            ELSE [out |-> done, current |-> Append(left, word)]
      end == FoldLeft(cut, [out |-> <<>>, current |-> <<>>], text)
  IN  IF Trim(end.current) = <<>> THEN end.out ELSE Append(end.out, Trim(end.current))

FlushPendingForgets(s) == [chunks |-> s.chunks, pending |-> <<>>, heading |-> Unset]

FlushPending(s) ==
  IF s.pending = <<>> THEN s
  ELSE [chunks  |-> Append(s.chunks, [heading |-> s.heading, text |-> renderBlocks(s.pending)]),
        pending |-> <<>>, heading |-> Unset]

\* Blocks under one heading share a chunk while they fit in it.
createEvidenceChunks(bs) ==
  LET take(s, block) ==
        IF TextLength(block.text) > MaxChunkChars
        THEN LET f == FlushPending(s)
             IN  [f EXCEPT !.chunks = @ \o
                    [i \in DOMAIN splitPathologicalLongBlock(block.text) |->
                       [heading |-> block.heading,
                        text |-> splitPathologicalLongBlock(block.text)[i]]]]
        ELSE LET headed == IF s.pending # <<>> /\ s.heading # block.heading
                           THEN FlushPending(s) ELSE s
                 fits   == TextLength(renderBlocks(Append(headed.pending, block.text)))
                             <= MaxChunkChars
                 f      == IF headed.pending # <<>> /\ ~fits THEN FlushPending(headed) ELSE headed
             IN  [f EXCEPT !.pending = Append(@, block.text), !.heading = block.heading]
      real == SelectSeq(bs, LAMBDA b : Trim(b.text) # <<>>)
  IN  FlushPending(FoldLeft(take, [chunks |-> <<>>, pending |-> <<>>, heading |-> Unset], real)).chunks

Parses == UNION {Parsed[d] : d \in Docs}
ChunkTable == [bs \in Parses |-> createEvidenceChunks(bs)]
ChunksOf(d) == ChunkTable[blocks[d]]

WithinLimits(d) ==
  /\ FoldLeft(LAMBDA n, b : n + TextLength(b.text), 0, blocks[d]) <= MaxDocumentChars
  /\ DOMAIN ChunksOf(d) \subseteq 1..MaxChunksPerDocument

PointsOf(d, c) == {<<d, i, c>> : i \in DOMAIN ChunksOf(d)}

(***************************************************************************)
(* Ranking.                                                                *)
(***************************************************************************)
Key(p) == <<p[1], p[2]>>

\* The request carries the documents, in the order the database returned them,
\* up to the token budget; the query is counted once for every document.
limitRerankDocuments(documents) ==
  LET tokens(p) == TextLength(ChunksOf(p[1])[p[2]].text)
      take(s, p) ==
        IF ~s.open \/ tokens(p) = 0 \/ tokens(p) > InputBudget THEN s
        ELSE IF s.tokens + tokens(p) + QueryTokens * (Cardinality(s.selected) + 1) > RequestBudget
        THEN [s EXCEPT !.open = FALSE]
        ELSE [s EXCEPT !.selected = @ \cup {p}, !.tokens = @ + tokens(p)]
  IN  IF QueryTokens > InputBudget THEN {}
      ELSE FoldLeft(take, [selected |-> {}, tokens |-> 0, open |-> TRUE], documents).selected

\* Chunk identifiers are hashes: any fixed order stands for localeCompare, and
\* the fused scores, which differ, give one.
compareEvidenceCandidates(score, p, q) ==
  score[p] > score[q] \/ (score[p] = score[q] /\ Hybrid(Key(p)) > Hybrid(Key(q)))

Sorted(ps, score) ==
  InOrder(ps, {pair \in ps \X ps : compareEvidenceCandidates(score, pair[1], pair[2])})

\* A score for the documents of the request; when every text is blank no request
\* is made and all score zero.
RerankScores(documents) ==
  IF \A p \in ToSet(documents) : ChunksOf(p[1])[p[2]].text = <<>>
  THEN [p \in ToSet(documents) |-> 0]
  ELSE [p \in limitRerankDocuments(documents) |-> Relevance(Key(p))]

\* The floor drops what scores low or has no score; the widest gap cuts off a low cluster.
pruneEvidenceCandidates(found, score) ==
  LET above == Sorted({p \in DOMAIN score : score[p] >= MinScore}, score)
      gap(i) == score[above[i]] - score[above[i + 1]]
      gaps  == 1..(Len(above) - 1)
      widest == CHOOSE i \in gaps : \A j \in gaps : gap(j) < gap(i) \/ (gap(j) = gap(i) /\ i <= j)
      cut   == gaps # {} /\ gap(widest) >= MinGap /\ score[above[widest + 1]] <= LowCluster
  IN  [kept |-> IF cut THEN SubSeq(above, 1, widest) ELSE above,
       warned |-> DOMAIN score # found]

\* Without pruning a candidate with no score keeps its fused one.
Ranked(config, found, score) ==
  IF config.mode = "rerank_floor_and_gap" THEN pruneEvidenceCandidates(found, score)
  ELSE [kept |-> Sorted(found, [p \in found |-> IF p \in DOMAIN score THEN score[p]
                                               ELSE Hybrid(Key(p))]),
        warned |-> FALSE]

(***************************************************************************)
(* The configuration an API process runs with.                             *)
(***************************************************************************)
createEvidenceRelevancePolicy(v) == IF v \in Pruning THEN "rerank_floor_and_gap" ELSE "disabled"

createRetrievalConfig(v, state) ==
  [version |-> v, status |-> state, mode |-> createEvidenceRelevancePolicy(v)]

buildRetrievalConfigSeed(v) ==
  {createRetrievalConfig(v, "active"), createRetrievalConfig(<<v, "candidate">>, "candidate"),
   createRetrievalConfig("legacy-text", "deprecated")}

\* Exactly one active configuration, or the process does not start.
loadActiveRetrievalConfig(configs) ==
  LET active == {c \in configs : c.status = "active"}
  IN  IF Cardinality(active) = 1 THEN active ELSE {}

-----------------------------------------------------------------------------
EvidenceInit ==
  /\ blocks \in [Docs -> Parses]
  /\ \A d \in Docs : blocks[d] \in Parsed[d]
  /\ status = [d \in Docs |-> "pending"]
  /\ attempt = [d \in Docs |-> Unset]
  /\ points = {} /\ rows = {}
  /\ grants \in AccessGrants /\ version = 1
  /\ \E v \in Configs : deployed \in loadActiveRetrievalConfig(buildRetrievalConfigSeed(v))
  /\ changes = 0
  /\ call = Idle /\ cursor = NoCursor
  /\ chain = NoPages /\ links = {}

\* A change of what the stores hold: the pages read so far describe an older index.
Disturbed == chain' = NoPages
IndexOnly == UNCHANGED <<blocks, grants, version, deployed, cursor, links>>
InFlight  == call' = IF call.pc = "idle" THEN call
                     ELSE [call EXCEPT !.steady = FALSE, !.expected = {}]

\* indexDocument: the points are upserted (identifiers are a hash of document,
\* content version, configuration and ordinal, so a retry writes the same ones).
\* The upsert may also time out after it was applied: the attempt ends here.
IndexPoints(d, c) ==
  /\ status[d] # "archived" /\ attempt[d] = Unset /\ WithinLimits(d) /\ changes < MaxChanges
  /\ ~(PointsOf(d, c) \subseteq rows)
  /\ points' = points \cup PointsOf(d, c)
  /\ attempt' = [attempt EXCEPT ![d] = c] /\ changes' = changes + 1
  /\ InFlight /\ Disturbed /\ IndexOnly
  /\ UNCHANGED <<status, rows>>

\* completeEvidenceIndexing: index row, chunk rows and status in one transaction.
CompleteIndexing(d) ==
  /\ attempt[d] # Unset
  /\ IF status[d] = "archived" THEN UNCHANGED <<status, rows>>
     ELSE /\ rows' = rows \cup PointsOf(d, attempt[d])
          /\ status' = [status EXCEPT ![d] = "active"]
  /\ attempt' = [attempt EXCEPT ![d] = Unset]
  /\ InFlight /\ Disturbed /\ IndexOnly
  /\ UNCHANGED <<points, changes>>

AttemptFails(d) ==
  /\ attempt[d] # Unset
  /\ attempt' = [attempt EXCEPT ![d] = Unset]
  /\ UNCHANGED <<blocks, status, points, rows, grants, version, deployed, changes, call,
                 cursor, chain, links>>

\* Archiving leaves the points and the chunk rows where they are.
ArchiveEvidence(d) ==
  /\ status[d] # "archived" /\ changes < MaxChanges
  /\ status' = [status EXCEPT ![d] = "archived"]
  /\ changes' = changes + 1
  /\ InFlight /\ Disturbed
  /\ UNCHANGED <<blocks, attempt, points, rows, grants, version, deployed, cursor, links>>

\* The caller's permissions change; the authorization version moves with them.  It
\* waits for a recording, which holds the rows of the version and of the caller.
Regrant(g) ==
  /\ g # grants /\ changes < MaxChanges /\ call.pc # "count"
  /\ grants' = g /\ version' = version + 1 /\ changes' = changes + 1
  /\ UNCHANGED <<blocks, status, attempt, points, rows, deployed, call, cursor, chain, links>>

\* Another configuration is deployed; requests in flight end under their own.
Redeploy(v) ==
  /\ v # deployed.version /\ changes < MaxChanges
  /\ deployed' \in loadActiveRetrievalConfig(buildRetrievalConfigSeed(v))
  /\ changes' = changes + 1
  /\ UNCHANGED <<blocks, status, attempt, points, rows, grants, version, call, cursor, chain, links>>

-----------------------------------------------------------------------------
(***************************************************************************)
(* The search.                                                             *)
(***************************************************************************)
CallsOnly == UNCHANGED <<blocks, status, attempt, points, rows, grants, version, deployed, changes>>

\* Mutant: a cursor outlives a change of the caller's permissions.
evidenceCursorScopeUnbound(r) == [request |-> r, version |-> 0, config |-> deployed.version]

\* What a cursor is bound to, by a hash of all of it.
evidenceCursorScope(r) == [request |-> r, version |-> version, config |-> deployed.version]

ReadableRows(r) ==
  {p \in rows : /\ p[3] = deployed.version /\ status[p[1]] = "active" /\ p[1] \in grants
                /\ (r.documentIds = {} \/ p[1] \in r.documentIds)}

validateEvidenceSearchBody(r) ==
  r.limit \in 1..MaxLimit /\ Cardinality(r.documentIds) <= MaxFilterIds

createEvidenceCursor(scope, offset) == [scope |-> scope, offset |-> offset]

\* A cursor of another scope is refused.
decodeEvidenceCursor(r) == cursor # NoCursor /\ cursor.scope = evidenceCursorScope(r)

\* A fresh search, or the next page.
Search(r, continued) ==
  /\ call.pc = "idle"
  /\ validateEvidenceSearchBody(r)
  /\ continued => decodeEvidenceCursor(r)
  /\ call' = [pc |-> "embed", request |-> r, scope |-> evidenceCursorScope(r),
              config |-> deployed, grants |-> grants, version |-> version,
              offset |-> IF continued THEN cursor.offset ELSE 0,
              expected |-> ReadableRows(r), steady |-> TRUE,
              found |-> {}, vector |-> FALSE, signed |-> {}, live |-> {}]
  /\ chain' = IF continued THEN chain ELSE NoPages
  /\ links' = {}
  /\ CallsOnly /\ UNCHANGED cursor

\* EVIDENCE_CURSOR_TTL_SECONDS pass.
CursorExpires ==
  /\ cursor # NoCursor /\ cursor' = NoCursor
  /\ CallsOnly /\ UNCHANGED <<call, chain, links>>

\* Any await of the call may fail (the model provider, the vector store, the
\* rerank provider): the request is answered with an error.
CallFails ==
  /\ call.pc # "idle"
  /\ call' = Idle
  /\ CallsOnly /\ UNCHANGED <<cursor, chain, links>>

\* The vector store filters by organization, configuration and document ids,
\* never by permission.
qdrantPayloadFilter(p) ==
  p[3] = call.config.version /\ (call.request.documentIds = {} \/ p[1] \in call.request.documentIds)

\* Whether the embedding provider's answer holds a vector for the query.
EmbedTexts == BOOLEAN

\* At most a window of points comes back; without a vector there are no candidates.
HybridSearch ==
  /\ call.pc = "embed"
  /\ \E vector \in EmbedTexts :
       LET match == {p \in points : qdrantPayloadFilter(p)}
           best  == {p \in match : Cardinality({q \in match : Hybrid(Key(q)) > Hybrid(Key(p))}) < CandidateWindow}
       IN  call' = [call EXCEPT !.pc = "revalidate", !.vector = vector,
                                !.found = IF vector THEN best ELSE {}]
  /\ CallsOnly /\ UNCHANGED <<cursor, chain, links>>

\* Chunk row with a ready index of the same versions, document active, readable
\* by the snapshot taken when the request began.
StillCurrent(p) == p \in rows /\ status[p[1]] = "active" /\ p[1] \in call.grants

\* The answer with a page of the ranking, and the cursor after it.
Answered(order, upto, visible, whole, warned) ==
  LET more  == Len(order) > upto
      fresh == call.offset = 0
  IN  [pc |-> IF visible = <<>> THEN "respond" ELSE "sources",
       wanted |-> {p[1] : p \in ToSet(visible)}, signed |-> {}, live |-> {},
       grants |-> call.grants, version |-> call.version,
       steady |-> whole, expected |-> {},
       next |-> IF more THEN createEvidenceCursor(call.scope, upto) ELSE NoCursor,
       page |-> IF ~whole THEN NoPages
                ELSE [steady |-> TRUE, mode |-> call.config.mode, ended |-> ~more,
                      base |-> IF fresh THEN order ELSE chain.base,
                      seen |-> IF fresh THEN visible ELSE chain.seen \o visible,
                      warned |-> warned \/ (~fresh /\ chain.warned),
                      expected |-> IF fresh THEN call.expected ELSE chain.expected]]

\* The answer from the candidates that are still current and the scores they got.
AnswerFrom(found, score) ==
  LET ranked  == Ranked(call.config, found, score)
      order   == ranked.kept
      upto    == call.offset + call.request.limit
      visible == SubSeq(order, call.offset + 1, Min({upto, Len(order)}))
      whole   == /\ call.steady /\ call.vector /\ DOMAIN score = found
                 /\ call.offset = 0 \/ chain.steady
      warned  == Cardinality(call.found) >= CandidateWindow \/ ranked.warned
  IN  Answered(order, upto, visible, whole, warned)

\* Revalidation is the last read the answer depends on: the ranking, the page and
\* the next cursor follow from it and from the rerank provider's scores.  The
\* database returns the rows in no particular order, and the rerank request is
\* cut in that order.
RevalidateAndRank ==
  /\ call.pc = "revalidate"
  /\ LET found == {p \in call.found : StillCurrent(p)}
     IN  \E documents \in SetToSeqs(found) : call' = AnswerFrom(found, RerankScores(documents))
  /\ CallsOnly /\ UNCHANGED <<cursor, chain, links>>

-----------------------------------------------------------------------------
(***************************************************************************)
(* Links to the originals: of the documents of a page, or of one document  *)
(* by name.                                                                *)
(***************************************************************************)
RequestSource(d) ==
  /\ call.pc = "idle"
  /\ call' = [pc |-> "sources", wanted |-> {d}, signed |-> {}, live |-> {}, grants |-> grants,
              version |-> version, explicit |-> TRUE, steady |-> TRUE, expected |-> {}]
  /\ links' = {}
  /\ CallsOnly /\ UNCHANGED <<cursor, chain>>

Explicit == "explicit" \in DOMAIN call

\* findDownloadableSourceDocuments, for evidence.
Downloadable(d) == status[d] = "active" /\ d \in call.grants

\* issueMany: the documents the snapshot may read and that are active now; each
\* is then looked up in the object store and signed, which may fail for some.
\* A request by name is answered for all of its documents or for none.
IssueMany ==
  /\ call.pc = "sources"
  /\ LET authorized == {d \in call.wanted : Downloadable(d)}
     IN  \E signed \in SUBSET authorized :
           call' = [call EXCEPT !.pc = "record",
                                !.signed = IF Explicit /\ signed # call.wanted THEN {} ELSE signed]
  /\ CallsOnly /\ UNCHANGED <<cursor, chain, links>>

\* What follows a recording: the answer, with the links or without them.
Recorded(carried) ==
  /\ links' = carried
  /\ call' = IF Explicit THEN Idle ELSE [call EXCEPT !.pc = "respond"]
  /\ CallsOnly /\ UNCHANGED <<cursor, chain>>

SameVersionAlways == TRUE

\* The authorization version is still the one of the request's snapshot.
SameVersion == version = call.version

\* recordDownloadsIssued begins: it locks the rows of the version and of the caller
\* and compares the version.  Loading it opens the transaction's read view, from
\* which everything it reads later without a lock comes.
BeginRecording ==
  /\ call.pc = "record" /\ SameVersion
  /\ call' = [call EXCEPT !.pc = "count", !.live = {d \in call.signed : status[d] # "archived"}]
  /\ CallsOnly /\ UNCHANGED <<cursor, chain, links>>

\* Another version: the links are withheld and the rest of the answer is sent.
VersionMoved == call.pc = "record" /\ ~SameVersion /\ Recorded({})

\* The documents are locked by their identifiers, which waits for an archiving
\* under way but reads nothing of it; then those not archived are counted, in the
\* read view, and must be as many as there are.
Recordable == call.live = call.signed

\* The audit rows are committed and the links are released; or the recording fails,
\* by itself too, and they are withheld.
RecordDownloads ==
  /\ call.pc = "count"
  /\ \E recorded \in BOOLEAN : Recorded(IF recorded /\ Recordable THEN call.signed ELSE {})

Respond ==
  /\ call.pc = "respond"
  /\ call' = Idle
  /\ cursor' = call.next
  /\ chain' = IF call.steady THEN call.page ELSE NoPages
  /\ CallsOnly /\ UNCHANGED links

EvidenceNext ==
  \/ \E d \in Docs, c \in Configs : IndexPoints(d, c)
  \/ \E d \in Docs : \/ CompleteIndexing(d) \/ AttemptFails(d)
                     \/ ArchiveEvidence(d) \/ RequestSource(d)
  \/ \E g \in AccessGrants : Regrant(g)
  \/ \E c \in Configs : Redeploy(c)
  \/ \E r \in SearchRequests, continued \in BOOLEAN : Search(r, continued)
  \/ CursorExpires \/ CallFails \/ HybridSearch \/ RevalidateAndRank
  \/ IssueMany \/ BeginRecording \/ VersionMoved \/ RecordDownloads \/ Respond

EvidenceSpec == EvidenceInit /\ [][EvidenceNext]_evidenceVars

-----------------------------------------------------------------------------
(***************************************************************************)
(* Properties.                                                             *)
(***************************************************************************)

\* The characters of the words of a text, in order.
Characters(text) ==
  FlattenSeq([i \in DOMAIN text |->
    IF text[i].gap THEN <<>>
    ELSE [k \in 1..text[i].len |-> <<text[i].word, text[i].at + k>>]])

\* The chunks cs hold every character of the words of the blocks bs once and in
\* order, under the heading it had, and none is too long.
IsCutOf(cs, bs) ==
  LET words(texts) == FlattenSeq([i \in DOMAIN texts |-> Characters(texts[i].text)])
      under(h, texts) == words(SelectSeq(texts, LAMBDA t : t.heading = h))
  IN  /\ \A i \in DOMAIN cs : TextLength(cs[i].text) <= MaxChunkChars
      /\ words(cs) = words(bs)
      /\ \A i \in DOMAIN bs : under(bs[i].heading, cs) = under(bs[i].heading, bs)

FaithfulCuts == {bs \in Parses : IsCutOf(ChunkTable[bs], bs)}

\* Cutting loses nothing: the chunks of a document hold every character of its
\* words once and in order, none is longer than a chunk may be, and none mixes
\* blocks of two headings (createEvidenceChunks with its two flushes and the
\* split of an overlong block).
ChunksAreTheDocument == \A d \in Docs : blocks[d] \in FaithfulCuts

\* Pages that continue one search are consecutive parts of one ranking as long as
\* the index did not change under them, whatever happened to the caller's
\* permissions or to the deployed configuration between them; and when no page
\* warned and nothing is pruned, that ranking is exactly the readable chunks:
\* leftover points neither show nor hide anything (searchEvidence, the cursor's
\* scope, revalidation).  Searches whose rerank request was cut at the token
\* budget, or whose provider gave no vector, are exempt: see the README.
PagesAreOneRanking ==
  chain.steady =>
    /\ chain.seen = SubSeq(chain.base, 1, Len(chain.seen))
    /\ chain.ended => chain.seen = chain.base
    /\ ~chain.warned /\ chain.mode = "disabled" => ToSet(chain.base) = chain.expected

\* A link to an original leaves the service only if the caller may read its
\* document at that moment, although it was found and signed under the snapshot the
\* request began with, and only if the document was not archived when its recording
\* began (recordDownloadsIssued; issueMany; the locks and the read view).
LinksAreCurrent ==
  [][links' # links => \A d \in links' : d \in grants /\ d \in call.live]_evidenceVars
=============================================================================

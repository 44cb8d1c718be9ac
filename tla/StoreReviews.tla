---------------------------- MODULE StoreReviews ----------------------------
(***************************************************************************)
(* Store reviews: batches of partial observations merged into stored       *)
(* reviews, and the paged listing of what an employee may read.            *)
(*                                                                         *)
(* A review is named by its legacy identity (enterprise, source, store,    *)
(* moment, reviewer: one model value here, with its store and its moment)  *)
(* and by the platform's feedback id when the uploader has one.  A batch   *)
(* patches several reviews in one transaction, all or nothing.  A reader   *)
(* follows signed cursors by offset; the transaction of a page reads the   *)
(* authorization and the reviews from one snapshot, so a page is atomic.   *)
(*                                                                         *)
(* packages/db/src/store-reviews.ts, packages/domain/src/store-reviews.ts, *)
(* packages/domain/src/store-review-query.ts.                              *)
(***************************************************************************)
EXTENDS Integers, Sequences, FiniteSets, Orders

CONSTANTS
    Identities,     \* legacy identities
    StoreOf,        \* the store of an identity
    MomentOf,       \* its reviewedAt
    FeedbackIds,    \* platform ids
    Patches,        \* the observations an uploader may send for one review
    MaxBatch,       \* reviews of one batch
    ReviewIds,      \* the ids rows can get, numbers in the order of the column
    Staff,          \* employees who read
    Filters,        \* reply statuses a query may ask for: sets of statuses
    PageLimit,      \* rows of a page
    PageBudget,     \* weight of a page that still fits a response
    MaxRevisions    \* bound: authorization versions

ASSUME ReviewsAssumption ==
    /\ MomentOf \in [Identities -> Int]
    /\ ReviewIds \subseteq Nat
    /\ PageLimit \in Nat \ {0} /\ PageBudget \in Nat

NoId == "no feedback id"
Omitted == "absent"
FirstPage == [offset |-> 0, version |-> 0]
Statuses == {"replied", "unreplied_no_content", "unreplied_with_content", "needs_verification"}
ReviewStores == {StoreOf[i] : i \in Identities}

\* A full identity: the legacy one and the platform's id or its absence.
Keys == Identities \X (FeedbackIds \cup {NoId})

VARIABLES
    reviews,    \* stored rows: a function on the keys present
    revision,   \* the organization's authorization version
    opened,     \* stores still in the directory
    granted,    \* employee -> stores of the grants that are in force
    listing     \* employee -> the read he has under way, or none

reviewVars == <<reviews, revision, opened, granted, listing>>

NoRead == [at |-> "none", filter |-> {}, cursor |-> FirstPage, seen |-> <<>>]

Texts == {"null", "empty", "spaces", "words"}

Review == [id : ReviewIds, content : Texts, merchantReply : Texts, replyStatus : Statuses]

ReviewsTypeOK ==
    /\ DOMAIN reviews \subseteq Keys
    /\ \A k \in DOMAIN reviews : reviews[k] \in Review
    /\ revision \in 1..MaxRevisions
    /\ opened \subseteq ReviewStores
    /\ granted \in [Staff -> SUBSET ReviewStores]
    /\ \A e \in Staff : listing[e].at \in {"none", "open", "expired"}

-----------------------------------------------------------------------------
(* Merging an observation into a review. *)

\* `text?.trim()` is truthy.
Meaningful(text) == text = "words"

\* The value a patch gives a field, or the one stored, or nothing.
Merged(patch, old, field) ==
    IF patch[field] # Omitted THEN patch[field] ELSE old[field]

Unknown == [content |-> "null", merchantReply |-> "null",
            replyStatus |-> "needs_verification"]

\* The status contradicts the merged texts.
Contradicts(s) ==
    \/ s.replyStatus = "replied" /\ ~Meaningful(s.merchantReply)
    \/ /\ s.replyStatus \in {"unreplied_no_content", "unreplied_with_content"}
       /\ \/ s.merchantReply \notin {"null", "empty"}
          \/ Meaningful(s.content) # (s.replyStatus = "unreplied_with_content")

\* A status that the patch names must agree with the texts; one that is only
\* remembered is withdrawn when a text no longer supports it.
Refuses(patch, old) ==
    /\ patch.replyStatus # Omitted
    /\ Contradicts([f \in DOMAIN Unknown |-> Merged(patch, old, f)])

\* Mutant: the remembered status is kept whatever the texts say.
ResolveKeepsStatus(patch, old) == [f \in DOMAIN Unknown |-> Merged(patch, old, f)]

resolveStoreReviewReplyState(patch, old) ==
    LET s == [f \in DOMAIN Unknown |-> Merged(patch, old, f)]
    IN  IF Contradicts(s) THEN [s EXCEPT !.replyStatus = "needs_verification"] ELSE s

-----------------------------------------------------------------------------
(* Uploading a batch: a function from keys to patches (a duplicate key is a *)
(* refusal of the parser, and so is a batch that names one legacy identity  *)
(* both with and without a platform id).                                    *)

Batches ==
    {b \in UNION {[ks -> Patches] : ks \in {s \in SUBSET Keys : IsFiniteSet(s) /\ Cardinality(s) \in 1..MaxBatch}} :
        \A k, l \in DOMAIN b : k[1] = l[1] => ((k[2] = NoId) <=> (l[2] = NoId))}

\* No stored row of the same legacy identity is named the other way.
Reconciled(b) ==
    \A k \in DOMAIN b : \A l \in DOMAIN reviews :
        k[1] = l[1] => ((k[2] = NoId) <=> (l[2] = NoId))

Stored(k) == IF k \in DOMAIN reviews THEN reviews[k] ELSE Unknown

\* The ids of the new rows are random and distinct.
Numberings(ks) ==
    LET free == ReviewIds \ {reviews[k].id : k \in DOMAIN reviews}
    IN  {f \in [ks -> free] : \A k, l \in ks : k # l => f[k] # f[l]}

WithId(s, id) == [id |-> id, content |-> s.content, merchantReply |-> s.merchantReply,
                  replyStatus |-> s.replyStatus]

\* Mutant: a batch that leaves every row as it was, or only changes rows,
\* does not move the version.
StampNewOnly(b) == IF DOMAIN b \subseteq DOMAIN reviews THEN revision ELSE revision + 1

\* lockAuthorizationPublication: every batch that commits moves the version,
\* an unchanged one too.
Stamp(b) == revision + 1

upsert(b) ==
    /\ revision < MaxRevisions
    /\ \A k \in DOMAIN b : StoreOf[k[1]] \in opened
    /\ Reconciled(b)
    /\ \A k \in DOMAIN b : ~Refuses(b[k], Stored(k))
    /\ \E number \in Numberings(DOMAIN b \ DOMAIN reviews) :
          reviews' = [k \in DOMAIN reviews \cup DOMAIN b |->
              IF k \notin DOMAIN b THEN reviews[k]
              ELSE WithId(resolveStoreReviewReplyState(b[k], Stored(k)),
                          IF k \in DOMAIN reviews THEN reviews[k].id ELSE number[k])]
    /\ revision' = Stamp(b)
    /\ UNCHANGED <<opened, granted, listing>>

-----------------------------------------------------------------------------
(* Reading. *)

Mine(e, filter) ==
    {k \in DOMAIN reviews : /\ StoreOf[k[1]] \in granted[e]
                            /\ reviews[k].replyStatus \in filter}

\* ORDER BY reviewed_at DESC, id DESC
Precedes(k, l) ==
    \/ MomentOf[k[1]] > MomentOf[l[1]]
    \/ MomentOf[k[1]] = MomentOf[l[1]] /\ reviews[k].id > reviews[l].id

ByMoment(ks) == {p \in ks \X ks : Precedes(p[1], p[2])}

Listing(e, filter) == InOrder(Mine(e, filter), ByMoment(Mine(e, filter)))

\* Weight of the first n rows of a page: a row with words is heavy.
Weight(rows, n) ==
    n + Cardinality({j \in 1..n : reviews[rows[j]].content = "words"})

\* The rows a page returns: all of them or, by binary search, the longest
\* prefix that fits.
Fitting(rows) ==
    LET search[range \in (1..PageLimit) \X (1..PageLimit)] ==
            LET low == range[1]  high == range[2]  middle == (low + high + 1) \div 2
            IN  IF low >= high THEN low
                ELSE IF Weight(rows, middle) <= PageBudget THEN search[<<middle, high>>]
                ELSE search[<<low, middle - 1>>]
    IN  IF Weight(rows, Len(rows)) <= PageBudget THEN Len(rows)
        ELSE search[<<1, Len(rows)>>]

\* The next page starts after the rows that were returned.
Resume(offset, count) == offset + count

\* LIMIT ? OFFSET ?
Window(all, offset) ==
    [j \in 1..(IF Len(all) - offset < PageLimit THEN Len(all) - offset ELSE PageLimit) |->
        all[offset + j]]

page(e, filter, offset, seen) ==
    LET all   == Listing(e, filter)
        rows  == Window(all, offset)
        count == Fitting(rows)
    IN  /\ rows = <<>> \/ Weight(rows, count) <= PageBudget
        /\ listing' = [listing EXCEPT ![e] =
              [at     |-> IF Len(all) > offset + count THEN "open" ELSE "none",
               filter |-> filter,
               cursor |-> [offset |-> Resume(offset, count), version |-> revision],
               seen   |-> seen \o SubSeq(rows, 1, count)]]

\* The employee reads an enterprise of which he holds a store's grant.
Readable(e) == granted[e] # {}

queryFirst(e, filter) ==
    /\ listing[e].at = "none"
    /\ Readable(e)
    /\ page(e, filter, 0, <<>>)
    /\ UNCHANGED <<reviews, revision, opened, granted>>

\* decodeStructuredCursor: the shape hash holds the version the cursor was
\* signed under.
Bound(e) == listing[e].cursor.version = revision

queryNext(e) ==
    /\ listing[e].at = "open"
    /\ Readable(e)
    /\ Bound(e)
    /\ page(e, listing[e].filter, listing[e].cursor.offset, listing[e].seen)
    /\ UNCHANGED <<reviews, revision, opened, granted>>

\* An expired or foreign cursor, or a lost grant: the reader starts again.
queryRefused(e) ==
    /\ \/ listing[e].at = "expired"
       \/ listing[e].at = "open" /\ (~Bound(e) \/ ~Readable(e))
    /\ listing' = [listing EXCEPT ![e] = NoRead]
    /\ UNCHANGED <<reviews, revision, opened, granted>>

\* Fifteen minutes pass.
cursorExpires(e) ==
    /\ listing[e].at = "open"
    /\ listing' = [listing EXCEPT ![e].at = "expired"]
    /\ UNCHANGED <<reviews, revision, opened, granted>>

-----------------------------------------------------------------------------
(* The administration around it: grants (configureAccount) and the store    *)
(* directory (putStore) change under the same lock and version.             *)

administer ==
    /\ revision < MaxRevisions
    /\ revision' = revision + 1
    /\ \/ /\ \E e \in Staff, s \in SUBSET ReviewStores :
                 granted[e] # s /\ granted' = [granted EXCEPT ![e] = s]
          /\ UNCHANGED opened
       \/ /\ \E s \in ReviewStores : opened' = IF s \in opened THEN opened \ {s} ELSE opened \cup {s}
          /\ UNCHANGED granted
    /\ UNCHANGED <<reviews, listing>>

ReviewsInit ==
    /\ reviews = [k \in {} |-> Unknown]
    /\ revision = 1
    /\ opened = ReviewStores
    /\ granted = [e \in Staff |-> ReviewStores]
    /\ listing = [e \in Staff |-> NoRead]

ReviewsNext ==
    \/ \E b \in Batches : upsert(b)
    \/ \E e \in Staff :
          \/ \E filter \in Filters : queryFirst(e, filter)
          \/ queryNext(e)
          \/ queryRefused(e)
          \/ cursorExpires(e)
    \/ administer

ReviewsSpec == ReviewsInit /\ [][ReviewsNext]_reviewVars

-----------------------------------------------------------------------------
(* Properties. *)

\* Through any sequence of partial observations a stored reply status agrees
\* with the stored texts, and a legacy identity is stored either once without
\* a platform id or under platform ids only: a review is never counted twice.
ReviewsAgree ==
    /\ \A k \in DOMAIN reviews : ~Contradicts(reviews[k])
    /\ \A k, l \in DOMAIN reviews : k[1] = l[1] /\ k[2] = NoId => k = l

\* A reader whose cursor would still be accepted has been shown exactly the
\* rows of today's listing up to his offset, each once and in order, whatever
\* was uploaded or administered between his pages.
PagesAreOneList ==
    \A e \in Staff :
        listing[e].at = "open" /\ Bound(e) =>
            /\ listing[e].seen = SubSeq(Listing(e, listing[e].filter), 1, listing[e].cursor.offset)
            /\ listing[e].cursor.offset < Len(Listing(e, listing[e].filter))
=============================================================================

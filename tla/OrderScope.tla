------------------------------ MODULE OrderScope ------------------------------
(***************************************************************************)
(* The source scope of in-store orders.  A current partition holds either  *)
(* settled orders only, orders of all statuses, or rows from before scopes *)
(* were declared.  An upload of another scope replaces it only as a        *)
(* transition: an administrator asks for a preview of the partitions of    *)
(* some stores and days, confirms it with an upload of one exact file, and *)
(* the worker publishes that file later.  Other uploads are accepted and   *)
(* published in between.                                                   *)
(*                                                                         *)
(* Each transaction is one step: preparing and publishing are serializable *)
(* and accepting an upload takes the same row lock first.  A partition is  *)
(* identified by the key of its store and its day; the key of a name       *)
(* ignores the case of its letters, so two names may share one.            *)
(***************************************************************************)
EXTENDS Integers, FiniteSets

CONSTANTS
  StoreNames,      \* names stores are written with
  StoreKey,        \* name -> partitionStoreIdentity(name).storeKey
  OrderFiles,      \* sources: [sum, from, to, rows], rows a set of [name, day, sum]
  Administrators,
  ScopeSelections,      \* sets of store names previews are asked for
  MaxPreviews, MaxScopeUploads,   \* bounds: previews kept at once, uploads ever made
  PreviewLimit,    \* active unbound previews of an organization
  Historic         \* partitions published before scopes existed

DeclaredScopes == {"settled_only", "all_statuses"}

NoPreview == 0

PreviewIds == 1..MaxPreviews
UploadIds == 1..MaxScopeUploads

ASSUME OrderScopeAssumption ==
  /\ PreviewLimit \in Nat \ {0}
  /\ \A p \in Historic : p.scope = "legacy_unknown" /\ p.key = StoreKey[p.name]
  /\ \A names \in ScopeSelections : names \subseteq StoreNames /\ names # {}
  \* The exporter writes one file for a store key and a day (PartitionExport).
  /\ \A p, q \in Historic : p.key = q.key /\ p.day = q.day => p = q
  /\ \A file \in OrderFiles : \A r, q \in file.rows :
       StoreKey[r.name] = StoreKey[q.name] /\ r.day = q.day => r = q

VARIABLES
  orders,          \* current partitions: [key, day, name, scope, version, sum]
  previews,        \* the previews made so far: id -> record
  uploads,         \* the uploads accepted so far: id -> record
  scopeRequired,   \* orderScopeRequired of the enterprise's integration
  uploadAdmins,    \* administrators at the moment
  registered       \* names of registered stores that are not retired

scopeVars == <<orders, previews, uploads, scopeRequired, uploadAdmins, registered>>

Place(p) == <<p.key, p.day>>

\* An upload that declares nothing is of unknown scope, as are historic rows.
effectiveOrderScope(scope) == IF scope = "undeclared" THEN "legacy_unknown" ELSE scope

\* The rows a selection stands for, by the exact names of the stores.
orderScopeSnapshot(names, from, to) == {p \in orders : p.name \in names /\ p.day \in from..to}

requireOrderScopeDeclaration(scope) == scopeRequired => scope \in DeclaredScopes

requireOrderScopeStores(names) == names \subseteq registered

Unbound(p) == p \in DOMAIN previews /\ ~previews[p].bound

\* Expired previews nobody confirmed are deleted on the way.
prepareOrderScopeTransition(a, p, names, file, scope) ==
  LET snapshot == orderScopeSnapshot(names, file.from, file.to)
      kept == {x \in DOMAIN previews : ~(Unbound(x) /\ previews[x].expired)}
  IN  /\ p \notin DOMAIN previews /\ 1..(p - 1) \subseteq DOMAIN previews
      /\ a \in uploadAdmins /\ requireOrderScopeStores(names)
      /\ \E row \in snapshot : row.scope # scope
      /\ Cardinality({x \in kept : Unbound(x)}) < PreviewLimit
      /\ previews' = [x \in kept \cup {p} |->
                        IF x # p THEN previews[x]
                        ELSE [actor |-> a, names |-> names, from |-> file.from, to |-> file.to,
                              scope |-> scope, file |-> file.sum, snapshot |-> snapshot,
                              expired |-> FALSE, bound |-> FALSE]]
      /\ UNCHANGED <<orders, uploads, scopeRequired, uploadAdmins, registered>>

PreviewExpires(p) ==
  /\ Unbound(p) /\ ~previews[p].expired
  /\ previews' = [previews EXCEPT ![p].expired = TRUE]
  /\ UNCHANGED <<orders, uploads, scopeRequired, uploadAdmins, registered>>

SnapshotHolds(v) == orderScopeSnapshot(v.names, v.from, v.to) = v.snapshot

SnapshotUnchecked(v, candidates) ==
  /\ \A c \in candidates : c.scope = v.scope /\ c.name \in v.names /\ c.day \in v.from..v.to
  /\ \A row \in v.snapshot : \E c \in candidates : Place(c) = Place(row)

\* The source has every previewed partition and stays inside the confirmed scope.
verifyOrderScopeSnapshot(v, candidates) ==
  /\ SnapshotHolds(v)
  /\ \A c \in candidates : c.scope = v.scope /\ c.name \in v.names /\ c.day \in v.from..v.to
  /\ \A row \in v.snapshot : \E c \in candidates : Place(c) = Place(row)

confirmedOrderScopePreview(a, p, file, scope) ==
  /\ Unbound(p)
  /\ LET v == previews[p]
     IN  /\ v.actor = a /\ ~v.expired
         /\ v.scope = scope /\ v.file = file.sum /\ v.from = file.from /\ v.to = file.to
         /\ requireOrderScopeStores(v.names) /\ SnapshotHolds(v)

\* A repeated call with the key of an accepted upload gets that upload: no step.
reserveUpload(a, u, file, scope, p) ==
  /\ u \notin DOMAIN uploads /\ 1..(u - 1) \subseteq DOMAIN uploads
  /\ a \in uploadAdmins /\ requireOrderScopeDeclaration(scope)
  /\ p # NoPreview => scope # "undeclared" /\ confirmedOrderScopePreview(a, p, file, scope)
  /\ uploads' = [x \in DOMAIN uploads \cup {u} |->
                   IF x # u THEN uploads[x]
                   ELSE [actor |-> a, file |-> file, scope |-> effectiveOrderScope(scope),
                         preview |-> p, status |-> "open"]]
  /\ previews' = IF p = NoPreview THEN previews ELSE [previews EXCEPT ![p].bound = TRUE]
  /\ UNCHANGED <<orders, scopeRequired, uploadAdmins, registered>>

Candidates(u) ==
  {[key |-> StoreKey[r.name], day |-> r.day, name |-> r.name, scope |-> uploads[u].scope, sum |-> r.sum] :
     r \in uploads[u].file.rows}

\* decidePartitionReplacement: equal bytes and metadata keep the row, and its version.
PublishedOrder(c) ==
  LET current == {p \in orders : Place(p) = Place(c)}
      fresh(version) == [key |-> c.key, day |-> c.day, name |-> c.name, scope |-> c.scope,
                         version |-> version, sum |-> c.sum]
  IN  IF current = {} THEN fresh(1)
      ELSE LET p == CHOOSE p \in current : TRUE
           IN  IF p = fresh(p.version) THEN p ELSE fresh(p.version + 1)

\* Without a transition no partition changes its scope.
ScopesAgree(candidates) ==
  \A c \in candidates, p \in orders : Place(p) = Place(c) => p.scope = c.scope

ScopeAllows(u) ==
  LET up == uploads[u]
  IN  /\ requireOrderScopeDeclaration(up.scope)
      /\ IF up.preview = NoPreview THEN ScopesAgree(Candidates(u))
         ELSE verifyOrderScopeSnapshot(previews[up.preview], Candidates(u))

publishSourceAtomically(u) ==
  /\ u \in DOMAIN uploads /\ uploads[u].status = "open" /\ uploads[u].actor \in uploadAdmins
  /\ ScopeAllows(u)
  /\ orders' = {p \in orders : \A c \in Candidates(u) : Place(c) # Place(p)}
                 \cup {PublishedOrder(c) : c \in Candidates(u)}
  /\ uploads' = [uploads EXCEPT ![u].status = "published"]
  /\ UNCHANGED <<previews, scopeRequired, uploadAdmins, registered>>

\* A conflict rejects the job; its preview stays bound to it.
RejectUpload(u) ==
  /\ u \in DOMAIN uploads /\ uploads[u].status = "open" /\ uploads[u].actor \in uploadAdmins
  /\ ~ScopeAllows(u)
  /\ uploads' = [uploads EXCEPT ![u].status = "rejected"]
  /\ UNCHANGED <<orders, previews, scopeRequired, uploadAdmins, registered>>

\* Cancelled, expired, invalid, or out of attempts: PartitionImport, UploadSession.
UploadEnds(u) ==
  /\ u \in DOMAIN uploads /\ uploads[u].status = "open"
  /\ uploads' = [uploads EXCEPT ![u].status = "failed"]
  /\ UNCHANGED <<orders, previews, scopeRequired, uploadAdmins, registered>>

\* A daily workflow that imports in-store orders goes live.
activateOrderScope ==
  /\ ~scopeRequired /\ scopeRequired' = TRUE
  /\ UNCHANGED <<orders, previews, uploads, uploadAdmins, registered>>

\* Somebody becomes an administrator, or an employee again.  There is always another
\* administrator (AUTHORIZATION_LAST_ADMIN_REQUIRED): Administrators are those who confirm.
configureAccountRole(a) ==
  /\ uploadAdmins' = IF a \in uploadAdmins THEN uploadAdmins \ {a} ELSE uploadAdmins \cup {a}
  /\ UNCHANGED <<orders, previews, uploads, scopeRequired, registered>>

\* A store leaves the directory, or comes back.
putStore(n) ==
  /\ registered' = IF n \in registered THEN registered \ {n} ELSE registered \cup {n}
  /\ UNCHANGED <<orders, previews, uploads, scopeRequired, uploadAdmins>>

ScopeInit ==
  /\ orders = Historic
  /\ previews = [x \in {} |-> x] /\ uploads = [x \in {} |-> x]
  /\ scopeRequired = FALSE /\ uploadAdmins = Administrators /\ registered = StoreNames

ScopeNext ==
  \/ \E a \in Administrators, file \in OrderFiles, scope \in DeclaredScopes, p \in PreviewIds :
       \E names \in ScopeSelections : prepareOrderScopeTransition(a, p, names, file, scope)
  \/ \E p \in PreviewIds : PreviewExpires(p)
  \/ \E a \in Administrators, u \in UploadIds, file \in OrderFiles :
       \E scope \in DeclaredScopes \cup {"undeclared"}, p \in PreviewIds \cup {NoPreview} :
         reserveUpload(a, u, file, scope, p)
  \/ \E u \in UploadIds : publishSourceAtomically(u) \/ RejectUpload(u) \/ UploadEnds(u)
  \/ activateOrderScope
  \/ \E a \in Administrators : configureAccountRole(a)
  \/ \E n \in StoreNames : putStore(n)

ScopeSpec == ScopeInit /\ [][ScopeNext]_scopeVars

-----------------------------------------------------------------------------
Rescoped == {p \in orders : \E q \in orders' : Place(q) = Place(p) /\ q.scope # p.scope}

\* A current partition changes its scope only by the publication of an upload whose
\* administrator was shown it, in this very version, and confirmed this very file;
\* all the partitions shown change together, and afterwards the selected stores and
\* days have one scope.  Partitions and previews may change between the preview, the
\* confirmation and the publication, and other uploads may be accepted first
\* (prepareOrderScopeTransition, reserveUpload, publishSourceAtomically).  A partition
\* written with another spelling of a selected store is not among those shown.
ScopeIsConfirmed ==
  [][Rescoped # {} =>
       \E u \in DOMAIN uploads :
         /\ uploads[u].status = "open" /\ uploads'[u].status = "published"
         /\ uploads[u].preview # NoPreview
         /\ LET v == previews[uploads[u].preview]
            IN  /\ v.actor = uploads[u].actor /\ v.file = uploads[u].file.sum
                /\ \A p \in Rescoped : p \in v.snapshot \/ p.name \notin v.names
                /\ \A p \in v.snapshot : \E q \in orders' : Place(q) = Place(p) /\ q.scope = v.scope
                /\ \A q \in orders' : q.name \in v.names /\ q.day \in v.from..v.to => q.scope = v.scope
    ]_scopeVars
=============================================================================

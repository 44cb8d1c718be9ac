---------------------- MODULE BusinessAuthorization ----------------------
(***************************************************************************)
(* Who may read which document: the directory of categories, stores and    *)
(* dimension values, the accounts' grants, the attributes of documents and *)
(* the cutover from the older clearance rule                               *)
(* (packages/db/src/business-authorization.ts, source-read-requirements.ts,*)
(* apps/api/src/business-authorization-cutover.ts).                        *)
(*                                                                         *)
(* Every write of an administrator names the authorization version of the  *)
(* page it was made from and moves the version on; so does every           *)
(* publication of a document.  The version matters only by equality, so    *)
(* the model keeps who has loaded the current one ("fresh").  A write or a *)
(* publication is one transaction under the version's row lock, and one    *)
(* step; a refused one changes nothing.                                    *)
(*                                                                         *)
(* There is one enterprise, one receipt (every ledger and every photo is   *)
(* of it) and one dimension, which evidence may require.                   *)
(***************************************************************************)
EXTENDS Naturals, FiniteSets

CONSTANTS
  Employees, Clearances, Stores, Values,
  Evidence, Ledgers, Photos,        \* documents
  EvidenceCategory, LedgerCategory, PhotoCategory,
  Group,                            \* the place of a scope of the whole group
  Nothing,
  GrantChoices,                     \* the sets of grants administrators assign
  MaxWrites,                        \* administrators' writes
  MaxUploads                        \* documents uploaded

Documents == Evidence \cup Ledgers \cup Photos
FixedCategories == {LedgerCategory, PhotoCategory}
Categories == FixedCategories \cup {EvidenceCategory}
Entries == Categories \cup Stores \cup Values
Scopes == [place : Stores \cup {Group}, value : Values \cup {Nothing}]
Selections == {{s} : s \in Scopes}

ASSUME BusinessConstants ==
  /\ Clearances \subseteq Nat
  /\ Nothing \notin Employees \cup Stores \cup Values \cup Clearances
  /\ Group \notin Stores
  /\ Evidence \cap (Ledgers \cup Photos) = {}
  /\ MaxWrites \in Nat

VARIABLES
  mode,       \* "legacy", "enabled" or "suspended"
  fresh,      \* employees whose page shows the current authorization version
  registry,   \* of a category, store or value: "none", "current" or "retired"
  rules,      \* of a category: its level and whether it requires the dimension
  employees,  \* role, clearance and grants
  docs,       \* status, pending approval of retired references, store of its rows
  resources,  \* the attributes of a document: business_resources and scopes
  approved,   \* selections of a document that an administrator approved
  writes

bizVars == <<mode, fresh, registry, rules, employees, docs, resources, approved,
             writes>>

NoResource == [category |-> Nothing, scopes |-> {}, level |-> Nothing, valid |-> FALSE]

BizInit ==
  /\ mode = "legacy"
  /\ fresh = {}
  /\ registry = [x \in Entries |->
                    IF x \in FixedCategories THEN "none" ELSE "current"]
  /\ rules = [c \in Categories |-> [level |-> Nothing, required |-> FALSE]]
  /\ employees = [e \in Employees |->
                    [role |-> "admin", clearance |-> 0, grants |-> {}]]
  /\ docs = [d \in Documents |-> [status |-> "none", intent |-> Nothing,
                                  place |-> Nothing]]
  /\ resources = [d \in Documents |-> NoResource]
  /\ approved = [d \in Documents |-> {}]
  /\ writes = 0

IsAdmin(e) == employees[e].role = "admin"

VersionKept == UNCHANGED fresh

\* lockAuthorizationPublication, and the version increment of mutate.
VersionMoves == fresh' = {}

-----------------------------------------------------------------------------
(* The rules of reading *)

ValidScope(s, c) ==
  /\ c \in FixedCategories => s.place \in Stores
  /\ (s.value # Nothing) = rules[c].required

ValidGrant(g) ==
  /\ g.categories # {}
  /\ ~g.group => g.stores # {}
  /\ \A c \in g.categories :
       /\ registry[c] # "none"
       /\ c \in FixedCategories => ~g.group
       /\ (g.values # {}) = rules[c].required

Complete(r) ==
  /\ r.category \in Categories
  /\ r.scopes # {} /\ \A s \in r.scopes : ValidScope(s, r.category)
  /\ r.category = EvidenceCategory => r.level \in Clearances

Covers(g, s, c) ==
  /\ ValidGrant(g)
  /\ c \in g.categories
  /\ IF s.place = Group THEN g.group ELSE ~g.group /\ s.place \in g.stores
  /\ rules[c].required => s.value \in g.values

CanRead(e, d) ==
  LET r == resources[d]
      level == IF r.category = EvidenceCategory THEN r.level ELSE rules[r.category].level
  IN /\ mode = "enabled"
     /\ r.valid /\ docs[d].status = "active"
     /\ Complete(r)
     /\ level \in Clearances
     /\ employees[e].clearance >= level
     /\ \A s \in r.scopes : \E g \in employees[e].grants : Covers(g, s, r.category)

-----------------------------------------------------------------------------
(* Directory eligibility *)

References(c, scopes) ==
  ({c} \cup {s.place : s \in scopes} \cup {s.value : s \in scopes}) \cap Entries

Retired(dir, c, scopes) == \E x \in References(c, scopes) : dir[x] = "retired"

\* requireCurrentDirectoryEligibility: retired entries are referred to only by
\* attributes that already did, or with an administrator's approval.
Eligible(dir, c, scopes, preserved, intent) ==
  /\ \A x \in References(c, scopes) : dir[x] # "none"
  /\ rules[c].required => \A s \in scopes : s.value # Nothing
  /\ intent # Nothing => IsAdmin(intent)
  /\ Retired(dir, c, scopes) => preserved \/ intent # Nothing

\* registerStores, and the fixed categories that publishing adds outside the
\* enabled mode.
Registered(c, scopes) ==
  [x \in Entries |->
     IF /\ registry[x] = "none"
        /\ x \in {s.place : s \in scopes} \/ (x \in FixedCategories /\ mode = "legacy"
                                               /\ c \in FixedCategories)
     THEN "current" ELSE registry[x]]

\* requirePublicationAttributes
Publishable(r, intent) ==
  /\ mode # "suspended"
  /\ mode = "enabled" \/ intent # Nothing =>
       /\ Complete(r)
       /\ r.category = PhotoCategory => rules[r.category].level \in Clearances

-----------------------------------------------------------------------------
(* Writes of administrators *)

LoadPage(e) ==
  /\ IsAdmin(e)
  /\ fresh' = fresh \cup {e}
  /\ UNCHANGED <<mode, registry, rules, employees, docs, resources, approved, writes>>

\* mutate: the version the page showed is the current one and its user still
\* an administrator.
Mutate(e) ==
  /\ e \in fresh /\ IsAdmin(e)
  /\ writes < MaxWrites /\ writes' = writes + 1
  /\ VersionMoves

ConfigureAccountRole(e, target, role) ==
  /\ role = "employee" /\ IsAdmin(target)
       => \E other \in Employees \ {target} : IsAdmin(other)
  /\ employees' = [employees EXCEPT ![target].role = role]
  /\ UNCHANGED <<mode, registry, rules, docs, resources, approved>>

ConfigureAccount(target, clearance, grants) ==
  /\ \A g \in grants : ValidGrant(g)
  /\ employees' = [employees EXCEPT ![target].clearance = clearance,
                                    ![target].grants = grants]
  /\ UNCHANGED <<mode, registry, rules, docs, resources, approved>>

\* A fixed category has its level set and keeps its dimensions; a category of
\* evidence has none of its own.
ConfigureCategory(c, level, required, state) ==
  /\ registry[c] # "none"
  /\ c = EvidenceCategory <=> level = Nothing
  /\ c # EvidenceCategory => required = rules[c].required
  /\ rules' = [rules EXCEPT ![c] = [level |-> level, required |-> required]]
  /\ registry' = [registry EXCEPT ![c] = state]
  /\ UNCHANGED <<mode, employees, docs, resources, approved>>

InitializeFixedCategories ==
  /\ registry' = [x \in Entries |->
       IF x \in FixedCategories /\ registry[x] = "none" THEN "current" ELSE registry[x]]
  /\ UNCHANGED <<mode, rules, employees, docs, resources, approved>>

\* putStore and defineDimensionValue
PutEntry(x, state) ==
  /\ x \in Stores \cup Values
  /\ registry' = [registry EXCEPT ![x] = state]
  /\ UNCHANGED <<mode, rules, employees, docs, resources, approved>>

RetainedAlways(d, intent, unchanged) == IF intent # Nothing THEN intent ELSE docs[d].intent

\* A pending approval stays with the selection it was given for.
Retained(d, intent, unchanged) ==
  IF intent # Nothing THEN intent
  ELSE IF unchanged THEN docs[d].intent ELSE Nothing

Approving(d, c, scopes, intent) ==
  approved' = IF intent = Nothing THEN approved
              ELSE [approved EXCEPT ![d] = @ \cup {<<c, scopes>>}]

ConfigureEvidenceDocument(e, d, scopes, level, reason) ==
  LET intent == IF reason THEN e ELSE Nothing
      new == [category |-> EvidenceCategory, scopes |-> scopes, level |-> level,
              valid |-> docs[d].status = "active"]
      unchanged == /\ resources[d].category = new.category
                   /\ resources[d].scopes = scopes
                   /\ resources[d].valid = new.valid
  IN /\ d \in Evidence /\ docs[d].status # "none"
     /\ Complete(new)
     /\ Eligible(registry, EvidenceCategory, scopes, unchanged, intent)
     /\ resources' = [resources EXCEPT ![d] = new]
     /\ docs' = [docs EXCEPT ![d].intent = Retained(d, intent, unchanged)]
     /\ Approving(d, EvidenceCategory, scopes, intent)
     /\ UNCHANGED <<mode, registry, rules, employees>>

ReadyResourcesOnly ==
  /\ \A c \in FixedCategories : registry[c] # "none"
  /\ rules[PhotoCategory].level \in Clearances
  /\ \A d \in Documents : resources[d] # NoResource => Complete(resources[d])
  /\ \A e \in Employees : \A g \in employees[e].grants : ValidGrant(g)

\* inspectCutoverInventory: everything that is to be readable is described.
Ready ==
  /\ \A c \in FixedCategories : registry[c] # "none"
  /\ rules[PhotoCategory].level \in Clearances
  /\ \A d \in Documents : resources[d] # NoResource => Complete(resources[d])
  /\ \A d \in Documents :
       docs[d].status \in {"uploaded", "active"} => resources[d] # NoResource
  /\ \A e \in Employees : \A g \in employees[e].grants : ValidGrant(g)

ActivateAuthorizationCutover ==
  /\ mode # "suspended"
  /\ Ready
  /\ mode' = "enabled"
  /\ UNCHANGED <<registry, rules, employees, docs, resources, approved>>

SuspendAuthorizationReads ==
  /\ mode \in {"enabled", "suspended"}
  /\ mode' = "suspended"
  /\ UNCHANGED <<registry, rules, employees, docs, resources, approved>>

AdminWrite(e) ==
  /\ Mutate(e)
  /\ \/ \E t \in Employees, role \in {"admin", "employee"} : ConfigureAccountRole(e, t, role)
     \/ \E t \in Employees, n \in Clearances, gs \in GrantChoices : ConfigureAccount(t, n, gs)
     \/ \E c \in Categories, n \in Clearances \cup {Nothing}, req \in BOOLEAN,
           state \in {"current", "retired"} : ConfigureCategory(c, n, req, state)
     \/ InitializeFixedCategories
     \/ \E x \in Stores \cup Values, state \in {"current", "retired"} : PutEntry(x, state)
     \/ \E d \in Evidence, scopes \in Selections, n \in Clearances, reason \in BOOLEAN :
          ConfigureEvidenceDocument(e, d, scopes, n, reason)
     \/ ActivateAuthorizationCutover
     \/ SuspendAuthorizationReads

\* Through the admin pages, or the permissions operator's inspect and apply.
Administer(e) == LoadPage(e) \/ AdminWrite(e)

-----------------------------------------------------------------------------
(* Publications *)

MayUpload(e, d) ==
  /\ IsAdmin(e)
  /\ docs[d].status = "none"
  /\ Cardinality({x \in Documents : docs[x].status # "none"}) < MaxUploads

PublicationFrame == VersionMoves /\ UNCHANGED <<mode, rules, employees, writes>>

\* createUploadedDocument and persistEvidenceReadRequirement: with attributes,
\* or without any outside the enabled mode.
UploadEvidence(e, d, scopes, level, reason) ==
  LET intent == IF reason THEN e ELSE Nothing
      new == [category |-> EvidenceCategory, scopes |-> scopes, level |-> level,
              valid |-> FALSE]
  IN /\ MayUpload(e, d)
     /\ docs' = [docs EXCEPT ![d] = [status |-> "uploaded", intent |-> intent,
                                     place |-> Nothing]]
     /\ \/ /\ scopes = {} /\ mode = "legacy" /\ ~reason
           /\ UNCHANGED <<registry, resources, approved>>
        \/ /\ Complete(new)
           /\ registry' = Registered(EvidenceCategory, scopes)
           /\ Eligible(registry', EvidenceCategory, scopes, FALSE, intent)
           /\ resources' = [resources EXCEPT ![d] = new]
           /\ Approving(d, EvidenceCategory, scopes, intent)
     /\ PublicationFrame

\* completeEvidenceIndexing and activateEvidenceReadRequirement
IndexEvidence(d) ==
  LET r == resources[d] IN
  /\ docs[d].status \in {"uploaded", "active"}
  /\ Publishable(r, docs[d].intent)
  /\ r # NoResource =>
       Eligible(registry, r.category, r.scopes, FALSE, docs[d].intent)
  /\ docs' = [docs EXCEPT ![d].status = "active"]
  /\ resources' = [resources EXCEPT ![d].valid = (r # NoResource)]
  /\ UNCHANGED <<registry, approved>>
  /\ PublicationFrame

\* The upload of a ledger's file; one that is not archived keeps its receipt.
UploadLedger(e, d, reason) ==
  /\ MayUpload(e, d)
  /\ \A l \in Ledgers : docs[l].status \in {"none", "archived"}
  /\ docs' = [docs EXCEPT ![d] = [status |-> "uploaded",
                                  intent |-> IF reason THEN e ELSE Nothing,
                                  place |-> Nothing]]
  /\ UNCHANGED <<mode, registry, rules, employees, resources, approved, writes>>
  /\ VersionKept

\* validateReceiptPhotoStore; in the enabled mode every photo has attributes.
PhotosAgree(place) ==
  \A p \in Photos : docs[p].status = "active" =>
    /\ mode = "enabled" => resources[p].valid
    /\ resources[p].valid => \A s \in resources[p].scopes : s.place = place

\* deriveStructuredSourceScopes: the uploader may have named no enterprise, and
\* then the rows get no attributes.
SourceScopes(place, known) == IF known THEN {[place |-> place, value |-> Nothing]} ELSE {}

\* persistStructuredSourceReadRequirements when the rows are applied.
ApplyLedger(d, place, known) ==
  LET scopes == SourceScopes(place, known)
      new == [category |-> LedgerCategory, scopes |-> scopes, level |-> Nothing,
              valid |-> TRUE]
  IN /\ docs[d].status = "uploaded"
     /\ registry' = Registered(LedgerCategory, scopes)
     /\ registry'[LedgerCategory] # "none"
     /\ Publishable(new, docs[d].intent)
     /\ Eligible(registry', LedgerCategory, scopes, FALSE, docs[d].intent)
     /\ IF Complete(new)
        THEN /\ PhotosAgree(place)
             /\ resources' = [resources EXCEPT ![d] = new]
        ELSE UNCHANGED resources
     /\ docs' = [docs EXCEPT ![d].status = "active", ![d].place = place]
     /\ UNCHANGED approved
     /\ PublicationFrame

\* The rows of the receipt that are there name the photo's store.
LedgersAgree(place) ==
  \A l \in Ledgers : docs[l].status = "active" =>
    /\ docs[l].place = place
    /\ mode = "enabled" => resources[l] # NoResource

\* createCertificate and persistPhotoReadRequirement
UploadPhoto(e, d, place, reason) ==
  LET intent == IF reason THEN e ELSE Nothing
      scopes == {[place |-> place, value |-> Nothing]}
      new == [category |-> PhotoCategory, scopes |-> scopes, level |-> Nothing,
              valid |-> TRUE]
  IN /\ MayUpload(e, d)
     /\ registry' = Registered(PhotoCategory, scopes)
     /\ registry'[PhotoCategory] # "none"
     /\ Publishable(new, intent)
     /\ Eligible(registry', PhotoCategory, scopes, FALSE, intent)
     /\ LedgersAgree(place)
     /\ resources' = [resources EXCEPT ![d] = new]
     /\ docs' = [docs EXCEPT ![d] = [status |-> "active", intent |-> intent,
                                     place |-> place]]
     /\ Approving(d, PhotoCategory, scopes, intent)
     /\ PublicationFrame

\* archiveDocument, archiveBySourceDocumentId
ArchiveDocument(e, d) ==
  /\ IsAdmin(e)
  /\ docs[d].status \in {"uploaded", "active"}
  /\ docs' = [docs EXCEPT ![d].status = "archived"]
  /\ UNCHANGED <<mode, registry, rules, employees, resources, approved, writes>>
  /\ VersionKept

BizNext ==
  \/ \E e \in Employees :
       \/ Administer(e)
       \/ \E d \in Evidence, scopes \in Selections \cup {{}}, n \in Clearances,
             reason \in BOOLEAN : UploadEvidence(e, d, scopes, n, reason)
       \/ \E d \in Ledgers, reason \in BOOLEAN : UploadLedger(e, d, reason)
       \/ \E d \in Photos, place \in Stores, reason \in BOOLEAN :
            UploadPhoto(e, d, place, reason)
       \/ \E d \in Documents : ArchiveDocument(e, d)
  \/ \E d \in Evidence : IndexEvidence(d)
  \/ \E d \in Ledgers, place \in Stores, known \in BOOLEAN : ApplyLedger(d, place, known)

BizSpec == BizInit /\ [][BizNext]_bizVars

-----------------------------------------------------------------------------
(* Properties *)

\* The values the rows of authorization take.
BizTypeOK ==
  /\ mode \in {"legacy", "enabled", "suspended"}
  /\ fresh \subseteq Employees
  /\ registry \in [Entries -> {"none", "current", "retired"}]
  /\ rules \in [Categories -> [level : Clearances \cup {Nothing}, required : BOOLEAN]]
  /\ employees \in [Employees -> [role : {"admin", "employee"}, clearance : Clearances \cup {0},
                                  grants : GrantChoices \cup {{}}]]
  /\ docs \in [Documents -> [status : {"none", "uploaded", "active", "archived"},
                             intent : Employees \cup {Nothing}, place : Stores \cup {Nothing}]]
  /\ resources \in [Documents -> [category : Categories \cup {Nothing}, scopes : SUBSET Scopes,
                                  level : Clearances \cup {Nothing}, valid : BOOLEAN]]
  /\ approved \in [Documents -> SUBSET (Categories \X SUBSET Scopes)]
  /\ writes \in 0..MaxWrites

\* After the cutover nothing that is published lacks the attributes that
\* decide who reads it, whatever was on its way when the cutover happened
\* (inspectCutoverInventory, requirePublicationAttributes).
EnabledIsClassified ==
  mode # "legacy" =>
    \A d \in Documents : docs[d].status = "active" => resources[d] # NoResource

\* A document is published under a retired category, store or value only when
\* an administrator approved that very selection for it and still is one
\* (requireCurrentDirectoryEligibility, configureEvidenceDocument).
Published(d) == docs[d].status = "active" /\ resources[d].valid
ApprovalCoversSelection ==
  [][\A d \in Evidence :
       LET r == resources'[d] IN
       /\ Published(d)'
       /\ ~Published(d) \/ resources[d].scopes # r.scopes
       /\ Retired(registry, r.category, r.scopes)
       => /\ <<r.category, r.scopes>> \in approved'[d]
          /\ docs'[d].intent # Nothing /\ IsAdmin(docs'[d].intent)]_bizVars

\* Whatever lets somebody read more moves the authorization version, so that
\* no page loaded before can still be saved (mutate,
\* lockAuthorizationPublication).
WideningIsVersioned ==
  [][(\E e \in Employees, d \in Documents : CanRead(e, d)' /\ ~CanRead(e, d))
       => fresh' = {}]_bizVars

=============================================================================

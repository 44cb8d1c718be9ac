------------------------------ MODULE McpGateway ------------------------------
(***************************************************************************)
(* The /mcp endpoint of the API: request guards, the concurrency limiter,  *)
(* authentication, the JSON-RPC envelope, and the tool handlers, which     *)
(* check a call and hand it to a route of the same API with the caller's   *)
(* own token.  The employee is read once, at authentication; the delegated *)
(* route reads the account again, so the role may have changed in between. *)
(*                                                                         *)
(* A call is what the gateway tells apart: its tool and dataset, the       *)
(* launcher's version, whether the arguments fit the contract, the size of *)
(* its file.  Hosts, headers, identifiers and envelopes are the one fault  *)
(* they can have.                                                          *)
(***************************************************************************)
EXTENDS Integers, FiniteSets, Sequences

CONSTANTS
  Connections,        \* HTTP requests that may be open at once
  MaxConcurrent,      \* mcpMaxConcurrentRequests
  MaxUploadBytes,
  EnvelopeOverhead,   \* MCP_JSON_ENVELOPE_OVERHEAD_BYTES
  EnvelopeBytes,      \* bytes of a request around the file
  Arrivals            \* what clients send: [tool, dataset, version, valid, bytes, fault]

ASSUME GatewayAssumption ==
  /\ {MaxConcurrent, MaxUploadBytes} \subseteq Nat \ {0}
  /\ {EnvelopeBytes, EnvelopeOverhead} \subseteq Nat
  /\ EnvelopeBytes + 2 <= EnvelopeOverhead

VARIABLES
  gate,        \* connection -> the request being served
  active,      \* activeRequests of the limiter
  account      \* the caller's account: "admin", "employee", "revoked"

gatewayVars == <<gate, active, account>>

NoRequest == [pc |-> "idle", slot |-> FALSE]

-----------------------------------------------------------------------------
(***************************************************************************)
(* Versions and sizes.                                                     *)
(***************************************************************************)
NoVersion == [numbers |-> <<>>, pre |-> FALSE]

\* The first different number decides; a prerelease is below its release.
launcherVersionAtLeast(version, minimum) ==
  /\ version # NoVersion
  /\ LET differ == {i \in 1..3 : version.numbers[i] # minimum.numbers[i]}
     IN  IF differ = {} THEN ~version.pre \/ minimum.pre
         ELSE \E i \in differ : /\ \A j \in differ : i <= j
                                /\ version.numbers[i] > minimum.numbers[i]

Version(major, minor, patch) == [numbers |-> <<major, minor, patch>>, pre |-> FALSE]

UploadTools == {"upload_structured_dataset", "upload_evidence_document", "upload_quarantine_certificate"}
ReadTools == {"query_structured_dataset", "download_structured_partitions",
              "prepare_structured_partition_download", "list_account_permissions"}
ActionTools == {"archive_cost_card", "prepare_ledger_pdf_download"}

ASSUME ArrivalsAssumption ==
  \A call \in Arrivals :
    /\ call.tool \in UploadTools \cup ReadTools \cup ActionTools
    /\ call.version \in {NoVersion} \cup [numbers : Nat \X Nat \X Nat, pre : BOOLEAN]
    /\ call.bytes \in Nat

\* The launcher a tool asks for, and with some datasets a later one.
MinimumVersion(tool, dataset) ==
  CASE tool = "upload_structured_dataset" /\ dataset \in {"in_store_orders", "takeaway_orders"} -> Version(0, 15, 0)
    [] tool \in {"upload_structured_dataset", "query_structured_dataset"} /\ dataset = "cost_cards" -> Version(0, 10, 0)
    [] tool = "upload_structured_dataset" /\ dataset \in {"business", "dishes"} -> Version(0, 5, 0)
    [] tool = "download_structured_partitions" -> Version(0, 5, 0)
    [] tool = "prepare_structured_partition_download" -> Version(0, 8, 1)
    [] tool = "archive_cost_card" -> Version(0, 10, 0)
    [] OTHER -> NoVersion

Ceil(a, b) == (a + b - 1) \div b

EncodedLength(bytes) == Ceil(bytes, 3) * 4

maxBase64EncodedLength == Ceil(MaxUploadBytes, 3) * 4

\* The batch of reviews, whose limit is far below an upload's, is left out.
mcpBodyLimitBytes == Ceil(MaxUploadBytes * 4, 3) + EnvelopeOverhead

-----------------------------------------------------------------------------
\* tryAcquire and releaseRequest: a request gives its slot back once, whichever of
\* the authentication, the handler's finally and the error handler comes first.
ReleasedTwice(r) == active - 1

Released(r) == IF gate[r].slot THEN active - 1 ELSE active

Moves(r, pc) == gate' = [gate EXCEPT ![r].pc = pc]

Answers(r, code, retryable) ==
  gate' = [gate EXCEPT ![r].pc = "answered", ![r].answer = code, ![r].retryable = retryable]

\* sendMcpHttpError once the slot has been given back.
Ends(r, code) ==
  /\ active' = Released(r)
  /\ gate' = [gate EXCEPT ![r].pc = "closed", ![r].slot = FALSE, ![r].answer = code, ![r].retryable = FALSE]
  /\ UNCHANGED account

Arrive(r, call) ==
  /\ gate[r] = NoRequest
  /\ gate' = [gate EXCEPT ![r] = [pc |-> "arrived", slot |-> FALSE, call |-> call, role |-> "unknown",
                                  aborted |-> FALSE, applied |-> FALSE, audited |-> FALSE,
                                  answer |-> "none", retryable |-> FALSE]]
  /\ UNCHANGED <<active, account>>

\* onRequest: a supplied request id, the host and the peer are looked at first.
GuardRequest(r) ==
  /\ gate[r].pc = "arrived" /\ gate[r].call.fault = "guard"
  /\ Ends(r, "forbidden")

\* A full limiter answers MCP_BUSY, the one HTTP error that may be retried.
AcquireSlot(r) ==
  /\ gate[r].pc = "arrived" /\ gate[r].call.fault # "guard"
  /\ IF active >= MaxConcurrent
     THEN /\ gate' = [gate EXCEPT ![r].pc = "closed", ![r].answer = "busy", ![r].retryable = TRUE]
          /\ UNCHANGED active
     ELSE /\ gate' = [gate EXCEPT ![r].pc = "authenticate", ![r].slot = TRUE]
          /\ active' = active + 1
  /\ UNCHANGED account

Authenticate(r) ==
  /\ gate[r].pc = "authenticate"
  /\ IF account = "revoked" THEN Ends(r, "unauthenticated")
     ELSE /\ gate' = [gate EXCEPT ![r].pc = "body", ![r].role = account]
          /\ UNCHANGED <<active, account>>

\* The authentication throws, or the connection ends before the body has arrived:
\* the error handler.
RequestBreaks(r) ==
  /\ gate[r].pc \in {"authenticate", "body"}
  /\ Ends(r, "broken")

BodyBytes(call) == EnvelopeBytes + EncodedLength(call.bytes)

\* The body limit, the media type and the JSON parser: the error handler again.
ParseBody(r) ==
  /\ gate[r].pc = "body"
  /\ IF BodyBytes(gate[r].call) > mcpBodyLimitBytes THEN Ends(r, "too_large")
     ELSE IF gate[r].call.fault = "body" THEN Ends(r, "malformed")
     ELSE Moves(r, "handle") /\ UNCHANGED <<active, account>>

\* Method, session header, accepted types, protocol version and envelope.
CheckEnvelope(r) ==
  /\ gate[r].pc = "handle"
  /\ IF gate[r].call.fault = "envelope" THEN Answers(r, "malformed", FALSE)
     ELSE Moves(r, IF gate[r].call.tool \in UploadTools THEN "authorize" ELSE "check")
  /\ UNCHANGED <<active, account>>

\* The server cannot be connected: finally gives the slot back, then the error handler.
HandlerThrows(r) ==
  /\ gate[r].pc = "handle"
  /\ active' = Released(r)
  /\ gate' = [gate EXCEPT ![r].pc = "thrown", ![r].slot = FALSE]
  /\ UNCHANGED account

HandleError(r) == gate[r].pc = "thrown" /\ Ends(r, "internal")

\* extra.signal of the SDK.
AbortCall(r) ==
  /\ gate[r].pc \in {"authorize", "check", "delegate"} /\ ~gate[r].aborted
  /\ gate' = [gate EXCEPT ![r].aborted = TRUE]
  /\ UNCHANGED <<active, account>>

\* Uploads are authorized before their arguments are looked at, with the role read
\* at authentication.  The denial is written to the audit log; a failure to do so
\* is logged only.
AuthorizeUpload(r) ==
  /\ gate[r].pc = "authorize"
  /\ IF gate[r].role = "admin" THEN Moves(r, "check")
     ELSE \E written \in BOOLEAN :
            gate' = [gate EXCEPT ![r].pc = "answered", ![r].answer = "admin_required",
                                 ![r].audited = written]
  /\ UNCHANGED <<active, account>>

\* preflightEncodedUploadSize and decodeUploadFile: the encoding is measured before
\* it is parsed, the file after it is decoded.
preflightEncodedUploadSize(call) == EncodedLength(call.bytes) <= maxBase64EncodedLength

decodeUploadFile(call) == call.bytes <= MaxUploadBytes

Upgraded(call) ==
  LET minimum == MinimumVersion(call.tool, call.dataset)
  IN  minimum = NoVersion \/ launcherVersionAtLeast(call.version, minimum)

\* What stops an authorized upload: the same list for the three tools, of which only
\* upload_structured_dataset looks at the launcher.
UploadObjection(call, aborted) ==
  CASE aborted -> "cancelled"
    [] ~aborted /\ ~Upgraded(call) -> "upgrade_required"
    [] ~aborted /\ Upgraded(call) /\ ~preflightEncodedUploadSize(call) -> "too_large"
    [] ~aborted /\ Upgraded(call) /\ preflightEncodedUploadSize(call) /\ ~call.valid -> "invalid"
    [] OTHER -> IF decodeUploadFile(call) THEN "none" ELSE "too_large"

\* Other tools: the SDK checks the arguments, the handler the launcher, the
\* delegation whether the call was cancelled.
CallObjection(call, aborted) ==
  CASE ~call.valid -> "invalid"
    [] call.valid /\ ~Upgraded(call) -> "upgrade_required"
    [] OTHER -> IF aborted THEN "cancelled" ELSE "none"

CheckedWith(r, objection) ==
  /\ IF objection = "none" THEN Moves(r, "delegate") ELSE Answers(r, objection, FALSE)
  /\ UNCHANGED <<active, account>>

uploadStructuredDataset(r) ==
  /\ gate[r].pc = "check" /\ gate[r].call.tool = "upload_structured_dataset"
  /\ CheckedWith(r, UploadObjection(gate[r].call, gate[r].aborted))

uploadEvidenceDocument(r) ==
  /\ gate[r].pc = "check" /\ gate[r].call.tool = "upload_evidence_document"
  /\ CheckedWith(r, UploadObjection(gate[r].call, gate[r].aborted))

uploadQuarantineCertificate(r) ==
  /\ gate[r].pc = "check" /\ gate[r].call.tool = "upload_quarantine_certificate"
  /\ CheckedWith(r, UploadObjection(gate[r].call, gate[r].aborted))

ReadTool(r) ==
  /\ gate[r].pc = "check" /\ gate[r].call.tool \in ReadTools
  /\ CheckedWith(r, CallObjection(gate[r].call, gate[r].aborted))

ActionTool(r) ==
  /\ gate[r].pc = "check" /\ gate[r].call.tool \in ActionTools
  /\ CheckedWith(r, CallObjection(gate[r].call, gate[r].aborted))

\* The routes: under /v1/admin, and where data is changed, an administrator's.
routeForReadOnlyTool(tool) == IF tool = "list_account_permissions" THEN "admin" ELSE "open"

routeForActionTool(tool) == IF tool = "prepare_ledger_pdf_download" THEN "open" ELSE "admin"

Route(tool) ==
  IF tool \in ReadTools THEN routeForReadOnlyTool(tool)
  ELSE IF tool \in ActionTools THEN routeForActionTool(tool) ELSE "admin"

\* The route authenticates the token again.
Allowed(call) == account = "admin" \/ (account = "employee" /\ Route(call.tool) = "open")

NeverRetryable == FALSE

\* INTERNAL_ERROR with status 500, unreadable JSON, a rejected inject.
RetryableFailure == TRUE

\* What comes back may be an error or unreadable although the call was carried out.
Delegated(r) ==
  /\ LET call == gate[r].call
     IN  \/ /\ Allowed(call)
            /\ gate' = [gate EXCEPT ![r].pc = "answered", ![r].applied = TRUE, ![r].answer = "ok"]
         \/ Answers(r, "refused", FALSE)
         \/ \E done \in BOOLEAN :
              /\ done => Allowed(call)
              /\ gate' = [gate EXCEPT ![r].pc = "answered", ![r].applied = done, ![r].answer = "failed",
                                      ![r].retryable = RetryableFailure]
  /\ UNCHANGED <<active, account>>

delegateMultipartRequest(r) ==
  gate[r].pc = "delegate" /\ gate[r].call.tool \in UploadTools /\ Delegated(r)

delegateJsonApiRequest(r) ==
  gate[r].pc = "delegate" /\ gate[r].call.tool \notin UploadTools /\ Delegated(r)

\* The server is closed and the slot given back after the answer.
CloseRequest(r) ==
  /\ gate[r].pc = "answered"
  /\ active' = Released(r)
  /\ gate' = [gate EXCEPT ![r].pc = "closed", ![r].slot = FALSE]
  /\ UNCHANGED account

Leave(r) ==
  /\ gate[r].pc = "closed"
  /\ gate' = [gate EXCEPT ![r] = NoRequest]
  /\ UNCHANGED <<active, account>>

ChangeAccount ==
  /\ \E to \in {"admin", "employee", "revoked"} \ {account} : account' = to
  /\ UNCHANGED <<gate, active>>

GatewayInit ==
  /\ gate = [r \in Connections |-> NoRequest]
  /\ active = 0 /\ account = "admin"

GatewayNext ==
  \/ \E r \in Connections :
       \/ \E call \in Arrivals : Arrive(r, call)
       \/ GuardRequest(r) \/ AcquireSlot(r) \/ Authenticate(r) \/ RequestBreaks(r) \/ ParseBody(r)
       \/ CheckEnvelope(r) \/ HandlerThrows(r) \/ HandleError(r) \/ AbortCall(r) \/ AuthorizeUpload(r)
       \/ uploadStructuredDataset(r) \/ uploadEvidenceDocument(r) \/ uploadQuarantineCertificate(r)
       \/ ReadTool(r) \/ ActionTool(r) \/ delegateMultipartRequest(r) \/ delegateJsonApiRequest(r)
       \/ CloseRequest(r) \/ Leave(r)
  \/ ChangeAccount

GatewaySpec == GatewayInit /\ [][GatewayNext]_gatewayVars

-----------------------------------------------------------------------------
\* The limiter's counter is the number of requests that hold a slot, and a request
\* that is over holds none: authentication, the handler's finally and the error
\* handler between them give each slot back exactly once, so the endpoint neither
\* wears out nor lets in more than its limit (registerMcpHttpRoute).
SlotsAreReturned ==
  /\ active = Cardinality({r \in Connections : gate[r].slot}) /\ active <= MaxConcurrent
  /\ \A r \in Connections : gate[r].pc \in {"idle", "closed"} => ~gate[r].slot

VersionRank(v) == v.numbers[1] * 1000000 + v.numbers[2] * 2000 + v.numbers[3] * 2 + IF v.pre THEN 0 ELSE 1

\* What a client is told is true of what happened: an error that may not be retried
\* means that nothing was done, a success that it was done; a call that was done came
\* from a launcher that is new enough and carried a file within the limit, and no
\* file within the limit is refused for its size (upload-tools, read-tools,
\* action-tools, delegateJsonApiRequest).
AnswersAreTrue ==
  \A r \in Connections : gate[r].pc = "closed" =>
    LET call == gate[r].call
        minimum == MinimumVersion(call.tool, call.dataset) IN
    /\ gate[r].applied => gate[r].answer = "ok" \/ gate[r].retryable
    /\ gate[r].answer = "ok" => gate[r].applied
    /\ gate[r].applied /\ minimum # NoVersion =>
         call.version # NoVersion /\ VersionRank(call.version) >= VersionRank(minimum)
    /\ gate[r].applied /\ call.tool \in UploadTools => call.bytes <= MaxUploadBytes
    /\ gate[r].answer = "too_large" => call.bytes > MaxUploadBytes
=============================================================================

-------------------------- MODULE LauncherTransfers --------------------------
(***************************************************************************)
(* The launcher's file transfers: the multipart upload of a local file,    *)
(* the download of a range of partitions file by file, and the download of *)
(* a prepared ZIP.  All three move several files or parts at once with     *)
(* mapConcurrent and retryTransfer; the caller's signal and the deadline   *)
(* may abort at any await, links expire, partitions are replaced while     *)
(* they are read, the local file is edited while it is sent, and requests  *)
(* may be applied though their answer is lost.                             *)
(*                                                                         *)
(* The service is what the launcher can see of it: the current partitions, *)
(* one ZIP, and the upload session of one idempotency key (UploadSession   *)
(* and PartitionDownload have the inside).                                 *)
(***************************************************************************)
EXTENDS Integers, FiniteSets

CONSTANTS
  Partitions,          \* numbers of the partitions in the requested range
  MaxVersion,          \* bound: publications of a partition
  Bundle,              \* partition -> version: the entries of the prepared ZIP
  LastPart,            \* parts of the local file
  PageSize,            \* parts per page of a session
  UploadConcurrency, DownloadConcurrency,
  MaxTries,            \* tries of one file or part (3 in retryTransfer)
  MaxTroubles          \* bound: edits, publications, expiries and deaths

ASSUME TransferAssumption ==
  /\ Partitions \subseteq Nat \ {0}
  /\ DOMAIN Bundle \subseteq Partitions /\ Bundle \in [DOMAIN Bundle -> Nat]
  /\ LastPart \in Nat \ {0} /\ PageSize \in Nat \ {0} /\ MaxVersion \in Nat

VARIABLES
  published,   \* partition -> version the service has current; 0: none
  stale,       \* the links of the manifest in hand have expired
  directory,   \* the extract directory of this call: name -> what is in the file
  litter,      \* a directory that a dead process left behind
  localFile,   \* the local file: its bytes and its time stamp
  session,     \* the upload session on the service
  job,         \* the tool call in progress
  work,        \* the files or parts that mapConcurrent moves for it
  result,      \* how the last call ended
  lost,        \* ghost: the answer to the create, the cancel or the process itself was lost
  troubles

transferVars == <<published, stale, directory, litter, localFile, session, job, work, result, lost, troubles>>
serviceVars == <<published, stale, localFile, session>>

Resting  == [kind |-> "none", pc |-> "rest"]
NoDirectory   == [none |-> "absent"]
Empty    == [n \in {} |-> 0]
ManifestFile == -1       \* the file name manifest.json
Zipped   == 0            \* the archive, as an item and as a file name
NoSession == [status |-> "none"]

With(f, n, what) == [k \in DOMAIN f \cup {n} |-> IF k = n THEN what ELSE f[k]]
Without(f, n)    == [k \in DOMAIN f \ {n} |-> f[k]]

Trouble == troubles < MaxTroubles /\ troubles' = troubles + 1

-----------------------------------------------------------------------------
(***************************************************************************)
(* mapConcurrent and retryTransfer.  items are taken in order by a bounded *)
(* number of workers; the first failure aborts the others; the call goes   *)
(* on when all have settled.  active counts the tries of what is moving.   *)
(***************************************************************************)
Moving(left, active, failure) == [left |-> left, active |-> active, failure |-> failure]

Concurrent(items) == Moving(items, Empty, "none")

AtRest == Concurrent({})

ConcurrencyLimit == IF job.kind = "upload" THEN UploadConcurrency ELSE DownloadConcurrency

Put(name, what) == IF job.kind = "upload" THEN directory ELSE With(directory, name, what)

\* The ways one attempt may end badly: a network error or 5xx, an expired link,
\* anything else (a checksum that does not match, a missing object or session).
Ailments == {"transient", "error"} \cup (IF stale THEN {"forbidden"} ELSE {})

TakeItem ==
  /\ job.pc = "transfer" /\ work.failure = "none"
  /\ Cardinality(DOMAIN work.active) < ConcurrencyLimit
  /\ \E i \in work.left :
       /\ \A k \in work.left : i <= k
       /\ work' = Moving(work.left \ {i}, With(work.active, i, 1), work.failure)
       /\ directory' = Put(i, "partial")
  /\ UNCHANGED <<serviceVars, litter, job, result, lost, troubles>>

\* The failure that stopped the others is the one reported.
FirstOf(failure) == IF work.failure = "none" THEN failure ELSE work.failure

\* Only transient failures are tried again, at most twice; an aborted worker stops.
Retryable(i, ailment) ==
  ailment = "transient" /\ work.active[i] < MaxTries /\ work.failure = "none"

ItemFails(i, ailment) ==
  /\ job.pc = "transfer" /\ i \in DOMAIN work.active
  /\ work' = IF Retryable(i, ailment) THEN Moving(work.left, With(work.active, i, work.active[i] + 1), work.failure)
             ELSE Moving(work.left, Without(work.active, i), FirstOf(ailment))
  /\ UNCHANGED <<serviceVars, directory, litter, job, result, lost, troubles>>

\* uploadPart: the part carries the bytes the file has now, into an open session.
PartDone(i) ==
  /\ job.pc = "transfer" /\ job.kind = "upload" /\ i \in DOMAIN work.active
  /\ session.status = "uploading"
  /\ session' = [session EXCEPT !.parts = With(session.parts, i, localFile.bytes)]
  /\ work' = Moving(work.left, Without(work.active, i), work.failure)
  /\ UNCHANGED <<published, stale, localFile, directory, litter, job, result, lost, troubles>>

\* downloadVerified: what is kept has the size and the checksum of the manifest.
FileDone(i) ==
  /\ job.pc = "transfer" /\ job.kind # "upload" /\ i \in DOMAIN work.active
  /\ ~stale
  /\ directory' = Put(i, IF i = Zipped THEN "zip" ELSE job.manifest[i])
  /\ work' = Moving(work.left, Without(work.active, i), work.failure)
  /\ UNCHANGED <<serviceVars, litter, job, result, lost, troubles>>

\* The caller's signal or the deadline of the call.
Aborts ==
  /\ job.pc \notin {"rest", "cancel", "failed"}
  /\ IF job.pc = "transfer"
     THEN work' = Moving(work.left, work.active, FirstOf("error")) /\ UNCHANGED job
     ELSE job' = [job EXCEPT !.pc = "failed"] /\ UNCHANGED work
  /\ UNCHANGED <<serviceVars, directory, litter, result, lost, troubles>>

Settled == job.pc = "transfer" /\ DOMAIN work.active = {} /\ (work.failure # "none" \/ work.left = {})

ApiOutcomes == {"ok", "lost", "refused"}

-----------------------------------------------------------------------------
(***************************************************************************)
(* Downloads.                                                              *)
(***************************************************************************)

\* A directory that was left behind is removed once it is a day old.
cleanupStaleExtractDirectories(aged) == litter /\ ~aged

StartDownload(kind) ==
  /\ job = Resting
  /\ \E aged \in BOOLEAN : litter' = cleanupStaleExtractDirectories(aged)
  /\ directory' = Empty
  /\ job' = [kind |-> kind, pc |-> "manifest", again |-> FALSE]
  /\ result' = "none"
  /\ UNCHANGED <<serviceVars, work, lost, troubles>>

Current == {p \in Partitions : published[p] > 0}

\* requestManifest: one read of the service, with fresh links, checked against
\* the requested scope and its own totals.
RequestManifest ==
  /\ job.pc = "manifest" /\ job.kind = "range"
  /\ job' = [kind |-> job.kind, pc |-> "transfer", again |-> job.again,
             manifest |-> [p \in Current |-> published[p]]]
  /\ work' = Concurrent(Current)
  /\ stale' = FALSE
  /\ UNCHANGED <<published, localFile, session, directory, litter, result, lost, troubles>>

\* downloadPartitionBundle: metadata of the package; an empty one has no archive.
RequestBundle ==
  /\ job.pc = "manifest" /\ job.kind = "bundle"
  /\ \/ /\ job' = [kind |-> job.kind, pc |-> "transfer", again |-> FALSE, manifest |-> Bundle]
        /\ work' = Concurrent({Zipped})
     \/ /\ job' = [kind |-> job.kind, pc |-> "write", again |-> FALSE, manifest |-> Empty]
        /\ UNCHANGED work
  /\ stale' = FALSE
  /\ UNCHANGED <<published, localFile, session, directory, litter, result, lost, troubles>>

\* The request fails, or validateMetadata refuses what it answers.
RequestFails ==
  /\ job.pc = "manifest"
  /\ job' = [job EXCEPT !.pc = "failed"]
  /\ UNCHANGED <<serviceVars, work, directory, litter, result, lost, troubles>>

WipedNot(d) == d

\* rm and mkdir before the second manifest.
Wiped(d) == Empty

\* An expired link in a range download: start over with a new manifest, once.
StartsOver == job.kind = "range" /\ work.failure = "forbidden" /\ ~job.again

DownloadSettles ==
  /\ job.kind # "upload" /\ Settled
  /\ IF StartsOver
     THEN /\ directory' = Wiped(directory)
          /\ job' = [kind |-> job.kind, pc |-> "manifest", again |-> TRUE]
     ELSE /\ job' = [job EXCEPT !.pc = IF work.failure # "none" THEN "failed"
                                       ELSE IF job.kind = "bundle" THEN "extract" ELSE "write"]
          /\ UNCHANGED directory
  /\ work' = AtRest
  /\ UNCHANGED <<serviceVars, litter, result, lost, troubles>>

\* extractArchive: entries, totals and the manifest are checked, then the files are
\* written one after the other, each verified; the archive is removed at the end.
ExtractFile ==
  /\ job.pc = "extract"
  /\ LET left == DOMAIN job.manifest \ DOMAIN directory
     IN  IF left = {}
         THEN /\ directory' = Without(directory, Zipped)
              /\ job' = [job EXCEPT !.pc = "write"]
         ELSE /\ \E p \in left : directory' = Put(p, job.manifest[p])
              /\ UNCHANGED job
  /\ UNCHANGED <<serviceVars, work, litter, result, lost, troubles>>

\* The archive's entries or its manifest do not match the metadata, or an entry
\* is not what the manifest says; files may have been written already.
ArchiveRefused ==
  /\ job.pc = "extract"
  /\ job' = [job EXCEPT !.pc = "failed"]
  /\ UNCHANGED <<serviceVars, work, directory, litter, result, lost, troubles>>

\* manifest.json is written last.
WriteManifest ==
  /\ job.pc = "write"
  /\ directory' = Put(ManifestFile, job.manifest)
  /\ result' = "directory" /\ job' = Resting
  /\ UNCHANGED <<serviceVars, work, litter, lost, troubles>>

-----------------------------------------------------------------------------
(***************************************************************************)
(* Upload.                                                                 *)
(***************************************************************************)

\* The file is measured and hashed, then the session is asked for.
StartUpload ==
  /\ job = Resting
  /\ job' = [kind |-> "upload", pc |-> "create", sum |-> localFile.bytes, stamp |-> localFile.stamp]
  /\ directory' = NoDirectory
  /\ result' = "none"
  /\ UNCHANGED <<serviceVars, work, litter, lost, troubles>>

Page(after) == {n \in 1..LastPart : n > after /\ n <= after + PageSize}

SendPage(after) ==
  /\ job' = [kind |-> "upload", pc |-> "transfer", sum |-> job.sum, stamp |-> job.stamp, after |-> after]
  /\ work' = Concurrent(Page(after))

\* One session per idempotency key; the same key with other bytes is refused.  A
\* session that is no longer open is the answer.  An error here ends the call
\* without a cancel: there is no session to name.
CreateSession(outcome) ==
  /\ job.pc = "create"
  /\ LET mine == IF session = NoSession
                 THEN [status |-> "uploading", digest |-> job.sum, parts |-> Empty] ELSE session
         fits == mine.digest = job.sum
     IN  /\ session' = IF outcome = "refused" \/ ~fits THEN session ELSE mine
         /\ lost' = IF fits /\ outcome # "refused" THEN outcome = "lost" ELSE lost
         /\ IF outcome # "ok" \/ ~fits THEN job' = Resting /\ result' = "error" /\ UNCHANGED work
            ELSE IF mine.status # "uploading" THEN job' = Resting /\ result' = "answered" /\ UNCHANGED work
            ELSE SendPage(0) /\ UNCHANGED result
  /\ UNCHANGED <<published, stale, localFile, directory, litter, troubles>>

UploadSettles ==
  /\ job.kind = "upload" /\ Settled
  /\ job' = [job EXCEPT !.pc = IF work.failure # "none" THEN "failed"
                               ELSE IF job.after + PageSize < LastPart THEN "page" ELSE "stat"]
  /\ work' = AtRest
  /\ UNCHANGED <<serviceVars, directory, litter, result, lost, troubles>>

NextPage ==
  /\ job.pc = "page"
  /\ \/ session.status = "uploading"
        /\ SendPage(job.after + PageSize)
     \/ job' = [job EXCEPT !.pc = "failed"] /\ UNCHANGED work
  /\ UNCHANGED <<serviceVars, directory, litter, result, lost, troubles>>

\* A file whose size or time stamp changed since it was hashed is not completed.
StatAgain ==
  /\ job.pc = "stat"
  /\ job' = [job EXCEPT !.pc = IF localFile.stamp = job.stamp THEN "complete" ELSE "failed"]
  /\ UNCHANGED <<serviceVars, work, directory, litter, result, lost, troubles>>

\* The service assembles the parts and compares the checksum before it queues.
CompleteSession(outcome) ==
  /\ job.pc = "complete"
  /\ LET open == session.status = "uploading" /\ outcome # "refused"
         good == \A n \in 1..LastPart : n \in DOMAIN session.parts /\ session.parts[n] = session.digest
     IN  /\ session' = IF ~open THEN session
                       ELSE [session EXCEPT !.status = IF good THEN "queued" ELSE "failed"]
         /\ IF open /\ good /\ outcome = "ok"
            THEN job' = Resting /\ result' = "answered"
            ELSE job' = [job EXCEPT !.pc = "failed"] /\ UNCHANGED result
  /\ UNCHANGED <<published, stale, localFile, work, directory, litter, lost, troubles>>

\* DELETE, without the caller's signal; its own error is swallowed.
CancelSession(outcome) ==
  /\ job.pc = "cancel"
  /\ session' = IF session.status = "uploading" /\ outcome # "refused"
                THEN [session EXCEPT !.status = "cancelled"] ELSE session
  /\ lost' = (lost \/ outcome = "refused")
  /\ job' = Resting /\ result' = "error"
  /\ UNCHANGED <<published, stale, localFile, work, directory, litter, troubles>>

HasSession == job.kind = "upload" /\ "after" \in DOMAIN job

\* The catch block: a download removes its directory; an upload that has been
\* given its session cancels it, whatever went wrong.
Fails ==
  /\ job.pc = "failed"
  /\ IF HasSession
     THEN job' = [job EXCEPT !.pc = "cancel"] /\ UNCHANGED <<directory, result>>
     ELSE job' = Resting /\ result' = "error" /\ directory' = NoDirectory
  /\ UNCHANGED <<serviceVars, work, litter, lost, troubles>>

-----------------------------------------------------------------------------
Publish(p) ==
  /\ Trouble
  /\ \E v \in 0..MaxVersion : v # published[p] /\ published' = [published EXCEPT ![p] = v]
  /\ UNCHANGED <<stale, localFile, session, directory, litter, job, work, result, lost>>

LinksExpire ==
  /\ job.pc = "transfer" /\ job.kind # "upload" /\ ~stale /\ Trouble
  /\ stale' = TRUE
  /\ UNCHANGED <<published, localFile, session, directory, litter, job, work, result, lost>>

\* The file is edited while it is sent; the time stamp may be too coarse to show it.
Edit ==
  /\ Trouble
  /\ \E shows \in BOOLEAN :
       localFile' = [bytes |-> localFile.bytes + 1, stamp |-> IF shows THEN localFile.stamp + 1 ELSE localFile.stamp]
  /\ UNCHANGED <<published, stale, session, directory, litter, job, work, result, lost>>

\* The service gives up a session that stays open.
SessionSwept ==
  /\ session.status = "uploading" /\ Trouble
  /\ session' = [session EXCEPT !.status = "expired"]
  /\ UNCHANGED <<published, stale, localFile, directory, litter, job, work, result, lost>>

\* The launcher process dies: its directory stays on the disk.
ProcessDies ==
  /\ job # Resting /\ Trouble
  /\ job' = Resting /\ work' = AtRest /\ result' = "died" /\ lost' = TRUE
  /\ litter' = (litter \/ job.kind # "upload")
  /\ directory' = NoDirectory
  /\ UNCHANGED serviceVars

TransfersInit ==
  /\ published \in [Partitions -> {1}] /\ stale = FALSE
  /\ directory = NoDirectory /\ litter = FALSE
  /\ localFile = [bytes |-> 1, stamp |-> 1] /\ session = NoSession
  /\ job = Resting /\ work = AtRest /\ result = "none" /\ lost = FALSE /\ troubles = 0

TransfersNext ==
  \/ TakeItem \/ Aborts
  \/ /\ job.pc = "transfer"
     /\ \E i \in DOMAIN work.active :
          \/ PartDone(i) \/ FileDone(i) \/ \E ailment \in Ailments : ItemFails(i, ailment)
  \/ \E kind \in {"range", "bundle"} : StartDownload(kind)
  \/ RequestManifest \/ RequestBundle \/ RequestFails \/ DownloadSettles \/ ExtractFile
  \/ ArchiveRefused \/ WriteManifest
  \/ StartUpload \/ UploadSettles \/ NextPage \/ StatAgain \/ Fails
  \/ \E outcome \in ApiOutcomes : CreateSession(outcome) \/ CompleteSession(outcome) \/ CancelSession(outcome)
  \/ \E p \in Partitions : Publish(p)
  \/ LinksExpire \/ Edit \/ SessionSwept \/ ProcessDies

TransfersSpec == TransfersInit /\ [][TransfersNext]_transferVars

-----------------------------------------------------------------------------
\* A directory that a download answers with holds the verified files of one
\* manifest, that manifest, and nothing else: no file of the manifest that was
\* given up when its links expired, no partial file, no archive; and a call that
\* failed leaves no directory (downloadPartitionDataset, downloadPartitionBundle).
TransferIsWhole ==
  /\ result = "directory" =>
       LET m == directory[ManifestFile]
       IN  directory = With(m, ManifestFile, m)
  /\ job = Resting /\ result = "error" => directory = NoDirectory

\* When an upload call has ended, its session is no longer open for parts: it was
\* queued, closed by the service or cancelled.  It stays open only if the create's
\* answer, the cancel or the process was lost (uploadPartitionDataset's catch
\* block, with the service expiring, completing or refusing underneath it).
UploadIsSettled ==
  job = Resting /\ ~lost => session = NoSession \/ session.status # "uploading"

\* What a transfer that has ended leaves behind, on either side.
FinishedTransfers == TransferIsWhole /\ UploadIsSettled
=============================================================================

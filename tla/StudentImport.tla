--------------------------- MODULE StudentImport ---------------------------
(***************************************************************************)
(* One student import job (StudentImportJob with its files and rows), the   *)
(* administrators who review it, and the import workers of all running      *)
(* backend instances.  Every database transaction and every single-row      *)
(* update is one action: admissionsTransaction runs at Serializable         *)
(* isolation and a rejected request leaves nothing behind.  What the code   *)
(* does between two database calls is where the other processes interleave. *)
(*                                                                          *)
(* Data abstracted: the values of a row are reduced to the verdict of       *)
(* inspectRow on them, and the row statuses INVALID, CONFLICT and           *)
(* REVIEW_REQUIRED, which the job logic never tells apart, are the one      *)
(* status "INVALID".                                                        *)
(*                                                                          *)
(* An operator X_Variant just before X is X with a bug in it: the variant   *)
(* a property of the runs must notice.  Nothing else uses it.               *)
(***************************************************************************)
EXTENDS Integers, FiniteSets

CONSTANTS
    Row,          \* rows of the sources, by sourceRef
    File,         \* uploaded source files
    FileOf,       \* the file each row is extracted from
    Worker,       \* worker loops, one per backend instance
    InlineLimit,  \* more staged rows than this are validated by a worker (200)
    MaxRevision,  \* bound on the requests of the administrators
    MaxFaults     \* bound on crashes and lost heartbeats

ASSUME ImportAssumption ==
    /\ FileOf \in [Row -> File]
    /\ IsFiniteSet(Row)
    /\ InlineLimit \in Nat
    /\ MaxRevision \in Nat
    /\ MaxFaults \in Nat

VARIABLES
    status,    \* StudentImportJob.status
    revision,  \* StudentImportJob.revision, the compare-and-set of lock()
    lease,     \* StudentImportJob.leaseToken, 0 when null
    leaseUntil,\* StudentImportJob.leaseUntil: null, in the future or in the past
    localOcr,  \* options.localOcr of the latest extraction request
    retained,  \* retainUntil has not passed
    file,      \* StudentImportFile.status and scanStatus
    purged,    \* files whose source bytes were deleted (deletedAt set)
    row,       \* StudentImportRow.status, "NONE" before the first extraction
    skip,      \* rows whose action is SKIP
    applied,   \* outstanding student writes made for a row
    pc,        \* where each worker is
    cand,      \* the job record a worker's findMany returned
    mine,      \* the lease token a worker claimed with, 0 when none
    left,      \* rows or files a worker has still to process
    cur,       \* the row or file a worker is on
    failed,    \* a worker's count of FAILED rows was not zero
    tokens,    \* random tokens drawn so far; the next one is fresh
    faults     \* faults so far

jobVars    == <<status, revision, lease, leaseUntil, localOcr, retained>>
stageVars  == <<file, purged, row, skip, applied>>
workerVars == <<pc, cand, mine, left, cur, failed, tokens>>
vars == <<jobVars, stageVars, workerVars, faults>>

----------------------------------------------------------------------------
(* Types *)

Mutable == {"UPLOADING", "REVIEW", "VALIDATED", "FAILED", "PARTIAL"}
Working == {"QUEUED", "PROCESSING", "VALIDATING", "COMMITTING"}
JobStatus == Mutable \cup Working \cup {"COMPLETED", "ROLLED_BACK"}

Unstaged == "NONE"
Final     == {"COMMITTED", "ROLLED_BACK"}
RowStatus == {Unstaged, "EXTRACTED", "VALID", "INVALID", "SKIPPED", "FAILED"} \cup Final

FileState ==
    [status : {"NONE", "QUARANTINED", "EXTRACTING", "EXTRACTED", "FAILED"},
     scan   : {"PENDING", "CLEAN", "INFECTED"}]

Nothing == "nothing"
NoJob == [status |-> "UPLOADING", token |-> 0, revision |-> 0, localOcr |-> FALSE]
Candidate == [status : JobStatus, token : Nat, revision : Nat, localOcr : BOOLEAN]

CommitSteps   == {"list", "rows", "mark", "finish"}
ExtractSteps  == {"open", "files", "scanned", "fileFail"}
ValidateSteps == {"validate", "release"}
Claimed == CommitSteps \cup ExtractSteps \cup ValidateSteps \cup {"fail"}
Step == Claimed \cup {"idle", "claim", "purge"}

TypeOK ==
    /\ status \in JobStatus
    /\ revision \in Nat
    /\ lease \in Nat
    /\ leaseUntil \in {"null", "future", "past"}
    /\ localOcr \in BOOLEAN
    /\ retained \in BOOLEAN
    /\ file \in [File -> FileState]
    /\ purged \in SUBSET File
    /\ row \in [Row -> RowStatus]
    /\ skip \in SUBSET Row
    /\ applied \in [Row -> Int]
    /\ pc \in [Worker -> Step]
    /\ cand \in [Worker -> Candidate]
    /\ mine \in [Worker -> Nat]
    /\ left \in [Worker -> SUBSET (Row \cup File)]
    /\ cur \in [Worker -> Row \cup File \cup {Nothing}]
    /\ failed \in [Worker -> BOOLEAN]
    /\ tokens \in Nat
    /\ faults \in Nat

(* The record create() inserts. *)
Init ==
    /\ status = "UPLOADING"
    /\ revision = 1
    /\ lease = 0
    /\ leaseUntil = "null"
    /\ localOcr \in BOOLEAN
    /\ retained = TRUE
    /\ file = [f \in File |-> [status |-> "NONE", scan |-> "PENDING"]]
    /\ purged = {}
    /\ row = [r \in Row |-> Unstaged]
    /\ skip = {}
    /\ applied = [r \in Row |-> 0]
    /\ pc = [w \in Worker |-> "idle"]
    /\ cand = [w \in Worker |-> NoJob]
    /\ mine = [w \in Worker |-> 0]
    /\ left = [w \in Worker |-> {}]
    /\ cur = [w \in Worker |-> Nothing]
    /\ failed = [w \in Worker |-> FALSE]
    /\ tokens = 0
    /\ faults = 0

Uploaded == {f \in File : file[f].status # "NONE"}
Staged == {r \in Row : row[r] # Unstaged}
RowsIn(s) == {r \in Row : row[r] = s}

----------------------------------------------------------------------------
(* Requests of the administrators.  Each carries the revision the client    *)
(* read; a request with another one, or for a job in another status, is     *)
(* refused by lock() and changes nothing.                                   *)

Lock(statuses) ==
    /\ status \in statuses
    /\ revision < MaxRevision
    /\ revision' = revision + 1

Upload(fs) ==
    /\ Lock({"UPLOADING"})
    /\ fs # {}
    /\ fs \cap Uploaded = {}
    /\ file' = [f \in File |-> IF f \in fs
                               THEN [status |-> "QUARANTINED", scan |-> "PENDING"]
                               ELSE file[f]]
    /\ UNCHANGED <<status, lease, leaseUntil, localOcr, retained, purged, row, skip,
                   applied, workerVars, faults>>

NothingWritten_Unchecked == TRUE
NothingWritten == RowsIn("COMMITTED") = {}

(* The lease fields are left as they are. *)
QueueExtraction(ocr) ==
    /\ Lock(Mutable)
    /\ retained
    /\ NothingWritten
    /\ Uploaded \ purged # {}
    /\ status' = "QUEUED"
    /\ localOcr' = ocr
    /\ UNCHANGED <<lease, leaseUntil, retained, stageVars, workerVars, faults>>

(* For all files, or for one: only the rows in scope are checked and reset. *)
ApplyMapping(fs) ==
    LET scope == {r \in Staged : FileOf[r] \in fs} IN
    /\ Lock({"REVIEW", "VALIDATED"})
    /\ scope \cap RowsIn("COMMITTED") = {}
    /\ row' = [r \in Row |-> IF r \in scope THEN "EXTRACTED" ELSE row[r]]
    /\ status' = "REVIEW"
    /\ UNCHANGED <<lease, leaseUntil, localOcr, retained, file, purged, skip, applied,
                   workerVars, faults>>

Editable_EvenFinal(r) == r \in Staged
Editable(r) == r \in Staged /\ row[r] \notin Final

EditRow(r, skipped) ==
    /\ Lock(Mutable)
    /\ Editable(r)
    /\ row' = [row EXCEPT ![r] = IF skipped THEN "SKIPPED" ELSE "EXTRACTED"]
    /\ skip' = IF skipped THEN skip \cup {r} ELSE skip \ {r}
    /\ status' = "REVIEW"
    /\ UNCHANGED <<lease, leaseUntil, localOcr, retained, file, purged, applied,
                   workerVars, faults>>

(* inspectRow on every row that is not final, then the staged capacity      *)
(* check; the verdicts depend on the values and the student directory.      *)
Checkable == {r \in Row : Editable(r)}
SourcesReady ==
    /\ Uploaded # {}
    /\ \A f \in Uploaded : file[f] = [status |-> "EXTRACTED", scan |-> "CLEAN"]

Verdicts_JobStatus(valid) ==
    [r \in Row |-> IF r \notin Checkable THEN row[r]
                   ELSE IF r \in valid THEN "VALIDATED" ELSE "REVIEW"]
Verdicts(valid) ==
    [r \in Row |-> IF r \notin Checkable THEN row[r]
                   ELSE IF r \in skip THEN "SKIPPED"
                   ELSE IF r \in valid THEN "VALID"
                   ELSE "INVALID"]

Inspect ==
    \E valid \in SUBSET (Checkable \ skip) :
        /\ row' = Verdicts(valid)
        /\ status' = IF \E r \in Row : row'[r] \in {"INVALID", "EXTRACTED"}
                     THEN "REVIEW" ELSE "VALIDATED"

ValidateNow ==
    /\ Lock(Mutable)
    /\ Cardinality(Staged) <= InlineLimit
    /\ SourcesReady
    /\ Inspect
    /\ UNCHANGED <<lease, leaseUntil, localOcr, retained, file, purged, skip, applied,
                   workerVars, faults>>

ValidateLater ==
    /\ Lock(Mutable)
    /\ Cardinality(Staged) > InlineLimit
    /\ status' = "VALIDATING"
    /\ lease' = 0
    /\ leaseUntil' = "null"
    /\ UNCHANGED <<localOcr, retained, stageVars, workerVars, faults>>

(* Creates the proposed sections and reopens the job for review. *)
ApproveSections ==
    /\ Lock(Mutable)
    /\ status' = "REVIEW"
    /\ UNCHANGED <<lease, leaseUntil, localOcr, retained, stageVars, workerVars, faults>>

Approvable_Mutable == Mutable
Approvable == {"VALIDATED"}

ApproveCommit ==
    /\ Lock(Approvable)
    /\ RowsIn("VALID") # {}
    /\ status' = "COMMITTING"
    /\ lease' = 0
    /\ leaseUntil' = "null"
    /\ UNCHANGED <<localOcr, retained, stageVars, workerVars, faults>>

(* The rows whose student has not been changed since are taken back. *)
Rollback(safe) ==
    /\ Lock({"COMPLETED", "PARTIAL", "ROLLED_BACK"})
    /\ safe \subseteq RowsIn("COMMITTED")
    /\ row' = [r \in Row |-> IF r \in safe THEN "ROLLED_BACK" ELSE row[r]]
    /\ applied' = [r \in Row |-> IF r \in safe THEN applied[r] - 1 ELSE applied[r]]
    /\ status' = IF RowsIn("COMMITTED") # safe THEN "PARTIAL" ELSE "ROLLED_BACK"
    /\ UNCHANGED <<lease, leaseUntil, localOcr, retained, file, purged, skip,
                   workerVars, faults>>

----------------------------------------------------------------------------
(* The worker loop: tick() *)

Goto(w, step) == pc' = [pc EXCEPT ![w] = step]

(* The worker turns to the next candidate and forgets this one. *)
Leave(w) ==
    /\ Goto(w, "idle")
    /\ cand' = [cand EXCEPT ![w] = NoJob]
    /\ mine' = [mine EXCEPT ![w] = 0]
    /\ left' = [left EXCEPT ![w] = {}]
    /\ cur' = [cur EXCEPT ![w] = Nothing]
    /\ failed' = [failed EXCEPT ![w] = FALSE]

Claimable_NeverLeased == status \in Working /\ leaseUntil = "null"
Claimable == status \in Working /\ leaseUntil # "future"

(* findMany: up to four jobs are read at once and then served one by one,   *)
(* so any amount of time may pass before this one is claimed.               *)
Find(w) ==
    /\ pc[w] = "idle"
    /\ Claimable
    /\ cand' = [cand EXCEPT ![w] = [status |-> status, token |-> lease,
                                    revision |-> revision, localOcr |-> localOcr]]
    /\ Goto(w, "claim")
    /\ UNCHANGED <<jobVars, stageVars, mine, left, cur, failed, tokens, faults>>

FirstStep(s) == IF s = "COMMITTING" THEN "list"
                ELSE IF s = "VALIDATING" THEN "validate"
                ELSE "open"

(* updateMany compares the status and the token of the record found.        *)
Claim(w) ==
    /\ pc[w] = "claim"
    /\ Claimable
    /\ status = cand[w].status
    /\ lease = cand[w].token
    /\ status' = IF status = "QUEUED" THEN "PROCESSING" ELSE status
    /\ tokens' = tokens + 1
    /\ lease' = tokens + 1
    /\ leaseUntil' = "future"
    /\ mine' = [mine EXCEPT ![w] = tokens + 1]
    /\ Goto(w, FirstStep(status))
    /\ UNCHANGED <<revision, localOcr, retained, stageVars, cand, left, cur,
                   failed, faults>>

LoseClaim(w) ==
    /\ pc[w] = "claim"
    /\ ~ (Claimable /\ status = cand[w].status /\ lease = cand[w].token)
    /\ Leave(w)
    /\ UNCHANGED <<jobVars, stageVars, tokens, faults>>

Holds(w) == lease = mine[w]

Heartbeat(w) ==
    /\ pc[w] \in Claimed
    /\ Holds(w)
    /\ leaseUntil = "past"
    /\ leaseUntil' = "future"
    /\ UNCHANGED <<status, revision, lease, localOcr, retained, stageVars,
                   workerVars, faults>>

OwnsClaim_Unchecked(w) == TRUE
OwnsClaim(w) == Holds(w)

(* Every update that ends a claim is conditional on the token. *)
Finalise(w, s) ==
    /\ IF OwnsClaim(w)
       THEN /\ status' = s
            /\ revision' = revision + 1
            /\ lease' = 0
            /\ leaseUntil' = "null"
       ELSE UNCHANGED <<status, revision, lease, leaseUntil>>
    /\ Leave(w)
    /\ UNCHANGED <<localOcr, retained, stageVars, tokens, faults>>

Fail(w) ==
    /\ pc[w] = "fail"
    /\ Finalise(w, "FAILED")

----------------------------------------------------------------------------
(* COMMITTING *)

ListRows(w) ==
    /\ pc[w] = "list"
    /\ left' = [left EXCEPT ![w] = RowsIn("VALID")]
    /\ Goto(w, "rows")
    /\ UNCHANGED <<jobVars, stageVars, cand, mine, cur, failed, tokens, faults>>

Done(w, x) == left' = [left EXCEPT ![w] = @ \ {x}]

(* The student operation and the staging marker of one row, in one          *)
(* transaction.  The reply may be lost after it has committed.              *)
CommitRow(w, r) ==
    /\ pc[w] = "rows"
    /\ r \in left[w] \cap Row
    /\ Holds(w)
    /\ status = "COMMITTING"
    /\ row[r] = "VALID"
    /\ row' = [row EXCEPT ![r] = "COMMITTED"]
    /\ applied' = [applied EXCEPT ![r] = @ + 1]
    /\ \/ Done(w, r) /\ UNCHANGED <<pc, cur>>
       \/ Goto(w, "mark") /\ cur' = [cur EXCEPT ![w] = r] /\ UNCHANGED left
    /\ UNCHANGED <<jobVars, file, purged, skip, cand, mine, failed, tokens, faults>>

(* The row is no longer VALID: commitRow returns without an error. *)
SkipRow(w, r) ==
    /\ pc[w] = "rows"
    /\ r \in left[w] \cap Row
    /\ Holds(w)
    /\ status = "COMMITTING"
    /\ row[r] # "VALID"
    /\ Done(w, r)
    /\ UNCHANGED <<jobVars, stageVars, pc, cand, mine, cur, failed, tokens, faults>>

(* A lost lease, a new conflict, a revoked permission or a serialization    *)
(* failure: the transaction throws and writes nothing.                      *)
CommitRowThrows(w, r) ==
    /\ pc[w] = "rows"
    /\ r \in left[w] \cap Row
    /\ Goto(w, "mark")
    /\ cur' = [cur EXCEPT ![w] = r]
    /\ UNCHANGED <<jobVars, stageVars, cand, mine, left, failed, tokens, faults>>

(* The catch of the row loop compares the status of the row, not the lease. *)
MarkFailed(w) ==
    /\ pc[w] = "mark"
    /\ row' = [r \in Row |-> IF r = cur[w] /\ row[r] = "VALID" THEN "FAILED" ELSE row[r]]
    /\ Done(w, cur[w])
    /\ cur' = [cur EXCEPT ![w] = Nothing]
    /\ Goto(w, "rows")
    /\ UNCHANGED <<jobVars, file, purged, skip, applied, cand, mine, failed, tokens,
                   faults>>

AnyFailed_StillValid == RowsIn("VALID") # {}
AnyFailed == RowsIn("FAILED") # {}

CountFailed(w) ==
    /\ pc[w] = "rows"
    /\ left[w] = {}
    /\ failed' = [failed EXCEPT ![w] = AnyFailed]
    /\ Goto(w, "finish")
    /\ UNCHANGED <<jobVars, stageVars, cand, mine, left, cur, tokens, faults>>

Finish(w) ==
    /\ pc[w] = "finish"
    /\ Finalise(w, IF failed[w] THEN "PARTIAL" ELSE "COMPLETED")

----------------------------------------------------------------------------
(* VALIDATING *)

(* validate() in the background locks on the revision the worker found and  *)
(* on the status, not on the lease.                                         *)
ValidateBackground(w) ==
    /\ pc[w] = "validate"
    /\ status = "VALIDATING"
    /\ revision = cand[w].revision
    /\ revision' = revision + 1
    /\ SourcesReady
    /\ Inspect
    /\ Goto(w, "release")
    /\ UNCHANGED <<lease, leaseUntil, localOcr, retained, file, purged, skip, applied,
                   cand, mine, left, cur, failed, tokens, faults>>

(* The permission was revoked, the lock was refused, a source is not ready, *)
(* or the transaction failed or timed out.                                  *)
ValidateThrows(w) ==
    /\ pc[w] = "validate"
    /\ Goto(w, "fail")
    /\ UNCHANGED <<jobVars, stageVars, cand, mine, left, cur, failed, tokens, faults>>

Release(w) ==
    /\ pc[w] = "release"
    /\ IF Holds(w) THEN lease' = 0 /\ leaseUntil' = "null" ELSE UNCHANGED <<lease, leaseUntil>>
    /\ Leave(w)
    /\ UNCHANGED <<status, revision, localOcr, retained, stageVars, tokens, faults>>

----------------------------------------------------------------------------
(* PROCESSING: processExtraction *)

OpenFiles(w) ==
    /\ pc[w] = "open"
    /\ left' = [left EXCEPT ![w] = Uploaded]
    /\ Goto(w, "files")
    /\ UNCHANGED <<jobVars, stageVars, cand, mine, cur, failed, tokens, faults>>

(* The requester's permission was revoked or the limits were lowered. *)
OpenThrows(w) ==
    /\ pc[w] = "open"
    /\ Goto(w, "fail")
    /\ UNCHANGED <<jobVars, stageVars, cand, mine, left, cur, failed, tokens, faults>>

(* Read, check and scan one source.  Its status is updated without a lease. *)
(* A source already gone when the files were listed fails the job and not   *)
(* the file.                                                                *)
ScanFile(w, f) ==
    /\ pc[w] = "files"
    /\ f \in left[w] \cap File
    /\ cur' = [cur EXCEPT ![w] = f]
    /\ \/ /\ f \notin purged
          /\ \/ /\ file' = [file EXCEPT ![f] = [status |-> "EXTRACTING", scan |-> "CLEAN"]]
                /\ Goto(w, "scanned")
             \/ /\ file' = [file EXCEPT ![f] = [status |-> "QUARANTINED", scan |-> "INFECTED"]]
                /\ Goto(w, "fileFail")
       \/ UNCHANGED file /\ Goto(w, "fileFail")
       \/ f \in purged /\ UNCHANGED file /\ Goto(w, "fail")
    /\ UNCHANGED <<jobVars, purged, row, skip, applied, cand, mine, left, failed,
                   tokens, faults>>

FileMarked(f, s) ==
    [g \in File |-> [status |-> IF g = f THEN s ELSE file[g].status,
                     scan   |-> file[g].scan]]

(* Extraction with the options of the record found, then one transaction    *)
(* that checks the lease and replaces the rows of the file.  The reply may  *)
(* be lost after it has committed.                                          *)
ExtractFile(w) ==
    /\ pc[w] = "scanned"
    /\ Holds(w)
    /\ LET mineRows == {r \in Row : FileOf[r] = cur[w]} IN
       /\ row' = [r \in Row |-> IF r \in mineRows THEN "EXTRACTED" ELSE row[r]]
       /\ skip' = skip \ mineRows
    /\ file' = FileMarked(cur[w], "EXTRACTED")
    /\ \/ Done(w, cur[w]) /\ cur' = [cur EXCEPT ![w] = Nothing] /\ Goto(w, "files")
       \/ UNCHANGED <<left, cur>> /\ Goto(w, "fileFail")
    /\ UNCHANGED <<jobVars, purged, applied, cand, mine, failed, tokens, faults>>

ExtractThrows(w) ==
    /\ pc[w] = "scanned"
    /\ Goto(w, "fileFail")
    /\ UNCHANGED <<jobVars, stageVars, cand, mine, left, cur, failed, tokens, faults>>

(* The catch around one file: the mark needs no lease; the error goes on.   *)
MarkFileFailed(w) ==
    /\ pc[w] = "fileFail"
    /\ file' = FileMarked(cur[w], "FAILED")
    /\ Goto(w, "fail")
    /\ UNCHANGED <<jobVars, purged, row, skip, applied, cand, mine, left, cur,
                   failed, tokens, faults>>

FinishExtraction(w) ==
    /\ pc[w] = "files"
    /\ left[w] = {}
    /\ Finalise(w, "REVIEW")

----------------------------------------------------------------------------
(* Expiry of the private sources *)

ExpireRetention ==
    /\ retained
    /\ retained' = FALSE
    /\ UNCHANGED <<status, revision, lease, leaseUntil, localOcr, stageVars, workerVars, faults>>

Purgeable_AnyStatus == ~retained
Purgeable == ~retained /\ status \notin Working

PurgeFind(w) ==
    /\ pc[w] = "idle"
    /\ Purgeable
    /\ Uploaded \ purged # {}
    /\ left' = [left EXCEPT ![w] = Uploaded \ purged]
    /\ Goto(w, "purge")
    /\ UNCHANGED <<jobVars, stageVars, cand, mine, cur, failed, tokens, faults>>

(* unlink, then deletedAt: an unlink repeated after a crash finds nothing,  *)
(* which the code accepts, so the two are one step.                         *)
PurgeFile(w, f) ==
    /\ pc[w] = "purge"
    /\ f \in left[w] \cap File
    /\ purged' = purged \cup {f}
    /\ Done(w, f)
    /\ Goto(w, IF left[w] = {f} THEN "idle" ELSE "purge")
    /\ UNCHANGED <<jobVars, file, row, skip, applied, cand, mine, cur, failed,
                   tokens, faults>>

----------------------------------------------------------------------------
(* Faults *)

Crash(w) ==
    /\ pc[w] # "idle"
    /\ faults < MaxFaults
    /\ faults' = faults + 1
    /\ Leave(w)
    /\ UNCHANGED <<jobVars, stageVars, tokens>>

(* A database call outside the loop over rows and the loop over files fails:  *)
(* the claim ends as FAILED, with whatever was written so far.  An extraction *)
(* that found no row at all ends here too.                                  *)
DatabaseError(w) ==
    /\ \/ pc[w] \in {"list", "mark", "finish", "release", "fileFail"}
       \/ pc[w] \in {"rows", "files"} /\ left[w] = {}
    /\ faults < MaxFaults
    /\ faults' = faults + 1
    /\ Goto(w, "fail")
    /\ UNCHANGED <<jobVars, stageVars, cand, mine, left, cur, failed, tokens>>

Orphan == \A w \in Worker : mine[w] # lease

(* leaseUntil passes: the holder is gone, or its heartbeats are failing or  *)
(* late.                                                                    *)
ExpireLease ==
    /\ leaseUntil = "future"
    /\ leaseUntil' = "past"
    /\ IF Orphan THEN UNCHANGED faults
                 ELSE faults < MaxFaults /\ faults' = faults + 1
    /\ UNCHANGED <<status, revision, lease, localOcr, retained, stageVars, workerVars>>

----------------------------------------------------------------------------

Administrator ==
    \/ \E fs \in SUBSET File : Upload(fs)
    \/ \E ocr \in BOOLEAN : QueueExtraction(ocr)
    \/ ApplyMapping(File)
    \/ \E f \in Uploaded : ApplyMapping({f})
    \/ \E r \in Row, skipped \in BOOLEAN : EditRow(r, skipped)
    \/ ValidateNow
    \/ ValidateLater
    \/ ApproveSections
    \/ ApproveCommit
    \/ \E safe \in SUBSET Row : Rollback(safe)

(* The steps a running worker takes of its own accord. *)
Work(w) ==
    \/ Find(w) \/ Claim(w) \/ LoseClaim(w) \/ Fail(w)
    \/ ListRows(w) \/ CountFailed(w) \/ Finish(w) \/ MarkFailed(w)
    \/ \E r \in Row : CommitRow(w, r) \/ SkipRow(w, r) \/ CommitRowThrows(w, r)
    \/ ValidateBackground(w) \/ ValidateThrows(w) \/ Release(w)
    \/ OpenFiles(w) \/ OpenThrows(w)
    \/ \E f \in File : ScanFile(w, f)
    \/ ExtractFile(w) \/ ExtractThrows(w) \/ MarkFileFailed(w) \/ FinishExtraction(w)

Purge(w) == PurgeFind(w) \/ \E f \in File : PurgeFile(w, f)

Next ==
    \/ Administrator
    \/ \E w \in Worker : Work(w) \/ Heartbeat(w) \/ Purge(w)
                          \/ Crash(w) \/ DatabaseError(w)
    \/ ExpireLease
    \/ ExpireRetention

Spec == Init /\ [][Next]_vars

(* setInterval runs tick() every ten seconds on every live instance and a   *)
(* lease that nobody renews runs out; nothing makes an administrator act.   *)
Fairness ==
    /\ \A w \in Worker : WF_vars(Work(w) \/ Purge(w))
    /\ WF_vars(ExpireLease /\ Orphan)

FairSpec == Spec /\ Fairness

----------------------------------------------------------------------------
(* Properties *)

(* A job reported COMPLETED has no row that was neither written nor left    *)
(* out on purpose, whatever late workers of lost leases have marked         *)
(* meanwhile (the count of FAILED rows and the final update in tick() are   *)
(* two statements).                                                         *)
CompletedIsComplete ==
    status = "COMPLETED" => \A r \in Staged : row[r] \in Final \cup {"SKIPPED"}

(* A row marked COMMITTED stands for exactly one student write that was not *)
(* rolled back, and no other row for any: no crash, lost reply, second      *)
(* worker, re-extraction or retry repeats a write or forgets one.  A row    *)
(* without an admission number has nothing else to stop its student from    *)
(* being created twice.                                                     *)
OnceOnly ==
    \A r \in Row : applied[r] = IF row[r] = "COMMITTED" THEN 1 ELSE 0

(* The worker deletes and recreates the rows of a file while it extracts:   *)
(* it must never do so to a job with rows that were written or taken back.  *)
(* queueExtraction looks for COMMITTED rows only.                           *)
ExtractionErasesNoHistory ==
    status \in {"QUEUED", "PROCESSING"} => \A r \in Row : row[r] \notin Final

(* While a commit runs, every row has been inspected since it was extracted,*)
(* mapped or edited, and none was found wanting.                            *)
CommitIsReviewed ==
    status = "COMMITTING" => \A r \in Row : row[r] \notin {"EXTRACTED", "INVALID"}

(* An extraction never meets a source that retention has removed: the purge *)
(* lists its files before it unlinks them, and an administrator may ask for *)
(* an extraction in between.                                                *)
SourcesPresent ==
    status \in {"QUEUED", "PROCESSING"} => Uploaded \cap purged = {}

(* COMPLETED is left by a rollback only: nothing a late worker does         *)
(* reopens or fails it.                                                     *)
CompletedIsFinal ==
    [][status = "COMPLETED" => status' \in {"COMPLETED", "PARTIAL", "ROLLED_BACK"}]_status

(* A queued or claimed job comes to rest again, whatever worker crashes.    *)
WorkEnds == (status \in Working) ~> (status \notin Working)

----------------------------------------------------------------------------
(* What the documentation says and the code does not keep *)

(* docs/student-import-migration.md: failed or infected files cannot be     *)
(* committed.  approveCommit does not look at the files again, and a worker *)
(* that lost its lease still marks them.                                    *)
CommittedSourcesClean ==
    [][RowsIn("COMMITTED")' \subseteq RowsIn("COMMITTED")
        \/ \A f \in Uploaded : file[f].status # "FAILED" /\ file[f].scan # "INFECTED"
      ]_row

(* docs/student-import-migration.md: local OCR needs an opt-in for each     *)
(* extraction request.  A worker extracts with the options of the record    *)
(* its findMany returned, and Claim does not compare the revision.          *)
OcrOptIn ==
    \A w \in Worker :
        pc[w] \in ExtractSteps /\ Holds(w) /\ cand[w].localOcr => localOcr

(* editRow refuses rows that were rolled back; applyMapping for one file    *)
(* resets them like any other.                                              *)
RolledBackStays ==
    [][\A r \in Row : row[r] = "ROLLED_BACK" => row'[r] = "ROLLED_BACK"]_row
=============================================================================

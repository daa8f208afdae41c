------------------------ MODULE StudentImportProofs ------------------------
(* The safety of StudentImport for any rows, files and workers.  The        *)
(* properties are not inductive: what a worker may still do depends on      *)
(* whether the token it claimed with is the one in the job, so the          *)
(* invariant says what holding the lease means at each step.                *)
EXTENDS StudentImport, TLAPS

(* Tokens are never reused, and a claimed worker has one. *)
Tokens ==
    /\ lease <= tokens
    /\ \A w \in Worker : mine[w] <= tokens
    /\ \A w \in Worker : pc[w] \in Claimed => mine[w] > 0
    /\ \A v, w \in Worker : v # w /\ mine[v] = mine[w] => mine[v] = 0

(* A worker that holds the lease works on the job in the status it claimed. *)
HolderStatus ==
    \A w \in Worker : Holds(w) =>
        /\ pc[w] \in CommitSteps => status = "COMMITTING"
        /\ pc[w] \in ExtractSteps => status = "PROCESSING"

(* A worker that holds the lease has every VALID row still before it, and   *)
(* once it has counted there is none left to fail.                          *)
HolderRows ==
    \A w \in Worker : Holds(w) =>
        /\ pc[w] \in {"rows", "mark"} => RowsIn("VALID") \subseteq left[w]
        /\ pc[w] = "finish" =>
              /\ RowsIn("VALID") = {}
              /\ ~failed[w] => RowsIn("FAILED") = {}

(* Between a validation without complaints and the end of the commit, no    *)
(* row is extracted, mapped or edited.                                      *)
Inspected ==
    status \in {"VALIDATED", "COMMITTING", "COMPLETED"} =>
        RowsIn("EXTRACTED") \cup RowsIn("INVALID") = {}

(* A commit that ended has left no lease behind, and if it was complete, no *)
(* row either.                                                              *)
Completed ==
    /\ status \in {"COMPLETED", "PARTIAL", "ROLLED_BACK"} => lease = 0
    /\ status = "COMPLETED" => RowsIn("VALID") \cup RowsIn("FAILED") = {}

(* A job that can be worked on and has a row that was taken back has one    *)
(* that was not: this is why queueExtraction may look for COMMITTED only.   *)
History ==
    status # "ROLLED_BACK" /\ RowsIn("ROLLED_BACK") # {} => RowsIn("COMMITTED") # {}

Sources ==
    /\ purged # {} => ~retained
    /\ \A w \in Worker : pc[w] = "purge" =>
          ~retained /\ status \notin {"QUEUED", "PROCESSING"}
    /\ status \in {"QUEUED", "PROCESSING"} => purged = {}

IInv ==
    /\ TypeOK
    /\ Tokens
    /\ HolderStatus
    /\ HolderRows
    /\ Inspected
    /\ Completed
    /\ History
    /\ ExtractionErasesNoHistory
    /\ OnceOnly
    /\ Sources

(* Every action keeps the types. *)
LEMMA TypeStep == TypeOK /\ [Next]_vars => TypeOK'
<1> SUFFICES ASSUME TypeOK, [Next]_vars PROVE TypeOK'
  OBVIOUS
<1> USE DEF TypeOK, vars, jobVars, stageVars, workerVars, Goto, JobStatus, Mutable, Working, RowStatus, Final, Unstaged, FileState, Candidate, NoJob, Nothing, Step, Claimed, CommitSteps, ExtractSteps, ValidateSteps
<1>1. ASSUME NEW fs \in SUBSET File, Upload(fs) PROVE TypeOK'
  BY <1>1 DEF Upload, Lock
<1>2. ASSUME NEW ocr \in BOOLEAN, QueueExtraction(ocr) PROVE TypeOK'
  BY <1>2 DEF QueueExtraction, NothingWritten, Lock
<1>3. ASSUME NEW fs \in SUBSET File, ApplyMapping(fs) PROVE TypeOK'
  BY <1>3 DEF ApplyMapping, Lock
<1>4. ASSUME NEW r \in Row, NEW skipped \in BOOLEAN, EditRow(r, skipped) PROVE TypeOK'
  BY <1>4 DEF EditRow, Editable, Lock
<1>5. ASSUME ValidateNow PROVE TypeOK'
  BY <1>5 DEF ValidateNow, Lock, Inspect, Verdicts, Checkable
<1>6. ASSUME ValidateLater PROVE TypeOK'
  BY <1>6 DEF ValidateLater, Lock
<1>7. ASSUME ApproveSections PROVE TypeOK'
  BY <1>7 DEF ApproveSections, Lock
<1>8. ASSUME ApproveCommit PROVE TypeOK'
  BY <1>8 DEF ApproveCommit, Approvable, Lock
<1>9. ASSUME NEW safe \in SUBSET Row, Rollback(safe) PROVE TypeOK'
  BY <1>9 DEF Rollback, Lock
<1>10. ASSUME NEW w \in Worker, Find(w) PROVE TypeOK'
  BY <1>10 DEF Find, Claimable
<1>11. ASSUME NEW w \in Worker, Claim(w) PROVE TypeOK'
  BY <1>11 DEF Claim, Claimable, FirstStep
<1>12. ASSUME NEW w \in Worker, LoseClaim(w) PROVE TypeOK'
  BY <1>12 DEF LoseClaim, Leave
<1>13. ASSUME NEW w \in Worker, Fail(w) PROVE TypeOK'
  BY <1>13 DEF Fail, Finalise, OwnsClaim, Leave
<1>14. ASSUME NEW w \in Worker, ListRows(w) PROVE TypeOK'
  BY <1>14 DEF ListRows, RowsIn
<1>15. ASSUME NEW w \in Worker, CountFailed(w) PROVE TypeOK'
  BY <1>15 DEF CountFailed, AnyFailed
<1>16. ASSUME NEW w \in Worker, Finish(w) PROVE TypeOK'
  BY <1>16 DEF Finish, Finalise, OwnsClaim, Leave
<1>17. ASSUME NEW w \in Worker, MarkFailed(w) PROVE TypeOK'
  BY <1>17 DEF MarkFailed, Done
<1>18. ASSUME NEW w \in Worker, NEW r \in Row, CommitRow(w, r) PROVE TypeOK'
  <2>1. CASE Done(w, r) /\ UNCHANGED <<pc, cur>>
    BY <1>18, <2>1 DEF CommitRow, Done
  <2>2. CASE Goto(w, "mark") /\ cur' = [cur EXCEPT ![w] = r] /\ UNCHANGED left
    BY <1>18, <2>2 DEF CommitRow, Done
  <2>q. QED
    BY <1>18, <2>1, <2>2 DEF CommitRow
<1>19. ASSUME NEW w \in Worker, NEW r \in Row, SkipRow(w, r) PROVE TypeOK'
  BY <1>19 DEF SkipRow, Done
<1>20. ASSUME NEW w \in Worker, NEW r \in Row, CommitRowThrows(w, r) PROVE TypeOK'
  BY <1>20 DEF CommitRowThrows
<1>21. ASSUME NEW w \in Worker, ValidateBackground(w) PROVE TypeOK'
  BY <1>21 DEF ValidateBackground, Inspect, Verdicts, Checkable
<1>22. ASSUME NEW w \in Worker, ValidateThrows(w) PROVE TypeOK'
  BY <1>22 DEF ValidateThrows
<1>23. ASSUME NEW w \in Worker, Release(w) PROVE TypeOK'
  BY <1>23 DEF Release, Leave
<1>24. ASSUME NEW w \in Worker, OpenFiles(w) PROVE TypeOK'
  BY <1>24 DEF OpenFiles, Uploaded
<1>25. ASSUME NEW w \in Worker, OpenThrows(w) PROVE TypeOK'
  BY <1>25 DEF OpenThrows
<1>26. ASSUME NEW w \in Worker, NEW f \in File, ScanFile(w, f) PROVE TypeOK'
  <2>1. CASE file' = [file EXCEPT ![f] = [status |-> "EXTRACTING", scan |-> "CLEAN"]] /\ Goto(w, "scanned")
    BY <1>26, <2>1 DEF ScanFile
  <2>2. CASE file' = [file EXCEPT ![f] = [status |-> "QUARANTINED", scan |-> "INFECTED"]] /\ Goto(w, "fileFail")
    BY <1>26, <2>2 DEF ScanFile
  <2>3. CASE UNCHANGED file /\ Goto(w, "fileFail")
    BY <1>26, <2>3 DEF ScanFile
  <2>q. QED
    BY <1>26, <2>1, <2>2, <2>3 DEF ScanFile
<1>27. ASSUME NEW w \in Worker, ExtractFile(w) PROVE TypeOK'
  <2> USE <1>27 DEF ExtractFile, FileMarked
  <2>1. CASE Done(w, cur[w]) /\ cur' = [cur EXCEPT ![w] = Nothing]
             /\ Goto(w, "files")
    BY <2>1 DEF Done
  <2>2. CASE UNCHANGED <<left, cur>> /\ Goto(w, "fileFail")
    BY <2>2
  <2> QED BY <2>1, <2>2
<1>28. ASSUME NEW w \in Worker, ExtractThrows(w) PROVE TypeOK'
  BY <1>28 DEF ExtractThrows
<1>29. ASSUME NEW w \in Worker, MarkFileFailed(w) PROVE TypeOK'
  BY <1>29 DEF MarkFileFailed, FileMarked
<1>30. ASSUME NEW w \in Worker, FinishExtraction(w) PROVE TypeOK'
  BY <1>30 DEF FinishExtraction, Finalise, OwnsClaim, Leave
<1>31. ASSUME NEW w \in Worker, Heartbeat(w) PROVE TypeOK'
  BY <1>31 DEF Heartbeat
<1>32. ASSUME NEW w \in Worker, PurgeFind(w) PROVE TypeOK'
  BY <1>32 DEF PurgeFind, Purgeable, Uploaded
<1>33. ASSUME NEW w \in Worker, NEW f \in File, PurgeFile(w, f) PROVE TypeOK'
  BY <1>33 DEF PurgeFile, Done
<1>34. ASSUME NEW w \in Worker, Crash(w) PROVE TypeOK'
  BY <1>34 DEF Crash, Leave
<1>35. ASSUME NEW w \in Worker, DatabaseError(w) PROVE TypeOK'
  BY <1>35 DEF DatabaseError
<1>36. ASSUME ExpireLease PROVE TypeOK'
  BY <1>36 DEF ExpireLease
<1>37. ASSUME ExpireRetention PROVE TypeOK'
  BY <1>37 DEF ExpireRetention
<1>38. CASE UNCHANGED vars
  BY <1>38
<1> HIDE DEF TypeOK
<1>q. QED
  BY <1>1, <1>2, <1>3, <1>4, <1>5, <1>6, <1>7, <1>8, <1>9, <1>10, <1>11,
     <1>12, <1>13, <1>14, <1>15, <1>16, <1>17, <1>18, <1>19, <1>20, <1>21,
     <1>22, <1>23, <1>24, <1>25, <1>26, <1>27, <1>28, <1>29, <1>30, <1>31,
     <1>32, <1>33, <1>34, <1>35, <1>36, <1>37, <1>38
     DEF Next, Administrator, Work, Purge, Uploaded

(* A claim draws a token nobody has; leaving a claim gives it up. *)
LEMMA TokensStep ==
    ASSUME TypeOK, Tokens, [Next]_vars
    PROVE  Tokens'
<1> USE DEF TypeOK, Tokens, Claimed, CommitSteps, ExtractSteps,
            ValidateSteps, Goto, Done, vars, jobVars, stageVars, workerVars
<1>1. CASE Administrator
  BY <1>1
     DEF Administrator, Upload, QueueExtraction, NothingWritten,
         ApplyMapping, EditRow, Editable, ValidateNow, ValidateLater,
         ApproveSections, ApproveCommit, Approvable, Rollback, Lock, Inspect
<1>2. ASSUME NEW w \in Worker, Work(w) PROVE Tokens'
  BY <1>2
     DEF Work, Find, Claim, LoseClaim, Fail, ListRows, CountFailed,
         AnyFailed, Finish, MarkFailed, CommitRow, SkipRow, CommitRowThrows,
         ValidateBackground, ValidateThrows, Release, OpenFiles, OpenThrows,
         ScanFile, ExtractFile, ExtractThrows, MarkFileFailed,
         FinishExtraction, Inspect, Leave, Finalise, OwnsClaim, FirstStep
<1>3. ASSUME NEW w \in Worker,
             Heartbeat(w) \/ Purge(w) \/ Crash(w) \/ DatabaseError(w)
      PROVE  Tokens'
  BY <1>3
     DEF Heartbeat, Purge, PurgeFind, Purgeable, PurgeFile, Crash,
         DatabaseError, Leave
<1>4. CASE ExpireLease \/ ExpireRetention \/ UNCHANGED vars
  BY <1>4 DEF ExpireLease, ExpireRetention
<1>q. QED
  BY <1>1, <1>2, <1>3, <1>4 DEF Next

(* Only the holder ends COMMITTING or PROCESSING, and it gives up the
   lease as it does. *)
LEMMA HolderStatusStep ==
    ASSUME TypeOK, Tokens, HolderStatus, [Next]_vars
    PROVE  HolderStatus'
<1> USE DEF TypeOK, Tokens, HolderStatus, Holds, Claimed, CommitSteps,
            ExtractSteps, ValidateSteps, JobStatus, Mutable, Working,
            Claimable, Goto, Done, vars, jobVars, stageVars, workerVars
<1>1. CASE Administrator
  BY <1>1
     DEF Administrator, Upload, QueueExtraction, NothingWritten,
         ApplyMapping, EditRow, Editable, ValidateNow, ValidateLater,
         ApproveSections, ApproveCommit, Approvable, Rollback, Lock, Inspect
<1>2. ASSUME NEW w \in Worker, Work(w) PROVE HolderStatus'
  BY <1>2
     DEF Work, Find, Claim, LoseClaim, Fail, ListRows, CountFailed,
         AnyFailed, Finish, MarkFailed, CommitRow, SkipRow, CommitRowThrows,
         ValidateBackground, ValidateThrows, Release, OpenFiles, OpenThrows,
         ScanFile, ExtractFile, ExtractThrows, MarkFileFailed,
         FinishExtraction, Inspect, Leave, Finalise, OwnsClaim, FirstStep
<1>3. ASSUME NEW w \in Worker,
             Heartbeat(w) \/ Purge(w) \/ Crash(w) \/ DatabaseError(w)
      PROVE  HolderStatus'
  BY <1>3
     DEF Heartbeat, Purge, PurgeFind, Purgeable, PurgeFile, Crash,
         DatabaseError, Leave
<1>4. CASE ExpireLease \/ ExpireRetention \/ UNCHANGED vars
  BY <1>4 DEF ExpireLease, ExpireRetention
<1>q. QED
  BY <1>1, <1>2, <1>3, <1>4 DEF Next

(* No row becomes VALID while a holder commits, and a late worker's
   MarkFailed only takes VALID rows away. *)
LEMMA HolderRowsStep ==
    ASSUME TypeOK, Tokens, HolderStatus, HolderRows, [Next]_vars
    PROVE  HolderRows'
<1> USE DEF TypeOK, Tokens, HolderStatus, HolderRows, Holds, Claimed,
            CommitSteps, ExtractSteps, ValidateSteps, JobStatus, Mutable,
            Working, Claimable, RowsIn, Verdicts, Checkable, Editable, Staged, Final,
            Unstaged, RowStatus, Goto, Done, vars, jobVars, stageVars,
            workerVars
<1>1. CASE Administrator
  BY <1>1
     DEF Administrator, Upload, QueueExtraction, NothingWritten,
         ApplyMapping, EditRow, Editable, ValidateNow, ValidateLater,
         ApproveSections, ApproveCommit, Approvable, Rollback, Lock, Inspect
<1>2. ASSUME NEW w \in Worker, Work(w) PROVE HolderRows'
  <2>1. CASE Claim(w)
    BY <2>1 DEF Claim, FirstStep
  <2>2. CASE ListRows(w)
    BY <2>2 DEF ListRows
  <2>3. CASE CountFailed(w)
    BY <2>3 DEF CountFailed, AnyFailed
  <2>4. CASE \E r \in Row : CommitRow(w, r)
    BY <2>4 DEF CommitRow
  <2>5. CASE \E r \in Row : SkipRow(w, r)
    BY <2>5 DEF SkipRow
  <2>6. CASE MarkFailed(w)
    BY <2>6 DEF MarkFailed
  <2>7. CASE ValidateBackground(w)
    BY <2>7 DEF ValidateBackground, Inspect
  <2>8. CASE ExtractFile(w)
    BY <2>8 DEF ExtractFile, FileMarked
  <2>9. CASE \/ LoseClaim(w) \/ Fail(w) \/ Finish(w)
             \/ FinishExtraction(w) \/ Release(w)
    BY <2>9
       DEF LoseClaim, Fail, Finish, FinishExtraction, Release, Leave,
           Finalise, OwnsClaim
  <2>10. CASE \/ Find(w) \/ (\E r \in Row : CommitRowThrows(w, r))
             \/ ValidateThrows(w) \/ OpenFiles(w) \/ OpenThrows(w)
             \/ ExtractThrows(w) \/ MarkFileFailed(w)
             \/ (\E f \in File : ScanFile(w, f))
    BY <2>10
       DEF Find, CommitRowThrows, ValidateThrows, OpenFiles, OpenThrows,
           ExtractThrows, MarkFileFailed, ScanFile, Uploaded, FileMarked
  <2>q. QED
    BY <1>2, <2>1, <2>2, <2>3, <2>4, <2>5, <2>6, <2>7, <2>8, <2>9, <2>10
       DEF Work
<1>3. ASSUME NEW w \in Worker,
             Heartbeat(w) \/ Purge(w) \/ Crash(w) \/ DatabaseError(w)
      PROVE  HolderRows'
  BY <1>3
     DEF Heartbeat, Purge, PurgeFind, Purgeable, PurgeFile, Crash,
         DatabaseError, Leave
<1>4. CASE ExpireLease \/ ExpireRetention \/ UNCHANGED vars
  BY <1>4 DEF ExpireLease, ExpireRetention
<1>q. QED
  BY <1>1, <1>2, <1>3, <1>4 DEF Next

(* Extraction, mapping and editing all leave the three statuses. *)
LEMMA InspectedStep ==
    ASSUME TypeOK, Tokens, HolderStatus, Inspected, [Next]_vars
    PROVE  Inspected'
<1> USE DEF TypeOK, Tokens, HolderStatus, Inspected, Holds, Claimed,
            CommitSteps, ExtractSteps, ValidateSteps, JobStatus, Mutable,
            Working, Claimable, RowsIn, Verdicts, Checkable, Editable, Staged, Final,
            Unstaged, RowStatus, Goto, Done, vars, jobVars, stageVars,
            workerVars
<1>1. CASE Administrator
  BY <1>1
     DEF Administrator, Upload, QueueExtraction, NothingWritten,
         ApplyMapping, EditRow, Editable, ValidateNow, ValidateLater,
         ApproveSections, ApproveCommit, Approvable, Rollback, Lock, Inspect
<1>2. ASSUME NEW w \in Worker, Work(w) PROVE Inspected'
  BY <1>2
     DEF Work, Find, Claim, LoseClaim, Fail, ListRows, CountFailed,
         AnyFailed, Finish, MarkFailed, CommitRow, SkipRow, CommitRowThrows,
         ValidateBackground, ValidateThrows, Release, OpenFiles, OpenThrows,
         ScanFile, ExtractFile, ExtractThrows, MarkFileFailed,
         FinishExtraction, Inspect, Leave, Finalise, OwnsClaim, FirstStep
<1>3. ASSUME NEW w \in Worker,
             Heartbeat(w) \/ Purge(w) \/ Crash(w) \/ DatabaseError(w)
      PROVE  Inspected'
  BY <1>3
     DEF Heartbeat, Purge, PurgeFind, Purgeable, PurgeFile, Crash,
         DatabaseError, Leave
<1>4. CASE ExpireLease \/ ExpireRetention \/ UNCHANGED vars
  BY <1>4 DEF ExpireLease, ExpireRetention
<1>q. QED
  BY <1>1, <1>2, <1>3, <1>4 DEF Next

(* The worker that completes the job has counted its rows while it held
   the lease. *)
LEMMA CompletedStep ==
    ASSUME TypeOK, Tokens, HolderStatus, HolderRows, Completed, [Next]_vars
    PROVE  Completed'
<1> USE DEF TypeOK, Tokens, HolderStatus, HolderRows, Completed, Holds,
            Claimed, CommitSteps, ExtractSteps, ValidateSteps, JobStatus,
            Mutable, Working, Claimable, RowsIn, Verdicts, Checkable, Editable,
            Staged, Final, Unstaged, RowStatus, Goto, Done, vars, jobVars,
            stageVars, workerVars
<1>1. CASE Administrator
  BY <1>1
     DEF Administrator, Upload, QueueExtraction, NothingWritten,
         ApplyMapping, EditRow, Editable, ValidateNow, ValidateLater,
         ApproveSections, ApproveCommit, Approvable, Rollback, Lock, Inspect
<1>2. ASSUME NEW w \in Worker, Work(w) PROVE Completed'
  BY <1>2
     DEF Work, Find, Claim, LoseClaim, Fail, ListRows, CountFailed,
         AnyFailed, Finish, MarkFailed, CommitRow, SkipRow, CommitRowThrows,
         ValidateBackground, ValidateThrows, Release, OpenFiles, OpenThrows,
         ScanFile, ExtractFile, ExtractThrows, MarkFileFailed,
         FinishExtraction, Inspect, Leave, Finalise, OwnsClaim, FirstStep
<1>3. ASSUME NEW w \in Worker,
             Heartbeat(w) \/ Purge(w) \/ Crash(w) \/ DatabaseError(w)
      PROVE  Completed'
  BY <1>3
     DEF Heartbeat, Purge, PurgeFind, Purgeable, PurgeFile, Crash,
         DatabaseError, Leave
<1>4. CASE ExpireLease \/ ExpireRetention \/ UNCHANGED vars
  BY <1>4 DEF ExpireLease, ExpireRetention
<1>q. QED
  BY <1>1, <1>2, <1>3, <1>4 DEF Next

(* COMMITTED rows disappear in a rollback only, and one that leaves none
   of them closes the job. *)
LEMMA HistoryStep ==
    ASSUME TypeOK, Tokens, HolderStatus, Completed, ExtractionErasesNoHistory, History, [Next]_vars
    PROVE  History'
<1> USE DEF TypeOK, Tokens, HolderStatus, Completed,
            ExtractionErasesNoHistory, History, Holds, Claimed, CommitSteps,
            ExtractSteps, ValidateSteps, JobStatus, Mutable, Working,
            Claimable, RowsIn, Verdicts, Checkable, Editable, Staged, Final, Unstaged,
            RowStatus, Goto, Done, vars, jobVars, stageVars, workerVars
<1>1. CASE Administrator
  BY <1>1
     DEF Administrator, Upload, QueueExtraction, NothingWritten,
         ApplyMapping, EditRow, Editable, ValidateNow, ValidateLater,
         ApproveSections, ApproveCommit, Approvable, Rollback, Lock, Inspect
<1>2. ASSUME NEW w \in Worker, Work(w) PROVE History'
  <2>1. CASE Claim(w)
    BY <2>1 DEF Claim, FirstStep
  <2>2. CASE \E r \in Row : CommitRow(w, r)
    BY <2>2 DEF CommitRow
  <2>3. CASE MarkFailed(w)
    BY <2>3 DEF MarkFailed
  <2>4. CASE ValidateBackground(w)
    BY <2>4 DEF ValidateBackground, Inspect
  <2>5. CASE ExtractFile(w)
    BY <2>5 DEF ExtractFile, FileMarked
  <2>6. CASE \/ LoseClaim(w) \/ Fail(w) \/ Finish(w)
             \/ FinishExtraction(w) \/ Release(w)
    BY <2>6
       DEF LoseClaim, Fail, Finish, FinishExtraction, Release, Leave,
           Finalise, OwnsClaim
  <2>7. CASE \/ ListRows(w) \/ CountFailed(w) \/ Find(w)
             \/ (\E r \in Row : CommitRowThrows(w, r))
             \/ (\E r \in Row : SkipRow(w, r)) \/ ValidateThrows(w)
             \/ OpenFiles(w) \/ OpenThrows(w) \/ ExtractThrows(w)
             \/ MarkFileFailed(w) \/ (\E f \in File : ScanFile(w, f))
    BY <2>7
       DEF ListRows, CountFailed, AnyFailed, Find, CommitRowThrows, SkipRow,
           ValidateThrows, OpenFiles, OpenThrows, ExtractThrows,
           MarkFileFailed, ScanFile, Uploaded, FileMarked
  <2>q. QED
    BY <1>2, <2>1, <2>2, <2>3, <2>4, <2>5, <2>6, <2>7 DEF Work
<1>3. ASSUME NEW w \in Worker,
             Heartbeat(w) \/ Purge(w) \/ Crash(w) \/ DatabaseError(w)
      PROVE  History'
  BY <1>3
     DEF Heartbeat, Purge, PurgeFind, Purgeable, PurgeFile, Crash,
         DatabaseError, Leave
<1>4. CASE ExpireLease \/ ExpireRetention \/ UNCHANGED vars
  BY <1>4 DEF ExpireLease, ExpireRetention
<1>q. QED
  BY <1>1, <1>2, <1>3, <1>4 DEF Next

(* An extraction is queued for a job without COMMITTED rows, so by
   History without rows that were taken back. *)
LEMMA ErasureStep ==
    ASSUME TypeOK, Tokens, HolderStatus, ExtractionErasesNoHistory, History, [Next]_vars
    PROVE  ExtractionErasesNoHistory'
<1> USE DEF TypeOK, Tokens, HolderStatus, ExtractionErasesNoHistory,
            History, Holds, Claimed, CommitSteps, ExtractSteps,
            ValidateSteps, JobStatus, Mutable, Working, Claimable, RowsIn,
            Verdicts, Checkable, Editable, Staged, Final, Unstaged, RowStatus, Goto,
            Done, vars, jobVars, stageVars, workerVars
<1>1. CASE Administrator
  BY <1>1
     DEF Administrator, Upload, QueueExtraction, NothingWritten,
         ApplyMapping, EditRow, Editable, ValidateNow, ValidateLater,
         ApproveSections, ApproveCommit, Approvable, Rollback, Lock, Inspect
<1>2. ASSUME NEW w \in Worker, Work(w) PROVE ExtractionErasesNoHistory'
  BY <1>2
     DEF Work, Find, Claim, LoseClaim, Fail, ListRows, CountFailed,
         AnyFailed, Finish, MarkFailed, CommitRow, SkipRow, CommitRowThrows,
         ValidateBackground, ValidateThrows, Release, OpenFiles, OpenThrows,
         ScanFile, ExtractFile, ExtractThrows, MarkFileFailed,
         FinishExtraction, Inspect, Leave, Finalise, OwnsClaim, FirstStep
<1>3. ASSUME NEW w \in Worker,
             Heartbeat(w) \/ Purge(w) \/ Crash(w) \/ DatabaseError(w)
      PROVE  ExtractionErasesNoHistory'
  BY <1>3
     DEF Heartbeat, Purge, PurgeFind, Purgeable, PurgeFile, Crash,
         DatabaseError, Leave
<1>4. CASE ExpireLease \/ ExpireRetention \/ UNCHANGED vars
  BY <1>4 DEF ExpireLease, ExpireRetention
<1>q. QED
  BY <1>1, <1>2, <1>3, <1>4 DEF Next

(* A write and its marker are one step; the worker that recreates rows
   holds the lease of a job without COMMITTED rows. *)
LEMMA OnceOnlyStep ==
    ASSUME TypeOK, Tokens, HolderStatus, ExtractionErasesNoHistory, OnceOnly, [Next]_vars
    PROVE  OnceOnly'
<1> USE DEF TypeOK, Tokens, HolderStatus, ExtractionErasesNoHistory,
            OnceOnly, Holds, Claimed, CommitSteps, ExtractSteps,
            ValidateSteps, JobStatus, Mutable, Working, Claimable, RowsIn,
            Verdicts, Checkable, Editable, Staged, Final, Unstaged, RowStatus, Goto,
            Done, vars, jobVars, stageVars, workerVars
<1>1. CASE Administrator
  BY <1>1
     DEF Administrator, Upload, QueueExtraction, NothingWritten,
         ApplyMapping, EditRow, Editable, ValidateNow, ValidateLater,
         ApproveSections, ApproveCommit, Approvable, Rollback, Lock, Inspect
<1>2. ASSUME NEW w \in Worker, Work(w) PROVE OnceOnly'
  BY <1>2
     DEF Work, Find, Claim, LoseClaim, Fail, ListRows, CountFailed,
         AnyFailed, Finish, MarkFailed, CommitRow, SkipRow, CommitRowThrows,
         ValidateBackground, ValidateThrows, Release, OpenFiles, OpenThrows,
         ScanFile, ExtractFile, ExtractThrows, MarkFileFailed,
         FinishExtraction, Inspect, Leave, Finalise, OwnsClaim, FirstStep
<1>3. ASSUME NEW w \in Worker,
             Heartbeat(w) \/ Purge(w) \/ Crash(w) \/ DatabaseError(w)
      PROVE  OnceOnly'
  BY <1>3
     DEF Heartbeat, Purge, PurgeFind, Purgeable, PurgeFile, Crash,
         DatabaseError, Leave
<1>4. CASE ExpireLease \/ ExpireRetention \/ UNCHANGED vars
  BY <1>4 DEF ExpireLease, ExpireRetention
<1>q. QED
  BY <1>1, <1>2, <1>3, <1>4 DEF Next

(* A purge starts after retention has ended, and then no extraction is
   queued any more. *)
LEMMA SourcesStep ==
    ASSUME TypeOK, Sources, [Next]_vars
    PROVE  Sources'
<1> USE DEF TypeOK, Sources, Uploaded, FileMarked, Claimed, CommitSteps,
            ExtractSteps, ValidateSteps, JobStatus, Mutable, Working,
            Claimable, Goto, Done, vars, jobVars, stageVars, workerVars
<1>1. CASE Administrator
  BY <1>1
     DEF Administrator, Upload, QueueExtraction, NothingWritten,
         ApplyMapping, EditRow, Editable, ValidateNow, ValidateLater,
         ApproveSections, ApproveCommit, Approvable, Rollback, Lock, Inspect
<1>2. ASSUME NEW w \in Worker, Work(w) PROVE Sources'
  <2>1. CASE Claim(w)
    BY <2>1 DEF Claim, FirstStep
  <2>2. CASE \E f \in File : ScanFile(w, f)
    BY <2>2 DEF ScanFile
  <2>3. CASE ExtractFile(w)
    BY <2>3 DEF ExtractFile, FileMarked
  <2>4. CASE MarkFileFailed(w)
    BY <2>4 DEF MarkFileFailed, FileMarked
  <2>5. CASE \/ LoseClaim(w) \/ Fail(w) \/ Finish(w)
             \/ FinishExtraction(w) \/ Release(w)
    BY <2>5
       DEF LoseClaim, Fail, Finish, FinishExtraction, Release, Leave,
           Finalise, OwnsClaim
  <2>6. CASE ValidateBackground(w)
    BY <2>6 DEF ValidateBackground, Inspect
  <2>7. CASE \/ (\E r \in Row : CommitRow(w, r)) \/ MarkFailed(w)
             \/ ListRows(w) \/ CountFailed(w) \/ Find(w)
             \/ (\E r \in Row : CommitRowThrows(w, r))
             \/ (\E r \in Row : SkipRow(w, r)) \/ ValidateThrows(w)
             \/ OpenFiles(w) \/ OpenThrows(w) \/ ExtractThrows(w)
    BY <2>7
       DEF CommitRow, MarkFailed, ListRows, CountFailed, AnyFailed, Find,
           CommitRowThrows, SkipRow, ValidateThrows, OpenFiles, OpenThrows,
           ExtractThrows, Uploaded
  <2>q. QED
    BY <1>2, <2>1, <2>2, <2>3, <2>4, <2>5, <2>6, <2>7 DEF Work
<1>3. ASSUME NEW w \in Worker,
             Heartbeat(w) \/ Purge(w) \/ Crash(w) \/ DatabaseError(w)
      PROVE  Sources'
  BY <1>3
     DEF Heartbeat, Purge, PurgeFind, Purgeable, PurgeFile, Crash,
         DatabaseError, Leave
<1>4. CASE ExpireLease \/ ExpireRetention \/ UNCHANGED vars
  BY <1>4 DEF ExpireLease, ExpireRetention
<1>q. QED
  BY <1>1, <1>2, <1>3, <1>4 DEF Next

----------------------------------------------------------------------------

LEMMA InitIInv == Init => IInv
<1> SUFFICES ASSUME Init PROVE IInv
  OBVIOUS
<1>1. TypeOK
  BY DEF Init, TypeOK, JobStatus, Mutable, RowStatus, Unstaged, FileState,
         Step, Candidate, NoJob, Nothing
<1>2. Tokens /\ HolderStatus /\ HolderRows /\ Completed /\ Sources
  BY DEF Init, Tokens, HolderStatus, HolderRows, Completed, Sources, Claimed,
         CommitSteps, ExtractSteps, ValidateSteps
<1>3. Inspected /\ History /\ ExtractionErasesNoHistory /\ OnceOnly
  BY DEF Init, Inspected, History, ExtractionErasesNoHistory, OnceOnly,
         RowsIn, Final, Unstaged
<1>q. QED
  BY <1>1, <1>2, <1>3 DEF IInv

LEMMA NextIInv == IInv /\ [Next]_vars => IInv'
<1> SUFFICES ASSUME IInv, [Next]_vars PROVE IInv'
  OBVIOUS
<1>1. TypeOK' /\ Tokens' /\ HolderStatus' /\ HolderRows'
  BY TypeStep, TokensStep, HolderStatusStep, HolderRowsStep DEF IInv
<1>2. Inspected' /\ Completed' /\ History'
  BY InspectedStep, CompletedStep, HistoryStep DEF IInv
<1>3. ExtractionErasesNoHistory' /\ OnceOnly' /\ Sources'
  BY ErasureStep, OnceOnlyStep, SourcesStep DEF IInv
<1>q. QED
  BY <1>1, <1>2, <1>3 DEF IInv

(* The invariant holds in every state of every behaviour. *)
THEOREM Invariance == Spec => []IInv
<1>1. Init => IInv
  BY InitIInv
<1>2. IInv /\ [Next]_vars => IInv'
  BY NextIInv
<1>q. QED
  BY <1>1, <1>2, PTL DEF Spec

(* Types, for every set of rows, files and workers. *)
THEOREM TypeCorrect == Spec => []TypeOK
<1>1. IInv => TypeOK
  BY DEF IInv
<1>q. QED
  BY <1>1, Invariance, PTL

(* No student write is repeated or forgotten: a row is marked COMMITTED     *)
(* exactly while one write made for it stands.                              *)
THEOREM WritesOnce == Spec => []OnceOnly
<1>1. IInv => OnceOnly
  BY DEF IInv
<1>q. QED
  BY <1>1, Invariance, PTL

(* A job is reported COMPLETED only when no row is waiting or has failed,   *)
(* and was committed only after every row was inspected.                    *)
THEOREM CompletionIsHonest == Spec => [](CompletedIsComplete /\ CommitIsReviewed)
<1>1. IInv => CompletedIsComplete /\ CommitIsReviewed
  BY DEF IInv, TypeOK, Inspected, Completed, CompletedIsComplete,
         CommitIsReviewed, RowsIn, Staged, RowStatus, Unstaged, Final
<1>q. QED
  BY <1>1, Invariance, PTL

(* An extraction neither erases the rows of an earlier commit nor misses    *)
(* its sources.                                                             *)
THEOREM ExtractionIsSafe == Spec => [](ExtractionErasesNoHistory /\ SourcesPresent)
<1>1. IInv => ExtractionErasesNoHistory /\ SourcesPresent
  BY DEF IInv, Sources, SourcesPresent
<1>q. QED
  BY <1>1, Invariance, PTL

(* A commit never starts, nor goes on, with a row that nobody inspected     *)
(* since it was extracted, mapped or edited (approveCommit, editRow).       *)
THEOREM CommitsAreReviewed == Spec => []CommitIsReviewed
BY CompletionIsHonest, PTL

(* An extraction finds every source of its job, however the purge of        *)
(* expired files and a new request for extraction fall (purge).             *)
THEOREM SourcesStay == Spec => []SourcesPresent
BY ExtractionIsSafe, PTL

(* No late worker reopens or fails a completed job. *)
THEOREM CompletionIsFinal == Spec => CompletedIsFinal
<1>1. ASSUME IInv, [Next]_vars
      PROVE  [status = "COMPLETED" => status' \in {"COMPLETED", "PARTIAL", "ROLLED_BACK"}]_status
  <2> USE DEF IInv, Tokens, Completed, Holds, Claimed, CommitSteps, ExtractSteps,
              ValidateSteps, Mutable, Working, Claimable, vars, jobVars
  <2>1. CASE Administrator
    BY <1>1, <2>1
       DEF Administrator, Upload, QueueExtraction, NothingWritten,
           ApplyMapping, EditRow, Editable, ValidateNow, ValidateLater,
           ApproveSections, ApproveCommit, Approvable, Rollback, Lock
  <2>2. ASSUME NEW w \in Worker, Work(w)
        PROVE  status' = status \/ status # "COMPLETED"
    BY <1>1, <2>2
       DEF Work, Find, Claim, LoseClaim, Fail, ListRows, CountFailed,
           AnyFailed, Finish, MarkFailed, CommitRow, SkipRow,
           CommitRowThrows, ValidateBackground, ValidateThrows, Release,
           OpenFiles, OpenThrows, ScanFile, ExtractFile, ExtractThrows,
           MarkFileFailed, FinishExtraction, Finalise, OwnsClaim
  <2>3. ASSUME NEW w \in Worker,
               Heartbeat(w) \/ Purge(w) \/ Crash(w) \/ DatabaseError(w)
        PROVE  status' = status
    BY <2>3
       DEF Heartbeat, Purge, PurgeFind, Purgeable, PurgeFile, Crash,
           DatabaseError
  <2>4. CASE ExpireLease \/ ExpireRetention \/ UNCHANGED vars
    BY <2>4 DEF ExpireLease, ExpireRetention
  <2>q. QED
    BY <1>1, <2>1, <2>2, <2>3, <2>4 DEF Next
<1>q. QED
  BY <1>1, Invariance, PTL DEF Spec, CompletedIsFinal

=============================================================================

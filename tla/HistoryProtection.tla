------------------------- MODULE HistoryProtection -------------------------
(***************************************************************************)
(* The copies of the durable forecast history: the canonical asset of the  *)
(* GitHub Release, its versioned generations, and the independent copy in  *)
(* S3 (history/history_backup.py, history/independent_backup.py), and the  *)
(* four jobs that touch them: the publish step of forecast.yml, the daily  *)
(* audit that publishes its repairs, the 30-minute refresh of S3 and the   *)
(* weekly drill.  The jobs of the concurrency group btc-timesfm-forecast   *)
(* run one at a time, so the steps of one are not interleaved with another *)
(* job; any of them may fail, and the run may be lost between two.         *)
(*                                                                         *)
(* Abstractions.  A database is the serial number of the forecast run that *)
(* produced it; later numbers hold more history, and a repaired database   *)
(* counts as the one it repairs.  S3 stores the bytes it was sent or       *)
(* rejects them (the checksum of aws s3 cp), so an object written again    *)
(* under its content-addressed key is what it was.                         *)
(***************************************************************************)
EXTENDS Naturals, Sequences, FiniteSets, SequencesExt

CONSTANTS
    Missing,            \* no asset, no object
    Keep,               \* HISTORY_BACKUP_KEEP
    MaxBytes,           \* HISTORY_BACKUP_MAX_TOTAL_BYTES
    Sizes,              \* sizes of a compressed generation
    MaxSerial,          \* forecast runs considered
    MaxAudits           \* audits considered that have something to repair

ASSUME ProtectionAssumption ==
    /\ Keep \in Nat \ {0} /\ MaxBytes \in Nat \ {0} /\ MaxSerial \in Nat /\ MaxAudits \in Nat
    /\ Sizes \subseteq Nat /\ Missing \notin Nat

VARIABLES
    canonical,      \* forecast_history.sqlite.gz in the Release
    backups,        \* the versioned generations, newest first
    copy,           \* what the S3 manifest points to
    receipt,        \* the copy named by the restore receipt in S3
    published,      \* ghost: the database last made canonical
    prior,          \* ghost: the database that one was made from
    blind,          \* ghost: an audit lost the canonical asset, and the generation it had
                    \* uploaded had arrived damaged
    serial,         \* forecast runs so far
    audits,         \* audits so far that repaired something
    restored,       \* the database the run started from
    step              \* the next step of the run, "idle" between jobs

protectionVars == <<canonical, backups, copy, receipt, published, prior, blind, serial, audits, restored, step>>

-----------------------------------------------------------------------------

\* within_count /\ within_bytes
Fits(bs, kept, size, i) ==
    Cardinality(kept) < Keep /\ size + bs[i].size <= MaxBytes

\* retention_plan: the positions kept, going from the newest to the oldest
Retained(bs) ==
    FoldLeftDomain(LAMBDA kept, i :
                      IF i = 1 \/ Fits(bs, kept, MapThenSumSet(LAMBDA j : bs[j].size, kept), i)
                      THEN kept \union {i} ELSE kept,
                   {}, bs)

\* bs without the positions deleted: at n, what was at the n-th of those left
Without(bs, deleted) ==
    LET left == DOMAIN bs \ deleted
    IN  [n \in 1 .. Cardinality(left) |->
            bs[CHOOSE i \in left : Cardinality({j \in left : j <= i}) = n]]

-----------------------------------------------------------------------------
ProtectionInit ==
    /\ canonical = Missing /\ backups = <<>> /\ copy = Missing /\ receipt = Missing
    /\ published = 0 /\ prior = 0 /\ blind = FALSE /\ serial = 0 /\ audits = 0 /\ restored = 0
    /\ step = "idle"

\* The run ends or is lost here; what it left in the Release and in S3 stays.
Stop == step' = "idle" /\ restored' = 0

\* A run restores the canonical database, insisting on one once the Release
\* exists, forecasts on it and comes to publish.
StartRun ==
    /\ step = "idle" /\ serial < MaxSerial
    /\ published > 0 => canonical # Missing
    /\ serial' = serial + 1
    /\ restored' = IF canonical = Missing THEN 0 ELSE canonical
    /\ step' = IF canonical = Missing THEN "first_copy" ELSE "backup"
    /\ UNCHANGED <<canonical, backups, copy, published, prior, blind, audits, receipt>>

\* The previous database goes up as a new generation; the bytes that arrive may
\* not be the ones sent.
UploadBackup ==
    /\ step = "backup"
    /\ \E size \in Sizes, good \in BOOLEAN :
          backups' = <<[db |-> restored, size |-> size, good |-> good]>> \o backups
    /\ step' = "verify"
    /\ UNCHANGED <<canonical, copy, published, prior, blind, serial, restored, audits, receipt>>

\* mutant: the downloaded generation is not verified
VerifyNothing ==
    /\ step = "verify"
    /\ step' = "copy"
    /\ UNCHANGED <<canonical, backups, copy, published, prior, blind, serial, restored, audits, receipt>>

\* ... and is downloaded again and verified.
VerifyBackup ==
    /\ step = "verify"
    /\ backups[1].good
    /\ step' = "copy"
    /\ UNCHANGED <<canonical, backups, copy, published, prior, blind, serial, restored, audits, receipt>>

(* independent_backup.upload_and_verify: the object, then its verification, then
   the manifest that makes it the copy in force. *)
Copied(version) == copy' = version

CopyFails(version) ==
    \/ UNCHANGED copy
    \/ Copied(version)             \* the manifest could not be read back

\* mutant: the run goes on when the independent copy failed
CopyIgnored ==
    /\ step = "copy"
    /\ (Copied(restored) /\ step' = "replace") \/ (CopyFails(restored) /\ step' = "replace")
    /\ UNCHANGED <<canonical, backups, published, prior, blind, serial, restored, audits, receipt>>

CopyBackup ==
    /\ step = "copy"
    /\ \/ Copied(restored) /\ step' = "replace" /\ UNCHANGED restored
       \/ CopyFails(restored) /\ Stop
    /\ UNCHANGED <<canonical, backups, published, prior, blind, serial, audits, receipt>>

\* The canonical asset is deleted and uploaded again.
Replace ==
    /\ step = "replace"
    /\ \/ /\ canonical' = serial /\ published' = serial /\ prior' = restored
          /\ step' = "prune" /\ UNCHANGED restored
       \/ canonical' = Missing /\ UNCHANGED <<published, prior>> /\ Stop
    /\ UNCHANGED <<backups, copy, blind, serial, audits, receipt>>

\* The deletions follow the plan and may stop after any of them.
Prune ==
    /\ step = "prune"
    /\ \E m \in 1 .. Len(backups) + 1 :
          backups' = Without(backups, {i \in DOMAIN backups \ Retained(backups) : i < m})
    /\ Stop
    /\ UNCHANGED <<canonical, copy, published, prior, blind, serial, audits, receipt>>

\* The first publication copies its own database before it creates the Release.
FirstCopy ==
    /\ step = "first_copy"
    /\ \/ Copied(serial) /\ step' = "create" /\ UNCHANGED restored
       \/ CopyFails(serial) /\ Stop
    /\ UNCHANGED <<canonical, backups, published, prior, blind, serial, audits, receipt>>

CreateRelease ==
    /\ step = "create"
    /\ canonical' = serial /\ published' = serial /\ prior' = 0
    /\ Stop
    /\ UNCHANGED <<backups, copy, blind, serial, audits, receipt>>

\* mutant: the refresh is not in the concurrency group
RefreshUngrouped ==
    /\ canonical # Missing
    /\ Copied(canonical) \/ CopyFails(canonical)
    /\ UNCHANGED <<canonical, backups, published, prior, blind, serial, restored, step, audits, receipt>>

\* The 30-minute refresh republishes the canonical asset to S3.
Refresh ==
    /\ step = "idle" /\ canonical # Missing
    /\ Copied(canonical) \/ CopyFails(canonical)
    /\ UNCHANGED <<canonical, backups, published, prior, blind, serial, restored, step, audits, receipt>>

\* The 30-minute monitor downloads and verifies the copy, and changes nothing.
Monitor == step = "idle" /\ UNCHANGED protectionVars

RunLost ==
    /\ step # "idle"
    /\ Stop
    /\ UNCHANGED <<canonical, backups, copy, published, prior, blind, serial, audits, receipt>>

\* the newest generation that can be verified, and the copy in S3
Verified ==
    {backups[i].db : i \in {j \in DOMAIN backups :
        backups[j].good /\ \A k \in 1 .. j - 1 : ~backups[k].good}}
    \union ({copy} \ {Missing})

\* The operator recovery of HISTORY_BACKUP.md and DISASTER_RECOVERY.md: one of these
\* becomes the canonical asset again.
Recover ==
    /\ step = "idle" /\ published > 0 /\ canonical = Missing
    /\ \E version \in Verified :
          /\ canonical' = version /\ published' = version
          /\ prior' = IF prior < version THEN prior ELSE version
    /\ blind' = FALSE
    /\ UNCHANGED <<backups, copy, serial, restored, step, audits, receipt>>

(* history-audit.yml.  The daily audit restores the canonical database and, when
   it repaired something, publishes the repaired one. *)
AuditRepairs ==
    /\ step = "idle" /\ canonical # Missing /\ audits < MaxAudits
    /\ restored' = canonical /\ step' = "audit_upload" /\ audits' = audits + 1
    /\ UNCHANGED <<canonical, backups, copy, published, prior, blind, serial, receipt>>

\* The original goes up as a generation, verified before the upload and never
\* downloaded again.
AuditUpload ==
    /\ step = "audit_upload"
    /\ \E size \in Sizes, good \in BOOLEAN :
          backups' = <<[db |-> restored, size |-> size, good |-> good]>> \o backups
    /\ step' = "audit_replace"
    /\ UNCHANGED <<canonical, copy, published, prior, blind, serial, restored, audits, receipt>>

\* Then the canonical asset is clobbered; S3 is left to the next refresh.
AuditReplace ==
    /\ step = "audit_replace"
    /\ \/ canonical' = restored /\ step' = "prune" /\ UNCHANGED <<blind, restored>>
       \/ canonical' = Missing /\ blind' = ~backups[1].good /\ Stop
    /\ UNCHANGED <<backups, copy, published, prior, serial, audits, receipt>>

(* disaster-recovery-drill.yml.  The weekly drill downloads the copy the manifest
   points to and restores and audits it in scratch storage ... *)
DrillRestores ==
    /\ step = "idle" /\ copy # Missing
    /\ restored' = copy /\ step' = "drill"
    /\ UNCHANGED <<canonical, backups, copy, published, prior, blind, serial, audits, receipt>>

\* ... and then names in the receipt the copy the manifest points to by now.
DrillRecords ==
    /\ step = "drill"
    /\ receipt' = copy
    /\ Stop
    /\ UNCHANGED <<canonical, backups, copy, published, prior, blind, serial, audits>>

ProtectionNext ==
    \/ StartRun \/ UploadBackup \/ VerifyBackup \/ CopyBackup \/ Replace \/ Prune
    \/ FirstCopy \/ CreateRelease \/ Refresh \/ Monitor \/ RunLost \/ Recover
    \/ AuditRepairs \/ AuditUpload \/ AuditReplace \/ DrillRestores \/ DrillRecords

ProtectionSpec == ProtectionInit /\ [][ProtectionNext]_protectionVars

-----------------------------------------------------------------------------
\* Whatever fails, and though the canonical asset is deleted before its
\* successor is there, GitHub alone holds the database last published.  There is one
\* exception: an audit never downloads the generation it uploaded, and when that one
\* arrived damaged and the upload of the canonical asset then fails as well, S3 is
\* what is left (IndependentCopyFollows).
ReleaseRecoverable ==
    published > 0 =>
        \/ canonical # Missing /\ canonical >= published
        \/ \E i \in DOMAIN backups : backups[i].good /\ backups[i].db >= published
        \/ blind

\* With the Release gone, S3 alone gives back the database last published or the
\* one it was made from: at most the forecast of one run is lost.
IndependentCopyFollows ==
    published > 0 => copy # Missing /\ copy >= prior

\* The receipt written at the end of a drill names the copy that this drill
\* restored, though it is read from a manifest that other jobs replace.
ReceiptWasDrilled ==
    [][receipt' # receipt => receipt' = restored]_protectionVars
=============================================================================

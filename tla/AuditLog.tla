------------------------------- MODULE AuditLog -------------------------------
(***************************************************************************)
(* The audit log of one process (services/audit.py, audit_pipeline.py):    *)
(* every entry names the hash of the one before it, full files are rotated *)
(* into a few numbered backups, and after a restart the hash to go on from *)
(* is read from the end of the newest file.                                *)
(*                                                                         *)
(* An entry is appended under a lock, which also covers the rotation, so   *)
(* that an append is one step, which may fail or be cut off at the places  *)
(* where it touches the files, also after the whole line is on the disk;   *)
(* and a file may fail to be read.  A hash is the number of its entry; 0   *)
(* is GENESIS.  When a file is full is left open.  The connector logs to   *)
(* the same file from a process of its own; this is the log of a core      *)
(* whose connector, if any, has been given another one.                    *)
(***************************************************************************)
EXTENDS Integers, SequencesExt

CONSTANTS
  BackupChoices,  \* what OPENCLAW_AUDIT_MAX_BACKUPS may be when the process starts
  LAST_ENTRY,     \* bound on the entries
  AUDIT_SLIPS     \* bound on failed appends and reads, and restarts

ASSUME AuditAssumption ==
  /\ IsFiniteSet(BackupChoices) /\ BackupChoices # {} /\ BackupChoices \subseteq Nat
  /\ LAST_ENTRY \in Nat /\ AUDIT_SLIPS \in Nat

VARIABLES
  files,    \* 0 is the live file, n its backup .n; without entries it is absent
  lastHash, \* _LAST_HASH; NoHash after a start
  backups,
  entries,  \* how many hashes were computed
  broken,   \* what happened that the chain need not survive
  slips

auditVars == <<files, lastHash, backups, entries, broken, slips>>

NoHash == -1
TOP    == Max(BackupChoices)

\* A line was torn; the last line was too long to be read back; a file could not be read;
\* a line is in the file whose hash the process has neither noted nor can read; a start
\* with fewer backups left one behind.
Causes == {"torn", "hidden", "unread", "unnoted", "left"}

\* A long line does not fit into the window that is read from a file's end; a torn
\* one has no end, and the line after it becomes a part of it.
Line == [prev : 0 .. LAST_ENTRY, hash : 0 .. LAST_ENTRY, kind : {"whole", "long", "torn", "garbled"}]

AuditTypeOK ==
  /\ files \in [0 .. TOP -> Seq(Line)]
  /\ lastHash \in NoHash .. LAST_ENTRY /\ backups \in BackupChoices
  /\ broken \subseteq Causes
  /\ \A n \in backups + 1 .. TOP : files[n] # <<>> => "left" \in broken

\* The file after a line was written to it.
Written(file, line) ==
  IF file # <<>> /\ Last(file).kind = "torn"
  THEN Append(Front(file), [line EXCEPT !.kind = "garbled"])
  ELSE Append(file, line)

Shifted(from) ==
  [n \in 0 .. TOP |->
     IF n < from \/ n > backups THEN files[n] ELSE IF n = from THEN <<>> ELSE files[n - 1]]

\* rotate_if_needed: the live file is full, or not.  Backups beyond the last are not
\* touched.
Rotations == {files, Shifted(0)}

\* Mutation: only the live file is looked at.
ReadTailOfLive(fs, unread) ==
  IF fs[0] = <<>> \/ 0 \in unread \/ Last(fs[0]).kind # "whole" THEN 0 ELSE Last(fs[0]).hash

\* read_last_entry_hash_from_chain: of the newest file whose last line can be read; a
\* file that fails to be read is passed over like one without such a line.
ReadTail(fs, unread) ==
  LET readable == {n \in (0 .. TOP) \ unread : fs[n] # <<>> /\ Last(fs[n]).kind = "whole"}
  IN  IF readable = {} THEN 0 ELSE Last(fs[Min(readable)]).hash

\* The files that may fail to be read, if the process has to read them.
ReadFailures == IF lastHash = NoHash /\ slips < AUDIT_SLIPS THEN SUBSET (0 .. TOP) ELSE {{}}

\* The newest line there is, if the process has to read it, is too long for that, or in a
\* file that fails to be read.
TailMissed(fs, unread) ==
  LET present == {n \in 0 .. TOP : fs[n] # <<>>}
  IN  IF lastHash # NoHash \/ present = {} THEN {}
      ELSE {c \in {"hidden", "unread"} :
              IF c = "hidden" THEN Last(fs[Min(present)]).kind = "long" ELSE Min(present) \in unread}

\* verify_audit_chain reads the oldest file first: whether it comes to line i of file n
\* right after line j of file m.
Precedes(m, j, n, i) ==
  \/ m = n /\ j = i - 1
  \/ /\ m > n /\ i = 1 /\ j = Len(files[m])
     /\ \A k \in n + 1 .. m - 1 : files[k] = <<>>
-----------------------------------------------------------------------------
PrevHash(fs, unread) == IF lastHash = NoHash THEN ReadTail(fs, unread) ELSE lastHash

LineAfter(fs, unread, kind) ==
  [prev |-> PrevHash(fs, unread), hash |-> entries', kind |-> kind]

\* _write_audit_entry
AppendEntry ==
  /\ entries < LAST_ENTRY /\ entries' = entries + 1
  /\ \E fs \in Rotations, unread \in ReadFailures, kind \in {"whole", "long"} :
       /\ files' = [fs EXCEPT ![0] = Written(@, LineAfter(fs, unread, kind))]
       /\ broken' = broken \cup TailMissed(fs, unread)
       /\ slips' = IF unread = {} THEN slips ELSE slips + 1
  /\ lastHash' = entries'
  /\ UNCHANGED backups

\* It raises: before the write, in its middle, or once the line is there (the file fails to
\* be closed).  The error is logged, and the process keeps the hash that it had.
AppendFails ==
  /\ entries < LAST_ENTRY /\ entries' = entries + 1
  /\ slips < AUDIT_SLIPS /\ slips' = slips + 1
  /\ \E fs \in Rotations, unread \in ReadFailures :
       \/ files' = fs /\ UNCHANGED broken
       \/ \E kind \in {"whole", "long", "torn"} :
            /\ files' = [fs EXCEPT ![0] = Written(@, LineAfter(fs, unread, kind))]
            /\ broken' = broken \cup TailMissed(fs, unread) \cup
                 (IF kind = "torn" THEN {"torn"}
                  ELSE IF lastHash # NoHash \/ kind = "long" THEN {"unnoted"} ELSE {})
  /\ UNCHANGED <<lastHash, backups>>

\* The rotation ends between two of its renames.
RotationFails ==
  /\ slips < AUDIT_SLIPS /\ slips' = slips + 1
  /\ \E from \in 1 .. backups : files' = Shifted(from)
  /\ UNCHANGED <<lastHash, backups, entries, broken>>

AuditRestart ==
  /\ slips < AUDIT_SLIPS /\ slips' = slips + 1
  /\ lastHash' = NoHash
  /\ backups' \in BackupChoices
  /\ broken' = broken \cup {c \in {"left"} : \E n \in backups' + 1 .. TOP : files[n] # <<>>}
  /\ UNCHANGED <<files, entries>>

AuditInit ==
  /\ files = [n \in 0 .. TOP |-> <<>>]
  /\ lastHash = NoHash /\ backups \in BackupChoices
  /\ entries = 0 /\ broken = {} /\ slips = 0

AuditNext == AppendEntry \/ AppendFails \/ RotationFails \/ AuditRestart

AuditSpec == AuditInit /\ [][AuditNext]_auditVars
-----------------------------------------------------------------------------
(* Properties.                                                             *)

\* verify_audit_chain finds nothing wrong with the links of what is retained.
Verifies ==
  \A n, m \in 0 .. TOP : \A i \in DOMAIN files[n], j \in DOMAIN files[m] :
    Precedes(m, j, n, i) => files[n][i].prev = files[m][j].hash

\* Wherever an append or a rotation fails, and through restarts, what is retained of the
\* log verifies, unless one of the five causes is there: a line torn; one too long to be
\* read back, or in a file that failed to be read, as the last when the hash had to be
\* read; one written by an append that raised all the same; a backup that a start with
\* fewer backups left where no rotation removes it.  (audit.py says that "restarts and file
\* rotations cannot fork the retained audit chain".)
RetainedChainVerifies == broken = {} => Verifies
=============================================================================

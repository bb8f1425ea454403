------------------------------- MODULE AuditFile -------------------------------
(***************************************************************************)
(* The bounded audit file of a daemon (portus-audit lib.rs FileAuditSink): *)
(* one active file and numbered archives.  A record that would pass the    *)
(* limit of the active file first moves every archive up by one and drops  *)
(* the oldest.  Each call on the file system is a step, so that a process  *)
(* may end in the middle of a rotation; the next one continues from what   *)
(* it finds.  A record is its position in the history of all records, and  *)
(* a file the sequence of its records.                                     *)
(***************************************************************************)
EXTENDS Integers, Sequences, SequencesExt

CONSTANTS
    Archives,    \* DEFAULT_AUDIT_ARCHIVES
    FileLimit    \* DEFAULT_MAX_AUDIT_FILE_BYTES, counted in records

\* There may be no archive at all, but the file itself has room for a record.
ASSUME AuditSizes == Archives \in Nat /\ FileLimit \in Nat \ {0}

VARIABLES
    files,      \* 0 is the active file, 1 .. Archives the archives
    recorded,   \* number of records written so far (history)
    rotating,   \* per process: the next file to move, or Idle
    cut         \* number of rotations that were cut short (history)

auditVars == <<files, recorded, rotating, cut>>

NoFile == <<0>>        \* no record is 0
Idle == Archives + 1
Creating == -1

Content(f) == IF f = NoFile THEN <<>> ELSE f

(* The file is created when it is opened, and stays as it is otherwise.    *)
open_with_limits == [files EXCEPT ![0] = Content(@)]

(* rotate_if_needed: the oldest archive goes, the others move up from the  *)
(* oldest to the newest, then the active file becomes archive 1.           *)
rotation_needed == Len(Content(files[0])) + 1 > FileLimit
remove_oldest == [files EXCEPT ![Archives] = NoFile]
rename(k) ==
    IF files[k] = NoFile THEN files
    ELSE [files EXCEPT ![k + 1] = files[k], ![k] = NoFile]

archive_path(k) == IF k = Archives THEN remove_oldest ELSE rename(k)

rotate_if_needed(d) ==
    \/ /\ rotating[d] = Idle
       /\ rotation_needed
       /\ rotating' = [rotating EXCEPT ![d] = Archives]
       /\ UNCHANGED <<files, recorded, cut>>
    \/ /\ rotating[d] \in 0 .. Archives
       /\ files' = archive_path(rotating[d])
       /\ rotating' = [rotating EXCEPT ![d] = @ - 1]
       /\ UNCHANGED <<recorded, cut>>

(* File::create after a rotation (it truncates), then open for append and  *)
(* write.                                                                  *)
append(d) ==
    /\ rotating[d] = Creating \/ (rotating[d] = Idle /\ ~rotation_needed)
    /\ files' = [files EXCEPT ![0] =
            Append(IF rotating[d] = Creating THEN <<>> ELSE Content(@),
                   recorded + 1)]
    /\ recorded' = recorded + 1
    /\ rotating' = [rotating EXCEPT ![d] = Idle]
    /\ UNCHANGED cut

(* An error or the end of the process leaves the files as they are.        *)
abandon_rotation(d) ==
    /\ rotating' = [rotating EXCEPT ![d] = Idle]
    /\ cut' = IF rotating[d] = Idle THEN cut ELSE cut + 1

(* What a reader of the directory finds, oldest record first.              *)
Retained ==
    FlattenSeq([k \in 1 .. Archives + 1 |-> Content(files[Archives + 1 - k])])

AuditTypeOK ==
    /\ DOMAIN files = 0 .. Archives
    /\ \A k \in 0 .. Archives :
        files[k] = NoFile \/ Len(files[k]) \in 0 .. FileLimit
    /\ \A d \in DOMAIN rotating : rotating[d] \in Creating .. Idle
===============================================================================

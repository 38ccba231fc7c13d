---------------------------- MODULE RotatingLog ----------------------------
(***************************************************************************)
(* RotatingLogWriter.kt: the persistent log of the VPN, one active file    *)
(* and its rotated backups, file 0 and files 1, 2, ... here.  append is    *)
(* synchronized, so appends do not overlap, but it consists of several     *)
(* file operations, and the process may be killed, or an operation fail,   *)
(* between any two of them: the files then stay as they are.               *)
(*                                                                         *)
(* A file is its sequence of entries, each with the offset where it ends,  *)
(* << >> also when it does not exist: an empty active file is treated like *)
(* a missing one.                                                          *)
(***************************************************************************)
EXTENDS Integers, Sequences

CONSTANTS
  MaxFileBytes,
  MaxFileCount,
  MaxEntry    \* bound: entries ever appended

ASSUME LogAssumption ==
  /\ MaxFileBytes \in Nat \ {0}
  /\ MaxFileCount \in Nat \ {0}
  /\ MaxEntry \in Nat

VARIABLES
  files,    \* [File -> Seq(Entry)]
  entries,  \* the number of append calls so far
  size,     \* the size of the entry being appended
  step,     \* where append is
  slot      \* the backup to fill next, while it moves files

vars == <<files, entries, size, step, slot>>

\* The last file is a backup of a configuration that kept one file more.
File  == 0 .. MaxFileCount
Kept  == 0 .. MaxFileCount - 1
Entry == [id : 0 .. MaxEntry, end : Nat \ {0}]

\* The length of a file.
Length(f) == IF f = << >> THEN 0 ELSE f[Len(f)].end

TypeOK ==
  /\ \A k \in File : \A i \in DOMAIN files[k] : files[k][i] \in Entry
  /\ entries \in 0 .. MaxEntry
  /\ size \in 0 .. MaxFileBytes
  /\ step \in {"idle", "expire", "move", "write"}
  /\ slot \in Kept

Init ==
  /\ files \in {[k \in File |-> IF k = MaxFileCount THEN old ELSE << >>] :
                  old \in {<< >>, <<[id |-> 0, end |-> MaxFileBytes]>>}}
  /\ entries = 0
  /\ size = 0
  /\ step = "idle"
  /\ slot = 0

----------------------------------------------------------------------------
\* Fault: the file may outgrow the limit by the entry.
RotatesLate(n) == files[0] # << >> /\ Length(files[0]) > MaxFileBytes

ShouldRotate(n) == files[0] # << >> /\ Length(files[0]) + n > MaxFileBytes

\* append of an entry of n bytes; a larger one than a file may hold is refused.
AppendEntry(n) ==
  /\ step = "idle"
  /\ entries < MaxEntry
  /\ n <= MaxFileBytes
  /\ entries' = entries + 1
  /\ size' = n
  /\ step' = IF ShouldRotate(n) THEN "expire" ELSE "write"
  /\ UNCHANGED <<files, slot>>

\* Go on with backup k, and with the write when there is none left.
MoveOrWrite(k) == slot' = k /\ step' = IF k = 0 THEN "write" ELSE "move"

\* Fault: every backup from the limit on is dropped, the oldest one kept too.
RemoveExpiredEarly ==
  /\ step = "expire"
  /\ files' = [k \in File |-> IF k >= MaxFileCount - 1 THEN << >> ELSE files[k]]
  /\ MoveOrWrite(MaxFileCount - 1)
  /\ UNCHANGED <<entries, size>>

\* Fault: the moves start one backup too far.
RemoveExpiredTooFar ==
  /\ step = "expire"
  /\ files' = [k \in File |-> IF k >= MaxFileCount THEN << >> ELSE files[k]]
  /\ MoveOrWrite(MaxFileCount)
  /\ UNCHANGED <<entries, size>>

\* removeExpiredBackups, and the deletion of a log of one file.
RemoveExpired ==
  /\ step = "expire"
  /\ files' = [k \in File |->
                IF k >= MaxFileCount \/ MaxFileCount = 1 THEN << >> ELSE files[k]]
  /\ MoveOrWrite(MaxFileCount - 1)
  /\ UNCHANGED <<entries, size>>

\* Fault: the active file is copied and not moved.
MoveKeeping(k) ==
  /\ step = "move" /\ slot = k
  /\ files' = IF files[k - 1] = << >> THEN files
              ELSE [files EXCEPT ![k] = files[k - 1]]
  /\ MoveOrWrite(k - 1)
  /\ UNCHANGED <<entries, size>>

\* One file moves over the next older one, if it exists.
Move(k) ==
  /\ step = "move" /\ slot = k
  /\ files' = IF files[k - 1] = << >> THEN files
              ELSE [files EXCEPT ![k] = files[k - 1], ![k - 1] = << >>]
  /\ MoveOrWrite(k - 1)
  /\ UNCHANGED <<entries, size>>

\* appendBytes, of n bytes: all of them unless it is interrupted.
Write(n) ==
  /\ step = "write"
  /\ n <= size
  /\ files' = [files EXCEPT ![0] = Append(@, [id |-> entries, end |-> Length(@) + n])]
  /\ step' = "idle"
  /\ UNCHANGED <<entries, size, slot>>

\* The process is killed or a file operation fails.
Interrupt ==
  /\ step # "idle"
  /\ step' = "idle"
  /\ UNCHANGED <<files, entries, size, slot>>

Next ==
  \/ \E n \in 1 .. MaxFileBytes : AppendEntry(n) \/ Write(n)
  \/ RemoveExpired
  \/ \E k \in 1 .. MaxFileCount - 1 : Move(k)
  \/ Interrupt

Spec == Init /\ [][Next]_vars

----------------------------------------------------------------------------
(* Properties.                                                             *)

Ids(f) == {f[i].id : i \in DOMAIN f}
AllIds == UNION {Ids(files[k]) : k \in File}

\* "A single pathological entry must not violate the configured file cap", and
\* neither do interrupted appends and rotations.
FilesBounded == \A k \in File : Length(files[k]) <= MaxFileBytes

\* ".1 is newer than .2": read from the oldest backup to the active file the
\* entries are in the order they were appended, and none is there twice,
\* wherever a rotation was interrupted.
ReadsInOrder ==
  /\ \A k \in File : \A i, j \in DOMAIN files[k] :
       i < j => files[k][i].id < files[k][j].id
  /\ \A k, m \in File : k < m =>
       \A e \in Ids(files[k]), d \in Ids(files[m]) : d < e

\* "Move oldest to newest so no retained generation is overwritten early": what
\* a step loses is older than all it keeps, and beyond the expired backups it
\* loses something only when the active file and every backup are in use.  The
\* latter holds for up to three files, the code's number: of four, two interrupted
\* rotations can leave one free between the others.
OnlyOldestIsLost ==
  [][\A d \in AllIds \ AllIds' :
       /\ \A e \in AllIds' : d < e
       /\ (d \notin Ids(files[MaxFileCount])) => \A k \in Kept : files[k] # << >>]_vars
=============================================================================

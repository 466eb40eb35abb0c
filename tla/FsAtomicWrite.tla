----------------------------- MODULE FsAtomicWrite -----------------------------
(***************************************************************************)
(* __tyna_fs_write_atomic, __tyna_fs_read_all and __tyna_fs_remove on one  *)
(* path (fs.c), called by several processes, with every system call able   *)
(* to fail and the machine able to stop between any two.                   *)
(*                                                                         *)
(* A file is the datum being written into it, how much of it there is, and *)
(* how much of that is on disk; its index is its inode.  Writers only      *)
(* write to the file they made, so a file is a prefix of one datum.        *)
(***************************************************************************)
EXTENDS Integers, Sequences

CONSTANTS
  Writers, Readers,   \* processes inside a call, at most one call each
  Data,               \* what they write
  Size,               \* Size[d]: the length of d in bytes
  Garbage,            \* what a failed copy of a packed str makes of a datum
  NoFile,
  CopyMayFail,        \* whether malloc may fail in __tyna_as_c_ptr
  MaxFiles,           \* bound: files ever made
  MaxCrashes          \* bound

ASSUME FsAssumption ==
  /\ Size \in [Data -> Nat] /\ Garbage \notin Data /\ NoFile \notin Data
  /\ CopyMayFail \in BOOLEAN /\ MaxFiles \in Nat /\ MaxCrashes \in Nat
  /\ Data # {}

VARIABLES
  files,      \* Seq of files: all that were ever made
  target,     \* the file the path leads to, 0 when there is none
  onDisk,     \* what the path may lead to after a crash
  temps,      \* the files whose temporary name exists
  leaked,     \* history: those whose call ended without a successful unlink
  writer,     \* writer[w]: the local variables of a call of write_atomic
  reader,     \* reader[r]: those of a call of read_all
  crashes

vars == <<files, target, onDisk, temps, leaked, writer, reader, crashes>>

Stages == {"begin", "cloexec", "write", "fsync", "close", "rename", "dirsync",
           "return", "unlink", "ok", "error", "idle"}

(* tmp is the temporary file, 0 before mkstemp; failed says that result is *)
(* not 0.                                                                  *)
Writer == [at : Stages, want : Data \cup {NoFile}, tmp : Nat, failed : BOOLEAN]

Reader == [at : {"idle", "read", "ok", "error"}, file : Nat, len : Nat]

File == [data : Data \cup {Garbage}, len : Nat, disk : Nat]

IdleWriter == [at |-> "idle", want |-> NoFile, tmp |-> 0, failed |-> FALSE]
IdleReader == [at |-> "idle", file |-> 0, len |-> 0]

TypeOK ==
  /\ files \in Seq(File) /\ \A i \in DOMAIN files : files[i].disk <= files[i].len
  /\ target \in 0..Len(files)
  /\ onDisk \subseteq 0..Len(files)
  /\ temps \subseteq 1..Len(files) /\ leaked \subseteq temps
  /\ writer \in [Writers -> Writer]
  /\ reader \in [Readers -> Reader]
  /\ crashes \in Nat

Init ==
  /\ \E d \in Data \cup {NoFile} :
       /\ files = IF d = NoFile THEN <<>>
                  ELSE <<[data |-> d, len |-> Size[d], disk |-> Size[d]]>>
       /\ target = Len(files)
  /\ onDisk = {target}
  /\ temps = {} /\ leaked = {}
  /\ writer = [w \in Writers |-> IdleWriter]
  /\ reader = [r \in Readers |-> IdleReader]
  /\ crashes = 0

-------------------------------------------------------------------------------
(* __tyna_fs_write_atomic, one action for each system call.                *)

Goto(w, stage) == writer' = [writer EXCEPT ![w].at = stage]

(* The call returns, and its local variables are gone.                     *)
End(w, stage) == writer' = [writer EXCEPT ![w] = [IdleWriter EXCEPT !.at = stage]]

Call(w, d) ==
  /\ writer[w].at \in {"idle", "ok", "error"}
  /\ writer' = [writer EXCEPT ![w].at = "begin", ![w].want = d]
  /\ UNCHANGED <<files, target, onDisk, temps, leaked, reader, crashes>>

(* An empty path, no memory for the name, or mkstemp fails.                *)
RefuseCall(w) ==
  /\ writer[w].at = "begin"
  /\ End(w, "error")
  /\ UNCHANGED <<files, target, onDisk, temps, leaked, reader, crashes>>

(* The bytes come from __tyna_as_c_ptr: for a packed str a copy, "" when   *)
(* there is no memory for it, while the length stays that of the str.      *)
Mkstemp(w) ==
  /\ writer[w].at = "begin"
  /\ Len(files) < MaxFiles
  /\ \E d \in {writer[w].want} \cup (IF CopyMayFail THEN {Garbage} ELSE {}) :
       files' = Append(files, [data |-> d, len |-> 0, disk |-> 0])
  /\ temps' = temps \cup {Len(files')}
  /\ writer' = [writer EXCEPT ![w].at = "cloexec", ![w].tmp = Len(files')]
  /\ UNCHANGED <<leaked, target, onDisk, reader, crashes>>

(* A failed fcntl returns before the part of the function that unlinks.    *)
SetCloexec(w) ==
  /\ writer[w].at = "cloexec"
  /\ \/ Goto(w, "write") /\ UNCHANGED leaked
     \/ /\ End(w, "error")
        /\ leaked' = leaked \cup {writer[w].tmp}
  /\ UNCHANGED <<files, target, onDisk, temps, reader, crashes>>

Remaining(w) == Size[writer[w].want] - files[writer[w].tmp].len

(* One round of the loop: write takes some of what is left, or fails.      *)
Write(w) ==
  /\ writer[w].at = "write" /\ Remaining(w) > 0
  /\ \/ /\ \E n \in 1..Remaining(w) :
             files' = [files EXCEPT ![writer[w].tmp].len = @ + n]
        /\ UNCHANGED writer
     \/ /\ writer' = [writer EXCEPT ![w].at = "close", ![w].failed = TRUE]
        /\ UNCHANGED files
  /\ UNCHANGED <<target, onDisk, temps, leaked, reader, crashes>>

(* Mutant: the loop goes on at the end of the datum.                       *)
FsyncLate(w) ==
  /\ writer[w].at = "write" /\ Remaining(w) < 0
  /\ Goto(w, "close")
  /\ UNCHANGED <<files, target, onDisk, temps, leaked, reader, crashes>>

(* Mutant: fsync is forgotten.                                             *)
CloseUnsynced(w) ==
  /\ writer[w].at = "write" /\ Remaining(w) = 0
  /\ Goto(w, "rename")
  /\ UNCHANGED <<files, target, onDisk, temps, leaked, reader, crashes>>

Fsync(w) ==
  /\ writer[w].at = "write" /\ Remaining(w) = 0
  /\ \/ /\ files' = [files EXCEPT ![writer[w].tmp].disk = Size[writer[w].want]]
        /\ Goto(w, "close")
     \/ /\ writer' = [writer EXCEPT ![w].at = "close", ![w].failed = TRUE]
        /\ UNCHANGED files
  /\ UNCHANGED <<target, onDisk, temps, leaked, reader, crashes>>

Close(w) ==
  /\ writer[w].at = "close"
  /\ \E failed \in {writer[w].failed, TRUE} :
       writer' = [writer EXCEPT
                    ![w].failed = failed,
                    ![w].at = IF failed THEN "unlink" ELSE "rename"]
  /\ UNCHANGED <<files, target, onDisk, temps, leaked, reader, crashes>>

(* Mutant: a failed rename is not reported.                                *)
RenameUnchecked(w) ==
  /\ writer[w].at = "rename"
  /\ \/ /\ target' = writer[w].tmp
        /\ onDisk' = onDisk \cup {target'}
        /\ temps' = temps \ {writer[w].tmp}
     \/ UNCHANGED <<target, onDisk, temps>>
  /\ Goto(w, "dirsync")
  /\ UNCHANGED <<leaked, files, reader, crashes>>

Rename(w) ==
  /\ writer[w].at = "rename"
  /\ \/ /\ target' = writer[w].tmp
        /\ onDisk' = onDisk \cup {target'}
        /\ temps' = temps \ {writer[w].tmp}
        /\ Goto(w, "dirsync")
     \/ /\ writer' = [writer EXCEPT ![w].at = "unlink", ![w].failed = TRUE]
        /\ UNCHANGED <<target, onDisk, temps>>
  /\ UNCHANGED <<leaked, files, reader, crashes>>

(* The directory is opened and synced.                                     *)
SyncDirectory(w) ==
  /\ writer[w].at = "dirsync"
  /\ onDisk' = {target}
  /\ Goto(w, "return")
  /\ UNCHANGED <<files, target, temps, leaked, reader, crashes>>

(* That either fails is ignored, and neither is tried for a file in "/" or *)
(* in a directory with a very long name.                                   *)
ReturnOk(w) ==
  /\ writer[w].at \in {"dirsync", "return"}
  /\ End(w, "ok")
  /\ UNCHANGED <<files, target, onDisk, temps, leaked, reader, crashes>>

(* Mutant: the temporary file is left when the call fails.                 *)
UnlinkNothing(w) ==
  /\ writer[w].at = "unlink"
  /\ End(w, "error")
  /\ UNCHANGED <<files, target, onDisk, temps, leaked, reader, crashes>>

(* That unlink fails is ignored.                                           *)
Unlink(w) ==
  /\ writer[w].at = "unlink"
  /\ \/ /\ temps' = temps \ {writer[w].tmp}
        /\ UNCHANGED leaked
     \/ /\ leaked' = leaked \cup {writer[w].tmp}
        /\ UNCHANGED temps
  /\ End(w, "error")
  /\ UNCHANGED <<files, target, onDisk, reader, crashes>>

WriteStep(w) ==
  \/ RefuseCall(w) \/ Mkstemp(w) \/ SetCloexec(w) \/ Write(w) \/ Fsync(w)
  \/ Close(w) \/ Rename(w) \/ SyncDirectory(w) \/ ReturnOk(w) \/ Unlink(w)

-------------------------------------------------------------------------------
(* __tyna_fs_remove.                                                       *)
Remove ==
  /\ target # 0
  /\ target' = 0
  /\ onDisk' = onDisk \cup {0}
  /\ UNCHANGED <<files, temps, leaked, writer, reader, crashes>>

(* __tyna_fs_read_all.  The descriptor keeps leading to the file it was    *)
(* opened on, whatever becomes of its name.                                *)
Open(r) ==
  /\ reader[r].at # "read"
  /\ reader' = [reader EXCEPT ![r] =
                  IF target = 0 THEN [IdleReader EXCEPT !.at = "error"]
                  ELSE [at |-> "read", file |-> target, len |-> 0]]
  /\ UNCHANGED <<files, target, onDisk, temps, leaked, writer, crashes>>

(* One round of the loop: read returns some of what there is, nothing at   *)
(* the end of the file, or fails, as may the growth of the buffer.         *)
Read(r) ==
  /\ reader[r].at = "read"
  /\ LET left == files[reader[r].file].len - reader[r].len IN
       \/ \E n \in 1..left : reader' = [reader EXCEPT ![r].len = @ + n]
       \/ left = 0 /\ reader' = [reader EXCEPT ![r].at = "ok"]
       \/ reader' = [reader EXCEPT ![r].at = "error"]
  /\ UNCHANGED <<files, target, onDisk, temps, leaked, writer, crashes>>

(* The process of a call is killed.                                        *)
Kill(w) ==
  /\ crashes < MaxCrashes
  /\ crashes' = crashes + 1
  /\ leaked' = leaked \cup (temps \cap {writer[w].tmp})
  /\ writer' = [writer EXCEPT ![w] = IdleWriter]
  /\ UNCHANGED <<files, target, onDisk, temps, reader>>

(* The machine stops.  The path leads to one of the files it led to since  *)
(* the directory was last synced, and of that file at least the part that  *)
(* was synced is there.  What becomes of the others is of no interest.     *)
Crash ==
  /\ crashes < MaxCrashes
  /\ crashes' = crashes + 1
  /\ target' \in onDisk
  /\ onDisk' = {target'}
  /\ \E left \in IF target' = 0 THEN {0}
                 ELSE files[target'].disk .. files[target'].len :
       files' = [i \in DOMAIN files |->
                   IF i = target'
                     THEN [files[i] EXCEPT !.len = left, !.disk = left]
                     ELSE [files[i] EXCEPT !.len = files[i].disk]]
  /\ temps' = {} /\ leaked' = {}
  /\ writer' = [w \in Writers |-> IdleWriter]
  /\ reader' = [r \in Readers |-> IdleReader]

Next ==
  \/ \E w \in Writers : (\E d \in Data : Call(w, d)) \/ WriteStep(w)
  \/ Remove
  \/ \E w \in Writers : Kill(w)
  \/ \E r \in Readers : Open(r) \/ Read(r)
  \/ Crash

(* The system answers every call it is asked.                              *)
Fairness ==
  /\ \A w \in Writers : WF_vars(WriteStep(w))
  /\ \A r \in Readers : WF_vars(Read(r))

Spec == Init /\ [][Next]_vars
FairSpec == Spec /\ Fairness

-------------------------------------------------------------------------------
Whole(i) ==
  i # 0 => files[i].data \in Data /\ files[i].len = Size[files[i].data]

Busy(w) == writer[w].at \notin {"idle", "ok", "error"}

(* What a crash may leave at the path is whole now and is all on disk.     *)
SurvivesWhole ==
  \A i \in onDisk : Whole(i) /\ (i = 0 \/ files[i].disk = files[i].len)

(* A read that succeeds returns the whole of one write, also when the path *)
(* was written or removed while it was under way.                          *)
ReadsWhole ==
  \A r \in Readers : reader[r].at = "ok" =>
    /\ files[reader[r].file].data \in Data
    /\ reader[r].len = Size[files[reader[r].file].data]

(* Neither a crash nor a reader at any moment finds a part of a write.     *)
WholeFiles == SurvivesWhole /\ ReadsWhole

(* A call that has returned leaves no temporary file, unless fcntl or      *)
(* unlink failed; no call works on the file of another, nor on one that    *)
(* the path leads to.                                                      *)
TemporaryFilesGo ==
  /\ \A i \in temps \ leaked : \E w \in Writers : Busy(w) /\ writer[w].tmp = i
  /\ \A w \in Writers :
       writer[w].tmp # 0 /\ writer[w].at \notin {"dirsync", "return"} =>
       /\ writer[w].tmp \in temps \ (onDisk \cup leaked)
       /\ \A v \in Writers \ {w} : writer[v].tmp # writer[w].tmp

(* The directory holds what the calls under way need and no more.          *)
DirectorySound == TypeOK /\ TemporaryFilesGo

(* Every call returns.                                                     *)
CallsReturn ==
  /\ \A w \in Writers : Busy(w) ~> ~Busy(w)
  /\ \A r \in Readers : reader[r].at = "read" ~> reader[r].at # "read"

-------------------------------------------------------------------------------
(* The path as AtomicFile sees it.                                         *)
ContentsOf(i) == IF i = 0 THEN NoFile ELSE files[i].data

AbstractStage(stage) ==
  IF stage \in {"dirsync", "return"} THEN "taken"
  ELSE IF stage \in {"idle", "ok", "error"} THEN stage ELSE "asked"

Abstract == INSTANCE AtomicFile WITH
  contents <- ContentsOf(target),
  survivors <- {ContentsOf(i) : i \in onDisk},
  write <- [w \in Writers |-> [at |-> AbstractStage(writer[w].at),
                               data |-> writer[w].want]],
  answer <- [r \in Readers |-> ContentsOf(reader[r].file)]

(* Two processes that write the same path, and any that read it, see the   *)
(* atomic file of fs.tn.                                                   *)
Atomic == Abstract!AbstractSpec
===============================================================================

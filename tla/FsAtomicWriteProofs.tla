-------------------------- MODULE FsAtomicWriteProofs --------------------------
(***************************************************************************)
(* What is proved of FsAtomicWrite for any number of processes that write  *)
(* and read the path, any data and any number of files and crashes.        *)
(***************************************************************************)
EXTENDS FsAtomicWrite, SequenceTheorems, TLAPS

(***************************************************************************)
(* The inductive invariants.                                               *)
(***************************************************************************)

Before == {"idle", "ok", "error", "begin"}
Renamed == {"dirsync", "return"}

(* The local variables of a call, at every stage: from mkstemp on it has a *)
(* file, which holds no more than what the call was asked to write, and    *)
(* all of it when the loop ended without a failure.                        *)
CallSound(w) ==
  /\ writer[w].at \in Before => writer[w].tmp = 0
  /\ writer[w].at \notin Before => writer[w].tmp \in DOMAIN files
  /\ writer[w].at \in Before \cup {"cloexec", "write"} => ~writer[w].failed
  /\ Busy(w) => writer[w].want \in Data
  /\ writer[w].at \in Renamed => writer[w].tmp \notin temps
  /\ writer[w].at \notin Before \cup Renamed =>
       /\ ~CopyMayFail => files[writer[w].tmp].data = writer[w].want
       /\ files[writer[w].tmp].len <= Size[writer[w].want]
  /\ writer[w].at = "rename" \/ (writer[w].at = "close" /\ ~writer[w].failed)
       => /\ files[writer[w].tmp].len = Size[writer[w].want]
          /\ files[writer[w].tmp].disk = Size[writer[w].want]

(* A read has a file, to which nobody writes any more.                     *)
ReadersApart ==
  \A r \in Readers :
    /\ reader[r].file \in 0 .. Len(files)
    /\ reader[r].at = "read" => reader[r].file # 0
    /\ \A w \in Writers :
         reader[r].file # 0 /\ writer[w].tmp = reader[r].file =>
           writer[w].at \in Renamed

Inv ==
  /\ TypeOK
  /\ TemporaryFilesGo
  /\ \A w \in Writers : CallSound(w)
  /\ target \in onDisk
  /\ ReadersApart

(* The files that are read are whole, and so is what may be left at the    *)
(* path.                                                                   *)
ReaderSound(r) ==
  /\ reader[r].at \in {"read", "ok"} =>
       /\ reader[r].file # 0 /\ Whole(reader[r].file)
       /\ reader[r].len <= files[reader[r].file].len
  /\ reader[r].at = "ok" => reader[r].len = files[reader[r].file].len

WholeInv == Inv /\ SurvivesWhole /\ \A r \in Readers : ReaderSound(r)

-------------------------------------------------------------------------------
(***************************************************************************)
(* Files.                                                                  *)
(***************************************************************************)

(* A file that is replaced leaves the others as they are.                  *)
LEMMA FileReplaced ==
  ASSUME NEW s \in Seq(File), NEW i \in DOMAIN s, NEW f \in File
  PROVE  /\ [s EXCEPT ![i] = f] \in Seq(File)
         /\ Len([s EXCEPT ![i] = f]) = Len(s)
         /\ DOMAIN [s EXCEPT ![i] = f] = DOMAIN s
         /\ [s EXCEPT ![i] = f][i] = f
         /\ \A j \in DOMAIN s : j # i => [s EXCEPT ![i] = f][j] = s[j]
  OBVIOUS

LEMMA FileMade ==
  ASSUME NEW s \in Seq(File), NEW f \in File
  PROVE  /\ Append(s, f) \in Seq(File)
         /\ Len(Append(s, f)) = Len(s) + 1
         /\ DOMAIN Append(s, f) = DOMAIN s \cup {Len(s) + 1}
         /\ Append(s, f)[Len(s) + 1] = f
         /\ \A j \in DOMAIN s : Append(s, f)[j] = s[j]
  OBVIOUS

(* The types of what a step reads.                                         *)
LEMMA Types ==
  ASSUME Inv
  PROVE  /\ files \in Seq(File) /\ Len(files) \in Nat
         /\ DOMAIN files = 1 .. Len(files)
         /\ \A i \in DOMAIN files :
              /\ files[i] \in File
              /\ files[i].data \in Data \cup {Garbage}
              /\ files[i].len \in Nat /\ files[i].disk \in Nat
              /\ files[i].disk <= files[i].len
         /\ \A w \in Writers :
              /\ writer[w].at \in Stages
              /\ writer[w].want \in Data \cup {NoFile}
              /\ writer[w].tmp \in 0 .. Len(files)
              /\ writer[w].failed \in BOOLEAN
         /\ \A r \in Readers :
              /\ reader[r].at \in {"idle", "read", "ok", "error"}
              /\ reader[r].file \in 0 .. Len(files)
              /\ reader[r].len \in Nat
<1>1. /\ files \in Seq(File) /\ Len(files) \in Nat
      /\ DOMAIN files = 1 .. Len(files)
  BY DEF Inv, TypeOK
<1>2. \A i \in DOMAIN files :
        /\ files[i] \in File /\ files[i].disk <= files[i].len
  BY <1>1 DEF Inv, TypeOK
<1>3. \A w \in Writers : writer[w] \in Writer
  BY DEF Inv, TypeOK
<1>4. \A r \in Readers : reader[r] \in Reader
  BY DEF Inv, TypeOK
<1>5. \A w \in Writers : writer[w].tmp \in 0 .. Len(files)
  <2> TAKE w \in Writers
  <2>1. CallSound(w)
    BY DEF Inv
  <2>2. writer[w].tmp = 0 \/ writer[w].tmp \in DOMAIN files
    BY <2>1 DEF CallSound
  <2> QED
    BY <2>2, <1>1
<1> QED
  BY <1>1, <1>2, <1>3, <1>4, <1>5 DEF Inv, ReadersApart, File, Writer, Reader

-------------------------------------------------------------------------------
(***************************************************************************)
(* The initial states.                                                     *)
(***************************************************************************)

LEMMA InitInv == Init => WholeInv
<1> SUFFICES ASSUME Init PROVE WholeInv
  OBVIOUS
<1>1. PICK d \in Data \cup {NoFile} :
        /\ files = IF d = NoFile THEN <<>>
                   ELSE <<[data |-> d, len |-> Size[d], disk |-> Size[d]]>>
        /\ target = Len(files)
  BY DEF Init
<1>2. /\ files \in Seq(File) /\ target \in {0, 1} /\ target = Len(files)
      /\ \A i \in DOMAIN files :
           /\ files[i].disk = files[i].len
           /\ files[i].data \in Data
           /\ files[i].len = Size[files[i].data]
  <2>1. CASE d = NoFile
    BY <1>1, <2>1
  <2>2. CASE d # NoFile
    <3>1. Size[d] \in Nat
      BY <2>2, FsAssumption
    <3>2. [data |-> d, len |-> Size[d], disk |-> Size[d]] \in File
      BY <2>2, <3>1 DEF File
    <3> QED
      BY <1>1, <2>2, <3>2
  <2> QED
    BY <2>1, <2>2
<1>3. TypeOK
  BY <1>2
     DEF Init, TypeOK, Writer, Reader, IdleWriter, IdleReader, Stages, File
<1>4. TemporaryFilesGo
  BY DEF Init, TemporaryFilesGo, IdleWriter
<1>5. \A w \in Writers : CallSound(w)
  BY DEF Init, CallSound, IdleWriter, Before, Renamed, Busy
<1>6. target \in onDisk /\ ReadersApart
  BY <1>2 DEF Init, ReadersApart, IdleWriter, IdleReader
<1>7. SurvivesWhole
  BY <1>2 DEF Init, SurvivesWhole, Whole
<1>8. \A r \in Readers : ReaderSound(r)
  BY DEF Init, ReaderSound, IdleReader
<1> QED
  BY <1>3, <1>4, <1>5, <1>6, <1>7, <1>8 DEF WholeInv, Inv

-------------------------------------------------------------------------------
(***************************************************************************)
(* The steps of a call of write_atomic that leave the files alone.         *)
(***************************************************************************)

(* A reader stays apart from the calls when no call takes up a file but    *)
(* one that it makes, and none writes again to one it renamed.             *)
LEMMA ApartKept ==
  ASSUME Inv, UNCHANGED reader, Len(files') \in Nat, Len(files') >= Len(files),
         \A v \in Writers :
           \/ writer'[v].tmp \in {0, Len(files) + 1}
           \/ /\ writer'[v].tmp = writer[v].tmp
              /\ writer[v].at \in Renamed => writer'[v].at \in Renamed
  PROVE  ReadersApart'
<1> SUFFICES ASSUME NEW r \in Readers
             PROVE  /\ reader[r].file \in 0 .. Len(files')
                    /\ reader[r].at = "read" => reader[r].file # 0
                    /\ \A w \in Writers :
                         reader[r].file # 0 /\ writer'[w].tmp = reader[r].file
                           => writer'[w].at \in Renamed
  BY DEF ReadersApart
<1>1. reader[r].file \in 0 .. Len(files) /\ Len(files) \in Nat
  BY Types
<1>2. \A w \in Writers :
        reader[r].file # 0 /\ writer[w].tmp = reader[r].file =>
          writer[w].at \in Renamed
  BY DEF Inv, ReadersApart
<1>3. reader[r].at = "read" => reader[r].file # 0
  BY DEF Inv, ReadersApart
<1> QED
  BY <1>1, <1>2, <1>3

(* A write, an fsync or a rename that fails.                               *)
LEMMA CallFails ==
  ASSUME Inv, NEW w \in Writers, writer[w].at \in {"write", "rename"},
         NEW stage \in {"close", "unlink"},
         writer' = [writer EXCEPT ![w].at = stage, ![w].failed = TRUE],
         UNCHANGED <<files, target, onDisk, temps, leaked, reader, crashes>>
  PROVE  Inv'
<1>1. CallSound(w) /\ writer[w] \in Writer /\ writer \in [Writers -> Writer]
  BY DEF Inv, TypeOK
<1>2. /\ writer'[w] = [writer[w] EXCEPT !.at = stage, !.failed = TRUE]
      /\ writer' \in [Writers -> Writer]
      /\ \A v \in Writers : v # w => writer'[v] = writer[v]
  BY <1>1 DEF Writer, Stages
<1>3. TypeOK'
  BY <1>2 DEF Inv, TypeOK
<1>4. TemporaryFilesGo'
  BY <1>1, <1>2 DEF Inv, TemporaryFilesGo, Busy, Writer
<1>5. \A v \in Writers : CallSound(v)'
  <2>1. CallSound(w)'
    BY <1>1, <1>2 DEF CallSound, Before, Renamed, Busy, Writer
  <2>2. ASSUME NEW v \in Writers, v # w
        PROVE  CallSound(v)'
    BY <2>2, <1>2 DEF Inv, CallSound, Busy
  <2> QED
    BY <2>1, <2>2
<1>6. target' \in onDisk' /\ ReadersApart'
  BY <1>1, <1>2, Types, ApartKept DEF Inv, Renamed, Writer
<1> QED
  BY <1>3, <1>4, <1>5, <1>6 DEF Inv

LEMMA CallInv ==
  ASSUME Inv, NEW w \in Writers, NEW d \in Data, Call(w, d)
  PROVE  Inv'
<1>1. CallSound(w) /\ writer[w] \in Writer /\ writer \in [Writers -> Writer]
  BY DEF Inv, TypeOK
<1>2. TypeOK'
  <2>1. [writer[w] EXCEPT !.at = "begin", !.want = d] \in Writer
    BY <1>1 DEF Writer, Stages
  <2>2. writer' \in [Writers -> Writer]
    BY <1>1, <2>1 DEF Call
  <2>3. UNCHANGED <<files, target, onDisk, temps, leaked, reader, crashes>>
    BY DEF Call
  <2> QED
    BY <2>2, <2>3 DEF Inv, TypeOK
<1>3. TemporaryFilesGo'
  <2>1. \A v \in Writers : Busy(v) => v # w /\ writer'[v] = writer[v]
    BY <1>1 DEF Busy, Call
  <2>2. \A v \in Writers : /\ writer'[v].tmp = writer[v].tmp
                           /\ v # w => writer'[v] = writer[v]
    BY <1>1 DEF Writer, Call
  <2>3. writer'[w].tmp = 0
    BY <2>2, <1>1 DEF CallSound, Before, Call
  <2>4. \A v \in Writers : Busy(v) => Busy(v)'
    BY <2>1 DEF Busy
  <2>5. UNCHANGED <<temps, leaked, onDisk>>
    BY DEF Call
  <2> QED
    BY <2>1, <2>2, <2>3, <2>4, <2>5 DEF Inv, TemporaryFilesGo
<1>4. \A v \in Writers : CallSound(v)'
  BY <1>1, Types
     DEF Inv, TypeOK, TemporaryFilesGo, CallSound, Before, Renamed, Busy,
         Writer, Call
<1>5. target' \in onDisk' /\ ReadersApart'
  BY <1>1, Types, ApartKept
     DEF Inv, CallSound, Before, Renamed, Call
<1> QED
  BY <1>2, <1>3, <1>4, <1>5 DEF Inv

LEMMA RefuseCallInv ==
  ASSUME Inv, NEW w \in Writers, RefuseCall(w)
  PROVE  Inv'
<1>1. CallSound(w) /\ writer[w] \in Writer /\ writer \in [Writers -> Writer]
  BY DEF Inv, TypeOK
<1>2. TypeOK'
  BY <1>1, Types
     DEF Inv, TypeOK, TemporaryFilesGo, CallSound, Before, Renamed, Writer,
         RefuseCall, End, IdleWriter, Stages
<1>3. TemporaryFilesGo'
  BY <1>1, Types
     DEF Inv, TypeOK, TemporaryFilesGo, CallSound, Before, Renamed, Busy,
         Writer, RefuseCall, End, IdleWriter
<1>4. \A v \in Writers : CallSound(v)'
  BY <1>1, Types
     DEF Inv, TypeOK, TemporaryFilesGo, CallSound, Before, Renamed, Busy,
         Writer, RefuseCall, End, IdleWriter
<1>5. target' \in onDisk' /\ ReadersApart'
  BY <1>1, Types, ApartKept
     DEF Inv, CallSound, Before, Renamed, RefuseCall, End, IdleWriter
<1> QED
  BY <1>2, <1>3, <1>4, <1>5 DEF Inv

LEMMA SetCloexecInv ==
  ASSUME Inv, NEW w \in Writers, SetCloexec(w)
  PROVE  Inv'
<1>1. CallSound(w) /\ writer[w] \in Writer /\ writer \in [Writers -> Writer]
  BY DEF Inv, TypeOK
<1>2. /\ writer[w].at = "cloexec"
      /\ UNCHANGED <<files, target, onDisk, temps, reader, crashes>>
  BY DEF SetCloexec
<1>3. /\ writer[w].tmp \in DOMAIN files /\ writer[w].tmp # 0
      /\ writer[w].tmp \in temps /\ writer[w].tmp \notin onDisk \cup leaked
      /\ \A v \in Writers \ {w} : writer[v].tmp # writer[w].tmp
  BY <1>1, <1>2, Types DEF Inv, TemporaryFilesGo, CallSound, Before
<1>4. CASE Goto(w, "write") /\ UNCHANGED leaked
  <2>1. TypeOK'
    BY <1>1, <1>2, <1>3, <1>4, Types
       DEF Inv, TypeOK, Writer, Stages, Goto, End, IdleWriter
  <2>2. TemporaryFilesGo'
    BY <1>1, <1>2, <1>3, <1>4, Types
       DEF Inv, TemporaryFilesGo, Busy, Writer, Renamed, Goto, End, IdleWriter
  <2>3. \A v \in Writers : CallSound(v)'
    BY <1>1, <1>2, <1>3, <1>4, Types
       DEF Inv, TypeOK, TemporaryFilesGo, CallSound, Before, Renamed, Busy,
           Writer, Goto, End, IdleWriter
  <2>4. target' \in onDisk' /\ ReadersApart'
    BY <1>1, <1>2, <1>3, <1>4, Types, ApartKept
       DEF Inv, CallSound, Before, Renamed, Writer, Goto, End, IdleWriter
  <2> QED
    BY <2>1, <2>2, <2>3, <2>4 DEF Inv
<1>5. CASE /\ End(w, "error")
              /\ leaked' = leaked \cup {writer[w].tmp}
  <2>1. TypeOK'
    BY <1>1, <1>2, <1>3, <1>5, Types
       DEF Inv, TypeOK, Writer, Stages, Goto, End, IdleWriter
  <2>2. TemporaryFilesGo'
    BY <1>1, <1>2, <1>3, <1>5, Types
       DEF Inv, TemporaryFilesGo, Busy, Writer, Renamed, Goto, End, IdleWriter
  <2>3. \A v \in Writers : CallSound(v)'
    BY <1>1, <1>2, <1>3, <1>5, Types
       DEF Inv, TypeOK, TemporaryFilesGo, CallSound, Before, Renamed, Busy,
           Writer, Goto, End, IdleWriter
  <2>4. target' \in onDisk' /\ ReadersApart'
    BY <1>1, <1>2, <1>3, <1>5, Types, ApartKept
       DEF Inv, CallSound, Before, Renamed, Writer, Goto, End, IdleWriter
  <2> QED
    BY <2>1, <2>2, <2>3, <2>4 DEF Inv
<1> QED
  BY <1>4, <1>5 DEF SetCloexec

LEMMA CloseInv ==
  ASSUME Inv, NEW w \in Writers, Close(w)
  PROVE  Inv'
<1>1. CallSound(w) /\ writer[w] \in Writer /\ writer \in [Writers -> Writer]
  BY DEF Inv, TypeOK
<1>2. TypeOK'
  BY <1>1, Types, SMTT(30)
     DEF Inv, TypeOK, TemporaryFilesGo, CallSound, Before, Renamed, Writer,
         Close, Stages
<1>3. TemporaryFilesGo'
  BY <1>1, Types, SMTT(30)
     DEF Inv, TypeOK, TemporaryFilesGo, CallSound, Before, Renamed, Busy,
         Writer, Close
<1>4. \A v \in Writers : CallSound(v)'
  BY <1>1, Types
     DEF Inv, TypeOK, TemporaryFilesGo, CallSound, Before, Renamed, Busy,
         Writer, Close
<1>5. target' \in onDisk' /\ ReadersApart'
  BY <1>1, Types, ApartKept
     DEF Inv, CallSound, Before, Renamed, Close
<1> QED
  BY <1>2, <1>3, <1>4, <1>5 DEF Inv

LEMMA RenameInv ==
  ASSUME Inv, NEW w \in Writers, Rename(w)
  PROVE  Inv'
<1>1. CallSound(w) /\ writer[w] \in Writer /\ writer \in [Writers -> Writer]
  BY DEF Inv, TypeOK
<1>2. /\ writer[w].at = "rename"
      /\ UNCHANGED <<leaked, files, reader, crashes>>
  BY DEF Rename
<1>3. /\ writer[w].tmp \in DOMAIN files /\ writer[w].tmp # 0
      /\ writer[w].tmp \in temps /\ writer[w].tmp \notin onDisk \cup leaked
      /\ \A v \in Writers \ {w} : writer[v].tmp # writer[w].tmp
  BY <1>1, <1>2, Types DEF Inv, TemporaryFilesGo, CallSound, Before
<1>4. CASE /\ target' = writer[w].tmp
              /\ onDisk' = onDisk \cup {target'}
              /\ temps' = temps \ {writer[w].tmp}
              /\ Goto(w, "dirsync")
  <2>1. TypeOK'
    BY <1>1, <1>2, <1>3, <1>4, Types
       DEF Inv, TypeOK, Writer, Stages, Goto
  <2>2. TemporaryFilesGo'
    <3>1. /\ writer'[w].tmp = writer[w].tmp /\ writer'[w].at = "dirsync"
          /\ \A v \in Writers : v # w => writer'[v] = writer[v]
      BY <1>1, <1>4 DEF Writer, Goto
    <3>2. \A i \in temps' \ leaked' :
            \E v \in Writers : Busy(v)' /\ writer'[v].tmp = i
      BY <1>2, <1>4, <3>1 DEF Inv, TemporaryFilesGo, Busy
    <3>3. \A v \in Writers :
            writer'[v].tmp # 0 /\ writer'[v].at \notin {"dirsync", "return"} =>
              /\ writer'[v].tmp \in temps' \ (onDisk' \cup leaked')
              /\ \A u \in Writers \ {v} : writer'[u].tmp # writer'[v].tmp
      BY <1>2, <1>3, <1>4, <3>1 DEF Inv, TemporaryFilesGo
    <3> QED
      BY <3>2, <3>3 DEF TemporaryFilesGo, Busy
  <2>3. \A v \in Writers : CallSound(v)'
    BY <1>1, <1>2, <1>3, <1>4, Types
       DEF Inv, TypeOK, TemporaryFilesGo, CallSound, Before, Renamed, Busy,
           Writer, Goto
  <2>4. target' \in onDisk' /\ ReadersApart'
    BY <1>1, <1>2, <1>3, <1>4, Types, ApartKept
       DEF Inv, CallSound, Before, Renamed, Writer, Goto
  <2> QED
    BY <2>1, <2>2, <2>3, <2>4 DEF Inv
<1>5. CASE /\ writer' = [writer EXCEPT ![w].at = "unlink",
                                        ![w].failed = TRUE]
           /\ UNCHANGED <<target, onDisk, temps>>
  BY <1>2, <1>5, CallFails
<1> QED
  BY <1>4, <1>5 DEF Rename

LEMMA SyncDirectoryInv ==
  ASSUME Inv, NEW w \in Writers, SyncDirectory(w)
  PROVE  Inv'
<1>1. CallSound(w) /\ writer[w] \in Writer /\ writer \in [Writers -> Writer]
  BY DEF Inv, TypeOK
<1>2. TypeOK'
  BY <1>1, Types
     DEF Inv, TypeOK, TemporaryFilesGo, CallSound, Before, Renamed, Writer,
         SyncDirectory, Goto, Stages
<1>3. TemporaryFilesGo'
  BY <1>1, Types
     DEF Inv, TypeOK, TemporaryFilesGo, CallSound, Before, Renamed, Busy,
         Writer, SyncDirectory, Goto
<1>4. \A v \in Writers : CallSound(v)'
  BY <1>1, Types
     DEF Inv, TypeOK, TemporaryFilesGo, CallSound, Before, Renamed, Busy,
         Writer, SyncDirectory, Goto
<1>5. target' \in onDisk' /\ ReadersApart'
  BY <1>1, Types, ApartKept
     DEF Inv, CallSound, Before, Renamed, SyncDirectory, Goto
<1> QED
  BY <1>2, <1>3, <1>4, <1>5 DEF Inv

LEMMA ReturnOkInv ==
  ASSUME Inv, NEW w \in Writers, ReturnOk(w)
  PROVE  Inv'
<1>1. CallSound(w) /\ writer[w] \in Writer /\ writer \in [Writers -> Writer]
  BY DEF Inv, TypeOK
<1>2. TypeOK'
  BY <1>1, Types
     DEF Inv, TypeOK, TemporaryFilesGo, CallSound, Before, Renamed, Writer,
         ReturnOk, End, IdleWriter, Stages
<1>3. TemporaryFilesGo'
  BY <1>1, Types
     DEF Inv, TypeOK, TemporaryFilesGo, CallSound, Before, Renamed, Busy,
         Writer, ReturnOk, End, IdleWriter
<1>4. \A v \in Writers : CallSound(v)'
  BY <1>1, Types
     DEF Inv, TypeOK, TemporaryFilesGo, CallSound, Before, Renamed, Busy,
         Writer, ReturnOk, End, IdleWriter
<1>5. target' \in onDisk' /\ ReadersApart'
  BY <1>1, Types, ApartKept
     DEF Inv, CallSound, Before, Renamed, ReturnOk, End, IdleWriter
<1> QED
  BY <1>2, <1>3, <1>4, <1>5 DEF Inv

LEMMA UnlinkInv ==
  ASSUME Inv, NEW w \in Writers, Unlink(w)
  PROVE  Inv'
<1>1. CallSound(w) /\ writer[w] \in Writer /\ writer \in [Writers -> Writer]
  BY DEF Inv, TypeOK
<1>2. /\ writer[w].at = "unlink" /\ End(w, "error")
      /\ UNCHANGED <<files, target, onDisk, reader, crashes>>
  BY DEF Unlink
<1>3. /\ writer[w].tmp \in DOMAIN files /\ writer[w].tmp # 0
      /\ writer[w].tmp \in temps /\ writer[w].tmp \notin onDisk \cup leaked
      /\ \A v \in Writers \ {w} : writer[v].tmp # writer[w].tmp
  BY <1>1, <1>2, Types DEF Inv, TemporaryFilesGo, CallSound, Before
<1>4. CASE temps' = temps \ {writer[w].tmp} /\ UNCHANGED leaked
  <2>1. TypeOK'
    BY <1>1, <1>2, <1>3, <1>4, Types
       DEF Inv, TypeOK, Writer, Stages, End, IdleWriter
  <2>2. TemporaryFilesGo'
    BY <1>1, <1>2, <1>3, <1>4, Types
       DEF Inv, TemporaryFilesGo, Busy, Writer, Renamed, End, IdleWriter
  <2>3. \A v \in Writers : CallSound(v)'
    BY <1>1, <1>2, <1>3, <1>4, Types
       DEF Inv, TypeOK, TemporaryFilesGo, CallSound, Before, Renamed, Busy,
           Writer, End, IdleWriter
  <2>4. target' \in onDisk' /\ ReadersApart'
    BY <1>1, <1>2, <1>3, <1>4, Types, ApartKept
       DEF Inv, CallSound, Before, Renamed, Writer, End, IdleWriter
  <2> QED
    BY <2>1, <2>2, <2>3, <2>4 DEF Inv
<1>5. CASE leaked' = leaked \cup {writer[w].tmp} /\ UNCHANGED temps
  <2>1. TypeOK'
    BY <1>1, <1>2, <1>3, <1>5, Types
       DEF Inv, TypeOK, Writer, Stages, End, IdleWriter
  <2>2. TemporaryFilesGo'
    BY <1>1, <1>2, <1>3, <1>5, Types
       DEF Inv, TemporaryFilesGo, Busy, Writer, Renamed, End, IdleWriter
  <2>3. \A v \in Writers : CallSound(v)'
    BY <1>1, <1>2, <1>3, <1>5, Types
       DEF Inv, TypeOK, TemporaryFilesGo, CallSound, Before, Renamed, Busy,
           Writer, End, IdleWriter
  <2>4. target' \in onDisk' /\ ReadersApart'
    BY <1>1, <1>2, <1>3, <1>5, Types, ApartKept
       DEF Inv, CallSound, Before, Renamed, Writer, End, IdleWriter
  <2> QED
    BY <2>1, <2>2, <2>3, <2>4 DEF Inv
<1> QED
  BY <1>4, <1>5 DEF Unlink

-------------------------------------------------------------------------------
(***************************************************************************)
(* The steps that write to the temporary file.                             *)
(***************************************************************************)

LEMMA MkstempInv ==
  ASSUME Inv, NEW w \in Writers, Mkstemp(w)
  PROVE  Inv'
<1> DEFINE n == Len(files) + 1
<1>1. CallSound(w) /\ writer[w] \in Writer /\ writer \in [Writers -> Writer]
  BY DEF Inv, TypeOK
<1>2. PICK d \in Data \cup {Garbage} :
        /\ files' = Append(files, [data |-> d, len |-> 0, disk |-> 0])
        /\ ~CopyMayFail => d = writer[w].want
  <2>1. writer[w].want \in Data
    BY <1>1 DEF CallSound, Busy, Mkstemp
  <2> QED
    BY <2>1 DEF Mkstemp
<1>3. [data |-> d, len |-> 0, disk |-> 0] \in File
  BY DEF File
<1>4. /\ files' \in Seq(File) /\ Len(files') = n
      /\ DOMAIN files' = DOMAIN files \cup {n}
      /\ files'[n] = [data |-> d, len |-> 0, disk |-> 0]
      /\ \A i \in DOMAIN files : files'[i] = files[i]
  BY <1>2, <1>3, Types, FileMade
<1>5. n \in Nat \ {0} /\ Len(files) \in Nat /\ n \notin DOMAIN files
  BY Types
<1>6. /\ writer[w].at = "begin" /\ writer[w].tmp = 0 /\ ~writer[w].failed
      /\ writer[w].want \in Data
  BY <1>1 DEF CallSound, Busy, Before, Mkstemp
<1>7. /\ writer' = [writer EXCEPT ![w].at = "cloexec", ![w].tmp = n]
      /\ temps' = temps \cup {n}
      /\ UNCHANGED <<leaked, target, onDisk, reader, crashes>>
  BY <1>4 DEF Mkstemp
<1>8. /\ writer'[w] \in Writer
      /\ writer'[w].at = "cloexec" /\ writer'[w].tmp = n
      /\ writer'[w].want = writer[w].want /\ ~writer'[w].failed
      /\ \A v \in Writers : v # w => writer'[v] = writer[v]
  BY <1>1, <1>5, <1>6, <1>7 DEF Writer, Stages
<1>9. TypeOK'
  <2>1. \A i \in DOMAIN files' : files'[i].disk <= files'[i].len
    BY <1>4, Types
  <2>2. writer' \in [Writers -> Writer]
    BY <1>1, <1>7, <1>8
  <2>3. /\ target' \in 0 .. Len(files') /\ onDisk' \subseteq 0 .. Len(files')
        /\ temps' \subseteq 1 .. Len(files') /\ leaked' \subseteq temps'
    BY <1>4, <1>5, <1>7 DEF Inv, TypeOK
  <2> QED
    BY <1>4, <1>7, <2>1, <2>2, <2>3 DEF Inv, TypeOK
<1>10. TemporaryFilesGo'
  <2>1. n \notin onDisk /\ n \notin leaked
    BY <1>5 DEF Inv, TypeOK
  <2>2. \A v \in Writers : writer[v].tmp # n
    BY <1>5, Types
  <2>3. \A i \in temps' \ leaked' :
          \E v \in Writers : Busy(v)' /\ writer'[v].tmp = i
    <3> SUFFICES ASSUME NEW i \in temps' \ leaked'
                 PROVE  \E v \in Writers : Busy(v)' /\ writer'[v].tmp = i
      OBVIOUS
    <3>1. CASE i = n
      BY <3>1, <1>8 DEF Busy
    <3>2. CASE i # n
      <4>1. PICK v \in Writers : Busy(v) /\ writer[v].tmp = i
        BY <3>2, <1>7 DEF Inv, TemporaryFilesGo
      <4>2. v # w
        BY <4>1, <1>6, <1>7, <3>2 DEF Inv, TypeOK
      <4> QED
        BY <4>1, <4>2, <1>8 DEF Busy
    <3> QED
      BY <3>1, <3>2
  <2>4. \A v \in Writers :
          writer'[v].tmp # 0 /\ writer'[v].at \notin {"dirsync", "return"} =>
            /\ writer'[v].tmp \in temps' \ (onDisk' \cup leaked')
            /\ \A u \in Writers \ {v} : writer'[u].tmp # writer'[v].tmp
    <3>1. ASSUME NEW v \in Writers, v # w, writer[v].tmp # 0,
                 writer[v].at \notin {"dirsync", "return"}
          PROVE  /\ writer[v].tmp \in temps' \ (onDisk' \cup leaked')
                 /\ \A u \in Writers \ {v} : writer'[u].tmp # writer[v].tmp
      <4>1. /\ writer[v].tmp \in temps \ (onDisk \cup leaked)
            /\ \A u \in Writers \ {v} : writer[u].tmp # writer[v].tmp
        BY <3>1 DEF Inv, TemporaryFilesGo
      <4> QED
        BY <4>1, <3>1, <1>7, <1>8, <2>2
    <3>2. /\ writer'[w].tmp \in temps' \ (onDisk' \cup leaked')
          /\ \A u \in Writers \ {w} : writer'[u].tmp # writer'[w].tmp
      <4>1. \A u \in Writers \ {w} : writer'[u].tmp # writer'[w].tmp
        BY <1>8, <2>2
      <4>2. writer'[w].tmp \in temps' \ (onDisk' \cup leaked')
        BY <1>7, <1>8, <2>1
      <4> QED
        BY <4>1, <4>2
    <3> QED
      BY <3>1, <3>2, <1>8
  <2> QED
    BY <2>3, <2>4 DEF TemporaryFilesGo, Busy
<1>11. \A v \in Writers : CallSound(v)'
  <2>1. CallSound(w)'
    <3>1. Size[writer[w].want] \in Nat
      BY <1>6, FsAssumption
    <3> QED
      BY <1>2, <1>4, <1>6, <1>8, <3>1
         DEF CallSound, Before, Renamed, Busy, Stages, Writer
  <2>2. ASSUME NEW v \in Writers, v # w
        PROVE  CallSound(v)'
    <3>1. /\ CallSound(v) /\ writer'[v] = writer[v]
          /\ writer[v].tmp \in 0 .. Len(files)
      BY <2>2, <1>8, Types DEF Inv
    <3>2. writer[v].tmp # n
      BY <3>1, <1>5
    <3> QED
      BY <3>1, <3>2, <1>4, <1>7 DEF CallSound, Busy, Before
  <2> QED
    BY <2>1, <2>2
<1>12. target' \in onDisk' /\ ReadersApart'
  <2>1. /\ Len(files') \in Nat /\ Len(files') >= Len(files)
        /\ UNCHANGED <<reader, target, onDisk>>
    BY <1>4, <1>5, <1>7
  <2>2. \A v \in Writers :
          \/ writer'[v].tmp \in {0, n}
          \/ /\ writer'[v].tmp = writer[v].tmp
             /\ writer[v].at \in Renamed => writer'[v].at \in Renamed
    BY <1>8
  <2>3. ReadersApart'
    BY <2>1, <2>2, ApartKept
  <2> QED
    BY <2>1, <2>3 DEF Inv
<1> QED
  BY <1>9, <1>10, <1>11, <1>12 DEF Inv

(* A step that replaces only the temporary file of a call that is writing, *)
(* and leaves its data and its number as they are.                         *)
LEMMA FilesGrow ==
  ASSUME Inv, NEW w \in Writers, writer[w].at = "write",
         NEW f \in File, f.disk <= f.len,
         f.data = files[writer[w].tmp].data,
         f.len <= Size[writer[w].want],
         files' = [files EXCEPT ![writer[w].tmp] = f],
         UNCHANGED <<target, onDisk, temps, leaked, reader, crashes>>,
         \/ UNCHANGED writer
         \/ /\ Goto(w, "close")
            /\ f.len = Size[writer[w].want] /\ f.disk = Size[writer[w].want]
  PROVE  Inv'
<1> DEFINE i == writer[w].tmp
<1>1. CallSound(w) /\ writer[w] \in Writer /\ writer \in [Writers -> Writer]
  BY DEF Inv, TypeOK
<1>2. /\ i \in DOMAIN files /\ i \in temps /\ i # 0 /\ ~writer[w].failed
      /\ writer[w].want \in Data
      /\ \A v \in Writers \ {w} : writer[v].tmp # i
  BY <1>1, Types DEF Inv, TemporaryFilesGo, CallSound, Before, Busy
<1>3. /\ files' \in Seq(File) /\ Len(files') = Len(files)
      /\ DOMAIN files' = DOMAIN files /\ files'[i] = f
      /\ \A j \in DOMAIN files : j # i => files'[j] = files[j]
  BY <1>2, Types, FileReplaced
<1>4. /\ writer'[w] \in Writer /\ writer'[w].at \in {"write", "close"}
      /\ writer'[w].at = "close" => f.len = Size[writer[w].want]
                                    /\ f.disk = Size[writer[w].want]
      /\ writer'[w].tmp = i /\ writer'[w].want = writer[w].want
      /\ ~writer'[w].failed
      /\ writer' \in [Writers -> Writer]
      /\ \A v \in Writers : v # w => writer'[v] = writer[v]
  BY <1>1, <1>2 DEF Writer, Stages, Goto
<1>5. TypeOK'
  <2>1. \A j \in DOMAIN files' : files'[j].disk <= files'[j].len
    BY <1>3, Types
  <2> QED
    BY <1>3, <1>4, <2>1 DEF Inv, TypeOK
<1>6. TemporaryFilesGo'
  <2>1. \A v \in Writers :
          /\ writer'[v].tmp = writer[v].tmp
          /\ Busy(v) => Busy(v)'
          /\ writer'[v].at \notin Renamed => writer[v].at \notin Renamed
    BY <1>4 DEF Busy, Renamed
  <2> QED
    BY <2>1 DEF Inv, TemporaryFilesGo, Renamed
<1>7. \A v \in Writers : CallSound(v)'
  <2>1. CallSound(w)'
    BY <1>1, <1>2, <1>3, <1>4 DEF CallSound, Before, Renamed, Busy
  <2>2. ASSUME NEW v \in Writers, v # w
        PROVE  CallSound(v)'
    BY <2>2, <1>2, <1>3, <1>4 DEF Inv, CallSound, Busy
  <2> QED
    BY <2>1, <2>2
<1>8. target' \in onDisk' /\ ReadersApart'
  BY <1>3, <1>4, Types, ApartKept DEF Inv, Renamed
<1> QED
  BY <1>5, <1>6, <1>7, <1>8 DEF Inv

LEMMA WriteInv ==
  ASSUME Inv, NEW w \in Writers, Write(w)
  PROVE  Inv'
<1> DEFINE i == writer[w].tmp
<1>1. CallSound(w)
  BY DEF Inv
<1>2. /\ i \in DOMAIN files /\ files[i] \in File
      /\ files[i].len \in Nat /\ files[i].disk <= files[i].len
      /\ files[i].disk \in Nat
      /\ writer[w].at = "write" /\ writer[w].want \in Data
  BY <1>1, Types DEF Write, CallSound, Before, Busy
<1>3. Size[writer[w].want] \in Nat
  BY <1>2, FsAssumption
<1>4. ASSUME NEW n \in 1 .. Remaining(w),
             files' = [files EXCEPT ![i].len = @ + n], UNCHANGED writer
      PROVE  Inv'
  <2> DEFINE f == [files[i] EXCEPT !.len = @ + n]
  <2>1. n \in Nat /\ files[i].len + n <= Size[writer[w].want]
    BY <1>2, <1>3 DEF Remaining
  <2>2. f \in File /\ f.len = files[i].len + n /\ f.disk = files[i].disk
        /\ f.data = files[i].data
    BY <1>2, <2>1 DEF File
  <2>3. files' = [files EXCEPT ![i] = f]
    BY <1>4
  <2>4. f.disk <= f.len /\ f.len <= Size[writer[w].want]
    BY <2>1, <2>2, <1>2
  <2>5. UNCHANGED <<target, onDisk, temps, leaked, reader, crashes>>
    BY DEF Write
  <2> HIDE DEF f
  <2> QED
    BY <1>2, <1>4, <2>2, <2>3, <2>4, <2>5, FilesGrow
<1>5. CASE /\ writer' = [writer EXCEPT ![w].at = "close",
                                        ![w].failed = TRUE]
           /\ UNCHANGED files
  BY <1>5, <1>2, CallFails DEF Write
<1> QED
  BY <1>4, <1>5 DEF Write

LEMMA FsyncInv ==
  ASSUME Inv, NEW w \in Writers, Fsync(w)
  PROVE  Inv'
<1> DEFINE i == writer[w].tmp
<1>1. CallSound(w)
  BY DEF Inv
<1>2. /\ i \in DOMAIN files /\ files[i] \in File
      /\ files[i].len \in Nat
      /\ writer[w].at = "write" /\ writer[w].want \in Data
  BY <1>1, Types DEF Fsync, CallSound, Before, Busy
<1>3. Size[writer[w].want] \in Nat /\ files[i].len = Size[writer[w].want]
  BY <1>2, FsAssumption DEF Fsync, Remaining
<1>4. CASE /\ files' = [files EXCEPT ![i].disk = Size[writer[w].want]]
           /\ Goto(w, "close")
  <2> DEFINE f == [files[i] EXCEPT !.disk = Size[writer[w].want]]
  <2>1. /\ f \in File /\ f.len = Size[writer[w].want]
        /\ f.disk = Size[writer[w].want] /\ f.data = files[i].data
        /\ f.disk <= f.len /\ f.len <= Size[writer[w].want]
    BY <1>2, <1>3 DEF File
  <2>2. files' = [files EXCEPT ![i] = f]
    BY <1>4
  <2>3. UNCHANGED <<target, onDisk, temps, leaked, reader, crashes>>
    BY DEF Fsync
  <2> HIDE DEF f
  <2> QED
    BY <1>2, <1>4, <2>1, <2>2, <2>3, FilesGrow
<1>5. CASE /\ writer' = [writer EXCEPT ![w].at = "close",
                                        ![w].failed = TRUE]
           /\ UNCHANGED files
  BY <1>5, <1>2, CallFails DEF Fsync
<1> QED
  BY <1>4, <1>5 DEF Fsync

-------------------------------------------------------------------------------
(***************************************************************************)
(* The other steps.                                                        *)
(***************************************************************************)

LEMMA RemoveInv ==
  ASSUME Inv, Remove
  PROVE  Inv'
<1>1. /\ target' = 0 /\ onDisk' = onDisk \cup {0}
      /\ UNCHANGED <<files, temps, leaked, writer, reader, crashes>>
  BY DEF Remove
<1>2. TypeOK'
  BY <1>1, Types DEF Inv, TypeOK
<1>3. TemporaryFilesGo'
  BY <1>1 DEF Inv, TemporaryFilesGo, Busy
<1>4. \A v \in Writers : CallSound(v)'
  BY <1>1 DEF Inv, CallSound, Busy
<1>5. target' \in onDisk' /\ ReadersApart'
  BY <1>1 DEF Inv, ReadersApart
<1> QED
  BY <1>2, <1>3, <1>4, <1>5 DEF Inv

(* A read changes only its own local variables; the file it has open is    *)
(* the one it had, none, or the one the path leads to.                     *)
LEMMA ReaderInv ==
  ASSUME Inv, NEW r \in Readers, NEW t \in Reader,
         reader' = [reader EXCEPT ![r] = t],
         t.file \in {reader[r].file, target, 0}, t.at = "read" => t.file # 0,
         UNCHANGED <<files, target, onDisk, temps, leaked, writer, crashes>>
  PROVE  Inv'
<1>1. reader \in [Readers -> Reader] /\ target \in onDisk
  BY DEF Inv, TypeOK
<1>2. TypeOK'
  BY <1>1 DEF Inv, TypeOK
<1>3. TemporaryFilesGo'
  BY DEF Inv, TemporaryFilesGo, Busy
<1>4. \A v \in Writers : CallSound(v)'
  BY DEF Inv, CallSound, Busy
<1>5. ReadersApart'
  <2> SUFFICES ASSUME NEW q \in Readers
               PROVE  /\ reader'[q].file \in 0 .. Len(files)
                      /\ reader'[q].at = "read" => reader'[q].file # 0
                      /\ \A w \in Writers :
                           reader'[q].file # 0
                             /\ writer[w].tmp = reader'[q].file =>
                               writer[w].at \in Renamed
    BY DEF ReadersApart
  <2>1. target \in 0 .. Len(files) /\ 0 \in 0 .. Len(files)
    BY Types DEF Inv, TypeOK
  <2>2. \A w \in Writers :
          target # 0 /\ writer[w].tmp = target => writer[w].at \in Renamed
    BY <1>1 DEF Inv, TemporaryFilesGo, Renamed
  <2>3. reader'[q].file \in {reader[q].file, target, 0}
    BY <1>1
  <2>4. reader'[q].at = "read" => reader'[q].file # 0
    BY <1>1 DEF Inv, ReadersApart
  <2> QED
    BY <2>1, <2>2, <2>3, <2>4 DEF Inv, ReadersApart
<1> QED
  BY <1>1, <1>2, <1>3, <1>4, <1>5 DEF Inv

LEMMA OpenInv ==
  ASSUME Inv, NEW r \in Readers, Open(r)
  PROVE  Inv'
<1> DEFINE t == IF target = 0 THEN [IdleReader EXCEPT !.at = "error"]
                ELSE [at |-> "read", file |-> target, len |-> 0]
<1>1. /\ t \in Reader /\ t.file \in {target, 0}
      /\ t.at = "read" => t.file # 0
  BY DEF Inv, TypeOK, Reader, IdleReader
<1>2. /\ reader' = [reader EXCEPT ![r] = t]
      /\ UNCHANGED <<files, target, onDisk, temps, leaked, writer, crashes>>
  BY DEF Open
<1> HIDE DEF t
<1> QED
  BY <1>1, <1>2, ReaderInv

(* What a round of the loop makes of the variables of a read.              *)
LEMMA ReadRound ==
  ASSUME Inv, NEW r \in Readers, Read(r)
  PROVE  \E t \in Reader :
           /\ reader' = [reader EXCEPT ![r] = t]
           /\ t.file = reader[r].file
           /\ \/ /\ t.at = "read"
                 /\ t.len <= files[reader[r].file].len
              \/ /\ t.at = "ok" /\ t.len = reader[r].len
                 /\ reader[r].len = files[reader[r].file].len
              \/ t.at = "error"
<1> DEFINE len == files[reader[r].file].len
           left == len - reader[r].len
<1>1. reader[r] \in Reader /\ reader \in [Readers -> Reader]
  BY DEF Inv, TypeOK
<1>2. reader[r].len \in Nat /\ len \in Nat /\ reader[r].at = "read"
  BY <1>1, Types DEF Reader, Inv, ReadersApart, Read
<1>3. ASSUME NEW n \in 1 .. left,
             reader' = [reader EXCEPT ![r].len = @ + n]
      PROVE  \E t \in Reader :
               /\ reader' = [reader EXCEPT ![r] = t]
               /\ t.file = reader[r].file
               /\ t.at = "read" /\ t.len <= len
  <2> DEFINE t == [reader[r] EXCEPT !.len = @ + n]
  <2>1. n \in Nat /\ reader[r].len + n <= len
    BY <1>2
  <2>2. t \in Reader /\ t.file = reader[r].file /\ t.at = "read"
        /\ t.len = reader[r].len + n
    BY <1>1, <1>2, <2>1 DEF Reader
  <2>3. reader' = [reader EXCEPT ![r] = t]
    BY <1>3
  <2> HIDE DEF t
  <2> QED
    BY <2>1, <2>2, <2>3
<1>4. ASSUME left = 0, reader' = [reader EXCEPT ![r].at = "ok"]
      PROVE  \E t \in Reader :
               /\ reader' = [reader EXCEPT ![r] = t]
               /\ t.file = reader[r].file
               /\ t.at = "ok" /\ t.len = reader[r].len /\ reader[r].len = len
  <2> DEFINE t == [reader[r] EXCEPT !.at = "ok"]
  <2>1. t \in Reader /\ t.file = reader[r].file /\ t.at = "ok"
        /\ t.len = reader[r].len
    BY <1>1 DEF Reader
  <2>2. reader[r].len = len
    BY <1>2, <1>4
  <2>3. reader' = [reader EXCEPT ![r] = t]
    BY <1>4
  <2> HIDE DEF t
  <2> QED
    BY <2>1, <2>2, <2>3
<1>5. ASSUME reader' = [reader EXCEPT ![r].at = "error"]
      PROVE  \E t \in Reader :
               /\ reader' = [reader EXCEPT ![r] = t]
               /\ t.file = reader[r].file /\ t.at = "error"
  <2> DEFINE t == [reader[r] EXCEPT !.at = "error"]
  <2>1. t \in Reader /\ t.file = reader[r].file /\ t.at = "error"
    BY <1>1 DEF Reader
  <2>2. reader' = [reader EXCEPT ![r] = t]
    BY <1>5
  <2> HIDE DEF t
  <2> QED
    BY <2>1, <2>2
<1>6. \/ \E n \in 1 .. left : reader' = [reader EXCEPT ![r].len = @ + n]
      \/ left = 0 /\ reader' = [reader EXCEPT ![r].at = "ok"]
      \/ reader' = [reader EXCEPT ![r].at = "error"]
  BY DEF Read
<1> HIDE DEF len, left
<1>7. CASE \E n \in 1 .. left : reader' = [reader EXCEPT ![r].len = @ + n]
  <2>1. PICK t \in Reader :
          /\ reader' = [reader EXCEPT ![r] = t]
          /\ t.file = reader[r].file
          /\ t.at = "read" /\ t.len <= len
    BY <1>3, <1>7
  <2> QED
    BY <2>1 DEF len
<1>8. CASE left = 0 /\ reader' = [reader EXCEPT ![r].at = "ok"]
  <2>1. PICK t \in Reader :
          /\ reader' = [reader EXCEPT ![r] = t]
          /\ t.file = reader[r].file
          /\ t.at = "ok" /\ t.len = reader[r].len /\ reader[r].len = len
    BY <1>4, <1>8
  <2> QED
    BY <2>1 DEF len
<1>9. CASE reader' = [reader EXCEPT ![r].at = "error"]
  BY <1>5, <1>9
<1> QED
  BY <1>6, <1>7, <1>8, <1>9

LEMMA ReadInv ==
  ASSUME Inv, NEW r \in Readers, Read(r)
  PROVE  Inv'
<1>1. PICK t \in Reader :
        /\ reader' = [reader EXCEPT ![r] = t]
        /\ t.file = reader[r].file
  BY ReadRound
<1>2. UNCHANGED <<files, target, onDisk, temps, leaked, writer, crashes>>
  BY DEF Read
<1>3. t.at = "read" => t.file # 0
  BY <1>1 DEF Inv, ReadersApart, Read
<1> QED
  BY <1>1, <1>2, <1>3, ReaderInv

LEMMA KillInv ==
  ASSUME Inv, NEW w \in Writers, Kill(w)
  PROVE  Inv'
<1>1. /\ crashes' = crashes + 1 /\ crashes' \in Nat
      /\ leaked' = leaked \cup (temps \cap {writer[w].tmp})
      /\ writer' = [writer EXCEPT ![w] = IdleWriter]
      /\ UNCHANGED <<files, target, onDisk, temps, reader>>
  BY DEF Kill, Inv, TypeOK
<1>2. writer \in [Writers -> Writer] /\ IdleWriter \in Writer
  BY DEF Inv, TypeOK, IdleWriter, Writer, Stages
<1>3. /\ writer' \in [Writers -> Writer] /\ writer'[w] = IdleWriter
      /\ \A v \in Writers : v # w => writer'[v] = writer[v]
  BY <1>1, <1>2
<1>4. TypeOK'
  BY <1>1, <1>3 DEF Inv, TypeOK
<1>5. TemporaryFilesGo'
  <2>1. ASSUME NEW i \in temps' \ leaked'
        PROVE  \E v \in Writers : Busy(v)' /\ writer'[v].tmp = i
    <3>1. PICK v \in Writers : Busy(v) /\ writer[v].tmp = i
      BY <1>1 DEF Inv, TemporaryFilesGo
    <3>2. v # w
      BY <1>1, <3>1
    <3> QED
      BY <1>3, <3>1, <3>2 DEF Busy
  <2>2. ASSUME NEW v \in Writers, writer'[v].tmp # 0,
               writer'[v].at \notin {"dirsync", "return"}
        PROVE  /\ writer'[v].tmp \in temps' \ (onDisk' \cup leaked')
               /\ \A u \in Writers \ {v} : writer'[u].tmp # writer'[v].tmp
    <3>1. v # w /\ writer'[v] = writer[v]
      BY <1>3, <2>2 DEF IdleWriter
    <3>2. /\ writer[v].tmp \in temps \ (onDisk \cup leaked)
          /\ \A u \in Writers \ {v} : writer[u].tmp # writer[v].tmp
      BY <2>2, <3>1 DEF Inv, TemporaryFilesGo
    <3>3. \A u \in Writers \ {v} : writer'[u].tmp # writer'[v].tmp
      BY <1>3, <2>2, <3>1, <3>2 DEF IdleWriter
    <3> QED
      BY <1>1, <3>1, <3>2, <3>3
  <2> QED
    BY <2>1, <2>2 DEF TemporaryFilesGo, Busy
<1>6. \A v \in Writers : CallSound(v)'
  <2>1. CallSound(w)'
    BY <1>3 DEF CallSound, Before, Renamed, Busy, IdleWriter
  <2>2. ASSUME NEW v \in Writers, v # w
        PROVE  CallSound(v)'
    BY <2>2, <1>1, <1>3 DEF Inv, CallSound, Busy
  <2> QED
    BY <2>1, <2>2
<1>7. target' \in onDisk' /\ ReadersApart'
  <2>1. \A v \in Writers :
          \/ writer'[v].tmp \in {0, Len(files) + 1}
          \/ /\ writer'[v].tmp = writer[v].tmp
             /\ writer[v].at \in Renamed => writer'[v].at \in Renamed
    BY <1>3 DEF IdleWriter
  <2>2. Len(files') \in Nat /\ Len(files') >= Len(files) /\ UNCHANGED reader
    BY <1>1, Types
  <2>3. ReadersApart'
    BY <2>1, <2>2, ApartKept
  <2> QED
    BY <1>1, <2>3 DEF Inv
<1> QED
  BY <1>4, <1>5, <1>6, <1>7 DEF Inv

(* What a crash leaves of the files.                                       *)
LEMMA FilesLeft ==
  ASSUME Inv, Crash
  PROVE  /\ files' \in Seq(File) /\ Len(files') = Len(files)
         /\ DOMAIN files' = DOMAIN files
         /\ \A i \in DOMAIN files :
              /\ files'[i].data = files[i].data
              /\ files'[i].disk <= files'[i].len
         /\ target' # 0 => /\ files'[target'].len = files'[target'].disk
                           /\ files'[target'].len \in
                                files[target'].disk .. files[target'].len
         /\ target' \in onDisk /\ target' \in 0 .. Len(files)
<1>1. target' \in onDisk /\ target' \in 0 .. Len(files)
  BY DEF Crash, Inv, TypeOK
<1> DEFINE G(left) == [i \in DOMAIN files |->
                         IF i = target'
                           THEN [files[i] EXCEPT !.len = left, !.disk = left]
                           ELSE [files[i] EXCEPT !.len = files[i].disk]]
<1>2. PICK left \in Nat :
        /\ files' = G(left)
        /\ target' # 0 => left \in files[target'].disk .. files[target'].len
  <2>1. CASE target' = 0
    <3>1. \E left \in {0} : files' = G(left)
      BY <2>1 DEF Crash
    <3> HIDE DEF G
    <3> QED
      BY <2>1, <3>1
  <2>2. CASE target' # 0
    <3>1. \E left \in files[target'].disk .. files[target'].len :
            files' = G(left)
      BY <2>2 DEF Crash
    <3>2. files[target'].disk \in Nat /\ files[target'].len \in Nat
      BY <1>1, <2>2, Types
    <3>3. \A left \in files[target'].disk .. files[target'].len : left \in Nat
      BY <3>2
    <3> HIDE DEF G
    <3> QED
      BY <2>2, <3>1, <3>3
  <2> QED
    BY <2>1, <2>2
<1>4. /\ DOMAIN files' = DOMAIN files
      /\ \A i \in DOMAIN files : files'[i] =
           IF i = target' THEN [files[i] EXCEPT !.len = left, !.disk = left]
           ELSE [files[i] EXCEPT !.len = files[i].disk]
  BY <1>2
<1>5. ASSUME NEW i \in DOMAIN files
      PROVE  /\ files'[i] \in File /\ files'[i].data = files[i].data
             /\ files'[i].disk <= files'[i].len
             /\ i = target' => files'[i].len = left /\ files'[i].disk = left
  <2>1. /\ files[i] \in File /\ files[i].disk \in Nat
    BY Types
  <2>2. CASE i = target'
    <3>1. files'[i] = [files[i] EXCEPT !.len = left, !.disk = left]
      BY <1>4, <2>2
    <3>2. files'[i] = [data |-> files[i].data, len |-> left, disk |-> left]
      BY <3>1, <2>1 DEF File
    <3>3. files[i].data \in Data \cup {Garbage}
      BY <2>1 DEF File
    <3> QED
      BY <3>2, <3>3 DEF File
  <2>3. CASE i # target'
    <3>1. files'[i] = [files[i] EXCEPT !.len = files[i].disk]
      BY <1>4, <2>3
    <3> QED
      BY <3>1, <2>1, <2>3 DEF File
  <2> QED
    BY <2>2, <2>3
<1>6. files' \in [1 .. Len(files) -> File]
  BY <1>2, <1>5, Types
<1>7. files' \in Seq(File) /\ Len(files') = Len(files)
  BY <1>6, Types
<1>8. ASSUME target' # 0
      PROVE  /\ files'[target'].len = files'[target'].disk
             /\ files'[target'].len \in
                  files[target'].disk .. files[target'].len
  <2>1. target' \in DOMAIN files
    BY <1>1, <1>8, Types
  <2> QED
    BY <2>1, <1>2, <1>5, <1>8
<1> QED
  BY <1>1, <1>4, <1>5, <1>7, <1>8

LEMMA CrashInv ==
  ASSUME Inv, Crash
  PROVE  Inv'
<1>1. /\ crashes' \in Nat /\ onDisk' = {target'}
      /\ temps' = {} /\ leaked' = {}
      /\ writer' = [w \in Writers |-> IdleWriter]
      /\ reader' = [r \in Readers |-> IdleReader]
  <2>1. crashes \in Nat /\ crashes' = crashes + 1
    BY DEF Crash, Inv, TypeOK
  <2>2. crashes' \in Nat
    BY <2>1
  <2> QED
    BY <2>2 DEF Crash
<1>2. IdleWriter \in Writer /\ IdleReader \in Reader
  BY DEF IdleWriter, Writer, Stages, IdleReader, Reader
<1>3. TypeOK'
  BY <1>1, <1>2, FilesLeft DEF TypeOK
<1>4. TemporaryFilesGo'
  BY <1>1 DEF TemporaryFilesGo, IdleWriter
<1>5. \A v \in Writers : CallSound(v)'
  BY <1>1 DEF CallSound, Before, Renamed, Busy, IdleWriter
<1>6. target' \in onDisk' /\ ReadersApart'
  BY <1>1, FilesLeft, Types DEF ReadersApart, IdleReader
<1> QED
  BY <1>3, <1>4, <1>5, <1>6 DEF Inv

-------------------------------------------------------------------------------
(***************************************************************************)
(* Every step.                                                             *)
(***************************************************************************)

LEMMA NextInv ==
  ASSUME Inv, [Next]_vars
  PROVE  Inv'
<1>1. CASE UNCHANGED vars
  BY <1>1 DEF vars, Inv, TypeOK, TemporaryFilesGo, CallSound, Busy,
              ReadersApart
<1>2. ASSUME NEW w \in Writers, \E d \in Data : Call(w, d)
      PROVE  Inv'
  BY <1>2, CallInv
<1>3. ASSUME NEW w \in Writers, WriteStep(w)
      PROVE  Inv'
  BY <1>3, RefuseCallInv, MkstempInv, SetCloexecInv, WriteInv, FsyncInv,
     CloseInv, RenameInv, SyncDirectoryInv, ReturnOkInv, UnlinkInv
     DEF WriteStep
<1>4. ASSUME NEW r \in Readers, Open(r) \/ Read(r)
      PROVE  Inv'
  BY <1>4, OpenInv, ReadInv
<1> QED
  BY <1>1, <1>2, <1>3, <1>4, RemoveInv, KillInv, CrashInv DEF Next

(* Whatever is called, fails or is killed, at any moment: a call that has  *)
(* returned leaves no temporary file behind unless fcntl or unlink failed, *)
(* and no call works on the file of another or on one the path leads to.   *)
THEOREM DirectoryIsSound == Spec => []DirectorySound
<1>1. Init => Inv
  BY InitInv DEF WholeInv
<1>2. Inv /\ [Next]_vars => Inv'
  BY NextInv
<1>3. Inv => DirectorySound
  BY DEF Inv, DirectorySound
<1> QED
  BY <1>1, <1>2, <1>3, PTL DEF Spec

-------------------------------------------------------------------------------
(***************************************************************************)
(* Whole files.                                                            *)
(***************************************************************************)

(* Who writes leaves the files as they are that the path may lead to and   *)
(* those that are read, and the data of all the others.                    *)
LEMMA FilesKept ==
  ASSUME Inv, NEW w \in Writers, Mkstemp(w) \/ Write(w) \/ Fsync(w)
  PROVE  /\ \A i \in onDisk \ {0} : files'[i] = files[i]
         /\ \A r \in Readers :
              reader[r].file # 0 =>
                files'[reader[r].file] = files[reader[r].file]
         /\ UNCHANGED <<target, onDisk, reader>>
<1>1. /\ \A i \in onDisk \ {0} : i \in DOMAIN files
      /\ \A r \in Readers :
           reader[r].file # 0 => reader[r].file \in DOMAIN files
  BY Types DEF Inv, TypeOK
<1>2. CASE Mkstemp(w)
  <2>1. PICK d \in Data \cup {Garbage} :
          files' = Append(files, [data |-> d, len |-> 0, disk |-> 0])
    <3>1. writer[w].want \in Data
      BY <1>2 DEF Inv, CallSound, Busy, Mkstemp
    <3> QED
      BY <1>2, <3>1 DEF Mkstemp
  <2>2. [data |-> d, len |-> 0, disk |-> 0] \in File
    BY DEF File
  <2>3. \A i \in DOMAIN files : files'[i] = files[i]
    BY <2>1, <2>2, Types, FileMade
  <2> QED
    BY <1>1, <1>2, <2>3 DEF Mkstemp
<1>3. CASE Write(w) \/ Fsync(w)
  <2>1. writer[w].at = "write"
    BY <1>3 DEF Write, Fsync
  <2>2. writer[w].tmp # 0
    BY <2>1, Types DEF Inv, CallSound, Before
  <2>3. /\ writer[w].tmp \notin onDisk
        /\ \A r \in Readers :
             reader[r].file # 0 => writer[w].tmp # reader[r].file
    BY <2>1, <2>2 DEF Inv, TemporaryFilesGo, ReadersApart, Renamed
  <2>4. \A i \in DOMAIN files : i # writer[w].tmp => files'[i] = files[i]
    BY <1>3, Types DEF Write, Fsync
  <2> QED
    BY <1>1, <1>3, <2>3, <2>4 DEF Write, Fsync
<1> QED
  BY <1>2, <1>3

(* What is whole stays so while its file is left as it is.                 *)
LEMMA WholeKept ==
  ASSUME WholeInv, UNCHANGED reader, onDisk' \subseteq onDisk \cup {0},
         \A i \in onDisk \ {0} : files'[i] = files[i],
         \A r \in Readers :
           reader[r].file # 0 => files'[reader[r].file] = files[reader[r].file]
  PROVE  SurvivesWhole' /\ \A r \in Readers : ReaderSound(r)'
<1>1. SurvivesWhole'
  BY DEF WholeInv, SurvivesWhole, Whole
<1>2. ASSUME NEW r \in Readers
      PROVE  ReaderSound(r)'
  BY DEF WholeInv, ReaderSound, Whole
<1> QED
  BY <1>1, <1>2

(* What a call renames is whole and on disk.                               *)
LEMMA RenameWhole ==
  ASSUME ~CopyMayFail, WholeInv, NEW w \in Writers, Rename(w)
  PROVE  SurvivesWhole' /\ \A r \in Readers : ReaderSound(r)'
<1>1. /\ files[writer[w].tmp].data \in Data
      /\ files[writer[w].tmp].data = writer[w].want
      /\ files[writer[w].tmp].len = Size[writer[w].want]
      /\ files[writer[w].tmp].disk = Size[writer[w].want]
  BY DEF WholeInv, Inv, CallSound, Rename, Before, Renamed, Busy
<1>2. /\ UNCHANGED <<files, reader>>
      /\ onDisk' \subseteq onDisk \cup {writer[w].tmp}
  BY DEF Rename
<1>3. SurvivesWhole'
  BY <1>1, <1>2 DEF WholeInv, SurvivesWhole, Whole
<1>4. ASSUME NEW r \in Readers
      PROVE  ReaderSound(r)'
  BY <1>2 DEF WholeInv, ReaderSound, Whole
<1> QED
  BY <1>3, <1>4

LEMMA OpenWhole ==
  ASSUME WholeInv, NEW r \in Readers, Open(r)
  PROVE  SurvivesWhole' /\ \A q \in Readers : ReaderSound(q)'
<1>1. /\ UNCHANGED <<files, onDisk>> /\ target \in onDisk
      /\ reader \in [Readers -> Reader]
  BY DEF Open, WholeInv, Inv, TypeOK
<1>2. SurvivesWhole'
  BY <1>1 DEF WholeInv, SurvivesWhole, Whole
<1>3. ASSUME NEW q \in Readers, q # r
      PROVE  ReaderSound(q)'
  BY <1>1, <1>3 DEF Open, WholeInv, ReaderSound, Whole
<1>4. ReaderSound(r)'
  <2>1. CASE target = 0
    BY <1>1, <2>1 DEF Open, ReaderSound, IdleReader
  <2>2. CASE target # 0
    <3>1. reader'[r] = [at |-> "read", file |-> target, len |-> 0]
      BY <1>1, <2>2 DEF Open
    <3>2. Whole(target) /\ files[target].len \in Nat
      BY <1>1, <2>2, Types DEF WholeInv, SurvivesWhole, Inv, TypeOK
    <3> QED
      BY <1>1, <2>2, <3>1, <3>2 DEF ReaderSound, Whole
  <2> QED
    BY <2>1, <2>2
<1> QED
  BY <1>2, <1>3, <1>4

LEMMA ReadWhole ==
  ASSUME WholeInv, NEW r \in Readers, Read(r)
  PROVE  SurvivesWhole' /\ \A q \in Readers : ReaderSound(q)'
<1>1. /\ UNCHANGED <<files, onDisk>> /\ reader \in [Readers -> Reader]
      /\ reader[r].at = "read" /\ Inv
  BY DEF Read, WholeInv, Inv, TypeOK
<1>2. PICK t \in Reader :
        /\ reader' = [reader EXCEPT ![r] = t]
        /\ t.file = reader[r].file
        /\ \/ /\ t.at = "read"
              /\ t.len <= files[reader[r].file].len
           \/ /\ t.at = "ok" /\ t.len = reader[r].len
              /\ reader[r].len = files[reader[r].file].len
           \/ t.at = "error"
  BY <1>1, ReadRound
<1>3. SurvivesWhole'
  BY <1>1 DEF WholeInv, SurvivesWhole, Whole
<1>4. ASSUME NEW q \in Readers, q # r
      PROVE  ReaderSound(q)'
  BY <1>1, <1>2, <1>4 DEF WholeInv, ReaderSound, Whole
<1>5. ReaderSound(r)'
  BY <1>1, <1>2 DEF WholeInv, ReaderSound, Whole
<1> QED
  BY <1>3, <1>4, <1>5

(* Of a file whose bytes are all on disk a crash leaves all of them.       *)
LEMMA CrashWhole ==
  ASSUME WholeInv, Crash
  PROVE  SurvivesWhole' /\ \A r \in Readers : ReaderSound(r)'
<1>1. Inv /\ onDisk' = {target'} /\ reader' = [r \in Readers |-> IdleReader]
  BY DEF WholeInv, Crash
<1>2. ASSUME target' # 0
      PROVE  /\ files'[target'].data = files[target'].data
             /\ files'[target'].len = files[target'].len
             /\ files'[target'].disk = files'[target'].len
  <2>1. /\ target' \in DOMAIN files /\ target' \in onDisk
        /\ files'[target'].len \in files[target'].disk .. files[target'].len
        /\ files'[target'].disk = files'[target'].len
        /\ files'[target'].data = files[target'].data
    BY <1>1, <1>2, FilesLeft, Types
  <2>2. files[target'].disk = files[target'].len /\ files[target'].len \in Nat
    BY <1>1, <1>2, <2>1, Types DEF WholeInv, SurvivesWhole
  <2> QED
    BY <2>1, <2>2
<1>3. SurvivesWhole'
  <2>1. target' \in onDisk
    BY <1>1, FilesLeft
  <2> QED
    BY <1>1, <1>2, <2>1 DEF WholeInv, SurvivesWhole, Whole
<1>4. \A r \in Readers : ReaderSound(r)'
  BY <1>1 DEF ReaderSound, IdleReader
<1> QED
  BY <1>3, <1>4

LEMMA NextWhole ==
  ASSUME ~CopyMayFail, WholeInv, [Next]_vars
  PROVE  WholeInv'
<1>1. Inv /\ Inv' /\ target \in onDisk
  BY NextInv DEF WholeInv, Inv
<1> SUFFICES SurvivesWhole' /\ \A r \in Readers : ReaderSound(r)'
  BY <1>1 DEF WholeInv
<1>2. CASE UNCHANGED vars
  BY <1>2, WholeKept DEF vars
<1>3. ASSUME NEW w \in Writers,
             (\E d \in Data : Call(w, d)) \/ RefuseCall(w) \/ SetCloexec(w)
               \/ Close(w) \/ SyncDirectory(w) \/ ReturnOk(w) \/ Unlink(w)
               \/ Kill(w)
      PROVE  SurvivesWhole' /\ \A r \in Readers : ReaderSound(r)'
  <2>1. UNCHANGED <<files, reader>> /\ onDisk' \subseteq onDisk
    BY <1>1, <1>3 DEF Call, RefuseCall, SetCloexec, Close, SyncDirectory,
                      ReturnOk, Unlink, Kill
  <2> QED
    BY <2>1, WholeKept
<1>4. ASSUME NEW w \in Writers, Mkstemp(w) \/ Write(w) \/ Fsync(w)
      PROVE  SurvivesWhole' /\ \A r \in Readers : ReaderSound(r)'
  BY <1>1, <1>4, FilesKept, WholeKept
<1>5. ASSUME NEW w \in Writers, Rename(w)
      PROVE  SurvivesWhole' /\ \A r \in Readers : ReaderSound(r)'
  BY <1>5, RenameWhole
<1>6. CASE Remove
  BY <1>6, WholeKept DEF Remove
<1>7. ASSUME NEW r \in Readers, Open(r) \/ Read(r)
      PROVE  SurvivesWhole' /\ \A q \in Readers : ReaderSound(q)'
  BY <1>7, OpenWhole, ReadWhole
<1> QED
  BY <1>2, <1>3, <1>4, <1>5, <1>6, <1>7, CrashWhole DEF Next, WriteStep

(* As long as no copy of a packed str fails for want of memory, neither a  *)
(* crash at any moment nor a read that succeeds finds a part of a write.   *)
THEOREM FilesAreWhole ==
  ASSUME ~CopyMayFail
  PROVE  Spec => []WholeFiles
<1>1. Init => WholeInv
  BY InitInv
<1>2. WholeInv /\ [Next]_vars => WholeInv'
  BY NextWhole
<1>3. WholeInv => WholeFiles
  BY DEF WholeInv, WholeFiles, ReaderSound, ReadsWhole, Whole
<1> QED
  BY <1>1, <1>2, <1>3, PTL DEF Spec

-------------------------------------------------------------------------------
(***************************************************************************)
(* The refinement: __tyna_fs_write_atomic, __tyna_fs_read_all and          *)
(* __tyna_fs_remove, system call by system call, implement the atomic file *)
(* that fs.tn promises: the initial states map to initial states, and      *)
(* every step maps to a step of AtomicFile or to none.                     *)
(***************************************************************************)
(* The variables of AtomicFile, as the refinement mapping gives them.      *)
Contents == ContentsOf(target)
Survivors == {ContentsOf(i) : i \in onDisk}
Writes == [w \in Writers |-> [at |-> AbstractStage(writer[w].at),
                              data |-> writer[w].want]]
Answers == [r \in Readers |-> ContentsOf(reader[r].file)]

Mapped == <<Contents, Survivors, Writes, Answers>>

-------------------------------------------------------------------------------
(***************************************************************************)
(* What the parts of a step do to the mapped variables.                    *)
(***************************************************************************)

LEMMA SeenKept ==
  ASSUME Inv, UNCHANGED <<target, onDisk, reader>>,
         \A i \in onDisk \ {0} : files'[i] = files[i],
         \A r \in Readers :
           reader[r].file # 0 => files'[reader[r].file] = files[reader[r].file]
  PROVE  UNCHANGED <<Contents, Survivors, Answers>>
<1>1. \A i \in onDisk : ContentsOf(i)' = ContentsOf(i)
  BY DEF ContentsOf
<1>2. UNCHANGED Contents
  BY <1>1 DEF Inv, Contents
<1>3. UNCHANGED Survivors
  BY <1>1 DEF Survivors
<1>4. UNCHANGED Answers
  BY DEF Answers, ContentsOf
<1> QED
  BY <1>2, <1>3, <1>4

LEMMA WritesMap ==
  ASSUME NEW w \in Writers,
         \A v \in Writers : v # w => writer'[v] = writer[v]
  PROVE  Writes' = [Writes EXCEPT ![w] = [at |-> AbstractStage(writer'[w].at),
                                          data |-> writer'[w].want]]
BY DEF Writes, AbstractStage

LEMMA WritesKept ==
  ASSUME \A v \in Writers :
           /\ AbstractStage(writer'[v].at) = AbstractStage(writer[v].at)
           /\ writer'[v].want = writer[v].want
  PROVE  UNCHANGED Writes
BY DEF Writes, AbstractStage

-------------------------------------------------------------------------------
(***************************************************************************)
(* Each step of the program.                                               *)
(***************************************************************************)

LEMMA CallStarts ==
  ASSUME Inv, NEW w \in Writers, NEW d \in Data, Call(w, d)
  PROVE  Abstract!Start(w)
<1>1. writer \in [Writers -> Writer]
  BY DEF Inv, TypeOK
<1>2. /\ writer'[w].at = "begin" /\ writer'[w].want = d
      /\ \A v \in Writers : v # w => writer'[v] = writer[v]
      /\ writer[w].at \in {"idle", "ok", "error"}
      /\ UNCHANGED <<files, target, onDisk, reader>>
  BY <1>1 DEF Call, Writer
<1>3. Writes' = [Writes EXCEPT ![w] = [at |-> "asked", data |-> d]]
  BY <1>2, WritesMap DEF AbstractStage
<1>4. Writes[w].at \in {"idle", "ok", "error"}
  BY <1>2 DEF Writes, AbstractStage
<1>5. UNCHANGED <<Contents, Survivors, Answers>>
  BY <1>2, SeenKept
<1> QED
  BY <1>3, <1>4, <1>5 DEF Abstract!Start, Contents, Survivors, Writes, Answers

(* A call that is not past its rename returns a failure.                   *)
LEMMA CallRefused ==
  ASSUME Inv, NEW w \in Writers,
         writer[w].at \in {"begin", "cloexec", "unlink"},
         End(w, "error"), UNCHANGED <<files, target, onDisk, reader>>
  PROVE  Abstract!Refuse(w)
<1>1. writer \in [Writers -> Writer]
  BY DEF Inv, TypeOK
<1>2. /\ writer'[w] = [IdleWriter EXCEPT !.at = "error"]
      /\ \A v \in Writers : v # w => writer'[v] = writer[v]
  BY <1>1 DEF End
<1>3. Writes' = [Writes EXCEPT ![w] = [at |-> "error", data |-> NoFile]]
  BY <1>2, WritesMap DEF AbstractStage, IdleWriter
<1>4. Writes[w].at = "asked"
  BY DEF Writes, AbstractStage
<1>5. UNCHANGED <<Contents, Survivors, Answers>>
  BY SeenKept
<1> QED
  BY <1>3, <1>4, <1>5
     DEF Abstract!Refuse, Abstract!Idle, Contents, Survivors, Writes, Answers

(* The steps between mkstemp and rename, and after it, are not seen.       *)
LEMMA CallUnseen ==
  ASSUME Inv, NEW w \in Writers,
         \/ Mkstemp(w) \/ Write(w) \/ Fsync(w) \/ Close(w)
         \/ SetCloexec(w) /\ ~End(w, "error")
         \/ Rename(w) /\ ~Goto(w, "dirsync")
  PROVE  UNCHANGED Mapped
<1>1. writer \in [Writers -> Writer]
  BY DEF Inv, TypeOK
<1>2. UNCHANGED <<Contents, Survivors, Answers>>
  <2>1. CASE Mkstemp(w) \/ Write(w) \/ Fsync(w)
    BY <2>1, FilesKept, SeenKept
  <2>2. CASE \/ Close(w)
             \/ SetCloexec(w) /\ ~End(w, "error")
             \/ Rename(w) /\ ~Goto(w, "dirsync")
    <3>1. UNCHANGED <<files, target, onDisk, reader>>
      BY <2>2 DEF Close, SetCloexec, Rename
    <3> QED
      BY <3>1, SeenKept
  <2> QED
    BY <2>1, <2>2
<1>3. /\ AbstractStage(writer'[w].at) = AbstractStage(writer[w].at)
      /\ writer'[w].want = writer[w].want
      /\ \A v \in Writers : v # w => writer'[v] = writer[v]
  <2>1. CASE Mkstemp(w)
    BY <1>1, <2>1 DEF Mkstemp, AbstractStage, Writer
  <2>2. CASE Write(w)
    BY <1>1, <2>2 DEF Write, AbstractStage, Writer
  <2>3. CASE Fsync(w)
    BY <1>1, <2>3 DEF Fsync, Goto, AbstractStage, Writer
  <2>4. CASE Close(w)
    BY <1>1, <2>4 DEF Close, AbstractStage, Writer
  <2>5. CASE SetCloexec(w) /\ ~End(w, "error")
    BY <1>1, <2>5 DEF SetCloexec, Goto, AbstractStage, Writer
  <2>6. CASE Rename(w) /\ ~Goto(w, "dirsync")
    BY <1>1, <2>6 DEF Rename, AbstractStage, Writer
  <2> QED
    BY <2>1, <2>2, <2>3, <2>4, <2>5, <2>6
<1>4. UNCHANGED Writes
  BY <1>3, WritesKept
<1> QED
  BY <1>2, <1>4 DEF Mapped

(* The rename is the moment at which a write happens.                      *)
LEMMA RenameTakes ==
  ASSUME ~CopyMayFail, Inv, NEW w \in Writers, Rename(w), Goto(w, "dirsync")
  PROVE  Abstract!Take(w)
<1>1. writer \in [Writers -> Writer] /\ writer[w].at = "rename"
  BY DEF Inv, TypeOK, Rename
<1>2. /\ writer'[w].at = "dirsync" /\ writer'[w].want = writer[w].want
      /\ \A v \in Writers : v # w => writer'[v] = writer[v]
  BY <1>1 DEF Goto, Writer
<1>3. /\ target' = writer[w].tmp /\ onDisk' = onDisk \cup {target'}
      /\ UNCHANGED <<files, reader>>
  BY <1>1, <1>2 DEF Rename, Writer
<1>4. /\ files[writer[w].tmp].data = writer[w].want
      /\ writer[w].tmp \in DOMAIN files
  BY <1>1 DEF Inv, CallSound, Before, Renamed
<1>5. Writes[w].at = "asked" /\ Writes[w].data = writer[w].want
  BY <1>1 DEF Writes, AbstractStage
<1>6. Writes' = [Writes EXCEPT ![w] =
                   [at |-> "taken", data |-> writer[w].want]]
  BY <1>2, WritesMap DEF AbstractStage
<1>7. Writes[w] = [at |-> "asked", data |-> writer[w].want]
  BY <1>1 DEF Writes, AbstractStage
<1>8. Writes' = [Writes EXCEPT ![w].at = "taken"]
  <2>1. [Writes[w] EXCEPT !.at = "taken"] =
          [at |-> "taken", data |-> writer[w].want]
    BY <1>7
  <2> QED
    BY <1>6, <2>1
<1>9. Contents' = Writes[w].data
  BY <1>3, <1>4, <1>5, Types DEF Contents, ContentsOf
<1>10. Survivors' = Survivors \cup {Contents'}
  BY <1>3 DEF Survivors, Contents, ContentsOf
<1>11. UNCHANGED Answers
  BY <1>3 DEF Answers, ContentsOf
<1> QED
  BY <1>5, <1>8, <1>9, <1>10, <1>11
     DEF Abstract!Take, Contents, Survivors, Writes, Answers

LEMMA SyncSettles ==
  ASSUME Inv, NEW w \in Writers, SyncDirectory(w)
  PROVE  Abstract!Settle
<1>1. writer \in [Writers -> Writer]
  BY DEF Inv, TypeOK
<1>2. /\ writer[w].at = "dirsync" /\ writer'[w].at = "return"
      /\ writer'[w].want = writer[w].want
      /\ \A v \in Writers : v # w => writer'[v] = writer[v]
  BY <1>1 DEF SyncDirectory, Goto, Writer
<1>3. UNCHANGED Writes
  BY <1>2, WritesKept DEF AbstractStage
<1>4. onDisk' = {target} /\ UNCHANGED <<files, target, reader>>
  BY DEF SyncDirectory
<1>5. Survivors' = {Contents} /\ UNCHANGED <<Contents, Answers>>
  BY <1>4 DEF Survivors, Contents, Answers, ContentsOf
<1> QED
  BY <1>3, <1>5 DEF Abstract!Settle, Contents, Survivors, Writes, Answers

LEMMA ReturnSucceeds ==
  ASSUME Inv, NEW w \in Writers, ReturnOk(w)
  PROVE  Abstract!Succeed(w)
<1>1. writer \in [Writers -> Writer]
  BY DEF Inv, TypeOK
<1>2. /\ writer'[w] = [IdleWriter EXCEPT !.at = "ok"]
      /\ \A v \in Writers : v # w => writer'[v] = writer[v]
      /\ UNCHANGED <<files, target, onDisk, reader>>
  BY <1>1 DEF ReturnOk, End
<1>3. Writes' = [Writes EXCEPT ![w] = [at |-> "ok", data |-> NoFile]]
  BY <1>2, WritesMap DEF AbstractStage, IdleWriter
<1>4. Writes[w].at = "taken"
  BY DEF ReturnOk, Writes, AbstractStage
<1>5. UNCHANGED <<Contents, Survivors, Answers>>
  BY <1>2, SeenKept
<1> QED
  BY <1>3, <1>4, <1>5
     DEF Abstract!Succeed, Abstract!Idle, Contents, Survivors, Writes, Answers

LEMMA RemoveDiscards ==
  ASSUME Inv, Remove
  PROVE  Abstract!Discard
<1>1. /\ target' = 0 /\ onDisk' = onDisk \cup {0}
      /\ UNCHANGED <<files, writer, reader>>
  BY DEF Remove
<1>2. Contents' = NoFile /\ UNCHANGED <<Writes, Answers>>
  BY <1>1 DEF Contents, Writes, Answers, ContentsOf
<1>3. Survivors' = Survivors \cup {NoFile}
  BY <1>1 DEF Survivors, ContentsOf
<1> QED
  BY <1>2, <1>3 DEF Abstract!Discard, Contents, Survivors, Writes, Answers

LEMMA OpenLooks ==
  ASSUME Inv, NEW r \in Readers, Open(r)
  PROVE  Abstract!Look(r)
<1>1. reader \in [Readers -> Reader]
  BY DEF Inv, TypeOK
<1>2. /\ reader'[r].file = target
      /\ \A q \in Readers : q # r => reader'[q] = reader[q]
      /\ UNCHANGED <<files, target, onDisk, writer>>
  BY <1>1 DEF Open, IdleReader
<1>3. Answers' = [Answers EXCEPT ![r] = Contents]
  BY <1>2 DEF Answers, Contents, ContentsOf
<1>4. UNCHANGED <<Contents, Survivors, Writes>>
  BY <1>2 DEF Contents, Survivors, Writes, ContentsOf
<1> QED
  BY <1>3, <1>4 DEF Abstract!Look, Contents, Survivors, Writes, Answers

LEMMA ReadUnseen ==
  ASSUME Inv, NEW r \in Readers, Read(r)
  PROVE  UNCHANGED Mapped
<1>1. PICK t \in Reader :
        reader' = [reader EXCEPT ![r] = t] /\ t.file = reader[r].file
  BY ReadRound
<1>2. UNCHANGED <<files, target, onDisk, writer>>
  BY DEF Read
<1>3. reader \in [Readers -> Reader]
  BY DEF Inv, TypeOK
<1>4. \A q \in Readers : reader'[q].file = reader[q].file
  BY <1>1, <1>3
<1>5. UNCHANGED Answers
  BY <1>2, <1>4 DEF Answers, ContentsOf
<1> QED
  BY <1>2, <1>5 DEF Mapped, Contents, Survivors, Writes, ContentsOf

LEMMA KillAbandons ==
  ASSUME Inv, NEW w \in Writers, Kill(w)
  PROVE  Abstract!Abandon(w)
<1>1. writer \in [Writers -> Writer]
  BY DEF Inv, TypeOK
<1>2. /\ writer'[w] = IdleWriter
      /\ \A v \in Writers : v # w => writer'[v] = writer[v]
      /\ UNCHANGED <<files, target, onDisk, reader>>
  BY <1>1 DEF Kill
<1>3. Writes' = [Writes EXCEPT ![w] = [at |-> "idle", data |-> NoFile]]
  BY <1>2, WritesMap DEF AbstractStage, IdleWriter
<1>4. UNCHANGED <<Contents, Survivors, Answers>>
  BY <1>2, SeenKept
<1> QED
  BY <1>3, <1>4
     DEF Abstract!Abandon, Abstract!Idle, Contents, Survivors, Writes, Answers

LEMMA CrashHalts ==
  ASSUME Inv, Crash
  PROVE  Abstract!Halt
<1>1. /\ onDisk' = {target'}
      /\ writer' = [w \in Writers |-> IdleWriter]
      /\ reader' = [r \in Readers |-> IdleReader]
  BY DEF Crash
<1>2. /\ target' \in onDisk
      /\ target' # 0 => files'[target'].data = files[target'].data
  BY FilesLeft, Types
<1>3. Contents' \in Survivors
  BY <1>2 DEF Contents, Survivors, ContentsOf
<1>4. Survivors' = {Contents'}
  BY <1>1 DEF Contents, Survivors, ContentsOf
<1>5. Writes' = [w \in Writers |-> [at |-> "idle", data |-> NoFile]]
  BY <1>1 DEF Writes, AbstractStage, IdleWriter
<1>6. Answers' = [r \in Readers |-> NoFile]
  BY <1>1 DEF Answers, ContentsOf, IdleReader
<1> QED
  BY <1>3, <1>4, <1>5, <1>6
     DEF Abstract!Halt, Abstract!Idle, Contents, Survivors, Writes, Answers

-------------------------------------------------------------------------------
(***************************************************************************)
(* The refinement.                                                         *)
(***************************************************************************)

LEMMA InitRefines == Init => Abstract!AbstractInit
<1> SUFFICES ASSUME Init PROVE Abstract!AbstractInit
  OBVIOUS
<1>1. PICK d \in Data \cup {NoFile} :
        /\ files = IF d = NoFile THEN <<>>
                   ELSE <<[data |-> d, len |-> Size[d], disk |-> Size[d]]>>
        /\ target = Len(files)
  BY DEF Init
<1>2. Contents \in Data \cup {NoFile}
  <2>1. CASE d = NoFile
    BY <1>1, <2>1 DEF Contents, ContentsOf
  <2>2. CASE d # NoFile
    BY <1>1, <2>2 DEF Contents, ContentsOf
  <2> QED
    BY <2>1, <2>2
<1>3. Survivors = {Contents}
  BY DEF Init, Contents, Survivors
<1>4. Writes = [w \in Writers |-> [at |-> "idle", data |-> NoFile]]
  BY DEF Init, Writes, AbstractStage, IdleWriter
<1>5. Answers = [r \in Readers |-> NoFile]
  BY DEF Init, Answers, ContentsOf, IdleReader
<1> QED
  BY <1>2, <1>3, <1>4, <1>5
     DEF Abstract!AbstractInit, Abstract!Idle, Contents, Survivors, Writes,
         Answers

LEMMA StepRefines ==
  ASSUME ~CopyMayFail, Inv, [Next]_vars
  PROVE  [Abstract!AbstractNext]_(Abstract!abstractVars)
<1> SUFFICES Abstract!AbstractNext \/ UNCHANGED Mapped
  BY DEF Abstract!abstractVars, Mapped, Contents, Survivors, Writes, Answers
<1>1. CASE UNCHANGED vars
  BY <1>1 DEF vars, Mapped, Contents, Survivors, Writes, Answers, ContentsOf
<1>2. ASSUME NEW w \in Writers, \E d \in Data : Call(w, d)
      PROVE  Abstract!AbstractNext
  BY <1>2, CallStarts DEF Abstract!AbstractNext
<1>3. ASSUME NEW w \in Writers, WriteStep(w)
      PROVE  Abstract!AbstractNext \/ UNCHANGED Mapped
  <2>1. CASE \/ RefuseCall(w) \/ Unlink(w)
             \/ SetCloexec(w) /\ End(w, "error")
    <3>1. /\ writer[w].at \in {"begin", "cloexec", "unlink"}
          /\ End(w, "error") /\ UNCHANGED <<files, target, onDisk, reader>>
      BY <2>1 DEF RefuseCall, Unlink, SetCloexec
    <3> QED
      BY <3>1, CallRefused DEF Abstract!AbstractNext
  <2>2. CASE \/ Mkstemp(w) \/ Write(w) \/ Fsync(w) \/ Close(w)
             \/ SetCloexec(w) /\ ~End(w, "error")
             \/ Rename(w) /\ ~Goto(w, "dirsync")
    BY <2>2, CallUnseen
  <2>3. CASE Rename(w) /\ Goto(w, "dirsync")
    BY <2>3, RenameTakes DEF Abstract!AbstractNext
  <2>4. CASE SyncDirectory(w)
    BY <2>4, SyncSettles DEF Abstract!AbstractNext
  <2>5. CASE ReturnOk(w)
    BY <2>5, ReturnSucceeds DEF Abstract!AbstractNext
  <2> QED
    BY <1>3, <2>1, <2>2, <2>3, <2>4, <2>5 DEF WriteStep
<1>4. ASSUME NEW r \in Readers, Open(r) \/ Read(r)
      PROVE  Abstract!AbstractNext \/ UNCHANGED Mapped
  BY <1>4, OpenLooks, ReadUnseen DEF Abstract!AbstractNext
<1>5. ASSUME NEW w \in Writers, Kill(w)
      PROVE  Abstract!AbstractNext
  BY <1>5, KillAbandons DEF Abstract!AbstractNext
<1>6. CASE Remove \/ Crash
  BY <1>6, RemoveDiscards, CrashHalts DEF Abstract!AbstractNext
<1> QED
  BY <1>1, <1>2, <1>3, <1>4, <1>5, <1>6 DEF Next

(* As long as no copy of a packed str fails for want of memory, any number *)
(* of processes that write, read and remove the path, are killed, or stop  *)
(* with the machine see the atomic file of fs.tn: the rename is the moment *)
(* at which a write happens, the open that at which a read looks.          *)
THEOREM AtomicFileImplemented ==
  ASSUME ~CopyMayFail
  PROVE  Spec => Atomic
<1>1. Init => Abstract!AbstractInit
  BY InitRefines
<1>2. Inv /\ [Next]_vars => [Abstract!AbstractNext]_(Abstract!abstractVars)
  BY StepRefines
<1>3. Init => Inv
  BY InitInv DEF WholeInv
<1>4. Inv /\ [Next]_vars => Inv'
  BY NextInv
<1> QED
  BY <1>1, <1>2, <1>3, <1>4, PTL DEF Spec, Atomic, Abstract!AbstractSpec
===============================================================================

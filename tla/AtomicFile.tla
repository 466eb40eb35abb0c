------------------------------- MODULE AtomicFile -------------------------------
(***************************************************************************)
(* What fs.tn promises of a path that is only written with write_atomic    *)
(* and remove_file: whoever looks, in this run or after a crash, finds the *)
(* contents of one whole write, or no file; a write that reports success   *)
(* has happened, one that reports a failure has not.                       *)
(***************************************************************************)
CONSTANTS
  Writers,      \* the calls of write_atomic that may run at a time
  Readers,      \* the calls of read_to_string that may run at a time
  Data,         \* what may be written
  NoFile        \* the path leads nowhere

VARIABLES
  contents,     \* what the path leads to
  survivors,    \* what a crash may leave there
  write,        \* write[w]: what w was asked to write, and how far it is
  answer        \* answer[r]: what the read r returns if it succeeds

abstractVars == <<contents, survivors, write, answer>>

Idle == [at |-> "idle", data |-> NoFile]

AbstractInit ==
  /\ contents \in Data \cup {NoFile}
  /\ survivors = {contents}
  /\ write = [w \in Writers |-> Idle]
  /\ answer = [r \in Readers |-> NoFile]

Start(w) ==
  /\ write[w].at \in {"idle", "ok", "error"}
  /\ \E d \in Data : write' = [write EXCEPT ![w] = [at |-> "asked", data |-> d]]
  /\ UNCHANGED <<contents, survivors, answer>>

Take(w) ==
  /\ write[w].at = "asked"
  /\ contents' = write[w].data
  /\ survivors' = survivors \cup {contents'}
  /\ write' = [write EXCEPT ![w].at = "taken"]
  /\ UNCHANGED answer

Succeed(w) ==
  /\ write[w].at = "taken"
  /\ write' = [write EXCEPT ![w] = [Idle EXCEPT !.at = "ok"]]
  /\ UNCHANGED <<contents, survivors, answer>>

Refuse(w) ==
  /\ write[w].at = "asked"
  /\ write' = [write EXCEPT ![w] = [Idle EXCEPT !.at = "error"]]
  /\ UNCHANGED <<contents, survivors, answer>>

(* The process of the call is gone.                                        *)
Abandon(w) ==
  /\ write' = [write EXCEPT ![w] = Idle]
  /\ UNCHANGED <<contents, survivors, answer>>

Settle ==
  /\ survivors' = {contents}
  /\ UNCHANGED <<contents, write, answer>>

Discard ==
  /\ contents' = NoFile
  /\ survivors' = survivors \cup {NoFile}
  /\ UNCHANGED <<write, answer>>

Look(r) ==
  /\ answer' = [answer EXCEPT ![r] = contents]
  /\ UNCHANGED <<contents, survivors, write>>

Halt ==
  /\ contents' \in survivors
  /\ survivors' = {contents'}
  /\ write' = [w \in Writers |-> Idle]
  /\ answer' = [r \in Readers |-> NoFile]

AbstractNext ==
  \/ \E w \in Writers : 
       Start(w) \/ Take(w) \/ Succeed(w) \/ Refuse(w) \/ Abandon(w)
  \/ Settle \/ Discard \/ Halt
  \/ \E r \in Readers : Look(r)

AbstractSpec == AbstractInit /\ [][AbstractNext]_abstractVars
===============================================================================

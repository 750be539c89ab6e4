-------------------------------- MODULE Fio --------------------------------
(***************************************************************************)
(* The descriptors of fio.c and the read-only file system of romfs.c,      *)
(* under tasks that open, read, seek and close files, each closing only    *)
(* what it opened.  fio_sem guards the search for a descriptor and its     *)
(* clearing; everything else is done without it, one step per access of a  *)
(* table.  The pointers of a descriptor to functions are strings; opaque   *)
(* is the index of the entry of romfs_fds it points to.                    *)
(*                                                                         *)
(* No file system of the program sets fdclose, and nothing registers devfs *)
(* (register_devfs is not called), so neither appears here.                *)
(***************************************************************************)
EXTENDS Integers, Sequences, FiniteSets

CONSTANTS
  Client,     \* the tasks
  MAX_FDS,
  File,       \* the files of the romfs
  Size,       \* the size of each
  Missing,    \* paths that name no file of the romfs
  Outside,    \* paths under no mount point
  Opens,      \* the paths each task opens
  Counts,     \* how much fio_read is asked for
  Offset,     \* what fio_seek is called with
  NULL

Path == File \cup Missing \cup Outside
Fd == 0 .. MAX_FDS - 1
Std == 0 .. 2

ASSUME FioAssumption ==
  /\ MAX_FDS \in Nat /\ MAX_FDS >= 3
  /\ Size \in [File -> Nat]
  /\ Opens \in [Client -> SUBSET Path]
  /\ Counts \subseteq Nat /\ Offset \subseteq Int
  /\ NULL \notin Client \cup Path \cup Int
  /\ NULL \notin {"stdin_read", "stdout_write", "romfs_read", "romfs_seek"}
  /\ File \cap (Missing \cup Outside) = {}

VARIABLES
  fio_fds,    \* the descriptors
  romfs_fds,  \* file and cursor of each descriptor of a romfs file
  fio_sem,    \* the holder of the mutex, or NULL
  at,         \* the step of fs_open or fio_close each task is at
  path,       \* what it opens, or has opened
  fd          \* what fs_open returned to it

fioVars == <<fio_fds, romfs_fds, fio_sem, at, path, fd>>

-----------------------------------------------------------------------------
Closed == [fdread |-> NULL, fdwrite |-> NULL, fdseek |-> NULL, opaque |-> NULL]

(* fio_is_open_int                                                         *)
IsOpen(f) == f \in Fd /\ fio_fds[f] # Closed

(* fio_findfd                                                              *)
FindFd ==
  IF \A f \in Fd : IsOpen(f) THEN -1
  ELSE CHOOSE f \in Fd : ~IsOpen(f) /\ \A g \in Fd : g < f => IsOpen(g)

(* fs_open, and romfs_get_file_by_hash                                     *)
FsOpen(c, p) ==
  /\ at[c] = "idle" \/ (at[c] = "opened" /\ fd[c] < 0)
  /\ path' = [path EXCEPT ![c] = p]
  /\ at' = [at EXCEPT ![c] = IF p \in File THEN "open" ELSE "opened"]
  /\ fd' = [fd EXCEPT ![c] = IF p \in Outside THEN -2 ELSE -1]
  /\ UNCHANGED <<fio_fds, romfs_fds, fio_sem>>

(* Mutant: the mutex is not waited for.                                    *)
TakeSemAlways(c, from, to) ==
  /\ at[c] = from
  /\ fio_sem' = c
  /\ at' = [at EXCEPT ![c] = to]
  /\ UNCHANGED <<fio_fds, romfs_fds, path, fd>>

TakeSem(c, from, to) ==
  /\ at[c] = from
  /\ fio_sem = NULL
  /\ fio_sem' = c
  /\ at' = [at EXCEPT ![c] = to]
  /\ UNCHANGED <<fio_fds, romfs_fds, path, fd>>

GiveSem(c, from, to) ==
  /\ at[c] = from
  /\ fio_sem' = NULL
  /\ at' = [at EXCEPT ![c] = to]
  /\ UNCHANGED <<fio_fds, romfs_fds, path, fd>>

(* fio_open, called by romfs_open, in between                              *)
OpenFind(c) ==
  /\ at[c] = "find"
  /\ fd' = [fd EXCEPT ![c] = FindFd]
  /\ at' = [at EXCEPT ![c] = IF FindFd >= 0 THEN "fill" ELSE "found"]
  /\ UNCHANGED <<fio_fds, romfs_fds, fio_sem, path>>

RomfsDescriptor ==
  [fdread |-> "romfs_read", fdwrite |-> NULL, fdseek |-> "romfs_seek", opaque |-> NULL]

OpenFill(c) ==
  /\ at[c] = "fill"
  /\ fio_fds' = [fio_fds EXCEPT ![fd[c]] = RomfsDescriptor]
  /\ at' = [at EXCEPT ![c] = "found"]
  /\ UNCHANGED <<romfs_fds, fio_sem, path, fd>>

(* Mutant: the entry keeps the cursor of the file it had before.           *)
RomfsEntryKeepsCursor(c) ==
  /\ at[c] = "entry"
  /\ romfs_fds' = [romfs_fds EXCEPT ![fd[c]].file = path[c]]
  /\ at' = [at EXCEPT ![c] = "opaque"]
  /\ UNCHANGED <<fio_fds, fio_sem, path, fd>>

(* The rest of romfs_open.  Descriptor 0 is left without an entry.         *)
RomfsEntry(c) ==
  /\ at[c] = "entry"
  /\ romfs_fds' = [romfs_fds EXCEPT ![fd[c]] = [file |-> path[c], cursor |-> 0]]
  /\ at' = [at EXCEPT ![c] = "opaque"]
  /\ UNCHANGED <<fio_fds, fio_sem, path, fd>>

(* fio_set_opaque                                                          *)
SetOpaque(c) ==
  /\ at[c] = "opaque"
  /\ fio_fds' = IF IsOpen(fd[c]) THEN [fio_fds EXCEPT ![fd[c]].opaque = fd[c]]
                ELSE fio_fds
  /\ at' = [at EXCEPT ![c] = "opened"]
  /\ UNCHANGED <<romfs_fds, fio_sem, path, fd>>

Opening(c) ==
  \/ TakeSem(c, "open", "find")
  \/ OpenFind(c) \/ OpenFill(c)
  \/ GiveSem(c, "found", IF fd[c] > 0 THEN "entry" ELSE "opened")
  \/ RomfsEntry(c) \/ SetOpaque(c)

-----------------------------------------------------------------------------
(* Mutant: no limit.                                                       *)
AtMostAny(x, limit) == x
AtMost(x, limit) == IF x > limit THEN limit ELSE x

(* What fio_read returns, for a romfs file, and the entry it reads         *)
Entry(f) == romfs_fds[fio_fds[f].opaque]
CountRead(f, count) ==
  IF ~IsOpen(f) THEN -2
  ELSE IF fio_fds[f].fdread = NULL THEN -3
  ELSE IF Entry(f).cursor + count > Size[Entry(f).file]
       THEN Size[Entry(f).file] - Entry(f).cursor
       ELSE count

FioRead(c, count) ==
  /\ at[c] = "opened"
  /\ romfs_fds' = IF CountRead(fd[c], count) > 0
                  THEN [romfs_fds EXCEPT ![fio_fds[fd[c]].opaque].cursor =
                          @ + CountRead(fd[c], count)]
                  ELSE romfs_fds
  /\ UNCHANGED <<fio_fds, fio_sem, at, path, fd>>

(* romfs_seek                                                              *)
Origin(f, whence) ==
  CASE whence = "SEEK_SET" -> 0
    [] whence = "SEEK_CUR" -> Entry(f).cursor
    [] whence = "SEEK_END" -> Size[Entry(f).file]

FioSeek(c, offset, whence) ==
  LET to == Origin(fd[c], whence) + offset
  IN /\ at[c] = "opened" /\ IsOpen(fd[c])
     /\ fio_fds[fd[c]].fdseek # NULL
     /\ to >= 0
     /\ romfs_fds' = [romfs_fds EXCEPT ![fio_fds[fd[c]].opaque].cursor =
                        AtMost(to, Size[Entry(fd[c]).file])]
     /\ UNCHANGED <<fio_fds, fio_sem, at, path, fd>>

(* fio_close                                                               *)
CloseTest(c) ==
  /\ at[c] = "opened"
  /\ at' = [at EXCEPT ![c] = IF IsOpen(fd[c]) THEN "close" ELSE "idle"]
  /\ UNCHANGED <<fio_fds, romfs_fds, fio_sem, path, fd>>

(* Mutant: one word is cleared.                                            *)
CloseClearWord(c) ==
  /\ at[c] = "clear"
  /\ fio_fds' = [fio_fds EXCEPT ![fd[c]].fdread = NULL]
  /\ at' = [at EXCEPT ![c] = "cleared"]
  /\ UNCHANGED <<romfs_fds, fio_sem, path, fd>>

CloseClear(c) ==
  /\ at[c] = "clear"
  /\ fio_fds' = [fio_fds EXCEPT ![fd[c]] = Closed]
  /\ at' = [at EXCEPT ![c] = "cleared"]
  /\ UNCHANGED <<romfs_fds, fio_sem, path, fd>>

Closing(c) ==
  TakeSem(c, "close", "clear") \/ CloseClear(c) \/ GiveSem(c, "cleared", "idle")

-----------------------------------------------------------------------------
StdDescriptor(f) ==
  [fdread |-> IF f = 0 THEN "stdin_read" ELSE NULL,
   fdwrite |-> IF f = 0 THEN NULL ELSE "stdout_write",
   fdseek |-> NULL, opaque |-> NULL]

FioInit ==
  /\ fio_fds = [f \in Fd |-> IF f \in Std THEN StdDescriptor(f) ELSE Closed]
  /\ romfs_fds = [f \in Fd |-> [file |-> NULL, cursor |-> 0]]
  /\ fio_sem = NULL
  /\ at = [c \in Client |-> "idle"]
  /\ path = [c \in Client |-> NULL]
  /\ fd = [c \in Client |-> -1]

FioStep(c) ==
  \/ \E p \in Opens[c] : FsOpen(c, p)
  \/ Opening(c) \/ Closing(c)
  \/ \E count \in Counts : FioRead(c, count)
  \/ \E offset \in Offset, whence \in {"SEEK_SET", "SEEK_CUR", "SEEK_END"} :
       FioSeek(c, offset, whence)
  \/ CloseTest(c)

FioNext == \E c \in Client : FioStep(c)

FioSpec == FioInit /\ [][FioNext]_fioVars

-----------------------------------------------------------------------------
(* A task has a descriptor from the search for it until it is cleared.     *)
Claims(c) == fd[c] >= 0 /\ at[c] \in {"fill", "found", "entry", "opaque", "opened", "close", "clear"}
Holds(c) == Claims(c) /\ at[c] # "fill"
HasFile(c) == fd[c] >= 0 /\ at[c] \in {"opened", "close", "clear"}

(* What fs_open returned stays the task's own until it closes it, whatever *)
(* the others open and close (fio.c:117-133, 180-193): the descriptor is   *)
(* no other's, and leads to the file it opened.                            *)
OwnDescriptors ==
  \A c \in Client :
    /\ Claims(c) => fd[c] \notin Std /\ \A d \in Client \ {c} : Claims(d) => fd[d] # fd[c]
    /\ HasFile(c) => /\ fio_fds[fd[c]].opaque = fd[c]
                     /\ romfs_fds[fd[c]].file = path[c]

(* No descriptor is lost: those in use are the standard ones and those     *)
(* that tasks hold.                                                        *)
NoneLeaked == {f \in Fd : IsOpen(f)} = Std \cup {fd[c] : c \in {d \in Client : Holds(d)}}

(* The cursor never passes the end of the file, where romfs_read would     *)
(* copy a count that wrapped below zero (romfs.c:27-30, 60-63).            *)
CursorInFile == \A c \in Client : HasFile(c) => Entry(fd[c]).cursor \in 0 .. Size[path[c]]
=============================================================================

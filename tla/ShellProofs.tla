----------------------------- MODULE ShellProofs -----------------------------
(***************************************************************************)
(* What a task opened stays its own, for any number of tasks, descriptors  *)
(* and files; and the terminal of the shell shows what is typed and what   *)
(* is dumped, for any keys, files and lengths of the line.                 *)
(***************************************************************************)
EXTENDS Shell, TLAPS, WellFoundedInduction, SequenceTheorems

USE DEF fioVars

Descriptor == [fdread : {NULL, "stdin_read", "romfs_read"},
               fdwrite : {NULL, "stdout_write"},
               fdseek : {NULL, "romfs_seek"},
               opaque : Fd \cup {NULL}]

Locked == {"find", "fill", "found", "clear", "cleared"}
Steps == Locked \cup {"idle", "open", "entry", "opaque", "opened", "close"}

FioTypeOK ==
  /\ fio_fds \in [Fd -> Descriptor]
  /\ romfs_fds \in [Fd -> [file : File \cup {NULL}, cursor : Int]]
  /\ fio_sem \in Client \cup {NULL}
  /\ at \in [Client -> Steps]
  /\ path \in [Client -> Path \cup {NULL}]
  /\ fd \in [Client -> Int]

(* The mutex.                                                              *)
Mutex == \A c \in Client : at[c] \in Locked => fio_sem = c

(* The descriptors claimed are descriptors, and none of the standard ones. *)
(* They are open, but for the time from the search to the filling.         *)
ClaimsOpen ==
  /\ \A f \in Std : IsOpen(f)
  /\ \A c \in Client : Claims(c) => /\ fd[c] \in Fd \ Std
                                    /\ IsOpen(fd[c]) <=> Holds(c)

Unshared == \A c, d \in Client : c # d /\ Claims(c) /\ Claims(d) => fd[c] # fd[d]

OpenClaimed == \A f \in Fd : IsOpen(f) => f \in Std \/ \E c \in Client : Holds(c) /\ fd[c] = f

(* A task's file, from its entry in romfs_fds on.                          *)
Entered(c) == fd[c] >= 0 /\ at[c] \in {"opaque", "opened", "close", "clear"}

FilesKept ==
  \A c \in Client :
    /\ at[c] \in Steps \ {"idle", "opened", "cleared"} => path[c] \in File
    /\ at[c] \in {"entry", "opaque"} => fd[c] >= 0
    /\ Entered(c) => /\ path[c] \in File
                     /\ romfs_fds[fd[c]].file = path[c]
                     /\ romfs_fds[fd[c]].cursor \in 0 .. Size[path[c]]
    /\ HasFile(c) => fio_fds[fd[c]].opaque = fd[c]

FioInv == FioTypeOK /\ Mutex /\ ClaimsOpen /\ Unshared /\ OpenClaimed /\ FilesKept

-----------------------------------------------------------------------------
(* fio_findfd finds a descriptor that is not open.                         *)
LEMMA FindFree ==
  ASSUME FioAssumption
  PROVE  FindFd = -1 \/ (FindFd \in Fd /\ ~IsOpen(FindFd))
<1> DEFINE Free == {f \in Fd : ~IsOpen(f)}
<1>1. CASE Free = {}
  BY <1>1 DEF FindFd
<1>2. CASE Free # {}
  <2>1. Free \subseteq Nat
    BY DEF Fd, FioAssumption
  <2> DEFINE R == {ss \in Nat \X Nat : ss[1] < ss[2]}
  <2>2. IsWellFoundedOn(R, Nat)
    BY NatLessThanWellFounded DEF OpToRel
  <2>3. \E x \in Free : \A y \in Free : ~(<<y, x>> \in R)
    <3> HIDE DEF Free, R
    <3> QED BY <1>2, <2>1, <2>2, WFMin
  <2>4. PICK x \in Free : \A y \in Free : ~(<<y, x>> \in R)
    BY <2>3
  <2>5. \A g \in Fd : g < x => IsOpen(g)
    BY <2>1, <2>4
  <2> QED BY <2>4, <2>5 DEF FindFd
<1> QED BY <1>1, <1>2

(* The descriptors at the beginning.                                       *)
LEMMA FioInitially == ASSUME FioAssumption PROVE FioInit => FioInv
<1> SUFFICES ASSUME FioInit PROVE FioInv
  OBVIOUS
<1>0. Closed \in Descriptor /\ \A f \in Std : StdDescriptor(f) \in Descriptor \ {Closed}
  BY FioAssumption DEF Descriptor, Closed, StdDescriptor
<1>1. FioTypeOK
  BY <1>0, FioAssumption DEF FioInit, FioTypeOK, Steps, Std
<1>2. Mutex /\ Unshared /\ FilesKept
  BY DEF FioInit, Mutex, Unshared, FilesKept, Locked, Claims, Entered, HasFile
<1>3. ClaimsOpen
  <2>1. Std \subseteq Fd
    BY FioAssumption DEF Std, Fd
  <2> QED BY <1>0, <2>1 DEF FioInit, ClaimsOpen, Claims, IsOpen
<1>4. OpenClaimed
  BY DEF FioInit, OpenClaimed, IsOpen, StdDescriptor
<1> QED BY <1>1, <1>2, <1>3, <1>4 DEF FioInv

(* Steps that leave the tables of descriptors alone, and what is claimed.  *)
LEMMA FsOpenPreserves ==
  ASSUME FioAssumption, FioInv, NEW c \in Client, NEW p \in Path, FsOpen(c, p)
  PROVE  FioInv'
<1> USE DEF FsOpen
<1>1. ~Claims(c) /\ ~Claims(c)' /\ ~Holds(c) /\ ~Holds(c)'
  BY DEF FioInv, FioTypeOK, Claims, Holds
<1>2. FioTypeOK'
  BY FioAssumption DEF FioInv, FioTypeOK, Steps
<1>3. Mutex'
  BY DEF FioInv, FioTypeOK, Mutex, Locked
<1>4. \A d \in Client \ {c} : (Claims(d)' <=> Claims(d)) /\ (Holds(d)' <=> Holds(d)) /\ fd'[d] = fd[d]
  BY DEF FioInv, FioTypeOK, Claims, Holds
<1>5. \A f : IsOpen(f)' <=> IsOpen(f)
  BY DEF IsOpen
<1>6. ClaimsOpen' /\ Unshared' /\ OpenClaimed'
  BY <1>1, <1>4, <1>5 DEF FioInv, ClaimsOpen, Unshared, OpenClaimed
<1>7. FilesKept'
  BY FioAssumption DEF FioInv, FioTypeOK, FilesKept, Entered, HasFile, Path
<1> QED BY <1>2, <1>3, <1>6, <1>7 DEF FioInv

LEMMA TakeSemPreserves ==
  ASSUME FioAssumption, FioInv, NEW c \in Client,
         TakeSem(c, "open", "find") \/ TakeSem(c, "close", "clear")
  PROVE  FioInv'
<1> USE DEF TakeSem
<1>1. FioTypeOK'
  BY DEF FioInv, FioTypeOK, Steps, Locked
<1>2. Mutex'
  BY FioAssumption DEF FioInv, FioTypeOK, Mutex
<1>3. \A d \in Client : (Claims(d)' <=> Claims(d)) /\ (Holds(d)' <=> Holds(d))
  BY DEF FioInv, FioTypeOK, Claims, Holds
<1>4. \A f : IsOpen(f)' <=> IsOpen(f)
  BY DEF IsOpen
<1>5. ClaimsOpen' /\ Unshared' /\ OpenClaimed'
  BY <1>3, <1>4 DEF FioInv, ClaimsOpen, Unshared, OpenClaimed
<1>6. FilesKept'
  BY DEF FioInv, FioTypeOK, FilesKept, Entered, HasFile, Steps, Locked
<1> QED BY <1>1, <1>2, <1>5, <1>6 DEF FioInv

LEMMA GiveSemPreserves ==
  ASSUME FioAssumption, FioInv, NEW c \in Client,
         \/ GiveSem(c, "found", IF fd[c] > 0 THEN "entry" ELSE "opened")
         \/ GiveSem(c, "cleared", "idle")
  PROVE  FioInv'
<1> USE DEF GiveSem
<1>0. Claims(c) /\ at[c] = "found" => fd[c] > 0
  BY FioAssumption DEF FioInv, FioTypeOK, ClaimsOpen, Fd, Std
<1>1. FioTypeOK'
  BY DEF FioInv, FioTypeOK, Steps, Locked
<1>2. Mutex'
  BY FioAssumption DEF FioInv, FioTypeOK, Mutex, Locked
<1>3. \A d \in Client : (Claims(d)' <=> Claims(d)) /\ (Holds(d)' <=> Holds(d))
  BY DEF FioInv, FioTypeOK, Claims, Holds
<1>4. \A f : IsOpen(f)' <=> IsOpen(f)
  BY DEF IsOpen
<1>5. ClaimsOpen' /\ Unshared' /\ OpenClaimed'
  BY <1>3, <1>4 DEF FioInv, ClaimsOpen, Unshared, OpenClaimed
<1>6. FilesKept'
  BY <1>0 DEF FioInv, FioTypeOK, FilesKept, Entered, HasFile, Steps, Locked, Claims
<1> QED BY <1>1, <1>2, <1>5, <1>6 DEF FioInv
-----------------------------------------------------------------------------
(* Steps that change the descriptors.                                      *)
LEMMA OpenFindPreserves ==
  ASSUME FioAssumption, FioInv, NEW c \in Client, OpenFind(c) PROVE FioInv'
<1> USE DEF OpenFind
<1>1. FindFd = -1 \/ (FindFd \in Fd \ Std /\ ~IsOpen(FindFd))
  BY FindFree DEF FioInv, ClaimsOpen
<1>2. FioTypeOK'
  BY <1>1 DEF FioInv, FioTypeOK, Steps, Locked, Fd
<1>3. Mutex'
  BY DEF FioInv, FioTypeOK, Mutex, Locked
<1>4. \A d \in Client \ {c} : at[d] # "fill"
  BY DEF FioInv, Mutex, Locked
<1>5. \A d \in Client \ {c} : /\ (Claims(d)' <=> Claims(d)) /\ (Holds(d)' <=> Holds(d))
                              /\ fd'[d] = fd[d]
  BY DEF FioInv, FioTypeOK, Claims, Holds
<1>6. ~Holds(c) /\ ~Holds(c)' /\ (Claims(c)' => fd'[c] = FindFd /\ FindFd \in Fd \ Std /\ ~IsOpen(FindFd))
  BY <1>1 DEF FioInv, FioTypeOK, Claims, Holds
<1>7. \A f : IsOpen(f)' <=> IsOpen(f)
  BY DEF IsOpen
<1>8. ClaimsOpen'
  BY <1>5, <1>6, <1>7 DEF FioInv, ClaimsOpen
<1>9. Unshared'
  <2>1. \A d \in Client \ {c} : Claims(d) => IsOpen(fd[d])
    BY <1>4 DEF FioInv, ClaimsOpen, Holds
  <2> QED BY <1>5, <1>6, <2>1 DEF FioInv, Unshared
<1>10. OpenClaimed'
  BY <1>5, <1>6, <1>7 DEF FioInv, OpenClaimed
<1>11. FilesKept'
  BY DEF FioInv, FioTypeOK, FilesKept, Entered, HasFile, Steps, Locked
<1> QED BY <1>2, <1>3, <1>8, <1>9, <1>10, <1>11 DEF FioInv

LEMMA OpenFillPreserves ==
  ASSUME FioAssumption, FioInv, NEW c \in Client, OpenFill(c) PROVE FioInv'
<1> USE DEF OpenFill
<1>1. RomfsDescriptor \in Descriptor \ {Closed}
  BY FioAssumption DEF RomfsDescriptor, Descriptor, Closed
<1>2. FioTypeOK'
  BY <1>1 DEF FioInv, FioTypeOK, Steps, Locked
<1>3. Mutex'
  BY DEF FioInv, FioTypeOK, Mutex, Locked
<1>4. \A d \in Client : (Claims(d)' <=> Claims(d)) /\ (d # c => (Holds(d)' <=> Holds(d)))
  BY DEF FioInv, FioTypeOK, Claims, Holds
<1>5. \A f \in Fd : IsOpen(f)' <=> f = fd[c] \/ IsOpen(f)
  BY <1>1 DEF FioInv, FioTypeOK, IsOpen
<1>6. fd[c] \in Int /\ (fd[c] >= 0 => Claims(c) /\ ~Holds(c) /\ Holds(c)')
  BY DEF FioInv, FioTypeOK, Claims, Holds
<1>7. CASE fd[c] >= 0
  <2>1. fd[c] \in Fd \ Std
    BY <1>6, <1>7 DEF FioInv, ClaimsOpen
  <2>2. ClaimsOpen'
    BY <1>4, <1>5, <1>6, <1>7, FioAssumption DEF FioInv, ClaimsOpen, Unshared, Std, Fd
  <2>3. Unshared' /\ OpenClaimed'
    BY <1>4, <1>5, <1>6, <1>7 DEF FioInv, Unshared, OpenClaimed
  <2>4. FilesKept'
    BY <1>4, <1>6, <1>7, <2>1
    DEF FioInv, FioTypeOK, FilesKept, Unshared, Entered, HasFile, Steps, Locked, Claims
  <2> QED BY <1>2, <1>3, <2>2, <2>3, <2>4 DEF FioInv
<1>8. CASE fd[c] < 0
  <2>1. fd[c] \notin Fd
    BY <1>8 DEF Fd
  <2>2. UNCHANGED fio_fds
    BY <2>1 DEF FioInv, FioTypeOK
  <2>3. \A f : IsOpen(f)' <=> IsOpen(f)
    BY <2>2 DEF IsOpen
  <2>4. ~Holds(c) /\ ~Holds(c)'
    BY <1>6, <1>8 DEF Holds, Claims
  <2>5. ClaimsOpen' /\ Unshared' /\ OpenClaimed'
    BY <1>4, <2>3, <2>4 DEF FioInv, ClaimsOpen, Unshared, OpenClaimed
  <2>6. FilesKept'
    BY <2>2, <1>6, <1>8 DEF FioInv, FioTypeOK, FilesKept, Entered, HasFile, Steps, Locked
  <2> QED BY <1>2, <1>3, <2>5, <2>6 DEF FioInv
<1> QED BY <1>6, <1>7, <1>8

LEMMA CloseClearPreserves ==
  ASSUME FioAssumption, FioInv, NEW c \in Client, CloseClear(c) PROVE FioInv'
<1> USE DEF CloseClear
<1>1. Closed \in Descriptor
  BY DEF Closed, Descriptor
<1>2. FioTypeOK'
  BY <1>1 DEF FioInv, FioTypeOK, Steps, Locked
<1>3. Mutex'
  BY DEF FioInv, FioTypeOK, Mutex, Locked
<1>4. \A d \in Client \ {c} : (Claims(d)' <=> Claims(d)) /\ (Holds(d)' <=> Holds(d))
  BY DEF FioInv, FioTypeOK, Claims, Holds
<1>5. ~Claims(c)' /\ ~Holds(c)' /\ fd[c] \in Int /\ (fd[c] >= 0 => Claims(c) /\ Holds(c))
  BY DEF FioInv, FioTypeOK, Claims, Holds
<1>6. \A f \in Fd : IsOpen(f)' <=> f # fd[c] /\ IsOpen(f)
  BY DEF FioInv, FioTypeOK, IsOpen
<1>7. \A d \in Client \ {c} : Claims(d) => fd[d] \in Fd \ Std /\ fd[d] # fd[c]
  BY <1>5 DEF FioInv, ClaimsOpen, Unshared, Fd
<1>8. \A f \in Std : f # fd[c] /\ f \in Fd
  BY <1>5, FioAssumption DEF FioInv, ClaimsOpen, Std, Fd
<1>9. ClaimsOpen'
  BY <1>4, <1>5, <1>6, <1>7, <1>8 DEF FioInv, ClaimsOpen
<1>10. Unshared'
  BY <1>4, <1>5 DEF FioInv, Unshared
<1>11. OpenClaimed'
  BY <1>4, <1>5, <1>6 DEF FioInv, OpenClaimed
<1>12. FilesKept'
  BY <1>7 DEF FioInv, FioTypeOK, FilesKept, Entered, HasFile, Steps, Locked, Claims
<1> QED BY <1>2, <1>3, <1>9, <1>10, <1>11, <1>12 DEF FioInv
-----------------------------------------------------------------------------
(* Steps on the file a task has opened.                                    *)

(* A cursor that changes leaves everything but FilesKept as it is.         *)
LEMMA CursorMoves ==
  ASSUME FioAssumption, FioInv, NEW c \in Client, at[c] = "opened", fd[c] >= 0,
         NEW n \in 0 .. Size[path[c]],
         romfs_fds' = [romfs_fds EXCEPT ![fd[c]].cursor = n],
         UNCHANGED <<fio_fds, fio_sem, at, path, fd>>
  PROVE  FioInv'
<1>1. Claims(c) /\ fd[c] \in Fd /\ path[c] \in File /\ n \in Int
  BY FioAssumption DEF Claims, FioInv, ClaimsOpen, FilesKept, Entered
<1>2. FioTypeOK'
  BY <1>1 DEF FioInv, FioTypeOK
<1>3. \A d \in Client : (Claims(d)' <=> Claims(d)) /\ (Holds(d)' <=> Holds(d))
  BY DEF Claims, Holds
<1>4. \A f : IsOpen(f)' <=> IsOpen(f)
  BY DEF IsOpen
<1>5. Mutex' /\ ClaimsOpen' /\ Unshared' /\ OpenClaimed'
  BY <1>3, <1>4 DEF FioInv, Mutex, ClaimsOpen, Unshared, OpenClaimed
<1>6. FilesKept'
  <2> SUFFICES ASSUME NEW d \in Client, Entered(d)
               PROVE  /\ path[d] \in File
                      /\ romfs_fds'[fd[d]].file = path[d]
                      /\ romfs_fds'[fd[d]].cursor \in 0 .. Size[path[d]]
    BY DEF FioInv, FilesKept, Entered, HasFile
  <2>1. fd[d] \in Fd /\ (d # c => fd[d] # fd[c])
    BY <1>1 DEF FioInv, ClaimsOpen, Unshared, Entered, Claims
  <2> QED BY <1>1, <2>1 DEF FioInv, FioTypeOK, FilesKept
<1> QED BY <1>2, <1>5, <1>6 DEF FioInv

(* A step that changes nothing.                                            *)
LEMMA Stutter == ASSUME FioInv, UNCHANGED fioVars PROVE FioInv'
BY DEF FioInv, FioTypeOK, Mutex, ClaimsOpen, Unshared, OpenClaimed, FilesKept, Claims, Holds, Entered, HasFile, IsOpen

(* What a task finds at its descriptor is the file it opened.              *)
LEMMA EntryIsOwn ==
  ASSUME FioAssumption, FioInv, NEW c \in Client, at[c] = "opened", IsOpen(fd[c])
  PROVE  /\ fd[c] >= 0 /\ fd[c] \in Fd
         /\ fio_fds[fd[c]].opaque = fd[c]
         /\ Entry(fd[c]).file = path[c] /\ path[c] \in File
         /\ Entry(fd[c]).cursor \in 0 .. Size[path[c]]
         /\ Size[path[c]] \in Nat
<1>1. fd[c] >= 0 /\ fd[c] \in Fd
  BY FioAssumption DEF IsOpen, Fd
<1>2. Entered(c) /\ HasFile(c)
  BY <1>1 DEF Entered, HasFile
<1> QED BY <1>1, <1>2, FioAssumption DEF FioInv, FilesKept, Entry

LEMMA ReadPreserves ==
  ASSUME FioAssumption, FioInv, NEW c \in Client, NEW count \in Nat, FioRead(c, count)
  PROVE  FioInv'
<1> DEFINE n == CountRead(fd[c], count)
<1>1. CASE ~(n > 0)
  BY <1>1, Stutter DEF FioRead
<1>2. CASE n > 0
  <2>1. IsOpen(fd[c])
    BY <1>2 DEF CountRead
  <2>2. /\ fd[c] >= 0 /\ fd[c] \in Fd /\ fio_fds[fd[c]].opaque = fd[c]
        /\ Entry(fd[c]).file = path[c] /\ Size[path[c]] \in Nat
        /\ Entry(fd[c]).cursor \in 0 .. Size[path[c]]
    BY <2>1, EntryIsOwn DEF FioRead
  <2>3. n \in Nat /\ Entry(fd[c]).cursor + n \in 0 .. Size[path[c]]
    BY <1>2, <2>2 DEF CountRead
  <2>4. romfs_fds' = [romfs_fds EXCEPT ![fd[c]].cursor = Entry(fd[c]).cursor + n]
    BY <1>2, <2>2 DEF FioRead, Entry
  <2> HIDE DEF n
  <2> QED BY <2>2, <2>3, <2>4, CursorMoves DEF FioRead
<1> QED BY <1>1, <1>2

LEMMA SeekPreserves ==
  ASSUME FioAssumption, FioInv, NEW c \in Client, NEW offset \in Offset,
         NEW whence \in {"SEEK_SET", "SEEK_CUR", "SEEK_END"}, FioSeek(c, offset, whence)
  PROVE  FioInv'
<1> DEFINE to == Origin(fd[c], whence) + offset
           n == AtMost(to, Size[Entry(fd[c]).file])
<1>1. /\ fd[c] >= 0 /\ fd[c] \in Fd /\ fio_fds[fd[c]].opaque = fd[c]
      /\ Entry(fd[c]).file = path[c] /\ Size[path[c]] \in Nat
      /\ Entry(fd[c]).cursor \in 0 .. Size[path[c]]
  BY EntryIsOwn DEF FioSeek
<1>2. to \in Nat
  <2>1. Origin(fd[c], whence) \in Int
    BY <1>1 DEF Origin
  <2> QED BY <2>1, FioAssumption DEF FioSeek
<1>3. n \in 0 .. Size[path[c]]
  <2> HIDE DEF to
  <2> QED BY <1>1, <1>2 DEF AtMost
<1>4. romfs_fds' = [romfs_fds EXCEPT ![fd[c]].cursor = n]
  BY <1>1 DEF FioSeek
<1> HIDE DEF n
<1> QED BY <1>1, <1>3, <1>4, CursorMoves DEF FioSeek
LEMMA RomfsEntryPreserves ==
  ASSUME FioAssumption, FioInv, NEW c \in Client, RomfsEntry(c) PROVE FioInv'
<1> USE DEF RomfsEntry
<1>1. Claims(c) /\ fd[c] \in Fd /\ path[c] \in File
  BY DEF FioInv, ClaimsOpen, FilesKept, Claims, Steps, Locked
<1>2. FioTypeOK'
  BY <1>1 DEF FioInv, FioTypeOK, Steps, Locked
<1>3. Mutex'
  BY DEF FioInv, FioTypeOK, Mutex, Locked
<1>4. \A d \in Client : (Claims(d)' <=> Claims(d)) /\ (Holds(d)' <=> Holds(d))
  BY DEF FioInv, FioTypeOK, Claims, Holds
<1>5. \A f : IsOpen(f)' <=> IsOpen(f)
  BY DEF IsOpen
<1>6. ClaimsOpen' /\ Unshared' /\ OpenClaimed'
  BY <1>4, <1>5 DEF FioInv, ClaimsOpen, Unshared, OpenClaimed
<1>7. FilesKept'
  <2>1. \A d \in Client \ {c} : Entered(d) => fd[d] # fd[c]
    BY <1>1 DEF FioInv, Unshared, Entered, Claims
  <2>2. Size[path[c]] \in Nat
    BY <1>1, FioAssumption
  <2> QED BY <1>1, <2>1, <2>2
      DEF FioInv, FioTypeOK, FilesKept, Entered, HasFile, Steps, Locked
<1> QED BY <1>2, <1>3, <1>6, <1>7 DEF FioInv

LEMMA SetOpaquePreserves ==
  ASSUME FioAssumption, FioInv, NEW c \in Client, SetOpaque(c) PROVE FioInv'
<1> USE DEF SetOpaque
<1>1. Claims(c) /\ Holds(c) /\ fd[c] \in Fd /\ IsOpen(fd[c])
  BY DEF FioInv, ClaimsOpen, FilesKept, Claims, Holds
<1>2. FioTypeOK'
  <2>1. [fio_fds[fd[c]] EXCEPT !.opaque = fd[c]] \in Descriptor
    BY <1>1 DEF FioInv, FioTypeOK, Descriptor
  <2>2. fio_fds' \in [Fd -> Descriptor]
    BY <1>1, <2>1 DEF FioInv, FioTypeOK
  <2> QED BY <2>2 DEF FioInv, FioTypeOK, Steps, Locked
<1>3. Mutex'
  BY DEF FioInv, FioTypeOK, Mutex, Locked
<1>4. \A d \in Client : (Claims(d)' <=> Claims(d)) /\ (Holds(d)' <=> Holds(d))
  BY DEF FioInv, FioTypeOK, Claims, Holds
<1>5. \A f \in Fd : IsOpen(f)' <=> IsOpen(f)
  <2>1. fio_fds'[fd[c]].opaque # NULL
    BY <1>1, FioAssumption DEF FioInv, FioTypeOK, Descriptor, Fd
  <2>2. fio_fds'[fd[c]] # Closed
    BY <2>1 DEF Closed
  <2> QED BY <1>1, <2>2 DEF FioInv, FioTypeOK, IsOpen
<1>6. Std \subseteq Fd
  BY FioAssumption DEF Std, Fd
<1>7. ClaimsOpen' /\ Unshared' /\ OpenClaimed'
  BY <1>4, <1>5, <1>6 DEF FioInv, ClaimsOpen, Unshared, OpenClaimed
<1>8. FilesKept'
  <2>1. \A d \in Client \ {c} : HasFile(d) => fd[d] # fd[c]
    BY <1>1 DEF FioInv, Unshared, HasFile, Claims
  <2> QED BY <1>1, <2>1 DEF FioInv, FioTypeOK, FilesKept, Entered, HasFile, Steps, Locked, Descriptor
<1> QED BY <1>2, <1>3, <1>7, <1>8 DEF FioInv

LEMMA CloseTestPreserves ==
  ASSUME FioAssumption, FioInv, NEW c \in Client, CloseTest(c) PROVE FioInv'
<1> USE DEF CloseTest
<1>0. IsOpen(fd[c]) <=> Claims(c)
  BY FioAssumption DEF FioInv, ClaimsOpen, Claims, Holds, IsOpen, Fd
<1>1. FioTypeOK'
  BY DEF FioInv, FioTypeOK, Steps, Locked
<1>2. Mutex'
  BY DEF FioInv, FioTypeOK, Mutex, Locked
<1>3. \A d \in Client : (Claims(d)' <=> Claims(d)) /\ (Holds(d)' <=> Holds(d))
  BY <1>0 DEF FioInv, FioTypeOK, Claims, Holds
<1>4. \A f : IsOpen(f)' <=> IsOpen(f)
  BY DEF IsOpen
<1>5. ClaimsOpen' /\ Unshared' /\ OpenClaimed'
  BY <1>3, <1>4 DEF FioInv, ClaimsOpen, Unshared, OpenClaimed
<1>6. FilesKept'
  BY <1>0 DEF FioInv, FioTypeOK, FilesKept, Entered, HasFile, Steps, Locked, Claims
<1> QED BY <1>1, <1>2, <1>5, <1>6 DEF FioInv

-----------------------------------------------------------------------------
LEMMA FioStepPreserves == ASSUME FioAssumption, FioInv, FioNext PROVE FioInv'
<1>1. PICK c \in Client : FioStep(c)
  BY DEF FioNext
<1>2. CASE \E p \in Opens[c] : FsOpen(c, p)
  <2>1. Opens[c] \subseteq Path
    BY FioAssumption
  <2> QED BY <1>2, <2>1, FsOpenPreserves
<1>3. CASE Opening(c)
  BY <1>3, TakeSemPreserves, GiveSemPreserves, OpenFindPreserves, OpenFillPreserves,
     RomfsEntryPreserves, SetOpaquePreserves DEF Opening
<1>4. CASE Closing(c)
  BY <1>4, TakeSemPreserves, GiveSemPreserves, CloseClearPreserves DEF Closing
<1>5. CASE \E count \in Counts : FioRead(c, count)
  BY <1>5, ReadPreserves, FioAssumption
<1>6. CASE \E offset \in Offset, whence \in {"SEEK_SET", "SEEK_CUR", "SEEK_END"} :
              FioSeek(c, offset, whence)
  BY <1>6, SeekPreserves
<1>7. CASE CloseTest(c)
  BY <1>7, CloseTestPreserves
<1> QED BY <1>1, <1>2, <1>3, <1>4, <1>5, <1>6, <1>7 DEF FioStep

(* The whole inductive invariant of the descriptors (fio.c:117-198,        *)
(* romfs.c:22-99).                                                         *)
THEOREM FioInvariant == ASSUME FioAssumption PROVE FioSpec => []FioInv
<1>1. FioInit => FioInv
  BY FioInitially
<1>2. FioInv /\ [FioNext]_fioVars => FioInv'
  BY FioStepPreserves, Stutter
<1> QED BY <1>1, <1>2, PTL DEF FioSpec

(* What the invariant says of descriptors.                                 *)
LEMMA InvDescriptors ==
  ASSUME FioAssumption, FioInv PROVE OwnDescriptors /\ NoneLeaked /\ CursorInFile
<1>1. OwnDescriptors
  BY DEF FioInv, ClaimsOpen, Unshared, FilesKept, OwnDescriptors, HasFile, Entered
<1>2. NoneLeaked
  <2>1. Std \subseteq Fd
    BY FioAssumption DEF Std, Fd
  <2>2. \A f \in Fd : IsOpen(f) => f \in Std \/ \E c \in Client : Holds(c) /\ fd[c] = f
    BY DEF FioInv, OpenClaimed
  <2>3. \A c \in Client : Holds(c) => fd[c] \in Fd /\ IsOpen(fd[c])
    BY DEF FioInv, ClaimsOpen, Holds
  <2> QED BY <2>1, <2>2, <2>3 DEF NoneLeaked, FioInv, ClaimsOpen
<1>3. CursorInFile
  BY DEF FioInv, FilesKept, CursorInFile, HasFile, Entered, Entry
<1> QED BY <1>1, <1>2, <1>3

(* A descriptor belongs to the task that opened it until it closes it, and *)
(* leads to the file it opened, however the opening and closing of others  *)
(* interleaves (fio.c:117-133, 180-193).                                   *)
THEOREM DescriptorsAreOwn == ASSUME FioAssumption PROVE FioSpec => []OwnDescriptors
BY FioInvariant, InvDescriptors, PTL

(* The descriptors in use are the standard ones and those tasks hold       *)
(* (fio.c:98-107, 187).                                                    *)
THEOREM NoDescriptorLost == ASSUME FioAssumption PROVE FioSpec => []NoneLeaked
BY FioInvariant, InvDescriptors, PTL

(* No cursor passes the end of its file (romfs.c:27-30, 60-63).            *)
THEOREM CursorsInFiles == ASSUME FioAssumption PROVE FioSpec => []CursorInFile
BY FioInvariant, InvDescriptors, PTL

-----------------------------------------------------------------------------
(* What a terminal shows after one byte more (Show).                       *)
After(d, byte) ==
  CASE byte = "NUL" -> d
    [] byte = "NL" -> <<<<>>, 0>>
    [] byte = "BS" -> <<d[1], IF d[2] > 0 THEN d[2] - 1 ELSE 0>>
    [] OTHER -> <<Overwrite(d[1], d[2], byte), d[2] + 1>>

(* Its line once the data register is sent, the bytes not yet in the       *)
(* register, and the line once at most three of them are shown.            *)
Soon == IF tdr = None THEN <<screen, column>> ELSE After(<<screen, column>>, tdr)
Rest == IF io \in {"load", "store"} THEN Tail(out) ELSE out
Final(d, s) ==
  IF Len(s) = 0 THEN d
  ELSE IF Len(s) = 1 THEN After(d, s[1])
  ELSE IF Len(s) = 2 THEN After(After(d, s[1]), s[2])
  ELSE After(After(After(d, s[1]), s[2]), s[3])

Byte == Key \cup FileByte \cup OwnByte
Display == {d \in Seq(Byte) \X Nat : d[2] <= Len(d[1])}

(* The terminal shows every key and every byte of a file as one character, *)
(* and files of one line are dumped.                                       *)
Legible == (Key \cup FileByte) \cap {"NUL", "NL", "BS"} = {}

InLine == {"line", "sequence", "end"}
CliSteps == InLine \cup {"prompt", "command", "open", "dump", "close"}
Sending == {"send", "data", "load", "store"}
Receiving == {"receive", "rxstore", "rxwait"}

(* The serial line: a byte is in the data register only when the           *)
(* semaphore is taken, and the receiver is never disabled, whatever the    *)
(* handler and a task make of CR1.                                         *)
SerialInv ==
  /\ tdr \in Byte \cup {None} /\ rdr \in Key \cup {None}
  /\ serial_rx_queue \in Seq(Key) /\ Len(serial_rx_queue) <= 1
  /\ "RXNE" \in cr1 /\ (io \in {"store", "rxstore"} => "RXNE" \in loaded)
  /\ <<screen, column>> \in Display
  /\ serial_tx_wait_sem \in {0, 1} /\ (serial_tx_wait_sem = 1 => tdr = None)
  /\ io = "data" => tdr = None
  /\ io \in {"data", "load", "store"} => serial_tx_wait_sem = 0 /\ "TXE" \notin cr1

(* What is sent, and when.                                                 *)
OutInv ==
  /\ out \in Seq(Byte) /\ (out = <<>> <=> io \notin Sending)
  /\ io \in Sending \cup Receiving \cup {"done"} /\ cli \in CliSteps
  /\ io \in Receiving => cli \in InLine
  /\ cli \in {"open", "close"} => out = <<>>

(* The line that is typed leaves room for its end.                         *)
Fits(key) == i < Count - 1 \/ key \in EditingKey
LineInv ==
  /\ buf \in [0 .. Count -> Byte \cup {"junk"}] /\ i \in Nat
  /\ cli \in InLine => i < Count
  /\ cli = "line" => /\ rdr # None => Fits(rdr)
                     /\ serial_rx_queue # <<>> => Fits(Head(serial_rx_queue))
  /\ LineEnds

(* The file that is dumped.                                                *)
DumpInv ==
  /\ cli = "open" => at[CLI] \in {"open", "find", "fill", "found", "entry", "opaque", "opened"}
  /\ cli = "dump" => at[CLI] = "opened"
  /\ cli = "close" => at[CLI] \in {"opened", "close", "clear", "cleared"}
  /\ cli = "open" /\ at[CLI] \in {"opaque", "opened"} /\ fd[CLI] >= 0 =>
        romfs_fds[fd[CLI]].cursor = 0
  /\ cli = "close" /\ fd[CLI] >= 0 => path[CLI] \in File

Clean(d) == d \in Display /\ \A k \in d[2] + 1 .. Len(d[1]) : d[1][k] = " "

(* It shows n bytes of the line after the prompt, and nothing behind.      *)
TypedAt(d, n, line) ==
  /\ Clean(d) /\ n < d[2] /\ d[1][d[2] - n] = "$"
  /\ \A k \in 0 .. n - 1 : d[1][d[2] - n + 1 + k] = line[k]
Typed(d) == TypedAt(d, i, buf)

(* What was read of the file so far.                                       *)
ReadSoFar ==
  IF fd[CLI] < 0 THEN <<>>
  ELSE IF cli = "dump" THEN SubSeq(Content[path[CLI]], 1, romfs_fds[fd[CLI]].cursor)
  ELSE Content[path[CLI]]

Dumped ==
  \/ Rest = <<"NL">> /\ ReadSoFar = <<>>
  \/ Soon[2] = Len(Soon[1]) /\ Soon[1] \o Rest = ReadSoFar

ShowInv ==
  /\ cli \in InLine => Len(Rest) <= 3 /\ Typed(Final(Soon, Rest))
  /\ cli = "prompt" => Len(Rest) <= 3 /\ Clean(Final(Soon, Rest))
  /\ cli \in {"dump", "close"} => Dumped

(* The standard descriptors stay, and a task's reads the romfs.            *)
Wired ==
  /\ \A f \in Std : fio_fds[f] = StdDescriptor(f)
  /\ \A c \in Client : Holds(c) => fio_fds[fd[c]].fdread = "romfs_read"

(* All but what is shown, which holds whatever is typed.                   *)
LineTyped == FioInv /\ Wired /\ SerialInv /\ OutInv /\ LineInv /\ DumpInv

-----------------------------------------------------------------------------
(***************************************************************************)
(* The terminal.                                                           *)
(***************************************************************************)

(* No byte is None, and those of the shell itself are bytes.               *)
LEMMA Bytes == /\ None \notin Byte /\ Key \subseteq Byte /\ FileByte \subseteq Byte
               /\ OwnByte \subseteq Byte
BY SerialAssumption, ShellAssumption DEF Byte

(* A byte written over another, or after the last.                         *)
LEMMA Overwritten ==
  ASSUME NEW s \in Seq(Byte), NEW col \in Nat, col <= Len(s), NEW b \in Byte
  PROVE  /\ Overwrite(s, col, b) \in Seq(Byte)
         /\ Len(Overwrite(s, col, b)) = IF col = Len(s) THEN col + 1 ELSE Len(s)
         /\ \A k \in 1 .. Len(Overwrite(s, col, b)) :
              Overwrite(s, col, b)[k] = IF k = col + 1 THEN b ELSE s[k]
<1> DEFINE n == IF col = Len(s) THEN col + 1 ELSE Len(s)
           o == [k \in 1 .. n |-> IF k = col + 1 THEN b ELSE s[k]]
<1>1. n \in Nat /\ o = Overwrite(s, col, b)
  BY DEF Overwrite
<1>2. \A k \in 1 .. n : (IF k = col + 1 THEN b ELSE s[k]) \in Byte
  OBVIOUS
<1>3. o \in Seq(Byte) /\ Len(o) = n
  <2> HIDE DEF n
  <2> QED BY <1>1, <1>2, IsASeq
<1> QED BY <1>1, <1>3

(* What a terminal shows is a line and a cursor in it or behind it.        *)
LEMMA AfterIsDisplay ==
  ASSUME NEW d \in Display, NEW b \in Byte
  PROVE  After(d, b) \in Display
<1>1. d[1] \in Seq(Byte) /\ d[2] \in Nat /\ d[2] <= Len(d[1]) /\ Len(d[1]) \in Nat
  BY DEF Display
<1>2. CASE b \in {"NUL", "NL", "BS"}
  <2>1. CASE b = "NUL"
    <3>1. After(d, b) = d
      BY <2>1 DEF After
    <3> QED BY <3>1
  <2>2. CASE b = "NL"
    <3>1. After(d, b) = <<<<>>, 0>>
      BY <2>2 DEF After
    <3>2. <<>> \in Seq(Byte) /\ 0 <= Len(<<>>) /\ 0 \in Nat
      BY EmptySeq
    <3>3. \A s \in Seq(Byte), n \in Nat : n <= Len(s) => <<s, n>> \in Display
      BY DEF Display
    <3> QED BY <3>1, <3>2, <3>3
  <2>3. CASE b = "BS"
    <3>1. PICK n : n = IF d[2] > 0 THEN d[2] - 1 ELSE 0
      OBVIOUS
    <3>2. n \in Nat /\ n <= Len(d[1]) /\ After(d, b) = <<d[1], n>>
      BY <1>1, <2>3, <3>1 DEF After
    <3> QED BY <1>1, <3>2 DEF Display
  <2> QED BY <1>2, <2>1, <2>2, <2>3
<1>3. CASE b \notin {"NUL", "NL", "BS"}
  <2>1. After(d, b) = <<Overwrite(d[1], d[2], b), d[2] + 1>>
    BY <1>3 DEF After
  <2>2. d[2] + 1 <= Len(Overwrite(d[1], d[2], b))
    BY <1>1, Overwritten
  <2> QED BY <1>1, <2>1, <2>2, Overwritten DEF Display
<1> QED BY <1>2, <1>3

(* Show does it.                                                           *)
LEMMA ShowIsAfter ==
  ASSUME NEW b, Show(b)
  PROVE  <<screen', column'>> = After(<<screen, column>>, b)
BY DEF Show, After

(* What is shown soon is a line with a cursor.                             *)
LEMMA SoonIsDisplay == SerialInv => Soon \in Display
BY Bytes, AfterIsDisplay DEF SerialInv, Soon

(***************************************************************************)
(* The serial line.                                                        *)
(***************************************************************************)

(* The steps of the terminal, of the handler and of the shell, one lemma for each.*)
LEMMA SerialEnvironment ==
  ASSUME SerialInv, Environment PROVE SerialInv'
<1>1. CASE Transmit
  <2>1. <<screen', column'>> \in Display
    BY <1>1, ShowIsAfter, AfterIsDisplay DEF Transmit, SerialInv
  <2> QED BY <1>1, <2>1 DEF Transmit, SerialInv, ioVars
<1>2. CASE \E key \in Key : Type(key)
  <2>1. PICK key \in Key : Type(key)
    BY <1>2
  <2> QED BY <2>1 DEF Type, SerialInv, ioVars
<1> QED BY <1>1, <1>2 DEF Environment

(* What the handler puts in the queue, if there is room.                   *)
LEMMA Queued ==
  ASSUME SerialInv, ReceiveInterrupt
  PROVE  /\ rdr \in Key /\ rdr' = None
         /\ serial_rx_queue' = serial_rx_queue \/ serial_rx_queue' = <<rdr>>
<1>1. CASE Accepts
  <2>1. Len(serial_rx_queue) = 0 /\ serial_rx_queue \in Seq(Key)
    BY <1>1 DEF SerialInv, Accepts, RxQueueLength
  <2>2. serial_rx_queue = <<>> /\ Append(<<>>, rdr) = <<rdr>>
    BY <2>1, EmptySeq
  <2> QED BY <1>1, <2>2 DEF ReceiveInterrupt, SerialInv
<1>2. CASE ~Accepts
  BY <1>2 DEF ReceiveInterrupt, SerialInv
<1> QED BY <1>1, <1>2

LEMMA SerialInterrupt ==
  ASSUME SerialInv, Interrupt PROVE SerialInv'
<1>1. CASE TransmitInterrupt
  <2>1. "RXNE" \in cr1' /\ ("TXE" \notin cr1 => "TXE" \notin cr1')
    BY <1>1 DEF TransmitInterrupt, SerialInv
  <2>2. /\ serial_tx_wait_sem' = 1 /\ tdr = None /\ "TXE" \in cr1
        /\ UNCHANGED <<tdr, rdr, serial_rx_queue, io, loaded, screen, column>>
    BY <1>1 DEF TransmitInterrupt, TransmitRaised, ioVars, terminalVars
  <2> QED BY <2>1, <2>2 DEF SerialInv
<1>2. CASE ReceiveInterrupt
  <2>1. rdr' = None /\ serial_rx_queue' \in Seq(Key) /\ Len(serial_rx_queue') <= 1
    <3>1. rdr \in Key /\ <<rdr>> \in Seq(Key) /\ Len(<<rdr>>) <= 1
      BY <1>2, Queued
    <3> QED BY <1>2, <3>1, Queued DEF SerialInv
  <2> QED BY <1>2, <2>1 DEF ReceiveInterrupt, SerialInv, ioVars, terminalVars
<1>3. CASE OtherInterrupt \/ Spin
  BY <1>3 DEF OtherInterrupt, Spin, SerialInv, serialVars, lineVars, ioVars, terminalVars
<1> QED BY <1>1, <1>2, <1>3 DEF Interrupt

(* When a task runs the handler has taken what was received.               *)
LEMMA TasksFindNone == SerialInv /\ TasksRun => rdr = None
BY DEF SerialInv, TasksRun, ReceiveRaised

LEMMA SerialOutput ==
  ASSUME SerialInv, OutInv, Output PROVE SerialInv'
<1>1. Head(out) \in Byte
  BY DEF OutInv, Output
<1>2. CASE SendWait
  <2>1. TasksRun /\ tdr = None /\ "TXE" \notin cr1
    BY <1>2 DEF SendWait, SerialInv, TasksRun, TransmitRaised
  <2> QED BY <1>2, <2>1 DEF SendWait, SerialInv, terminalVars
<1>3. CASE SendData(Head(out))
  BY <1>1, <1>3 DEF SendData, SerialInv, terminalVars
<1>4. CASE SendLoad
  BY <1>4 DEF SendLoad, LoadCR1, SerialInv, terminalVars, lineVars
<1>5. CASE SendEnable(IF Len(out) = 1 THEN "done" ELSE "send")
  <2>1. io' \in {"done", "send"}
    BY <1>5 DEF SendEnable, StoreCR1
  <2> QED BY <1>5, <2>1 DEF SendEnable, StoreCR1, SerialInv, terminalVars
<1> QED BY <1>2, <1>3, <1>4, <1>5 DEF Output

(* Steps that leave the line alone, and set io to where no byte is on its  *)
(* way to the register.                                                    *)
LEMMA SerialQuiet ==
  ASSUME SerialInv, UNCHANGED <<lineVars, terminalVars>>,
         UNCHANGED ioVars \/ io' \notin {"data", "load", "store", "rxstore"}
  PROVE  SerialInv'
BY DEF SerialInv, lineVars, ioVars, terminalVars

LEMMA SerialReceive ==
  ASSUME SerialInv, Receive, io' \in {"done", "send"}
  PROVE  SerialInv' /\ serial_rx_queue' = <<>> /\ rdr' = None /\ Received \in Key
<1>1. Len(serial_rx_queue) = 1 /\ serial_rx_queue \in Seq(Key)
  <2>1. serial_rx_queue # <<>> /\ serial_rx_queue \in Seq(Key) /\ Len(serial_rx_queue) <= 1
    BY DEF Receive, SerialInv
  <2>2. Len(serial_rx_queue) \in Nat \ {0}
    BY <2>1, EmptySeq
  <2> QED BY <2>1, <2>2
<1>2. serial_rx_queue' = <<>> /\ rdr' = None /\ Received \in Key
  BY <1>1, TasksFindNone DEF Receive, Received
<1> QED BY <1>2 DEF Receive, SerialInv, terminalVars

(* What begins with Send.                                                  *)
LEMMA Sends ==
  ASSUME NEW bytes, Send(bytes)
  PROVE  /\ out' = bytes /\ UNCHANGED <<lineVars, terminalVars>>
         /\ io' \in {"done", "send"} /\ (io' = "done" <=> bytes = <<>>)
BY DEF Send

(* Only these change the line or send.                                     *)
Begins == Prompt \/ NotFound \/ DumpOpened \/ DumpRead
Quiet == ReadNext \/ Reading \/ DumpOpen \/ Open \/ DumpClose

(* They do so when the last message is sent.                               *)
LEMMA BeginsQuiet ==
  ASSUME Begins
  PROVE  \E bytes : Send(bytes) /\ Idling
BY DEF Begins, Prompt, NotFound, DumpOpened, DumpRead

(* So every step keeps the invariant of the line.                          *)
LEMMA SerialNext ==
  ASSUME SerialInv, OutInv, ShellNext PROVE SerialInv'
<1>1. CASE Output
  BY <1>1, SerialOutput
<1>2. CASE Begins
  BY <1>2, BeginsQuiet, Sends, SerialQuiet
<1>3. CASE ReadNext
  BY <1>3, SerialQuiet DEF ReadNext, ioVars
<1>4. CASE Reading
  <2>1. CASE ReceiveLoad
    BY <2>1 DEF ReceiveLoad, LoadCR1, SerialInv, lineVars, terminalVars
  <2>2. CASE ReceiveEnable
    BY <2>2 DEF ReceiveEnable, StoreCR1, SerialInv, terminalVars
  <2> QED BY <1>4, <2>1, <2>2 DEF Reading
<1>5. CASE ReceiveByte
  BY <1>5, SerialReceive DEF ReceiveByte
<1>6. CASE DumpOpen \/ Open \/ DumpClose \/ \E c \in Client \ {CLI} : Other(c)
  BY <1>6, SerialQuiet DEF DumpOpen, Open, DumpClose, Other, serialVars, ioVars
<1> QED BY <1>1, <1>2, <1>3, <1>4, <1>5, <1>6, SerialEnvironment, SerialInterrupt
        DEF ShellNext, CLIStep, Begins

-----------------------------------------------------------------------------
(***************************************************************************)
(* The files.                                                              *)
(***************************************************************************)

(* A step of fio.c or romfs.c, by whatever task.                           *)
FioMove(c) ==
  \/ \E p \in Path : FsOpen(c, p)
  \/ Opening(c) \/ Closing(c)
  \/ \E count \in Nat : FioRead(c, count)
  \/ \E offset \in Offset, whence \in {"SEEK_SET", "SEEK_CUR", "SEEK_END"} :
       FioSeek(c, offset, whence)
  \/ CloseTest(c)

(* Every step of a task keeps the invariant of the descriptors.            *)
LEMMA FioMovePreserves ==
  ASSUME FioInv, NEW c \in Client, FioMove(c) PROVE FioInv'
<1>1. CASE \E p \in Path : FsOpen(c, p)
  BY <1>1, FioAssumption, FsOpenPreserves
<1>2. CASE Opening(c)
  BY <1>2, FioAssumption, TakeSemPreserves, GiveSemPreserves, OpenFindPreserves,
     OpenFillPreserves, RomfsEntryPreserves, SetOpaquePreserves DEF Opening
<1>3. CASE Closing(c)
  BY <1>3, FioAssumption, TakeSemPreserves, GiveSemPreserves, CloseClearPreserves DEF Closing
<1>4. CASE \E count \in Nat : FioRead(c, count)
  BY <1>4, FioAssumption, ReadPreserves
<1>5. CASE \E offset \in Offset, whence \in {"SEEK_SET", "SEEK_CUR", "SEEK_END"} :
              FioSeek(c, offset, whence)
  BY <1>5, FioAssumption, SeekPreserves
<1>6. CASE CloseTest(c)
  BY <1>6, FioAssumption, CloseTestPreserves
<1> QED BY <1>1, <1>2, <1>3, <1>4, <1>5, <1>6 DEF FioMove

(* What a step does to the descriptors, and that it leaves alone what      *)
(* other tasks have.                                                       *)
LEMMA FioMoveChanges ==
  ASSUME FioInv, NEW c \in Client, FioMove(c)
  PROVE  /\ \A d \in Client \ {c} : at'[d] = at[d] /\ fd'[d] = fd[d] /\ path'[d] = path[d]
         /\ \/ UNCHANGED fio_fds
            \/ /\ fd[c] \in Fd /\ Claims(c) /\ UNCHANGED fd
               /\ \E f \in {RomfsDescriptor, Closed, [fio_fds[fd[c]] EXCEPT !.opaque = fd[c]]} :
                     fio_fds' = [fio_fds EXCEPT ![fd[c]] = f]
         /\ \/ UNCHANGED romfs_fds
            \/ /\ Claims(c) /\ UNCHANGED fd
               /\ \E e : romfs_fds' = [romfs_fds EXCEPT ![fd[c]] = e]
<1>0. /\ fio_fds \in [Fd -> Descriptor] /\ DOMAIN at = Client /\ DOMAIN fd = Client
      /\ DOMAIN path = Client /\ fd[c] \in Int /\ (fd[c] >= 0 /\ Claims(c) => fd[c] \in Fd)
  BY DEF FioInv, FioTypeOK, ClaimsOpen
<1>1. CASE \E p \in Path : FsOpen(c, p)
  BY <1>0, <1>1 DEF FsOpen
<1>2. CASE TakeSem(c, "open", "find") \/ TakeSem(c, "close", "clear")
  BY <1>0, <1>2 DEF TakeSem
<1>3. CASE GiveSem(c, "found", IF fd[c] > 0 THEN "entry" ELSE "opened") \/ GiveSem(c, "cleared", "idle")
  BY <1>0, <1>3 DEF GiveSem
<1>4. CASE OpenFind(c)
  BY <1>0, <1>4 DEF OpenFind
<1>5. CASE OpenFill(c) \/ CloseClear(c)
  <2>1. \E f \in {RomfsDescriptor, Closed} : fio_fds' = [fio_fds EXCEPT ![fd[c]] = f]
    BY <1>5 DEF OpenFill, CloseClear
  <2>2. (fd[c] \in Fd /\ Claims(c)) \/ UNCHANGED fio_fds
    <3>1. CASE fd[c] >= 0
      BY <1>0, <1>5, <3>1 DEF OpenFill, CloseClear, Claims
    <3>2. CASE ~(fd[c] >= 0)
      <4>1. fd[c] \notin Fd
        BY <3>2 DEF Fd
      <4> QED BY <1>0, <2>1, <4>1
    <3> QED BY <3>1, <3>2
  <2>3. UNCHANGED <<romfs_fds, fd, path>> /\ \A d \in Client \ {c} : at'[d] = at[d]
    BY <1>0, <1>5 DEF OpenFill, CloseClear
  <2> QED BY <2>1, <2>2, <2>3
<1>6. CASE RomfsEntry(c)
  <2>1. fd[c] >= 0 /\ Claims(c)
    BY <1>6 DEF RomfsEntry, FioInv, FilesKept, Claims
  <2> QED BY <1>0, <1>6, <2>1 DEF RomfsEntry
<1>7. CASE SetOpaque(c)
  <2>1. fd[c] >= 0 /\ Claims(c) /\ fd[c] \in Fd
    BY <1>0, <1>7 DEF SetOpaque, FioInv, FilesKept, Claims
  <2>2. \/ UNCHANGED fio_fds
        \/ fio_fds' = [fio_fds EXCEPT ![fd[c]] = [fio_fds[fd[c]] EXCEPT !.opaque = fd[c]]]
    BY <1>7 DEF SetOpaque
  <2> QED BY <1>0, <1>7, <2>1, <2>2 DEF SetOpaque
<1>8. ASSUME NEW n \in Int, IsOpen(fd[c]), at[c] = "opened",
             romfs_fds' = [romfs_fds EXCEPT ![fio_fds[fd[c]].opaque].cursor = n],
             UNCHANGED <<fio_fds, at, path, fd>>
      PROVE  Claims(c) /\ \E e : romfs_fds' = [romfs_fds EXCEPT ![fd[c]] = e]
  <2>1. fd[c] >= 0 /\ fio_fds[fd[c]].opaque = fd[c]
    BY <1>8, EntryIsOwn, FioAssumption
  <2> QED BY <1>8, <2>1 DEF Claims
<1>9. CASE \E count \in Nat : FioRead(c, count)
  <2>1. PICK count \in Nat : FioRead(c, count)
    BY <1>9
  <2>2. at[c] = "opened" /\ UNCHANGED <<fio_fds, at, path, fd>>
    BY <2>1 DEF FioRead
  <2>3. CASE UNCHANGED romfs_fds
    BY <2>2, <2>3
  <2>4. CASE /\ CountRead(fd[c], count) > 0
             /\ romfs_fds' = [romfs_fds EXCEPT ![fio_fds[fd[c]].opaque].cursor =
                                @ + CountRead(fd[c], count)]
    <3>1. IsOpen(fd[c])
      BY <2>4 DEF CountRead
    <3>2. /\ fd[c] >= 0 /\ fio_fds[fd[c]].opaque = fd[c]
          /\ \E e : romfs_fds' = [romfs_fds EXCEPT ![fd[c]] = e]
      BY <2>2, <2>4, <3>1, EntryIsOwn, FioAssumption
    <3> QED BY <2>2, <3>2 DEF Claims
  <2> QED BY <2>1, <2>3, <2>4 DEF FioRead
<1>10. CASE \E offset \in Offset, whence \in {"SEEK_SET", "SEEK_CUR", "SEEK_END"} :
               FioSeek(c, offset, whence)
  <2>1. PICK offset \in Offset, whence \in {"SEEK_SET", "SEEK_CUR", "SEEK_END"} :
               FioSeek(c, offset, whence)
    BY <1>10
  <2>2. IsOpen(fd[c]) /\ at[c] = "opened" /\ UNCHANGED <<fio_fds, at, path, fd>>
    BY <2>1 DEF FioSeek
  <2>3. fd[c] >= 0 /\ fio_fds[fd[c]].opaque = fd[c]
    BY <2>2, EntryIsOwn, FioAssumption
  <2>4. \E e : romfs_fds' = [romfs_fds EXCEPT ![fd[c]] = e]
    BY <2>1, <2>3 DEF FioSeek
  <2> QED BY <2>2, <2>3, <2>4 DEF Claims
<1>11. CASE CloseTest(c)
  BY <1>0, <1>11 DEF CloseTest
<1> QED BY <1>1, <1>2, <1>3, <1>4, <1>5, <1>6, <1>7, <1>9, <1>10, <1>11
        DEF FioMove, Opening, Closing

(* So a task that has a descriptor keeps it and its file.                  *)
LEMMA OthersKeep ==
  ASSUME FioInv, NEW c \in Client, NEW d \in Client \ {c}, FioMove(c)
  PROVE  /\ at'[d] = at[d] /\ fd'[d] = fd[d] /\ path'[d] = path[d]
         /\ Claims(d) => /\ fio_fds'[fd[d]] = fio_fds[fd[d]]
                         /\ romfs_fds'[fd[d]] = romfs_fds[fd[d]]
<1>1. Claims(d) /\ Claims(c) => fd[d] # fd[c]
  BY DEF FioInv, Unshared
<1>2. DOMAIN fio_fds = Fd /\ DOMAIN romfs_fds = Fd /\ (Claims(d) => fd[d] \in Fd)
  BY DEF FioInv, FioTypeOK, ClaimsOpen
<1>3. Claims(d) => fio_fds'[fd[d]] = fio_fds[fd[d]]
  BY <1>1, <1>2, FioMoveChanges
<1>4. Claims(d) => romfs_fds'[fd[d]] = romfs_fds[fd[d]]
  BY <1>1, <1>2, FioMoveChanges
<1> QED BY <1>3, <1>4, FioMoveChanges

(* The standard descriptors are not touched, and one that was filled in    *)
(* reads the romfs.                                                        *)
LEMMA WiredMove ==
  ASSUME FioInv, Wired, NEW c \in Client, FioMove(c) PROVE Wired'
<1>1. \A f \in Std : fio_fds'[f] = fio_fds[f]
  <2>1. Claims(c) => fd[c] \notin Std
    BY DEF FioInv, ClaimsOpen
  <2>2. Std \subseteq Fd /\ DOMAIN fio_fds = Fd
    BY FioAssumption DEF Std, Fd, FioInv, FioTypeOK
  <2> QED BY <2>1, <2>2, FioMoveChanges
<1>2. ASSUME NEW d \in Client \ {c}, Holds(d)' PROVE fio_fds'[fd'[d]].fdread = "romfs_read"
  <2>1. Holds(d) /\ Claims(d)
    BY <1>2, OthersKeep DEF Holds, Claims
  <2> QED BY <2>1, OthersKeep DEF Wired
<1>3. ASSUME Holds(c)' PROVE fio_fds'[fd'[c]].fdread = "romfs_read"
  <2>1. CASE OpenFill(c)
    <3>1. fd[c] \in Fd /\ fd'[c] = fd[c]
      BY <1>3, <2>1 DEF OpenFill, Holds, Claims, FioInv, ClaimsOpen
    <3> QED BY <2>1, <3>1 DEF OpenFill, RomfsDescriptor, FioInv, FioTypeOK
  <2>2. CASE SetOpaque(c)
    <3>1. fd'[c] = fd[c] /\ Holds(c) /\ fd[c] \in Fd
      BY <1>3, <2>2 DEF SetOpaque, Holds, Claims, FioInv, ClaimsOpen
    <3>2. fio_fds[fd[c]] \in Descriptor /\ fio_fds[fd[c]].fdread = "romfs_read"
      BY <3>1 DEF Wired, FioInv, FioTypeOK
    <3> QED BY <2>2, <3>1, <3>2 DEF SetOpaque, FioInv, FioTypeOK, Descriptor
  <2>3. ASSUME UNCHANGED fio_fds, Holds(c) /\ fd'[c] = fd[c]
        PROVE  fio_fds'[fd'[c]].fdread = "romfs_read"
    BY <2>3 DEF Wired
  <2>4. DOMAIN at = Client /\ DOMAIN fd = Client
    BY DEF FioInv, FioTypeOK
  <2>5. CASE \E p \in Path : FsOpen(c, p)
    BY <1>3, <2>4, <2>5 DEF FsOpen, Holds, Claims
  <2>6. CASE TakeSem(c, "open", "find") \/ TakeSem(c, "close", "clear")
    BY <1>3, <2>3, <2>4, <2>6 DEF TakeSem, Holds, Claims
  <2>7. CASE \/ GiveSem(c, "found", IF fd[c] > 0 THEN "entry" ELSE "opened")
             \/ GiveSem(c, "cleared", "idle")
    BY <1>3, <2>3, <2>4, <2>7 DEF GiveSem, Holds, Claims
  <2>8. CASE OpenFind(c) \/ CloseClear(c)
    <3>1. at'[c] = "cleared" \/ at'[c] = "fill" \/ ~(fd'[c] >= 0)
      BY <2>4, <2>8 DEF OpenFind, CloseClear
    <3> QED BY <1>3, <3>1 DEF Holds, Claims
  <2>9. CASE RomfsEntry(c) \/ CloseTest(c)
    BY <1>3, <2>3, <2>4, <2>9 DEF RomfsEntry, CloseTest, Holds, Claims
  <2>10. CASE \E count \in Nat : FioRead(c, count)
    BY <1>3, <2>3, <2>10 DEF FioRead, Holds, Claims
  <2>11. CASE \E offset \in Offset, whence \in {"SEEK_SET", "SEEK_CUR", "SEEK_END"} :
               FioSeek(c, offset, whence)
    BY <1>3, <2>3, <2>11 DEF FioSeek, Holds, Claims
  <2> QED BY <2>1, <2>2, <2>5, <2>6, <2>7, <2>8, <2>9, <2>10, <2>11
          DEF FioMove, Opening, Closing
<1>4. \A f \in Std : f \in Fd
  BY FioAssumption DEF Std, Fd
<1> QED BY <1>1, <1>2, <1>3 DEF Wired, StdDescriptor

-----------------------------------------------------------------------------
(* The steps of the shell on the files.                                    *)
LEMMA ShellMoves ==
  ASSUME ShellNext
  PROVE  \/ UNCHANGED fioVars
         \/ \E c \in Client \ {CLI} : FioMove(c) /\ Other(c)
         \/ FioMove(CLI) /\ (DumpOpen \/ Open \/ DumpRead \/ DumpClose)
<1>1. ASSUME NEW c \in Client \ {CLI}, Other(c) PROVE FioMove(c)
  <2>1. Opens[c] \subseteq Path /\ Counts \subseteq Nat
    BY FioAssumption
  <2> QED BY <1>1, <2>1 DEF Other, FioStep, FioMove
<1>2. CASE DumpOpen
  BY <1>2, ShellAssumption DEF DumpOpen, FioMove
<1>3. CASE Open
  BY <1>3 DEF Open, FioMove
<1>4. CASE DumpRead
  BY <1>4, ShellAssumption DEF DumpRead, FioMove
<1>5. CASE DumpClose
  BY <1>5 DEF DumpClose, FioMove
<1>6. CASE Environment \/ Interrupt \/ Output \/ Prompt \/ ReadNext \/ Reading \/ ReceiveByte
           \/ NotFound \/ DumpOpened
  BY <1>6 DEF Environment, Interrupt, Output, Prompt, ReadNext, Reading, ReceiveByte, NotFound,
              DumpOpened
<1> QED BY <1>1, <1>2, <1>3, <1>4, <1>5, <1>6 DEF ShellNext, CLIStep

(* So does every step of the shell system.                                 *)
LEMMA FioNextKept ==
  ASSUME FioInv, Wired, ShellNext PROVE FioInv' /\ Wired'
<1>1. CLI \in Client
  BY ShellAssumption
<1>2. ASSUME UNCHANGED fioVars PROVE FioInv' /\ Wired'
  BY <1>2, Stutter DEF Wired, Holds, Claims, fioVars
<1> QED BY <1>1, <1>2, ShellMoves, FioMovePreserves, WiredMove

-----------------------------------------------------------------------------
(***************************************************************************)
(* What the shell sends.                                                   *)
(***************************************************************************)

(* Sequences of one and of three.                                          *)
LEMMA Singles == ASSUME NEW S, NEW a \in S PROVE <<a>> \in Seq(S)
OBVIOUS

LEMMA Triples == ASSUME NEW S, NEW a \in S, NEW b \in S, NEW c \in S PROVE <<a, b, c>> \in Seq(S)
OBVIOUS

(* What the shell sends are bytes.                                         *)
LEMMA OwnBytes ==
  /\ <<"$">> \in Seq(Byte) /\ <<"NL", "?", "NL">> \in Seq(Byte) /\ <<"NL">> \in Seq(Byte)
  /\ <<"NUL">> \in Seq(Byte) /\ <<"BS", " ", "BS">> \in Seq(Byte)
<1>1. "$" \in Byte /\ "NL" \in Byte /\ "?" \in Byte /\ "NUL" \in Byte /\ "BS" \in Byte /\ " " \in Byte
  BY Bytes DEF OwnByte
<1>2. <<"$">> \in Seq(Byte) /\ <<"NL">> \in Seq(Byte) /\ <<"NUL">> \in Seq(Byte)
  BY <1>1, Singles
<1>3. <<"NL", "?", "NL">> \in Seq(Byte)
  BY <1>1, Triples
<1>4. <<"BS", " ", "BS">> \in Seq(Byte)
  BY <1>1, Triples
<1> QED BY <1>2, <1>3, <1>4

(* Only an empty one has no length.                                        *)
LEMMA EmptyHasNone == \A s \in Seq(Byte) : Len(s) \in Nat /\ (s = <<>> <=> Len(s) = 0)
BY EmptySeq

(* Standard output and standard error write.                               *)
LEMMA StandardWrites ==
  ASSUME FioInv, Wired, NEW f \in {1, 2}, NEW bytes
  PROVE  Written(f, bytes) = bytes
<1>1. f \in Std /\ f \in Fd
  BY FioAssumption DEF Std, Fd
<1>2. IsOpen(f) /\ fio_fds[f].fdwrite = "stdout_write"
  <2>1. IsOpen(f) /\ fio_fds[f] = StdDescriptor(f)
    BY <1>1 DEF FioInv, ClaimsOpen, Wired
  <2>2. f # 0
    OBVIOUS
  <2> QED BY <2>1, <2>2 DEF StdDescriptor
<1> QED BY <1>2, FioAssumption DEF Written

(* What is read next of the file that is dumped.                           *)
LEMMA DumpedBytes ==
  ASSUME FioInv, Wired, DumpInv, cli = "dump", NEW n, n = CountRead(fd[CLI], BufSize)
  PROVE  /\ fd[CLI] \in Int /\ n \in Int /\ (n > 0 => fd[CLI] >= 0)
         /\ fd[CLI] >= 0 =>
              /\ path[CLI] \in File /\ fd[CLI] \in Fd /\ fio_fds[fd[CLI]].opaque = fd[CLI]
              /\ Entry(fd[CLI]).file = path[CLI] /\ Entry(fd[CLI]) = romfs_fds[fd[CLI]]
              /\ n \in Nat /\ Entry(fd[CLI]).cursor \in Nat
              /\ Entry(fd[CLI]).cursor + n <= Size[path[CLI]] /\ Size[path[CLI]] \in Nat
              /\ n = 0 => Entry(fd[CLI]).cursor = Size[path[CLI]]
<1>1. /\ CLI \in Client /\ at[CLI] = "opened" /\ fd[CLI] \in Int /\ BufSize \in Nat \ {0}
      /\ FioAssumption
  BY ShellAssumption, FioAssumption DEF DumpInv, FioInv, FioTypeOK
<1>2. CASE fd[CLI] >= 0
  <2>1. Holds(CLI) /\ IsOpen(fd[CLI]) /\ HasFile(CLI)
    BY <1>1, <1>2 DEF Holds, Claims, HasFile, FioInv, ClaimsOpen
  <2>2. /\ fd[CLI] \in Fd /\ fio_fds[fd[CLI]].opaque = fd[CLI]
        /\ Entry(fd[CLI]).file = path[CLI] /\ path[CLI] \in File
        /\ Entry(fd[CLI]).cursor \in 0 .. Size[path[CLI]] /\ Size[path[CLI]] \in Nat
    BY <1>1, <2>1, EntryIsOwn
  <2>3. fio_fds[fd[CLI]].fdread # NULL
    BY <1>1, <2>1 DEF Wired, FioAssumption
  <2>4. n = IF Entry(fd[CLI]).cursor + BufSize > Size[path[CLI]]
            THEN Size[path[CLI]] - Entry(fd[CLI]).cursor ELSE BufSize
    BY <2>1, <2>2, <2>3 DEF CountRead
  <2>5. \A c, s \in Nat, b \in Nat \ {0} :
           c <= s => LET m == IF c + b > s THEN s - c ELSE b
                     IN m \in Nat /\ c + m <= s /\ (m = 0 => c = s)
    OBVIOUS
  <2>6. Entry(fd[CLI]).cursor \in Nat /\ Entry(fd[CLI]).cursor <= Size[path[CLI]]
    BY <2>2
  <2>7. Entry(fd[CLI]) = romfs_fds[fd[CLI]]
    BY <2>2 DEF Entry
  <2> QED BY <1>1, <1>2, <2>2, <2>4, <2>5, <2>6, <2>7
<1>3. CASE fd[CLI] < 0
  <2>1. ~IsOpen(fd[CLI])
    BY <1>1, <1>3 DEF IsOpen, Fd
  <2> QED BY <1>1, <1>3, <2>1 DEF CountRead
<1> QED BY <1>1, <1>2, <1>3

(* These are bytes.                                                        *)
LEMMA PiecesAreBytes ==
  ASSUME NEW f \in File, NEW m \in Nat, NEW n \in Nat, m + n <= Size[f], Size[f] \in Nat
  PROVE  /\ SubSeq(Content[f], m + 1, m + n) \in Seq(Byte)
         /\ Len(SubSeq(Content[f], m + 1, m + n)) = n
         /\ SubSeq(Content[f], 1, m) \o SubSeq(Content[f], m + 1, m + n)
              = SubSeq(Content[f], 1, m + n)
<1>1. Content[f] \in Seq(FileByte) /\ Len(Content[f]) = Size[f]
  BY ShellAssumption
<1>2. Content[f] \in Seq(Byte)
  BY <1>1, SeqMonotonic, Bytes
<1>3. \A k \in m + 1 .. m + n : Content[f][k] \in Byte
  BY <1>1, <1>2, ElementOfSeq
<1>4. m + 1 \in Int /\ m + n \in Int /\ (IF m + 1 <= m + n THEN (m + n) - (m + 1) + 1 ELSE 0) = n
  OBVIOUS
<1>5. SubSeq(Content[f], m + 1, m + n) \in Seq(Byte) /\ Len(SubSeq(Content[f], m + 1, m + n)) = n
  BY <1>3, <1>4, SubSeqProperties
<1>6. 1 \in 1 .. Len(Content[f]) + 1 /\ m \in 1 - 1 .. Len(Content[f]) /\ m + n \in m .. Len(Content[f])
  BY <1>1
<1> QED BY <1>2, <1>5, <1>6, ConcatAdjacentSubSeq

(* Reading a piece of the file sends its bytes, or nothing.                *)
LEMMA OutRead ==
  ASSUME FioInv, Wired, DumpInv, DumpRead
  PROVE  /\ out' \in Seq(Byte) /\ cli' \in {"dump", "close"} /\ (cli' = "close" => out' = <<>>)
         /\ io' \in {"send", "done"} /\ (io' = "done" <=> out' = <<>>)
<1> DEFINE n == CountRead(fd[CLI], BufSize)
<1>1. /\ cli = "dump" /\ cli' = (IF n > 0 THEN "dump" ELSE "close")
      /\ Send(IF n > 0 THEN Written(1, BytesRead(fd[CLI], n)) ELSE <<>>)
  BY DEF DumpRead
<1>2. CASE n > 0
  <2>1. /\ path[CLI] \in File /\ Entry(fd[CLI]).file = path[CLI] /\ n \in Nat
        /\ Entry(fd[CLI]).cursor \in Nat
        /\ Entry(fd[CLI]).cursor + n <= Size[path[CLI]] /\ Size[path[CLI]] \in Nat
    BY <1>1, <1>2, DumpedBytes
  <2>2. BytesRead(fd[CLI], n) \in Seq(Byte)
    <3> HIDE DEF n
    <3> QED BY <2>1, PiecesAreBytes DEF BytesRead
  <2>3. Send(BytesRead(fd[CLI], n))
    BY <1>1, <1>2, StandardWrites
  <2> HIDE DEF n
  <2> QED BY <1>1, <1>2, <2>2, <2>3, Sends
<1>3. CASE ~(n > 0)
  <2>1. Send(<<>>)
    BY <1>1, <1>3
  <2> HIDE DEF n
  <2> QED BY <1>1, <1>3, <2>1, Sends, EmptySeq
<1> QED BY <1>2, <1>3

(* Every step sends bytes, one message at a time.                          *)
LEMMA OutNext ==
  ASSUME FioInv, Wired, SerialInv, OutInv, DumpInv, ShellNext PROVE OutInv'
<1>0. CLI \in Client /\ OwnByte \subseteq Byte /\ Key \subseteq Byte
  BY ShellAssumption, Bytes
<1>1. ASSUME UNCHANGED <<out, io, cli>> PROVE OutInv'
  BY <1>1 DEF OutInv
<1>2. CASE Output
  <2>1. cli' = cli /\ out # <<>> /\ cli \notin {"open", "close"} /\ out \in Seq(Byte) /\ cli \in CliSteps
    BY <1>2 DEF Output, OutInv
  <2>2. CASE SendEnable(IF Len(out) = 1 THEN "done" ELSE "send") /\ out' = Tail(out)
    <3>1. Tail(out) \in Seq(Byte) /\ Len(Tail(out)) = Len(out) - 1 /\ Len(out) \in Nat \ {0}
      BY <2>1, HeadTailProperties, EmptySeq
    <3>2. Tail(out) = <<>> <=> Len(out) = 1
      <4> SUFFICES ASSUME NEW rest, rest = Tail(out) PROVE rest = <<>> <=> Len(out) = 1
        OBVIOUS
      <4>1. rest \in Seq(Byte) /\ Len(rest) = Len(out) - 1 /\ Len(out) \in Nat
        BY <3>1
      <4>2. rest = <<>> <=> Len(rest) = 0
        BY <4>1, EmptyHasNone
      <4> QED BY <4>1, <4>2
    <3>3. io' = IF Len(out) = 1 THEN "done" ELSE "send"
      BY <2>2 DEF SendEnable, StoreCR1
    <3> QED BY <2>1, <2>2, <3>1, <3>2, <3>3 DEF OutInv, Sending, Receiving
  <2>3. CASE (SendWait \/ SendData(Head(out)) \/ SendLoad) /\ UNCHANGED out
    <3>1. io' \in {"data", "load", "store"}
      BY <2>3 DEF SendWait, SendData, SendLoad, LoadCR1
    <3> QED BY <2>1, <2>3, <3>1 DEF OutInv, Sending, Receiving
  <2> QED BY <1>2, <2>2, <2>3 DEF Output
<1>3. ASSUME NEW bytes \in Seq(Byte), Send(bytes), cli' \in CliSteps \ {"open", "close"} PROVE OutInv'
  BY <1>3, Sends DEF OutInv, Sending, Receiving
<1>4. CASE Prompt
  <2>1. <<"$">> \in Seq(Byte)
    BY OwnBytes
  <2>2. Send(<<"$">>) /\ cli' = "line"
    BY <1>4, StandardWrites DEF Prompt
  <2> QED BY <1>3, <2>1, <2>2 DEF CliSteps, InLine
<1>5. CASE NotFound \/ DumpOpened
  <2>1. <<"NL", "?", "NL">> \in Seq(Byte) /\ <<"NL">> \in Seq(Byte)
    BY OwnBytes
  <2>2. (Send(<<"NL", "?", "NL">>) \/ Send(<<"NL">>)) /\ cli' \in {"prompt", "dump"}
    BY <1>5, StandardWrites DEF NotFound, DumpOpened
  <2> QED BY <1>3, <2>1, <2>2 DEF CliSteps, InLine
<1>6. CASE DumpRead
  BY <1>6, OutRead DEF OutInv, CliSteps, Sending, Receiving
<1>7. CASE ReadNext
  BY <1>7 DEF ReadNext, OutInv, Idling, CliSteps, InLine, Sending, Receiving
<1>8. CASE Reading
  BY <1>8 DEF Reading, cliVars, ReceiveLoad, ReceiveEnable, LoadCR1, StoreCR1, OutInv, Sending,
              Receiving
<1>9. CASE ReceiveByte
  <2>1. io = "rxwait" /\ cli \in InLine /\ serial_rx_queue # <<>>
    BY <1>9 DEF ReceiveByte, Receive, OutInv, Receiving
  <2>2. io' = IF out' = <<>> THEN "done" ELSE "send"
    BY <1>9 DEF ReceiveByte
  <2>3. cli' \in InLine \cup {"command"}
    BY <1>9, <2>1 DEF ReceiveByte, EndOfLine, Escape, SkipByte, Backspace, Character, InLine
  <2>4. out' \in Seq(Byte)
    <3>1. Received \in Byte
      BY <1>0, <1>9, <2>2, SerialReceive DEF ReceiveByte
    <3>2. out' \in {<<"NUL">>, <<>>, <<"BS", " ", "BS">>, <<Received>>}
      BY <1>9 DEF ReceiveByte, EndOfLine, Escape, SkipByte, Backspace, Character, Echo
    <3>3. <<"NUL">> \in Seq(Byte) /\ <<"BS", " ", "BS">> \in Seq(Byte)
      BY OwnBytes
    <3>4. <<Received>> \in Seq(Byte)
      BY <3>1
    <3> QED BY <3>2, <3>3, <3>4, EmptySeq
  <2>5. io' \in {"done", "send"} /\ (io' = "done" <=> out' = <<>>) /\ cli' \notin {"open", "close"}
    BY <2>2, <2>3 DEF InLine
  <2>6. /\ io' \notin Receiving /\ (io' \notin Sending <=> io' = "done")
        /\ io' \in Sending \cup Receiving \cup {"done"} /\ cli' \in CliSteps
    BY <2>3, <2>5 DEF Sending, Receiving, CliSteps
  <2> QED BY <2>4, <2>5, <2>6 DEF OutInv
<1>10. CASE DumpOpen \/ Open \/ DumpClose
  BY <1>10 DEF DumpOpen, Open, DumpClose, Idling, OutInv, CliSteps, Receiving, serialVars, ioVars,
               cliVars
<1>11. CASE Environment \/ Interrupt \/ \E c \in Client \ {CLI} : Other(c)
  BY <1>1, <1>11 DEF Environment, Interrupt, Other, Transmit, Type, TransmitInterrupt,
                     ReceiveInterrupt, OtherInterrupt, Spin, cliVars, serialVars, ioVars
<1> QED BY <1>2, <1>4, <1>5, <1>6, <1>7, <1>8, <1>9, <1>10, <1>11 DEF ShellNext, CLIStep

-----------------------------------------------------------------------------
(***************************************************************************)
(* The line that is typed.                                                 *)
(***************************************************************************)

(* What a byte that is received does to the line.                          *)
LEMMA LineReceive ==
  ASSUME SerialInv, OutInv, LineInv, ReceiveByte PROVE LineInv'
<1>1. io = "rxwait" /\ cli \in InLine /\ serial_rx_queue # <<>> /\ Receive /\ io' \in {"done", "send"}
  BY DEF ReceiveByte, Receive, OutInv, Receiving
<1>2. serial_rx_queue' = <<>> /\ rdr' = None /\ Received \in Key
  BY <1>1, SerialReceive
<1>3. /\ i \in Nat /\ Count \in Nat /\ Count > 1 /\ i < Count /\ i \in 0 .. Count
      /\ buf \in [0 .. Count -> Byte \cup {"junk"}] /\ Received \in Byte
  BY <1>1, <1>2, Bytes, ShellAssumption DEF LineInv
<1>4. ASSUME Store(Received) \/ UNCHANGED buf, i' \in Nat, i' < Count, cli' \in InLine
      PROVE  LineInv'
  BY <1>2, <1>3, <1>4 DEF LineInv, Store, LineEnds, InLine
<1>5. CASE EndOfLine
  <2>1. "NUL" \in Byte
    BY Bytes DEF OwnByte
  <2>2. /\ buf' \in [0 .. Count -> Byte \cup {"junk"}] /\ i' = i + 1 /\ cli' = "command"
        /\ buf'[i] = "NUL"
    BY <1>3, <1>5, <2>1 DEF EndOfLine, Store
  <2>3. i' \in Nat /\ i' > 0 /\ i' - 1 = i
    BY <1>3, <2>2
  <2> QED BY <2>2, <2>3 DEF LineInv, LineEnds, InLine
<1>6. CASE Escape
  BY <1>1, <1>3, <1>4, <1>6 DEF Escape, InLine
<1>7. CASE SkipByte
  BY <1>1, <1>3, <1>4, <1>7 DEF SkipByte, InLine
<1>8. CASE Backspace
  <2>1. (i > 0 /\ i' = i - 1) \/ i' = i
    BY <1>8 DEF Backspace
  <2>2. i' \in Nat /\ i' < Count
    BY <1>3, <2>1
  <2> QED BY <1>1, <1>4, <1>8, <2>2 DEF Backspace
<1>9. CASE Character
  <2>1. Fits(Received) /\ Received \notin EditingKey
    BY <1>1, <1>9 DEF Character, LineInv, EditingKey, Received
  <2>2. i' = i + 1 /\ i < Count - 1
    BY <1>9, <2>1 DEF Fits, Character
  <2> QED BY <1>1, <1>3, <1>4, <1>9, <2>2 DEF Character
<1> QED BY <1>5, <1>6, <1>7, <1>8, <1>9 DEF ReceiveByte

(* No step writes outside of the line; it ends before it is a command.     *)
LEMMA LineNext ==
  ASSUME FioInv, Wired, SerialInv, OutInv, DumpInv, LineInv, ShellNext PROVE LineInv'
<1>1. ASSUME UNCHANGED <<buf, i, cli, rdr, serial_rx_queue>> PROVE LineInv'
  BY <1>1 DEF LineInv, Fits, LineEnds
<1>2. ASSUME UNCHANGED <<buf, i>>, cli' \notin InLine \cup {"command"} PROVE LineInv'
  BY <1>2 DEF LineInv, LineEnds, InLine
<1>3. CASE Environment
  <2>1. CASE Transmit
    BY <1>1, <1>3, <2>1 DEF Environment, Transmit, cliVars
  <2>2. CASE \E key \in Key : LineFits(key) /\ Type(key)
    <3>1. PICK key \in Key : LineFits(key) /\ Type(key)
      BY <2>2
    <3>2. /\ rdr' = key \/ rdr' = rdr
          /\ UNCHANGED <<buf, i, cli, serial_rx_queue>>
          /\ cli = "line" => Fits(key)
      BY <1>3, <3>1 DEF Environment, Type, LineFits, Fits, cliVars
    <3> QED BY <3>2 DEF LineInv, Fits, LineEnds
  <2> QED BY <1>3, <2>1, <2>2 DEF Environment
<1>4. CASE Interrupt
  <2>1. CASE TransmitInterrupt
    BY <1>1, <1>4, <2>1 DEF Interrupt, TransmitInterrupt, cliVars
  <2>2. CASE ReceiveInterrupt
    <3>1. rdr \in Key /\ rdr # None /\ rdr' = None /\ UNCHANGED <<buf, i, cli>>
      BY <1>4, <2>2, Queued DEF Interrupt, ReceiveInterrupt, cliVars
    <3>2. CASE serial_rx_queue' = serial_rx_queue
      BY <3>1, <3>2 DEF LineInv, Fits, LineEnds
    <3>3. CASE serial_rx_queue' = <<rdr>>
      <4>1. Head(serial_rx_queue') = rdr
        BY <3>3
      <4> QED BY <3>1, <4>1 DEF LineInv, Fits, LineEnds
    <3> QED BY <2>2, <3>2, <3>3, Queued
  <2>3. CASE OtherInterrupt \/ Spin
    BY <1>1, <1>4, <2>3 DEF Interrupt, OtherInterrupt, Spin, cliVars, serialVars, lineVars
  <2> QED BY <1>4, <2>1, <2>2, <2>3 DEF Interrupt
<1>5. CASE Output \/ Reading \/ \E c \in Client \ {CLI} : Other(c)
  BY <1>1, <1>5 DEF Output, SendWait, SendData, SendLoad, SendEnable, LoadCR1, StoreCR1, Reading,
                    ReceiveLoad, ReceiveEnable, Other, cliVars, lineVars, serialVars
<1>6. CASE Prompt
  <2>1. cli' = "line" /\ i' = 0 /\ UNCHANGED buf /\ 0 < Count - 1 /\ Count \in Nat
    BY <1>6, ShellAssumption DEF Prompt
  <2> QED BY <2>1 DEF LineInv, Fits, LineEnds, InLine
<1>7. CASE ReadNext
  <2>1. i < Count
    BY <1>7 DEF ReadNext, LineInv, InLine
  <2> QED BY <1>1, <1>7, <2>1 DEF ReadNext, RoomInLine, lineVars
<1>8. CASE NotFound \/ DumpOpen \/ Open \/ DumpOpened \/ DumpRead \/ DumpClose
  <2>1. /\ UNCHANGED <<buf, i>>
        /\ cli' \in {"prompt", "dump", "close", "open"}
    BY <1>8 DEF NotFound, DumpOpen, Open, DumpOpened, DumpRead, DumpClose, cliVars
  <2> QED BY <1>2, <2>1 DEF InLine
<1> QED BY <1>3, <1>4, <1>5, <1>6, <1>7, <1>8, LineReceive DEF ShellNext, CLIStep

(***************************************************************************)
(* The file that is dumped.                                                *)
(***************************************************************************)

(* The file that is dumped is open, and read from its beginning.           *)
LEMMA DumpNext ==
  ASSUME FioInv, Wired, OutInv, DumpInv, ShellNext PROVE DumpInv'
<1>0. /\ CLI \in Client /\ DOMAIN at = Client /\ DOMAIN fd = Client /\ DOMAIN path = Client
      /\ DOMAIN romfs_fds = Fd /\ fd[CLI] \in Int
  BY ShellAssumption DEF FioInv, FioTypeOK
<1>1. ASSUME UNCHANGED fioVars, cli' = cli PROVE DumpInv'
  BY <1>1 DEF DumpInv, fioVars
<1>2. ASSUME UNCHANGED fioVars, cli' \notin {"open", "dump", "close"} PROVE DumpInv'
  BY <1>2 DEF DumpInv
<1>3. CASE Environment \/ Interrupt \/ Output \/ Reading
  BY <1>1, <1>3 DEF Environment, Interrupt, Output, Reading, cliVars
<1>4. CASE Prompt \/ NotFound \/ ReadNext \/ ReceiveByte
  <2>1. cli' = cli \/ cli' \in {"prompt", "line", "command", "sequence", "end"}
    BY <1>4 DEF Prompt, NotFound, ReadNext, ReceiveByte, EndOfLine, Escape, SkipByte, Backspace,
                Character
  <2>2. UNCHANGED fioVars
    BY <1>4 DEF Prompt, NotFound, ReadNext, ReceiveByte
  <2> QED BY <1>1, <1>2, <2>1, <2>2
<1>5. CASE DumpOpen
  <2>1. PICK p : FsOpen(CLI, p)
    BY <1>5 DEF DumpOpen
  <2>2. /\ cli' = "open" /\ at'[CLI] \in {"open", "opened"} /\ fd'[CLI] \in {-2, -1}
    BY <1>0, <1>5, <2>1 DEF DumpOpen, FsOpen
  <2> QED BY <2>2 DEF DumpInv
<1>6. CASE Open
  <2>1. cli' = "open" /\ Opening(CLI) /\ cli = "open"
    BY <1>6 DEF Open, cliVars
  <2>2. at'[CLI] \in {"open", "find", "fill", "found", "entry", "opaque", "opened"}
    BY <1>0, <2>1 DEF Opening, TakeSem, OpenFind, OpenFill, GiveSem, RomfsEntry, SetOpaque
  <2>3. ASSUME at'[CLI] \in {"opaque", "opened"}, fd'[CLI] >= 0
        PROVE  romfs_fds'[fd'[CLI]].cursor = 0
    <3>1. CASE RomfsEntry(CLI)
      <4>1. fd'[CLI] = fd[CLI] /\ fd[CLI] \in Fd
        BY <1>0, <2>3, <3>1 DEF RomfsEntry, FioInv, ClaimsOpen, Claims
      <4> QED BY <1>0, <3>1, <4>1 DEF RomfsEntry
    <3>2. CASE SetOpaque(CLI)
      BY <1>0, <2>1, <2>3, <3>2 DEF SetOpaque, DumpInv
    <3>3. CASE GiveSem(CLI, "found", IF fd[CLI] > 0 THEN "entry" ELSE "opened")
      <4>1. at[CLI] = "found" /\ fd'[CLI] = fd[CLI] /\ fd[CLI] = 0
        BY <1>0, <2>3, <3>3 DEF GiveSem
      <4>2. fd[CLI] \notin Std
        BY <1>0, <4>1 DEF FioInv, ClaimsOpen, Claims
      <4> QED BY <4>1, <4>2 DEF Std
    <3> QED BY <1>0, <2>1, <2>3, <3>1, <3>2, <3>3 DEF Opening, TakeSem, OpenFind, OpenFill
  <2> QED BY <2>1, <2>2, <2>3 DEF DumpInv
<1>7. CASE DumpOpened
  BY <1>7 DEF DumpOpened, DumpInv, fioVars
<1>8. CASE DumpRead
  <2>1. at[CLI] = "opened" /\ UNCHANGED <<at, fd, path>> /\ cli' \in {"dump", "close"}
    BY <1>8 DEF DumpRead, FioRead
  <2>2. fd[CLI] >= 0 => path[CLI] \in File
    BY <1>0, <2>1 DEF FioInv, FilesKept, Entered
  <2> QED BY <2>1, <2>2 DEF DumpInv
<1>9. CASE DumpClose
  <2>1. /\ cli = "close" /\ UNCHANGED <<fd, path>>
        /\ at'[CLI] \in {"idle", "close", "clear", "cleared"}
        /\ cli' = IF at'[CLI] = "idle" THEN "prompt" ELSE "close"
    BY <1>0, <1>9 DEF DumpClose, CloseTest, Closing, TakeSem, CloseClear, GiveSem
  <2> QED BY <2>1 DEF DumpInv
<1>10. CASE \E c \in Client \ {CLI} : FioMove(c) /\ Other(c)
  <2>1. PICK c \in Client \ {CLI} : FioMove(c) /\ Other(c)
    BY <1>10
  <2>2. /\ UNCHANGED cli /\ at'[CLI] = at[CLI] /\ fd'[CLI] = fd[CLI] /\ path'[CLI] = path[CLI]
        /\ Claims(CLI) => romfs_fds'[fd[CLI]] = romfs_fds[fd[CLI]]
    BY <1>0, <2>1, OthersKeep DEF Other, cliVars
  <2>3. at[CLI] \in {"opaque", "opened"} /\ fd[CLI] >= 0 => Claims(CLI)
    BY DEF Claims
  <2> QED BY <2>2, <2>3 DEF DumpInv
<1>11. CASE \E c \in Client \ {CLI} : Other(c)
  <2>1. \E c \in Client \ {CLI} : FioMove(c) /\ Other(c)
    <3>1. PICK c \in Client \ {CLI} : Other(c)
      BY <1>11
    <3>2. Opens[c] \subseteq Path /\ Counts \subseteq Nat
      BY FioAssumption
    <3> QED BY <3>1, <3>2 DEF Other, FioStep, FioMove
  <2> QED BY <1>10, <2>1
<1> QED BY <1>3, <1>4, <1>5, <1>6, <1>7, <1>8, <1>9, <1>11 DEF ShellNext, CLIStep

-----------------------------------------------------------------------------
(***************************************************************************)
(* What the terminal shows.                                                *)
(***************************************************************************)

(* What a terminal shows is a line and a cursor.                           *)
LEMMA DisplayPairs ==
  ASSUME NEW d \in Display
  PROVE  \E s \in Seq(Byte), c \in Nat : d = <<s, c>> /\ c <= Len(s) /\ Len(s) \in Nat
<1>1. d[1] \in Seq(Byte) /\ d[2] \in Nat /\ d = <<d[1], d[2]>> /\ d[2] <= Len(d[1])
  BY DEF Display
<1>2. Len(d[1]) \in Nat
  BY <1>1, LenProperties
<1> QED BY <1>1, <1>2

(* And the other way round.                                                *)
LEMMA PairsDisplay ==
  ASSUME NEW s \in Seq(Byte), NEW c \in Nat, c <= Len(s) PROVE <<s, c>> \in Display
BY DEF Display

(* Nothing is behind the cursor; behind the prompt is the line.            *)
LEMMA CleanPair ==
  ASSUME NEW s \in Seq(Byte), NEW c \in Nat, c <= Len(s)
  PROVE  Clean(<<s, c>>) <=> \A k \in c + 1 .. Len(s) : s[k] = " "
BY PairsDisplay DEF Clean

LineAt(s, l, c, n, line) ==
  /\ \A k \in c + 1 .. l : s[k] = " "
  /\ n < c /\ s[c - n] = "$"
  /\ \A k \in 0 .. n - 1 : s[c - n + 1 + k] = line[k]

(* The same, for a line and a cursor.                                      *)
LEMMA TypedPair ==
  ASSUME NEW s \in Seq(Byte), NEW c \in Nat, c <= Len(s), NEW n \in Nat, NEW line
  PROVE  /\ TypedAt(<<s, c>>, n, line) <=> LineAt(s, Len(s), c, n, line)
         /\ LineAt(s, Len(s), c, n, line) => n < c
BY CleanPair DEF TypedAt, LineAt

(* One place is written; the line is longer.                               *)
OneWritten(t, m, s, c, b) == \A k \in 1 .. m : t[k] = IF k = c THEN b ELSE s[k]
Prefix(longer, n, line) == \A k \in 0 .. n - 1 : longer[k] = line[k]

(* A byte that is a character is written at the cursor, which advances.    *)
LEMMA AfterCharacter ==
  ASSUME NEW s \in Seq(Byte), NEW c \in Nat, c <= Len(s),
         NEW b \in Byte, b \notin {"NUL", "NL", "BS"}
  PROVE  \E t \in Seq(Byte) :
           /\ After(<<s, c>>, b) = <<t, c + 1>> /\ c + 1 <= Len(t) /\ Len(t) \in Nat
           /\ Len(t) = IF c = Len(s) THEN c + 1 ELSE Len(s)
           /\ \A k \in 1 .. Len(t) : t[k] = IF k = c + 1 THEN b ELSE s[k]
<1>1. After(<<s, c>>, b) = <<Overwrite(s, c, b), c + 1>>
  BY DEF After
<1>2. /\ Overwrite(s, c, b) \in Seq(Byte)
      /\ Len(Overwrite(s, c, b)) = IF c = Len(s) THEN c + 1 ELSE Len(s)
      /\ \A k \in 1 .. Len(Overwrite(s, c, b)) :
           Overwrite(s, c, b)[k] = IF k = c + 1 THEN b ELSE s[k]
  BY Overwritten
<1>3. PICK t \in Seq(Byte) :
        /\ t = Overwrite(s, c, b) /\ Len(t) = IF c = Len(s) THEN c + 1 ELSE Len(s)
        /\ \A k \in 1 .. Len(t) : t[k] = IF k = c + 1 THEN b ELSE s[k]
  BY <1>2
<1>4. c + 1 <= Len(t) /\ Len(t) \in Nat
  <2>1. Len(s) \in Nat
    BY LenProperties
  <2> QED BY <1>3, <2>1
<1> QED BY <1>1, <1>3, <1>4

(* At the end of the line it is appended.                                  *)
LEMMA AfterEnd ==
  ASSUME NEW s \in Seq(Byte), NEW b \in Byte, b \notin {"NUL", "NL", "BS"}
  PROVE  After(<<s, Len(s)>>, b) = <<Append(s, b), Len(Append(s, b))>>
<1>1. Len(s) \in Nat /\ Len(s) <= Len(s)
  BY LenProperties
<1>2. PICK t \in Seq(Byte) :
        /\ After(<<s, Len(s)>>, b) = <<t, Len(s) + 1>> /\ Len(t) = Len(s) + 1
        /\ \A k \in 1 .. Len(t) : t[k] = IF k = Len(s) + 1 THEN b ELSE s[k]
  BY <1>1, AfterCharacter
<1>3. PICK u : u = Append(s, b)
  OBVIOUS
<1>4. /\ u \in Seq(Byte) /\ Len(u) = Len(s) + 1
      /\ \A k \in 1 .. Len(s) : u[k] = s[k]
      /\ u[Len(s) + 1] = b
  BY <1>3, AppendProperties
<1>5. \A k \in 1 .. Len(t) : t[k] = u[k]
  <2>1. \A n \in Nat : \A k \in 1 .. n + 1 : k = n + 1 \/ k \in 1 .. n
    OBVIOUS
  <2> QED BY <1>1, <1>2, <1>4, <2>1
<1>6. t = u
  BY <1>2, <1>4, <1>5, SeqEqual
<1> QED BY <1>2, <1>3, <1>4, <1>6

(* A new line is empty.                                                    *)
LEMMA CleanAfterNewline == \A d : After(d, "NL") = <<<<>>, 0>> /\ Clean(<<<<>>, 0>>)
<1>1. \A d : After(d, "NL") = <<<<>>, 0>>
  BY DEF After
<1>2. \A s \in Seq(Byte) : Len(s) = 0 => Clean(<<s, 0>>)
  <2> SUFFICES ASSUME NEW s \in Seq(Byte), Len(s) = 0 PROVE Clean(<<s, 0>>)
    OBVIOUS
  <2>1. 0 \in Nat /\ 0 <= Len(s) /\ \A k \in 0 + 1 .. Len(s) : s[k] = " "
    OBVIOUS
  <2> QED BY <2>1, CleanPair
<1>3. <<>> \in Seq(Byte) /\ Len(<<>>) = 0
  BY EmptySeq
<1> QED BY <1>1, <1>2, <1>3

(* At the end of a line nothing is behind the cursor.                      *)
LEMMA CleanAtEnd == ASSUME NEW s \in Seq(Byte) PROVE Clean(<<s, Len(s)>>)
<1>1. Len(s) \in Nat /\ Len(s) <= Len(s) /\ \A k \in Len(s) + 1 .. Len(s) : FALSE
  BY LenProperties
<1> QED BY <1>1, CleanPair

(* The prompt.                                                             *)
LEMMA PromptShown ==
  ASSUME NEW d, Clean(d), NEW line PROVE TypedAt(After(d, "$"), 0, line)
<1>1. "$" \in Byte /\ 0 \in Nat
  BY Bytes DEF OwnByte
<1>2. PICK s \in Seq(Byte), c \in Nat : d = <<s, c>> /\ c <= Len(s) /\ Len(s) \in Nat
  BY DisplayPairs DEF Clean
<1>3. \A k \in c + 1 .. Len(s) : s[k] = " "
  BY <1>2, CleanPair
<1>4. PICK t \in Seq(Byte) :
        /\ After(<<s, c>>, "$") = <<t, c + 1>> /\ c + 1 <= Len(t) /\ Len(t) \in Nat
        /\ Len(t) = IF c = Len(s) THEN c + 1 ELSE Len(s)
        /\ \A k \in 1 .. Len(t) : t[k] = IF k = c + 1 THEN "$" ELSE s[k]
  BY <1>1, <1>2, AfterCharacter
<1>5. ASSUME NEW k \in (c + 1) + 1 .. Len(t) PROVE t[k] = " "
  <2>1. k \in c + 1 .. Len(s) /\ k \in 1 .. Len(t) /\ k # c + 1
    BY <1>2, <1>4
  <2> QED BY <1>3, <1>4, <2>1
<1>6. t[(c + 1) - 0] = "$" /\ 0 < c + 1 /\ c + 1 \in Nat /\ \A k \in 0 .. 0 - 1 : FALSE
  <2>1. (c + 1) - 0 = c + 1 /\ c + 1 \in 1 .. Len(t)
    BY <1>2, <1>4
  <2> QED BY <1>4, <2>1
<1>7. TypedAt(<<t, c + 1>>, 0, line)
  BY <1>1, <1>4, <1>5, <1>6, TypedPair DEF LineAt
<1> QED BY <1>2, <1>4, <1>7

(* The places of the line that is shown when one character is added.       *)
LEMMA LongerPlaces ==
  ASSUME NEW l \in Nat, NEW m \in Nat, NEW c \in Nat, NEW n \in Nat,
         c <= l, n < c, m = IF c = l THEN c + 1 ELSE l
  PROVE  /\ n + 1 < c + 1 /\ (c + 1) - (n + 1) = c - n
         /\ c - n \in 1 .. m /\ c - n # c + 1
         /\ \A k \in (c + 1) + 1 .. m : k \in c + 1 .. l /\ k \in 1 .. m /\ k # c + 1
         /\ \A k \in 0 .. (n + 1) - 1 :
              /\ k \in Nat /\ (c + 1) - (n + 1) + 1 + k = c - n + 1 + k
              /\ c - n + 1 + k \in 1 .. m
              /\ k # n => c - n + 1 + k # c + 1 /\ k \in 0 .. n - 1
              /\ k = n => c - n + 1 + k = c + 1
OBVIOUS

(* A character that is typed: the line that is shown is one longer.        *)
LEMMA CharacterLine ==
  ASSUME NEW s, NEW l \in Nat, NEW t, NEW m \in Nat, NEW c \in Nat, NEW n \in Nat, NEW b,
         NEW line, NEW longer,
         c <= l, n < c, m = IF c = l THEN c + 1 ELSE l,
         OneWritten(t, m, s, c + 1, b), LineAt(s, l, c, n, line),
         longer[n] = b, Prefix(longer, n, line)
  PROVE  LineAt(t, m, c + 1, n + 1, longer)
<1>0. PICK p : p = c + 1
  OBVIOUS
<1>1. ASSUME NEW k \in (c + 1) + 1 .. m PROVE t[k] = " "
  <2>1. k \in c + 1 .. l /\ k \in 1 .. m /\ k # c + 1
    BY LongerPlaces
  <2> QED BY <2>1 DEF OneWritten, LineAt
<1>2. n + 1 < c + 1 /\ t[(c + 1) - (n + 1)] = "$"
  <2>1. n + 1 < c + 1 /\ (c + 1) - (n + 1) = c - n /\ c - n \in 1 .. m /\ c - n # c + 1
    BY LongerPlaces
  <2>2. PICK j : j = c - n
    OBVIOUS
  <2>3. s[j] = "$"
    BY <2>2 DEF LineAt
  <2>4. t[j] = "$"
    BY <2>1, <2>2, <2>3 DEF OneWritten
  <2> QED BY <2>1, <2>2, <2>4
<1>3. ASSUME NEW k \in 0 .. (n + 1) - 1 PROVE t[(c + 1) - (n + 1) + 1 + k] = longer[k]
  <2>1. /\ (c + 1) - (n + 1) + 1 + k = c - n + 1 + k /\ c - n + 1 + k \in 1 .. m
        /\ k # n => c - n + 1 + k # c + 1 /\ k \in 0 .. n - 1
        /\ k = n => c - n + 1 + k = c + 1
    BY LongerPlaces
  <2>2. PICK j : j = c - n + 1 + k
    OBVIOUS
  <2>3. CASE k = n
    <3>1. t[j] = b
      BY <2>1, <2>2, <2>3 DEF OneWritten
    <3> QED BY <2>1, <2>2, <2>3, <3>1
  <2>4. CASE k # n
    <3>1. s[j] = line[k] /\ longer[k] = line[k]
      BY <2>1, <2>2, <2>4 DEF LineAt, Prefix
    <3>2. t[j] = s[j]
      BY <2>1, <2>2, <2>4 DEF OneWritten
    <3> QED BY <2>1, <2>2, <3>1, <3>2
  <2> QED BY <2>3, <2>4
<1> QED BY <1>1, <1>2, <1>3 DEF LineAt

(* So the line and the terminal grow by the same character.                *)
LEMMA CharacterShown ==
  ASSUME NEW d, NEW n \in Nat, NEW line, TypedAt(d, n, line),
         NEW b \in Byte, b \notin {"NUL", "NL", "BS"},
         NEW longer, longer[n] = b, Prefix(longer, n, line)
  PROVE  TypedAt(After(d, b), n + 1, longer)
<1>1. PICK s \in Seq(Byte), c \in Nat : d = <<s, c>> /\ c <= Len(s) /\ Len(s) \in Nat
  BY DisplayPairs DEF TypedAt, Clean
<1>2. TypedAt(<<s, c>>, n, line)
  BY <1>1
<1>3. LineAt(s, Len(s), c, n, line) /\ n < c
  BY <1>1, <1>2, TypedPair
<1>4. PICK t \in Seq(Byte) :
        /\ After(<<s, c>>, b) = <<t, c + 1>> /\ c + 1 <= Len(t) /\ Len(t) \in Nat
        /\ Len(t) = IF c = Len(s) THEN c + 1 ELSE Len(s)
        /\ \A k \in 1 .. Len(t) : t[k] = IF k = c + 1 THEN b ELSE s[k]
  BY <1>1, AfterCharacter
<1>5. OneWritten(t, Len(t), s, c + 1, b)
  BY <1>4 DEF OneWritten
<1>8. LineAt(t, Len(t), c + 1, n + 1, longer)
  BY <1>1, <1>3, <1>4, <1>5, CharacterLine
<1>6. n + 1 \in Nat /\ c + 1 \in Nat
  OBVIOUS
<1>7. TypedAt(<<t, c + 1>>, n + 1, longer)
  BY <1>4, <1>6, <1>8, TypedPair
<1> QED BY <1>1, <1>4, <1>7

(* The places of a line that is one shorter.                               *)
LEMMA BehindPlace ==
  \A h, j \in Nat : \A x \in j + 1 .. h :
    x \in 1 .. h /\ (x # j + 1 => x \in (j + 1) + 1 .. h)
OBVIOUS

LEMMA ShorterEnd ==
  \A l, m, n \in Nat : m + 1 <= l /\ n < m + 1 /\ n > 0 =>
    n - 1 < m /\ m - (n - 1) = (m + 1) - n /\ (m + 1) - n \in 1 .. l /\ (m + 1) - n # m + 1
OBVIOUS

LEMMA ShorterPlace ==
  \A l, m, n \in Nat : m + 1 <= l /\ n < m + 1 /\ n > 0 =>
    \A k \in 0 .. (n - 1) - 1 :
      /\ m - (n - 1) + 1 + k = (m + 1) - n + 1 + k
      /\ (m + 1) - n + 1 + k \in 1 .. l /\ (m + 1) - n + 1 + k # m + 1 /\ k \in 0 .. n - 1
OBVIOUS

(* The last character is rubbed out: the line is one shorter.              *)
LEMMA RubbedOutLine ==
  ASSUME NEW s, NEW l \in Nat, NEW t, NEW m \in Nat, NEW n \in Nat,
         NEW line, NEW shorter, m + 1 <= l, n < m + 1, n > 0,
         OneWritten(t, l, s, m + 1, " "), LineAt(s, l, m + 1, n, line),
         Prefix(shorter, n, line)
  PROVE  LineAt(t, l, m, n - 1, shorter)
<1>1. ASSUME NEW k \in m + 1 .. l PROVE t[k] = " "
  <2>1. k \in 1 .. l /\ (k # m + 1 => k \in (m + 1) + 1 .. l)
    BY BehindPlace
  <2>2. CASE k = m + 1
    BY <2>1, <2>2 DEF OneWritten
  <2>3. CASE k # m + 1
    BY <2>1, <2>3 DEF OneWritten, LineAt
  <2> QED BY <2>2, <2>3
<1>2. n - 1 < m /\ t[m - (n - 1)] = "$"
  <2>1. /\ n - 1 < m /\ m - (n - 1) = (m + 1) - n /\ (m + 1) - n \in 1 .. l
        /\ (m + 1) - n # m + 1
    BY ShorterEnd
  <2>2. PICK j : j = (m + 1) - n
    OBVIOUS
  <2>3. s[j] = "$"
    BY <2>2 DEF LineAt
  <2>4. t[j] = "$"
    BY <2>1, <2>2, <2>3 DEF OneWritten
  <2> QED BY <2>1, <2>2, <2>4
<1>3. ASSUME NEW k \in 0 .. (n - 1) - 1 PROVE t[m - (n - 1) + 1 + k] = shorter[k]
  <2>1. /\ m - (n - 1) + 1 + k = (m + 1) - n + 1 + k
        /\ (m + 1) - n + 1 + k \in 1 .. l /\ (m + 1) - n + 1 + k # m + 1 /\ k \in 0 .. n - 1
    BY ShorterPlace
  <2>2. PICK j : j = (m + 1) - n + 1 + k
    OBVIOUS
  <2>3. s[j] = line[k] /\ shorter[k] = line[k]
    BY <2>1, <2>2 DEF LineAt, Prefix
  <2>4. t[j] = s[j]
    BY <2>1, <2>2 DEF OneWritten
  <2> QED BY <2>1, <2>2, <2>3, <2>4
<1> QED BY <1>1, <1>2, <1>3 DEF LineAt

(* Back, a blank, and back again: the line and the terminal lose one.      *)
LEMMA RubbedOut ==
  ASSUME NEW d, NEW n \in Nat, n > 0, NEW line, TypedAt(d, n, line),
         NEW shorter, Prefix(shorter, n, line)
  PROVE  TypedAt(After(After(After(d, "BS"), " "), "BS"), n - 1, shorter)
<1>0. " " \in Byte
  BY Bytes DEF OwnByte
<1>1. PICK s \in Seq(Byte), c \in Nat : d = <<s, c>> /\ c <= Len(s) /\ Len(s) \in Nat
  BY DisplayPairs DEF TypedAt, Clean
<1>2. TypedAt(<<s, c>>, n, line)
  BY <1>1
<1>3. LineAt(s, Len(s), c, n, line) /\ n < c
  BY <1>1, <1>2, TypedPair
<1>4. PICK m \in Nat : c = m + 1 /\ m + 1 <= Len(s) /\ n < m + 1 /\ m <= Len(s) /\ m # Len(s)
  <2>1. \A l \in Nat : c <= l /\ n < c =>
           c - 1 \in Nat /\ (c - 1) + 1 = c /\ c - 1 <= l /\ c - 1 # l
    OBVIOUS
  <2> QED BY <1>1, <1>3, <2>1
<1>12. c > 0 /\ c - 1 = m /\ (m + 1) - 1 = m
  BY <1>4
<1>5. After(<<s, c>>, "BS") = <<s, m>>
  BY <1>12 DEF After
<1>6. PICK t \in Seq(Byte) :
        /\ After(<<s, m>>, " ") = <<t, m + 1>>
        /\ Len(t) = IF m = Len(s) THEN m + 1 ELSE Len(s)
        /\ \A k \in 1 .. Len(t) : t[k] = IF k = m + 1 THEN " " ELSE s[k]
  BY <1>0, <1>4, AfterCharacter, ZenonT(30)
<1>7. /\ After(<<s, m>>, " ") = <<t, c>> /\ Len(t) = Len(s)
      /\ OneWritten(t, Len(s), s, c, " ")
  BY <1>4, <1>6 DEF OneWritten
<1>8. After(<<t, c>>, "BS") = <<t, m>>
  BY <1>12 DEF After
<1>9. LineAt(t, Len(s), m, n - 1, shorter)
  BY <1>1, <1>3, <1>4, <1>7, RubbedOutLine
<1>10. n - 1 \in Nat /\ m <= Len(t)
  <2>1. \A k \in Nat : k > 0 => k - 1 \in Nat
    OBVIOUS
  <2> QED BY <1>4, <1>7, <2>1
<1>11. TypedAt(<<t, m>>, n - 1, shorter)
  BY <1>4, <1>6, <1>7, <1>9, <1>10, TypedPair
<1> QED BY <1>1, <1>5, <1>7, <1>8, <1>11

(* What at most three bytes show.                                          *)
LEMMA FinalOf ==
  ASSUME NEW d
  PROVE  /\ Final(d, <<>>) = d
         /\ \A a : Final(d, <<a>>) = After(d, a)
         /\ \A a, b, c : Final(d, <<a, b, c>>) = After(After(After(d, a), b), c)
BY DEF Final

(* Sending the first byte does not change what is shown in the end.        *)
LEMMA FinalStep ==
  ASSUME NEW d, NEW s \in Seq(Byte), s # <<>>, Len(s) <= 3
  PROVE  /\ Final(After(d, Head(s)), Tail(s)) = Final(d, s)
         /\ Tail(s) \in Seq(Byte) /\ Len(Tail(s)) <= 3
<1>0. PICK t : t = Tail(s)
  OBVIOUS
<1>1. /\ Len(s) \in Nat \ {0} /\ Len(t) = Len(s) - 1 /\ t \in Seq(Byte)
      /\ \A k \in 1 .. Len(t) : t[k] = s[k + 1]
  BY <1>0, EmptySeq, HeadTailProperties
<1>2. Len(s) \in {1, 2, 3} /\ Len(t) <= 3
  <2>1. \A n \in Nat \ {0} : n <= 3 => n \in {1, 2, 3} /\ n - 1 <= 3
    OBVIOUS
  <2> QED BY <1>1, <2>1
<1>3. PICK h : h = Head(s) /\ h = s[1]
  OBVIOUS
<1>4. Final(After(d, h), t) = Final(d, s)
  <2>1. CASE Len(s) = 1
    <3>1. Len(t) = 0
      BY <1>1, <2>1
    <3> QED BY <1>3, <2>1, <3>1 DEF Final
  <2>2. CASE Len(s) = 2
    <3>1. Len(t) = 1 /\ 1 \in 1 .. 1 /\ 1 + 1 = 2
      BY <1>1, <2>2
    <3>2. t[1] = s[2]
      BY <1>1, <3>1
    <3> QED BY <1>3, <2>2, <3>1, <3>2 DEF Final
  <2>3. CASE Len(s) = 3
    <3>1. Len(t) = 2 /\ 1 \in 1 .. 2 /\ 2 \in 1 .. 2 /\ 1 + 1 = 2 /\ 2 + 1 = 3
      BY <1>1, <2>3
    <3>2. t[1] = s[2] /\ t[2] = s[3]
      BY <1>1, <3>1
    <3> QED BY <1>3, <2>3, <3>1, <3>2 DEF Final
  <2> QED BY <1>2, <2>1, <2>2, <2>3
<1> QED BY <1>0, <1>1, <1>2, <1>3, <1>4

-----------------------------------------------------------------------------
(***************************************************************************)
(* What it shows once all is sent.                                         *)
(***************************************************************************)

(* Nothing is shown or begins to be sent.                                  *)
LEMMA ShowKept ==
  ASSUME ShowInv, Soon' = Soon, Rest' = Rest, UNCHANGED <<cli, i, buf>>,
         cli \in {"dump", "close"} => ReadSoFar' = ReadSoFar
  PROVE  ShowInv'
<1>1. cli' \in InLine => Len(Rest') <= 3 /\ TypedAt(Final(Soon', Rest'), i', buf')
  BY DEF ShowInv, Typed
<1>2. cli' = "prompt" => Len(Rest') <= 3 /\ Clean(Final(Soon', Rest'))
  BY DEF ShowInv
<1>3. cli' \in {"dump", "close"} => Dumped'
  BY DEF ShowInv, Dumped
<1> QED BY <1>1, <1>2, <1>3 DEF ShowInv, Typed

(* What was read does not change with these.                               *)
LEMMA ReadKept ==
  ASSUME UNCHANGED <<fd, path, romfs_fds, cli>> PROVE ReadSoFar' = ReadSoFar
BY DEF ReadSoFar

(* The empty sequence of bytes.                                            *)
LEMMA Empties == /\ <<>> \in Seq(Byte) /\ Len(<<>>) = 0
                 /\ \A s \in Seq(Byte) : s \o <<>> = s /\ <<>> \o s = s
BY EmptySeq, ConcatEmptySeq

(* What was read of a file are bytes of files.                             *)
LEMMA ReadBytes ==
  ASSUME FioInv, Wired, DumpInv, cli \in {"dump", "close"}
  PROVE  ReadSoFar \in Seq(FileByte)
<1>1. CASE fd[CLI] < 0
  BY <1>1, EmptySeq DEF ReadSoFar
<1>2. CASE fd[CLI] >= 0 /\ cli = "dump"
  <2>1. PICK n : n = CountRead(fd[CLI], BufSize)
    OBVIOUS
  <2>2. /\ path[CLI] \in File /\ n \in Nat
        /\ romfs_fds[fd[CLI]].cursor \in Nat /\ Size[path[CLI]] \in Nat
        /\ romfs_fds[fd[CLI]].cursor + n <= Size[path[CLI]]
    BY <1>2, <2>1, DumpedBytes
  <2>3. Content[path[CLI]] \in Seq(FileByte) /\ Len(Content[path[CLI]]) = Size[path[CLI]]
    BY <2>2, ShellAssumption
  <2>4. \A k \in 1 .. romfs_fds[fd[CLI]].cursor : k \in 1 .. Len(Content[path[CLI]])
    BY <2>2, <2>3
  <2>5. \A k \in 1 .. romfs_fds[fd[CLI]].cursor : Content[path[CLI]][k] \in FileByte
    BY <2>3, <2>4, ElementOfSeq
  <2>6. SubSeq(Content[path[CLI]], 1, romfs_fds[fd[CLI]].cursor) \in Seq(FileByte)
    BY <2>2, <2>5, SubSeqProperties
  <2> QED BY <1>2, <2>6 DEF ReadSoFar
<1>3. CASE fd[CLI] >= 0 /\ cli = "close"
  <2>1. Content[path[CLI]] \in Seq(FileByte)
    BY <1>3, ShellAssumption DEF DumpInv
  <2> QED BY <1>3, <2>1 DEF ReadSoFar
<1>4. fd[CLI] \in Int
  BY ShellAssumption DEF FioInv, FioTypeOK
<1> QED BY <1>1, <1>2, <1>3, <1>4

(* A byte that is sent goes from the one sequence to the other.            *)
LEMMA OneByteOn ==
  ASSUME NEW s \in Seq(Byte), NEW r \in Seq(Byte), r # <<>>
  PROVE  Append(s, Head(r)) \o Tail(r) = s \o r
<1>1. PICK h \in Byte, t \in Seq(Byte) : h = Head(r) /\ t = Tail(r)
  BY HeadTailProperties
<1>2. <<h>> \in Seq(Byte) /\ Append(s, h) = s \o <<h>>
  BY AppendIsConcat
<1>3. r = <<h>> \o t
  <2>1. Len(r) \in Nat \ {0} /\ Len(t) = Len(r) - 1 /\ \A k \in 1 .. Len(t) : t[k] = r[k + 1]
    BY <1>1, EmptyHasNone, HeadTailProperties
  <2>2. PICK u \in Seq(Byte) : /\ u = <<h>> \o t /\ Len(u) = 1 + Len(t)
                               /\ \A k \in 1 .. 1 + Len(t) : u[k] = IF k <= 1 THEN h ELSE t[k - 1]
    <3>1. PICK g \in Seq(Byte) : g = <<h>> /\ Len(g) = 1 /\ g[1] = h
      BY <1>2
    <3>2. PICK u : u = g \o t
      OBVIOUS
    <3>3. /\ u \in Seq(Byte) /\ Len(u) = 1 + Len(t)
          /\ \A k \in 1 .. 1 + Len(t) : u[k] = IF k <= 1 THEN g[k] ELSE t[k - 1]
      BY <3>1, <3>2, ConcatProperties
    <3>4. \A k \in 1 .. 1 + Len(t) : k <= 1 => k = 1
      OBVIOUS
    <3>5. u = <<h>> \o t
      BY <3>1, <3>2
    <3>6. \A k \in 1 .. 1 + Len(t) : u[k] = IF k <= 1 THEN h ELSE t[k - 1]
      BY <3>1, <3>3, <3>4
    <3> QED BY <3>3, <3>5, <3>6
  <2>3. \A k \in 1 .. Len(r) : r[k] = u[k]
    <3> SUFFICES ASSUME NEW k \in 1 .. Len(r) PROVE r[k] = u[k]
      OBVIOUS
    <3>1. k \in 1 .. 1 + Len(t)
      BY <2>1
    <3>2. CASE k = 1
      BY <1>1, <2>2, <3>1, <3>2
    <3>3. CASE k # 1
      <4>1. ~(k <= 1) /\ k - 1 \in 1 .. Len(t) /\ (k - 1) + 1 = k
        BY <2>1, <3>3
      <4> QED BY <2>1, <2>2, <3>1, <4>1
    <3> QED BY <3>2, <3>3
  <2>4. Len(r) = Len(u)
    BY <2>1, <2>2
  <2> QED BY <2>2, <2>3, <2>4, SeqEqual
<1>4. (s \o <<h>>) \o t = s \o (<<h>> \o t)
  BY <1>2, ConcatAssociative
<1> QED BY <1>1, <1>2, <1>3, <1>4

(* So what is shown and what is to be sent stay the file.                  *)
LEMMA FileStep ==
  ASSUME Legible, NEW d \in Display, NEW r \in Seq(Byte), r # <<>>, d[2] = Len(d[1]),
         NEW read \in Seq(FileByte), d[1] \o r = read
  PROVE  /\ After(d, Head(r))[2] = Len(After(d, Head(r))[1])
         /\ After(d, Head(r))[1] \o Tail(r) = read
<1>1. PICK s \in Seq(Byte) : d[1] = s /\ d = <<s, Len(s)>>
  BY DisplayPairs
<1>2. Head(r) \in Byte /\ Head(r) = r[1] /\ Len(r) \in Nat \ {0} /\ Len(s) \in Nat
  BY HeadTailProperties, EmptyHasNone
<1>3. Head(r) \in FileByte
  <2>1. s \o r = read
    BY <1>1
  <2>2. Len(read) = Len(s) + Len(r) /\ read[Len(s) + 1] = r[1]
    <3>1. \A k \in 1 .. Len(s) + Len(r) : (s \o r)[k] = IF k <= Len(s) THEN s[k] ELSE r[k - Len(s)]
      BY ConcatProperties
    <3>2. /\ Len(s) + 1 \in 1 .. Len(s) + Len(r) /\ ~(Len(s) + 1 <= Len(s))
          /\ Len(s) + 1 - Len(s) = 1
      BY <1>2
    <3>3. (s \o r)[Len(s) + 1] = r[1]
      BY <3>1, <3>2
    <3> QED BY <2>1, <3>3, ConcatProperties, ZenonT(30)
  <2>3. Len(s) + 1 \in 1 .. Len(read)
    BY <1>2, <2>2
  <2> QED BY <1>2, <2>2, <2>3, ElementOfSeq
<1>4. Head(r) \notin {"NUL", "NL", "BS"}
  BY <1>3 DEF Legible
<1>5. After(d, Head(r)) = <<Append(s, Head(r)), Len(Append(s, Head(r)))>>
  BY <1>1, <1>2, <1>4, AfterEnd
<1>6. PICK t : t = Append(s, Head(r)) /\ t \o Tail(r) = s \o r
  BY OneByteOn
<1>7. s \o r = read
  BY <1>1
<1>8. After(d, Head(r)) = <<t, Len(t)>>
  BY <1>5, <1>6
<1>9. After(d, Head(r))[1] = t /\ After(d, Head(r))[2] = Len(t)
  BY <1>8
<1> QED BY <1>6, <1>7, <1>9

(* A byte goes to the data register.                                       *)
LEMMA ShowSend ==
  ASSUME Legible, FioInv, Wired, SerialInv, OutInv, DumpInv, ShowInv, Output, SendData(Head(out))
  PROVE  ShowInv'
<1>1. /\ io = "data" /\ out # <<>> /\ io' = "load" /\ tdr' = Head(out) /\ out' = out
      /\ UNCHANGED <<fd, path, romfs_fds, cli, i, buf, screen, column>>
  BY DEF Output, SendData, SendWait, SendLoad, LoadCR1, SendEnable, StoreCR1, fioVars, terminalVars
<1>2. out \in Seq(Byte) /\ Head(out) \in Byte /\ None \notin Byte
  BY <1>1, HeadTailProperties, Bytes DEF OutInv
<1>3. Rest = out /\ Rest' = Tail(out) /\ tdr = None
  BY <1>1 DEF Rest, SerialInv
<1>4. Soon' = After(Soon, Head(out)) /\ Soon = <<screen, column>> /\ Soon \in Display
  BY <1>1, <1>2, <1>3 DEF Soon, SerialInv
<1>5. ASSUME Len(Rest) <= 3
      PROVE  Len(Rest') <= 3 /\ Final(Soon', Rest') = Final(Soon, Rest)
  BY <1>1, <1>2, <1>3, <1>4, <1>5, FinalStep
<1>6. CASE cli \in InLine
  BY <1>1, <1>5, <1>6 DEF ShowInv, Typed, InLine
<1>7. CASE cli = "prompt"
  BY <1>1, <1>5, <1>7 DEF ShowInv, InLine
<1>8. CASE cli \in {"dump", "close"}
  <2>1. ReadSoFar' = ReadSoFar /\ ReadSoFar \in Seq(FileByte)
    BY <1>1, <1>8, ReadKept, ReadBytes
  <2>2. CASE Rest = <<"NL">> /\ ReadSoFar = <<>>
    <3>1. Head(out) = "NL" /\ Tail(out) = <<>>
      BY <1>3, <2>2
    <3>2. Soon' = <<<<>>, 0>> /\ Rest' = <<>>
      BY <1>3, <1>4, <3>1, CleanAfterNewline
    <3>3. Soon'[2] = 0 /\ Soon'[1] = <<>> /\ Len(<<>>) = 0 /\ <<>> \o <<>> = <<>>
      BY <3>2, Empties
    <3> QED BY <1>1, <1>8, <2>1, <2>2, <3>2, <3>3 DEF ShowInv, Dumped, InLine
  <2>3. CASE Soon[2] = Len(Soon[1]) /\ Soon[1] \o Rest = ReadSoFar
    <3>1. Soon'[2] = Len(Soon'[1]) /\ Soon'[1] \o Rest' = ReadSoFar
      BY <1>1, <1>2, <1>3, <1>4, <2>1, <2>3, FileStep
    <3> QED BY <1>1, <1>8, <2>1, <3>1 DEF ShowInv, Dumped, InLine
  <2> QED BY <1>8, <2>2, <2>3 DEF ShowInv, Dumped
<1> QED BY <1>1, <1>6, <1>7, <1>8 DEF ShowInv

-----------------------------------------------------------------------------
(* What one task does is nothing to the bytes on their way.                *)
LEMMA LineStays ==
  ASSUME UNCHANGED <<tdr, screen, column, out>>,
         io' = io \/ (io' \in {"load", "store"} <=> io \in {"load", "store"})
  PROVE  Soon' = Soon /\ Rest' = Rest
<1>1. Soon' = Soon
  BY DEF Soon
<1>2. Rest' = Rest
  BY DEF Rest
<1> QED BY <1>1, <1>2

(* A message begins when nothing is left of the last.                      *)
LEMMA ShowBegins ==
  ASSUME NEW bytes, Send(bytes), Idling
  PROVE  Soon' = Soon /\ Rest = <<>> /\ Rest' = bytes
<1>1. /\ out' = bytes /\ io' \in {"done", "send"} /\ io = "done" /\ out = <<>>
      /\ UNCHANGED <<tdr, screen, column>>
  BY Sends DEF Idling, lineVars, terminalVars
<1> QED BY <1>1 DEF Soon, Rest

(* What is sent at once, but for files, is short.                          *)
LEMMA Lengths ==
  /\ \A a : Len(<<a>>) = 1
  /\ \A a, b, c : Len(<<a, b, c>>) = 3
  /\ 1 <= 3 /\ 3 <= 3 /\ 0 <= 3
OBVIOUS

(* The prompt begins a line.                                               *)
LEMMA ShowPrompt ==
  ASSUME FioInv, Wired, ShowInv, Prompt PROVE ShowInv'
<1>1. /\ cli = "prompt" /\ Send(<<"$">>) /\ Idling /\ cli' = "line" /\ i' = 0 /\ buf' = buf
  BY StandardWrites DEF Prompt
<1>2. Soon' = Soon /\ Rest = <<>> /\ Rest' = <<"$">>
  BY <1>1, ShowBegins
<1>3. Clean(Soon)
  BY <1>1, <1>2, FinalOf DEF ShowInv
<1>4. TypedAt(After(Soon, "$"), 0, buf)
  BY <1>3, PromptShown
<1>5. Final(Soon', Rest') = After(Soon, "$") /\ Len(Rest') <= 3
  BY <1>2, FinalOf, Lengths
<1> QED BY <1>1, <1>4, <1>5 DEF ShowInv, Typed, InLine

(* A message between two new lines leaves an empty line.                   *)
LEMMA ShowMessage ==
  ASSUME Idling, Send(<<"NL", "?", "NL">>), cli' = "prompt" PROVE ShowInv'
<1>1. Soon' = Soon /\ Rest' = <<"NL", "?", "NL">>
  BY ShowBegins
<1>2. Final(Soon', Rest') = <<<<>>, 0>> /\ Len(Rest') <= 3
  BY <1>1, FinalOf, CleanAfterNewline, Lengths, SMTT(30)
<1>3. Clean(<<<<>>, 0>>)
  BY CleanAfterNewline
<1> QED BY <1>2, <1>3 DEF ShowInv, InLine

(* A dump begins with a new line.                                          *)
LEMMA ShowOpened ==
  ASSUME FioInv, Wired, DumpInv, ShowInv, DumpOpened PROVE ShowInv'
<1>1. cli = "open" /\ Idling /\ at[CLI] = "opened" /\ UNCHANGED fioVars
  BY DEF DumpOpened
<1>2. CASE fd[CLI] = -1
  <2>1. Send(<<"NL", "?", "NL">>) /\ cli' = "prompt"
    BY <1>2, StandardWrites DEF DumpOpened
  <2> QED BY <1>1, <2>1, ShowMessage
<1>3. CASE fd[CLI] # -1
  <2>1. Send(<<"NL">>) /\ cli' = "dump"
    BY <1>3, StandardWrites DEF DumpOpened
  <2>2. Rest' = <<"NL">>
    BY <1>1, <2>1, ShowBegins
  <2>3. ReadSoFar' = <<>>
    <3>1. fd' = fd /\ path' = path /\ romfs_fds' = romfs_fds
      BY <1>1 DEF fioVars
    <3>2. CASE fd[CLI] < 0
      BY <3>1, <3>2 DEF ReadSoFar
    <3>3. CASE ~(fd[CLI] < 0)
      <4>1. fd[CLI] \in Int
        BY ShellAssumption DEF FioInv, FioTypeOK
      <4>2. romfs_fds[fd[CLI]].cursor = 0
        BY <1>1, <3>3, <4>1 DEF DumpInv
      <4>3. SubSeq(Content[path[CLI]], 1, 0) = <<>>
        BY SubSeqEmpty
      <4> QED BY <2>1, <3>1, <3>3, <4>2, <4>3 DEF ReadSoFar
    <3> QED BY <3>2, <3>3
  <2> QED BY <2>1, <2>2, <2>3 DEF ShowInv, Dumped, InLine
<1> QED BY <1>2, <1>3

(* Dumped when nothing is left to be sent.                                 *)
LEMMA AllShown ==
  ASSUME SerialInv, Rest = <<>>, Dumped
  PROVE  Soon[2] = Len(Soon[1]) /\ Soon[1] = ReadSoFar /\ Soon[1] \in Seq(Byte) /\ Clean(Soon)
<1>1. Soon[2] = Len(Soon[1]) /\ Soon[1] \o <<>> = ReadSoFar
  <2>1. <<>> # <<"NL">>
    OBVIOUS
  <2> QED BY <2>1 DEF Dumped
<1>2. PICK s \in Seq(Byte), c \in Nat : Soon = <<s, c>>
  BY SoonIsDisplay, DisplayPairs
<1>3. Soon[1] = s /\ Soon[2] = c
  BY <1>2
<1>4. s \o <<>> = s
  BY Empties
<1>5. Clean(<<s, Len(s)>>)
  BY CleanAtEnd
<1> QED BY <1>1, <1>2, <1>3, <1>4, <1>5

(* Each piece of the file continues what is shown.                         *)
LEMMA ShowRead ==
  ASSUME FioInv, Wired, SerialInv, DumpInv, ShowInv, DumpRead PROVE ShowInv'
<1>1. PICK n : n = CountRead(fd[CLI], BufSize)
  OBVIOUS
<1>2. /\ cli = "dump" /\ Idling /\ FioRead(CLI, BufSize)
      /\ Send(IF n > 0 THEN Written(1, BytesRead(fd[CLI], n)) ELSE <<>>)
      /\ cli' = IF n > 0 THEN "dump" ELSE "close"
      /\ fd' = fd /\ path' = path
  BY <1>1 DEF DumpRead, FioRead
<1>3. /\ fd[CLI] \in Int /\ n \in Int /\ (n > 0 => fd[CLI] >= 0)
      /\ fd[CLI] >= 0 =>
           /\ path[CLI] \in File /\ fd[CLI] \in Fd /\ fio_fds[fd[CLI]].opaque = fd[CLI]
           /\ Entry(fd[CLI]).file = path[CLI] /\ Entry(fd[CLI]) = romfs_fds[fd[CLI]]
           /\ n \in Nat /\ Entry(fd[CLI]).cursor \in Nat
           /\ Entry(fd[CLI]).cursor + n <= Size[path[CLI]] /\ Size[path[CLI]] \in Nat
           /\ n = 0 => Entry(fd[CLI]).cursor = Size[path[CLI]]
  BY <1>1, <1>2, DumpedBytes
<1>4. Soon' = Soon /\ Rest = <<>>
  BY <1>2, ShowBegins
<1>5. Soon[2] = Len(Soon[1]) /\ Soon[1] = ReadSoFar /\ Soon[1] \in Seq(Byte)
  BY <1>2, <1>4, AllShown DEF ShowInv
<1>6. CASE n > 0
  <2>1. PICK m \in Nat, f \in File : /\ m = romfs_fds[fd[CLI]].cursor /\ f = path[CLI]
                                     /\ m + n <= Size[f] /\ Size[f] \in Nat /\ n \in Nat
    BY <1>3, <1>6
  <2>2. Send(SubSeq(Content[f], m + 1, m + n)) /\ cli' = "dump"
    BY <1>2, <1>3, <1>6, <2>1, StandardWrites DEF BytesRead
  <2>3. Rest' = SubSeq(Content[f], m + 1, m + n)
    BY <1>2, <2>2, ShowBegins
  <2>4. ReadSoFar = SubSeq(Content[f], 1, m)
    BY <1>2, <1>3, <1>6, <2>1 DEF ReadSoFar
  <2>5. ReadSoFar' = SubSeq(Content[f], 1, m + n)
    <3>1. DOMAIN romfs_fds = Fd /\ romfs_fds[fd[CLI]] \in [file : File \cup {NULL}, cursor : Int]
      BY <1>3, <1>6 DEF FioInv, FioTypeOK
    <3>2. romfs_fds' = [romfs_fds EXCEPT ![fd[CLI]].cursor = @ + n]
      BY <1>1, <1>2, <1>3, <1>6 DEF FioRead
    <3>3. romfs_fds'[fd[CLI]].cursor = m + n
      BY <1>3, <1>6, <2>1, <3>1, <3>2
    <3> QED BY <1>2, <1>3, <1>6, <2>1, <2>2, <3>3 DEF ReadSoFar
  <2>6. Soon'[1] \o Rest' = ReadSoFar'
    <3>1. SubSeq(Content[f], 1, m) \o SubSeq(Content[f], m + 1, m + n)
            = SubSeq(Content[f], 1, m + n)
      BY <2>1, PiecesAreBytes
    <3>2. Soon'[1] = SubSeq(Content[f], 1, m)
      BY <1>4, <1>5, <2>4
    <3> QED BY <2>3, <2>5, <3>1, <3>2
  <2> QED BY <1>4, <1>5, <2>2, <2>6 DEF ShowInv, Dumped, InLine
<1>7. CASE ~(n > 0)
  <2>1. Send(<<>>) /\ cli' = "close"
    BY <1>2, <1>7
  <2>2. Rest' = <<>>
    BY <1>2, <2>1, ShowBegins
  <2>3. ReadSoFar' = ReadSoFar
    <3>1. CASE fd[CLI] < 0
      BY <1>2, <3>1 DEF ReadSoFar
    <3>2. CASE ~(fd[CLI] < 0)
      <4>1. /\ path[CLI] \in File /\ Size[path[CLI]] \in Nat
            /\ romfs_fds[fd[CLI]].cursor = Size[path[CLI]]
        BY <1>3, <1>7, <3>2
      <4>2. SubSeq(Content[path[CLI]], 1, Size[path[CLI]]) = Content[path[CLI]]
        BY <4>1, ShellAssumption, SubSeqFull
      <4> QED BY <1>2, <2>1, <3>2, <4>1, <4>2 DEF ReadSoFar
    <3> QED BY <3>1, <3>2
  <2>4. Soon'[1] \o Rest' = ReadSoFar'
    BY <1>4, <1>5, <2>2, <2>3, Empties
  <2> QED BY <1>4, <1>5, <2>1, <2>4 DEF ShowInv, Dumped, InLine
<1> QED BY <1>6, <1>7

(* After the dump the line is clean.                                       *)
LEMMA ShowClose ==
  ASSUME SerialInv, ShowInv, DumpClose PROVE ShowInv'
<1>1. /\ cli = "close" /\ Idling /\ cli' \in {"prompt", "close"}
      /\ UNCHANGED <<tdr, screen, column, out, io, fd, path>>
  BY DEF DumpClose, CloseTest, Closing, TakeSem, CloseClear, GiveSem, serialVars, lineVars,
         ioVars, terminalVars
<1>2. Soon' = Soon /\ Rest' = Rest /\ Rest = <<>>
  BY <1>1, LineStays DEF Rest, Idling
<1>3. Soon[2] = Len(Soon[1]) /\ Soon[1] = ReadSoFar /\ Soon[1] \in Seq(Byte) /\ Clean(Soon)
  BY <1>1, <1>2, AllShown DEF ShowInv
<1>4. CASE cli' = "prompt"
  <2>1. Final(Soon', Rest') = Soon /\ Len(Rest') <= 3
    BY <1>2, FinalOf, Empties, Lengths
  <2> QED BY <1>3, <1>4, <2>1 DEF ShowInv, InLine
<1>5. CASE cli' = "close"
  <2>1. ReadSoFar' = ReadSoFar
    BY <1>1, <1>5 DEF ReadSoFar
  <2>2. Soon[1] \o Rest = Soon[1]
    BY <1>2, <1>3, Empties
  <2> QED BY <1>2, <1>3, <1>5, <2>1, <2>2 DEF ShowInv, Dumped, InLine
<1> QED BY <1>1, <1>4, <1>5

(* The bytes before the last do not change.                                *)
LEMMA PrefixKept ==
  ASSUME LineInv, i < Count, NEW b, buf' = [buf EXCEPT ![i] = b]
  PROVE  Prefix(buf', i, buf) /\ buf'[i] = b
<1>1. DOMAIN buf = 0 .. Count /\ i \in Nat /\ Count \in Nat
  BY ShellAssumption DEF LineInv
<1>2. i \in 0 .. Count /\ \A k \in 0 .. i - 1 : k # i
  BY <1>1
<1> QED BY <1>1, <1>2 DEF Prefix

(* What is behind the line in the buffer is not shown.                     *)
LEMMA TypedSame ==
  ASSUME NEW d, NEW n, NEW line, NEW longer, TypedAt(d, n, line), Prefix(longer, n, line)
  PROVE  TypedAt(d, n, longer)
BY DEF TypedAt, Prefix

(* What rubbing out shows.                                                 *)
LEMMA RubOutShown ==
  ASSUME NEW d PROVE Final(d, <<"BS", " ", "BS">>) = After(After(After(d, "BS"), " "), "BS")
<1>1. PICK a, b : a = "BS" /\ b = " "
  OBVIOUS
<1>2. Final(d, <<a, b, a>>) = After(After(After(d, a), b), a)
  BY DEF Final
<1> QED BY <1>1, <1>2

(* What is received is kept and sent alike.                                *)
LEMMA ShowReceived ==
  ASSUME Legible, SerialInv, OutInv, LineInv, ShowInv, ReceiveByte PROVE ShowInv'
<1>1. /\ io = "rxwait" /\ cli \in InLine /\ Receive /\ UNCHANGED <<tdr, screen, column>>
      /\ io' = (IF out' = <<>> THEN "done" ELSE "send") /\ out = <<>>
  BY DEF ReceiveByte, Receive, OutInv, Receiving, Sending, terminalVars
<1>2. Soon' = Soon /\ Rest = <<>> /\ Rest' = out'
  BY <1>1 DEF Soon, Rest
<1>3. Received \in Key /\ Received \in Byte
  BY <1>1, SerialReceive, Bytes
<1>4. TypedAt(Soon, i, buf) /\ i \in Nat /\ i < Count
  BY <1>1, <1>2, FinalOf DEF ShowInv, Typed, LineInv
<1>5. ASSUME cli' \in InLine, Len(Rest') <= 3, TypedAt(Final(Soon, Rest'), i', buf') PROVE ShowInv'
  BY <1>2, <1>5 DEF ShowInv, Typed, InLine
<1>6. ASSUME out' = <<>>, i' = i, cli' \in InLine,
             buf' = buf \/ buf' = [buf EXCEPT ![i] = Received]
      PROVE  ShowInv'
  <2>1. TypedAt(Soon, i, buf')
    BY <1>4, <1>6, PrefixKept, TypedSame
  <2>2. Len(Rest') <= 3 /\ Final(Soon, Rest') = Soon
    BY <1>2, <1>6, FinalOf, Empties, Lengths
  <2> QED BY <1>5, <1>6, <2>1, <2>2
<1>7. CASE EndOfLine
  BY <1>7 DEF EndOfLine, ShowInv, InLine
<1>8. CASE Escape
  BY <1>6, <1>8 DEF Escape, Store, Echo, InLine
<1>9. CASE SkipByte
  BY <1>6, <1>9 DEF SkipByte, Echo, InLine
<1>10. CASE Backspace
  <2>1. cli' \in InLine /\ buf' = [buf EXCEPT ![i] = "DEL"]
    BY <1>10 DEF Backspace, Store, InLine
  <2>2. CASE i > 0
    <3>1. out' = <<"BS", " ", "BS">> /\ i' = i - 1
      BY <1>10, <2>2 DEF Backspace, Echo
    <3>2. TypedAt(After(After(After(Soon, "BS"), " "), "BS"), i - 1, buf')
      BY <1>4, <2>1, <2>2, PrefixKept, RubbedOut
    <3>3. /\ Final(Soon, Rest') = After(After(After(Soon, "BS"), " "), "BS")
          /\ Len(Rest') <= 3
      <4>1. Rest' = <<"BS", " ", "BS">>
        BY <1>2, <3>1
      <4>2. Len(<<"BS", " ", "BS">>) <= 3
        BY Lengths
      <4>3. Final(Soon, <<"BS", " ", "BS">>) = After(After(After(Soon, "BS"), " "), "BS")
        BY RubOutShown
      <4> QED BY <4>1, <4>2, <4>3
    <3> QED BY <1>5, <2>1, <3>1, <3>2, <3>3
  <2>3. CASE ~(i > 0)
    BY <1>6, <1>10, <2>1, <2>3 DEF Backspace, Echo, Store
  <2> QED BY <2>2, <2>3
<1>11. CASE Character
  <2>1. /\ cli' \in InLine /\ buf' = [buf EXCEPT ![i] = Received] /\ out' = <<Received>>
        /\ i' = i + 1
    BY <1>11 DEF Character, Store, Echo, InLine
  <2>2. Received \notin {"NUL", "NL", "BS"}
    BY <1>3 DEF Legible
  <2>3. TypedAt(After(Soon, Received), i + 1, buf')
    BY <1>3, <1>4, <2>1, <2>2, PrefixKept, CharacterShown
  <2>4. Final(Soon, Rest') = After(Soon, Received) /\ Len(Rest') <= 3
    BY <1>2, <2>1, FinalOf, Lengths
  <2> QED BY <1>5, <2>1, <2>3, <2>4
<1> QED BY <1>7, <1>8, <1>9, <1>10, <1>11 DEF ReceiveByte

-----------------------------------------------------------------------------
(* Every step leaves on the terminal what is to be there.                  *)
LEMMA ShowNext ==
  ASSUME Legible, LineTyped, ShowInv, ShellNext PROVE ShowInv'
<1>0. FioInv /\ Wired /\ SerialInv /\ OutInv /\ LineInv /\ DumpInv /\ ShowInv
  BY DEF LineTyped
<1>1. CASE Environment
  <2>1. UNCHANGED <<cli, i, buf, out, io, fd, path, romfs_fds>>
    BY <1>1 DEF Environment, fioVars, cliVars, Transmit, Type, ioVars
  <2>2. Rest' = Rest /\ ReadSoFar' = ReadSoFar
    BY <2>1, ReadKept DEF Rest
  <2>3. CASE Transmit
    <3>1. Soon' = Soon
      BY <2>3, ShowIsAfter DEF Transmit, Soon
    <3> QED BY <1>0, <2>1, <2>2, <3>1, ShowKept
  <2>4. CASE \E key \in Key : Type(key)
    <3>1. Soon' = Soon
      BY <2>4 DEF Type, Soon
    <3> QED BY <1>0, <2>1, <2>2, <3>1, ShowKept
  <2> QED BY <1>1, <2>3, <2>4 DEF Environment
<1>2. CASE Interrupt
  <2>1. UNCHANGED <<cli, i, buf, out, io, fd, path, romfs_fds, tdr, screen, column>>
    BY <1>2 DEF Interrupt, fioVars, cliVars, TransmitInterrupt, ReceiveInterrupt, OtherInterrupt, Spin,
                serialVars, lineVars, ioVars, terminalVars
  <2> QED BY <1>0, <2>1, LineStays, ReadKept, ShowKept
<1>3. CASE Output
  <2>1. UNCHANGED <<cli, i, buf, fd, path, romfs_fds>> /\ ReadSoFar' = ReadSoFar
    BY <1>3, ReadKept DEF Output, fioVars
  <2>2. CASE (SendWait \/ SendLoad) /\ UNCHANGED out
    <3>1. /\ UNCHANGED <<tdr, screen, column, out>>
          /\ io' \in {"load", "store"} <=> io \in {"load", "store"}
      BY <2>2 DEF SendWait, SendLoad, LoadCR1, lineVars, terminalVars
    <3> QED BY <1>0, <2>1, <3>1, LineStays, ShowKept
  <2>3. CASE SendData(Head(out)) /\ UNCHANGED out
    BY <1>0, <1>3, <2>3, ShowSend
  <2>4. CASE SendEnable(IF Len(out) = 1 THEN "done" ELSE "send") /\ out' = Tail(out)
    <3>1. /\ UNCHANGED <<tdr, screen, column>> /\ io = "store" /\ io' \in {"done", "send"}
          /\ out' = Tail(out)
      BY <2>4 DEF SendEnable, StoreCR1, terminalVars
    <3>2. Soon' = Soon /\ Rest' = Rest
      BY <3>1 DEF Soon, Rest
    <3> QED BY <1>0, <2>1, <3>2, ShowKept
  <2> QED BY <1>3, <2>2, <2>3, <2>4 DEF Output
<1>4. CASE Prompt
  BY <1>0, <1>4, ShowPrompt
<1>5. CASE ReadNext
  <2>1. /\ UNCHANGED <<i, buf, fd, path, romfs_fds, tdr, screen, column, out>>
        /\ io = "done" /\ io' \in {"done", "receive"} /\ cli' \in {cli, "command"}
    BY <1>5 DEF ReadNext, Idling, fioVars, lineVars, terminalVars
  <2>2. Soon' = Soon /\ Rest' = Rest
    BY <2>1, LineStays
  <2>3. CASE cli' = cli
    BY <1>0, <2>1, <2>2, <2>3, ReadKept, ShowKept
  <2>4. CASE cli' = "command"
    BY <2>4 DEF ShowInv, InLine
  <2> QED BY <2>1, <2>3, <2>4
<1>6. CASE Reading
  <2>1. /\ UNCHANGED <<cli, i, buf, fd, path, romfs_fds, tdr, screen, column, out>>
        /\ io' \in {"rxstore", "rxwait"} /\ io \in {"receive", "rxstore"}
    BY <1>6 DEF Reading, ReceiveLoad, ReceiveEnable, LoadCR1, StoreCR1, fioVars, cliVars, lineVars,
                terminalVars
  <2> QED BY <1>0, <2>1, LineStays, ReadKept, ShowKept
<1>7. CASE ReceiveByte
  BY <1>0, <1>7, ShowReceived
<1>8. CASE NotFound
  BY <1>0, <1>8, StandardWrites, ShowMessage DEF NotFound
<1>9. CASE DumpOpen \/ Open
  <2>1. cli' = "open"
    BY <1>9 DEF DumpOpen, Open, cliVars
  <2> QED BY <2>1 DEF ShowInv, InLine
<1>10. CASE DumpOpened
  BY <1>0, <1>10, ShowOpened
<1>11. CASE DumpRead
  BY <1>0, <1>11, ShowRead
<1>12. CASE DumpClose
  BY <1>0, <1>12, ShowClose
<1>13. CASE \E c \in Client \ {CLI} : FioMove(c) /\ Other(c)
  <2>1. PICK c \in Client \ {CLI} : FioMove(c) /\ Other(c)
    BY <1>13
  <2>2. UNCHANGED <<cli, i, buf, tdr, screen, column, out, io>>
    BY <2>1 DEF Other, serialVars, cliVars, lineVars, ioVars, terminalVars
  <2>3. /\ at'[CLI] = at[CLI] /\ fd'[CLI] = fd[CLI] /\ path'[CLI] = path[CLI]
        /\ Claims(CLI) => romfs_fds'[fd[CLI]] = romfs_fds[fd[CLI]]
    BY <1>0, <2>1, OthersKeep, ShellAssumption
  <2>4. cli = "dump" /\ ~(fd[CLI] < 0) => Claims(CLI)
    <3>1. fd[CLI] \in Int
      BY <1>0, ShellAssumption DEF FioInv, FioTypeOK
    <3> QED BY <1>0, <3>1 DEF DumpInv, Claims
  <2>5. ReadSoFar' = ReadSoFar
    BY <2>2, <2>3, <2>4 DEF ReadSoFar
  <2> QED BY <1>0, <2>2, <2>5, LineStays, ShowKept
<1>14. CASE UNCHANGED fioVars /\ \E c \in Client \ {CLI} : Other(c)
  <2>1. UNCHANGED <<cli, i, buf, tdr, screen, column, out, io, fd, path, romfs_fds>>
    BY <1>14 DEF Other, serialVars, cliVars, lineVars, ioVars, terminalVars, fioVars
  <2> QED BY <1>0, <2>1, LineStays, ReadKept, ShowKept
<1>15. (\E c \in Client \ {CLI} : Other(c)) =>
           \/ \E c \in Client \ {CLI} : FioMove(c) /\ Other(c)
           \/ UNCHANGED fioVars
           \/ DumpOpen \/ Open \/ DumpRead \/ DumpClose
  BY ShellMoves
<1> QED BY <1>1, <1>2, <1>3, <1>4, <1>5, <1>6, <1>7, <1>8, <1>9, <1>10, <1>11, <1>12, <1>13, <1>14,
           <1>15 DEF ShellNext, CLIStep

-----------------------------------------------------------------------------
(***************************************************************************)
(* The theorems.                                                           *)
(***************************************************************************)

(* The beginning, and every step.                                          *)
LEMMA LineTypedInitially == ShellInit => LineTyped
<1> SUFFICES ASSUME ShellInit PROVE LineTyped
  OBVIOUS
<1>1. FioInv
  BY FioInitially, FioAssumption DEF ShellInit
<1>2. Wired
  <2>1. fio_fds = [f \in Fd |-> IF f \in Std THEN StdDescriptor(f) ELSE Closed]
        /\ fd = [c \in Client |-> -1] /\ Std \subseteq Fd
    BY FioAssumption DEF ShellInit, FioInit, Std, Fd
  <2>2. \A c \in Client : ~Holds(c)
    BY <2>1 DEF Holds, Claims
  <2> QED BY <2>1, <2>2 DEF Wired
<1>3. SerialInv
  <2>1. <<screen, column>> = <<<<>>, 0>> /\ 0 \in Nat /\ 0 <= Len(<<>>) /\ <<>> \in Seq(Byte)
    BY Empties DEF ShellInit, SerialInit
  <2>2. <<screen, column>> \in Display
    BY <2>1, PairsDisplay
  <2>3. <<>> \in Seq(Key) /\ Len(<<>>) <= 1
    BY EmptySeq
  <2> QED BY <2>2, <2>3 DEF ShellInit, SerialInit, SerialInv
<1>4. OutInv
  BY Empties DEF ShellInit, SerialInit, OutInv, Sending, Receiving, CliSteps, InLine
<1>5. LineInv
  BY DEF ShellInit, LineInv, LineEnds, InLine
<1>6. DumpInv
  BY DEF ShellInit, DumpInv
<1> QED BY <1>1, <1>2, <1>3, <1>4, <1>5, <1>6 DEF LineTyped

LEMMA ShowInitially == ShellInit => ShowInv
<1> SUFFICES ASSUME ShellInit PROVE ShowInv
  OBVIOUS
<1>1. cli = "prompt" /\ Soon = <<<<>>, 0>> /\ Rest = <<>>
  BY DEF ShellInit, SerialInit, Soon, Rest
<1>2. Clean(<<<<>>, 0>>) /\ Final(Soon, Rest) = <<<<>>, 0>> /\ Len(Rest) <= 3
  BY <1>1, CleanAfterNewline, FinalOf, Empties, Lengths
<1> QED BY <1>1, <1>2 DEF ShowInv, InLine

LEMMA LineTypedStep == ASSUME LineTyped, [ShellNext]_shellVars PROVE LineTyped'
<1>1. CASE ShellNext
  BY <1>1, FioNextKept, SerialNext, OutNext, LineNext, DumpNext DEF LineTyped
<1>2. CASE UNCHANGED shellVars
  <2>1. UNCHANGED fioVars /\ UNCHANGED serialVars /\ UNCHANGED cliVars
    BY <1>2 DEF shellVars
  <2>2. FioInv'
    BY <2>1, Stutter DEF LineTyped
  <2>3. Wired'
    BY <2>1 DEF LineTyped, Wired, Holds, Claims, fioVars
  <2>4. SerialInv'
    BY <2>1 DEF LineTyped, SerialInv, serialVars, lineVars, ioVars, terminalVars
  <2>5. OutInv'
    BY <2>1 DEF LineTyped, OutInv, serialVars, ioVars, cliVars
  <2>6. LineInv'
    BY <2>1 DEF LineTyped, LineInv, LineEnds, Fits, serialVars, lineVars, cliVars
  <2>7. DumpInv'
    BY <2>1 DEF LineTyped, DumpInv, fioVars, cliVars
  <2> QED BY <2>2, <2>3, <2>4, <2>5, <2>6, <2>7 DEF LineTyped
<1> QED BY <1>1, <1>2

LEMMA ShowStep == ASSUME Legible, LineTyped, ShowInv, [ShellNext]_shellVars PROVE ShowInv'
<1>1. CASE ShellNext
  BY <1>1, ShowNext
<1>2. CASE UNCHANGED shellVars
  <2>1. UNCHANGED <<cli, i, buf, tdr, screen, column, out, io, fd, path, romfs_fds>>
    BY <1>2 DEF shellVars, serialVars, cliVars, lineVars, ioVars, terminalVars, fioVars
  <2> QED BY <2>1, LineStays, ReadKept, ShowKept
<1> QED BY <1>1, <1>2

(* The inductive invariant of the shell, whatever characters are typed.    *)
THEOREM LineIsTyped == ShellSpec => []LineTyped
BY LineTypedInitially, LineTypedStep, PTL DEF ShellSpec

(* What parse_command gets ends with a zero byte that was just put there   *)
(* (fio.c:23-30, main.c:97-99), when the line fits the buffer.             *)
THEOREM LinesEnd == ShellSpec => []LineEnds
<1>1. LineTyped => LineEnds
  BY DEF LineTyped, LineInv
<1> QED BY <1>1, LineIsTyped, PTL

(* Among any other tasks the shell uses its own descriptors, and loses none*)
(* (fio.c:117-133, 180-193).                                               *)
THEOREM ShellDescriptors == ShellSpec => [](OwnDescriptors /\ NoneLeaked /\ CursorInFile)
<1>1. LineTyped => OwnDescriptors /\ NoneLeaked /\ CursorInFile
  BY FioAssumption, InvDescriptors DEF LineTyped
<1> QED BY <1>1, LineIsTyped, PTL

(* What is shown, when it shows every byte as a character.                 *)
THEOREM ShowsIsSent == ASSUME Legible PROVE ShellSpec => []ShowInv
BY LineIsTyped, ShowInitially, ShowStep, PTL DEF ShellSpec

(* While the shell waits for a key the terminal shows after the prompt the *)
(* line that is in the buffer, and nothing behind (fio.c:23-57, main.c:66-79).*)
THEOREM EchoIsLine == Legible => (ShellSpec => []EchoShowsLine)
<1> SUFFICES ASSUME Legible PROVE ShellSpec => []EchoShowsLine
  OBVIOUS
<1>1. LineTyped /\ ShowInv => EchoShowsLine
  <2> SUFFICES ASSUME LineTyped, ShowInv, cli \in InLine, io = "rxwait", tdr = None
               PROVE  /\ i < column /\ screen[column - i] = "$"
                      /\ \A k \in 0 .. i - 1 : screen[column - i + 1 + k] = buf[k]
                      /\ Blank(SubSeq(screen, column + 1, Len(screen)))
    BY DEF EchoShowsLine, InLine
  <2>1. out = <<>> /\ i \in Nat
    BY DEF LineTyped, OutInv, LineInv, Sending
  <2>2. Rest = <<>> /\ Soon = <<screen, column>>
    BY <2>1 DEF Rest, Soon
  <2>3. TypedAt(<<screen, column>>, i, buf)
    BY <2>2, FinalOf DEF ShowInv, Typed
  <2>4. screen \in Seq(Byte) /\ column \in Nat /\ column <= Len(screen)
    BY DEF LineTyped, SerialInv, Display
  <2>5. LineAt(screen, Len(screen), column, i, buf)
    BY <2>1, <2>3, <2>4, TypedPair
  <2>6. Blank(SubSeq(screen, column + 1, Len(screen)))
    <3>1. PICK s \in Seq(Byte), l \in Nat : s = screen /\ l = Len(screen)
      BY <2>4, EmptyHasNone
    <3>2. \A k \in column + 1 .. l : s[k] = " "
      BY <2>5, <3>1 DEF LineAt
    <3>3. column + 1 \in Int /\ l \in Int
      BY <2>4
    <3>4. \A k \in column + 1 .. l : s[k] \in {" "}
      BY <3>2
    <3>5. SubSeq(s, column + 1, l) \in Seq({" "})
      BY <3>3, <3>4, SubSeqProperties
    <3>6. \A t \in Seq({" "}) : \A k \in 1 .. Len(t) : t[k] \in {" "}
      BY ElementOfSeq
    <3>7. \A k \in 1 .. Len(SubSeq(s, column + 1, l)) : SubSeq(s, column + 1, l)[k] = " "
      BY <3>5, <3>6
    <3> QED BY <3>1, <3>7 DEF Blank
  <2> QED BY <2>5, <2>6 DEF LineAt
<1> QED BY <1>1, LineIsTyped, ShowsIsSent, PTL

(* A file that was dumped is on the terminal, every byte once and in order *)
(* (shell.c:70-86), whatever other tasks do with files meanwhile.          *)
THEOREM DumpIsFile == Legible => (ShellSpec => []DumpShowsFile)
<1> SUFFICES ASSUME Legible PROVE ShellSpec => []DumpShowsFile
  OBVIOUS
<1>1. LineTyped /\ ShowInv => DumpShowsFile
  <2> SUFFICES ASSUME LineTyped, ShowInv, cli = "close", fd[CLI] >= 0, tdr = None
               PROVE  screen = Content[path[CLI]]
    BY DEF DumpShowsFile
  <2>1. out = <<>> /\ SerialInv /\ fd[CLI] \in Int
    BY ShellAssumption DEF LineTyped, OutInv, FioInv, FioTypeOK
  <2>2. Rest = <<>> /\ Soon = <<screen, column>>
    BY <2>1 DEF Rest, Soon
  <2>3. Soon[1] = ReadSoFar
    BY <2>1, <2>2, AllShown DEF ShowInv
  <2>4. Soon[1] = screen
    BY <2>2
  <2> QED BY <2>1, <2>3, <2>4 DEF ReadSoFar
<1> QED BY <1>1, LineIsTyped, ShowsIsSent, PTL
=============================================================================

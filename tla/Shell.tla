------------------------------- MODULE Shell -------------------------------
(***************************************************************************)
(* The task of the shell (command_prompt, stdin_read and filedump) on the  *)
(* serial line of Serial and the files of Fio, with other tasks that use   *)
(* files.  The shell of the repository runs without such others; fio_sem   *)
(* is there for them.                                                      *)
(*                                                                         *)
(* A command is cat or man of a path, or not one of the shell: which, is a *)
(* function of the line.  A message is one byte of its own.                *)
(***************************************************************************)
EXTENDS Fio, Serial

CONSTANTS
  CLI,        \* the task of command_prompt
  Dumps,      \* the path each line that names a file asks for
  Content,    \* the bytes of each file
  Count,      \* how many bytes fio_read is asked for: 127
  BufSize     \* sizeof(buf) of filedump: 128

FileByte == UNION {{Content[f][k] : k \in 1 .. Size[f]} : f \in File}

ASSUME ShellAssumption ==
  /\ CLI \in Client
  /\ Count \in Nat /\ Count > 1 /\ BufSize \in Nat \ {0}
  /\ \A f \in File : Content[f] \in Seq(FileByte) /\ Size[f] = Len(Content[f])
  /\ \A line \in DOMAIN Dumps : Dumps[line] \in Path
  /\ None \notin FileByte

VARIABLES
  cli,        \* where command_prompt is
  out,        \* the bytes it is sending
  buf,
  i,
  last_chr_is_esc

cliVars == <<cli, out, buf, i, last_chr_is_esc>>
shellVars == <<fioVars, serialVars, cliVars>>

EditingKey == {"CR", "ESC", "[", "DEL"}
Idling == TasksRun /\ io = "done" /\ out = <<>>

-----------------------------------------------------------------------------
(* Output begins: send_byte for each of the bytes.                         *)
Send(bytes) ==
  /\ out' = bytes
  /\ io' = IF bytes = <<>> THEN "done" ELSE "send"
  /\ UNCHANGED <<lineVars, loaded, terminalVars>>

(* fio_write, and fio_printf of a message                                  *)
Written(f, bytes) == IF IsOpen(f) /\ fio_fds[f].fdwrite # NULL THEN bytes ELSE <<>>

Output ==
  /\ out # <<>>
  /\ \/ SendWait /\ UNCHANGED out
     \/ SendData(Head(out)) /\ UNCHANGED out
     \/ SendLoad /\ UNCHANGED out
     \/ SendEnable(IF Len(out) = 1 THEN "done" ELSE "send") /\ out' = Tail(out)
  /\ UNCHANGED <<fioVars, cli, buf, i, last_chr_is_esc>>

-----------------------------------------------------------------------------
(* stdin_read.  last_chr_is_esc is not initialised.                        *)

Prompt ==
  /\ cli = "prompt" /\ Idling
  /\ Send(Written(1, <<"$">>))
  /\ cli' = "line"
  /\ i' = 0
  /\ last_chr_is_esc' \in BOOLEAN
  /\ UNCHANGED <<fioVars, buf>>

(* Mutant: one byte too few.                                               *)
RoomInLineButOne == i + 1 < Count
RoomInLine == i < Count

ReadNext ==
  /\ cli \in {"line", "sequence", "end"} /\ Idling
  /\ IF cli = "line" /\ ~RoomInLine
     THEN cli' = "command" /\ UNCHANGED io
     ELSE io' = "receive" /\ UNCHANGED cli
  /\ UNCHANGED <<fioVars, lineVars, loaded, terminalVars, out, buf, i, last_chr_is_esc>>

Reading ==
  /\ ReceiveLoad \/ ReceiveEnable
  /\ UNCHANGED <<fioVars, cliVars>>

(* Sent to the terminal for what was read, once it is in the buffer        *)
Echo(bytes) == out' = bytes

Received == Head(serial_rx_queue)

Store(byte) == buf' = [buf EXCEPT ![i] = byte]

EndOfLine ==
  /\ cli = "line" /\ Received = "CR"
  /\ Store("NUL") /\ Echo(<<"NUL">>)
  /\ i' = i + 1
  /\ cli' = "command"
  /\ UNCHANGED last_chr_is_esc

(* ESC [ and what follows are skipped; a [ alone counts as ESC.  "low" is  *)
(* a byte from 1 to 6.                                                     *)
Escape ==
  /\ cli = "line" /\ Received \in {"ESC", "["}
  /\ Store(Received) /\ Echo(<<>>)
  /\ IF Received = "[" /\ last_chr_is_esc
     THEN last_chr_is_esc' = FALSE /\ cli' = "sequence"
     ELSE last_chr_is_esc' = TRUE /\ UNCHANGED cli
  /\ UNCHANGED i

SkipByte ==
  /\ cli \in {"sequence", "end"}
  /\ cli' = IF cli = "sequence" /\ Received = "low" THEN "end" ELSE "line"
  /\ Echo(<<>>)
  /\ UNCHANGED <<buf, i, last_chr_is_esc>>

Backspace ==
  /\ cli = "line" /\ Received = "DEL"
  /\ Store("DEL")
  /\ IF i > 0 THEN Echo(<<"BS", " ", "BS">>) /\ i' = i - 1
              ELSE Echo(<<>>) /\ UNCHANGED i
  /\ last_chr_is_esc' = FALSE
  /\ UNCHANGED cli

Character ==
  /\ cli = "line" /\ Received \notin {"CR", "ESC", "[", "DEL"}
  /\ Store(Received) /\ Echo(<<Received>>)
  /\ i' = i + 1
  /\ last_chr_is_esc' = FALSE
  /\ UNCHANGED cli

ReceiveByte ==
  /\ Receive
  /\ EndOfLine \/ Escape \/ SkipByte \/ Backspace \/ Character
  /\ io' = IF out' = <<>> THEN "done" ELSE "send"
  /\ UNCHANGED fioVars

-----------------------------------------------------------------------------
(* The command: parse_command and do_command look at the bytes before the  *)
(* first that is zero.                                                     *)
Line ==
  LET length == CHOOSE n \in 0 .. Count :
                  /\ n = Count \/ buf[n] = "NUL"
                  /\ \A k \in 0 .. n - 1 : buf[k] # "NUL"
  IN [k \in 1 .. length |-> buf[k - 1]]

NotFound ==
  /\ cli = "command" /\ Idling
  /\ Line \notin DOMAIN Dumps
  /\ Send(Written(2, <<"NL", "?", "NL">>))
  /\ cli' = "prompt"
  /\ UNCHANGED <<fioVars, buf, i, last_chr_is_esc>>

DumpOpen ==
  /\ cli = "command" /\ Idling
  /\ Line \in DOMAIN Dumps
  /\ FsOpen(CLI, Dumps[Line])
  /\ cli' = "open"
  /\ UNCHANGED <<serialVars, out, buf, i, last_chr_is_esc>>

DumpOpened ==
  /\ cli = "open" /\ Idling /\ at[CLI] = "opened"
  /\ IF fd[CLI] = -1
     THEN Send(Written(2, <<"NL", "?", "NL">>)) /\ cli' = "prompt"
     ELSE Send(Written(1, <<"NL">>)) /\ cli' = "dump"
  /\ UNCHANGED <<fioVars, buf, i, last_chr_is_esc>>

BytesRead(f, n) == SubSeq(Content[Entry(f).file], Entry(f).cursor + 1, Entry(f).cursor + n)

DumpRead ==
  LET n == CountRead(fd[CLI], BufSize)
  IN /\ cli = "dump" /\ Idling
     /\ FioRead(CLI, BufSize)
     /\ Send(IF n > 0 THEN Written(1, BytesRead(fd[CLI], n)) ELSE <<>>)
     /\ cli' = IF n > 0 THEN "dump" ELSE "close"
     /\ UNCHANGED <<buf, i, last_chr_is_esc>>

DumpClose ==
  /\ cli = "close" /\ Idling
  /\ CloseTest(CLI) \/ Closing(CLI)
  /\ cli' = IF at'[CLI] = "idle" THEN "prompt" ELSE "close"
  /\ UNCHANGED <<serialVars, out, buf, i, last_chr_is_esc>>

Open == cli = "open" /\ Idling /\ Opening(CLI) /\ UNCHANGED <<serialVars, cliVars>>

-----------------------------------------------------------------------------
(* The line is not typed longer than fio_read asks for.                    *)
LineFits(key) == cli = "line" => i < Count - 1 \/ key \in EditingKey

Environment ==
  /\ Transmit \/ \E key \in Key : LineFits(key) /\ Type(key)
  /\ UNCHANGED <<fioVars, cliVars>>

Interrupt ==
  /\ TransmitInterrupt \/ ReceiveInterrupt \/ OtherInterrupt \/ Spin
  /\ UNCHANGED <<fioVars, cliVars>>

CLIStep ==
  \/ Output \/ Prompt \/ ReadNext \/ Reading \/ ReceiveByte
  \/ NotFound \/ DumpOpen \/ Open \/ DumpOpened \/ DumpRead \/ DumpClose

Other(c) == TasksRun /\ FioStep(c) /\ UNCHANGED <<serialVars, cliVars>>

ShellInit ==
  /\ FioInit /\ SerialInit
  /\ cli = "prompt" /\ out = <<>>
  /\ buf = [k \in 0 .. Count |-> "junk"] /\ i = 0 /\ last_chr_is_esc = FALSE

ShellNext ==
  \/ Environment \/ Interrupt \/ CLIStep
  \/ \E c \in Client \ {CLI} : Other(c)

(* The hardware sends, raises its interrupts, and every task gets its      *)
(* turn.  A task that waits for the mutex gets it: who gives it wakes the  *)
(* waiter and yields to it (tasks.c:1775).                                 *)
ShellSpec ==
  /\ ShellInit /\ [][ShellNext]_shellVars
  /\ WF_shellVars(Transmit /\ UNCHANGED <<fioVars, cliVars>>)
  /\ WF_shellVars(Interrupt)
  /\ SF_shellVars(CLIStep)
  /\ \A c \in Client \ {CLI} : WF_shellVars(Other(c))

-----------------------------------------------------------------------------
(* Whenever the shell waits for a key and the line is quiet, the terminal  *)
(* shows after the prompt exactly the bytes that are in the buffer, and    *)
(* blanks after the cursor (fio.c:23-57, main.c:66-79): no byte is lost in *)
(* the register, none shown that is not kept or kept that is not shown.    *)
EchoShowsLine ==
  cli \in {"line", "sequence", "end"} /\ io = "rxwait" /\ tdr = None =>
    /\ i < column /\ screen[column - i] = "$"
    /\ \A k \in 0 .. i - 1 : screen[column - i + 1 + k] = buf[k]
    /\ Blank(SubSeq(screen, column + 1, Len(screen)))

(* What parse_command gets ends with a zero byte that was just put there   *)
(* (fio.c:23-30, main.c:97-99), if the line fits the buffer.               *)
LineEnds == cli = "command" => i > 0 /\ buf[i - 1] = "NUL"

(* A file that was dumped is on the terminal, every byte once and in order *)
(* (shell.c:70-86), whatever other tasks do with files meanwhile.          *)
DumpShowsFile ==
  cli = "close" /\ fd[CLI] >= 0 /\ tdr = None => screen = Content[path[CLI]]

(* The shell comes back to wait for a key, whatever was typed              *)
(* (main.c:66-109), unless keys that came too fast froze the handler       *)
(* (main.c:50-59): nothing else stops it.                                  *)
Waiting ==
  /\ cli \in {"line", "sequence", "end"} /\ io = "rxwait"
  /\ serial_rx_queue = <<>> /\ rdr = None
Answers == []<>(Waiting \/ frozen)
=============================================================================

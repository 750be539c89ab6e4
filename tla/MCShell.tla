------------------------------ MODULE MCShell ------------------------------
(* The shell, and a task that opens, reads, seeks and closes files.           *)
EXTENDS Shell, TLC

CONSTANTS logger

MCClient == {CLI, logger}
MCContent == [f \in {"notes"} |-> <<"x", "y", "x">>]
MCSize == [f \in {"notes"} |-> 3]
MCDumps == (<<"a">> :> "notes") @@ (<<"low">> :> "gone") @@ (<<"a", "a">> :> "elsewhere")
MCOpens == [c \in Client |-> IF c = CLI THEN {"notes", "gone", "elsewhere"} ELSE {"notes"}]
=============================================================================

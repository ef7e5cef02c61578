------------------------------ MODULE LineEdit ------------------------------
(***************************************************************************)
(* What the shell's line buffer promises: a line to which characters are    *)
(* added, from which the last one is taken, and which is run as a command.  *)
(* A character that no longer fits starts the line anew.                    *)
(***************************************************************************)
EXTENDS Naturals, Sequences

CONSTANTS
    Chars,     \* the printable characters
    LINEMAX    \* characters a line can have

VARIABLES
    line,      \* the line so far
    ran        \* the commands that were run

Init == line = <<>> /\ ran = <<>>

Type(c) ==
    /\ line' = IF Len(line) = LINEMAX THEN <<c>> ELSE Append(line, c)
    /\ UNCHANGED ran

Backspace ==
    /\ line # <<>>
    /\ line' = SubSeq(line, 1, Len(line) - 1)
    /\ UNCHANGED ran

Enter ==
    /\ ran' = Append(ran, line)
    /\ line' = <<>>

Next == (\E c \in Chars : Type(c)) \/ Backspace \/ Enter

Spec == Init /\ [][Next]_<<line, ran>>
=============================================================================

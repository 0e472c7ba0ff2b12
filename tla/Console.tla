------------------------------ MODULE Console -------------------------------
(***************************************************************************)
(* The debug console, Arch/Shell.c and Arch/CmdLine.c, as operators on its  *)
(* state: how much of the word that switches the output was seen, the       *)
(* length of the line being typed, whether Printf prints and whether the    *)
(* stored OEM information says that it shall.  What a line spells is left   *)
(* open: a line that is not empty may run any command of the table, or none.*)
(***************************************************************************)
EXTENDS Integers, Sequences

CONSTANTS
    Bytes,      \* what a terminal sends; no NUL, which would end the mask it is copied into
    Zero,       \* the digit 0
    Paren,      \* the closing parenthesis, which ends a line
    Enter,      \* KEY_ENTER, which ends a line and is not part of it
    Low,        \* the bytes that come before 0 in ASCII
    Word,       \* "Printf:", the mask of Shell_String without its wildcard
    MaxLine     \* MAX_CMDLINE_LEN

ASSUME ConsoleAssumption ==
    /\ {Zero, Paren, Enter} \subseteq Bytes /\ Low \subseteq Bytes \ {Zero}
    /\ {Paren, Enter} \subseteq Low
    /\ Word \in Seq(Bytes) /\ MaxLine \in Nat \ {0}

MaskLen == Len(Word) + 1
Consoles == [index : 0..MaskLen, len : 0..MaxLine, on : BOOLEAN, stored : BOOLEAN]

\* The commands of g_CmdTable that touch the state of this model.
Commands == {"none", "SetPrintfFlag0", "SetPrintfFlag1", "VerifyPwd"}

Shell_Init(stored) == [index |-> 0, len |-> 0, on |-> stored, stored |-> stored]

\* One byte of str_GetFromStream: nIndex is static, so a word may come in
\* pieces, and after a match it stays past the end for one more byte.
Matched(k, b) ==
    IF k < Len(Word) THEN (IF b = Word[k + 1] THEN k + 1 ELSE 0)
    ELSE IF k = Len(Word) THEN k + 1
    ELSE 0

\* nIndex after each of the bytes, from that before the first.
Indices(k, data) ==
    LET ix[i \in 0..Len(data)] == IF i = 0 THEN k ELSE Matched(ix[i - 1], data[i])
    IN  ix

\* The positions at which the whole mask has been seen; the scan returns at
\* the first and drops the bytes behind it.
Hits(k, data) == {i \in 1..Len(data) : Indices(k, data)[i] = MaskLen}

\* Mutant: switching off is not stored.
SwitchedUnstored(c, b) ==
    IF b = Zero THEN [c EXCEPT !.on = FALSE]
    ELSE IF b \notin Low THEN [c EXCEPT !.on = TRUE, !.stored = TRUE]
    ELSE c
\* What a match does, by the byte in the place of the wildcard.
Switched(c, b) ==
    IF b = Zero THEN [c EXCEPT !.on = FALSE, !.stored = FALSE]
    ELSE IF b \notin Low THEN [c EXCEPT !.on = TRUE, !.stored = TRUE]
    ELSE c

\* Shell_String on the bytes USART_Read returned, not the typing.
Scanned(c, data) ==
    LET hits == Hits(c.index, data)
        at   == CHOOSE i \in hits : \A j \in hits : i <= j
    IN  IF hits = {} THEN [c EXCEPT !.index = Indices(c.index, data)[Len(data)]]
                     ELSE Switched([c EXCEPT !.index = MaskLen], data[at])

Typed(c, data) == Hits(c.index, data) = {} /\ c.on

\* Mutant: a line is cut one byte too late.
LineWithByteLate(c, b) ==
    LET room == IF c.len > MaxLine THEN 0 ELSE c.len
    IN  IF b = Enter THEN room ELSE room + 1

\* One byte of CmdLine_AddStrEx: how long the line is with it ...
LineWithByte(c, b) ==
    LET room == IF c.len >= MaxLine THEN 0 ELSE c.len
    IN  IF b = Enter THEN room ELSE room + 1

Ends(b) == b \in {Enter, Paren}

\* ... and what a command that it completes leaves.
Executed(c, cmd) ==
    IF cmd = "SetPrintfFlag0" THEN [c EXCEPT !.stored = FALSE]
    ELSE IF cmd = "SetPrintfFlag1" THEN [c EXCEPT !.stored = TRUE]
    ELSE c

CmdLine_AddByte(c, b, cmd) ==
    IF Ends(b) THEN [Executed(c, cmd) EXCEPT !.len = 0]
               ELSE [c EXCEPT !.len = LineWithByte(c, b)]
=============================================================================

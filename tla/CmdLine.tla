------------------------------ MODULE CmdLine ------------------------------
(***************************************************************************)
(* What Arch/CmdLine.c makes of a line that was typed: its name and its      *)
(* arguments, their values, and the command of the table that is called.  A  *)
(* text is a sequence of characters; a table is a sequence of titles, such   *)
(* as SetPwd(a, b), and the arguments a function gets come from its title.    *)
(***************************************************************************)
EXTENDS Integers, Sequences
LOCAL INSTANCE SequencesExt

CONSTANT MAX_ARG_COUNT    \* how many arguments there is room for

Quote      == "\""        \* a quotation mark
FnNameSeps == {" ", "(", "nl"}
ArgSeps    == {",", " ", ")", "nl"}
HexDigits  == <<"0", "1", "2", "3", "4", "5", "6", "7", "8", "9", "a", "b", "c", "d", "e", "f">>

\* The first position from i on that holds one of these, or the one after the end.
Before(text, i, seps) ==
    CHOOSE j \in i..(Len(text) + 1) :
        /\ j = Len(text) + 1 \/ text[j] \in seps
        /\ \A k \in i..(j - 1) : text[k] \notin seps

\* strtok until nothing is left: the stretches between separators.
Tokens(text, seps) ==
    LET starts == {i \in DOMAIN text : /\ text[i] \notin seps
                                       /\ i = 1 \/ text[i - 1] \in seps}
        first  == SetToSortSeq(starts, <)
    IN  [k \in DOMAIN first |-> SubSeq(text, first[k], Before(text, first[k], seps) - 1)]

\* The name ends at the first separator after it, which is dropped; one argument
\* too many is written behind the room for them before it is refused.
CmdLine_Parse(line) ==
    LET names == Tokens(line, FnNameSeps)
        first == CHOOSE i \in DOMAIN line : line[i] \notin FnNameSeps
                                            /\ \A j \in 1..(i - 1) : line[j] \in FnNameSeps
        args  == Tokens(SubSeq(line, Before(line, first, FnNameSeps) + 1, Len(line)), ArgSeps)
    IN  IF names = <<>> THEN [ok |-> FALSE, overrun |-> FALSE]
        ELSE IF Len(args) > MAX_ARG_COUNT THEN [ok |-> FALSE, overrun |-> TRUE]
        ELSE [ok |-> TRUE, overrun |-> FALSE, name |-> Head(names), args |-> args]

CmdLine_GetArgType(arg) ==
    IF arg[1] = Quote THEN IF arg[Len(arg)] = Quote THEN "str" ELSE "error"
    ELSE IF Len(arg) > 1 /\ arg[1] = "0" /\ arg[2] \in {"x", "X"} THEN "hex"
    ELSE "dec"

\* The number that digits of a base spell.
Spelled(digits, base) ==
    LET value[n \in 0..Len(digits)] ==
            IF n = 0 THEN 0
            ELSE value[n - 1] * base + (CHOOSE v \in 0..15 : HexDigits[v + 1] = digits[n])
    IN  value[Len(digits)]

\* The values of arguments; a quotation mark alone is taken for both of a text
\* and gives what follows it in the line.
CmdLine_htoi(arg) == Spelled(SubSeq(arg, 3, Len(arg)), 16)
Atoi(arg) ==
    Spelled(SubSeq(arg, 1, Before(arg, 1, {c \in Range(arg) : \A v \in 1..10 : HexDigits[v] # c}) - 1), 10)
Value(arg) ==
    CASE CmdLine_GetArgType(arg) = "hex" -> CmdLine_htoi(arg)
      [] CmdLine_GetArgType(arg) = "dec" -> Atoi(arg)
      [] OTHER -> IF Len(arg) = 1 THEN "what follows" ELSE SubSeq(arg, 2, Len(arg) - 1)

CmdLine_ArgConvert(args) ==
    IF \E i \in DOMAIN args : CmdLine_GetArgType(args[i]) = "error"
    THEN [ok |-> FALSE]
    ELSE [ok |-> TRUE, values |-> [i \in DOMAIN args |-> Value(args[i])]]

\* How many arguments a title asks for: -1 when its parenthesis is not closed.
\* The scan counts the first character that is no blank, and every comma.
CmdLine_GetArgCount(title) ==
    LET open  == Before(title, 1, {"("})
        close == Before(title, open + 1, {")"})
        count[i \in open..Len(title)] ==
            IF i = open THEN 0
            ELSE IF count[i - 1] = 0
                 THEN IF title[i] = " " THEN 0 ELSE IF title[i] = "," THEN 2 ELSE 1
            ELSE IF title[i] = "," THEN count[i - 1] + 1 ELSE count[i - 1]
    IN  IF open > Len(title) THEN 0
        ELSE IF close > Len(title) THEN -1
        ELSE count[close - 1]

\* The table with the counts its titles ask for.
CmdLine_Init(titles) ==
    [i \in DOMAIN titles |-> [title |-> titles[i], argCount |-> CmdLine_GetArgCount(titles[i])]]

\* The first command whose title begins with the name is called, with as many
\* arguments as its title asks for: those not given are 0, the others dropped.
CmdLine_Exe(table, name, values) ==
    LET found == {i \in DOMAIN table : IsPrefix(name, table[i].title)}
        entry == CHOOSE i \in found : \A j \in found : i <= j
        count == table[entry].argCount
    IN  IF name = <<"?">> THEN [does |-> "help"]
        ELSE IF found = {} \/ count \notin 0..MAX_ARG_COUNT THEN [does |-> "nothing"]
        ELSE [does |-> "call", entry |-> entry,
              args |-> [i \in 1..count |-> IF i <= Len(values) THEN values[i] ELSE 0]]

\* What is printed for ?: the titles of the table.
CmdLine_Help(table) == [i \in DOMAIN table |-> table[i].title]

\* What a whole line does.
LineDoes(table, line) ==
    LET parsed == CmdLine_Parse(line)
    IN  IF ~parsed.ok THEN [does |-> "nothing"]
        ELSE LET converted == CmdLine_ArgConvert(parsed.args)
             IN  IF ~converted.ok THEN [does |-> "nothing"]
                 ELSE CmdLine_Exe(table, parsed.name, converted.values)
=============================================================================

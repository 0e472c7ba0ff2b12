--------------------------- MODULE MCMessageLoop ----------------------------
\* Two places for messages, three interfaces, and a word of two letters that
\* is read at most two bytes at a time, so that it can be split anywhere.
EXTENDS MessageLoop, FiniteSets, SequencesExt

MCWord == <<"P", "r">>
MCBytes == {"P", "r", "0", ")", "cr"}
MCLow == {")", "cr"}

\* The command line with room for two arguments, on every line of up to four
\* characters.
C == INSTANCE CmdLine WITH MAX_ARG_COUNT <- 2

Alphabet == {"(", ")", ",", " ", "\"", "a", "1"}
Lines == UNION {[1..n -> Alphabet] : n \in 0..4}
Without(text, seps) == SelectSeq(text, LAMBDA c : c \notin seps)
Commas(text) == Cardinality({i \in DOMAIN text : text[i] = ","})

\* A table in which a longer name comes before a shorter one, a title with a
\* comma in a comment, and one that asks for too many arguments.
Titles == << <<"a", "1", "(", "x", ")">>, <<"a", "(", ")">>,
             <<"1", "(", "x", "/", "*", "1", ",", "2", "*", "/", ")">>,
             <<"(", ")">>, <<"\"", "(", "x", ",", "x", ",", "x", ")">> >>
Table == C!CmdLine_Init(Titles)

\* Splitting a line loses its separators and nothing else.
ASSUME TokensKeepTheRest ==
    \A line \in Lines : \A seps \in {C!FnNameSeps, C!ArgSeps} :
        LET tokens == C!Tokens(line, seps)
        IN  /\ \A k \in DOMAIN tokens : tokens[k] # <<>> /\ Without(tokens[k], seps) = tokens[k]
            /\ FlattenSeq(tokens) = Without(line, seps)

\* A title asks for one argument more than its parenthesis has commas, or for
\* none when the parenthesis is blank; what it says beyond does not count.
ASSUME TitlesCountCommas ==
    \A inner, rest \in Lines :
        Len(inner) + Len(rest) <= 4 /\ ")" \notin Range(inner) =>
            LET title == <<"x", "(">> \o inner \o <<")">> \o rest
            IN  C!CmdLine_GetArgCount(title) =
                    IF Without(inner, {" "}) = <<>> THEN 0 ELSE Commas(inner) + 1

\* A command gets exactly the arguments its title asks for, whatever is typed;
\* a comment's comma asks for one more, a title that asks for more than there is
\* room for is never called, nor is a name that a longer one before it begins with.
ASSUME CommandsGetTheirCount ==
    \A line \in Lines :
        LET done == C!LineDoes(Table, line)
        IN  done.does = "call" => /\ done.entry \notin {2, 5}
                                  /\ Len(done.args) = (CASE done.entry = 1 -> 1
                                                         [] done.entry = 3 -> 2
                                                         [] OTHER -> 0)

\* A line with more arguments than there is room for does nothing, and it alone
\* is written past the room; an argument whose quotation is not closed stops the
\* command too.
ASSUME RefusedLines ==
    \A line \in Lines :
        LET parsed == C!CmdLine_Parse(line)
        IN  /\ parsed.overrun => C!LineDoes(Table, line).does = "nothing"
            /\ parsed.ok /\ (\E i \in DOMAIN parsed.args : C!CmdLine_GetArgType(parsed.args[i]) = "error")
                    => C!LineDoes(Table, line).does = "nothing"

\* The arguments of a line reach the command in their order: numbers by value,
\* texts without their quotation marks, and 0 for what is missing.
ASSUME ArgumentsArrive ==
    /\ C!LineDoes(Table, <<"1", "(", "0", "x", "1", "f", ",", " ", "2", "0", "a", ")">>)
            = [does |-> "call", entry |-> 3, args |-> <<31, 20>>]
    /\ C!LineDoes(Table, <<"1", " ", "\"", "a", "\"">>)
            = [does |-> "call", entry |-> 3, args |-> << <<"a">>, 0>>]
    /\ C!LineDoes(Table, <<"?">>) = [does |-> "help"]
    /\ C!CmdLine_Help(Table) = Titles

\* The string conversions.
S == INSTANCE Str

\* Bytes written as digits are read back by htoi, with 0x in front or without,
\* and are what str_ConvertToHexStr leaves alone.
ASSUME DigitsAreReadBack ==
    \A high, low \in {0, 9, 10, 15, 16, 159, 160, 255} :
        LET digits == S!str_i2Asiic(<<high, low>>)
        IN  /\ S!htoi(digits) = high * 256 + low /\ S!htoi(<<48, 120>> \o digits) = S!htoi(digits)
            /\ S!str_ConvertToHexStr(digits) = digits

\* str_ConvertToHexStr leaves digits only, and a small one its value.
ASSUME HexStringsAreDigits ==
    \A c \in 0..255 :
        LET digit == S!HexDigit(c)
        IN  /\ digit \in (48..57) \cup (65..70)
            /\ c \in 97..102 => S!htoi(<<c>>) = S!htoi(<<digit>>)

\* A unicode text fits a buffer of an even size of four or more and loses only
\* what there is no room for; in one of an odd size it may end behind the end.
ASSUME UnicodeFits ==
    \A len \in 0..6, size \in 4..12 :
        LET text    == [i \in 1..len |-> 96 + i]
            unicode == S!str_ConvertToUnicod(text, size)
        IN  /\ size % 2 = 0 => Len(unicode) <= size
            /\ size % 2 = 1 => (Len(unicode) > size) = (2 * len + 2 > size)
            /\ 2 * len + 2 <= size => Len(unicode) = 2 * len + 2
            /\ \A i \in 1..(Len(unicode) \div 2 - 1) : unicode[2 * i - 1] = text[i]

\* str_add appends the whole text or nothing, but does not return its length.
ASSUME AddedWholeOrNot ==
    \A len, more \in 0..3, size \in 1..8 :
        LET added == S!str_add([i \in 1..len |-> 65], size, [i \in 1..more |-> 66])
        IN  /\ Len(added.str) \in {len, len + more}
            /\ len < size => Len(added.str) < size
            /\ added.returns = Len(added.str) => (more = 0 \/ added.str = <<>>)
=============================================================================

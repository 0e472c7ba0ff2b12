-------------------------------- MODULE Str --------------------------------
(***************************************************************************)
(* The conversions of Arch/Str.c.  A string is a sequence of ASCII codes,     *)
(* without its terminator.                                                  *)
(***************************************************************************)
EXTENDS Integers, Sequences

CODE_0 == 48
CODE_9 == 57
CODE_A == 65
CODE_F == 70
LowerToUpper == 32

\* What a hexadecimal digit adds to a number.
Nibble(c) == IF c <= CODE_9 THEN c % 16 ELSE (c % 16) + 9

\* The value of hexadecimal digits, with or without 0x in front.
htoi(s) ==
    LET zero   == s # <<>> /\ Head(s) = CODE_0
        prefix == zero /\ Len(s) > 1 /\ s[2] \in {88, 120}
        digits == IF prefix THEN SubSeq(s, 3, Len(s)) ELSE IF zero THEN Tail(s) ELSE s
        value[n \in 0..Len(digits)] ==
            IF n = 0 THEN 0 ELSE value[n - 1] * 16 + Nibble(digits[n])
    IN  value[Len(digits)]

CONVERT_ASIIC(x) == IF x <= 9 THEN x + CODE_0 ELSE x + CODE_A - 10

\* Two digits for each byte, the high one first.
str_i2Asiic(src) ==
    [j \in 1..(2 * Len(src)) |->
        LET byte == src[(j + 1) \div 2]
        IN  CONVERT_ASIIC(IF j % 2 = 1 THEN byte \div 16 ELSE byte % 16)]

\* What str_add leaves in a buffer of zeros when there is room, and the length it
\* says it has: the string has grown when its length is taken again.
str_add(src, size, dst) ==
    IF size > Len(src) + Len(dst)
    THEN [str |-> src \o dst, returns |-> Len(src) + 2 * Len(dst)]
    ELSE [str |-> src, returns |-> 0]

\* Two bytes for each character and two that end the text: characters are taken
\* until there is no room for another, but one is taken in any case.
str_ConvertToUnicod(src, size) ==
    LET enough == {k \in 1..Len(src) : 2 * k >= size - 2}
        taken  == IF enough = {} THEN Len(src)
                  ELSE CHOOSE k \in enough : \A m \in enough : k <= m
    IN  [i \in 1..(2 * taken + 2) |-> IF i % 2 = 1 /\ i <= 2 * taken THEN src[(i + 1) \div 2] ELSE 0]

\* Small letters to capital ones, and what is no digit to 0.
HexDigit(c) ==
    LET upper == IF c \in 97..102 THEN c - LowerToUpper ELSE c
    IN  IF upper \in (CODE_0..CODE_9) \cup (CODE_A..CODE_F) THEN upper ELSE CODE_0
str_ConvertToHexStr(str) == [i \in DOMAIN str |-> HexDigit(str[i])]
=============================================================================

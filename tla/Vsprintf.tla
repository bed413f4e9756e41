---------------------------- MODULE Vsprintf ----------------------------
(***************************************************************************)
(* vsprintf(): the scanner that walks a format string and the layout of    *)
(* the fields it writes.  A character is a one-letter string, position     *)
(* Len(fmt) + 1 is the terminating zero.  A field is the record of the     *)
(* runs of characters number() and the `c' and `s' cases write, in the     *)
(* order they write them.  Words have LongBits bits where the code has 64, *)
(* an int has IntBits where it has 32.  An argument is chosen when va_arg  *)
(* takes it.                                                               *)
(***************************************************************************)
EXTENDS Integers, Sequences, FiniteSets
CONSTANTS Formats,      \* the format strings
          Words,        \* arguments of the integer conversions, as LongBits words
          Lengths,      \* lengths of the strings of %s; -1 is a NULL pointer
          Stars,        \* arguments a `*' takes
          IntBits, LongBits

ASSUME VsprintfAssumption ==
    /\ 0 < IntBits /\ IntBits < LongBits
    /\ Words \subseteq 0..2^LongBits-1

VARIABLES fmt, pos,                 \* the format and the scanner's place in it
          pc,                       \* the part of the directive read next
          start,                    \* where the current directive began
          flags, field_width, precision, qualifier,
          str,                      \* characters written (str - buf)
          field,                    \* what the last conversion wrote
          starred                   \* `*' arguments the directive took
vars == <<fmt, pos, pc, start, flags, field_width, precision, qualifier, str, field, starred>>
spec == <<flags, field_width, precision, qualifier>>

Digit == <<"1", "2", "3", "4", "5", "6", "7", "8", "9">>
is_digit(c) == c = "0" \/ \E d \in 1..9 : Digit[d] = c
Value(c) == IF c = "0" THEN 0 ELSE CHOOSE d \in 1..9 : Digit[d] = c
FlagChars == {"-", "+", " ", "#", "0"}
FlagOf(c) == CASE c = "-" -> "LEFT" [] c = "+" -> "PLUS" [] c = " " -> "SPACE"
               [] c = "#" -> "SPECIAL" [] OTHER -> "ZEROPAD"
Radix == [c \in {"o", "p", "x", "X", "d", "i", "u"} |->
              CASE c = "o" -> 8 [] c \in {"p", "x", "X"} -> 16 [] OTHER -> 10]
Conversions == DOMAIN Radix \cup {"c", "s", "n"}
CharAt(p) == IF p <= Len(fmt) THEN fmt[p] ELSE "\\0"
Larger(a, b) == IF a > b THEN a ELSE b
Smaller(a, b) == IF a < b THEN a ELSE b

\* The place after the digits at p, and the number they spell.
AfterDigits(p) == CHOOSE q \in p..Len(fmt)+1 :
                      ~is_digit(CharAt(q)) /\ \A r \in p..q-1 : is_digit(fmt[r])
skip_atoi(p) ==
    LET upto[q \in p..AfterDigits(p)] == IF q = p THEN 0 ELSE 10 * upto[q-1] + Value(fmt[q-1])
    IN  upto[AfterDigits(p)]

\* The digits of a number, the least significant first, as the do_div loop leaves them in tmp.
tmp(num, base) ==
    LET div[n \in 0..num] == IF n = 0 THEN <<>> ELSE <<n % base>> \o div[n \div base]
    IN  IF num = 0 THEN <<0>> ELSE div[num]

Negative(num, type) == "SIGN" \in type /\ num >= 2^(LongBits-1)
\* The padding left of the field once the sign, the prefix and the digits have their room.
PaddingBadSign(size, sign, pre, prc) == Larger(size - pre - prc, 0)
Padding(size, sign, pre, prc) == Larger(size - sign - pre - prc, 0)
number(num, base, size, prec, type) ==
    LET neg   == Negative(num, type)
        mag   == IF neg THEN 2^LongBits - num ELSE num
        sign  == IF neg \/ type \cap {"PLUS", "SPACE"} # {} THEN 1 ELSE 0
        pre   == IF "SPECIAL" \notin type THEN 0 ELSE IF base = 16 THEN 2 ELSE IF base = 8 THEN 1 ELSE 0
        run   == tmp(mag, base)
        prc   == Larger(prec, Len(run))
        fill  == Padding(size, sign, pre, prc)
    IN  [blanks |-> IF type \cap {"ZEROPAD", "LEFT"} = {} THEN fill ELSE 0,
         neg |-> neg, sign |-> sign, prefix |-> pre,
         zeros |-> (prc - Len(run)) + IF "ZEROPAD" \in type /\ "LEFT" \notin type THEN fill ELSE 0,
         digits |-> run, tail |-> IF "LEFT" \in type THEN fill ELSE 0]
Text(len, size, left) ==
    LET fill == Larger(size - len, 0)
    IN  [blanks |-> IF left THEN 0 ELSE fill, text |-> len, tail |-> IF left THEN fill ELSE 0]

get_qualified_integer(w) ==
    LET low == w % 2^IntBits
    IN  IF qualifier \notin {"", "h"} THEN w
        ELSE IF low < 2^(IntBits-1) THEN low ELSE 2^LongBits - 2^IntBits + low

Width(f) == IF "text" \in DOMAIN f THEN f.blanks + f.text + f.tail
            ELSE f.blanks + f.sign + f.prefix + f.zeros + Len(f.digits) + f.tail

NoField == [conv |-> "", at |-> 0]
Fresh == /\ flags' = {} /\ field_width' = -1 /\ precision' = -1 /\ qualifier' = ""
         /\ field' = NoField /\ starred' = 0
Init == /\ fmt = <<>> /\ pos = 1 /\ pc = "idle" /\ start = 0 /\ str = 0
        /\ flags = {} /\ field_width = -1 /\ precision = -1 /\ qualifier = ""
        /\ field = NoField /\ starred = 0

\* A caller prints with some format; the previous call has returned.
Call == /\ pc = "idle" /\ pc' = "text" /\ fmt' \in Formats
        /\ UNCHANGED <<pos, start, spec, str, field, starred>>

Literal == /\ pc = "text" /\ pos <= Len(fmt) /\ fmt[pos] # "%"
           /\ pos' = pos + 1 /\ str' = str + 1
           /\ UNCHANGED <<fmt, pc, start, spec, field, starred>>
Percent == /\ pc = "text" /\ pos <= Len(fmt) /\ fmt[pos] = "%"
           /\ start' = pos /\ pos' = pos + 1 /\ pc' = "flags" /\ Fresh
           /\ UNCHANGED <<fmt, str>>
FlagBadOnce == /\ pc = "flags" /\ CharAt(pos) \in FlagChars /\ flags' = {FlagOf(CharAt(pos))}
               /\ pos' = pos + 1
               /\ UNCHANGED <<fmt, pc, start, field_width, precision, qualifier, str, field, starred>>
Flag == /\ pc = "flags" /\ CharAt(pos) \in FlagChars
        /\ flags' = flags \cup {FlagOf(CharAt(pos))} /\ pos' = pos + 1
        /\ UNCHANGED <<fmt, pc, start, field_width, precision, qualifier, str, field, starred>>

\* A `*' takes its argument and leaves the scanner where it is.
FieldWidth ==
    /\ pc = "flags" /\ CharAt(pos) \notin FlagChars /\ pc' = "precision"
    /\ \/ /\ is_digit(CharAt(pos))
          /\ field_width' = skip_atoi(pos) /\ pos' = AfterDigits(pos)
          /\ UNCHANGED <<flags, starred>>
       \/ /\ CharAt(pos) = "*" /\ starred' = starred + 1 /\ UNCHANGED pos
          /\ \E w \in Stars : /\ field_width' = IF w < 0 THEN -w ELSE w
                              /\ flags' = IF w < 0 THEN flags \cup {"LEFT"} ELSE flags
       \/ /\ ~is_digit(CharAt(pos)) /\ CharAt(pos) # "*"
          /\ UNCHANGED <<flags, field_width, pos, starred>>
    /\ UNCHANGED <<fmt, start, precision, qualifier, str, field>>
Precision ==
    /\ pc = "precision" /\ pc' = "qualifier"
    /\ IF CharAt(pos) # "." THEN UNCHANGED <<precision, pos, starred>>
       ELSE \/ /\ is_digit(CharAt(pos+1))
               /\ precision' = skip_atoi(pos+1) /\ pos' = AfterDigits(pos+1)
               /\ UNCHANGED starred
            \/ /\ CharAt(pos+1) = "*" /\ pos' = pos + 1 /\ starred' = starred + 1
               /\ \E p \in Stars : precision' = Larger(p, 0)
            \/ /\ ~is_digit(CharAt(pos+1)) /\ CharAt(pos+1) # "*"
               /\ precision' = 0 /\ pos' = pos + 1 /\ UNCHANGED starred
    /\ UNCHANGED <<fmt, start, flags, field_width, qualifier, str, field>>
Qualifier ==
    /\ pc = "qualifier" /\ pc' = "convert"
    /\ IF CharAt(pos) \in {"h", "l", "L"} THEN qualifier' = CharAt(pos) /\ pos' = pos + 1
                                          ELSE UNCHANGED <<qualifier, pos>>
    /\ UNCHANGED <<fmt, start, flags, field_width, precision, str, field, starred>>

\* What a conversion writes for argument a: an integer, a string's length, or the value of a `c'.
Written(c, a) ==
    IF c = "c" THEN Text(1, field_width, "LEFT" \in flags)
    ELSE IF c = "s"
    THEN LET len == IF a = -1 THEN 6 ELSE a       \* "<NULL>"
         IN  Text(IF precision < 0 THEN len ELSE Smaller(len, precision), field_width, "LEFT" \in flags)
    ELSE LET type == flags \cup (IF c \in {"d", "i"} THEN {"SIGN"} ELSE {})
             long == c = "p" /\ field_width = -1
         IN  number(IF c = "p" THEN a ELSE get_qualified_integer(a), Radix[c],
                    IF long THEN LongBits \div 4 ELSE field_width, precision,
                    type \cup (IF long THEN {"ZEROPAD"} ELSE {}))
Arguments(c) == CASE c = "c" -> {0} [] c = "s" -> Lengths [] OTHER -> Words

Convert ==
    /\ pc = "convert" /\ CharAt(pos) \in Conversions \ {"n"}
    /\ \E a \in Arguments(CharAt(pos)) :
           /\ field' = [conv |-> CharAt(pos), at |-> pos, arg |-> a, out |-> Written(CharAt(pos), a)]
           /\ str' = str + Width(field'.out)
    /\ pos' = pos + 1 /\ pc' = "text"
    /\ UNCHANGED <<fmt, start, spec, starred>>
\* %n stores the count in the caller's int: nothing of this state changes.
StoreCount == /\ pc = "convert" /\ CharAt(pos) = "n" /\ pos' = pos + 1 /\ pc' = "text"
              /\ UNCHANGED <<fmt, start, spec, str, field, starred>>
CopyBadEnd == /\ pc = "convert" /\ CharAt(pos) \notin Conversions /\ pc' = "text"
              /\ str' = str + (IF CharAt(pos) = "%" \/ pos > Len(fmt) THEN 1 ELSE 2)
              /\ pos' = pos + 1
              /\ UNCHANGED <<fmt, start, spec, field, starred>>
\* Any other character is copied with the % before it; the terminator ends the scan.
Copy == /\ pc = "convert" /\ CharAt(pos) \notin Conversions /\ pc' = "text"
        /\ str' = str + (IF CharAt(pos) = "%" \/ pos > Len(fmt) THEN 1 ELSE 2)
        /\ pos' = IF pos <= Len(fmt) THEN pos + 1 ELSE pos
        /\ UNCHANGED <<fmt, start, spec, field, starred>>
Return == /\ pc = "text" /\ pos = Len(fmt) + 1
          /\ pc' = "idle" /\ fmt' = <<>> /\ pos' = 1 /\ start' = 0 /\ str' = 0 /\ Fresh

Step == \/ Literal \/ Percent \/ Flag \/ FieldWidth \/ Precision \/ Qualifier
        \/ Convert \/ StoreCount \/ Copy \/ Return
Next == Call \/ Step
\* A call that has begun goes on.
Spec == Init /\ [][Next]_vars /\ WF_vars(Step)

\* Whatever the format, also one that breaks off inside a directive, the scan never goes past the
\* terminating zero, and every call of vsprintf() returns.
ScanEnds == [](pos <= Len(fmt) + 1) /\ (pc # "idle" ~> pc = "idle")

\* The text of a directive from its % to its conversion letter: flags, width, precision and
\* qualifier in this order, each at most once.
Directive(fl, w, p, q) ==
    /\ \A i \in start+1..fl : fmt[i] \in FlagChars
    /\ \A i \in fl+1..w : is_digit(fmt[i])
    /\ fl < w => fmt[fl+1] # "0"
    /\ p > w => fmt[w+1] = "." /\ \A i \in w+2..p : is_digit(fmt[i])
    /\ q > p => q = p + 1 /\ fmt[q] \in {"h", "l", "L"}
    /\ q + 1 = field.at
\* vsprintf() makes a conversion exactly with the flags, the width, the precision and the
\* qualifier that stand between the % and the letter: nothing is lost from one part of the
\* scan to the next and nothing is left over from an earlier directive.
ParsesAsWritten ==
    field.conv # "" /\ starred = 0 =>
        \E fl \in start..field.at, w, p, q \in start..field.at :
            /\ fl <= w /\ w <= p /\ p <= q /\ Directive(fl, w, p, q)
            /\ flags = {FlagOf(fmt[i]) : i \in start+1..fl}
            /\ IF w = fl THEN field_width = -1
               ELSE field_width % 10 = Value(fmt[w]) /\ field_width < 10^(w-fl)
            /\ IF p = w THEN precision = -1
               ELSE precision < 10^(p-w) /\ (p > w+1 => precision % 10 = Value(fmt[p]))
            /\ qualifier = IF q = p THEN "" ELSE fmt[q]

\* A field is as wide as its directive asks, and wider only when what it shows is wider: the
\* room number() takes off for the sign, the 0x and the digits is what it then writes, and
\* the padding is all on the side the flags say.
FieldFits ==
    field.conv # "" =>
        LET f == field.out
            asked == IF field.conv = "p" /\ field_width = -1 THEN LongBits \div 4 ELSE field_width
        IN
        /\ Width(f) >= asked
        /\ f.blanks + f.tail > 0 => Width(f) = asked
        /\ f.tail > 0 => "LEFT" \in flags
        /\ f.blanks > 0 => "LEFT" \notin flags
        /\ "digits" \in DOMAIN f =>
               /\ f.zeros + Len(f.digits) >= precision
               /\ f.zeros > 0 => Width(f) = asked \/ f.zeros + Len(f.digits) = precision

\* The digits of an integer field, read back in their base, are the argument: its magnitude and
\* its sign for d and i, the word itself for the others.  For u, o and x without `l' the word is
\* the int with its sign extended, because get_qualified_integer() takes it as a signed one.
Shown == LET d == field.out.digits
             sum[k \in 0..Len(d)] == IF k = 0 THEN 0 ELSE sum[k-1] + d[k] * Radix[field.conv]^(k-1)
         IN  sum[Len(d)]
ValueShown ==
    field.conv \in DOMAIN Radix =>
        LET wide   == qualifier \in {"l", "L"} \/ field.conv = "p"
            bits   == IF wide THEN LongBits ELSE IntBits
            n      == field.arg % 2^bits
            signed == IF n < 2^(bits-1) THEN n ELSE n - 2^bits
        IN  IF field.conv \in {"d", "i"} THEN Shown = (IF field.out.neg THEN -signed ELSE signed)
            ELSE Shown = signed % 2^LongBits /\ ~field.out.neg

\* What number() and the `c' and `s' cases write is the argument in a field as it was asked for:
\* FieldFits and ValueShown of every conversion.
FieldRight == FieldFits /\ ValueShown
=============================================================================

------------------------------ MODULE Formatter ------------------------------
(* The format-string pipeline of src/src/libcore/src/ccm/util/Formatter.cpp: *)
(* Parse splits a format string into fixed strings and format specifiers   *)
(* (FormatSpecifierParser reads one specifier, FormatSpecifier checks it),  *)
(* and Format walks the list, choosing the argument each specifier prints. *)
(* A string is a sequence of one-character strings.  Printing is left out: *)
(* Format's control does not depend on it (a failed Print only records    *)
(* mLastException).  The conversion and date/time letters are those of the *)
(* Java Formatter the class ports; the header declaring them is not in the *)
(* repository.                                                             *)
EXTENDS Integers, Sequences, FiniteSets

NOERROR == "NOERROR"
UnknownConversion == "E_UNKNOWN_FORMAT_CONVERSION_EXCEPTION"
IllegalPrecision == "E_ILLEGAL_FORMAT_PRECISION_EXCEPTION"
IllegalWidth == "E_ILLEGAL_FORMAT_WIDTH_EXCEPTION"
IllegalFlags == "E_ILLEGAL_FORMAT_FLAGS_EXCEPTION"
MissingWidth == "E_MISSING_FORMAT_WIDTH_EXCEPTION"
Mismatch == "E_FORMAT_FLAGS_CONVERSION_MISMATCH_EXCEPTION"
MissingArgument == "E_MISSING_FORMAT_ARGUMENT_EXCEPTION"
DuplicateFlags == "E_DUPLICATE_FORMAT_FLAGS_EXCEPTION"
UnknownFlags == "E_UNKNOWN_FORMAT_FLAGS_EXCEPTION"
\* A call through the null Flags pointer mF: the process crashes.
NullDereference == "NULL_DEREFERENCE"

Digits == {"0", "1", "2", "3", "4", "5", "6", "7", "8", "9"}
\* FormatSpecifierParser::GetFLAGS: ",-(+# 0<".
FlagChars == {",", "-", "(", "+", "#", " ", "0", "<"}
\* The flag Conversion adds for an upper-case conversion.
Uppercase == "^"

UpperLetters == <<"A","B","C","D","E","F","G","H","I","J","K","L","M",
                  "N","O","P","Q","R","S","T","U","V","W","X","Y","Z">>
LowerLetters == <<"a","b","c","d","e","f","g","h","i","j","k","l","m",
                  "n","o","p","q","r","s","t","u","v","w","x","y","z">>
IsUpperCase(c) == \E i \in DOMAIN UpperLetters : UpperLetters[i] = c
ToLowerCase(c) ==
    IF IsUpperCase(c)
    THEN LowerLetters[CHOOSE i \in DOMAIN UpperLetters : UpperLetters[i] = c]
    ELSE c

\* The value of a run of decimal digits (StringUtils::ParseInt).
RECURSIVE DigitValue(_)
DigitValue(d) ==
    IF d = <<>> THEN 0
    ELSE LET v == CHOOSE n \in 0..9 : <<"0","1","2","3","4","5","6","7","8","9">>[n + 1] = Head(d)
         IN v * 10^(Len(d) - 1) + DigitValue(Tail(d))

-----------------------------------------------------------------------------
(* Conversion::Is* and DateTime::IsValid.                                 *)
IsGeneral(c) == c \in {"b", "B", "s", "S", "h", "H"}
IsCharacter(c) == c \in {"c", "C"}
IsInteger(c) == c \in {"d", "o", "x", "X"}
IsFloat(c) == c \in {"e", "E", "g", "G", "f", "a", "A"}
IsText(c) == c \in {"n", "%"}
IsValid(c) ==
    IsGeneral(c) \/ IsInteger(c) \/ IsFloat(c) \/ IsText(c) \/ c = "t" \/ IsCharacter(c)
DateTimeIsValid(c) ==
    c \in {"H", "I", "k", "l", "M", "N", "L", "Q", "p", "s", "S", "T", "z", "Z",
           "a", "A", "b", "B", "C", "d", "e", "h", "j", "m", "y", "Y",
           "r", "R", "c", "D", "F"}

-----------------------------------------------------------------------------
(* FormatSpecifierParser.  The cursor c is 1-based: IsEnd() is c > Len(s), *)
(* Peek and Advance fail with UnknownConversion there.  The parser's state *)
(* is a record: the error, the cursor and the text of each field read      *)
(* (<<>> is a null String; flags is "" when not read).                      *)
NextIsInt(s, c) == c <= Len(s) /\ s[c] \in Digits

\* The cursor after NextInt(): past the run of digits at c.
RECURSIVE DigitsEnd(_, _)
DigitsEnd(s, c) == IF NextIsInt(s, c) THEN DigitsEnd(s, c + 1) ELSE c

\* The cursor after the flags loop: past the run of flag characters at c.
RECURSIVE FlagsEnd(_, _)
FlagsEnd(s, c) == IF c <= Len(s) /\ s[c] \in FlagChars THEN FlagsEnd(s, c + 1) ELSE c

Failed(st, ec) == [st EXCEPT !.ec = ec]

\* A plausible fault: Back(nint.GetLength() - 1), one digit short.
IndexPartBackOne(s, start) ==
    LET st == [ec |-> NOERROR, c |-> start, idx |-> <<>>, flags |-> <<>>,
               width |-> <<>>, prec |-> <<>>, tt |-> <<>>, conv |-> <<>>]
        e == DigitsEnd(s, start)
    IN CASE ~NextIsInt(s, start) -> st
         [] e > Len(s) -> Failed(st, UnknownConversion)
         [] s[e] = "$" -> [st EXCEPT !.idx = SubSeq(s, start, e), !.c = e + 1]
         [] s[start] = "0" -> [st EXCEPT !.c = start + 1]
         [] OTHER -> [st EXCEPT !.width = SubSeq(s, start, e - 1), !.c = e]

\* The index section: digits followed by '$' are the index; digits starting
\* with '0' are flags, so the cursor goes back over them; other digits are
\* the width.
IndexPart(s, start) ==
    LET st == [ec |-> NOERROR, c |-> start, idx |-> <<>>, flags |-> <<>>,
               width |-> <<>>, prec |-> <<>>, tt |-> <<>>, conv |-> <<>>]
        e == DigitsEnd(s, start)
    IN CASE ~NextIsInt(s, start) -> st
         [] e > Len(s) -> Failed(st, UnknownConversion)
         [] s[e] = "$" -> [st EXCEPT !.idx = SubSeq(s, start, e), !.c = e + 1]
         [] s[start] = "0" -> st
         [] OTHER -> [st EXCEPT !.width = SubSeq(s, start, e - 1), !.c = e]

\* Flags, read only when the index section did not read a width.
FlagsPart(s, st) ==
    LET f == FlagsEnd(s, st.c) IN
    CASE st.width # <<>> -> st
      [] f > Len(s) -> Failed(st, UnknownConversion)
      [] OTHER -> [st EXCEPT !.flags = SubSeq(s, st.c, f - 1), !.c = f]

WidthPart(s, st) ==
    IF st.width = <<>> /\ NextIsInt(s, st.c)
    THEN [st EXCEPT !.width = SubSeq(s, st.c, DigitsEnd(s, st.c) - 1),
                    !.c = DigitsEnd(s, st.c)]
    ELSE st

\* '.' must be followed by digits.  The parse state's field holds the
\* '.' with the digits; the specifier's prec, like the code's mPrecision
\* (NextInt after Advance), is the value of the digits alone.
PrecisionPart(s, st) ==
    CASE st.c > Len(s) -> Failed(st, UnknownConversion)
      [] s[st.c] # "." -> st
      [] ~NextIsInt(s, st.c + 1) -> Failed(st, IllegalPrecision)
      [] OTHER -> [st EXCEPT !.prec = SubSeq(s, st.c, DigitsEnd(s, st.c + 1) - 1),
                             !.c = DigitsEnd(s, st.c + 1)]

\* 't' or 'T' makes a date/time specifier; the next character converts.
ConversionPart(s, st) ==
    LET t == st.c <= Len(s) /\ s[st.c] \in {"t", "T"}
        c == IF t THEN st.c + 1 ELSE st.c
        st1 == [st EXCEPT !.tt = IF t THEN <<s[st.c]>> ELSE <<>>]
    IN CASE st.c > Len(s) -> Failed(st, UnknownConversion)
         [] c > Len(s) -> Failed(st1, UnknownConversion)
         [] OTHER -> [st1 EXCEPT !.conv = <<s[c]>>, !.c = c + 1]

\* The fields of the specifier whose '%' is at start - 1, read in order;
\* the first failure ends the parse.
ParseFields(s, start) ==
    LET a == IndexPart(s, start)
        b == IF a.ec # NOERROR THEN a ELSE FlagsPart(s, a)
        w == IF b.ec # NOERROR THEN b ELSE WidthPart(s, b)
        p == IF w.ec # NOERROR THEN w ELSE PrecisionPart(s, w)
    IN IF p.ec # NOERROR THEN p ELSE ConversionPart(s, p)

-----------------------------------------------------------------------------
(* Flags.  A Flags object is the bit mask mFlags; Flags::Get<FLAG> gives   *)
(* each flag its bit.  Contains and Add are declared in a header that is   *)
(* not in the repository: they are taken as the bit test and the or,      *)
(* written for the one-bit masks Parse passes them.                        *)
FlagBit(c) ==
    CASE c = "-" -> 1     [] c = Uppercase -> 2 [] c = "#" -> 4
      [] c = "+" -> 8     [] c = " " -> 16      [] c = "0" -> 32
      [] c = "," -> 64    [] c = "(" -> 128     [] c = "<" -> 256

\* f->Contains(v) and f->Add(v).
FlagsContain(f, v) == (f \div v) % 2 = 1
FlagsAdd(f, v) == IF FlagsContain(f, v) THEN f ELSE f + v

\* Flags::Parse(Char): the flag of c, -1 for E_UNKNOWN_FORMAT_FLAGS_EXCEPTION.
ParseFlag(c) == IF c \in FlagChars THEN FlagBit(c) ELSE -1

\* Flags::Parse(String): the flags of s added one by one to Flags(0); an
\* unknown or repeated flag ends the loop with its error.
RECURSIVE FlagsParseFrom(_, _, _)
FlagsParseFrom(s, i, f) ==
    IF i > Len(s) THEN [ec |-> NOERROR, flags |-> f]
    ELSE LET v == ParseFlag(s[i]) IN
         CASE v = -1 -> [ec |-> UnknownFlags, flags |-> f]
           [] FlagsContain(f, v) -> [ec |-> DuplicateFlags, flags |-> f]
           [] OTHER -> FlagsParseFrom(s, i + 1, FlagsAdd(f, v))

FlagsParse(s) == FlagsParseFrom(s, 1, 0)

\* The flags the mask f holds.
FlagsOf(f) == {c \in FlagChars \cup {Uppercase} : FlagsContain(f, FlagBit(c))}

-----------------------------------------------------------------------------
(* FormatSpecifier::Constructor and its checks.  A specifier is a record:  *)
(* its index (mIndex), the set of flags mF holds (fnull: mF is null), the  *)
(* width and precision (-1 when absent), mDt and the conversion mC.        *)
(* Flags::Parse fails on a repeated flag before it sets mF, ToFlags then   *)
(* returns with mF null, and the constructor ignores what ToFlags,        *)
(* Width, Precision and Conversion return.                                 *)

\* ec, unless mF is null: then the call through it crashes first.
Deref(sp, ec) == IF sp.fnull THEN NullDereference ELSE ec

\* '-' requires a width.
LeftJustifyWithoutWidth(sp) ==
    IF sp.width # -1 THEN NOERROR
    ELSE Deref(sp, IF "-" \in sp.flags THEN MissingWidth ELSE NOERROR)

CheckBadFlags(sp, bad) ==
    Deref(sp, IF sp.flags \cap bad # {} THEN Mismatch ELSE NOERROR)

\* A plausible fault: '-' without a width accepted by CheckGeneral.
CheckGeneralWithoutWidth(sp) ==
    CASE sp.conv \in {"b", "h"} /\ sp.fnull -> NullDereference
      [] sp.conv \in {"b", "h"} /\ "#" \in sp.flags -> Mismatch
      [] OTHER -> CheckBadFlags(sp, {"+", " ", "0", ",", "("})

CheckGeneral(sp) ==
    CASE sp.conv \in {"b", "h"} /\ sp.fnull -> NullDereference
      [] sp.conv \in {"b", "h"} /\ "#" \in sp.flags -> Mismatch
      [] LeftJustifyWithoutWidth(sp) # NOERROR -> LeftJustifyWithoutWidth(sp)
      [] OTHER -> CheckBadFlags(sp, {"+", " ", "0", ",", "("})

\* CheckDateTime and CheckCharacter: no precision, none of these flags.
CheckDateTime(sp) ==
    CASE sp.prec # -1 -> IllegalPrecision
      [] ~DateTimeIsValid(sp.conv) -> UnknownConversion
      [] CheckBadFlags(sp, {"#", "+", " ", "0", ",", "("}) # NOERROR ->
            CheckBadFlags(sp, {"#", "+", " ", "0", ",", "("})
      [] OTHER -> LeftJustifyWithoutWidth(sp)

CheckCharacter(sp) ==
    CASE sp.prec # -1 -> IllegalPrecision
      [] CheckBadFlags(sp, {"#", "+", " ", "0", ",", "("}) # NOERROR ->
            CheckBadFlags(sp, {"#", "+", " ", "0", ",", "("})
      [] OTHER -> LeftJustifyWithoutWidth(sp)

\* '-' and '0' require a width; '+' with ' ', and '-' with '0', conflict.
CheckNumeric(sp) ==
    CASE sp.width # -1 /\ sp.width < 0 -> IllegalWidth
      [] sp.prec # -1 /\ sp.prec < 0 -> IllegalPrecision
      [] sp.width = -1 /\ sp.fnull -> NullDereference
      [] sp.width = -1 /\ sp.flags \cap {"-", "0"} # {} -> MissingWidth
      [] OTHER -> Deref(sp, IF {"+", " "} \subseteq sp.flags \/ {"-", "0"} \subseteq sp.flags
                            THEN IllegalFlags ELSE NOERROR)

CheckInteger(sp) ==
    CASE CheckNumeric(sp) # NOERROR -> CheckNumeric(sp)
      [] sp.prec # -1 -> IllegalPrecision
      [] sp.conv = "d" -> CheckBadFlags(sp, {"#"})
      [] OTHER -> CheckBadFlags(sp, {","})

CheckFloat(sp) ==
    CASE CheckNumeric(sp) # NOERROR -> CheckNumeric(sp)
      [] sp.conv = "a" -> CheckBadFlags(sp, {"(", ","})
      [] sp.conv = "e" -> CheckBadFlags(sp, {","})
      [] sp.conv = "g" -> CheckBadFlags(sp, {"#"})
      [] OTHER -> NOERROR

\* '%' takes at most '-'; 'n' takes no width and no flags.
CheckText(sp) ==
    CASE sp.prec # -1 -> IllegalPrecision
      [] sp.conv = "%" /\ sp.fnull -> NullDereference
      [] sp.conv = "%" /\ sp.flags \notin {{}, {"-"}} -> IllegalFlags
      [] sp.conv = "%" -> LeftJustifyWithoutWidth(sp)
      [] sp.width # -1 -> IllegalWidth
      [] OTHER -> Deref(sp, IF sp.flags # {} THEN IllegalFlags ELSE NOERROR)

\* The check the constructor runs for the specifier's kind.
CheckSpecifier(sp) ==
    CASE sp.dt -> CheckDateTime(sp)
      [] IsGeneral(sp.conv) -> CheckGeneral(sp)
      [] IsCharacter(sp.conv) -> CheckCharacter(sp)
      [] IsInteger(sp.conv) -> CheckInteger(sp)
      [] IsFloat(sp.conv) -> CheckFloat(sp)
      [] IsText(sp.conv) -> CheckText(sp)
      [] OTHER -> UnknownConversion

\* FormatSpecifier::Constructor on the fields st read.  When every check
\* passes, control runs off the end of the function without a return
\* statement: the value returned, fallOff, is whatever the build leaves.
FormatSpecifier(st, fallOff) ==
    LET parsed == FlagsParse(st.flags)                       \* ToFlags
        flagSet == FlagsOf(parsed.flags)
        fnull == parsed.ec # NOERROR                          \* mF stays null
        index == CASE ~fnull /\ "<" \in flagSet -> -1            \* ToFlags
                   [] st.idx = <<>> -> 0                         \* Index
                   [] OTHER -> DigitValue(SubSeq(st.idx, 1, Len(st.idx) - 1))
        dt == st.tt # <<>>
        c == st.conv[1]
        upper == (dt /\ st.tt = <<"T">>) \/ (~dt /\ IsValid(c) /\ IsUpperCase(c))
        conv == IF ~dt /\ IsValid(c) THEN ToLowerCase(c) ELSE c   \* Conversion
        sp == [index |-> IF ~dt /\ IsValid(c) /\ IsText(conv) THEN -2 ELSE index,
               flags |-> IF upper THEN flagSet \cup {Uppercase} ELSE flagSet,
               fnull |-> fnull,
               width |-> IF st.width = <<>> THEN -1 ELSE DigitValue(st.width),
               prec |-> IF st.prec = <<>> THEN -1 ELSE DigitValue(Tail(st.prec)),
               dt |-> dt, conv |-> conv]
        ec == IF upper /\ fnull THEN NullDereference ELSE CheckSpecifier(sp)
    IN [ec |-> IF ec = NOERROR THEN fallOff ELSE ec, spec |-> sp]

-----------------------------------------------------------------------------
(* Parse and Format.  A piece of the parsed list is a record: its span in  *)
(* the string, its index (-2 for a fixed string, "%n" and "%%"), and for a *)
(* specifier the lengths of the fields read and what the constructor made *)
(* of them.                                                                *)
FixedPiece(from, to) ==
    [from |-> from, to |-> to, index |-> -2, fields |-> <<0, 0, 0, 0, 0>>,
     spec |-> [index |-> -2, flags |-> {}, fnull |-> FALSE, width |-> -1,
               prec |-> -1, dt |-> FALSE, conv |-> "none"]]

FieldLengths(st) ==
    <<Len(st.idx), Len(st.flags), Len(st.width), Len(st.prec), Len(st.tt)>>

\* The position of the next '%' at or after i, or Len(s) + 1.
RECURSIVE NextPercent(_, _)
NextPercent(s, i) == IF i > Len(s) \/ s[i] = "%" THEN i ELSE NextPercent(s, i + 1)

\* The loop of Parse from position i; the first failing specifier ends it.
RECURSIVE ParseFrom(_, _, _, _), ParseSpecifier(_, _, _, _, _), AcceptSpecifier(_, _, _, _, _, _)

\* The specifier whose fields st were read at i: a failure ends the parse.
ParseSpecifier(s, i, pieces, fallOff, st) ==
    IF st.ec # NOERROR THEN [ec |-> st.ec, pieces |-> pieces]
    ELSE AcceptSpecifier(s, i, pieces, fallOff, st, FormatSpecifier(st, fallOff))

AcceptSpecifier(s, i, pieces, fallOff, st, fs) ==
    IF fs.ec # NOERROR THEN [ec |-> fs.ec, pieces |-> pieces]
    ELSE ParseFrom(s, st.c,
                   Append(pieces, [from |-> i, to |-> st.c - 1, index |-> fs.spec.index,
                                   fields |-> FieldLengths(st), spec |-> fs.spec]), fallOff)

ParseFrom(s, i, pieces, fallOff) ==
    IF i > Len(s) THEN [ec |-> NOERROR, pieces |-> pieces]
    ELSE IF s[i] # "%"
    THEN ParseFrom(s, NextPercent(s, i),
                   Append(pieces, FixedPiece(i, NextPercent(s, i) - 1)), fallOff)
    ELSE ParseSpecifier(s, i, pieces, fallOff, ParseFields(s, i + 1))

Parse(s, fallOff) == ParseFrom(s, 1, <<>>, fallOff)

\* The loop of Format from piece k: last is the argument last referenced,
\* lasto the last ordinary index, nargs the length of args (-1: nullptr).
\* The result is the error and the argument indexes printed, in order.
RECURSIVE FormatFrom(_, _, _, _, _, _)

\* A plausible fault: '<' before any argument was referenced not caught.
FormatFromRelativeUnchecked(fs, k, last, lasto, nargs, reads) ==
    IF k > Len(fs) THEN [ec |-> NOERROR, reads |-> reads]
    ELSE LET index == fs[k].index
             missing == [ec |-> MissingArgument, reads |-> reads]
         IN CASE index = -2 -> FormatFrom(fs, k + 1, last, lasto, nargs, reads)
              [] index = -1 ->
                    IF nargs >= 0 /\ last > nargs - 1 THEN missing
                    ELSE FormatFrom(fs, k + 1, last, lasto, nargs, Append(reads, last))
              [] index = 0 ->
                    IF nargs >= 0 /\ lasto + 1 > nargs - 1 THEN missing
                    ELSE FormatFrom(fs, k + 1, lasto + 1, lasto + 1, nargs,
                                    Append(reads, lasto + 1))
              [] OTHER ->
                    IF nargs >= 0 /\ index - 1 > nargs - 1 THEN missing
                    ELSE FormatFrom(fs, k + 1, index - 1, lasto, nargs,
                                    Append(reads, index - 1))

FormatFrom(fs, k, last, lasto, nargs, reads) ==
    IF k > Len(fs) THEN [ec |-> NOERROR, reads |-> reads]
    ELSE LET index == fs[k].index
             missing == [ec |-> MissingArgument, reads |-> reads]
         IN CASE index = -2 -> FormatFrom(fs, k + 1, last, lasto, nargs, reads)
              [] index = -1 ->
                    IF last < 0 \/ (nargs >= 0 /\ last > nargs - 1) THEN missing
                    ELSE FormatFrom(fs, k + 1, last, lasto, nargs, Append(reads, last))
              [] index = 0 ->
                    IF nargs >= 0 /\ lasto + 1 > nargs - 1 THEN missing
                    ELSE FormatFrom(fs, k + 1, lasto + 1, lasto + 1, nargs,
                                    Append(reads, lasto + 1))
              [] OTHER ->
                    IF nargs >= 0 /\ index - 1 > nargs - 1 THEN missing
                    ELSE FormatFrom(fs, k + 1, index - 1, lasto, nargs,
                                    Append(reads, index - 1))

\* Format after Parse returned p: a failed parse is returned at once.
FormatParsed(p, nargs) ==
    IF p.ec # NOERROR THEN [ec |-> p.ec, reads |-> <<>>]
    ELSE FormatFrom(p.pieces, 1, -1, -1, nargs, <<>>)

Format(s, nargs, fallOff) == FormatParsed(Parse(s, fallOff), nargs)

=============================================================================

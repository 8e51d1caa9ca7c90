---------------------------- MODULE FormatterPrint ----------------------------
(* What a checked FormatSpecifier appends for one argument: Formatter.cpp's *)
(* FormatSpecifier::Print and the Print* functions it dispatches to, and   *)
(* FormatSpecifier::ToString.  A print returns a record: the ECode and the *)
(* characters appended to the output (none when it fails).                 *)
(*                                                                         *)
(* An argument is a record: its boxed type ("null" for nullptr), an integer *)
(* (the value of a Byte, Short, Integer or Long, the hash code of any other *)
(* object, the sign of a floating value), the text Object::ToString or     *)
(* IFormattable::FormatTo produces, and the class of a floating value      *)
(* ("finite", "infinite", "NaN").  The StringUtils conversions are not in  *)
(* the repository; ToOctalString and ToHexString are modelled as the Java *)
(* Long methods they port (unsigned 64-bit digits), ToString(v, radix) as  *)
(* the signed Java Integer.toString.                                        *)
EXTENDS Formatter

IllegalCodePoint == "E_ILLEGAL_FORMAT_CODE_POINT_EXCEPTION"
\* FailConversion(): its definition is not in the repository.
IllegalConversion == "E_ILLEGAL_FORMAT_CONVERSION_EXCEPTION"

IntegralTypes == {"Byte", "Short", "Integer", "Long"}

NullText == <<"n", "u", "l", "l">>
TrueText == <<"t", "r", "u", "e">>
FalseText == <<"f", "a", "l", "s", "e">>
NaNText == <<"N", "a", "N">>
InfinityText == <<"I", "n", "f", "i", "n", "i", "t", "y">>
\* System::GetLineSeparator().
LineSeparator == <<"\n">>

Printed(ec, out) == [ec |-> ec, out |-> out]
Failure(ec) == Printed(ec, <<>>)

IsLowerCase(c) == \E i \in DOMAIN LowerLetters : LowerLetters[i] = c
ToUpperCase(c) ==
    IF IsLowerCase(c)
    THEN UpperLetters[CHOOSE i \in DOMAIN LowerLetters : LowerLetters[i] = c]
    ELSE c
\* String::ToUpperCase.
UpperText(s) == [i \in DOMAIN s |-> ToUpperCase(s[i])]

Repeat(c, n) == [i \in 1..n |-> c]

\* The digits of v >= 0 in base r, most significant first.
RECURSIVE Radix(_, _)
Radix(v, r) == IF v < r THEN <<v>> ELSE Radix(v \div r, r) \o <<v % r>>

DigitChars == <<"0", "1", "2", "3", "4", "5", "6", "7", "8", "9",
                "a", "b", "c", "d", "e", "f">>
DigitText(ds) == [i \in DOMAIN ds |-> DigitChars[ds[i] + 1]]
\* StringUtils::ToString(v, radix).
SignedText(v, r) ==
    IF v < 0 THEN <<"-">> \o DigitText(Radix(-v, r)) ELSE DigitText(Radix(v, r))

\* The base-2^k digits of bits-bit 2^bits - 1 - x, where ds are the digits
\* of x < 2^(bits - 1): the two's complement of a negative value -x - 1.
Complement(ds, bits, k) ==
    [i \in 1..(bits + k - 1) \div k |->
        (IF i = 1 THEN 2^(bits - k * ((bits + k - 1) \div k - 1)) - 1 ELSE 2^k - 1)
        - (IF i > (bits + k - 1) \div k - Len(ds)
           THEN ds[i - ((bits + k - 1) \div k - Len(ds))] ELSE 0)]

-----------------------------------------------------------------------------
(* The Long a Print(Byte/Short/Integer/Long) passes on: v + 2^wrap, where  *)
(* wrap is 0 (no wrap) or the width of the negative value widened.        *)

Bits == [Byte |-> 8, Short |-> 16, Integer |-> 32]

\* A plausible fault: only 'o' made unsigned.
WidenOctalOnly(sp, arg) ==
    [v |-> arg.int,
     wrap |-> IF arg.type # "Long" /\ arg.int < 0 /\ sp.conv = "o" THEN Bits[arg.type] ELSE 0]

\* Print(Byte), Print(Short), Print(Integer): a negative value is widened
\* to Long and, for 'o' and 'x', made unsigned by adding 2^bits.
Widen(sp, arg) ==
    [v |-> arg.int,
     wrap |-> IF arg.type # "Long" /\ arg.int < 0 /\ sp.conv \in {"o", "x"}
              THEN Bits[arg.type] ELSE 0]

\* StringUtils::ToOctalString (k = 3) and ToHexString (k = 4) of the Long
\* L: the digits of L as an unsigned 64-bit value.
UnsignedDigits(L, k) ==
    CASE L.v >= 0 /\ L.wrap = 0 -> Radix(L.v, 2^k)
      [] L.wrap \in {8, 16} -> Radix(L.v + 2^L.wrap, 2^k)
      [] OTHER -> Complement(Radix(-L.v - 1, 2^k), IF L.wrap = 0 THEN 64 ELSE L.wrap, k)

-----------------------------------------------------------------------------
(* Print(String), Justify, the sign helpers.                               *)

\* Pads s with spaces to mWidth, on the right when '-' is given.
Justify(sp, s) ==
    CASE sp.width = -1 -> s
      [] "-" \in sp.flags -> s \o Repeat(" ", sp.width - Len(s))
      [] OTHER -> Repeat(" ", sp.width - Len(s)) \o s

Truncated(sp, s) == IF sp.prec # -1 /\ sp.prec < Len(s) THEN SubSeq(s, 1, sp.prec) ELSE s
Cased(sp, s) == IF Uppercase \in sp.flags THEN UpperText(s) ELSE s

\* Print(const String&): precision, then UPPERCASE, then Justify.
PrintText(sp, s) == Printed(NOERROR, Justify(sp, Cased(sp, Truncated(sp, s))))

LeadingSign(sp, neg) ==
    CASE ~neg /\ "+" \in sp.flags -> <<"+">>
      [] ~neg /\ " " \in sp.flags -> <<" ">>
      [] ~neg -> <<>>
      [] "(" \in sp.flags -> <<"(">>
      [] OTHER -> <<"-">>

TrailingSign(sp, neg) == IF neg /\ "(" \in sp.flags THEN <<")">> ELSE <<>>

\* The width left for the magnitude when ')' will follow it.
AdjustWidth(sp, neg) ==
    IF sp.width # -1 /\ neg /\ "(" \in sp.flags THEN sp.width - 1 ELSE sp.width

\* LocalizedMagnitude(sb, va, f, width, l): both overloads end in the one
\* taking the digit array, whose body is empty: nothing is appended.
LocalizedMagnitude(sp, va, width) == <<>>

-----------------------------------------------------------------------------
(* The digit-array helpers of the floating conversions: AddZeros, AddDot   *)
(* and TrailingZeros.  The Print(sb, Double, ...) that would call them is  *)
(* empty in this port, so they are checked on their own.  A result is a   *)
(* record: ok is FALSE when AddZeros's CHECK aborts the process.           *)

\* n '0' characters.
Zeros(n) == [j \in 1..n |-> "0"]

\* The loop looking for the dot: its 0-based index, Len(v) when v has none.
DotIndex(v) ==
    LET d == {i \in DOMAIN v : v[i] = "."} IN
    IF d = {} THEN Len(v) ELSE (CHOOSE i \in d : \A j \in d : i <= j) - 1

\* A plausible fault: the existing precision counted as if v had a dot.
AddZerosAlwaysDot(v, prec) ==
    LET i == DotIndex(v)
        needDot == i = Len(v)
        outPrec == Len(v) - i - 1
    IN CASE outPrec > prec -> [ok |-> FALSE, chars |-> v]
         [] outPrec = prec -> [ok |-> TRUE, chars |-> v]
         [] OTHER -> [ok |-> TRUE, chars |-> v \o (IF needDot THEN <<".">> ELSE <<>>)
                                          \o Zeros(prec - outPrec)]

\* AddZeros(v, prec): v with a dot if it has none, then zeros up to prec
\* digits after the dot; CHECK(outPrec <= prec).
AddZeros(v, prec) ==
    LET i == DotIndex(v)
        needDot == i = Len(v)
        outPrec == Len(v) - i - (IF needDot THEN 0 ELSE 1)
    IN CASE outPrec > prec -> [ok |-> FALSE, chars |-> v]
         [] outPrec = prec -> [ok |-> TRUE, chars |-> v]
         [] OTHER -> [ok |-> TRUE, chars |-> v \o (IF needDot THEN <<".">> ELSE <<>>)
                                          \o Zeros(prec - outPrec)]

\* AddDot(mant): a copy one longer whose last character is '.'.
AddDot(mant) == [j \in 1..Len(mant) + 1 |-> IF j <= Len(mant) THEN mant[j] ELSE "."]

\* TrailingZeros(mant, nzeros): mant, with nzeros zeros when nzeros > 0.
TrailingZeros(mant, nzeros) == IF nzeros > 0 THEN mant \o Zeros(nzeros) ELSE mant


-----------------------------------------------------------------------------
(* Print(Long) and the Print* functions of FormatSpecifier::Print.         *)

\* The radix indicator '#' adds before the digits of 'o' and 'x'.
RadixPrefix(sp) ==
    CASE sp.conv = "o" -> <<"0">>
      [] Uppercase \in sp.flags -> <<"0", "X">>
      [] OTHER -> <<"0", "x">>

\* len: the digits and, with '#', the radix indicator.
RadixLength(sp, s) == IF "#" \in sp.flags THEN Len(s) + Len(RadixPrefix(sp)) ELSE Len(s)

\* ALTERNATE before ZERO_PAD, then the digits (upper-cased for 'X').
RadixText(sp, s) ==
    (IF "#" \in sp.flags THEN RadixPrefix(sp) ELSE <<>>)
    \o (IF "0" \in sp.flags THEN Repeat("0", sp.width - RadixLength(sp, s)) ELSE <<>>)
    \o (IF sp.conv = "x" THEN Cased(sp, s) ELSE s)

\* StringUtils::ToString(value, 10) without its '-'.
Magnitude(v) == DigitText(Radix(IF v < 0 THEN -v ELSE v, 10))

DecimalText(sp, v) ==
    LeadingSign(sp, v < 0)
    \o LocalizedMagnitude(sp, Magnitude(v), AdjustWidth(sp, v < 0))
    \o TrailingSign(sp, v < 0)

\* Print(Long): 'd' prints sign, magnitude and sign; 'o' and 'x' refuse
\* '(', ' ' and '+' and print the unsigned digits; then Justify.
PrintLong(sp, L) ==
    CASE sp.conv = "d" -> Printed(NOERROR, Justify(sp, DecimalText(sp, L.v)))
      [] CheckBadFlags(sp, {"(", " ", "+"}) # NOERROR ->
            Failure(CheckBadFlags(sp, {"(", " ", "+"}))
      [] sp.conv = "o" -> Printed(NOERROR, Justify(sp, RadixText(sp, DigitText(UnsignedDigits(L, 3)))))
      [] OTHER -> Printed(NOERROR, Justify(sp, RadixText(sp, DigitText(UnsignedDigits(L, 4)))))

\* Print(IBigInteger*) is empty.
PrintBigInteger(sp, arg) == Printed(NOERROR, <<>>)

PrintInteger(sp, arg) ==
    CASE arg.type = "null" -> PrintText(sp, NullText)
      [] arg.type \in IntegralTypes -> PrintLong(sp, Widen(sp, arg))
      [] arg.type = "BigInteger" -> PrintBigInteger(sp, arg)
      [] OTHER -> Failure(IllegalConversion)

\* Print(Double) (Print(Float) widens): NaN, or the signs around
\* "Infinity" or around what Print(sb, v, ...) appends, which is nothing.
PrintDouble(sp, arg) ==
    Printed(NOERROR, Justify(sp,
        IF arg.fp = "NaN" THEN Cased(sp, NaNText)
        ELSE LeadingSign(sp, arg.int < 0)
             \o (IF arg.fp = "infinite" THEN Cased(sp, InfinityText) ELSE <<>>)
             \o TrailingSign(sp, arg.int < 0)))

\* Print(IBigDecimal*) refuses 'a' and appends the signs around what the
\* inner Print(sb, value, ...) appends, which is nothing.
PrintBigDecimal(sp, arg) ==
    IF sp.conv = "a" THEN Failure(IllegalConversion)
    ELSE Printed(NOERROR, Justify(sp, LeadingSign(sp, arg.int < 0) \o TrailingSign(sp, arg.int < 0)))

PrintFloat(sp, arg) ==
    CASE arg.type = "null" -> PrintText(sp, NullText)
      [] arg.type \in {"Float", "Double"} -> PrintDouble(sp, arg)
      [] arg.type = "BigDecimal" -> PrintBigDecimal(sp, arg)
      [] OTHER -> Failure(IllegalConversion)

\* PrintDateTime prints "null" for nullptr and nothing otherwise.
PrintDateTime(sp, arg) ==
    IF arg.type = "null" THEN PrintText(sp, NullText) ELSE Printed(NOERROR, <<>>)

\* Character::IsValidCodePoint.
IsValidCodePoint(i) == 0 <= i /\ i <= 1114111

\* String::ValueOfChar((Char)i): the letters, every other character as one.
CodePointText(i) ==
    CASE i \in 65..90 -> <<UpperLetters[i - 64]>>
      [] i \in 97..122 -> <<LowerLetters[i - 96]>>
      [] OTHER -> <<"?">>

PrintCharacter(sp, arg) ==
    CASE arg.type = "null" -> PrintText(sp, NullText)
      [] arg.type = "Char" -> PrintText(sp, arg.text)
      [] arg.type \in {"Byte", "Short", "Integer"} /\ IsValidCodePoint(arg.int) ->
            PrintText(sp, CodePointText(arg.int))
      [] arg.type \in {"Byte", "Short", "Integer"} -> Failure(IllegalCodePoint)
      [] OTHER -> Failure(IllegalConversion)

\* PrintString: an IFormattable writes itself through FormatTo, and control
\* then runs off the end of the function: the ECode is fallOff.
PrintString(sp, arg, fallOff) ==
    CASE arg.type = "Formattable" -> Printed(fallOff, arg.text)
      [] "#" \in sp.flags -> Failure(Mismatch)
      [] arg.type = "null" -> PrintText(sp, NullText)
      [] OTHER -> PrintText(sp, arg.text)

PrintBoolean(sp, arg) ==
    PrintText(sp, CASE arg.type = "null" -> FalseText
                    [] arg.type = "Boolean" -> arg.text
                    [] OTHER -> TrueText)

PrintHashCode(sp, arg) ==
    PrintText(sp, IF arg.type = "null" THEN NullText ELSE SignedText(arg.int, 16))

\* FormatSpecifier::Print: '%' and 'n' append without Justify.
PrintSpecifier(sp, arg, fallOff) ==
    CASE sp.dt -> PrintDateTime(sp, arg)
      [] sp.conv \in {"d", "o", "x"} -> PrintInteger(sp, arg)
      [] sp.conv \in {"e", "g", "f", "a"} -> PrintFloat(sp, arg)
      [] sp.conv = "c" -> PrintCharacter(sp, arg)
      [] sp.conv = "b" -> PrintBoolean(sp, arg)
      [] sp.conv = "s" -> PrintString(sp, arg, fallOff)
      [] sp.conv = "h" -> PrintHashCode(sp, arg)
      [] sp.conv = "n" -> Printed(NOERROR, LineSeparator)
      [] sp.conv = "%" -> Printed(NOERROR, <<"%">>)

-----------------------------------------------------------------------------
(* Flags::ToString and FormatSpecifier::ToString.                          *)

FlagOrder == <<"-", Uppercase, "#", "+", " ", "0", ",", "(", "<">>
FlagsToString(fs) == SelectSeq(FlagOrder, LAMBDA f : f \in fs)

\* '%', the flags but UPPERCASE, a positive index and '$', the width, '.'
\* and the precision, 't' or 'T', and the conversion, upper-cased under
\* UPPERCASE.
SpecifierToString(sp) ==
    <<"%">> \o FlagsToString(sp.flags \ {Uppercase})
    \o (IF sp.index > 0 THEN SignedText(sp.index, 10) \o <<"$">> ELSE <<>>)
    \o (IF sp.width # -1 THEN SignedText(sp.width, 10) ELSE <<>>)
    \o (IF sp.prec # -1 THEN <<".">> \o SignedText(sp.prec, 10) ELSE <<>>)
    \o (IF sp.dt THEN <<IF Uppercase \in sp.flags THEN "T" ELSE "t">> ELSE <<>>)
    \o <<IF Uppercase \in sp.flags THEN ToUpperCase(sp.conv) ELSE sp.conv>>

=============================================================================

---------------------------- MODULE MC_Operators ----------------------------
(* The pure operators of the project, each checked against a reference    *)
(* definition over every input of a bounded set.                          *)
(*                                                                         *)
(* The one variable is the input under test, chosen in the initial state: *)
(* a name of at most MaxLength characters drawn from Chars (one or two    *)
(* characters of each class CheckName tells apart), a sorted array and a  *)
(* key, an (arrayLength, offset, count) triple, or a small array with a   *)
(* range or a new length, over every W-bit Integer; a format string of at *)
(* most FormatLength characters from FormatChars, or a format string made  *)
(* of at most three FormatPieces with an argument count (-1: no array);   *)
(* an InputStream buffer, range and stream of outcomes, or a skip count.   *)
EXTENDS CharsetName, Arrays

CONSTANTS
    Chars,         \* the characters names are made of
    MaxLength,     \* the longest name checked
    FormatChars,   \* the characters format strings are made of
    FormatLength,  \* the longest format string checked character by character
    MaxSkip        \* InputStream's MAX_SKIP_BUFFER_SIZE

\* The pieces of the format strings Format is checked on: ordinary, relative
\* and explicit indexes, a text conversion and a fixed string.
FormatPieces == {<<"%", "s">>, <<"%", "<", "s">>, <<"%", "2", "$", "s">>,
                 <<"%", "1", "$", "s">>, <<"%", "n">>, <<"a">>}

Fmt == INSTANCE Formatter
IS == INSTANCE InputStream
Pr == INSTANCE FormatterPrint
SX == INSTANCE SequencesExt
CG == INSTANCE CodeGenerator

\* Streams of at most three outcomes: two byte values (one above 127, whose
\* (Byte) cast is negative), end of stream, and a failing read.
Streams == UNION {[1..n -> {5, 200, -1, IS!ReadFailed}] : n \in 0..3}
\* Skip's streams are one longer, so that a chunk may read past byteCount.
SkipStreams == UNION {[1..n -> {5, -1, IS!ReadFailed}] : n \in 0..4}

\* What FormatSpecifier::Constructor returns when every check passes: the
\* function has no return statement there, so either outcome is possible.
FallOffs == {Fmt!NOERROR, "E_UNDEFINED"}

\* The specifiers FormatSpecifier::Print is checked on: every accepted
\* combination of at most two flags, no width, a width below and one above
\* the longest Byte/Short/Integer digits, and a conversion of every kind;
\* and explicit indexes with a flag and a width.
PrintFlags == {<<>>, <<"#">>, <<"0">>, <<"-">>, <<"#", "0">>, <<"+">>,
               <<"(">>, <<" ">>, <<"<">>}
PrintWidths == {<<>>, <<"3">>, <<"1", "2">>}
PrintConversions == {<<"d">>, <<"o">>, <<"x">>, <<"X">>, <<"c">>, <<"C">>,
                     <<"s">>, <<"S">>, <<"b">>, <<"h">>, <<"%">>, <<"n">>,
                     <<"f">>, <<"E">>, <<"a">>, <<"t", "H">>, <<"T", "d">>}
PrintSpecStrings ==
    {<<"%">> \o f \o w \o c : f \in PrintFlags, w \in PrintWidths, c \in PrintConversions}
    \cup {<<"%", ".", "1">> \o c : c \in {<<"s">>, <<"S">>, <<"b">>, <<"h">>}}
    \cup {<<"%", "1", "$", "-", "3", "s">>, <<"%", "2", "$", "0", "3", "d">>}
\* The specifier FormatSpecifier::Constructor makes of each accepted one.
PrintSpecs ==
    {Fmt!Parse(s, Fmt!NOERROR).pieces[1].spec :
        s \in {t \in PrintSpecStrings : Fmt!Parse(t, Fmt!NOERROR).ec = Fmt!NOERROR}}

\* Arguments of every type the Print functions tell apart, with the text
\* Object::ToString gives them: the extreme and -1 values of each integral
\* type, letters, an invalid code point, and signed floating values.
Arg(type, int, text, fp) == [type |-> type, int |-> int, text |-> text, fp |-> fp]
PrintArgs ==
    {Arg("null", 0, <<>>, "none"),
     Arg("Byte", -1, <<"-", "1">>, "none"), Arg("Byte", -128, <<"-", "1", "2", "8">>, "none"),
     Arg("Byte", 97, <<"9", "7">>, "none"), Arg("Short", -1, <<"-", "1">>, "none"),
     Arg("Integer", -1, <<"-", "1">>, "none"), Arg("Integer", 65, <<"6", "5">>, "none"),
     Arg("Integer", 1114112, <<"1", "1", "1", "4", "1", "1", "2">>, "none"),
     Arg("Long", -1, <<"-", "1">>, "none"), Arg("Long", 42, <<"4", "2">>, "none"),
     Arg("Char", 97, <<"a">>, "none"), Arg("Boolean", 0, <<"f", "a", "l", "s", "e">>, "none"),
     Arg("String", 26, <<"a", "b">>, "none"), Arg("Object", -26, <<"o", "b">>, "none"),
     Arg("Formattable", 7, <<"f", "o">>, "none"),
     Arg("Double", -1, <<"-", "I", "n", "f">>, "infinite"), Arg("Double", 1, <<"N", "a", "N">>, "NaN"),
     Arg("Float", -1, <<"-", "1", ".", "5">>, "finite"),
     Arg("BigDecimal", -1, <<"-", "1">>, "finite"), Arg("BigInteger", 5, <<"5">>, "none")}

VARIABLE input

AllNames == UNION {[1..n -> Chars] : n \in 0..MaxLength}

\* The strictly increasing array of the values in S, indexed from 0.
SortedArray(S) ==
    [i \in 0..Cardinality(S) - 1 |-> CHOOSE x \in S : Cardinality({y \in S : y < x}) = i]

\* Arrays of at most MaxInt elements: the longest an Integer length allows.
SortedArrays == {SortedArray(S) : S \in {T \in SUBSET (0..MaxInt) : Cardinality(T) <= MaxInt}}
SmallArrays == UNION {[0..n - 1 -> {0, 1}] : n \in 0..3}

\* Digit arrays of at most three characters with at most one dot.
DigitArrays == {v \in UNION {[1..n -> {"1", "."}] : n \in 0..3} :
                   Cardinality({j \in DOMAIN v : v[j] = "."}) <= 1}

\* Namespaces as the metadata names them: identifiers (one of one and one
\* of two characters), each followed by "::" (GenerateInterfaceDeclaration
\* writes an interface's namespace and name with nothing in between), and
\* the empty name; cs keeps the identifiers the name is made of.
Identifiers == {<<"a">>, <<"b", "c">>}
JoinNamespace(cs) == SX!FoldLeft(LAMBDA acc, c : acc \o c \o CG!Sep, <<>>, cs)
MetaNamespaces(i) ==
    {[cs |-> cs, name |-> JoinNamespace(cs), enumerations |-> e, interfaces |-> f] :
        cs \in {<<>>} \cup [1..1 -> Identifiers] \cup [1..2 -> Identifiers],
        e \in 0..1, f \in {<<>>, <<<<i, 1>>>>, <<<<i, 1>>, <<i, 2>>>>}}
\* At most two namespaces; interface <<i, j>> is the j-th of the i-th.
MetaNamespaceLists ==
    {<<>>} \cup {<<m>> : m \in MetaNamespaces(1)}
    \cup {<<m, n>> : m \in MetaNamespaces(1), n \in MetaNamespaces(2)}

Inputs ==
    [kind : {"name"}, name : AllNames]
    \cup [kind : {"search"}, a : SortedArrays, key : -1..MaxInt + 1]
    \cup [kind : {"offset"}, len : 0..MaxInt, offset : Int32, count : Int32]
    \cup [kind : {"fill"}, a : SmallArrays, from : Int32, to : Int32]
    \cup [kind : {"copy"}, a : SmallArrays, len : -1..MaxInt]
    \cup [kind : {"fparse"}, s : UNION {[1..n -> FormatChars] : n \in 0..FormatLength}]
    \cup [kind : {"format"}, s : {p[1] \o p[2] \o p[3] :
                p \in (FormatPieces \cup {<<>>}) \X (FormatPieces \cup {<<>>}) \X (FormatPieces \cup {<<>>})},
          nargs : -1..2, fallOff : FallOffs]
    \cup [kind : {"read"}, stream : Streams, buffer : UNION {[0..n - 1 -> {0}] : n \in 0..3},
          offset : -1..3, size : -1..3]
    \cup [kind : {"skip"}, stream : SkipStreams, count : -1..4]
    \cup [kind : {"print"}, spec : PrintSpecs, arg : PrintArgs, fallOff : FallOffs]
    \cup [kind : {"zeros"}, v : DigitArrays, prec : 0..3]
    \cup [kind : {"header"}, mns : MetaNamespaceLists]

Init == input \in Inputs
Next == UNCHANGED input
Spec == Init /\ [][Next]_input

\* What binary search promises: the index of key, or -(insertion point + 1).
SearchResult(a, key) ==
    IF \E i \in DOMAIN a : a[i] = key THEN CHOOSE i \in DOMAIN a : a[i] = key
    ELSE -(Cardinality({i \in DOMAIN a : a[i] < key}) + 1)

\* CheckName accepts exactly the legal names: the empty name, punctuation
\* in first position and characters outside the classes are refused.
CheckNameIsLegalName ==
    input.kind = "name" => (CheckName(input.name) <=> LegalName(input.name))

\* BinarySearch finds every key in every sorted array, also where
\* low + high exceeds MaxInt and the midpoint must be computed unsigned.
BinarySearchFindsKey ==
    input.kind = "search" =>
        BinarySearch(input.a, input.key) = SearchResult(input.a, input.key)

\* CheckOffsetAndCount accepts exactly the ranges inside the array, also
\* where offset + count wraps around.
CheckOffsetAndCountIsBounds ==
    input.kind = "offset" =>
        LET len == input.len  o == input.offset  c == input.count IN
        (CheckOffsetAndCount(len, o, c) = NOERROR)
            <=> (0 <= o /\ 0 <= c /\ o + c <= len)

\* The ranged Fill writes exactly [fromIndex, toIndex) when that range is
\* inside the array and fails without writing otherwise; Fill(a, value)
\* writes every element; CopyOf reads only the original's elements and
\* pads with null.
FillAndCopyOfStayInBounds ==
    LET a == input.a  n == Length(input.a) IN
    /\ input.kind = "fill" =>
          LET f == Fill(a, input.from, input.to, 2) IN
          /\ f.wrote \subseteq DOMAIN a
          /\ (f.ec = NOERROR) <=> (0 <= input.from /\ input.from <= input.to /\ input.to <= n)
          /\ \A i \in DOMAIN a : f.array[i] = IF i \in f.wrote THEN 2 ELSE a[i]
          /\ FillAll(a, 2) = [i \in DOMAIN a |-> 2]
    /\ input.kind = "copy" =>
          LET c == CopyOf(a, input.len, 9) IN
          /\ c.read \subseteq DOMAIN a
          /\ (c.ec = NOERROR) <=> input.len >= 0
          /\ c.ec = NOERROR =>
               \A i \in 0..input.len - 1 : c.array[i] = IF i < n THEN a[i] ELSE 9

-----------------------------------------------------------------------------
(* The format grammar of the Java Formatter this class ports: an optional *)
(* index (digits and '$'), flags, an optional width (digits), an optional  *)
(* precision ('.' and digits), an optional 't' or 'T', and a conversion    *)
(* letter or '%', each optional group matched greedily.  A match of the specifier whose '%' is at p is the    *)
(* tuple of the lengths of the first five groups; the conversion follows.  *)
Letters == {"A","B","C","D","E","F","G","H","I","J","K","L","M","N","O","P","Q",
            "R","S","T","U","V","W","X","Y","Z","a","b","c","d","e","f","g","h",
            "i","j","k","l","m","n","o","p","q","r","s","t","u","v","w","x","y","z"}
AllIn(s, from, n, S) == \A i \in from..from + n - 1 : s[i] \in S
LengthTuples == {l \in [1..5 -> 0..FormatLength] :
                    l[1] + l[2] + l[3] + l[4] + l[5] < FormatLength}
GroupStart(p, l, g) ==
    LET before[h \in 0..5] == IF h = 0 THEN 0 ELSE before[h - 1] + l[h] IN
    p + 1 + before[g - 1]
Matches(s, p, l) ==
    LET q(g) == GroupStart(p, l, g)  conv == GroupStart(p, l, 6) IN
    /\ conv <= Len(s) /\ s[conv] \in Letters \cup {"%"}
    /\ l[1] # 0 => l[1] >= 2 /\ AllIn(s, q(1), l[1] - 1, Fmt!Digits) /\ s[q(2) - 1] = "$"
    /\ AllIn(s, q(2), l[2], Fmt!FlagChars)
    /\ AllIn(s, q(3), l[3], Fmt!Digits)
    /\ l[4] # 0 => l[4] >= 2 /\ s[q(4)] = "." /\ AllIn(s, q(4) + 1, l[4] - 1, Fmt!Digits)
    /\ l[5] # 0 => l[5] = 1 /\ s[q(5)] \in {"t", "T"}
LexGeq(l, m) ==
    \/ l = m
    \/ \E g \in 1..5 : l[g] > m[g] /\ \A h \in 1..g - 1 : l[h] = m[h]
\* The lexicographically greatest of the matches ms.
Greediest(ms) == IF ms = {} THEN <<>> ELSE CHOOSE l \in ms : \A m \in ms : LexGeq(l, m)
GreedyMatch(s, p) == Greediest({l \in LengthTuples : Matches(s, p, l)})

\* The argument the k-th piece prints: an explicit index names it, an
\* ordinary one takes the next in order, '<' takes the one the previous
\* specifier printed (-1 when there is none).
RECURSIVE ArgumentOf(_, _)
ArgumentOf(fs, k) ==
    LET before == {j \in 1..k - 1 : fs[j].index # -2} IN
    CASE fs[k].index > 0 -> fs[k].index - 1
      [] fs[k].index = 0 -> Cardinality({j \in 1..k - 1 : fs[j].index = 0})
      [] before = {} -> -1
      [] OTHER -> ArgumentOf(fs, CHOOSE j \in before : \A i \in before : i <= j)

RECURSIVE ArgumentsBefore(_, _, _)
ArgumentsBefore(fs, k, stop) ==
    IF k >= stop THEN <<>>
    ELSE (IF fs[k].index = -2 THEN <<>> ELSE <<ArgumentOf(fs, k)>>)
         \o ArgumentsBefore(fs, k + 1, stop)

\* The pieces ps of a successful parse p of s tile s, and each is a greedy
\* match of the grammar or a maximal fixed string.
SplitByGrammar(s, p) ==
    p.ec = Fmt!NOERROR =>
        /\ \A k \in DOMAIN p.pieces :
              /\ p.pieces[k].from = IF k = 1 THEN 1 ELSE p.pieces[k - 1].to + 1
              /\ IF s[p.pieces[k].from] = "%"
                 THEN /\ GreedyMatch(s, p.pieces[k].from) = p.pieces[k].fields
                      /\ p.pieces[k].to = GroupStart(p.pieces[k].from, p.pieces[k].fields, 6)
                 ELSE /\ \A i \in p.pieces[k].from..p.pieces[k].to : s[i] # "%"
                      /\ (p.pieces[k].to < Len(s) => s[p.pieces[k].to + 1] = "%")
        /\ (p.pieces = <<>> => s = <<>>)
        /\ (p.pieces # <<>> => p.pieces[Len(p.pieces)].to = Len(s))

\* A parse accepts a string only by splitting it into maximal fixed strings
\* and specifiers that each match the grammar greedily, field for field;
\* the cursor arithmetic of FormatSpecifierParser (NextInt, Back over a
\* '0', the flags loop, Peek at the end) loses and re-reads no character.
ParseMatchesGrammar ==
    input.kind = "fparse" => SplitByGrammar(input.s, Fmt!Parse(input.s, Fmt!NOERROR))

\* The specifiers of a successful parse p obey the Java rules.
SpecifiersWellFormed(p) ==
    p.ec = Fmt!NOERROR =>
        \A sp \in {p.pieces[k].spec : k \in DOMAIN p.pieces} :
            /\ ~sp.fnull
            /\ sp.flags \cap {"-", "0"} # {} => sp.width # -1
            /\ ~({"-", "0"} \subseteq sp.flags)
            /\ sp.prec # -1 => ~sp.dt /\ (Fmt!IsGeneral(sp.conv) \/ Fmt!IsFloat(sp.conv))
            /\ sp.conv = "n" => sp.flags = {} /\ sp.width = -1

\* Every specifier Parse accepts obeys the Java rules: '-' and '0' need a
\* width, '-' and '0' exclude each other, a precision only on general and
\* floating conversions, no width or flags on %n, and mF is never null.
AcceptedSpecifiersWellFormed ==
    input.kind = "fparse" => SpecifiersWellFormed(Fmt!Parse(input.s, Fmt!NOERROR))

\* The specifiers of fs that name no argument of the nargs given.
Unreferenced(fs, nargs) ==
    {k \in DOMAIN fs : fs[k].index # -2 /\
        (ArgumentOf(fs, k) < 0 \/ (nargs >= 0 /\ ArgumentOf(fs, k) > nargs - 1))}

\* f reads the arguments of fs up to the first of bad, and fails if there is one.
ReadsUpToFirst(fs, bad, f) ==
    f = [ec |-> IF bad = {} THEN Fmt!NOERROR ELSE Fmt!MissingArgument,
         reads |-> ArgumentsBefore(fs, 1, IF bad = {} THEN Len(fs) + 1
                                          ELSE CHOOSE k \in bad : \A j \in bad : k <= j)]

\* Format's result f after a successful parse p.
PrintsReferenced(p, nargs, f) ==
    p.ec = Fmt!NOERROR => ReadsUpToFirst(p.pieces, Unreferenced(p.pieces, nargs), f)

\* Format prints, for each specifier, the argument ArgumentOf names, and
\* stops with E_MISSING_FORMAT_ARGUMENT_EXCEPTION at the first one that
\* names no argument: the running last / lasto of the loop agree with it.
FormatPrintsReferencedArguments ==
    input.kind = "format" =>
        PrintsReferenced(Fmt!Parse(input.s, input.fallOff), input.nargs,
                         Fmt!Format(input.s, input.nargs, input.fallOff))

-----------------------------------------------------------------------------
(* FormatSpecifier::Print.  The references: Java's Formatter prints 'o'  *)
(* and 'x' of a negative value as the digits of value + 2^bits, bits the  *)
(* width of its type, and pads to the width; ToString gives back the       *)
(* specifier it was parsed from.                                           *)

\* The value of the digits ds in base b.
DigitsValue(ds, b) == SX!FoldLeft(LAMBDA acc, d : acc * b + d, 0, ds)

RECURSIVE BaseDigits(_, _)
BaseDigits(n, b) == IF n < b THEN <<n>> ELSE BaseDigits(n \div b, b) \o <<n % b>>

\* The sum of the digit sequences a and b, least significant digit first.
RECURSIVE DigitSum(_, _, _, _)
DigitSumStep(a, b, base, x) ==
    <<x % base>> \o DigitSum(IF a = <<>> THEN <<>> ELSE Tail(a),
                             IF b = <<>> THEN <<>> ELSE Tail(b), base, x \div base)
DigitSum(a, b, base, carry) ==
    IF a = <<>> /\ b = <<>> THEN (IF carry = 0 THEN <<>> ELSE <<carry>>)
    ELSE DigitSumStep(a, b, base,
                      (IF a = <<>> THEN 0 ELSE Head(a)) + (IF b = <<>> THEN 0 ELSE Head(b)) + carry)

\* 2^bits in base 2^k, least significant digit first.
PowerDigits(bits, k) == [i \in 1..bits \div k |-> 0] \o <<2^(bits % k)>>

\* ds, read in base 2^k, is value when value >= 0, else value + 2^bits.
IsUnsigned(ds, value, bits, k) ==
    IF value >= 0 THEN DigitsValue(ds, 2^k) = value
    ELSE DigitSum(SX!Reverse(ds), SX!Reverse(BaseDigits(-value, 2^k)), 2^k, 0)
            = PowerDigits(bits, k)

LowerDigits == <<"0","1","2","3","4","5","6","7","8","9","a","b","c","d","e","f">>
UpperDigits == <<"0","1","2","3","4","5","6","7","8","9","A","B","C","D","E","F">>
\* The digit values of the characters t, in the case upper selects.
DigitValues(t, upper) ==
    [i \in DOMAIN t |-> CHOOSE d \in 0..15 :
                          (IF upper THEN UpperDigits ELSE LowerDigits)[d + 1] = t[i]]
IsDigitText(t, k, upper) ==
    \A i \in DOMAIN t : \E d \in 0..2^k - 1 :
        (IF upper THEN UpperDigits ELSE LowerDigits)[d + 1] = t[i]

RECURSIVE WithoutLeadingZeros(_)
WithoutLeadingZeros(t) ==
    IF Len(t) > 1 /\ t[1] = "0" THEN WithoutLeadingZeros(Tail(t)) ELSE t

\* The indicator '#' asks for: "0" for octal, "0x" or "0X" for hex.
Indicator(sp) ==
    IF sp.conv = "o" THEN <<"0">> ELSE IF Fmt!Uppercase \in sp.flags THEN <<"0", "X">> ELSE <<"0", "x">>

\* body, stripped of the indicator, is the digits of the value (with zeros
\* before them only under '0', which fill body to exactly the width).
RadixBody(sp, arg, body, digits, k) ==
    /\ IsDigitText(digits, k, Fmt!Uppercase \in sp.flags)
    /\ body = (IF "#" \in sp.flags THEN Indicator(sp) ELSE <<>>) \o digits
    /\ IsUnsigned(DigitValues(WithoutLeadingZeros(digits), Fmt!Uppercase \in sp.flags),
                  arg.int, IF arg.type = "Long" THEN 64 ELSE Pr!Bits[arg.type], k)
    /\ IF "0" \in sp.flags
       THEN Len(body) = IF sp.width > Len(body) - Len(digits) + Len(WithoutLeadingZeros(digits))
                        THEN sp.width
                        ELSE Len(body) - Len(digits) + Len(WithoutLeadingZeros(digits))
       ELSE digits = WithoutLeadingZeros(digits)

\* out is body padded with spaces to the width, on the side '-' selects.
PaddedBody(sp, out, body) ==
    /\ Len(out) = IF sp.width > Len(body) THEN sp.width ELSE Len(body)
    /\ IF "-" \in sp.flags THEN SubSeq(out, 1, Len(body)) = body
       ELSE SubSeq(out, Len(out) - Len(body) + 1, Len(out)) = body

RadixOutputBody(sp, arg, out, body) ==
    /\ PaddedBody(sp, out, body)
    /\ RadixBody(sp, arg, body,
                 SubSeq(body, IF "#" \in sp.flags THEN Len(Indicator(sp)) + 1 ELSE 1, Len(body)),
                 IF sp.conv = "o" THEN 3 ELSE 4)

RadixOutput(sp, arg, out) == RadixOutputBody(sp, arg, out, SelectSeq(out, LAMBDA c : c # " "))

\* %o and %x print the digits of the value as an unsigned number of its
\* own type's width (Print(Byte/Short/Integer) add 2^8, 2^16, 2^32 to a
\* negative value, ToOctalString/ToHexString print a negative Long's 64
\* bits), after '#''s indicator and '0''s zeros, which together with the
\* digits fill exactly the width, and justified to the width.
RadixPrintsUnsignedValue ==
    input.kind = "print" /\ input.spec.conv \in {"o", "x"} /\ ~input.spec.dt
    /\ input.arg.type \in Pr!IntegralTypes
    /\ Pr!PrintSpecifier(input.spec, input.arg, input.fallOff).ec = Fmt!NOERROR
    => RadixOutput(input.spec, input.arg, Pr!PrintSpecifier(input.spec, input.arg, input.fallOff).out)

\* ToString of a specifier, parsed, yields that specifier.
Reparsed(sp, p) ==
    p.ec = Fmt!NOERROR /\ Len(p.pieces) = 1 /\ p.pieces[1].spec = sp

SpecifierReparses(sp) ==
    sp.conv # "none" /\ ~sp.dt => Reparsed(sp, Fmt!Parse(Pr!SpecifierToString(sp), Fmt!NOERROR))
PiecesReparse(p) ==
    p.ec = Fmt!NOERROR => \A k \in DOMAIN p.pieces : SpecifierReparses(p.pieces[k].spec)

\* FormatSpecifier::ToString (used in the exception messages) writes a
\* specifier that parses back to the same index, flags, width, precision
\* and conversion, for every specifier Parse accepts but a date/time one.
SpecifierToStringReparses ==
    /\ input.kind = "fparse" => PiecesReparse(Fmt!Parse(input.s, Fmt!NOERROR))
    /\ input.kind = "print" => SpecifierReparses(input.spec)

\* Every specifier with a width prints at least width characters: Justify
\* pads what it prints (not checked: date/time conversions, whose printing
\* is a stub, and an IFormattable argument, which pads itself in FormatTo).
\* CheckText accepts a width on "%%" and insists on one with '-'.
PrintedPaddedToWidth ==
    input.kind = "print" /\ input.spec.width # -1 /\ ~input.spec.dt
    /\ input.arg.type # "Formattable"
    /\ Pr!PrintSpecifier(input.spec, input.arg, input.fallOff).ec = Fmt!NOERROR
    => Len(Pr!PrintSpecifier(input.spec, input.arg, input.fallOff).out) >= input.spec.width

-----------------------------------------------------------------------------
\* The number of byte outcomes at the head of the stream, at most k.
LeadingBytes(stream, k) ==
    LET ok == {n \in 0..k : \A j \in 1..n : IS!ReadOne(stream, j) \in 0..255} IN
    CHOOSE n \in ok : \A m \in ok : m <= n

\* Read(buffer, offset, size) fails exactly on a range outside the buffer,
\* returns a failing first read's ECode with the buffer untouched, and
\* otherwise stores (Byte) of each byte before the first -1 or failure, at
\* most size of them, from offset on, returns their number (-1 at end of
\* stream) and consumes exactly one more outcome when it stopped early.
ReadFillsFromStream ==
    input.kind = "read" =>
        LET b == input.buffer  o == input.offset  z == input.size  st == input.stream
            r == IS!Read(b, o, z, st, 1)
            n == LeadingBytes(st, z)
            inBounds == 0 <= o /\ 0 <= z /\ o + z <= IS!BufferLength(b)
        IN /\ (r.ec = IS!IndexOutOfBounds) <=> ~inBounds
           /\ (inBounds /\ z > 0 /\ IS!ReadOne(st, 1) = IS!ReadFailed) =>
                 r.ec = IS!IoFailure /\ r.buffer = b
           /\ r.ec = IS!NOERROR =>
                 /\ r.number = IF z = 0 THEN 0 ELSE IF n = 0 THEN -1 ELSE n
                 /\ r.buffer = [i \in DOMAIN b |->
                                  IF o <= i /\ i < o + n THEN IS!ToByte(st[i - o + 1]) ELSE b[i]]
                 /\ r.pos = 1 + n + (IF 0 < z /\ n < z THEN 1 ELSE 0)

\* A successful Skip(byteCount) reports exactly the bytes it consumed from
\* the stream, never more than byteCount, and fewer only at end of stream.
SkipReportsBytesConsumed ==
    input.kind = "skip" =>
        LET r == IS!Skip(input.count, MaxSkip, input.stream, 1)
            read == {j \in 1..r.pos - 1 : IS!ReadOne(input.stream, j) \in 0..255}
        IN r.ec = IS!NOERROR =>
              /\ r.number = Cardinality(read)
              /\ r.number <= IF input.count < 0 THEN 0 ELSE input.count
              /\ r.number < input.count =>
                    \E j \in 1..r.pos - 1 : IS!ReadOne(input.stream, j) = -1


\* The digits after the dot of a digit array, none when it has no dot.
Precision(v) ==
    LET d == SX!SelectInSeq(v, LAMBDA c : c = ".") IN IF d = 0 THEN 0 ELSE Len(v) - d

\* FormatSpecifier::AddZeros pads a digit array to exactly the precision
\* asked for: its CHECK aborts only when the array already has more digits
\* after its dot; otherwise the array is kept as a prefix, followed by a
\* dot (only when it had none and zeros are added) and zeros.  AddDot then
\* TrailingZeros(n) leaves n digits after the dot.
ZeroPaddingReachesPrecision ==
    input.kind = "zeros" =>
        LET v == input.v
            r == Pr!AddZeros(v, input.prec)
            dots(u) == Cardinality({j \in DOMAIN u : u[j] = "."})
        IN /\ r.ok <=> Precision(v) <= input.prec
           /\ r.ok => /\ SX!IsPrefix(v, r.chars)
                      /\ Precision(r.chars) = input.prec
                      /\ dots(r.chars) = IF dots(v) = 0 /\ input.prec > 0 THEN 1 ELSE dots(v)
                      /\ \A j \in Len(v) + 1..Len(r.chars) : r.chars[j] \in {"0", "."}
           /\ dots(v) = 0 => Precision(Pr!TrailingZeros(Pr!AddDot(v), input.prec)) = input.prec

-----------------------------------------------------------------------------
\* The C++ scope of events ev read from the namespace stack stack on:
\* every closing brace closes the innermost open namespace, and its comment
\* names it; every interface <<i, j>> is declared with exactly the
\* identifiers of the i-th namespace open; nothing is left open.
RECURSIVE Nested(_, _, _)
Nested(ev, stack, mns) ==
    IF ev = <<>> THEN stack = <<>>
    ELSE LET e == Head(ev) IN
         CASE e[1] = "open" -> Nested(Tail(ev), Append(stack, e[2]), mns)
           [] e[1] = "close" -> /\ stack # <<>>
                                /\ stack[Len(stack)] = e[2]
                                /\ Nested(Tail(ev), SubSeq(stack, 1, Len(stack) - 1), mns)
           [] OTHER -> stack = mns[e[2][1]].cs /\ Nested(Tail(ev), stack, mns)

\* The header GenerateTypeDeclarations writes is well nested: for every
\* metadata namespace name, GenerateNamespaceEnd's backward LastIndexOf walk
\* closes, innermost first, exactly the namespaces GenerateNamespaceBegin's
\* forward IndexOf walk opened, so each interface is declared inside its own
\* namespace and the next namespace starts at file scope.
HeaderNamespacesNested ==
    input.kind = "header" => Nested(CG!TypeDeclarations(input.mns), <<>>, input.mns)

=============================================================================

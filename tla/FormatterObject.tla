--------------------------- MODULE FormatterObject ---------------------------
(* The Formatter object of src/src/libcore/src/ccm/util/Formatter.cpp: its *)
(* constructors, Format, Flush, Close, the getters and GetIoException, as *)
(* one caller uses them (the class takes no lock).                         *)
(*                                                                         *)
(* The destination mA is "builder" (a CStringBuilder: neither Flushable   *)
(* nor Closeable, its Append never fails), "writer" (a CBufferedWriter or *)
(* a caller's IPrintStream: Flushable and Closeable, and any Append, Flush *)
(* or Close of it may fail with an IOException) or "null" once closed;     *)
(* "none" stands for no object, before a constructor has succeeded.  The  *)
(* classes behind mA, the file and stream classes and Charset::ForName are *)
(* abstracted to their outcomes: a file that cannot be opened, a charset   *)
(* name that is null, supported or not.  The locale and mZero are left     *)
(* out: GetZero always answers '0' and nothing reads mL but Print.  The    *)
(* header declaring mLastException is not in the repository; it is taken  *)
(* to start as NOERROR, as the Java field it ports starts as null.         *)
EXTENDS FormatterPrint

CONSTANTS
    FormatStrings,     \* the format strings Format is called with
    ArgLists,          \* the args arrays: [nargs, vals], nargs = -1 for nullptr
    SupportedCharsets, \* the charset names Charset::ForName finds
    CharsetNames,      \* the charset names passed, "null" among them
    FallOffs,          \* what FormatSpecifier::Constructor returns on success
    MaxCalls           \* the calls made on one formatter

NullPointer == "E_NULL_POINTER_EXCEPTION"
UnsupportedEncoding == "E_UNSUPPORTED_ENCODING_EXCEPTION"
FileNotFound == "E_FILE_NOT_FOUND_EXCEPTION"
IOError == "E_IO_EXCEPTION"
FormatterClosed == "E_FORMATTER_CLOSED_EXCEPTION"

VARIABLES
    mA,            \* the destination, "null" once closed, "none" before
    out,           \* the characters the destination has accepted
    mLastException,
    op,            \* the last call made
    ret,           \* the ECode it returned (GetIoException: the one it read)
    closeCalled,   \* Close has been called on the formatter
    specFault,     \* the destination refused an Append of a FormatSpecifier
                   \* in the last call
    calls          \* the calls made

vars == <<mA, out, mLastException, op, ret, closeCalled, specFault, calls>>

-----------------------------------------------------------------------------
(* Constructors: the result is the ECode and the destination made.         *)
Opened(a) == [ec |-> NOERROR, a |-> a]
Refused(ec) == [ec |-> ec, a |-> "none"]

\* ToCharset: a null name, or one Charset::ForName fails on.
ToCharset(csn) ==
    CASE csn = "null" -> NullPointer
      [] csn \in SupportedCharsets -> NOERROR
      [] OTHER -> UnsupportedEncoding

\* NonNullAppendable: a new CStringBuilder for a null appendable.
NonNullAppendable(a) == IF a = "null" THEN "builder" ELSE a

\* Constructor(l, a): mA = a, mL = l, mZero = GetZero(l).
ConstructorLocaleAppendable(a) == Opened(a)

\* Constructor(charset, l, file), and the file and file-name constructors
\* without a charset: a CFileOutputStream, which fails on a file that cannot
\* be opened, under a COutputStreamWriter and a CBufferedWriter.
ConstructorCharsetFile(opens) ==
    IF opens THEN ConstructorLocaleAppendable("writer") ELSE Refused(FileNotFound)

\* Constructor(fileName, csn, l) and Constructor(file, csn, l): the charset
\* is looked up first.
ConstructorCsnFile(csn, opens) ==
    IF ToCharset(csn) # NOERROR THEN Refused(ToCharset(csn))
    ELSE ConstructorCharsetFile(opens)

\* Constructor(ps): a null print stream is refused, else mA is the stream.
ConstructorPrintStream(ps) ==
    IF ps = "null" THEN Refused(NullPointer) ELSE ConstructorLocaleAppendable(ps)

\* Constructor(os, csn, l): COutputStreamWriter::New(os, csn) refuses a
\* null or unsupported charset name.
ConstructorOutputStreamCsn(csn) ==
    CASE csn = "null" -> Refused(NullPointer)
      [] csn \notin SupportedCharsets -> Refused(UnsupportedEncoding)
      [] OTHER -> ConstructorLocaleAppendable("writer")

\* The public constructors, by their parameter lists.
Constructors == {"()", "(a)", "(l)", "(a,l)", "(fileName)", "(fileName,csn)",
                 "(fileName,csn,l)", "(file)", "(file,csn)", "(file,csn,l)",
                 "(ps)", "(os)", "(os,csn)", "(os,csn,l)"}

ConstructorResult(ctor, a, csn, opens) ==
    CASE ctor \in {"()", "(l)"} -> ConstructorLocaleAppendable("builder")
      [] ctor \in {"(a)", "(a,l)"} -> ConstructorLocaleAppendable(NonNullAppendable(a))
      [] ctor \in {"(fileName)", "(file)"} -> ConstructorCharsetFile(opens)
      [] ctor \in {"(fileName,csn)", "(fileName,csn,l)", "(file,csn)", "(file,csn,l)"} ->
            ConstructorCsnFile(csn, opens)
      [] ctor = "(ps)" -> ConstructorPrintStream(a)
      [] ctor = "(os)" -> ConstructorLocaleAppendable("writer")
      [] ctor \in {"(os,csn)", "(os,csn,l)"} -> ConstructorOutputStreamCsn(csn)

Init ==
    /\ mA = "none"
    /\ out = <<>>
    /\ mLastException = NOERROR
    /\ op = "none"
    /\ ret = NOERROR
    /\ closeCalled = FALSE
    /\ specFault = FALSE
    /\ calls = 0

\* CFormatter::New with one of the constructors; a failed constructor
\* leaves no object.
Construct(ctor, a, csn, opens) ==
    /\ mA = "none"
    /\ LET r == ConstructorResult(ctor, a, csn, opens)
       IN /\ mA' = r.a
          /\ ret' = r.ec
    /\ op' = "Constructor"
    /\ UNCHANGED <<out, mLastException, closeCalled, specFault, calls>>

-----------------------------------------------------------------------------
(* Format(l, format, args).  Parse and the loop choosing each specifier's *)
(* argument are Formatter's Parse and FormatFrom; what each piece appends *)
(* is FormatterPrint's.  A destination refusing an Append is the set of   *)
(* pieces, among those printed, whose Append fails.                       *)
NullArgument == [type |-> "null", int |-> 0, text |-> <<>>, fp |-> "none"]

\* (*args)[i], or nullptr when there is no args array.
ArgumentAt(args, i) == IF args.nargs = -1 THEN NullArgument ELSE args.vals[i + 1]

\* The number of pieces up to k that take an argument.
Indexed(pieces, k) == Cardinality({i \in 1..k : pieces[i].index # -2})

\* The pieces Format prints before it returns: all of them, or those before
\* the specifier whose argument is missing.
Reached(pieces, r) ==
    IF r.ec = NOERROR THEN Len(pieces)
    ELSE (CHOOSE k \in 1..Len(pieces) :
            pieces[k].index # -2 /\ Indexed(pieces, k) = Len(r.reads) + 1) - 1

\* What printing piece pc appends and returns.  FixedString::Print drops
\* the result of its Append; a FormatSpecifier returns it.  fault: a
\* specifier's Append was refused.
PieceResult(s, pc, arg, fallOff, refused) ==
    IF pc.spec.conv = "none"
    THEN [ec |-> NOERROR, text |-> IF refused THEN <<>> ELSE SubSeq(s, pc.from, pc.to),
          fault |-> FALSE]
    ELSE LET pr == PrintSpecifier(pc.spec, arg, fallOff)
         IN IF pr.ec = NOERROR /\ refused
            THEN [ec |-> IOError, text |-> <<>>, fault |-> TRUE]
            ELSE [ec |-> pr.ec, text |-> pr.out, fault |-> FALSE]

\* The argument piece k prints: the one FormatFrom read for it.
PieceArgument(pieces, reads, args, k) ==
    IF pieces[k].index = -2 THEN NullArgument
    ELSE ArgumentAt(args, reads[Indexed(pieces, k)])

\* The loop over pieces k..n: acc holds the text appended, the last failure
\* recorded in mLastException, and whether an Append was refused.
RECURSIVE PrintPieces(_, _, _, _, _, _, _, _, _)
PrintPieces(s, pieces, reads, args, fallOff, refused, k, n, acc) ==
    IF k > n THEN acc
    ELSE LET pr == PieceResult(s, pieces[k], PieceArgument(pieces, reads, args, k),
                               fallOff, k \in refused)
         IN PrintPieces(s, pieces, reads, args, fallOff, refused, k + 1, n,
                        [text |-> acc.text \o pr.text,
                         last |-> IF pr.ec # NOERROR THEN pr.ec ELSE acc.last,
                         fault |-> acc.fault \/ pr.fault])

\* The calls a caller makes once the object exists.
Call(name) ==
    /\ mA \notin {"none"} /\ calls < MaxCalls
    /\ op' = name
    /\ calls' = calls + 1

\* EnsureOpen failing: mA is nullptr once closed.
ClosedCall ==
    /\ ret' = FormatterClosed
    /\ specFault' = FALSE
    /\ UNCHANGED <<out, mLastException>>

\* The outcome of a Format whose pieces p were printed, 1..n of them, with
\* the arguments r.reads, returning ec.
Formatted(s, args, fallOff, refused, p, r, n, ec) ==
    LET acc == PrintPieces(s, p.pieces, r.reads, args, fallOff, refused, 1, n,
                           [text |-> <<>>, last |-> mLastException, fault |-> FALSE])
    IN /\ out' = out \o acc.text
       /\ mLastException' = acc.last
       /\ specFault' = acc.fault
       /\ ret' = ec

\* The destination may refuse the Append of any piece, a CStringBuilder none.
Refusals(refused, p) ==
    /\ refused \subseteq 1..Len(p.pieces)
    /\ mA = "builder" => refused = {}

\* A plausible fault: each piece printed as it is parsed, so that the pieces
\* before a malformed specifier are printed.
FormatCallPrintingParsedPieces(s, args, fallOff, refused) ==
    /\ Call("Format")
    /\ IF mA = "null" THEN ClosedCall
       ELSE LET p == Parse(s, fallOff)
                r == FormatFrom(p.pieces, 1, -1, -1, args.nargs, <<>>)
            IN /\ Refusals(refused, p)
               /\ Formatted(s, args, fallOff, refused, p, r, Reached(p.pieces, r),
                            IF p.ec # NOERROR THEN p.ec ELSE r.ec)
    /\ UNCHANGED <<mA, closeCalled>>

\* Format: EnsureOpen, Parse (a failure returns before anything is printed),
\* then each piece printed in turn; a print's failure is recorded in
\* mLastException and the loop goes on, a missing argument returns.
FormatCall(s, args, fallOff, refused) ==
    /\ Call("Format")
    /\ IF mA = "null" THEN ClosedCall
       ELSE LET p == Parse(s, fallOff)
            IN /\ Refusals(refused, p)
               /\ IF p.ec # NOERROR
                  THEN /\ ret' = p.ec
                       /\ specFault' = FALSE
                       /\ UNCHANGED <<out, mLastException>>
                  ELSE LET r == FormatParsed(p, args.nargs)
                       IN Formatted(s, args, fallOff, refused, p, r,
                                    Reached(p.pieces, r), r.ec)
    /\ UNCHANGED <<mA, closeCalled>>

-----------------------------------------------------------------------------
(* Flush, Close, the getters and GetIoException.                           *)

\* A plausible fault: mLastException = ec whatever the flush returned.
FlushStoringResult(fails) ==
    /\ Call("Flush")
    /\ fails => mA = "writer"
    /\ IF mA = "null" THEN ClosedCall
       ELSE /\ ret' = NOERROR
            /\ mLastException' = IF fails THEN IOError ELSE NOERROR
            /\ specFault' = FALSE
            /\ UNCHANGED out
    /\ UNCHANGED <<mA, closeCalled>>

\* Flush: EnsureOpen; a Flushable destination is flushed and its failure
\* recorded, Flush itself returns NOERROR.
Flush(fails) ==
    /\ Call("Flush")
    /\ fails => mA = "writer"
    /\ IF mA = "null" THEN ClosedCall
       ELSE /\ ret' = NOERROR
            /\ mLastException' = IF fails THEN IOError ELSE mLastException
            /\ specFault' = FALSE
            /\ UNCHANGED out
    /\ UNCHANGED <<mA, closeCalled>>

\* A plausible fault: a failed close returned before mA is cleared.
CloseReturningOnFailure(fails) ==
    /\ Call("Close")
    /\ fails => mA = "writer"
    /\ closeCalled' = TRUE
    /\ ret' = IF fails THEN IOError ELSE NOERROR
    /\ mLastException' = IF fails THEN IOError ELSE mLastException
    /\ mA' = IF fails THEN mA ELSE "null"
    /\ specFault' = FALSE
    /\ UNCHANGED out

\* Close: nothing once mA is nullptr; else a Closeable destination is
\* closed, its failure recorded, and mA cleared whatever happened.
Close(fails) ==
    /\ Call("Close")
    /\ fails => mA = "writer"
    /\ closeCalled' = TRUE
    /\ ret' = NOERROR
    /\ mLastException' = IF fails THEN IOError ELSE mLastException
    /\ mA' = "null"
    /\ specFault' = FALSE
    /\ UNCHANGED out

\* GetLocale, GetOut and ToString: EnsureOpen, then a value is read.
Query(name) ==
    /\ Call(name)
    /\ IF mA = "null" THEN ClosedCall
       ELSE /\ ret' = NOERROR
            /\ specFault' = FALSE
            /\ UNCHANGED <<out, mLastException>>
    /\ UNCHANGED <<mA, closeCalled>>

\* GetIoException: mLastException, open or closed.
GetIoException ==
    /\ Call("GetIoException")
    /\ ret' = mLastException
    /\ specFault' = FALSE
    /\ UNCHANGED <<mA, out, mLastException, closeCalled>>

\* The caller has made its calls.
Done ==
    /\ calls = MaxCalls
    /\ UNCHANGED vars

Next ==
    \/ \E ctor \in Constructors, a \in {"null", "builder", "writer"},
          csn \in CharsetNames, opens \in BOOLEAN : Construct(ctor, a, csn, opens)
    \/ \E s \in FormatStrings : \E args \in ArgLists, fallOff \in FallOffs,
          refused \in SUBSET (1..Len(s)) : FormatCall(s, args, fallOff, refused)
    \/ \E fails \in BOOLEAN : Flush(fails) \/ Close(fails)
    \/ \E name \in {"GetLocale", "GetOut", "ToString"} : Query(name)
    \/ GetIoException
    \/ Done

Spec == Init /\ [][Next]_vars

-----------------------------------------------------------------------------
\* Close leaves the formatter inert: it sets mA to nullptr whatever the
\* destination's Close returned, so after Close no Format appends anything
\* to the destination, and Format, Flush and the getters fail with
\* E_FORMATTER_CLOSED_EXCEPTION.
ClosedFormatterInert ==
    [][closeCalled =>
         /\ out' = out
         /\ op' \in {"Format", "Flush", "GetLocale", "GetOut", "ToString"} =>
                ret' = FormatterClosed]_vars

\* mLastException only ever records failures: once GetIoException would
\* report an error it keeps reporting one, and a Format during which the
\* destination refused the Append of a format specifier leaves an error to
\* report, though Format itself returns NOERROR.
IoFailuresReported ==
    [][(mLastException # NOERROR \/ specFault') => mLastException' # NOERROR]_vars

\* Format parses the whole format string before it prints anything: a
\* Format returning a format error (a malformed specifier, or what a
\* specifier constructor falling off its end returns) leaves the destination
\* as it was.
ParseErrorWritesNothing ==
    [][op' = "Format" /\ ret' \notin {NOERROR, MissingArgument, FormatterClosed}
         => out' = out]_vars

=============================================================================

------------------------------- MODULE Parser -------------------------------
(***************************************************************************)
(* The recursive-descent parser of the CCDL compiler, src/src/Parser.cpp.  *)
(*                                                                         *)
(* The token source (the Tokenizer, not part of the repository's sources) *)
(* is the environment: every GetToken() returns any token of Alphabet,     *)
(* until MaxTokens tokens have been read or END_OF_FILE was returned,      *)
(* after which it returns END_OF_FILE forever.  UngetToken() pushes back   *)
(* one token, which the next read returns.                                 *)
(*                                                                         *)
(* Every Parse* function is a procedure with a control location (pc) per   *)
(* token it reads; a step of the model is the code between two reads of   *)
(* the tokenizer.  Calls push a frame holding the return location and the *)
(* caller whose "parseResult" the callee's boolean result is and-ed into  *)
(* ("none" when the caller ignores it).  ParseType and ParseArrayType      *)
(* return a type through the register rtype instead.                       *)
(*                                                                         *)
(* A skip loop "while (token != X && ...) token = GetToken();" reads      *)
(* tokens whose identity no later code looks at, so it is taken in one     *)
(* step that consumes any number of them; when END_OF_FILE is not among    *)
(* its stop tokens and the file ends first, the loop never exits (pc =     *)
(* "Hang").                                                                *)
(***************************************************************************)
EXTENDS Integers, Sequences, FiniteSets, Bags, BagsExt, TLC

CONSTANTS
    Alphabet,   \* the token kinds the tokenizer may return
    MaxTokens   \* bound on the number of tokens in the parsed file

EOF == "END_OF_FILE"

\* Every token kind a branch of Parser.cpp tells apart; "other" stands for
\* every token no branch names (numbers, operators, ...).
TokenKinds ==
    {"[", "]", "(", ")", "{", "}", "<", ">", ",", ";", "*", "=",
     "coclass", "enum", "include", "interface", "namespace", "module",
     "uuid", "version", "description", "uuid_number", "version_number",
     "string_literal", "identifier", "const", "in", "out", "callee",
     "Integer", "Array", "other", EOF}

ASSUME Alphabet \subseteq TokenKinds /\ EOF \in Alphabet
ASSUME MaxTokens \in Nat

\* GetToken() never classifies a token as a uuid or version number: only
\* GetUuidNumberToken() and GetVersionNumberToken() do.
NormalTokens == Alphabet \ {"uuid_number", "version_number"}

\* The attribute keys of ParseAttribute and the literal each one expects.
AttributeValue == [uuid |-> "uuid_number", version |-> "version_number",
                   description |-> "string_literal"]
AttributeKeys == DOMAIN AttributeValue

\* Parameter direction bits of ccdl::Parameter (IN, OUT, CALLEE).
Directions == {"in", "out", "callee"}

NoToken == "no_token"
Hang == "hang"

\* The Type* values ParseType handles: the primitive Integer (every
\* primitive keyword behaves alike), a user type found by name, the
\* ArrayType Array<elem>, the PointerType base with depth stars, and
\* nullptr.
Prim == [kind |-> "Integer"]
User == [kind |-> "User"]
ArrayOf(e) == [kind |-> "Array", elem |-> e]
PointerTo(b, n) == [kind |-> "Pointer", base |-> b, depth |-> n]
None == [kind |-> "nullptr"]

RECURSIVE IsType(_)
IsType(t) ==
    CASE t.kind \in {"Integer", "User"} -> t \in {Prim, User}
      [] t.kind = "Array"   -> DOMAIN t = {"kind", "elem"} /\ IsType(t.elem)
      [] t.kind = "Pointer" -> /\ DOMAIN t = {"kind", "base", "depth"}
                               /\ IsType(t.base) /\ t.depth \in 1..MaxTokens
      [] OTHER -> FALSE

Procs == {"File", "Decl", "Attr", "Itf", "Body", "Method", "Enum", "EnumBody"}

VARIABLES
    pc,      \* control location of the running procedure
    stack,   \* call frames: [ret |-> location, into |-> caller or "none"]
    res,     \* the local "parseResult" of each procedure
    loc,     \* the other locals that live across a read or a call
    rtype,   \* the Type* returned by the last ParseType / ParseArrayType
    rstar,   \* whether that ParseType read at least one '*' (ghost)
    pushed,  \* the token pushed back by UngetToken, or NoToken
    left,    \* tokens the file still holds before END_OF_FILE
    errors,  \* length of the diagnostic list (mErrorHeader ... mCurrError)
    decl,    \* the Interface or Enumeration being parsed
    meth,    \* the parameters of the Method being parsed
    param,   \* the Parameter being parsed
    decls,   \* every Interface and Enumeration parsed so far (ghost record)
    nodes    \* bag of the PointerType / ArrayType nodes ever created

ctl == <<pc, stack, res, loc, rtype, rstar>>
src == <<pushed, left>>
ast == <<decl, meth, param, decls, nodes>>
vars == <<ctl, src, errors, ast>>

-----------------------------------------------------------------------------
(* The tokenizer boundary.                                                 *)

\* What a read may return: the pushed-back token, END_OF_FILE once the
\* file is exhausted, otherwise any token kind of `kinds`.
Readable(kinds) ==
    IF pushed # NoToken THEN {pushed}
    ELSE IF left = 0 THEN {EOF} ELSE kinds

\* The tokens left after the read returned t.
After(t) == IF pushed # NoToken THEN left ELSE IF t = EOF THEN 0 ELSE left - 1

\* Read t; `back` is the token pushed back before the step ends.
Read(t, back) == /\ left' = After(t)
                 /\ pushed' = back

\* The outcomes of "while (token not in Stop) token = GetToken();" started
\* on token t with l tokens left: the token it stops on and the tokens then
\* left, or Hang when the file ends and END_OF_FILE is not in Stop.
SkipTo(t, Stop, l) ==
    IF t \in Stop THEN {[tok |-> t, left |-> l]}
    ELSE {[tok |-> s, left |-> l - k - 1] : s \in (Stop \cap Alphabet) \ {EOF},
                                            k \in 0..(l - 1)}
         \cup {[tok |-> IF EOF \in Stop THEN EOF ELSE Hang, left |-> 0]}

\* Parser::LogError appends one Error to the list.
LogError == errors' = errors + 1

-----------------------------------------------------------------------------
(* Calls and returns.                                                      *)

Push(entry, ret, into) ==
    /\ pc' = entry
    /\ stack' = <<[ret |-> ret, into |-> into]>> \o stack

\* Return the boolean v; the caller named in the frame and-s it into its
\* parseResult ("parseResult = ParseX() && parseResult").
Return(v) ==
    LET f == Head(stack) IN
    /\ pc' = f.ret
    /\ stack' = Tail(stack)
    /\ res' = IF f.into = "none" THEN res ELSE [res EXCEPT ![f.into] = v /\ @]

\* Return the Type* t from ParseType / ParseArrayType.
ReturnType(t, star) ==
    /\ pc' = Head(stack).ret
    /\ stack' = Tail(stack)
    /\ rtype' = t
    /\ rstar' = star

FreshDecl(kind) == [kind |-> kind, named |-> FALSE, opened |-> FALSE,
                    closed |-> FALSE, methods |-> <<>>]


-----------------------------------------------------------------------------
(* Parser::ParseFile: the top-level dispatch loop, one step per token.     *)

\* END_OF_FILE ends the loop; Parse returns parseResult.
ParseFileEnd ==
    /\ pc = "File"
    /\ EOF \in Readable(NormalTokens)
    /\ Read(EOF, NoToken)
    /\ pc' = "Done"
    /\ UNCHANGED <<stack, res, loc, rtype, rstar, errors, ast>>

\* '[' : ParseDeclarationWithAttribute, which starts with ParseAttribute.
ParseFileAttributed ==
    /\ pc = "File"
    /\ "[" \in Readable(NormalTokens)
    /\ Read("[", NoToken)
    /\ pc' = "AttrLoop"
    /\ stack' = <<[ret |-> "DeclKind", into |-> "Decl"],
                  [ret |-> "File", into |-> "File"]>> \o stack
    /\ res' = [res EXCEPT !.Decl = TRUE, !.Attr = TRUE]
    /\ UNCHANGED <<loc, rtype, rstar, errors, ast>>

\* 'coclass' without attributes: a diagnostic, then ParseCoclass, a stub
\* that reads nothing and returns false.
ParseFileCoclass ==
    /\ pc = "File"
    /\ "coclass" \in Readable(NormalTokens)
    /\ Read("coclass", NoToken)
    /\ LogError
    /\ res' = [res EXCEPT !.File = FALSE]
    /\ UNCHANGED <<pc, stack, loc, rtype, rstar, ast>>

ParseFileEnum ==
    /\ pc = "File"
    /\ "enum" \in Readable(NormalTokens)
    /\ Read("enum", NoToken)
    /\ Push("EnumName", "File", "File")
    /\ res' = [res EXCEPT !.Enum = TRUE]
    /\ loc' = [loc EXCEPT !.start = errors]
    /\ decl' = FreshDecl("enum")
    /\ UNCHANGED <<rtype, rstar, errors, meth, param, decls, nodes>>

\* 'include' and 'namespace': ParseInclude and ParseNamespace are stubs.
ParseFileIgnored ==
    /\ pc = "File"
    /\ \E t \in Readable(NormalTokens) \cap {"include", "namespace"} :
          Read(t, NoToken)
    /\ UNCHANGED <<ctl, errors, ast>>

\* 'interface' without attributes: a diagnostic, then ParseInterface whose
\* result the loop does not use.
ParseFileInterface ==
    /\ pc = "File"
    /\ "interface" \in Readable(NormalTokens)
    /\ Read("interface", NoToken)
    /\ LogError
    /\ Push("ItfName", "File", "none")
    /\ res' = [res EXCEPT !.Itf = TRUE]
    /\ loc' = [loc EXCEPT !.start = errors + 1]
    /\ decl' = FreshDecl("interface")
    /\ UNCHANGED <<rtype, rstar, meth, param, decls, nodes>>

\* Any other token: "... is not expected.", and the loop goes on.
ParseFileUnexpected ==
    /\ pc = "File"
    /\ \E t \in Readable(NormalTokens) \ {EOF, "[", "coclass", "enum", "include",
                                         "interface", "namespace"} :
          Read(t, NoToken)
    /\ LogError
    /\ UNCHANGED <<ctl, ast>>

-----------------------------------------------------------------------------
(* Parser::ParseAttribute: key(value) entries separated by ',' up to ']'.  *)

\* The loop condition on the first token and on the token after a ','.
ParseAttributeLoop ==
    /\ pc = "AttrLoop"
    /\ \E t \in Readable(NormalTokens) :
          /\ Read(t, NoToken)
          /\ \/ /\ t \in {"]", EOF}
                /\ Return(res.Attr)
                /\ UNCHANGED loc
             \/ /\ t \in AttributeKeys
                /\ pc' = "AttrOpen"
                /\ loc' = [loc EXCEPT !.key = t]
                /\ UNCHANGED <<stack, res>>
             \/ /\ t \notin {"]", EOF} \cup AttributeKeys  \* default: break
                /\ pc' = "AttrSep"
                /\ UNCHANGED <<stack, res, loc>>
    /\ UNCHANGED <<rtype, rstar, errors, ast>>

ParseAttributeOpen ==
    /\ pc = "AttrOpen"
    /\ \E t \in Readable(NormalTokens) :
          \/ /\ t = "("
             /\ Read(t, NoToken)
             /\ UNCHANGED <<res, errors>>
          \/ /\ t # "("
             /\ Read(t, t)
             /\ LogError
             /\ res' = [res EXCEPT !.Attr = FALSE]
    /\ pc' = "AttrValue"
    /\ UNCHANGED <<stack, loc, rtype, rstar, ast>>

\* GetUuidNumberToken / GetVersionNumberToken / GetStringLiteralToken; on
\* a wrong token the code skips to ')' with no END_OF_FILE check.
ParseAttributeValue ==
    /\ pc = "AttrValue"
    /\ LET want == AttributeValue[loc.key] IN
       \E t \in Readable({want} \cup NormalTokens) :
          \/ /\ t = want
             /\ Read(t, NoToken)
             /\ pc' = "AttrClose"
             /\ UNCHANGED <<res, errors>>
          \/ /\ t # want
             /\ LogError
             /\ res' = [res EXCEPT !.Attr = FALSE]
             /\ pushed' = NoToken
             /\ \E o \in SkipTo(t, {")"}, After(t)) :
                   /\ left' = o.left
                   /\ pc' = IF o.tok = Hang THEN "Hang" ELSE "AttrSep"
    /\ UNCHANGED <<stack, loc, rtype, rstar, ast>>

ParseAttributeClose ==
    /\ pc = "AttrClose"
    /\ \E t \in Readable(NormalTokens) :
          \/ /\ t = ")"
             /\ Read(t, NoToken)
             /\ UNCHANGED <<res, errors>>
          \/ /\ t # ")"
             /\ Read(t, t)
             /\ LogError
             /\ res' = [res EXCEPT !.Attr = FALSE]
    /\ pc' = "AttrSep"
    /\ UNCHANGED <<stack, loc, rtype, rstar, ast>>

\* The token after an entry: ',' goes on, ']' ends the loop, anything
\* else is "',' is expected.", pushed back, and ends the loop with false.
ParseAttributeSeparator ==
    /\ pc = "AttrSep"
    /\ \E t \in Readable(NormalTokens) :
          \/ /\ t = ","
             /\ Read(t, NoToken)
             /\ pc' = "AttrLoop"
             /\ UNCHANGED <<stack, res, errors>>
          \/ /\ t = "]"
             /\ Read(t, NoToken)
             /\ Return(res.Attr)
             /\ UNCHANGED errors
          \/ /\ t \notin {",", "]"}
             /\ Read(t, t)
             /\ LogError
             /\ Return(FALSE)
    /\ UNCHANGED <<loc, rtype, rstar, ast>>

-----------------------------------------------------------------------------
(* Parser::ParseDeclarationWithAttribute, after ParseAttribute returned.   *)

ParseDeclarationKind ==
    /\ pc = "DeclKind"
    /\ \E t \in Readable(NormalTokens) :
          \/ /\ t = "coclass"   \* ParseCoclass: a stub returning false
             /\ Read(t, NoToken)
             /\ Return(FALSE)
             /\ UNCHANGED <<loc, errors, decl>>
          \/ /\ t = "interface"
             /\ Read(t, NoToken)
             /\ Push("ItfName", "DeclRet", "Decl")
             /\ res' = [res EXCEPT !.Itf = TRUE]
             /\ loc' = [loc EXCEPT !.start = errors]
             /\ decl' = FreshDecl("interface")
             /\ UNCHANGED errors
          \/ /\ t = "module"    \* ParseModule: a stub returning true
             /\ Read(t, NoToken)
             /\ Return(res.Decl)
             /\ UNCHANGED <<loc, errors, decl>>
          \/ /\ t \notin {"coclass", "interface", "module"}
             /\ Read(t, t)
             /\ LogError
             /\ Return(FALSE)
             /\ UNCHANGED <<loc, decl>>
    /\ UNCHANGED <<rtype, rstar, meth, param, decls, nodes>>

ParseDeclarationEnd ==
    /\ pc = "DeclRet"
    /\ Return(res.Decl)
    /\ UNCHANGED <<loc, rtype, rstar, src, errors, ast>>

-----------------------------------------------------------------------------
(* Parser::ParseInterface and Parser::ParseInterfaceBody.                  *)

\* The body is parsed by ParseInterfaceBody, whose result ParseInterface
\* and-s into its own.
CallInterfaceBody ==
    Push("BodyOpen", "ItfEnd", "Itf")

ParseInterfaceNamed ==
    /\ pc = "ItfName"
    /\ "identifier" \in Readable(NormalTokens)
    /\ Read("identifier", NoToken)
    /\ CallInterfaceBody
    /\ res' = [res EXCEPT !.Body = TRUE]
    /\ decl' = [decl EXCEPT !.named = TRUE]
    /\ UNCHANGED <<loc, rtype, rstar, errors, meth, param, decls, nodes>>

\* "Interface name is expected.": skip to '{' and push it back.
ParseInterfaceUnnamed ==
    /\ pc = "ItfName"
    /\ \E t \in Readable(NormalTokens) \ {"identifier"} :
       \E o \in SkipTo(t, {"{", EOF}, After(t)) :
          /\ left' = o.left
          /\ pushed' = o.tok
    /\ LogError
    /\ CallInterfaceBody
    /\ res' = [res EXCEPT !.Itf = FALSE, !.Body = TRUE]
    /\ UNCHANGED <<loc, rtype, rstar, ast>>

ParseInterfaceBodyOpen ==
    /\ pc = "BodyOpen"
    /\ \E t \in Readable(NormalTokens) :
          \/ /\ t = "{"
             /\ Read(t, NoToken)
             /\ decl' = [decl EXCEPT !.opened = TRUE]
             /\ UNCHANGED <<res, errors>>
          \/ /\ t # "{"        \* skip to '}' and push it back
             /\ \E o \in SkipTo(t, {"}", EOF}, After(t)) :
                   /\ left' = o.left
                   /\ pushed' = o.tok
             /\ LogError
             /\ res' = [res EXCEPT !.Body = FALSE]
             /\ UNCHANGED decl
    /\ pc' = "BodyLoop"
    /\ UNCHANGED <<stack, loc, rtype, rstar, meth, param, decls, nodes>>

\* A plausible fault: the member loop stops only at '}'.
BodyEndsAtBraceOnly(t) == t = "}"

\* "while (token != BRACES_CLOSE && token != END_OF_FILE)"
BodyEnds(t) == t \in {"}", EOF}

\* A plausible fault: "ParseMethod(interface);" with its result dropped.
CallMethodIgnoringResult ==
    /\ Push("MethodOpen", "BodyLoop", "none")
    /\ res' = [res EXCEPT !.Method = TRUE]
    /\ meth' = <<>>

\* "parseResult = ParseMethod(interface) && parseResult"
CallMethod ==
    /\ Push("MethodOpen", "BodyLoop", "Body")
    /\ res' = [res EXCEPT !.Method = TRUE]
    /\ meth' = <<>>

\* The member loop: '}' or END_OF_FILE ends it; an identifier is pushed
\* back and read again as the name by ParseMethod (here: taken as read);
\* 'const' calls ParseConstDataMember, which reads nothing and returns
\* true; every other token is passed over.
ParseInterfaceBodyLoop ==
    /\ pc = "BodyLoop"
    /\ \E t \in Readable(NormalTokens) :
          /\ Read(t, NoToken)
          /\ \/ /\ BodyEnds(t)
                /\ Return(res.Body)
                /\ decl' = [decl EXCEPT !.closed = (t = "}")]
                /\ UNCHANGED meth
             \/ /\ ~BodyEnds(t) /\ t = "identifier"
                /\ CallMethod
                /\ UNCHANGED decl
             \/ /\ ~BodyEnds(t) /\ t # "identifier"
                /\ UNCHANGED <<pc, stack, res, decl, meth>>
    /\ UNCHANGED <<loc, rtype, rstar, errors, param, decls, nodes>>

\* Attach the interface (AddInterface) when parseResult holds, otherwise
\* delete it; either way record what was parsed.
ParseInterfaceEnd ==
    /\ pc = "ItfEnd"
    /\ decls' = Append(decls, decl @@ [attached |-> res.Itf,
                                        errs |-> errors - loc.start])
    /\ Return(res.Itf)
    /\ UNCHANGED <<loc, rtype, rstar, src, errors, decl, meth, param, nodes>>

-----------------------------------------------------------------------------
(* Parser::ParseMethod: name '(' parameter ... ')' ';'.                    *)

CallParameter ==
    /\ Push("ParamOpen", "MethodNext", "Method")
    /\ param' = [dir |-> {}]

ParseMethodOpen ==
    /\ pc = "MethodOpen"
    /\ \E t \in Readable(NormalTokens) :
          \/ /\ t = "("
             /\ Read(t, NoToken)
             /\ CallParameter
             /\ loc' = [loc EXCEPT !.mtok = t]
             /\ UNCHANGED <<res, errors>>
          \/ /\ t # "("        \* "\"(\" is expected.", skip to ';'
             /\ pushed' = NoToken
             /\ \E o \in SkipTo(t, {";", EOF}, After(t)) : left' = o.left
             /\ LogError
             /\ Return(FALSE)
             /\ UNCHANGED <<loc, param>>
    /\ UNCHANGED <<rtype, rstar, decl, meth, decls, nodes>>

\* ParseParameter failed: the loop breaks and the last token the method
\* read is not ')': "\")\" is expected.", skip to ';'.
ParseMethodParameterFailed ==
    /\ pc = "MethodNext"
    /\ ~res.Method
    /\ \E o \in SkipTo(loc.mtok, {";", EOF}, left) : left' = o.left
    /\ LogError
    /\ Return(FALSE)
    /\ UNCHANGED <<loc, rtype, rstar, pushed, ast>>

\* ParseParameter succeeded: read the token after the parameter; the loop
\* goes on with ParseParameter unless it is ')' or END_OF_FILE.
ParseMethodNext ==
    /\ pc = "MethodNext"
    /\ res.Method
    /\ \E t \in Readable(NormalTokens) :
          /\ Read(t, NoToken)
          /\ loc' = [loc EXCEPT !.mtok = t]
          /\ \/ /\ t = ")"
                /\ pc' = "MethodSemi"
                /\ UNCHANGED <<stack, res, errors, param>>
             \/ /\ t = EOF
                /\ LogError
                /\ Return(FALSE)
                /\ UNCHANGED param
             \/ /\ t \notin {")", EOF}
                /\ CallParameter
                /\ UNCHANGED <<res, errors>>
    /\ UNCHANGED <<rtype, rstar, decl, meth, decls, nodes>>

ParseMethodSemicolon ==
    /\ pc = "MethodSemi"
    /\ \E t \in Readable(NormalTokens) :
          \/ /\ t = ";"        \* AddMethod
             /\ Read(t, NoToken)
             /\ decl' = [decl EXCEPT !.methods = Append(@, meth)]
             /\ Return(res.Method)
             /\ UNCHANGED errors
          \/ /\ t # ";"
             /\ pushed' = NoToken
             /\ \E o \in SkipTo(t, {";", EOF}, After(t)) : left' = o.left
             /\ LogError
             /\ Return(FALSE)
             /\ UNCHANGED decl
    /\ UNCHANGED <<loc, rtype, rstar, meth, param, decls, nodes>>

-----------------------------------------------------------------------------
(* Parser::ParseParameter: '[' direction, ... ']' type name.               *)

\* ParseType is called with the token that ended the attribute list.
CallType(t) ==
    /\ Push("TypeBase", "ParamName", "none")
    /\ loc' = [loc EXCEPT !.ptok = t]

\* A plausible fault: every token of the list taken as an attribute bit.
SetAttributeAnyToken(p, t) == [p EXCEPT !.dir = @ \cup {t}]

\* Parameter::SetAttribute or-s the direction bit into the attribute.
SetAttribute(p, t) == [p EXCEPT !.dir = @ \cup ({t} \cap Directions)]

ParseParameterOpen ==
    /\ pc = "ParamOpen"
    /\ \E t \in Readable(NormalTokens) :
          /\ Read(t, NoToken)
          /\ \/ /\ t = "["
                /\ pc' = "ParamAttr"
                /\ UNCHANGED <<stack, res, errors>>
             \/ /\ t # "["     \* "\"[\" is expected."
                /\ LogError
                /\ Return(FALSE)
    /\ UNCHANGED <<loc, rtype, rstar, ast>>

\* The loop condition of the attribute loop, and the switch of its body.
ParseParameterAttribute ==
    /\ pc = "ParamAttr"
    /\ \E t \in Readable(NormalTokens) :
          /\ Read(t, NoToken)
          /\ \/ /\ t \in {"]", EOF}
                /\ CallType(t)
                /\ UNCHANGED param
             \/ /\ t \notin {"]", EOF}
                /\ param' = SetAttribute(param, t)
                /\ pc' = "ParamAttrSep"
                /\ UNCHANGED <<stack, loc>>
    /\ UNCHANGED <<res, rtype, rstar, errors, decl, meth, decls, nodes>>

\* The token after a direction: ',' goes on, ']' ends the list, anything
\* else is "\"]\" is expected." and a skip to '}' that consumes it.
ParseParameterSeparator ==
    /\ pc = "ParamAttrSep"
    /\ \E t \in Readable(NormalTokens) :
          \/ /\ t = ","
             /\ Read(t, NoToken)
             /\ pc' = "ParamAttr"
             /\ UNCHANGED <<stack, res, loc, errors>>
          \/ /\ t = "]"
             /\ Read(t, NoToken)
             /\ CallType(t)
             /\ UNCHANGED <<res, errors>>
          \/ /\ t \notin {",", "]"}
             /\ pushed' = NoToken
             /\ \E o \in SkipTo(t, {"}", EOF}, After(t)) : left' = o.left
             /\ LogError
             /\ Return(FALSE)
             /\ UNCHANGED loc
    /\ UNCHANGED <<rtype, rstar, ast>>

\* ParseType returned nullptr: skip to '}' from the token before the type.
ParseParameterUntyped ==
    /\ pc = "ParamName"
    /\ rtype = None
    /\ \E o \in SkipTo(loc.ptok, {"}", EOF}, left) : left' = o.left
    /\ Return(FALSE)
    /\ UNCHANGED <<loc, rtype, rstar, pushed, errors, ast>>

\* The parameter name; Method::AddParameter on success.
ParseParameterName ==
    /\ pc = "ParamName"
    /\ rtype # None
    /\ \E t \in Readable(NormalTokens) :
          \/ /\ t = "identifier"
             /\ Read(t, NoToken)
             /\ meth' = Append(meth, [dir |-> param.dir, type |-> rtype,
                                      star |-> rstar])
             /\ Return(TRUE)
             /\ UNCHANGED errors
          \/ /\ t # "identifier"   \* "Parameter name is expected."
             /\ pushed' = NoToken
             /\ \E o \in SkipTo(t, {"}", EOF}, After(t)) : left' = o.left
             /\ LogError
             /\ Return(FALSE)
             /\ UNCHANGED meth
    /\ UNCHANGED <<loc, rtype, rstar, decl, param, decls, nodes>>

-----------------------------------------------------------------------------
(* Parser::ParseType and Parser::ParseArrayType.                           *)

\* "Type ... was not declared in this scope."
TypeNotDeclared ==
    /\ LogError
    /\ ReturnType(None, FALSE)

\* The base type was found: count the '*' that follow.
CountStars(t) ==
    /\ pc' = "TypeStar"
    /\ loc' = [loc EXCEPT !.ptype = t, !.nptr = 0]

\* A primitive keyword (always a type of the component), an identifier
\* that Component::FindType may or may not resolve, 'Array', or any
\* other token.
ParseTypeBase ==
    /\ pc = "TypeBase"
    /\ \E t \in Readable(NormalTokens) :
          /\ Read(t, NoToken)
          /\ \/ /\ t = "Integer"
                /\ CountStars(Prim)
                /\ UNCHANGED <<stack, rtype, rstar, errors>>
             \/ /\ t = "identifier"
                /\ \E found \in BOOLEAN :
                      IF found THEN CountStars(User)
                                    /\ UNCHANGED <<stack, rtype, rstar, errors>>
                               ELSE TypeNotDeclared /\ UNCHANGED loc
             \/ /\ t = "Array"
                /\ Push("ArrOpen", "TypeArrRet", "none")
                /\ UNCHANGED <<loc, rtype, rstar, errors>>
             \/ /\ t \notin {"Integer", "identifier", "Array"}
                /\ TypeNotDeclared
                /\ UNCHANGED loc
    /\ UNCHANGED <<res, ast>>

ParseTypeArrayReturned ==
    /\ pc = "TypeArrRet"
    /\ IF rtype = None THEN TypeNotDeclared /\ UNCHANGED loc
                       ELSE CountStars(rtype) /\ UNCHANGED <<stack, rtype, rstar, errors>>
    /\ UNCHANGED <<res, src, ast>>

\* "FindType(ptrTypeStr)", and a new PointerType (AddTemporaryType)
\* when it is not found.
InternPointer(n) == nodes' = IF n \in DOMAIN nodes THEN nodes ELSE BagAdd(nodes, n)

\* "while (token == ASTERISK)"; the first other token is pushed back,
\* the pointer type interned, and the base type returned.
ParseTypeStar ==
    /\ pc = "TypeStar"
    /\ \E t \in Readable(NormalTokens) :
          \/ /\ t = "*"
             /\ Read(t, NoToken)
             /\ loc' = [loc EXCEPT !.nptr = @ + 1]
             /\ UNCHANGED <<pc, stack, rtype, rstar, nodes>>
          \/ /\ t # "*"
             /\ Read(t, t)
             /\ IF loc.nptr # 0 THEN InternPointer(PointerTo(loc.ptype, loc.nptr))
                                ELSE UNCHANGED nodes
             /\ ReturnType(loc.ptype, loc.nptr # 0)
             /\ UNCHANGED loc
    /\ UNCHANGED <<res, errors, decl, meth, param, decls>>

ParseArrayTypeOpen ==
    /\ pc = "ArrOpen"
    /\ \E t \in Readable(NormalTokens) :
          /\ Read(t, NoToken)
          /\ \/ /\ t = "<"
                /\ Push("TypeBase", "ArrClose", "none")
                /\ UNCHANGED <<rtype, rstar, errors>>
             \/ /\ t # "<"     \* "\"<\" is expected."
                /\ LogError
                /\ ReturnType(None, FALSE)
    /\ UNCHANGED <<res, loc, ast>>

\* "if (elemType == nullptr) return nullptr;"
ParseArrayTypeNoElement ==
    /\ pc = "ArrClose"
    /\ rtype = None
    /\ ReturnType(None, FALSE)
    /\ UNCHANGED <<res, loc, src, errors, ast>>

\* '>' then FindType("Array<elem>"); when it is not found a new ArrayType
\* is created in an inner scope and the outer arrayType, nullptr, is
\* returned.
ParseArrayTypeClose ==
    /\ pc = "ArrClose"
    /\ rtype # None
    /\ \E t \in Readable(NormalTokens) :
          /\ Read(t, NoToken)
          /\ \/ /\ t = ">"
                /\ LET sig == ArrayOf(rtype) IN
                   IF sig \in DOMAIN nodes
                   THEN ReturnType(sig, FALSE) /\ UNCHANGED nodes
                   ELSE ReturnType(None, FALSE) /\ nodes' = BagAdd(nodes, sig)
                /\ UNCHANGED errors
             \/ /\ t # ">"     \* "\">\" is expected."
                /\ LogError
                /\ ReturnType(None, FALSE)
                /\ UNCHANGED nodes
    /\ UNCHANGED <<res, loc, decl, meth, param, decls>>

-----------------------------------------------------------------------------
(* Parser::ParseEnumeration and Parser::ParseEnumerationBody.              *)

CallEnumerationBody ==
    Push("EnumOpen", "EnumEnd", "Enum")

ParseEnumerationNamed ==
    /\ pc = "EnumName"
    /\ "identifier" \in Readable(NormalTokens)
    /\ Read("identifier", NoToken)
    /\ CallEnumerationBody
    /\ res' = [res EXCEPT !.EnumBody = TRUE]
    /\ decl' = [decl EXCEPT !.named = TRUE]
    /\ UNCHANGED <<loc, rtype, rstar, errors, meth, param, decls, nodes>>

\* "Identifier as enumeration name is expected.": skip to '{', push back.
ParseEnumerationUnnamed ==
    /\ pc = "EnumName"
    /\ \E t \in Readable(NormalTokens) \ {"identifier"} :
       \E o \in SkipTo(t, {"{", EOF}, After(t)) :
          /\ left' = o.left
          /\ pushed' = o.tok
    /\ LogError
    /\ CallEnumerationBody
    /\ res' = [res EXCEPT !.Enum = FALSE, !.EnumBody = TRUE]
    /\ UNCHANGED <<loc, rtype, rstar, ast>>

\* '{', or a diagnostic and a skip that consumes the '{'; then the loop
\* starts with value = 0.
ParseEnumerationBodyOpen ==
    /\ pc = "EnumOpen"
    /\ \E t \in Readable(NormalTokens) :
          \/ /\ t = "{"
             /\ Read(t, NoToken)
             /\ decl' = [decl EXCEPT !.opened = TRUE]
             /\ UNCHANGED <<res, errors>>
          \/ /\ t # "{"
             /\ pushed' = NoToken
             /\ \E o \in SkipTo(t, {"{", EOF}, After(t)) : left' = o.left
             /\ LogError
             /\ res' = [res EXCEPT !.EnumBody = FALSE]
             /\ UNCHANGED decl
    /\ pc' = "EnumLoop"
    /\ loc' = [loc EXCEPT !.value = 0]
    /\ UNCHANGED <<stack, rtype, rstar, meth, param, decls, nodes>>

\* The loop ends on '}' or END_OF_FILE.
EnumerationBodyEnd(t) ==
    /\ Return(res.EnumBody)
    /\ decl' = [decl EXCEPT !.closed = (t = "}")]

\* The loop condition and the enumerator name.  A token that is not an
\* identifier is skipped to '}' or ',' with no END_OF_FILE check; after a
\* ',' the loop goes on, after '}' the loop condition ends it.
ParseEnumerationBodyLoop ==
    /\ pc = "EnumLoop"
    /\ \E t \in Readable(NormalTokens) :
          \/ /\ t \in {"}", EOF}
             /\ Read(t, NoToken)
             /\ EnumerationBodyEnd(t)
             /\ UNCHANGED errors
          \/ /\ t = "identifier"
             /\ Read(t, NoToken)
             /\ pc' = "EnumAfterName"
             /\ UNCHANGED <<stack, res, errors, decl>>
          \/ /\ t \notin {"}", EOF, "identifier"}
             /\ pushed' = NoToken
             /\ LogError
             /\ \E o \in SkipTo(t, {"}", ","}, After(t)) :
                   /\ left' = o.left
                   /\ CASE o.tok = Hang -> /\ pc' = "Hang"
                                           /\ UNCHANGED <<stack, res, decl>>
                        [] o.tok = ","  -> /\ pc' = "EnumLoop"
                                           /\ res' = [res EXCEPT !.EnumBody = FALSE]
                                           /\ UNCHANGED <<stack, decl>>
                        [] o.tok = "}"  -> /\ Return(FALSE)
                                           /\ decl' = [decl EXCEPT !.closed = TRUE]
    /\ UNCHANGED <<loc, rtype, rstar, meth, param, decls, nodes>>

\* The token after an enumerator (and its value): ',' goes on, '}' ends
\* the loop; both add the enumerator (value++).  Anything else is
\* "\")\" is expected.", a skip to '}' or ',' and a break.
EnumeratorEnd(t) ==
    \/ /\ t = ","
       /\ Read(t, NoToken)
       /\ pc' = "EnumLoop"
       /\ loc' = [loc EXCEPT !.value = @ + 1]
       /\ UNCHANGED <<stack, res, errors, decl>>
    \/ /\ t = "}"
       /\ Read(t, NoToken)
       /\ loc' = [loc EXCEPT !.value = @ + 1]
       /\ EnumerationBodyEnd(t)
       /\ UNCHANGED errors
    \/ /\ t \notin {",", "}"}
       /\ pushed' = NoToken
       /\ LogError
       /\ \E o \in SkipTo(t, {"}", ","}, After(t)) :
             /\ left' = o.left
             /\ IF o.tok = Hang THEN pc' = "Hang" /\ UNCHANGED <<stack, res>>
                                ELSE Return(FALSE)
       /\ UNCHANGED <<loc, decl>>

\* '=' calls ParseExpression, a stub that reads nothing and returns false.
ParseEnumerationBodyName ==
    /\ pc = "EnumAfterName"
    /\ \E t \in Readable(NormalTokens) :
          \/ /\ t = "="
             /\ Read(t, NoToken)
             /\ pc' = "EnumAfterValue"
             /\ res' = [res EXCEPT !.EnumBody = FALSE]
             /\ UNCHANGED <<stack, loc, errors, decl>>
          \/ /\ t # "="
             /\ EnumeratorEnd(t)
    /\ UNCHANGED <<rtype, rstar, meth, param, decls, nodes>>

ParseEnumerationBodyValue ==
    /\ pc = "EnumAfterValue"
    /\ \E t \in Readable(NormalTokens) : EnumeratorEnd(t)
    /\ UNCHANGED <<rtype, rstar, meth, param, decls, nodes>>

\* AddEnumeration when parseResult holds, otherwise delete.
ParseEnumerationEnd ==
    /\ pc = "EnumEnd"
    /\ decls' = Append(decls, decl @@ [attached |-> res.Enum,
                                        errs |-> errors - loc.start])
    /\ Return(res.Enum)
    /\ UNCHANGED <<loc, rtype, rstar, src, errors, decl, meth, param, nodes>>

-----------------------------------------------------------------------------
(* The whole parser.                                                       *)

Locations ==
    {"File", "Done", "Hang", "AttrLoop", "AttrOpen", "AttrValue", "AttrClose",
     "AttrSep", "DeclKind", "DeclRet", "ItfName", "BodyOpen", "BodyLoop",
     "ItfEnd", "MethodOpen", "MethodNext", "MethodSemi", "ParamOpen",
     "ParamAttr", "ParamAttrSep", "ParamName", "TypeBase", "TypeArrRet",
     "TypeStar", "ArrOpen", "ArrClose", "EnumName", "EnumOpen", "EnumLoop",
     "EnumAfterName", "EnumAfterValue", "EnumEnd"}

\* Parser::Parse: a fresh Parser over a file of MaxTokens tokens (any
\* of them may be END_OF_FILE, so every shorter file is included).
Init ==
    /\ pc = "File"
    /\ stack = <<>>
    /\ res = [p \in Procs |-> TRUE]
    /\ loc = [key |-> "uuid", start |-> 0, mtok |-> NoToken, ptok |-> NoToken,
              ptype |-> None, nptr |-> 0, value |-> 0]
    /\ rtype = None
    /\ rstar = FALSE
    /\ pushed = NoToken
    /\ left = MaxTokens
    /\ errors = 0
    /\ decl = FreshDecl("interface")
    /\ meth = <<>>
    /\ param = [dir |-> {}]
    /\ decls = <<>>
    /\ nodes = EmptyBag

\* Parse has returned.
Finished ==
    /\ pc = "Done"
    /\ UNCHANGED vars

\* A skip loop with no END_OF_FILE check reads END_OF_FILE forever.
SpinAtEndOfFile ==
    /\ pc = "Hang"
    /\ UNCHANGED vars

Next ==
    \/ ParseFileEnd \/ ParseFileAttributed \/ ParseFileCoclass
    \/ ParseFileEnum \/ ParseFileIgnored \/ ParseFileInterface
    \/ ParseFileUnexpected
    \/ ParseAttributeLoop \/ ParseAttributeOpen \/ ParseAttributeValue
    \/ ParseAttributeClose \/ ParseAttributeSeparator
    \/ ParseDeclarationKind \/ ParseDeclarationEnd
    \/ ParseInterfaceNamed \/ ParseInterfaceUnnamed \/ ParseInterfaceBodyOpen
    \/ ParseInterfaceBodyLoop \/ ParseInterfaceEnd
    \/ ParseMethodOpen \/ ParseMethodParameterFailed \/ ParseMethodNext
    \/ ParseMethodSemicolon
    \/ ParseParameterOpen \/ ParseParameterAttribute \/ ParseParameterSeparator
    \/ ParseParameterUntyped \/ ParseParameterName
    \/ ParseTypeBase \/ ParseTypeArrayReturned \/ ParseTypeStar
    \/ ParseArrayTypeOpen \/ ParseArrayTypeNoElement \/ ParseArrayTypeClose
    \/ ParseEnumerationNamed \/ ParseEnumerationUnnamed
    \/ ParseEnumerationBodyOpen \/ ParseEnumerationBodyLoop
    \/ ParseEnumerationBodyName \/ ParseEnumerationBodyValue
    \/ ParseEnumerationEnd
    \/ Finished \/ SpinAtEndOfFile

\* The parser is one sequential thread: it keeps taking steps.
Spec == Init /\ [][Next]_vars /\ WF_vars(Next)

-----------------------------------------------------------------------------
(* Properties.                                                             *)

\* Every variable holds a value of its kind; the types ParseType builds
\* are well formed.
TypeOK ==
    /\ pc \in Locations
    /\ \A i \in DOMAIN stack : stack[i].ret \in Locations
                               /\ stack[i].into \in Procs \cup {"none"}
    /\ res \in [Procs -> BOOLEAN]
    /\ pushed \in NormalTokens \cup {NoToken}
    /\ left \in 0..MaxTokens
    /\ errors \in Nat
    /\ param.dir \subseteq Directions
    /\ \A i \in DOMAIN meth : meth[i].dir \subseteq Directions
                              /\ IsType(meth[i].type)
    /\ rtype = None \/ IsType(rtype)
    /\ IsABag(nodes) /\ \A n \in DOMAIN nodes : IsType(n)

\* ParseInterface / ParseEnumeration attach a declaration (AddInterface,
\* AddEnumeration) only when no diagnostic was logged while parsing it, and
\* an interface is deleted only with at least one diagnostic explaining
\* why: every failure path of ParseInterfaceBody, ParseMethod,
\* ParseParameter, ParseType and ParseArrayType must both log and
\* propagate false.
AttachedIffClean ==
    \A i \in DOMAIN decls :
       /\ decls[i].attached => decls[i].errs = 0
       /\ decls[i].kind = "interface" /\ ~decls[i].attached => decls[i].errs > 0

\* Every parse either returns from Parse or is stuck in a skip loop that
\* has no END_OF_FILE check: no other loop of the parser runs forever.
ParseReturnsOrHangs ==
    <>(pc \in {"Done", "Hang"})


-----------------------------------------------------------------------------
(* What the specification of the parser says and the code does not do.     *)

\* Parse reports success exactly when no diagnostic was recorded.
\* ParseFile logs unexpected tokens (and ParseCoclass / ParseExpression
\* fail) without keeping parseResult and the diagnostic list in step.
ParseResultMatchesDiagnostics ==
    pc = "Done" => (res.File <=> errors = 0)

\* Every parse returns from Parse: error recovery never loops forever,
\* whatever the file holds (the skip loops of ParseAttribute and
\* ParseEnumerationBody have no END_OF_FILE check).
ParseTerminates ==
    <>(pc = "Done")

\* Error non-abort: an interface whose name and braces are well formed is
\* declared (AddInterface) even when some of its methods are malformed;
\* ParseInterfaceBody and-s every ParseMethod result into its own.
WellFormedInterfaceDeclared ==
    \A i \in DOMAIN decls :
       decls[i].kind = "interface" /\ decls[i].named /\ decls[i].opened
       /\ decls[i].closed => decls[i].attached

\* A parameter written with '*' has a Pointer type: ParseType builds the
\* PointerType but returns the base type.
StarredParameterIsPointer ==
    \A k \in DOMAIN meth : meth[k].star => meth[k].type.kind = "Pointer"

\* ParseArrayType never fails silently: a step out of ParseArrayType after
\* its element type resolved either returns a type or logs a diagnostic.
\* On the first use of Array<T> the new ArrayType is assigned to a
\* variable of an inner scope and nullptr is returned.
ArrayTypeResolvesOrDiagnoses ==
    [][pc = "ArrClose" /\ rtype # None /\ errors' = errors
         => rtype' # None]_vars
=============================================================================

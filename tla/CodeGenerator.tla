--------------------------- MODULE CodeGenerator ---------------------------
(* The namespace blocks of the header CodeGenerator writes                 *)
(* (src/src/codegen/CodeGenerator.cpp).  GenerateTypeDeclarations walks the *)
(* metadata's namespaces and, for each one that declares an enumeration or *)
(* an interface, writes GenerateNamespaceBegin's "namespace x {" lines, the *)
(* interface declarations, and GenerateNamespaceEnd's "} // namespace x"    *)
(* lines.  The text is abstracted to what the C++ compiler reads of it: a   *)
(* header is a sequence of events <<"open", x>>, <<"decl", i>> and          *)
(* <<"close", x>>; the comment after a closing brace is the name x.         *)
(*                                                                         *)
(* A string is a sequence of characters, indexed from 0 as the code does.  *)
LOCAL INSTANCE Integers
LOCAL INSTANCE Sequences
LOCAL INSTANCE FiniteSetsExt

-----------------------------------------------------------------------------
(* The operations of the ccdl String class the generator calls.  Its      *)
(* source is not part of the repository; these are the semantics the      *)
(* generator's index arithmetic is written against: IndexOf(s, from) is the *)
(* first match at or after from, LastIndexOf(s, from) the last one at or    *)
(* before from, both -1 when there is none; Substring(begin, end) includes  *)
(* the character at end and is empty when the range is not inside s.       *)

Sep == <<":", ":">>

MatchAt(s, k) == 0 <= k /\ k + 2 <= Len(s) /\ s[k + 1] = ":" /\ s[k + 2] = ":"

IndexOf(s, from) ==
    LET ks == {k \in from..Len(s) - 2 : MatchAt(s, k)} IN
    IF ks = {} THEN -1 ELSE Min(ks)

LastIndexOf(s, from) ==
    LET ks == {k \in 0..from : MatchAt(s, k)} IN
    IF ks = {} THEN -1 ELSE Max(ks)

Substring(s, begin, end) ==
    IF begin < 0 \/ end > Len(s) - 1 \/ begin > end THEN <<>>
    ELSE SubSeq(s, begin + 1, end + 1)

-----------------------------------------------------------------------------
\* GenerateNamespaceBegin's loop: the name before each "::", from begin on.
RECURSIVE BeginFrom(_, _, _)
BeginFrom(ns, begin, index) ==
    IF index = -1 THEN <<>>
    ELSE <<Substring(ns, begin, index - 1)>> \o BeginFrom(ns, index + 2, IndexOf(ns, index + 2))

\* The namespaces GenerateNamespaceBegin opens, outermost first.
NamespaceBegin(ns) ==
    IF ns = <<>> THEN <<>> ELSE BeginFrom(ns, 0, IndexOf(ns, 0))

\* GenerateNamespaceEnd's loop, walking back from end, and the closing
\* brace it writes after the loop for the name that starts at 0.
RECURSIVE EndFrom(_, _, _)
EndFrom(ns, end, fromIndex) ==
    IF fromIndex = -1 THEN <<Substring(ns, 0, end)>>
    ELSE <<Substring(ns, fromIndex + 2, end)>>
         \o EndFrom(ns, fromIndex - 1, LastIndexOf(ns, fromIndex - 1))

\* A variant whose first end is the "::" itself, not the character before.
NamespaceEndPastSep(ns) ==
    IF ns = <<>> THEN <<>>
    ELSE LET end == LastIndexOf(ns, Len(ns) - 2) IN
         EndFrom(ns, end, LastIndexOf(ns, end))

\* The namespaces GenerateNamespaceEnd closes, innermost first.
NamespaceEnd(ns) ==
    IF ns = <<>> THEN <<>>
    ELSE LET end == LastIndexOf(ns, Len(ns) - 2) - 1 IN
         EndFrom(ns, end, LastIndexOf(ns, end))

\* GenerateInterfaces: one declaration per interface of the namespace.
Interfaces(mn) == [j \in DOMAIN mn.interfaces |-> <<"decl", mn.interfaces[j]>>]

Opens(names) == [j \in DOMAIN names |-> <<"open", names[j]>>]
Closes(names) == [j \in DOMAIN names |-> <<"close", names[j]>>]

\* GenerateTypeDeclarations: the namespaces mns in order, skipping those
\* with neither an enumeration nor an interface.
RECURSIVE TypeDeclarations(_)
TypeDeclarations(mns) ==
    IF mns = <<>> THEN <<>>
    ELSE LET mn == Head(mns) IN
         (IF mn.enumerations + Len(mn.interfaces) = 0 THEN <<>>
          ELSE Opens(NamespaceBegin(mn.name)) \o Interfaces(mn)
               \o Closes(NamespaceEnd(mn.name)))
         \o TypeDeclarations(Tail(mns))

=============================================================================

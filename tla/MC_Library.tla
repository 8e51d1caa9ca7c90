----------------------------- MODULE MC_Library -----------------------------
(* The library's pure operators, the Formatter object and the reflection  *)
(* component in one model.  The profile is chosen in the initial state:    *)
(* "operators" checks the operators of MC_Operators on one input;          *)
(* "object" runs a caller's calls on one Formatter; "meta" runs calls on   *)
(* one CMetaComponent.  The variables of the other profiles never change.  *)
EXTENDS MC_Operators

VARIABLES mA, out, mLastException, op, ret, closeCalled, specFault, calls, profile
VARIABLES meta, slots, map, kintfs, next, crashed, found, answer, metaCalls

\* Format strings with a fixed string, ordinary, relative and explicit
\* indexes, an integer conversion with "%n", "%%", and an unknown conversion.
ObjFormatStrings ==
    {<<"a", "%", "s">>, <<"%", "s", "%", "<", "s">>, <<"%", "2", "$", "s">>,
     <<"%", "d", "%", "n">>, <<"%", "%">>, <<"a", "%", "q">>}
\* No args array, one String, and an Integer before a String.
ObjArgLists ==
    {[nargs |-> -1, vals |-> <<>>],
     [nargs |-> 1, vals |-> <<Arg("String", 26, <<"a", "b">>, "none")>>],
     [nargs |-> 2, vals |-> <<Arg("Integer", 65, <<"6", "5">>, "none"),
                              Arg("String", 26, <<"a", "b">>, "none")>>]}

Obj == INSTANCE FormatterObject
           WITH FormatStrings <- ObjFormatStrings, ArgLists <- ObjArgLists,
                SupportedCharsets <- {"UTF-8"},
                CharsetNames <- {"null", "UTF-8", "bogus"}, MaxCalls <- 3

\* Sequences of the external flags of up to n entries.
Flags(n) == UNION {[1..m -> BOOLEAN] : m \in 0..n}

\* Sequences of one or two distinct indexes among those in S.
Picks(S) == {<<i>> : i \in S} \cup {p \in S \X S : p[1] # p[2]}

\* Every component with one or two coclasses, up to one enumeration and up
\* to two interfaces, the enumeration and any interface external, and
\* each coclass implementing one or two distinct interfaces of the
\* component's own.
MCMetaData ==
    UNION {{[coclass |-> [k \in 1..Len(kidx) |-> FALSE], enum |-> e, intf |-> f, kidx |-> kidx] :
               kidx \in UNION {[1..c -> Picks({i \in 1..Len(f) : ~f[i]})] : c \in 1..2}}
           : e \in Flags(1), f \in Flags(2)}

\* The component the other profiles leave untouched.
IdleMetaData == [coclass |-> <<FALSE>>, enum |-> <<>>, intf |-> <<FALSE>>, kidx |-> <<<<1>>>>]

Meta == INSTANCE MetaComponent
            WITH Kinds <- {"coclass", "enum", "intf"}, MetaData <- MCMetaData,
                 MaxCalls <- 3, calls <- metaCalls
IdleMeta == INSTANCE MetaComponent
                WITH Kinds <- {"coclass", "enum", "intf"}, MetaData <- {IdleMetaData},
                     MaxCalls <- 3, calls <- metaCalls

objVars == <<mA, out, mLastException, op, ret, closeCalled, specFault, calls>>
metaVars == <<meta, slots, map, kintfs, next, crashed, found, answer, metaCalls>>
libraryVars == <<input, objVars, metaVars, profile>>

LibraryInit ==
    /\ Obj!Init
    /\ \/ profile = "operators" /\ Init /\ IdleMeta!Init
       \/ profile = "object" /\ input = [kind |-> "none"] /\ IdleMeta!Init
       \/ profile = "meta" /\ input = [kind |-> "none"] /\ Meta!Init

LibraryNext ==
    /\ \/ profile = "operators" /\ Next /\ UNCHANGED <<objVars, metaVars>>
       \/ profile = "object" /\ Obj!Next /\ UNCHANGED <<input, metaVars>>
       \/ profile = "meta" /\ Meta!Next /\ UNCHANGED <<input, objVars>>
    /\ UNCHANGED profile

LibrarySpec == LibraryInit /\ [][LibraryNext]_libraryVars

\* Close leaves a Formatter inert: no later Format appends to the
\* destination, and the calls through EnsureOpen fail.
ClosedFormatterInert == Obj!ClosedFormatterInert

\* mLastException never forgets a failure, and a refused Append of a
\* format specifier during Format leaves one to report.
IoFailuresReported == Obj!IoFailuresReported

\* A Format returning a format error appends nothing.
ParseErrorWritesNothing == Obj!ParseErrorWritesNothing

\* CMetaComponent's slot arrays and maps hold objects it created, at the
\* indexes of the component's own entries (MetaComponent's TypeOK).
MetaTypeOK == Meta!TypeOK

\* Whatever mix of GetAll<Kind> and Build<Kind>(index) calls filled them,
\* the slot array and the map agree: the object the map holds for an entry
\* sits at the entry's realIndex, and every filled slot is in the map.
SlotsMatchMaps == Meta!SlotsMatchMaps

\* A CMetaCoclass's copied interface array never goes stale: each object
\* it holds is the one the component's map holds for that interface.
CoclassSlotsCurrent == Meta!CoclassSlotsCurrent

\* Whatever Build<Kind>(index) calls came before, a getter hands out every
\* object: GetAll<Kind> fills as many non-null entries as Get<Kind>Number
\* reports, and Get<Kind>(fullName) returns an object exactly for the names
\* of the component's own entries.
AnswersComplete == Meta!AnswersComplete

=============================================================================

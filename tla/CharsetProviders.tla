--------------------------- MODULE CharsetProviders ---------------------------
(* One lookup through the charset providers: the loop of                   *)
(* _PrivilegedAction::Run in Charset::LookupViaProviders, over the         *)
(* iterator Charset::GetProviders returns (src/src/libcore/src/ccm/io/     *)
(* charset/Charset.cpp).  That _Iterator keeps one provider of look-ahead, *)
(* mNext, over the ServiceLoader's iterator mI.  The ServiceLoader is not *)
(* in the repository: its iterator yields the providers in order, and     *)
(* loading a broken one fails and moves past it.  Run ignores the ECodes  *)
(* HasNext and Next return.                                                *)
EXTENDS Naturals, Sequences

CONSTANTS
    Names,      \* the charset names looked up
    Charsets,   \* the charsets the providers make
    NoCharset,  \* nullptr
    Providers   \* the installed providers: each a function from names to
                \* the charset its CharsetForName answers, or NoCharset

N == Len(Providers)

VARIABLES
    lookupName, \* the name looked up
    broken,     \* the providers whose loading fails
    loadPos,    \* the next provider mI loads
    mNext,      \* the look-ahead provider, 0 for nullptr
    cp,         \* the provider Run took, 0 for nullptr
    runPc,      \* Run's control location
    found       \* *result

vars == <<lookupName, broken, loadPos, mNext, cp, runPc, found>>

\* _Iterator's constructor: ServiceLoader::Load and its iterator.
Init ==
    /\ lookupName \in Names
    /\ broken \in SUBSET (1..N)
    /\ loadPos = 1
    /\ mNext = 0
    /\ cp = 0
    /\ runPc = "HasNext"
    /\ found = NoCharset

\* GetNext: with no look-ahead, mI loads the next provider into mNext.
\* has is *hasNext: FALSE when mI has none left, TRUE otherwise, even when
\* the load failed (FAIL_RETURN after mI->HasNext set it).
GetNext(pos, next) ==
    CASE next # 0 -> [has |-> TRUE, pos |-> pos, next |-> next]
      [] pos > N -> [has |-> FALSE, pos |-> pos, next |-> 0]
      [] pos \in broken -> [has |-> TRUE, pos |-> pos + 1, next |-> 0]
      [] OTHER -> [has |-> TRUE, pos |-> pos + 1, next |-> pos]

\* while (i->HasNext(&hasNext), hasNext): the loop ends with *result nullptr.
HasNext ==
    /\ runPc = "HasNext"
    /\ LET g == GetNext(loadPos, mNext)
       IN /\ loadPos' = g.pos
          /\ mNext' = g.next
          /\ runPc' = IF g.has THEN "Next" ELSE "Done"
    /\ UNCHANGED <<lookupName, broken, cp, found>>

\* A plausible fault: Next hands out mNext without clearing it.
TakeNextKeepingLookAhead ==
    /\ runPc = "Next"
    /\ LET g == GetNext(loadPos, mNext)
       IN /\ loadPos' = g.pos
          /\ mNext' = g.next
          /\ cp' = IF g.has THEN g.next ELSE 0
    /\ runPc' = "Call"
    /\ UNCHANGED <<lookupName, broken, found>>

\* i->Next(&cp): E_NO_SUCH_ELEMENT_EXCEPTION leaves cp nullptr; otherwise
\* cp = mNext, nullptr when the load failed, and mNext is cleared.
TakeNext ==
    /\ runPc = "Next"
    /\ LET g == GetNext(loadPos, mNext)
       IN /\ loadPos' = g.pos
          /\ mNext' = 0
          /\ cp' = IF g.has THEN g.next ELSE 0
    /\ runPc' = "Call"
    /\ UNCHANGED <<lookupName, broken, found>>

\* A plausible fault: the loop goes on after a provider answered.
CallProviderIgnoringAnswer ==
    /\ runPc = "Call"
    /\ IF cp = 0
       THEN /\ runPc' = "Crashed"
            /\ UNCHANGED found
       ELSE /\ found' = Providers[cp][lookupName]
            /\ runPc' = "HasNext"
    /\ cp' = 0
    /\ UNCHANGED <<lookupName, broken, loadPos, mNext>>

\* cp->CharsetForName(mCharsetName, result): through nullptr, a crash; a
\* charset found returns, none goes round the loop again.
CallProvider ==
    /\ runPc = "Call"
    /\ IF cp = 0
       THEN /\ runPc' = "Crashed"
            /\ UNCHANGED found
       ELSE /\ found' = Providers[cp][lookupName]
            /\ runPc' = IF found' # NoCharset THEN "Done" ELSE "HasNext"
    /\ cp' = 0
    /\ UNCHANGED <<lookupName, broken, loadPos, mNext>>

\* The lookup has returned, or the process has crashed.
Ended ==
    /\ runPc \in {"Done", "Crashed"}
    /\ UNCHANGED vars

Next == HasNext \/ TakeNext \/ CallProvider \/ Ended

\* Run is one thread's sequential loop.
Spec == Init /\ [][Next]_vars /\ WF_vars(Next)

-----------------------------------------------------------------------------
\* The answers of the providers that load, in order.
LoadedAnswers ==
    LET loaded == SelectSeq([k \in 1..N |-> k], LAMBDA k : k \notin broken)
    IN [j \in 1..Len(loaded) |-> Providers[loaded[j]][lookupName]]

\* A failed load with no provider after it, or followed by another failed
\* load: Next then hands out cp nullptr.
UnrecoverableLoad == \E k \in broken : k = N \/ k + 1 \in broken

Lookup == INSTANCE ProviderLookup
              WITH answers <- LoadedAnswers, mayCrash <- UnrecoverableLoad,
                   answer <- CASE runPc = "Done" -> found
                               [] runPc = "Crashed" -> "crash"
                               [] OTHER -> "pending"

\* Run, over GetProviders' look-ahead iterator, implements the lookup:
\* it answers the charset of the first provider that loads and knows the
\* name, or nullptr, passing over a provider that fails to load when one
\* that loads follows it.  Because Run ignores the ECodes of HasNext and
\* Next, it dereferences cp nullptr when a failed load is the last one or
\* is followed by another: the only crash the lookup allows.
RunImplementsLookup == Lookup!Spec

\* Run's loop ends: every provider is taken at most once, so the lookup
\* returns or crashes.
RunEnds == <>(runPc \in {"Done", "Crashed"})

=============================================================================

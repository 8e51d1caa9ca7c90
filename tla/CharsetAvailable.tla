-------------------------- MODULE CharsetAvailable --------------------------
(* Charset::AvailableCharsets: the Run of its _PrivilegedAction            *)
(* (src/src/libcore/src/ccm/io/charset/Charset.cpp).  Run fills a TreeMap  *)
(* ordered by ASCIICaseInsensitiveComparator, so two canonical names that  *)
(* differ only in case are one key: first every charset ICU makes, each    *)
(* Put under its canonical name, then, over GetProviders' look-ahead        *)
(* iterator, the charsets of each provider through Charset::Put, which     *)
(* adds a charset only when its name is not yet a key.  As in              *)
(* LookupViaProviders, Run ignores the ECodes of HasNext and Next.         *)
(* A key is a canonical name folded to one case; a charset is a model      *)
(* value.                                                                  *)
EXTENDS Naturals, Sequences
LOCAL INSTANCE SequencesExt

CONSTANTS
    Keys,         \* the case-folded canonical names
    Charsets,     \* the charsets ICU and the providers make
    NoCharset,    \* no entry in the map
    KeyOf,        \* the folded canonical name (GetName) of each charset
    IcuCharsets,  \* the charsets of GetAvailableCharsetNames, in order
    ProviderCharsets \* the charsets each installed provider's Charsets()
                     \* iterator yields, in order, one sequence per provider

N == Len(ProviderCharsets)

VARIABLES
    broken,   \* the providers whose loading fails
    loadPos,  \* the next provider the ServiceLoader's iterator loads
    mNext,    \* the look-ahead provider of GetProviders' _Iterator, 0: none
    cp,       \* the provider Run took, 0 for nullptr
    it,       \* the charsets cp's iterator has still to yield
    m,        \* the TreeMap: a charset per key, NoCharset when absent
    availPc   \* Run's control location

availVars == <<broken, loadPos, mNext, cp, it, m, availPc>>

\* GetProviders' iterator, as CharsetProviders models it.
Iter == INSTANCE CharsetProviders
            WITH Names <- {}, Providers <- [k \in 1..N |-> <<>>],
                 lookupName <- NoCharset, runPc <- availPc, found <- NoCharset

\* IMap::Put: a key equal up to case is replaced.
PutEntry(map, cs) == [map EXCEPT ![KeyOf[cs]] = cs]

RECURSIVE PutAll(_, _)
PutAll(map, css) == IF css = <<>> THEN map ELSE PutAll(PutEntry(map, Head(css)), Tail(css))

Init ==
    /\ broken \in SUBSET (1..N)
    /\ loadPos = 1
    /\ mNext = 0
    /\ cp = 0
    /\ it = <<>>
    /\ m = [k \in Keys |-> NoCharset]
    /\ availPc = "Icu"

\* The loop over NativeConverter::GetAvailableCharsetNames: one thread's
\* loop with no call that may fail or block, taken as one step.
PutIcu ==
    /\ availPc = "Icu"
    /\ m' = PutAll(m, IcuCharsets)
    /\ availPc' = "HasNext"
    /\ UNCHANGED <<broken, loadPos, mNext, cp, it>>

\* while (i->HasNext(&hasNext), hasNext): false ends the loop and Run
\* returns the map, wrapped unmodifiable.
HasNext ==
    /\ availPc = "HasNext"
    /\ LET g == Iter!GetNext(loadPos, mNext)
       IN /\ loadPos' = g.pos
          /\ mNext' = g.next
          /\ availPc' = IF g.has THEN "Next" ELSE "Done"
    /\ UNCHANGED <<broken, cp, it, m>>

\* i->Next(&cp): cp is mNext, nullptr when its load failed.
TakeNext ==
    /\ availPc = "Next"
    /\ LET g == Iter!GetNext(loadPos, mNext)
       IN /\ loadPos' = g.pos
          /\ mNext' = 0
          /\ cp' = IF g.has THEN g.next ELSE 0
    /\ availPc' = "Charsets"
    /\ UNCHANGED <<broken, it, m>>

\* cp->Charsets(&it): through nullptr, a crash.
GetCharsets ==
    /\ availPc = "Charsets"
    /\ IF cp = 0
       THEN availPc' = "Crashed" /\ UNCHANGED it
       ELSE availPc' = "Put" /\ it' = ProviderCharsets[cp]
    /\ UNCHANGED <<broken, loadPos, mNext, cp, m>>

\* A plausible fault: Charset::Put without its ContainsKey test.
PutOverwriting ==
    /\ availPc = "Put"
    /\ IF it = <<>>
       THEN availPc' = "HasNext" /\ UNCHANGED <<it, m>>
       ELSE /\ m' = PutEntry(m, Head(it))
            /\ it' = Tail(it)
            /\ UNCHANGED availPc
    /\ UNCHANGED <<broken, loadPos, mNext, cp>>

\* A plausible fault: Put's loop tests HasNext but never calls Next.
PutWithoutNext ==
    /\ availPc = "Put"
    /\ IF it = <<>>
       THEN availPc' = "HasNext" /\ UNCHANGED <<it, m>>
       ELSE /\ m' = IF m[KeyOf[Head(it)]] = NoCharset THEN PutEntry(m, Head(it)) ELSE m
            /\ UNCHANGED <<it, availPc>>
    /\ UNCHANGED <<broken, loadPos, mNext, cp>>

\* One round of Charset::Put's loop: the next charset is added unless its
\* canonical name is already a key; an exhausted iterator returns.
PutStep ==
    /\ availPc = "Put"
    /\ IF it = <<>>
       THEN availPc' = "HasNext" /\ UNCHANGED <<it, m>>
       ELSE /\ m' = IF m[KeyOf[Head(it)]] = NoCharset THEN PutEntry(m, Head(it)) ELSE m
            /\ it' = Tail(it)
            /\ UNCHANGED availPc
    /\ UNCHANGED <<broken, loadPos, mNext, cp>>

\* Run has returned, or the process has crashed.
AvailableEnded ==
    /\ availPc \in {"Done", "Crashed"}
    /\ UNCHANGED availVars

Next == PutIcu \/ HasNext \/ TakeNext \/ GetCharsets \/ PutStep \/ AvailableEnded

\* Run is one thread's sequential loop.
Spec == Init /\ [][Next]_availVars /\ WF_availVars(Next)

-----------------------------------------------------------------------------
\* The charsets of the providers that load, in loading order.
LoadedCharsets ==
    LET loaded == SelectSeq([k \in 1..N |-> k], LAMBDA k : k \notin broken)
    IN [j \in 1..Len(loaded) |-> ProviderCharsets[loaded[j]]]

\* What AvailableCharsets promises for key k: the charset ICU names last
\* under it, else that of the first loaded provider listing it, else none.
Available(k) ==
    LET icu == {j \in DOMAIN IcuCharsets : KeyOf[IcuCharsets[j]] = k}
        prov == FlattenSeq(LoadedCharsets)
        ps == {j \in DOMAIN prov : KeyOf[prov[j]] = k}
    IN IF icu # {} THEN IcuCharsets[CHOOSE j \in icu : \A i \in icu : i <= j]
       ELSE IF ps # {} THEN prov[CHOOSE j \in ps : \A i \in ps : j <= i]
       ELSE NoCharset

\* AvailableCharsets returns, for every canonical name up to case, ICU's
\* charset when ICU has one and otherwise the first provider's, in loading
\* order, passing over a provider that fails to load; Run crashes (cp
\* nullptr) only where the lookup through the providers may too: a failed
\* load that is the last one or is followed by another.
AvailableMapsFirstCharset ==
    /\ availPc = "Done" => \A k \in Keys : m[k] = Available(k)
    /\ availPc = "Crashed" => Iter!UnrecoverableLoad

\* Run returns or crashes: each provider is taken once and each provider's
\* iterator is finite.
AvailableEnds == <>(availPc \in {"Done", "Crashed"})

=============================================================================

------------------------------ MODULE Charset ------------------------------
(* The charset lookup of src/src/libcore/src/ccm/io/charset/Charset.cpp:   *)
(* threads calling ForName / ForNameUEE / IsSupported race through Lookup, *)
(* which reads the volatile one-entry cache sCache1, then Lookup2, which   *)
(* consults the locked map sCache2, then NativeConverter, then the         *)
(* charset providers behind a thread-local recursion gate, and Cache,      *)
(* which files a new charset object under its canonical name, its aliases  *)
(* and the name asked for.                                                 *)
(*                                                                         *)
(* One step of a thread is the code between two accesses to shared state: *)
(* the synchronized blocks on sCache2 are single steps, the volatile read  *)
(* and write of sCache1 are single steps.  A charset object is a record of *)
(* the charset it implements and an identity; NativeConverter and the     *)
(* providers create a fresh object on every call.  A provider may look up  *)
(* another charset through Charset::ForName while it runs (the re-entry    *)
(* the gate exists for); the suspended lookup is kept on a per-thread      *)
(* stack.                                                                  *)
EXTENDS Integers, Sequences, FiniteSets, TLC, CharsetName

CONSTANTS
    Threads,          \* the threads calling into Charset
    Names,            \* the names asked for (sequences of characters)
    Charsets,         \* the charsets that exist
    NoCharset,        \* "no charset for this name"
    CanonicalName,    \* Charset::GetName of each charset
    Aliases,          \* Charset::GetAliases of each charset
    IcuCharset,       \* NativeConverter::CharsetForName: name -> charset
    ProviderCharset,  \* what the providers' CharsetForName answer
    Apis,             \* the public entry points modelled
    ReentryNames,     \* the names a provider looks up through ForName
    MaxLookups        \* the public calls each thread makes

ASSUME /\ CanonicalName \in [Charsets -> Names]
       /\ Aliases \in [Charsets -> SUBSET Names]
       /\ IcuCharset \in [Names -> Charsets \cup {NoCharset}]
       /\ ProviderCharset \in [Names -> Charsets \cup {NoCharset}]
       /\ ReentryNames \subseteq Names
       /\ Apis \subseteq {"ForName", "ForNameUEE", "IsSupported"}
       /\ MaxLookups \in [Threads -> Nat]

\* Charset::Constructor refuses a canonical name or an alias that fails
\* CheckName, so every charset that exists is named legally.
WellNamed == \A c \in Charsets : \A a \in {CanonicalName[c]} \cup Aliases[c] : CheckName(a)
ASSUME WellNamed

\* The charset a name stands for: NativeConverter is asked first.
Denotes(n) == IF IcuCharset[n] # NoCharset THEN IcuCharset[n]
                                           ELSE ProviderCharset[n]

\* The environment is consistent: a charset's canonical name and its
\* aliases stand for that charset, and no name is an alias of two.
ASSUME /\ \A c \in Charsets : \A a \in {CanonicalName[c]} \cup Aliases[c] :
              Denotes(a) = c
       /\ \A c, d \in Charsets :
              c # d => ({CanonicalName[c]} \cup Aliases[c])
                       \cap ({CanonicalName[d]} \cup Aliases[d]) = {}

NoObject == [cs |-> NoCharset, id |-> 0]   \* nullptr
IllegalName == [cs |-> NoCharset, id |-> -1]  \* CheckName failed
NoEntry == [key |-> <<>>, val |-> NoObject]  \* sCache1 before any Cache
NoResult == [name |-> <<>>, api |-> "none", raw |-> NoObject, out |-> "none"]

VARIABLES
    cache1,    \* sCache1: the last (name, charset) filed or found
    cache2,    \* sCache2: name -> charset object
    objects,   \* charset objects created so far
    gate,      \* gate->Get() of each thread: inside LookupViaProviders
    pc,        \* each thread's control location
    fr,        \* the lookup a thread is running: its locals
    stack,     \* lookups suspended inside a provider
    res,       \* the result of each thread's last public call
    rounds     \* public calls started by each thread

vars == <<cache1, cache2, objects, gate, pc, fr, stack, res, rounds>>

Objects == [cs : Charsets, id : Nat \ {0}]
Frame(n, a) == [name |-> n, api |-> a, obj |-> NoObject,
                ccs |-> NoObject, reentered |-> FALSE]
Idle == Frame(<<>>, "none")   \* no call in progress: no locals
NewObject(c) == [cs |-> c, id |-> objects + 1]

\* What a public call returns for Lookup's outcome r.
ApiResult(api, r) ==
    IF r \in Objects THEN IF api = "IsSupported" THEN "true" ELSE "charset"
    ELSE CASE api = "ForNameUEE" -> "UnsupportedEncoding"
           [] r = IllegalName -> "IllegalCharsetName"
           [] api = "ForName" -> "UnsupportedCharset"
           [] api = "IsSupported" -> "false"

TypeOK ==
    /\ cache1 \in [key : Names \cup {<<>>}, val : Objects \cup {NoObject}]
    /\ DOMAIN cache2 \subseteq Names /\ \A k \in DOMAIN cache2 : cache2[k] \in Objects
    /\ objects \in Nat
    /\ gate \in [Threads -> BOOLEAN]
    /\ pc \in [Threads -> {"Idle", "Lookup", "Lookup2", "Native", "Providers",
                            "ProviderRun", "CheckName", "Cache", "Publish"}]
    /\ \A t \in Threads : fr[t].obj \in Objects \cup {NoObject}
    /\ \A t \in Threads : Len(stack[t]) <= 1
    /\ \A t \in Threads : rounds[t] \in 0..MaxLookups[t]

-----------------------------------------------------------------------------
(* Finishing a lookup.  Inside a provider the suspended lookup resumes     *)
(* (the provider's call to Charset::ForName returns); at the top the       *)
(* public call maps Lookup's outcome r to its own result.                   *)
Return(t, r) ==
    \/ /\ stack[t] # <<>>
       /\ fr' = [fr EXCEPT ![t] = [Head(stack[t]) EXCEPT !.reentered = TRUE]]
       /\ stack' = [stack EXCEPT ![t] = Tail(@)]
       /\ pc' = [pc EXCEPT ![t] = "ProviderRun"]
       /\ UNCHANGED <<res, rounds>>
    \/ /\ stack[t] = <<>>
       /\ res' = [res EXCEPT ![t] = [name |-> fr[t].name, api |-> fr[t].api,
                                     raw |-> r, out |-> ApiResult(fr[t].api, r)]]
       /\ fr' = [fr EXCEPT ![t] = Idle]
       /\ pc' = [pc EXCEPT ![t] = "Idle"]
       /\ UNCHANGED <<stack, rounds>>

\* ForName, ForNameUEE or IsSupported called with name n.
Call(t, n, a) ==
    /\ pc[t] = "Idle" /\ rounds[t] < MaxLookups[t]
    /\ fr' = [fr EXCEPT ![t] = Frame(n, a)]
    /\ pc' = [pc EXCEPT ![t] = "Lookup"]
    /\ rounds' = [rounds EXCEPT ![t] = @ + 1]
    /\ UNCHANGED <<cache1, cache2, objects, gate, stack, res>>

\* A plausible fault: the cached name is not compared.
LookupAnyKey(t) ==
    /\ pc[t] = "Lookup"
    /\ cache1 # NoEntry
    /\ Return(t, cache1.val)
    /\ UNCHANGED <<cache1, cache2, objects, gate>>

\* Lookup: VOLATILE_GET of sCache1; on the same name its charset is returned.
Lookup(t) ==
    /\ pc[t] = "Lookup"
    /\ cache1 # NoEntry /\ cache1.key = fr[t].name
    /\ Return(t, cache1.val)
    /\ UNCHANGED <<cache1, cache2, objects, gate>>

LookupMiss(t) ==
    /\ pc[t] = "Lookup"
    /\ ~(cache1 # NoEntry /\ cache1.key = fr[t].name)
    /\ pc' = [pc EXCEPT ![t] = "Lookup2"]
    /\ UNCHANGED <<cache1, cache2, objects, gate, fr, stack, res, rounds>>

\* Lookup2's synchronized block: a hit in sCache2 is published to sCache1.
Lookup2(t) ==
    LET n == fr[t].name IN
    /\ pc[t] = "Lookup2"
    /\ \/ /\ n \in DOMAIN cache2
          /\ cache1' = [key |-> n, val |-> cache2[n]]
          /\ Return(t, cache2[n])
          /\ UNCHANGED <<cache2, objects, gate>>
       \/ /\ n \notin DOMAIN cache2
          /\ pc' = [pc EXCEPT ![t] = "Native"]
          /\ UNCHANGED <<cache1, cache2, objects, gate, fr, stack, res, rounds>>

\* NativeConverter::CharsetForName: a fresh object, or nullptr.
Native(t) ==
    LET c == IcuCharset[fr[t].name] IN
    /\ pc[t] = "Native"
    /\ \/ /\ c # NoCharset
          /\ fr' = [fr EXCEPT ![t].obj = NewObject(c)]
          /\ objects' = objects + 1
          /\ pc' = [pc EXCEPT ![t] = "Cache"]
       \/ /\ c = NoCharset
          /\ pc' = [pc EXCEPT ![t] = "Providers"]
          /\ UNCHANGED <<fr, objects>>
    /\ UNCHANGED <<cache1, cache2, gate, stack, res, rounds>>

\* A plausible fault: the gate is set but never consulted.
LookupViaProvidersUngated(t) ==
    /\ pc[t] = "Providers"
    /\ pc' = [pc EXCEPT ![t] = "ProviderRun"]
    /\ gate' = [gate EXCEPT ![t] = TRUE]
    /\ UNCHANGED <<cache1, cache2, objects, fr, stack, res, rounds>>

\* LookupViaProviders: a thread already inside a provider gets nullptr;
\* otherwise the gate is set and the providers run.
LookupViaProviders(t) ==
    /\ pc[t] = "Providers"
    /\ pc' = [pc EXCEPT ![t] = IF gate[t] THEN "CheckName" ELSE "ProviderRun"]
    /\ gate' = [gate EXCEPT ![t] = TRUE]
    /\ UNCHANGED <<cache1, cache2, objects, fr, stack, res, rounds>>

\* A provider's CharsetForName looks up another name through ForName.
ProviderReenter(t, d) ==
    /\ pc[t] = "ProviderRun" /\ ~fr[t].reentered
    /\ stack' = [stack EXCEPT ![t] = <<fr[t]>> \o @]
    /\ fr' = [fr EXCEPT ![t] = Frame(d, "ForName")]
    /\ pc' = [pc EXCEPT ![t] = "Lookup"]
    /\ UNCHANGED <<cache1, cache2, objects, gate, res, rounds>>

\* A plausible fault: the gate is not cleared (gate->Set(nullptr) missing).
ProviderAnswerKeepingGate(t) ==
    LET c == ProviderCharset[fr[t].name] IN
    /\ pc[t] = "ProviderRun"
    /\ fr' = [fr EXCEPT ![t].obj = IF c = NoCharset THEN NoObject ELSE NewObject(c)]
    /\ objects' = IF c = NoCharset THEN objects ELSE objects + 1
    /\ pc' = [pc EXCEPT ![t] = IF c = NoCharset THEN "CheckName" ELSE "Cache"]
    /\ UNCHANGED <<cache1, cache2, gate, stack, res, rounds>>

\* The providers answer (a fresh object or nullptr) and the gate is cleared;
\* Lookup2 then caches the object, or checks the name.
ProviderAnswer(t) ==
    LET c == ProviderCharset[fr[t].name] IN
    /\ pc[t] = "ProviderRun"
    /\ fr' = [fr EXCEPT ![t].obj = IF c = NoCharset THEN NoObject ELSE NewObject(c)]
    /\ objects' = IF c = NoCharset THEN objects ELSE objects + 1
    /\ gate' = [gate EXCEPT ![t] = FALSE]
    /\ pc' = [pc EXCEPT ![t] = IF c = NoCharset THEN "CheckName" ELSE "Cache"]
    /\ UNCHANGED <<cache1, cache2, stack, res, rounds>>

\* No charset: CheckName decides between nullptr and the exception.
CheckNameStep(t) ==
    /\ pc[t] = "CheckName"
    /\ Return(t, IF CheckName(fr[t].name) THEN NoObject ELSE IllegalName)
    /\ UNCHANGED <<cache1, cache2, objects, gate>>

\* Plausible faults: the name asked for is filed with the object handed in
\* (cache2->Put(charsetName, cs_)); the canonical entry is not consulted.
CacheLockedFilingGiven(t) ==
    LET n == fr[t].name
        cs == fr[t].obj
        cn == CanonicalName[cs.cs]
        ccs == IF cn \in DOMAIN cache2 THEN cache2[cn] ELSE cs
        filed == IF cn \in DOMAIN cache2 THEN cache2
                 ELSE [k \in {cn} \cup Aliases[cs.cs] |-> cs] @@ cache2
    IN /\ pc[t] = "Cache"
       /\ cache2' = (n :> cs) @@ filed
       /\ fr' = [fr EXCEPT ![t].ccs = ccs]
       /\ pc' = [pc EXCEPT ![t] = "Publish"]
       /\ UNCHANGED <<cache1, objects, gate, stack, res, rounds>>

CacheLockedUnchecked(t) ==
    LET n == fr[t].name
        cs == fr[t].obj
        cn == CanonicalName[cs.cs]
    IN /\ pc[t] = "Cache"
       /\ cache2' = (n :> cs) @@ [k \in {cn} \cup Aliases[cs.cs] |-> cs] @@ cache2
       /\ fr' = [fr EXCEPT ![t].ccs = cs]
       /\ pc' = [pc EXCEPT ![t] = "Publish"]
       /\ UNCHANGED <<cache1, objects, gate, stack, res, rounds>>

\* Cache's synchronized block: the charset already filed under its canonical
\* name wins; otherwise the new object is filed under the canonical name and
\* the aliases.  Either way it is filed under the name asked for.
CacheLocked(t) ==
    LET n == fr[t].name
        cs == fr[t].obj
        cn == CanonicalName[cs.cs]
        ccs == IF cn \in DOMAIN cache2 THEN cache2[cn] ELSE cs
        filed == IF cn \in DOMAIN cache2 THEN cache2
                 ELSE [k \in {cn} \cup Aliases[cs.cs] |-> cs] @@ cache2
    IN /\ pc[t] = "Cache"
       /\ cache2' = (n :> ccs) @@ filed
       /\ fr' = [fr EXCEPT ![t].ccs = ccs]
       /\ pc' = [pc EXCEPT ![t] = "Publish"]
       /\ UNCHANGED <<cache1, objects, gate, stack, res, rounds>>

\* A plausible fault: sCache1 is given the object handed to Cache.
PublishGiven(t) ==
    /\ pc[t] = "Publish"
    /\ cache1' = [key |-> fr[t].name, val |-> fr[t].obj]
    /\ Return(t, fr[t].obj)
    /\ UNCHANGED <<cache2, objects, gate>>

\* VOLATILE_SET of sCache1 outside the lock; Lookup2 returns *cs, the object
\* it was handed, not the one Cache filed.
Publish(t) ==
    /\ pc[t] = "Publish"
    /\ cache1' = [key |-> fr[t].name, val |-> fr[t].ccs]
    /\ Return(t, fr[t].obj)
    /\ UNCHANGED <<cache2, objects, gate>>

Init ==
    /\ cache1 = NoEntry
    /\ cache2 = <<>>
    /\ objects = 0
    /\ gate = [t \in Threads |-> FALSE]
    /\ pc = [t \in Threads |-> "Idle"]
    /\ fr = [t \in Threads |-> Idle]
    /\ stack = [t \in Threads |-> <<>>]
    /\ res = [t \in Threads |-> NoResult]
    /\ rounds = [t \in Threads |-> 0]

Done == /\ \A t \in Threads : pc[t] = "Idle" /\ rounds[t] = MaxLookups[t]
        /\ UNCHANGED vars

\* A step of thread t.
Step(t) ==
    \/ \E n \in Names, a \in Apis : Call(t, n, a)
    \/ Lookup(t) \/ LookupMiss(t) \/ Lookup2(t) \/ Native(t)
    \/ LookupViaProviders(t) \/ \E d \in ReentryNames : ProviderReenter(t, d)
    \/ ProviderAnswer(t) \/ CheckNameStep(t) \/ CacheLocked(t) \/ Publish(t)

Next == (\E t \in Threads : Step(t)) \/ Done

Spec == Init /\ [][Next]_vars

-----------------------------------------------------------------------------
(* Properties.                                                             *)

\* Cache keeps one object per charset in sCache2: when two threads file
\* objects for the same charset under different names, the second finds
\* the first under the canonical name and files that one.
OneObjectPerCharset ==
    \A a, b \in DOMAIN cache2 :
        cache2[a].cs = cache2[b].cs => cache2[a] = cache2[b]

\* sCache1, written outside the lock by Cache and Lookup2, never disagrees
\* with sCache2 about the name it holds.
Cache1AgreesWithCache2 ==
    cache1 # NoEntry => /\ cache1.key \in DOMAIN cache2
                        /\ cache2[cache1.key] = cache1.val

\* A public call that returns a charset returns one of the charset the
\* name stands for, whichever cache it came from.
LookupAnswersName ==
    \A t \in Threads :
        res[t] # NoResult /\ res[t].raw \in Objects =>
            res[t].raw.cs = Denotes(res[t].name)

\* A public call never reports a supported name unsupported: only a lookup
\* made from inside a provider is refused by the gate, and the gate is
\* cleared when the providers return.
SupportedNamesFound ==
    \A t \in Threads :
        res[t] # NoResult /\ Denotes(res[t].name) # NoCharset =>
            res[t].raw \in Objects

\* sCache2 implements the registry: the object filed under a charset's
\* canonical name is bound once and never replaced, whatever the threads
\* filing the same charset under other names do.
Registry == INSTANCE CharsetRegistry WITH
    registry <- [c \in Charsets |->
                    IF CanonicalName[c] \in DOMAIN cache2
                    THEN cache2[CanonicalName[c]] ELSE NoObject]
CacheImplementsRegistry == Registry!Spec

\* The charset a call returns is the object sCache2 holds for that name, so
\* that all callers share one object per charset.
LookupReturnsCachedObject ==
    \A t \in Threads :
        res[t] # NoResult /\ res[t].raw \in Objects =>
            res[t].raw = cache2[res[t].name]

==============================================================================

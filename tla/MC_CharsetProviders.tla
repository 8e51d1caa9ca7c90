------------------------- MODULE MC_CharsetProviders -------------------------
(* The charset lookup cache of MC_Charset and, beside it, one lookup       *)
(* through the providers that Charset.tla abstracts to ProviderCharset.  *)
(* The profile is chosen in the initial state: "threads" runs the threads *)
(* of MC_Charset, the lookup's variables never changing; "providers" runs  *)
(* one lookup of "x" or "y" over three providers and every set of them     *)
(* that fail to load, the threads never moving; "available" runs one     *)
(* AvailableCharsets over three providers and every set of them that fail *)
(* to load, the others never moving.                                       *)
EXTENDS MC_Charset

VARIABLES lookupName, broken, loadPos, mNext, cp, runPc, found, profile,
          aBroken, aLoadPos, aNext, aCp, aIt, aMap, availPc

\* Three providers: one knowing no name, one knowing "x", one knowing both,
\* so that the first to answer is not the last.
ProviderTable ==
    <<[n \in {"x", "y"} |-> "none"],
      [n \in {"x", "y"} |-> IF n = "x" THEN "X" ELSE "none"],
      [n \in {"x", "y"} |-> "Y"]>>

Prov == INSTANCE CharsetProviders
            WITH Names <- {"x", "y"}, Charsets <- {"X", "Y"}, NoCharset <- "none",
                 Providers <- ProviderTable

\* ICU makes U1; of the providers, the first lists X1, the second nothing,
\* the third X2 and U2: X1 and X2 (and U1 and U2) have canonical names
\* equal up to case.
AvailKeyOf == [c \in {"U1", "U2", "X1", "X2"} |-> IF c \in {"U1", "U2"} THEN "u" ELSE "x"]

Avail == INSTANCE CharsetAvailable
            WITH Keys <- {"u", "x"}, Charsets <- {"U1", "U2", "X1", "X2"},
                 NoCharset <- "none", KeyOf <- AvailKeyOf, IcuCharsets <- <<"U1">>,
                 ProviderCharsets <- <<<<"X1">>, <<>>, <<"X2", "U2">>>>,
                 broken <- aBroken, loadPos <- aLoadPos, mNext <- aNext, cp <- aCp,
                 it <- aIt, m <- aMap

provVars == <<lookupName, broken, loadPos, mNext, cp, runPc, found>>
availVars == <<aBroken, aLoadPos, aNext, aCp, aIt, aMap, availPc>>
lookupVars == <<vars, provVars, profile, availVars>>

LookupInit ==
    /\ \/ profile = "threads" /\ Init /\ Prov!Init /\ lookupName = "x" /\ broken = {}
       \/ profile = "providers" /\ Prov!Init /\ Init
       \/ profile = "available" /\ Init /\ Prov!Init /\ lookupName = "x" /\ broken = {}
    /\ Avail!Init
    /\ profile # "available" => aBroken = {}

\* A step of the lookup through the providers.
ProvidersStep ==
    /\ profile = "providers"
    /\ Prov!Next
    /\ UNCHANGED <<vars, profile, availVars>>

\* A step of AvailableCharsets.
AvailableStep ==
    /\ profile = "available"
    /\ Avail!Next
    /\ UNCHANGED <<vars, provVars, profile>>

LookupNext ==
    \/ profile = "threads" /\ Next /\ UNCHANGED <<provVars, profile, availVars>>
    \/ ProvidersStep
    \/ AvailableStep

\* The lookup through the providers is one thread's loop, which keeps
\* taking steps.
LookupSpec ==
    LookupInit /\ [][LookupNext]_lookupVars
    /\ WF_lookupVars(ProvidersStep) /\ WF_lookupVars(AvailableStep)

\* Run over GetProviders' iterator answers the first provider that loads
\* and knows the name, and crashes only on a failed load with none that
\* loads after it.
RunImplementsLookup == Prov!RunImplementsLookup

\* A lookup through the providers returns or crashes.
RunEnds == profile = "providers" => Prov!RunEnds

\* AvailableCharsets maps each canonical name, up to case, to ICU's charset
\* or else the first loading provider's, and crashes only on a failed load
\* with none that loads after it.
AvailableMapsFirstCharset == profile = "available" => Avail!AvailableMapsFirstCharset

\* AvailableCharsets returns or crashes.
AvailableEnds == profile = "available" => Avail!AvailableEnds

=============================================================================

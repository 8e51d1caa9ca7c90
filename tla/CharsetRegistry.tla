-------------------------- MODULE CharsetRegistry --------------------------
(* What Charset's cache promises its callers: each charset is bound to one *)
(* object, once, and the binding never changes, so that every caller that *)
(* obtains the charset through the cache shares that object.              *)
CONSTANTS
    Charsets,   \* the charsets that exist
    NoObject    \* no object bound yet

VARIABLE registry   \* charset -> the object bound to it, or NoObject

Init == registry = [c \in Charsets |-> NoObject]

\* The first object filed for c becomes its object; no other binding moves.
Bind(c) ==
    /\ registry[c] = NoObject
    /\ registry'[c] # NoObject
    /\ \A d \in Charsets \ {c} : registry'[d] = registry[d]

Next == \E c \in Charsets : Bind(c)

Spec == Init /\ [][Next]_registry
=============================================================================

---------------------------- MODULE ProviderLookup ----------------------------
(* What a charset lookup through the installed providers promises: the     *)
(* charset of the first provider, in loading order, that knows the name,   *)
(* or none; the providers that fail to load are passed over.  A lookup    *)
(* may end in a crash only when mayCrash holds, a condition on which       *)
(* providers fail to load that the implementation gives.                  *)
EXTENDS Sequences

CONSTANT NoCharset  \* a provider's nullptr answer

VARIABLES
    answers,   \* what each provider that loads answers, in loading order
    mayCrash,  \* the providers that fail to load may crash the lookup
    answer     \* "pending", then the charset found, NoCharset or "crash"

RECURSIVE FirstAnswer(_)
FirstAnswer(as) ==
    IF as = <<>> THEN NoCharset
    ELSE IF Head(as) # NoCharset THEN Head(as) ELSE FirstAnswer(Tail(as))

Init == answer = "pending"

Next ==
    /\ answer = "pending"
    /\ \/ answer' = FirstAnswer(answers)
       \/ mayCrash /\ answer' = "crash"
    /\ UNCHANGED <<answers, mayCrash>>

Spec == Init /\ [][Next]_<<answers, mayCrash, answer>>

=============================================================================

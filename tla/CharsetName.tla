----------------------------- MODULE CharsetName -----------------------------
(* Charset::CheckName (src/src/libcore/src/ccm/io/charset/Charset.cpp),    *)
(* the check of a charset name.  A name is a sequence of one-character     *)
(* strings.                                                                *)
EXTENDS Integers, Sequences

\* The character ranges of the code: 'A'..'Z', 'a'..'z', '0'..'9'.
Upper == {"A", "B", "C", "D", "E", "F", "G", "H", "I", "J", "K", "L", "M",
          "N", "O", "P", "Q", "R", "S", "T", "U", "V", "W", "X", "Y", "Z"}
Lower == {"a", "b", "c", "d", "e", "f", "g", "h", "i", "j", "k", "l", "m",
          "n", "o", "p", "q", "r", "s", "t", "u", "v", "w", "x", "y", "z"}
Digit == {"0", "1", "2", "3", "4", "5", "6", "7", "8", "9"}

\* A plausible fault: the punctuation accepted at any position.
AcceptedAtAnyPosition(c, i) ==
    c \in Upper \cup Lower \cup Digit \cup {"-", "+", ":", "_", "."}

\* One iteration of the loop: does character c at index i "continue"?
Accepted(c, i) ==
    \/ c \in Upper \/ c \in Lower \/ c \in Digit
    \/ c \in {"-", "+", ":", "_", "."} /\ i # 0

\* "for (i = 0; i < n; i++) { ... return E_ILLEGAL_CHARSET_NAME_EXCEPTION; }"
\* from index i on (indexes are 0-based as in the code).
RECURSIVE CheckFrom(_, _)
CheckFrom(s, i) ==
    IF i = Len(s) THEN TRUE
    ELSE Accepted(s[i + 1], i) /\ CheckFrom(s, i + 1)

\* NOERROR (TRUE) or E_ILLEGAL_CHARSET_NAME_EXCEPTION (FALSE).
CheckName(s) == Len(s) # 0 /\ CheckFrom(s, 0)

\* The rule for legal charset names (java.nio.charset.Charset): a nonempty
\* string of letters, digits, '-', '+', ':', '_' and '.', whose first
\* character is a letter or a digit.
LegalName(s) ==
    /\ s # <<>>
    /\ s[1] \in Upper \cup Lower \cup Digit
    /\ \A k \in 1..Len(s) :
          s[k] \in Upper \cup Lower \cup Digit \cup {"-", "+", ":", "_", "."}
==============================================================================

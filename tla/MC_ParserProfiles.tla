-------------------------- MODULE MC_ParserProfiles --------------------------
(* Three token profiles of the parser in one model: a Parser over every    *)
(* token kind in short files, a Parser over the tokens of interfaces,      *)
(* methods and parameters, and a Parser over the tokens of pointer and     *)
(* Array types.  The profile is chosen once, with the file, and a parse    *)
(* only ever reads tokens of its own profile.                              *)
EXTENDS MC_Parser

VARIABLE profile

\* Every token kind, in files of up to 10 tokens.
All == INSTANCE Parser WITH Alphabet <- MCAlphabet, MaxTokens <- MCMaxTokens
\* The interface, method and parameter tokens, in files of up to 14 tokens.
Methods == INSTANCE Parser WITH Alphabet <- MethodAlphabet,
                                MaxTokens <- MethodMaxTokens
\* The type tokens, in files of up to 15 tokens.
Types == INSTANCE Parser WITH Alphabet <- TypesAlphabet,
                              MaxTokens <- TypesMaxTokens

profileVars == <<vars, profile>>

ProfileInit ==
    \/ profile = "all" /\ All!Init
    \/ profile = "methods" /\ Methods!Init
    \/ profile = "types" /\ Types!Init

ProfileNext ==
    /\ \/ profile = "all" /\ All!Next
       \/ profile = "methods" /\ Methods!Next
       \/ profile = "types" /\ Types!Next
    /\ UNCHANGED profile

\* Each parse is one sequential thread that keeps taking steps.
ProfileSpec == ProfileInit /\ [][ProfileNext]_profileVars
                           /\ WF_profileVars(ProfileNext)

\* Every variable holds a value of its kind, for the tokens of its profile.
ProfileTypeOK ==
    /\ profile \in {"all", "methods", "types"}
    /\ profile = "all" => All!TypeOK
    /\ profile = "methods" => Methods!TypeOK
    /\ profile = "types" => Types!TypeOK

=============================================================================

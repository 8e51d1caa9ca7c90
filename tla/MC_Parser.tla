------------------------------ MODULE MC_Parser ------------------------------
(* Instances of Parser for TLC.                                            *)
EXTENDS Parser

\* Every token kind the parser tells apart, in files of up to 10 tokens:
\* every production is entered and every error path taken.
MCAlphabet == TokenKinds
MCMaxTokens == 10

\* The tokens of interfaces, methods, parameters and types, in files long
\* enough for an attributed interface with a complete method
\* ("[ ] interface I { m ( [ in ] Integer * x ) ; }" is 16 tokens).
MethodAlphabet == {"[", "]", "(", ")", "{", "}", ";", "*", "interface",
                   "identifier", "in", "Integer", EOF}
MethodMaxTokens == 14
\* The tokens of a parameter list with directions and Array types.
ParamAlphabet == {"interface", "identifier", "{", "(", "[", "]", ",", "Array",
                  "<", ">", "Integer", "*", "in", "out", "callee", EOF}
ParamMaxTokens == 11
\* The tokens of pointer parameters, in files long enough for two
\* parameters of the same pointer type, and Array types
\* ("interface I { m ( [ ] Integer * x , [ ] Integer *" is 15 tokens).
TypesAlphabet == {"interface", "identifier", "{", "(", "[", "]", "Integer",
                  "*", "Array", "<", ">", EOF}
TypesMaxTokens == 15

=============================================================================

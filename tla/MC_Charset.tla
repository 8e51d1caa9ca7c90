---------------------------- MODULE MC_Charset ----------------------------
(* Two threads, the first making two public calls and the second one,    *)
(* through any of the three entry points, on six names: "U8", the         *)
(* canonical name of the charset                                           *)
(* UTF8, its alias "u8", "8" which NativeConverter also resolves to UTF8   *)
(* but is neither, "P", a charset only a provider knows, "Q", a legal     *)
(* name nobody knows, and "-", an illegal one.  The provider looks "P"   *)
(* up again through ForName while it runs.                                *)
EXTENDS Charset

MCNames == {<<"U", "8">>, <<"u", "8">>, <<"8">>, <<"P">>, <<"Q">>, <<"-">>}
MCCharsets == {"UTF8", "PRV"}
MCCanonicalName == [c \in MCCharsets |-> IF c = "UTF8" THEN <<"U", "8">> ELSE <<"P">>]
MCAliases == [c \in MCCharsets |-> IF c = "UTF8" THEN {<<"u", "8">>} ELSE {}]
MCIcuCharset == [n \in MCNames |->
                    IF n \in {<<"U", "8">>, <<"u", "8">>, <<"8">>} THEN "UTF8"
                    ELSE "none"]
MCMaxLookups == [t \in {"t1", "t2"} |-> IF t = "t1" THEN 2 ELSE 1]
MCReentryNames == {<<"P">>}
MCProviderCharset == [n \in MCNames |-> IF n = <<"P">> THEN "PRV" ELSE "none"]
=============================================================================

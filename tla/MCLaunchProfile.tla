--------------------------- MODULE MCLaunchProfile ---------------------------
(***************************************************************************)
(* One launch of a profile with an env block of one value, every text of   *)
(* up to four symbols and some longer ones, or of two values and a number. *)
(* A variable's value has a dollar and a name in it, which must not be     *)
(* expanded again; another variable's name starts with the first one's.    *)
(***************************************************************************)
EXTENDS LaunchProfile

ThreeSignals == 3

OneLetter == {"x"}
OneDigit == {"1"}
Symbols == {"$", "{", "}", "x", "1"}

SomeEnv == [n \in {<<"x">>, <<"x", "1">>} |->
              IF n = <<"x">> THEN <<"$", "x", "1">> ELSE <<"}">>]

LongTexts ==
  {<<"$", "{", "x", "1", "}">>, <<"$", "$", "$", "x", "1">>, <<"$", "{", "x", "}", "1">>,
   <<"$", "x", "$", "x", "x">>, <<"{", "$", "x", "1", "}">>, <<"$", "{", "x", "$", "x", "}">>,
   <<"$", "$", "{", "x", "}">>, <<"$", "x", "$", "$", "x">>, <<"$", "{", "1", "}", "$", "x">>}

ShortTexts == UNION {[1 .. n -> Symbols] : n \in 0 .. 4}

SomeTexts == {<<"$", "x">>, <<"$", "$", "x">>, <<"$", "{", "x", "x", "}">>}

SomeBlocks ==
  [{"a"} -> ShortTexts \cup LongTexts]
    \cup [{"a", "b", "c"} -> SomeTexts \cup {Number}]
=============================================================================

---------------------------- MODULE MCWordCheck ----------------------------
(***************************************************************************)
(* A small alphabet: "A" and "B" are letters of words, "V" is a look-alike *)
(* of "A" in the phrase "VB", "w" and "x" are latin letters whose pair     *)
(* "wx" stands for "AB", "*" is a symbol, "M" one character that NFKC makes *)
(* two and "m" a mark, dropped as the symbol is, with which NFKC makes "A"  *)
(* one dropped character.                                                  *)
(***************************************************************************)
EXTENDS WordCheck

MCChars  == {"A", "B", "V", "w", "x", "M", "m", "*"}

\* A text is first taken apart, then put together from the left.
Apart(t) == FlattenSeq([i \in 1..Len(t) |-> IF t[i] = "M" THEN <<"x", "A">> ELSE <<t[i]>>])

MCNfkc(t) ==
    LET Join(c, w) == IF c = "m" /\ w # <<>> /\ Last(w) = "A"
                      THEN Append(Front(w), "*") ELSE Append(w, c)
    IN  FoldLeft(LAMBDA w, c : Join(c, w), <<>>, Apart(t))

MCSimple == [c \in Chars |-> c]
MCClass  == [c \in Chars |-> IF c = "V" THEN Chars \ {"w", "x"} ELSE {c}]

AB == <<"A", "B">>
MCPhrases == (<<"V", "B">> :> AB)
MCAliases == (<<"w", "x">> :> AB) @@ (<<"w", "w", "x">> :> <<"B">>)

MCEntries ==
    {[word |-> AB,                level |-> 1, kind |-> "keyword"],
     [word |-> <<"B">>,           level |-> 1, kind |-> "keyword"],
     [word |-> <<"A", "A", "B">>, level |-> 2, kind |-> "keyword"],
     [word |-> <<"V", "V">>,      level |-> 1, kind |-> "regex"],
     [word |-> <<"B", "B">>,      level |-> 1, kind |-> "whitelist"]}

MCRules == <<"mask", "block", "block", "delete">>
=============================================================================

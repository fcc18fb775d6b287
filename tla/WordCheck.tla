----------------------------- MODULE WordCheck -----------------------------
(***************************************************************************)
(* What the banned-word check computes: a text is normalised, the words of *)
(* the library are looked up with an Aho-Corasick automaton and the        *)
(* patterns one after the other, hits inside a whitelisted word are        *)
(* dropped, and the rest decides the level, the action and, for a hint,    *)
(* the text with the hits masked.                                          *)
(*                                                                         *)
(* A character is any value; what normalize.js does to it is given by the  *)
(* tables below.  NFKC, which the code asks of the engine for the whole    *)
(* text, is an operator on texts: it may make one character several, or    *)
(* several one.  Positions count from 1.  All normalisation switches are   *)
(* on, as in the seed and in DEFAULT_NORMALIZE_OPTIONS.                    *)
(***************************************************************************)
EXTENDS Integers, Sequences, FiniteSets, SequencesExt

CONSTANTS
    Chars,      \* the characters a user can type
    Nfkc(_),    \* NFKC of a whole text
    Simple,     \* TRADITIONAL_MAP and toLowerCase
    Dropped,    \* INVISIBLE, and what stripSymbols removes
    Alnum,      \* letters and digits
    Class,      \* in a pattern, the characters that a character stands for
    Phrases,    \* PHRASE_MAP, as a function on sequences
    Aliases,    \* PINYIN_ALIAS, as a function on sequences
    SureAlias,  \* aliases shorter than this must end their run of letters
    Star,       \* the character that masks
    Entries,    \* what moderators may enter: [word, level, kind]
    Rules,      \* banned_word.penalty: the action of each level
    MaxText     \* bound: the length of a text

Levels == 1..4

\* What is ever normalised: what a user has typed and the words of the library.
Texts == (UNION {[1..n -> Chars] : n \in 0..MaxText}) \cup {e.word : e \in Entries}

\* The text from place p on.
From(t, p) == SubSeq(t, p, Len(t))

ASSUME WordCheckAssumption ==
    /\ Star \in Dropped /\ Dropped \subseteq Chars /\ Alnum \subseteq Chars
    /\ Simple \in [Chars -> Chars]
    /\ Class \in [Chars -> SUBSET Chars]
    /\ Rules \in [Levels -> {"mask", "block", "delete"}]
    /\ MaxText \in Nat /\ SureAlias \in Nat
    /\ \A e \in Entries : /\ e.word \in Seq(Chars) \ {<<>>} /\ e.level \in Levels
                          /\ e.kind \in {"keyword", "regex", "whitelist"}
    /\ \A k \in DOMAIN Phrases : /\ k \in Seq(Chars) \ {<<>>}
                                /\ Phrases[k] \in Seq(Chars \ Alnum)
    /\ \A k \in DOMAIN Aliases : /\ k \in Seq(Alnum) \ {<<>>}
                                /\ Aliases[k] \in Seq(Chars)

\* Of NFKC: nothing stays nothing, and every part of a normalised text is normalised
\* (Unicode Standard Annex 15).
ASSUME NfkcAssumption ==
    /\ Nfkc(<<>>) = <<>>
    /\ \A t \in Texts :
          /\ Nfkc(t) \in Seq(Chars)
          /\ \A p \in 1..(Len(Nfkc(t)) + 1) : Nfkc(From(Nfkc(t), p)) = From(Nfkc(t), p)

VARIABLES library,  \* banned_words
          typed     \* what the user has typed so far

checkVars == <<library, typed>>
-----------------------------------------------------------------------------
(* normalize.js: a normalised text is a sequence of [ch, at], where at is  *)
(* the place in the original text that ch is taken to come from.           *)

StartsAt(s, k, i) == i + Len(k) - 1 <= Len(s)
                     /\ \A j \in 1..Len(k) : s[i + j - 1].ch = k[j]

Longest(S) == CHOOSE k \in S : \A l \in S : Len(l) <= Len(k)

\* Mutant: the new characters count from the end of what they replace.
PlacedAtEnd(new, s, i, k) ==
    [j \in 1..Len(new) |-> [ch |-> new[j], at |-> s[i + Len(k) - 1].at]]

\* All the characters of a replacement point at the start of what they replace.
Placed(new, s, i, k) ==
    [j \in 1..Len(new) |-> [ch |-> new[j], at |-> s[i].at]]

\* Left to right, the longest key of the table that fits is replaced; one of fewer
\* than `sure` characters fits only where its run of letters and digits ends.
Fitting(s, table, sure, i) ==
    {k \in DOMAIN table :
        /\ StartsAt(s, k, i)
        /\ \/ Len(k) >= sure
           \/ i + Len(k) > Len(s)
           \/ s[i + Len(k)].ch \notin Alnum}

Restored(s, table, sure) ==
    LET rest[i \in 1..(Len(s) + 1)] ==
          LET keys == Fitting(s, table, sure, i)
              k    == Longest(keys)
          IN  IF i > Len(s) THEN <<>>
              ELSE IF keys = {} THEN <<s[i]>> \o rest[i + 1]
              ELSE Placed(table[k], s, i, k) \o rest[i + Len(k)]
    IN  rest[1]

\* The characters of a normalised text that are looked at; their places are cut off
\* at n, where the original ends.
Kept(w, n) ==
    FlattenSeq([i \in 1..Len(w) |->
        IF Simple[w[i]] \in Dropped THEN <<>>
        ELSE <<[ch |-> Simple[w[i]], at |-> Min({i, n})]>>])

\* The places are counted after NFKC: where it changes the number of characters, all
\* later places move.
Stripped(t) == Kept(Nfkc(t), Len(t))

PhrasesRestored(s) == Restored(s, Phrases, 0)
AliasesRestored(s) == Restored(s, Aliases, SureAlias)

Normalized(t) == AliasesRestored(PhrasesRestored(Stripped(t)))
Letters(s)    == [i \in 1..Len(s) |-> s[i].ch]

\* toOriginalRange.
OriginalRange(s, from, to) ==
    [start |-> Min({s[from].at, s[to].at}), end |-> Max({s[from].at, s[to].at})]
-----------------------------------------------------------------------------
(* word-matcher.js.  A state of the automaton is the prefix it stands for. *)

Keywords == {e \in library : e.kind = "keyword"}
Needle(e) == Letters(Normalized(e.word))

\* The prefixes of all words; <<>> is the root.
States(needles) == {<<>>} \cup UNION {Prefixes(n) : n \in needles}

\* goto with the fail links already known: fall back until c can be read.
Read(states, fail, s, c) ==
    LET back[f \in states] ==
          IF f = <<>> \/ Append(f, c) \in states THEN f ELSE back[fail[f]]
        to == Append(back[s], c)
    IN  IF to \in states THEN to ELSE <<>>

\* Mutant: every state falls back to the root.
FailToRoot(states) == [s \in states |-> <<>>]

\* build: the fail link of a state comes from the fail link of its parent.
Fail(states) ==
    LET fail[s \in states] ==
          IF Len(s) <= 1 THEN <<>> ELSE Read(states, fail, fail[Front(s)], Last(s))
    IN  fail

\* build: a state reports its own word and what its fail link reports.
Reported(states, fail) ==
    LET out[s \in states] ==
          {s} \cup IF s = <<>> THEN {} ELSE out[fail[s]]
    IN  out

\* search: all occurrences, overlapping ones included.
KeywordHits(letters) ==
    LET needles == {Needle(e) : e \in Keywords} \ {<<>>}
        states  == States(needles)
        fail    == Fail(states)
        out     == Reported(states, fail)
        at[i \in 0..Len(letters)] ==
          IF i = 0 THEN <<>> ELSE Read(states, fail, at[i - 1], letters[i])
        found(i) == {e \in Keywords : Needle(e) \in out[at[i]] \cap needles}
    IN  UNION {{[entry |-> e, start |-> i - Len(Needle(e)) + 1, end |-> i] :
                  e \in found(i)} : i \in 1..Len(letters)}

\* regex.exec in a loop: leftmost matches that do not overlap.
PatternHits(letters) ==
    LET matches(e, i) ==
          /\ i + Len(e.word) - 1 <= Len(letters)
          /\ \A j \in 1..Len(e.word) : letters[i + j - 1] \in Class[e.word[j]]
        starts(e) ==
          LET from[i \in 1..(Len(letters) + 1)] ==
                IF i > Len(letters) THEN {}
                ELSE IF matches(e, i) THEN {i} \cup from[i + Len(e.word)]
                ELSE from[i + 1]
          IN  from[1]
    IN  UNION {{[entry |-> e, start |-> i, end |-> i + Len(e.word) - 1] :
                  i \in starts(e)} : e \in {w \in library : w.kind = "regex"}}

Piece(letters, h) == SubSeq(letters, h.start, h.end)

\* applyWhitelist: a hit goes if it equals a whitelisted word, or lies inside an
\* occurrence of one that has at least two letters.
Whitelisted(letters, h) ==
    LET allowed == {Needle(e) : e \in {w \in library : w.kind = "whitelist"}}
    IN  \/ Piece(letters, h) \in allowed
        \/ \E n \in allowed, i \in 1..h.start :
              /\ Len(n) >= 2 /\ i + Len(n) - 1 \in h.end..Len(letters)
              /\ SubSeq(letters, i, i + Len(n) - 1) = n

HitsOn(letters) ==
    {h \in KeywordHits(letters) \cup PatternHits(letters) : ~Whitelisted(letters, h)}
-----------------------------------------------------------------------------
(* mask.js and wordService.check *)

\* maskMatch: the first and the last character stay.
MaskMatch(s) ==
    IF Len(s) <= 2 THEN [i \in 1..Len(s) |-> Star]
    ELSE [i \in 1..Len(s) |-> IF i \in {1, Len(s)} THEN s[i] ELSE Star]

\* maskSegments works from the back on a list of characters, and puts a masked
\* segment back as one element; a segment that reaches over it then counts too far.
Masked(cells, seg) ==
    LET end == Min({seg.end, Len(cells)})
    IN  SubSeq(cells, 1, seg.start - 1)
        \o <<MaskMatch(FlattenSeq(SubSeq(cells, seg.start, end)))>>
        \o SubSeq(cells, end + 1, Len(cells))

MaskSegments(t, segments) ==
    LET cells[i \in 0..Len(segments)] ==
          IF i = 0 THEN [j \in 1..Len(t) |-> <<t[j]>>]
          ELSE Masked(cells[i - 1], segments[i])
    IN  FlattenSeq(cells[Len(segments)])

\* The order of masking: findHits sorts by start and by falling end, maskSegments
\* then by falling start in the original text.
Before(g, h) ==
    \/ g.place.start > h.place.start
    \/ /\ g.place.start = h.place.start
       /\ g.start < h.start \/ (g.start = h.start /\ g.end > h.end)

First(S) == CHOOSE h \in S : \A g \in S : ~Before(g, h)

\* The hits with their places in the original text, in the order of masking.
Detailed(s, hits) ==
    LET all == {[entry |-> h.entry, start |-> h.start, end |-> h.end,
                 place |-> OriginalRange(s, h.start, h.end)] : h \in hits}
        n   == Cardinality(all)
        left[i \in 0..n] ==
          IF i = 0 THEN all ELSE left[i - 1] \ {First(left[i - 1])}
    IN  [i \in 1..n |-> First(left[i - 1])]

Pass(t) == [level |-> 0, action |-> "pass", blocked |-> FALSE, text |-> t, hits |-> <<>>]

HitsIn(s) == Detailed(s, HitsOn(Letters(s)))

\* What wordService.check returns for a text and its hits.
CheckResult(t, hits) ==
    LET level  == Max({h.entry.level : h \in ToSet(hits)})
        action == Rules[level]
        masks  == level = 1 \/ action = "mask"
        places == [i \in 1..Len(hits) |-> hits[i].place]
    IN  IF hits = <<>> THEN Pass(t)
        ELSE [level |-> level, action |-> IF masks THEN "mask" ELSE action,
              blocked |-> action \in {"block", "delete"}, hits |-> hits,
              text |-> IF masks THEN MaskSegments(t, places) ELSE t]

Check(t) == CheckResult(t, HitsIn(Normalized(t)))
-----------------------------------------------------------------------------
CheckInit == library = {} /\ typed = <<>>

ListWord(e) ==
    /\ \A w \in library : w.word # e.word
    /\ library' = library \cup {e}
    /\ UNCHANGED typed

UnlistWord(e) == library' = library \ {e} /\ UNCHANGED typed

Type(c) ==
    /\ Len(typed) < MaxText
    /\ typed' = Append(typed, c)
    /\ UNCHANGED library

CheckNext ==
    \/ \E e \in Entries : ListWord(e)
    \/ \E e \in library : UnlistWord(e)
    \/ \E c \in Chars : Type(c)

CheckSpec == CheckInit /\ [][CheckNext]_checkVars
-----------------------------------------------------------------------------
\* The automaton finds each place where a word of the library occurs in the
\* normalised text, and nothing else: compared with looking at every place.
KeywordHitsExact ==
    LET letters == Letters(Normalized(typed))
    IN  KeywordHits(letters) =
          {h \in [entry : Keywords, start : 1..Len(letters), end : 1..Len(letters)] :
             h.start <= h.end /\ Piece(letters, h) = Needle(h.entry)}

\* NFKC leaves every character of the text where it is.
Stays(t) ==
    /\ Len(Nfkc(t)) = Len(t)
    /\ \A p \in 1..Len(t) : Nfkc(From(t, p)) = From(Nfkc(t), p)

\* A text, checked alone, has these letters at its first place.
BeginsWith(t, letters) ==
    LET s == Normalized(t)
    IN  \E k \in DOMAIN s : s[k].at = 1 /\ StartsAt(s, letters, k)

\* The place reported for a hit is where it begins in the text that NFKC gives, cut
\* off at the end of what was typed; it is where the hit begins in what was typed if
\* NFKC moves nothing.
PlacedIn(out) ==
    \A h \in ToSet(out.hits) :
       LET letters == Piece(Letters(Normalized(typed)), h)
       IN  /\ \E p \in 1..Len(Nfkc(typed)) :
                 /\ h.place.start = Min({p, Len(typed)})
                 /\ BeginsWith(From(Nfkc(typed), p), letters)
           /\ Stays(typed) => BeginsWith(From(typed, h.place.start), letters)

\* Masking leaves the length of the text as it is, and where a hit takes up several
\* places of it, none of them a dropped character, they no longer read as they did,
\* whatever other hits overlap them.  An alias that becomes a word has one place, that
\* of its first character, so the rest of it stays.
MaskedIn(out) ==
    out.action = "mask" =>
      /\ Len(out.text) = Len(typed)
      /\ \A h \in ToSet(out.hits) :
           LET raw == SubSeq(typed, h.place.start, h.place.end)
           IN  Len(raw) > 1 /\ (\A i \in DOMAIN raw : raw[i] \notin Dropped)
                 => SubSeq(out.text, h.place.start, h.place.end) # raw

\* What wordService.check reports and masks is what was found: the place of a hit is
\* where it begins, and a hit that has several places does not stay as it was typed.
HitsPlacedAndMasked ==
    LET out == Check(typed)
    IN  PlacedIn(out) /\ MaskedIn(out)
=============================================================================

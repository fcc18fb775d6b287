------------------------------ MODULE MCForum -------------------------------
EXTENDS ForumProps, TLC

CONSTANTS hint, serious, severe, u1, u2, s1, s2, p1, p2, a, b

MCLevelOf == [w \in {hint, serious, severe} |->
                CASE w = hint -> 1 [] w = serious -> 3 [] OTHER -> 4]

MCTexts == {<<hint, hint>>, <<serious, serious>>, <<severe>>}

\* No word is banned: two clean texts.
NoLevels   == [w \in {} |-> 1]
CleanTexts == {<<a>>, <<b>>}

\* The users are interchangeable, the requests in flight, and what a
\* clean text says.
Alike == Permutations(Users) \cup Permutations(Slots) \cup Permutations({a, b})
=============================================================================

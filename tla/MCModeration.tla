---------------------------- MODULE MCModeration ----------------------------
(***************************************************************************)
(* Small instances of moderation: one student, whose penalties climb a     *)
(* shortened ladder.  Its first step deducts more points than it has to    *)
(* for the bounds of the score to be felt.                                 *)
(***************************************************************************)
EXTENDS ModerationProps, TLC

CONSTANTS u1, r1, r2, m1, m2, p1, p2, a1, a2

Step(type, days, delta) == [type |-> type, days |-> days, scoreDelta |-> delta]
Sanction(type, days)    == [type |-> type, days |-> days]

MCTargetOf == [r \in Reports |-> u1]
MCLadder   == <<Step("mute", 1, -8), Step("login_ban", 2, 0)>>
ByLadder   == {Sanction("ladder", 0)}
MuteBans   == {Sanction("mute", 2)}
ModerationSymmetry == Permutations(Reports) \cup Permutations(PenaltyIds) \cup Permutations(AppealIds) \cup Permutations(Moderators)
=============================================================================

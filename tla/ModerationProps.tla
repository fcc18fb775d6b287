--------------------------- MODULE ModerationProps ---------------------------
(***************************************************************************)
(* What reports, penalties, appeals and the credit score are meant to      *)
(* guarantee.                                                              *)
(***************************************************************************)
EXTENDS Moderation, Functions

PointsIn(rows) == SumFunction([i \in rows |-> creditLog[i].delta])

\* users.credit_score is only a cache of credit_logs: the score is what it was
\* at the start plus everything in the log, although deductions and bonuses
\* are cut off at the bounds (applyDelta, rollback, each in a transaction; the
\* word guard calls applyDelta outside one, see ScoreLossIsOnRecord).
CreditFollowsLog ==
    \A u \in Students :
        users[u].score =
            MaxScore + PointsIn({i \in DOMAIN creditLog : creditLog[i].user = u})

\* A deduction is given back at most once and never with a surplus, whatever
\* appeals against the penalty were filed twice, and even when the sweep job
\* turned a revoked penalty into an expired one in between (revoke, rollback).
NeverGivesBackMore ==
    \A p \in DOMAIN penalties :
        PointsIn({i \in DOMAIN creditLog : creditLog[i].penalty = p}) <= 0

\* A ban that still runs has a reason the user can look up and appeal against:
\* an active penalty of that type which lasts at least as long, however
\* revocations, bans lifted by hand and the sweep job cross (applyBanFields,
\* revoke, the unban route, sweepExpired).  Lifting a ban takes two statements, so
\* this is for moderators whose requests never meet.
BanHasReason ==
    ~met => \A u \in Students, t \in TimedBans :
        users[u].until[t] > now =>
            \E p \in DOMAIN penalties :
                /\ penalties[p].user = u
                /\ penalties[p].type = t
                /\ penalties[p].status = "active"
                /\ penalties[p].end >= users[u].until[t]

PenaltiesFor(r) == {p \in DOMAIN penalties : penalties[p].report = r}

\* A decision closes a report: every penalty after the first one, and every
\* penalty that stays although the report was dismissed, is owed to a request on
\* that report which was in flight when a decision on it fell and wrote later:
\* a ruling tested before, or an acceptance that opened the report again.  What
\* starts after the decision finds it decided, however many moderators work on
\* the report at once, for its status is tested before the transaction and not
\* in it (accept, decide).
RuledOnce ==
    \A r \in Reports :
        /\ Cardinality(PenaltiesFor(r)) <= 1 + late[r]
        /\ PenaltiesFor(r) # {} /\ reports[r].decision # "valid" => late[r] > 0
=============================================================================

----------------------------- MODULE Moderation -----------------------------
(***************************************************************************)
(* Reports, penalties and appeals, the three ban switches of a user, the   *)
(* credit score with its log, and the job that ends expired penalties.     *)
(*                                                                         *)
(* A moderator's request reads the report or the appeal first, tests what  *)
(* it read and only then opens the transaction that writes.  desk holds    *)
(* the request each moderator has in flight between the two.  The same     *)
(* holds for a student who files an appeal and for the sweep job.          *)
(***************************************************************************)
EXTENDS Integers, Sequences, FiniteSets

CONSTANTS
    Students,    \* users who are reported and punished
    Reports,     \* bound: the reports that can ever be filed
    TargetOf,    \* the student each report is about
    Moderators,  \* moderators, each with at most one request in flight
    PenaltyIds,  \* bound: the penalties that can ever be imposed
    AppealIds,   \* bound: the appeals that can ever be filed
    Ladder,      \* penalty.escalation: the step for the first, second, ... time
    Rulings,     \* what a moderator may ask for when a report is upheld
    Bans,        \* what a moderator may impose without a report
    Unbans,      \* which bans a moderator may lift by hand, or "all"
    AppealDays,  \* report.appeal_days
    MaxScore,    \* upper bound of the credit score, and its initial value
    Bonus,       \* points for shipping on time
    Horizon,     \* bound: the last day of the model
    MaxLog       \* bound: length of the credit log up to which bonuses come

\* users.mute_until, trade_ban_until and login_ban_until.
TimedBans == {"mute", "trade_ban", "login_ban"}

PenaltyTypes == TimedBans \cup {"warning", "permanent_ban"}

Steps     == [type : PenaltyTypes, days : Nat, scoreDelta : Int]
Sanctions == [type : PenaltyTypes \cup {"ladder", "severe"}, days : Nat]

ASSUME TargetAssumption   == TargetOf \in [Reports -> Students]
ASSUME LadderAssumption   == Ladder \in Seq(Steps) /\ Ladder # <<>>
ASSUME SanctionAssumption == Rulings \subseteq Sanctions /\ Bans \subseteq Sanctions
ASSUME UnbanAssumption    ==
    Unbans \subseteq TimedBans \cup {"permanent_ban", "all"}
ASSUME ModerationBounds   ==
    {AppealDays, MaxScore, Bonus, Horizon, MaxLog} \subseteq Nat

VARIABLES
    now,        \* the current day
    reports,    \* reports.status and reports.decision
    penalties,  \* penalties: a function on the ids in use
    appeals,    \* appeals: a function on the ids in use
    users,      \* ban switches, status and credit score of each student
    creditLog,  \* credit_logs, oldest first
    desk,       \* requests in flight: a function on the busy moderators
    sweep,      \* the sweep job: rows read, and the row it is working on
    met,        \* history: two moderators' requests, on whatever they were,
                \* were in flight at once
    behind,     \* history: moderators whose request on a report was in flight
                \* when a decision on that report was committed
    late        \* history: per report, how many such requests wrote after all

vars == <<now, reports, penalties, appeals, users, creditLog, desk, sweep, met,
          behind, late>>
-----------------------------------------------------------------------------
NoReport == "none"
Null     == 0        \* NULL in a column that holds a day or a penalty's id
Idle     == [due |-> {}, marked |-> {}]

ASSUME IdsAssumption == Null \notin PenaltyIds /\ NoReport \notin Reports

Init ==
    /\ now = 0
    /\ reports = [r \in Reports |-> [status |-> "unfiled", decision |-> "none"]]
    /\ penalties = [p \in {} |-> {}]
    /\ appeals = [a \in {} |-> {}]
    /\ users = [u \in Students |->
                  [until |-> [t \in TimedBans |-> Null], permanent |-> FALSE,
                   status |-> "active", score |-> MaxScore]]
    /\ creditLog = <<>>
    /\ desk = [m \in {} |-> {}]
    /\ sweep = Idle
    /\ met = FALSE
    /\ behind = {}
    /\ late = [r \in Reports |-> 0]
-----------------------------------------------------------------------------
(* creditService *)

Clip(score) ==
    IF score < 0 THEN 0 ELSE IF score > MaxScore THEN MaxScore ELSE score

Scored(user, delta) == [user EXCEPT !.score = Clip(@ + delta)]

\* Mutant: the log keeps the points asked for.
LogRowAsked(u, delta, rule, p) ==
    [user |-> u, delta |-> delta, rule |-> rule, penalty |-> p,
     rolledBack |-> FALSE]

\* The log keeps the points that really came or went, after the cut-off.
LogRow(u, delta, rule, p) ==
    [user |-> u, delta |-> Clip(users[u].score + delta) - users[u].score,
     rule |-> rule, penalty |-> p, rolledBack |-> FALSE]

\* The rows that a rollback of penalty p gives back; apply writes at most one.
RowsToRollBack(p, u) ==
    {i \in DOMAIN creditLog :
       /\ creditLog[i].penalty = p /\ creditLog[i].user = u
       /\ creditLog[i].delta < 0   /\ ~creditLog[i].rolledBack}

PointsTaken(p, u) ==
    IF RowsToRollBack(p, u) = {} THEN 0
    ELSE LET i == CHOOSE i \in RowsToRollBack(p, u) : TRUE
         IN  -creditLog[i].delta

\* Mutant: the row is not marked.
RollbackForgets(p, u) ==
    IF RowsToRollBack(p, u) = {} THEN creditLog
    ELSE Append(creditLog, LogRow(u, PointsTaken(p, u), "rollback", p))

\* The log after rollback: the row is marked and its opposite appended.
Rollback(p, u) ==
    IF RowsToRollBack(p, u) = {} THEN creditLog
    ELSE LET i == CHOOSE i \in RowsToRollBack(p, u) : TRUE
         IN  Append([creditLog EXCEPT ![i].rolledBack = TRUE],
                    LogRow(u, -creditLog[i].delta, "rollback", p))

\* applyRule in the transaction that ships an order.
EarnBonus(u) ==
    /\ Len(creditLog) < MaxLog
    /\ users' = [users EXCEPT ![u] = Scored(@, Bonus)]
    /\ creditLog' = Append(creditLog, LogRow(u, Bonus, "bonus", Null))
    /\ UNCHANGED <<now, reports, penalties, appeals, desk, sweep>>
-----------------------------------------------------------------------------
(* Moderators' requests *)

Take(m, op, on, what, count) ==
    /\ m \notin DOMAIN desk
    /\ desk' = [x \in DOMAIN desk \cup {m} |->
                  IF x = m
                  THEN [op |-> op, on |-> on, what |-> what, count |-> count]
                  ELSE desk[x]]

Finish(m, op) ==
    /\ m \in DOMAIN desk
    /\ desk[m].op = op
    /\ desk' = [x \in DOMAIN desk \ {m} |-> desk[x]]

Simply(type) == [type |-> type, days |-> 0]

FileReport(r) ==
    /\ reports[r].status = "unfiled"
    /\ reports' = [reports EXCEPT ![r].status = "pending"]
    /\ UNCHANGED <<now, penalties, appeals, users, creditLog, desk, sweep>>

CheckAccept(m, r) ==
    /\ reports[r].status = "pending"
    /\ Take(m, "accept", r, Simply("accept"), 0)
    /\ UNCHANGED <<now, reports, penalties, appeals, users, creditLog, sweep>>

Accept(m) ==
    /\ Finish(m, "accept")
    /\ reports' = [reports EXCEPT ![desk[m].on].status = "proving"]
    /\ UNCHANGED <<now, penalties, appeals, users, creditLog, sweep>>

\* Mutant: a decided report may be decided again.
MayRuleAgain(r) == reports[r].status \in {"proving", "decided"}

MayRule(r) == reports[r].status = "proving"

\* decide reads the report before it opens its transaction.
CheckRuling(m, r, what) ==
    /\ MayRule(r)
    /\ Take(m, "rule", r, what, 0)
    /\ UNCHANGED <<now, reports, penalties, appeals, users, creditLog, sweep>>

\* A report that is not upheld is decided and punishes nobody.
Dismiss(m) ==
    /\ Finish(m, "rule")
    /\ desk[m].what.type = "invalid"
    /\ reports' = [reports EXCEPT ![desk[m].on] =
                     [status |-> "decided", decision |-> "invalid"]]
    /\ UNCHANGED <<now, penalties, appeals, users, creditLog, sweep>>

\* countEffectiveViolations plus the one at hand.  The horizon lies below the
\* six months after which violations begin to be forgiven.
CountWith(u) ==
    1 + Cardinality({p \in DOMAIN penalties :
                       /\ penalties[p].user = u
                       /\ penalties[p].status # "revoked"})

\* The transaction begins: its snapshot of the penalties is taken here.
BeginRuling(m) ==
    /\ m \in DOMAIN desk
    /\ desk[m].op = "rule"
    /\ desk[m].what.type # "invalid"
    /\ desk' = [desk EXCEPT ![m].op = "ruling",
                            ![m].count = CountWith(TargetOf[desk[m].on])]
    /\ UNCHANGED <<now, reports, penalties, appeals, users, creditLog, sweep>>

BeginBan(m, u, what) ==
    /\ Take(m, "ban", u, what, CountWith(u))
    /\ UNCHANGED <<now, reports, penalties, appeals, users, creditLog, sweep>>

LastStep == Ladder[Len(Ladder)]

\* decideAction: the step of the ladder, a permanent ban for a severe offence,
\* or what the moderator asked for.
StepFor(what, count) ==
    IF what.type = "severe"
    THEN [type |-> "permanent_ban", days |-> 0,
          scoreDelta |-> LastStep.scoreDelta]
    ELSE IF what.type # "ladder"
    THEN [type |-> what.type, days |-> what.days, scoreDelta |-> 0]
    ELSE IF count <= Len(Ladder) THEN Ladder[count] ELSE LastStep

Later(x, y) == IF x > y THEN x ELSE y

\* applyBanFields: a ban is prolonged, never shortened.
Banned(user, type, days) ==
    IF type = "permanent_ban"
    THEN [user EXCEPT !.permanent = TRUE, !.status = "banned"]
    ELSE IF type \in TimedBans /\ days > 0
    THEN [user EXCEPT !.until[type] = Later(@, now + days),
                      !.status = IF type = "login_ban" THEN "banned" ELSE @]
    ELSE user

\* apply: the penalty, the ban switches and the deduction.
Punish(u, r, p, step) ==
    /\ p \notin DOMAIN penalties
    /\ penalties' = [x \in DOMAIN penalties \cup {p} |->
         IF x = p
         THEN [user |-> u, report |-> r, type |-> step.type, start |-> now,
               end |-> IF step.days > 0 THEN now + step.days ELSE Null,
               status |-> "active", appeal |-> "none"]
         ELSE penalties[x]]
    /\ users' = [users EXCEPT
         ![u] = Scored(Banned(@, step.type, step.days), step.scoreDelta)]
    /\ creditLog' = IF step.scoreDelta = 0 THEN creditLog
                    ELSE Append(creditLog, LogRow(u, step.scoreDelta, "penalty", p))

\* The transaction of an upheld ruling commits.
Uphold(m, p) ==
    /\ Finish(m, "ruling")
    /\ LET task == desk[m] IN
         /\ Punish(TargetOf[task.on], task.on, p, StepFor(task.what, task.count))
         /\ reports' = [reports EXCEPT ![task.on] =
                          [status |-> "decided", decision |-> "valid"]]
    /\ UNCHANGED <<now, appeals, sweep>>

Ban(m, p) ==
    /\ Finish(m, "ban")
    /\ Punish(desk[m].on, NoReport, p, StepFor(desk[m].what, desk[m].count))
    /\ UNCHANGED <<now, reports, appeals, sweep>>

Lifts(type, t) == type = "all" \/ type = t

\* Lifting a ban by hand takes two statements outside any transaction: first
\* the user's switches ...
LiftBan(m, u, type) ==
    /\ Take(m, "unban", u, Simply(type), 0)
    /\ users' = [users EXCEPT ![u] =
         [until     |-> [t \in TimedBans |->
                           IF Lifts(type, t) THEN Null ELSE @.until[t]],
          permanent |-> @.permanent /\ ~Lifts(type, "permanent_ban"),
          status    |-> "active", score |-> @.score]]
    /\ UNCHANGED <<now, reports, penalties, appeals, creditLog, sweep>>

\* ... then the penalties they came from.
RevokeLifted(m) ==
    /\ Finish(m, "unban")
    /\ penalties' = [p \in DOMAIN penalties |->
         IF /\ penalties[p].user = desk[m].on
            /\ penalties[p].status = "active"
            /\ Lifts(desk[m].what.type, penalties[p].type)
         THEN [penalties[p] EXCEPT !.status = "revoked"]
         ELSE penalties[p]]
    /\ UNCHANGED <<now, reports, appeals, users, creditLog, sweep>>
-----------------------------------------------------------------------------
(* Appeals *)

\* authenticate, which every route but login passes: banned users are turned
\* away, and so is a user whose status is banned for no visible reason.
LockedOut(u) ==
    \/ users[u].permanent
    \/ users[u].until["login_ban"] > now
    \/ users[u].status = "banned" /\ users[u].until["login_ban"] = Null

MayAppeal(p) ==
    /\ ~LockedOut(penalties[p].user)
    /\ penalties[p].status # "revoked"
    /\ penalties[p].appeal # "pending"
    /\ \/ now <= penalties[p].start + AppealDays
       \/ penalties[p].type = "permanent_ban"

\* The penalty is read and tested before the transaction of the appeal.
CheckAppeal(a, p) ==
    /\ a \notin DOMAIN appeals
    /\ p \in DOMAIN penalties
    /\ MayAppeal(p)
    /\ appeals' = [x \in DOMAIN appeals \cup {a} |->
                     IF x = a THEN [penalty |-> p, status |-> "checked"]
                              ELSE appeals[x]]
    /\ UNCHANGED <<now, reports, penalties, users, creditLog, desk, sweep>>

FileAppeal(a) ==
    /\ a \in DOMAIN appeals
    /\ appeals[a].status = "checked"
    /\ appeals' = [appeals EXCEPT ![a].status = "pending"]
    /\ penalties' = [penalties EXCEPT ![appeals[a].penalty].appeal = "pending"]
    /\ UNCHANGED <<now, reports, users, creditLog, desk, sweep>>

CheckReview(m, a, verdict) ==
    /\ a \in DOMAIN appeals
    /\ appeals[a].status = "pending"
    /\ Take(m, "review", a, Simply(verdict), 0)
    /\ UNCHANGED <<now, reports, penalties, appeals, users, creditLog, sweep>>

\* Mutant: only the user's status is reset.
UnbannedStatusOnly(user, type) ==
    IF type \in TimedBans THEN [user EXCEPT !.status = "active"] ELSE user

\* revoke turns the penalty's switch off, whatever else had turned it on.
Unbanned(user, type) ==
    IF type = "permanent_ban"
    THEN [user EXCEPT !.permanent = FALSE, !.status = "active"]
    ELSE IF type \in TimedBans
    THEN [user EXCEPT !.until[type] = Null, !.status = "active"]
    ELSE user

\* An approved appeal revokes the penalty, unless that has been done, and gives
\* its points back.
ApproveAppeal(m) ==
    /\ Finish(m, "review")
    /\ desk[m].what.type = "approved"
    /\ LET a == desk[m].on
           p == appeals[a].penalty
           u == penalties[p].user
       IN  /\ appeals' = [appeals EXCEPT ![a].status = "approved"]
           /\ penalties' = [penalties EXCEPT ![p].status = "revoked",
                                             ![p].appeal = "approved"]
           /\ IF penalties[p].status = "revoked"
              THEN UNCHANGED <<users, creditLog>>
              ELSE /\ users' = [users EXCEPT ![u] =
                        Scored(Unbanned(@, penalties[p].type), PointsTaken(p, u))]
                   /\ creditLog' = Rollback(p, u)
    /\ UNCHANGED <<now, reports, sweep>>

RejectAppeal(m) ==
    /\ Finish(m, "review")
    /\ desk[m].what.type = "rejected"
    /\ LET a == desk[m].on IN
         /\ appeals' = [appeals EXCEPT ![a].status = "rejected"]
         /\ penalties' = [penalties EXCEPT ![appeals[a].penalty].appeal = "rejected"]
    /\ UNCHANGED <<now, reports, users, creditLog, sweep>>
-----------------------------------------------------------------------------
(* The penalty.sweep_expired job *)

Due == {p \in DOMAIN penalties :
          /\ penalties[p].status = "active"
          /\ penalties[p].end # Null
          /\ penalties[p].end <= now}

SweepScan ==
    /\ sweep = Idle
    /\ Due # {}
    /\ sweep' = [sweep EXCEPT !.due = Due]
    /\ UNCHANGED <<now, reports, penalties, appeals, users, creditLog, desk>>

\* The first statement for a row: it is marked whatever became of it meanwhile.
SweepMark(p) ==
    /\ p \in sweep.due
    /\ sweep.marked = {}
    /\ penalties' = [penalties EXCEPT ![p].status = "expired"]
    /\ sweep' = [due    |-> sweep.due \ {p},
                 marked |-> IF penalties[p].type \in TimedBans THEN {p} ELSE {}]
    /\ UNCHANGED <<now, reports, appeals, users, creditLog, desk>>

\* The second: the switch is turned off and the user's status worked out anew.
SweepClear(p) ==
    /\ p \in sweep.marked
    /\ sweep' = [sweep EXCEPT !.marked = {}]
    /\ LET u     == penalties[p].user
           until == [users[u].until EXCEPT ![penalties[p].type] = Null]
       IN  users' = [users EXCEPT
             ![u].until  = until,
             ![u].status = IF \/ users[u].permanent
                              \/ \E t \in TimedBans : until[t] > now
                           THEN "banned" ELSE "active"]
    /\ UNCHANGED <<now, reports, penalties, appeals, creditLog, desk>>

\* The process goes down; what the job had read is lost.
SweepCrash ==
    /\ sweep # Idle
    /\ sweep' = Idle
    /\ UNCHANGED <<now, reports, penalties, appeals, users, creditLog, desk>>

Tick ==
    /\ now < Horizon
    /\ now' = now + 1
    /\ UNCHANGED <<reports, penalties, appeals, users, creditLog, desk, sweep>>
-----------------------------------------------------------------------------
ReportNext ==
    \/ \E r \in Reports : FileReport(r)
    \/ \E m \in Moderators :
          \/ \E r \in Reports :
                \/ CheckAccept(m, r)
                \/ \E what \in Rulings \cup {Simply("invalid")} :
                      CheckRuling(m, r, what)
          \/ Accept(m) \/ Dismiss(m) \/ BeginRuling(m)
          \/ \E p \in PenaltyIds : Uphold(m, p)

BanNext ==
    \E m \in Moderators :
        \/ \E u \in Students :
              \/ \E what \in Bans : BeginBan(m, u, what)
              \/ \E type \in Unbans : LiftBan(m, u, type)
        \/ RevokeLifted(m)
        \/ \E p \in PenaltyIds : Ban(m, p)

AppealNext ==
    \/ \E a \in AppealIds :
          \/ FileAppeal(a)
          \/ \E p \in PenaltyIds : CheckAppeal(a, p)
    \/ \E m \in Moderators :
          \/ \E a \in AppealIds, verdict \in {"approved", "rejected"} :
                CheckReview(m, a, verdict)
          \/ ApproveAppeal(m) \/ RejectAppeal(m)

SweepNext ==
    \/ SweepScan \/ SweepCrash
    \/ \E p \in PenaltyIds : SweepMark(p) \/ SweepClear(p)

(* Histories of the desk, no part of the program *)

OnReport(m, r) ==
    /\ m \in DOMAIN desk
    /\ desk[m].op \in {"accept", "rule", "ruling"}
    /\ desk[m].on = r

\* A ruling on the report comes to its end in this step.
DecidedNow(r) ==
    \E m \in Moderators :
        /\ OnReport(m, r) /\ desk[m].op # "accept"
        /\ m \notin DOMAIN desk'

\* A request that is overtaken by a decision stays behind until it has written.
Histories ==
    /\ met' = (met \/ Cardinality(DOMAIN desk') > 1)
    /\ behind' = {m \in DOMAIN desk' :
                    m \in behind \/ \E r \in Reports : DecidedNow(r) /\ OnReport(m, r)}
    /\ late' = [r \in Reports |->
                   late[r] + IF \E m \in behind \ DOMAIN desk' : OnReport(m, r)
                             THEN 1 ELSE 0]

Next ==
    /\ \/ ReportNext \/ BanNext \/ AppealNext \/ SweepNext \/ Tick
       \/ \E u \in Students : EarnBonus(u)
    /\ Histories

Spec == Init /\ [][Next]_vars
=============================================================================

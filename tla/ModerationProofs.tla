-------------------------- MODULE ModerationProofs --------------------------
(***************************************************************************)
(* Penalties, appeals and the credit score, for any number of students,    *)
(* reports, moderators and penalties and any ladder: types, the score      *)
(* against its log, what appeals give back (RefundInv), what a decision on *)
(* a report closes (RuleInv), and, while the requests of moderators do not *)
(* meet, that a ban has a penalty behind it (BanInv).                      *)
(*                                                                         *)
(* The last part is about the other work of staff, customer service, for   *)
(* any number of users, staff, tickets, requests and crashes: a ticket     *)
(* keeps who deals with it, and its end (DeskInv); a user is handed over   *)
(* after the rounds he counted himself, and to no more tickets than        *)
(* requests ran at once (HandoverInv).                                     *)
(***************************************************************************)
EXTENDS ModerationProps, Support, Sums

Whats ==
    Rulings \cup Bans \cup
      {Simply(t) : t \in {"accept", "invalid", "approved", "rejected"} \cup Unbans}

Tasks ==
    [op : {"accept", "rule", "ruling", "ban", "unban", "review"},
     on : Reports \cup Students \cup AppealIds, what : Whats, count : Nat]

\* What a moderator's request in flight is about, by its kind.
TaskOK(task) ==
    /\ task.op \in {"accept", "rule", "ruling"} => task.on \in Reports
    /\ task.op \in {"ban", "unban"} => task.on \in Students
    /\ task.op = "review" => task.on \in DOMAIN appeals
    /\ task.op = "rule" => task.what \in Rulings \cup {Simply("invalid")}
    /\ task.op = "ruling" => task.what \in Rulings /\ task.count >= 1
    /\ task.op = "ban" => task.what \in Bans /\ task.count >= 1

PenaltyRows ==
    [user : Students, report : Reports \cup {NoReport}, type : PenaltyTypes,
     start : Nat, end : Nat, status : {"active", "revoked", "expired"},
     appeal : {"none", "pending", "approved", "rejected"}]

LogRows ==
    [user : Students, delta : Int, rule : {"bonus", "penalty", "rollback"},
     penalty : PenaltyIds \cup {Null}, rolledBack : BOOLEAN]

UserRows ==
    [until : [TimedBans -> Nat], permanent : BOOLEAN, status : {"active", "banned"},
     score : 0..MaxScore]

ReportsOK ==
    reports \in [Reports -> [status : {"unfiled", "pending", "proving", "decided"},
                             decision : {"none", "invalid", "valid"}]]

PenaltiesOK ==
    /\ IsFiniteSet(DOMAIN penalties) /\ DOMAIN penalties \subseteq PenaltyIds
    /\ penalties \in [DOMAIN penalties -> PenaltyRows]

AppealsOK ==
    /\ DOMAIN appeals \subseteq AppealIds
    /\ appeals \in [DOMAIN appeals ->
                      [penalty : DOMAIN penalties,
                       status : {"checked", "pending", "approved", "rejected"}]]

DeskOK ==
    /\ IsFiniteSet(DOMAIN desk)
    /\ desk \in [DOMAIN desk -> Tasks]
    /\ \A m \in DOMAIN desk : TaskOK(desk[m])

SweepOK ==
    /\ sweep \in [due : SUBSET DOMAIN penalties, marked : SUBSET DOMAIN penalties]
    /\ \A p \in sweep.marked : penalties[p].type \in TimedBans

TypeOK ==
    /\ now \in Nat
    /\ ReportsOK /\ PenaltiesOK /\ AppealsOK
    /\ users \in [Students -> UserRows]
    /\ creditLog \in Seq(LogRows)
    /\ DeskOK /\ SweepOK
    /\ met \in BOOLEAN
    /\ late \in [Reports -> Nat]
-----------------------------------------------------------------------------
(* Types *)

LEMMA ClipType ==
    ASSUME NEW x \in Int
    PROVE  Clip(x) \in 0..MaxScore /\ (x \in 0..MaxScore => Clip(x) = x)
BY ModerationBounds DEF Clip

\* Every way to decide an action ends in a step that can be imposed; only a step of the
\* ladder costs points.
LEMMA StepForType ==
    ASSUME NEW what \in Rulings \cup Bans, NEW count \in Nat, count >= 1
    PROVE  /\ StepFor(what, count) \in Steps
           /\ (\A i \in DOMAIN Ladder : Ladder[i].scoreDelta <= 0)
                => StepFor(what, count).scoreDelta <= 0
<1>1. what \in Sanctions
    BY SanctionAssumption
<1>2. /\ Len(Ladder) \in Nat /\ Len(Ladder) >= 1 /\ DOMAIN Ladder = 1..Len(Ladder)
      /\ \A i \in 1..Len(Ladder) : Ladder[i] \in Steps
    BY LadderAssumption
<1>3. /\ LastStep \in Steps
      /\ (\A i \in DOMAIN Ladder : Ladder[i].scoreDelta <= 0) => LastStep.scoreDelta <= 0
    BY <1>2 DEF LastStep
<1>4. CASE what.type = "severe"
    BY <1>3, <1>4 DEF StepFor, Steps, PenaltyTypes
<1>5. CASE what.type \notin {"severe", "ladder"}
  <2>1. what.type \in PenaltyTypes /\ what.days \in Nat
    BY <1>1, <1>5 DEF Sanctions
  <2> QED BY <1>5, <2>1 DEF StepFor, Steps
<1>6. CASE what.type = "ladder" /\ count <= Len(Ladder)
  <2>1. count \in 1..Len(Ladder)
    BY <1>2, <1>6
  <2> QED BY <1>2, <1>6, <2>1 DEF StepFor
<1>7. CASE what.type = "ladder" /\ ~(count <= Len(Ladder))
    BY <1>3, <1>7 DEF StepFor
<1> QED BY <1>4, <1>5, <1>6, <1>7

LEMMA BannedType ==
    ASSUME now \in Nat, NEW user \in UserRows, NEW type \in PenaltyTypes, NEW days \in Nat
    PROVE  /\ Banned(user, type, days) \in UserRows
           /\ Banned(user, type, days).score = user.score
<1>1. CASE type = "permanent_ban"
    BY <1>1 DEF Banned, UserRows
<1>2. CASE type \in TimedBans /\ days > 0 /\ type # "permanent_ban"
  <2>1. Later(user.until[type], now + days) \in Nat
    BY <1>2 DEF Later, UserRows
  <2>2. [user.until EXCEPT ![type] = Later(@, now + days)] \in [TimedBans -> Nat]
    BY <2>1 DEF UserRows
  <2>3. Banned(user, type, days) =
          [user EXCEPT !.until = [user.until EXCEPT ![type] = Later(@, now + days)],
                       !.status = IF type = "login_ban" THEN "banned" ELSE @]
    BY <1>2 DEF Banned, UserRows
  <2> QED BY <2>2, <2>3 DEF UserRows
<1>3. CASE type # "permanent_ban" /\ ~(type \in TimedBans /\ days > 0)
    BY <1>3 DEF Banned
<1> QED BY <1>1, <1>2, <1>3

LEMMA UnbannedType ==
    ASSUME NEW user \in UserRows, NEW type \in PenaltyTypes
    PROVE  /\ Unbanned(user, type) \in UserRows
           /\ Unbanned(user, type).score = user.score
BY DEF Unbanned, UserRows, TimedBans, PenaltyTypes, Null

LEMMA ScoredType ==
    ASSUME NEW user \in UserRows, NEW delta \in Int
    PROVE  /\ Scored(user, delta) \in UserRows
           /\ Scored(user, delta).score = Clip(user.score + delta)
           /\ Scored(user, delta).until = user.until
<1>1. user.score + delta \in Int
    BY DEF UserRows
<1> QED BY <1>1, ClipType DEF Scored, UserRows

LEMMA LogRowType ==
    ASSUME users \in [Students -> UserRows], NEW u \in Students, NEW delta \in Int,
           NEW rule \in {"bonus", "penalty", "rollback"}, NEW p \in PenaltyIds \cup {Null}
    PROVE  /\ LogRow(u, delta, rule, p) \in LogRows
           /\ LogRow(u, delta, rule, p).delta =
                Scored(users[u], delta).score - users[u].score
<1>1. users[u].score \in 0..MaxScore /\ 0..MaxScore \subseteq Int
    BY ModerationBounds DEF UserRows
<1>2. Clip(users[u].score + delta) \in 0..MaxScore
    BY <1>1, ClipType
<1> QED BY <1>1, <1>2, ScoredType DEF LogRow, LogRows

\* What a moderator's request leaves on the desk.
LEMMA TakeType ==
    ASSUME DeskOK, NEW m \in Moderators, NEW op, NEW on, NEW what, NEW count,
           Take(m, op, on, what, count),
           [op |-> op, on |-> on, what |-> what, count |-> count] \in Tasks,
           TaskOK([op |-> op, on |-> on, what |-> what, count |-> count])
    PROVE  /\ IsFiniteSet(DOMAIN desk') /\ desk' \in [DOMAIN desk' -> Tasks]
           /\ \A x \in DOMAIN desk' : TaskOK(desk'[x])
           /\ m \notin DOMAIN desk /\ DOMAIN desk' = DOMAIN desk \cup {m}
           /\ desk'[m] = [op |-> op, on |-> on, what |-> what, count |-> count]
           /\ \A x \in DOMAIN desk : desk'[x] = desk[x]
<1>1. /\ m \notin DOMAIN desk /\ DOMAIN desk' = DOMAIN desk \cup {m}
      /\ desk'[m] = [op |-> op, on |-> on, what |-> what, count |-> count]
      /\ \A x \in DOMAIN desk : desk'[x] = desk[x]
      /\ desk' = [x \in DOMAIN desk' |-> desk'[x]]
    BY DEF Take
<1>2. IsFiniteSet(DOMAIN desk')
    BY <1>1, FS_AddElement DEF DeskOK
<1>3. \A x \in DOMAIN desk' : desk'[x] \in Tasks /\ TaskOK(desk'[x])
    BY <1>1 DEF DeskOK
<1> HIDE DEF TaskOK
<1> QED BY <1>1, <1>2, <1>3

LEMMA FinishType ==
    ASSUME DeskOK, NEW m, NEW op, Finish(m, op)
    PROVE  /\ m \in DOMAIN desk /\ desk[m].op = op /\ desk[m] \in Tasks /\ TaskOK(desk[m])
           /\ IsFiniteSet(DOMAIN desk') /\ desk' \in [DOMAIN desk' -> Tasks]
           /\ \A x \in DOMAIN desk' : TaskOK(desk'[x])
           /\ DOMAIN desk' = DOMAIN desk \ {m}
           /\ \A x \in DOMAIN desk' : desk'[x] = desk[x]
<1>1. /\ m \in DOMAIN desk /\ desk[m].op = op
      /\ DOMAIN desk' = DOMAIN desk \ {m}
      /\ \A x \in DOMAIN desk' : desk'[x] = desk[x]
      /\ desk' = [x \in DOMAIN desk' |-> desk'[x]]
    BY DEF Finish
<1>2. IsFiniteSet(DOMAIN desk')
    BY <1>1, FS_Subset DEF DeskOK
<1>3. /\ desk[m] \in Tasks /\ TaskOK(desk[m])
      /\ \A x \in DOMAIN desk' : desk'[x] \in Tasks /\ TaskOK(desk'[x])
    BY <1>1 DEF DeskOK
<1> HIDE DEF TaskOK
<1> QED BY <1>1, <1>2, <1>3

\* The penalties grow, and no penalty changes its user, report, type, start or end.
LEMMA PunishType ==
    ASSUME TypeOK, NEW u \in Students, NEW r \in Reports \cup {NoReport}, NEW p \in PenaltyIds,
           NEW step \in Steps, Punish(u, r, p, step)
    PROVE  /\ PenaltiesOK'
           /\ p \notin DOMAIN penalties /\ DOMAIN penalties' = DOMAIN penalties \cup {p}
           /\ \A x \in DOMAIN penalties : penalties'[x] = penalties[x]
           /\ penalties'[p].user = u /\ penalties'[p].report = r
           /\ penalties'[p].type = step.type /\ penalties'[p].status = "active"
           /\ penalties'[p].end = (IF step.days > 0 THEN now + step.days ELSE Null)
           /\ users' \in [Students -> UserRows]
           /\ users' = [users EXCEPT
                ![u] = Scored(Banned(users[u], step.type, step.days), step.scoreDelta)]
           /\ creditLog' \in Seq(LogRows)
<1> USE DEF TypeOK
<1>1. /\ step.type \in PenaltyTypes /\ step.days \in Nat /\ step.scoreDelta \in Int
      /\ users[u] \in UserRows
    BY DEF Steps
<1>2. /\ p \notin DOMAIN penalties /\ DOMAIN penalties' = DOMAIN penalties \cup {p}
      /\ \A x \in DOMAIN penalties : penalties'[x] = penalties[x]
      /\ penalties'[p] =
           [user |-> u, report |-> r, type |-> step.type, start |-> now,
            end |-> IF step.days > 0 THEN now + step.days ELSE Null,
            status |-> "active", appeal |-> "none"]
      /\ penalties' = [x \in DOMAIN penalties' |-> penalties'[x]]
    BY DEF Punish
<1>3. penalties'[p] \in PenaltyRows
    BY <1>1, <1>2 DEF PenaltyRows, Null
<1>4. PenaltiesOK'
  <2>1. IsFiniteSet(DOMAIN penalties') /\ DOMAIN penalties' \subseteq PenaltyIds
    BY <1>2, FS_AddElement DEF PenaltiesOK
  <2>2. \A x \in DOMAIN penalties' : penalties'[x] \in PenaltyRows
    BY <1>2, <1>3 DEF PenaltiesOK
  <2> QED BY <1>2, <2>1, <2>2 DEF PenaltiesOK
<1>5. Scored(Banned(users[u], step.type, step.days), step.scoreDelta) \in UserRows
    BY <1>1, BannedType, ScoredType
<1>6. /\ users' \in [Students -> UserRows]
      /\ users' = [users EXCEPT
                ![u] = Scored(Banned(users[u], step.type, step.days), step.scoreDelta)]
    BY <1>5 DEF Punish
<1>7. creditLog' \in Seq(LogRows)
  <2>1. LogRow(u, step.scoreDelta, "penalty", p) \in LogRows
    BY <1>1, LogRowType
  <2> QED BY <2>1 DEF Punish
<1> QED BY <1>2, <1>4, <1>6, <1>7

\* A task stays what it is when appeals are added.
LEMMA TasksStay ==
    ASSUME DeskOK, DOMAIN appeals \subseteq DOMAIN appeals', UNCHANGED desk
    PROVE  DeskOK'
BY DEF DeskOK, TaskOK

LEMMA TypeInit == Init => TypeOK
<1> SUFFICES ASSUME Init PROVE TypeOK
    OBVIOUS
<1>1. /\ now = 0 /\ creditLog = <<>> /\ sweep = Idle /\ met = FALSE
      /\ DOMAIN penalties = {} /\ DOMAIN appeals = {} /\ DOMAIN desk = {}
      /\ penalties = [p \in DOMAIN penalties |-> penalties[p]]
      /\ appeals = [a \in DOMAIN appeals |-> appeals[a]]
      /\ desk = [m \in DOMAIN desk |-> desk[m]]
    BY DEF Init
<1>2. ReportsOK
    BY DEF Init, ReportsOK
<1>3. users \in [Students -> UserRows]
    BY ModerationBounds DEF Init, UserRows, Null
<1>4. PenaltiesOK /\ AppealsOK /\ DeskOK
    BY <1>1, FS_EmptySet DEF PenaltiesOK, AppealsOK, DeskOK
<1>5. SweepOK
    BY <1>1 DEF SweepOK, Idle
<1>6. creditLog \in Seq(LogRows)
    BY <1>1
<1>7. now \in Nat /\ met \in BOOLEAN
    BY <1>1
<1>8. late \in [Reports -> Nat]
    BY DEF Init
<1> QED BY <1>2, <1>3, <1>4, <1>5, <1>6, <1>7, <1>8 DEF TypeOK

LEMMA CountType ==
    ASSUME PenaltiesOK, NEW u
    PROVE  CountWith(u) \in Nat /\ CountWith(u) >= 1
<1> DEFINE S == {p \in DOMAIN penalties :
                   penalties[p].user = u /\ penalties[p].status # "revoked"}
<1>1. Cardinality(S) \in Nat
    BY FS_Subset, FS_CardinalityType DEF PenaltiesOK
<1>2. CountWith(u) = 1 + Cardinality(S)
    BY DEF CountWith
<1> HIDE DEF S
<1> QED BY <1>1, <1>2

\* Requests that are taken up, and change nothing but the desk.
LEMMA TakesType ==
    ASSUME TypeOK, NEW m \in Moderators,
           \/ \E r \in Reports : CheckAccept(m, r)
           \/ \E r \in Reports, what \in Rulings \cup {Simply("invalid")} : CheckRuling(m, r, what)
           \/ \E u \in Students, what \in Bans : BeginBan(m, u, what)
           \/ \E a \in AppealIds, verdict \in {"approved", "rejected"} :
                 CheckReview(m, a, verdict)
    PROVE  DeskOK'
<1>1. \A u : CountWith(u) \in Nat /\ CountWith(u) >= 1
    BY CountType DEF TypeOK
<1>2. DeskOK /\ UNCHANGED appeals
    BY DEF TypeOK, CheckAccept, CheckRuling, BeginBan, CheckReview
<1>3. ASSUME NEW op, NEW on, NEW what, NEW count, Take(m, op, on, what, count),
             [op |-> op, on |-> on, what |-> what, count |-> count] \in Tasks,
             TaskOK([op |-> op, on |-> on, what |-> what, count |-> count])
      PROVE  DeskOK'
  <2>1. /\ IsFiniteSet(DOMAIN desk') /\ desk' \in [DOMAIN desk' -> Tasks]
        /\ \A x \in DOMAIN desk' : TaskOK(desk'[x])
    BY <1>2, <1>3, TakeType
  <2> QED BY <1>2, <2>1 DEF DeskOK, TaskOK
<1>4. ASSUME NEW r \in Reports, CheckAccept(m, r) PROVE DeskOK'
  <2> DEFINE task == [op |-> "accept", on |-> r, what |-> Simply("accept"), count |-> 0]
  <2>1. task \in Tasks /\ TaskOK(task)
    BY DEF Tasks, Whats, TaskOK
  <2>2. Take(m, "accept", r, Simply("accept"), 0)
    BY <1>4 DEF CheckAccept
  <2> QED BY <1>3, <2>1, <2>2
<1>5. ASSUME NEW r \in Reports, NEW what \in Rulings \cup {Simply("invalid")},
             CheckRuling(m, r, what)
      PROVE  DeskOK'
  <2> DEFINE task == [op |-> "rule", on |-> r, what |-> what, count |-> 0]
  <2>1. task \in Tasks /\ TaskOK(task)
    BY DEF Tasks, Whats, TaskOK
  <2>2. Take(m, "rule", r, what, 0)
    BY <1>5 DEF CheckRuling
  <2> QED BY <1>3, <2>1, <2>2
<1>6. ASSUME NEW u \in Students, NEW what \in Bans, BeginBan(m, u, what) PROVE DeskOK'
  <2> DEFINE task == [op |-> "ban", on |-> u, what |-> what, count |-> CountWith(u)]
  <2>1. task \in Tasks /\ TaskOK(task)
    BY <1>1 DEF Tasks, Whats, TaskOK
  <2>2. Take(m, "ban", u, what, CountWith(u))
    BY <1>6 DEF BeginBan
  <2> QED BY <1>3, <2>1, <2>2
<1>7. ASSUME NEW a \in AppealIds, NEW verdict \in {"approved", "rejected"},
             CheckReview(m, a, verdict)
      PROVE  DeskOK'
  <2> DEFINE task == [op |-> "review", on |-> a, what |-> Simply(verdict), count |-> 0]
  <2>1. a \in DOMAIN appeals /\ Take(m, "review", a, Simply(verdict), 0)
    BY <1>7 DEF CheckReview
  <2>2. task \in Tasks /\ TaskOK(task)
    BY <2>1 DEF Tasks, Whats, TaskOK
  <2> QED BY <1>3, <2>1, <2>2
<1> QED BY <1>4, <1>5, <1>6, <1>7

\* The rows of a credit log with row i marked as rolled back.
Marked(i) == [creditLog EXCEPT ![i].rolledBack = TRUE]

LEMMA MarkedType ==
    ASSUME creditLog \in Seq(LogRows), NEW i \in DOMAIN creditLog
    PROVE  /\ Marked(i) \in Seq(LogRows) /\ DOMAIN Marked(i) = DOMAIN creditLog
           /\ Len(Marked(i)) = Len(creditLog) /\ Marked(i)[i].rolledBack
           /\ \A j \in DOMAIN creditLog :
                /\ Marked(i)[j].user = creditLog[j].user
                /\ Marked(i)[j].delta = creditLog[j].delta
                /\ Marked(i)[j].penalty = creditLog[j].penalty
                /\ j # i => Marked(i)[j] = creditLog[j]
<1>1. /\ DOMAIN creditLog = 1..Len(creditLog) /\ Len(creditLog) \in Nat
      /\ \A j \in DOMAIN creditLog : creditLog[j] \in LogRows
    OBVIOUS
<1> DEFINE row == [creditLog[i] EXCEPT !.rolledBack = TRUE]
<1>2. row \in LogRows /\ row.rolledBack /\ row.user = creditLog[i].user
      /\ row.delta = creditLog[i].delta /\ row.penalty = creditLog[i].penalty
    BY <1>1 DEF LogRows
<1>3. Marked(i) = [creditLog EXCEPT ![i] = row]
    BY DEF Marked
<1> HIDE DEF row
<1>4. Marked(i) \in Seq(LogRows) /\ Len(Marked(i)) = Len(creditLog)
    BY <1>1, <1>2, <1>3
<1> QED BY <1>1, <1>2, <1>3, <1>4

\* An appeal that is approved: the penalty is revoked, and its points come back.
LEMMA ApproveType ==
    ASSUME TypeOK, NEW m, ApproveAppeal(m)
    PROVE  \E p \in DOMAIN penalties :
             LET u == penalties[p].user IN
             /\ u \in Students /\ penalties[p].type \in PenaltyTypes
             /\ appeals' \in [DOMAIN appeals ->
                               [penalty : DOMAIN penalties,
                                status : {"checked", "pending", "approved", "rejected"}]]
             /\ penalties' = [penalties EXCEPT ![p].status = "revoked",
                                               ![p].appeal = "approved"]
             /\ \/ penalties[p].status = "revoked" /\ UNCHANGED <<users, creditLog>>
                \/ /\ penalties[p].status # "revoked"
                   /\ users' = [users EXCEPT ![u] =
                         Scored(Unbanned(users[u], penalties[p].type), PointsTaken(p, u))]
                   /\ creditLog' = Rollback(p, u)
<1>1. desk[m].on \in DOMAIN appeals
  <2>1. desk[m].op = "review" /\ TaskOK(desk[m])
    BY FinishType DEF ApproveAppeal, TypeOK
  <2> QED BY <2>1 DEF TaskOK
<1> DEFINE a == desk[m].on
           p == appeals[a].penalty
<1>2. /\ appeals[a].penalty \in DOMAIN penalties
      /\ appeals \in [DOMAIN appeals ->
                      [penalty : DOMAIN penalties,
                       status : {"checked", "pending", "approved", "rejected"}]]
    BY <1>1 DEF TypeOK, AppealsOK
<1>3. penalties[p].user \in Students /\ penalties[p].type \in PenaltyTypes
    BY <1>2 DEF TypeOK, PenaltiesOK, PenaltyRows
<1>4. appeals' = [appeals EXCEPT ![a].status = "approved"]
    BY DEF ApproveAppeal
<1>5. appeals' \in [DOMAIN appeals ->
                      [penalty : DOMAIN penalties,
                       status : {"checked", "pending", "approved", "rejected"}]]
    BY <1>1, <1>2, <1>4
<1>6. /\ penalties' = [penalties EXCEPT ![p].status = "revoked", ![p].appeal = "approved"]
      /\ \/ penalties[p].status = "revoked" /\ UNCHANGED <<users, creditLog>>
         \/ /\ penalties[p].status # "revoked"
            /\ users' = [users EXCEPT ![penalties[p].user] =
                  Scored(Unbanned(users[penalties[p].user], penalties[p].type),
                         PointsTaken(p, penalties[p].user))]
            /\ creditLog' = Rollback(p, penalties[p].user)
    BY DEF ApproveAppeal
<1> HIDE DEF p
<1> QED BY <1>2, <1>3, <1>5, <1>6 DEF p

\* What a rollback gives back, and what it adds to the log.
LEMMA RollbackType ==
    ASSUME TypeOK, NEW p \in DOMAIN penalties, NEW u \in Students
    PROVE  /\ PointsTaken(p, u) \in Nat
           /\ \/ RowsToRollBack(p, u) = {} /\ PointsTaken(p, u) = 0
                 /\ Rollback(p, u) = creditLog
              \/ \E i \in RowsToRollBack(p, u) :
                    /\ i \in DOMAIN creditLog /\ creditLog[i].delta \in Int
                    /\ PointsTaken(p, u) = -creditLog[i].delta
                    /\ Rollback(p, u) =
                         Append(Marked(i), LogRow(u, PointsTaken(p, u), "rollback", p))
           /\ Rollback(p, u) \in Seq(LogRows)
<1>0. \A i \in DOMAIN creditLog : creditLog[i] \in LogRows
    BY DEF TypeOK
<1>1. CASE RowsToRollBack(p, u) = {}
    BY <1>1 DEF PointsTaken, Rollback, TypeOK
<1>2. CASE RowsToRollBack(p, u) # {}
  <2> DEFINE i == CHOOSE i \in RowsToRollBack(p, u) : TRUE
  <2>1. i \in RowsToRollBack(p, u)
    BY <1>2
  <2> HIDE DEF i
  <2>2. i \in DOMAIN creditLog /\ creditLog[i].delta \in Int /\ creditLog[i].delta < 0
    BY <1>0, <2>1 DEF RowsToRollBack, LogRows
  <2>3. /\ PointsTaken(p, u) = -creditLog[i].delta
        /\ Rollback(p, u) = Append(Marked(i), LogRow(u, PointsTaken(p, u), "rollback", p))
    BY <1>2 DEF PointsTaken, Rollback, Marked, i
  <2>4. LogRow(u, PointsTaken(p, u), "rollback", p) \in LogRows
    <3>1. /\ PointsTaken(p, u) \in Int /\ p \in PenaltyIds \cup {Null}
          /\ users \in [Students -> UserRows]
      BY <2>2, <2>3 DEF TypeOK, PenaltiesOK
    <3> QED BY <3>1, LogRowType
  <2>5. Marked(i) \in Seq(LogRows)
    BY <2>2, MarkedType DEF TypeOK
  <2>6. Rollback(p, u) \in Seq(LogRows)
    BY <2>3, <2>4, <2>5
  <2> QED BY <2>1, <2>2, <2>3, <2>6
<1> QED BY <1>1, <1>2

\* Penalties that only change their status leave appeals and the job's rows in order.
LEMMA PenaltiesGrow ==
    ASSUME AppealsOK, SweepOK, DOMAIN penalties \subseteq DOMAIN penalties',
           \A p \in DOMAIN penalties : penalties'[p].type = penalties[p].type
    PROVE  /\ UNCHANGED appeals => AppealsOK'
           /\ UNCHANGED sweep => SweepOK'
<1>1. UNCHANGED appeals => AppealsOK'
    BY DEF AppealsOK
<1>2. UNCHANGED sweep => SweepOK'
    BY DEF SweepOK
<1> QED BY <1>1, <1>2

\* Only the status or the appeal of penalties changes.
SameCase(x, y) ==
    /\ x.user = y.user /\ x.type = y.type /\ x.report = y.report
    /\ x.start = y.start /\ x.end = y.end

Relabelled ==
    /\ DOMAIN penalties' = DOMAIN penalties
    /\ penalties' \in [DOMAIN penalties -> PenaltyRows]
    /\ \A p \in DOMAIN penalties : SameCase(penalties'[p], penalties[p])

LEMMA RelabelledType ==
    ASSUME TypeOK, Relabelled
    PROVE  /\ PenaltiesOK'
           /\ UNCHANGED appeals => AppealsOK'
           /\ UNCHANGED sweep => SweepOK'
<1>1. PenaltiesOK'
    BY DEF Relabelled, TypeOK, PenaltiesOK
<1> QED BY <1>1, PenaltiesGrow DEF Relabelled, SameCase, TypeOK

LEMMA RowChanges ==
    ASSUME NEW row \in PenaltyRows
    PROVE  /\ \A s \in {"active", "revoked", "expired"} :
                /\ [row EXCEPT !.status = s] \in PenaltyRows
                /\ SameCase([row EXCEPT !.status = s], row)
           /\ \A a \in {"none", "pending", "approved", "rejected"} :
                /\ [row EXCEPT !.appeal = a] \in PenaltyRows
                /\ SameCase([row EXCEPT !.appeal = a], row)
           /\ \A s \in {"active", "revoked", "expired"},
                 a \in {"none", "pending", "approved", "rejected"} :
                /\ [row EXCEPT !.status = s, !.appeal = a] \in PenaltyRows
                /\ SameCase([row EXCEPT !.status = s, !.appeal = a], row)
           /\ SameCase(row, row)
BY DEF PenaltyRows, SameCase

\* Which steps only relabel penalties.
LEMMA Relabels ==
    ASSUME TypeOK, NEW m,
           \/ RevokeLifted(m) \/ ApproveAppeal(m) \/ RejectAppeal(m)
           \/ \E a \in AppealIds : FileAppeal(a)
           \/ \E p \in PenaltyIds : SweepMark(p)
    PROVE  Relabelled
<1>1. penalties \in [DOMAIN penalties -> PenaltyRows]
    BY DEF TypeOK, PenaltiesOK
<1>2. ASSUME NEW p, NEW row \in PenaltyRows,
             penalties' = [penalties EXCEPT ![p] = row],
             p \in DOMAIN penalties => SameCase(row, penalties[p])
      PROVE  Relabelled
    BY <1>1, <1>2, RowChanges DEF Relabelled
<1>3. ASSUME RevokeLifted(m) PROVE Relabelled
  <2>1. /\ DOMAIN penalties' = DOMAIN penalties
        /\ penalties' = [p \in DOMAIN penalties' |-> penalties'[p]]
        /\ \A p \in DOMAIN penalties :
              \/ penalties'[p] = penalties[p]
              \/ penalties'[p] = [penalties[p] EXCEPT !.status = "revoked"]
    BY <1>3 DEF RevokeLifted
  <2>2. \A p \in DOMAIN penalties :
           penalties'[p] \in PenaltyRows /\ SameCase(penalties'[p], penalties[p])
    <3> TAKE p \in DOMAIN penalties
    <3> DEFINE row == [penalties[p] EXCEPT !.status = "revoked"]
    <3>1. penalties[p] \in PenaltyRows
      BY <1>1
    <3>2. /\ row \in PenaltyRows /\ SameCase(row, penalties[p])
          /\ SameCase(penalties[p], penalties[p])
      BY <3>1, RowChanges
    <3>3. penalties'[p] = penalties[p] \/ penalties'[p] = row
      BY <2>1
    <3> HIDE DEF row
    <3> QED BY <3>1, <3>2, <3>3
  <2> QED BY <2>1, <2>2 DEF Relabelled
<1>4. ASSUME ApproveAppeal(m) PROVE Relabelled
  <2>1. PICK p \in DOMAIN penalties :
          penalties' = [penalties EXCEPT ![p].status = "revoked", ![p].appeal = "approved"]
    BY <1>4, ApproveType
  <2> DEFINE row == [penalties[p] EXCEPT !.status = "revoked", !.appeal = "approved"]
  <2>2. row \in PenaltyRows /\ SameCase(row, penalties[p])
    BY <1>1, RowChanges
  <2>3. penalties' = [penalties EXCEPT ![p] = row]
    BY <1>1, <2>1
  <2> QED BY <1>2, <2>2, <2>3
<1>5. ASSUME NEW p, NEW a \in {"pending", "rejected"},
             penalties' = [penalties EXCEPT ![p].appeal = a], p \in DOMAIN penalties
      PROVE  Relabelled
  <2> DEFINE row == [penalties[p] EXCEPT !.appeal = a]
  <2>1. row \in PenaltyRows /\ SameCase(row, penalties[p])
    BY <1>1, <1>5, RowChanges
  <2>2. penalties' = [penalties EXCEPT ![p] = row]
    BY <1>5
  <2> QED BY <1>2, <2>1, <2>2
<1>6. ASSUME RejectAppeal(m) PROVE Relabelled
  <2>1. desk[m].op = "review" /\ TaskOK(desk[m])
    BY <1>6, FinishType DEF RejectAppeal, TypeOK
  <2>2. appeals[desk[m].on].penalty \in DOMAIN penalties
    BY <2>1 DEF TaskOK, TypeOK, AppealsOK
  <2>3. penalties' = [penalties EXCEPT ![appeals[desk[m].on].penalty].appeal = "rejected"]
    BY <1>6 DEF RejectAppeal
  <2> QED BY <1>5, <2>2, <2>3
<1>7. ASSUME NEW a \in AppealIds, FileAppeal(a) PROVE Relabelled
  <2>1. appeals[a].penalty \in DOMAIN penalties
    BY <1>7 DEF FileAppeal, TypeOK, AppealsOK
  <2>2. penalties' = [penalties EXCEPT ![appeals[a].penalty].appeal = "pending"]
    BY <1>7 DEF FileAppeal
  <2> QED BY <1>5, <2>1, <2>2
<1>8. ASSUME NEW p \in PenaltyIds, SweepMark(p) PROVE Relabelled
  <2> DEFINE row == [penalties[p] EXCEPT !.status = "expired"]
  <2>1. p \in DOMAIN penalties /\ penalties' = [penalties EXCEPT ![p] = row]
    BY <1>8 DEF SweepMark, TypeOK, SweepOK
  <2>2. row \in PenaltyRows /\ SameCase(row, penalties[p])
    BY <1>1, <2>1, RowChanges
  <2> QED BY <1>2, <2>1, <2>2
<1> QED BY <1>3, <1>4, <1>6, <1>7, <1>8

\* The kinds of steps there are.
LEMMA NextKinds ==
    ASSUME Next
    PROVE  \/ Tick \/ SweepScan \/ SweepCrash
           \/ \E r \in Reports : FileReport(r)
           \/ \E u \in Students : EarnBonus(u)
           \/ \E m \in Moderators :
                \/ \E r \in Reports : CheckAccept(m, r)
                \/ \E r \in Reports, what \in Rulings \cup {Simply("invalid")} :
                      CheckRuling(m, r, what)
                \/ \E u \in Students, what \in Bans : BeginBan(m, u, what)
                \/ \E a \in AppealIds, verdict \in {"approved", "rejected"} :
                      CheckReview(m, a, verdict)
           \/ \E m \in Moderators :
                \/ Accept(m) \/ Dismiss(m) \/ BeginRuling(m) \/ RevokeLifted(m)
                \/ ApproveAppeal(m) \/ RejectAppeal(m)
                \/ \E p \in PenaltyIds : Uphold(m, p) \/ Ban(m, p)
                \/ \E u \in Students, type \in Unbans : LiftBan(m, u, type)
           \/ \E a \in AppealIds : FileAppeal(a)
           \/ \E a \in AppealIds, p \in PenaltyIds : CheckAppeal(a, p)
           \/ \E p \in PenaltyIds : SweepMark(p) \/ SweepClear(p)
BY DEF Next, ReportNext, BanNext, AppealNext, SweepNext

\* What a commit of a ruling or of a ban imposes, and on whom.
LEMMA Imposed ==
    ASSUME DeskOK, NEW m, NEW p, Uphold(m, p) \/ Ban(m, p)
    PROVE  \E u \in Students, r \in Reports \cup {NoReport}, step \in Steps :
             /\ Punish(u, r, p, step)
             /\ (\A i \in DOMAIN Ladder : Ladder[i].scoreDelta <= 0) => step.scoreDelta <= 0
             /\ r = IF Uphold(m, p) THEN desk[m].on ELSE NoReport
<1> DEFINE task == desk[m]
           step == StepFor(task.what, task.count)
<1>1. /\ m \in DOMAIN desk /\ task \in Tasks /\ TaskOK(task)
      /\ Uphold(m, p) => task.op = "ruling"
      /\ ~Uphold(m, p) => task.op = "ban"
    BY FinishType DEF Uphold, Ban
<1>2. task.what \in Rulings \cup Bans /\ task.count \in Nat /\ task.count >= 1
    BY <1>1 DEF TaskOK, Tasks
<1>3. /\ step \in Steps
      /\ (\A i \in DOMAIN Ladder : Ladder[i].scoreDelta <= 0) => step.scoreDelta <= 0
    BY <1>2, StepForType
<1>4. CASE Uphold(m, p)
  <2>1. task.on \in Reports /\ TargetOf[task.on] \in Students
    BY <1>1, <1>4, TargetAssumption DEF TaskOK
  <2>2. Punish(TargetOf[task.on], task.on, p, step)
    BY <1>4 DEF Uphold
  <2> HIDE DEF step
  <2> QED BY <1>3, <1>4, <2>1, <2>2
<1>5. CASE ~Uphold(m, p)
  <2>1. task.on \in Students
    BY <1>1, <1>5 DEF TaskOK
  <2>2. Punish(task.on, NoReport, p, step)
    BY <1>5 DEF Ban
  <2> HIDE DEF step
  <2> QED BY <1>3, <1>5, <2>1, <2>2
<1> QED BY <1>4, <1>5

LEMMA TypeStep == TypeOK /\ [Next]_vars => TypeOK'
<1> SUFFICES ASSUME TypeOK, Next PROVE TypeOK'
    BY DEF vars, TypeOK, ReportsOK, PenaltiesOK, AppealsOK, DeskOK, TaskOK, SweepOK
<1>0. met' \in BOOLEAN /\ AppealsOK /\ SweepOK /\ DeskOK /\ ReportsOK /\ PenaltiesOK
      /\ late' \in [Reports -> Nat]
    BY DEF Next, Histories, TypeOK
<1>1. CASE Tick \/ \E r \in Reports : FileReport(r)
  <2>1. UNCHANGED <<penalties, appeals, users, creditLog, desk, sweep>>
    BY <1>1 DEF Tick, FileReport
  <2>2. now' \in Nat /\ ReportsOK'
    BY <1>1 DEF Tick, FileReport, TypeOK, ReportsOK
  <2>3. PenaltiesOK' /\ AppealsOK' /\ SweepOK' /\ DeskOK'
    BY <1>0, <2>1, PenaltiesGrow, TasksStay DEF PenaltiesOK
  <2> QED BY <1>0, <2>1, <2>2, <2>3 DEF TypeOK
<1>2. CASE SweepScan \/ SweepCrash
  <2>1. UNCHANGED <<now, reports, penalties, appeals, users, creditLog, desk>>
    BY <1>2 DEF SweepScan, SweepCrash
  <2>2. SweepOK'
    BY <1>2, <2>1 DEF SweepScan, SweepCrash, TypeOK, SweepOK, Idle, Due
  <2>3. PenaltiesOK' /\ AppealsOK' /\ ReportsOK' /\ DeskOK'
    BY <1>0, <2>1, PenaltiesGrow, TasksStay DEF PenaltiesOK, ReportsOK, AppealsOK
  <2> QED BY <1>0, <2>1, <2>2, <2>3 DEF TypeOK
<1>3. ASSUME NEW u \in Students, EarnBonus(u) PROVE TypeOK'
  <2>1. UNCHANGED <<now, reports, penalties, appeals, desk, sweep>>
    BY <1>3 DEF EarnBonus
  <2>2. users[u] \in UserRows /\ Bonus \in Int /\ Null \in PenaltyIds \cup {Null}
    BY ModerationBounds DEF TypeOK
  <2>3. Scored(users[u], Bonus) \in UserRows /\ LogRow(u, Bonus, "bonus", Null) \in LogRows
    BY <2>2, ScoredType, LogRowType DEF TypeOK
  <2>4. users' \in [Students -> UserRows] /\ creditLog' \in Seq(LogRows)
    BY <1>3, <2>3 DEF EarnBonus, TypeOK
  <2>5. PenaltiesOK' /\ AppealsOK' /\ ReportsOK' /\ DeskOK' /\ SweepOK'
    BY <1>0, <2>1, PenaltiesGrow, TasksStay DEF PenaltiesOK, ReportsOK
  <2> QED BY <1>0, <2>1, <2>4, <2>5 DEF TypeOK
<1>4. ASSUME NEW m \in Moderators,
             \/ \E r \in Reports : CheckAccept(m, r)
             \/ \E r \in Reports, what \in Rulings \cup {Simply("invalid")} :
                   CheckRuling(m, r, what)
             \/ \E u \in Students, what \in Bans : BeginBan(m, u, what)
             \/ \E a \in AppealIds, verdict \in {"approved", "rejected"} :
                   CheckReview(m, a, verdict)
      PROVE  TypeOK'
  <2>1. UNCHANGED <<now, reports, penalties, appeals, users, creditLog, sweep>>
    BY <1>4 DEF CheckAccept, CheckRuling, BeginBan, CheckReview
  <2>2. DeskOK'
    BY <1>4, TakesType
  <2>3. PenaltiesOK' /\ AppealsOK' /\ ReportsOK' /\ SweepOK'
    BY <1>0, <2>1, PenaltiesGrow DEF PenaltiesOK, ReportsOK
  <2> QED BY <1>0, <2>1, <2>2, <2>3 DEF TypeOK
<1>5. ASSUME NEW m \in Moderators, Accept(m) \/ Dismiss(m) PROVE TypeOK'
  <2>1. UNCHANGED <<now, penalties, appeals, users, creditLog, sweep>>
    BY <1>5 DEF Accept, Dismiss
  <2>2. /\ IsFiniteSet(DOMAIN desk') /\ desk' \in [DOMAIN desk' -> Tasks]
        /\ \A x \in DOMAIN desk' : TaskOK(desk'[x])
    BY <1>0, <1>5, FinishType DEF Accept, Dismiss
  <2>3. DeskOK'
    BY <2>1, <2>2 DEF DeskOK, TaskOK
  <2>4. ReportsOK'
    <3>1. CASE Accept(m)
      BY <1>0, <3>1 DEF Accept, ReportsOK
    <3>2. CASE Dismiss(m)
      BY <1>0, <3>2 DEF Dismiss, ReportsOK
    <3> QED BY <1>5, <3>1, <3>2
  <2>5. PenaltiesOK' /\ AppealsOK' /\ SweepOK'
    BY <1>0, <2>1, PenaltiesGrow DEF PenaltiesOK
  <2> QED BY <1>0, <2>1, <2>3, <2>4, <2>5 DEF TypeOK
<1>6. ASSUME NEW m \in Moderators, BeginRuling(m) PROVE TypeOK'
  <2>1. UNCHANGED <<now, reports, penalties, appeals, users, creditLog, sweep>>
    BY <1>6 DEF BeginRuling
  <2>2. DeskOK'
    <3> DEFINE count == CountWith(TargetOf[desk[m].on])
               task  == [desk[m] EXCEPT !.op = "ruling", !.count = count]
    <3>1. /\ m \in DOMAIN desk /\ desk[m] \in Tasks /\ TaskOK(desk[m])
          /\ desk[m].op = "rule" /\ desk[m].what.type # "invalid"
      BY <1>0, <1>6 DEF BeginRuling, DeskOK
    <3>2. count \in Nat /\ count >= 1
      BY <1>0, CountType
    <3>3. desk' = [desk EXCEPT ![m] = task]
      BY <1>6, <3>1 DEF BeginRuling
    <3>4. desk[m].what \in Rulings
      BY <3>1 DEF TaskOK, Simply
    <3> HIDE DEF count
    <3>5. task \in Tasks /\ TaskOK(task)
      BY <3>1, <3>2, <3>4 DEF Tasks, TaskOK
    <3> HIDE DEF task
    <3>6. /\ DOMAIN desk' = DOMAIN desk /\ desk' \in [DOMAIN desk -> Tasks]
          /\ \A x \in DOMAIN desk' : TaskOK(desk'[x])
      BY <1>0, <3>3, <3>5 DEF DeskOK
    <3> QED BY <1>0, <2>1, <3>6 DEF DeskOK, TaskOK
  <2>3. PenaltiesOK' /\ AppealsOK' /\ ReportsOK' /\ SweepOK'
    BY <1>0, <2>1, PenaltiesGrow DEF PenaltiesOK, ReportsOK
  <2> QED BY <1>0, <2>1, <2>2, <2>3 DEF TypeOK
<1>7. ASSUME NEW m \in Moderators, NEW p \in PenaltyIds, Uphold(m, p) \/ Ban(m, p)
      PROVE  TypeOK'
  <2>1. UNCHANGED <<now, appeals, sweep>> /\ ReportsOK'
    BY <1>7 DEF Uphold, Ban, TypeOK, ReportsOK
  <2>2. /\ IsFiniteSet(DOMAIN desk') /\ desk' \in [DOMAIN desk' -> Tasks]
        /\ \A x \in DOMAIN desk' : TaskOK(desk'[x])
    BY <1>0, <1>7, FinishType DEF Uphold, Ban
  <2>3. DeskOK'
    BY <2>1, <2>2 DEF DeskOK, TaskOK
  <2>4. \E u \in Students, r \in Reports \cup {NoReport}, step \in Steps : Punish(u, r, p, step)
    BY <1>0, <1>7, Imposed
  <2>5. /\ PenaltiesOK' /\ users' \in [Students -> UserRows] /\ creditLog' \in Seq(LogRows)
        /\ DOMAIN penalties' = DOMAIN penalties \cup {p}
        /\ \A x \in DOMAIN penalties : penalties'[x] = penalties[x]
    BY <2>4, PunishType
  <2>6. AppealsOK' /\ SweepOK'
    BY <1>0, <2>1, <2>5, PenaltiesGrow
  <2> QED BY <1>0, <2>1, <2>3, <2>5, <2>6 DEF TypeOK
<1>8. ASSUME NEW m \in Moderators, NEW u \in Students, NEW type \in Unbans, LiftBan(m, u, type)
      PROVE  TypeOK'
  <2>1. UNCHANGED <<now, reports, penalties, appeals, creditLog, sweep>>
    BY <1>8 DEF LiftBan
  <2>2. DeskOK'
    <3> DEFINE task == [op |-> "unban", on |-> u, what |-> Simply(type), count |-> 0]
    <3>1. task \in Tasks /\ TaskOK(task)
      BY DEF Tasks, Whats, TaskOK
    <3>2. Take(m, "unban", u, Simply(type), 0)
      BY <1>8 DEF LiftBan
    <3>3. /\ IsFiniteSet(DOMAIN desk') /\ desk' \in [DOMAIN desk' -> Tasks]
          /\ \A x \in DOMAIN desk' : TaskOK(desk'[x])
      BY <1>0, <3>1, <3>2, TakeType
    <3> QED BY <2>1, <3>3 DEF DeskOK, TaskOK
  <2>3. users' \in [Students -> UserRows]
    BY <1>8 DEF LiftBan, TypeOK, UserRows, Null
  <2>4. PenaltiesOK' /\ AppealsOK' /\ ReportsOK' /\ SweepOK'
    BY <1>0, <2>1, PenaltiesGrow DEF PenaltiesOK, ReportsOK
  <2> QED BY <1>0, <2>1, <2>2, <2>3, <2>4 DEF TypeOK
<1>9. ASSUME NEW m \in Moderators, RevokeLifted(m) \/ RejectAppeal(m) \/ ApproveAppeal(m)
      PROVE  TypeOK'
  <2>1. UNCHANGED <<now, reports, sweep>> /\ DOMAIN appeals' = DOMAIN appeals
    BY <1>9, ApproveType DEF RevokeLifted, RejectAppeal, ApproveAppeal
  <2>2. /\ IsFiniteSet(DOMAIN desk') /\ desk' \in [DOMAIN desk' -> Tasks]
        /\ \A x \in DOMAIN desk' : TaskOK(desk'[x])
    BY <1>0, <1>9, FinishType DEF RevokeLifted, RejectAppeal, ApproveAppeal
  <2>3. DeskOK'
    BY <2>1, <2>2 DEF DeskOK, TaskOK
  <2>4. PenaltiesOK' /\ SweepOK' /\ Relabelled
    BY <1>9, <2>1, Relabels, RelabelledType
  <2>5. AppealsOK'
    <3>1. appeals' \in [DOMAIN appeals ->
                      [penalty : DOMAIN penalties,
                       status : {"checked", "pending", "approved", "rejected"}]]
      <4>1. CASE RevokeLifted(m)
        BY <1>0, <4>1 DEF RevokeLifted, AppealsOK
      <4>2. CASE RejectAppeal(m)
        BY <1>0, <4>2 DEF RejectAppeal, AppealsOK
      <4>3. CASE ApproveAppeal(m)
        BY <4>3, ApproveType
      <4> QED BY <1>9, <4>1, <4>2, <4>3
    <3> QED BY <1>0, <2>1, <2>4, <3>1 DEF AppealsOK, Relabelled
  <2>6. users' \in [Students -> UserRows] /\ creditLog' \in Seq(LogRows)
    <3>1. CASE RevokeLifted(m) \/ RejectAppeal(m)
      BY <3>1 DEF RevokeLifted, RejectAppeal, TypeOK
    <3>2. CASE ApproveAppeal(m)
      <4>1. PICK p \in DOMAIN penalties :
              LET u == penalties[p].user IN
              /\ u \in Students /\ penalties[p].type \in PenaltyTypes
              /\ \/ UNCHANGED <<users, creditLog>>
                 \/ /\ users' = [users EXCEPT ![u] =
                          Scored(Unbanned(users[u], penalties[p].type), PointsTaken(p, u))]
                    /\ creditLog' = Rollback(p, u)
        BY <3>2, ApproveType
      <4> DEFINE u == penalties[p].user
      <4>2. PointsTaken(p, u) \in Int /\ Rollback(p, u) \in Seq(LogRows)
        BY <4>1, RollbackType
      <4>3. users[u] \in UserRows
        BY <4>1 DEF TypeOK
      <4>4. Scored(Unbanned(users[u], penalties[p].type), PointsTaken(p, u)) \in UserRows
        BY <4>1, <4>2, <4>3, UnbannedType, ScoredType
      <4> QED BY <4>1, <4>2, <4>4 DEF TypeOK
    <3> QED BY <1>9, <3>1, <3>2
  <2> QED BY <1>0, <2>1, <2>3, <2>4, <2>5, <2>6 DEF TypeOK, ReportsOK
<1>10. ASSUME NEW a \in AppealIds, FileAppeal(a) PROVE TypeOK'
  <2>1. UNCHANGED <<now, reports, users, creditLog, desk, sweep>>
    BY <1>10 DEF FileAppeal
  <2>2. PenaltiesOK' /\ SweepOK' /\ Relabelled
    BY <1>10, <2>1, Relabels, RelabelledType
  <2>3. AppealsOK' /\ DOMAIN appeals' = DOMAIN appeals
    BY <1>0, <1>10, <2>2 DEF FileAppeal, AppealsOK, Relabelled
  <2>4. DeskOK'
    BY <1>0, <2>1, <2>3, TasksStay
  <2> QED BY <1>0, <2>1, <2>2, <2>3, <2>4 DEF TypeOK, ReportsOK
<1>11. ASSUME NEW a \in AppealIds, NEW p \in PenaltyIds, CheckAppeal(a, p) PROVE TypeOK'
  <2>1. UNCHANGED <<now, reports, penalties, users, creditLog, desk, sweep>>
    BY <1>11 DEF CheckAppeal
  <2>2. /\ DOMAIN appeals' = DOMAIN appeals \cup {a} /\ p \in DOMAIN penalties
        /\ appeals' = [x \in DOMAIN appeals' |-> appeals'[x]]
        /\ \A x \in DOMAIN appeals' :
              appeals'[x] = appeals[x] \/ appeals'[x] = [penalty |-> p, status |-> "checked"]
        /\ \A x \in DOMAIN appeals' : x \notin DOMAIN appeals =>
              appeals'[x] = [penalty |-> p, status |-> "checked"]
    BY <1>11 DEF CheckAppeal
  <2>3. AppealsOK'
    BY <1>0, <2>1, <2>2 DEF AppealsOK
  <2>4. DeskOK' /\ PenaltiesOK' /\ SweepOK' /\ ReportsOK'
    BY <1>0, <2>1, <2>2, TasksStay, PenaltiesGrow DEF PenaltiesOK, ReportsOK
  <2> QED BY <1>0, <2>1, <2>3, <2>4 DEF TypeOK
<1>12. ASSUME NEW p \in PenaltyIds, SweepMark(p) PROVE TypeOK'
  <2>1. UNCHANGED <<now, reports, appeals, users, creditLog, desk>>
    BY <1>12 DEF SweepMark
  <2>2. PenaltiesOK' /\ AppealsOK' /\ Relabelled
    BY <1>12, <2>1, Relabels, RelabelledType
  <2>3. SweepOK'
    BY <1>0, <1>12, <2>2 DEF SweepMark, SweepOK, Relabelled, SameCase
  <2>4. DeskOK'
    BY <1>0, <2>1, TasksStay
  <2> QED BY <1>0, <2>1, <2>2, <2>3, <2>4 DEF TypeOK, ReportsOK
<1>13. ASSUME NEW p \in PenaltyIds, SweepClear(p) PROVE TypeOK'
  <2>1. UNCHANGED <<now, reports, penalties, appeals, creditLog, desk>>
    BY <1>13 DEF SweepClear
  <2>2. SweepOK'
    BY <1>0, <1>13, <2>1 DEF SweepClear, SweepOK
  <2>3. users' \in [Students -> UserRows]
    <3> DEFINE u     == penalties[p].user
               until == [users[u].until EXCEPT ![penalties[p].type] = Null]
               s     == IF \/ users[u].permanent
                           \/ \E t \in TimedBans : until[t] > now
                        THEN "banned" ELSE "active"
    <3>1. p \in DOMAIN penalties /\ u \in Students
      BY <1>0, <1>13 DEF SweepClear, SweepOK, PenaltiesOK, PenaltyRows
    <3>2. users[u] \in UserRows
      BY <3>1 DEF TypeOK
    <3>3. until \in [TimedBans -> Nat] /\ s \in {"active", "banned"}
      BY <3>2 DEF UserRows, Null
    <3>4. users' = [users EXCEPT ![u].until = until, ![u].status = s]
      BY <1>13 DEF SweepClear
    <3> HIDE DEF until, s, u
    <3>5. users' = [users EXCEPT ![u] = [users[u] EXCEPT !.until = until, !.status = s]]
      BY <3>1, <3>4 DEF TypeOK
    <3>6. [users[u] EXCEPT !.until = until, !.status = s] \in UserRows
      BY <3>2, <3>3 DEF UserRows
    <3> QED BY <3>5, <3>6 DEF TypeOK
  <2>4. DeskOK' /\ PenaltiesOK' /\ AppealsOK' /\ ReportsOK'
    BY <1>0, <2>1, TasksStay, PenaltiesGrow DEF PenaltiesOK, ReportsOK, AppealsOK
  <2> QED BY <1>0, <2>1, <2>2, <2>3, <2>4 DEF TypeOK
<1> QED BY <1>1, <1>2, <1>3, <1>4, <1>5, <1>6, <1>7, <1>8, <1>9, <1>10, <1>11, <1>12, <1>13,
           NextKinds

\* The types of all state, as every step of a moderator, of a student and of the job leaves
\* them: in particular a request in flight is about a report, a user or an appeal that
\* exists, and the job works on penalties that exist.
THEOREM ModerationTypes == Spec => []TypeOK
BY TypeInit, TypeStep, PTL DEF Spec
-----------------------------------------------------------------------------
(* The credit score *)

RowsOf(u)  == {i \in DOMAIN creditLog : creditLog[i].user = u}
RowsFor(p) == {i \in DOMAIN creditLog : creditLog[i].penalty = p}

\* A row is appended; of the others only the mark may change.
LogGrows ==
    /\ creditLog' \in Seq(LogRows) /\ Len(creditLog') = Len(creditLog) + 1
    /\ \A i \in DOMAIN creditLog :
          /\ creditLog'[i].user = creditLog[i].user
          /\ creditLog'[i].delta = creditLog[i].delta
          /\ creditLog'[i].penalty = creditLog[i].penalty

LastRow == creditLog[Len(creditLog)]

\* A row of user u is appended, and u's score moves by just as much.
Booked(u) ==
    /\ LogGrows /\ LastRow'.user = u
    /\ users'[u].score = users[u].score + LastRow'.delta
    /\ \A v \in Students \ {u} : users'[v].score = users[v].score

NothingBooked ==
    /\ UNCHANGED creditLog
    /\ \A v \in Students : users'[v].score = users[v].score

\* The penalty's deduction.
Deducted(p) ==
    /\ p \in PenaltyIds \ DOMAIN penalties /\ DOMAIN penalties' = DOMAIN penalties \cup {p}
    /\ LastRow'.penalty = p /\ LastRow'.delta <= 0
    /\ \A i \in DOMAIN creditLog : creditLog'[i] = creditLog[i]

\* The points of row i come back, as far as the score goes up.
GivenBack(p) ==
    /\ p \in DOMAIN penalties /\ DOMAIN penalties' = DOMAIN penalties
    /\ LastRow'.penalty = p /\ LastRow'.delta >= 0
    /\ \E i \in RowsFor(p) :
          /\ creditLog[i].delta < 0 /\ ~creditLog[i].rolledBack
          /\ LastRow'.delta <= -creditLog[i].delta
          /\ creditLog'[i].rolledBack
          /\ \A j \in DOMAIN creditLog \ {i} : creditLog'[j] = creditLog[j]

Deducts == \A i \in DOMAIN Ladder : Ladder[i].scoreDelta <= 0

\* Points that are added up over rows which grow by the last one, or not at all.
LEMMA MorePoints ==
    ASSUME creditLog \in Seq(LogRows), LogGrows, NEW R \in SUBSET DOMAIN creditLog, NEW Q,
           NEW n, n = Len(creditLog'), Q = R \/ Q = R \cup {n}
    PROVE  /\ n \notin R /\ SumFunction([i \in R |-> creditLog[i].delta]) \in Int
           /\ SumFunction([i \in Q |-> creditLog'[i].delta]) =
                SumFunction([i \in R |-> creditLog[i].delta])
                  + IF n \in Q THEN LastRow'.delta ELSE 0
<1> DEFINE f == [i \in R |-> creditLog[i].delta]
           g == [i \in Q |-> creditLog'[i].delta]
<1>1. /\ Len(creditLog) \in Nat /\ DOMAIN creditLog = 1..Len(creditLog)
      /\ n = Len(creditLog) + 1 /\ n \in 1..Len(creditLog') /\ n \notin R
      /\ \A i \in DOMAIN creditLog : creditLog[i].delta \in Int
      /\ LastRow' = creditLog'[n] /\ LastRow'.delta \in Int
  <2>1. /\ Len(creditLog) \in Nat /\ DOMAIN creditLog = 1..Len(creditLog)
        /\ n = Len(creditLog) + 1
    BY DEF LogGrows
  <2>2. n \in 1..Len(creditLog') /\ n \notin R
    BY <2>1
  <2>3. \A i \in DOMAIN creditLog : creditLog[i] \in LogRows
    OBVIOUS
  <2>4. LastRow' = creditLog'[n] /\ creditLog'[n] \in LogRows
    BY <2>2 DEF LogGrows, LastRow
  <2> QED BY <2>1, <2>2, <2>3, <2>4 DEF LogRows
<1>2. IsFiniteSet(R)
  <2>1. IsFiniteSet(1..Len(creditLog))
    BY <1>1, FS_Interval
  <2> QED BY <1>1, <2>1, FS_Subset
<1>3. SumFunction(f) \in Int
  <2>1. IsFiniteSet(DOMAIN f) /\ \A x \in DOMAIN f : f[x] \in Int
    BY <1>1, <1>2
  <2> HIDE DEF f
  <2> QED BY <2>1, SumType
<1>4. CASE Q = R
  <2>1. f = g /\ n \notin Q
    BY <1>1, <1>4 DEF LogGrows
  <2> HIDE DEF f, g
  <2>2. SumFunction(g) = SumFunction(f) + 0
    BY <1>3, <2>1
  <2> QED BY <1>1, <1>3, <2>1, <2>2 DEF f, g
<1>5. CASE Q = R \cup {n}
  <2>1. /\ IsFiniteSet(DOMAIN f) /\ \A y \in DOMAIN f : f[y] \in Int
        /\ n \notin DOMAIN f /\ DOMAIN g = DOMAIN f \cup {n} /\ g[n] \in Int
        /\ \A y \in DOMAIN f : g[y] = f[y]
        /\ g[n] = LastRow'.delta /\ n \in Q
    BY <1>1, <1>2, <1>5 DEF LogGrows
  <2> HIDE DEF f, g
  <2>2. SumFunction(g) = SumFunction(f) + g[n]
    BY <2>1, SumGrows
  <2> QED BY <1>1, <1>3, <2>1, <2>2 DEF f, g
<1> QED BY <1>4, <1>5

LEMMA MoreRows ==
    ASSUME creditLog \in Seq(LogRows), LogGrows, NEW n, n = Len(creditLog')
    PROVE  /\ \A u : RowsOf(u)' = IF LastRow'.user = u THEN RowsOf(u) \cup {n} ELSE RowsOf(u)
           /\ \A p : RowsFor(p)' = IF LastRow'.penalty = p THEN RowsFor(p) \cup {n}
                                   ELSE RowsFor(p)
           /\ LastRow' = creditLog'[n] /\ n \notin DOMAIN creditLog
           /\ DOMAIN creditLog' = DOMAIN creditLog \cup {n}
<1>1. /\ Len(creditLog) \in Nat /\ DOMAIN creditLog = 1..Len(creditLog)
      /\ n = Len(creditLog) + 1 /\ DOMAIN creditLog' = 1..n
      /\ LastRow' = creditLog'[n]
    BY DEF LogGrows, LastRow
<1>2. n \notin DOMAIN creditLog /\ DOMAIN creditLog' = DOMAIN creditLog \cup {n}
    BY <1>1
<1> QED BY <1>1, <1>2 DEF RowsOf, RowsFor, LogGrows

\* What apply, applyRule and rollback write: a score, and a row after the rows of base.
Writes(u, user, delta, rule, p, base) ==
    /\ delta \in Int /\ rule \in {"bonus", "penalty", "rollback"}
    /\ p \in PenaltyIds \cup {Null}
    /\ user \in UserRows /\ user.score = users[u].score
    /\ base \in Seq(LogRows) /\ Len(base) = Len(creditLog)
    /\ \A i \in DOMAIN creditLog :
          /\ base[i].user = creditLog[i].user
          /\ base[i].delta = creditLog[i].delta
          /\ base[i].penalty = creditLog[i].penalty
    /\ users' = [users EXCEPT ![u] = Scored(user, delta)]
    /\ creditLog' = Append(base, LogRow(u, delta, rule, p))

\* They book what they write.
LEMMA AppendBooks ==
    ASSUME TypeOK, NEW u \in Students, NEW user, NEW delta, NEW rule, NEW p, NEW base,
           Writes(u, user, delta, rule, p, base)
    PROVE  /\ Booked(u) /\ LastRow'.penalty = p
           /\ delta >= 0 => LastRow'.delta \in 0..delta
           /\ delta <= 0 => LastRow'.delta <= 0
           /\ \A i \in DOMAIN creditLog : creditLog'[i] = base[i]
<1> USE DEF Writes
<1> DEFINE row == LogRow(u, delta, rule, p)
<1>1. users[u] \in UserRows /\ users \in [Students -> UserRows]
    BY DEF TypeOK
<1>2. users[u].score \in 0..MaxScore /\ 0..MaxScore \subseteq Int
    BY <1>1, ModerationBounds DEF UserRows
<1>3. /\ row \in LogRows /\ row.user = u /\ row.penalty = p
      /\ row.delta = Clip(users[u].score + delta) - users[u].score
    BY <1>1, LogRowType DEF LogRow
<1>4. Scored(user, delta).score = Clip(users[u].score + delta)
  <2>1. user \in UserRows /\ delta \in Int
    OBVIOUS
  <2> QED BY <2>1, ScoredType
<1>5. /\ delta >= 0 => row.delta \in 0..delta
      /\ delta <= 0 => row.delta <= 0
    BY <1>2, <1>3, ModerationBounds DEF Clip
<1> HIDE DEF row
<1>6. /\ creditLog' \in Seq(LogRows) /\ Len(creditLog') = Len(creditLog) + 1
      /\ \A i \in DOMAIN creditLog : creditLog'[i] = base[i]
      /\ LastRow' = row
  <2>1. creditLog' = Append(base, row) /\ Len(creditLog) \in Nat
        /\ DOMAIN creditLog = 1..Len(creditLog)
    BY DEF row, TypeOK
  <2> QED BY <1>3, <2>1 DEF LastRow
<1>7. LogGrows
    BY <1>6 DEF LogGrows
<1>8. users'[u].score = users[u].score + row.delta
  <2>1. users'[u].score = Clip(users[u].score + delta)
    BY <1>1, <1>4
  <2>2. Clip(users[u].score + delta) \in Int
    BY <1>2, ClipType
  <2> QED BY <1>2, <1>3, <2>1, <2>2
<1> QED BY <1>1, <1>3, <1>5, <1>6, <1>7, <1>8 DEF Booked

LEMMA BonusBooks ==
    ASSUME TypeOK, NEW u \in Students, EarnBonus(u)
    PROVE  /\ Booked(u) /\ LastRow'.penalty = Null
           /\ \A i \in DOMAIN creditLog : creditLog'[i] = creditLog[i]
<1>1. Bonus \in Int /\ users[u] \in UserRows /\ creditLog \in Seq(LogRows)
    BY ModerationBounds DEF TypeOK
<1>2. /\ users' = [users EXCEPT ![u] = Scored(users[u], Bonus)]
      /\ creditLog' = Append(creditLog, LogRow(u, Bonus, "bonus", Null))
    BY DEF EarnBonus
<1>3. Null \in PenaltyIds \cup {Null} /\ Writes(u, users[u], Bonus, "bonus", Null, creditLog)
    BY <1>1, <1>2 DEF Writes
<1>4. Bonus >= 0
    BY ModerationBounds
<1> HIDE DEF Null
<1> QED BY <1>1, <1>3, <1>4, AppendBooks

LEMMA PunishBooks ==
    ASSUME TypeOK, NEW u \in Students, NEW r \in Reports \cup {NoReport}, NEW p \in PenaltyIds,
           NEW step \in Steps, Punish(u, r, p, step)
    PROVE  \/ NothingBooked
           \/ Booked(u) /\ (step.scoreDelta <= 0 => Deducted(p))
<1> DEFINE user == Banned(users[u], step.type, step.days)
<1>1. /\ step.type \in PenaltyTypes /\ step.days \in Nat /\ step.scoreDelta \in Int
      /\ users[u] \in UserRows /\ creditLog \in Seq(LogRows)
      /\ p \in PenaltyIds \cup {Null}
    BY DEF Steps, TypeOK
<1>2. user \in UserRows /\ user.score = users[u].score
    BY <1>1, BannedType DEF TypeOK
<1>3. users' = [users EXCEPT ![u] = Scored(user, step.scoreDelta)]
    BY DEF Punish
<1>4. p \notin DOMAIN penalties /\ DOMAIN penalties' = DOMAIN penalties \cup {p}
    BY PunishType
<1> HIDE DEF user
<1>5. CASE step.scoreDelta = 0
  <2>1. UNCHANGED creditLog
    BY <1>5 DEF Punish
  <2>2. Scored(user, 0).score = users[u].score
    <3>1. users[u].score + 0 = users[u].score /\ users[u].score \in 0..MaxScore
          /\ users[u].score \in Int
      BY <1>1, ModerationBounds DEF UserRows
    <3>2. Scored(user, 0).score = Clip(users[u].score + 0)
      BY <1>2, ScoredType
    <3> QED BY <3>1, <3>2, ClipType
  <2> QED BY <1>3, <1>5, <2>1, <2>2 DEF NothingBooked, TypeOK
<1>6. CASE step.scoreDelta # 0
  <2>1. creditLog' = Append(creditLog, LogRow(u, step.scoreDelta, "penalty", p))
    BY <1>6 DEF Punish
  <2>2. /\ Booked(u) /\ LastRow'.penalty = p
        /\ step.scoreDelta <= 0 => LastRow'.delta <= 0
        /\ \A i \in DOMAIN creditLog : creditLog'[i] = creditLog[i]
    <3>1. Writes(u, user, step.scoreDelta, "penalty", p, creditLog)
      BY <1>1, <1>2, <1>3, <2>1 DEF Writes
    <3> QED BY <1>1, <3>1, AppendBooks
  <2> QED BY <1>4, <2>2 DEF Deducted
<1> QED BY <1>5, <1>6

LEMMA ApprovalBooks ==
    ASSUME TypeOK, NEW m, ApproveAppeal(m)
    PROVE  \/ NothingBooked
           \/ \E u \in Students, p \in DOMAIN penalties : Booked(u) /\ GivenBack(p)
<1>1. PICK p \in DOMAIN penalties :
        LET u == penalties[p].user IN
        /\ u \in Students /\ penalties[p].type \in PenaltyTypes
        /\ penalties' = [penalties EXCEPT ![p].status = "revoked", ![p].appeal = "approved"]
        /\ \/ penalties[p].status = "revoked" /\ UNCHANGED <<users, creditLog>>
           \/ /\ penalties[p].status # "revoked"
              /\ users' = [users EXCEPT ![u] =
                    Scored(Unbanned(users[u], penalties[p].type), PointsTaken(p, u))]
              /\ creditLog' = Rollback(p, u)
    BY ApproveType
<1> DEFINE u    == penalties[p].user
           user == Unbanned(users[u], penalties[p].type)
<1>2. /\ u \in Students /\ users[u] \in UserRows /\ creditLog \in Seq(LogRows)
      /\ p \in PenaltyIds \cup {Null} /\ DOMAIN penalties' = DOMAIN penalties
    BY <1>1 DEF TypeOK, PenaltiesOK
<1>3. user \in UserRows /\ user.score = users[u].score
    BY <1>1, <1>2, UnbannedType
<1>4. CASE UNCHANGED <<users, creditLog>>
    BY <1>4 DEF NothingBooked
<1>5. CASE /\ users' = [users EXCEPT ![u] = Scored(user, PointsTaken(p, u))]
           /\ creditLog' = Rollback(p, u)
  <2> HIDE DEF user, u
  <2>1. CASE RowsToRollBack(p, u) = {}
    <3>1. PointsTaken(p, u) = 0 /\ Rollback(p, u) = creditLog
      BY <2>1 DEF PointsTaken, Rollback
    <3>2. Scored(user, 0).score = users[u].score
      <4>1. users[u].score + 0 = users[u].score /\ users[u].score \in 0..MaxScore
            /\ users[u].score \in Int
        BY <1>2, ModerationBounds DEF UserRows
      <4>2. Scored(user, 0).score = Clip(users[u].score + 0)
        BY <1>3, ScoredType
      <4> QED BY <4>1, <4>2, ClipType
    <3> QED BY <1>2, <1>5, <3>1, <3>2 DEF NothingBooked, TypeOK
  <2>2. CASE RowsToRollBack(p, u) # {}
    <3>1. PICK i \in RowsToRollBack(p, u) :
            /\ i \in DOMAIN creditLog /\ creditLog[i].delta \in Int
            /\ PointsTaken(p, u) = -creditLog[i].delta
            /\ Rollback(p, u) =
                 Append(Marked(i), LogRow(u, PointsTaken(p, u), "rollback", p))
      BY <1>2, <2>2, RollbackType
    <3>2. /\ creditLog[i].delta < 0 /\ ~creditLog[i].rolledBack /\ i \in RowsFor(p)
      BY <3>1 DEF RowsToRollBack, RowsFor
    <3>3. PointsTaken(p, u) \in Int /\ PointsTaken(p, u) >= 0
      BY <3>1, <3>2
    <3>4. /\ Marked(i) \in Seq(LogRows) /\ Len(Marked(i)) = Len(creditLog)
          /\ Marked(i)[i].rolledBack
          /\ \A j \in DOMAIN creditLog :
               /\ Marked(i)[j].user = creditLog[j].user
               /\ Marked(i)[j].delta = creditLog[j].delta
               /\ Marked(i)[j].penalty = creditLog[j].penalty
          /\ \A j \in DOMAIN creditLog \ {i} : Marked(i)[j] = creditLog[j]
      BY <1>2, <3>1, MarkedType
    <3>5. creditLog' = Append(Marked(i), LogRow(u, PointsTaken(p, u), "rollback", p))
      BY <1>5, <3>1
    <3>6. /\ Booked(u) /\ LastRow'.penalty = p /\ LastRow'.delta \in 0..PointsTaken(p, u)
          /\ \A j \in DOMAIN creditLog : creditLog'[j] = Marked(i)[j]
      <4>1. Writes(u, user, PointsTaken(p, u), "rollback", p, Marked(i))
        BY <1>2, <1>3, <1>5, <3>3, <3>4, <3>5 DEF Writes
      <4> QED BY <1>2, <3>3, <4>1, AppendBooks
    <3>7. /\ LastRow'.delta >= 0 /\ LastRow'.delta <= -creditLog[i].delta
          /\ creditLog'[i].rolledBack
          /\ \A j \in DOMAIN creditLog \ {i} : creditLog'[j] = creditLog[j]
      <4>1. /\ LastRow'.delta >= 0 /\ LastRow'.delta <= -creditLog[i].delta
        BY <3>1, <3>3, <3>6
      <4>2. creditLog'[i] = Marked(i)[i]
        BY <3>1, <3>6
      <4> QED BY <3>4, <3>6, <4>1, <4>2
    <3>8. GivenBack(p)
      BY <1>2, <3>2, <3>6, <3>7 DEF GivenBack
    <3> QED BY <1>2, <3>6, <3>8
  <2> QED BY <2>1, <2>2
<1> QED BY <1>1, <1>4, <1>5

LEMMA RowsKept ==
    ASSUME TypeOK, Next
    PROVE  /\ DOMAIN penalties \subseteq DOMAIN penalties'
           /\ \A p \in DOMAIN penalties : SameCase(penalties'[p], penalties[p])
<1> DEFINE Kept == /\ DOMAIN penalties \subseteq DOMAIN penalties'
                   /\ \A p \in DOMAIN penalties : SameCase(penalties'[p], penalties[p])
<1> SUFFICES Kept
    OBVIOUS
<1>1. ASSUME NEW m \in Moderators, NEW p \in PenaltyIds, Uphold(m, p) \/ Ban(m, p)
      PROVE  Kept
  <2>1. PICK u \in Students, r \in Reports \cup {NoReport}, step \in Steps :
          Punish(u, r, p, step)
    BY <1>1, Imposed DEF TypeOK
  <2>2. /\ DOMAIN penalties' = DOMAIN penalties \cup {p}
        /\ \A x \in DOMAIN penalties : penalties'[x] = penalties[x]
    BY <2>1, PunishType
  <2> QED BY <2>2 DEF SameCase
<1>2. ASSUME Relabelled PROVE Kept
    BY <1>2 DEF Relabelled
<1>3. ASSUME UNCHANGED penalties PROVE Kept
    BY <1>3 DEF SameCase
<1> HIDE DEF Kept
<1>4. CASE \/ \E m \in Moderators : RevokeLifted(m) \/ ApproveAppeal(m) \/ RejectAppeal(m)
           \/ \E a \in AppealIds : FileAppeal(a)
           \/ \E p \in PenaltyIds : SweepMark(p)
    BY <1>2, <1>4, Relabels
<1>5. CASE \/ Tick \/ SweepScan \/ SweepCrash
           \/ \E r \in Reports : FileReport(r)
           \/ \E u \in Students : EarnBonus(u)
           \/ \E a \in AppealIds, p \in PenaltyIds : CheckAppeal(a, p)
           \/ \E p \in PenaltyIds : SweepClear(p)
  <2>1. UNCHANGED penalties
    BY <1>5 DEF Tick, SweepScan, SweepCrash, FileReport, EarnBonus, CheckAppeal, SweepClear
  <2> QED BY <1>3, <2>1
<1>6. CASE \E m \in Moderators :
              \/ \E r \in Reports : CheckAccept(m, r)
              \/ \E r \in Reports, what \in Rulings \cup {Simply("invalid")} :
                    CheckRuling(m, r, what)
              \/ \E u \in Students, what \in Bans : BeginBan(m, u, what)
              \/ \E a \in AppealIds, verdict \in {"approved", "rejected"} :
                    CheckReview(m, a, verdict)
              \/ Accept(m) \/ Dismiss(m) \/ BeginRuling(m)
              \/ \E u \in Students, type \in Unbans : LiftBan(m, u, type)
  <2>1. UNCHANGED penalties
    BY <1>6 DEF CheckAccept, CheckRuling, BeginBan, CheckReview, Accept, Dismiss,
                BeginRuling, LiftBan
  <2> QED BY <1>3, <2>1
<1> QED BY <1>1, <1>4, <1>5, <1>6, NextKinds

\* A step books one row of one user, or nothing at all; in terms of penalties, the row is
\* a bonus, the deduction of a new penalty or what is given back of an old one.
LEMMA CreditSteps ==
    ASSUME TypeOK, Next
    PROVE  /\ NothingBooked \/ \E u \in Students : Booked(u)
           /\ Deducts =>
                \/ NothingBooked
                \/ /\ LogGrows
                   /\ \/ /\ LastRow'.penalty = Null
                         /\ \A i \in DOMAIN creditLog : creditLog'[i] = creditLog[i]
                      \/ \E p \in PenaltyIds : Deducted(p)
                      \/ \E p \in DOMAIN penalties : GivenBack(p)
           /\ DOMAIN penalties \subseteq DOMAIN penalties'
<1>0. DOMAIN penalties \subseteq DOMAIN penalties'
    BY RowsKept
<1>1. ASSUME UNCHANGED creditLog,
             \/ UNCHANGED users
             \/ \E m \in Moderators, u \in Students, type \in Unbans : LiftBan(m, u, type)
             \/ \E p \in PenaltyIds : SweepClear(p)
      PROVE  NothingBooked
  <2>1. ASSUME NEW m \in Moderators, NEW u \in Students, NEW type \in Unbans,
               LiftBan(m, u, type)
        PROVE  \A v \in Students : users'[v].score = users[v].score
    BY <2>1 DEF LiftBan, TypeOK
  <2>2. ASSUME NEW p \in PenaltyIds, SweepClear(p)
        PROVE  \A v \in Students : users'[v].score = users[v].score
    BY <2>2 DEF SweepClear, TypeOK, UserRows
  <2> QED BY <1>1, <2>1, <2>2 DEF NothingBooked
<1>2. ASSUME NEW u \in Students, EarnBonus(u)
      PROVE  /\ Booked(u) /\ LastRow'.penalty = Null
             /\ \A i \in DOMAIN creditLog : creditLog'[i] = creditLog[i]
    BY <1>2, BonusBooks
<1>3. ASSUME NEW m \in Moderators, NEW p \in PenaltyIds, Uphold(m, p) \/ Ban(m, p)
      PROVE  \/ NothingBooked
             \/ \E u \in Students : Booked(u) /\ (Deducts => Deducted(p))
  <2>1. PICK u \in Students, r \in Reports \cup {NoReport}, step \in Steps :
          Punish(u, r, p, step) /\ (Deducts => step.scoreDelta <= 0)
    BY <1>3, Imposed DEF TypeOK, Deducts
  <2>2. NothingBooked \/ (Booked(u) /\ (step.scoreDelta <= 0 => Deducted(p)))
    BY <2>1, PunishBooks
  <2> QED BY <2>1, <2>2
<1>4. ASSUME NEW m \in Moderators, ApproveAppeal(m)
      PROVE  \/ NothingBooked
             \/ \E u \in Students, p \in DOMAIN penalties : Booked(u) /\ GivenBack(p)
    BY <1>4, ApprovalBooks
<1>5. CASE \E u \in Students : EarnBonus(u)
    BY <1>0, <1>2, <1>5 DEF Booked
<1>6. CASE \E m \in Moderators, p \in PenaltyIds : Uphold(m, p) \/ Ban(m, p)
    BY <1>0, <1>3, <1>6 DEF Booked
<1>7. CASE \E m \in Moderators : ApproveAppeal(m)
    BY <1>0, <1>4, <1>7 DEF Booked
<1>8. CASE /\ UNCHANGED creditLog
           /\ \/ UNCHANGED users
              \/ \E m \in Moderators, u \in Students, type \in Unbans : LiftBan(m, u, type)
              \/ \E p \in PenaltyIds : SweepClear(p)
    BY <1>0, <1>1, <1>8
<1>9. QED
    BY <1>5, <1>6, <1>7, <1>8, NextKinds
    DEF Tick, SweepScan, SweepCrash, FileReport, CheckAccept, CheckRuling, BeginBan,
        CheckReview, Accept, Dismiss, BeginRuling, RevokeLifted, RejectAppeal, LiftBan,
        FileAppeal, CheckAppeal, SweepMark, SweepClear

LEMMA CreditInit == Init => CreditFollowsLog
<1> SUFFICES ASSUME Init, NEW u \in Students
             PROVE  users[u].score = MaxScore + PointsIn(RowsOf(u))
    BY DEF CreditFollowsLog, RowsOf
<1> DEFINE f == [i \in RowsOf(u) |-> creditLog[i].delta]
<1>1. DOMAIN f = {}
    BY DEF Init, RowsOf
<1>2. users[u].score = MaxScore
    BY DEF Init
<1> HIDE DEF f
<1>3. SumFunction(f) = 0
    BY <1>1, SumOfNone
<1> QED BY <1>2, <1>3, ModerationBounds DEF PointsIn, f

LEMMA CreditStep == TypeOK /\ CreditFollowsLog /\ [Next]_vars => CreditFollowsLog'
<1> SUFFICES ASSUME TypeOK, CreditFollowsLog, [Next]_vars, NEW v \in Students
             PROVE  users'[v].score = MaxScore + PointsIn(RowsOf(v))'
    BY DEF CreditFollowsLog, RowsOf
<1>1. users[v].score = MaxScore + PointsIn(RowsOf(v))
    BY DEF CreditFollowsLog, RowsOf
<1>2. CASE UNCHANGED vars
    BY <1>1, <1>2 DEF vars, PointsIn, RowsOf
<1>3. CASE NothingBooked
    BY <1>1, <1>3 DEF NothingBooked, PointsIn, RowsOf
<1>4. ASSUME NEW u \in Students, Booked(u)
      PROVE  users'[v].score = MaxScore + PointsIn(RowsOf(v))'
  <2> DEFINE n == Len(creditLog')
             R == RowsOf(v)
             Q == RowsOf(v)'
             d == LastRow'.delta
  <2>1. LogGrows /\ creditLog \in Seq(LogRows) /\ R \subseteq DOMAIN creditLog
    BY <1>4 DEF Booked, TypeOK, RowsOf
  <2>2. /\ Q = IF u = v THEN R \cup {n} ELSE R
        /\ n \notin R
    BY <1>4, <2>1, MoreRows DEF Booked
  <2>3. /\ PointsIn(R) \in Int
        /\ PointsIn(RowsOf(v))' = PointsIn(R) + (IF n \in Q THEN d ELSE 0)
    <3> HIDE DEF n, R, Q
    <3>1. Q = R \/ Q = R \cup {n}
      BY <2>2
    <3>2. /\ SumFunction([i \in R |-> creditLog[i].delta]) \in Int
          /\ SumFunction([i \in Q |-> creditLog'[i].delta]) =
                SumFunction([i \in R |-> creditLog[i].delta])
                  + IF n \in Q THEN LastRow'.delta ELSE 0
      BY <2>1, <3>1, MorePoints DEF n
    <3> QED BY <3>2 DEF PointsIn, Q
  <2>4. d \in Int
    <3>1. LastRow' \in LogRows
      BY <2>1, MoreRows DEF LogGrows
    <3> QED BY <3>1 DEF LogRows
  <2>5. users'[v].score = IF u = v THEN users[v].score + d ELSE users[v].score
    BY <1>4 DEF Booked
  <2> HIDE DEF n, R, d, Q
  <2>6. PointsIn(RowsOf(v))' = PointsIn(R) + (IF u = v THEN d ELSE 0)
    BY <2>2, <2>3
  <2>7. CASE u = v
    BY <1>1, <2>3, <2>4, <2>5, <2>6, <2>7, ModerationBounds DEF R, Q
  <2>8. CASE u # v
    BY <1>1, <2>3, <2>4, <2>5, <2>6, <2>8, ModerationBounds DEF R, Q
  <2> QED BY <2>7, <2>8
<1> QED BY <1>2, <1>3, <1>4, CreditSteps

\* The credit score is what the log says, through every cut-off, bonus, deduction and
\* rollback (creditService), so that it could be computed anew from credit_logs.
THEOREM ScoreIsTheLog == Spec => []CreditFollowsLog
BY CreditInit, CreditStep, ModerationTypes, PTL DEF Spec
-----------------------------------------------------------------------------
(* Rollbacks *)

\* A penalty that still has its points to give back has one row in the log, the deduction;
\* and a penalty that is not imposed yet has none.
RefundInv ==
    \A p \in PenaltyIds :
        /\ PointsIn(RowsFor(p)) <= 0
        /\ p \notin DOMAIN penalties => RowsFor(p) = {}
        /\ \A i \in RowsFor(p) :
              creditLog[i].delta < 0 /\ ~creditLog[i].rolledBack => RowsFor(p) = {i}

LEMMA RefundInit == Init => RefundInv
<1> SUFFICES ASSUME Init, NEW p \in PenaltyIds
             PROVE  PointsIn(RowsFor(p)) <= 0 /\ RowsFor(p) = {}
    BY DEF RefundInv
<1> DEFINE f == [i \in RowsFor(p) |-> creditLog[i].delta]
<1>1. RowsFor(p) = {} /\ DOMAIN f = {}
    BY DEF Init, RowsFor
<1> HIDE DEF f
<1>2. SumFunction(f) = 0
    BY <1>1, SumOfNone
<1> QED BY <1>1, <1>2 DEF PointsIn, f

\* The points of a single row.
LEMMA PointsOfOne ==
    ASSUME NEW i, creditLog[i].delta \in Int
    PROVE  PointsIn({i}) = creditLog[i].delta
<1> DEFINE f == [j \in {} |-> creditLog[j].delta]
           g == [j \in {i} |-> creditLog[j].delta]
<1>1. /\ IsFiniteSet(DOMAIN f) /\ \A y \in DOMAIN f : f[y] \in Int
      /\ i \notin DOMAIN f /\ DOMAIN g = DOMAIN f \cup {i} /\ g[i] \in Int
      /\ \A y \in DOMAIN f : g[y] = f[y]
      /\ DOMAIN f = {} /\ g[i] = creditLog[i].delta
    BY FS_EmptySet
<1> HIDE DEF f, g
<1>2. SumFunction(g) = SumFunction(f) + g[i] /\ SumFunction(f) = 0
    BY <1>1, SumGrows, SumOfNone
<1> QED BY <1>1, <1>2 DEF PointsIn, g

LEMMA RefundStep == ASSUME Deducts PROVE TypeOK /\ RefundInv /\ [Next]_vars => RefundInv'
<1> SUFFICES ASSUME TypeOK, RefundInv, [Next]_vars, NEW q \in PenaltyIds
             PROVE  /\ PointsIn(RowsFor(q))' <= 0
                    /\ q \notin DOMAIN penalties' => RowsFor(q)' = {}
                    /\ \A i \in RowsFor(q)' :
                          creditLog'[i].delta < 0 /\ ~creditLog'[i].rolledBack
                            => RowsFor(q)' = {i}
    BY DEF RefundInv
<1> DEFINE n == Len(creditLog')
           R == RowsFor(q)
           Q == RowsFor(q)'
           d == LastRow'.delta
<1>1. /\ PointsIn(R) <= 0
      /\ q \notin DOMAIN penalties => R = {}
      /\ \A i \in R : creditLog[i].delta < 0 /\ ~creditLog[i].rolledBack => R = {i}
    BY DEF RefundInv
<1>2. CASE UNCHANGED vars
    BY <1>1, <1>2 DEF vars, PointsIn, RowsFor
<1>3. CASE Next /\ NothingBooked
  <2>1. DOMAIN penalties \subseteq DOMAIN penalties' /\ UNCHANGED creditLog
    BY <1>3, CreditSteps DEF NothingBooked
  <2> QED BY <1>1, <2>1 DEF PointsIn, RowsFor
<1>4. ASSUME LogGrows
      PROVE  /\ Q = IF LastRow'.penalty = q THEN R \cup {n} ELSE R
             /\ n \notin R /\ n \notin DOMAIN creditLog /\ creditLog'[n] = LastRow'
             /\ R \subseteq DOMAIN creditLog /\ PointsIn(R) \in Int /\ d \in Int
             /\ PointsIn(RowsFor(q))' = PointsIn(R) + (IF LastRow'.penalty = q THEN d ELSE 0)
             /\ \A i \in R : creditLog[i].delta \in Int /\ creditLog'[i].delta = creditLog[i].delta
  <2>1. LogGrows /\ creditLog \in Seq(LogRows) /\ R \subseteq DOMAIN creditLog
    BY <1>4 DEF TypeOK, RowsFor
  <2>2. /\ Q = IF LastRow'.penalty = q THEN R \cup {n} ELSE R
        /\ n \notin R /\ n \notin DOMAIN creditLog /\ creditLog'[n] = LastRow'
    BY <2>1, MoreRows
  <2>3. d \in Int
    <3>1. LastRow' \in LogRows
      BY <2>1, MoreRows DEF LogGrows
    <3> QED BY <3>1 DEF LogRows
  <2>4. \A i \in R : creditLog[i].delta \in Int /\ creditLog'[i].delta = creditLog[i].delta
    <3>1. \A i \in DOMAIN creditLog : creditLog[i] \in LogRows
      BY <2>1
    <3> HIDE DEF R
    <3> QED BY <2>1, <3>1 DEF LogGrows, LogRows
  <2> HIDE DEF n, R, Q
  <2>5. Q = R \/ Q = R \cup {n}
    BY <2>2
  <2>6. /\ SumFunction([i \in R |-> creditLog[i].delta]) \in Int
        /\ SumFunction([i \in Q |-> creditLog'[i].delta]) =
                SumFunction([i \in R |-> creditLog[i].delta])
                  + IF n \in Q THEN LastRow'.delta ELSE 0
    BY <2>1, <2>5, MorePoints DEF n
  <2>7. /\ PointsIn(R) \in Int
        /\ PointsIn(RowsFor(q))' = PointsIn(R) + (IF n \in Q THEN d ELSE 0)
    BY <2>6 DEF PointsIn, Q
  <2> QED BY <2>1, <2>2, <2>3, <2>4, <2>7
\* A row of another penalty, or of none.
<1>5. ASSUME LogGrows, LastRow'.penalty # q,
             \A i \in R : creditLog'[i] = creditLog[i],
             DOMAIN penalties \subseteq DOMAIN penalties'
      PROVE  /\ PointsIn(RowsFor(q))' <= 0
             /\ q \notin DOMAIN penalties' => Q = {}
             /\ \A i \in Q : creditLog'[i].delta < 0 /\ ~creditLog'[i].rolledBack => Q = {i}
  <2>1. Q = R /\ PointsIn(R) \in Int /\ PointsIn(RowsFor(q))' = PointsIn(R) + 0
    BY <1>4, <1>5
  <2> HIDE DEF R, Q
  <2> QED BY <1>1, <1>5, <2>1
<1>6. ASSUME LogGrows, LastRow'.penalty = Null,
             \A i \in DOMAIN creditLog : creditLog'[i] = creditLog[i],
             DOMAIN penalties \subseteq DOMAIN penalties'
      PROVE  /\ PointsIn(RowsFor(q))' <= 0
             /\ q \notin DOMAIN penalties' => Q = {}
             /\ \A i \in Q : creditLog'[i].delta < 0 /\ ~creditLog'[i].rolledBack => Q = {i}
  <2>1. LastRow'.penalty # q /\ \A i \in R : creditLog'[i] = creditLog[i]
    BY <1>4, <1>6, IdsAssumption
  <2> HIDE DEF R, Q
  <2> QED BY <1>5, <1>6, <2>1
<1>7. ASSUME LogGrows, NEW p \in PenaltyIds, Deducted(p)
      PROVE  /\ PointsIn(RowsFor(q))' <= 0
             /\ q \notin DOMAIN penalties' => Q = {}
             /\ \A i \in Q : creditLog'[i].delta < 0 /\ ~creditLog'[i].rolledBack => Q = {i}
  <2>1. CASE p # q
    <3>1. /\ LastRow'.penalty # q /\ \A i \in R : creditLog'[i] = creditLog[i]
          /\ DOMAIN penalties \subseteq DOMAIN penalties'
      BY <1>4, <1>7, <2>1 DEF Deducted
    <3> HIDE DEF R, Q
    <3> QED BY <1>5, <1>7, <3>1
  <2>2. CASE p = q
    <3>1. /\ R = {} /\ LastRow'.penalty = q /\ d <= 0 /\ q \in DOMAIN penalties'
      BY <1>1, <1>7, <2>2 DEF Deducted
    <3>2. /\ Q = {n} /\ PointsIn(RowsFor(q))' = PointsIn(R) + d
          /\ PointsIn(R) \in Int /\ d \in Int
      BY <1>4, <1>7, <3>1
    <3> HIDE DEF R, Q, n, d
    <3> QED BY <1>1, <3>1, <3>2
  <2> QED BY <2>1, <2>2
<1>8. ASSUME LogGrows, NEW p \in DOMAIN penalties, GivenBack(p)
      PROVE  /\ PointsIn(RowsFor(q))' <= 0
             /\ q \notin DOMAIN penalties' => Q = {}
             /\ \A i \in Q : creditLog'[i].delta < 0 /\ ~creditLog'[i].rolledBack => Q = {i}
  <2>1. PICK i \in RowsFor(p) :
          /\ creditLog[i].delta < 0 /\ ~creditLog[i].rolledBack
          /\ LastRow'.delta <= -creditLog[i].delta
          /\ creditLog'[i].rolledBack
          /\ \A j \in DOMAIN creditLog \ {i} : creditLog'[j] = creditLog[j]
    BY <1>8 DEF GivenBack
  <2>2. CASE p # q
    <3>1. /\ LastRow'.penalty # q /\ DOMAIN penalties \subseteq DOMAIN penalties'
          /\ i \notin R
      BY <1>8, <2>2 DEF GivenBack, RowsFor
    <3>2. \A j \in R : creditLog'[j] = creditLog[j]
      BY <1>4, <1>8, <2>1, <3>1
    <3> HIDE DEF R, Q
    <3> QED BY <1>5, <1>8, <3>1, <3>2
  <2>3. CASE p = q
    <3>1. R = {i} /\ PointsIn(R) = creditLog[i].delta
      <4>1. R = {i}
        BY <1>1, <2>1, <2>3
      <4>2. creditLog[i].delta \in Int
        BY <1>4, <1>8, <4>1
      <4> HIDE DEF R
      <4> QED BY <4>1, <4>2, PointsOfOne
    <3>2. /\ LastRow'.penalty = q /\ d >= 0 /\ q \in DOMAIN penalties'
          /\ d <= -creditLog[i].delta
      BY <1>8, <2>1, <2>3 DEF GivenBack
    <3>3. /\ Q = R \cup {n} /\ PointsIn(RowsFor(q))' = PointsIn(R) + d /\ d \in Int
          /\ creditLog'[n] = LastRow' /\ creditLog[i].delta \in Int
      BY <1>4, <1>8, <3>1, <3>2
    <3>4. \A j \in Q : ~(creditLog'[j].delta < 0 /\ ~creditLog'[j].rolledBack)
      <4>1. ~(creditLog'[n].delta < 0)
        BY <3>2, <3>3
      <4>2. \A j \in Q : j = i \/ j = n
        BY <3>1, <3>3
      <4> HIDE DEF R, Q, n, d
      <4> QED BY <2>1, <4>1, <4>2
    <3>5. PointsIn(RowsFor(q))' <= 0
      <4> HIDE DEF R, Q, n, d
      <4> QED BY <3>1, <3>2, <3>3
    <3> HIDE DEF R, Q, n, d
    <3> QED BY <3>2, <3>4, <3>5
  <2> QED BY <2>2, <2>3
<1>9. ASSUME Next, LogGrows,
             \/ /\ LastRow'.penalty = Null
                /\ \A i \in DOMAIN creditLog : creditLog'[i] = creditLog[i]
             \/ \E p \in PenaltyIds : Deducted(p)
             \/ \E p \in DOMAIN penalties : GivenBack(p)
      PROVE  /\ PointsIn(RowsFor(q))' <= 0
             /\ q \notin DOMAIN penalties' => Q = {}
             /\ \A i \in Q : creditLog'[i].delta < 0 /\ ~creditLog'[i].rolledBack => Q = {i}
  <2>1. DOMAIN penalties \subseteq DOMAIN penalties'
    BY <1>9, CreditSteps
  <2> HIDE DEF Q
  <2> QED BY <1>6, <1>7, <1>8, <1>9, <2>1
<1>10. CASE Next /\ ~NothingBooked
  <2>1. /\ LogGrows
        /\ \/ /\ LastRow'.penalty = Null
              /\ \A i \in DOMAIN creditLog : creditLog'[i] = creditLog[i]
           \/ \E p \in PenaltyIds : Deducted(p)
           \/ \E p \in DOMAIN penalties : GivenBack(p)
    BY <1>10, CreditSteps
  <2> QED BY <1>9, <1>10, <2>1
<1> QED BY <1>2, <1>3, <1>10

\* A deduction is given back once at most and without a surplus, on a ladder whose steps
\* only ever deduct, as the seeded penalty.escalation does (revoke, rollback).
THEOREM RefundsAreBounded == ASSUME Deducts PROVE Spec => []NeverGivesBackMore
<1>1. TypeOK /\ RefundInv => NeverGivesBackMore
    BY DEF TypeOK, PenaltiesOK, RefundInv, NeverGivesBackMore, RowsFor
<1> QED BY <1>1, RefundInit, RefundStep, ModerationTypes, PTL DEF Spec
-----------------------------------------------------------------------------
(* Requests that never meet *)

OneDesk == \A m \in DOMAIN desk : \A k \in DOMAIN desk : m = k

\* What a step does to the desk.
DeskEmptied ==
    /\ DOMAIN desk' = {} \/ ~OneDesk
    /\ \A m \in DOMAIN desk' : m \in DOMAIN desk /\ desk'[m] = desk[m]

DeskTaken(m, op, on, what) ==
    /\ DOMAIN desk = {} \/ ~OneDesk'
    /\ m \in DOMAIN desk' /\ desk'[m].op = op /\ desk'[m].on = on /\ desk'[m].what = what
    /\ \A x \in DOMAIN desk' \ {m} : x \in DOMAIN desk /\ desk'[x] = desk[x]

LEMMA FinishEmpties ==
    ASSUME TypeOK, NEW m, NEW op, Finish(m, op)
    PROVE  DeskEmptied /\ desk[m] \in Tasks /\ TaskOK(desk[m]) /\ m \in DOMAIN desk
           /\ desk[m].op = op
BY FinishType DEF DeskEmptied, OneDesk, TypeOK

LEMMA TakeTakes ==
    ASSUME NEW m, NEW op, NEW on, NEW what, NEW count, Take(m, op, on, what, count)
    PROVE  DeskTaken(m, op, on, what)
<1>1. /\ m \notin DOMAIN desk /\ DOMAIN desk' = DOMAIN desk \cup {m}
      /\ desk'[m] = [op |-> op, on |-> on, what |-> what, count |-> count]
      /\ \A x \in DOMAIN desk : desk'[x] = desk[x]
    BY DEF Take
<1>2. desk'[m].op = op /\ desk'[m].on = on /\ desk'[m].what = what
    BY <1>1
<1>3. DOMAIN desk = {} \/ ~OneDesk'
  <2>1. ASSUME NEW k \in DOMAIN desk PROVE k \in DOMAIN desk' /\ m \in DOMAIN desk' /\ k # m
    BY <1>1, <2>1
  <2> QED BY <2>1 DEF OneDesk
<1>4. \A x \in DOMAIN desk' \ {m} : x \in DOMAIN desk /\ desk'[x] = desk[x]
    BY <1>1
<1> QED BY <1>1, <1>2, <1>3, <1>4 DEF DeskTaken

\* As long as no two requests meet there is one at most.
LEMMA StillAlone ==
    ASSUME TypeOK, [Next]_vars, ~met => OneDesk
    PROVE  ~met' => ~met /\ OneDesk /\ OneDesk'
<1>1. CASE UNCHANGED vars
    BY <1>1 DEF vars, OneDesk
<1>2. ASSUME Next, ~met', NEW m \in DOMAIN desk', NEW k \in DOMAIN desk', m # k
      PROVE  FALSE
  <2>1. IsFiniteSet(DOMAIN desk')
    BY <1>2, TypeStep DEF TypeOK, DeskOK
  <2>2. Cardinality({m} \cup {k}) = 2 /\ IsFiniteSet({m} \cup {k})
    <3>1. IsFiniteSet({m}) /\ Cardinality({m}) = 1
      BY FS_Singleton
    <3> QED BY <1>2, <3>1, FS_AddElement
  <2>3. {m} \cup {k} \in SUBSET DOMAIN desk'
    BY <1>2
  <2>4. 2 <= Cardinality(DOMAIN desk')
    BY <2>1, <2>2, <2>3, FS_Subset
  <2>5. ~(Cardinality(DOMAIN desk') > 1) /\ Cardinality(DOMAIN desk') \in Nat
    BY <1>2, <2>1, FS_CardinalityType DEF Next, Histories
  <2> QED BY <2>4, <2>5
<1>3. CASE Next
  <2>1. met \/ Cardinality(DOMAIN desk') > 1 <=> met'
    BY <1>3 DEF Next, Histories
  <2> QED BY <1>2, <1>3, <2>1 DEF OneDesk
<1> QED BY <1>1, <1>3
-----------------------------------------------------------------------------
(* Rulings *)

\* A decided report is only worked on by requests that the decision overtook,
\* and the penalties it has led to are paid for by such requests, but for the
\* one that decided it.
Ruled(r) ==
    /\ Cardinality(PenaltiesFor(r))
         <= late[r] + IF reports[r].status = "decided" THEN 1 ELSE 0
    /\ reports[r].status = "decided" => \A m : OnReport(m, r) => m \in behind
    /\ PenaltiesFor(r) # {} /\ reports[r].decision # "valid" => late[r] > 0

RuleInv == \A r \in Reports : Ruled(r)

LEMMA PenaltiesCount ==
    ASSUME TypeOK, NEW r
    PROVE  IsFiniteSet(PenaltiesFor(r)) /\ Cardinality(PenaltiesFor(r)) \in Nat
<1>1. PenaltiesFor(r) \subseteq DOMAIN penalties /\ IsFiniteSet(DOMAIN penalties)
    BY DEF PenaltiesFor, TypeOK, PenaltiesOK
<1> QED BY <1>1, FS_Subset, FS_CardinalityType

\* What a step adds to the histories of one report.
LEMMA HistoriesOf ==
    ASSUME TypeOK, Next, NEW r \in Reports
    PROVE  /\ late[r] \in Nat /\ late'[r] \in Nat /\ late'[r] >= late[r]
           /\ \A m \in behind \ DOMAIN desk' : OnReport(m, r) => late'[r] = late[r] + 1
           /\ \A m \in DOMAIN desk' \cap behind : m \in behind'
           /\ \A m \in DOMAIN desk' : OnReport(m, r) /\ DecidedNow(r) => m \in behind'
<1>1. /\ late \in [Reports -> Nat]
      /\ late' = [x \in Reports |->
                    late[x] + IF \E m \in behind \ DOMAIN desk' : OnReport(m, x)
                              THEN 1 ELSE 0]
      /\ behind' = {m \in DOMAIN desk' :
                     m \in behind \/ \E x \in Reports : DecidedNow(x) /\ OnReport(m, x)}
    BY DEF TypeOK, Next, Histories
<1> HIDE DEF OnReport, DecidedNow
<1>2. late'[r] = late[r] + IF \E m \in behind \ DOMAIN desk' : OnReport(m, r)
                           THEN 1 ELSE 0
    BY <1>1
<1>3. late[r] \in Nat
    BY <1>1
<1>4. /\ late'[r] \in Nat /\ late'[r] >= late[r]
      /\ \A m \in behind \ DOMAIN desk' : OnReport(m, r) => late'[r] = late[r] + 1
    BY <1>2, <1>3
<1>5. /\ \A m \in DOMAIN desk' \cap behind : m \in behind'
      /\ \A m \in DOMAIN desk' : OnReport(m, r) /\ DecidedNow(r) => m \in behind'
    BY <1>1
<1> QED BY <1>3, <1>4, <1>5

\* A report that a step leaves alone, or brings a request to while it is open.
LEMMA RuledStays ==
    ASSUME TypeOK, Next, NEW r \in Reports, Ruled(r),
           reports'[r] = reports[r], PenaltiesFor(r)' = PenaltiesFor(r),
           \A m : OnReport(m, r)' =>
                     OnReport(m, r) \/ reports[r].status # "decided"
    PROVE  Ruled(r)'
<1> DEFINE n == Cardinality(PenaltiesFor(r))
<1>1. n' = n /\ n \in Nat
    BY PenaltiesCount
<1>2. late[r] \in Nat /\ late'[r] \in Nat /\ late'[r] >= late[r]
    BY HistoriesOf
<1>3. n <= late[r] + IF reports[r].status = "decided" THEN 1 ELSE 0
    BY DEF Ruled
<1> HIDE DEF n
<1>4. n' <= late'[r] + IF reports'[r].status = "decided" THEN 1 ELSE 0
    BY <1>1, <1>2, <1>3
<1>5. ASSUME reports'[r].status = "decided", NEW m, OnReport(m, r)'
      PROVE  m \in behind'
  <2>1. OnReport(m, r) /\ m \in behind
    BY <1>5 DEF Ruled
  <2>2. m \in DOMAIN desk'
    BY <1>5 DEF OnReport
  <2> QED BY <2>1, <2>2, HistoriesOf
<1>6. PenaltiesFor(r)' # {} /\ reports'[r].decision # "valid" => late'[r] > 0
    BY <1>2 DEF Ruled
<1> QED BY <1>4, <1>5, <1>6 DEF Ruled, n

\* A request takes a report up again: it was overtaken if the report is decided.
LEMMA RuledAccept ==
    ASSUME TypeOK, Next, NEW r \in Reports, Ruled(r), NEW m,
           OnReport(m, r), m \notin DOMAIN desk',
           reports'[r].status = "proving",
           reports'[r].decision = reports[r].decision,
           PenaltiesFor(r)' = PenaltiesFor(r)
    PROVE  Ruled(r)'
<1> DEFINE n == Cardinality(PenaltiesFor(r))
<1>1. n' = n /\ n \in Nat
    BY PenaltiesCount
<1>2. /\ late[r] \in Nat /\ late'[r] \in Nat /\ late'[r] >= late[r]
      /\ m \in behind => late'[r] = late[r] + 1
    BY HistoriesOf
<1>3. n <= late[r] + IF reports[r].status = "decided" THEN 1 ELSE 0
    BY DEF Ruled
<1>4. reports[r].status = "decided" => m \in behind
    BY DEF Ruled
<1> HIDE DEF n
<1>5. n' <= late'[r]
  <2>1. CASE reports[r].status = "decided"
    BY <1>1, <1>2, <1>3, <1>4, <2>1
  <2>2. CASE reports[r].status # "decided"
    BY <1>1, <1>2, <1>3, <2>2
  <2> QED BY <2>1, <2>2
<1>6. PenaltiesFor(r)' # {} /\ reports'[r].decision # "valid" => late'[r] > 0
    BY <1>2 DEF Ruled
<1> QED BY <1>1, <1>2, <1>5, <1>6 DEF Ruled, n

\* A decision is committed, with one penalty at most.
LEMMA RuledDecides ==
    ASSUME TypeOK, Next, NEW r \in Reports, Ruled(r), NEW m \in Moderators,
           OnReport(m, r), desk[m].op # "accept", m \notin DOMAIN desk',
           reports'[r].status = "decided",
           \A x \in DOMAIN desk' : x \in DOMAIN desk /\ desk'[x] = desk[x],
           \/ PenaltiesFor(r)' = PenaltiesFor(r)
           \/ /\ reports'[r].decision = "valid"
              /\ \E p : p \notin PenaltiesFor(r)
                        /\ PenaltiesFor(r)' = PenaltiesFor(r) \cup {p}
    PROVE  Ruled(r)'
<1> DEFINE n == Cardinality(PenaltiesFor(r))
<1>1. n \in Nat /\ n' \in Nat /\ n' <= n + 1
  <2>1. IsFiniteSet(PenaltiesFor(r)) /\ n \in Nat
    BY PenaltiesCount
  <2>2. CASE PenaltiesFor(r)' = PenaltiesFor(r)
    BY <2>1, <2>2
  <2>3. ASSUME NEW p, p \notin PenaltiesFor(r), PenaltiesFor(r)' = PenaltiesFor(r) \cup {p}
        PROVE  n' = n + 1
    <3>1. \A S, x : IsFiniteSet(S) /\ x \notin S
                       => Cardinality(S \cup {x}) = Cardinality(S) + 1
      BY FS_AddElement
    <3>2. Cardinality(PenaltiesFor(r) \cup {p}) = n + 1
      BY <2>1, <2>3, <3>1
    <3> QED BY <2>3, <3>2
  <2> QED BY <2>1, <2>2, <2>3
<1>2. /\ late[r] \in Nat /\ late'[r] \in Nat /\ late'[r] >= late[r]
      /\ m \in behind => late'[r] = late[r] + 1
    BY HistoriesOf
<1>3. n <= late[r] + IF reports[r].status = "decided" THEN 1 ELSE 0
    BY DEF Ruled
<1>4. reports[r].status = "decided" => m \in behind
    BY DEF Ruled
<1>n. n = 0 <=> PenaltiesFor(r) = {}
    BY PenaltiesCount, FS_EmptySet
<1> HIDE DEF n
<1>5. n' <= late'[r] + 1 /\ (n > 0 => late'[r] > 0)
  <2>1. CASE reports[r].status = "decided"
    BY <1>1, <1>2, <1>3, <1>4, <2>1
  <2>2. CASE reports[r].status # "decided"
    BY <1>1, <1>2, <1>3, <2>2
  <2> QED BY <2>1, <2>2
<1>6. PenaltiesFor(r)' # {} /\ reports'[r].decision # "valid" => late'[r] > 0
    BY <1>1, <1>5, <1>n
<1>7. ASSUME NEW x, OnReport(x, r)' PROVE x \in behind'
  <2>1. x \in DOMAIN desk' /\ OnReport(x, r)
    BY <1>7 DEF OnReport
  <2>2. DecidedNow(r)
    BY DEF DecidedNow
  <2> QED BY <2>1, <2>2, HistoriesOf
<1> QED BY <1>5, <1>6, <1>7 DEF Ruled, n

LEMMA RuleStep == TypeOK /\ RuleInv /\ [Next]_vars => RuleInv'
<1> SUFFICES ASSUME TypeOK, RuleInv, Next PROVE RuleInv'
  <2>1. RuleInv /\ UNCHANGED vars => RuleInv'
    BY DEF vars, RuleInv, Ruled, PenaltiesFor, OnReport
  <2> QED BY <2>1
<1> SUFFICES ASSUME NEW r \in Reports PROVE Ruled(r)'
    BY DEF RuleInv
<1>a. Ruled(r)
    BY DEF RuleInv
<1>0. ASSUME UNCHANGED penalties \/ Relabelled
      PROVE  PenaltiesFor(r)' = PenaltiesFor(r)
    BY <1>0 DEF PenaltiesFor, Relabelled, SameCase
<1>1. CASE UNCHANGED <<reports, penalties, desk>>
    BY <1>a, <1>0, <1>1, RuledStays DEF OnReport
<1>2. ASSUME NEW m \in Moderators, NEW op, NEW on, NEW what,
             DeskTaken(m, op, on, what), UNCHANGED <<reports, penalties>>,
             \/ op \notin {"accept", "rule", "ruling"}
             \/ reports[on].status \in {"pending", "proving"}
      PROVE  Ruled(r)'
  <2>1. ASSUME NEW x, OnReport(x, r)'
        PROVE  OnReport(x, r) \/ reports[r].status # "decided"
    <3>1. CASE x = m
      BY <1>2, <2>1, <3>1 DEF DeskTaken, OnReport
    <3>2. CASE x # m
      BY <1>2, <2>1, <3>2 DEF DeskTaken, OnReport
    <3> QED BY <3>1, <3>2
  <2> QED BY <1>a, <1>0, <1>2, <2>1, RuledStays
<1>3. CASE \E m \in Moderators :
              \/ \E q \in Reports : CheckAccept(m, q)
              \/ \E q \in Reports, what \in Rulings \cup {Simply("invalid")} :
                    CheckRuling(m, q, what)
              \/ \E u \in Students, what \in Bans : BeginBan(m, u, what)
              \/ \E a \in AppealIds, verdict \in {"approved", "rejected"} :
                    CheckReview(m, a, verdict)
              \/ \E u \in Students, type \in Unbans : LiftBan(m, u, type)
  <2>1. ASSUME NEW m \in Moderators, NEW q \in Reports, CheckAccept(m, q) PROVE Ruled(r)'
    BY <1>2, <2>1, TakeTakes DEF CheckAccept
  <2>2. ASSUME NEW m \in Moderators, NEW q \in Reports,
               NEW what \in Rulings \cup {Simply("invalid")}, CheckRuling(m, q, what)
        PROVE Ruled(r)'
    BY <1>2, <2>2, TakeTakes DEF CheckRuling, MayRule
  <2>3. ASSUME NEW m \in Moderators, NEW u \in Students, NEW what \in Bans,
               BeginBan(m, u, what)
        PROVE Ruled(r)'
    BY <1>2, <2>3, TakeTakes DEF BeginBan
  <2>4. ASSUME NEW m \in Moderators, NEW a \in AppealIds, NEW verdict \in {"approved", "rejected"},
               CheckReview(m, a, verdict)
        PROVE Ruled(r)'
    BY <1>2, <2>4, TakeTakes DEF CheckReview
  <2>5. ASSUME NEW m \in Moderators, NEW u \in Students, NEW type \in Unbans,
               LiftBan(m, u, type)
        PROVE Ruled(r)'
    BY <1>2, <2>5, TakeTakes DEF LiftBan
  <2> QED BY <1>3, <2>1, <2>2, <2>3, <2>4, <2>5
<1>4. ASSUME NEW q \in Reports, FileReport(q) PROVE Ruled(r)'
  <2>1. /\ reports[q].status = "unfiled" /\ UNCHANGED <<penalties, desk>>
        /\ reports' = [reports EXCEPT ![q].status = "pending"]
    BY <1>4 DEF FileReport
  <2>2. CASE q # r
    <3>1. reports'[r] = reports[r]
      BY <2>1, <2>2 DEF TypeOK, ReportsOK
    <3> QED BY <1>a, <1>0, <2>1, <3>1, RuledStays DEF OnReport
  <2>3. CASE q = r
    <3>1. /\ reports'[r].status = "pending" /\ reports'[r].decision = reports[r].decision
      BY <2>1, <2>3 DEF TypeOK, ReportsOK
    <3>2. PenaltiesFor(r)' = PenaltiesFor(r) /\ Cardinality(PenaltiesFor(r)) \in Nat
      BY <1>0, <2>1, PenaltiesCount
    <3>3. Cardinality(PenaltiesFor(r)) <= late[r] /\ late[r] \in Nat
      BY <1>a, <2>1, <2>3 DEF Ruled, TypeOK
    <3>4. late'[r] \in Nat /\ late'[r] >= late[r]
      BY HistoriesOf
    <3>5. Cardinality(PenaltiesFor(r)') <= late'[r]
      BY <3>2, <3>3, <3>4
    <3>6. PenaltiesFor(r)' # {} /\ reports'[r].decision # "valid" => late'[r] > 0
      BY <1>a, <3>1, <3>2, <3>3, <3>4 DEF Ruled
    <3> QED BY <3>1, <3>4, <3>5, <3>6 DEF Ruled
  <2> QED BY <2>2, <2>3
<1>5. ASSUME NEW m \in Moderators, Accept(m) \/ Dismiss(m) PROVE Ruled(r)'
  <2> DEFINE q == desk[m].on
  <2>1. /\ DeskEmptied /\ TaskOK(desk[m]) /\ m \in DOMAIN desk
        /\ desk[m].op = IF Accept(m) THEN "accept" ELSE "rule"
        /\ m \notin DOMAIN desk'
    <3>1. Finish(m, IF Accept(m) THEN "accept" ELSE "rule") /\ DeskOK
      BY <1>5 DEF Accept, Dismiss, TypeOK
    <3>2. m \notin DOMAIN desk'
      BY <3>1, FinishType
    <3> QED BY <3>1, <3>2, FinishEmpties
  <2>2. q \in Reports /\ OnReport(m, q)
    BY <2>1 DEF TaskOK, OnReport
  <2>3. UNCHANGED penalties /\ \A x \in Reports \ {q} : reports'[x] = reports[x]
    BY <1>5, <2>2 DEF Accept, Dismiss, TypeOK, ReportsOK
  <2>4. CASE q # r
    <3>1. \A x : OnReport(x, r)' => OnReport(x, r)
      BY <2>1 DEF DeskEmptied, OnReport
    <3> QED BY <1>a, <1>0, <2>3, <2>4, <3>1, RuledStays
  <2>5. CASE q = r /\ Accept(m)
    <3>1. reports'[r].status = "proving" /\ reports'[r].decision = reports[r].decision
      BY <2>2, <2>5 DEF Accept, TypeOK, ReportsOK
    <3> QED BY <1>a, <1>0, <2>1, <2>2, <2>3, <2>5, <3>1, RuledAccept
  <2>6. CASE q = r /\ ~Accept(m)
    <3>1. reports'[r].status = "decided"
      BY <1>5, <2>2, <2>6 DEF Dismiss, TypeOK, ReportsOK
    <3>2. desk[m].op # "accept"
      BY <2>1, <2>6
    <3>3. \A x \in DOMAIN desk' : x \in DOMAIN desk /\ desk'[x] = desk[x]
      BY <2>1 DEF DeskEmptied
    <3> QED BY <1>a, <1>0, <2>1, <2>2, <2>3, <2>6, <3>1, <3>2, <3>3, RuledDecides
  <2> QED BY <2>4, <2>5, <2>6
<1>6. ASSUME NEW m \in Moderators, BeginRuling(m) PROVE Ruled(r)'
  <2>1. /\ UNCHANGED <<reports, penalties>> /\ DOMAIN desk' = DOMAIN desk
        /\ desk[m].op = "rule" /\ m \in DOMAIN desk
        /\ desk' = [desk EXCEPT ![m].op = "ruling",
                                ![m].count = CountWith(TargetOf[desk[m].on])]
    BY <1>6 DEF BeginRuling
  <2>2. desk[m] \in Tasks
    BY <2>1 DEF TypeOK, DeskOK
  <2>3. /\ desk'[m].on = desk[m].on
        /\ \A x \in DOMAIN desk' \ {m} : desk'[x] = desk[x]
    BY <2>1, <2>2 DEF Tasks
  <2>4. \A x : OnReport(x, r)' => OnReport(x, r)
    BY <2>1, <2>3 DEF OnReport
  <2> QED BY <1>a, <1>0, <2>1, <2>4, RuledStays
<1>7. ASSUME NEW m \in Moderators, NEW p \in PenaltyIds, Uphold(m, p) \/ Ban(m, p)
      PROVE  Ruled(r)'
  <2>1. PICK u \in Students, q \in Reports \cup {NoReport}, step \in Steps :
          /\ Punish(u, q, p, step)
          /\ q = IF Uphold(m, p) THEN desk[m].on ELSE NoReport
    BY <1>7, Imposed DEF TypeOK
  <2>2. /\ p \notin DOMAIN penalties /\ DOMAIN penalties' = DOMAIN penalties \cup {p}
        /\ \A x \in DOMAIN penalties : penalties'[x] = penalties[x]
        /\ penalties'[p].report = q
    BY <2>1 DEF Punish
  <2>3. /\ PenaltiesFor(r)' = IF r = q THEN PenaltiesFor(r) \cup {p} ELSE PenaltiesFor(r)
        /\ p \notin PenaltiesFor(r)
    BY <2>2 DEF PenaltiesFor
  <2>4. /\ DeskEmptied /\ TaskOK(desk[m]) /\ m \in DOMAIN desk /\ m \notin DOMAIN desk'
        /\ Uphold(m, p) => desk[m].op = "ruling"
    BY <1>7, FinishEmpties, FinishType DEF Uphold, Ban, TypeOK
  <2>5. \A x \in DOMAIN desk' : x \in DOMAIN desk /\ desk'[x] = desk[x]
    BY <2>4 DEF DeskEmptied
  <2>6. \A x : OnReport(x, r)' => OnReport(x, r)
    BY <2>5 DEF OnReport
  <2>7. CASE Uphold(m, p)
    <3>1. q \in Reports /\ OnReport(m, q) /\ desk[m].op # "accept"
      BY <2>1, <2>4, <2>7 DEF TaskOK, OnReport
    <3>2. /\ \A x \in Reports \ {q} : reports'[x] = reports[x]
          /\ reports'[q].status = "decided" /\ reports'[q].decision = "valid"
      BY <2>1, <2>7, <3>1 DEF Uphold, TypeOK, ReportsOK
    <3>3. CASE q = r
      BY <1>a, <2>3, <2>4, <2>5, <3>1, <3>2, <3>3, RuledDecides
    <3>4. CASE q # r
      BY <1>a, <2>3, <2>6, <3>2, <3>4, RuledStays
    <3> QED BY <3>3, <3>4
  <2>8. CASE ~Uphold(m, p)
    <3>1. q # r /\ UNCHANGED reports
      BY <1>7, <2>1, <2>8, IdsAssumption DEF Ban
    <3> QED BY <1>a, <2>3, <2>6, <3>1, RuledStays
  <2> QED BY <2>7, <2>8
<1>8. CASE \/ \E m \in Moderators : RevokeLifted(m) \/ ApproveAppeal(m) \/ RejectAppeal(m)
           \/ \E a \in AppealIds : FileAppeal(a)
           \/ \E p \in PenaltyIds : SweepMark(p)
  <2>1. Relabelled
    BY <1>8, Relabels
  <2>2. /\ UNCHANGED reports
        /\ \A x \in DOMAIN desk' : x \in DOMAIN desk /\ desk'[x] = desk[x]
    <3>1. CASE \E m \in Moderators : RevokeLifted(m) \/ ApproveAppeal(m) \/ RejectAppeal(m)
      BY <3>1, FinishEmpties DEF RevokeLifted, ApproveAppeal, RejectAppeal, DeskEmptied
    <3>2. CASE \/ \E a \in AppealIds : FileAppeal(a)
               \/ \E p \in PenaltyIds : SweepMark(p)
      BY <3>2 DEF FileAppeal, SweepMark
    <3> QED BY <1>8, <3>1, <3>2
  <2>3. \A x : OnReport(x, r)' => OnReport(x, r)
    BY <2>2 DEF OnReport
  <2> QED BY <1>a, <1>0, <2>1, <2>2, <2>3, RuledStays
<1>9. CASE \/ Tick \/ SweepScan \/ SweepCrash
           \/ \E u \in Students : EarnBonus(u)
           \/ \E a \in AppealIds, p \in PenaltyIds : CheckAppeal(a, p)
           \/ \E p \in PenaltyIds : SweepClear(p)
  <2>1. UNCHANGED <<reports, penalties, desk>>
    BY <1>9 DEF Tick, SweepScan, SweepCrash, EarnBonus, CheckAppeal, SweepClear
  <2> QED BY <1>1, <2>1
<1> QED BY <1>3, <1>4, <1>5, <1>6, <1>7, <1>8, <1>9, NextKinds

\* However many moderators work on a report at once, it leads to one penalty
\* more than requests on it that a decision overtook, and to none without such
\* a request when it was dismissed (accept, decide).
THEOREM ReportsAreRuledOnce == Spec => []RuledOnce
<1>1. Init => RuleInv
  <2> SUFFICES ASSUME Init, NEW r \in Reports PROVE Ruled(r)
      BY DEF RuleInv
  <2>1. PenaltiesFor(r) = {} /\ Cardinality(PenaltiesFor(r)) = 0
    BY FS_EmptySet DEF Init, PenaltiesFor
  <2>2. late[r] = 0 /\ reports[r].status = "unfiled"
    BY DEF Init
  <2> QED BY <2>1, <2>2 DEF Ruled
<1>2. TypeOK /\ RuleInv => RuledOnce
  <2> SUFFICES ASSUME TypeOK, RuleInv, NEW r \in Reports
               PROVE  /\ Cardinality(PenaltiesFor(r)) <= 1 + late[r]
                      /\ PenaltiesFor(r) # {} /\ reports[r].decision # "valid"
                            => late[r] > 0
      BY DEF RuledOnce
  <2>1. Ruled(r) /\ late[r] \in Nat /\ Cardinality(PenaltiesFor(r)) \in Nat
    BY PenaltiesCount DEF RuleInv, TypeOK
  <2> QED BY <2>1 DEF Ruled
<1> QED BY <1>1, <1>2, RuleStep, ModerationTypes, PTL DEF Spec
-----------------------------------------------------------------------------
(* Bans *)

\* An active penalty behind the ban of user u that runs until the given day.
Reason(p, u, t, day) ==
    /\ p \in DOMAIN penalties
    /\ penalties[p].user = u /\ penalties[p].type = t
    /\ penalties[p].status = "active" /\ penalties[p].end >= day

BansHaveReason ==
    \A u \in Students, t \in TimedBans :
        users[u].until[t] > now => \E p : Reason(p, u, t, users[u].until[t])

\* Between the two statements that lift a ban by hand, the switches are off.
LiftsHold ==
    \A m \in DOMAIN desk : desk[m].op = "unban" =>
        \A t \in TimedBans :
            Lifts(desk[m].what.type, t) => users[desk[m].on].until[t] = Null

\* What the job has read is still over when it gets to it.
DueIsOver == \A p \in sweep.due \cup sweep.marked : penalties[p].end <= now

BanInv == LiftsHold /\ DueIsOver /\ BansHaveReason

LEMMA BanTypes ==
    ASSUME TypeOK
    PROVE  /\ now \in Nat /\ Null = 0
           /\ \A u \in Students : users[u].until \in [TimedBans -> Nat]
           /\ \A u \in Students, t \in TimedBans : users[u].until[t] \in Nat
           /\ \A p \in DOMAIN penalties : penalties[p].end \in Nat /\ penalties[p].user \in Students
BY DEF TypeOK, UserRows, PenaltiesOK, PenaltyRows, Null

LEMMA Later0 == ASSUME TypeOK, Next PROVE now' >= now /\ now' \in Nat
<1>1. now \in Nat /\ (now' = now \/ now' = now + 1)
    BY NextKinds
    DEF TypeOK, Tick, SweepScan, SweepCrash, FileReport, CheckAccept, CheckRuling, BeginBan,
        CheckReview, Accept, Dismiss, BeginRuling, RevokeLifted, RejectAppeal, LiftBan,
        FileAppeal, CheckAppeal, SweepMark, SweepClear, EarnBonus, Uphold, Ban, ApproveAppeal
<1> QED BY <1>1

\* Bans that go on unchanged keep their reasons.
LEMMA ReasonsStay ==
    ASSUME TypeOK, BansHaveReason, Next,
           \A u \in Students, t \in TimedBans :
              users'[u].until[t] > now' =>
                 /\ users'[u].until[t] = users[u].until[t]
                 /\ \A p : Reason(p, u, t, users[u].until[t])
                             => penalties'[p].status = "active"
    PROVE  BansHaveReason'
<1> SUFFICES ASSUME NEW u \in Students, NEW t \in TimedBans, users'[u].until[t] > now'
             PROVE  \E p : Reason(p, u, t, users[u].until[t])'
    BY DEF BansHaveReason
<1>1. /\ users'[u].until[t] = users[u].until[t]
      /\ \A p : Reason(p, u, t, users[u].until[t]) => penalties'[p].status = "active"
    OBVIOUS
<1>2. users[u].until[t] > now
    BY <1>1, BanTypes, Later0
<1>3. PICK p : Reason(p, u, t, users[u].until[t])
    BY <1>2 DEF BansHaveReason
<1>4. p \in DOMAIN penalties' /\ SameCase(penalties'[p], penalties[p])
    BY <1>3, RowsKept DEF Reason
<1>5. Reason(p, u, t, users[u].until[t])'
    BY <1>1, <1>3, <1>4 DEF Reason, SameCase
<1> QED BY <1>5

LEMMA DueStep == ASSUME TypeOK, DueIsOver, Next PROVE DueIsOver'
<1>1. now \in Nat /\ now' \in Nat /\ now' >= now
    BY Later0 DEF TypeOK
<1>2. \A p \in DOMAIN penalties : penalties[p].end \in Nat /\ penalties'[p].end = penalties[p].end
    BY BanTypes, RowsKept DEF SameCase
<1>3. \A p \in sweep'.due \cup sweep'.marked : p \in DOMAIN penalties /\ penalties[p].end <= now
  <2>0. \A p \in sweep.due \cup sweep.marked : p \in DOMAIN penalties /\ penalties[p].end <= now
    BY DEF DueIsOver, TypeOK, SweepOK
  <2>1. CASE UNCHANGED sweep
    BY <2>0, <2>1
  <2>2. CASE SweepScan
    BY <2>2 DEF SweepScan, Idle, Due
  <2>3. CASE SweepCrash
    BY <2>3 DEF SweepCrash, Idle
  <2>4. ASSUME NEW p \in PenaltyIds, SweepMark(p) \/ SweepClear(p)
        PROVE  sweep'.due \cup sweep'.marked \subseteq sweep.due \cup sweep.marked
    BY <2>4 DEF SweepMark, SweepClear, TypeOK, SweepOK
  <2>5. CASE \E p \in PenaltyIds : SweepMark(p) \/ SweepClear(p)
    BY <2>0, <2>4, <2>5
  <2> QED BY <2>1, <2>2, <2>3, <2>5, NextKinds
      DEF Tick, FileReport, CheckAccept, CheckRuling, BeginBan, CheckReview, Accept, Dismiss,
          BeginRuling, RevokeLifted, RejectAppeal, LiftBan, FileAppeal, CheckAppeal,
          EarnBonus, Uphold, Ban, ApproveAppeal
<1> QED BY <1>1, <1>2, <1>3 DEF DueIsOver

\* Who does not lift a ban by hand leaves the switches that are off as they are, or
\* leaves nobody at the desks.
LEMMA LiftsStay ==
    ASSUME TypeOK, LiftsHold,
           \A m \in DOMAIN desk' :
              \/ desk'[m].op # "unban"
              \/ m \in DOMAIN desk /\ desk'[m] = desk[m],
           \A u \in Students, t \in TimedBans :
              users[u].until[t] = Null => users'[u].until[t] = Null
    PROVE  LiftsHold'
<1> SUFFICES ASSUME NEW m \in DOMAIN desk', desk'[m].op = "unban", NEW t \in TimedBans,
                    Lifts(desk'[m].what.type, t)
             PROVE  users'[desk'[m].on].until[t] = Null
    BY DEF LiftsHold
<1>1. m \in DOMAIN desk /\ desk'[m] = desk[m]
    OBVIOUS
<1>2. desk[m].on \in Students
    BY <1>1 DEF TypeOK, DeskOK, TaskOK
<1>3. users[desk[m].on].until[t] = Null
    BY <1>1 DEF LiftsHold
<1> QED BY <1>1, <1>2, <1>3

\* A penalty is imposed: the new ban runs as long as it, or as long as an older one.
LEMMA PunishReasons ==
    ASSUME TypeOK, BansHaveReason, Next, UNCHANGED now,
           NEW u \in Students, NEW r \in Reports \cup {NoReport}, NEW p \in PenaltyIds,
           NEW step \in Steps, Punish(u, r, p, step)
    PROVE  BansHaveReason'
<1>1. /\ p \notin DOMAIN penalties /\ DOMAIN penalties' = DOMAIN penalties \cup {p}
      /\ \A x \in DOMAIN penalties : penalties'[x] = penalties[x]
      /\ penalties'[p].user = u /\ penalties'[p].type = step.type
      /\ penalties'[p].status = "active"
      /\ penalties'[p].end = (IF step.days > 0 THEN now + step.days ELSE Null)
      /\ users' = [users EXCEPT
            ![u] = Scored(Banned(users[u], step.type, step.days), step.scoreDelta)]
    BY DEF Punish
<1> DEFINE user == Banned(users[u], step.type, step.days)
<1>2. /\ step.type \in PenaltyTypes /\ step.days \in Nat /\ step.scoreDelta \in Int
      /\ users[u] \in UserRows /\ users \in [Students -> UserRows] /\ now \in Nat
    BY DEF Steps, TypeOK
<1>3. user \in UserRows
    BY <1>2, BannedType
<1>4. users'[u].until = user.until /\ \A x \in Students \ {u} : users'[x] = users[x]
  <2>1. Scored(user, step.scoreDelta).until = user.until
    BY <1>2, <1>3, ScoredType
  <2> QED BY <1>1, <1>2, <2>1
<1>5. \A t \in TimedBans :
         user.until[t] = IF t = step.type /\ step.days > 0
                         THEN Later(users[u].until[t], now + step.days)
                         ELSE users[u].until[t]
    BY <1>2 DEF Banned, UserRows, TimedBans
<1> HIDE DEF user
<1> SUFFICES ASSUME NEW x \in Students, NEW t \in TimedBans, users'[x].until[t] > now'
             PROVE  \E q : Reason(q, x, t, users[x].until[t])'
    BY DEF BansHaveReason
<1>6. CASE users'[x].until[t] = users[x].until[t]
  <2>1. PICK q : Reason(q, x, t, users[x].until[t])
    BY <1>6 DEF BansHaveReason
  <2>2. Reason(q, x, t, users[x].until[t])'
    BY <1>1, <1>6, <2>1 DEF Reason
  <2> QED BY <2>2
<1>7. CASE users'[x].until[t] # users[x].until[t]
  <2>1. x = u
    BY <1>4, <1>7
  <2>2. /\ t = step.type /\ step.days > 0
        /\ users'[x].until[t] = Later(users[u].until[t], now + step.days)
    BY <1>4, <1>5, <1>7, <2>1
  <2>3. users'[x].until[t] = now + step.days
    BY <1>7, <2>1, <2>2 DEF Later
  <2>4. now + step.days \in Int
    BY <1>2
  <2>5. Reason(p, x, t, users[x].until[t])'
    BY <1>1, <2>1, <2>2, <2>3, <2>4 DEF Reason
  <2> QED BY <2>5
<1> QED BY <1>6, <1>7

LEMMA BanStep ==
    TypeOK /\ OneDesk /\ OneDesk' /\ BanInv /\ [Next]_vars => BanInv'
<1> SUFFICES ASSUME TypeOK, OneDesk, OneDesk', BanInv, [Next]_vars PROVE BanInv'
    OBVIOUS
<1>0. CASE UNCHANGED vars
    BY <1>0 DEF vars, BanInv, LiftsHold, DueIsOver, BansHaveReason, Reason
<1> SUFFICES ASSUME Next PROVE LiftsHold' /\ BansHaveReason'
    BY <1>0, DueStep DEF BanInv
<1> USE DEF BanInv
<1>1. ASSUME UNCHANGED penalties, \A u \in Students : users'[u].until = users[u].until
      PROVE  BansHaveReason'
  <2>1. \A u \in Students, t \in TimedBans :
           /\ users'[u].until[t] = users[u].until[t]
           /\ \A p : Reason(p, u, t, users[u].until[t]) => penalties'[p].status = "active"
    BY <1>1 DEF Reason
  <2> QED BY <2>1, ReasonsStay
<1>2. ASSUME DeskEmptied, OneDesk PROVE LiftsHold'
    BY <1>2 DEF DeskEmptied, LiftsHold
<1>3. ASSUME UNCHANGED <<penalties, users>>,
             \A m \in DOMAIN desk' :
                desk'[m].op # "unban" \/ (m \in DOMAIN desk /\ desk'[m] = desk[m])
      PROVE  LiftsHold' /\ BansHaveReason'
  <2>1. LiftsHold'
    BY <1>3, LiftsStay
  <2> QED BY <1>1, <1>3, <2>1
<1>4. CASE \/ Tick \/ SweepScan \/ SweepCrash
           \/ \E r \in Reports : FileReport(r)
           \/ \E a \in AppealIds, p \in PenaltyIds : CheckAppeal(a, p)
  <2>1. UNCHANGED <<penalties, users, desk>>
    BY <1>4 DEF Tick, SweepScan, SweepCrash, FileReport, CheckAppeal
  <2> QED BY <1>3, <2>1
<1>5. ASSUME NEW m \in Moderators,
             \/ \E r \in Reports : CheckAccept(m, r)
             \/ \E r \in Reports, what \in Rulings \cup {Simply("invalid")} :
                   CheckRuling(m, r, what)
             \/ \E u \in Students, what \in Bans : BeginBan(m, u, what)
             \/ \E a \in AppealIds, verdict \in {"approved", "rejected"} :
                   CheckReview(m, a, verdict)
             \/ Accept(m) \/ Dismiss(m) \/ BeginRuling(m)
      PROVE  LiftsHold' /\ BansHaveReason'
  <2>1. UNCHANGED <<penalties, users>>
    BY <1>5 DEF CheckAccept, CheckRuling, BeginBan, CheckReview, Accept, Dismiss, BeginRuling
  <2>2. ASSUME NEW op, NEW on, NEW what, DeskTaken(m, op, on, what), op # "unban"
        PROVE  \A k \in DOMAIN desk' :
                  desk'[k].op # "unban" \/ (k \in DOMAIN desk /\ desk'[k] = desk[k])
    BY <2>2 DEF DeskTaken
  <2>3. CASE \E r \in Reports : CheckAccept(m, r)
    BY <1>3, <2>1, <2>2, <2>3, TakeTakes DEF CheckAccept
  <2>4. CASE \E r \in Reports, what \in Rulings \cup {Simply("invalid")} : CheckRuling(m, r, what)
    BY <1>3, <2>1, <2>2, <2>4, TakeTakes DEF CheckRuling
  <2>5. CASE \E u \in Students, what \in Bans : BeginBan(m, u, what)
    BY <1>3, <2>1, <2>2, <2>5, TakeTakes DEF BeginBan
  <2>6. CASE \E a \in AppealIds, verdict \in {"approved", "rejected"} : CheckReview(m, a, verdict)
    BY <1>3, <2>1, <2>2, <2>6, TakeTakes DEF CheckReview
  <2>7. CASE Accept(m) \/ Dismiss(m)
    <3>1. DeskEmptied
      BY <2>7, FinishEmpties DEF Accept, Dismiss
    <3> QED BY <1>3, <2>1, <3>1 DEF DeskEmptied
  <2>8. CASE BeginRuling(m)
    <3>1. /\ m \in DOMAIN desk /\ desk[m].op = "rule" /\ desk[m] \in Tasks
          /\ DOMAIN desk' = DOMAIN desk
      BY <2>8 DEF BeginRuling, TypeOK, DeskOK
    <3>2. desk'[m].op = "ruling" /\ \A x \in DOMAIN desk' : x = m
      BY <2>8, <3>1 DEF BeginRuling, Tasks, OneDesk
    <3> QED BY <1>3, <2>1, <3>2
  <2> QED BY <1>5, <2>3, <2>4, <2>5, <2>6, <2>7, <2>8
<1>6. ASSUME NEW u \in Students, EarnBonus(u) PROVE LiftsHold' /\ BansHaveReason'
  <2>1. Scored(users[u], Bonus).until = users[u].until
    <3>1. users[u] \in UserRows /\ Bonus \in Int
      BY ModerationBounds DEF TypeOK
    <3> QED BY <3>1, ScoredType
  <2>2. \A x \in Students : users'[x].until = users[x].until
    BY <1>6, <2>1 DEF EarnBonus, TypeOK
  <2>3. UNCHANGED <<penalties, desk>>
    BY <1>6 DEF EarnBonus
  <2>4. LiftsHold'
    BY <2>2, <2>3, LiftsStay
  <2> QED BY <1>1, <2>2, <2>3, <2>4
<1>7. ASSUME NEW m \in Moderators, NEW p \in PenaltyIds, Uphold(m, p) \/ Ban(m, p)
      PROVE  LiftsHold' /\ BansHaveReason'
  <2>1. PICK u \in Students, r \in Reports \cup {NoReport}, step \in Steps :
          Punish(u, r, p, step)
    BY <1>7, Imposed DEF TypeOK
  <2>2. DeskEmptied /\ UNCHANGED now
    BY <1>7, FinishEmpties DEF Uphold, Ban
  <2>3. BansHaveReason'
    BY <2>1, <2>2, PunishReasons
  <2> QED BY <1>2, <2>2, <2>3
<1>8. ASSUME NEW m \in Moderators, NEW u \in Students, NEW type \in Unbans, LiftBan(m, u, type)
      PROVE  LiftsHold' /\ BansHaveReason'
  <2>1. /\ DeskTaken(m, "unban", u, Simply(type)) /\ UNCHANGED penalties
        /\ \A x \in Students \ {u} : users'[x] = users[x]
        /\ \A t \in TimedBans : users'[u].until[t] =
              IF Lifts(type, t) THEN Null ELSE users[u].until[t]
    BY <1>8, TakeTakes DEF LiftBan, TypeOK
  <2>2. LiftsHold'
    <3>1. /\ \A x \in DOMAIN desk' : x = m
          /\ desk'[m].on = u /\ desk'[m].what.type = type
      BY <2>1 DEF DeskTaken, OneDesk, Simply
    <3> QED BY <2>1, <3>1 DEF LiftsHold
  <2>3. \A x \in Students, t \in TimedBans :
           users'[x].until[t] > now' => users'[x].until[t] = users[x].until[t]
    BY <2>1, Later0 DEF Null
  <2>4. BansHaveReason'
    BY <2>1, <2>3, ReasonsStay DEF Reason
  <2> QED BY <2>2, <2>4
<1>9. ASSUME NEW m \in Moderators, RevokeLifted(m) PROVE LiftsHold' /\ BansHaveReason'
  <2>1. /\ DeskEmptied /\ m \in DOMAIN desk /\ desk[m].op = "unban" /\ UNCHANGED <<now, users>>
    BY <1>9, FinishEmpties DEF RevokeLifted
  <2>2. ASSUME NEW u \in Students, NEW t \in TimedBans, users'[u].until[t] > now',
               NEW p, Reason(p, u, t, users[u].until[t])
        PROVE  penalties'[p].status = "active"
    <3>1. users[u].until[t] # Null
      BY <2>1, <2>2, BanTypes
    <3>2. ~(u = desk[m].on /\ Lifts(desk[m].what.type, t))
      BY <2>1, <3>1 DEF LiftsHold
    <3> QED BY <1>9, <2>2, <3>2 DEF RevokeLifted, Reason
  <2>3. BansHaveReason'
    BY <2>1, <2>2, ReasonsStay
  <2> QED BY <1>2, <2>1, <2>3
<1>10. ASSUME UNCHANGED users,
              \A p \in DOMAIN penalties : penalties'[p].status = penalties[p].status
       PROVE  BansHaveReason'
    BY <1>10, ReasonsStay DEF Reason
<1>11. ASSUME NEW m \in Moderators, RejectAppeal(m) PROVE LiftsHold' /\ BansHaveReason'
  <2>1. DeskEmptied /\ UNCHANGED users
    BY <1>11, FinishEmpties DEF RejectAppeal
  <2>2. \A p \in DOMAIN penalties : penalties'[p].status = penalties[p].status
    BY <1>11 DEF RejectAppeal, TypeOK, PenaltiesOK, PenaltyRows
  <2> QED BY <1>2, <1>10, <2>1, <2>2
<1>12. ASSUME NEW a \in AppealIds, FileAppeal(a) PROVE LiftsHold' /\ BansHaveReason'
  <2>1. UNCHANGED <<users, desk>>
    BY <1>12 DEF FileAppeal
  <2>2. \A p \in DOMAIN penalties : penalties'[p].status = penalties[p].status
    BY <1>12 DEF FileAppeal, TypeOK, PenaltiesOK, PenaltyRows
  <2>3. LiftsHold'
    BY <2>1, LiftsStay
  <2> QED BY <1>10, <2>1, <2>2, <2>3
<1>13. ASSUME NEW m \in Moderators, ApproveAppeal(m) PROVE LiftsHold' /\ BansHaveReason'
  <2>1. PICK q \in DOMAIN penalties :
          LET v == penalties[q].user IN
          /\ v \in Students /\ penalties[q].type \in PenaltyTypes
          /\ penalties' = [penalties EXCEPT ![q].status = "revoked", ![q].appeal = "approved"]
          /\ \/ penalties[q].status = "revoked" /\ UNCHANGED <<users, creditLog>>
             \/ /\ penalties[q].status # "revoked"
                /\ users' = [users EXCEPT ![v] =
                      Scored(Unbanned(users[v], penalties[q].type), PointsTaken(q, v))]
    BY <1>13, ApproveType
  <2> DEFINE v == penalties[q].user
  <2>2. DeskEmptied
    BY <1>13, FinishEmpties DEF ApproveAppeal
  <2>3. \A p \in DOMAIN penalties : p # q => penalties'[p] = penalties[p]
    BY <2>1
  <2>4. ASSUME penalties[q].status # "revoked",
               users' = [users EXCEPT ![v] =
                   Scored(Unbanned(users[v], penalties[q].type), PointsTaken(q, v))]
        PROVE  /\ \A x \in Students \ {v} : users'[x] = users[x]
               /\ \A t \in TimedBans : users'[v].until[t] =
                     IF t = penalties[q].type THEN Null ELSE users[v].until[t]
    <3>1. v \in Students /\ users[v] \in UserRows /\ users \in [Students -> UserRows]
      BY <2>1 DEF TypeOK
    <3>2. Unbanned(users[v], penalties[q].type) \in UserRows
      BY <2>1, <3>1, UnbannedType
    <3>3. PointsTaken(q, v) \in Int
      BY <3>1, RollbackType
    <3>4. users'[v].until = Unbanned(users[v], penalties[q].type).until
      BY <2>4, <3>1, <3>2, <3>3, ScoredType
    <3>5. \A t \in TimedBans : Unbanned(users[v], penalties[q].type).until[t] =
                     IF t = penalties[q].type THEN Null ELSE users[v].until[t]
      BY <3>1 DEF Unbanned, UserRows, TimedBans
    <3> QED BY <2>4, <3>1, <3>4, <3>5
  <2>5. ASSUME NEW u \in Students, NEW t \in TimedBans, users'[u].until[t] > now'
        PROVE  /\ users'[u].until[t] = users[u].until[t]
               /\ \A p : Reason(p, u, t, users[u].until[t]) => penalties'[p].status = "active"
    <3>1. users'[u].until[t] # Null
      BY <2>5, Later0 DEF Null
    <3>2. CASE penalties[q].status = "revoked" /\ UNCHANGED <<users, creditLog>>
      <4>1. \A p : Reason(p, u, t, users[u].until[t]) => p # q /\ p \in DOMAIN penalties
        BY <3>2 DEF Reason
      <4> QED BY <2>3, <3>2, <4>1 DEF Reason
    <3>3. CASE /\ penalties[q].status # "revoked"
               /\ users' = [users EXCEPT ![v] =
                   Scored(Unbanned(users[v], penalties[q].type), PointsTaken(q, v))]
      <4>1. ~(u = v /\ t = penalties[q].type)
        BY <2>4, <3>1, <3>3
      <4>2. \A p : Reason(p, u, t, users[u].until[t]) => p # q /\ p \in DOMAIN penalties
        BY <4>1 DEF Reason
      <4>3. users'[u].until[t] = users[u].until[t]
        BY <2>4, <3>3, <4>1
      <4> QED BY <2>3, <4>2, <4>3 DEF Reason
    <3> QED BY <2>1, <3>2, <3>3
  <2>6. BansHaveReason'
    BY <2>5, ReasonsStay
  <2> QED BY <1>2, <2>2, <2>6
<1>14. ASSUME NEW q \in PenaltyIds, SweepMark(q) PROVE LiftsHold' /\ BansHaveReason'
  <2>1. /\ UNCHANGED <<now, users, desk>> /\ q \in DOMAIN penalties /\ penalties[q].end <= now
        /\ \A p \in DOMAIN penalties : p # q => penalties'[p] = penalties[p]
    BY <1>14 DEF SweepMark, DueIsOver, TypeOK, SweepOK
  <2>2. ASSUME NEW u \in Students, NEW t \in TimedBans, users'[u].until[t] > now',
               NEW p, Reason(p, u, t, users[u].until[t])
        PROVE  penalties'[p].status = "active"
    <3>1. users[u].until[t] > now /\ penalties[p].end >= users[u].until[t] /\ p \in DOMAIN penalties
      BY <2>1, <2>2 DEF Reason
    <3>2. p # q
      BY <2>1, <3>1, BanTypes
    <3> QED BY <2>1, <2>2, <3>1, <3>2 DEF Reason
  <2>3. BansHaveReason'
    BY <2>1, <2>2, ReasonsStay
  <2>4. LiftsHold'
    BY <2>1, LiftsStay
  <2> QED BY <2>3, <2>4
<1>15. ASSUME NEW q \in PenaltyIds, SweepClear(q) PROVE LiftsHold' /\ BansHaveReason'
  <2> DEFINE v == penalties[q].user
  <2>1. /\ UNCHANGED <<now, penalties, desk>>
        /\ q \in DOMAIN penalties /\ v \in Students
    BY <1>15, BanTypes DEF SweepClear, TypeOK, SweepOK
  <2>2. /\ \A x \in Students \ {v} : users'[x] = users[x]
        /\ users'[v].until = [users[v].until EXCEPT ![penalties[q].type] = Null]
    BY <1>15, <2>1 DEF SweepClear, TypeOK, UserRows
  <2> HIDE DEF v
  <2>3. \A x \in Students, t \in TimedBans :
           users'[x].until[t] = users[x].until[t] \/ users'[x].until[t] = Null
    BY <2>1, <2>2, BanTypes
  <2>4. LiftsHold'
    BY <2>1, <2>3, LiftsStay
  <2>5. ASSUME NEW u \in Students, NEW t \in TimedBans, users'[u].until[t] > now'
        PROVE  users'[u].until[t] = users[u].until[t]
    BY <2>3, <2>5, Later0 DEF Null
  <2>6. BansHaveReason'
    BY <2>1, <2>5, ReasonsStay DEF Reason
  <2> QED BY <2>4, <2>6
<1> QED BY <1>4, <1>5, <1>6, <1>7, <1>8, <1>9, <1>11, <1>12, <1>13, <1>14, <1>15, NextKinds

\* A ban that runs has an active penalty behind it, through rulings, appeals, bans lifted by
\* hand and the sweep job, as long as the requests of moderators do not meet.
THEOREM BansKeepTheirReason == Spec => []BanHasReason
<1> DEFINE Inv == ~met => OneDesk /\ BanInv
<1>1. Init => Inv
    BY DEF Init, OneDesk, BanInv, LiftsHold, DueIsOver, BansHaveReason, Idle, Null
<1>2. TypeOK /\ Inv /\ [Next]_vars => Inv'
  <2> SUFFICES ASSUME TypeOK, Inv, [Next]_vars, ~met' PROVE OneDesk' /\ BanInv'
      OBVIOUS
  <2>1. ~met /\ OneDesk /\ OneDesk'
    BY StillAlone
  <2> QED BY <2>1, BanStep
<1>3. Inv => BanHasReason
    BY DEF BanInv, BansHaveReason, BanHasReason, Reason
<1> HIDE DEF Inv
<1> QED BY <1>1, <1>2, <1>3, ModerationTypes, PTL DEF Spec
-----------------------------------------------------------------------------
(* Customer service                                                        *)

Statuses == {"pending", "processing", "resolved"}
Kinds    == Outcomes \cup {"urgent", "normal", "button"}
Phases   == {"create", "mark", "count", "look", "link", "done"}

Ticket  == [reporter : Users, status : Statuses, assignee : Staff \cup {None},
            answered : BOOLEAN, escalated : BOOLEAN, due : 0..2, handover : BOOLEAN]
Session == [status : {None, "active", "transferred"}, rounds : Nat, ticket : Nat]
Request == [phase : Phases, user : Users, outcome : Kinds, ticket : Nat, rounds : Nat]

SupportType ==
    /\ tickets \in Seq(Ticket)
    /\ sessions \in [Users -> Session]
    /\ req \in [Slots -> Request \cup {NoReq}]
    /\ crashes \in Nat
    /\ streak \in [Users -> Nat \cup {Blurred}]

\* The ways a request of each kind may go.
Way(kind) ==
    CASE kind \in {"urgent", "normal"} -> {"create", "mark", "done"}
      [] kind = "refund"   -> {"create", "mark", "count", "done"}
      [] kind = "answered" -> {"count", "done"}
      [] kind = "unanswered" -> {"count", "look", "create", "link", "done"}
      [] OTHER -> {"look", "create", "link", "done"}

HandsOver(r) == r.outcome \in {"transfer", "button", "unanswered"}

Opened(u) == {t \in TicketIds : tickets[t].handover /\ tickets[t].reporter = u}

\* A request is on its way, and the ticket it has in hand is there.
RequestOK(s) ==
    LET r == req[s]
    IN  s \in Busy =>
          /\ r.phase \in Way(r.outcome)
          /\ r.phase = "mark" => r.ticket \in TicketIds
          /\ r.phase = "link" => r.ticket \in Opened(r.user)

SessionOK(u) ==
    /\ sessions[u].ticket # 0 => sessions[u].ticket \in Opened(u)
    /\ sessions[u].status = "transferred" => sessions[u].ticket # 0

DeskInv ==
    /\ SupportType
    /\ \A s \in Slots : RequestOK(s)
    /\ \A u \in Users : SessionOK(u)
-----------------------------------------------------------------------------
(* What requests and tickets are made of *)

LEMMA BusyHasRequest ==
    ASSUME SupportType, NEW s \in Slots
    PROVE  /\ s \in Busy <=> req[s] # NoReq
           /\ s \in Busy => req[s] \in Request
           /\ req[s].phase # "idle" => s \in Busy
<1> QED BY DEF SupportType, Busy, NoReq

LEMMA TicketRow ==
    ASSUME SupportType, NEW t \in TicketIds
    PROVE  tickets[t] \in Ticket /\ t \in Nat \ {0}
<1> QED BY DEF SupportType, TicketIds

LEMMA SlotMoves ==
    ASSUME SupportType, NEW s \in Slots, NEW r \in Request \cup {NoReq}, Step(s, r)
    PROVE  /\ req' \in [Slots -> Request \cup {NoReq}]
           /\ req'[s] = r
           /\ \A q \in Slots \ {s} : req'[q] = req[q]
<1> QED BY DEF SupportType, Step

\* A ticket is rewritten, by the desk or by the job, and keeps whose it is.
LEMMA RowIsRewritten ==
    ASSUME SupportType, NEW t \in TicketIds, NEW row \in Ticket,
           row.reporter = tickets[t].reporter, row.handover = tickets[t].handover,
           tickets' = [tickets EXCEPT ![t] = row]
    PROVE  /\ tickets' \in Seq(Ticket)
           /\ TicketIds' = TicketIds
           /\ \A u \in Users : Opened(u)' = Opened(u)
<1>1. tickets' \in Seq(Ticket) /\ DOMAIN tickets' = DOMAIN tickets
  BY DEF SupportType, TicketIds
<1>2. \A x \in DOMAIN tickets : /\ tickets'[x].handover = tickets[x].handover
                                /\ tickets'[x].reporter = tickets[x].reporter
  BY DEF TicketIds
<1> QED BY <1>1, <1>2 DEF Opened, TicketIds

\* A ticket is added: a hand-over or not.
LEMMA RowIsAdded ==
    ASSUME SupportType, NEW row \in Ticket, tickets' = Append(tickets, row)
    PROVE  /\ tickets' \in Seq(Ticket)
           /\ Len(tickets) + 1 \in TicketIds' /\ Len(tickets) + 1 \in Nat
           /\ TicketIds \subseteq TicketIds' /\ Len(tickets) + 1 \notin TicketIds
           /\ \A u \in Users : Opened(u)' = Opened(u) \cup
                (IF row.handover /\ row.reporter = u THEN {Len(tickets) + 1} ELSE {})
<1>1. /\ tickets' \in Seq(Ticket) /\ Len(tickets) \in Nat
      /\ DOMAIN tickets = 1..Len(tickets) /\ DOMAIN tickets' = 1..(Len(tickets) + 1)
      /\ tickets'[Len(tickets) + 1] = row
      /\ \A t \in DOMAIN tickets : tickets'[t] = tickets[t]
  BY DEF SupportType
<1>2. ASSUME NEW u \in Users, NEW t
      PROVE  t \in Opened(u)' <=> \/ t \in Opened(u)
                                  \/ row.handover /\ row.reporter = u /\ t = Len(tickets) + 1
  <2>1. t \in Opened(u)' <=> t \in DOMAIN tickets' /\ tickets'[t].handover
                             /\ tickets'[t].reporter = u
    BY DEF Opened, TicketIds
  <2>2. t \in Opened(u) <=> t \in DOMAIN tickets /\ tickets[t].handover
                            /\ tickets[t].reporter = u
    BY DEF Opened, TicketIds
  <2>3. t \in DOMAIN tickets' <=> t \in DOMAIN tickets \/ t = Len(tickets) + 1
    BY <1>1
  <2>4. Len(tickets) + 1 \notin DOMAIN tickets
    BY <1>1
  <2> QED BY <1>1, <2>1, <2>2, <2>3, <2>4
<1> QED BY <1>1, <1>2 DEF TicketIds

\* What the desk and the job do to a ticket: as Claim, Reply, Resolve, Escalate,
\* PassDueDate, EscalateNext and MarkUrgent do.
Rewrites(t) ==
    \E row \in Ticket :
      /\ row.reporter = tickets[t].reporter /\ row.handover = tickets[t].handover
      /\ tickets' = [tickets EXCEPT ![t] = row]
      /\ tickets[t].assignee # None => row.assignee = tickets[t].assignee
      /\ tickets[t].status = "resolved" => row.status = "resolved"

LEMMA EscalatedIsRewritten ==
    ASSUME SupportType, NEW t \in TicketIds, tickets' = [tickets EXCEPT ![t].escalated = TRUE]
    PROVE  Rewrites(t)
<1> DEFINE row == [tickets[t] EXCEPT !.escalated = TRUE]
<1>1. /\ row \in Ticket /\ row.reporter = tickets[t].reporter
      /\ row.handover = tickets[t].handover
      /\ row.assignee = tickets[t].assignee /\ row.status = tickets[t].status
  BY TicketRow DEF Ticket
<1>2. tickets' = [tickets EXCEPT ![t] = row]
  OBVIOUS
<1> QED BY <1>1, <1>2 DEF Rewrites

\* Of the claims, only the first and those of the same member of staff take effect.
LEMMA DeskRewrites ==
    ASSUME SupportType, NEW t \in TicketIds,
           \/ \E st \in Staff : Claim(t, st) \/ Resolve(t, st)
           \/ Reply(t) \/ Escalate(t) \/ PassDueDate(t)
    PROVE  Rewrites(t) /\ UNCHANGED <<sessions, req, crashes, streak>>
<1> DEFINE old == tickets[t]
<1>1. old \in Ticket
  BY TicketRow
<1>2. ASSUME NEW st \in Staff, Claim(t, st) PROVE Rewrites(t)
  <2> DEFINE row == [old EXCEPT !.assignee = st,
                                !.status = IF @ = "pending" THEN "processing" ELSE @]
  <2>1. tickets' = [tickets EXCEPT ![t] = row] /\ old.assignee \in {None, st}
    BY <1>2 DEF Claim, OnTicket, Claimable
  <2>2. /\ row \in Ticket /\ row.reporter = old.reporter /\ row.handover = old.handover
        /\ row.assignee = st /\ (old.status = "resolved" => row.status = "resolved")
    BY <1>1 DEF Ticket, Statuses
  <2>3. old.assignee # None => row.assignee = old.assignee
    BY <2>1, <2>2
  <2> HIDE DEF row
  <2> QED BY <2>1, <2>2, <2>3 DEF Rewrites
<1>3. ASSUME NEW st \in Staff, Resolve(t, st) PROVE Rewrites(t)
  <2> DEFINE row == Resolved(old, st)
  <2>1. tickets' = [tickets EXCEPT ![t] = row]
    BY <1>3 DEF Resolve, OnTicket
  <2>2. /\ row \in Ticket /\ row.reporter = old.reporter /\ row.handover = old.handover
        /\ old.assignee # None => row.assignee = old.assignee
        /\ row.status = "resolved"
    BY <1>1 DEF Ticket, Statuses, Resolved
  <2> HIDE DEF row
  <2> QED BY <2>1, <2>2 DEF Rewrites
<1>4. ASSUME Reply(t) PROVE Rewrites(t)
  <2> DEFINE row == [old EXCEPT !.answered = TRUE]
  <2>1. tickets' = [tickets EXCEPT ![t] = row]
    BY <1>4 DEF Reply, OnTicket
  <2>2. /\ row \in Ticket /\ row.reporter = old.reporter /\ row.handover = old.handover
        /\ old.assignee # None => row.assignee = old.assignee
        /\ old.status = "resolved" => row.status = "resolved"
    BY <1>1 DEF Ticket
  <2> HIDE DEF row
  <2> QED BY <2>1, <2>2 DEF Rewrites
<1>5. ASSUME Escalate(t) PROVE Rewrites(t)
  BY <1>5, EscalatedIsRewritten DEF Escalate, OnTicket
<1>6. ASSUME PassDueDate(t) PROVE Rewrites(t)
  <2> DEFINE row == [old EXCEPT !.due = @ + 1]
  <2>1. tickets' = [tickets EXCEPT ![t] = row] /\ old.due < 2
    BY <1>6 DEF PassDueDate, OnTicket
  <2>2. /\ row \in Ticket /\ row.reporter = old.reporter /\ row.handover = old.handover
        /\ old.assignee # None => row.assignee = old.assignee
        /\ old.status = "resolved" => row.status = "resolved"
    BY <1>1, <2>1 DEF Ticket
  <2> HIDE DEF row
  <2> QED BY <2>1, <2>2 DEF Rewrites
<1>7. UNCHANGED <<sessions, req, crashes, streak>>
  BY DEF Claim, Resolve, Reply, Escalate, PassDueDate, OnTicket
<1> QED BY <1>2, <1>3, <1>4, <1>5, <1>6, <1>7

\* The steps, by what they do to the state the proofs are about.
Begins(s) ==
    \E r \in Request :
      /\ req[s] = NoReq /\ Step(s, r)
      /\ r.phase \in Way(r.outcome) /\ r.phase \in {"create", "count", "look"}
      /\ r.phase = "create" => ~HandsOver(r)
      /\ r.rounds = sessions[r.user].rounds
      /\ streak' = IF r.outcome \in Outcomes
                   THEN [streak EXCEPT ![r.user] = IF Of(r.user) # {} THEN Blurred ELSE @]
                   ELSE streak
      /\ UNCHANGED <<tickets, sessions, crashes>>

DeskActs ==
    \E t \in TicketIds : Rewrites(t) /\ UNCHANGED <<sessions, req, crashes, streak>>

RequestActs(s) ==
    \/ InsertTicket(s) \/ MarkUrgent(s) \/ CountRound(s)
    \/ LookForTicket(s) \/ LinkTicket(s) \/ Respond(s)

Rests == UNCHANGED <<tickets, sessions, req, crashes, streak>>

LEMMA StepsAre ==
    ASSUME SupportType, [SupportNext /\ UNCHANGED scene]_supportVars
    PROVE  \/ Rests \/ DeskActs \/ Crash
           \/ \E u \in Users : StartSession(u)
           \/ \E s \in Slots : Begins(s)
           \/ \E s \in Busy : RequestActs(s)
<1>1. ASSUME NEW s \in Slots, NEW u \in Users, AskTransfer(s, u) PROVE Begins(s)
  <2> DEFINE r == [phase |-> "look", user |-> u, outcome |-> "button", ticket |-> 0,
                   rounds |-> sessions[u].rounds]
  <2>1. r \in Request
    BY DEF SupportType, Session, Request, Phases, Kinds
  <2> QED BY <1>1, <2>1 DEF AskTransfer, Begin, Begins, Way, Outcomes
<1>2. ASSUME NEW s \in Slots, NEW u \in Users, NEW urgent \in BOOLEAN, AskTicket(s, u, urgent)
      PROVE  Begins(s)
  <2> DEFINE r == [phase |-> "create", user |-> u,
                   outcome |-> IF urgent THEN "urgent" ELSE "normal", ticket |-> 0,
                   rounds |-> sessions[u].rounds]
  <2>1. r \in Request
    BY DEF SupportType, Session, Request, Phases, Kinds
  <2> QED BY <1>2, <2>1 DEF AskTicket, Begin, Begins, Way, Outcomes, HandsOver
<1>3. ASSUME NEW s \in Slots, NEW u \in Users, NEW o \in Outcomes, Message(s, u, o)
      PROVE  Begins(s)
  <2> DEFINE p == CASE o = "transfer" -> "look" [] o = "refund" -> "create" [] OTHER -> "count"
             r == [phase |-> p, user |-> u, outcome |-> o, ticket |-> 0,
                   rounds |-> sessions[u].rounds]
  <2>1. /\ p \in {"create", "count", "look"} /\ p \in Way(o)
        /\ p = "create" => o = "refund"
    BY DEF Outcomes, Way
  <2>2. r \in Request
    BY <2>1 DEF SupportType, Session, Request, Phases, Kinds
  <2>3. /\ req[s] = NoReq /\ Step(s, r) /\ UNCHANGED <<tickets, sessions, crashes>>
        /\ streak' = [streak EXCEPT ![u] = IF Of(u) # {} THEN Blurred ELSE @]
    BY <1>3 DEF Message, Begin
  <2> QED BY <2>1, <2>2, <2>3 DEF Begins, HandsOver
<1>4. CASE Chat
  BY <1>1, <1>3, <1>4 DEF Chat
<1>5. CASE Desk
  <2>1. ASSUME NEW t \in TicketIds,
               \/ \E st \in Staff : Claim(t, st) \/ Resolve(t, st)
               \/ Reply(t) \/ Escalate(t) \/ PassDueDate(t)
        PROVE  DeskActs
    BY <2>1, DeskRewrites DEF DeskActs
  <2>2. ASSUME NEW t \in TicketIds, EscalateNext(t) PROVE DeskActs
    BY <2>2, EscalatedIsRewritten DEF EscalateNext, DeskActs
  <2>3. ASSUME NEW t \in TicketIds, EscalateFails(t) PROVE Rests
    BY <2>3 DEF EscalateFails, Rests
  <2>4. CASE Scan
    BY <2>4 DEF Scan, Rests
  <2> QED BY <1>2, <1>5, <2>1, <2>2, <2>3, <2>4 DEF Desk, TicketIds
<1>6. CASE UNCHANGED supportVars
  BY <1>6 DEF supportVars, Rests
<1> QED BY <1>4, <1>5, <1>6 DEF SupportNext, RequestActs
-----------------------------------------------------------------------------
(* Requests keep to their way, and sessions to their ticket *)

\* Requests that do not move stay as they should be while tickets are only added.
LEMMA DeskFrame ==
    ASSUME DeskInv, SupportType', TicketIds \subseteq TicketIds',
           \A u \in Users : Opened(u) \subseteq Opened(u)',
           NEW moved, \A q \in Slots : q \notin moved => req'[q] = req[q],
           \A q \in Slots : q \in moved => RequestOK(q)',
           \A u \in Users : SessionOK(u)'
    PROVE  DeskInv'
<1>1. ASSUME NEW q \in Slots, q \notin moved PROVE RequestOK(q)'
  <2>1. req'[q] = req[q] /\ (q \in Busy' <=> q \in Busy)
    BY <1>1 DEF Busy
  <2>2. q \in Busy => req[q].user \in Users
    BY BusyHasRequest DEF DeskInv, Request
  <2> QED BY <2>1, <2>2 DEF DeskInv, RequestOK
<1> QED BY <1>1 DEF DeskInv

LEMMA SessionsStay ==
    ASSUME DeskInv, sessions' = sessions, \A u \in Users : Opened(u) \subseteq Opened(u)'
    PROVE  \A u \in Users : SessionOK(u)'
<1> QED BY DEF DeskInv, SessionOK

LEMMA DeskInvTickets ==
    ASSUME DeskInv, Rests \/ DeskActs
    PROVE  DeskInv'
<1>1. UNCHANGED <<sessions, req, crashes, streak>>
  BY DEF Rests, DeskActs
<1>2. /\ tickets' \in Seq(Ticket) /\ TicketIds' = TicketIds
      /\ \A u \in Users : Opened(u)' = Opened(u)
  <2>1. CASE Rests
    BY <2>1 DEF Rests, TicketIds, Opened, DeskInv, SupportType
  <2>2. CASE DeskActs
    BY <2>2, RowIsRewritten DEF DeskActs, Rewrites, DeskInv
  <2> QED BY <2>1, <2>2
<1>3. SupportType'
  BY <1>1, <1>2 DEF DeskInv, SupportType
<1>4. \A u \in Users : SessionOK(u)'
  BY <1>1, <1>2, SessionsStay
<1> QED BY <1>1, <1>2, <1>3, <1>4, DeskFrame

LEMMA DeskInvStart ==
    ASSUME DeskInv, NEW u \in Users, StartSession(u)
    PROVE  DeskInv'
<1>1. /\ sessions' = [sessions EXCEPT ![u].status = "active"]
      /\ UNCHANGED <<tickets, req, crashes, streak>>
  BY DEF StartSession
<1>2. SupportType'
  BY <1>1 DEF DeskInv, SupportType, Session
<1>3. ASSUME NEW v \in Users PROVE SessionOK(v)'
  <2>1. /\ sessions'[v].ticket = sessions[v].ticket
        /\ sessions'[v].status = "transferred" => sessions[v].status = "transferred"
    BY <1>1 DEF DeskInv, SupportType, Session
  <2>2. Opened(v)' = Opened(v)
    BY <1>1 DEF Opened, TicketIds
  <2> QED BY <2>1, <2>2 DEF DeskInv, SessionOK
<1>4. TicketIds' = TicketIds /\ \A v \in Users : Opened(v)' = Opened(v)
  BY <1>1 DEF Opened, TicketIds
<1> DEFINE moved == {}
<1>5. \A q \in Slots : /\ q \notin moved => req'[q] = req[q]
                       /\ q \in moved => RequestOK(q)'
  BY <1>1
<1> HIDE DEF moved
<1> QED BY <1>2, <1>3, <1>4, <1>5, DeskFrame

\* A request moves and nothing else does, but for the count of its session.
LEMMA DeskInvMove ==
    ASSUME DeskInv, NEW s \in Slots, NEW r \in Request \cup {NoReq}, Step(s, r),
           r # NoReq => /\ r.phase \in Way(r.outcome) /\ r.phase # "mark"
                        /\ r.phase = "link" => r.ticket \in Opened(r.user),
           UNCHANGED <<tickets, crashes>>,
           sessions' \in [Users -> Session], streak' \in [Users -> Nat \cup {Blurred}],
           \A u \in Users : /\ sessions'[u].ticket = sessions[u].ticket
                            /\ sessions'[u].status = sessions[u].status
    PROVE  DeskInv'
<1>1. /\ req' \in [Slots -> Request \cup {NoReq}] /\ req'[s] = r
      /\ \A q \in Slots \ {s} : req'[q] = req[q]
  BY SlotMoves DEF DeskInv
<1>2. SupportType'
  BY <1>1 DEF DeskInv, SupportType
<1>3. TicketIds' = TicketIds /\ \A v \in Users : Opened(v)' = Opened(v)
  BY DEF Opened, TicketIds
<1>4. RequestOK(s)'
  <2>1. s \in Busy' => r # NoReq /\ r \in Request
    BY <1>1 DEF Busy
  <2>2. r \in Request => r.user \in Users
    BY DEF Request
  <2> QED BY <1>1, <1>3, <2>1, <2>2 DEF RequestOK
<1>5. \A u \in Users : SessionOK(u)'
  BY <1>3 DEF DeskInv, SessionOK
<1>6. \A q \in Slots : /\ q \notin {s} => req'[q] = req[q]
                       /\ q \in {s} => RequestOK(q)'
  BY <1>1, <1>4
<1> QED BY <1>2, <1>3, <1>5, <1>6, DeskFrame

LEMMA DeskInvBegins ==
    ASSUME DeskInv, NEW s \in Slots, Begins(s)
    PROVE  DeskInv'
<1>1. PICK r \in Request :
        /\ Step(s, r) /\ r.phase \in Way(r.outcome) /\ r.phase \in {"create", "count", "look"}
        /\ streak' = IF r.outcome \in Outcomes
                     THEN [streak EXCEPT ![r.user] = IF Of(r.user) # {} THEN Blurred ELSE @]
                     ELSE streak
        /\ UNCHANGED <<tickets, sessions, crashes>>
  BY DEF Begins
<1>2. streak' \in [Users -> Nat \cup {Blurred}]
  BY <1>1 DEF DeskInv, SupportType
<1>3. sessions' \in [Users -> Session]
  BY <1>1 DEF DeskInv, SupportType
<1> QED BY <1>1, <1>2, <1>3, DeskInvMove

LEMMA InsertIs ==
    ASSUME DeskInv, NEW s \in Busy, InsertTicket(s)
    PROVE  \E next \in Request, row \in Ticket :
             LET r == req[s]
             IN  /\ r.phase = "create" /\ r \in Request
                 /\ tickets' = Append(tickets, row)
                 /\ row.handover <=> HandsOver(r)
                 /\ row.reporter = r.user
                 /\ Step(s, next) /\ next.ticket = Len(tickets) + 1
                 /\ next.user = r.user /\ next.outcome = r.outcome /\ next.rounds = r.rounds
                 /\ next.phase \in {"mark", "done", "link"} /\ next.phase \in Way(r.outcome)
                 /\ next.phase = "link" <=> HandsOver(r)
                 /\ UNCHANGED <<sessions, crashes, streak>>
<1> DEFINE r == req[s]
           row == [reporter |-> r.user, status |-> "pending", assignee |-> None,
                   answered |-> FALSE, escalated |-> FALSE, due |-> 0,
                   handover |-> r.outcome \in {"transfer", "button", "unanswered"}]
           p == CASE Urgent(r) -> "mark" [] r.outcome = "normal" -> "done" [] OTHER -> "link"
           next == [r EXCEPT !.ticket = Len(tickets) + 1, !.phase = p]
<1>1. s \in Slots /\ r \in Request /\ "create" \in Way(r.outcome) /\ r.phase = "create"
  BY BusyHasRequest DEF DeskInv, Busy, RequestOK, InsertTicket
<1>2. row \in Ticket /\ row.reporter = r.user
  BY <1>1 DEF Request, Ticket, Statuses
<1>3. row.handover <=> HandsOver(r)
  BY DEF HandsOver
<1>4. /\ p \in {"mark", "done", "link"} /\ p \in Way(r.outcome)
      /\ p = "link" <=> HandsOver(r)
  BY <1>1 DEF Urgent, Way, HandsOver, Request, Kinds, Outcomes
<1>5. /\ next \in Request /\ next.ticket = Len(tickets) + 1 /\ next.phase = p
      /\ next.user = r.user /\ next.outcome = r.outcome /\ next.rounds = r.rounds
  <2>1. Len(tickets) + 1 \in Nat /\ p \in Phases
    BY <1>4 DEF DeskInv, SupportType, Phases
  <2> HIDE DEF p
  <2> QED BY <1>1, <2>1 DEF Request
<1>6. tickets' = Append(tickets, row) /\ Step(s, next) /\ UNCHANGED <<sessions, crashes, streak>>
  BY DEF InsertTicket
<1> HIDE DEF next, row, p
<1> QED BY <1>1, <1>2, <1>3, <1>4, <1>5, <1>6

LEMMA DeskInvInsert ==
    ASSUME DeskInv, NEW s \in Busy, InsertTicket(s)
    PROVE  DeskInv'
<1>1. PICK next \in Request, row \in Ticket :
        /\ tickets' = Append(tickets, row)
        /\ row.handover <=> HandsOver(req[s])
        /\ row.reporter = req[s].user
        /\ Step(s, next) /\ next.ticket = Len(tickets) + 1
        /\ next.user = req[s].user /\ next.outcome = req[s].outcome
        /\ next.phase \in Way(req[s].outcome)
        /\ next.phase = "link" <=> HandsOver(req[s])
        /\ UNCHANGED <<sessions, crashes, streak>>
  BY InsertIs
<1>2. /\ tickets' \in Seq(Ticket) /\ TicketIds \subseteq TicketIds'
      /\ Len(tickets) + 1 \in TicketIds'
      /\ \A u \in Users : Opened(u)' = Opened(u) \cup
           (IF row.handover /\ row.reporter = u THEN {Len(tickets) + 1} ELSE {})
  BY <1>1, RowIsAdded DEF DeskInv
<1>3. /\ s \in Slots /\ req' \in [Slots -> Request \cup {NoReq}] /\ req'[s] = next
      /\ \A q \in Slots \ {s} : req'[q] = req[q]
  BY <1>1, SlotMoves DEF DeskInv, Busy
<1>4. SupportType'
  BY <1>1, <1>2, <1>3 DEF DeskInv, SupportType
<1>5. RequestOK(s)'
  <2>1. next.user \in Users /\ next.phase \in Way(next.outcome)
    BY <1>1 DEF Request
  <2>2. next.phase = "link" => Len(tickets) + 1 \in Opened(next.user)'
    BY <1>1, <1>2, <2>1
  <2> QED BY <1>1, <1>2, <1>3, <2>1, <2>2 DEF RequestOK
<1>6. \A u \in Users : Opened(u) \subseteq Opened(u)'
  BY <1>2
<1>7. \A u \in Users : SessionOK(u)'
  BY <1>1, <1>6, SessionsStay
<1>8. \A q \in Slots : /\ q \notin {s} => req'[q] = req[q]
                       /\ q \in {s} => RequestOK(q)'
  BY <1>3, <1>5
<1> QED BY <1>2, <1>4, <1>6, <1>7, <1>8, DeskFrame

LEMMA MarkIs ==
    ASSUME DeskInv, NEW s \in Busy, MarkUrgent(s)
    PROVE  \E next \in Request :
             LET r == req[s]
             IN  /\ r.phase = "mark" /\ r \in Request /\ r.ticket \in TicketIds
                 /\ Rewrites(r.ticket)
                 /\ Step(s, next) /\ next.phase \in {"count", "done"}
                 /\ next.phase \in Way(r.outcome)
                 /\ next.phase = "count" <=> r.outcome = "refund"
                 /\ next.user = r.user /\ next.outcome = r.outcome /\ next.rounds = r.rounds
                 /\ UNCHANGED <<sessions, crashes, streak>>
<1> DEFINE r == req[s]
           p == IF r.outcome = "refund" THEN "count" ELSE "done"
           next == [r EXCEPT !.phase = p]
<1>1. /\ s \in Slots /\ r \in Request /\ "mark" \in Way(r.outcome)
      /\ r.phase = "mark" /\ r.ticket \in TicketIds
  BY BusyHasRequest DEF DeskInv, Busy, RequestOK, MarkUrgent
<1>2. /\ tickets' = [tickets EXCEPT ![r.ticket].escalated = TRUE]
      /\ Step(s, next) /\ UNCHANGED <<sessions, crashes, streak>>
  BY DEF MarkUrgent
<1>3. Rewrites(r.ticket)
  BY <1>1, <1>2, EscalatedIsRewritten DEF DeskInv
<1>4. /\ next \in Request /\ next.phase = p /\ next.user = r.user
      /\ next.outcome = r.outcome /\ next.rounds = r.rounds
  BY <1>1 DEF Request, Phases
<1>5. p \in Way(r.outcome) /\ p \in {"count", "done"} /\ (p = "count" <=> r.outcome = "refund")
  BY <1>1 DEF Way, Request, Kinds, Outcomes
<1> HIDE DEF next, p
<1> QED BY <1>1, <1>2, <1>3, <1>4, <1>5

LEMMA DeskInvMark ==
    ASSUME DeskInv, NEW s \in Busy, MarkUrgent(s)
    PROVE  DeskInv'
<1>1. PICK next \in Request :
        /\ req[s].ticket \in TicketIds /\ Rewrites(req[s].ticket)
        /\ Step(s, next) /\ next.phase \in {"count", "done"}
        /\ next.phase \in Way(req[s].outcome)
        /\ next.outcome = req[s].outcome
        /\ UNCHANGED <<sessions, crashes, streak>>
  BY MarkIs
<1>2. /\ tickets' \in Seq(Ticket) /\ TicketIds' = TicketIds
      /\ \A u \in Users : Opened(u)' = Opened(u)
  BY <1>1, RowIsRewritten DEF Rewrites, DeskInv
<1>3. /\ s \in Slots /\ req' \in [Slots -> Request \cup {NoReq}] /\ req'[s] = next
      /\ \A q \in Slots \ {s} : req'[q] = req[q]
  BY <1>1, SlotMoves DEF DeskInv, Busy
<1>4. SupportType'
  BY <1>1, <1>2, <1>3 DEF DeskInv, SupportType
<1>5. RequestOK(s)'
  BY <1>1, <1>3 DEF RequestOK
<1>6. \A u \in Users : SessionOK(u)'
  BY <1>1, <1>2, SessionsStay
<1>7. \A q \in Slots : /\ q \notin {s} => req'[q] = req[q]
                       /\ q \in {s} => RequestOK(q)'
  BY <1>3, <1>5
<1> QED BY <1>2, <1>4, <1>6, <1>7, DeskFrame

LEMMA CountRoundIs ==
    ASSUME SupportType, NEW s \in Busy, CountRound(s)
    PROVE  \E n \in Nat, next \in Request :
             LET r == req[s]
             IN  /\ n = RoundsAfter(r) /\ r.phase = "count" /\ r \in Request
                 /\ Step(s, next) /\ next.phase = (IF n >= Rounds THEN "look" ELSE "done")
                 /\ next.user = r.user /\ next.outcome = r.outcome
                 /\ sessions' = [sessions EXCEPT ![r.user].rounds = n]
                 /\ sessions' \in [Users -> Session]
                 /\ streak' = [streak EXCEPT ![r.user] =
                        IF @ = Blurred THEN @
                        ELSE IF r.outcome = "unanswered" THEN @ + 1 ELSE 0]
                 /\ streak' \in [Users -> Nat \cup {Blurred}]
                 /\ UNCHANGED <<tickets, crashes>>
<1> DEFINE r == req[s]
           n == RoundsAfter(r)
           p == IF n >= Rounds THEN "look" ELSE "done"
           next == [r EXCEPT !.phase = p]
<1>1. r \in Request /\ r.phase = "count" /\ r.user \in Users /\ r.rounds \in Nat
  BY BusyHasRequest DEF CountRound, Busy, Request
<1>2. n \in Nat
  BY <1>1 DEF RoundsAfter
<1>3. next \in Request /\ next.phase = p /\ next.user = r.user /\ next.outcome = r.outcome
  BY <1>1 DEF Request, Phases
<1>4. /\ Step(s, next) /\ UNCHANGED <<tickets, crashes>>
      /\ sessions' = [sessions EXCEPT ![r.user].rounds = n]
      /\ streak' = [streak EXCEPT ![r.user] =
                      IF @ = Blurred THEN @
                      ELSE IF r.outcome = "unanswered" THEN @ + 1 ELSE 0]
  BY DEF CountRound
<1>5. sessions' \in [Users -> Session]
  BY <1>2, <1>4 DEF SupportType, Session
<1>6. streak' \in [Users -> Nat \cup {Blurred}]
  <2> DEFINE x == IF streak[r.user] = Blurred THEN streak[r.user]
                  ELSE IF r.outcome = "unanswered" THEN streak[r.user] + 1 ELSE 0
  <2>1. streak[r.user] \in Nat \cup {Blurred}
    BY <1>1 DEF SupportType
  <2>2. x \in Nat \cup {Blurred}
    BY <2>1
  <2>3. streak' = [streak EXCEPT ![r.user] = x]
    BY <1>4
  <2> QED BY <2>2, <2>3 DEF SupportType
<1> HIDE DEF n, next, r
<1> QED BY <1>1, <1>2, <1>3, <1>4, <1>5, <1>6 DEF n, r

LEMMA DeskInvCount ==
    ASSUME DeskInv, NEW s \in Busy, CountRound(s)
    PROVE  DeskInv'
<1>1. PICK n \in Nat, next \in Request :
        /\ n = RoundsAfter(req[s]) /\ req[s].phase = "count" /\ req[s] \in Request
        /\ Step(s, next) /\ next.phase = (IF n >= Rounds THEN "look" ELSE "done")
        /\ next.user = req[s].user /\ next.outcome = req[s].outcome
        /\ sessions' = [sessions EXCEPT ![req[s].user].rounds = n]
        /\ sessions' \in [Users -> Session]
        /\ streak' \in [Users -> Nat \cup {Blurred}]
        /\ UNCHANGED <<tickets, crashes>>
  BY CountRoundIs DEF DeskInv
<1>2. s \in Slots /\ "count" \in Way(req[s].outcome)
  BY <1>1 DEF DeskInv, RequestOK, Busy
<1>3. n >= Rounds => next.outcome = "unanswered"
  BY <1>1, SupportAssumption DEF RoundsAfter
<1>4. next.phase \in Way(next.outcome) /\ next.phase \in {"look", "done"}
  <2>1. next.outcome \in Kinds /\ "count" \in Way(next.outcome)
    BY <1>1, <1>2 DEF Request
  <2>2. next.outcome \in {"refund", "answered", "unanswered"}
    BY <2>1 DEF Way, Kinds, Outcomes
  <2> QED BY <1>1, <1>3, <2>2 DEF Way
<1>5. \A u \in Users : /\ sessions'[u].ticket = sessions[u].ticket
                       /\ sessions'[u].status = sessions[u].status
  BY <1>1 DEF DeskInv, SupportType, Session
<1> QED BY <1>1, <1>2, <1>4, <1>5, DeskInvMove

LEMMA LookIs ==
    ASSUME DeskInv, NEW s \in Busy, LookForTicket(s)
    PROVE  \E next \in Request :
             LET r == req[s]
                 t == sessions[r.user].ticket
             IN  /\ r.phase = "look" /\ r \in Request /\ HandsOver(r)
                 /\ Step(s, next) /\ next.phase = (IF t = 0 THEN "create" ELSE "link")
                 /\ next.user = r.user /\ next.outcome = r.outcome /\ next.ticket = t
                 /\ UNCHANGED <<tickets, sessions, crashes, streak>>
<1> DEFINE r == req[s]
           t == sessions[r.user].ticket
           p == IF t = 0 THEN "create" ELSE "link"
           next == [r EXCEPT !.ticket = t, !.phase = p]
<1>1. r \in Request /\ r.phase = "look" /\ r.user \in Users /\ r.phase \in Way(r.outcome)
  BY BusyHasRequest DEF LookForTicket, Busy, Request, DeskInv, RequestOK
<1>2. HandsOver(r)
  BY <1>1 DEF Way, HandsOver, Request, Kinds, Outcomes
<1>3. t \in Nat
  BY <1>1 DEF DeskInv, SupportType, Session
<1>4. /\ next \in Request /\ next.phase = p /\ next.user = r.user
      /\ next.outcome = r.outcome /\ next.ticket = t
  BY <1>1, <1>3 DEF Request, Phases
<1>5. Step(s, next) /\ UNCHANGED <<tickets, sessions, crashes, streak>>
  BY DEF LookForTicket, KnownTicket
<1> HIDE DEF next
<1> QED BY <1>1, <1>2, <1>4, <1>5

LEMMA DeskInvLook ==
    ASSUME DeskInv, NEW s \in Busy, LookForTicket(s)
    PROVE  DeskInv'
<1>1. PICK next \in Request :
        /\ req[s].phase = "look" /\ req[s] \in Request /\ HandsOver(req[s])
        /\ Step(s, next)
        /\ next.phase = (IF sessions[req[s].user].ticket = 0 THEN "create" ELSE "link")
        /\ next.user = req[s].user /\ next.outcome = req[s].outcome
        /\ next.ticket = sessions[req[s].user].ticket
        /\ UNCHANGED <<tickets, sessions, crashes, streak>>
  BY LookIs
<1>2. s \in Slots /\ next.user \in Users
  BY DEF Busy, Request
<1>3. next.phase \in Way(next.outcome) /\ next.phase \in {"create", "link"}
  BY <1>1 DEF Way, HandsOver
<1>4. next.phase = "link" => next.ticket \in Opened(next.user)
  BY <1>1, <1>2 DEF DeskInv, SessionOK
<1>5. sessions' \in [Users -> Session] /\ streak' \in [Users -> Nat \cup {Blurred}]
  BY <1>1 DEF DeskInv, SupportType
<1> QED BY <1>1, <1>2, <1>3, <1>4, <1>5, DeskInvMove

LEMMA LinkIs ==
    ASSUME DeskInv, NEW s \in Busy, LinkTicket(s)
    PROVE  \E next \in Request :
             LET r == req[s]
             IN  /\ r.phase = "link" /\ r \in Request /\ r.ticket \in Opened(r.user)
                 /\ Step(s, next) /\ next.phase = "done"
                 /\ next.user = r.user /\ next.outcome = r.outcome
                 /\ sessions' \in [Users -> Session]
                 /\ \A u \in Users \ {r.user} : sessions'[u] = sessions[u]
                 /\ sessions'[r.user].status = "transferred"
                 /\ sessions'[r.user].ticket = r.ticket
                 /\ sessions'[r.user].rounds = sessions[r.user].rounds
                 /\ UNCHANGED <<tickets, crashes, streak>>
<1> DEFINE r == req[s]
           next == [r EXCEPT !.phase = "done"]
<1>1. /\ r \in Request /\ r.phase = "link" /\ r.user \in Users /\ r.ticket \in Nat
      /\ r.ticket \in Opened(r.user)
  BY BusyHasRequest DEF LinkTicket, Busy, Request, DeskInv, RequestOK
<1>2. /\ next \in Request /\ next.phase = "done" /\ next.user = r.user
      /\ next.outcome = r.outcome
  BY <1>1 DEF Request, Phases
<1>3. /\ Step(s, next) /\ UNCHANGED <<tickets, crashes, streak>>
      /\ sessions' = [sessions EXCEPT ![r.user].status = "transferred",
                                      ![r.user].ticket = r.ticket]
  BY DEF LinkTicket
<1>4. /\ sessions' \in [Users -> Session]
      /\ \A u \in Users \ {r.user} : sessions'[u] = sessions[u]
      /\ sessions'[r.user].status = "transferred"
      /\ sessions'[r.user].ticket = r.ticket
      /\ sessions'[r.user].rounds = sessions[r.user].rounds
  BY <1>1, <1>3 DEF DeskInv, SupportType, Session
<1> HIDE DEF next
<1> QED BY <1>1, <1>2, <1>3, <1>4

LEMMA DeskInvLink ==
    ASSUME DeskInv, NEW s \in Busy, LinkTicket(s)
    PROVE  DeskInv'
<1>1. PICK next \in Request :
        /\ req[s].phase = "link" /\ req[s] \in Request /\ req[s].ticket \in Opened(req[s].user)
        /\ Step(s, next) /\ next.phase = "done"
        /\ next.user = req[s].user /\ next.outcome = req[s].outcome
        /\ sessions' \in [Users -> Session]
        /\ \A u \in Users \ {req[s].user} : sessions'[u] = sessions[u]
        /\ sessions'[req[s].user].ticket = req[s].ticket
        /\ UNCHANGED <<tickets, crashes, streak>>
  BY LinkIs
<1>2. s \in Slots /\ req[s].phase \in Way(req[s].outcome)
  BY DEF DeskInv, RequestOK, Busy
<1>3. /\ req' \in [Slots -> Request \cup {NoReq}] /\ req'[s] = next
      /\ \A q \in Slots \ {s} : req'[q] = req[q]
  BY <1>1, <1>2, SlotMoves DEF DeskInv
<1>4. SupportType'
  BY <1>1, <1>3 DEF DeskInv, SupportType
<1>5. TicketIds' = TicketIds /\ \A v \in Users : Opened(v)' = Opened(v)
  BY <1>1 DEF Opened, TicketIds
<1>6. RequestOK(s)'
  <2>1. "done" \in Way(next.outcome)
    BY <1>1, <1>2 DEF Way
  <2> QED BY <1>1, <1>3, <2>1 DEF RequestOK
<1>7. ASSUME NEW u \in Users PROVE SessionOK(u)'
  <2>1. CASE u = req[s].user
    <3>1. sessions'[u].ticket \in Opened(u)
      BY <1>1, <2>1
    <3>2. sessions'[u].ticket \in TicketIds
      BY <3>1 DEF Opened
    <3> QED BY <1>5, <3>1, <3>2, TicketRow DEF DeskInv, SessionOK
  <2>2. CASE u # req[s].user
    BY <1>1, <1>5, <2>2 DEF DeskInv, SessionOK
  <2> QED BY <2>1, <2>2
<1>8. \A q \in Slots : /\ q \notin {s} => req'[q] = req[q]
                       /\ q \in {s} => RequestOK(q)'
  BY <1>3, <1>6
<1> QED BY <1>4, <1>5, <1>7, <1>8, DeskFrame

LEMMA DeskInvRespond ==
    ASSUME DeskInv, NEW s \in Busy, Respond(s)
    PROVE  DeskInv'
<1>1. /\ s \in Slots /\ Step(s, NoReq) /\ UNCHANGED <<tickets, sessions, crashes, streak>>
  BY DEF Respond, Busy
<1>2. sessions' \in [Users -> Session] /\ streak' \in [Users -> Nat \cup {Blurred}]
  BY <1>1 DEF DeskInv, SupportType
<1> QED BY <1>1, <1>2, DeskInvMove

LEMMA DeskInvCrash ==
    ASSUME DeskInv, Crash
    PROVE  DeskInv'
<1>1. /\ req' = [s \in Slots |-> NoReq] /\ crashes' = crashes + 1
      /\ UNCHANGED <<tickets, sessions>>
      /\ streak' = [u \in Users |-> IF Of(u) # {} THEN Blurred ELSE streak[u]]
  BY DEF Crash
<1>2. SupportType'
  BY <1>1 DEF DeskInv, SupportType
<1>3. TicketIds' = TicketIds /\ \A v \in Users : Opened(v)' = Opened(v)
  BY <1>1 DEF Opened, TicketIds
<1>4. \A s \in Slots : RequestOK(s)'
  BY <1>1 DEF RequestOK, Busy
<1>5. \A u \in Users : SessionOK(u)'
  BY <1>1, <1>3, SessionsStay
<1> QED BY <1>2, <1>4, <1>5 DEF DeskInv

LEMMA DeskInvStep ==
    ASSUME DeskInv, [SupportNext /\ UNCHANGED scene]_supportVars
    PROVE  DeskInv'
<1>1. \/ Rests \/ DeskActs \/ Crash
      \/ \E u \in Users : StartSession(u)
      \/ \E s \in Slots : Begins(s)
      \/ \E s \in Busy : RequestActs(s)
  BY StepsAre DEF DeskInv
<1>2. ASSUME NEW s \in Busy, RequestActs(s) PROVE DeskInv'
  BY <1>2, DeskInvInsert, DeskInvMark, DeskInvCount, DeskInvLook, DeskInvLink, DeskInvRespond
  DEF RequestActs
<1> QED BY <1>1, <1>2, DeskInvTickets, DeskInvCrash, DeskInvStart, DeskInvBegins

LEMMA DeskInvInit == SupportInit => DeskInv
<1> SUFFICES ASSUME SupportInit PROVE DeskInv
  OBVIOUS
<1>1. tickets = <<>> /\ crashes = 0 /\ req = [s \in Slots |-> NoReq]
  BY DEF SupportInit
<1>2. sessions \in [Users -> Session] /\ \A u \in Users : sessions[u].ticket = 0
                                                       /\ sessions[u].status = None
  BY DEF SupportInit, Session
<1>3. streak \in [Users -> Nat \cup {Blurred}]
  BY DEF SupportInit
<1>4. SupportType
  BY <1>1, <1>2, <1>3 DEF SupportType
<1>5. \A s \in Slots : RequestOK(s)
  BY <1>1 DEF RequestOK, Busy
<1>6. \A u \in Users : SessionOK(u)
  BY <1>2 DEF SessionOK, None
<1> QED BY <1>4, <1>5, <1>6 DEF DeskInv

\* What any step does to a ticket.
LEMMA TicketsKeep ==
    ASSUME DeskInv, [SupportNext /\ UNCHANGED scene]_supportVars, NEW t \in TicketIds
    PROVE  /\ tickets[t].assignee # None => tickets'[t].assignee = tickets[t].assignee
           /\ tickets[t].status = "resolved" => tickets'[t].status = "resolved"
<1> DEFINE Keeps == /\ tickets[t].assignee # None => tickets'[t].assignee = tickets[t].assignee
                    /\ tickets[t].status = "resolved" => tickets'[t].status = "resolved"
<1>1. ASSUME NEW x \in TicketIds, Rewrites(x) PROVE Keeps
  <2>1. PICK row \in Ticket :
          /\ tickets' = [tickets EXCEPT ![x] = row]
          /\ tickets[x].assignee # None => row.assignee = tickets[x].assignee
          /\ tickets[x].status = "resolved" => row.status = "resolved"
    BY <1>1 DEF Rewrites
  <2>2. tickets \in Seq(Ticket)
    BY DEF DeskInv, SupportType
  <2>3. tickets'[t] = IF t = x THEN row ELSE tickets[t]
    BY <2>1, <2>2 DEF TicketIds
  <2> QED BY <2>1, <2>3
<1>2. ASSUME NEW s \in Busy, InsertTicket(s) PROVE Keeps
  <2>1. PICK row : tickets' = Append(tickets, row)
    BY <1>2 DEF InsertTicket
  <2>2. tickets'[t] = tickets[t]
    BY <2>1 DEF DeskInv, SupportType, TicketIds
  <2> QED BY <2>2
<1>3. ASSUME NEW s \in Busy, MarkUrgent(s) PROVE Keeps
  <2>1. req[s].ticket \in TicketIds
    BY <1>3 DEF DeskInv, RequestOK, MarkUrgent, Busy
  <2>2. Rewrites(req[s].ticket)
    BY <1>3, <2>1, EscalatedIsRewritten DEF MarkUrgent, DeskInv
  <2> QED BY <1>1, <2>1, <2>2
<1>4. CASE tickets' = tickets
  BY <1>4
<1>5. ASSUME NEW s \in Busy, RequestActs(s) PROVE Keeps
  BY <1>2, <1>3, <1>4, <1>5
  DEF RequestActs, CountRound, LookForTicket, LinkTicket, Respond
<1>6. \/ Rests \/ DeskActs \/ Crash
      \/ \E u \in Users : StartSession(u)
      \/ \E s \in Slots : Begins(s)
      \/ \E s \in Busy : RequestActs(s)
  BY StepsAre DEF DeskInv
<1> QED
  BY <1>1, <1>4, <1>5, <1>6 DEF Rests, DeskActs, Crash, StartSession, Begins

\* Whatever staff, users and the job do at the same time, and whatever list the job
\* works from, a ticket keeps who took it first and stays resolved (claim, resolve,
\* reply, escalate, autoEscalateDue).
THEOREM TicketsKeepTheirCourse == SupportSpec => TicketKeepsItsCourse
<1>1. SupportInit => DeskInv
  BY DeskInvInit
<1>2. DeskInv /\ [SupportNext /\ UNCHANGED scene]_supportVars => DeskInv'
  BY DeskInvStep
<1>3. DeskInv /\ [SupportNext /\ UNCHANGED scene]_supportVars =>
         [\A t \in TicketIds :
            /\ tickets[t].assignee # None => tickets'[t].assignee = tickets[t].assignee
            /\ tickets[t].status = "resolved" => tickets'[t].status = "resolved"]_supportVars
  BY TicketsKeep
<1> QED BY <1>1, <1>2, <1>3, PTL DEF SupportSpec, TicketKeepsItsCourse
-----------------------------------------------------------------------------
(* Hand-overs: how many tickets they open *)

\* Requests about to open a hand-over ticket of user u, and those that have opened one.
Creating(u) == {s \in Of(u) : req[s].phase = "create" /\ HandsOver(req[s])}
Linking(u)  == {s \in Of(u) : req[s].phase = "link"}

\* As long as the session knows of no ticket, each one opened since the last crash belongs
\* to a request that has yet to link it.
BoundOK(u) ==
    LET opened == Cardinality(Opened(u))
    IN  /\ opened + Cardinality(Creating(u)) <= Cardinality(Slots) * (1 + crashes)
        /\ sessions[u].ticket = 0 =>
             opened <= Cardinality(Slots) * crashes + Cardinality(Linking(u))

\* Counts of tickets and of slots.
LEMMA Numbers ==
    ASSUME NEW n \in Nat, NEW O \in SUBSET (1..n), NEW C \in SUBSET Slots,
           NEW L \in SUBSET Slots, L \cap C = {}
    PROVE  /\ Cardinality(O) \in Nat /\ IsFiniteSet(O)
           /\ Cardinality(C) \in Nat /\ IsFiniteSet(C)
           /\ Cardinality(L) \in Nat /\ IsFiniteSet(L)
           /\ Cardinality(Slots) \in Nat
           /\ Cardinality(L) + Cardinality(C) <= Cardinality(Slots)
<1>1. IsFiniteSet(Slots) /\ Cardinality(Slots) \in Nat
  BY SupportAssumption, FS_CardinalityType
<1>2. IsFiniteSet(1..n)
  BY FS_Interval
<1>3. IsFiniteSet(O) /\ IsFiniteSet(C) /\ IsFiniteSet(L)
  BY <1>1, <1>2, FS_Subset
<1>4. Cardinality(O) \in Nat /\ Cardinality(C) \in Nat /\ Cardinality(L) \in Nat
  BY <1>3, FS_CardinalityType
<1>5. Cardinality(L \cup C) = Cardinality(L) + Cardinality(C)
  <2>1. Cardinality(L \cap C) = 0
    BY FS_EmptySet
  <2>2. Cardinality(L \cup C) = Cardinality(L) + Cardinality(C) - Cardinality(L \cap C)
    BY <1>3, FS_Union
  <2> QED BY <1>4, <2>1, <2>2
<1>6. Cardinality(L \cup C) <= Cardinality(Slots)
  <2>1. L \cup C \in SUBSET Slots
    OBVIOUS
  <2> QED BY <1>1, <2>1, FS_Subset
<1> QED BY <1>1, <1>3, <1>4, <1>5, <1>6

LEMMA CountsAreNumbers ==
    ASSUME SupportType, NEW u
    PROVE  /\ Cardinality(Opened(u)) \in Nat /\ IsFiniteSet(Opened(u))
           /\ Cardinality(Creating(u)) \in Nat /\ IsFiniteSet(Creating(u))
           /\ Cardinality(Linking(u)) \in Nat /\ IsFiniteSet(Linking(u))
           /\ Cardinality(Slots) \in Nat /\ crashes \in Nat
           /\ Cardinality(Linking(u)) + Cardinality(Creating(u)) <= Cardinality(Slots)
<1>1. Len(tickets) \in Nat /\ Opened(u) \in SUBSET (1..Len(tickets)) /\ crashes \in Nat
  BY DEF SupportType, Opened, TicketIds
<1>2. /\ Creating(u) \in SUBSET Slots /\ Linking(u) \in SUBSET Slots
      /\ Linking(u) \cap Creating(u) = {}
  BY DEF Creating, Linking, Of, Busy
<1> QED BY <1>1, <1>2, Numbers

\* The same of the state a step leads to.
LEMMA CountsStayNumbers ==
    ASSUME SupportType', NEW u
    PROVE  /\ Cardinality(Opened(u)') \in Nat /\ IsFiniteSet(Opened(u)')
           /\ Cardinality(Creating(u)') \in Nat /\ IsFiniteSet(Creating(u)')
           /\ Cardinality(Linking(u)') \in Nat /\ IsFiniteSet(Linking(u)')
           /\ crashes' \in Nat
           /\ Cardinality(Linking(u)') + Cardinality(Creating(u)') <= Cardinality(Slots)
<1>1. Len(tickets') \in Nat /\ Opened(u)' \in SUBSET (1..Len(tickets')) /\ crashes' \in Nat
  BY DEF SupportType, Opened, TicketIds
<1>2. /\ Creating(u)' \in SUBSET Slots /\ Linking(u)' \in SUBSET Slots
      /\ Linking(u)' \cap Creating(u)' = {}
  BY DEF Creating, Linking, Of, Busy
<1> QED BY <1>1, <1>2, Numbers

\* What one more crash adds to the bound.
LEMMA OneMoreCrash ==
    ASSUME NEW n \in Nat, NEW c \in Nat
    PROVE  n * c \in Nat /\ n * (1 + c) = n * c + n
<1> QED OBVIOUS

LEMMA OfIs == ASSUME NEW u PROVE Of(u) = {s \in Slots : req[s] # NoReq /\ req[s].user = u}
<1> QED BY DEF Of, Busy

\* Which requests of a user are opening or linking once a request has moved on.
LEMMA MovesCount ==
    ASSUME SupportType, NEW s \in Slots, NEW r \in Request \cup {NoReq}, Step(s, r), NEW u
    PROVE  /\ Creating(u)' \subseteq Creating(u) \cup {s}
           /\ Creating(u) \subseteq Creating(u)' \cup {s}
           /\ s \in Creating(u)' <=> /\ r # NoReq /\ r.user = u
                                     /\ r.phase = "create" /\ HandsOver(r)
           /\ Linking(u) \subseteq Linking(u)' \cup {s}
           /\ r # NoReq /\ r.user = u /\ r.phase = "link" => s \in Linking(u)'
           /\ Linking(u)' \subseteq Linking(u) \cup {s}
<1>1. req'[s] = r /\ \A q \in Slots \ {s} : req'[q] = req[q]
    BY SlotMoves
<1>2. Of(u)' = {q \in Slots : req'[q] # NoReq /\ req'[q].user = u}
    BY DEF Of, Busy
<1> QED BY <1>1, <1>2, OfIs DEF Creating, Linking, HandsOver

\* Nothing is opened, no request comes to open one, and none that has to link is lost.
LEMMA BoundStays ==
    ASSUME DeskInv, SupportType', NEW u \in Users, BoundOK(u),
           Opened(u)' = Opened(u), Creating(u)' \subseteq Creating(u),
           crashes' = crashes,
           sessions'[u].ticket = 0 => sessions[u].ticket = 0 /\ Linking(u) \subseteq Linking(u)'
    PROVE  BoundOK(u)'
<1>1. /\ Cardinality(Opened(u)) \in Nat
      /\ Cardinality(Creating(u)) \in Nat /\ IsFiniteSet(Creating(u))
      /\ Cardinality(Linking(u)) \in Nat /\ Cardinality(Slots) \in Nat /\ crashes \in Nat
    BY CountsAreNumbers DEF DeskInv
<1>2. /\ Cardinality(Creating(u)') \in Nat
      /\ Cardinality(Linking(u)') \in Nat /\ IsFiniteSet(Linking(u)')
    BY CountsStayNumbers
<1>3. Cardinality(Creating(u)') <= Cardinality(Creating(u))
    BY <1>1, FS_Subset
<1>4. sessions'[u].ticket = 0 => Cardinality(Linking(u)) <= Cardinality(Linking(u)')
    BY <1>2, FS_Subset
<1>5. Cardinality(Slots) * crashes \in Nat /\ Cardinality(Slots) * (1 + crashes) \in Nat
    BY <1>1, OneMoreCrash
<1> DEFINE bound == Cardinality(Slots) * (1 + crashes)
           base  == Cardinality(Slots) * crashes
<1>6. /\ Cardinality(Opened(u)) + Cardinality(Creating(u)) <= bound
      /\ sessions[u].ticket = 0 =>
            Cardinality(Opened(u)) <= base + Cardinality(Linking(u))
      /\ bound' = bound /\ base' = base /\ bound \in Nat /\ base \in Nat
    BY <1>5 DEF BoundOK
<1> HIDE DEF bound, base
<1>7. /\ Cardinality(Opened(u)') + Cardinality(Creating(u)') <= bound'
      /\ sessions'[u].ticket = 0 =>
            Cardinality(Opened(u)') <= base' + Cardinality(Linking(u)')
    BY <1>1, <1>2, <1>3, <1>4, <1>6
<1> QED BY <1>7 DEF BoundOK, bound, base

\* While the session knows of no ticket, the bound leaves room for all that are opening.
LEMMA RoomToOpen ==
    ASSUME NEW opened \in Nat, NEW creating \in Nat, NEW linking \in Nat, NEW n \in Nat,
           NEW c \in Nat, linking + creating <= n, opened <= n * c + linking
    PROVE  opened + creating <= n * (1 + c)
<1> DEFINE base == n * c
<1>1. base \in Nat /\ n * (1 + c) = base + n /\ opened <= base + linking
  BY OneMoreCrash
<1> HIDE DEF base
<1> QED BY <1>1

LEMMA BoundInsert ==
    ASSUME DeskInv, DeskInv', NEW s \in Busy, InsertTicket(s), NEW u \in Users, BoundOK(u)
    PROVE  BoundOK(u)'
<1>1. PICK next \in Request, row \in Ticket :
        /\ req[s].phase = "create" /\ req[s] \in Request
        /\ tickets' = Append(tickets, row)
        /\ row.handover <=> HandsOver(req[s])
        /\ row.reporter = req[s].user
        /\ Step(s, next)
        /\ next.user = req[s].user
        /\ next.phase \in {"mark", "done", "link"}
        /\ next.phase = "link" <=> HandsOver(req[s])
        /\ UNCHANGED <<sessions, crashes, streak>>
  BY InsertIs
<1>2. /\ Len(tickets) + 1 \notin TicketIds
      /\ Opened(u)' = Opened(u) \cup
           (IF row.handover /\ row.reporter = u THEN {Len(tickets) + 1} ELSE {})
  BY <1>1, RowIsAdded DEF DeskInv
<1>3. /\ s \in Slots /\ SupportType /\ SupportType' /\ next \in Request \cup {NoReq}
      /\ next # NoReq
  BY <1>1 DEF Busy, DeskInv, NoReq
<1>4. /\ Creating(u)' \subseteq Creating(u) \cup {s}
      /\ Creating(u) \subseteq Creating(u)' \cup {s}
      /\ s \notin Creating(u)'
      /\ Linking(u) \subseteq Linking(u)' \cup {s}
      /\ next.user = u /\ next.phase = "link" => s \in Linking(u)'
      /\ Linking(u)' \subseteq Linking(u) \cup {s}
  BY <1>1, <1>3, MovesCount
<1>5. s \notin Linking(u)
  BY <1>1 DEF Linking
<1>6. CASE ~(row.handover /\ row.reporter = u)
  <2>1. Opened(u)' = Opened(u) /\ Creating(u)' \subseteq Creating(u) /\ Linking(u) \subseteq Linking(u)'
    BY <1>2, <1>4, <1>5, <1>6
  <2> QED BY <1>1, <1>3, <2>1, BoundStays
<1>7. CASE row.handover /\ row.reporter = u
  <2>1. /\ Opened(u)' = Opened(u) \cup {Len(tickets) + 1} /\ Len(tickets) + 1 \notin Opened(u)
    BY <1>2, <1>7 DEF Opened
  <2>2. /\ Creating(u) = Creating(u)' \cup {s} /\ s \notin Creating(u)'
    <3>1. s \in Creating(u)
      BY <1>1, <1>7 DEF Creating, Of
    <3> QED BY <1>4, <3>1
  <2>3. /\ Linking(u)' = Linking(u) \cup {s} /\ s \notin Linking(u)
    BY <1>1, <1>4, <1>5, <1>7
  <2>4. /\ Cardinality(Opened(u)) \in Nat /\ IsFiniteSet(Opened(u))
        /\ Cardinality(Linking(u)) \in Nat /\ IsFiniteSet(Linking(u))
        /\ Cardinality(Slots) \in Nat /\ crashes \in Nat
    BY <1>3, CountsAreNumbers
  <2>5. Cardinality(Creating(u)') \in Nat /\ IsFiniteSet(Creating(u)')
    BY <1>3, CountsStayNumbers
  <2>6. /\ Cardinality(Opened(u)') = Cardinality(Opened(u)) + 1
        /\ Cardinality(Creating(u)) = Cardinality(Creating(u)') + 1
        /\ Cardinality(Linking(u)') = Cardinality(Linking(u)) + 1
    BY <2>1, <2>2, <2>3, <2>4, <2>5, FS_AddElement
  <2> DEFINE bound == Cardinality(Slots) * (1 + crashes)
             base  == Cardinality(Slots) * crashes
  <2>7. /\ Cardinality(Opened(u)) + Cardinality(Creating(u)) <= bound
        /\ sessions[u].ticket = 0 =>
              Cardinality(Opened(u)) <= base + Cardinality(Linking(u))
        /\ bound' = bound /\ base' = base /\ bound \in Nat /\ base \in Nat
    BY <1>1, <2>4, OneMoreCrash DEF BoundOK
  <2>8. sessions'[u].ticket = sessions[u].ticket
    BY <1>1
  <2> HIDE DEF bound, base
  <2>9. /\ Cardinality(Opened(u)') + Cardinality(Creating(u)') <= bound'
        /\ sessions'[u].ticket = 0 =>
              Cardinality(Opened(u)') <= base' + Cardinality(Linking(u)')
    BY <2>4, <2>5, <2>6, <2>7, <2>8
  <2> QED BY <2>9 DEF BoundOK, bound, base
<1> QED BY <1>6, <1>7

\* A request that looks for the session's ticket and finds none comes to open one.
LEMMA BoundLook ==
    ASSUME DeskInv, DeskInv', NEW s \in Busy, LookForTicket(s), NEW u \in Users, BoundOK(u)
    PROVE  BoundOK(u)'
<1>1. PICK next \in Request :
        /\ req[s].phase = "look" /\ req[s] \in Request
        /\ Step(s, next)
        /\ next.phase = (IF sessions[req[s].user].ticket = 0 THEN "create" ELSE "link")
        /\ next.user = req[s].user
        /\ UNCHANGED <<tickets, sessions, crashes, streak>>
  BY LookIs
<1>2. /\ s \in Slots /\ SupportType /\ SupportType' /\ next \in Request \cup {NoReq}
      /\ next # NoReq
  BY <1>1 DEF Busy, DeskInv, NoReq
<1>3. /\ Creating(u)' \subseteq Creating(u) \cup {s}
      /\ s \in Creating(u)' => next.user = u /\ next.phase = "create"
      /\ Linking(u) \subseteq Linking(u)' \cup {s}
  BY <1>1, <1>2, MovesCount
<1>4. s \notin Linking(u) /\ Opened(u)' = Opened(u)
  BY <1>1 DEF Linking, Opened, TicketIds
<1>5. CASE sessions[u].ticket # 0 \/ req[s].user # u
  <2>1. Creating(u)' \subseteq Creating(u) /\ Linking(u) \subseteq Linking(u)'
    BY <1>1, <1>3, <1>4, <1>5
  <2> QED BY <1>1, <1>2, <1>4, <2>1, BoundStays
<1>6. CASE sessions[u].ticket = 0
  <2>1. Linking(u) \subseteq Linking(u)'
    BY <1>3, <1>4
  <2>2. Cardinality(Linking(u)) <= Cardinality(Linking(u)')
    <3>1. IsFiniteSet(Linking(u)')
      BY <1>2, CountsStayNumbers
    <3> QED BY <2>1, <3>1, FS_Subset
  <2>3. /\ Cardinality(Opened(u)) \in Nat /\ Cardinality(Linking(u)) \in Nat
        /\ Cardinality(Slots) \in Nat /\ crashes \in Nat
    BY <1>2, CountsAreNumbers
  <2>4. /\ Cardinality(Linking(u)') \in Nat /\ Cardinality(Creating(u)') \in Nat
        /\ Cardinality(Opened(u)') \in Nat /\ crashes' \in Nat
        /\ Cardinality(Linking(u)') + Cardinality(Creating(u)') <= Cardinality(Slots)
    BY <1>2, CountsStayNumbers
  <2> DEFINE base == Cardinality(Slots) * crashes
  <2>5. base \in Nat /\ base' = base
    BY <1>1, <2>3, OneMoreCrash
  <2>6. Cardinality(Opened(u)) <= base + Cardinality(Linking(u))
    BY <1>6 DEF BoundOK
  <2> HIDE DEF base
  <2>7. Cardinality(Opened(u)') <= base' + Cardinality(Linking(u)')
    BY <1>4, <2>2, <2>3, <2>4, <2>5, <2>6
  <2>8. Cardinality(Opened(u)') + Cardinality(Creating(u)') <= Cardinality(Slots) * (1 + crashes')
    <3>1. Cardinality(Opened(u)') <= Cardinality(Slots) * crashes' + Cardinality(Linking(u)')
      BY <2>7 DEF base
    <3> QED BY <2>3, <2>4, <3>1, RoomToOpen
  <2> QED BY <2>7, <2>8 DEF BoundOK, base
<1> QED BY <1>5, <1>6

\* The session learns of its ticket: from here on nobody comes to open another.
LEMMA BoundLink ==
    ASSUME DeskInv, DeskInv', NEW s \in Busy, LinkTicket(s), NEW u \in Users, BoundOK(u)
    PROVE  BoundOK(u)'
<1>1. PICK next \in Request :
        /\ req[s].phase = "link" /\ req[s] \in Request /\ req[s].ticket \in Opened(req[s].user)
        /\ Step(s, next) /\ next.phase = "done"
        /\ next.user = req[s].user
        /\ \A v \in Users \ {req[s].user} : sessions'[v] = sessions[v]
        /\ sessions'[req[s].user].ticket = req[s].ticket
        /\ UNCHANGED <<tickets, crashes, streak>>
  BY LinkIs
<1>2. /\ s \in Slots /\ SupportType /\ SupportType' /\ next \in Request \cup {NoReq}
  BY <1>1 DEF Busy, DeskInv
<1>3. /\ Creating(u)' \subseteq Creating(u) \cup {s} /\ s \notin Creating(u)'
      /\ Linking(u) \subseteq Linking(u)' \cup {s}
  BY <1>1, <1>2, MovesCount
<1>4. Opened(u)' = Opened(u) /\ Creating(u)' \subseteq Creating(u)
  BY <1>1, <1>3 DEF Opened, TicketIds
<1>5. u = req[s].user => sessions'[u].ticket # 0
  <2>1. req[s].ticket \in TicketIds
    BY <1>1 DEF Opened
  <2> QED BY <1>1, <1>2, <2>1, TicketRow
<1>6. u # req[s].user => s \notin Linking(u) /\ sessions'[u] = sessions[u]
  BY <1>1 DEF Linking, Of
<1> QED BY <1>1, <1>2, <1>3, <1>4, <1>5, <1>6, BoundStays

\* A request begins, or one that opens no ticket and links none moves on.
LEMMA BoundMove ==
    ASSUME DeskInv, DeskInv', NEW s \in Slots, NEW r \in Request \cup {NoReq}, Step(s, r),
           r # NoReq => ~(r.phase = "create" /\ HandsOver(r)),
           s \in Busy => req[s].phase # "link",
           NEW u \in Users, BoundOK(u), Opened(u)' = Opened(u),
           sessions'[u].ticket = sessions[u].ticket, crashes' = crashes
    PROVE  BoundOK(u)'
<1>1. /\ Creating(u)' \subseteq Creating(u) \cup {s} /\ s \notin Creating(u)'
      /\ Linking(u) \subseteq Linking(u)' \cup {s}
  BY MovesCount DEF DeskInv
<1>2. s \notin Linking(u)
  BY DEF Linking, Of
<1> QED BY <1>1, <1>2, BoundStays DEF DeskInv

LEMMA BoundCrash ==
    ASSUME DeskInv, DeskInv', Crash, NEW u \in Users, BoundOK(u)
    PROVE  BoundOK(u)'
<1>1. /\ req' = [s \in Slots |-> NoReq] /\ crashes' = crashes + 1
      /\ UNCHANGED <<tickets, sessions>>
  BY DEF Crash
<1>2. Creating(u)' = {} /\ Linking(u)' = {} /\ Opened(u)' = Opened(u)
  BY <1>1 DEF Creating, Linking, Of, Busy, Opened, TicketIds
<1>3. Cardinality(Creating(u)') = 0 /\ Cardinality(Linking(u)') = 0
  BY <1>2, FS_EmptySet
<1>4. /\ Cardinality(Opened(u)) \in Nat /\ Cardinality(Creating(u)) \in Nat
      /\ Cardinality(Linking(u)) \in Nat /\ Cardinality(Slots) \in Nat /\ crashes \in Nat
      /\ Cardinality(Linking(u)) + Cardinality(Creating(u)) <= Cardinality(Slots)
  BY CountsAreNumbers DEF DeskInv
<1> DEFINE base == Cardinality(Slots) * crashes
           n    == Cardinality(Slots)
<1>5. /\ base \in Nat /\ n \in Nat /\ n * (1 + crashes) = base + n
      /\ n * crashes' = base + n /\ n * (1 + crashes') = base + n + n
  <2>1. base \in Nat /\ n * (1 + crashes) = base + n /\ n * crashes' = base + n
    BY <1>1, <1>4, OneMoreCrash
  <2>2. crashes' \in Nat
    BY <1>1, <1>4
  <2>3. n * (1 + crashes') = n * crashes' + n
    BY <1>4, <2>2, OneMoreCrash
  <2> QED BY <1>4, <2>1, <2>3
<1>6. /\ Cardinality(Opened(u)) + Cardinality(Creating(u)) <= base + n
      /\ sessions[u].ticket = 0 => Cardinality(Opened(u)) <= base + Cardinality(Linking(u))
  BY <1>5 DEF BoundOK
<1>7. Cardinality(Linking(u)) <= n
  BY <1>4
<1> HIDE DEF base, n
<1>8. /\ Cardinality(Opened(u)') + Cardinality(Creating(u)') <= n * (1 + crashes')
      /\ sessions'[u].ticket = 0 =>
            Cardinality(Opened(u)') <= n * crashes' + Cardinality(Linking(u)')
  BY <1>1, <1>2, <1>3, <1>4, <1>5, <1>6, <1>7
<1> QED BY <1>8 DEF BoundOK, n

LEMMA BoundStep ==
    ASSUME DeskInv, DeskInv', [SupportNext /\ UNCHANGED scene]_supportVars, NEW u \in Users, BoundOK(u)
    PROVE  BoundOK(u)'
<1>0. SupportType'
  BY DEF DeskInv
<1>1. ASSUME UNCHANGED <<req, crashes>>, Opened(u)' = Opened(u),
             sessions'[u].ticket = sessions[u].ticket
      PROVE  BoundOK(u)'
  <2>1. Creating(u)' = Creating(u) /\ Linking(u)' = Linking(u)
    BY <1>1 DEF Creating, Linking, Of, Busy
  <2> QED BY <1>0, <1>1, <2>1, BoundStays
<1>2. CASE Rests \/ DeskActs
  <2>1. UNCHANGED <<sessions, req, crashes, streak>>
    BY <1>2 DEF Rests, DeskActs
  <2>2. Opened(u)' = Opened(u)
    <3>1. CASE Rests
      BY <3>1 DEF Rests, TicketIds, Opened
    <3>2. CASE DeskActs
      BY <3>2, RowIsRewritten DEF DeskActs, Rewrites, DeskInv
    <3> QED BY <1>2, <3>1, <3>2
  <2> QED BY <1>1, <2>1, <2>2
<1>3. ASSUME NEW v \in Users, StartSession(v) PROVE BoundOK(u)'
  <2>1. /\ UNCHANGED <<tickets, req, crashes, streak>>
        /\ sessions'[u].ticket = sessions[u].ticket
    BY <1>3 DEF StartSession, DeskInv, SupportType, Session
  <2>2. Opened(u)' = Opened(u)
    BY <2>1 DEF Opened, TicketIds
  <2> QED BY <1>1, <2>1, <2>2
<1>4. ASSUME NEW s \in Slots, Begins(s) PROVE BoundOK(u)'
  <2>1. PICK r \in Request :
          /\ req[s] = NoReq /\ Step(s, r)
          /\ r.phase = "create" => ~HandsOver(r)
          /\ UNCHANGED <<tickets, sessions, crashes>>
    BY <1>4 DEF Begins
  <2>2. Opened(u)' = Opened(u) /\ s \notin Busy
    BY <2>1 DEF Opened, TicketIds, Busy
  <2> QED BY <2>1, <2>2, BoundMove
<1>5. ASSUME NEW s \in Busy, MarkUrgent(s) PROVE BoundOK(u)'
  <2>1. PICK next \in Request :
          /\ req[s].phase = "mark" /\ req[s].ticket \in TicketIds /\ Rewrites(req[s].ticket)
          /\ Step(s, next) /\ next.phase \in {"count", "done"}
          /\ UNCHANGED <<sessions, crashes, streak>>
    BY <1>5, MarkIs
  <2>2. Opened(u)' = Opened(u) /\ s \in Slots
    BY <2>1, RowIsRewritten DEF Rewrites, DeskInv, Busy
  <2> QED BY <2>1, <2>2, BoundMove
<1>6. ASSUME NEW s \in Busy, CountRound(s) PROVE BoundOK(u)'
  <2>1. PICK n \in Nat, next \in Request :
          /\ req[s].phase = "count" /\ req[s] \in Request
          /\ Step(s, next) /\ next.phase = (IF n >= Rounds THEN "look" ELSE "done")
          /\ sessions' = [sessions EXCEPT ![req[s].user].rounds = n]
          /\ UNCHANGED <<tickets, crashes>>
    BY <1>6, CountRoundIs DEF DeskInv
  <2>2. /\ Opened(u)' = Opened(u) /\ s \in Slots
        /\ sessions'[u].ticket = sessions[u].ticket
    BY <2>1 DEF Opened, TicketIds, Busy, DeskInv, SupportType, Session
  <2> QED BY <2>1, <2>2, BoundMove
<1>7. ASSUME NEW s \in Busy, Respond(s) PROVE BoundOK(u)'
  <2>1. /\ s \in Slots /\ Step(s, NoReq) /\ UNCHANGED <<tickets, sessions, crashes, streak>>
        /\ req[s].phase = "done"
    BY <1>7 DEF Respond, Busy
  <2>2. Opened(u)' = Opened(u)
    BY <2>1 DEF Opened, TicketIds
  <2> QED BY <2>1, <2>2, BoundMove
<1>8. ASSUME NEW s \in Busy, RequestActs(s) PROVE BoundOK(u)'
  BY <1>5, <1>6, <1>7, <1>8, BoundInsert, BoundLook, BoundLink DEF RequestActs
<1>9. \/ Rests \/ DeskActs \/ Crash
      \/ \E v \in Users : StartSession(v)
      \/ \E s \in Slots : Begins(s)
      \/ \E s \in Busy : RequestActs(s)
  BY StepsAre DEF DeskInv
<1> QED BY <1>2, <1>3, <1>4, <1>8, <1>9, BoundCrash
-----------------------------------------------------------------------------
(* The count of unresolved rounds *)

\* Messages of user u under way, by what becomes of the count of the session.
Messages(u)  == {s \in Of(u) : req[s].outcome \in Outcomes}
Uncounted(r) == r.phase = "count" \/ (r.outcome = "refund" /\ r.phase \in {"create", "mark"})
Waiting(u)   == {s \in Of(u) : req[s].outcome = "unanswered"
                               /\ req[s].phase \in {"look", "create", "link"}}

\* Messages that do not overlap carry the count the session still has, and a user with
\* enough unresolved rounds is handed over or has the request that does it under way.
StreakOK(u) ==
    streak[u] # Blurred =>
      /\ sessions[u].rounds = streak[u]
      /\ \A s, q \in Messages(u) : s = q
      /\ \A s \in Messages(u) : Uncounted(req[s]) => req[s].rounds = sessions[u].rounds
      /\ streak[u] >= Rounds => sessions[u].status = "transferred" \/ Waiting(u) # {}

\* A request moves on without touching the count.
Quiet(s, r, u) ==
    /\ Step(s, r)
    /\ streak'[u] = streak[u] /\ sessions'[u].rounds = sessions[u].rounds
    /\ sessions[u].status = "transferred" => sessions'[u].status = "transferred"
    /\ r # NoReq /\ r.user = u /\ r.outcome \in Outcomes =>
         /\ s \in Messages(u)
         /\ Uncounted(r) => Uncounted(req[s]) /\ r.rounds = req[s].rounds
    /\ s \in Waiting(u) =>
         \/ sessions'[u].status = "transferred"
         \/ /\ r # NoReq /\ r.user = u /\ r.outcome = "unanswered"
            /\ r.phase \in {"look", "create", "link"}

LEMMA StreakFrame ==
    ASSUME DeskInv, NEW s \in Slots, NEW r \in Request \cup {NoReq}, NEW u \in Users,
           Quiet(s, r, u), StreakOK(u)
    PROVE  StreakOK(u)'
<1>1. req'[s] = r /\ \A q \in Slots \ {s} : req'[q] = req[q]
  BY SlotMoves DEF DeskInv, Quiet
<1>2. Of(u)' = {q \in Slots : req'[q] # NoReq /\ req'[q].user = u}
  BY DEF Of, Busy
<1>3. \A q \in Messages(u)' : q \in Messages(u) /\ (q # s => req'[q] = req[q])
  BY <1>1, <1>2, OfIs DEF Messages, Quiet
<1>4. \A q \in Messages(u)' :
         Uncounted(req'[q]) => Uncounted(req[q]) /\ req'[q].rounds = req[q].rounds
  BY <1>1, <1>2, <1>3 DEF Messages, Quiet
<1>5. \A q \in Waiting(u) : q \in Waiting(u)' \/ sessions'[u].status = "transferred"
  BY <1>1, <1>2, OfIs DEF Waiting, Quiet
<1> SUFFICES ASSUME streak'[u] # Blurred
             PROVE  /\ sessions'[u].rounds = streak'[u]
                    /\ \A q, p \in Messages(u)' : q = p
                    /\ \A q \in Messages(u)' :
                         Uncounted(req'[q]) => req'[q].rounds = sessions'[u].rounds
                    /\ streak'[u] >= Rounds =>
                         sessions'[u].status = "transferred" \/ Waiting(u)' # {}
  BY DEF StreakOK, Uncounted, Blurred
<1>6. /\ sessions[u].rounds = streak[u]
      /\ \A q, p \in Messages(u) : q = p
      /\ \A q \in Messages(u) : Uncounted(req[q]) => req[q].rounds = sessions[u].rounds
      /\ streak[u] >= Rounds => sessions[u].status = "transferred" \/ Waiting(u) # {}
  BY DEF StreakOK, Quiet
<1>7. sessions'[u].rounds = streak'[u]
  BY <1>6 DEF Quiet
<1>8. \A q, p \in Messages(u)' : q = p
  BY <1>3, <1>6
<1>9. \A q \in Messages(u)' : Uncounted(req'[q]) => req'[q].rounds = sessions'[u].rounds
  BY <1>3, <1>4, <1>6 DEF Quiet
<1>10. streak'[u] >= Rounds => sessions'[u].status = "transferred" \/ Waiting(u)' # {}
  BY <1>5, <1>6 DEF Quiet
<1> QED BY <1>7, <1>8, <1>9, <1>10

LEMMA StreakInsert ==
    ASSUME DeskInv, NEW s \in Busy, InsertTicket(s), NEW u \in Users, StreakOK(u)
    PROVE  StreakOK(u)'
<1>1. PICK next \in Request, row \in Ticket :
        /\ req[s].phase = "create" /\ req[s] \in Request
        /\ Step(s, next)
        /\ next.user = req[s].user /\ next.outcome = req[s].outcome
        /\ next.rounds = req[s].rounds
        /\ next.phase \in {"mark", "done", "link"} /\ next.phase \in Way(req[s].outcome)
        /\ next.phase = "link" <=> HandsOver(req[s])
        /\ UNCHANGED <<sessions, crashes, streak>>
  BY InsertIs
<1>2. s \in Slots /\ next # NoReq
  BY <1>1 DEF Busy, NoReq
<1>3. next.user = u /\ next.outcome \in Outcomes => s \in Messages(u)
  BY <1>1 DEF Messages, Of
<1>4. Uncounted(next) => Uncounted(req[s])
  <2>1. next.outcome \in Kinds /\ next.phase \in Way(next.outcome)
    BY <1>1 DEF Request
  <2> QED BY <1>1, <2>1 DEF Uncounted, Way, Kinds, Outcomes
<1>5. s \in Waiting(u) => next.user = u /\ next.outcome = "unanswered" /\ next.phase = "link"
  BY <1>1 DEF Waiting, Of, HandsOver
<1>6. Quiet(s, next, u)
  BY <1>1, <1>2, <1>3, <1>4, <1>5 DEF Quiet
<1> QED BY <1>2, <1>6, StreakFrame

LEMMA StreakMark ==
    ASSUME DeskInv, NEW s \in Busy, MarkUrgent(s), NEW u \in Users, StreakOK(u)
    PROVE  StreakOK(u)'
<1>1. PICK next \in Request :
        /\ req[s].phase = "mark" /\ req[s] \in Request
        /\ Step(s, next)
        /\ next.phase \in {"count", "done"}
        /\ next.phase = "count" <=> req[s].outcome = "refund"
        /\ next.user = req[s].user /\ next.outcome = req[s].outcome
        /\ next.rounds = req[s].rounds
        /\ UNCHANGED <<sessions, crashes, streak>>
  BY MarkIs
<1>2. s \in Slots /\ next # NoReq
  BY <1>1 DEF Busy, NoReq
<1>3. next.user = u /\ next.outcome \in Outcomes => s \in Messages(u)
  BY <1>1 DEF Messages, Of
<1>4. Uncounted(next) => Uncounted(req[s])
  BY <1>1 DEF Uncounted
<1>5. s \notin Waiting(u)
  BY <1>1 DEF Waiting
<1>6. Quiet(s, next, u)
  BY <1>1, <1>2, <1>3, <1>4, <1>5 DEF Quiet
<1> QED BY <1>2, <1>6, StreakFrame

LEMMA StreakLook ==
    ASSUME DeskInv, NEW s \in Busy, LookForTicket(s), NEW u \in Users, StreakOK(u)
    PROVE  StreakOK(u)'
<1>1. PICK next \in Request :
        /\ req[s].phase = "look" /\ req[s] \in Request /\ HandsOver(req[s])
        /\ Step(s, next)
        /\ next.phase = (IF sessions[req[s].user].ticket = 0 THEN "create" ELSE "link")
        /\ next.user = req[s].user /\ next.outcome = req[s].outcome
        /\ UNCHANGED <<tickets, sessions, crashes, streak>>
  BY LookIs
<1>2. s \in Slots /\ next # NoReq
  BY <1>1 DEF Busy, NoReq
<1>3. next.user = u /\ next.outcome \in Outcomes => s \in Messages(u)
  BY <1>1 DEF Messages, Of
<1>4. ~Uncounted(next)
  BY <1>1 DEF Uncounted, HandsOver
<1>5. s \in Waiting(u) => /\ next.user = u /\ next.outcome = "unanswered"
                          /\ next.phase \in {"create", "link"}
  BY <1>1 DEF Waiting, Of
<1>6. Quiet(s, next, u)
  BY <1>1, <1>2, <1>3, <1>4, <1>5 DEF Quiet
<1> QED BY <1>2, <1>6, StreakFrame

LEMMA StreakLink ==
    ASSUME DeskInv, NEW s \in Busy, LinkTicket(s), NEW u \in Users, StreakOK(u)
    PROVE  StreakOK(u)'
<1>1. PICK next \in Request :
        /\ req[s].phase = "link" /\ req[s] \in Request
        /\ Step(s, next) /\ next.phase = "done"
        /\ next.user = req[s].user /\ next.outcome = req[s].outcome
        /\ \A v \in Users \ {req[s].user} : sessions'[v] = sessions[v]
        /\ sessions'[req[s].user].status = "transferred"
        /\ sessions'[req[s].user].rounds = sessions[req[s].user].rounds
        /\ UNCHANGED <<tickets, crashes, streak>>
  BY LinkIs
<1>2. s \in Slots /\ next # NoReq
  BY <1>1 DEF Busy, NoReq
<1>3. next.user = u /\ next.outcome \in Outcomes => s \in Messages(u)
  BY <1>1 DEF Messages, Of
<1>4. ~Uncounted(next)
  BY <1>1 DEF Uncounted
<1>5. s \in Waiting(u) => sessions'[u].status = "transferred"
  BY <1>1 DEF Waiting, Of
<1>6. Quiet(s, next, u)
  BY <1>1, <1>2, <1>3, <1>4, <1>5 DEF Quiet
<1> QED BY <1>2, <1>6, StreakFrame

LEMMA StreakRespond ==
    ASSUME DeskInv, NEW s \in Busy, Respond(s), NEW u \in Users, StreakOK(u)
    PROVE  StreakOK(u)'
<1>1. /\ s \in Slots /\ Step(s, NoReq) /\ UNCHANGED <<tickets, sessions, crashes, streak>>
      /\ s \notin Waiting(u)
  BY DEF Respond, Busy, Waiting
<1>2. Quiet(s, NoReq, u)
  BY <1>1 DEF Quiet
<1> QED BY <1>1, <1>2, StreakFrame

\* The one step that counts: from the count the message carries, which is the one the
\* session has as long as messages do not overlap.
LEMMA StreakCount ==
    ASSUME DeskInv, NEW s \in Busy, CountRound(s), NEW u \in Users, StreakOK(u)
    PROVE  StreakOK(u)'
<1>1. PICK n \in Nat, next \in Request :
        /\ n = RoundsAfter(req[s]) /\ req[s].phase = "count" /\ req[s] \in Request
        /\ Step(s, next) /\ next.phase = (IF n >= Rounds THEN "look" ELSE "done")
        /\ next.user = req[s].user /\ next.outcome = req[s].outcome
        /\ sessions' = [sessions EXCEPT ![req[s].user].rounds = n]
        /\ streak' = [streak EXCEPT ![req[s].user] =
                        IF @ = Blurred THEN @
                        ELSE IF req[s].outcome = "unanswered" THEN @ + 1 ELSE 0]
        /\ UNCHANGED <<tickets, crashes>>
  BY CountRoundIs DEF DeskInv
<1>2. /\ s \in Slots /\ next # NoReq /\ sessions \in [Users -> Session]
      /\ streak \in [Users -> Nat \cup {Blurred}] /\ req[s].user \in Users
  BY <1>1 DEF Busy, NoReq, DeskInv, SupportType, Request
<1>3. req[s].outcome \in {"refund", "answered", "unanswered"}
  <2>1. "count" \in Way(req[s].outcome) /\ req[s].outcome \in Kinds
    BY <1>1, <1>2 DEF DeskInv, RequestOK, Request
  <2> QED BY <2>1 DEF Way, Kinds, Outcomes
<1>4. CASE req[s].user # u
  <2>1. /\ streak'[u] = streak[u] /\ sessions'[u] = sessions[u]
        /\ s \notin Waiting(u)
    BY <1>1, <1>2, <1>4 DEF Waiting, Of
  <2>2. Quiet(s, next, u)
    BY <1>1, <1>4, <2>1 DEF Quiet
  <2> QED BY <1>2, <2>2, StreakFrame
<1>5. CASE req[s].user = u
  <2> SUFFICES ASSUME streak'[u] # Blurred
               PROVE  /\ sessions'[u].rounds = streak'[u]
                      /\ \A q, p \in Messages(u)' : q = p
                      /\ \A q \in Messages(u)' :
                           Uncounted(req'[q]) => req'[q].rounds = sessions'[u].rounds
                      /\ streak'[u] >= Rounds =>
                           sessions'[u].status = "transferred" \/ Waiting(u)' # {}
    BY DEF StreakOK, Uncounted, Blurred
  <2>1. /\ sessions'[u].rounds = n /\ streak[u] # Blurred
        /\ streak'[u] = IF req[s].outcome = "unanswered" THEN streak[u] + 1 ELSE 0
    BY <1>1, <1>2, <1>5 DEF Session
  <2>2. s \in Messages(u) /\ Uncounted(req[s])
    BY <1>1, <1>3, <1>5 DEF Messages, Of, Outcomes, Uncounted
  <2>3. /\ sessions[u].rounds = streak[u] /\ \A q, p \in Messages(u) : q = p
        /\ req[s].rounds = sessions[u].rounds
    BY <2>1, <2>2 DEF StreakOK
  <2>4. n = streak'[u]
    BY <1>1, <2>1, <2>3 DEF RoundsAfter
  <2>5. req'[s] = next /\ \A q \in Slots \ {s} : req'[q] = req[q]
    BY <1>1, <1>2, SlotMoves DEF DeskInv
  <2>6. Of(u)' = {q \in Slots : req'[q] # NoReq /\ req'[q].user = u}
    BY DEF Of, Busy
  <2>7. \A q \in Messages(u)' : q \in Messages(u)
    BY <1>1, <1>5, <2>2, <2>5, <2>6, OfIs DEF Messages
  <2>8. ~Uncounted(next)
    <3>1. next.phase \in {"look", "done"}
      BY <1>1
    <3> QED BY <3>1 DEF Uncounted
  <2>9. \A q \in Messages(u)' : Uncounted(req'[q]) => req'[q].rounds = sessions'[u].rounds
    BY <2>2, <2>3, <2>5, <2>7, <2>8
  <2>10. streak'[u] >= Rounds => s \in Waiting(u)'
    <3> SUFFICES ASSUME streak'[u] >= Rounds PROVE s \in Waiting(u)'
      OBVIOUS
    <3>1. next.phase = "look" /\ req[s].outcome = "unanswered"
      BY <1>1, <2>4, SupportAssumption DEF RoundsAfter
    <3> QED BY <1>1, <1>2, <1>5, <2>5, <2>6, <3>1 DEF Waiting
  <2> QED BY <2>1, <2>3, <2>4, <2>7, <2>9, <2>10
<1> QED BY <1>4, <1>5

LEMMA StreakBegins ==
    ASSUME DeskInv, NEW s \in Slots, Begins(s), NEW u \in Users, StreakOK(u)
    PROVE  StreakOK(u)'
<1>1. PICK r \in Request :
        /\ req[s] = NoReq /\ Step(s, r)
        /\ r.rounds = sessions[r.user].rounds
        /\ streak' = IF r.outcome \in Outcomes
                     THEN [streak EXCEPT ![r.user] = IF Of(r.user) # {} THEN Blurred ELSE @]
                     ELSE streak
        /\ UNCHANGED <<tickets, sessions, crashes>>
  BY DEF Begins
<1>2. s \notin Busy /\ streak \in [Users -> Nat \cup {Blurred}] /\ r # NoReq
  <2>1. r # NoReq
    BY DEF Request, NoReq
  <2> QED BY <1>1, <2>1 DEF Busy, DeskInv, SupportType
<1>3. s \notin Waiting(u)
  BY <1>2 DEF Waiting, Of
<1>4. CASE ~(r.user = u /\ r.outcome \in Outcomes)
  <2>1. streak'[u] = streak[u]
    BY <1>1, <1>2, <1>4
  <2>2. Quiet(s, r, u)
    BY <1>1, <1>3, <1>4, <2>1 DEF Quiet
  <2> QED BY <2>2, StreakFrame
<1>5. CASE r.user = u /\ r.outcome \in Outcomes
  <2> SUFFICES ASSUME streak'[u] # Blurred
               PROVE  /\ sessions'[u].rounds = streak'[u]
                      /\ \A q, p \in Messages(u)' : q = p
                      /\ \A q \in Messages(u)' :
                           Uncounted(req'[q]) => req'[q].rounds = sessions'[u].rounds
                      /\ streak'[u] >= Rounds =>
                           sessions'[u].status = "transferred" \/ Waiting(u)' # {}
    BY DEF StreakOK, Uncounted, Blurred
  <2>1. Of(u) = {} /\ streak'[u] = streak[u]
    BY <1>1, <1>2, <1>5
  <2>2. /\ sessions[u].rounds = streak[u]
        /\ streak[u] >= Rounds => sessions[u].status = "transferred"
    BY <2>1 DEF StreakOK, Waiting
  <2>3. req'[s] = r /\ \A q \in Slots \ {s} : req'[q] = req[q]
    BY <1>1, SlotMoves DEF DeskInv
  <2>4. Of(u)' = {q \in Slots : req'[q] # NoReq /\ req'[q].user = u}
    BY DEF Of, Busy
  <2>5. \A q \in Messages(u)' : q = s
    BY <2>1, <2>3, <2>4, OfIs DEF Messages
  <2> QED BY <1>1, <1>5, <2>1, <2>2, <2>3, <2>5
<1> QED BY <1>4, <1>5

\* Who had a request under way when the process went down is no longer counted.
LEMMA StreakCrash ==
    ASSUME DeskInv, Crash, NEW u \in Users, StreakOK(u)
    PROVE  StreakOK(u)'
<1>1. /\ req' = [s \in Slots |-> NoReq] /\ UNCHANGED <<tickets, sessions>>
      /\ streak'[u] = IF Of(u) # {} THEN Blurred ELSE streak[u]
  BY DEF Crash
<1>2. Messages(u)' = {}
  BY <1>1 DEF Messages, Of, Busy
<1>3. Of(u) = {} => Waiting(u) = {}
  BY DEF Waiting
<1> QED BY <1>1, <1>2, <1>3 DEF StreakOK

LEMMA StreakStep ==
    ASSUME DeskInv, [SupportNext /\ UNCHANGED scene]_supportVars, NEW u \in Users, StreakOK(u)
    PROVE  StreakOK(u)'
<1>1. CASE Rests \/ DeskActs
  <2>1. UNCHANGED <<sessions, req, crashes, streak>>
    BY <1>1 DEF Rests, DeskActs
  <2>2. Messages(u)' = Messages(u) /\ Waiting(u)' = Waiting(u)
    BY <2>1 DEF Messages, Waiting, Of, Busy
  <2> QED BY <2>1, <2>2 DEF StreakOK, Uncounted
<1>2. ASSUME NEW v \in Users, StartSession(v) PROVE StreakOK(u)'
  <2>1. /\ UNCHANGED <<req, streak>> /\ sessions'[u].rounds = sessions[u].rounds
        /\ sessions[u].status = "transferred" => sessions'[u].status = "transferred"
    BY <1>2 DEF StartSession, DeskInv, SupportType, Session, None
  <2>2. Messages(u)' = Messages(u) /\ Waiting(u)' = Waiting(u)
    BY <2>1 DEF Messages, Waiting, Of, Busy
  <2> QED BY <2>1, <2>2 DEF StreakOK, Uncounted
<1>3. ASSUME NEW s \in Busy, RequestActs(s) PROVE StreakOK(u)'
  BY <1>3, StreakInsert, StreakMark, StreakCount, StreakLook, StreakLink, StreakRespond
  DEF RequestActs
<1>4. \/ Rests \/ DeskActs \/ Crash
      \/ \E v \in Users : StartSession(v)
      \/ \E s \in Slots : Begins(s)
      \/ \E s \in Busy : RequestActs(s)
  BY StepsAre DEF DeskInv
<1> QED BY <1>1, <1>2, <1>3, <1>4, StreakBegins, StreakCrash
-----------------------------------------------------------------------------
HandoverInv ==
    /\ DeskInv
    /\ \A u \in Users : BoundOK(u) /\ StreakOK(u)

LEMMA HandoverInit == SupportInit => HandoverInv
<1> SUFFICES ASSUME SupportInit, NEW u \in Users PROVE DeskInv /\ BoundOK(u) /\ StreakOK(u)
  BY DeskInvInit DEF HandoverInv
<1>1. DeskInv
  BY DeskInvInit
<1>2. /\ tickets = <<>> /\ crashes = 0 /\ req = [s \in Slots |-> NoReq]
      /\ sessions[u].rounds = 0 /\ streak[u] = 0
  BY DEF SupportInit
<1>3. Opened(u) = {} /\ Creating(u) = {} /\ Linking(u) = {} /\ Messages(u) = {}
  BY <1>2 DEF Opened, Creating, Linking, Messages, Of, Busy, TicketIds
<1>4. Cardinality({}) = 0 /\ Cardinality(Slots) \in Nat
  BY FS_EmptySet, FS_CardinalityType, SupportAssumption
<1>5. BoundOK(u)
  BY <1>2, <1>3, <1>4 DEF BoundOK
<1>6. StreakOK(u)
  BY <1>2, <1>3, SupportAssumption DEF StreakOK
<1> QED BY <1>1, <1>5, <1>6

LEMMA HandoverHolds == HandoverInv => HandedOverOnce
<1> SUFFICES ASSUME HandoverInv, NEW u \in Users
             PROVE  /\ streak[u] # Blurred =>
                         /\ sessions[u].rounds = streak[u]
                         /\ streak[u] >= Rounds /\ Of(u) = {} =>
                              sessions[u].status = "transferred"
                    /\ sessions[u].status = "transferred" => sessions[u].ticket \in Opened(u)
                    /\ Cardinality(Opened(u)) <= Cardinality(Slots) * (1 + crashes)
  BY DEF HandedOverOnce, StreakIsHandedOver, HandoversBounded, Opened
<1>1. DeskInv /\ BoundOK(u) /\ StreakOK(u) /\ SessionOK(u)
  BY DEF HandoverInv, DeskInv
<1>2. Of(u) = {} => Waiting(u) = {}
  BY DEF Waiting
<1>3. Cardinality(Opened(u)) <= Cardinality(Slots) * (1 + crashes)
  <2>1. /\ Cardinality(Opened(u)) \in Nat /\ Cardinality(Creating(u)) \in Nat
        /\ Cardinality(Slots) \in Nat /\ crashes \in Nat
    BY <1>1, CountsAreNumbers DEF DeskInv
  <2> DEFINE bound == Cardinality(Slots) * (1 + crashes)
  <2>2. bound \in Nat /\ Cardinality(Opened(u)) + Cardinality(Creating(u)) <= bound
    BY <1>1, <2>1, OneMoreCrash DEF BoundOK
  <2> HIDE DEF bound
  <2>3. Cardinality(Opened(u)) <= bound
    BY <2>1, <2>2
  <2> QED BY <2>3 DEF bound
<1> QED BY <1>1, <1>2, <1>3 DEF StreakOK, SessionOK

\* However the requests of a user interleave with each other, the desk and crashes: who
\* writes one message at a time is handed over after Rounds unresolved rounds in a row,
\* to a hand-over ticket of their own, and a user's hand-overs open no more tickets than
\* requests ran at once before and after each crash (chat, transferToHuman).
THEOREM HandedOver == SupportSpec => []HandedOverOnce
<1>1. SupportInit => HandoverInv
  BY HandoverInit
<1>2. HandoverInv /\ [SupportNext /\ UNCHANGED scene]_supportVars => HandoverInv'
  <2> SUFFICES ASSUME HandoverInv, [SupportNext /\ UNCHANGED scene]_supportVars, NEW u \in Users
               PROVE  DeskInv' /\ BoundOK(u)' /\ StreakOK(u)'
    BY DeskInvStep DEF HandoverInv
  <2>1. DeskInv /\ BoundOK(u) /\ StreakOK(u)
    BY DEF HandoverInv
  <2>2. DeskInv'
    BY <2>1, DeskInvStep
  <2> QED BY <2>1, <2>2, BoundStep, StreakStep
<1>3. HandoverInv => HandedOverOnce
  BY HandoverHolds
<1> QED BY <1>1, <1>2, <1>3, PTL DEF SupportSpec
=============================================================================

------------------------------ MODULE DemoRisk ------------------------------
(***************************************************************************)
(* Reports, penalties and appeals, the list of banned words, tickets, the  *)
(* knowledge base and the chat of the demo backend (risk.js, words.js and  *)
(* the user management of admin.js).                                       *)
(***************************************************************************)
EXTENDS DemoRules

CONSTANTS
    Ladder,      \* penalty.escalation.steps: [type, days, delta] for each count
    ProofDays, AppealDays,
    ChatRounds,  \* ai.escalate_rules.unresolvedRounds
    Kinds        \* bound: what is reported, of "user", "book", "order", "thread"

Moderators == Staff \cup {Platform}

\* ---- reports --------------------------------------------------------------

Owner(d, thing) ==
    CASE thing[1] = "user"   -> thing[2]
      [] thing[1] = "book"   -> d.books[thing[2]].seller
      [] thing[1] = "order"  -> d.orders[thing[2]].seller
      [] thing[1] = "thread" -> d.threads[thing[2]].author

Reportable(d) ==
    ({"user"} \X (Students \cap d.members)) \cup ({"book"} \X DOMAIN d.books)
      \cup ({"order"} \X DOMAIN d.orders) \cup ({"thread"} \X DOMAIN d.threads)

Report(t, u, thing) ==
    LET d == db[t]
    IN  /\ Owner(d, thing) # u
        /\ \A r \in DOMAIN d.reports :
             d.reports[r].reporter = u /\ d.reports[r].about = thing
                => d.reports[r].status \notin {"pending", "accepted", "proving"}
        /\ Answer(t, [d EXCEPT !.reports = Append(@, [reporter |-> u, about |-> thing,
               target |-> Owner(d, thing), status |-> "pending", due |-> 0, proof |-> FALSE])])

AcceptReport(t, r) ==
    /\ db[t].reports[r].status = "pending"
    /\ Answer(t, [db[t] EXCEPT !.reports[r].status = "proving", !.reports[r].due = now + ProofDays])

Prove(t, u, r) ==
    /\ db[t].reports[r].target = u
    /\ db[t].reports[r].status = "proving" /\ now <= db[t].reports[r].due
    /\ Answer(t, [db[t] EXCEPT !.reports[r].proof = TRUE])

\* effectiveViolationCounter: nothing is old enough to expire within Horizon.
Standing(d, u) == {p \in DOMAIN d.penalty : d.penalty[p].user = u /\ d.penalty[p].status # "revoked"}

\* decideEscalationStep: a severe violation has the last step.
Step(count, severity) ==
    Ladder[IF severity = "severe" \/ count > Len(Ladder) THEN Len(Ladder) ELSE count]

\* The type a moderator names, if any, goes before the ladder and costs no score.
Punished(d, u, named, severity) ==
    LET count == Cardinality(Standing(d, u)) + 1
        step  == IF named = "ladder" THEN Step(count, severity) ELSE [type |-> named, days |-> 1, delta |-> 0]
        e     == ApplyPenalty(d, u, step.type, step.days, count)
    IN  IF step.delta = 0 THEN e
        ELSE CreditDelta(e, u, step.delta, "report_light", Len(e.penalty))

PenaltyTypes == {"warning", "mute", "trade_ban", "login_ban", "permanent_ban"}

Decide(t, r, valid, named, severity) ==
    LET d == db[t]
    IN  /\ d.reports[r].status \in {"accepted", "proving"}
        /\ Answer(t, [IF valid THEN Punished(d, d.reports[r].target, named, severity) ELSE d
                      EXCEPT !.reports[r].status = "decided"])

\* ---- penalties: appeals, and the two buttons of the administrator ---------

Appeal(t, u, p) ==
    LET row == db[t].penalty[p]
    IN  /\ row.user = u /\ row.status # "revoked" /\ row.appeal # "pending"
        /\ now <= row.start + AppealDays
        /\ Answer(t, [db[t] EXCEPT !.penalty[p].appeal = "pending",
               !.appeals = Append(@, [user |-> u, penalty |-> p, status |-> "pending"])])

\* The switches of some types go off.
Lifted(row, types) ==
    [row EXCEPT !.permanent = @ /\ "permanent_ban" \notin types,
                !.mute      = IF "mute" \in types THEN 0 ELSE @,
                !.trade_ban = IF "trade_ban" \in types THEN 0 ELSE @,
                !.login_ban = IF "login_ban" \in types THEN 0 ELSE @]

\* rollbackCredit: every row the penalty wrote, by a row that gives the sum back.
RollbackCredit(d, u, p) ==
    LET taken(e) == {i \in DOMAIN e.credit : /\ e.credit[i].user = u /\ e.credit[i].ref = p
                                             /\ e.credit[i].key = "report_light"
                                             /\ e.credit[i].delta < 0 /\ ~e.credit[i].rolledBack}
    IN  FoldSet(LAMBDA i, e : [CreditDelta(e, u, -d.credit[i].delta, "rollback", p)
                               EXCEPT !.credit[i].rolledBack = TRUE], d, taken(d))

\* Mutant: the penalty is marked, the switch is forgotten.
RevokeOnlyMarks(d, p) ==
    IF d.penalty[p].status = "revoked" THEN d
    ELSE RollbackCredit([d EXCEPT !.penalty[p].status = "revoked"], d.penalty[p].user, p)

\* The switch of the penalty's type goes off, whatever other penalty stands.
RevokePenalty(d, p) ==
    LET row == d.penalty[p]
    IN  IF row.status = "revoked" THEN d
        ELSE RollbackCredit([d EXCEPT !.penalty[p].status = "revoked",
                                      !.user[row.user] = Lifted(@, {row.type})], row.user, p)

ReviewAppeal(t, a, approve) ==
    LET d == db[t]
        p == d.appeals[a].penalty
    IN  /\ d.appeals[a].status = "pending"
        /\ Answer(t, [IF approve THEN RevokePenalty(d, p) ELSE d
               EXCEPT !.appeals[a].status = IF approve THEN "approved" ELSE "rejected",
                      !.penalty[p].appeal = IF approve THEN "approved" ELSE "rejected"])

Ban(t, m, u, type) ==
    /\ type = "permanent_ban" => m = Platform
    /\ Answer(t, ApplyPenalty(db[t], u, type, 1, Cardinality(Standing(db[t], u)) + 1))

\* The penalties of the type are revoked; what they cost is not given back.
Unban(t, m, u, type) ==
    LET lifted == IF type = "all" THEN {"mute", "trade_ban", "login_ban", "permanent_ban"} ELSE {type}
        d == db[t]
    IN  /\ type = "permanent_ban" => m = Platform
        /\ Answer(t, [d EXCEPT
               !.user[u] = Lifted(@, lifted),
               !.penalty = [p \in DOMAIN @ |->
                   IF @[p].user = u /\ @[p].status = "active" /\ (type = "all" \/ @[p].type = type)
                   THEN [@[p] EXCEPT !.status = "revoked"] ELSE @[p]]])

RiskNext(t, u) ==
    \/ \E thing \in Reportable(db[t]) : thing[1] \in Kinds /\ Report(t, u, thing)
    \/ \E r \in DOMAIN db[t].reports : Prove(t, u, r)
    \/ \E p \in DOMAIN db[t].penalty : Appeal(t, u, p)
    \/ /\ u \in Moderators
       /\ \/ \E r \in DOMAIN db[t].reports :
               \/ AcceptReport(t, r)
               \/ \E named \in PenaltyTypes \cup {"ladder"}, severity \in {"light", "severe"} :
                    Decide(t, r, TRUE, named, severity)
               \/ Decide(t, r, FALSE, "ladder", "light")
          \/ \E a \in DOMAIN db[t].appeals, approve \in BOOLEAN : ReviewAppeal(t, a, approve)
          \/ \E s \in Students \cap db[t].members :
               \/ \E type \in PenaltyTypes : Ban(t, u, s, type)
               \/ \E type \in (PenaltyTypes \ {"warning"}) \cup {"all"} : Unban(t, u, s, type)

\* ---- the list of banned words ---------------------------------------------

CreateWord(t, w, level) ==
    /\ w \notin DOMAIN db[t].words
    /\ Answer(t, [db[t] EXCEPT !.words = (w :> [level |-> level, status |-> "active"]) @@ @])

UpdateWord(t, w, level, status) ==
    Answer(t, [db[t] EXCEPT !.words[w] = [level |-> level, status |-> status]])

DeleteWord(t, w) ==
    Answer(t, [db[t] EXCEPT !.words = [x \in DOMAIN @ \ {w} |-> @[x]]])

\* Bound: one row for a word (nothing in the code keeps a second one out).
WordsNext(t, u) ==
    /\ u \in Moderators
    /\ \E w \in Words :
         \/ \E level \in 1..4 : CreateWord(t, w, level)
         \/ w \in DOMAIN db[t].words /\ DeleteWord(t, w)
         \/ /\ w \in DOMAIN db[t].words
            /\ \E level \in 1..4, status \in {"active", "whitelist", "disabled"} :
                 UpdateWord(t, w, level, status)

\* ---- tickets ----------------------------------------------------------------

CreateTicket(t, u, urgent) ==
    Answer(t, OpenTicket(db[t], IF urgent THEN "order" ELSE "other", u, urgent))

ClaimTicket(t, m, k) ==
    /\ db[t].ticket[k].assignee \in {Unassigned, m}
    /\ Answer(t, [db[t] EXCEPT !.ticket[k].assignee = m,
           !.ticket[k].status = IF @ = "pending" THEN "processing" ELSE @])

\* Nobody asks who claimed it.
ReplyTicket(t, m, k) ==
    Answer(t, [db[t] EXCEPT !.ticket[k].answered = TRUE,
        !.ticket[k].status = IF @ = "pending" THEN "processing" ELSE @,
        !.ticket[k].assignee = IF @ = Unassigned THEN m ELSE @])

ResolveTicket(t, m, k) ==
    Answer(t, [db[t] EXCEPT !.ticket[k].status = "resolved",
        !.ticket[k].assignee = IF @ = Unassigned THEN m ELSE @])

EscalateTicket(t, k) ==
    Answer(t, [db[t] EXCEPT !.ticket[k].escalated = TRUE, !.ticket[k].urgent = TRUE])

\* sweepSlaTickets: part of every read of tickets, which stores nothing.
Overdue(row) ==
    /\ row.status \in {"pending", "processing"} /\ ~row.escalated
    /\ (~row.answered /\ row.firstDue <= now) \/ row.resolveDue <= now

SweepSla(t) ==
    LET d == db[t]
    IN  /\ d.escalates
        /\ Keep(t, [d EXCEPT !.ticket = [k \in DOMAIN @ |->
               IF Overdue(@[k]) THEN [@[k] EXCEPT !.escalated = TRUE, !.urgent = TRUE] ELSE @[k]]])

\* ---- the knowledge base, one article for each place -------------------------

CreateArticle(t) == Answer(t, [db[t] EXCEPT !.kb = Append(@, "published")])
UpdateArticle(t, i, status) == Answer(t, [db[t] EXCEPT !.kb[i] = status])
DeleteArticle(t, i) == Answer(t, [db[t] EXCEPT !.kb[i] = "offline"])

\* ---- the chat -----------------------------------------------------------------

OpenChat(t, u) ==
    Answer(t, [db[t] EXCEPT !.chats = Append(@, [user |-> u, status |-> "active", ticket |-> 0, rounds |-> 0])])

\* Any member of the school may hand over a session: the ticket is the caller's.
Handed(d, u, c) ==
    LET e == IF d.chats[c].ticket = 0 THEN OpenTicket(d, "other", u, FALSE) ELSE d
    IN  [e EXCEPT !.chats[c].status = "transferred",
                  !.chats[c].ticket = IF @ = 0 THEN Len(e.ticket) ELSE @]

TransferChat(t, u, c) == Answer(t, Handed(db[t], u, c))

\* What a question is about, other when no article can have its words.  One on an order
\* is answered when there is an order of the user, one on a rule by any article.
Answered(d, u, intent) ==
    CASE intent = "order" -> \E o \in DOMAIN d.orders : u \in {d.orders[o].buyer, d.orders[o].seller}
      [] intent = "rule"  -> \E i \in DOMAIN d.kb : d.kb[i] = "published"
      [] intent = "other" -> FALSE
      [] OTHER            -> TRUE

\* Neither a blocked question nor a call for a human counts as a round.
AskChat(t, u, c, intent) ==
    LET d == db[t]
        opened == IF intent = "refund" THEN OpenTicket(d, "refund", u, TRUE) ELSE d
        rounds == IF Answered(d, u, intent) THEN 0 ELSE d.chats[c].rounds + 1
        e      == [opened EXCEPT !.chats[c].rounds = rounds]
    IN  /\ d.chats[c].user = u /\ d.chats[c].status # "closed"
        /\ Answer(t, CASE intent = "banned" -> d
                       [] intent = "human"  -> Handed(d, u, c)
                       [] OTHER -> IF rounds >= ChatRounds THEN Handed(e, u, c) ELSE e)

DeskNext(t, u) ==
    \/ \E urgent \in BOOLEAN : CreateTicket(t, u, urgent)
    \/ OpenChat(t, u)
    \/ \E c \in DOMAIN db[t].chats :
         \/ TransferChat(t, u, c)
         \/ \E intent \in {"banned", "human", "refund", "order", "credit", "rule", "other"} : AskChat(t, u, c, intent)
    \/ SweepSla(t)
    \/ u \in Moderators /\ \E k \in DOMAIN db[t].ticket :
         \/ ClaimTicket(t, u, k) \/ ReplyTicket(t, u, k)
         \/ ResolveTicket(t, u, k) \/ EscalateTicket(t, k)
    \/ u = Platform /\ \/ CreateArticle(t)
                       \/ \E i \in DOMAIN db[t].kb :
                            DeleteArticle(t, i) \/ \E s \in {"published", "offline"} : UpdateArticle(t, i, s)
=============================================================================

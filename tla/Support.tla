------------------------------ MODULE Support ------------------------------
(***************************************************************************)
(* Customer service: tickets that staff claim, answer and resolve, the job *)
(* that escalates what is overdue, and the automatic assistant that hands  *)
(* a conversation over to a person.  Staff work in transactions that lock  *)
(* the ticket; the assistant commits each of its statements by itself, and *)
(* works on the session as it read it at the start.                        *)
(***************************************************************************)
EXTENDS Integers, Sequences, FiniteSets

CONSTANTS
    Users, Staff,
    Slots,       \* bound: the requests of users in flight at once
    MaxRequests, \* bound: the requests users ever make
    MaxTickets,  \* bound: of these, the ones at the desk
    MaxCrashes,  \* bound: how often the process goes down
    Rounds,      \* ai.escalate_rules.unresolvedRounds
    Limit        \* rows the escalation job reads at a time

None == "none"

ASSUME SupportAssumption ==
    /\ {Rounds, Limit} \subseteq Nat \ {0} /\ {MaxRequests, MaxTickets, MaxCrashes} \subseteq Nat
    /\ None \notin Users \cup Staff /\ IsFiniteSet(Slots)

VARIABLES
    tickets,    \* tickets, by id
    sessions,   \* chat_sessions: one of each user
    req,        \* requests of users that are under way
    scan,       \* tickets the job has read and not yet escalated
    made,       \* requests made so far
    crashes,    \* times the process went down
    scene,      \* bound: which requests users make, see SupportInit
    streak      \* history: unresolved rounds in a row as the user sees them, or
                \* Blurred when messages of the session overlapped or were cut short

supportVars == <<tickets, sessions, req, scan, made, crashes, scene, streak>>

NoReq   == [phase |-> "idle"]
Blurred == -1
Busy    == {s \in Slots : req[s] # NoReq}
Of(u)   == {s \in Busy : req[s].user = u}

\* A behaviour is about the assistant or about the desk: in the one users chat and
\* nobody works on the tickets yet, in the other users ask for tickets directly.
SupportInit ==
    /\ scene \in {"chat", "desk"}
    /\ tickets = <<>>
    /\ sessions = [u \in Users |-> [status |-> None, rounds |-> 0, ticket |-> 0]]
    /\ req = [s \in Slots |-> NoReq]
    /\ scan = {}
    /\ made = 0 /\ crashes = 0
    /\ streak = [u \in Users |-> 0]
-----------------------------------------------------------------------------
(* Requests of users *)

\* What a message asks for decides its outcome: a person, a refund, something
\* the tools or the knowledge base answer, or something they do not.
Outcomes == {"transfer", "refund", "answered", "unanswered"}

Step(s, r) == req' = [req EXCEPT ![s] = r]

\* The ticket request, the transfer button and each message are one request.
Begin(s, u, phase, outcome) ==
    /\ req[s] = NoReq /\ made < MaxRequests
    /\ made' = made + 1
    /\ Step(s, [phase |-> phase, user |-> u, outcome |-> outcome, ticket |-> 0,
                rounds |-> sessions[u].rounds])
    /\ UNCHANGED <<tickets, sessions, scan, crashes>>

StartSession(u) ==
    /\ sessions[u].status = None
    /\ sessions' = [sessions EXCEPT ![u].status = "active"]
    /\ UNCHANGED <<tickets, req, scan, made, crashes, streak>>

AskTicket(s, u, urgent) ==
    /\ Begin(s, u, "create", IF urgent THEN "urgent" ELSE "normal")
    /\ UNCHANGED streak

\* A transferred session still takes messages.
Message(s, u, outcome) ==
    /\ sessions[u].status # None
    /\ Begin(s, u, CASE outcome = "transfer" -> "look" [] outcome = "refund" -> "create"
                     [] OTHER -> "count", outcome)
    /\ streak' = [streak EXCEPT ![u] = IF Of(u) # {} THEN Blurred ELSE @]

AskTransfer(s, u) ==
    /\ sessions[u].status # None
    /\ Begin(s, u, "look", "button")
    /\ UNCHANGED streak

Urgent(r) == r.outcome \in {"urgent", "refund"}

\* ticketService.create: the row, then, for an urgent one, the mark.
InsertTicket(s) ==
    LET r == req[s]
    IN  /\ r.phase = "create"
        /\ tickets' = Append(tickets,
             [reporter |-> r.user, status |-> "pending",
              assignee |-> None, answered |-> FALSE, escalated |-> FALSE, due |-> 0,
              handover |-> r.outcome \in {"transfer", "button", "unanswered"}])
        /\ Step(s, [r EXCEPT !.ticket = Len(tickets) + 1,
                             !.phase = CASE Urgent(r) -> "mark"
                                         [] r.outcome = "normal" -> "done"
                                         [] OTHER -> "link"])
        /\ UNCHANGED <<sessions, scan, made, crashes, streak>>

MarkUrgent(s) ==
    LET r == req[s]
    IN  /\ r.phase = "mark"
        /\ tickets' = [tickets EXCEPT ![r.ticket].escalated = TRUE]
        /\ Step(s, [r EXCEPT !.phase = IF r.outcome = "refund" THEN "count" ELSE "done"])
        /\ UNCHANGED <<sessions, scan, made, crashes, streak>>

\* From the count that was read when the message came in.
RoundsAfter(r) == IF r.outcome = "unanswered" THEN r.rounds + 1 ELSE 0

CountRound(s) ==
    LET r == req[s]
        n == RoundsAfter(r)
    IN  /\ r.phase = "count"
        /\ sessions' = [sessions EXCEPT ![r.user].rounds = n]
        /\ Step(s, [r EXCEPT !.phase = IF n >= Rounds THEN "look" ELSE "done"])
        /\ streak' = [streak EXCEPT ![r.user] =
                        IF @ = Blurred THEN @
                        ELSE IF r.outcome = "unanswered" THEN @ + 1 ELSE 0]
        /\ UNCHANGED <<tickets, scan, made, crashes>>

\* Mutant: every hand-over opens a ticket.
KnownTicketIgnored(u) == 0

KnownTicket(u) == sessions[u].ticket

\* transferToHuman: the ticket of the session, or a new one.
LookForTicket(s) ==
    LET r == req[s]
        t == KnownTicket(r.user)
    IN  /\ r.phase = "look"
        /\ Step(s, [r EXCEPT !.ticket = t, !.phase = IF t = 0 THEN "create" ELSE "link"])
        /\ UNCHANGED <<tickets, sessions, scan, made, crashes, streak>>

LinkTicket(s) ==
    LET r == req[s]
    IN  /\ r.phase = "link"
        /\ sessions' = [sessions EXCEPT ![r.user].status = "transferred",
                                        ![r.user].ticket = r.ticket]
        /\ Step(s, [r EXCEPT !.phase = "done"])
        /\ UNCHANGED <<tickets, scan, made, crashes, streak>>

Respond(s) ==
    /\ req[s].phase = "done"
    /\ Step(s, NoReq)
    /\ UNCHANGED <<tickets, sessions, scan, made, crashes, streak>>
-----------------------------------------------------------------------------
(* Staff: each call is one transaction that locks the ticket *)

OnTicket(t, row) ==
    /\ tickets' = [tickets EXCEPT ![t] = row]
    /\ UNCHANGED <<sessions, req, scan, made, crashes, streak>>

\* Mutant: who asks last gets the ticket.
ClaimableByAll(t, st) == TRUE

\* Whatever the status of the ticket.
Claimable(t, st) == tickets[t].assignee \in {None, st}

Claim(t, st) ==
    /\ Claimable(t, st)
    /\ OnTicket(t, [tickets[t] EXCEPT !.assignee = st,
                      !.status = IF @ = "pending" THEN "processing" ELSE @])

\* By anyone, on any ticket.
Reply(t) == OnTicket(t, [tickets[t] EXCEPT !.answered = TRUE])

Resolved(row, st) ==
    [row EXCEPT !.status = "resolved", !.assignee = IF @ = None THEN st ELSE @]

Resolve(t, st) ==
    /\ tickets[t].status # "resolved"
    /\ OnTicket(t, Resolved(tickets[t], st))

\* Whatever the status of the ticket.
Escalate(t) == OnTicket(t, [tickets[t] EXCEPT !.escalated = TRUE])
-----------------------------------------------------------------------------
(* autoEscalateDue *)

\* Time passes the due date of the first response, later that of the resolution;
\* nobody looks at the due dates of a resolved ticket.
PassDueDate(t) ==
    /\ tickets[t].due < 2 /\ tickets[t].status # "resolved"
    /\ OnTicket(t, [tickets[t] EXCEPT !.due = @ + 1])

Late(row) == (row.due >= 1 /\ ~row.answered) \/ row.due = 2

\* Mutant: escalated tickets are read again.
OverdueTwice(row) == row.status \in {"pending", "processing"} /\ Late(row)

Overdue(row) ==
    ~row.escalated /\ row.status \in {"pending", "processing"} /\ Late(row)

OverdueTickets == {t \in DOMAIN tickets : Overdue(tickets[t])}

\* Any Limit of the overdue tickets: the query states no order.
Scan ==
    /\ scan = {} /\ OverdueTickets # {}
    /\ \E T \in SUBSET OverdueTickets :
         /\ IF Cardinality(OverdueTickets) <= Limit THEN T = OverdueTickets
            ELSE Cardinality(T) = Limit
         /\ scan' = T
    /\ UNCHANGED <<tickets, sessions, req, made, crashes, streak>>

\* One after the other, each in a transaction of its own, without asking again
\* whether the ticket is still open.
EscalateNext(t) ==
    /\ t \in scan
    /\ tickets' = [tickets EXCEPT ![t].escalated = TRUE]
    /\ scan' = scan \ {t}
    /\ UNCHANGED <<sessions, req, made, crashes, streak>>

EscalateFails(t) ==
    /\ t \in scan /\ scan' = scan \ {t}
    /\ UNCHANGED <<tickets, sessions, req, made, crashes, streak>>

\* The process goes down: requests and the job's batch are gone.
Crash ==
    /\ Busy # {} \/ scan # {}
    /\ crashes < MaxCrashes /\ crashes' = crashes + 1
    /\ req' = [s \in Slots |-> NoReq]
    /\ scan' = {}
    /\ streak' = [u \in Users |-> IF Of(u) # {} THEN Blurred ELSE streak[u]]
    /\ UNCHANGED <<tickets, sessions, made>>
-----------------------------------------------------------------------------
Chat ==
    /\ scene = "chat"
    /\ \E u \in Users :
         \/ StartSession(u)
         \/ \E s \in Slots : \/ AskTransfer(s, u)
                             \/ \E o \in Outcomes : Message(s, u, o)

Desk ==
    /\ scene = "desk"
    /\ \/ /\ made < MaxTickets
          /\ \E s \in Slots, u \in Users, urgent \in BOOLEAN : AskTicket(s, u, urgent)
       \/ \E t \in DOMAIN tickets :
            \/ \E st \in Staff : Claim(t, st) \/ Resolve(t, st)
            \/ Reply(t) \/ Escalate(t) \/ PassDueDate(t)
            \/ EscalateNext(t) \/ EscalateFails(t)
       \/ Scan

SupportNext ==
    \/ Chat
    \/ Desk
    \/ \E s \in Busy : \/ InsertTicket(s) \/ MarkUrgent(s) \/ CountRound(s)
                       \/ LookForTicket(s) \/ LinkTicket(s) \/ Respond(s)
    \/ Crash

SupportSpec == SupportInit /\ [][SupportNext /\ UNCHANGED scene]_supportVars

\* The scheduler calls the job every minute; an escalation that is tried again and
\* again does not fail every time.
Job(A) == A /\ UNCHANGED scene

FairSupport ==
    /\ SupportSpec
    /\ WF_supportVars(Job(Scan))
    /\ WF_supportVars(Job(\E t \in scan : EscalateNext(t) \/ EscalateFails(t)))
    /\ \A t \in 1..MaxTickets : SF_supportVars(Job(EscalateNext(t)))
-----------------------------------------------------------------------------
\* What users and staff may rely on.

TicketIds == DOMAIN tickets

\* Once a ticket has someone who deals with it, nobody takes it over, and once it
\* is resolved it stays so: not by a claim, a reply or an escalation that comes
\* late, nor by the job, which escalates from a list it read before.
TicketKeepsItsCourse ==
    [][\A t \in TicketIds :
         /\ tickets[t].assignee # None => tickets'[t].assignee = tickets[t].assignee
         /\ tickets[t].status = "resolved" => tickets'[t].status = "resolved"]_supportVars

\* A session that was handed over points to a hand-over ticket of its own user,
\* and asking again opens no further ticket: there are only as many as requests
\* ran at once, and again that many after every crash.
HandoversBounded ==
    \A u \in Users :
      LET opened == {t \in TicketIds : tickets[t].handover /\ tickets[t].reporter = u}
      IN  /\ sessions[u].status = "transferred" => sessions[u].ticket \in opened
          /\ Cardinality(opened) <= Cardinality(Slots) * (1 + crashes)

\* A user whose messages do not overlap is handed over after Rounds unresolved
\* rounds in a row, and the count of the session is the count the user sees.
StreakIsHandedOver ==
    \A u \in Users : streak[u] # Blurred =>
      /\ sessions[u].rounds = streak[u]
      /\ streak[u] >= Rounds /\ Of(u) = {} => sessions[u].status = "transferred"

\* An overdue ticket is escalated or dealt with in the end, although the job reads
\* only some tickets at a time, some escalations fail and the process goes down.
OverdueIsEscalated ==
    \A t \in 1..MaxTickets : (t \in OverdueTickets) ~> (t \notin OverdueTickets)

\* Who needs a person is handed over, and once.
HandedOverOnce == StreakIsHandedOver /\ HandoversBounded
=============================================================================

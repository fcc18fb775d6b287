---------------------------- MODULE DemoAccount ----------------------------
(***************************************************************************)
(* Users, verification, schools, cards and configuration of the demo       *)
(* backend (account.js and the rest of admin.js).  Codes and passwords are *)
(* never compared, so they are left out.                                   *)
(***************************************************************************)
EXTENDS DemoRules

CONSTANTS SchoolNames, Fees

\* Requests that change nothing the model keeps (log-in, codes, notices, the check of
\* a text, uploads) store what the tab has, unsaved changes of earlier ones included.
SaveOnly(t) == Answer(t, db[t])

Register(t, u) ==
    /\ u \notin db[t].members /\ db[t].open
    /\ Answer(t, [db[t] EXCEPT !.members = @ \cup {u},
                               !.user[u] = [Plain EXCEPT !.verified = "unverified"]])

\* The nickname is in place when the text about the user is refused.
EditProfile(t, u, nick, bio) ==
    LET named == [db[t] EXCEPT !.profile[u].nick = nick]
    IN  IF Blocked(db[t], bio) THEN Keep(t, named)
        ELSE Answer(t, [named EXCEPT !.profile[u].bio = bio])

\* ---- verification ---------------------------------------------------------

NoSchool == "no school"

\* The route has no school, so the form gets the school 0, which no moderator has.
HandInForm(t, u) ==
    /\ \A f \in DOMAIN db[t].forms : db[t].forms[f].user = u => db[t].forms[f].status # "pending"
    /\ Answer(t, [db[t] EXCEPT !.user[u].verified = "pending",
           !.forms = Append(@, [user |-> u, school |-> NoSchool, status |-> "pending"])])

ReviewForm(t, f, result) ==
    LET form == db[t].forms[f]
    IN  /\ form.school # NoSchool /\ form.status = "pending"
        /\ Answer(t, [db[t] EXCEPT !.forms[f].status = result, !.user[form.user].verified = result])

\* ---- schools ----------------------------------------------------------------

ApplyForSchool(t, phone, name) ==
    /\ \A a \in DOMAIN db[t].applications :
         db[t].applications[a].phone = phone => db[t].applications[a].status # "pending"
    /\ Answer(t, [db[t] EXCEPT !.applications =
           Append(@, [phone |-> phone, name |-> name, status |-> "pending"])])

Named(d, name) == {s \in DOMAIN d.schools : d.schools[s].name = name}

ReviewApplication(t, a, approve) ==
    LET d   == db[t]
        row == d.applications[a]
        new == IF approve /\ Named(d, row.name) = {}
               THEN <<[name |-> row.name, code |-> "generated"]>> ELSE <<>>
    IN  /\ row.status = "pending"
        /\ Answer(t, [d EXCEPT !.schools = @ \o new,
               !.applications[a].status = IF approve THEN "approved" ELSE "rejected"])

\* Here the code must be new, not the name.
CreateSchool(t, name, code) ==
    /\ \A s \in DOMAIN db[t].schools : db[t].schools[s].code # code
    /\ Answer(t, [db[t] EXCEPT !.schools = Append(@, [name |-> name, code |-> code])])

\* Of the school all the students are in; only the fields given are changed.
UpdateSchool(t) ==
    \/ \E v \in BOOLEAN : Answer(t, [db[t] EXCEPT !.verifies = v])
    \/ \E v \in BOOLEAN : Answer(t, [db[t] EXCEPT !.open = v])
    \/ \E bps \in Fees  : Answer(t, [db[t] EXCEPT !.feeBps = bps])

\* setConfigValue, for the one key the rules here read: ticket.auto_escalate.
SetConfig(t) == \E v \in BOOLEAN : Answer(t, [db[t] EXCEPT !.escalates = v])

\* ---- cards ------------------------------------------------------------------

OwnCards(d, u) == {c \in DOMAIN d.cards : d.cards[c].user = u}

WithDefault(d, u, chosen) ==
    [c \in DOMAIN d.cards |-> IF d.cards[c].user = u
                              THEN [d.cards[c] EXCEPT !.default = c = chosen] ELSE d.cards[c]]

BindCard(t, u, default) ==
    LET d    == db[t]
        kept == IF default THEN WithDefault(d, u, 0) ELSE d.cards
    IN  /\ \A c \in OwnCards(d, u) : d.cards[c].cooldown <= now
        /\ Answer(t, [d EXCEPT !.cards = Append(kept,
               [user |-> u, status |-> "active", default |-> default, cooldown |-> 0])])

UnbindCard(t, c) ==
    Answer(t, [db[t] EXCEPT !.cards[c] =
        [@ EXCEPT !.status = "unbound", !.default = FALSE, !.cooldown = now + 1]])

\* A card that was unbound may be made the default.
ChooseCard(t, u, c) == Answer(t, [db[t] EXCEPT !.cards = WithDefault(db[t], u, c)])

AccountNext(t, u) ==
    \/ \E nick \in Words \cup {Clean}, bio \in Words \cup {Clean} : EditProfile(t, u, nick, bio)
    \/ HandInForm(t, u)
    \/ \E default \in BOOLEAN : BindCard(t, u, default)
    \/ \E c \in OwnCards(db[t], u) : UnbindCard(t, c) \/ ChooseCard(t, u, c)
    \/ /\ u \in Staff
       /\ \E f \in DOMAIN db[t].forms, r \in {"approved", "rejected"} : ReviewForm(t, f, r)
    \/ /\ u = Platform
       /\ \/ \E a \in DOMAIN db[t].applications, approve \in BOOLEAN : ReviewApplication(t, a, approve)
          \/ \E name \in SchoolNames, code \in {"first", "second"} : CreateSchool(t, name, code)
          \/ UpdateSchool(t) \/ SetConfig(t)

\* What needs no user.
PublicNext(t) ==
    \/ SaveOnly(t)
    \/ \E u \in Students : Register(t, u)
    \/ \E name \in SchoolNames : ApplyForSchool(t, "phone", name)
=============================================================================

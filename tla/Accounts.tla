------------------------------ MODULE Accounts ------------------------------
(***************************************************************************)
(* The codes that are sent by text message and what they guard: the        *)
(* registration of a phone number, the password and the payment accounts   *)
(* of a user.                                                              *)
(* Codes live in Redis, the rest in MySQL; every call of either is a step  *)
(* of its own, and the requests of a user, from several tabs, interleave.  *)
(* One phone number and one user.                                          *)
(***************************************************************************)
EXTENDS Integers, FiniteSets

CONSTANTS
    Slots,        \* bound: requests in flight at once
    Cards,        \* the payment accounts the user owns
    MaxSends,     \* bound: the codes ever sent
    MaxRequests,  \* bound: the requests ever made about a phone number or a password
    MaxPayments,  \* bound: and those about payment accounts
    MaxAttempts   \* config.sms.maxAttempts

ASSUME AccountsAssumption ==
    /\ {MaxSends, MaxRequests, MaxPayments} \subseteq Nat
    /\ MaxAttempts \in Nat \ {0}
    /\ IsFiniteSet(Slots) /\ Slots # {} /\ IsFiniteSet(Cards)

None == "none"

VARIABLES
    sms,      \* keys of Redis by scene: code, attempts, cooldown
    sent,     \* codes sent so far; the code of a send is its number
    users,    \* users with this phone number
    password, \* the code that let the last change of the password through
    cards,    \* payment_accounts: at most one row of a card
    calls,    \* requests that are under way
    made,     \* requests made so far
    wrong,    \* history: wrong entries that were compared with a code
    uses,     \* history: requests a code let through
    mixed,    \* history: requests about payment accounts overlapped
    lost,     \* history: wrong entries whose count never came, the request broke off
    torn      \* history: accounts bound as the default whose request broke off right then

smsVars     == <<sms, sent, wrong, uses>>
breakVars   == <<lost, torn>>
accountVars == <<sms, sent, users, password, cards, calls, made, wrong, uses, mixed,
                 lost, torn>>

NoCall  == [phase |-> "idle"]
Calling == {s \in Slots : calls[s] # NoCall}
Scenes  == {"register", "reset", "bind", "unbind"}
Unbound == [status |-> None, default |-> FALSE, cooling |-> FALSE]

\* The seed binds one account to some users.
Seeded(bound) ==
    [c \in Cards |-> IF c = bound THEN [Unbound EXCEPT !.status = "active", !.default = TRUE]
                     ELSE Unbound]

AccountsInit ==
    /\ sms = [sc \in Scenes |-> [code |-> 0, tries |-> 0, wait |-> FALSE]]
    /\ sent = 0 /\ users = 0 /\ password = 0 /\ made = 0 /\ mixed = FALSE
    /\ lost = 0 /\ torn = 0
    /\ cards \in {[c \in Cards |-> Unbound]} \cup {Seeded(c) : c \in Cards}
    /\ calls = [s \in Slots |-> NoCall]
    /\ wrong = [n \in 1..MaxSends |-> 0]
    /\ uses  = [n \in 1..MaxSends |-> 0]

Go(s, phase) == calls' = [calls EXCEPT ![s].phase = phase]
End(s)       == calls' = [calls EXCEPT ![s] = NoCall]

Start(s, r) ==
    /\ calls[s] = NoCall
    /\ made < IF r.scene \in {"register", "reset"} THEN MaxRequests ELSE MaxPayments
    /\ made' = made + 1
    /\ calls' = [calls EXCEPT ![s] = r]
    /\ mixed' = (mixed \/ (r.scene \notin {"register", "reset"} /\ Calling # {}))
    /\ UNCHANGED <<sms, sent, users, password, cards, wrong, uses>>
-----------------------------------------------------------------------------
(* sendCode: the cooldown, then three keys *)

Call(sc, phase, entry, card) ==
    [scene |-> sc, phase |-> phase, entry |-> entry, card |-> card, default |-> FALSE,
     saved |-> IF sc \in Scenes THEN sms[sc].code ELSE 0]

AskCode(s, sc) ==
    /\ ~sms[sc].wait /\ sent < MaxSends
    /\ Start(s, Call(sc, "code", 0, None))

SetCode(s) ==
    LET sc == calls[s].scene
    IN  /\ calls[s].phase = "code" /\ sent < MaxSends
        /\ sent' = sent + 1
        /\ sms' = [sms EXCEPT ![sc].code = sent + 1]
        /\ Go(s, "wait")
        /\ UNCHANGED <<users, password, cards, made, wrong, uses, mixed>>

SetCooldown(s) ==
    /\ calls[s].phase = "wait"
    /\ sms' = [sms EXCEPT ![calls[s].scene].wait = TRUE]
    /\ Go(s, "zero")
    /\ UNCHANGED <<sent, users, password, cards, made, wrong, uses, mixed>>

ResetTries(s) ==
    /\ calls[s].phase = "zero"
    /\ sms' = [sms EXCEPT ![calls[s].scene].tries = 0]
    /\ End(s)
    /\ UNCHANGED <<sent, users, password, cards, made, wrong, uses, mixed>>

\* Keys expire, the attempts after the code; not under a request that has read
\* the code, which takes far less time than a code lives.
Expire(sc) ==
    /\ \/ sms[sc].wait /\ sms' = [sms EXCEPT ![sc].wait = FALSE]
       \/ /\ \A s \in Calling : calls[s].scene # sc
          /\ \/ sms[sc].code # 0 /\ sms' = [sms EXCEPT ![sc].code = 0]
             \/ sms[sc].code = 0 /\ sms[sc].tries # 0 /\ sms' = [sms EXCEPT ![sc].tries = 0]
    /\ UNCHANGED <<sent, users, password, cards, calls, made, wrong, uses, mixed>>
-----------------------------------------------------------------------------
(* verifyCode, which every guarded request calls first *)

\* The code as the user enters it: one that was sent, or a mistyped one, 0.
Entries == 0..sent

\* The first read is that of the code; a request without one ends at once.
AskRegister(s) ==
    /\ sms["register"].code # 0
    /\ \E e \in Entries : Start(s, Call("register", "tries", e, None))

AskReset(s) ==
    /\ sms["reset"].code # 0
    /\ \E e \in Entries : Start(s, Call("reset", "tries", e, None))

AskBind(s, c) ==
    /\ sms["bind"].code # 0
    /\ \E e \in Entries, default \in BOOLEAN :
         Start(s, [Call("bind", "tries", e, c) EXCEPT !.default = default])

AskUnbind(s, c) ==
    /\ cards[c].status # None /\ sms["unbind"].code # 0
    /\ \E e \in Entries : Start(s, Call("unbind", "tries", e, c))

\* Mutant: the attempts that were made are not looked at.
NeverTooMany(sc) == FALSE

TooMany(sc) == sms[sc].tries >= MaxAttempts

ReadTries(s) ==
    LET r == calls[s]
    IN  /\ r.phase = "tries"
        /\ IF TooMany(r.scene)
           THEN Go(s, "drop") /\ UNCHANGED wrong
           ELSE IF r.entry = r.saved
           THEN Go(s, "consume") /\ UNCHANGED wrong
           ELSE Go(s, "count") /\ wrong' = [wrong EXCEPT ![r.saved] = @ + 1]
        /\ UNCHANGED <<sms, sent, users, password, cards, made, uses, mixed>>

\* Too many entries: the key is deleted, by a call of its own, whatever code it holds.
DropCode(s) ==
    /\ calls[s].phase = "drop"
    /\ sms' = [sms EXCEPT ![calls[s].scene].code = 0]
    /\ End(s)
    /\ UNCHANGED <<sent, users, password, cards, made, wrong, uses, mixed>>

CountTry(s) ==
    /\ calls[s].phase = "count"
    /\ sms' = [sms EXCEPT ![calls[s].scene].tries = @ + 1]
    /\ End(s)
    /\ UNCHANGED <<sent, users, password, cards, made, wrong, uses, mixed>>

Consumed(sc) == [sms EXCEPT ![sc].code = 0]

\* Deletes the key, whatever code it holds by now.
Consume(s) ==
    LET r == calls[s]
    IN  /\ r.phase = "consume"
        /\ sms' = Consumed(r.scene)
        /\ uses' = [uses EXCEPT ![r.saved] = @ + 1]
        /\ Go(s, CASE r.scene = "register" -> "look" [] r.scene = "reset" -> "change"
                   [] r.scene = "bind" -> "cooling" [] OTHER -> "unbind")
        /\ UNCHANGED <<sent, users, password, cards, made, wrong, mixed>>
-----------------------------------------------------------------------------
(* register *)

LookForPhone(s) ==
    /\ calls[s].phase = "look"
    /\ IF users > 0 THEN End(s) ELSE Go(s, "insert")
    /\ UNCHANGED <<smsVars, users, password, cards, made, mixed>>

PhoneFree == users = 0

\* The user and the wallet, in one transaction.
InsertUser(s) ==
    /\ calls[s].phase = "insert" /\ calls[s].scene = "register"
    /\ users' = IF PhoneFree THEN users + 1 ELSE users
    /\ End(s)
    /\ UNCHANGED <<smsVars, password, cards, made, mixed>>
-----------------------------------------------------------------------------
(* password/reset, of a user who is logged in *)

ChangePassword(s) ==
    /\ calls[s].phase = "change"
    /\ password' = calls[s].saved
    /\ End(s)
    /\ UNCHANGED <<smsVars, users, cards, made, mixed>>

\* The phone number that took the code is not the user's.
OtherPhone(s) ==
    /\ calls[s].phase = "change"
    /\ End(s)
    /\ UNCHANGED <<smsVars, users, password, cards, made, mixed>>
-----------------------------------------------------------------------------
(* Payment accounts *)

Cooling == \E c \in Cards : cards[c].cooling

CheckCooldown(s) ==
    LET r == calls[s]
    IN  /\ r.phase = "cooling"
        /\ IF Cooling THEN End(s) ELSE Go(s, "insert")
        /\ UNCHANGED <<smsVars, users, password, cards, made, mixed>>

\* The unique key counts a row that was unbound, too.
InsertCard(s) ==
    LET r == calls[s]
    IN  /\ r.phase = "insert" /\ r.scene = "bind"
        /\ IF cards[r.card].status # None
           THEN Go(s, "duplicate") /\ UNCHANGED cards
           ELSE /\ cards' = [cards EXCEPT ![r.card] = [Unbound EXCEPT !.status = "active",
                                             !.default = r.default]]
                /\ IF r.default THEN Go(s, "clear") ELSE End(s)
        /\ UNCHANGED <<smsVars, users, password, made, mixed>>

Refuse(s) ==
    /\ calls[s].phase = "duplicate"
    /\ End(s)
    /\ UNCHANGED <<smsVars, users, password, cards, made, mixed>>

\* Mutant: the flag is put on one account and taken off none.
ClearNone(r) == cards

\* All other accounts when one was bound, all accounts when another is chosen.
Cleared(r) ==
    [c \in Cards |->
       [cards[c] EXCEPT !.default = @ /\ r.scene = "bind" /\ c = r.card]]

ClearDefaults(s) ==
    /\ calls[s].phase = "clear"
    /\ cards' = Cleared(calls[s])
    /\ IF calls[s].scene = "bind" THEN End(s) ELSE Go(s, "set")
    /\ UNCHANGED <<smsVars, users, password, made, mixed>>

AskDefault(s, c) ==
    /\ cards[c].status = "active"
    /\ Start(s, Call("default", "clear", 0, c))

SetDefault(s) ==
    /\ calls[s].phase = "set"
    /\ cards' = [cards EXCEPT ![calls[s].card].default = TRUE]
    /\ End(s)
    /\ UNCHANGED <<smsVars, users, password, made, mixed>>

\* Also of an account that is unbound already.
Unbind(s) ==
    /\ calls[s].phase = "unbind"
    /\ cards' = [cards EXCEPT ![calls[s].card] =
                   [status |-> "unbound", default |-> FALSE, cooling |-> TRUE]]
    /\ End(s)
    /\ UNCHANGED <<smsVars, users, password, made, mixed>>

\* 24 hours, longer than any request.
CooldownEnds(c) ==
    /\ cards[c].cooling /\ Calling = {}
    /\ cards' = [cards EXCEPT ![c].cooling = FALSE]
    /\ UNCHANGED <<smsVars, users, password, calls, made, mixed>>
-----------------------------------------------------------------------------
\* A statement or a call of Redis fails, or the process goes down: what the request has
\* written stays, what it had yet to write does not come. No transaction spans its steps.
Break(s) ==
    LET r == calls[s]
    IN  /\ lost' = IF r.phase = "count" THEN lost + 1 ELSE lost
        /\ torn' = IF r.phase = "clear" /\ r.scene = "bind" THEN torn + 1 ELSE torn
        /\ End(s)
        /\ UNCHANGED <<smsVars, users, password, cards, made, mixed>>
-----------------------------------------------------------------------------
\* Registration, the password and payment accounts share no keys and no rows: a
\* behaviour makes requests of one of them (bound).
AccountsNext(scenes) ==
    \/ /\ \/ \E s \in Slots :
               \/ \E sc \in scenes : AskCode(s, sc)
               \/ "register" \in scenes /\ AskRegister(s)
               \/ "reset" \in scenes /\ AskReset(s)
               \/ "bind" \in scenes /\ \E c \in Cards :
                    AskBind(s, c) \/ AskUnbind(s, c) \/ AskDefault(s, c)
          \/ \E s \in Calling :
               \/ SetCode(s) \/ SetCooldown(s) \/ ResetTries(s)
               \/ ReadTries(s) \/ DropCode(s) \/ CountTry(s) \/ Consume(s)
               \/ LookForPhone(s) \/ InsertUser(s)
               \/ ChangePassword(s) \/ OtherPhone(s)
               \/ CheckCooldown(s) \/ InsertCard(s) \/ Refuse(s)
               \/ ClearDefaults(s) \/ SetDefault(s) \/ Unbind(s)
          \/ \E sc \in scenes : Expire(sc)
          \/ \E c \in Cards : CooldownEnds(c)
       /\ UNCHANGED breakVars
    \/ \E s \in Calling : Break(s)
=============================================================================

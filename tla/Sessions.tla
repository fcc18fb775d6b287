------------------------------ MODULE Sessions ------------------------------
(***************************************************************************)
(* Tokens of one user on several devices.  A token is a signed statement   *)
(* of the user, its kind and the second it was issued in: two tokens of a  *)
(* kind issued in the same second are the same.  A logout puts the access  *)
(* token on a list in Redis for the rest of its life; a ban is read from   *)
(* the user on every request.                                              *)
(***************************************************************************)
EXTENDS Integers, FiniteSets

CONSTANTS
    Devices,
    MaxTime,     \* bound: the seconds of a behaviour
    AccessTtl, RefreshTtl,
    MaxLogins    \* bound: logins and refreshes

ASSUME SessionsAssumption == {MaxTime, AccessTtl, RefreshTtl, MaxLogins} \subseteq Nat

Out == -1

VARIABLES
    now,
    access,    \* second of issue of the access token a device holds
    refresh,   \* and of its refresh token
    blacklist, \* until when a token that was issued in a second is refused
    memory,    \* Redis failed: the list is kept in the process from here on
    banned,    \* users.login_ban_until, or banned_permanently
    visit,     \* requests that are under way, one of a device
    issued,    \* logins and refreshes so far
    left       \* history: tokens whose device logged out with them

sessionVars == <<now, access, refresh, blacklist, memory, banned, visit, issued, left>>

NoVisit == [at |-> "idle"]

SessionsInit ==
    /\ now = 0 /\ issued = 0
    /\ access  = [d \in Devices |-> Out]
    /\ refresh = [d \in Devices |-> Out]
    /\ blacklist = [t \in 0..MaxTime |-> 0]
    /\ memory = FALSE /\ banned = FALSE
    /\ visit = [d \in Devices |-> NoVisit]
    /\ left = {}

Hold(d) ==
    /\ issued < MaxLogins /\ issued' = issued + 1
    /\ access'  = [access EXCEPT ![d] = now]
    /\ refresh' = [refresh EXCEPT ![d] = now]
    /\ UNCHANGED <<now, blacklist, memory, banned, visit, left>>

\* With a password the ban is looked at, with WeChat it is not.
Login(d) == Hold(d)

\* Only the refresh token's age counts: neither list nor ban is looked at.
Refresh(d) ==
    /\ refresh[d] # Out /\ now < refresh[d] + RefreshTtl
    /\ Hold(d)

\* authenticate: the list, then the signature and the user.
Visit(d, leaving) ==
    /\ access[d] # Out /\ visit[d] = NoVisit
    /\ visit' = [visit EXCEPT ![d] =
                   [at |-> "list", token |-> access[d], leaving |-> leaving,
                    late |-> access[d] \in left]]
    /\ UNCHANGED <<now, access, refresh, blacklist, memory, banned, issued, left>>

\* Mutant: a token is listed for one second.
ListedBriefly(t) == now + 1

\* revokeToken: for what is left of the token's life.
ListedUntil(t) == t + AccessTtl

Listed(t) == now < blacklist[t]

CheckList(d) ==
    /\ visit[d].at = "list"
    /\ visit' = [visit EXCEPT ![d] = IF Listed(@.token) THEN NoVisit ELSE [@ EXCEPT !.at = "user"]]
    /\ UNCHANGED <<now, access, refresh, blacklist, memory, banned, issued, left>>

CheckUser(d) ==
    LET v == visit[d]
    IN  /\ v.at = "user"
        /\ visit' = [visit EXCEPT ![d] =
             IF now >= v.token + AccessTtl \/ banned THEN NoVisit ELSE [v EXCEPT !.at = "in"]]
        /\ UNCHANGED <<now, access, refresh, blacklist, memory, banned, issued, left>>

Serve(d) ==
    LET v == visit[d]
    IN  /\ v.at = "in"
        /\ visit' = [visit EXCEPT ![d] = NoVisit]
        /\ IF v.leaving
           THEN /\ blacklist' = [blacklist EXCEPT ![v.token] = ListedUntil(v.token)]
                /\ left' = left \cup {v.token}
           ELSE UNCHANGED <<blacklist, left>>
        /\ UNCHANGED <<now, access, refresh, memory, banned, issued>>

\* An error of the connection: the process goes on with an empty list of its own.
RedisFails ==
    /\ ~memory /\ memory' = TRUE
    /\ blacklist' = [t \in 0..MaxTime |-> 0]
    /\ UNCHANGED <<now, access, refresh, banned, visit, issued, left>>

\* A penalty, its end, or an appeal.
SwitchBan ==
    /\ banned' = ~banned
    /\ UNCHANGED <<now, access, refresh, blacklist, memory, visit, issued, left>>

Second ==
    /\ now < MaxTime /\ now' = now + 1
    /\ UNCHANGED <<access, refresh, blacklist, memory, banned, visit, issued, left>>

SessionsNext ==
    \/ \E d \in Devices :
         \/ Login(d) \/ Refresh(d)
         \/ \E leaving \in BOOLEAN : Visit(d, leaving)
         \/ CheckList(d) \/ CheckUser(d) \/ Serve(d)
    \/ RedisFails \/ SwitchBan \/ Second
=============================================================================

---------------------------- MODULE AccountProofs ----------------------------
(***************************************************************************)
(* Sessions: a token that was logged out is not served again while Redis   *)
(* answers.  A request tests the list first and the age of the token       *)
(* later; what makes the two tests sound is that the list keeps a token    *)
(* until the second test refuses it.                                       *)
(*                                                                         *)
(* The browser: while nothing has crossed, every call carries the stored   *)
(* token, and a tab that shows anybody else waits for the answer that ends *)
(* its login.                                                              *)
(*                                                                         *)
(* Reviews: the schools an application opens are counted against the       *)
(* reviews that have yet to close it and the crashes so far.               *)
(*                                                                         *)
(* Codes: a wrong entry is on the count, or about to be; a request that    *)
(* begins the count anew takes the slot of one that could enter, so resets *)
(* and entries together stay within a bound of both.                       *)
(*                                                                         *)
(* Payment accounts: a flag that is yet to be set is counted like one that *)
(* is set, and a request that has set its flag and has yet to take the     *)
(* others off allows for one more, for good when it breaks off.            *)
(***************************************************************************)
EXTENDS AccountSystem, FiniteSetTheorems, TLAPS

Seconds == 0..MaxTime
Visits  == {NoVisit} \cup
           [at : {"list", "user", "in"}, token : Seconds, leaving : BOOLEAN, late : BOOLEAN]

SessionsType ==
    /\ now \in Seconds
    /\ access \in [Devices -> Seconds \cup {Out}]
    /\ blacklist \in [Seconds -> Int]
    /\ memory \in BOOLEAN
    /\ visit \in [Devices -> Visits]
    /\ left \subseteq Seconds

\* The list knows what was left, until it is worth nothing.
ListRemembers == ~memory => \A t \in left : blacklist[t] = t + AccessTtl

Expired(t) == now >= t + AccessTtl

\* How far a late request can have come.
LateIsStopped(d) ==
    LET v == visit[d]
    IN  /\ v.at = "list" /\ v.late => v.token \in left
        /\ v.at = "user" /\ v.late => memory \/ Expired(v.token)
        /\ v.at = "in" /\ v.late => memory

SessionsInv ==
    /\ SessionsType
    /\ ListRemembers
    /\ \A d \in Devices : LateIsStopped(d)
-----------------------------------------------------------------------------

\* A visit is idle or has all its parts.
LEMMA VisitParts ==
    ASSUME NEW v \in Visits
    PROVE  /\ v.at \in {"idle", "list", "user", "in"}
           /\ v.at # "idle" => /\ v.token \in Seconds
                               /\ v.late \in BOOLEAN
                               /\ v.leaving \in BOOLEAN
           /\ v.at = "idle" => v = NoVisit
<1> QED BY DEF Visits, NoVisit

\* One visit moves, and nothing else.
LEMMA VisitMoves ==
    ASSUME SessionsInv, NEW d \in Devices, NEW v \in Visits,
           visit' = [visit EXCEPT ![d] = v],
           v.at = "list" /\ v.late => v.token \in left,
           v.at = "user" /\ v.late => memory \/ Expired(v.token),
           v.at = "in" /\ v.late => memory,
           UNCHANGED <<now, access, blacklist, memory, left>>
    PROVE  SessionsInv'
<1>1. SessionsType'
  BY DEF SessionsInv, SessionsType
<1>2. ASSUME NEW e \in Devices PROVE LateIsStopped(e)'
  <2>1. CASE e = d
    <3>1. visit'[e] = v
      BY <2>1 DEF SessionsInv, SessionsType
    <3> QED BY <3>1 DEF LateIsStopped, Expired
  <2>2. CASE e # d
    <3>1. visit'[e] = visit[e]
      BY <2>2 DEF SessionsInv, SessionsType
    <3> QED BY <3>1 DEF SessionsInv, LateIsStopped, Expired
  <2> QED BY <2>1, <2>2
<1> QED BY <1>1, <1>2 DEF SessionsInv, ListRemembers

\* Steps that touch neither a visit nor the list.
LEMMA OthersMove ==
    ASSUME SessionsInv, SessionsType', now' >= now,
           UNCHANGED <<blacklist, memory, visit, left>>
    PROVE  SessionsInv'
<1>1. ASSUME NEW d \in Devices PROVE LateIsStopped(d)'
  <2>1. visit[d].at = "user" => visit[d].token \in Int
    BY VisitParts DEF SessionsInv, SessionsType, Seconds
  <2>2. now \in Int /\ now' \in Int /\ AccessTtl \in Int
    BY SessionsAssumption DEF SessionsInv, SessionsType, Seconds
  <2>3. LateIsStopped(d)
    BY DEF SessionsInv
  <2> QED BY <2>1, <2>2, <2>3 DEF LateIsStopped, Expired
<1> QED BY <1>1 DEF SessionsInv, ListRemembers

LEMMA VisitKeeps ==
    ASSUME SessionsInv, NEW d \in Devices, NEW leaving \in BOOLEAN, Visit(d, leaving)
    PROVE  SessionsInv'
<1> DEFINE v == [at |-> "list", token |-> access[d], leaving |-> leaving,
                 late |-> access[d] \in left]
<1>1. v \in Visits
  <2>1. access[d] \in Seconds
    BY DEF Visit, SessionsInv, SessionsType
  <2> QED BY <2>1 DEF Visits
<1> QED BY <1>1, VisitMoves DEF Visit

\* What is not on the list has left long ago, or not at all.
LEMMA CheckListKeeps ==
    ASSUME SessionsInv, NEW d \in Devices, CheckList(d)
    PROVE  SessionsInv'
<1> DEFINE v == visit[d]
<1>1. v \in Visits /\ v.at = "list" /\ v.token \in Seconds /\ v.late \in BOOLEAN
  BY VisitParts DEF CheckList, SessionsInv, SessionsType
<1>2. CASE Listed(v.token)
  <2>1. visit' = [visit EXCEPT ![d] = NoVisit]
    BY <1>2 DEF CheckList
  <2>2. NoVisit \in Visits /\ NoVisit.at = "idle"
    BY DEF Visits, NoVisit
  <2> QED BY <2>1, <2>2, VisitMoves DEF CheckList
<1>3. CASE ~Listed(v.token)
  <2> DEFINE w == [v EXCEPT !.at = "user"]
  <2>1. visit' = [visit EXCEPT ![d] = w]
    BY <1>3 DEF CheckList
  <2>2. w \in Visits /\ w.at = "user" /\ w.token = v.token /\ w.late = v.late
    BY <1>1 DEF Visits, NoVisit
  <2>3. v.late => memory \/ Expired(v.token)
    <3> SUFFICES ASSUME v.late, ~memory PROVE Expired(v.token)
      BY DEF SessionsInv, SessionsType
    <3>1. blacklist[v.token] = v.token + AccessTtl
      BY <1>1 DEF SessionsInv, LateIsStopped, ListRemembers
    <3>2. now \in Int /\ v.token \in Int /\ AccessTtl \in Int
      BY <1>1, SessionsAssumption DEF SessionsInv, SessionsType, Seconds
    <3> QED BY <1>3, <3>1, <3>2 DEF Listed, Expired
  <2> QED BY <2>1, <2>2, <2>3, VisitMoves DEF CheckList
<1> QED BY <1>2, <1>3

LEMMA CheckUserKeeps ==
    ASSUME SessionsInv, NEW d \in Devices, CheckUser(d)
    PROVE  SessionsInv'
<1> DEFINE v == visit[d]
<1>1. v \in Visits /\ v.at = "user" /\ v.token \in Seconds
  BY VisitParts DEF CheckUser, SessionsInv, SessionsType
<1>2. CASE now >= v.token + AccessTtl \/ banned
  <2>1. visit' = [visit EXCEPT ![d] = NoVisit]
    BY <1>2 DEF CheckUser
  <2>2. NoVisit \in Visits /\ NoVisit.at = "idle"
    BY DEF Visits, NoVisit
  <2> QED BY <2>1, <2>2, VisitMoves DEF CheckUser
<1>3. CASE ~(now >= v.token + AccessTtl \/ banned)
  <2> DEFINE w == [v EXCEPT !.at = "in"]
  <2>1. visit' = [visit EXCEPT ![d] = w]
    BY <1>3 DEF CheckUser
  <2>2. w \in Visits /\ w.at = "in" /\ w.token = v.token /\ w.late = v.late
    BY <1>1 DEF Visits, NoVisit
  <2>3. v.late => memory
    BY <1>1, <1>3 DEF SessionsInv, LateIsStopped, Expired
  <2> QED BY <2>1, <2>2, <2>3, VisitMoves DEF CheckUser
<1> QED BY <1>2, <1>3

\* A logout lists the token it came with; another's list row stays as it is.
LEMMA ServeKeeps ==
    ASSUME SessionsInv, NEW d \in Devices, Serve(d)
    PROVE  SessionsInv'
<1> DEFINE v == visit[d]
<1>1. v \in Visits /\ v.at = "in" /\ v.token \in Seconds /\ v.leaving \in BOOLEAN
  BY VisitParts DEF Serve, SessionsInv, SessionsType
<1>2. visit' = [visit EXCEPT ![d] = NoVisit] /\ UNCHANGED <<now, access, memory>>
  BY DEF Serve
<1>3. NoVisit \in Visits /\ NoVisit.at = "idle"
  BY DEF Visits, NoVisit
<1>4. CASE v.leaving
  <2>1. /\ blacklist' = [blacklist EXCEPT ![v.token] = v.token + AccessTtl]
        /\ left' = left \cup {v.token}
    BY <1>4 DEF Serve, ListedUntil
  <2>2. v.token + AccessTtl \in Int
    BY <1>1, SessionsAssumption DEF Seconds
  <2>3. SessionsType'
    <3>1. blacklist' \in [Seconds -> Int] /\ left' \subseteq Seconds
      BY <1>1, <2>1, <2>2 DEF SessionsInv, SessionsType
    <3>2. visit' \in [Devices -> Visits]
      BY <1>2, <1>3 DEF SessionsInv, SessionsType
    <3> QED BY <1>2, <3>1, <3>2 DEF SessionsInv, SessionsType
  <2>4. ListRemembers'
    <3>1. \A t \in Seconds : blacklist'[t] = IF t = v.token THEN t + AccessTtl ELSE blacklist[t]
      BY <2>1 DEF SessionsInv, SessionsType
    <3> QED BY <1>1, <1>2, <2>1, <3>1 DEF SessionsInv, SessionsType, ListRemembers
  <2>5. ASSUME NEW e \in Devices PROVE LateIsStopped(e)'
    <3>1. CASE e = d
      <4>1. visit'[e] = NoVisit
        BY <1>2, <3>1 DEF SessionsInv, SessionsType
      <4> QED BY <1>3, <4>1 DEF LateIsStopped
    <3>2. CASE e # d
      <4>1. visit'[e] = visit[e]
        BY <1>2, <3>2 DEF SessionsInv, SessionsType
      <4> QED BY <1>2, <2>1, <4>1 DEF SessionsInv, LateIsStopped, Expired
    <3> QED BY <3>1, <3>2
  <2> QED BY <2>3, <2>4, <2>5 DEF SessionsInv
<1>5. CASE ~v.leaving
  <2>1. UNCHANGED <<blacklist, left>>
    BY <1>5 DEF Serve
  <2> QED BY <1>2, <1>3, <2>1, VisitMoves
<1> QED BY <1>1, <1>4, <1>5

\* From here on nothing is promised.
LEMMA RedisFailsKeeps ==
    ASSUME SessionsInv, RedisFails
    PROVE  SessionsInv'
<1>1. memory' = TRUE /\ UNCHANGED <<now, access, visit, left>>
  BY DEF RedisFails
<1>2. SessionsType'
  BY <1>1 DEF RedisFails, SessionsInv, SessionsType, Seconds
<1>3. \A d \in Devices : LateIsStopped(d)'
  BY <1>1 DEF SessionsInv, LateIsStopped
<1> QED BY <1>1, <1>2, <1>3 DEF SessionsInv, ListRemembers

LEMMA HoldKeeps ==
    ASSUME SessionsInv, NEW d \in Devices, Hold(d)
    PROVE  SessionsInv'
<1>1. SessionsType'
  BY DEF Hold, SessionsInv, SessionsType
<1>2. now' = now /\ now \in Int
  BY DEF Hold, SessionsInv, SessionsType, Seconds
<1> QED BY <1>1, <1>2, OthersMove DEF Hold

LEMMA SecondKeeps ==
    ASSUME SessionsInv, Second
    PROVE  SessionsInv'
<1>1. now \in Int /\ MaxTime \in Nat
  BY SessionsAssumption DEF SessionsInv, SessionsType, Seconds
<1>2. now' \in Seconds /\ now' >= now
  BY <1>1 DEF Second, SessionsInv, SessionsType, Seconds
<1>3. SessionsType'
  BY <1>2 DEF Second, SessionsInv, SessionsType
<1> QED BY <1>2, <1>3, OthersMove DEF Second

LEMMA SessionsStep ==
    ASSUME SessionsInv, [Next]_vars
    PROVE  SessionsInv'
<1>1. SessionsNext \/ UNCHANGED sessionVars
  BY DEF Next, vars
<1>2. ASSUME NEW d \in Devices, Login(d) \/ Refresh(d) PROVE SessionsInv'
  BY <1>2, HoldKeeps DEF Login, Refresh
<1>3. ASSUME NEW d \in Devices, NEW leaving \in BOOLEAN, Visit(d, leaving) PROVE SessionsInv'
  BY <1>3, VisitKeeps
<1>4. ASSUME NEW d \in Devices, CheckList(d) PROVE SessionsInv'
  BY <1>4, CheckListKeeps
<1>5. ASSUME NEW d \in Devices, CheckUser(d) PROVE SessionsInv'
  BY <1>5, CheckUserKeeps
<1>6. ASSUME NEW d \in Devices, Serve(d) PROVE SessionsInv'
  BY <1>6, ServeKeeps
<1>7. CASE RedisFails
  BY <1>7, RedisFailsKeeps
<1>8. CASE SwitchBan \/ UNCHANGED sessionVars
  <2>1. UNCHANGED <<now, access, blacklist, memory, visit, left>>
    BY <1>8 DEF SwitchBan, sessionVars
  <2>2. SessionsType'
    BY <2>1 DEF SessionsInv, SessionsType
  <2>3. now' >= now
    <3>1. now \in Int
      BY SessionsAssumption DEF SessionsInv, SessionsType, Seconds
    <3>2. now' = now
      BY <2>1
    <3> QED BY <3>1, <3>2
  <2> QED BY <2>1, <2>2, <2>3, OthersMove
<1>9. CASE Second
  BY <1>9, SecondKeeps
<1> QED
  BY <1>1, <1>2, <1>3, <1>4, <1>5, <1>6, <1>7, <1>8, <1>9 DEF SessionsNext

\* A request that comes in after the logout of its token is not served, whatever other
\* devices, logins in the same second, bans and the clock do between its two tests
\* (revokeToken, authenticate), unless the server lost Redis.
THEOREM LoggedOutStaysOut == Spec => []RevokedStaysOut
<1>1. Init => SessionsInv
  <2> SUFFICES ASSUME Init PROVE SessionsInv
    OBVIOUS
  <2>1. /\ now = 0 /\ access = [d \in Devices |-> Out]
        /\ blacklist = [t \in Seconds |-> 0] /\ memory = FALSE
        /\ visit = [d \in Devices |-> NoVisit] /\ left = {}
    BY DEF Init, SessionsInit, Seconds
  <2>2. 0 \in Seconds
    BY SessionsAssumption DEF Seconds
  <2>3. SessionsType
    <3>1. NoVisit \in Visits
      BY DEF Visits
    <3>2. visit \in [Devices -> Visits] /\ access \in [Devices -> Seconds \cup {Out}]
      BY <2>1, <3>1
    <3>3. blacklist \in [Seconds -> Int]
      BY <2>1
    <3> QED BY <2>1, <2>2, <3>2, <3>3 DEF SessionsType
  <2>4. \A d \in Devices : LateIsStopped(d)
    BY <2>1 DEF LateIsStopped, NoVisit
  <2> QED BY <2>1, <2>3, <2>4 DEF SessionsInv, ListRemembers
<1>2. SessionsInv /\ [Next]_vars => SessionsInv'
  BY SessionsStep
<1>3. SessionsInv => RevokedStaysOut
  BY DEF SessionsInv, LateIsStopped, RevokedStaysOut
<1> QED BY <1>1, <1>2, <1>3, PTL DEF Spec
-----------------------------------------------------------------------------
(* Who a browser shows *)

Whose    == People \cup {Nobody}
Carrying == {"enter", "arrive", "refresh", "wallet"}
Stores   == [user : Whose, wallet : Whose, loaded : BOOLEAN]
Dialled  == [for : Carrying \cup {"password", "wechat", "logout"}, tab : Tabs, as : Whose]

WebType ==
    /\ token \in Whose /\ crossed \in BOOLEAN
    /\ shown \in [Tabs -> Stores]
    /\ line \in [Lines -> {Hung} \cup Dialled]

\* A call that carries a token, or is about to bring one, is somebody's.
Known(l) == line[l].for \notin {"nothing", "logout"} => line[l].as \in People

Own(t)      == {shown[t].user, shown[t].wallet} \subseteq {Nobody, token}
Arriving(t) == \E l \in Lines : line[l].for = "arrive" /\ line[l].tab = t
UpToDate(l)  == line[l].for \in Carrying => line[l].as = token

\* While nothing crossed, every call carries the stored token, and a tab that shows
\* anybody else waits for the answer that ends its login.
InStep ==
    ~crossed => /\ \A l \in Lines : UpToDate(l)
                /\ \A t \in Tabs : Own(t) \/ Arriving(t)

LoadedHasUser(t) == shown[t].loaded => shown[t].user # Nobody

WebInv ==
    /\ WebType
    /\ \A l \in Lines : Known(l)
    /\ \A t \in Tabs : LoadedHasUser(t)
    /\ InStep

LEMMA HungIsIdle == Hung.for = "nothing" /\ \A c \in Dialled : c # Hung /\ c.for # "nothing"
BY DEF Hung, Dialled, Carrying

\* One line changes: the others are as they were.
LEMMA OneLine ==
    ASSUME WebInv, NEW l \in Lines, NEW c \in {Hung} \cup Dialled, line' = [line EXCEPT ![l] = c]
    PROVE  /\ line' \in [Lines -> {Hung} \cup Dialled]
           /\ line'[l] = c
           /\ \A m \in Lines \ {l} : line'[m] = line[m]
BY DEF WebInv, WebType

\* Nothing a tab shows is disturbed by a call that begins with the stored token.
LEMMA DialKeeps ==
    ASSUME WebInv, NEW l \in Lines, NEW c \in Dialled, line[l] = Hung,
           line' = [line EXCEPT ![l] = c],
           UNCHANGED <<token, shown, crossed>>,
           c.for # "logout" => c.as \in People,
           c.for \in Carrying => c.as = token
    PROVE  WebInv'
<1>1. /\ line' \in [Lines -> {Hung} \cup Dialled] /\ line'[l] = c
      /\ \A m \in Lines \ {l} : line'[m] = line[m]
  BY OneLine
<1>2. WebType'
  BY <1>1 DEF WebInv, WebType
<1>3. \A m \in Lines : Known(m)' /\ (UpToDate(m) => UpToDate(m)')
  BY <1>1 DEF WebInv, Known, UpToDate
<1>4. \A t \in Tabs : Own(t)' = Own(t) /\ LoadedHasUser(t)' = LoadedHasUser(t)
  BY DEF Own, LoadedHasUser
<1>5. \A t \in Tabs : Arriving(t) => Arriving(t)'
  BY <1>1, HungIsIdle DEF Arriving
<1> QED BY <1>2, <1>3, <1>4, <1>5 DEF WebInv, InStep

\* The tokens and the calls stay: what tabs show may only become less.
LEMMA PagesKeep ==
    ASSUME WebInv, UNCHANGED <<token, crossed, line>>,
           UNCHANGED shown \/ \E t \in Tabs : Forget(t)
    PROVE  WebInv'
<1>1. Blank \in Stores /\ Blank.user = Nobody /\ Blank.wallet = Nobody /\ Blank.loaded = FALSE
  BY DEF Blank, Stores, Whose
<1>2. /\ shown' \in [Tabs -> Stores]
      /\ \A t \in Tabs : shown'[t] \in {shown[t], Blank}
  BY <1>1 DEF Forget, WebInv, WebType
<1>3. WebType'
  BY <1>2 DEF WebInv, WebType
<1>4. \A t \in Tabs : (Own(t) => Own(t)') /\ LoadedHasUser(t)'
  BY <1>1, <1>2 DEF Own, LoadedHasUser, WebInv
<1>5. /\ \A t \in Tabs : Arriving(t)' = Arriving(t)
      /\ \A l \in Lines : Known(l)' = Known(l) /\ UpToDate(l)' = UpToDate(l)
  BY DEF Arriving, Known, UpToDate
<1> QED BY <1>3, <1>4, <1>5 DEF WebInv, InStep

LEMMA ReloadKeeps ==
    ASSUME WebInv, NEW t \in Tabs, Reload(t)
    PROVE  WebInv'
<1>1. Blank \in Stores /\ Blank.user = Nobody /\ Blank.wallet = Nobody /\ Blank.loaded = FALSE
  BY DEF Blank, Stores, Whose
<1>2. /\ shown' \in [Tabs -> Stores] /\ shown'[t] = Blank
      /\ \A s \in Tabs \ {t} : shown'[s] = shown[s]
  BY <1>1 DEF Reload, Forget, WebInv, WebType
<1>3. /\ line' \in [Lines -> {Hung} \cup Dialled]
      /\ \A l \in Lines : line'[l] = Hung \/ line'[l] = line[l]
      /\ \A l \in Lines : line[l] # Hung /\ line[l].tab # t => line'[l] = line[l]
  BY DEF Reload, WebInv, WebType
<1>4. WebType' /\ token' = token /\ crossed' = crossed
  BY <1>2, <1>3 DEF Reload, WebInv, WebType
<1>5. \A l \in Lines : Known(l)' /\ (UpToDate(l) => UpToDate(l)')
  BY <1>3, <1>4, HungIsIdle DEF WebInv, Known, UpToDate, Carrying
<1>6. Own(t)' /\ \A s \in Tabs : LoadedHasUser(s)' /\ (s # t /\ Own(s) => Own(s)')
  BY <1>1, <1>2, <1>4 DEF Own, LoadedHasUser, WebInv
<1>7. \A s \in Tabs \ {t} : Arriving(s) => Arriving(s)'
  BY <1>3, HungIsIdle DEF Arriving
<1> QED BY <1>4, <1>5, <1>6, <1>7 DEF WebInv, InStep

\* The tokens change hands on line l for tab t, where c is what becomes of the line.
\* Unless that crosses something, no other line carries a token and no other tab shows
\* anybody, or the tokens stay with whom they are.
LEMMA HolderChanges ==
    ASSUME WebInv, NEW p \in Whose, NEW t \in Tabs, NEW l \in Lines, Holder(p, t, l),
           NEW c \in {Hung} \cup Dialled, line' = [line EXCEPT ![l] = c],
           c = Hung \/ (c.for = "arrive" /\ c.as = p /\ p \in People),
           line[l].for \in {"arrive"} => line[l].tab = t,
           \A s \in Tabs \ {t} : shown'[s] = shown[s],
           shown' \in [Tabs -> Stores],
           LoadedHasUser(t)',
           ~crossed => Own(t)' \/ (c.for = "arrive" /\ c.tab = t)
    PROVE  WebInv'
<1>1. /\ line' \in [Lines -> {Hung} \cup Dialled] /\ line'[l] = c
      /\ \A m \in Lines \ {l} : line'[m] = line[m]
  BY OneLine
<1>2. /\ token' = p /\ crossed' \in BOOLEAN
      /\ ~crossed' => ~crossed
      /\ ~crossed' /\ p # token =>
           /\ \A s \in Tabs \ {t} : shown[s] = Blank
           /\ \A m \in Lines \ {l} : line[m].for \notin Carrying
  BY DEF Holder, WebInv, WebType, Carrying
<1>3. WebType'
  BY <1>1, <1>2 DEF WebInv, WebType
<1>4. \A m \in Lines : Known(m)'
  BY <1>1, HungIsIdle DEF WebInv, Known
<1>5. \A s \in Tabs : LoadedHasUser(s)'
  BY DEF WebInv, LoadedHasUser
<1>6. ASSUME ~crossed', NEW m \in Lines PROVE UpToDate(m)'
  <2>1. CASE m = l
    BY <1>1, <1>2, <2>1, HungIsIdle DEF UpToDate, Carrying
  <2>2. CASE m # l /\ p = token
    BY <1>1, <1>2, <1>6, <2>2 DEF UpToDate, WebInv, InStep
  <2>3. CASE m # l /\ p # token
    BY <1>1, <1>2, <1>6, <2>3 DEF UpToDate
  <2> QED BY <2>1, <2>2, <2>3
<1>7. ASSUME ~crossed', NEW s \in Tabs PROVE Own(s)' \/ Arriving(s)'
  <2>1. CASE s = t
    BY <1>1, <1>2, <1>7, <2>1 DEF Arriving
  <2>2. CASE s # t /\ p = token
    <3>1. Own(s) \/ Arriving(s)
      BY <1>2, <1>7 DEF WebInv, InStep
    <3>2. Own(s) => Own(s)'
      BY <1>2, <2>2 DEF Own
    <3>3. Arriving(s) => Arriving(s)'
      BY <1>1, <2>2 DEF Arriving
    <3> QED BY <3>1, <3>2, <3>3
  <2>3. CASE s # t /\ p # token
    BY <1>2, <1>7, <2>3 DEF Own, Blank
  <2> QED BY <2>1, <2>2, <2>3
<1> QED BY <1>3, <1>4, <1>5, <1>6, <1>7 DEF WebInv, InStep

\* A line is free or belongs to a tab.
LEMMA LineParts ==
    ASSUME WebInv, NEW l \in Lines, line[l].for # "nothing"
    PROVE  /\ line[l] \in Dialled
           /\ line[l].tab \in Tabs /\ line[l].as \in Whose
           /\ line[l].for # "logout" => line[l].as \in People
BY HungIsIdle DEF WebInv, WebType, Known, Dialled

LEMMA SignedInKeeps ==
    ASSUME WebInv, NEW l \in Lines, SignedIn(l)
    PROVE  WebInv'
<1> PICK t, p : t = line[l].tab /\ p = line[l].as
  OBVIOUS
<1>1. /\ line[l].for \in {"password", "wechat"} /\ Holder(p, t, l)
      /\ line' = [line EXCEPT ![l] = [for |-> "arrive", tab |-> t, as |-> p]]
  BY DEF SignedIn, Dial
<1>2. t \in Tabs /\ p \in People
  BY <1>1, LineParts
<1> PICK c : c = [for |-> "arrive", tab |-> t, as |-> p]
  OBVIOUS
<1>3. c \in Dialled /\ c.for = "arrive" /\ c.as = p /\ c.tab = t
  BY <1>2 DEF Dialled, Carrying, Whose
<1>4. shown' = shown \/ shown' = [shown EXCEPT ![t].user = p]
  BY <1>1 DEF SignedIn
<1>5. /\ shown' \in [Tabs -> Stores]
      /\ \A s \in Tabs \ {t} : shown'[s] = shown[s]
      /\ shown'[t] = shown[t] \/ shown'[t] = [shown[t] EXCEPT !.user = p]
  BY <1>2, <1>4 DEF WebInv, WebType, Stores, Whose
<1>6. LoadedHasUser(t)'
  BY <1>2, <1>5, WebAssumption DEF LoadedHasUser, WebInv, WebType, Stores
<1> QED BY <1>1, <1>2, <1>3, <1>5, <1>6, HolderChanges DEF Whose

LEMMA GoneKeeps ==
    ASSUME WebInv, NEW l \in Lines, Refused(l) \/ SignedOut(l)
    PROVE  WebInv'
<1> PICK t : t = line[l].tab
  OBVIOUS
<1>1. /\ line[l].for # "nothing" /\ Forget(t) /\ Holder(Nobody, t, l)
      /\ line' = [line EXCEPT ![l] = Hung]
  BY DEF Refused, SignedOut, HangUp
<1>2. t \in Tabs
  BY <1>1, LineParts
<1>3. Blank \in Stores /\ Blank.user = Nobody /\ Blank.wallet = Nobody /\ Blank.loaded = FALSE
  BY DEF Blank, Stores, Whose
<1>4. /\ shown' \in [Tabs -> Stores] /\ shown'[t] = Blank
      /\ \A s \in Tabs \ {t} : shown'[s] = shown[s]
  BY <1>1, <1>2, <1>3 DEF Forget, WebInv, WebType
<1>5. LoadedHasUser(t)' /\ Own(t)'
  BY <1>3, <1>4 DEF LoadedHasUser, Own
<1> QED BY <1>1, <1>2, <1>4, <1>5, HolderChanges DEF Whose

\* me and the wallet answer for the token they carried.
LEMMA AnswerKeeps ==
    ASSUME WebInv, NEW l \in Lines, Loaded(l) \/ WalletRead(l)
    PROVE  WebInv'
<1> PICK t, p : t = line[l].tab /\ p = line[l].as
  OBVIOUS
<1>1. /\ line[l].for \in Carrying /\ line' = [line EXCEPT ![l] = Hung]
      /\ UNCHANGED <<token, crossed>>
      /\ \/ shown' = [shown EXCEPT ![t] = [user |-> p, wallet |-> p, loaded |-> TRUE]]
         \/ /\ shown' = [shown EXCEPT ![t].wallet = p]
            /\ line[l].for # "arrive"
  BY DEF Loaded, WalletRead, HangUp, Carrying
<1>2. t \in Tabs /\ p \in People
  BY <1>1, LineParts DEF Carrying
<1>3. /\ line' \in [Lines -> {Hung} \cup Dialled] /\ line'[l] = Hung
      /\ \A m \in Lines \ {l} : line'[m] = line[m]
  BY <1>1, OneLine
<1>4. /\ shown' \in [Tabs -> Stores]
      /\ \A s \in Tabs \ {t} : shown'[s] = shown[s]
      /\ \/ shown'[t] = [user |-> p, wallet |-> p, loaded |-> TRUE]
         \/ shown'[t] = [shown[t] EXCEPT !.wallet = p] /\ line[l].for # "arrive"
  <2>1. shown \in [Tabs -> Stores] /\ shown[t] \in Stores /\ p \in Whose
    BY <1>2 DEF WebInv, WebType, Whose
  <2>2. [user |-> p, wallet |-> p, loaded |-> TRUE] \in Stores
    BY <2>1 DEF Stores
  <2>3. [shown[t] EXCEPT !.wallet = p] \in Stores
    BY <2>1 DEF Stores
  <2>4. CASE shown' = [shown EXCEPT ![t] = [user |-> p, wallet |-> p, loaded |-> TRUE]]
    BY <1>2, <2>1, <2>2, <2>4
  <2>5. CASE shown' = [shown EXCEPT ![t].wallet = p] /\ line[l].for # "arrive"
    BY <1>2, <2>1, <2>3, <2>5
  <2> QED BY <1>1, <2>4, <2>5
<1>5. WebType'
  BY <1>1, <1>3, <1>4 DEF WebInv, WebType
<1>6. \A m \in Lines : Known(m)' /\ (UpToDate(m) => UpToDate(m)')
  BY <1>1, <1>3, HungIsIdle DEF WebInv, Known, UpToDate, Carrying
<1>7. \A s \in Tabs : LoadedHasUser(s)'
  BY <1>2, <1>4, WebAssumption DEF LoadedHasUser, WebInv, WebType, Stores
<1>8. \A s \in Tabs \ {t} : (Own(s) => Own(s)') /\ (Arriving(s) => Arriving(s)')
  BY <1>1, <1>3, <1>4 DEF Own, Arriving
<1>9. ~crossed => Own(t)' \/ Arriving(t)'
  <2> SUFFICES ASSUME ~crossed PROVE Own(t)' \/ Arriving(t)'
    OBVIOUS
  <2>1. p = token
    BY <1>1 DEF WebInv, InStep, UpToDate
  <2>2. CASE shown'[t] = [user |-> p, wallet |-> p, loaded |-> TRUE]
    BY <1>1, <2>1, <2>2 DEF Own
  <2>3. CASE shown'[t] = [shown[t] EXCEPT !.wallet = p] /\ line[l].for # "arrive"
    <3>1. Own(t) \/ Arriving(t)
      BY <1>2 DEF WebInv, InStep
    <3>2. Arriving(t) => Arriving(t)'
      BY <1>3, <2>3 DEF Arriving
    <3>3. Own(t) => Own(t)'
      BY <1>1, <1>2, <2>1, <2>3 DEF Own, WebInv, WebType, Stores
    <3> QED BY <3>1, <3>2, <3>3
  <2> QED BY <1>4, <2>2, <2>3
<1> QED BY <1>1, <1>2, <1>5, <1>6, <1>7, <1>8, <1>9 DEF WebInv, InStep

\* A login that breaks off leaves what the tab showed: it is the new user's, or nothing
\* has been promised since.
LEMMA FailedKeeps ==
    ASSUME WebInv, NEW l \in Lines, Failed(l)
    PROVE  WebInv'
<1> PICK t, p : t = line[l].tab /\ p = line[l].as
  OBVIOUS
<1>1. /\ line[l].for \notin {"nothing", "logout"} /\ line' = [line EXCEPT ![l] = Hung]
      /\ UNCHANGED <<token, shown>>
      /\ crossed' = (crossed \/ /\ line[l].for = "arrive"
                                /\ shown[t].user \notin {Nobody, p} \/ shown[t].wallet \notin {Nobody, p})
  BY DEF Failed, HangUp
<1>2. t \in Tabs /\ p \in People
  BY <1>1, LineParts
<1>3. /\ line' \in [Lines -> {Hung} \cup Dialled] /\ line'[l] = Hung
      /\ \A m \in Lines \ {l} : line'[m] = line[m]
  BY <1>1, OneLine
<1>4. WebType'
  BY <1>1, <1>3 DEF WebInv, WebType
<1>5. \A m \in Lines : Known(m)' /\ (UpToDate(m) => UpToDate(m)')
  BY <1>1, <1>3, HungIsIdle DEF WebInv, Known, UpToDate, Carrying
<1>6. \A s \in Tabs : LoadedHasUser(s)' /\ Own(s)' = Own(s)
  BY <1>1 DEF LoadedHasUser, Own, WebInv
<1>7. \A s \in Tabs \ {t} : Arriving(s) => Arriving(s)'
  BY <1>3 DEF Arriving
<1>8. ~crossed' => ~crossed /\ (Own(t)' \/ Arriving(t)')
  <2> SUFFICES ASSUME ~crossed' PROVE ~crossed /\ (Own(t)' \/ Arriving(t)')
    OBVIOUS
  <2>1. ~crossed
    BY <1>1
  <2>2. CASE line[l].for = "arrive"
    <3>1. p = token
      BY <2>1, <2>2 DEF WebInv, InStep, UpToDate, Carrying
    <3>2. Own(t)
      BY <1>1, <2>2, <3>1 DEF Own
    <3> QED BY <1>2, <1>6, <2>1, <3>2
  <2>3. CASE line[l].for # "arrive"
    <3>1. Arriving(t) => Arriving(t)'
      BY <1>3, <2>3 DEF Arriving
    <3> QED BY <1>2, <1>6, <2>1, <3>1 DEF WebInv, InStep
  <2> QED BY <2>2, <2>3
<1> QED BY <1>2, <1>4, <1>5, <1>6, <1>7, <1>8 DEF WebInv, InStep

LEMMA WebStep ==
    ASSUME WebInv, [Next]_vars
    PROVE  WebInv'
<1>1. WebNext \/ UNCHANGED webVars
  BY DEF Next, vars
<1>2. ASSUME NEW t \in Tabs, NEW l \in Lines, NEW kind, NEW p, line[l] = Hung, Dial(l, t, kind, p),
             UNCHANGED <<token, shown, crossed>>,
             \/ kind = "logout" /\ p = Nobody
             \/ kind \in {"password", "wechat"} /\ p \in People
             \/ kind \in Carrying /\ p = token /\ token # Nobody
      PROVE  WebInv'
  <2> PICK c : c = [for |-> kind, tab |-> t, as |-> p]
    OBVIOUS
  <2>1. token \in Whose
    BY DEF WebInv, WebType
  <2>2. /\ c \in Dialled /\ c.for = kind /\ c.as = p
        /\ kind # "logout" => p \in People
        /\ kind \in Carrying => p = token
    BY <1>2, <2>1 DEF Dialled, Whose, Carrying
  <2>3. line' = [line EXCEPT ![l] = c]
    BY <1>2 DEF Dial
  <2> QED BY <1>2, <2>2, <2>3, DialKeeps
<1>3. ASSUME NEW t \in Tabs, Navigate(t) PROVE WebInv'
  <2>1. CASE UNCHANGED <<token, shown, line, crossed>>
    BY <2>1, PagesKeep
  <2>2. CASE /\ token # Nobody /\ UNCHANGED <<token, shown, crossed>>
             /\ \E l \in Lines : line[l] = Hung /\ Dial(l, t, "enter", token)
    BY <1>2, <2>2 DEF Carrying
  <2> QED BY <1>3, <2>1, <2>2 DEF Navigate
<1>4. ASSUME NEW t \in Tabs, Leave(t) PROVE WebInv'
  BY <1>4, PagesKeep DEF Leave
<1>5. ASSUME NEW t \in Tabs, SaveProfile(t) \/ SubmitForm(t) PROVE WebInv'
  <2>1. LoadAgain(t)
    BY <1>5 DEF SaveProfile, SubmitForm
  <2>2. CASE token = Nobody
    BY <2>1, <2>2, PagesKeep DEF LoadAgain
  <2>3. CASE token # Nobody
    BY <1>2, <2>1, <2>3 DEF LoadAgain, Carrying
  <2> QED BY <2>2, <2>3
<1>6. ASSUME NEW t \in Tabs, MoveMoney(t) \/ ActOnOrder(t) PROVE WebInv'
  <2>1. RefreshWallet(t)
    BY <1>6 DEF MoveMoney, ActOnOrder
  <2> QED BY <1>2, <2>1 DEF RefreshWallet, Carrying
<1>7. ASSUME NEW t \in Tabs, SignOut(t) PROVE WebInv'
  BY <1>2, <1>7 DEF SignOut
<1>8. ASSUME NEW t \in Tabs, NEW p \in People, LogIn(t, p) \/ Register(t, p) \/ WechatLogin(t, p)
      PROVE  WebInv'
  <2>1. SignIn(t, p, "password") \/ SignIn(t, p, "wechat")
    BY <1>8 DEF LogIn, Register, WechatLogin
  <2> QED BY <1>2, <2>1 DEF SignIn
<1>9. CASE UNCHANGED webVars
  BY <1>9, PagesKeep DEF webVars
<1> QED
  BY <1>1, <1>3, <1>4, <1>5, <1>6, <1>7, <1>8, <1>9,
     ReloadKeeps, SignedInKeeps, GoneKeeps, AnswerKeeps, FailedKeeps DEF WebNext

\* A tab that waits for nothing shows nobody, or the user whose token is stored, with that
\* user's wallet, however logins, failed reads and tabs interleave, unless tokens were
\* exchanged under a call or another tab (load, login, refreshWallet, logout, reset).
THEOREM BrowserShowsItsUser == Spec => []ShowsWhoIsLoggedIn
<1>1. Init => WebInv
  <2> SUFFICES ASSUME Init PROVE WebInv
    OBVIOUS
  <2>1. /\ token = Nobody /\ crossed = FALSE
        /\ shown = [t \in Tabs |-> Blank] /\ line = [l \in Lines |-> Hung]
    BY DEF Init, WebInit
  <2>2. Blank \in Stores /\ Blank.user = Nobody /\ Blank.wallet = Nobody /\ Blank.loaded = FALSE
    BY DEF Blank, Stores, Whose
  <2>3. WebType
    BY <2>1, <2>2 DEF WebType, Whose
  <2>4. \A l \in Lines : Known(l) /\ UpToDate(l)
    BY <2>1, HungIsIdle DEF Known, UpToDate, Carrying
  <2>5. \A t \in Tabs : LoadedHasUser(t) /\ Own(t)
    BY <2>1, <2>2 DEF LoadedHasUser, Own
  <2> QED BY <2>3, <2>4, <2>5 DEF WebInv, InStep
<1>2. WebInv /\ [Next]_vars => WebInv'
  BY WebStep
<1>3. WebInv => ShowsWhoIsLoggedIn
  <2> SUFFICES ASSUME WebInv, NEW t \in Tabs
               PROVE  /\ LoadedHasUser(t)
                      /\ ~crossed /\ ~Busy(t) => Own(t)
    BY DEF ShowsWhoIsLoggedIn, LoadedHasUser, Own
  <2>1. Arriving(t) => Busy(t)
    BY HungIsIdle DEF Arriving, Busy
  <2> QED BY <2>1 DEF WebInv, InStep
<1> QED BY <1>1, <1>2, <1>3, PTL DEF Spec

\* A session that is over is over for the server and in the browser.
THEOREM SessionsEnd == Spec => []SessionsHold
<1>1. RevokedStaysOut /\ ShowsWhoIsLoggedIn => SessionsHold
  BY DEF SessionsHold
<1> QED BY <1>1, LoggedOutStaysOut, BrowserShowsItsUser, PTL
-----------------------------------------------------------------------------
(* Reviews of students and of schools *)

Verdict3 == Verdicts \cup {"pending"}
Work     == {NoWork} \cup [step : {"form", "apply"}] \cup
            [step : {"decide", "open", "close"}, of : Nat, verdict : Verdicts]

ReviewsType ==
    /\ forms \in Seq(Verdict3)
    /\ student \in Verdict3 \cup {"unverified"}
    /\ applications \in Seq(Verdict3) /\ Len(applications) <= MaxForms
    /\ schools \in [1..MaxForms -> Nat]
    /\ desk \in [Desks -> Work]
    /\ stops \in Nat

\* What a review is about is there, and who is to close an application has opened its
\* school if it needs one.
SeatOK(d) ==
    LET r == desk[d]
    IN  /\ r.step = "decide" => r.of \in DOMAIN forms
        /\ r.step \in {"open", "close"} => r.of \in DOMAIN applications
        /\ r.step = "close" => schools[r.of] >= 1

\* Reviews that are about to open a school for an application, and those that have.
Opening(a) == {d \in Desks : desk[d].step = "open" /\ desk[d].verdict = "approved" /\ desk[d].of = a}
Closing(a) == {d \in Desks : desk[d].step = "close" /\ desk[d].of = a}

\* As long as an application is pending, each of its schools since the last crash belongs
\* to a review that has yet to close it.
SchoolOK(a) ==
    LET n == Cardinality(Desks)
    IN  /\ schools[a] + Cardinality(Opening(a)) <= n * (1 + stops)
        /\ applications[a] = "pending" => schools[a] <= n * stops + Cardinality(Closing(a))
        /\ applications[a] = "approved" => schools[a] >= 1

ReviewsInv ==
    /\ ReviewsType
    /\ StatusHasForm
    /\ \A d \in Desks : SeatOK(d)
    /\ \A a \in DOMAIN applications : SchoolOK(a)
    /\ \A a \in 1..MaxForms : a \notin DOMAIN applications => schools[a] = 0
-----------------------------------------------------------------------------

LEMMA SeatParts ==
    ASSUME NEW r \in Work
    PROVE  /\ r.step \in {"idle", "form", "apply", "decide", "open", "close"}
           /\ r.step = "idle" => r = NoWork
           /\ r.step \in {"decide", "open", "close"} => r.of \in Nat /\ r.verdict \in Verdicts
           /\ r.step \in {"open", "close"} => [r EXCEPT !.step = "close"] \in Work
<1> QED BY DEF Work, NoWork

LEMMA ListRows ==
    ASSUME ReviewsType
    PROVE  /\ DOMAIN forms = 1..Len(forms) /\ Len(forms) \in Nat
           /\ DOMAIN applications = 1..Len(applications) /\ Len(applications) \in Nat
           /\ DOMAIN applications \subseteq 1..MaxForms
           /\ \A a \in DOMAIN applications : schools[a] \in Nat
<1> QED BY ReviewsAssumption DEF ReviewsType

\* Seats at a finite number of desks.
LEMMA Seats ==
    ASSUME NEW O \in SUBSET Desks, NEW C \in SUBSET Desks, O \cap C = {}
    PROVE  /\ Cardinality(O) \in Nat /\ IsFiniteSet(O)
           /\ Cardinality(C) \in Nat /\ IsFiniteSet(C)
           /\ Cardinality(Desks) \in Nat
           /\ Cardinality(O) + Cardinality(C) <= Cardinality(Desks)
<1>1. IsFiniteSet(Desks) /\ Cardinality(Desks) \in Nat
  BY ReviewsAssumption, FS_CardinalityType
<1>2. IsFiniteSet(O) /\ IsFiniteSet(C)
  BY <1>1, FS_Subset
<1>3. Cardinality(O) \in Nat /\ Cardinality(C) \in Nat
  BY <1>2, FS_CardinalityType
<1>4. Cardinality(O \cup C) = Cardinality(O) + Cardinality(C)
  <2>1. Cardinality(O \cap C) = 0
    BY FS_EmptySet
  <2>2. Cardinality(O \cup C) = Cardinality(O) + Cardinality(C) - Cardinality(O \cap C)
    BY <1>2, FS_Union
  <2> QED BY <1>3, <2>1, <2>2
<1>5. Cardinality(O \cup C) <= Cardinality(Desks)
  <2>1. O \cup C \in SUBSET Desks
    OBVIOUS
  <2> QED BY <1>1, <2>1, FS_Subset
<1> QED BY <1>1, <1>2, <1>3, <1>4, <1>5

LEMMA SeatsNow ==
    ASSUME NEW a
    PROVE  /\ Cardinality(Opening(a)) \in Nat /\ IsFiniteSet(Opening(a))
           /\ Cardinality(Closing(a)) \in Nat /\ IsFiniteSet(Closing(a))
           /\ Cardinality(Desks) \in Nat
           /\ Cardinality(Opening(a)) + Cardinality(Closing(a)) <= Cardinality(Desks)
<1>1. /\ Opening(a) \in SUBSET Desks /\ Closing(a) \in SUBSET Desks
      /\ Opening(a) \cap Closing(a) = {}
  BY DEF Opening, Closing
<1> QED BY <1>1, Seats

LEMMA SeatsNext ==
    ASSUME NEW a
    PROVE  /\ Cardinality(Opening(a)') \in Nat /\ IsFiniteSet(Opening(a)')
           /\ Cardinality(Closing(a)') \in Nat /\ IsFiniteSet(Closing(a)')
           /\ Cardinality(Opening(a)') + Cardinality(Closing(a)') <= Cardinality(Desks)
<1>1. /\ Opening(a)' \in SUBSET Desks /\ Closing(a)' \in SUBSET Desks
      /\ Opening(a)' \cap Closing(a)' = {}
  BY DEF Opening, Closing
<1> QED BY <1>1, Seats

\* What one more crash adds to the bound.
LEMMA OneMoreStop ==
    ASSUME NEW n \in Nat, NEW c \in Nat
    PROVE  n * c \in Nat /\ n * (1 + c) = n * c + n
<1> QED OBVIOUS

\* A request sits down at a desk, moves on or leaves.
Seated(d, r) ==
    ReviewsType /\ d \in Desks /\ r \in Work /\ desk' = [desk EXCEPT ![d] = r]

LEMMA DeskMoves ==
    ASSUME NEW d, NEW r, Seated(d, r)
    PROVE  /\ desk' \in [Desks -> Work] /\ desk'[d] = r
           /\ \A e \in Desks \ {d} : desk'[e] = desk[e]
<1> QED BY DEF Seated, ReviewsType

LEMMA SeatsMove ==
    ASSUME NEW d, NEW r, Seated(d, r), NEW a
    PROVE  /\ Opening(a)' \subseteq Opening(a) \cup {d}
           /\ Opening(a) \subseteq Opening(a)' \cup {d}
           /\ d \in Opening(a)' <=> r.step = "open" /\ r.verdict = "approved" /\ r.of = a
           /\ Closing(a)' \subseteq Closing(a) \cup {d}
           /\ Closing(a) \subseteq Closing(a)' \cup {d}
           /\ d \in Closing(a)' <=> r.step = "close" /\ r.of = a
<1>1. /\ d \in Desks /\ desk'[d] = r
      /\ \A e \in Desks \ {d} : desk'[e] = desk[e]
  BY DeskMoves DEF Seated
<1> QED BY <1>1 DEF Opening, Closing

\* An application opens no school, and no review comes to open one.
LEMMA SchoolStays ==
    ASSUME NEW a, SchoolOK(a), schools[a] \in Nat, stops \in Nat,
           schools'[a] = schools[a], stops' = stops, Opening(a)' \subseteq Opening(a),
           applications'[a] = "pending" =>
             applications[a] = "pending" /\ Closing(a) \subseteq Closing(a)',
           applications'[a] = "approved" => applications[a] = "approved" \/ schools[a] >= 1
    PROVE  SchoolOK(a)'
<1>1. /\ Cardinality(Opening(a)) \in Nat /\ IsFiniteSet(Opening(a))
      /\ Cardinality(Closing(a)) \in Nat /\ Cardinality(Desks) \in Nat
  BY SeatsNow
<1>2. /\ Cardinality(Opening(a)') \in Nat
      /\ Cardinality(Closing(a)') \in Nat /\ IsFiniteSet(Closing(a)')
  BY SeatsNext
<1>3. Cardinality(Opening(a)') <= Cardinality(Opening(a))
  BY <1>1, FS_Subset
<1>4. Closing(a) \subseteq Closing(a)' => Cardinality(Closing(a)) <= Cardinality(Closing(a)')
  BY <1>2, FS_Subset
<1> DEFINE bound == Cardinality(Desks) * (1 + stops)
           base  == Cardinality(Desks) * stops
<1>5. /\ schools[a] + Cardinality(Opening(a)) <= bound
      /\ applications[a] = "pending" => schools[a] <= base + Cardinality(Closing(a))
      /\ applications[a] = "approved" => schools[a] >= 1
      /\ bound' = bound /\ base' = base /\ bound \in Nat /\ base \in Nat
  BY <1>1, OneMoreStop DEF SchoolOK
<1> HIDE DEF bound, base
<1>6. /\ schools'[a] + Cardinality(Opening(a)') <= bound'
      /\ applications'[a] = "pending" => schools'[a] <= base' + Cardinality(Closing(a)')
      /\ applications'[a] = "approved" => schools'[a] >= 1
  BY <1>1, <1>2, <1>3, <1>4, <1>5
<1> QED BY <1>6 DEF SchoolOK, bound, base

\* A request that has nothing to do with schools sits down or leaves.
LEMMA FormsMove ==
    ASSUME ReviewsInv, NEW d \in Desks, NEW r \in Work, desk' = [desk EXCEPT ![d] = r],
           desk[d].step \notin {"open", "close"}, r.step \notin {"open", "close"},
           forms' \in Seq(Verdict3), student' \in Verdict3 \cup {"unverified"},
           DOMAIN forms \subseteq DOMAIN forms',
           r.step = "decide" => r.of \in DOMAIN forms',
           StatusHasForm', UNCHANGED <<applications, schools, stops>>
    PROVE  ReviewsInv'
<1>s. Seated(d, r)
  BY DEF Seated, ReviewsInv
<1>1. ReviewsType /\ desk' \in [Desks -> Work] /\ desk'[d] = r
      /\ \A e \in Desks \ {d} : desk'[e] = desk[e]
  BY <1>s, DeskMoves DEF ReviewsInv
<1>2. ReviewsType'
  BY <1>1 DEF ReviewsType
<1>3. \A e \in Desks : SeatOK(e)'
  BY <1>1 DEF ReviewsInv, SeatOK
<1>4. ASSUME NEW a \in DOMAIN applications PROVE SchoolOK(a)'
  <2>1. Opening(a)' \subseteq Opening(a) /\ Closing(a) \subseteq Closing(a)'
    <3>1. d \notin Closing(a) /\ d \notin Opening(a)'
      BY <1>1 DEF Closing, Opening
    <3> QED BY <1>s, <3>1, SeatsMove
  <2>2. SchoolOK(a) /\ schools[a] \in Nat /\ stops \in Nat
    BY <1>1, ListRows DEF ReviewsInv, ReviewsType
  <2>3. schools'[a] = schools[a] /\ applications'[a] = applications[a] /\ stops' = stops
    OBVIOUS
  <2> QED BY <2>1, <2>2, <2>3, SchoolStays
<1> QED BY <1>2, <1>3, <1>4 DEF ReviewsInv

LEMMA FormSteps ==
    ASSUME ReviewsInv, NEW d \in Desks,
           \/ AskForm(d) \/ AskApplication(d) \/ InsertForm(d) \/ DecideForm(d)
           \/ \E i \in DOMAIN forms : AskReview(d, "decide", forms, i)
    PROVE  ReviewsInv'
<1>0. ReviewsType /\ desk \in [Desks -> Work] /\ forms \in Seq(Verdict3) /\ NoWork \in Work
  BY DEF ReviewsInv, ReviewsType, Work
<1>1. ASSUME NEW r \in Work, Sit(d, r), r.step \notin {"open", "close"},
             r.step = "decide" => r.of \in DOMAIN forms,
             UNCHANGED <<forms, student, applications, schools, stops>>
      PROVE  ReviewsInv'
  <2>1. desk[d].step = "idle" /\ desk' = [desk EXCEPT ![d] = r]
    BY <1>1 DEF Sit, NoWork
  <2>2. StatusHasForm' /\ student' \in Verdict3 \cup {"unverified"}
    BY <1>1 DEF ReviewsInv, ReviewsType, StatusHasForm
  <2> QED BY <1>0, <1>1, <2>1, <2>2, FormsMove
<1>2. CASE AskForm(d) \/ AskApplication(d)
  <2>1. [step |-> "form"] \in Work /\ [step |-> "apply"] \in Work
    BY DEF Work
  <2> QED BY <1>1, <1>2, <2>1 DEF AskForm, AskApplication
<1>3. ASSUME NEW i \in DOMAIN forms, AskReview(d, "decide", forms, i) PROVE ReviewsInv'
  <2>1. PICK v \in Verdicts : Sit(d, [step |-> "decide", of |-> i, verdict |-> v])
    BY <1>3 DEF AskReview
  <2>2. i \in Nat
    BY <1>0
  <2>3. [step |-> "decide", of |-> i, verdict |-> v] \in Work
    BY <2>2 DEF Work
  <2> QED BY <1>1, <1>3, <2>1, <2>3 DEF AskReview
<1>4. CASE InsertForm(d)
  <2>1. /\ forms' = Append(forms, "pending") /\ student' = "pending"
        /\ desk' = [desk EXCEPT ![d] = NoWork] /\ desk[d].step = "form"
        /\ UNCHANGED <<applications, schools, stops>>
    BY <1>4 DEF InsertForm, Done
  <2>2. /\ forms' \in Seq(Verdict3) /\ DOMAIN forms \subseteq DOMAIN forms'
        /\ Len(forms) + 1 \in DOMAIN forms' /\ forms'[Len(forms) + 1] = "pending"
    BY <1>0, <2>1 DEF Verdict3
  <2>3. StatusHasForm' /\ student' \in Verdict3 \cup {"unverified"}
    BY <2>1, <2>2 DEF StatusHasForm, Verdict3
  <2>4. NoWork.step = "idle"
    BY DEF NoWork
  <2> QED BY <1>0, <2>1, <2>2, <2>3, <2>4, FormsMove
<1>5. CASE DecideForm(d)
  <2> DEFINE r == desk[d]
  <2>1. /\ forms' = [forms EXCEPT ![r.of] = r.verdict] /\ student' = r.verdict
        /\ desk' = [desk EXCEPT ![d] = NoWork] /\ r.step = "decide"
        /\ UNCHANGED <<applications, schools, stops>>
    BY <1>5 DEF DecideForm, Done, StudentAfter
  <2>2. r.of \in DOMAIN forms /\ r.verdict \in Verdicts
    BY <1>0, <2>1, SeatParts DEF ReviewsInv, SeatOK
  <2>3. /\ forms' \in Seq(Verdict3) /\ DOMAIN forms' = DOMAIN forms
        /\ forms'[r.of] = r.verdict
    BY <1>0, <2>1, <2>2 DEF Verdict3
  <2>4. StatusHasForm' /\ student' \in Verdict3 \cup {"unverified"}
    BY <2>1, <2>2, <2>3 DEF StatusHasForm, Verdict3
  <2>5. NoWork.step = "idle"
    BY DEF NoWork
  <2> QED BY <1>0, <2>1, <2>3, <2>4, <2>5, FormsMove
<1> QED BY <1>2, <1>3, <1>4, <1>5

\* A review of a pending application begins: there is room for the school it may open.
LEMMA BeginReviewKeeps ==
    ASSUME ReviewsInv, NEW d \in Desks, NEW a \in DOMAIN applications,
           AskReview(d, "open", applications, a)
    PROVE  ReviewsInv'
<1>1. PICK v \in Verdicts : Sit(d, [step |-> "open", of |-> a, verdict |-> v])
  BY DEF AskReview
<1> DEFINE r == [step |-> "open", of |-> a, verdict |-> v]
<1>2. /\ desk' = [desk EXCEPT ![d] = r] /\ desk[d].step = "idle"
      /\ applications[a] = "pending"
      /\ UNCHANGED <<forms, student, applications, schools, stops>>
  <2>1. desk[d] = NoWork /\ desk' = [desk EXCEPT ![d] = r]
    BY <1>1 DEF Sit
  <2>2. NoWork.step = "idle"
    BY DEF NoWork
  <2> QED BY <2>1, <2>2 DEF AskReview, Reviewable
<1>3. ReviewsType /\ a \in Nat /\ r \in Work
  <2>1. ReviewsType /\ a \in Nat
    BY ListRows DEF ReviewsInv
  <2> QED BY <2>1 DEF Work
<1>s. Seated(d, r)
  BY <1>2, <1>3 DEF Seated
<1>4. /\ desk' \in [Desks -> Work] /\ desk'[d] = r
      /\ \A e \in Desks \ {d} : desk'[e] = desk[e]
  BY <1>s, DeskMoves
<1>5. ReviewsType'
  BY <1>2, <1>3, <1>4 DEF ReviewsType
<1>6. \A e \in Desks : SeatOK(e)'
  BY <1>2, <1>4 DEF ReviewsInv, SeatOK
<1>7. ASSUME NEW b \in DOMAIN applications PROVE SchoolOK(b)'
  <2>1. SchoolOK(b) /\ schools[b] \in Nat /\ stops \in Nat
    BY <1>3, ListRows DEF ReviewsInv, ReviewsType
  <2>2. /\ Closing(b) \subseteq Closing(b)'
        /\ b # a => Opening(b)' \subseteq Opening(b)
    <3>1. d \notin Closing(b)
      BY <1>2 DEF Closing
    <3>2. b # a => d \notin Opening(b)'
      BY <1>4 DEF Opening
    <3> QED BY <1>s, <3>1, <3>2, SeatsMove
  <2>3. CASE b # a
    BY <1>2, <2>1, <2>2, <2>3, SchoolStays
  <2>4. CASE b = a
    <3>1. /\ Cardinality(Closing(b)) \in Nat /\ Cardinality(Desks) \in Nat
      BY SeatsNow
    <3>2. /\ Cardinality(Opening(b)') \in Nat
          /\ Cardinality(Closing(b)') \in Nat /\ IsFiniteSet(Closing(b)')
          /\ Cardinality(Opening(b)') + Cardinality(Closing(b)') <= Cardinality(Desks)
      BY SeatsNext
    <3>3. Cardinality(Closing(b)) <= Cardinality(Closing(b)')
      BY <2>2, <3>2, FS_Subset
    <3> DEFINE base == Cardinality(Desks) * stops
    <3>4. /\ base \in Nat /\ Cardinality(Desks) * (1 + stops) = base + Cardinality(Desks)
      BY <2>1, <3>1, OneMoreStop
    <3>5. schools[b] <= base + Cardinality(Closing(b))
      BY <1>2, <2>1, <2>4 DEF SchoolOK
    <3> HIDE DEF base
    <3>6. /\ schools[b] + Cardinality(Opening(b)') <= Cardinality(Desks) * (1 + stops)
          /\ schools[b] <= base + Cardinality(Closing(b)')
      BY <2>1, <3>1, <3>2, <3>3, <3>4, <3>5
    <3> QED BY <1>2, <2>4, <3>6 DEF SchoolOK, base
  <2> QED BY <2>3, <2>4
<1>8. StatusHasForm'
  BY <1>2 DEF ReviewsInv, StatusHasForm
<1> QED BY <1>2, <1>5, <1>6, <1>7, <1>8 DEF ReviewsInv

\* A new application has no school, and nobody reviews it yet.
LEMMA InsertApplicationKeeps ==
    ASSUME ReviewsInv, NEW d \in Desks, InsertApplication(d)
    PROVE  ReviewsInv'
<1>n. PICK new : new = Len(applications) + 1
  OBVIOUS
<1>1. /\ desk[d].step = "apply" /\ Len(applications) < MaxForms
      /\ applications' = Append(applications, "pending")
      /\ desk' = [desk EXCEPT ![d] = NoWork]
      /\ UNCHANGED <<forms, student, schools, stops>>
  BY DEF InsertApplication, Done
<1>2. /\ ReviewsType /\ NoWork \in Work /\ NoWork.step = "idle"
      /\ DOMAIN applications = 1..Len(applications) /\ Len(applications) \in Nat
      /\ MaxForms \in Nat
  BY ListRows, ReviewsAssumption DEF ReviewsInv, Work, NoWork
<1>s. Seated(d, NoWork)
  BY <1>1, <1>2 DEF Seated
<1>3. /\ desk' \in [Desks -> Work] /\ desk'[d] = NoWork
      /\ \A e \in Desks \ {d} : desk'[e] = desk[e]
  BY <1>s, DeskMoves
<1>4. /\ applications' \in Seq(Verdict3) /\ Len(applications') = new
      /\ DOMAIN applications' = DOMAIN applications \cup {new}
      /\ new \notin DOMAIN applications /\ new \in 1..MaxForms /\ applications'[new] = "pending"
      /\ \A a \in DOMAIN applications : applications'[a] = applications[a]
  BY <1>n, <1>1, <1>2 DEF ReviewsType, Verdict3
<1>5. ReviewsType'
  <2>1. Len(applications') <= MaxForms
    BY <1>n, <1>1, <1>2, <1>4
  <2> QED BY <1>1, <1>2, <1>3, <1>4, <2>1 DEF ReviewsType
<1>6. \A e \in Desks : SeatOK(e)'
  BY <1>1, <1>2, <1>3, <1>4 DEF ReviewsInv, SeatOK
<1>7. ASSUME NEW a \in DOMAIN applications PROVE SchoolOK(a)'
  <2>1. SchoolOK(a) /\ schools[a] \in Nat /\ stops \in Nat
    BY <1>2, ListRows DEF ReviewsInv, ReviewsType
  <2>2. Opening(a)' \subseteq Opening(a) /\ Closing(a) \subseteq Closing(a)'
    <3>1. d \notin Closing(a) /\ d \notin Opening(a)'
      BY <1>1, <1>2, <1>3 DEF Closing, Opening
    <3> QED BY <1>s, <3>1, SeatsMove
  <2> QED BY <1>1, <1>4, <2>1, <2>2, SchoolStays
<1>8. SchoolOK(new)'
  <2>1. schools'[new] = 0 /\ stops' = stops /\ stops \in Nat
    BY <1>1, <1>2, <1>4 DEF ReviewsInv, ReviewsType
  <2>2. Opening(new)' = {}
    BY <1>2, <1>3, <1>4 DEF Opening, ReviewsInv, SeatOK
  <2>3. Cardinality({}) = 0 /\ Cardinality(Closing(new)') \in Nat /\ Cardinality(Desks) \in Nat
    BY FS_EmptySet, SeatsNow, SeatsNext
  <2> DEFINE bound == Cardinality(Desks) * (1 + stops)
             base  == Cardinality(Desks) * stops
  <2>4. base \in Nat /\ bound \in Nat /\ bound = base + Cardinality(Desks)
    BY <2>1, <2>3, OneMoreStop
  <2> HIDE DEF base, bound
  <2>5. 0 + 0 <= bound /\ 0 <= base + Cardinality(Closing(new)')
    BY <2>3, <2>4
  <2>6. applications'[new] # "approved"
    BY <1>4
  <2> QED BY <2>1, <2>2, <2>3, <2>5, <2>6 DEF SchoolOK, base, bound
<1>9. StatusHasForm'
  BY <1>1 DEF ReviewsInv, StatusHasForm
<1>10. \A a \in 1..MaxForms : a \notin DOMAIN applications' => schools'[a] = 0
  BY <1>1, <1>4 DEF ReviewsInv
<1>11. \A a \in DOMAIN applications' : SchoolOK(a)'
  BY <1>4, <1>7, <1>8
<1> QED BY <1>5, <1>6, <1>9, <1>10, <1>11 DEF ReviewsInv

\* The school is opened by a review that was counted as about to open it.
LEMMA OpenSchoolKeeps ==
    ASSUME ReviewsInv, NEW d \in Desks, OpenSchool(d)
    PROVE  ReviewsInv'
<1> DEFINE r == desk[d]
           w == [r EXCEPT !.step = "close"]
<1>a. PICK a : a = r.of
  OBVIOUS
<1>1. /\ r \in Work /\ r.step = "open" /\ r.verdict = "approved"
      /\ schools' = [schools EXCEPT ![a] = @ + 1]
      /\ desk' = [desk EXCEPT ![d] = w]
      /\ UNCHANGED <<forms, student, applications, stops>>
  <2>1. r \in Work
    BY DEF ReviewsInv, ReviewsType
  <2>2. r.step = "open" /\ r.verdict # "rejected"
    BY DEF OpenSchool, Turn
  <2>3. r.verdict \in Verdicts
    BY <2>1, <2>2, SeatParts
  <2> QED BY <1>a, <2>1, <2>2, <2>3 DEF OpenSchool, Verdicts
<1>2. /\ ReviewsType /\ a \in DOMAIN applications /\ DOMAIN applications \subseteq 1..MaxForms
      /\ w \in Work /\ w.step = "close" /\ w.of = a
  <2>1. ReviewsType /\ a \in DOMAIN applications
    BY <1>a, <1>1 DEF ReviewsInv, SeatOK
  <2>2. w \in Work /\ w.step = "close" /\ w.of = a
    BY <1>a, <1>1, SeatParts DEF Work, NoWork
  <2> QED BY <2>1, <2>2, ListRows
<1> HIDE DEF w
<1>s. Seated(d, w)
  BY <1>1, <1>2 DEF Seated
<1>3. /\ desk' \in [Desks -> Work] /\ desk'[d] = w
      /\ \A e \in Desks \ {d} : desk'[e] = desk[e]
  BY <1>s, DeskMoves
<1>4. /\ schools' \in [1..MaxForms -> Nat] /\ schools'[a] = schools[a] + 1
      /\ \A b \in 1..MaxForms \ {a} : schools'[b] = schools[b]
      /\ \A b \in 1..MaxForms : schools[b] \in Nat
  BY <1>1, <1>2 DEF ReviewsType
<1>5. ReviewsType'
  BY <1>1, <1>2, <1>3, <1>4 DEF ReviewsType
<1>6. ASSUME NEW e \in Desks PROVE SeatOK(e)'
  <2>1. CASE e = d
    <3>1. schools'[a] >= 1
      BY <1>2, <1>4
    <3> QED BY <1>1, <1>2, <1>3, <2>1, <3>1 DEF SeatOK
  <2>2. CASE e # d
    <3>1. SeatOK(e) /\ desk'[e] = desk[e]
      BY <1>3, <2>2 DEF ReviewsInv
    <3>2. \A b \in DOMAIN applications : schools[b] >= 1 => schools'[b] >= 1
      BY <1>2, <1>4
    <3> QED BY <1>1, <3>1, <3>2 DEF SeatOK
  <2> QED BY <2>1, <2>2
<1>7. ASSUME NEW b \in DOMAIN applications, b # a PROVE SchoolOK(b)'
  <2>1. SchoolOK(b) /\ schools[b] \in Nat /\ stops \in Nat /\ schools'[b] = schools[b]
    BY <1>2, <1>4, <1>7 DEF ReviewsInv, ReviewsType
  <2>2. Opening(b)' \subseteq Opening(b) /\ Closing(b) \subseteq Closing(b)'
    <3>1. d \notin Closing(b) /\ d \notin Opening(b)'
      BY <1>a, <1>1, <1>2, <1>3, <1>7 DEF Closing, Opening
    <3> QED BY <1>s, <3>1, SeatsMove
  <2> QED BY <1>1, <2>1, <2>2, SchoolStays
<1>8. SchoolOK(a)'
  <2>1. SchoolOK(a) /\ schools[a] \in Nat /\ stops \in Nat
    BY <1>2, <1>4 DEF ReviewsInv, ReviewsType
  <2>2. /\ Opening(a) = Opening(a)' \cup {d} /\ d \notin Opening(a)'
        /\ Closing(a)' = Closing(a) \cup {d} /\ d \notin Closing(a)
    <3>1. d \in Opening(a) /\ d \notin Closing(a)
      BY <1>a, <1>1 DEF Opening, Closing
    <3>2. d \notin Opening(a)' /\ d \in Closing(a)'
      BY <1>2, <1>3 DEF Opening, Closing
    <3>3. /\ Opening(a)' \subseteq Opening(a) \cup {d} /\ Opening(a) \subseteq Opening(a)' \cup {d}
          /\ Closing(a)' \subseteq Closing(a) \cup {d} /\ Closing(a) \subseteq Closing(a)' \cup {d}
      BY <1>s, SeatsMove
    <3> QED BY <3>1, <3>2, <3>3
  <2>3. /\ Cardinality(Closing(a)) \in Nat /\ IsFiniteSet(Closing(a))
        /\ Cardinality(Opening(a)) \in Nat /\ Cardinality(Desks) \in Nat
    BY SeatsNow
  <2>4. Cardinality(Opening(a)') \in Nat /\ IsFiniteSet(Opening(a)')
    BY SeatsNext
  <2>5. /\ Cardinality(Opening(a)) = Cardinality(Opening(a)') + 1
        /\ Cardinality(Closing(a)') = Cardinality(Closing(a)) + 1
    BY <2>2, <2>3, <2>4, FS_AddElement
  <2> DEFINE bound == Cardinality(Desks) * (1 + stops)
             base  == Cardinality(Desks) * stops
  <2>6. /\ schools[a] + Cardinality(Opening(a)) <= bound /\ bound \in Nat
        /\ applications[a] = "pending" => schools[a] <= base + Cardinality(Closing(a))
        /\ base \in Nat /\ bound' = bound /\ base' = base
    BY <1>1, <2>1, <2>3, OneMoreStop DEF SchoolOK
  <2> HIDE DEF bound, base
  <2>7. /\ schools'[a] + Cardinality(Opening(a)') <= bound'
        /\ applications'[a] = "pending" => schools'[a] <= base' + Cardinality(Closing(a)')
        /\ schools'[a] >= 1
    BY <1>1, <1>4, <2>1, <2>3, <2>4, <2>5, <2>6
  <2> QED BY <1>1, <2>7 DEF SchoolOK, bound, base
<1>9. StatusHasForm'
  BY <1>1 DEF ReviewsInv, StatusHasForm
<1>10. \A b \in 1..MaxForms : b \notin DOMAIN applications' => schools'[b] = 0
  BY <1>1, <1>2, <1>4 DEF ReviewsInv
<1>11. \A b \in DOMAIN applications' : SchoolOK(b)'
  BY <1>1, <1>7, <1>8
<1> QED BY <1>5, <1>6, <1>9, <1>10, <1>11 DEF ReviewsInv

\* An application is approved by a review that has opened a school.
LEMMA CloseApplicationKeeps ==
    ASSUME ReviewsInv, NEW d \in Desks, CloseApplication(d)
    PROVE  ReviewsInv'
<1> DEFINE r == desk[d]
           a == r.of
           v == r.verdict
<1>1. /\ r \in Work /\ r.step \in {"open", "close"} /\ (r.step = "open" => v = "rejected")
      /\ applications' = [applications EXCEPT ![a] = v]
      /\ desk' = [desk EXCEPT ![d] = NoWork]
      /\ UNCHANGED <<forms, student, schools, stops>>
  BY DEF ReviewsInv, ReviewsType, CloseApplication, Turn, Done
<1>2. /\ ReviewsType /\ a \in DOMAIN applications /\ v \in Verdicts
      /\ v = "approved" => schools[a] >= 1
      /\ NoWork \in Work /\ NoWork.step = "idle"
  BY <1>1, SeatParts DEF ReviewsInv, SeatOK, Work, NoWork
<1>s. Seated(d, NoWork)
  BY <1>1, <1>2 DEF Seated
<1>3. /\ desk' \in [Desks -> Work] /\ desk'[d] = NoWork
      /\ \A e \in Desks \ {d} : desk'[e] = desk[e]
  BY <1>s, DeskMoves
<1>4. /\ applications' \in Seq(Verdict3) /\ DOMAIN applications' = DOMAIN applications
      /\ Len(applications') = Len(applications)
      /\ applications'[a] = v /\ v # "pending"
      /\ \A b \in DOMAIN applications \ {a} : applications'[b] = applications[b]
  BY <1>1, <1>2 DEF ReviewsType, Verdict3, Verdicts
<1>5. ReviewsType'
  BY <1>1, <1>2, <1>3, <1>4 DEF ReviewsType
<1>6. \A e \in Desks : SeatOK(e)'
  BY <1>1, <1>2, <1>3, <1>4 DEF ReviewsInv, SeatOK
<1>7. ASSUME NEW b \in DOMAIN applications PROVE SchoolOK(b)'
  <2>1. SchoolOK(b) /\ schools[b] \in Nat /\ stops \in Nat
    BY <1>2, ListRows DEF ReviewsInv, ReviewsType
  <2>2. /\ Opening(b)' \subseteq Opening(b)
        /\ b # a => Closing(b) \subseteq Closing(b)'
    <3>1. d \notin Opening(b)' /\ (b # a => d \notin Closing(b))
      BY <1>2, <1>3 DEF Closing, Opening
    <3> QED BY <1>s, <3>1, SeatsMove
  <2>3. /\ applications'[b] = "pending" =>
             applications[b] = "pending" /\ Closing(b) \subseteq Closing(b)'
        /\ applications'[b] = "approved" => applications[b] = "approved" \/ schools[b] >= 1
    BY <1>2, <1>4, <2>2
  <2>4. schools'[b] = schools[b] /\ stops' = stops
    BY <1>1
  <2> QED BY <2>1, <2>2, <2>3, <2>4, SchoolStays
<1>8. StatusHasForm'
  BY <1>1 DEF ReviewsInv, StatusHasForm
<1> QED BY <1>1, <1>4, <1>5, <1>6, <1>7, <1>8 DEF ReviewsInv

\* Reviews that had opened a school and not closed the application are gone: they are what
\* the bound grows by.
LEMMA ReviewsCrashKeeps ==
    ASSUME ReviewsInv, ReviewsCrash
    PROVE  ReviewsInv'
<1>1. /\ stops' = stops + 1 /\ desk' = [d \in Desks |-> NoWork]
      /\ UNCHANGED <<forms, student, applications, schools>>
  BY DEF ReviewsCrash
<1>2. ReviewsType /\ NoWork \in Work
  BY DEF ReviewsInv, Work
<1>3. ReviewsType'
  BY <1>1, <1>2 DEF ReviewsType
<1>4. \A d \in Desks : SeatOK(d)'
  BY <1>1 DEF SeatOK, NoWork
<1>5. ASSUME NEW a \in DOMAIN applications PROVE SchoolOK(a)'
  <2>1. SchoolOK(a) /\ schools[a] \in Nat /\ stops \in Nat
    BY <1>2, ListRows DEF ReviewsInv, ReviewsType
  <2>2. Opening(a)' = {} /\ Closing(a)' = {} /\ Cardinality({}) = 0
    BY <1>1, FS_EmptySet DEF Opening, Closing, NoWork
  <2>3. /\ Cardinality(Closing(a)) \in Nat /\ Cardinality(Opening(a)) \in Nat
        /\ Cardinality(Desks) \in Nat
        /\ Cardinality(Opening(a)) + Cardinality(Closing(a)) <= Cardinality(Desks)
    BY SeatsNow
  <2> DEFINE n    == Cardinality(Desks)
             base == n * stops
  <2>4. /\ base \in Nat /\ n * (1 + stops) = base + n /\ n * stops' = base + n
        /\ n * (1 + stops') = base + n + n
    <3>1. base \in Nat /\ n * (1 + stops) = base + n /\ n * stops' = base + n
      BY <1>1, <2>1, <2>3, OneMoreStop
    <3>2. stops' \in Nat
      BY <1>1, <2>1
    <3>3. n * (1 + stops') = n * stops' + n
      BY <2>3, <3>2, OneMoreStop
    <3> QED BY <2>3, <3>1, <3>3
  <2>5. /\ schools[a] + Cardinality(Opening(a)) <= base + n
        /\ applications[a] = "approved" => schools[a] >= 1
    BY <2>1, <2>4 DEF SchoolOK
  <2> HIDE DEF base
  <2>6. /\ schools'[a] + Cardinality(Opening(a)') <= n * (1 + stops')
        /\ schools'[a] <= n * stops' + Cardinality(Closing(a)')
        /\ applications'[a] = "approved" => schools'[a] >= 1
    <3>1. schools'[a] = schools[a] /\ applications'[a] = applications[a] /\ n \in Nat
      BY <1>1, <2>3
    <3> HIDE DEF n
    <3> QED BY <2>1, <2>2, <2>3, <2>4, <2>5, <3>1
  <2> QED BY <2>6 DEF SchoolOK
<1>6. StatusHasForm'
  BY <1>1 DEF ReviewsInv, StatusHasForm
<1> QED BY <1>1, <1>3, <1>4, <1>5, <1>6 DEF ReviewsInv

LEMMA ReviewsStay ==
    ASSUME ReviewsInv, UNCHANGED reviewVars
    PROVE  ReviewsInv'
<1>1. UNCHANGED <<forms, student, applications, schools, desk, stops>>
  BY DEF reviewVars
<1>2. \A a : Opening(a)' = Opening(a) /\ Closing(a)' = Closing(a)
  BY <1>1 DEF Opening, Closing
<1> QED BY <1>1, <1>2 DEF ReviewsInv, ReviewsType, StatusHasForm, SeatOK, SchoolOK

LEMMA ReviewsStep ==
    ASSUME ReviewsInv, [Next]_vars
    PROVE  ReviewsInv'
<1>1. ReviewsNext \/ UNCHANGED reviewVars
  BY DEF Next, vars
<1>2. ASSUME NEW d \in Desks,
             \/ AskForm(d) \/ AskApplication(d) \/ InsertForm(d) \/ DecideForm(d)
             \/ \E i \in DOMAIN forms : AskReview(d, "decide", forms, i)
      PROVE  ReviewsInv'
  BY <1>2, FormSteps
<1>3. ASSUME NEW d \in Working, InsertApplication(d) \/ OpenSchool(d) \/ CloseApplication(d)
      PROVE  ReviewsInv'
  BY <1>3, InsertApplicationKeeps, OpenSchoolKeeps, CloseApplicationKeeps DEF Working
<1>4. \A d \in Working : d \in Desks
  BY DEF Working
<1> QED BY <1>1, <1>2, <1>3, <1>4, BeginReviewKeeps, ReviewsCrashKeeps, ReviewsStay
        DEF ReviewsNext

\* Whatever reviewers do at the same time, and wherever the process goes down between the
\* statements: nobody has a status without a form that says so, an approved application has
\* its school, and opens no more than reviews ran at once before and after each crash
\* (verify, school applications).
THEOREM ReviewsHaveOneOutcome == Spec => []ReviewsAgree
<1>1. Init => ReviewsInv
  <2> SUFFICES ASSUME Init PROVE ReviewsInv
    OBVIOUS
  <2>1. /\ forms = <<>> /\ applications = <<>> /\ student = "unverified"
        /\ schools = [a \in 1..MaxForms |-> 0] /\ desk = [d \in Desks |-> NoWork] /\ stops = 0
    BY DEF Init, ReviewsInit
  <2>2. ReviewsType
    BY <2>1, ReviewsAssumption DEF ReviewsType, Work
  <2>3. \A d \in Desks : SeatOK(d)
    BY <2>1 DEF SeatOK, NoWork
  <2> QED BY <2>1, <2>2, <2>3 DEF ReviewsInv, StatusHasForm
<1>2. ReviewsInv /\ [Next]_vars => ReviewsInv'
  BY ReviewsStep
<1>3. ReviewsInv => ReviewsAgree
  <2> SUFFICES ASSUME ReviewsInv, NEW a \in DOMAIN applications
               PROVE  /\ applications[a] = "approved" => schools[a] >= 1
                      /\ schools[a] <= Cardinality(Desks) * (1 + stops)
    BY DEF ReviewsAgree, ReviewsInv, SchoolsBounded
  <2>1. SchoolOK(a) /\ schools[a] \in Nat /\ stops \in Nat
    BY ListRows DEF ReviewsInv, ReviewsType
  <2>2. Cardinality(Opening(a)) \in Nat /\ Cardinality(Desks) \in Nat
    BY SeatsNow
  <2> DEFINE bound == Cardinality(Desks) * (1 + stops)
  <2>3. /\ schools[a] + Cardinality(Opening(a)) <= bound /\ bound \in Nat
        /\ applications[a] = "approved" => schools[a] >= 1
    BY <2>1, <2>2, OneMoreStop DEF SchoolOK
  <2> HIDE DEF bound
  <2>4. schools[a] <= bound
    BY <2>1, <2>2, <2>3
  <2> QED BY <2>3, <2>4 DEF bound
<1> QED BY <1>1, <1>2, <1>3, PTL DEF Spec
-----------------------------------------------------------------------------
(* Codes and payment accounts *)

CallPhases == {"code", "wait", "zero", "tries", "drop", "count", "consume", "look", "insert",
               "change", "cooling", "duplicate", "clear", "set", "unbind"}
CallRecord == [scene : Scenes \cup {"default"}, phase : CallPhases, entry : Nat,
               card : Cards \cup {None}, default : BOOLEAN, saved : Nat]
CardRow    == [status : {None, "active", "unbound"}, default : BOOLEAN, cooling : BOOLEAN]
SmsRow     == [code : Nat, tries : Nat, wait : BOOLEAN]

AccountsType ==
    /\ sms \in [Scenes -> SmsRow]
    /\ sent \in 0..MaxSends
    /\ cards \in [Cards -> CardRow]
    /\ calls \in [Slots -> CallRecord \cup {NoCall}]
    /\ wrong \in [1..MaxSends -> Nat]
    /\ uses \in [1..MaxSends -> Nat]
    /\ mixed \in BOOLEAN
    /\ lost \in Nat /\ torn \in Nat

\* Requests that begin the count of a scene anew when they are done, that have yet to
\* compare what was entered with code n, and that are about to count a wrong entry; and
\* those that code n may still let through.
Resetting(sc) == {s \in Slots : calls[s].phase \in {"wait", "zero"} /\ calls[s].scene = sc}
Counting(sc)  == {s \in Slots : calls[s].phase = "count" /\ calls[s].scene = sc}
Entering(n)   == {s \in Slots : calls[s].phase = "tries" /\ calls[s].saved = n}
Serving(n)    == {s \in Slots : calls[s].phase \in {"tries", "consume"} /\ calls[s].saved = n}

Resets(sc) == Cardinality(Resetting(sc))
Counts(sc) == Cardinality(Counting(sc))
Enters(n)  == Cardinality(Entering(n))
Serves(n)  == Cardinality(Serving(n))

\* A code belongs to one scene, and so do the requests that were begun with it.
CodesKnown ==
    \A sc \in Scenes :
      /\ sms[sc].code <= sent
      /\ \A other \in Scenes : sms[sc].code = sms[other].code /\ sms[sc].code # 0 => sc = other

CallKnown(s) ==
    LET r == calls[s]
    IN  /\ r.phase \in CallPhases \ {"clear", "set"} => r.scene \in Scenes
        /\ r.phase \in {"tries", "drop", "count", "consume"} =>
             /\ r.saved \in 1..sent
             /\ \A sc \in Scenes : sms[sc].code = r.saved => sc = r.scene

Current(n) == \E sc \in Scenes : sms[sc].code = n

UsesOK(n) ==
    /\ uses[n] + Serves(n) <= Cardinality(Slots)
    /\ Current(n) => uses[n] = 0

\* What the requests that begin the count anew may leave uncounted: while k of them are
\* under way, fewer slots are left for entries.
Uncounted(k) == (Cardinality(Slots) - 1 - k) * (MaxAttempts + Cardinality(Slots) - 2)

\* w wrong entries of a current code, t of them on the count and e about to be, while l
\* counts never came.
InCount(w, k, e, t, l) ==
    w > 0 => /\ k <= Cardinality(Slots) - 1
             /\ w <= Uncounted(k) + t + e + l
             /\ w <= Uncounted(k) + MaxAttempts - 1 + Cardinality(Slots) - k + l

\* w wrong entries of a code that is gone, and e that may still follow.
InAll(w, e, l) ==
    w + e <= Cardinality(Slots) * (MaxAttempts + Cardinality(Slots) - 1) + l

WrongOK(n) ==
    /\ \A sc \in Scenes :
         sms[sc].code = n => InCount(wrong[n], Resets(sc), Counts(sc), sms[sc].tries, lost)
    /\ ~Current(n) => InAll(wrong[n], Enters(n), lost)

CodesInv ==
    /\ AccountsType
    /\ CodesKnown
    /\ \A s \in Slots : CallKnown(s)
    /\ \A n \in 1..MaxSends : /\ n > sent => wrong[n] = 0 /\ uses[n] = 0
                              /\ UsesOK(n) /\ WrongOK(n)

\* Requests that have bound an account as the default and have yet to take the flag off
\* the others, and those that have yet to put it on again.
Hasty(r) == r.phase = "clear" /\ r.scene = "bind"
Clearing == {s \in Slots : Hasty(calls[s])}
Setting  == {s \in Slots : calls[s].phase = "set"}
Paying   == {s \in Slots : calls[s] # NoCall /\ calls[s].scene \in {"bind", "unbind", "default"}}

\* What a request about payment accounts is about, and has done so far.
CardKnown(s) ==
    LET r == calls[s]
    IN  /\ r.phase \in {"clear", "set", "cooling", "duplicate", "unbind"} =>
             r.scene \in {"bind", "unbind", "default"}
        /\ /\ r.phase \in CallPhases \ {"code", "wait", "zero"}
           /\ r.scene \in {"bind", "unbind", "default"}
           => r.card \in Cards
        /\ r.phase \in {"clear", "set"} =>
             /\ cards[r.card].status # None
             /\ ~mixed => cards[r.card].status = "active"
        /\ r.phase = "clear" => r.scene \in {"bind", "default"}
        /\ r.phase = "set" => r.scene = "default"

\* How many defaults a user may have at rest.
Allowed == torn + IF mixed THEN Cardinality(Slots) ELSE 1

FewDefaults == Cardinality(Defaults) + Cardinality(Setting) <= Allowed + Cardinality(Clearing)

BoundOneByOne ==
    /\ \A s, q \in Paying : s = q
    /\ \A c \in Defaults : cards[c].status = "active"

CardsInv ==
    /\ AccountsType
    /\ \A s \in Slots : CardKnown(s)
    /\ \A c \in Cards : cards[c].status = None => ~cards[c].default
    /\ FewDefaults
    /\ ~mixed => BoundOneByOne
-----------------------------------------------------------------------------
(* How requests move *)

LEMMA CallParts ==
    ASSUME AccountsType, NEW s \in Slots
    PROVE  /\ calls[s].phase \in CallPhases => calls[s] \in CallRecord /\ calls[s] # NoCall
           /\ calls[s] = NoCall => calls[s].phase = "idle"
           /\ calls[s] # NoCall => calls[s] \in CallRecord /\ calls[s].phase \in CallPhases
<1> QED BY DEF AccountsType, NoCall, CallPhases, CallRecord

Moved(s, r) ==
    /\ AccountsType /\ s \in Slots /\ r \in CallRecord \cup {NoCall}
    /\ calls' = [calls EXCEPT ![s] = r]

LEMMA CallMoves ==
    ASSUME NEW s, NEW r, Moved(s, r)
    PROVE  /\ calls' \in [Slots -> CallRecord \cup {NoCall}]
           /\ s \in Slots /\ calls'[s] = r
           /\ \A q \in Slots \ {s} : calls'[q] = calls[q]
<1> QED BY DEF Moved, AccountsType

LEMMA GoIs ==
    ASSUME AccountsType, NEW s \in Slots, calls[s].phase \in CallPhases,
           NEW phase \in CallPhases, Go(s, phase)
    PROVE  \E r \in CallRecord :
             /\ Moved(s, r) /\ r.phase = phase
             /\ r.scene = calls[s].scene /\ r.card = calls[s].card
             /\ r.saved = calls[s].saved /\ r.default = calls[s].default
<1> DEFINE r == [calls[s] EXCEPT !.phase = phase]
<1>1. calls[s] \in CallRecord
  BY CallParts
<1>2. r \in CallRecord /\ r.phase = phase /\ r.scene = calls[s].scene /\ r.card = calls[s].card
      /\ r.saved = calls[s].saved /\ r.default = calls[s].default
  BY <1>1 DEF CallRecord
<1>3. calls' = [calls EXCEPT ![s] = r]
  BY DEF Go
<1> QED BY <1>2, <1>3 DEF Moved

LEMMA EndIs ==
    ASSUME AccountsType, NEW s \in Slots, End(s)
    PROVE  Moved(s, NoCall)
<1> QED BY DEF End, Moved

\* A request of a user comes in.
Starts(s, r) ==
    /\ Moved(s, r) /\ calls[s] = NoCall /\ r \in CallRecord
    /\ mixed' = (mixed \/ (r.scene \notin {"register", "reset"} /\ Calling # {}))
    /\ UNCHANGED <<sms, sent, cards, wrong, uses, lost, torn>>
    /\ \/ r.phase = "code" /\ r.scene \in Scenes
       \/ /\ r.phase = "tries" /\ r.scene \in Scenes
          /\ r.saved = sms[r.scene].code /\ r.saved # 0
          /\ r.scene \in {"bind", "unbind"} => r.card \in Cards
       \/ /\ r.phase = "clear" /\ r.scene = "default"
          /\ r.card \in Cards /\ cards[r.card].status = "active"

LEMMA CallIsRecord ==
    ASSUME AccountsType, NEW sc \in Scenes \cup {"default"}, NEW phase \in CallPhases,
           NEW entry \in Nat, NEW card \in Cards \cup {None}
    PROVE  LET r == Call(sc, phase, entry, card)
           IN  /\ r \in CallRecord /\ r.scene = sc /\ r.phase = phase /\ r.card = card
               /\ sc \in Scenes => r.saved = sms[sc].code
<1>1. (IF sc \in Scenes THEN sms[sc].code ELSE 0) \in Nat
  BY DEF AccountsType, SmsRow
<1> QED BY <1>1 DEF Call, CallRecord

LEMMA StartIs ==
    ASSUME AccountsType, NEW s \in Slots, NEW r \in CallRecord, Start(s, r), UNCHANGED breakVars,
           \/ r.phase = "code" /\ r.scene \in Scenes
           \/ /\ r.phase = "tries" /\ r.scene \in Scenes
              /\ r.saved = sms[r.scene].code /\ r.saved # 0
              /\ r.scene \in {"bind", "unbind"} => r.card \in Cards
           \/ /\ r.phase = "clear" /\ r.scene = "default"
              /\ r.card \in Cards /\ cards[r.card].status = "active"
    PROVE  Starts(s, r)
<1> QED BY DEF Start, Starts, Moved, breakVars

\* Every request that comes in is one of the three kinds.
Asks(s) ==
    \/ \E sc \in Scenes : AskCode(s, sc)
    \/ AskRegister(s) \/ AskReset(s)
    \/ \E c \in Cards : AskBind(s, c) \/ AskUnbind(s, c) \/ AskDefault(s, c)

LEMMA AsksAre ==
    ASSUME AccountsType, NEW s \in Slots, Asks(s), UNCHANGED breakVars
    PROVE  \E r \in CallRecord : Starts(s, r)
<1>e. \A e \in Entries : e \in Nat
  BY DEF Entries, AccountsType
<1>p. {"code", "tries", "clear"} \subseteq CallPhases
  BY DEF CallPhases
<1>1. ASSUME NEW sc \in Scenes, AskCode(s, sc) PROVE \E r \in CallRecord : Starts(s, r)
  <2> DEFINE r == Call(sc, "code", 0, None)
  <2>1. r \in CallRecord /\ r.scene = sc /\ r.phase = "code"
    BY <1>p, CallIsRecord
  <2>2. Start(s, r)
    BY <1>1 DEF AskCode
  <2> HIDE DEF r
  <2>3. Starts(s, r)
    BY <2>1, <2>2, StartIs
  <2> QED BY <2>1, <2>3
<1>2. ASSUME NEW sc \in {"register", "reset"}, sms[sc].code # 0, NEW e \in Entries,
             Start(s, Call(sc, "tries", e, None))
      PROVE  \E r \in CallRecord : Starts(s, r)
  <2> DEFINE r == Call(sc, "tries", e, None)
  <2>1. /\ r \in CallRecord /\ r.scene = sc /\ r.phase = "tries" /\ r.saved = sms[sc].code
        /\ sc \in Scenes
    BY <1>e, <1>p, CallIsRecord DEF Scenes
  <2>2. Start(s, r)
    BY <1>2
  <2> HIDE DEF r
  <2>3. Starts(s, r)
    BY <1>2, <2>1, <2>2, StartIs
  <2> QED BY <2>1, <2>3
<1>3. ASSUME NEW c \in Cards, AskBind(s, c) PROVE \E r \in CallRecord : Starts(s, r)
  <2>1. PICK e \in Entries, default \in BOOLEAN :
          Start(s, [Call("bind", "tries", e, c) EXCEPT !.default = default])
    BY <1>3 DEF AskBind
  <2> DEFINE r == [Call("bind", "tries", e, c) EXCEPT !.default = default]
  <2>2. LET q == Call("bind", "tries", e, c)
        IN  /\ q \in CallRecord /\ q.scene = "bind" /\ q.phase = "tries" /\ q.card = c
            /\ q.saved = sms["bind"].code
    BY <1>e, <1>p, CallIsRecord DEF Scenes
  <2>3. /\ r \in CallRecord /\ r.scene = "bind" /\ r.phase = "tries" /\ r.card = c
        /\ r.saved = sms["bind"].code /\ r.saved # 0
    BY <1>3, <2>2 DEF CallRecord, AskBind
  <2> HIDE DEF r
  <2>4. Starts(s, r)
    BY <2>1, <2>3, StartIs DEF Scenes, r
  <2> QED BY <2>3, <2>4
<1>4. ASSUME NEW c \in Cards, AskUnbind(s, c) PROVE \E r \in CallRecord : Starts(s, r)
  <2>1. PICK e \in Entries : Start(s, Call("unbind", "tries", e, c))
    BY <1>4 DEF AskUnbind
  <2> DEFINE r == Call("unbind", "tries", e, c)
  <2>2. /\ r \in CallRecord /\ r.scene = "unbind" /\ r.phase = "tries" /\ r.card = c
        /\ r.saved = sms["unbind"].code
    BY <1>e, <1>p, CallIsRecord DEF Scenes
  <2>3. r.saved # 0 /\ Start(s, r)
    BY <1>4, <2>1, <2>2 DEF AskUnbind
  <2> HIDE DEF r
  <2>4. Starts(s, r)
    BY <2>2, <2>3, StartIs DEF Scenes
  <2> QED BY <2>2, <2>4
<1>5. ASSUME NEW c \in Cards, AskDefault(s, c) PROVE \E r \in CallRecord : Starts(s, r)
  <2> DEFINE r == Call("default", "clear", 0, c)
  <2>1. r \in CallRecord /\ r.scene = "default" /\ r.phase = "clear" /\ r.card = c
    BY <1>p DEF Call, CallRecord, Scenes
  <2>2. Start(s, r) /\ cards[c].status = "active"
    BY <1>5 DEF AskDefault
  <2> HIDE DEF r
  <2>3. Starts(s, r)
    BY <2>1, <2>2, StartIs
  <2> QED BY <2>1, <2>3
<1>6. ASSUME AskRegister(s) PROVE \E r \in CallRecord : Starts(s, r)
  BY <1>2, <1>6 DEF AskRegister
<1>7. ASSUME AskReset(s) PROVE \E r \in CallRecord : Starts(s, r)
  BY <1>2, <1>7 DEF AskReset
<1> QED BY <1>1, <1>3, <1>4, <1>5, <1>6, <1>7 DEF Asks

\* A guarded request goes on, once its code has let it through.
Follows(s) ==
    \/ LookForPhone(s) \/ InsertUser(s) \/ ChangePassword(s) \/ OtherPhone(s)
    \/ CheckCooldown(s) \/ InsertCard(s) \/ Refuse(s)
    \/ ClearDefaults(s) \/ SetDefault(s) \/ Unbind(s)

LEMMA AccountSteps ==
    ASSUME [Next]_vars
    PROVE  \/ UNCHANGED accountVars
           \/ /\ UNCHANGED breakVars
              /\ \/ \E s \in Slots : Asks(s)
                 \/ \E s \in Calling :
                      \/ SetCode(s) \/ SetCooldown(s) \/ ResetTries(s) \/ ReadTries(s)
                      \/ DropCode(s) \/ CountTry(s) \/ Consume(s) \/ Follows(s)
                 \/ \E sc \in Scenes : Expire(sc)
                 \/ \E c \in Cards : CooldownEnds(c)
           \/ \E s \in Calling : Break(s)
<1>1. \/ UNCHANGED accountVars
      \/ AccountsNext({"register"}) \/ AccountsNext({"reset"}) \/ AccountsNext({"bind", "unbind"})
  BY DEF Next, vars, ScenesOf
<1>2. ASSUME NEW scenes \in SUBSET Scenes, AccountsNext(scenes)
      PROVE  \/ /\ UNCHANGED breakVars
                /\ \/ \E s \in Slots : Asks(s)
                   \/ \E s \in Calling :
                        \/ SetCode(s) \/ SetCooldown(s) \/ ResetTries(s) \/ ReadTries(s)
                        \/ DropCode(s) \/ CountTry(s) \/ Consume(s) \/ Follows(s)
                   \/ \E sc \in Scenes : Expire(sc)
                   \/ \E c \in Cards : CooldownEnds(c)
             \/ \E s \in Calling : Break(s)
  BY <1>2 DEF AccountsNext, Asks, Follows
<1>3. /\ {"register"} \in SUBSET Scenes /\ {"reset"} \in SUBSET Scenes
      /\ {"bind", "unbind"} \in SUBSET Scenes
  BY DEF Scenes
<1> QED BY <1>1, <1>2, <1>3
-----------------------------------------------------------------------------
(* Counts of requests *)

LEMMA SlotsCount ==
    /\ Cardinality(Slots) \in Nat /\ Cardinality(Slots) >= 1
    /\ MaxAttempts \in Nat /\ MaxAttempts >= 1 /\ MaxSends \in Nat
<1> QED BY AccountsAssumption, FS_CardinalityType, FS_EmptySet

\* Sets of slots that differ in one slot at most.
LEMMA OneSlot ==
    ASSUME NEW s \in Slots, NEW S \in SUBSET Slots, NEW T \in SUBSET Slots,
           \A q \in Slots \ {s} : q \in S <=> q \in T
    PROVE  /\ Cardinality(S) \in Nat /\ Cardinality(T) \in Nat
           /\ Cardinality(S) <= Cardinality(Slots)
           /\ s \in S <=> s \in T => Cardinality(T) = Cardinality(S)
           /\ s \in T /\ s \notin S => Cardinality(T) = Cardinality(S) + 1
           /\ s \in S /\ s \notin T => Cardinality(T) = Cardinality(S) - 1
           /\ s \notin S => Cardinality(S) <= Cardinality(Slots) - 1
<1>1. IsFiniteSet(Slots) /\ IsFiniteSet(S) /\ IsFiniteSet(T)
  BY AccountsAssumption, FS_Subset
<1>2. Cardinality(S) \in Nat /\ Cardinality(T) \in Nat /\ Cardinality(Slots) \in Nat
  BY <1>1, FS_CardinalityType
<1>3. Cardinality(S) <= Cardinality(Slots)
  BY <1>1, FS_Subset
<1>4. ASSUME s \in S <=> s \in T PROVE Cardinality(T) = Cardinality(S)
  <2>1. S = T
    BY <1>4
  <2> QED BY <2>1
<1>5. ASSUME s \in T, s \notin S PROVE Cardinality(T) = Cardinality(S) + 1
  <2>1. T = S \cup {s}
    BY <1>5
  <2> QED BY <1>1, <1>5, <2>1, FS_AddElement
<1>6. ASSUME s \in S, s \notin T PROVE Cardinality(T) = Cardinality(S) - 1
  <2>1. T = S \ {s}
    BY <1>6
  <2> QED BY <1>1, <1>6, <2>1, FS_RemoveElement
<1>7. ASSUME s \notin S PROVE Cardinality(S) <= Cardinality(Slots) - 1
  <2>1. S \in SUBSET (Slots \ {s})
    BY <1>7
  <2>2. IsFiniteSet(Slots \ {s}) /\ Cardinality(Slots \ {s}) = Cardinality(Slots) - 1
    BY <1>1, FS_RemoveElement
  <2> QED BY <2>1, <2>2, FS_Subset
<1> QED BY <1>2, <1>3, <1>4, <1>5, <1>6, <1>7

LEMMA TwoKinds ==
    ASSUME NEW S \in SUBSET Slots, NEW T \in SUBSET Slots, S \cap T = {}
    PROVE  /\ Cardinality(S) \in Nat /\ Cardinality(T) \in Nat
           /\ Cardinality(S) + Cardinality(T) <= Cardinality(Slots)
<1>1. IsFiniteSet(Slots) /\ IsFiniteSet(S) /\ IsFiniteSet(T)
  BY AccountsAssumption, FS_Subset
<1>2. Cardinality(S) \in Nat /\ Cardinality(T) \in Nat /\ Cardinality(S \cap T) = 0
  BY <1>1, FS_CardinalityType, FS_EmptySet
<1>3. Cardinality(S \cup T) = Cardinality(S) + Cardinality(T) - Cardinality(S \cap T)
  BY <1>1, FS_Union
<1>4. S \cup T \in SUBSET Slots
  OBVIOUS
<1>5. Cardinality(S \cup T) <= Cardinality(Slots)
  BY <1>1, <1>4, FS_Subset
<1> QED BY <1>2, <1>3, <1>5

One(b) == IF b THEN 1 ELSE 0

LEMMA CountsMove ==
    ASSUME NEW s, NEW r, Moved(s, r), NEW sc
    PROVE  /\ Resets(sc) \in Nat /\ Counts(sc) \in Nat
           /\ Resets(sc)' = Resets(sc) + One(r.phase \in {"wait", "zero"} /\ r.scene = sc)
                - One(calls[s].phase \in {"wait", "zero"} /\ calls[s].scene = sc)
           /\ Counts(sc)' = Counts(sc) + One(r.phase = "count" /\ r.scene = sc)
                - One(calls[s].phase = "count" /\ calls[s].scene = sc)
           /\ calls[s].phase \notin {"wait", "zero"} => Resets(sc) <= Cardinality(Slots) - 1
<1>1. /\ s \in Slots /\ calls'[s] = r
      /\ \A q \in Slots \ {s} : calls'[q] = calls[q]
  BY CallMoves
<1>2. /\ Resetting(sc) \in SUBSET Slots /\ Resetting(sc)' \in SUBSET Slots
      /\ \A q \in Slots \ {s} : q \in Resetting(sc) <=> q \in Resetting(sc)'
      /\ s \in Resetting(sc) <=> calls[s].phase \in {"wait", "zero"} /\ calls[s].scene = sc
      /\ s \in Resetting(sc)' <=> r.phase \in {"wait", "zero"} /\ r.scene = sc
  BY <1>1 DEF Resetting
<1>3. /\ Counting(sc) \in SUBSET Slots /\ Counting(sc)' \in SUBSET Slots
      /\ \A q \in Slots \ {s} : q \in Counting(sc) <=> q \in Counting(sc)'
      /\ s \in Counting(sc) <=> calls[s].phase = "count" /\ calls[s].scene = sc
      /\ s \in Counting(sc)' <=> r.phase = "count" /\ r.scene = sc
  BY <1>1 DEF Counting
<1>4. /\ Cardinality(Resetting(sc)) \in Nat /\ Cardinality(Resetting(sc)') \in Nat
      /\ Cardinality(Resetting(sc)') = Cardinality(Resetting(sc))
           + One(s \in Resetting(sc)') - One(s \in Resetting(sc))
      /\ s \notin Resetting(sc) => Cardinality(Resetting(sc)) <= Cardinality(Slots) - 1
  BY <1>1, <1>2, OneSlot DEF One
<1>5. /\ Cardinality(Counting(sc)) \in Nat /\ Cardinality(Counting(sc)') \in Nat
      /\ Cardinality(Counting(sc)') = Cardinality(Counting(sc))
           + One(s \in Counting(sc)') - One(s \in Counting(sc))
  BY <1>1, <1>3, OneSlot DEF One
<1> QED BY <1>2, <1>3, <1>4, <1>5 DEF Resets, Counts, One

LEMMA CountsNext ==
    ASSUME NEW sc
    PROVE  /\ Resets(sc)' \in Nat /\ Counts(sc)' \in Nat
           /\ Resets(sc)' + Counts(sc)' <= Cardinality(Slots)
<1>1. /\ Resetting(sc)' \in SUBSET Slots /\ Counting(sc)' \in SUBSET Slots
      /\ Resetting(sc)' \cap Counting(sc)' = {}
  BY DEF Resetting, Counting
<1> QED BY <1>1, TwoKinds DEF Resets, Counts

LEMMA CountsNow ==
    ASSUME NEW x
    PROVE  Resets(x) \in Nat /\ Counts(x) \in Nat /\ Enters(x) \in Nat /\ Serves(x) \in Nat
<1>1. /\ Resetting(x) \in SUBSET Slots /\ Counting(x) \in SUBSET Slots
      /\ Entering(x) \in SUBSET Slots /\ Serving(x) \in SUBSET Slots
  BY DEF Resetting, Counting, Entering, Serving
<1>2. \A S \in SUBSET Slots : Cardinality(S) \in Nat
  BY AccountsAssumption, FS_Subset, FS_CardinalityType
<1> QED BY <1>1, <1>2 DEF Resets, Counts, Enters, Serves

LEMMA ServesMove ==
    ASSUME NEW s, NEW r, Moved(s, r), NEW n
    PROVE  /\ Enters(n) \in Nat /\ Serves(n) \in Nat
           /\ Serves(n) <= Cardinality(Slots) /\ Serves(n)' <= Cardinality(Slots)
           /\ Enters(n)' = Enters(n) + One(r.phase = "tries" /\ r.saved = n)
                - One(calls[s].phase = "tries" /\ calls[s].saved = n)
           /\ Serves(n)' = Serves(n) + One(r.phase \in {"tries", "consume"} /\ r.saved = n)
                - One(calls[s].phase \in {"tries", "consume"} /\ calls[s].saved = n)
           /\ r.phase # "tries" => Enters(n)' <= Cardinality(Slots) - 1
<1>1. /\ s \in Slots /\ calls'[s] = r
      /\ \A q \in Slots \ {s} : calls'[q] = calls[q]
  BY CallMoves
<1>2. /\ Entering(n) \in SUBSET Slots /\ Entering(n)' \in SUBSET Slots
      /\ \A q \in Slots \ {s} : q \in Entering(n) <=> q \in Entering(n)'
      /\ s \in Entering(n) <=> calls[s].phase = "tries" /\ calls[s].saved = n
      /\ s \in Entering(n)' <=> r.phase = "tries" /\ r.saved = n
  BY <1>1 DEF Entering
<1>3. /\ Serving(n) \in SUBSET Slots /\ Serving(n)' \in SUBSET Slots
      /\ \A q \in Slots \ {s} : q \in Serving(n) <=> q \in Serving(n)'
      /\ s \in Serving(n) <=> calls[s].phase \in {"tries", "consume"} /\ calls[s].saved = n
      /\ s \in Serving(n)' <=> r.phase \in {"tries", "consume"} /\ r.saved = n
  BY <1>1 DEF Serving
<1>4. /\ Cardinality(Entering(n)) \in Nat /\ Cardinality(Entering(n)') \in Nat
      /\ Cardinality(Entering(n)') = Cardinality(Entering(n))
           + One(s \in Entering(n)') - One(s \in Entering(n))
      /\ s \notin Entering(n)' => Cardinality(Entering(n)') <= Cardinality(Slots) - 1
  BY <1>1, <1>2, OneSlot DEF One
<1>5. /\ Cardinality(Serving(n)) \in Nat /\ Cardinality(Serving(n)') \in Nat
      /\ Cardinality(Serving(n)) <= Cardinality(Slots)
      /\ Cardinality(Serving(n)') <= Cardinality(Slots)
      /\ Cardinality(Serving(n)') = Cardinality(Serving(n))
           + One(s \in Serving(n)') - One(s \in Serving(n))
  BY <1>1, <1>3, OneSlot DEF One
<1> QED BY <1>2, <1>3, <1>4, <1>5 DEF Enters, Serves, One

LEMMA ServesNext ==
    ASSUME NEW n
    PROVE  Enters(n)' \in Nat /\ Serves(n)' \in Nat
<1>1. Entering(n)' \in SUBSET Slots /\ Serving(n)' \in SUBSET Slots /\ {} \in SUBSET Slots
  BY DEF Entering, Serving
<1>2. Entering(n)' \cap {} = {} /\ Serving(n)' \cap {} = {}
  OBVIOUS
<1> QED BY <1>1, <1>2, TwoKinds DEF Enters, Serves
-----------------------------------------------------------------------------
(* What the counts allow *)

LEMMA UncountedIs ==
    ASSUME NEW k \in Nat, k <= Cardinality(Slots) - 1
    PROVE  /\ Uncounted(k) \in Nat /\ Uncounted(0) \in Nat
           /\ Uncounted(k) <= Uncounted(0)
           /\ k >= 1 => Uncounted(k - 1) = Uncounted(k) + MaxAttempts + Cardinality(Slots) - 2
           /\ Cardinality(Slots) * (MaxAttempts + Cardinality(Slots) - 1)
                = Uncounted(0) + MaxAttempts + 2 * Cardinality(Slots) - 2
<1>1. PICK n \in Nat : n = Cardinality(Slots) /\ n >= 1
  BY SlotsCount
<1>2. PICK d \in Nat : d = MaxAttempts + n - 2
  BY <1>1, SlotsCount
<1>3. PICK m \in Nat : m = n - 1 - k
  BY <1>1
<1>4. m * d \in Nat /\ (n - 1) * d \in Nat /\ k * d \in Nat
  BY <1>1
<1>5. (n - 1) * d = m * d + k * d
  BY <1>1, <1>3
<1>6. k >= 1 => (n - 1 - (k - 1)) * d = m * d + d
  BY <1>1, <1>3
<1>7. n * (d + 1) = (n - 1) * d + d + n
  BY <1>1
<1>8. /\ Uncounted(k) = m * d /\ Uncounted(0) = (n - 1) * d
      /\ Uncounted(k - 1) = (n - 1 - (k - 1)) * d
  BY <1>1, <1>2, <1>3, SlotsCount DEF Uncounted
<1>9. MaxAttempts + n - 1 = d + 1 /\ MaxAttempts \in Nat
  BY <1>1, <1>2, SlotsCount
<1> QED BY <1>1, <1>2, <1>4, <1>5, <1>6, <1>7, <1>8, <1>9

\* One more wrong entry, while the count is below its limit.
LEMMA OneMoreEntry ==
    ASSUME NEW w \in Nat, NEW k \in Nat, NEW e \in Nat, NEW t \in Nat, NEW l \in Nat,
           InCount(w, k, e, t, l), t < MaxAttempts, k <= Cardinality(Slots) - 1,
           k + e + 1 <= Cardinality(Slots)
    PROVE  InCount(w + 1, k, e + 1, t, l)
<1>1. Uncounted(k) \in Nat
  BY UncountedIs
<1> QED BY <1>1, SlotsCount DEF InCount

LEMMA EntryIsCounted ==
    ASSUME NEW w \in Nat, NEW k \in Nat, NEW e \in Nat, NEW t \in Nat, NEW l \in Nat,
           InCount(w, k, e + 1, t, l)
    PROVE  InCount(w, k, e, t + 1, l)
<1>1. w > 0 => Uncounted(k) \in Nat
  BY UncountedIs DEF InCount
<1> QED BY <1>1, SlotsCount DEF InCount

\* The count begins anew.
LEMMA CountIsReset ==
    ASSUME NEW w \in Nat, NEW k \in Nat, NEW e \in Nat, NEW t \in Nat, NEW l \in Nat,
           InCount(w, k + 1, e, t, l)
    PROVE  InCount(w, k, e, 0, l)
<1>1. w > 0 => /\ Uncounted(k + 1) \in Nat
               /\ Uncounted(k) = Uncounted(k + 1) + MaxAttempts + Cardinality(Slots) - 2
  <2>1. k + 1 \in Nat /\ k + 1 >= 1 /\ (k + 1) - 1 = k
    OBVIOUS
  <2> QED BY <2>1, UncountedIs DEF InCount
<1> QED BY <1>1, SlotsCount DEF InCount

\* The code goes, and a request is not about to enter it.
LEMMA CodeIsGone ==
    ASSUME NEW w \in Nat, NEW k \in Nat, NEW e \in Nat, NEW t \in Nat, NEW l \in Nat,
           NEW m \in Nat,
           InCount(w, k, e, t, l), m <= Cardinality(Slots) - 1
    PROVE  InAll(w, m, l)
<1>1. /\ w > 0 => Uncounted(k) \in Nat /\ Uncounted(k) <= Uncounted(0)
      /\ Uncounted(0) \in Nat
      /\ Cardinality(Slots) * (MaxAttempts + Cardinality(Slots) - 1)
           = Uncounted(0) + MaxAttempts + 2 * Cardinality(Slots) - 2
  <2>1. 0 \in Nat /\ 0 <= Cardinality(Slots) - 1
    BY SlotsCount
  <2> QED BY <2>1, UncountedIs DEF InCount
<1> QED BY <1>1, SlotsCount DEF InCount, InAll

LEMMA AllBounds ==
    ASSUME NEW w \in Nat, NEW e \in Nat, NEW l \in Nat, InAll(w, e, l)
    PROVE  InAll(w, 0, l)
<1>1. Cardinality(Slots) * (MaxAttempts + Cardinality(Slots) - 1) \in Int
  BY SlotsCount
<1> QED BY <1>1 DEF InAll
-----------------------------------------------------------------------------
(* Steps of the codes *)

CodesGo ==
    \/ sent' = sent /\ \A sc \in Scenes : sms'[sc].code \in {sms[sc].code, 0}
    \/ /\ sent' = sent + 1
       /\ \E sc \in Scenes :
            /\ sms'[sc].code = sent'
            /\ \A other \in Scenes \ {sc} : sms'[other].code = sms[other].code

LEMMA CodesParts ==
    ASSUME AccountsType
    PROVE  /\ \A sc \in Scenes : sms[sc].code \in Nat /\ sms[sc].tries \in Nat
           /\ sent \in Nat /\ lost \in Nat
           /\ \A n \in 1..MaxSends : wrong[n] \in Nat /\ uses[n] \in Nat
<1> QED BY SlotsCount DEF AccountsType, SmsRow

LEMMA KnownNext ==
    ASSUME CodesInv, NEW s, NEW r, Moved(s, r), AccountsType', CodesGo, CallKnown(s)'
    PROVE  CodesKnown' /\ \A q \in Slots : CallKnown(q)'
<1>1. /\ \A sc \in Scenes : sms[sc].code \in Nat /\ sms'[sc].code \in Nat
      /\ \A sc \in Scenes : sms[sc].code <= sent
      /\ sent \in Nat /\ sent' \in Nat
  BY CodesParts DEF CodesInv, CodesKnown, AccountsType, SmsRow
<1>2. \A sc, other \in Scenes : sms[sc].code = sms[other].code /\ sms[sc].code # 0 => sc = other
  BY DEF CodesInv, CodesKnown
<1>3. CodesKnown'
  <2>1. ASSUME sent' = sent, \A sc \in Scenes : sms'[sc].code \in {sms[sc].code, 0}
        PROVE  CodesKnown'
    BY <1>1, <1>2, <2>1 DEF CodesKnown
  <2>2. ASSUME sent' = sent + 1, NEW sc \in Scenes, sms'[sc].code = sent',
               \A other \in Scenes \ {sc} : sms'[other].code = sms[other].code
        PROVE  CodesKnown'
    BY <1>1, <1>2, <2>2 DEF CodesKnown
  <2> QED BY <2>1, <2>2 DEF CodesGo
<1>4. ASSUME NEW q \in Slots, q # s PROVE CallKnown(q)'
  <2>1. calls'[q] = calls[q] /\ CallKnown(q)
    BY <1>4, CallMoves DEF CodesInv
  <2>2. ASSUME calls[q].phase \in {"tries", "drop", "count", "consume"}
        PROVE  /\ calls[q].saved \in 1..sent'
               /\ \A sc \in Scenes : sms'[sc].code = calls[q].saved => sc = calls[q].scene
    <3>1. /\ calls[q].saved \in 1..sent
          /\ \A sc \in Scenes : sms[sc].code = calls[q].saved => sc = calls[q].scene
      BY <2>1, <2>2 DEF CallKnown
    <3> QED BY <1>1, <3>1 DEF CodesGo
  <2> QED BY <2>1, <2>2 DEF CallKnown
<1> QED BY <1>3, <1>4

\* What each step has to show of a code.
CodeFits(n) == (n > sent => wrong[n] = 0 /\ uses[n] = 0) /\ UsesOK(n) /\ WrongOK(n)

LEMMA CodesFit ==
    ASSUME CodesInv, NEW s, NEW r, Moved(s, r), AccountsType', CodesGo, CallKnown(s)',
           \A n \in 1..MaxSends : CodeFits(n)'
    PROVE  CodesInv'
<1> QED BY KnownNext DEF CodesInv, CodeFits

\* A request goes on without a word to Redis about codes and attempts.
LEMMA QuietMove ==
    ASSUME CodesInv, NEW s, NEW r, Moved(s, r), AccountsType', CallKnown(s)',
           UNCHANGED <<sent, wrong, uses, lost>>,
           \A sc \in Scenes : /\ sms'[sc].code = sms[sc].code /\ sms'[sc].tries = sms[sc].tries
                              /\ r.phase \in {"wait", "zero"} /\ r.scene = sc <=>
                                 calls[s].phase \in {"wait", "zero"} /\ calls[s].scene = sc
                              /\ r.phase = "count" /\ r.scene = sc <=>
                                 calls[s].phase = "count" /\ calls[s].scene = sc,
           \A n \in 1..MaxSends :
              /\ r.phase = "tries" /\ r.saved = n =>
                   Current(n) \/ (calls[s].phase = "tries" /\ calls[s].saved = n)
              /\ r.phase \in {"tries", "consume"} /\ r.saved = n =>
                   \/ uses[n] = 0
                   \/ calls[s].phase \in {"tries", "consume"} /\ calls[s].saved = n
    PROVE  CodesInv'
<1>1. CodesGo
  BY DEF CodesGo
<1>2. ASSUME NEW n \in 1..MaxSends PROVE CodeFits(n)'
  <2>1. /\ Enters(n) \in Nat /\ Serves(n) \in Nat
        /\ Serves(n)' <= Cardinality(Slots)
        /\ Current(n) \/ Enters(n)' <= Enters(n)
        /\ uses[n] = 0 \/ Serves(n)' <= Serves(n)
        /\ Enters(n)' \in Int /\ Serves(n)' \in Int
    BY ServesMove DEF One
  <2>2. \A sc \in Scenes : Resets(sc)' = Resets(sc) /\ Counts(sc)' = Counts(sc)
    BY CountsMove DEF One
  <2>3. CodeFits(n) /\ wrong[n] \in Nat /\ uses[n] \in Nat /\ lost \in Nat
    BY CodesParts DEF CodesInv, CodeFits
  <2>4. Current(n)' <=> Current(n)
    BY DEF Current
  <2>5. UsesOK(n)'
    BY <2>1, <2>3, <2>4, SlotsCount DEF UsesOK, CodeFits
  <2>6. ~Current(n)' => InAll(wrong'[n], Enters(n)', lost)
    BY <2>1, <2>3, <2>4, SlotsCount DEF CodeFits, WrongOK, InAll
  <2>7. WrongOK(n)'
    BY <2>2, <2>3, <2>6 DEF CodeFits, WrongOK
  <2> QED BY <2>3, <2>5, <2>7 DEF CodeFits
<1> QED BY <1>1, <1>2, CodesFit

LEMMA StartsKeepCodes ==
    ASSUME CodesInv, NEW s, NEW r, Starts(s, r)
    PROVE  CodesInv'
<1>1. /\ AccountsType /\ Moved(s, r) /\ calls[s] = NoCall /\ r \in CallRecord
      /\ UNCHANGED <<sms, sent, cards, wrong, uses, lost, torn>> /\ calls'[s] = r /\ s \in Slots
  BY CallMoves DEF Starts, Moved
<1>2. calls[s].phase = "idle"
  BY <1>1, CallParts
<1>3. r.phase = "tries" => /\ r.scene \in Scenes /\ r.saved \in 1..sent
                           /\ r.saved = sms[r.scene].code
  BY <1>1, CodesParts DEF Starts, CodesInv, CodesKnown
<1>4. r.phase \in {"code", "tries", "clear"} /\ (r.phase # "clear" => r.scene \in Scenes)
  BY DEF Starts
<1>5. AccountsType'
  <2>1. mixed' \in BOOLEAN
    BY DEF Starts
  <2>2. calls' \in [Slots -> CallRecord \cup {NoCall}]
    BY <1>1, CallMoves
  <2> QED BY <1>1, <2>1, <2>2 DEF AccountsType
<1>6. CallKnown(s)'
  BY <1>1, <1>3, <1>4 DEF CallKnown, CodesInv, CodesKnown
<1>7. \A n \in 1..MaxSends : r.phase = "tries" /\ r.saved = n => Current(n) /\ uses[n] = 0
  BY <1>3 DEF Current, CodesInv, UsesOK
<1> QED BY <1>1, <1>2, <1>4, <1>5, <1>6, <1>7, QuietMove

\* What moves on with the request it had.
Onward(s, r, phase) ==
    /\ Moved(s, r) /\ r \in CallRecord /\ r.phase = phase
    /\ r.scene = calls[s].scene /\ r.card = calls[s].card
    /\ r.saved = calls[s].saved /\ r.default = calls[s].default

LEMMA GoesOnward ==
    ASSUME AccountsType, NEW s \in Slots, calls[s].phase \in CallPhases,
           NEW phase \in CallPhases, Go(s, phase)
    PROVE  \E r \in CallRecord : Onward(s, r, phase)
<1> QED BY GoIs DEF Onward

Later == {"look", "insert", "change", "cooling", "duplicate", "clear", "set", "unbind"}

\* A request that its code let through.
LEMMA FollowsAre ==
    ASSUME AccountsType, NEW s \in Calling, Follows(s)
    PROVE  /\ UNCHANGED <<sms, sent, wrong, uses, mixed>>
           /\ calls[s].phase \in Later /\ calls[s] \in CallRecord
           /\ \/ End(s)
              \/ calls[s].phase = "look" /\ Go(s, "insert")
              \/ calls[s].phase = "cooling" /\ Go(s, "insert")
              \/ calls[s].phase = "insert" /\ Go(s, "duplicate")
              \/ calls[s].phase = "insert" /\ Go(s, "clear")
              \/ calls[s].phase = "clear" /\ Go(s, "set")
<1>1. calls[s] \in CallRecord
  BY CallParts DEF Calling
<1>2. ASSUME LookForPhone(s) \/ InsertUser(s) \/ ChangePassword(s) \/ OtherPhone(s)
      PROVE  /\ UNCHANGED <<sms, sent, wrong, uses, mixed>> /\ calls[s].phase \in Later
             /\ End(s) \/ (calls[s].phase = "look" /\ Go(s, "insert"))
  BY <1>2 DEF LookForPhone, InsertUser, ChangePassword, OtherPhone, smsVars, Later
<1>3. ASSUME CheckCooldown(s) \/ InsertCard(s) \/ Refuse(s)
      PROVE  /\ UNCHANGED <<sms, sent, wrong, uses, mixed>> /\ calls[s].phase \in Later
             /\ \/ End(s)
                \/ calls[s].phase = "cooling" /\ Go(s, "insert")
                \/ calls[s].phase = "insert" /\ Go(s, "duplicate")
                \/ calls[s].phase = "insert" /\ Go(s, "clear")
  BY <1>3 DEF CheckCooldown, InsertCard, Refuse, smsVars, Later
<1>4. ASSUME ClearDefaults(s) \/ SetDefault(s) \/ Unbind(s)
      PROVE  /\ UNCHANGED <<sms, sent, wrong, uses, mixed>> /\ calls[s].phase \in Later
             /\ End(s) \/ (calls[s].phase = "clear" /\ Go(s, "set"))
  BY <1>4 DEF ClearDefaults, SetDefault, Unbind, smsVars, Later
<1> QED BY <1>1, <1>2, <1>3, <1>4 DEF Follows

\* The rows of the accounts stay rows.
LEMMA CardsStayRows ==
    ASSUME AccountsType, NEW s \in Calling, Follows(s)
    PROVE  cards' \in [Cards -> CardRow]
<1>1. calls[s] \in CallRecord
  BY CallParts DEF Calling
<1>2. ASSUME LookForPhone(s) \/ InsertUser(s) \/ ChangePassword(s) \/ OtherPhone(s)
             \/ CheckCooldown(s) \/ Refuse(s)
      PROVE  cards' = cards
  BY <1>2 DEF LookForPhone, InsertUser, ChangePassword, OtherPhone, CheckCooldown, Refuse
<1>3. ASSUME InsertCard(s) PROVE cards' \in [Cards -> CardRow]
  <2>1. [Unbound EXCEPT !.status = "active", !.default = calls[s].default] \in CardRow
    BY <1>1 DEF Unbound, CardRow, CallRecord
  <2> QED BY <1>3, <2>1 DEF InsertCard, AccountsType
<1>4. ASSUME ClearDefaults(s) PROVE cards' \in [Cards -> CardRow]
  <2>1. \A c \in Cards :
          [cards[c] EXCEPT !.default = @ /\ calls[s].scene = "bind" /\ c = calls[s].card] \in CardRow
    BY DEF AccountsType, CardRow
  <2> QED BY <1>4, <2>1 DEF ClearDefaults, Cleared
<1>5. ASSUME SetDefault(s) PROVE cards' \in [Cards -> CardRow]
  BY <1>5 DEF SetDefault, AccountsType, CardRow
<1>6. ASSUME Unbind(s) PROVE cards' \in [Cards -> CardRow]
  <2>1. [status |-> "unbound", default |-> FALSE, cooling |-> TRUE] \in CardRow
    BY DEF CardRow
  <2> QED BY <1>6, <2>1 DEF Unbind, AccountsType
<1> QED BY <1>2, <1>3, <1>4, <1>5, <1>6 DEF Follows, AccountsType

LEMMA FollowsKeepCodes ==
    ASSUME CodesInv, NEW s \in Calling, Follows(s), UNCHANGED <<lost, torn>>
    PROVE  CodesInv'
<1>1. AccountsType /\ s \in Slots /\ CallKnown(s)
  BY DEF CodesInv, Calling
<1>2. /\ UNCHANGED <<sms, sent, wrong, uses, mixed>>
      /\ calls[s].phase \in Later /\ calls[s] \in CallRecord
  BY <1>1, FollowsAre
<1>3. cards' \in [Cards -> CardRow]
  BY <1>1, CardsStayRows
<1>4. ASSUME NEW r, Moved(s, r), r.phase \in Later \cup {"idle"},
             r.phase \in CallPhases \ {"clear", "set"} => r.scene \in Scenes
      PROVE  CodesInv'
  <2>1. calls' \in [Slots -> CallRecord \cup {NoCall}] /\ calls'[s] = r
    BY <1>4, CallMoves
  <2>2. AccountsType'
    BY <1>1, <1>2, <1>3, <2>1 DEF AccountsType
  <2>3. CallKnown(s)'
    BY <1>4, <2>1 DEF CallKnown, Later
  <2> QED BY <1>2, <1>4, <2>2, <2>3, QuietMove DEF Later
<1>5. CASE End(s)
  <2>1. Moved(s, NoCall) /\ NoCall.phase = "idle" /\ "idle" \notin CallPhases
    BY <1>1, <1>5, EndIs DEF NoCall, CallPhases
  <2> QED BY <1>4, <2>1
<1>6. ASSUME NEW phase \in Later, Go(s, phase),
             calls[s].phase \notin {"clear", "set"} \/ phase \in {"clear", "set"}
      PROVE  CodesInv'
  <2>1. phase \in CallPhases /\ calls[s].phase \in CallPhases
    BY <1>2 DEF Later, CallPhases
  <2>2. PICK r \in CallRecord : Onward(s, r, phase)
    BY <1>1, <1>6, <2>1, GoesOnward
  <2>3. /\ Moved(s, r) /\ r.phase \in Later \cup {"idle"}
        /\ r.phase \in CallPhases \ {"clear", "set"} => r.scene \in Scenes
    BY <1>1, <1>6, <2>1, <2>2 DEF Onward, CallKnown
  <2> QED BY <1>4, <2>3
<1>7. /\ {"insert", "duplicate", "clear", "set"} \subseteq Later
      /\ \/ End(s)
         \/ Go(s, "insert") /\ calls[s].phase \notin {"clear", "set"}
         \/ Go(s, "duplicate") /\ calls[s].phase \notin {"clear", "set"}
         \/ Go(s, "clear") \/ Go(s, "set")
  BY <1>1, FollowsAre DEF Later
<1> QED BY <1>5, <1>6, <1>7

\* One field of one row of Redis is set.
LEMMA CodeIsSet ==
    ASSUME AccountsType, NEW sc \in Scenes, NEW n \in Nat,
           sms' = [sms EXCEPT ![sc].code = n]
    PROVE  /\ sms' \in [Scenes -> SmsRow]
           /\ \A other \in Scenes :
                /\ sms'[other].code = IF other = sc THEN n ELSE sms[other].code
                /\ sms'[other].tries = sms[other].tries
<1> QED BY DEF AccountsType, SmsRow

LEMMA TriesAreSet ==
    ASSUME AccountsType, NEW sc \in Scenes, NEW n \in Nat,
           sms' = [sms EXCEPT ![sc].tries = n]
    PROVE  /\ sms' \in [Scenes -> SmsRow]
           /\ \A other \in Scenes :
                /\ sms'[other].code = sms[other].code
                /\ sms'[other].tries = IF other = sc THEN n ELSE sms[other].tries
<1> QED BY DEF AccountsType, SmsRow

LEMMA WaitIsSet ==
    ASSUME AccountsType, NEW sc \in Scenes, NEW b \in BOOLEAN,
           sms' = [sms EXCEPT ![sc].wait = b]
    PROVE  /\ sms' \in [Scenes -> SmsRow]
           /\ \A other \in Scenes :
                /\ sms'[other].code = sms[other].code
                /\ sms'[other].tries = sms[other].tries
<1> QED BY DEF AccountsType, SmsRow

LEMMA SetCooldownKeepsCodes ==
    ASSUME CodesInv, NEW s \in Calling, SetCooldown(s), UNCHANGED <<lost, torn>>
    PROVE  CodesInv'
<1>1. /\ AccountsType /\ s \in Slots /\ CallKnown(s) /\ calls[s].phase = "wait"
      /\ "wait" \in CallPhases /\ "zero" \in CallPhases
  BY DEF CodesInv, Calling, SetCooldown, CallPhases
<1>2. PICK r \in CallRecord : Onward(s, r, "zero")
  BY <1>1, GoesOnward DEF SetCooldown
<1>3. /\ r.scene \in Scenes /\ r.scene = calls[s].scene /\ r.phase = "zero" /\ Moved(s, r)
  BY <1>1, <1>2 DEF CallKnown, Onward
<1>4. /\ sms' = [sms EXCEPT ![r.scene].wait = TRUE]
      /\ UNCHANGED <<sent, cards, wrong, uses, mixed>>
  BY <1>3 DEF SetCooldown
<1>5. /\ sms' \in [Scenes -> SmsRow]
      /\ \A sc \in Scenes : sms'[sc].code = sms[sc].code /\ sms'[sc].tries = sms[sc].tries
  BY <1>1, <1>3, <1>4, WaitIsSet
<1>6. calls' \in [Slots -> CallRecord \cup {NoCall}] /\ calls'[s] = r
  BY <1>3, CallMoves
<1>7. AccountsType'
  BY <1>1, <1>4, <1>5, <1>6 DEF AccountsType
<1>8. CallKnown(s)'
  BY <1>3, <1>6 DEF CallKnown
<1> QED BY <1>1, <1>3, <1>4, <1>5, <1>7, <1>8, QuietMove

\* A code is sent: the one before goes, whatever of it is still under way.
LEMMA SetCodeKeepsCodes ==
    ASSUME CodesInv, NEW s \in Calling, SetCode(s), UNCHANGED <<lost, torn>>
    PROVE  CodesInv'
<1>1. /\ AccountsType /\ s \in Slots /\ CallKnown(s) /\ calls[s].phase = "code"
      /\ "wait" \in CallPhases /\ "code" \in CallPhases
  BY DEF CodesInv, Calling, SetCode, CallPhases
<1>2. PICK r \in CallRecord : Onward(s, r, "wait")
  BY <1>1, GoesOnward DEF SetCode
<1>3. PICK sc \in Scenes : /\ sc = r.scene /\ sc = calls[s].scene
  BY <1>1, <1>2 DEF CallKnown, Onward
<1>3a. r.phase = "wait" /\ Moved(s, r)
  BY <1>2 DEF Onward
<1>4. /\ sms' = [sms EXCEPT ![sc].code = sent + 1] /\ sent < MaxSends /\ sent' = sent + 1
      /\ UNCHANGED <<cards, wrong, uses, mixed>>
  BY <1>3 DEF SetCode
<1>5. sent \in Nat /\ sent + 1 \in Nat
  BY <1>1, CodesParts
<1>6. /\ sms' \in [Scenes -> SmsRow]
      /\ \A other \in Scenes :
           /\ sms'[other].code = IF other = sc THEN sent' ELSE sms[other].code
           /\ sms'[other].tries = sms[other].tries
  <2>1. PICK n \in Nat : n = sent + 1
    BY <1>5
  <2>2. sms' = [sms EXCEPT ![sc].code = n]
    BY <1>4, <2>1
  <2>3. /\ sms' \in [Scenes -> SmsRow]
        /\ \A other \in Scenes :
             /\ sms'[other].code = IF other = sc THEN n ELSE sms[other].code
             /\ sms'[other].tries = sms[other].tries
    BY <1>1, <2>2, CodeIsSet
  <2> QED BY <1>4, <2>1, <2>3
<1>7. calls' \in [Slots -> CallRecord \cup {NoCall}] /\ calls'[s] = r
  BY <1>3a, CallMoves
<1>8. AccountsType'
  <2>1. sent' \in 0..MaxSends
    BY <1>4, <1>5, SlotsCount
  <2> QED BY <1>1, <1>4, <1>6, <1>7, <2>1 DEF AccountsType
<1>9. CallKnown(s)'
  BY <1>3, <1>3a, <1>7 DEF CallKnown
<1>10. CodesGo
  BY <1>4, <1>6 DEF CodesGo
<1>11. ASSUME NEW n \in 1..MaxSends PROVE CodeFits(n)'
  <2>1. /\ Enters(n) \in Nat /\ Enters(n)' = Enters(n) /\ Serves(n)' = Serves(n)
        /\ Enters(n)' <= Cardinality(Slots) - 1
    BY <1>1, <1>3a, ServesMove DEF One
  <2>2. ASSUME NEW other \in Scenes
        PROVE  /\ Resets(other) \in Nat /\ Counts(other) \in Nat /\ Counts(other)' = Counts(other)
               /\ other # sc => Resets(other)' = Resets(other)
    <3>1. calls[s].scene = sc /\ r.scene = sc
      BY <1>3
    <3>2. One(FALSE) = 0 /\ One(TRUE) = 1
      BY DEF One
    <3>3. /\ Resets(other) \in Nat /\ Counts(other) \in Nat
          /\ Resets(other)' = Resets(other) + One(other = sc) - One(FALSE)
          /\ Counts(other)' = Counts(other) + One(FALSE) - One(FALSE)
      BY <1>1, <1>3a, <3>1, CountsMove DEF One
    <3> QED BY <3>2, <3>3 DEF One
  <2>3. /\ CodeFits(n) /\ wrong[n] \in Nat /\ uses[n] \in Nat
        /\ wrong'[n] = wrong[n] /\ uses'[n] = uses[n]
    BY <1>4, CodesParts DEF CodesInv, CodeFits
  <2>4. n = sent' => wrong[n] = 0 /\ uses[n] = 0
    BY <1>4, <1>5, <2>3 DEF CodeFits
  <2>5. Current(n)' => n = sent' \/ Current(n)
    BY <1>6 DEF Current
  <2>6. UsesOK(n)'
    BY <2>1, <2>3, <2>4, <2>5 DEF UsesOK, CodeFits
  <2>7. ASSUME NEW other \in Scenes, sms'[other].code = n
        PROVE  InCount(wrong[n], Resets(other)', Counts(other)', sms'[other].tries, lost)
    <3>1. CASE other = sc
      BY <1>6, <2>4, <2>7, <3>1 DEF InCount
    <3>2. CASE other # sc
      BY <1>6, <2>2, <2>3, <2>7, <3>2 DEF CodeFits, WrongOK
    <3> QED BY <3>1, <3>2
  <2>8. ASSUME ~Current(n)' PROVE InAll(wrong[n], Enters(n)', lost)
    <3>1. CASE ~Current(n)
      BY <2>1, <2>3, <3>1 DEF CodeFits, WrongOK
    <3>2. CASE Current(n)
      <4>1. sms[sc].code = n
        BY <1>6, <2>8, <3>2 DEF Current
      <4>2. InCount(wrong[n], Resets(sc), Counts(sc), sms[sc].tries, lost)
        BY <2>3, <4>1 DEF CodeFits, WrongOK
      <4>3. sms[sc].tries \in Nat /\ lost \in Nat
        BY <1>1, CodesParts
      <4> QED BY <2>1, <2>2, <2>3, <4>2, <4>3, CodeIsGone
    <3> QED BY <3>1, <3>2
  <2>9. WrongOK(n)'
    BY <2>3, <2>7, <2>8 DEF WrongOK
  <2>10. n > sent' => wrong[n] = 0 /\ uses[n] = 0
    BY <1>4, <1>5, <2>3 DEF CodeFits
  <2> QED BY <2>3, <2>6, <2>9, <2>10 DEF CodeFits
<1> QED BY <1>3a, <1>8, <1>9, <1>10, <1>11, CodesFit

\* The count begins anew, with the request that made it do so.
LEMMA ResetTriesKeepsCodes ==
    ASSUME CodesInv, NEW s \in Calling, ResetTries(s), UNCHANGED <<lost, torn>>
    PROVE  CodesInv'
<1>1. /\ AccountsType /\ s \in Slots /\ CallKnown(s) /\ calls[s].phase = "zero"
      /\ calls[s].phase \in CallPhases /\ Moved(s, NoCall) /\ NoCall.phase = "idle"
  BY EndIs DEF CodesInv, Calling, ResetTries, CallPhases, NoCall
<1>2. PICK sc \in Scenes : sc = calls[s].scene
  BY <1>1 DEF CallKnown
<1>3. sms' = [sms EXCEPT ![sc].tries = 0] /\ UNCHANGED <<sent, cards, wrong, uses, mixed>>
  BY <1>2 DEF ResetTries
<1>4. /\ sms' \in [Scenes -> SmsRow]
      /\ \A other \in Scenes :
           /\ sms'[other].code = sms[other].code
           /\ sms'[other].tries = IF other = sc THEN 0 ELSE sms[other].tries
  BY <1>1, <1>3, TriesAreSet
<1>5. calls' \in [Slots -> CallRecord \cup {NoCall}] /\ calls'[s] = NoCall
  BY <1>1, CallMoves
<1>6. AccountsType'
  BY <1>1, <1>3, <1>4, <1>5 DEF AccountsType
<1>7. CallKnown(s)'
  BY <1>1, <1>5 DEF CallKnown, CallPhases
<1>8. CodesGo
  BY <1>3, <1>4 DEF CodesGo
<1>9. ASSUME NEW n \in 1..MaxSends PROVE CodeFits(n)'
  <2>1. Enters(n)' = Enters(n) /\ Serves(n)' = Serves(n) /\ Enters(n) \in Nat /\ Serves(n) \in Nat
    BY <1>1, ServesMove DEF One
  <2>2. CodeFits(n) /\ wrong[n] \in Nat /\ wrong'[n] = wrong[n] /\ uses'[n] = uses[n]
    BY <1>3, CodesParts DEF CodesInv, CodeFits
  <2>3. Current(n)' <=> Current(n)
    BY <1>4 DEF Current
  <2>4. ASSUME NEW other \in Scenes, sms'[other].code = n
        PROVE  InCount(wrong[n], Resets(other)', Counts(other)', sms'[other].tries, lost)
    <3>1. /\ Resets(other) \in Nat /\ Counts(other) \in Nat
          /\ Resets(other)' = Resets(other) + One(FALSE) - One(other = sc)
          /\ Counts(other)' = Counts(other) + One(FALSE) - One(FALSE)
          /\ Resets(other)' \in Nat
      BY <1>1, <1>2, CountsMove, CountsNext DEF One
    <3>2. InCount(wrong[n], Resets(other), Counts(other), sms[other].tries, lost)
      BY <1>4, <2>2, <2>4 DEF CodeFits, WrongOK
    <3>3. sms[other].tries \in Nat /\ lost \in Nat
      BY <1>1, CodesParts
    <3>4. CASE other = sc
      <4>1. Resets(other) = Resets(other)' + 1 /\ Counts(other)' = Counts(other)
        BY <3>1, <3>4 DEF One
      <4>2. InCount(wrong[n], Resets(other)' + 1, Counts(other), sms[other].tries, lost)
        BY <3>2, <4>1
      <4>3. InCount(wrong[n], Resets(other)', Counts(other), 0, lost)
        BY <2>2, <3>1, <3>3, <4>2, CountIsReset
      <4> QED BY <1>4, <3>4, <4>1, <4>3
    <3>5. CASE other # sc
      BY <1>4, <3>1, <3>2, <3>5 DEF One
    <3> QED BY <3>4, <3>5
  <2> QED BY <1>3, <2>1, <2>2, <2>3, <2>4 DEF CodeFits, UsesOK, WrongOK
<1> QED BY <1>1, <1>6, <1>7, <1>8, <1>9, CodesFit

\* A request that has read too many attempts, or is about to be served, takes the code of
\* its scene away, be it the one that it was begun with or a later one.
LEMMA CodeGoes ==
    ASSUME CodesInv, NEW s \in Slots, calls[s].phase \in {"drop", "consume"},
           NEW sc \in Scenes, sc = calls[s].scene,
           NEW r, Moved(s, r), r.phase \in Later \cup {"idle"}, CallKnown(s)',
           sms' = [sms EXCEPT ![sc].code = 0],
           UNCHANGED <<sent, cards, wrong, mixed, lost, torn>>,
           uses' \in [1..MaxSends -> Nat],
           \A n \in 1..MaxSends : 
             \/ uses'[n] = uses[n]
             \/ /\ n = calls[s].saved /\ calls[s].phase = "consume"
                /\ uses'[n] = uses[n] + 1
    PROVE  CodesInv'
<1>1. AccountsType /\ CallKnown(s)
  BY DEF CodesInv
<1>2. /\ sms' \in [Scenes -> SmsRow]
      /\ \A other \in Scenes :
           /\ sms'[other].code = IF other = sc THEN 0 ELSE sms[other].code
           /\ sms'[other].tries = sms[other].tries
  <2>1. PICK none \in Nat : none = 0
    OBVIOUS
  <2>2. sms' = [sms EXCEPT ![sc].code = none]
    BY <2>1
  <2>3. /\ sms' \in [Scenes -> SmsRow]
        /\ \A other \in Scenes :
             /\ sms'[other].code = IF other = sc THEN none ELSE sms[other].code
             /\ sms'[other].tries = sms[other].tries
    BY <1>1, <2>2, CodeIsSet
  <2> QED BY <2>1, <2>3
<1>3. calls' \in [Slots -> CallRecord \cup {NoCall}]
  BY CallMoves
<1>4. AccountsType'
  BY <1>1, <1>2, <1>3 DEF AccountsType
<1>5. CodesGo
  BY <1>2 DEF CodesGo
<1>6. ASSUME NEW n \in 1..MaxSends PROVE CodeFits(n)'
  <2>1. /\ Enters(n) \in Nat /\ Serves(n) \in Nat
        /\ Enters(n)' = Enters(n)
        /\ Serves(n)' = Serves(n) - One(calls[s].phase = "consume" /\ calls[s].saved = n)
        /\ Enters(n)' <= Cardinality(Slots) - 1
    BY ServesMove DEF One, Later
  <2>2. Enters(n)' \in Nat
    BY ServesNext
  <2>3. /\ CodeFits(n) /\ wrong[n] \in Nat /\ uses[n] \in Nat /\ wrong'[n] = wrong[n]
        /\ uses'[n] \in Nat
        /\ \/ uses'[n] = uses[n]
           \/ /\ n = calls[s].saved /\ calls[s].phase = "consume"
              /\ uses'[n] = uses[n] + 1
    BY <1>1, CodesParts DEF CodesInv, CodeFits
  <2>4. Current(n)' => Current(n) /\ n # calls[s].saved
    <3>1. \A other \in Scenes : sms[other].code = calls[s].saved => other = sc
      BY <1>1 DEF CallKnown
    <3>2. ASSUME NEW other \in Scenes, sms'[other].code = n
          PROVE  sms[other].code = n /\ other # sc
      BY <1>2, <3>2
    <3> QED BY <3>1, <3>2 DEF Current
  <2>5. UsesOK(n)'
    BY <2>1, <2>3, <2>4, SlotsCount DEF UsesOK, CodeFits, One
  <2>6. \A other \in Scenes : Resets(other)' = Resets(other) /\ Counts(other)' = Counts(other)
    BY CountsMove DEF One, Later
  <2>7. ASSUME NEW other \in Scenes, sms'[other].code = n
        PROVE  InCount(wrong'[n], Resets(other)', Counts(other)', sms'[other].tries, lost)
    BY <1>2, <2>3, <2>6, <2>7 DEF CodeFits, WrongOK
  <2>8. ASSUME ~Current(n)' PROVE InAll(wrong'[n], Enters(n)', lost)
    <3>1. CASE ~Current(n)
      <4>1. InAll(wrong[n], Enters(n), lost) /\ Enters(n)' <= Enters(n)
        BY <2>1, <2>3, <3>1 DEF CodeFits, WrongOK, One
      <4> QED BY <2>1, <2>2, <2>3, <4>1, SlotsCount DEF InAll
    <3>2. CASE Current(n)
      <4>1. sms[sc].code = n
        BY <1>2, <2>8, <3>2 DEF Current
      <4>2. InCount(wrong[n], Resets(sc), Counts(sc), sms[sc].tries, lost)
        BY <2>3, <4>1 DEF CodeFits, WrongOK
      <4>3. /\ sms[sc].tries \in Nat /\ Resets(sc) \in Nat /\ Counts(sc) \in Nat
            /\ lost \in Nat
        BY <1>1, CodesParts, CountsMove
      <4> QED BY <2>1, <2>2, <2>3, <4>2, <4>3, CodeIsGone
    <3> QED BY <3>1, <3>2
  <2>9. WrongOK(n)'
    BY <2>7, <2>8 DEF WrongOK
  <2>10. n > sent' => wrong'[n] = 0 /\ uses'[n] = 0
    <3>1. calls[s].saved \in 1..sent /\ sent \in Nat
      BY <1>1, CodesParts DEF CallKnown
    <3>2. n > sent => wrong[n] = 0 /\ uses[n] = 0 /\ n # calls[s].saved
      BY <2>3, <3>1 DEF CodeFits
    <3> QED BY <2>3, <3>2
  <2> QED BY <2>5, <2>9, <2>10 DEF CodeFits
<1> QED BY <1>4, <1>5, <1>6, CodesFit

LEMMA ConsumeKeepsCodes ==
    ASSUME CodesInv, NEW s \in Calling, Consume(s), UNCHANGED <<lost, torn>>
    PROVE  CodesInv'
<1>1. /\ AccountsType /\ s \in Slots /\ CallKnown(s) /\ calls[s].phase = "consume"
      /\ "consume" \in CallPhases /\ Later \subseteq CallPhases
  BY DEF CodesInv, Calling, Consume, CallPhases, Later
<1>2. PICK sc \in Scenes : sc = calls[s].scene
  BY <1>1 DEF CallKnown
<1>3. /\ sms' = [sms EXCEPT ![sc].code = 0] /\ UNCHANGED <<sent, cards, wrong, mixed>>
      /\ uses' = [uses EXCEPT ![calls[s].saved] = @ + 1]
  BY <1>2 DEF Consume, Consumed
<1>4. PICK phase \in {"look", "change", "cooling", "unbind"} : Go(s, phase)
  BY DEF Consume
<1>5. phase \in Later /\ phase \notin {"clear", "set"}
  BY DEF Later
<1>6. PICK r \in CallRecord : Onward(s, r, phase)
  BY <1>1, <1>4, <1>5, GoesOnward
<1>7. Moved(s, r) /\ r.phase = phase /\ r.scene \in Scenes
  BY <1>2, <1>6 DEF Onward
<1>8. calls'[s] = r
  BY <1>7, CallMoves
<1>9. CallKnown(s)'
  BY <1>5, <1>7, <1>8 DEF CallKnown, Later
<1>10. calls[s].saved \in 1..MaxSends
  <2>1. calls[s].saved \in 1..sent /\ sent \in 0..MaxSends
    BY <1>1 DEF CallKnown, AccountsType
  <2> QED BY <2>1, SlotsCount
<1>11. /\ uses' \in [1..MaxSends -> Nat]
       /\ \A n \in 1..MaxSends :
            \/ uses'[n] = uses[n]
            \/ n = calls[s].saved /\ calls[s].phase = "consume" /\ uses'[n] = uses[n] + 1
  BY <1>1, <1>3, <1>10 DEF AccountsType
<1>12. calls[s].phase \in {"drop", "consume"} /\ r.phase \in Later \cup {"idle"}
  BY <1>1, <1>5, <1>7
<1> QED BY <1>1, <1>2, <1>3, <1>7, <1>9, <1>11, <1>12, CodeGoes

LEMMA WrongEntryKeepsCodes ==
    ASSUME CodesInv, NEW s \in Slots, calls[s].phase = "tries",
           NEW sc \in Scenes, sc = calls[s].scene, sms[sc].tries < MaxAttempts,
           Go(s, "count"), wrong' = [wrong EXCEPT ![calls[s].saved] = @ + 1],
           UNCHANGED <<sms, sent, cards, uses, mixed, lost, torn>>
    PROVE  CodesInv'
<1>1. /\ AccountsType /\ CallKnown(s)
      /\ calls[s].phase \in CallPhases /\ "count" \in CallPhases
  BY DEF CodesInv, CallPhases
<1>2. PICK r \in CallRecord : Onward(s, r, "count")
  BY <1>1, GoesOnward
<1>3. Moved(s, r) /\ r.phase = "count" /\ r.scene = sc /\ r.saved = calls[s].saved
  BY <1>2 DEF Onward
<1>4. calls' \in [Slots -> CallRecord \cup {NoCall}] /\ calls'[s] = r
  BY <1>3, CallMoves
<1>5. calls[s].saved \in 1..sent /\ calls[s].saved \in 1..MaxSends
  <2>1. calls[s].saved \in 1..sent /\ sent \in 0..MaxSends
    BY <1>1 DEF CallKnown, AccountsType
  <2> QED BY <2>1, SlotsCount
<1>6. /\ wrong' \in [1..MaxSends -> Nat]
      /\ \A n \in 1..MaxSends :
           wrong'[n] = IF n = calls[s].saved THEN wrong[n] + 1 ELSE wrong[n]
  BY <1>1, <1>5 DEF AccountsType
<1>7. AccountsType'
  BY <1>1, <1>4, <1>6 DEF AccountsType
<1>8. CallKnown(s)'
  BY <1>1, <1>3, <1>4 DEF CallKnown
<1>9. CodesGo
  BY DEF CodesGo
<1>10. ASSUME NEW n \in 1..MaxSends PROVE CodeFits(n)'
  <2>1. /\ Enters(n) \in Nat /\ Serves(n) \in Nat /\ Enters(n)' \in Nat /\ Serves(n)' \in Nat
        /\ Enters(n)' = Enters(n) - One(calls[s].saved = n)
        /\ Serves(n)' = Serves(n) - One(calls[s].saved = n)
    BY <1>3, ServesMove, ServesNext DEF One
  <2>2. CodeFits(n) /\ wrong[n] \in Nat /\ uses[n] \in Nat /\ uses'[n] = uses[n]
    BY <1>1, CodesParts DEF CodesInv, CodeFits
  <2>3. Current(n)' <=> Current(n)
    BY DEF Current
  <2>4. UsesOK(n)'
    BY <2>1, <2>2, <2>3, SlotsCount DEF UsesOK, CodeFits, One
  <2>5. ASSUME NEW other \in Scenes, sms'[other].code = n
        PROVE  InCount(wrong'[n], Resets(other)', Counts(other)', sms'[other].tries, lost)
    <3>1. /\ Resets(other) \in Nat /\ Counts(other) \in Nat
          /\ Resets(other)' = Resets(other)
          /\ Counts(other)' = Counts(other) + One(other = sc)
          /\ Resets(other) <= Cardinality(Slots) - 1
          /\ Resets(other)' + Counts(other)' <= Cardinality(Slots)
      BY <1>3, CountsMove, CountsNext DEF One
    <3>2. InCount(wrong[n], Resets(other), Counts(other), sms[other].tries, lost)
      BY <2>2, <2>5 DEF CodeFits, WrongOK
    <3>3. sms[other].tries \in Nat /\ lost \in Nat
      BY <1>1, CodesParts
    <3>4. CASE n = calls[s].saved
      <4>1. other = sc
        BY <1>1, <2>5, <3>4 DEF CallKnown
      <4>2. Counts(other)' = Counts(other) + 1 /\ wrong'[n] = wrong[n] + 1
        BY <1>6, <3>1, <3>4, <4>1 DEF One
      <4>3. InCount(wrong[n] + 1, Resets(other), Counts(other) + 1, sms[other].tries, lost)
        <5>1. /\ sms[other].tries < MaxAttempts
              /\ Resets(other) + Counts(other) + 1 <= Cardinality(Slots)
          BY <3>1, <4>1, <4>2
        <5> QED BY <2>2, <3>1, <3>2, <3>3, <5>1, OneMoreEntry
      <4> QED BY <3>1, <4>2, <4>3
    <3>5. CASE n # calls[s].saved
      <4>1. wrong'[n] = wrong[n]
        BY <1>6, <3>5
      <4>2. CASE other # sc
        BY <3>1, <3>2, <4>1, <4>2 DEF One
      <4>3. CASE other = sc
        <5>1. Counts(other)' = Counts(other) + 1
          BY <3>1, <4>3 DEF One
        <5>2. wrong[n] > 0 => Uncounted(Resets(other)) \in Nat
          BY <3>1, UncountedIs
        <5> QED BY <2>2, <3>1, <3>2, <3>3, <4>1, <5>1, <5>2, SlotsCount DEF InCount
      <4> QED BY <4>2, <4>3
    <3> QED BY <3>4, <3>5
  <2>6. ASSUME ~Current(n)' PROVE InAll(wrong'[n], Enters(n)', lost)
    <3>1. InAll(wrong[n], Enters(n), lost)
      BY <2>2, <2>3, <2>6 DEF CodeFits, WrongOK
    <3>2. wrong'[n] + Enters(n)' = wrong[n] + Enters(n)
      BY <1>6, <2>1, <2>2 DEF One
    <3> QED BY <3>1, <3>2 DEF InAll
  <2>7. WrongOK(n)'
    BY <2>5, <2>6 DEF WrongOK
  <2>8. n > sent' => wrong'[n] = 0 /\ uses'[n] = 0
    <3>1. sent \in Nat
      BY <1>1, CodesParts
    <3> QED BY <1>5, <1>6, <2>2, <3>1 DEF CodeFits
  <2> QED BY <2>4, <2>7, <2>8 DEF CodeFits
<1> QED BY <1>3, <1>7, <1>8, <1>9, <1>10, CodesFit

LEMMA ReadTriesKeepsCodes ==
    ASSUME CodesInv, NEW s \in Calling, ReadTries(s), UNCHANGED <<lost, torn>>
    PROVE  CodesInv'
<1>1. /\ AccountsType /\ s \in Slots /\ CallKnown(s) /\ calls[s].phase = "tries"
      /\ calls[s].phase \in CallPhases /\ {"drop", "consume"} \subseteq CallPhases
  BY DEF CodesInv, Calling, ReadTries, CallPhases
<1>2. PICK sc \in Scenes : sc = calls[s].scene
  BY <1>1 DEF CallKnown
<1>3. UNCHANGED <<sms, sent, cards, uses, mixed>> /\ sms[sc].tries \in Nat
  BY <1>1, CodesParts DEF ReadTries
<1>4. ASSUME NEW phase \in {"drop", "consume"}, Go(s, phase), wrong' = wrong
      PROVE  CodesInv'
  <2>1. PICK r \in CallRecord : Onward(s, r, phase)
    BY <1>1, <1>4, GoesOnward
  <2>2. Moved(s, r) /\ r.phase = phase /\ r.scene = sc /\ r.saved = calls[s].saved
    BY <1>2, <2>1 DEF Onward
  <2>3. calls' \in [Slots -> CallRecord \cup {NoCall}] /\ calls'[s] = r
    BY <2>2, CallMoves
  <2>4. AccountsType'
    BY <1>1, <1>3, <1>4, <2>3 DEF AccountsType
  <2>5. CallKnown(s)'
    BY <1>1, <1>2, <1>3, <2>2, <2>3 DEF CallKnown
  <2> QED BY <1>1, <1>3, <1>4, <2>2, <2>4, <2>5, QuietMove
<1>5. CASE TooMany(sc) \/ calls[s].entry = calls[s].saved
  <2>1. wrong' = wrong /\ (Go(s, "drop") \/ Go(s, "consume"))
    BY <1>2, <1>5 DEF ReadTries
  <2> QED BY <1>4, <2>1
<1>6. CASE ~TooMany(sc) /\ calls[s].entry # calls[s].saved
  <2>1. /\ Go(s, "count")
        /\ wrong' = [wrong EXCEPT ![calls[s].saved] = @ + 1]
    BY <1>2, <1>6 DEF ReadTries
  <2>2. sms[sc].tries < MaxAttempts
    BY <1>3, <1>6, SlotsCount DEF TooMany
  <2> QED BY <1>1, <1>2, <1>3, <2>1, <2>2, WrongEntryKeepsCodes
<1> QED BY <1>5, <1>6

LEMMA DropCodeKeepsCodes ==
    ASSUME CodesInv, NEW s \in Calling, DropCode(s), UNCHANGED <<lost, torn>>
    PROVE  CodesInv'
<1>1. /\ AccountsType /\ s \in Slots /\ CallKnown(s) /\ calls[s].phase = "drop"
      /\ "drop" \in CallPhases /\ Moved(s, NoCall) /\ NoCall.phase = "idle"
  BY EndIs DEF CodesInv, Calling, DropCode, CallPhases, NoCall
<1>2. PICK sc \in Scenes : sc = calls[s].scene
  BY <1>1 DEF CallKnown
<1>3. sms' = [sms EXCEPT ![sc].code = 0] /\ UNCHANGED <<sent, cards, wrong, uses, mixed>>
  BY <1>2 DEF DropCode
<1>4. CallKnown(s)'
  <2>1. calls'[s] = NoCall
    BY <1>1, CallMoves
  <2> QED BY <1>1, <2>1 DEF CallKnown, CallPhases
<1>5. uses' \in [1..MaxSends -> Nat] /\ \A n \in 1..MaxSends : uses'[n] = uses[n]
  BY <1>1, <1>3 DEF AccountsType
<1>6. calls[s].phase \in {"drop", "consume"} /\ NoCall.phase \in Later \cup {"idle"}
  BY <1>1
<1> QED BY <1>1, <1>2, <1>3, <1>4, <1>5, <1>6, CodeGoes

\* What breaks off: its count never comes, or it leaves less to come.
LEMMA CountIsLost ==
    ASSUME NEW w \in Nat, NEW k \in Nat, NEW e \in Nat, NEW t \in Nat, NEW l \in Nat,
           InCount(w, k, e + 1, t, l)
    PROVE  InCount(w, k, e, t, l + 1)
<1>1. w > 0 => Uncounted(k) \in Nat
  BY UncountedIs DEF InCount
<1> QED BY <1>1, SlotsCount DEF InCount

LEMMA ResetIsLost ==
    ASSUME NEW w \in Nat, NEW k \in Nat, NEW e \in Nat, NEW t \in Nat, NEW l \in Nat,
           InCount(w, k + 1, e, t, l)
    PROVE  InCount(w, k, e, t, l)
<1>1. w > 0 => /\ Uncounted(k + 1) \in Nat
               /\ Uncounted(k) = Uncounted(k + 1) + MaxAttempts + Cardinality(Slots) - 2
  <2>1. k + 1 \in Nat /\ k + 1 >= 1 /\ (k + 1) - 1 = k
    OBVIOUS
  <2> QED BY <2>1, UncountedIs DEF InCount
<1> QED BY <1>1, SlotsCount DEF InCount

LEMMA MoreIsLost ==
    ASSUME NEW w \in Nat, NEW k \in Nat, NEW e \in Nat, NEW t \in Nat, NEW l \in Nat,
           InCount(w, k, e, t, l)
    PROVE  InCount(w, k, e, t, l + 1)
<1>1. w > 0 => Uncounted(k) \in Nat
  BY UncountedIs DEF InCount
<1> QED BY <1>1, SlotsCount DEF InCount

LEMMA BreakKeepsCodes ==
    ASSUME CodesInv, NEW s \in Calling, Break(s)
    PROVE  CodesInv'
<1>1. /\ AccountsType /\ s \in Slots /\ CallKnown(s) /\ calls[s].phase \in CallPhases
      /\ Moved(s, NoCall) /\ NoCall.phase = "idle"
      /\ lost \in Nat /\ torn \in Nat
  BY EndIs, CallParts DEF CodesInv, Calling, Break, NoCall, AccountsType
<1>2. /\ UNCHANGED <<sms, sent, cards, wrong, uses, mixed>>
      /\ lost' = lost + One(calls[s].phase = "count")
      /\ torn' \in Nat /\ lost' \in Nat
  BY <1>1 DEF Break, smsVars, One
<1>3. calls' \in [Slots -> CallRecord \cup {NoCall}] /\ calls'[s] = NoCall
  BY <1>1, CallMoves
<1>4. AccountsType'
  BY <1>1, <1>2, <1>3 DEF AccountsType
<1>5. CallKnown(s)'
  BY <1>1, <1>3 DEF CallKnown, CallPhases
<1>6. CodesGo
  BY <1>2 DEF CodesGo
<1>7. ASSUME NEW n \in 1..MaxSends PROVE CodeFits(n)'
  <2>1. /\ Enters(n) \in Nat /\ Serves(n) \in Nat /\ Enters(n)' \in Nat /\ Serves(n)' \in Nat
        /\ Enters(n)' <= Enters(n) /\ Serves(n)' <= Serves(n)
    BY <1>1, ServesMove, ServesNext DEF One
  <2>2. CodeFits(n) /\ wrong[n] \in Nat /\ wrong'[n] = wrong[n] /\ uses'[n] = uses[n]
        /\ uses[n] \in Nat
    BY <1>1, <1>2, CodesParts DEF CodesInv, CodeFits
  <2>3. Current(n)' <=> Current(n)
    BY <1>2 DEF Current
  <2>4. ASSUME NEW other \in Scenes, sms'[other].code = n
        PROVE  InCount(wrong[n], Resets(other)', Counts(other)', sms[other].tries, lost')
    <3>1. /\ Resets(other) \in Nat /\ Counts(other) \in Nat
          /\ Resets(other)' \in Nat /\ Counts(other)' \in Nat
          /\ Resets(other) = Resets(other)'
               + One(calls[s].phase \in {"wait", "zero"} /\ calls[s].scene = other)
          /\ Counts(other) = Counts(other)'
               + One(calls[s].phase = "count" /\ calls[s].scene = other)
      BY <1>1, CountsMove, CountsNext DEF One
    <3>2. InCount(wrong[n], Resets(other), Counts(other), sms[other].tries, lost)
      BY <1>2, <2>2, <2>4 DEF CodeFits, WrongOK
    <3>3. sms[other].tries \in Nat /\ lost \in Nat
      BY <1>1, CodesParts
    <3>4. CASE calls[s].phase = "count"
      <4>1. lost' = lost + 1 /\ Resets(other)' = Resets(other)
        BY <1>2, <3>1, <3>4 DEF One
      <4>2. CASE calls[s].scene = other
        <5>1. InCount(wrong[n], Resets(other), Counts(other)' + 1, sms[other].tries, lost)
          BY <3>1, <3>2, <3>4, <4>2 DEF One
        <5> QED BY <1>1, <2>2, <3>1, <3>3, <4>1, <5>1, CountIsLost
      <4>3. CASE calls[s].scene # other
        <5>1. Counts(other)' = Counts(other)
          BY <3>1, <4>3 DEF One
        <5> QED BY <1>1, <2>2, <3>1, <3>2, <3>3, <4>1, <5>1, MoreIsLost
      <4> QED BY <4>2, <4>3
    <3>5. CASE calls[s].phase # "count"
      <4>1. lost' = lost /\ Counts(other)' = Counts(other)
        BY <1>1, <1>2, <3>1, <3>5 DEF One
      <4>2. CASE calls[s].phase \in {"wait", "zero"} /\ calls[s].scene = other
        <5>1. InCount(wrong[n], Resets(other)' + 1, Counts(other), sms[other].tries, lost)
          BY <3>1, <3>2, <4>2 DEF One
        <5>2. InCount(wrong[n], Resets(other)', Counts(other), sms[other].tries, lost)
          BY <2>2, <3>1, <3>3, <5>1, ResetIsLost
        <5> QED BY <4>1, <5>2
      <4>3. CASE ~(calls[s].phase \in {"wait", "zero"} /\ calls[s].scene = other)
        <5>1. Resets(other)' = Resets(other)
          BY <3>1, <4>3 DEF One
        <5> QED BY <3>2, <4>1, <5>1
      <4> QED BY <4>2, <4>3
    <3> QED BY <3>4, <3>5
  <2>5. ASSUME ~Current(n)' PROVE InAll(wrong[n], Enters(n)', lost')
    <3>1. InAll(wrong[n], Enters(n), lost)
      BY <2>2, <2>3, <2>5 DEF CodeFits, WrongOK
    <3>2. lost' >= lost
      BY <1>1, <1>2 DEF One
    <3> QED BY <1>1, <1>2, <2>1, <2>2, <3>1, <3>2, SlotsCount DEF InAll
  <2>6. UsesOK(n)'
    BY <2>1, <2>2, <2>3, SlotsCount DEF UsesOK, CodeFits
  <2>7. WrongOK(n)'
    BY <1>2, <2>2, <2>4, <2>5 DEF WrongOK
  <2>8. n > sent' => wrong'[n] = 0 /\ uses'[n] = 0
    BY <1>2, <2>2 DEF CodeFits
  <2> QED BY <2>6, <2>7, <2>8 DEF CodeFits
<1> QED BY <1>1, <1>4, <1>5, <1>6, <1>7, CodesFit

LEMMA CountTryKeepsCodes ==
    ASSUME CodesInv, NEW s \in Calling, CountTry(s), UNCHANGED <<lost, torn>>
    PROVE  CodesInv'
<1>1. /\ AccountsType /\ s \in Slots /\ CallKnown(s) /\ calls[s].phase = "count"
      /\ calls[s].phase \in CallPhases /\ Moved(s, NoCall) /\ NoCall.phase = "idle"
  BY EndIs DEF CodesInv, Calling, CountTry, CallPhases, NoCall
<1>2. PICK sc \in Scenes : sc = calls[s].scene
  BY <1>1 DEF CallKnown
<1>3. PICK t \in Nat : t = sms[sc].tries + 1
  BY <1>1, CodesParts
<1>4. sms' = [sms EXCEPT ![sc].tries = t] /\ UNCHANGED <<sent, cards, wrong, uses, mixed>>
  BY <1>2, <1>3 DEF CountTry
<1>5. /\ sms' \in [Scenes -> SmsRow]
      /\ \A other \in Scenes :
           /\ sms'[other].code = sms[other].code
           /\ sms'[other].tries = IF other = sc THEN t ELSE sms[other].tries
  BY <1>1, <1>4, TriesAreSet
<1>6. calls' \in [Slots -> CallRecord \cup {NoCall}] /\ calls'[s] = NoCall
  BY <1>1, CallMoves
<1>7. AccountsType'
  BY <1>1, <1>4, <1>5, <1>6 DEF AccountsType
<1>8. CallKnown(s)'
  BY <1>1, <1>6 DEF CallKnown, CallPhases
<1>9. CodesGo
  BY <1>4, <1>5 DEF CodesGo
<1>10. ASSUME NEW n \in 1..MaxSends PROVE CodeFits(n)'
  <2>1. Enters(n)' = Enters(n) /\ Serves(n)' = Serves(n) /\ Enters(n) \in Nat /\ Serves(n) \in Nat
    BY <1>1, ServesMove DEF One
  <2>2. CodeFits(n) /\ wrong[n] \in Nat /\ wrong'[n] = wrong[n] /\ uses'[n] = uses[n]
    BY <1>1, <1>4, CodesParts DEF CodesInv, CodeFits
  <2>3. Current(n)' <=> Current(n)
    BY <1>5 DEF Current
  <2>4. ASSUME NEW other \in Scenes, sms'[other].code = n
        PROVE  InCount(wrong[n], Resets(other)', Counts(other)', sms'[other].tries, lost)
    <3>1. /\ Resets(other) \in Nat /\ Counts(other)' \in Nat
          /\ Resets(other)' = Resets(other)
          /\ Counts(other) = Counts(other)' + One(other = sc)
      BY <1>1, <1>2, CountsMove, CountsNext DEF One
    <3>2. InCount(wrong[n], Resets(other), Counts(other), sms[other].tries, lost)
      BY <1>5, <2>2, <2>4 DEF CodeFits, WrongOK
    <3>3. sms[other].tries \in Nat /\ lost \in Nat
      BY <1>1, CodesParts
    <3>4. CASE other = sc
      <4>1. InCount(wrong[n], Resets(other), Counts(other)' + 1, sms[other].tries, lost)
        BY <3>1, <3>2, <3>4 DEF One
      <4>2. InCount(wrong[n], Resets(other), Counts(other)', sms[other].tries + 1, lost)
        BY <2>2, <3>1, <3>3, <4>1, EntryIsCounted
      <4> QED BY <1>3, <1>5, <3>1, <3>4, <4>2
    <3>5. CASE other # sc
      BY <1>5, <3>1, <3>2, <3>5 DEF One
    <3> QED BY <3>4, <3>5
  <2> QED BY <1>4, <2>1, <2>2, <2>3, <2>4 DEF CodeFits, UsesOK, WrongOK
<1> QED BY <1>1, <1>7, <1>8, <1>9, <1>10, CodesFit

LEMMA StaysInPlace ==
    ASSUME AccountsType, calls' = calls
    PROVE  \E s \in Slots : Moved(s, calls[s]) /\ calls'[s] = calls[s]
<1>1. PICK s \in Slots : TRUE
  BY AccountsAssumption
<1>2. Moved(s, calls[s])
  BY DEF AccountsType, Moved
<1> QED BY <1>2

\* Nothing about codes changes.
LEMMA RestKeepsCodes ==
    ASSUME CodesInv, UNCHANGED <<sent, calls, wrong, uses, mixed, lost, torn>>,
           cards' \in [Cards -> CardRow],
           sms' \in [Scenes -> SmsRow],
           \A sc \in Scenes : sms'[sc].code = sms[sc].code /\ sms'[sc].tries = sms[sc].tries
    PROVE  CodesInv'
<1>1. AccountsType /\ AccountsType'
  BY DEF CodesInv, AccountsType
<1>2. PICK s \in Slots : Moved(s, calls[s]) /\ calls'[s] = calls[s]
  BY <1>1, StaysInPlace
<1>3. CallKnown(s)'
  BY <1>2 DEF CodesInv, CallKnown
<1> QED BY <1>1, <1>2, <1>3, QuietMove

LEMMA ExpireKeepsCodes ==
    ASSUME CodesInv, NEW sc \in Scenes, Expire(sc), UNCHANGED <<lost, torn>>
    PROVE  CodesInv'
<1>1. AccountsType /\ UNCHANGED <<sent, cards, calls, wrong, uses, mixed>>
  BY DEF CodesInv, Expire
<1>2. PICK none \in Nat : none = 0
  OBVIOUS
<1>3. PICK s \in Slots : Moved(s, calls[s]) /\ calls'[s] = calls[s]
  BY <1>1, StaysInPlace
<1>4. CASE sms' = [sms EXCEPT ![sc].wait = FALSE]
  <2>1. /\ sms' \in [Scenes -> SmsRow]
        /\ \A other \in Scenes : /\ sms'[other].code = sms[other].code
                                 /\ sms'[other].tries = sms[other].tries
    BY <1>1, <1>4, WaitIsSet
  <2>2. cards' \in [Cards -> CardRow]
    BY <1>1 DEF AccountsType
  <2> QED BY <1>1, <2>1, <2>2, RestKeepsCodes
<1>5. ASSUME sms' \in [Scenes -> SmsRow],
             \A other \in Scenes : sms'[other].code \in {sms[other].code, 0},
             \A n \in 1..MaxSends : CodeFits(n)'
      PROVE  CodesInv'
  <2>1. AccountsType'
    BY <1>1, <1>5 DEF AccountsType
  <2>2. CodesGo
    BY <1>1, <1>5 DEF CodesGo
  <2>3. CallKnown(s)
    BY DEF CodesInv
  <2>4. CallKnown(s)'
    BY <1>1, <1>3, <1>5, <2>3 DEF CallKnown
  <2> QED BY <1>3, <1>5, <2>1, <2>2, <2>4, CodesFit
<1>6. /\ \A n : /\ Enters(n)' = Enters(n) /\ Serves(n)' = Serves(n)
      /\ \A other : Resets(other)' = Resets(other) /\ Counts(other)' = Counts(other)
  BY <1>1 DEF Enters, Serves, Resets, Counts, Entering, Serving, Resetting, Counting
<1>7. \A n \in 1..MaxSends : /\ CodeFits(n) /\ wrong[n] \in Nat
                             /\ wrong'[n] = wrong[n] /\ uses'[n] = uses[n]
  BY <1>1, CodesParts DEF CodesInv, CodeFits
<1>8. CASE sms[sc].code = 0 /\ sms' = [sms EXCEPT ![sc].tries = 0]
  <2>0. sms' = [sms EXCEPT ![sc].tries = none]
    BY <1>2, <1>8
  <2>1. /\ sms' \in [Scenes -> SmsRow]
        /\ \A other \in Scenes :
             /\ sms'[other].code = sms[other].code
             /\ sms'[other].tries = IF other = sc THEN none ELSE sms[other].tries
    BY <1>1, <2>0, TriesAreSet
  <2>2. ASSUME NEW n \in 1..MaxSends PROVE CodeFits(n)'
    <3>1. Current(n)' <=> Current(n)
      BY <2>1 DEF Current
    <3>2. \A other \in Scenes : sms'[other].code = n =>
            sms[other].code = n /\ sms'[other].tries = sms[other].tries
      BY <1>8, <2>1
    <3> QED BY <1>1, <1>6, <1>7, <3>1, <3>2 DEF CodeFits, UsesOK, WrongOK
  <2> QED BY <1>5, <2>1, <2>2
<1>9. CASE sms' = [sms EXCEPT ![sc].code = 0] /\ \A q \in Calling : calls[q].scene # sc
  <2>0. sms' = [sms EXCEPT ![sc].code = none]
    BY <1>2, <1>9
  <2>1. /\ sms' \in [Scenes -> SmsRow]
        /\ \A other \in Scenes :
             /\ sms'[other].code = IF other = sc THEN none ELSE sms[other].code
             /\ sms'[other].tries = sms[other].tries
    BY <1>1, <2>0, CodeIsSet
  <2>2. ASSUME NEW n \in 1..MaxSends PROVE CodeFits(n)'
    <3>1. Current(n)' => Current(n)
      BY <1>2, <2>1 DEF Current
    <3>2. \A other \in Scenes : sms'[other].code = n =>
            sms[other].code = n /\ sms'[other].tries = sms[other].tries
      BY <1>2, <2>1
    <3>3. ASSUME ~Current(n)', Current(n) PROVE InAll(wrong[n], Enters(n), lost)
      <4>1. sms[sc].code = n
        BY <2>1, <3>3 DEF Current
      <4>2. InCount(wrong[n], Resets(sc), Counts(sc), sms[sc].tries, lost)
        BY <1>7, <4>1 DEF CodeFits, WrongOK
      <4>3. /\ sms[sc].tries \in Nat /\ Resets(sc) \in Nat /\ Counts(sc) \in Nat
            /\ lost \in Nat
        BY <1>1, <1>3, CodesParts, CountsMove
      <4>4. Entering(n) = {}
        <5> SUFFICES ASSUME NEW q \in Entering(n) PROVE FALSE
          OBVIOUS
        <5>1. q \in Slots /\ calls[q].phase = "tries" /\ calls[q].saved = n
          BY DEF Entering
        <5>2. CallKnown(q)
          BY <5>1 DEF CodesInv
        <5>3. calls[q].scene = sc
          BY <4>1, <5>1, <5>2 DEF CallKnown
        <5>4. q \in Calling
          BY <5>1 DEF Calling, NoCall
        <5> QED BY <1>9, <5>3, <5>4
      <4>5. Enters(n) \in Nat /\ Enters(n) <= Cardinality(Slots) - 1
        BY <4>4, FS_EmptySet, SlotsCount DEF Enters
      <4> QED BY <1>7, <4>2, <4>3, <4>5, CodeIsGone
    <3> QED BY <1>1, <1>6, <1>7, <3>1, <3>2, <3>3 DEF CodeFits, UsesOK, WrongOK
  <2> QED BY <1>2, <1>5, <2>1, <2>2
<1> QED BY <1>4, <1>8, <1>9 DEF Expire

LEMMA CodesStep ==
    ASSUME CodesInv, [Next]_vars
    PROVE  CodesInv'
<1>1. AccountsType /\ sms \in [Scenes -> SmsRow] /\ cards \in [Cards -> CardRow]
  BY DEF CodesInv, AccountsType
<1>2. CASE UNCHANGED accountVars
  BY <1>1, <1>2, RestKeepsCodes DEF accountVars
<1>3. ASSUME NEW s \in Slots, Asks(s), UNCHANGED breakVars PROVE CodesInv'
  BY <1>1, <1>3, AsksAre, StartsKeepCodes
<1>4. ASSUME NEW c \in Cards, CooldownEnds(c), UNCHANGED breakVars PROVE CodesInv'
  <2>1. UNCHANGED <<sms, sent, calls, wrong, uses, mixed, lost, torn>>
    BY <1>4 DEF CooldownEnds, smsVars, breakVars
  <2>2. cards' \in [Cards -> CardRow]
    BY <1>1, <1>4 DEF CooldownEnds, CardRow
  <2> QED BY <1>1, <2>1, <2>2, RestKeepsCodes
<1>5. ASSUME NEW s \in Calling, UNCHANGED breakVars,
             \/ SetCode(s) \/ SetCooldown(s) \/ ResetTries(s)
             \/ ReadTries(s) \/ DropCode(s) \/ CountTry(s)
      PROVE  CodesInv'
  <2>1. UNCHANGED <<lost, torn>>
    BY <1>5 DEF breakVars
  <2> QED BY <1>5, <2>1, SetCodeKeepsCodes, SetCooldownKeepsCodes, ResetTriesKeepsCodes,
             ReadTriesKeepsCodes, DropCodeKeepsCodes, CountTryKeepsCodes
<1>6. ASSUME NEW s \in Calling, UNCHANGED breakVars, Consume(s) \/ Follows(s)
      PROVE  CodesInv'
  BY <1>6, ConsumeKeepsCodes, FollowsKeepCodes DEF breakVars
<1>7. ASSUME NEW sc \in Scenes, Expire(sc), UNCHANGED breakVars PROVE CodesInv'
  BY <1>7, ExpireKeepsCodes DEF breakVars
<1> QED BY <1>2, <1>3, <1>4, <1>5, <1>6, <1>7, AccountSteps, BreakKeepsCodes

LEMMA AccountsStart ==
    ASSUME Init
    PROVE  AccountsType /\ \A s \in Slots : calls[s] = NoCall
<1>1. AccountsInit
  BY DEF Init
<1>2. Unbound \in CardRow /\ [Unbound EXCEPT !.status = "active", !.default = TRUE] \in CardRow
  BY DEF Unbound, CardRow
<1>3. cards \in [Cards -> CardRow]
  BY <1>1, <1>2 DEF AccountsInit, Seeded
<1>4. sms \in [Scenes -> SmsRow] /\ sent \in 0..MaxSends
  BY <1>1, SlotsCount DEF AccountsInit, SmsRow
<1> QED BY <1>1, <1>3, <1>4 DEF AccountsInit, AccountsType

LEMMA CodesStart == ASSUME Init PROVE CodesInv
<1>1. AccountsType /\ (\A s \in Slots : calls[s] = NoCall) /\ AccountsInit
  BY AccountsStart DEF Init
<1>2. CodesKnown
  BY <1>1 DEF AccountsInit, CodesKnown
<1>3. \A s \in Slots : CallKnown(s)
  BY <1>1 DEF CallKnown, NoCall, CallPhases
<1>4. ASSUME NEW n \in 1..MaxSends PROVE CodeFits(n)
  <2>1. wrong[n] = 0 /\ uses[n] = 0 /\ lost = 0
    BY <1>1 DEF AccountsInit
  <2>2. Enters(n) = 0 /\ Serves(n) = 0
    <3>1. Entering(n) = {} /\ Serving(n) = {}
      BY <1>1 DEF Entering, Serving, NoCall
    <3> QED BY <3>1, FS_EmptySet DEF Enters, Serves
  <2>3. UsesOK(n)
    BY <2>1, <2>2, SlotsCount DEF UsesOK
  <2>4. InAll(wrong[n], Enters(n), lost)
    <3>1. 0 \in Nat /\ 0 <= Cardinality(Slots) - 1
      BY SlotsCount
    <3> QED BY <2>1, <2>2, <3>1, UncountedIs, SlotsCount DEF InAll
  <2>5. WrongOK(n)
    BY <2>1, <2>4 DEF WrongOK, InCount
  <2> QED BY <2>1, <2>3, <2>5 DEF CodeFits
<1> QED BY <1>1, <1>2, <1>3, <1>4 DEF CodesInv, CodeFits

\* Whatever requests, codes and expiries overlap and wherever requests break off, for any
\* number of them: a code takes MaxAttempts wrong entries and one for each other request of
\* the moment, anew only for the codes asked for at the same time and one more for each
\* count that never came, and it lets through no more requests than run at
\* once (sendCode, verifyCode).
THEOREM CodesAreGuarded == Spec => []CodesHold
<1>1. Init => CodesInv
  BY CodesStart
<1>2. CodesInv /\ [Next]_vars => CodesInv'
  BY CodesStep
<1>3. CodesInv => CodesHold
  <2> SUFFICES ASSUME CodesInv, NEW n \in 1..MaxSends
               PROVE  /\ wrong[n] <= Cardinality(Slots) * (MaxAttempts + Cardinality(Slots) - 1) + lost
                      /\ uses[n] <= Cardinality(Slots)
    BY DEF CodesHold, WrongEntriesBounded, CodeServesOverlapOnly
  <2>1. /\ AccountsType /\ UsesOK(n) /\ WrongOK(n)
        /\ wrong[n] \in Nat /\ uses[n] \in Nat /\ lost \in Nat
    BY CodesParts DEF CodesInv
  <2>2. Enters(n) \in Nat /\ Serves(n) \in Nat
    BY CountsNow
  <2>3. uses[n] <= Cardinality(Slots)
    BY <2>1, <2>2, SlotsCount DEF UsesOK
  <2>4. InAll(wrong[n], 0, lost)
    <3>1. CASE ~Current(n)
      BY <2>1, <2>2, <3>1, AllBounds DEF WrongOK
    <3>2. CASE Current(n)
      <4>1. PICK sc \in Scenes : sms[sc].code = n
        BY <3>2 DEF Current
      <4>2. InCount(wrong[n], Resets(sc), Counts(sc), sms[sc].tries, lost)
        BY <2>1, <4>1 DEF WrongOK
      <4>3. /\ sms[sc].tries \in Nat /\ Resets(sc) \in Nat /\ Counts(sc) \in Nat
            /\ lost \in Nat
        BY <2>1, CodesParts, CountsNow
      <4>4. 0 \in Nat /\ 0 <= Cardinality(Slots) - 1
        BY SlotsCount
      <4> QED BY <2>1, <4>2, <4>3, <4>4, CodeIsGone
    <3> QED BY <3>1, <3>2
  <2> QED BY <2>1, <2>3, <2>4 DEF InAll
<1> QED BY <1>1, <1>2, <1>3, PTL DEF Spec
-----------------------------------------------------------------------------
(* Steps of the payment accounts *)

Pays(r) == r # NoCall /\ r.scene \in {"bind", "unbind", "default"}

LEMMA PaymentsMove ==
    ASSUME NEW s, NEW r, Moved(s, r)
    PROVE  /\ \A q \in Slots \ {s} : /\ q \in Clearing' <=> q \in Clearing
                                     /\ q \in Setting' <=> q \in Setting
                                     /\ q \in Paying' <=> q \in Paying
           /\ s \in Clearing' <=> Hasty(r)
           /\ s \in Setting' <=> r.phase = "set"
           /\ s \in Paying' <=> Pays(r)
           /\ s \in Paying <=> Pays(calls[s])
           /\ s \in Clearing <=> Hasty(calls[s])
           /\ s \in Setting <=> calls[s].phase = "set"
           /\ Clearing' \subseteq Slots /\ Setting' \subseteq Slots /\ Paying' \subseteq Slots
           /\ Clearing \subseteq Slots /\ Setting \subseteq Slots /\ Paying \subseteq Slots
<1>1. /\ s \in Slots /\ calls'[s] = r
      /\ \A q \in Slots \ {s} : calls'[q] = calls[q]
  BY CallMoves
<1> QED BY <1>1 DEF Clearing, Setting, Paying, Pays

LEMMA ChosenIsCard ==
    ASSUME CardsInv, NEW q \in Slots, calls[q].phase \in {"clear", "set"}
    PROVE  /\ calls[q].card \in Cards /\ Pays(calls[q]) /\ q \in Paying
           /\ cards[calls[q].card].status # None
           /\ ~mixed => cards[calls[q].card].status = "active"
<1>1. CardKnown(q) /\ calls[q] # NoCall
  BY DEF CardsInv, NoCall
<1> QED BY <1>1 DEF CardKnown, CallPhases, Pays, Paying

LEMMA DefaultsCount ==
    /\ IsFiniteSet(Defaults) /\ Cardinality(Defaults) \in Nat
    /\ IsFiniteSet(Defaults') /\ Cardinality(Defaults') \in Nat
<1>1. Defaults \in SUBSET Cards /\ Defaults' \in SUBSET Cards
  BY DEF Defaults
<1>2. \A S \in SUBSET Cards : IsFiniteSet(S) /\ Cardinality(S) \in Nat
  BY AccountsAssumption, FS_Subset, FS_CardinalityType
<1> QED BY <1>1, <1>2

LEMMA PaymentsCount ==
    ASSUME NEW s, NEW r, Moved(s, r)
    PROVE  /\ Cardinality(Setting) \in Nat /\ Cardinality(Setting') \in Nat
           /\ Cardinality(Clearing) \in Nat /\ Cardinality(Clearing') \in Nat
           /\ Cardinality(Setting') = Cardinality(Setting) + One(r.phase = "set")
                - One(calls[s].phase = "set")
           /\ Cardinality(Clearing') = Cardinality(Clearing) + One(Hasty(r))
                - One(Hasty(calls[s]))
           /\ Cardinality(Setting') <= Cardinality(Slots)
           /\ r.phase # "set" => Cardinality(Setting') <= Cardinality(Slots) - 1
<1>1. /\ s \in Slots
      /\ Setting \in SUBSET Slots /\ Setting' \in SUBSET Slots
      /\ Clearing \in SUBSET Slots /\ Clearing' \in SUBSET Slots
      /\ \A q \in Slots \ {s} : q \in Setting <=> q \in Setting'
      /\ \A q \in Slots \ {s} : q \in Clearing <=> q \in Clearing'
      /\ s \in Setting' <=> r.phase = "set"
      /\ s \in Setting <=> calls[s].phase = "set"
      /\ s \in Clearing' <=> Hasty(r)
      /\ s \in Clearing <=> Hasty(calls[s])
  BY PaymentsMove DEF Moved
<1>2. /\ Cardinality(Setting) \in Nat /\ Cardinality(Setting') \in Nat
      /\ Cardinality(Setting') = Cardinality(Setting)
           + One(s \in Setting') - One(s \in Setting)
  BY <1>1, OneSlot DEF One
<1>3. /\ Cardinality(Setting') <= Cardinality(Slots)
      /\ s \notin Setting' => Cardinality(Setting') <= Cardinality(Slots) - 1
  BY <1>1, OneSlot
<1>4. /\ Cardinality(Clearing) \in Nat /\ Cardinality(Clearing') \in Nat
      /\ Cardinality(Clearing') = Cardinality(Clearing)
           + One(s \in Clearing') - One(s \in Clearing)
  BY <1>1, OneSlot DEF One
<1> QED BY <1>1, <1>2, <1>3, <1>4 DEF One

LEMMA AllowedNow ==
    ASSUME AccountsType, AccountsType'
    PROVE  /\ Allowed \in Nat /\ Allowed' \in Nat
           /\ torn' = torn /\ (mixed => mixed') => Allowed <= Allowed'
           /\ 1 <= Allowed' /\ (mixed' => Cardinality(Slots) <= Allowed')
<1>1. /\ Cardinality(Slots) \in Nat /\ 1 <= Cardinality(Slots)
      /\ torn \in Nat /\ torn' \in Nat /\ mixed \in BOOLEAN /\ mixed' \in BOOLEAN
  BY SlotsCount DEF AccountsType
<1>2. /\ mixed => Allowed = torn + Cardinality(Slots)
      /\ ~mixed => Allowed = torn + 1
      /\ mixed' => Allowed' = torn' + Cardinality(Slots)
      /\ ~mixed' => Allowed' = torn' + 1
  BY DEF Allowed
<1> QED BY <1>1, <1>2

LEMMA CardsFit ==
    ASSUME CardsInv, NEW s, NEW r, Moved(s, r), AccountsType', CardKnown(s)',
           ~mixed' => ~mixed,
           ~mixed' => \A q \in Slots \ {s} : calls[q].phase \in {"clear", "set"} =>
                        cards'[calls[q].card].status = "active",
           \A c \in Cards : cards'[c].status = None => cards[c].status = None /\ ~cards'[c].default,
           FewDefaults', ~mixed' => BoundOneByOne'
    PROVE  CardsInv'
<1>1. ASSUME NEW q \in Slots, q # s PROVE CardKnown(q)'
  <2>1. calls'[q] = calls[q] /\ CardKnown(q)
    BY <1>1, CallMoves DEF CardsInv
  <2>2. calls[q].phase \in {"clear", "set"} => calls[q].card \in Cards
    BY ChosenIsCard
  <2> QED BY <1>1, <2>1, <2>2 DEF CardKnown
<1> QED BY <1>1 DEF CardsInv

\* A request goes on without a word to the accounts.
LEMMA CardsQuiet ==
    ASSUME CardsInv, NEW s, NEW r, Moved(s, r), AccountsType', CardKnown(s)',
           \A c \in Cards : /\ cards'[c].status = cards[c].status
                            /\ cards'[c].default = cards[c].default,
           UNCHANGED <<mixed, torn>>, Pays(r) => Pays(calls[s]),
           r.phase = "clear" <=> calls[s].phase = "clear",
           r.phase = "clear" => r.scene = calls[s].scene,
           r.phase = "set" <=> calls[s].phase = "set"
    PROVE  CardsInv'
<1>1. Clearing' = Clearing /\ Setting' = Setting /\ Paying' \subseteq Paying
  BY PaymentsMove DEF Hasty
<1>2. Defaults' = Defaults
  BY DEF Defaults
<1>3. FewDefaults'
  BY <1>1, <1>2 DEF CardsInv, FewDefaults, Allowed
<1>4. ~mixed' => BoundOneByOne'
  BY <1>1, <1>2 DEF CardsInv, BoundOneByOne, Defaults
<1>5. \A q \in Slots : calls[q].phase \in {"clear", "set"} /\ ~mixed =>
         cards'[calls[q].card].status = "active"
  BY ChosenIsCard
<1>6. \A c \in Cards : cards'[c].status = None => cards[c].status = None /\ ~cards'[c].default
  BY DEF CardsInv
<1> QED BY <1>3, <1>4, <1>5, <1>6, CardsFit

LEMMA StartsKeepCards ==
    ASSUME CardsInv, NEW s, NEW r, Starts(s, r), AccountsType'
    PROVE  CardsInv'
<1>1. /\ Moved(s, r) /\ calls[s] = NoCall /\ r \in CallRecord /\ cards' = cards /\ s \in Slots
      /\ AccountsType /\ torn' = torn
      /\ r # NoCall /\ mixed \in BOOLEAN
      /\ mixed' = (mixed \/ (r.scene \notin {"register", "reset"} /\ Calling # {}))
  BY DEF Starts, Moved, CardsInv, AccountsType, NoCall, CallRecord
<1>2. calls'[s] = r /\ calls[s].phase = "idle"
  BY <1>1, CallMoves DEF NoCall
<1>3. CardKnown(s)'
  <2>1. ASSUME r.phase = "code" PROVE CardKnown(s)'
    BY <1>2, <2>1 DEF CardKnown
  <2>2. ASSUME r.phase = "tries", r.scene \in Scenes,
               r.scene \in {"bind", "unbind"} => r.card \in Cards
        PROVE  CardKnown(s)'
    BY <1>2, <2>2 DEF CardKnown, Scenes
  <2>3. ASSUME r.phase = "clear", r.scene = "default", r.card \in Cards,
               cards[r.card].status = "active"
        PROVE  CardKnown(s)'
    BY <1>1, <1>2, <2>3 DEF CardKnown, None
  <2> QED BY <2>1, <2>2, <2>3 DEF Starts
<1>4. Defaults' = Defaults
  BY <1>1 DEF Defaults
<1>5. r.phase # "set" /\ (r.phase = "clear" => r.scene = "default")
  BY DEF Starts
<1>6. Setting' = Setting /\ Clearing' = Clearing
  BY <1>1, <1>2, <1>5, PaymentsMove DEF Hasty
<1>7. FewDefaults'
  <2>1. Allowed <= Allowed' /\ Allowed \in Nat /\ Allowed' \in Nat
    BY <1>1, AllowedNow
  <2>2. Cardinality(Setting) \in Nat /\ Cardinality(Clearing) \in Nat /\ Cardinality(Defaults) \in Nat
    BY <1>1, PaymentsCount, DefaultsCount
  <2> QED BY <1>4, <1>6, <2>1, <2>2 DEF CardsInv, FewDefaults
<1>8. ASSUME ~mixed' PROVE BoundOneByOne'
  <2>1. ~mixed /\ (r.scene \in {"register", "reset"} \/ Calling = {})
    BY <1>1, <1>8
  <2>2. BoundOneByOne
    BY <2>1 DEF CardsInv
  <2>3. CASE r.scene \in {"register", "reset"}
    <3>1. Paying' = Paying
      BY <1>1, <2>3, PaymentsMove DEF Pays
    <3> QED BY <1>1, <1>4, <2>2, <3>1 DEF BoundOneByOne
  <2>4. CASE Calling = {}
    <3>1. \A q \in Slots : calls[q] = NoCall
      BY <2>4 DEF Calling
    <3>2. Paying = {}
      BY <3>1 DEF Paying
    <3>3. \A q \in Paying' : q = s
      BY <1>1, <3>2, PaymentsMove
    <3> QED BY <1>1, <1>4, <2>2, <3>3 DEF BoundOneByOne
  <2> QED BY <2>1, <2>3, <2>4
<1>9. ~mixed' => \A q \in Slots \ {s} : calls[q].phase \in {"clear", "set"} =>
                   cards'[calls[q].card].status = "active"
  BY <1>1, ChosenIsCard
<1>10. \A c \in Cards : cards'[c].status = None => cards[c].status = None /\ ~cards'[c].default
  BY <1>1 DEF CardsInv
<1> QED BY <1>1, <1>3, <1>7, <1>8, <1>9, <1>10, CardsFit

\* A request that is about a code or a phone number moves on to phase, or ends.
PlainMove(s) ==
    /\ cards' = cards /\ mixed' = mixed /\ torn' = torn
    /\ calls[s] \in CallRecord /\ calls[s].phase \notin {"clear", "set"}
    /\ \/ End(s)
       \/ calls[s].phase \in {"code", "wait"} /\ Go(s, "wait")
       \/ calls[s].phase \in {"code", "wait"} /\ Go(s, "zero")
       \/ \E phase \in {"drop", "count", "consume", "look", "change", "insert", "duplicate"} :
            calls[s].phase \notin {"code", "wait", "zero"} /\ Go(s, phase)
            /\ (phase = "duplicate" => calls[s].scene = "bind")
       \/ /\ calls[s].phase = "consume" /\ calls[s].scene \in {"bind", "unbind"}
          /\ Go(s, "cooling") \/ Go(s, "unbind")

LEMMA PlainSteps ==
    ASSUME CodesInv, NEW s \in Calling, torn' = torn,
           \/ SetCode(s) \/ SetCooldown(s) \/ ResetTries(s)
           \/ ReadTries(s) \/ DropCode(s) \/ CountTry(s) \/ Consume(s)
    PROVE  PlainMove(s)
<1>1. /\ calls[s] \in CallRecord /\ CallKnown(s)
  BY CallParts DEF Calling, CodesInv
<1>2. ASSUME SetCode(s) \/ SetCooldown(s) \/ ResetTries(s) \/ DropCode(s) \/ CountTry(s)
      PROVE  PlainMove(s)
  BY <1>1, <1>2 DEF SetCode, SetCooldown, ResetTries, DropCode, CountTry, PlainMove
<1>3. ASSUME ReadTries(s) PROVE PlainMove(s)
  <2>1. /\ cards' = cards /\ mixed' = mixed /\ calls[s].phase = "tries"
        /\ Go(s, "drop") \/ Go(s, "consume") \/ Go(s, "count")
    BY <1>3 DEF ReadTries
  <2> QED BY <1>1, <2>1 DEF PlainMove
<1>4. ASSUME Consume(s) PROVE PlainMove(s)
  <2>1. calls[s].phase = "consume" /\ calls[s].scene \in Scenes /\ cards' = cards /\ mixed' = mixed
    BY <1>1, <1>4 DEF Consume, CallKnown, CallPhases
  <2>2. CASE calls[s].scene = "register"
    BY <1>1, <1>4, <2>1, <2>2 DEF Consume, PlainMove
  <2>3. CASE calls[s].scene = "reset"
    BY <1>1, <1>4, <2>1, <2>3 DEF Consume, PlainMove
  <2>4. CASE calls[s].scene = "bind"
    BY <1>1, <1>4, <2>1, <2>4 DEF Consume, PlainMove
  <2>5. CASE calls[s].scene = "unbind"
    BY <1>1, <1>4, <2>1, <2>5 DEF Consume, PlainMove
  <2> QED BY <2>1, <2>2, <2>3, <2>4, <2>5 DEF Scenes
<1> QED BY <1>2, <1>3, <1>4

LEMMA PlainKeepsCards ==
    ASSUME CardsInv, NEW s \in Slots, PlainMove(s), AccountsType'
    PROVE  CardsInv'
<1>1. /\ AccountsType /\ CardKnown(s) /\ calls[s] # NoCall /\ calls[s] \in CallRecord
      /\ calls[s].phase \in CallPhases
  BY DEF CardsInv, PlainMove, CallRecord, NoCall, CallPhases
<1>2. ASSUME NEW r, Moved(s, r), CardKnown(s)', r.phase \notin {"clear", "set"},
             Pays(r) => Pays(calls[s])
      PROVE  CardsInv'
  BY <1>2, CardsQuiet DEF PlainMove
<1>3. CASE End(s)
  <2>1. Moved(s, NoCall) /\ NoCall.phase = "idle"
    BY <1>1, <1>3, EndIs DEF NoCall
  <2>2. calls'[s] = NoCall
    BY <2>1, CallMoves
  <2> QED BY <1>2, <2>1, <2>2 DEF CardKnown, CallPhases, Pays
<1>4. ASSUME NEW phase \in CallPhases \ {"clear", "set"}, Go(s, phase),
             phase \in {"cooling", "duplicate", "unbind"} =>
               calls[s].scene \in {"bind", "unbind", "default"},
             calls[s].phase \in {"code", "wait", "zero"} => phase \in {"wait", "zero"}
      PROVE  CardsInv'
  <2>1. PICK r \in CallRecord : Onward(s, r, phase)
    BY <1>1, <1>4, GoesOnward
  <2>2. /\ Moved(s, r) /\ r.phase = phase /\ r.scene = calls[s].scene /\ r.card = calls[s].card
        /\ calls'[s] = r
    BY <2>1, CallMoves DEF Onward
  <2>3. CardKnown(s)'
    BY <1>1, <1>4, <2>2 DEF CardKnown
  <2> QED BY <1>1, <1>2, <1>4, <2>2, <2>3 DEF Pays
<1>5. {"wait", "zero", "drop", "count", "consume", "look", "change", "insert", "duplicate", "cooling",
       "unbind"} \subseteq CallPhases \ {"clear", "set"}
  BY DEF CallPhases
<1>6. CASE \/ calls[s].phase \in {"code", "wait"} /\ Go(s, "wait")
           \/ calls[s].phase \in {"code", "wait"} /\ Go(s, "zero")
  BY <1>4, <1>5, <1>6
<1>7. ASSUME NEW phase \in {"drop", "count", "consume", "look", "change", "insert",
                            "duplicate"},
             calls[s].phase \notin {"code", "wait", "zero"}, Go(s, phase),
             phase = "duplicate" => calls[s].scene = "bind"
      PROVE  CardsInv'
  BY <1>4, <1>5, <1>7
<1>8. CASE /\ calls[s].phase = "consume" /\ calls[s].scene \in {"bind", "unbind"}
           /\ Go(s, "cooling") \/ Go(s, "unbind")
  BY <1>4, <1>5, <1>8
<1> QED BY <1>3, <1>6, <1>7, <1>8 DEF PlainMove

LEMMA RestKeepsCards ==
    ASSUME CardsInv, AccountsType', UNCHANGED <<calls, mixed, torn>>,
           \A c \in Cards : /\ cards'[c].status = cards[c].status
                            /\ cards'[c].default = cards[c].default
    PROVE  CardsInv'
<1>1. PICK s \in Slots : Moved(s, calls[s]) /\ calls'[s] = calls[s]
  BY StaysInPlace DEF CardsInv
<1>2. CardKnown(s)'
  <2>1. CardKnown(s)
    BY DEF CardsInv
  <2>2. calls[s].phase \in {"clear", "set"} => calls[s].card \in Cards
    BY ChosenIsCard
  <2> QED BY <1>1, <2>1, <2>2 DEF CardKnown
<1> QED BY <1>1, <1>2, CardsQuiet

\* An account is bound, as the default or not.
LEMMA InsertCardKeepsCards ==
    ASSUME CardsInv, NEW s \in Calling, InsertCard(s), AccountsType', torn' = torn
    PROVE  CardsInv'
<1> DEFINE new == [Unbound EXCEPT !.status = "active", !.default = calls[s].default]
           c   == calls[s].card
<1>1. /\ s \in Slots /\ CardKnown(s) /\ AccountsType /\ calls[s] \in CallRecord
      /\ calls[s].phase = "insert" /\ calls[s].scene = "bind" /\ mixed' = mixed
  BY CallParts DEF Calling, CardsInv, InsertCard
<1>2. /\ c \in Cards /\ calls[s] # NoCall /\ Pays(calls[s]) /\ "insert" \in CallPhases
      /\ "clear" \in CallPhases
  BY <1>1 DEF CardKnown, CallPhases, NoCall, Pays
<1>3. CASE cards[c].status # None
  <2>1. PlainMove(s)
    BY <1>1, <1>3 DEF InsertCard, PlainMove
  <2> QED BY <1>1, <2>1, PlainKeepsCards
<1>4. CASE cards[c].status = None
  <2>1. cards' = [cards EXCEPT ![c] = new]
    BY <1>4 DEF InsertCard
  <2>2. new.status = "active" /\ new.default = calls[s].default
    BY DEF Unbound
  <2> HIDE DEF new
  <2>3. \A d \in Cards : cards'[d] = IF d = c THEN new ELSE cards[d]
    BY <1>1, <2>1 DEF AccountsType
  <2>4. \A d \in Cards : cards'[d].status = None => cards[d].status = None /\ ~cards'[d].default
    BY <2>2, <2>3 DEF CardsInv, None
  <2>5. \A q \in Slots \ {s} : calls[q].phase \in {"clear", "set"} /\ ~mixed => FALSE
    <3>1. s \in Paying
      BY <1>1, <1>2 DEF Paying, Pays
    <3> QED BY <3>1, ChosenIsCard DEF CardsInv, BoundOneByOne
  <2>6. ASSUME NEW r, Moved(s, r),
             \/ r.phase = "clear" /\ r.scene = "bind"
             \/ r.phase = "idle" /\ ~calls[s].default,
             CardKnown(s)', Pays(r) => Pays(calls[s])
        PROVE  CardsInv'
    <3>1. Setting' = Setting /\ Paying' \subseteq Paying
      BY <1>1, <2>6, PaymentsMove
    <3>2. /\ Cardinality(Clearing) \in Nat /\ Cardinality(Setting) \in Nat
          /\ Cardinality(Clearing') = Cardinality(Clearing) + One(Hasty(r))
      BY <1>1, <2>6, PaymentsCount DEF Hasty, One
    <3>3. /\ IsFiniteSet(Defaults) /\ Cardinality(Defaults) \in Nat
          /\ Cardinality(Defaults') \in Nat /\ Allowed \in Nat /\ Allowed' = Allowed
      BY <1>1, DefaultsCount, AllowedNow DEF Allowed
    <3>4. Cardinality(Defaults') <= Cardinality(Defaults) + One(Hasty(r))
      <4>1. CASE r.phase = "idle"
        <5>1. cards[c].default = FALSE
          BY <1>1, <1>2, <1>4 DEF CardsInv, AccountsType, CardRow
        <5>2. Defaults' = Defaults
          BY <2>2, <2>3, <2>6, <4>1, <5>1 DEF Defaults
        <5> QED BY <3>3, <4>1, <5>2 DEF Hasty, One
      <4>2. CASE r.phase = "clear"
        <5>1. Hasty(r)
          BY <1>1, <2>6, <4>2 DEF Hasty
        <5>2. Defaults' \subseteq Defaults \cup {c}
          BY <2>3 DEF Defaults
        <5>3. /\ IsFiniteSet(Defaults \cup {c})
              /\ Cardinality(Defaults \cup {c}) <= Cardinality(Defaults) + 1
          BY <3>3, FS_AddElement
        <5>4. /\ Cardinality(Defaults \cup {c}) \in Nat
              /\ Cardinality(Defaults') <= Cardinality(Defaults \cup {c})
          BY <5>2, <5>3, FS_Subset, FS_CardinalityType
        <5> QED BY <3>3, <5>1, <5>3, <5>4 DEF One
      <4> QED BY <2>6, <4>1, <4>2
    <3>5. FewDefaults'
      BY <3>1, <3>2, <3>3, <3>4 DEF CardsInv, FewDefaults, One
    <3>6. ASSUME ~mixed' PROVE BoundOneByOne'
      <4>1. BoundOneByOne
        BY <1>1, <3>6 DEF CardsInv
      <4>2. \A d \in Defaults' : cards'[d].status = "active"
        <5>1. \A d \in Defaults' : d = c \/ (d \in Defaults /\ cards'[d] = cards[d])
          BY <2>3 DEF Defaults
        <5> QED BY <1>2, <2>2, <2>3, <4>1, <5>1 DEF BoundOneByOne
      <4> QED BY <3>1, <4>1, <4>2 DEF BoundOneByOne
    <3>8. ~mixed' => \A q \in Slots \ {s} : calls[q].phase \in {"clear", "set"} =>
                       cards'[calls[q].card].status = "active"
      BY <1>1, <2>5
    <3>9. ~mixed' => ~mixed
      BY <1>1
    <3> QED BY <2>4, <2>6, <3>5, <3>6, <3>8, <3>9, CardsFit
  <2>7. CASE calls[s].default
    <3>1. Go(s, "clear")
      BY <1>4, <2>7 DEF InsertCard
    <3>2. PICK r \in CallRecord : Onward(s, r, "clear")
      BY <1>1, <1>2, <3>1, GoesOnward
    <3>3. /\ Moved(s, r) /\ r.phase = "clear" /\ r.scene = "bind" /\ r.card = c /\ calls'[s] = r
      BY <1>1, <3>2, CallMoves DEF Onward
    <3>4. cards'[c].status = "active"
      BY <1>2, <2>2, <2>3
    <3>5. CardKnown(s)'
      BY <1>2, <3>3, <3>4 DEF CardKnown, None
    <3>6. Pays(r) => Pays(calls[s])
      BY <1>2
    <3> QED BY <2>6, <3>3, <3>5, <3>6
  <2>8. CASE ~calls[s].default
    <3>1. End(s)
      BY <1>4, <2>8 DEF InsertCard
    <3>2. Moved(s, NoCall) /\ NoCall.phase = "idle"
      BY <1>1, <3>1, EndIs DEF NoCall
    <3>3. calls'[s] = NoCall
      BY <3>2, CallMoves
    <3>4. CardKnown(s)'
      BY <3>2, <3>3 DEF CardKnown, CallPhases
    <3> QED BY <2>6, <2>8, <3>2, <3>4 DEF Pays
  <2> QED BY <2>7, <2>8
<1> QED BY <1>3, <1>4

LEMMA ClearDefaultsKeepsCards ==
    ASSUME CardsInv, NEW s \in Calling, ClearDefaults(s), AccountsType', torn' = torn
    PROVE  CardsInv'
<1> DEFINE c == calls[s].card
<1>1. /\ s \in Slots /\ CardKnown(s) /\ AccountsType /\ calls[s] \in CallRecord
      /\ calls[s].phase = "clear" /\ mixed' = mixed
  BY CallParts DEF Calling, CardsInv, ClearDefaults
<1>2. /\ c \in Cards /\ calls[s] # NoCall /\ Pays(calls[s]) /\ s \in Paying
      /\ "clear" \in CallPhases /\ "set" \in CallPhases
      /\ ~mixed => cards[c].status = "active"
  BY <1>1, ChosenIsCard DEF CallPhases, Pays
<1>3. \A d \in Cards : /\ cards'[d].status = cards[d].status
                       /\ cards'[d].default = (cards[d].default /\ calls[s].scene = "bind" /\ d = c)
  <2>1. cards' = [d \in Cards |-> [cards[d] EXCEPT !.default = @ /\ calls[s].scene = "bind" /\ d = c]]
    BY DEF ClearDefaults, Cleared
  <2> QED BY <1>1, <2>1 DEF AccountsType, CardRow
<1>4. /\ \A d \in Cards : cards'[d].status = None => cards[d].status = None /\ ~cards'[d].default
      /\ ~mixed' => \A q \in Slots \ {s} : calls[q].phase \in {"clear", "set"} =>
                      cards'[calls[q].card].status = "active"
  BY <1>1, <1>3, ChosenIsCard DEF CardsInv
<1>5. ASSUME NEW r, Moved(s, r), CardKnown(s)', Pays(r) => Pays(calls[s]),
             \/ r.phase = "set" /\ Defaults' = {}
             \/ r.phase = "idle" /\ Defaults' \subseteq {c}
      PROVE  CardsInv'
  <2>1. Cardinality(Defaults') <= 1 /\ (r.phase = "set" => Cardinality(Defaults') = 0)
    <3>1. Cardinality({c}) = 1 /\ IsFiniteSet({c}) /\ Cardinality({}) = 0
      BY FS_Singleton, FS_EmptySet
    <3>2. Defaults' \in SUBSET {c}
      BY <1>5
    <3> QED BY <1>5, <3>1, <3>2, FS_Subset
  <2>2. Paying' \subseteq Paying
    BY <1>5, PaymentsMove
  <2>3. ASSUME ~mixed' PROVE BoundOneByOne' /\ Setting' \subseteq {s}
    <3>1. ~mixed /\ \A p, q \in Paying : p = q
      BY <1>1, <2>3 DEF CardsInv, BoundOneByOne
    <3>2. Setting \subseteq {s}
      <4>1. \A q \in Setting : q \in Slots /\ calls[q].phase = "set"
        BY DEF Setting
      <4> QED BY <1>2, <3>1, <4>1, ChosenIsCard
    <3>3. Setting' \subseteq {s}
      BY <1>5, <3>2, PaymentsMove
    <3>4. \A d \in Defaults' : cards'[d].status = "active"
      BY <1>2, <1>3, <1>5, <3>1
    <3> QED BY <2>2, <3>1, <3>3, <3>4 DEF BoundOneByOne
  <2>4. FewDefaults'
    <3>1. /\ Cardinality(Setting') \in Nat /\ Cardinality(Clearing') \in Nat
          /\ Cardinality(Setting') <= Cardinality(Slots)
          /\ r.phase # "set" => Cardinality(Setting') <= Cardinality(Slots) - 1
      BY <1>5, PaymentsCount
    <3>2. /\ Allowed' \in Nat /\ 1 <= Allowed'
          /\ mixed' => Cardinality(Slots) <= Allowed'
      BY <1>1, AllowedNow
    <3>3. ~mixed' => /\ Cardinality(Setting') <= 1
                     /\ r.phase # "set" => Cardinality(Setting') = 0
      <4>1. Cardinality({s}) = 1 /\ IsFiniteSet({s}) /\ Cardinality({}) = 0
        BY FS_Singleton, FS_EmptySet
      <4>2. Setting' \in SUBSET {s} => Cardinality(Setting') <= 1
        BY <4>1, FS_Subset
      <4>3. r.phase # "set" => s \notin Setting'
        BY <1>5, PaymentsMove
      <4> QED BY <2>3, <4>1, <4>2, <4>3
    <3>4. Cardinality(Defaults') \in Nat
      BY DefaultsCount
    <3>5. Cardinality(Defaults') + Cardinality(Setting') <= Allowed'
      BY <1>5, <2>1, <3>1, <3>2, <3>3, <3>4, SlotsCount
    <3> QED BY <3>1, <3>2, <3>4, <3>5 DEF FewDefaults
  <2>5. ~mixed' => ~mixed
    BY <1>1
  <2> QED BY <1>4, <1>5, <2>3, <2>4, <2>5, CardsFit
<1>6. CASE calls[s].scene = "bind"
  <2>1. End(s)
    BY <1>6 DEF ClearDefaults
  <2>2. Moved(s, NoCall) /\ NoCall.phase = "idle"
    BY <1>1, <2>1, EndIs DEF NoCall
  <2>3. calls'[s] = NoCall
    BY <2>2, CallMoves
  <2>4. CardKnown(s)'
    BY <2>2, <2>3 DEF CardKnown, CallPhases
  <2>5. Defaults' \subseteq {c}
    BY <1>3 DEF Defaults
  <2> QED BY <1>5, <2>2, <2>4, <2>5 DEF Pays
<1>7. CASE calls[s].scene # "bind"
  <2>1. Go(s, "set")
    BY <1>7 DEF ClearDefaults
  <2>2. PICK r \in CallRecord : Onward(s, r, "set")
    BY <1>1, <1>2, <2>1, GoesOnward
  <2>3. /\ Moved(s, r) /\ r.phase = "set" /\ r.scene = calls[s].scene /\ r.card = c
        /\ calls'[s] = r
    BY <2>2, CallMoves DEF Onward
  <2>4. calls[s].scene = "default"
    BY <1>1, <1>2, <1>7 DEF CardKnown
  <2>5. CardKnown(s)'
    BY <1>1, <1>2, <1>3, <2>3, <2>4 DEF CardKnown
  <2>6. Defaults' = {}
    BY <1>3, <1>7 DEF Defaults
  <2> QED BY <1>2, <1>5, <2>3, <2>5, <2>6 DEF Pays
<1> QED BY <1>6, <1>7

LEMMA AtMostOne ==
    ASSUME NEW S, IsFiniteSet(S), \A x, y \in S : x = y
    PROVE  Cardinality(S) <= 1
<1>1. CASE S = {}
  BY <1>1, FS_EmptySet
<1>2. CASE S # {}
  <2>1. PICK x : x \in S
    BY <1>2
  <2>2. S = {x}
    BY <2>1
  <2> QED BY <2>2, FS_Singleton
<1> QED BY <1>1, <1>2

LEMMA SetDefaultKeepsCards ==
    ASSUME CardsInv, NEW s \in Calling, SetDefault(s), AccountsType', torn' = torn
    PROVE  CardsInv'
<1> DEFINE c == calls[s].card
<1>1. /\ s \in Slots /\ CardKnown(s) /\ AccountsType /\ calls[s] \in CallRecord
      /\ calls[s].phase = "set" /\ mixed' = mixed /\ End(s)
      /\ cards' = [cards EXCEPT ![c].default = TRUE]
  BY CallParts DEF Calling, CardsInv, SetDefault
<1>2. /\ c \in Cards /\ s \in Paying /\ cards[c].status # None
      /\ ~mixed => cards[c].status = "active"
  BY <1>1, ChosenIsCard
<1>3. Moved(s, NoCall) /\ NoCall.phase = "idle"
  BY <1>1, EndIs DEF NoCall
<1>4. calls'[s] = NoCall
  BY <1>3, CallMoves
<1>5. CardKnown(s)'
  BY <1>3, <1>4 DEF CardKnown, CallPhases
<1>6. \A d \in Cards : /\ cards'[d].status = cards[d].status
                       /\ cards'[d].default = (d = c \/ cards[d].default)
  BY <1>1, <1>2 DEF AccountsType, CardRow
<1>7. Defaults' = Defaults \cup {c}
  BY <1>2, <1>6 DEF Defaults
<1>8. FewDefaults'
  <2>1. /\ Cardinality(Clearing) \in Nat /\ Cardinality(Clearing') = Cardinality(Clearing)
        /\ Cardinality(Setting) \in Nat /\ Cardinality(Setting') = Cardinality(Setting) - 1
    BY <1>1, <1>3, PaymentsCount DEF One, Hasty
  <2>2. Cardinality(Defaults') <= Cardinality(Defaults) + 1
    BY <1>7, DefaultsCount, FS_AddElement
  <2>3. /\ Cardinality(Defaults) \in Nat /\ Cardinality(Defaults') \in Nat
        /\ Allowed \in Nat /\ Allowed' = Allowed
    BY <1>1, DefaultsCount, AllowedNow DEF Allowed
  <2> QED BY <2>1, <2>2, <2>3 DEF CardsInv, FewDefaults
<1>9. ASSUME ~mixed' PROVE BoundOneByOne'
  <2>1. BoundOneByOne /\ cards[c].status = "active"
    BY <1>1, <1>2, <1>9 DEF CardsInv
  <2>2. Paying' \subseteq Paying
    BY <1>3, PaymentsMove DEF Pays
  <2>3. \A d \in Defaults' : cards'[d].status = "active"
    BY <1>2, <1>6, <1>7, <2>1 DEF BoundOneByOne, Defaults
  <2> QED BY <2>1, <2>2, <2>3 DEF BoundOneByOne
<1>10. /\ \A d \in Cards : cards'[d].status = None => cards[d].status = None /\ ~cards'[d].default
       /\ ~mixed' => \A q \in Slots \ {s} : calls[q].phase \in {"clear", "set"} =>
                       cards'[calls[q].card].status = "active"
  <2>1. ASSUME NEW d \in Cards, cards'[d].status = None
        PROVE  cards[d].status = None /\ ~cards'[d].default
    BY <1>1, <1>2, <1>6, <2>1 DEF CardsInv
  <2> QED BY <1>1, <1>6, <2>1, ChosenIsCard
<1>11. ~mixed' => ~mixed
  BY <1>1
<1> QED BY <1>3, <1>5, <1>8, <1>9, <1>10, <1>11, CardsFit

\* Nothing is promised of an account that is unbound while it is chosen.
LEMMA UnbindKeepsCards ==
    ASSUME CardsInv, NEW s \in Calling, Unbind(s), AccountsType', torn' = torn
    PROVE  CardsInv'
<1> DEFINE c    == calls[s].card
           gone == [status |-> "unbound", default |-> FALSE, cooling |-> TRUE]
<1>1. /\ s \in Slots /\ CardKnown(s) /\ AccountsType /\ calls[s] \in CallRecord
      /\ calls[s].phase = "unbind" /\ mixed' = mixed /\ End(s)
      /\ cards' = [cards EXCEPT ![c] = gone]
  BY CallParts DEF Calling, CardsInv, Unbind
<1>2. c \in Cards /\ s \in Paying
  BY <1>1 DEF CardKnown, CallPhases, Paying, NoCall
<1>3. Moved(s, NoCall) /\ NoCall.phase = "idle"
  BY <1>1, EndIs DEF NoCall
<1>4. calls'[s] = NoCall
  BY <1>3, CallMoves
<1>5. CardKnown(s)'
  BY <1>3, <1>4 DEF CardKnown, CallPhases
<1>6. /\ \A d \in Cards : cards'[d] = IF d = c THEN gone ELSE cards[d]
      /\ gone.status = "unbound" /\ gone.default = FALSE
  BY <1>1 DEF AccountsType
<1> HIDE DEF gone
<1>7. Defaults' \subseteq Defaults
  BY <1>6 DEF Defaults
<1>8. Paying' \subseteq Paying
  BY <1>3, PaymentsMove DEF Pays
<1>9. FewDefaults'
  <2>1. Cardinality(Defaults') <= Cardinality(Defaults)
    BY <1>7, DefaultsCount, FS_Subset
  <2>2. /\ Cardinality(Clearing) \in Nat /\ Cardinality(Clearing') = Cardinality(Clearing)
        /\ Cardinality(Setting) \in Nat /\ Cardinality(Setting') = Cardinality(Setting)
    BY <1>1, <1>3, PaymentsCount DEF One, Hasty
  <2>3. /\ Cardinality(Defaults) \in Nat /\ Cardinality(Defaults') \in Nat
        /\ Allowed \in Nat /\ Allowed' = Allowed
    BY <1>1, DefaultsCount, AllowedNow DEF Allowed
  <2> QED BY <2>1, <2>2, <2>3 DEF CardsInv, FewDefaults
<1>10. ASSUME ~mixed' PROVE BoundOneByOne'
  <2>1. BoundOneByOne
    BY <1>1, <1>10 DEF CardsInv
  <2>2. \A d \in Defaults' : d \in Defaults /\ cards'[d].status = cards[d].status
    BY <1>6, <1>7 DEF Defaults
  <2> QED BY <1>8, <2>1, <2>2 DEF BoundOneByOne
<1>11. ASSUME ~mixed', NEW q \in Slots \ {s}, calls[q].phase \in {"clear", "set"} PROVE FALSE
  BY <1>1, <1>2, <1>11, ChosenIsCard DEF CardsInv, BoundOneByOne
<1>12. \A d \in Cards : cards'[d].status = None => cards[d].status = None /\ ~cards'[d].default
  BY <1>6 DEF CardsInv, None
<1>13. ~mixed' => ~mixed
  BY <1>1
<1> QED BY <1>3, <1>5, <1>9, <1>10, <1>11, <1>12, <1>13, CardsFit

LEMMA FollowsKeepCards ==
    ASSUME CardsInv, NEW s \in Calling, Follows(s), AccountsType', torn' = torn
    PROVE  CardsInv'
<1>1. s \in Slots /\ AccountsType /\ CardKnown(s) /\ calls[s] \in CallRecord
  BY CallParts DEF Calling, CardsInv
<1>2. ASSUME \/ LookForPhone(s) \/ InsertUser(s) \/ ChangePassword(s) \/ OtherPhone(s)
             \/ CheckCooldown(s) \/ Refuse(s)
      PROVE  CardsInv'
  <2>1. PlainMove(s)
    BY <1>1, <1>2 DEF LookForPhone, InsertUser, ChangePassword, OtherPhone, CheckCooldown,
       Refuse, PlainMove
  <2> QED BY <1>1, <2>1, PlainKeepsCards
<1> QED BY <1>2, InsertCardKeepsCards, ClearDefaultsKeepsCards, SetDefaultKeepsCards,
           UnbindKeepsCards DEF Follows

\* A request breaks off; what it allowed for stays allowed.
LEMMA BreakKeepsCards ==
    ASSUME CardsInv, NEW s \in Calling, Break(s), AccountsType'
    PROVE  CardsInv'
<1>1. /\ s \in Slots /\ AccountsType /\ cards' = cards /\ mixed' = mixed
      /\ torn \in Nat /\ torn' = torn + One(Hasty(calls[s]))
  BY DEF Calling, CardsInv, Break, AccountsType, Hasty, One
<1>2. Moved(s, NoCall) /\ NoCall.phase = "idle"
  BY <1>1, EndIs DEF Break, NoCall
<1>3. calls'[s] = NoCall
  BY <1>2, CallMoves
<1>4. CardKnown(s)'
  BY <1>2, <1>3 DEF CardKnown, CallPhases
<1>5. Defaults' = Defaults
  BY <1>1 DEF Defaults
<1>6. FewDefaults'
  <2>1. /\ Cardinality(Clearing) \in Nat /\ Cardinality(Setting) \in Nat
        /\ Cardinality(Setting') \in Nat
        /\ Cardinality(Clearing') = Cardinality(Clearing) - One(Hasty(calls[s]))
        /\ Cardinality(Setting') <= Cardinality(Setting)
    BY <1>2, PaymentsCount DEF One, Hasty
  <2>2. Allowed \in Nat /\ Allowed' = Allowed + One(Hasty(calls[s]))
    BY <1>1, AllowedNow, SlotsCount DEF Allowed, One
  <2>3. Cardinality(Defaults) \in Nat
    BY DefaultsCount
  <2> QED BY <1>5, <2>1, <2>2, <2>3 DEF CardsInv, FewDefaults, One
<1>7. ASSUME ~mixed' PROVE BoundOneByOne'
  <2>1. Paying' \subseteq Paying
    BY <1>2, PaymentsMove DEF Pays
  <2>2. BoundOneByOne
    BY <1>1, <1>7 DEF CardsInv
  <2> QED BY <1>1, <1>5, <2>1, <2>2 DEF BoundOneByOne
<1>8. /\ ~mixed' => ~mixed
      /\ ~mixed' => \A q \in Slots \ {s} : calls[q].phase \in {"clear", "set"} =>
                      cards'[calls[q].card].status = "active"
      /\ \A c \in Cards : cards'[c].status = None => cards[c].status = None /\ ~cards'[c].default
  BY <1>1, ChosenIsCard DEF CardsInv
<1> QED BY <1>2, <1>4, <1>6, <1>7, <1>8, CardsFit

LEMMA CardsStep ==
    ASSUME CodesInv, CardsInv, [Next]_vars
    PROVE  CardsInv'
<1>1. AccountsType'
  BY CodesStep DEF CodesInv
<1>2. CASE UNCHANGED accountVars
  BY <1>1, <1>2, RestKeepsCards DEF accountVars
<1>3. ASSUME NEW s \in Slots, Asks(s), UNCHANGED breakVars PROVE CardsInv'
  BY <1>1, <1>3, AsksAre, StartsKeepCards DEF CodesInv
<1>4. ASSUME NEW sc \in Scenes, Expire(sc), UNCHANGED breakVars PROVE CardsInv'
  BY <1>1, <1>4, RestKeepsCards DEF Expire, breakVars
<1>5. ASSUME NEW c \in Cards, CooldownEnds(c), UNCHANGED breakVars PROVE CardsInv'
  <2>1. /\ UNCHANGED <<calls, mixed, torn>>
        /\ \A d \in Cards : /\ cards'[d].status = cards[d].status
                            /\ cards'[d].default = cards[d].default
    BY <1>5 DEF CooldownEnds, CardsInv, AccountsType, CardRow, breakVars
  <2> QED BY <1>1, <2>1, RestKeepsCards
<1>6. ASSUME NEW s \in Calling, UNCHANGED breakVars,
             \/ SetCode(s) \/ SetCooldown(s) \/ ResetTries(s)
             \/ ReadTries(s) \/ DropCode(s) \/ CountTry(s) \/ Consume(s)
      PROVE  CardsInv'
  <2>1. PlainMove(s) /\ s \in Slots
    BY <1>6, PlainSteps DEF Calling, breakVars
  <2> QED BY <1>1, <2>1, PlainKeepsCards
<1>7. ASSUME NEW s \in Calling, UNCHANGED breakVars, Follows(s) PROVE CardsInv'
  BY <1>1, <1>7, FollowsKeepCards DEF breakVars
<1>8. ASSUME NEW s \in Calling, Break(s) PROVE CardsInv'
  BY <1>1, <1>8, BreakKeepsCards
<1> QED BY <1>2, <1>3, <1>4, <1>5, <1>6, <1>7, <1>8, AccountSteps

\* Whatever requests about payment accounts overlap and wherever they break off, for any
\* number of them: when all are done a user whose requests never overlapped has one default
\* account, which is bound, else no more than requests run at once; and one more, never
\* more, for every binding that broke off between its two statements (bindPaymentAccount,
\* setDefault, unbindPaymentAccount).
THEOREM DefaultsAreFew == Spec => []DefaultsBounded
<1>1. Init => CodesInv /\ CardsInv
  <2> SUFFICES ASSUME Init PROVE CodesInv /\ CardsInv
    OBVIOUS
  <2>1. AccountsType /\ (\A s \in Slots : calls[s] = NoCall) /\ AccountsInit
    BY AccountsStart DEF Init
  <2>2. Clearing = {} /\ Setting = {} /\ Paying = {}
    BY <2>1 DEF Clearing, Setting, Paying, NoCall, Hasty
  <2>3. \A s \in Slots : CardKnown(s)
    BY <2>1 DEF CardKnown, NoCall, CallPhases
  <2>4. /\ \A c \in Cards : cards[c].default => cards[c].status = "active"
        /\ \A c, d \in Defaults : c = d
    <3>1. Unbound.default = FALSE
      BY DEF Unbound
    <3>2. CASE cards = [c \in Cards |-> Unbound]
      BY <3>1, <3>2 DEF Defaults
    <3>3. ASSUME NEW bound \in Cards, cards = Seeded(bound)
          PROVE  /\ \A c \in Cards : cards[c].default => cards[c].status = "active"
                 /\ \A c, d \in Defaults : c = d
      <4>1. /\ \A c \in Cards : cards[c].default => c = bound
            /\ cards[bound].status = "active"
        BY <3>1, <3>3 DEF Seeded, Unbound
      <4> QED BY <4>1 DEF Defaults
    <3> QED BY <2>1, <3>2, <3>3 DEF AccountsInit
  <2>5. FewDefaults
    <3>1. Cardinality(Defaults) <= 1
      BY <2>4, AtMostOne, DefaultsCount
    <3>2. Cardinality(Setting) = 0 /\ Cardinality(Clearing) = 0
      BY <2>2, FS_EmptySet
    <3>3. Allowed = 1
      BY <2>1 DEF AccountsInit, Allowed
    <3> QED BY <3>1, <3>2, <3>3, DefaultsCount DEF FewDefaults
  <2>6. \A c \in Cards : cards[c].status = None => ~cards[c].default
    BY <2>4 DEF None
  <2>7. \A c \in Defaults : cards[c].status = "active"
    BY <2>4 DEF Defaults
  <2> QED BY <2>1, <2>2, <2>3, <2>4, <2>5, <2>6, <2>7, CodesStart
         DEF CardsInv, BoundOneByOne
<1>2. CodesInv /\ CardsInv /\ [Next]_vars => CodesInv' /\ CardsInv'
  BY CodesStep, CardsStep
<1>3. CardsInv => DefaultsBounded
  <2> SUFFICES ASSUME CardsInv, Calling = {}
               PROVE  /\ Cardinality(Defaults) <= Allowed
                      /\ ~mixed => \A c \in Defaults : cards[c].status = "active"
    BY DEF DefaultsBounded, Allowed
  <2>1. Clearing = {} /\ Setting = {}
    BY DEF Calling, Clearing, Setting, Hasty, NoCall
  <2>2. Cardinality(Setting) = 0 /\ Cardinality(Clearing) = 0
    BY <2>1, FS_EmptySet
  <2>3. Allowed \in Nat
    BY SlotsCount DEF CardsInv, AccountsType, Allowed
  <2>4. Cardinality(Defaults) <= Allowed
    BY <2>2, <2>3, DefaultsCount DEF CardsInv, FewDefaults
  <2> QED BY <2>4 DEF CardsInv, BoundOneByOne
<1> QED BY <1>1, <1>2, <1>3, PTL DEF Spec
=============================================================================

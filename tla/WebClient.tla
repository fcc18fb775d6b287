------------------------------ MODULE WebClient ------------------------------
(***************************************************************************)
(* Who the web client shows: the tabs of one browser, which share the      *)
(* tokens in localStorage and each keep a store of the user and the        *)
(* wallet, and the calls to the server whose answers fill it.  A call      *)
(* carries the token of the moment it is made; any two calls may be under  *)
(* way together, and each may be answered, refused (40101 to 40103) or     *)
(* fail.  The build that talks to the server, not the demo.                *)
(***************************************************************************)
EXTENDS FiniteSets

CONSTANTS
    Tabs,
    People,
    Lines   \* bound: the calls under way at once

Nobody == "nobody"

ASSUME WebAssumption == Nobody \notin People

VARIABLES
    token,   \* whose tokens are in localStorage
    shown,   \* the store of a tab: user, wallet (of whom), loaded
    inside,  \* tabs on a page that needs a login
    line,    \* calls under way
    crossed  \* history: tokens changed under a call or another tab, or a login
             \* over another one was left half done

webVars == <<token, shown, inside, line, crossed>>

Hung  == [for |-> "nothing"]
Blank == [user |-> Nobody, wallet |-> Nobody, loaded |-> FALSE]

Busy(t) == \E l \in Lines : line[l] # Hung /\ line[l].tab = t

WebInit ==
    /\ token = Nobody /\ inside = {} /\ crossed = FALSE
    /\ shown = [t \in Tabs |-> Blank]
    /\ line = [l \in Lines |-> Hung]

Dial(l, t, for, as) == line' = [line EXCEPT ![l] = [for |-> for, tab |-> t, as |-> as]]
HangUp(l)           == line' = [line EXCEPT ![l] = Hung]

\* The tokens become those of p, in tab t, while line l answers.
Holder(p, t, l) ==
    /\ token' = p
    /\ crossed' = (crossed \/ /\ p # token
                              /\ \/ \E s \in Tabs \ {t} : shown[s] # Blank
                                 \/ \E k \in Lines \ {l} :
                                      line[k].for \in {"enter", "arrive", "refresh", "wallet"})

GoTo(t, in) == inside' = IF in THEN inside \cup {t} ELSE inside \ {t}

\* A navigation that another one has replaced leads nowhere.
Replaced == UNCHANGED inside

\* Mutant: the wallet stays.
ForgetUser(t) == shown' = [shown EXCEPT ![t].user = Nobody, ![t].loaded = FALSE]

\* reset: what the store forgets with the tokens.
Forget(t) == shown' = [shown EXCEPT ![t] = Blank]

-----------------------------------------------------------------------------
\* The guard of the router, on the way to a page that needs a login: a stored
\* token will do for a store that is loaded, else load() asks who it is.
Navigate(t) ==
    \/ /\ token = Nobody \/ shown[t].loaded
       /\ GoTo(t, token # Nobody)
       /\ UNCHANGED <<token, shown, line, crossed>>
    \/ /\ token # Nobody /\ ~shown[t].loaded
       /\ \E l \in Lines : line[l] = Hung /\ Dial(l, t, "enter", token)
       /\ UNCHANGED <<token, shown, inside, crossed>>

\* To a public page.
Leave(t) ==
    /\ t \in inside /\ GoTo(t, FALSE)
    /\ UNCHANGED <<token, shown, line, crossed>>

\* The page is loaded anew: the stores and the calls of the tab are gone.
Reload(t) ==
    /\ Forget(t) /\ GoTo(t, FALSE)
    /\ line' = [l \in Lines |-> IF line[l] # Hung /\ line[l].tab = t THEN Hung ELSE line[l]]
    /\ UNCHANGED <<token, crossed>>

\* The pages a user logs in from are public.
SignIn(t, p, how) ==
    /\ t \notin inside
    /\ \E l \in Lines : line[l] = Hung /\ Dial(l, t, how, p)
    /\ UNCHANGED <<token, shown, inside, crossed>>

LogIn(t, p)       == SignIn(t, p, "password")
Register(t, p)    == SignIn(t, p, "password")
WechatLogin(t, p) == SignIn(t, p, "wechat")

\* load(true): a tab that finds no token forgets whom it showed.
LoadAgain(t) ==
    /\ t \in inside
    /\ IF token = Nobody
       THEN Forget(t) /\ UNCHANGED line
       ELSE /\ \E l \in Lines : line[l] = Hung /\ Dial(l, t, "refresh", token)
            /\ UNCHANGED shown
    /\ UNCHANGED <<token, inside, crossed>>

SaveProfile(t) == LoadAgain(t)
SubmitForm(t)  == LoadAgain(t)

\* refreshWallet: asks for the wallet alone.
RefreshWallet(t) ==
    /\ t \in inside /\ token # Nobody
    /\ \E l \in Lines : line[l] = Hung /\ Dial(l, t, "wallet", token)
    /\ UNCHANGED <<token, shown, inside, crossed>>

MoveMoney(t)  == RefreshWallet(t)
ActOnOrder(t) == RefreshWallet(t)

\* The token it carries does not matter here.
SignOut(t) ==
    /\ t \in inside
    /\ \E l \in Lines : line[l] = Hung /\ Dial(l, t, "logout", Nobody)
    /\ UNCHANGED <<token, shown, inside, crossed>>

-----------------------------------------------------------------------------
\* login, register: tokens, the user at once, then load(true) on the same line.
\* With WeChat the user of the store waits for load.
SignedIn(l) ==
    LET c == line[l]
    IN  /\ c.for \in {"password", "wechat"}
        /\ Holder(c.as, c.tab, l)
        /\ IF c.for = "password"
           THEN shown' = [shown EXCEPT ![c.tab].user = c.as]
           ELSE UNCHANGED shown
        /\ Dial(l, c.tab, "arrive", c.as)
        /\ UNCHANGED inside

\* me has answered: all of the store is of the token's owner.  A login goes on to
\* the first page, whose guard looks for a token.
Loaded(l) ==
    LET c == line[l]
    IN  /\ c.for \in {"enter", "arrive", "refresh"}
        /\ shown' = [shown EXCEPT ![c.tab] = [user |-> c.as, wallet |-> c.as, loaded |-> TRUE]]
        /\ CASE c.for = "enter"   -> (Replaced \/ GoTo(c.tab, TRUE))
             [] c.for = "arrive"  -> GoTo(c.tab, token # Nobody)
             [] c.for = "refresh" -> UNCHANGED inside
        /\ HangUp(l)
        /\ UNCHANGED <<token, crossed>>

\* me was refused: reset, whatever token is stored by now.
Refused(l) ==
    LET c == line[l]
    IN  /\ c.for \in {"enter", "arrive", "refresh"}
        /\ Forget(c.tab) /\ Holder(Nobody, c.tab, l)
        /\ Replaced \/ (c.for = "enter" /\ GoTo(c.tab, FALSE))
        /\ HangUp(l)

WalletRead(l) ==
    LET c == line[l]
    IN  /\ c.for = "wallet"
        /\ shown' = [shown EXCEPT ![c.tab].wallet = c.as]
        /\ HangUp(l)
        /\ UNCHANGED <<token, inside, crossed>>

\* logout: reset, whatever the server said.
SignedOut(l) ==
    LET c == line[l]
    IN  /\ c.for = "logout"
        /\ Forget(c.tab) /\ Holder(Nobody, c.tab, l)
        /\ GoTo(c.tab, FALSE) /\ HangUp(l)

\* Any other error; those of logout count as its answer.
Failed(l) ==
    LET c == line[l]
    IN  /\ c.for \notin {"nothing", "logout"}
        /\ HangUp(l)
        /\ Replaced \/ (c.for = "enter" /\ GoTo(c.tab, FALSE))
        /\ crossed' = (crossed \/ /\ c.for = "arrive"
                                  /\ \/ shown[c.tab].user \notin {Nobody, c.as}
                                     \/ shown[c.tab].wallet \notin {Nobody, c.as})
        /\ UNCHANGED <<token, shown>>

WebNext ==
    \/ \E t \in Tabs :
         \/ Navigate(t) \/ Leave(t) \/ Reload(t) \/ SignOut(t)
         \/ SaveProfile(t) \/ SubmitForm(t) \/ MoveMoney(t) \/ ActOnOrder(t)
         \/ \E p \in People : LogIn(t, p) \/ Register(t, p) \/ WechatLogin(t, p)
    \/ \E l \in Lines :
         SignedIn(l) \/ Loaded(l) \/ Refused(l) \/ WalletRead(l) \/ SignedOut(l) \/ Failed(l)
=============================================================================

--------------------------- MODULE AccountSystem ---------------------------
(***************************************************************************)
(* Codes and payment accounts, reviews, sessions, and who a browser shows, *)
(* side by side: they share no state, so a behaviour exercises one of them *)
(* (bound), and what their users may rely on.                              *)
(***************************************************************************)
EXTENDS Accounts, Reviews, Sessions, WebClient

VARIABLE part

vars == <<part, accountVars, reviewVars, sessionVars, webVars>>

Init ==
    /\ part \in {"register", "password", "payment", "reviews", "sessions", "browser"}
    /\ AccountsInit /\ ReviewsInit /\ SessionsInit /\ WebInit

\* The scenes of the codes a part of the system is about.
ScenesOf(p) ==
    CASE p = "register" -> {"register"} [] p = "password" -> {"reset"}
      [] p = "payment"  -> {"bind", "unbind"}

Next ==
    /\ UNCHANGED part
    /\ \/ /\ part \in {"register", "password", "payment"} /\ AccountsNext(ScenesOf(part))
          /\ UNCHANGED <<reviewVars, sessionVars, webVars>>
       \/ part = "reviews" /\ ReviewsNext /\ UNCHANGED <<accountVars, sessionVars, webVars>>
       \/ part = "sessions" /\ SessionsNext /\ UNCHANGED <<accountVars, reviewVars, webVars>>
       \/ part = "browser" /\ WebNext /\ UNCHANGED <<accountVars, reviewVars, sessionVars>>

Spec == Init /\ [][Next]_vars
-----------------------------------------------------------------------------
Rows     == {c \in Cards : cards[c].status # None}
Defaults == {c \in Cards : cards[c].default}

\* A code takes MaxAttempts wrong entries, and one more for every request that runs
\* at the same time; the count starts anew only for each code that was asked for at
\* the same time as this one, and misses only what broke off before it was counted.
WrongEntriesBounded ==
    \A n \in 1..MaxSends :
      wrong[n] <= Cardinality(Slots) * (MaxAttempts + Cardinality(Slots) - 1) + lost

\* However many requests present the same code, it lets through no more than
\* run at once: reading the code and deleting it are two calls.
CodeServesOverlapOnly ==
    \A n \in 1..MaxSends : uses[n] <= Cardinality(Slots)

\* At rest a user has one default account, or as many as requests run at once when they
\* overlapped, and one more for every binding that broke off between its INSERT and its
\* UPDATE, never more; without an overlap each of them is bound.
DefaultsBounded ==
    Calling = {} =>
      /\ Cardinality(Defaults) <= torn + IF mixed THEN Cardinality(Slots) ELSE 1
      /\ ~mixed => \A c \in Defaults : cards[c].status = "active"

\* Whatever reviewers do at the same time, the student has the status of a form
\* that says so: nobody is approved, rejected or waiting without one.
StatusHasForm ==
    student # "unverified" => \E i \in DOMAIN forms : forms[i] = student

\* Applications that were approved have their school, and an application opens no
\* more schools than reviews ran at once, and that many again after every crash.
SchoolsBounded ==
    \A a \in DOMAIN applications :
      /\ applications[a] = "approved" => schools[a] >= 1
      /\ schools[a] <= Cardinality(Desks) * (1 + stops)

\* A request that comes in after the token was logged out is not served, as long as
\* Redis answers: the token stays on the list until it is worth nothing by itself.
RevokedStaysOut ==
    \A d \in Devices :
      visit[d].at = "in" /\ visit[d].late => memory

\* A tab that waits for nothing shows nobody, or the user whose token is stored,
\* and that user's wallet; unless tokens were exchanged while another call was under
\* way or another tab showed a user, or a login over another one broke off.
\* A store that is loaded has its user in any case.
ShowsWhoIsLoggedIn ==
    \A t \in Tabs :
      /\ shown[t].loaded => shown[t].user # Nobody
      /\ ~crossed /\ ~Busy(t) => {shown[t].user, shown[t].wallet} \subseteq {Nobody, token}

\* A session is over for all when it is over: for the server and in the browser.
SessionsHold == RevokedStaysOut /\ ShowsWhoIsLoggedIn

\* A code protects what it was sent for: few wrong entries, and one use.
CodesHold == WrongEntriesBounded /\ CodeServesOverlapOnly

\* What is reviewed by several at once has one outcome in both its places: the form
\* and the student, the application and the school.
ReviewsAgree == StatusHasForm /\ SchoolsBounded
=============================================================================

----------------------------- MODULE DemoStore -----------------------------
(***************************************************************************)
(* The in-browser backend of the demo build: every tab holds the whole     *)
(* data set in memory (state in store.js), handlers change it in place and *)
(* localStorage gets a copy 50 ms after the first write that was answered. *)
(*                                                                         *)
(* A handler runs without interruption, so a request is one step.  What it *)
(* changed before it throws stays changed: nothing is rolled back, it only *)
(* is not scheduled to be saved.                                           *)
(***************************************************************************)
EXTENDS Integers, Sequences, FiniteSets

CONSTANTS
    Tabs,         \* the open pages of one browser
    Quota,        \* pictures (inlined as data URLs) that fit in localStorage
    Horizon       \* bound: the last day

ASSUME DemoStoreAssumption == {Quota, Horizon} \subseteq Nat

VARIABLES
    now,        \* the day
    db,         \* state: the tables each tab holds
    stored,     \* the copy in localStorage
    saveTimer,  \* saveTimer # null, for each tab
    lastSaver,  \* history: the tab whose state is stored
    requests    \* the requests made so far, which a bound stops

storeVars == <<now, db, stored, saveTimer, lastSaver, requests>>

NoTab == "nobody"

\* Before anything is stored, loadState makes the same data set in every tab.
StoreInit(dataset) ==
    /\ now = 1 /\ requests = 0 /\ lastSaver = NoTab
    /\ db = [t \in Tabs |-> dataset] /\ stored = dataset
    /\ saveTimer = [t \in Tabs |-> FALSE]

Leaves(t, d) ==
    /\ requests' = requests + 1
    /\ db' = [db EXCEPT ![t] = d]
    /\ UNCHANGED <<now, stored, lastSaver>>

\* handleRequest: the handler returned and the method is not GET.
Answer(t, d) ==
    /\ Leaves(t, [d EXCEPT !.writes = @ + 1])
    /\ saveTimer' = [saveTimer EXCEPT ![t] = TRUE]

\* A GET, or a handler that throws: its changes stay in memory.
Keep(t, d) == d # db[t] /\ Leaves(t, d) /\ UNCHANGED saveTimer

\* setItem throws when the copy is too large, and the error is ignored.
Save(t) ==
    /\ saveTimer[t]
    /\ saveTimer' = [saveTimer EXCEPT ![t] = FALSE]
    /\ stored' = IF db[t].images <= Quota THEN db[t] ELSE stored
    /\ lastSaver' = IF db[t].images <= Quota THEN t ELSE lastSaver
    /\ UNCHANGED <<now, db, requests>>

\* The page is loaded again, or closed and opened later: a pending save is lost.
Reload(t) ==
    /\ db' = [db EXCEPT ![t] = stored]
    /\ saveTimer' = [saveTimer EXCEPT ![t] = FALSE]
    /\ UNCHANGED <<now, stored, lastSaver, requests>>

ResetDemoData(t, dataset) ==
    /\ requests' = requests + 1
    /\ db' = [db EXCEPT ![t] = dataset]
    /\ stored' = dataset /\ lastSaver' = t
    /\ UNCHANGED <<now, saveTimer>>

NextDay ==
    /\ now < Horizon
    /\ now' = now + 1
    /\ UNCHANGED <<db, stored, saveTimer, lastSaver, requests>>
=============================================================================

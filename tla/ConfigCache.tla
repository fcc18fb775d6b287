----------------------------- MODULE ConfigCache -----------------------------
(***************************************************************************)
(* One configuration entry: the rows of MySQL, the cache in Redis and the  *)
(* cache each process keeps in memory; and the counter by which requests   *)
(* are limited.  A school without a row of its own gets the row of the     *)
(* platform.  Values are numbered in the order they were written.          *)
(***************************************************************************)
EXTENDS Integers, Sequences, FiniteSets

CONSTANTS
    Procs,       \* processes of the server
    Admins,      \* bound: processes that serve administrators
    Asked,       \* bound: levels that loads ask for
    Calls,       \* bound: calls under way at once, numbered
    MemoryTtl, RedisTtl, \* lives of a cached value
    Window,      \* windowSeconds of the rate limit
    MaxWrites,   \* bound: changes ever made
    LoadWrites,  \* bound: changes between loads
    MaxTime,     \* bound: the time of a behaviour
    MaxHits,     \* bound: counted requests
    MaxKills     \* bound: how often a process goes down

ASSUME ConfigAssumption ==
    /\ Admins \subseteq Procs /\ Asked \subseteq {"school", "platform"} /\ Calls \subseteq Nat
    /\ IsFiniteSet(Calls)
    /\ {MemoryTtl, RedisTtl, Window} \subseteq Nat \ {0}
    /\ {MaxWrites, LoadWrites, MaxTime, MaxHits, MaxKills} \subseteq Nat

Levels  == {"school", "platform"}
Values  == 1..(MaxWrites + 1)
Missing == 0
Never   == -1

VARIABLES
    rows,     \* configs: value and version by level
    store,    \* Redis: value and end of life by level asked for
    memory,   \* memoryCache of each process
    work,     \* calls under way
    clock,
    writes,   \* changes made so far
    counter,  \* Redis: the rate limit's count and its end, Never if it has none
    hits,     \* requests counted so far
    kills,    \* processes that went down
    current,  \* history: until when a level resolved to a value
    edits     \* history: changes made from each version of a row

configVars == <<rows, store, memory, work, clock, writes, counter, hits, kills, current,
                edits>>

Idle  == [at |-> "idle"]
Empty == [value |-> Missing, until |-> 0]

\* The seed writes the platform's row.
ConfigInit ==
    /\ rows = [l \in Levels |-> IF l = "platform" THEN [value |-> 1, version |-> 1]
                               ELSE [value |-> Missing, version |-> 0]]
    /\ store  = [l \in Levels |-> Empty]
    /\ memory = [p \in Procs |-> [l \in Levels |-> Empty]]
    /\ work   = [c \in Calls |-> Idle]
    /\ clock = 0 /\ writes = 0 /\ hits = 0 /\ kills = 0
    /\ counter = [n |-> 0, until |-> Never]
    /\ current = [l \in Levels |-> [v \in Values |-> IF v = 1 THEN MaxTime ELSE Never]]
    /\ edits = [l \in Levels |-> [v \in Values |-> 0]]

Live(entry) == entry.value # Missing /\ clock < entry.until
Now(c, r)   == work' = [work EXCEPT ![c] = r]
At(c, step) == work[c].at = step
Free(c)     == At(c, "idle") /\ \A d \in Calls : At(d, "idle") => c <= d
-----------------------------------------------------------------------------
(* get *)

\* What lives in memory is returned at once; it is what a call returns in the end.
Get(c, p, l) ==
    /\ Free(c)
    /\ ~Live(memory[p][l])
    /\ Now(c, [at |-> "redis", by |-> p, level |-> l])
    /\ UNCHANGED <<rows, store, memory, clock, writes, counter, hits, kills, current, edits>>

AskRedis(c) ==
    LET l == work[c].level
    IN  /\ At(c, "redis")
        /\ Now(c, IF Live(store[l])
                  THEN [at |-> "keep", by |-> work[c].by, level |-> l, value |-> store[l].value]
                  ELSE [work[c] EXCEPT !.at = l])
        /\ UNCHANGED <<rows, store, memory, clock, writes, counter, hits, kills, current, edits>>

\* The school's row, and if it has none, in another query, the platform's.
QueryRow(c, l) ==
    LET v == rows[l].value
    IN  /\ At(c, l)
        /\ Now(c, IF v = Missing THEN [work[c] EXCEPT !.at = "platform"]
                  ELSE [at |-> "fill", by |-> work[c].by, level |-> work[c].level, value |-> v])
        /\ UNCHANGED <<rows, store, memory, clock, writes, counter, hits, kills, current, edits>>

\* Into both caches, whatever was changed since the query.
FillRedis(c) ==
    /\ At(c, "fill")
    /\ store' = [store EXCEPT ![work[c].level] =
                   [value |-> work[c].value, until |-> clock + RedisTtl]]
    /\ Now(c, [work[c] EXCEPT !.at = "keep"])
    /\ UNCHANGED <<rows, memory, clock, writes, counter, hits, kills, current, edits>>

\* Mutant: in memory a value lives as long as in Redis, and starts anew.
KeptAsInRedis(v) == [value |-> v, until |-> clock + RedisTtl]

Kept(v) == [value |-> v, until |-> clock + MemoryTtl]

KeepMemory(c) ==
    LET r == work[c]
    IN  /\ At(c, "keep")
        /\ memory' = [memory EXCEPT ![r.by][r.level] = Kept(r.value)]
        /\ Now(c, Idle)
        /\ UNCHANGED <<rows, store, clock, writes, counter, hits, kills, current, edits>>
-----------------------------------------------------------------------------
(* set *)

\* An entry picked from the list comes with the version that was seen, one typed in
\* by its name without any, 0.
AskSet(c, p, l, seen) ==
    /\ Free(c)
    /\ Now(c, [at |-> "version", by |-> p, level |-> l, seen |-> seen, insert |-> FALSE])
    /\ UNCHANGED <<rows, store, memory, clock, writes, counter, hits, kills, current, edits>>

\* Mutant: the version the administrator saw is not compared.
AnyVersion(seen, l) == TRUE

SameVersion(seen, l) == seen \in {0, rows[l].version}

CheckVersion(c) ==
    LET r == work[c]
    IN  /\ At(c, "version")
        /\ Now(c, IF SameVersion(r.seen, r.level)
                  THEN [r EXCEPT !.at = "write", !.insert = rows[r.level].value = Missing]
                  ELSE Idle)
        /\ UNCHANGED <<rows, store, memory, clock, writes, counter, hits, kills, current, edits>>

\* The unique key refuses a second insert of the school's row.
Writable(r) == r.insert => rows[r.level].value = Missing

Resolved(rs) ==
    [l \in Levels |-> IF rs[l].value = Missing THEN rs["platform"].value ELSE rs[l].value]

\* What a level resolves to now, it resolves to from now on; before, until now.
Superseded(new) ==
    [l \in Levels |-> [v \in Values |->
       CASE v = new[l] -> MaxTime
         [] v # new[l] /\ current[l][v] = MaxTime -> clock
         [] OTHER -> current[l][v]]]

WriteRow(c) ==
    LET r == work[c]
        after == [rows EXCEPT ![r.level] = [value |-> writes + 2, version |-> @.version + 1]]
    IN  /\ At(c, "write") /\ writes < MaxWrites
        /\ IF Writable(r)
           THEN /\ writes' = writes + 1
                /\ rows' = after
                /\ current' = Superseded(Resolved(after))
                /\ edits' = IF r.seen = 0 THEN edits ELSE [edits EXCEPT ![r.level][r.seen] = @ + 1]
                /\ Now(c, [at |-> "forget", by |-> r.by, level |-> r.level])
           ELSE Now(c, Idle) /\ UNCHANGED <<writes, rows, current, edits>>
        /\ UNCHANGED <<store, memory, clock, counter, hits, kills>>

\* invalidate, in the own process only, then in Redis.
ForgetMemory(c) ==
    /\ At(c, "forget")
    /\ memory' = [memory EXCEPT ![work[c].by][work[c].level] = Empty]
    /\ Now(c, [work[c] EXCEPT !.at = "delete"])
    /\ UNCHANGED <<rows, store, clock, writes, counter, hits, kills, current, edits>>

\* After the school's value the platform's; after the platform's no school's,
\* although schools without a row have it in their caches.
ForgetRedis(c) ==
    LET l == work[c].level
    IN  /\ At(c, "delete")
        /\ store' = [store EXCEPT ![l] = Empty]
        /\ Now(c, IF l = "school" THEN [work[c] EXCEPT !.level = "platform", !.at = "forget"]
                  ELSE Idle)
        /\ UNCHANGED <<rows, memory, clock, writes, counter, hits, kills, current, edits>>
-----------------------------------------------------------------------------
(* rateLimit: the count and its end are two calls of Redis *)

FirstHit(n) == n = 1

Count(c, p) ==
    LET n == counter.n + 1
    IN  /\ Free(c) /\ hits < MaxHits
        /\ hits' = hits + 1
        /\ counter' = [counter EXCEPT !.n = n]
        /\ IF FirstHit(n) THEN Now(c, [at |-> "window", by |-> p]) ELSE UNCHANGED work
        /\ UNCHANGED <<rows, store, memory, clock, writes, kills, current, edits>>

SetWindow(c) ==
    /\ At(c, "window")
    /\ counter' = [counter EXCEPT !.until = clock + Window]
    /\ Now(c, Idle)
    /\ UNCHANGED <<rows, store, memory, clock, writes, hits, kills, current, edits>>
-----------------------------------------------------------------------------
\* An entry whose life has ended is as good as none.
Lasting(entry) == IF clock + 1 < entry.until THEN entry ELSE Empty

\* Nobody is under way while time passes: a call takes far less than a life.
PassTime ==
    /\ \A c \in Calls : At(c, "idle")
    /\ clock < MaxTime /\ clock' = clock + 1
    /\ store' = [l \in Levels |-> Lasting(store[l])]
    /\ memory' = [p \in Procs |-> [l \in Levels |-> Lasting(memory[p][l])]]
    /\ counter' = IF counter.until = clock + 1 THEN [n |-> 0, until |-> Never] ELSE counter
    /\ UNCHANGED <<rows, work, writes, hits, kills, current, edits>>

\* A process goes down, with its memory and its calls.
Kill(p) ==
    /\ kills < MaxKills /\ kills' = kills + 1
    /\ memory' = [memory EXCEPT ![p] = [l \in Levels |-> Empty]]
    /\ work' = [c \in Calls |-> IF ~At(c, "idle") /\ work[c].by = p THEN Idle ELSE work[c]]
    /\ UNCHANGED <<rows, store, clock, writes, counter, hits, current, edits>>

Changes(max, Seen(_)) ==
    \E c \in Calls :
      \/ /\ writes < max
         /\ \E p \in Admins, l \in Levels : \E seen \in Seen(l) : AskSet(c, p, l, seen)
      \/ CheckVersion(c) \/ WriteRow(c) \/ ForgetMemory(c) \/ ForgetRedis(c)

ChangeNext == Changes(MaxWrites, LAMBDA l : 0..rows[l].version)

\* Bound: a behaviour is about loads and changes without a version, about changes
\* alone, or about the rate limit.
LoadNext ==
    \/ \E c \in Calls :
         \/ \E p \in Procs, l \in Asked : Get(c, p, l)
         \/ \E l \in Levels : QueryRow(c, l)
         \/ AskRedis(c) \/ FillRedis(c) \/ KeepMemory(c)
    \/ Changes(LoadWrites, LAMBDA l : {0})
    \/ \E p \in Procs : Kill(p)
    \/ PassTime

LimitNext ==
    \/ \E c \in Calls : SetWindow(c) \/ \E p \in Procs : Count(c, p)
    \/ \E p \in Procs : Kill(p)
    \/ PassTime
=============================================================================

----------------------------- MODULE ForumProps -----------------------------
(***************************************************************************)
(* What the word guard and the forum behind it promise while requests      *)
(* interleave between their statements.                                    *)
(***************************************************************************)
EXTENDS Forum

\* A word that is banned is found by every process at the latest a cache
\* lifetime and a load after it was listed, in whichever process it was listed.
WordsReachEveryProcess == \A s \in Busy : req[s].lag <= Ttl + LoadTime

EntriesOf(u, kind) == {i \in DOMAIN penalties[u] : penalties[u][i].kind = kind}

\* No one is muted, banned or charged without the hits for it on record, however
\* the requests of one user interleave and wherever a process stops: every mute
\* rests on as many hits as its limit, every ban on a severe one, and there are
\* never more charges than serious hits.
PunishmentHasEvidence ==
    \A u \in Users :
      /\ \A i \in DOMAIN penalties[u] :
           LET e == penalties[u][i]
           IN  /\ e.kind = "hint" => e.count >= HintLimit /\ hits[u].hint >= e.count
               /\ e.kind = "serious" => e.count >= MuteHits /\ hits[u].serious >= e.count
               /\ e.kind = "postBan" => e.count >= BanHits /\ hits[u].serious >= e.count
      /\ Cardinality(EntriesOf(u, "severe")) <= hits[u].severe
      /\ Cardinality(EntriesOf(u, "debit")) <= hits[u].serious
      /\ users[u].banned => EntriesOf(u, "severe") # {}
      /\ users[u].mute > 0 => \E i \in DOMAIN penalties[u] :
                                penalties[u][i].kind \in DOMAIN MuteDays

\* The score of a user never falls by more than the charges on record: two
\* charges at once may lose one, never add one.
ScoreLossIsOnRecord ==
    \A u \in Users :
      users[u].score + Debit * Cardinality(EntriesOf(u, "debit")) >= InitScore

\* What is stored passed the guard: title and content of a thread passed it together,
\* although they can be edited one at a time, and by two requests at once; so did the
\* remark of a book, which is written back with every change of something else, and
\* what users say of themselves.
StoredWasChecked ==
    /\ \A t \in DOMAIN threads : <<threads[t].title, threads[t].content>> \in passed
    /\ \A b \in DOMAIN books : <<(<<>>), books[b].remark>> \in passed
    /\ \A u \in Users : bios[u] # <<>> => <<(<<>>), bios[u]>> \in passed

\* A reply stands above every reply that was there before it was made, also when
\* floors are given twice to replies made at once.
FloorsFollowTime ==
    \A i \in DOMAIN replies : \A j \in replies[i].after :
      replies[j].floor < replies[i].floor

\* The number of replies a thread shows never exceeds the replies that nobody
\* deleted by request, whatever the review queue did to them.
CountNeverHigh ==
    \A t \in DOMAIN threads :
      threads[t].count <= Cardinality({i \in RepliesOf(t) : ~replies[i].taken})

\* The books a user shows on sale pass the limit by no more than the requests that
\* can run at once, leaving aside what a moderator put back.
ListingOvershootBounded ==
    \A u \in Users :
      Cardinality({b \in OnSaleOf(u) : ~books[b].restored /\ ~books[b].gone})
        < MaxBooks + Cardinality(Slots)

\* Every measure against a user is on record with what it was taken for.
PunishmentsAreOnRecord == PunishmentHasEvidence /\ ScoreLossIsOnRecord

\* What a thread shows of its replies: their order follows time, and their number is
\* not above what is there.
RepliesAddUp == FloorsFollowTime /\ CountNeverHigh
=============================================================================

------------------------------ MODULE KillRanking ------------------------------
(***************************************************************************)
(* Kills and the ranking: what the field thread asks of its db thread, the *)
(* two stores the db thread writes (MySQL through CDB, Redis through       *)
(* cpp_redis), and the answers.  One step is one call into a store, one    *)
(* queue operation or one SetEvent.                                        *)
(*                                                                         *)
(* The queues are FIFO (module RingBuffer) and long enough; the nickname   *)
(* of a player is its number, and Redis sorts equal scores by it.  The     *)
(* clients that ask are here, the network between them and the server is   *)
(* not.  A Redis                                                           *)
(* write may fail; an error reply to a read is not modelled (cpp_redis     *)
(* would throw on its own thread).  The thread's end is in PlayerLifecycle. *)
(***************************************************************************)
EXTENDS Integers, Sequences, FiniteSets, SequencesExt, CDB

CONSTANTS
  Players,          (* nicknames, as numbers                                  *)
  MAX_TOP_ENTRY,    (* entries of a ranking                                   *)
  Leavers,          (* bound: the players that may be cut off                 *)
  MaxKills,         (* bound: kills of all players together                   *)
  MaxAsks           (* bound: rankings asked for                              *)

ASSUME RankingAssumption ==
  /\ Players \subseteq Nat /\ IsFiniteSet(Players) /\ MAX_TOP_ENTRY \in Nat \ {0}
  /\ Leavers \subseteq Players /\ MaxKills \in Nat /\ MaxAsks \in Nat

VARIABLES
  stay,             (* of a player: "in" the field, "saving" its position as  *)
                    (* it was cut off, or "gone"                              *)
  reqQ, resQ,       (* mDBReqQ, mDBResQ                                       *)
  event,            (* mHDBEvent, reset by the wait it ends                   *)
  signal,           (* the field thread has enqueued and is about to SetEvent *)
  pc, useSize, job, (* the db thread: its next call, the jobs it has yet to   *)
                    (* take before it waits again, and the one it is at       *)
  answer,           (* what it has read for a ranking                         *)
  db, thrown,       (* its CDB; CDBException was thrown                       *)
  killCount,        (* Accounts.killCount of MySQL                            *)
  score,            (* ranking:killcount of Redis, 0 for who is not in it     *)
  lastKillTime,     (* ranking:lastkilltime of Redis, 0 for who is not in it  *)
  asks, taken,      (* RANKING_REQs each client has sent, and the field thread *)
                    (* has handled                                            *)
  answers, shown,   (* RANKING_RESs it was sent, and has shown                *)
  made,             (* history: kills of each player                          *)
  lost              (* history: its kills each store refused                  *)

clientVars == <<asks, shown>>
fieldVars == <<stay, signal, taken, made>>
dbVars    == <<pc, useSize, job, answer, db, thrown>>
storeVars == <<killCount, score, lastKillTime, lost>>
vars == <<clientVars, fieldVars, reqQ, resQ, event, dbVars, storeVars, answers>>

(* made is history: the kills of the player when it was asked. *)
Job(type, p) == [type |-> type, who |-> p, made |-> made[p]]
Result(done) == [type |-> done.type, who |-> done.who]
NoJob        == [type |-> "none", who |-> 0, made |-> 0]
NoAnswer     == [top |-> <<>>, rank |-> 0, count |-> 0]

None == [p \in Players |-> 0]

Init ==
  /\ stay = [p \in Players |-> "in"] /\ reqQ = <<>> /\ resQ = <<>>
  /\ event = FALSE /\ signal = FALSE
  /\ pc = "wait" /\ useSize = 0 /\ job = NoJob /\ answer = NoAnswer
  /\ db = Connect(NewCDB, TRUE) /\ thrown = FALSE
  /\ killCount = None /\ score = None /\ lastKillTime = None
  /\ asks = None /\ taken = None /\ answers = None /\ shown = None /\ made = None
  /\ lost = [store \in {"MySQL", "Redis"} |-> None]

-----------------------------------------------------------------------------
(* The clients *)

SumOf(f) == FoldFunction(+, 0, f)

(* FieldScene: the key R goes down; while it is held nothing more is asked. *)
updateRankingInput(p) ==
  /\ stay[p] = "in" /\ SumOf(asks) < MaxAsks
  /\ asks' = [asks EXCEPT ![p] = @ + 1]
  /\ UNCHANGED <<shown, fieldVars, reqQ, resQ, event, dbVars, storeVars, answers>>

onRankingRes(p) ==
  /\ shown[p] < answers[p] /\ shown' = [shown EXCEPT ![p] = @ + 1]
  /\ UNCHANGED <<asks, fieldVars, reqQ, resQ, event, dbVars, storeVars, answers>>

-----------------------------------------------------------------------------
(* The field thread.  Every request ends with SetEvent. *)

Request(type, p) ==
  /\ ~signal /\ signal' = TRUE
  /\ reqQ' = Append(reqQ, Job(type, p))
  /\ UNCHANGED <<clientVars, resQ, event, dbVars, storeVars, answers>>

(* Fault: SetEvent is left to the next request while jobs are waiting. *)
SetEventIfAlone ==
  /\ signal /\ signal' = FALSE /\ event' = (event \/ Len(reqQ) = 1)
  /\ UNCHANGED <<clientVars, stay, reqQ, resQ, dbVars, storeVars, taken, answers, made>>

SetEvent ==
  /\ signal /\ signal' = FALSE /\ event' = TRUE
  /\ UNCHANGED <<clientVars, stay, reqQ, resQ, dbVars, storeVars, taken, answers, made>>

(* processPlayerAttackHit: requestKillCountUpdate, by players that are cut off, too. *)
Kill(p) ==
  /\ stay[p] # "gone" /\ SumOf(made) < MaxKills
  /\ made' = [made EXCEPT ![p] = @ + 1]
  /\ Request("KillCountUpdate", p) /\ UNCHANGED <<stay, taken>>

(* handleRankingReq *)
RankingReq(p) ==
  /\ stay[p] = "in" /\ taken[p] < asks[p]
  /\ taken' = [taken EXCEPT ![p] = @ + 1]
  /\ Request("RankingQuery", p) /\ UNCHANGED <<stay, made>>

(* checkDisConnectedAndLeavePlayer has met a player that onRelease has cut off. *)
PositionSave(p) ==
  /\ p \in Leavers /\ stay[p] = "in" /\ stay' = [stay EXCEPT ![p] = "saving"]
  /\ Request("PositionSave", p) /\ UNCHANGED <<taken, made>>

(* dbResultPacketProc: a ranking of who has left goes nowhere, and that a kill was *)
(* not counted is only printed.                                                    *)
DbResult ==
  /\ ~signal /\ resQ # <<>> /\ resQ' = Tail(resQ)
  /\ LET r == Head(resQ) IN
     /\ stay' = [stay EXCEPT ![r.who] = IF r.type = "PositionSave" THEN "gone" ELSE @]
     /\ answers' = [answers EXCEPT ![r.who] =
                      IF r.type = "RankingQuery" /\ stay[r.who] # "gone" THEN @ + 1 ELSE @]
  /\ UNCHANGED <<clientVars, reqQ, event, signal, dbVars, storeVars, taken, made>>

-----------------------------------------------------------------------------
(* The db thread *)

Wait ==
  /\ pc = "wait" /\ event /\ event' = FALSE
  /\ useSize' = Len(reqQ) /\ pc' = "loop"
  /\ UNCHANGED <<clientVars, fieldVars, reqQ, resQ, job, answer, db, thrown, storeVars, answers>>

Take ==
  /\ pc = "loop"
  /\ IF useSize = 0
     THEN pc' = "wait" /\ UNCHANGED <<reqQ, useSize, job>>
     ELSE /\ job' = Head(reqQ) /\ reqQ' = Tail(reqQ) /\ useSize' = useSize - 1
          /\ pc' = IF job'.type = "RankingQuery" THEN "zrevrange" ELSE "execute"
  /\ UNCHANGED <<clientVars, fieldVars, resQ, event, answer, db, thrown, storeVars, answers>>

(* The UPDATE of a PositionSave or a KillCountUpdate. *)
Update ==
  /\ pc = "execute"
  /\ thrown' = throwIfFailed(db)
  /\ \E bSuccess \in IF throwIfFailed(db) THEN {FALSE} ELSE BOOLEAN :
       /\ db' = Execute(db, bSuccess)
       /\ pc' = IF ~bSuccess THEN "clear" ELSE IF job.type = "PositionSave" THEN "answer" ELSE "zincrby"
       /\ killCount' = [killCount EXCEPT ![job.who] =
                          IF bSuccess /\ job.type = "KillCountUpdate" THEN @ + 1 ELSE @]
       /\ lost' = [lost EXCEPT !["MySQL"][job.who] =
                     IF ~bSuccess /\ job.type = "KillCountUpdate" THEN @ + 1 ELSE @]
  /\ UNCHANGED <<clientVars, fieldVars, reqQ, resQ, event, useSize, job, answer, score, lastKillTime, answers>>

(* Fault: a kill that MySQL refused is not counted in Redis either, and its error *)
(* flag stays.                                                                    *)
ClearErrorForgotten ==
  /\ pc = "clear" /\ pc' = "answer"
  /\ UNCHANGED <<clientVars, fieldVars, reqQ, resQ, event, useSize, job, answer, db, thrown, storeVars,
                 answers>>

Clear ==
  /\ pc = "clear" /\ db' = ClearError(db)
  /\ pc' = IF job.type = "KillCountUpdate" THEN "zincrby" ELSE "answer"
  /\ UNCHANGED <<clientVars, fieldVars, reqQ, resQ, event, useSize, job, answer, thrown, storeVars, answers>>

(* HSetSync of the time: a second as the latest one known, or a later one. *)
HSet ==
  LET latest == CHOOSE t \in {lastKillTime[p] : p \in Players} : \A p \in Players : lastKillTime[p] <= t
  IN \/ UNCHANGED lastKillTime
     \/ \E now \in {latest, latest + 1} \ {0} : lastKillTime' = [lastKillTime EXCEPT ![job.who] = now]

(* ZincrbySync *)
Zincrby ==
  /\ pc = "zincrby" /\ pc' = "answer"
  /\ \/ score' = [score EXCEPT ![job.who] = @ + 1] /\ UNCHANGED lost
     \/ lost' = [lost EXCEPT !["Redis"][job.who] = @ + 1] /\ UNCHANGED score
  /\ HSet
  /\ UNCHANGED <<clientVars, fieldVars, reqQ, resQ, event, useSize, job, answer, db, thrown, killCount,
                 answers>>

(* One read of a ranking: then pc is next, and answer is read. *)
Read(now, next, read) ==
  /\ pc = now /\ pc' = next /\ answer' = read
  /\ UNCHANGED <<clientVars, fieldVars, reqQ, resQ, event, useSize, job, db, thrown, storeVars, answers>>

Ranked == {p \in Players : score[p] > 0}

(* How Redis orders a sorted set. *)
Above(p, q) == score[p] > score[q] \/ (score[p] = score[q] /\ p > q)

(* Its skip list: whom it ranks above p, and p itself. *)
Rank(p) == Cardinality({q \in Ranked : Above(q, p)}) + 1

TopList ==
  LET all == Cardinality(Ranked)
      entries == IF all < MAX_TOP_ENTRY THEN all ELSE MAX_TOP_ENTRY
  IN  [i \in 1 .. entries |-> CHOOSE p \in Ranked : Rank(p) = i]

ZRevRange == Read("zrevrange", "zrevrank",
  [answer EXCEPT !.top = [i \in DOMAIN TopList |-> [nickname |-> TopList[i],
                                                    killCount |-> score[TopList[i]]]]])

(* Fault: the rank is counted from zero, as Redis does. *)
ZRevRankFromZero == Read("zrevrank", "zscore",
  [answer EXCEPT !.rank = IF score[job.who] = 0 THEN -1 ELSE Rank(job.who) - 1])

(* ZRevRankSync and the + 1, -1 for who is not ranked. *)
ZRevRank == Read("zrevrank", "zscore",
  [answer EXCEPT !.rank = IF score[job.who] = 0 THEN -1 ELSE Rank(job.who)])

ZScore == Read("zscore", "sort", [answer EXCEPT !.count = score[job.who]])

(* HMGetSync, and the sort of the entries of equal score by what it returns. *)
SortedByTime(top) ==
  {s \in SetToSeqs(ToSet(top)) : \A i \in DOMAIN s : \A j \in 1 .. i - 1 :
     \/ s[j].killCount > s[i].killCount
     \/ /\ s[j].killCount = s[i].killCount
        /\ lastKillTime[s[j].nickname] <= lastKillTime[s[i].nickname]}

SortTies == \E s \in SortedByTime(answer.top) : Read("sort", "answer", [answer EXCEPT !.top = s])

(* mDBResQ->Enqueue *)
Answer ==
  /\ pc = "answer" /\ pc' = "loop"
  /\ resQ' = Append(resQ, Result(job))
  /\ job' = NoJob /\ answer' = NoAnswer
  /\ UNCHANGED <<clientVars, fieldVars, reqQ, event, useSize, db, thrown, storeVars, answers>>

-----------------------------------------------------------------------------

DbThread ==
  \/ Wait \/ Take \/ Update \/ Clear \/ Zincrby
  \/ ZRevRange \/ ZRevRank \/ ZScore \/ SortTies \/ Answer

Next ==
  \/ DbThread \/ SetEvent \/ DbResult
  \/ \E p \in Players : updateRankingInput(p) \/ onRankingRes(p)
  \/ \E p \in Players : Kill(p) \/ RankingReq(p) \/ PositionSave(p)

(* Both threads keep running, and so do the clients. *)
Fairness ==
  /\ WF_vars(DbThread) /\ WF_vars(SetEvent) /\ SF_vars(DbResult)
  /\ \A p \in Players : SF_vars(RankingReq(p)) /\ WF_vars(onRankingRes(p))

Spec == Init /\ [][Next]_vars
FairSpec == Spec /\ Fairness

-----------------------------------------------------------------------------
(* Properties *)

(* Type invariant. *)
TypeOK ==
  /\ stay \in [Players -> {"in", "saving", "gone"}]
  /\ \A i \in DOMAIN reqQ : /\ reqQ[i].type \in {"PositionSave", "KillCountUpdate", "RankingQuery"}
                            /\ reqQ[i].who \in Players
  /\ \A i \in DOMAIN resQ : resQ[i].who \in Players
  /\ event \in BOOLEAN /\ signal \in BOOLEAN /\ useSize \in 0 .. Len(reqQ)
  /\ db \in CDBs /\ thrown \in BOOLEAN
  /\ killCount \in [Players -> Nat] /\ score \in [Players -> Nat]
  /\ lastKillTime \in [Players -> Nat]
  /\ Len(answer.top) <= MAX_TOP_ENTRY
  /\ \A p \in Players : shown[p] <= answers[p] /\ answers[p] <= taken[p] /\ taken[p] <= asks[p]

(* Kills of p the store written before a step in late has not been told of. *)
Untold(p, late) ==
  Cardinality({i \in DOMAIN reqQ : reqQ[i].type = "KillCountUpdate" /\ reqQ[i].who = p})
    + IF job.type = "KillCountUpdate" /\ job.who = p /\ pc \notin late THEN 1 ELSE 0

(* Each store counts every kill once: what it counts, what is still to be told to  *)
(* it and what it refused add up to the kills made, also of a player that is cut   *)
(* off or gone, and no call meets the error another one has left in the CDB.       *)
KillsKept ==
  /\ ~thrown
  /\ \A p \in Players :
       /\ killCount[p] + lost["MySQL"][p] + Untold(p, {"clear", "zincrby", "answer"})
            = made[p]
       /\ score[p] + lost["Redis"][p] + Untold(p, {"answer"}) = made[p]

(* A ranking put together from four reads is one picture: it counts all the kills  *)
(* the player had made when it asked and no later one (but those Redis refused);   *)
(* nobody with more kills than an entry is below it or missing; of two with equally *)
(* many the one whose last kill is older is first; and the rank of the player lies *)
(* where the players with as many kills are.                                       *)
RankingExact ==
  pc = "answer" /\ job.type = "RankingQuery" =>
    LET listed == {answer.top[i].nickname : i \in DOMAIN answer.top}
        Time(i) == lastKillTime[answer.top[i].nickname]
        Better == {p \in Players : score[p] > answer.count}
        Equal  == {p \in Players : score[p] = answer.count}
    IN
    /\ answer.count = job.made - lost["Redis"][job.who]
    /\ \A i \in DOMAIN answer.top : \A p \in Players :
         score[p] > answer.top[i].killCount => \E j \in 1 .. i - 1 : answer.top[j].nickname = p
    /\ \A i, j \in DOMAIN answer.top :
         i < j /\ answer.top[i].killCount = answer.top[j].killCount => Time(i) <= Time(j)
    /\ \A p \in Players \ listed : score[p] > 0 => Len(answer.top) = MAX_TOP_ENTRY
    /\ IF answer.count = 0 THEN answer.rank = -1
       ELSE answer.rank \in Cardinality(Better) + 1 .. Cardinality(Better \union Equal)

(* A ranking that is asked for is shown, if its player does not leave. *)
Answered ==
  \A p \in Players : \A n \in 1 .. MaxAsks :
    asks[p] = n ~> shown[p] >= n \/ stay[p] # "in"
=============================================================================

-------------------------- MODULE KillRanking_proofs --------------------------
(***************************************************************************)
(* Proofs about KillRanking, for any players, kills and rankings asked     *)
(* for, and whatever writes the two stores refuse: every kill is counted   *)
(* once by each store or refused by it, and a ranking put together from    *)
(* four reads is one picture of the moment its player asked.               *)
(***************************************************************************)
EXTENDS KillRanking, FiniteSetTheorems, SequenceTheorems, TLAPS

-----------------------------------------------------------------------------
(* The inductive invariant.                                                *)

JobTypes == {"PositionSave", "KillCountUpdate", "RankingQuery"}
Jobs == [type : JobTypes, who : Players, made : Nat]
Writes == {"execute", "clear", "zincrby"}
Reads == {"zrevrange", "zrevrank", "zscore", "sort"}

(* The jobs in the queue, and the counts of the stores. *)
Types ==
  /\ reqQ \in Seq(Jobs)
  /\ useSize \in 0 .. Len(reqQ)
  /\ db \in CDBs
  /\ killCount \in [Players -> Nat] /\ score \in [Players -> Nat] /\ made \in [Players -> Nat]
  /\ lost \in [{"MySQL", "Redis"} -> [Players -> Nat]]

(* The db thread has a job from Take to Answer, of a type that fits the call  *)
(* it is at, and its CDB remembers a failure only until it is cleared.        *)
Stages ==
  /\ pc \in {"wait", "loop", "answer"} \cup Writes \cup Reads
  /\ pc \in {"wait", "loop"} => job = NoJob
  /\ pc \in {"answer"} \cup Writes \cup Reads => job \in Jobs
  /\ pc \in Writes => job.type # "RankingQuery"
  /\ pc \in Reads => job.type = "RankingQuery"
  /\ pc = "zincrby" => job.type = "KillCountUpdate"
  /\ db.mBFailed <=> pc = "clear"
  /\ ~thrown
  /\ DOMAIN answer = {"top", "rank", "count"}

(* The kills of p behind the i-th job of a queue. *)
KillsAfter(q, p, i) ==
  {k \in DOMAIN q : k > i /\ q[k].type = "KillCountUpdate" /\ q[k].who = p}

(* A ranking that is asked for remembers the kills made before it: the others  *)
(* are behind it in the queue.                                                 *)
Asked ==
  /\ \A i \in DOMAIN reqQ : reqQ[i].type = "RankingQuery" =>
       made[reqQ[i].who] = reqQ[i].made + Cardinality(KillsAfter(reqQ, reqQ[i].who, i))
  /\ job.type = "RankingQuery" =>
       made[job.who] = job.made + Cardinality(KillsAfter(reqQ, job.who, 0))

(* The entries of a ranking: who is not among them has no more kills than any.  *)
TopRight ==
  LET top == answer.top IN
  /\ DOMAIN top = 1 .. Len(top) /\ Len(top) \in Nat
  /\ \A i \in DOMAIN top : /\ top[i].nickname \in Ranked
                           /\ top[i].killCount = score[top[i].nickname]
  /\ \A i, j \in DOMAIN top : top[i].nickname = top[j].nickname => i = j
  /\ \A p \in Ranked : (\A i \in DOMAIN top : top[i].nickname # p) =>
       /\ Len(top) = MAX_TOP_ENTRY
       /\ \A i \in DOMAIN top : score[p] <= top[i].killCount

(* Their order after the sort of the entries. *)
Sorted ==
  \A i, j \in DOMAIN answer.top : j < i =>
    \/ answer.top[j].killCount > answer.top[i].killCount
    \/ /\ answer.top[j].killCount = answer.top[i].killCount
       /\ lastKillTime[answer.top[j].nickname] <= lastKillTime[answer.top[i].nickname]

(* What has been read of a ranking so far is as the stores are. *)
Picture ==
  job.type = "RankingQuery" =>
    /\ pc \in {"zrevrank", "zscore", "sort", "answer"} => TopRight
    /\ pc \in {"zscore", "sort", "answer"} =>
         answer.rank = IF score[job.who] = 0 THEN -1 ELSE Rank(job.who)
    /\ pc \in {"sort", "answer"} => answer.count = score[job.who]
    /\ pc = "answer" => Sorted

IInv == Types /\ Stages /\ KillsKept /\ Asked /\ Picture

-----------------------------------------------------------------------------
(* Counting kills in a queue.                                              *)

(* Kills behind a job are finitely many. *)
LEMMA KillsFinite ==
  ASSUME NEW q \in Seq(Jobs), NEW p, NEW i \in Nat
  PROVE  IsFiniteSet(KillsAfter(q, p, i)) /\ Cardinality(KillsAfter(q, p, i)) \in Nat
<1>1. Len(q) \in Nat /\ DOMAIN q = 1 .. Len(q) BY LenProperties
<1>2. KillsAfter(q, p, i) \in SUBSET (1 .. Len(q)) BY <1>1 DEF KillsAfter
<1>3. IsFiniteSet(1 .. Len(q)) BY <1>1, FS_Interval
<1>4. QED BY <1>2, <1>3, FS_Subset, FS_CardinalityType

(* A job is enqueued: if it is a kill, it is behind all others. *)
LEMMA KillsAppend ==
  ASSUME NEW q \in Seq(Jobs), NEW j \in Jobs, NEW p, NEW i \in 0 .. Len(q)
  PROVE  Cardinality(KillsAfter(Append(q, j), p, i)) =
           Cardinality(KillsAfter(q, p, i))
             + IF j.type = "KillCountUpdate" /\ j.who = p THEN 1 ELSE 0
<1>1. Len(q) \in Nat /\ DOMAIN q = 1 .. Len(q) BY LenProperties
<1>2. /\ Len(Append(q, j)) = Len(q) + 1 /\ DOMAIN Append(q, j) = 1 .. Len(q) + 1
      /\ \A k \in 1 .. Len(q) : Append(q, j)[k] = q[k]
      /\ Append(q, j)[Len(q) + 1] = j
  BY <1>1, AppendProperties
<1>3. /\ IsFiniteSet(KillsAfter(q, p, i)) /\ Cardinality(KillsAfter(q, p, i)) \in Nat
      /\ Len(q) + 1 \notin KillsAfter(q, p, i)
  <2>1. i \in Nat BY <1>1
  <2>2. Len(q) + 1 \notin DOMAIN q BY <1>1
  <2>3. Len(q) + 1 \notin KillsAfter(q, p, i) BY <2>2 DEF KillsAfter
  <2>4. QED BY <2>1, <2>3, KillsFinite
<1>4. CASE j.type = "KillCountUpdate" /\ j.who = p
  <2>1. KillsAfter(Append(q, j), p, i) = KillsAfter(q, p, i) \cup {Len(q) + 1}
    BY <1>1, <1>2, <1>4 DEF KillsAfter
  <2>2. QED BY <1>3, <1>4, <2>1, FS_AddElement
<1>5. CASE ~(j.type = "KillCountUpdate" /\ j.who = p)
  <2>1. KillsAfter(Append(q, j), p, i) = KillsAfter(q, p, i)
    BY <1>1, <1>2, <1>5 DEF KillsAfter
  <2>2. QED BY <1>3, <1>5, <2>1
<1>6. QED BY <1>4, <1>5

(* The first job is taken: the others move up. *)
LEMMA KillsTail ==
  ASSUME NEW q \in Seq(Jobs), q # <<>>, NEW p, NEW i \in Nat
  PROVE  Cardinality(KillsAfter(Tail(q), p, i)) = Cardinality(KillsAfter(q, p, i + 1))
<1>1. /\ Tail(q) \in Seq(Jobs) /\ Len(Tail(q)) = Len(q) - 1
      /\ \A k \in 1 .. Len(Tail(q)) : Tail(q)[k] = q[k + 1]
  BY HeadTailProperties
<1>2. /\ Len(q) \in Nat /\ Len(q) > 0 /\ DOMAIN q = 1 .. Len(q)
      /\ DOMAIN Tail(q) = 1 .. Len(q) - 1
  BY <1>1, LenProperties, EmptySeq
<1> DEFINE S == KillsAfter(Tail(q), p, i)
           T == KillsAfter(q, p, i + 1)
           f == [k \in S |-> k + 1]
<1>3. \A k \in S : k \in 1 .. Len(q) - 1 /\ k + 1 \in T
  BY <1>1, <1>2 DEF KillsAfter
<1>4. \A k \in T : k - 1 \in S /\ k - 1 + 1 = k
  <2>1. SUFFICES ASSUME NEW k \in T PROVE k - 1 \in S /\ k - 1 + 1 = k OBVIOUS
  <2>2. /\ k \in 1 .. Len(q) /\ k > i + 1
        /\ q[k].type = "KillCountUpdate" /\ q[k].who = p
    BY <1>2 DEF KillsAfter
  <2>3. k - 1 \in 1 .. Len(q) - 1 /\ k - 1 > i /\ k - 1 + 1 = k BY <1>2, <2>2
  <2>4. Tail(q)[k - 1] = q[k] BY <1>1, <2>3
  <2>5. QED BY <1>2, <2>2, <2>3, <2>4 DEF KillsAfter
<1> HIDE DEF S, T
<1>5. f \in [S -> T] BY <1>3
<1>6. \A a, b \in S : f[a] = f[b] => a = b BY <1>3
<1>7. \A t \in T : \E s \in S : f[s] = t BY <1>4
<1>8. f \in Bijection(S, T)
  BY <1>5, <1>6, <1>7 DEF Bijection, Injection, Surjection, IsInjective
<1>9. ExistsBijection(S, T) BY <1>8 DEF ExistsBijection
<1>10. IsFiniteSet(S) BY <1>1, KillsFinite DEF S
<1>11. Cardinality(T) = Cardinality(S) BY <1>9, <1>10, FS_Bijection
<1>12. QED BY <1>11 DEF S, T

(* The first job is a kill of p, or is not. *)
LEMMA KillsHead ==
  ASSUME NEW q \in Seq(Jobs), q # <<>>, NEW p
  PROVE  Cardinality(KillsAfter(q, p, 0)) =
           Cardinality(KillsAfter(q, p, 1))
             + IF Head(q).type = "KillCountUpdate" /\ Head(q).who = p THEN 1 ELSE 0
<1>1. Len(q) \in Nat /\ Len(q) > 0 /\ DOMAIN q = 1 .. Len(q) /\ Head(q) = q[1]
  BY LenProperties, EmptySeq
<1>2. /\ IsFiniteSet(KillsAfter(q, p, 1)) /\ Cardinality(KillsAfter(q, p, 1)) \in Nat
      /\ 1 \notin KillsAfter(q, p, 1)
  <2>1. 1 \notin KillsAfter(q, p, 1) BY DEF KillsAfter
  <2>2. QED BY <2>1, KillsFinite
<1>3. CASE Head(q).type = "KillCountUpdate" /\ Head(q).who = p
  <2>1. KillsAfter(q, p, 0) = KillsAfter(q, p, 1) \cup {1}
    BY <1>1, <1>3 DEF KillsAfter
  <2>2. QED BY <1>2, <1>3, <2>1, FS_AddElement
<1>4. CASE ~(Head(q).type = "KillCountUpdate" /\ Head(q).who = p)
  <2>1. KillsAfter(q, p, 0) = KillsAfter(q, p, 1)
    BY <1>1, <1>4 DEF KillsAfter
  <2>2. QED BY <1>2, <1>4, <2>1
<1>5. QED BY <1>3, <1>4

(* The kills a store has not been told of: those in the queue and, perhaps, *)
(* the one the db thread is at.                                             *)
LEMMA UntoldKills ==
  ASSUME Types, NEW p, NEW late
  PROVE  Untold(p, late) =
           Cardinality(KillsAfter(reqQ, p, 0))
             + IF job.type = "KillCountUpdate" /\ job.who = p /\ pc \notin late THEN 1 ELSE 0
<1>1. reqQ \in Seq(Jobs) /\ DOMAIN reqQ = 1 .. Len(reqQ) /\ Len(reqQ) \in Nat
  BY LenProperties DEF Types
<1>2. {i \in DOMAIN reqQ : reqQ[i].type = "KillCountUpdate" /\ reqQ[i].who = p}
        = KillsAfter(reqQ, p, 0)
  BY <1>1 DEF KillsAfter
<1>3. QED BY <1>2 DEF Untold

-----------------------------------------------------------------------------
(* The order of the ranking.                                               *)

(* The ranks of the players Redis ranks are the numbers from one up, and a  *)
(* player with more kills has the smaller rank.                             *)
LEMMA Ranks ==
  ASSUME score \in [Players -> Nat]
  PROVE  /\ IsFiniteSet(Ranked) /\ Cardinality(Ranked) \in Nat
         /\ \A p \in Ranked : Rank(p) \in 1 .. Cardinality(Ranked)
         /\ \A p, q \in Ranked : Rank(p) = Rank(q) => p = q
         /\ \A p, q \in Ranked : Rank(p) <= Rank(q) => score[p] >= score[q]
         /\ \A i \in 1 .. Cardinality(Ranked) : \E p \in Ranked : Rank(p) = i
<1>1. Ranked \in SUBSET Players BY DEF Ranked
<1>2. IsFiniteSet(Ranked) /\ Cardinality(Ranked) \in Nat
  BY <1>1, RankingAssumption, FS_Subset, FS_CardinalityType
<1>3. \A p \in Ranked : p \in Nat /\ score[p] \in Nat
  BY <1>1, RankingAssumption
<1> DEFINE Over(p) == {q \in Ranked : Above(q, p)}
<1>4. \A p, q, r \in Ranked : /\ ~Above(p, p)
                              /\ p = q \/ Above(p, q) \/ Above(q, p)
                              /\ Above(p, q) /\ Above(q, r) => Above(p, r)
                              /\ Above(p, q) => score[p] >= score[q]
  BY <1>3 DEF Above
<1>5. \A p \in Ranked : /\ Over(p) \in SUBSET Ranked /\ p \notin Over(p)
                        /\ IsFiniteSet(Over(p)) /\ Cardinality(Over(p)) \in Nat
                        /\ Rank(p) = Cardinality(Over(p)) + 1
  BY <1>2, <1>4, FS_Subset, FS_CardinalityType DEF Rank
<1>6. ASSUME NEW p \in Ranked PROVE Rank(p) \in 1 .. Cardinality(Ranked)
  <2>1. /\ Cardinality(Over(p)) <= Cardinality(Ranked)
        /\ Cardinality(Over(p)) = Cardinality(Ranked) => Over(p) = Ranked
    BY <1>2, <1>5, FS_Subset
  <2>2. Cardinality(Over(p)) # Cardinality(Ranked) BY <1>5, <2>1
  <2>3. QED BY <1>2, <1>5, <2>1, <2>2
<1>7. ASSUME NEW p \in Ranked, NEW q \in Ranked, Above(p, q) PROVE Rank(p) < Rank(q)
  <2>1. Over(p) \in SUBSET Over(q) /\ p \in Over(q) /\ p \notin Over(p)
    BY <1>4, <1>7, <1>5
  <2>2. /\ Cardinality(Over(p)) <= Cardinality(Over(q))
        /\ Cardinality(Over(p)) = Cardinality(Over(q)) => Over(p) = Over(q)
    BY <1>5, <2>1, FS_Subset
  <2>3. Cardinality(Over(p)) < Cardinality(Over(q)) BY <1>5, <2>1, <2>2
  <2>4. QED BY <1>5, <2>3
<1> HIDE DEF Over
<1>8. \A p, q \in Ranked : Rank(p) \in Int /\ (Rank(p) = Rank(q) => p = q)
  <2>1. SUFFICES ASSUME NEW p \in Ranked, NEW q \in Ranked
                 PROVE  Rank(p) \in Int /\ (Rank(p) = Rank(q) => p = q)
    OBVIOUS
  <2>2. Rank(p) \in Int /\ Rank(q) \in Int BY <1>5
  <2>3. QED BY <1>4, <1>7, <2>2
<1>9. \A p, q \in Ranked : Rank(p) <= Rank(q) => score[p] >= score[q]
  <2>1. SUFFICES ASSUME NEW p \in Ranked, NEW q \in Ranked, Rank(p) <= Rank(q)
                 PROVE  score[p] >= score[q]
    OBVIOUS
  <2>2. Rank(p) \in Int /\ Rank(q) \in Int BY <1>5
  <2>3. ~Above(q, p) BY <1>7, <2>1, <2>2
  <2>4. QED BY <1>3, <1>4, <2>3
<1>10. ASSUME NEW i \in 1 .. Cardinality(Ranked) PROVE \E p \in Ranked : Rank(p) = i
  <2> DEFINE N == 1 .. Cardinality(Ranked)
             f == [p \in Ranked |-> Rank(p)]
  <2>1. IsFiniteSet(N) /\ Cardinality(N) = Cardinality(Ranked)
    BY <1>2, FS_Interval
  <2>2. f \in [Ranked -> N] /\ \A p, q \in Ranked : f[p] = f[q] => p = q
    BY <1>6, <1>8
  <2>3. f \in Injection(Ranked, N) BY <2>2 DEF Injection, IsInjective
  <2>4. f \in Surjection(Ranked, N) BY <2>1, <2>3, FS_Injection
  <2>5. \E p \in Ranked : f[p] = i BY <2>4 DEF Surjection
  <2>6. QED BY <2>5
<1>11. QED BY <1>2, <1>6, <1>8, <1>9, <1>10

(* The entries ZREVRANGE returns. *)
LEMMA TopListRight ==
  ASSUME score \in [Players -> Nat]
  PROVE  /\ TopList \in Seq(Ranked) /\ Len(TopList) \in 0 .. MAX_TOP_ENTRY
         /\ \A i, j \in DOMAIN TopList : TopList[i] = TopList[j] => i = j
         /\ \A p \in Ranked : (\A i \in DOMAIN TopList : TopList[i] # p) =>
              /\ Len(TopList) = MAX_TOP_ENTRY
              /\ \A i \in DOMAIN TopList : score[p] <= score[TopList[i]]
<1> DEFINE all == Cardinality(Ranked)
           n == IF all < MAX_TOP_ENTRY THEN all ELSE MAX_TOP_ENTRY
<1>1. /\ all \in Nat /\ n \in Nat /\ n \in 0 .. MAX_TOP_ENTRY /\ n <= all
      /\ n # MAX_TOP_ENTRY => n = all
  BY Ranks, RankingAssumption
<1>2. TopList = [i \in 1 .. n |-> CHOOSE p \in Ranked : Rank(p) = i]
  BY DEF TopList
<1>3. ASSUME NEW i \in 1 .. n PROVE TopList[i] \in Ranked /\ Rank(TopList[i]) = i
  <2>1. \E p \in Ranked : Rank(p) = i BY <1>1, Ranks
  <2>2. TopList[i] = CHOOSE p \in Ranked : Rank(p) = i BY <1>2
  <2>3. QED BY <2>1, <2>2
<1> HIDE DEF n
<1>4. TopList \in Seq(Ranked) /\ Len(TopList) = n /\ DOMAIN TopList = 1 .. n
  <2>1. TopList \in [1 .. n -> Ranked] BY <1>2, <1>3
  <2>2. QED BY <1>1, <2>1
<1>5. \A i, j \in 1 .. n : TopList[i] = TopList[j] => i = j BY <1>3
<1>6. ASSUME NEW p \in Ranked, \A i \in 1 .. n : TopList[i] # p
      PROVE  n = MAX_TOP_ENTRY /\ \A i \in 1 .. n : score[p] <= score[TopList[i]]
  <2>1. Rank(p) \in 1 .. all BY Ranks
  <2>2. Rank(p) \notin 1 .. n
    <3>1. SUFFICES ASSUME Rank(p) \in 1 .. n PROVE FALSE OBVIOUS
    <3>2. TopList[Rank(p)] \in Ranked /\ Rank(TopList[Rank(p)]) = Rank(p) BY <1>3, <3>1
    <3>3. TopList[Rank(p)] = p BY <3>2, Ranks
    <3>4. QED BY <1>6, <3>1, <3>3
  <2>3. Rank(p) > n /\ n # all BY <1>1, <2>1, <2>2
  <2>4. ASSUME NEW i \in 1 .. n PROVE score[p] <= score[TopList[i]]
    <3>1. TopList[i] \in Ranked /\ Rank(TopList[i]) = i BY <1>3
    <3>2. Rank(TopList[i]) <= Rank(p) BY <1>1, <2>1, <2>3, <3>1
    <3>3. score[TopList[i]] >= score[p] BY <3>1, <3>2, Ranks
    <3>4. score[p] \in Nat /\ score[TopList[i]] \in Nat BY <3>1 DEF Ranked
    <3>5. QED BY <3>3, <3>4
  <2>5. QED BY <1>1, <2>3, <2>4
<1>7. QED BY <1>1, <1>4, <1>5, <1>6

-----------------------------------------------------------------------------
(* The steps.                                                              *)

(* The steps that touch neither the requests, nor the db thread, nor the    *)
(* stores: those of the clients, SetEvent and the results.                  *)
LEMMA QuietStep ==
  ASSUME IInv, UNCHANGED <<reqQ, dbVars, storeVars, made>>
  PROVE  IInv'
<1>1. UNCHANGED <<reqQ, made, pc, useSize, job, answer, db, thrown, killCount, score, lost,
                  lastKillTime>>
  BY DEF dbVars, storeVars
<1>2. Types' BY <1>1 DEF IInv, Types
<1>3. Stages' BY <1>1 DEF IInv, Stages
<1>4. \A p, late : Untold(p, late)' = Untold(p, late) BY <1>1 DEF Untold
<1>5. KillsKept' BY <1>1, <1>4 DEF IInv, KillsKept
<1>6. Asked' BY <1>1 DEF IInv, Asked
<1>7. Ranked' = Ranked /\ \A p : Rank(p)' = Rank(p) BY <1>1 DEF Rank, Ranked, Above
<1>8. TopRight' <=> TopRight BY <1>1, <1>7 DEF TopRight
<1>9. Sorted' <=> Sorted BY <1>1 DEF Sorted
<1>10. Picture' BY <1>1, <1>7, <1>8, <1>9 DEF IInv, Picture
<1>11. QED BY <1>2, <1>3, <1>5, <1>6, <1>10 DEF IInv

(* The db thread goes on with the same stores and the same requests: what is *)
(* left to show is where it is.                                              *)
LEMMA ThreadStep ==
  ASSUME IInv, UNCHANGED <<reqQ, made, killCount, score, lost, lastKillTime>>,
         useSize' \in 0 .. Len(reqQ), db' \in CDBs, Stages',
         \A p : Untold(p, {"clear", "zincrby", "answer"})' = Untold(p, {"clear", "zincrby", "answer"}),
         \A p : Untold(p, {"answer"})' = Untold(p, {"answer"}),
         job'.type = "RankingQuery" => job' = job, Picture'
  PROVE  IInv'
<1>1. Types' BY DEF IInv, Types
<1>2. KillsKept' BY DEF IInv, KillsKept, Stages
<1>3. Asked' BY DEF IInv, Asked
<1>4. QED BY <1>1, <1>2, <1>3 DEF IInv

(* A request. *)
LEMMA RequestStep ==
  ASSUME IInv, NEW type \in JobTypes, NEW p \in Players, Request(type, p),
         made' = IF type = "KillCountUpdate" THEN [made EXCEPT ![p] = @ + 1] ELSE made
  PROVE  IInv'
<1> DEFINE j == Job(type, p)
<1>0. made \in [Players -> Nat] /\ made' \in [Players -> Nat]
  BY DEF IInv, Types
<1>1. /\ j \in Jobs /\ j.type = type /\ j.who = p /\ j.made = made[p]
  BY <1>0 DEF Job, Jobs
<1>2. reqQ' = Append(reqQ, j) BY DEF Request
<1> HIDE DEF j
<1>3. UNCHANGED <<pc, useSize, job, answer, db, thrown, killCount, score, lost, lastKillTime>>
  BY DEF Request, dbVars, storeVars
<1>4. /\ reqQ \in Seq(Jobs) /\ Len(reqQ) \in Nat /\ DOMAIN reqQ = 1 .. Len(reqQ)
      /\ useSize \in 0 .. Len(reqQ)
  BY LenProperties DEF IInv, Types
<1>5. /\ reqQ' \in Seq(Jobs) /\ Len(reqQ') = Len(reqQ) + 1
      /\ DOMAIN reqQ' = 1 .. Len(reqQ) + 1 /\ reqQ'[Len(reqQ) + 1] = j
      /\ \A i \in 1 .. Len(reqQ) : reqQ'[i] = reqQ[i]
  BY <1>1, <1>2, <1>4, AppendProperties, LenProperties
<1>6. Types' BY <1>0, <1>3, <1>4, <1>5 DEF IInv, Types
<1>7. Stages' BY <1>3 DEF IInv, Stages
<1>8. \A q \in Players : \A i \in 0 .. Len(reqQ) :
        /\ Cardinality(KillsAfter(reqQ', q, i)) =
              Cardinality(KillsAfter(reqQ, q, i)) + IF type = "KillCountUpdate" /\ p = q THEN 1 ELSE 0
        /\ Cardinality(KillsAfter(reqQ, q, i)) \in Nat
  BY <1>1, <1>2, <1>4, KillsAppend, KillsFinite
<1>9. \A q \in Players :
        /\ made'[q] = made[q] + IF type = "KillCountUpdate" /\ p = q THEN 1 ELSE 0
        /\ made[q] \in Nat
  BY <1>0
<1>10. KillsKept'
  <2>1. ASSUME NEW q \in Players, NEW late
        PROVE  /\ Untold(q, late) \in Nat
               /\ Untold(q, late)' = Untold(q, late) + IF type = "KillCountUpdate" /\ p = q THEN 1 ELSE 0
    <3>1. 0 \in 0 .. Len(reqQ) BY <1>4
    <3>2. Types BY DEF IInv
    <3>3. Untold(q, late) = Cardinality(KillsAfter(reqQ, q, 0))
             + IF job.type = "KillCountUpdate" /\ job.who = q /\ pc \notin late THEN 1 ELSE 0
      BY <3>2, UntoldKills
    <3>4. Untold(q, late)' = Cardinality(KillsAfter(reqQ', q, 0))
             + IF job.type = "KillCountUpdate" /\ job.who = q /\ pc \notin late THEN 1 ELSE 0
      <4>1. {i \in DOMAIN reqQ' : reqQ'[i].type = "KillCountUpdate" /\ reqQ'[i].who = q}
              = KillsAfter(reqQ', q, 0)
        BY <1>4, <1>5 DEF KillsAfter
      <4>2. QED BY <1>3, <4>1 DEF Untold
    <3>5. QED BY <1>8, <3>1, <3>3, <3>4
  <2>2. ASSUME NEW q \in Players
        PROVE  /\ killCount[q] \in Nat /\ score[q] \in Nat
               /\ lost["MySQL"][q] \in Nat /\ lost["Redis"][q] \in Nat
    BY DEF IInv, Types
  <2>3. ASSUME NEW q \in Players
        PROVE  /\ killCount[q] + lost["MySQL"][q] + Untold(q, {"clear", "zincrby", "answer"})' = made'[q]
               /\ score[q] + lost["Redis"][q] + Untold(q, {"answer"})' = made'[q]
    <3>1. /\ killCount[q] + lost["MySQL"][q] + Untold(q, {"clear", "zincrby", "answer"}) = made[q]
          /\ score[q] + lost["Redis"][q] + Untold(q, {"answer"}) = made[q]
      BY DEF IInv, KillsKept
    <3>2. /\ Untold(q, {"clear", "zincrby", "answer"}) \in Nat
          /\ Untold(q, {"clear", "zincrby", "answer"})' = Untold(q, {"clear", "zincrby", "answer"})
                + IF type = "KillCountUpdate" /\ p = q THEN 1 ELSE 0
          /\ Untold(q, {"answer"}) \in Nat
          /\ Untold(q, {"answer"})' = Untold(q, {"answer"})
                + IF type = "KillCountUpdate" /\ p = q THEN 1 ELSE 0
      BY <2>1
    <3>3. CASE type = "KillCountUpdate" /\ p = q
      <4>1. made'[q] = made[q] + 1 BY <1>9, <3>3
      <4>2. QED BY <2>2, <3>1, <3>2, <3>3, <4>1
    <3>4. CASE ~(type = "KillCountUpdate" /\ p = q)
      <4>1. made'[q] = made[q] BY <1>9, <3>4
      <4>2. QED BY <2>2, <3>1, <3>2, <3>4, <4>1
    <3>5. QED BY <3>3, <3>4
  <2>4. QED BY <1>3, <2>3 DEF IInv, KillsKept, Stages
<1>11. Asked'
  <2>1. ASSUME NEW i \in DOMAIN reqQ', reqQ'[i].type = "RankingQuery"
        PROVE  made'[reqQ'[i].who] = reqQ'[i].made + Cardinality(KillsAfter(reqQ', reqQ'[i].who, i))
    <3>1. CASE i = Len(reqQ) + 1
      <4>1. /\ type = "RankingQuery" /\ reqQ'[i].who = p /\ reqQ'[i].made = made[p]
            /\ made'[p] = made[p] /\ made[p] \in Nat
        BY <1>0, <1>1, <1>5, <2>1, <3>1
      <4>2. KillsAfter(reqQ', p, i) = {} BY <1>4, <1>5, <3>1 DEF KillsAfter
      <4>3. Cardinality(KillsAfter(reqQ', p, i)) = 0 BY <4>2, FS_EmptySet
      <4>4. QED BY <4>1, <4>3
    <3>2. CASE i \in 1 .. Len(reqQ)
      <4>1. /\ reqQ'[i] = reqQ[i] /\ reqQ[i] \in Jobs /\ i \in 0 .. Len(reqQ)
        BY <1>4, <1>5, <3>2, ElementOfSeq
      <4>2. reqQ[i].who \in Players /\ reqQ[i].made \in Nat BY <4>1 DEF Jobs
      <4>3. made[reqQ[i].who] = reqQ[i].made + Cardinality(KillsAfter(reqQ, reqQ[i].who, i))
        BY <1>4, <2>1, <3>2, <4>1 DEF IInv, Asked
      <4>4. QED BY <1>8, <1>9, <4>1, <4>2, <4>3
    <3>3. QED BY <1>4, <1>5, <3>1, <3>2
  <2>2. ASSUME job.type = "RankingQuery"
        PROVE  made'[job.who] = job.made + Cardinality(KillsAfter(reqQ', job.who, 0))
    <3>1. job \in Jobs BY <2>2 DEF IInv, Stages, NoJob
    <3>2. job.who \in Players /\ job.made \in Nat /\ 0 \in 0 .. Len(reqQ) BY <1>4, <3>1 DEF Jobs
    <3>3. made[job.who] = job.made + Cardinality(KillsAfter(reqQ, job.who, 0))
      BY <2>2 DEF IInv, Asked
    <3>4. /\ Cardinality(KillsAfter(reqQ', job.who, 0)) = Cardinality(KillsAfter(reqQ, job.who, 0))
               + IF type = "KillCountUpdate" /\ p = job.who THEN 1 ELSE 0
          /\ Cardinality(KillsAfter(reqQ, job.who, 0)) \in Nat
      BY <1>8, <3>2
    <3>5. made'[job.who] = made[job.who] + IF type = "KillCountUpdate" /\ p = job.who THEN 1 ELSE 0
      BY <1>9, <3>2
    <3>6. QED BY <3>2, <3>3, <3>4, <3>5
  <2>3. QED BY <1>3, <2>1, <2>2 DEF Asked
<1>12. Ranked' = Ranked /\ \A q : Rank(q)' = Rank(q) BY <1>3 DEF Rank, Ranked, Above
<1>13. Picture'
  <2>1. TopRight' <=> TopRight BY <1>3, <1>12 DEF TopRight
  <2>2. Sorted' <=> Sorted BY <1>3 DEF Sorted
  <2>3. QED BY <1>3, <1>12, <2>1, <2>2 DEF IInv, Picture
<1>14. QED BY <1>6, <1>7, <1>10, <1>11, <1>13 DEF IInv

(* The db thread wakes, or goes back to wait. *)
LEMMA WaitStep == ASSUME IInv, Wait PROVE IInv'
<1>1. /\ pc = "wait" /\ pc' = "loop" /\ useSize' = Len(reqQ)
      /\ UNCHANGED <<reqQ, made, job, answer, db, thrown, killCount, score, lost, lastKillTime>>
  BY DEF Wait, storeVars, fieldVars
<1>2. useSize' \in 0 .. Len(reqQ) BY <1>1, LenProperties DEF IInv, Types
<1>3. Stages' BY <1>1 DEF IInv, Stages, Writes, Reads
<1>4. job = NoJob BY <1>1 DEF IInv, Stages
<1>5. \A p, late : Untold(p, late)' = Untold(p, late)
  BY <1>1, <1>4 DEF Untold, NoJob
<1>6. Picture' BY <1>1, <1>4 DEF Picture, NoJob
<1>7. db' \in CDBs BY <1>1 DEF IInv, Types
<1>8. QED BY <1>1, <1>2, <1>3, <1>5, <1>6, <1>7, ThreadStep

(* The db thread takes a job, or has taken as many as it had counted. *)
LEMMA TakeStep == ASSUME IInv, Take PROVE IInv'
<1>1. /\ pc = "loop" /\ job = NoJob
      /\ UNCHANGED <<made, answer, db, thrown, killCount, score, lost, lastKillTime>>
  BY DEF Take, IInv, Stages, storeVars, fieldVars
<1>2. CASE useSize = 0
  <2>1. pc' = "wait" /\ UNCHANGED <<reqQ, useSize, job>> BY <1>2 DEF Take
  <2>2. Stages' BY <1>1, <2>1 DEF IInv, Stages, Writes, Reads
  <2>3. \A p, late : Untold(p, late)' = Untold(p, late)
    BY <1>1, <2>1 DEF Untold, NoJob
  <2>4. Picture' BY <1>1, <2>1 DEF Picture, NoJob
  <2>5. useSize' \in 0 .. Len(reqQ) /\ db' \in CDBs BY <1>1, <2>1 DEF IInv, Types
  <2>6. QED BY <1>1, <2>1, <2>2, <2>3, <2>4, <2>5, ThreadStep
<1>3. CASE useSize # 0
  <2>1. /\ job' = Head(reqQ) /\ reqQ' = Tail(reqQ) /\ useSize' = useSize - 1
        /\ pc' = IF job'.type = "RankingQuery" THEN "zrevrange" ELSE "execute"
    BY <1>3 DEF Take
  <2>2. /\ reqQ \in Seq(Jobs) /\ Len(reqQ) \in Nat /\ useSize \in 0 .. Len(reqQ)
        /\ reqQ # <<>> /\ DOMAIN reqQ = 1 .. Len(reqQ) /\ 1 \in DOMAIN reqQ
        /\ Head(reqQ) = reqQ[1]
    BY <1>3, LenProperties, EmptySeq DEF IInv, Types
  <2>3. /\ Head(reqQ) \in Jobs /\ reqQ' \in Seq(Jobs) /\ Len(reqQ') = Len(reqQ) - 1
        /\ DOMAIN reqQ' = 1 .. Len(reqQ) - 1
        /\ \A i \in 1 .. Len(reqQ) - 1 : reqQ'[i] = reqQ[i + 1]
    BY <2>1, <2>2, HeadTailProperties, LenProperties
  <2>4. Types'
    <3>1. useSize' \in 0 .. Len(reqQ') BY <1>3, <2>1, <2>2, <2>3
    <3>2. QED BY <1>1, <2>3, <3>1 DEF IInv, Types
  <2>5. Stages'
    BY <1>1, <2>1, <2>3 DEF IInv, Stages, Writes, Reads, Jobs, JobTypes
  <2>6. \A q : \A i \in Nat :
          /\ Cardinality(KillsAfter(reqQ', q, i)) = Cardinality(KillsAfter(reqQ, q, i + 1))
          /\ Cardinality(KillsAfter(reqQ, q, i)) \in Nat
    BY <2>1, <2>2, KillsTail, KillsFinite
  <2>7. KillsKept'
    <3>1. ASSUME NEW q, NEW late \in SUBSET {"clear", "zincrby", "answer"}
          PROVE  Untold(q, late)' = Untold(q, late)
      <4>1. Untold(q, late) = Cardinality(KillsAfter(reqQ, q, 0))
        <5>1. Untold(q, late) = Cardinality(KillsAfter(reqQ, q, 0))
             + IF job.type = "KillCountUpdate" /\ job.who = q /\ pc \notin late THEN 1 ELSE 0
          BY UntoldKills DEF IInv
        <5>2. job.type # "KillCountUpdate" BY <1>1 DEF NoJob
        <5>3. Cardinality(KillsAfter(reqQ, q, 0)) \in Nat BY <2>6
        <5>4. QED BY <5>1, <5>2, <5>3
      <4>2. {i \in DOMAIN reqQ' : reqQ'[i].type = "KillCountUpdate" /\ reqQ'[i].who = q}
              = KillsAfter(reqQ', q, 0)
        BY <2>2, <2>3 DEF KillsAfter
      <4>3. pc' \notin late BY <2>1
      <4>4. Untold(q, late)' = Cardinality(KillsAfter(reqQ', q, 0))
             + IF job'.type = "KillCountUpdate" /\ job'.who = q THEN 1 ELSE 0
        BY <4>2, <4>3 DEF Untold
      <4>5. Cardinality(KillsAfter(reqQ', q, 0)) = Cardinality(KillsAfter(reqQ, q, 1))
        <5>1. 0 \in Nat /\ 0 + 1 = 1 OBVIOUS
        <5>2. QED BY <2>6, <5>1
      <4>6. Cardinality(KillsAfter(reqQ, q, 0)) = Cardinality(KillsAfter(reqQ, q, 1))
             + IF Head(reqQ).type = "KillCountUpdate" /\ Head(reqQ).who = q THEN 1 ELSE 0
        BY <2>2, KillsHead
      <4>7. QED BY <2>1, <4>1, <4>4, <4>5, <4>6
    <3>2. \A q : /\ Untold(q, {"clear", "zincrby", "answer"})' = Untold(q, {"clear", "zincrby", "answer"})
                 /\ Untold(q, {"answer"})' = Untold(q, {"answer"})
      BY <3>1
    <3>3. QED BY <1>1, <3>2 DEF IInv, KillsKept
  <2>8. Asked'
    <3>1. ASSUME NEW i \in DOMAIN reqQ', reqQ'[i].type = "RankingQuery"
          PROVE  made[reqQ'[i].who] = reqQ'[i].made + Cardinality(KillsAfter(reqQ', reqQ'[i].who, i))
      <4>1. i \in Nat /\ i + 1 \in DOMAIN reqQ /\ reqQ'[i] = reqQ[i + 1] BY <2>2, <2>3
      <4>2. made[reqQ[i + 1].who] = reqQ[i + 1].made + Cardinality(KillsAfter(reqQ, reqQ[i + 1].who, i + 1))
        BY <3>1, <4>1 DEF IInv, Asked
      <4>3. Cardinality(KillsAfter(reqQ', reqQ'[i].who, i)) = Cardinality(KillsAfter(reqQ, reqQ'[i].who, i + 1))
        BY <2>6, <4>1
      <4>4. QED BY <4>1, <4>2, <4>3
    <3>2. ASSUME job'.type = "RankingQuery"
          PROVE  made[job'.who] = job'.made + Cardinality(KillsAfter(reqQ', job'.who, 0))
      <4>1. job' = reqQ[1] BY <2>1, <2>2
      <4>2. made[reqQ[1].who] = reqQ[1].made + Cardinality(KillsAfter(reqQ, reqQ[1].who, 1))
        BY <2>2, <3>2, <4>1 DEF IInv, Asked
      <4>3. 0 \in Nat /\ 0 + 1 = 1 OBVIOUS
      <4>4. Cardinality(KillsAfter(reqQ', reqQ[1].who, 0)) = Cardinality(KillsAfter(reqQ, reqQ[1].who, 1))
        BY <2>6, <4>3
      <4>5. QED BY <4>1, <4>2, <4>4
    <3>3. QED BY <1>1, <3>1, <3>2 DEF Asked
  <2>9. Picture' BY <2>1 DEF Picture
  <2>10. QED BY <2>4, <2>5, <2>7, <2>8, <2>9 DEF IInv
<1>4. QED BY <1>2, <1>3

(* What is counted or refused of the kill the db thread is at, is no longer  *)
(* to be told; of all others nothing changes.                                *)
LEMMA UntoldStep ==
  ASSUME IInv, UNCHANGED <<reqQ, job>>, NEW p, NEW late
  PROVE  /\ Untold(p, late) \in Nat
         /\ Untold(p, late)' = Untold(p, late)
              + (IF job.type = "KillCountUpdate" /\ job.who = p /\ pc' \notin late THEN 1 ELSE 0)
              - (IF job.type = "KillCountUpdate" /\ job.who = p /\ pc \notin late THEN 1 ELSE 0)
<1> DEFINE n == Cardinality({i \in DOMAIN reqQ : reqQ[i].type = "KillCountUpdate" /\ reqQ[i].who = p})
<1>1. n \in Nat
  <2>1. reqQ \in Seq(Jobs) /\ DOMAIN reqQ = 1 .. Len(reqQ) /\ Len(reqQ) \in Nat
    BY LenProperties DEF IInv, Types
  <2>2. {i \in DOMAIN reqQ : reqQ[i].type = "KillCountUpdate" /\ reqQ[i].who = p}
          = KillsAfter(reqQ, p, 0)
    BY <2>1 DEF KillsAfter
  <2>3. QED BY <2>1, <2>2, KillsFinite
<1>2. Untold(p, late) =
        n + IF job.type = "KillCountUpdate" /\ job.who = p /\ pc \notin late THEN 1 ELSE 0
  BY DEF Untold
<1>3. Untold(p, late)' =
        n + IF job.type = "KillCountUpdate" /\ job.who = p /\ pc' \notin late THEN 1 ELSE 0
  BY DEF Untold
<1> HIDE DEF n
<1>4. QED BY <1>1, <1>2, <1>3

(* The UPDATE works, or its failure is the one that must be cleared. *)
LEMMA UpdateStep == ASSUME IInv, Update PROVE IInv'
<1>1. /\ pc = "execute" /\ db \in CDBs /\ db.mBFailed = FALSE /\ job \in Jobs
      /\ job.type \in {"PositionSave", "KillCountUpdate"} /\ job.who \in Players
  BY DEF Update, IInv, Stages, Writes, Reads, Types, CDBs, Jobs, JobTypes
<1>2. /\ UNCHANGED <<reqQ, useSize, job, answer, made, score, lastKillTime>>
      /\ thrown' = FALSE
  BY <1>1 DEF Update, throwIfFailed, fieldVars
<1>3. PICK bSuccess \in BOOLEAN :
        /\ db' = Execute(db, bSuccess)
        /\ pc' = IF ~bSuccess THEN "clear" ELSE IF job.type = "PositionSave" THEN "answer" ELSE "zincrby"
        /\ killCount' = [killCount EXCEPT ![job.who] =
                           IF bSuccess /\ job.type = "KillCountUpdate" THEN @ + 1 ELSE @]
        /\ lost' = [lost EXCEPT !["MySQL"][job.who] =
                      IF ~bSuccess /\ job.type = "KillCountUpdate" THEN @ + 1 ELSE @]
  BY DEF Update
<1>4. /\ killCount \in [Players -> Nat] /\ score \in [Players -> Nat] /\ made \in [Players -> Nat]
      /\ lost \in [{"MySQL", "Redis"} -> [Players -> Nat]]
  BY DEF IInv, Types
<1>5. /\ db' \in CDBs
      /\ db'.mBFailed <=> ~bSuccess
  BY <1>1, <1>3 DEF Execute, fail, CDBs
<1>6. /\ killCount' \in [Players -> Nat] /\ lost' \in [{"MySQL", "Redis"} -> [Players -> Nat]]
      /\ lost'["Redis"] = lost["Redis"]
      /\ \A p \in Players \ {job.who} :
           killCount'[p] = killCount[p] /\ lost'["MySQL"][p] = lost["MySQL"][p]
      /\ killCount'[job.who] =
           IF bSuccess /\ job.type = "KillCountUpdate" THEN killCount[job.who] + 1 ELSE killCount[job.who]
      /\ lost'["MySQL"][job.who] =
           IF ~bSuccess /\ job.type = "KillCountUpdate" THEN lost["MySQL"][job.who] + 1
                                                      ELSE lost["MySQL"][job.who]
  BY <1>1, <1>3, <1>4
<1>7. Types' BY <1>2, <1>4, <1>5, <1>6 DEF IInv, Types
<1>8. Stages' BY <1>1, <1>2, <1>3, <1>5 DEF IInv, Stages, Writes, Reads
<1>9. KillsKept'
  <2>1. ASSUME NEW p \in Players
        PROVE  /\ killCount'[p] + lost'["MySQL"][p] + Untold(p, {"clear", "zincrby", "answer"})' = made'[p]
               /\ score'[p] + lost'["Redis"][p] + Untold(p, {"answer"})' = made'[p]
    <3>1. /\ killCount[p] + lost["MySQL"][p] + Untold(p, {"clear", "zincrby", "answer"}) = made[p]
          /\ score[p] + lost["Redis"][p] + Untold(p, {"answer"}) = made[p]
      BY DEF IInv, KillsKept
    <3>2. /\ killCount[p] \in Nat /\ lost["MySQL"][p] \in Nat
          /\ Untold(p, {"clear", "zincrby", "answer"}) \in Nat /\ Untold(p, {"answer"}) \in Nat
      BY <1>2, <1>4, UntoldStep
    <3>3. Untold(p, {"answer"})' = Untold(p, {"answer"})
      <4>1. Untold(p, {"answer"})' = Untold(p, {"answer"})
              + (IF job.type = "KillCountUpdate" /\ job.who = p /\ pc' \notin {"answer"} THEN 1 ELSE 0)
              - (IF job.type = "KillCountUpdate" /\ job.who = p /\ pc \notin {"answer"} THEN 1 ELSE 0)
        BY <1>2, UntoldStep
      <4>2. job.type = "KillCountUpdate" => pc' \notin {"answer"} /\ pc \notin {"answer"}
        BY <1>1, <1>3
      <4>3. QED BY <3>2, <4>1, <4>2
    <3>4. Untold(p, {"clear", "zincrby", "answer"})' = Untold(p, {"clear", "zincrby", "answer"})
              - IF job.type = "KillCountUpdate" /\ job.who = p THEN 1 ELSE 0
      <4>1. Untold(p, {"clear", "zincrby", "answer"})' = Untold(p, {"clear", "zincrby", "answer"})
              + (IF job.type = "KillCountUpdate" /\ job.who = p /\ pc' \notin {"clear", "zincrby", "answer"} THEN 1 ELSE 0)
              - (IF job.type = "KillCountUpdate" /\ job.who = p /\ pc \notin {"clear", "zincrby", "answer"} THEN 1 ELSE 0)
        BY <1>2, UntoldStep
      <4>2. pc' \in {"clear", "zincrby", "answer"} /\ pc \notin {"clear", "zincrby", "answer"}
        BY <1>1, <1>3
      <4>3. QED BY <3>2, <4>1, <4>2
    <3>5. killCount'[p] + lost'["MySQL"][p] = killCount[p] + lost["MySQL"][p]
              + IF job.type = "KillCountUpdate" /\ job.who = p THEN 1 ELSE 0
      <4>1. CASE p = job.who BY <1>6, <3>2, <4>1
      <4>2. CASE p # job.who BY <1>6, <3>2, <4>2
      <4>3. QED BY <4>1, <4>2
    <3>6. killCount'[p] \in Nat /\ lost'["MySQL"][p] \in Nat BY <1>6
    <3>7. QED BY <1>2, <1>6, <3>1, <3>2, <3>3, <3>4, <3>5, <3>6
  <2>2. QED BY <1>2, <2>1 DEF KillsKept
<1>10. Asked' BY <1>2 DEF IInv, Asked
<1>11. Picture' BY <1>1, <1>2 DEF Picture
<1>12. QED BY <1>7, <1>8, <1>9, <1>10, <1>11 DEF IInv

(* The failure is cleared; a kill goes on to Redis. *)
LEMMA ClearStep == ASSUME IInv, Clear PROVE IInv'
<1>1. /\ pc = "clear" /\ db \in CDBs /\ job \in Jobs
      /\ job.type \in {"PositionSave", "KillCountUpdate"}
  BY DEF Clear, IInv, Stages, Writes, Reads, Types, Jobs, JobTypes
<1>2. /\ UNCHANGED <<reqQ, useSize, job, answer, made, thrown, killCount, score, lost, lastKillTime>>
      /\ db' = ClearError(db)
      /\ pc' = IF job.type = "KillCountUpdate" THEN "zincrby" ELSE "answer"
  BY DEF Clear, fieldVars, storeVars
<1>3. db' \in CDBs /\ ~db'.mBFailed BY <1>1, <1>2 DEF ClearError, CDBs
<1>4. Stages' BY <1>1, <1>2, <1>3 DEF IInv, Stages, Writes, Reads
<1>5. /\ \A p : Untold(p, {"clear", "zincrby", "answer"})' = Untold(p, {"clear", "zincrby", "answer"})
      /\ \A p : Untold(p, {"answer"})' = Untold(p, {"answer"})
  BY <1>1, <1>2 DEF Untold
<1>6. Picture' BY <1>1, <1>2 DEF Picture
<1>7. useSize' \in 0 .. Len(reqQ) BY <1>2 DEF IInv, Types
<1>8. QED BY <1>2, <1>3, <1>4, <1>5, <1>6, <1>7, ThreadStep

(* Redis counts the kill, or refuses it. *)
LEMMA ZincrbyStep == ASSUME IInv, Zincrby PROVE IInv'
<1>1. /\ pc = "zincrby" /\ pc' = "answer" /\ job \in Jobs
      /\ job.type = "KillCountUpdate" /\ job.who \in Players
  BY DEF Zincrby, IInv, Stages, Writes, Reads, Jobs
<1>2. UNCHANGED <<reqQ, useSize, job, answer, made, db, thrown, killCount>>
  BY DEF Zincrby, fieldVars
<1>3. /\ killCount \in [Players -> Nat] /\ score \in [Players -> Nat] /\ made \in [Players -> Nat]
      /\ lost \in [{"MySQL", "Redis"} -> [Players -> Nat]]
  BY DEF IInv, Types
<1>4. /\ score' \in [Players -> Nat] /\ lost' \in [{"MySQL", "Redis"} -> [Players -> Nat]]
      /\ lost'["MySQL"] = lost["MySQL"]
      /\ \A p \in Players \ {job.who} : score'[p] = score[p] /\ lost'["Redis"][p] = lost["Redis"][p]
      /\ score'[job.who] + lost'["Redis"][job.who] = score[job.who] + lost["Redis"][job.who] + 1
  <2>1. CASE score' = [score EXCEPT ![job.who] = @ + 1] /\ lost' = lost
    BY <1>1, <1>3, <2>1
  <2>2. CASE lost' = [lost EXCEPT !["Redis"][job.who] = @ + 1] /\ score' = score
    BY <1>1, <1>3, <2>2
  <2>3. QED BY <2>1, <2>2 DEF Zincrby
<1>5. Types' BY <1>2, <1>4 DEF IInv, Types
<1>6. Stages' BY <1>1, <1>2 DEF IInv, Stages, Writes, Reads
<1>7. KillsKept'
  <2>1. ASSUME NEW p \in Players
        PROVE  /\ killCount'[p] + lost'["MySQL"][p] + Untold(p, {"clear", "zincrby", "answer"})' = made'[p]
               /\ score'[p] + lost'["Redis"][p] + Untold(p, {"answer"})' = made'[p]
    <3>1. /\ killCount[p] + lost["MySQL"][p] + Untold(p, {"clear", "zincrby", "answer"}) = made[p]
          /\ score[p] + lost["Redis"][p] + Untold(p, {"answer"}) = made[p]
      BY DEF IInv, KillsKept
    <3>2. Untold(p, {"answer"}) \in Nat BY <1>2, UntoldStep
    <3>3. Untold(p, {"clear", "zincrby", "answer"})' = Untold(p, {"clear", "zincrby", "answer"})
      BY <1>1, <1>2 DEF Untold
    <3>4. Untold(p, {"answer"})' = Untold(p, {"answer"}) - IF job.who = p THEN 1 ELSE 0
      <4>1. Untold(p, {"answer"})' = Untold(p, {"answer"})
              + (IF job.type = "KillCountUpdate" /\ job.who = p /\ pc' \notin {"answer"} THEN 1 ELSE 0)
              - (IF job.type = "KillCountUpdate" /\ job.who = p /\ pc \notin {"answer"} THEN 1 ELSE 0)
        BY <1>2, UntoldStep
      <4>2. QED BY <1>1, <3>2, <4>1
    <3>5. /\ score[p] \in Nat /\ lost["Redis"][p] \in Nat
          /\ score'[p] \in Nat /\ lost'["Redis"][p] \in Nat
      BY <1>3, <1>4
    <3>6. CASE p = job.who BY <1>2, <1>4, <3>1, <3>2, <3>3, <3>4, <3>5, <3>6
    <3>7. CASE p # job.who BY <1>2, <1>4, <3>1, <3>2, <3>3, <3>4, <3>5, <3>7
    <3>8. QED BY <3>6, <3>7
  <2>2. QED BY <1>2, <2>1 DEF IInv, KillsKept
<1>8. Asked' BY <1>2 DEF IInv, Asked
<1>9. Picture' BY <1>1, <1>2 DEF Picture
<1>10. QED BY <1>5, <1>6, <1>7, <1>8, <1>9 DEF IInv

(* The job is answered. *)
LEMMA AnswerStep == ASSUME IInv, Answer PROVE IInv'
<1>1. /\ pc = "answer" /\ pc' = "loop" /\ job' = NoJob /\ answer' = NoAnswer
      /\ UNCHANGED <<reqQ, useSize, made, db, thrown, killCount, score, lost, lastKillTime>>
  BY DEF Answer, fieldVars, storeVars
<1>2. Stages' BY <1>1 DEF IInv, Stages, Writes, Reads, NoAnswer
<1>3. /\ \A p : Untold(p, {"clear", "zincrby", "answer"})' = Untold(p, {"clear", "zincrby", "answer"})
      /\ \A p : Untold(p, {"answer"})' = Untold(p, {"answer"})
  BY <1>1 DEF Untold, NoJob
<1>4. Picture' BY <1>1 DEF Picture, NoJob
<1>5. useSize' \in 0 .. Len(reqQ) /\ db' \in CDBs BY <1>1 DEF IInv, Types
<1>6. job'.type # "RankingQuery" BY <1>1 DEF NoJob
<1>7. QED BY <1>1, <1>2, <1>3, <1>4, <1>5, <1>6, ThreadStep

(* One of the reads of a ranking: the stores and the requests are as they     *)
(* were, so that what is to show is that the answer is right so far.          *)
LEMMA ReadStep ==
  ASSUME IInv, NEW now \in Reads, NEW next \in Reads \cup {"answer"}, NEW read,
         Read(now, next, read), DOMAIN read = {"top", "rank", "count"}, Picture'
  PROVE  IInv'
<1>1. /\ pc = now /\ pc' = next /\ answer' = read
      /\ UNCHANGED <<reqQ, useSize, job, made, db, thrown, killCount, score, lost, lastKillTime>>
  BY DEF Read, fieldVars, storeVars
<1>2. job.type = "RankingQuery" /\ job \in Jobs BY <1>1 DEF IInv, Stages
<1>3. Stages'
  BY <1>1, <1>2 DEF IInv, Stages, Writes, Reads
<1>4. \A p, late : Untold(p, late)' = Untold(p, late) BY <1>1, <1>2 DEF Untold
<1>5. useSize' \in 0 .. Len(reqQ) /\ db' \in CDBs BY <1>1 DEF IInv, Types
<1>6. QED BY <1>1, <1>3, <1>4, <1>5, ThreadStep

(* The stores are as they were. *)
LEMMA SameRanks ==
  ASSUME UNCHANGED score
  PROVE  Ranked' = Ranked /\ \A p : Rank(p)' = Rank(p)
BY DEF Rank, Ranked, Above

(* The entries. *)
LEMMA ZRevRangeStep == ASSUME IInv, ZRevRange PROVE IInv'
<1> DEFINE read == [answer EXCEPT !.top = [i \in DOMAIN TopList |->
                      [nickname |-> TopList[i], killCount |-> score[TopList[i]]]]]
<1>1. Read("zrevrange", "zrevrank", read) BY DEF ZRevRange
<1>2. /\ pc' = "zrevrank" /\ answer' = read /\ UNCHANGED <<job, score, lastKillTime>>
  BY <1>1 DEF Read, storeVars
<1>3. DOMAIN read = {"top", "rank", "count"} BY DEF IInv, Stages
<1>4. answer'.top = [i \in DOMAIN TopList |->
                      [nickname |-> TopList[i], killCount |-> score[TopList[i]]]]
  BY <1>2 DEF IInv, Stages
<1>5. /\ TopList \in Seq(Ranked)
      /\ \A i, j \in DOMAIN TopList : TopList[i] = TopList[j] => i = j
      /\ \A p \in Ranked : (\A i \in DOMAIN TopList : TopList[i] # p) =>
           /\ Len(TopList) = MAX_TOP_ENTRY
           /\ \A i \in DOMAIN TopList : score[p] <= score[TopList[i]]
  BY TopListRight DEF IInv, Types
<1>6. /\ DOMAIN TopList = 1 .. Len(TopList) /\ Len(TopList) \in Nat
      /\ \A i \in DOMAIN TopList : TopList[i] \in Ranked
  BY <1>5, LenProperties, ElementOfSeq
<1>7. /\ DOMAIN answer'.top = 1 .. Len(TopList) /\ Len(answer'.top) = Len(TopList)
      /\ \A i \in DOMAIN TopList : /\ answer'.top[i].nickname = TopList[i]
                                   /\ answer'.top[i].killCount = score[TopList[i]]
  BY <1>4, <1>6
<1>8. TopRight'
  <2> DEFINE top == answer'.top
  <2>1. Ranked' = Ranked /\ score' = score BY <1>2, SameRanks
  <2>2. DOMAIN top = 1 .. Len(top) /\ Len(top) \in Nat BY <1>6, <1>7
  <2>3. \A i \in DOMAIN top : top[i].nickname \in Ranked /\ top[i].killCount = score[top[i].nickname]
    BY <1>6, <1>7
  <2>4. \A i, j \in DOMAIN top : top[i].nickname = top[j].nickname => i = j
    BY <1>5, <1>6, <1>7
  <2>5. ASSUME NEW p \in Ranked, \A i \in DOMAIN top : top[i].nickname # p
        PROVE  Len(top) = MAX_TOP_ENTRY /\ \A i \in DOMAIN top : score[p] <= top[i].killCount
    <3>1. \A i \in DOMAIN TopList : TopList[i] # p BY <1>6, <1>7, <2>5
    <3>2. QED BY <1>5, <1>6, <1>7, <3>1
  <2> HIDE DEF read
  <2>6. QED BY <2>1, <2>2, <2>3, <2>4, <2>5 DEF TopRight
<1>9. Picture' BY <1>2, <1>8 DEF Picture
<1>10. QED
  <2> HIDE DEF read
  <2> QED BY <1>1, <1>3, <1>9, ReadStep DEF Reads

(* The rank of the player that asks. *)
LEMMA ZRevRankStep == ASSUME IInv, ZRevRank PROVE IInv'
<1> DEFINE read == [answer EXCEPT !.rank = IF score[job.who] = 0 THEN -1 ELSE Rank(job.who)]
<1>1. Read("zrevrank", "zscore", read) BY DEF ZRevRank
<1>2. /\ pc = "zrevrank" /\ pc' = "zscore" /\ answer' = read
      /\ UNCHANGED <<job, score, lastKillTime>>
  BY <1>1 DEF Read, storeVars
<1>3. DOMAIN read = {"top", "rank", "count"} BY DEF IInv, Stages
<1>4. /\ answer'.top = answer.top
      /\ answer'.rank = IF score[job.who] = 0 THEN -1 ELSE Rank(job.who)
  BY <1>2 DEF IInv, Stages
<1>5. job.type = "RankingQuery" => TopRight BY <1>2 DEF IInv, Picture
<1>6. TopRight' <=> TopRight BY <1>2, <1>4, SameRanks DEF TopRight
<1>7. Picture' BY <1>2, <1>4, <1>5, <1>6, SameRanks DEF Picture
<1>8. QED
  <2> HIDE DEF read
  <2> QED BY <1>1, <1>3, <1>7, ReadStep DEF Reads

(* Its kills. *)
LEMMA ZScoreStep == ASSUME IInv, ZScore PROVE IInv'
<1> DEFINE read == [answer EXCEPT !.count = score[job.who]]
<1>1. Read("zscore", "sort", read) BY DEF ZScore
<1>2. /\ pc = "zscore" /\ pc' = "sort" /\ answer' = read
      /\ UNCHANGED <<job, score, lastKillTime>>
  BY <1>1 DEF Read, storeVars
<1>3. DOMAIN read = {"top", "rank", "count"} BY DEF IInv, Stages
<1>4. /\ answer'.top = answer.top /\ answer'.rank = answer.rank
      /\ answer'.count = score[job.who]
  BY <1>2 DEF IInv, Stages
<1>5. job.type = "RankingQuery" =>
        TopRight /\ answer.rank = IF score[job.who] = 0 THEN -1 ELSE Rank(job.who)
  BY <1>2 DEF IInv, Picture
<1>6. TopRight' <=> TopRight BY <1>2, <1>4, SameRanks DEF TopRight
<1>7. Picture' BY <1>2, <1>4, <1>5, <1>6, SameRanks DEF Picture
<1>8. QED
  <2> HIDE DEF read
  <2> QED BY <1>1, <1>3, <1>7, ReadStep DEF Reads

(* An order of the entries of a ranking is made of the same entries. *)
LEMMA Reordered ==
  ASSUME TopRight, NEW s \in SetToSeqs(ToSet(answer.top))
  PROVE  /\ DOMAIN s = DOMAIN answer.top /\ Len(s) = Len(answer.top)
         /\ \A i \in DOMAIN s : \E j \in DOMAIN answer.top : s[i] = answer.top[j]
         /\ \A j \in DOMAIN answer.top : \E i \in DOMAIN s : s[i] = answer.top[j]
         /\ \A i, j \in DOMAIN s : s[i] = s[j] => i = j
<1> DEFINE top == answer.top
           n == Len(top)
           S == ToSet(top)
<1>1. DOMAIN top = 1 .. n /\ \A i, j \in 1 .. n : top[i] = top[j] => i = j
  BY DEF TopRight
<1>2. S = {top[i] : i \in 1 .. n} BY <1>1 DEF ToSet
<1>3. n \in Nat BY DEF TopRight
<1> HIDE DEF n, S
<1>4. Cardinality(S) = n /\ IsFiniteSet(S)
  <2> DEFINE f == [i \in 1 .. n |-> top[i]]
  <2>1. f \in [1 .. n -> S] BY <1>2
  <2>2. \A i, j \in 1 .. n : f[i] = f[j] => i = j BY <1>1
  <2>3. \A e \in S : \E i \in 1 .. n : f[i] = e BY <1>2
  <2>4. f \in Bijection(1 .. n, S)
    BY <2>1, <2>2, <2>3 DEF Bijection, Injection, Surjection, IsInjective
  <2>5. ExistsBijection(1 .. n, S) BY <2>4 DEF ExistsBijection
  <2>6. IsFiniteSet(1 .. n) BY <1>3, FS_Interval
  <2>7. QED BY <1>3, <2>5, <2>6, FS_CountingElements, FS_Bijection
<1>5. s \in [1 .. n -> S] /\ \A i, j \in 1 .. n : i # j => s[i] # s[j]
  BY <1>4 DEF SetToSeqs, S
<1>6. DOMAIN s = 1 .. n /\ Len(s) = n
  <2>1. s \in Seq(S) BY <1>3, <1>5
  <2>2. QED BY <1>3, <1>5, <2>1, LenProperties
<1>7. s \in Surjection(1 .. n, S)
  <2>1. s \in Injection(1 .. n, S) BY <1>5 DEF Injection, IsInjective
  <2>2. Cardinality(1 .. n) = n BY <1>3, FS_Interval
  <2>3. QED BY <1>4, <2>1, <2>2, FS_Injection
<1>8. \A i \in 1 .. n : \E j \in 1 .. n : s[i] = top[j] BY <1>2, <1>5
<1>9. \A j \in 1 .. n : \E i \in 1 .. n : s[i] = top[j]
  BY <1>2, <1>7 DEF Surjection
<1>10. QED BY <1>1, <1>5, <1>6, <1>8, <1>9 DEF n

(* The entries of equal score change places. *)
LEMMA SortTiesStep == ASSUME IInv, SortTies PROVE IInv'
<1>1. PICK s \in SortedByTime(answer.top) : Read("sort", "answer", [answer EXCEPT !.top = s])
  BY DEF SortTies
<1> DEFINE read == [answer EXCEPT !.top = s]
<1>2. /\ pc = "sort" /\ pc' = "answer" /\ answer' = read
      /\ UNCHANGED <<job, score, lastKillTime>>
  BY <1>1 DEF Read, storeVars
<1>3. DOMAIN read = {"top", "rank", "count"} BY DEF IInv, Stages
<1>4. answer'.top = s /\ answer'.rank = answer.rank /\ answer'.count = answer.count
  BY <1>2 DEF IInv, Stages
<1>5. /\ job.type = "RankingQuery" /\ TopRight
      /\ answer.rank = IF score[job.who] = 0 THEN -1 ELSE Rank(job.who)
      /\ answer.count = score[job.who]
  BY <1>2 DEF IInv, Picture, Stages, Reads
<1>6. /\ s \in SetToSeqs(ToSet(answer.top))
      /\ \A i \in DOMAIN s : \A j \in 1 .. i - 1 :
           \/ s[j].killCount > s[i].killCount
           \/ /\ s[j].killCount = s[i].killCount
              /\ lastKillTime[s[j].nickname] <= lastKillTime[s[i].nickname]
  BY DEF SortedByTime
<1>7. Len(answer.top) \in Nat BY <1>5 DEF TopRight
<1>8. /\ DOMAIN s = DOMAIN answer.top /\ Len(s) = Len(answer.top)
      /\ \A i \in DOMAIN s : \E j \in DOMAIN answer.top : s[i] = answer.top[j]
      /\ \A j \in DOMAIN answer.top : \E i \in DOMAIN s : s[i] = answer.top[j]
      /\ \A i, j \in DOMAIN s : s[i] = s[j] => i = j
  BY <1>5, <1>6, Reordered
<1>9. TopRight'
  <2>1. DOMAIN s = 1 .. Len(s) /\ Len(s) \in Nat BY <1>5, <1>8 DEF TopRight
  <2>2. \A i \in DOMAIN s : s[i].nickname \in Ranked /\ s[i].killCount = score[s[i].nickname]
    <3>1. \A k \in DOMAIN answer.top :
            /\ answer.top[k].nickname \in Ranked
            /\ answer.top[k].killCount = score[answer.top[k].nickname]
      BY <1>5 DEF TopRight
    <3>2. SUFFICES ASSUME NEW i \in DOMAIN s
                   PROVE  s[i].nickname \in Ranked /\ s[i].killCount = score[s[i].nickname]
      OBVIOUS
    <3>3. PICK k \in DOMAIN answer.top : s[i] = answer.top[k] BY <1>8
    <3>4. QED BY <3>1, <3>3
  <2>3. ASSUME NEW i \in DOMAIN s, NEW j \in DOMAIN s, s[i].nickname = s[j].nickname PROVE i = j
    <3>1. PICK k \in DOMAIN answer.top : s[i] = answer.top[k] BY <1>8
    <3>2. PICK l \in DOMAIN answer.top : s[j] = answer.top[l] BY <1>8
    <3>3. k = l BY <1>5, <2>3, <3>1, <3>2 DEF TopRight
    <3>4. QED BY <1>8, <3>1, <3>2, <3>3
  <2>4. ASSUME NEW p \in Ranked, \A i \in DOMAIN s : s[i].nickname # p
        PROVE  Len(s) = MAX_TOP_ENTRY /\ \A i \in DOMAIN s : score[p] <= s[i].killCount
    <3>1. \A k \in DOMAIN answer.top : answer.top[k].nickname # p BY <1>8, <2>4
    <3>2. /\ Len(answer.top) = MAX_TOP_ENTRY
          /\ \A k \in DOMAIN answer.top : score[p] <= answer.top[k].killCount
      BY <1>5, <3>1 DEF TopRight
    <3>3. QED BY <1>8, <3>2
  <2>5. QED BY <1>2, <1>4, <2>1, <2>2, <2>3, <2>4, SameRanks DEF TopRight
<1>10. Sorted'
  <2>1. DOMAIN s = 1 .. Len(answer.top) BY <1>5, <1>8 DEF TopRight
  <2>2. \A i, j \in DOMAIN s : j < i => j \in 1 .. i - 1 BY <1>7, <2>1
  <2>3. QED BY <1>2, <1>4, <1>6, <2>2 DEF Sorted
<1>11. Picture' BY <1>2, <1>4, <1>5, <1>9, <1>10, SameRanks DEF Picture
<1>12. QED
  <2>1. Read("sort", "answer", read) BY <1>1
  <2> HIDE DEF read
  <2>2. QED BY <2>1, <1>3, <1>11, ReadStep DEF Reads

-----------------------------------------------------------------------------
(* The theorems.                                                           *)

(* No kill has been made and none is counted. *)
LEMMA InitStep == ASSUME Init PROVE IInv
<1>1. /\ reqQ = <<>> /\ useSize = 0 /\ pc = "wait" /\ job = NoJob /\ answer = NoAnswer
      /\ db = Connect(NewCDB, TRUE) /\ thrown = FALSE
      /\ killCount = None /\ score = None /\ made = None
      /\ lost = [store \in {"MySQL", "Redis"} |-> None]
  BY DEF Init
<1>2. None \in [Players -> Nat] /\ \A p \in Players : None[p] = 0 BY DEF None
<1>3. db \in CDBs /\ db.mBFailed = FALSE
  BY <1>1 DEF Connect, NewCDB, CDBs
<1>4. reqQ \in Seq(Jobs) /\ Len(reqQ) = 0 BY <1>1
<1>5. Types
  <2>1. useSize \in 0 .. Len(reqQ) BY <1>1, <1>4
  <2>2. lost \in [{"MySQL", "Redis"} -> [Players -> Nat]] BY <1>1, <1>2
  <2>3. QED BY <1>1, <1>2, <1>3, <1>4, <2>1, <2>2 DEF Types
<1>6. Stages BY <1>1, <1>3 DEF Stages, Writes, Reads, NoAnswer
<1>7. \A p, late : Untold(p, late) = 0
  <2>1. SUFFICES ASSUME NEW p, NEW late PROVE Untold(p, late) = 0 OBVIOUS
  <2>2. DOMAIN reqQ = {} BY <1>1
  <2>3. {i \in DOMAIN reqQ : reqQ[i].type = "KillCountUpdate" /\ reqQ[i].who = p} = {} BY <2>2
  <2>4. job.type # "KillCountUpdate" BY <1>1 DEF NoJob
  <2>5. QED BY <2>3, <2>4, FS_EmptySet DEF Untold
<1>8. KillsKept BY <1>1, <1>2, <1>7 DEF KillsKept
<1>9. Asked BY <1>1 DEF Asked, NoJob
<1>10. Picture BY <1>1 DEF Picture, NoJob
<1>11. QED BY <1>5, <1>6, <1>8, <1>9, <1>10 DEF IInv

(* The inductive invariant holds in every state. *)
THEOREM IInvHolds == Spec => []IInv
<1>1. Init => IInv BY InitStep
<1>2. IInv /\ [Next]_vars => IInv'
  <2>1. SUFFICES ASSUME IInv, [Next]_vars PROVE IInv' OBVIOUS
  <2>2. CASE DbThread
    BY <2>1, <2>2, WaitStep, TakeStep, UpdateStep, ClearStep, ZincrbyStep, ZRevRangeStep,
       ZRevRankStep, ZScoreStep, SortTiesStep, AnswerStep
    DEF DbThread
  <2>3. CASE SetEvent
    BY <2>1, <2>3, QuietStep DEF SetEvent
  <2>4. CASE DbResult
    BY <2>1, <2>4, QuietStep DEF DbResult
  <2>5. ASSUME NEW p \in Players, updateRankingInput(p) \/ onRankingRes(p) PROVE IInv'
    BY <2>1, <2>5, QuietStep DEF updateRankingInput, onRankingRes, fieldVars
  <2>6. ASSUME NEW p \in Players, Kill(p) PROVE IInv'
    <3>1. /\ Request("KillCountUpdate", p) /\ made' = [made EXCEPT ![p] = @ + 1]
          /\ "KillCountUpdate" \in JobTypes
      BY <2>6 DEF Kill, JobTypes
    <3>2. QED BY <2>1, <3>1, RequestStep
  <2>7. ASSUME NEW p \in Players, RankingReq(p) PROVE IInv'
    <3>1. /\ Request("RankingQuery", p) /\ made' = made /\ "RankingQuery" \in JobTypes
      BY <2>7 DEF RankingReq, JobTypes
    <3>2. QED BY <2>1, <3>1, RequestStep
  <2>8. ASSUME NEW p \in Players, PositionSave(p) PROVE IInv'
    <3>1. /\ Request("PositionSave", p) /\ made' = made /\ "PositionSave" \in JobTypes
      BY <2>8 DEF PositionSave, JobTypes
    <3>2. QED BY <2>1, <3>1, RequestStep
  <2>9. CASE UNCHANGED vars BY <2>1, <2>9, QuietStep DEF vars, fieldVars
  <2>10. QED BY <2>1, <2>2, <2>3, <2>4, <2>5, <2>6, <2>7, <2>8, <2>9 DEF Next
<1>3. QED BY <1>1, <1>2, PTL DEF Spec

(* Each store counts every kill once, or has refused it, and no failure of one  *)
(* call is met by another.                                                      *)
THEOREM KillsAreKept == Spec => []KillsKept
<1>1. IInv => KillsKept BY DEF IInv
<1>2. QED BY <1>1, IInvHolds, PTL

(* A ranking counts the kills made when it was asked for, lists the players with *)
(* most kills in their order, and ranks the player among its equals.             *)
THEOREM RankingsAreExact == Spec => []RankingExact
<1>1. IInv => RankingExact
  <2>1. SUFFICES ASSUME IInv, pc = "answer", job.type = "RankingQuery"
                 PROVE  RankingExact
    BY DEF RankingExact
  <2> DEFINE who == job.who
             top == answer.top
             Better == {p \in Players : score[p] > answer.count}
             Equal  == {p \in Players : score[p] = answer.count}
  <2>2. job \in Jobs /\ who \in Players /\ job.made \in Nat
    BY <2>1 DEF IInv, Stages, Jobs
  <2>3. /\ TopRight /\ Sorted /\ answer.count = score[who]
        /\ answer.rank = IF score[who] = 0 THEN -1 ELSE Rank(who)
    BY <2>1 DEF IInv, Picture
  <2>4. /\ score \in [Players -> Nat] /\ lost["Redis"] \in [Players -> Nat]
        /\ score[who] \in Nat /\ lost["Redis"][who] \in Nat
    BY <2>1, <2>2 DEF IInv, Types
  <2>5. answer.count = job.made - lost["Redis"][who]
    <3>1. Cardinality(KillsAfter(reqQ, who, 0)) \in Nat
      BY <2>1, KillsFinite DEF IInv, Types
    <3>2. made[who] = job.made + Cardinality(KillsAfter(reqQ, who, 0))
      BY <2>1 DEF IInv, Asked
    <3>3. Untold(who, {"answer"}) = Cardinality(KillsAfter(reqQ, who, 0))
      <4>1. Untold(who, {"answer"}) = Cardinality(KillsAfter(reqQ, who, 0))
             + IF job.type = "KillCountUpdate" /\ job.who = who /\ pc \notin {"answer"} THEN 1 ELSE 0
        BY <2>1, UntoldKills DEF IInv
      <4>2. QED BY <2>1, <3>1, <4>1
    <3>4. score[who] + lost["Redis"][who] + Untold(who, {"answer"}) = made[who]
      BY <2>1, <2>2 DEF IInv, KillsKept
    <3>5. QED BY <2>2, <2>3, <2>4, <3>1, <3>2, <3>3, <3>4
  <2>6. /\ DOMAIN top = 1 .. Len(top)
        /\ \A i \in DOMAIN top : /\ top[i].nickname \in Ranked
                                 /\ top[i].killCount = score[top[i].nickname]
                                 /\ top[i].killCount \in Nat
    BY <2>3, <2>4 DEF TopRight, Ranked
  <2>7. ASSUME NEW i \in DOMAIN top, NEW p \in Players, score[p] > top[i].killCount
        PROVE  \E j \in 1 .. i - 1 : top[j].nickname = p
    <3>1. p \in Ranked /\ score[p] \in Nat /\ ~(score[p] <= top[i].killCount)
      BY <2>4, <2>6, <2>7 DEF Ranked
    <3>2. PICK j \in DOMAIN top : top[j].nickname = p BY <2>3, <3>1 DEF TopRight
    <3>3. top[j].killCount = score[p] BY <2>6, <3>2
    <3>4. ~(i < j) /\ i # j
      <4>1. i # j BY <2>7, <3>1, <3>3
      <4>2. i < j => top[i].killCount > top[j].killCount \/ top[i].killCount = top[j].killCount
        BY <2>3 DEF Sorted
      <4>3. QED BY <2>6, <3>1, <3>3, <4>1, <4>2
    <3>5. i \in Int /\ j \in Int /\ j >= 1 BY <2>6
    <3>6. QED BY <3>2, <3>4, <3>5
  <2>8. ASSUME NEW i \in DOMAIN top, NEW j \in DOMAIN top, i < j, top[i].killCount = top[j].killCount
        PROVE  lastKillTime[top[i].nickname] <= lastKillTime[top[j].nickname]
    <3>1. ~(top[i].killCount > top[j].killCount) BY <2>6, <2>8
    <3>2. QED BY <2>3, <2>8, <3>1 DEF Sorted
  <2>9. ASSUME NEW p \in Players, p \notin {top[i].nickname : i \in DOMAIN top}, score[p] > 0
        PROVE  Len(top) = MAX_TOP_ENTRY
    <3>1. p \in Ranked BY <2>9 DEF Ranked
    <3>2. \A i \in DOMAIN top : top[i].nickname # p BY <2>9
    <3>3. QED BY <2>3, <3>1, <3>2 DEF TopRight
  <2>10. IF answer.count = 0 THEN answer.rank = -1
         ELSE answer.rank \in Cardinality(Better) + 1 .. Cardinality(Better \union Equal)
    <3>1. CASE answer.count = 0 BY <2>3, <3>1
    <3>2. CASE answer.count # 0
      <4> DEFINE Over == {q \in Ranked : Above(q, who)}
      <4>1. answer.rank = Cardinality(Over) + 1 BY <2>3, <3>2 DEF Rank
      <4>2. /\ \A p \in Players : p \in Nat /\ score[p] \in Nat
            /\ who \in Nat /\ score[who] > 0 /\ answer.count = score[who]
        <5>1. \A p \in Players : p \in Nat /\ score[p] \in Nat BY <2>4, RankingAssumption
        <5>2. answer.count = score[who] /\ score[who] \in Nat BY <2>3, <2>4
        <5>3. QED BY <2>2, <3>2, <5>1, <5>2
      <4>3. Better \in SUBSET Over
        <5>1. SUFFICES ASSUME NEW p \in Better PROVE p \in Over OBVIOUS
        <5>2. p \in Players /\ score[p] > score[who] BY <4>2
        <5>3. score[p] > 0 BY <2>4, <4>2, <5>2
        <5>4. QED BY <5>2, <5>3 DEF Ranked, Above
      <4>4. Over \cup {who} \in SUBSET (Better \cup Equal) /\ who \notin Over
        BY <2>2, <2>3, <4>2 DEF Ranked, Above
      <4>5. Better \cup Equal \in SUBSET Players OBVIOUS
      <4> HIDE DEF Over, Better, Equal
      <4>6. IsFiniteSet(Better \cup Equal) /\ IsFiniteSet(Over \cup {who})
        BY <4>4, <4>5, RankingAssumption, FS_Subset
      <4>7. IsFiniteSet(Over)
        <5>1. Over \in SUBSET (Over \cup {who}) OBVIOUS
        <5>2. QED BY <4>6, <5>1, FS_Subset
      <4>8. Cardinality(Over \cup {who}) = Cardinality(Over) + 1 BY <4>4, <4>7, FS_AddElement
      <4>9. Cardinality(Over) + 1 <= Cardinality(Better \cup Equal)
        BY <4>4, <4>6, <4>8, FS_Subset
      <4>10. Cardinality(Better) <= Cardinality(Over) /\ Cardinality(Better) \in Nat
             /\ Cardinality(Over) \in Nat /\ Cardinality(Better \cup Equal) \in Nat
        BY <4>3, <4>6, <4>7, FS_Subset, FS_CardinalityType
      <4>11. QED BY <3>2, <4>1, <4>9, <4>10
    <3>3. QED BY <3>1, <3>2
  <2>11. QED BY <2>5, <2>7, <2>8, <2>9, <2>10 DEF RankingExact
<1>2. QED BY <1>1, IInvHolds, PTL
===============================================================================

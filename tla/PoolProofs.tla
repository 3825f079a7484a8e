----------------------------- MODULE PoolProofs -----------------------------
(***************************************************************************)
(* Proofs about Pool, for every set of workers and of jobs, every pair of  *)
(* capacities and both kinds of ring.                                      *)
(***************************************************************************)
EXTENDS Pool, FiniteSetTheorems, TLAPS

Points == {"idle", "send", "recv", "not_full", "not_empty"}

PoolTypeOK ==
  /\ jPc \in [PoolThreads -> Points]
  /\ aPc \in [PoolThreads -> Points]
  /\ worker \in [Workers -> {"unborn", "loop", "receiving", "answering", "exited"}]
  /\ stage \in {"spawn", "send", "collect", "taking", "join", "closeAnswers", "free", "done"}
  /\ freed \in BOOLEAN

(* A thread is inside a channel call only where its program makes one.       *)
InsideWhere ==
  /\ \A w \in Workers : jPc[w] # "idle" => worker[w] = "receiving"
  /\ \A w \in Workers : aPc[w] # "idle" => worker[w] = "answering"
  /\ jPc[Main] # "idle" => stage = "send"
  /\ aPc[Main] # "idle" => stage = "taking"

(* Past the joins every worker is gone, and only the last step frees.        *)
JoinedBeforeFree ==
  /\ stage \in {"closeAnswers", "free", "done"} => \A w \in Workers : worker[w] = "exited"
  /\ freed => stage = "done"

PoolInv == PoolTypeOK /\ InsideWhere /\ JoinedBeforeFree

(* What a step inside a channel call does to the threads' places: the thread *)
(* was inside, and nobody who was outside gets in.                           *)
OnlyLeaves(p, q, t) ==
  /\ q \in [PoolThreads -> Points]
  /\ p[t] # "idle"
  /\ \A u \in PoolThreads : p[u] = "idle" => q[u] = "idle"

LEMMA JobsSignal ==
  ASSUME jPc \in [PoolThreads -> Points], NEW t \in PoolThreads, jPc[t] # "idle",
         NEW r, NEW c \in {"not_full", "not_empty"}, JobsChan!SignalAndReturn(c, t, r)
  PROVE  OnlyLeaves(jPc, jPc', t)
<1>1. CASE JobsChan!Returns(jPc, t, r)
  BY <1>1 DEF JobsChan!Returns, OnlyLeaves, Points
<1>2. ASSUME NEW w \in JobsChan!At(c),
             JobsChan!Returns([jPc EXCEPT ![w] = JobsChan!Resumed(c)], t, r)
      PROVE  OnlyLeaves(jPc, jPc', t)
  <2>1. w \in PoolThreads /\ jPc[w] # "idle" /\ JobsChan!Resumed(c) \in Points
    BY DEF JobsChan!At, JobsChan!Resumed, Points
  <2>2. jPc' = [[jPc EXCEPT ![w] = JobsChan!Resumed(c)] EXCEPT ![t] = "idle"]
    BY <1>2 DEF JobsChan!Returns
  <2> QED BY <2>1, <2>2 DEF OnlyLeaves, Points
<1> QED BY <1>1, <1>2 DEF JobsChan!SignalAndReturn

LEMMA JobsLocked ==
  ASSUME jPc \in [PoolThreads -> Points], NEW t \in PoolThreads, JobsChan!Locked(t)
  PROVE  OnlyLeaves(jPc, jPc', t)
<1>1. CASE JobsChan!SendWaits(t) \/ JobsChan!RecvWaits(t)
  BY <1>1 DEF JobsChan!SendWaits, JobsChan!RecvWaits, OnlyLeaves, Points
<1>2. CASE JobsChan!SendClosed(t) \/ JobsChan!SendNoRing(t) \/ JobsChan!RecvEnds(t)
  BY <1>2 DEF JobsChan!SendClosed, JobsChan!SendNoRing, JobsChan!RecvEnds,
              JobsChan!Returns, OnlyLeaves, Points
<1>3. CASE JobsChan!SendStores(t)
  BY <1>3, JobsSignal DEF JobsChan!SendStores
<1>4. CASE JobsChan!RecvTakes(t)
  BY <1>4, JobsSignal DEF JobsChan!RecvTakes
<1> QED BY <1>1, <1>2, <1>3, <1>4 DEF JobsChan!Locked

LEMMA AnswersSignal ==
  ASSUME aPc \in [PoolThreads -> Points], NEW t \in PoolThreads, aPc[t] # "idle",
         NEW r, NEW c \in {"not_full", "not_empty"}, AnswersChan!SignalAndReturn(c, t, r)
  PROVE  OnlyLeaves(aPc, aPc', t)
<1>1. CASE AnswersChan!Returns(aPc, t, r)
  BY <1>1 DEF AnswersChan!Returns, OnlyLeaves, Points
<1>2. ASSUME NEW w \in AnswersChan!At(c),
             AnswersChan!Returns([aPc EXCEPT ![w] = AnswersChan!Resumed(c)], t, r)
      PROVE  OnlyLeaves(aPc, aPc', t)
  <2>1. w \in PoolThreads /\ aPc[w] # "idle" /\ AnswersChan!Resumed(c) \in Points
    BY DEF AnswersChan!At, AnswersChan!Resumed, Points
  <2>2. aPc' = [[aPc EXCEPT ![w] = AnswersChan!Resumed(c)] EXCEPT ![t] = "idle"]
    BY <1>2 DEF AnswersChan!Returns
  <2> QED BY <2>1, <2>2 DEF OnlyLeaves, Points
<1> QED BY <1>1, <1>2 DEF AnswersChan!SignalAndReturn

LEMMA AnswersLocked ==
  ASSUME aPc \in [PoolThreads -> Points], NEW t \in PoolThreads, AnswersChan!Locked(t)
  PROVE  OnlyLeaves(aPc, aPc', t)
<1>1. CASE AnswersChan!SendWaits(t) \/ AnswersChan!RecvWaits(t)
  BY <1>1 DEF AnswersChan!SendWaits, AnswersChan!RecvWaits, OnlyLeaves, Points
<1>2. CASE AnswersChan!SendClosed(t) \/ AnswersChan!SendNoRing(t) \/ AnswersChan!RecvEnds(t)
  BY <1>2 DEF AnswersChan!SendClosed, AnswersChan!SendNoRing, AnswersChan!RecvEnds,
              AnswersChan!Returns, OnlyLeaves, Points
<1>3. CASE AnswersChan!SendStores(t)
  BY <1>3, AnswersSignal DEF AnswersChan!SendStores
<1>4. CASE AnswersChan!RecvTakes(t)
  BY <1>4, AnswersSignal DEF AnswersChan!RecvTakes
<1> QED BY <1>1, <1>2, <1>3, <1>4 DEF AnswersChan!Locked

-----------------------------------------------------------------------------
LEMMA PoolInitial == PoolInit => PoolInv
<1> SUFFICES ASSUME PoolInit PROVE PoolInv
  OBVIOUS
<1>1. jPc = [t \in PoolThreads |-> "idle"] /\ aPc = [t \in PoolThreads |-> "idle"]
  BY DEF PoolInit, JobsChan!Init, AnswersChan!Init
<1>2. /\ worker = [w \in Workers |-> "unborn"]
      /\ stage = "spawn"
      /\ freed = FALSE
  BY DEF PoolInit
<1> HIDE DEF PoolInit
<1> QED BY <1>1, <1>2 DEF PoolInv, PoolTypeOK, InsideWhere, JoinedBeforeFree, PoolThreads, Points

(* Closing a channel wakes its sleepers: who is inside stays inside.         *)
LEMMA Woken ==
  /\ \A p \in Points : JobsChan!Resumed(p) \in Points /\ (JobsChan!Resumed(p) # "idle" <=> p # "idle")
  /\ \A p \in Points : AnswersChan!Resumed(p) \in Points /\ (AnswersChan!Resumed(p) # "idle" <=> p # "idle")
BY DEF JobsChan!Resumed, AnswersChan!Resumed, Points

LEMMA InsideKeeps ==
  ASSUME PoolInv, NEW t \in PoolThreads, InJobs(t) \/ InAnswers(t)
  PROVE  PoolInv'
<1>1. CASE InJobs(t)
  <2>1. OnlyLeaves(jPc, jPc', t)
    BY <1>1, JobsLocked DEF InJobs, PoolInv, PoolTypeOK
  <2> QED BY <1>1, <2>1 DEF InJobs, OnlyLeaves, PoolInv, PoolTypeOK, InsideWhere,
                 JoinedBeforeFree, answersVars, progVars, PoolThreads
<1>2. CASE InAnswers(t)
  <2>1. OnlyLeaves(aPc, aPc', t)
    BY <1>2, AnswersLocked DEF InAnswers, PoolInv, PoolTypeOK
  <2> QED BY <1>2, <2>1 DEF InAnswers, OnlyLeaves, PoolInv, PoolTypeOK, InsideWhere,
                 JoinedBeforeFree, jobsVars, progVars, PoolThreads
<1> QED BY <1>1, <1>2

LEMMA WorkerKeeps ==
  ASSUME PoolInv, NEW w \in Workers, WorkerStep(w)
  PROVE  PoolInv'
<1> USE MainAssumption DEF PoolInv, PoolTypeOK, InsideWhere, JoinedBeforeFree, PoolThreads, Points
<1>1. CASE WorkerReceives(w)
  BY <1>1 DEF WorkerReceives, JobsChan!CallRecv, answersVars
<1>2. CASE WorkerAnswers(w)
  BY <1>2 DEF WorkerAnswers, AnswersChan!CallSend, jobsVars
<1>3. CASE WorkerCounts(w)
  BY <1>3 DEF WorkerCounts, jobsVars, answersVars
<1>4. CASE WorkerExits(w)
  BY <1>4 DEF WorkerExits, jobsVars, answersVars
<1> QED BY <1>1, <1>2, <1>3, <1>4 DEF WorkerStep

LEMMA MainKeeps ==
  ASSUME PoolInv, MainStep
  PROVE  PoolInv'
<1> USE MainAssumption DEF PoolInv, PoolTypeOK, InsideWhere, JoinedBeforeFree, PoolThreads
<1>1. ASSUME NEW w \in Workers, SpawnWorker(w) PROVE PoolInv'
  BY <1>1 DEF SpawnWorker, jobsVars, answersVars
<1>2. ASSUME NEW j \in Jobs, MainSends(j) PROVE PoolInv'
  BY <1>2 DEF MainSends, JobsChan!CallSend, answersVars, Points
<1>3. CASE MainClosesJobs
  BY <1>3, Woken DEF MainClosesJobs, JobsChan!CloseChan, answersVars
<1>4. CASE MainReceives
  BY <1>4 DEF MainReceives, AnswersChan!CallRecv, jobsVars, Points
<1>5. CASE MainTakes
  BY <1>5 DEF MainTakes, jobsVars, answersVars
<1>6. CASE JoinWorkers
  BY <1>6 DEF JoinWorkers, jobsVars, answersVars
<1>7. CASE MainClosesAnswers
  BY <1>7, Woken DEF MainClosesAnswers, AnswersChan!CloseChan, jobsVars
<1>8. CASE MainFrees
  BY <1>8 DEF MainFrees, jobsVars, answersVars
<1> QED BY <1>1, <1>2, <1>3, <1>4, <1>5, <1>6, <1>7, <1>8 DEF MainStep

LEMMA PoolStep == PoolInv /\ [PoolNext]_poolVars => PoolInv'
<1> SUFFICES ASSUME PoolInv, [PoolNext]_poolVars PROVE PoolInv'
  OBVIOUS
<1>1. CASE UNCHANGED poolVars
  BY <1>1 DEF poolVars, jobsVars, answersVars, progVars, PoolInv, PoolTypeOK, InsideWhere,
              JoinedBeforeFree
<1>2. CASE PoolNext
  BY <1>1, <1>2, MainKeeps, WorkerKeeps, InsideKeeps DEF PoolNext, Finished
<1> QED BY <1>1, <1>2

(* chan_free of the pool's channels is safe whatever the interleaving of     *)
(* its threads: the joins leave nobody who could be inside a channel.        *)
THEOREM PoolFreesSafely == PoolSpec => []FreeIsSafe
<1>1. PoolInv => FreeIsSafe
  BY DEF PoolInv, PoolTypeOK, InsideWhere, JoinedBeforeFree, FreeIsSafe, PoolThreads
<1> QED BY <1>1, PoolInitial, PoolStep, PTL DEF PoolSpec

-----------------------------------------------------------------------------
(* The slots of a ring that hold a message: the n that follow h.             *)
Live(h, n, cap) ==
  {x \in 0 .. cap - 1 : (IF x >= h THEN x - h ELSE x - h + cap) < n}

LiveJobs == Live(jHead, jLen, JobsChan!Cap)
LiveAnswers == Live(aHead, aLen, AnswersChan!Cap)

(* Where a job or its answer can be, from main's list to main's count.       *)
Holds(place, x, j) ==
  \/ place = "unsent" /\ x = Main /\ j \in toSend
  \/ place = "sending" /\ x = Main /\ jPc[Main] # "idle" /\ jArg[Main] = j
  \/ place = "queued" /\ x \in LiveJobs /\ jSlots[x] = j
  \/ /\ place = "received" /\ x \in Workers
     /\ worker[x] = "receiving" /\ jPc[x] = "idle" /\ jAnswer[x] = j
  \/ place = "answering" /\ x \in Workers /\ aPc[x] # "idle" /\ aArg[x] = j
  \/ place = "answered" /\ x \in LiveAnswers /\ aSlots[x] = j
  \/ /\ place = "taking" /\ x = Main
     /\ stage = "taking" /\ aPc[Main] = "idle" /\ aAnswer[Main] = j
  \/ place = "got" /\ x = Main /\ got[j] # 0

PlaceNames ==
  {"unsent", "sending", "queued", "received", "answering", "answered", "taking", "got"}
Spots == PoolThreads \cup (0 .. JobsChan!Cap) \cup (0 .. AnswersChan!Cap)

(* A job is nowhere twice.                                                   *)
OnePlace ==
  \A j \in Jobs : \A p, q \in PlaceNames : \A x, y \in Spots :
    Holds(p, x, j) /\ Holds(q, y, j) => p = q /\ x = y

(* The rings are rings, and every thread has its argument and its answer.    *)
RingsOK ==
  /\ jHead \in 0 .. JobsChan!Cap - 1 /\ jLen \in 0 .. JobsChan!Cap
  /\ aHead \in 0 .. AnswersChan!Cap - 1 /\ aLen \in 0 .. AnswersChan!Cap
  /\ DOMAIN jSlots = 0 .. JobsChan!Cap - 1 /\ DOMAIN aSlots = 0 .. AnswersChan!Cap - 1
  /\ DOMAIN jArg = PoolThreads /\ DOMAIN jAnswer = PoolThreads
  /\ DOMAIN aArg = PoolThreads /\ DOMAIN aAnswer = PoolThreads

(* Main only sends jobs and receives answers, a worker the other way round.  *)
OneWay ==
  /\ jPc[Main] \in {"idle", "send", "not_full"}
  /\ aPc[Main] \in {"idle", "recv", "not_empty"}
  /\ \A w \in Workers : /\ jPc[w] \in {"idle", "recv", "not_empty"}
                        /\ aPc[w] \in {"idle", "send", "not_full"}

(* Main counts the answers it has taken, each job's at most once.            *)
CountOK ==
  /\ toSend \subseteq Jobs
  /\ got \in [Jobs -> {0, 1}]
  /\ taken = Cardinality({j \in Jobs : got[j] = 1})
  /\ stage \in {"join", "closeAnswers", "free", "done"} => taken = Cardinality(Jobs)

(* What main sends, the jobs channel holds and a worker receives are jobs.   *)
RealJobs ==
  /\ \A x \in LiveJobs : jSlots[x] \in Jobs
  /\ jPc[Main] # "idle" => jArg[Main] \in Jobs
  /\ \A w \in Workers : worker[w] = "receiving" /\ jPc[w] = "idle" => jAnswer[w] \in Jobs \cup {"drained"}

RoundTripInv == PoolInv /\ RingsOK /\ OneWay /\ CountOK /\ OnePlace /\ RealJobs

-----------------------------------------------------------------------------
(* A message stored behind the n live ones, and the first of them taken.     *)
LEMMA LiveGrows ==
  ASSUME NEW cap \in Nat, NEW h \in 0 .. cap - 1, NEW n \in Nat, n < cap, NEW i,
         i = IF h + n >= cap THEN h + n - cap ELSE h + n
  PROVE  /\ i \in 0 .. cap - 1 /\ i \notin Live(h, n, cap)
         /\ Live(h, n + 1, cap) = Live(h, n, cap) \cup {i}
BY DEF Live

LEMMA LiveShrinks ==
  ASSUME NEW cap \in Nat, NEW h \in 0 .. cap - 1, NEW n \in 1 .. cap
  PROVE  /\ h \in Live(h, n, cap)
         /\ Live(IF h + 1 = cap THEN 0 ELSE h + 1, n - 1, cap) = Live(h, n, cap) \ {h}
BY DEF Live

LEMMA WrapOnce ==
  ASSUME NEW cap \in Nat, cap > 0, NEW n \in Nat, n < 2 * cap
  PROVE  n % cap = IF n >= cap THEN n - cap ELSE n
<1>1. CASE n < cap
  BY <1>1
<1>2. CASE n >= cap
  BY <1>2
<1> QED BY <1>1, <1>2


LEMMA JobsRing ==
  ASSUME RingsOK
  PROVE  /\ JobsChan!Cap \in Nat /\ JobsChan!Cap > 0 /\ JobsChan!Cap' = JobsChan!Cap
         /\ JobsChan!NextHead = IF jHead + 1 = JobsChan!Cap THEN 0 ELSE jHead + 1
         /\ jLen # JobsChan!Cap =>
              JobsChan!TailIndex = IF jHead + jLen >= JobsChan!Cap
                                   THEN jHead + jLen - JobsChan!Cap ELSE jHead + jLen
<1>1. JobsChan!Cap \in Nat /\ JobsChan!Cap > 0 /\ JobsChan!Cap' = JobsChan!Cap
  BY CapsAssumption DEF JobsChan!Cap
<1>2. (jHead + 1) % JobsChan!Cap = IF jHead + 1 = JobsChan!Cap THEN 0 ELSE jHead + 1
  BY <1>1, WrapOnce DEF RingsOK
<1>3. jLen # JobsChan!Cap =>
        (jHead + jLen) % JobsChan!Cap = IF jHead + jLen >= JobsChan!Cap
                       THEN jHead + jLen - JobsChan!Cap ELSE jHead + jLen
  BY <1>1, WrapOnce DEF RingsOK
<1> QED BY <1>1, <1>2, <1>3 DEF JobsChan!NextHead, JobsChan!TailIndex

(* What a step inside a call leaves to everybody else.                       *)
JobsOthers(t) ==
  \A u \in PoolThreads :
    /\ jPc[u] \in {"idle", "send", "not_full"} => jPc'[u] \in {"idle", "send", "not_full"}
    /\ jPc[u] \in {"idle", "recv", "not_empty"} => jPc'[u] \in {"idle", "recv", "not_empty"}
    /\ u # t => /\ (jPc'[u] = "idle") <=> (jPc[u] = "idle")
                /\ jArg'[u] = jArg[u] /\ jAnswer'[u] = jAnswer[u]

(* A call of t that returns: with no message, with its own put into the      *)
(* ring, or with one taken from it.                                          *)
JobsEnds(t) ==
  /\ jPc'[t] = "idle"
  /\ \/ /\ jAnswer'[t] \notin Jobs
        /\ jPc[t] = "send" \/ jAnswer'[t] = "drained"
        /\ UNCHANGED <<jSlots, LiveJobs>>
     \/ /\ jPc[t] = "send" /\ jAnswer'[t] \notin Jobs
        /\ \E i \in (0 .. JobsChan!Cap - 1) \ LiveJobs :
             /\ LiveJobs' = LiveJobs \cup {i}
             /\ jSlots' = [jSlots EXCEPT ![i] = jArg[t]]
     \/ /\ jPc[t] = "recv"
        /\ \E i \in LiveJobs :
             /\ LiveJobs' = LiveJobs \ {i}
             /\ jAnswer'[t] = jSlots[i]
        /\ jSlots' = jSlots

JobsTyped ==
  /\ jHead \in 0 .. JobsChan!Cap - 1 /\ jLen \in 0 .. JobsChan!Cap
  /\ DOMAIN jSlots = 0 .. JobsChan!Cap - 1
  /\ DOMAIN jArg = PoolThreads /\ DOMAIN jAnswer = PoolThreads

LEMMA JobsReturns ==
  ASSUME PoolTypeOK, RingsOK, NEW t \in PoolThreads, NEW r, jPc[t] # "idle",
         \/ JobsChan!Returns(jPc, t, r)
         \/ \E c \in {"not_full", "not_empty"} : JobsChan!SignalAndReturn(c, t, r)
  PROVE  /\ JobsOthers(t) /\ jPc'[t] = "idle" /\ jAnswer'[t] = r
         /\ DOMAIN jArg' = PoolThreads /\ DOMAIN jAnswer' = PoolThreads
<1>1. CASE JobsChan!Returns(jPc, t, r)
  BY <1>1 DEF JobsChan!Returns, JobsOthers, PoolTypeOK, RingsOK, Points
<1>2. ASSUME NEW c \in {"not_full", "not_empty"}, NEW w \in JobsChan!At(c),
             JobsChan!Returns([jPc EXCEPT ![w] = JobsChan!Resumed(c)], t, r)
      PROVE  /\ JobsOthers(t) /\ jPc'[t] = "idle" /\ jAnswer'[t] = r
             /\ DOMAIN jArg' = PoolThreads /\ DOMAIN jAnswer' = PoolThreads
  <2>1. /\ w \in PoolThreads /\ jPc[w] = c
        /\ JobsChan!Resumed(c) = IF c = "not_full" THEN "send" ELSE "recv"
    BY DEF JobsChan!At, JobsChan!Resumed
  <2>2. /\ jPc' = [[jPc EXCEPT ![w] = JobsChan!Resumed(c)] EXCEPT ![t] = "idle"]
        /\ jArg' = [jArg EXCEPT ![t] = None]
        /\ jAnswer' = [jAnswer EXCEPT ![t] = r]
    BY <1>2 DEF JobsChan!Returns
  <2> QED BY <2>1, <2>2 DEF JobsOthers, PoolTypeOK, RingsOK, Points
<1> QED BY <1>1, <1>2 DEF JobsChan!SignalAndReturn

LEMMA JobsMoves ==
  ASSUME PoolTypeOK, RingsOK, NEW t \in PoolThreads, JobsChan!Locked(t)
  PROVE  /\ JobsTyped' /\ JobsOthers(t)
         /\ \/ jPc'[t] # "idle" /\ UNCHANGED <<jSlots, LiveJobs, jArg, jAnswer>>
            \/ JobsEnds(t)
<1> USE JobsRing
<1>1. CASE JobsChan!SendWaits(t) \/ JobsChan!RecvWaits(t)
  <2>1. UNCHANGED <<jSlots, jHead, jLen, jArg, jAnswer>>
    BY <1>1 DEF JobsChan!SendWaits, JobsChan!RecvWaits, JobsChan!chan
  <2>2. LiveJobs' = LiveJobs /\ JobsTyped'
    BY <2>1 DEF LiveJobs, JobsTyped, RingsOK
  <2>3. jPc'[t] # "idle" /\ JobsOthers(t)
    BY <1>1, <2>1 DEF JobsChan!SendWaits, JobsChan!RecvWaits, JobsOthers, PoolTypeOK, Points
  <2> QED BY <2>1, <2>2, <2>3
<1>2. ASSUME NEW r \in {"dropped", "drained"}, jPc[t] # "idle", JobsChan!Returns(jPc, t, r),
             jPc[t] = "send" \/ r = "drained", UNCHANGED JobsChan!chan
      PROVE  JobsTyped' /\ JobsOthers(t) /\ JobsEnds(t)
  <2>1. UNCHANGED <<jSlots, jHead, jLen>>
    BY <1>2 DEF JobsChan!chan
  <2>2. /\ JobsOthers(t) /\ jPc'[t] = "idle" /\ jAnswer'[t] = r
        /\ DOMAIN jArg' = PoolThreads /\ DOMAIN jAnswer' = PoolThreads
    BY <1>2, JobsReturns
  <2>3. LiveJobs' = LiveJobs /\ JobsTyped'
    BY <2>1, <2>2 DEF LiveJobs, JobsTyped, RingsOK
  <2> QED BY <1>2, <2>1, <2>2, <2>3, JobsAssumption DEF JobsEnds
<1>3. CASE JobsChan!SendClosed(t) \/ JobsChan!SendNoRing(t) \/ JobsChan!RecvEnds(t)
  BY <1>2, <1>3 DEF JobsChan!SendClosed, JobsChan!SendNoRing, JobsChan!RecvEnds
<1>4. CASE JobsChan!SendStores(t)
  <2> DEFINE i == JobsChan!TailIndex
  <2>1. /\ jPc[t] = "send" /\ jLen # JobsChan!Cap /\ jLen' = jLen + 1 /\ jHead' = jHead
        /\ jSlots' = [jSlots EXCEPT ![i] = jArg[t]]
        /\ JobsChan!SignalAndReturn("not_empty", t, "sent")
    BY <1>4 DEF JobsChan!SendStores
  <2>2. /\ JobsOthers(t) /\ jPc'[t] = "idle" /\ jAnswer'[t] = "sent"
        /\ DOMAIN jArg' = PoolThreads /\ DOMAIN jAnswer' = PoolThreads
    BY <2>1, JobsReturns
  <2>3. /\ i \in 0 .. JobsChan!Cap - 1 /\ i \notin LiveJobs
        /\ Live(jHead, jLen + 1, JobsChan!Cap) = LiveJobs \cup {i}
    <3>1. jLen \in Nat /\ jLen < JobsChan!Cap /\ jHead \in 0 .. JobsChan!Cap - 1
      BY <2>1 DEF RingsOK
    <3>2. i = IF jHead + jLen >= JobsChan!Cap THEN jHead + jLen - JobsChan!Cap ELSE jHead + jLen
      BY <2>1
    <3>3. ASSUME NEW k, k = IF jHead + jLen >= JobsChan!Cap
                              THEN jHead + jLen - JobsChan!Cap ELSE jHead + jLen
          PROVE  /\ k \in 0 .. JobsChan!Cap - 1 /\ k \notin Live(jHead, jLen, JobsChan!Cap)
                 /\ Live(jHead, jLen + 1, JobsChan!Cap) = Live(jHead, jLen, JobsChan!Cap) \cup {k}
      BY ONLY <3>1, <3>3, LiveGrows, JobsChan!Cap \in Nat
    <3> QED BY <3>2, <3>3 DEF LiveJobs
  <2>4. LiveJobs' = LiveJobs \cup {i}
    BY <2>1, <2>3 DEF LiveJobs
  <2>5. JobsTyped'
    <3>1. jLen' \in 0 .. JobsChan!Cap /\ jHead' \in 0 .. JobsChan!Cap - 1
      BY <2>1 DEF RingsOK
    <3>2. DOMAIN jSlots' = 0 .. JobsChan!Cap - 1
      BY <2>1 DEF RingsOK
    <3> QED BY <2>2, <3>1, <3>2 DEF JobsTyped
  <2> QED BY <2>1, <2>2, <2>3, <2>4, <2>5, JobsAssumption DEF JobsEnds
<1>5. CASE JobsChan!RecvTakes(t)
  <2>1. /\ jPc[t] = "recv" /\ jLen # 0 /\ jLen' = jLen - 1 /\ jHead' = JobsChan!NextHead
        /\ jSlots' = jSlots
        /\ JobsChan!SignalAndReturn("not_full", t, jSlots[jHead])
    BY <1>5 DEF JobsChan!RecvTakes
  <2>2. /\ JobsOthers(t) /\ jPc'[t] = "idle" /\ jAnswer'[t] = jSlots[jHead]
        /\ DOMAIN jArg' = PoolThreads /\ DOMAIN jAnswer' = PoolThreads
    BY <2>1, JobsReturns
  <2>3. jLen \in 1 .. JobsChan!Cap /\ jHead \in 0 .. JobsChan!Cap - 1
    BY <2>1 DEF RingsOK
  <2>4. jHead \in LiveJobs /\ LiveJobs' = LiveJobs \ {jHead}
    <3>1. jHead' = IF jHead + 1 = JobsChan!Cap THEN 0 ELSE jHead + 1
      BY <2>1
    <3>2. /\ jHead \in Live(jHead, jLen, JobsChan!Cap)
          /\ Live(jHead', jLen - 1, JobsChan!Cap) = Live(jHead, jLen, JobsChan!Cap) \ {jHead}
      BY <2>3, <3>1, LiveShrinks
    <3> QED BY <2>1, <3>2 DEF LiveJobs
  <2>5. JobsTyped'
    <3>1. jHead' \in 0 .. JobsChan!Cap - 1 /\ jLen' \in 0 .. JobsChan!Cap
      BY <2>1, <2>3
    <3> QED BY <2>1, <2>2, <3>1 DEF JobsTyped, RingsOK
  <2> QED BY <2>1, <2>2, <2>4, <2>5 DEF JobsEnds
<1> QED BY <1>1, <1>3, <1>4, <1>5 DEF JobsChan!Locked

LEMMA AnswersRing ==
  ASSUME RingsOK
  PROVE  /\ AnswersChan!Cap \in Nat /\ AnswersChan!Cap > 0 /\ AnswersChan!Cap' = AnswersChan!Cap
         /\ AnswersChan!NextHead = IF aHead + 1 = AnswersChan!Cap THEN 0 ELSE aHead + 1
         /\ aLen # AnswersChan!Cap =>
              AnswersChan!TailIndex = IF aHead + aLen >= AnswersChan!Cap
                                   THEN aHead + aLen - AnswersChan!Cap ELSE aHead + aLen
<1>1. AnswersChan!Cap \in Nat /\ AnswersChan!Cap > 0 /\ AnswersChan!Cap' = AnswersChan!Cap
  BY CapsAssumption DEF AnswersChan!Cap
<1>2. (aHead + 1) % AnswersChan!Cap = IF aHead + 1 = AnswersChan!Cap THEN 0 ELSE aHead + 1
  BY <1>1, WrapOnce DEF RingsOK
<1>3. aLen # AnswersChan!Cap =>
        (aHead + aLen) % AnswersChan!Cap = IF aHead + aLen >= AnswersChan!Cap
                       THEN aHead + aLen - AnswersChan!Cap ELSE aHead + aLen
  BY <1>1, WrapOnce DEF RingsOK
<1> QED BY <1>1, <1>2, <1>3 DEF AnswersChan!NextHead, AnswersChan!TailIndex

(* What a step inside a call leaves to everybody else.                       *)
AnswersOthers(t) ==
  \A u \in PoolThreads :
    /\ aPc[u] \in {"idle", "send", "not_full"} => aPc'[u] \in {"idle", "send", "not_full"}
    /\ aPc[u] \in {"idle", "recv", "not_empty"} => aPc'[u] \in {"idle", "recv", "not_empty"}
    /\ u # t => /\ (aPc'[u] = "idle") <=> (aPc[u] = "idle")
                /\ aArg'[u] = aArg[u] /\ aAnswer'[u] = aAnswer[u]

(* A call of t that returns: with no message, with its own put into the      *)
(* ring, or with one taken from it.                                          *)
AnswersEnds(t) ==
  /\ aPc'[t] = "idle"
  /\ \/ /\ aAnswer'[t] \notin Jobs
        /\ UNCHANGED <<aSlots, LiveAnswers>>
     \/ /\ aPc[t] = "send" /\ aAnswer'[t] \notin Jobs
        /\ \E i \in (0 .. AnswersChan!Cap - 1) \ LiveAnswers :
             /\ LiveAnswers' = LiveAnswers \cup {i}
             /\ aSlots' = [aSlots EXCEPT ![i] = aArg[t]]
     \/ /\ aPc[t] = "recv"
        /\ \E i \in LiveAnswers :
             /\ LiveAnswers' = LiveAnswers \ {i}
             /\ aAnswer'[t] = aSlots[i]
        /\ aSlots' = aSlots

AnswersTyped ==
  /\ aHead \in 0 .. AnswersChan!Cap - 1 /\ aLen \in 0 .. AnswersChan!Cap
  /\ DOMAIN aSlots = 0 .. AnswersChan!Cap - 1
  /\ DOMAIN aArg = PoolThreads /\ DOMAIN aAnswer = PoolThreads

LEMMA AnswersReturns ==
  ASSUME PoolTypeOK, RingsOK, NEW t \in PoolThreads, NEW r, aPc[t] # "idle",
         \/ AnswersChan!Returns(aPc, t, r)
         \/ \E c \in {"not_full", "not_empty"} : AnswersChan!SignalAndReturn(c, t, r)
  PROVE  /\ AnswersOthers(t) /\ aPc'[t] = "idle" /\ aAnswer'[t] = r
         /\ DOMAIN aArg' = PoolThreads /\ DOMAIN aAnswer' = PoolThreads
<1>1. CASE AnswersChan!Returns(aPc, t, r)
  BY <1>1 DEF AnswersChan!Returns, AnswersOthers, PoolTypeOK, RingsOK, Points
<1>2. ASSUME NEW c \in {"not_full", "not_empty"}, NEW w \in AnswersChan!At(c),
             AnswersChan!Returns([aPc EXCEPT ![w] = AnswersChan!Resumed(c)], t, r)
      PROVE  /\ AnswersOthers(t) /\ aPc'[t] = "idle" /\ aAnswer'[t] = r
             /\ DOMAIN aArg' = PoolThreads /\ DOMAIN aAnswer' = PoolThreads
  <2>1. /\ w \in PoolThreads /\ aPc[w] = c
        /\ AnswersChan!Resumed(c) = IF c = "not_full" THEN "send" ELSE "recv"
    BY DEF AnswersChan!At, AnswersChan!Resumed
  <2>2. /\ aPc' = [[aPc EXCEPT ![w] = AnswersChan!Resumed(c)] EXCEPT ![t] = "idle"]
        /\ aArg' = [aArg EXCEPT ![t] = None]
        /\ aAnswer' = [aAnswer EXCEPT ![t] = r]
    BY <1>2 DEF AnswersChan!Returns
  <2> QED BY <2>1, <2>2 DEF AnswersOthers, PoolTypeOK, RingsOK, Points
<1> QED BY <1>1, <1>2 DEF AnswersChan!SignalAndReturn

LEMMA AnswersMoves ==
  ASSUME PoolTypeOK, RingsOK, NEW t \in PoolThreads, AnswersChan!Locked(t)
  PROVE  /\ AnswersTyped' /\ AnswersOthers(t)
         /\ \/ aPc'[t] # "idle" /\ UNCHANGED <<aSlots, LiveAnswers, aArg, aAnswer>>
            \/ AnswersEnds(t)
<1> USE AnswersRing
<1>1. CASE AnswersChan!SendWaits(t) \/ AnswersChan!RecvWaits(t)
  <2>1. UNCHANGED <<aSlots, aHead, aLen, aArg, aAnswer>>
    BY <1>1 DEF AnswersChan!SendWaits, AnswersChan!RecvWaits, AnswersChan!chan
  <2>2. LiveAnswers' = LiveAnswers /\ AnswersTyped'
    BY <2>1 DEF LiveAnswers, AnswersTyped, RingsOK
  <2>3. aPc'[t] # "idle" /\ AnswersOthers(t)
    BY <1>1, <2>1 DEF AnswersChan!SendWaits, AnswersChan!RecvWaits, AnswersOthers, PoolTypeOK, Points
  <2> QED BY <2>1, <2>2, <2>3
<1>2. ASSUME NEW r \in {"dropped", "drained"}, aPc[t] # "idle", AnswersChan!Returns(aPc, t, r),
             UNCHANGED AnswersChan!chan
      PROVE  AnswersTyped' /\ AnswersOthers(t) /\ AnswersEnds(t)
  <2>1. UNCHANGED <<aSlots, aHead, aLen>>
    BY <1>2 DEF AnswersChan!chan
  <2>2. /\ AnswersOthers(t) /\ aPc'[t] = "idle" /\ aAnswer'[t] = r
        /\ DOMAIN aArg' = PoolThreads /\ DOMAIN aAnswer' = PoolThreads
    BY <1>2, AnswersReturns
  <2>3. LiveAnswers' = LiveAnswers /\ AnswersTyped'
    BY <2>1, <2>2 DEF LiveAnswers, AnswersTyped, RingsOK
  <2> QED BY <2>1, <2>2, <2>3, JobsAssumption DEF AnswersEnds
<1>3. CASE AnswersChan!SendClosed(t) \/ AnswersChan!SendNoRing(t) \/ AnswersChan!RecvEnds(t)
  BY <1>2, <1>3 DEF AnswersChan!SendClosed, AnswersChan!SendNoRing, AnswersChan!RecvEnds
<1>4. CASE AnswersChan!SendStores(t)
  <2> DEFINE i == AnswersChan!TailIndex
  <2>1. /\ aPc[t] = "send" /\ aLen # AnswersChan!Cap /\ aLen' = aLen + 1 /\ aHead' = aHead
        /\ aSlots' = [aSlots EXCEPT ![i] = aArg[t]]
        /\ AnswersChan!SignalAndReturn("not_empty", t, "sent")
    BY <1>4 DEF AnswersChan!SendStores
  <2>2. /\ AnswersOthers(t) /\ aPc'[t] = "idle" /\ aAnswer'[t] = "sent"
        /\ DOMAIN aArg' = PoolThreads /\ DOMAIN aAnswer' = PoolThreads
    BY <2>1, AnswersReturns
  <2>3. /\ i \in 0 .. AnswersChan!Cap - 1 /\ i \notin LiveAnswers
        /\ Live(aHead, aLen + 1, AnswersChan!Cap) = LiveAnswers \cup {i}
    <3>1. aLen \in Nat /\ aLen < AnswersChan!Cap /\ aHead \in 0 .. AnswersChan!Cap - 1
      BY <2>1 DEF RingsOK
    <3>2. i = IF aHead + aLen >= AnswersChan!Cap THEN aHead + aLen - AnswersChan!Cap ELSE aHead + aLen
      BY <2>1
    <3>3. ASSUME NEW k, k = IF aHead + aLen >= AnswersChan!Cap
                              THEN aHead + aLen - AnswersChan!Cap ELSE aHead + aLen
          PROVE  /\ k \in 0 .. AnswersChan!Cap - 1 /\ k \notin Live(aHead, aLen, AnswersChan!Cap)
                 /\ Live(aHead, aLen + 1, AnswersChan!Cap) = Live(aHead, aLen, AnswersChan!Cap) \cup {k}
      BY ONLY <3>1, <3>3, LiveGrows, AnswersChan!Cap \in Nat
    <3> QED BY <3>2, <3>3 DEF LiveAnswers
  <2>4. LiveAnswers' = LiveAnswers \cup {i}
    BY <2>1, <2>3 DEF LiveAnswers
  <2>5. AnswersTyped'
    <3>1. aLen' \in 0 .. AnswersChan!Cap /\ aHead' \in 0 .. AnswersChan!Cap - 1
      BY <2>1 DEF RingsOK
    <3>2. DOMAIN aSlots' = 0 .. AnswersChan!Cap - 1
      BY <2>1 DEF RingsOK
    <3> QED BY <2>2, <3>1, <3>2 DEF AnswersTyped
  <2> QED BY <2>1, <2>2, <2>3, <2>4, <2>5, JobsAssumption DEF AnswersEnds
<1>5. CASE AnswersChan!RecvTakes(t)
  <2>1. /\ aPc[t] = "recv" /\ aLen # 0 /\ aLen' = aLen - 1 /\ aHead' = AnswersChan!NextHead
        /\ aSlots' = aSlots
        /\ AnswersChan!SignalAndReturn("not_full", t, aSlots[aHead])
    BY <1>5 DEF AnswersChan!RecvTakes
  <2>2. /\ AnswersOthers(t) /\ aPc'[t] = "idle" /\ aAnswer'[t] = aSlots[aHead]
        /\ DOMAIN aArg' = PoolThreads /\ DOMAIN aAnswer' = PoolThreads
    BY <2>1, AnswersReturns
  <2>3. aLen \in 1 .. AnswersChan!Cap /\ aHead \in 0 .. AnswersChan!Cap - 1
    BY <2>1 DEF RingsOK
  <2>4. aHead \in LiveAnswers /\ LiveAnswers' = LiveAnswers \ {aHead}
    <3>1. aHead' = IF aHead + 1 = AnswersChan!Cap THEN 0 ELSE aHead + 1
      BY <2>1
    <3>2. /\ aHead \in Live(aHead, aLen, AnswersChan!Cap)
          /\ Live(aHead', aLen - 1, AnswersChan!Cap) = Live(aHead, aLen, AnswersChan!Cap) \ {aHead}
      BY <2>3, <3>1, LiveShrinks
    <3> QED BY <2>1, <3>2 DEF LiveAnswers
  <2>5. AnswersTyped'
    <3>1. aHead' \in 0 .. AnswersChan!Cap - 1 /\ aLen' \in 0 .. AnswersChan!Cap
      BY <2>1, <2>3
    <3> QED BY <2>1, <2>2, <3>1 DEF AnswersTyped, RingsOK
  <2> QED BY <2>1, <2>2, <2>4, <2>5 DEF AnswersEnds
<1> QED BY <1>1, <1>3, <1>4, <1>5 DEF AnswersChan!Locked

-----------------------------------------------------------------------------
(* A job is asked for until a worker hands its answer over.                  *)
Asked(j) == \E p \in {"unsent", "sending", "queued", "received"} : \E x \in Spots : Holds(p, x, j)
Handed(j) == \E p \in {"answering", "answered", "taking", "got"} : \E x \in Spots : Holds(p, x, j)

NoneHandedOver == \A j \in Jobs : (Asked(j)' => Asked(j)) /\ (Handed(j)' => Handed(j))
Kept == OnePlace' /\ NoneHandedOver

(* A step after which no job is anywhere new, and one that moves what was at *)
(* one spot to another, keep every job in one place.                         *)
LEMMA StayKeeps ==
  ASSUME OnePlace,
         \A j \in Jobs : \A p \in PlaceNames : \A x \in Spots : Holds(p, x, j)' => Holds(p, x, j)
  PROVE  Kept
<1>1. OnePlace'
  BY DEF OnePlace, Spots
<1>2. Spots' = Spots
  BY DEF Spots, JobsChan!Cap, AnswersChan!Cap
<1>3. NoneHandedOver
  BY <1>2 DEF NoneHandedOver, Asked, Handed, PlaceNames
<1> QED BY <1>1, <1>3 DEF Kept

Moved(p0, x0, p1, x1) ==
  \A j \in Jobs : \A p \in PlaceNames : \A x \in Spots :
    Holds(p, x, j)' =>
      \/ Holds(p, x, j) /\ ~(p = p0 /\ x = x0)
      \/ p = p1 /\ x = x1 /\ Holds(p0, x0, j)

LEMMA MoveKeeps ==
  ASSUME OnePlace, NEW p0 \in PlaceNames, NEW x0 \in Spots, NEW p1, NEW x1,
         Moved(p0, x0, p1, x1)
  PROVE  OnePlace'
<1> SUFFICES ASSUME NEW j \in Jobs, NEW p \in PlaceNames, NEW q \in PlaceNames,
                    NEW x \in Spots, NEW y \in Spots, Holds(p, x, j)', Holds(q, y, j)'
             PROVE  p = q /\ x = y
  BY DEF OnePlace, Spots, JobsChan!Cap, AnswersChan!Cap
<1>1. /\ \/ Holds(p, x, j) /\ ~(p = p0 /\ x = x0)
         \/ p = p1 /\ x = x1 /\ Holds(p0, x0, j)
      /\ \/ Holds(q, y, j) /\ ~(q = p0 /\ y = x0)
         \/ q = p1 /\ y = x1 /\ Holds(p0, x0, j)
  BY DEF Moved
<1> QED BY <1>1 DEF OnePlace

(* A move on one side of the answer keeps what is asked and what is handed.  *)
SameSide(p, q) ==
  \/ {p, q} \subseteq {"unsent", "sending", "queued", "received"}
  \/ {p, q} \subseteq {"answering", "answered", "taking", "got"}

LEMMA MoveStays ==
  ASSUME OnePlace, NEW p0, NEW p1, SameSide(p0, p1), NEW x0 \in Spots, NEW x1,
         Moved(p0, x0, p1, x1)
  PROVE  Kept
<1>1. p0 \in PlaceNames
  BY DEF SameSide, PlaceNames
<1>2. OnePlace'
  BY <1>1, MoveKeeps
<1>3. Spots' = Spots
  BY DEF Spots, JobsChan!Cap, AnswersChan!Cap
<1>4. ASSUME NEW j \in Jobs, Asked(j)' PROVE Asked(j)
  <2>1. PICK p \in {"unsent", "sending", "queued", "received"}, x \in Spots : Holds(p, x, j)'
    BY <1>3, <1>4 DEF Asked
  <2>2. Holds(p, x, j) \/ (p = p1 /\ Holds(p0, x0, j))
    BY <2>1 DEF Moved, PlaceNames
  <2> QED BY <2>1, <2>2 DEF Asked, SameSide
<1>5. ASSUME NEW j \in Jobs, Handed(j)' PROVE Handed(j)
  <2>1. PICK p \in {"answering", "answered", "taking", "got"}, x \in Spots : Holds(p, x, j)'
    BY <1>3, <1>5 DEF Handed
  <2>2. Holds(p, x, j) \/ (p = p1 /\ Holds(p0, x0, j))
    BY <2>1 DEF Moved, PlaceNames
  <2> QED BY <2>1, <2>2 DEF Handed, SameSide
<1> QED BY <1>2, <1>4, <1>5 DEF Kept, NoneHandedOver

(* Inside the jobs channel main's job moves into the ring, and a worker's    *)
(* comes out of it.                                                          *)
LEMMA InJobsMoves ==
  ASSUME RoundTripInv, NEW t \in PoolThreads, InJobs(t)
  PROVE  Kept
<1>1. /\ JobsTyped' /\ JobsOthers(t) /\ jPc[t] # "idle"
      /\ \/ jPc'[t] # "idle" /\ UNCHANGED <<jSlots, LiveJobs, jArg, jAnswer>>
         \/ JobsEnds(t)
  BY JobsMoves, JobsLocked DEF InJobs, RoundTripInv, PoolInv, PoolTypeOK, OnlyLeaves
<1>2. UNCHANGED <<LiveAnswers, aSlots, aPc, aArg, aAnswer, stage, toSend, got, worker>>
  BY DEF InJobs, answersVars, progVars, LiveAnswers, AnswersChan!Cap
<1>3. OnePlace /\ OneWay /\ Main \in PoolThreads /\ Workers \subseteq PoolThreads
  BY DEF RoundTripInv, PoolThreads
<1> HIDE DEF RoundTripInv
<1>4. CASE jPc'[t] # "idle" /\ UNCHANGED <<jSlots, LiveJobs, jArg, jAnswer>>
  BY <1>1, <1>2, <1>3, <1>4, StayKeeps DEF Holds, JobsOthers
<1>5. CASE jPc'[t] = "idle" /\ jAnswer'[t] \notin Jobs /\ UNCHANGED <<jSlots, LiveJobs>>
  BY <1>1, <1>2, <1>3, <1>5, StayKeeps DEF Holds, JobsOthers
<1>6. ASSUME jPc'[t] = "idle", jPc[t] = "send", NEW i \in (0 .. JobsChan!Cap - 1) \ LiveJobs,
             LiveJobs' = LiveJobs \cup {i}, jSlots' = [jSlots EXCEPT ![i] = jArg[t]]
      PROVE  Kept
  <2>1. t = Main
    BY <1>3, <1>6 DEF OneWay, PoolThreads
  <2>2. \A x \in LiveJobs : jSlots'[x] = jSlots[x]
    BY <1>6
  <2>3. jSlots'[i] = jArg[t]
    BY <1>6 DEF RoundTripInv, RingsOK
  <2>4. Moved("sending", Main, "queued", i)
    BY <1>1, <1>2, <1>3, <1>6, <2>1, <2>2, <2>3, MainAssumption DEF Moved, Holds, JobsOthers
  <2> QED BY <1>3, <2>4, MoveStays DEF SameSide, Spots
<1>7. ASSUME jPc'[t] = "idle", jPc[t] = "recv", NEW i \in LiveJobs,
             LiveJobs' = LiveJobs \ {i}, jSlots' = jSlots, jAnswer'[t] = jSlots[i]
      PROVE  Kept
  <2>1. t \in Workers
    BY <1>3, <1>7 DEF OneWay, PoolThreads
  <2>2. Moved("queued", i, "received", t)
    BY <1>1, <1>2, <1>3, <1>7, <2>1, MainAssumption DEF Moved, Holds, JobsOthers
  <2>3. i \in Spots
    BY JobsRing DEF LiveJobs, Live, Spots, RoundTripInv
  <2> QED BY <1>3, <2>2, <2>3, MoveStays DEF SameSide
<1> QED BY <1>1, <1>4, <1>5, <1>6, <1>7 DEF JobsEnds


(* Inside the answers channel it is the other way round.                     *)
LEMMA InAnswersMoves ==
  ASSUME RoundTripInv, NEW t \in PoolThreads, InAnswers(t)
  PROVE  Kept
<1>1. /\ AnswersTyped' /\ AnswersOthers(t) /\ aPc[t] # "idle"
      /\ \/ aPc'[t] # "idle" /\ UNCHANGED <<aSlots, LiveAnswers, aArg, aAnswer>>
         \/ AnswersEnds(t)
  BY AnswersMoves, AnswersLocked DEF InAnswers, RoundTripInv, PoolInv, PoolTypeOK, OnlyLeaves
<1>2. UNCHANGED <<LiveJobs, jSlots, jPc, jArg, jAnswer, stage, toSend, got, worker>>
  BY DEF InAnswers, jobsVars, progVars, LiveJobs, JobsChan!Cap
<1>3. OnePlace /\ OneWay /\ Main \in PoolThreads /\ Workers \subseteq PoolThreads
  BY DEF RoundTripInv, PoolThreads
<1> HIDE DEF RoundTripInv
<1>4. CASE aPc'[t] # "idle" /\ UNCHANGED <<aSlots, LiveAnswers, aArg, aAnswer>>
  BY <1>1, <1>2, <1>3, <1>4, StayKeeps DEF Holds, AnswersOthers
<1>5. CASE aPc'[t] = "idle" /\ aAnswer'[t] \notin Jobs /\ UNCHANGED <<aSlots, LiveAnswers>>
  BY <1>1, <1>2, <1>3, <1>5, StayKeeps DEF Holds, AnswersOthers
<1>6. ASSUME aPc'[t] = "idle", aPc[t] = "send",
             NEW i \in (0 .. AnswersChan!Cap - 1) \ LiveAnswers,
             LiveAnswers' = LiveAnswers \cup {i}, aSlots' = [aSlots EXCEPT ![i] = aArg[t]]
      PROVE  Kept
  <2>1. t \in Workers
    BY <1>3, <1>6 DEF OneWay, PoolThreads
  <2>2. \A x \in LiveAnswers : aSlots'[x] = aSlots[x]
    BY <1>6
  <2>3. aSlots'[i] = aArg[t]
    BY <1>6 DEF RoundTripInv, RingsOK
  <2>4. Moved("answering", t, "answered", i)
    BY <1>1, <1>2, <1>3, <1>6, <2>1, <2>2, <2>3, MainAssumption DEF Moved, Holds, AnswersOthers
  <2> QED BY <1>3, <2>1, <2>4, MoveStays DEF SameSide, Spots
<1>7. ASSUME aPc'[t] = "idle", aPc[t] = "recv", NEW i \in LiveAnswers,
             LiveAnswers' = LiveAnswers \ {i}, aSlots' = aSlots, aAnswer'[t] = aSlots[i]
      PROVE  Kept
  <2>1. t = Main
    BY <1>3, <1>7 DEF OneWay, PoolThreads
  <2>2. Moved("answered", i, "taking", Main)
    BY <1>1, <1>2, <1>3, <1>7, <2>1, MainAssumption DEF Moved, Holds, AnswersOthers
  <2>3. i \in Spots
    BY AnswersRing DEF LiveAnswers, Live, Spots, RoundTripInv
  <2> QED BY <1>3, <2>2, <2>3, MoveStays DEF SameSide
<1> QED BY <1>1, <1>4, <1>5, <1>6, <1>7 DEF AnswersEnds

(* The rest of RoundTripInv, inside a channel.                               *)
LEMMA InsideRest ==
  ASSUME RoundTripInv, NEW t \in PoolThreads, InJobs(t) \/ InAnswers(t)
  PROVE  RingsOK' /\ OneWay' /\ CountOK' /\ RealJobs'
<1>1. CASE InJobs(t)
  <2>1. /\ JobsTyped' /\ JobsOthers(t) /\ jPc[t] # "idle"
        /\ \/ jPc'[t] # "idle" /\ UNCHANGED <<jSlots, LiveJobs, jArg, jAnswer>>
           \/ JobsEnds(t)
    BY <1>1, JobsMoves, JobsLocked DEF InJobs, RoundTripInv, PoolInv, PoolTypeOK, OnlyLeaves
  <2>2. UNCHANGED <<aHead, aLen, aSlots, aPc, aArg, aAnswer, stage, toSend, got, taken, worker>>
    BY <1>1 DEF InJobs, answersVars, progVars
  <2>3. RingsOK'
    BY <2>1, <2>2 DEF JobsTyped, RingsOK, RoundTripInv, AnswersChan!Cap, JobsChan!Cap
  <2>4. OneWay'
    BY <2>1, <2>2 DEF JobsOthers, OneWay, RoundTripInv, PoolThreads
  <2>5. RealJobs'
    <3>1. /\ RealJobs /\ OneWay /\ Main \in PoolThreads /\ Workers \subseteq PoolThreads
          /\ DOMAIN jSlots = 0 .. JobsChan!Cap - 1
      BY DEF RoundTripInv, PoolThreads, RingsOK
    <3>2. t \in Workers => jPc[t] # "send"
      BY <3>1 DEF OneWay
    <3>3. t # Main => t \in Workers
      BY DEF PoolThreads
    <3>4. \A x \in LiveJobs' : jSlots'[x] \in Jobs
      <4>1. CASE jPc[t] = "send" /\ jPc'[t] = "idle"
        <5>1. jArg[t] \in Jobs
          BY <2>1, <3>1, <3>2, <3>3, <4>1 DEF RealJobs
        <5>2. LiveJobs \subseteq 0 .. JobsChan!Cap - 1 /\ \A x \in LiveJobs : jSlots[x] \in Jobs
          BY <3>1 DEF LiveJobs, Live, RealJobs
        <5>3. \/ UNCHANGED <<jSlots, LiveJobs>>
              \/ \E i \in (0 .. JobsChan!Cap - 1) \ LiveJobs :
                   LiveJobs' = LiveJobs \cup {i} /\ jSlots' = [jSlots EXCEPT ![i] = jArg[t]]
          BY <2>1, <4>1 DEF JobsEnds
        <5> QED BY <3>1, <5>1, <5>2, <5>3
      <4>2. CASE ~(jPc[t] = "send" /\ jPc'[t] = "idle")
        BY <2>1, <3>1, <4>2 DEF RealJobs, JobsEnds
      <4> QED BY <4>1, <4>2
    <3>5. jPc'[Main] # "idle" => jArg'[Main] \in Jobs
      BY <2>1, <3>1 DEF RealJobs, JobsOthers, JobsEnds
    <3>6. ASSUME NEW w \in Workers, worker'[w] = "receiving", jPc'[w] = "idle"
          PROVE  jAnswer'[w] \in Jobs \cup {"drained"}
      <4>1. CASE w # t
        BY <2>1, <2>2, <3>1, <3>6, <4>1 DEF RealJobs, JobsOthers
      <4>2. CASE w = t
        BY <2>1, <2>2, <3>1, <3>2, <3>6, <4>2 DEF RealJobs, JobsEnds
      <4> QED BY <4>1, <4>2
    <3> QED BY <3>4, <3>5, <3>6 DEF RealJobs
  <2> QED BY <2>2, <2>3, <2>4, <2>5 DEF CountOK, RoundTripInv
<1>2. CASE InAnswers(t)
  <2>1. AnswersTyped' /\ AnswersOthers(t)
    BY <1>2, AnswersMoves DEF InAnswers, RoundTripInv, PoolInv
  <2>2. UNCHANGED <<jHead, jLen, jSlots, jPc, jArg, jAnswer, stage, toSend, got, taken, worker>>
    BY <1>2 DEF InAnswers, jobsVars, progVars
  <2>3. RingsOK'
    BY <2>1, <2>2 DEF AnswersTyped, RingsOK, RoundTripInv, AnswersChan!Cap, JobsChan!Cap
  <2>4. OneWay'
    BY <2>1, <2>2 DEF AnswersOthers, OneWay, RoundTripInv, PoolThreads
  <2>5. RealJobs'
    <3>1. LiveJobs' = LiveJobs
      BY <2>2 DEF LiveJobs, JobsChan!Cap
    <3> QED BY <2>2, <3>1 DEF RealJobs, RoundTripInv
  <2> QED BY <2>2, <2>3, <2>4, <2>5 DEF CountOK, RoundTripInv
<1> QED BY <1>1, <1>2

-----------------------------------------------------------------------------
LEMMA WorkerMoves ==
  ASSUME RoundTripInv, NEW w \in Workers, WorkerStep(w)
  PROVE  /\ OnePlace' /\ RingsOK' /\ OneWay' /\ CountOK' /\ RealJobs'
         /\ \/ ~WorkerAnswers(w) /\ NoneHandedOver
            \/ WorkerAnswers(w) /\ Moved("received", w, "answering", w)
<1>0. /\ OnePlace /\ OneWay /\ RingsOK /\ CountOK /\ PoolTypeOK /\ RealJobs
      /\ w \in PoolThreads /\ w \in Spots /\ Main # w /\ Main \in PoolThreads
  BY MainAssumption DEF RoundTripInv, PoolInv, PoolThreads, Spots
<1> HIDE DEF RoundTripInv
<1>1. UNCHANGED <<jHead, jLen, jSlots, aHead, aLen, aSlots, stage, toSend, got, taken>>
  BY DEF WorkerStep, WorkerReceives, WorkerAnswers, WorkerCounts, WorkerExits, jobsVars,
         answersVars, JobsChan!CallRecv, JobsChan!chan, AnswersChan!CallSend, AnswersChan!chan
<1>2. LiveJobs' = LiveJobs /\ LiveAnswers' = LiveAnswers
  BY <1>1 DEF LiveJobs, LiveAnswers, JobsChan!Cap, AnswersChan!Cap
<1>3. CountOK'
  BY <1>0, <1>1 DEF CountOK
<1>4. CASE WorkerReceives(w)
  <2>1. /\ jPc' = [jPc EXCEPT ![w] = "recv"] /\ jAnswer' = [jAnswer EXCEPT ![w] = "none"]
        /\ worker' = [worker EXCEPT ![w] = "receiving"]
        /\ UNCHANGED <<jArg, aPc, aArg, aAnswer>>
    BY <1>4 DEF WorkerReceives, JobsChan!CallRecv, answersVars
  <2>2. RingsOK' /\ OneWay'
    BY <1>0, <1>1, <2>1 DEF RingsOK, OneWay, PoolTypeOK, PoolThreads, JobsChan!Cap, AnswersChan!Cap
  <2>3. Kept
    BY <1>0, <1>1, <1>2, <2>1, StayKeeps DEF Holds, PoolTypeOK, RingsOK, PoolThreads
  <2>4. RealJobs'
    BY <1>0, <1>1, <1>2, <2>1 DEF RealJobs, PoolTypeOK, RingsOK, PoolThreads
  <2>5. ~WorkerAnswers(w)
    BY <1>4 DEF WorkerReceives, WorkerAnswers
  <2> QED BY <1>3, <2>2, <2>3, <2>4, <2>5 DEF Kept
<1>5. CASE WorkerAnswers(w)
  <2>1. /\ aPc' = [aPc EXCEPT ![w] = "send"] /\ aArg' = [aArg EXCEPT ![w] = jAnswer[w]]
        /\ aAnswer' = [aAnswer EXCEPT ![w] = "none"]
        /\ worker[w] = "receiving" /\ jPc[w] = "idle"
        /\ worker' = [worker EXCEPT ![w] = "answering"]
        /\ UNCHANGED <<jArg, jPc, jAnswer>>
    BY <1>5 DEF WorkerAnswers, AnswersChan!CallSend, jobsVars
  <2>2. RingsOK' /\ OneWay'
    BY <1>0, <1>1, <2>1 DEF RingsOK, OneWay, PoolTypeOK, PoolThreads, JobsChan!Cap, AnswersChan!Cap
  <2>3. Moved("received", w, "answering", w)
    BY <1>0, <1>1, <1>2, <2>1 DEF Moved, Holds, PoolTypeOK, RingsOK, PoolThreads
  <2>4. RealJobs'
    BY <1>0, <1>1, <1>2, <2>1 DEF RealJobs, PoolTypeOK
  <2> QED BY <1>0, <1>3, <1>5, <2>2, <2>3, <2>4, MoveKeeps DEF PlaceNames
<1>6. CASE WorkerCounts(w) \/ WorkerExits(w)
  <2>1. /\ UNCHANGED <<jPc, jArg, jAnswer, aPc, aArg, aAnswer>>
        /\ \E to \in {"loop", "exited"} : worker' = [worker EXCEPT ![w] = to]
    BY <1>6 DEF WorkerCounts, WorkerExits, jobsVars, answersVars
  <2>2. RingsOK' /\ OneWay'
    BY <1>0, <1>1, <2>1 DEF RingsOK, OneWay, JobsChan!Cap, AnswersChan!Cap
  <2>3. Kept
    BY <1>0, <1>1, <1>2, <2>1, StayKeeps DEF Holds, PoolTypeOK
  <2>4. RealJobs'
    BY <1>0, <1>1, <1>2, <2>1 DEF RealJobs, PoolTypeOK
  <2>5. ~WorkerAnswers(w)
    BY <1>6 DEF WorkerCounts, WorkerExits, WorkerAnswers
  <2> QED BY <1>3, <2>2, <2>3, <2>4, <2>5 DEF Kept
<1> QED BY <1>4, <1>5, <1>6 DEF WorkerStep

(* A step of main that changes no channel: the job places are its own.       *)
LEMMA MainMoves ==
  ASSUME RoundTripInv, MainStep
  PROVE  Kept /\ RealJobs' /\ RingsOK' /\ OneWay' /\ CountOK'
<1>0. /\ OnePlace /\ OneWay /\ RingsOK /\ CountOK /\ PoolTypeOK /\ InsideWhere /\ RealJobs
      /\ Main \in PoolThreads /\ Main \in Spots /\ Main \notin Workers /\ Workers \subseteq PoolThreads
  BY MainAssumption DEF RoundTripInv, PoolInv, PoolThreads, Spots
<1> HIDE DEF RoundTripInv
<1>1. UNCHANGED <<jHead, jLen, jSlots, aHead, aLen, aSlots>>
  BY DEF MainStep, SpawnWorker, MainSends, MainClosesJobs, MainReceives, MainTakes, JoinWorkers,
         MainClosesAnswers, MainFrees, jobsVars, answersVars, JobsChan!CallSend, JobsChan!chan,
         JobsChan!CloseChan, AnswersChan!CallRecv, AnswersChan!chan, AnswersChan!CloseChan
<1>2. LiveJobs' = LiveJobs /\ LiveAnswers' = LiveAnswers
  BY <1>1 DEF LiveJobs, LiveAnswers, JobsChan!Cap, AnswersChan!Cap
<1>3. ASSUME NEW w \in Workers, SpawnWorker(w) PROVE Kept /\ RealJobs' /\ RingsOK' /\ OneWay' /\ CountOK'
  <2>1. /\ UNCHANGED <<jPc, jArg, jAnswer, aPc, aArg, aAnswer, taken, toSend, got>>
        /\ stage' \in {"spawn", "send"}
        /\ worker' = [worker EXCEPT ![w] = "loop"]
    BY <1>3 DEF SpawnWorker, jobsVars, answersVars
  <2>2. RingsOK' /\ OneWay' /\ CountOK'
    BY <1>0, <1>1, <2>1 DEF RingsOK, OneWay, CountOK, JobsChan!Cap, AnswersChan!Cap
  <2>3. Kept
    BY <1>0, <1>1, <1>2, <2>1, StayKeeps DEF Holds, PoolTypeOK
  <2>4. RealJobs'
    BY <1>0, <1>1, <1>2, <2>1 DEF RealJobs, PoolTypeOK, RingsOK
  <2> QED BY <2>2, <2>3, <2>4
<1>4. ASSUME NEW j \in Jobs, MainSends(j) PROVE Kept /\ RealJobs' /\ RingsOK' /\ OneWay' /\ CountOK'
  <2>1. /\ j \in toSend /\ toSend' = toSend \ {j}
        /\ jPc[Main] = "idle" /\ jPc' = [jPc EXCEPT ![Main] = "send"]
        /\ jArg' = [jArg EXCEPT ![Main] = j] /\ jAnswer' = [jAnswer EXCEPT ![Main] = "none"]
        /\ UNCHANGED <<aPc, aArg, aAnswer, stage, taken, got, worker>>
    BY <1>4 DEF MainSends, JobsChan!CallSend, answersVars
  <2>2. RingsOK' /\ OneWay' /\ CountOK'
    BY <1>0, <1>1, <2>1 DEF RingsOK, OneWay, CountOK, PoolTypeOK, JobsChan!Cap, AnswersChan!Cap
  <2>3. OnePlace'
    <3> SUFFICES ASSUME NEW k \in Jobs, NEW p \in PlaceNames, NEW q \in PlaceNames,
                        NEW x \in Spots, NEW y \in Spots, Holds(p, x, k)', Holds(q, y, k)'
                 PROVE  p = q /\ x = y
      BY DEF OnePlace, Spots, JobsChan!Cap, AnswersChan!Cap
    <3>1. CASE k # j
      <4>1. \A r \in PlaceNames : \A z \in Spots : Holds(r, z, k)' => Holds(r, z, k)
        BY <1>0, <1>1, <1>2, <2>1, <3>1 DEF Holds, PoolTypeOK, RingsOK
      <4> QED BY <1>0, <4>1 DEF OnePlace
    <3>2. CASE k = j
      <4>1. Holds("unsent", Main, j)
        BY <2>1 DEF Holds
      <4>2. \A r \in PlaceNames : \A z \in Spots :
              Holds(r, z, j)' => \/ r = "sending" /\ z = Main
                                 \/ Holds(r, z, j) /\ ~(r = "unsent" /\ z = Main)
        BY <1>0, <1>1, <1>2, <2>1 DEF Holds, PoolTypeOK, RingsOK
      <4> QED BY <1>0, <3>2, <4>1, <4>2 DEF OnePlace, PlaceNames
    <3> QED BY <3>1, <3>2
  <2>4. NoneHandedOver
    <3>1. Spots' = Spots
      BY DEF Spots, JobsChan!Cap, AnswersChan!Cap
    <3>2. ASSUME NEW k \in Jobs, NEW p \in PlaceNames, NEW x \in Spots, Holds(p, x, k)'
          PROVE  Holds(p, x, k) \/ (k = j /\ p = "sending")
      BY <1>0, <1>1, <1>2, <2>1, <3>2 DEF Holds, PoolTypeOK, RingsOK
    <3>3. Asked(j)
      BY <1>0, <2>1 DEF Asked, Holds
    <3> QED BY <3>1, <3>2, <3>3 DEF NoneHandedOver, Asked, Handed, PlaceNames
  <2>5. RealJobs'
    BY <1>0, <1>1, <1>2, <2>1 DEF RealJobs, PoolTypeOK, RingsOK
  <2> QED BY <2>2, <2>3, <2>4, <2>5 DEF Kept
<1>5. CASE MainClosesJobs
  <2>1. /\ jPc' = [u \in PoolThreads |-> JobsChan!Resumed(jPc[u])] /\ jPc[Main] = "idle"
        /\ stage = "send" /\ stage' = "collect"
        /\ UNCHANGED <<jArg, jAnswer, aPc, aArg, aAnswer, taken, toSend, got, worker>>
    BY <1>5 DEF MainClosesJobs, JobsChan!CloseChan, answersVars
  <2>2. \A u \in PoolThreads :
          /\ (jPc'[u] = "idle") <=> (jPc[u] = "idle")
          /\ jPc[u] \in {"idle", "send", "not_full"} => jPc'[u] \in {"idle", "send", "not_full"}
          /\ jPc[u] \in {"idle", "recv", "not_empty"} => jPc'[u] \in {"idle", "recv", "not_empty"}
    BY <1>0, <2>1 DEF JobsChan!Resumed, PoolTypeOK, Points
  <2>3. RingsOK' /\ OneWay' /\ CountOK'
    BY <1>0, <1>1, <2>1, <2>2 DEF RingsOK, OneWay, CountOK, JobsChan!Cap, AnswersChan!Cap
  <2>4. Kept
    BY <1>0, <1>1, <1>2, <2>1, <2>2, StayKeeps DEF Holds
  <2>5. RealJobs'
    BY <1>0, <1>1, <1>2, <2>1, <2>2 DEF RealJobs, PoolTypeOK, RingsOK
  <2> QED BY <2>3, <2>4, <2>5
<1>6. CASE MainReceives
  <2>1. /\ aPc' = [aPc EXCEPT ![Main] = "recv"] /\ aAnswer' = [aAnswer EXCEPT ![Main] = "none"]
        /\ stage = "collect" /\ stage' = "taking"
        /\ UNCHANGED <<jPc, jArg, jAnswer, aArg, taken, toSend, got, worker>>
    BY <1>6 DEF MainReceives, AnswersChan!CallRecv, jobsVars
  <2>2. RingsOK' /\ OneWay' /\ CountOK'
    BY <1>0, <1>1, <2>1 DEF RingsOK, OneWay, CountOK, PoolTypeOK, JobsChan!Cap, AnswersChan!Cap
  <2>3. Kept
    BY <1>0, <1>1, <1>2, <2>1, StayKeeps DEF Holds, PoolTypeOK
  <2>4. RealJobs'
    BY <1>0, <1>1, <1>2, <2>1 DEF RealJobs, PoolTypeOK, RingsOK
  <2> QED BY <2>2, <2>3, <2>4
<1>7. CASE MainTakes
  <2> DEFINE a == aAnswer[Main]
  <2>1. /\ a \in Jobs /\ stage = "taking" /\ aPc[Main] = "idle"
        /\ got' = [got EXCEPT ![a] = @ + 1] /\ taken' = taken + 1
        /\ stage' = IF taken + 1 = Cardinality(Jobs) THEN "join" ELSE "collect"
        /\ UNCHANGED <<jPc, jArg, jAnswer, aPc, aArg, aAnswer, toSend, worker>>
    BY <1>7 DEF MainTakes, jobsVars, answersVars
  <2>2. Holds("taking", Main, a)
    BY <2>1 DEF Holds
  <2>3. got[a] = 0
    <3>1. ~Holds("got", Main, a)
      BY <1>0, <2>1, <2>2 DEF OnePlace, PlaceNames
    <3> QED BY <3>1 DEF Holds
  <2>4. Moved("taking", Main, "got", Main)
    BY <1>0, <1>1, <1>2, <2>1, <2>3 DEF Moved, Holds, CountOK
  <2>5. CountOK'
    <3>1. got' \in [Jobs -> {0, 1}] /\ got' = [got EXCEPT ![a] = 1]
      BY <1>0, <2>1, <2>3 DEF CountOK
    <3>2. {j \in Jobs : got'[j] = 1} = {j \in Jobs : got[j] = 1} \cup {a}
      BY <1>0, <2>1, <3>1 DEF CountOK
    <3>3. IsFiniteSet({j \in Jobs : got[j] = 1}) /\ a \notin {j \in Jobs : got[j] = 1}
      BY <2>3, JobsAssumption, FS_Subset
    <3>4. Cardinality({j \in Jobs : got'[j] = 1}) = Cardinality({j \in Jobs : got[j] = 1}) + 1
      BY <3>2, <3>3, FS_AddElement
    <3> QED BY <1>0, <2>1, <3>1, <3>4 DEF CountOK
  <2>6. RingsOK' /\ OneWay'
    BY <1>0, <1>1, <2>1 DEF RingsOK, OneWay, JobsChan!Cap, AnswersChan!Cap
  <2>7. RealJobs'
    BY <1>0, <1>1, <1>2, <2>1 DEF RealJobs, PoolTypeOK, RingsOK
  <2> QED BY <1>0, <2>4, <2>5, <2>6, <2>7, MoveStays DEF SameSide
<1>8. CASE JoinWorkers \/ MainFrees
  <2>1. /\ UNCHANGED <<jPc, jArg, jAnswer, aPc, aArg, aAnswer, taken, toSend, got, worker>>
        /\ stage \in {"join", "free"} /\ stage' \in {"closeAnswers", "done"}
    BY <1>8 DEF JoinWorkers, MainFrees, jobsVars, answersVars
  <2>2. RingsOK' /\ OneWay' /\ CountOK'
    BY <1>0, <1>1, <2>1 DEF RingsOK, OneWay, CountOK, JobsChan!Cap, AnswersChan!Cap
  <2>3. Kept
    BY <1>0, <1>1, <1>2, <2>1, StayKeeps DEF Holds
  <2>4. RealJobs'
    BY <1>0, <1>1, <1>2, <2>1 DEF RealJobs, PoolTypeOK, RingsOK
  <2> QED BY <2>2, <2>3, <2>4
<1>9. CASE MainClosesAnswers
  <2>1. /\ aPc' = [u \in PoolThreads |-> AnswersChan!Resumed(aPc[u])] /\ aPc[Main] = "idle"
        /\ stage = "closeAnswers" /\ stage' = "free"
        /\ UNCHANGED <<jPc, jArg, jAnswer, aArg, aAnswer, taken, toSend, got, worker>>
    BY <1>9 DEF MainClosesAnswers, AnswersChan!CloseChan, jobsVars
  <2>2. \A u \in PoolThreads :
          /\ (aPc'[u] = "idle") <=> (aPc[u] = "idle")
          /\ aPc[u] \in {"idle", "send", "not_full"} => aPc'[u] \in {"idle", "send", "not_full"}
          /\ aPc[u] \in {"idle", "recv", "not_empty"} => aPc'[u] \in {"idle", "recv", "not_empty"}
    BY <1>0, <2>1 DEF AnswersChan!Resumed, PoolTypeOK, Points
  <2>3. RingsOK' /\ OneWay' /\ CountOK'
    BY <1>0, <1>1, <2>1, <2>2 DEF RingsOK, OneWay, CountOK, JobsChan!Cap, AnswersChan!Cap
  <2>4. Kept
    BY <1>0, <1>1, <1>2, <2>1, <2>2, StayKeeps DEF Holds
  <2>5. RealJobs'
    BY <1>0, <1>1, <1>2, <2>1 DEF RealJobs, PoolTypeOK, RingsOK
  <2> QED BY <2>3, <2>4, <2>5
<1> QED BY <1>3, <1>4, <1>5, <1>6, <1>7, <1>8, <1>9 DEF MainStep

-----------------------------------------------------------------------------
LEMMA RoundTripInitial == PoolInit => RoundTripInv
<1> SUFFICES ASSUME PoolInit PROVE RoundTripInv
  OBVIOUS
<1>1. PoolInv
  BY PoolInitial
<1>2. /\ jPc = [t \in PoolThreads |-> "idle"] /\ aPc = [t \in PoolThreads |-> "idle"]
      /\ jArg = [t \in PoolThreads |-> None] /\ aArg = [t \in PoolThreads |-> None]
      /\ jAnswer = [t \in PoolThreads |-> "none"] /\ aAnswer = [t \in PoolThreads |-> "none"]
      /\ jSlots = [i \in 0 .. JobsChan!Cap - 1 |-> None] /\ jHead = 0 /\ jLen = 0
      /\ aSlots = [i \in 0 .. AnswersChan!Cap - 1 |-> None] /\ aHead = 0 /\ aLen = 0
  BY DEF PoolInit, JobsChan!Init, AnswersChan!Init
<1>3. /\ stage = "spawn" /\ taken = 0 /\ toSend = Jobs /\ got = [j \in Jobs |-> 0]
      /\ worker = [w \in Workers |-> "unborn"]
  BY DEF PoolInit
<1> HIDE DEF PoolInit
<1>4. JobsChan!Cap \in Nat /\ JobsChan!Cap > 0 /\ AnswersChan!Cap \in Nat /\ AnswersChan!Cap > 0
  BY CapsAssumption DEF JobsChan!Cap, AnswersChan!Cap
<1>5. RingsOK
  BY <1>2, <1>4 DEF RingsOK
<1>6. OneWay
  BY <1>2 DEF OneWay, PoolThreads
<1>7. CountOK
  <2>1. {j \in Jobs : got[j] = 1} = {}
    BY <1>3
  <2> QED BY <1>3, <2>1, FS_EmptySet DEF CountOK
<1>8. OnePlace
  <2>1. LiveJobs = {} /\ LiveAnswers = {}
    BY <1>2, <1>4 DEF LiveJobs, LiveAnswers, Live
  <2>2. \A j \in Jobs : \A p \in PlaceNames : \A x \in Spots :
          Holds(p, x, j) => p = "unsent" /\ x = Main
    BY <1>2, <1>3, <2>1 DEF Holds, PoolThreads
  <2> QED BY <2>2 DEF OnePlace
<1>9. RealJobs
  <2>1. LiveJobs = {}
    BY <1>2, <1>4 DEF LiveJobs, Live
  <2> QED BY <1>2, <1>3, <2>1 DEF RealJobs, PoolThreads
<1> QED BY <1>1, <1>5, <1>6, <1>7, <1>8, <1>9 DEF RoundTripInv

LEMMA RoundTripStep == RoundTripInv /\ [PoolNext]_poolVars => RoundTripInv'
<1> SUFFICES ASSUME RoundTripInv, [PoolNext]_poolVars PROVE RoundTripInv'
  OBVIOUS
<1>1. PoolInv'
  BY PoolStep DEF RoundTripInv
<1>2. CASE UNCHANGED poolVars
  <2>1. UNCHANGED <<jHead, jLen, jSlots, jPc, jArg, jAnswer, aHead, aLen, aSlots, aPc, aArg,
                    aAnswer, stage, taken, toSend, got, worker>>
    BY <1>2 DEF poolVars, jobsVars, answersVars, progVars
  <2>2. RingsOK' /\ OneWay' /\ CountOK'
    BY <2>1 DEF RoundTripInv, RingsOK, OneWay, CountOK, JobsChan!Cap, AnswersChan!Cap
  <2>3. LiveJobs' = LiveJobs /\ LiveAnswers' = LiveAnswers
    BY <2>1 DEF LiveJobs, LiveAnswers, JobsChan!Cap, AnswersChan!Cap
  <2>4. OnePlace /\ \A j \in Jobs : \A p \in PlaceNames : \A x \in Spots :
          Holds(p, x, j)' => Holds(p, x, j)
    BY <2>1, <2>3 DEF Holds, RoundTripInv
  <2>5. Kept
    BY <2>4, StayKeeps
  <2>6. RealJobs'
    BY <2>1, <2>3 DEF RealJobs, RoundTripInv
  <2> QED BY <1>1, <2>2, <2>5, <2>6 DEF RoundTripInv, Kept
<1>3. CASE MainStep
  BY <1>1, <1>3, MainMoves DEF RoundTripInv, Kept
<1>4. ASSUME NEW w \in Workers, WorkerStep(w) PROVE RoundTripInv'
  BY <1>1, <1>4, WorkerMoves DEF RoundTripInv
<1>5. ASSUME NEW t \in PoolThreads, InJobs(t) \/ InAnswers(t) PROVE RoundTripInv'
  BY <1>1, <1>5, InJobsMoves, InAnswersMoves, InsideRest DEF RoundTripInv, Kept
<1> QED BY <1>2, <1>3, <1>4, <1>5 DEF PoolNext, Finished

-----------------------------------------------------------------------------
(* The workers' results.  A worker has handed over what it counted, and one  *)
(* more between its send and its count.                                      *)
Due(w) == handled[w] + (IF worker[w] = "answering" THEN 1 ELSE 0)
Given == UNION {{w} \X (1 .. Due(w)) : w \in Workers}
AskedJobs == {j \in Jobs : Asked(j)}
HandedJobs == {j \in Jobs : Handed(j)}

WorkCounted ==
  /\ handled \in [Workers -> Nat]
  /\ IsFiniteSet(Given)
  /\ Cardinality(HandedJobs) <= Cardinality(Given)
  /\ Cardinality(Given) + Cardinality(AskedJobs) <= Cardinality(Jobs)

LEMMA WorkQuiet ==
  ASSUME WorkCounted, NoneHandedOver, handled' \in [Workers -> Nat],
         \A w \in Workers : Due(w)' = Due(w)
  PROVE  WorkCounted'
<1>1. Given' = Given
  BY DEF Given
<1>2. AskedJobs' \subseteq AskedJobs /\ HandedJobs' \subseteq HandedJobs
  BY DEF AskedJobs, HandedJobs, NoneHandedOver
<1>3. IsFiniteSet(AskedJobs) /\ IsFiniteSet(HandedJobs) /\ IsFiniteSet(Jobs)
  BY JobsAssumption, FS_Subset DEF AskedJobs, HandedJobs
<1>4. /\ Cardinality(AskedJobs') <= Cardinality(AskedJobs) /\ IsFiniteSet(AskedJobs')
      /\ Cardinality(HandedJobs') <= Cardinality(HandedJobs) /\ IsFiniteSet(HandedJobs')
  BY <1>2, <1>3, FS_Subset
<1>5. /\ Cardinality(AskedJobs) \in Nat /\ Cardinality(HandedJobs) \in Nat /\ Cardinality(Jobs) \in Nat
      /\ Cardinality(AskedJobs') \in Nat /\ Cardinality(HandedJobs') \in Nat /\ Cardinality(Given) \in Nat
  BY <1>3, <1>4, FS_CardinalityType DEF WorkCounted
<1> QED BY <1>1, <1>4, <1>5 DEF WorkCounted

LEMMA WorkHandedOver ==
  ASSUME RoundTripInv, WorkCounted, NEW w \in Workers, WorkerAnswers(w),
         Moved("received", w, "answering", w)
  PROVE  WorkCounted'
<1> DEFINE j == jAnswer[w]
           g == <<w, handled[w] + 1>>
<1>1. /\ worker[w] = "receiving" /\ jPc[w] = "idle" /\ worker' = [worker EXCEPT ![w] = "answering"]
      /\ handled' = handled /\ j \in Jobs /\ handled \in [Workers -> Nat]
      /\ worker \in [Workers -> {"unborn", "loop", "receiving", "answering", "exited"}]
  BY DEF WorkerAnswers, RoundTripInv, RealJobs, PoolInv, PoolTypeOK, WorkCounted
<1>2. w \in Spots /\ Spots' = Spots /\ OnePlace
  BY DEF Spots, PoolThreads, JobsChan!Cap, AnswersChan!Cap, RoundTripInv
<1>3. Holds("received", w, j)
  BY <1>1 DEF Holds
<1> HIDE DEF j
<1>4. /\ Due(w)' = Due(w) + 1 /\ Due(w) = handled[w] /\ handled[w] \in Nat
      /\ \A v \in Workers : v # w => Due(v)' = Due(v)
  BY <1>1 DEF Due
<1>5. Given' = Given \cup {g} /\ g \notin Given
  <2>1. Given' = UNION {{v} \X (1 .. Due(v)') : v \in Workers}
    BY DEF Given
  <2>2. 1 .. Due(w)' = (1 .. Due(w)) \cup {handled[w] + 1} /\ handled[w] + 1 \notin 1 .. Due(w)
    BY <1>4
  <2>3. {w} \X (1 .. Due(w)') = ({w} \X (1 .. Due(w))) \cup {g}
    BY <2>2
  <2>4. \A x \in Given' : x \in Given \cup {g}
    <3>1. SUFFICES ASSUME NEW v \in Workers, NEW x \in {v} \X (1 .. Due(v)') PROVE x \in Given \cup {g}
      BY <2>1
    <3> QED BY <1>4, <2>3 DEF Given
  <2>5. Given \subseteq Given'
    <3>1. SUFFICES ASSUME NEW v \in Workers, NEW x \in {v} \X (1 .. Due(v)) PROVE x \in Given'
      BY DEF Given
    <3>2. x \in {v} \X (1 .. Due(v)')
      BY <1>4, <2>3
    <3> QED BY <2>1, <3>2
  <2>6. g \in Given'
    BY <2>1, <2>3
  <2>7. g \notin Given
    BY <2>2 DEF Given
  <2> QED BY <2>4, <2>5, <2>6, <2>7
<1> HIDE DEF g
<1>6. AskedJobs' \subseteq AskedJobs \ {j} /\ j \in AskedJobs
  <2>1. j \in AskedJobs
    BY <1>1, <1>2, <1>3 DEF AskedJobs, Asked
  <2>2. ASSUME NEW k \in AskedJobs' PROVE k \in AskedJobs \ {j}
    <3>1. PICK p \in {"unsent", "sending", "queued", "received"}, x \in Spots : k \in Jobs /\ Holds(p, x, k)'
      BY <1>2, <2>2 DEF AskedJobs, Asked
    <3>2. Holds(p, x, k) /\ ~(p = "received" /\ x = w)
      BY <3>1 DEF Moved, PlaceNames
    <3>3. k # j
      BY <1>2, <1>3, <3>1, <3>2 DEF OnePlace, PlaceNames
    <3> QED BY <3>1, <3>2, <3>3 DEF AskedJobs, Asked
  <2> QED BY <2>1, <2>2
<1>7. HandedJobs' \subseteq HandedJobs \cup {j}
  <2>1. ASSUME NEW k \in HandedJobs' PROVE k \in HandedJobs \cup {j}
    <3>1. PICK p \in {"answering", "answered", "taking", "got"}, x \in Spots : k \in Jobs /\ Holds(p, x, k)'
      BY <1>2, <2>1 DEF HandedJobs, Handed
    <3>2. Holds(p, x, k) \/ Holds("received", w, k)
      BY <3>1 DEF Moved, PlaceNames
    <3>3. Holds("received", w, k) => k = j
      BY DEF Holds, j
    <3> QED BY <3>1, <3>2, <3>3 DEF HandedJobs, Handed
  <2> QED BY <2>1
<1>8. IsFiniteSet(AskedJobs) /\ IsFiniteSet(HandedJobs) /\ IsFiniteSet(Jobs) /\ IsFiniteSet(Given)
  BY JobsAssumption, FS_Subset DEF AskedJobs, HandedJobs, WorkCounted
<1>9. /\ IsFiniteSet(Given') /\ Cardinality(Given') = Cardinality(Given) + 1
  BY <1>5, <1>8, FS_AddElement
<1>10. IsFiniteSet(AskedJobs \ {j}) /\ Cardinality(AskedJobs \ {j}) = Cardinality(AskedJobs) - 1
  BY <1>6, <1>8, FS_RemoveElement
<1>11. IsFiniteSet(AskedJobs') /\ Cardinality(AskedJobs') <= Cardinality(AskedJobs) - 1
  BY <1>6, <1>10, FS_Subset
<1>12. IsFiniteSet(HandedJobs \cup {j}) /\ Cardinality(HandedJobs \cup {j}) <= Cardinality(HandedJobs) + 1
  <2>1. Cardinality(HandedJobs) \in Nat
    BY <1>8, FS_CardinalityType
  <2>2. CASE j \in HandedJobs
    <3>1. HandedJobs \cup {j} = HandedJobs
      BY <2>2
    <3> QED BY <1>8, <2>1, <3>1
  <2>3. CASE j \notin HandedJobs
    <3>1. /\ IsFiniteSet(HandedJobs \cup {j})
          /\ Cardinality(HandedJobs \cup {j}) = IF j \in HandedJobs THEN Cardinality(HandedJobs)
                                                ELSE Cardinality(HandedJobs) + 1
      BY ONLY <1>8, FS_AddElement
    <3>2. Cardinality(HandedJobs \cup {j}) = Cardinality(HandedJobs) + 1
      BY ONLY <2>3, <3>1
    <3> QED BY ONLY <2>1, <3>1, <3>2
  <2> QED BY <2>2, <2>3
<1>13. IsFiniteSet(HandedJobs') /\ Cardinality(HandedJobs') <= Cardinality(HandedJobs \cup {j})
  BY <1>7, <1>12, FS_Subset
<1>14. /\ Cardinality(AskedJobs) \in Nat /\ Cardinality(HandedJobs) \in Nat /\ Cardinality(Jobs) \in Nat
       /\ Cardinality(AskedJobs') \in Nat /\ Cardinality(HandedJobs') \in Nat /\ Cardinality(Given) \in Nat
       /\ Cardinality(HandedJobs \cup {j}) \in Nat
  BY <1>8, <1>11, <1>12, <1>13, FS_CardinalityType
<1> QED BY <1>1, <1>9, <1>11, <1>12, <1>13, <1>14 DEF WorkCounted

LEMMA WorkStep ==
  ASSUME RoundTripInv, WorkCounted, [PoolNext]_poolVars
  PROVE  WorkCounted'
<1>0. /\ handled \in [Workers -> Nat] /\ OnePlace
      /\ worker \in [Workers -> {"unborn", "loop", "receiving", "answering", "exited"}]
  BY DEF WorkCounted, RoundTripInv, PoolInv, PoolTypeOK
<1>1. ASSUME NEW w \in Workers, WorkerStep(w) PROVE WorkCounted'
  <2>1. CASE WorkerAnswers(w)
    BY <1>1, <2>1, WorkerMoves, WorkHandedOver
  <2>2. CASE ~WorkerAnswers(w)
    <3>1. NoneHandedOver
      BY <1>1, <2>2, WorkerMoves
    <3>2. \/ worker[w] = "loop" /\ worker' = [worker EXCEPT ![w] = "receiving"] /\ handled' = handled
          \/ worker[w] = "receiving" /\ worker' = [worker EXCEPT ![w] = "exited"] /\ handled' = handled
          \/ /\ worker[w] = "answering" /\ worker' = [worker EXCEPT ![w] = "loop"]
             /\ handled' = [handled EXCEPT ![w] = @ + 1]
      BY <1>1, <2>2 DEF WorkerStep, WorkerReceives, WorkerCounts, WorkerExits
    <3>3. handled' \in [Workers -> Nat]
      BY <1>0, <3>2
    <3>4. \A v \in Workers : Due(v)' = Due(v)
      BY <1>0, <3>2 DEF Due
    <3> QED BY <3>1, <3>3, <3>4, WorkQuiet
  <2> QED BY <2>1, <2>2
<1>2. CASE MainStep
  <2>1. NoneHandedOver
    BY <1>2, MainMoves DEF Kept
  <2>2. /\ handled' = handled
        /\ \/ worker' = worker
           \/ \E w \in Workers : worker[w] = "unborn" /\ worker' = [worker EXCEPT ![w] = "loop"]
    BY <1>2 DEF MainStep, SpawnWorker, MainSends, MainClosesJobs, MainReceives, MainTakes, JoinWorkers,
                MainClosesAnswers, MainFrees
  <2>3. \A v \in Workers : Due(v)' = Due(v)
    BY <1>0, <2>2 DEF Due
  <2> QED BY <1>0, <2>1, <2>2, <2>3, WorkQuiet
<1>3. ASSUME NEW t \in PoolThreads, InJobs(t) \/ InAnswers(t) PROVE WorkCounted'
  <2>1. NoneHandedOver
    BY <1>3, InJobsMoves, InAnswersMoves DEF Kept
  <2>2. handled' = handled /\ worker' = worker
    BY <1>3 DEF InJobs, InAnswers, progVars
  <2> QED BY <1>0, <2>1, <2>2, WorkQuiet DEF Due
<1>4. CASE UNCHANGED poolVars
  <2>1. UNCHANGED <<jHead, jLen, jSlots, jPc, jArg, jAnswer, aHead, aLen, aSlots, aPc, aArg,
                    aAnswer, stage, taken, toSend, got, worker, handled>>
    BY <1>4 DEF poolVars, jobsVars, answersVars, progVars
  <2>2. LiveJobs' = LiveJobs /\ LiveAnswers' = LiveAnswers
    BY <2>1 DEF LiveJobs, LiveAnswers, JobsChan!Cap, AnswersChan!Cap
  <2>3. \A j \in Jobs : \A p \in PlaceNames : \A x \in Spots : Holds(p, x, j)' => Holds(p, x, j)
    BY <2>1, <2>2 DEF Holds
  <2>4. NoneHandedOver
    BY <1>0, <2>3, StayKeeps DEF Kept
  <2> QED BY <1>0, <2>1, <2>4, WorkQuiet DEF Due
<1> QED BY <1>1, <1>2, <1>3, <1>4 DEF PoolNext, Finished

LEMMA WorkInitial ==
  ASSUME PoolInit PROVE WorkCounted
<1>1. /\ handled = [w \in Workers |-> 0] /\ worker = [w \in Workers |-> "unborn"]
      /\ got = [j \in Jobs |-> 0] /\ stage = "spawn"
      /\ aPc = [t \in PoolThreads |-> "idle"] /\ aHead = 0 /\ aLen = 0
  BY DEF PoolInit, AnswersChan!Init
<1>2. Given = {}
  <2>1. \A w \in Workers : {w} \X (1 .. Due(w)) = {}
    BY <1>1 DEF Due
  <2> QED BY <2>1 DEF Given
<1>3. HandedJobs = {}
  <2>1. AnswersChan!Cap \in Nat
    BY CapsAssumption DEF AnswersChan!Cap
  <2>2. LiveAnswers = {}
    BY <1>1, <2>1 DEF LiveAnswers, Live
  <2> QED BY <1>1, <2>2 DEF HandedJobs, Handed, Holds, PoolThreads
<1>4. IsFiniteSet(AskedJobs) /\ Cardinality(AskedJobs) <= Cardinality(Jobs)
  BY JobsAssumption, FS_Subset DEF AskedJobs
<1>5. Cardinality(AskedJobs) \in Nat /\ Cardinality(Jobs) \in Nat
  BY <1>4, JobsAssumption, FS_CardinalityType
<1> QED BY <1>1, <1>2, <1>3, <1>4, <1>5, FS_EmptySet DEF WorkCounted

(* Through two rings, any number of workers and every interleaving: when     *)
(* main frees the channels every job has been answered exactly once, and the *)
(* workers' results add up to the number of jobs.                            *)
THEOREM PoolRoundTrip == PoolSpec => []EveryJobAnsweredOnce
<1>1. RoundTripInv /\ WorkCounted => EveryJobAnsweredOnce
  <2> SUFFICES ASSUME RoundTripInv, WorkCounted, stage = "free"
               PROVE  JobsAnsweredOnce /\ Cardinality(Counted) = Cardinality(Jobs)
    BY DEF EveryJobAnsweredOnce
  <2>1. CountOK /\ JoinedBeforeFree
    BY DEF RoundTripInv, PoolInv
  <2>2. {j \in Jobs : got[j] = 1} = Jobs
    <3>1. Cardinality({j \in Jobs : got[j] = 1}) = Cardinality(Jobs)
      BY <2>1 DEF CountOK
    <3> QED BY <3>1, JobsAssumption, FS_Subset
  <2>3. JobsAnsweredOnce
    BY <2>2 DEF JobsAnsweredOnce
  <2>4. HandedJobs = Jobs
    <3>1. \A j \in Jobs : Holds("got", Main, j)
      BY <2>2 DEF Holds
    <3> QED BY <3>1 DEF HandedJobs, Handed, Spots, PoolThreads
  <2>5. Counted = Given
    <3>1. \A w \in Workers : Due(w) = handled[w]
      BY <2>1 DEF JoinedBeforeFree, Due, WorkCounted
    <3> QED BY <3>1 DEF Counted, Given
  <2>6. IsFiniteSet(AskedJobs)
    BY JobsAssumption, FS_Subset DEF AskedJobs
  <2>7. Cardinality(AskedJobs) \in Nat /\ Cardinality(Jobs) \in Nat /\ Cardinality(Given) \in Nat
    BY <2>6, JobsAssumption, FS_CardinalityType DEF WorkCounted
  <2> QED BY <2>3, <2>4, <2>5, <2>7 DEF WorkCounted
<1>2. RoundTripInv /\ WorkCounted /\ [PoolNext]_poolVars => WorkCounted'
  BY WorkStep
<1>3. PoolInit => WorkCounted
  BY WorkInitial
<1> QED BY <1>1, <1>2, <1>3, RoundTripInitial, RoundTripStep, PTL DEF PoolSpec

(* No answer reaches main twice.                                             *)
NoJobAnsweredTwice == \A j \in Jobs : got[j] <= 1

(* Before that too, no answer reaches main twice.                            *)
THEOREM PoolAnswersOnce == PoolSpec => []NoJobAnsweredTwice
<1>1. RoundTripInv => NoJobAnsweredTwice
  BY DEF RoundTripInv, CountOK, NoJobAnsweredTwice
<1> QED BY <1>1, RoundTripInitial, RoundTripStep, PTL DEF PoolSpec
=============================================================================
